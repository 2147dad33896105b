------------------------- MODULE Translator_proofs -------------------------
(***************************************************************************)
(* The translation of a function, for every function and every vector of   *)
(* instructions. First the composition: the invariants of the register     *)
(* tables and of the block hierarchy survive it, and the operands on the   *)
(* tracked stack are told apart. Then what the emitted code computes: up   *)
(* to the first instruction that is Miscompiled, and while the registers   *)
(* fit their ten bits, the registers the pass tracks hold the values wasm  *)
(* has on its stack.                                                       *)
(***************************************************************************)
EXTENDS Translator, BlockHierarchy_proofs, UbhCode_proofs, WellFoundedInduction

\* The tables are complete before the hierarchy is returned: the translation only
\* asks for temporaries when no local can be added any more.
TransInv ==
    /\ HierInv
    /\ UbhInv
    /\ build # "running" => ctor = "ready"
    /\ pc \in Nat \ {0}
    /\ wasm_stack \in Seq(WASM_STACK_ELEM)
    /\ StackOwned

\* Popping keeps what is below.
LEMMA KeepFacts ==
    ASSUME wasm_stack \in Seq(WASM_STACK_ELEM), NEW n \in Nat, n <= Len(wasm_stack)
    PROVE  /\ Keep(n) \in Seq(WASM_STACK_ELEM)
           /\ Len(Keep(n)) = Len(wasm_stack) - n
           /\ \A k \in 1 .. Len(Keep(n)) : /\ Keep(n)[k] = wasm_stack[k]
                                           /\ k \in DOMAIN wasm_stack
<1>1. /\ Len(wasm_stack) \in Nat /\ DOMAIN wasm_stack = 1 .. Len(wasm_stack)
      /\ \A k \in 1 .. Len(wasm_stack) : wasm_stack[k] \in WASM_STACK_ELEM
  BY LenProperties, SMTT(30)
<1>2. PICK m \in Nat : m = Len(wasm_stack) - n
  <2>1. PICK l \in Nat : l = Len(wasm_stack)  BY <1>1
  <2>2. l - n \in Nat  BY <2>1
  <2> QED BY <2>1, <2>2
<1>3. \A k \in 1 .. m : wasm_stack[k] \in WASM_STACK_ELEM  BY <1>1, <1>2
<1>4. Keep(n) = SubSeq(wasm_stack, 1, m)  BY <1>2 DEF Keep
<1>5. m \in Int /\ 1 \in Int  BY <1>2
<1>6. /\ Keep(n) \in Seq(WASM_STACK_ELEM)
      /\ Len(Keep(n)) = IF 1 <= m THEN m - 1 + 1 ELSE 0
      /\ \A k \in 1 .. m - 1 + 1 : Keep(n)[k] = wasm_stack[1 + k - 1]
  BY ONLY <1>3, <1>4, <1>5, SubSeqProperties
<1>7. m - 1 + 1 = m /\ (~(1 <= m) => m = 0) /\ \A k \in 1 .. m : 1 + k - 1 = k
  BY <1>2
<1>8. Len(Keep(n)) = m /\ \A k \in 1 .. m : Keep(n)[k] = wasm_stack[k]  BY <1>6, <1>7
<1>9. \A k \in 1 .. m : k \in DOMAIN wasm_stack  BY <1>1, <1>2
<1> QED BY <1>2, <1>6, <1>8, <1>9, SMTT(30)

\* A step that only pops, and hands out no temporary.
LEMMA PopPreserves ==
    ASSUME TransInv, UNCHANGED <<hierVars, ubhVars>>, pc' \in {pc, pc + 1},
           NEW n \in Nat, n <= Len(wasm_stack), wasm_stack' = Keep(n)
    PROVE  TransInv'
<1>1. HierInv'  BY DEF TransInv, HierInv, hierVars, HierTypeOK
<1>2. UbhInv'
  BY ZenonT(60) DEF TransInv, UbhInv, ubhVars, UbhTypeOK, RegisterBounds, RegistersApart
<1>3. /\ wasm_stack' \in Seq(WASM_STACK_ELEM)
      /\ DOMAIN wasm_stack' = 1 .. Len(wasm_stack')
      /\ \A k \in DOMAIN wasm_stack' : wasm_stack'[k] = wasm_stack[k] /\ k \in DOMAIN wasm_stack
  BY KeepFacts, LenProperties DEF TransInv
<1>4. UNCHANGED <<local_map, temps, build, ctor>>  BY DEF hierVars, ubhVars
<1>5. StackOwned'  BY <1>3, <1>4 DEF TransInv, StackOwned
<1> QED BY <1>1, <1>2, <1>3, <1>4, <1>5 DEF TransInv

\* A step that touches none of stack, tables and blocks keeps the invariant.
LEMMA StutterPreserves ==
    ASSUME TransInv, UNCHANGED <<hierVars, ubhVars, wasm_stack>>, pc' \in {pc, pc + 1}
    PROVE  TransInv'
<1>1. HierInv'  BY DEF TransInv, HierInv, hierVars, HierTypeOK
<1>2. UbhInv'
  BY ZenonT(60) DEF TransInv, UbhInv, ubhVars, UbhTypeOK, RegisterBounds, RegistersApart
<1>3. UNCHANGED <<local_map, temps, build, ctor, wasm_stack>>  BY DEF hierVars, ubhVars
<1> QED BY <1>1, <1>2, <1>3 DEF TransInv, StackOwned

\* A step that pops and pushes a fresh temporary: it is numbered above all others.
LEMMA PushPreserves ==
    ASSUME TransInv, build = "returned", UNCHANGED hierVars, pc' \in {pc, pc + 1},
           NEW n \in Nat, n <= Len(wasm_stack), PushTempReg(n)
    PROVE  TransInv'
<1> DEFINE r == NextTemp("I32")
           new == [kind |-> "TEMP", idx |-> r]
           low == Keep(n)
           m == Len(low) + 1
<1>1. HierInv'  BY DEF TransInv, HierInv, hierVars, HierTypeOK
<1>2. ctor = "ready" /\ "I32" \in NumTypes /\ UbhTypeOK
  BY DEF TransInv, NumTypes, UbhInv
<1>3. Push_temp_reg("I32")  BY DEF PushTempReg
<1>4. UbhInv'  BY <1>2, <1>3, PushTempPreserves DEF TransInv
<1>5. Len(local_table["I32"]) \in Nat /\ r \in Nat /\ r = Len(local_table["I32"]) + 4
  BY <1>2, TableFacts DEF NextTemp, CONST_REG_NUM, RET_REG_NUM
<1>6. /\ low \in Seq(WASM_STACK_ELEM)
      /\ \A k \in 1 .. Len(low) : low[k] = wasm_stack[k] /\ k \in DOMAIN wasm_stack
  BY KeepFacts DEF TransInv
<1>7. new \in WASM_STACK_ELEM  BY <1>5 DEF WASM_STACK_ELEM
<1>8. wasm_stack' = Append(low, new)  BY DEF PushTempReg
<1>9. /\ wasm_stack' \in Seq(WASM_STACK_ELEM) /\ Len(wasm_stack') = m
      /\ wasm_stack'[m] = new
      /\ \A k \in 1 .. Len(low) : wasm_stack'[k] = low[k]
  <2> HIDE DEF low, new
  <2> QED BY <1>6, <1>7, <1>8, AppendProperties
<1>10. DOMAIN wasm_stack' = 1 .. m /\ Len(low) \in Nat  BY <1>6, <1>9, LenProperties
<1>11. /\ \A k \in 1 .. m - 1 : wasm_stack'[k] = wasm_stack[k] /\ k \in DOMAIN wasm_stack
       /\ \A k \in DOMAIN wasm_stack' : k # m => k \in 1 .. m - 1
  BY <1>6, <1>9, <1>10
<1>12. /\ temps' = Append(temps, [type |-> "I32", reg |-> r])
       /\ UNCHANGED <<local_map, ctor>>
  BY <1>3 DEF Push_temp_reg
<1>13. /\ Len(temps) + 1 \in DOMAIN temps'
       /\ temps'[Len(temps) + 1] = [type |-> "I32", reg |-> r]
       /\ \A t \in DOMAIN temps : t \in DOMAIN temps' /\ temps'[t] = temps[t]
  <2>1. temps \in Seq(TempRec) /\ [type |-> "I32", reg |-> r] \in TempRec
    BY <1>2, <1>5 DEF UbhTypeOK, TempRec
  <2> HIDE DEF r
  <2>2. /\ temps' \in Seq(TempRec) /\ Len(temps') = Len(temps) + 1
        /\ temps'[Len(temps) + 1] = [type |-> "I32", reg |-> r]
        /\ \A t \in 1 .. Len(temps) : temps'[t] = temps[t]
    BY <1>12, <2>1, AppendProperties
  <2>3. DOMAIN temps' = 1 .. Len(temps) + 1 /\ DOMAIN temps = 1 .. Len(temps) /\ Len(temps) \in Nat
    BY <2>1, <2>2, LenProperties
  <2> QED BY <2>2, <2>3
<1>14. \A k \in 1 .. m - 1 : wasm_stack[k].kind = "TEMP" => wasm_stack[k].idx < r
  <2> SUFFICES ASSUME NEW k \in 1 .. m - 1, wasm_stack[k].kind = "TEMP"
               PROVE  wasm_stack[k].idx < r
    OBVIOUS
  <2>1. PICK t \in DOMAIN temps : temps[t] = [type |-> "I32", reg |-> wasm_stack[k].idx]
    BY <1>11 DEF TransInv, StackOwned
  <2>2. temps[t].type = "I32" /\ temps[t].reg = wasm_stack[k].idx  BY <2>1
  <2>3. temps[t].reg < Len(local_table["I32"]) + 2 + 2
    BY <2>2 DEF TransInv, UbhInv, RegisterBounds, CONST_REG_NUM, RET_REG_NUM
  <2>4. temps[t].reg \in Nat  BY <1>2, TableFacts
  <2> QED BY <1>5, <2>2, <2>3, <2>4
<1> HIDE DEF r, low, m
<1>15. StackOwned'
  <2>1. ASSUME NEW k \in DOMAIN wasm_stack'
        PROVE  IF wasm_stack'[k].kind = "LOCAL"
               THEN \E l \in DOMAIN local_map' : wasm_stack'[k].idx = local_map'[l]
               ELSE \E t \in DOMAIN temps' :
                        temps'[t] = [type |-> "I32", reg |-> wasm_stack'[k].idx]
    <3>1. CASE k = m
      BY <1>9, <1>13, <3>1
    <3>2. CASE k # m
      <4>1. wasm_stack'[k] = wasm_stack[k] /\ k \in DOMAIN wasm_stack  BY <1>11, <3>2
      <4> QED BY <1>12, <1>13, <4>1 DEF TransInv, StackOwned
    <3> QED BY <3>1, <3>2
  <2>2. ASSUME NEW k \in DOMAIN wasm_stack', NEW l \in DOMAIN wasm_stack', k < l,
               wasm_stack'[k].kind = "TEMP", wasm_stack'[l].kind = "TEMP"
        PROVE  wasm_stack'[k].idx < wasm_stack'[l].idx
    <3>1. k # m /\ k \in 1 .. m - 1
      BY <1>10, <2>2 DEF m
    <3>2. CASE l = m
      BY <1>9, <1>11, <1>14, <2>2, <3>1, <3>2
    <3>3. CASE l # m
      BY <1>11, <2>2, <3>1, <3>3 DEF TransInv, StackOwned
    <3> QED BY <3>2, <3>3
  <2> QED BY <2>1, <2>2 DEF StackOwned
<1>16. build' = "returned" /\ ctor' = "ready"  BY <1>2, <1>12 DEF hierVars
<1> QED BY <1>1, <1>4, <1>9, <1>15, <1>16 DEF TransInv

\* local.get: the register pushed is the local's own.
LEMMA LocalGetPreserves == ASSUME TransInv, LocalGet PROVE TransInv'
<1> DEFINE new == [kind |-> "LOCAL", idx |-> local_map[Cur.imm + 1]]
           m == Len(wasm_stack) + 1
<1>1. HierInv'  BY DEF LocalGet, Continue, TransInv, HierInv, hierVars, HierTypeOK
<1>2. UbhInv'
  BY ZenonT(60) DEF LocalGet, TransInv, UbhInv, ubhVars, UbhTypeOK, RegisterBounds, RegistersApart
<1>3. UNCHANGED <<local_map, temps, build, ctor>> /\ pc' = pc + 1
  BY DEF LocalGet, Continue, hierVars, ubhVars
<1>4. Cur.imm + 1 \in DOMAIN local_map /\ local_map[Cur.imm + 1] \in Nat
  <2>1. ins \in Seq(Inst)  BY DEF TransInv, HierInv, HierTypeOK
  <2>2. pc \in 1 .. Len(ins)
    BY <2>1, LenProperties DEF TransInv, LocalGet, Translates
  <2>3. ins[pc] \in Inst  BY <2>1, <2>2, LenProperties
  <2>4. Cur.imm \in Nat /\ Cur.imm < Len(local_map)  BY <2>3 DEF Inst, Cur, LocalGet
  <2>5. /\ Len(local_map) \in Nat /\ DOMAIN local_map = 1 .. Len(local_map)
        /\ \A l \in 1 .. Len(local_map) : local_map[l] \in Nat
    BY LenProperties DEF TransInv, UbhInv, UbhTypeOK
  <2>6. Cur.imm + 1 \in 1 .. Len(local_map)  BY <2>4, <2>5
  <2> QED BY <2>5, <2>6
<1>5. new \in WASM_STACK_ELEM  BY <1>4 DEF WASM_STACK_ELEM
<1>6. wasm_stack' = Append(wasm_stack, new)  BY DEF LocalGet
<1>7. /\ wasm_stack' \in Seq(WASM_STACK_ELEM) /\ Len(wasm_stack') = m
      /\ wasm_stack'[m] = new
      /\ \A k \in 1 .. Len(wasm_stack) : wasm_stack'[k] = wasm_stack[k]
  <2> HIDE DEF new
  <2> QED BY <1>5, <1>6, AppendProperties DEF TransInv
<1>8. /\ DOMAIN wasm_stack' = 1 .. m
      /\ DOMAIN wasm_stack = 1 .. Len(wasm_stack) /\ Len(wasm_stack) \in Nat
  BY <1>7, LenProperties DEF TransInv
<1>9. \A k \in DOMAIN wasm_stack' : k # m => k \in DOMAIN wasm_stack /\ wasm_stack'[k] = wasm_stack[k]
  BY <1>7, <1>8
<1>10. wasm_stack'[m].kind = "LOCAL" /\ wasm_stack'[m].idx = local_map[Cur.imm + 1]
  BY <1>7
<1> HIDE DEF m, new
<1>11. StackOwned'
  <2>1. ASSUME NEW k \in DOMAIN wasm_stack'
        PROVE  IF wasm_stack'[k].kind = "LOCAL"
               THEN \E l \in DOMAIN local_map' : wasm_stack'[k].idx = local_map'[l]
               ELSE \E t \in DOMAIN temps' :
                        temps'[t] = [type |-> "I32", reg |-> wasm_stack'[k].idx]
    <3>1. CASE k = m  BY <1>3, <1>4, <1>10, <3>1
    <3>2. CASE k # m  BY <1>3, <1>9, <3>2 DEF TransInv, StackOwned
    <3> QED BY <3>1, <3>2
  <2>2. ASSUME NEW k \in DOMAIN wasm_stack', NEW l \in DOMAIN wasm_stack', k < l,
               wasm_stack'[k].kind = "TEMP", wasm_stack'[l].kind = "TEMP"
        PROVE  wasm_stack'[k].idx < wasm_stack'[l].idx
    <3>1. k # m /\ l # m  BY <1>10, <2>2
    <3> QED BY <1>9, <2>2, <3>1 DEF TransInv, StackOwned
  <2> QED BY <2>1, <2>2 DEF StackOwned
<1> QED BY <1>1, <1>2, <1>3, <1>7, <1>11 DEF TransInv

\* Until the translation starts only one of the two passes moves.
LEMMA PrepareStep == ASSUME TransInv, Prepare PROVE TransInv'
<1>1. UNCHANGED <<pc, wasm_stack>>  BY DEF Prepare, transVars
<1>2. CASE ConstructStep /\ UNCHANGED <<hierVars, transVars>>
  <2>1. HierInv'  BY <1>2 DEF TransInv, HierInv, hierVars, HierTypeOK
  <2>2. UbhInv'  BY <1>2, UbhInvNext DEF TransInv, UbhNext
  <2>3. ctor # "ready" /\ build = "running" /\ temps = <<>>
    <3>1. ctor # "ready"
      BY <1>2 DEF ConstructStep, ReadParam, ParamsRead, ReadLocal, ReadF64Local, LocalsRead,
                  UnknownType
    <3> QED BY <3>1 DEF TransInv, UbhInv, RegisterBounds
  <2>4. build' = "running"  BY <1>2, <2>3 DEF hierVars
  <2>5. StackOwned'
    <3>1. UNCHANGED temps
      BY <1>2 DEF ConstructStep, ReadParam, ParamsRead, ReadLocal, ReadF64Local, LocalsRead,
                  UnknownType, MapLocal
    <3>2. \A l \in DOMAIN local_map : l \in DOMAIN local_map' /\ local_map'[l] = local_map[l]
      <4>1. local_map \in Seq(Nat) /\ UbhTypeOK  BY DEF TransInv, UbhInv, UbhTypeOK
      <4>2. CASE UNCHANGED local_map  BY <4>2
      <4>3. CASE \E t \in NumTypes, kind \in {"FORMAL_PARAM", "LOCAL"} : MapLocal(t, kind)
        <5>1. PICK t \in NumTypes :
                local_map' = Append(local_map, Len(local_table[t]) + 1 + RET_REG_NUM)
          BY <4>3 DEF MapLocal
        <5>2. Len(local_table[t]) + 1 + RET_REG_NUM \in Nat
          BY <4>1, TableFacts DEF RET_REG_NUM
        <5>3. /\ local_map' \in Seq(Nat) /\ Len(local_map') = Len(local_map) + 1
              /\ \A l \in 1 .. Len(local_map) : local_map'[l] = local_map[l]
          BY <4>1, <5>1, <5>2, AppendProperties
        <5>4. /\ DOMAIN local_map = 1 .. Len(local_map) /\ Len(local_map) \in Nat
              /\ DOMAIN local_map' = 1 .. Len(local_map')
          BY <4>1, <5>3, LenProperties
        <5> QED BY <5>3, <5>4
      <4> QED BY <1>2, <4>2, <4>3 DEF ConstructStep, ReadParam, ParamsRead, ReadLocal,
                                      ReadF64Local, LocalsRead, UnknownType
    <3> QED BY <1>1, <3>1, <3>2 DEF TransInv, StackOwned
  <2> QED BY <1>1, <2>1, <2>2, <2>4, <2>5 DEF TransInv
<1>3. CASE ctor = "ready" /\ HierNext /\ UNCHANGED <<ubhVars, transVars>>
  <2>1. HierInv'  BY <1>3, HierInvNext DEF TransInv
  <2>2. UbhInv'
    BY <1>3, ZenonT(60) DEF TransInv, UbhInv, ubhVars, UbhTypeOK, RegisterBounds, RegistersApart
  <2>3. UNCHANGED <<local_map, temps>> /\ ctor' = "ready"  BY <1>3 DEF ubhVars
  <2> QED BY <1>1, <2>1, <2>2, <2>3 DEF TransInv, StackOwned
<1> QED BY <1>2, <1>3 DEF Prepare

\* Where the translation starts, for any vector and any function.
TransStart ==
    /\ HierStart /\ UbhStart
    /\ pc = BLOCK_INSTR_BEGIN /\ wasm_stack = <<>> /\ label_tab = <<>>
    /\ uinsts = <<>> /\ trans = "translating"

\* Those of the specification are among these.
LEMMA TransStarts == TransInit => TransStart
BY HierStarts, UbhStarts DEF TransInit, TransStart

\* The stack, the tables and the blocks are empty at the start.
LEMMA TransInvInit == TransStart => TransInv
<1> SUFFICES ASSUME TransStart PROVE TransInv  OBVIOUS
<1>1. HierInv /\ UbhInv  BY HierInvInit, UbhInvInit DEF TransStart
<1>2. build = "running" /\ pc \in Nat \ {0} /\ wasm_stack = <<>>
  BY DEF TransStart, HierStart, BLOCK_INSTR_BEGIN
<1> QED BY <1>1, <1>2 DEF TransInv, StackOwned

\* Every step of the translation keeps the invariant of the composition.
LEMMA TransInvNext == TransInv /\ [TransNext]_convVars => TransInv'
<1> SUFFICES ASSUME TransInv, [TransNext]_convVars PROVE TransInv'  OBVIOUS
<1>1. Len(wasm_stack) \in Nat /\ (wasm_stack # <<>> => 1 <= Len(wasm_stack))
  BY LenProperties, EmptySeq DEF TransInv
<1>2. \A ops : Translates(ops) => build = "returned"  BY DEF Translates
<1>3. CASE Prepare  BY <1>3, PrepareStep
<1>4. ASSUME NEW how, Stop(how) PROVE TransInv'
  BY <1>4, StutterPreserves DEF Stop
<1>5. CASE BranchAborts \/ NoRegister \/ BinaryAborts \/ NotInTable \/ PopsEmptyStack \/ EndOfPass
  BY <1>4, <1>5 DEF BranchAborts, NoRegister, BinaryAborts, NotInTable, PopsEmptyStack, EndOfPass
<1>6. CASE Jump \/ Default
  BY <1>6, StutterPreserves DEF Jump, Default, Continue
<1>7. CASE CondJump \/ Return
  BY <1>1, <1>7, PopPreserves DEF CondJump, Return, Continue
<1>8. CASE NoJump
  BY <1>1, <1>8, PopPreserves, StutterPreserves DEF NoJump, Continue
<1>9. CASE Skip
  BY <1>1, <1>9, PopPreserves, StutterPreserves DEF Skip, Continue
<1>10. CASE LocalGet  BY <1>10, LocalGetPreserves
<1>11. CASE LocalSetTee
  BY <1>1, <1>11, PopPreserves, StutterPreserves DEF LocalSetTee, Continue
<1>12. CASE I32Store
  BY <1>12, PopPreserves DEF I32Store, Continue
<1>13. CASE I32Load
  BY <1>1, <1>13, PushPreserves DEF I32Load, Continue, Translates
<1>14. CASE I32Const
  BY <1>1, <1>14, PushPreserves DEF I32Const, Continue, Translates
<1>15. CASE Binary
  BY <1>15, PushPreserves DEF Binary, Continue, Translates
<1>16. CASE UNCHANGED convVars
  BY <1>16, StutterPreserves DEF convVars, transVars
<1> QED BY <1>3, <1>5, <1>6, <1>7, <1>8, <1>9, <1>10, <1>11, <1>12, <1>13, <1>14, <1>15, <1>16
        DEF TransNext, TranslateStep

\* The invariant holds of every state of the translation.
LEMMA TransInvariant == TransSpec => []TransInv
<1>1. TransStart => TransInv  BY TransInvInit
<1>2. TransInv /\ [TransNext]_convVars => TransInv'  BY TransInvNext
<1> QED BY <1>1, <1>2, TransStarts, PTL DEF TransSpec
-----------------------------------------------------------------------------
\* While a function is translated, whatever its instructions and its locals, every
\* tracked operand is a local's register or a temporary of its own, older ones
\* below newer ones: no pop or push confuses two operands.
THEOREM TransStackOwned == TransSpec => []StackOwned
<1>1. TransInv => StackOwned  BY DEF TransInv
<1> QED BY <1>1, TransInvariant, PTL

\* The registers stay apart while the translation hands out temporaries in the
\* order the instructions ask for them, not only when the tables stand alone.
THEOREM TransRegistersApart == TransSpec => []RegistersApart
<1>1. TransInv => RegistersApart  BY DEF TransInv, UbhInv
<1> QED BY <1>1, TransInvariant, PTL

\* The hierarchy the label search walks is laminar with innermost parents at every
\* step of the translation.
THEOREM TransHierarchy == TransSpec => [](Laminar /\ ParentInnermost)
<1>1. TransInv => Laminar /\ ParentInnermost
  BY DEF TransInv, HierInv, TreeInv, Laminar, ParentInnermost
<1> QED BY <1>1, TransInvariant, PTL
-----------------------------------------------------------------------------

(* Induction as a fact about sets, which the provers can use without        *)
(* instantiating a predicate.                                               *)

\* A set with 0 and the successor of each of its numbers has all of them.
LEMMA SetInduction ==
    ASSUME NEW S, 0 \in S, \A n \in Nat : n \in S => n + 1 \in S
    PROVE  Nat \subseteq S
<1> SUFFICES ASSUME ~(Nat \subseteq S) PROVE FALSE
  OBVIOUS
<1> DEFINE T == Nat \ S
           R == OpToRel(<, Nat)
<1>1. T \subseteq Nat /\ T # {}  OBVIOUS
<1>2. PICK x \in T : \A y \in T : ~(<<y, x>> \in R)
  <2> HIDE DEF T, R
  <2>1. IsWellFoundedOn(R, Nat)  BY NatLessThanWellFounded DEF R
  <2> QED BY <1>1, <2>1, WFMin, Zenon
<1>3. x \in Nat /\ x # 0 /\ x \notin S /\ x - 1 \in Nat  OBVIOUS
<1>4. x - 1 \in S
  <2> SUFFICES ASSUME x - 1 \notin S PROVE FALSE
    OBVIOUS
  <2>1. <<x - 1, x>> \in R  BY <1>3 DEF OpToRel
  <2> QED BY <1>2, <1>3, <2>1
<1>5. PICK n \in Nat : n = x - 1  BY <1>3
<1>6. n + 1 = x  BY <1>3, <1>5
<1> QED BY <1>3, <1>4, <1>5, <1>6

\* A set of numbers with an element has a smallest one.
LEMMA SmallestOf ==
    ASSUME NEW T, T \subseteq Nat, T # {}
    PROVE  \E x \in T : \A y \in T : x <= y
<1> DEFINE R == OpToRel(<, Nat)
<1>1. PICK x \in T : \A y \in T : ~(<<y, x>> \in R)
  <2> HIDE DEF R
  <2>1. IsWellFoundedOn(R, Nat)  BY NatLessThanWellFounded DEF R
  <2> QED BY <2>1, WFMin, Zenon
<1>2. ASSUME NEW y \in T PROVE x <= y
  <2>1. x \in Nat /\ y \in Nat  OBVIOUS
  <2>2. y < x => <<y, x>> \in R  BY <2>1 DEF OpToRel
  <2> HIDE DEF R
  <2> QED BY <1>1, <2>1, <2>2
<1> QED BY <1>2
-----------------------------------------------------------------------------
(* The table of uwasm's instructions: the modes of those the pass emits.     *)

\* Where the rows that come from runs of equal opcodes get their names.
LEMMA NumericRows ==
    ASSUME NEW c \in 40 .. 191
    PROVE  WINST_OPCODE[c] = NumericNames[c - 39]
BY DEF WINST_OPCODE

\* A row of a run of equal opcodes, and any row.
RunRow(c, am)          == Row(NumericNames[c - 39], c, c, am)
InRun(row, lo, hi, am) == \E c \in Nat : lo <= c /\ c <= hi /\ row = RunRow(c, am)
MovRow                 == Row("UMOV", 192, 192, "AM32_R_R")

RunRows(am)            == {RunRow(c, am) : c \in Nat}

RunModes               == {"AM64_R_R_OFS", "AM32_R", "AM64_R_OFS", "AM64_R_R_R"}

UwRow == ToSet(ControlRows) \cup (UNION {RunRows(am) : am \in RunModes}) \cup {MovRow}

\* The elements of a concatenation are those of its parts.
LEMMA ConcatElements ==
    ASSUME NEW S, NEW s \in Seq(S), NEW t \in Seq(S)
    PROVE  /\ s \o t \in Seq(S) /\ ToSet(s \o t) = ToSet(s) \cup ToSet(t)
           /\ 1 \in DOMAIN s => 1 \in DOMAIN (s \o t) /\ (s \o t)[1] = s[1]
<1>1. /\ s \o t \in Seq(S) /\ Len(s \o t) = Len(s) + Len(t)
      /\ \A i \in 1 .. Len(s) + Len(t) :
            (s \o t)[i] = IF i <= Len(s) THEN s[i] ELSE t[i - Len(s)]
  BY ConcatProperties
<1>2. /\ Len(s) \in Nat /\ Len(t) \in Nat /\ DOMAIN s = 1 .. Len(s) /\ DOMAIN t = 1 .. Len(t)
      /\ DOMAIN (s \o t) = 1 .. Len(s) + Len(t)
  BY <1>1, LenProperties
<1>3. ASSUME NEW e \in ToSet(s \o t) PROVE e \in ToSet(s) \cup ToSet(t)
  <2>1. PICK i \in 1 .. Len(s) + Len(t) : e = (s \o t)[i]  BY <1>2 DEF ToSet
  <2>2. CASE i <= Len(s)
    <3>1. i \in DOMAIN s /\ e = s[i]  BY <1>1, <1>2, <2>1, <2>2
    <3> QED BY <3>1 DEF ToSet
  <2>3. CASE ~(i <= Len(s))
    <3>1. i - Len(s) \in DOMAIN t /\ e = t[i - Len(s)]  BY <1>1, <1>2, <2>1, <2>3
    <3> QED BY <3>1 DEF ToSet
  <2> QED BY <2>2, <2>3
<1>4. ASSUME NEW e \in ToSet(s) PROVE e \in ToSet(s \o t)
  <2>1. PICK i \in DOMAIN s : e = s[i]  BY DEF ToSet
  <2>2. i \in DOMAIN (s \o t) /\ e = (s \o t)[i]  BY <1>1, <1>2, <2>1
  <2> QED BY <2>2 DEF ToSet
<1>5. ASSUME NEW e \in ToSet(t) PROVE e \in ToSet(s \o t)
  <2>1. PICK i \in DOMAIN t : e = t[i]  BY DEF ToSet
  <2>2. /\ i + Len(s) \in DOMAIN (s \o t) /\ ~(i + Len(s) <= Len(s))
        /\ i + Len(s) - Len(s) = i /\ i + Len(s) \in 1 .. Len(s) + Len(t)
    BY <1>2
  <2>3. e = (s \o t)[i + Len(s)]  BY <1>1, <2>1, <2>2
  <2> QED BY <2>2, <2>3 DEF ToSet
<1>6. 1 \in DOMAIN s => 1 \in DOMAIN (s \o t) /\ (s \o t)[1] = s[1]  BY <1>1, <1>2
<1> QED BY <1>1, <1>3, <1>4, <1>5, <1>6

\* The rows of a run of equal opcodes.
LEMMA SameRows ==
    ASSUME NEW lo \in Nat, NEW hi \in Nat, NEW am \in RunModes, 40 <= lo, lo <= hi, hi <= 191
    PROVE  /\ Same(lo, hi, am) \in Seq(UwRow)
           /\ \A row : row \in ToSet(Same(lo, hi, am)) <=> InRun(row, lo, hi, am)
<1>1. ASSUME NEW k \in 1 .. hi - lo + 1
      PROVE  \E c \in Nat : lo <= c /\ c <= hi /\ Same(lo, hi, am)[k] = RunRow(c, am)
  <2>1. PICK c \in Nat : c = lo + k - 1 /\ lo <= c /\ c <= hi  OBVIOUS
  <2>2. Same(lo, hi, am)[k] = Row(WINST_OPCODE[c], c, c, am)  BY <2>1 DEF Same
  <2>3. c \in 40 .. 191  BY <2>1
  <2>4. WINST_OPCODE[c] = NumericNames[c - 39]  BY <2>3, NumericRows
  <2> QED BY <2>1, <2>2, <2>4 DEF RunRow
<1>2. DOMAIN Same(lo, hi, am) = 1 .. hi - lo + 1 /\ hi - lo + 1 \in Nat  BY DEF Same
<1>3. Same(lo, hi, am) \in Seq(UwRow)
  <2>1. Same(lo, hi, am) = [k \in 1 .. hi - lo + 1 |-> Same(lo, hi, am)[k]]  BY DEF Same
  <2>2. \A k \in 1 .. hi - lo + 1 : Same(lo, hi, am)[k] \in UwRow
    <3>1. \A k \in 1 .. hi - lo + 1 : Same(lo, hi, am)[k] \in RunRows(am)  BY <1>1 DEF RunRows
    <3>2. RunRows(am) \subseteq UwRow  BY Zenon DEF UwRow
    <3> QED BY <3>1, <3>2
  <2>3. Same(lo, hi, am) \in [1 .. hi - lo + 1 -> UwRow]  BY <2>1, <2>2
  <2> QED BY <1>2, <2>3, SeqDef
<1>4. ASSUME NEW row, row \in ToSet(Same(lo, hi, am)) PROVE InRun(row, lo, hi, am)
  <2>1. PICK k \in 1 .. hi - lo + 1 : row = Same(lo, hi, am)[k]  BY <1>2, <1>4 DEF ToSet
  <2> QED BY <1>1, <2>1 DEF InRun
<1>5. ASSUME NEW row, InRun(row, lo, hi, am) PROVE row \in ToSet(Same(lo, hi, am))
  <2>1. PICK c \in Nat : lo <= c /\ c <= hi /\ row = RunRow(c, am)  BY <1>5 DEF InRun
  <2>2. PICK k \in 1 .. hi - lo + 1 : k = c - lo + 1  BY <2>1
  <2>3. lo + k - 1 = c /\ c \in 40 .. 191  BY <2>1, <2>2
  <2>4. Same(lo, hi, am)[k] = Row(WINST_OPCODE[c], c, c, am)  BY <2>3 DEF Same
  <2>5. WINST_OPCODE[c] = NumericNames[c - 39]  BY <2>3, NumericRows
  <2> QED BY <1>2, <2>1, <2>2, <2>4, <2>5 DEF ToSet, RunRow
<1> QED BY <1>3, <1>4, <1>5

\* What the table holds.
LEMMA TableRows ==
    /\ UWASM_META_INFO \in Seq(UwRow) /\ UWASM_META_INFO[1] = ControlRows[1]
    /\ \A row : row \in ToSet(UWASM_META_INFO) <=>
          \/ row \in ToSet(ControlRows)
          \/ InRun(row, 40, 62, "AM64_R_R_OFS")
          \/ InRun(row, 63, 64, "AM32_R")
          \/ InRun(row, 65, 69, "AM64_R_OFS")
          \/ InRun(row, 70, 72, "AM64_R_R_R")
          \/ InRun(row, 73, 105, "AM64_R_OFS")
          \/ InRun(row, 106, 191, "AM64_R_R_R")
          \/ row = MovRow
<1> DEFINE s1 == Same(40, 62, "AM64_R_R_OFS")
           s2 == Same(63, 64, "AM32_R")
           s3 == Same(65, 69, "AM64_R_OFS")
           s4 == Same(70, 72, "AM64_R_R_R")
           s5 == Same(73, 105, "AM64_R_OFS")
           s6 == Same(106, 191, "AM64_R_R_R")
           last == <<MovRow>>
<1> DEFINE Fits(lo, hi) == lo \in Nat /\ hi \in Nat /\ 40 <= lo /\ lo <= hi /\ hi <= 191
           Rows(lo, hi, am) == /\ Same(lo, hi, am) \in Seq(UwRow)
                               /\ \A row : row \in ToSet(Same(lo, hi, am)) <=> InRun(row, lo, hi, am)
<1>0. /\ \A lo, hi : \A am \in RunModes : Fits(lo, hi) => Rows(lo, hi, am)
      /\ Fits(40, 62) /\ Fits(63, 64) /\ Fits(65, 69) /\ Fits(70, 72) /\ Fits(73, 105)
      /\ Fits(106, 191)
  <2>1. \A lo, hi : \A am \in RunModes : Fits(lo, hi) => Rows(lo, hi, am)  BY SameRows
  <2>2. /\ Fits(40, 62) /\ Fits(63, 64) /\ Fits(65, 69) /\ Fits(70, 72) /\ Fits(73, 105)
        /\ Fits(106, 191)
    OBVIOUS
  <2> HIDE DEF Fits, Rows
  <2> QED BY <2>1, <2>2
<1>1. ControlRows \in Seq(UwRow) /\ 1 \in DOMAIN ControlRows
  <2>1. ControlRows = [i \in 1 .. 26 |-> ControlRows[i]]  BY DEF ControlRows
  <2>2. \A i \in 1 .. 26 : ControlRows[i] \in UwRow
    <3>1. DOMAIN ControlRows = 1 .. 26  BY DEF ControlRows
    <3> QED BY <3>1 DEF ToSet, UwRow
  <2>3. ControlRows \in [1 .. 26 -> UwRow]  BY <2>1, <2>2
  <2>4. ControlRows \in Seq(UwRow)  BY <2>3, SeqDef
  <2>5. 1 \in DOMAIN ControlRows  BY DEF ControlRows
  <2> QED BY <2>4, <2>5
<1>2. s1 \in Seq(UwRow) /\ \A row : row \in ToSet(s1) <=> InRun(row, 40, 62, "AM64_R_R_OFS")
  <2>1. Rows(40, 62, "AM64_R_R_OFS")
    <3> HIDE DEF Fits, Rows
    <3> QED BY <1>0, Zenon DEF RunModes
  <2> QED BY <2>1
<1>3. s2 \in Seq(UwRow) /\ \A row : row \in ToSet(s2) <=> InRun(row, 63, 64, "AM32_R")
  <2>1. Rows(63, 64, "AM32_R")
    <3> HIDE DEF Fits, Rows
    <3> QED BY <1>0, Zenon DEF RunModes
  <2> QED BY <2>1
<1>4. s3 \in Seq(UwRow) /\ \A row : row \in ToSet(s3) <=> InRun(row, 65, 69, "AM64_R_OFS")
  <2>1. Rows(65, 69, "AM64_R_OFS")
    <3> HIDE DEF Fits, Rows
    <3> QED BY <1>0, Zenon DEF RunModes
  <2> QED BY <2>1
<1>5. s4 \in Seq(UwRow) /\ \A row : row \in ToSet(s4) <=> InRun(row, 70, 72, "AM64_R_R_R")
  <2>1. Rows(70, 72, "AM64_R_R_R")
    <3> HIDE DEF Fits, Rows
    <3> QED BY <1>0, Zenon DEF RunModes
  <2> QED BY <2>1
<1>6. s5 \in Seq(UwRow) /\ \A row : row \in ToSet(s5) <=> InRun(row, 73, 105, "AM64_R_OFS")
  <2>1. Rows(73, 105, "AM64_R_OFS")
    <3> HIDE DEF Fits, Rows
    <3> QED BY <1>0, Zenon DEF RunModes
  <2> QED BY <2>1
<1>7. s6 \in Seq(UwRow) /\ \A row : row \in ToSet(s6) <=> InRun(row, 106, 191, "AM64_R_R_R")
  <2>1. Rows(106, 191, "AM64_R_R_R")
    <3> HIDE DEF Fits, Rows
    <3> QED BY <1>0, Zenon DEF RunModes
  <2> QED BY <2>1
<1>8. last \in Seq(UwRow) /\ ToSet(last) = {MovRow}
  <2>1. MovRow \in UwRow  BY DEF UwRow
  <2>2. DOMAIN last = {1} /\ last[1] = MovRow  OBVIOUS
  <2> QED BY <2>1, <2>2 DEF ToSet
<1>9. UWASM_META_INFO = ControlRows \o s1 \o s2 \o s3 \o s4 \o s5 \o s6 \o last
  BY DEF UWASM_META_INFO, MovRow
<1> HIDE DEF s1, s2, s3, s4, s5, s6, last
<1> DEFINE t1 == ControlRows \o s1
           t2 == t1 \o s2
           t3 == t2 \o s3
           t4 == t3 \o s4
           t5 == t4 \o s5
           t6 == t5 \o s6
<1>10. /\ t1 \in Seq(UwRow) /\ ToSet(t1) = ToSet(ControlRows) \cup ToSet(s1)
       /\ 1 \in DOMAIN t1 /\ t1[1] = ControlRows[1]
  BY <1>1, <1>2, ConcatElements
<1> HIDE DEF t1
<1>11. /\ t2 \in Seq(UwRow) /\ ToSet(t2) = ToSet(t1) \cup ToSet(s2)
       /\ 1 \in DOMAIN t2 /\ t2[1] = ControlRows[1]
  BY <1>3, <1>10, ConcatElements
<1> HIDE DEF t2
<1>12. /\ t3 \in Seq(UwRow) /\ ToSet(t3) = ToSet(t2) \cup ToSet(s3)
       /\ 1 \in DOMAIN t3 /\ t3[1] = ControlRows[1]
  BY <1>4, <1>11, ConcatElements
<1> HIDE DEF t3
<1>13. /\ t4 \in Seq(UwRow) /\ ToSet(t4) = ToSet(t3) \cup ToSet(s4)
       /\ 1 \in DOMAIN t4 /\ t4[1] = ControlRows[1]
  BY <1>5, <1>12, ConcatElements
<1> HIDE DEF t4
<1>14. /\ t5 \in Seq(UwRow) /\ ToSet(t5) = ToSet(t4) \cup ToSet(s5)
       /\ 1 \in DOMAIN t5 /\ t5[1] = ControlRows[1]
  BY <1>6, <1>13, ConcatElements
<1> HIDE DEF t5
<1>15. /\ t6 \in Seq(UwRow) /\ ToSet(t6) = ToSet(t5) \cup ToSet(s6)
       /\ 1 \in DOMAIN t6 /\ t6[1] = ControlRows[1]
  BY <1>7, <1>14, ConcatElements
<1> HIDE DEF t6
<1>16. /\ t6 \o last \in Seq(UwRow) /\ ToSet(t6 \o last) = ToSet(t6) \cup ToSet(last)
       /\ (t6 \o last)[1] = ControlRows[1]
  BY <1>8, <1>15, ConcatElements
<1>17. UWASM_META_INFO = t6 \o last  BY <1>9 DEF t6, t5, t4, t3, t2, t1
<1>18. \A row : row \in ToSet(UWASM_META_INFO) <=>
          \/ row \in ToSet(ControlRows) \/ row \in ToSet(s1) \/ row \in ToSet(s2)
          \/ row \in ToSet(s3) \/ row \in ToSet(s4) \/ row \in ToSet(s5) \/ row \in ToSet(s6)
          \/ row = MovRow
  BY <1>8, <1>10, <1>11, <1>12, <1>13, <1>14, <1>15, <1>16, <1>17
<1> QED BY <1>2, <1>3, <1>4, <1>5, <1>6, <1>7, <1>16, <1>17, <1>18, ZenonT(60)

\* A search of the table returns a row that matches, when there is one.
LEMMA FirstRowOf ==
    ASSUME NEW key, NEW v, \E row \in ToSet(UWASM_META_INFO) : row[key] = v
    PROVE  /\ v \in DOMAIN FirstRows(key)
           /\ FirstRows(key)[v] \in ToSet(UWASM_META_INFO) /\ FirstRows(key)[v][key] = v
           /\ UWASM_META_INFO[1][key] = v => FirstRows(key)[v] = UWASM_META_INFO[1]
<1> DEFINE T == UWASM_META_INFO
           K == {k \in DOMAIN T : T[k][key] = v}
<1>1. DOMAIN T = 1 .. Len(T) /\ Len(T) \in Nat  BY TableRows, LenProperties
<1>2. \E k \in DOMAIN T : T[k][key] = v  BY DEF ToSet
<1>3. K \subseteq Nat /\ K # {}
  <2> HIDE DEF T
  <2> QED BY <1>1, <1>2
<1>4. \E x \in K : \A y \in K : x <= y
  <2> HIDE DEF K
  <2> QED BY <1>3, SmallestOf
<1>5. Min(K) \in K /\ \A y \in K : Min(K) <= y
  <2> HIDE DEF K
  <2> QED BY <1>4 DEF Min
<1>6. T[Min(K)] \in ToSet(T) /\ T[Min(K)][key] = v  BY <1>5 DEF ToSet
<1>7. v \in {row[key] : row \in ToSet(T)}  OBVIOUS
<1>8. v \in DOMAIN FirstRows(key) /\ FirstRows(key)[v] = T[Min(K)]  BY <1>7, Zenon DEF FirstRows
<1>9. T[1][key] = v => Min(K) = 1
  <2> SUFFICES ASSUME T[1][key] = v PROVE Min(K) = 1
    OBVIOUS
  <2>1. 1 \in DOMAIN T
    <3> HIDE DEF T
    <3> QED BY <1>1, <1>2
  <2>2. 1 \in K /\ Min(K) \in DOMAIN T  BY <1>5, <2>1
  <2>3. Min(K) \in Nat /\ 1 <= Min(K)
    <3> HIDE DEF T
    <3> QED BY <1>1, <2>2
  <2> HIDE DEF K
  <2> QED BY <1>5, <2>2, <2>3
<1> QED BY <1>6, <1>8, <1>9

\* Where the names the pass uses stand among the names of the runs.
LEMMA NumericPlaces ==
    ASSUME NEW k \in 1 .. 152
    PROVE  /\ NumericNames[k] = "I32Add"  => k = 67
           /\ NumericNames[k] = "I32Sub"  => k = 68
           /\ NumericNames[k] = "I32Mul"  => k = 69
           /\ NumericNames[k] = "I32DivS" => k = 70
           /\ NumericNames[k] = "I32DivU" => k = 71
           /\ NumericNames[k] = "I32LtS"  => k = 33
           /\ NumericNames[k] = "I32Ne"   => k = 32
           /\ NumericNames[k] = "I32Load" => k = 1
           /\ NumericNames[k] = "I32Store" => k = 15
           /\ NumericNames[k] = "I32Const" => k = 26
           /\ NumericNames[k] # "UMOV" /\ NumericNames[k] # "UJMP"
           /\ NumericNames[k] # "UJNZ" /\ NumericNames[k] # "URETURN"
BY SMTT(60) DEF NumericNames

\* And there they are.
LEMMA NumericAt ==
    /\ NumericNames[67] = "I32Add" /\ NumericNames[68] = "I32Sub" /\ NumericNames[69] = "I32Mul"
    /\ NumericNames[70] = "I32DivS" /\ NumericNames[71] = "I32DivU"
    /\ NumericNames[33] = "I32LtS" /\ NumericNames[32] = "I32Ne"
    /\ NumericNames[1] = "I32Load" /\ NumericNames[15] = "I32Store" /\ NumericNames[26] = "I32Const"
BY DEF NumericNames

\* The rows above the runs.
LEMMA ControlModes ==
    /\ \A row \in ToSet(ControlRows) :
          /\ row["name"] \in {"UJMP", "URETURN"} => row["ty_am"] = "AM32_R"
          /\ row["name"] = "UJNZ" => row["ty_am"] = "AM32_R_OFS"
          /\ row["name"] \notin Arithmetic \cup {"I32Load", "I32Store", "I32Const", "UMOV"}
    /\ \A n \in {"UJMP", "URETURN", "UJNZ"} : \E row \in ToSet(ControlRows) : row["name"] = n
<1>1. DOMAIN ControlRows = 1 .. 26  BY DEF ControlRows
<1>2. ASSUME NEW i \in 1 .. 26
      PROVE  /\ ControlRows[i]["name"] \in {"UJMP", "URETURN"} => ControlRows[i]["ty_am"] = "AM32_R"
             /\ ControlRows[i]["name"] = "UJNZ" => ControlRows[i]["ty_am"] = "AM32_R_OFS"
             /\ ControlRows[i]["name"] \notin Arithmetic \cup {"I32Load", "I32Store", "I32Const", "UMOV"}
  BY SMTT(60) DEF ControlRows, Row, Arithmetic
<1>3. /\ ControlRows[7]["name"] = "UJMP" /\ ControlRows[13]["name"] = "URETURN"
      /\ ControlRows[22]["name"] = "UJNZ"
  BY SMTT(60) DEF ControlRows, Row
<1>4. \A i \in 1 .. 26 : ControlRows[i] \in ToSet(ControlRows)  BY <1>1 DEF ToSet
<1>5. \A n \in {"UJMP", "URETURN", "UJNZ"} : \E row \in ToSet(ControlRows) : row["name"] = n
  BY <1>3, <1>4
<1>6. \A row \in ToSet(ControlRows) : \E i \in 1 .. 26 : row = ControlRows[i]  BY <1>1 DEF ToSet
<1> QED BY <1>2, <1>5, <1>6, SMTT(30)

\* A row of a run is named by its opcode and has the run's mode.
LEMMA RunFields ==
    ASSUME NEW row, NEW lo \in Nat, NEW hi \in Nat, NEW am, InRun(row, lo, hi, am), 40 <= lo, hi <= 191
    PROVE  \E k \in 1 .. 152 : /\ lo - 39 <= k /\ k <= hi - 39
                               /\ row["name"] = NumericNames[k] /\ row["ty_am"] = am
<1>1. PICK c \in Nat : lo <= c /\ c <= hi /\ row = RunRow(c, am)  BY DEF InRun
<1>2. PICK k \in 1 .. 152 : k = c - 39 /\ lo - 39 <= k /\ k <= hi - 39  BY <1>1
<1>3. row["name"] = NumericNames[k] /\ row["ty_am"] = am  BY <1>1, <1>2 DEF RunRow, Row
<1> QED BY <1>2, <1>3

\* The rows of one name have one mode.
LEMMA NamedMode ==
    ASSUME NEW row \in ToSet(UWASM_META_INFO)
    PROVE  /\ row["name"] \in Arithmetic => row["ty_am"] = "AM64_R_R_R"
           /\ row["name"] \in {"I32Load", "I32Store"} => row["ty_am"] = "AM64_R_R_OFS"
           /\ row["name"] = "I32Const" => row["ty_am"] = "AM64_R_OFS"
           /\ row["name"] = "UMOV" => row["ty_am"] = "AM32_R_R"
           /\ row["name"] \in {"UJMP", "URETURN"} => row["ty_am"] = "AM32_R"
           /\ row["name"] = "UJNZ" => row["ty_am"] = "AM32_R_OFS"
<1> DEFINE n == row["name"]
           ty == row["ty_am"]
<1> DEFINE Run(lo, hi, am) == \E k \in 1 .. 152 : lo <= k /\ k <= hi /\ n = NumericNames[k] /\ ty = am
<1>1. \/ row \in ToSet(ControlRows)
      \/ InRun(row, 40, 62, "AM64_R_R_OFS") \/ InRun(row, 63, 64, "AM32_R")
      \/ InRun(row, 65, 69, "AM64_R_OFS") \/ InRun(row, 70, 72, "AM64_R_R_R")
      \/ InRun(row, 73, 105, "AM64_R_OFS") \/ InRun(row, 106, 191, "AM64_R_R_R")
      \/ row = MovRow
  BY TableRows, Zenon
<1>2. /\ InRun(row, 40, 62, "AM64_R_R_OFS") => Run(1, 23, "AM64_R_R_OFS")
      /\ InRun(row, 63, 64, "AM32_R") => Run(24, 25, "AM32_R")
      /\ InRun(row, 65, 69, "AM64_R_OFS") => Run(26, 30, "AM64_R_OFS")
  BY RunFields
<1>3. /\ InRun(row, 70, 72, "AM64_R_R_R") => Run(31, 33, "AM64_R_R_R")
      /\ InRun(row, 73, 105, "AM64_R_OFS") => Run(34, 66, "AM64_R_OFS")
      /\ InRun(row, 106, 191, "AM64_R_R_R") => Run(67, 152, "AM64_R_R_R")
  BY RunFields
<1>4. CASE row \in ToSet(ControlRows)
  BY <1>4, ControlModes DEF Arithmetic
<1>5. CASE row = MovRow
  BY <1>5 DEF MovRow, Row, Arithmetic
<1>6. CASE Run(1, 23, "AM64_R_R_OFS") \/ Run(24, 25, "AM32_R") \/ Run(26, 30, "AM64_R_OFS")
  BY <1>6, NumericPlaces, SMTT(30) DEF Arithmetic
<1>7. CASE Run(31, 33, "AM64_R_R_R") \/ Run(34, 66, "AM64_R_OFS") \/ Run(67, 152, "AM64_R_R_R")
  BY <1>7, NumericPlaces, SMTT(30) DEF Arithmetic
<1> HIDE DEF Run
<1> QED BY <1>1, <1>2, <1>3, <1>4, <1>5, <1>6, <1>7

\* Each of them has a row.
LEMMA NamesPresent ==
    ASSUME NEW n \in Arithmetic \cup {"I32Load", "I32Store", "I32Const", "UMOV", "UJMP", "URETURN", "UJNZ"}
    PROVE  \E row \in ToSet(UWASM_META_INFO) : row["name"] = n
<1>1. CASE n \in {"UJMP", "URETURN", "UJNZ"}
  BY <1>1, ControlModes, TableRows, Zenon
<1>2. CASE n = "UMOV"
  <2>1. MovRow["name"] = "UMOV"  BY DEF MovRow, Row
  <2> QED BY <1>2, <2>1, TableRows, Zenon
<1>3. CASE n \in Arithmetic \cup {"I32Load", "I32Store", "I32Const"}
  <2>1. \E k \in 1 .. 23 \cup {26} \cup (31 .. 33) \cup (67 .. 152) : n = NumericNames[k]
    BY <1>3, NumericAt DEF Arithmetic
  <2>2. PICK k \in 1 .. 152 : /\ n = NumericNames[k]
                              /\ \/ k <= 23 \/ k = 26 \/ (31 <= k /\ k <= 33) \/ 67 <= k
    BY <2>1
  <2>3. PICK c \in Nat : c = k + 39  OBVIOUS
  <2>4. \A am : RunRow(c, am)["name"] = n
    <3>1. c - 39 = k  BY <2>3
    <3> QED BY <2>2, <3>1 DEF RunRow, Row
  <2>5. \/ 40 <= c /\ c <= 62
        \/ 65 <= c /\ c <= 69
        \/ 70 <= c /\ c <= 72
        \/ 106 <= c /\ c <= 191
    BY <2>2, <2>3
  <2>6. \E am : RunRow(c, am) \in ToSet(UWASM_META_INFO)
    BY <2>5, TableRows, ZenonT(60) DEF InRun
  <2> QED BY <2>4, <2>6
<1> QED BY <1>1, <1>2, <1>3

\* The modes of the instructions the pass emits on its own account.
LEMMA EmittedModes ==
    /\ \A op \in Arithmetic : op \in DOMAIN TY_AM /\ TY_AM[op] = "AM64_R_R_R"
    /\ \A op \in {"I32Load", "I32Store"} : op \in DOMAIN TY_AM /\ TY_AM[op] = "AM64_R_R_OFS"
    /\ "I32Const" \in DOMAIN TY_AM /\ TY_AM["I32Const"] = "AM64_R_OFS"
    /\ "UMOV" \in DOMAIN TY_AM /\ TY_AM["UMOV"] = "AM32_R_R"
    /\ \A op \in {"UJMP", "URETURN"} : op \in DOMAIN TY_AM /\ TY_AM[op] = "AM32_R"
    /\ "UJNZ" \in DOMAIN TY_AM /\ TY_AM["UJNZ"] = "AM32_R_OFS"
<1>1. ASSUME NEW n \in Arithmetic \cup {"I32Load", "I32Store", "I32Const", "UMOV", "UJMP", "URETURN", "UJNZ"}
      PROVE  n \in DOMAIN TY_AM /\ \E row \in ToSet(UWASM_META_INFO) : row["name"] = n /\ TY_AM[n] = row["ty_am"]
  <2>1. /\ n \in DOMAIN UwinstRow /\ UwinstRow[n] \in ToSet(UWASM_META_INFO)
        /\ UwinstRow[n]["name"] = n
    BY NamesPresent, FirstRowOf, Zenon DEF UwinstRow
  <2>2. n \in DOMAIN TY_AM /\ TY_AM[n] = UwinstRow[n]["ty_am"]  BY <2>1 DEF TY_AM
  <2> QED BY <2>1, <2>2
<1> QED BY <1>1, NamedMode
-----------------------------------------------------------------------------
(* The fields of the instructions the pass emits, when the registers fit.    *)

Fits == 0 .. 2^REG_SIZE - 1

\* A number below the width of a field is kept.
LEMMA FieldKept ==
    /\ \A r \in Fits : r % 2^REG_SIZE = r /\ r # -1
    /\ \A o \in Nat : o < 2^20 => o % 2^20 = o
<1>1. 2^REG_SIZE = 1024 /\ 2^20 = 1048576  BY DEF REG_SIZE
<1> QED BY <1>1 DEF Fits

\* The instruction made is one of the operation asked for.
LEMMA UInstOp ==
    ASSUME NEW op, NEW rd, NEW rs, NEW rt, NEW ofs
    PROVE  UInst(op, rd, rs, rt, ofs).op = op
BY Zenon DEF UInst

\* A move.
LEMMA UInstMov ==
    ASSUME NEW d \in Fits, NEW s \in Fits
    PROVE  LET i == UInst("UMOV", d, s, -1, -1)
           IN  i.op = "UMOV" /\ i.rd = d /\ i.rs = s
<1>1. TY_AM["UMOV"] = "AM32_R_R"  BY EmittedModes
<1>2. /\ UInst("UMOV", d, s, -1, -1).rd = d % 2^REG_SIZE
      /\ UInst("UMOV", d, s, -1, -1).rs = s % 2^REG_SIZE
  BY <1>1, FieldKept DEF UInst
<1> QED BY <1>2, FieldKept, UInstOp

\* Two operands and a result.
LEMMA UInstBinary ==
    ASSUME NEW op \in Arithmetic, NEW d \in Fits, NEW s \in Fits, NEW t \in Fits
    PROVE  LET i == UInst(op, d, s, t, -1)
           IN  i.op = op /\ i.rd = d /\ i.rs = s /\ i.rt = t
<1>1. TY_AM[op] = "AM64_R_R_R"  BY EmittedModes
<1>2. /\ UInst(op, d, s, t, -1).rd = d % 2^REG_SIZE
      /\ UInst(op, d, s, t, -1).rs = s % 2^REG_SIZE
      /\ UInst(op, d, s, t, -1).rt = t % 2^REG_SIZE
  BY <1>1, FieldKept DEF UInst
<1> QED BY <1>2, FieldKept, UInstOp

\* A constant: its offset field is not cut.
LEMMA UInstConst ==
    ASSUME NEW d \in Fits, NEW imm \in Nat
    PROVE  LET i == UInst("I32Const", d, -1, -1, imm)
           IN  i.op = "I32Const" /\ i.rd = d /\ i.ofs = imm
<1>1. TY_AM["I32Const"] = "AM64_R_OFS" /\ imm # -1  BY EmittedModes
<1>2. OfsOf("AM64_R_OFS", imm) = imm  BY Zenon DEF OfsOf
<1>3. /\ UInst("I32Const", d, -1, -1, imm).rd = d % 2^REG_SIZE
      /\ UInst("I32Const", d, -1, -1, imm).ofs = OfsOf("AM64_R_OFS", imm)
  BY <1>1, FieldKept DEF UInst
<1> QED BY <1>2, <1>3, FieldKept, UInstOp

\* A load whose offset fits.
LEMMA UInstLoad ==
    ASSUME NEW d \in Fits, NEW s \in Fits, NEW imm \in Nat, imm < 2^20
    PROVE  LET i == UInst("I32Load", d, s, -1, imm)
           IN  i.op = "I32Load" /\ i.rd = d /\ i.rs = s /\ i.ofs = imm
<1>1. TY_AM["I32Load"] = "AM64_R_R_OFS" /\ imm # -1  BY EmittedModes
<1>2. OfsOf("AM64_R_R_OFS", imm) = imm % 2^20  BY Zenon DEF OfsOf
<1>3. /\ UInst("I32Load", d, s, -1, imm).rd = d % 2^REG_SIZE
      /\ UInst("I32Load", d, s, -1, imm).rs = s % 2^REG_SIZE
      /\ UInst("I32Load", d, s, -1, imm).ofs = OfsOf("AM64_R_R_OFS", imm)
  BY <1>1, FieldKept DEF UInst
<1> QED BY <1>2, <1>3, FieldKept, UInstOp

\* A store: its offset is lost.
LEMMA UInstStore ==
    ASSUME NEW d \in Fits, NEW s \in Fits, NEW imm
    PROVE  LET i == UInst("I32Store", d, s, imm, -1)
           IN  i.op = "I32Store" /\ i.rd = d /\ i.rs = s /\ i.ofs = 0
<1>1. TY_AM["I32Store"] = "AM64_R_R_OFS"  BY EmittedModes
<1>2. /\ UInst("I32Store", d, s, imm, -1).rd = d % 2^REG_SIZE
      /\ UInst("I32Store", d, s, imm, -1).rs = s % 2^REG_SIZE
      /\ UInst("I32Store", d, s, imm, -1).ofs = 0
  BY <1>1, FieldKept DEF UInst
<1> QED BY <1>2, FieldKept, UInstOp
-----------------------------------------------------------------------------
(* Running a list of instructions is a step after running all but the last,  *)
(* for wasm and for uwasm.                                                   *)

MachineStep(machine, st, i) == IF machine = "wasm" THEN FaithfulStep(st, i) ELSE UwasmStep(st, i)

\* f runs the first k instructions of us from the state st0.
IsRun(machine, f, st0, us, k) ==
    f[0] = st0 /\ \A j \in 1 .. k : f[j] = MachineStep(machine, f[j-1], us[j])

\* There is a run of every length.
LEMMA RunExists ==
    ASSUME NEW machine, NEW st0, NEW us, NEW n \in Nat
    PROVE  \E f : IsRun(machine, f, st0, us, n)
<1> DEFINE S == {k \in Nat : \E f : IsRun(machine, f, st0, us, k)}
<1>1. 0 \in S
  <2> DEFINE f == [j \in {0} |-> st0]
  <2>1. f[0] = st0 /\ 1 .. 0 = {}  OBVIOUS
  <2>2. IsRun(machine, f, st0, us, 0)  BY <2>1 DEF IsRun
  <2> QED BY <2>2
<1>2. ASSUME NEW k \in Nat, k \in S PROVE k + 1 \in S
  <2>1. PICK f : IsRun(machine, f, st0, us, k)  BY <1>2
  <2> DEFINE next == MachineStep(machine, f[k], us[k+1])
             g == [j \in 0 .. k + 1 |-> IF j = k + 1 THEN next ELSE f[j]]
  <2>2. g[k+1] = next /\ \A j \in 0 .. k : g[j] = f[j]
    <3> HIDE DEF next
    <3>1. k + 1 \in 0 .. k + 1 /\ \A j \in 0 .. k : j \in 0 .. k + 1 /\ j # k + 1  OBVIOUS
    <3> QED BY <3>1
  <2>3. 0 \in 0 .. k /\ k \in 0 .. k /\ k + 1 - 1 = k
        /\ \A j \in 1 .. k + 1 : j = k + 1 \/ (j \in 1 .. k /\ j \in 0 .. k /\ j - 1 \in 0 .. k)
    OBVIOUS
  <2> HIDE DEF g
  <2>4. g[0] = st0  BY <2>1, <2>2, <2>3 DEF IsRun
  <2>5. ASSUME NEW j \in 1 .. k + 1 PROVE g[j] = MachineStep(machine, g[j-1], us[j])
    <3>1. CASE j = k + 1
      <4>1. g[j-1] = f[k]  BY <2>2, <2>3, <3>1
      <4> QED BY <2>2, <3>1, <4>1
    <3>2. CASE j # k + 1
      <4>1. j \in 1 .. k /\ g[j] = f[j] /\ g[j-1] = f[j-1]  BY <2>2, <2>3, <3>2
      <4> QED BY <2>1, <4>1 DEF IsRun
    <3> QED BY <3>1, <3>2
  <2>6. IsRun(machine, g, st0, us, k + 1)  BY <2>4, <2>5 DEF IsRun
  <2> QED BY <2>6
<1>3. Nat \subseteq S
  <2> HIDE DEF S
  <2> QED BY <1>1, <1>2, SetInduction
<1> QED BY <1>3

SameUpTo(us, vs, l) == \A j \in 1 .. l : us[j] = vs[j]

\* Two runs agree as far as both go and their instructions do.
LEMMA RunsAgree ==
    ASSUME NEW machine, NEW st0, NEW us, NEW vs, NEW n \in Nat, NEW m \in Nat, NEW f, NEW g,
           IsRun(machine, f, st0, us, n), IsRun(machine, g, st0, vs, m),
           NEW l \in Nat, l <= n, l <= m, SameUpTo(us, vs, l)
    PROVE  f[l] = g[l]
<1>0. \A j \in 1 .. l : us[j] = vs[j]  BY DEF SameUpTo
<1> DEFINE S == {k \in Nat : k <= l => f[k] = g[k]}
<1>1. 0 \in S  BY DEF IsRun
<1>2. ASSUME NEW k \in Nat, k \in S PROVE k + 1 \in S
  <2> SUFFICES ASSUME k + 1 <= l PROVE f[k+1] = g[k+1]
    OBVIOUS
  <2>1. k + 1 \in 1 .. n /\ k + 1 \in 1 .. m /\ k + 1 - 1 = k /\ k + 1 \in 1 .. l /\ k <= l
    OBVIOUS
  <2>2. f[k+1] = MachineStep(machine, f[k+1-1], us[k+1])  BY <2>1 DEF IsRun
  <2>3. g[k+1] = MachineStep(machine, g[k+1-1], vs[k+1])  BY <2>1 DEF IsRun
  <2>4. f[k] = g[k]  BY <1>2, <2>1
  <2> QED BY <1>0, <2>1, <2>2, <2>3, <2>4
<1>3. Nat \subseteq S
  <2> HIDE DEF S
  <2> QED BY <1>1, <1>2, SetInduction
<1> QED BY <1>3

\* The state after the first k instructions: what any run reaches.
After(machine, st0, us, k) == (CHOOSE f : IsRun(machine, f, st0, us, k))[k]

\* It depends on those instructions only.
LEMMA AfterSame ==
    ASSUME NEW machine, NEW st0, NEW us, NEW vs, NEW k \in Nat, SameUpTo(us, vs, k),
           NEW m \in Nat, k <= m, NEW g, IsRun(machine, g, st0, vs, m)
    PROVE  After(machine, st0, us, k) = g[k]
<1> DEFINE f == CHOOSE h : IsRun(machine, h, st0, us, k)
<1>1. IsRun(machine, f, st0, us, k)  BY RunExists
<1> HIDE DEF f
<1>2. k <= k  OBVIOUS
<1>3. f[k] = g[k]  BY <1>1, <1>2, RunsAgree
<1> QED BY <1>3 DEF After, f

\* One more instruction is one more step.
LEMMA AfterOneMore ==
    ASSUME NEW machine, NEW st0, NEW us, NEW vs, NEW k \in Nat, SameUpTo(us, vs, k)
    PROVE  After(machine, st0, vs, k + 1) = MachineStep(machine, After(machine, st0, us, k), vs[k+1])
<1> DEFINE m == k + 1
<1>1. m \in Nat /\ k <= m /\ m <= m /\ m \in 1 .. m /\ m - 1 = k  OBVIOUS
<1>2. PICK g : IsRun(machine, g, st0, vs, m)  BY <1>1, RunExists
<1> HIDE DEF m
<1>3. After(machine, st0, us, k) = g[k]  BY <1>1, <1>2, AfterSame
<1>4. After(machine, st0, vs, m) = g[m]
  <2>1. SameUpTo(vs, vs, m)  BY DEF SameUpTo
  <2> QED BY <1>1, <1>2, <2>1, AfterSame
<1>5. g[m] = MachineStep(machine, g[m-1], vs[m])  BY <1>1, <1>2 DEF IsRun
<1> QED BY <1>1, <1>3, <1>4, <1>5 DEF m

\* No instruction, no step.
LEMMA AfterNone == ASSUME NEW machine, NEW st0, NEW us PROVE After(machine, st0, us, 0) = st0
<1>1. PICK g : IsRun(machine, g, st0, us, 0)  BY RunExists
<1>2. SameUpTo(us, us, 0) /\ 0 <= 0  BY DEF SameUpTo
<1>3. After(machine, st0, us, 0) = g[0]  BY <1>1, <1>2, AfterSame
<1> QED BY <1>1, <1>3 DEF IsRun

\* A run as a function of its own, the form a definition by LET takes.
LEMMA RunAsFunction ==
    ASSUME NEW machine, NEW st0, NEW us, NEW k \in Nat
    PROVE  /\ \E f : f = [j \in 0 .. k |->
                            IF j = 0 THEN st0 ELSE MachineStep(machine, f[j-1], us[j])]
           /\ \A f : (f = [j \in 0 .. k |->
                             IF j = 0 THEN st0 ELSE MachineStep(machine, f[j-1], us[j])])
                     => f[k] = After(machine, st0, us, k)
<1>1. PICK g : IsRun(machine, g, st0, us, k)  BY RunExists
<1> DEFINE f == [j \in 0 .. k |-> g[j]]
           Next(j) == IF j = 0 THEN st0 ELSE MachineStep(machine, f[j-1], us[j])
<1>2. ASSUME NEW j \in 0 .. k PROVE f[j] = Next(j)
  <2>1. CASE j = 0  BY <1>1, <2>1 DEF IsRun
  <2>2. CASE j # 0
    <3>1. j \in 1 .. k /\ j - 1 \in 0 .. k  BY <2>2
    <3>2. f[j] = g[j] /\ f[j-1] = g[j-1]  BY <3>1
    <3>3. g[j] = MachineStep(machine, g[j-1], us[j])  BY <1>1, <3>1 DEF IsRun
    <3> HIDE DEF f
    <3> QED BY <2>2, <3>2, <3>3
  <2> QED BY <2>1, <2>2
<1>3. f = [j \in 0 .. k |-> Next(j)]
  <2>1. f = [j \in 0 .. k |-> f[j]]  OBVIOUS
  <2> HIDE DEF f, Next
  <2> QED BY <1>2, <2>1, Zenon
<1>4. ASSUME NEW h, h = [j \in 0 .. k |->
                            IF j = 0 THEN st0 ELSE MachineStep(machine, h[j-1], us[j])]
      PROVE  h[k] = After(machine, st0, us, k)
  <2>1. ASSUME NEW j \in 0 .. k
        PROVE  h[j] = IF j = 0 THEN st0 ELSE MachineStep(machine, h[j-1], us[j])
    BY <1>4, Zenon
  <2>2. h[0] = st0  BY <2>1
  <2>3. ASSUME NEW j \in 1 .. k PROVE h[j] = MachineStep(machine, h[j-1], us[j])
    <3>1. j \in 0 .. k /\ j # 0  OBVIOUS
    <3> QED BY <2>1, <3>1
  <2>4. IsRun(machine, h, st0, us, k)  BY <2>2, <2>3 DEF IsRun
  <2>5. SameUpTo(us, us, k) /\ k <= k  BY DEF SameUpTo
  <2> QED BY <2>4, <2>5, AfterSame
<1> QED BY <1>3, <1>4
-----------------------------------------------------------------------------
(* What one instruction does to a state of wasm, and to one of uwasm.        *)

Slot(v, from) == [val |-> v, from |-> from]
Cut(a, n)     == SubSeq(a, 1, Len(a) - n)
ValAt(a, n)   == a[Len(a) + 1 - n].val

\* The instructions the reference defines.
Defined == Arithmetic \cup
    {"LocalGet", "LocalSet", "LocalTee", "I32Const", "I32Load", "I32Store", "Drop", "End"}

\* No operand below the top was read from the local.
NotRead(a, l) == ~\E k \in 1 .. Len(a) - 1 : a[k].from = l

IsWasmState(w, a, b, c) == w.stack = a /\ w.mem = b /\ w.sound = TRUE /\ w.locals = c
IsUwasmState(u, b, r)   == u.mem = b /\ u.regs = r

\* The fields of a state are what it was built from.
LEMMA StateFields ==
    ASSUME NEW a, NEW b, NEW c
    PROVE  IsWasmState(WasmState(a, b, c), a, b, c) /\ IsUwasmState(UwasmState(a, b), a, b)
BY Zenon DEF WasmState, UwasmState, IsWasmState, IsUwasmState

\* Instructions that are never miscompiled.
LEMMA NotMiscompiled ==
    ASSUME NEW w, NEW i, i.op \in {"LocalGet", "I32Const", "Drop", "End"}
    PROVE  FaithfulStep(w, i) = WasmStep(w, i)
<1>1. i.op \notin Ordered /\ i.op \notin {"LocalSet", "LocalTee", "I32Store", "I32Load"}
  BY DEF Ordered
<1>2. ~Miscompiled(w, i)  BY <1>1, Zenon DEF Miscompiled
<1> QED BY <1>2 DEF FaithfulStep

\* A step of wasm's side on an instruction that is, and on one that is not.
LEMMA FaithfulCases ==
    ASSUME NEW w, NEW i, w.sound = TRUE
    PROVE  /\ Miscompiled(w, i) => FaithfulStep(w, i) = [sound |-> FALSE]
           /\ ~Miscompiled(w, i) => FaithfulStep(w, i) = WasmStep(w, i)
BY DEF FaithfulStep

\* Wasm's side.
LEMMA WasmGet ==
    ASSUME NEW a, NEW b, NEW c, NEW w, IsWasmState(w, a, b, c), NEW i, i.op = "LocalGet"
    PROVE  FaithfulStep(w, i) = WasmState(Append(Cut(a, 0), Slot(c[i.imm+1], i.imm)), b, c)
<1>1. i.op \notin Arithmetic  BY DEF Arithmetic
<1>2. FaithfulStep(w, i) = WasmStep(w, i)  BY NotMiscompiled
<1> QED BY <1>1, <1>2, Zenon DEF WasmStep, IsWasmState, Slot, Cut

\* A local.set or local.tee on a local no other operand was read from, and on one
\* that is still read.
LEMMA WasmSetTee ==
    ASSUME NEW a, NEW b, NEW c, NEW w, IsWasmState(w, a, b, c), NEW i,
           i.op \in {"LocalSet", "LocalTee"}
    PROVE  FaithfulStep(w, i) =
             IF NotRead(a, i.imm)
             THEN WasmState(IF i.op = "LocalSet" THEN Cut(a, 1) ELSE a, b,
                            [c EXCEPT ![i.imm+1] = ValAt(a, 1)])
             ELSE [sound |-> FALSE]
<1>1. i.op # "LocalGet" /\ i.op # "I32Const" /\ i.op \notin Arithmetic /\ i.op # "I32Load"
      /\ i.op # "I32Store" /\ i.op # "Drop" /\ i.op # "End" /\ i.op \notin Ordered
  BY DEF Arithmetic, Ordered
<1>2. WasmStep(w, i) = WasmState(IF i.op = "LocalSet" THEN Cut(a, 1) ELSE a, b,
                                 [c EXCEPT ![i.imm+1] = ValAt(a, 1)])
  BY <1>1, Zenon DEF WasmStep, IsWasmState, Cut, ValAt
<1>3. Miscompiled(w, i) <=> ~NotRead(a, i.imm)
  BY <1>1, Zenon DEF Miscompiled, IsWasmState, NotRead
<1>4. w.sound = TRUE  BY DEF IsWasmState
<1> QED BY <1>2, <1>3, <1>4, FaithfulCases, Zenon

\* A constant is pushed.
LEMMA WasmConst ==
    ASSUME NEW a, NEW b, NEW c, NEW w, IsWasmState(w, a, b, c), NEW i, i.op = "I32Const"
    PROVE  FaithfulStep(w, i) = WasmState(Append(Cut(a, 0), Slot(<<"const", i.imm>>, -1)), b, c)
<1>1. i.op \notin Arithmetic  BY DEF Arithmetic
<1>2. FaithfulStep(w, i) = WasmStep(w, i)  BY NotMiscompiled
<1> QED BY <1>1, <1>2, Zenon DEF WasmStep, IsWasmState, Slot, Cut

\* Two operands become one result, unless their order matters.
LEMMA WasmBinary ==
    ASSUME NEW a, NEW b, NEW c, NEW w, IsWasmState(w, a, b, c), NEW i, i.op \in Arithmetic
    PROVE  FaithfulStep(w, i) =
             IF i.op \notin Ordered
             THEN WasmState(Append(Cut(a, 2), Slot(Result(i.op, ValAt(a, 2), ValAt(a, 1)), -1)), b, c)
             ELSE [sound |-> FALSE]
<1>1. i.op \notin {"LocalGet", "I32Const", "LocalSet", "LocalTee", "I32Load", "I32Store", "Drop", "End"}
  BY DEF Arithmetic
<1>2. WasmStep(w, i)
        = WasmState(Append(Cut(a, 2), Slot(Result(i.op, ValAt(a, 2), ValAt(a, 1)), -1)), b, c)
  BY <1>1, Zenon DEF WasmStep, IsWasmState, Slot, Cut, ValAt
<1>3. i.op # "LocalSet" /\ i.op # "LocalTee" /\ i.op # "I32Store" /\ i.op # "I32Load"  BY <1>1
<1>4. Miscompiled(w, i) <=> i.op \in Ordered  BY <1>3, Zenon DEF Miscompiled
<1>5. w.sound = TRUE  BY DEF IsWasmState
<1> QED BY <1>2, <1>4, <1>5, FaithfulCases, Zenon

\* A load replaces its address, unless the offset does not fit.
LEMMA WasmLoad ==
    ASSUME NEW a, NEW b, NEW c, NEW w, IsWasmState(w, a, b, c), NEW i, i.op = "I32Load"
    PROVE  FaithfulStep(w, i) =
             IF ~(i.imm >= 2^20)
             THEN WasmState(Append(Cut(a, 1), Slot(<<"load", b, ValAt(a, 1), i.imm>>, -1)), b, c)
             ELSE [sound |-> FALSE]
<1>1. i.op \notin Arithmetic /\ i.op \notin Ordered /\ i.op # "I32Store"
      /\ i.op # "LocalSet" /\ i.op # "LocalTee"
  BY DEF Arithmetic, Ordered
<1>2. WasmStep(w, i) = WasmState(Append(Cut(a, 1), Slot(<<"load", b, ValAt(a, 1), i.imm>>, -1)), b, c)
  BY <1>1, Zenon DEF WasmStep, IsWasmState, Slot, Cut, ValAt
<1>3. Miscompiled(w, i) <=> i.imm >= 2^20  BY <1>1, Zenon DEF Miscompiled
<1>4. w.sound = TRUE  BY DEF IsWasmState
<1> QED BY <1>2, <1>3, <1>4, FaithfulCases, Zenon

\* A store takes two operands and makes the next memory, unless it has an offset.
LEMMA WasmStore ==
    ASSUME NEW a, NEW b, NEW c, NEW w, IsWasmState(w, a, b, c), NEW i, i.op = "I32Store"
    PROVE  FaithfulStep(w, i) =
             IF i.imm = 0
             THEN WasmState(Cut(a, 2), <<"store", b, ValAt(a, 2), i.imm, ValAt(a, 1)>>, c)
             ELSE [sound |-> FALSE]
<1>1. i.op \notin Arithmetic /\ i.op \notin Ordered /\ i.op # "I32Load"
      /\ i.op # "LocalSet" /\ i.op # "LocalTee"
  BY DEF Arithmetic, Ordered
<1>2. WasmStep(w, i) = WasmState(Cut(a, 2), <<"store", b, ValAt(a, 2), i.imm, ValAt(a, 1)>>, c)
  BY <1>1, Zenon DEF WasmStep, IsWasmState, Slot, Cut, ValAt
<1>3. Miscompiled(w, i) <=> i.imm # 0  BY <1>1, Zenon DEF Miscompiled
<1>4. w.sound = TRUE  BY DEF IsWasmState
<1> QED BY <1>2, <1>3, <1>4, FaithfulCases, Zenon

\* A drop takes the operand on top.
LEMMA WasmDrop ==
    ASSUME NEW a, NEW b, NEW c, NEW w, IsWasmState(w, a, b, c), NEW i, i.op = "Drop"
    PROVE  FaithfulStep(w, i) = WasmState(Cut(a, 1), b, c)
<1>1. i.op \notin Arithmetic  BY DEF Arithmetic
<1>2. FaithfulStep(w, i) = WasmStep(w, i)  BY NotMiscompiled
<1> QED BY <1>1, <1>2, Zenon DEF WasmStep, IsWasmState, Cut

\* The end of the body changes nothing.
LEMMA WasmEnd ==
    ASSUME NEW a, NEW b, NEW c, NEW w, IsWasmState(w, a, b, c), NEW i, i.op = "End"
    PROVE  FaithfulStep(w, i) = w
<1>1. i.op \notin Arithmetic  BY DEF Arithmetic
<1>2. FaithfulStep(w, i) = WasmStep(w, i)  BY NotMiscompiled
<1> QED BY <1>1, <1>2, Zenon DEF WasmStep, IsWasmState, Cut

\* What the reference does not define ends it.
LEMMA WasmUndefined ==
    ASSUME NEW w, NEW i, ~w.sound \/ i.op \notin Defined
    PROVE  ~FaithfulStep(w, i).sound
<1>1. CASE ~w.sound
  <2>1. FaithfulStep(w, i) = w  BY <1>1, Zenon DEF FaithfulStep, WasmStep
  <2> QED BY <1>1, <2>1
<1>2. CASE w.sound /\ i.op \notin Defined
  <2>1. FaithfulStep(w, i) = [sound |-> FALSE]  BY <1>2, Zenon DEF FaithfulStep, WasmStep, Defined
  <2> QED BY <2>1
<1> QED BY <1>1, <1>2

\* Uwasm's side.
LEMMA UwasmMov ==
    ASSUME NEW b, NEW r, NEW u, IsUwasmState(u, b, r), NEW i, i.op = "UMOV"
    PROVE  UwasmStep(u, i) = UwasmState(b, [r EXCEPT ![i.rd] = r[i.rs]])
<1>1. i.op \notin Arithmetic  BY DEF Arithmetic
<1> QED BY <1>1, Zenon DEF UwasmStep, IsUwasmState

\* A constant goes to the destination.
LEMMA UwasmConst ==
    ASSUME NEW b, NEW r, NEW u, IsUwasmState(u, b, r), NEW i, i.op = "I32Const"
    PROVE  UwasmStep(u, i) = UwasmState(b, [r EXCEPT ![i.rd] = <<"const", i.ofs>>])
<1>1. i.op \notin Arithmetic  BY DEF Arithmetic
<1> QED BY <1>1, Zenon DEF UwasmStep, IsUwasmState

\* The result of two registers goes to the destination.
LEMMA UwasmBinary ==
    ASSUME NEW b, NEW r, NEW u, IsUwasmState(u, b, r), NEW i, i.op \in Arithmetic
    PROVE  UwasmStep(u, i) = UwasmState(b, [r EXCEPT ![i.rd] = Result(i.op, r[i.rs], r[i.rt])])
<1>1. i.op \notin {"UMOV", "I32Const", "I32Load", "I32Store"}  BY DEF Arithmetic
<1> QED BY <1>1, Zenon DEF UwasmStep, IsUwasmState

\* What memory holds at the address goes to the destination.
LEMMA UwasmLoad ==
    ASSUME NEW b, NEW r, NEW u, IsUwasmState(u, b, r), NEW i, i.op = "I32Load"
    PROVE  UwasmStep(u, i) = UwasmState(b, [r EXCEPT ![i.rd] = <<"load", b, r[i.rs], i.ofs>>])
<1>1. i.op \notin Arithmetic  BY DEF Arithmetic
<1> QED BY <1>1, Zenon DEF UwasmStep, IsUwasmState

\* A store makes the next memory and changes no register.
LEMMA UwasmStore ==
    ASSUME NEW b, NEW r, NEW u, IsUwasmState(u, b, r), NEW i, i.op = "I32Store"
    PROVE  UwasmStep(u, i) = UwasmState(<<"store", b, r[i.rs], i.ofs, r[i.rd]>>, r)
<1>1. i.op \notin Arithmetic  BY DEF Arithmetic
<1> QED BY <1>1, Zenon DEF UwasmStep, IsUwasmState

\* A jump changes neither registers nor memory.
LEMMA UwasmJump ==
    ASSUME NEW b, NEW r, NEW u, IsUwasmState(u, b, r), NEW i, i.op = "UJMP"
    PROVE  UwasmStep(u, i) = u
<1>1. i.op \notin Arithmetic  BY DEF Arithmetic
<1> QED BY <1>1, Zenon DEF UwasmStep, IsUwasmState
-----------------------------------------------------------------------------
(* The relation the simulation keeps: a and c are wasm's stack and locals, r *)
(* the registers 0 .. N, s the tracked stack and lm the map of the locals.   *)

ValuesAgree(a, r, s, N) ==
    \A k \in 1 .. Len(s) : s[k].idx \in 0 .. N /\ r[s[k].idx] = a[k].val

LocalsAgree(c, r, lm, N) ==
    /\ c = [l \in DOMAIN lm |-> c[l]]
    /\ \A l \in DOMAIN lm : lm[l] \in 0 .. N /\ r[lm[l]] = c[l]

\* A slot that aliases a local is the register of the local wasm read it from.
AliasesAgree(a, s, lm) ==
    \A k \in 1 .. Len(s) :
        s[k].kind = "LOCAL" =>
            /\ a[k].from \in Nat /\ a[k].from + 1 \in DOMAIN lm
            /\ s[k].idx = lm[a[k].from + 1]

Agree(a, c, r, s, lm, N) ==
    /\ \E V : a \in Seq(V)
    /\ s \in Seq(WASM_STACK_ELEM)
    /\ Len(a) = Len(s)
    /\ r = [q \in 0 .. N |-> r[q]]
    /\ ValuesAgree(a, r, s, N)
    /\ LocalsAgree(c, r, lm, N)
    /\ AliasesAgree(a, s, lm)

\* What popping leaves of a sequence.
LEMMA CutFacts ==
    ASSUME NEW V, NEW a \in Seq(V), NEW n \in Nat, n <= Len(a)
    PROVE  /\ Cut(a, n) \in Seq(V) /\ Len(Cut(a, n)) = Len(a) - n
           /\ \A k \in 1 .. Len(a) - n : Cut(a, n)[k] = a[k] /\ k \in 1 .. Len(a)
<1>1. /\ Len(a) \in Nat /\ DOMAIN a = 1 .. Len(a) /\ \A k \in 1 .. Len(a) : a[k] \in V
  BY LenProperties, SMTT(30)
<1>2. PICK m \in Nat : m = Len(a) - n
  <2>1. PICK l \in Nat : l = Len(a)  BY <1>1
  <2>2. l - n \in Nat  BY <2>1
  <2> QED BY <2>1, <2>2
<1>3. \A k \in 1 .. m : a[k] \in V /\ k \in 1 .. Len(a)  BY <1>1, <1>2
<1>4. Cut(a, n) = SubSeq(a, 1, m)  BY <1>2 DEF Cut
<1>5. m \in Int /\ 1 \in Int  BY <1>2
<1>6. /\ Cut(a, n) \in Seq(V)
      /\ Len(Cut(a, n)) = IF 1 <= m THEN m - 1 + 1 ELSE 0
      /\ \A k \in 1 .. m - 1 + 1 : Cut(a, n)[k] = a[1 + k - 1]
  BY ONLY <1>3, <1>4, <1>5, SubSeqProperties
<1>7. m - 1 + 1 = m /\ (~(1 <= m) => m = 0) /\ \A k \in 1 .. m : 1 + k - 1 = k
  BY <1>2
<1>8. Len(Cut(a, n)) = m /\ \A k \in 1 .. m : Cut(a, n)[k] = a[k]  BY <1>6, <1>7
<1> QED BY <1>2, <1>3, <1>6, <1>8

\* Popping on both sides.
LEMMA AgreeCut ==
    ASSUME NEW a, NEW c, NEW r, NEW s, NEW lm, NEW N \in Nat, Agree(a, c, r, s, lm, N),
           NEW n \in Nat, n <= Len(s)
    PROVE  Agree(Cut(a, n), c, r, Cut(s, n), lm, N)
<1>1. PICK V : a \in Seq(V)  BY DEF Agree
<1>2. s \in Seq(WASM_STACK_ELEM) /\ Len(a) = Len(s)  BY DEF Agree
<1>3. /\ Cut(a, n) \in Seq(V) /\ Len(Cut(a, n)) = Len(s) - n
      /\ \A k \in 1 .. Len(s) - n : Cut(a, n)[k] = a[k] /\ k \in 1 .. Len(s)
  BY <1>1, <1>2, CutFacts
<1>4. /\ Cut(s, n) \in Seq(WASM_STACK_ELEM) /\ Len(Cut(s, n)) = Len(s) - n
      /\ \A k \in 1 .. Len(s) - n : Cut(s, n)[k] = s[k]
  BY <1>2, CutFacts
<1>5. ValuesAgree(Cut(a, n), r, Cut(s, n), N)  BY <1>3, <1>4 DEF Agree, ValuesAgree
<1>6. AliasesAgree(Cut(a, n), Cut(s, n), lm)  BY <1>3, <1>4 DEF Agree, AliasesAgree
<1> QED BY <1>3, <1>4, <1>5, <1>6 DEF Agree

\* Popping nothing changes nothing.
LEMMA CutNone == ASSUME NEW V, NEW a \in Seq(V) PROVE Cut(a, 0) = a
<1>1. Len(a) \in Nat /\ 0 <= Len(a) /\ Len(a) - 0 = Len(a)  BY LenProperties
<1>2. /\ Cut(a, 0) \in Seq(V) /\ Len(Cut(a, 0)) = Len(a)
      /\ \A k \in 1 .. Len(a) : Cut(a, 0)[k] = a[k]
  BY <1>1, CutFacts
<1>3. /\ DOMAIN a = 1 .. Len(a) /\ DOMAIN Cut(a, 0) = 1 .. Len(a)
      /\ a = [k \in DOMAIN a |-> a[k]] /\ Cut(a, 0) = [k \in DOMAIN Cut(a, 0) |-> Cut(a, 0)[k]]
  BY <1>2, LenProperties
<1> HIDE DEF Cut
<1> QED BY <1>2, <1>3

\* A and S are a and s with x and e on top.
BothPushed(a, x, A, s, e, S) ==
    /\ \E V : A \in Seq(V)
    /\ S \in Seq(WASM_STACK_ELEM) /\ Len(A) = Len(s) + 1 /\ Len(S) = Len(s) + 1
    /\ \A k \in 1 .. Len(s) : A[k] = a[k] /\ S[k] = s[k]
    /\ A[Len(s)+1] = x /\ S[Len(s)+1] = e
    /\ \A k \in 1 .. Len(s) + 1 : k \in 1 .. Len(s) \/ k = Len(s) + 1

\* A push on both sides.
LEMMA AppendBoth ==
    ASSUME NEW a, NEW c, NEW r, NEW s, NEW lm, NEW N \in Nat, Agree(a, c, r, s, lm, N),
           NEW x, NEW e \in WASM_STACK_ELEM
    PROVE  BothPushed(a, x, Append(a, x), s, e, Append(s, e))
<1>1. PICK V : a \in Seq(V)  BY DEF Agree
<1>2. s \in Seq(WASM_STACK_ELEM) /\ Len(a) = Len(s) /\ Len(s) \in Nat
  BY LenProperties DEF Agree
<1>3. a \in Seq(V \cup {x}) /\ x \in V \cup {x}
  <2>1. a \in [1 .. Len(a) -> V]  BY <1>1, LenProperties
  <2>2. a \in [1 .. Len(a) -> V \cup {x}]  BY <2>1
  <2> QED BY <1>2, <2>2, SeqDef
<1>4. /\ Append(a, x) \in Seq(V \cup {x}) /\ Len(Append(a, x)) = Len(a) + 1
      /\ \A k \in 1 .. Len(a) : Append(a, x)[k] = a[k]
      /\ Append(a, x)[Len(a)+1] = x
  BY <1>3, AppendProperties
<1>5. /\ Append(s, e) \in Seq(WASM_STACK_ELEM) /\ Len(Append(s, e)) = Len(s) + 1
      /\ \A k \in 1 .. Len(s) : Append(s, e)[k] = s[k]
      /\ Append(s, e)[Len(s)+1] = e
  BY <1>2, AppendProperties
<1>6. \A k \in 1 .. Len(s) + 1 : k \in 1 .. Len(s) \/ k = Len(s) + 1  BY <1>2
<1> QED BY <1>2, <1>4, <1>5, <1>6 DEF BothPushed

\* A fresh register for the value pushed: none of the locals', none on the stack.
LEMMA AgreeFresh ==
    ASSUME NEW a, NEW c, NEW r, NEW s, NEW lm, NEW N \in Nat, Agree(a, c, r, s, lm, N),
           NEW q \in 0 .. N, \A l \in DOMAIN lm : lm[l] # q,
           \A k \in 1 .. Len(s) : s[k].idx # q, NEW v
    PROVE  Agree(Append(a, Slot(v, -1)), c, [r EXCEPT ![q] = v],
                 Append(s, [kind |-> "TEMP", idx |-> q]), lm, N)
<1> DEFINE e == [kind |-> "TEMP", idx |-> q]
           x == Slot(v, -1)
           r2 == [r EXCEPT ![q] = v]
<1>1. e \in WASM_STACK_ELEM /\ e.idx = q /\ e.kind = "TEMP" /\ x.val = v
  BY DEF WASM_STACK_ELEM, Slot
<1>2. r2 = [p \in 0 .. N |-> r2[p]] /\ r2[q] = v /\ \A p \in 0 .. N : p # q => r2[p] = r[p]
  <2>1. r = [p \in 0 .. N |-> r[p]]  BY DEF Agree
  <2>2. DOMAIN r = 0 .. N  BY <2>1
  <2>3. DOMAIN r2 = 0 .. N /\ r2 = [p \in DOMAIN r2 |-> r2[p]]  BY <2>2
  <2>4. r2[q] = v /\ \A p \in 0 .. N : p # q => r2[p] = r[p]  BY <2>2
  <2> HIDE DEF r2
  <2> QED BY <2>3, <2>4
<1> HIDE DEF e, x, r2
<1> DEFINE A == Append(a, x)
           S == Append(s, e)
<1>3. /\ \E V : A \in Seq(V)
      /\ S \in Seq(WASM_STACK_ELEM) /\ Len(A) = Len(s) + 1 /\ Len(S) = Len(s) + 1
      /\ \A k \in 1 .. Len(s) : A[k] = a[k] /\ S[k] = s[k]
      /\ A[Len(s)+1] = x /\ S[Len(s)+1] = e
      /\ \A k \in 1 .. Len(s) + 1 : k \in 1 .. Len(s) \/ k = Len(s) + 1
  <2>1. BothPushed(a, x, A, s, e, S)  BY <1>1, AppendBoth
  <2> HIDE DEF A, S
  <2> QED BY <2>1 DEF BothPushed
<1> HIDE DEF A, S
<1>4. ValuesAgree(A, r2, S, N)
  <2>1. ValuesAgree(a, r, s, N)  BY DEF Agree
  <2> QED BY <1>1, <1>2, <1>3, <2>1, SMTT(30) DEF ValuesAgree
<1>5. LocalsAgree(c, r2, lm, N)
  <2>1. LocalsAgree(c, r, lm, N)  BY DEF Agree
  <2> QED BY <1>2, <2>1 DEF LocalsAgree
<1>6. AliasesAgree(A, S, lm)
  <2>1. AliasesAgree(a, s, lm)  BY DEF Agree
  <2> QED BY <1>1, <1>3, <2>1 DEF AliasesAgree
<1>7. Agree(A, c, r2, S, lm, N)  BY <1>2, <1>3, <1>4, <1>5, <1>6, Zenon DEF Agree
<1> QED BY <1>7 DEF A, S, r2, x, e

\* The register of a local for the value pushed.
LEMMA AgreeAlias ==
    ASSUME NEW a, NEW c, NEW r, NEW s, NEW lm, NEW N \in Nat, Agree(a, c, r, s, lm, N),
           NEW l \in Nat, l + 1 \in DOMAIN lm
    PROVE  Agree(Append(a, Slot(c[l+1], l)), c, r,
                 Append(s, [kind |-> "LOCAL", idx |-> lm[l+1]]), lm, N)
<1> DEFINE e == [kind |-> "LOCAL", idx |-> lm[l+1]]
           x == Slot(c[l+1], l)
<1>1. lm[l+1] \in 0 .. N /\ r[lm[l+1]] = c[l+1]  BY DEF Agree, LocalsAgree
<1>2. e \in WASM_STACK_ELEM /\ e.idx = lm[l+1] /\ x.val = c[l+1] /\ x.from = l
  BY <1>1 DEF WASM_STACK_ELEM, Slot
<1> HIDE DEF e, x
<1> DEFINE A == Append(a, x)
           S == Append(s, e)
<1>3. /\ \E V : A \in Seq(V)
      /\ S \in Seq(WASM_STACK_ELEM) /\ Len(A) = Len(s) + 1 /\ Len(S) = Len(s) + 1
      /\ \A k \in 1 .. Len(s) : A[k] = a[k] /\ S[k] = s[k]
      /\ A[Len(s)+1] = x /\ S[Len(s)+1] = e
      /\ \A k \in 1 .. Len(s) + 1 : k \in 1 .. Len(s) \/ k = Len(s) + 1
  <2>1. BothPushed(a, x, A, s, e, S)  BY <1>2, AppendBoth
  <2> HIDE DEF A, S
  <2> QED BY <2>1 DEF BothPushed
<1> HIDE DEF A, S
<1>4. ValuesAgree(A, r, S, N)
  <2>1. ValuesAgree(a, r, s, N)  BY DEF Agree
  <2> QED BY <1>1, <1>2, <1>3, <2>1 DEF ValuesAgree
<1>5. AliasesAgree(A, S, lm)
  <2>1. AliasesAgree(a, s, lm)  BY DEF Agree
  <2> QED BY <1>2, <1>3, <2>1 DEF AliasesAgree
<1>6. Agree(A, c, r, S, lm, N)  BY <1>3, <1>4, <1>5, Zenon DEF Agree
<1> QED BY <1>6 DEF A, S, x, e

\* The map is one to one, and no temporary on the stack is a local's register.
Apart(s, lm) ==
    /\ \A i, j \in DOMAIN lm : i # j => lm[i] # lm[j]
    /\ \A k \in 1 .. Len(s) : s[k].kind # "LOCAL" => \A l \in DOMAIN lm : s[k].idx # lm[l]

\* The top of the stack moved to a local that no operand below it was read from.
LEMMA AgreeMove ==
    ASSUME NEW a, NEW c, NEW r, NEW s, NEW lm, NEW N \in Nat, Agree(a, c, r, s, lm, N),
           NEW l \in Nat, l + 1 \in DOMAIN lm, Len(s) # 0, NotRead(a, l), Apart(s, lm)
    PROVE  Agree(a, [c EXCEPT ![l+1] = ValAt(a, 1)],
                 [r EXCEPT ![lm[l+1]] = r[s[Len(s)].idx]], s, lm, N)
<1> DEFINE d == lm[l+1]
           v == r[s[Len(s)].idx]
           r2 == [r EXCEPT ![d] = v]
           c2 == [c EXCEPT ![l+1] = v]
<1>1. Len(s) \in Nat /\ Len(a) = Len(s) /\ Len(s) \in 1 .. Len(s) /\ Len(a) + 1 - 1 = Len(s)
  BY LenProperties DEF Agree
<1>2. ValAt(a, 1) = v  BY <1>1 DEF Agree, ValuesAgree, ValAt
<1>3. d \in 0 .. N  BY DEF Agree, LocalsAgree
<1>4. r2 = [p \in 0 .. N |-> r2[p]] /\ r2[d] = v /\ \A p \in 0 .. N : p # d => r2[p] = r[p]
  <2>1. r = [p \in 0 .. N |-> r[p]]  BY DEF Agree
  <2>2. DOMAIN r = 0 .. N  BY <2>1
  <2> HIDE DEF v, d
  <2>3. DOMAIN r2 = 0 .. N /\ r2 = [p \in DOMAIN r2 |-> r2[p]]  BY <2>2
  <2>4. r2[d] = v /\ \A p \in 0 .. N : p # d => r2[p] = r[p]  BY <1>3, <2>2
  <2> HIDE DEF r2
  <2> QED BY <2>3, <2>4
<1>5. /\ c2 = [p \in DOMAIN lm |-> c2[p]] /\ c2[l+1] = v
      /\ \A p \in DOMAIN lm : p # l + 1 => c2[p] = c[p]
  <2>1. c = [p \in DOMAIN lm |-> c[p]]  BY DEF Agree, LocalsAgree
  <2>2. DOMAIN c = DOMAIN lm  BY <2>1
  <2> HIDE DEF v, d
  <2>3. DOMAIN c2 = DOMAIN lm /\ c2 = [p \in DOMAIN c2 |-> c2[p]]  BY <2>2
  <2>4. c2[l+1] = v /\ \A p \in DOMAIN lm : p # l + 1 => c2[p] = c[p]  BY <2>2
  <2> HIDE DEF c2
  <2> QED BY <2>3, <2>4
<1>6. \A p \in DOMAIN lm : p # l + 1 => lm[p] # d /\ lm[p] \in 0 .. N /\ r[lm[p]] = c[p]
  BY DEF Apart, Agree, LocalsAgree
<1>7. /\ s[Len(s)].idx \in 0 .. N /\ r[s[Len(s)].idx] = a[Len(s)].val
      /\ \A k \in 1 .. Len(s) : s[k].idx \in 0 .. N /\ r[s[k].idx] = a[k].val
  BY <1>1 DEF Agree, ValuesAgree
<1>8. \A k \in 1 .. Len(s) : k # Len(s) => s[k].idx # d
  <2> SUFFICES ASSUME NEW k \in 1 .. Len(s), k # Len(s) PROVE s[k].idx # d
    OBVIOUS
  <2>1. CASE s[k].kind # "LOCAL"  BY <2>1 DEF Apart
  <2>2. CASE s[k].kind = "LOCAL"
    <3>1. /\ a[k].from \in Nat /\ a[k].from + 1 \in DOMAIN lm
          /\ s[k].idx = lm[a[k].from + 1]
      BY <2>2 DEF Agree, AliasesAgree
    <3>2. k \in 1 .. Len(a) - 1  BY <1>1
    <3>3. a[k].from # l  BY <3>2 DEF NotRead
    <3>4. a[k].from + 1 # l + 1  BY <3>1, <3>3
    <3> QED BY <3>1, <3>4 DEF Apart
  <2> QED BY <2>1, <2>2
<1> HIDE DEF r2, c2
<1>9. ValuesAgree(a, r2, s, N)
  <2> SUFFICES ASSUME NEW k \in 1 .. Len(s) PROVE r2[s[k].idx] = a[k].val
    BY <1>7 DEF ValuesAgree
  <2>1. CASE s[k].idx # d  BY <1>4, <1>7, <2>1
  <2>2. CASE s[k].idx = d
    <3>1. k = Len(s)  BY <1>8, <2>2
    <3> QED BY <1>4, <1>7, <2>2, <3>1
  <2> QED BY <2>1, <2>2
<1>10. LocalsAgree(c2, r2, lm, N)
  <2> SUFFICES ASSUME NEW p \in DOMAIN lm PROVE lm[p] \in 0 .. N /\ r2[lm[p]] = c2[p]
    BY <1>5 DEF LocalsAgree
  <2>1. CASE p # l + 1  BY <1>4, <1>5, <1>6, <2>1
  <2>2. CASE p = l + 1  BY <1>3, <1>4, <1>5, <2>2
  <2> QED BY <2>1, <2>2
<1>11. Agree(a, c2, r2, s, lm, N)  BY <1>4, <1>9, <1>10, Zenon DEF Agree
<1> QED BY <1>2, <1>11 DEF c2, r2, v, d
-----------------------------------------------------------------------------
(* The two evaluations of Translator are such runs.                          *)

WStart(lm) == WasmState(<<>>, <<"mem">>, [l \in DOMAIN lm |-> <<"init", lm[l]>>])
UStart(N)  == UwasmState(<<"mem">>, [r \in 0 .. N |-> <<"init", r>>])

\* The function a definition by LET chooses, for the steps of wasm.
LEMMA WasmRun ==
    ASSUME NEW st0, NEW us, NEW k \in Nat
    PROVE  (CHOOSE f : f = [j \in 0 .. k |-> IF j = 0 THEN st0 ELSE FaithfulStep(f[j-1], us[j])])[k]
               = After("wasm", st0, us, k)
<1> DEFINE Body(f) == [j \in 0 .. k |-> IF j = 0 THEN st0 ELSE FaithfulStep(f[j-1], us[j])]
           Gen(f)  == [j \in 0 .. k |-> IF j = 0 THEN st0 ELSE MachineStep("wasm", f[j-1], us[j])]
<1>1. \A st, i : MachineStep("wasm", st, i) = FaithfulStep(st, i)  BY DEF MachineStep
<1>2. \A f : Body(f) = Gen(f)  BY <1>1
<1>3. /\ \E f : f = Gen(f)
      /\ \A f : f = Gen(f) => f[k] = After("wasm", st0, us, k)
  BY RunAsFunction, ZenonT(60)
<1> HIDE DEF Body, Gen
<1>4. \E f : f = Body(f)  BY <1>2, <1>3
<1>5. PICK g : g = (CHOOSE f : f = Body(f)) /\ g = Body(g)  BY <1>4
<1>6. g[k] = After("wasm", st0, us, k)  BY <1>2, <1>3, <1>5
<1> QED BY <1>5, <1>6 DEF Body

\* And for those of uwasm.
LEMMA UwasmRun ==
    ASSUME NEW st0, NEW us, NEW k \in Nat
    PROVE  (CHOOSE f : f = [j \in 0 .. k |-> IF j = 0 THEN st0 ELSE UwasmStep(f[j-1], us[j])])[k]
               = After("uwasm", st0, us, k)
<1> DEFINE Body(f) == [j \in 0 .. k |-> IF j = 0 THEN st0 ELSE UwasmStep(f[j-1], us[j])]
           Gen(f)  == [j \in 0 .. k |-> IF j = 0 THEN st0 ELSE MachineStep("uwasm", f[j-1], us[j])]
<1>1. \A st, i : MachineStep("uwasm", st, i) = UwasmStep(st, i)  BY DEF MachineStep
<1>2. \A f : Body(f) = Gen(f)  BY <1>1
<1>3. /\ \E f : f = Gen(f)
      /\ \A f : f = Gen(f) => f[k] = After("uwasm", st0, us, k)
  BY RunAsFunction, ZenonT(60)
<1> HIDE DEF Body, Gen
<1>4. \E f : f = Body(f)  BY <1>2, <1>3
<1>5. PICK g : g = (CHOOSE f : f = Body(f)) /\ g = Body(g)  BY <1>4
<1>6. g[k] = After("uwasm", st0, us, k)  BY <1>2, <1>3, <1>5
<1> QED BY <1>5, <1>6 DEF Body

\* The state the property speaks of is that of wasm after the instructions
\* translated.
LEMMA WasmAfterIs ==
    ASSUME NEW k \in Nat, k = pc - 1
    PROVE  FaithfulAfter = After("wasm", WStart(local_map), ins, k)
<1>1. FaithfulAfter = (CHOOSE f : f = [j \in 0 .. k |-> IF j = 0 THEN WStart(local_map)
                                                   ELSE FaithfulStep(f[j-1], ins[j])])[k]
  BY Zenon DEF FaithfulAfter, WasmStart, WStart
<1> QED BY <1>1, WasmRun

\* And on the side of uwasm, that after the instructions emitted.
LEMMA UwasmAfterIs ==
    ASSUME NEW k \in Nat, k = Len(uinsts)
    PROVE  UwasmAfter = After("uwasm", UStart(Get_local_num), uinsts, k)
<1>1. UwasmAfter = (CHOOSE f : f = [j \in 0 .. k |-> IF j = 0 THEN UStart(Get_local_num)
                                                    ELSE UwasmStep(f[j-1], uinsts[j])])[k]
  BY Zenon DEF UwasmAfter, UStart
<1> QED BY <1>1, UwasmRun

\* Before the first instruction both sides hold what they started with.
LEMMA AgreeStart ==
    ASSUME NEW lm, NEW N \in Nat, \A l \in DOMAIN lm : lm[l] \in 0 .. N
    PROVE  Agree(WStart(lm).stack, WStart(lm).locals, UStart(N).regs, <<>>, lm, N)
<1> DEFINE c == [l \in DOMAIN lm |-> <<"init", lm[l]>>]
           r == [q \in 0 .. N |-> <<"init", q>>]
<1>1. WStart(lm).stack = <<>> /\ WStart(lm).locals = c /\ UStart(N).regs = r
  BY Zenon DEF WStart, UStart, WasmState, UwasmState
<1>2. r = [q \in 0 .. N |-> r[q]] /\ c = [l \in DOMAIN lm |-> c[l]]  OBVIOUS
<1>3. \A l \in DOMAIN lm : lm[l] \in 0 .. N /\ r[lm[l]] = c[l]  OBVIOUS
<1> HIDE DEF c, r
<1>4. LocalsAgree(c, r, lm, N)  BY <1>2, <1>3 DEF LocalsAgree
<1>5. <<>> \in Seq({}) /\ <<>> \in Seq(WASM_STACK_ELEM) /\ Len(<<>>) = 0 /\ 1 .. 0 = {}
  BY EmptySeq
<1>6. ValuesAgree(<<>>, r, <<>>, N) /\ AliasesAgree(<<>>, <<>>, lm)
  BY <1>5 DEF ValuesAgree, AliasesAgree
<1>7. Agree(<<>>, c, r, <<>>, lm, N)  BY <1>2, <1>4, <1>5, <1>6 DEF Agree
<1> QED BY <1>1, <1>7
-----------------------------------------------------------------------------
(* One instruction keeps the relation, whatever the two states are.          *)

Denoted(w, u, s, lm, N) ==
    Agree(w.stack, w.locals, u.regs, s, lm, N) /\ u.mem = w.mem

\* Wasm does i, uwasm does inst or nothing, and the tracked stack becomes s2; the
\* registers in use then are below G.
KeepsBy(i, inst, s, s2, lm, G) ==
    \A w, u : \A N \in Nat :
        (G <= N /\ Denoted(w, u, s, lm, N) /\ w.sound = TRUE /\ FaithfulStep(w, i).sound = TRUE) =>
            Denoted(FaithfulStep(w, i), UwasmStep(u, inst), s2, lm, N)

KeepsAlone(i, s, s2, lm) ==
    \A w, u : \A N \in Nat :
        (Denoted(w, u, s, lm, N) /\ w.sound = TRUE /\ FaithfulStep(w, i).sound = TRUE) =>
            Denoted(FaithfulStep(w, i), u, s2, lm, N)

IdxAt(s, n) == s[Len(s) + 1 - n].idx

Temp(q) == [kind |-> "TEMP", idx |-> q]

Fresh(q, s, lm) ==
    /\ q \in Nat
    /\ \A l \in DOMAIN lm : lm[l] # q
    /\ \A k \in 1 .. Len(s) : s[k].idx # q

\* The register tracked for the n-th operand from the top.
LEMMA OperandAt ==
    ASSUME NEW a, NEW c, NEW r, NEW s, NEW lm, NEW N \in Nat, Agree(a, c, r, s, lm, N),
           NEW n \in Nat, n # 0, n <= Len(s)
    PROVE  r[IdxAt(s, n)] = ValAt(a, n)
<1>1. Len(s) \in Nat /\ Len(a) = Len(s)  BY LenProperties DEF Agree
<1>2. PICK k \in 1 .. Len(s) : k = Len(s) + 1 - n  BY <1>1, SMTT(30)
<1> QED BY <1>1, <1>2 DEF Agree, ValuesAgree, IdxAt, ValAt

\* The states with the relation have the fields the steps are told in.
LEMMA DenotedFields ==
    ASSUME NEW w, NEW u, NEW s, NEW lm, NEW N, Denoted(w, u, s, lm, N), w.sound = TRUE
    PROVE  IsWasmState(w, w.stack, w.mem, w.locals) /\ IsUwasmState(u, w.mem, u.regs)
BY DEF Denoted, IsWasmState, IsUwasmState

\* The relation from the parts of the two states.
LEMMA DenotedBy ==
    ASSUME NEW a, NEW b, NEW c, NEW r, NEW s, NEW lm, NEW N, Agree(a, c, r, s, lm, N),
           NEW w, w = WasmState(a, b, c), NEW u, IsUwasmState(u, b, r)
    PROVE  Denoted(w, u, s, lm, N)
<1>1. IsWasmState(w, a, b, c)  BY StateFields
<1>2. w.stack = a /\ w.mem = b /\ w.locals = c /\ u.mem = b /\ u.regs = r
  BY <1>1 DEF IsWasmState, IsUwasmState
<1> QED BY <1>2 DEF Denoted

\* n operands popped, and a value pushed in a fresh register.
LEMMA AgreeResult ==
    ASSUME NEW a, NEW c, NEW r, NEW s, NEW lm, NEW N \in Nat, Agree(a, c, r, s, lm, N),
           NEW n \in Nat, n <= Len(s), NEW q \in 0 .. N, Fresh(q, s, lm), NEW v
    PROVE  Agree(Append(Cut(a, n), Slot(v, -1)), c, [r EXCEPT ![q] = v],
                 Append(Cut(s, n), Temp(q)), lm, N)
<1>1. Agree(Cut(a, n), c, r, Cut(s, n), lm, N)  BY AgreeCut
<1>2. s \in Seq(WASM_STACK_ELEM)  BY DEF Agree
<1>3. /\ Len(Cut(s, n)) = Len(s) - n
      /\ \A k \in 1 .. Len(s) - n : Cut(s, n)[k] = s[k] /\ k \in 1 .. Len(s)
  BY <1>2, CutFacts
<1>4. \A k \in 1 .. Len(Cut(s, n)) : Cut(s, n)[k].idx # q  BY <1>3 DEF Fresh
<1>5. \A l \in DOMAIN lm : lm[l] # q  BY DEF Fresh
<1> QED BY <1>1, <1>4, <1>5, AgreeFresh DEF Temp

\* local.get
LEMMA KeepsGet ==
    ASSUME NEW i, NEW s, NEW lm, i.op = "LocalGet", i.imm \in Nat, i.imm + 1 \in DOMAIN lm
    PROVE  KeepsAlone(i, s, Append(s, [kind |-> "LOCAL", idx |-> lm[i.imm+1]]), lm)
<1> DEFINE s2 == Append(s, [kind |-> "LOCAL", idx |-> lm[i.imm+1]])
<1> SUFFICES ASSUME NEW w, NEW u, NEW N \in Nat, Denoted(w, u, s, lm, N), w.sound = TRUE
             PROVE  Denoted(FaithfulStep(w, i), u, s2, lm, N)
  BY DEF KeepsAlone
<1>1. Agree(w.stack, w.locals, u.regs, s, lm, N) /\ u.mem = w.mem  BY DEF Denoted
<1>2. PICK a, b, c : a = w.stack /\ b = w.mem /\ c = w.locals  OBVIOUS
<1>3. FaithfulStep(w, i) = WasmState(Append(Cut(a, 0), Slot(c[i.imm+1], i.imm)), b, c)
  <2>1. IsWasmState(w, a, b, c)  BY <1>2 DEF IsWasmState
  <2> QED BY <2>1, WasmGet
<1>4. Cut(a, 0) = a
  <2>1. \E V : a \in Seq(V)  BY <1>1, <1>2 DEF Agree
  <2> QED BY <2>1, CutNone
<1>5. PICK l \in Nat : l = i.imm /\ l + 1 \in DOMAIN lm  OBVIOUS
<1>6. Agree(Append(a, Slot(c[l+1], l)), c, u.regs, s2, lm, N)  BY <1>1, <1>2, <1>5, AgreeAlias
<1>7. FaithfulStep(w, i) = WasmState(Append(a, Slot(c[l+1], l)), b, c)  BY <1>3, <1>4, <1>5
<1>8. IsUwasmState(u, b, u.regs)  BY <1>1, <1>2 DEF IsUwasmState
<1> HIDE DEF s2
<1> QED BY <1>6, <1>7, <1>8, DenotedBy

\* The move emitted for a local.set or a local.tee, and the stack it leaves.
MovesTop(i, inst, s, s2, lm) ==
    /\ i.op \in {"LocalSet", "LocalTee"} /\ i.imm \in Nat
    /\ i.imm + 1 \in DOMAIN lm /\ Len(s) # 0 /\ Apart(s, lm)
    /\ inst.op = "UMOV" /\ inst.rd = lm[i.imm+1] /\ inst.rs = IdxAt(s, 1)
    /\ s2 = IF i.op = "LocalSet" THEN Cut(s, 1) ELSE s

\* local.set and local.tee, by a move.
LEMMA KeepsMove ==
    ASSUME NEW i, NEW inst, NEW s, NEW s2, NEW lm, NEW G, MovesTop(i, inst, s, s2, lm)
    PROVE  KeepsBy(i, inst, s, s2, lm, G)
<1>0. /\ i.op \in {"LocalSet", "LocalTee"} /\ i.imm \in Nat
      /\ i.imm + 1 \in DOMAIN lm /\ Len(s) # 0 /\ Apart(s, lm)
      /\ inst.op = "UMOV" /\ inst.rd = lm[i.imm+1] /\ inst.rs = IdxAt(s, 1)
      /\ s2 = IF i.op = "LocalSet" THEN Cut(s, 1) ELSE s
  BY DEF MovesTop
<1> SUFFICES ASSUME NEW w, NEW u, NEW N \in Nat, Denoted(w, u, s, lm, N), w.sound = TRUE,
                    FaithfulStep(w, i).sound = TRUE
             PROVE  Denoted(FaithfulStep(w, i), UwasmStep(u, inst), s2, lm, N)
  BY DEF KeepsBy
<1>1. Agree(w.stack, w.locals, u.regs, s, lm, N) /\ u.mem = w.mem  BY DEF Denoted
<1>2. PICK a, b, c, r : a = w.stack /\ b = w.mem /\ c = w.locals /\ r = u.regs  OBVIOUS
<1>3. IsWasmState(w, a, b, c) /\ IsUwasmState(u, b, r)
  BY <1>1, <1>2 DEF IsWasmState, IsUwasmState
<1>4. PICK l \in Nat : l = i.imm /\ l + 1 \in DOMAIN lm  BY <1>0
<1> DEFINE c2 == [c EXCEPT ![l+1] = ValAt(a, 1)]
           r2 == [r EXCEPT ![lm[l+1]] = r[s[Len(s)].idx]]
           a2 == IF i.op = "LocalSet" THEN Cut(a, 1) ELSE a
<1>5. FaithfulStep(w, i) = WasmState(a2, b, c2) /\ NotRead(a, l)
  <2>1. FaithfulStep(w, i) = IF NotRead(a, i.imm)
                         THEN WasmState(IF i.op = "LocalSet" THEN Cut(a, 1) ELSE a, b,
                                        [c EXCEPT ![i.imm+1] = ValAt(a, 1)])
                         ELSE [sound |-> FALSE]
    BY <1>0, <1>3, WasmSetTee
  <2>2. [sound |-> FALSE].sound # TRUE  OBVIOUS
  <2>3. NotRead(a, i.imm)  BY <2>1, <2>2, Zenon
  <2> QED BY <1>4, <2>1, <2>3
<1>6. Len(s) \in Nat /\ 1 <= Len(s) /\ Len(s) + 1 - 1 = Len(s)
  BY <1>0, <1>1, LenProperties DEF Agree
<1>7. UwasmStep(u, inst) = UwasmState(b, r2)
  <2>1. UwasmStep(u, inst) = UwasmState(b, [r EXCEPT ![inst.rd] = r[inst.rs]])
    BY <1>0, <1>3, UwasmMov
  <2>2. inst.rd = lm[l+1] /\ inst.rs = s[Len(s)].idx  BY <1>0, <1>4, <1>6 DEF IdxAt
  <2> QED BY <2>1, <2>2
<1>8. Agree(a, c2, r2, s, lm, N)  BY <1>0, <1>1, <1>2, <1>4, <1>5, AgreeMove
<1> HIDE DEF c2, r2
<1>9. Agree(a2, c2, r2, s2, lm, N)
  <2>1. Agree(Cut(a, 1), c2, r2, Cut(s, 1), lm, N)  BY <1>6, <1>8, AgreeCut
  <2> QED BY <1>0, <1>8, <2>1
<1>10. IsUwasmState(UwasmStep(u, inst), b, r2)  BY <1>7, StateFields
<1> HIDE DEF a2
<1> QED BY <1>5, <1>9, <1>10, DenotedBy

\* i32.const
LEMMA KeepsConst ==
    ASSUME NEW i, NEW inst, NEW s, NEW lm, NEW G \in Nat, NEW q \in Nat, i.op = "I32Const",
           Fresh(q, s, lm), q < G,
           inst.op = "I32Const", inst.rd = q, inst.ofs = i.imm
    PROVE  KeepsBy(i, inst, s, Append(Cut(s, 0), Temp(q)), lm, G)
<1> DEFINE s2 == Append(Cut(s, 0), Temp(q))
<1> SUFFICES ASSUME NEW w, NEW u, NEW N \in Nat, G <= N, Denoted(w, u, s, lm, N), w.sound = TRUE
             PROVE  Denoted(FaithfulStep(w, i), UwasmStep(u, inst), s2, lm, N)
  BY DEF KeepsBy
<1>1. Agree(w.stack, w.locals, u.regs, s, lm, N) /\ u.mem = w.mem  BY DEF Denoted
<1>2. PICK a, b, c, r : a = w.stack /\ b = w.mem /\ c = w.locals /\ r = u.regs  OBVIOUS
<1>3. IsWasmState(w, a, b, c) /\ IsUwasmState(u, b, r)
  BY <1>1, <1>2 DEF IsWasmState, IsUwasmState
<1> DEFINE v == <<"const", i.imm>>
<1>4. FaithfulStep(w, i) = WasmState(Append(Cut(a, 0), Slot(v, -1)), b, c)  BY <1>3, WasmConst
<1>5. UwasmStep(u, inst) = UwasmState(b, [r EXCEPT ![q] = v])
  <2>1. UwasmStep(u, inst) = UwasmState(b, [r EXCEPT ![inst.rd] = <<"const", inst.ofs>>])
    BY <1>3, UwasmConst
  <2> QED BY <2>1
<1> HIDE DEF v
<1>6. q \in 0 .. N /\ 0 <= Len(s)
  BY <1>1, LenProperties DEF Agree
<1>7. Agree(Append(Cut(a, 0), Slot(v, -1)), c, [r EXCEPT ![q] = v], s2, lm, N)
  BY <1>1, <1>2, <1>6, AgreeResult
<1>8. IsUwasmState(UwasmStep(u, inst), b, [r EXCEPT ![q] = v])  BY <1>5, StateFields
<1> HIDE DEF s2
<1> QED BY <1>4, <1>7, <1>8, DenotedBy

\* The binary operations.
LEMMA KeepsBinary ==
    ASSUME NEW i, NEW inst, NEW s, NEW lm, NEW G \in Nat, NEW q \in Nat, i.op \in Arithmetic,
           2 <= Len(s), Fresh(q, s, lm), q < G,
           inst.op = i.op, inst.rd = q, inst.rs = IdxAt(s, 1), inst.rt = IdxAt(s, 2)
    PROVE  KeepsBy(i, inst, s, Append(Cut(s, 2), Temp(q)), lm, G)
<1> DEFINE s2 == Append(Cut(s, 2), Temp(q))
<1> SUFFICES ASSUME NEW w, NEW u, NEW N \in Nat, G <= N, Denoted(w, u, s, lm, N), w.sound = TRUE,
                    FaithfulStep(w, i).sound = TRUE
             PROVE  Denoted(FaithfulStep(w, i), UwasmStep(u, inst), s2, lm, N)
  BY DEF KeepsBy
<1>1. Agree(w.stack, w.locals, u.regs, s, lm, N) /\ u.mem = w.mem  BY DEF Denoted
<1>2. PICK a, b, c, r : a = w.stack /\ b = w.mem /\ c = w.locals /\ r = u.regs  OBVIOUS
<1>3. IsWasmState(w, a, b, c) /\ IsUwasmState(u, b, r)
  BY <1>1, <1>2 DEF IsWasmState, IsUwasmState
<1> DEFINE v == Result(i.op, ValAt(a, 2), ValAt(a, 1))
<1>4. FaithfulStep(w, i) = WasmState(Append(Cut(a, 2), Slot(v, -1)), b, c) /\ i.op \notin Ordered
  <2>1. FaithfulStep(w, i) = IF i.op \notin Ordered
                             THEN WasmState(Append(Cut(a, 2), Slot(v, -1)), b, c)
                             ELSE [sound |-> FALSE]
    BY <1>3, WasmBinary
  <2>2. [sound |-> FALSE].sound # TRUE  OBVIOUS
  <2> QED BY <2>1, <2>2, Zenon
<1>5. Len(s) \in Nat /\ 1 <= Len(s) /\ q \in 0 .. N  BY <1>1, LenProperties DEF Agree
<1>6. r[inst.rs] = ValAt(a, 1) /\ r[inst.rt] = ValAt(a, 2)  BY <1>1, <1>2, <1>5, OperandAt
<1>7. UwasmStep(u, inst) = UwasmState(b, [r EXCEPT ![q] = v])
  <2>1. UwasmStep(u, inst)
          = UwasmState(b, [r EXCEPT ![inst.rd] = Result(inst.op, r[inst.rs], r[inst.rt])])
    <3>1. inst.op \in Arithmetic  OBVIOUS
    <3>2. IsUwasmState(u, b, r)  BY <1>3
    <3> QED BY ONLY <3>1, <3>2, UwasmBinary
  <2>2. Result(inst.op, r[inst.rs], r[inst.rt]) = v
    <3>1. {ValAt(a, 1), ValAt(a, 2)} = {ValAt(a, 2), ValAt(a, 1)}  OBVIOUS
    <3> QED BY <1>4, <1>6, <3>1, Zenon DEF Result
  <2> QED BY <2>1, <2>2
<1> HIDE DEF v
<1>8. Agree(Append(Cut(a, 2), Slot(v, -1)), c, [r EXCEPT ![q] = v], s2, lm, N)
  BY <1>1, <1>2, <1>5, AgreeResult
<1>9. IsUwasmState(UwasmStep(u, inst), b, [r EXCEPT ![q] = v])  BY <1>7, StateFields
<1> HIDE DEF s2
<1> QED BY <1>4, <1>8, <1>9, DenotedBy

\* i32.load: beyond 20 bits of offset the reference follows it no further.
LEMMA KeepsLoad ==
    ASSUME NEW i, NEW inst, NEW s, NEW lm, NEW G \in Nat, NEW q \in Nat, i.op = "I32Load",
           1 <= Len(s), Fresh(q, s, lm), q < G,
           inst.op = "I32Load", inst.rd = q, inst.rs = IdxAt(s, 1),
           ~(i.imm >= 2^20) => inst.ofs = i.imm
    PROVE  KeepsBy(i, inst, s, Append(Cut(s, 1), Temp(q)), lm, G)
<1> DEFINE s2 == Append(Cut(s, 1), Temp(q))
<1> SUFFICES ASSUME NEW w, NEW u, NEW N \in Nat, G <= N, Denoted(w, u, s, lm, N), w.sound = TRUE,
                    FaithfulStep(w, i).sound = TRUE
             PROVE  Denoted(FaithfulStep(w, i), UwasmStep(u, inst), s2, lm, N)
  BY DEF KeepsBy
<1>1. Agree(w.stack, w.locals, u.regs, s, lm, N) /\ u.mem = w.mem  BY DEF Denoted
<1>2. PICK a, b, c, r : a = w.stack /\ b = w.mem /\ c = w.locals /\ r = u.regs  OBVIOUS
<1>3. IsWasmState(w, a, b, c) /\ IsUwasmState(u, b, r)
  BY <1>1, <1>2 DEF IsWasmState, IsUwasmState
<1> DEFINE v == <<"load", b, ValAt(a, 1), i.imm>>
<1>4. FaithfulStep(w, i) = WasmState(Append(Cut(a, 1), Slot(v, -1)), b, c) /\ ~(i.imm >= 2^20)
  <2>1. FaithfulStep(w, i) = IF ~(i.imm >= 2^20)
                             THEN WasmState(Append(Cut(a, 1), Slot(v, -1)), b, c)
                             ELSE [sound |-> FALSE]
    BY <1>3, WasmLoad
  <2>2. [sound |-> FALSE].sound # TRUE  OBVIOUS
  <2> QED BY <2>1, <2>2, Zenon
<1>5. Len(s) \in Nat /\ 1 <= Len(s) /\ q \in 0 .. N  BY <1>1, LenProperties DEF Agree
<1>6. r[inst.rs] = ValAt(a, 1)  BY <1>1, <1>2, <1>5, OperandAt
<1>7. UwasmStep(u, inst) = UwasmState(b, [r EXCEPT ![q] = v])
  <2>1. UwasmStep(u, inst) = UwasmState(b, [r EXCEPT ![inst.rd] = <<"load", b, r[inst.rs], inst.ofs>>])
    BY <1>3, UwasmLoad, SMTT(30)
  <2> QED BY <1>4, <1>6, <2>1
<1> HIDE DEF v
<1>8. Agree(Append(Cut(a, 1), Slot(v, -1)), c, [r EXCEPT ![q] = v], s2, lm, N)
  BY <1>1, <1>2, <1>5, AgreeResult
<1>9. IsUwasmState(UwasmStep(u, inst), b, [r EXCEPT ![q] = v])  BY <1>7, StateFields
<1> HIDE DEF s2
<1> QED BY <1>4, <1>8, <1>9, DenotedBy

\* i32.store: with an offset the reference follows it no further.
LEMMA KeepsStore ==
    ASSUME NEW i, NEW inst, NEW s, NEW lm, NEW G, i.op = "I32Store", 2 <= Len(s),
           inst.op = "I32Store", inst.rd = IdxAt(s, 1), inst.rs = IdxAt(s, 2), inst.ofs = 0
    PROVE  KeepsBy(i, inst, s, Cut(s, 2), lm, G)
<1> SUFFICES ASSUME NEW w, NEW u, NEW N \in Nat, Denoted(w, u, s, lm, N), w.sound = TRUE,
                    FaithfulStep(w, i).sound = TRUE
             PROVE  Denoted(FaithfulStep(w, i), UwasmStep(u, inst), Cut(s, 2), lm, N)
  BY DEF KeepsBy
<1>1. Agree(w.stack, w.locals, u.regs, s, lm, N) /\ u.mem = w.mem  BY DEF Denoted
<1>2. PICK a, b, c, r : a = w.stack /\ b = w.mem /\ c = w.locals /\ r = u.regs  OBVIOUS
<1>3. IsWasmState(w, a, b, c) /\ IsUwasmState(u, b, r)
  BY <1>1, <1>2 DEF IsWasmState, IsUwasmState
<1> DEFINE b2 == <<"store", b, ValAt(a, 2), i.imm, ValAt(a, 1)>>
<1>4. FaithfulStep(w, i) = WasmState(Cut(a, 2), b2, c) /\ i.imm = 0
  <2>1. FaithfulStep(w, i) = IF i.imm = 0 THEN WasmState(Cut(a, 2), b2, c) ELSE [sound |-> FALSE]
    BY <1>3, WasmStore
  <2>2. [sound |-> FALSE].sound # TRUE  OBVIOUS
  <2> QED BY <2>1, <2>2, Zenon
<1>5. Len(s) \in Nat /\ 1 <= Len(s)  BY <1>1, LenProperties DEF Agree
<1>6. r[inst.rd] = ValAt(a, 1) /\ r[inst.rs] = ValAt(a, 2)  BY <1>1, <1>2, <1>5, OperandAt
<1>7. UwasmStep(u, inst) = UwasmState(b2, r)
  <2>1. UwasmStep(u, inst) = UwasmState(<<"store", b, r[inst.rs], inst.ofs, r[inst.rd]>>, r)
    BY <1>3, UwasmStore
  <2> QED BY <1>4, <1>6, <2>1
<1> HIDE DEF b2
<1>8. Agree(Cut(a, 2), c, r, Cut(s, 2), lm, N)  BY <1>1, <1>2, AgreeCut
<1>9. IsUwasmState(UwasmStep(u, inst), b2, r)  BY <1>7, StateFields
<1> QED BY <1>4, <1>8, <1>9, DenotedBy

\* drop; the end of a construct, with a jump or without.
LEMMA KeepsDrop ==
    ASSUME NEW i, NEW s, NEW lm, i.op = "Drop", 1 <= Len(s)
    PROVE  KeepsAlone(i, s, Cut(s, 1), lm)
<1> SUFFICES ASSUME NEW w, NEW u, NEW N \in Nat, Denoted(w, u, s, lm, N), w.sound = TRUE
             PROVE  Denoted(FaithfulStep(w, i), u, Cut(s, 1), lm, N)
  BY DEF KeepsAlone
<1>1. Agree(w.stack, w.locals, u.regs, s, lm, N) /\ u.mem = w.mem  BY DEF Denoted
<1>2. PICK a, b, c, r : a = w.stack /\ b = w.mem /\ c = w.locals /\ r = u.regs  OBVIOUS
<1>3. IsWasmState(w, a, b, c) /\ IsUwasmState(u, b, r)
  BY <1>1, <1>2 DEF IsWasmState, IsUwasmState
<1>4. FaithfulStep(w, i) = WasmState(Cut(a, 1), b, c)  BY <1>3, WasmDrop
<1>5. Agree(Cut(a, 1), c, r, Cut(s, 1), lm, N)  BY <1>1, <1>2, AgreeCut
<1> QED BY <1>3, <1>4, <1>5, DenotedBy

\* The end of the body, with the jump that may be emitted for it.
LEMMA KeepsEnd ==
    ASSUME NEW i, NEW s, NEW lm, i.op = "End"
    PROVE  /\ KeepsAlone(i, s, s, lm)
           /\ \A inst, G : inst.op = "UJMP" => KeepsBy(i, inst, s, s, lm, G)
<1>1. ASSUME NEW w, NEW u, NEW N, Denoted(w, u, s, lm, N), w.sound = TRUE
      PROVE  FaithfulStep(w, i) = w /\ \A inst : inst.op = "UJMP" => UwasmStep(u, inst) = u
  <2>1. IsWasmState(w, w.stack, w.mem, w.locals) /\ IsUwasmState(u, w.mem, u.regs)
    BY <1>1, DenotedFields
  <2>2. FaithfulStep(w, i) = w  BY <2>1, WasmEnd
  <2>3. \A inst : inst.op = "UJMP" => UwasmStep(u, inst) = u  BY <2>1, UwasmJump
  <2> QED BY <2>2, <2>3
<1> QED BY <1>1 DEF KeepsAlone, KeepsBy
-----------------------------------------------------------------------------
(* The relation after k instructions of is and all of us, for every number of *)
(* registers that leaves room for the G in use.                              *)

Simulated(lm, is, k, us, s, G) ==
    LET w == After("wasm", WStart(lm), is, k)
    IN  /\ w.sound \in BOOLEAN
        /\ w.sound = TRUE =>
              \A N \in Nat : G <= N =>
                  Denoted(w, After("uwasm", UStart(N), us, Len(us)), s, lm, N)

\* Both sides at the start.
LEMMA SimulatedStart ==
    ASSUME NEW lm, NEW is, NEW G, \A N \in Nat : G <= N => \A l \in DOMAIN lm : lm[l] \in 0 .. N
    PROVE  Simulated(lm, is, 0, <<>>, <<>>, G)
<1>1. After("wasm", WStart(lm), is, 0) = WStart(lm)  BY AfterNone
<1>2. Len(<<>>) = 0  BY EmptySeq
<1>3. \A N : After("uwasm", UStart(N), <<>>, Len(<<>>)) = UStart(N)
  <2>1. \A N : After("uwasm", UStart(N), <<>>, 0) = UStart(N)  BY AfterNone
  <2> QED BY <1>2, <2>1
<1>4. /\ WStart(lm).sound = TRUE /\ WStart(lm).mem = <<"mem">>
      /\ \A N : UStart(N).mem = <<"mem">>
  BY Zenon DEF WStart, UStart, WasmState, UwasmState
<1>5. ASSUME NEW N \in Nat, G <= N
      PROVE  Denoted(WStart(lm), UStart(N), <<>>, lm, N)
  <2>1. Agree(WStart(lm).stack, WStart(lm).locals, UStart(N).regs, <<>>, lm, N)
    BY <1>5, AgreeStart
  <2> QED BY <1>4, <2>1 DEF Denoted
<1> QED BY <1>1, <1>3, <1>4, <1>5 DEF Simulated

\* The flag of wasm's side stays a flag.
Flagged(w)     == w.sound \in BOOLEAN
StepFlag(w, i) == /\ FaithfulStep(w, i).sound \in BOOLEAN
                  /\ FaithfulStep(w, i).sound = TRUE => w.sound = TRUE /\ i.op \in Defined

\* A step keeps the flag one, and never raises it again.
LEMMA SoundStays == ASSUME NEW w, NEW i, Flagged(w) PROVE StepFlag(w, i)
<1> SUFFICES ASSUME w.sound \in BOOLEAN
             PROVE  /\ FaithfulStep(w, i).sound \in BOOLEAN
                    /\ FaithfulStep(w, i).sound = TRUE => w.sound = TRUE /\ i.op \in Defined
  BY DEF Flagged, StepFlag
<1>1. FaithfulStep(w, i).sound = TRUE => w.sound = TRUE /\ i.op \in Defined  BY WasmUndefined
<1>2. CASE w.sound = FALSE
  <2>1. FaithfulStep(w, i) = w  BY <1>2, Zenon DEF FaithfulStep, WasmStep
  <2> QED BY <1>1, <1>2, <2>1
<1>3. CASE w.sound = TRUE
  <2>1. PICK a, b, c : a = w.stack /\ b = w.mem /\ c = w.locals  OBVIOUS
  <2>2. IsWasmState(w, a, b, c)  BY <1>3, <2>1 DEF IsWasmState
  <2>3. \A x, y, z : WasmState(x, y, z).sound = TRUE  BY Zenon DEF WasmState
  <2>4. [sound |-> FALSE].sound = FALSE  OBVIOUS
  <2>5. CASE i.op \notin Defined
    <3>1. FaithfulStep(w, i) = [sound |-> FALSE]  BY <1>3, <2>5, Zenon DEF FaithfulStep, WasmStep, Defined
    <3> QED BY <1>1, <2>4, <3>1
  <2>6. CASE i.op = "LocalGet"
    <3>1. FaithfulStep(w, i) = WasmState(Append(Cut(a, 0), Slot(c[i.imm+1], i.imm)), b, c)
      BY <2>2, <2>6, WasmGet
    <3> QED BY <1>1, <2>3, <3>1
  <2>7. CASE i.op \in {"LocalSet", "LocalTee"}
    <3>1. FaithfulStep(w, i) =
             IF NotRead(a, i.imm)
             THEN WasmState(IF i.op = "LocalSet" THEN Cut(a, 1) ELSE a, b,
                            [c EXCEPT ![i.imm+1] = ValAt(a, 1)])
             ELSE [sound |-> FALSE]
      BY <2>2, <2>7, WasmSetTee
    <3>2. CASE NotRead(a, i.imm)  BY <1>1, <2>3, <3>1, <3>2
    <3>3. CASE ~NotRead(a, i.imm)  BY <1>1, <2>4, <3>1, <3>3
    <3> QED BY <3>2, <3>3
  <2>8. CASE i.op = "I32Const"
    <3>1. FaithfulStep(w, i) = WasmState(Append(Cut(a, 0), Slot(<<"const", i.imm>>, -1)), b, c)
      BY <2>2, <2>8, WasmConst
    <3> QED BY <1>1, <2>3, <3>1
  <2>9. CASE i.op \in Arithmetic
    <3>1. FaithfulStep(w, i) =
             IF i.op \notin Ordered
             THEN WasmState(Append(Cut(a, 2), Slot(Result(i.op, ValAt(a, 2), ValAt(a, 1)), -1)), b, c)
             ELSE [sound |-> FALSE]
      BY <2>2, <2>9, WasmBinary
    <3>2. CASE i.op \in Ordered     BY <1>1, <2>4, <3>1, <3>2
    <3>3. CASE i.op \notin Ordered  BY <1>1, <2>3, <3>1, <3>3
    <3> QED BY <3>2, <3>3
  <2>10. CASE i.op = "I32Load"
    <3>1. FaithfulStep(w, i) =
             IF ~(i.imm >= 2^20)
             THEN WasmState(Append(Cut(a, 1), Slot(<<"load", b, ValAt(a, 1), i.imm>>, -1)), b, c)
             ELSE [sound |-> FALSE]
      BY <2>2, <2>10, WasmLoad
    <3> QED BY <1>1, <2>3, <2>4, <3>1
  <2>11. CASE i.op = "I32Store"
    <3>1. FaithfulStep(w, i) =
             IF i.imm = 0
             THEN WasmState(Cut(a, 2), <<"store", b, ValAt(a, 2), i.imm, ValAt(a, 1)>>, c)
             ELSE [sound |-> FALSE]
      BY <2>2, <2>11, WasmStore
    <3> QED BY <1>1, <2>3, <2>4, <3>1
  <2>12. CASE i.op = "Drop"
    <3>1. FaithfulStep(w, i) = WasmState(Cut(a, 1), b, c)  BY <2>2, <2>12, WasmDrop
    <3> QED BY <1>1, <2>3, <3>1
  <2>13. CASE i.op = "End"
    <3>1. FaithfulStep(w, i) = w  BY <2>2, <2>13, WasmEnd
    <3> QED BY <1>1, <1>3, <3>1
  <2> QED BY <2>5, <2>6, <2>7, <2>8, <2>9, <2>10, <2>11, <2>12, <2>13, Zenon DEF Defined
<1> QED BY <1>2, <1>3

\* The state of wasm's side after one instruction more.
LEMMA OneMoreSound ==
    ASSUME NEW lm, NEW is, NEW k \in Nat, NEW us, NEW s, NEW G, Simulated(lm, is, k, us, s, G),
           NEW w, w = After("wasm", WStart(lm), is, k)
    PROVE  /\ w.sound \in BOOLEAN
           /\ After("wasm", WStart(lm), is, k + 1) = FaithfulStep(w, is[k+1])
           /\ FaithfulStep(w, is[k+1]).sound \in BOOLEAN
           /\ FaithfulStep(w, is[k+1]).sound = TRUE => w.sound = TRUE /\ is[k+1].op \in Defined
<1>1. w.sound \in BOOLEAN  BY DEF Simulated
<1>2. SameUpTo(is, is, k)  BY DEF SameUpTo
<1>3. After("wasm", WStart(lm), is, k + 1) = MachineStep("wasm", w, is[k+1])
  BY <1>2, AfterOneMore
<1>4. MachineStep("wasm", w, is[k+1]) = FaithfulStep(w, is[k+1])  BY DEF MachineStep
<1>5. StepFlag(w, is[k+1])
  <2>1. Flagged(w)  BY <1>1 DEF Flagged
  <2> QED BY <2>1, SoundStays
<1> QED BY <1>1, <1>3, <1>4, <1>5 DEF StepFlag

\* An instruction the reference does not follow: nothing more is claimed.
LEMMA SimulatedNoMore ==
    ASSUME NEW lm, NEW is, NEW k \in Nat, NEW us, NEW s, NEW G, Simulated(lm, is, k, us, s, G),
           is[k+1].op \notin Defined, NEW us2, NEW s2, NEW G2
    PROVE  Simulated(lm, is, k + 1, us2, s2, G2)
<1>1. PICK w : w = After("wasm", WStart(lm), is, k)  OBVIOUS
<1>2. /\ After("wasm", WStart(lm), is, k + 1) = FaithfulStep(w, is[k+1])
      /\ FaithfulStep(w, is[k+1]).sound \in BOOLEAN
      /\ FaithfulStep(w, is[k+1]).sound # TRUE
  BY <1>1, OneMoreSound
<1> QED BY <1>2 DEF Simulated

\* An instruction that emits nothing.
LEMMA SimulatedAlone ==
    ASSUME NEW lm, NEW is, NEW k \in Nat, NEW us, NEW s, NEW G, Simulated(lm, is, k, us, s, G),
           NEW s2, KeepsAlone(is[k+1], s, s2, lm)
    PROVE  Simulated(lm, is, k + 1, us, s2, G)
<1>1. PICK w : w = After("wasm", WStart(lm), is, k)  OBVIOUS
<1>2. /\ After("wasm", WStart(lm), is, k + 1) = FaithfulStep(w, is[k+1])
      /\ FaithfulStep(w, is[k+1]).sound \in BOOLEAN
      /\ FaithfulStep(w, is[k+1]).sound = TRUE => w.sound = TRUE
  BY <1>1, OneMoreSound
<1>3. ASSUME FaithfulStep(w, is[k+1]).sound = TRUE, NEW N \in Nat, G <= N
      PROVE  Denoted(FaithfulStep(w, is[k+1]), After("uwasm", UStart(N), us, Len(us)), s2, lm, N)
  <2>1. Denoted(w, After("uwasm", UStart(N), us, Len(us)), s, lm, N)
    BY <1>1, <1>2, <1>3 DEF Simulated
  <2> QED BY <1>2, <1>3, <2>1 DEF KeepsAlone
<1> QED BY <1>2, <1>3 DEF Simulated

\* An instruction that emits one.
LEMMA SimulatedBy ==
    ASSUME NEW lm, NEW is, NEW k \in Nat, NEW S, NEW us \in Seq(S), NEW s, NEW G \in Nat,
           Simulated(lm, is, k, us, s, G),
           NEW inst \in S, NEW s2, NEW G2 \in Nat, G <= G2, KeepsBy(is[k+1], inst, s, s2, lm, G2)
    PROVE  Simulated(lm, is, k + 1, Append(us, inst), s2, G2)
<1>1. PICK w : w = After("wasm", WStart(lm), is, k)  OBVIOUS
<1>2. /\ After("wasm", WStart(lm), is, k + 1) = FaithfulStep(w, is[k+1])
      /\ FaithfulStep(w, is[k+1]).sound \in BOOLEAN
      /\ FaithfulStep(w, is[k+1]).sound = TRUE => w.sound = TRUE
  BY <1>1, OneMoreSound
<1>3. PICK n \in Nat : n = Len(us)  BY LenProperties
<1>4. /\ Len(Append(us, inst)) = n + 1 /\ Append(us, inst)[n+1] = inst
      /\ SameUpTo(us, Append(us, inst), n)
  BY <1>3, AppendProperties DEF SameUpTo
<1>5. ASSUME NEW N
      PROVE  After("uwasm", UStart(N), Append(us, inst), n + 1)
                 = UwasmStep(After("uwasm", UStart(N), us, n), inst)
  <2>1. After("uwasm", UStart(N), Append(us, inst), n + 1)
            = MachineStep("uwasm", After("uwasm", UStart(N), us, n), Append(us, inst)[n+1])
    BY <1>4, AfterOneMore, ZenonT(60)
  <2>2. \A st : MachineStep("uwasm", st, inst) = UwasmStep(st, inst)  BY DEF MachineStep
  <2> QED BY <1>4, <2>1, <2>2
<1>6. ASSUME FaithfulStep(w, is[k+1]).sound = TRUE, NEW N \in Nat, G2 <= N
      PROVE  Denoted(FaithfulStep(w, is[k+1]),
                     After("uwasm", UStart(N), Append(us, inst), n + 1), s2, lm, N)
  <2>1. G <= N  BY <1>6
  <2>2. Denoted(w, After("uwasm", UStart(N), us, n), s, lm, N)
    BY <1>1, <1>2, <1>3, <1>6, <2>1 DEF Simulated
  <2> QED BY <1>2, <1>5, <1>6, <2>2 DEF KeepsBy
<1> QED BY <1>2, <1>4, <1>6 DEF Simulated
-----------------------------------------------------------------------------
(* The simulation as an invariant of the translation.                        *)

\* One register file: the registers of two files may have one number.
OnlyI32 == \A l \in DOMAIN file : file[l] = "I32"

\* No register is cut by the ten bits of its field.
RegistersFit == Get_local_num <= 2^REG_SIZE

SimInv ==
    /\ \E S : uinsts \in Seq(S)
    /\ build # "returned" => pc = 1 /\ wasm_stack = <<>> /\ uinsts = <<>>
    /\ (build = "returned" /\ OnlyI32 /\ RegistersFit) =>
          \A k \in Nat : k = pc - 1 =>
              Simulated(local_map, ins, k, uinsts, wasm_stack, Get_local_num)

\* The registers in use: below the area for arguments, locals' and temporaries
\* apart, the next temporary unused.
LEMMA RegistersInUse ==
    ASSUME TransInv, OnlyI32
    PROVE  /\ Get_local_num \in Nat
           /\ \A l \in DOMAIN local_map : local_map[l] \in Nat /\ local_map[l] < Get_local_num
           /\ \A k \in 1 .. Len(wasm_stack) :
                 wasm_stack[k].idx \in Nat /\ wasm_stack[k].idx < Get_local_num
           /\ Apart(wasm_stack, local_map)
           /\ NextTemp("I32") \in Nat /\ NextTemp("I32") <= Get_local_num
           /\ Fresh(NextTemp("I32"), wasm_stack, local_map)
<1>1. UbhTypeOK /\ RegisterBounds /\ RegistersApart /\ ParamAreaFree
  BY ParamAreaAbove DEF TransInv, UbhInv
<1>2. /\ DOMAIN local_map = DOMAIN file
      /\ \A l \in DOMAIN file : local_map[l] \in Nat
      /\ \A j \in DOMAIN temps : temps[j].reg \in Nat
  BY <1>1, TableFacts
<1> DEFINE i32 == Len(local_table["I32"])
<1>3. /\ i32 \in Nat /\ Len(local_table["I64"]) \in Nat
      /\ Len(local_table["F32"]) \in Nat /\ Len(local_table["F64"]) \in Nat
  BY <1>1, TableFacts DEF NumTypes
<1>4. Get_local_num \in Nat /\ NextTemp("I32") = i32 + 4 /\ NextTemp("I32") \in Nat
      /\ NextTemp("I32") <= Get_local_num
  <2>1. PICK a, b, c, d \in Nat : /\ a = Len(local_table["I32"]) /\ b = Len(local_table["I64"])
                                  /\ c = Len(local_table["F32"]) /\ d = Len(local_table["F64"])
    BY <1>3
  <2>2. Get_local_num = 2 + 2 + a + b + c + d /\ NextTemp("I32") = a + 2 + 2 /\ i32 = a
    BY <2>1 DEF Get_local_num, NextTemp, CONST_REG_NUM, RET_REG_NUM
  <2> QED BY <2>2
<1>5. \A l \in DOMAIN local_map : /\ local_map[l] \in Nat /\ local_map[l] < Get_local_num
                                  /\ local_map[l] < NextTemp("I32")
  <2> SUFFICES ASSUME NEW l \in DOMAIN local_map
               PROVE  local_map[l] \in Nat /\ local_map[l] < Get_local_num /\ local_map[l] < NextTemp("I32")
    OBVIOUS
  <2>1. local_map[l] \in Nat /\ local_map[l] < Get_local_num  BY <1>1, <1>2 DEF ParamAreaFree
  <2>2. local_map[l] \in 3 .. i32 + 2
    BY <1>1, <1>2 DEF RegisterBounds, OnlyI32, RET_REG_NUM
  <2> QED BY <1>3, <1>4, <2>1, <2>2
<1>6. DOMAIN wasm_stack = 1 .. Len(wasm_stack)  BY LenProperties DEF TransInv
<1>7. ASSUME NEW k \in 1 .. Len(wasm_stack), wasm_stack[k].kind = "LOCAL"
      PROVE  \E l \in DOMAIN local_map : wasm_stack[k].idx = local_map[l]
  BY <1>6, <1>7 DEF TransInv, StackOwned
<1>8. ASSUME NEW k \in 1 .. Len(wasm_stack), wasm_stack[k].kind # "LOCAL"
      PROVE  /\ wasm_stack[k].idx \in Nat /\ wasm_stack[k].idx < Get_local_num
             /\ wasm_stack[k].idx < NextTemp("I32")
             /\ \A l \in DOMAIN local_map : local_map[l] # wasm_stack[k].idx
  <2>1. PICK t \in DOMAIN temps : temps[t] = [type |-> "I32", reg |-> wasm_stack[k].idx]
    BY <1>6, <1>8 DEF TransInv, StackOwned
  <2>2. temps[t].type = "I32" /\ temps[t].reg = wasm_stack[k].idx  BY <2>1
  <2>3. temps[t].reg < i32 + 2 + 2
    BY <1>1, <2>2 DEF RegisterBounds, CONST_REG_NUM, RET_REG_NUM
  <2>4. temps[t].reg \in Nat /\ temps[t].reg < Get_local_num  BY <1>1, <1>2 DEF ParamAreaFree
  <2>5. \A l \in DOMAIN local_map : local_map[l] # temps[t].reg
    BY <1>1, <1>2, <2>2 DEF RegistersApart, OnlyI32
  <2> QED BY <1>3, <1>4, <2>2, <2>3, <2>4, <2>5
<1>9. \A k \in 1 .. Len(wasm_stack) : /\ wasm_stack[k].idx \in Nat
                                      /\ wasm_stack[k].idx < Get_local_num
                                      /\ wasm_stack[k].idx < NextTemp("I32")
  BY <1>5, <1>7, <1>8
<1>10. Apart(wasm_stack, local_map)
  <2>1. \A i, j \in DOMAIN local_map : i # j => local_map[i] # local_map[j]
    BY <1>1, <1>2 DEF RegistersApart, OnlyI32
  <2> QED BY <1>8, <2>1 DEF Apart
<1> HIDE DEF i32
<1>11. Fresh(NextTemp("I32"), wasm_stack, local_map)
  <2>1. PICK q \in Nat : q = NextTemp("I32")  BY <1>4
  <2>2. \A x \in Nat : x < q => x # q  BY <2>1
  <2> QED BY <1>5, <1>9, <2>1, <2>2 DEF Fresh
<1> QED BY <1>4, <1>5, <1>9, <1>10, <1>11

\* A register below the area for arguments fits when that area begins low enough.
LEMMA FitsBelow ==
    ASSUME RegistersFit, NEW r \in Nat, Get_local_num \in Nat, r < Get_local_num
    PROVE  r \in Fits
<1>1. 2^REG_SIZE = 1024  BY DEF REG_SIZE
<1> QED BY <1>1 DEF RegistersFit, Fits

\* The facts the steps of the translation start from.
LEMMA SimFacts ==
    ASSUME TransInv, SimInv, build = "returned", OnlyI32, RegistersFit,
           NEW k \in Nat, k = pc - 1
    PROVE  /\ Simulated(local_map, ins, k, uinsts, wasm_stack, Get_local_num)
           /\ k + 1 = pc /\ ins[k+1] = Cur
           /\ \A l \in DOMAIN local_map : local_map[l] \in Fits
           /\ \A n \in Nat : n # 0 /\ n <= Len(wasm_stack) =>
                 IdxAt(wasm_stack, n) \in Fits /\ IdxAt(wasm_stack, n) = Top(n)
<1>1. /\ Get_local_num \in Nat
      /\ \A l \in DOMAIN local_map : local_map[l] \in Nat /\ local_map[l] < Get_local_num
      /\ \A j \in 1 .. Len(wasm_stack) : /\ wasm_stack[j].idx \in Nat
                                         /\ wasm_stack[j].idx < Get_local_num
  BY RegistersInUse
<1>2. k + 1 = pc  BY DEF TransInv
<1>3. \A l \in DOMAIN local_map : local_map[l] \in Fits  BY <1>1, FitsBelow
<1>4. ASSUME NEW n \in Nat, n # 0, n <= Len(wasm_stack)
      PROVE  IdxAt(wasm_stack, n) \in Fits
  <2>1. Len(wasm_stack) \in Nat  BY LenProperties DEF TransInv
  <2>2. PICK j \in 1 .. Len(wasm_stack) : j = Len(wasm_stack) + 1 - n
    <3>1. PICK l \in Nat : l = Len(wasm_stack)  BY <2>1
    <3>2. l + 1 - n \in 1 .. l  BY <1>4, <3>1
    <3> QED BY <3>1, <3>2
  <2>3. wasm_stack[j].idx \in Fits  BY <1>1, FitsBelow
  <2> QED BY <2>2, <2>3 DEF IdxAt
<1> QED BY <1>2, <1>3, <1>4 DEF SimInv, Cur, IdxAt, Top

\* The registers in use are counted, and a temporary is one more.
LEMMA LocalNumNat ==
    ASSUME UbhTypeOK
    PROVE  /\ Get_local_num \in Nat
           /\ Push_temp_reg("I32") => Get_local_num' = Get_local_num + 1
           /\ UNCHANGED local_table => Get_local_num' = Get_local_num
<1>1. /\ Len(local_table["I32"]) \in Nat /\ Len(local_table["I64"]) \in Nat
      /\ Len(local_table["F32"]) \in Nat /\ Len(local_table["F64"]) \in Nat
      /\ \A t \in NumTypes : local_table[t] \in Seq(REG_TY)
  BY TableFacts DEF NumTypes
<1>2. PICK a, b, c, d \in Nat : /\ a = Len(local_table["I32"]) /\ b = Len(local_table["I64"])
                                /\ c = Len(local_table["F32"]) /\ d = Len(local_table["F64"])
  BY <1>1
<1>3. Get_local_num = 2 + 2 + a + b + c + d
  BY <1>2 DEF Get_local_num, CONST_REG_NUM, RET_REG_NUM
<1>4. ASSUME Push_temp_reg("I32") PROVE Get_local_num' = Get_local_num + 1
  <2>1. local_table' = [local_table EXCEPT !["I32"] = Append(@, "TEMP")]
    BY <1>4 DEF Push_temp_reg
  <2>2. DOMAIN local_table = NumTypes  BY DEF UbhTypeOK
  <2>3. /\ local_table'["I32"] = Append(local_table["I32"], "TEMP")
        /\ local_table'["I64"] = local_table["I64"]
        /\ local_table'["F32"] = local_table["F32"] /\ local_table'["F64"] = local_table["F64"]
    BY <2>1, <2>2 DEF NumTypes
  <2>4. Len(local_table'["I32"]) = a + 1
    <3>1. local_table["I32"] \in Seq(REG_TY) /\ "TEMP" \in REG_TY  BY <1>1 DEF NumTypes, REG_TY
    <3> QED BY <1>2, <2>3, <3>1, AppendProperties
  <2>5. Get_local_num' = 2 + 2 + (a + 1) + b + c + d
    BY <1>2, <2>3, <2>4 DEF Get_local_num, CONST_REG_NUM, RET_REG_NUM
  <2> QED BY <1>3, <2>5
<1>5. Get_local_num \in Nat  BY <1>3
<1> QED BY <1>4, <1>5 DEF Get_local_num

\* A sequence stays one when its set grows.
LEMMA SeqWider == ASSUME NEW S, NEW T, NEW s \in Seq(S) PROVE s \in Seq(S \cup T)
<1>1. Len(s) \in Nat /\ s \in [1 .. Len(s) -> S]  BY LenProperties
<1>2. s \in [1 .. Len(s) -> S \cup T]  BY <1>1
<1> QED BY <1>1, <1>2, SeqDef

\* What every step of the translation leaves alone.
Going == /\ build = "returned" /\ UNCHANGED hierVars /\ pc' = pc + 1
         /\ UNCHANGED <<local_map, file>>

\* A step on an instruction the reference does not follow.
LEMMA SimNoMore ==
    ASSUME TransInv, SimInv, Going, UNCHANGED local_table,
           Cur.op \notin Defined, NEW T, uinsts' \in Seq(T)
    PROVE  SimInv'
<1>1. build' = "returned" /\ ins' = ins  BY DEF Going, hierVars
<1>2. Get_local_num' = Get_local_num  BY LocalNumNat DEF TransInv, UbhInv
<1>3. ASSUME OnlyI32', RegistersFit', NEW k \in Nat, k = pc' - 1
      PROVE  Simulated(local_map', ins', k, uinsts', wasm_stack', Get_local_num')
  <2>1. OnlyI32 /\ RegistersFit  BY <1>2, <1>3 DEF Going, OnlyI32, RegistersFit
  <2>2. PICK j \in Nat : j = pc - 1 /\ k = j + 1  BY <1>3 DEF TransInv, Going
  <2>3. Simulated(local_map, ins, j, uinsts, wasm_stack, Get_local_num) /\ ins[j+1] = Cur
    BY <2>1, <2>2, SimFacts DEF Going
  <2>4. Simulated(local_map, ins, j + 1, uinsts', wasm_stack', Get_local_num')
    BY <2>3, SimulatedNoMore
  <2> QED BY <1>1, <2>2, <2>4 DEF Going
<1> QED BY <1>1, <1>3 DEF SimInv

\* A step that emits nothing.
LEMMA SimAlone ==
    ASSUME TransInv, SimInv, Going, UNCHANGED <<uinsts, local_table>>,
           OnlyI32 => KeepsAlone(Cur, wasm_stack, wasm_stack', local_map)
    PROVE  SimInv'
<1>1. build' = "returned" /\ ins' = ins  BY DEF Going, hierVars
<1>2. Get_local_num' = Get_local_num  BY LocalNumNat DEF TransInv, UbhInv
<1>3. ASSUME OnlyI32', RegistersFit', NEW k \in Nat, k = pc' - 1
      PROVE  Simulated(local_map', ins', k, uinsts', wasm_stack', Get_local_num')
  <2>1. OnlyI32 /\ RegistersFit  BY <1>2, <1>3 DEF Going, OnlyI32, RegistersFit
  <2>2. PICK j \in Nat : j = pc - 1 /\ k = j + 1  BY <1>3 DEF TransInv, Going
  <2>3. Simulated(local_map, ins, j, uinsts, wasm_stack, Get_local_num) /\ ins[j+1] = Cur
    BY <2>1, <2>2, SimFacts DEF Going
  <2>4. KeepsAlone(ins[j+1], wasm_stack, wasm_stack', local_map)  BY <2>1, <2>3
  <2>5. Simulated(local_map, ins, j + 1, uinsts, wasm_stack', Get_local_num)
    BY <2>3, <2>4, SimulatedAlone
  <2> QED BY <1>1, <1>2, <2>2, <2>5 DEF Going
<1> QED BY <1>1, <1>3 DEF SimInv

\* A step that emits an instruction, and may hand out a temporary.
LEMMA SimEmit ==
    ASSUME TransInv, SimInv, Going, UNCHANGED local_table \/ Push_temp_reg("I32"),
           NEW inst, uinsts' = Append(uinsts, inst),
           (OnlyI32 /\ RegistersFit /\ RegistersFit') =>
               KeepsBy(Cur, inst, wasm_stack, wasm_stack', local_map, Get_local_num')
    PROVE  SimInv'
<1>1. build' = "returned" /\ ins' = ins  BY DEF Going, hierVars
<1>2. PICK g, h \in Nat : g = Get_local_num /\ h = Get_local_num' /\ g <= h
  BY LocalNumNat DEF TransInv, UbhInv
<1>3. PICK S : uinsts \in Seq(S)  BY DEF SimInv
<1>4. uinsts \in Seq(S \cup {inst})  BY <1>3, SeqWider
<1>5. uinsts' \in Seq(S \cup {inst})  BY <1>4, AppendProperties
<1>6. ASSUME OnlyI32', RegistersFit', NEW k \in Nat, k = pc' - 1
      PROVE  Simulated(local_map', ins', k, uinsts', wasm_stack', Get_local_num')
  <2>1. OnlyI32  BY <1>6 DEF Going, OnlyI32
  <2>2. RegistersFit
    <3>1. 2^REG_SIZE = 1024  BY DEF REG_SIZE
    <3> QED BY <1>2, <1>6, <3>1 DEF RegistersFit
  <2>3. PICK j \in Nat : j = pc - 1 /\ k = j + 1  BY <1>6 DEF TransInv, Going
  <2>4. Simulated(local_map, ins, j, uinsts, wasm_stack, g) /\ ins[j+1] = Cur
    BY <1>2, <2>1, <2>2, <2>3, SimFacts DEF Going
  <2>5. KeepsBy(ins[j+1], inst, wasm_stack, wasm_stack', local_map, h)
    BY <1>2, <1>6, <2>1, <2>2, <2>4
  <2>6. inst \in S \cup {inst}  OBVIOUS
  <2>7. Simulated(local_map, ins, j + 1, Append(uinsts, inst), wasm_stack', h)
    BY <1>2, <1>4, <2>4, <2>5, <2>6, SimulatedBy
  <2> QED BY <1>1, <1>2, <2>3, <2>7 DEF Going
<1> QED BY <1>1, <1>5, <1>6 DEF SimInv

\* The instruction being translated.
LEMMA CurFacts ==
    ASSUME TransInv, NEW ops, Translates(ops)
    PROVE  /\ build = "returned" /\ Cur.op \in ops /\ Cur.imm \in Nat
           /\ Cur.imm < Len(local_map) => Cur.imm + 1 \in DOMAIN local_map
           /\ Len(wasm_stack) \in Nat /\ (wasm_stack # <<>> => Len(wasm_stack) # 0)
<1>1. ins \in Seq(Inst)  BY DEF TransInv, HierInv, HierTypeOK
<1>2. pc \in 1 .. Len(ins)
  BY <1>1, LenProperties DEF TransInv, Translates
<1>3. ins[pc] \in Inst  BY <1>1, <1>2, LenProperties
<1>4. Cur.imm \in Nat  BY <1>3 DEF Inst, Cur
<1>5. Len(local_map) \in Nat /\ DOMAIN local_map = 1 .. Len(local_map)
  BY LenProperties DEF TransInv, UbhInv, UbhTypeOK
<1>6. Len(wasm_stack) \in Nat /\ (wasm_stack # <<>> => Len(wasm_stack) # 0)
  BY LenProperties, EmptySeq DEF TransInv
<1> QED BY <1>4, <1>5, <1>6 DEF Translates

\* The actions of the pass: what is not in the reference, first.
LEMMA SimJumps ==
    ASSUME TransInv, SimInv, Jump \/ CondJump \/ NoJump
    PROVE  SimInv'
<1>1. Going /\ UNCHANGED local_table
  BY DEF Jump, CondJump, NoJump, Translates, Continue, Going, ubhVars
<1>2. /\ Jump => Translates(Jumps)
      /\ CondJump => Translates(CondJumps)
      /\ NoJump => Translates(Jumps \cup CondJumps)
  BY DEF Jump, CondJump, NoJump
<1>3. Cur.op \in Jumps \cup CondJumps  BY <1>2, CurFacts
<1>4. CASE Cur.op # "End"
  <2>1. Cur.op \notin Defined  BY <1>3, <1>4 DEF Jumps, CondJumps, Defined, Arithmetic
  <2>2. PICK S : uinsts \in Seq(S)  BY DEF SimInv
  <2>3. uinsts' = uinsts \/ \E i : uinsts' = Append(uinsts, i)
    BY Zenon DEF Jump, CondJump, NoJump, Emit
  <2>4. CASE uinsts' = uinsts  BY <1>1, <2>1, <2>2, <2>4, SimNoMore
  <2>5. CASE \E i : uinsts' = Append(uinsts, i)
    <3>1. PICK i : uinsts' = Append(uinsts, i)  BY <2>5
    <3>2. uinsts \in Seq(S \cup {i})  BY <2>2, SeqWider
    <3>3. uinsts' \in Seq(S \cup {i})  BY <3>1, <3>2, AppendProperties
    <3> QED BY <1>1, <2>1, <3>3, SimNoMore
  <2> QED BY <2>3, <2>4, <2>5
<1>5. CASE Cur.op = "End"
  <2>1. wasm_stack' = wasm_stack /\ ~CondJump
    BY <1>5 DEF Jump, CondJump, NoJump, CondJumps, Translates
  <2>2. CASE NoJump
    <3>1. UNCHANGED uinsts  BY <2>2 DEF NoJump
    <3>2. KeepsAlone(Cur, wasm_stack, wasm_stack', local_map)  BY <1>5, <2>1, KeepsEnd
    <3> QED BY <1>1, <3>1, <3>2, SimAlone
  <2>3. CASE Jump
    <3>1. PICK i : i.op = "UJMP" /\ uinsts' = Append(uinsts, i)
      <4>1. PICK i : i = UInst("UJMP", Len(label_tab) + 1, -1, -1, -1) /\ uinsts' = Append(uinsts, i)
        BY <2>3 DEF Jump, Emit
      <4> QED BY <4>1, UInstOp
    <3>2. KeepsBy(Cur, i, wasm_stack, wasm_stack', local_map, Get_local_num')
      BY <1>5, <2>1, <3>1, KeepsEnd
    <3> QED BY <1>1, <3>1, <3>2, SimEmit
  <2> QED BY <2>1, <2>2, <2>3
<1> QED BY <1>4, <1>5

\* A drop pops the tracked stack too; the reference does not follow select and
\* call.
LEMMA SimSkip == ASSUME TransInv, SimInv, Skip PROVE SimInv'
<1>1. /\ Going /\ UNCHANGED local_table /\ UNCHANGED uinsts
      /\ Translates({"Drop", "Select", "Call"})
  BY DEF Skip, Translates, Continue, Going, ubhVars
<1>2. Cur.op \in {"Drop", "Select", "Call"} /\ Len(wasm_stack) \in Nat
      /\ (wasm_stack # <<>> => Len(wasm_stack) # 0)
  BY <1>1, CurFacts
<1>3. CASE Cur.op = "Drop"
  <2>1. wasm_stack # <<>> /\ wasm_stack' = Cut(wasm_stack, 1)
    BY <1>3 DEF Skip, Keep, Cut
  <2>2. 1 <= Len(wasm_stack)  BY <1>2, <2>1
  <2>3. KeepsAlone(Cur, wasm_stack, wasm_stack', local_map)  BY <1>3, <2>1, <2>2, KeepsDrop
  <2> QED BY <1>1, <2>3, SimAlone
<1>4. CASE Cur.op # "Drop"
  <2>1. Cur.op \notin Defined  BY <1>2, <1>4 DEF Defined, Arithmetic
  <2>2. PICK S : uinsts \in Seq(S)  BY DEF SimInv
  <2> QED BY <1>1, <2>1, <2>2, SimNoMore
<1> QED BY <1>3, <1>4

\* The default case is entered only where the reference has ended.
LEMMA SimDefault == ASSUME TransInv, SimInv, Default PROVE SimInv'
<1>1. /\ Going /\ UNCHANGED local_table
      /\ Translates(DOMAIN UOPCODE_from_wasm \ Handled)
  BY DEF Default, Translates, Continue, Going, ubhVars
<1>2. Cur.op \notin Handled  BY <1>1, CurFacts
<1>3. Cur.op \notin Defined  BY <1>2 DEF Defined, Handled, Jumps
<1>4. PICK i : uinsts' = Append(uinsts, i)  BY Zenon DEF Default, Emit
<1>5. PICK S : uinsts \in Seq(S)  BY DEF SimInv
<1>6. uinsts \in Seq(S \cup {i})  BY <1>5, SeqWider
<1>7. uinsts' \in Seq(S \cup {i})  BY <1>4, <1>6, AppendProperties
<1> QED BY <1>1, <1>3, <1>7, SimNoMore

\* A return, which emits twice, is not in the reference.
LEMMA SimReturn == ASSUME TransInv, SimInv, Return PROVE SimInv'
<1>1. Going /\ UNCHANGED local_table /\ Translates({"Return"})
  BY DEF Return, Translates, Continue, Going, ubhVars
<1>2. Cur.op = "Return"  BY <1>1, CurFacts
<1>3. Cur.op \notin Defined  BY <1>2 DEF Defined, Arithmetic
<1>4. PICK i, j : uinsts' = uinsts \o <<i, j>>  BY Zenon DEF Return
<1>5. PICK S : uinsts \in Seq(S)  BY DEF SimInv
<1>6. uinsts \in Seq(S \cup {i, j})  BY <1>5, SeqWider
<1>7. <<i, j>> \in Seq(S \cup {i, j})  OBVIOUS
<1>8. uinsts' \in Seq(S \cup {i, j})  BY <1>4, <1>6, <1>7, ConcatProperties
<1> QED BY <1>1, <1>3, <1>8, SimNoMore

\* The registers of the operands and of the locals fit their fields.
LEMMA OperandsFit ==
    ASSUME TransInv, OnlyI32, RegistersFit
    PROVE  /\ Apart(wasm_stack, local_map)
           /\ \A l \in DOMAIN local_map : local_map[l] \in Fits
           /\ \A n \in Nat : n # 0 /\ n <= Len(wasm_stack) =>
                 Top(n) \in Fits /\ IdxAt(wasm_stack, n) = Top(n)
<1>1. /\ Get_local_num \in Nat
      /\ \A l \in DOMAIN local_map : local_map[l] \in Nat /\ local_map[l] < Get_local_num
      /\ \A j \in 1 .. Len(wasm_stack) : /\ wasm_stack[j].idx \in Nat
                                         /\ wasm_stack[j].idx < Get_local_num
      /\ Apart(wasm_stack, local_map)
  BY RegistersInUse
<1>2. \A l \in DOMAIN local_map : local_map[l] \in Fits  BY <1>1, FitsBelow
<1>3. ASSUME NEW n \in Nat, n # 0, n <= Len(wasm_stack)
      PROVE  Top(n) \in Fits
  <2>1. PICK l \in Nat : l = Len(wasm_stack)  BY LenProperties DEF TransInv
  <2>2. l + 1 - n \in 1 .. l  BY <1>3, <2>1
  <2>3. wasm_stack[l + 1 - n].idx \in Fits  BY <1>1, <2>1, <2>2, FitsBelow
  <2> QED BY <2>1, <2>3 DEF Top
<1> QED BY <1>1, <1>2, <1>3 DEF IdxAt, Top

\* local.get pushes the register of the local.
LEMMA SimGet == ASSUME TransInv, SimInv, LocalGet PROVE SimInv'
<1>1. /\ Going /\ UNCHANGED local_table /\ UNCHANGED uinsts
      /\ Translates({"LocalGet"}) /\ Cur.imm < Len(local_map)
      /\ wasm_stack' = Append(wasm_stack, [kind |-> "LOCAL", idx |-> local_map[Cur.imm + 1]])
  BY DEF LocalGet, Translates, Continue, Going, ubhVars
<1>2. Cur.op = "LocalGet" /\ Cur.imm \in Nat /\ Cur.imm + 1 \in DOMAIN local_map
  BY <1>1, CurFacts
<1>3. KeepsAlone(Cur, wasm_stack, wasm_stack', local_map)
  BY <1>1, <1>2, KeepsGet
<1> QED BY <1>1, <1>3, SimAlone

\* local.set and local.tee move the top into the register of the local.
LEMMA SimSetTee == ASSUME TransInv, SimInv, LocalSetTee PROVE SimInv'
<1> DEFINE inst == UInst("UMOV", local_map[Cur.imm + 1], Top(1), -1, -1)
<1>1. /\ Going /\ UNCHANGED local_table
      /\ Translates({"LocalSet", "LocalTee"}) /\ Cur.imm < Len(local_map)
      /\ wasm_stack # <<>>
      /\ uinsts' = Append(uinsts, inst)
      /\ wasm_stack' = IF Cur.op = "LocalSet" THEN Cut(wasm_stack, 1) ELSE wasm_stack
  BY DEF LocalSetTee, Translates, Continue, Going, ubhVars, Emit, Keep, Cut
<1>2. /\ Cur.op \in {"LocalSet", "LocalTee"} /\ Cur.imm \in Nat
      /\ Cur.imm + 1 \in DOMAIN local_map
      /\ Len(wasm_stack) \in Nat /\ Len(wasm_stack) # 0
  BY <1>1, CurFacts
<1>3. ASSUME OnlyI32, RegistersFit
      PROVE  KeepsBy(Cur, inst, wasm_stack, wasm_stack', local_map, Get_local_num')
  <2>1. /\ Apart(wasm_stack, local_map) /\ local_map[Cur.imm+1] \in Fits
        /\ Top(1) \in Fits /\ IdxAt(wasm_stack, 1) = Top(1)
    <3>1. 1 <= Len(wasm_stack)  BY <1>2
    <3> QED BY <1>2, <1>3, <3>1, OperandsFit
  <2>2. inst.op = "UMOV" /\ inst.rd = local_map[Cur.imm+1] /\ inst.rs = Top(1)
    BY <2>1, UInstMov
  <2>3. inst.rs = IdxAt(wasm_stack, 1)  BY <2>1, <2>2
  <2> HIDE DEF inst
  <2>4. MovesTop(Cur, inst, wasm_stack, wasm_stack', local_map)
    BY <1>1, <1>2, <2>1, <2>2, <2>3 DEF MovesTop
  <2> QED BY <2>4, KeepsMove
<1> HIDE DEF inst
<1> QED BY <1>1, <1>3, SimEmit

\* A store reads its two registers.
LEMMA SimStore == ASSUME TransInv, SimInv, I32Store PROVE SimInv'
<1> DEFINE inst == UInst("I32Store", Top(1), Top(2), Cur.imm, -1)
<1>1. /\ Going /\ UNCHANGED local_table
      /\ Translates({"I32Store"}) /\ 2 <= Len(wasm_stack)
      /\ uinsts' = Append(uinsts, inst)
      /\ wasm_stack' = Cut(wasm_stack, 2)
  BY DEF I32Store, Translates, Continue, Going, ubhVars, Emit, Keep, Cut
<1>2. Cur.op = "I32Store" /\ Len(wasm_stack) \in Nat  BY <1>1, CurFacts
<1>3. ASSUME OnlyI32, RegistersFit
      PROVE  KeepsBy(Cur, inst, wasm_stack, wasm_stack', local_map, Get_local_num')
  <2>1. /\ Top(1) \in Fits /\ IdxAt(wasm_stack, 1) = Top(1)
        /\ Top(2) \in Fits /\ IdxAt(wasm_stack, 2) = Top(2)
    <3>1. 1 <= Len(wasm_stack)  BY <1>1, <1>2
    <3> QED BY <1>1, <1>3, <3>1, OperandsFit
  <2>2. inst.op = "I32Store" /\ inst.rd = Top(1) /\ inst.rs = Top(2) /\ inst.ofs = 0
    BY <2>1, UInstStore
  <2> HIDE DEF inst
  <2> QED BY <1>1, <1>2, <2>1, <2>2, KeepsStore
<1> HIDE DEF inst
<1> QED BY <1>1, <1>3, SimEmit

\* What the three instructions that hand out a temporary have in common.
LEMMA TempPushed ==
    ASSUME TransInv, NEW n \in Nat, PushTempReg(n), OnlyI32, RegistersFit'
    PROVE  /\ wasm_stack' = Append(Cut(wasm_stack, n), Temp(NextTemp("I32")))
           /\ NextTemp("I32") \in Fits /\ NextTemp("I32") \in Nat
           /\ NextTemp("I32") < Get_local_num' /\ Get_local_num' \in Nat
           /\ Fresh(NextTemp("I32"), wasm_stack, local_map)
           /\ RegistersFit
<1>1. wasm_stack' = Append(Cut(wasm_stack, n), Temp(NextTemp("I32")))
  BY DEF PushTempReg, Keep, Cut, Temp
<1>2. Get_local_num \in Nat /\ Get_local_num' = Get_local_num + 1
  BY LocalNumNat DEF TransInv, UbhInv, PushTempReg
<1>3. /\ NextTemp("I32") \in Nat /\ NextTemp("I32") <= Get_local_num
      /\ Fresh(NextTemp("I32"), wasm_stack, local_map)
  BY RegistersInUse
<1>4. PICK q, g \in Nat : q = NextTemp("I32") /\ g = Get_local_num  BY <1>2, <1>3
<1>5. 2^REG_SIZE = 1024  BY DEF REG_SIZE
<1>6. Get_local_num' <= 1024  BY <1>5 DEF RegistersFit
<1>7. q <= g /\ g + 1 <= 1024  BY <1>2, <1>3, <1>4, <1>6
<1>8. q \in 0 .. 1024 - 1 /\ g <= 1024 /\ q < g + 1 /\ g + 1 \in Nat  BY <1>7
<1> QED BY <1>1, <1>2, <1>3, <1>4, <1>5, <1>8 DEF Fits, RegistersFit

\* A constant goes to a fresh temporary.
LEMMA SimConst == ASSUME TransInv, SimInv, I32Const PROVE SimInv'
<1> DEFINE inst == UInst("I32Const", NextTemp("I32"), -1, -1, Cur.imm)
<1>1. /\ Going /\ Push_temp_reg("I32")
      /\ Translates({"I32Const"}) /\ PushTempReg(0)
      /\ uinsts' = Append(uinsts, inst)
  BY DEF I32Const, Translates, Continue, Going, PushTempReg, Push_temp_reg, Emit
<1>2. Cur.op = "I32Const" /\ Cur.imm \in Nat  BY <1>1, CurFacts
<1>3. ASSUME OnlyI32, RegistersFit'
      PROVE  KeepsBy(Cur, inst, wasm_stack, wasm_stack', local_map, Get_local_num')
  <2>1. PICK q \in Nat, g \in Nat :
            /\ q = NextTemp("I32") /\ g = Get_local_num' /\ q \in Fits /\ q < g
            /\ Fresh(q, wasm_stack, local_map)
            /\ wasm_stack' = Append(Cut(wasm_stack, 0), Temp(q))
    BY <1>1, <1>3, TempPushed
  <2>2. inst.op = "I32Const" /\ inst.rd = q /\ inst.ofs = Cur.imm
    BY <1>2, <2>1, UInstConst
  <2> HIDE DEF inst
  <2> QED BY <1>2, <2>1, <2>2, KeepsConst
<1> HIDE DEF inst
<1> QED BY <1>1, <1>3, SimEmit

\* A load goes to a fresh temporary; its address is popped.
LEMMA SimLoad == ASSUME TransInv, SimInv, I32Load PROVE SimInv'
<1> DEFINE inst == UInst("I32Load", NextTemp("I32"), Top(1), -1, Cur.imm)
<1>1. /\ Going /\ Push_temp_reg("I32")
      /\ Translates({"I32Load"}) /\ PushTempReg(1) /\ wasm_stack # <<>>
      /\ uinsts' = Append(uinsts, inst)
  BY DEF I32Load, Translates, Continue, Going, PushTempReg, Push_temp_reg, Emit
<1>2. Cur.op = "I32Load" /\ Cur.imm \in Nat /\ 1 <= Len(wasm_stack)  BY <1>1, CurFacts
<1>3. ASSUME OnlyI32, RegistersFit, RegistersFit'
      PROVE  KeepsBy(Cur, inst, wasm_stack, wasm_stack', local_map, Get_local_num')
  <2>1. PICK q \in Nat, g \in Nat :
            /\ q = NextTemp("I32") /\ g = Get_local_num' /\ q \in Fits /\ q < g
            /\ Fresh(q, wasm_stack, local_map)
            /\ wasm_stack' = Append(Cut(wasm_stack, 1), Temp(q))
    BY <1>1, <1>3, TempPushed
  <2>2. Top(1) \in Fits /\ IdxAt(wasm_stack, 1) = Top(1)  BY <1>2, <1>3, OperandsFit
  <2>3. inst.op = "I32Load" /\ inst.rd = q /\ inst.rs = Top(1)
        /\ (~(Cur.imm >= 2^20) => inst.ofs = Cur.imm)
    <3>1. TY_AM["I32Load"] = "AM64_R_R_OFS" /\ Cur.imm # -1  BY <1>2, EmittedModes
    <3>2. inst.op = "I32Load"  BY UInstOp
    <3>3. inst.rd = q % 2^REG_SIZE /\ inst.rs = Top(1) % 2^REG_SIZE
      BY <2>1, <2>2, <3>1, FieldKept DEF UInst
    <3>4. inst.ofs = OfsOf("AM64_R_R_OFS", Cur.imm)  BY <3>1 DEF UInst
    <3>5. OfsOf("AM64_R_R_OFS", Cur.imm) = Cur.imm % 2^20  BY Zenon DEF OfsOf
    <3>6. ~(Cur.imm >= 2^20) => Cur.imm % 2^20 = Cur.imm
      <4>1. Cur.imm \in Nat  BY <1>2
      <4>2. ~(Cur.imm >= 2^20) => Cur.imm < 2^20  BY <4>1, SMT
      <4> QED BY <4>1, <4>2, FieldKept
    <3> QED BY <2>1, <2>2, <3>2, <3>3, <3>4, <3>5, <3>6, FieldKept
  <2> HIDE DEF inst
  <2> QED BY <1>2, <2>1, <2>2, <2>3, KeepsLoad
<1> HIDE DEF inst
<1> QED BY <1>1, <1>3, SimEmit

\* So does the result of an operation in which the order of the operands is nothing.
LEMMA SimBinary == ASSUME TransInv, SimInv, Binary PROVE SimInv'
<1> DEFINE inst == UInst(Cur.op, NextTemp("I32"), Top(1), Top(2), -1)
<1>1. /\ Going /\ Push_temp_reg("I32")
      /\ Translates(Arithmetic) /\ PushTempReg(2) /\ 2 <= Len(wasm_stack)
      /\ uinsts' = Append(uinsts, inst)
  BY DEF Binary, Translates, Continue, Going, PushTempReg, Push_temp_reg, Emit
<1>2. Cur.op \in Arithmetic /\ 1 <= Len(wasm_stack)  BY <1>1, CurFacts
<1>3. ASSUME OnlyI32, RegistersFit, RegistersFit'
      PROVE  KeepsBy(Cur, inst, wasm_stack, wasm_stack', local_map, Get_local_num')
  <2>1. PICK q \in Nat, g \in Nat :
            /\ q = NextTemp("I32") /\ g = Get_local_num' /\ q \in Fits /\ q < g
            /\ Fresh(q, wasm_stack, local_map)
            /\ wasm_stack' = Append(Cut(wasm_stack, 2), Temp(q))
    BY <1>1, <1>3, TempPushed
  <2>2. /\ Top(1) \in Fits /\ IdxAt(wasm_stack, 1) = Top(1)
        /\ Top(2) \in Fits /\ IdxAt(wasm_stack, 2) = Top(2)
    BY <1>1, <1>2, <1>3, OperandsFit
  <2>3. inst.op = Cur.op /\ inst.rd = q /\ inst.rs = Top(1) /\ inst.rt = Top(2)
    <3>1. PICK op \in Arithmetic, t \in Fits, v \in Fits :
              op = Cur.op /\ t = Top(1) /\ v = Top(2)
      BY <1>2, <2>2
    <3>2. PICK i : i = UInst(op, q, t, v, -1)  OBVIOUS
    <3>3. i.op = op /\ i.rd = q /\ i.rs = t /\ i.rt = v  BY <2>1, <3>2, UInstBinary
    <3>4. inst = i  BY <2>1, <3>1, <3>2
    <3> HIDE DEF inst
    <3> QED BY ONLY <3>1, <3>3, <3>4
  <2> HIDE DEF inst
  <2> QED BY <1>1, <1>2, <2>1, <2>2, <2>3, KeepsBinary
<1> HIDE DEF inst
<1> QED BY <1>1, <1>3, SimEmit

\* The first instruction: nothing was pushed and nothing emitted.
LEMMA SimInvInit == TransStart => SimInv
<1> SUFFICES ASSUME TransStart PROVE SimInv  OBVIOUS
<1>1. build = "running" /\ pc = 1 /\ wasm_stack = <<>> /\ uinsts = <<>>
  BY DEF TransStart, HierStart, BLOCK_INSTR_BEGIN
<1>2. uinsts \in Seq({})  BY <1>1, EmptySeq
<1> QED BY <1>1, <1>2 DEF SimInv

\* The two passes before the translation: when the second returns, the relation
\* holds of the two machines as they start.
LEMMA SimPrepare ==
    ASSUME TransInv, SimInv, Prepare
    PROVE  SimInv'
<1>1. UNCHANGED <<pc, wasm_stack, uinsts>>  BY DEF Prepare, transVars
<1>2. build = "running" /\ pc = 1 /\ wasm_stack = <<>> /\ uinsts = <<>>
  <2>1. CASE ConstructStep
    <3>1. ctor # "ready"
      BY <2>1 DEF ConstructStep, ReadParam, ParamsRead, ReadLocal, ReadF64Local, LocalsRead,
                  UnknownType
    <3> QED BY <3>1 DEF TransInv, SimInv
  <2>2. CASE HierNext
    <3>1. build = "running"
      BY <2>2 DEF HierNext, OpenBlock, ElseBlock, ElseWithoutIf, EndBlock, EndIgnored,
                  OtherInst, ReturnBlocks, At
    <3> QED BY <3>1 DEF SimInv
  <2> QED BY <2>1, <2>2 DEF Prepare
<1>3. ASSUME build' = "returned", OnlyI32', RegistersFit', NEW k \in Nat, k = pc' - 1
      PROVE  Simulated(local_map', ins', k, uinsts', wasm_stack', Get_local_num')
  <2>1. UNCHANGED ubhVars
    BY <1>2, <1>3 DEF Prepare, hierVars
  <2>2. UNCHANGED <<local_map, file, local_table>>  BY <2>1 DEF ubhVars
  <2>3. Get_local_num' = Get_local_num  BY <2>2, LocalNumNat DEF TransInv, UbhInv
  <2>4. k = 0  BY <1>1, <1>2, <1>3
  <2>5. OnlyI32  BY <1>3, <2>2 DEF OnlyI32
  <2>6. Get_local_num \in Nat
        /\ \A l \in DOMAIN local_map : local_map[l] \in Nat /\ local_map[l] < Get_local_num
    BY <2>5, RegistersInUse
  <2>7. PICK g \in Nat : g = Get_local_num  BY <2>6
  <2>8. \A N \in Nat : g <= N => \A l \in DOMAIN local_map : local_map[l] \in 0 .. N
    BY <2>6, <2>7
  <2>9. Simulated(local_map, ins', 0, <<>>, <<>>, g)  BY <2>8, SimulatedStart
  <2> QED BY <1>1, <1>2, <2>2, <2>3, <2>4, <2>7, <2>9
<1>4. \E S : uinsts' \in Seq(S)  BY <1>1 DEF SimInv
<1> QED BY <1>1, <1>2, <1>3, <1>4 DEF SimInv

\* Where the pass stops, or another part moves, nothing of the relation changes.
LEMMA SimStutter ==
    ASSUME TransInv, SimInv, UNCHANGED <<hierVars, ubhVars, pc, wasm_stack, uinsts>>
    PROVE  SimInv'
<1>1. UNCHANGED <<ins, build, pc, wasm_stack, uinsts, local_map, file, local_table>>
  BY DEF hierVars, ubhVars
<1>2. Get_local_num' = Get_local_num  BY <1>1, LocalNumNat DEF TransInv, UbhInv
<1>3. (OnlyI32' <=> OnlyI32) /\ (RegistersFit' <=> RegistersFit)
  BY <1>1, <1>2 DEF OnlyI32, RegistersFit
<1> QED BY <1>1, <1>2, <1>3 DEF SimInv

\* Every step of the translation keeps the relation.
LEMMA SimInvNext == TransInv /\ SimInv /\ [TransNext]_convVars => SimInv'
<1> SUFFICES ASSUME TransInv, SimInv, [TransNext]_convVars PROVE SimInv'  OBVIOUS
<1>1. CASE Prepare  BY <1>1, SimPrepare
<1>2. ASSUME NEW how, Stop(how) PROVE SimInv'  BY <1>2, SimStutter DEF Stop
<1>3. CASE BranchAborts \/ NoRegister \/ BinaryAborts \/ NotInTable \/ PopsEmptyStack \/ EndOfPass
  BY <1>2, <1>3 DEF BranchAborts, NoRegister, BinaryAborts, NotInTable, PopsEmptyStack, EndOfPass
<1>4. CASE Jump \/ CondJump \/ NoJump  BY <1>4, SimJumps
<1>5. CASE Skip  BY <1>5, SimSkip
<1>6. CASE LocalGet  BY <1>6, SimGet
<1>7. CASE LocalSetTee  BY <1>7, SimSetTee
<1>8. CASE I32Load  BY <1>8, SimLoad
<1>9. CASE I32Store  BY <1>9, SimStore
<1>10. CASE I32Const  BY <1>10, SimConst
<1>11. CASE Binary  BY <1>11, SimBinary
<1>12. CASE Return  BY <1>12, SimReturn
<1>13. CASE Default  BY <1>13, SimDefault
<1>14. CASE UNCHANGED convVars  BY <1>14, SimStutter DEF convVars, transVars
<1> QED BY <1>1, <1>3, <1>4, <1>5, <1>6, <1>7, <1>8, <1>9, <1>10, <1>11, <1>12, <1>13, <1>14
        DEF TransNext, TranslateStep

\* The relation, read at the state the translation is in.
LEMMA SimulatedNow ==
    ASSUME TransInv, SimInv, OnlyI32, RegistersFit, FaithfulAfter.sound
    PROVE  Denoted(FaithfulAfter, UwasmAfter, wasm_stack, local_map, Get_local_num)
<1>1. /\ Get_local_num \in Nat
      /\ \A l \in DOMAIN local_map : local_map[l] \in Nat /\ local_map[l] < Get_local_num
  BY RegistersInUse
<1>2. PICK g \in Nat : g = Get_local_num  BY <1>1
<1>3. PICK k \in Nat : k = pc - 1  BY DEF TransInv
<1>4. PICK m \in Nat : m = Len(uinsts)
  <2>1. PICK S : uinsts \in Seq(S)  BY DEF SimInv
  <2> QED BY <2>1, LenProperties
<1>5. Simulated(local_map, ins, k, uinsts, wasm_stack, g)
  <2>1. CASE build = "returned"  BY <1>2, <1>3, <2>1 DEF SimInv
  <2>2. CASE build # "returned"
    <3>1. k = 0 /\ wasm_stack = <<>> /\ uinsts = <<>>  BY <1>3, <2>2 DEF SimInv
    <3>2. \A N \in Nat : g <= N => \A l \in DOMAIN local_map : local_map[l] \in 0 .. N
      BY <1>1, <1>2
    <3>3. Simulated(local_map, ins, 0, <<>>, <<>>, g)  BY <3>2, SimulatedStart
    <3> QED BY <3>1, <3>3
  <2> QED BY <2>1, <2>2
<1>6. FaithfulAfter = After("wasm", WStart(local_map), ins, k)  BY <1>3, WasmAfterIs
<1>7. UwasmAfter = After("uwasm", UStart(g), uinsts, Len(uinsts))
  BY <1>2, <1>4, UwasmAfterIs
<1>8. PICK w : w = FaithfulAfter /\ w.sound  OBVIOUS
<1>9. w.sound = TRUE
  <2>1. w.sound \in BOOLEAN  BY <1>5, <1>6, <1>8 DEF Simulated
  <2> QED BY <1>8, <2>1
<1>10. g <= g  BY <1>2
<1>11. Denoted(w, UwasmAfter, wasm_stack, local_map, g)
  BY <1>5, <1>6, <1>7, <1>8, <1>9, <1>10 DEF Simulated
<1> QED BY <1>2, <1>8, <1>11

\* What StackDenotes says follows from the relation.
LEMMA SimDenotes == TransInv /\ SimInv => (OnlyI32 /\ RegistersFit => StackDenotes)
<1> SUFFICES ASSUME TransInv, SimInv, OnlyI32, RegistersFit, FaithfulAfter.sound
             PROVE  /\ Len(wasm_stack) = Len(FaithfulAfter.stack)
                    /\ \A k \in DOMAIN wasm_stack :
                          UwasmAfter.regs[wasm_stack[k].idx] = FaithfulAfter.stack[k].val
                    /\ \A l \in DOMAIN local_map :
                          UwasmAfter.regs[local_map[l]] = FaithfulAfter.locals[l]
                    /\ UwasmAfter.mem = FaithfulAfter.mem
  BY DEF StackDenotes, Denotes
<1>1. PICK w, u : w = FaithfulAfter /\ u = UwasmAfter  OBVIOUS
<1>2. Denoted(w, u, wasm_stack, local_map, Get_local_num)  BY <1>1, SimulatedNow
<1>3. DOMAIN wasm_stack = 1 .. Len(wasm_stack)  BY LenProperties DEF TransInv
<1> QED BY <1>1, <1>2, <1>3 DEF Denoted, Agree, ValuesAgree, LocalsAgree

-----------------------------------------------------------------------------
\* For every function whose locals are all 32-bit integers and whose registers fit
\* their fields, and whatever its instructions: up to the first that moves control
\* or is Miscompiled -- an operation whose operands have an order, a local set under
\* an alias, an offset that is dropped or cut -- the registers tracked for the
\* operands, the registers of the locals and the memory hold after the emitted code
\* what wasm's operands, locals and memory hold.  Registers of two files may have one number in the
\* reference, so that a function with locals of several types is left to the runs.
THEOREM TransStackDenotes ==
    TransSpec => [](OnlyI32 /\ RegistersFit => StackDenotes)
<1>1. TransStart => SimInv  BY SimInvInit
<1>2. TransInv /\ SimInv /\ [TransNext]_convVars => SimInv'  BY SimInvNext
<1>3. TransInv /\ SimInv => (OnlyI32 /\ RegistersFit => StackDenotes)  BY SimDenotes
<1> QED BY <1>1, <1>2, <1>3, TransInvariant, TransStarts, PTL DEF TransSpec
=============================================================================
