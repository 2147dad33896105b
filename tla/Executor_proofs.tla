-------------------------- MODULE Executor_proofs --------------------------
(***************************************************************************)
(* What the emitted instructions read and write, for every function and    *)
(* every vector of instructions: their fields have values an encoding has  *)
(* room for, every register read was written before or is a local's, and a *)
(* temporary is written once. Then the run of the code, whatever memory    *)
(* holds: which registers it writes, and that it leaves those of the       *)
(* locals alone.                                                           *)
(***************************************************************************)
EXTENDS Executor, Labels_proofs

(* What the fields of the emitted instructions hold.                         *)

EncodedInst == [op : DOMAIN TY_AM, pc : Nat, rd : Fits, rs : Fits, rt : Fits, ofs : Nat]

\* Each offset field holds a number.
LEMMA OfsNat == ASSUME NEW am, NEW ofs \in Nat PROVE OfsOf(am, ofs) \in Nat
<1>1. ofs % 2^12 \in Nat /\ ofs % 2^20 \in Nat  OBVIOUS
<1>2. CASE am = "AM32_R_OFS"
  <2>1. OfsOf(am, ofs) = ofs % 2^12  BY <1>2, Zenon DEF OfsOf
  <2> QED BY <1>1, <2>1
<1>3. CASE am = "AM64_R_R_OFS"
  <2>1. OfsOf(am, ofs) = ofs % 2^20  BY <1>3, Zenon DEF OfsOf
  <2> QED BY <1>1, <2>1
<1>4. CASE am = "AM64_R_OFS"
  <2>1. OfsOf(am, ofs) = ofs  BY <1>4, Zenon DEF OfsOf
  <2> QED BY <2>1
<1>5. CASE am \notin {"AM32_R_OFS", "AM64_R_R_OFS", "AM64_R_OFS"}
  <2>1. OfsOf(am, ofs) = 0  BY <1>5, Zenon DEF OfsOf
  <2> QED BY <2>1
<1> QED BY <1>2, <1>3, <1>4, <1>5

\* Set_am: whatever it is given, each field is within its width.
LEMMA UInstEncoded ==
    ASSUME pc \in Nat, NEW op \in DOMAIN TY_AM, NEW rd \in Int, NEW rs \in Int, NEW rt \in Int,
           NEW ofs \in Nat \cup {-1}
    PROVE  UInst(op, rd, rs, rt, ofs) \in EncodedInst
<1>1. \A r \in Int : r % 2^REG_SIZE \in Fits
  <2>1. 2^REG_SIZE = 1024  BY DEF REG_SIZE
  <2> QED BY <2>1 DEF Fits
<1>2. 0 \in Fits
  <2>1. 2^REG_SIZE = 1024  BY DEF REG_SIZE
  <2> QED BY <2>1 DEF Fits
<1>3. (IF ofs = -1 THEN 0 ELSE OfsOf(TY_AM[op], ofs)) \in Nat  BY OfsNat
<1> QED BY <1>1, <1>2, <1>3 DEF UInst, EncodedInst

\* The names of the table are the names of instructions.
LEMMA NamedRow ==
    ASSUME NEW op \in DOMAIN UOPCODE_from_wasm
    PROVE  UOPCODE_from_wasm[op] \in DOMAIN TY_AM
<1> DEFINE c   == Encode[op]
           row == UOPCODE_of_wasm(c)
<1>1. row # NoRow /\ UOPCODE_from_wasm[op] = row["name"]
  BY Zenon DEF UOPCODE_from_wasm
<1>2. c \in DOMAIN ByWasm /\ row = ByWasm[c]
  BY <1>1, Zenon DEF UOPCODE_of_wasm
<1>3. \E r \in ToSet(UWASM_META_INFO) : r["wasm_op"] = c
  BY <1>2, Zenon DEF ByWasm, FirstRows
<1>4. row \in ToSet(UWASM_META_INFO)
  <2>1. row = FirstRows("wasm_op")[c]  BY <1>2 DEF ByWasm
  <2> HIDE DEF row, c
  <2> QED BY <1>3, <2>1, FirstRowOf
<1> HIDE DEF row, c
<1>5. row["name"] \in DOMAIN FirstRows("name")  BY <1>4, FirstRowOf
<1> QED BY <1>1, <1>5 DEF TY_AM, UwinstRow

\* The made-up operands of the default case, by the mode of the instruction.
LEMMA RandIs ==
    ASSUME NEW n
    PROVE  LET am == TY_AM[n]
           IN  /\ am = "AM64_R_R_R" => Rand_operand(n) = UInst(n, 512, 1, 240, -1)
               /\ am = "AM64_R_OFS" => Rand_operand(n) = UInst(n, 512, -1, -1, RAND_OFS)
               /\ am = "AM32_R" => Rand_operand(n) = UInst(n, 512, -1, -1, -1)
               /\ am \notin {"AM64_R_R_R", "AM64_R_OFS", "AM32_R"} =>
                      Rand_operand(n) = UInst(n, -1, -1, -1, -1)
<1> DEFINE am == TY_AM[n]
<1>1. CASE am = "AM64_R_R_R"
  BY <1>1, ZenonT(60) DEF Rand_operand
<1>2. CASE am = "AM64_R_OFS"
  BY <1>2, ZenonT(60) DEF Rand_operand
<1>3. CASE am = "AM32_R"
  BY <1>3, ZenonT(60) DEF Rand_operand
<1>4. CASE am # "AM64_R_R_R" /\ am # "AM64_R_OFS" /\ am # "AM32_R"
  BY <1>4, ZenonT(60) DEF Rand_operand
<1> QED BY <1>1, <1>2, <1>3, <1>4

\* Every row named i64.add has the mode of three registers.
LEMMA AddRow ==
    ASSUME NEW row \in ToSet(UWASM_META_INFO)
    PROVE  row["name"] = "I64Add" => row["ty_am"] = "AM64_R_R_R"
<1> DEFINE n  == row["name"]
           ty == row["ty_am"]
<1>1. \A k \in 1 .. 152 : NumericNames[k] = "I64Add" => k = 85
  BY SMTT(60) DEF NumericNames
<1>2. n = "I64Add" => row \notin ToSet(ControlRows)
  <2>1. DOMAIN ControlRows = 1 .. 26  BY DEF ControlRows
  <2>2. ASSUME NEW i \in 1 .. 26 PROVE ControlRows[i]["name"] # "I64Add"
    BY SMTT(60) DEF ControlRows, Row
  <2>3. \A r \in ToSet(ControlRows) : \E i \in 1 .. 26 : r = ControlRows[i]  BY <2>1 DEF ToSet
  <2> QED BY <2>2, <2>3
<1>3. n = "I64Add" => row # MovRow  BY DEF MovRow, Row
<1>4. n = "I64Add" =>
      \/ InRun(row, 40, 62, "AM64_R_R_OFS") \/ InRun(row, 63, 64, "AM32_R")
      \/ InRun(row, 65, 69, "AM64_R_OFS") \/ InRun(row, 70, 72, "AM64_R_R_R")
      \/ InRun(row, 73, 105, "AM64_R_OFS") \/ InRun(row, 106, 191, "AM64_R_R_R")
  BY <1>2, <1>3, TableRows, Zenon
<1> DEFINE Run(lo, hi, am) == \E k \in 1 .. 152 : /\ lo <= k /\ k <= hi
                                                 /\ n = NumericNames[k] /\ ty = am
<1>5. /\ InRun(row, 40, 62, "AM64_R_R_OFS") => Run(1, 23, "AM64_R_R_OFS")
      /\ InRun(row, 63, 64, "AM32_R") => Run(24, 25, "AM32_R")
      /\ InRun(row, 65, 69, "AM64_R_OFS") => Run(26, 30, "AM64_R_OFS")
  BY RunFields
<1>6. /\ InRun(row, 70, 72, "AM64_R_R_R") => Run(31, 33, "AM64_R_R_R")
      /\ InRun(row, 73, 105, "AM64_R_OFS") => Run(34, 66, "AM64_R_OFS")
  BY RunFields
<1>7. InRun(row, 106, 191, "AM64_R_R_R") => Run(67, 152, "AM64_R_R_R")
  BY RunFields, SMTT(60)
<1>8. n = "I64Add" =>
      /\ ~Run(1, 23, "AM64_R_R_OFS") /\ ~Run(24, 25, "AM32_R") /\ ~Run(26, 30, "AM64_R_OFS")
      /\ ~Run(34, 66, "AM64_R_OFS")
  BY <1>1
<1>9. Run(31, 33, "AM64_R_R_R") \/ Run(67, 152, "AM64_R_R_R") => ty = "AM64_R_R_R"
  OBVIOUS
<1> HIDE DEF Run
<1> QED BY <1>4, <1>5, <1>6, <1>7, <1>8, <1>9

\* So has the instruction.
LEMMA AddMode == "I64Add" \in DOMAIN TY_AM => TY_AM["I64Add"] = "AM64_R_R_R"
<1> SUFFICES ASSUME "I64Add" \in DOMAIN TY_AM PROVE TY_AM["I64Add"] = "AM64_R_R_R"
  OBVIOUS
<1>1. "I64Add" \in DOMAIN UwinstRow /\ TY_AM["I64Add"] = UwinstRow["I64Add"]["ty_am"]
  BY DEF TY_AM
<1>2. \E r \in ToSet(UWASM_META_INFO) : r["name"] = "I64Add"
  BY <1>1, Zenon DEF UwinstRow, FirstRows
<1>3. /\ UwinstRow["I64Add"] \in ToSet(UWASM_META_INFO)
      /\ UwinstRow["I64Add"]["name"] = "I64Add"
  BY <1>2, FirstRowOf, Zenon DEF UwinstRow
<1> QED BY <1>1, <1>3, AddRow

\* What the default case copies is well formed, and a 64-bit addition writes register 512.
LEMMA CopiedEncoded ==
    ASSUME pc \in Nat, NEW op \in DOMAIN UOPCODE_from_wasm
    PROVE  LET i == Rand_operand(UOPCODE_from_wasm[op])
           IN  i \in EncodedInst /\ (i.op = "I64Add" => i.rd = 512)
<1> DEFINE n == UOPCODE_from_wasm[op]
           i == Rand_operand(n)
<1>1. n \in DOMAIN TY_AM  BY NamedRow
<1>2. RAND_OFS \in Nat  BY DEF RAND_OFS
<1> HIDE DEF n
<1>3. i \in EncodedInst
  <2>1. /\ UInst(n, 512, 1, 240, -1) \in EncodedInst
        /\ UInst(n, 512, -1, -1, RAND_OFS) \in EncodedInst
        /\ UInst(n, 512, -1, -1, -1) \in EncodedInst
        /\ UInst(n, -1, -1, -1, -1) \in EncodedInst
    BY <1>1, <1>2, UInstEncoded
  <2> QED BY <2>1, RandIs
<1>4. i.op = n  BY RandIs, UInstOp
<1>5. ASSUME n = "I64Add" PROVE i.rd = 512
  <2>1. TY_AM["I64Add"] = "AM64_R_R_R"  BY <1>1, <1>5, AddMode
  <2>2. i = UInst("I64Add", 512, 1, 240, -1)  BY <1>5, <2>1, RandIs
  <2>3. i.rd = 512 % 2^REG_SIZE  BY <2>1, <2>2 DEF UInst
  <2>4. 512 % 2^REG_SIZE = 512  BY DEF REG_SIZE
  <2> QED BY <2>3, <2>4
<1> QED BY <1>3, <1>4, <1>5 DEF n
-----------------------------------------------------------------------------
(* The types of the pass.                                                    *)

\* The climb through the blocks ends at a block or above the body.
LEMMA AncestorBlock ==
    ASSUME BlocksInv, NEW c \in DOMAIN blocks, NEW n \in Nat
    PROVE  Ancestor(c, n) \in {0} \cup DOMAIN blocks
<1>1. PICK up : IsClimb(up, c, n) /\ Ancestor(c, n) = up[n]  BY AncestorIs
<1>2. \A k \in 0 .. n : up[k] = IF k = 0 THEN c
                                ELSE IF up[k-1] = 0 THEN 0 ELSE blocks[up[k-1]].parent
  BY <1>1 DEF IsClimb
<1> DEFINE S == {k \in Nat : k <= n => up[k] \in {0} \cup DOMAIN blocks}
<1>3. 0 \in S  BY <1>2
<1>4. ASSUME NEW k \in Nat, k \in S PROVE k + 1 \in S
  <2> SUFFICES ASSUME k + 1 <= n PROVE up[k+1] \in {0} \cup DOMAIN blocks
    OBVIOUS
  <2>1. k \in 0 .. n /\ k + 1 \in 0 .. n /\ k + 1 # 0 /\ k + 1 - 1 = k  OBVIOUS
  <2>2. up[k+1] = IF up[k] = 0 THEN 0 ELSE blocks[up[k]].parent  BY <1>2, <2>1
  <2>3. up[k] \in {0} \cup DOMAIN blocks  BY <1>4, <2>1
  <2>4. \A b \in DOMAIN blocks : blocks[b].parent \in {0} \cup DOMAIN blocks
    BY BlockFields
  <2> QED BY <2>2, <2>3, <2>4
<1>5. n \in S
  <2> HIDE DEF S
  <2> QED BY <1>3, <1>4, SetInduction
<1> QED BY <1>1, <1>5

LabelEntry == [pc : Nat, sym : Nat]

\* A label is a pc and a block.
LEMMA LabelTyped ==
    ASSUME BlocksInv, NEW p \in Nat, NEW n \in Nat,
           Get_label_index_for_branch(p, n).kind = "LABEL"
    PROVE  LET r == Get_label_index_for_branch(p, n)
           IN  [pc |-> r.pc, sym |-> r.sym] \in LabelEntry
<1> DEFINE r == Get_label_index_for_branch(p, n)
<1>1. PICK c \in DOMAIN blocks : r.sym = c /\ (AtOpener(c, p, r) \/ Inner(c, p, n, r))
  BY LabelOwner
<1>2. \A b \in DOMAIN blocks : b \in Nat /\ blocks[b].start \in Nat /\ blocks[b].end \in Nat
  BY BlockFields
<1> HIDE DEF r
<1>3. r.kind = "LABEL"  BY DEF r
<1>4. CASE AtOpener(c, p, r)
  <2>1. r.pc = blocks[c].end + 1  BY <1>4, KindsApart DEF AtOpener
  <2> QED BY <1>1, <1>2, <2>1 DEF LabelEntry, r
<1>5. CASE Inner(c, p, n, r)
  <2>1. r = LabelInside(c, n)  BY <1>5 DEF Inner
  <2>2. PICK t : t = Ancestor(c, n)  OBVIOUS
  <2>3. t # 0
    <3>1. t = 0 => r = ABORT  BY <2>1, <2>2, InsideIs
    <3> QED BY <1>3, <3>1, KindsApart
  <2>4. t \in DOMAIN blocks  BY <2>2, <2>3, AncestorBlock
  <2>5. r.pc = (IF blocks[t].kind = "LOOP" THEN blocks[t].start ELSE blocks[t].end) + 1
    BY <2>1, <2>2, <2>3, InsideIs, KindsApart
  <2>6. r.pc \in Nat  BY <1>2, <2>4, <2>5
  <2> QED BY <1>1, <1>2, <2>6 DEF LabelEntry, r
<1> QED BY <1>1, <1>4, <1>5

\* Where the pass is, what it has made so far, and how it ended.
CodeInv ==
    /\ uinsts \in Seq(EncodedInst)
    /\ label_tab \in Seq(LabelEntry)
    /\ pc <= Len(ins) + 1
    /\ trans \in {"translating", "translated", "aborted", "undefined"}
    /\ build # "returned" => pc = 1

\* A step of the pass that goes on to the next instruction.
LEMMA CodeGoesOn ==
    ASSUME TransInv, CodeInv, NEW ops, Translates(ops), Continue,
           uinsts' \in Seq(EncodedInst), label_tab' \in Seq(LabelEntry)
    PROVE  CodeInv'
<1>1. UNCHANGED <<ins, build, trans>> /\ build = "returned" /\ pc' = pc + 1 /\ pc <= Len(ins)
  BY DEF Translates, Continue, hierVars
<1>2. ins \in Seq(Inst)  BY DEF TransInv, HierInv, HierTypeOK
<1>3. Len(ins) \in Nat /\ pc \in Nat  BY <1>2, LenProperties DEF TransInv
<1>4. pc' <= Len(ins') + 1  BY <1>1, <1>3
<1> QED BY <1>1, <1>4 DEF CodeInv

\* The same with one instruction more.
LEMMA CodeOne ==
    ASSUME TransInv, CodeInv, NEW ops, Translates(ops), Continue,
           NEW i \in EncodedInst, uinsts' = Append(uinsts, i), label_tab' \in Seq(LabelEntry)
    PROVE  CodeInv'
<1>1. uinsts' \in Seq(EncodedInst)  BY AppendProperties DEF CodeInv
<1> QED BY <1>1, CodeGoesOn
-----------------------------------------------------------------------------
(* What a step emits.                                                        *)

\* The registers an instruction reads, by its operation.
LEMMA SourcesOf ==
    ASSUME NEW i
    PROVE  /\ i.op \in {"UMOV", "I32Load"} => Sources(i) = {i.rs}
           /\ i.op \in Arithmetic => Sources(i) = {i.rs, i.rt}
           /\ i.op = "I32Store" => Sources(i) = {i.rd, i.rs}
           /\ i.op = "UJNZ" => Sources(i) = {i.rd}
           /\ i.op \notin {"UMOV", "I32Load", "I32Store", "UJNZ"} \cup Arithmetic => Sources(i) = {}
<1>1. CASE i.op \in {"UMOV", "I32Load"}
  <2>1. i.op \notin Arithmetic /\ i.op # "I32Store" /\ i.op # "UJNZ"  BY <1>1 DEF Arithmetic
  <2> QED BY <1>1, <2>1, Zenon DEF Sources
<1>2. CASE i.op \in Arithmetic
  <2>1. i.op \notin {"UMOV", "I32Load"} /\ i.op # "I32Store" /\ i.op # "UJNZ"
    BY <1>2 DEF Arithmetic
  <2> QED BY <1>2, <2>1, Zenon DEF Sources
<1>3. CASE i.op = "I32Store"
  <2>1. i.op \notin Arithmetic /\ i.op \notin {"UMOV", "I32Load"} /\ i.op # "UJNZ"
    BY <1>3 DEF Arithmetic
  <2> QED BY <1>3, <2>1, Zenon DEF Sources
<1>4. CASE i.op = "UJNZ"
  <2>1. i.op \notin Arithmetic /\ i.op \notin {"UMOV", "I32Load"} /\ i.op # "I32Store"
    BY <1>4 DEF Arithmetic
  <2> QED BY <1>4, <2>1, Zenon DEF Sources
<1>5. CASE i.op \notin {"UMOV", "I32Load", "I32Store", "UJNZ"} \cup Arithmetic
  <2>1. /\ i.op \notin {"UMOV", "I32Load"} /\ i.op \notin Arithmetic
        /\ i.op # "I32Store" /\ i.op # "UJNZ"
    BY <1>5
  <2>2. Sources(i) = {}  BY <2>1, Zenon DEF Sources
  <2> QED BY <1>5, <2>2
<1> QED BY <1>1, <1>2, <1>3, <1>4, <1>5

OnStack(r) == \E k \in DOMAIN wasm_stack : wasm_stack[k].idx = r

NewInst(i) ==
    /\ i \in EncodedInst
    /\ i.op = "I64Add" => i.rd = 512
    /\ RegistersFit' =>
          /\ \A r \in Sources(i) : OnStack(r)
          /\ Defines(i) => \/ i.op = "UMOV" /\ i.rd \in ToSet(local_map)
                           \/ i.op # "UMOV" /\ i.rd = NextTemp("I32") /\ Push_temp_reg("I32")

\* What neither reads nor writes a register the pass knows of.
LEMMA NewQuiet ==
    ASSUME NEW i \in EncodedInst, i.op = "I64Add" => i.rd = 512,
           i.op \notin OwnOps \/ i.op = "UJMP"
    PROVE  NewInst(i)
<1>1. i.op \notin {"UMOV", "I32Load", "I32Store", "UJNZ"} \cup Arithmetic
  BY DEF OwnOps, Arithmetic
<1>2. i.op # "I32Const"  BY DEF OwnOps
<1>3. Sources(i) = {}  BY <1>1, SourcesOf
<1>4. ~Defines(i)  BY <1>1, <1>2 DEF Defines
<1> QED BY <1>3, <1>4 DEF NewInst

\* An operand still tracked is a register, and one of ten bits if the registers fit.
LEMMA TrackedFits ==
    ASSUME TransInv, NEW n \in Nat, n # 0, n <= Len(wasm_stack)
    PROVE  /\ Top(n) \in Nat /\ OnStack(Top(n))
           /\ RegistersFit => Top(n) \in Fits
<1>1. PICK l \in Nat : l = Len(wasm_stack)  BY SeqBasics DEF TransInv
<1>2. DOMAIN wasm_stack = 1 .. l /\ \A k \in 1 .. l : wasm_stack[k] \in WASM_STACK_ELEM
  BY <1>1, SeqBasics DEF TransInv
<1>3. PICK k \in 1 .. l : k = l + 1 - n  BY <1>1
<1>4. Top(n) = wasm_stack[k].idx  BY <1>1, <1>3 DEF Top
<1>5. Top(n) \in Nat /\ OnStack(Top(n))  BY <1>2, <1>4 DEF OnStack, WASM_STACK_ELEM
<1>6. ParamAreaFree /\ Get_local_num \in Nat
  BY ParamAreaAbove, LocalNumNat DEF TransInv, UbhInv
<1>7. Top(n) < Get_local_num
  <2>1. CASE wasm_stack[k].kind = "LOCAL"
    <3>1. PICK m \in DOMAIN local_map : wasm_stack[k].idx = local_map[m]
      BY <1>2, <2>1 DEF TransInv, StackOwned
    <3> QED BY <1>4, <1>6, <3>1 DEF ParamAreaFree
  <2>2. CASE wasm_stack[k].kind # "LOCAL"
    <3>1. PICK t \in DOMAIN temps : temps[t] = [type |-> "I32", reg |-> wasm_stack[k].idx]
      BY <1>2, <2>2 DEF TransInv, StackOwned
    <3>2. temps[t].reg = wasm_stack[k].idx  BY <3>1
    <3> QED BY <1>4, <1>6, <3>2 DEF ParamAreaFree
  <2> QED BY <2>1, <2>2
<1> QED BY <1>5, <1>6, <1>7, FitsBelow

\* So is the register of a local.
LEMMA LocalFits ==
    ASSUME TransInv, NEW l \in DOMAIN local_map
    PROVE  /\ local_map[l] \in Nat /\ local_map[l] \in ToSet(local_map)
           /\ RegistersFit => local_map[l] \in Fits
<1>1. local_map \in Seq(Nat)  BY DEF TransInv, UbhInv, UbhTypeOK
<1>2. local_map[l] \in Nat  BY <1>1, SeqBasics
<1>3. ParamAreaFree /\ Get_local_num \in Nat
  BY ParamAreaAbove, LocalNumNat DEF TransInv, UbhInv
<1>4. local_map[l] < Get_local_num  BY <1>3 DEF ParamAreaFree
<1> QED BY <1>2, <1>3, <1>4, FitsBelow DEF ToSet

\* And the temporary handed out next.
LEMMA NextFits ==
    ASSUME TransInv
    PROVE  /\ NextTemp("I32") \in Nat
           /\ Push_temp_reg("I32") => NextTemp("I32")' = NextTemp("I32") + 1
           /\ Push_temp_reg("I32") /\ RegistersFit' => RegistersFit /\ NextTemp("I32") \in Fits
           /\ UNCHANGED local_table => /\ NextTemp("I32")' = NextTemp("I32")
                                       /\ RegistersFit' => RegistersFit
<1>1. UbhTypeOK /\ local_table["I32"] \in Seq(REG_TY) /\ "I32" \in NumTypes /\ "TEMP" \in REG_TY
  BY TableFacts DEF TransInv, UbhInv, NumTypes, REG_TY
<1>2. PICK a, b, c, d \in Nat : /\ a = Len(local_table["I32"]) /\ b = Len(local_table["I64"])
                                /\ c = Len(local_table["F32"]) /\ d = Len(local_table["F64"])
  BY <1>1, TableFacts DEF NumTypes
<1>3. Get_local_num = 2 + 2 + a + b + c + d /\ NextTemp("I32") = a + 2 + 2
  BY <1>2 DEF Get_local_num, NextTemp, CONST_REG_NUM, RET_REG_NUM
<1>4. 2^REG_SIZE = 1024  BY DEF REG_SIZE
<1>5. PICK g \in Nat : g = Get_local_num /\ a + 4 <= g  BY <1>3
<1>6. ASSUME Push_temp_reg("I32")
      PROVE  NextTemp("I32")' = NextTemp("I32") + 1 /\ Get_local_num' = g + 1
  <2>1. local_table' = [local_table EXCEPT !["I32"] = Append(@, "TEMP")]
    BY <1>6 DEF Push_temp_reg
  <2>2. DOMAIN local_table = NumTypes  BY <1>1 DEF UbhTypeOK
  <2>3. local_table'["I32"] = Append(local_table["I32"], "TEMP")  BY <1>1, <2>1, <2>2
  <2>4. Len(local_table'["I32"]) = a + 1  BY <1>1, <1>2, <2>3, AppendProperties
  <2>5. NextTemp("I32")' = a + 1 + 2 + 2  BY <2>4 DEF NextTemp, CONST_REG_NUM, RET_REG_NUM
  <2>6. Get_local_num' = g + 1  BY <1>1, <1>5, <1>6, LocalNumNat
  <2> QED BY <1>3, <2>5, <2>6
<1>7. ASSUME Push_temp_reg("I32"), RegistersFit' PROVE RegistersFit /\ NextTemp("I32") \in Fits
  <2>1. g + 1 <= 1024  BY <1>4, <1>6, <1>7 DEF RegistersFit
  <2>2. a + 4 \in 0 .. 1024 - 1 /\ g <= 1024  BY <1>5, <2>1
  <2> QED BY <1>3, <1>4, <1>5, <2>2 DEF RegistersFit, Fits
<1>8. ASSUME UNCHANGED local_table
      PROVE  NextTemp("I32")' = NextTemp("I32") /\ (RegistersFit' => RegistersFit)
  <2>1. Get_local_num' = Get_local_num  BY <1>1, <1>8, LocalNumNat
  <2> QED BY <1>8, <2>1 DEF NextTemp, RegistersFit
<1> QED BY <1>3, <1>6, <1>7, <1>8

\* A jump reads at most the condition it was given.
LEMMA JumpNew ==
    ASSUME TransInv, NEW l \in Nat
    PROVE  /\ NewInst(UInst("UJMP", l, -1, -1, -1))
           /\ (UNCHANGED local_table /\ 1 <= Len(wasm_stack)) =>
                  NewInst(UInst("UJNZ", Top(1), -1, -1, l))
<1>1. "UJMP" \in DOMAIN TY_AM /\ "UJNZ" \in DOMAIN TY_AM /\ TY_AM["UJNZ"] = "AM32_R_OFS"
  BY EmittedModes
<1>2. pc \in Nat  BY DEF TransInv
<1>3. NewInst(UInst("UJMP", l, -1, -1, -1))
  <2>1. PICK i : i = UInst("UJMP", l, -1, -1, -1)  OBVIOUS
  <2>2. i \in EncodedInst  BY <1>1, <1>2, <2>1, UInstEncoded
  <2>3. i.op = "UJMP"  BY <2>1, UInstOp
  <2> QED BY <2>1, <2>2, <2>3, NewQuiet
<1>4. ASSUME UNCHANGED local_table, 1 <= Len(wasm_stack)
      PROVE  NewInst(UInst("UJNZ", Top(1), -1, -1, l))
  <2>1. PICK i : i = UInst("UJNZ", Top(1), -1, -1, l)  OBVIOUS
  <2>2. Top(1) \in Nat /\ OnStack(Top(1)) /\ (RegistersFit => Top(1) \in Fits)
    BY <1>4, TrackedFits
  <2>3. i \in EncodedInst  BY <1>1, <1>2, <2>1, <2>2, UInstEncoded
  <2>4. i.op = "UJNZ" /\ Sources(i) = {i.rd} /\ ~Defines(i)
    BY <2>1, UInstOp, SourcesOf DEF Defines, Arithmetic
  <2>5. ASSUME RegistersFit' PROVE i.rd = Top(1)
    <3>1. Top(1) \in Fits  BY <1>4, <2>2, <2>5, NextFits
    <3>2. i.rd = Top(1) % 2^REG_SIZE  BY <1>1, <2>1, <3>1, FieldKept DEF UInst
    <3> QED BY <3>1, <3>2, FieldKept
  <2>6. NewInst(i)  BY <2>2, <2>3, <2>4, <2>5 DEF NewInst
  <2> QED BY <2>1, <2>6
<1> QED BY <1>3, <1>4

\* A move writes the local's register.
LEMMA MovNew ==
    ASSUME TransInv, NEW l \in DOMAIN local_map, 1 <= Len(wasm_stack), UNCHANGED local_table
    PROVE  NewInst(UInst("UMOV", local_map[l], Top(1), -1, -1))
<1>1. PICK i : i = UInst("UMOV", local_map[l], Top(1), -1, -1)  OBVIOUS
<1>2. Top(1) \in Nat /\ OnStack(Top(1)) /\ (RegistersFit => Top(1) \in Fits)
  BY TrackedFits
<1>3. /\ local_map[l] \in Nat /\ local_map[l] \in ToSet(local_map)
      /\ RegistersFit => local_map[l] \in Fits
  BY LocalFits
<1>4. i \in EncodedInst
  <2>1. "UMOV" \in DOMAIN TY_AM /\ pc \in Nat  BY EmittedModes DEF TransInv
  <2> QED BY <1>1, <1>2, <1>3, <2>1, UInstEncoded
<1>5. i.op = "UMOV" /\ Sources(i) = {i.rs}
  BY <1>1, UInstOp, SourcesOf
<1>6. ASSUME RegistersFit' PROVE i.rs = Top(1) /\ i.rd = local_map[l]
  BY <1>1, <1>2, <1>3, <1>6, NextFits, UInstMov
<1>7. NewInst(i)
  BY <1>2, <1>3, <1>4, <1>5, <1>6 DEF NewInst
<1> QED BY <1>1, <1>7

\* A store reads both its operands.
LEMMA StoreNew ==
    ASSUME TransInv, 2 <= Len(wasm_stack), UNCHANGED local_table, NEW imm \in Nat
    PROVE  NewInst(UInst("I32Store", Top(1), Top(2), imm, -1))
<1>1. PICK i : i = UInst("I32Store", Top(1), Top(2), imm, -1)  OBVIOUS
<1>2. 1 <= Len(wasm_stack)
  <2>1. Len(wasm_stack) \in Nat  BY SeqBasics DEF TransInv
  <2> QED BY <2>1
<1>3. /\ Top(1) \in Nat /\ OnStack(Top(1)) /\ (RegistersFit => Top(1) \in Fits)
      /\ Top(2) \in Nat /\ OnStack(Top(2)) /\ (RegistersFit => Top(2) \in Fits)
  BY <1>2, TrackedFits
<1>4. i \in EncodedInst
  <2>1. "I32Store" \in DOMAIN TY_AM /\ pc \in Nat  BY EmittedModes DEF TransInv
  <2> QED BY <1>1, <1>3, <2>1, UInstEncoded
<1>5. i.op = "I32Store" /\ Sources(i) = {i.rd, i.rs} /\ ~Defines(i)
  BY <1>1, UInstOp, SourcesOf DEF Defines, Arithmetic
<1>6. ASSUME RegistersFit' PROVE i.rd = Top(1) /\ i.rs = Top(2)
  BY <1>1, <1>3, <1>6, NextFits, UInstStore
<1>7. NewInst(i)  BY <1>3, <1>4, <1>5, <1>6 DEF NewInst
<1> QED BY <1>1, <1>7

\* The three that write a fresh temporary: an instruction of that kind defines it.
DefinesNext(i) ==
    /\ NewInst(i)
    /\ Defines(i) /\ i.op # "UMOV"

\* A constant.
LEMMA ConstNew ==
    ASSUME TransInv, Push_temp_reg("I32"), NEW imm \in Nat
    PROVE  DefinesNext(UInst("I32Const", NextTemp("I32"), -1, -1, imm))
<1>1. PICK q : q = NextTemp("I32")  OBVIOUS
<1>2. q \in Nat /\ (RegistersFit' => q \in Fits)  BY <1>1, NextFits
<1>3. PICK i : i = UInst("I32Const", q, -1, -1, imm)  OBVIOUS
<1>4. i \in EncodedInst
  <2>1. "I32Const" \in DOMAIN TY_AM /\ pc \in Nat  BY EmittedModes DEF TransInv
  <2> QED BY <1>2, <1>3, <2>1, UInstEncoded
<1>5. i.op = "I32Const" /\ Sources(i) = {} /\ Defines(i)
  BY <1>3, UInstOp, SourcesOf DEF Defines, Arithmetic
<1>6. RegistersFit' => i.rd = q  BY <1>2, <1>3, UInstConst
<1>7. DefinesNext(i)  BY <1>1, <1>4, <1>5, <1>6 DEF NewInst, DefinesNext
<1> QED BY <1>1, <1>3, <1>7

\* A load.
LEMMA LoadNew ==
    ASSUME TransInv, Push_temp_reg("I32"), 1 <= Len(wasm_stack), NEW imm \in Nat
    PROVE  DefinesNext(UInst("I32Load", NextTemp("I32"), Top(1), -1, imm))
<1>1. PICK q, t : q = NextTemp("I32") /\ t = Top(1)  OBVIOUS
<1>2. q \in Nat /\ (RegistersFit' => q \in Fits /\ RegistersFit)  BY <1>1, NextFits
<1>3. t \in Nat /\ OnStack(t) /\ (RegistersFit => t \in Fits)  BY <1>1, TrackedFits
<1>4. PICK i : i = UInst("I32Load", q, t, -1, imm)  OBVIOUS
<1>5. "I32Load" \in DOMAIN TY_AM /\ TY_AM["I32Load"] = "AM64_R_R_OFS" /\ pc \in Nat
  BY EmittedModes DEF TransInv
<1>6. i \in EncodedInst  BY <1>2, <1>3, <1>4, <1>5, UInstEncoded
<1>7. i.op = "I32Load" /\ Sources(i) = {i.rs} /\ Defines(i)
  BY <1>4, UInstOp, SourcesOf DEF Defines
<1>8. ASSUME RegistersFit' PROVE i.rd = q /\ i.rs = t
  <2>1. q \in Fits /\ t \in Fits  BY <1>2, <1>3, <1>8
  <2>2. i.rd = q % 2^REG_SIZE /\ i.rs = t % 2^REG_SIZE
    BY <1>4, <1>5, <2>1, FieldKept DEF UInst
  <2> QED BY <2>1, <2>2, FieldKept
<1>9. DefinesNext(i)  BY <1>1, <1>3, <1>6, <1>7, <1>8 DEF NewInst, DefinesNext
<1> QED BY <1>1, <1>4, <1>9

\* Arithmetic.
LEMMA BinaryNew ==
    ASSUME TransInv, Push_temp_reg("I32"), 2 <= Len(wasm_stack), NEW op \in Arithmetic
    PROVE  DefinesNext(UInst(op, NextTemp("I32"), Top(1), Top(2), -1))
<1>1. PICK q, s, t : q = NextTemp("I32") /\ s = Top(1) /\ t = Top(2)  OBVIOUS
<1>2. q \in Nat /\ (RegistersFit' => q \in Fits /\ RegistersFit)  BY <1>1, NextFits
<1>3. 1 <= Len(wasm_stack)
  <2>1. Len(wasm_stack) \in Nat  BY SeqBasics DEF TransInv
  <2> QED BY <2>1
<1>4. /\ s \in Nat /\ OnStack(s) /\ (RegistersFit => s \in Fits)
      /\ t \in Nat /\ OnStack(t) /\ (RegistersFit => t \in Fits)
  BY <1>1, <1>3, TrackedFits
<1>5. PICK i : i = UInst(op, q, s, t, -1)  OBVIOUS
<1>6. i \in EncodedInst
  <2>1. op \in DOMAIN TY_AM /\ pc \in Nat  BY EmittedModes DEF TransInv
  <2> QED BY <1>2, <1>4, <1>5, <2>1, UInstEncoded
<1>7. i.op = op /\ Sources(i) = {i.rs, i.rt} /\ Defines(i) /\ op # "UMOV" /\ op # "I64Add"
  BY <1>5, UInstOp, SourcesOf DEF Defines, Arithmetic
<1>8. RegistersFit' => i.rd = q /\ i.rs = s /\ i.rt = t
  BY <1>2, <1>4, <1>5, UInstBinary
<1>9. DefinesNext(i)  BY <1>1, <1>4, <1>6, <1>7, <1>8 DEF NewInst, DefinesNext
<1> QED BY <1>1, <1>5, <1>9

\* What the default case and the second instruction of a return copy.
LEMMA CopiedNew ==
    ASSUME TransInv, NEW op \in (DOMAIN UOPCODE_from_wasm \ Handled) \cup {"Return"}
    PROVE  NewInst(Rand_operand(UOPCODE_from_wasm[op]))
<1>1. op \in DOMAIN UOPCODE_from_wasm  BY ReturnNamed
<1>2. PICK i : i = Rand_operand(UOPCODE_from_wasm[op])  OBVIOUS
<1>3. pc \in Nat  BY DEF TransInv
<1>4. i \in EncodedInst /\ (i.op = "I64Add" => i.rd = 512)  BY <1>1, <1>2, <1>3, CopiedEncoded
<1>5. i.op \notin OwnOps  BY <1>2, CopiedOps
<1> QED BY <1>2, <1>4, <1>5, NewQuiet

\* The first instruction of a return.
LEMMA ReturnNew ==
    ASSUME TransInv, 1 <= Len(wasm_stack)
    PROVE  NewInst(UInst("URETURN", Top(1), -1, -1, -1))
<1>1. PICK i : i = UInst("URETURN", Top(1), -1, -1, -1)  OBVIOUS
<1>2. Top(1) \in Nat  BY TrackedFits
<1>3. i \in EncodedInst
  <2>1. "URETURN" \in DOMAIN TY_AM /\ pc \in Nat  BY EmittedModes DEF TransInv
  <2> QED BY <1>1, <1>2, <2>1, UInstEncoded
<1>4. i.op = "URETURN" /\ i.op \notin OwnOps  BY <1>1, UInstOp DEF OwnOps, Arithmetic
<1> QED BY <1>1, <1>3, <1>4, NewQuiet
-----------------------------------------------------------------------------
(* The code as an invariant: each register it reads was written before, and  *)
(* each temporary is written once.                                           *)

DefinedIn(us, r) == \E m \in DOMAIN us : Defines(us[m]) /\ us[m].rd = r

\* Of code over the locals' registers L, when temporaries below T were handed out.
Supplied(us, L, T) ==
    /\ \A n \in DOMAIN us : \A r \in Sources(us[n]) :
          \/ r \in L
          \/ \E m \in 1 .. n - 1 : Defines(us[m]) /\ us[m].rd = r
    /\ \A m \in DOMAIN us : Defines(us[m]) => us[m].rd \in L \/ us[m].rd < T
    /\ \A m, n \in DOMAIN us :
          (m # n /\ Defines(us[m]) /\ Defines(us[n]) /\ us[m].rd = us[n].rd) => us[n].rd \in L

Covered(s, us, L) == \A k \in DOMAIN s : s[k].idx \in L \/ DefinedIn(us, s[k].idx)

\* One instruction more.
LEMMA SuppliedMore ==
    ASSUME NEW us \in Seq(EncodedInst), NEW L, NEW T \in Nat, NEW U \in Nat, T <= U, Supplied(us, L, T),
           NEW i \in EncodedInst,
           \A r \in Sources(i) : r \in L \/ DefinedIn(us, r),
           Defines(i) => i.rd \in L \/ (T <= i.rd /\ i.rd < U)
    PROVE  /\ Supplied(Append(us, i), L, U)
           /\ \A r : DefinedIn(us, r) => DefinedIn(Append(us, i), r)
           /\ Defines(i) => DefinedIn(Append(us, i), i.rd)
<1> DEFINE vs == Append(us, i)
<1>1. PICK n \in Nat : n = Len(us)  BY SeqBasics
<1>2. /\ vs \in Seq(EncodedInst) /\ Len(vs) = n + 1 /\ vs[n+1] = i
      /\ \A k \in 1 .. n : vs[k] = us[k]
  BY <1>1, AppendProperties
<1>3. DOMAIN us = 1 .. n /\ DOMAIN vs = 1 .. n + 1  BY <1>1, <1>2, SeqBasics
<1> HIDE DEF vs
<1>4. \A k \in DOMAIN vs : (k \in DOMAIN us /\ vs[k] = us[k]) \/ (k = n + 1 /\ vs[k] = i)
  BY <1>2, <1>3
<1>5. \A k \in DOMAIN us : k \in DOMAIN vs /\ vs[k] = us[k]  BY <1>2, <1>3
<1>6. \A k \in DOMAIN us : us[k].rd \in Nat
  <2>1. \A k \in DOMAIN us : us[k] \in EncodedInst  BY SeqBasics
  <2>2. \A e \in EncodedInst : e.rd \in Nat  BY DEF EncodedInst, Fits
  <2> QED BY <2>1, <2>2
<1>7. i.rd \in Nat  BY DEF EncodedInst, Fits
<1>8. \A k \in DOMAIN vs : \A r \in Sources(vs[k]) :
          \/ r \in L
          \/ \E m \in 1 .. k - 1 : Defines(vs[m]) /\ vs[m].rd = r
  <2> SUFFICES ASSUME NEW k \in DOMAIN vs, NEW r \in Sources(vs[k]), r \notin L
               PROVE  \E m \in 1 .. k - 1 : Defines(vs[m]) /\ vs[m].rd = r
    OBVIOUS
  <2>1. CASE k \in DOMAIN us /\ vs[k] = us[k]
    <3>1. PICK m \in 1 .. k - 1 : Defines(us[m]) /\ us[m].rd = r  BY <2>1 DEF Supplied
    <3>2. vs[m] = us[m]  BY <1>2, <1>3, <2>1, <3>1
    <3> QED BY <3>1, <3>2
  <2>2. CASE k = n + 1 /\ vs[k] = i
    <3>1. PICK m \in DOMAIN us : Defines(us[m]) /\ us[m].rd = r  BY <2>2 DEF DefinedIn
    <3>2. m \in 1 .. k - 1 /\ vs[m] = us[m]  BY <1>2, <1>3, <2>2, <3>1
    <3> QED BY <3>1, <3>2
  <2> QED BY <1>4, <2>1, <2>2
<1>9. \A k \in DOMAIN vs : Defines(vs[k]) => vs[k].rd \in L \/ vs[k].rd < U
  BY <1>4, <1>6, <1>7 DEF Supplied
<1>10. \A j, k \in DOMAIN vs :
          (j # k /\ Defines(vs[j]) /\ Defines(vs[k]) /\ vs[j].rd = vs[k].rd) => vs[k].rd \in L
  <2> SUFFICES ASSUME NEW j \in DOMAIN vs, NEW k \in DOMAIN vs, j # k, Defines(vs[j]), Defines(vs[k]),
                      vs[j].rd = vs[k].rd, vs[k].rd \notin L
               PROVE  FALSE
    OBVIOUS
  <2>1. ASSUME NEW m \in DOMAIN us, Defines(us[m]), us[m].rd = i.rd, Defines(i), i.rd \notin L
        PROVE  FALSE
    BY <1>6, <1>7, <2>1 DEF Supplied
  <2>2. CASE j \in DOMAIN us /\ k \in DOMAIN us  BY <1>5, <2>2 DEF Supplied
  <2>3. CASE j = n + 1 /\ vs[j] = i /\ k \in DOMAIN us  BY <1>5, <2>1, <2>3
  <2>4. CASE k = n + 1 /\ vs[k] = i /\ j \in DOMAIN us  BY <1>5, <2>1, <2>4
  <2> QED BY <1>4, <2>2, <2>3, <2>4
<1>11. Supplied(vs, L, U)  BY <1>8, <1>9, <1>10 DEF Supplied
<1>12. \A r : DefinedIn(us, r) => DefinedIn(vs, r)  BY <1>5 DEF DefinedIn
<1>13. Defines(i) => DefinedIn(vs, i.rd)  BY <1>2, <1>3 DEF DefinedIn
<1> QED BY <1>11, <1>12, <1>13 DEF vs

\* Of the registers the code writes: a 64-bit addition writes register 512, a temporary
\* is not among the first four registers and, in one register file, no local's.
Placed(us, L, fit, apart) ==
    \A m \in DOMAIN us :
        /\ us[m].op = "I64Add" => us[m].rd = 512
        /\ fit /\ Defines(us[m]) /\ us[m].op # "UMOV" =>
              us[m].rd > 3 /\ (apart => us[m].rd \notin L)

\* The code us with the operands s still tracked.
Sound(us, s, L, T, fit, apart) ==
    /\ Placed(us, L, fit, apart)
    /\ fit => Supplied(us, L, T) /\ Covered(s, us, L)

OperandInv ==
    /\ build # "returned" => uinsts = <<>> /\ wasm_stack = <<>>
    /\ Sound(uinsts, wasm_stack, ToSet(local_map), NextTemp("I32"), RegistersFit, OnlyI32)

\* One instruction more that the pass emits.
LEMMA PlacedMore ==
    ASSUME TransInv, NEW us \in Seq(EncodedInst), Placed(us, ToSet(local_map), RegistersFit, OnlyI32),
           NEW i, NewInst(i), RegistersFit' => RegistersFit
    PROVE  Placed(Append(us, i), ToSet(local_map), RegistersFit', OnlyI32)
<1> DEFINE vs == Append(us, i)
<1>0. i \in EncodedInst  BY DEF NewInst
<1>1. PICK n \in Nat : n = Len(us)  BY SeqBasics
<1>2. /\ vs \in Seq(EncodedInst) /\ Len(vs) = n + 1 /\ vs[n+1] = i
      /\ \A k \in 1 .. n : vs[k] = us[k]
  BY <1>0, <1>1, AppendProperties
<1>3. DOMAIN us = 1 .. n /\ DOMAIN vs = 1 .. n + 1  BY <1>1, <1>2, SeqBasics
<1> HIDE DEF vs
<1>4. \A k \in DOMAIN vs : (k \in DOMAIN us /\ vs[k] = us[k]) \/ (k = n + 1 /\ vs[k] = i)
  BY <1>2, <1>3
<1>5. i.op = "I64Add" => i.rd = 512  BY DEF NewInst
<1>6. ASSUME RegistersFit', Defines(i), i.op # "UMOV"
      PROVE  i.rd > 3 /\ (OnlyI32 => i.rd \notin ToSet(local_map))
  <2>1. i.rd = NextTemp("I32")  BY <1>6 DEF NewInst
  <2>2. NextTemp("I32") > 3
    <3>1. PICK a \in Nat : a = Len(local_table["I32"])
      BY TableFacts DEF TransInv, UbhInv, NumTypes
    <3> QED BY <3>1 DEF NextTemp, CONST_REG_NUM, RET_REG_NUM
  <2>3. OnlyI32 => \A l \in DOMAIN local_map : local_map[l] # NextTemp("I32")
    BY RegistersInUse DEF Fresh
  <2> QED BY <2>1, <2>2, <2>3 DEF ToSet
<1>7. Placed(vs, ToSet(local_map), RegistersFit', OnlyI32)
  BY <1>4, <1>5, <1>6 DEF Placed
<1> QED BY <1>7 DEF vs

\* The code with one instruction more: the operands tracked before are still written.
LEMMA SoundMore ==
    ASSUME TransInv, NEW us \in Seq(EncodedInst),
           Sound(us, wasm_stack, ToSet(local_map), NextTemp("I32"), RegistersFit, OnlyI32),
           NEW i, NewInst(i), UNCHANGED local_table \/ Push_temp_reg("I32")
    PROVE  LET vs == Append(us, i)
           IN  /\ vs \in Seq(EncodedInst)
               /\ Sound(vs, wasm_stack, ToSet(local_map), NextTemp("I32")', RegistersFit', OnlyI32)
               /\ RegistersFit' /\ DefinesNext(i) => DefinedIn(vs, NextTemp("I32"))
<1> DEFINE vs == Append(us, i)
           L  == ToSet(local_map)
<1>1. RegistersFit' => RegistersFit  BY NextFits
<1>2. PICK T, U \in Nat : T = NextTemp("I32") /\ U = NextTemp("I32")' /\ T <= U
                          /\ (Push_temp_reg("I32") => T < U)
  BY NextFits
<1>3. i \in EncodedInst /\ vs \in Seq(EncodedInst)  BY AppendProperties DEF NewInst
<1>4. Placed(vs, L, RegistersFit', OnlyI32)  BY <1>1, PlacedMore DEF Sound
<1>5. ASSUME RegistersFit'
      PROVE  /\ Supplied(vs, L, U) /\ Covered(wasm_stack, vs, L)
             /\ DefinesNext(i) => DefinedIn(vs, T)
  <2>1. Supplied(us, L, T) /\ Covered(wasm_stack, us, L)  BY <1>1, <1>2, <1>5 DEF Sound
  <2>2. \A r \in Sources(i) : r \in L \/ DefinedIn(us, r)
    BY <1>5, <2>1 DEF NewInst, OnStack, Covered
  <2>3. Defines(i) => i.rd \in L \/ (T <= i.rd /\ i.rd < U)
    BY <1>2, <1>5 DEF NewInst
  <2> HIDE DEF L
  <2>4. /\ Supplied(vs, L, U) /\ \A r : DefinedIn(us, r) => DefinedIn(vs, r)
        /\ Defines(i) => DefinedIn(vs, i.rd)
    BY <1>2, <1>3, <2>1, <2>2, <2>3, SuppliedMore
  <2>5. Covered(wasm_stack, vs, L)  BY <2>1, <2>4 DEF Covered
  <2>6. DefinesNext(i) => DefinedIn(vs, T)
    BY <1>2, <1>5, <2>4 DEF DefinesNext, NewInst
  <2> QED BY <2>4, <2>5, <2>6
<1> QED BY <1>2, <1>3, <1>4, <1>5 DEF Sound

\* Which operands are tracked after a step.
StackFrom(s, L, us) ==
    \A k \in DOMAIN s : OnStack(s[k].idx) \/ s[k].idx \in L \/ DefinedIn(us, s[k].idx)

\* A step of the pass whose code is sound with the operands tracked before it.
LEMMA OperandStep ==
    ASSUME TransInv, Going, NEW fit, fit <=> RegistersFit',
           Sound(uinsts', wasm_stack, ToSet(local_map), NextTemp("I32")', fit, OnlyI32),
           fit => StackFrom(wasm_stack', ToSet(local_map), uinsts')
    PROVE  OperandInv'
<1>1. ToSet(local_map') = ToSet(local_map) /\ (OnlyI32' <=> OnlyI32) /\ build' = "returned"
  BY DEF Going, OnlyI32, hierVars
<1>2. fit => Covered(wasm_stack', uinsts', ToSet(local_map))
  BY DEF Sound, Covered, StackFrom, OnStack
<1> QED BY <1>1, <1>2 DEF OperandInv, Sound, Placed

\* The operands left after n pops.
LEMMA KeptFrom ==
    ASSUME TransInv, NEW n \in Nat, n <= Len(wasm_stack)
    PROVE  \A k \in DOMAIN Keep(n) : OnStack(Keep(n)[k].idx)
<1>1. /\ Keep(n) \in Seq(WASM_STACK_ELEM)
      /\ \A k \in 1 .. Len(Keep(n)) : Keep(n)[k] = wasm_stack[k] /\ k \in DOMAIN wasm_stack
  BY KeepFacts DEF TransInv
<1>2. DOMAIN Keep(n) = 1 .. Len(Keep(n))  BY <1>1, SeqBasics
<1> QED BY <1>1, <1>2 DEF OnStack

\* And with one pushed.
LEMMA PushedFrom ==
    ASSUME TransInv, NEW n \in Nat, n <= Len(wasm_stack), NEW e \in WASM_STACK_ELEM,
           NEW s, s = Append(Keep(n), e)
    PROVE  \A k \in DOMAIN s : OnStack(s[k].idx) \/ s[k].idx = e.idx
<1>1. Keep(n) \in Seq(WASM_STACK_ELEM)  BY KeepFacts DEF TransInv
<1>2. PICK m \in Nat : m = Len(Keep(n))  BY <1>1, SeqBasics
<1>3. /\ s \in Seq(WASM_STACK_ELEM) /\ Len(s) = m + 1 /\ s[m+1] = e
      /\ \A k \in 1 .. m : s[k] = Keep(n)[k]
  BY <1>1, <1>2, AppendProperties
<1>4. DOMAIN s = 1 .. m + 1 /\ DOMAIN Keep(n) = 1 .. m  BY <1>1, <1>2, <1>3, SeqBasics
<1>5. \A k \in 1 .. m : OnStack(s[k].idx)  BY <1>3, <1>4, KeptFrom
<1>6. \A k \in 1 .. m + 1 : k \in 1 .. m \/ k = m + 1  OBVIOUS
<1> QED BY <1>3, <1>4, <1>5, <1>6

\* A step that emits one instruction.
LEMMA OperandEmit ==
    ASSUME TransInv, CodeInv, OperandInv, Going, NEW i, NewInst(i), uinsts' = Append(uinsts, i),
           UNCHANGED local_table \/ Push_temp_reg("I32"),
           NEW r, DefinesNext(i) => r = NextTemp("I32"),
           \A k \in DOMAIN wasm_stack' :
              OnStack(wasm_stack'[k].idx) \/ (DefinesNext(i) /\ wasm_stack'[k].idx = r)
    PROVE  OperandInv'
<1>1. uinsts \in Seq(EncodedInst)  BY DEF CodeInv
<1>2. PICK fit : fit \in BOOLEAN /\ (fit <=> RegistersFit')  OBVIOUS
<1>3. Sound(uinsts, wasm_stack, ToSet(local_map), NextTemp("I32"), RegistersFit, OnlyI32)
  BY DEF OperandInv
<1>4. /\ Sound(uinsts', wasm_stack, ToSet(local_map), NextTemp("I32")', RegistersFit', OnlyI32)
      /\ RegistersFit' /\ DefinesNext(i) => DefinedIn(uinsts', NextTemp("I32"))
  BY <1>1, <1>3, SoundMore
<1>5. Sound(uinsts', wasm_stack, ToSet(local_map), NextTemp("I32")', fit, OnlyI32)
  BY <1>2, <1>4 DEF Sound, Placed
<1>6. fit => StackFrom(wasm_stack', ToSet(local_map), uinsts')
  BY <1>2, <1>4 DEF StackFrom
<1> QED BY <1>2, <1>5, <1>6, OperandStep

\* A step that emits none.
LEMMA OperandQuiet ==
    ASSUME TransInv, OperandInv, Going, UNCHANGED <<uinsts, local_table>>,
           \A k \in DOMAIN wasm_stack' :
              OnStack(wasm_stack'[k].idx) \/ wasm_stack'[k].idx \in ToSet(local_map)
    PROVE  OperandInv'
<1>1. PICK fit : fit \in BOOLEAN /\ (fit <=> RegistersFit')  OBVIOUS
<1>2. (RegistersFit' <=> RegistersFit) /\ NextTemp("I32")' = NextTemp("I32")
  <2>1. Get_local_num' = Get_local_num  BY LocalNumNat DEF TransInv, UbhInv
  <2> QED BY <2>1 DEF RegistersFit, NextTemp
<1>3. Sound(uinsts', wasm_stack, ToSet(local_map), NextTemp("I32")', fit, OnlyI32)
  BY <1>1, <1>2 DEF OperandInv, Sound, Placed
<1>4. StackFrom(wasm_stack', ToSet(local_map), uinsts')  BY DEF StackFrom
<1> QED BY <1>1, <1>3, <1>4, OperandStep

\* The actions of the pass.  A jump.
LEMMA OperandJump == ASSUME TransInv, LabelInv, CodeInv, OperandInv, Jump \/ CondJump
                     PROVE  CodeInv' /\ OperandInv'
<1>1. /\ Going /\ Translates(Jumps \cup CondJumps) /\ Continue /\ UNCHANGED local_table
      /\ Target.kind = "LABEL" /\ AddLabel
  BY DEF Jump, CondJump, Translates, Continue, Going, ubhVars
<1>2. PICK l \in Nat : l = Len(label_tab) + 1
  <2>1. Len(label_tab) \in Nat  BY SeqBasics DEF CodeInv
  <2> QED BY <2>1
<1>3. Len(wasm_stack) \in Nat /\ (wasm_stack # <<>> => 1 <= Len(wasm_stack))
  BY <1>1, CurFacts
<1>4. label_tab' \in Seq(LabelEntry)
  <2>1. Cur.imm \in Nat /\ pc \in Nat  BY <1>1, CurFacts DEF TransInv
  <2>2. PICK n \in Nat : n = IF Cur.op \in {"Br", "BrIf"} THEN Cur.imm ELSE 0  BY <2>1
  <2>3. Target = Get_label_index_for_branch(pc, n)  BY <2>2 DEF Target
  <2>4. BlocksInv  BY DEF LabelInv
  <2>5. [pc |-> Target.pc, sym |-> Target.sym] \in LabelEntry
    BY <1>1, <2>1, <2>3, <2>4, LabelTyped
  <2> QED BY <1>1, <2>5, AppendProperties DEF CodeInv, AddLabel
<1>5. CASE Jump
  <2>1. PICK i : i = UInst("UJMP", l, -1, -1, -1) /\ uinsts' = Append(uinsts, i)
    BY <1>2, <1>5 DEF Jump, Emit
  <2>2. NewInst(i)  BY <2>1, JumpNew
  <2>3. CodeInv'  BY <1>1, <1>4, <2>1, <2>2, CodeOne DEF NewInst
  <2>4. wasm_stack' = wasm_stack  BY <1>5 DEF Jump
  <2>5. \A k \in DOMAIN wasm_stack' : OnStack(wasm_stack'[k].idx)  BY <2>4 DEF OnStack
  <2>6. OperandInv'  BY <1>1, <2>1, <2>2, <2>5, OperandEmit
  <2> QED BY <2>3, <2>6
<1>6. CASE CondJump
  <2>1. PICK i : i = UInst("UJNZ", Top(1), -1, -1, l) /\ uinsts' = Append(uinsts, i)
    BY <1>2, <1>6 DEF CondJump, Emit
  <2>2. 1 <= Len(wasm_stack) /\ wasm_stack' = Keep(1)  BY <1>3, <1>6 DEF CondJump
  <2>3. NewInst(i)  BY <1>1, <2>1, <2>2, JumpNew
  <2>4. CodeInv'  BY <1>1, <1>4, <2>1, <2>3, CodeOne DEF NewInst
  <2>5. \A k \in DOMAIN wasm_stack' : OnStack(wasm_stack'[k].idx)  BY <2>2, KeptFrom
  <2>6. OperandInv'  BY <1>1, <2>1, <2>3, <2>5, OperandEmit
  <2> QED BY <2>4, <2>6
<1> QED BY <1>5, <1>6

\* Nothing is emitted: at most an operand is dropped, or a local's register pushed.
LEMMA OperandSkips == ASSUME TransInv, CodeInv, OperandInv, NoJump \/ Skip \/ LocalGet
                      PROVE  CodeInv' /\ OperandInv'
<1>1. PICK ops : /\ Going /\ Translates(ops) /\ Continue
                 /\ UNCHANGED <<local_table, label_tab, uinsts>>
  <2>1. /\ Going /\ Continue /\ UNCHANGED <<local_table, label_tab, uinsts>>
    BY DEF NoJump, Skip, LocalGet, Translates, Continue, Going, ubhVars
  <2>2. \E ops : Translates(ops)  BY DEF NoJump, Skip, LocalGet
  <2> QED BY <2>1, <2>2
<1>2. CodeInv'  BY <1>1, CodeGoesOn DEF CodeInv
<1>3. Len(wasm_stack) \in Nat /\ (wasm_stack # <<>> => 1 <= Len(wasm_stack))
  BY <1>1, CurFacts
<1>4. CASE NoJump \/ Skip
  <2>1. wasm_stack' = wasm_stack \/ (1 <= Len(wasm_stack) /\ wasm_stack' = Keep(1))
    BY <1>3, <1>4 DEF NoJump, Skip
  <2>2. \A k \in DOMAIN wasm_stack' : OnStack(wasm_stack'[k].idx)
    BY <2>1, KeptFrom DEF OnStack
  <2> QED BY <1>1, <1>2, <2>2, OperandQuiet
<1>5. CASE LocalGet
  <2>1. PICK l \in DOMAIN local_map :
            wasm_stack' = Append(wasm_stack, [kind |-> "LOCAL", idx |-> local_map[l]])
    <3>1. Cur.imm + 1 \in DOMAIN local_map  BY <1>1, <1>5, CurFacts DEF LocalGet
    <3> QED BY <1>5, <3>1 DEF LocalGet
  <2>2. PICK e \in WASM_STACK_ELEM : /\ e = [kind |-> "LOCAL", idx |-> local_map[l]]
                                     /\ e.idx \in ToSet(local_map)
    <3>1. local_map[l] \in Nat /\ local_map[l] \in ToSet(local_map)  BY LocalFits
    <3>2. [kind |-> "LOCAL", idx |-> local_map[l]] \in WASM_STACK_ELEM
      BY <3>1 DEF WASM_STACK_ELEM
    <3> QED BY <3>1, <3>2
  <2>3. wasm_stack' = Append(Keep(0), e)
    <3>1. Keep(0) = wasm_stack
      <4>1. /\ Keep(0) \in Seq(WASM_STACK_ELEM) /\ Len(Keep(0)) = Len(wasm_stack)
            /\ \A k \in 1 .. Len(Keep(0)) : Keep(0)[k] = wasm_stack[k]
        BY <1>3, KeepFacts DEF TransInv
      <4> QED BY <4>1, SeqEqual DEF TransInv
    <3> QED BY <2>1, <2>2, <3>1
  <2>4. \A k \in DOMAIN wasm_stack' : OnStack(wasm_stack'[k].idx) \/ wasm_stack'[k].idx = e.idx
    BY <1>3, <2>3, PushedFrom
  <2>5. \A k \in DOMAIN wasm_stack' :
            OnStack(wasm_stack'[k].idx) \/ wasm_stack'[k].idx \in ToSet(local_map)
    BY <2>2, <2>4
  <2> QED BY <1>1, <1>2, <2>5, OperandQuiet
<1> QED BY <1>4, <1>5

\* A move or a store.
LEMMA OperandMoves == ASSUME TransInv, CodeInv, OperandInv, LocalSetTee \/ I32Store
                      PROVE  CodeInv' /\ OperandInv'
<1>1. PICK ops : Going /\ Translates(ops) /\ Continue /\ UNCHANGED <<local_table, label_tab>>
  <2>1. Going /\ Continue /\ UNCHANGED <<local_table, label_tab>>
    BY DEF LocalSetTee, I32Store, Translates, Continue, Going, ubhVars
  <2>2. \E ops : Translates(ops)  BY DEF LocalSetTee, I32Store
  <2> QED BY <2>1, <2>2
<1>2. /\ Cur.imm \in Nat /\ (Cur.imm < Len(local_map) => Cur.imm + 1 \in DOMAIN local_map)
      /\ Len(wasm_stack) \in Nat /\ (wasm_stack # <<>> => 1 <= Len(wasm_stack))
  BY <1>1, CurFacts
<1>3. PICK i : /\ NewInst(i) /\ uinsts' = Append(uinsts, i)
               /\ \A k \in DOMAIN wasm_stack' : OnStack(wasm_stack'[k].idx)
  <2>1. CASE LocalSetTee
    <3>1. PICK l \in DOMAIN local_map : l = Cur.imm + 1  BY <1>2, <2>1 DEF LocalSetTee
    <3>2. uinsts' = Append(uinsts, UInst("UMOV", local_map[l], Top(1), -1, -1))
      BY <2>1, <3>1 DEF LocalSetTee, Emit
    <3>3. 1 <= Len(wasm_stack)  BY <1>2, <2>1 DEF LocalSetTee
    <3>4. NewInst(UInst("UMOV", local_map[l], Top(1), -1, -1))  BY <1>1, <3>3, MovNew
    <3>5. wasm_stack' = wasm_stack \/ wasm_stack' = Keep(1)  BY <2>1 DEF LocalSetTee
    <3>6. \A k \in DOMAIN wasm_stack' : OnStack(wasm_stack'[k].idx)
      BY <3>3, <3>5, KeptFrom DEF OnStack
    <3> QED BY <3>2, <3>4, <3>6
  <2>2. CASE I32Store
    <3>1. uinsts' = Append(uinsts, UInst("I32Store", Top(1), Top(2), Cur.imm, -1))
      BY <2>2 DEF I32Store, Emit
    <3>2. 2 <= Len(wasm_stack) /\ wasm_stack' = Keep(2)  BY <1>2, <2>2 DEF I32Store
    <3>3. NewInst(UInst("I32Store", Top(1), Top(2), Cur.imm, -1))  BY <1>1, <1>2, <3>2, StoreNew
    <3>4. \A k \in DOMAIN wasm_stack' : OnStack(wasm_stack'[k].idx)  BY <3>2, KeptFrom
    <3> QED BY <3>1, <3>3, <3>4
  <2> QED BY <2>1, <2>2
<1>4. CodeInv'  BY <1>1, <1>3, CodeOne DEF CodeInv, NewInst
<1>5. OperandInv'  BY <1>1, <1>3, OperandEmit
<1> QED BY <1>4, <1>5

\* What hands out a temporary.
LEMMA OperandTemp == ASSUME TransInv, CodeInv, OperandInv, I32Load \/ I32Const \/ Binary
                     PROVE  CodeInv' /\ OperandInv'
<1>1. PICK ops : Going /\ Translates(ops) /\ Continue /\ UNCHANGED label_tab /\ Push_temp_reg("I32")
  <2>1. Going /\ Continue /\ UNCHANGED label_tab /\ Push_temp_reg("I32")
    BY DEF I32Load, I32Const, Binary, Translates, Continue, Going, PushTempReg, Push_temp_reg
  <2>2. \E ops : Translates(ops)  BY DEF I32Load, I32Const, Binary
  <2> QED BY <2>1, <2>2
<1>2. /\ Cur.imm \in Nat /\ Len(wasm_stack) \in Nat
      /\ wasm_stack # <<>> => 1 <= Len(wasm_stack)
  BY <1>1, CurFacts
<1>3. PICK n, i : /\ n \in Nat /\ n <= Len(wasm_stack) /\ PushTempReg(n)
                  /\ DefinesNext(i) /\ uinsts' = Append(uinsts, i)
  <2>1. CASE I32Load
    <3>1. uinsts' = Append(uinsts, UInst("I32Load", NextTemp("I32"), Top(1), -1, Cur.imm))
      BY <2>1 DEF I32Load, Emit
    <3>2. 1 <= Len(wasm_stack) /\ PushTempReg(1)  BY <1>2, <2>1 DEF I32Load
    <3>3. DefinesNext(UInst("I32Load", NextTemp("I32"), Top(1), -1, Cur.imm))
      BY <1>1, <1>2, <3>2, LoadNew
    <3> QED BY <3>1, <3>2, <3>3
  <2>2. CASE I32Const
    <3>1. uinsts' = Append(uinsts, UInst("I32Const", NextTemp("I32"), -1, -1, Cur.imm))
      BY <2>2 DEF I32Const, Emit
    <3>2. 0 <= Len(wasm_stack) /\ PushTempReg(0)  BY <1>2, <2>2 DEF I32Const
    <3>3. DefinesNext(UInst("I32Const", NextTemp("I32"), -1, -1, Cur.imm))
      BY <1>1, <1>2, ConstNew
    <3> QED BY <3>1, <3>2, <3>3
  <2>3. CASE Binary
    <3>1. uinsts' = Append(uinsts, UInst(Cur.op, NextTemp("I32"), Top(1), Top(2), -1))
      BY <2>3 DEF Binary, Emit
    <3>2. 2 <= Len(wasm_stack) /\ PushTempReg(2) /\ Cur.op \in Arithmetic
      BY <1>2, <2>3 DEF Binary, Translates
    <3>3. DefinesNext(UInst(Cur.op, NextTemp("I32"), Top(1), Top(2), -1))
      BY <1>1, <3>2, BinaryNew
    <3> QED BY <3>1, <3>2, <3>3
  <2> QED BY <2>1, <2>2, <2>3
<1>4. NewInst(i)  BY <1>3 DEF DefinesNext
<1>5. CodeInv'  BY <1>1, <1>3, <1>4, CodeOne DEF CodeInv, NewInst
<1>6. PICK r \in Nat : r = NextTemp("I32")  BY NextFits
<1>7. PICK e \in WASM_STACK_ELEM : e = [kind |-> "TEMP", idx |-> r] /\ e.idx = r
  <2>1. [kind |-> "TEMP", idx |-> r] \in WASM_STACK_ELEM  BY DEF WASM_STACK_ELEM
  <2>2. [kind |-> "TEMP", idx |-> r].idx = r  OBVIOUS
  <2> QED BY <2>1, <2>2
<1>8. wasm_stack' = Append(Keep(n), e)  BY <1>3, <1>6, <1>7 DEF PushTempReg
<1>9. \A k \in DOMAIN wasm_stack' :
          OnStack(wasm_stack'[k].idx) \/ (DefinesNext(i) /\ wasm_stack'[k].idx = r)
  <2>1. PICK s : s = Append(Keep(n), e)  OBVIOUS
  <2>2. n \in Nat /\ n <= Len(wasm_stack)  BY <1>3
  <2>3. \A k \in DOMAIN s : OnStack(s[k].idx) \/ s[k].idx = e.idx
    BY <2>1, <2>2, PushedFrom
  <2> QED BY <1>3, <1>7, <1>8, <2>1, <2>3
<1>10. OperandInv'  BY <1>1, <1>3, <1>4, <1>6, <1>9, OperandEmit
<1> QED BY <1>5, <1>10

\* The default case.
LEMMA OperandDefault == ASSUME TransInv, CodeInv, OperandInv, Default
                        PROVE  CodeInv' /\ OperandInv'
<1>1. /\ Going /\ Translates(DOMAIN UOPCODE_from_wasm \ Handled) /\ Continue
      /\ UNCHANGED <<local_table, label_tab, wasm_stack>>
  BY DEF Default, Translates, Continue, Going, ubhVars
<1>2. PICK op \in DOMAIN UOPCODE_from_wasm \ Handled : op = Cur.op  BY <1>1, CurFacts
<1>3. PICK i : i = Rand_operand(UOPCODE_from_wasm[op]) /\ uinsts' = Append(uinsts, i)
  BY <1>2 DEF Default, Emit
<1>4. NewInst(i)  BY <1>3, CopiedNew
<1>5. CodeInv'  BY <1>1, <1>3, <1>4, CodeOne DEF CodeInv, NewInst
<1>6. \A k \in DOMAIN wasm_stack' : OnStack(wasm_stack'[k].idx)  BY <1>1 DEF OnStack
<1>7. OperandInv'  BY <1>1, <1>3, <1>4, <1>6, OperandEmit
<1> QED BY <1>5, <1>7

\* A return emits two.
LEMMA OperandReturn == ASSUME TransInv, CodeInv, OperandInv, Return
                       PROVE  CodeInv' /\ OperandInv'
<1>1. /\ Going /\ Translates({"Return"}) /\ Continue /\ UNCHANGED <<local_table, label_tab>>
  BY DEF Return, Translates, Continue, Going, ubhVars
<1>2. 1 <= Len(wasm_stack) /\ wasm_stack' = Keep(1)
  <2>1. Len(wasm_stack) \in Nat /\ (wasm_stack # <<>> => 1 <= Len(wasm_stack))  BY <1>1, CurFacts
  <2> QED BY <2>1 DEF Return
<1>3. PICK i, j : /\ i = UInst("URETURN", Top(1), -1, -1, -1)
                  /\ j = Rand_operand(UOPCODE_from_wasm.Return) /\ uinsts' = uinsts \o <<i, j>>
  BY DEF Return
<1>4. NewInst(i) /\ NewInst(j)  BY <1>2, <1>3, ReturnNew, CopiedNew
<1>5. uinsts \in Seq(EncodedInst) /\ i \in EncodedInst /\ j \in EncodedInst
  BY <1>4 DEF CodeInv, NewInst
<1>6. PICK us : us = Append(uinsts, i)  OBVIOUS
<1>7. uinsts' = Append(us, j)  BY <1>3, <1>5, <1>6
<1>8. NextTemp("I32")' = NextTemp("I32")  BY <1>1, NextFits
<1>9. PICK fit : fit \in BOOLEAN /\ (fit <=> RegistersFit')  OBVIOUS
<1>10. (RegistersFit' <=> RegistersFit)
  <2>1. Get_local_num' = Get_local_num  BY <1>1, LocalNumNat DEF TransInv, UbhInv
  <2> QED BY <2>1 DEF RegistersFit
<1>11. /\ us \in Seq(EncodedInst)
       /\ Sound(us, wasm_stack, ToSet(local_map), NextTemp("I32"), RegistersFit, OnlyI32)
  <2>1. Sound(uinsts, wasm_stack, ToSet(local_map), NextTemp("I32"), RegistersFit, OnlyI32)
    BY DEF OperandInv
  <2>2. /\ us \in Seq(EncodedInst)
        /\ Sound(us, wasm_stack, ToSet(local_map), NextTemp("I32")', RegistersFit', OnlyI32)
    BY <1>1, <1>4, <1>5, <1>6, <2>1, SoundMore
  <2> QED BY <1>8, <1>10, <2>2 DEF Sound, Placed
<1>12. /\ uinsts' \in Seq(EncodedInst)
       /\ Sound(uinsts', wasm_stack, ToSet(local_map), NextTemp("I32")', RegistersFit', OnlyI32)
  BY <1>1, <1>4, <1>7, <1>11, SoundMore
<1>13. CodeInv'  BY <1>1, <1>12, CodeGoesOn DEF CodeInv
<1>14. Sound(uinsts', wasm_stack, ToSet(local_map), NextTemp("I32")', fit, OnlyI32)
  BY <1>9, <1>12 DEF Sound, Placed
<1>15. StackFrom(wasm_stack', ToSet(local_map), uinsts')  BY <1>2, KeptFrom DEF StackFrom
<1>16. OperandInv'  BY <1>1, <1>9, <1>14, <1>15, OperandStep
<1> QED BY <1>13, <1>16

\* Where the pass stops.
LEMMA OperandStays ==
    ASSUME TransInv, CodeInv, OperandInv,
           UNCHANGED <<hierVars, ubhVars, pc, wasm_stack, label_tab, uinsts>>,
           trans' \in {"translating", "translated", "aborted", "undefined"}
    PROVE  CodeInv' /\ OperandInv'
<1>1. UNCHANGED <<ins, build, pc, wasm_stack, label_tab, uinsts, local_map, file, local_table>>
  BY DEF hierVars, ubhVars
<1>2. CodeInv'  BY <1>1 DEF CodeInv
<1>3. (RegistersFit' <=> RegistersFit) /\ NextTemp("I32")' = NextTemp("I32")
  <2>1. Get_local_num' = Get_local_num  BY <1>1, LocalNumNat DEF TransInv, UbhInv
  <2> QED BY <1>1, <2>1 DEF RegistersFit, NextTemp
<1>4. OnlyI32' <=> OnlyI32  BY <1>1 DEF OnlyI32
<1>5. OperandInv'  BY <1>1, <1>3, <1>4 DEF OperandInv, Sound, Placed, Supplied, Covered
<1> QED BY <1>2, <1>5

\* Before anything is emitted there is nothing to supply.
LEMMA SoundNone ==
    ASSUME NEW L, NEW T, NEW fit, NEW apart
    PROVE  Sound(<<>>, <<>>, L, T, fit, apart)
<1>1. \A k \in DOMAIN <<>> : FALSE  OBVIOUS
<1> QED BY <1>1 DEF Sound, Placed, Supplied, Covered

\* The two passes before the translation emit nothing.
LEMMA OperandPrepare == ASSUME TransInv, CodeInv, OperandInv, Prepare PROVE CodeInv' /\ OperandInv'
<1>1. UNCHANGED <<pc, wasm_stack, label_tab, uinsts, trans>>  BY DEF Prepare, transVars
<1>2. build # "returned" /\ UNCHANGED ins
  <2>1. CASE ConstructStep /\ UNCHANGED <<hierVars, transVars>>
    <3>1. ctor # "ready"
      BY <2>1 DEF ConstructStep, ReadParam, ParamsRead, ReadLocal, ReadF64Local, LocalsRead,
                  UnknownType
    <3> QED BY <2>1, <3>1 DEF TransInv, hierVars
  <2>2. CASE HierNext
    <3>1. build = "running"
      BY <2>2 DEF HierNext, OpenBlock, ElseBlock, ElseWithoutIf, EndBlock, EndIgnored,
                  OtherInst, ReturnBlocks, At
    <3>2. ins' = ins
      BY <2>2 DEF HierNext, OpenBlock, ElseBlock, ElseWithoutIf, EndBlock, EndIgnored,
                         Abort, OtherInst, ReturnBlocks
    <3> QED BY <3>1, <3>2
  <2> QED BY <2>1, <2>2 DEF Prepare
<1>3. uinsts = <<>> /\ wasm_stack = <<>> /\ pc = 1  BY <1>2 DEF OperandInv, CodeInv
<1>4. CodeInv'  BY <1>1, <1>2, <1>3 DEF CodeInv
<1>5. PICK L, T, fit, apart :
          /\ L = ToSet(local_map)' /\ T = NextTemp("I32")'
          /\ fit \in BOOLEAN /\ (fit <=> RegistersFit')
          /\ apart \in BOOLEAN /\ (apart <=> OnlyI32')
  OBVIOUS
<1>6. Sound(uinsts', wasm_stack', L, T, fit, apart)  BY <1>1, <1>3, SoundNone
<1>7. OperandInv'  BY <1>1, <1>3, <1>5, <1>6 DEF OperandInv, Sound, Placed
<1> QED BY <1>4, <1>7

\* At the start there are no instructions and no operands.
LEMMA OperandInvInit == TransStart => CodeInv /\ OperandInv
<1> SUFFICES ASSUME TransStart PROVE CodeInv /\ OperandInv
  OBVIOUS
<1>1. /\ pc = 1 /\ uinsts = <<>> /\ label_tab = <<>> /\ wasm_stack = <<>> /\ trans = "translating"
      /\ HierStart
  BY DEF TransStart, BLOCK_INSTR_BEGIN
<1>2. Len(ins) \in Nat
  <2>1. ins \in Seq(Inst)  BY <1>1 DEF HierStart
  <2> QED BY <2>1, SeqBasics
<1>3. CodeInv  BY <1>1, <1>2, EmptySeq DEF CodeInv
<1>4. PICK L, T, fit, apart :
          /\ L = ToSet(local_map) /\ T = NextTemp("I32")
          /\ fit \in BOOLEAN /\ (fit <=> RegistersFit)
          /\ apart \in BOOLEAN /\ (apart <=> OnlyI32)
  OBVIOUS
<1>5. Sound(uinsts, wasm_stack, L, T, fit, apart)  BY <1>1, SoundNone
<1>6. OperandInv  BY <1>1, <1>4, <1>5 DEF OperandInv, Sound, Placed
<1> QED BY <1>3, <1>6

\* Every step of the translation keeps them.
LEMMA OperandInvNext ==
    TransInv /\ LabelInv /\ CodeInv /\ OperandInv /\ [TransNext]_convVars => CodeInv' /\ OperandInv'
<1> SUFFICES ASSUME TransInv, LabelInv, CodeInv, OperandInv, [TransNext]_convVars
             PROVE  CodeInv' /\ OperandInv'
  OBVIOUS
<1>1. CASE Prepare  BY <1>1, OperandPrepare
<1>2. ASSUME NEW how \in {"translated", "aborted", "undefined"}, Stop(how)
      PROVE  CodeInv' /\ OperandInv'
  BY <1>2, OperandStays DEF Stop
<1>3. CASE BranchAborts \/ NoRegister \/ BinaryAborts \/ NotInTable \/ PopsEmptyStack \/ EndOfPass
  BY <1>2, <1>3 DEF BranchAborts, NoRegister, BinaryAborts, NotInTable, PopsEmptyStack, EndOfPass
<1>4. CASE Jump \/ CondJump  BY <1>4, OperandJump
<1>5. CASE NoJump \/ Skip \/ LocalGet  BY <1>5, OperandSkips
<1>6. CASE LocalSetTee \/ I32Store  BY <1>6, OperandMoves
<1>7. CASE I32Load \/ I32Const \/ Binary  BY <1>7, OperandTemp
<1>8. CASE Return  BY <1>8, OperandReturn
<1>9. CASE Default  BY <1>9, OperandDefault
<1>10. CASE UNCHANGED convVars
  BY <1>10, OperandStays DEF convVars, transVars, CodeInv
<1> QED BY <1>1, <1>3, <1>4, <1>5, <1>6, <1>7, <1>8, <1>9, <1>10 DEF TransNext, TranslateStep

\* They hold of every state of the translation.
LEMMA OperandInvariant == TransSpec => [](TransInv /\ LabelInv /\ CodeInv /\ OperandInv)
<1>1. TransStart => LabelInv  BY LabelInvInit
<1>2. TransStart => CodeInv /\ OperandInv  BY OperandInvInit
<1>3. TransInv /\ LabelInv /\ [TransNext]_convVars => LabelInv'  BY LabelInvNext
<1>4. TransInv /\ LabelInv /\ CodeInv /\ OperandInv /\ [TransNext]_convVars => CodeInv' /\ OperandInv'
  BY OperandInvNext
<1> QED BY <1>1, <1>2, <1>3, <1>4, TransInvariant, TransStarts, PTL DEF TransSpec
-----------------------------------------------------------------------------
\* They give the types of the pass.
LEMMA TransTypesNow == TransInv /\ CodeInv => TransTypeOK
<1> SUFFICES ASSUME TransInv, CodeInv PROVE TransTypeOK
  OBVIOUS
<1>1. EncodedInst \subseteq UWASM_INST  BY DEF EncodedInst, UWASM_INST, Fits
<1>2. uinsts \in Seq(UWASM_INST)
  <2>1. PICK E : E = EncodedInst  OBVIOUS
  <2>2. PICK S : S = UWASM_INST  OBVIOUS
  <2>3. E \cup S = S  BY <1>1, <2>1, <2>2
  <2>4. uinsts \in Seq(E \cup S)  BY <2>1, SeqWider DEF CodeInv
  <2> QED BY <2>2, <2>3, <2>4
<1>3. HierTypeOK /\ UbhTypeOK  BY DEF TransInv, HierInv, UbhInv
<1>4. pc \in 1 .. Len(ins) + 1
  <2>1. Len(ins) \in Nat
    <3>1. ins \in Seq(Inst)  BY <1>3 DEF HierTypeOK
    <3> QED BY <3>1, SeqBasics
  <2> QED BY <2>1 DEF TransInv, CodeInv
<1> QED BY <1>2, <1>3, <1>4 DEF TransInv, CodeInv, TransTypeOK, LabelEntry

\* The types of the pass, for every function and every vector of instructions: what an
\* instruction is encoded from is a row of the table and numbers, and a label is a
\* position and a block.
THEOREM TransTypeCorrect == TransSpec => []TransTypeOK
<1>1. TransInv /\ CodeInv => TransTypeOK  BY TransTypesNow
<1> QED BY <1>1, OperandInvariant, PTL

\* They give what an instruction reads.
LEMMA OperandsNow == TransInv /\ OperandInv => (RegistersFit => OperandsDefined)
BY DEF OperandInv, Sound, Supplied, OperandsDefined

\* For every function and every vector of instructions, as long as the registers fit
\* their fields: each register that an instruction of the code reads is a local's or
\* was written by an instruction before it, and each temporary is written by one only.
THEOREM TransOperandsDefined == TransSpec => [](RegistersFit => OperandsDefined)
<1>1. TransInv /\ OperandInv => (RegistersFit => OperandsDefined)  BY OperandsNow
<1> QED BY <1>1, OperandInvariant, PTL
-----------------------------------------------------------------------------
(* The run.                                                                  *)

\* What is known of the code when it runs, none of which the run changes.
ConvInv == TransInv /\ LabelInv /\ CodeInv /\ OperandInv

\* What writes a register whose number the instruction carries.
Writers == {"I32Add", "I32Const", "I32Load"}

\* The translation is over when the run begins, so the code does not change under it;
\* each register written is the one to return or one an instruction names.
RunInv ==
    /\ build # "returned" => trans = "translating"
    /\ vm = "idle" => i32regs = <<>> /\ i64regs = <<>>
    /\ vm # "idle" => trans = "translated"
    /\ xit \in Nat \ {0}
    /\ \A r \in DOMAIN i32regs :
          \/ r = REGISTER_return
          \/ \E m \in DOMAIN uinsts : uinsts[m].op \in Writers /\ uinsts[m].rd = r
    /\ DOMAIN i64regs \subseteq {512}

\* The translation does not go on after its end.
LEMMA TranslatedIsOver ==
    ASSUME TransInv, RunInv, TransNext
    PROVE  trans = "translating" /\ (build' # "returned" => trans' = "translating")
<1>1. CASE Prepare
  <2>1. trans' = trans /\ build # "returned"
    <3>1. CASE ConstructStep /\ UNCHANGED <<hierVars, transVars>>
      <4>1. ctor # "ready"
        BY <3>1 DEF ConstructStep, ReadParam, ParamsRead, ReadLocal, ReadF64Local, LocalsRead,
                    UnknownType
      <4> QED BY <3>1, <4>1 DEF TransInv, transVars
    <3>2. CASE HierNext /\ UNCHANGED <<ubhVars, transVars>>
      <4>1. build = "running"
        BY <3>2 DEF HierNext, OpenBlock, ElseBlock, ElseWithoutIf, EndBlock, EndIgnored,
                    OtherInst, ReturnBlocks, At
      <4> QED BY <3>2, <4>1 DEF transVars
    <3> QED BY <1>1, <3>1, <3>2 DEF Prepare
  <2> QED BY <2>1 DEF RunInv
<1>2. CASE TranslateStep
  <2>1. (\E ops : Translates(ops)) \/ EndOfPass
    BY <1>2, Zenon DEF TranslateStep, BranchAborts, Jump, CondJump, NoJump, Skip, NoRegister,
        LocalGet, LocalSetTee, I32Load, I32Store, I32Const, Binary, BinaryAborts, Return,
        Default, NotInTable, PopsEmptyStack
  <2>2. build = "returned" /\ trans = "translating"  BY <2>1 DEF Translates, EndOfPass
  <2>3. UNCHANGED hierVars
    BY <1>2, Zenon DEF TranslateStep, BranchAborts, Jump, CondJump, NoJump, Skip, NoRegister,
        LocalGet, LocalSetTee, I32Load, I32Store, I32Const, Binary, BinaryAborts, Return,
        Default, NotInTable, PopsEmptyStack, EndOfPass, Stop, Continue
  <2> QED BY <2>2, <2>3 DEF hierVars
<1> QED BY <1>1, <1>2 DEF TransNext

\* The instruction at the iterator.
LEMMA RunAt ==
    ASSUME ConvInv, RunInv, NEW op, Executes(op)
    PROVE  /\ xit \in DOMAIN uinsts /\ CurU = uinsts[xit] /\ CurU.op = op
           /\ CurU \in EncodedInst /\ vm = "running" /\ xit \in 1 .. Len(uinsts)
<1>1. uinsts \in Seq(EncodedInst)  BY DEF ConvInv, CodeInv
<1>2. PICK n \in Nat : n = Len(uinsts) /\ DOMAIN uinsts = 1 .. n  BY <1>1, SeqBasics
<1>3. xit \in 1 .. n  BY <1>2 DEF Executes, RunInv
<1>4. uinsts[xit] \in EncodedInst  BY <1>1, <1>2, <1>3, SeqBasics
<1> QED BY <1>2, <1>3, <1>4 DEF CurU, Executes

\* A step of the run that writes an i32 register.
LEMMA RunWrites ==
    ASSUME ConvInv, RunInv, NEW op, Executes(op), Step, UNCHANGED i64regs,
           NEW r, NEW v, i32regs' = Set_reg(i32regs, r, v),
           r = REGISTER_return \/ (op \in Writers /\ r = CurU.rd)
    PROVE  RunInv'
<1>1. xit \in DOMAIN uinsts /\ CurU = uinsts[xit] /\ CurU.op = op /\ vm = "running"
  BY RunAt
<1>2. DOMAIN i32regs' = DOMAIN i32regs \cup {r}  BY DEF Set_reg
<1>3. UNCHANGED <<uinsts, trans, build, vm>> /\ xit' = xit + 1
  BY DEF Step, convVars, transVars, hierVars
<1>4. \A q \in DOMAIN i32regs' :
          \/ q = REGISTER_return
          \/ \E m \in DOMAIN uinsts : uinsts[m].op \in Writers /\ uinsts[m].rd = q
  BY <1>1, <1>2 DEF RunInv
<1> QED BY <1>1, <1>3, <1>4 DEF RunInv

\* A step of the run that writes none.
LEMMA RunOther ==
    ASSUME ConvInv, RunInv, UNCHANGED <<convVars, i32regs, i64regs>>, xit' \in {xit, xit + 1},
           vm' = vm \/ trans = "translated", vm = "idle" \/ vm' # "idle"
    PROVE  RunInv'
<1>1. UNCHANGED <<uinsts, trans, build>>  BY DEF convVars, transVars, hierVars
<1>2. xit' \in Nat \ {0}  BY DEF RunInv
<1> QED BY <1>1, <1>2 DEF RunInv

\* Every step of the run keeps it.
LEMMA RunInvStep == ASSUME ConvInv, RunInv, NewFrame \/ Execute_function_body PROVE RunInv'
<1>1. CASE NewFrame  BY <1>1, RunOther DEF NewFrame
<1>2. CASE Execute_add
  <2>1. Executes("I32Add") /\ Step /\ UNCHANGED i64regs  BY <1>2 DEF Execute_add
  <2>2. PICK v : i32regs' = Set_reg(i32regs, CurU.rd, v)  BY <1>2 DEF Execute_add
  <2> QED BY <2>1, <2>2, RunWrites DEF Writers
<1>3. CASE Execute_const
  <2>1. Executes("I32Const") /\ Step /\ UNCHANGED i64regs  BY <1>3 DEF Execute_const
  <2>2. PICK v : i32regs' = Set_reg(i32regs, CurU.rd, v)  BY <1>3 DEF Execute_const
  <2> QED BY <2>1, <2>2, RunWrites DEF Writers
<1>4. CASE Execute_load
  <2>1. Executes("I32Load") /\ Step /\ UNCHANGED i64regs  BY <1>4 DEF Execute_load
  <2>2. PICK v : i32regs' = Set_reg(i32regs, CurU.rd, v)  BY <1>4 DEF Execute_load
  <2> QED BY <2>1, <2>2, RunWrites DEF Writers
<1>5. CASE Execute_ret
  <2>1. Executes("URETURN") /\ Step /\ UNCHANGED i64regs  BY <1>5 DEF Execute_ret
  <2>2. PICK v : i32regs' = Set_reg(i32regs, REGISTER_return, v)  BY <1>5 DEF Execute_ret
  <2> QED BY <2>1, <2>2, RunWrites
<1>6. CASE Execute_add64
  <2>1. Executes("I64Add") /\ Step /\ UNCHANGED i32regs  BY <1>6 DEF Execute_add64
  <2>2. xit \in DOMAIN uinsts /\ CurU = uinsts[xit] /\ CurU.op = "I64Add" /\ vm = "running"
    BY <2>1, RunAt
  <2>3. CurU.rd = 512  BY <2>2 DEF ConvInv, OperandInv, Sound, Placed
  <2>4. DOMAIN i64regs' = DOMAIN i64regs \cup {512}
    BY <1>6, <2>3 DEF Execute_add64, Set_reg
  <2>5. UNCHANGED <<uinsts, trans, build, vm>> /\ xit' = xit + 1
    BY <2>1 DEF Step, convVars, transVars, hierVars
  <2> QED BY <2>1, <2>2, <2>4, <2>5 DEF RunInv
<1>7. CASE Execute_store
  <2>1. Executes("I32Store") /\ Step /\ UNCHANGED <<i32regs, i64regs>>  BY <1>7 DEF Execute_store
  <2> QED BY <2>1, RunOther DEF Step, Executes, RunInv
<1>8. CASE OutOfBounds \/ NotImplemented \/ EndOfBody
  <2>1. vm = "running" /\ \E how \in {"undefined", "aborted", "done"} : Halt(how)
    BY <1>8 DEF OutOfBounds, NotImplemented, EndOfBody, Executes
  <2> QED BY <2>1, RunOther DEF Halt, frameVars, RunInv
<1> QED BY <1>1, <1>2, <1>3, <1>4, <1>5, <1>6, <1>7, <1>8 DEF Execute_function_body

\* So does every step of the translation before it.
LEMMA RunInvNext == ConvInv /\ RunInv /\ [ExecNext]_allVars => RunInv'
<1> SUFFICES ASSUME ConvInv, RunInv, [ExecNext]_allVars PROVE RunInv'
  OBVIOUS
<1>1. CASE TransNext /\ UNCHANGED execVars
  <2>1. trans = "translating" /\ (build' # "returned" => trans' = "translating")
    BY <1>1, TranslatedIsOver DEF ConvInv
  <2>2. vm = "idle" /\ i32regs = <<>> /\ i64regs = <<>>  BY <2>1 DEF RunInv
  <2>3. UNCHANGED <<vm, xit, i32regs, i64regs>>  BY <1>1 DEF execVars, frameVars
  <2>4. DOMAIN <<>> = {}  OBVIOUS
  <2> QED BY <2>1, <2>2, <2>3, <2>4 DEF RunInv
<1>2. CASE NewFrame \/ Execute_function_body  BY <1>2, RunInvStep
<1>3. CASE UNCHANGED allVars
  BY <1>3, RunOther DEF allVars, execVars, frameVars
<1> QED BY <1>1, <1>2, <1>3 DEF ExecNext

\* A step of the run leaves the translation alone.
LEMMA RunTranslates == [ExecNext]_allVars => [TransNext]_convVars
<1> SUFFICES ASSUME [ExecNext]_allVars PROVE [TransNext]_convVars
  OBVIOUS
<1>1. CASE NewFrame  BY <1>1 DEF NewFrame
<1>2. CASE Execute_function_body
  BY <1>2 DEF Execute_function_body, Execute_add, Execute_add64, Execute_const, Execute_ret,
              Execute_load, Execute_store, OutOfBounds, NotImplemented, EndOfBody, Step, Halt
<1>3. CASE UNCHANGED allVars  BY <1>3 DEF allVars
<1> QED BY <1>1, <1>2, <1>3 DEF ExecNext

\* Where a conversion starts, for any vector and any function.
ExecStart ==
    /\ TransStart
    /\ vm = "idle" /\ xit = 1
    /\ i32regs = <<>> /\ i64regs = <<>> /\ memory = <<>> /\ junk = 0

\* Those of the specification are among these.
LEMMA ExecStarts == ExecInit => ExecStart
BY TransStarts DEF ExecInit, ExecStart

\* Neither has begun.
LEMMA RunInvInit == ExecStart => RunInv
<1>1. DOMAIN <<>> = {}  OBVIOUS
<1> QED BY <1>1 DEF ExecStart, TransStart, RunInv

\* The invariants of the translation and of the run hold of every state of the handler.
LEMMA RunInvariant == ExecSpec => [](ConvInv /\ RunInv)
<1>1. ExecStart => TransStart /\ RunInv  BY RunInvInit DEF ExecStart
<1>2. TransStart => ConvInv  BY TransInvInit, LabelInvInit, OperandInvInit DEF ConvInv
<1>3. ConvInv /\ [TransNext]_convVars => ConvInv'
  BY TransInvNext, LabelInvNext, OperandInvNext DEF ConvInv
<1>4. ConvInv /\ RunInv /\ [ExecNext]_allVars => RunInv'  BY RunInvNext
<1> QED BY <1>1, <1>2, <1>3, <1>4, RunTranslates, ExecStarts, PTL DEF ExecSpec
-----------------------------------------------------------------------------
\* What the run writes is no register of a local.
LEMMA LocalsNow == ConvInv /\ RunInv => (OnlyI32 /\ RegistersFit => LocalsPreserved)
<1> SUFFICES ASSUME ConvInv, RunInv, OnlyI32, RegistersFit PROVE LocalsPreserved
  OBVIOUS
<1>1. ASSUME NEW r \in DOMAIN i32regs PROVE r \notin ToSet(local_map) \cup {0, 1}
  <2>1. CASE r = REGISTER_return
    <3>1. \A l \in DOMAIN local_map : local_map[l] >= 3
      <4>1. UbhTypeOK /\ RegisterBounds  BY DEF ConvInv, TransInv, UbhInv
      <4>2. DOMAIN local_map = DOMAIN file  BY <4>1, TableFacts
      <4> QED BY <4>1, <4>2 DEF RegisterBounds
    <3> QED BY <2>1, <3>1 DEF ToSet, REGISTER_return
  <2>2. CASE r # REGISTER_return
    <3>1. PICK m \in DOMAIN uinsts : uinsts[m].op \in Writers /\ uinsts[m].rd = r
      BY <2>2 DEF RunInv
    <3>2. Defines(uinsts[m]) /\ uinsts[m].op # "UMOV"
      BY <3>1 DEF Writers, Defines, Arithmetic
    <3>3. r > 3 /\ r \notin ToSet(local_map)
      BY <3>1, <3>2 DEF ConvInv, OperandInv, Sound, Placed
    <3> QED BY <3>3
  <2> QED BY <2>1, <2>2
<1> QED BY <1>1 DEF LocalsPreserved, RunInv

\* For every function without wider parameters and locals, whatever instructions it has
\* and whatever memory holds, as long as the registers fit their fields: the run writes
\* no register of a local and not the two that are to read 0 and 1, and of the 64-bit
\* registers only the one the default case makes up.
THEOREM ExecLocalsPreserved == ExecSpec => [](OnlyI32 /\ RegistersFit => LocalsPreserved)
<1>1. ConvInv /\ RunInv => (OnlyI32 /\ RegistersFit => LocalsPreserved)  BY LocalsNow
<1> QED BY <1>1, RunInvariant, PTL
-----------------------------------------------------------------------------
(* Words and bytes.                                                          *)

IsWeights(f, n) == f = [k \in 0 .. n |-> IF k = 0 THEN 1 ELSE Byte * f[k-1]]

\* Each byte counts a positive number, and there is such a function.
LEMMA WeightsExist ==
    ASSUME NEW n \in Nat
    PROVE  \E f \in [0 .. n -> Nat \ {0}] : IsWeights(f, n)
<1> DEFINE S == {m \in Nat : \E f \in [0 .. m -> Nat \ {0}] : IsWeights(f, m)}
<1>1. 0 \in S
  <2> DEFINE f == [k \in 0 .. 0 |-> 1]
  <2>1. \A k \in 0 .. 0 : k = 0  OBVIOUS
  <2>2. IsWeights(f, 0) /\ f \in [0 .. 0 -> Nat \ {0}]  BY <2>1 DEF IsWeights
  <2> HIDE DEF f
  <2> QED BY <2>2
<1>2. ASSUME NEW m \in Nat, m \in S PROVE m + 1 \in S
  <2>1. PICK f \in [0 .. m -> Nat \ {0}] : IsWeights(f, m)  BY <1>2
  <2>2. \A k \in 0 .. m : f[k] = IF k = 0 THEN 1 ELSE Byte * f[k-1]  BY <2>1 DEF IsWeights
  <2>3. PICK v \in Nat \ {0} : v = Byte * f[m]
    <3>1. PICK a, b \in Nat \ {0} : a = Byte /\ b = f[m]  BY <2>1, ExecutorAssumption
    <3>2. a * b \in Nat \ {0}  OBVIOUS
    <3> QED BY <3>1, <3>2
  <2> DEFINE w == [k \in 0 .. m + 1 |-> IF k = m + 1 THEN v ELSE f[k]]
  <2>4. \A k \in 0 .. m + 1 : w[k] = IF k = m + 1 THEN v ELSE f[k]  OBVIOUS
  <2>5. w \in [0 .. m + 1 -> Nat \ {0}]
    <3>1. \A k \in 0 .. m + 1 : k = m + 1 \/ k \in 0 .. m  OBVIOUS
    <3> QED BY <2>1, <3>1
  <2>6. w = [k \in 0 .. m + 1 |-> w[k]]  OBVIOUS
  <2> HIDE DEF w
  <2>7. ASSUME NEW k \in 0 .. m + 1 PROVE w[k] = IF k = 0 THEN 1 ELSE Byte * w[k-1]
    <3>1. CASE k = 0
      <4>1. 0 \in 0 .. m /\ 0 \in 0 .. m + 1 /\ 0 # m + 1  OBVIOUS
      <4> QED BY <2>2, <2>4, <3>1, <4>1
    <3>2. CASE k = m + 1
      <4>1. k - 1 = m /\ k # 0 /\ m \in 0 .. m + 1 /\ m # m + 1  BY <3>2
      <4>2. w[m] = f[m] /\ w[k] = v  BY <2>4, <3>2, <4>1
      <4> QED BY <2>3, <4>1, <4>2
    <3>3. CASE k # 0 /\ k # m + 1
      <4>1. k \in 0 .. m /\ k - 1 \in 0 .. m + 1 /\ k - 1 # m + 1  BY <3>3
      <4>2. w[k-1] = f[k-1] /\ w[k] = f[k]  BY <2>4, <3>3, <4>1
      <4> QED BY <2>2, <3>3, <4>1, <4>2
    <3> QED BY <3>1, <3>2, <3>3
  <2>8. IsWeights(w, m + 1)  BY <2>6, <2>7 DEF IsWeights
  <2> QED BY <2>5, <2>8
<1>3. \A m \in Nat : m \in S => m + 1 \in S  BY <1>2
<1>4. n \in S
  <2> HIDE DEF S
  <2> QED BY <1>1, <1>3, SetInduction
<1> QED BY <1>4

\* Two such functions agree.
LEMMA WeightsAgree ==
    ASSUME NEW n \in Nat, NEW f, NEW g, IsWeights(f, n), IsWeights(g, n)
    PROVE  f = g
<1>1. /\ \A k \in 0 .. n : f[k] = IF k = 0 THEN 1 ELSE Byte * f[k-1]
      /\ \A k \in 0 .. n : g[k] = IF k = 0 THEN 1 ELSE Byte * g[k-1]
  BY DEF IsWeights
<1> DEFINE S == {k \in Nat : k <= n => f[k] = g[k]}
<1>2. 0 \in S  BY <1>1
<1>3. ASSUME NEW k \in Nat, k \in S PROVE k + 1 \in S
  <2> SUFFICES ASSUME k + 1 <= n PROVE f[k+1] = g[k+1]
    OBVIOUS
  <2>1. k + 1 \in 0 .. n /\ k + 1 # 0 /\ k + 1 - 1 = k /\ k <= n  OBVIOUS
  <2>2. f[k] = g[k]  BY <1>3, <2>1
  <2> QED BY <1>1, <2>1, <2>2
<1>4. \A k \in 0 .. n : f[k] = g[k]
  <2> HIDE DEF S
  <2>1. Nat \subseteq S  BY <1>2, <1>3, SetInduction
  <2> QED BY <2>1 DEF S
<1>5. f = [k \in 0 .. n |-> f[k]] /\ g = [k \in 0 .. n |-> g[k]]  BY DEF IsWeights
<1> QED BY <1>4, <1>5

\* Each byte of a word counts a positive number, and a word has values.
LEMMA WordPositive ==
    /\ ByteWeight \in [0 .. WordBytes -> Nat \ {0}]
    /\ Word \in Nat \ {0}
<1>1. WordBytes \in Nat  BY ExecutorAssumption
<1>2. PICK f \in [0 .. WordBytes -> Nat \ {0}] : IsWeights(f, WordBytes)  BY <1>1, WeightsExist
<1>3. ByteWeight = CHOOSE g : IsWeights(g, WordBytes)  BY Zenon DEF ByteWeight, IsWeights
<1>4. IsWeights(ByteWeight, WordBytes)  BY <1>2, <1>3, Zenon
<1>5. ByteWeight = f  BY <1>1, <1>2, <1>4, WeightsAgree
<1>6. WordBytes \in 0 .. WordBytes  BY <1>1
<1> QED BY <1>2, <1>5, <1>6 DEF Word

IsLow(f, m, a, n) ==
    f = [k \in 0 .. n |-> IF k = 0 THEN 0 ELSE f[k-1] + m[a + k - 1] * ByteWeight[k-1]]

\* There is a sum of every number of bytes.
LEMMA LowExists ==
    ASSUME NEW m, NEW a, NEW n \in Nat
    PROVE  \E f : IsLow(f, m, a, n)
<1> DEFINE S == {j \in Nat : \E f : IsLow(f, m, a, j)}
<1>1. 0 \in S
  <2> DEFINE f == [k \in 0 .. 0 |-> 0]
  <2>1. \A k \in 0 .. 0 : k = 0  OBVIOUS
  <2>2. IsLow(f, m, a, 0)  BY <2>1 DEF IsLow
  <2> HIDE DEF f
  <2> QED BY <2>2
<1>2. ASSUME NEW j \in Nat, j \in S PROVE j + 1 \in S
  <2>1. PICK f : IsLow(f, m, a, j)  BY <1>2
  <2>2. \A k \in 0 .. j : f[k] = IF k = 0 THEN 0 ELSE f[k-1] + m[a + k - 1] * ByteWeight[k-1]
    BY <2>1 DEF IsLow
  <2> DEFINE v == f[j] + m[a + (j + 1) - 1] * ByteWeight[j]
             w == [k \in 0 .. j + 1 |-> IF k = j + 1 THEN v ELSE f[k]]
  <2>3. \A k \in 0 .. j + 1 : w[k] = IF k = j + 1 THEN v ELSE f[k]  OBVIOUS
  <2>4. w = [k \in 0 .. j + 1 |-> w[k]]  OBVIOUS
  <2> HIDE DEF w
  <2>5. ASSUME NEW k \in 0 .. j + 1
        PROVE  w[k] = IF k = 0 THEN 0 ELSE w[k-1] + m[a + k - 1] * ByteWeight[k-1]
    <3>1. CASE k = 0
      <4>1. 0 \in 0 .. j /\ 0 \in 0 .. j + 1 /\ 0 # j + 1  OBVIOUS
      <4> QED BY <2>2, <2>3, <3>1, <4>1
    <3>2. CASE k = j + 1
      <4>1. k - 1 = j /\ k # 0 /\ j \in 0 .. j + 1 /\ j # j + 1  BY <3>2
      <4>2. w[k] = v  BY <2>3, <3>2
      <4>3. w[j] = f[j]  BY <2>3, <4>1
      <4>4. v = f[j] + m[a + k - 1] * ByteWeight[j]  BY <3>2 DEF v
      <4> HIDE DEF v
      <4> QED BY <4>1, <4>2, <4>3, <4>4
    <3>3. CASE k # 0 /\ k # j + 1
      <4>1. k \in 0 .. j /\ k - 1 \in 0 .. j + 1 /\ k - 1 # j + 1  BY <3>3
      <4>2. w[k-1] = f[k-1] /\ w[k] = f[k]  BY <2>3, <3>3, <4>1
      <4> QED BY <2>2, <3>3, <4>1, <4>2
    <3> QED BY <3>1, <3>2, <3>3
  <2>6. IsLow(w, m, a, j + 1)  BY <2>4, <2>5 DEF IsLow
  <2> QED BY <2>6
<1>3. \A j \in Nat : j \in S => j + 1 \in S  BY <1>2
<1>4. n \in S
  <2> HIDE DEF S
  <2> QED BY <1>1, <1>3, SetInduction
<1> QED BY <1>4

\* What a load reads from bytes that are there is a number.
LEMMA ReadWordInt ==
    ASSUME NEW m, NEW a \in Nat, InBounds(a),
           \A b \in 0 .. MemorySize - 1 : m[b] \in 0 .. Byte - 1
    PROVE  ReadWord(m, a) \in Int
<1>1. WordBytes \in Nat /\ MemorySize \in Nat /\ Byte \in Nat  BY ExecutorAssumption
<1> DEFINE f == CHOOSE g : IsLow(g, m, a, WordBytes)
<1>2. IsLow(f, m, a, WordBytes)  BY <1>1, LowExists
<1>3. ReadWord(m, a) = f[WordBytes]  BY Zenon DEF ReadWord, IsLow
<1>4. \A k \in 0 .. WordBytes :
          f[k] = IF k = 0 THEN 0 ELSE f[k-1] + m[a + k - 1] * ByteWeight[k-1]
  BY <1>2 DEF IsLow
<1> HIDE DEF f
<1> DEFINE S == {k \in Nat : k <= WordBytes => f[k] \in Int}
<1>5. 0 \in S
  <2>1. 0 \in 0 .. WordBytes  BY <1>1
  <2> QED BY <1>4, <2>1
<1>6. ASSUME NEW k \in Nat, k \in S PROVE k + 1 \in S
  <2> SUFFICES ASSUME k + 1 <= WordBytes PROVE f[k+1] \in Int
    OBVIOUS
  <2>1. k + 1 \in 0 .. WordBytes /\ k \in 0 .. WordBytes /\ k + 1 # 0 /\ k + 1 - 1 = k
    BY <1>1
  <2>2. a + (k + 1) - 1 \in 0 .. MemorySize - 1  BY <1>1 DEF InBounds
  <2>3. PICK x, y, z \in Int : x = f[k] /\ y = m[a + (k + 1) - 1] /\ z = ByteWeight[k]
    BY <1>1, <1>6, <2>1, <2>2, WordPositive
  <2>4. f[k+1] = x + y * z  BY <1>4, <2>1, <2>3
  <2>5. y * z \in Int  OBVIOUS
  <2> QED BY <2>4, <2>5
<1>7. WordBytes \in S
  <2> HIDE DEF S
  <2> QED BY <1>1, <1>5, <1>6, SetInduction
<1> QED BY <1>1, <1>3, <1>7
-----------------------------------------------------------------------------
(* The types of the frame.                                                   *)

\* A file of registers: ten-bit numbers, each with a word.
RegsOK(regs) ==
    /\ DOMAIN regs \subseteq Fits
    /\ \A r \in DOMAIN regs : regs[r] \in 0 .. Word - 1

BytesOK(m) ==
    /\ DOMAIN m = 0 .. MemorySize - 1
    /\ \A b \in 0 .. MemorySize - 1 : m[b] \in 0 .. Byte - 1

FrameInv ==
    /\ vm \in {"idle", "running", "done", "aborted", "undefined"}
    /\ IF vm = "idle" THEN xit = 1 /\ memory = <<>> ELSE BytesOK(memory)
    /\ xit <= Len(uinsts) + 1
    /\ junk \in Nat
    /\ RegsOK(i32regs) /\ RegsOK(i64regs)

\* Remainders are below what they are taken by.
LEMMA Remainders ==
    /\ \A v \in Int : v % Word \in 0 .. Word - 1
    /\ \A v \in Int : v % Byte \in 0 .. Byte - 1
<1>1. ASSUME NEW d \in Nat \ {0}, NEW v \in Int PROVE v % d \in 0 .. d - 1
  OBVIOUS
<1> QED BY <1>1, WordPositive, ExecutorAssumption

\* What a register holds is a word, written or not.
LEMMA RegValue ==
    ASSUME NEW regs, RegsOK(regs), junk \in Nat, NEW r \in Nat
    PROVE  Get_reg(regs, r) \in 0 .. Word - 1
<1>1. Uninit(r) \in 0 .. Word - 1
  <2>1. junk * (r + 1) \in Int  OBVIOUS
  <2> QED BY <2>1, Remainders DEF Uninit
<1> QED BY <1>1 DEF Get_reg, RegsOK

\* A register file with one more of them written.
LEMMA RegSet ==
    ASSUME NEW regs, RegsOK(regs), NEW r \in Fits, NEW v \in Int
    PROVE  RegsOK(Set_reg(regs, r, v))
<1>1. v % Word \in 0 .. Word - 1  BY Remainders
<1> QED BY <1>1 DEF RegsOK, Set_reg

\* Memory with a word written.
LEMMA WordWritten ==
    ASSUME NEW m, BytesOK(m), NEW a \in Nat, NEW v \in Int
    PROVE  BytesOK(WriteWord(m, a, v))
<1>1. WordBytes \in Nat /\ MemorySize \in Nat  BY ExecutorAssumption
<1>2. ASSUME NEW b \in 0 .. MemorySize - 1, b \in a .. a + WordBytes - 1
      PROVE  (v \div ByteWeight[b - a]) % Byte \in 0 .. Byte - 1
  <2>1. b - a \in 0 .. WordBytes  BY <1>1, <1>2
  <2>2. PICK w \in Nat \ {0} : w = ByteWeight[b - a]  BY <2>1, WordPositive
  <2>3. v \div w \in Int  OBVIOUS
  <2> QED BY <2>2, <2>3, Remainders
<1>3. DOMAIN WriteWord(m, a, v) = 0 .. MemorySize - 1  BY DEF WriteWord, BytesOK
<1>4. ASSUME NEW b \in 0 .. MemorySize - 1 PROVE WriteWord(m, a, v)[b] \in 0 .. Byte - 1
  <2>1. WriteWord(m, a, v)[b] = IF b \in a .. a + WordBytes - 1
                                THEN (v \div ByteWeight[b - a]) % Byte ELSE m[b]
    BY DEF WriteWord, BytesOK
  <2> QED BY <1>2, <2>1 DEF BytesOK
<1> QED BY <1>3, <1>4 DEF BytesOK

\* The next instruction, when one is executed.
LEMMA RunStep ==
    ASSUME ConvInv, RunInv, FrameInv, NEW op, Executes(op)
    PROVE  /\ CurU.rd \in Fits /\ CurU.rs \in Fits /\ CurU.rt \in Fits /\ CurU.ofs \in Nat
           /\ Step => xit' <= Len(uinsts)' + 1 /\ UNCHANGED <<vm, junk>>
           /\ BytesOK(memory) /\ vm = "running"
<1>1. CurU \in EncodedInst /\ vm = "running" /\ xit \in 1 .. Len(uinsts)  BY RunAt
<1>2. Len(uinsts) \in Nat  BY SeqBasics DEF ConvInv, CodeInv
<1>3. Step => xit' = xit + 1 /\ UNCHANGED <<uinsts, vm, junk>>
  BY DEF Step, convVars, transVars
<1> QED BY <1>1, <1>2, <1>3 DEF EncodedInst, FrameInv

\* Every step keeps the types.
LEMMA FrameInvNext ==
    ConvInv /\ ConvInv' /\ RunInv /\ FrameInv /\ [ExecNext]_allVars => FrameInv'
<1> SUFFICES ASSUME ConvInv, ConvInv', RunInv, FrameInv, [ExecNext]_allVars PROVE FrameInv'
  OBVIOUS
<1>1. Fits \subseteq Nat  BY DEF Fits
<1>2. \A w \in 0 .. Word - 1 : w \in Int  OBVIOUS
<1>3. \A regs : RegsOK(regs) => \A r \in Fits : Get_reg(regs, r) \in Int
  BY <1>1, RegValue DEF FrameInv
<1>4. CASE TransNext /\ UNCHANGED execVars
  <2>1. trans = "translating"  BY <1>4, TranslatedIsOver DEF ConvInv
  <2>2. vm = "idle"  BY <2>1 DEF RunInv
  <2>3. UNCHANGED <<vm, xit, i32regs, i64regs, memory, junk>>  BY <1>4 DEF execVars, frameVars
  <2>4. Len(uinsts') \in Nat
    <3>1. uinsts' \in Seq(EncodedInst)  BY DEF ConvInv, CodeInv
    <3> QED BY <3>1, SeqBasics
  <2>5. xit' <= Len(uinsts') + 1  BY <2>2, <2>3, <2>4 DEF FrameInv
  <2> QED BY <2>3, <2>5 DEF FrameInv
<1>5. CASE NewFrame
  <2>1. /\ vm' = "running" /\ junk' \in Nat
        /\ UNCHANGED <<xit, i32regs, i64regs, uinsts>>
    BY <1>5, ExecutorAssumption DEF NewFrame, convVars, transVars
  <2>2. BytesOK(memory')
    <3>1. MemorySize \in Nat  BY ExecutorAssumption
    <3>2. ASSUME NEW a \in 0 .. MemorySize - 1 PROVE (junk' * (a + 1)) % Byte \in 0 .. Byte - 1
      <4>1. junk' * (a + 1) \in Int  BY <2>1, <3>1
      <4> QED BY <4>1, Remainders
    <3> QED BY <1>5, <3>2 DEF NewFrame, BytesOK
  <2> QED BY <2>1, <2>2 DEF FrameInv
<1>6. ASSUME NEW op, Executes(op), Step, RegsOK(i32regs'), RegsOK(i64regs'), BytesOK(memory')
      PROVE  FrameInv'
  BY <1>6, RunStep DEF FrameInv
<1>7. CASE Execute_add \/ Execute_const
  <2>1. PICK op \in {"I32Add", "I32Const"} : Executes(op)
    BY <1>7 DEF Execute_add, Execute_const
  <2>2. PICK v \in Int : i32regs' = Set_reg(i32regs, CurU.rd, v)
    <3>1. CASE Execute_add
      <4>1. PICK x, y \in Int : x = Get_reg(i32regs, CurU.rs) /\ y = Get_reg(i32regs, CurU.rt)
        BY <1>3, <2>1, RunStep DEF FrameInv
      <4>2. x + y \in Int  OBVIOUS
      <4> QED BY <3>1, <4>1, <4>2 DEF Execute_add
    <3>2. CASE Execute_const  BY <2>1, <3>2, RunStep DEF Execute_const
    <3> QED BY <1>7, <3>1, <3>2
  <2>3. Step /\ UNCHANGED <<i64regs, memory>>  BY <1>7 DEF Execute_add, Execute_const
  <2>4. RegsOK(i32regs')  BY <2>1, <2>2, RunStep, RegSet DEF FrameInv
  <2> QED BY <1>6, <2>1, <2>3, <2>4, RunStep DEF FrameInv
<1>8. CASE Execute_add64
  <2>1. Executes("I64Add") /\ Step /\ UNCHANGED <<i32regs, memory>>  BY <1>8 DEF Execute_add64
  <2>2. PICK x, y \in Int : x = Get_reg(i64regs, CurU.rs) /\ y = Get_reg(i64regs, CurU.rt)
    BY <1>3, <2>1, RunStep DEF FrameInv
  <2>3. PICK v \in Int : v = x + y  OBVIOUS
  <2>4. i64regs' = Set_reg(i64regs, CurU.rd, v)  BY <1>8, <2>2, <2>3 DEF Execute_add64
  <2>5. RegsOK(i64regs')  BY <2>1, <2>4, RunStep, RegSet DEF FrameInv
  <2> QED BY <1>6, <2>1, <2>5, RunStep DEF FrameInv
<1>9. CASE Execute_ret
  <2>1. Executes("URETURN") /\ Step /\ UNCHANGED <<i64regs, memory>>  BY <1>9 DEF Execute_ret
  <2>2. PICK v \in Int : v = Get_reg(i32regs, CurU.rd)  BY <1>3, <2>1, RunStep DEF FrameInv
  <2>3. i32regs' = Set_reg(i32regs, 2, v)  BY <1>9, <2>2 DEF Execute_ret, REGISTER_return
  <2>4. 2 \in Fits
    <3>1. 2^REG_SIZE = 1024  BY DEF REG_SIZE
    <3> QED BY <3>1 DEF Fits
  <2>5. RegsOK(i32regs')  BY <2>3, <2>4, RegSet DEF FrameInv
  <2> QED BY <1>6, <2>1, <2>5, RunStep DEF FrameInv
<1>10. ASSUME NEW op, Executes(op) PROVE Address(CurU) \in Nat
  <2>1. PICK x \in Int, y \in Nat : x = Get_reg(i32regs, CurU.rs) /\ y = CurU.ofs
    BY <1>3, <1>10, RunStep DEF FrameInv
  <2>2. x + y \in Int  OBVIOUS
  <2>3. (x + y) % Word \in Nat  BY <2>2, Remainders
  <2> QED BY <2>1, <2>3 DEF Address
<1>11. CASE Execute_load
  <2>1. Executes("I32Load") /\ Step /\ UNCHANGED <<i64regs, memory>> /\ InBounds(Address(CurU))
    BY <1>11 DEF Execute_load
  <2>2. PICK a \in Nat : a = Address(CurU)  BY <1>10, <2>1
  <2>3. BytesOK(memory)  BY <2>1, RunStep
  <2>4. PICK v \in Int : v = ReadWord(memory, a)  BY <2>1, <2>2, <2>3, ReadWordInt DEF BytesOK
  <2>5. i32regs' = Set_reg(i32regs, CurU.rd, v)  BY <1>11, <2>2, <2>4 DEF Execute_load
  <2>6. RegsOK(i32regs')  BY <2>1, <2>5, RunStep, RegSet DEF FrameInv
  <2> QED BY <1>6, <2>1, <2>3, <2>6 DEF FrameInv
<1>12. CASE Execute_store
  <2>1. Executes("I32Store") /\ Step /\ UNCHANGED <<i32regs, i64regs>>
    BY <1>12 DEF Execute_store
  <2>2. PICK a \in Nat, v \in Int : a = Address(CurU) /\ v = Get_reg(i32regs, CurU.rd)
    BY <1>3, <1>10, <2>1, RunStep DEF FrameInv
  <2>3. memory' = WriteWord(memory, a, v)  BY <1>12, <2>2 DEF Execute_store
  <2>4. BytesOK(memory')  BY <2>1, <2>3, RunStep, WordWritten
  <2> QED BY <1>6, <2>1, <2>4 DEF FrameInv
<1>13. CASE OutOfBounds \/ NotImplemented \/ EndOfBody
  <2>1. vm = "running" /\ \E how \in {"undefined", "aborted", "done"} : Halt(how)
    BY <1>13 DEF OutOfBounds, NotImplemented, EndOfBody, Executes
  <2>2. /\ vm' \in {"undefined", "aborted", "done"}
        /\ UNCHANGED <<xit, i32regs, i64regs, memory, junk, uinsts>>
    BY <2>1 DEF Halt, frameVars, convVars, transVars
  <2> QED BY <2>1, <2>2 DEF FrameInv
<1>14. CASE UNCHANGED allVars
  <2>1. UNCHANGED <<vm, xit, i32regs, i64regs, memory, junk, uinsts>>
    BY <1>14 DEF allVars, execVars, frameVars, convVars, transVars
  <2> QED BY <2>1 DEF FrameInv
<1> QED BY <1>4, <1>5, <1>7, <1>8, <1>9, <1>11, <1>12, <1>13, <1>14
        DEF ExecNext, Execute_function_body

\* Before the run the frame is empty.
LEMMA FrameInvInit == ExecStart => FrameInv
<1> SUFFICES ASSUME ExecStart PROVE FrameInv
  OBVIOUS
<1>1. DOMAIN <<>> = {} /\ Len(<<>>) = 0  OBVIOUS
<1>2. uinsts = <<>>  BY DEF ExecStart, TransStart
<1> QED BY <1>1, <1>2 DEF ExecStart, FrameInv, RegsOK

\* It gives the types of the run.
LEMMA FrameTypesNow == ConvInv /\ RunInv /\ FrameInv => ExecTypeOK
<1> SUFFICES ASSUME ConvInv, RunInv, FrameInv PROVE ExecTypeOK
  OBVIOUS
<1>1. xit \in 1 .. Len(uinsts) + 1
  <2>1. Len(uinsts) \in Nat  BY SeqBasics DEF ConvInv, CodeInv
  <2> QED BY <2>1 DEF RunInv, FrameInv
<1>2. \A b \in DOMAIN memory : memory[b] \in 0 .. Byte - 1
  <2>1. CASE vm = "idle"
    <3>1. DOMAIN <<>> = {}  OBVIOUS
    <3> QED BY <2>1, <3>1 DEF FrameInv
  <2>2. CASE vm # "idle"  BY <2>2 DEF FrameInv, BytesOK
  <2> QED BY <2>1, <2>2
<1> QED BY <1>1, <1>2 DEF FrameInv, RegsOK, Fits, ExecTypeOK

\* The types of the frame, whatever the code is that runs in it: every register number
\* has ten bits, every register holds a word and every byte of memory a byte.
THEOREM ExecTypeCorrect == ExecSpec => []ExecTypeOK
<1>1. ConvInv /\ ConvInv' /\ RunInv /\ FrameInv /\ [ExecNext]_allVars => FrameInv'
  BY FrameInvNext
<1>2. ConvInv /\ RunInv /\ FrameInv => ExecTypeOK  BY FrameTypesNow
<1> QED BY <1>1, <1>2, FrameInvInit, RunInvariant, ExecStarts, PTL DEF ExecSpec
=============================================================================
