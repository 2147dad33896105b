--------------------------- MODULE UbhCode_proofs ---------------------------
(***************************************************************************)
(* The register tables for every set of functions and any number of         *)
(* temporaries: types, distinct registers, and a free area for arguments.   *)
(***************************************************************************)
EXTENDS UbhCode, SequenceTheorems, TLAPS

\* A local's register stays at least one below the first temporary the table of
\* its type could give, and every temporary below the next one; temporaries are
\* only handed out once all locals have a register.
RegisterBounds ==
    /\ \A i \in DOMAIN file :
          local_map[i] \in 3 .. Len(local_table[file[i]]) + RET_REG_NUM
    /\ \A j \in DOMAIN temps :
          temps[j].reg < Len(local_table[temps[j].type]) + CONST_REG_NUM + RET_REG_NUM
    /\ temps # <<>> => ctor = "ready"

\* The inductive invariant of the tables.
UbhInv ==
    /\ UbhTypeOK
    /\ RegisterBounds
    /\ RegistersApart

TempRec == [type : NumTypes, reg : Nat]

\* What the type invariant says of lengths and elements.
LEMMA TableFacts ==
    ASSUME UbhTypeOK
    PROVE  /\ \A t \in NumTypes : /\ local_table[t] \in Seq(REG_TY)
                                  /\ Len(local_table[t]) \in Nat
           /\ Len(file) \in Nat /\ DOMAIN file = 1 .. Len(file)
           /\ DOMAIN local_map = DOMAIN file
           /\ \A i \in DOMAIN file : file[i] \in NumTypes /\ local_map[i] \in Nat
           /\ Len(temps) \in Nat /\ DOMAIN temps = 1 .. Len(temps)
           /\ \A j \in DOMAIN temps : temps[j].type \in NumTypes /\ temps[j].reg \in Nat
           /\ Len(func.params) \in Nat /\ Len(func.locals) \in Nat
<1>1. \A t \in NumTypes : local_table[t] \in Seq(REG_TY)  BY DEF UbhTypeOK
<1>2. \A t \in NumTypes : Len(local_table[t]) \in Nat  BY <1>1, LenProperties
<1>3. /\ Len(file) \in Nat /\ DOMAIN file = 1 .. Len(file)
      /\ \A i \in DOMAIN file : file[i] \in NumTypes
  BY LenProperties DEF UbhTypeOK
<1>4. /\ DOMAIN local_map = 1 .. Len(local_map)
      /\ \A i \in DOMAIN local_map : local_map[i] \in Nat
  BY LenProperties DEF UbhTypeOK
<1>5. /\ Len(temps) \in Nat /\ DOMAIN temps = 1 .. Len(temps)
      /\ \A j \in DOMAIN temps : temps[j] \in TempRec
  <2>1. temps \in Seq(TempRec)  BY DEF UbhTypeOK, TempRec
  <2> QED BY <2>1, LenProperties
<1>6. func \in [params : Seq(WasmTypes), locals : Seq(WasmTypes)]
  BY DEF UbhTypeOK, Func_sig
<1>7. Len(func.params) \in Nat /\ Len(func.locals) \in Nat  BY <1>6, LenProperties
<1>8. \A j \in DOMAIN temps : temps[j].type \in NumTypes /\ temps[j].reg \in Nat
  BY <1>5 DEF TempRec
<1>9. DOMAIN local_map = DOMAIN file  BY <1>3, <1>4 DEF UbhTypeOK
<1> QED BY <1>1, <1>2, <1>3, <1>4, <1>5, <1>7, <1>8, <1>9

\* The loop index of either loop stays within the range of the type invariant.
LEMMA IndexBound ==
    ASSUME NEW p \in Nat, NEW l \in Nat, NEW i \in Nat
    PROVE  /\ 0 \in 0 .. p + l
           /\ i < p \/ i < l => i + 1 \in 0 .. p + l
OBVIOUS

\* The registers of one file fit in the sum of all.
LEMMA SumBound ==
    ASSUME NEW a \in Nat, NEW b \in Nat, NEW c \in Nat, NEW d \in Nat
    PROVE  /\ 2 + 2 + a + b + c + d \in Nat
           /\ \A n \in {a, b, c, d} : n + 4 <= 2 + 2 + a + b + c + d
OBVIOUS

\* Where the constructor starts, for any function.
UbhStart ==
    /\ func \in Func_sig
    /\ fi = 0 /\ ctor = "params"
    /\ local_table = [t \in NumTypes |-> <<>>]
    /\ local_map = <<>> /\ file = <<>> /\ temps = <<>>

\* The functions of the specification are among these.
LEMMA UbhStarts == UbhInit => UbhStart
BY FuncsAssumption DEF UbhInit, UbhStart

\* The tables are empty when a function starts.
LEMMA UbhInvInit == UbhStart => UbhInv
<1> SUFFICES ASSUME UbhStart PROVE UbhInv  OBVIOUS
<1>1. func \in [params : Seq(WasmTypes), locals : Seq(WasmTypes)]
  BY DEF UbhStart, Func_sig
<1>2. Len(func.params) \in Nat /\ Len(func.locals) \in Nat  BY <1>1, LenProperties
<1>3. UbhTypeOK
  <2>1. fi \in 0 .. Len(func.params) + Len(func.locals)  BY <1>2, IndexBound DEF UbhStart
  <2>2. \A S : <<>> \in Seq(S)  OBVIOUS
  <2>3. local_table \in [NumTypes -> Seq(REG_TY)]  BY <2>2 DEF UbhStart
  <2> QED BY <2>1, <2>2, <2>3 DEF UbhStart, UbhTypeOK
<1>4. RegisterBounds /\ RegistersApart  BY DEF UbhStart, RegisterBounds, RegistersApart
<1> QED BY <1>3, <1>4 DEF UbhInv

\* A new local is numbered above every register of its type so far.
LEMMA MapLocalPreserves ==
    ASSUME UbhInv, temps = <<>>, NEW t \in NumTypes, NEW kind \in REG_TY, MapLocal(t, kind),
           fi + 1 \in 0 .. Len(func.params) + Len(func.locals)
    PROVE  UbhInv'
<1> DEFINE n == Len(file) + 1
           r == Len(local_table[t]) + 1 + RET_REG_NUM
<1>1. UbhTypeOK  BY DEF UbhInv
<1>2. Len(local_table[t]) \in Nat /\ r \in Nat /\ r = Len(local_table[t]) + 3
  BY <1>1, TableFacts DEF RET_REG_NUM
<1>3. /\ file' \in Seq(NumTypes) /\ Len(file') = n /\ DOMAIN file' = 1 .. n
      /\ file'[n] = t /\ \A i \in 1 .. n - 1 : file'[i] = file[i]
  BY <1>1, AppendProperties, TableFacts DEF MapLocal, UbhTypeOK
<1>4. /\ local_map' \in Seq(Nat) /\ Len(local_map') = n
      /\ local_map'[n] = r /\ \A i \in 1 .. n - 1 : local_map'[i] = local_map[i]
  BY <1>1, <1>2, AppendProperties, TableFacts DEF MapLocal, UbhTypeOK
<1>5. /\ local_table' \in [NumTypes -> Seq(REG_TY)]
      /\ Len(local_table'[t]) = Len(local_table[t]) + 1
      /\ \A u \in NumTypes \ {t} : local_table'[u] = local_table[u]
  BY <1>1, AppendProperties, TableFacts DEF MapLocal, UbhTypeOK
<1>6. UbhTypeOK'
  BY <1>1, <1>3, <1>4, <1>5 DEF UbhTypeOK, MapLocal
<1>7. Len(file) \in Nat /\ \A i \in 1 .. n - 1 : i \in DOMAIN file /\ file[i] \in NumTypes
  BY <1>1, TableFacts
<1>8. temps' = <<>>  BY DEF MapLocal
<1>9. RegisterBounds'
  <2>1. ASSUME NEW i \in DOMAIN file'
        PROVE  local_map'[i] \in 3 .. Len(local_table'[file'[i]]) + RET_REG_NUM
    <3>1. CASE i = n
      BY <1>2, <1>3, <1>4, <1>5, <3>1, SMTT(30) DEF RET_REG_NUM
    <3>2. CASE i # n
      <4>1. i \in 1 .. n - 1  BY <1>3, <1>7, <3>2
      <4>2. local_map[i] \in 3 .. Len(local_table[file[i]]) + 2
        BY <1>7, <4>1 DEF UbhInv, RegisterBounds, RET_REG_NUM
      <4>3. Len(local_table'[file[i]]) \in {Len(local_table[file[i]]), Len(local_table[file[i]]) + 1}
        BY <1>5, <1>7, <4>1
      <4>4. Len(local_table[file[i]]) \in Nat  BY <1>1, <1>7, <4>1, TableFacts
      <4>5. file'[i] = file[i] /\ local_map'[i] = local_map[i]  BY <1>3, <1>4, <4>1
      <4> QED BY <4>2, <4>3, <4>4, <4>5 DEF RET_REG_NUM
    <3> QED BY <3>1, <3>2
  <2> QED BY <1>8, <2>1 DEF RegisterBounds
<1>10. RegistersApart'
  <2>1. \A i \in 1 .. n - 1 : file[i] = t => local_map[i] < r
    BY <1>1, <1>2, <1>7, TableFacts DEF UbhInv, RegisterBounds, RET_REG_NUM
  <2>2. \A i, j \in 1 .. n - 1 : i # j /\ file[i] = file[j] => local_map[i] # local_map[j]
    BY <1>7 DEF UbhInv, RegistersApart
  <2>3. \A i \in 1 .. n - 1 : local_map[i] \in Nat  BY <1>1, <1>7, TableFacts
  <2>4. ASSUME NEW i \in DOMAIN file', NEW j \in DOMAIN file', i # j, file'[i] = file'[j]
        PROVE  local_map'[i] # local_map'[j]
    <3>1. CASE i # n /\ j # n
      <4>1. i \in 1 .. n - 1 /\ j \in 1 .. n - 1  BY <1>3, <1>7, <3>1
      <4> QED BY <1>3, <1>4, <2>2, <2>4, <4>1
    <3>2. CASE i = n
      <4>1. j \in 1 .. n - 1  BY <1>3, <1>7, <2>4, <3>2
      <4>2. local_map[j] < r /\ local_map[j] \in Nat  BY <1>3, <2>1, <2>3, <2>4, <3>2, <4>1
      <4> QED BY <1>2, <1>4, <3>2, <4>1, <4>2
    <3>3. CASE j = n
      <4>1. i \in 1 .. n - 1  BY <1>3, <1>7, <2>4, <3>3
      <4>2. local_map[i] < r /\ local_map[i] \in Nat  BY <1>3, <2>1, <2>3, <2>4, <3>3, <4>1
      <4> QED BY <1>2, <1>4, <3>3, <4>1, <4>2
    <3> QED BY <3>1, <3>2, <3>3
  <2> QED BY <1>8, <2>4 DEF RegistersApart
<1> QED BY <1>6, <1>9, <1>10 DEF UbhInv

\* A temporary is numbered above every local and every temporary of its type.
LEMMA PushTempPreserves ==
    ASSUME UbhInv, ctor = "ready", NEW t \in NumTypes, Push_temp_reg(t)
    PROVE  UbhInv'
<1> DEFINE n == Len(temps) + 1
           r == NextTemp(t)
<1>1. UbhTypeOK  BY DEF UbhInv
<1>2. Len(local_table[t]) \in Nat /\ r \in Nat /\ r = Len(local_table[t]) + 4
  BY <1>1, TableFacts DEF RET_REG_NUM, CONST_REG_NUM, NextTemp
<1>3. /\ temps' \in Seq(TempRec) /\ Len(temps') = n /\ DOMAIN temps' = 1 .. n
      /\ temps'[n].type = t /\ temps'[n].reg = r
      /\ \A j \in 1 .. n - 1 : temps'[j] = temps[j]
  <2>1. [type |-> t, reg |-> r] \in TempRec  BY <1>2 DEF TempRec
  <2>2. temps \in Seq(TempRec) /\ temps' = Append(temps, [type |-> t, reg |-> r])
    BY <1>1 DEF UbhTypeOK, Func_sig, TempRec, Push_temp_reg
  <2> HIDE DEF r
  <2>3. /\ temps' \in Seq(TempRec) /\ Len(temps') = n
        /\ temps'[n] = [type |-> t, reg |-> r]
        /\ \A j \in 1 .. Len(temps) : temps'[j] = temps[j]
    BY <2>1, <2>2, AppendProperties
  <2>4. DOMAIN temps' = 1 .. n  BY <2>3, LenProperties
  <2> QED BY <1>1, <2>3, <2>4, TableFacts
<1>4. /\ local_table' \in [NumTypes -> Seq(REG_TY)]
      /\ Len(local_table'[t]) = Len(local_table[t]) + 1
      /\ \A u \in NumTypes \ {t} : local_table'[u] = local_table[u]
  BY <1>1, AppendProperties, TableFacts DEF Push_temp_reg, UbhTypeOK, REG_TY
<1>5. /\ UNCHANGED <<func, fi, ctor, local_map, file>>
  BY DEF Push_temp_reg
<1>6. UbhTypeOK'  BY <1>1, <1>3, <1>4, <1>5 DEF UbhTypeOK, TempRec
<1>7. ASSUME NEW u \in NumTypes
      PROVE  /\ Len(local_table[u]) \in Nat
             /\ Len(local_table'[u]) \in Nat
             /\ Len(local_table[u]) <= Len(local_table'[u])
  <2>1. CASE u = t  BY <1>2, <1>4, <2>1
  <2>2. CASE u # t  BY <1>1, <1>4, <2>2, TableFacts
  <2> QED BY <2>1, <2>2
<1>8. Len(temps) \in Nat /\ \A j \in 1 .. n - 1 : /\ j \in DOMAIN temps
                                                  /\ temps[j].type \in NumTypes
                                                  /\ temps[j].reg \in Nat
  BY <1>1, TableFacts
<1>9. \A i \in DOMAIN file : file[i] \in NumTypes /\ local_map[i] \in Nat
  BY <1>1, TableFacts
<1>10. RegisterBounds'
  <2>1. \A i \in DOMAIN file' :
          local_map'[i] \in 3 .. Len(local_table'[file'[i]]) + RET_REG_NUM
    BY <1>5, <1>7, <1>9 DEF UbhInv, RegisterBounds, RET_REG_NUM
  <2>2. ASSUME NEW j \in DOMAIN temps'
        PROVE  temps'[j].reg < Len(local_table'[temps'[j].type]) + CONST_REG_NUM + RET_REG_NUM
    <3>1. CASE j = n
      BY <1>2, <1>3, <1>4, <3>1 DEF CONST_REG_NUM, RET_REG_NUM
    <3>2. CASE j # n
      <4>1. j \in 1 .. n - 1  BY <1>3, <1>8, <3>2
      <4>2. temps[j].reg < Len(local_table[temps[j].type]) + 2 + 2
        BY <1>8, <4>1 DEF UbhInv, RegisterBounds, CONST_REG_NUM, RET_REG_NUM
      <4> QED BY <1>3, <1>7, <1>8, <4>1, <4>2 DEF CONST_REG_NUM, RET_REG_NUM
    <3> QED BY <3>1, <3>2
  <2> QED BY <1>5, <2>1, <2>2 DEF RegisterBounds
<1>11. RegistersApart'
  <2>1. \A j \in 1 .. n - 1 : temps[j].type = t => temps[j].reg < r
    BY <1>2, <1>8 DEF UbhInv, RegisterBounds, CONST_REG_NUM, RET_REG_NUM
  <2>2. \A i \in DOMAIN file : file[i] = t => local_map[i] < r
    BY <1>2, <1>9 DEF UbhInv, RegisterBounds, RET_REG_NUM
  <2>3. ASSUME NEW i \in DOMAIN temps', NEW j \in DOMAIN temps', i # j,
               temps'[i].type = temps'[j].type
        PROVE  temps'[i].reg # temps'[j].reg
    <3>1. CASE i # n /\ j # n
      BY <1>3, <1>8, <2>3, <3>1 DEF UbhInv, RegistersApart
    <3>2. CASE i = n
      <4>1. j \in 1 .. n - 1  BY <1>3, <1>8, <2>3, <3>2
      <4> QED BY <1>2, <1>3, <1>8, <2>1, <2>3, <3>2, <4>1
    <3>3. CASE j = n
      <4>1. i \in 1 .. n - 1  BY <1>3, <1>8, <2>3, <3>3
      <4> QED BY <1>2, <1>3, <1>8, <2>1, <2>3, <3>3, <4>1
    <3> QED BY <3>1, <3>2, <3>3
  <2>4. ASSUME NEW i \in DOMAIN file, NEW j \in DOMAIN temps', file[i] = temps'[j].type
        PROVE  local_map[i] # temps'[j].reg
    <3>1. CASE j = n
      BY <1>2, <1>3, <1>9, <2>2, <2>4, <3>1
    <3>2. CASE j # n
      <4>1. j \in 1 .. n - 1  BY <1>3, <1>8, <3>2
      <4> QED BY <1>3, <1>8, <2>4, <4>1 DEF UbhInv, RegistersApart
    <3> QED BY <3>1, <3>2
  <2> QED BY <1>5, <2>3, <2>4 DEF UbhInv, RegistersApart
<1> QED BY <1>6, <1>10, <1>11 DEF UbhInv

\* Every step on the tables keeps their invariant.
LEMMA UbhInvNext == UbhInv /\ [UbhNext]_ubhVars => UbhInv'
<1> SUFFICES ASSUME UbhInv, [UbhNext]_ubhVars PROVE UbhInv'  OBVIOUS
<1>1. UbhTypeOK  BY DEF UbhInv
<1>2. Len(func.params) \in Nat /\ Len(func.locals) \in Nat /\ fi \in Nat
  BY <1>1, TableFacts DEF UbhTypeOK
<1>3. ctor # "ready" => temps = <<>>  BY DEF UbhInv, RegisterBounds
<1>4. CASE ReadParam
  <2>1. fi + 1 \in 0 .. Len(func.params) + Len(func.locals)  BY <1>2, <1>4, IndexBound DEF ReadParam
  <2> QED BY <1>3, <1>4, <2>1, MapLocalPreserves DEF ReadParam, REG_TY
<1>5. CASE ParamsRead
  <2>1. 0 \in 0 .. Len(func.params) + Len(func.locals)  BY <1>2, IndexBound
  <2>2. UbhTypeOK'  BY <1>1, <1>5, <2>1 DEF ParamsRead, UbhTypeOK
  <2> QED BY <1>3, <1>5, <2>2 DEF ParamsRead, UbhInv, RegisterBounds, RegistersApart
<1>6. CASE ReadLocal
  <2>1. fi + 1 \in 0 .. Len(func.params) + Len(func.locals)  BY <1>2, <1>6, IndexBound DEF ReadLocal
  <2> QED BY <1>3, <1>6, <2>1, MapLocalPreserves DEF ReadLocal, REG_TY
<1>7. CASE ReadF64Local
  <2> DEFINE two == <<"LOCAL", "FORMAL_PARAM">>
  <2>1. two \in Seq(REG_TY) /\ Len(two) = 2  BY DEF REG_TY
  <2>2. local_table["F64"] \in Seq(REG_TY) /\ Len(local_table["F64"]) \in Nat
    BY <1>1, TableFacts DEF NumTypes
  <2>3. local_table' = [local_table EXCEPT !["F64"] = @ \o two]  BY <1>7 DEF ReadF64Local
  <2> HIDE DEF two
  <2>4. /\ local_table["F64"] \o two \in Seq(REG_TY)
        /\ Len(local_table["F64"] \o two) = Len(local_table["F64"]) + 2
    <3>1. /\ local_table["F64"] \o two \in Seq(REG_TY)
          /\ Len(local_table["F64"] \o two) = Len(local_table["F64"]) + Len(two)
      BY ONLY <2>1, <2>2, ConcatProperties
    <3> QED BY <2>1, <3>1
  <2>5. /\ local_table' \in [NumTypes -> Seq(REG_TY)]
        /\ local_table'["F64"] = local_table["F64"] \o two
        /\ \A u \in NumTypes \ {"F64"} : local_table'[u] = local_table[u]
    BY <1>1, <2>3, <2>4 DEF UbhTypeOK, NumTypes
  <2>6. ASSUME NEW u \in NumTypes
        PROVE  /\ Len(local_table[u]) \in Nat
               /\ Len(local_table'[u]) \in Nat
               /\ Len(local_table[u]) <= Len(local_table'[u])
    <3>1. CASE u = "F64"  BY <2>2, <2>4, <2>5, <3>1
    <3>2. CASE u # "F64"  BY <1>1, <2>5, <3>2, TableFacts
    <3> QED BY <3>1, <3>2
  <2>7. temps = <<>> /\ UNCHANGED <<func, ctor, local_map, file, temps>> /\ fi' = fi + 1
    BY <1>3, <1>7 DEF ReadF64Local
  <2>8. UbhTypeOK'
    <3>1. fi' \in 0 .. Len(func.params) + Len(func.locals)
      BY <1>2, <1>7, <2>7, IndexBound DEF ReadF64Local
    <3> QED BY <1>1, <2>5, <2>7, <3>1 DEF UbhTypeOK
  <2>9. \A i \in DOMAIN file : file[i] \in NumTypes /\ local_map[i] \in Nat
    BY <1>1, TableFacts
  <2>10. RegisterBounds'
    BY <2>6, <2>7, <2>9 DEF UbhInv, RegisterBounds, RET_REG_NUM
  <2> QED BY <2>7, <2>8, <2>10 DEF UbhInv, RegistersApart
<1>8. CASE LocalsRead
  BY <1>8, ZenonT(60) DEF LocalsRead, UbhInv, UbhTypeOK, RegisterBounds, RegistersApart
<1>9. CASE UnknownType
  BY <1>3, <1>9, ZenonT(60) DEF UnknownType, UbhInv, UbhTypeOK, RegisterBounds, RegistersApart
<1>10. CASE PushTemp
  BY <1>10, PushTempPreserves DEF PushTemp
<1>11. CASE UNCHANGED ubhVars
  BY <1>11, ZenonT(60) DEF ubhVars, UbhInv, UbhTypeOK, RegisterBounds, RegistersApart
<1> QED BY <1>4, <1>5, <1>6, <1>7, <1>8, <1>9, <1>10, <1>11 DEF UbhNext, ConstructStep

\* The invariant holds of every state of the tables.
LEMMA UbhInvariant == UbhSpec => []UbhInv
<1>1. UbhStart => UbhInv  BY UbhInvInit
<1>2. UbhInv /\ [UbhNext]_ubhVars => UbhInv'  BY UbhInvNext
<1> QED BY <1>1, <1>2, UbhStarts, PTL DEF UbhSpec

\* Get_local_num counts every table, so it is above each table's last register.
LEMMA ParamAreaAbove == UbhInv => ParamAreaFree
<1> SUFFICES ASSUME UbhInv PROVE ParamAreaFree  OBVIOUS
<1>1. UbhTypeOK  BY DEF UbhInv
<1>2. \A t \in NumTypes : local_table[t] \in Seq(REG_TY) /\ Len(local_table[t]) \in Nat
  BY <1>1, TableFacts
<1>3. /\ Get_local_num \in Nat
      /\ \A t \in NumTypes : Len(local_table[t]) + 4 <= Get_local_num
  <2>1. /\ Len(local_table["I32"]) \in Nat /\ Len(local_table["I64"]) \in Nat
        /\ Len(local_table["F32"]) \in Nat /\ Len(local_table["F64"]) \in Nat
    BY <1>2 DEF NumTypes
  <2> QED BY <2>1, SumBound DEF Get_local_num, CONST_REG_NUM, RET_REG_NUM, NumTypes
<1>4. ASSUME NEW i \in DOMAIN local_map PROVE local_map[i] < Get_local_num
  <2>1. i \in DOMAIN file /\ file[i] \in NumTypes /\ local_map[i] \in Nat
    BY <1>1, TableFacts
  <2>2. local_map[i] \in 3 .. Len(local_table[file[i]]) + 2
    BY <2>1 DEF UbhInv, RegisterBounds, RET_REG_NUM
  <2> QED BY <1>2, <1>3, <2>1, <2>2
<1>5. ASSUME NEW j \in DOMAIN temps PROVE temps[j].reg < Get_local_num
  <2>1. temps[j].type \in NumTypes /\ temps[j].reg \in Nat  BY <1>1, TableFacts
  <2>2. temps[j].reg < Len(local_table[temps[j].type]) + 2 + 2
    BY DEF UbhInv, RegisterBounds, CONST_REG_NUM, RET_REG_NUM
  <2> QED BY <1>2, <1>3, <2>1, <2>2
<1> QED BY <1>4, <1>5 DEF ParamAreaFree
-----------------------------------------------------------------------------
\* The tables stay well typed for every function, whatever types it declares.
THEOREM UbhTypeCorrect == UbhSpec => []UbhTypeOK
<1>1. UbhInv => UbhTypeOK  BY DEF UbhInv
<1> QED BY <1>1, UbhInvariant, PTL

\* For every function and any number of temporaries, no two locals read into one
\* register file, no two temporaries of a type, and no local and temporary of it
\* share a register.
THEOREM UbhRegistersApart == UbhSpec => []RegistersApart
<1>1. UbhInv => RegistersApart  BY DEF UbhInv
<1> QED BY <1>1, UbhInvariant, PTL

\* The registers from Get_local_num on are free in every file.
THEOREM UbhParamAreaFree == UbhSpec => []ParamAreaFree
<1>1. UbhInv => ParamAreaFree  BY ParamAreaAbove
<1> QED BY <1>1, UbhInvariant, PTL
-----------------------------------------------------------------------------
(* Where the second loop reads the types it means to, every local read so    *)
(* far stands in the tables at its own place, under the type wasm gives it.  *)

Declared(i) == IF i <= Len(func.params) THEN func.params[i]
               ELSE func.locals[i - Len(func.params)]

\* Past the parameters come the locals.
LEMMA DeclaredLocal ==
    ASSUME NEW i, ~(i <= Len(func.params))
    PROVE  Declared(i) = func.locals[i - Len(func.params)]
BY Zenon DEF Declared

LocalsInv ==
    ReadsItsLocals =>
        /\ ctor = "params" => fi <= Len(func.params) /\ Len(file) = fi
        /\ ctor = "locals" => fi <= Len(func.locals) /\ Len(file) = Len(func.params) + fi
        /\ ctor = "ready"  => Len(file) = Len(func.params) + Len(func.locals)
        /\ \A i \in 1 .. Len(file) : file[i] = Declared(i)

\* The type read next is appended to the types read.
LEMMA MapLocalKeeps ==
    ASSUME UbhTypeOK, NEW t \in NumTypes, NEW kind, MapLocal(t, kind),
           t = Declared(Len(file) + 1),
           \A i \in 1 .. Len(file) : file[i] = Declared(i)
    PROVE  /\ Len(file') = Len(file) + 1 /\ fi' = fi + 1 /\ func' = func /\ ctor' = ctor
           /\ \A i \in 1 .. Len(file') : file'[i] = Declared(i)
<1>1. file \in Seq(NumTypes) /\ Len(file) \in Nat  BY TableFacts DEF UbhTypeOK
<1>2. /\ file' = Append(file, t) /\ fi' = fi + 1 /\ func' = func /\ ctor' = ctor
  BY DEF MapLocal
<1>3. /\ Len(file') = Len(file) + 1 /\ file'[Len(file) + 1] = t
      /\ \A i \in 1 .. Len(file) : file'[i] = file[i]
  BY <1>1, <1>2, AppendProperties
<1>4. 1 .. Len(file') = 1 .. Len(file) \cup {Len(file) + 1}  BY <1>1, <1>3
<1> QED BY <1>2, <1>3, <1>4

\* Every step keeps the locals at their places.
LEMMA LocalsInvNext == UbhInv /\ LocalsInv /\ [UbhNext]_ubhVars => LocalsInv'
<1> SUFFICES ASSUME UbhInv, LocalsInv, [UbhNext]_ubhVars PROVE LocalsInv'
  OBVIOUS
<1>1. UbhTypeOK  BY DEF UbhInv
<1>2. /\ Len(func.params) \in Nat /\ Len(func.locals) \in Nat /\ fi \in Nat
      /\ Len(file) \in Nat
  BY <1>1, TableFacts DEF UbhTypeOK
<1>3. func' = func
  BY DEF UbhNext, ConstructStep, ReadParam, ReadLocal, MapLocal, ParamsRead, ReadF64Local,
         LocalsRead, UnknownType, PushTemp, Push_temp_reg, ubhVars
<1>4. ReadsItsLocals' = ReadsItsLocals /\ \A i : Declared(i)' = Declared(i)
  BY <1>3 DEF ReadsItsLocals, GetLocalType, Declared
<1> SUFFICES ASSUME ReadsItsLocals
             PROVE  /\ ctor' = "params" => fi' <= Len(func.params) /\ Len(file') = fi'
                    /\ ctor' = "locals" => /\ fi' <= Len(func.locals)
                                          /\ Len(file') = Len(func.params) + fi'
                    /\ ctor' = "ready" => Len(file') = Len(func.params) + Len(func.locals)
                    /\ \A i \in 1 .. Len(file') : file'[i] = Declared(i)
  BY <1>3, <1>4 DEF LocalsInv
<1>5. /\ ctor = "params" => fi <= Len(func.params) /\ Len(file) = fi
      /\ ctor = "locals" => fi <= Len(func.locals) /\ Len(file) = Len(func.params) + fi
      /\ ctor = "ready" => Len(file) = Len(func.params) + Len(func.locals)
      /\ \A i \in 1 .. Len(file) : file[i] = Declared(i)
  BY DEF LocalsInv
<1>6. CASE ReadParam
  <2>1. ctor = "params" /\ fi < Len(func.params) /\ TypeRead = func.params[fi + 1]
    BY <1>6 DEF ReadParam, TypeRead
  <2>2. Len(file) = fi  BY <1>5, <2>1
  <2>3. TypeRead = Declared(Len(file) + 1)  BY <1>2, <2>1, <2>2 DEF Declared
  <2>4. TypeRead \in NumTypes /\ MapLocal(TypeRead, "FORMAL_PARAM")  BY <1>6 DEF ReadParam
  <2> HIDE DEF TypeRead
  <2>5. /\ Len(file') = Len(file) + 1 /\ fi' = fi + 1 /\ ctor' = ctor
        /\ \A i \in 1 .. Len(file') : file'[i] = Declared(i)
    BY <1>1, <1>5, <2>3, <2>4, MapLocalKeeps
  <2> QED BY <1>2, <2>1, <2>2, <2>5
<1>7. CASE ParamsRead
  <2>1. /\ ctor = "params" /\ fi = Len(func.params) /\ ctor' = "locals" /\ fi' = 0
        /\ file' = file
    BY <1>7 DEF ParamsRead
  <2> QED BY <1>2, <1>5, <2>1
<1>8. CASE ReadLocal \/ ReadF64Local
  <2>1. /\ ctor = "locals" /\ fi < Len(func.locals) /\ TypeRead = GetLocalType(fi)
    BY <1>8 DEF ReadLocal, ReadF64Local, TypeRead
  <2>2. Len(file) = Len(func.params) + fi  BY <1>5, <2>1
  <2>3. TypeRead = func.locals[fi + 1] /\ TypeRead # "F64"
    BY <1>2, <2>1 DEF ReadsItsLocals
  <2> DEFINE p == Len(func.params)
             l == Len(func.locals)
             q == Len(file)
  <2>4. p \in Nat /\ l \in Nat /\ fi \in Nat /\ q = p + fi /\ fi < l  BY <1>2, <2>1, <2>2
  <2>5. TypeRead = Declared(q + 1)
    <3> HIDE DEF TypeRead, p, q
    <3>1. \A i : ~(i <= p) => Declared(i) = func.locals[i - p]  BY DeclaredLocal DEF p
    <3>2. PICK n \in Nat : n = q + 1  BY <2>4
    <3>3. ~(n <= p) /\ n - p = fi + 1  BY <2>4, <3>2
    <3>4. Declared(n) = func.locals[n - p]  BY <3>1, <3>3
    <3> QED BY <2>3, <3>2, <3>3, <3>4
  <2>6. TypeRead \in NumTypes /\ MapLocal(TypeRead, "LOCAL")
    BY <1>8, <2>3 DEF ReadLocal, ReadF64Local
  <2> HIDE DEF TypeRead
  <2>7. /\ Len(file') = q + 1 /\ fi' = fi + 1 /\ ctor' = ctor
        /\ \A i \in 1 .. Len(file') : file'[i] = Declared(i)
    BY <1>1, <1>5, <2>5, <2>6, MapLocalKeeps
  <2>8. fi + 1 <= l /\ q + 1 = p + (fi + 1)
    <3> HIDE DEF p, l, q
    <3> QED BY <2>4
  <2>9. ctor' = "locals" /\ fi' <= l /\ Len(file') = p + fi'
    <3> HIDE DEF p, l, q
    <3> QED BY <2>1, <2>7, <2>8
  <2> QED BY <2>7, <2>9
<1>9. CASE LocalsRead
  <2>1. /\ ctor = "locals" /\ fi = Len(func.locals) /\ ctor' = "ready" /\ file' = file
    BY <1>9 DEF LocalsRead
  <2> QED BY <1>5, <2>1
<1>10. CASE UnknownType
  <2>1. ctor' = "aborted" /\ file' = file  BY <1>10 DEF UnknownType
  <2> QED BY <1>5, <2>1
<1>11. CASE PushTemp \/ UNCHANGED ubhVars
  <2>1. UNCHANGED <<fi, ctor, file>>  BY <1>11 DEF PushTemp, Push_temp_reg, ubhVars
  <2> QED BY <1>5, <2>1
<1> QED BY <1>6, <1>7, <1>8, <1>9, <1>10, <1>11 DEF UbhNext, ConstructStep

\* Once all are read, the locals apart in the tables are the locals of the function.
LEMMA LocalsOwn == UbhInv /\ LocalsInv => LocalsOwnRegisters
<1> SUFFICES ASSUME UbhInv, LocalsInv, ReadsItsLocals, ctor = "ready"
             PROVE  /\ Len(local_map) = Len(DeclaredTypes)
                    /\ \A i, j \in DOMAIN DeclaredTypes :
                          i # j /\ DeclaredTypes[i] = DeclaredTypes[j]
                             => local_map[i] # local_map[j]
                    /\ \A i \in DOMAIN DeclaredTypes, j \in DOMAIN temps :
                          DeclaredTypes[i] = temps[j].type => local_map[i] # temps[j].reg
  BY DEF LocalsOwnRegisters, OwnRegisters
<1>1. UbhTypeOK /\ RegistersApart  BY DEF UbhInv
<1> DEFINE p == func.params
           l == func.locals
           d == DeclaredTypes
<1>2. p \in Seq(WasmTypes) /\ l \in Seq(WasmTypes)
  BY <1>1 DEF UbhTypeOK, Func_sig
<1>3. Len(p) \in Nat /\ Len(l) \in Nat  BY <1>2, LenProperties
<1>4. /\ d \in Seq(WasmTypes) /\ Len(d) = Len(p) + Len(l)
      /\ \A i \in 1 .. Len(p) + Len(l) :
            d[i] = IF i <= Len(p) THEN p[i] ELSE l[i - Len(p)]
  BY <1>2, ConcatProperties DEF DeclaredTypes
<1>5. DOMAIN d = 1 .. Len(p) + Len(l)  BY <1>4, LenProperties
<1>6. Len(file) = Len(p) + Len(l) /\ \A i \in 1 .. Len(file) : file[i] = Declared(i)
  BY DEF LocalsInv
<1>7. DOMAIN file = 1 .. Len(file) /\ Len(local_map) = Len(file)
  BY <1>1, TableFacts DEF UbhTypeOK
<1>8. \A i \in DOMAIN d : i \in DOMAIN file /\ file[i] = d[i]
  BY <1>4, <1>5, <1>6, <1>7 DEF Declared
<1> HIDE DEF p, l, d
<1> QED BY <1>1, <1>4, <1>6, <1>7, <1>8 DEF RegistersApart, d

\* A plain signature is read as it is declared.
LEMMA PlainIsRead == UbhTypeOK /\ PlainSignature => ReadsItsLocals
<1> SUFFICES ASSUME UbhTypeOK, PlainSignature, NEW i \in 0 .. Len(func.locals) - 1
             PROVE  GetLocalType(i) = func.locals[i + 1] /\ func.locals[i + 1] # "F64"
  BY DEF ReadsItsLocals
<1>0. PICK p, l : p = func.params /\ l = func.locals  OBVIOUS
<1>1. p \in Seq(WasmTypes) /\ l \in Seq(WasmTypes)  BY <1>0 DEF UbhTypeOK, Func_sig
<1>2. /\ Len(p) \in Nat /\ Len(l) \in Nat
      /\ DOMAIN p = 1 .. Len(p) /\ DOMAIN l = 1 .. Len(l)
  BY <1>1, LenProperties
<1>3. /\ i \in Nat /\ i + 1 \in 1 .. Len(l)
      /\ i < Len(p) => i + 1 \in 1 .. Len(p)
      /\ ~(i < Len(p)) => i - Len(p) + 1 \in 1 .. Len(l)
  <2>1. PICK m, n \in Nat : m = Len(p) /\ n = Len(l)  BY <1>2
  <2>2. i \in 0 .. n - 1  BY <1>0, <2>1
  <2> QED BY <2>1, <2>2
<1>4. l[i+1] # "F64"
  <2>1. "F64" \notin {l[k] : k \in DOMAIN l}  BY <1>0 DEF PlainSignature, ToSet
  <2> QED BY <1>2, <1>3, <2>1
<1>5. GetLocalType(i) = IF i < Len(p) THEN p[i+1] ELSE l[i-Len(p)+1]  BY <1>0 DEF GetLocalType
<1>6. CASE p = <<>>
  <2>1. Len(p) = 0  BY <1>6
  <2>2. ~(i < Len(p)) /\ i - Len(p) + 1 = i + 1  BY <1>3, <2>1
  <2> QED BY <1>0, <1>4, <1>5, <2>2
<1>7. CASE p # <<>>
  <2>1. PICK t : ToSet(p \o l) = {t}  BY <1>0, <1>7 DEF PlainSignature
  <2>2. \A k \in 1 .. Len(p) : p[k] = t
    <3> SUFFICES ASSUME NEW k \in 1 .. Len(p) PROVE p[k] = t
      OBVIOUS
    <3>1. k \in DOMAIN (p \o l) /\ (p \o l)[k] = p[k]
      BY <1>1, <1>2, ConcatProperties, LenProperties
    <3> QED BY <2>1, <3>1 DEF ToSet
  <2>3. \A k \in 1 .. Len(l) : l[k] = t
    <3> SUFFICES ASSUME NEW k \in 1 .. Len(l) PROVE l[k] = t
      OBVIOUS
    <3>1. Len(p) + k \in DOMAIN (p \o l) /\ (p \o l)[Len(p) + k] = l[k]
      BY <1>1, <1>2, ConcatProperties, LenProperties
    <3> QED BY <2>1, <3>1 DEF ToSet
  <2>4. GetLocalType(i) = t  BY <1>3, <1>5, <2>2, <2>3
  <2>5. l[i+1] = t  BY <1>3, <2>3
  <2> QED BY <1>0, <1>4, <2>4, <2>5
<1> QED BY <1>6, <1>7

\* Each wasm local has a register of its own among the locals and temporaries of its
\* type, for every function on which the second loop reads the types it means to. A
\* function without parameters, or with parameters and locals of a single type, is
\* one, as long as no local is an F64; one with an I32 parameter and an I64 local is
\* not, since GetLocalType is asked for the parameter there.
THEOREM UbhLocalsOwnRegisters ==
    UbhSpec => []LocalsOwnRegisters /\ [](PlainSignature => OwnRegisters)
<1>1. UbhStart => LocalsInv
  <2> SUFFICES ASSUME UbhStart PROVE LocalsInv
    OBVIOUS
  <2>1. ctor = "params" /\ fi = 0 /\ Len(file) = 0 /\ 1 .. Len(file) = {}  BY DEF UbhStart
  <2>2. Len(func.params) \in Nat
    <3>1. UbhTypeOK  BY UbhInvInit DEF UbhInv
    <3> QED BY <3>1, TableFacts
  <2> QED BY <2>1, <2>2 DEF LocalsInv
<1>2. UbhInv /\ LocalsInv => (PlainSignature => OwnRegisters)
  BY LocalsOwn, PlainIsRead DEF UbhInv, LocalsOwnRegisters
<1> QED BY <1>1, <1>2, LocalsInvNext, LocalsOwn, UbhInvariant, UbhStarts, PTL DEF UbhSpec
=============================================================================
