--------------------------- MODULE Driver_proofs ---------------------------
(***************************************************************************)
(* The two programs, for every module and every size of the buffers: what  *)
(* the conversions promise holds of each of them, whatever was converted   *)
(* before, the file holds what they emitted, in whichever order exit       *)
(* flushes the streams, and the bytes of an instruction give its operands. *)
(***************************************************************************)
EXTENDS Driver, Executor_proofs

(* The scan: what it hands over is a vector of decoded instructions.         *)

\* The set's smallest number is one of them.
LEMMA MinIn ==
    ASSUME NEW S, S \subseteq Nat, S # {}
    PROVE  Min(S) \in S /\ \A x \in S : Min(S) <= x
<1>1. \E x \in S : \A y \in S : x <= y  BY SmallestOf
<1> QED BY <1>1, Zenon DEF Min

\* A sequence of bytes.
LEMMA BytesSeq ==
    ASSUME NEW c, c \in Seq(0 .. 255)
    PROVE  /\ Len(c) \in Nat /\ DOMAIN c = 1 .. Len(c) /\ c = <<>> <=> Len(c) = 0
           /\ \A k \in 1 .. Len(c) : c[k] \in 0 .. 255
<1>1. Len(c) \in Nat /\ DOMAIN c = 1 .. Len(c) /\ \A k \in DOMAIN c : c[k] \in 0 .. 255
  BY SeqBasics
<1>2. c = <<>> <=> Len(c) = 0  OBVIOUS
<1> QED BY <1>1, <1>2

\* The end of a number is one of the file's bytes.
LEMMA LebEndIn ==
    ASSUME NEW d \in Seq(0 .. 255), NEW i \in Nat
    PROVE  /\ LebEnd(d, i) \in Nat /\ LebEnd(d, i) <= Len(d)
           /\ LebEnd(d, i) # 0 => i < LebEnd(d, i)
<1> DEFINE ends == {k \in i + 1 .. Len(d) : d[k] < 128}
<1>1. Len(d) \in Nat  BY SeqBasics
<1>2. ends \subseteq Nat /\ \A k \in ends : i < k /\ k <= Len(d)  BY <1>1
<1>3. LebEnd(d, i) = IF ends = {} THEN 0 ELSE Min(ends)  BY DEF LebEnd
<1>4. CASE ends = {}  BY <1>1, <1>3, <1>4
<1>5. CASE ends # {}
  <2>1. Min(ends) \in ends  BY <1>2, <1>5, MinIn
  <2> HIDE DEF ends
  <2> QED BY <1>2, <1>3, <1>5, <2>1
<1> QED BY <1>4, <1>5

\* The numbers of one, two, three and four groups of seven bits.
Groups1 == 0 .. 127
Groups2 == 0 .. 2^14 - 1
Groups3 == 0 .. 2^21 - 1
Groups4 == 0 .. 2^28 - 1

\* One group more.
LEMMA GroupMore ==
    /\ 0 \in Groups1 /\ 0 \in Groups2 /\ 0 \in Groups3 /\ 0 \in Groups4
    /\ \A a \in Groups1 : a + 128 * 0 = a
    /\ \A a \in Groups1, b \in Groups1 : a + 128 * b \in Groups2
    /\ \A a \in Groups1, b \in Groups2 : a + 128 * b \in Groups3
    /\ \A a \in Groups1, b \in Groups3 : a + 128 * b \in Groups4
    /\ \A a \in Groups4 : a \in Nat /\ a < 2^31
<1>1. /\ 0 \in Groups1 /\ 0 \in Groups2 /\ 0 \in Groups3 /\ 0 \in Groups4
      /\ \A a \in Groups1 : a + 128 * 0 = a
  BY SMT DEF Groups1, Groups2, Groups3, Groups4
<1>5. \A a \in Groups4 : a \in Nat /\ a < 2^31
  BY SMT DEF Groups4
<1>2. \A a \in Groups1, b \in Groups1 : a + 128 * b \in Groups2
  BY SMT DEF Groups1, Groups2
<1>3. \A a \in Groups1, b \in Groups2 : a + 128 * b \in Groups3
  BY SMT DEF Groups1, Groups2, Groups3
<1>4. \A a \in Groups1, b \in Groups3 : a + 128 * b \in Groups4
  BY SMT DEF Groups1, Groups3, Groups4
<1> QED BY <1>1, <1>2, <1>3, <1>4, <1>5, Zenon

\* A number of at most four groups of seven bits.
LEMMA LebNat ==
    ASSUME NEW d \in Seq(0 .. 255), NEW i \in Nat
    PROVE  Read_leb128(d, i) \in Groups4
<1> DEFINE over(k) == k = 4 \/ i + k >= LebEnd(d, i)
           grp(k)  == d[i + k + 1] % 128
           v3 == IF over(3) THEN 0 ELSE grp(3)
           v2 == IF over(2) THEN 0 ELSE grp(2) + 128 * v3
           v1 == IF over(1) THEN 0 ELSE grp(1) + 128 * v2
           v0 == IF over(0) THEN 0 ELSE grp(0) + 128 * v1
           f  == [k \in 0 .. 4 |-> IF k = 0 THEN v0 ELSE IF k = 1 THEN v1
                                   ELSE IF k = 2 THEN v2 ELSE IF k = 3 THEN v3 ELSE 0]
           from(g) == [k \in 0 .. 4 |-> IF over(k) THEN 0 ELSE grp(k) + 128 * g[k + 1]]
<1>1. \A k \in 0 .. 3 : ~over(k) => grp(k) \in Groups1
  <2> SUFFICES ASSUME NEW k \in 0 .. 3, ~over(k) PROVE grp(k) \in Groups1
    OBVIOUS
  <2>1. i + k < LebEnd(d, i) /\ LebEnd(d, i) \in Nat /\ LebEnd(d, i) <= Len(d)  BY LebEndIn
  <2>2. Len(d) \in Nat  BY SeqBasics
  <2>3. i + k + 1 \in 1 .. Len(d)  BY <2>1, <2>2
  <2>4. PICK b \in 0 .. 255 : b = d[i + k + 1]
    <3>1. d[i + k + 1] \in 0 .. 255  BY <2>3, BytesSeq
    <3> QED BY <3>1
  <2>5. b % 128 \in Groups1  BY SMT DEF Groups1
  <2> QED BY <2>4, <2>5, Zenon
<1> HIDE DEF over, grp
<1>2. v0 \in Groups4 /\ v1 \in Groups3 /\ v2 \in Groups2 /\ v3 \in Groups1
  <2>1. v3 \in Groups1
    <3>1. 3 \in 0 .. 3  OBVIOUS
    <3> QED BY <1>1, <3>1, GroupMore, Zenon
  <2>2. v2 \in Groups2
    <3> HIDE DEF v3
    <3>1. 2 \in 0 .. 3  OBVIOUS
    <3> QED BY <1>1, <2>1, <3>1, GroupMore, Zenon
  <2>3. v1 \in Groups3
    <3> HIDE DEF v2
    <3>1. 1 \in 0 .. 3  OBVIOUS
    <3> QED BY <1>1, <2>2, <3>1, GroupMore, Zenon
  <2>4. v0 \in Groups4
    <3> HIDE DEF v1
    <3>1. 0 \in 0 .. 3  OBVIOUS
    <3> QED BY <1>1, <2>3, <3>1, GroupMore, Zenon
  <2> QED BY <2>1, <2>2, <2>3, <2>4
<1> HIDE DEF v0, v1, v2, v3
<1>3. f = from(f)
  <2>1. over(4)  BY DEF over
  <2>2. /\ f[0] = v0 /\ f[1] = v1 /\ f[2] = v2 /\ f[3] = v3 /\ f[4] = 0  OBVIOUS
  <2>3. \A k \in 0 .. 4 : f[k] = IF over(k) THEN 0 ELSE grp(k) + 128 * f[k + 1]
    <3> HIDE DEF f
    <3>1. /\ v3 = IF over(3) THEN 0 ELSE grp(3) + 128 * 0
          /\ v2 = IF over(2) THEN 0 ELSE grp(2) + 128 * v3
          /\ v1 = IF over(1) THEN 0 ELSE grp(1) + 128 * v2
          /\ v0 = IF over(0) THEN 0 ELSE grp(0) + 128 * v1
      <4>1. \A k \in 0 .. 3 : ~over(k) => grp(k) + 128 * 0 = grp(k)  BY <1>1, GroupMore, Zenon
      <4>2. 3 \in 0 .. 3  OBVIOUS
      <4>3. v3 = IF over(3) THEN 0 ELSE grp(3) + 128 * 0  BY <4>1, <4>2, Zenon DEF v3
      <4>4. v2 = IF over(2) THEN 0 ELSE grp(2) + 128 * v3  BY Zenon DEF v2
      <4>5. v1 = IF over(1) THEN 0 ELSE grp(1) + 128 * v2  BY Zenon DEF v1
      <4>6. v0 = IF over(0) THEN 0 ELSE grp(0) + 128 * v1  BY Zenon DEF v0
      <4> QED BY <4>3, <4>4, <4>5, <4>6
    <3> QED BY <2>1, <2>2, <3>1
  <2> QED BY <2>3
<1>4. \A g : g = from(g) => g[0] \in Groups4
  <2> SUFFICES ASSUME NEW g, g = from(g) PROVE g[0] \in Groups4
    OBVIOUS
  <2>1. \A k \in 0 .. 4 : g[k] = IF over(k) THEN 0 ELSE grp(k) + 128 * g[k + 1]  OBVIOUS
  <2>2. /\ g[0] = IF over(0) THEN 0 ELSE grp(0) + 128 * g[1]
        /\ g[1] = IF over(1) THEN 0 ELSE grp(1) + 128 * g[2]
        /\ g[2] = IF over(2) THEN 0 ELSE grp(2) + 128 * g[3]
        /\ g[3] = IF over(3) THEN 0 ELSE grp(3) + 128 * g[4]
        /\ g[4] = 0
    BY <2>1 DEF over
  <2>3. 0 \in 0 .. 3 /\ 1 \in 0 .. 3 /\ 2 \in 0 .. 3 /\ 3 \in 0 .. 3  OBVIOUS
  <2>4. g[3] \in Groups1
    <3>1. CASE over(3)  BY <2>2, <3>1, GroupMore
    <3>2. CASE ~over(3)
      <4>1. grp(3) \in Groups1 /\ g[3] = grp(3) + 128 * 0  BY <1>1, <2>2, <2>3, <3>2
      <4> QED BY <4>1, GroupMore, Zenon
    <3> QED BY <3>1, <3>2
  <2>5. g[2] \in Groups2
    <3>1. CASE over(2)  BY <2>2, <3>1, GroupMore
    <3>2. CASE ~over(2)
      <4>1. grp(2) \in Groups1 /\ g[2] = grp(2) + 128 * g[3]  BY <1>1, <2>2, <2>3, <3>2
      <4>2. \A a \in Groups1, b \in Groups1 : a + 128 * b \in Groups2  BY GroupMore
      <4> QED BY <2>4, <4>1, <4>2
    <3> QED BY <3>1, <3>2
  <2>6. g[1] \in Groups3
    <3>1. CASE over(1)  BY <2>2, <3>1, GroupMore
    <3>2. CASE ~over(1)
      <4>1. grp(1) \in Groups1 /\ g[1] = grp(1) + 128 * g[2]  BY <1>1, <2>2, <2>3, <3>2
      <4>2. \A a \in Groups1, b \in Groups2 : a + 128 * b \in Groups3  BY GroupMore
      <4> QED BY <2>5, <4>1, <4>2
    <3> QED BY <3>1, <3>2
  <2> QED
    <3>1. CASE over(0)  BY <2>2, <3>1, GroupMore
    <3>2. CASE ~over(0)
      <4>1. grp(0) \in Groups1 /\ g[0] = grp(0) + 128 * g[1]  BY <1>1, <2>2, <2>3, <3>2
      <4>2. \A a \in Groups1, b \in Groups3 : a + 128 * b \in Groups4  BY GroupMore
      <4> QED BY <2>6, <4>1, <4>2
    <3> QED BY <3>1, <3>2
<1>5. Read_leb128(d, i) = (CHOOSE g : g = from(g))[0]  BY Zenon DEF Read_leb128, over, grp
<1> HIDE DEF from, f
<1>6. (CHOOSE g : g = from(g)) = from(CHOOSE g : g = from(g))  BY <1>3
<1> QED BY <1>4, <1>5, <1>6, Zenon

\* An instruction the table has is decoded to a name and a number.
LEMMA Decoded ==
    ASSUME mod.bytes \in Seq(0 .. 255), NEW i \in Nat, mod.bytes[i + 1] \in DOMAIN WINST_OPCODE
    PROVE  Decode(i) \in Inst /\ Decode(i).imm < 2^31
<1>1. Operand(mod.bytes, i) \in Groups4
  <2>1. Read_opr_size(mod.bytes, i + 1) \in Nat
    <3>1. i + 1 \in Nat  OBVIOUS
    <3>2. LebEnd(mod.bytes, i + 1) \in Nat  BY <3>1, LebEndIn
    <3> QED BY <3>2 DEF Read_opr_size
  <2>2. Read_leb128(mod.bytes, i + 1) \in Groups4
    <3>1. i + 1 \in Nat  OBVIOUS
    <3> QED BY <3>1, LebNat
  <2>3. Read_leb128(mod.bytes, i + 1 + Read_opr_size(mod.bytes, i + 1)) \in Groups4
    <3>1. i + 1 + Read_opr_size(mod.bytes, i + 1) \in Nat  BY <2>1
    <3> QED BY <3>1, LebNat
  <2>4. 0 \in Groups4  BY GroupMore
  <2> QED BY <2>2, <2>3, <2>4, Zenon DEF Operand
<1>2. WINST_OPCODE[mod.bytes[i + 1]] \in WinstNames  BY Zenon DEF WinstNames
<1>3. PICK n \in Nat : n = Operand(mod.bytes, i) /\ n < 2^31  BY <1>1, GroupMore
<1>4. Decode(i).imm = n  BY <1>3 DEF Decode
<1> QED BY <1>2, <1>3, <1>4 DEF Decode, Inst

\* The size of an instruction that fits the file.
LEMMA SizeNat ==
    ASSUME mod.bytes \in Seq(0 .. 255), NEW i \in Nat, Read_inst_size(mod.bytes, i) # -1
    PROVE  Read_inst_size(mod.bytes, i) \in Nat \ {0}
<1>1. \A j \in Nat : Read_opr_size(mod.bytes, j) \in Nat
  <2> SUFFICES ASSUME NEW j \in Nat PROVE Read_opr_size(mod.bytes, j) \in Nat
    OBVIOUS
  <2>1. LebEnd(mod.bytes, j) \in Nat  BY LebEndIn
  <2> QED BY <2>1 DEF Read_opr_size
<1> DEFINE n  == Numopr(mod.bytes[i + 1])
           s1 == IF n > 0 THEN Read_opr_size(mod.bytes, i + 1) ELSE 0
           s2 == IF n > 1 THEN Read_opr_size(mod.bytes, i + 1 + s1) ELSE 0
<1>2. s1 \in Nat  BY <1>1
<1> HIDE DEF n
<1>3. s2 \in Nat
  <2> HIDE DEF s1
  <2>1. i + 1 + s1 \in Nat  BY <1>2
  <2> QED BY <1>1, <2>1
<1>4. Read_inst_size(mod.bytes, i) \in {-1, 1 + s1 + s2}  BY Zenon DEF Read_inst_size, n
<1> HIDE DEF s1, s2
<1> QED BY <1>2, <1>3, <1>4
-----------------------------------------------------------------------------
(* The conversions.                                                          *)

\* The function at hand is one of the module's, and what was scanned of it are
\* offsets of the file at which the table finds an instruction.
ScanInv ==
    /\ mod \in Modules
    /\ func_ctx \in 0 .. Len(mod.funcs)
    /\ stage \in {"scan", "convert", "run"} => func_ctx < Len(mod.funcs) /\ Func.wasm_bin # <<>>
    /\ scan_pc \in Nat
    /\ wasm_insts \in Seq({i \in 0 .. Len(mod.bytes) - 1 :
                               mod.bytes[i + 1] \in DOMAIN WINST_OPCODE})

\* What the assumption says of the module and of the function at hand.
LEMMA ModuleFacts ==
    ASSUME ScanInv
    PROVE  /\ mod.bytes \in Seq(0 .. 255) /\ Len(mod.bytes) \in Nat
           /\ mod.funcs \in Seq([sig : Func_sig, wasm_bin : Seq(Nat)]) /\ Len(mod.funcs) \in Nat
           /\ func_ctx \in Nat /\ func_ctx <= Len(mod.funcs)
           /\ func_ctx < Len(mod.funcs) =>
                 /\ func_ctx + 1 \in 1 .. Len(mod.funcs)
                 /\ Func.sig \in Func_sig /\ Func.wasm_bin \in Seq(Nat)
                 /\ Func.wasm_bin # <<>> =>
                       /\ Func.wasm_bin[1] \in Nat /\ Func.wasm_bin[2] \in Nat
                       /\ Func.wasm_bin[2] <= Len(mod.bytes)
<1>1. mod.bytes \in Seq(0 .. 255) /\ mod.funcs \in Seq([sig : Func_sig, wasm_bin : Seq(Nat)])
  BY DriverAssumption DEF ScanInv
<1>2. Len(mod.bytes) \in Nat  BY <1>1, SeqBasics
<1>3. Len(mod.funcs) \in Nat /\ DOMAIN mod.funcs = 1 .. Len(mod.funcs)
      /\ \A f \in DOMAIN mod.funcs : mod.funcs[f] \in [sig : Func_sig, wasm_bin : Seq(Nat)]
  BY <1>1, SeqBasics
<1>4. func_ctx \in Nat /\ func_ctx <= Len(mod.funcs)  BY <1>3 DEF ScanInv
<1>5. ASSUME func_ctx < Len(mod.funcs)
      PROVE  /\ func_ctx + 1 \in 1 .. Len(mod.funcs)
             /\ Func.sig \in Func_sig /\ Func.wasm_bin \in Seq(Nat)
             /\ Func.wasm_bin # <<>> =>
                   /\ Func.wasm_bin[1] \in Nat /\ Func.wasm_bin[2] \in Nat
                   /\ Func.wasm_bin[2] <= Len(mod.bytes)
  <2>1. func_ctx + 1 \in 1 .. Len(mod.funcs)  BY <1>3, <1>4, <1>5
  <2>2. Func \in [sig : Func_sig, wasm_bin : Seq(Nat)]  BY <1>3, <2>1, Zenon DEF Func
  <2>3. Func.sig \in Func_sig /\ Func.wasm_bin \in Seq(Nat)  BY <2>2
  <2>4. ASSUME Func.wasm_bin # <<>>
        PROVE  Len(Func.wasm_bin) = 2 /\ Func.wasm_bin[2] <= Len(mod.bytes)
    <3>1. mod \in Modules  BY DEF ScanInv
    <3>2. func_ctx + 1 \in DOMAIN mod.funcs  BY <1>3, <2>1
    <3> QED BY <2>4, <3>1, <3>2, DriverAssumption, Zenon DEF Func
  <2>5. ASSUME Func.wasm_bin # <<>> PROVE Func.wasm_bin[1] \in Nat /\ Func.wasm_bin[2] \in Nat
    <3>1. DOMAIN Func.wasm_bin = 1 .. 2
          /\ \A k \in DOMAIN Func.wasm_bin : Func.wasm_bin[k] \in Nat
      BY <2>3, <2>4, <2>5, SeqBasics
    <3> QED BY <3>1
  <2> QED BY <2>1, <2>3, <2>4, <2>5
<1> QED BY <1>1, <1>2, <1>3, <1>4, <1>5

\* The program starts at the first function with nothing scanned.
LEMMA ScanInvInit == DriverInit => ScanInv
<1> SUFFICES ASSUME DriverInit PROVE ScanInv
  OBVIOUS
<1>1. mod \in Modules /\ func_ctx = 0 /\ stage = "func" /\ scan_pc = 0 /\ wasm_insts = <<>>
  BY DEF DriverInit
<1>2. Len(mod.funcs) \in Nat  BY <1>1, DriverAssumption, SeqBasics
<1>3. \A S : <<>> \in Seq(S)  OBVIOUS
<1> QED BY <1>1, <1>2, <1>3 DEF ScanInv

\* No step leaves the functions of the module or scans what the table does not have.
LEMMA ScanInvNext == ScanInv /\ [DriverNext]_programVars => ScanInv'
<1> SUFFICES ASSUME ScanInv, [DriverNext]_programVars PROVE ScanInv'
  OBVIOUS
<1> USE DEF Go, driverVars, Func
<1>1. CASE UNCHANGED <<mod, func_ctx, scan_pc, wasm_insts>> /\ stage' \notin {"scan", "convert", "run"}
  BY <1>1 DEF ScanInv
<1>2. CASE UNCHANGED <<mod, func_ctx, scan_pc, wasm_insts>> /\ stage \in {"scan", "convert", "run"}
  BY <1>2 DEF ScanInv
<1>3. CASE SkipImport
  <2>1. UNCHANGED <<mod, stage, scan_pc, wasm_insts>> /\ stage = "func"
        /\ func_ctx < Len(mod.funcs) /\ func_ctx' = func_ctx + 1
    BY <1>3 DEF SkipImport
  <2>2. func_ctx' \in 0 .. Len(mod.funcs)  BY <2>1, ModuleFacts
  <2> QED BY <2>1, <2>2 DEF ScanInv
<1>4. CASE Next_func
  <2>1. UNCHANGED <<mod, scan_pc, wasm_insts>> /\ stage = "run" /\ stage' = "func"
        /\ func_ctx' = func_ctx + 1
    BY <1>4 DEF Next_func
  <2>2. func_ctx < Len(mod.funcs)  BY <2>1 DEF ScanInv
  <2>3. func_ctx' \in 0 .. Len(mod.funcs)  BY <2>1, <2>2, ModuleFacts
  <2> QED BY <2>1, <2>3 DEF ScanInv
<1>5. CASE StartScan
  <2>1. UNCHANGED <<mod, func_ctx>> /\ func_ctx < Len(mod.funcs) /\ Func.wasm_bin # <<>>
        /\ stage' = "scan" /\ scan_pc' = Func.wasm_bin[1] /\ wasm_insts' = <<>>
    BY <1>5 DEF StartScan
  <2>2. scan_pc' \in Nat  BY <2>1, ModuleFacts
  <2>3. \A S : <<>> \in Seq(S)  OBVIOUS
  <2> QED BY <2>1, <2>2, <2>3 DEF ScanInv
<1>6. CASE ScanInst
  <2>1. /\ UNCHANGED <<mod, func_ctx, stage>> /\ stage = "scan"
        /\ scan_pc < Func.wasm_bin[2]
        /\ mod.bytes[scan_pc + 1] \in DOMAIN WINST_OPCODE
        /\ Read_inst_size(mod.bytes, scan_pc) # -1
        /\ wasm_insts' = Append(wasm_insts, scan_pc)
        /\ scan_pc' = scan_pc + Read_inst_size(mod.bytes, scan_pc)
    BY <1>6 DEF ScanInst, Scans, InTable
  <2>2. scan_pc \in Nat /\ func_ctx < Len(mod.funcs) /\ Func.wasm_bin # <<>>
    BY <2>1 DEF ScanInv
  <2>3. mod.bytes \in Seq(0 .. 255) /\ Len(mod.bytes) \in Nat
        /\ Func.wasm_bin[2] \in Nat /\ Func.wasm_bin[2] <= Len(mod.bytes)
    BY <2>2, ModuleFacts
  <2>4. scan_pc \in 0 .. Len(mod.bytes) - 1
    <3> HIDE DEF Func
    <3> QED BY <2>1, <2>2, <2>3
  <2>5. scan_pc' \in Nat
    <3>1. Read_inst_size(mod.bytes, scan_pc) \in Nat \ {0}  BY <2>1, <2>2, <2>3, SizeNat
    <3> QED BY <2>1, <2>2, <3>1
  <2> DEFINE S == {i \in 0 .. Len(mod.bytes) - 1 : mod.bytes[i + 1] \in DOMAIN WINST_OPCODE}
  <2>6. scan_pc \in S  BY <2>1, <2>4
  <2>7. wasm_insts \in Seq(S)  BY DEF ScanInv
  <2>8. wasm_insts' \in Seq(S)
    <3> HIDE DEF S
    <3> QED BY <2>1, <2>6, <2>7
  <2> QED BY <2>1, <2>5, <2>8 DEF ScanInv
<1>7. CASE Return0 \/ ScanAborts \/ ScanRunsOut \/ ConvertStops \/ RunStops \/ ProcessGone
           \/ ListAborts \/ ListEnds
  BY <1>1, <1>7 DEF Return0, ScanAborts, ScanRunsOut, ConvertStops, RunStops, ProcessGone,
                    ListAborts, ListEnds
<1>8. CASE StartConvert \/ Translate \/ Emit_output \/ Run
  BY <1>2, <1>8 DEF StartConvert, Translate, Emit_output, Run, Scans
<1>9. CASE Flush \/ ListInst
  <2>1. stage \notin {"scan", "convert", "run"} /\ UNCHANGED <<mod, func_ctx, stage, scan_pc, wasm_insts>>
    BY <1>9 DEF Flush, FlushStream, ListInst, Lists
  <2> QED BY <1>1, <2>1
<1>10. CASE UNCHANGED programVars
  BY <1>10 DEF programVars, ScanInv
<1> QED BY <1>3, <1>4, <1>5, <1>6, <1>7, <1>8, <1>9, <1>10 DEF DriverNext

\* Calling Wasm_to_uwasm starts a conversion afresh.
LEMMA ConvertStarts == ScanInv /\ StartConvert => ExecStart'
<1> SUFFICES ASSUME ScanInv, StartConvert PROVE ExecStart'
  OBVIOUS
<1> DEFINE S == {i \in 0 .. Len(mod.bytes) - 1 : mod.bytes[i + 1] \in DOMAIN WINST_OPCODE}
<1>1. mod.bytes \in Seq(0 .. 255) /\ Len(mod.bytes) \in Nat /\ func_ctx < Len(mod.funcs)
      /\ Func.sig \in Func_sig
  <2>1. stage = "scan"  BY DEF StartConvert
  <2> QED BY <2>1, ModuleFacts DEF ScanInv
<1>2. ins' \in Seq(Inst)
  <2>1. wasm_insts \in Seq(S)  BY DEF ScanInv
  <2>2. DOMAIN wasm_insts = 1 .. Len(wasm_insts) /\ Len(wasm_insts) \in Nat
        /\ \A k \in DOMAIN wasm_insts : wasm_insts[k] \in S
    <3> HIDE DEF S
    <3> QED BY <2>1, SeqBasics
  <2>3. ASSUME NEW k \in DOMAIN wasm_insts PROVE Decode(wasm_insts[k]) \in Inst
    <3>1. wasm_insts[k] \in Nat /\ mod.bytes[wasm_insts[k] + 1] \in DOMAIN WINST_OPCODE
      BY <1>1, <2>2, <2>3
    <3> QED BY <1>1, <3>1, Decoded
  <2>4. ins' = [k \in 1 .. Len(wasm_insts) |-> Decode(wasm_insts[k])]
    BY <2>2 DEF StartConvert
  <2> QED BY <2>2, <2>3, <2>4
<1>3. func' \in Func_sig  BY <1>1 DEF StartConvert
<1>4. HierStart'  BY <1>2 DEF StartConvert, HierStart
<1>5. UbhStart'  BY <1>3 DEF StartConvert, UbhStart, FreshTables
<1> QED BY <1>4, <1>5 DEF StartConvert, ExecStart, TransStart

\* Every other step of the program is a step of the conversion at hand, or none.
LEMMA DriverConverts == ScanInv /\ [DriverNext]_programVars => [ExecNext]_allVars \/ ExecStart'
<1> SUFFICES ASSUME ScanInv, [DriverNext]_programVars PROVE [ExecNext]_allVars \/ ExecStart'
  OBVIOUS
<1>1. CASE StartConvert  BY <1>1, ConvertStarts
<1>2. CASE Translate  BY <1>2 DEF Translate, ExecNext
<1>3. CASE Run  BY <1>3 DEF Run, ExecNext
<1>4. CASE UNCHANGED allVars  BY <1>4
<1>5. CASE UNCHANGED programVars  BY <1>5 DEF programVars
<1>6. CASE SkipImport \/ StartScan \/ Return0 \/ Next_func \/ ScanInst \/ ScanAborts
           \/ ScanRunsOut \/ ConvertStops
  BY <1>4, <1>6 DEF SkipImport, StartScan, Return0, Next_func, ScanInst, ScanAborts,
                    ScanRunsOut, ConvertStops
<1>7. CASE Emit_output \/ RunStops \/ Flush \/ ProcessGone \/ ListInst \/ ListAborts \/ ListEnds
  BY <1>4, <1>7 DEF Emit_output, RunStops, Flush, FlushStream, ProcessGone, ListInst,
                    ListAborts, ListEnds
<1> QED BY <1>1, <1>2, <1>3, <1>5, <1>6, <1>7 DEF DriverNext

\* All that is known of a conversion and its run.
HandlerInv == ConvInv /\ SimInv /\ RunInv /\ FrameInv

\* It holds where a conversion starts.
LEMMA HandlerInvStart == ExecStart => HandlerInv
<1>1. ExecStart => TransStart  BY DEF ExecStart
<1> QED BY <1>1, TransInvInit, LabelInvInit, OperandInvInit, SimInvInit, RunInvInit, FrameInvInit
        DEF HandlerInv, ConvInv

\* And it stays.
LEMMA HandlerInvNext == HandlerInv /\ [ExecNext]_allVars => HandlerInv'
<1> SUFFICES ASSUME HandlerInv, [ExecNext]_allVars PROVE HandlerInv'
  OBVIOUS
<1>1. [TransNext]_convVars  BY RunTranslates
<1>2. ConvInv'
  BY <1>1, TransInvNext, LabelInvNext, OperandInvNext DEF HandlerInv, ConvInv
<1>3. SimInv'  BY <1>1, SimInvNext DEF HandlerInv, ConvInv
<1>4. RunInv'  BY RunInvNext DEF HandlerInv
<1>5. FrameInv'  BY <1>2, FrameInvNext DEF HandlerInv
<1> QED BY <1>2, <1>3, <1>4, <1>5 DEF HandlerInv

\* Both invariants hold of every state of the program.
LEMMA DriverInvariant == DriverSpec => [](ScanInv /\ HandlerInv)
<1>1. DriverInit => ExecStart  BY ExecStarts DEF DriverInit
<1> QED BY <1>1, ScanInvInit, ScanInvNext, DriverConverts, HandlerInvStart, HandlerInvNext, PTL
        DEF DriverSpec

\* What a single conversion promises, and its run.
ConversionSound ==
    /\ Laminar /\ ParentInnermost /\ ElseFollowsIf /\ ChildLists /\ EndsWhereWasmSays
    /\ RegistersApart /\ ParamAreaFree
    /\ TransTypeOK /\ StackOwned
    /\ LabelsFit => LabelPerJump /\ JumpTargets
    /\ RegistersFit => OperandsDefined
    /\ OnlyI32 /\ RegistersFit => StackDenotes /\ LocalsPreserved
    /\ ExecTypeOK

\* For every module, whatever its functions: the conversion of each of them, and the
\* run of its code, keep what the theorems of the modules below say of one conversion
\* that starts afresh, whatever was converted and run before it, and although the
\* instructions are those the converter's own scan makes of the bytes.
THEOREM DriverConversions == DriverSpec => []ConversionSound
<1>1. HandlerInv => ConversionSound
  <2> SUFFICES ASSUME HandlerInv PROVE ConversionSound
    OBVIOUS
  <2>1. TransInv /\ LabelInv /\ CodeInv /\ OperandInv /\ ConvInv /\ SimInv /\ RunInv /\ FrameInv
    BY DEF HandlerInv, ConvInv
  <2>2. HierInv /\ UbhInv /\ StackOwned  BY <2>1 DEF TransInv
  <2>3. Laminar /\ ParentInnermost /\ ElseFollowsIf /\ ChildLists /\ EndsWhereWasmSays
    <3>1. BlocksInv /\ DepthInv  BY <2>1 DEF LabelInv, BlocksInv
    <3> QED BY <2>2, <3>1, BlocksInvSays, EndsNow
  <2>4. RegistersApart /\ ParamAreaFree  BY <2>2, ParamAreaAbove DEF UbhInv
  <2>5. TransTypeOK /\ ExecTypeOK  BY <2>1, TransTypesNow, FrameTypesNow
  <2>6. LabelsFit => LabelPerJump /\ JumpTargets  BY <2>1, LabelPerJumpNow, JumpTargetsNow
  <2>7. RegistersFit => OperandsDefined  BY <2>1, OperandsNow
  <2>8. OnlyI32 /\ RegistersFit => StackDenotes /\ LocalsPreserved  BY <2>1, SimDenotes, LocalsNow
  <2> QED BY <2>2, <2>3, <2>4, <2>5, <2>6, <2>7, <2>8 DEF ConversionSound
<1> QED BY <1>1, DriverInvariant, PTL
-----------------------------------------------------------------------------
(* The code of a conversion.                                                 *)

SizeOf(i) == InstSize(TY_AM[i.op])

IsOffsets(f, insts, n) ==
    f = [m \in 1 .. n |-> IF m = 1 THEN 0 ELSE f[m-1] + SizeOf(insts[m-1])]

\* There are offsets of any number of instructions.
LEMMA OffsetsExist ==
    ASSUME NEW insts, NEW n \in Nat
    PROVE  \E f : IsOffsets(f, insts, n)
<1> DEFINE S == {j \in Nat : \E f : IsOffsets(f, insts, j)}
<1>1. 0 \in S
  <2> DEFINE f == [k \in 1 .. 0 |-> 0]
  <2>1. 1 .. 0 = {}  OBVIOUS
  <2>2. IsOffsets(f, insts, 0)  BY <2>1 DEF IsOffsets
  <2> HIDE DEF f
  <2> QED BY <2>2
<1>2. ASSUME NEW j \in Nat, j \in S PROVE j + 1 \in S
  <2>1. PICK f : IsOffsets(f, insts, j)  BY <1>2
  <2>2. \A k \in 1 .. j : f[k] = IF k = 1 THEN 0 ELSE f[k-1] + SizeOf(insts[k-1])
    BY <2>1 DEF IsOffsets
  <2> DEFINE v == IF j = 0 THEN 0 ELSE f[j] + SizeOf(insts[j])
             w == [k \in 1 .. j + 1 |-> IF k = j + 1 THEN v ELSE f[k]]
  <2>3. \A k \in 1 .. j + 1 : w[k] = IF k = j + 1 THEN v ELSE f[k]  OBVIOUS
  <2>4. w = [k \in 1 .. j + 1 |-> w[k]]  OBVIOUS
  <2> HIDE DEF w
  <2>5. ASSUME NEW k \in 1 .. j + 1
        PROVE  w[k] = IF k = 1 THEN 0 ELSE w[k-1] + SizeOf(insts[k-1])
    <3>1. CASE k = j + 1
      <4>1. w[k] = v  BY <2>3, <3>1
      <4>2. CASE j = 0  BY <3>1, <4>1, <4>2
      <4>3. CASE j # 0
        <5>1. k - 1 = j /\ k # 1 /\ j \in 1 .. j + 1 /\ j # j + 1  BY <3>1, <4>3
        <5>2. w[j] = f[j]  BY <2>3, <5>1
        <5>3. v = f[j] + SizeOf(insts[j])  BY <4>3
        <5> HIDE DEF v
        <5> QED BY <4>1, <5>1, <5>2, <5>3
      <4> QED BY <4>2, <4>3
    <3>2. CASE k # j + 1
      <4>1. k \in 1 .. j /\ w[k] = f[k]  BY <2>3, <3>2
      <4>2. CASE k = 1  BY <2>2, <4>1, <4>2
      <4>3. CASE k # 1
        <5>1. k - 1 \in 1 .. j + 1 /\ k - 1 # j + 1  BY <4>1, <4>3
        <5>2. w[k-1] = f[k-1]  BY <2>3, <5>1
        <5> QED BY <2>2, <4>1, <4>3, <5>2
      <4> QED BY <4>2, <4>3
    <3> QED BY <3>1, <3>2
  <2>6. IsOffsets(w, insts, j + 1)  BY <2>4, <2>5 DEF IsOffsets
  <2> QED BY <2>6
<1>3. \A j \in Nat : j \in S => j + 1 \in S  BY <1>2
<1>4. n \in S
  <2> HIDE DEF S
  <2> QED BY <1>1, <1>3, SetInduction
<1> QED BY <1>4

\* The offset of an instruction does not depend on how many follow it.
LEMMA OffsetsAgree ==
    ASSUME NEW insts, NEW n \in Nat, NEW l \in Nat, NEW f, NEW g,
           IsOffsets(f, insts, n), IsOffsets(g, insts, l)
    PROVE  \A k \in Nat : k <= n /\ k <= l /\ k # 0 => f[k] = g[k]
<1>1. /\ \A k \in 1 .. n : f[k] = IF k = 1 THEN 0 ELSE f[k-1] + SizeOf(insts[k-1])
      /\ \A k \in 1 .. l : g[k] = IF k = 1 THEN 0 ELSE g[k-1] + SizeOf(insts[k-1])
  BY DEF IsOffsets
<1> DEFINE S == {k \in Nat : k <= n /\ k <= l /\ k # 0 => f[k] = g[k]}
<1>2. 0 \in S  OBVIOUS
<1>3. ASSUME NEW k \in Nat, k \in S PROVE k + 1 \in S
  <2> SUFFICES ASSUME k + 1 <= n, k + 1 <= l PROVE f[k+1] = g[k+1]
    OBVIOUS
  <2>1. k + 1 \in 1 .. n /\ k + 1 \in 1 .. l /\ k + 1 - 1 = k  OBVIOUS
  <2>2. CASE k = 0
    <3>1. k + 1 = 1  BY <2>2
    <3> QED BY <1>1, <2>1, <3>1
  <2>3. CASE k # 0
    <3>1. f[k] = g[k]  BY <1>3, <2>1, <2>3
    <3>2. k + 1 # 1  BY <2>3
    <3> QED BY <1>1, <2>1, <3>1, <3>2
  <2> QED BY <2>2, <2>3
<1> HIDE DEF S
<1>4. Nat \subseteq S  BY <1>2, <1>3, SetInduction
<1> QED BY <1>4 DEF S

\* An instruction is at the end of the one before it.
LEMMA OffsetNext ==
    ASSUME NEW insts
    PROVE  /\ CodeOffset(insts, 1) = 0
           /\ \A n \in Nat \ {0} :
                 CodeOffset(insts, n + 1) = CodeOffset(insts, n) + SizeOf(insts[n])
<1> DEFINE at(n) == CHOOSE f : IsOffsets(f, insts, n)
<1>1. \A n : CodeOffset(insts, n) = at(n)[n]  BY Zenon DEF CodeOffset, IsOffsets, SizeOf
<1>2. \A n \in Nat : IsOffsets(at(n), insts, n)  BY OffsetsExist
<1> HIDE DEF at
<1>3. \A n \in Nat : \A k \in 1 .. n :
          at(n)[k] = IF k = 1 THEN 0 ELSE at(n)[k-1] + SizeOf(insts[k-1])
  BY <1>2 DEF IsOffsets
<1>4. CodeOffset(insts, 1) = 0
  <2>1. at(1)[1] = 0  BY <1>3
  <2> QED BY <1>1, <2>1
<1>5. ASSUME NEW n \in Nat \ {0}
      PROVE  CodeOffset(insts, n + 1) = CodeOffset(insts, n) + SizeOf(insts[n])
  <2>1. n + 1 \in Nat /\ n + 1 \in 1 .. n + 1 /\ n + 1 # 1 /\ n + 1 - 1 = n /\ n <= n + 1
    OBVIOUS
  <2>2. at(n + 1)[n + 1] = at(n + 1)[n] + SizeOf(insts[n])  BY <1>3, <2>1
  <2>3. at(n + 1)[n] = at(n)[n]
    <3>1. PICK m \in Nat : m = n + 1  OBVIOUS
    <3>2. PICK f, g : f = at(m) /\ g = at(n)  OBVIOUS
    <3>3. IsOffsets(f, insts, m) /\ IsOffsets(g, insts, n)  BY <1>2, <3>2
    <3>4. \A k \in Nat : k <= m /\ k <= n /\ k # 0 => f[k] = g[k]  BY <3>3, OffsetsAgree
    <3> QED BY <3>1, <3>2, <3>4
  <2> QED BY <1>1, <2>1, <2>2, <2>3
<1> QED BY <1>4, <1>5

\* The sizes.
LEMMA Sizes == \A i : SizeOf(i) \in {4, 8}
BY DEF SizeOf, InstSize

IsFlat(f, p, n) == f = [i \in 1 .. n |-> IF i = 1 THEN p[i] ELSE f[i-1] \o p[i]]

\* Any number of pieces has been put together.
LEMMA FlatExists ==
    ASSUME NEW p, NEW n \in Nat
    PROVE  \E f : IsFlat(f, p, n)
<1> DEFINE S == {j \in Nat : \E f : IsFlat(f, p, j)}
<1>1. 0 \in S
  <2> DEFINE f == [k \in 1 .. 0 |-> 0]
  <2>1. 1 .. 0 = {}  OBVIOUS
  <2>2. IsFlat(f, p, 0)  BY <2>1 DEF IsFlat
  <2> HIDE DEF f
  <2> QED BY <2>2
<1>2. ASSUME NEW j \in Nat, j \in S PROVE j + 1 \in S
  <2>1. PICK f : IsFlat(f, p, j)  BY <1>2
  <2>2. \A k \in 1 .. j : f[k] = IF k = 1 THEN p[k] ELSE f[k-1] \o p[k]
    BY <2>1 DEF IsFlat
  <2> DEFINE v == IF j = 0 THEN p[j + 1] ELSE f[j] \o p[j + 1]
             w == [k \in 1 .. j + 1 |-> IF k = j + 1 THEN v ELSE f[k]]
  <2>3. \A k \in 1 .. j + 1 : w[k] = IF k = j + 1 THEN v ELSE f[k]  OBVIOUS
  <2>4. w = [k \in 1 .. j + 1 |-> w[k]]  OBVIOUS
  <2> HIDE DEF w
  <2>5. ASSUME NEW k \in 1 .. j + 1
        PROVE  w[k] = IF k = 1 THEN p[k] ELSE w[k-1] \o p[k]
    <3>1. CASE k = j + 1
      <4>1. w[k] = v  BY <2>3, <3>1
      <4>2. CASE j = 0  BY <3>1, <4>1, <4>2
      <4>3. CASE j # 0
        <5>1. k - 1 = j /\ k # 1 /\ j \in 1 .. j + 1 /\ j # j + 1  BY <3>1, <4>3
        <5>2. w[j] = f[j]  BY <2>3, <5>1
        <5>3. v = f[j] \o p[k]  BY <3>1, <4>3
        <5> HIDE DEF v
        <5> QED BY <4>1, <5>1, <5>2, <5>3
      <4> QED BY <4>2, <4>3
    <3>2. CASE k # j + 1
      <4>1. k \in 1 .. j /\ w[k] = f[k]  BY <2>3, <3>2
      <4>2. CASE k = 1  BY <2>2, <4>1, <4>2
      <4>3. CASE k # 1
        <5>1. k - 1 \in 1 .. j + 1 /\ k - 1 # j + 1  BY <4>1, <4>3
        <5>2. w[k-1] = f[k-1]  BY <2>3, <5>1
        <5> QED BY <2>2, <4>1, <4>3, <5>2
      <4> QED BY <4>2, <4>3
    <3> QED BY <3>1, <3>2
  <2>6. IsFlat(w, p, j + 1)  BY <2>4, <2>5 DEF IsFlat
  <2> QED BY <2>6
<1>3. \A j \in Nat : j \in S => j + 1 \in S  BY <1>2
<1>4. n \in S
  <2> HIDE DEF S
  <2> QED BY <1>1, <1>3, SetInduction
<1> QED BY <1>4

\* The pieces have the sizes of the instructions.
ArePieces(p, insts, n, V) ==
    \A k \in 1 .. n : p[k] \in Seq(V) /\ Len(p[k]) = SizeOf(insts[k])

\* The code of the first k instructions has each of them at its offset.
AreParts(f, p, insts, n, V) ==
    \A k \in 1 .. n :
        /\ f[k] \in Seq(V) /\ Len(f[k]) = CodeOffset(insts, k + 1)
        /\ \A m \in 1 .. k :
              /\ CodeOffset(insts, m) \in Nat
              /\ CodeOffset(insts, m) + SizeOf(insts[m]) <= Len(f[k])
              /\ \A j \in 1 .. SizeOf(insts[m]) : f[k][CodeOffset(insts, m) + j] = p[m][j]

\* The pieces are in the code, each where the sizes of those before it put it.
LEMMA FlatParts ==
    ASSUME NEW V, NEW insts, NEW n \in Nat, NEW p, NEW f, IsFlat(f, p, n),
           ArePieces(p, insts, n, V)
    PROVE  AreParts(f, p, insts, n, V)
<1> DEFINE o(k) == CodeOffset(insts, k)
           Part(k) == /\ f[k] \in Seq(V) /\ Len(f[k]) = o(k + 1)
                      /\ \A m \in 1 .. k :
                            /\ o(m) \in Nat
                            /\ o(m) + SizeOf(insts[m]) <= Len(f[k])
                            /\ \A j \in 1 .. SizeOf(insts[m]) : f[k][o(m) + j] = p[m][j]
           S == {k \in Nat : k <= n /\ k # 0 => Part(k)}
<1>1. \A k \in 1 .. n : f[k] = IF k = 1 THEN p[k] ELSE f[k-1] \o p[k]  BY DEF IsFlat
<1>2. o(1) = 0 /\ \A k \in Nat \ {0} : o(k + 1) = o(k) + SizeOf(insts[k])  BY OffsetNext
<1>3. \A i : SizeOf(i) \in {4, 8}  BY Sizes
<1> HIDE DEF o
<1>4. 0 \in S  OBVIOUS
<1>5. ASSUME NEW k \in Nat, k \in S PROVE k + 1 \in S
  <2> SUFFICES ASSUME k + 1 <= n PROVE Part(k + 1)
    OBVIOUS
  <2>1. PICK l \in 1 .. n : l = k + 1  OBVIOUS
  <2>2. p[l] \in Seq(V) /\ Len(p[l]) = SizeOf(insts[l])  BY DEF ArePieces
  <2>3. CASE k = 0
    <3>1. l = 1 /\ f[1] = p[1]  BY <1>1, <2>1, <2>3
    <3>2. PICK z \in {4, 8} : z = SizeOf(insts[1])  BY <1>3
    <3>3. o(2) = z
      <4>1. PICK u \in Nat \ {0} : u = 1  OBVIOUS
      <4>2. o(u + 1) = o(u) + SizeOf(insts[u]) /\ u + 1 = 2  BY <1>2, <4>1
      <4> QED BY <1>2, <3>2, <4>1, <4>2
    <3>4. f[1] \in Seq(V) /\ Len(f[1]) = z  BY <2>2, <3>1, <3>2
    <3>5. \A j \in 1 .. z : f[1][o(1) + j] = p[1][j]
      <4>1. \A j \in 1 .. z : o(1) + j = j  BY <1>2
      <4> QED BY <3>1, <4>1
    <3>6. \A m \in 1 .. 1 : m = 1  OBVIOUS
    <3>7. o(1) \in Nat /\ o(1) + z <= z  BY <1>2
    <3>8. \A m \in 1 .. 1 : /\ o(m) \in Nat
                           /\ o(m) + SizeOf(insts[m]) <= Len(f[1])
                           /\ \A j \in 1 .. SizeOf(insts[m]) : f[1][o(m) + j] = p[m][j]
      BY <3>2, <3>4, <3>5, <3>6, <3>7
    <3>9. Part(1)
      <4>1. 1 + 1 = 2  OBVIOUS
      <4> QED BY <3>3, <3>4, <3>8, <4>1
    <3>10. k + 1 = 1  BY <2>3
    <3> HIDE DEF Part
    <3> QED BY <3>9, <3>10
  <2>4. CASE k # 0
    <3>1. Part(k) /\ k \in Nat \ {0}  BY <1>5, <2>1, <2>4
    <3>2. f[l] = f[k] \o p[l]
      <4>1. l # 1 /\ l - 1 = k  BY <2>1, <2>4
      <4> QED BY <1>1, <4>1
    <3> DEFINE a == f[k]
               b == p[l]
    <3>3. a \in Seq(V) /\ b \in Seq(V) /\ Len(a) = o(k + 1) /\ Len(b) = SizeOf(insts[l])
      BY <2>2, <3>1
    <3>4. Len(a) \in Nat /\ Len(b) \in Nat  BY <3>3, LenProperties
    <3>5. /\ a \o b \in Seq(V) /\ Len(a \o b) = Len(a) + Len(b)
          /\ \A i \in 1 .. Len(a) + Len(b) :
                (a \o b)[i] = IF i <= Len(a) THEN a[i] ELSE b[i - Len(a)]
      BY <3>3, ConcatProperties
    <3>6. o(l + 1) = Len(a) + Len(b)
      <4>1. o(l + 1) = o(l) + SizeOf(insts[l])  BY <1>2, <2>1
      <4> QED BY <2>1, <3>3, <4>1
    <3>7. ASSUME NEW m \in 1 .. l
          PROVE  /\ o(m) \in Nat
                 /\ o(m) + SizeOf(insts[m]) <= Len(a \o b)
                 /\ \A j \in 1 .. SizeOf(insts[m]) : (a \o b)[o(m) + j] = p[m][j]
      <4>1. PICK z \in {4, 8} : z = SizeOf(insts[m])  BY <1>3
      <4>2. CASE m = l
        <5>1. o(m) = Len(a) /\ z = Len(b)  BY <2>1, <3>3, <4>1, <4>2
        <5>2. ASSUME NEW j \in 1 .. z PROVE (a \o b)[o(m) + j] = p[m][j]
          <6> HIDE DEF a, b
          <6>1. PICK i \in Nat : i = Len(a) + j  BY <3>4
          <6>2. i \in 1 .. Len(a) + Len(b) /\ ~(i <= Len(a)) /\ i - Len(a) = j
            BY <3>4, <5>1, <6>1
          <6>3. (a \o b)[i] = b[j]  BY <3>5, <6>2
          <6> QED BY <4>2, <5>1, <6>1, <6>3 DEF b
        <5> HIDE DEF a, b
        <5> QED BY <3>4, <3>5, <4>1, <5>1, <5>2
      <4>3. CASE m # l
        <5>1. m \in 1 .. k  BY <2>1, <4>3
        <5>2. o(m) \in Nat /\ o(m) + z <= Len(a) /\ \A j \in 1 .. z : a[o(m) + j] = p[m][j]
          BY <3>1, <4>1, <5>1
        <5>3. ASSUME NEW j \in 1 .. z PROVE (a \o b)[o(m) + j] = p[m][j]
          <6>1. a[o(m) + j] = p[m][j]  BY <5>2
          <6> HIDE DEF a, b
          <6>2. PICK i \in Nat : i = o(m) + j  BY <5>2
          <6>3. i \in 1 .. Len(a) + Len(b) /\ i <= Len(a)  BY <3>4, <5>2, <6>2
          <6>4. (a \o b)[i] = a[i]  BY <3>5, <6>3
          <6> QED BY <6>1, <6>2, <6>4
        <5> HIDE DEF a, b
        <5> QED BY <3>4, <3>5, <4>1, <5>2, <5>3
      <4> QED BY <4>2, <4>3
    <3> HIDE DEF a, b
    <3>8. f[l] = a \o b  BY <3>2 DEF a, b
    <3>9. Part(l)  BY <3>5, <3>6, <3>7, <3>8
    <3> HIDE DEF Part
    <3> QED BY <2>1, <3>9
  <2> QED BY <2>3, <2>4
<1>6. Nat \subseteq S
  <2> HIDE DEF S
  <2> QED BY <1>4, <1>5, SetInduction
<1>7. \A k \in 1 .. n : Part(k)
  <2> HIDE DEF Part
  <2> QED BY <1>6
<1> QED BY <1>7 DEF o, AreParts

\* An instruction has as many bytes as its mode says.
LEMMA BinaryIs ==
    ASSUME NEW i
    PROVE  DOMAIN BinaryOf(i) = 1 .. SizeOf(i)
           /\ BinaryOf(i) = [j \in 1 .. SizeOf(i) |-> BinaryOf(i)[j]]
<1> DEFINE am   == TY_AM[i.op]
           opds == Operands(UwinstRow[i.op], i)
           byte(k) == LET from[b \in 0 .. 8] ==
                              IF b = 8 THEN 0
                              ELSE StorageBit(Set_am[am][8 * (k - 1) + b], opds) + 2 * from[b + 1]
                      IN  from[0]
<1>1. BinaryOf(i) = [k \in 1 .. SizeOf(i) |-> byte(k)]
  BY Zenon DEF BinaryOf, Emit_binary, SizeOf
<1> HIDE DEF byte
<1> QED BY <1>1

\* A part of a sequence.
LEMMA CutIs ==
    ASSUME NEW V, NEW c \in Seq(V), NEW a \in Nat, NEW z \in Nat, a + z <= Len(c)
    PROVE  SubSeq(c, a + 1, a + z) = [j \in 1 .. z |-> c[a + j]]
<1>1. Len(c) \in Nat /\ \A i \in 1 .. Len(c) : c[i] \in V  BY LenProperties
<1>2. PICK m, n \in Int : m = a + 1 /\ n = a + z  OBVIOUS
<1>3. \A i \in m .. n : c[i] \in V  BY <1>1, <1>2
<1> DEFINE s == SubSeq(c, m, n)
<1>4. /\ s \in Seq(V) /\ Len(s) = IF m <= n THEN n - m + 1 ELSE 0
      /\ \A i \in 1 .. n - m + 1 : s[i] = c[m + i - 1]
  BY <1>3, SubSeqProperties
<1> HIDE DEF s
<1>5. Len(s) = z /\ n - m + 1 = z  BY <1>2, <1>4
<1>6. s = [i \in 1 .. z |-> s[i]]  BY <1>4, <1>5, LenProperties
<1>7. \A i \in 1 .. z : m + i - 1 = a + i  BY <1>2
<1> QED BY <1>2, <1>4, <1>5, <1>6, <1>7 DEF s
-----------------------------------------------------------------------------
(* The bytes of an instruction.                                              *)

\* A bounded set's largest number is one of them.
LEMMA MaxIn ==
    ASSUME NEW n \in Nat, NEW T, T \subseteq 0 .. n, T # {}
    PROVE  Max(T) \in T /\ \A x \in T : x <= Max(T)
<1> DEFINE U == {n - x : x \in T}
<1>1. U \subseteq Nat /\ U # {}
  <2>1. \A x \in T : x \in 0 .. n /\ n - x \in Nat  OBVIOUS
  <2>2. PICK x \in T : TRUE  OBVIOUS
  <2>3. n - x \in U  OBVIOUS
  <2> QED BY <2>1, <2>3
<1>2. PICK u \in U : \A v \in U : u <= v
  <2> HIDE DEF U
  <2> QED BY <1>1, SmallestOf
<1>3. PICK x \in T : u = n - x  OBVIOUS
<1>4. \A y \in T : y <= x
  <2> SUFFICES ASSUME NEW y \in T PROVE y <= x
    OBVIOUS
  <2>1. n - y \in U  OBVIOUS
  <2>2. n - x <= n - y  BY <1>2, <1>3, <2>1
  <2> QED BY <2>2
<1>5. \E z \in T : \A y \in T : z >= y  BY <1>4
<1>6. Max(T) \in T /\ \A y \in T : Max(T) >= y  BY <1>5, Zenon DEF Max
<1> QED BY <1>6

OpdNames == {"code", "high", "one", "zero", "rd", "rs", "rt", "ofs"}
Modes    == {"AM32", "AM32_R", "AM32_OFS", "AM32_R_OFS", "AM32_R_R", "AM32_IMM_OFS",
             "AM64_R_R_R", "AM64_R_OFS", "AM64_R_R_OFS"}
Fields   == {"b32", "mn", "mn2", "rd", "rs", "rt", "lofs", "sofs"}
Puts     == [am : Modes, field : Fields, of : OpdNames]

\* The modes there are.
LEMMA ModesAre == DOMAIN AM = Modes
BY Zenon DEF AM, Modes

\* What the constructor and the setters write are operands.
LEMMA SettersPut ==
    ASSUME NEW am \in Modes
    PROVE  /\ NewUwasm(am) \in Seq(Puts) /\ Set_rd(am) \in Seq(Puts) /\ Set_rs(am) \in Seq(Puts)
           /\ Set_rt(am) \in Seq(Puts) /\ Set_ofs(am) \in Seq(Puts)
<1>1. \A a, b, c \in Puts : <<a>> \in Seq(Puts) /\ <<a, b>> \in Seq(Puts)
                           /\ <<a, b, c>> \in Seq(Puts) /\ <<>> \in Seq(Puts)
  OBVIOUS
<1>2. \A m \in Modes, f \in Fields, o \in OpdNames : Put(m, f, o) \in Puts  BY DEF Put, Puts
<1>3. Puts # {}
  <2>1. "AM32" \in Modes /\ "mn" \in Fields /\ "zero" \in OpdNames
    BY DEF Modes, Fields, OpdNames
  <2> QED BY <1>2, <2>1
<1>4. <<>> \in Seq(Puts)  OBVIOUS
<1> USE DEF Modes, Fields, OpdNames
<1>5. NewUwasm(am) \in Seq(Puts)
  <2>1. /\ Put("AM32_R", "mn", "code") \in Puts /\ Put("AM64_R_R_OFS", "b32", "one") \in Puts
        /\ Put("AM64_R_R_OFS", "mn", "high") \in Puts /\ Put("AM64_R_R_OFS", "mn2", "code") \in Puts
    BY <1>2
  <2> QED BY <1>1, <2>1, Zenon DEF NewUwasm
<1>6. Set_rd(am) \in Seq(Puts)
  <2>1. Put("AM32_R", "rd", "rd") \in Puts /\ Put("AM64_R_R_R", "rd", "rd") \in Puts  BY <1>2
  <2> QED BY <1>1, <1>4, <2>1, Zenon DEF Set_rd
<1>7. Set_rs(am) \in Seq(Puts)
  <2>1. Put(am, "rs", "rs") \in Puts  BY <1>2
  <2> QED BY <1>1, <1>4, <2>1, Zenon DEF Set_rs
<1>8. Set_rt(am) \in Seq(Puts)
  <2>1. Put(am, "rt", "rt") \in Puts  BY <1>2
  <2> QED BY <1>1, <1>4, <2>1, Zenon DEF Set_rt
<1>9. Set_ofs(am) \in Seq(Puts)
  <2>1. /\ Put("AM32_OFS", "lofs", "ofs") \in Puts /\ Put("AM32_R_OFS", "sofs", "ofs") \in Puts
        /\ Put(am, "sofs", "ofs") \in Puts /\ Put(am, "lofs", "ofs") \in Puts
    BY <1>2
  <2> QED BY <1>1, <1>4, <2>1, Zenon DEF Set_ofs
<1> QED BY <1>5, <1>6, <1>7, <1>8, <1>9

\* Each bit of the storage is one of an operand, or of zero.
LEMMA StorageOperand ==
    ASSUME NEW am \in Modes, NEW b \in 0 .. 63
    PROVE  Set_am[am][b].of \in OpdNames
<1> DEFINE puts == NewUwasm(am) \o Set_rd(am) \o Set_rs(am) \o Set_rt(am) \o Set_ofs(am)
           at   == [n \in DOMAIN puts |-> FieldBits[puts[n].am][puts[n].field]]
           L    == {n \in DOMAIN puts : b \in at[n]}
           last == Max({0} \cup L)
<1>1. Set_am[am][b] = IF last = 0 THEN [of |-> "zero", bit |-> 0]
                      ELSE [of |-> puts[last].of, bit |-> b - Min(at[last])]
  BY ModesAre, Zenon DEF Set_am
<1>2. puts \in Seq(Puts)
  <2>1. PICK p, q, r, s, t \in Seq(Puts) :
            p = NewUwasm(am) /\ q = Set_rd(am) /\ r = Set_rs(am) /\ s = Set_rt(am) /\ t = Set_ofs(am)
    BY SettersPut
  <2>2. p \o q \o r \o s \o t \in Seq(Puts)  OBVIOUS
  <2> QED BY <2>1, <2>2
<1> HIDE DEF puts
<1>3. Len(puts) \in Nat /\ DOMAIN puts = 1 .. Len(puts)
      /\ \A n \in DOMAIN puts : puts[n] \in Puts
  BY <1>2, SeqBasics
<1>4. L \subseteq DOMAIN puts  OBVIOUS
<1> HIDE DEF at, L
<1>5. {0} \cup L \subseteq 0 .. Len(puts) /\ {0} \cup L # {}  BY <1>3, <1>4
<1>6. last \in {0} \cup L
  <2>1. PICK T : T = {0} \cup L  OBVIOUS
  <2> QED BY <1>3, <1>5, <2>1, MaxIn
<1> HIDE DEF last
<1>7. CASE last = 0  BY <1>1, <1>7 DEF OpdNames
<1>8. CASE last # 0
  <2>1. puts[last] \in Puts  BY <1>3, <1>4, <1>6, <1>8
  <2>2. puts[last].of \in OpdNames  BY <2>1 DEF Puts
  <2> QED BY <1>1, <1>8, <2>2
<1> QED BY <1>7, <1>8

\* The modes the table uses.
RowModes == {"AM32", "AM32_R", "AM32_R_R", "AM32_R_OFS",
             "AM64_R_R_R", "AM64_R_OFS", "AM64_R_R_OFS"}

\* What is known of the row of an instruction.
LEMMA RowOf ==
    ASSUME NEW n \in DOMAIN TY_AM
    PROVE  /\ TY_AM[n] \in RowModes /\ TY_AM[n] \in Modes
           /\ UwinstRow[n].uwasm_op \in 0 .. 255
<1>1. n \in DOMAIN UwinstRow /\ TY_AM[n] = UwinstRow[n].ty_am  BY DEF TY_AM
<1>2. \E r \in ToSet(UWASM_META_INFO) : r["name"] = n
  BY <1>1, Zenon DEF UwinstRow, FirstRows
<1>3. PICK row : row = UwinstRow[n]  OBVIOUS
<1>4. row \in ToSet(UWASM_META_INFO)  BY <1>2, <1>3, FirstRowOf, Zenon DEF UwinstRow
<1>5. row.ty_am \in RowModes /\ row.uwasm_op \in 0 .. 255
  <2>1. CASE row \in ToSet(ControlRows)
    <3>1. DOMAIN ControlRows = 1 .. 26  BY DEF ControlRows
    <3>2. ASSUME NEW i \in 1 .. 26
          PROVE  ControlRows[i].ty_am \in RowModes /\ ControlRows[i].uwasm_op \in 0 .. 255
      BY SMTT(60) DEF ControlRows, Row, RowModes
    <3> QED BY <2>1, <3>1, <3>2 DEF ToSet
  <2>2. ASSUME NEW lo \in Nat, NEW hi \in Nat, NEW am \in RowModes, hi <= 255, InRun(row, lo, hi, am)
        PROVE  row.ty_am \in RowModes /\ row.uwasm_op \in 0 .. 255
    BY <2>2 DEF InRun, RunRow, Row
  <2>3. CASE row = MovRow  BY <2>3 DEF MovRow, Row, RowModes
  <2>4. "AM64_R_R_OFS" \in RowModes /\ "AM32_R" \in RowModes /\ "AM64_R_OFS" \in RowModes
        /\ "AM64_R_R_R" \in RowModes
    BY DEF RowModes
  <2> DEFINE Good == row.ty_am \in RowModes /\ row.uwasm_op \in 0 .. 255
  <2>5. /\ InRun(row, 40, 62, "AM64_R_R_OFS") => Good
        /\ InRun(row, 63, 64, "AM32_R") => Good
        /\ InRun(row, 65, 69, "AM64_R_OFS") => Good
    BY <2>2, <2>4
  <2>6. /\ InRun(row, 70, 72, "AM64_R_R_R") => Good
        /\ InRun(row, 73, 105, "AM64_R_OFS") => Good
        /\ InRun(row, 106, 191, "AM64_R_R_R") => Good
    BY <2>2, <2>4
  <2>7. Good
    <3> HIDE DEF Good
    <3>1. row = MovRow => Good  BY <2>3 DEF Good
    <3>2. row \in ToSet(ControlRows) => Good  BY <2>1 DEF Good
    <3> QED BY <1>4, <2>5, <2>6, <3>1, <3>2, TableRows, Zenon
  <2> QED BY <2>7
<1>6. RowModes \subseteq Modes  BY DEF RowModes, Modes
<1> QED BY <1>1, <1>3, <1>5, <1>6

\* The operands are numbers.
LEMMA OperandsNat ==
    ASSUME NEW i \in UWASM_INST, NEW of \in OpdNames
    PROVE  Operands(UwinstRow[i.op], i)[of] \in Nat
<1>1. i.op \in DOMAIN TY_AM /\ i.rd \in Nat /\ i.rs \in Nat /\ i.rt \in Nat /\ i.ofs \in Nat
  BY DEF UWASM_INST
<1>2. PICK c \in Nat : c = UwinstRow[i.op].uwasm_op  BY <1>1, RowOf
<1>3. c \div 2^8 \in Nat
  <2>1. 2^8 = 256  OBVIOUS
  <2> QED BY <2>1
<1> DEFINE o == Operands(UwinstRow[i.op], i)
<1>4. /\ o["code"] = c /\ o["high"] = c \div 2^8 /\ o["one"] = 1 /\ o["zero"] = 0
      /\ o["rd"] = i.rd /\ o["rs"] = i.rs /\ o["rt"] = i.rt /\ o["ofs"] = i.ofs
  BY <1>2 DEF Operands
<1> HIDE DEF o
<1> QED BY <1>1, <1>3, <1>4 DEF OpdNames, o

\* A bit is 0 or 1.
LEMMA BitIs ==
    ASSUME NEW from, NEW opds, opds[from.of] \in Nat
    PROVE  StorageBit(from, opds) \in {0, 1}
<1>1. CASE from.bit \in 0 .. 30
  <2>1. PICK n \in 0 .. 30 : n = from.bit  BY <1>1
  <2>2. 2^n \in Nat \ {0}
    <3>1. CASE n <= 15
      <4>1. n \in {0, 1, 2, 3, 4, 5, 6, 7, 8, 9, 10, 11, 12, 13, 14, 15}  BY <3>1
      <4>2. 2^n \in {2^0, 2^1, 2^2, 2^3, 2^4, 2^5, 2^6, 2^7, 2^8, 2^9, 2^10, 2^11, 2^12,
                     2^13, 2^14, 2^15}
        BY <4>1, Zenon
      <4>3. {2^0, 2^1, 2^2, 2^3, 2^4, 2^5, 2^6, 2^7, 2^8, 2^9, 2^10, 2^11, 2^12,
             2^13, 2^14, 2^15}
              \subseteq Nat \ {0}
        OBVIOUS
      <4> QED BY <4>2, <4>3
    <3>2. CASE n > 15
      <4>1. n \in {16, 17, 18, 19, 20, 21, 22, 23, 24, 25, 26, 27, 28, 29, 30}  BY <3>2
      <4>2. 2^n \in {2^16, 2^17, 2^18, 2^19, 2^20, 2^21, 2^22, 2^23, 2^24, 2^25, 2^26,
                     2^27, 2^28, 2^29, 2^30}
        BY <4>1, Zenon
      <4>3. {2^16, 2^17, 2^18, 2^19, 2^20, 2^21, 2^22, 2^23, 2^24, 2^25, 2^26,
             2^27, 2^28, 2^29, 2^30}
              \subseteq Nat \ {0}
        OBVIOUS
      <4> QED BY <4>2, <4>3
    <3> QED BY <3>1, <3>2
  <2>3. PICK d \in Nat \ {0} : d = 2 ^ from.bit  BY <2>1, <2>2
  <2>4. PICK x \in Nat : x = opds[from.of]  OBVIOUS
  <2>5. PICK y \in Nat : y = x \div d  OBVIOUS
  <2>6. y % 2 \in {0, 1}  OBVIOUS
  <2>7. StorageBit(from, opds) = y % 2  BY <1>1, <2>3, <2>4, <2>5 DEF StorageBit
  <2> QED BY <2>6, <2>7
<1>2. CASE from.bit \notin 0 .. 30  BY <1>2 DEF StorageBit
<1> QED BY <1>1, <1>2

\* A byte and its bits.
HasBits(byte, bit) ==
    byte \in 0 .. 255 /\ \A j \in 0 .. 7 : (byte \div 2^j) % 2 = bit[j]

Doubled(x, b, y) == x \in Nat /\ y \in Nat /\ b \in {0, 1} /\ x = b + 2 * y

\* A bit put below the others.
LEMMA DoubledIs ==
    ASSUME NEW x, NEW b, NEW y, Doubled(x, b, y)
    PROVE  x \div 2 = y /\ x % 2 = b
BY DEF Doubled

\* Eight bits make a byte.
LEMMA ByteOf ==
    ASSUME NEW bit, \A b \in 0 .. 7 : bit[b] \in {0, 1}
    PROVE  HasBits((CHOOSE from : from = [b \in 0 .. 8 |->
                        IF b = 8 THEN 0 ELSE bit[b] + 2 * from[b + 1]])[0], bit)
<1> DEFINE T(g) == [b \in 0 .. 8 |-> IF b = 8 THEN 0 ELSE bit[b] + 2 * g[b + 1]]
           f == CHOOSE g : g = T(g)
           S == {j \in Nat : \E g : \A b \in 0 .. 8 : b + j >= 9 => g[b] = T(g)[b]}
<1>1. \A g : \A b \in 0 .. 8 : T(g)[b] = IF b = 8 THEN 0 ELSE bit[b] + 2 * g[b + 1]
  OBVIOUS
<1>2. \A g : T(g) = [b \in 0 .. 8 |-> T(g)[b]]  OBVIOUS
<1> HIDE DEF T
<1>3. 0 \in S  OBVIOUS
<1>4. ASSUME NEW j \in Nat, j \in S PROVE j + 1 \in S
  <2>1. PICK g : \A b \in 0 .. 8 : b + j >= 9 => g[b] = T(g)[b]  BY <1>4
  <2>2. PICK h : h = T(g)  OBVIOUS
  <2>3. ASSUME NEW b \in 0 .. 8, b + (j + 1) >= 9 PROVE h[b] = T(h)[b]
    <3>1. h[b] = IF b = 8 THEN 0 ELSE bit[b] + 2 * g[b + 1]  BY <1>1, <2>2
    <3>2. T(h)[b] = IF b = 8 THEN 0 ELSE bit[b] + 2 * h[b + 1]  BY <1>1
    <3>3. CASE b = 8  BY <3>1, <3>2, <3>3
    <3>4. CASE b # 8
      <4>1. b + 1 \in 0 .. 8 /\ (b + 1) + j >= 9  BY <2>3, <3>4
      <4>2. g[b + 1] = h[b + 1]  BY <2>1, <2>2, <4>1
      <4> QED BY <3>1, <3>2, <3>4, <4>2
    <3> QED BY <3>3, <3>4
  <2> QED BY <2>3
<1>5. \E g : g = T(g)
  <2>1. 9 \in S
    <3> HIDE DEF S
    <3> QED BY <1>3, <1>4, SetInduction
  <2>2. PICK g : \A b \in 0 .. 8 : b + 9 >= 9 => g[b] = T(g)[b]  BY <2>1
  <2>3. PICK h : h = T(g)  OBVIOUS
  <2>4. \A b \in 0 .. 8 : h[b] = T(h)[b]
    <3> SUFFICES ASSUME NEW b \in 0 .. 8 PROVE h[b] = T(h)[b]
      OBVIOUS
    <3>1. h[b] = IF b = 8 THEN 0 ELSE bit[b] + 2 * g[b + 1]  BY <1>1, <2>3
    <3>2. T(h)[b] = IF b = 8 THEN 0 ELSE bit[b] + 2 * h[b + 1]  BY <1>1
    <3>3. b # 8 => g[b + 1] = h[b + 1]  BY <2>2, <2>3
    <3> QED BY <3>1, <3>2, <3>3
  <2>5. h = [b \in 0 .. 8 |-> h[b]]  BY <1>2, <2>3
  <2>6. T(h) = [b \in 0 .. 8 |-> T(h)[b]]  BY <1>2
  <2> QED BY <2>4, <2>5, <2>6
<1>6. f = T(f)  BY <1>5
<1> HIDE DEF f
<1>7. \A b \in 0 .. 8 : f[b] = IF b = 8 THEN 0 ELSE bit[b] + 2 * f[b + 1]  BY <1>1, <1>6
<1>8. f[7] \in 0 .. 1
  <2>1. f[8] = 0 /\ f[7] = bit[7] + 2 * f[8]  BY <1>7
  <2> QED BY <2>1
<1>9. f[6] \in 0 .. 3
  <2>1. f[6] = bit[6] + 2 * f[7]  BY <1>7
  <2> QED BY <1>8, <2>1
<1>10. f[5] \in 0 .. 7
  <2>1. f[5] = bit[5] + 2 * f[6]  BY <1>7
  <2> QED BY <1>9, <2>1
<1>11. f[4] \in 0 .. 15
  <2>1. f[4] = bit[4] + 2 * f[5]  BY <1>7
  <2> QED BY <1>10, <2>1
<1>12. f[3] \in 0 .. 31
  <2>1. f[3] = bit[3] + 2 * f[4]  BY <1>7
  <2> QED BY <1>11, <2>1
<1>13. f[2] \in 0 .. 63
  <2>1. f[2] = bit[2] + 2 * f[3]  BY <1>7
  <2> QED BY <1>12, <2>1
<1>14. f[1] \in 0 .. 127
  <2>1. f[1] = bit[1] + 2 * f[2]  BY <1>7
  <2> QED BY <1>13, <2>1
<1>15. f[0] \in 0 .. 255
  <2>1. f[0] = bit[0] + 2 * f[1]  BY <1>7
  <2> QED BY <1>14, <2>1
<1>16. \A j \in 0 .. 7 : (f[0] \div 2^j) % 2 = bit[j]
  <2>1. PICK x \in 0 .. 255, x1 \in 0 .. 127, x2 \in 0 .. 63, x3 \in 0 .. 31, x4 \in 0 .. 15,
             x5 \in 0 .. 7, x6 \in 0 .. 3, x7 \in 0 .. 1 :
            /\ x = f[0] /\ x1 = f[1] /\ x2 = f[2] /\ x3 = f[3]
            /\ x4 = f[4] /\ x5 = f[5] /\ x6 = f[6] /\ x7 = f[7]
    BY <1>8, <1>9, <1>10, <1>11, <1>12, <1>13, <1>14, <1>15
  <2>2. /\ x = bit[0] + 2 * x1 /\ x1 = bit[1] + 2 * x2 /\ x2 = bit[2] + 2 * x3
        /\ x3 = bit[3] + 2 * x4 /\ x4 = bit[4] + 2 * x5 /\ x5 = bit[5] + 2 * x6
        /\ x6 = bit[6] + 2 * x7 /\ x7 = bit[7]
    BY <1>7, <2>1
  <2>4. x \div 2 = x1 /\ x % 2 = bit[0]
    <3>1. x \in Nat /\ x1 \in Nat /\ bit[0] \in {0, 1}  OBVIOUS
    <3>2. Doubled(x, bit[0], x1)  BY <2>2, <3>1 DEF Doubled
    <3> QED BY <3>2, DoubledIs
  <2>5. x1 \div 2 = x2 /\ x1 % 2 = bit[1]
    <3>1. x1 \in Nat /\ x2 \in Nat /\ bit[1] \in {0, 1}  OBVIOUS
    <3>2. Doubled(x1, bit[1], x2)  BY <2>2, <3>1 DEF Doubled
    <3> QED BY <3>2, DoubledIs
  <2>6. x2 \div 2 = x3 /\ x2 % 2 = bit[2]
    <3>1. x2 \in Nat /\ x3 \in Nat /\ bit[2] \in {0, 1}  OBVIOUS
    <3>2. Doubled(x2, bit[2], x3)  BY <2>2, <3>1 DEF Doubled
    <3> QED BY <3>2, DoubledIs
  <2>7. x3 \div 2 = x4 /\ x3 % 2 = bit[3]
    <3>1. x3 \in Nat /\ x4 \in Nat /\ bit[3] \in {0, 1}  OBVIOUS
    <3>2. Doubled(x3, bit[3], x4)  BY <2>2, <3>1 DEF Doubled
    <3> QED BY <3>2, DoubledIs
  <2>8. x4 \div 2 = x5 /\ x4 % 2 = bit[4]
    <3>1. x4 \in Nat /\ x5 \in Nat /\ bit[4] \in {0, 1}  OBVIOUS
    <3>2. Doubled(x4, bit[4], x5)  BY <2>2, <3>1 DEF Doubled
    <3> QED BY <3>2, DoubledIs
  <2>9. x5 \div 2 = x6 /\ x5 % 2 = bit[5]
    <3>1. x5 \in Nat /\ x6 \in Nat /\ bit[5] \in {0, 1}  OBVIOUS
    <3>2. Doubled(x5, bit[5], x6)  BY <2>2, <3>1 DEF Doubled
    <3> QED BY <3>2, DoubledIs
  <2>10. x6 \div 2 = x7 /\ x6 % 2 = bit[6]
    <3>1. x6 \in Nat /\ x7 \in Nat /\ bit[6] \in {0, 1}  OBVIOUS
    <3>2. Doubled(x6, bit[6], x7)  BY <2>2, <3>1 DEF Doubled
    <3> QED BY <3>2, DoubledIs
  <2>11. x7 \div 2 = 0 /\ x7 % 2 = bit[7]
    <3>1. x7 \in Nat /\ 0 \in Nat /\ bit[7] \in {0, 1}  OBVIOUS
    <3>2. Doubled(x7, bit[7], 0)  BY <2>2, <3>1 DEF Doubled
    <3> QED BY <3>2, DoubledIs
  <2>12. /\ x \div 2^0 = x /\ x \div 2^1 = x1
         /\ x \div 2^2 = x2 /\ x \div 2^3 = x3
    BY <2>4, <2>5, <2>6
  <2>13. /\ x \div 2^4 = x3 \div 2 /\ x \div 2^5 = x4 \div 2
         /\ x \div 2^6 = x5 \div 2 /\ x \div 2^7 = x6 \div 2
    BY <2>4, <2>5, <2>6, <2>7, <2>8, <2>9, <2>10
  <2>14. /\ (x \div 2^0) % 2 = bit[0] /\ (x \div 2^1) % 2 = bit[1]
         /\ (x \div 2^2) % 2 = bit[2] /\ (x \div 2^3) % 2 = bit[3]
         /\ (x \div 2^4) % 2 = bit[4] /\ (x \div 2^5) % 2 = bit[5]
         /\ (x \div 2^6) % 2 = bit[6] /\ (x \div 2^7) % 2 = bit[7]
    BY <2>4, <2>5, <2>6, <2>7, <2>8, <2>9, <2>10, <2>11, <2>12, <2>13
  <2>15. \A j \in 0 .. 7 : j \in {0, 1, 2, 3, 4, 5, 6, 7}  OBVIOUS
  <2>16. \A j \in {0, 1, 2, 3, 4, 5, 6, 7} : (x \div 2^j) % 2 = bit[j]  BY <2>14, Zenon
  <2> QED BY <2>1, <2>15, <2>16, ZenonT(40)
<1> QED BY <1>15, <1>16, Zenon DEF f, T, HasBits

\* The bits of the k-th byte of an instruction.
ByteBits(i, k) ==
    [b \in 0 .. 7 |-> StorageBit(Set_am[TY_AM[i.op]][8 * (k - 1) + b],
                                Operands(UwinstRow[i.op], i))]

\* What is written of an instruction are bytes, and their bits are those of its operands.
LEMMA BytesOfInst ==
    ASSUME NEW i \in UWASM_INST, NEW k \in 1 .. SizeOf(i)
    PROVE  HasBits(BinaryOf(i)[k], ByteBits(i, k))
<1> DEFINE am   == TY_AM[i.op]
           opds == Operands(UwinstRow[i.op], i)
           bit  == [b \in 0 .. 7 |-> StorageBit(Set_am[am][8 * (k - 1) + b], opds)]
           rec(x) == CHOOSE from : from = [b \in 0 .. 8 |-> IF b = 8 THEN 0 ELSE x[b] + 2 * from[b + 1]]
           whole  == CHOOSE from : from = [b \in 0 .. 8 |->
                         IF b = 8 THEN 0
                         ELSE StorageBit(Set_am[am][8 * (k - 1) + b], opds) + 2 * from[b + 1]]
<1>1. BinaryOf(i)[k] = whole[0]  BY Zenon DEF BinaryOf, Emit_binary, SizeOf
<1>2. i.op \in DOMAIN TY_AM  BY DEF UWASM_INST
<1>3. am \in Modes  BY <1>2, RowOf
<1>4. \A b \in 0 .. 7 : 8 * (k - 1) + b \in 0 .. 63
  <2>1. k \in 1 .. 8
    <3>1. PICK z \in {4, 8} : z = SizeOf(i)  BY Sizes
    <3> QED BY <3>1
  <2> QED BY <2>1
<1>5. \A b \in 0 .. 7 : bit[b] \in {0, 1}
  <2> SUFFICES ASSUME NEW b \in 0 .. 7 PROVE bit[b] \in {0, 1}
    OBVIOUS
  <2>1. PICK m \in 0 .. 63 : m = 8 * (k - 1) + b  BY <1>4
  <2>2. PICK from : from = Set_am[am][m]  OBVIOUS
  <2>3. from.of \in OpdNames
    <3> HIDE DEF am
    <3> QED BY <1>3, <2>2, StorageOperand
  <2>4. opds[from.of] \in Nat  BY <2>3, OperandsNat
  <2> HIDE DEF opds, am
  <2>5. StorageBit(from, opds) \in {0, 1}  BY <2>4, BitIs
  <2> QED BY <2>1, <2>2, <2>5
<1>6. \A b \in 0 .. 7 : bit[b] = StorageBit(Set_am[am][8 * (k - 1) + b], opds)  OBVIOUS
<1>7. whole = rec(bit)
  <2> HIDE DEF bit, am, opds
  <2>1. \A from : [b \in 0 .. 8 |-> IF b = 8 THEN 0
                       ELSE StorageBit(Set_am[am][8 * (k - 1) + b], opds) + 2 * from[b + 1]]
                 = [b \in 0 .. 8 |-> IF b = 8 THEN 0 ELSE bit[b] + 2 * from[b + 1]]
    BY <1>6
  <2> QED BY <2>1, Zenon
<1> HIDE DEF bit
<1>8. HasBits(rec(bit)[0], bit)  BY <1>5, ByteOf, ZenonT(40)
<1> HIDE DEF whole, rec
<1>9. ByteBits(i, k) = bit  BY Zenon DEF ByteBits, bit, am, opds
<1> QED BY <1>1, <1>7, <1>8, <1>9

\* The offsets are multiples of four.
LEMMA OffsetQuads ==
    ASSUME NEW insts, NEW n \in Nat \ {0}
    PROVE  \E q \in Nat : CodeOffset(insts, n) = 4 * q
<1> DEFINE o(k) == CodeOffset(insts, k)
           S == {k \in Nat : \E q \in Nat : o(k + 1) = 4 * q}
<1>1. o(1) = 0 /\ \A k \in Nat \ {0} : o(k + 1) = o(k) + SizeOf(insts[k])  BY OffsetNext
<1> HIDE DEF o
<1>2. 0 \in S
  <2>1. 0 + 1 = 1 /\ 0 = 4 * 0  OBVIOUS
  <2> QED BY <1>1, <2>1
<1>3. ASSUME NEW k \in Nat, k \in S PROVE k + 1 \in S
  <2>1. PICK q \in Nat : o(k + 1) = 4 * q  BY <1>3
  <2>2. PICK z \in {1, 2} : 4 * z = SizeOf(insts[k + 1])
    <3>1. SizeOf(insts[k + 1]) \in {4, 8}  BY Sizes
    <3> QED BY <3>1
  <2>3. o((k + 1) + 1) = o(k + 1) + SizeOf(insts[k + 1])  BY <1>1
  <2>4. o((k + 1) + 1) = 4 * (q + z) /\ q + z \in Nat  BY <2>1, <2>2, <2>3
  <2> QED BY <2>4
<1>4. n - 1 \in S
  <2>1. n - 1 \in Nat  OBVIOUS
  <2> HIDE DEF S
  <2> QED BY <1>2, <1>3, <2>1, SetInduction
<1>5. (n - 1) + 1 = n  OBVIOUS
<1> QED BY <1>4, <1>5 DEF o

\* The code of a conversion is as long as its instructions, and each of them is at its
\* offset, whole.
LEMMA CodeFacts ==
    ASSUME NEW insts \in Seq(UWASM_INST)
    PROVE  /\ UBH_Print(insts) \in Seq(0 .. 255)
           /\ \E q \in Nat : Len(UBH_Print(insts)) = 4 * q
           /\ Len(UBH_Print(insts)) = CodeOffset(insts, Len(insts) + 1)
           /\ \A m \in DOMAIN insts :
                 /\ CodeOffset(insts, m) \in Nat
                 /\ CodeOffset(insts, m + 1) = CodeOffset(insts, m) + SizeOf(insts[m])
                 /\ CodeOffset(insts, m + 1) <= Len(UBH_Print(insts))
                 /\ SubSeq(UBH_Print(insts), CodeOffset(insts, m) + 1, CodeOffset(insts, m + 1))
                       = BinaryOf(insts[m])
<1> DEFINE n == Len(insts)
           p == [k \in DOMAIN insts |-> BinaryOf(insts[k])]
           V == 0 .. 255
           f == CHOOSE g : IsFlat(g, p, n)
<1>0. Len(insts) \in Nat /\ DOMAIN insts = 1 .. Len(insts)
      /\ \A k \in DOMAIN insts : insts[k] \in UWASM_INST
  BY SeqBasics
<1>1. ASSUME NEW k \in 1 .. n
      PROVE  /\ p[k] = BinaryOf(insts[k])
             /\ p[k] = [j \in 1 .. SizeOf(insts[k]) |-> p[k][j]]
             /\ p[k] \in Seq(V) /\ Len(p[k]) = SizeOf(insts[k])
  <2>1. p[k] = BinaryOf(insts[k])  BY <1>0
  <2>2. PICK z \in {4, 8} : z = SizeOf(insts[k])  BY Sizes
  <2> DEFINE q == BinaryOf(insts[k])
  <2>3. DOMAIN q = 1 .. z /\ q = [j \in 1 .. z |-> q[j]]  BY <2>2, BinaryIs
  <2>4. \A j \in 1 .. z : q[j] \in V  BY <1>0, <2>2, BytesOfInst DEF HasBits
  <2> HIDE DEF q, V, p
  <2>5. q \in Seq(V) /\ Len(q) = z  BY <2>3, <2>4
  <2> QED BY <2>1, <2>2, <2>3, <2>5 DEF q
<1>2. Len(p) = n /\ n \in Nat
  <2> HIDE DEF n
  <2>1. p = [k \in 1 .. n |-> BinaryOf(insts[k])]  BY <1>0 DEF n
  <2> HIDE DEF p
  <2> QED BY <1>0, <2>1 DEF n
<1>3. IsFlat(f, p, n)
  <2> HIDE DEF p
  <2>1. \E g : IsFlat(g, p, n)  BY <1>2, FlatExists
  <2> QED BY <2>1
<1>4. UBH_Print(insts) = IF n = 0 THEN p ELSE f[n]
  <2>1. UBH_Print(insts) = FlattenSeq(p)  BY DEF UBH_Print
  <2> HIDE DEF p
  <2>2. FlattenSeq(p) = IF Len(p) = 0 THEN p ELSE (CHOOSE g : IsFlat(g, p, Len(p)))[Len(p)]
    BY Zenon DEF FlattenSeq, IsFlat
  <2> QED BY <1>2, <2>1, <2>2
<1> HIDE DEF p, V, f, n
<1>5. \A k \in 1 .. n :
         /\ f[k] \in Seq(V) /\ Len(f[k]) = CodeOffset(insts, k + 1)
         /\ \A m \in 1 .. k :
               /\ CodeOffset(insts, m) \in Nat
               /\ CodeOffset(insts, m) + SizeOf(insts[m]) <= Len(f[k])
               /\ \A j \in 1 .. SizeOf(insts[m]) : f[k][CodeOffset(insts, m) + j] = p[m][j]
  <2>1. ArePieces(p, insts, n, V)  BY <1>1 DEF ArePieces
  <2>2. AreParts(f, p, insts, n, V)  BY <1>2, <1>3, <2>1, FlatParts
  <2> QED BY <2>2 DEF AreParts
<1>6. CASE n = 0
  <2>1. p = <<>>  BY <1>0, <1>6 DEF n, p
  <2>2. UBH_Print(insts) = <<>>  BY <1>4, <1>6, <2>1
  <2>3. DOMAIN insts = {} /\ Len(insts) + 1 = 1  BY <1>0, <1>6 DEF n
  <2>4. CodeOffset(insts, 1) = 0  BY OffsetNext
  <2>5. <<>> \in Seq(0 .. 255) /\ Len(<<>>) = 0 /\ 0 = 4 * 0  OBVIOUS
  <2> QED BY <2>2, <2>3, <2>4, <2>5
<1>7. CASE n # 0
  <2>1. PICK c : c = UBH_Print(insts)  OBVIOUS
  <2>2. c = f[n] /\ n \in 1 .. n /\ n \in Nat  BY <1>0, <1>4, <1>7, <2>1 DEF n
  <2>3. c \in Seq(V) /\ Len(c) = CodeOffset(insts, n + 1)  BY <1>5, <2>2
  <2>4. Len(c) \in Nat  BY <2>3, LenProperties
  <2>6. \E q \in Nat : Len(c) = 4 * q
    <3>1. n + 1 \in Nat \ {0}  BY <2>2
    <3> QED BY <2>3, <3>1, OffsetQuads
  <2>5. ASSUME NEW m \in 1 .. n
        PROVE  /\ CodeOffset(insts, m) \in Nat
               /\ CodeOffset(insts, m + 1) = CodeOffset(insts, m) + SizeOf(insts[m])
               /\ CodeOffset(insts, m + 1) <= Len(c)
               /\ SubSeq(c, CodeOffset(insts, m) + 1, CodeOffset(insts, m + 1)) = BinaryOf(insts[m])
    <3>1. PICK z \in {4, 8} : z = SizeOf(insts[m])  BY Sizes
    <3>2. PICK a : a = CodeOffset(insts, m)  OBVIOUS
    <3>3. a \in Nat /\ a + z <= Len(c) /\ \A j \in 1 .. z : c[a + j] = p[m][j]
      BY <1>5, <2>2, <3>1, <3>2
    <3>4. m \in Nat \ {0}  BY <2>2
    <3>5. CodeOffset(insts, m + 1) = a + z  BY <3>1, <3>2, <3>4, OffsetNext
    <3>6. SubSeq(c, a + 1, a + z) = [j \in 1 .. z |-> c[a + j]]
      BY <2>3, <2>4, <3>3, CutIs, SMTT(20)
    <3>7. BinaryOf(insts[m]) = [j \in 1 .. z |-> p[m][j]]  BY <1>1, <3>1
    <3>8. [j \in 1 .. z |-> c[a + j]] = [j \in 1 .. z |-> p[m][j]]  BY <3>3
    <3>9. SubSeq(c, a + 1, a + z) = BinaryOf(insts[m])  BY <3>6, <3>7, <3>8, Zenon
    <3>10. a + 1 = CodeOffset(insts, m) + 1  BY <3>2
    <3> QED BY <3>1, <3>2, <3>3, <3>5, <3>9, <3>10, Zenon
  <2> QED BY <1>0, <2>1, <2>3, <2>5, <2>6 DEF n, V
<1> QED BY <1>6, <1>7
-----------------------------------------------------------------------------
(* The file.                                                                 *)

\* The larger of two numbers.
LEMMA LargerOf ==
    ASSUME NEW a \in Nat, NEW b \in Nat
    PROVE  Max({a, b}) = IF a <= b THEN b ELSE a
<1> DEFINE n == IF a <= b THEN b ELSE a
           T == {a, b}
<1>1. n \in Nat /\ T \subseteq 0 .. n /\ T # {} /\ n \in T  OBVIOUS
<1> HIDE DEF T
<1>2. Max(T) \in T /\ \A x \in T : x <= Max(T)
  <2> HIDE DEF n
  <2> QED BY <1>1, MaxIn
<1> QED BY <1>1, <1>2 DEF T

\* What the file holds after a write.
LEMMA WrittenAt ==
    ASSUME NEW old \in Seq(0 .. 255), NEW ofs \in Nat, NEW bytes \in Seq(0 .. 255)
    PROVE  LET new == WriteAt(old, ofs, bytes)
               n   == Len(bytes)
           IN  /\ new \in Seq(0 .. 255)
               /\ Len(new) = IF n = 0 \/ ofs + n <= Len(old) THEN Len(old) ELSE ofs + n
               /\ \A k \in 1 .. Len(new) :
                     new[k] = IF ofs < k /\ k <= ofs + n THEN bytes[k - ofs]
                              ELSE IF k <= Len(old) THEN old[k] ELSE 0
<1> DEFINE n == Len(bytes)
           l == IF n = 0 \/ ofs + n <= Len(old) THEN Len(old) ELSE ofs + n
           at(k) == IF ofs < k /\ k <= ofs + n THEN bytes[k - ofs]
                    ELSE IF k <= Len(old) THEN old[k] ELSE 0
<1>1. /\ n \in Nat /\ DOMAIN bytes = 1 .. n /\ \A k \in 1 .. n : bytes[k] \in 0 .. 255
      /\ Len(old) \in Nat /\ \A k \in 1 .. Len(old) : old[k] \in 0 .. 255
      /\ bytes = <<>> <=> n = 0
  BY BytesSeq
<1>2. (IF bytes = <<>> THEN Len(old) ELSE Max({Len(old), ofs + Len(bytes)})) = l
  <2>1. ofs + n \in Nat  BY <1>1
  <2>2. Max({Len(old), ofs + n}) = IF Len(old) <= ofs + n THEN ofs + n ELSE Len(old)
    BY <1>1, <2>1, LargerOf
  <2> QED BY <1>1, <2>1, <2>2
<1> HIDE DEF n
<1>3. l \in Nat  BY <1>1
<1> HIDE DEF l
<1>4. WriteAt(old, ofs, bytes) = [k \in 1 .. l |-> at(k)]
  <2>1. \A k \in 1 .. l : (k \in ofs + 1 .. ofs + n) <=> (ofs < k /\ k <= ofs + n)
    BY <1>1, <1>3
  <2> QED BY <1>2, <2>1 DEF WriteAt, n
<1>5. \A k \in 1 .. l : at(k) \in 0 .. 255
  <2> SUFFICES ASSUME NEW k \in 1 .. l PROVE at(k) \in 0 .. 255
    OBVIOUS
  <2>1. CASE ofs < k /\ k <= ofs + n
    <3>1. k - ofs \in 1 .. n  BY <1>1, <1>3, <2>1
    <3> QED BY <1>1, <2>1, <3>1
  <2>2. CASE ~(ofs < k /\ k <= ofs + n)  BY <1>1, <1>3, <2>2
  <2> QED BY <2>1, <2>2
<1> HIDE DEF at
<1>6. PICK new : new = [k \in 1 .. l |-> at(k)]  OBVIOUS
<1>7. new \in Seq(0 .. 255) /\ Len(new) = l /\ \A k \in 1 .. l : new[k] = at(k)
  BY <1>3, <1>5, <1>6
<1> QED BY <1>4, <1>6, <1>7 DEF at, l, n

\* How much of a code is written before the stream is flushed: all of it only if it is
\* empty, none of it if a buffer is enough.
LEMMA OutBefore ==
    ASSUME NEW n \in Nat
    PROVE  /\ WrittenOut(n) \in Nat /\ WrittenOut(n) <= n
           /\ n # 0 => WrittenOut(n) < n
           /\ n <= BufSize => WrittenOut(n) = 0
           /\ \E q \in Nat : WrittenOut(n) = 4 * q
<1>1. PICK b \in Nat \ {0} : b = BufSize  BY DriverAssumption
<1>2. b % 4 = 0  BY <1>1, DriverAssumption
<1>3. CASE n = 0
  <2>1. WrittenOut(n) = 0 /\ 0 = 4 * 0  BY <1>3 DEF WrittenOut
  <2> QED BY <1>3, <2>1
<1>4. CASE n # 0
  <2>1. PICK m \in Nat : m = n - 1  BY <1>4
  <2>2. PICK d \in Nat : d = m \div b  OBVIOUS
  <2>3. b * d \in Nat /\ b * d <= m  BY <2>2
  <2>4. m < b => d = 0  BY <2>2
  <2>5. WrittenOut(n) = b * d  BY <1>1, <1>4, <2>1, <2>2 DEF WrittenOut
  <2>6. PICK c \in Nat : b = 4 * c
    <3>1. b \div 4 \in Nat /\ b = 4 * (b \div 4)  BY <1>2
    <3> QED BY <3>1
  <2>7. PICK q \in Nat : q = c * d  OBVIOUS
  <2>8. b * d = 4 * q  BY <2>6, <2>7
  <2>9. n <= b => b * d = 0  BY <2>1, <2>4
  <2> QED BY <1>1, <2>1, <2>3, <2>5, <2>8, <2>9
<1> QED BY <1>3, <1>4

StreamSet ==
    [func : 1 .. Len(mod.funcs), insts : Seq(UWASM_INST), code : Seq(0 .. 255), out : Nat]

\* What was printed to a stream, and how much of it was too much for the buffer.
Coded(st) == st.code = UBH_Print(st.insts) /\ st.out = WrittenOut(Len(st.code))

\* No stream is flushed before the end.
StreamsInv ==
    /\ streams \in Seq(StreamSet)
    /\ \A s \in DOMAIN streams : Coded(streams[s])
    /\ flushed \subseteq DOMAIN streams
    /\ stage \notin {"exit", "list", "ended"} => flushed = {}

\* The file starts with the code of a stream.
HasCode(s) ==
    /\ Len(streams[s].code) <= Len(disk)
    /\ \A k \in 1 .. Len(streams[s].code) : disk[k] = streams[s].code[k]

\* Each byte of the file is one of a stream's, at its place, or in a gap.  Streams that
\* fit their buffers are written whole, so the last one flushed is there whole; a
\* single one is there as far as it was written.
DiskInv ==
    /\ disk \in Seq(0 .. 255) /\ \E q \in Nat : Len(disk) = 4 * q
    /\ streams = <<>> => disk = <<>>
    /\ \A k \in 1 .. Len(disk) :
          disk[k] = 0 \/ \E s \in DOMAIN streams :
                            k \in 1 .. Len(streams[s].code) /\ disk[k] = streams[s].code[k]
    /\ (flushed # {} /\ \A s \in DOMAIN streams : Len(streams[s].code) <= BufSize) =>
          \E s \in DOMAIN streams : HasCode(s)
    /\ Len(streams) = 1 =>
          /\ Len(disk) = IF flushed = {} THEN streams[1].out ELSE Len(streams[1].code)
          /\ \A k \in 1 .. Len(disk) : disk[k] = streams[1].code[k]

\* The listing takes four bytes at a time of a file that no longer changes.
ListInv ==
    /\ list_pc \in Nat /\ list_pc <= Len(disk) /\ \E q \in Nat : list_pc = 4 * q
    /\ stage \notin {"list", "ended"} => list_pc = 0

\* What is known of a stream.
LEMMA StreamFacts ==
    ASSUME StreamsInv, NEW s \in DOMAIN streams
    PROVE  /\ streams[s].code \in Seq(0 .. 255) /\ streams[s].insts \in Seq(UWASM_INST)
           /\ Len(streams[s].code) \in Nat /\ streams[s].code = UBH_Print(streams[s].insts)
           /\ DOMAIN streams[s].code = 1 .. Len(streams[s].code)
           /\ streams[s].out \in Nat /\ streams[s].out = WrittenOut(Len(streams[s].code))
<1>1. streams[s] \in StreamSet /\ Coded(streams[s])  BY SeqBasics DEF StreamsInv
<1>2. streams[s].code \in Seq(0 .. 255) /\ streams[s].insts \in Seq(UWASM_INST)
      /\ streams[s].out \in Nat
  BY <1>1 DEF StreamSet
<1>3. Len(streams[s].code) \in Nat /\ DOMAIN streams[s].code = 1 .. Len(streams[s].code)
  BY <1>2, SeqBasics
<1> QED BY <1>1, <1>2, <1>3 DEF Coded

\* A conversion's code goes to a new stream, and the file is emptied for it.
LEMMA EmitKeeps ==
    ASSUME ScanInv, uinsts \in Seq(UWASM_INST), StreamsInv, DiskInv, Emit_output
    PROVE  StreamsInv' /\ DiskInv'
<1> DEFINE code == UBH_Print(uinsts)
           out  == WrittenOut(Len(code))
           st   == [func |-> func_ctx + 1, insts |-> uinsts, code |-> code, out |-> out]
           n    == Len(streams)
<1>1. /\ stage = "convert" /\ stage' = "run" /\ UNCHANGED <<mod, flushed>>
      /\ streams' = Append(streams, st) /\ disk' = SubSeq(code, 1, out)
  BY DEF Emit_output
<1>2. PICK l \in Nat : l = Len(code) /\ code \in Seq(0 .. 255)
  <2>1. code \in Seq(0 .. 255)  BY CodeFacts
  <2> HIDE DEF code
  <2> QED BY <2>1, SeqBasics
<1> HIDE DEF code
<1>3. /\ out \in Nat /\ out <= l /\ \E q \in Nat : out = 4 * q
  BY <1>2, OutBefore
<1>4. st \in StreamSet /\ Coded(st)
  <2>1. func_ctx + 1 \in 1 .. Len(mod.funcs)  BY <1>1, ModuleFacts DEF ScanInv
  <2>2. st \in StreamSet
    <3> HIDE DEF out
    <3> QED BY <1>2, <1>3, <2>1 DEF StreamSet
  <2>3. Coded(st)  BY DEF Coded, code
  <2> QED BY <2>2, <2>3
<1>5. st.code = code /\ st.out = out  OBVIOUS
<1> HIDE DEF out, st
<1>6. /\ streams \in Seq(StreamSet) /\ n \in Nat /\ DOMAIN streams = 1 .. n
      /\ \A s \in 1 .. n : Coded(streams[s])
  BY SeqBasics DEF StreamsInv
<1>7. /\ streams' \in Seq(StreamSet) /\ Len(streams') = n + 1 /\ DOMAIN streams' = 1 .. n + 1
      /\ \A s \in 1 .. n : streams'[s] = streams[s]
      /\ streams'[n + 1] = st /\ streams' # <<>>
  <2>1. PICK t : t = streams'  OBVIOUS
  <2>2. /\ t \in Seq(StreamSet) /\ t # <<>> /\ Len(t) = n + 1
        /\ \A s \in 1 .. n : t[s] = streams[s]
        /\ t[n + 1] = st
    BY <1>1, <1>4, <1>6, <2>1, AppendProperties
  <2>3. DOMAIN t = 1 .. n + 1  BY <2>2, SeqBasics
  <2> QED BY <2>1, <2>2, <2>3
<1> HIDE DEF n
<1>8. flushed' = {}  BY <1>1 DEF StreamsInv
<1>9. StreamsInv'
  <2>1. StreamSet' = StreamSet  BY <1>1 DEF StreamSet
  <2>2. \A s \in 1 .. n + 1 : Coded(streams'[s])
    <3> SUFFICES ASSUME NEW s \in 1 .. n + 1 PROVE Coded(streams'[s])
      OBVIOUS
    <3>1. s \in 1 .. n \/ s = n + 1  BY <1>6
    <3> QED BY <1>4, <1>6, <1>7, <3>1
  <2>3. {} \subseteq DOMAIN streams'  OBVIOUS
  <2> QED BY <1>7, <1>8, <2>1, <2>2, <2>3, Zenon DEF StreamsInv, Coded
<1>10. /\ disk' \in Seq(0 .. 255) /\ Len(disk') = out
       /\ \A k \in 1 .. out : disk'[k] = code[k]
  <2>1. disk' = [k \in 1 .. out |-> code[k]]
    <3>1. PICK a \in Nat : a = 0  OBVIOUS
    <3>2. SubSeq(code, a + 1, a + out) = [k \in 1 .. out |-> code[a + k]]
      BY <1>2, <1>3, <3>1, CutIs
    <3>3. a + 1 = 1 /\ a + out = out /\ \A k \in 1 .. out : a + k = k  BY <1>3, <3>1
    <3> QED BY <1>1, <3>2, <3>3
  <2>2. \A k \in 1 .. out : code[k] \in 0 .. 255
    <3>1. \A k \in 1 .. l : code[k] \in 0 .. 255  BY <1>2, BytesSeq
    <3>2. PICK o \in Nat : o = out  BY <1>3
    <3>3. \A k \in 1 .. o : k \in 1 .. l  BY <1>2, <1>3, <3>2
    <3> QED BY <3>1, <3>2, <3>3
  <2>3. PICK d : d = disk'  OBVIOUS
  <2> QED BY <1>3, <2>1, <2>2, <2>3
<1>11. DiskInv'
  <2>1. \A k \in 1 .. out : k \in 1 .. Len(streams'[n + 1].code)
                           /\ disk'[k] = streams'[n + 1].code[k]
    BY <1>2, <1>3, <1>5, <1>7, <1>10
  <2>2. n + 1 \in DOMAIN streams'  BY <1>6, <1>7
  <2>3. \A k \in 1 .. Len(disk') : \E s \in DOMAIN streams' :
            k \in 1 .. Len(streams'[s].code) /\ disk'[k] = streams'[s].code[k]
    BY <1>10, <2>1, <2>2
  <2>4. Len(streams') = 1 =>
            /\ Len(disk') = streams'[1].out
            /\ \A k \in 1 .. Len(disk') : disk'[k] = streams'[1].code[k]
    <3>1. Len(streams') = 1 => n + 1 = 1  BY <1>6, <1>7
    <3> QED BY <1>5, <1>7, <1>10, <2>1, <3>1
  <2>5. \E q \in Nat : Len(disk') = 4 * q  BY <1>3, <1>10
  <2> QED BY <1>7, <1>8, <1>10, <2>3, <2>4, <2>5, Zenon DEF DiskInv
<1> QED BY <1>9, <1>11

\* exit writes what a stream still holds to its place in the file.
LEMMA FlushKeeps ==
    ASSUME StreamsInv, DiskInv, NEW s \in DOMAIN streams \ flushed, FlushStream(s)
    PROVE  StreamsInv' /\ DiskInv'
<1>1. PICK code, out : code = streams[s].code /\ out = streams[s].out  OBVIOUS
<1>2. PICK l \in Nat : l = Len(code)  BY <1>1, StreamFacts
<1>3. /\ code \in Seq(0 .. 255) /\ out \in Nat /\ out <= l /\ (l # 0 => out < l)
      /\ (l <= BufSize => out = 0) /\ \E q \in Nat : l = 4 * q
  <2>1. /\ code \in Seq(0 .. 255) /\ out = WrittenOut(l) /\ code = UBH_Print(streams[s].insts)
        /\ streams[s].insts \in Seq(UWASM_INST)
    BY <1>1, <1>2, StreamFacts
  <2>2. \E q \in Nat : l = 4 * q  BY <1>2, <2>1, CodeFacts
  <2> QED BY <2>1, <2>2, OutBefore
<1>4. /\ stage = "exit" /\ flushed' = flushed \cup {s} /\ UNCHANGED <<mod, stage, streams>>
      /\ disk' = WriteAt(disk, out, SubSeq(code, out + 1, l))
  BY <1>1, <1>2 DEF FlushStream
<1>5. PICK z \in Nat : z = l - out
  <2>1. out \in Nat /\ out <= l  BY <1>3
  <2>2. l - out \in Nat  BY <2>1
  <2> QED BY <2>2
<1>6. PICK rest : /\ rest = SubSeq(code, out + 1, l)
                  /\ rest \in Seq(0 .. 255) /\ Len(rest) = z
                  /\ \A k \in 1 .. z : rest[k] = code[out + k]
  <2>1. out + z = l  BY <1>3, <1>5
  <2>2. SubSeq(code, out + 1, l) = [k \in 1 .. z |-> code[out + k]]
    BY <1>2, <1>3, <2>1, CutIs
  <2>3. \A k \in 1 .. z : code[out + k] \in 0 .. 255
    <3>1. \A k \in 1 .. l : code[k] \in 0 .. 255  BY <1>2, <1>3, BytesSeq
    <3>2. \A k \in 1 .. z : out + k \in 1 .. l  BY <1>3, <1>5
    <3> QED BY <3>1, <3>2
  <2>4. PICK r : r = [k \in 1 .. z |-> code[out + k]]  OBVIOUS
  <2>5. r \in Seq(0 .. 255) /\ Len(r) = z /\ \A k \in 1 .. z : r[k] = code[out + k]
    BY <2>3, <2>4
  <2> QED BY <2>2, <2>4, <2>5
<1>7. PICK d \in Seq(0 .. 255), n \in Nat : d = disk /\ n = Len(disk) /\ \E q \in Nat : n = 4 * q
  <2>1. disk \in Seq(0 .. 255) /\ \E q \in Nat : Len(disk) = 4 * q  BY DEF DiskInv
  <2>2. Len(disk) \in Nat  BY <2>1, BytesSeq
  <2> QED BY <2>1, <2>2
<1>8. PICK new : /\ new = disk' /\ new \in Seq(0 .. 255)
                 /\ Len(new) = IF z = 0 \/ l <= n THEN n ELSE l
                 /\ \A k \in 1 .. Len(new) :
                       new[k] = IF out < k /\ k <= l THEN code[k]
                                ELSE IF k <= n THEN d[k] ELSE 0
  <2>1. PICK new : new = WriteAt(d, out, rest)  OBVIOUS
  <2>2. /\ new \in Seq(0 .. 255)
        /\ Len(new) = IF z = 0 \/ out + z <= n THEN n ELSE out + z
        /\ \A k \in 1 .. Len(new) :
              new[k] = IF out < k /\ k <= out + z THEN rest[k - out]
                       ELSE IF k <= n THEN d[k] ELSE 0
    <3>1. out \in Nat /\ d \in Seq(0 .. 255) /\ rest \in Seq(0 .. 255)  BY <1>3, <1>6, <1>7
    <3>2. LET w == WriteAt(d, out, rest)
              m == Len(rest)
          IN  /\ w \in Seq(0 .. 255)
              /\ Len(w) = IF m = 0 \/ out + m <= Len(d) THEN Len(d) ELSE out + m
              /\ \A k \in 1 .. Len(w) :
                    w[k] = IF out < k /\ k <= out + m THEN rest[k - out]
                           ELSE IF k <= Len(d) THEN d[k] ELSE 0
      BY <3>1, WrittenAt
    <3> QED BY <1>6, <1>7, <2>1, <3>2
  <2>3. out + z = l  BY <1>3, <1>5
  <2>4. Len(new) \in Nat  BY <2>2, SeqBasics
  <2>5. \A k \in Nat : out < k /\ k <= l => rest[k - out] = code[k]
    <3> SUFFICES ASSUME NEW k \in Nat, out < k, k <= l PROVE rest[k - out] = code[k]
      OBVIOUS
    <3>1. k - out \in 1 .. z /\ out + (k - out) = k  BY <1>3, <1>5
    <3> QED BY <1>6, <3>1
  <2>6. \A k \in 1 .. Len(new) : k \in Nat  BY <2>4
  <2>7. new = disk'  BY <1>4, <1>6, <1>7, <2>1
  <2>8. Len(new) = IF z = 0 \/ l <= n THEN n ELSE l  BY <2>2, <2>3
  <2>9. \A k \in 1 .. Len(new) :
            new[k] = IF out < k /\ k <= l THEN code[k] ELSE IF k <= n THEN d[k] ELSE 0
    <3> SUFFICES ASSUME NEW k \in 1 .. Len(new)
                 PROVE  new[k] = IF out < k /\ k <= l THEN code[k]
                                 ELSE IF k <= n THEN d[k] ELSE 0
      OBVIOUS
    <3>1. new[k] = IF out < k /\ k <= l THEN rest[k - out] ELSE IF k <= n THEN d[k] ELSE 0
      BY <2>2, <2>3
    <3> QED BY <2>5, <2>6, <3>1
  <2> QED BY <2>2, <2>7, <2>8, <2>9
<1>9. Len(new) \in Nat /\ Len(new) >= l /\ Len(new) >= n
  <2>1. z = 0 => l = 0
    <3>1. z = 0 => l = out  BY <1>3, <1>5
    <3> QED BY <1>3, <3>1
  <2> QED BY <1>8, <2>1
<1>10. StreamsInv'
  <2>1. StreamSet' = StreamSet  BY <1>4 DEF StreamSet
  <2>2. flushed' \subseteq DOMAIN streams  BY <1>4 DEF StreamsInv
  <2> QED BY <1>4, <2>1, <2>2 DEF StreamsInv, Coded
<1>11. DiskInv'
  <2>1. \E q \in Nat : Len(disk') = 4 * q  BY <1>3, <1>7, <1>8
  <2>2. \A k \in 1 .. Len(disk') :
            disk'[k] = 0 \/ \E t \in DOMAIN streams :
                               k \in 1 .. Len(streams[t].code) /\ disk'[k] = streams[t].code[k]
    <3> SUFFICES ASSUME NEW k \in 1 .. Len(disk'), disk'[k] # 0
                 PROVE  \E t \in DOMAIN streams : k \in 1 .. Len(streams[t].code)
                                                  /\ disk'[k] = streams[t].code[k]
      OBVIOUS
    <3>1. k \in Nat /\ k >= 1  BY <1>8, <1>9
    <3>2. CASE out < k /\ k <= l
      <4>1. k \in 1 .. l /\ disk'[k] = code[k]  BY <1>8, <3>1, <3>2
      <4> QED BY <1>1, <1>2, <4>1
    <3>3. CASE ~(out < k /\ k <= l)
      <4>1. k \in 1 .. Len(disk) /\ disk'[k] = disk[k]  BY <1>7, <1>8, <3>1, <3>3
      <4> QED BY <4>1 DEF DiskInv
    <3> QED BY <3>2, <3>3
  <2>3. (\A t \in DOMAIN streams : Len(streams[t].code) <= BufSize) =>
            \E t \in DOMAIN streams' : HasCode(t)'
    <3> SUFFICES ASSUME \A t \in DOMAIN streams : Len(streams[t].code) <= BufSize
                 PROVE  HasCode(s)'
      BY <1>4
    <3>1. out = 0  BY <1>1, <1>2, <1>3
    <3>2. \A k \in 1 .. l : new[k] = code[k]
      <4> SUFFICES ASSUME NEW k \in 1 .. l PROVE new[k] = code[k]
        OBVIOUS
      <4>1. k \in 1 .. Len(new) /\ out < k /\ k <= l  BY <1>9, <3>1
      <4> QED BY <1>8, <4>1
    <3> QED BY <1>1, <1>2, <1>4, <1>8, <1>9, <3>2 DEF HasCode
  <2>4. Len(streams) = 1 => /\ Len(disk') = Len(streams[1].code)
                            /\ \A k \in 1 .. Len(disk') : disk'[k] = streams[1].code[k]
    <3> HAVE Len(streams) = 1
    <3>1. s = 1 /\ flushed = {}
      <4>1. DOMAIN streams = 1 .. 1  BY SeqBasics DEF StreamsInv
      <4> QED BY <4>1 DEF StreamsInv
    <3>2. n = out /\ \A k \in 1 .. out : d[k] = code[k]  BY <1>1, <1>7, <3>1 DEF DiskInv
    <3>3. Len(new) = l  BY <1>3, <1>5, <1>8, <3>2
    <3>4. \A k \in 1 .. l : new[k] = code[k]
      <4> SUFFICES ASSUME NEW k \in 1 .. l PROVE new[k] = code[k]
        OBVIOUS
      <4>1. k \in 1 .. Len(new) /\ k \in Nat /\ k <= l  BY <3>3
      <4>2. ~(out < k) => k <= n /\ k \in 1 .. out  BY <1>3, <3>2
      <4> QED BY <1>8, <3>2, <4>1, <4>2
    <3> QED BY <1>1, <1>2, <1>8, <3>1, <3>3, <3>4
  <2>5. flushed' # {} /\ streams # <<>>  BY <1>4 DEF StreamsInv
  <2>6. disk' \in Seq(0 .. 255)  BY <1>8
  <2> QED BY <1>4, <2>1, <2>2, <2>3, <2>4, <2>5, <2>6 DEF DiskInv
<1> QED BY <1>10, <1>11

\* All that is known of the file, the streams behind it and the listing.
FileInv == stage \in Stages /\ StreamsInv /\ DiskInv /\ ListInv

\* A step that leaves the file alone, and does not go back from the exit or the listing.
LEMMA QuietKeeps ==
    ASSUME FileInv, UNCHANGED <<mod, streams, flushed, disk, list_pc>>, stage' \in Stages,
           stage \in {"exit", "list", "ended"} => stage' \in {"exit", "list", "ended"},
           stage \in {"list", "ended"} => stage' \in {"list", "ended"}
    PROVE  FileInv'
<1>1. StreamSet' = StreamSet  BY DEF StreamSet
<1>2. StreamsInv'  BY <1>1 DEF FileInv, StreamsInv, Coded
<1>3. DiskInv'  BY DEF FileInv, DiskInv, HasCode
<1>4. ListInv'  BY DEF FileInv, ListInv
<1> QED BY <1>2, <1>3, <1>4 DEF FileInv

\* The listing takes four bytes of those that are left.
LEMMA ListKeeps ==
    ASSUME FileInv, ListInst
    PROVE  FileInv'
<1>1. /\ stage = "list" /\ UNCHANGED <<mod, stage, streams, flushed, disk>>
      /\ list_pc' = list_pc + 4 /\ list_pc < Min({Len(disk), ListSize})
  BY DEF ListInst, Lists
<1>2. StreamSet' = StreamSet  BY <1>1 DEF StreamSet
<1>3. StreamsInv'  BY <1>1, <1>2 DEF FileInv, StreamsInv, Coded
<1>4. DiskInv'  BY <1>1 DEF FileInv, DiskInv, HasCode
<1>5. PICK n, p \in Nat : n = Len(disk) /\ p = list_pc
  <2>1. disk \in Seq(0 .. 255) /\ list_pc \in Nat  BY DEF FileInv, DiskInv, ListInv
  <2>2. Len(disk) \in Nat  BY <2>1, SeqBasics
  <2> QED BY <2>1, <2>2
<1>6. p < n
  <2>1. {n, ListSize} \subseteq Nat /\ {n, ListSize} # {}  BY DriverAssumption
  <2>2. Min({n, ListSize}) \in {n, ListSize} /\ Min({n, ListSize}) <= n  BY <2>1, MinIn
  <2> QED BY <1>1, <1>5, <2>1, <2>2, DriverAssumption
<1>7. PICK q \in Nat : p = 4 * q  BY <1>5 DEF FileInv, ListInv
<1>8. PICK r \in Nat : n = 4 * r  BY <1>5 DEF FileInv, DiskInv
<1>9. p + 4 <= n /\ p + 4 \in Nat /\ p + 4 = 4 * (q + 1)  BY <1>6, <1>7, <1>8
<1>10. ListInv'
  <2>1. list_pc' = p + 4 /\ Len(disk') = n /\ stage' = "list"  BY <1>1, <1>5
  <2>2. \E i \in Nat : list_pc' = 4 * i
    <3>1. q + 1 \in Nat  OBVIOUS
    <3> QED BY <1>9, <2>1, <3>1
  <2> QED BY <1>9, <2>1, <2>2 DEF ListInv
<1> QED BY <1>1, <1>3, <1>4, <1>10 DEF FileInv

\* Nothing is there at first.
LEMMA FileInvInit == DriverInit => FileInv
<1> SUFFICES ASSUME DriverInit PROVE FileInv
  OBVIOUS
<1>1. /\ stage = "func" /\ streams = <<>> /\ flushed = {} /\ disk = <<>> /\ list_pc = 0
  BY DEF DriverInit
<1>2. Len(disk) = 0 /\ Len(streams) = 0 /\ 0 = 4 * 0  BY <1>1
<1>3. StreamsInv  BY <1>1 DEF StreamsInv
<1>4. DiskInv  BY <1>1, <1>2 DEF DiskInv
<1>5. ListInv  BY <1>1, <1>2 DEF ListInv
<1> QED BY <1>1, <1>3, <1>4, <1>5 DEF FileInv, Stages

\* And no step of either program breaks it.
LEMMA FileInvNext ==
    ScanInv /\ HandlerInv /\ FileInv /\ [DriverNext]_programVars => FileInv'
<1> SUFFICES ASSUME ScanInv, HandlerInv, FileInv, [DriverNext]_programVars PROVE FileInv'
  OBVIOUS
<1>1. CASE Emit_output
  <2>1. uinsts \in Seq(UWASM_INST)
    BY TransTypesNow DEF HandlerInv, ConvInv, TransTypeOK
  <2>2. StreamsInv' /\ DiskInv'  BY <1>1, <2>1, EmitKeeps DEF FileInv
  <2>3. stage = "convert" /\ stage' = "run" /\ UNCHANGED list_pc  BY <1>1 DEF Emit_output
  <2>4. list_pc' = 0  BY <2>3 DEF FileInv, ListInv
  <2>5. Len(disk') \in Nat  BY <2>2, SeqBasics DEF DiskInv
  <2>6. 0 = 4 * 0  OBVIOUS
  <2>7. ListInv'  BY <2>4, <2>5, <2>6 DEF ListInv
  <2> QED BY <2>2, <2>3, <2>7 DEF FileInv, Stages
<1>2. CASE Flush
  <2>1. PICK s \in DOMAIN streams \ flushed : FlushStream(s)  BY <1>2 DEF Flush
  <2>2. StreamsInv' /\ DiskInv'  BY <2>1, FlushKeeps DEF FileInv
  <2>3. stage = "exit" /\ stage' = "exit" /\ UNCHANGED list_pc  BY <2>1 DEF FlushStream
  <2>4. list_pc' = 0  BY <2>3 DEF FileInv, ListInv
  <2>5. Len(disk') \in Nat  BY <2>2, SeqBasics DEF DiskInv
  <2>6. 0 = 4 * 0  OBVIOUS
  <2>7. ListInv'  BY <2>4, <2>5, <2>6 DEF ListInv
  <2> QED BY <2>2, <2>3, <2>7 DEF FileInv, Stages
<1>3. CASE ListInst  BY <1>3, ListKeeps
<1>4. CASE UNCHANGED programVars
  BY <1>4, QuietKeeps DEF FileInv, programVars, driverVars
<1>5. CASE \/ SkipImport \/ StartScan \/ Return0 \/ Next_func
           \/ ScanInst \/ ScanAborts \/ ScanRunsOut
           \/ StartConvert \/ Translate \/ ConvertStops
           \/ Run \/ RunStops \/ ProcessGone \/ ListAborts \/ ListEnds
  <2>1. stage \in Stages  BY DEF FileInv
  <2>2. /\ UNCHANGED <<mod, streams, flushed, disk, list_pc>>
        /\ stage' \in Stages
        /\ stage \in {"exit", "list", "ended"} => stage' \in {"exit", "list", "ended"}
        /\ stage \in {"list", "ended"} => stage' \in {"list", "ended"}
    BY <1>5, <2>1 DEF SkipImport, StartScan, Return0, Next_func, ScanInst, ScanAborts, ScanRunsOut,
          Scans, StartConvert, Translate, ConvertStops, Run, RunStops, ProcessGone, ListAborts,
          ListEnds, Lists, Go, driverVars, Stages
  <2> QED BY <2>2, QuietKeeps
<1> QED BY <1>1, <1>2, <1>3, <1>4, <1>5 DEF DriverNext

\* The invariant of the two programs.
LEMMA FileInvariant == DriverSpec => [](ScanInv /\ HandlerInv /\ FileInv)
<1>1. DriverSpec => [](ScanInv /\ HandlerInv)  BY DriverInvariant
<1> QED BY <1>1, FileInvInit, FileInvNext, PTL DEF DriverSpec

\* A file that starts with the code of a stream starts with its instructions, one right
\* after the other.
LEMMA WholeOf ==
    ASSUME StreamsInv, DiskInv, NEW s \in DOMAIN streams
    PROVE  /\ CodeSize(streams[s]) = Len(streams[s].code)
           /\ HasCode(s) => Whole(streams[s])
<1>1. PICK st, code, insts : st = streams[s] /\ code = st.code /\ insts = st.insts  OBVIOUS
<1>2. PICK l \in Nat : /\ l = Len(code) /\ code \in Seq(0 .. 255)
                       /\ insts \in Seq(UWASM_INST) /\ code = UBH_Print(insts)
  BY <1>1, StreamFacts
<1>3. /\ l = CodeOffset(insts, Len(insts) + 1)
      /\ \A m \in DOMAIN insts :
            /\ CodeOffset(insts, m) \in Nat
            /\ CodeOffset(insts, m + 1) = CodeOffset(insts, m) + SizeOf(insts[m])
            /\ CodeOffset(insts, m + 1) <= l
            /\ SubSeq(code, CodeOffset(insts, m) + 1, CodeOffset(insts, m + 1))
                  = BinaryOf(insts[m])
  BY <1>2, CodeFacts
<1>4. CodeSize(st) = l  BY <1>1, <1>3 DEF CodeSize
<1>5. ASSUME HasCode(s), NEW m \in DOMAIN insts
      PROVE  SubSeq(disk, CodeOffset(insts, m) + 1, CodeOffset(insts, m + 1))
                = BinaryOf(insts[m])
  <2>1. PICK a, b, z : /\ a = CodeOffset(insts, m) /\ b = CodeOffset(insts, m + 1)
                       /\ z = SizeOf(insts[m])
    OBVIOUS
  <2>2. a \in Nat /\ z \in Nat /\ b = a + z /\ a + z <= l  BY <1>3, <2>1, Sizes
  <2>3. PICK d \in Seq(0 .. 255), n \in Nat : d = disk /\ n = Len(disk)
    <3>1. disk \in Seq(0 .. 255)  BY DEF DiskInv
    <3>2. Len(disk) \in Nat  BY <3>1, SeqBasics
    <3> QED BY <3>1, <3>2
  <2>4. l <= n /\ \A k \in 1 .. l : d[k] = code[k]  BY <1>1, <1>2, <1>5, <2>3 DEF HasCode
  <2>5. SubSeq(d, a + 1, a + z) = [j \in 1 .. z |-> d[a + j]]
    <3>1. a + z <= Len(d)  BY <2>2, <2>3, <2>4
    <3> QED BY <2>2, <3>1, CutIs
  <2>6. SubSeq(code, a + 1, a + z) = [j \in 1 .. z |-> code[a + j]]
    <3>1. a + z <= Len(code)  BY <1>2, <2>2
    <3> QED BY <1>2, <2>2, <3>1, CutIs
  <2>7. \A j \in 1 .. z : d[a + j] = code[a + j]
    <3>1. \A j \in 1 .. z : a + j \in 1 .. l  BY <2>2
    <3> QED BY <2>4, <3>1
  <2>8. SubSeq(d, a + 1, a + z) = SubSeq(code, a + 1, a + z)  BY <2>5, <2>6, <2>7
  <2>9. SubSeq(code, a + 1, b) = BinaryOf(insts[m])  BY <1>3, <2>1
  <2> QED BY <2>1, <2>2, <2>3, <2>8, <2>9
<1>6. HasCode(s) => l <= Len(disk)  BY <1>1, <1>2 DEF HasCode
<1> QED BY <1>1, <1>2, <1>4, <1>5, <1>6 DEF Whole

\* For every module, buffer size and order in which exit flushes: what is left in
\* output.inst (wasm2uwasm opens it anew for each function, and closes none) is the code
\* of the only function converted, starts with the whole code of one function when each
\* fits a buffer, and holds no byte that is not at its place in some function's code.
THEOREM DriverOutputFile == DriverSpec => []OutputFile
<1>1. FileInv => OutputFile
  <2> SUFFICES ASSUME FileInv, stage \in {"list", "ended"}, streams # <<>>
               PROVE  OutputFile
    BY DEF OutputFile
  <2> DEFINE whole == {s \in DOMAIN streams : Whole(streams[s])}
  <2>1. StreamsInv /\ DiskInv  BY DEF FileInv
  <2>2. \A s \in DOMAIN streams : /\ CodeSize(streams[s]) = Len(streams[s].code)
                                  /\ HasCode(s) => s \in whole
                                  /\ DOMAIN streams[s].code = 1 .. Len(streams[s].code)
    BY <2>1, WholeOf, StreamFacts
  <2>3. \A k \in DOMAIN disk :
            disk[k] = 0 \/ \E s \in DOMAIN streams :
                              k \in DOMAIN streams[s].code /\ disk[k] = streams[s].code[k]
    <3>1. DOMAIN disk = 1 .. Len(disk)  BY <2>1, SeqBasics DEF DiskInv
    <3> QED BY <2>1, <2>2, <3>1 DEF DiskInv
  <2>4. (flushed # {} /\ \A s \in DOMAIN streams : CodeSize(streams[s]) <= BufSize)
            => whole # {}
    <3> SUFFICES ASSUME flushed # {}, \A s \in DOMAIN streams : CodeSize(streams[s]) <= BufSize
                 PROVE  whole # {}
      OBVIOUS
    <3>1. \A s \in DOMAIN streams : Len(streams[s].code) <= BufSize  BY <2>2
    <3>2. PICK s \in DOMAIN streams : HasCode(s)  BY <2>1, <3>1 DEF DiskInv
    <3> QED BY <2>2, <3>2
  <2>5. (flushed = {1} /\ Len(streams) = 1) =>
            1 \in whole /\ Len(disk) = CodeSize(streams[1])
    <3> HAVE flushed = {1} /\ Len(streams) = 1
    <3>1. 1 \in DOMAIN streams  BY <2>1 DEF StreamsInv
    <3>2. Len(disk) = Len(streams[1].code) /\ \A k \in 1 .. Len(disk) : disk[k] = streams[1].code[k]
      BY <2>1 DEF DiskInv
    <3>3. Len(disk) \in Nat  BY <2>1, SeqBasics DEF DiskInv
    <3>4. HasCode(1)  BY <3>2, <3>3 DEF HasCode
    <3> QED BY <2>2, <3>1, <3>2, <3>4
  <2> QED BY <2>3, <2>4, <2>5 DEF OutputFile, whole
<1> QED BY <1>1, FileInvariant, PTL

\* For every module, the two programs' variables have their types: the scan keeps offsets
\* of the file's bytes, a stream belongs to a function and holds bytes, exit flushes
\* streams that were opened, and the listing never reads behind the end of the file.
THEOREM DriverTypeCorrect == DriverSpec => []DriverTypeOK
<1>1. ScanInv /\ FileInv => DriverTypeOK
  <2> SUFFICES ASSUME ScanInv, FileInv PROVE DriverTypeOK
    OBVIOUS
  <2>1. stage \in Stages /\ StreamsInv /\ DiskInv /\ ListInv  BY DEF FileInv
  <2>2. streams \in Seq([func : 1 .. Len(mod.funcs), insts : Seq(UWASM_INST),
                         code : Seq(0 .. 255), out : Nat])
    BY <2>1 DEF StreamsInv, StreamSet
  <2>3. wasm_insts \in Seq(0 .. Len(mod.bytes) - 1)
    <3>1. PICK S : S = {i \in 0 .. Len(mod.bytes) - 1 : mod.bytes[i + 1] \in DOMAIN WINST_OPCODE}
      OBVIOUS
    <3>2. PICK T : T = 0 .. Len(mod.bytes) - 1  OBVIOUS
    <3>3. S \cup T = T  BY <3>1, <3>2
    <3>4. wasm_insts \in Seq(S \cup T)  BY <3>1, SeqWider DEF ScanInv
    <3> QED BY <3>2, <3>3, <3>4
  <2>4. list_pc \in 0 .. Len(disk)
    <3>1. Len(disk) \in Nat  BY <2>1, SeqBasics DEF DiskInv
    <3> QED BY <2>1, <3>1 DEF ListInv
  <2>5. flushed \subseteq DOMAIN streams /\ disk \in Seq(0 .. 255)
    BY <2>1 DEF StreamsInv, DiskInv
  <2>6. func_ctx \in 0 .. Len(mod.funcs)  BY DEF ScanInv
  <2> QED BY <2>1, <2>2, <2>3, <2>4, <2>5, <2>6 DEF DriverTypeOK
<1> QED BY <1>1, FileInvariant, PTL
-----------------------------------------------------------------------------
(* The bits of the storage: which operand each mode keeps where.             *)

\* Two sequences joined.
LEMMA JoinIs ==
    ASSUME NEW V, NEW s \in Seq(V), NEW t \in Seq(V)
    PROVE  s \o t = [k \in 1 .. Len(s) + Len(t) |-> IF k <= Len(s) THEN s[k] ELSE t[k - Len(s)]]
<1>1. PICK r : r = s \o t  OBVIOUS
<1>2. r \in Seq(V) /\ Len(r) = Len(s) + Len(t)  BY <1>1, ConcatProperties
<1>3. \A k \in 1 .. Len(r) : r[k] = IF k <= Len(s) THEN s[k] ELSE t[k - Len(s)]
  BY <1>1, <1>2, ConcatProperties
<1>4. r = [k \in 1 .. Len(r) |-> r[k]]  BY <1>2, LenProperties
<1> QED BY <1>1, <1>2, <1>3, <1>4

\* 2 and 1.
LEMMA Join21 ==
    ASSUME NEW a, NEW b, NEW c
    PROVE  <<a, b>> \o <<c>> = <<a, b, c>>
<1> DEFINE V == {a, b, c}
<1>1. <<a, b>> \in Seq(V) /\ <<c>> \in Seq(V)  OBVIOUS
<1>2. PICK s \in Seq(V), t \in Seq(V) : s = <<a, b>> /\ t = <<c>>  BY <1>1
<1>3. Len(s) = 2 /\ Len(t) = 1  BY <1>2
<1>4. s \o t = [k \in 1 .. 3 |-> IF k <= 2 THEN s[k] ELSE t[k - 2]]
  <2>1. s \o t = [k \in 1 .. Len(s) + Len(t) |-> IF k <= Len(s) THEN s[k] ELSE t[k - Len(s)]]
    BY JoinIs
  <2> QED BY <1>3, <2>1
<1>5. <<a, b, c>> = [k \in 1 .. 3 |-> IF k <= 2 THEN s[k] ELSE t[k - 2]]  BY <1>2
<1> QED BY <1>2, <1>4, <1>5

\* 2 and 2.
LEMMA Join22 ==
    ASSUME NEW a, NEW b, NEW c, NEW d
    PROVE  <<a, b>> \o <<c, d>> = <<a, b, c, d>>
<1> DEFINE V == {a, b, c, d}
<1>1. <<a, b>> \in Seq(V) /\ <<c, d>> \in Seq(V)  OBVIOUS
<1>2. PICK s \in Seq(V), t \in Seq(V) : s = <<a, b>> /\ t = <<c, d>>  BY <1>1
<1>3. Len(s) = 2 /\ Len(t) = 2  BY <1>2
<1>4. s \o t = [k \in 1 .. 4 |-> IF k <= 2 THEN s[k] ELSE t[k - 2]]
  <2>1. s \o t = [k \in 1 .. Len(s) + Len(t) |-> IF k <= Len(s) THEN s[k] ELSE t[k - Len(s)]]
    BY JoinIs
  <2> QED BY <1>3, <2>1
<1>5. <<a, b, c, d>> = [k \in 1 .. 4 |-> IF k <= 2 THEN s[k] ELSE t[k - 2]]  BY <1>2
<1> QED BY <1>2, <1>4, <1>5

\* 2 and 3.
LEMMA Join23 ==
    ASSUME NEW a, NEW b, NEW c, NEW d, NEW e
    PROVE  <<a, b>> \o <<c, d, e>> = <<a, b, c, d, e>>
<1> DEFINE V == {a, b, c, d, e}
<1>1. <<a, b>> \in Seq(V) /\ <<c, d, e>> \in Seq(V)  OBVIOUS
<1>2. PICK s \in Seq(V), t \in Seq(V) : s = <<a, b>> /\ t = <<c, d, e>>  BY <1>1
<1>3. Len(s) = 2 /\ Len(t) = 3  BY <1>2
<1>4. s \o t = [k \in 1 .. 5 |-> IF k <= 2 THEN s[k] ELSE t[k - 2]]
  <2>1. s \o t = [k \in 1 .. Len(s) + Len(t) |-> IF k <= Len(s) THEN s[k] ELSE t[k - Len(s)]]
    BY JoinIs
  <2> QED BY <1>3, <2>1
<1>5. <<a, b, c, d, e>> = [k \in 1 .. 5 |-> IF k <= 2 THEN s[k] ELSE t[k - 2]]  BY <1>2
<1> QED BY <1>2, <1>4, <1>5

\* 5 and 1.
LEMMA Join51 ==
    ASSUME NEW a, NEW b, NEW c, NEW d, NEW e, NEW f
    PROVE  <<a, b, c, d, e>> \o <<f>> = <<a, b, c, d, e, f>>
<1> DEFINE V == {a, b, c, d, e, f}
<1>1. <<a, b, c, d, e>> \in Seq(V) /\ <<f>> \in Seq(V)  OBVIOUS
<1>2. PICK s \in Seq(V), t \in Seq(V) : s = <<a, b, c, d, e>> /\ t = <<f>>  BY <1>1
<1>3. Len(s) = 5 /\ Len(t) = 1  BY <1>2
<1>4. s \o t = [k \in 1 .. 6 |-> IF k <= 5 THEN s[k] ELSE t[k - 5]]
  <2>1. s \o t = [k \in 1 .. Len(s) + Len(t) |-> IF k <= Len(s) THEN s[k] ELSE t[k - Len(s)]]
    BY JoinIs
  <2> QED BY <1>3, <2>1
<1>5. <<a, b, c, d, e, f>> = [k \in 1 .. 6 |-> IF k <= 5 THEN s[k] ELSE t[k - 5]]  BY <1>2
<1> QED BY <1>2, <1>4, <1>5

\* 5 and 2.
LEMMA Join52 ==
    ASSUME NEW a, NEW b, NEW c, NEW d, NEW e, NEW f, NEW g
    PROVE  <<a, b, c, d, e>> \o <<f, g>> = <<a, b, c, d, e, f, g>>
<1> DEFINE V == {a, b, c, d, e, f, g}
<1>1. <<a, b, c, d, e>> \in Seq(V) /\ <<f, g>> \in Seq(V)  OBVIOUS
<1>2. PICK s \in Seq(V), t \in Seq(V) : s = <<a, b, c, d, e>> /\ t = <<f, g>>  BY <1>1
<1>3. Len(s) = 5 /\ Len(t) = 2  BY <1>2
<1>4. s \o t = [k \in 1 .. 7 |-> IF k <= 5 THEN s[k] ELSE t[k - 5]]
  <2>1. s \o t = [k \in 1 .. Len(s) + Len(t) |-> IF k <= Len(s) THEN s[k] ELSE t[k - Len(s)]]
    BY JoinIs
  <2> QED BY <1>3, <2>1
<1>5. <<a, b, c, d, e, f, g>> = [k \in 1 .. 7 |-> IF k <= 5 THEN s[k] ELSE t[k - 5]]  BY <1>2
<1> QED BY <1>2, <1>4, <1>5

\* 5 and 3.
LEMMA Join53 ==
    ASSUME NEW a, NEW b, NEW c, NEW d, NEW e, NEW f, NEW g, NEW h
    PROVE  <<a, b, c, d, e>> \o <<f, g, h>> = <<a, b, c, d, e, f, g, h>>
<1> DEFINE V == {a, b, c, d, e, f, g, h}
<1>1. <<a, b, c, d, e>> \in Seq(V) /\ <<f, g, h>> \in Seq(V)  OBVIOUS
<1>2. PICK s \in Seq(V), t \in Seq(V) : s = <<a, b, c, d, e>> /\ t = <<f, g, h>>  BY <1>1
<1>3. Len(s) = 5 /\ Len(t) = 3  BY <1>2
<1>4. s \o t = [k \in 1 .. 8 |-> IF k <= 5 THEN s[k] ELSE t[k - 5]]
  <2>1. s \o t = [k \in 1 .. Len(s) + Len(t) |-> IF k <= Len(s) THEN s[k] ELSE t[k - Len(s)]]
    BY JoinIs
  <2> QED BY <1>3, <2>1
<1>5. <<a, b, c, d, e, f, g, h>> = [k \in 1 .. 8 |-> IF k <= 5 THEN s[k] ELSE t[k - 5]]  BY <1>2
<1> QED BY <1>2, <1>4, <1>5

FirstBits(fields, g) ==
    [k \in DOMAIN fields |-> IF k = 1 THEN 0 ELSE g[k-1] + fields[k-1][2]]

\* Where a field lies, given the first bits of all.
LEMMA PlaceOf ==
    ASSUME NEW am \in DOMAIN AM, NEW n \in Nat, DOMAIN AM[am] = 1 .. n,
           NEW lo, lo = FirstBits(AM[am], lo),
           \A j, k \in 1 .. n : AM[am][j][1] = AM[am][k][1] => j = k,
           NEW k \in 1 .. n
    PROVE  FieldBits[am][AM[am][k][1]] = lo[k] .. lo[k] + AM[am][k][2] - 1
<1> DEFINE fields == AM[am]
           first == CHOOSE g : g = FirstBits(fields, g)
           S == {j \in Nat : j \in 1 .. n => first[j] = lo[j]}
           f == fields[k][1]
           c == CHOOSE m \in DOMAIN fields : fields[m][1] = f
<1>1. f \in {fields[j][1] : j \in DOMAIN fields}  OBVIOUS
<1>2. FieldBits[am][f] = first[c] .. first[c] + fields[c][2] - 1
  BY <1>1, Zenon DEF FieldBits, FirstBits
<1> HIDE DEF f
<1>6. first = FirstBits(fields, first)  BY Zenon
<1> HIDE DEF first, fields
<1>7. /\ \A j \in 1 .. n : first[j] = IF j = 1 THEN 0 ELSE first[j-1] + fields[j-1][2]
      /\ \A j \in 1 .. n : lo[j] = IF j = 1 THEN 0 ELSE lo[j-1] + fields[j-1][2]
  <2>1. \A g : \A j \in 1 .. n :
            FirstBits(fields, g)[j] = IF j = 1 THEN 0 ELSE g[j-1] + fields[j-1][2]
    BY DEF FirstBits, fields
  <2> QED BY <1>6, <2>1 DEF fields
<1>3. 0 \in S  OBVIOUS
<1>4. ASSUME NEW j \in Nat, j \in S PROVE j + 1 \in S
  <2>1. CASE j + 1 \in 1 .. n
    <3>1. j + 1 = 1 \/ (j + 1 # 1 /\ j \in 1 .. n /\ j + 1 - 1 = j)  BY <2>1
    <3> QED BY <1>4, <1>7, <2>1, <3>1
  <2>2. CASE j + 1 \notin 1 .. n  BY <2>2
  <2> QED BY <2>1, <2>2
<1>5. \A j \in 1 .. n : first[j] = lo[j]
  <2> SUFFICES ASSUME NEW j \in 1 .. n PROVE j \in S
    OBVIOUS
  <2> HIDE DEF S
  <2>1. j \in Nat  OBVIOUS
  <2> QED BY <1>3, <1>4, <2>1, SetInduction
<1>8. c = k
  <2>1. k \in DOMAIN fields /\ fields[k][1] = f  BY DEF fields, f
  <2>2. c \in DOMAIN fields /\ fields[c][1] = f  BY <2>1
  <2> QED BY <2>1, <2>2 DEF fields
<1> QED BY <1>2, <1>5, <1>8 DEF fields, f

\* The fields every layout begins with, and every one of 64 bits.
Opening == <<<<"b32", 1>>, <<"mn", 7>>>>
Wide == <<<<"b32", 1>>, <<"mn", 7>>, <<"mn2", 8>>, <<"rd", 10>>, <<"dum1", 6>>>>

\* The fields of the modes.
LEMMA FieldsOf ==
    /\ AM["AM32"]         = Opening \o <<<<"dum", 24>>>>
    /\ AM["AM32_R"]       = Opening \o <<<<"rd", 10>>, <<"dum", 14>>>>
    /\ AM["AM32_R_OFS"]   = Opening \o <<<<"rd", 10>>, <<"sofs", 12>>>>
    /\ AM["AM32_R_R"]     = Opening \o <<<<"rd", 10>>, <<"rs", 10>>>>
    /\ AM["AM64_R_R_R"]   = Wide \o <<<<"dum2", 12>>, <<"rs", 10>>, <<"rt", 10>>>>
    /\ AM["AM64_R_OFS"]   = Wide \o <<<<"lofs", 32>>>>
    /\ AM["AM64_R_R_OFS"] = Wide \o <<<<"rs", 10>>, <<"sofs", 20>>>>
<1>1. /\ B_SIZE = 1 /\ MN_SIZE = 7 /\ MN2_SIZE = 8 /\ REG_SIZE = 10 /\ SOFS_SIZE = 20
      /\ 32 - B_SIZE - MN_SIZE = 24 /\ 32 - B_SIZE - MN_SIZE - REG_SIZE = 14
      /\ 32 - B_SIZE - MN_SIZE - MN2_SIZE - REG_SIZE = 6 /\ 32 - 2 * REG_SIZE = 12
  BY DEF B_SIZE, MN_SIZE, MN2_SIZE, REG_SIZE, SOFS_SIZE
<1>2. <<<<"b32", B_SIZE>>, <<"mn", MN_SIZE>>>> = Opening  BY <1>1, Zenon DEF Opening
<1>3. Opening \o <<<<"mn2", 8>>, <<"rd", 10>>, <<"dum1", 6>>>> = Wide
  BY Join23, Zenon DEF Opening, Wide
<1> QED BY <1>1, <1>2, <1>3, Zenon DEF AM

IsPlaced(am, fields, n, lo) ==
    /\ am \in DOMAIN AM /\ AM[am] = fields
    /\ n \in Nat /\ DOMAIN fields = 1 .. n /\ lo = FirstBits(fields, lo)
    /\ \A j, k \in 1 .. n : fields[j][1] = fields[k][1] => j = k

\* The places of the fields of a mode.
LEMMA PlacesOf ==
    ASSUME NEW am, NEW fields, NEW n, NEW lo, IsPlaced(am, fields, n, lo)
    PROVE  \A k \in 1 .. n :
               FieldBits[am][fields[k][1]] = lo[k] .. lo[k] + fields[k][2] - 1
<1> USE DEF IsPlaced
<1> SUFFICES ASSUME NEW k \in 1 .. n
             PROVE  FieldBits[am][AM[am][k][1]] = lo[k] .. lo[k] + AM[am][k][2] - 1
  OBVIOUS
<1>1. n \in Nat /\ DOMAIN AM[am] = 1 .. n /\ lo = FirstBits(AM[am], lo)
      /\ \A j, i \in 1 .. n : AM[am][j][1] = AM[am][i][1] => j = i
  OBVIOUS
<1> QED BY <1>1, PlaceOf

\* The places in AM32.
LEMMA Places_32 ==
    /\ FieldBits["AM32"]["b32"] = 0 .. 0
    /\ FieldBits["AM32"]["mn"] = 1 .. 7
<1>1. PICK lo : lo = <<0, 1, 8>>  OBVIOUS
<1>2. PICK fields :
          fields = <<<<"b32", 1>>, <<"mn", 7>>, <<"dum", 24>>>>
  OBVIOUS
<1>3. AM["AM32"] = fields
  <2>1. Opening \o <<<<"dum", 24>>>> = fields  BY <1>2, Join21, Zenon DEF Opening
  <2> QED BY <2>1, FieldsOf
<1>4. "AM32" \in DOMAIN AM  BY ModesAre DEF Modes
<1>5. 3 \in Nat /\ DOMAIN fields = 1 .. 3 /\ lo = FirstBits(fields, lo)
      /\ \A j, k \in 1 .. 3 : fields[j][1] = fields[k][1] => j = k
  BY <1>1, <1>2 DEF FirstBits
<1>6. \A k \in 1 .. 3 : FieldBits["AM32"][fields[k][1]] = lo[k] .. lo[k] + fields[k][2] - 1
  <2>1. IsPlaced("AM32", fields, 3, lo)  BY <1>3, <1>4, <1>5, Zenon DEF IsPlaced
  <2> QED BY <2>1, PlacesOf
<1>7. FieldBits["AM32"]["b32"] = 0 .. 0
  <2>1. /\ 1 \in 1 .. 3 /\ fields[1][1] = "b32" /\ lo[1] = 0
        /\ lo[1] + fields[1][2] - 1 = 0
    BY <1>1, <1>2
  <2> QED BY <1>6, <2>1, Zenon
<1>8. FieldBits["AM32"]["mn"] = 1 .. 7
  <2>1. /\ 2 \in 1 .. 3 /\ fields[2][1] = "mn" /\ lo[2] = 1
        /\ lo[2] + fields[2][2] - 1 = 7
    BY <1>1, <1>2
  <2> QED BY <1>6, <2>1, Zenon
<1> QED BY <1>7, <1>8

\* The places in AM32_R.
LEMMA Places_32_R ==
    /\ FieldBits["AM32_R"]["b32"] = 0 .. 0
    /\ FieldBits["AM32_R"]["mn"] = 1 .. 7
    /\ FieldBits["AM32_R"]["rd"] = 8 .. 17
<1>1. PICK lo : lo = <<0, 1, 8, 18>>  OBVIOUS
<1>2. PICK fields :
          fields = <<<<"b32", 1>>, <<"mn", 7>>, <<"rd", 10>>, <<"dum", 14>>>>
  OBVIOUS
<1>3. AM["AM32_R"] = fields
  <2>1. Opening \o <<<<"rd", 10>>, <<"dum", 14>>>> = fields  BY <1>2, Join22, Zenon DEF Opening
  <2> QED BY <2>1, FieldsOf
<1>4. "AM32_R" \in DOMAIN AM  BY ModesAre DEF Modes
<1>5. 4 \in Nat /\ DOMAIN fields = 1 .. 4 /\ lo = FirstBits(fields, lo)
      /\ \A j, k \in 1 .. 4 : fields[j][1] = fields[k][1] => j = k
  BY <1>1, <1>2 DEF FirstBits
<1>6. \A k \in 1 .. 4 : FieldBits["AM32_R"][fields[k][1]] = lo[k] .. lo[k] + fields[k][2] - 1
  <2>1. IsPlaced("AM32_R", fields, 4, lo)  BY <1>3, <1>4, <1>5, Zenon DEF IsPlaced
  <2> QED BY <2>1, PlacesOf
<1>7. FieldBits["AM32_R"]["b32"] = 0 .. 0
  <2>1. /\ 1 \in 1 .. 4 /\ fields[1][1] = "b32" /\ lo[1] = 0
        /\ lo[1] + fields[1][2] - 1 = 0
    BY <1>1, <1>2
  <2> QED BY <1>6, <2>1, Zenon
<1>8. FieldBits["AM32_R"]["mn"] = 1 .. 7
  <2>1. /\ 2 \in 1 .. 4 /\ fields[2][1] = "mn" /\ lo[2] = 1
        /\ lo[2] + fields[2][2] - 1 = 7
    BY <1>1, <1>2
  <2> QED BY <1>6, <2>1, Zenon
<1>9. FieldBits["AM32_R"]["rd"] = 8 .. 17
  <2>1. /\ 3 \in 1 .. 4 /\ fields[3][1] = "rd" /\ lo[3] = 8
        /\ lo[3] + fields[3][2] - 1 = 17
    BY <1>1, <1>2
  <2> QED BY <1>6, <2>1, Zenon
<1> QED BY <1>7, <1>8, <1>9

\* The places in AM32_R_R.
LEMMA Places_32_R_R ==
    /\ FieldBits["AM32_R_R"]["b32"] = 0 .. 0
    /\ FieldBits["AM32_R_R"]["mn"] = 1 .. 7
    /\ FieldBits["AM32_R_R"]["rs"] = 18 .. 27
<1>1. PICK lo : lo = <<0, 1, 8, 18>>  OBVIOUS
<1>2. PICK fields :
          fields = <<<<"b32", 1>>, <<"mn", 7>>, <<"rd", 10>>, <<"rs", 10>>>>
  OBVIOUS
<1>3. AM["AM32_R_R"] = fields
  <2>1. Opening \o <<<<"rd", 10>>, <<"rs", 10>>>> = fields  BY <1>2, Join22, Zenon DEF Opening
  <2> QED BY <2>1, FieldsOf
<1>4. "AM32_R_R" \in DOMAIN AM  BY ModesAre DEF Modes
<1>5. 4 \in Nat /\ DOMAIN fields = 1 .. 4 /\ lo = FirstBits(fields, lo)
      /\ \A j, k \in 1 .. 4 : fields[j][1] = fields[k][1] => j = k
  BY <1>1, <1>2 DEF FirstBits
<1>6. \A k \in 1 .. 4 : FieldBits["AM32_R_R"][fields[k][1]] = lo[k] .. lo[k] + fields[k][2] - 1
  <2>1. IsPlaced("AM32_R_R", fields, 4, lo)  BY <1>3, <1>4, <1>5, Zenon DEF IsPlaced
  <2> QED BY <2>1, PlacesOf
<1>7. FieldBits["AM32_R_R"]["b32"] = 0 .. 0
  <2>1. /\ 1 \in 1 .. 4 /\ fields[1][1] = "b32" /\ lo[1] = 0
        /\ lo[1] + fields[1][2] - 1 = 0
    BY <1>1, <1>2
  <2> QED BY <1>6, <2>1, Zenon
<1>8. FieldBits["AM32_R_R"]["mn"] = 1 .. 7
  <2>1. /\ 2 \in 1 .. 4 /\ fields[2][1] = "mn" /\ lo[2] = 1
        /\ lo[2] + fields[2][2] - 1 = 7
    BY <1>1, <1>2
  <2> QED BY <1>6, <2>1, Zenon
<1>9. FieldBits["AM32_R_R"]["rs"] = 18 .. 27
  <2>1. /\ 4 \in 1 .. 4 /\ fields[4][1] = "rs" /\ lo[4] = 18
        /\ lo[4] + fields[4][2] - 1 = 27
    BY <1>1, <1>2
  <2> QED BY <1>6, <2>1, Zenon
<1> QED BY <1>7, <1>8, <1>9

\* The places in AM32_R_OFS.
LEMMA Places_32_R_OFS ==
    /\ FieldBits["AM32_R_OFS"]["b32"] = 0 .. 0
    /\ FieldBits["AM32_R_OFS"]["mn"] = 1 .. 7
    /\ FieldBits["AM32_R_OFS"]["sofs"] = 18 .. 29
<1>1. PICK lo : lo = <<0, 1, 8, 18>>  OBVIOUS
<1>2. PICK fields :
          fields = <<<<"b32", 1>>, <<"mn", 7>>, <<"rd", 10>>, <<"sofs", 12>>>>
  OBVIOUS
<1>3. AM["AM32_R_OFS"] = fields
  <2>1. Opening \o <<<<"rd", 10>>, <<"sofs", 12>>>> = fields  BY <1>2, Join22, Zenon DEF Opening
  <2> QED BY <2>1, FieldsOf
<1>4. "AM32_R_OFS" \in DOMAIN AM  BY ModesAre DEF Modes
<1>5. 4 \in Nat /\ DOMAIN fields = 1 .. 4 /\ lo = FirstBits(fields, lo)
      /\ \A j, k \in 1 .. 4 : fields[j][1] = fields[k][1] => j = k
  BY <1>1, <1>2 DEF FirstBits
<1>6. \A k \in 1 .. 4 : FieldBits["AM32_R_OFS"][fields[k][1]] = lo[k] .. lo[k] + fields[k][2] - 1
  <2>1. IsPlaced("AM32_R_OFS", fields, 4, lo)  BY <1>3, <1>4, <1>5, Zenon DEF IsPlaced
  <2> QED BY <2>1, PlacesOf
<1>7. FieldBits["AM32_R_OFS"]["b32"] = 0 .. 0
  <2>1. /\ 1 \in 1 .. 4 /\ fields[1][1] = "b32" /\ lo[1] = 0
        /\ lo[1] + fields[1][2] - 1 = 0
    BY <1>1, <1>2
  <2> QED BY <1>6, <2>1, Zenon
<1>8. FieldBits["AM32_R_OFS"]["mn"] = 1 .. 7
  <2>1. /\ 2 \in 1 .. 4 /\ fields[2][1] = "mn" /\ lo[2] = 1
        /\ lo[2] + fields[2][2] - 1 = 7
    BY <1>1, <1>2
  <2> QED BY <1>6, <2>1, Zenon
<1>9. FieldBits["AM32_R_OFS"]["sofs"] = 18 .. 29
  <2>1. /\ 4 \in 1 .. 4 /\ fields[4][1] = "sofs" /\ lo[4] = 18
        /\ lo[4] + fields[4][2] - 1 = 29
    BY <1>1, <1>2
  <2> QED BY <1>6, <2>1, Zenon
<1> QED BY <1>7, <1>8, <1>9

\* The places in AM64_R_R_R.
LEMMA Places_64_R_R_R ==
    /\ FieldBits["AM64_R_R_R"]["b32"] = 0 .. 0
    /\ FieldBits["AM64_R_R_R"]["mn2"] = 8 .. 15
    /\ FieldBits["AM64_R_R_R"]["rd"] = 16 .. 25
    /\ FieldBits["AM64_R_R_R"]["rs"] = 44 .. 53
    /\ FieldBits["AM64_R_R_R"]["rt"] = 54 .. 63
<1>1. PICK lo : lo = <<0, 1, 8, 16, 26, 32, 44, 54>>  OBVIOUS
<1>2. PICK fields :
          fields = <<<<"b32", 1>>, <<"mn", 7>>, <<"mn2", 8>>, <<"rd", 10>>,
                         <<"dum1", 6>>, <<"dum2", 12>>, <<"rs", 10>>, <<"rt", 10>>>>
  OBVIOUS
<1>3. AM["AM64_R_R_R"] = fields
  <2>1. Wide \o <<<<"dum2", 12>>, <<"rs", 10>>, <<"rt", 10>>>> = fields  BY <1>2, Join53 DEF Wide
  <2> QED BY <2>1, FieldsOf
<1>4. "AM64_R_R_R" \in DOMAIN AM  BY ModesAre DEF Modes
<1>5. 8 \in Nat /\ DOMAIN fields = 1 .. 8 /\ lo = FirstBits(fields, lo)
      /\ \A j, k \in 1 .. 8 : fields[j][1] = fields[k][1] => j = k
  BY <1>1, <1>2 DEF FirstBits
<1>6. \A k \in 1 .. 8 : FieldBits["AM64_R_R_R"][fields[k][1]] = lo[k] .. lo[k] + fields[k][2] - 1
  <2>1. IsPlaced("AM64_R_R_R", fields, 8, lo)  BY <1>3, <1>4, <1>5, Zenon DEF IsPlaced
  <2> QED BY <2>1, PlacesOf
<1>7. FieldBits["AM64_R_R_R"]["b32"] = 0 .. 0
  <2>1. /\ 1 \in 1 .. 8 /\ fields[1][1] = "b32" /\ lo[1] = 0
        /\ lo[1] + fields[1][2] - 1 = 0
    BY <1>1, <1>2
  <2> QED BY <1>6, <2>1, Zenon
<1>8. FieldBits["AM64_R_R_R"]["mn2"] = 8 .. 15
  <2>1. /\ 3 \in 1 .. 8 /\ fields[3][1] = "mn2" /\ lo[3] = 8
        /\ lo[3] + fields[3][2] - 1 = 15
    BY <1>1, <1>2
  <2> QED BY <1>6, <2>1, Zenon
<1>9. FieldBits["AM64_R_R_R"]["rd"] = 16 .. 25
  <2>1. /\ 4 \in 1 .. 8 /\ fields[4][1] = "rd" /\ lo[4] = 16
        /\ lo[4] + fields[4][2] - 1 = 25
    BY <1>1, <1>2
  <2> QED BY <1>6, <2>1, Zenon
<1>10. FieldBits["AM64_R_R_R"]["rs"] = 44 .. 53
  <2>1. /\ 7 \in 1 .. 8 /\ fields[7][1] = "rs" /\ lo[7] = 44
        /\ lo[7] + fields[7][2] - 1 = 53
    BY <1>1, <1>2
  <2> QED BY <1>6, <2>1, ZenonT(40)
<1>11. FieldBits["AM64_R_R_R"]["rt"] = 54 .. 63
  <2>1. /\ 8 \in 1 .. 8 /\ fields[8][1] = "rt" /\ lo[8] = 54
        /\ lo[8] + fields[8][2] - 1 = 63
    BY <1>1, <1>2
  <2> QED BY <1>6, <2>1, ZenonT(40)
<1> QED BY <1>7, <1>8, <1>9, <1>10, <1>11

\* The places in AM64_R_OFS.
LEMMA Places_64_R_OFS ==
    /\ FieldBits["AM64_R_OFS"]["b32"] = 0 .. 0
    /\ FieldBits["AM64_R_OFS"]["mn2"] = 8 .. 15
    /\ FieldBits["AM64_R_OFS"]["lofs"] = 32 .. 63
<1>1. PICK lo : lo = <<0, 1, 8, 16, 26, 32>>  OBVIOUS
<1>2. PICK fields :
          fields = <<<<"b32", 1>>, <<"mn", 7>>, <<"mn2", 8>>, <<"rd", 10>>,
                         <<"dum1", 6>>, <<"lofs", 32>>>>
  OBVIOUS
<1>3. AM["AM64_R_OFS"] = fields
  <2>1. Wide \o <<<<"lofs", 32>>>> = fields  BY <1>2, Join51, ZenonT(40) DEF Wide
  <2> QED BY <2>1, FieldsOf
<1>4. "AM64_R_OFS" \in DOMAIN AM  BY ModesAre DEF Modes
<1>5. 6 \in Nat /\ DOMAIN fields = 1 .. 6 /\ lo = FirstBits(fields, lo)
      /\ \A j, k \in 1 .. 6 : fields[j][1] = fields[k][1] => j = k
  BY <1>1, <1>2 DEF FirstBits
<1>6. \A k \in 1 .. 6 : FieldBits["AM64_R_OFS"][fields[k][1]] = lo[k] .. lo[k] + fields[k][2] - 1
  <2>1. IsPlaced("AM64_R_OFS", fields, 6, lo)  BY <1>3, <1>4, <1>5, Zenon DEF IsPlaced
  <2> QED BY <2>1, PlacesOf
<1>7. FieldBits["AM64_R_OFS"]["b32"] = 0 .. 0
  <2>1. /\ 1 \in 1 .. 6 /\ fields[1][1] = "b32" /\ lo[1] = 0
        /\ lo[1] + fields[1][2] - 1 = 0
    BY <1>1, <1>2
  <2> QED BY <1>6, <2>1, Zenon
<1>8. FieldBits["AM64_R_OFS"]["mn2"] = 8 .. 15
  <2>1. /\ 3 \in 1 .. 6 /\ fields[3][1] = "mn2" /\ lo[3] = 8
        /\ lo[3] + fields[3][2] - 1 = 15
    BY <1>1, <1>2
  <2> QED BY <1>6, <2>1, Zenon
<1>9. FieldBits["AM64_R_OFS"]["lofs"] = 32 .. 63
  <2>1. /\ 6 \in 1 .. 6 /\ fields[6][1] = "lofs" /\ lo[6] = 32
        /\ lo[6] + fields[6][2] - 1 = 63
    BY <1>1, <1>2
  <2> QED BY <1>6, <2>1, ZenonT(40)
<1> QED BY <1>7, <1>8, <1>9

\* The places in AM64_R_R_OFS.
LEMMA Places_64_R_R_OFS ==
    /\ FieldBits["AM64_R_R_OFS"]["b32"] = 0 .. 0
    /\ FieldBits["AM64_R_R_OFS"]["mn"] = 1 .. 7
    /\ FieldBits["AM64_R_R_OFS"]["mn2"] = 8 .. 15
    /\ FieldBits["AM64_R_R_OFS"]["rs"] = 32 .. 41
    /\ FieldBits["AM64_R_R_OFS"]["sofs"] = 42 .. 61
<1>1. PICK lo : lo = <<0, 1, 8, 16, 26, 32, 42>>  OBVIOUS
<1>2. PICK fields :
          fields = <<<<"b32", 1>>, <<"mn", 7>>, <<"mn2", 8>>, <<"rd", 10>>,
                         <<"dum1", 6>>, <<"rs", 10>>, <<"sofs", 20>>>>
  OBVIOUS
<1>3. AM["AM64_R_R_OFS"] = fields
  <2>1. Wide \o <<<<"rs", 10>>, <<"sofs", 20>>>> = fields  BY <1>2, Join52 DEF Wide
  <2> QED BY <2>1, FieldsOf
<1>4. "AM64_R_R_OFS" \in DOMAIN AM  BY ModesAre DEF Modes
<1>5. 7 \in Nat /\ DOMAIN fields = 1 .. 7 /\ lo = FirstBits(fields, lo)
      /\ \A j, k \in 1 .. 7 : fields[j][1] = fields[k][1] => j = k
  BY <1>1, <1>2 DEF FirstBits
<1>6. \A k \in 1 .. 7 : FieldBits["AM64_R_R_OFS"][fields[k][1]] = lo[k] .. lo[k] + fields[k][2] - 1
  <2>1. IsPlaced("AM64_R_R_OFS", fields, 7, lo)  BY <1>3, <1>4, <1>5, Zenon DEF IsPlaced
  <2> QED BY <2>1, PlacesOf
<1>7. FieldBits["AM64_R_R_OFS"]["b32"] = 0 .. 0
  <2>1. /\ 1 \in 1 .. 7 /\ fields[1][1] = "b32" /\ lo[1] = 0
        /\ lo[1] + fields[1][2] - 1 = 0
    BY <1>1, <1>2
  <2> QED BY <1>6, <2>1, Zenon
<1>8. FieldBits["AM64_R_R_OFS"]["mn"] = 1 .. 7
  <2>1. /\ 2 \in 1 .. 7 /\ fields[2][1] = "mn" /\ lo[2] = 1
        /\ lo[2] + fields[2][2] - 1 = 7
    BY <1>1, <1>2
  <2> QED BY <1>6, <2>1, Zenon
<1>9. FieldBits["AM64_R_R_OFS"]["mn2"] = 8 .. 15
  <2>1. /\ 3 \in 1 .. 7 /\ fields[3][1] = "mn2" /\ lo[3] = 8
        /\ lo[3] + fields[3][2] - 1 = 15
    BY <1>1, <1>2
  <2> QED BY <1>6, <2>1, Zenon
<1>10. FieldBits["AM64_R_R_OFS"]["rs"] = 32 .. 41
  <2>1. /\ 6 \in 1 .. 7 /\ fields[6][1] = "rs" /\ lo[6] = 32
        /\ lo[6] + fields[6][2] - 1 = 41
    BY <1>1, <1>2
  <2> QED BY <1>6, <2>1, ZenonT(40)
<1>11. FieldBits["AM64_R_R_OFS"]["sofs"] = 42 .. 61
  <2>1. /\ 7 \in 1 .. 7 /\ fields[7][1] = "sofs" /\ lo[7] = 42
        /\ lo[7] + fields[7][2] - 1 = 61
    BY <1>1, <1>2
  <2> QED BY <1>6, <2>1, ZenonT(40)
<1> QED BY <1>7, <1>8, <1>9, <1>10, <1>11

Setters(am) == NewUwasm(am) \o Set_rd(am) \o Set_rs(am) \o Set_rt(am) \o Set_ofs(am)

\* What the setters of a mode write, and where.
SetBy(am, puts, at, n) ==
    /\ am \in Modes /\ n \in Nat /\ Setters(am) = puts /\ DOMAIN puts = 1 .. n
    /\ \A m \in 1 .. n : FieldBits[puts[m].am][puts[m].field] = at[m]

OnlyPlace(at, n, m, lo, hi, b) ==
    /\ m \in 1 .. n /\ lo \in Nat /\ hi \in 0 .. 63 /\ at[m] = lo .. hi
    /\ b \in lo .. hi /\ \A k \in 1 .. n : b \in at[k] => k = m

\* A bit written once is that of the operand written there.
LEMMA WrittenOnce ==
    ASSUME NEW am, NEW puts, NEW at, NEW n, SetBy(am, puts, at, n),
           NEW m, NEW lo, NEW hi, NEW b, OnlyPlace(at, n, m, lo, hi, b)
    PROVE  Set_am[am][b] = [of |-> puts[m].of, bit |-> b - lo]
<1> DEFINE p == Setters(am)
           where == [k \in DOMAIN p |-> FieldBits[p[k].am][p[k].field]]
           L    == {k \in DOMAIN p : b \in where[k]}
           last == Max({0} \cup L)
<1>0. /\ m \in 1 .. n /\ lo \in Nat /\ hi \in 0 .. 63 /\ at[m] = lo .. hi /\ b \in lo .. hi
      /\ am \in Modes /\ n \in Nat
  BY Zenon DEF OnlyPlace, SetBy
<1>1. b \in 0 .. 63 /\ am \in Modes /\ n \in Nat
  <2>1. \A h \in 0 .. 63, x \in Nat : \A y \in x .. h : y \in 0 .. 63  OBVIOUS
  <2> QED BY <1>0, <2>1, Zenon
<1> USE DEF OnlyPlace
<1>2. Set_am[am][b] = IF last = 0 THEN [of |-> "zero", bit |-> 0]
                      ELSE [of |-> p[last].of, bit |-> b - Min(where[last])]
  BY <1>1, ModesAre, Zenon DEF Set_am, Setters
<1>3. p = puts /\ DOMAIN p = 1 .. n /\ \A k \in 1 .. n : where[k] = at[k]
  BY DEF SetBy
<1> HIDE DEF p, where
<1>4. L = {m}  BY <1>3
<1> HIDE DEF L
<1>5. last = m
  <2>1. PICK T : T = {0} \cup L  OBVIOUS
  <2>2. T \subseteq 0 .. n /\ T # {} /\ m \in T /\ \A x \in T : x \in {0, m}  BY <1>1, <1>4, <2>1
  <2>3. Max(T) \in T /\ \A x \in T : x <= Max(T)  BY <1>1, <2>2, MaxIn
  <2>4. PICK x : x = Max(T)  OBVIOUS
  <2>5. x \in {0, m} /\ m <= x  BY <2>2, <2>3, <2>4
  <2>6. Max(T) = m  BY <2>4, <2>5
  <2> QED BY <2>1, <2>6
<1>6. Min(where[m]) = lo
  <2>1. PICK T : T = where[m]  OBVIOUS
  <2>0. lo \in Nat /\ hi \in Nat /\ lo <= hi /\ at[m] = lo .. hi /\ m \in 1 .. n
    <3>1. \A h \in 0 .. 63, x \in Nat : \A y \in x .. h : h \in Nat /\ x <= h  OBVIOUS
    <3> QED BY <1>0, <3>1, Zenon
  <2>2. T = lo .. hi /\ T \subseteq Nat /\ lo \in T  BY <1>3, <2>0, <2>1
  <2>3. Min(T) \in T /\ \A x \in T : Min(T) <= x
    <3>1. T \subseteq Nat /\ T # {}  BY <2>2
    <3> QED BY <3>1, MinIn
  <2>4. Min(T) = lo  BY <2>2, <2>3
  <2> QED BY <2>1, <2>4
<1> HIDE DEF last
<1>7. m # 0  OBVIOUS
<1> QED BY <1>2, <1>3, <1>5, <1>6, <1>7, Zenon

\* A bit written by none is zero.
LEMMA NeverWritten ==
    ASSUME NEW am, NEW puts, NEW at, NEW n, SetBy(am, puts, at, n),
           NEW b \in 0 .. 63, \A k \in 1 .. n : b \notin at[k]
    PROVE  Set_am[am][b] = [of |-> "zero", bit |-> 0]
<1> DEFINE p == Setters(am)
           where == [k \in DOMAIN p |-> FieldBits[p[k].am][p[k].field]]
           L    == {k \in DOMAIN p : b \in where[k]}
           last == Max({0} \cup L)
<1>1. am \in Modes /\ n \in Nat  BY DEF SetBy
<1>2. Set_am[am][b] = IF last = 0 THEN [of |-> "zero", bit |-> 0]
                      ELSE [of |-> p[last].of, bit |-> b - Min(where[last])]
  BY <1>1, ModesAre, Zenon DEF Set_am, Setters
<1>3. p = puts /\ DOMAIN p = 1 .. n /\ \A k \in 1 .. n : where[k] = at[k]
  BY DEF SetBy
<1> HIDE DEF p, where
<1>4. L = {}  BY <1>3
<1> HIDE DEF L
<1>5. last = 0
  <2>1. PICK T : T = {0} \cup L  OBVIOUS
  <2>2. T \subseteq 0 .. 0 /\ T # {} /\ \A x \in T : x = 0  BY <1>4, <2>1
  <2>3. 0 \in Nat  OBVIOUS
  <2>4. Max(T) \in T  BY <2>2, <2>3, MaxIn
  <2> QED BY <2>1, <2>2, <2>4
<1> QED BY <1>2, <1>5

\* 1 and 1.
LEMMA Join11 ==
    ASSUME NEW a, NEW b
    PROVE  <<a>> \o <<b>> = <<a, b>>
<1> DEFINE V == {a, b}
<1>1. <<a>> \in Seq(V) /\ <<b>> \in Seq(V)  OBVIOUS
<1>2. PICK s \in Seq(V), t \in Seq(V) : s = <<a>> /\ t = <<b>>  BY <1>1
<1>3. Len(s) = 1 /\ Len(t) = 1  BY <1>2
<1>4. s \o t = [k \in 1 .. 2 |-> IF k <= 1 THEN s[k] ELSE t[k - 1]]
  <2>1. s \o t = [k \in 1 .. Len(s) + Len(t) |-> IF k <= Len(s) THEN s[k] ELSE t[k - Len(s)]]
    BY JoinIs
  <2> QED BY <1>3, <2>1
<1>5. <<a, b>> = [k \in 1 .. 2 |-> IF k <= 1 THEN s[k] ELSE t[k - 1]]  BY <1>2
<1> QED BY <1>2, <1>4, <1>5

\* 3 and 1.
LEMMA Join31 ==
    ASSUME NEW a, NEW b, NEW c, NEW d
    PROVE  <<a, b, c>> \o <<d>> = <<a, b, c, d>>
<1> DEFINE V == {a, b, c, d}
<1>1. <<a, b, c>> \in Seq(V) /\ <<d>> \in Seq(V)  OBVIOUS
<1>2. PICK s \in Seq(V), t \in Seq(V) : s = <<a, b, c>> /\ t = <<d>>  BY <1>1
<1>3. Len(s) = 3 /\ Len(t) = 1  BY <1>2
<1>4. s \o t = [k \in 1 .. 4 |-> IF k <= 3 THEN s[k] ELSE t[k - 3]]
  <2>1. s \o t = [k \in 1 .. Len(s) + Len(t) |-> IF k <= Len(s) THEN s[k] ELSE t[k - Len(s)]]
    BY JoinIs
  <2> QED BY <1>3, <2>1
<1>5. <<a, b, c, d>> = [k \in 1 .. 4 |-> IF k <= 3 THEN s[k] ELSE t[k - 3]]  BY <1>2
<1> QED BY <1>2, <1>4, <1>5

\* 4 and 1.
LEMMA Join41 ==
    ASSUME NEW a, NEW b, NEW c, NEW d, NEW e
    PROVE  <<a, b, c, d>> \o <<e>> = <<a, b, c, d, e>>
<1> DEFINE V == {a, b, c, d, e}
<1>1. <<a, b, c, d>> \in Seq(V) /\ <<e>> \in Seq(V)  OBVIOUS
<1>2. PICK s \in Seq(V), t \in Seq(V) : s = <<a, b, c, d>> /\ t = <<e>>  BY <1>1
<1>3. Len(s) = 4 /\ Len(t) = 1  BY <1>2
<1>4. s \o t = [k \in 1 .. 5 |-> IF k <= 4 THEN s[k] ELSE t[k - 4]]
  <2>1. s \o t = [k \in 1 .. Len(s) + Len(t) |-> IF k <= Len(s) THEN s[k] ELSE t[k - Len(s)]]
    BY JoinIs
  <2> QED BY <1>3, <2>1
<1>5. <<a, b, c, d, e>> = [k \in 1 .. 5 |-> IF k <= 4 THEN s[k] ELSE t[k - 4]]  BY <1>2
<1> QED BY <1>2, <1>4, <1>5

\* Nothing joined.
LEMMA JoinNone ==
    ASSUME NEW s \in Seq(Puts)
    PROVE  s \o <<>> = s
BY ConcatEmptySeq

\* What is written in AM32.
LEMMA Stored_32 ==
    /\ Set_am["AM32"][0] = [of |-> "zero", bit |-> 0]
    /\ \A b \in 1 .. 7 : Set_am["AM32"][b] = [of |-> "code", bit |-> b - 1]
<1>1. PICK puts :
          puts = <<Put("AM32_R", "mn", "code")>>
  OBVIOUS
<1>2. PICK at : at = <<1 .. 7>>  OBVIOUS
<1>3. Setters("AM32") = puts
  <2>1. /\ NewUwasm("AM32") = <<Put("AM32_R", "mn", "code")>>
        /\ Set_rd("AM32") = <<>>
        /\ Set_rs("AM32") = <<>>
        /\ Set_rt("AM32") = <<>>
        /\ Set_ofs("AM32") = <<>>
    BY Zenon DEF NewUwasm, Set_rd, Set_rs, Set_rt, Set_ofs,
                 SmallModes, Regs32, Regs64
  <2>2. "AM32" \in Modes  BY DEF Modes
  <2>3. PICK s1 \in Seq(Puts) : s1 = NewUwasm("AM32")  BY <2>1, <2>2, SettersPut
  <2>4. PICK s2 \in Seq(Puts) : s2 = s1 \o Set_rd("AM32")
    <3>1. PICK u \in Seq(Puts) : u = Set_rd("AM32")
      <4>1. Set_rd("AM32") \in Seq(Puts)  BY <2>2, SettersPut
      <4> QED BY <4>1
    <3>2. s1 \o u \in Seq(Puts)  OBVIOUS
    <3> QED BY <3>1, <3>2
  <2>5. s2 = <<Put("AM32_R", "mn", "code")>>
    BY <2>1, <2>3, <2>4, JoinNone
  <2>6. PICK s3 \in Seq(Puts) : s3 = s2 \o Set_rs("AM32")
    <3>1. PICK u \in Seq(Puts) : u = Set_rs("AM32")
      <4>1. Set_rs("AM32") \in Seq(Puts)  BY <2>2, SettersPut
      <4> QED BY <4>1
    <3>2. s2 \o u \in Seq(Puts)  OBVIOUS
    <3> QED BY <3>1, <3>2
  <2>7. s3 = <<Put("AM32_R", "mn", "code")>>
    BY <2>1, <2>5, <2>6, JoinNone
  <2>8. PICK s4 \in Seq(Puts) : s4 = s3 \o Set_rt("AM32")
    <3>1. PICK u \in Seq(Puts) : u = Set_rt("AM32")
      <4>1. Set_rt("AM32") \in Seq(Puts)  BY <2>2, SettersPut
      <4> QED BY <4>1
    <3>2. s3 \o u \in Seq(Puts)  OBVIOUS
    <3> QED BY <3>1, <3>2
  <2>9. s4 = <<Put("AM32_R", "mn", "code")>>
    BY <2>1, <2>7, <2>8, JoinNone
  <2>10. PICK s5 \in Seq(Puts) : s5 = s4 \o Set_ofs("AM32")
    <3>1. PICK u \in Seq(Puts) : u = Set_ofs("AM32")
      <4>1. Set_ofs("AM32") \in Seq(Puts)  BY <2>2, SettersPut
      <4> QED BY <4>1
    <3>2. s4 \o u \in Seq(Puts)  OBVIOUS
    <3> QED BY <3>1, <3>2
  <2>11. s5 = <<Put("AM32_R", "mn", "code")>>
    BY <2>1, <2>9, <2>10, JoinNone
  <2> QED BY <1>1, <2>3, <2>4, <2>6, <2>8, <2>10, <2>11, Zenon DEF Setters
<1>4. SetBy("AM32", puts, at, 1)
  <2>1. "AM32" \in Modes /\ 1 \in Nat /\ DOMAIN puts = 1 .. 1  BY <1>1 DEF Modes
  <2>2. FieldBits[puts[1].am][puts[1].field] = at[1]
    <3>1. puts[1].am = "AM32_R" /\ puts[1].field = "mn"  BY <1>1 DEF Put
    <3>2. at[1] = 1 .. 7  BY <1>2
    <3> QED BY <3>1, <3>2, Places_32_R
  <2>3. \A k \in 1 .. 1 : FieldBits[puts[k].am][puts[k].field] = at[k]
    BY <2>2
  <2> QED BY <1>3, <2>1, <2>3 DEF SetBy
<1>5. Set_am["AM32"][0] = [of |-> "zero", bit |-> 0]
  <2>1. 0 \in 0 .. 63 /\ \A k \in 1 .. 1 : 0 \notin at[k]  BY <1>2
  <2> QED BY <1>4, <2>1, NeverWritten
<1>6. ASSUME NEW b \in 1 .. 7 PROVE Set_am["AM32"][b] = [of |-> "code", bit |-> b - 1]
  <2>1. 1 \in 1 .. 1 /\ 1 \in Nat /\ 7 \in 0 .. 63 /\ at[1] = 1 .. 7 /\ b \in at[1]
        /\ \A j \in 1 .. 1 : b \in at[j] => j = 1
    BY <1>2
  <2>2. puts[1].of = "code"  BY <1>1 DEF Put
  <2>3. OnlyPlace(at, 1, 1, 1, 7, b)  BY <2>1 DEF OnlyPlace
  <2> QED BY <1>4, <2>2, <2>3, WrittenOnce
<1> QED BY <1>5, <1>6

\* What is written in AM32_R.
LEMMA Stored_32_R ==
    /\ Set_am["AM32_R"][0] = [of |-> "zero", bit |-> 0]
    /\ \A b \in 1 .. 7 : Set_am["AM32_R"][b] = [of |-> "code", bit |-> b - 1]
    /\ \A b \in 8 .. 17 : Set_am["AM32_R"][b] = [of |-> "rd", bit |-> b - 8]
<1>1. PICK puts :
          puts = <<Put("AM32_R", "mn", "code"), Put("AM32_R", "rd", "rd")>>
  OBVIOUS
<1>2. PICK at : at = <<1 .. 7, 8 .. 17>>  OBVIOUS
<1>3. Setters("AM32_R") = puts
  <2>1. /\ NewUwasm("AM32_R") = <<Put("AM32_R", "mn", "code")>>
        /\ Set_rd("AM32_R") = <<Put("AM32_R", "rd", "rd")>>
        /\ Set_rs("AM32_R") = <<>>
        /\ Set_rt("AM32_R") = <<>>
        /\ Set_ofs("AM32_R") = <<>>
    BY Zenon DEF NewUwasm, Set_rd, Set_rs, Set_rt, Set_ofs,
                 SmallModes, Regs32, Regs64
  <2>2. "AM32_R" \in Modes  BY DEF Modes
  <2>3. PICK s1 \in Seq(Puts) : s1 = NewUwasm("AM32_R")  BY <2>1, <2>2, SettersPut
  <2>4. PICK s2 \in Seq(Puts) : s2 = s1 \o Set_rd("AM32_R")
    <3>1. PICK u \in Seq(Puts) : u = Set_rd("AM32_R")
      <4>1. Set_rd("AM32_R") \in Seq(Puts)  BY <2>2, SettersPut
      <4> QED BY <4>1
    <3>2. s1 \o u \in Seq(Puts)  OBVIOUS
    <3> QED BY <3>1, <3>2
  <2>5. s2 = <<Put("AM32_R", "mn", "code"), Put("AM32_R", "rd", "rd")>>
    BY <2>1, <2>3, <2>4, Join11, Zenon
  <2>6. PICK s3 \in Seq(Puts) : s3 = s2 \o Set_rs("AM32_R")
    <3>1. PICK u \in Seq(Puts) : u = Set_rs("AM32_R")
      <4>1. Set_rs("AM32_R") \in Seq(Puts)  BY <2>2, SettersPut
      <4> QED BY <4>1
    <3>2. s2 \o u \in Seq(Puts)  OBVIOUS
    <3> QED BY <3>1, <3>2
  <2>7. s3 = <<Put("AM32_R", "mn", "code"), Put("AM32_R", "rd", "rd")>>
    BY <2>1, <2>5, <2>6, JoinNone
  <2>8. PICK s4 \in Seq(Puts) : s4 = s3 \o Set_rt("AM32_R")
    <3>1. PICK u \in Seq(Puts) : u = Set_rt("AM32_R")
      <4>1. Set_rt("AM32_R") \in Seq(Puts)  BY <2>2, SettersPut
      <4> QED BY <4>1
    <3>2. s3 \o u \in Seq(Puts)  OBVIOUS
    <3> QED BY <3>1, <3>2
  <2>9. s4 = <<Put("AM32_R", "mn", "code"), Put("AM32_R", "rd", "rd")>>
    BY <2>1, <2>7, <2>8, JoinNone
  <2>10. PICK s5 \in Seq(Puts) : s5 = s4 \o Set_ofs("AM32_R")
    <3>1. PICK u \in Seq(Puts) : u = Set_ofs("AM32_R")
      <4>1. Set_ofs("AM32_R") \in Seq(Puts)  BY <2>2, SettersPut
      <4> QED BY <4>1
    <3>2. s4 \o u \in Seq(Puts)  OBVIOUS
    <3> QED BY <3>1, <3>2
  <2>11. s5 = <<Put("AM32_R", "mn", "code"), Put("AM32_R", "rd", "rd")>>
    BY <2>1, <2>9, <2>10, JoinNone
  <2> QED BY <1>1, <2>3, <2>4, <2>6, <2>8, <2>10, <2>11, Zenon DEF Setters
<1>4. SetBy("AM32_R", puts, at, 2)
  <2>1. "AM32_R" \in Modes /\ 2 \in Nat /\ DOMAIN puts = 1 .. 2  BY <1>1 DEF Modes
  <2>2. FieldBits[puts[1].am][puts[1].field] = at[1]
    <3>1. puts[1].am = "AM32_R" /\ puts[1].field = "mn"  BY <1>1 DEF Put
    <3>2. at[1] = 1 .. 7  BY <1>2
    <3> QED BY <3>1, <3>2, Places_32_R
  <2>3. FieldBits[puts[2].am][puts[2].field] = at[2]
    <3>1. puts[2].am = "AM32_R" /\ puts[2].field = "rd"  BY <1>1 DEF Put
    <3>2. at[2] = 8 .. 17  BY <1>2
    <3> QED BY <3>1, <3>2, Places_32_R
  <2>4. \A k \in 1 .. 2 : FieldBits[puts[k].am][puts[k].field] = at[k]
    BY <2>2, <2>3
  <2> QED BY <1>3, <2>1, <2>4 DEF SetBy
<1>5. Set_am["AM32_R"][0] = [of |-> "zero", bit |-> 0]
  <2>1. 0 \in 0 .. 63 /\ \A k \in 1 .. 2 : 0 \notin at[k]  BY <1>2
  <2> QED BY <1>4, <2>1, NeverWritten
<1>6. ASSUME NEW b \in 1 .. 7 PROVE Set_am["AM32_R"][b] = [of |-> "code", bit |-> b - 1]
  <2>1. 1 \in 1 .. 2 /\ 1 \in Nat /\ 7 \in 0 .. 63 /\ at[1] = 1 .. 7 /\ b \in at[1]
        /\ \A j \in 1 .. 2 : b \in at[j] => j = 1
    BY <1>2
  <2>2. puts[1].of = "code"  BY <1>1 DEF Put
  <2>3. OnlyPlace(at, 2, 1, 1, 7, b)  BY <2>1 DEF OnlyPlace
  <2> QED BY <1>4, <2>2, <2>3, WrittenOnce
<1>7. ASSUME NEW b \in 8 .. 17 PROVE Set_am["AM32_R"][b] = [of |-> "rd", bit |-> b - 8]
  <2>1. 2 \in 1 .. 2 /\ 8 \in Nat /\ 17 \in 0 .. 63 /\ at[2] = 8 .. 17 /\ b \in at[2]
        /\ \A j \in 1 .. 2 : b \in at[j] => j = 2
    BY <1>2
  <2>2. puts[2].of = "rd"  BY <1>1 DEF Put
  <2>3. OnlyPlace(at, 2, 2, 8, 17, b)  BY <2>1 DEF OnlyPlace
  <2> QED BY <1>4, <2>2, <2>3, WrittenOnce
<1> QED BY <1>5, <1>6, <1>7

\* What is written in AM32_R_R.
LEMMA Stored_32_R_R ==
    /\ Set_am["AM32_R_R"][0] = [of |-> "zero", bit |-> 0]
    /\ \A b \in 1 .. 7 : Set_am["AM32_R_R"][b] = [of |-> "code", bit |-> b - 1]
    /\ \A b \in 8 .. 17 : Set_am["AM32_R_R"][b] = [of |-> "rd", bit |-> b - 8]
    /\ \A b \in 18 .. 27 : Set_am["AM32_R_R"][b] = [of |-> "rs", bit |-> b - 18]
<1>1. PICK puts :
          puts = <<Put("AM32_R", "mn", "code"), Put("AM32_R", "rd", "rd"), Put("AM32_R_R", "rs", "rs")>>
  OBVIOUS
<1>2. PICK at : at = <<1 .. 7, 8 .. 17, 18 .. 27>>  OBVIOUS
<1>3. Setters("AM32_R_R") = puts
  <2>1. /\ NewUwasm("AM32_R_R") = <<Put("AM32_R", "mn", "code")>>
        /\ Set_rd("AM32_R_R") = <<Put("AM32_R", "rd", "rd")>>
        /\ Set_rs("AM32_R_R") = <<Put("AM32_R_R", "rs", "rs")>>
        /\ Set_rt("AM32_R_R") = <<>>
        /\ Set_ofs("AM32_R_R") = <<>>
    BY Zenon DEF NewUwasm, Set_rd, Set_rs, Set_rt, Set_ofs,
                 SmallModes, Regs32, Regs64
  <2>2. "AM32_R_R" \in Modes  BY DEF Modes
  <2>3. PICK s1 \in Seq(Puts) : s1 = NewUwasm("AM32_R_R")  BY <2>1, <2>2, SettersPut
  <2>4. PICK s2 \in Seq(Puts) : s2 = s1 \o Set_rd("AM32_R_R")
    <3>1. PICK u \in Seq(Puts) : u = Set_rd("AM32_R_R")
      <4>1. Set_rd("AM32_R_R") \in Seq(Puts)  BY <2>2, SettersPut
      <4> QED BY <4>1
    <3>2. s1 \o u \in Seq(Puts)  OBVIOUS
    <3> QED BY <3>1, <3>2
  <2>5. s2 = <<Put("AM32_R", "mn", "code"), Put("AM32_R", "rd", "rd")>>
    BY <2>1, <2>3, <2>4, Join11, Zenon
  <2>6. PICK s3 \in Seq(Puts) : s3 = s2 \o Set_rs("AM32_R_R")
    <3>1. PICK u \in Seq(Puts) : u = Set_rs("AM32_R_R")
      <4>1. Set_rs("AM32_R_R") \in Seq(Puts)  BY <2>2, SettersPut
      <4> QED BY <4>1
    <3>2. s2 \o u \in Seq(Puts)  OBVIOUS
    <3> QED BY <3>1, <3>2
  <2>7. s3 = <<Put("AM32_R", "mn", "code"), Put("AM32_R", "rd", "rd"), Put("AM32_R_R", "rs", "rs")>>
    BY <2>1, <2>5, <2>6, Join21, Zenon
  <2>8. PICK s4 \in Seq(Puts) : s4 = s3 \o Set_rt("AM32_R_R")
    <3>1. PICK u \in Seq(Puts) : u = Set_rt("AM32_R_R")
      <4>1. Set_rt("AM32_R_R") \in Seq(Puts)  BY <2>2, SettersPut
      <4> QED BY <4>1
    <3>2. s3 \o u \in Seq(Puts)  OBVIOUS
    <3> QED BY <3>1, <3>2
  <2>9. s4 = <<Put("AM32_R", "mn", "code"), Put("AM32_R", "rd", "rd"), Put("AM32_R_R", "rs", "rs")>>
    BY <2>1, <2>7, <2>8, JoinNone
  <2>10. PICK s5 \in Seq(Puts) : s5 = s4 \o Set_ofs("AM32_R_R")
    <3>1. PICK u \in Seq(Puts) : u = Set_ofs("AM32_R_R")
      <4>1. Set_ofs("AM32_R_R") \in Seq(Puts)  BY <2>2, SettersPut
      <4> QED BY <4>1
    <3>2. s4 \o u \in Seq(Puts)  OBVIOUS
    <3> QED BY <3>1, <3>2
  <2>11. s5 = <<Put("AM32_R", "mn", "code"), Put("AM32_R", "rd", "rd"), Put("AM32_R_R", "rs", "rs")>>
    BY <2>1, <2>9, <2>10, JoinNone
  <2> QED BY <1>1, <2>3, <2>4, <2>6, <2>8, <2>10, <2>11, Zenon DEF Setters
<1>4. SetBy("AM32_R_R", puts, at, 3)
  <2>1. "AM32_R_R" \in Modes /\ 3 \in Nat /\ DOMAIN puts = 1 .. 3  BY <1>1 DEF Modes
  <2>2. FieldBits[puts[1].am][puts[1].field] = at[1]
    <3>1. puts[1].am = "AM32_R" /\ puts[1].field = "mn"  BY <1>1 DEF Put
    <3>2. at[1] = 1 .. 7  BY <1>2
    <3> QED BY <3>1, <3>2, Places_32_R
  <2>3. FieldBits[puts[2].am][puts[2].field] = at[2]
    <3>1. puts[2].am = "AM32_R" /\ puts[2].field = "rd"  BY <1>1 DEF Put
    <3>2. at[2] = 8 .. 17  BY <1>2
    <3> QED BY <3>1, <3>2, Places_32_R
  <2>4. FieldBits[puts[3].am][puts[3].field] = at[3]
    <3>1. puts[3].am = "AM32_R_R" /\ puts[3].field = "rs"  BY <1>1 DEF Put
    <3>2. at[3] = 18 .. 27  BY <1>2
    <3> QED BY <3>1, <3>2, Places_32_R_R
  <2>5. \A k \in 1 .. 3 : FieldBits[puts[k].am][puts[k].field] = at[k]
    BY <2>2, <2>3, <2>4
  <2> QED BY <1>3, <2>1, <2>5 DEF SetBy
<1>5. Set_am["AM32_R_R"][0] = [of |-> "zero", bit |-> 0]
  <2>1. 0 \in 0 .. 63 /\ \A k \in 1 .. 3 : 0 \notin at[k]  BY <1>2
  <2> QED BY <1>4, <2>1, NeverWritten
<1>6. ASSUME NEW b \in 1 .. 7 PROVE Set_am["AM32_R_R"][b] = [of |-> "code", bit |-> b - 1]
  <2>1. 1 \in 1 .. 3 /\ 1 \in Nat /\ 7 \in 0 .. 63 /\ at[1] = 1 .. 7 /\ b \in at[1]
        /\ \A j \in 1 .. 3 : b \in at[j] => j = 1
    BY <1>2
  <2>2. puts[1].of = "code"  BY <1>1 DEF Put
  <2>3. OnlyPlace(at, 3, 1, 1, 7, b)  BY <2>1 DEF OnlyPlace
  <2> QED BY <1>4, <2>2, <2>3, WrittenOnce
<1>7. ASSUME NEW b \in 8 .. 17 PROVE Set_am["AM32_R_R"][b] = [of |-> "rd", bit |-> b - 8]
  <2>1. 2 \in 1 .. 3 /\ 8 \in Nat /\ 17 \in 0 .. 63 /\ at[2] = 8 .. 17 /\ b \in at[2]
        /\ \A j \in 1 .. 3 : b \in at[j] => j = 2
    BY <1>2
  <2>2. puts[2].of = "rd"  BY <1>1 DEF Put
  <2>3. OnlyPlace(at, 3, 2, 8, 17, b)  BY <2>1 DEF OnlyPlace
  <2> QED BY <1>4, <2>2, <2>3, WrittenOnce
<1>8. ASSUME NEW b \in 18 .. 27 PROVE Set_am["AM32_R_R"][b] = [of |-> "rs", bit |-> b - 18]
  <2>1. 3 \in 1 .. 3 /\ 18 \in Nat /\ 27 \in 0 .. 63 /\ at[3] = 18 .. 27 /\ b \in at[3]
        /\ \A j \in 1 .. 3 : b \in at[j] => j = 3
    BY <1>2
  <2>2. puts[3].of = "rs"  BY <1>1 DEF Put
  <2>3. OnlyPlace(at, 3, 3, 18, 27, b)  BY <2>1 DEF OnlyPlace
  <2> QED BY <1>4, <2>2, <2>3, WrittenOnce
<1> QED BY <1>5, <1>6, <1>7, <1>8

\* What is written in AM32_R_OFS.
LEMMA Stored_32_R_OFS ==
    /\ Set_am["AM32_R_OFS"][0] = [of |-> "zero", bit |-> 0]
    /\ \A b \in 1 .. 7 : Set_am["AM32_R_OFS"][b] = [of |-> "code", bit |-> b - 1]
    /\ \A b \in 8 .. 17 : Set_am["AM32_R_OFS"][b] = [of |-> "rd", bit |-> b - 8]
    /\ \A b \in 18 .. 29 : Set_am["AM32_R_OFS"][b] = [of |-> "ofs", bit |-> b - 18]
<1>1. PICK puts :
          puts = <<Put("AM32_R", "mn", "code"), Put("AM32_R", "rd", "rd"), Put("AM32_R_OFS", "sofs", "ofs")>>
  OBVIOUS
<1>2. PICK at : at = <<1 .. 7, 8 .. 17, 18 .. 29>>  OBVIOUS
<1>3. Setters("AM32_R_OFS") = puts
  <2>1. /\ NewUwasm("AM32_R_OFS") = <<Put("AM32_R", "mn", "code")>>
        /\ Set_rd("AM32_R_OFS") = <<Put("AM32_R", "rd", "rd")>>
        /\ Set_rs("AM32_R_OFS") = <<>>
        /\ Set_rt("AM32_R_OFS") = <<>>
        /\ Set_ofs("AM32_R_OFS") = <<Put("AM32_R_OFS", "sofs", "ofs")>>
    BY Zenon DEF NewUwasm, Set_rd, Set_rs, Set_rt, Set_ofs,
                 SmallModes, Regs32, Regs64
  <2>2. "AM32_R_OFS" \in Modes  BY DEF Modes
  <2>3. PICK s1 \in Seq(Puts) : s1 = NewUwasm("AM32_R_OFS")  BY <2>1, <2>2, SettersPut
  <2>4. PICK s2 \in Seq(Puts) : s2 = s1 \o Set_rd("AM32_R_OFS")
    <3>1. PICK u \in Seq(Puts) : u = Set_rd("AM32_R_OFS")
      <4>1. Set_rd("AM32_R_OFS") \in Seq(Puts)  BY <2>2, SettersPut
      <4> QED BY <4>1
    <3>2. s1 \o u \in Seq(Puts)  OBVIOUS
    <3> QED BY <3>1, <3>2
  <2>5. s2 = <<Put("AM32_R", "mn", "code"), Put("AM32_R", "rd", "rd")>>
    BY <2>1, <2>3, <2>4, Join11, Zenon
  <2>6. PICK s3 \in Seq(Puts) : s3 = s2 \o Set_rs("AM32_R_OFS")
    <3>1. PICK u \in Seq(Puts) : u = Set_rs("AM32_R_OFS")
      <4>1. Set_rs("AM32_R_OFS") \in Seq(Puts)  BY <2>2, SettersPut
      <4> QED BY <4>1
    <3>2. s2 \o u \in Seq(Puts)  OBVIOUS
    <3> QED BY <3>1, <3>2
  <2>7. s3 = <<Put("AM32_R", "mn", "code"), Put("AM32_R", "rd", "rd")>>
    BY <2>1, <2>5, <2>6, JoinNone
  <2>8. PICK s4 \in Seq(Puts) : s4 = s3 \o Set_rt("AM32_R_OFS")
    <3>1. PICK u \in Seq(Puts) : u = Set_rt("AM32_R_OFS")
      <4>1. Set_rt("AM32_R_OFS") \in Seq(Puts)  BY <2>2, SettersPut
      <4> QED BY <4>1
    <3>2. s3 \o u \in Seq(Puts)  OBVIOUS
    <3> QED BY <3>1, <3>2
  <2>9. s4 = <<Put("AM32_R", "mn", "code"), Put("AM32_R", "rd", "rd")>>
    BY <2>1, <2>7, <2>8, JoinNone
  <2>10. PICK s5 \in Seq(Puts) : s5 = s4 \o Set_ofs("AM32_R_OFS")
    <3>1. PICK u \in Seq(Puts) : u = Set_ofs("AM32_R_OFS")
      <4>1. Set_ofs("AM32_R_OFS") \in Seq(Puts)  BY <2>2, SettersPut
      <4> QED BY <4>1
    <3>2. s4 \o u \in Seq(Puts)  OBVIOUS
    <3> QED BY <3>1, <3>2
  <2>11. s5 = <<Put("AM32_R", "mn", "code"), Put("AM32_R", "rd", "rd"), Put("AM32_R_OFS", "sofs", "ofs")>>
    BY <2>1, <2>9, <2>10, Join21, Zenon
  <2> QED BY <1>1, <2>3, <2>4, <2>6, <2>8, <2>10, <2>11, Zenon DEF Setters
<1>4. SetBy("AM32_R_OFS", puts, at, 3)
  <2>1. "AM32_R_OFS" \in Modes /\ 3 \in Nat /\ DOMAIN puts = 1 .. 3  BY <1>1 DEF Modes
  <2>2. FieldBits[puts[1].am][puts[1].field] = at[1]
    <3>1. puts[1].am = "AM32_R" /\ puts[1].field = "mn"  BY <1>1 DEF Put
    <3>2. at[1] = 1 .. 7  BY <1>2
    <3> QED BY <3>1, <3>2, Places_32_R
  <2>3. FieldBits[puts[2].am][puts[2].field] = at[2]
    <3>1. puts[2].am = "AM32_R" /\ puts[2].field = "rd"  BY <1>1 DEF Put
    <3>2. at[2] = 8 .. 17  BY <1>2
    <3> QED BY <3>1, <3>2, Places_32_R
  <2>4. FieldBits[puts[3].am][puts[3].field] = at[3]
    <3>1. puts[3].am = "AM32_R_OFS" /\ puts[3].field = "sofs"  BY <1>1 DEF Put
    <3>2. at[3] = 18 .. 29  BY <1>2
    <3> QED BY <3>1, <3>2, Places_32_R_OFS
  <2>5. \A k \in 1 .. 3 : FieldBits[puts[k].am][puts[k].field] = at[k]
    BY <2>2, <2>3, <2>4
  <2> QED BY <1>3, <2>1, <2>5 DEF SetBy
<1>5. Set_am["AM32_R_OFS"][0] = [of |-> "zero", bit |-> 0]
  <2>1. 0 \in 0 .. 63 /\ \A k \in 1 .. 3 : 0 \notin at[k]  BY <1>2
  <2> QED BY <1>4, <2>1, NeverWritten
<1>6. ASSUME NEW b \in 1 .. 7 PROVE Set_am["AM32_R_OFS"][b] = [of |-> "code", bit |-> b - 1]
  <2>1. 1 \in 1 .. 3 /\ 1 \in Nat /\ 7 \in 0 .. 63 /\ at[1] = 1 .. 7 /\ b \in at[1]
        /\ \A j \in 1 .. 3 : b \in at[j] => j = 1
    BY <1>2
  <2>2. puts[1].of = "code"  BY <1>1 DEF Put
  <2>3. OnlyPlace(at, 3, 1, 1, 7, b)  BY <2>1 DEF OnlyPlace
  <2> QED BY <1>4, <2>2, <2>3, WrittenOnce
<1>7. ASSUME NEW b \in 8 .. 17 PROVE Set_am["AM32_R_OFS"][b] = [of |-> "rd", bit |-> b - 8]
  <2>1. 2 \in 1 .. 3 /\ 8 \in Nat /\ 17 \in 0 .. 63 /\ at[2] = 8 .. 17 /\ b \in at[2]
        /\ \A j \in 1 .. 3 : b \in at[j] => j = 2
    BY <1>2
  <2>2. puts[2].of = "rd"  BY <1>1 DEF Put
  <2>3. OnlyPlace(at, 3, 2, 8, 17, b)  BY <2>1 DEF OnlyPlace
  <2> QED BY <1>4, <2>2, <2>3, WrittenOnce
<1>8. ASSUME NEW b \in 18 .. 29 PROVE Set_am["AM32_R_OFS"][b] = [of |-> "ofs", bit |-> b - 18]
  <2>1. 3 \in 1 .. 3 /\ 18 \in Nat /\ 29 \in 0 .. 63 /\ at[3] = 18 .. 29 /\ b \in at[3]
        /\ \A j \in 1 .. 3 : b \in at[j] => j = 3
    BY <1>2
  <2>2. puts[3].of = "ofs"  BY <1>1 DEF Put
  <2>3. OnlyPlace(at, 3, 3, 18, 29, b)  BY <2>1 DEF OnlyPlace
  <2> QED BY <1>4, <2>2, <2>3, WrittenOnce
<1> QED BY <1>5, <1>6, <1>7, <1>8

\* What is written in AM64_R_R_R.
LEMMA Stored_64_R_R_R ==
    /\ \A b \in 0 .. 0 : Set_am["AM64_R_R_R"][b] = [of |-> "one", bit |-> b - 0]
    /\ \A b \in 8 .. 15 : Set_am["AM64_R_R_R"][b] = [of |-> "code", bit |-> b - 8]
    /\ \A b \in 16 .. 25 : Set_am["AM64_R_R_R"][b] = [of |-> "rd", bit |-> b - 16]
    /\ \A b \in 44 .. 53 : Set_am["AM64_R_R_R"][b] = [of |-> "rs", bit |-> b - 44]
    /\ \A b \in 54 .. 63 : Set_am["AM64_R_R_R"][b] = [of |-> "rt", bit |-> b - 54]
<1>1. PICK puts :
          puts = <<Put("AM64_R_R_OFS", "b32", "one"), Put("AM64_R_R_OFS", "mn", "high"), Put("AM64_R_R_OFS", "mn2", "code"),
                   Put("AM64_R_R_R", "rd", "rd"), Put("AM64_R_R_R", "rs", "rs"), Put("AM64_R_R_R", "rt", "rt")>>
  OBVIOUS
<1>2. PICK at : at = <<0 .. 0, 1 .. 7, 8 .. 15, 16 .. 25, 44 .. 53, 54 .. 63>>  OBVIOUS
<1>3. Setters("AM64_R_R_R") = puts
  <2>1. /\ NewUwasm("AM64_R_R_R") = <<Put("AM64_R_R_OFS", "b32", "one"), Put("AM64_R_R_OFS", "mn", "high"), Put("AM64_R_R_OFS", "mn2", "code")>>
        /\ Set_rd("AM64_R_R_R") = <<Put("AM64_R_R_R", "rd", "rd")>>
        /\ Set_rs("AM64_R_R_R") = <<Put("AM64_R_R_R", "rs", "rs")>>
        /\ Set_rt("AM64_R_R_R") = <<Put("AM64_R_R_R", "rt", "rt")>>
        /\ Set_ofs("AM64_R_R_R") = <<>>
    BY Zenon DEF NewUwasm, Set_rd, Set_rs, Set_rt, Set_ofs,
                 SmallModes, Regs32, Regs64
  <2>2. "AM64_R_R_R" \in Modes  BY DEF Modes
  <2>3. PICK s1 \in Seq(Puts) : s1 = NewUwasm("AM64_R_R_R")  BY <2>1, <2>2, SettersPut
  <2>4. PICK s2 \in Seq(Puts) : s2 = s1 \o Set_rd("AM64_R_R_R")
    <3>1. PICK u \in Seq(Puts) : u = Set_rd("AM64_R_R_R")
      <4>1. Set_rd("AM64_R_R_R") \in Seq(Puts)  BY <2>2, SettersPut
      <4> QED BY <4>1
    <3>2. s1 \o u \in Seq(Puts)  OBVIOUS
    <3> QED BY <3>1, <3>2
  <2>5. s2 = <<Put("AM64_R_R_OFS", "b32", "one"), Put("AM64_R_R_OFS", "mn", "high"), Put("AM64_R_R_OFS", "mn2", "code"),
               Put("AM64_R_R_R", "rd", "rd")>>
    BY <2>1, <2>3, <2>4, Join31
  <2>6. PICK s3 \in Seq(Puts) : s3 = s2 \o Set_rs("AM64_R_R_R")
    <3>1. PICK u \in Seq(Puts) : u = Set_rs("AM64_R_R_R")
      <4>1. Set_rs("AM64_R_R_R") \in Seq(Puts)  BY <2>2, SettersPut
      <4> QED BY <4>1
    <3>2. s2 \o u \in Seq(Puts)  OBVIOUS
    <3> QED BY <3>1, <3>2
  <2>7. s3 = <<Put("AM64_R_R_OFS", "b32", "one"), Put("AM64_R_R_OFS", "mn", "high"), Put("AM64_R_R_OFS", "mn2", "code"),
               Put("AM64_R_R_R", "rd", "rd"), Put("AM64_R_R_R", "rs", "rs")>>
    BY <2>1, <2>5, <2>6, Join41, ZenonT(40)
  <2>8. PICK s4 \in Seq(Puts) : s4 = s3 \o Set_rt("AM64_R_R_R")
    <3>1. PICK u \in Seq(Puts) : u = Set_rt("AM64_R_R_R")
      <4>1. Set_rt("AM64_R_R_R") \in Seq(Puts)  BY <2>2, SettersPut
      <4> QED BY <4>1
    <3>2. s3 \o u \in Seq(Puts)  OBVIOUS
    <3> QED BY <3>1, <3>2
  <2>9. s4 = <<Put("AM64_R_R_OFS", "b32", "one"), Put("AM64_R_R_OFS", "mn", "high"), Put("AM64_R_R_OFS", "mn2", "code"),
               Put("AM64_R_R_R", "rd", "rd"), Put("AM64_R_R_R", "rs", "rs"), Put("AM64_R_R_R", "rt", "rt")>>
    BY <2>1, <2>7, <2>8, Join51, ZenonT(40)
  <2>10. PICK s5 \in Seq(Puts) : s5 = s4 \o Set_ofs("AM64_R_R_R")
    <3>1. PICK u \in Seq(Puts) : u = Set_ofs("AM64_R_R_R")
      <4>1. Set_ofs("AM64_R_R_R") \in Seq(Puts)  BY <2>2, SettersPut
      <4> QED BY <4>1
    <3>2. s4 \o u \in Seq(Puts)  OBVIOUS
    <3> QED BY <3>1, <3>2
  <2>11. s5 = <<Put("AM64_R_R_OFS", "b32", "one"), Put("AM64_R_R_OFS", "mn", "high"), Put("AM64_R_R_OFS", "mn2", "code"),
               Put("AM64_R_R_R", "rd", "rd"), Put("AM64_R_R_R", "rs", "rs"), Put("AM64_R_R_R", "rt", "rt")>>
    BY <2>1, <2>9, <2>10, JoinNone
  <2> QED BY <1>1, <2>3, <2>4, <2>6, <2>8, <2>10, <2>11, Zenon DEF Setters
<1>4. SetBy("AM64_R_R_R", puts, at, 6)
  <2>1. "AM64_R_R_R" \in Modes /\ 6 \in Nat /\ DOMAIN puts = 1 .. 6  BY <1>1 DEF Modes
  <2>2. FieldBits[puts[1].am][puts[1].field] = at[1]
    <3>1. puts[1].am = "AM64_R_R_OFS" /\ puts[1].field = "b32"  BY <1>1 DEF Put
    <3>2. at[1] = 0 .. 0  BY <1>2
    <3> QED BY <3>1, <3>2, Places_64_R_R_OFS
  <2>3. FieldBits[puts[2].am][puts[2].field] = at[2]
    <3>1. puts[2].am = "AM64_R_R_OFS" /\ puts[2].field = "mn"  BY <1>1 DEF Put
    <3>2. at[2] = 1 .. 7  BY <1>2
    <3> QED BY <3>1, <3>2, Places_64_R_R_OFS
  <2>4. FieldBits[puts[3].am][puts[3].field] = at[3]
    <3>1. puts[3].am = "AM64_R_R_OFS" /\ puts[3].field = "mn2"  BY <1>1 DEF Put
    <3>2. at[3] = 8 .. 15  BY <1>2
    <3> QED BY <3>1, <3>2, Places_64_R_R_OFS
  <2>5. FieldBits[puts[4].am][puts[4].field] = at[4]
    <3>1. puts[4].am = "AM64_R_R_R" /\ puts[4].field = "rd"  BY <1>1 DEF Put
    <3>2. at[4] = 16 .. 25  BY <1>2
    <3> QED BY <3>1, <3>2, Places_64_R_R_R
  <2>6. FieldBits[puts[5].am][puts[5].field] = at[5]
    <3>1. puts[5].am = "AM64_R_R_R" /\ puts[5].field = "rs"  BY <1>1 DEF Put
    <3>2. at[5] = 44 .. 53  BY <1>2
    <3> QED BY <3>1, <3>2, Places_64_R_R_R
  <2>7. FieldBits[puts[6].am][puts[6].field] = at[6]
    <3>1. puts[6].am = "AM64_R_R_R" /\ puts[6].field = "rt"  BY <1>1 DEF Put
    <3>2. at[6] = 54 .. 63  BY <1>2
    <3> QED BY <3>1, <3>2, Places_64_R_R_R
  <2>8. \A k \in 1 .. 6 : FieldBits[puts[k].am][puts[k].field] = at[k]
    BY <2>2, <2>3, <2>4, <2>5, <2>6, <2>7
  <2> QED BY <1>3, <2>1, <2>8 DEF SetBy
<1>5. ASSUME NEW b \in 0 .. 0 PROVE Set_am["AM64_R_R_R"][b] = [of |-> "one", bit |-> b - 0]
  <2>1. 1 \in 1 .. 6 /\ 0 \in Nat /\ 0 \in 0 .. 63 /\ at[1] = 0 .. 0 /\ b \in at[1]
        /\ \A j \in 1 .. 6 : b \in at[j] => j = 1
    BY <1>2
  <2>2. puts[1].of = "one"  BY <1>1 DEF Put
  <2>3. OnlyPlace(at, 6, 1, 0, 0, b)  BY <2>1 DEF OnlyPlace
  <2> QED BY <1>4, <2>2, <2>3, WrittenOnce
<1>6. ASSUME NEW b \in 8 .. 15 PROVE Set_am["AM64_R_R_R"][b] = [of |-> "code", bit |-> b - 8]
  <2>1. 3 \in 1 .. 6 /\ 8 \in Nat /\ 15 \in 0 .. 63 /\ at[3] = 8 .. 15 /\ b \in at[3]
        /\ \A j \in 1 .. 6 : b \in at[j] => j = 3
    BY <1>2
  <2>2. puts[3].of = "code"  BY <1>1 DEF Put
  <2>3. OnlyPlace(at, 6, 3, 8, 15, b)  BY <2>1 DEF OnlyPlace
  <2> QED BY <1>4, <2>2, <2>3, WrittenOnce
<1>7. ASSUME NEW b \in 16 .. 25 PROVE Set_am["AM64_R_R_R"][b] = [of |-> "rd", bit |-> b - 16]
  <2>1. 4 \in 1 .. 6 /\ 16 \in Nat /\ 25 \in 0 .. 63 /\ at[4] = 16 .. 25 /\ b \in at[4]
        /\ \A j \in 1 .. 6 : b \in at[j] => j = 4
    BY <1>2
  <2>2. puts[4].of = "rd"  BY <1>1 DEF Put
  <2>3. OnlyPlace(at, 6, 4, 16, 25, b)  BY <2>1 DEF OnlyPlace
  <2> QED BY <1>4, <2>2, <2>3, WrittenOnce
<1>8. ASSUME NEW b \in 44 .. 53 PROVE Set_am["AM64_R_R_R"][b] = [of |-> "rs", bit |-> b - 44]
  <2>1. 5 \in 1 .. 6 /\ 44 \in Nat /\ 53 \in 0 .. 63 /\ at[5] = 44 .. 53 /\ b \in at[5]
        /\ \A j \in 1 .. 6 : b \in at[j] => j = 5
    BY <1>2
  <2>2. puts[5].of = "rs"  BY <1>1 DEF Put
  <2>3. OnlyPlace(at, 6, 5, 44, 53, b)  BY <2>1 DEF OnlyPlace
  <2> QED BY <1>4, <2>2, <2>3, WrittenOnce
<1>9. ASSUME NEW b \in 54 .. 63 PROVE Set_am["AM64_R_R_R"][b] = [of |-> "rt", bit |-> b - 54]
  <2>1. 6 \in 1 .. 6 /\ 54 \in Nat /\ 63 \in 0 .. 63 /\ at[6] = 54 .. 63 /\ b \in at[6]
        /\ \A j \in 1 .. 6 : b \in at[j] => j = 6
    BY <1>2
  <2>2. puts[6].of = "rt"  BY <1>1 DEF Put
  <2>3. OnlyPlace(at, 6, 6, 54, 63, b)  BY <2>1 DEF OnlyPlace
  <2> QED BY <1>4, <2>2, <2>3, WrittenOnce
<1> QED BY <1>5, <1>6, <1>7, <1>8, <1>9

\* What is written in AM64_R_OFS.
LEMMA Stored_64_R_OFS ==
    /\ \A b \in 0 .. 0 : Set_am["AM64_R_OFS"][b] = [of |-> "one", bit |-> b - 0]
    /\ \A b \in 8 .. 15 : Set_am["AM64_R_OFS"][b] = [of |-> "code", bit |-> b - 8]
    /\ \A b \in 16 .. 25 : Set_am["AM64_R_OFS"][b] = [of |-> "rd", bit |-> b - 16]
    /\ \A b \in 32 .. 63 : Set_am["AM64_R_OFS"][b] = [of |-> "ofs", bit |-> b - 32]
<1>1. PICK puts :
          puts = <<Put("AM64_R_R_OFS", "b32", "one"), Put("AM64_R_R_OFS", "mn", "high"), Put("AM64_R_R_OFS", "mn2", "code"),
                   Put("AM64_R_R_R", "rd", "rd"), Put("AM64_R_OFS", "lofs", "ofs")>>
  OBVIOUS
<1>2. PICK at : at = <<0 .. 0, 1 .. 7, 8 .. 15, 16 .. 25, 32 .. 63>>  OBVIOUS
<1>3. Setters("AM64_R_OFS") = puts
  <2>1. /\ NewUwasm("AM64_R_OFS") = <<Put("AM64_R_R_OFS", "b32", "one"), Put("AM64_R_R_OFS", "mn", "high"), Put("AM64_R_R_OFS", "mn2", "code")>>
        /\ Set_rd("AM64_R_OFS") = <<Put("AM64_R_R_R", "rd", "rd")>>
        /\ Set_rs("AM64_R_OFS") = <<>>
        /\ Set_rt("AM64_R_OFS") = <<>>
        /\ Set_ofs("AM64_R_OFS") = <<Put("AM64_R_OFS", "lofs", "ofs")>>
    BY Zenon DEF NewUwasm, Set_rd, Set_rs, Set_rt, Set_ofs,
                 SmallModes, Regs32, Regs64
  <2>2. "AM64_R_OFS" \in Modes  BY DEF Modes
  <2>3. PICK s1 \in Seq(Puts) : s1 = NewUwasm("AM64_R_OFS")  BY <2>1, <2>2, SettersPut
  <2>4. PICK s2 \in Seq(Puts) : s2 = s1 \o Set_rd("AM64_R_OFS")
    <3>1. PICK u \in Seq(Puts) : u = Set_rd("AM64_R_OFS")
      <4>1. Set_rd("AM64_R_OFS") \in Seq(Puts)  BY <2>2, SettersPut
      <4> QED BY <4>1
    <3>2. s1 \o u \in Seq(Puts)  OBVIOUS
    <3> QED BY <3>1, <3>2
  <2>5. s2 = <<Put("AM64_R_R_OFS", "b32", "one"), Put("AM64_R_R_OFS", "mn", "high"), Put("AM64_R_R_OFS", "mn2", "code"),
               Put("AM64_R_R_R", "rd", "rd")>>
    BY <2>1, <2>3, <2>4, Join31
  <2>6. PICK s3 \in Seq(Puts) : s3 = s2 \o Set_rs("AM64_R_OFS")
    <3>1. PICK u \in Seq(Puts) : u = Set_rs("AM64_R_OFS")
      <4>1. Set_rs("AM64_R_OFS") \in Seq(Puts)  BY <2>2, SettersPut
      <4> QED BY <4>1
    <3>2. s2 \o u \in Seq(Puts)  OBVIOUS
    <3> QED BY <3>1, <3>2
  <2>7. s3 = <<Put("AM64_R_R_OFS", "b32", "one"), Put("AM64_R_R_OFS", "mn", "high"), Put("AM64_R_R_OFS", "mn2", "code"),
               Put("AM64_R_R_R", "rd", "rd")>>
    BY <2>1, <2>5, <2>6, JoinNone
  <2>8. PICK s4 \in Seq(Puts) : s4 = s3 \o Set_rt("AM64_R_OFS")
    <3>1. PICK u \in Seq(Puts) : u = Set_rt("AM64_R_OFS")
      <4>1. Set_rt("AM64_R_OFS") \in Seq(Puts)  BY <2>2, SettersPut
      <4> QED BY <4>1
    <3>2. s3 \o u \in Seq(Puts)  OBVIOUS
    <3> QED BY <3>1, <3>2
  <2>9. s4 = <<Put("AM64_R_R_OFS", "b32", "one"), Put("AM64_R_R_OFS", "mn", "high"), Put("AM64_R_R_OFS", "mn2", "code"),
               Put("AM64_R_R_R", "rd", "rd")>>
    BY <2>1, <2>7, <2>8, JoinNone
  <2>10. PICK s5 \in Seq(Puts) : s5 = s4 \o Set_ofs("AM64_R_OFS")
    <3>1. PICK u \in Seq(Puts) : u = Set_ofs("AM64_R_OFS")
      <4>1. Set_ofs("AM64_R_OFS") \in Seq(Puts)  BY <2>2, SettersPut
      <4> QED BY <4>1
    <3>2. s4 \o u \in Seq(Puts)  OBVIOUS
    <3> QED BY <3>1, <3>2
  <2>11. s5 = <<Put("AM64_R_R_OFS", "b32", "one"), Put("AM64_R_R_OFS", "mn", "high"), Put("AM64_R_R_OFS", "mn2", "code"),
               Put("AM64_R_R_R", "rd", "rd"), Put("AM64_R_OFS", "lofs", "ofs")>>
    BY <2>1, <2>9, <2>10, Join41, ZenonT(40)
  <2> QED BY <1>1, <2>3, <2>4, <2>6, <2>8, <2>10, <2>11, Zenon DEF Setters
<1>4. SetBy("AM64_R_OFS", puts, at, 5)
  <2>1. "AM64_R_OFS" \in Modes /\ 5 \in Nat /\ DOMAIN puts = 1 .. 5  BY <1>1 DEF Modes
  <2>2. FieldBits[puts[1].am][puts[1].field] = at[1]
    <3>1. puts[1].am = "AM64_R_R_OFS" /\ puts[1].field = "b32"  BY <1>1 DEF Put
    <3>2. at[1] = 0 .. 0  BY <1>2
    <3> QED BY <3>1, <3>2, Places_64_R_R_OFS
  <2>3. FieldBits[puts[2].am][puts[2].field] = at[2]
    <3>1. puts[2].am = "AM64_R_R_OFS" /\ puts[2].field = "mn"  BY <1>1 DEF Put
    <3>2. at[2] = 1 .. 7  BY <1>2
    <3> QED BY <3>1, <3>2, Places_64_R_R_OFS
  <2>4. FieldBits[puts[3].am][puts[3].field] = at[3]
    <3>1. puts[3].am = "AM64_R_R_OFS" /\ puts[3].field = "mn2"  BY <1>1 DEF Put
    <3>2. at[3] = 8 .. 15  BY <1>2
    <3> QED BY <3>1, <3>2, Places_64_R_R_OFS
  <2>5. FieldBits[puts[4].am][puts[4].field] = at[4]
    <3>1. puts[4].am = "AM64_R_R_R" /\ puts[4].field = "rd"  BY <1>1 DEF Put
    <3>2. at[4] = 16 .. 25  BY <1>2
    <3> QED BY <3>1, <3>2, Places_64_R_R_R
  <2>6. FieldBits[puts[5].am][puts[5].field] = at[5]
    <3>1. puts[5].am = "AM64_R_OFS" /\ puts[5].field = "lofs"  BY <1>1 DEF Put
    <3>2. at[5] = 32 .. 63  BY <1>2
    <3> QED BY <3>1, <3>2, Places_64_R_OFS
  <2>7. \A k \in 1 .. 5 : FieldBits[puts[k].am][puts[k].field] = at[k]
    BY <2>2, <2>3, <2>4, <2>5, <2>6
  <2> QED BY <1>3, <2>1, <2>7 DEF SetBy
<1>5. ASSUME NEW b \in 0 .. 0 PROVE Set_am["AM64_R_OFS"][b] = [of |-> "one", bit |-> b - 0]
  <2>1. 1 \in 1 .. 5 /\ 0 \in Nat /\ 0 \in 0 .. 63 /\ at[1] = 0 .. 0 /\ b \in at[1]
        /\ \A j \in 1 .. 5 : b \in at[j] => j = 1
    BY <1>2
  <2>2. puts[1].of = "one"  BY <1>1 DEF Put
  <2>3. OnlyPlace(at, 5, 1, 0, 0, b)  BY <2>1 DEF OnlyPlace
  <2> QED BY <1>4, <2>2, <2>3, WrittenOnce
<1>6. ASSUME NEW b \in 8 .. 15 PROVE Set_am["AM64_R_OFS"][b] = [of |-> "code", bit |-> b - 8]
  <2>1. 3 \in 1 .. 5 /\ 8 \in Nat /\ 15 \in 0 .. 63 /\ at[3] = 8 .. 15 /\ b \in at[3]
        /\ \A j \in 1 .. 5 : b \in at[j] => j = 3
    BY <1>2
  <2>2. puts[3].of = "code"  BY <1>1 DEF Put
  <2>3. OnlyPlace(at, 5, 3, 8, 15, b)  BY <2>1 DEF OnlyPlace
  <2> QED BY <1>4, <2>2, <2>3, WrittenOnce
<1>7. ASSUME NEW b \in 16 .. 25 PROVE Set_am["AM64_R_OFS"][b] = [of |-> "rd", bit |-> b - 16]
  <2>1. 4 \in 1 .. 5 /\ 16 \in Nat /\ 25 \in 0 .. 63 /\ at[4] = 16 .. 25 /\ b \in at[4]
        /\ \A j \in 1 .. 5 : b \in at[j] => j = 4
    BY <1>2
  <2>2. puts[4].of = "rd"  BY <1>1 DEF Put
  <2>3. OnlyPlace(at, 5, 4, 16, 25, b)  BY <2>1 DEF OnlyPlace
  <2> QED BY <1>4, <2>2, <2>3, WrittenOnce
<1>8. ASSUME NEW b \in 32 .. 63 PROVE Set_am["AM64_R_OFS"][b] = [of |-> "ofs", bit |-> b - 32]
  <2>1. 5 \in 1 .. 5 /\ 32 \in Nat /\ 63 \in 0 .. 63 /\ at[5] = 32 .. 63 /\ b \in at[5]
        /\ \A j \in 1 .. 5 : b \in at[j] => j = 5
    BY <1>2
  <2>2. puts[5].of = "ofs"  BY <1>1 DEF Put
  <2>3. OnlyPlace(at, 5, 5, 32, 63, b)  BY <2>1 DEF OnlyPlace
  <2> QED BY <1>4, <2>2, <2>3, WrittenOnce
<1> QED BY <1>5, <1>6, <1>7, <1>8

\* What is written in AM64_R_R_OFS.
LEMMA Stored_64_R_R_OFS ==
    /\ \A b \in 0 .. 0 : Set_am["AM64_R_R_OFS"][b] = [of |-> "one", bit |-> b - 0]
    /\ \A b \in 8 .. 15 : Set_am["AM64_R_R_OFS"][b] = [of |-> "code", bit |-> b - 8]
    /\ \A b \in 16 .. 25 : Set_am["AM64_R_R_OFS"][b] = [of |-> "rd", bit |-> b - 16]
    /\ \A b \in 32 .. 41 : Set_am["AM64_R_R_OFS"][b] = [of |-> "rs", bit |-> b - 32]
    /\ \A b \in 42 .. 61 : Set_am["AM64_R_R_OFS"][b] = [of |-> "ofs", bit |-> b - 42]
<1>1. PICK puts :
          puts = <<Put("AM64_R_R_OFS", "b32", "one"), Put("AM64_R_R_OFS", "mn", "high"), Put("AM64_R_R_OFS", "mn2", "code"),
                   Put("AM64_R_R_R", "rd", "rd"), Put("AM64_R_R_OFS", "rs", "rs"), Put("AM64_R_R_OFS", "sofs", "ofs")>>
  OBVIOUS
<1>2. PICK at : at = <<0 .. 0, 1 .. 7, 8 .. 15, 16 .. 25, 32 .. 41, 42 .. 61>>  OBVIOUS
<1>3. Setters("AM64_R_R_OFS") = puts
  <2>1. /\ NewUwasm("AM64_R_R_OFS") = <<Put("AM64_R_R_OFS", "b32", "one"), Put("AM64_R_R_OFS", "mn", "high"), Put("AM64_R_R_OFS", "mn2", "code")>>
        /\ Set_rd("AM64_R_R_OFS") = <<Put("AM64_R_R_R", "rd", "rd")>>
        /\ Set_rs("AM64_R_R_OFS") = <<Put("AM64_R_R_OFS", "rs", "rs")>>
        /\ Set_rt("AM64_R_R_OFS") = <<>>
        /\ Set_ofs("AM64_R_R_OFS") = <<Put("AM64_R_R_OFS", "sofs", "ofs")>>
    BY Zenon DEF NewUwasm, Set_rd, Set_rs, Set_rt, Set_ofs,
                 SmallModes, Regs32, Regs64
  <2>2. "AM64_R_R_OFS" \in Modes  BY DEF Modes
  <2>3. PICK s1 \in Seq(Puts) : s1 = NewUwasm("AM64_R_R_OFS")  BY <2>1, <2>2, SettersPut
  <2>4. PICK s2 \in Seq(Puts) : s2 = s1 \o Set_rd("AM64_R_R_OFS")
    <3>1. PICK u \in Seq(Puts) : u = Set_rd("AM64_R_R_OFS")
      <4>1. Set_rd("AM64_R_R_OFS") \in Seq(Puts)  BY <2>2, SettersPut
      <4> QED BY <4>1
    <3>2. s1 \o u \in Seq(Puts)  OBVIOUS
    <3> QED BY <3>1, <3>2
  <2>5. s2 = <<Put("AM64_R_R_OFS", "b32", "one"), Put("AM64_R_R_OFS", "mn", "high"), Put("AM64_R_R_OFS", "mn2", "code"),
               Put("AM64_R_R_R", "rd", "rd")>>
    BY <2>1, <2>3, <2>4, Join31
  <2>6. PICK s3 \in Seq(Puts) : s3 = s2 \o Set_rs("AM64_R_R_OFS")
    <3>1. PICK u \in Seq(Puts) : u = Set_rs("AM64_R_R_OFS")
      <4>1. Set_rs("AM64_R_R_OFS") \in Seq(Puts)  BY <2>2, SettersPut
      <4> QED BY <4>1
    <3>2. s2 \o u \in Seq(Puts)  OBVIOUS
    <3> QED BY <3>1, <3>2
  <2>7. s3 = <<Put("AM64_R_R_OFS", "b32", "one"), Put("AM64_R_R_OFS", "mn", "high"), Put("AM64_R_R_OFS", "mn2", "code"),
               Put("AM64_R_R_R", "rd", "rd"), Put("AM64_R_R_OFS", "rs", "rs")>>
    BY <2>1, <2>5, <2>6, Join41, ZenonT(40)
  <2>8. PICK s4 \in Seq(Puts) : s4 = s3 \o Set_rt("AM64_R_R_OFS")
    <3>1. PICK u \in Seq(Puts) : u = Set_rt("AM64_R_R_OFS")
      <4>1. Set_rt("AM64_R_R_OFS") \in Seq(Puts)  BY <2>2, SettersPut
      <4> QED BY <4>1
    <3>2. s3 \o u \in Seq(Puts)  OBVIOUS
    <3> QED BY <3>1, <3>2
  <2>9. s4 = <<Put("AM64_R_R_OFS", "b32", "one"), Put("AM64_R_R_OFS", "mn", "high"), Put("AM64_R_R_OFS", "mn2", "code"),
               Put("AM64_R_R_R", "rd", "rd"), Put("AM64_R_R_OFS", "rs", "rs")>>
    BY <2>1, <2>7, <2>8, JoinNone
  <2>10. PICK s5 \in Seq(Puts) : s5 = s4 \o Set_ofs("AM64_R_R_OFS")
    <3>1. PICK u \in Seq(Puts) : u = Set_ofs("AM64_R_R_OFS")
      <4>1. Set_ofs("AM64_R_R_OFS") \in Seq(Puts)  BY <2>2, SettersPut
      <4> QED BY <4>1
    <3>2. s4 \o u \in Seq(Puts)  OBVIOUS
    <3> QED BY <3>1, <3>2
  <2>11. s5 = <<Put("AM64_R_R_OFS", "b32", "one"), Put("AM64_R_R_OFS", "mn", "high"), Put("AM64_R_R_OFS", "mn2", "code"),
               Put("AM64_R_R_R", "rd", "rd"), Put("AM64_R_R_OFS", "rs", "rs"), Put("AM64_R_R_OFS", "sofs", "ofs")>>
    BY <2>1, <2>9, <2>10, Join51, ZenonT(40)
  <2> QED BY <1>1, <2>3, <2>4, <2>6, <2>8, <2>10, <2>11, Zenon DEF Setters
<1>4. SetBy("AM64_R_R_OFS", puts, at, 6)
  <2>1. "AM64_R_R_OFS" \in Modes /\ 6 \in Nat /\ DOMAIN puts = 1 .. 6  BY <1>1 DEF Modes
  <2>2. FieldBits[puts[1].am][puts[1].field] = at[1]
    <3>1. puts[1].am = "AM64_R_R_OFS" /\ puts[1].field = "b32"  BY <1>1 DEF Put
    <3>2. at[1] = 0 .. 0  BY <1>2
    <3> QED BY <3>1, <3>2, Places_64_R_R_OFS
  <2>3. FieldBits[puts[2].am][puts[2].field] = at[2]
    <3>1. puts[2].am = "AM64_R_R_OFS" /\ puts[2].field = "mn"  BY <1>1 DEF Put
    <3>2. at[2] = 1 .. 7  BY <1>2
    <3> QED BY <3>1, <3>2, Places_64_R_R_OFS
  <2>4. FieldBits[puts[3].am][puts[3].field] = at[3]
    <3>1. puts[3].am = "AM64_R_R_OFS" /\ puts[3].field = "mn2"  BY <1>1 DEF Put
    <3>2. at[3] = 8 .. 15  BY <1>2
    <3> QED BY <3>1, <3>2, Places_64_R_R_OFS
  <2>5. FieldBits[puts[4].am][puts[4].field] = at[4]
    <3>1. puts[4].am = "AM64_R_R_R" /\ puts[4].field = "rd"  BY <1>1 DEF Put
    <3>2. at[4] = 16 .. 25  BY <1>2
    <3> QED BY <3>1, <3>2, Places_64_R_R_R
  <2>6. FieldBits[puts[5].am][puts[5].field] = at[5]
    <3>1. puts[5].am = "AM64_R_R_OFS" /\ puts[5].field = "rs"  BY <1>1 DEF Put
    <3>2. at[5] = 32 .. 41  BY <1>2
    <3> QED BY <3>1, <3>2, Places_64_R_R_OFS
  <2>7. FieldBits[puts[6].am][puts[6].field] = at[6]
    <3>1. puts[6].am = "AM64_R_R_OFS" /\ puts[6].field = "sofs"  BY <1>1 DEF Put
    <3>2. at[6] = 42 .. 61  BY <1>2
    <3> QED BY <3>1, <3>2, Places_64_R_R_OFS
  <2>8. \A k \in 1 .. 6 : FieldBits[puts[k].am][puts[k].field] = at[k]
    BY <2>2, <2>3, <2>4, <2>5, <2>6, <2>7
  <2> QED BY <1>3, <2>1, <2>8 DEF SetBy
<1>5. ASSUME NEW b \in 0 .. 0 PROVE Set_am["AM64_R_R_OFS"][b] = [of |-> "one", bit |-> b - 0]
  <2>1. 1 \in 1 .. 6 /\ 0 \in Nat /\ 0 \in 0 .. 63 /\ at[1] = 0 .. 0 /\ b \in at[1]
        /\ \A j \in 1 .. 6 : b \in at[j] => j = 1
    BY <1>2
  <2>2. puts[1].of = "one"  BY <1>1 DEF Put
  <2>3. OnlyPlace(at, 6, 1, 0, 0, b)  BY <2>1 DEF OnlyPlace
  <2> QED BY <1>4, <2>2, <2>3, WrittenOnce
<1>6. ASSUME NEW b \in 8 .. 15 PROVE Set_am["AM64_R_R_OFS"][b] = [of |-> "code", bit |-> b - 8]
  <2>1. 3 \in 1 .. 6 /\ 8 \in Nat /\ 15 \in 0 .. 63 /\ at[3] = 8 .. 15 /\ b \in at[3]
        /\ \A j \in 1 .. 6 : b \in at[j] => j = 3
    BY <1>2
  <2>2. puts[3].of = "code"  BY <1>1 DEF Put
  <2>3. OnlyPlace(at, 6, 3, 8, 15, b)  BY <2>1 DEF OnlyPlace
  <2> QED BY <1>4, <2>2, <2>3, WrittenOnce
<1>7. ASSUME NEW b \in 16 .. 25 PROVE Set_am["AM64_R_R_OFS"][b] = [of |-> "rd", bit |-> b - 16]
  <2>1. 4 \in 1 .. 6 /\ 16 \in Nat /\ 25 \in 0 .. 63 /\ at[4] = 16 .. 25 /\ b \in at[4]
        /\ \A j \in 1 .. 6 : b \in at[j] => j = 4
    BY <1>2
  <2>2. puts[4].of = "rd"  BY <1>1 DEF Put
  <2>3. OnlyPlace(at, 6, 4, 16, 25, b)  BY <2>1 DEF OnlyPlace
  <2> QED BY <1>4, <2>2, <2>3, WrittenOnce
<1>8. ASSUME NEW b \in 32 .. 41 PROVE Set_am["AM64_R_R_OFS"][b] = [of |-> "rs", bit |-> b - 32]
  <2>1. 5 \in 1 .. 6 /\ 32 \in Nat /\ 41 \in 0 .. 63 /\ at[5] = 32 .. 41 /\ b \in at[5]
        /\ \A j \in 1 .. 6 : b \in at[j] => j = 5
    BY <1>2
  <2>2. puts[5].of = "rs"  BY <1>1 DEF Put
  <2>3. OnlyPlace(at, 6, 5, 32, 41, b)  BY <2>1 DEF OnlyPlace
  <2> QED BY <1>4, <2>2, <2>3, WrittenOnce
<1>9. ASSUME NEW b \in 42 .. 61 PROVE Set_am["AM64_R_R_OFS"][b] = [of |-> "ofs", bit |-> b - 42]
  <2>1. 6 \in 1 .. 6 /\ 42 \in Nat /\ 61 \in 0 .. 63 /\ at[6] = 42 .. 61 /\ b \in at[6]
        /\ \A j \in 1 .. 6 : b \in at[j] => j = 6
    BY <1>2
  <2>2. puts[6].of = "ofs"  BY <1>1 DEF Put
  <2>3. OnlyPlace(at, 6, 6, 42, 61, b)  BY <2>1 DEF OnlyPlace
  <2> QED BY <1>4, <2>2, <2>3, WrittenOnce
<1> QED BY <1>5, <1>6, <1>7, <1>8, <1>9

-----------------------------------------------------------------------------
(* A field of the storage as a number.                                       *)

\* A number and its halves.
Halves(h, v) ==
    /\ h[0] = v
    /\ \A j \in 0 .. 32 : h[j] \in Nat
    /\ \A j \in 0 .. 31 : h[j + 1] = h[j] \div 2

\* What a number is made of.
LEMMA HalfIs ==
    ASSUME NEW h, NEW v, Halves(h, v), NEW j \in 0 .. 31
    PROVE  h[j] = (h[j] % 2) + 2 * h[j + 1]
<1>1. PICK x \in Nat : x = h[j]  BY DEF Halves
<1>2. h[j + 1] = x \div 2  BY <1>1 DEF Halves
<1>3. x = (x % 2) + 2 * (x \div 2)  OBVIOUS
<1> QED BY <1>1, <1>2, <1>3

\* The numbers below 31 that a bit may have, and the powers of two they stand for.
LEMMA PowerIs ==
    ASSUME NEW v \in Nat, NEW j \in 0 .. 30
    PROVE  v \div 2^j \in Nat /\ v \div 2^(j + 1) = (v \div 2^j) \div 2
<1> DEFINE Good(x) == v \div 2^x \in Nat /\ v \div 2^(x + 1) = (v \div 2^x) \div 2
<1>1. Good(0) /\ Good(1) /\ Good(2) /\ Good(3) /\ Good(4) /\ Good(5) /\ Good(6) /\ Good(7)  OBVIOUS
<1>2. Good(8) /\ Good(9) /\ Good(10) /\ Good(11) /\ Good(12) /\ Good(13) /\ Good(14) /\ Good(15)  OBVIOUS
<1>3. Good(16) /\ Good(17) /\ Good(18) /\ Good(19) /\ Good(20) /\ Good(21) /\ Good(22) /\ Good(23)
  OBVIOUS
<1>4. Good(24) /\ Good(25) /\ Good(26) /\ Good(27) /\ Good(28) /\ Good(29) /\ Good(30)
  OBVIOUS
<1> HIDE DEF Good
<1>5. Good(j)
  <2>1. CASE j < 16
    <3>1. j \in 0 .. 7 \/ j \in 8 .. 15  BY <2>1
    <3> QED BY <1>1, <1>2, <3>1
  <2>2. CASE j >= 16
    <3>1. j \in 16 .. 23 \/ j \in 24 .. 30  BY <2>2
    <3> QED BY <1>3, <1>4, <3>1
  <2> QED BY <2>1, <2>2
<1> QED BY <1>5 DEF Good

\* Every number of 31 bits has halves, the last of them zero.
LEMMA HalvesExist ==
    ASSUME NEW v \in Nat, v < 2^31
    PROVE  \E h : /\ Halves(h, v) /\ \A j \in 0 .. 30 : h[j] = v \div 2^j
                  /\ h[31] = 0 /\ h[32] = 0
<1> DEFINE h == [j \in 0 .. 32 |-> IF j <= 30 THEN v \div 2^j ELSE 0]
<1>1. \A j \in 0 .. 30 : h[j] = v \div 2^j /\ h[j] \in Nat
  <2> SUFFICES ASSUME NEW j \in 0 .. 30 PROVE h[j] = v \div 2^j /\ h[j] \in Nat
    OBVIOUS
  <2>1. j \in 0 .. 32 /\ j <= 30  OBVIOUS
  <2>2. h[j] = v \div 2^j  BY <2>1
  <2>3. v \div 2^j \in Nat  BY PowerIs
  <2> QED BY <2>2, <2>3
<1>2. h[31] = 0 /\ h[32] = 0  OBVIOUS
<1>3. h[0] = v
  <2>1. v \div 2^0 = v  OBVIOUS
  <2> QED BY <1>1, <2>1
<1> HIDE DEF h
<1>4. \A j \in 0 .. 29 : h[j + 1] = h[j] \div 2
  <2> SUFFICES ASSUME NEW j \in 0 .. 29 PROVE h[j + 1] = h[j] \div 2
    OBVIOUS
  <2>1. j \in 0 .. 30 /\ j + 1 \in 0 .. 30  OBVIOUS
  <2> QED BY <1>1, <2>1, PowerIs
<1>5. h[31] = h[30] \div 2
  <2>1. v \div 2^31 = 0  OBVIOUS
  <2>2. 30 \in 0 .. 30 /\ 30 + 1 = 31  OBVIOUS
  <2>3. v \div 2^31 = (v \div 2^30) \div 2  BY <2>2, PowerIs
  <2> QED BY <1>1, <1>2, <2>1, <2>2, <2>3
<1>6. h[32] = h[31] \div 2
  <2>1. 0 \div 2 = 0  OBVIOUS
  <2> QED BY <1>2, <2>1
<1>7. \A j \in 0 .. 31 : h[j + 1] = h[j] \div 2
  <2> SUFFICES ASSUME NEW j \in 0 .. 31 PROVE h[j + 1] = h[j] \div 2
    OBVIOUS
  <2>1. j \in 0 .. 29 \/ (j = 30 /\ j + 1 = 31) \/ (j = 31 /\ j + 1 = 32)  OBVIOUS
  <2> QED BY <1>4, <1>5, <1>6, <2>1
<1>8. \A j \in 0 .. 32 : h[j] \in Nat
  <2>1. \A j \in 0 .. 32 : j \in 0 .. 30 \/ j = 31 \/ j = 32  OBVIOUS
  <2> QED BY <1>1, <1>2, <2>1
<1> QED BY <1>1, <1>2, <1>3, <1>7, <1>8 DEF Halves

\* The bits of a field are those of a number that fits it.
BitsIn(bits, am, f, lo, w, h) ==
    /\ lo \in Nat /\ w \in 1 .. 32 /\ lo + w <= 64
    /\ FieldBits[am][f] = lo .. lo + w - 1
    /\ h[w] = 0
    /\ \A j \in 0 .. w - 1 : bits[lo + j] = h[j] % 2

\* Such a field gives the number.
LEMMA FieldIs ==
    ASSUME NEW bits, NEW am, NEW f, NEW lo, NEW w, NEW h, BitsIn(bits, am, f, lo, w, h),
           NEW v, Halves(h, v)
    PROVE  GetField(bits, am, f) = v
<1>0. /\ lo \in Nat /\ w \in 1 .. 32 /\ lo + w <= 64
      /\ FieldBits[am][f] = lo .. lo + w - 1
      /\ h[w] = 0
      /\ \A j \in 0 .. w - 1 : bits[lo + j] = h[j] % 2
  BY DEF BitsIn
<1> USE <1>0
<1> DEFINE at   == FieldBits[am][f]
           T(g) == [b \in 0 .. 64 |-> IF b \notin at THEN 0 ELSE bits[b] + 2 * g[b + 1]]
           from == CHOOSE g : g = T(g)
           e    == [b \in 0 .. 64 |-> IF b \in at THEN h[b - lo] ELSE 0]
           S    == {k \in Nat : k <= w => from[lo + w - k] = h[w - k]}
<1>1. GetField(bits, am, f) = from[Min(at)]  BY Zenon DEF GetField
<1>2. at = lo .. lo + w - 1  OBVIOUS
<1> HIDE DEF at
<1>3. \A b \in 0 .. 64 : b \notin at => e[b] = 0  OBVIOUS
<1>4. \A j \in 0 .. w - 1 : lo + j \in at /\ lo + j \in 0 .. 64 /\ e[lo + j] = h[j]
  <2> SUFFICES ASSUME NEW j \in 0 .. w - 1
               PROVE  lo + j \in at /\ lo + j \in 0 .. 64 /\ e[lo + j] = h[j]
    OBVIOUS
  <2>1. lo + j \in at /\ lo + j \in 0 .. 64 /\ lo + j - lo = j  BY <1>2
  <2> QED BY <2>1
<1>5. lo + w \in 0 .. 64 /\ lo + w \notin at  BY <1>2
<1>6. e = T(e)
  <2>1. ASSUME NEW b \in 0 .. 64, b \in at PROVE e[b] = bits[b] + 2 * e[b + 1]
    <3>1. PICK j \in 0 .. w - 1 : b = lo + j
      <4>1. b - lo \in 0 .. w - 1 /\ b = lo + (b - lo)  BY <1>2, <2>1
      <4> QED BY <4>1
    <3>2. e[b] = h[j] /\ bits[b] = h[j] % 2  BY <1>4, <3>1
    <3>3. e[b + 1] = h[j + 1]
      <4>1. CASE j + 1 = w
        <5>1. b + 1 = lo + w  BY <3>1, <4>1
        <5> QED BY <1>3, <1>5, <4>1, <5>1
      <4>2. CASE j + 1 # w
        <5>1. j + 1 \in 0 .. w - 1 /\ b + 1 = lo + (j + 1)  BY <3>1, <4>2
        <5> QED BY <1>4, <5>1
      <4> QED BY <4>1, <4>2
    <3>4. h[j] = (h[j] % 2) + 2 * h[j + 1]
      <4>1. j \in 0 .. 31  OBVIOUS
      <4> QED BY <4>1, HalfIs, ZenonT(40)
    <3> QED BY <3>2, <3>3, <3>4
  <2>2. \A b \in 0 .. 64 : e[b] = IF b \notin at THEN 0 ELSE bits[b] + 2 * e[b + 1]
    BY <1>3, <2>1
  <2>3. e = [b \in 0 .. 64 |-> e[b]]  BY SMTT(30)
  <2> HIDE DEF e
  <2> QED BY <2>2, <2>3
<1> HIDE DEF e
<1>7. from = T(from)  BY <1>6
<1> HIDE DEF from
<1>8. \A b \in 0 .. 64 : from[b] = IF b \notin at THEN 0 ELSE bits[b] + 2 * from[b + 1]
  BY <1>7
<1> HIDE DEF T
<1>9. 0 \in S
  <2>1. from[lo + w] = 0  BY <1>5, <1>8
  <2>2. lo + w - 0 = lo + w /\ w - 0 = w  OBVIOUS
  <2> QED BY <2>1, <2>2
<1>10. ASSUME NEW k \in Nat, k \in S PROVE k + 1 \in S
  <2> SUFFICES ASSUME k + 1 <= w PROVE from[lo + w - (k + 1)] = h[w - (k + 1)]
    OBVIOUS
  <2>1. PICK j \in 0 .. w - 1 : j = w - (k + 1)  OBVIOUS
  <2>2. lo + w - (k + 1) = lo + j /\ lo + w - k = (lo + j) + 1 /\ w - k = j + 1 /\ j \in 0 .. 31
    BY <2>1
  <2>3. from[(lo + j) + 1] = h[j + 1]  BY <1>10, <2>2
  <2>4. from[lo + j] = bits[lo + j] + 2 * from[(lo + j) + 1]  BY <1>4, <1>8
  <2>5. h[j] = (h[j] % 2) + 2 * h[j + 1]  BY <2>2, HalfIs
  <2>6. from[lo + j] = h[j]  BY <2>3, <2>4, <2>5
  <2> QED BY <2>1, <2>2, <2>6
<1>11. w \in S
  <2> HIDE DEF S
  <2>1. w \in Nat  OBVIOUS
  <2> QED BY <1>9, <1>10, <2>1, SetInduction
<1>12. from[lo] = v
  <2> DEFINE numbers == lo \in Nat /\ w \in Nat
  <2>1. numbers  OBVIOUS
  <2>2. lo + w - w = lo /\ w - w = 0 /\ w \in Nat
    <3>1. ASSUME NEW a \in Nat, NEW c \in Nat PROVE a + c - c = a /\ c - c = 0  OBVIOUS
    <3> QED BY <2>1, <3>1, Zenon
  <2>3. from[lo] = h[0]
    <3>1. w \in Nat /\ w <= w  BY <2>1
    <3>2. from[lo + w - w] = h[w - w]  BY <1>11, <3>1, Zenon DEF S
    <3> QED BY <2>2, <3>2, Zenon
  <2> QED BY <2>3 DEF Halves
<1>13. Min(at) = lo
  <2>1. at \subseteq Nat /\ lo \in at /\ \A x \in at : lo <= x  BY <1>2
  <2>2. Min(at) \in at /\ \A x \in at : Min(at) <= x  BY <2>1, MinIn
  <2>3. PICK x : x = Min(at)  OBVIOUS
  <2>4. x \in Nat /\ x <= lo /\ lo <= x  BY <2>1, <2>2, <2>3
  <2> QED BY <2>3, <2>4
<1> QED BY <1>1, <1>12, <1>13

-----------------------------------------------------------------------------
(* An operand read back from the bytes.                                      *)

\* A bit of an instruction as it is read from its bytes.
LEMMA BitRead ==
    ASSUME NEW i \in UWASM_INST, NEW b \in 0 .. 8 * SizeOf(i) - 1
    PROVE  BitsOf(BinaryOf(i))[b] =
               StorageBit(Set_am[TY_AM[i.op]][b], Operands(UwinstRow[i.op], i))
<1>1. PICK z \in {4, 8} : z = SizeOf(i)  BY Sizes
<1>2. b \in 0 .. 63 /\ b \in Nat /\ b < 8 * z  BY <1>1
<1>3. PICK j \in 0 .. 7 : j = b % 8  BY <1>2
<1>4. PICK q \in Nat : q = b \div 8  BY <1>2
<1>5. b = 8 * q + j  BY <1>2, <1>3, <1>4
<1>6. PICK k \in 1 .. z : k = q + 1  BY <1>2, <1>5
<1>7. 8 * (k - 1) + j = b  BY <1>5, <1>6
<1> DEFINE c == BinaryOf(i)
<1>8. Len(c) = z
  <2>1. DOMAIN c = 1 .. z /\ c = [n \in 1 .. z |-> c[n]]  BY <1>1, BinaryIs
  <2> HIDE DEF c
  <2> QED BY <2>1
<1>9. BitsOf(c)[b] = (c[k] \div 2^j) % 2
  <2> HIDE DEF c
  <2>1. BitsOf(c)[b] = IF b < 8 * Len(c) THEN (c[b \div 8 + 1] \div 2 ^ (b % 8)) % 2 ELSE 0
    BY <1>2, Zenon DEF BitsOf
  <2>2. b < 8 * Len(c)  BY <1>2, <1>8
  <2> QED BY <1>3, <1>4, <1>6, <2>1, <2>2, Zenon
<1>10. HasBits(c[k], ByteBits(i, k))
  <2> HIDE DEF c
  <2>1. k \in 1 .. SizeOf(i)  BY <1>1
  <2> QED BY <2>1, BytesOfInst DEF c
<1>11. ByteBits(i, k)[j] = StorageBit(Set_am[TY_AM[i.op]][b], Operands(UwinstRow[i.op], i))
  BY <1>7, Zenon DEF ByteBits
<1> HIDE DEF c
<1>12. (c[k] \div 2^j) % 2 = ByteBits(i, k)[j]  BY <1>10, Zenon DEF HasBits
<1> QED BY <1>9, <1>11, <1>12, Zenon DEF c

SameBits(x, v, w) ==
    /\ x \in Nat /\ v \in Nat /\ v < 2^31 /\ w \in 1 .. 32
    /\ w <= 30 => v \div 2^w = 0
    /\ \A j \in 0 .. 30 : j < w => (x \div 2^j) % 2 = (v \div 2^j) % 2

\* The layout's field lies where the operand was written.
FieldOver(i, lay, f, of, lo, w) ==
    /\ i \in UWASM_INST /\ lo \in Nat /\ w \in 1 .. 32 /\ lo + w <= 8 * SizeOf(i)
    /\ FieldBits[lay][f] = lo .. lo + w - 1
    /\ \A b \in lo .. lo + w - 1 : Set_am[TY_AM[i.op]][b] = [of |-> of, bit |-> b - lo]

\* Such a field gives the operand.
LEMMA FieldGives ==
    ASSUME NEW i, NEW lay, NEW f, NEW of, NEW lo, NEW w, FieldOver(i, lay, f, of, lo, w),
           NEW v, SameBits(Operands(UwinstRow[i.op], i)[of], v, w)
    PROVE  GetField(BitsOf(BinaryOf(i)), lay, f) = v
<1> DEFINE bits == BitsOf(BinaryOf(i))
           opds == Operands(UwinstRow[i.op], i)
           x    == opds[of]
<1>1. /\ i \in UWASM_INST /\ lo \in Nat /\ w \in 1 .. 32 /\ lo + w <= 8 * SizeOf(i)
      /\ FieldBits[lay][f] = lo .. lo + w - 1
      /\ x \in Nat /\ v \in Nat /\ v < 2^31 /\ (w <= 30 => v \div 2^w = 0)
  BY DEF FieldOver, SameBits
<1>2. SizeOf(i) \in {4, 8}  BY Sizes
<1> HIDE DEF bits, x, opds
<1>3. PICK h : /\ Halves(h, v) /\ \A j \in 0 .. 30 : h[j] = v \div 2^j
               /\ h[31] = 0 /\ h[32] = 0
  BY <1>1, HalvesExist
<1>4. h[w] = 0
  <2>1. CASE w <= 30
    <3>1. w \in 0 .. 30  BY <1>1, <2>1
    <3> QED BY <1>1, <1>3, <2>1, <3>1, Zenon
  <2>2. CASE ~(w <= 30)
    <3>1. w = 31 \/ w = 32  BY <1>1, <2>2
    <3> QED BY <1>3, <3>1
  <2> QED BY <2>1, <2>2
<1>5. ASSUME NEW j \in 0 .. w - 1 PROVE bits[lo + j] = h[j] % 2
  <2>0. \A a \in Nat, c \in 1 .. 32 : \A y \in 0 .. c - 1 :
           a + y \in a .. a + c - 1 /\ (a + y) - a = y
    OBVIOUS
  <2>1. PICK b \in lo .. lo + w - 1 : b = lo + j /\ b - lo = j
    <3>1. lo + j \in lo .. lo + w - 1 /\ (lo + j) - lo = j  BY <1>1, <2>0, Zenon
    <3> QED BY <3>1, Zenon
  <2>2. b \in 0 .. 8 * SizeOf(i) - 1  BY <1>1, <1>2
  <2>3. bits[b] = StorageBit(Set_am[TY_AM[i.op]][b], opds)  BY <1>1, <2>2, BitRead DEF bits, opds
  <2>4. PICK from : from = [of |-> of, bit |-> j]  OBVIOUS
  <2>5. Set_am[TY_AM[i.op]][b] = from  BY <2>1, <2>4, Zenon DEF FieldOver
  <2>6. bits[b] = IF j \in 0 .. 30 THEN (x \div 2 ^ j) % 2 ELSE 0
    <3>1. from.bit = j /\ from.of = of  BY <2>4
    <3> QED BY <2>3, <2>5, <3>1, Zenon DEF StorageBit, x
  <2>7. CASE j \in 0 .. 30
    <3>1. j < w  BY <1>1
    <3>2. (x \div 2^j) % 2 = (v \div 2^j) % 2  BY <2>7, <3>1, Zenon DEF SameBits, x, opds
    <3>3. h[j] = v \div 2^j  BY <1>3, <2>7
    <3> QED BY <2>1, <2>6, <2>7, <3>2, <3>3, Zenon
  <2>8. CASE j \notin 0 .. 30
    <3>1. j = 31  BY <1>1, <2>8
    <3>2. 0 % 2 = 0  OBVIOUS
    <3> QED BY <1>3, <2>1, <2>6, <2>8, <3>1, <3>2
  <2> QED BY <2>7, <2>8
<1>6. lo + w <= 64
  <2>1. \A a \in Nat, c \in 1 .. 32, z \in {4, 8} : a + c <= 8 * z => a + c <= 64
    OBVIOUS
  <2>2. lo + w <= 8 * SizeOf(i)  BY Zenon DEF FieldOver
  <2> QED BY <1>1, <1>2, <2>1, <2>2, Zenon
<1>7. GetField(bits, lay, f) = v
  <2>1. BitsIn(bits, lay, f, lo, w, h)  BY <1>1, <1>4, <1>5, <1>6, Zenon DEF BitsIn
  <2> QED BY <1>3, <2>1, FieldIs
<1> QED BY <1>7 DEF bits

\* A number is made of its own bits.
LEMMA OwnBits ==
    ASSUME NEW v \in Nat, NEW w \in {1, 7, 8, 10, 12, 20, 32}, v < 2^31,
           /\ w = 1 => v < 2
           /\ w = 7 => v < 128
           /\ w = 8 => v < 256
           /\ w = 10 => v < 1024
           /\ w = 12 => v < 2^12
           /\ w = 20 => v < 2^20
    PROVE  SameBits(v, v, w)
<1>1. CASE w = 1
  <2>1. w \in 1 .. 32 /\ v \div 2^1 = 0  BY <1>1
  <2> QED BY <1>1, <2>1, Zenon DEF SameBits
<1>2. CASE w = 7
  <2>1. w \in 1 .. 32 /\ v \div 2^7 = 0  BY <1>2
  <2> QED BY <1>2, <2>1, Zenon DEF SameBits
<1>3. CASE w = 8
  <2>1. w \in 1 .. 32 /\ v \div 2^8 = 0  BY <1>3
  <2> QED BY <1>3, <2>1, Zenon DEF SameBits
<1>4. CASE w = 10
  <2>1. w \in 1 .. 32 /\ v \div 2^10 = 0  BY <1>4
  <2> QED BY <1>4, <2>1, Zenon DEF SameBits
<1>5. CASE w = 12
  <2>1. w \in 1 .. 32 /\ v \div 2^12 = 0  BY <1>5
  <2> QED BY <1>5, <2>1, Zenon DEF SameBits
<1>6. CASE w = 20
  <2>1. w \in 1 .. 32 /\ v \div 2^20 = 0  BY <1>6
  <2> QED BY <1>6, <2>1, Zenon DEF SameBits
<1>7. CASE w = 32
  <2>1. w \in 1 .. 32 /\ ~(w <= 30)  BY <1>7
  <2> QED BY <2>1, Zenon DEF SameBits
<1> QED BY <1>1, <1>2, <1>3, <1>4, <1>5, <1>6, <1>7

\* The low seven bits of an opcode.
LEMMA LowBits ==
    ASSUME NEW x \in 0 .. 255
    PROVE  SameBits(x, x % 128, 7)
<1>1. PICK y \in 0 .. 127 : y = x % 128  OBVIOUS
<1>2. PICK q \in {0, 1} : x = y + 128 * q  BY <1>1
<1>3. (x \div 2^0) % 2 = (y \div 2^0) % 2
  <2>1. x \div 2^0 = (y \div 2^0) + 128 * q  BY <1>2
  <2>2. PICK z \in Nat : z = y \div 2^0  OBVIOUS
  <2>3. (z + 128 * q) % 2 = z % 2  BY <1>2
  <2> QED BY <2>1, <2>2, <2>3
<1>4. (x \div 2^1) % 2 = (y \div 2^1) % 2
  <2>1. x \div 2^1 = (y \div 2^1) + 64 * q  BY <1>2
  <2>2. PICK z \in Nat : z = y \div 2^1  OBVIOUS
  <2>3. (z + 64 * q) % 2 = z % 2  BY <1>2
  <2> QED BY <2>1, <2>2, <2>3
<1>5. (x \div 2^2) % 2 = (y \div 2^2) % 2
  <2>1. x \div 2^2 = (y \div 2^2) + 32 * q  BY <1>2
  <2>2. PICK z \in Nat : z = y \div 2^2  OBVIOUS
  <2>3. (z + 32 * q) % 2 = z % 2  BY <1>2
  <2> QED BY <2>1, <2>2, <2>3
<1>6. (x \div 2^3) % 2 = (y \div 2^3) % 2
  <2>1. x \div 2^3 = (y \div 2^3) + 16 * q  BY <1>2
  <2>2. PICK z \in Nat : z = y \div 2^3  OBVIOUS
  <2>3. (z + 16 * q) % 2 = z % 2  BY <1>2
  <2> QED BY <2>1, <2>2, <2>3
<1>7. (x \div 2^4) % 2 = (y \div 2^4) % 2
  <2>1. x \div 2^4 = (y \div 2^4) + 8 * q  BY <1>2
  <2>2. PICK z \in Nat : z = y \div 2^4  OBVIOUS
  <2>3. (z + 8 * q) % 2 = z % 2  BY <1>2
  <2> QED BY <2>1, <2>2, <2>3
<1>8. (x \div 2^5) % 2 = (y \div 2^5) % 2
  <2>1. x \div 2^5 = (y \div 2^5) + 4 * q  BY <1>2
  <2>2. PICK z \in Nat : z = y \div 2^5  OBVIOUS
  <2>3. (z + 4 * q) % 2 = z % 2  BY <1>2
  <2> QED BY <2>1, <2>2, <2>3
<1>9. (x \div 2^6) % 2 = (y \div 2^6) % 2
  <2>1. x \div 2^6 = (y \div 2^6) + 2 * q  BY <1>2
  <2>2. PICK z \in Nat : z = y \div 2^6  OBVIOUS
  <2>3. (z + 2 * q) % 2 = z % 2  BY <1>2
  <2> QED BY <2>1, <2>2, <2>3
<1>10. \A j \in 0 .. 30 : j < 7 => (x \div 2^j) % 2 = (y \div 2^j) % 2
  <2>1. \A j \in 0 .. 30 : j < 7 => j \in {0, 1, 2, 3, 4, 5, 6}  OBVIOUS
  <2>2. \A j \in {0, 1, 2, 3, 4, 5, 6} : (x \div 2^j) % 2 = (y \div 2^j) % 2
    BY <1>3, <1>4, <1>5, <1>6, <1>7, <1>8, <1>9, Zenon
  <2> QED BY <2>1, <2>2, Zenon
<1>11. /\ x \in Nat /\ y \in Nat /\ y < 2^31 /\ 7 \in 1 .. 32
       /\ y \div 2^7 = 0
  OBVIOUS
<1> QED BY <1>1, <1>10, <1>11, Zenon DEF SameBits

-----------------------------------------------------------------------------
(* The rows that the two searches of the table find.                         *)

\* Rows whose opcode is that of a row before them.
Shadowed == {"UJGZ", "UJGEZ"}

\* Row by row: what stands before a row of the control instructions has a smaller opcode,
\* except for three.
LEMMA ControlOrder ==
    ASSUME NEW m \in 1 .. 26, NEW j \in 1 .. 26, m < j,
           ControlRows[m].uwasm_op = ControlRows[j].uwasm_op
    PROVE  j \in {15, 25, 26}
<1>1. PICK codes : codes = <<0, 1, 2, 6, 7, 8, 9, 10, 11, 12, 13, 14, 15, 16, 16, 17, 18, 19, 27,
                             32, 33, 34, 35, 36, 36, 36>>
  OBVIOUS
<1>2. \A k \in 1 .. 26 : ControlRows[k].uwasm_op = codes[k]
  BY <1>1, SMTT(60) DEF ControlRows, Row
<1>3. codes[m] = codes[j]  BY <1>2
<1> QED BY <1>1, <1>3, SMTT(60)

\* What is known of the rows of the control instructions one by one.
LEMMA ControlCodes ==
    ASSUME NEW k \in 1 .. 26
    PROVE  /\ ControlRows[k].uwasm_op \in 0 .. 36
           /\ ControlRows[k].name \notin {"UMOV", "none"}
           /\ ControlRows[k].name \in Shadowed => k \in {25, 26} /\ ControlRows[k].wasm_op = 0
           /\ k \in {25, 26} => ControlRows[k].name \in Shadowed
           /\ k = 15 => ControlRows[k].ty_am \notin SmallModes
BY SMTT(60) DEF ControlRows, Row, Shadowed, SmallModes

\* A piece put behind leaves what is before it.
LEMMA FirstKept ==
    ASSUME NEW S, NEW s \in Seq(S), NEW t \in Seq(S), \A j \in 1 .. 26 : j \in DOMAIN s /\ s[j] = ControlRows[j]
    PROVE  /\ s \o t \in Seq(S)
           /\ \A j \in 1 .. 26 : j \in DOMAIN (s \o t) /\ (s \o t)[j] = ControlRows[j]
<1>1. /\ s \o t \in Seq(S) /\ Len(s \o t) = Len(s) + Len(t)
      /\ \A i \in 1 .. Len(s) + Len(t) :
            (s \o t)[i] = IF i <= Len(s) THEN s[i] ELSE t[i - Len(s)]
  BY ConcatProperties
<1>2. /\ Len(s) \in Nat /\ Len(t) \in Nat /\ DOMAIN s = 1 .. Len(s)
      /\ DOMAIN (s \o t) = 1 .. Len(s) + Len(t)
  BY <1>1, LenProperties
<1>3. ASSUME NEW j \in 1 .. 26 PROVE j \in DOMAIN (s \o t) /\ (s \o t)[j] = ControlRows[j]
  <2>0. j \in DOMAIN s /\ s[j] = ControlRows[j]  BY Zenon
  <2>1. j \in Nat /\ 1 <= j /\ j <= Len(s) /\ s[j] = ControlRows[j]  BY <1>2, <2>0
  <2>2. j \in 1 .. Len(s) + Len(t)  BY <1>2, <2>1
  <2> QED BY <1>1, <1>2, <2>1, <2>2
<1> QED BY <1>1, <1>3

\* The table begins with the rows of the control instructions.
LEMMA TableBegins ==
    \A j \in 1 .. 26 : j \in DOMAIN UWASM_META_INFO /\ UWASM_META_INFO[j] = ControlRows[j]
<1> DEFINE s1 == Same(40, 62, "AM64_R_R_OFS")
           s2 == Same(63, 64, "AM32_R")
           s3 == Same(65, 69, "AM64_R_OFS")
           s4 == Same(70, 72, "AM64_R_R_R")
           s5 == Same(73, 105, "AM64_R_OFS")
           s6 == Same(106, 191, "AM64_R_R_R")
           last == <<MovRow>>
<1>1. /\ s1 \in Seq(UwRow) /\ s2 \in Seq(UwRow) /\ s3 \in Seq(UwRow)
      /\ s4 \in Seq(UwRow) /\ s5 \in Seq(UwRow) /\ s6 \in Seq(UwRow)
  <2> DEFINE Bounds(lo, hi) == lo \in Nat /\ hi \in Nat /\ 40 <= lo /\ lo <= hi /\ hi <= 191
  <2>1. \A lo, hi : \A am \in RunModes : Bounds(lo, hi) => Same(lo, hi, am) \in Seq(UwRow)
    BY SameRows
  <2>2. /\ Bounds(40, 62) /\ Bounds(63, 64) /\ Bounds(65, 69) /\ Bounds(70, 72)
        /\ Bounds(73, 105) /\ Bounds(106, 191)
    OBVIOUS
  <2> HIDE DEF Bounds
  <2> QED BY <2>1, <2>2, Zenon DEF RunModes
<1>2. last \in Seq(UwRow)
  <2>1. MovRow \in UwRow  BY DEF UwRow
  <2> QED BY <2>1
<1>3. ControlRows \in Seq(UwRow) /\ DOMAIN ControlRows = 1 .. 26
  <2>1. ControlRows = [i \in 1 .. 26 |-> ControlRows[i]] /\ DOMAIN ControlRows = 1 .. 26
    BY DEF ControlRows
  <2>2. \A i \in 1 .. 26 : ControlRows[i] \in UwRow  BY <2>1 DEF ToSet, UwRow
  <2>3. ControlRows \in [1 .. 26 -> UwRow]  BY <2>1, <2>2
  <2> QED BY <2>1, <2>3, SeqDef
<1>4. UWASM_META_INFO = ControlRows \o s1 \o s2 \o s3 \o s4 \o s5 \o s6 \o last
  BY DEF UWASM_META_INFO, MovRow
<1> HIDE DEF s1, s2, s3, s4, s5, s6, last
<1> DEFINE Begins(s) == s \in Seq(UwRow) /\ \A j \in 1 .. 26 : j \in DOMAIN s /\ s[j] = ControlRows[j]
<1>5. Begins(ControlRows)  BY <1>3
<1>6. \A s, t : Begins(s) /\ t \in Seq(UwRow) => Begins(s \o t)
  <2> SUFFICES ASSUME NEW s, NEW t, Begins(s), t \in Seq(UwRow) PROVE Begins(s \o t)
    OBVIOUS
  <2> QED BY FirstKept
<1>7. Begins(UWASM_META_INFO)
  <2> HIDE DEF Begins
  <2>1. Begins(ControlRows \o s1 \o s2 \o s3)  BY <1>1, <1>5, <1>6, Zenon
  <2>2. Begins(ControlRows \o s1 \o s2 \o s3 \o s4 \o s5 \o s6)  BY <1>1, <1>6, <2>1, Zenon
  <2> QED BY <1>2, <1>4, <1>6, <2>2, Zenon
<1> QED BY <1>7

\* The search by the opcode returns a row of that opcode, and none of those behind it
\* among the control instructions.
LEMMA FoundRow ==
    ASSUME NEW c, \E row \in ToSet(UWASM_META_INFO) : row.uwasm_op = c
    PROVE  /\ UOPCODE_inst(c) \in ToSet(UWASM_META_INFO) /\ UOPCODE_inst(c).uwasm_op = c
           /\ \A j \in 1 .. 26 : ControlRows[j].uwasm_op = c =>
                  \E m \in 1 .. j : UOPCODE_inst(c) = ControlRows[m]
<1> DEFINE T == UWASM_META_INFO
           K == {k \in DOMAIN T : T[k]["uwasm_op"] = c}
<1>1. \E row \in ToSet(T) : row["uwasm_op"] = c  OBVIOUS
<1>2. /\ c \in DOMAIN FirstRows("uwasm_op") /\ FirstRows("uwasm_op")[c] \in ToSet(T)
      /\ FirstRows("uwasm_op")[c]["uwasm_op"] = c
  BY <1>1, FirstRowOf
<1>3. UOPCODE_inst(c) = FirstRows("uwasm_op")[c]  BY <1>2, Zenon DEF UOPCODE_inst, ByUwasm
<1>4. FirstRows("uwasm_op")[c] = T[Min(K)]
  <2>1. c \in {row["uwasm_op"] : row \in ToSet(T)}  BY <1>1
  <2> QED BY <2>1, Zenon DEF FirstRows
<1>5. T \in Seq(UwRow) /\ DOMAIN T = 1 .. Len(T) /\ Len(T) \in Nat  BY TableRows, LenProperties
<1> HIDE DEF T
<1>6. K \subseteq Nat /\ K # {}
  <2>1. \E k \in DOMAIN T : T[k]["uwasm_op"] = c  BY <1>1 DEF ToSet
  <2> QED BY <1>5, <2>1
<1>7. Min(K) \in K /\ \A y \in K : Min(K) <= y
  <2> HIDE DEF K
  <2> QED BY <1>6, MinIn
<1>8. ASSUME NEW j \in 1 .. 26, ControlRows[j].uwasm_op = c
      PROVE  \E m \in 1 .. j : UOPCODE_inst(c) = ControlRows[m]
  <2>1. j \in K  BY <1>8, TableBegins DEF T
  <2>2. Min(K) \in Nat /\ Min(K) <= j /\ 1 <= Min(K)
    <3>1. Min(K) <= j /\ Min(K) \in DOMAIN T  BY <1>7, <2>1, Zenon
    <3> QED BY <1>5, <3>1
  <2>3. PICK m \in 1 .. j : m = Min(K)
    <3>1. Min(K) \in 1 .. j  BY <2>2
    <3> QED BY <3>1, Zenon
  <2>4. m \in 1 .. 26  BY <2>3
  <2>5. T[m] = ControlRows[m]  BY <2>4, TableBegins DEF T
  <2> QED BY <1>3, <1>4, <2>3, <2>5, Zenon
<1> QED BY <1>2, <1>3, <1>8 DEF T

\* A small instruction's truncated opcode finds its row, or for a mov another one.
LEMMA ListedRow ==
    ASSUME NEW n \in DOMAIN TY_AM, TY_AM[n] \in SmallModes, n \notin Shadowed,
           NEW c, c = UwinstRow[n].uwasm_op
    PROVE  UOPCODE_inst(c % 128) # NoRow /\ UOPCODE_inst(c % 128).name = ListedAs(n)
<1>1. n \in DOMAIN UwinstRow /\ TY_AM[n] = UwinstRow[n].ty_am  BY DEF TY_AM
<1>2. \E r \in ToSet(UWASM_META_INFO) : r["name"] = n
  BY <1>1, Zenon DEF UwinstRow, FirstRows
<1>3. PICK row : row = UwinstRow[n]  OBVIOUS
<1>4. row \in ToSet(UWASM_META_INFO) /\ row["name"] = n
  BY <1>2, <1>3, FirstRowOf, Zenon DEF UwinstRow
<1>5. row.name = n /\ row.ty_am \in SmallModes /\ row.uwasm_op = c  BY <1>1, <1>3, <1>4
<1>6. NoRow.ty_am = "none" /\ NoRow.name = "none"  BY DEF NoRow, Row
<1>7. NumericNames[24] = "MemorySize" /\ NumericNames[25] = "MemoryGrow"
  BY SMTT(60) DEF NumericNames
<1>8. RunRow(63, "AM32_R") = Row("MemorySize", 63, 63, "AM32_R")
      /\ RunRow(64, "AM32_R") = Row("MemoryGrow", 64, 64, "AM32_R")
  BY <1>7 DEF RunRow
<1>9. CASE row \in ToSet(ControlRows)
  <2>1. DOMAIN ControlRows = 1 .. 26  BY DEF ControlRows
  <2>2. PICK j \in 1 .. 26 : row = ControlRows[j]  BY <1>9, <2>1 DEF ToSet
  <2>3. c \in 0 .. 36 /\ n \notin {"UMOV", "none"} /\ j \notin {15, 25, 26}
    BY <1>5, <2>2, ControlCodes
  <2>4. c % 128 = c  BY <2>3
  <2>5. PICK m \in 1 .. j : UOPCODE_inst(c) = ControlRows[m]
    BY <1>4, <1>5, <2>2, FoundRow
  <2>6. UOPCODE_inst(c).uwasm_op = c  BY <1>4, <1>5, FoundRow
  <2>7. m = j
    <3> SUFFICES ASSUME m # j PROVE FALSE
      OBVIOUS
    <3>1. m \in 1 .. 26 /\ m < j  OBVIOUS
    <3>2. ControlRows[m].uwasm_op = ControlRows[j].uwasm_op  BY <1>5, <2>2, <2>5, <2>6
    <3> QED BY <2>3, <3>1, <3>2, ControlOrder
  <2>8. UOPCODE_inst(c) = row  BY <2>2, <2>5, <2>7
  <2> QED BY <1>5, <1>6, <2>3, <2>4, <2>8 DEF ListedAs
<1>10. ASSUME NEW g \in {63, 64}
       PROVE  UOPCODE_inst(g) = RunRow(g, "AM32_R")
  <2>1. InRun(RunRow(g, "AM32_R"), 63, 64, "AM32_R")  BY DEF InRun
  <2>2. RunRow(g, "AM32_R") \in ToSet(UWASM_META_INFO)  BY <2>1, TableRows, Zenon
  <2>3. RunRow(g, "AM32_R").uwasm_op = g  BY DEF RunRow, Row
  <2>4. PICK found : found = UOPCODE_inst(g)  OBVIOUS
  <2>5. found \in ToSet(UWASM_META_INFO) /\ found.uwasm_op = g  BY <2>2, <2>3, <2>4, FoundRow
  <2>6. found \notin ToSet(ControlRows)
    <3>1. DOMAIN ControlRows = 1 .. 26  BY DEF ControlRows
    <3>2. \A k \in 1 .. 26 : ControlRows[k].uwasm_op \in 0 .. 36  BY ControlCodes
    <3> SUFFICES ASSUME found \in ToSet(ControlRows) PROVE FALSE
      OBVIOUS
    <3>3. PICK k \in 1 .. 26 : found = ControlRows[k]  BY <3>1 DEF ToSet
    <3>4. g \in 0 .. 36  BY <2>5, <3>2, <3>3
    <3> QED BY <3>4
  <2>7. \A lo, hi \in Nat : \A am : InRun(found, lo, hi, am) =>
            lo <= g /\ g <= hi /\ found = RunRow(g, am)
    BY <2>5 DEF InRun, RunRow, Row
  <2>8. found # MovRow  BY <2>5 DEF MovRow, Row
  <2>9. /\ ~InRun(found, 40, 62, "AM64_R_R_OFS") /\ ~InRun(found, 65, 69, "AM64_R_OFS")
        /\ ~InRun(found, 70, 72, "AM64_R_R_R") /\ ~InRun(found, 73, 105, "AM64_R_OFS")
        /\ ~InRun(found, 106, 191, "AM64_R_R_R")
    BY <2>7
  <2>10. InRun(found, 63, 64, "AM32_R")  BY <2>5, <2>6, <2>8, <2>9, TableRows, Zenon
  <2> QED BY <2>4, <2>7, <2>10
<1>11. CASE InRun(row, 63, 64, "AM32_R")
  <2>1. PICK g \in {63, 64} : row = RunRow(g, "AM32_R")  BY <1>11 DEF InRun
  <2>2. c = g  BY <1>5, <2>1 DEF RunRow, Row
  <2>3. c % 128 = c  BY <2>2
  <2>4. UOPCODE_inst(c) = row  BY <1>10, <2>1, <2>2
  <2>5. n # "UMOV" /\ row.ty_am = "AM32_R"  BY <1>5, <1>8, <2>1 DEF Row
  <2> QED BY <1>5, <1>6, <2>3, <2>4, <2>5 DEF ListedAs
<1>12. CASE row = MovRow
  <2>1. n = "UMOV" /\ c = 192  BY <1>5, <1>12 DEF MovRow, Row
  <2>2. c % 128 = 64  BY <2>1
  <2>3. UOPCODE_inst(64) = Row("MemoryGrow", 64, 64, "AM32_R")  BY <1>8, <1>10
  <2> QED BY <1>6, <2>1, <2>2, <2>3 DEF ListedAs, Row
<1>13. /\ ~InRun(row, 40, 62, "AM64_R_R_OFS") /\ ~InRun(row, 65, 69, "AM64_R_OFS")
       /\ ~InRun(row, 70, 72, "AM64_R_R_R") /\ ~InRun(row, 73, 105, "AM64_R_OFS")
       /\ ~InRun(row, 106, 191, "AM64_R_R_R")
  BY <1>5 DEF InRun, RunRow, Row, SmallModes
<1> QED BY <1>4, <1>9, <1>11, <1>12, <1>13, TableRows, Zenon

\* What the converter looks up by the opcode of wasm is none of the two rows that
\* share an opcode with one before them.
LEMMA CopiedFound ==
    ASSUME NEW op \in DOMAIN UOPCODE_from_wasm
    PROVE  UOPCODE_from_wasm[op] \notin Shadowed
<1> DEFINE c   == Encode[op]
           row == UOPCODE_of_wasm(c)
<1>1. op \in WinstNames /\ row # NoRow /\ UOPCODE_from_wasm[op] = row["name"]
  BY Zenon DEF UOPCODE_from_wasm
<1>2. /\ c \in DOMAIN ByWasm /\ row = ByWasm[c]  BY <1>1, Zenon DEF UOPCODE_of_wasm
<1>3. \E r \in ToSet(UWASM_META_INFO) : r["wasm_op"] = c
  BY <1>2, Zenon DEF ByWasm, FirstRows
<1>4. /\ row \in ToSet(UWASM_META_INFO) /\ row["wasm_op"] = c
      /\ UWASM_META_INFO[1]["wasm_op"] = c => row = UWASM_META_INFO[1]
  <2>1. row = FirstRows("wasm_op")[c]  BY <1>2 DEF ByWasm
  <2> HIDE DEF row, c
  <2> QED BY <1>3, <2>1, FirstRowOf
<1> HIDE DEF row, c
<1>5. CASE row \in ToSet(ControlRows)
  <2>1. DOMAIN ControlRows = 1 .. 26  BY DEF ControlRows
  <2>2. PICK j \in 1 .. 26 : row = ControlRows[j]  BY <1>5, <2>1 DEF ToSet
  <2> SUFFICES ASSUME row["name"] \in Shadowed PROVE FALSE
    BY <1>1
  <2>3. c = 0  BY <1>4, <2>2, ControlCodes
  <2>4. row = ControlRows[1]  BY <1>4, <2>3, ControlOpcodes, TableRows
  <2> QED BY <2>4, ControlOpcodes DEF Shadowed
<1>6. CASE row = MovRow  BY <1>1, <1>6 DEF MovRow, Row, Shadowed
<1>7. \A k \in 1 .. 152 : NumericNames[k] \notin Shadowed  BY SMTT(60) DEF NumericNames, Shadowed
<1>8. \A lo, hi \in 40 .. 191 : \A am : InRun(row, lo, hi, am) => row["name"] \notin Shadowed
  <2> SUFFICES ASSUME NEW lo \in 40 .. 191, NEW hi \in 40 .. 191, NEW am, InRun(row, lo, hi, am)
               PROVE  row["name"] \notin Shadowed
    OBVIOUS
  <2>1. PICK d \in Nat : lo <= d /\ d <= hi /\ row = RunRow(d, am)  BY DEF InRun
  <2>2. row["name"] = NumericNames[d - 39] /\ d - 39 \in 1 .. 152  BY <2>1 DEF RunRow, Row
  <2> QED BY <1>7, <2>2
<1>9. /\ 40 \in 40 .. 191 /\ 62 \in 40 .. 191 /\ 63 \in 40 .. 191 /\ 64 \in 40 .. 191
      /\ 65 \in 40 .. 191 /\ 69 \in 40 .. 191 /\ 70 \in 40 .. 191 /\ 72 \in 40 .. 191
      /\ 73 \in 40 .. 191 /\ 105 \in 40 .. 191 /\ 106 \in 40 .. 191 /\ 191 \in 40 .. 191
  OBVIOUS
<1>10. \/ row \in ToSet(ControlRows) \/ row = MovRow
       \/ \E lo, hi \in 40 .. 191 : \E am : InRun(row, lo, hi, am)
  BY <1>4, <1>9, TableRows, Zenon
<1> QED BY <1>1, <1>5, <1>6, <1>8, <1>10, Zenon

-----------------------------------------------------------------------------
(* An instruction read back, mode by mode.                                   *)

\* An instruction whose operands fit their fields, of a row that is found again.
Encodable(i) ==
    /\ i \in EncodedInst /\ i.op \notin Shadowed /\ i.ofs < 2^31
    /\ TY_AM[i.op] = "AM32_R_OFS" => i.ofs < 2^12
    /\ TY_AM[i.op] = "AM64_R_R_OFS" => i.ofs < 2^20

\* Its fields as the getters read them.
FieldsBack(i, bits) ==
    LET am   == TY_AM[i.op]
        code == UwinstRow[i.op].uwasm_op
    IN  /\ am # "AM32" => Rd(bits, am) = i.rd
        /\ am \in {"AM32_R_R", "AM64_R_R_R", "AM64_R_R_OFS"} => Rs(bits, am) = i.rs
        /\ am = "AM64_R_R_R" => Rt(bits, am) = i.rt
        /\ am \in {"AM32_R_OFS", "AM64_R_OFS", "AM64_R_R_OFS"} => Ofs(bits, am) = i.ofs
        /\ GetField(bits, am, "b32") = IF am \in SmallModes THEN 0 ELSE 1
        /\ am \in SmallModes => GetField(bits, am, "mn") = code % 128
        /\ am \notin SmallModes => GetField(bits, am, "mn2") = code

\* It is an instruction.
LEMMA EncodedIs ==
    ASSUME NEW i, Encodable(i)
    PROVE  /\ i \in UWASM_INST /\ i.op \in DOMAIN TY_AM /\ i.ofs \in Nat
           /\ i.rd \in 0 .. 1023 /\ i.rs \in 0 .. 1023 /\ i.rt \in 0 .. 1023
<1>1. Fits = 0 .. 1023
  <2>1. 2^10 - 1 = 1023  OBVIOUS
  <2> QED BY <2>1 DEF Fits, REG_SIZE
<1>2. i \in EncodedInst  BY DEF Encodable
<1>3. EncodedInst \subseteq UWASM_INST  BY DEF EncodedInst, UWASM_INST, Fits
<1>4. /\ i.op \in DOMAIN TY_AM /\ i.ofs \in Nat
      /\ i.rd \in Fits /\ i.rs \in Fits /\ i.rt \in Fits
  BY <1>2 DEF EncodedInst
<1> QED BY <1>1, <1>2, <1>3, <1>4

\* What its fields are to hold.
Values(i) ==
    LET o    == Operands(UwinstRow[i.op], i)
        code == UwinstRow[i.op].uwasm_op
    IN  /\ SameBits(o["zero"], 0, 1) /\ SameBits(o["one"], 1, 1)
        /\ SameBits(o["code"], code % 128, 7) /\ SameBits(o["code"], code, 8)
        /\ SameBits(o["rd"], i.rd, 10) /\ SameBits(o["rs"], i.rs, 10)
        /\ SameBits(o["rt"], i.rt, 10) /\ SameBits(o["ofs"], i.ofs, 32)
        /\ TY_AM[i.op] = "AM32_R_OFS" => SameBits(o["ofs"], i.ofs, 12)
        /\ TY_AM[i.op] = "AM64_R_R_OFS" => SameBits(o["ofs"], i.ofs, 20)

\* They fit.
LEMMA FieldValues ==
    ASSUME NEW i, Encodable(i)
    PROVE  Values(i)
<1>1. /\ i.op \in DOMAIN TY_AM /\ i.ofs \in Nat
      /\ i.rd \in 0 .. 1023 /\ i.rs \in 0 .. 1023 /\ i.rt \in 0 .. 1023
  BY EncodedIs
<1>2. PICK code \in 0 .. 255 : code = UwinstRow[i.op].uwasm_op  BY <1>1, RowOf
<1> DEFINE o == Operands(UwinstRow[i.op], i)
<1>3. /\ o["code"] = code /\ o["one"] = 1 /\ o["zero"] = 0
      /\ o["rd"] = i.rd /\ o["rs"] = i.rs /\ o["rt"] = i.rt /\ o["ofs"] = i.ofs
  BY <1>2 DEF Operands
<1> HIDE DEF o
<1>4. SameBits(0, 0, 1) /\ SameBits(1, 1, 1)
  <2>1. 0 < 2^31 /\ 1 < 2^31 /\ 0 < 2 /\ 1 < 2 /\ 1 # 7 /\ 1 # 8 /\ 1 # 10 /\ 1 # 12 /\ 1 # 20
        /\ 0 \in Nat /\ 1 \in Nat
    OBVIOUS
  <2> QED BY <2>1, OwnBits
<1>5. ASSUME NEW x \in 0 .. 1023 PROVE SameBits(x, x, 10)
  <2>1. x \in Nat /\ x < 2^31 /\ x < 1024  OBVIOUS
  <2> QED BY <2>1, OwnBits
<1>6. SameBits(code, code % 128, 7) /\ SameBits(code, code, 8)
  <2>1. code \in Nat /\ code < 2^31 /\ code < 256  OBVIOUS
  <2> QED BY <2>1, LowBits, OwnBits
<1>7. SameBits(i.ofs, i.ofs, 32)
  <2>1. i.ofs < 2^31  BY DEF Encodable
  <2> QED BY <1>1, <2>1, OwnBits
<1>8. TY_AM[i.op] = "AM32_R_OFS" => SameBits(i.ofs, i.ofs, 12)
  <2>1. i.ofs < 2^31 /\ (TY_AM[i.op] = "AM32_R_OFS" => i.ofs < 2^12)
    BY SMTT(40) DEF Encodable
  <2> QED BY <1>1, <2>1, OwnBits
<1>9. TY_AM[i.op] = "AM64_R_R_OFS" => SameBits(i.ofs, i.ofs, 20)
  <2>1. i.ofs < 2^31 /\ (TY_AM[i.op] = "AM64_R_R_OFS" => i.ofs < 2^20)
    BY SMTT(40) DEF Encodable
  <2> QED BY <1>1, <2>1, OwnBits
<1>10. SameBits(i.rd, i.rd, 10) /\ SameBits(i.rs, i.rs, 10) /\ SameBits(i.rt, i.rt, 10)
  BY <1>1, <1>5, ZenonT(40)
<1> QED BY <1>2, <1>3, <1>4, <1>6, <1>7, <1>8, <1>9, <1>10, ZenonT(40) DEF Values, o

\* The fields of an instruction of mode AM32.
LEMMA Back_32 ==
    ASSUME NEW i, Encodable(i), TY_AM[i.op] = "AM32"
    PROVE  FieldsBack(i, BitsOf(BinaryOf(i)))
<1>0. i \in UWASM_INST  BY EncodedIs
<1>1. SizeOf(i) = 4  BY Zenon DEF SizeOf, InstSize, SmallModes
<1>2. Values(i)  BY FieldValues
<1>3. PICK code : code = UwinstRow[i.op].uwasm_op  OBVIOUS
<1>4. GetField(BitsOf(BinaryOf(i)), "AM32", "b32") = 0
  <2>1. FieldBits["AM32"]["b32"] = 0 .. 0  BY Places_32, Zenon
  <2>2. \A b \in 0 .. 0 : Set_am[TY_AM[i.op]][b] = [of |-> "zero", bit |-> b - 0]
    <3>1. \A b \in 0 .. 0 : b = 0 /\ b - 0 = 0  OBVIOUS
    <3> QED BY <3>1, Stored_32, Zenon
  <2>3. 0 = 0 + 1 - 1 /\ 0 \in Nat /\ 1 \in 1 .. 32 /\ 0 + 1 <= 8 * SizeOf(i)  BY <1>1
  <2>4. FieldOver(i, "AM32", "b32", "zero", 0, 1)  BY <1>0, <2>1, <2>2, <2>3, Zenon DEF FieldOver
  <2>5. SameBits(Operands(UwinstRow[i.op], i)["zero"], 0, 1)  BY <1>2, <1>3, Zenon DEF Values
  <2> QED BY <2>4, <2>5, FieldGives, Zenon
<1>5. GetField(BitsOf(BinaryOf(i)), "AM32", "mn") = code % 128
  <2>1. FieldBits["AM32"]["mn"] = 1 .. 7  BY Places_32, Zenon
  <2>2. \A b \in 1 .. 7 : Set_am[TY_AM[i.op]][b] = [of |-> "code", bit |-> b - 1]
    BY Stored_32, Zenon
  <2>3. 7 = 1 + 7 - 1 /\ 1 \in Nat /\ 7 \in 1 .. 32 /\ 1 + 7 <= 8 * SizeOf(i)  BY <1>1
  <2>4. FieldOver(i, "AM32", "mn", "code", 1, 7)  BY <1>0, <2>1, <2>2, <2>3, Zenon DEF FieldOver
  <2>5. SameBits(Operands(UwinstRow[i.op], i)["code"], code % 128, 7)  BY <1>2, <1>3, Zenon DEF Values
  <2> QED BY <2>4, <2>5, FieldGives, Zenon
<1> QED BY <1>3, <1>4, <1>5, Zenon DEF FieldsBack, Rd, Rs, Rt, Ofs, Regs32, Regs64, SmallModes

\* The fields of an instruction of mode AM32_R.
LEMMA Back_32_R ==
    ASSUME NEW i, Encodable(i), TY_AM[i.op] = "AM32_R"
    PROVE  FieldsBack(i, BitsOf(BinaryOf(i)))
<1>0. i \in UWASM_INST  BY EncodedIs
<1>1. SizeOf(i) = 4  BY Zenon DEF SizeOf, InstSize, SmallModes
<1>2. Values(i)  BY FieldValues
<1>3. PICK code : code = UwinstRow[i.op].uwasm_op  OBVIOUS
<1>4. GetField(BitsOf(BinaryOf(i)), "AM32_R", "rd") = i.rd
  <2>1. FieldBits["AM32_R"]["rd"] = 8 .. 17  BY Places_32_R, Zenon
  <2>2. \A b \in 8 .. 17 : Set_am[TY_AM[i.op]][b] = [of |-> "rd", bit |-> b - 8]
    BY Stored_32_R, Zenon
  <2>3. 17 = 8 + 10 - 1 /\ 8 \in Nat /\ 10 \in 1 .. 32 /\ 8 + 10 <= 8 * SizeOf(i)  BY <1>1
  <2>4. FieldOver(i, "AM32_R", "rd", "rd", 8, 10)  BY <1>0, <2>1, <2>2, <2>3, Zenon DEF FieldOver
  <2>5. SameBits(Operands(UwinstRow[i.op], i)["rd"], i.rd, 10)  BY <1>2, <1>3, Zenon DEF Values
  <2> QED BY <2>4, <2>5, FieldGives, Zenon
<1>5. GetField(BitsOf(BinaryOf(i)), "AM32_R", "b32") = 0
  <2>1. FieldBits["AM32_R"]["b32"] = 0 .. 0  BY Places_32_R, Zenon
  <2>2. \A b \in 0 .. 0 : Set_am[TY_AM[i.op]][b] = [of |-> "zero", bit |-> b - 0]
    <3>1. \A b \in 0 .. 0 : b = 0 /\ b - 0 = 0  OBVIOUS
    <3> QED BY <3>1, Stored_32_R, Zenon
  <2>3. 0 = 0 + 1 - 1 /\ 0 \in Nat /\ 1 \in 1 .. 32 /\ 0 + 1 <= 8 * SizeOf(i)  BY <1>1
  <2>4. FieldOver(i, "AM32_R", "b32", "zero", 0, 1)  BY <1>0, <2>1, <2>2, <2>3, Zenon DEF FieldOver
  <2>5. SameBits(Operands(UwinstRow[i.op], i)["zero"], 0, 1)  BY <1>2, <1>3, Zenon DEF Values
  <2> QED BY <2>4, <2>5, FieldGives, Zenon
<1>6. GetField(BitsOf(BinaryOf(i)), "AM32_R", "mn") = code % 128
  <2>1. FieldBits["AM32_R"]["mn"] = 1 .. 7  BY Places_32_R, Zenon
  <2>2. \A b \in 1 .. 7 : Set_am[TY_AM[i.op]][b] = [of |-> "code", bit |-> b - 1]
    BY Stored_32_R, Zenon
  <2>3. 7 = 1 + 7 - 1 /\ 1 \in Nat /\ 7 \in 1 .. 32 /\ 1 + 7 <= 8 * SizeOf(i)  BY <1>1
  <2>4. FieldOver(i, "AM32_R", "mn", "code", 1, 7)  BY <1>0, <2>1, <2>2, <2>3, Zenon DEF FieldOver
  <2>5. SameBits(Operands(UwinstRow[i.op], i)["code"], code % 128, 7)  BY <1>2, <1>3, Zenon DEF Values
  <2> QED BY <2>4, <2>5, FieldGives, Zenon
<1> QED BY <1>3, <1>4, <1>5, <1>6, Zenon DEF FieldsBack, Rd, Rs, Rt, Ofs, Regs32, Regs64, SmallModes

\* The fields of an instruction of mode AM32_R_R.
LEMMA Back_32_R_R ==
    ASSUME NEW i, Encodable(i), TY_AM[i.op] = "AM32_R_R"
    PROVE  FieldsBack(i, BitsOf(BinaryOf(i)))
<1>0. i \in UWASM_INST  BY EncodedIs
<1>1. SizeOf(i) = 4  BY Zenon DEF SizeOf, InstSize, SmallModes
<1>2. Values(i)  BY FieldValues
<1>3. PICK code : code = UwinstRow[i.op].uwasm_op  OBVIOUS
<1>4. GetField(BitsOf(BinaryOf(i)), "AM32_R", "rd") = i.rd
  <2>1. FieldBits["AM32_R"]["rd"] = 8 .. 17  BY Places_32_R, Zenon
  <2>2. \A b \in 8 .. 17 : Set_am[TY_AM[i.op]][b] = [of |-> "rd", bit |-> b - 8]
    BY Stored_32_R_R, Zenon
  <2>3. 17 = 8 + 10 - 1 /\ 8 \in Nat /\ 10 \in 1 .. 32 /\ 8 + 10 <= 8 * SizeOf(i)  BY <1>1
  <2>4. FieldOver(i, "AM32_R", "rd", "rd", 8, 10)  BY <1>0, <2>1, <2>2, <2>3, Zenon DEF FieldOver
  <2>5. SameBits(Operands(UwinstRow[i.op], i)["rd"], i.rd, 10)  BY <1>2, <1>3, Zenon DEF Values
  <2> QED BY <2>4, <2>5, FieldGives, Zenon
<1>5. GetField(BitsOf(BinaryOf(i)), "AM32_R_R", "rs") = i.rs
  <2>1. FieldBits["AM32_R_R"]["rs"] = 18 .. 27  BY Places_32_R_R, Zenon
  <2>2. \A b \in 18 .. 27 : Set_am[TY_AM[i.op]][b] = [of |-> "rs", bit |-> b - 18]
    BY Stored_32_R_R, Zenon
  <2>3. 27 = 18 + 10 - 1 /\ 18 \in Nat /\ 10 \in 1 .. 32 /\ 18 + 10 <= 8 * SizeOf(i)  BY <1>1
  <2>4. FieldOver(i, "AM32_R_R", "rs", "rs", 18, 10)  BY <1>0, <2>1, <2>2, <2>3, Zenon DEF FieldOver
  <2>5. SameBits(Operands(UwinstRow[i.op], i)["rs"], i.rs, 10)  BY <1>2, <1>3, Zenon DEF Values
  <2> QED BY <2>4, <2>5, FieldGives, Zenon
<1>6. GetField(BitsOf(BinaryOf(i)), "AM32_R_R", "b32") = 0
  <2>1. FieldBits["AM32_R_R"]["b32"] = 0 .. 0  BY Places_32_R_R, Zenon
  <2>2. \A b \in 0 .. 0 : Set_am[TY_AM[i.op]][b] = [of |-> "zero", bit |-> b - 0]
    <3>1. \A b \in 0 .. 0 : b = 0 /\ b - 0 = 0  OBVIOUS
    <3> QED BY <3>1, Stored_32_R_R, Zenon
  <2>3. 0 = 0 + 1 - 1 /\ 0 \in Nat /\ 1 \in 1 .. 32 /\ 0 + 1 <= 8 * SizeOf(i)  BY <1>1
  <2>4. FieldOver(i, "AM32_R_R", "b32", "zero", 0, 1)  BY <1>0, <2>1, <2>2, <2>3, Zenon DEF FieldOver
  <2>5. SameBits(Operands(UwinstRow[i.op], i)["zero"], 0, 1)  BY <1>2, <1>3, Zenon DEF Values
  <2> QED BY <2>4, <2>5, FieldGives, Zenon
<1>7. GetField(BitsOf(BinaryOf(i)), "AM32_R_R", "mn") = code % 128
  <2>1. FieldBits["AM32_R_R"]["mn"] = 1 .. 7  BY Places_32_R_R, Zenon
  <2>2. \A b \in 1 .. 7 : Set_am[TY_AM[i.op]][b] = [of |-> "code", bit |-> b - 1]
    BY Stored_32_R_R, Zenon
  <2>3. 7 = 1 + 7 - 1 /\ 1 \in Nat /\ 7 \in 1 .. 32 /\ 1 + 7 <= 8 * SizeOf(i)  BY <1>1
  <2>4. FieldOver(i, "AM32_R_R", "mn", "code", 1, 7)  BY <1>0, <2>1, <2>2, <2>3, Zenon DEF FieldOver
  <2>5. SameBits(Operands(UwinstRow[i.op], i)["code"], code % 128, 7)  BY <1>2, <1>3, Zenon DEF Values
  <2> QED BY <2>4, <2>5, FieldGives, Zenon
<1> QED BY <1>3, <1>4, <1>5, <1>6, <1>7, Zenon DEF FieldsBack, Rd, Rs, Rt, Ofs, Regs32, Regs64, SmallModes

\* The fields of an instruction of mode AM32_R_OFS.
LEMMA Back_32_R_OFS ==
    ASSUME NEW i, Encodable(i), TY_AM[i.op] = "AM32_R_OFS"
    PROVE  FieldsBack(i, BitsOf(BinaryOf(i)))
<1>0. i \in UWASM_INST  BY EncodedIs
<1>1. SizeOf(i) = 4  BY Zenon DEF SizeOf, InstSize, SmallModes
<1>2. Values(i)  BY FieldValues
<1>3. PICK code : code = UwinstRow[i.op].uwasm_op  OBVIOUS
<1>4. GetField(BitsOf(BinaryOf(i)), "AM32_R", "rd") = i.rd
  <2>1. FieldBits["AM32_R"]["rd"] = 8 .. 17  BY Places_32_R, Zenon
  <2>2. \A b \in 8 .. 17 : Set_am[TY_AM[i.op]][b] = [of |-> "rd", bit |-> b - 8]
    BY Stored_32_R_OFS, Zenon
  <2>3. 17 = 8 + 10 - 1 /\ 8 \in Nat /\ 10 \in 1 .. 32 /\ 8 + 10 <= 8 * SizeOf(i)  BY <1>1
  <2>4. FieldOver(i, "AM32_R", "rd", "rd", 8, 10)  BY <1>0, <2>1, <2>2, <2>3, Zenon DEF FieldOver
  <2>5. SameBits(Operands(UwinstRow[i.op], i)["rd"], i.rd, 10)  BY <1>2, <1>3, Zenon DEF Values
  <2> QED BY <2>4, <2>5, FieldGives, Zenon
<1>5. GetField(BitsOf(BinaryOf(i)), "AM32_R_OFS", "sofs") = i.ofs
  <2>1. FieldBits["AM32_R_OFS"]["sofs"] = 18 .. 29  BY Places_32_R_OFS, Zenon
  <2>2. \A b \in 18 .. 29 : Set_am[TY_AM[i.op]][b] = [of |-> "ofs", bit |-> b - 18]
    BY Stored_32_R_OFS, Zenon
  <2>3. 29 = 18 + 12 - 1 /\ 18 \in Nat /\ 12 \in 1 .. 32 /\ 18 + 12 <= 8 * SizeOf(i)  BY <1>1
  <2>4. FieldOver(i, "AM32_R_OFS", "sofs", "ofs", 18, 12)  BY <1>0, <2>1, <2>2, <2>3, Zenon DEF FieldOver
  <2>5. SameBits(Operands(UwinstRow[i.op], i)["ofs"], i.ofs, 12)  BY <1>2, <1>3, Zenon DEF Values
  <2> QED BY <2>4, <2>5, FieldGives, Zenon
<1>6. GetField(BitsOf(BinaryOf(i)), "AM32_R_OFS", "b32") = 0
  <2>1. FieldBits["AM32_R_OFS"]["b32"] = 0 .. 0  BY Places_32_R_OFS, Zenon
  <2>2. \A b \in 0 .. 0 : Set_am[TY_AM[i.op]][b] = [of |-> "zero", bit |-> b - 0]
    <3>1. \A b \in 0 .. 0 : b = 0 /\ b - 0 = 0  OBVIOUS
    <3> QED BY <3>1, Stored_32_R_OFS, Zenon
  <2>3. 0 = 0 + 1 - 1 /\ 0 \in Nat /\ 1 \in 1 .. 32 /\ 0 + 1 <= 8 * SizeOf(i)  BY <1>1
  <2>4. FieldOver(i, "AM32_R_OFS", "b32", "zero", 0, 1)  BY <1>0, <2>1, <2>2, <2>3, Zenon DEF FieldOver
  <2>5. SameBits(Operands(UwinstRow[i.op], i)["zero"], 0, 1)  BY <1>2, <1>3, Zenon DEF Values
  <2> QED BY <2>4, <2>5, FieldGives, Zenon
<1>7. GetField(BitsOf(BinaryOf(i)), "AM32_R_OFS", "mn") = code % 128
  <2>1. FieldBits["AM32_R_OFS"]["mn"] = 1 .. 7  BY Places_32_R_OFS, Zenon
  <2>2. \A b \in 1 .. 7 : Set_am[TY_AM[i.op]][b] = [of |-> "code", bit |-> b - 1]
    BY Stored_32_R_OFS, Zenon
  <2>3. 7 = 1 + 7 - 1 /\ 1 \in Nat /\ 7 \in 1 .. 32 /\ 1 + 7 <= 8 * SizeOf(i)  BY <1>1
  <2>4. FieldOver(i, "AM32_R_OFS", "mn", "code", 1, 7)  BY <1>0, <2>1, <2>2, <2>3, Zenon DEF FieldOver
  <2>5. SameBits(Operands(UwinstRow[i.op], i)["code"], code % 128, 7)  BY <1>2, <1>3, Zenon DEF Values
  <2> QED BY <2>4, <2>5, FieldGives, Zenon
<1> QED BY <1>3, <1>4, <1>5, <1>6, <1>7, Zenon DEF FieldsBack, Rd, Rs, Rt, Ofs, Regs32, Regs64, SmallModes

\* The fields of an instruction of mode AM64_R_R_R.
LEMMA Back_64_R_R_R ==
    ASSUME NEW i, Encodable(i), TY_AM[i.op] = "AM64_R_R_R"
    PROVE  FieldsBack(i, BitsOf(BinaryOf(i)))
<1>0. i \in UWASM_INST  BY EncodedIs
<1>1. SizeOf(i) = 8  BY Zenon DEF SizeOf, InstSize, SmallModes
<1>2. Values(i)  BY FieldValues
<1>3. PICK code : code = UwinstRow[i.op].uwasm_op  OBVIOUS
<1>4. GetField(BitsOf(BinaryOf(i)), "AM64_R_R_R", "rd") = i.rd
  <2>1. FieldBits["AM64_R_R_R"]["rd"] = 16 .. 25  BY Places_64_R_R_R, Zenon
  <2>2. \A b \in 16 .. 25 : Set_am[TY_AM[i.op]][b] = [of |-> "rd", bit |-> b - 16]
    BY Stored_64_R_R_R, ZenonT(40)
  <2>3. 25 = 16 + 10 - 1 /\ 16 \in Nat /\ 10 \in 1 .. 32 /\ 16 + 10 <= 8 * SizeOf(i)  BY <1>1
  <2>4. FieldOver(i, "AM64_R_R_R", "rd", "rd", 16, 10)  BY <1>0, <2>1, <2>2, <2>3, Zenon DEF FieldOver
  <2>5. SameBits(Operands(UwinstRow[i.op], i)["rd"], i.rd, 10)  BY <1>2, <1>3, Zenon DEF Values
  <2> QED BY <2>4, <2>5, FieldGives, Zenon
<1>5. GetField(BitsOf(BinaryOf(i)), "AM64_R_R_R", "rs") = i.rs
  <2>1. FieldBits["AM64_R_R_R"]["rs"] = 44 .. 53  BY Places_64_R_R_R, Zenon
  <2>2. \A b \in 44 .. 53 : Set_am[TY_AM[i.op]][b] = [of |-> "rs", bit |-> b - 44]
    BY Stored_64_R_R_R, ZenonT(40)
  <2>3. 53 = 44 + 10 - 1 /\ 44 \in Nat /\ 10 \in 1 .. 32 /\ 44 + 10 <= 8 * SizeOf(i)  BY <1>1
  <2>4. FieldOver(i, "AM64_R_R_R", "rs", "rs", 44, 10)  BY <1>0, <2>1, <2>2, <2>3, Zenon DEF FieldOver
  <2>5. SameBits(Operands(UwinstRow[i.op], i)["rs"], i.rs, 10)  BY <1>2, <1>3, Zenon DEF Values
  <2> QED BY <2>4, <2>5, FieldGives, Zenon
<1>6. GetField(BitsOf(BinaryOf(i)), "AM64_R_R_R", "rt") = i.rt
  <2>1. FieldBits["AM64_R_R_R"]["rt"] = 54 .. 63  BY Places_64_R_R_R, Zenon
  <2>2. \A b \in 54 .. 63 : Set_am[TY_AM[i.op]][b] = [of |-> "rt", bit |-> b - 54]
    BY Stored_64_R_R_R, ZenonT(40)
  <2>3. 63 = 54 + 10 - 1 /\ 54 \in Nat /\ 10 \in 1 .. 32 /\ 54 + 10 <= 8 * SizeOf(i)  BY <1>1
  <2>4. FieldOver(i, "AM64_R_R_R", "rt", "rt", 54, 10)  BY <1>0, <2>1, <2>2, <2>3, Zenon DEF FieldOver
  <2>5. SameBits(Operands(UwinstRow[i.op], i)["rt"], i.rt, 10)  BY <1>2, <1>3, Zenon DEF Values
  <2> QED BY <2>4, <2>5, FieldGives, Zenon
<1>7. GetField(BitsOf(BinaryOf(i)), "AM64_R_R_R", "b32") = 1
  <2>1. FieldBits["AM64_R_R_R"]["b32"] = 0 .. 0  BY Places_64_R_R_R, Zenon
  <2>2. \A b \in 0 .. 0 : Set_am[TY_AM[i.op]][b] = [of |-> "one", bit |-> b - 0]
    BY Stored_64_R_R_R, Zenon
  <2>3. 0 = 0 + 1 - 1 /\ 0 \in Nat /\ 1 \in 1 .. 32 /\ 0 + 1 <= 8 * SizeOf(i)  BY <1>1
  <2>4. FieldOver(i, "AM64_R_R_R", "b32", "one", 0, 1)  BY <1>0, <2>1, <2>2, <2>3, Zenon DEF FieldOver
  <2>5. SameBits(Operands(UwinstRow[i.op], i)["one"], 1, 1)  BY <1>2, <1>3, Zenon DEF Values
  <2> QED BY <2>4, <2>5, FieldGives, Zenon
<1>8. GetField(BitsOf(BinaryOf(i)), "AM64_R_R_R", "mn2") = code
  <2>1. FieldBits["AM64_R_R_R"]["mn2"] = 8 .. 15  BY Places_64_R_R_R, Zenon
  <2>2. \A b \in 8 .. 15 : Set_am[TY_AM[i.op]][b] = [of |-> "code", bit |-> b - 8]
    BY Stored_64_R_R_R, ZenonT(40)
  <2>3. 15 = 8 + 8 - 1 /\ 8 \in Nat /\ 8 \in 1 .. 32 /\ 8 + 8 <= 8 * SizeOf(i)  BY <1>1
  <2>4. FieldOver(i, "AM64_R_R_R", "mn2", "code", 8, 8)  BY <1>0, <2>1, <2>2, <2>3, Zenon DEF FieldOver
  <2>5. SameBits(Operands(UwinstRow[i.op], i)["code"], code, 8)  BY <1>2, <1>3, Zenon DEF Values
  <2> QED BY <2>4, <2>5, FieldGives, Zenon
<1> QED BY <1>3, <1>4, <1>5, <1>6, <1>7, <1>8, Zenon DEF FieldsBack, Rd, Rs, Rt, Ofs, Regs32, Regs64, SmallModes

\* The fields of an instruction of mode AM64_R_OFS.
LEMMA Back_64_R_OFS ==
    ASSUME NEW i, Encodable(i), TY_AM[i.op] = "AM64_R_OFS"
    PROVE  FieldsBack(i, BitsOf(BinaryOf(i)))
<1>0. i \in UWASM_INST  BY EncodedIs
<1>1. SizeOf(i) = 8  BY Zenon DEF SizeOf, InstSize, SmallModes
<1>2. Values(i)  BY FieldValues
<1>3. PICK code : code = UwinstRow[i.op].uwasm_op  OBVIOUS
<1>4. GetField(BitsOf(BinaryOf(i)), "AM64_R_R_R", "rd") = i.rd
  <2>1. FieldBits["AM64_R_R_R"]["rd"] = 16 .. 25  BY Places_64_R_R_R, Zenon
  <2>2. \A b \in 16 .. 25 : Set_am[TY_AM[i.op]][b] = [of |-> "rd", bit |-> b - 16]
    BY Stored_64_R_OFS, Zenon
  <2>3. 25 = 16 + 10 - 1 /\ 16 \in Nat /\ 10 \in 1 .. 32 /\ 16 + 10 <= 8 * SizeOf(i)  BY <1>1
  <2>4. FieldOver(i, "AM64_R_R_R", "rd", "rd", 16, 10)  BY <1>0, <2>1, <2>2, <2>3, Zenon DEF FieldOver
  <2>5. SameBits(Operands(UwinstRow[i.op], i)["rd"], i.rd, 10)  BY <1>2, <1>3, Zenon DEF Values
  <2> QED BY <2>4, <2>5, FieldGives, Zenon
<1>5. GetField(BitsOf(BinaryOf(i)), "AM64_R_OFS", "lofs") = i.ofs
  <2>1. FieldBits["AM64_R_OFS"]["lofs"] = 32 .. 63  BY Places_64_R_OFS, Zenon
  <2>2. \A b \in 32 .. 63 : Set_am[TY_AM[i.op]][b] = [of |-> "ofs", bit |-> b - 32]
    BY Stored_64_R_OFS, Zenon
  <2>3. 63 = 32 + 32 - 1 /\ 32 \in Nat /\ 32 \in 1 .. 32 /\ 32 + 32 <= 8 * SizeOf(i)  BY <1>1
  <2>4. FieldOver(i, "AM64_R_OFS", "lofs", "ofs", 32, 32)  BY <1>0, <2>1, <2>2, <2>3, Zenon DEF FieldOver
  <2>5. SameBits(Operands(UwinstRow[i.op], i)["ofs"], i.ofs, 32)  BY <1>2, <1>3, Zenon DEF Values
  <2> QED BY <2>4, <2>5, FieldGives, Zenon
<1>6. GetField(BitsOf(BinaryOf(i)), "AM64_R_OFS", "b32") = 1
  <2>1. FieldBits["AM64_R_OFS"]["b32"] = 0 .. 0  BY Places_64_R_OFS, Zenon
  <2>2. \A b \in 0 .. 0 : Set_am[TY_AM[i.op]][b] = [of |-> "one", bit |-> b - 0]
    BY Stored_64_R_OFS, Zenon
  <2>3. 0 = 0 + 1 - 1 /\ 0 \in Nat /\ 1 \in 1 .. 32 /\ 0 + 1 <= 8 * SizeOf(i)  BY <1>1
  <2>4. FieldOver(i, "AM64_R_OFS", "b32", "one", 0, 1)  BY <1>0, <2>1, <2>2, <2>3, Zenon DEF FieldOver
  <2>5. SameBits(Operands(UwinstRow[i.op], i)["one"], 1, 1)  BY <1>2, <1>3, Zenon DEF Values
  <2> QED BY <2>4, <2>5, FieldGives, Zenon
<1>7. GetField(BitsOf(BinaryOf(i)), "AM64_R_OFS", "mn2") = code
  <2>1. FieldBits["AM64_R_OFS"]["mn2"] = 8 .. 15  BY Places_64_R_OFS, Zenon
  <2>2. \A b \in 8 .. 15 : Set_am[TY_AM[i.op]][b] = [of |-> "code", bit |-> b - 8]
    BY Stored_64_R_OFS, Zenon
  <2>3. 15 = 8 + 8 - 1 /\ 8 \in Nat /\ 8 \in 1 .. 32 /\ 8 + 8 <= 8 * SizeOf(i)  BY <1>1
  <2>4. FieldOver(i, "AM64_R_OFS", "mn2", "code", 8, 8)  BY <1>0, <2>1, <2>2, <2>3, Zenon DEF FieldOver
  <2>5. SameBits(Operands(UwinstRow[i.op], i)["code"], code, 8)  BY <1>2, <1>3, Zenon DEF Values
  <2> QED BY <2>4, <2>5, FieldGives, Zenon
<1> QED BY <1>3, <1>4, <1>5, <1>6, <1>7, Zenon DEF FieldsBack, Rd, Rs, Rt, Ofs, Regs32, Regs64, SmallModes

\* The fields of an instruction of mode AM64_R_R_OFS.
LEMMA Back_64_R_R_OFS ==
    ASSUME NEW i, Encodable(i), TY_AM[i.op] = "AM64_R_R_OFS"
    PROVE  FieldsBack(i, BitsOf(BinaryOf(i)))
<1>0. i \in UWASM_INST  BY EncodedIs
<1>1. SizeOf(i) = 8  BY Zenon DEF SizeOf, InstSize, SmallModes
<1>2. Values(i)  BY FieldValues
<1>3. PICK code : code = UwinstRow[i.op].uwasm_op  OBVIOUS
<1>4. GetField(BitsOf(BinaryOf(i)), "AM64_R_R_R", "rd") = i.rd
  <2>1. FieldBits["AM64_R_R_R"]["rd"] = 16 .. 25  BY Places_64_R_R_R, Zenon
  <2>2. \A b \in 16 .. 25 : Set_am[TY_AM[i.op]][b] = [of |-> "rd", bit |-> b - 16]
    BY Stored_64_R_R_OFS, Zenon
  <2>3. 25 = 16 + 10 - 1 /\ 16 \in Nat /\ 10 \in 1 .. 32 /\ 16 + 10 <= 8 * SizeOf(i)  BY <1>1
  <2>4. FieldOver(i, "AM64_R_R_R", "rd", "rd", 16, 10)  BY <1>0, <2>1, <2>2, <2>3, Zenon DEF FieldOver
  <2>5. SameBits(Operands(UwinstRow[i.op], i)["rd"], i.rd, 10)  BY <1>2, <1>3, Zenon DEF Values
  <2> QED BY <2>4, <2>5, FieldGives, Zenon
<1>5. GetField(BitsOf(BinaryOf(i)), "AM64_R_R_OFS", "rs") = i.rs
  <2>1. FieldBits["AM64_R_R_OFS"]["rs"] = 32 .. 41  BY Places_64_R_R_OFS, Zenon
  <2>2. \A b \in 32 .. 41 : Set_am[TY_AM[i.op]][b] = [of |-> "rs", bit |-> b - 32]
    BY Stored_64_R_R_OFS, Zenon
  <2>3. 41 = 32 + 10 - 1 /\ 32 \in Nat /\ 10 \in 1 .. 32 /\ 32 + 10 <= 8 * SizeOf(i)  BY <1>1
  <2>4. FieldOver(i, "AM64_R_R_OFS", "rs", "rs", 32, 10)  BY <1>0, <2>1, <2>2, <2>3, Zenon DEF FieldOver
  <2>5. SameBits(Operands(UwinstRow[i.op], i)["rs"], i.rs, 10)  BY <1>2, <1>3, Zenon DEF Values
  <2> QED BY <2>4, <2>5, FieldGives, Zenon
<1>6. GetField(BitsOf(BinaryOf(i)), "AM64_R_R_OFS", "sofs") = i.ofs
  <2>1. FieldBits["AM64_R_R_OFS"]["sofs"] = 42 .. 61  BY Places_64_R_R_OFS, Zenon
  <2>2. \A b \in 42 .. 61 : Set_am[TY_AM[i.op]][b] = [of |-> "ofs", bit |-> b - 42]
    BY Stored_64_R_R_OFS, Zenon
  <2>3. 61 = 42 + 20 - 1 /\ 42 \in Nat /\ 20 \in 1 .. 32 /\ 42 + 20 <= 8 * SizeOf(i)  BY <1>1
  <2>4. FieldOver(i, "AM64_R_R_OFS", "sofs", "ofs", 42, 20)  BY <1>0, <2>1, <2>2, <2>3, Zenon DEF FieldOver
  <2>5. SameBits(Operands(UwinstRow[i.op], i)["ofs"], i.ofs, 20)  BY <1>2, <1>3, Zenon DEF Values
  <2> QED BY <2>4, <2>5, FieldGives, Zenon
<1>7. GetField(BitsOf(BinaryOf(i)), "AM64_R_R_OFS", "b32") = 1
  <2>1. FieldBits["AM64_R_R_OFS"]["b32"] = 0 .. 0  BY Places_64_R_R_OFS, Zenon
  <2>2. \A b \in 0 .. 0 : Set_am[TY_AM[i.op]][b] = [of |-> "one", bit |-> b - 0]
    BY Stored_64_R_R_OFS, Zenon
  <2>3. 0 = 0 + 1 - 1 /\ 0 \in Nat /\ 1 \in 1 .. 32 /\ 0 + 1 <= 8 * SizeOf(i)  BY <1>1
  <2>4. FieldOver(i, "AM64_R_R_OFS", "b32", "one", 0, 1)  BY <1>0, <2>1, <2>2, <2>3, Zenon DEF FieldOver
  <2>5. SameBits(Operands(UwinstRow[i.op], i)["one"], 1, 1)  BY <1>2, <1>3, Zenon DEF Values
  <2> QED BY <2>4, <2>5, FieldGives, Zenon
<1>8. GetField(BitsOf(BinaryOf(i)), "AM64_R_R_OFS", "mn2") = code
  <2>1. FieldBits["AM64_R_R_OFS"]["mn2"] = 8 .. 15  BY Places_64_R_R_OFS, Zenon
  <2>2. \A b \in 8 .. 15 : Set_am[TY_AM[i.op]][b] = [of |-> "code", bit |-> b - 8]
    BY Stored_64_R_R_OFS, Zenon
  <2>3. 15 = 8 + 8 - 1 /\ 8 \in Nat /\ 8 \in 1 .. 32 /\ 8 + 8 <= 8 * SizeOf(i)  BY <1>1
  <2>4. FieldOver(i, "AM64_R_R_OFS", "mn2", "code", 8, 8)  BY <1>0, <2>1, <2>2, <2>3, Zenon DEF FieldOver
  <2>5. SameBits(Operands(UwinstRow[i.op], i)["code"], code, 8)  BY <1>2, <1>3, Zenon DEF Values
  <2> QED BY <2>4, <2>5, FieldGives, Zenon
<1> QED BY <1>3, <1>4, <1>5, <1>6, <1>7, <1>8, Zenon DEF FieldsBack, Rd, Rs, Rt, Ofs, Regs32, Regs64, SmallModes

\* Whatever its mode, an instruction whose operands fit is read back.
LEMMA ReadsBack ==
    ASSUME NEW i, Encodable(i)
    PROVE  FieldsBack(i, BitsOf(BinaryOf(i)))
<1>1. i.op \in DOMAIN TY_AM  BY EncodedIs
<1>2. TY_AM[i.op] \in RowModes  BY <1>1, RowOf
<1> QED BY <1>2, Back_32, Back_32_R, Back_32_R_R, Back_32_R_OFS,
           Back_64_R_R_R, Back_64_R_OFS, Back_64_R_R_OFS, Zenon DEF RowModes

-----------------------------------------------------------------------------
(* What the conversions emit can be read back.                               *)

\* The offset fits its field, and the row is none of the two.
OfsFits(i) ==
    /\ i.op \notin Shadowed /\ i.ofs < 2^31
    /\ TY_AM[i.op] = "AM32_R_OFS" => i.ofs < 2^12
    /\ TY_AM[i.op] = "AM64_R_R_OFS" => i.ofs < 2^20

\* Set_am cuts the short offsets.
LEMMA UInstOfs ==
    ASSUME NEW op, NEW rd, NEW rs, NEW rt, NEW ofs, ofs = -1 \/ ofs \in Nat,
           TY_AM[op] = "AM64_R_OFS" => ofs < 2^31, op \notin Shadowed
    PROVE  OfsFits(UInst(op, rd, rs, rt, ofs))
<1> DEFINE i == UInst(op, rd, rs, rt, ofs)
<1>1. i.op = op /\ i.ofs = IF ofs = -1 THEN 0 ELSE OfsOf(TY_AM[op], ofs)
  BY Zenon DEF UInst
<1> HIDE DEF i
<1>2. 0 < 2^31 /\ 0 < 2^12 /\ 0 < 2^20  OBVIOUS
<1>3. CASE ofs = -1  BY <1>1, <1>2, <1>3 DEF OfsFits, i
<1>4. CASE ofs # -1
  <2>1. PICK n \in Nat : n = ofs  BY <1>4
  <2>2. i.ofs = OfsOf(TY_AM[op], n)  BY <1>1, <1>4, <2>1
  <2>3. n % 2^12 < 2^12 /\ n % 2^20 < 2^20 /\ n % 2^12 < 2^31 /\ n % 2^20 < 2^31  OBVIOUS
  <2>4. /\ OfsOf("AM32_R_OFS", n) = n % 2^12 /\ OfsOf("AM64_R_R_OFS", n) = n % 2^20
        /\ OfsOf("AM64_R_OFS", n) = n
        /\ \A am : am \notin {"AM32_R_OFS", "AM64_R_R_OFS", "AM64_R_OFS"} => OfsOf(am, n) = 0
    BY Zenon DEF OfsOf
  <2>5. CASE TY_AM[op] = "AM32_R_OFS"
    <3>1. i.ofs = n % 2^12  BY <2>2, <2>4, <2>5
    <3> QED BY <1>1, <2>3, <2>5, <3>1, Zenon DEF OfsFits, i
  <2>6. CASE TY_AM[op] = "AM64_R_R_OFS"
    <3>1. i.ofs = n % 2^20  BY <2>2, <2>4, <2>6
    <3> QED BY <1>1, <2>3, <2>6, <3>1, Zenon DEF OfsFits, i
  <2>7. CASE TY_AM[op] = "AM64_R_OFS"
    <3>1. i.ofs = n /\ n < 2^31  BY <2>1, <2>2, <2>4, <2>7
    <3> QED BY <1>1, <2>7, <3>1, Zenon DEF OfsFits, i
  <2>8. CASE TY_AM[op] \notin {"AM32_R_OFS", "AM64_R_R_OFS", "AM64_R_OFS"}
    <3>1. i.ofs = 0  BY <2>2, <2>4, <2>8
    <3> QED BY <1>1, <1>2, <2>8, <3>1, Zenon DEF OfsFits, i
  <2> QED BY <2>5, <2>6, <2>7, <2>8
<1> QED BY <1>3, <1>4

\* The operands of the default case fit.
LEMMA RandOfs ==
    ASSUME NEW op, op \notin Shadowed
    PROVE  OfsFits(Rand_operand(op))
<1>1. RAND_OFS \in Nat /\ RAND_OFS < 2^31  BY DEF RAND_OFS
<1>2. OfsFits(UInst(op, 512, 1, 240, -1))
  <2>1. -1 < 2^31  OBVIOUS
  <2> QED BY <2>1, UInstOfs
<1>3. OfsFits(UInst(op, 512, -1, -1, RAND_OFS))  BY <1>1, UInstOfs
<1>4. OfsFits(UInst(op, 512, -1, -1, -1)) /\ OfsFits(UInst(op, -1, -1, -1, -1))
  <2>1. -1 < 2^31  OBVIOUS
  <2> QED BY <2>1, UInstOfs
<1> QED BY <1>2, <1>3, <1>4, RandIs

\* The numbers of the instructions fit 31 bits, and the offsets of those made of them
\* fit their fields.
OfsInv ==
    /\ \A k \in DOMAIN ins : ins[k].imm < 2^31
    /\ \A k \in DOMAIN uinsts : OfsFits(uinsts[k])

\* One instruction more.
LEMMA OfsMore ==
    ASSUME OfsInv, uinsts \in Seq(EncodedInst), NEW i, OfsFits(i), uinsts' = Append(uinsts, i), ins' = ins
    PROVE  OfsInv'
<1>1. Len(uinsts) \in Nat /\ DOMAIN uinsts = 1 .. Len(uinsts)  BY SeqBasics
<1>2. /\ DOMAIN uinsts' = 1 .. Len(uinsts) + 1
      /\ \A k \in DOMAIN uinsts' : k \in DOMAIN uinsts \/ k = Len(uinsts) + 1
      /\ \A k \in DOMAIN uinsts : uinsts'[k] = uinsts[k]
      /\ uinsts'[Len(uinsts) + 1] = i
  <2>1. PICK V : V = EncodedInst \cup {i}  OBVIOUS
  <2>2. uinsts \in Seq(V) /\ i \in V  BY <2>1, SeqWider
  <2>3. PICK us : us = uinsts'  OBVIOUS
  <2>4. /\ us \in Seq(V) /\ Len(us) = Len(uinsts) + 1 /\ us[Len(uinsts) + 1] = i
        /\ \A k \in 1 .. Len(uinsts) : us[k] = uinsts[k]
    BY <2>2, <2>3, AppendProperties
  <2>5. DOMAIN us = 1 .. Len(uinsts) + 1  BY <2>4, SeqBasics
  <2> QED BY <1>1, <2>3, <2>4, <2>5
<1>3. \A k \in DOMAIN uinsts' : OfsFits(uinsts'[k])
  <2> SUFFICES ASSUME NEW k \in DOMAIN uinsts' PROVE OfsFits(uinsts'[k])
    OBVIOUS
  <2>1. uinsts'[k] = i \/ (k \in DOMAIN uinsts /\ uinsts'[k] = uinsts[k])  BY <1>2
  <2> QED BY <2>1, Zenon DEF OfsInv
<1>4. OfsFits(i)' = OfsFits(i)  BY DEF OfsFits
<1> QED BY <1>3 DEF OfsInv, OfsFits

\* The step of the pass that emits one instruction.
LEMMA OfsEmits ==
    ASSUME OfsInv, uinsts \in Seq(EncodedInst), Continue, NEW i, OfsFits(i), Emit(i)
    PROVE  OfsInv'
BY OfsMore DEF Continue, Emit, hierVars

\* Whatever the conversion emits, its offset fits its field.
LEMMA OfsInvNext ==
    ASSUME TransInv, CodeInv, OfsInv, [TransNext]_convVars
    PROVE  OfsInv'
<1>0. uinsts \in Seq(EncodedInst)  BY DEF CodeInv
<1>1. ASSUME UNCHANGED <<ins, uinsts>> PROVE OfsInv'
  BY <1>1 DEF OfsInv, OfsFits
<1>2. CASE Prepare
  <2>1. CASE ConstructStep /\ UNCHANGED <<hierVars, transVars>>
    BY <1>1, <2>1 DEF hierVars, transVars
  <2>2. CASE HierNext /\ UNCHANGED transVars
    <3>1. ins' = ins
      BY <2>2 DEF HierNext, OpenBlock, ElseBlock, ElseWithoutIf, EndBlock, EndIgnored,
                         Abort, OtherInst, ReturnBlocks
    <3> QED BY <1>1, <2>2, <3>1 DEF transVars
  <2> QED BY <1>2, <2>1, <2>2 DEF Prepare
<1>3. CASE BranchAborts \/ NoRegister \/ BinaryAborts \/ NotInTable \/ PopsEmptyStack \/ EndOfPass
  BY <1>1, <1>3 DEF BranchAborts, NoRegister, BinaryAborts, NotInTable, PopsEmptyStack, EndOfPass,
                    Stop, hierVars
<1>4. CASE NoJump \/ Skip \/ LocalGet
  BY <1>1, <1>4 DEF NoJump, Skip, LocalGet, Continue, hierVars
<1>5. ASSUME build = "returned", pc <= Len(ins) PROVE Cur.imm \in Nat /\ Cur.imm < 2^31
  <2>1. ins \in Seq(Inst) /\ pc \in Nat \ {0}
    BY DEF TransInv, HierInv, HierTypeOK
  <2>2. Len(ins) \in Nat /\ DOMAIN ins = 1 .. Len(ins) /\ \A k \in DOMAIN ins : ins[k] \in Inst
    BY <2>1, SeqBasics
  <2>3. pc \in DOMAIN ins  BY <1>5, <2>1, <2>2
  <2>4. Cur = ins[pc]  BY DEF Cur
  <2>5. Cur.imm \in Nat  BY <2>2, <2>3, <2>4 DEF Inst
  <2>6. Cur.imm < 2^31  BY <2>3, <2>4, Zenon DEF OfsInv
  <2> QED BY <2>5, <2>6
<1>6. /\ -1 < 2^31 /\ {"UJMP", "UJNZ", "UMOV", "URETURN", "I32Load", "I32Store", "I32Const"}
                         \cap Shadowed = {}
      /\ Arithmetic \cap Shadowed = {}
  BY DEF Shadowed, Arithmetic
<1>7. CASE Jump
  <2>1. OfsFits(UInst("UJMP", Len(label_tab) + 1, -1, -1, -1))  BY <1>6, UInstOfs
  <2> QED BY <1>0, <1>7, <2>1, OfsEmits DEF Jump
<1>8. CASE CondJump
  <2>1. Len(label_tab) + 1 \in Nat
    <3>1. Len(label_tab) \in Nat  BY SeqBasics DEF CodeInv
    <3> QED BY <3>1
  <2>2. TY_AM["UJNZ"] = "AM32_R_OFS"  BY EmittedModes
  <2>3. OfsFits(UInst("UJNZ", Top(1), -1, -1, Len(label_tab) + 1))
    BY <1>6, <2>1, <2>2, UInstOfs
  <2> QED BY <1>0, <1>8, <2>3, OfsEmits DEF CondJump
<1>9. CASE LocalSetTee
  <2>1. OfsFits(UInst("UMOV", local_map[Cur.imm + 1], Top(1), -1, -1))  BY <1>6, UInstOfs
  <2> QED BY <1>0, <1>9, <2>1, OfsEmits DEF LocalSetTee
<1>10. CASE I32Load
  <2>1. Cur.imm \in Nat /\ Cur.imm < 2^31  BY <1>5, <1>10 DEF I32Load, Translates
  <2>2. OfsFits(UInst("I32Load", NextTemp("I32"), Top(1), -1, Cur.imm))  BY <1>6, <2>1, UInstOfs
  <2> QED BY <1>0, <1>10, <2>2, OfsEmits DEF I32Load
<1>11. CASE I32Store
  <2>1. OfsFits(UInst("I32Store", Top(1), Top(2), Cur.imm, -1))  BY <1>6, UInstOfs
  <2> QED BY <1>0, <1>11, <2>1, OfsEmits DEF I32Store
<1>12. CASE I32Const
  <2>1. Cur.imm \in Nat /\ Cur.imm < 2^31  BY <1>5, <1>12 DEF I32Const, Translates
  <2>2. OfsFits(UInst("I32Const", NextTemp("I32"), -1, -1, Cur.imm))  BY <1>6, <2>1, UInstOfs
  <2> QED BY <1>0, <1>12, <2>2, OfsEmits DEF I32Const
<1>13. CASE Binary
  <2>1. Cur.op \in Arithmetic  BY <1>13 DEF Binary, Translates
  <2>2. OfsFits(UInst(Cur.op, NextTemp("I32"), Top(1), Top(2), -1))  BY <1>6, <2>1, UInstOfs
  <2> QED BY <1>0, <1>13, <2>2, OfsEmits DEF Binary
<1>14. CASE Default
  <2>1. Cur.op \in DOMAIN UOPCODE_from_wasm  BY <1>14, Zenon DEF Default, Translates
  <2>2. OfsFits(Rand_operand(UOPCODE_from_wasm[Cur.op]))  BY <2>1, CopiedFound, RandOfs
  <2> QED BY <1>0, <1>14, <2>2, OfsEmits DEF Default
<1>15. CASE Return
  <2>1. PICK i, j : i = UInst("URETURN", Top(1), -1, -1, -1) /\ j = Rand_operand(UOPCODE_from_wasm.Return)
    OBVIOUS
  <2>2. OfsFits(i) /\ OfsFits(j)
    <3>1. UOPCODE_from_wasm["Return"] \notin Shadowed  BY ReturnNamed, CopiedFound
    <3> QED BY <1>6, <2>1, <3>1, RandOfs, UInstOfs
  <2>3. uinsts' = uinsts \o <<i, j>> /\ ins' = ins  BY <1>15, <2>1 DEF Return, Continue, hierVars
  <2>4. PICK V : V = EncodedInst \cup {i, j}  OBVIOUS
  <2>5. uinsts \in Seq(V) /\ <<i, j>> \in Seq(V) /\ Len(uinsts) \in Nat /\ Len(<<i, j>>) = 2
        /\ DOMAIN uinsts = 1 .. Len(uinsts)
    BY <1>0, <2>4, SeqWider, SeqBasics
  <2>6. PICK p : p = <<i, j>>  OBVIOUS
  <2>7. uinsts' = [k \in 1 .. Len(uinsts) + 2 |-> IF k <= Len(uinsts) THEN uinsts[k] ELSE p[k - Len(uinsts)]]
    BY <2>3, <2>5, <2>6, JoinIs
  <2>8. p[1] = i /\ p[2] = j  BY <2>6
  <2>9. \A k \in DOMAIN uinsts' : \/ k \in DOMAIN uinsts /\ uinsts'[k] = uinsts[k]
                                  \/ uinsts'[k] \in {i, j}
    <3> SUFFICES ASSUME NEW k \in DOMAIN uinsts'
                 PROVE  \/ k \in DOMAIN uinsts /\ uinsts'[k] = uinsts[k]
                        \/ uinsts'[k] \in {i, j}
      OBVIOUS
    <3>1. k \in 1 .. Len(uinsts) + 2  BY <2>7
    <3>2. CASE k <= Len(uinsts)  BY <2>5, <2>7, <3>1, <3>2
    <3>3. CASE k > Len(uinsts)
      <4>1. k - Len(uinsts) \in {1, 2} /\ ~(k <= Len(uinsts))  BY <2>5, <3>1, <3>3
      <4>2. uinsts'[k] = p[k - Len(uinsts)]  BY <2>7, <3>1, <4>1
      <4> QED BY <2>8, <4>1, <4>2
    <3> QED BY <2>5, <3>1, <3>2, <3>3
  <2>10. \A k \in DOMAIN uinsts' : OfsFits(uinsts'[k])
    <3> SUFFICES ASSUME NEW k \in DOMAIN uinsts' PROVE OfsFits(uinsts'[k])
      OBVIOUS
    <3> QED BY <2>2, <2>9, Zenon DEF OfsInv
  <2> QED BY <2>3, <2>10 DEF OfsInv, OfsFits
<1>16. CASE UNCHANGED convVars
  BY <1>1, <1>16 DEF convVars, hierVars, transVars
<1> QED BY <1>2, <1>3, <1>4, <1>7, <1>8, <1>9, <1>10, <1>11, <1>12, <1>13, <1>14, <1>15, <1>16
        DEF TransNext, TranslateStep

\* The instructions in the streams can be encoded, and those of the conversion at hand
\* will be.
EncInv ==
    /\ stage = "convert" => OfsInv
    /\ \A s \in DOMAIN streams : \A n \in DOMAIN streams[s].insts : Encodable(streams[s].insts[n])
    /\ stage = "run" => streams # <<>>

\* The program starts without a stream.
LEMMA EncInvInit == DriverInit => EncInv
<1> SUFFICES ASSUME DriverInit PROVE EncInv
  OBVIOUS
<1>1. stage = "func" /\ streams = <<>>  BY DEF DriverInit
<1> QED BY <1>1 DEF EncInv

\* And no step of it gives a stream what cannot be encoded.
LEMMA EncInvNext ==
    ASSUME ScanInv, HandlerInv, FileInv, EncInv, [DriverNext]_programVars
    PROVE  EncInv'
<1>0. TransInv /\ CodeInv  BY DEF HandlerInv, ConvInv
<1>1. ASSUME UNCHANGED streams, stage' # "convert", stage' = "run" => stage = "run" PROVE EncInv'
  BY <1>1 DEF EncInv, Encodable
<1>2. CASE StartConvert
  <2>1. UNCHANGED streams /\ stage = "scan" /\ stage' = "convert" /\ uinsts' = <<>>
        /\ ins' = [k \in DOMAIN wasm_insts |-> Decode(wasm_insts[k])]
    BY <1>2 DEF StartConvert
  <2> DEFINE S == {i \in 0 .. Len(mod.bytes) - 1 : mod.bytes[i + 1] \in DOMAIN WINST_OPCODE}
  <2>2. wasm_insts \in Seq(S)  BY DEF ScanInv
  <2>3. \A k \in DOMAIN wasm_insts : wasm_insts[k] \in S
    <3> HIDE DEF S
    <3> QED BY <2>2, SeqBasics
  <2>4. mod.bytes \in Seq(0 .. 255) /\ Len(mod.bytes) \in Nat  BY ModuleFacts
  <2>5. ASSUME NEW k \in DOMAIN wasm_insts PROVE Decode(wasm_insts[k]).imm < 2^31
    <3>1. wasm_insts[k] \in Nat /\ mod.bytes[wasm_insts[k] + 1] \in DOMAIN WINST_OPCODE
      BY <2>3, <2>4
    <3> QED BY <2>4, <3>1, Decoded
  <2>6. \A k \in DOMAIN ins' : ins'[k].imm < 2^31  BY <2>1, <2>5
  <2>7. \A k \in DOMAIN uinsts' : FALSE  BY <2>1
  <2>8. OfsInv'  BY <2>6, <2>7 DEF OfsInv
  <2> QED BY <2>1, <2>8 DEF EncInv, Encodable
<1>3. CASE Translate
  <2>1. TransNext /\ UNCHANGED streams /\ stage = "convert" /\ stage' = "convert"
    BY <1>3 DEF Translate, driverVars
  <2>2. OfsInv'  BY <1>0, <2>1, OfsInvNext DEF EncInv
  <2> QED BY <2>1, <2>2 DEF EncInv, Encodable
<1>4. CASE Emit_output
  <2>1. /\ stage = "convert" /\ stage' = "run"
        /\ \E st : streams' = Append(streams, st) /\ st.insts = uinsts
    BY <1>4 DEF Emit_output
  <2>2. PICK st : streams' = Append(streams, st) /\ st.insts = uinsts  BY <2>1
  <2>3. \A n \in DOMAIN uinsts : Encodable(uinsts[n])
    <3>1. uinsts \in Seq(EncodedInst) /\ OfsInv  BY <1>0, <2>1 DEF CodeInv, EncInv
    <3>2. \A n \in DOMAIN uinsts : uinsts[n] \in EncodedInst  BY <3>1, SeqBasics
    <3> QED BY <3>1, <3>2, Zenon DEF OfsInv, OfsFits, Encodable
  <2>4. streams \in Seq(StreamSet)  BY DEF FileInv, StreamsInv
  <2>5. PICK V : V = StreamSet \cup {st}  OBVIOUS
  <2>6. streams \in Seq(V) /\ st \in V  BY <2>4, <2>5, SeqWider
  <2>7. PICK ss : ss = streams'  OBVIOUS
  <2>8. /\ ss \in Seq(V) /\ Len(ss) = Len(streams) + 1 /\ ss[Len(streams) + 1] = st
        /\ \A s \in 1 .. Len(streams) : ss[s] = streams[s]
    BY <2>2, <2>6, <2>7, AppendProperties
  <2>9. /\ Len(streams) \in Nat /\ DOMAIN streams = 1 .. Len(streams)
        /\ DOMAIN ss = 1 .. Len(streams) + 1
    BY <2>4, <2>8, SeqBasics
  <2>10. \A s \in DOMAIN ss : (s \in DOMAIN streams /\ ss[s] = streams[s]) \/ ss[s] = st
    BY <2>8, <2>9
  <2>11. \A s \in DOMAIN ss : \A n \in DOMAIN ss[s].insts : Encodable(ss[s].insts[n])
    <3> SUFFICES ASSUME NEW s \in DOMAIN ss, NEW n \in DOMAIN ss[s].insts
                 PROVE  Encodable(ss[s].insts[n])
      OBVIOUS
    <3>1. CASE s \in DOMAIN streams /\ ss[s] = streams[s]  BY <3>1, Zenon DEF EncInv
    <3>2. CASE ss[s] = st  BY <2>2, <2>3, <3>2
    <3> QED BY <2>10, <3>1, <3>2
  <2>12. ss # <<>>  BY <2>8, <2>9
  <2> QED BY <2>1, <2>7, <2>11, <2>12 DEF EncInv, Encodable
<1>5. CASE SkipImport \/ StartScan \/ Return0 \/ Next_func \/ ScanInst \/ ScanAborts \/ ScanRunsOut
  BY <1>1, <1>5 DEF SkipImport, StartScan, Return0, Next_func, ScanInst, ScanAborts, ScanRunsOut,
                    Scans, Go
<1>6. CASE ConvertStops \/ Run \/ RunStops
  BY <1>1, <1>6 DEF ConvertStops, Run, RunStops, Go, driverVars
<1>7. CASE Flush \/ ProcessGone \/ ListInst \/ ListAborts \/ ListEnds
  BY <1>1, <1>7 DEF Flush, FlushStream, ProcessGone, ListInst, ListAborts, ListEnds, Lists, Go
<1>8. CASE UNCHANGED programVars
  <2>1. UNCHANGED <<stage, streams, ins, uinsts>>
    BY <1>8 DEF programVars, driverVars, allVars, convVars, hierVars, transVars
  <2> QED BY <2>1 DEF EncInv, OfsInv, OfsFits, Encodable
<1> QED BY <1>2, <1>3, <1>4, <1>5, <1>6, <1>7, <1>8 DEF DriverNext

\* What is in the bytes of the n-th instruction is what its fields hold.
LEMMA StorageBack ==
    ASSUME StreamsInv, EncInv, NEW s \in DOMAIN streams, NEW n \in DOMAIN streams[s].insts
    PROVE  FieldsBack(streams[s].insts[n], StorageOf(streams[s], n))
<1>1. PICK st : st = streams[s]  OBVIOUS
<1>2. st.insts \in Seq(UWASM_INST) /\ st.code = UBH_Print(st.insts)  BY <1>1, StreamFacts
<1>3. PICK i : i = st.insts[n]  OBVIOUS
<1>4. Encodable(i)  BY <1>1, <1>3, Zenon DEF EncInv
<1>5. /\ CodeOffset(st.insts, n + 1) = CodeOffset(st.insts, n) + SizeOf(i)
      /\ SubSeq(st.code, CodeOffset(st.insts, n) + 1, CodeOffset(st.insts, n + 1)) = BinaryOf(i)
  BY <1>1, <1>2, <1>3, CodeFacts
<1>6. StorageOf(st, n) = BitsOf(BinaryOf(i))
  BY <1>3, <1>5, Zenon DEF StorageOf, SizeOf
<1>7. FieldsBack(i, BitsOf(BinaryOf(i)))  BY <1>4, ReadsBack
<1> QED BY <1>1, <1>3, <1>6, <1>7

\* For every module: whatever a conversion emitted, in whatever mode, the getters read
\* from its bytes the operands the setters were given, and the opcode.
THEOREM DriverFieldsReadBack == DriverSpec => []FieldsReadBack
<1>1. StreamsInv /\ EncInv => FieldsReadBack
  <2> SUFFICES ASSUME StreamsInv, EncInv, stage = "run", vm = "idle",
                      NEW st, st = Last(streams), NEW n \in DOMAIN st.insts
               PROVE  FieldsBack(st.insts[n], StorageOf(st, n))
    BY Zenon DEF FieldsReadBack, FieldsBack
  <2>1. streams \in Seq(StreamSet) /\ streams # <<>>  BY DEF StreamsInv, EncInv
  <2>2. Len(streams) \in Nat /\ DOMAIN streams = 1 .. Len(streams)  BY <2>1, SeqBasics
  <2>3. Len(streams) # 0  BY <2>1
  <2>4. Len(streams) \in DOMAIN streams  BY <2>2, <2>3
  <2>5. st = streams[Len(streams)]  BY DEF Last
  <2> QED BY <2>4, <2>5, StorageBack
<1>2. DriverSpec => [](ScanInv /\ HandlerInv /\ FileInv)  BY FileInvariant
<1>3. ScanInv /\ HandlerInv /\ FileInv /\ EncInv /\ [DriverNext]_programVars => EncInv'
  BY EncInvNext
<1>4. FileInv => StreamsInv  BY DEF FileInv
<1> QED BY <1>1, <1>2, <1>3, <1>4, EncInvInit, PTL DEF DriverSpec

-----------------------------------------------------------------------------
(* What the listing finds at an instruction.                                 *)

\* The first word of an instruction of either size, as the scan has it.
LEMMA WordAgrees ==
    ASSUME NEW d \in Seq(0 .. 255), NEW o \in Nat, NEW z \in {4, 8}, o + z <= Len(d)
    PROVE  \A b \in 0 .. 31 : /\ BitsOf(SubSeq(d, o + 1, o + 4))[b] = BitsOf(SubSeq(d, o + 1, o + z))[b]
                              /\ BitsOf(SubSeq(d, o + 1, o + 4))[b] \in {0, 1}
<1>1. Len(d) \in Nat /\ \A k \in 1 .. Len(d) : d[k] \in 0 .. 255  BY BytesSeq
<1>2. ASSUME NEW y \in {4, 8}, o + y <= Len(d)
      PROVE  /\ Len(SubSeq(d, o + 1, o + y)) = y
             /\ \A k \in 1 .. y : SubSeq(d, o + 1, o + y)[k] = d[o + k]
  BY <1>1, <1>2
<1>3. o + 4 <= Len(d) /\ 4 \in {4, 8}  BY <1>1
<1>4. ASSUME NEW b \in 0 .. 31
      PROVE  /\ BitsOf(SubSeq(d, o + 1, o + 4))[b] = BitsOf(SubSeq(d, o + 1, o + z))[b]
             /\ BitsOf(SubSeq(d, o + 1, o + 4))[b] \in {0, 1}
  <2>1. PICK k \in 1 .. 4 : k = b \div 8 + 1  OBVIOUS
  <2>2. PICK j \in 0 .. 7 : j = b % 8  OBVIOUS
  <2>3. PICK s : s = SubSeq(d, o + 1, o + 4)  OBVIOUS
  <2>4. PICK t : t = SubSeq(d, o + 1, o + z)  OBVIOUS
  <2>5. Len(s) = 4 /\ s[k] = d[o + k]  BY <1>2, <1>3, <2>3, Zenon
  <2>6. Len(t) = z /\ t[k] = d[o + k]
    <3>1. k \in 1 .. z  OBVIOUS
    <3> QED BY <1>2, <2>4, <3>1, Zenon
  <2>7. b \in 0 .. 63 /\ b < 8 * 4 /\ b < 8 * z  OBVIOUS
  <2>8. BitsOf(s)[b] = (s[k] \div 2^j) % 2
    <3>1. BitsOf(s)[b] = IF b < 8 * Len(s) THEN (s[b \div 8 + 1] \div 2 ^ (b % 8)) % 2 ELSE 0
      BY <2>7, Zenon DEF BitsOf
    <3> QED BY <2>1, <2>2, <2>5, <2>7, <3>1, Zenon
  <2>9. BitsOf(t)[b] = (t[k] \div 2^j) % 2
    <3>1. BitsOf(t)[b] = IF b < 8 * Len(t) THEN (t[b \div 8 + 1] \div 2 ^ (b % 8)) % 2 ELSE 0
      BY <2>7, Zenon DEF BitsOf
    <3> QED BY <2>1, <2>2, <2>6, <2>7, <3>1, Zenon
  <2>10. (s[k] \div 2^j) % 2 \in {0, 1}
    <3>1. s[k] \in 0 .. 255
      <4>1. o + k \in 1 .. Len(d)  BY <1>1, <1>3
      <4> QED BY <1>1, <2>5, <4>1
    <3>2. PICK x \in 0 .. 255 : x = s[k]  BY <3>1
    <3>3. 2^j \in {2^0, 2^1, 2^2, 2^3, 2^4, 2^5, 2^6, 2^7}
      <4>1. j \in {0, 1, 2, 3, 4, 5, 6, 7}  OBVIOUS
      <4> QED BY <4>1, Zenon
    <3>4. 2^j \in {1, 2, 4, 8, 16, 32, 64, 128}
      <4>1. {2^0, 2^1, 2^2, 2^3, 2^4, 2^5, 2^6, 2^7} = {1, 2, 4, 8, 16, 32, 64, 128}  OBVIOUS
      <4> QED BY <3>3, <4>1
    <3>5. PICK p \in {1, 2, 4, 8, 16, 32, 64, 128} : p = 2^j  BY <3>4
    <3>6. PICK q \in Nat : q = x \div p
      <4>1. /\ x \div 1 \in Nat /\ x \div 2 \in Nat /\ x \div 4 \in Nat /\ x \div 8 \in Nat
            /\ x \div 16 \in Nat /\ x \div 32 \in Nat /\ x \div 64 \in Nat /\ x \div 128 \in Nat
        OBVIOUS
      <4>2. x \div p \in Nat  BY <4>1, Zenon
      <4> QED BY <4>2, Zenon
    <3>7. q % 2 \in {0, 1}  OBVIOUS
    <3> QED BY <3>2, <3>5, <3>6, <3>7
  <2> QED BY <2>3, <2>4, <2>5, <2>6, <2>8, <2>9, <2>10
<1> QED BY <1>4

\* The seven bits of an opcode are a number.
LEMMA OpcodeNat ==
    ASSUME NEW word, \A b \in 1 .. 7 : word[b] \in {0, 1}
    PROVE  GetField(word, "AM32", "mn") \in Nat
<1> DEFINE at == FieldBits["AM32"]["mn"]
           T(g) == [b \in 0 .. 64 |-> IF b \notin at THEN 0 ELSE word[b] + 2 * g[b + 1]]
           from == CHOOSE g : g = T(g)
           v6   == word[6] + 2 * word[7]
           v5   == word[5] + 2 * v6
           v4   == word[4] + 2 * v5
           v3   == word[3] + 2 * v4
           v2   == word[2] + 2 * v3
           v1   == word[1] + 2 * v2
           v    == <<v1, v2, v3, v4, v5, v6, word[7]>>
           e    == [b \in 0 .. 64 |-> IF b \in 1 .. 7 THEN v[b] ELSE 0]
<1>1. at = 1 .. 7  BY Places_32, Zenon
<1>2. word[1] \in Nat /\ word[2] \in Nat /\ word[3] \in Nat /\ word[4] \in Nat
      /\ word[5] \in Nat /\ word[6] \in Nat /\ word[7] \in Nat
  <2>1. 1 \in 1 .. 7 /\ 2 \in 1 .. 7 /\ 3 \in 1 .. 7 /\ 4 \in 1 .. 7 /\ 5 \in 1 .. 7
        /\ 6 \in 1 .. 7 /\ 7 \in 1 .. 7
    OBVIOUS
  <2>2. \A b \in 1 .. 7 : word[b] \in Nat  OBVIOUS
  <2> QED BY <2>1, <2>2, Zenon
<1>3. v6 \in Nat /\ v5 \in Nat /\ v4 \in Nat /\ v3 \in Nat /\ v2 \in Nat /\ v1 \in Nat
  <2>1. v6 \in Nat  BY <1>2
  <2> HIDE DEF v6
  <2>2. v5 \in Nat  BY <1>2, <2>1
  <2> HIDE DEF v5
  <2>3. v4 \in Nat  BY <1>2, <2>2
  <2> HIDE DEF v4
  <2>4. v3 \in Nat  BY <1>2, <2>3
  <2> HIDE DEF v3
  <2>5. v2 \in Nat  BY <1>2, <2>4
  <2> HIDE DEF v2
  <2>6. v1 \in Nat  BY <1>2, <2>5
  <2> QED BY <2>1, <2>2, <2>3, <2>4, <2>5, <2>6
<1>4. /\ e[1] = v1 /\ e[2] = v2 /\ e[3] = v3 /\ e[4] = v4 /\ e[5] = v5 /\ e[6] = v6
      /\ e[7] = word[7] /\ e[8] = 0
  <2> HIDE DEF v1, v2, v3, v4, v5, v6
  <2> QED OBVIOUS
<1>5. \A b \in 0 .. 64 : b \notin 1 .. 7 => e[b] = 0
  <2> HIDE DEF v
  <2> QED OBVIOUS
<1>6. e = [b \in 0 .. 64 |-> e[b]]
  <2> HIDE DEF v
  <2> QED OBVIOUS
<1>7. \A b \in 1 .. 7 : e[b] = word[b] + 2 * e[b + 1]
  <2> HIDE DEF e
  <2>1. /\ e[1] = word[1] + 2 * e[2] /\ e[2] = word[2] + 2 * e[3] /\ e[3] = word[3] + 2 * e[4]
        /\ e[4] = word[4] + 2 * e[5] /\ e[5] = word[5] + 2 * e[6] /\ e[6] = word[6] + 2 * e[7]
    BY <1>4
  <2>2. e[7] = word[7] + 2 * e[8]  BY <1>2, <1>4
  <2> QED BY <2>1, <2>2
<1> HIDE DEF e
<1>8. e = T(e)
  <2>1. \A b \in 0 .. 64 : e[b] = IF b \notin at THEN 0 ELSE word[b] + 2 * e[b + 1]
    BY <1>1, <1>5, <1>7
  <2> HIDE DEF at
  <2> QED BY <1>6, <2>1
<1>9. from = T(from)
  <2> HIDE DEF T
  <2> QED BY <1>8, Zenon DEF from
<1>10. \A b \in 0 .. 64 : from[b] = IF b \notin at THEN 0 ELSE word[b] + 2 * from[b + 1]
  <2> HIDE DEF at, from
  <2> QED BY <1>9
<1> HIDE DEF from
<1>11. /\ from[8] = 0
       /\ from[7] = word[7] + 2 * from[8] /\ from[6] = word[6] + 2 * from[7]
       /\ from[5] = word[5] + 2 * from[6] /\ from[4] = word[4] + 2 * from[5]
       /\ from[3] = word[3] + 2 * from[4] /\ from[2] = word[2] + 2 * from[3]
       /\ from[1] = word[1] + 2 * from[2]
  BY <1>1, <1>10
<1>12. from[1] \in Nat
  <2>0. \A x, y \in Nat : x + 2 * y \in Nat  OBVIOUS
  <2>1. 0 \in Nat  OBVIOUS
  <2>2. from[8] \in Nat  BY <1>11, <2>1
  <2>3. from[7] \in Nat
    <3>1. word[7] + 2 * from[8] \in Nat  BY <1>2, <2>0, <2>2, Zenon
    <3> QED BY <1>11, <3>1, Zenon
  <2>4. from[6] \in Nat
    <3>1. word[6] + 2 * from[7] \in Nat  BY <1>2, <2>0, <2>3, Zenon
    <3> QED BY <1>11, <3>1, Zenon
  <2>5. from[5] \in Nat
    <3>1. word[5] + 2 * from[6] \in Nat  BY <1>2, <2>0, <2>4, Zenon
    <3> QED BY <1>11, <3>1, Zenon
  <2>6. from[4] \in Nat
    <3>1. word[4] + 2 * from[5] \in Nat  BY <1>2, <2>0, <2>5, Zenon
    <3> QED BY <1>11, <3>1, Zenon
  <2>7. from[3] \in Nat
    <3>1. word[3] + 2 * from[4] \in Nat  BY <1>2, <2>0, <2>6, Zenon
    <3> QED BY <1>11, <3>1, Zenon
  <2>8. from[2] \in Nat
    <3>1. word[2] + 2 * from[3] \in Nat  BY <1>2, <2>0, <2>7, Zenon
    <3> QED BY <1>11, <3>1, Zenon
  <2>9. word[1] + 2 * from[2] \in Nat  BY <1>2, <2>0, <2>8, Zenon
  <2> QED BY <1>11, <2>9, Zenon
<1>13. GetField(word, "AM32", "mn") = from[Min(at)]  BY Zenon DEF GetField, from
<1>14. Min(at) = 1
  <2>1. 1 .. 7 \subseteq Nat /\ 1 .. 7 # {} /\ 1 \in 1 .. 7  OBVIOUS
  <2>2. Min(1 .. 7) \in 1 .. 7 /\ Min(1 .. 7) <= 1  BY <2>1, MinIn
  <2>3. PICK m : m = Min(1 .. 7)  OBVIOUS
  <2>4. m = 1  BY <2>2, <2>3
  <2> QED BY <1>1, <2>3, <2>4
<1> QED BY <1>12, <1>13, <1>14

\* No row has an opcode of more than a byte.
LEMMA RowCodes == \A row \in ToSet(UWASM_META_INFO) : row.uwasm_op \in 0 .. 255
<1> SUFFICES ASSUME NEW row \in ToSet(UWASM_META_INFO) PROVE row.uwasm_op \in 0 .. 255
  OBVIOUS
<1>1. CASE row \in ToSet(ControlRows)
  <2>1. DOMAIN ControlRows = 1 .. 26  BY DEF ControlRows
  <2>2. PICK j \in 1 .. 26 : row = ControlRows[j]  BY <1>1, <2>1 DEF ToSet
  <2>3. row.uwasm_op \in 0 .. 36  BY <2>2, ControlCodes
  <2> QED BY <2>3
<1>2. CASE row = MovRow  BY <1>2 DEF MovRow, Row
<1>3. \A lo, hi \in 40 .. 191 : \A am : InRun(row, lo, hi, am) => row.uwasm_op \in 0 .. 255
  BY DEF InRun, RunRow, Row
<1>4. /\ 40 \in 40 .. 191 /\ 62 \in 40 .. 191 /\ 63 \in 40 .. 191 /\ 64 \in 40 .. 191
      /\ 65 \in 40 .. 191 /\ 69 \in 40 .. 191 /\ 70 \in 40 .. 191 /\ 72 \in 40 .. 191
      /\ 73 \in 40 .. 191 /\ 105 \in 40 .. 191 /\ 106 \in 40 .. 191 /\ 191 \in 40 .. 191
  OBVIOUS
<1>5. \/ row \in ToSet(ControlRows) \/ row = MovRow
      \/ \E lo, hi \in 40 .. 191 : \E am : InRun(row, lo, hi, am)
  BY <1>4, TableRows, Zenon
<1> QED BY <1>1, <1>2, <1>3, <1>5, Zenon

\* Every layout begins with the same two fields, and the large ones go on with a third.
LEMMA SamePlaces ==
    ASSUME NEW am \in RowModes
    PROVE  /\ FieldBits[am]["b32"] = 0 .. 0 /\ FieldBits["AM32"]["b32"] = 0 .. 0
           /\ am \in SmallModes => FieldBits[am]["mn"] = 1 .. 7 /\ FieldBits["AM32"]["mn"] = 1 .. 7
           /\ am \notin SmallModes =>
                 FieldBits[am]["mn2"] = 8 .. 15 /\ FieldBits["AM64_R_R_R"]["mn2"] = 8 .. 15
<1>1. \/ am \in SmallModes /\ am = "AM32"
      \/ am \in SmallModes /\ am = "AM32_R"
      \/ am \in SmallModes /\ am = "AM32_R_R"
      \/ am \in SmallModes /\ am = "AM32_R_OFS"
      \/ am \notin SmallModes /\ am = "AM64_R_R_R"
      \/ am \notin SmallModes /\ am = "AM64_R_OFS"
      \/ am \notin SmallModes /\ am = "AM64_R_R_OFS"
  <2>1. "AM32" \in SmallModes /\ "AM32_R" \in SmallModes /\ "AM32_R_R" \in SmallModes
        /\ "AM32_R_OFS" \in SmallModes
    BY DEF SmallModes
  <2>2. "AM64_R_R_R" \notin SmallModes /\ "AM64_R_OFS" \notin SmallModes
        /\ "AM64_R_R_OFS" \notin SmallModes
    BY DEF SmallModes
  <2> HIDE DEF SmallModes
  <2> QED BY <2>1, <2>2 DEF RowModes
<1>2. CASE am \in SmallModes
  BY <1>1, <1>2, Places_32, Places_32_R, Places_32_R_R, Places_32_R_OFS, ZenonT(40)
<1>3. CASE am \notin SmallModes
  BY <1>1, <1>3, Places_32, Places_64_R_R_R, Places_64_R_OFS, Places_64_R_R_OFS, ZenonT(40)
<1> QED BY <1>2, <1>3

\* The bits of a place, the same in both, and the place the same in both layouts.
PlacedAlike(bits, word, am, f, lay, g, at) ==
    /\ FieldBits[am][f] = at /\ FieldBits[lay][g] = at
    /\ \A b \in at : bits[b] = word[b]

ReadAlike(bits, word, am, f, lay, g) == GetField(bits, am, f) = GetField(word, lay, g)

\* A number read depends on the bits of its place only.
LEMMA FieldSame ==
    \A bits, word, am, f, lay, g, at :
        PlacedAlike(bits, word, am, f, lay, g, at) => ReadAlike(bits, word, am, f, lay, g)
<1> SUFFICES ASSUME NEW bits, NEW word, NEW am, NEW f, NEW lay, NEW g, NEW at,
                    PlacedAlike(bits, word, am, f, lay, g, at)
             PROVE  GetField(bits, am, f) = GetField(word, lay, g)
  BY DEF ReadAlike
<1> DEFINE T(x) == [b \in 0 .. 64 |-> IF b \notin at THEN 0 ELSE bits[b] + 2 * x[b + 1]]
           U(x) == [b \in 0 .. 64 |-> IF b \notin at THEN 0 ELSE word[b] + 2 * x[b + 1]]
<1>1. \A x : T(x) = U(x)  BY DEF PlacedAlike
<1>2. \A x : x = T(x) <=> x = U(x)  BY <1>1
<1>3. GetField(bits, am, f) = (CHOOSE x : x = T(x))[Min(at)]  BY DEF GetField, PlacedAlike
<1>4. GetField(word, lay, g) = (CHOOSE x : x = U(x))[Min(at)]  BY DEF GetField, PlacedAlike
<1> HIDE DEF T, U
<1>5. (CHOOSE x : x = T(x)) = (CHOOSE x : x = U(x))  BY <1>2
<1> QED BY <1>3, <1>4, <1>5

\* The instruction is where the scan looks.
LiesAt(d, o, i) ==
    /\ d \in Seq(0 .. 255) /\ o \in Nat /\ o + SizeOf(i) <= Len(d)
    /\ SubSeq(d, o + 1, o + SizeOf(i)) = BinaryOf(i)

\* The scan finds a small instruction by its truncated opcode and has its first register,
\* and finds no row for a large one.
LEMMA ScannedAs ==
    ASSUME NEW d, NEW o, NEW i, Encodable(i), i.op \notin Shadowed, LiesAt(d, o, i),
           NEW am, am = TY_AM[i.op]
    PROVE  /\ am \in SmallModes =>
                 /\ Scan_inst(d, o).row # NoRow /\ Scan_inst(d, o).row.name = ListedAs(i.op)
                 /\ am # "AM32" => Rd(Scan_inst(d, o).am, "AM32_R") = i.rd
           /\ am \notin SmallModes => Scan_inst(d, o).row = NoRow
<1>1. PICK word : word = BitsOf(SubSeq(d, o + 1, o + 4))  OBVIOUS
<1>2. PICK bits : bits = BitsOf(BinaryOf(i))  OBVIOUS
<1>3. /\ \A b \in 0 .. 31 : bits[b] = word[b]
      /\ \A b \in 0 .. 31 : word[b] \in {0, 1}
  <2>1. PICK z \in {4, 8} : z = SizeOf(i)  BY Sizes
  <2>2. d \in Seq(0 .. 255) /\ o \in Nat /\ o + z <= Len(d) /\ SubSeq(d, o + 1, o + z) = BinaryOf(i)
    BY <2>1 DEF LiesAt
  <2>3. \A b \in 0 .. 31 : /\ BitsOf(SubSeq(d, o + 1, o + 4))[b] = BitsOf(SubSeq(d, o + 1, o + z))[b]
                           /\ BitsOf(SubSeq(d, o + 1, o + 4))[b] \in {0, 1}
    BY <2>2, WordAgrees
  <2> QED BY <1>1, <1>2, <2>2, <2>3, Zenon
<1>4. FieldsBack(i, bits)  BY <1>2, ReadsBack
<1>5. i.op \in DOMAIN TY_AM  BY EncodedIs
<1>6. am \in RowModes  BY <1>5, RowOf
<1>7. PICK code : code = UwinstRow[i.op].uwasm_op  OBVIOUS
<1>8. code \in 0 .. 255  BY <1>5, <1>7, RowOf
<1>9. PICK mn : mn = GetField(word, "AM32", "mn")  OBVIOUS
<1>10. PICK mn2 : mn2 = GetField(word, "AM64_R_R_R", "mn2")  OBVIOUS
<1>11. PICK opcode : opcode = IF GetField(word, "AM32", "b32") = 0 THEN mn
                              ELSE 2^15 + 2^14 * (mn % 2) + mn2
  OBVIOUS
<1>12. Scan_inst(d, o) = [row |-> UOPCODE_inst(opcode), am |-> word]
  BY <1>1, <1>9, <1>10, <1>11, Zenon DEF Scan_inst
<1>13. /\ Scan_inst(d, o).row = UOPCODE_inst(opcode)
       /\ Scan_inst(d, o).am = word
  <2>1. PICK found : found = UOPCODE_inst(opcode)  OBVIOUS
  <2>2. Scan_inst(d, o) = [row |-> found, am |-> word]  BY <1>12, <2>1, Zenon
  <2> QED BY <2>1, <2>2
<1>14. GetField(word, "AM32", "b32") = IF am \in SmallModes THEN 0 ELSE 1
  <2>1. FieldBits[am]["b32"] = 0 .. 0 /\ FieldBits["AM32"]["b32"] = 0 .. 0  BY <1>6, SamePlaces, Zenon
  <2>2. \A b \in 0 .. 0 : bits[b] = word[b]  BY <1>3
  <2>3. GetField(bits, am, "b32") = GetField(word, "AM32", "b32")
    <3>1. PlacedAlike(bits, word, am, "b32", "AM32", "b32", 0 .. 0)  BY <2>1, <2>2, Zenon DEF PlacedAlike
    <3> QED BY <3>1, FieldSame DEF ReadAlike
  <2>4. GetField(bits, am, "b32") = IF am \in SmallModes THEN 0 ELSE 1
    BY <1>4, Zenon DEF FieldsBack
  <2> QED BY <2>3, <2>4, Zenon
<1>15. CASE am \in SmallModes
  <2>1. mn = code % 128
    <3>1. FieldBits[am]["mn"] = 1 .. 7 /\ FieldBits["AM32"]["mn"] = 1 .. 7
      BY <1>6, <1>15, SamePlaces, Zenon
    <3>2. \A b \in 1 .. 7 : bits[b] = word[b]  BY <1>3
    <3>3. GetField(bits, am, "mn") = GetField(word, "AM32", "mn")
      <4>1. PlacedAlike(bits, word, am, "mn", "AM32", "mn", 1 .. 7)  BY <3>1, <3>2, Zenon DEF PlacedAlike
      <4> QED BY <4>1, FieldSame DEF ReadAlike
    <3>4. GetField(bits, am, "mn") = code % 128  BY <1>4, <1>7, <1>15, Zenon DEF FieldsBack
    <3> QED BY <1>9, <3>3, <3>4, Zenon
  <2>2. opcode = code % 128  BY <1>11, <1>14, <1>15, <2>1, Zenon
  <2>3. UOPCODE_inst(code % 128) # NoRow /\ UOPCODE_inst(code % 128).name = ListedAs(i.op)
    BY <1>5, <1>7, <1>15, ListedRow
  <2>4. ASSUME am # "AM32" PROVE Rd(word, "AM32_R") = i.rd
    <3>1. am \in Regs32 /\ am \notin Regs64 /\ "AM32_R" \in Regs32 /\ "AM32_R" \notin Regs64
      BY <1>15, <2>4 DEF SmallModes, Regs32, Regs64
    <3>2. Rd(bits, am) = i.rd  BY <1>4, <2>4, Zenon DEF FieldsBack
    <3>3. Rd(bits, am) = GetField(bits, "AM32_R", "rd")  BY <3>1, Zenon DEF Rd
    <3>4. Rd(word, "AM32_R") = GetField(word, "AM32_R", "rd")  BY <3>1, Zenon DEF Rd
    <3>5. FieldBits["AM32_R"]["rd"] = 8 .. 17  BY Places_32_R, Zenon
    <3>6. \A b \in 8 .. 17 : bits[b] = word[b]  BY <1>3
    <3>7. GetField(bits, "AM32_R", "rd") = GetField(word, "AM32_R", "rd")
      <4>1. PlacedAlike(bits, word, "AM32_R", "rd", "AM32_R", "rd", 8 .. 17)
        BY <3>5, <3>6, Zenon DEF PlacedAlike
      <4> QED BY <4>1, FieldSame DEF ReadAlike
    <3> QED BY <3>2, <3>3, <3>4, <3>7, Zenon
  <2> QED BY <1>13, <1>15, <2>2, <2>3, <2>4, Zenon
<1>16. CASE am \notin SmallModes
  <2>1. mn2 = code
    <3>1. FieldBits[am]["mn2"] = 8 .. 15 /\ FieldBits["AM64_R_R_R"]["mn2"] = 8 .. 15
      BY <1>6, <1>16, SamePlaces, Zenon
    <3>2. \A b \in 8 .. 15 : bits[b] = word[b]  BY <1>3
    <3>3. GetField(bits, am, "mn2") = GetField(word, "AM64_R_R_R", "mn2")
      <4>1. PlacedAlike(bits, word, am, "mn2", "AM64_R_R_R", "mn2", 8 .. 15)
        BY <3>1, <3>2, Zenon DEF PlacedAlike
      <4> QED BY <4>1, FieldSame DEF ReadAlike
    <3>4. GetField(bits, am, "mn2") = code  BY <1>4, <1>7, <1>16, Zenon DEF FieldsBack
    <3> QED BY <1>10, <3>3, <3>4, Zenon
  <2>2. mn \in Nat
    <3>1. \A b \in 1 .. 7 : word[b] \in {0, 1}  BY <1>3
    <3> QED BY <1>9, <3>1, OpcodeNat, Zenon
  <2>3. opcode = 2^15 + 2^14 * (mn % 2) + code
    <3>1. 1 # 0  OBVIOUS
    <3> QED BY <1>11, <1>14, <1>16, <2>1, <3>1, Zenon
  <2>4. opcode \notin 0 .. 255
    <3>1. PICK q \in {0, 1} : q = mn % 2  BY <2>2
    <3>2. opcode = 2^15 + 2^14 * q + code  BY <2>3, <3>1
    <3> QED BY <1>8, <3>2
  <2>5. opcode \notin DOMAIN ByUwasm
    <3>1. DOMAIN ByUwasm = {row["uwasm_op"] : row \in ToSet(UWASM_META_INFO)}
      BY DEF ByUwasm, FirstRows
    <3> QED BY <2>4, <3>1, RowCodes
  <2>6. UOPCODE_inst(opcode) = NoRow  BY <2>5, Zenon DEF UOPCODE_inst
  <2> QED BY <1>13, <1>16, <2>6, Zenon
<1> QED BY <1>15, <1>16

-----------------------------------------------------------------------------
(* The listing.                                                              *)

\* A small instruction is found where it lies, and a large one is not.
FoundAt(d, o, i) ==
    LET scanned == Scan_inst(d, o)
        am      == TY_AM[i.op]
    IN  IF am \in SmallModes
        THEN /\ scanned.row # NoRow /\ scanned.row.name = ListedAs(i.op)
             /\ am # "AM32" => Rd(scanned.am, "AM32_R") = i.rd
        ELSE scanned.row = NoRow

\* What was scanned at the n-th four bytes of the file.
FoundFourth(n) == Scan_inst(disk, 4 * (n - 1))

AllRows(q) == \A n \in 1 .. q : FoundFourth(n).row # NoRow

\* It ended at the end of what is listed, or where nothing is found.
EndsWell ==
    stage = "ended" => \/ streams = <<>>
                       \/ list_pc >= Min({Len(disk), ListSize})
                       \/ Scan_inst(disk, list_pc).row = NoRow

\* The listing holds what is found at the first bytes of the file, four at a time, and
\* it ends where nothing is.
ListedInv ==
    /\ \E q \in Nat : /\ list_pc = 4 * q
                      /\ listing = [n \in 1 .. q |-> FoundFourth(n)]
                      /\ AllRows(q)
    /\ EndsWell

\* In a file that starts with a stream's code, each of its instructions is found.
LEMMA AllFound ==
    ASSUME StreamsInv, DiskInv, EncInv, NEW s \in DOMAIN streams, Whole(streams[s]),
           NEW insts, insts = streams[s].insts
    PROVE  /\ Len(insts) \in Nat /\ DOMAIN insts = 1 .. Len(insts)
           /\ \A m \in DOMAIN insts :
                 /\ FoundAt(disk, CodeOffset(insts, m), insts[m])
                 /\ CodeOffset(insts, m) \in Nat
                 /\ CodeOffset(insts, m + 1) = CodeOffset(insts, m) + SizeOf(insts[m])
                 /\ CodeOffset(insts, m + 1) <= Len(disk)
<1>1. PICK st : st = streams[s]  OBVIOUS
<1>2. st.insts \in Seq(UWASM_INST) /\ st.code = UBH_Print(st.insts) /\ insts = st.insts
  BY <1>1, StreamFacts
<1>3. Len(insts) \in Nat /\ DOMAIN insts = 1 .. Len(insts)  BY <1>2, SeqBasics
<1>4. PICK l : l = Len(UBH_Print(insts))  OBVIOUS
<1>5. l = CodeSize(st) /\ l \in Nat
  <2>1. l = CodeOffset(insts, Len(insts) + 1)  BY <1>2, <1>4, CodeFacts
  <2>2. l \in Nat  BY <1>2, <1>4, CodeFacts, SeqBasics
  <2> QED BY <1>2, <2>1, <2>2 DEF CodeSize
<1>6. /\ l <= Len(disk)
      /\ \A m \in DOMAIN insts : SubSeq(disk, CodeOffset(insts, m) + 1, CodeOffset(insts, m + 1))
                                    = BinaryOf(insts[m])
  BY <1>1, <1>2, <1>5 DEF Whole
<1>7. disk \in Seq(0 .. 255) /\ Len(disk) \in Nat  BY SeqBasics DEF DiskInv
<1>8. ASSUME NEW m \in DOMAIN insts
      PROVE  /\ FoundAt(disk, CodeOffset(insts, m), insts[m])
             /\ CodeOffset(insts, m) \in Nat
             /\ CodeOffset(insts, m + 1) = CodeOffset(insts, m) + SizeOf(insts[m])
             /\ CodeOffset(insts, m + 1) <= Len(disk)
  <2>1. PICK o, e, i : o = CodeOffset(insts, m) /\ e = CodeOffset(insts, m + 1) /\ i = insts[m]
    OBVIOUS
  <2>2. o \in Nat /\ e = o + SizeOf(i) /\ e <= l  BY <1>2, <1>4, <2>1, CodeFacts
  <2>3. SizeOf(i) \in Nat  BY Sizes
  <2>4. e <= Len(disk)  BY <1>5, <1>6, <1>7, <2>2, <2>3
  <2>5. SubSeq(disk, o + 1, o + SizeOf(i)) = BinaryOf(i)  BY <1>6, <2>1, <2>2
  <2>6. LiesAt(disk, o, i)  BY <1>7, <2>2, <2>4, <2>5 DEF LiesAt
  <2>7. Encodable(i)  BY <1>1, <1>2, <2>1, Zenon DEF EncInv
  <2>8. i.op \notin Shadowed  BY <2>7 DEF Encodable
  <2>9. FoundAt(disk, o, i)  BY <2>6, <2>7, <2>8, ScannedAs DEF FoundAt
  <2> QED BY <2>1, <2>2, <2>4, <2>9
<1> QED BY <1>3, <1>8

\* The instructions are found where they lie.
FoundAlong(insts, l, at) ==
    /\ at[1] = 0
    /\ \A m \in 1 .. l : /\ at[m + 1] = at[m] + SizeOf(insts[m])
                         /\ FoundAt(disk, at[m], insts[m])

\* As long as the listing goes on, the instructions of the stream lie four bytes apart.
LEMMA FourApart ==
    ASSUME NEW insts, NEW q \in Nat, NEW l \in Nat, NEW at, FoundAlong(insts, l, at),
           AllRows(q)
    PROVE  \A k \in Nat : k + 1 <= l /\ k <= q => at[k + 1] = 4 * k
<1> DEFINE S == {k \in Nat : k + 1 <= l /\ k <= q => at[k + 1] = 4 * k}
<1>1. 0 \in S  BY DEF FoundAlong
<1>2. ASSUME NEW k \in Nat, k \in S PROVE k + 1 \in S
  <2> SUFFICES ASSUME k + 2 <= l, k + 1 <= q PROVE at[k + 2] = 4 * (k + 1)
    <3>1. k + 1 \in Nat /\ k + 1 + 1 = k + 2  OBVIOUS
    <3> QED BY <3>1
  <2>1. k + 1 \in 1 .. l /\ k + 1 \in 1 .. q /\ k + 1 - 1 = k /\ k + 1 + 1 = k + 2  OBVIOUS
  <2>2. at[k + 1] = 4 * k  BY <1>2, <2>1
  <2>3. PICK m \in 1 .. l : m = k + 1  BY <2>1
  <2>4. at[k + 2] = at[m] + SizeOf(insts[m]) /\ FoundAt(disk, at[m], insts[m])
    <3>1. at[m + 1] = at[m] + SizeOf(insts[m]) /\ FoundAt(disk, at[m], insts[m])
      BY DEF FoundAlong
    <3> QED BY <2>1, <2>3, <3>1
  <2>5. FoundFourth(m).row # NoRow  BY <2>1, <2>3 DEF AllRows
  <2>6. Scan_inst(disk, at[m]).row # NoRow
    <3>1. 4 * (m - 1) = at[m]  BY <2>1, <2>2, <2>3
    <3> QED BY <2>5, <3>1, Zenon DEF FoundFourth
  <2>7. TY_AM[insts[m].op] \in SmallModes  BY <2>4, <2>6, Zenon DEF FoundAt
  <2>8. SizeOf(insts[m]) = 4  BY <2>7, Zenon DEF SizeOf, InstSize
  <2>9. at[m] = 4 * k  BY <2>2, <2>3
  <2>10. at[k + 2] = 4 * k + 4  BY <2>4, <2>8, <2>9
  <2> QED BY <2>10
<1> HIDE DEF S
<1>3. Nat \subseteq S  BY <1>1, <1>2, SetInduction
<1> QED BY <1>3 DEF S

\* The listing and the first instructions of a stream that the file starts with.
ListsStream(insts) ==
    LET both == 1 .. Min({Len(listing), Len(insts)})
    IN  /\ \A n \in both : /\ listing[n].row.name = ListedAs(insts[n].op)
                           /\ TY_AM[insts[n].op] \in SmallModes
        /\ \A n \in both : TY_AM[insts[n].op] # "AM32" =>
              Rd(listing[n].am, "AM32_R") = insts[n].rd
        /\ (stage = "ended" /\ Len(listing) < Len(insts) /\ 4 * (Len(listing) + 1) <= ListSize) =>
              TY_AM[insts[Len(listing) + 1].op] \notin SmallModes

\* They match.
LEMMA StreamListed ==
    ASSUME StreamsInv, DiskInv, EncInv, ListedInv, NEW s \in DOMAIN streams, Whole(streams[s])
    PROVE  ListsStream(streams[s].insts)
<1>1. PICK insts : insts = streams[s].insts  OBVIOUS
<1>2. PICK l \in Nat : l = Len(insts)  BY <1>1, AllFound
<1>3. PICK q \in Nat : /\ list_pc = 4 * q
                       /\ listing = [n \in 1 .. q |-> FoundFourth(n)]
                       /\ AllRows(q)
  BY DEF ListedInv
<1>4. Len(listing) = q  BY <1>3
<1>5. \A n \in 1 .. q : listing[n] = FoundFourth(n)  BY <1>3
<1> DEFINE at == [m \in Nat |-> CodeOffset(insts, m)]
<1>6. at[1] = 0
  <2>1. CodeOffset(insts, 1) = 0  BY OffsetNext
  <2> QED BY <2>1
<1>7. \A m \in 1 .. l : /\ at[m + 1] = at[m] + SizeOf(insts[m])
                        /\ FoundAt(disk, at[m], insts[m])
                        /\ at[m] \in Nat /\ at[m + 1] <= Len(disk)
  <2>1. ASSUME NEW m \in 1 .. l
        PROVE  /\ FoundAt(disk, CodeOffset(insts, m), insts[m])
               /\ CodeOffset(insts, m) \in Nat
               /\ CodeOffset(insts, m + 1) = CodeOffset(insts, m) + SizeOf(insts[m])
               /\ CodeOffset(insts, m + 1) <= Len(disk)
    BY <1>1, <1>2, AllFound
  <2>2. \A m \in 1 .. l : m \in Nat /\ m + 1 \in Nat  OBVIOUS
  <2> QED BY <2>1, <2>2
<1> HIDE DEF at
<1>8. \A k \in Nat : k + 1 <= l /\ k <= q => at[k + 1] = 4 * k
  <2>1. FoundAlong(insts, l, at)  BY <1>6, <1>7 DEF FoundAlong
  <2> QED BY <1>3, <2>1, FourApart
<1>9. Min({q, l}) \in Nat /\ Min({q, l}) <= q /\ Min({q, l}) <= l
  <2>1. {q, l} \subseteq Nat /\ {q, l} # {}  OBVIOUS
  <2>2. Min({q, l}) \in {q, l} /\ \A x \in {q, l} : Min({q, l}) <= x  BY <2>1, MinIn
  <2> QED BY <2>1, <2>2
<1>10. ASSUME NEW n \in 1 .. Min({q, l})
       PROVE  /\ listing[n].row.name = ListedAs(insts[n].op)
              /\ TY_AM[insts[n].op] \in SmallModes
              /\ TY_AM[insts[n].op] # "AM32" => Rd(listing[n].am, "AM32_R") = insts[n].rd
  <2>1. n \in 1 .. q /\ n \in 1 .. l /\ n - 1 \in Nat /\ n - 1 + 1 = n /\ n - 1 <= q  BY <1>9
  <2>2. at[n] = 4 * (n - 1)
    <3>1. PICK k \in Nat : k = n - 1  BY <2>1
    <3>2. k + 1 = n /\ k + 1 <= l /\ k <= q  BY <2>1, <3>1
    <3>3. at[k + 1] = 4 * k  BY <1>8, <3>2
    <3> QED BY <3>1, <3>2, <3>3
  <2>3. listing[n] = Scan_inst(disk, at[n])  BY <1>5, <2>1, <2>2, Zenon DEF FoundFourth
  <2>4. listing[n].row # NoRow  BY <1>3, <1>5, <2>1 DEF AllRows
  <2>5. FoundAt(disk, at[n], insts[n])  BY <1>7, <2>1
  <2>6. TY_AM[insts[n].op] \in SmallModes  BY <2>3, <2>4, <2>5, Zenon DEF FoundAt
  <2> QED BY <2>3, <2>5, <2>6, Zenon DEF FoundAt
<1>11. ASSUME stage = "ended", q < l, 4 * (q + 1) <= ListSize,
              TY_AM[insts[q + 1].op] \in SmallModes
       PROVE  FALSE
  <2>1. q + 1 \in 1 .. l /\ q + 1 <= l /\ q <= q  BY <1>11
  <2>2. at[q + 1] = 4 * q  BY <1>8, <2>1
  <2>3. PICK m \in 1 .. l : m = q + 1  BY <2>1
  <2>4. FoundAt(disk, 4 * q, insts[m])  BY <1>7, <2>2, <2>3
  <2>5. Scan_inst(disk, list_pc).row # NoRow
    <3>1. Scan_inst(disk, 4 * q).row # NoRow  BY <1>11, <2>3, <2>4, Zenon DEF FoundAt
    <3> QED BY <1>3, <3>1
  <2>6. 4 * q + 4 <= Len(disk)
    <3>1. at[m + 1] = at[m] + SizeOf(insts[m]) /\ at[m + 1] <= Len(disk)  BY <1>7
    <3>2. SizeOf(insts[m]) = 4  BY <1>11, <2>3, Zenon DEF SizeOf, InstSize
    <3> QED BY <2>2, <2>3, <3>1, <3>2
  <2>7. list_pc < Min({Len(disk), ListSize})
    <3>1. PICK d \in Nat : d = Len(disk)
      <4>1. Len(disk) \in Nat  BY SeqBasics DEF DiskInv
      <4> QED BY <4>1
    <3>2. PICK z \in Nat : z = ListSize  BY DriverAssumption
    <3>3. {d, z} \subseteq Nat /\ {d, z} # {}  OBVIOUS
    <3>4. Min({d, z}) \in {d, z}  BY <3>3, MinIn
    <3>5. 4 * q < d /\ 4 * q < z  BY <1>11, <2>6, <3>1, <3>2
    <3>6. 4 * q < Min({d, z})  BY <3>4, <3>5
    <3> QED BY <1>3, <3>1, <3>2, <3>6
  <2>8. streams # <<>>  OBVIOUS
  <2>9. Min({Len(disk), ListSize}) \in Nat
    <3>1. {Len(disk), ListSize} \subseteq Nat /\ {Len(disk), ListSize} # {}
      BY DriverAssumption, SeqBasics DEF DiskInv
    <3> QED BY <3>1, MinIn
  <2>10. list_pc \in Nat  BY <1>3
  <2>11. ~(list_pc >= Min({Len(disk), ListSize}))  BY <2>7, <2>9, <2>10
  <2> QED BY <1>11, <2>5, <2>8, <2>11 DEF ListedInv, EndsWell
<1>12. ListsStream(insts)
  <2>1. \A n \in 1 .. Min({q, l}) :
            /\ listing[n].row.name = ListedAs(insts[n].op)
            /\ TY_AM[insts[n].op] \in SmallModes
            /\ TY_AM[insts[n].op] # "AM32" => Rd(listing[n].am, "AM32_R") = insts[n].rd
    BY <1>10
  <2>2. (stage = "ended" /\ q < l /\ 4 * (q + 1) <= ListSize) =>
            TY_AM[insts[q + 1].op] \notin SmallModes
    BY <1>11
  <2> QED BY <1>2, <1>4, <2>1, <2>2, Zenon DEF ListsStream
<1> QED BY <1>1, <1>12

\* A step that lists nothing, and that changes the file only before there is a listing.
LEMMA ListingKept ==
    ASSUME ListedInv, UNCHANGED <<listing, list_pc>>,
           \/ UNCHANGED disk
           \/ list_pc = 0,
           EndsWell'
    PROVE  ListedInv'
<1>1. PICK q \in Nat : /\ list_pc = 4 * q /\ listing = [n \in 1 .. q |-> FoundFourth(n)]
                       /\ AllRows(q)
  BY DEF ListedInv
<1>2. listing' = [n \in 1 .. q |-> FoundFourth(n)'] /\ AllRows(q)'
  <2>1. CASE UNCHANGED disk
    <3>1. \A n : FoundFourth(n)' = FoundFourth(n)  BY <2>1 DEF FoundFourth
    <3> QED BY <1>1, <3>1 DEF AllRows
  <2>2. CASE list_pc = 0
    <3>1. q = 0  BY <1>1, <2>2
    <3>2. 1 .. q = {}  BY <3>1
    <3>3. listing = [n \in {} |-> FoundFourth(n)] /\ AllRows(q)'  BY <1>1, <3>2 DEF AllRows
    <3> QED BY <3>2, <3>3
  <2> QED BY <2>1, <2>2
<1>3. list_pc' = 4 * q  BY <1>1
<1> QED BY <1>2, <1>3 DEF ListedInv

\* Four bytes more.
LEMMA ListingGrows ==
    ASSUME ListedInv, ListInst
    PROVE  ListedInv'
<1>1. PICK q \in Nat : /\ list_pc = 4 * q /\ listing = [n \in 1 .. q |-> FoundFourth(n)]
                       /\ AllRows(q)
  BY DEF ListedInv
<1>2. PICK found : found = Scan_inst(disk, list_pc)  OBVIOUS
<1>3. /\ stage' = "list" /\ UNCHANGED disk /\ list_pc' = list_pc + 4
      /\ found.row # NoRow /\ listing' = Append(listing, found)
  BY <1>2 DEF ListInst, Lists
<1>4. FoundFourth(q + 1) = found
  <2>1. PICK o : o = 4 * (q + 1 - 1)  OBVIOUS
  <2>2. o = list_pc  BY <1>1, <2>1
  <2>3. FoundFourth(q + 1) = Scan_inst(disk, o)
    <3>1. \A n : FoundFourth(n) = Scan_inst(disk, 4 * (n - 1))  BY Zenon DEF FoundFourth
    <3> QED BY <2>1, <3>1
  <2> QED BY <1>2, <2>2, <2>3, Zenon
<1>5. \A n : FoundFourth(n)' = FoundFourth(n)  BY <1>3 DEF FoundFourth
<1>6. AllRows(q + 1)'
  <2>1. \A n \in 1 .. q + 1 : n \in 1 .. q \/ n = q + 1  OBVIOUS
  <2> QED BY <1>1, <1>3, <1>4, <1>5, <2>1 DEF AllRows
<1>7. listing' = [n \in 1 .. q + 1 |-> FoundFourth(n)]
  <2> DEFINE V == {FoundFourth(n) : n \in 1 .. q + 1}
  <2>1. listing \in Seq(V) /\ Len(listing) = q /\ found \in V
    <3>1. \A n \in 1 .. q : FoundFourth(n) \in V
      <4>1. \A n \in 1 .. q : n \in 1 .. q + 1  OBVIOUS
      <4> QED BY <4>1
    <3>2. found \in V
      <4>1. q + 1 \in 1 .. q + 1  OBVIOUS
      <4> QED BY <1>4, <4>1
    <3> HIDE DEF V
    <3>3. listing \in [1 .. q -> V]  BY <1>1, <3>1
    <3> QED BY <3>2, <3>3
  <2> HIDE DEF V
  <2>2. PICK after : after = Append(listing, found)  OBVIOUS
  <2>3. /\ after \in Seq(V) /\ Len(after) = q + 1 /\ after[q + 1] = found
        /\ \A n \in 1 .. q : after[n] = listing[n]
    BY <2>1, <2>2, AppendProperties
  <2>4. after = [n \in 1 .. q + 1 |-> after[n]]  BY <2>3
  <2>5. \A n \in 1 .. q + 1 : after[n] = FoundFourth(n)
    <3>1. \A n \in 1 .. q + 1 : n \in 1 .. q \/ n = q + 1  OBVIOUS
    <3>2. \A n \in 1 .. q : listing[n] = FoundFourth(n)  BY <1>1
    <3> QED BY <1>4, <2>3, <3>1, <3>2
  <2> QED BY <1>3, <2>2, <2>4, <2>5
<1>8. listing' = [n \in 1 .. q + 1 |-> FoundFourth(n)']  BY <1>5, <1>7
<1>9. q + 1 \in Nat /\ list_pc' = 4 * (q + 1)  BY <1>1, <1>3
<1>10. EndsWell'  BY <1>3 DEF EndsWell
<1> QED BY <1>6, <1>8, <1>9, <1>10, Zenon DEF ListedInv

\* Nothing is listed at first.
LEMMA ListedInvInit == DriverInit => ListedInv
<1> SUFFICES ASSUME DriverInit PROVE ListedInv
  OBVIOUS
<1>1. stage = "func" /\ listing = <<>> /\ list_pc = 0  BY DEF DriverInit
<1>2. 1 .. 0 = {}  OBVIOUS
<1>3. listing = [n \in 1 .. 0 |-> FoundFourth(n)] /\ AllRows(0) /\ list_pc = 4 * 0
  BY <1>1, <1>2 DEF AllRows
<1>4. EndsWell  BY <1>1 DEF EndsWell
<1> QED BY <1>3, <1>4 DEF ListedInv

\* And the listing only grows by what is found.
LEMMA ListedInvNext ==
    ASSUME FileInv, ListedInv, [DriverNext]_programVars
    PROVE  ListedInv'
<1>1. stage \notin {"list", "ended"} => list_pc = 0  BY DEF FileInv, ListInv
<1>2. CASE ListInst  BY <1>2, ListingGrows
<1>3. CASE Emit_output
  <2>1. UNCHANGED <<listing, list_pc>> /\ stage = "convert" /\ stage' = "run"
    BY <1>3 DEF Emit_output
  <2> QED BY <1>1, <2>1, ListingKept DEF EndsWell
<1>4. CASE Flush
  <2>1. UNCHANGED <<listing, list_pc>> /\ stage = "exit" /\ stage' = "exit"
    BY <1>4 DEF Flush, FlushStream
  <2> QED BY <1>1, <2>1, ListingKept DEF EndsWell
<1>5. CASE ListAborts
  <2>1. UNCHANGED <<listing, list_pc, disk>> /\ Scan_inst(disk, list_pc).row = NoRow
    BY <1>5 DEF ListAborts, Go
  <2>2. Scan_inst(disk', list_pc').row = NoRow  BY <2>1
  <2> QED BY <2>1, <2>2, ListingKept DEF EndsWell
<1>6. CASE ListEnds
  <2>1. UNCHANGED <<listing, list_pc, disk>> /\ list_pc >= Min({Len(disk), ListSize})
    BY <1>6 DEF ListEnds, Go
  <2>2. list_pc' >= Min({Len(disk'), ListSize})  BY <2>1
  <2> QED BY <2>1, <2>2, ListingKept DEF EndsWell
<1>7. CASE ProcessGone
  <2>1. UNCHANGED <<listing, list_pc, disk>> /\ (stage' = "ended" => streams' = <<>>)
    BY <1>7 DEF ProcessGone, Go
  <2> QED BY <2>1, ListingKept DEF EndsWell
<1>8. CASE \/ SkipImport \/ StartScan \/ Return0 \/ Next_func
           \/ ScanInst \/ ScanAborts \/ ScanRunsOut
           \/ StartConvert \/ Translate \/ ConvertStops \/ Run \/ RunStops
  <2>1. UNCHANGED <<listing, list_pc, disk>> /\ stage' # "ended"
    BY <1>8 DEF SkipImport, StartScan, Return0, Next_func, ScanInst, ScanAborts, ScanRunsOut,
          Scans, StartConvert, Translate, ConvertStops, Run, RunStops, Go, driverVars
  <2> QED BY <2>1, ListingKept DEF EndsWell
<1>9. CASE UNCHANGED programVars
  <2>1. UNCHANGED <<listing, list_pc, disk, stage, streams>>
    BY <1>9 DEF programVars, driverVars
  <2>2. EndsWell'  BY <2>1 DEF ListedInv, EndsWell
  <2> QED BY <2>1, <2>2, ListingKept
<1> QED BY <1>2, <1>3, <1>4, <1>5, <1>6, <1>7, <1>8, <1>9 DEF DriverNext

\* For every module: when the file starts with the whole code of a function, what
\* wasm2uwasm lists are the first instructions of that code, a mov under the name of
\* another row, and the listing has stopped before the first instruction of eight bytes.
THEOREM DriverListingMatches == DriverSpec => []ListingMatches
<1>1. FileInv /\ EncInv /\ ListedInv => ListingMatches
  <2> SUFFICES ASSUME FileInv, EncInv, ListedInv,
                      NEW s \in DOMAIN streams, Whole(streams[s])
               PROVE  ListsStream(streams[s].insts)
    BY Zenon DEF ListingMatches, ListsStream
  <2>1. StreamsInv /\ DiskInv  BY DEF FileInv
  <2> QED BY <2>1, StreamListed
<1>2. DriverSpec => [](ScanInv /\ HandlerInv /\ FileInv)  BY FileInvariant
<1>3. ScanInv /\ HandlerInv /\ FileInv /\ EncInv /\ [DriverNext]_programVars => EncInv'
  BY EncInvNext
<1>4. FileInv /\ ListedInv /\ [DriverNext]_programVars => ListedInv'  BY ListedInvNext
<1> QED BY <1>1, <1>2, <1>3, <1>4, EncInvInit, ListedInvInit, PTL DEF DriverSpec

-----------------------------------------------------------------------------
(* The temporaries.                                                          *)

\* The temporary an instruction makes, by its place among those that make one.
MadeBy(us, ts, n) == ts[Cardinality({m \in Makers(us) : m <= n})]

\* A register as its field holds it.
CutReg(r) == r % 2^REG_SIZE

\* The instruction names the temporary it made.
Names(us, ts, n) ==
    /\ Cardinality({m \in Makers(us) : m <= n}) \in 1 .. Len(ts)
    /\ MadeBy(us, ts, n).reg \in Nat
    /\ us[n].rd = CutReg(MadeBy(us, ts, n).reg)

\* Each instruction that makes a temporary names it, and no other temporary is there.
Made(us, ts) ==
    /\ IsFiniteSet(Makers(us)) /\ Len(ts) = Cardinality(Makers(us))
    /\ \A n \in Makers(us) : Names(us, ts, n)

\* A step that makes none.
LEMMA MadeQuiet ==
    ASSUME NEW S, NEW us \in Seq(S), NEW T, NEW vs \in Seq(T), Len(us) <= Len(vs),
           SameUpTo(us, vs, Len(us)),
           \A k \in DOMAIN vs : Len(us) < k => k \notin Makers(vs),
           NEW ts, Made(us, ts)
    PROVE  Made(vs, ts)
<1>1. /\ Len(us) \in Nat /\ Len(vs) \in Nat
      /\ DOMAIN us = 1 .. Len(us) /\ DOMAIN vs = 1 .. Len(vs)
  BY SeqBasics
<1>2. \A k \in DOMAIN us : k \in DOMAIN vs /\ vs[k] = us[k]  BY <1>1 DEF SameUpTo
<1>3. \A k \in DOMAIN vs : k \notin DOMAIN us => k \notin Makers(vs)  BY <1>1
<1>4. Makers(vs) = Makers(us) /\ \A k \in Makers(us) : vs[k] = us[k]
  BY <1>2, <1>3 DEF Makers
<1>5. \A k : MadeBy(vs, ts, k) = MadeBy(us, ts, k)  BY <1>4 DEF MadeBy
<1> QED BY <1>4, <1>5 DEF Made, Names

\* A step that makes one.
LEMMA MadeMore ==
    ASSUME NEW S, NEW us \in Seq(S), NEW i, i.op \in Arithmetic \cup {"I32Const", "I32Load"},
           NEW T, NEW ts \in Seq(T), NEW t, t.reg \in Nat, i.rd = CutReg(t.reg), Made(us, ts)
    PROVE  Made(Append(us, i), Append(ts, t))
<1> DEFINE vs == Append(us, i)
           rs == Append(ts, t)
<1>1. PICK n \in Nat : n = Len(us)  BY SeqBasics
<1>2. PICK q \in Nat : q = Len(ts)  BY SeqBasics
<1>3. /\ DOMAIN us = 1 .. n /\ DOMAIN vs = 1 .. n + 1
      /\ vs[n+1] = i /\ \A k \in 1 .. n : vs[k] = us[k]
  <2>1. us \in Seq(S \cup {i})  BY SeqWider
  <2> QED BY <1>1, <2>1, SeqBasics, AppendProperties
<1>4. /\ Len(rs) = q + 1 /\ rs[q+1] = t /\ \A k \in 1 .. q : rs[k] = ts[k]
  <2>1. ts \in Seq(T \cup {t})  BY SeqWider
  <2> QED BY <1>2, <2>1, SeqBasics, AppendProperties
<1> HIDE DEF vs, rs
<1>5. PICK M : M = Makers(us)  OBVIOUS
<1>6. Makers(vs) = M \cup {n + 1} /\ n + 1 \notin M /\ M \subseteq 1 .. n
  BY <1>3, <1>5 DEF Makers
<1>7. IsFiniteSet(M) /\ q = Cardinality(M)  BY <1>2, <1>5 DEF Made
<1>8. IsFiniteSet(Makers(vs)) /\ Cardinality(Makers(vs)) = q + 1
  <2>1. /\ IsFiniteSet(M \cup {n + 1})
        /\ Cardinality(M \cup {n + 1}) = IF n + 1 \in M THEN Cardinality(M) ELSE Cardinality(M) + 1
    BY <1>7, FS_AddElement, Zenon
  <2> QED BY <1>6, <1>7, <2>1
<1>9. ASSUME NEW k \in M PROVE Names(vs, rs, k)
  <2>1. k \in 1 .. n /\ vs[k] = us[k]  BY <1>3, <1>6
  <2>2. {m \in Makers(vs) : m <= k} = {m \in M : m <= k}  BY <1>6, <2>1
  <2>3. PICK c : c = Cardinality({m \in M : m <= k})  OBVIOUS
  <2>4. c \in 1 .. q /\ ts[c].reg \in Nat /\ us[k].rd = CutReg(ts[c].reg)
    BY <1>2, <1>5, <2>3 DEF Made, Names, MadeBy
  <2>5. c \in 1 .. Len(rs) /\ rs[c] = ts[c]  BY <1>4, <2>4
  <2>6. MadeBy(vs, rs, k) = ts[c]  BY <2>2, <2>3, <2>5 DEF MadeBy
  <2>7. us[k].rd = vs[k].rd  BY <2>1
  <2> QED BY <2>2, <2>3, <2>4, <2>5, <2>6, <2>7 DEF Names
<1>10. Names(vs, rs, n + 1)
  <2>1. {m \in Makers(vs) : m <= n + 1} = Makers(vs)
    <3>1. \A m \in Makers(vs) : m <= n + 1
      <4>1. \A m \in 1 .. n : m <= n + 1  BY <1>1
      <4>2. n + 1 <= n + 1  BY <1>1
      <4>3. \A m \in Makers(vs) : m \in 1 .. n \/ m = n + 1  BY <1>6
      <4> QED BY <4>1, <4>2, <4>3
    <3> QED BY <3>1
  <2>2. MadeBy(vs, rs, n + 1) = t  BY <1>4, <1>8, <2>1 DEF MadeBy
  <2>3. q + 1 \in 1 .. Len(rs)  BY <1>4
  <2>4. vs[n + 1].rd = CutReg(t.reg)  BY <1>3
  <2> QED BY <1>8, <2>1, <2>2, <2>3, <2>4 DEF Names
<1>11. \A k \in Makers(vs) : k \in M \/ k = n + 1  BY <1>6
<1>12. \A k \in Makers(vs) : Names(vs, rs, k)  BY <1>9, <1>10, <1>11
<1>13. Made(vs, rs)  BY <1>4, <1>8, <1>12 DEF Made
<1> QED BY <1>13 DEF vs, rs

\* None is made at first.
LEMMA MadeNone == Made(<<>>, <<>>)
<1>1. Makers(<<>>) = {}  BY DEF Makers
<1> QED BY <1>1, FS_EmptySet DEF Made

\* As an invariant of the translation.
MadeInv == Made(uinsts, temps)

\* One instruction more that makes none.
LEMMA MadeOne ==
    ASSUME CodeInv, MadeInv, temps' = temps, NEW i, uinsts' = Append(uinsts, i),
           i.op \notin Arithmetic \cup {"I32Const", "I32Load"}
    PROVE  MadeInv'
<1>1. PICK V : V = EncodedInst \cup {i}  OBVIOUS
<1>2. uinsts \in Seq(V) /\ i \in V /\ uinsts \in Seq(EncodedInst)
  BY <1>1, SeqWider DEF CodeInv
<1>3. PICK n \in Nat : n = Len(uinsts)  BY <1>2, SeqBasics
<1>4. PICK us : us = uinsts'  OBVIOUS
<1>5. /\ us \in Seq(V) /\ Len(us) = n + 1 /\ us[n+1] = i /\ \A k \in 1 .. n : us[k] = uinsts[k]
  BY <1>2, <1>3, <1>4, AppendProperties
<1>6. DOMAIN us = 1 .. n + 1  BY <1>5, SeqBasics
<1>7. SameUpTo(uinsts, us, Len(uinsts))  BY <1>3, <1>5 DEF SameUpTo
<1>8. \A k \in DOMAIN us : Len(uinsts) < k => k \notin Makers(us)
  <2>1. \A k \in DOMAIN us : Len(uinsts) < k => k = n + 1  BY <1>3, <1>6
  <2> QED BY <1>5, <2>1 DEF Makers
<1>9. Made(us, temps)  BY <1>2, <1>3, <1>5, <1>7, <1>8, MadeQuiet DEF MadeInv
<1> QED BY <1>4, <1>9 DEF MadeInv

\* A return emits two, and neither makes one.
LEMMA MadeReturn ==
    ASSUME CodeInv, MadeInv, Return
    PROVE  MadeInv'
<1>1. temps' = temps  BY DEF Return, ubhVars
<1>2. PICK i, j : /\ uinsts' = uinsts \o <<i, j>> /\ i.op = "URETURN"
                  /\ j = Rand_operand(UOPCODE_from_wasm["Return"])
  <2>1. PICK i, j : /\ uinsts' = uinsts \o <<i, j>> /\ i = UInst("URETURN", Top(1), -1, -1, -1)
                    /\ j = Rand_operand(UOPCODE_from_wasm["Return"])
    BY Zenon DEF Return
  <2>2. i.op = "URETURN"  BY <2>1, UInstOp
  <2> QED BY <2>1, <2>2
<1>3. {i.op, j.op} \cap (Arithmetic \cup {"I32Const", "I32Load"}) = {}
  <2>1. "Return" \in (DOMAIN UOPCODE_from_wasm \ Handled) \cup {"Return"}  OBVIOUS
  <2>2. j.op \notin OwnOps  BY <1>2, <2>1, CopiedOps
  <2> QED BY <1>2, <2>2 DEF OwnOps, Arithmetic
<1>4. PICK V : V = EncodedInst \cup {i, j}  OBVIOUS
<1>5. uinsts \in Seq(V) /\ uinsts \in Seq(EncodedInst)  BY <1>4, SeqWider DEF CodeInv
<1>6. <<i, j>> \in Seq(V) /\ Len(<<i, j>>) = 2 /\ <<i, j>>[1] = i /\ <<i, j>>[2] = j
  BY <1>4
<1>7. PICK n \in Nat : n = Len(uinsts)  BY <1>5, SeqBasics
<1>8. PICK us : us = uinsts'  OBVIOUS
<1>9. /\ us \in Seq(V) /\ Len(us) = n + 2
      /\ \A k \in 1 .. n + 2 : us[k] = IF k <= n THEN uinsts[k] ELSE <<i, j>>[k - n]
  BY <1>2, <1>5, <1>6, <1>7, <1>8, ConcatProperties
<1>10. DOMAIN us = 1 .. n + 2  BY <1>9, SeqBasics
<1>11. SameUpTo(uinsts, us, Len(uinsts))  BY <1>7, <1>9 DEF SameUpTo
<1>12. ASSUME NEW k \in DOMAIN us, Len(uinsts) < k PROVE k \notin Makers(us)
  <2>1. k = n + 1 \/ k = n + 2  BY <1>7, <1>10, <1>12
  <2>2. us[n + 1] = i /\ us[n + 2] = j
    <3>1. n + 1 \in 1 .. n + 2 /\ ~(n + 1 <= n) /\ n + 1 - n = 1  OBVIOUS
    <3>2. n + 2 \in 1 .. n + 2 /\ ~(n + 2 <= n) /\ n + 2 - n = 2  OBVIOUS
    <3> QED BY <1>6, <1>9, <3>1, <3>2
  <2> QED BY <1>3, <2>1, <2>2 DEF Makers
<1>13. Made(us, temps)  BY <1>5, <1>7, <1>9, <1>11, <1>12, MadeQuiet DEF MadeInv
<1> QED BY <1>1, <1>8, <1>13 DEF MadeInv

\* An instruction that makes one.
LEMMA MadeTemp ==
    ASSUME TransInv, CodeInv, MadeInv, Push_temp_reg("I32"), NEW op, NEW rs, NEW rt, NEW ofs,
           op \in Arithmetic \cup {"I32Const", "I32Load"},
           uinsts' = Append(uinsts, UInst(op, NextTemp("I32"), rs, rt, ofs))
    PROVE  MadeInv'
<1>1. PICK r \in Nat : r = NextTemp("I32")  BY NextFits
<1>2. PICK i : i = UInst(op, r, rs, rt, ofs)  OBVIOUS
<1>3. PICK t : t = [type |-> "I32", reg |-> r]  OBVIOUS
<1>4. uinsts' = Append(uinsts, i) /\ temps' = Append(temps, t)
  BY <1>1, <1>2, <1>3 DEF Push_temp_reg
<1>5. TY_AM[op] \in {"AM64_R_R_R", "AM64_R_OFS", "AM64_R_R_OFS"}  BY EmittedModes, Zenon
<1>6. i.op = op /\ i.rd = CutReg(r)
  <2>1. r # -1  OBVIOUS
  <2>2. i.op = op  BY <1>2, UInstOp
  <2>3. TY_AM[op] \in {"AM32_R", "AM32_R_R", "AM32_R_OFS", "AM64_R_R_R", "AM64_R_OFS", "AM64_R_R_OFS"}
    BY <1>5
  <2>4. i.rd = IF r # -1 /\ TY_AM[op] \in {"AM32_R", "AM32_R_R", "AM32_R_OFS",
                                           "AM64_R_R_R", "AM64_R_OFS", "AM64_R_R_OFS"}
               THEN r % 2^REG_SIZE ELSE 0
    BY <1>2, Zenon DEF UInst
  <2> QED BY <2>1, <2>2, <2>3, <2>4, Zenon DEF CutReg
<1>7. t.reg = r  BY <1>3
<1>8. PICK S, T : uinsts \in Seq(S) /\ temps \in Seq(T)
  BY DEF CodeInv, TransInv, UbhInv, UbhTypeOK
<1>9. Made(Append(uinsts, i), Append(temps, t))
  BY <1>6, <1>7, <1>8, MadeMore DEF MadeInv
<1> QED BY <1>4, <1>9 DEF MadeInv

\* Whatever the pass does.
LEMMA MadeInvNext ==
    ASSUME TransInv, CodeInv, MadeInv, [TransNext]_convVars
    PROVE  MadeInv'
<1>1. ASSUME UNCHANGED <<uinsts, temps>> PROVE MadeInv'
  BY <1>1 DEF MadeInv
<1>2. CASE Prepare
  <2>1. CASE ConstructStep /\ UNCHANGED <<hierVars, transVars>>
    <3>1. UNCHANGED temps
      BY <2>1 DEF ConstructStep, ParamsRead, ReadParam, ReadLocal, ReadF64Local, UnknownType,
                  LocalsRead, MapLocal
    <3> QED BY <1>1, <2>1, <3>1 DEF transVars
  <2>2. CASE HierNext /\ UNCHANGED <<ubhVars, transVars>>
    BY <1>1, <2>2 DEF transVars, ubhVars
  <2> QED BY <1>2, <2>1, <2>2 DEF Prepare
<1>3. CASE BranchAborts \/ NoRegister \/ BinaryAborts \/ NotInTable \/ PopsEmptyStack \/ EndOfPass
  BY <1>1, <1>3 DEF BranchAborts, NoRegister, BinaryAborts, NotInTable, PopsEmptyStack, EndOfPass,
                    Stop, ubhVars
<1>4. CASE NoJump \/ Skip \/ LocalGet
  BY <1>1, <1>4 DEF NoJump, Skip, LocalGet, Continue, ubhVars
<1>5. {"UJMP", "UJNZ", "UMOV", "I32Store"} \cap (Arithmetic \cup {"I32Const", "I32Load"}) = {}
  BY DEF Arithmetic
<1>6. CASE Jump
  <2>1. PICK i : uinsts' = Append(uinsts, i) /\ i.op = "UJMP" /\ temps' = temps
    BY <1>6, UInstOp DEF Jump, Emit, ubhVars
  <2> QED BY <1>5, <2>1, MadeOne
<1>7. CASE CondJump
  <2>1. PICK i : uinsts' = Append(uinsts, i) /\ i.op = "UJNZ" /\ temps' = temps
    BY <1>7, UInstOp DEF CondJump, Emit, ubhVars
  <2> QED BY <1>5, <2>1, MadeOne
<1>8. CASE LocalSetTee
  <2>1. PICK i : uinsts' = Append(uinsts, i) /\ i.op = "UMOV" /\ temps' = temps
    BY <1>8, UInstOp DEF LocalSetTee, Emit, ubhVars
  <2> QED BY <1>5, <2>1, MadeOne
<1>9. CASE I32Store
  <2>1. PICK i : uinsts' = Append(uinsts, i) /\ i.op = "I32Store" /\ temps' = temps
    BY <1>9, UInstOp DEF I32Store, Emit, ubhVars
  <2> QED BY <1>5, <2>1, MadeOne
<1>10. CASE Default
  <2>1. PICK i : uinsts' = Append(uinsts, i) /\ i = Rand_operand(UOPCODE_from_wasm[Cur.op])
    BY <1>10, Zenon DEF Default, Emit
  <2>2. Cur.op \in (DOMAIN UOPCODE_from_wasm \ Handled) \cup {"Return"} /\ temps' = temps
    BY <1>10 DEF Default, Translates, ubhVars
  <2>3. i.op \notin OwnOps  BY <2>1, <2>2, CopiedOps
  <2>4. i.op \notin Arithmetic \cup {"I32Const", "I32Load"}  BY <2>3 DEF OwnOps
  <2> QED BY <2>1, <2>2, <2>4, MadeOne
<1>11. CASE Return  BY <1>11, MadeReturn
<1>12. CASE I32Load
  BY <1>12, MadeTemp DEF I32Load, PushTempReg, Emit
<1>13. CASE I32Const
  BY <1>13, MadeTemp DEF I32Const, PushTempReg, Emit
<1>14. CASE Binary
  <2>1. Cur.op \in Arithmetic  BY <1>14 DEF Binary, Translates
  <2>2. Push_temp_reg("I32") /\ uinsts' = Append(uinsts, UInst(Cur.op, NextTemp("I32"), Top(1), Top(2), -1))
    BY <1>14, Zenon DEF Binary, PushTempReg, Emit
  <2> QED BY <2>1, <2>2, MadeTemp
<1>15. CASE UNCHANGED convVars
  BY <1>1, <1>15 DEF convVars, ubhVars, transVars
<1> QED BY <1>2, <1>3, <1>4, <1>6, <1>7, <1>8, <1>9, <1>10, <1>11, <1>12, <1>13, <1>14, <1>15
        DEF TransNext, TranslateStep

\* What is run is what the last stream was given.
RunStream == stage = "run" => streams # <<>> /\ Last(streams).insts = uinsts

\* None is made where a conversion starts.
LEMMA MadeInvStart == ExecStart => MadeInv
<1> SUFFICES ASSUME ExecStart PROVE MadeInv
  OBVIOUS
<1>1. uinsts = <<>> /\ temps = <<>>  BY DEF ExecStart, TransStart, UbhStart
<1> QED BY <1>1, MadeNone DEF MadeInv

\* A step of the program is one of the translation, or a new start.
LEMMA MadeStays ==
    ASSUME ScanInv, HandlerInv, MadeInv, [DriverNext]_programVars
    PROVE  MadeInv'
<1>1. CASE ExecStart'
  <2>1. uinsts' = <<>> /\ temps' = <<>>  BY <1>1 DEF ExecStart, TransStart, UbhStart
  <2> QED BY <2>1, MadeNone DEF MadeInv
<1>2. CASE [ExecNext]_allVars
  <2>1. [TransNext]_convVars  BY <1>2, RunTranslates
  <2> QED BY <2>1, MadeInvNext DEF HandlerInv, ConvInv
<1> QED BY <1>1, <1>2, DriverConverts

\* The run has a stream of its own.
LEMMA RunStreamNext ==
    ASSUME FileInv, RunStream, [DriverNext]_programVars
    PROVE  RunStream'
<1>1. ASSUME stage' = "run" => stage = "run", UNCHANGED <<streams, uinsts>> PROVE RunStream'
  BY <1>1 DEF RunStream, Last
<1>2. CASE Emit_output
  <2>1. PICK st : streams' = Append(streams, st) /\ st.insts = uinsts /\ uinsts' = uinsts
    BY <1>2 DEF Emit_output, allVars, convVars, transVars
  <2>2. PICK V : V = StreamSet \cup {st}  OBVIOUS
  <2>3. streams \in Seq(V) /\ st \in V  BY <2>2, SeqWider DEF FileInv, StreamsInv
  <2>4. PICK ss : ss = streams'  OBVIOUS
  <2>5. Len(streams) \in Nat /\ Len(ss) = Len(streams) + 1 /\ ss[Len(streams) + 1] = st
        /\ ss \in Seq(V)
    BY <2>1, <2>3, <2>4, AppendProperties, SeqBasics
  <2>6. Last(ss) = st  BY <2>5 DEF Last
  <2>7. ss # <<>>  BY <2>5
  <2> QED BY <2>1, <2>4, <2>6, <2>7 DEF RunStream
<1>3. CASE Run
  <2>1. UNCHANGED convVars
    BY <1>3 DEF Run, NewFrame, Execute_function_body, Execute_add, Execute_add64, Execute_const,
          Execute_ret, Execute_load, Execute_store, OutOfBounds, NotImplemented, EndOfBody, Step, Halt
  <2> QED BY <1>1, <1>3, <2>1 DEF Run, convVars, transVars, driverVars
<1>4. CASE SkipImport \/ StartScan \/ Return0 \/ Next_func \/ ScanInst \/ ScanAborts \/ ScanRunsOut
  BY <1>1, <1>4 DEF SkipImport, StartScan, Return0, Next_func, ScanInst, ScanAborts, ScanRunsOut,
                    Scans, Go, allVars, convVars, transVars
<1>5. CASE StartConvert \/ Translate
  <2>1. stage' = "convert"  BY <1>5 DEF StartConvert, Translate, driverVars
  <2> QED BY <2>1 DEF RunStream
<1>6. CASE ConvertStops \/ RunStops
  <2>1. stage' # "run"  BY <1>6 DEF ConvertStops, RunStops, Go
  <2> QED BY <2>1 DEF RunStream
<1>7. CASE Flush \/ ProcessGone \/ ListInst \/ ListAborts \/ ListEnds
  <2>1. stage' # "run"
    BY <1>7 DEF Flush, FlushStream, ProcessGone, ListInst, ListAborts, ListEnds, Lists, Go
  <2> QED BY <2>1 DEF RunStream
<1>8. CASE UNCHANGED programVars
  BY <1>1, <1>8 DEF programVars, driverVars, allVars, convVars, transVars
<1> QED BY <1>2, <1>3, <1>4, <1>5, <1>6, <1>7, <1>8 DEF DriverNext

\* A register of the file is not cut.
LEMMA RegisterKept == ASSUME NEW r \in Nat, r <= REGISTER_max PROVE CutReg(r) = r
<1>1. 2^REG_SIZE = 1024 /\ REGISTER_max = 1023  BY DEF REG_SIZE, REGISTER_max
<1> QED BY <1>1 DEF CutReg

\* For every module, whatever was converted before: the n-th instruction of the code that
\* makes a temporary has in its bytes the register of the n-th temporary the tables
\* handed out (UBH_FUNC's Push_temp_reg), as long as the executor has a register of that
\* number; and no temporary was handed out without one.
THEOREM DriverTempsKept == DriverSpec => []TempsKept
<1>1. StreamsInv /\ EncInv /\ MadeInv /\ RunStream => TempsKept
  <2> SUFFICES ASSUME StreamsInv, EncInv, MadeInv, RunStream, stage = "run", vm = "idle",
                      NEW st, st = Last(streams)
               PROVE  /\ Len(temps) = Cardinality(Makers(st.insts))
                      /\ \A n \in Makers(st.insts) :
                            LET made == temps[Cardinality({m \in Makers(st.insts) : m <= n})]
                            IN  made.reg <= REGISTER_max =>
                                    Rd(StorageOf(st, n), TY_AM[st.insts[n].op]) = made.reg
    BY Zenon DEF TempsKept
  <2>1. streams \in Seq(StreamSet) /\ streams # <<>> /\ st.insts = uinsts
    BY DEF StreamsInv, RunStream
  <2>2. Len(streams) \in Nat /\ DOMAIN streams = 1 .. Len(streams)  BY <2>1, SeqBasics
  <2>3. Len(streams) # 0  BY <2>1
  <2>4. PICK s \in DOMAIN streams : st = streams[s]
    <3>1. Len(streams) \in DOMAIN streams  BY <2>2, <2>3
    <3> QED BY <3>1 DEF Last
  <2>5. Made(st.insts, temps)  BY <2>1 DEF MadeInv
  <2>6. ASSUME NEW n \in Makers(st.insts), NEW made,
               made = temps[Cardinality({m \in Makers(st.insts) : m <= n})],
               made.reg <= REGISTER_max
        PROVE  Rd(StorageOf(st, n), TY_AM[st.insts[n].op]) = made.reg
    <3>1. Names(st.insts, temps, n) /\ n \in DOMAIN st.insts
          /\ st.insts[n].op \in Arithmetic \cup {"I32Const", "I32Load"}
      BY <2>5 DEF Made, Makers
    <3>2. made.reg \in Nat /\ st.insts[n].rd = CutReg(made.reg)  BY <2>6, <3>1 DEF Names, MadeBy
    <3>3. st.insts[n].rd = made.reg  BY <2>6, <3>2, RegisterKept
    <3>4. FieldsBack(st.insts[n], StorageOf(st, n))  BY <2>4, <3>1, StorageBack
    <3>5. TY_AM[st.insts[n].op] # "AM32"  BY <3>1, EmittedModes
    <3> QED BY <3>3, <3>4, <3>5, Zenon DEF FieldsBack
  <2> QED BY <2>5, <2>6 DEF Made
<1>2. DriverSpec => [](ScanInv /\ HandlerInv /\ FileInv)  BY FileInvariant
<1>3. ScanInv /\ HandlerInv /\ FileInv /\ EncInv /\ [DriverNext]_programVars => EncInv'
  BY EncInvNext
<1>4. FileInv => StreamsInv  BY DEF FileInv
<1>5. DriverInit => MadeInv /\ RunStream
  <2>1. DriverInit => ExecStart  BY ExecStarts DEF DriverInit
  <2>2. DriverInit => stage = "func"  BY DEF DriverInit
  <2> QED BY <2>1, <2>2, MadeInvStart DEF RunStream
<1>6. ScanInv /\ HandlerInv /\ MadeInv /\ [DriverNext]_programVars => MadeInv'  BY MadeStays
<1>7. FileInv /\ RunStream /\ [DriverNext]_programVars => RunStream'  BY RunStreamNext
<1> QED BY <1>1, <1>2, <1>3, <1>4, <1>5, <1>6, <1>7, EncInvInit, PTL DEF DriverSpec
=============================================================================
