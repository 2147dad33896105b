---------------------------- MODULE Labels_proofs ----------------------------
(***************************************************************************)
(* Where the branches of the emitted code go, for every function and every  *)
(* vector of instructions: one label per jump, the label search returns the *)
(* innermost block around the branch, and the label is where wasm continues. *)
(***************************************************************************)
EXTENDS Translator_proofs

(* What the default case emits is none of what the pass emits on its own     *)
(* account.                                                                  *)

OwnOps == Arithmetic \cup {"I32Load", "I32Store", "I32Const", "UMOV", "UJMP", "UJNZ"}

\* The opcode of a name stands for that name.
LEMMA EncodeOf ==
    ASSUME NEW op \in WinstNames
    PROVE  Encode[op] \in DOMAIN WINST_OPCODE /\ WINST_OPCODE[Encode[op]] = op
<1>1. \E c \in DOMAIN WINST_OPCODE : WINST_OPCODE[c] = op  BY Zenon DEF WinstNames
<1>2. Encode[op] = CHOOSE c \in DOMAIN WINST_OPCODE : WINST_OPCODE[c] = op  BY Zenon DEF Encode
<1> HIDE DEF WINST_OPCODE
<1> QED BY <1>1, <1>2, Zenon

\* The rows above the runs: only the first has the opcode of unreachable.
LEMMA ControlOpcodes ==
    /\ \A row \in ToSet(ControlRows) : /\ row["name"] = "UJMP" => row["wasm_op"] = 11
                                       /\ row["name"] = "UJNZ" => row["wasm_op"] = 0
    /\ ControlRows[1]["wasm_op"] = 0 /\ ControlRows[1]["name"] = "UNOP"
<1>1. DOMAIN ControlRows = 1 .. 26  BY DEF ControlRows
<1>2. ASSUME NEW i \in 1 .. 26
      PROVE  /\ ControlRows[i]["name"] = "UJMP" => ControlRows[i]["wasm_op"] = 11
             /\ ControlRows[i]["name"] = "UJNZ" => ControlRows[i]["wasm_op"] = 0
  BY SMTT(60) DEF ControlRows, Row
<1>3. ControlRows[1]["wasm_op"] = 0 /\ ControlRows[1]["name"] = "UNOP"
  BY SMTT(60) DEF ControlRows, Row
<1>4. \A row \in ToSet(ControlRows) : \E i \in 1 .. 26 : row = ControlRows[i]  BY <1>1 DEF ToSet
<1> QED BY <1>2, <1>3, <1>4

\* A row of a run has one opcode in both sets, and the name of it.
LEMMA RunOpcode ==
    ASSUME NEW row, NEW lo \in Nat, NEW hi \in Nat, NEW am, InRun(row, lo, hi, am), 40 <= lo, hi <= 191
    PROVE  row["wasm_op"] \in 40 .. 191 /\ row["name"] = WINST_OPCODE[row["wasm_op"]]
<1>1. PICK c \in Nat : lo <= c /\ c <= hi /\ row = RunRow(c, am)  BY DEF InRun
<1>2. row["name"] = NumericNames[c - 39] /\ row["wasm_op"] = c  BY <1>1 DEF RunRow, Row
<1>3. c \in 40 .. 191  BY <1>1
<1> QED BY <1>2, <1>3, NumericRows

\* Any other instruction has a name of its own: `end' alone has the opcode of the row of
\* the jump, and the first row of opcode 0 is no jump.
LEMMA OtherNames ==
    ASSUME NEW op \in DOMAIN UOPCODE_from_wasm,
           op \notin Arithmetic \cup {"I32Load", "I32Store", "I32Const", "End"}
    PROVE  UOPCODE_from_wasm[op] \notin OwnOps
<1> DEFINE c   == Encode[op]
           row == UOPCODE_of_wasm(c)
<1>1. op \in WinstNames /\ row # NoRow /\ UOPCODE_from_wasm[op] = row["name"]
  BY Zenon DEF UOPCODE_from_wasm
<1>2. c \in DOMAIN WINST_OPCODE /\ WINST_OPCODE[c] = op  BY <1>1, EncodeOf
<1>3. /\ c \in DOMAIN ByWasm /\ row = ByWasm[c]
  BY <1>1, Zenon DEF UOPCODE_of_wasm
<1>4. \E r \in ToSet(UWASM_META_INFO) : r["wasm_op"] = c
  BY <1>3, Zenon DEF ByWasm, FirstRows
<1>5. /\ row \in ToSet(UWASM_META_INFO) /\ row["wasm_op"] = c
      /\ UWASM_META_INFO[1]["wasm_op"] = c => row = UWASM_META_INFO[1]
  <2>1. row = FirstRows("wasm_op")[c]  BY <1>3 DEF ByWasm
  <2> HIDE DEF row, c
  <2> QED BY <1>4, <2>1, FirstRowOf
<1>6. c # 11
  <2>1. WINST_OPCODE[11] = "End"  BY DEF WINST_OPCODE, ControlNames
  <2>2. op # "End"  OBVIOUS
  <2> QED BY <1>2, <2>1, <2>2
<1>7. c # 192  BY <1>2 DEF WINST_OPCODE
<1> HIDE DEF row, c
<1>8. CASE row \in ToSet(ControlRows)
  <2>1. row["name"] # "UJMP"  BY <1>5, <1>6, <1>8, ControlOpcodes
  <2>2. row["name"] # "UJNZ"
    <3> SUFFICES ASSUME row["name"] = "UJNZ" PROVE FALSE
      OBVIOUS
    <3>1. c = 0  BY <1>5, <1>8, ControlOpcodes
    <3>2. row = ControlRows[1]  BY <1>5, <3>1, ControlOpcodes, TableRows
    <3> QED BY <3>2, ControlOpcodes
  <2>3. row["name"] \notin Arithmetic \cup {"I32Load", "I32Store", "I32Const", "UMOV"}
    BY <1>8, ControlModes
  <2> QED BY <1>1, <2>1, <2>2, <2>3 DEF OwnOps
<1>9. CASE row = MovRow  BY <1>5, <1>7, <1>9 DEF MovRow, Row
<1>10. CASE c \in 40 .. 191 /\ row["name"] = WINST_OPCODE[c]
  <2>1. PICK k \in 1 .. 152 : k = c - 39  BY <1>10
  <2>2. WINST_OPCODE[c] = NumericNames[k]  BY <1>10, <2>1, NumericRows
  <2>3. op \notin {"UMOV", "UJMP", "UJNZ"}  BY <1>2, <2>2, NumericPlaces
  <2>4. op \notin Arithmetic \cup {"I32Load", "I32Store", "I32Const"}  OBVIOUS
  <2> QED BY <1>1, <1>2, <1>10, <2>3, <2>4 DEF OwnOps
<1>11. \/ row \in ToSet(ControlRows)
       \/ InRun(row, 40, 62, "AM64_R_R_OFS") \/ InRun(row, 63, 64, "AM32_R")
       \/ InRun(row, 65, 69, "AM64_R_OFS") \/ InRun(row, 70, 72, "AM64_R_R_R")
       \/ InRun(row, 73, 105, "AM64_R_OFS") \/ InRun(row, 106, 191, "AM64_R_R_R")
       \/ row = MovRow
  BY <1>5, TableRows, Zenon
<1>12. /\ InRun(row, 40, 62, "AM64_R_R_OFS") \/ InRun(row, 63, 64, "AM32_R")
             \/ InRun(row, 65, 69, "AM64_R_OFS") \/ InRun(row, 70, 72, "AM64_R_R_R")
             \/ InRun(row, 73, 105, "AM64_R_OFS") \/ InRun(row, 106, 191, "AM64_R_R_R")
          => row["wasm_op"] \in 40 .. 191 /\ row["name"] = WINST_OPCODE[row["wasm_op"]]
  BY RunOpcode
<1> QED BY <1>5, <1>8, <1>9, <1>10, <1>11, <1>12

\* `return' has a row.
LEMMA ReturnNamed == "Return" \in DOMAIN UOPCODE_from_wasm
<1> DEFINE c == Encode["Return"]
<1>1. 15 \in DOMAIN WINST_OPCODE /\ WINST_OPCODE[15] = "Return"
  BY DEF WINST_OPCODE, ControlNames
<1>2. "Return" \in WinstNames  BY <1>1, Zenon DEF WinstNames
<1>3. c \in DOMAIN WINST_OPCODE /\ WINST_OPCODE[c] = "Return"  BY <1>2, EncodeOf
<1> HIDE DEF c
<1>4. \A k \in 1 .. 152 : NumericNames[k] # "Return"  BY SMTT(60) DEF NumericNames
<1>5. \A k \in 1 .. 20 : ControlNames[k] = "Return" => k = 16  BY DEF ControlNames
<1>6. /\ \A k \in 1 .. 3 : StackNames[k] # "Return"
      /\ \A k \in 1 .. 5 : VariableNames[k] # "Return"
  BY DEF StackNames, VariableNames
<1>7. c = 15
  <2>1. c \in (0 .. 19) \cup (26 .. 28) \cup (32 .. 36) \cup (40 .. 191)
    BY <1>3 DEF WINST_OPCODE
  <2>2. CASE c \in 0 .. 19
    <3>1. WINST_OPCODE[c] = ControlNames[c + 1] /\ c + 1 \in 1 .. 20  BY <2>2 DEF WINST_OPCODE
    <3> QED BY <1>3, <1>5, <2>2, <3>1
  <2>3. CASE c \in 26 .. 28
    <3>1. WINST_OPCODE[c] = StackNames[c - 25] /\ c - 25 \in 1 .. 3  BY <2>3 DEF WINST_OPCODE
    <3> QED BY <1>3, <1>6, <3>1
  <2>4. CASE c \in 32 .. 36
    <3>1. WINST_OPCODE[c] = VariableNames[c - 31] /\ c - 31 \in 1 .. 5  BY <2>4 DEF WINST_OPCODE
    <3> QED BY <1>3, <1>6, <3>1
  <2>5. CASE c \in 40 .. 191
    <3>1. WINST_OPCODE[c] = NumericNames[c - 39] /\ c - 39 \in 1 .. 152
      BY <2>5, NumericRows
    <3> QED BY <1>3, <1>4, <3>1
  <2> QED BY <2>1, <2>2, <2>3, <2>4, <2>5
<1>8. ControlRows[13] \in ToSet(UWASM_META_INFO) /\ ControlRows[13]["wasm_op"] = 15
  <2>1. ControlRows[13]["wasm_op"] = 15 /\ 13 \in DOMAIN ControlRows
    BY SMTT(60) DEF ControlRows, Row
  <2>2. ControlRows[13] \in ToSet(ControlRows)  BY <2>1 DEF ToSet
  <2> QED BY <2>1, <2>2, TableRows
<1>9. 15 \in DOMAIN FirstRows("wasm_op") /\ FirstRows("wasm_op")[15]["wasm_op"] = 15
  BY <1>8, FirstRowOf
<1>10. UOPCODE_of_wasm(15)["wasm_op"] = 15  BY <1>9 DEF UOPCODE_of_wasm, ByWasm
<1>11. NoRow["wasm_op"] = 0  BY DEF NoRow, Row
<1>12. UOPCODE_of_wasm(Encode["Return"]) # NoRow  BY <1>7, <1>10, <1>11 DEF c
<1> QED BY <1>2, <1>12, Zenon DEF UOPCODE_from_wasm

\* What the pass copies from the table is none of what it emits on its own account.
LEMMA CopiedOps ==
    ASSUME NEW op \in (DOMAIN UOPCODE_from_wasm \ Handled) \cup {"Return"}
    PROVE  Rand_operand(UOPCODE_from_wasm[op]).op \notin OwnOps
<1>1. UOPCODE_from_wasm[op] \notin OwnOps
  BY OtherNames, ReturnNamed DEF Handled, Jumps, Arithmetic
<1>2. ASSUME NEW n PROVE Rand_operand(n).op = n
  <2> DEFINE am == TY_AM[n]
  <2>1. CASE am = "AM64_R_R_R"
    <3>1. Rand_operand(n) = UInst(n, 512, 1, 240, -1)  BY <2>1, ZenonT(60) DEF Rand_operand
    <3> QED BY <3>1, UInstOp
  <2>2. CASE am = "AM64_R_OFS"
    <3>1. Rand_operand(n) = UInst(n, 512, -1, -1, RAND_OFS)  BY <2>2, ZenonT(60) DEF Rand_operand
    <3> QED BY <3>1, UInstOp
  <2>3. CASE am = "AM32_R"
    <3>1. Rand_operand(n) = UInst(n, 512, -1, -1, -1)  BY <2>3, ZenonT(60) DEF Rand_operand
    <3> QED BY <3>1, UInstOp
  <2>4. CASE am # "AM64_R_R_R" /\ am # "AM64_R_OFS" /\ am # "AM32_R"
    <3>1. Rand_operand(n) = UInst(n, -1, -1, -1, -1)  BY <2>4, ZenonT(60) DEF Rand_operand
    <3> QED BY <3>1, UInstOp
  <2> QED BY <2>1, <2>2, <2>3, <2>4
<1> QED BY <1>1, <1>2
-----------------------------------------------------------------------------
(* The label search: it visits a block after its children, whose ids are     *)
(* larger, so there is one function of visits, and it answers as the code's  *)
(* recursion does.                                                           *)

Hits(v, b) == {i \in DOMAIN blocks[b].child : v[blocks[b].child[i]] # INVALID}

\* The answer of block b, given those of its children.
Answer(v, b, p, n) ==
    LET blk == blocks[b]
        hits == {i \in DOMAIN blk.child : v[blk.child[i]] # INVALID}
    IN  CASE blk.end = 0 -> ABORT
          [] blk.end # 0 /\ p \notin blk.start .. blk.end -> INVALID
          [] p \in blk.start .. blk.end ->
                IF p = blk.start /\ blk.kind # "FUNC" THEN LabelAtStart(b)
                ELSE IF p = blk.end THEN NOT_NEEDED
                ELSE IF hits # {} THEN v[blk.child[Min(hits)]]
                ELSE LabelInside(b, n)

IsVisit(v, p, n) == v = [b \in DOMAIN blocks |-> Answer(v, b, p, n)]

\* What is known of the blocks when the search walks them.
LEMMA BlockFields ==
    ASSUME BlocksInv
    PROVE  /\ Len(blocks) \in Nat /\ DOMAIN blocks = 1 .. Len(blocks) /\ 1 \in DOMAIN blocks
           /\ \A b \in DOMAIN blocks :
                 /\ blocks[b].start \in Nat \ {0} /\ blocks[b].end \in Nat
                 /\ blocks[b].parent \in Nat /\ blocks[b].parent < b
                 /\ DOMAIN blocks[b].child = 1 .. Len(blocks[b].child)
                 /\ Len(blocks[b].child) \in Nat
                 /\ \A i \in DOMAIN blocks[b].child :
                       /\ blocks[b].child[i] \in DOMAIN blocks
                       /\ blocks[b].child[i] > b
                       /\ blocks[blocks[b].child[i]].parent = b
                 /\ \A c \in DOMAIN blocks : blocks[c].parent = b =>
                       \E i \in DOMAIN blocks[b].child : blocks[b].child[i] = c
<1>1. /\ blocks \in Seq(WINST_BLK) /\ PcBounds(blocks, ins_cnt, ins_cnt)
      /\ InnermostParents(blocks) /\ KidsListed(blocks) /\ Len(blocks) >= 1
  BY DEF BlocksInv, HierInv, TreeInv, StartsInv
<1>2. Len(blocks) \in Nat /\ DOMAIN blocks = 1 .. Len(blocks)  BY <1>1, SeqBasics
<1>3. \A b \in DOMAIN blocks : blocks[b] \in WINST_BLK  BY <1>1, SeqBasics
<1>4. ASSUME NEW b \in DOMAIN blocks
      PROVE  /\ blocks[b].start \in Nat \ {0} /\ blocks[b].end \in Nat
             /\ blocks[b].parent \in Nat /\ blocks[b].parent < b
             /\ blocks[b].child \in Seq(Nat)
  <2>1. /\ blocks[b].start \in Nat /\ blocks[b].end \in Nat /\ blocks[b].parent \in Nat
        /\ blocks[b].child \in Seq(Nat)
    BY <1>3 DEF WINST_BLK
  <2>2. blocks[b].start \in 1 .. ins_cnt  BY <1>1 DEF PcBounds
  <2>3. blocks[b].parent < b  BY <1>1 DEF InnermostParents
  <2> QED BY <2>1, <2>2, <2>3
<1>5. ASSUME NEW b \in DOMAIN blocks
      PROVE  /\ DOMAIN blocks[b].child = 1 .. Len(blocks[b].child)
             /\ Len(blocks[b].child) \in Nat
  BY <1>4, SeqBasics
<1>6. ASSUME NEW b \in DOMAIN blocks, NEW i \in DOMAIN blocks[b].child
      PROVE  LET c == blocks[b].child[i]
             IN  c \in DOMAIN blocks /\ c > b /\ blocks[c].parent = b
  <2>1. blocks[b].child[i] \in {c \in DOMAIN blocks : blocks[c].parent = b}
    BY <1>1 DEF KidsListed, ToSet
  <2>2. blocks[blocks[b].child[i]].parent < blocks[b].child[i]  BY <1>4, <2>1
  <2> QED BY <1>2, <2>1, <2>2
<1>7. ASSUME NEW b \in DOMAIN blocks, NEW c \in DOMAIN blocks, blocks[c].parent = b
      PROVE  \E i \in DOMAIN blocks[b].child : blocks[b].child[i] = c
  <2>1. c \in ToSet(blocks[b].child)  BY <1>1, <1>7 DEF KidsListed
  <2> QED BY <2>1 DEF ToSet
<1>8. 1 \in DOMAIN blocks  BY <1>1, <1>2
<1> QED BY <1>2, <1>4, <1>5, <1>6, <1>7, <1>8

\* What a block answers, case by case.
LEMMA AnswerIs ==
    ASSUME BlocksInv, NEW v, NEW b \in DOMAIN blocks, NEW p \in Nat, NEW n
    PROVE  LET blk == blocks[b]
           IN  /\ blk.end = 0 => Answer(v, b, p, n) = ABORT
               /\ blk.end # 0 /\ p \notin blk.start .. blk.end => Answer(v, b, p, n) = INVALID
               /\ blk.end # 0 /\ p \in blk.start .. blk.end =>
                     /\ p = blk.start /\ blk.kind # "FUNC" =>
                            Answer(v, b, p, n) = LabelAtStart(b)
                     /\ ~(p = blk.start /\ blk.kind # "FUNC") =>
                           /\ p = blk.end => Answer(v, b, p, n) = NOT_NEEDED
                           /\ p # blk.end /\ Hits(v, b) # {} =>
                                  Answer(v, b, p, n) = v[blk.child[Min(Hits(v, b))]]
                           /\ p # blk.end /\ Hits(v, b) = {} =>
                                  Answer(v, b, p, n) = LabelInside(b, n)
<1> DEFINE s == blocks[b].start
           e == blocks[b].end
<1>1. e = 0 => p \notin s .. e
  <2>1. s \in Nat \ {0} /\ e \in Nat  BY BlockFields
  <2> QED BY <2>1
<1>2. CASE e = 0
  <2>1. Answer(v, b, p, n) = ABORT  BY <1>1, <1>2, Zenon DEF Answer
  <2> QED BY <1>2, <2>1
<1>3. CASE e # 0 /\ p \notin s .. e
  <2>1. Answer(v, b, p, n) = INVALID  BY <1>3, Zenon DEF Answer
  <2> QED BY <1>3, <2>1
<1>4. CASE e # 0 /\ p \in s .. e
  <2>1. Answer(v, b, p, n) =
            IF p = s /\ blocks[b].kind # "FUNC" THEN LabelAtStart(b)
            ELSE IF p = e THEN NOT_NEEDED
            ELSE IF Hits(v, b) # {} THEN v[blocks[b].child[Min(Hits(v, b))]]
            ELSE LabelInside(b, n)
    BY <1>4, Zenon DEF Answer, Hits
  <2> HIDE DEF s, e
  <2>2. CASE p = s /\ blocks[b].kind # "FUNC"  BY <1>4, <2>1, <2>2 DEF s, e
  <2>3. CASE ~(p = s /\ blocks[b].kind # "FUNC") /\ p = e  BY <1>4, <2>1, <2>3 DEF s, e
  <2>4. CASE ~(p = s /\ blocks[b].kind # "FUNC") /\ p # e /\ Hits(v, b) # {}
    BY <1>4, <2>1, <2>4 DEF s, e
  <2>5. CASE ~(p = s /\ blocks[b].kind # "FUNC") /\ p # e /\ Hits(v, b) = {}
    BY <1>4, <2>1, <2>5 DEF s, e
  <2> QED BY <2>2, <2>3, <2>4, <2>5
<1> QED BY <1>2, <1>3, <1>4

\* The first child with an answer.
LEMMA FirstHit ==
    ASSUME BlocksInv, NEW v, NEW b \in DOMAIN blocks, Hits(v, b) # {}
    PROVE  Min(Hits(v, b)) \in Hits(v, b)
<1>1. Hits(v, b) \subseteq Nat
  <2>1. DOMAIN blocks[b].child = 1 .. Len(blocks[b].child) /\ Len(blocks[b].child) \in Nat
    BY BlockFields
  <2> QED BY <2>1 DEF Hits
<1>2. \E x \in Hits(v, b) : \A y \in Hits(v, b) : x <= y  BY <1>1, SmallestOf
<1> QED BY <1>2 DEF Min

\* A block answers by what its children answer.
LEMMA AnswerSame ==
    ASSUME BlocksInv, NEW v, NEW w, NEW b \in DOMAIN blocks, NEW p \in Nat, NEW n,
           \A i \in DOMAIN blocks[b].child : v[blocks[b].child[i]] = w[blocks[b].child[i]]
    PROVE  Answer(v, b, p, n) = Answer(w, b, p, n)
<1>1. Hits(v, b) = Hits(w, b)  BY DEF Hits
<1>2. Hits(v, b) # {} => v[blocks[b].child[Min(Hits(v, b))]] = w[blocks[b].child[Min(Hits(w, b))]]
  <2>1. Hits(v, b) # {} => Min(Hits(v, b)) \in DOMAIN blocks[b].child  BY FirstHit DEF Hits
  <2> QED BY <1>1, <2>1
<1>3. CASE blocks[b].end = 0  BY <1>3, AnswerIs
<1>4. CASE blocks[b].end # 0 /\ p \notin blocks[b].start .. blocks[b].end
  BY <1>4, AnswerIs
<1>5. CASE /\ blocks[b].end # 0 /\ p \in blocks[b].start .. blocks[b].end
           /\ p = blocks[b].start /\ blocks[b].kind # "FUNC"
  <2>1. Answer(v, b, p, n) = LabelAtStart(b)  BY <1>5, AnswerIs
  <2>2. Answer(w, b, p, n) = LabelAtStart(b)  BY <1>5, AnswerIs
  <2> QED BY <2>1, <2>2
<1>6. CASE /\ blocks[b].end # 0 /\ p \in blocks[b].start .. blocks[b].end
           /\ ~(p = blocks[b].start /\ blocks[b].kind # "FUNC")
  <2>1. CASE p = blocks[b].end  BY <1>6, <2>1, AnswerIs, SMTT(30)
  <2>2. CASE p # blocks[b].end /\ Hits(v, b) # {}
    <3>1. Answer(v, b, p, n) = v[blocks[b].child[Min(Hits(v, b))]]  BY <1>6, <2>2, AnswerIs
    <3>2. Answer(w, b, p, n) = w[blocks[b].child[Min(Hits(w, b))]]
      BY <1>1, <1>6, <2>2, AnswerIs
    <3> QED BY <1>2, <2>2, <3>1, <3>2
  <2>3. CASE p # blocks[b].end /\ Hits(v, b) = {}
    <3>1. Answer(v, b, p, n) = LabelInside(b, n)  BY <1>6, <2>3, AnswerIs
    <3>2. Hits(w, b) = {}  BY <1>1, <2>3
    <3>3. Answer(w, b, p, n) = LabelInside(b, n)  BY <1>6, <2>3, <3>2, AnswerIs
    <3> QED BY <3>1, <3>3
  <2> QED BY <2>1, <2>2, <2>3
<1> QED BY <1>3, <1>4, <1>5, <1>6

\* There is a function of visits: from the last block to the first, each answer only
\* needs those of larger ids.
LEMMA VisitExists ==
    ASSUME BlocksInv, NEW p \in Nat, NEW n
    PROVE  \E v : IsVisit(v, p, n)
<1> DEFINE D == DOMAIN blocks
           L == Len(blocks)
           From(v, m) == /\ v = [b \in D |-> v[b]]
                         /\ \A b \in D : b > L - m => v[b] = Answer(v, b, p, n)
           S == {m \in Nat : \E v : From(v, m)}
<1>1. L \in Nat /\ D = 1 .. L  BY BlockFields
<1>2. 0 \in S
  <2> DEFINE v == [b \in D |-> INVALID]
  <2>1. v = [b \in D |-> v[b]]  OBVIOUS
  <2>2. \A b \in D : ~(b > L - 0)  BY <1>1
  <2> HIDE DEF v
  <2>3. From(v, 0)  BY <2>1, <2>2
  <2> QED BY <2>3
<1>3. ASSUME NEW m \in Nat, m \in S PROVE m + 1 \in S
  <2>1. PICK v : From(v, m)  BY <1>3
  <2> DEFINE w == [b \in D |-> IF b = L - m THEN Answer(v, b, p, n) ELSE v[b]]
  <2>2. w = [b \in D |-> w[b]]  OBVIOUS
  <2>3. \A b \in D : w[b] = IF b = L - m THEN Answer(v, b, p, n) ELSE v[b]  OBVIOUS
  <2> HIDE DEF w
  <2>4. ASSUME NEW b \in D, b > L - (m + 1) PROVE w[b] = Answer(w, b, p, n)
    <3>1. b \in Nat /\ (b = L - m \/ b > L - m)  BY <1>1, <2>4
    <3>2. \A i \in DOMAIN blocks[b].child :
              /\ blocks[b].child[i] \in D /\ blocks[b].child[i] > b
      BY BlockFields
    <3>3. ASSUME NEW i \in DOMAIN blocks[b].child
          PROVE  v[blocks[b].child[i]] = w[blocks[b].child[i]]
      <4>1. blocks[b].child[i] \in D /\ blocks[b].child[i] # L - m
        BY <1>1, <3>1, <3>2
      <4> QED BY <2>3, <4>1
    <3>4. Answer(v, b, p, n) = Answer(w, b, p, n)  BY <3>3, AnswerSame
    <3>5. w[b] = Answer(v, b, p, n)  BY <1>1, <2>1, <2>3, <3>1
    <3> QED BY <3>4, <3>5
  <2>5. From(w, m + 1)
    <3> HIDE DEF D, L
    <3> QED BY <2>2, <2>4
  <2> HIDE DEF From
  <2> QED BY <2>5
<1>4. \A m \in Nat : m \in S => m + 1 \in S  BY <1>3
<1>5. L \in S
  <2> HIDE DEF S
  <2> QED BY <1>1, <1>2, <1>4, SetInduction
<1>6. PICK v : From(v, L)  BY <1>5
<1>7. \A b \in D : v[b] = Answer(v, b, p, n)  BY <1>1, <1>6
<1>8. v = [b \in D |-> Answer(v, b, p, n)]
  <2>1. v = [b \in D |-> v[b]]  BY <1>6
  <2> HIDE DEF D, From
  <2> QED BY <1>7, <2>1
<1> QED BY <1>8 DEF IsVisit

\* The search returns what the function block answers.
LEMMA SearchIs ==
    ASSUME BlocksInv, NEW p \in Nat, NEW n
    PROVE  \E v : /\ \A b \in DOMAIN blocks : v[b] = Answer(v, b, p, n)
                  /\ Get_label_index_for_branch(p, n) = v[1]
<1> DEFINE v == CHOOSE f : IsVisit(f, p, n)
<1>1. IsVisit(v, p, n)  BY VisitExists
<1>2. Get_label_index_for_branch(p, n) = v[1]
  BY Zenon DEF Get_label_index_for_branch, IsVisit, Answer, BLOCK_FUNCTION
<1>3. \A b \in DOMAIN blocks : v[b] = Answer(v, b, p, n)
  <2> HIDE DEF v
  <2> QED BY <1>1 DEF IsVisit
<1> QED BY <1>2, <1>3

\* The answers of the search for p: the label of the opener of an if or an else, the label
\* of a branch in a block none of whose children has p, or that none is needed at the end
\* of a block or at the start of a loop.
Holds(c, p)   == blocks[c].end # 0 /\ p \in blocks[c].start .. blocks[c].end
AtOpener(c, p, r) ==
    /\ blocks[c].kind \in {"IF", "ELSE"} /\ Holds(c, p) /\ p = blocks[c].start
    /\ r = NewLabel(blocks[c].end + 1, c)
Inner(c, p, n, r) ==
    /\ Holds(c, p) /\ p # blocks[c].end /\ ~(p = blocks[c].start /\ blocks[c].kind # "FUNC")
    /\ \A d \in DOMAIN blocks : blocks[d].parent = c =>
          blocks[d].end # 0 /\ p \notin blocks[d].start .. blocks[d].end
    /\ r = LabelInside(c, n)
Skips(c, p) ==
    Holds(c, p) /\ (p = blocks[c].end \/ (p = blocks[c].start /\ blocks[c].kind = "LOOP"))
Answers(p, n, r) ==
    \/ r = ABORT
    \/ r = NOT_NEEDED /\ \E c \in DOMAIN blocks : Skips(c, p)
    \/ \E c \in DOMAIN blocks : AtOpener(c, p, r)
    \/ \E c \in DOMAIN blocks : Inner(c, p, n, r)
Outside(b, p, r) == r = INVALID /\ blocks[b].end # 0 /\ p \notin blocks[b].start .. blocks[b].end
Says(b, p, n, r) == Outside(b, p, r) \/ Answers(p, n, r)

\* The four answers are told apart by their kind.
LEMMA KindsApart ==
    /\ ABORT.kind = "ABORT" /\ INVALID.kind = "LABEL_INVALID"
    /\ NOT_NEEDED.kind = "LABEL_NOT_NEEDED"
    /\ \A t, s : NewLabel(t, s).kind = "LABEL" /\ NewLabel(t, s).pc = t /\ NewLabel(t, s).sym = s
BY DEF ABORT, INVALID, NOT_NEEDED, NewLabel

\* A branch inside a block has a label or aborts.
LEMMA InsideIs ==
    ASSUME NEW c, NEW n
    PROVE  LET t == Ancestor(c, n)
           IN  /\ t = 0 => LabelInside(c, n) = ABORT
               /\ t # 0 => LabelInside(c, n) =
                      NewLabel((IF blocks[t].kind = "LOOP" THEN blocks[t].start
                                                           ELSE blocks[t].end) + 1, c)
BY DEF LabelInside

\* Only a block that does not have p answers with no label.
LEMMA InvalidOutside ==
    ASSUME NEW b, NEW p, NEW n, Says(b, p, n, INVALID)
    PROVE  Outside(b, p, INVALID)
<1>1. INVALID # ABORT /\ INVALID # NOT_NEEDED  BY KindsApart
<1>2. \A c : ~AtOpener(c, p, INVALID)  BY KindsApart DEF AtOpener
<1>3. \A c : INVALID # LabelInside(c, n)
  <2> SUFFICES ASSUME NEW c PROVE INVALID # LabelInside(c, n)
    OBVIOUS
  <2>1. LabelInside(c, n) = ABORT \/ \E t, s : LabelInside(c, n) = NewLabel(t, s)  BY InsideIs
  <2> HIDE DEF LabelInside
  <2> QED BY <1>1, <2>1, KindsApart
<1> QED BY <1>1, <1>2, <1>3 DEF Says, Answers, Inner

\* What a block says, if its children say what is here.
LEMMA BlockSays ==
    ASSUME BlocksInv, NEW v, NEW b \in DOMAIN blocks, NEW p \in Nat, NEW n,
           v[b] = Answer(v, b, p, n),
           \A i \in DOMAIN blocks[b].child :
               Says(blocks[b].child[i], p, n, v[blocks[b].child[i]])
    PROVE  Says(b, p, n, v[b])
<1>1. CASE blocks[b].end = 0  BY <1>1, AnswerIs DEF Says, Answers
<1>2. CASE blocks[b].end # 0 /\ p \notin blocks[b].start .. blocks[b].end
  BY <1>2, AnswerIs DEF Says, Outside
<1>3. CASE Holds(b, p) /\ p = blocks[b].start /\ blocks[b].kind # "FUNC"
  <2>1. v[b] = LabelAtStart(b)
    <3>1. Answer(v, b, p, n) = LabelAtStart(b)  BY ONLY BlocksInv, <1>3, AnswerIs, ZenonT(60) DEF Holds
    <3> QED BY <3>1
  <2>2. blocks[b].kind \in {"IF", "ELSE", "LOOP", "BLOCK"}
    <3>1. blocks \in Seq(WINST_BLK)  BY DEF BlocksInv, HierInv, TreeInv
    <3>2. blocks[b] \in WINST_BLK  BY <3>1, SeqBasics
    <3> QED BY <1>3, <3>2 DEF WINST_BLK, BLK_KIND
  <2>3. CASE blocks[b].kind \in {"IF", "ELSE"}
    <3>1. v[b] = NewLabel(blocks[b].end + 1, b)
      BY <2>1, <2>3, Zenon DEF LabelAtStart
    <3> QED BY <1>3, <2>3, <3>1 DEF Says, Answers, AtOpener
  <2>4. CASE blocks[b].kind = "LOOP"
    <3>1. v[b] = NOT_NEEDED  BY <2>1, <2>4, Zenon DEF LabelAtStart
    <3> QED BY <1>3, <2>4, <3>1 DEF Says, Answers, Skips
  <2>5. CASE blocks[b].kind = "BLOCK"
    <3>1. v[b] = ABORT  BY <2>1, <2>5, Zenon DEF LabelAtStart
    <3> QED BY <3>1 DEF Says, Answers
  <2> QED BY <2>2, <2>3, <2>4, <2>5
<1>4. CASE Holds(b, p) /\ ~(p = blocks[b].start /\ blocks[b].kind # "FUNC")
  <2>1. CASE p = blocks[b].end
    <3>1. v[b] = NOT_NEEDED  BY <1>4, <2>1, AnswerIs DEF Holds
    <3> QED BY <1>4, <2>1, <3>1 DEF Says, Answers, Skips
  <2>2. CASE p # blocks[b].end /\ Hits(v, b) # {}
    <3> DEFINE c == blocks[b].child[Min(Hits(v, b))]
    <3>1. v[b] = v[c]  BY <1>4, <2>2, AnswerIs DEF Holds
    <3>2. Min(Hits(v, b)) \in DOMAIN blocks[b].child /\ v[c] # INVALID
      BY <2>2, FirstHit DEF Hits
    <3>3. Says(c, p, n, v[c])  BY <3>2
    <3> QED BY <3>1, <3>2, <3>3 DEF Says, Outside
  <2>3. CASE p # blocks[b].end /\ Hits(v, b) = {}
    <3>1. v[b] = LabelInside(b, n)  BY <1>4, <2>3, AnswerIs DEF Holds
    <3>2. ASSUME NEW d \in DOMAIN blocks, blocks[d].parent = b
          PROVE  blocks[d].end # 0 /\ p \notin blocks[d].start .. blocks[d].end
      <4>1. PICK i \in DOMAIN blocks[b].child : blocks[b].child[i] = d  BY <3>2, BlockFields
      <4>2. v[d] = INVALID  BY <2>3, <4>1 DEF Hits
      <4>3. Says(d, p, n, INVALID)  BY <4>1, <4>2
      <4> QED BY <4>3, InvalidOutside DEF Outside
    <3> QED BY <1>4, <2>3, <3>1, <3>2 DEF Says, Answers, Inner
  <2> QED BY <2>1, <2>2, <2>3
<1> QED BY <1>1, <1>2, <1>3, <1>4 DEF Holds

\* What the search returns.
LEMMA SearchSays ==
    ASSUME BlocksInv, NEW p \in Nat, NEW n
    PROVE  Says(1, p, n, Get_label_index_for_branch(p, n))
<1> DEFINE L == Len(blocks)
<1>1. L \in Nat /\ DOMAIN blocks = 1 .. L /\ 1 \in DOMAIN blocks  BY BlockFields
<1>2. PICK v : /\ \A b \in DOMAIN blocks : v[b] = Answer(v, b, p, n)
               /\ Get_label_index_for_branch(p, n) = v[1]
  BY SearchIs
<1> DEFINE S == {m \in Nat : \A b \in DOMAIN blocks : b > L - m => Says(b, p, n, v[b])}
<1> HIDE DEF L
<1>3. 0 \in S  BY <1>1
<1>4. ASSUME NEW m \in Nat, m \in S PROVE m + 1 \in S
  <2>1. ASSUME NEW b \in DOMAIN blocks, b > L - (m + 1) PROVE Says(b, p, n, v[b])
    <3>1. ASSUME NEW i \in DOMAIN blocks[b].child
          PROVE  Says(blocks[b].child[i], p, n, v[blocks[b].child[i]])
      <4>1. PICK c \in DOMAIN blocks : c = blocks[b].child[i] /\ c > b  BY BlockFields
      <4>2. c > L - m  BY <1>1, <2>1, <4>1
      <4> QED BY <1>4, <4>1, <4>2
    <3> QED BY <1>2, <3>1, BlockSays
  <2> QED BY <2>1
<1>5. \A m \in Nat : m \in S => m + 1 \in S  BY <1>4
<1>6. L \in S
  <2> HIDE DEF S
  <2> QED BY <1>1, <1>3, <1>5, SetInduction
<1>7. 1 > L - L  BY <1>1
<1> QED BY <1>1, <1>2, <1>6, <1>7
-----------------------------------------------------------------------------
(* The block that answers is the innermost one around the branch.            *)

Spans(c, p) == blocks[c].start <= p /\ p < blocks[c].end
Innermost(c, p) ==
    Spans(c, p) /\ \A m \in DOMAIN blocks : Spans(m, p) => m <= c

\* The largest element.
LEMMA MaxIs ==
    ASSUME NEW S, NEW m \in S, S \subseteq Int, \A y \in S : y <= m
    PROVE  Max(S) = m
<1>1. \A x \in S : (\A y \in S : x >= y) => x = m  OBVIOUS
<1>2. \A y \in S : m >= y  OBVIOUS
<1> QED BY <1>1, <1>2, Zenon DEF Max

\* The innermost block around p is the one with the largest id among those around it.
LEMMA InnermostIs ==
    ASSUME BlocksInv, NEW p \in Nat, NEW c \in DOMAIN blocks, Innermost(c, p)
    PROVE  InnermostBlk(p) = c
<1> DEFINE S == {b \in BlkIds : blocks[b].start <= p /\ p < blocks[b].end}
<1>1. DOMAIN blocks = BlkIds /\ BlkIds \subseteq Int  BY BlockFields DEF BlkIds
<1>2. c \in S /\ S \subseteq Int /\ \A y \in S : y <= c  BY <1>1 DEF Innermost, Spans
<1>3. Max(S) = c
  <2> HIDE DEF S
  <2> QED BY <1>2, MaxIs
<1> QED BY <1>3 DEF InnermostBlk

\* Of two blocks around p the later is inside the earlier, and both are closed.
LEMMA SpansNested ==
    ASSUME BlocksInv, NEW p \in Nat, NEW b \in DOMAIN blocks, NEW c \in DOMAIN blocks, b < c,
           Spans(b, p), blocks[c].start <= p
    PROVE  Encloses(blocks, b, c) /\ blocks[c].end # 0 /\ blocks[c].end < blocks[b].end
<1>1. Before(blocks, b, c) \/ Encloses(blocks, b, c)
  BY DEF BlocksInv, HierInv, TreeInv, LaminarTree
<1>2. /\ blocks[b].start \in Nat /\ blocks[b].end \in Nat /\ blocks[b].end # 0
      /\ blocks[c].start \in Nat
  <2>1. \A d \in DOMAIN blocks : blocks[d].start \in Nat /\ blocks[d].end \in Nat
    BY BlockFields
  <2> QED BY <2>1 DEF Spans
<1>3. ~Before(blocks, b, c)  BY <1>2 DEF Before, Spans
<1> QED BY <1>1, <1>2, <1>3 DEF Encloses, IsOpen

\* A block none of whose children is around p is the innermost one: the parents of a
\* smaller one would lead to such a child.
LEMMA ChildlessInnermost ==
    ASSUME BlocksInv, NEW p \in Nat, NEW c \in DOMAIN blocks, Spans(c, p),
           \A d \in DOMAIN blocks : blocks[d].parent = c => ~Spans(d, p)
    PROVE  Innermost(c, p)
<1> SUFFICES ASSUME NEW m \in DOMAIN blocks, Spans(m, p), c < m PROVE FALSE
  <2>1. \A m \in DOMAIN blocks : m \in Nat  BY BlockFields
  <2> QED BY <2>1 DEF Innermost
<1> DEFINE T == {d \in DOMAIN blocks : Spans(d, p) /\ c < d}
<1>1. T \subseteq Nat /\ T # {} /\ c \in Nat  BY BlockFields
<1>2. PICK d \in T : \A y \in T : d <= y  BY <1>1, SmallestOf
<1>3. d \in DOMAIN blocks /\ Spans(d, p) /\ c < d  BY <1>2
<1>4. PICK q : q = blocks[d].parent /\ q \in Nat /\ q < d  BY <1>3, BlockFields
<1>5. /\ q # 0 => q \in DOMAIN blocks /\ Encloses(blocks, q, d)
      /\ q < c => Before(blocks, c, d)
  <2>1. InnermostParents(blocks)  BY DEF BlocksInv, HierInv, TreeInv
  <2>2. q # 0 => q \in DOMAIN blocks
    <3>1. DOMAIN blocks = 1 .. Len(blocks) /\ Len(blocks) \in Nat  BY BlockFields
    <3> QED BY <1>3, <1>4, <3>1
  <2> QED BY <1>3, <1>4, <2>1, <2>2 DEF InnermostParents
<1>6. blocks[d].start \in Nat /\ blocks[c].end \in Nat  BY <1>3, BlockFields
<1>7. ~(q < c)  BY <1>3, <1>5, <1>6 DEF Before, Spans
<1>8. q # c  BY <1>3, <1>4
<1>9. c < q /\ q # 0 /\ q \in DOMAIN blocks  BY <1>1, <1>4, <1>5, <1>7, <1>8
<1>10. blocks[q].start \in Nat /\ blocks[q].end \in Nat /\ blocks[d].end \in Nat
  BY <1>3, <1>9, BlockFields
<1>11. blocks[q].start <= p  BY <1>3, <1>5, <1>6, <1>9, <1>10 DEF Encloses, Spans
<1>12. blocks[q].end # 0  BY <1>9, <1>11, SpansNested
<1>13. Spans(q, p)  BY <1>3, <1>5, <1>6, <1>9, <1>10, <1>11, <1>12 DEF Encloses, Spans, IsOpen
<1>14. q \in T  BY <1>9, <1>13
<1>15. d <= q  BY <1>2, <1>14
<1>16. d \in Nat  BY <1>1
<1> QED BY <1>4, <1>15, <1>16

\* The block an instruction opens is the innermost one around it.
LEMMA OpenerInnermost ==
    ASSUME BlocksInv, NEW p \in Nat, NEW c \in DOMAIN blocks, c # 1, Spans(c, p),
           p = blocks[c].start
    PROVE  Innermost(c, p)
<1> SUFFICES ASSUME NEW m \in DOMAIN blocks, Spans(m, p), c < m PROVE FALSE
  <2>1. \A m \in DOMAIN blocks : m \in Nat  BY BlockFields
  <2> QED BY <2>1 DEF Innermost
<1>1. 1 < c  BY BlockFields
<1>2. blocks[c].start < blocks[m].start  BY <1>1 DEF BlocksInv, StartsInv
<1>3. blocks[m].start \in Nat  BY BlockFields
<1> QED BY <1>2, <1>3 DEF Spans

\* A label is the innermost block's, for an if or an else that opens it or for a branch
\* inside.
LEMMA LabelOwner ==
    ASSUME BlocksInv, NEW p \in Nat, NEW n,
           Get_label_index_for_branch(p, n).kind = "LABEL"
    PROVE  LET r == Get_label_index_for_branch(p, n)
           IN  \E c \in DOMAIN blocks :
                  /\ Innermost(c, p) /\ r.sym = c
                  /\ AtOpener(c, p, r) \/ Inner(c, p, n, r)
<1> DEFINE r == Get_label_index_for_branch(p, n)
<1>1. r # ABORT /\ r # INVALID /\ r # NOT_NEEDED  BY KindsApart
<1>2. Says(1, p, n, r)  BY SearchSays
<1> HIDE DEF r
<1>3. r.kind = "LABEL"  BY DEF r
<1>4. (\E c \in DOMAIN blocks : AtOpener(c, p, r)) \/ (\E c \in DOMAIN blocks : Inner(c, p, n, r))
  BY <1>1, <1>2 DEF Says, Outside, Answers
<1>5. ASSUME NEW c \in DOMAIN blocks, AtOpener(c, p, r)
      PROVE  Innermost(c, p) /\ r.sym = c
  <2>1. c # 1 /\ blocks[c].start < blocks[c].end
    BY <1>5 DEF BlocksInv, StartsInv, AtOpener, Holds, IsOpen
  <2>2. blocks[c].start \in Nat  BY BlockFields
  <2>3. Spans(c, p) /\ p = blocks[c].start  BY <1>5, <2>1, <2>2 DEF AtOpener, Spans
  <2>4. Innermost(c, p)  BY <2>1, <2>3, OpenerInnermost
  <2> QED BY <1>5, <2>4, KindsApart DEF AtOpener
<1>6. ASSUME NEW c \in DOMAIN blocks, Inner(c, p, n, r)
      PROVE  Innermost(c, p) /\ r.sym = c
  <2>1. \A d \in DOMAIN blocks : blocks[d].start \in Nat /\ blocks[d].end \in Nat
    BY BlockFields
  <2>2. Spans(c, p)  BY <1>6, <2>1 DEF Inner, Holds, Spans
  <2>3. \A d \in DOMAIN blocks : blocks[d].parent = c => ~Spans(d, p)
    BY <1>6, <2>1 DEF Inner, Spans
  <2>4. Innermost(c, p)  BY <2>2, <2>3, ChildlessInnermost
  <2>5. r = LabelInside(c, n)  BY <1>6 DEF Inner
  <2>6. r.sym = c  BY <1>1, <2>5, InsideIs, KindsApart
  <2> QED BY <2>4, <2>6
<1> QED BY <1>4, <1>5, <1>6 DEF r
-----------------------------------------------------------------------------
(* The blocks of the body, once the vector is returned and the body is over. *)

BodyDone == BlocksInv /\ build = "returned" /\ blocks[1].end # 0

\* What holds of them then.
LEMMA BodyDoneFacts ==
    ASSUME BodyDone
    PROVE  /\ BodyFacts(blocks, Len(ins)) /\ Len(ins) \in Nat /\ ins \in Seq(Inst)
           /\ 1 \in EarlyBlks(blocks) /\ blocks[1].kind = "FUNC"
           /\ blocks[1].end \in Ends(0) /\ \A e \in Ends(0) : blocks[1].end <= e
           /\ \A b \in EarlyBlks(blocks) : blocks[b].end # 0
<1>1. Len(ins) \in Nat /\ ins \in Seq(Inst) /\ it = Len(ins) + 1 /\ BodyInv /\ StartsInv
  BY SeqBasics DEF BodyDone, BlocksInv, HierInv, HierTypeOK, ReadToEnd
<1>2. PICK l \in Nat : l = Len(ins)  BY <1>1
<1>3. it - 1 = l  BY <1>1, <1>2
<1>4. build # "aborted"  BY DEF BodyDone
<1>5. BodyFacts(blocks, l)  BY <1>1, <1>3, <1>4 DEF BodyInv
<1>6. BodyOver(l) => \A b \in EarlyBlks(blocks) : ~IsOpen(blocks, b)
  BY <1>1, <1>3, <1>4 DEF BodyInv
<1>7. 1 \in EarlyBlks(blocks) /\ Pos(blocks, 1) = 0
  <2>1. \A e \in Ends(0) : 0 < e  BY DEF Ends
  <2>2. 1 \in DOMAIN blocks  BY BlockFields DEF BodyDone
  <2> QED BY <2>1, <2>2 DEF EarlyBlks, Early, Pos, BLOCK_FUNCTION
<1>8. blocks[1].kind = "FUNC"  BY <1>1 DEF StartsInv
<1>9. /\ blocks[1].end \in Closers(0) /\ blocks[1].end <= l
      /\ \A j \in Closers(0) : blocks[1].end <= j
      /\ ins[blocks[1].end].op = "End"
  BY <1>5, <1>7, <1>8 DEF BodyFacts, Ended, BodyDone, IsOpen
<1>10. blocks[1].end \in Ends(0) /\ \A e \in Ends(0) : blocks[1].end <= e
  BY <1>9 DEF Ends, Closers
<1>11. BodyOver(l)  BY <1>9, <1>10 DEF BodyOver
<1> QED BY <1>1, <1>2, <1>5, <1>6, <1>7, <1>8, <1>10, <1>11 DEF IsOpen

\* A block around an instruction of the body is one of the body, and has its opener there.
LEMMA SpansEarly ==
    ASSUME BodyDone, NEW p \in Nat, Early(p), NEW c \in DOMAIN blocks, blocks[c].start <= p
    PROVE  c \in EarlyBlks(blocks)
<1>1. blocks[c].start \in Nat  BY BlockFields DEF BodyDone
<1>2. \A e \in Ends(0) : e \in Nat /\ 0 < e  BY DEF Ends
<1>3. Pos(blocks, c) \in Nat /\ Pos(blocks, c) <= p  BY <1>1 DEF Pos
<1> QED BY <1>2, <1>3 DEF EarlyBlks, Early

\* The blocks a branch climbs through.
IsClimb(up, c, n) ==
    up = [k \in 0 .. n |-> IF k = 0 THEN c
                           ELSE IF up[k-1] = 0 THEN 0 ELSE blocks[up[k-1]].parent]

\* There is such a sequence for every number of levels.
LEMMA ClimbExists ==
    ASSUME NEW c, NEW n \in Nat
    PROVE  \E up : IsClimb(up, c, n)
<1> DEFINE S == {m \in Nat : \E up : IsClimb(up, c, m)}
<1>1. 0 \in S
  <2> DEFINE up == [k \in 0 .. 0 |-> c]
  <2>1. IsClimb(up, c, 0)
    <3>1. \A k \in 0 .. 0 : k = 0  OBVIOUS
    <3> QED BY <3>1 DEF IsClimb
  <2> HIDE DEF up
  <2> QED BY <2>1
<1>2. ASSUME NEW m \in Nat, m \in S PROVE m + 1 \in S
  <2>1. PICK up : IsClimb(up, c, m)  BY <1>2
  <2>2. \A k \in 0 .. m : up[k] = IF k = 0 THEN c
                                  ELSE IF up[k-1] = 0 THEN 0 ELSE blocks[up[k-1]].parent
    BY <2>1 DEF IsClimb
  <2> DEFINE Last1 == IF up[m] = 0 THEN 0 ELSE blocks[up[m]].parent
             w == [k \in 0 .. m + 1 |-> IF k = m + 1 THEN Last1 ELSE up[k]]
  <2>3. \A k \in 0 .. m + 1 : w[k] = IF k = m + 1 THEN Last1 ELSE up[k]  OBVIOUS
  <2>4. ASSUME NEW k \in 0 .. m + 1
        PROVE  w[k] = IF k = 0 THEN c ELSE IF w[k-1] = 0 THEN 0 ELSE blocks[w[k-1]].parent
    <3> HIDE DEF w
    <3>1. CASE k = 0  BY <2>2, <2>3, <3>1
    <3>2. CASE k # 0
      <4>1. k - 1 \in 0 .. m + 1 /\ k - 1 # m + 1 /\ w[k-1] = up[k-1]  BY <2>3, <3>2
      <4>2. CASE k = m + 1
        <5>1. k - 1 = m  BY <4>2
        <5> QED BY <2>3, <3>2, <4>1, <4>2, <5>1
      <4>3. CASE k # m + 1
        <5>1. k \in 0 .. m  BY <4>3
        <5> QED BY <2>2, <2>3, <3>2, <4>1, <4>3, <5>1
      <4> QED BY <4>2, <4>3
    <3> QED BY <3>1, <3>2
  <2>5. w = [k \in 0 .. m + 1 |-> w[k]]  OBVIOUS
  <2> HIDE DEF w
  <2>6. IsClimb(w, c, m + 1)  BY <2>4, <2>5 DEF IsClimb
  <2> QED BY <2>6
<1>3. \A m \in Nat : m \in S => m + 1 \in S  BY <1>2
<1>4. n \in S
  <2> HIDE DEF S
  <2> QED BY <1>1, <1>3, SetInduction
<1> QED BY <1>4

\* The ancestor is where the climb ends.
LEMMA AncestorIs ==
    ASSUME NEW c, NEW n \in Nat
    PROVE  \E up : IsClimb(up, c, n) /\ Ancestor(c, n) = up[n]
<1> DEFINE up == CHOOSE f : IsClimb(f, c, n)
<1>1. IsClimb(up, c, n)  BY ClimbExists
<1>2. Ancestor(c, n) = up[n]  BY Zenon DEF Ancestor, IsClimb
<1> QED BY <1>1, <1>2

\* Each level climbed is around the instruction, and one less deep.
LEMMA ClimbDepth ==
    ASSUME BodyDone, NEW p \in Nat, Early(p), NEW c \in DOMAIN blocks, Spans(c, p),
           NEW n \in Nat, NEW t, t = Ancestor(c, n), t # 0
    PROVE  /\ t \in EarlyBlks(blocks) /\ Spans(t, p)
           /\ Depth(Pos(blocks, t)) = Depth(Pos(blocks, c)) - n
<1>1. PICK up : IsClimb(up, c, n) /\ t = up[n]  BY AncestorIs
<1>2. \A k \in 0 .. n : up[k] = IF k = 0 THEN c
                                ELSE IF up[k-1] = 0 THEN 0 ELSE blocks[up[k-1]].parent
  BY <1>1 DEF IsClimb
<1> DEFINE Good(k) == up[k] # 0 =>
               /\ up[k] \in EarlyBlks(blocks) /\ Spans(up[k], p)
               /\ Depth(Pos(blocks, up[k])) = Depth(Pos(blocks, c)) - k
           S == {k \in Nat : k <= n => Good(k)}
<1>3. \A b \in EarlyBlks(blocks) : Pos(blocks, b) \in Nat /\ Depth(Pos(blocks, b)) \in Int
  <2>1. \A b \in DOMAIN blocks : Pos(blocks, b) \in Nat
    BY BlockFields DEF BodyDone, Pos
  <2> QED BY <2>1, DepthStep DEF EarlyBlks
<1>4. 0 \in S
  <2>1. blocks[c].start <= p  BY DEF Spans
  <2>2. c \in EarlyBlks(blocks)  BY <2>1, SpansEarly
  <2>3. up[0] = c  BY <1>2
  <2>4. Depth(Pos(blocks, c)) = Depth(Pos(blocks, c)) - 0  BY <1>3, <2>2
  <2> QED BY <2>2, <2>3, <2>4
<1>5. ASSUME NEW k \in Nat, k \in S PROVE k + 1 \in S
  <2> SUFFICES ASSUME k + 1 <= n, up[k+1] # 0 PROVE Good(k + 1)
    OBVIOUS
  <2>1. k \in 0 .. n /\ k + 1 \in 0 .. n /\ k + 1 # 0 /\ k + 1 - 1 = k  OBVIOUS
  <2>2. up[k+1] = IF up[k] = 0 THEN 0 ELSE blocks[up[k]].parent  BY <1>2, <2>1
  <2>3. up[k] # 0 /\ Good(k)  BY <1>5, <2>1, <2>2
  <2> DEFINE m == up[k]
             q == up[k+1]
  <2>4. /\ m \in EarlyBlks(blocks) /\ Spans(m, p) /\ m \in DOMAIN blocks /\ q = blocks[m].parent
        /\ Depth(Pos(blocks, m)) = Depth(Pos(blocks, c)) - k
    BY <2>2, <2>3 DEF EarlyBlks
  <2>5. q \in Nat /\ q # 0 /\ q < m  BY <2>4, BlockFields DEF BodyDone
  <2> HIDE DEF q, m
  <2>6. m # 1 /\ q \in DOMAIN blocks
    <3>1. DOMAIN blocks = 1 .. Len(blocks) /\ Len(blocks) \in Nat  BY BlockFields DEF BodyDone
    <3> QED BY <2>4, <2>5, <3>1
  <2>7. Depth(blocks[m].start) = Depth(Pos(blocks, q)) + 1
    BY <2>4, <2>6, BodyDoneFacts DEF BodyFacts, Opened
  <2>8. Encloses(blocks, q, m)
    BY <2>4, <2>5 DEF BodyDone, BlocksInv, HierInv, TreeInv, InnermostParents
  <2>9. /\ blocks[q].start \in Nat /\ blocks[m].start \in Nat
        /\ blocks[q].end \in Nat /\ blocks[m].end \in Nat
    BY <2>4, <2>6, BlockFields DEF BodyDone
  <2>10. blocks[q].start <= p  BY <2>4, <2>8, <2>9 DEF Encloses, Spans
  <2>11. q \in EarlyBlks(blocks)  BY <2>6, <2>10, SpansEarly
  <2>12. blocks[q].end # 0  BY <2>11, BodyDoneFacts
  <2>13. Spans(q, p)  BY <2>4, <2>8, <2>9, <2>10, <2>12 DEF Encloses, Spans, IsOpen
  <2>14. Depth(Pos(blocks, m)) = Depth(blocks[m].start)  BY <2>6 DEF Pos, BLOCK_FUNCTION
  <2>15. c \in EarlyBlks(blocks)
    <3>1. blocks[c].start <= p  BY DEF Spans
    <3> QED BY <3>1, SpansEarly
  <2>16. Depth(Pos(blocks, q)) = Depth(Pos(blocks, c)) - (k + 1)
    BY <1>3, <2>4, <2>7, <2>11, <2>14, <2>15
  <2> QED BY <2>11, <2>13, <2>16 DEF q
<1>6. \A k \in Nat : k \in S => k + 1 \in S  BY <1>5
<1>7. n \in S
  <2> HIDE DEF S
  <2> QED BY <1>4, <1>6, SetInduction
<1> QED BY <1>1, <1>7
-----------------------------------------------------------------------------
(* One label for each jump: `us' are the instructions emitted, `lt' the      *)
(* labels, m how many of the instructions `is' are translated, and ss[p]     *)
(* what the search returns for the p-th.                                     *)

JumpsIn(us)  == {k \in DOMAIN us : IsJump(us[k])}
Upto(us, k)  == {j \in JumpsIn(us) : j <= k}
Place(us, k) == Cardinality(Upto(us, k))

\* The jump at k has the label the search returned for its instruction.
Labelled(us, lt, k, ss) ==
    /\ Place(us, k) \in 1 .. Len(lt)
    /\ ss[us[k].pc].kind = "LABEL"
    /\ lt[Place(us, k)].pc = ss[us[k].pc].pc /\ lt[Place(us, k)].sym = ss[us[k].pc].sym
    /\ Place(us, k) < 2^REG_SIZE => LabelIdx(us[k]) = Place(us, k)

JumpsOnce(us, m) ==
    /\ \A k \in JumpsIn(us) : us[k].pc \in 1 .. m
    /\ \A j, k \in JumpsIn(us) : us[j].pc = us[k].pc => j = k

Branched(us, m, is, ss) ==
    \A p \in 1 .. m : is[p].op \in Jumps \cup CondJumps =>
        \/ \E k \in JumpsIn(us) : us[k].pc = p
        \/ ss[p] \in {INVALID, NOT_NEEDED}

EachHasOne(us, lt, m, is, ss) ==
    /\ IsFiniteSet(JumpsIn(us)) /\ Len(lt) = Cardinality(JumpsIn(us))
    /\ \A k \in JumpsIn(us) : Labelled(us, lt, k, ss)
    /\ JumpsOnce(us, m) /\ Branched(us, m, is, ss)

\* Nothing is translated yet.
LEMMA EachNone == ASSUME NEW is, NEW ss PROVE EachHasOne(<<>>, <<>>, 0, is, ss)
<1>1. JumpsIn(<<>>) = {}  BY DEF JumpsIn
<1> QED BY <1>1, FS_EmptySet DEF EachHasOne, JumpsOnce, Branched

\* A step that emits no jump.
LEMMA EachQuiet ==
    ASSUME NEW S, NEW us \in Seq(S), NEW T, NEW vs \in Seq(T), Len(us) <= Len(vs),
           SameUpTo(us, vs, Len(us)),
           \A k \in DOMAIN vs : Len(us) < k => ~IsJump(vs[k]),
           NEW lt, NEW m \in Nat, NEW is, NEW ss, EachHasOne(us, lt, m, is, ss),
           is[m + 1].op \in Jumps \cup CondJumps => ss[m + 1] \in {INVALID, NOT_NEEDED}
    PROVE  EachHasOne(vs, lt, m + 1, is, ss)
<1>1. /\ Len(us) \in Nat /\ Len(vs) \in Nat
      /\ DOMAIN us = 1 .. Len(us) /\ DOMAIN vs = 1 .. Len(vs)
  BY SeqBasics
<1>2. \A k \in DOMAIN us : k \in DOMAIN vs /\ vs[k] = us[k]  BY <1>1 DEF SameUpTo
<1>3. \A k \in DOMAIN vs : k \notin DOMAIN us => ~IsJump(vs[k])  BY <1>1
<1>4. JumpsIn(vs) = JumpsIn(us) /\ \A k \in JumpsIn(us) : vs[k] = us[k]
  BY <1>2, <1>3 DEF JumpsIn
<1>5. \A k : Place(vs, k) = Place(us, k)  BY <1>4 DEF Place, Upto
<1>6. \A k \in JumpsIn(vs) : Labelled(vs, lt, k, ss)
  BY <1>4, <1>5 DEF EachHasOne, Labelled
<1>7. JumpsOnce(vs, m + 1)  BY <1>4, SMTT(30) DEF EachHasOne, JumpsOnce
<1>8. Branched(vs, m + 1, is, ss)
  <2>1. \A p \in 1 .. m + 1 : p \in 1 .. m \/ p = m + 1  OBVIOUS
  <2> QED BY <1>4, <2>1 DEF EachHasOne, Branched
<1> QED BY <1>4, <1>6, <1>7, <1>8 DEF EachHasOne

\* A step that emits a jump enters its label.
LEMMA EachJump ==
    ASSUME NEW S, NEW us \in Seq(S), NEW i, IsJump(i), NEW T, NEW lt \in Seq(T), NEW l,
           NEW m \in Nat, NEW is, NEW ss, EachHasOne(us, lt, m, is, ss), i.pc = m + 1,
           ss[m + 1].kind = "LABEL", l.pc = ss[m + 1].pc, l.sym = ss[m + 1].sym,
           Len(lt) + 1 < 2^REG_SIZE => LabelIdx(i) = Len(lt) + 1
    PROVE  EachHasOne(Append(us, i), Append(lt, l), m + 1, is, ss)
<1> DEFINE vs == Append(us, i)
           mt == Append(lt, l)
<1>1. PICK n \in Nat : n = Len(us)  BY SeqBasics
<1>2. PICK q \in Nat : q = Len(lt)  BY SeqBasics
<1>3. /\ DOMAIN us = 1 .. n /\ DOMAIN vs = 1 .. n + 1
      /\ vs[n+1] = i /\ \A k \in 1 .. n : vs[k] = us[k]
  <2>1. us \in Seq(S \cup {i})  BY SeqWider
  <2> QED BY <1>1, <2>1, SeqBasics, AppendProperties
<1>4. /\ Len(mt) = q + 1 /\ mt[q+1] = l /\ \A k \in 1 .. q : mt[k] = lt[k]
  <2>1. lt \in Seq(T \cup {l})  BY SeqWider
  <2> QED BY <1>2, <2>1, SeqBasics, AppendProperties
<1> HIDE DEF vs, mt
<1>5. JumpsIn(vs) = JumpsIn(us) \cup {n + 1} /\ n + 1 \notin JumpsIn(us)
      /\ JumpsIn(us) \subseteq 1 .. n
  BY <1>3 DEF JumpsIn
<1>6. IsFiniteSet(JumpsIn(us)) /\ q = Cardinality(JumpsIn(us))
  BY <1>2 DEF EachHasOne
<1>7. IsFiniteSet(JumpsIn(vs)) /\ Len(mt) = Cardinality(JumpsIn(vs))
  BY <1>4, <1>5, <1>6, FS_AddElement
<1>8. ASSUME NEW k \in JumpsIn(us) PROVE Labelled(vs, mt, k, ss)
  <2>1. k \in 1 .. n /\ vs[k] = us[k]  BY <1>3, <1>5
  <2>2. Upto(vs, k) = Upto(us, k)  BY <1>5, <2>1 DEF Upto
  <2>3. Place(vs, k) = Place(us, k)  BY <2>2 DEF Place
  <2>4. Labelled(us, lt, k, ss)  BY DEF EachHasOne
  <2>5. PICK c \in 1 .. q : c = Place(us, k)  BY <1>2, <2>4 DEF Labelled
  <2>6. c \in 1 .. Len(mt) /\ mt[c] = lt[c]  BY <1>4, <2>5
  <2> QED BY <2>1, <2>3, <2>4, <2>5, <2>6 DEF Labelled
<1>9. Labelled(vs, mt, n + 1, ss)
  <2>1. Upto(vs, n + 1) = JumpsIn(vs)  BY <1>5 DEF Upto
  <2>2. Place(vs, n + 1) = q + 1  BY <1>4, <1>7, <2>1 DEF Place
  <2>3. vs[n+1] = i /\ mt[q+1] = l /\ q + 1 \in 1 .. Len(mt)  BY <1>3, <1>4
  <2>4. q + 1 < 2^REG_SIZE => LabelIdx(i) = q + 1  BY <1>2
  <2> QED BY <2>2, <2>3, <2>4 DEF Labelled
<1>10. JumpsOnce(vs, m + 1)
  <2>1. \A k \in JumpsIn(us) : vs[k] = us[k] /\ us[k].pc \in 1 .. m
    BY <1>3, <1>5 DEF EachHasOne, JumpsOnce
  <2>2. \A j, k \in JumpsIn(us) : us[j].pc = us[k].pc => j = k
    BY DEF EachHasOne, JumpsOnce
  <2>3. vs[n+1].pc = m + 1  BY <1>3
  <2>4. \A k \in JumpsIn(vs) : k \in JumpsIn(us) \/ k = n + 1  BY <1>5
  <2>5. \A k \in JumpsIn(us) : vs[k].pc \in 1 .. m + 1 /\ vs[k].pc # m + 1  BY <2>1
  <2>6. \A k \in JumpsIn(vs) : vs[k].pc \in 1 .. m + 1  BY <2>3, <2>4, <2>5
  <2>7. ASSUME NEW j \in JumpsIn(vs), NEW k \in JumpsIn(vs), vs[j].pc = vs[k].pc PROVE j = k
    <3>1. CASE j \in JumpsIn(us) /\ k \in JumpsIn(us)  BY <2>1, <2>2, <2>7, <3>1
    <3>2. CASE j = n + 1 \/ k = n + 1  BY <2>3, <2>4, <2>5, <2>7, <3>2
    <3> QED BY <2>4, <3>1, <3>2
  <2> QED BY <2>6, <2>7 DEF JumpsOnce
<1>11. Branched(vs, m + 1, is, ss)
  <2>1. \A p \in 1 .. m + 1 : p \in 1 .. m \/ p = m + 1  OBVIOUS
  <2>2. n + 1 \in JumpsIn(vs) /\ vs[n+1].pc = m + 1  BY <1>3, <1>5
  <2>3. \A k \in JumpsIn(us) : k \in JumpsIn(vs) /\ vs[k] = us[k]  BY <1>3, <1>5
  <2> QED BY <2>1, <2>2, <2>3 DEF EachHasOne, Branched
<1> QED BY <1>5, <1>7, <1>8, <1>9, <1>10, <1>11 DEF EachHasOne, vs, mt
-----------------------------------------------------------------------------
(* The labels as an invariant of the translation.                            *)

SearchAt(p) ==
    Get_label_index_for_branch(p, IF ins[p].op \in {"Br", "BrIf"} THEN ins[p].imm ELSE 0)

SearchResults == [p \in Nat |-> SearchAt(p)]

LabelInv ==
    /\ BlocksInv
    /\ \E S : uinsts \in Seq(S)
    /\ \E T : label_tab \in Seq(T)
    /\ build # "returned" => pc = 1 /\ uinsts = <<>> /\ label_tab = <<>>
    /\ \A m \in Nat : m = pc - 1 => EachHasOne(uinsts, label_tab, m, ins, SearchResults)

\* The search depends on the instructions and the blocks only.
LEMMA SearchSame == UNCHANGED <<ins, blocks>> => UNCHANGED SearchResults
<1> SUFFICES ASSUME UNCHANGED <<ins, blocks>> PROVE SearchResults' = SearchResults
  OBVIOUS
<1>1. \A p \in Nat : \A n : Get_label_index_for_branch(p, n)' = Get_label_index_for_branch(p, n)
  BY DEF Get_label_index_for_branch, BLOCK_FUNCTION, ABORT, INVALID, NOT_NEEDED,
         LabelAtStart, LabelInside, NewLabel, Ancestor
<1> QED BY <1>1 DEF SearchResults, SearchAt

\* A step of the pass that emits no jump: none is needed, or none is emitted on the
\* pass's own account.
LEMMA LabelQuiet ==
    ASSUME TransInv, LabelInv, build = "returned", UNCHANGED <<hierVars, label_tab>>, pc' = pc + 1,
           NEW S, uinsts' \in Seq(S), Len(uinsts) <= Len(uinsts'),
           SameUpTo(uinsts, uinsts', Len(uinsts)),
           \A k \in DOMAIN uinsts' : Len(uinsts) < k => ~IsJump(uinsts'[k]),
           Cur.op \in Jumps \cup CondJumps => Target \in {INVALID, NOT_NEEDED}
    PROVE  LabelInv'
<1>1. BlocksInv'
  <2>1. [HierNext]_hierVars  OBVIOUS
  <2> QED BY <2>1, BlocksInvNext DEF LabelInv
<1>2. ins' = ins /\ SearchResults' = SearchResults  BY SearchSame DEF hierVars
<1>3. ASSUME NEW m \in Nat, m = pc' - 1
      PROVE  EachHasOne(uinsts', label_tab, m, ins, SearchResults)
  <2>1. PICK n \in Nat : n = pc - 1 /\ m = n + 1  BY <1>3 DEF TransInv
  <2>2. EachHasOne(uinsts, label_tab, n, ins, SearchResults)  BY <2>1 DEF LabelInv
  <2>3. n + 1 = pc /\ SearchResults[n + 1] = Target
    BY <2>1 DEF SearchResults, SearchAt, Target, Cur, TransInv
  <2>4. PICK T : uinsts \in Seq(T)  BY DEF LabelInv
  <2>5. EachHasOne(uinsts', label_tab, n + 1, ins, SearchResults)
    BY <2>2, <2>3, <2>4, EachQuiet DEF Cur
  <2> QED BY <2>1, <2>5
<1>4. build' = "returned"  BY DEF hierVars
<1> QED BY <1>1, <1>2, <1>3, <1>4 DEF LabelInv

\* The jump instructions name their label, up to the width of its field.
LEMMA JumpFields ==
    ASSUME NEW l \in Nat \ {0}, NEW r
    PROVE  /\ LET i == UInst("UJMP", l, -1, -1, -1)
              IN  IsJump(i) /\ i.pc = pc /\ (l < 2^REG_SIZE => LabelIdx(i) = l)
           /\ LET i == UInst("UJNZ", r, -1, -1, l)
              IN  IsJump(i) /\ i.pc = pc /\ (l < 2^REG_SIZE => LabelIdx(i) = l)
<1>1. TY_AM["UJMP"] = "AM32_R" /\ TY_AM["UJNZ"] = "AM32_R_OFS" /\ l # -1  BY EmittedModes
<1>2. 2^REG_SIZE = 1024 /\ 2^12 = 4096  BY DEF REG_SIZE
<1>3. /\ l < 2^REG_SIZE => l % 2^REG_SIZE = l
      /\ l < 2^REG_SIZE => l % 2^12 = l
  BY <1>2
<1>4. OfsOf("AM32_R_OFS", l) = l % 2^12  BY Zenon DEF OfsOf
<1>5. UInst("UJMP", l, -1, -1, -1).op = "UJMP" /\ UInst("UJNZ", r, -1, -1, l).op = "UJNZ"
  BY UInstOp
<1>6. /\ UInst("UJMP", l, -1, -1, -1).pc = pc /\ UInst("UJNZ", r, -1, -1, l).pc = pc
      /\ UInst("UJMP", l, -1, -1, -1).rd = l % 2^REG_SIZE
      /\ UInst("UJNZ", r, -1, -1, l).ofs = OfsOf("AM32_R_OFS", l)
  BY <1>1 DEF UInst
<1> QED BY <1>3, <1>4, <1>5, <1>6 DEF IsJump, LabelIdx

\* A jump enters the label the search returned.
LEMMA LabelJump == ASSUME TransInv, LabelInv, Jump \/ CondJump PROVE LabelInv'
<1>1. /\ build = "returned" /\ UNCHANGED hierVars /\ pc' = pc + 1 /\ Target.kind = "LABEL"
      /\ label_tab' = Append(label_tab, [pc |-> Target.pc, sym |-> Target.sym])
  BY DEF Jump, CondJump, Translates, Continue, AddLabel
<1>2. BlocksInv'
  <2>1. [HierNext]_hierVars  BY <1>1
  <2> QED BY <2>1, BlocksInvNext DEF LabelInv
<1>3. ins' = ins /\ build' = "returned" /\ SearchResults' = SearchResults
  BY <1>1, SearchSame DEF hierVars
<1>4. PICK S : uinsts \in Seq(S)  BY DEF LabelInv
<1>5. PICK T : label_tab \in Seq(T)  BY DEF LabelInv
<1>6. PICK q \in Nat : q = Len(label_tab)  BY <1>5, SeqBasics
<1>7. PICK i : /\ uinsts' = Append(uinsts, i) /\ IsJump(i) /\ i.pc = pc
               /\ q + 1 < 2^REG_SIZE => LabelIdx(i) = q + 1
  <2>1. q + 1 \in Nat \ {0}  OBVIOUS
  <2>2. CASE Jump
    <3>1. uinsts' = Append(uinsts, UInst("UJMP", q + 1, -1, -1, -1))
      BY <1>6, <2>2 DEF Jump, Emit
    <3> QED BY <2>1, <3>1, JumpFields
  <2>3. CASE CondJump
    <3>1. PICK r : uinsts' = Append(uinsts, UInst("UJNZ", r, -1, -1, q + 1))
      BY <1>6, <2>3 DEF CondJump, Emit
    <3> QED BY <2>1, <3>1, JumpFields
  <2> QED BY <2>2, <2>3
<1>8. uinsts' \in Seq(S \cup {i})
  <2>1. uinsts \in Seq(S \cup {i})  BY <1>4, SeqWider
  <2> QED BY <1>7, <2>1, AppendProperties
<1>9. PICK l : label_tab' = Append(label_tab, l) /\ l.pc = Target.pc /\ l.sym = Target.sym
  BY <1>1
<1>10. label_tab' \in Seq(T \cup {l})
  <2>1. label_tab \in Seq(T \cup {l})  BY <1>5, SeqWider
  <2> QED BY <1>9, <2>1, AppendProperties
<1>11. ASSUME NEW m \in Nat, m = pc' - 1
       PROVE  EachHasOne(uinsts', label_tab', m, ins, SearchResults)
  <2>1. PICK n \in Nat : n = pc - 1 /\ m = n + 1  BY <1>1, <1>11 DEF TransInv
  <2>2. EachHasOne(uinsts, label_tab, n, ins, SearchResults)  BY <2>1 DEF LabelInv
  <2>3. n + 1 = pc /\ SearchResults[n + 1] = Target
    BY <2>1 DEF SearchResults, SearchAt, Target, Cur, TransInv
  <2>4. EachHasOne(Append(uinsts, i), Append(label_tab, l), n + 1, ins, SearchResults)
    BY <1>1, <1>4, <1>5, <1>6, <1>7, <1>9, <2>2, <2>3, EachJump
  <2> QED BY <1>7, <1>9, <2>1, <2>4
<1> QED BY <1>2, <1>3, <1>8, <1>10, <1>11 DEF LabelInv

\* One instruction more that is no jump.
LEMMA LabelOne ==
    ASSUME TransInv, LabelInv, build = "returned", UNCHANGED <<hierVars, label_tab>>, pc' = pc + 1,
           NEW i, uinsts' = Append(uinsts, i), i.op \notin {"UJMP", "UJNZ"},
           Cur.op \notin Jumps \cup CondJumps
    PROVE  LabelInv'
<1>1. PICK S : uinsts \in Seq(S)  BY DEF LabelInv
<1>2. uinsts \in Seq(S \cup {i})  BY <1>1, SeqWider
<1>3. PICK n \in Nat : n = Len(uinsts)  BY <1>1, SeqBasics
<1>4. /\ uinsts' \in Seq(S \cup {i}) /\ Len(uinsts') = n + 1 /\ uinsts'[n+1] = i
      /\ \A k \in 1 .. n : uinsts'[k] = uinsts[k]
  BY <1>2, <1>3, AppendProperties
<1>5. DOMAIN uinsts' = 1 .. n + 1  BY <1>4, SeqBasics
<1>6. SameUpTo(uinsts, uinsts', Len(uinsts))  BY <1>3, <1>4 DEF SameUpTo
<1>7. \A k \in DOMAIN uinsts' : Len(uinsts) < k => ~IsJump(uinsts'[k])
  BY <1>3, <1>4, <1>5 DEF IsJump
<1> QED BY <1>3, <1>4, <1>6, <1>7, LabelQuiet

\* None more.
LEMMA LabelNoMore ==
    ASSUME TransInv, LabelInv, build = "returned", UNCHANGED <<hierVars, label_tab, uinsts>>,
           pc' = pc + 1,
           Cur.op \in Jumps \cup CondJumps => Target \in {INVALID, NOT_NEEDED}
    PROVE  LabelInv'
<1>1. PICK S : uinsts \in Seq(S)  BY DEF LabelInv
<1>2. Len(uinsts) \in Nat /\ DOMAIN uinsts = 1 .. Len(uinsts)  BY <1>1, SeqBasics
<1>3. SameUpTo(uinsts, uinsts', Len(uinsts))  BY DEF SameUpTo
<1>4. \A k \in DOMAIN uinsts' : Len(uinsts) < k => ~IsJump(uinsts'[k])  BY <1>2
<1> QED BY <1>1, <1>2, <1>3, <1>4, LabelQuiet

\* A return emits two instructions, and neither is a jump.
LEMMA LabelReturn == ASSUME TransInv, LabelInv, Return PROVE LabelInv'
<1>1. /\ build = "returned" /\ UNCHANGED hierVars /\ pc' = pc + 1 /\ label_tab' = label_tab
      /\ Cur.op = "Return"
  BY DEF Return, Translates, Continue
<1>2. PICK i, j : /\ uinsts' = uinsts \o <<i, j>> /\ i.op = "URETURN"
                  /\ j = Rand_operand(UOPCODE_from_wasm["Return"])
  <2>1. PICK i, j : /\ uinsts' = uinsts \o <<i, j>> /\ i = UInst("URETURN", Top(1), -1, -1, -1)
                    /\ j = Rand_operand(UOPCODE_from_wasm["Return"])
    BY Zenon DEF Return
  <2>2. i.op = "URETURN"  BY <2>1, UInstOp
  <2> QED BY <2>1, <2>2
<1>3. j.op \notin {"UJMP", "UJNZ"}
  <2>1. "Return" \in (DOMAIN UOPCODE_from_wasm \ Handled) \cup {"Return"}  OBVIOUS
  <2> QED BY <1>2, <2>1, CopiedOps DEF OwnOps
<1>4. PICK S : uinsts \in Seq(S)  BY DEF LabelInv
<1>5. uinsts \in Seq(S \cup {i, j})  BY <1>4, SeqWider
<1>6. <<i, j>> \in Seq(S \cup {i, j}) /\ Len(<<i, j>>) = 2 /\ <<i, j>>[1] = i /\ <<i, j>>[2] = j
  OBVIOUS
<1>7. PICK n \in Nat : n = Len(uinsts)  BY <1>4, SeqBasics
<1>8. /\ uinsts' \in Seq(S \cup {i, j}) /\ Len(uinsts') = n + 2
      /\ \A k \in 1 .. n + 2 : uinsts'[k] = IF k <= n THEN uinsts[k] ELSE <<i, j>>[k - n]
  BY <1>2, <1>5, <1>6, <1>7, ConcatProperties
<1>9. DOMAIN uinsts' = 1 .. n + 2  BY <1>8, SeqBasics
<1>10. SameUpTo(uinsts, uinsts', Len(uinsts))  BY <1>7, <1>8 DEF SameUpTo
<1>11. ASSUME NEW k \in DOMAIN uinsts', Len(uinsts) < k PROVE ~IsJump(uinsts'[k])
  <2>1. k = n + 1 \/ k = n + 2  BY <1>7, <1>9, <1>11
  <2>2. uinsts'[n + 1] = i /\ uinsts'[n + 2] = j
    <3>1. n + 1 \in 1 .. n + 2 /\ ~(n + 1 <= n) /\ n + 1 - n = 1  OBVIOUS
    <3>2. n + 2 \in 1 .. n + 2 /\ ~(n + 2 <= n) /\ n + 2 - n = 2  OBVIOUS
    <3> QED BY <1>6, <1>8, <3>1, <3>2
  <2> QED BY <1>2, <1>3, <2>1, <2>2 DEF IsJump
<1>12. Cur.op \notin Jumps \cup CondJumps  BY <1>1 DEF Jumps, CondJumps
<1> QED BY <1>1, <1>7, <1>8, <1>10, <1>11, <1>12, LabelQuiet

\* The default case.
LEMMA LabelDefault == ASSUME TransInv, LabelInv, Default PROVE LabelInv'
<1>1. /\ build = "returned" /\ UNCHANGED <<hierVars, label_tab>> /\ pc' = pc + 1
      /\ Cur.op \in DOMAIN UOPCODE_from_wasm \ Handled
  BY DEF Default, Translates, Continue
<1>2. PICK i : i = Rand_operand(UOPCODE_from_wasm[Cur.op]) /\ uinsts' = Append(uinsts, i)
  BY Zenon DEF Default, Emit
<1>3. i.op \notin {"UJMP", "UJNZ"}  BY <1>1, <1>2, CopiedOps DEF OwnOps
<1>4. Cur.op \notin Jumps \cup CondJumps  BY <1>1 DEF Handled
<1> QED BY <1>1, <1>2, <1>3, <1>4, LabelOne

\* The other instructions the pass knows.
LEMMA LabelOther ==
    ASSUME TransInv, LabelInv,
           LocalSetTee \/ I32Load \/ I32Store \/ I32Const \/ Binary
    PROVE  LabelInv'
<1>1. /\ build = "returned" /\ UNCHANGED <<hierVars, label_tab>> /\ pc' = pc + 1
      /\ Cur.op \in Arithmetic \cup {"LocalSet", "LocalTee", "I32Load", "I32Store", "I32Const"}
  BY DEF LocalSetTee, I32Load, I32Store, I32Const, Binary, Translates, Continue
<1>2. \E op, rd, rs, rt, ofs :
          /\ uinsts' = Append(uinsts, UInst(op, rd, rs, rt, ofs))
          /\ op \in Arithmetic \cup {"UMOV", "I32Load", "I32Store", "I32Const"}
  <2>1. CASE LocalSetTee
    <3>1. uinsts' = Append(uinsts, UInst("UMOV", local_map[Cur.imm + 1], Top(1), -1, -1))
      BY <2>1, Zenon DEF LocalSetTee, Emit
    <3> QED BY <3>1
  <2>2. CASE I32Load
    <3>1. uinsts' = Append(uinsts, UInst("I32Load", NextTemp("I32"), Top(1), -1, Cur.imm))
      BY <2>2, Zenon DEF I32Load, Emit
    <3> QED BY <3>1
  <2>3. CASE I32Store
    <3>1. uinsts' = Append(uinsts, UInst("I32Store", Top(1), Top(2), Cur.imm, -1))
      BY <2>3, Zenon DEF I32Store, Emit
    <3> QED BY <3>1
  <2>4. CASE I32Const
    <3>1. uinsts' = Append(uinsts, UInst("I32Const", NextTemp("I32"), -1, -1, Cur.imm))
      BY <2>4, Zenon DEF I32Const, Emit
    <3> QED BY <3>1
  <2>5. CASE Binary
    <3>1. uinsts' = Append(uinsts, UInst(Cur.op, NextTemp("I32"), Top(1), Top(2), -1))
      BY <2>5, Zenon DEF Binary, Emit
    <3>2. Cur.op \in Arithmetic  BY <2>5 DEF Binary, Translates
    <3> QED BY <3>1, <3>2
  <2> QED BY <2>1, <2>2, <2>3, <2>4, <2>5
<1>3. PICK i : uinsts' = Append(uinsts, i) /\ i.op \notin {"UJMP", "UJNZ"}
  <2>1. PICK op, rd, rs, rt, ofs :
          /\ uinsts' = Append(uinsts, UInst(op, rd, rs, rt, ofs))
          /\ op \in Arithmetic \cup {"UMOV", "I32Load", "I32Store", "I32Const"}
    BY <1>2
  <2>2. op \notin {"UJMP", "UJNZ"}  BY <2>1 DEF Arithmetic
  <2> QED BY <2>1, <2>2, UInstOp
<1>4. Cur.op \notin Jumps \cup CondJumps  BY <1>1 DEF Jumps, CondJumps, Arithmetic
<1> QED BY <1>1, <1>3, <1>4, LabelOne

\* Nothing is emitted.
LEMMA LabelSkips == ASSUME TransInv, LabelInv, NoJump \/ Skip \/ LocalGet PROVE LabelInv'
<1>1. /\ build = "returned" /\ UNCHANGED <<hierVars, label_tab, uinsts>> /\ pc' = pc + 1
  BY DEF NoJump, Skip, LocalGet, Translates, Continue
<1>2. Cur.op \in Jumps \cup CondJumps => Target \in {INVALID, NOT_NEEDED}
  BY DEF NoJump, Skip, LocalGet, Translates, Jumps, CondJumps
<1> QED BY <1>1, <1>2, LabelNoMore

\* Where the pass stops.
LEMMA LabelStays ==
    ASSUME TransInv, LabelInv, UNCHANGED <<hierVars, pc, label_tab, uinsts>>
    PROVE  LabelInv'
<1>1. BlocksInv'
  <2>1. [HierNext]_hierVars  OBVIOUS
  <2> QED BY <2>1, BlocksInvNext DEF LabelInv
<1>2. ins' = ins /\ build' = build /\ SearchResults' = SearchResults  BY SearchSame DEF hierVars
<1> QED BY <1>1, <1>2 DEF LabelInv

\* The two passes before the translation: they emit nothing.
LEMMA LabelPrepare == ASSUME TransInv, LabelInv, Prepare PROVE LabelInv'
<1>1. UNCHANGED <<pc, label_tab, uinsts>>  BY DEF Prepare, transVars
<1>2. build # "returned"
  <2>1. CASE ConstructStep
    <3>1. ctor # "ready"
      BY <2>1 DEF ConstructStep, ReadParam, ParamsRead, ReadLocal, ReadF64Local, LocalsRead,
                  UnknownType
    <3> QED BY <3>1 DEF TransInv
  <2>2. CASE HierNext
    BY <2>2 DEF HierNext, OpenBlock, ElseBlock, ElseWithoutIf, EndBlock, EndIgnored,
                OtherInst, ReturnBlocks, At
  <2> QED BY <2>1, <2>2 DEF Prepare
<1>3. pc = 1 /\ uinsts = <<>> /\ label_tab = <<>>  BY <1>2 DEF LabelInv
<1>4. BlocksInv'
  <2>1. [HierNext]_hierVars  BY DEF Prepare
  <2> QED BY <2>1, BlocksInvNext DEF LabelInv
<1>5. ASSUME NEW m \in Nat, m = pc' - 1
      PROVE  EachHasOne(uinsts', label_tab', m, ins', SearchResults')
  <2>1. m = 0  BY <1>1, <1>3, <1>5
  <2> QED BY <1>1, <1>3, <2>1, EachNone
<1> QED BY <1>1, <1>3, <1>4, <1>5 DEF LabelInv

\* At the start there is neither.
LEMMA LabelInvInit == TransStart => LabelInv
<1> SUFFICES ASSUME TransStart PROVE LabelInv
  OBVIOUS
<1>1. pc = 1 /\ uinsts = <<>> /\ label_tab = <<>>  BY DEF TransStart, BLOCK_INSTR_BEGIN
<1>2. uinsts \in Seq({}) /\ label_tab \in Seq({})  BY <1>1, EmptySeq
<1>3. BlocksInv  BY BlocksInvInit DEF TransStart
<1>4. ASSUME NEW m \in Nat, m = pc - 1
      PROVE  EachHasOne(uinsts, label_tab, m, ins, SearchResults)
  <2>1. m = 0  BY <1>1, <1>4
  <2> QED BY <1>1, <2>1, EachNone
<1> QED BY <1>1, <1>2, <1>3, <1>4 DEF LabelInv

\* Every step of the translation keeps them.
LEMMA LabelInvNext == TransInv /\ LabelInv /\ [TransNext]_convVars => LabelInv'
<1> SUFFICES ASSUME TransInv, LabelInv, [TransNext]_convVars PROVE LabelInv'
  OBVIOUS
<1>1. CASE Prepare  BY <1>1, LabelPrepare
<1>2. ASSUME NEW how, Stop(how) PROVE LabelInv'  BY <1>2, LabelStays DEF Stop
<1>3. CASE BranchAborts \/ NoRegister \/ BinaryAborts \/ NotInTable \/ PopsEmptyStack \/ EndOfPass
  BY <1>2, <1>3 DEF BranchAborts, NoRegister, BinaryAborts, NotInTable, PopsEmptyStack, EndOfPass
<1>4. CASE Jump \/ CondJump  BY <1>4, LabelJump
<1>5. CASE NoJump \/ Skip \/ LocalGet  BY <1>5, LabelSkips
<1>6. CASE LocalSetTee \/ I32Load \/ I32Store \/ I32Const \/ Binary  BY <1>6, LabelOther
<1>7. CASE Return  BY <1>7, LabelReturn
<1>8. CASE Default  BY <1>8, LabelDefault
<1>9. CASE UNCHANGED convVars  BY <1>9, LabelStays DEF convVars, transVars
<1> QED BY <1>1, <1>3, <1>4, <1>5, <1>6, <1>7, <1>8, <1>9 DEF TransNext, TranslateStep

\* The number of labels fits the field of a jump.
LabelsFit == Len(label_tab) < 2^REG_SIZE

\* What is known of a jump of the code and its label.
LEMMA JumpAndLabel ==
    ASSUME TransInv, LabelInv, LabelsFit
    PROVE  /\ Len(label_tab) = Cardinality(JumpsOut)
           /\ \A k \in JumpsOut :
                 LET p == uinsts[k].pc
                     n == Cardinality({j \in JumpsOut : j <= k})
                 IN  /\ p \in Nat /\ 1 <= p /\ p < pc /\ LabelIdx(uinsts[k]) = n
                     /\ SearchAt(p).kind = "LABEL"
                     /\ LabelOf(k).pc = SearchAt(p).pc /\ LabelOf(k).sym = SearchAt(p).sym
                     /\ JumpsAt(p) = {k}
<1>1. PICK m \in Nat : m = pc - 1  BY DEF TransInv
<1>2. EachHasOne(uinsts, label_tab, m, ins, SearchResults)  BY <1>1 DEF LabelInv
<1>3. JumpsOut = JumpsIn(uinsts)  BY DEF JumpsOut, JumpsIn
<1>4. ASSUME NEW k \in JumpsOut
      PROVE  LET p == uinsts[k].pc
                 n == Cardinality({j \in JumpsOut : j <= k})
             IN  /\ p \in Nat /\ 1 <= p /\ p < pc /\ LabelIdx(uinsts[k]) = n
                 /\ SearchAt(p).kind = "LABEL"
                 /\ LabelOf(k).pc = SearchAt(p).pc /\ LabelOf(k).sym = SearchAt(p).sym
                 /\ JumpsAt(p) = {k}
  <2>1. PICK p \in 1 .. m : p = uinsts[k].pc  BY <1>2, <1>3 DEF EachHasOne, JumpsOnce
  <2>2. p \in Nat /\ 1 <= p /\ p < pc
    BY <1>1, <2>1 DEF TransInv
  <2>3. Labelled(uinsts, label_tab, k, SearchResults)  BY <1>2, <1>3 DEF EachHasOne
  <2>4. Place(uinsts, k) = Cardinality({j \in JumpsOut : j <= k})  BY <1>3 DEF Place, Upto
  <2>5. SearchResults[p] = SearchAt(p)  BY <2>2 DEF SearchResults
  <2>6. Len(label_tab) \in Nat
    <3>1. PICK T : label_tab \in Seq(T)  BY DEF LabelInv
    <3> QED BY <3>1, SeqBasics
  <2>7. PICK n \in 1 .. Len(label_tab) : n = Place(uinsts, k)  BY <2>3 DEF Labelled
  <2>8. n < 2^REG_SIZE
    <3>1. 2^REG_SIZE = 1024  BY DEF REG_SIZE
    <3> QED BY <2>6, <3>1 DEF LabelsFit
  <2>9. /\ LabelIdx(uinsts[k]) = n /\ SearchAt(p).kind = "LABEL"
        /\ label_tab[n].pc = SearchAt(p).pc /\ label_tab[n].sym = SearchAt(p).sym
    BY <2>1, <2>3, <2>5, <2>7, <2>8 DEF Labelled
  <2>10. JumpsAt(p) = {k}
    <3>1. \A j \in JumpsOut : uinsts[j].pc = uinsts[k].pc => j = k
      BY <1>2, <1>3 DEF EachHasOne, JumpsOnce
    <3> QED BY <2>1, <3>1 DEF JumpsAt
  <2> QED BY <2>1, <2>2, <2>4, <2>7, <2>9, <2>10 DEF LabelOf
<1>5. Len(label_tab) = Cardinality(JumpsOut)  BY <1>2, <1>3 DEF EachHasOne
<1> QED BY <1>4, <1>5

\* The block a label names is the innermost one around its jump.
LEMMA LabelPerJumpNow == TransInv /\ LabelInv => (LabelsFit => LabelPerJump)
<1> SUFFICES ASSUME TransInv, LabelInv, LabelsFit PROVE LabelPerJump
  OBVIOUS
<1>1. ASSUME NEW k \in JumpsOut
      PROVE  LabelOf(k).sym = InnermostBlk(uinsts[k].pc)
  <2>1. PICK p \in Nat : p = uinsts[k].pc  BY JumpAndLabel
  <2>2. SearchAt(p).kind = "LABEL" /\ LabelOf(k).sym = SearchAt(p).sym  BY <2>1, JumpAndLabel
  <2>3. BlocksInv  BY DEF LabelInv
  <2>4. PICK c \in DOMAIN blocks : Innermost(c, p) /\ SearchAt(p).sym = c
    BY <2>2, <2>3, LabelOwner DEF SearchAt
  <2> QED BY <2>1, <2>2, <2>3, <2>4, InnermostIs
<1> QED BY <1>1, JumpAndLabel DEF LabelPerJump

-----------------------------------------------------------------------------
\* For every function and every vector of instructions, as long as the number of labels
\* fits the field of a jump: the n-th jump of the code refers to the n-th label and to no
\* other, and the block its label names is the innermost one around the branch, so that
\* the search never stops at an outer block.
THEOREM TransLabelPerJump == TransSpec => [](LabelsFit => LabelPerJump)
<1>1. TransStart => LabelInv  BY LabelInvInit
<1>2. TransInv /\ LabelInv /\ [TransNext]_convVars => LabelInv'  BY LabelInvNext
<1>3. TransInv /\ LabelInv => (LabelsFit => LabelPerJump)  BY LabelPerJumpNow
<1> QED BY <1>1, <1>2, <1>3, TransInvariant, TransStarts, PTL DEF TransSpec
-----------------------------------------------------------------------------
(* What wasm says of the constructs around an instruction, by counting, and  *)
(* the blocks there.                                                         *)

\* The depth does not fall below that of an instruction without an end of what it opened.
LEMMA Descent ==
    ASSUME NEW a \in Nat, NEW b \in Nat, a < b, b <= Len(ins), Len(ins) \in Nat,
           Depth(b) < Depth(a)
    PROVE  \E j \in Ends(a) : j <= b
<1> DEFINE S == {n \in Nat : a < n /\ n <= Len(ins) /\ Depth(n) < Depth(a) =>
                    \E j \in Ends(a) : j <= n}
<1>1. 0 \in S  OBVIOUS
<1>2. ASSUME NEW n \in Nat, n \in S PROVE n + 1 \in S
  <2> SUFFICES ASSUME a < n + 1, n + 1 <= Len(ins), Depth(n + 1) < Depth(a)
               PROVE  \E j \in Ends(a) : j <= n + 1
    OBVIOUS
  <2>1. Depth(n) \in Int /\ Depth(n + 1) \in Int /\ Depth(a) \in Int  BY DepthStep
  <2>2. CASE Depth(n) < Depth(a)
    <3>1. a # n  BY <2>1, <2>2
    <3>2. PICK j \in Ends(a) : j <= n  BY <1>2, <2>2, <3>1
    <3>3. j \in Int  BY DEF Ends
    <3> QED BY <3>2, <3>3
  <2>3. CASE ~(Depth(n) < Depth(a))
    <3>1. ins[n + 1].op = "End"
      <4>1. /\ ins[n + 1].op \in DOMAIN Opens => Depth(n + 1) = Depth(n) + 1
            /\ ins[n + 1].op \notin DOMAIN Opens \cup {"End"} => Depth(n + 1) = Depth(n)
        BY DepthStep
      <4>2. Depth(n + 1) # Depth(n) + 1 /\ Depth(n + 1) # Depth(n)  BY <2>1, <2>3
      <4> QED BY <4>1, <4>2
    <3>2. Depth(n + 1) = Depth(n) - 1  BY <3>1, DepthStep
    <3>3. Depth(n + 1) = Depth(a) - 1  BY <2>1, <2>3, <3>2
    <3>4. n + 1 \in Ends(a)  BY <3>1, <3>3 DEF Ends
    <3> QED BY <3>4
  <2> QED BY <2>2, <2>3
<1>3. \A n \in Nat : n \in S => n + 1 \in S  BY <1>2
<1>4. b \in S
  <2> HIDE DEF S
  <2> QED BY <1>1, <1>3, SetInduction
<1> QED BY <1>4

\* Of two constructs around p the later is the deeper.
LEMMA AroundDeeper ==
    ASSUME NEW p \in Nat, p <= Len(ins), Len(ins) \in Nat,
           NEW s \in Around(p), NEW t \in Around(p), s < t
    PROVE  Depth(s) < Depth(t)
<1>1. s \in Nat /\ t \in Nat \ {0} /\ t < p /\ ins[t].op \in DOMAIN Opens
  BY DEF Around
<1>2. PICK n \in Nat : t = n + 1  BY <1>1
<1>3. Depth(t) = Depth(n) + 1 /\ Depth(n) \in Int /\ Depth(s) \in Int
  BY <1>1, <1>2, DepthStep
<1>4. ~(Depth(n) < Depth(s))
  <2> SUFFICES ASSUME Depth(n) < Depth(s) PROVE FALSE
    OBVIOUS
  <2>1. s < n
    <3>1. s # n  BY <1>3
    <3> QED BY <1>1, <1>2, <3>1
  <2>2. PICK j \in Ends(s) : j <= n  BY <1>1, <1>2, <2>1, Descent
  <2>3. j \in Int /\ s < j  BY <1>1 DEF Ends
  <2>4. j \in Ends(s) \cap 1 .. p  BY <1>1, <1>2, <2>2, <2>3
  <2> QED BY <2>4 DEF Around
<1> QED BY <1>3, <1>4

\* A construct around p at the right depth is the one wasm names.
LEMMA NthIs ==
    ASSUME NEW p \in Nat, p <= Len(ins), Len(ins) \in Nat, NEW s \in Around(p),
           NEW n, Depth(s) = Depth(p) - n
    PROVE  NthAround(p, n) = s
<1>1. ASSUME NEW t \in Around(p), Depth(t) = Depth(p) - n PROVE t = s
  <2>1. s \in Nat /\ t \in Nat  BY DEF Around
  <2>2. Depth(s) \in Int /\ Depth(t) \in Int  BY <2>1, DepthStep
  <2>3. ~(s < t)
    <3> SUFFICES ASSUME s < t PROVE FALSE
      OBVIOUS
    <3>1. Depth(s) < Depth(t)  BY AroundDeeper
    <3> QED BY <1>1, <2>2, <3>1
  <2>4. ~(t < s)
    <3> SUFFICES ASSUME t < s PROVE FALSE
      OBVIOUS
    <3>1. Depth(t) < Depth(s)  BY AroundDeeper
    <3> QED BY <1>1, <2>2, <3>1
  <2> QED BY <2>1, <2>3, <2>4
<1> QED BY <1>1 DEF NthAround

\* The body's instructions come before its end.
LEMMA InsideBody ==
    ASSUME BodyDone, NEW p \in Nat, p # 0, Early(p)
    PROVE  /\ blocks[1].end \in Nat /\ p < blocks[1].end /\ p <= Len(ins) /\ Len(ins) \in Nat
           /\ blocks[1].start = 1 /\ Spans(1, p)
           /\ \A q \in Nat : q < blocks[1].end => Early(q)
<1>1. /\ Len(ins) \in Nat /\ blocks[1].end \in Ends(0)
      /\ \A e \in Ends(0) : blocks[1].end <= e
  BY BodyDoneFacts
<1>2. \A e \in Ends(0) : e \in Nat /\ e <= Len(ins)  BY <1>1 DEF Ends
<1>3. p < blocks[1].end  BY <1>1 DEF Early
<1>4. blocks[1].start = 1  BY DEF BodyDone, BlocksInv, StartsInv
<1>5. Spans(1, p)  BY <1>3, <1>4 DEF Spans
<1>6. ASSUME NEW q \in Nat, q < blocks[1].end PROVE Early(q)
  BY <1>1, <1>2, <1>6 DEF Early
<1>7. p <= Len(ins)  BY <1>1, <1>2, <1>3
<1> QED BY <1>1, <1>2, <1>3, <1>4, <1>5, <1>6, <1>7

\* What is known of a block around p: it is closed within the body, where what opened it
\* is first closed.
LEMMA SpanFacts ==
    ASSUME BodyDone, NEW p \in Nat, p # 0, Early(p), NEW t \in DOMAIN blocks, Spans(t, p)
    PROVE  /\ t \in EarlyBlks(blocks)
           /\ Pos(blocks, t) \in Nat /\ Pos(blocks, t) <= p
           /\ blocks[t].start \in Nat /\ blocks[t].start <= p
           /\ blocks[t].end \in Nat /\ p < blocks[t].end /\ blocks[t].end <= Len(ins)
           /\ blocks[t].end \in Closers(Pos(blocks, t))
           /\ \A j \in Closers(Pos(blocks, t)) : blocks[t].end <= j
           /\ blocks[t].kind # "IF" => ins[blocks[t].end].op = "End"
           /\ t # 1 => /\ Pos(blocks, t) = blocks[t].start
                       /\ ins[blocks[t].start].op \in Starting
                       /\ blocks[t].kind = KindOf(ins[blocks[t].start].op)
                       /\ blocks[t].end < blocks[1].end
<1>1. blocks[t].start \in Nat \ {0} /\ blocks[t].end \in Nat  BY BlockFields DEF BodyDone
<1>2. blocks[t].start <= p /\ p < blocks[t].end  BY DEF Spans
<1>3. t \in EarlyBlks(blocks)  BY <1>2, SpansEarly
<1>4. Pos(blocks, t) \in Nat /\ Pos(blocks, t) <= p  BY <1>1, <1>2 DEF Pos
<1>5. BodyFacts(blocks, Len(ins)) /\ ~IsOpen(blocks, t)  BY <1>3, BodyDoneFacts DEF IsOpen
<1>6. /\ blocks[t].end \in Closers(Pos(blocks, t)) /\ blocks[t].end <= Len(ins)
      /\ \A j \in Closers(Pos(blocks, t)) : blocks[t].end <= j
      /\ blocks[t].kind # "IF" => ins[blocks[t].end].op = "End"
  BY <1>3, <1>5 DEF BodyFacts, Ended
<1>7. ASSUME t # 1
      PROVE  /\ Pos(blocks, t) = blocks[t].start
             /\ ins[blocks[t].start].op \in Starting
             /\ blocks[t].kind = KindOf(ins[blocks[t].start].op)
             /\ blocks[t].end < blocks[1].end
  <2>1. Pos(blocks, t) = blocks[t].start  BY <1>7 DEF Pos, BLOCK_FUNCTION
  <2>2. /\ ins[blocks[t].start].op \in Starting
        /\ blocks[t].kind = KindOf(ins[blocks[t].start].op)
    BY <1>3, <1>5, <1>7 DEF BodyFacts, Opened
  <2>3. Spans(1, p)  BY InsideBody
  <2>4. 1 \in DOMAIN blocks /\ 1 < t  BY <1>7, BlockFields DEF BodyDone
  <2>5. BlocksInv  BY DEF BodyDone
  <2>6. blocks[t].end < blocks[1].end  BY <1>2, <2>3, <2>4, <2>5, SpansNested
  <2> QED BY <2>1, <2>2, <2>6
<1> QED BY <1>1, <1>2, <1>3, <1>4, <1>6, <1>7

\* The kind of a block tells the instruction that opened it.
LEMMA KindTells ==
    ASSUME NEW op \in Starting
    PROVE  /\ KindOf(op) = "ELSE" => op = "Else"
           /\ KindOf(op) # "ELSE" => op \in DOMAIN Opens
           /\ KindOf(op) = "IF" <=> op = "If"
           /\ KindOf(op) = "LOOP" <=> op = "Loop"
           /\ KindOf(op) # "FUNC"
           /\ op \notin {"Br", "BrIf", "End"}
<1>1. op \in {"If", "Block", "Loop", "Else"}  BY DEF Starting, Opens
<1>2. /\ Opens["If"] = "IF" /\ Opens["Block"] = "BLOCK" /\ Opens["Loop"] = "LOOP"
      /\ "If" \in DOMAIN Opens /\ "Block" \in DOMAIN Opens /\ "Loop" \in DOMAIN Opens
  BY DEF Opens
<1> QED BY <1>1, <1>2 DEF KindOf

\* The innermost block around p is as deep as p.
LEMMA InnermostDepth ==
    ASSUME BodyDone, NEW p \in Nat, p # 0, Early(p), NEW c \in DOMAIN blocks, Innermost(c, p)
    PROVE  Depth(Pos(blocks, c)) = Depth(p)
<1>1. BodyFacts(blocks, Len(ins)) /\ p \in 0 .. Len(ins)  BY BodyDoneFacts, InsideBody
<1>2. PICK t \in EarlyBlks(blocks) :
          /\ Covers(blocks, t, p) /\ Depth(Pos(blocks, t)) = Depth(p)
          /\ \A b \in DOMAIN blocks : Covers(blocks, b, p) => b <= t
  BY <1>1 DEF BodyFacts, Topped, TopAt
<1>3. t \in DOMAIN blocks /\ t \in Nat /\ c \in Nat  BY BlockFields DEF BodyDone, EarlyBlks
<1>4. Covers(blocks, c, p)
  <2>1. Spans(c, p)  BY DEF Innermost
  <2> QED BY <2>1, SpanFacts DEF Covers
<1>5. c <= t  BY <1>2, <1>4
<1>6. Spans(t, p)
  <2>1. ~IsOpen(blocks, t)  BY <1>2, BodyDoneFacts DEF IsOpen
  <2>2. Pos(blocks, t) <= p /\ p < blocks[t].end  BY <1>2, <2>1 DEF Covers
  <2>3. CASE t = 1  BY <2>3, InsideBody
  <2>4. CASE t # 1  BY <2>2, <2>4 DEF Pos, BLOCK_FUNCTION, Spans
  <2> QED BY <2>3, <2>4
<1>7. t <= c  BY <1>3, <1>6 DEF Innermost
<1> QED BY <1>2, <1>3, <1>5, <1>7

\* What the first part of an if is closed by, and what the other constructs are.
LEMMA EndsClose ==
    ASSUME NEW s \in Nat
    PROVE  /\ Ends(s) \subseteq Closers(s) /\ Closers(s) \subseteq Nat /\ s \notin Closers(s)
           /\ \A j \in Closers(s) : /\ s < j /\ j <= Len(ins) /\ ins[j].op \in {"End", "Else"}
                                    /\ ins[j].op = "End" => j \in Ends(s)
                                    /\ ins[j].op = "Else" => Depth(j) = Depth(s)
<1>1. \A j \in Closers(s) : j \in Int /\ s < j  BY DEF Closers
<1> QED BY <1>1 DEF Ends, Closers

\* A block around p that is no second part of an if is what wasm has around p.
LEMMA BlockAround ==
    ASSUME BodyDone, NEW p \in Nat, p # 0, Early(p), ins[p].op \notin Starting,
           NEW t \in DOMAIN blocks, Spans(t, p), blocks[t].kind # "ELSE"
    PROVE  /\ Pos(blocks, t) \in Around(p)
           /\ Pos(blocks, t) > 0 <=> t # 1
           /\ ins[blocks[t].end].op = "End" => EndOf(Pos(blocks, t)) = blocks[t].end
<1> DEFINE s == Pos(blocks, t)
           e == blocks[t].end
<1>1. /\ s \in Nat /\ s <= p /\ e \in Closers(s) /\ p < e
      /\ \A j \in Closers(s) : e <= j
      /\ t # 1 => s = blocks[t].start /\ ins[s].op \in Starting
                  /\ blocks[t].kind = KindOf(ins[s].op)
  BY SpanFacts
<1>2. t # 1 => ins[s].op \in DOMAIN Opens  BY <1>1, KindTells
<1>3. s > 0 <=> t # 1
  <2>1. t = 1 => s = 0  BY DEF Pos, BLOCK_FUNCTION
  <2>2. blocks[t].start \in Nat \ {0}  BY BlockFields DEF BodyDone
  <2> QED BY <1>1, <2>1, <2>2
<1> HIDE DEF s, e
<1>4. s # p
  <2>1. t = 1 => s # p  BY <1>1, <1>3
  <2>2. t # 1 => s # p  BY <1>1
  <2> QED BY <2>1, <2>2
<1>5. s \in 0 .. p - 1  BY <1>1, <1>4
<1>6. Ends(s) \cap 1 .. p = {}
  <2> SUFFICES ASSUME NEW j \in Ends(s), j \in 1 .. p PROVE FALSE
    OBVIOUS
  <2>1. e <= j /\ e \in Nat  BY <1>1, EndsClose
  <2> QED BY <1>1, <2>1
<1>7. s \in Around(p)  BY <1>2, <1>3, <1>5, <1>6 DEF Around
<1>8. ASSUME ins[e].op = "End" PROVE EndOf(s) = e
  <2>1. e \in Ends(s)  BY <1>1, <1>8, EndsClose
  <2>2. Ends(s) \subseteq Int /\ \A j \in Ends(s) : e <= j  BY <1>1, EndsClose
  <2>3. Min(Ends(s)) = e  BY <2>1, <2>2, MinIs
  <2> QED BY <2>3 DEF EndOf
<1> QED BY <1>3, <1>7, <1>8 DEF s, e

\* The label of a branch to block t.
LabelTo(t) == (IF blocks[t].kind = "LOOP" THEN blocks[t].start ELSE blocks[t].end) + 1

\* That is where wasm continues, when the block ends at an end or is a loop.
LEMMA BranchToBlock ==
    ASSUME BodyDone, NEW p \in Nat, p # 0, Early(p), ins[p].op \in {"Br", "BrIf"},
           NEW t \in DOMAIN blocks, Spans(t, p), blocks[t].kind # "ELSE",
           ins[blocks[t].end].op = "End",
           Depth(Pos(blocks, t)) = Depth(p) - ins[p].imm
    PROVE  Reaches(p) /\ WasmTarget(p) = LabelTo(t)
<1> DEFINE s == Pos(blocks, t)
<1>1. ins[p].op \notin Starting /\ ins[p].op # "If"  BY KindTells
<1>2. s \in Around(p) /\ (s > 0 <=> t # 1) /\ EndOf(s) = blocks[t].end
  BY <1>1, BlockAround
<1>3. Reaches(p)  BY <1>2 DEF Reaches
<1>4. NthAround(p, ins[p].imm) = s
  <2>1. p <= Len(ins) /\ Len(ins) \in Nat  BY InsideBody
  <2>2. Depth(s) = Depth(p) - ins[p].imm  OBVIOUS
  <2> HIDE DEF s
  <2> QED BY <1>2, <2>1, <2>2, NthIs
<1>5. t # 1 => /\ s = blocks[t].start /\ ins[s].op \in Starting
               /\ blocks[t].kind = KindOf(ins[s].op)
  BY SpanFacts
<1>6. (s > 0 /\ ins[s].op = "Loop") <=> blocks[t].kind = "LOOP"
  <2>1. t = 1 => blocks[t].kind # "LOOP"  BY BodyDoneFacts
  <2> HIDE DEF s
  <2> QED BY <1>2, <1>5, <2>1, KindTells
<1>7. WasmTarget(p) = IF s > 0 /\ ins[s].op = "Loop" THEN s + 1 ELSE EndOf(s) + 1
  BY <1>1, <1>4 DEF WasmTarget
<1>8. blocks[t].kind = "LOOP" => s = blocks[t].start  BY <1>5, BodyDoneFacts
<1> HIDE DEF s
<1> QED BY <1>2, <1>3, <1>6, <1>7, <1>8 DEF LabelTo

\* An if whose first part is closed by an else has an end after it.
LEMMA SecondPart ==
    ASSUME BodyDone, NEW p \in Nat, p # 0, Early(p),
           NEW t \in DOMAIN blocks, t # 1, Spans(t, p), ins[blocks[t].end].op = "Else"
    PROVE  /\ Min(Closers(blocks[t].start)) = blocks[t].end
           /\ blocks[t].end < EndOf(blocks[t].start)
<1> DEFINE s == blocks[t].start
           e == blocks[t].end
<1>1. /\ s \in Nat /\ e \in Nat /\ e \in Closers(s) /\ e <= Len(ins) /\ p < e
      /\ e < blocks[1].end
      /\ \A j \in Closers(s) : e <= j
  BY SpanFacts
<1>2. Early(e)  BY <1>1, InsideBody
<1>3. Min(Closers(s)) = e
  <2> HIDE DEF s, e
  <2>1. Closers(s) \subseteq Int  BY <1>1, EndsClose
  <2> QED BY <1>1, <2>1, MinIs
<1>4. ins[e].op = "Else" /\ Depth(e) = Depth(s)  BY <1>1, EndsClose
<1>5. PICK b \in DOMAIN blocks : b # 1 /\ blocks[b].start = e
  <2>1. Found(blocks, Len(ins)) /\ Len(ins) \in Nat  BY BodyDoneFacts DEF BodyFacts
  <2>2. ins[e].op \in Starting /\ e \in 1 .. Len(ins)  BY <1>1, <1>4, <2>1 DEF Starting
  <2> QED BY <1>2, <2>1, <2>2 DEF Found
<1>6. e # 0  BY <1>1
<1>7. Spans(b, e)
  <2>1. b \in EarlyBlks(blocks)  BY <1>1, <1>2, <1>5, SpansEarly
  <2>2. ~IsOpen(blocks, b)  BY <2>1, BodyDoneFacts DEF IsOpen
  <2>3. blocks[b].start < blocks[b].end  BY <1>5, <2>2 DEF BodyDone, BlocksInv, StartsInv
  <2> QED BY <1>1, <1>5, <2>3 DEF Spans
<1> HIDE DEF s, e
<1>8. /\ blocks[b].end \in Closers(e) /\ e < blocks[b].end
      /\ blocks[b].kind = "ELSE" /\ ins[blocks[b].end].op = "End"
  <2>1. /\ blocks[b].end \in Closers(Pos(blocks, b)) /\ Pos(blocks, b) = blocks[b].start
        /\ e < blocks[b].end
        /\ blocks[b].kind # "IF" => ins[blocks[b].end].op = "End"
        /\ blocks[b].kind = KindOf(ins[blocks[b].start].op)
    BY <1>1, <1>2, <1>5, <1>6, <1>7, SpanFacts
  <2>2. blocks[b].kind = "ELSE"  BY <1>4, <1>5, <2>1 DEF KindOf
  <2> QED BY <1>5, <2>1, <2>2
<1> DEFINE x == blocks[b].end
<1>9. x \in Ends(s)
  <2>1. x \in Ends(e)  BY <1>1, <1>8, EndsClose
  <2>2. x \in e + 1 .. Len(ins) /\ ins[x].op = "End" /\ Depth(x) = Depth(e) - 1
    BY <2>1 DEF Ends
  <2>3. s < e  BY <1>1, EndsClose
  <2>4. Len(ins) \in Nat  BY BodyDoneFacts
  <2>5. x \in s + 1 .. Len(ins)  BY <1>1, <2>2, <2>3, <2>4
  <2> QED BY <1>4, <2>2, <2>5 DEF Ends
<1> HIDE DEF x
<1>10. Ends(s) \subseteq Nat /\ \A j \in Ends(s) : e < j
  <2>1. Ends(s) \subseteq Closers(s) /\ Closers(s) \subseteq Nat  BY <1>1, EndsClose
  <2>2. \A j \in Ends(s) : j # e
    <3>1. \A j \in Ends(s) : ins[j].op = "End"  BY DEF Ends
    <3> QED BY <1>4, <3>1
  <2>3. \A j \in Ends(s) : j \in Nat /\ e <= j /\ j # e  BY <1>1, <2>1, <2>2
  <2> QED BY <1>1, <2>1, <2>3
<1>11. PICK y \in Ends(s) : \A j \in Ends(s) : y <= j  BY <1>9, <1>10, SmallestOf
<1>12. EndOf(s) = y
  <2>1. Ends(s) \subseteq Int  BY <1>10
  <2> QED BY <1>11, <2>1, MinIs DEF EndOf
<1>13. e < EndOf(s)  BY <1>10, <1>11, <1>12
<1> QED BY <1>3, <1>13 DEF s, e

\* A branch out of a first part that a second one follows.
LEMMA BranchToFirst ==
    ASSUME BodyDone, NEW p \in Nat, p # 0, Early(p), ins[p].op \in {"Br", "BrIf"},
           NEW t \in DOMAIN blocks, Spans(t, p), blocks[t].kind = "IF",
           ins[blocks[t].end].op = "Else",
           Depth(Pos(blocks, t)) = Depth(p) - ins[p].imm
    PROVE  Reaches(p) /\ LeavesThenPart(p)
<1>1. ins[p].op \notin Starting /\ ins[p].op # "If"  BY KindTells
<1>2. t # 1  BY BodyDoneFacts
<1> DEFINE s == blocks[t].start
<1>3. s = Pos(blocks, t) /\ ins[s].op \in Starting /\ blocks[t].kind = KindOf(ins[s].op)
      /\ p < blocks[t].end
  BY <1>2, SpanFacts
<1>4. ins[s].op = "If"  BY <1>3, KindTells
<1>5. s \in Around(p) /\ s > 0  BY <1>1, <1>2, <1>3, BlockAround
<1>6. Depth(s) = Depth(p) - ins[p].imm  BY <1>3
<1>7. Min(Closers(s)) = blocks[t].end /\ blocks[t].end < EndOf(s)  BY <1>2, SecondPart
<1> HIDE DEF s
<1>8. NthAround(p, ins[p].imm) = s
  <2>1. p <= Len(ins) /\ Len(ins) \in Nat  BY InsideBody
  <2> QED BY <1>5, <1>6, <2>1, NthIs
<1>9. Reaches(p)  BY <1>5, <1>6 DEF Reaches
<1>10. LeavesThenPart(p)  BY <1>3, <1>4, <1>5, <1>7, <1>8 DEF LeavesThenPart
<1> QED BY <1>9, <1>10

\* A branch out of a second part leaves the if it belongs to.
LEMMA BranchToElse ==
    ASSUME BodyDone, NEW p \in Nat, p # 0, Early(p), ins[p].op \in {"Br", "BrIf"},
           NEW t \in DOMAIN blocks, Spans(t, p), blocks[t].kind = "ELSE",
           Depth(Pos(blocks, t)) = Depth(p) - ins[p].imm
    PROVE  Reaches(p) /\ WasmTarget(p) = LabelTo(t)
<1>1. ins[p].op # "If" /\ t # 1  BY BodyDoneFacts
<1> DEFINE m == blocks[t].start
           e == blocks[t].end
<1>2. /\ m \in Nat /\ m <= p /\ e \in Nat /\ p < e /\ e \in Closers(m)
      /\ m = Pos(blocks, t) /\ ins[m].op = "Else" /\ ins[e].op = "End"
      /\ \A j \in Closers(m) : e <= j
      /\ t \in EarlyBlks(blocks)
  <2>1. /\ m \in Nat /\ m <= p /\ e \in Nat /\ p < e /\ e \in Closers(Pos(blocks, t))
        /\ m = Pos(blocks, t) /\ ins[e].op = "End"
        /\ \A j \in Closers(Pos(blocks, t)) : e <= j
        /\ t \in EarlyBlks(blocks)
        /\ ins[m].op \in Starting /\ blocks[t].kind = KindOf(ins[m].op)
    BY <1>1, SpanFacts
  <2> QED BY <2>1, KindTells
<1>3. IfClosedFor(blocks, t)  BY DEF BodyDone, BlocksInv, HierInv, TreeInv, ElseAfterIf
<1>4. PICK b \in 1 .. t - 1 : /\ blocks[b].kind = "IF" /\ blocks[b].parent = blocks[t].parent
                              /\ blocks[b].end = m
  BY <1>3 DEF IfClosedFor
<1>5. b \in DOMAIN blocks /\ b # 1 /\ b < t
  <2>1. DOMAIN blocks = 1 .. Len(blocks) /\ Len(blocks) \in Nat  BY BlockFields DEF BodyDone
  <2>2. b # 1  BY <1>4, BodyDoneFacts
  <2> QED BY <1>4, <2>1, <2>2
<1> DEFINE s == blocks[b].start
<1>6. s \in Nat \ {0} /\ s < m
  <2>1. s \in Nat \ {0}  BY <1>5, BlockFields DEF BodyDone
  <2>2. 1 < b  BY <1>4, <1>5
  <2>3. s < m  BY <1>5, <2>2 DEF BodyDone, BlocksInv, StartsInv
  <2> QED BY <2>1, <2>3
<1>7. b \in EarlyBlks(blocks) /\ blocks[b].end # 0
  <2>1. s <= p  BY <1>2, <1>6
  <2>2. b \in EarlyBlks(blocks)  BY <1>5, <2>1, SpansEarly
  <2> QED BY <2>2, BodyDoneFacts
<1>8. /\ ins[s].op \in Starting /\ KindOf(ins[s].op) = "IF"
      /\ Depth(s) = Depth(m)
      /\ \A j \in Closers(s) : m <= j
  <2>1. Opened(blocks) /\ Ended(blocks, Len(ins))  BY BodyDoneFacts DEF BodyFacts
  <2>2. /\ ins[s].op \in Starting /\ blocks[b].kind = KindOf(ins[s].op)
        /\ Depth(s) = Depth(Pos(blocks, blocks[b].parent)) + 1
    BY <1>5, <1>7, <2>1 DEF Opened
  <2>3. Depth(m) = Depth(Pos(blocks, blocks[t].parent)) + 1
    BY <1>1, <1>2, <2>1 DEF Opened
  <2>4. Pos(blocks, b) = s  BY <1>5 DEF Pos, BLOCK_FUNCTION
  <2>5. \A j \in Closers(Pos(blocks, b)) : blocks[b].end <= j
    BY <1>7, <2>1 DEF Ended, IsOpen
  <2> QED BY <1>4, <2>2, <2>3, <2>4, <2>5
<1> HIDE DEF s, m, e
<1>9. ins[s].op = "If" /\ ins[s].op \in DOMAIN Opens  BY <1>8, KindTells
<1>10. \A j \in Ends(s) : e <= j
  <2> SUFFICES ASSUME NEW j \in Ends(s) PROVE e <= j
    OBVIOUS
  <2>1. j \in Nat /\ m <= j /\ ins[j].op = "End"  BY <1>6, <1>8, EndsClose DEF Ends
  <2>2. m < j  BY <1>2, <2>1
  <2>3. Depth(j) = Depth(m) - 1 /\ j <= Len(ins) /\ Len(ins) \in Nat
    <3>1. Depth(j) = Depth(s) - 1 /\ j \in Closers(s)  BY <1>6, EndsClose DEF Ends
    <3> QED BY <1>6, <1>8, <3>1, EndsClose, BodyDoneFacts
  <2>4. j \in Ends(m)  BY <1>2, <2>1, <2>2, <2>3 DEF Ends
  <2> QED BY <1>2, <2>4, EndsClose
<1>11. e \in Ends(s)
  <2>1. e \in Ends(m)  BY <1>2, EndsClose
  <2>2. Depth(e) = Depth(m) - 1 /\ e <= Len(ins) /\ Len(ins) \in Nat
    <3>1. e <= Len(ins)  BY <1>2, EndsClose
    <3> QED BY <2>1, <3>1, BodyDoneFacts DEF Ends
  <2>3. s < e  BY <1>2, <1>6
  <2>4. e \in s + 1 .. Len(ins)  BY <1>2, <1>6, <2>2, <2>3
  <2> QED BY <1>2, <1>8, <2>2, <2>4 DEF Ends
<1>12. EndOf(s) = e
  <2>1. Ends(s) \subseteq Int  BY <1>6, EndsClose
  <2> QED BY <1>10, <1>11, <2>1, MinIs DEF EndOf
<1>13. s \in Around(p)
  <2>1. s \in 0 .. p - 1  BY <1>2, <1>6
  <2>2. Ends(s) \cap 1 .. p = {}
    <3> SUFFICES ASSUME NEW j \in Ends(s), j \in 1 .. p PROVE FALSE
      OBVIOUS
    <3>1. e <= j  BY <1>10
    <3> QED BY <1>2, <3>1
  <2> QED BY <1>9, <2>1, <2>2 DEF Around
<1>14. Depth(s) = Depth(p) - ins[p].imm  BY <1>2, <1>8
<1>15. NthAround(p, ins[p].imm) = s
  <2>1. p <= Len(ins) /\ Len(ins) \in Nat  BY InsideBody
  <2> QED BY <1>13, <1>14, <2>1, NthIs
<1>16. WasmTarget(p) = e + 1
  <2>1. ~(s > 0 /\ ins[s].op = "Loop")  BY <1>9
  <2> QED BY <1>1, <1>12, <1>15, <2>1 DEF WasmTarget
<1>17. Reaches(p)  BY <1>13, <1>14 DEF Reaches
<1>18. LabelTo(t) = e + 1  BY DEF LabelTo, e
<1> QED BY <1>16, <1>17, <1>18
-----------------------------------------------------------------------------
(* The labels of ifs and branches.                                           *)

Targeted(p) == ins[p].op \in {"If", "Br", "BrIf"}

\* The search aborts while the function block is open.
LEMMA OpenAborts ==
    ASSUME BlocksInv, NEW p \in Nat, NEW n, Get_label_index_for_branch(p, n) # ABORT
    PROVE  blocks[1].end # 0
<1> SUFFICES ASSUME blocks[1].end = 0 PROVE FALSE
  OBVIOUS
<1>1. PICK v : /\ \A b \in DOMAIN blocks : v[b] = Answer(v, b, p, n)
               /\ Get_label_index_for_branch(p, n) = v[1]
  BY SearchIs
<1>2. 1 \in DOMAIN blocks  BY BlockFields
<1>3. Answer(v, 1, p, n) = ABORT  BY <1>2, AnswerIs
<1> QED BY <1>1, <1>2, <1>3

\* What is inside a block aborts or has a label.
LEMMA InnerHas ==
    ASSUME NEW c, NEW p, NEW n, NEW r, Inner(c, p, n, r)
    PROVE  r # NOT_NEEDED /\ r # INVALID
<1>1. r = LabelInside(c, n)  BY DEF Inner
<1>2. r = ABORT \/ \E t, s : r = NewLabel(t, s)  BY <1>1, InsideIs
<1> QED BY <1>2, KindsApart

\* An if or a branch is never without a label: it is inside the function block, and at no
\* end and at no loop.
LEMMA AlwaysNeeded ==
    ASSUME BodyDone, NEW p \in Nat, p # 0, Early(p), Targeted(p), NEW n
    PROVE  Get_label_index_for_branch(p, n) \notin {INVALID, NOT_NEEDED}
<1> DEFINE r == Get_label_index_for_branch(p, n)
<1>1. Says(1, p, n, r)  BY SearchSays DEF BodyDone
<1> HIDE DEF r
<1>2. r # INVALID
  <2> SUFFICES ASSUME r = INVALID PROVE FALSE
    OBVIOUS
  <2>1. Outside(1, p, INVALID)  BY <1>1, InvalidOutside
  <2>2. blocks[1].end \in Nat /\ p < blocks[1].end /\ blocks[1].start = 1  BY InsideBody
  <2> QED BY <2>1, <2>2 DEF Outside
<1>3. r # NOT_NEEDED
  <2> SUFFICES ASSUME r = NOT_NEEDED PROVE FALSE
    OBVIOUS
  <2>1. ~Outside(1, p, r) /\ r # ABORT  BY KindsApart DEF Outside
  <2>2. \A c : ~AtOpener(c, p, r)  BY KindsApart DEF AtOpener
  <2>3. \A c : ~Inner(c, p, n, r)  BY InnerHas
  <2>4. PICK c \in DOMAIN blocks : Skips(c, p)
    BY <1>1, <2>1, <2>2, <2>3 DEF Says, Answers
  <2>5. blocks[c].start \in Nat \ {0} /\ blocks[c].end \in Nat
    BY BlockFields DEF BodyDone
  <2>6. blocks[c].start <= p /\ blocks[c].end # 0  BY <2>4, <2>5 DEF Skips, Holds
  <2>7. c \in EarlyBlks(blocks)  BY <2>6, SpansEarly
  <2>8. Opened(blocks) /\ Ended(blocks, Len(ins))  BY BodyDoneFacts DEF BodyFacts
  <2>9. CASE p = blocks[c].end
    <3>1. blocks[c].end \in Closers(Pos(blocks, c))  BY <2>6, <2>7, <2>8 DEF Ended, IsOpen
    <3>2. ins[p].op \in {"End", "Else"}  BY <2>9, <3>1 DEF Closers
    <3> QED BY <3>2 DEF Targeted
  <2>10. CASE p = blocks[c].start /\ blocks[c].kind = "LOOP"
    <3>1. c # 1  BY <2>10, BodyDoneFacts
    <3>2. ins[p].op \in Starting /\ KindOf(ins[p].op) = "LOOP"
      BY <2>7, <2>8, <2>10, <3>1 DEF Opened
    <3>3. ins[p].op = "Loop"  BY <3>2, KindTells
    <3> QED BY <3>3 DEF Targeted
  <2> QED BY <2>4, <2>9, <2>10 DEF Skips
<1> QED BY <1>2, <1>3 DEF r

\* The label of an if is where its first part is closed.
LEMMA IfLabel ==
    ASSUME BodyDone, NEW p \in Nat, p # 0, Early(p), ins[p].op = "If", NEW n,
           Get_label_index_for_branch(p, n).kind = "LABEL"
    PROVE  Get_label_index_for_branch(p, n).pc = WasmTarget(p)
<1> DEFINE r == Get_label_index_for_branch(p, n)
<1>1. PICK c \in DOMAIN blocks : Innermost(c, p) /\ (AtOpener(c, p, r) \/ Inner(c, p, n, r))
  BY LabelOwner DEF BodyDone
<1> HIDE DEF r
<1>2. PICK b \in DOMAIN blocks : b # 1 /\ blocks[b].start = p
  <2>1. Found(blocks, Len(ins)) /\ Len(ins) \in Nat  BY BodyDoneFacts DEF BodyFacts
  <2>2. ins[p].op \in Starting /\ p \in 1 .. Len(ins)
    BY InsideBody DEF Starting, Opens
  <2> QED BY <2>1, <2>2 DEF Found
<1>3. Spans(b, p)
  <2>1. b \in EarlyBlks(blocks)  BY <1>2, SpansEarly
  <2>2. ~IsOpen(blocks, b)  BY <2>1, BodyDoneFacts DEF IsOpen
  <2>3. blocks[b].start < blocks[b].end  BY <1>2, <2>2 DEF BodyDone, BlocksInv, StartsInv
  <2> QED BY <1>2, <2>3 DEF Spans
<1>4. Innermost(b, p)  BY <1>2, <1>3, OpenerInnermost DEF BodyDone
<1>5. b = c
  <2>1. b \in Nat /\ c \in Nat  BY BlockFields DEF BodyDone
  <2>2. b <= c /\ c <= b  BY <1>1, <1>3, <1>4 DEF Innermost
  <2> QED BY <2>1, <2>2
<1>6. /\ blocks[c].kind = KindOf("If") /\ blocks[c].end \in Closers(p)
      /\ \A j \in Closers(p) : blocks[c].end <= j
  BY <1>2, <1>3, <1>5, SpanFacts
<1>7. AtOpener(c, p, r)
  <2>1. blocks[c].kind # "FUNC"  BY <1>6 DEF KindOf, Opens
  <2> QED BY <1>1, <1>2, <1>5, <2>1 DEF Inner
<1>8. r.pc = blocks[c].end + 1  BY <1>7, KindsApart DEF AtOpener
<1>9. Min(Closers(p)) = blocks[c].end
  <2>1. Closers(p) \subseteq Int  BY EndsClose
  <2> QED BY <1>6, <2>1, MinIs
<1>10. WasmTarget(p) = Min(Closers(p)) + 1  BY DEF WasmTarget
<1>11. r.pc = WasmTarget(p)  BY <1>8, <1>9, <1>10
<1> QED BY <1>11 DEF r

\* The label of a branch is where wasm continues, but out of a first part that a second
\* one follows.
LEMMA BranchLabel ==
    ASSUME BodyDone, NEW p \in Nat, p # 0, Early(p), ins[p].op \in {"Br", "BrIf"},
           Get_label_index_for_branch(p, ins[p].imm).kind = "LABEL"
    PROVE  /\ Reaches(p)
           /\ \/ LeavesThenPart(p)
              \/ Get_label_index_for_branch(p, ins[p].imm).pc = WasmTarget(p)
<1> DEFINE r == Get_label_index_for_branch(p, ins[p].imm)
<1>1. PICK c \in DOMAIN blocks :
          Innermost(c, p) /\ (AtOpener(c, p, r) \/ Inner(c, p, ins[p].imm, r))
  BY LabelOwner DEF BodyDone
<1>2. r # ABORT  BY KindsApart
<1> HIDE DEF r
<1>3. Spans(c, p)  BY <1>1 DEF Innermost
<1>4. ~AtOpener(c, p, r)
  <2> SUFFICES ASSUME AtOpener(c, p, r) PROVE FALSE
    OBVIOUS
  <2>1. c # 1 /\ blocks[c].start = p  BY BodyDoneFacts DEF AtOpener
  <2>2. ins[p].op \in Starting  BY <1>3, <2>1, SpanFacts
  <2> QED BY <2>2, KindTells
<1>5. r = LabelInside(c, ins[p].imm)  BY <1>1, <1>4 DEF Inner
<1>6. ins[p].imm \in Nat
  <2>1. ins \in Seq(Inst) /\ p \in 1 .. Len(ins)  BY BodyDoneFacts, InsideBody
  <2>2. ins[p] \in Inst  BY <2>1, SeqBasics
  <2> QED BY <2>2 DEF Inst
<1>7. PICK t : t = Ancestor(c, ins[p].imm)  OBVIOUS
<1>8. t # 0  BY <1>2, <1>5, <1>7, InsideIs
<1>9. r.pc = LabelTo(t)
  <2>1. r = NewLabel(LabelTo(t), c)
    BY <1>5, <1>7, <1>8, InsideIs DEF LabelTo
  <2> QED BY <2>1, KindsApart
<1>10. /\ t \in EarlyBlks(blocks) /\ Spans(t, p)
       /\ Depth(Pos(blocks, t)) = Depth(Pos(blocks, c)) - ins[p].imm
  BY <1>3, <1>6, <1>7, <1>8, ClimbDepth
<1>11. t \in DOMAIN blocks /\ Depth(Pos(blocks, t)) = Depth(p) - ins[p].imm
  BY <1>1, <1>10, InnermostDepth DEF EarlyBlks
<1>12. ins[blocks[t].end].op \in {"End", "Else"}
       /\ (blocks[t].kind # "IF" => ins[blocks[t].end].op = "End")
  <2>1. blocks[t].end \in Closers(Pos(blocks, t)) /\ Pos(blocks, t) \in Nat
        /\ (blocks[t].kind # "IF" => ins[blocks[t].end].op = "End")
    BY <1>10, <1>11, SpanFacts
  <2> QED BY <2>1, EndsClose
<1>13. Reaches(p) /\ (LeavesThenPart(p) \/ WasmTarget(p) = LabelTo(t))
  <2>1. CASE blocks[t].kind = "ELSE"  BY <1>10, <1>11, <2>1, BranchToElse
  <2>2. CASE blocks[t].kind # "ELSE" /\ ins[blocks[t].end].op = "End"
    BY <1>10, <1>11, <2>2, BranchToBlock
  <2>3. CASE blocks[t].kind = "IF" /\ ins[blocks[t].end].op = "Else"
    BY <1>10, <1>11, <2>3, BranchToFirst
  <2> QED BY <1>12, <2>1, <2>2, <2>3
<1>14. LeavesThenPart(p) \/ r.pc = WasmTarget(p)  BY <1>9, <1>13
<1> QED BY <1>13, <1>14 DEF r

\* Each if and each branch translated so far has the label wasm asks for.
LEMMA JumpTargetsNow == TransInv /\ LabelInv => (LabelsFit => JumpTargets)
<1> SUFFICES ASSUME TransInv, LabelInv, LabelsFit, NEW p \in Translated,
                    ins[p].op \in {"If", "Br", "BrIf"}
             PROVE  /\ Reaches(p)
                    /\ \/ ins[p].op # "If" /\ LeavesThenPart(p)
                       \/ \E k \in JumpsOut : JumpsAt(p) = {k} /\ LabelOf(k).pc = WasmTarget(p)
  BY DEF JumpTargets
<1>1. PICK m \in Nat : m = pc - 1  BY DEF TransInv
<1>2. p \in 1 .. m /\ p \in Nat /\ p # 0 /\ Early(p)  BY <1>1 DEF Translated, Early
<1>3. build = "returned"
  <2> SUFFICES ASSUME build # "returned" PROVE FALSE
    OBVIOUS
  <2>1. pc = 1  BY DEF LabelInv
  <2> QED BY <1>1, <1>2, <2>1
<1>4. EachHasOne(uinsts, label_tab, m, ins, SearchResults)  BY <1>1 DEF LabelInv
<1>5. SearchResults[p] = SearchAt(p)  BY <1>2 DEF SearchResults
<1>6. \/ \E k \in JumpsIn(uinsts) : uinsts[k].pc = p
      \/ SearchAt(p) \in {INVALID, NOT_NEEDED}
  <2>1. ins[p].op \in Jumps \cup CondJumps  BY DEF Jumps, CondJumps
  <2> QED BY <1>2, <1>4, <1>5, <2>1 DEF EachHasOne, Branched
<1>7. PICK n : SearchAt(p) = Get_label_index_for_branch(p, n)
               /\ (ins[p].op # "If" => n = ins[p].imm)
  BY DEF SearchAt
<1>8. JumpsOut = JumpsIn(uinsts)  BY DEF JumpsOut, JumpsIn
<1>9. SearchAt(p) # ABORT
  <2>1. CASE \E k \in JumpsIn(uinsts) : uinsts[k].pc = p
    <3>1. SearchAt(p).kind = "LABEL"  BY <1>8, <2>1, JumpAndLabel
    <3> QED BY <3>1, KindsApart
  <2>2. CASE SearchAt(p) \in {INVALID, NOT_NEEDED}  BY <2>2, KindsApart
  <2> QED BY <1>6, <2>1, <2>2
<1>10. BodyDone
  <2>1. BlocksInv  BY DEF LabelInv
  <2>2. blocks[1].end # 0  BY <1>2, <1>7, <1>9, <2>1, OpenAborts
  <2> QED BY <1>3, <2>1, <2>2 DEF BodyDone
<1>11. PICK k \in JumpsOut : uinsts[k].pc = p
  <2>1. SearchAt(p) \notin {INVALID, NOT_NEEDED}
    BY <1>2, <1>7, <1>10, AlwaysNeeded DEF Targeted
  <2> QED BY <1>6, <1>8, <2>1
<1>12. SearchAt(p).kind = "LABEL" /\ LabelOf(k).pc = SearchAt(p).pc /\ JumpsAt(p) = {k}
  BY <1>11, JumpAndLabel
<1>13. CASE ins[p].op = "If"
  <2>1. SearchAt(p).pc = WasmTarget(p)  BY <1>2, <1>7, <1>10, <1>12, <1>13, IfLabel
  <2>2. Reaches(p)  BY <1>13 DEF Reaches
  <2> QED BY <1>11, <1>12, <2>1, <2>2
<1>14. CASE ins[p].op \in {"Br", "BrIf"}
  <2>1. n = ins[p].imm /\ ins[p].op # "If"  BY <1>7, <1>14
  <2>2. Reaches(p) /\ (LeavesThenPart(p) \/ SearchAt(p).pc = WasmTarget(p))
    BY <1>2, <1>7, <1>10, <1>12, <1>14, <2>1, BranchLabel
  <2> QED BY <1>11, <1>12, <2>1, <2>2
<1> QED BY <1>13, <1>14

-----------------------------------------------------------------------------
\* For every function and every vector of instructions, as long as the number of labels
\* fits the field of a jump: every if and every branch of the body reaches a construct
\* and has exactly one jump, and its label is where wasm continues, in blocks of any
\* number and nesting.  Left out, as in the property, is the branch out of the first part
\* of an if that has an else.
THEOREM TransJumpTargets == TransSpec => [](LabelsFit => JumpTargets)
<1>1. TransStart => LabelInv  BY LabelInvInit
<1>2. TransInv /\ LabelInv /\ [TransNext]_convVars => LabelInv'  BY LabelInvNext
<1>3. TransInv /\ LabelInv => (LabelsFit => JumpTargets)  BY JumpTargetsNow
<1> QED BY <1>1, <1>2, <1>3, TransInvariant, TransStarts, PTL DEF TransSpec
=============================================================================
