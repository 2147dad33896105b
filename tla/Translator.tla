----------------------------- MODULE Translator -----------------------------
(***************************************************************************)
(* Wasm_to_uwasm (convertor.cpp, lines 30-124 and 226-399): the translation *)
(* of one function from the stack code of wasm to the register code of      *)
(* uwasm.  The handler builds the register tables (UbhCode), then the block *)
(* hierarchy (BlockHierarchy), and then walks the instructions once,        *)
(* keeping a stack of the registers that hold wasm's operands and resolving *)
(* every branch to a label through the hierarchy.                           *)
(*                                                                          *)
(* Index 0 of the code's label table is a placeholder; here the table has   *)
(* none and a label is its position.  A decoded operand is one number:      *)
(* the reading of LEB128 bytes is not part of this module.                  *)
(***************************************************************************)
EXTENDS BlockHierarchy, UbhCode, UwInst

VARIABLES
    pc,          \* ins_cnt of the second pass, also the iterator's position
    wasm_stack,  \* the tracked operand stack, top last
    label_tab,   \* LABEL_TAB without its placeholder
    uinsts,      \* the instructions of u_code
    trans        \* "translating" | "translated" | "aborted" | "undefined"

transVars == <<pc, wasm_stack, label_tab, uinsts, trans>>
convVars  == <<hierVars, ubhVars, transVars>>

Cur == ins[pc]
-----------------------------------------------------------------------------
(* Branch targets.                                                          *)

ABORT      == [kind |-> "ABORT"]
INVALID    == [kind |-> "LABEL_INVALID"]
NOT_NEEDED == [kind |-> "LABEL_NOT_NEEDED"]
NewLabel(target, sym) == [kind |-> "LABEL", pc |-> target, sym |-> sym]

\* Faulty variants, never part of the specification: one level at most is climbed.
Ancestor_short(b, br_cnt) == IF br_cnt = 0 THEN b ELSE blocks[b].parent

\* The block br_cnt levels above b; 0 when the hierarchy is not that deep.
Ancestor(b, br_cnt) ==
    LET up[n \in 0 .. br_cnt] ==
            IF n = 0 THEN b ELSE IF up[n-1] = 0 THEN 0 ELSE blocks[up[n-1]].parent
    IN  up[br_cnt]

\* At the instruction that opens block b.  A `block' fails the assertion.
LabelAtStart(b) ==
    CASE blocks[b].kind \in {"IF", "ELSE"} -> NewLabel(blocks[b].end + 1, b)
      [] blocks[b].kind = "LOOP"           -> NOT_NEEDED
      [] blocks[b].kind = "BLOCK"          -> ABORT

\* Faulty: the label is entered for the block it leaves, not for the branch's.
LabelInside_left(b, br_cnt) ==
    LET t == Ancestor(b, br_cnt)
    IN  IF t = 0 THEN ABORT
        ELSE NewLabel((IF blocks[t].kind = "LOOP" THEN blocks[t].start
                                                  ELSE blocks[t].end) + 1, t)

\* Strictly inside b and in none of its children.
LabelInside(b, br_cnt) ==
    LET t == Ancestor(b, br_cnt)
    IN  IF t = 0 THEN ABORT
        ELSE NewLabel((IF blocks[t].kind = "LOOP" THEN blocks[t].start
                                                  ELSE blocks[t].end) + 1, b)

\* The search from the function block down: children in order, the first one
\* with an answer wins, and a block still open fails the completeness check.
Get_label_index_for_branch(ins_pc, br_cnt) ==
    LET visit[b \in DOMAIN blocks] ==
            LET blk == blocks[b]
                hits == {i \in DOMAIN blk.child : visit[blk.child[i]] # INVALID}
            IN  CASE blk.end = 0 -> ABORT
                  [] blk.end # 0 /\ ins_pc \notin blk.start .. blk.end -> INVALID
                  [] ins_pc \in blk.start .. blk.end ->
                        IF ins_pc = blk.start /\ blk.kind # "FUNC" THEN LabelAtStart(b)
                        ELSE IF ins_pc = blk.end THEN NOT_NEEDED
                        ELSE IF hits # {} THEN visit[blk.child[Min(hits)]]
                        ELSE LabelInside(b, br_cnt)
    IN  visit[BLOCK_FUNCTION]
-----------------------------------------------------------------------------
(* Instructions of uwasm: the fields an addressing mode has, and no others.  *)
(* An instruction whose opcode is the same in both sets has one name here.  *)

\* The mode of each instruction, from its row of the table.
TY_AM == [n \in DOMAIN UwinstRow |-> UwinstRow[n].ty_am]

UWASM_INST == [op : DOMAIN TY_AM, pc : Nat, rd : Nat, rs : Nat, rt : Nat, ofs : Nat]

OfsOf(am, ofs) ==
    CASE am = "AM32_R_OFS"   -> ofs % 2^12
      [] am = "AM64_R_R_OFS" -> ofs % 2^20
      [] am = "AM64_R_OFS"   -> ofs
      [] OTHER               -> 0

\* A copy of the table's instruction with its pc and Set_am applied: -1 leaves a
\* field at zero, a field the mode lacks is dropped, a register is cut to its width.
UInst(op, rd, rs, rt, ofs) ==
    LET am == TY_AM[op]
        Reg(r, modes) == IF r # -1 /\ am \in modes THEN r % 2^REG_SIZE ELSE 0
    IN  [op |-> op, pc |-> pc,
         rd |-> Reg(rd, {"AM32_R", "AM32_R_R", "AM32_R_OFS",
                         "AM64_R_R_R", "AM64_R_OFS", "AM64_R_R_OFS"}),
         rs |-> Reg(rs, {"AM32_R_R", "AM64_R_R_R", "AM64_R_R_OFS"}),
         rt |-> Reg(rt, {"AM64_R_R_R"}),
         ofs |-> IF ofs = -1 THEN 0 ELSE OfsOf(am, ofs)]

\* The name of the first row of the uwasm table with the given wasm opcode: 0x00
\* is `unreachable' in one table and `nop' in the other, 0x01 the reverse.  Wasm
\* instructions without a row are not in the domain.
UOPCODE_from_wasm ==
    [op \in {n \in WinstNames : UOPCODE_of_wasm(Encode[n]) # NoRow} |->
        UOPCODE_of_wasm(Encode[op]).name]

\* The fixed operands the default case gives to what it does not translate; of
\* the 32-bit offset 0xff010203, which nothing reads, the low 24 bits are kept.
RAND_OFS == 66051

Rand_operand(op) ==
    CASE TY_AM[op] = "AM64_R_R_R" -> UInst(op, 512, 1, 240, -1)
      [] TY_AM[op] = "AM64_R_OFS" -> UInst(op, 512, -1, -1, RAND_OFS)
      [] TY_AM[op] = "AM32_R"     -> UInst(op, 512, -1, -1, -1)
      [] OTHER                    -> UInst(op, -1, -1, -1, -1)
-----------------------------------------------------------------------------
(* The pass.  `pop' of an empty std::stack is undefined behaviour: the model *)
(* follows no run beyond it.                                                *)

Translates(ops) ==
    /\ build = "returned"
    /\ trans = "translating"
    /\ pc <= Len(ins)
    /\ Cur.op \in ops

\* The constructor of the register tables runs before the hierarchy is built.
Prepare ==
    \/ ConstructStep /\ UNCHANGED <<hierVars, transVars>>
    \/ ctor = "ready" /\ HierNext /\ UNCHANGED <<ubhVars, transVars>>

Stop(how) ==
    /\ trans' = how
    /\ UNCHANGED <<hierVars, ubhVars, pc, wasm_stack, label_tab, uinsts>>

\* Faulty: ins_cnt is counted twice.
Continue_twice == pc' = pc + 2 /\ UNCHANGED <<hierVars, trans>>

Continue == pc' = pc + 1 /\ UNCHANGED <<hierVars, trans>>

Emit(i) == uinsts' = Append(uinsts, i)

Keep(n) == SubSeq(wasm_stack, 1, Len(wasm_stack) - n)   \* after n pops
Top(n)  == wasm_stack[Len(wasm_stack) + 1 - n].idx      \* the n-th from the top

\* Faulty: the register is read from the table after the entry was made.
PushTempReg_late(n) ==
    /\ Push_temp_reg("I32")
    /\ wasm_stack' = Append(Keep(n), [kind |-> "TEMP", idx |-> NextTemp("I32") + 1])

\* A fresh I32 register on top of what is left of the stack.
PushTempReg(n) ==
    /\ Push_temp_reg("I32")
    /\ wasm_stack' = Append(Keep(n), [kind |-> "TEMP", idx |-> NextTemp("I32")])

WASM_STACK_ELEM == [kind : {"LOCAL", "TEMP"}, idx : Nat]

Jumps     == {"Block", "Loop", "Br", "Else", "End"}
CondJumps == {"If", "BrIf", "BrTable", "BrOnExn"}

Target ==
    Get_label_index_for_branch(pc, IF Cur.op \in {"Br", "BrIf"} THEN Cur.imm ELSE 0)

AddLabel == label_tab' = Append(label_tab, [pc |-> Target.pc, sym |-> Target.sym])

\* A failed assertion of the label search, or the one on the operand of a
\* conditional jump.
BranchAborts ==
    /\ Translates(Jumps \cup CondJumps)
    /\ \/ Cur.op \in CondJumps /\ wasm_stack = <<>>
       \/ Target = ABORT
    /\ Stop("aborted")

Jump ==
    /\ Translates(Jumps)
    /\ Target.kind = "LABEL"
    /\ AddLabel
    /\ Emit(UInst("UJMP", Len(label_tab) + 1, -1, -1, -1))
    /\ Continue
    /\ UNCHANGED <<ubhVars, wasm_stack>>

CondJump ==
    /\ Translates(CondJumps)
    /\ wasm_stack # <<>>
    /\ Target.kind = "LABEL"
    /\ AddLabel
    /\ Emit(UInst("UJNZ", Top(1), -1, -1, Len(label_tab) + 1))
    /\ wasm_stack' = Keep(1)
    /\ Continue
    /\ UNCHANGED ubhVars

NoJump ==
    /\ Translates(Jumps \cup CondJumps)
    /\ Target \in {INVALID, NOT_NEEDED}
    /\ IF Cur.op \in CondJumps THEN wasm_stack # <<>> /\ wasm_stack' = Keep(1)
                              ELSE UNCHANGED wasm_stack
    /\ Continue
    /\ UNCHANGED <<ubhVars, label_tab, uinsts>>

\* Only Drop touches the tracked stack; Select and Call leave no trace at all.
Skip ==
    /\ Translates({"Drop", "Select", "Call"})
    /\ IF Cur.op = "Drop" THEN wasm_stack # <<>> /\ wasm_stack' = Keep(1)
                          ELSE UNCHANGED wasm_stack
    /\ Continue
    /\ UNCHANGED <<ubhVars, label_tab, uinsts>>

\* local_map.at(i) throws for a local without a register.
NoRegister ==
    /\ Translates({"LocalGet", "LocalSet", "LocalTee"})
    /\ Cur.imm >= Len(local_map)
    /\ Stop("aborted")

\* Faulty: the index of the local is pushed without the map.
LocalGet_unmapped ==
    /\ Translates({"LocalGet"})
    /\ Cur.imm < Len(local_map)
    /\ wasm_stack' = Append(wasm_stack, [kind |-> "LOCAL", idx |-> Cur.imm])
    /\ Continue
    /\ UNCHANGED <<ubhVars, label_tab, uinsts>>

\* Pushes the register of the local itself: the operand aliases the local.
LocalGet ==
    /\ Translates({"LocalGet"})
    /\ Cur.imm < Len(local_map)
    /\ wasm_stack' = Append(wasm_stack, [kind |-> "LOCAL", idx |-> local_map[Cur.imm + 1]])
    /\ Continue
    /\ UNCHANGED <<ubhVars, label_tab, uinsts>>

LocalSetTee ==
    /\ Translates({"LocalSet", "LocalTee"})
    /\ Cur.imm < Len(local_map)
    /\ wasm_stack # <<>>
    /\ Emit(UInst("UMOV", local_map[Cur.imm + 1], Top(1), -1, -1))
    /\ wasm_stack' = IF Cur.op = "LocalSet" THEN Keep(1) ELSE wasm_stack
    /\ Continue
    /\ UNCHANGED <<ubhVars, label_tab>>

I32Load ==
    /\ Translates({"I32Load"})
    /\ wasm_stack # <<>>
    /\ PushTempReg(1)
    /\ Emit(UInst("I32Load", NextTemp("I32"), Top(1), -1, Cur.imm))
    /\ Continue
    /\ UNCHANGED label_tab

\* The offset is passed in the place of rt, which the mode of a store lacks.
I32Store ==
    /\ Translates({"I32Store"})
    /\ Len(wasm_stack) >= 2
    /\ Emit(UInst("I32Store", Top(1), Top(2), Cur.imm, -1))
    /\ wasm_stack' = Keep(2)
    /\ Continue
    /\ UNCHANGED <<ubhVars, label_tab>>

I32Const ==
    /\ Translates({"I32Const"})
    /\ PushTempReg(0)
    /\ Emit(UInst("I32Const", NextTemp("I32"), -1, -1, Cur.imm))
    /\ Continue
    /\ UNCHANGED label_tab

Arithmetic == {"I32Add", "I32Sub", "I32Mul", "I32DivS", "I32DivU", "I32LtS", "I32Ne"}

\* Faulty: the second operand is read without being popped.
Binary_peeks ==
    /\ Translates(Arithmetic)
    /\ Len(wasm_stack) >= 2
    /\ PushTempReg(1)
    /\ Emit(UInst(Cur.op, NextTemp("I32"), Top(1), Top(2), -1))
    /\ Continue
    /\ UNCHANGED label_tab

\* The first pop, wasm's second operand, is rs; the second pop is rt.
Binary ==
    /\ Translates(Arithmetic)
    /\ Len(wasm_stack) >= 2
    /\ PushTempReg(2)
    /\ Emit(UInst(Cur.op, NextTemp("I32"), Top(1), Top(2), -1))
    /\ Continue
    /\ UNCHANGED label_tab

BinaryAborts == Translates(Arithmetic) /\ Len(wasm_stack) < 2 /\ Stop("aborted")

\* `case Return' has no break: the default case follows it and emits another
\* return, with the default operands.
Return ==
    /\ Translates({"Return"})
    /\ wasm_stack # <<>>
    /\ uinsts' = uinsts \o <<UInst("URETURN", Top(1), -1, -1, -1),
                             Rand_operand(UOPCODE_from_wasm.Return)>>
    /\ wasm_stack' = Keep(1)
    /\ Continue
    /\ UNCHANGED <<ubhVars, label_tab>>

Handled == Jumps \cup CondJumps \cup Arithmetic \cup
    {"Drop", "Select", "Call", "LocalGet", "LocalSet", "LocalTee",
     "I32Load", "I32Store", "I32Const", "Return"}

\* The default case: whatever the instruction does to the operands of wasm, the
\* tracked stack stays as it is.
Default ==
    /\ Translates(DOMAIN UOPCODE_from_wasm \ Handled)
    /\ Emit(Rand_operand(UOPCODE_from_wasm[Cur.op]))
    /\ Continue
    /\ UNCHANGED <<ubhVars, wasm_stack, label_tab>>

NotInTable ==
    /\ Translates({Cur.op} \ (DOMAIN UOPCODE_from_wasm \cup Handled))
    /\ Stop("aborted")

Pops == [Drop |-> 1, LocalSet |-> 1, LocalTee |-> 1, I32Load |-> 1,
         I32Store |-> 2, Return |-> 1]

PopsEmptyStack ==
    /\ Translates(DOMAIN Pops)
    /\ Len(wasm_stack) < Pops[Cur.op]
    /\ Cur.op \in {"LocalSet", "LocalTee"} => Cur.imm < Len(local_map)
    /\ Stop("undefined")

EndOfPass ==
    /\ build = "returned"
    /\ trans = "translating"
    /\ pc > Len(ins)
    /\ Stop("translated")

TranslateStep ==
    \/ BranchAborts \/ Jump \/ CondJump \/ NoJump
    \/ Skip
    \/ NoRegister \/ LocalGet \/ LocalSetTee
    \/ I32Load \/ I32Store \/ I32Const
    \/ Binary \/ BinaryAborts
    \/ Return
    \/ Default \/ NotInTable
    \/ PopsEmptyStack
    \/ EndOfPass

TransInit ==
    /\ HierInit
    /\ UbhInit
    /\ pc = BLOCK_INSTR_BEGIN
    /\ wasm_stack = <<>>
    /\ label_tab = <<>>
    /\ uinsts = <<>>
    /\ trans = "translating"

TransNext == Prepare \/ TranslateStep

TransSpec == TransInit /\ [][TransNext]_convVars
-----------------------------------------------------------------------------
TransTypeOK ==
    /\ HierTypeOK
    /\ UbhTypeOK
    /\ pc \in 1 .. Len(ins) + 1
    /\ wasm_stack \in Seq(WASM_STACK_ELEM)
    /\ label_tab \in Seq([pc : Nat, sym : Nat])
    /\ uinsts \in Seq(UWASM_INST)
    /\ trans \in {"translating", "translated", "aborted", "undefined"}

\* The operands tracked for wasm can be told apart: each is the register of a
\* local, or a temporary handed out before that no other slot of the stack holds,
\* older ones below newer ones.  A pop never brings back a register in use.
StackOwned ==
    /\ \A k \in DOMAIN wasm_stack :
          IF wasm_stack[k].kind = "LOCAL"
          THEN \E l \in DOMAIN local_map : wasm_stack[k].idx = local_map[l]
          ELSE \E t \in DOMAIN temps : temps[t] = [type |-> "I32", reg |-> wasm_stack[k].idx]
    /\ \A k, l \in DOMAIN wasm_stack :
          (k < l /\ wasm_stack[k].kind = "TEMP" /\ wasm_stack[l].kind = "TEMP") =>
              wasm_stack[k].idx < wasm_stack[l].idx

IsJump(i)    == i.op \in {"UJMP", "UJNZ"}
LabelIdx(i)  == IF i.op = "UJMP" THEN i.rd ELSE i.ofs
JumpsOut     == {k \in DOMAIN uinsts : IsJump(uinsts[k])}
LabelOf(k)   == label_tab[LabelIdx(uinsts[k])]
InnermostBlk(p) == Max({b \in BlkIds : blocks[b].start <= p /\ p < blocks[b].end})

\* The n-th jump of the code refers to the n-th label and to no other, and the
\* block a label names is the innermost one around its jump.
LabelPerJump ==
    /\ Len(label_tab) = Cardinality(JumpsOut)
    /\ \A k \in JumpsOut :
          /\ LabelIdx(uinsts[k]) = Cardinality({j \in JumpsOut : j <= k})
          /\ LabelOf(k).sym = InnermostBlk(uinsts[k].pc)

(***************************************************************************)
(* Where wasm transfers control, by counting over the instructions alone.   *)
(***************************************************************************)
EndOf(s) == Min(Ends(s))

\* The constructs around instruction p: what opened them, 0 for the body.
Around(p) ==
    {s \in 0 .. p - 1 :
        /\ s > 0 => ins[s].op \in DOMAIN Opens
        /\ Ends(s) \cap 1 .. p = {}}

\* The one of them that is n levels further out than p.
NthAround(p, n) == CHOOSE s \in Around(p) : Depth(s) = Depth(p) - n

\* A branch out of the first part of an if that has a second one.
LeavesThenPart(p) ==
    LET s == NthAround(p, ins[p].imm)
    IN  s > 0 /\ ins[s].op = "If" /\ p < Min(Closers(s)) /\ Min(Closers(s)) < EndOf(s)

WasmTarget(p) ==
    IF ins[p].op = "If" THEN Min(Closers(p)) + 1
    ELSE LET s == NthAround(p, ins[p].imm)
         IN  IF s > 0 /\ ins[s].op = "Loop" THEN s + 1 ELSE EndOf(s) + 1

\* What has been translated of the body proper, up to its own End.
Translated == {p \in 1 .. pc - 1 : \A e \in Ends(0) : p < e}

JumpsAt(p) == {k \in JumpsOut : uinsts[k].pc = p}

\* The depth of a branch names a construct around it.
Reaches(p) ==
    ins[p].op = "If" \/ \E s \in Around(p) : Depth(s) = Depth(p) - ins[p].imm

\* Every if and every branch translated so far reaches a construct and has exactly
\* one jump, and its label is where wasm continues: after the first part of the
\* if, at the start of the loop, or after the construct branched out of.  Left
\* out: the branch out of the first part of an if that has an else.
JumpTargets ==
    \A p \in Translated :
        ins[p].op \in {"If", "Br", "BrIf"} =>
            /\ Reaches(p)
            /\ \/ ins[p].op # "If" /\ LeavesThenPart(p)
               \/ \E k \in JumpsOut : JumpsAt(p) = {k} /\ LabelOf(k).pc = WasmTarget(p)

\* Where control goes from instruction p when the operand it tests is c: in wasm,
\* and in the code, where a UJNZ is taken when its register is not zero.
WasmNext(p, c) ==
    CASE ins[p].op = "If"   -> IF c # 0 THEN p + 1 ELSE WasmTarget(p)
      [] ins[p].op = "BrIf" -> IF c # 0 THEN WasmTarget(p) ELSE p + 1
      [] ins[p].op = "Br"   -> WasmTarget(p)

CodeNext(p, c) ==
    {LabelOf(k).pc : k \in {j \in JumpsAt(p) : uinsts[j].op = "UJNZ" => c # 0}}
        \cup IF \E k \in JumpsAt(p) : uinsts[k].op = "UJNZ" => c # 0 THEN {} ELSE {p + 1}

\* Every if and branch translated so far goes where wasm goes, whichever way its
\* condition falls.
ControlAgrees ==
    \A p \in Translated, c \in {0, 1} :
        (ins[p].op \in {"If", "Br", "BrIf"} /\ Reaches(p)) =>
            CodeNext(p, c) = {WasmNext(p, c)}

\* After the first part of an if, control skips the second one.
ElseIsSkipped ==
    \A p \in Translated :
        ins[p].op = "Else" =>
            \E k \in JumpsAt(p) : LabelOf(k).pc > p + 1

\* A `block' in a body whose blocks are all complete does not stop the translation.
BlocksAccepted ==
    (trans = "aborted" /\ Cur.op = "Block") => \E b \in BlkIds : IsOpen(blocks, b)
-----------------------------------------------------------------------------
(***************************************************************************)
(* What the code computes, as terms: WasmStep is what an instruction of the   *)
(* body does in wasm, UwasmStep what an emitted one does to the registers.    *)
(* A memory is the term of the stores made to it.                            *)
(***************************************************************************)
\* The operand stack holds values, and beside each the local it was read from
\* (or -1).  `sound' ends at an instruction this reference does not define, which
\* is everything but straight-line code on 32-bit integers.
WasmState(stack, mem, locals) ==
    [stack |-> stack, mem |-> mem, sound |-> TRUE, locals |-> locals]

\* The operations whose result depends on the order of their operands.
Ordered == {"I32Sub", "I32DivS", "I32DivU", "I32LtS"}

\* The term of an operation; the operands of the others are a set.
Result(op, src1, src2) == IF op \in Ordered THEN <<op, src1, src2>> ELSE <<op, {src1, src2}>>

WasmStep(st, i) ==
    LET n == Len(st.stack)
        Below(k) == SubSeq(st.stack, 1, n - k)
        Val(k) == st.stack[n + 1 - k].val
        Push(k, v, from) == Append(Below(k), [val |-> v, from |-> from])
        Stack(stack) == WasmState(stack, st.mem, st.locals)
    IN  CASE ~st.sound -> st
          [] st.sound /\ i.op = "LocalGet" ->
                Stack(Push(0, st.locals[i.imm + 1], i.imm))
          [] st.sound /\ i.op \in {"LocalSet", "LocalTee"} ->
                WasmState(IF i.op = "LocalSet" THEN Below(1) ELSE st.stack, st.mem,
                          [st.locals EXCEPT ![i.imm + 1] = Val(1)])
          [] st.sound /\ i.op = "I32Const" -> Stack(Push(0, <<"const", i.imm>>, -1))
          [] st.sound /\ i.op \in Arithmetic -> Stack(Push(2, Result(i.op, Val(2), Val(1)), -1))
          [] st.sound /\ i.op = "I32Load" ->
                Stack(Push(1, <<"load", st.mem, Val(1), i.imm>>, -1))
          [] st.sound /\ i.op = "I32Store" ->
                WasmState(Below(2), <<"store", st.mem, Val(2), i.imm, Val(1)>>, st.locals)
          [] st.sound /\ i.op = "Drop" -> Stack(Below(1))
          [] st.sound /\ i.op = "End"  -> st      \* of the body: If and Loop are not sound
          [] OTHER -> [sound |-> FALSE]

\* The instructions of straight-line code whose translation does not compute what
\* wasm does: an operation on ordered operands, which are exchanged; a local set
\* while an operand read from it is below the top of the stack, an alias of its
\* register; a store with an offset, which is dropped; and a load whose offset
\* does not fit its field.
Miscompiled(st, i) ==
    \/ i.op \in Ordered
    \/ i.op \in {"LocalSet", "LocalTee"}
         /\ \E k \in 1 .. Len(st.stack) - 1 : st.stack[k].from = i.imm
    \/ i.op = "I32Store" /\ i.imm # 0
    \/ i.op = "I32Load" /\ i.imm >= 2^20

\* Wasm's step, up to the first of them.
FaithfulStep(st, i) ==
    IF st.sound /\ Miscompiled(st, i) THEN [sound |-> FALSE] ELSE WasmStep(st, i)

UwasmState(mem, regs) == [mem |-> mem, regs |-> regs]

\* rs is the first source of an operation and rt the second (uwinst.h:92-93).
UwasmStep(st, i) ==
    LET R(r)   == st.regs[r]
        To(v)  == UwasmState(st.mem, [st.regs EXCEPT ![i.rd] = v])
    IN  CASE i.op = "UMOV"     -> To(R(i.rs))
          [] i.op = "I32Const" -> To(<<"const", i.ofs>>)
          [] i.op \in Arithmetic -> To(Result(i.op, R(i.rs), R(i.rt)))
          [] i.op = "I32Load"  -> To(<<"load", st.mem, R(i.rs), i.ofs>>)
          [] i.op = "I32Store" -> UwasmState(<<"store", st.mem, R(i.rs), i.ofs, R(i.rd)>>, st.regs)
          [] OTHER -> st

WasmStart == WasmState(<<>>, <<"mem">>, [l \in DOMAIN local_map |-> <<"init", local_map[l]>>])

\* After all instructions translated so far, and after those up to the first that
\* is miscompiled.
WasmAfter ==
    LET after[k \in 0 .. pc - 1] ==
            IF k = 0 THEN WasmStart ELSE WasmStep(after[k-1], ins[k])
    IN  after[pc - 1]

FaithfulAfter ==
    LET after[k \in 0 .. pc - 1] ==
            IF k = 0 THEN WasmStart ELSE FaithfulStep(after[k-1], ins[k])
    IN  after[pc - 1]

UwasmAfter ==
    LET after[k \in 0 .. Len(uinsts)] ==
            IF k = 0
            THEN UwasmState(<<"mem">>, [r \in 0 .. Get_local_num |-> <<"init", r>>])
            ELSE UwasmStep(after[k-1], uinsts[k])
    IN  after[Len(uinsts)]

\* The register tracked for each operand holds wasm's operand, the register of
\* each local the local, and memory is as in w.
Denotes(w) ==
    LET u == UwasmAfter
    IN  /\ Len(wasm_stack) = Len(w.stack)
        /\ \A k \in DOMAIN wasm_stack : u.regs[wasm_stack[k].idx] = w.stack[k].val
        /\ \A l \in DOMAIN local_map : u.regs[local_map[l]] = w.locals[l]
        /\ u.mem = w.mem

\* As long as no instruction is Miscompiled, the emitted code computes what wasm
\* does: pops, fresh temporaries and aliases of locals agree.
StackDenotes ==
    (ctor = "ready" /\ trans # "undefined" /\ FaithfulAfter.sound) => Denotes(FaithfulAfter)


Sources(i) ==
    CASE i.op \in {"UMOV", "I32Load"}       -> {i.rs}
      [] i.op \in Arithmetic                -> {i.rs, i.rt}
      [] i.op = "I32Store"                  -> {i.rd, i.rs}
      [] i.op = "UJNZ"                      -> {i.rd}
      [] OTHER                              -> {}

Defines(i) == i.op \in {"UMOV", "I32Load", "I32Const"} \cup Arithmetic

\* Every register an instruction reads is a local's or was written by an earlier
\* instruction, and a temporary is written by one instruction only.
OperandsDefined ==
    /\ \A n \in DOMAIN uinsts : \A r \in Sources(uinsts[n]) :
          \/ r \in ToSet(local_map)
          \/ \E m \in 1 .. n - 1 : Defines(uinsts[m]) /\ uinsts[m].rd = r
    /\ \A m, n \in DOMAIN uinsts :
          (m # n /\ Defines(uinsts[m]) /\ Defines(uinsts[n]) /\ uinsts[m].rd = uinsts[n].rd) =>
              uinsts[n].rd \in ToSet(local_map)

\* With the register tables built, the pass over the blocks comes to an end,
\* whatever vector it was given.
BuildEnds == (ctor = "ready") ~> (build # "running")
=============================================================================
