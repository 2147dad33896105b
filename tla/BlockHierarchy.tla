--------------------------- MODULE BlockHierarchy ---------------------------
(***************************************************************************)
(* The block hierarchy of one function (convertor.cpp, lines 126-223): one  *)
(* pass over the vector of decoded wasm instructions that cuts it into      *)
(* nested blocks.  `work' is the stack of open block ids, `blocks' the      *)
(* vector the pass returns.  blocks[0] of the code is a placeholder that    *)
(* only makes every real id positive: here ids start at 1, the id           *)
(* BLOCK_FUNCTION of the implicit block around the whole body, and 0 is     *)
(* "no block".                                                              *)
(*                                                                          *)
(* The program counters are instruction counts: ins_cnt starts at 1 and is  *)
(* what the labels of the second pass point to.  The pass may meet any      *)
(* sequence: the vector comes from a linear scan of the body's bytes with   *)
(* the converter's own operand sizes, which the binary reader that          *)
(* validated the body does not share.                                       *)
(***************************************************************************)
EXTENDS WasmScan

CONSTANT
    \* @doc: the instruction vectors to convert, WINSVEC in the code
    Inputs

\* A decoded instruction, of those the converter's table has.
Inst == [op : WinstNames, imm : Nat]

ASSUME InputsAssumption == Inputs \subseteq Seq(Inst)

VARIABLES
    ins,      \* the WINSVEC being converted
    it,       \* the iterator of the build loop, 1..Len(ins)+1
    ins_cnt,  \* the running program counter
    blocks,   \* BLK_VEC without its placeholder
    work,     \* the stack of open blocks, top last
    build     \* "running", "returned", or "aborted" by a failed Is_True

hierVars == <<ins, it, ins_cnt, blocks, work, build>>
-----------------------------------------------------------------------------
BLOCK_INSTR_BEGIN == 1
BLOCK_FUNCTION    == 1

BLK_KIND == {"FUNC", "IF", "BLOCK", "ELSE", "LOOP"}

WINST_BLK == [kind : BLK_KIND, parent : Nat, child : Seq(Nat),
              start : Nat, end : Nat]

NewBlk(kind, parent, pc) ==
    [kind |-> kind, parent |-> parent, child |-> <<>>, start |-> pc, end |-> 0]

\* The kind of block an instruction opens by itself (Else needs its If).
Opens == [If |-> "IF", Block |-> "BLOCK", Loop |-> "LOOP"]

\* Faulty variants, never part of the specification: each stands for a slip the
\* code could contain, and some property of this module must notice it.  Here, the
\* new block goes below the bottom of the stack, or is not entered in the children.
Create_new_block_bottom(wk, blks, pc, kind) ==
    IF wk = <<>> THEN Append(blks, NewBlk(kind, 0, pc))
    ELSE Append([blks EXCEPT ![Head(wk)].child = Append(@, Len(blks) + 1)],
                NewBlk(kind, Head(wk), pc))

Create_new_block_unlinked(wk, blks, pc, kind) ==
    Append(blks, NewBlk(kind, IF wk = <<>> THEN 0 ELSE Last(wk), pc))

\* The block vector after Create_new_block: the new block is the last child of
\* the top of the work stack, if there is one, and has the next free id.
Create_new_block(wk, blks, pc, kind) ==
    LET id == Len(blks) + 1
    IN  IF wk = <<>>
        THEN Append(blks, NewBlk(kind, 0, pc))
        ELSE Append([blks EXCEPT ![Last(wk)].child = Append(@, id)],
                    NewBlk(kind, Last(wk), pc))

\* Faulty: the bottom of the stack is closed; the end is one pc early.
Finish_old_block_bottom(wk, blks, pc) == [blks EXCEPT ![Head(wk)].end = pc]
Finish_old_block_early(wk, blks, pc)  == [blks EXCEPT ![Last(wk)].end = pc - 1]

\* The block vector after Finish_old_block, which also pops the work stack.
Finish_old_block(wk, blks, pc) == [blks EXCEPT ![Last(wk)].end = pc]
-----------------------------------------------------------------------------
\* The work list and the vector as the loop finds them: the function block is
\* open and starts at the pc of the first instruction.
HierInit ==
    /\ ins \in Inputs
    /\ it = 1
    /\ ins_cnt = BLOCK_INSTR_BEGIN
    /\ blocks = Create_new_block(<<>>, <<>>, BLOCK_INSTR_BEGIN, "FUNC")
    /\ work = <<BLOCK_FUNCTION>>
    /\ build = "running"

At(op) == build = "running" /\ it <= Len(ins) /\ ins[it].op = op

Advance == it' = it + 1 /\ ins_cnt' = ins_cnt + 1

\* Faulty: any open block will do for an else.
IfOnTop_anyBlock == work # <<>>

\* What `else' asserts: a block is open and the innermost one is an if.
IfOnTop == work # <<>> /\ blocks[Last(work)].kind = "IF"

\* Is_True prints and exits: nothing after it happens.
Abort == build' = "aborted" /\ UNCHANGED <<ins, it, ins_cnt, blocks, work>>

\* Faulty: the id is read after the block was pushed.
OpenBlock_lateId(op) ==
    /\ At(op)
    /\ blocks' = Create_new_block(work, blocks, ins_cnt, Opens[op])
    /\ work' = Append(work, Len(blocks) + 2)
    /\ Advance
    /\ UNCHANGED <<ins, build>>

OpenBlock(op) ==
    /\ At(op)
    /\ blocks' = Create_new_block(work, blocks, ins_cnt, Opens[op])
    /\ work' = Append(work, Len(blocks) + 1)
    /\ Advance
    /\ UNCHANGED <<ins, build>>

\* `else' closes the open if and opens its own block at the same pc.
ElseBlock ==
    /\ At("Else")
    /\ IfOnTop
    /\ LET closed == Finish_old_block(work, blocks, ins_cnt)
       IN  blocks' = Create_new_block(Front(work), closed, ins_cnt, "ELSE")
    /\ work' = Append(Front(work), Len(blocks) + 1)
    /\ Advance
    /\ UNCHANGED <<ins, build>>

ElseWithoutIf == At("Else") /\ ~IfOnTop /\ Abort

EndBlock ==
    /\ At("End")
    /\ work # <<>>
    /\ blocks' = Finish_old_block(work, blocks, ins_cnt)
    /\ work' = Front(work)
    /\ Advance
    /\ UNCHANGED <<ins, build>>

\* Faulty: the `continue' of a loop that advances at its bottom.
EndIgnored_stuck == At("End") /\ work = <<>> /\ UNCHANGED hierVars

\* The `continue' of the End branch: the iterator moves, ins_cnt does not.
EndIgnored ==
    /\ At("End")
    /\ work = <<>>
    /\ it' = it + 1
    /\ UNCHANGED <<ins, ins_cnt, blocks, work, build>>

OtherInst ==
    /\ build = "running"
    /\ it <= Len(ins)
    /\ ins[it].op \notin DOMAIN Opens \cup {"Else", "End"}
    /\ Advance
    /\ UNCHANGED <<ins, blocks, work, build>>

ReturnBlocks ==
    /\ build = "running"
    /\ it > Len(ins)
    /\ build' = "returned"
    /\ UNCHANGED <<ins, it, ins_cnt, blocks, work>>

HierNext ==
    \/ \E op \in DOMAIN Opens : OpenBlock(op)
    \/ ElseBlock \/ ElseWithoutIf
    \/ EndBlock  \/ EndIgnored
    \/ OtherInst
    \/ ReturnBlocks

\* The pass is one sequential loop: it runs until it returns or aborts.
HierSpec == HierInit /\ [][HierNext]_hierVars /\ WF_hierVars(HierNext)
-----------------------------------------------------------------------------
HierTypeOK ==
    /\ ins \in Seq(Inst)
    /\ it \in 1 .. Len(ins) + 1
    /\ ins_cnt \in 1 .. it
    /\ blocks \in Seq(WINST_BLK)
    /\ work \in Seq(1 .. Len(blocks))
    /\ build \in {"running", "returned", "aborted"}

BlkIds == 1 .. Len(blocks)
IsOpen(blks, b) == blks[b].end = 0

\* b is over before c begins; they may share the pc of an `else'.
Before(blks, b, c) == ~IsOpen(blks, b) /\ blks[b].end <= blks[c].start

\* c begins inside b, and closes first.
Encloses(blks, b, c) ==
    /\ blks[b].start <= blks[c].start
    /\ ~IsOpen(blks, b) => ~IsOpen(blks, c) /\ blks[c].end < blks[b].end

LaminarTree(blks) ==
    \A b, c \in DOMAIN blks :
        b < c => Before(blks, b, c) \/ Encloses(blks, b, c)

InnermostParents(blks) ==
    \A c \in DOMAIN blks :
        /\ blks[c].parent < c
        /\ blks[c].parent # 0 => Encloses(blks, blks[c].parent, c)
        /\ \A b \in DOMAIN blks :
              blks[c].parent < b /\ b < c => Before(blks, b, c)

IfClosedFor(blks, c) ==
    \E b \in 1 .. c - 1 : /\ blks[b].kind = "IF"
                          /\ blks[b].parent = blks[c].parent
                          /\ blks[b].end = blks[c].start

ElseAfterIf(blks) ==
    \A c \in DOMAIN blks : blks[c].kind = "ELSE" => IfClosedFor(blks, c)

\* The pc ranges of any two blocks are nested or follow one another: the label
\* search walks the tree by pc and stops at the first range that fits.
Laminar == LaminarTree(blocks)

\* The parent a branch depth climbs to is the innermost enclosing block: it
\* encloses the child, and every block created in between was over by then.
ParentInnermost == InnermostParents(blocks)

\* An else block begins at the very pc at which its if, a sibling created before
\* it, was closed: `if' jumps to the pc after its own end to reach the else body.
ElseFollowsIf == ElseAfterIf(blocks)

\* The child list of a block, which the label search walks in order, is exactly
\* the blocks that name it as parent, in the order of their ids.
ChildLists ==
    \A p \in BlkIds :
        LET kids == blocks[p].child
        IN  /\ ToSet(kids) = {c \in BlkIds : blocks[c].parent = p}
            /\ \A i, j \in DOMAIN kids : i < j => kids[i] < kids[j]
-----------------------------------------------------------------------------
(***************************************************************************)
(* The structure wasm gives an instruction sequence, defined by counting    *)
(* and without any stack: the nesting depth after each instruction, and the  *)
(* ends and the closers of what instruction s opened (0: the body).  The     *)
(* first of them is the one that counts.                                    *)
(***************************************************************************)
Depth(i) ==
    Cardinality({j \in 1 .. i : ins[j].op \in DOMAIN Opens})
  - Cardinality({j \in 1 .. i : ins[j].op = "End"})

Ends(s) ==
    {j \in s + 1 .. Len(ins) : ins[j].op = "End" /\ Depth(j) = Depth(s) - 1}

\* An else closes the first part of its if.
Closers(s) ==
    {j \in s + 1 .. Len(ins) :
        \/ ins[j].op = "End"  /\ Depth(j) = Depth(s) - 1
        \/ ins[j].op = "Else" /\ Depth(j) = Depth(s)}

\* While the body's own End has not been met, program counters are positions.
InBody == it = ins_cnt

\* Every block ends exactly where wasm says its construct does (the function
\* block at the End of the body), and is still open before that.
EndsWhereWasmSays ==
    (InBody /\ build # "aborted") =>
        \A b \in BlkIds :
            LET s == IF b = BLOCK_FUNCTION THEN 0 ELSE blocks[b].start
                passed == {j \in Closers(s) : j < it}
            IN  IF passed = {} THEN IsOpen(blocks, b) ELSE blocks[b].end = Min(passed)
=============================================================================
