------------------------------ MODULE Executor ------------------------------
(***************************************************************************)
(* The whole of Wasm_to_uwasm: the translation followed by the run of the   *)
(* emitted instructions in a fresh frame (executor.cxx, lines 9-121).  The  *)
(* frame's registers and memory come from `new' without initialisation:     *)
(* what they hold is chosen among the patterns of Junk.                     *)
(*                                                                          *)
(* A word is WordBytes bytes of Byte values each, little endian.  Registers *)
(* not written yet are left out of the register files.                      *)
(***************************************************************************)
EXTENDS Translator

CONSTANTS
    Byte,        \* values of a byte, 256 in the code
    WordBytes,   \* bytes of an i32, 4 in the code
    MemorySize,  \* MEMORY_INITIAL_SIZE, in bytes
    Junk         \* what uninitialised storage may hold: seeds of a pattern

ASSUME ExecutorAssumption ==
    /\ Byte \in Nat \ {0, 1}
    /\ WordBytes \in Nat \ {0}
    /\ MemorySize \in Nat
    /\ Junk \subseteq Nat

VARIABLES
    vm,       \* "idle" | "running" | "done" | "aborted" | "undefined"
    xit,      \* the iterator over the instructions
    i32regs,  \* the i32 registers written so far
    i64regs,  \* the i64 registers written so far
    memory,   \* the bytes of UWASM_MEMORY
    junk      \* the pattern of this frame

frameVars == <<i32regs, i64regs, memory, junk>>
execVars  == <<vm, xit, frameVars>>
allVars   == <<convVars, execVars>>

\* Faulty variants, never part of the specification: the second return register.
REGISTER_return_second == 3

REGISTER_return == 2

\* What byte k of a word counts, from the lowest; Word is the number of values.
ByteWeight[k \in 0 .. WordBytes] == IF k = 0 THEN 1 ELSE Byte * ByteWeight[k-1]
Word == ByteWeight[WordBytes]
-----------------------------------------------------------------------------
Uninit(r) == (junk * (r + 1)) % Word

\* Get_reg<RTI64> returns a UINT32 as well, so 64-bit sums are 32-bit ones, and
\* an i64 register holds a word like any other.
Get_reg(regs, r) == IF r \in DOMAIN regs THEN regs[r] ELSE Uninit(r)

\* Faulty: the value is not cut to the width of a register.
Set_reg_wide(regs, r, v) == [q \in DOMAIN regs \cup {r} |-> IF q = r THEN v ELSE regs[q]]

Set_reg(regs, r, v) ==
    [q \in DOMAIN regs \cup {r} |-> IF q = r THEN v % Word ELSE regs[q]]

ReadWord(m, a) ==
    LET low[k \in 0 .. WordBytes] ==   \* of the first k bytes
            IF k = 0 THEN 0 ELSE low[k-1] + m[a + k - 1] * ByteWeight[k-1]
    IN  low[WordBytes]

WriteWord(m, a, v) ==
    [b \in DOMAIN m |-> IF b \in a .. a + WordBytes - 1
                        THEN (v \div ByteWeight[b - a]) % Byte ELSE m[b]]

\* Faulty: the offset is left out.
Address_base(i) == Get_reg(i32regs, i.rs)

\* base + Ofs() in UINT32; nothing compares it with the size of the memory.
Address(i) == (Get_reg(i32regs, i.rs) + i.ofs) % Word
InBounds(a) == a + WordBytes <= MemorySize
-----------------------------------------------------------------------------
Executes(op) == vm = "running" /\ xit <= Len(uinsts) /\ uinsts[xit].op = op

CurU == uinsts[xit]

Step == xit' = xit + 1 /\ UNCHANGED <<convVars, vm, junk>>

Halt(how) == vm' = how /\ UNCHANGED <<convVars, xit, frameVars>>

NewFrame ==
    /\ trans = "translated"
    /\ vm = "idle"
    /\ vm' = "running"
    /\ junk' \in Junk
    /\ memory' = [a \in 0 .. MemorySize - 1 |-> (junk' * (a + 1)) % Byte]
    /\ UNCHANGED <<convVars, xit, i32regs, i64regs>>

Execute_add ==
    /\ Executes("I32Add")
    /\ i32regs' = Set_reg(i32regs, CurU.rd,
                          Get_reg(i32regs, CurU.rs) + Get_reg(i32regs, CurU.rt))
    /\ UNCHANGED <<i64regs, memory>>
    /\ Step

Execute_add64 ==
    /\ Executes("I64Add")
    /\ i64regs' = Set_reg(i64regs, CurU.rd,
                          Get_reg(i64regs, CurU.rs) + Get_reg(i64regs, CurU.rt))
    /\ UNCHANGED <<i32regs, memory>>
    /\ Step

Execute_const ==
    /\ Executes("I32Const")
    /\ i32regs' = Set_reg(i32regs, CurU.rd, CurU.ofs)
    /\ UNCHANGED <<i64regs, memory>>
    /\ Step

\* Faulty: the iterator stays at the return.
Execute_ret_again ==
    /\ Executes("URETURN")
    /\ i32regs' = Set_reg(i32regs, REGISTER_return, Get_reg(i32regs, CurU.rd))
    /\ UNCHANGED <<i64regs, memory, xit, convVars, vm, junk>>

\* Copies the value to the return register and goes on with the next instruction.
Execute_ret ==
    /\ Executes("URETURN")
    /\ i32regs' = Set_reg(i32regs, REGISTER_return, Get_reg(i32regs, CurU.rd))
    /\ UNCHANGED <<i64regs, memory>>
    /\ Step

Execute_load ==
    /\ Executes("I32Load")
    /\ InBounds(Address(CurU))
    /\ i32regs' = Set_reg(i32regs, CurU.rd, ReadWord(memory, Address(CurU)))
    /\ UNCHANGED <<i64regs, memory>>
    /\ Step

Execute_store ==
    /\ Executes("I32Store")
    /\ InBounds(Address(CurU))
    /\ memory' = WriteWord(memory, Address(CurU), Get_reg(i32regs, CurU.rd))
    /\ UNCHANGED <<i32regs, i64regs>>
    /\ Step

\* An access beyond the heap block: the model follows no run further.
OutOfBounds ==
    /\ Executes("I32Load") \/ Executes("I32Store")
    /\ ~InBounds(Address(CurU))
    /\ Halt("undefined")

Implemented == {"I32Add", "I64Add", "URETURN", "I32Load", "I32Store", "I32Const"}

\* The default case asserts: movs and jumps stop the program here.
NotImplemented ==
    /\ vm = "running"
    /\ xit <= Len(uinsts)
    /\ CurU.op \notin Implemented
    /\ Halt("aborted")

EndOfBody ==
    /\ vm = "running"
    /\ xit > Len(uinsts)
    /\ Halt("done")

Execute_function_body ==
    \/ Execute_add \/ Execute_add64 \/ Execute_const \/ Execute_ret
    \/ Execute_load \/ Execute_store \/ OutOfBounds
    \/ NotImplemented
    \/ EndOfBody

ExecInit ==
    /\ TransInit
    /\ vm = "idle"
    /\ xit = 1
    /\ i32regs = <<>>
    /\ i64regs = <<>>
    /\ memory = <<>>
    /\ junk = 0

ExecNext ==
    \/ TransNext /\ UNCHANGED execVars
    \/ NewFrame
    \/ Execute_function_body

\* One thread, no blocking: it runs until the handler is over.
ExecSpec == ExecInit /\ [][ExecNext]_allVars /\ WF_allVars(ExecNext)
-----------------------------------------------------------------------------
ExecTypeOK ==
    /\ vm \in {"idle", "running", "done", "aborted", "undefined"}
    /\ xit \in 1 .. Len(uinsts) + 1
    /\ DOMAIN i32regs \cup DOMAIN i64regs \subseteq 0 .. 2^REG_SIZE - 1
    /\ \A r \in DOMAIN i32regs : i32regs[r] \in 0 .. Word - 1
    /\ \A r \in DOMAIN i64regs : i64regs[r] \in 0 .. Word - 1
    /\ \A a \in DOMAIN memory : memory[a] \in 0 .. Byte - 1

\* The run never writes a register that belongs to a local, nor the two that are
\* to read 0 and 1: what it writes are temporaries, the return register, and the
\* register of the operands made up by the default case.
LocalsPreserved ==
    /\ DOMAIN i32regs \cap (ToSet(local_map) \cup {0, 1}) = {}
    /\ DOMAIN i64regs \subseteq {512}

\* The handler always comes to an end: it returns, or the program stops.
HandlerEnds ==
    <>(\/ ctor = "aborted" \/ build = "aborted"
       \/ trans \in {"aborted", "undefined"}
       \/ vm \in {"done", "aborted", "undefined"})
=============================================================================
