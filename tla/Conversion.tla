----------------------------- MODULE Conversion -----------------------------
(***************************************************************************)
(* What a conversion with its run promises end to end: the values the run   *)
(* leaves in the registers are those wasm computes.  The terms of           *)
(* FaithfulAfter are evaluated over the contents the frame started with.        *)
(***************************************************************************)
EXTENDS Executor

Trap  == -1
NoMem == <<>>

RECURSIVE Eval(_), EvalMem(_)

\* An address of wasm does not wrap: beyond the memory is a trap.
At32(addr, ofs) ==
    IF addr = Trap \/ addr + ofs + WordBytes > MemorySize THEN Trap ELSE addr + ofs

Eval(t) ==
    CASE t[1] = "init"   -> Uninit(t[2])
      [] t[1] = "const"  -> t[2] % Word
      [] t[1] = "I32Add" -> LET a == CHOOSE v \in t[2] : TRUE
                                b == CHOOSE v \in t[2] : t[2] = {a, v}
                            IN  IF Trap \in {Eval(a), Eval(b)} THEN Trap
                                ELSE (Eval(a) + Eval(b)) % Word
      [] t[1] = "load"   -> IF EvalMem(t[2]) = NoMem \/ At32(Eval(t[3]), t[4]) = Trap THEN Trap
                            ELSE ReadWord(EvalMem(t[2]), At32(Eval(t[3]), t[4]))

EvalMem(t) ==
    CASE t[1] = "mem"   -> [a \in 0 .. MemorySize - 1 |-> (junk * (a + 1)) % Byte]
      [] t[1] = "store" -> IF \/ EvalMem(t[2]) = NoMem
                              \/ At32(Eval(t[3]), t[4]) = Trap \/ Eval(t[5]) = Trap THEN NoMem
                           ELSE WriteWord(EvalMem(t[2]), At32(Eval(t[3]), t[4]), Eval(t[5]))

\* After the run of a body wasm defines, the register of each remaining operand
\* holds its value and memory is as wasm left it, unless wasm would have trapped.
ExecAgrees ==
    (vm = "done" /\ FaithfulAfter.sound) =>
        /\ \A k \in DOMAIN wasm_stack :
              Eval(FaithfulAfter.stack[k].val) \in {Trap, Get_reg(i32regs, wasm_stack[k].idx)}
        /\ EvalMem(FaithfulAfter.mem) \in {NoMem, memory}

\* The code of the last return instruction of the body, its first instruction.
ReturnCode(p) == uinsts[Min({n \in DOMAIN uinsts : uinsts[n].pc = p})]

\* The return register ends up with the value the last return was given.
ReturnValueKept ==
    vm = "done" =>
        \A p \in DOMAIN ins :
            (ins[p].op = "Return" /\ \A q \in p + 1 .. Len(ins) : ins[q].op # "Return") =>
                Get_reg(i32regs, REGISTER_return) = Get_reg(i32regs, ReturnCode(p).rd)
=============================================================================
