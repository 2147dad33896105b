------------------------------ MODULE MCDriver ------------------------------
(* Driver over modules of up to three functions made of the bodies below, with *)
(* every kind of instruction the scan and the translation tell apart.          *)
EXTENDS Driver

CONSTANT MaxFuncs

I(op) == <<Encode[op]>>
Const(b) == I("I32Const") \o <<b>>
EndOfBody1 == I("End")

Sig == [params |-> <<"I32">>, locals |-> <<>>]

\* 1018 parameters take the registers 3 to 1020: the second temporary is 1023.
WideSig == [params |-> [k \in 1 .. 1018 |-> "I32"], locals |-> <<>>]
V128Sig == [params |-> <<"V128">>, locals |-> <<>>]

Def(body)      == [sig |-> Sig, body |-> body \o EndOfBody1]
Import         == [sig |-> Sig, body |-> <<>>]

\* Bodies that run to their end, small and larger than a buffer.
Short == Def(Const(5) \o I("Drop"))
Long  == Def(Const(5) \o Const(3) \o I("I32Add") \o I("Drop"))
Empty == Def(<<>>)
Ret   == Def(Const(1) \o I("Return"))

\* Bodies on which the program stops: at a mov, at a local without a register, at
\* a jump, at a block, on an empty stack.
Mov   == Def(I("LocalGet") \o <<0>> \o I("LocalTee") \o <<0>> \o I("Return"))
Local == Def(I("LocalGet") \o <<9>> \o I("Drop"))
Jumps1 == Def(I("Loop") \o <<64>> \o Const(1) \o I("BrIf") \o <<0>> \o I("Br") \o <<1>> \o I("End"))
Blocks == Def(I("Block") \o <<64>> \o I("End"))
Pop    == Def(I("Drop"))

\* Numbers of several bytes, a negative constant, offsets.
Numbers ==
    Def(Const(128) \o <<128, 4>> \o I("I32Load") \o <<130, 0, 129, 1>> \o I("Drop")
        \o Const(127) \o Const(3) \o I("I32Store") \o <<2, 0>>)

\* Instructions whose operands the scan miscounts.
Table  == Def(Const(1) \o I("BrTable") \o <<2, 0, 0, 0>>)
Indir  == Def(Const(0) \o I("CallIndirect") \o <<0, 0>>)
Memory == Def(I("MemorySize") \o <<0>> \o I("Drop"))
Float  == Def(I("F32Const") \o <<0, 0, 128, 63>> \o I("Drop"))
Double == Def(I("F64Const") \o <<0, 0, 0, 0, 0, 0, 240, 63>> \o I("Drop"))
Typed  == Def(Const(1) \o Const(2) \o Const(3) \o I("SelectT") \o <<1, 127>>)
Throws == Def(I("Throw") \o <<0>>)

\* The last byte of the constant reads as a load, whose operands the body lacks.
Runs   == Def(I("F32Const") \o <<0, 0, 0, 40>>)

\* Known to the reader only: sign extension.
Extend == Def(Const(1) \o <<192>>)

\* Every instruction without operands from eqz on, in bodies of 31.
Plain(n) == Def([k \in 1 .. IF n = 4 THEN 30 ELSE 31 |-> 37 + 31 * n + k])

WideFunc == [sig |-> WideSig, body |-> Const(1) \o Const(2) \o Const(3) \o Const(4) \o EndOfBody1]
V128Func == [sig |-> V128Sig, body |-> EndOfBody1]

\* A body follows its size and its declarations.
Assemble(defs) ==
    LET at[n \in 0 .. Len(defs)] ==
            IF n = 0 THEN 0
            ELSE at[n-1] + Len(defs[n].body) + (IF defs[n].body = <<>> THEN 0 ELSE 2)
    IN  [bytes |-> FlattenSeq([n \in DOMAIN defs |->
                        IF defs[n].body = <<>> THEN <<>>
                        ELSE <<Len(defs[n].body) + 1, 0>> \o defs[n].body]),
         funcs |-> [n \in DOMAIN defs |->
                        [sig |-> defs[n].sig,
                         wasm_bin |-> IF defs[n].body = <<>> THEN <<>>
                                      ELSE <<at[n-1] + 2, at[n]>>]]]

Ending == {Mov, Local, Jumps1, Blocks, Pop, Numbers, Table, Indir, Memory, Float, Double,
           Typed, Throws, Runs, Extend, V128Func}

Going == {Short, Long, Empty, Ret, Import}

\* Any functions that run to their end, and then at most one of the others.
MCModules ==
    {Assemble(d) : d \in BoundedSeq(Going, MaxFuncs)
                         \cup {Append(g, e) : g \in BoundedSeq(Going, MaxFuncs - 1), e \in Ending}
                         \cup {<<e, Short>> : e \in Ending}
                         \cup {<<Plain(n)>> : n \in 1 .. 4} \cup {<<WideFunc>>}}

MCInputs == {<<>>}
MCFuncs  == {Sig}
MCJunk   == {0, 5}
=============================================================================
