---------------------------- MODULE MCConversion ----------------------------
(* The whole handler, its blocks, translation and run, over the bodies of the *)
(* translation and every short vector of structured instructions, well nested *)
(* or not.                                                                    *)
EXTENDS Conversion, MCTranslator

CONSTANT MaxVector

\* One input per sequence of opcodes; Loop is opened as Block is and Nop only
\* advances, so they are given to the shorter vectors.
Structured == {I(op, 0) : op \in {"If", "Block", "Else", "End"}}
Vectors ==
    BoundedSeq(Structured, MaxVector)
        \cup BoundedSeq(Structured \cup {I("Loop", 0), I("Nop", 0)}, MaxVector - 2)

HandlerInputs == MCInputs \cup Vectors

\* The second function has a type without registers.
HandlerFuncs == MCFuncs \cup {[params |-> <<"V128">>, locals |-> <<>>]}
MCJunk == {0, 5}
=============================================================================
