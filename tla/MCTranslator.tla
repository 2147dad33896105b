---------------------------- MODULE MCTranslator ----------------------------
(* Function bodies for the translation: stack code without control flow,     *)
(* well-nested control flow, and short sequences of anything.                *)
EXTENDS Translator

CONSTANTS MaxOps, MaxParts, MaxAny

I(op, imm) == [op |-> op, imm |-> imm]

\* Local 0 is the parameter of the function below, local 1 its local; a third
\* local does not exist.  14 + 3 wraps a word of 16 values; 3 is inside a memory
\* of 8 bytes, 14 is not.
StackOps ==
    {I("LocalGet", 0), I("LocalSet", 0), I("LocalTee", 1), I("I32Const", 14), I("I32Const", 3),
     I("I32Add", 0), I("I32Load", 1), I("I32Store", 0), I("Drop", 0)}

Needs == [LocalGet |-> 0, LocalSet |-> 1, LocalTee |-> 1, I32Const |-> 0,
          I32Add |-> 2, I32Load |-> 1, I32Store |-> 2, Drop |-> 1]
Gives == [LocalGet |-> 1, LocalSet |-> 0, LocalTee |-> 1, I32Const |-> 1,
          I32Add |-> 1, I32Load |-> 1, I32Store |-> 0, Drop |-> 0]

\* What a wasm validator accepts: no instruction finds the stack too low.
StackValid(s) ==
    LET height[k \in 0 .. Len(s)] ==
            IF k = 0 THEN 0
            ELSE IF height[k-1] < Needs[s[k].op] THEN -1
            ELSE height[k-1] - Needs[s[k].op] + Gives[s[k].op]
    IN  \A k \in DOMAIN s : height[k] >= 0

StackBodies == {Append(s, I("End", 0)) : s \in {b \in BoundedSeq(StackOps, MaxOps) : StackValid(b)}}

\* Each operation on two operands that differ.
OrderBodies ==
    {<<I("I32Const", 7), I("LocalGet", 0), I(op, 0), I("End", 0)>> : op \in Arithmetic}

\* A conditional takes its operand from a constant just before it.
Parts ==
    {<<I("I32Const", 1), I("If", 0)>>, <<I("Loop", 0)>>, <<I("Else", 0)>>, <<I("End", 0)>>,
     <<I("Br", 0)>>, <<I("Br", 1)>>, <<I("Br", 2)>>, <<I("I32Const", 1), I("BrIf", 1)>>}

NestDepth(s) ==
    Cardinality({j \in DOMAIN s : s[j].op \in {"If", "Loop", "Block"}})
  - Cardinality({j \in DOMAIN s : s[j].op = "End"})

WellNested(s) ==
    /\ \A k \in 0 .. Len(s) : NestDepth(SubSeq(s, 1, k)) >= 0
    /\ NestDepth(s) = 0

ControlBodies ==
    {Append(b, I("End", 0)) :
        b \in {c \in {FlattenSeq(p) : p \in BoundedSeq(Parts, MaxParts)} : WellNested(c)}}

AnyOps ==
    {I("Block", 0), I("If", 0), I("Loop", 0), I("Else", 0), I("End", 0), I("BrTable", 0),
     I("LocalGet", 2), I("LocalSet", 0), I("I32Add", 0), I("I64Add", 0), I("I32Const", 3),
     I("Return", 0), I("Select", 0), I("Call", 0), I("Nop", 0), I("I32Eqz", 0), I("GlobalGet", 0)}

MCInputs == StackBodies \cup OrderBodies \cup ControlBodies \cup BoundedSeq(AnyOps, MaxAny)

MCFuncs == {[params |-> <<"I32">>, locals |-> <<"I32">>]}
=============================================================================
