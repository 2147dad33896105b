------------------------------ MODULE WasmScan ------------------------------
(***************************************************************************)
(* The converter's own reading of a function body (winst_opcode.h, winst.cpp *)
(* lines 13-21 and 138-150, reader.cpp, test.cpp lines 40-65), which does    *)
(* not share its tables with the binary reader: an instruction is an opcode  *)
(* of one byte and at most two operands, all of them LEB128 numbers.         *)
(*                                                                          *)
(* d is the sequence of the bytes of the file, i an offset into it, from 0.  *)
(***************************************************************************)
EXTENDS SequencesExt, Integers

\* The instructions of the code's table, named as op_enum.h names them, by runs of
\* opcodes.
ControlNames == <<
    "Unreachable", "Nop", "Block", "Loop", "If", "Else", "Try", "Catch",
    "Throw", "Rethrow", "BrOnExn", "End", "Br", "BrIf", "BrTable", "Return",
    "Call", "CallIndirect", "ReturnCall", "ReturnCallIndirect">>

StackNames == <<
    "Drop", "Select", "SelectT">>

VariableNames == <<
    "LocalGet", "LocalSet", "LocalTee", "GlobalGet", "GlobalSet">>

NumericNames == <<
    "I32Load", "I64Load", "F32Load", "F64Load", "I32Load8S", "I32Load8U",
    "I32Load16S", "I32Load16U", "I64Load8S", "I64Load8U", "I64Load16S",
    "I64Load16U", "I64Load32S", "I64Load32U", "I32Store", "I64Store",
    "F32Store", "F64Store", "I32Store8", "I32Store16", "I64Store8",
    "I64Store16", "I64Store32", "MemorySize", "MemoryGrow", "I32Const",
    "I64Const", "F32Const", "F64Const", "I32Eqz", "I32Eq", "I32Ne",
    "I32LtS", "I32LtU", "I32GtS", "I32GtU", "I32LeS", "I32LeU", "I32GeS",
    "I32GeU", "I64Eqz", "I64Eq", "I64Ne", "I64LtS", "I64LtU", "I64GtS",
    "I64GtU", "I64LeS", "I64LeU", "I64GeS", "I64GeU", "F32Eq", "F32Ne",
    "F32Lt", "F32Gt", "F32Le", "F32Ge", "F64Eq", "F64Ne", "F64Lt", "F64Gt",
    "F64Le", "F64Ge", "I32Clz", "I32Ctz", "I32Popcnt", "I32Add", "I32Sub",
    "I32Mul", "I32DivS", "I32DivU", "I32RemS", "I32RemU", "I32And", "I32Or",
    "I32Xor", "I32Shl", "I32ShrS", "I32ShrU", "I32Rotl", "I32Rotr",
    "I64Clz", "I64Ctz", "I64Popcnt", "I64Add", "I64Sub", "I64Mul",
    "I64DivS", "I64DivU", "I64RemS", "I64RemU", "I64And", "I64Or", "I64Xor",
    "I64Shl", "I64ShrS", "I64ShrU", "I64Rotl", "I64Rotr", "F32Abs",
    "F32Neg", "F32Ceil", "F32Floor", "F32Trunc", "F32Nearest", "F32Sqrt",
    "F32Add", "F32Sub", "F32Mul", "F32Div", "F32Min", "F32Max",
    "F32Copysign", "F64Abs", "F64Neg", "F64Ceil", "F64Floor", "F64Trunc",
    "F64Nearest", "F64Sqrt", "F64Add", "F64Sub", "F64Mul", "F64Div",
    "F64Min", "F64Max", "F64Copysign", "I32WrapI64", "I32TruncF32S",
    "I32TruncF32U", "I32TruncF64S", "I32TruncF64U", "I64ExtendI32S",
    "I64ExtendI32U", "I64TruncF32S", "I64TruncF32U", "I64TruncF64S",
    "I64TruncF64U", "F32ConvertI32S", "F32ConvertI32U", "F32ConvertI64S",
    "F32ConvertI64U", "F32DemoteF64", "F64ConvertI32S", "F64ConvertI32U",
    "F64ConvertI64S", "F64ConvertI64U", "F64PromoteF32",
    "I32ReinterpretF32", "I64ReinterpretF64", "F32ReinterpretI32",
    "F64ReinterpretI64">>

WINST_OPCODE ==
    [c \in (0 .. 19) \cup (26 .. 28) \cup (32 .. 36) \cup (40 .. 191) |->
        IF c < 20 THEN ControlNames[c + 1]
        ELSE IF c < 29 THEN StackNames[c - 25]
        ELSE IF c < 37 THEN VariableNames[c - 31]
        ELSE NumericNames[c - 39]]

WinstNames == {WINST_OPCODE[c] : c \in DOMAIN WINST_OPCODE}
Encode == [n \in WinstNames |-> CHOOSE c \in DOMAIN WINST_OPCODE : WINST_OPCODE[c] = n]

\* Faulty variants, never part of the specification: a load has one operand.
Numopr_oneForMemory(op) ==
    CASE op = 14 -> 2
      [] op \in (2 .. 4) \cup {12, 13, 16} \cup (32 .. 36) \cup ((40 .. 68) \ {63}) -> 1
      [] OTHER -> 0

\* The column numopr of the table.
Numopr(op) ==
    CASE op \in {14} \cup 40 .. 62 -> 2
      [] op \in (2 .. 4) \cup {12, 13, 16} \cup (32 .. 36) \cup (64 .. 68) -> 1
      [] OTHER -> 0
-----------------------------------------------------------------------------
\* The position of the first byte below 128 at or after offset i: the loops of
\* reader.cpp compare with nothing else.  0 when the file ends before it.
LebEnd(d, i) ==
    LET ends == {k \in i + 1 .. Len(d) : d[k] < 128}
    IN  IF ends = {} THEN 0 ELSE Min(ends)

\* The count of the loop is a UINT8.
Read_opr_size(d, i) == (LebEnd(d, i) - i) % 2^8

\* Whatever the instruction, the number is unsigned; each group of 7 bits is a
\* UINT32 before and after it is shifted.  The bodies hold no operand of more than
\* four bytes that the translation reads: the groups above are left out here.
Read_leb128(d, i) ==
    LET from[k \in 0 .. 4] ==   \* the groups from the k-th on
            IF k = 4 \/ i + k >= LebEnd(d, i) THEN 0
            ELSE (d[i + k + 1] % 128) + 128 * from[k + 1]
    IN  from[0]

\* The number of bytes of the instruction at i; -1 when it needs a byte the file
\* does not have, which the code reads all the same.
Read_inst_size(d, i) ==
    LET n  == Numopr(d[i + 1])
        s1 == IF n > 0 THEN Read_opr_size(d, i + 1) ELSE 0
        s2 == IF n > 1 THEN Read_opr_size(d, i + 1 + s1) ELSE 0
    IN  IF \/ n > 0 /\ LebEnd(d, i + 1) = 0
           \/ n > 1 /\ LebEnd(d, i + 1 + s1) = 0
        THEN -1 ELSE 1 + s1 + s2

\* The operand the translation reads of the instruction at i, from its Pc().
Operand(d, i) ==
    CASE WINST_OPCODE[d[i + 1]] \in
            {"Br", "BrIf", "LocalGet", "LocalSet", "LocalTee", "I32Const"} ->
                Read_leb128(d, i + 1)
      [] WINST_OPCODE[d[i + 1]] \in {"I32Load", "I32Store"} ->
                Read_leb128(d, i + 1 + Read_opr_size(d, i + 1))
      [] OTHER -> 0
=============================================================================
