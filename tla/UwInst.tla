------------------------------- MODULE UwInst -------------------------------
(***************************************************************************)
(* The instructions of uwasm: the table (uwinst_opcode.h up to its `#if 0'), *)
(* the bit-fields of each addressing mode (uwinst.h), and what uwinst.cpp    *)
(* does with them: constructor, Set_* and getters, Emit_binary, Scan_inst.   *)
(*                                                                          *)
(* The storage of an instruction is 64 bits, the least significant bit of    *)
(* the first byte first: the order in which the build lays out bit-fields.   *)
(* A number is below 2^31, the bound of TLC's integers.                      *)
(***************************************************************************)
EXTENDS WasmScan

B_SIZE    == 1
MN_SIZE   == 7
MN2_SIZE  == 8
SOFS_SIZE == 20

\* Faulty variants, never part of the specification: an eighth bit is missing.
REG_SIZE_narrow == 8

REG_SIZE == 10

\* The fields of each mode in the order of its struct, with their widths.
AM ==
    LET head == <<<<"b32", B_SIZE>>, <<"mn", MN_SIZE>>>>
        rd   == <<"rd", REG_SIZE>>
        rs   == <<"rs", REG_SIZE>>
        rt   == <<"rt", REG_SIZE>>
        wide == head \o <<<<"mn2", MN2_SIZE>>, rd,
                          <<"dum1", 32 - B_SIZE - MN_SIZE - MN2_SIZE - REG_SIZE>>>>
    IN  [AM32         |-> head \o <<<<"dum", 32 - B_SIZE - MN_SIZE>>>>,
         AM32_R       |-> head \o <<rd, <<"dum", 32 - B_SIZE - MN_SIZE - REG_SIZE>>>>,
         AM32_OFS     |-> head \o <<<<"lofs", 32 - B_SIZE - MN_SIZE>>>>,
         AM32_R_OFS   |-> head \o <<rd, <<"sofs", 12>>>>,
         AM32_R_R     |-> head \o <<rd, rs>>,
         AM32_IMM_OFS |-> head \o <<<<"imms", 12>>, <<"sofs", 12>>>>,
         AM64_R_R_R   |-> wide \o <<<<"dum2", 32 - 2 * REG_SIZE>>, rs, rt>>,
         AM64_R_OFS   |-> wide \o <<<<"lofs", 32>>>>,
         AM64_R_R_OFS |-> wide \o <<rs, <<"sofs", SOFS_SIZE>>>>]

SmallModes == {"AM32", "AM32_R", "AM32_R_R", "AM32_R_OFS"}

\* The bits of a field: no field of these structs crosses a 32-bit unit.
FieldBits ==
    [am \in DOMAIN AM |->
        LET fields == AM[am]
            first[k \in DOMAIN fields] == IF k = 1 THEN 0 ELSE first[k-1] + fields[k-1][2]
        IN  [f \in {fields[k][1] : k \in DOMAIN fields} |->
                LET k == CHOOSE n \in DOMAIN fields : fields[n][1] = f
                IN  first[k] .. first[k] + fields[k][2] - 1]]

GetField(bits, am, f) ==
    LET at == FieldBits[am][f]
        from[b \in 0 .. 64] == IF b \notin at THEN 0 ELSE bits[b] + 2 * from[b + 1]
    IN  from[Min(at)]
-----------------------------------------------------------------------------
Row(name, wasm_op, uwasm_op, am) ==
    [name |-> name, wasm_op |-> wasm_op, uwasm_op |-> uwasm_op, ty_am |-> am]

\* Rows of instructions with the same opcode, and one name, in both sets.
Same(lo, hi, am) ==
    [k \in 1 .. hi - lo + 1 |-> Row(WINST_OPCODE[lo + k - 1], lo + k - 1, lo + k - 1, am)]

\* The control instructions, each a row of its own.
ControlRows ==
    <<Row("UNOP",    0, 0, "AM32"),         Row("UUNREACH", 1, 1, "AM32"),
      Row("UBLOCK",  2, 2, "AM32_R"),       Row("UTRY", 6, 6, "AM32_R"),
      Row("UCATCH",  7, 7, "AM32_R"),       Row("UTHROW", 8, 8, "AM32_R"),
      Row("UJMP",   11, 9, "AM32_R"),       Row("UJEQ", 0, 10, "AM32_R_R"),
      Row("UJNE",   0, 11, "AM32_R_R"),     Row("UJLT", 0, 12, "AM32_R_R"),
      Row("UJLE",   0, 13, "AM32_R_R"),     Row("UJGT", 0, 14, "AM32_R_R"),
      Row("URETURN", 15, 15, "AM32_R"),     Row("UCALL_SHORT", 16, 16, "AM32_R"),
      Row("UCALL_LONG", 16, 16, "AM64_R_OFS"),
      Row("UCALL_INDIRECT", 17, 17, "AM32_R"),
      Row("URETURN_CALL", 18, 18, "AM64_R_OFS"),
      Row("URETURN_CALL_INDIRECT", 19, 19, "AM64_R_OFS"),
      Row("USELECT", 27, 27, "AM64_R_R_R"), Row("UJGE", 0, 32, "AM64_R_R_OFS"),
      Row("UJEZ",  0, 33, "AM32_R_OFS"),    Row("UJNZ", 0, 34, "AM32_R_OFS"),
      Row("UJLZ",  0, 35, "AM32_R_OFS"),    Row("UJLEZ", 0, 36, "AM32_R_OFS"),
      Row("UJGZ",  0, 36, "AM32_R_OFS"),    Row("UJGEZ", 0, 36, "AM32_R_OFS")>>

\* The table, in the order both searches go through it.
UWASM_META_INFO ==
    ControlRows
    \o Same(40, 62, "AM64_R_R_OFS")  \o Same(63, 64, "AM32_R")
    \o Same(65, 69, "AM64_R_OFS")    \o Same(70, 72, "AM64_R_R_R")
    \o Same(73, 105, "AM64_R_OFS")   \o Same(106, 191, "AM64_R_R_R")
    \o <<Row("UMOV", 192, 192, "AM32_R_R")>>

NoRow == Row("none", 0, 0, "none")   \* the assertion behind the search has failed

\* Both searches return the first row that matches, by the opcode of one set or of
\* the other.
FirstRows(key) ==
    [v \in {row[key] : row \in ToSet(UWASM_META_INFO)} |->
        UWASM_META_INFO[Min({k \in DOMAIN UWASM_META_INFO : UWASM_META_INFO[k][key] = v})]]

ByUwasm == FirstRows("uwasm_op")
ByWasm  == FirstRows("wasm_op")

UOPCODE_inst(opcode)  == IF opcode \in DOMAIN ByUwasm THEN ByUwasm[opcode] ELSE NoRow
UOPCODE_of_wasm(code) == IF code \in DOMAIN ByWasm THEN ByWasm[code] ELSE NoRow

\* The rows by their names.
UwinstRow == FirstRows("name")
-----------------------------------------------------------------------------
(* The storage of an instruction: a setter writes an operand to a field of    *)
(* one of the layouts, not always the one of the instruction's mode.  Set_imm *)
(* and Imm are never called; a getter has no case for the modes in which it   *)
(* asserts, and no caller reaches those.                                      *)

Regs32 == {"AM32_R", "AM32_R_R", "AM32_R_OFS"}
Regs64 == {"AM64_R_R_R", "AM64_R_OFS", "AM64_R_R_OFS"}

Put(am, field, of) == [am |-> am, field |-> field, of |-> of]

\* The constructor: the table is in static storage, zero before it runs.
NewUwasm(am) ==
    IF am \in SmallModes
    THEN <<Put("AM32_R", "mn", "code")>>
    ELSE <<Put("AM64_R_R_OFS", "b32", "one"), Put("AM64_R_R_OFS", "mn", "high"),
           Put("AM64_R_R_OFS", "mn2", "code")>>

Set_rd(am) ==
    CASE am \in Regs32 -> <<Put("AM32_R", "rd", "rd")>>
      [] am \in Regs64 -> <<Put("AM64_R_R_R", "rd", "rd")>>
      [] OTHER         -> <<>>

\* Faulty: the source is written through the layout of three registers.
Set_rs_asRRR(am) ==
    CASE am = "AM32_R_R"                       -> <<Put(am, "rs", "rs")>>
      [] am \in {"AM64_R_R_R", "AM64_R_R_OFS"} -> <<Put("AM64_R_R_R", "rs", "rs")>>
      [] OTHER                                 -> <<>>

Set_rs(am) ==
    IF am \in {"AM32_R_R", "AM64_R_R_R", "AM64_R_R_OFS"} THEN <<Put(am, "rs", "rs")>> ELSE <<>>

Set_rt(am) == IF am = "AM64_R_R_R" THEN <<Put(am, "rt", "rt")>> ELSE <<>>

\* The first case has no break.
Set_ofs(am) ==
    CASE am = "AM32_OFS" ->
            <<Put("AM32_OFS", "lofs", "ofs"), Put("AM32_R_OFS", "sofs", "ofs")>>
      [] am \in {"AM32_R_OFS", "AM64_R_R_OFS", "AM32_IMM_OFS"} -> <<Put(am, "sofs", "ofs")>>
      [] am = "AM64_R_OFS" -> <<Put(am, "lofs", "ofs")>>
      [] OTHER             -> <<>>

\* The operand, and its bit, that each bit of the storage holds in the end.
Set_am ==
    [am \in DOMAIN AM |->
        LET puts == NewUwasm(am) \o Set_rd(am) \o Set_rs(am) \o Set_rt(am) \o Set_ofs(am)
            at   == [n \in DOMAIN puts |-> FieldBits[puts[n].am][puts[n].field]]
        IN  [b \in 0 .. 63 |->
                LET last == Max({0} \cup {n \in DOMAIN puts : b \in at[n]})
                IN  IF last = 0 THEN [of |-> "zero", bit |-> 0]
                    ELSE [of |-> puts[last].of, bit |-> b - Min(at[last])]]]

\* What an instruction of a row holds.
Operands(row, i) ==
    [code |-> row.uwasm_op, high |-> row.uwasm_op \div 2^8, one |-> 1, zero |-> 0,
     rd |-> i.rd, rs |-> i.rs, rt |-> i.rt, ofs |-> i.ofs]

StorageBit(from, opds) ==
    IF from.bit \in 0 .. 30 THEN (opds[from.of] \div 2 ^ from.bit) % 2 ELSE 0

InstSize(am) == IF am \in SmallModes THEN 4 ELSE 8

\* The first 4 or all 8 bytes of the storage.
Emit_binary(am, opds) ==
    [k \in 1 .. InstSize(am) |->
        LET from[b \in 0 .. 8] ==
                IF b = 8 THEN 0
                ELSE StorageBit(Set_am[am][8 * (k - 1) + b], opds) + 2 * from[b + 1]
        IN  from[0]]

\* The storage the bytes are read into.
BitsOf(bytes) ==
    [b \in 0 .. 63 |-> IF b < 8 * Len(bytes)
                       THEN (bytes[b \div 8 + 1] \div 2 ^ (b % 8)) % 2 ELSE 0]

Rd(bits, am) ==
    CASE am \in Regs32 -> GetField(bits, "AM32_R", "rd")
      [] am \in Regs64 -> GetField(bits, "AM64_R_R_R", "rd")
Rs(bits, am) == GetField(bits, am, "rs")
Rt(bits, am) == GetField(bits, am, "rt")
Ofs(bits, am) ==
    GetField(bits, am, IF am \in {"AM32_OFS", "AM64_R_OFS"} THEN "lofs" ELSE "sofs")

\* Scan_inst at offset i of the bytes d: the row found and the four bytes of a
\* small instruction.  Behind a first bit of 1 the opcode has bit 15 set, which no
\* row has: NoRow before the second word is read.
Scan_inst(d, i) ==
    LET word   == BitsOf(SubSeq(d, i + 1, i + 4))
        mn     == GetField(word, "AM32", "mn")
        mn2    == GetField(word, "AM64_R_R_R", "mn2")
        opcode == IF GetField(word, "AM32", "b32") = 0 THEN mn
                  ELSE 2^15 + 2^14 * (mn % 2) + mn2
    IN  [row |-> UOPCODE_inst(opcode), am |-> word]
=============================================================================
