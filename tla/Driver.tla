------------------------------- MODULE Driver -------------------------------
(***************************************************************************)
(* The two programs around a conversion.  wasm-cvt (wasm-cvt.cc lines 93-134)*)
(* walks the functions of the module that was read; for each one with a body *)
(* Read_insts (test.cpp) scans its bytes into instructions, Wasm_to_uwasm    *)
(* translates them (Executor), writes the result to output.inst, which it    *)
(* opens anew each time and never closes, and runs it.  wasm2uwasm (the main *)
(* of test.cpp) then lists the first bytes of that file.                     *)
(*                                                                          *)
(* stdio is external: a stream keeps up to BufSize bytes and its own offset; *)
(* exit flushes the streams still open, in an order C leaves open.           *)
(***************************************************************************)
EXTENDS Executor, FiniteSetsExt

CONSTANTS
    Modules,   \* the modules read: the bytes of the file, and per function its
               \* signature and <<begin, end>> of its body, <<>> for an import
    BufSize,   \* bytes a stream holds back, 4096 in the build: whole instructions
    ListSize   \* bytes of the file that are listed, 1024 in the code

ASSUME DriverAssumption ==
    /\ \A m \in Modules :
          /\ m.bytes \in Seq(0 .. 255)
          /\ m.funcs \in Seq([sig : Func_sig, wasm_bin : Seq(Nat)])
          /\ \A f \in DOMAIN m.funcs : LET bin == m.funcs[f].wasm_bin
                                     IN  bin # <<>> => Len(bin) = 2 /\ bin[2] <= Len(m.bytes)
    /\ BufSize \in Nat \ {0} /\ BufSize % 4 = 0
    /\ ListSize \in Nat

VARIABLES
    mod,         \* the module
    func_ctx,    \* FILE_CONTEXT's index of the current function, from 0
    stage,       \* what runs: see Stages
    scan_pc,     \* Read_insts' pc
    wasm_insts,  \* the offsets of the instructions scanned so far
    streams,     \* per fopen: what was written and how much of it is in the file
    flushed,     \* the streams exit has flushed
    disk,        \* the bytes of output.inst
    listing,     \* what wasm2uwasm has listed
    list_pc      \* its offset in the file

driverVars == <<mod, func_ctx, stage, scan_pc, wasm_insts,
                streams, flushed, disk, listing, list_pc>>
programVars == <<allVars, driverVars>>

Stages == {"func", "scan", "convert", "run",     \* wasm-cvt at work
           "exit", "killed", "undefined",        \* it stops
           "list", "ended"}                      \* wasm2uwasm

Func == mod.funcs[func_ctx + 1]

\* exit(1) of a failed assertion and the return from main alike.
Go(to) ==
    /\ stage' = to
    /\ UNCHANGED <<mod, func_ctx, scan_pc, wasm_insts, streams, flushed, disk,
                   listing, list_pc>>
-----------------------------------------------------------------------------
(* wasm-cvt: the loop over the functions.                                   *)

\* Faulty variants, never part of the specification: the loop goes on without
\* Next_func; it takes two functions at a time.
SkipImport_stuck ==
    /\ stage = "func"
    /\ func_ctx < Len(mod.funcs)
    /\ Func.wasm_bin = <<>>
    /\ UNCHANGED programVars

\* An imported function has no body, and its turn is over.
SkipImport ==
    /\ stage = "func"
    /\ func_ctx < Len(mod.funcs)
    /\ Func.wasm_bin = <<>>
    /\ func_ctx' = func_ctx + 1
    /\ UNCHANGED <<allVars, mod, stage, scan_pc, wasm_insts, streams, flushed, disk,
                   listing, list_pc>>

StartScan ==
    /\ stage = "func"
    /\ func_ctx < Len(mod.funcs)
    /\ Func.wasm_bin # <<>>
    /\ stage' = "scan"
    /\ scan_pc' = Func.wasm_bin[1]
    /\ wasm_insts' = <<>>
    /\ UNCHANGED <<allVars, mod, func_ctx, streams, flushed, disk, listing, list_pc>>

\* GetFunc answers null for an index beyond the last function.
Return0 == stage = "func" /\ func_ctx = Len(mod.funcs) /\ Go("exit") /\ UNCHANGED allVars

\* Next_func, after the conversion has returned.
Next_func_twice ==
    /\ stage = "run"
    /\ vm = "done"
    /\ func_ctx' = func_ctx + 2
    /\ stage' = "func"
    /\ UNCHANGED <<allVars, mod, scan_pc, wasm_insts, streams, flushed, disk,
                   listing, list_pc>>

Next_func ==
    /\ stage = "run"
    /\ vm = "done"
    /\ func_ctx' = func_ctx + 1
    /\ stage' = "func"
    /\ UNCHANGED <<allVars, mod, scan_pc, wasm_insts, streams, flushed, disk,
                   listing, list_pc>>
-----------------------------------------------------------------------------
(* Read_insts.  Only the start of an instruction is compared with the end of *)
(* the body: its operands may lie behind it.                                *)

Scans == stage = "scan" /\ scan_pc < Func.wasm_bin[2]
InTable == mod.bytes[scan_pc + 1] \in DOMAIN WINST_OPCODE

ScanInst ==
    /\ Scans
    /\ InTable
    /\ Read_inst_size(mod.bytes, scan_pc) # -1
    /\ wasm_insts' = Append(wasm_insts, scan_pc)
    /\ scan_pc' = scan_pc + Read_inst_size(mod.bytes, scan_pc)
    /\ UNCHANGED <<allVars, mod, func_ctx, stage, streams, flushed, disk, listing, list_pc>>

\* OPCODE_inst asserts that it finds the opcode.
ScanAborts == Scans /\ ~InTable /\ Go("exit") /\ UNCHANGED allVars

\* An operand runs past the last byte of the file.
ScanRunsOut ==
    /\ Scans
    /\ InTable
    /\ Read_inst_size(mod.bytes, scan_pc) = -1
    /\ Go("undefined")
    /\ UNCHANGED allVars

Decode(i) == [op |-> WINST_OPCODE[mod.bytes[i + 1]], imm |-> Operand(mod.bytes, i)]

\* Faulty: the tables of the last function are still there.
FreshTables_kept == UNCHANGED local_table

FreshTables == local_table' = [t \in NumTypes |-> <<>>]

\* Wasm_to_uwasm is called: all it keeps is local to the call (the initial states
\* of the modules below, for this vector and this function).
StartConvert ==
    /\ stage = "scan"
    /\ scan_pc >= Func.wasm_bin[2]
    /\ stage' = "convert"
    /\ ins' = [k \in DOMAIN wasm_insts |-> Decode(wasm_insts[k])]
    /\ func' = Func.sig
    /\ it' = 1 /\ ins_cnt' = BLOCK_INSTR_BEGIN
    /\ blocks' = Create_new_block(<<>>, <<>>, BLOCK_INSTR_BEGIN, "FUNC")
    /\ work' = <<BLOCK_FUNCTION>> /\ build' = "running"
    /\ fi' = 0 /\ ctor' = "params" /\ FreshTables
    /\ local_map' = <<>> /\ file' = <<>> /\ temps' = <<>>
    /\ pc' = BLOCK_INSTR_BEGIN /\ wasm_stack' = <<>> /\ label_tab' = <<>>
    /\ uinsts' = <<>> /\ trans' = "translating"
    /\ vm' = "idle" /\ xit' = 1 /\ i32regs' = <<>> /\ i64regs' = <<>>
    /\ memory' = <<>> /\ junk' = 0
    /\ UNCHANGED <<mod, func_ctx, scan_pc, wasm_insts, streams, flushed, disk,
                   listing, list_pc>>

Translate ==
    /\ stage = "convert"
    /\ TransNext
    /\ UNCHANGED <<execVars, driverVars>>

\* local_map.at throws, nothing catches it, and the program is aborted: no stream
\* is flushed.
Thrown == trans = "aborted" /\ Cur.op \in {"LocalGet", "LocalSet", "LocalTee"}

\* A failed assertion, an exception, or behaviour C++ leaves undefined.
ConvertStops ==
    /\ stage = "convert"
    /\ \/ (ctor = "aborted" \/ build = "aborted") /\ Go("exit")
       \/ trans = "aborted" /\ Go(IF Thrown THEN "killed" ELSE "exit")
       \/ trans = "undefined" /\ Go("undefined")
    /\ UNCHANGED allVars
-----------------------------------------------------------------------------
(* The file.                                                                *)

BinaryOf(i) == Emit_binary(TY_AM[i.op], Operands(UwinstRow[i.op], i))

\* Faulty: each instruction takes the eight bytes Emit_binary returns.
UBH_Print_padded(insts) ==
    FlattenSeq([n \in DOMAIN insts |-> BinaryOf(insts[n]) \o
                   [k \in 1 .. 8 - Len(BinaryOf(insts[n])) |-> 0]])

\* UBH_CODE::Print with a binary file: instruction after instruction.
UBH_Print(insts) == FlattenSeq([n \in DOMAIN insts |-> BinaryOf(insts[n])])

\* The file after bytes were written at offset ofs; a gap reads as zero.
WriteAt(old, ofs, bytes) ==
    [k \in 1 .. (IF bytes = <<>> THEN Len(old) ELSE Max({Len(old), ofs + Len(bytes)})) |->
        IF k \in ofs + 1 .. ofs + Len(bytes) THEN bytes[k - ofs]
        ELSE IF k <= Len(old) THEN old[k] ELSE 0]

\* A full buffer is written when there is more to come.
WrittenOut(n) == IF n = 0 THEN 0 ELSE BufSize * ((n - 1) \div BufSize)

\* fopen("output.inst", "w+") empties the file behind the streams already open.
Emit_output ==
    /\ stage = "convert"
    /\ trans = "translated"
    /\ stage' = "run"
    /\ \E code \in {UBH_Print(uinsts)} :
          LET out == WrittenOut(Len(code))
          IN  /\ streams' = Append(streams, [func |-> func_ctx + 1, insts |-> uinsts,
                                             code |-> code, out |-> out])
              /\ disk' = SubSeq(code, 1, out)
    /\ UNCHANGED <<allVars, mod, func_ctx, scan_pc, wasm_insts, flushed, listing, list_pc>>

Run ==
    /\ stage = "run"
    /\ NewFrame \/ Execute_function_body
    /\ UNCHANGED driverVars

RunStops ==
    /\ stage = "run"
    /\ \/ vm = "aborted" /\ Go("exit")
       \/ vm = "undefined" /\ Go("undefined")
    /\ UNCHANGED allVars

FlushStream(s) ==
    /\ stage = "exit"
    /\ flushed' = flushed \cup {s}
    /\ \E rest \in {SubSeq(streams[s].code, streams[s].out + 1, Len(streams[s].code))} :
          disk' = WriteAt(disk, streams[s].out, rest)
    /\ UNCHANGED <<allVars, mod, func_ctx, stage, scan_pc, wasm_insts, streams,
                   listing, list_pc>>

Flush == \E s \in DOMAIN streams \ flushed : FlushStream(s)

\* wasm-cvt is gone; wasm2uwasm is started on the file if there is one.
ProcessGone ==
    /\ \/ stage = "exit" /\ flushed = DOMAIN streams
       \/ stage = "killed"
    /\ Go(IF streams = <<>> THEN "ended" ELSE "list")
    /\ UNCHANGED allVars
-----------------------------------------------------------------------------
(* wasm2uwasm: the whole buffer is one sequence of instructions, because     *)
(* nothing sets _full_file; the section loop above it is never entered.      *)

Lists == stage = "list" /\ list_pc < Min({Len(disk), ListSize})

\* Faulty: small and large instructions are passed over alike.
ListInst_wide ==
    /\ Lists
    /\ LET scanned == Scan_inst(disk, list_pc)
       IN  /\ scanned.row # NoRow
           /\ listing' = Append(listing, scanned)
    /\ list_pc' = list_pc + 8
    /\ UNCHANGED <<allVars, mod, func_ctx, stage, scan_pc, wasm_insts, streams, flushed, disk>>

ListInst ==
    /\ Lists
    /\ LET scanned == Scan_inst(disk, list_pc)
       IN  /\ scanned.row # NoRow
           /\ listing' = Append(listing, scanned)
    /\ list_pc' = list_pc + 4
    /\ UNCHANGED <<allVars, mod, func_ctx, stage, scan_pc, wasm_insts, streams, flushed, disk>>

ListAborts == Lists /\ Scan_inst(disk, list_pc).row = NoRow /\ Go("ended") /\ UNCHANGED allVars

ListEnds ==
    /\ stage = "list"
    /\ list_pc >= Min({Len(disk), ListSize})
    /\ Go("ended")
    /\ UNCHANGED allVars

\* Before the first call the variables of a conversion are those of one of nothing.
DriverInit ==
    /\ ExecInit
    /\ mod \in Modules
    /\ func_ctx = 0
    /\ stage = "func"
    /\ scan_pc = 0
    /\ wasm_insts = <<>>
    /\ streams = <<>>
    /\ flushed = {}
    /\ disk = <<>>
    /\ listing = <<>>
    /\ list_pc = 0

DriverNext ==
    \/ SkipImport \/ StartScan \/ Return0 \/ Next_func
    \/ ScanInst \/ ScanAborts \/ ScanRunsOut
    \/ StartConvert \/ Translate \/ ConvertStops
    \/ Emit_output \/ Run \/ RunStops
    \/ Flush \/ ProcessGone
    \/ ListInst \/ ListAborts \/ ListEnds

\* Two programs of one thread each, one after the other, and nothing they wait for.
DriverSpec == DriverInit /\ [][DriverNext]_programVars /\ WF_programVars(DriverNext)
-----------------------------------------------------------------------------
DriverTypeOK ==
    /\ stage \in Stages
    /\ func_ctx \in 0 .. Len(mod.funcs)
    /\ wasm_insts \in Seq(0 .. Len(mod.bytes) - 1)
    /\ streams \in Seq([func : 1 .. Len(mod.funcs), insts : Seq(UWASM_INST),
                        code : Seq(0 .. 255), out : Nat])
    /\ flushed \subseteq DOMAIN streams
    /\ disk \in Seq(0 .. 255)
    /\ list_pc \in 0 .. Len(disk)

(***************************************************************************)
(* The instructions of a body as the binary reader takes them apart           *)
(* (BinaryReader::ReadFunctionBody, modelled in BinaryReader).                *)
(***************************************************************************)
Bytes == INSTANCE WasmBytes

OneLeb == {"Block", "Loop", "If", "Try", "Throw", "Br", "BrIf", "Call", "ReturnCall",
           "LocalGet", "LocalSet", "LocalTee", "GlobalGet", "GlobalSet",
           "MemorySize", "MemoryGrow", "I32Const", "I64Const"}
TwoLebs == {"BrOnExn", "CallIndirect", "ReturnCallIndirect"} \cup
           {WINST_OPCODE[c] : c \in 40 .. 62}

\* A 64-bit constant is the longest number a body may hold.
LebAt(i) == Bytes!LebSize(mod.bytes, i, Len(mod.bytes), 10, 0 .. 127)

LebsFrom(i, n) ==
    LET size[k \in 0 .. n] == IF k = 0 THEN 0 ELSE size[k-1] + LebAt(i + size[k-1])
    IN  size[n]

ReaderSize(i) ==
    LET op == WINST_OPCODE[mod.bytes[i + 1]]
    IN  CASE op \in OneLeb    -> 1 + LebsFrom(i + 1, 1)
          [] op \in TwoLebs   -> 1 + LebsFrom(i + 1, 2)
          [] op = "BrTable"   -> 1 + LebsFrom(i + 1, mod.bytes[i + 2] + 2)
          [] op = "SelectT"   -> 1 + LebsFrom(i + 1, mod.bytes[i + 2] + 1)
          [] op = "F32Const"  -> 5
          [] op = "F64Const"  -> 9
          [] OTHER            -> 1

\* The starts of the instructions of a body, up to the first opcode that only the
\* reader knows.
ReaderStarts(f) ==
    LET bin == mod.funcs[f].wasm_bin
        from[i \in Nat] ==
            IF i >= bin[2] THEN {}
            ELSE {i} \cup IF mod.bytes[i + 1] \in DOMAIN WINST_OPCODE
                          THEN from[i + ReaderSize(i)] ELSE {}
    IN  from[bin[1]]

\* Their operands are not what the table's column numopr says.
Miscounted ==
    {"Try", "Throw", "BrOnExn", "BrTable", "CallIndirect", "ReturnCall",
     "ReturnCallIndirect", "SelectT", "F32Const", "F64Const", "MemorySize"}

Follows(i, starts) ==
    \A j \in starts : j < i => /\ mod.bytes[j + 1] \in DOMAIN WINST_OPCODE
                               /\ WINST_OPCODE[mod.bytes[j + 1]] \notin Miscounted

\* The operand as the reader has it, and as the scan must have it too where it is
\* not the signed number of a constant whose sign bit is set.
ReaderOperand(i) ==
    LET op  == WINST_OPCODE[mod.bytes[i + 1]]
        end == Len(mod.bytes)
    IN  CASE op = "I32Const" -> Bytes!ReadS32Leb128(mod.bytes, i + 1, end).v
          [] op \in {"Br", "BrIf", "LocalGet", "LocalSet", "LocalTee"} ->
                Bytes!ReadU32Leb128(mod.bytes, i + 1, end).v
          [] op \in {"I32Load", "I32Store"} ->
                Bytes!ReadU32Leb128(mod.bytes, i + 1 + LebAt(i + 1), end).v
          [] OTHER -> 0

\* The converter takes a body apart where the reader did: up to the first
\* instruction whose operands its table miscounts it finds the same instructions,
\* none left out, with the same operands, negative constants excepted.
ScanFollowsReader ==
    stage = "scan" =>
        LET starts == ReaderStarts(func_ctx + 1)
            seen   == {i \in starts : i < scan_pc /\ Follows(i, starts)}
        IN  /\ seen \subseteq ToSet(wasm_insts)
            /\ \A n \in DOMAIN wasm_insts :
                  LET i == wasm_insts[n]
                  IN  Follows(i, starts) =>
                        /\ i \in starts
                        /\ ReaderOperand(i) >= 0 => Decode(i).imm = ReaderOperand(i)

\* The code of a conversion cut at the sizes of its instructions.
CodeOffset(insts, n) ==
    LET at[m \in 1 .. n] == IF m = 1 THEN 0
                            ELSE at[m-1] + InstSize(TY_AM[insts[m-1].op])
    IN  at[n]

StorageOf(st, n) ==
    LET from == CodeOffset(st.insts, n)
    IN  BitsOf(SubSeq(st.code, from + 1, from + InstSize(TY_AM[st.insts[n].op])))

\* Every field of an emitted instruction can be read back from its bytes through
\* the getters, though setters and getters go through different structs: none
\* overlaps another one, nor the opcode.
FieldsReadBack ==
    (stage = "run" /\ vm = "idle") =>
        LET st == Last(streams)
        IN  \A n \in DOMAIN st.insts :
                LET i    == st.insts[n]
                    am   == TY_AM[i.op]
                    bits == StorageOf(st, n)
                    code == UwinstRow[i.op].uwasm_op
                IN  /\ am # "AM32" => Rd(bits, am) = i.rd
                    /\ am \in {"AM32_R_R", "AM64_R_R_R", "AM64_R_R_OFS"} => Rs(bits, am) = i.rs
                    /\ am = "AM64_R_R_R" => Rt(bits, am) = i.rt
                    /\ am \in {"AM32_R_OFS", "AM64_R_OFS", "AM64_R_R_OFS"} =>
                          Ofs(bits, am) = i.ofs
                    /\ GetField(bits, am, "b32") = IF am \in SmallModes THEN 0 ELSE 1
                    /\ am \in SmallModes => GetField(bits, am, "mn") = code % 128
                    /\ am \notin SmallModes => GetField(bits, am, "mn2") = code

\* The last register of a file (executor.h).
REGISTER_max == 2^10 - 1

\* The instructions that make a temporary.
Makers(insts) ==
    {n \in DOMAIN insts : insts[n].op \in Arithmetic \cup {"I32Const", "I32Load"}}

\* The temporaries keep their numbers in the instructions up to the last register
\* of a file: the n-th instruction that makes one names the n-th handed out.
TempsKept ==
    (stage = "run" /\ vm = "idle") =>
        LET st     == Last(streams)
            makers == Makers(st.insts)
        IN  /\ Len(temps) = Cardinality(makers)
            /\ \A n \in makers :
                  LET made == temps[Cardinality({m \in makers : m <= n})]
                  IN  made.reg <= REGISTER_max =>
                          Rd(StorageOf(st, n), TY_AM[st.insts[n].op]) = made.reg

CodeSize(st) == CodeOffset(st.insts, Len(st.insts) + 1)

\* The file starts with the instructions of a stream, one right after the other.
Whole(st) ==
    /\ CodeSize(st) <= Len(disk)
    /\ \A n \in DOMAIN st.insts :
          SubSeq(disk, CodeOffset(st.insts, n) + 1, CodeOffset(st.insts, n + 1))
              = BinaryOf(st.insts[n])

\* What is left in output.inst once wasm-cvt is gone.  Every byte is at its place
\* in the code of some function, or in a gap; after an exit the file starts with
\* the whole code of one function if no code is larger than a buffer, and it is
\* the code of the only one converted.
OutputFile ==
    (stage \in {"list", "ended"} /\ streams # <<>>) =>
        LET whole == {s \in DOMAIN streams : Whole(streams[s])}
        IN
        /\ \A k \in DOMAIN disk :
              disk[k] = 0 \/ \E s \in DOMAIN streams :
                                k \in DOMAIN streams[s].code /\ disk[k] = streams[s].code[k]
        /\ (flushed # {} /\ \A s \in DOMAIN streams : CodeSize(streams[s]) <= BufSize) => whole # {}
        /\ (flushed = {1} /\ Len(streams) = 1) =>
              1 \in whole /\ Len(disk) = CodeSize(streams[1])

BodyOf(f) == SubSeq(mod.bytes, mod.funcs[f].wasm_bin[1] + 1, mod.funcs[f].wasm_bin[2])

\* Nothing is carried over from one function to the next: two functions with the
\* same signature and the same body, each scanned within its body, give the same
\* code, whatever was converted between them.
SameCode ==
    (stage = "run" /\ vm = "idle") => \A s, t \in DOMAIN streams :
        LET f == streams[s].func
            g == streams[t].func
        IN  (/\ mod.funcs[f].sig = mod.funcs[g].sig
             /\ BodyOf(f) = BodyOf(g)
             /\ \A h \in {f, g} : \A i \in ReaderStarts(h) : Follows(i, ReaderStarts(h)))
            => streams[s].code = streams[t].code

\* wasm2uwasm names a mov after the row its truncated opcode finds.
ListedAs(op) == IF op = "UMOV" THEN "MemoryGrow" ELSE op

\* The listing is a part of the file's own code: when the file starts with the whole
\* code of a function, the instructions listed are its first ones, a mov under
\* another name, and the listing has stopped before the first of eight bytes.
ListingMatches ==
    stage \in {"list", "ended"} =>
      LET whole == {s \in DOMAIN streams : Whole(streams[s])}
      IN  whole # {} => \E s \in whole :
            LET insts == streams[s].insts
                both  == 1 .. Min({Len(listing), Len(insts)})
            IN  /\ \A n \in both :
                      /\ listing[n].row.name = ListedAs(insts[n].op)
                      /\ TY_AM[insts[n].op] \in SmallModes
                /\ \A n \in both : TY_AM[insts[n].op] # "AM32" =>
                      Rd(listing[n].am, "AM32_R") = insts[n].rd
                /\ (stage = "ended" /\ Len(listing) < Len(insts)
                        /\ 4 * (Len(listing) + 1) <= ListSize) =>
                      TY_AM[insts[Len(listing) + 1].op] \notin SmallModes

\* Both programs come to an end whatever the module: they return, or they stop.
DriverEnds == <>(stage \in {"undefined", "ended"})
=============================================================================
