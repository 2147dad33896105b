---------------------------- MODULE BinaryReader ----------------------------
(***************************************************************************)
(* BinaryReader (src/binary-reader.cc) with the delegate IrBuilder: sections, *)
(* their items and function bodies of a module, read from a vector of bytes. *)
(*                                                                          *)
(* What a handler still has to do is the sequence todo.  An item is one read *)
(* (r is the primitive, d the description the code gives it, x what the      *)
(* handler remembers), a callback, a loop, or the entry or end of a          *)
(* subsection.  A step takes the first item off and puts in its place what   *)
(* follows from the value read: the Read operators below are the text of the *)
(* handlers, item by item.  A failure returns from all of them at once: it   *)
(* drops what is left of the section and runs the destructors of the guards. *)
(*                                                                          *)
(* The options are those of wasm-cvt: stop_on_first_error is set and         *)
(* Is_conv_in_read is not.  The magic number and the version have been read. *)
(* A callback the builder ignores is left out, unless it stands for a change *)
(* of the reader's own state.                                               *)
(***************************************************************************)
EXTENDS IrBuilder, WasmBytes, Opcodes

CONSTANTS
    Files,      \* the vectors of bytes that may follow the version
    Options     \* ReadBinaryOptions: the features and two flags

ASSUME InputAssumption ==
    /\ \A f \in Files : f \in Seq(0 .. 255)
    /\ \A o \in Options : /\ o.features \subseteq FeatureNames
                          /\ UpdateDependencies(o.features) = o.features
                          /\ o.read_debug_names \in BOOLEAN
                          /\ o.fail_on_custom \in BOOLEAN

VARIABLES
    data, opt,
    offset,           \* state_.offset
    read_end,         \* read_end_
    guards,           \* the values the ReadEndRestoreGuards in scope will restore
    reading_custom,   \* reading_custom_section_
    section,          \* the section being read, NONE between sections
    todo,
    section_result,   \* what the handler of the section returns: "Ok" | "Error"
    last_known,       \* last_known_section_, NONE for Invalid
    seen,             \* seen_section_code
    did_names,        \* did_read_names_section_
    num,              \* the counts: of imports per kind, of signatures and bodies
    data_count,       \* data_count_, NONE for kInvalidIndex
    result,           \* of ReadSections so far, then of ReadModule: "Ok" | "Error"
    state,            \* "reading" | "returned" | "undefined"
    reported          \* the levels of the errors reported: {"Error", "Warning"}

readerVars == <<data, opt, offset, read_end, guards, reading_custom, section, todo,
                section_result, last_known, seen, did_names, num, data_count, result,
                state, reported>>
modVars == <<readerVars, irVars>>

size == Len(data)
-----------------------------------------------------------------------------
(* Items, types and opcodes.                                                *)

R(r, d, x)   == [r |-> r, d |-> d, x |-> x]
\* A read of something nothing depends on.
Unused(r)    == R(r, "any", 0)
Call(f, x)   == R("call", f, x)
Loop(d, x)   == R("loop", d, x)
Fail         == R("error", "", 0)
Require(P)   == IF P THEN <<>> ELSE <<Fail>>
When(P, s)   == IF P THEN s ELSE <<>>
\* The items s, n times; and one item for each of n indexes from 0.
Times(n, s)       == [k \in 1 .. n * Len(s) |-> s[1 + ((k - 1) % Len(s))]]
ForEach(n, Op(_)) == [k \in 1 .. n |-> Op(k - 1)]

Enabled(feature) == feature \in opt.features

NumTypes == {-1, -2, -3, -4}
V128     == -5
\* funcref, anyref, nullref, exnref and Hostref, the number of which could also be
\* that of a type.
RefTypes == {-16, -17, -18, -24, 2}
Exnref   == -24
FuncForm == -32
Struct   == -33
Array    == -34
Void     == -64

IsConcreteType(t) ==
    \/ t \in NumTypes
    \/ t = V128 /\ Enabled("simd")
    \/ t \in {-16, -17, -18} /\ Enabled("reference_types")
    \/ t = Exnref /\ Enabled("exceptions")
IsBlockType(t) == IsConcreteType(t) \/ t = Void \/ (t >= 0 /\ Enabled("multi_value"))
-----------------------------------------------------------------------------
(* Operands shared by several sections.  A Read operator is given the item,  *)
(* the value read for it and the offset after it.                            *)

ReadTable == <<R("Type", "table elem type", 0), R("U32", "table flags", 0)>>
ReadMemory == <<R("U32", "memory flags", 0)>>
ReadGlobalHeader == <<R("Type", "global type", 0), R("U8", "global mutability", 0)>>
ReadEventType(f) == <<R("U32", "event attribute", 0), R("Index", "event signature index", f)>>
ReadInitExpr(require_i32) == <<R("Opcode", "init opcode", require_i32)>>

HasMax(flags)   == flags % 2 = 1
IsShared(flags) == (flags \div 2) % 2 = 1

\* A lone end is taken for a whole initializer.  Whether it must be an i32 is
\* looked at after the callback.
InitExpr(op, require_i32) ==
    LET Value(r) == <<Unused(r), Call("OnInitExpr", 0)>>
    IN  IF op = OpcodeEnd THEN <<>>
        ELSE (CASE op = I32Const             -> Value("S32")
                [] op = I64Const             -> Value("S64")
                [] op = F32Const             -> Value("F32")
                [] op = F64Const             -> Value("F64")
                [] op = V128Const            -> Value("V128")
                [] op = RefNull              -> <<Call("OnInitExpr", 0)>>
                [] op \in {GlobalGet, RefFunc} -> Value("Index")
                [] OTHER                     -> <<Fail>>)
             \o Require(require_i32 => op \in {I32Const, GlobalGet})
             \o <<R("Opcode", "init end", 0)>>

ReadShared(i, v) ==
    CASE i.d = "table elem type"  -> Require(v \in RefTypes)
      [] i.d = "table flags"      -> <<Unused("U32")>>
                                     \o Require(~IsShared(v))
                                     \o When(HasMax(v), <<Unused("U32")>>)
      [] i.d = "memory flags"     -> <<Unused("U32")>>
                                     \o When(HasMax(v), <<Unused("U32")>>)
      [] i.d = "global type"      -> Require(IsConcreteType(v))
      [] i.d = "global mutability" -> Require(v <= 1)
      [] i.d = "event attribute"  -> Require(v = 0)
      [] i.d = "event signature index" -> <<Call(i.x, v)>>
      [] i.d = "init opcode"      -> Require(IsEnabled(v, opt.features)) \o InitExpr(v, i.x)
      [] i.d = "init end"         -> Require(v = OpcodeEnd)
-----------------------------------------------------------------------------
(* Custom sections.                                                         *)

kName    == <<110, 97, 109, 101>>
kDylink  == <<100, 121, 108, 105, 110, 107>>
kReloc   == <<114, 101, 108, 111, 99>>
kLinking == <<108, 105, 110, 107, 105, 110, 103>>

Skip(end)  == R("skip", "", end)
Enter(end) == R("enter", "", end)
Leave(end) == R("leave", "", end)

\* Faulty: the limit is that of the file.
Subsection_file(at, length, contents, next) ==
    Require(at + length <= size)
    \o <<Enter(at + length)>> \o contents \o <<Leave(at + length), next>>

\* A subsection of the given size at offset at: its contents, then whatever is next.
Subsection(at, length, contents, next) ==
    Require(at + length <= read_end)
    \o <<Enter(at + length)>> \o contents \o <<Leave(at + length), next>>

\* Faulty: the bodies are counted again.
NumTotalFuncs_twice == num.func + num.sigs + num.bodies

NumTotalFuncs == num.func + num.sigs

After(last, v) == last = NONE \/ v > last

ReadNameSection(i, v, at) ==
    CASE i.d = "name type" ->
            Require(i.x.first \/ v > i.x.previous) \o <<R("Offset", "name subsection size", v)>>
      [] i.d = "name subsection size" ->
            Subsection(at, v,
                IF i.x \notin 0 .. 2 THEN <<Skip(at + v)>>
                ELSE When(v # 0, <<CASE i.x = 0 -> Unused("Str")
                                     [] i.x = 1 -> R("Count", "name count", 0)
                                     [] i.x = 2 -> R("Count", "function count", 0)>>),
                Loop("names", [first |-> FALSE, previous |-> i.x]))
      [] i.d = "name count" ->
            <<Call("OnFunctionNamesCount", v), Loop("function names", [left |-> v, last |-> NONE])>>
      [] i.d = "function index" ->
            Require(After(i.x.last, v)) \o Require(v < NumTotalFuncs)
            \o <<R("Str", "function name", v),
                 Loop("function names", [left |-> i.x.left - 1, last |-> v])>>
      [] i.d = "function name" -> <<Call("OnFunctionName", [index |-> i.x, name |-> v])>>
      [] i.d = "function count" -> <<Loop("local functions", [left |-> v, last |-> NONE])>>
      [] i.d = "locals function index" ->
            Require(v < NumTotalFuncs) \o Require(After(i.x.last, v))
            \o <<R("Count", "local count", v),
                 Loop("local functions", [left |-> i.x.left - 1, last |-> v])>>
      [] i.d = "local count" ->
            <<Call("OnLocalNameLocalCount", [index |-> i.x, count |-> v]),
              Loop("local names", [of |-> i.x, left |-> v, last |-> NONE])>>
      [] i.d = "named index" ->
            Require(After(i.x.last, v))
            \o <<R("Str", "local name", [of |-> i.x.of, index |-> v]),
                 Loop("local names", [i.x EXCEPT !.left = @ - 1, !.last = v])>>
      [] i.d = "local name" ->
            <<Call("OnLocalName", [of |-> i.x.of, index |-> i.x.index, name |-> v,
                                   partial |-> FALSE])>>

\* One round of the loop of the global section: the global of the given index.
ReadGlobal(index) ==
    ReadGlobalHeader
    \o <<Call("BeginGlobal", index), Call("BeginGlobalInitExpr", index)>>
    \o ReadInitExpr(FALSE) \o <<Call("EndGlobalInitExpr", index)>>

\* What the loops of the name and linking sections, of the globals and of a body do
\* next.
Unfold(i) ==
    CASE i.d = "names"           -> When(offset < read_end, <<R("U32", "name type", i.x)>>)
      [] i.d = "function names"  -> When(i.x.left > 0, <<R("Index", "function index", i.x)>>)
      [] i.d = "local functions" -> When(i.x.left > 0,
                                         <<R("Index", "locals function index", i.x)>>)
      [] i.d = "local names"     -> When(i.x.left > 0, <<R("Index", "named index", i.x)>>)
      [] i.d = "linking"         -> When(offset < read_end, <<R("U32", "linking type", 0)>>)
      [] i.d = "global"          -> ReadGlobal(i.x)
      [] i.d = "body"            -> IF offset < i.x.end THEN <<R("Opcode", "opcode", i.x.end)>>
                                    ELSE Require(offset = i.x.end) \o Require(i.x.seen_end)

\* The relocations that have an addend: of memory addresses and of offsets.
WithAddend == {3, 4, 5, 8, 9, 11}

ReadRelocSection(i, v) ==
    CASE i.d = "relocation count" -> Times(v, <<R("U32", "relocation type", 0)>>)
      [] i.d = "relocation type"  -> <<Unused("Offset"), Unused("Index")>>
                                     \o When(v \in WithAddend, <<Unused("S32")>>)

ReadDylinkSection(i, v) == Times(v, <<Unused("Str")>>)

Undefined(flags)     == (flags \div 16) % 2 = 1
ExplicitName(flags)  == (flags \div 64) % 2 = 1
SymbolCallback == [k \in {0, 2, 4} |-> CASE k = 0 -> "OnFunctionSymbol"
                                          [] k = 2 -> "OnGlobalSymbol"
                                          [] k = 4 -> "OnEventSymbol"]

\* A symbol without a name, or a data symbol that is undefined, is ignored.
ReadLinkingSection(i, v, at) ==
    CASE i.d = "version"      -> Require(v = 2) \o <<Loop("linking", 0)>>
      [] i.d = "linking type" -> <<R("Offset", "linking subsection size", v)>>
      [] i.d = "linking subsection size" ->
            Subsection(at, v,
                <<CASE i.x = 5 -> R("U32", "segment info count", 0)
                    [] i.x = 6 -> R("U32", "init function count", 0)
                    [] i.x = 7 -> R("U32", "comdat count", 0)
                    [] i.x = 8 -> R("U32", "sym count", 0)
                    [] OTHER   -> Skip(at + v)>>,
                Loop("linking", 0))
      [] i.d = "segment info count"  -> Times(v, <<Unused("Str"), Unused("U32"), Unused("U32")>>)
      [] i.d = "init function count" -> Times(v, <<Unused("U32"), Unused("U32")>>)
      [] i.d = "comdat count"        -> Times(v, <<Unused("Str"), Unused("U32"),
                                                   R("U32", "entry count", 0)>>)
      [] i.d = "entry count"         -> Times(v, <<Unused("U32"), Unused("U32")>>)
      [] i.d = "sym count"           -> Times(v, <<R("U32", "sym type", 0)>>)
      [] i.d = "sym type"            -> <<R("U32", "sym flags", v)>>
      [] i.d = "sym flags" ->
            CASE i.x \in {0, 2, 4} ->
                    <<R("U32", "index", [kind |-> i.x,
                                         named |-> ~Undefined(v) \/ ExplicitName(v)])>>
              [] i.x = 1 -> <<R("Str", "data symbol name", v)>>
              [] i.x = 3 -> <<Unused("U32")>>
              [] OTHER   -> <<>>
      [] i.d = "index" ->
            When(i.x.named, <<R("Str", "symbol name", [kind |-> i.x.kind, index |-> v])>>)
      [] i.d = "symbol name" ->
            <<Call(SymbolCallback[i.x.kind], [of |-> 0, index |-> i.x.index, name |-> v,
                                              partial |-> FALSE])>>
      [] i.d = "data symbol name" -> When(~Undefined(i.x), <<R("U32", "segment", v)>>)
      [] i.d = "segment"          -> <<R("U32", "offset", [name |-> i.x, index |-> v])>>
      [] i.d = "offset" ->
            <<Unused("U32"), Call("OnDataSymbol", [of |-> 0, index |-> i.x.index,
                                                name |-> i.x.name, partial |-> v # 0])>>

ReadCustomSection(i, v, at) ==
    IF i.d = "section name" THEN
        <<Call("BeginCustomSection", 0)>>
        \o (CASE v = kName /\ opt.read_debug_names ->
                    <<Loop("names", [first |-> TRUE, previous |-> 0]),
                      Call("EndNamesSection", 0)>>
              [] v = kDylink -> Times(4, <<Unused("U32")>>) \o <<R("U32", "needed_dynlibs", 0)>>
              [] IsPrefix(kReloc, v) -> <<Unused("U32"), R("Count", "relocation count", 0)>>
              [] v = kLinking -> <<R("U32", "version", 0)>>
              [] OTHER -> <<Skip(read_end)>>)
        \o <<Call("EndCustomSection", 0)>>
    ELSE CASE i.d \in {"relocation count", "relocation type"} -> ReadRelocSection(i, v)
           [] i.d = "needed_dynlibs" -> ReadDylinkSection(i, v)
           [] i.d \in {"name type", "name subsection size", "name count", "function index",
                       "function name", "function count", "locals function index",
                       "local count", "named index", "local name"} -> ReadNameSection(i, v, at)
           [] OTHER -> ReadLinkingSection(i, v, at)
-----------------------------------------------------------------------------
(* The sections of entries.                                                 *)

ReadField == <<R("Type", "field type", 0), R("U8", "field mutability", 0)>>

ReadTypeSection(i, v) ==
    CASE i.d = "type count" -> Times(v, <<R("Type", "type form", 0)>>)
      [] i.d = "type form"  ->
            (CASE v = FuncForm -> <<R("Count", "function param count", 0)>>
               [] v = Struct   -> Require(Enabled("gc")) \o <<R("Count", "field count", 0)>>
               [] v = Array    -> Require(Enabled("gc")) \o ReadField
                                  \o <<Call("OnArrayType", 0)>>
               [] OTHER        -> <<Fail>>)
      [] i.d = "function param count" ->
            Times(v, <<R("Type", "value type", 0)>>) \o <<R("Count", "function result count", v)>>
      [] i.d = "function result count" ->
            Times(v, <<R("Type", "value type", 0)>>) \o <<Call("OnFuncType", i.x)>>
      [] i.d = "field count" -> Times(v, ReadField) \o <<Call("OnStructType", 0)>>
      [] i.d \in {"value type", "field type"} -> Require(IsConcreteType(v))
      [] i.d = "field mutability" -> Require(v <= 1)

\* An unknown kind is not an error: nothing more is read for it.
ReadImportSection(i, v) ==
    CASE i.d = "import count" ->
            Times(v, <<Unused("Str"), Unused("Str"), R("U8", "import kind", 0)>>)
      [] i.d = "import kind" ->
            CASE v = 0 -> <<R("Index", "import signature index", 0)>>
              [] v = 1 -> ReadTable \o <<Call("OnImportTable", 0)>>
              [] v = 2 -> ReadMemory \o <<Call("OnImportMemory", 0)>>
              [] v = 3 -> ReadGlobalHeader \o <<Call("OnImportGlobal", 0)>>
              [] v = 4 -> Require(Enabled("exceptions"))
                          \o ReadEventType("OnImportEvent")
              [] OTHER -> <<>>
      [] i.d = "import signature index" -> <<Call("OnImportFunc", v)>>
      [] OTHER -> ReadShared(i, v)

ReadFunctionSection(i, v) ==
    CASE i.d = "function signature count" -> Times(v, <<R("Index", "signature index", 0)>>)
      [] i.d = "signature index"          -> <<Call("OnFunction", v)>>

ReadTableSection(i, v) ==
    CASE i.d = "table count" -> Times(v, ReadTable \o <<Call("OnTable", 0)>>)
      [] OTHER -> ReadShared(i, v)

ReadMemorySection(i, v) ==
    CASE i.d = "memory count" -> Times(v, ReadMemory \o <<Call("OnMemory", 0)>>)
      [] OTHER -> ReadShared(i, v)

ReadEventSection(i, v) ==
    CASE i.d = "event count" -> Times(v, ReadEventType("OnEventType"))
      [] OTHER -> ReadShared(i, v)

ReadGlobalSection(i, v) ==
    CASE i.d = "global count" ->
            LET Global(k) == Loop("global", num.global + k) IN ForEach(v, Global)
      [] OTHER -> ReadShared(i, v)

ReadExportSection(i, v) ==
    CASE i.d = "export count" -> Times(v, <<Unused("Str"), R("ExternalKind", "export kind", 0)>>)
      [] i.d = "export kind"  -> <<Unused("Index")>> \o Require(v = 4 => Enabled("exceptions"))
                                 \o <<Call("OnExport", 0)>>

ReadStartSection(i, v) == <<Call("OnStartFunction", 0)>>

SegFlagMax == 7
SegPassive(flags)       == flags % 2 = 1
SegExplicitIndex(flags) == (flags \div 2) % 2 = 1
SegUseElemExprs(flags)  == flags >= 4

\* An element expression that is neither ref.null nor ref.func is reported, and
\* reading goes on.
ReadElemSection(i, v) ==
    CASE i.d = "elem segment count" ->
            LET Segment(k) == R("U32", "elem segment flags", k) IN ForEach(v, Segment)
      [] i.d = "elem segment flags" ->
            Require(v <= SegFlagMax)
            \o When(SegExplicitIndex(v) /\ ~SegPassive(v), <<Unused("Index")>>)
            \o <<Call("BeginElemSegment", i.x)>>
            \o When(~SegPassive(v), <<Call("BeginElemSegmentInitExpr", i.x)>>
                                    \o ReadInitExpr(TRUE)
                                    \o <<Call("EndElemSegmentInitExpr", i.x)>>)
            \o When(SegPassive(v) \/ SegExplicitIndex(v),
                    IF SegUseElemExprs(v) THEN <<R("Type", "elem expr type", 0)>>
                    ELSE <<R("ExternalKind", "elem kind", 0)>>)
            \o <<R("Count", "elem count", [index |-> i.x, flags |-> v])>>
      [] i.d = "elem expr type" -> Require(v \in RefTypes)
      [] i.d = "elem kind"      -> Require(v = 0)
      [] i.d = "elem count" ->
            Times(v, <<IF SegUseElemExprs(i.x.flags)
                       THEN R("Opcode", "elem expr opcode", i.x.index)
                       ELSE R("Index", "elem expr func index", i.x.index)>>)
      [] i.d = "elem expr opcode" ->
            (CASE v = RefNull -> <<Call("OnElemSegmentElemExpr", i.x)>>
               [] v = RefFunc -> <<R("Index", "elem expr func index", i.x)>>
               [] OTHER       -> <<R("report", "", 0)>>)
            \o <<R("Opcode", "elem expr end", 0)>>
      [] i.d = "elem expr func index" -> <<Call("OnElemSegmentElemExpr", i.x)>>
      [] i.d = "elem expr end" -> Require(v = OpcodeEnd)
      [] OTHER -> ReadShared(i, v)

ReadDataSection(i, v) ==
    CASE i.d = "data segment count" ->
            LET Segment(k) == R("U32", "data segment flags", k)
            IN  Require(data_count \in {NONE, v}) \o ForEach(v, Segment)
      [] i.d = "data segment flags" ->
            Require(v <= SegFlagMax)
            \o When(SegExplicitIndex(v), <<Unused("Index")>>)
            \o <<Call("BeginDataSegment", i.x)>>
            \o When(~SegPassive(v), <<Call("BeginDataSegmentInitExpr", i.x)>>
                                    \o ReadInitExpr(TRUE)
                                    \o <<Call("EndDataSegmentInitExpr", i.x)>>)
            \o <<R("Bytes", "data segment data", i.x)>>
      [] i.d = "data segment data" ->
            <<Call("OnDataSegmentData", [index |-> i.x, size |-> Len(v)])>>
      [] OTHER -> ReadShared(i, v)

ReadDataCountSection(i, v) == <<Call("EndDataCountSection", v)>>
-----------------------------------------------------------------------------
(* Function bodies.                                                         *)

\* The switch: of each opcode, what is read and the callback.  What is not the
\* same for every opcode of a case is left to the item "d".
Case(ops, f)              == [ops |-> ops, items |-> <<Call(f, 0)>>]
CaseReads(ops, reads, f)  == [ops |-> ops, items |-> reads \o <<Call(f, 0)>>]
CaseThen(ops, item_)      == [ops |-> ops, items |-> <<item_>>]

Index    == <<Unused("Index")>>
Reserved == R("U8", "reserved", 0)
\* The alignment and the offset.
MemArg   == <<Unused("U32"), Unused("U32")>>

Opens(op, f) == CaseThen(Plain({op}), R("Type", "block signature type", f))

ControlCases ==
    {Case(Plain({0}), "OnUnreachableExpr"),
     Opens(2, "OnBlockExpr"), Opens(3, "OnLoopExpr"), Opens(4, "OnIfExpr"),
     Case({OpcodeElse}, "OnElseExpr"),
     CaseReads(Plain({28}), <<R("Count", "num result types", 0)>>, "OnSelectExpr"),
     Case(Plain({27}), "OnSelectExpr"),
     CaseReads(Plain({12}), Index, "OnBrExpr"), CaseReads(Plain({13}), Index, "OnBrIfExpr"),
     CaseReads(Plain({14}), <<R("Count", "br_table target count", 0)>>, "OnBrTableExpr"),
     Case(Plain({15}), "OnReturnExpr"), Case(Plain({1}), "OnNopExpr"),
     Case(Plain({26}), "OnDropExpr")}

ConstCases ==
    {CaseReads({I32Const}, <<Unused("S32")>>, "OnI32ConstExpr"),
     CaseReads({I64Const}, <<Unused("S64")>>, "OnI64ConstExpr"),
     CaseReads({F32Const}, <<Unused("F32")>>, "OnF32ConstExpr"),
     CaseReads({F64Const}, <<Unused("F64")>>, "OnF64ConstExpr"),
     CaseReads({V128Const}, <<Unused("V128")>>, "OnV128ConstExpr")}

VariableCases ==
    {CaseReads({GlobalGet}, Index, "OnGlobalGetExpr"),
     CaseReads(Plain({32}), Index, "OnLocalGetExpr"),
     CaseReads(Plain({36}), Index, "OnGlobalSetExpr"),
     CaseReads(Plain({33}), Index, "OnLocalSetExpr"),
     CaseReads(Plain({34}), Index, "OnLocalTeeExpr"),
     CaseReads(Plain({16}), Index, "OnCallExpr"),
     CaseReads(Plain({18}), Index, "OnReturnCallExpr"),
     CaseThen(Plain({17}), R("Index", "signature of call", "OnCallIndirectExpr")),
     CaseThen(Plain({19}), R("Index", "signature of call", "OnReturnCallIndirectExpr"))}

MemoryCases ==
    {CaseReads(Plain(40 .. 53) \cup Simd(0 .. 6), MemArg, "OnLoadExpr"),
     CaseReads(Plain(54 .. 62) \cup Simd({11}), MemArg, "OnStoreExpr"),
     CaseReads(Plain({63}), <<Reserved>>, "OnMemorySizeExpr"),
     CaseReads(Plain({64}), <<Reserved>>, "OnMemoryGrowExpr")}

BinaryCase ==
    Case(Plain((106 .. 120) \cup (124 .. 138) \cup (146 .. 152) \cup (160 .. 166))
         \cup Simd({14} \cup (78 .. 81) \cup {101, 102} \cup (107 .. 115) \cup (118 .. 121)
                   \cup {123, 133, 134} \cup (139 .. 147) \cup (149 .. 153) \cup {155}
                   \cup (171 .. 174) \cup {177} \cup (181 .. 185) \cup (203 .. 206)
                   \cup {209, 213} \cup (228 .. 233) \cup (240 .. 245)), "OnBinaryExpr")
CompareCase ==
    Case(Plain((70 .. 79) \cup (81 .. 102)) \cup Simd(35 .. 76), "OnCompareExpr")
UnaryCase ==
    Case(Plain((103 .. 105) \cup (121 .. 123) \cup (139 .. 145) \cup (153 .. 159))
         \cup Simd((15 .. 20) \cup {77} \cup (96 .. 99) \cup (128 .. 131) \cup (135 .. 138)
                   \cup (160 .. 163) \cup (167 .. 170) \cup {193, 224, 225, 227, 236, 237,
                   239}), "OnUnaryExpr")
LaneCases ==
    {Case(Simd({82}), "OnTernaryExpr"),
     CaseReads(Simd(21 .. 34), <<Unused("U8")>>, "OnSimdLaneOpExpr"),
     CaseReads(Simd({13}), <<Unused("V128")>>, "OnSimdShuffleOpExpr"),
     CaseReads(Simd(7 .. 10), MemArg, "OnLoadSplatExpr")}
ConvertCase ==
    Case(Plain({69, 80} \cup (167 .. 191)) \cup Simd(248 .. 251), "OnConvertExpr")

ExceptionCases ==
    {Opens(6, "OnTryExpr"), Case({OpcodeCatch}, "OnCatchExpr"),
     Case(Plain({9}), "OnRethrowExpr"), CaseReads(Plain({8}), Index, "OnThrowExpr"),
     CaseReads(Plain({10}), Index \o Index, "OnBrOnExnExpr")}
ExtendCases ==
    {Case(Plain(192 .. 196), "OnUnaryExpr"), Case(Math(0 .. 7), "OnConvertExpr")}
AtomicCases ==
    {CaseReads(Threads({0}), MemArg, "OnAtomicNotifyExpr"),
     CaseReads(Threads({1, 2}), MemArg, "OnAtomicWaitExpr"),
     CaseReads(Threads({3}), <<Reserved>>, "OnAtomicFenceExpr"),
     CaseReads(Threads(16 .. 22), MemArg, "OnAtomicLoadExpr"),
     CaseReads(Threads(23 .. 29), MemArg, "OnAtomicStoreExpr"),
     CaseReads(Threads(30 .. 71), MemArg, "OnAtomicRmwExpr"),
     CaseReads(Threads(72 .. 78), MemArg, "OnAtomicRmwCmpxchgExpr")}

BulkCases ==
    {CaseReads(Math({12}), Index \o Index, "OnTableInitExpr"),
     CaseReads({MemoryInit}, <<Unused("Index"), Reserved>>, "OnMemoryInitExpr"),
     CaseReads({DataDrop}, Index, "OnDataDropExpr"),
     CaseReads(Math({13}), Index, "OnElemDropExpr"),
     CaseReads(Math({11}), <<Reserved>>, "OnMemoryFillExpr"),
     CaseReads(Math({10}), <<Reserved, Reserved>>, "OnMemoryCopyExpr"),
     CaseReads(Math({14}), Index \o Index, "OnTableCopyExpr")}
ReferenceCases ==
    {CaseReads(Plain({37}), Index, "OnTableGetExpr"),
     CaseReads(Plain({38}), Index, "OnTableSetExpr"),
     CaseReads(Math({15}), Index, "OnTableGrowExpr"),
     CaseReads(Math({16}), Index, "OnTableSizeExpr"),
     CaseReads(Math({17}), Index, "OnTableFillExpr"),
     CaseReads({RefFunc}, Index, "OnRefFuncExpr"),
     Case({RefNull}, "OnRefNullExpr"), Case(Plain({209}), "OnRefIsNullExpr")}

Cases == ControlCases \cup ConstCases \cup VariableCases \cup MemoryCases
         \cup {BinaryCase, CompareCase, UnaryCase, ConvertCase} \cup LaneCases
         \cup ExceptionCases \cup ExtendCases \cup AtomicCases \cup BulkCases
         \cup ReferenceCases

\* What an opcode but end leads to; nothing is the case of any other.
ItemsOf == [op \in UNION {c.ops : c \in Cases} |-> (CHOOSE c \in Cases : op \in c.ops).items]

\* The switch has one case for every opcode there is but those of the interpreter.
ASSUME EveryOpcodeHasACase ==
    /\ DOMAIN ItemsOf = ValidOpcodes \ (InterpOpcodes \cup {OpcodeEnd})
    /\ \A c, d \in Cases : c # d => c.ops \cap d.ops = {}

NeedsDataCount == {MemoryInit, DataDrop}

\* The last end, if it is at the end of the body, is not that of a block.
ReadFunctionBody(i, v, at) ==
    CASE i.d = "opcode" ->
            Require(IsEnabled(v, opt.features))
            \o Require(v \in NeedsDataCount => data_count # NONE)
            \o (IF v = OpcodeEnd THEN <<Call(IF at = i.x THEN "OnEndFunc" ELSE "OnEndExpr", 0)>>
                ELSE IF v \in DOMAIN ItemsOf THEN ItemsOf[v]
                ELSE <<Fail>>)
            \o <<Loop("body", [end |-> i.x, seen_end |-> v = OpcodeEnd /\ at = i.x])>>
      [] i.d = "block signature type" -> Require(IsBlockType(v)) \o <<Call(i.x, v)>>
      [] i.d = "reserved"             -> Require(v = 0)
      [] i.d = "num result types"     -> Require(v = 1) \o <<Unused("Type")>>
      [] i.d = "br_table target count" -> Times(v + 1, <<Unused("Index")>>)
      [] i.d = "signature of call" ->
            (IF Enabled("reference_types") THEN Index ELSE <<Reserved>>) \o <<Call(i.x, v)>>

\* That the locals of a body are fewer than 2^32 - 1 is not followed.
ReadCodeSection(i, v, at) ==
    CASE i.d = "function body count" ->
            LET Body(k) == R("U32", "function body size", num.func + k)
            IN  Require(v = num.sigs) \o <<Call("OnFunctionBodyCount", v)>> \o ForEach(v, Body)
      [] i.d = "function body size" ->
            <<Call("BeginFunctionBody", i.x),
              R("Count", "local declaration count", [index |-> i.x, end |-> at + v])>>
      [] i.d = "local declaration count" ->
            Times(v, <<R("Index", "local type count", 0)>>)
            \o <<Call("OnFunctionBinaryRead", i.x),
                 Loop("body", [end |-> i.x.end, seen_end |-> FALSE]),
                 Call("EndFunctionBody", i.x.index)>>
      [] i.d = "local type count" -> <<R("Type", "local type", v)>>
      [] i.d = "local type" -> Require(IsConcreteType(v)) \o <<Call("OnLocalDecl", i.x)>>
      [] OTHER -> ReadFunctionBody(i, v, at)
-----------------------------------------------------------------------------
(* Sections.                                                                *)

Custom == 0
kBinarySectionCount == 14

\* WABT_FOREACH_BINARY_SECTION: GetSectionOrder is the place in this list.
SectionCodes == <<0, 1, 2, 3, 4, 5, 13, 6, 7, 8, 9, 12, 10, 11>>
GetSectionOrder(code) == CHOOSE k \in DOMAIN SectionCodes : SectionCodes[k] = code

\* The first read of each section's handler.
FirstRead(code) ==
    CASE code = 0  -> R("Str", "section name", 0)
      [] code = 1  -> R("Count", "type count", 0)
      [] code = 2  -> R("Count", "import count", 0)
      [] code = 3  -> R("Count", "function signature count", 0)
      [] code = 4  -> R("Count", "table count", 0)
      [] code = 5  -> R("Count", "memory count", 0)
      [] code = 6  -> R("Count", "global count", 0)
      [] code = 7  -> R("Count", "export count", 0)
      [] code = 8  -> R("Index", "start function index", 0)
      [] code = 9  -> R("Count", "elem segment count", 0)
      [] code = 10 -> R("Count", "function body count", 0)
      [] code = 11 -> R("Count", "data segment count", 0)
      [] code = 12 -> R("Index", "data count", 0)
      [] code = 13 -> R("Count", "event count", 0)

\* What is left to do once item i has yielded v.
Then(i, v, at) ==
    IF i.d = "any" THEN <<>>
    ELSE CASE section = 0  -> ReadCustomSection(i, v, at)
           [] section = 1  -> ReadTypeSection(i, v)
           [] section = 2  -> ReadImportSection(i, v)
           [] section = 3  -> ReadFunctionSection(i, v)
           [] section = 4  -> ReadTableSection(i, v)
           [] section = 5  -> ReadMemorySection(i, v)
           [] section = 6  -> ReadGlobalSection(i, v)
           [] section = 7  -> ReadExportSection(i, v)
           [] section = 8  -> ReadStartSection(i, v)
           [] section = 9  -> ReadElemSection(i, v)
           [] section = 10 -> ReadCodeSection(i, v, at)
           [] section = 11 -> ReadDataSection(i, v)
           [] section = 12 -> ReadDataCountSection(i, v)
           [] section = 13 -> ReadEventSection(i, v)

\* The code and the size of the section at offset, and where its contents begin.
Header ==
    LET code   == ReadU32Leb128(data, offset, read_end)
        length == ReadU32Leb128(data, offset + code.n, read_end)
    IN  [readable |-> code.n > 0 /\ length.n > 0, code |-> code.v,
         begin |-> offset + code.n + length.n, end |-> offset + code.n + length.n + length.v]

HeaderAccepted(h) ==
    /\ h.readable
    /\ h.code < kBinarySectionCount
    /\ h.end <= size
    /\ h.code # Custom =>
          /\ h.code \notin seen
          /\ last_known # NONE => GetSectionOrder(h.code) > GetSectionOrder(last_known)
          /\ ~did_names
    /\ h.code = 13 => Enabled("exceptions")
    /\ h.code = 12 => Enabled("bulk_memory")

BetweenSections == state = "reading" /\ section = NONE

NextSection ==
    /\ BetweenSections /\ offset < size
    /\ \E h \in {Header} :
           /\ HeaderAccepted(h)
           /\ offset' = h.begin
           /\ guards' = <<read_end>> /\ read_end' = h.end
           /\ section' = h.code
           /\ seen' = IF h.code = Custom THEN seen ELSE seen \cup {h.code}
           /\ todo' = <<FirstRead(h.code)>>
    /\ section_result' = "Ok"
    /\ UNCHANGED <<data, opt, reading_custom, last_known, did_names, num, data_count, result,
                   state, reported, irVars>>

\* An error in the header returns at once, whatever the options.
RejectSection ==
    /\ BetweenSections /\ offset < size
    /\ \E h \in {Header} : ~HeaderAccepted(h)
    /\ state' = "returned" /\ result' = "Error"
    /\ reported' = reported \cup {"Error"}
    /\ UNCHANGED <<data, opt, offset, read_end, guards, reading_custom, section, todo,
                   section_result, last_known, seen, did_names, num, data_count, irVars>>

\* The end of ReadModule.
ReadModuleEnds ==
    /\ BetweenSections /\ offset >= size
    /\ LET mismatch == num.sigs # num.bodies
       IN  /\ result' = IF mismatch THEN "Error" ELSE result
           /\ reported' = IF result = "Ok" /\ mismatch THEN reported \cup {"Error"} ELSE reported
    /\ state' = "returned"
    /\ UNCHANGED <<data, opt, offset, read_end, guards, reading_custom, section, todo,
                   section_result, last_known, seen, did_names, num, data_count, irVars>>
-----------------------------------------------------------------------------
(* Items.                                                                   *)

Active == state = "reading" /\ todo # <<>>
item   == Head(todo)
IsRead == item.r \notin {"call", "loop", "enter", "leave", "skip", "report", "error"}
Got    == ReadAs(item.r, data, offset, read_end)

\* Faulty: the limit of the section for the end of the body.
Cb_section(i) ==
    [f |-> i.d,
     x |-> CASE i.d \in DOMAIN ExprMade \cup DOMAIN Opened -> [arg |-> i.x, loc |-> offset]
             [] i.d = "OnFunctionBinaryRead" ->
                    [index |-> i.x.index, begin |-> offset, end |-> read_end]
             [] OTHER -> i.x]

\* The callback as the builder receives it: where the reader is is part of some.
Cb(i) ==
    [f |-> i.d,
     x |-> CASE i.d \in DOMAIN ExprMade \cup DOMAIN Opened -> [arg |-> i.x, loc |-> offset]
             [] i.d = "OnFunctionBinaryRead" ->
                    [index |-> i.x.index, begin |-> offset, end |-> i.x.end]
             [] OTHER -> i.x]

\* The two counts that are read straight into members.
Counts(i, v) ==
    CASE i.d = "function signature count" -> [num EXCEPT !.sigs = v]
      [] i.d = "function body count"      -> [num EXCEPT !.bodies = v]
      [] OTHER -> num

ReadItem ==
    /\ Active /\ IsRead
    /\ \E got \in {Got} :
           /\ got.n > 0
           /\ offset' = offset + got.n
           /\ todo' = Then(item, got.v, offset + got.n) \o Tail(todo)
           /\ num' = Counts(item, got.v)
    /\ UNCHANGED <<data, opt, read_end, guards, reading_custom, section, section_result,
                   last_known, seen, did_names, data_count, result, state, reported, irVars>>

\* What the reader counts after a callback, in the handlers that count.
Counted(f) ==
    CASE f = "OnImportFunc"   -> [num EXCEPT !.func = @ + 1]
      [] f = "OnImportTable"  -> [num EXCEPT !.table = @ + 1]
      [] f = "OnImportMemory" -> [num EXCEPT !.memory = @ + 1]
      [] f = "OnImportGlobal" -> [num EXCEPT !.global = @ + 1]
      [] f = "OnImportEvent"  -> [num EXCEPT !.event = @ + 1]
      [] OTHER -> num

\* Faulty: it is not reset.
CustomAfter_open(f) == f = "BeginCustomSection" \/ reading_custom

\* reading_custom_section_ is set after BeginCustomSection, for the rest of the handler.
CustomAfter(f) ==
    CASE f = "BeginCustomSection" -> TRUE
      [] f = "EndCustomSection"   -> FALSE
      [] OTHER -> reading_custom

CallItem ==
    /\ Active /\ item.r = "call"
    /\ ~OutOfRange(Cb(item)) /\ ~Rejects(Cb(item))
    /\ Delegate(Cb(item))
    /\ todo' = Tail(todo)
    /\ num' = Counted(item.d)
    /\ reading_custom' = CustomAfter(item.d)
    /\ did_names' = (did_names \/ item.d = "EndNamesSection")
    /\ data_count' = IF item.d = "EndDataCountSection" THEN item.x ELSE data_count
    /\ UNCHANGED <<data, opt, offset, read_end, guards, section, section_result, last_known,
                   seen, result, state, reported>>

\* An access outside a vector: what follows is not defined.
CallUndefined ==
    /\ Active /\ item.r = "call"
    /\ OutOfRange(Cb(item))
    /\ state' = "undefined"
    /\ UNCHANGED <<data, opt, offset, read_end, guards, reading_custom, section, todo,
                   section_result, last_known, seen, did_names, num, data_count, result,
                   reported, irVars>>

LoopItem ==
    /\ Active /\ item.r = "loop"
    /\ todo' = Unfold(item) \o Tail(todo)
    /\ UNCHANGED <<data, opt, offset, read_end, guards, reading_custom, section, section_result,
                   last_known, seen, did_names, num, data_count, result, state, reported, irVars>>

EnterSubsection ==
    /\ Active /\ item.r = "enter"
    /\ guards' = Append(guards, read_end) /\ read_end' = item.x
    /\ todo' = Tail(todo)
    /\ UNCHANGED <<data, opt, offset, reading_custom, section, section_result, last_known, seen,
                   did_names, num, data_count, result, state, reported, irVars>>

LeaveSubsection ==
    /\ Active /\ item.r = "leave"
    /\ offset = item.x
    /\ guards' = Front(guards) /\ read_end' = Last(guards)
    /\ todo' = Tail(todo)
    /\ UNCHANGED <<data, opt, offset, reading_custom, section, section_result, last_known, seen,
                   did_names, num, data_count, result, state, reported, irVars>>

SkipRest ==
    /\ Active /\ item.r = "skip"
    /\ offset' = item.x
    /\ todo' = Tail(todo)
    /\ UNCHANGED <<data, opt, read_end, guards, reading_custom, section, section_result,
                   last_known, seen, did_names, num, data_count, result, state, reported, irVars>>

\* Faulty: a warning whatever the option.
ErrorLevel_warning == IF reading_custom THEN "Warning" ELSE "Error"

\* PrintError's level.
ErrorLevel == IF reading_custom /\ ~opt.fail_on_custom THEN "Warning" ELSE "Error"

\* PrintError without a return.
Report ==
    /\ Active /\ item.r = "report"
    /\ reported' = reported \cup {ErrorLevel}
    /\ todo' = Tail(todo)
    /\ UNCHANGED <<data, opt, offset, read_end, guards, reading_custom, section, section_result,
                   last_known, seen, did_names, num, data_count, result, state, irVars>>

\* Faulty: the limit of a subsection stays when its reader fails.
RestoredEnd_keep == read_end

\* The limit of the section: what the guard of a subsection restores.
RestoredEnd == IF Len(guards) = 2 THEN guards[2] ELSE read_end

\* Faulty: what failed is tried again.
LeftAfterFailure_all == todo

LeftAfterFailure == <<>>

\* The section's handler returns an error, from whatever depth.  A callback that
\* fails has reported an error of its own.  A primitive that fails may have taken
\* some bytes; nothing looks at the offset it leaves.
HandlerFails ==
    /\ Active
    /\ \/ item.r = "error"
       \/ IsRead /\ Got.n = 0
       \/ item.r = "leave" /\ offset # item.x
       \/ item.r = "call" /\ ~OutOfRange(Cb(item)) /\ Rejects(Cb(item))
    /\ section_result' = "Error"
    /\ todo' = LeftAfterFailure
    /\ read_end' = RestoredEnd /\ guards' = <<guards[1]>>
    /\ reading_custom' = FALSE
    /\ reported' = reported \cup {ErrorLevel} \cup (IF item.r = "call" THEN {"Error"} ELSE {})
    /\ UNCHANGED <<data, opt, offset, section, last_known, seen, did_names, num, data_count,
                   result, state, irVars>>

\* The handler has returned: the end of the loop of ReadSections.
Unfinished    == section_result = "Ok" /\ offset # read_end
SectionFailed == section_result = "Error" \/ Unfinished
IgnoreErrors  == section = Custom /\ ~opt.fail_on_custom

EndSection ==
    /\ state = "reading" /\ section # NONE /\ todo = <<>>
    /\ LET stop == SectionFailed /\ ~IgnoreErrors
       IN  /\ result' = IF stop \/ Unfinished THEN "Error" ELSE result
           /\ state' = IF stop THEN "returned" ELSE "reading"
           /\ offset' = IF SectionFailed /\ ~stop THEN read_end ELSE offset
           /\ last_known' = IF stop \/ section = Custom THEN last_known ELSE section
    /\ reported' = IF Unfinished THEN reported \cup {"Error"} ELSE reported
    /\ section' = NONE
    /\ read_end' = guards[1] /\ guards' = <<>>
    /\ UNCHANGED <<data, opt, reading_custom, todo, section_result, seen, did_names, num,
                   data_count, irVars>>
-----------------------------------------------------------------------------
ReaderInit ==
    /\ data \in Files /\ opt \in Options
    /\ offset = 0 /\ read_end = Len(data) /\ guards = <<>>
    /\ reading_custom = FALSE
    /\ section = NONE /\ todo = <<>> /\ section_result = "Ok"
    /\ last_known = NONE /\ seen = {} /\ did_names = FALSE
    /\ num = [func |-> 0, table |-> 0, memory |-> 0, global |-> 0, event |-> 0,
              sigs |-> 0, bodies |-> 0]
    /\ data_count = NONE
    /\ result = "Ok" /\ state = "reading" /\ reported = {}

Init == ReaderInit /\ IrInit

Next ==
    \/ NextSection \/ RejectSection \/ ReadModuleEnds
    \/ ReadItem \/ CallItem \/ CallUndefined \/ LoopItem
    \/ EnterSubsection \/ LeaveSubsection \/ SkipRest
    \/ Report \/ HandlerFails \/ EndSection

ReaderSpec == Init /\ [][Next]_modVars /\ WF_modVars(Next)
-----------------------------------------------------------------------------
(* Properties.                                                              *)

\* Each variable has the values the code can give it; a section is open exactly
\* as long as the guard of its limit is in scope (the variables of both classes).
ReaderTypeOK ==
    /\ offset \in Nat /\ read_end \in Nat
    /\ guards \in Seq(Nat) /\ Len(guards) \in 0 .. 2
    /\ section \in {NONE} \cup (0 .. kBinarySectionCount - 1)
    /\ (section = NONE) = (guards = <<>>)
    /\ section = NONE => todo = <<>>
    /\ (reading_custom => section = Custom) /\ (Len(guards) = 2 => reading_custom)
    /\ seen \subseteq 1 .. kBinarySectionCount - 1
    /\ \A k \in DOMAIN num : num[k] \in Nat
    /\ reported \subseteq {"Error", "Warning"}
    /\ result \in {"Ok", "Error"} /\ section_result \in {"Ok", "Error"}
    /\ state \in {"reading", "returned", "undefined"}

\* The limits nest and no read has passed one (read_end_, binary-reader.cc:2358,
\* 1588): the file holds the section, the section the subsection, and the offset
\* is inside the innermost.
LimitsNest ==
    LET limits == guards \o <<read_end, offset>>
    IN  /\ limits[1] = size
        /\ \A k \in 1 .. Len(limits) - 1 : limits[k] >= limits[k + 1]

\* Whatever the contents, whatever fails in a custom section, the reader goes
\* from section to section as SectionFrames says: it implements that module.
Frames == INSTANCE SectionFrames WITH
    Rank    <- GetSectionOrder,
    pos     <- IF section = NONE THEN offset
               ELSE IF Len(guards) = 2 THEN guards[2] ELSE read_end,
    last    <- Max({GetSectionOrder(code) : code \in seen} \cup {0}),
    verdict <- IF state # "returned" THEN "none"
               ELSE IF result = "Ok" THEN "accepted" ELSE "rejected"
FramesImplemented == Frames!FramesSpec

\* Every function defined in an accepted module has the bytes of its own body
\* (OnFunctionBinaryRead), the bodies are in order and do not overlap, and each
\* ends in an end: what the scan and the translation are given later.
BodiesInPlace ==
    (state = "returned" /\ result = "Ok") =>
        \A f \in num.func + 1 .. Len(funcs) :
            /\ funcs[f].wasm_bin # <<>>
            /\ LET bin == funcs[f].wasm_bin
               IN  /\ bin[1] < bin[2] /\ bin[2] <= size
                   /\ data[bin[2]] = OpcodeEnd[2]
                   /\ f > num.func + 1 => funcs[f - 1].wasm_bin[2] < bin[1]

\* Under each label of a construct is the label whose list ends with that
\* construct, of the kind the casts of OnElseExpr, OnEndExpr and OnCatchExpr
\* assume (binary-reader-ir.cc:769, 786-800, 997).
LabelsMatch ==
    \A k \in 2 .. Len(label_stack) :
        LET label == label_stack[k]
            back  == Back(label_stack[k - 1].exprs)
        IN  label.label_type # "Func" =>
                /\ back # 0 /\ label.exprs.i = back
                /\ <<label.label_type, label.exprs.of, exprs[back].kind>> \in
                        {<<t, "body", t>> : t \in {"Block", "Loop", "If", "Try"}}
                        \cup {<<"Else", "false", "If">>, <<"Catch", "catch", "Try">>}

\* Nesting by counting: the part of the trace from q + 1 to p never ends more
\* constructs than it opens.
Kinds(k, q, p) == {r \in q .. p : trace[r].k = k}
Under(q, p) ==
    /\ trace[q].k = "open"
    /\ \A r \in q + 1 .. p : Cardinality(Kinds("end", q + 1, r))
                                <= Cardinality(Kinds("open", q + 1, r))
BodyOf(p)    == Max({q \in 1 .. p : trace[q].k = "func"})
Enclosing(p) == Max({q \in BodyOf(p) .. p - 1 : Under(q, p - 1)} \cup {BodyOf(p)})

\* Are the bodies read before position p balanced?
BalancedBefore(p) ==
    LET q == BodyOf(p)
        Balanced(b, e) == Cardinality(Kinds("open", b, e)) = Cardinality(Kinds("end", b, e))
    IN  \A b \in Kinds("func", 1, q - 1) :
            Balanced(b, Min({r \in b + 1 .. q : trace[r].k = "func"}) - 1)

\* Each expression is in the list of the innermost construct around it in the
\* bytes: in its second list after an else or catch of that construct, else in its
\* first, and outside all constructs in the list of the function being read
\* (label_stack_, AppendExpr).  The trees are compared when reading is over.
TreeIsNesting ==
    state = "returned" =>
        \A p \in {q \in DOMAIN trace : trace[q].k \in {"expr", "open"} /\ BalancedBefore(q)} :
            LET q    == Enclosing(p)
                turn == {r \in q + 1 .. p - 1 : /\ trace[r].k \in {"else", "catch"}
                                               /\ Enclosing(r) = q}
                i    == trace[q].e
            IN  exprs[trace[p].e].list =
                    IF trace[q].k = "func" THEN FuncList(i)
                    ELSE IF turn = {} THEN BodyList(i)
                    ELSE IF \E r \in turn : trace[r].k = "else" THEN FalseList(i)
                    ELSE CatchList(i)

\* The index a callback is given is that of the thing it is about in the builder's
\* vectors: what its assertions say (binary-reader-ir.cc:582, 620, 1059, 1087, 1095, 1124, 1138, 1184)
\* and what it indexes without a check (624, 631, 1174, 1258).
CallbackIndexes ==
    (state = "reading" /\ todo # <<>> /\ item.r = "call") =>
        CASE item.d = "OnFunctionBodyCount" -> imports.func + item.x = Len(funcs)
          [] item.d = "BeginFunctionBody" -> item.x < Len(funcs)
          [] item.d \in {"OnFunctionName", "OnLocalNameLocalCount"} -> item.x.index < Len(funcs)
          [] item.d = "OnLocalName" -> item.x.of < Len(funcs)
          [] item.d = "BeginGlobalInitExpr" -> item.x = globals - 1
          [] item.d \in {"BeginElemSegmentInitExpr", "OnElemSegmentElemExpr"} ->
                 item.x = Len(elems) - 1
          [] item.d = "BeginDataSegmentInitExpr" -> item.x = Len(datas) - 1
          [] item.d = "OnDataSegmentData" -> item.x.index = Len(datas) - 1
          [] OTHER -> TRUE

\* However often names are given (two name sections when the first one fails, a
\* symbol after a name), no two entities of a kind share one, and the name a
\* function has leads back to it (GetUniqueName, func_bindings).
NamesResolve ==
    /\ \A b, c \in bindings : b.kind = c.kind /\ b.name = c.name => b = c
    /\ \A f \in DOMAIN funcs : funcs[f].name # <<>> =>
           [kind |-> Function, name |-> funcs[f].name, index |-> f - 1] \in bindings

\* A module is not rejected in silence: an error of level Error was reported
\* (PrintError, ReadSections).
FailuresReported == (state = "returned" /\ result = "Error") => "Error" \in reported

\* Reading ends for every file (the loops of ReadSections, of the name and linking
\* sections and of ReadFunctionBody).
ReaderEnds == <>(state # "reading")

\* Errors in custom sections are ignored when the option says so (wasm-cvt.cc:62):
\* the end of such a section does not change the result.
CustomErrorsIgnored ==
    [][(section = Custom /\ section' = NONE /\ ~opt.fail_on_custom) => result' = result]_modVars

\* What was reported as an error makes the module rejected (binary-reader.cc:2241
\* reports that an element expression is not what is expected).
ReportedErrorsReject == (state = "returned" /\ "Error" \in reported) => result = "Error"
=============================================================================
