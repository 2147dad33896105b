------------------------------ MODULE IrBuilder ------------------------------
(***************************************************************************)
(* BinaryReaderIR (src/binary-reader-ir.cc): the delegate that turns the     *)
(* callbacks of the binary reader into a module: the vectors of functions,   *)
(* types and so on, and for every function body a tree of expressions, built *)
(* with a stack of labels.                                                   *)
(*                                                                          *)
(* A callback is a record [f, x]: its name and the arguments the builder     *)
(* keeps.  The operands of an expression, the module and field names of      *)
(* imports and the contents of segments are left out; a name is what the     *)
(* reader delivers.  exprs holds every expression in the order in which they *)
(* were appended, with its location and the ExprList it went to: a list is   *)
(* named after the function or the expression it is part of.                 *)
(***************************************************************************)
EXTENDS Naturals, Sequences, SequencesExt, FiniteSets, FiniteSetsExt, TLC

VARIABLES
    types,         \* module_->types: the number of parameters of each, or NotFunc
    funcs,         \* module_->funcs
    tables, memories, globals, events, exports, starts,
                   \* the lengths of module_'s other vectors
    elems,         \* module_->elem_segments: the number of elements of each
    datas,         \* module_->data_segments: the number of bytes of each
    imports,       \* num_func_imports, num_table_imports and so on
    exprs,         \* the expressions of all bodies
    init_exprs,    \* the lists that have received an initializer
    label_stack,
    current_func,  \* the index of a function, or NONE
    current_init,  \* current_init_expr_: a list, or NoList
    bindings,      \* the binding hashes: per kind of entity, names and indexes
    trace          \* auxiliary: the callbacks that build trees, in order

irVars == <<types, funcs, tables, memories, globals, events, exports, starts, elems,
            datas, imports, exprs, init_exprs, label_stack, current_func, current_init,
            bindings, trace>>
vectors == <<types, funcs, tables, memories, globals, events, exports, starts, elems, datas,
             imports>>
building == <<exprs, init_exprs, label_stack, current_func, current_init, bindings, trace>>

NONE == -1

NoList            == [of |-> "none",   i |-> NONE]
FuncList(i)       == [of |-> "func",   i |-> i]
BodyList(e)       == [of |-> "body",   i |-> e]
FalseList(e)      == [of |-> "false",  i |-> e]
CatchList(e)      == [of |-> "catch",  i |-> e]

IrInit ==
    /\ types = <<>> /\ funcs = <<>>
    /\ tables = 0 /\ memories = 0 /\ globals = 0 /\ events = 0 /\ exports = 0
    /\ starts = 0 /\ elems = <<>> /\ datas = <<>>
    /\ imports = [func |-> 0, table |-> 0, memory |-> 0, global |-> 0, event |-> 0]
    /\ exprs = <<>> /\ init_exprs = <<>>
    /\ label_stack = <<>>
    /\ current_func = NONE /\ current_init = NoList
    /\ bindings = {}
    /\ trace = <<>>
-----------------------------------------------------------------------------
(* The sections before the bodies.                                          *)

\* A struct or array type.
NotFunc == -1

\* SetFuncDeclaration: the parameters of the type, when there is such a type.
NumParams(sig) == IF sig < Len(types) THEN types[sig + 1] ELSE 0

\* GetFuncType casts the type to a function type without a check.
BadSignature(sig) == sig \in 0 .. Len(types) - 1 /\ types[sig + 1] = NotFunc

NewFunc(sig) == [params |-> NumParams(sig), locals |-> 0, wasm_bin |-> <<>>, name |-> <<>>]

\* Module::AppendField, for each kind of field: what is appended has no name yet.
AppendType(type)  == types' = Append(types, type)
AppendFunc(sig)   == funcs' = Append(funcs, NewFunc(sig))
AppendTable       == tables' = tables + 1
AppendMemory      == memories' = memories + 1
AppendGlobal      == globals' = globals + 1
AppendEvent       == events' = events + 1
AppendExport      == exports' = exports + 1
AppendStart       == starts' = starts + 1
AppendElemSegment == elems' = Append(elems, 0)
AppendDataSegment == datas' = Append(datas, 0)

\* An import is counted, and is one more element of the vector of its kind.
AppendImport(kind, sig) ==
    /\ imports' = [imports EXCEPT ![kind] = @ + 1]
    /\ IF kind = "func"   THEN AppendFunc(sig) ELSE UNCHANGED funcs
    /\ IF kind = "table"  THEN AppendTable     ELSE UNCHANGED tables
    /\ IF kind = "memory" THEN AppendMemory    ELSE UNCHANGED memories
    /\ IF kind = "global" THEN AppendGlobal    ELSE UNCHANGED globals
    /\ IF kind = "event"  THEN AppendEvent     ELSE UNCHANGED events

ImportKind ==
    [OnImportFunc |-> "func", OnImportTable |-> "table", OnImportMemory |-> "memory",
     OnImportGlobal |-> "global", OnImportEvent |-> "event"]

OnImport(cb) ==
    /\ cb.f \in DOMAIN ImportKind
    /\ AppendImport(ImportKind[cb.f], cb.x)
    /\ UNCHANGED <<types, exports, starts, elems, datas, building>>

OnFuncType(cb) ==
    /\ cb.f = "OnFuncType" /\ AppendType(cb.x)
    /\ UNCHANGED <<funcs, tables, memories, globals, events, exports, starts, elems, datas,
                   imports, building>>

OnStructType(cb) ==
    /\ cb.f \in {"OnStructType", "OnArrayType"} /\ AppendType(NotFunc)
    /\ UNCHANGED <<funcs, tables, memories, globals, events, exports, starts, elems, datas,
                   imports, building>>

OnFunction(cb) ==
    /\ cb.f = "OnFunction" /\ AppendFunc(cb.x)
    /\ UNCHANGED <<types, tables, memories, globals, events, exports, starts, elems, datas,
                   imports, building>>

OnTable(cb) ==
    /\ cb.f = "OnTable" /\ AppendTable
    /\ UNCHANGED <<types, funcs, memories, globals, events, exports, starts, elems, datas,
                   imports, building>>

OnMemory(cb) ==
    /\ cb.f = "OnMemory" /\ AppendMemory
    /\ UNCHANGED <<types, funcs, tables, globals, events, exports, starts, elems, datas,
                   imports, building>>

BeginGlobal(cb) ==
    /\ cb.f = "BeginGlobal" /\ AppendGlobal
    /\ UNCHANGED <<types, funcs, tables, memories, events, exports, starts, elems, datas,
                   imports, building>>

OnEventType(cb) ==
    /\ cb.f = "OnEventType" /\ AppendEvent
    /\ UNCHANGED <<types, funcs, tables, memories, globals, exports, starts, elems, datas,
                   imports, building>>

OnExport(cb) ==
    /\ cb.f = "OnExport" /\ AppendExport
    /\ UNCHANGED <<types, funcs, tables, memories, globals, events, starts, elems, datas,
                   imports, building>>

OnStartFunction(cb) ==
    /\ cb.f = "OnStartFunction" /\ AppendStart
    /\ UNCHANGED <<types, funcs, tables, memories, globals, events, exports, elems, datas,
                   imports, building>>

\* The index the reader gives is not used: the segment is the last one.
BeginElemSegment(cb) ==
    /\ cb.f = "BeginElemSegment" /\ AppendElemSegment
    /\ UNCHANGED <<types, funcs, tables, memories, globals, events, exports, starts, datas,
                   imports, building>>

BeginDataSegment(cb) ==
    /\ cb.f = "BeginDataSegment" /\ AppendDataSegment
    /\ UNCHANGED <<types, funcs, tables, memories, globals, events, exports, starts, elems,
                   imports, building>>

\* A null reference or that of a function, as one more element of the segment.
OnElemSegmentElemExpr(cb) ==
    /\ cb.f = "OnElemSegmentElemExpr"
    /\ elems' = [elems EXCEPT ![cb.x + 1] = @ + 1]
    /\ UNCHANGED <<types, funcs, tables, memories, globals, events, exports, starts, datas,
                   imports, building>>

OnDataSegmentData(cb) ==
    /\ cb.f = "OnDataSegmentData"
    /\ datas' = [datas EXCEPT ![cb.x.index + 1] = cb.x.size]
    /\ UNCHANGED <<types, funcs, tables, memories, globals, events, exports, starts, elems,
                   imports, building>>

\* cb.x: the index of the global or segment whose initializer is read.
BeginInitExpr(cb) ==
    /\ cb.f \in {"BeginGlobalInitExpr", "BeginElemSegmentInitExpr", "BeginDataSegmentInitExpr"}
    /\ current_init' = [of |-> cb.f, i |-> cb.x]
    /\ UNCHANGED <<vectors, exprs, init_exprs, label_stack, current_func, bindings, trace>>

OnInitExpr(cb) ==
    /\ cb.f = "OnInitExpr"
    /\ init_exprs' = Append(init_exprs, current_init)
    /\ UNCHANGED <<vectors, exprs, label_stack, current_func, current_init, bindings, trace>>

EndInitExpr(cb) ==
    /\ cb.f \in {"EndGlobalInitExpr", "EndElemSegmentInitExpr", "EndDataSegmentInitExpr"}
    /\ current_init' = NoList
    /\ UNCHANGED <<vectors, exprs, init_exprs, label_stack, current_func, bindings, trace>>
-----------------------------------------------------------------------------
(* Function bodies.                                                         *)

TopLabel == Last(label_stack)
\* GetLabelAt(1)
ParentLabel == label_stack[Len(label_stack) - 1]

Label(type, list) == [label_type |-> type, exprs |-> list]

\* The expressions of a list and exprs->back(), 0 for the back of an empty list.
Elements(list) == {e \in DOMAIN exprs : exprs[e].list = list}
Back(list)     == Max(Elements(list) \cup {0})

Traced(k, e) == trace' = Append(trace, [k |-> k, e |-> e])

BeginFunctionBody(cb) ==
    /\ cb.f = "BeginFunctionBody"
    /\ current_func' = cb.x
    /\ label_stack' = Append(label_stack, Label("Func", FuncList(cb.x)))
    /\ Traced("func", cb.x)
    /\ UNCHANGED <<vectors, exprs, init_exprs, current_init, bindings>>

\* cb.x: how many locals of one type are declared.
OnLocalDecl(cb) ==
    /\ cb.f = "OnLocalDecl"
    /\ funcs' = [funcs EXCEPT ![current_func + 1].locals = @ + cb.x]
    /\ UNCHANGED <<types, tables, memories, globals, events, exports, starts, elems, datas,
                   imports, building>>

\* The bytes of the body, from the first after the declarations to its end.
OnFunctionBinaryRead(cb) ==
    /\ cb.f = "OnFunctionBinaryRead"
    /\ current_func' = cb.x.index
    /\ funcs' = [funcs EXCEPT ![cb.x.index + 1].wasm_bin = <<cb.x.begin, cb.x.end>>]
    /\ UNCHANGED <<types, tables, memories, globals, events, exports, starts, elems, datas,
                   imports, exprs, init_exprs, label_stack, current_init, bindings, trace>>

\* The expression each callback makes.
AtomicExprs ==
    [OnAtomicLoadExpr |-> "AtomicLoad", OnAtomicStoreExpr |-> "AtomicStore",
     OnAtomicRmwExpr |-> "AtomicRmw", OnAtomicRmwCmpxchgExpr |-> "AtomicRmwCmpxchg",
     OnAtomicWaitExpr |-> "AtomicWait", OnAtomicFenceExpr |-> "AtomicFence",
     OnAtomicNotifyExpr |-> "AtomicNotify"]
BranchExprs ==
    [OnBrExpr |-> "Br", OnBrIfExpr |-> "BrIf", OnBrOnExnExpr |-> "BrOnExn",
     OnBrTableExpr |-> "BrTable", OnCallExpr |-> "Call", OnCallIndirectExpr |-> "CallIndirect",
     OnReturnCallExpr |-> "ReturnCall", OnReturnCallIndirectExpr |-> "ReturnCallIndirect",
     OnCompareExpr |-> "Compare", OnConvertExpr |-> "Convert", OnDropExpr |-> "Drop"]
ConstExprs ==
    [OnF32ConstExpr |-> "Const", OnF64ConstExpr |-> "Const", OnV128ConstExpr |-> "Const",
     OnI32ConstExpr |-> "Const", OnI64ConstExpr |-> "Const",
     OnGlobalGetExpr |-> "GlobalGet", OnLocalGetExpr |-> "LocalGet"]
MemoryExprs ==
    [OnLoadExpr |-> "Load", OnMemoryCopyExpr |-> "MemoryCopy", OnDataDropExpr |-> "DataDrop",
     OnMemoryFillExpr |-> "MemoryFill", OnMemoryGrowExpr |-> "MemoryGrow",
     OnMemoryInitExpr |-> "MemoryInit", OnMemorySizeExpr |-> "MemorySize"]
TableExprs ==
    [OnTableCopyExpr |-> "TableCopy", OnElemDropExpr |-> "ElemDrop",
     OnTableInitExpr |-> "TableInit", OnTableGetExpr |-> "TableGet",
     OnTableSetExpr |-> "TableSet", OnTableGrowExpr |-> "TableGrow",
     OnTableSizeExpr |-> "TableSize", OnTableFillExpr |-> "TableFill",
     OnRefFuncExpr |-> "RefFunc", OnRefNullExpr |-> "RefNull", OnRefIsNullExpr |-> "RefIsNull"]
SetExprs ==
    [OnNopExpr |-> "Nop", OnRethrowExpr |-> "Rethrow", OnReturnExpr |-> "Return",
     OnSelectExpr |-> "Select", OnGlobalSetExpr |-> "GlobalSet", OnLocalSetExpr |-> "LocalSet",
     OnStoreExpr |-> "Store", OnThrowExpr |-> "Throw", OnLocalTeeExpr |-> "LocalTee"]
OperatorExprs ==
    [OnBinaryExpr |-> "Binary", OnUnaryExpr |-> "Unary", OnTernaryExpr |-> "Ternary",
     OnUnreachableExpr |-> "Unreachable"]
SimdExprs ==
    [OnSimdLaneOpExpr |-> "SimdLaneOp", OnSimdShuffleOpExpr |-> "SimdShuffleOp",
     OnLoadSplatExpr |-> "LoadSplat"]
ExprTables == {AtomicExprs, BranchExprs, ConstExprs, MemoryExprs, TableExprs, SetExprs,
               OperatorExprs, SimdExprs}
ExprMade == [f \in UNION {DOMAIN t : t \in ExprTables} |->
                 (CHOOSE t \in ExprTables : f \in DOMAIN t)[f]]

\* Those that hold expressions, and are the labels of what is in them.
Opened == [OnBlockExpr |-> "Block", OnLoopExpr |-> "Loop", OnIfExpr |-> "If",
           OnTryExpr |-> "Try"]

\* cb.x.loc: the offset after the expression.
AppendExpr(kind, cb) == exprs' = Append(exprs, [kind |-> kind, loc |-> cb.x.loc,
                                                list |-> TopLabel.exprs])

OnExpr(cb) ==
    /\ cb.f \in DOMAIN ExprMade
    /\ AppendExpr(ExprMade[cb.f], cb)
    /\ Traced("expr", Len(exprs) + 1)
    /\ UNCHANGED <<vectors, init_exprs, label_stack, current_func, current_init, bindings>>

\* Faulty: the new label is given the list the expression itself went to.
OnOpenExpr_outer(cb) ==
    /\ cb.f \in DOMAIN Opened
    /\ AppendExpr(Opened[cb.f], cb)
    /\ label_stack' = Append(label_stack, Label(Opened[cb.f], TopLabel.exprs))
    /\ Traced("open", Len(exprs) + 1)
    /\ UNCHANGED <<vectors, init_exprs, current_func, current_init, bindings>>

\* OnBlockExpr, OnLoopExpr, OnIfExpr, OnTryExpr.
OnOpenExpr(cb) ==
    /\ cb.f \in DOMAIN Opened
    /\ AppendExpr(Opened[cb.f], cb)
    /\ label_stack' = Append(label_stack, Label(Opened[cb.f], BodyList(Len(exprs) + 1)))
    /\ Traced("open", Len(exprs) + 1)
    /\ UNCHANGED <<vectors, init_exprs, current_func, current_init, bindings>>

OnElseExpr(cb) ==
    /\ cb.f = "OnElseExpr"
    /\ label_stack' = Append(Front(label_stack),
                             Label("Else", FalseList(Back(ParentLabel.exprs))))
    /\ Traced("else", 0)
    /\ UNCHANGED <<vectors, exprs, init_exprs, current_func, current_init, bindings>>

OnCatchExpr(cb) ==
    /\ cb.f = "OnCatchExpr"
    /\ label_stack' = Append(Front(label_stack),
                             Label("Catch", CatchList(Back(ParentLabel.exprs))))
    /\ Traced("catch", 0)
    /\ UNCHANGED <<vectors, exprs, init_exprs, current_func, current_init, bindings>>

\* Faulty: the label stays.
OnEndExpr_keep(cb) ==
    /\ cb.f = "OnEndExpr"
    /\ label_stack' = label_stack
    /\ Traced("end", 0)
    /\ UNCHANGED <<vectors, exprs, init_exprs, current_func, current_init, bindings>>

OnEndExpr(cb) ==
    /\ cb.f = "OnEndExpr"
    /\ label_stack' = Front(label_stack)
    /\ Traced("end", 0)
    /\ UNCHANGED <<vectors, exprs, init_exprs, current_func, current_init, bindings>>

EndFunctionBody(cb) ==
    /\ cb.f = "EndFunctionBody"
    /\ label_stack' = Front(label_stack)
    /\ current_func' = NONE
    /\ UNCHANGED <<vectors, exprs, init_exprs, current_init, bindings, trace>>
-----------------------------------------------------------------------------
(* Names: sequences of bytes, without the dollar every name begins with.     *)

NamesOf(kind) == {b.name : b \in {c \in bindings : c.kind = kind}}

\* ".k", for k below ten.
Suffix(k) == IF k = 0 THEN <<>> ELSE <<46, 48 + k>>

\* Faulty: one attempt, without the loop.
GetUniqueName_once(kind, s) == IF s \in NamesOf(kind) THEN s \o Suffix(1) ELSE s

\* The counter of the first name that is free.
GetUniqueName(kind, s) ==
    s \o Suffix(Min({k \in 0 .. Cardinality(bindings) : s \o Suffix(k) \notin NamesOf(kind)}))

Bind(kind, i, s) ==
    bindings' = bindings \cup {[kind |-> kind, name |-> GetUniqueName(kind, s), index |-> i]}

\* The kind of a name: the entity and, for a local, the function.
Function == <<"OnFunctionName", 0>>

NameFunction(i, s) ==
    /\ Bind(Function, i, s)
    /\ funcs' = [funcs EXCEPT ![i + 1].name = GetUniqueName(Function, s)]

\* The name section names a function whatever its name was; an empty name is
\* ignored.  A symbol names a function only if it has no name yet.
OnFunctionName(cb) ==
    /\ cb.f \in {"OnFunctionName", "OnFunctionSymbol"}
    /\ IF \/ cb.x.name = <<>>
          \/ cb.f = "OnFunctionSymbol" /\ funcs[cb.x.index + 1].name # <<>>
       THEN UNCHANGED <<funcs, bindings>>
       ELSE NameFunction(cb.x.index, cb.x.name)
    /\ UNCHANGED <<types, tables, memories, globals, events, exports, starts, elems, datas,
                   imports, exprs, init_exprs, label_stack, current_func, current_init, trace>>

\* Globals, events and, when they are defined here and named whole, data
\* segments.  The names of locals have a table per function.
OnName(cb) ==
    /\ cb.f \in {"OnGlobalSymbol", "OnEventSymbol", "OnDataSymbol", "OnLocalName"}
    /\ IF cb.x.name = <<>> \/ cb.x.partial THEN UNCHANGED bindings
       ELSE Bind(<<cb.f, cb.x.of>>, cb.x.index, cb.x.name)
    /\ UNCHANGED <<vectors, exprs, init_exprs, label_stack, current_func, current_init, trace>>
-----------------------------------------------------------------------------
(* A callback as the reader sees it.                                        *)

\* GetLabelAt: there is no label, or not that of a construct around.
LabelMissing(cb) ==
    \/ /\ cb.f \in DOMAIN ExprMade \cup DOMAIN Opened \cup {"EndFunctionBody"}
       /\ label_stack = <<>>
    \/ /\ cb.f \in {"OnElseExpr", "OnEndExpr", "OnCatchExpr"}
       /\ Len(label_stack) < 2

\* An else of what is no if, a catch of what is no try.
LabelUnexpected(cb) ==
    /\ Len(label_stack) > 1
    /\ \/ cb.f = "OnElseExpr"  /\ TopLabel.label_type # "If"
       \/ cb.f = "OnCatchExpr" /\ TopLabel.label_type # "Try"

TooManyFunctionNames(cb) == cb.f = "OnFunctionNamesCount" /\ cb.x > Len(funcs)

TooManyLocalNames(cb) ==
    /\ cb.f = "OnLocalNameLocalCount"
    /\ LET func == funcs[cb.x.index + 1] IN cb.x.count > func.params + func.locals

\* The callbacks that fail.  A failing callback reports an error and changes
\* nothing else.
Rejects(cb) == \/ LabelMissing(cb) \/ LabelUnexpected(cb)
               \/ TooManyFunctionNames(cb) \/ TooManyLocalNames(cb)

\* The callbacks that use the vectors of the module without a check: an index
\* beyond the end, or a type that is not what it is taken for.  cb.x.arg: the type
\* of a block, or the signature of an indirect call.
OutOfRange(cb) ==
    \/ /\ cb.f \in {"OnImportFunc", "OnFunction", "OnImportEvent", "OnEventType"}
       /\ BadSignature(cb.x)
    \/ /\ cb.f \in DOMAIN Opened \cup {"OnCallIndirectExpr", "OnReturnCallIndirectExpr"}
       /\ BadSignature(cb.x.arg)
    \/ cb.f = "OnFunctionSymbol" /\ cb.x.name # <<>> /\ cb.x.index >= Len(funcs)
    \/ cb.f = "OnGlobalSymbol" /\ cb.x.name # <<>> /\ cb.x.index >= globals
    \/ cb.f = "OnEventSymbol" /\ cb.x.name # <<>> /\ cb.x.index >= events
    \/ /\ cb.f = "OnDataSymbol" /\ cb.x.name # <<>> /\ ~cb.x.partial
       /\ cb.x.index >= Len(datas)

Acts == DOMAIN ExprMade \cup DOMAIN Opened \cup
        {"OnFuncType", "OnStructType", "OnArrayType", "OnImportFunc", "OnFunction",
         "OnImportTable", "OnTable", "OnImportMemory", "OnMemory", "OnImportGlobal",
         "BeginGlobal", "OnImportEvent", "OnEventType", "OnExport", "OnStartFunction",
         "BeginElemSegment", "BeginDataSegment", "OnElemSegmentElemExpr",
         "OnDataSegmentData", "BeginGlobalInitExpr",
         "BeginElemSegmentInitExpr", "BeginDataSegmentInitExpr", "OnInitExpr",
         "EndGlobalInitExpr", "EndElemSegmentInitExpr", "EndDataSegmentInitExpr",
         "BeginFunctionBody", "OnLocalDecl", "OnFunctionBinaryRead",
         "OnElseExpr", "OnCatchExpr", "OnEndExpr", "EndFunctionBody", "OnFunctionName",
         "OnFunctionSymbol", "OnGlobalSymbol", "OnEventSymbol", "OnDataSymbol", "OnLocalName"}

\* The callbacks that change nothing kept here: the empty ones BinaryReaderIR takes
\* over from BinaryReaderNop (the begins and ends of sections, OnEndFunc); its own
\* ones for counts, which reserve room or compare (TooManyFunctionNames and
\* TooManyLocalNames say when they refuse); and the two that set what is left out
\* of this module, OnModuleName and OnElemSegmentElemType.
Nop(cb) == cb.f \notin Acts /\ UNCHANGED irVars

Delegate(cb) ==
    \/ OnFuncType(cb) \/ OnStructType(cb) \/ OnImport(cb) \/ OnFunction(cb)
    \/ OnTable(cb) \/ OnMemory(cb) \/ BeginGlobal(cb) \/ OnEventType(cb)
    \/ OnExport(cb) \/ OnStartFunction(cb)
    \/ BeginElemSegment(cb) \/ OnElemSegmentElemExpr(cb)
    \/ BeginDataSegment(cb) \/ OnDataSegmentData(cb)
    \/ BeginInitExpr(cb) \/ OnInitExpr(cb) \/ EndInitExpr(cb)
    \/ BeginFunctionBody(cb) \/ OnLocalDecl(cb) \/ OnFunctionBinaryRead(cb)
    \/ OnExpr(cb) \/ OnOpenExpr(cb) \/ OnElseExpr(cb) \/ OnCatchExpr(cb) \/ OnEndExpr(cb)
    \/ EndFunctionBody(cb)
    \/ OnFunctionName(cb) \/ OnName(cb) \/ Nop(cb)
=============================================================================
