------------------------------ MODULE UbhCode ------------------------------
(***************************************************************************)
(* The register tables of one translated function (ubh.cpp, lines 13-109):  *)
(* the constructor of UBH_CODE reads the parameters and locals of the wasm   *)
(* function into one table per value type and maps every wasm local to a     *)
(* register; Push_temp_reg then hands out temporaries.  A register is an     *)
(* index into the register file of its type, so the same index in two files  *)
(* is two registers.                                                         *)
(***************************************************************************)
EXTENDS SequencesExt, Integers

CONSTANTS
    Funcs,     \* wabt::Func: the parameter types and the types of the locals
    MaxTemps   \* bound on the temporaries handed out: one per instruction

\* The types with a register file, and every type a wasm function may declare.
NumTypes == {"I32", "I64", "F32", "F64"}
WasmTypes == NumTypes \cup {"V128"}

\* What the constructor reads of a wabt::Func.
Func_sig == [params : Seq(WasmTypes), locals : Seq(WasmTypes)]

ASSUME FuncsAssumption ==
    /\ Funcs \subseteq Func_sig
    /\ MaxTemps \in Nat

VARIABLES
    func,         \* the function the tables are for
    fi,           \* the loop index i of the constructor
    ctor,         \* "params" | "locals" | "ready" | "aborted"
    local_table,  \* the kinds of the entries of each type's table
    local_map,    \* the register of each wasm local read so far
    file,         \* the type each of these was read as
    temps         \* the temporaries handed out: type and register

ubhVars == <<func, fi, ctor, local_table, local_map, file, temps>>

CONST_REG_NUM == 2   \* R0 = 0, R1 = 1
RET_REG_NUM   == 2

REG_TY == {"FORMAL_PARAM", "LOCAL", "TEMP"}
-----------------------------------------------------------------------------
(* The C++ index i counts from 0, the sequences of the model from 1.        *)

\* Func::GetLocalType indexes the parameters and the locals as one list.
GetLocalType(i) ==
    IF i < Len(func.params) THEN func.params[i + 1]
                            ELSE func.locals[i - Len(func.params) + 1]

TypeRead == IF ctor = "params" THEN func.params[fi + 1] ELSE GetLocalType(fi)

\* Faulty variants, never part of the specification: the register is computed
\* with the wrong sign; the entry of the table is not made.
MapLocal_minus(t, kind) ==
    /\ local_table' = [local_table EXCEPT ![t] = Append(@, kind)]
    /\ local_map' = Append(local_map, Len(local_table[t]) + 1 - RET_REG_NUM)
    /\ file' = Append(file, t)
    /\ fi' = fi + 1
    /\ UNCHANGED <<func, ctor, temps>>

MapLocal_noEntry(t, kind) ==
    /\ local_map' = Append(local_map, Len(local_table[t]) + 1 + RET_REG_NUM)
    /\ file' = Append(file, t)
    /\ fi' = fi + 1
    /\ UNCHANGED <<func, ctor, temps, local_table>>

\* push_back(LOCAL_TAB_ELEM(kind, t)), then the size of the table plus
\* RET_REG_NUM as the register of the local.
MapLocal(t, kind) ==
    /\ local_table' = [local_table EXCEPT ![t] = Append(@, kind)]
    /\ local_map' = Append(local_map, Len(local_table[t]) + 1 + RET_REG_NUM)
    /\ file' = Append(file, t)
    /\ fi' = fi + 1
    /\ UNCHANGED <<func, ctor, temps>>

UbhInit ==
    /\ func \in Funcs
    /\ fi = 0
    /\ ctor = "params"
    /\ local_table = [t \in NumTypes |-> <<>>]
    /\ local_map = <<>>
    /\ file = <<>>
    /\ temps = <<>>

ReadParam ==
    /\ ctor = "params"
    /\ fi < Len(func.params)
    /\ TypeRead \in NumTypes
    /\ MapLocal(TypeRead, "FORMAL_PARAM")

ParamsRead ==
    /\ ctor = "params"
    /\ fi = Len(func.params)
    /\ ctor' = "locals"
    /\ fi' = 0
    /\ UNCHANGED <<func, local_table, local_map, file, temps>>

ReadLocal ==
    /\ ctor = "locals"
    /\ fi < Len(func.locals)
    /\ TypeRead \in NumTypes \ {"F64"}
    /\ MapLocal(TypeRead, "LOCAL")

\* The F64 case of the second loop: two entries, and no register in the map.
ReadF64Local ==
    /\ ctor = "locals"
    /\ fi < Len(func.locals)
    /\ TypeRead = "F64"
    /\ local_table' = [local_table EXCEPT !["F64"] = @ \o <<"LOCAL", "FORMAL_PARAM">>]
    /\ fi' = fi + 1
    /\ UNCHANGED <<func, ctor, local_map, file, temps>>

\* Is_True(false, ("unknown param type")) in either loop.
UnknownType ==
    /\ \/ ctor = "params" /\ fi < Len(func.params)
       \/ ctor = "locals" /\ fi < Len(func.locals)
    /\ TypeRead \notin NumTypes
    /\ ctor' = "aborted"
    /\ UNCHANGED <<func, fi, local_table, local_map, file, temps>>

LocalsRead ==
    /\ ctor = "locals"
    /\ fi = Len(func.locals)
    /\ ctor' = "ready"
    /\ UNCHANGED <<func, fi, local_table, local_map, file, temps>>

\* Faulty: the return registers are not counted.
NextTemp_noReturn(t) == Len(local_table[t]) + CONST_REG_NUM

\* The register Push_temp_reg returns, and what it does to the table of type t.
NextTemp(t) == Len(local_table[t]) + CONST_REG_NUM + RET_REG_NUM

Push_temp_reg(t) ==
    /\ temps' = Append(temps, [type |-> t, reg |-> NextTemp(t)])
    /\ local_table' = [local_table EXCEPT ![t] = Append(@, "TEMP")]
    /\ UNCHANGED <<func, fi, ctor, local_map, file>>

\* Faulty: the constant registers are not counted.
Get_local_num_noConst ==
    RET_REG_NUM + Len(local_table["I32"]) + Len(local_table["I64"])
                + Len(local_table["F32"]) + Len(local_table["F64"])

\* First register of the area for call arguments.
Get_local_num ==
    CONST_REG_NUM + RET_REG_NUM
        + Len(local_table["I32"]) + Len(local_table["I64"])
        + Len(local_table["F32"]) + Len(local_table["F64"])

ConstructStep ==
    \/ ReadParam \/ ParamsRead
    \/ ReadLocal \/ ReadF64Local \/ LocalsRead
    \/ UnknownType

\* Temporaries are asked for by the translation, once the tables are ready.
PushTemp ==
    /\ ctor = "ready"
    /\ Len(temps) < MaxTemps
    /\ \E t \in NumTypes : Push_temp_reg(t)

UbhNext == ConstructStep \/ PushTemp

UbhSpec == UbhInit /\ [][UbhNext]_ubhVars
-----------------------------------------------------------------------------
UbhTypeOK ==
    /\ func \in Func_sig
    /\ fi \in 0 .. Len(func.params) + Len(func.locals)
    /\ ctor \in {"params", "locals", "ready", "aborted"}
    /\ local_table \in [NumTypes -> Seq(REG_TY)]
    /\ local_map \in Seq(Nat)
    /\ file \in Seq(NumTypes)
    /\ Len(local_map) = Len(file)
    /\ temps \in Seq([type : NumTypes, reg : Nat])

\* Distinct locals of one register file have distinct registers, distinct
\* temporaries too, and no temporary is the register of a local.  Locals are
\* numbered from the size of their table plus 2 after the push, temporaries from
\* the size plus 4 before it: what keeps them apart is that all locals come first.
RegistersApart ==
    /\ \A i, j \in DOMAIN file :
          i # j /\ file[i] = file[j] => local_map[i] # local_map[j]
    /\ \A i, j \in DOMAIN temps :
          i # j /\ temps[i].type = temps[j].type => temps[i].reg # temps[j].reg
    /\ \A i \in DOMAIN file, j \in DOMAIN temps :
          file[i] = temps[j].type => local_map[i] # temps[j].reg

\* The area for call arguments begins above every register in use, in each file.
ParamAreaFree ==
    /\ \A i \in DOMAIN local_map : local_map[i] < Get_local_num
    /\ \A i \in DOMAIN temps : temps[i].reg < Get_local_num

\* The type wasm gives local i of the function, parameters first.
DeclaredTypes == func.params \o func.locals

\* Every wasm local has an entry in the map; two locals of one wasm type, or a
\* local and a temporary of that type, never share a register.
OwnRegisters ==
    ctor = "ready" =>
        /\ Len(local_map) = Len(DeclaredTypes)
        /\ \A i, j \in DOMAIN DeclaredTypes :
              i # j /\ DeclaredTypes[i] = DeclaredTypes[j] => local_map[i] # local_map[j]
        /\ \A i \in DOMAIN DeclaredTypes, j \in DOMAIN temps :
              DeclaredTypes[i] = temps[j].type => local_map[i] # temps[j].reg

\* The functions on which the second loop reads the types it means to: the i-th
\* entry of the whole list is the i-th local, and none is an F64.
ReadsItsLocals ==
    \A i \in 0 .. Len(func.locals) - 1 :
        GetLocalType(i) = func.locals[i + 1] /\ func.locals[i + 1] # "F64"

\* For those functions every wasm local owns its register.
LocalsOwnRegisters == ReadsItsLocals => OwnRegisters

\* Signatures on which it does for sure: no local is an F64, and there are no
\* parameters or nothing but parameters and locals of one type.
PlainSignature ==
    /\ "F64" \notin ToSet(func.locals)
    /\ \/ func.params = <<>>
       \/ \E t \in WasmTypes : ToSet(func.params \o func.locals) = {t}
=============================================================================
