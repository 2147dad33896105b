-------------------------------- MODULE Opcodes --------------------------------
(***************************************************************************)
(* The opcodes of wasm (src/opcode.def, opcode.h) and the features that      *)
(* enable them (src/opcode.cc, feature.cc).  An opcode is a pair of its      *)
(* prefix byte, 0 for none, and its code.                                    *)
(***************************************************************************)
EXTENDS Integers

Plain(S)   == {0} \X S
Math(S)    == {252} \X S
Simd(S)    == {253} \X S
Threads(S) == {254} \X S

ControlOpcodes   == Plain((0 .. 19) \cup (26 .. 28))
VariableOpcodes  == Plain((32 .. 36) \cup (40 .. 64))
NumericOpcodes   == Plain(65 .. 196)
InterpOpcodes    == Plain(224 .. 228)
BulkOpcodes      == Math(0 .. 14)
ReferenceOpcodes == Plain({37, 38} \cup (208 .. 210)) \cup Math(15 .. 17)
SimdOpcodes      == Simd(0 .. 82)
SimdLaneOpcodes  == Simd((96 .. 99) \cup {101, 102} \cup (107 .. 115) \cup (118 .. 121)
                         \cup {123} \cup (128 .. 131) \cup (133 .. 147) \cup (149 .. 153)
                         \cup {155} \cup (160 .. 163) \cup (167 .. 174) \cup {177}
                         \cup (181 .. 185) \cup {193} \cup (203 .. 206) \cup {209, 213}
                         \cup {224, 225} \cup (227 .. 233) \cup {236, 237} \cup (239 .. 245)
                         \cup (248 .. 251))
ThreadsOpcodes   == Threads((0 .. 3) \cup (16 .. 78))

\* What FromCode makes of a prefix and a code: of any other pair, an invalid opcode.
ValidOpcodes == ControlOpcodes \cup VariableOpcodes \cup NumericOpcodes \cup InterpOpcodes
                \cup BulkOpcodes \cup ReferenceOpcodes \cup SimdOpcodes \cup SimdLaneOpcodes
                \cup ThreadsOpcodes

OpcodeElse  == <<0, 5>>
OpcodeCatch == <<0, 7>>
OpcodeEnd   == <<0, 11>>
GlobalGet   == <<0, 35>>
I32Const    == <<0, 65>>
I64Const    == <<0, 66>>
F32Const    == <<0, 67>>
F64Const    == <<0, 68>>
V128Const   == <<253, 12>>
RefNull     == <<0, 208>>
RefFunc     == <<0, 210>>
MemoryInit  == <<252, 8>>
DataDrop    == <<252, 9>>
-----------------------------------------------------------------------------
(* Features.  Those that are on unless an option disables them are the first *)
(* three; the reader looks at no other.                                      *)

DefaultFeatures == {"multi_value", "sat_float_to_int", "sign_extension"}
FeatureNames == DefaultFeatures \cup {"exceptions", "simd", "threads", "tail_call",
                                      "bulk_memory", "reference_types", "gc"}

\* What enabling a set of features enables.
UpdateDependencies(S) ==
    S \cup (IF "exceptions" \in S THEN {"reference_types"} ELSE {})
      \cup (IF S \cap {"exceptions", "reference_types"} # {} THEN {"bulk_memory"} ELSE {})

GatedBySimd ==
    Simd({0} \cup (7 .. 78) \cup (80 .. 82) \cup (96 .. 99) \cup (107 .. 115)
         \cup (128 .. 131) \cup (139 .. 147) \cup {149} \cup (160 .. 163) \cup (171 .. 174)
         \cup {177, 181, 193} \cup (203 .. 206) \cup {209, 224, 225} \cup (227 .. 233)
         \cup {236, 237} \cup (239 .. 245) \cup (248 .. 251))

GatedByThreads == ThreadsOpcodes

Gated == [exceptions       |-> Plain(6 .. 10),
          tail_call        |-> Plain({18, 19}),
          sat_float_to_int |-> Math(0 .. 7),
          sign_extension   |-> Plain(192 .. 196),
          threads          |-> GatedByThreads,
          simd             |-> GatedBySimd,
          bulk_memory      |-> Math(8 .. 14),
          reference_types  |-> Plain({37, 38, 208, 209}) \cup Math({15, 16})]

\* An opcode the list of no feature names is enabled whatever the features are:
\* 34 of the SIMD opcodes are, and table.fill and ref.func.
IsEnabled(op, features) ==
    /\ op \notin InterpOpcodes
    /\ \A f \in DOMAIN Gated \ features : op \notin Gated[f]
=============================================================================
