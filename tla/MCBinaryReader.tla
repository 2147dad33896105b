---------------------------- MODULE MCBinaryReader ----------------------------
(***************************************************************************)
(* BinaryReader on families of small files: bodies of every shape, sections  *)
(* dropped, repeated, swapped and of a wrong size, files cut short or with a *)
(* byte changed, custom sections in pairs.                                  *)
(***************************************************************************)
EXTENDS VisitedModule

Sized(s)        == <<Len(s)>> \o s
Sec(code, s)    == <<code>> \o Sized(s)
Vec(elements)   == <<Len(elements)>> \o FlattenSeq(elements)
Named(name, s)  == Sec(0, Sized(name) \o s)
Funcs(bodies)   == Sec(10, Vec([k \in DOMAIN bodies |-> Sized(bodies[k])]))

NoLocals(code)  == <<0>> \o code \o <<11>>

Types     == Sec(1, Vec(<<<<96, 0, 0>>, <<96, 1, 127, 0>>>>))
Import    == Sec(2, Vec(<<<<1, 97, 1, 98, 0, 0>>>>))
TwoFuncs  == Sec(3, Vec(<<<<0>>, <<1>>>>))
-----------------------------------------------------------------------------
(* Bodies: every sequence of at most three of these.                        *)
Tokens == {<<1>>, <<2, 64>>, <<4, 64>>, <<5>>, <<6, 64>>, <<7>>, <<11>>}
Strings(n) == {FlattenSeq(s) : s \in UNION {[1 .. k -> Tokens] : k \in 0 .. n}}

FirstBodies == {<<1, 2, 127, 1, 11>>,
                NoLocals(<<2, 64, 1>>), NoLocals(<<4, 64, 1, 5, 3, 64, 1, 11, 11>>)}

BodyFiles == {Types \o TwoFuncs \o Funcs(<<NoLocals(<<>>), NoLocals(s)>>) : s \in Strings(3)}
             \cup {Types \o TwoFuncs \o Funcs(<<b, NoLocals(s)>>) :
                       b \in FirstBodies, s \in Strings(2)}
             \cup {Types \o Import \o TwoFuncs \o Funcs(<<NoLocals(<<1>>), NoLocals(s)>>) :
                       s \in Strings(2)}

Sixteen == [k \in 1 .. 16 |-> k]

\* One instruction of each group of operands, and some that are none.
Instructions ==
    {<<28, 1, 127>>, <<28, 2, 127, 127>>, <<14, 1, 0, 0>>, <<17, 0, 0>>, <<17, 0, 1>>,
     <<19, 0, 0>>, <<32, 0>>, <<16, 0>>, <<10, 0, 0>>, <<8, 0>>, <<18, 0>>, <<40, 2, 0>>,
     <<63, 0>>, <<252, 11, 0>>, <<252, 10, 0, 0>>, <<252, 8, 0, 0>>, <<252, 9, 0>>,
     <<252, 12, 0, 0>>, <<252, 13, 0>>, <<252, 17, 0>>, <<252, 0>>, <<65, 127>>, <<66, 127>>,
     <<67, 0, 0, 0, 0>>, <<68, 0, 0, 0, 0, 0, 0, 0, 0>>, <<106>>, <<254, 0>>, <<37>>, <<2, 0>>,
     <<65, 128, 128, 128, 128, 8>>, <<65, 255, 255, 255, 255, 127>>, <<2, 70>>,
     <<2, 123>>, <<2, 111>>, <<0>>, <<70>>, <<103>>, <<167>>, <<192>>, <<9>>, <<208>>, <<209>>,
     <<210, 0>>, <<252, 15, 0>>, <<253, 0, 0, 0>>, <<253, 12>> \o Sixteen,
     <<253, 13>> \o Sixteen, <<253, 13, 0, 1>>, <<253, 21, 0>>, <<253, 7, 0, 0>>, <<253, 79>>,
     <<253, 82>>, <<253, 100>>, <<253, 128, 2>>, <<254, 0, 0, 0>>, <<254, 1, 0, 0>>,
     <<254, 3, 0>>, <<254, 3, 1>>, <<254, 16, 0, 0>>, <<254, 72, 0, 0>>, <<224, 1>>}

OneFunc(s) == Sec(3, Vec(<<<<0>>>>)) \o s \o Funcs(<<NoLocals(<<>>)>>)
InstructionFiles ==
    {Types \o Sec(3, Vec(<<<<0>>>>)) \o count \o Funcs(<<NoLocals(s)>>) :
        count \in {<<>>, Sec(12, <<0>>)}, s \in Instructions}

\* Struct and array types, and what takes one of them for that of a function.
Struct1 == Sec(1, Vec(<<<<95, 1, 127, 1>>, <<96, 0, 0>>, <<94, 111, 0>>>>))
StructFiles ==
    {Struct1 \o Sec(3, Vec(<<<<f>>>>)) \o Funcs(<<NoLocals(s)>>) :
        f \in {0, 1}, s \in {<<>>, <<2, 0, 11>>, <<2, 1, 11>>, <<17, 2, 0>>, <<17, 7, 0>>}}
    \cup {Struct1 \o Sec(13, Vec(<<<<0, e>>>>)) : e \in {0, 1}}
    \cup {Sec(1, Vec(<<t>>)) : t \in {<<95, 1, 127, 2>>, <<94, 64, 0>>, <<93, 0>>}}
-----------------------------------------------------------------------------
(* Sections.                                                                *)
Init0 == <<65, 0, 11>>

Sections == <<
    Types,
    Sec(2, Vec(<<<<1, 97, 1, 98, 0, 0>>, <<0, 0, 1, 112, 1, 1, 2>>, <<0, 0, 2, 0, 1>>,
                 <<0, 0, 3, 127, 0>>, <<0, 0, 4, 0, 0>>>>)),
    TwoFuncs,
    Sec(4, Vec(<<<<112, 0, 1>>>>)),
    Sec(5, Vec(<<<<1, 1, 2>>>>)),
    Sec(13, Vec(<<<<0, 0>>>>)),
    Sec(6, Vec(<<<<127, 0>> \o Init0, <<126, 1, 66, 0, 11>>>>)),
    Sec(7, Vec(<<<<1, 97, 0, 0>>, <<1, 98, 4, 0>>>>)),
    Sec(8, <<0>>),
    Sec(9, Vec(<<<<0>> \o Init0 \o <<1, 0>>, <<5, 112, 2, 210, 0, 11, 208, 11>>,
                 <<6, 0, 35, 0, 11, 112, 1, 210, 1, 11>>>>)),
    Sec(12, <<2>>),
    Funcs(<<<<1, 1, 127, 1, 11>>, NoLocals(<<>>)>>),
    Sec(11, Vec(<<<<0>> \o Init0 \o <<1, 7>>, <<1, 1, 7>>>>))>>

Whole == FlattenSeq(Sections)
Places == DOMAIN Sections

Resized(s, by) == [s EXCEPT ![2] = @ + by]

SectionFiles ==
    {FlattenSeq([k \in Places |-> IF k = p THEN s ELSE Sections[k]]) :
        p \in Places, s \in {<<>>}}
    \cup {FlattenSeq([Sections EXCEPT ![p] = s]) :
             <<p, s>> \in UNION {{p} \X {Sections[p] \o Sections[p], Resized(Sections[p], 1),
                                         Resized(Sections[p], -1)} : p \in Places}}
    \cup {FlattenSeq([Sections EXCEPT ![p] = Sections[p + 1], ![p + 1] = Sections[p]]) :
             p \in 1 .. Len(Sections) - 1}
    \cup {FlattenSeq([Sections EXCEPT ![10] = Sec(9, Vec(<<<<5, 112, 1, 65, 11>>>>))]),
          Whole \o Sec(14, <<>>), Whole \o <<0>>, Whole \o Named(<<122>>, <<>>)}

CutFiles == {SubSeq(Whole, 1, k) : k \in 0 .. Len(Whole)}

\* One byte of the whole module changed.
ChangedFiles == {[Whole EXCEPT ![k] = b] : k \in DOMAIN Whole, b \in {0, 127, 128}}
-----------------------------------------------------------------------------
(* Custom sections: of a module of two functions.                           *)
FunctionNames(names) == Sec(1, Vec(names))

NameSections == {
    FunctionNames(<<<<0, 1, 97>>, <<1, 1, 97>>>>) \o Sec(2, Vec(<<<<1, 1, 0, 1, 120>>>>)),
    FunctionNames(<<<<0, 1, 97>>, <<1, 0>>>>),
    FunctionNames(<<<<0, 1, 97>>, <<0, 1, 98>>>>),          \* an index twice
    FunctionNames(<<<<2, 1, 97>>>>),                        \* no such function
    FunctionNames(<<<<0, 1, 98>>, <<1, 1, 200>>>>),         \* not a name
    FunctionNames(<<<<0, 3, 97, 46, 49>>>>),                \* a.1
    <<1, 5>> \o Vec(<<<<0, 1, 97>>>>),                      \* past the section
    <<1, 2>> \o Vec(<<<<0, 1, 97>>>>),                      \* too short
    Sec(1, <<3, 0, 1, 97, 0, 0, 0>>),                       \* more names than functions
    Sec(2, Vec(<<<<0, 1, 0, 0>>>>)),                        \* a local of a function without
    Sec(2, Vec(<<<<1, 0>>, <<0, 0>>>>)),
    Sec(0, <<1, 109>>) \o Sec(1, <<>>) \o Sec(9, <<1, 2>>),
    Sec(1, <<0>>) \o Sec(0, <<0>>),                         \* out of order
    <<>> }

Symbols(s) == <<2>> \o Sec(8, s)
LinkingSections == {
    Symbols(Vec(<<<<0, 0, 0, 1, 97>>, <<0, 0, 1, 1, 97>>, <<0, 16, 0>>, <<3, 0, 0>>>>)),
    Symbols(Vec(<<<<0, 0, 2, 1, 97>>>>)),                   \* no such function
    Symbols(Vec(<<<<2, 0, 0, 1, 103>>>>)),                  \* no such global
    Symbols(Vec(<<<<4, 0, 0, 1, 103>>>>)),                  \* no such event
    Symbols(Vec(<<<<1, 0, 1, 100, 0, 0, 0>>>>)),            \* no such segment
    Symbols(Vec(<<<<1, 0, 1, 100, 0, 1, 0>>, <<1, 16, 1, 100>>>>)),
    Symbols(<<9>>),
    <<2>> \o Sec(5, Vec(<<<<1, 115, 0, 0>>>>)) \o Sec(6, Vec(<<<<0, 0>>>>))
          \o Sec(7, Vec(<<<<1, 99, 0, 1, 0, 0>>>>)) \o Sec(4, <<1>>),
    <<1>>, <<2, 5, 40>> }

CustomSections ==
    {Named(kName, s) : s \in NameSections} \cup {Named(kLinking, s) : s \in LinkingSections}
    \cup {Named(kReloc \o <<46, 67>>, s) : s \in {<<0, 2, 0, 0, 0, 3, 0, 0, 0>>, <<0, 0, 1>>, <<>>}}
    \cup {Named(kDylink, s) : s \in {<<0, 0, 0, 0, 1, 1, 97>>, <<0, 0, 0, 0, 0, 7>>}}
    \cup {Named(<<122>>, <<1, 2>>), Sec(0, <<>>)}

\* What a first section may leave behind.
Before == {Named(kName, FunctionNames(<<<<0, 1, 97>>, <<1, 1, 97>>>>)),
           Named(kName, FunctionNames(<<<<0, 3, 97, 46, 49>>>>)),
           Named(kName, FunctionNames(<<<<0, 1, 97>>, <<0, 1, 98>>>>)),
           Named(kName, <<1, 5>> \o Vec(<<<<0, 1, 97>>>>)),
           Named(kLinking, Symbols(Vec(<<<<0, 0, 0, 1, 97>>>>)))}

Plainly == Types \o TwoFuncs \o Funcs(<<NoLocals(<<>>), NoLocals(<<1>>)>>)
CustomFiles ==
    {Plainly \o s \o t : s \in Before \cup {<<>>}, t \in CustomSections}
    \cup {Types \o TwoFuncs \o s \o Funcs(<<NoLocals(<<>>), NoLocals(<<1>>)>>) :
             s \in CustomSections}
    \cup {Whole \o Named(kLinking, s) : s \in LinkingSections}
    \cup {Whole \o Named(kLinking, Symbols(Vec(<<<<2, 0, 0, 1, 103>>, <<4, 0, 0, 1, 103>>,
                                                 <<2, 0, 1, 1, 103>>>>)))}
-----------------------------------------------------------------------------
MCFiles == BodyFiles \cup InstructionFiles \cup SectionFiles \cup CutFiles \cup ChangedFiles
           \cup CustomFiles \cup StructFiles

\* wasm-cvt as it is started, with every feature and with the default ones; and
\* with --ignore-custom-section-errors.
MCStrict ==
    {[features |-> FeatureNames, read_debug_names |-> FALSE, fail_on_custom |-> TRUE],
     [features |-> DefaultFeatures, read_debug_names |-> TRUE, fail_on_custom |-> TRUE]}
MCLenient ==
    {[features |-> FeatureNames, read_debug_names |-> TRUE, fail_on_custom |-> FALSE]}

MCOptions == MCStrict \cup MCLenient
=============================================================================
