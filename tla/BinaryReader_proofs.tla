------------------------ MODULE BinaryReader_proofs ------------------------
(***************************************************************************)
(* The invariant of the binary reader, for every file and every set of       *)
(* options: where a step leaves the limits, and what is still to be done.    *)
(* From it: the type invariant, the nesting of the limits, that no module is *)
(* rejected in silence, that reading goes from section to section as         *)
(* SectionFrames says, and, with invariants of their own, that names lead    *)
(* back to what they name, that the labels match the constructs and that     *)
(* each function of an accepted module has the bytes of its own body.        *)
(***************************************************************************)
EXTENDS ReaderItems_proofs, FiniteSetTheorems, WellFoundedInduction
-----------------------------------------------------------------------------
(* What is left of a custom section, and of one inside a subsection.         *)

Ending == <<Call("EndCustomSection", 0)>>
CustomRest(end, s) == \E b : Listed(0, end, b) /\ s = b \o Ending
SubRest(e, end, s) ==
    \E a, s0 : Listed(Sub, e, a) /\ CustomRest(end, s0) /\ s = a \o (<<Leave(e)>> \o s0)

\* What is left is a sequence.
LEMMA RestIsSeq == ASSUME NEW end, NEW s, CustomRest(end, s) PROVE IsSeq(s)
<1>1. IsSeq(Ending)  BY SeqOne DEF Ending
<1> QED BY <1>1, ListedIsSeq, SeqConcat DEF CustomRest

\* Inside a subsection too.
LEMMA SubRestIsSeq == ASSUME NEW e, NEW end, NEW s, SubRest(e, end, s) PROVE IsSeq(s)
<1>1. PICK a, s0 : Listed(Sub, e, a) /\ CustomRest(end, s0) /\ s = a \o (<<Leave(e)>> \o s0)
  BY DEF SubRest
<1>2. IsSeq(a) /\ IsSeq(s0) /\ IsSeq(<<Leave(e)>>)  BY <1>1, ListedIsSeq, RestIsSeq, SeqOne
<1>3. IsSeq(<<Leave(e)>> \o s0)  BY <1>2, SeqConcat
<1> QED BY <1>1, <1>2, <1>3, SeqConcat

\* The next item of a custom section is its end or one of its items.
LEMMA RestHead ==
    ASSUME NEW end, NEW s, CustomRest(end, s)
    PROVE  /\ s # <<>>
           /\ \/ Head(s) = Call("EndCustomSection", 0) /\ Tail(s) = <<>>
              \/ Fits(0, end, Head(s)) /\ CustomRest(end, Tail(s))
<1>1. PICK b : Listed(0, end, b) /\ s = b \o Ending  BY DEF CustomRest
<1>2. IsSeq(b) /\ IsSeq(Ending)  BY <1>1, ListedIsSeq, SeqOne DEF Ending
<1>3. CASE b = <<>>
  <2>1. s = Ending  BY <1>1, <1>2, <1>3, ConcatEmptySeq DEF IsSeq
  <2>2. Ending # <<>> /\ Head(Ending) = Call("EndCustomSection", 0) /\ Tail(Ending) = <<>>
    BY DEF Ending
  <2> QED BY <2>1, <2>2, Zenon
<1>4. CASE b # <<>>
  <2>1. Head(s) = Head(b) /\ Tail(s) = Tail(b) \o Ending /\ s # <<>>
    BY <1>1, <1>2, <1>4, HeadTailConcat, Zenon
  <2>2. Fits(0, end, Head(b)) /\ Listed(0, end, Tail(b))  BY <1>1, <1>4, ListedHeadTail
  <2>3. CustomRest(end, Tail(s))  BY <2>1, <2>2, Zenon DEF CustomRest
  <2> QED BY <2>1, <2>2, <2>3, Zenon
<1> QED BY <1>3, <1>4

\* The next item inside a subsection is its end or one of its items.
LEMMA SubRestHead ==
    ASSUME NEW e, NEW end, NEW s, SubRest(e, end, s)
    PROVE  /\ s # <<>>
           /\ \/ Head(s) = Leave(e) /\ CustomRest(end, Tail(s))
              \/ Fits(Sub, e, Head(s)) /\ SubRest(e, end, Tail(s))
<1>1. PICK a, s0 : Listed(Sub, e, a) /\ CustomRest(end, s0) /\ s = a \o (<<Leave(e)>> \o s0)
  BY DEF SubRest
<1> DEFINE t == <<Leave(e)>> \o s0
<1>2. IsSeq(a) /\ IsSeq(s0) /\ IsSeq(t)
  BY <1>1, ListedIsSeq, RestIsSeq, SeqOne, SeqConcat
<1>3. Head(t) = Leave(e) /\ Tail(t) = s0 /\ t # <<>>
  BY <1>2, HeadTailCons, Zenon
<1>4. s = a \o t  BY <1>1
<1>5. Listed(Sub, e, a) /\ CustomRest(end, s0)  BY <1>1
<1>6. \A a2 : Listed(Sub, e, a2) => SubRest(e, end, a2 \o t)  BY <1>5, Zenon DEF SubRest
<1> HIDE DEF t
<1>7. CASE a = <<>>
  <2>1. s = t  BY <1>2, <1>4, <1>7, ConcatEmptySeq DEF IsSeq
  <2> QED BY <1>3, <1>5, <2>1, Zenon
<1>8. CASE a # <<>>
  <2>1. Head(s) = Head(a) /\ Tail(s) = Tail(a) \o t /\ s # <<>>
    BY <1>2, <1>4, <1>8, HeadTailConcat, Zenon
  <2>2. Fits(Sub, e, Head(a)) /\ Listed(Sub, e, Tail(a))  BY <1>5, <1>8, ListedHeadTail
  <2> QED BY <1>6, <2>1, <2>2, Zenon
<1> QED BY <1>7, <1>8

\* Items put before what is left of a custom section.
LEMMA RestMore ==
    ASSUME NEW end, NEW s, NEW t, Listed(0, end, t), CustomRest(end, s)
    PROVE  CustomRest(end, t \o s)
<1>1. PICK b : Listed(0, end, b) /\ s = b \o Ending  BY DEF CustomRest
<1>2. IsSeq(b) /\ IsSeq(t) /\ IsSeq(Ending)  BY <1>1, ListedIsSeq, SeqOne DEF Ending
<1>3. Cat(Cat(t, b), Ending) = Cat(t, Cat(b, Ending))  BY <1>2, CatAssoc
<1>4. t \o s = Cat(t, Cat(b, Ending))  BY <1>1 DEF Cat
<1>5. t \o s = Cat(t, b) \o Ending  BY <1>3, <1>4, Zenon DEF Cat
<1>6. Listed(0, end, Cat(t, b))  BY <1>1, ListedConcat DEF Cat
<1> QED BY <1>5, <1>6, Zenon DEF CustomRest

\* Items put before what is left inside a subsection.
LEMMA SubRestMore ==
    ASSUME NEW e, NEW end, NEW s, NEW t, Listed(Sub, e, t), SubRest(e, end, s)
    PROVE  SubRest(e, end, t \o s)
<1>1. PICK a, s0 : Listed(Sub, e, a) /\ CustomRest(end, s0) /\ s = a \o (<<Leave(e)>> \o s0)
  BY DEF SubRest
<1> DEFINE u == <<Leave(e)>> \o s0
<1>2. IsSeq(a) /\ IsSeq(t) /\ IsSeq(u)
  BY <1>1, ListedIsSeq, RestIsSeq, SeqOne, SeqConcat
<1>3. s = a \o u /\ CustomRest(end, s0)  BY <1>1
<1>4. \A a2 : Listed(Sub, e, a2) => SubRest(e, end, a2 \o u)  BY <1>3, Zenon DEF SubRest
<1> HIDE DEF u
<1>5. Cat(Cat(t, a), u) = Cat(t, Cat(a, u))  BY <1>2, CatAssoc
<1>6. t \o s = Cat(t, Cat(a, u))  BY <1>3 DEF Cat
<1>7. t \o s = Cat(t, a) \o u  BY <1>5, <1>6, Zenon DEF Cat
<1>8. Listed(Sub, e, Cat(t, a))  BY <1>1, ListedConcat DEF Cat
<1> QED BY <1>4, <1>7, <1>8, Zenon

\* What is left when a subsection is to be entered, up to e.
EnterRest(e, end, s) == \E u : SubRest(e, end, u) /\ s = <<Enter(e)>> \o u

\* A subsection put before what is left of its section.
LEMMA RestEnter ==
    ASSUME NEW e, NEW end, NEW s, NEW t, Entered(end, e, t), CustomRest(end, s)
    PROVE  EnterRest(e, end, Cat(t, s))
<1>1. PICK a, b : /\ Listed(Sub, e, a) /\ Listed(0, end, b)
                  /\ t = <<Enter(e)>> \o (a \o (<<Leave(e)>> \o b))
  BY DEF Entered
<1>2. /\ IsSeq(a) /\ IsSeq(b) /\ IsSeq(s) /\ IsSeq(<<Enter(e)>>) /\ IsSeq(<<Leave(e)>>)
  BY <1>1, ListedIsSeq, RestIsSeq, SeqOne
<1> DEFINE p == <<Enter(e)>>
           q == <<Leave(e)>>
<1>3. Cat(t, s) = Cat(Cat(p, Cat(a, Cat(q, b))), s)  BY <1>1 DEF Cat
<1>4. CustomRest(end, Cat(b, s))  BY <1>1, RestMore DEF Cat
<1>5. SubRest(e, end, Cat(a, Cat(q, Cat(b, s))))
  <2>1. Cat(a, Cat(q, Cat(b, s))) = a \o (<<Leave(e)>> \o Cat(b, s))
    BY Zenon DEF Cat
  <2> QED BY <1>1, <1>4, <2>1, Zenon DEF SubRest
<1>6. IsSeq(p) /\ IsSeq(q)  BY <1>2
<1>6a. \A u : Cat(p, u) = <<Enter(e)>> \o u  BY Zenon DEF Cat
<1> HIDE DEF p, q
<1>7. Cat(Cat(p, Cat(a, Cat(q, b))), s) = Cat(p, Cat(a, Cat(q, Cat(b, s))))
  <2>1. IsSeq(Cat(q, b)) /\ IsSeq(Cat(a, Cat(q, b)))
    BY <1>2, <1>6, SeqConcat, Zenon DEF Cat
  <2>2. Cat(Cat(q, b), s) = Cat(q, Cat(b, s))  BY <1>2, <1>6, CatAssoc
  <2>3. Cat(Cat(a, Cat(q, b)), s) = Cat(a, Cat(Cat(q, b), s))  BY <1>2, <2>1, CatAssoc
  <2>4. Cat(Cat(p, Cat(a, Cat(q, b))), s) = Cat(p, Cat(Cat(a, Cat(q, b)), s))
    BY <1>2, <1>6, <2>1, CatAssoc
  <2> QED BY <2>2, <2>3, <2>4, Zenon
<1> QED BY <1>3, <1>5, <1>6a, <1>7, Zenon DEF EnterRest

\* A failure put before anything, and the item it starts with.
LEMMA FailingMore ==
    ASSUME NEW s, NEW t, Failing(s), IsSeq(t)
    PROVE  Failing(s \o t)
<1>1. PICK u : IsSeq(u) /\ s = <<Fail>> \o u  BY DEF Failing
<1>2. IsSeq(<<Fail>>)  BY SeqOne
<1>3. (<<Fail>> \o u) \o t = <<Fail>> \o (u \o t)  BY <1>1, <1>2, SeqAssoc
<1> QED BY <1>1, <1>3, SeqConcat, Zenon DEF Failing

\* A handler that has failed has the error for its next item.
LEMMA FailingHead ==
    ASSUME NEW s, Failing(s)
    PROVE  s # <<>> /\ Head(s) = Fail /\ IsSeq(s)
  BY HeadTailCons, Zenon DEF Failing
-----------------------------------------------------------------------------
(* The invariant.                                                           *)

Counters == [func : Nat, table : Nat, memory : Nat, global : Nat, event : Nat, sigs : Nat,
             bodies : Nat]

\* Between sections, and in a section of entries or bodies.
Between == /\ section = NONE /\ guards = <<>> /\ read_end = size /\ offset <= size
           /\ todo = <<>> /\ ~reading_custom
InLimits == offset <= read_end /\ read_end <= size
InEntries == /\ section \in 1 .. 13 /\ guards = <<size>> /\ InLimits
             /\ ~reading_custom /\ Listed(section, read_end, todo)

\* In a custom section: at its name or its end; in its contents; in a subsection.
AtName == /\ section = Custom /\ guards = <<size>> /\ InLimits /\ ~reading_custom
          /\ \/ todo = <<>> \/ todo = <<FirstRead(0)>>
             \/ \E s : CustomRest(read_end, s) /\ todo = <<Call("BeginCustomSection", 0)>> \o s
Entering(at, end, s) ==
    \E e \in Nat : at <= e /\ e <= end /\ EnterRest(e, end, s)
InCustom == /\ section = Custom /\ guards = <<size>> /\ InLimits /\ reading_custom
            /\ \/ CustomRest(read_end, todo) \/ Entering(offset, read_end, todo)
               \/ Failing(todo)
InSubsection ==
    /\ section = Custom /\ reading_custom /\ offset <= read_end
    /\ \E g \in Nat : /\ guards = <<size, g>> /\ read_end <= g /\ g <= size
                      /\ SubRest(read_end, g, todo)

Place == Between \/ InEntries \/ AtName \/ InCustom \/ InSubsection

ValuesOK ==
    /\ data \in Bytes /\ offset \in Nat /\ read_end \in Nat /\ num \in Counters
    /\ seen \subseteq 1 .. 13 /\ reported \subseteq {"Error", "Warning"}
    /\ result \in {"Ok", "Error"} /\ section_result \in {"Ok", "Error"}
    /\ state \in {"reading", "returned", "undefined"}

\* An error that will make the module rejected has been reported.
ErrorsReported ==
    /\ result = "Error" => "Error" \in reported
    /\ (section # NONE /\ section_result = "Error" /\ ~IgnoreErrors) => "Error" \in reported

ReaderInv == ValuesOK /\ Place /\ ErrorsReported
-----------------------------------------------------------------------------
(* What the next item can be, in each place.                                 *)

Controls == {"call", "loop", "enter", "leave", "skip", "report", "error"}

\* An item that fits is a primitive or one of the controls, and it neither enters nor
\* leaves a subsection.
LEMMA FitsKinds ==
    ASSUME NEW c, NEW end, NEW i, Fits(c, end, i)
    PROVE  /\ i.r \in Primitives \cup Controls /\ i.r # "enter" /\ i.r # "leave"
           /\ i.r \notin Controls => i.r \in Primitives
           /\ i.r = "skip" => c \in {0, Sub} /\ i.x = end
           /\ i.r = "call" => Calls(c, i.d)
<1>1. /\ "call" \notin Primitives /\ "loop" \notin Primitives /\ "enter" \notin Primitives
      /\ "leave" \notin Primitives /\ "skip" \notin Primitives /\ "report" \notin Primitives
      /\ "error" \notin Primitives
  BY DEF Primitives
<1> QED BY <1>1, Zenon DEF Fits, Controls

\* In a section of entries the next item is one of that section, never a skip.
LEMMA EntriesItem ==
    ASSUME InEntries, todo # <<>>
    PROVE  /\ Fits(section, read_end, item) /\ Listed(section, read_end, Tail(todo))
           /\ item.r # "skip"
<1>1. Fits(section, read_end, item) /\ Listed(section, read_end, Tail(todo))
  BY ListedHeadTail DEF InEntries, item
<1>2. section \notin {0, Sub}  BY DEF InEntries, Sub
<1> QED BY <1>1, <1>2, FitsKinds

\* At the name of a custom section comes the name, then BeginCustomSection.
LEMMA NameItem ==
    ASSUME AtName, todo # <<>>
    PROVE  \/ item = FirstRead(0) /\ Tail(todo) = <<>>
           \/ item = Call("BeginCustomSection", 0) /\ CustomRest(read_end, Tail(todo))
<1>1. CASE todo = <<FirstRead(0)>>
  BY <1>1 DEF item
<1>2. CASE \E s : CustomRest(read_end, s) /\ todo = <<Call("BeginCustomSection", 0)>> \o s
  <2>1. PICK s : CustomRest(read_end, s) /\ todo = <<Call("BeginCustomSection", 0)>> \o s
    BY <1>2
  <2>2. IsSeq(s)  BY <2>1, RestIsSeq
  <2>3. Head(todo) = Call("BeginCustomSection", 0) /\ Tail(todo) = s
    BY <2>1, <2>2, HeadTailCons, Zenon
  <2> QED BY <2>1, <2>3, Zenon DEF item
<1> QED BY <1>1, <1>2 DEF AtName

EndItem == item = Call("EndCustomSection", 0) /\ Tail(todo) = <<>>
EnterItem == \E e \in Nat : /\ offset <= e /\ e <= read_end
                            /\ item = Enter(e) /\ SubRest(e, read_end, Tail(todo))

\* In a custom section comes an item of it, its end, a subsection, or an error.
LEMMA CustomItem ==
    ASSUME InCustom
    PROVE  /\ todo # <<>>
           /\ \/ EndItem
              \/ Fits(0, read_end, item) /\ CustomRest(read_end, Tail(todo))
              \/ EnterItem
              \/ item = Fail
<1>1. CASE CustomRest(read_end, todo)
  BY <1>1, RestHead, Zenon DEF EndItem, item
<1>2. CASE Entering(offset, read_end, todo)
  <2>1. PICK e \in Nat : offset <= e /\ e <= read_end /\ EnterRest(e, read_end, todo)
    BY <1>2 DEF Entering
  <2>2. PICK s : SubRest(e, read_end, s) /\ todo = <<Enter(e)>> \o s  BY <2>1 DEF EnterRest
  <2>3. IsSeq(s)  BY <2>2, SubRestIsSeq
  <2>4. Head(todo) = Enter(e) /\ Tail(todo) = s /\ todo # <<>>
    BY <2>2, <2>3, HeadTailCons, Zenon
  <2>5. EnterItem  BY <2>1, <2>2, <2>4, Zenon DEF EnterItem, item
  <2> QED BY <2>4, <2>5
<1>3. CASE Failing(todo)
  BY <1>3, FailingHead, Zenon DEF item
<1> QED BY <1>1, <1>2, <1>3 DEF InCustom
-----------------------------------------------------------------------------
(* Reads.                                                                   *)

\* The limit in force lies in the file, wherever the reader is.
LEMMA LimitInFile ==
    ASSUME ValuesOK, Place
    PROVE  offset <= read_end /\ read_end <= Len(data) /\ Len(data) \in Nat
<1>1. Len(data) \in Nat  BY DEF ValuesOK, Bytes
<1> QED BY <1>1 DEF ValuesOK, Place, Between, InEntries, AtName, InCustom, InSubsection,
                    InLimits, size

\* What a read that succeeds yields, and where it ends.
LEMMA GotFacts ==
    ASSUME ValuesOK, Place, item.r \in Primitives, Got.n > 0
    PROVE  /\ offset + Got.n \in Nat /\ offset + Got.n <= read_end
           /\ offset <= offset + Got.n /\ Yields(item, Got.v)
<1>1. Got.n = ReadAs(item.r, data, offset, read_end).n
      /\ Got.v = ReadAs(item.r, data, offset, read_end).v
  BY DEF Got
<1>2. read_end <= Len(data)  BY LimitInFile
<1>3. data \in Bytes /\ offset \in Nat /\ read_end \in Nat  BY DEF ValuesOK
<1>4. ReadAs(item.r, data, offset, read_end).n > 0  BY <1>1
<1>5. /\ ReadAs(item.r, data, offset, read_end).n \in Nat
      /\ offset + ReadAs(item.r, data, offset, read_end).n <= read_end
      /\ item.r \in NatPrimitives => ReadAs(item.r, data, offset, read_end).v \in Nat
      /\ item.r \in SeqPrimitives => ReadAs(item.r, data, offset, read_end).v \in Bytes
  BY <1>2, <1>3, <1>4, ReadAsFacts
<1> QED BY <1>1, <1>3, <1>5 DEF Yields

\* Only the two counts of the function and code sections change what is counted, and
\* both are read as counts.
LEMMA CountsFacts ==
    ASSUME NEW c, NEW end, NEW i, NEW v, Fits(c, end, i), i.r \in Primitives, Yields(i, v),
           num \in Counters
    PROVE  Counts(i, v) \in Counters
<1>1. CASE i.d = "function signature count" \/ i.d = "function body count"
  <2>1. i.d # "any"  BY <1>1
  <2>2. Reads(c, i.r, i.d)  BY <2>1, ReadFits
  <2>3. i.r = "Count"
    BY <1>1, <2>2
    DEF Reads, CustomReads, SubReads, TypeReads, ImportReads, FunctionReads,
        TableSectionReads, MemorySectionReads, GlobalSectionReads, ExportReads, StartReads,
        ElemReads, CodeReads, InnerReads, DataReads, DataCountReads, EventSectionReads, TableReads,
        MemoryReads, GlobalReads, EventReads, InitReads
  <2>4. v \in Nat  BY <2>3 DEF Yields, NatPrimitives
  <2>5. [num EXCEPT !.sigs = v] \in Counters /\ [num EXCEPT !.bodies = v] \in Counters
    BY <2>4 DEF Counters
  <2> QED BY <1>1, <2>5, Zenon DEF Counts
<1>2. CASE i.d # "function signature count" /\ i.d # "function body count"
  BY <1>2, Zenon DEF Counts
<1> QED BY <1>1, <1>2

\* In a custom section what follows from a read is ReadCustomSection's to say.
LEMMA ThenCustom ==
    ASSUME section = Custom, NEW i, NEW v, NEW at, i.d # "any"
    PROVE  Then(i, v, at) = ReadCustomSection(i, v, at)
<1>1. /\ section = 0 /\ section # 1 /\ section # 2 /\ section # 3 /\ section # 4
      /\ section # 5 /\ section # 6 /\ section # 7 /\ section # 8 /\ section # 9
      /\ section # 10 /\ section # 11 /\ section # 12 /\ section # 13
  BY DEF Custom
<1> QED BY <1>1, Zenon DEF Then

\* What is left once an item has been read, in each place.
LEMMA ReadEntries ==
    ASSUME ValuesOK, InEntries, todo # <<>>, item.r \in Primitives, NEW v, NEW at \in Nat,
           Yields(item, v)
    PROVE  Listed(section, read_end, Then(item, v, at) \o Tail(todo))
<1>1. section \in 1 .. 13 /\ num.func \in Nat  BY DEF InEntries, ValuesOK, Counters
<1>2. Fits(section, read_end, item) /\ Listed(section, read_end, Tail(todo))
  BY EntriesItem
<1>3. Listed(section, read_end, Then(item, v, at))  BY <1>1, <1>2, ListedThen
<1> QED BY <1>2, <1>3, ListedConcat

\* The first read of a custom section is its name.
LEMMA NameIsFirst == FirstRead(0) = R("Str", "section name", 0)
<1>1. /\ 0 # 1 /\ 0 # 2 /\ 0 # 3 /\ 0 # 4 /\ 0 # 5 /\ 0 # 6 /\ 0 # 7 /\ 0 # 8 /\ 0 # 9
      /\ 0 # 10 /\ 0 # 11 /\ 0 # 12 /\ 0 # 13
  OBVIOUS
<1> QED BY <1>1, Zenon DEF FirstRead

\* Once the name is read, a custom section is left to be begun and ended.
LEMMA ReadName ==
    ASSUME AtName, todo # <<>>, item.r \in Primitives, NEW v, NEW at
    PROVE  \E s : /\ CustomRest(read_end, s)
                  /\ Then(item, v, at) \o Tail(todo) = <<Call("BeginCustomSection", 0)>> \o s
<1>1. item = FirstRead(0) /\ Tail(todo) = <<>>
  <2>1. Call("BeginCustomSection", 0).r \notin Primitives  BY DEF Call, R, Primitives
  <2> QED BY <2>1, NameItem, Zenon
<1>2. FirstRead(0) = R("Str", "section name", 0)  BY NameIsFirst
<1>3. item.d = "section name" /\ item.d # "any"
  <2>1. R("Str", "section name", 0).d = "section name"  BY DEF R
  <2> QED BY <1>1, <1>2, <2>1, Zenon
<1>4. Then(item, v, at) = ReadCustomSection(item, v, at)  BY <1>3, ThenCustom DEF AtName
<1>5. PICK b : /\ Listed(0, read_end, b)
               /\ ReadCustomSection(item, v, at) =
                      <<Call("BeginCustomSection", 0)>> \o b \o <<Call("EndCustomSection", 0)>>
  BY <1>3, CustomItems
<1> DEFINE p == <<Call("BeginCustomSection", 0)>>
<1>6. IsSeq(p) /\ IsSeq(Ending) /\ IsSeq(b)
  BY <1>5, SeqOne, ListedIsSeq DEF Ending
<1>7. ReadCustomSection(item, v, at) = Cat(Cat(p, b), Ending)
  BY <1>5, Zenon DEF Cat, Ending
<1>8. Cat(Cat(p, b), Ending) = Cat(p, Cat(b, Ending))  BY <1>6, CatAssoc
<1>9. IsSeq(Cat(p, Cat(b, Ending)))  BY <1>6, SeqConcat, Zenon DEF Cat
<1>10. Then(item, v, at) \o Tail(todo) = Cat(p, Cat(b, Ending))
  <2>1. Then(item, v, at) = Cat(p, Cat(b, Ending))  BY <1>4, <1>7, <1>8, Zenon
  <2> QED BY <1>1, <1>9, <2>1, ConcatEmptySeq DEF IsSeq
<1>11. CustomRest(read_end, Cat(b, Ending))  BY <1>5, Zenon DEF CustomRest, Cat
<1>12. Cat(p, Cat(b, Ending)) = <<Call("BeginCustomSection", 0)>> \o Cat(b, Ending)
  BY Zenon DEF Cat
<1> QED BY <1>10, <1>11, <1>12, Zenon

\* What a read puts in place in a custom section is again what one may hold, a
\* subsection to enter, or an error.
LEMMA ReadCustom ==
    ASSUME section = Custom, read_end \in Nat, Fits(0, read_end, item),
           CustomRest(read_end, Tail(todo)),
           item.r \in Primitives, NEW v, NEW at \in Nat, Yields(item, v)
    PROVE  LET s == Then(item, v, at) \o Tail(todo)
           IN  \/ CustomRest(read_end, s)
               \/ Entering(at, read_end, s)
               \/ Failing(s)
<1> DEFINE s == Then(item, v, at) \o Tail(todo)
<1>0. CustomRest(read_end, Tail(todo))  OBVIOUS
<1>1. IsSeq(Tail(todo))  BY RestIsSeq
<1>2. CASE item.d = "any"
  <2>1. Listed(0, read_end, Then(item, v, at))  BY <1>2, ListedNone, Zenon DEF Then
  <2> QED BY <2>1, RestMore
<1>3. CASE item.d # "any"
  <2>1. ReadOf(0, read_end, item, v)  BY <1>3 DEF ReadOf
  <2>2. CustomNext(at, Then(item, v, at))  BY <1>3, <2>1, CustomReadItems, ThenCustom
  <2>3. CASE Listed(0, read_end, Then(item, v, at))
    BY <2>3, RestMore
  <2>4. CASE \E e \in Nat : /\ at <= e /\ e <= read_end
                            /\ Entered(read_end, e, Then(item, v, at))
    <3>1. PICK e \in Nat : /\ at <= e /\ e <= read_end
                           /\ Entered(read_end, e, Then(item, v, at))
      BY <2>4
    <3>2. EnterRest(e, read_end, s)
      <4>1. EnterRest(e, read_end, Cat(Then(item, v, at), Tail(todo)))
        BY <1>0, <3>1, RestEnter
      <4> QED BY <4>1 DEF Cat
    <3>3. Entering(at, read_end, s)  BY <3>1, <3>2, Zenon DEF Entering
    <3> QED BY <3>3
  <2>5. CASE Failing(Then(item, v, at))
    BY <1>1, <2>5, FailingMore
  <2> QED BY <2>2, <2>3, <2>4, <2>5, Zenon DEF CustomNext
<1> QED BY <1>2, <1>3

\* What a read puts in place in a subsection is again what one may hold.
LEMMA ReadSubsection ==
    ASSUME section = Custom, NEW e, NEW g, Fits(Sub, e, item),
           SubRest(e, g, Tail(todo)),
           item.r \in Primitives, NEW v, NEW at \in Nat, Yields(item, v)
    PROVE  SubRest(e, g, Then(item, v, at) \o Tail(todo))
<1>1. CASE item.d = "any"
  <2>1. Listed(Sub, e, Then(item, v, at))  BY <1>1, ListedNone, Zenon DEF Then
  <2> QED BY <2>1, SubRestMore
<1>2. CASE item.d # "any"
  <2>1. ReadOf(Sub, e, item, v)  BY <1>2 DEF ReadOf
  <2>2. Listed(Sub, e, Then(item, v, at))  BY <1>2, <2>1, ListedSub, ThenCustom
  <2> QED BY <2>2, SubRestMore
<1> QED BY <1>1, <1>2
-----------------------------------------------------------------------------
(* The steps.                                                               *)

\* The end of the section, the limits of a subsection and a failure are not reads.
LEMMA NoRead ==
    ASSUME item.r \notin Controls
    PROVE  /\ ~EndItem /\ ~EnterItem /\ item # Fail
           /\ \A e : item # Leave(e)
<1>1. /\ Call("EndCustomSection", 0).r = "call" /\ Fail.r = "error"
      /\ \A e : Leave(e).r = "leave"
      /\ \A e : Enter(e).r = "enter"
  BY DEF Call, R, Fail, Leave, Enter
<1>2. "call" \in Controls /\ "error" \in Controls /\ "leave" \in Controls
      /\ "enter" \in Controls
  BY DEF Controls
<1> QED BY <1>1, <1>2, Zenon DEF EndItem, EnterItem

\* Inside a section there is nothing to report yet that was not reported, unless a
\* step says otherwise.
LEMMA ErrorsKept ==
    ASSUME ErrorsReported, reported \subseteq reported', result' = result,
           section' = section, section_result' = section_result, opt' = opt
    PROVE  ErrorsReported'
  BY DEF ErrorsReported, IgnoreErrors

\* A read stays before the limit and leaves what its section may hold.
LEMMA ReadStep == ASSUME ReaderInv, ReadItem PROVE ReaderInv'
<1>1. ValuesOK /\ Place /\ ErrorsReported  BY DEF ReaderInv
<1>2. todo # <<>> /\ item.r \notin Controls /\ Got.n > 0
  BY DEF ReadItem, Active, IsRead, Controls
<1> DEFINE at == offset + Got.n
<1>3. /\ offset' = at /\ todo' = Then(item, Got.v, at) \o Tail(todo)
      /\ num' = Counts(item, Got.v)
      /\ UNCHANGED <<data, opt, read_end, guards, reading_custom, section, section_result,
                     seen, result, state, reported>>
  BY DEF ReadItem
<1>4. ErrorsReported'  BY <1>1, <1>3, ErrorsKept
<1>5. ASSUME item.r \in Primitives
      PROVE  /\ at \in Nat /\ offset <= at /\ at <= read_end /\ Yields(item, Got.v)
             /\ num' \in Counters => ValuesOK'
  <2>1. at \in Nat /\ offset <= at /\ at <= read_end /\ Yields(item, Got.v)
    BY <1>1, <1>2, <1>5, GotFacts
  <2> QED BY <1>1, <1>3, <2>1 DEF ValuesOK
<1>6. num \in Counters /\ read_end \in Nat  BY <1>1 DEF ValuesOK
<1> HIDE DEF at
<1>7. CASE InEntries
  <2>1. Fits(section, read_end, item)  BY <1>2, <1>7, EntriesItem
  <2>2. item.r \in Primitives  BY <1>2, <2>1, FitsKinds
  <2>3. num' \in Counters  BY <1>3, <1>5, <1>6, <2>1, <2>2, CountsFacts
  <2>4. Listed(section, read_end, todo')
    BY <1>1, <1>2, <1>3, <1>5, <1>7, <2>2, ReadEntries
  <2>5. InEntries'
    BY <1>3, <1>5, <1>7, <2>2, <2>4 DEF InEntries, InLimits, size
  <2> QED BY <1>4, <1>5, <2>2, <2>3, <2>5 DEF ReaderInv, Place
<1>8. CASE AtName
  <2>1. item = FirstRead(0)
    <3>1. Call("BeginCustomSection", 0).r = "call"  BY DEF Call, R
    <3>2. "call" \in Controls  BY DEF Controls
    <3> QED BY <1>2, <1>8, <3>1, <3>2, NameItem, Zenon
  <2>2. FirstRead(0) = R("Str", "section name", 0)  BY NameIsFirst
  <2>3. item.r \in Primitives /\ item.d = "section name"
    <3>1. /\ R("Str", "section name", 0).r = "Str"
          /\ R("Str", "section name", 0).d = "section name"
      BY DEF R
    <3>2. "Str" \in Primitives  BY DEF Primitives
    <3> QED BY <2>1, <2>2, <3>1, <3>2, Zenon
  <2>4. num' = num  BY <1>3, <2>3, Zenon DEF Counts
  <2>5. \E s : CustomRest(read_end, s) /\ todo' = <<Call("BeginCustomSection", 0)>> \o s
    BY <1>2, <1>3, <1>8, <2>3, ReadName
  <2>6. AtName'
    BY <1>3, <1>5, <1>8, <2>3, <2>5 DEF AtName, InLimits, size
  <2> QED BY <1>4, <1>5, <1>6, <2>3, <2>4, <2>6 DEF ReaderInv, Place
<1>9. CASE InCustom
  <2>1. Fits(0, read_end, item) /\ CustomRest(read_end, Tail(todo))
    BY <1>2, <1>9, CustomItem, NoRead, Zenon
  <2>2. item.r \in Primitives  BY <1>2, <2>1, FitsKinds
  <2>3. num' \in Counters  BY <1>3, <1>5, <1>6, <2>1, <2>2, CountsFacts
  <2>4. section = Custom  BY <1>9 DEF InCustom
  <2>5. \/ CustomRest(read_end, todo') \/ Entering(at, read_end, todo') \/ Failing(todo')
    BY <1>3, <1>5, <1>6, <2>1, <2>2, <2>4, ReadCustom
  <2>6. InCustom'
    BY <1>3, <1>5, <1>9, <2>2, <2>5 DEF InCustom, InLimits, size
  <2> QED BY <1>4, <1>5, <2>2, <2>3, <2>6 DEF ReaderInv, Place
<1>10. CASE InSubsection
  <2>1. PICK g \in Nat : /\ guards = <<size, g>> /\ read_end <= g /\ g <= size
                         /\ SubRest(read_end, g, todo)
    BY <1>10 DEF InSubsection
  <2>2. Fits(Sub, read_end, item) /\ SubRest(read_end, g, Tail(todo))
    BY <1>2, <2>1, SubRestHead, NoRead, Zenon DEF item
  <2>3. item.r \in Primitives  BY <1>2, <2>2, FitsKinds
  <2>4. num' \in Counters  BY <1>3, <1>5, <1>6, <2>2, <2>3, CountsFacts
  <2>5. section = Custom  BY <1>10 DEF InSubsection
  <2>6. SubRest(read_end, g, todo')
    BY <1>3, <1>5, <2>2, <2>3, <2>5, ReadSubsection
  <2>7. InSubsection'
    BY <1>3, <1>5, <1>10, <2>1, <2>3, <2>6 DEF InSubsection, size
  <2> QED BY <1>4, <1>5, <2>3, <2>4, <2>7 DEF ReaderInv, Place
<1> QED BY <1>1, <1>2, <1>7, <1>8, <1>9, <1>10 DEF Place, Between


\* What an item can be, place by place.
ItemOfEntries == /\ InEntries /\ Fits(section, read_end, item)
                 /\ Listed(section, read_end, Tail(todo))
ItemOfName    == AtName /\ item = R("Str", "section name", 0)
ItemOfBegin   == /\ AtName /\ item = Call("BeginCustomSection", 0)
                 /\ CustomRest(read_end, Tail(todo))
ItemOfEnd     == InCustom /\ EndItem
ItemOfCustom  == /\ InCustom /\ Fits(0, read_end, item)
                 /\ CustomRest(read_end, Tail(todo))
ItemOfEnter   == InCustom /\ EnterItem
ItemOfFailure == InCustom /\ item = Fail
ItemOfLeave   == /\ InSubsection /\ item = Leave(read_end)
                 /\ \E g \in Nat : /\ guards = <<size, g>> /\ read_end <= g /\ g <= size
                                   /\ CustomRest(g, Tail(todo))
ItemInside    == /\ InSubsection /\ Fits(Sub, read_end, item)
                 /\ \E g \in Nat : /\ guards = <<size, g>> /\ read_end <= g /\ g <= size
                                   /\ SubRest(read_end, g, Tail(todo))

\* Where the reader is decides what its next item can be.
LEMMA ItemCases ==
    ASSUME Place, todo # <<>>
    PROVE  \/ ItemOfEntries \/ ItemOfName \/ ItemOfBegin \/ ItemOfEnd \/ ItemOfCustom
           \/ ItemOfEnter \/ ItemOfFailure \/ ItemOfLeave \/ ItemInside
<1>1. CASE InEntries
  BY <1>1, EntriesItem DEF ItemOfEntries
<1>2. CASE AtName
  BY <1>2, NameItem, NameIsFirst, Zenon DEF ItemOfName, ItemOfBegin
<1>3. CASE InCustom
  BY <1>3, CustomItem, Zenon DEF ItemOfEnd, ItemOfCustom, ItemOfEnter, ItemOfFailure
<1>4. CASE InSubsection
  <2>1. PICK g \in Nat : /\ guards = <<size, g>> /\ read_end <= g /\ g <= size
                         /\ SubRest(read_end, g, todo)
    BY <1>4 DEF InSubsection
  <2>2. \/ item = Leave(read_end) /\ CustomRest(g, Tail(todo))
        \/ Fits(Sub, read_end, item) /\ SubRest(read_end, g, Tail(todo))
    BY <2>1, SubRestHead, Zenon DEF item
  <2> QED BY <1>4, <2>1, <2>2, Zenon DEF ItemOfLeave, ItemInside
<1> QED BY <1>1, <1>2, <1>3, <1>4 DEF Place, Between

\* The primitive or control of the items of one shape.
LEMMA ItemKinds ==
    /\ ItemOfEntries => item.r # "enter" /\ item.r # "leave" /\ item.r # "skip"
    /\ ItemOfCustom  => item.r # "enter" /\ item.r # "leave"
    /\ ItemInside    => item.r # "enter" /\ item.r # "leave"
    /\ ItemOfName    => item.r = "Str"
    /\ ItemOfBegin   => item.r = "call" /\ item.d = "BeginCustomSection"
    /\ ItemOfEnd     => item.r = "call" /\ item.d = "EndCustomSection" /\ Tail(todo) = <<>>
    /\ ItemOfEnter   => item.r = "enter"
    /\ ItemOfFailure => item.r = "error"
    /\ ItemOfLeave   => item.r = "leave"
<1>1. /\ R("Str", "section name", 0).r = "Str" /\ Fail.r = "error"
      /\ Call("BeginCustomSection", 0).r = "call"
      /\ Call("BeginCustomSection", 0).d = "BeginCustomSection"
      /\ Call("EndCustomSection", 0).r = "call"
      /\ Call("EndCustomSection", 0).d = "EndCustomSection"
      /\ \A e : Leave(e).r = "leave"
      /\ \A e : Enter(e).r = "enter"
  BY DEF Call, R, Fail, Leave, Enter
<1>2. ItemOfEntries => item.r # "skip"
  <2>1. section \in 1 .. 13 => section \notin {0, Sub}  BY DEF Sub
  <2> QED BY <2>1, FitsKinds DEF ItemOfEntries, InEntries
<1>3. /\ ItemOfEntries => item.r # "enter" /\ item.r # "leave"
      /\ ItemOfCustom => item.r # "enter" /\ item.r # "leave"
      /\ ItemInside => item.r # "enter" /\ item.r # "leave"
  BY FitsKinds DEF ItemOfEntries, ItemOfCustom, ItemInside
<1>4. /\ ItemOfName => item.r = "Str"
      /\ ItemOfBegin => item.r = "call" /\ item.d = "BeginCustomSection"
      /\ ItemOfEnd => item.r = "call" /\ item.d = "EndCustomSection" /\ Tail(todo) = <<>>
      /\ ItemOfEnter => item.r = "enter"
      /\ ItemOfFailure => item.r = "error"
      /\ ItemOfLeave => item.r = "leave"
  BY <1>1, Zenon DEF ItemOfName, ItemOfBegin, ItemOfEnd, EndItem, ItemOfEnter, EnterItem,
                     ItemOfFailure, ItemOfLeave
<1> QED BY <1>2, <1>3, <1>4

\* Only the two callbacks around the contents of a custom section change
\* reading_custom_section_, and no item that fits is one of them.
LEMMA CustomAfterFacts ==
    /\ CustomAfter("BeginCustomSection") /\ ~CustomAfter("EndCustomSection")
    /\ \A c, f : Calls(c, f) => CustomAfter(f) = reading_custom
<1>1. "BeginCustomSection" # "EndCustomSection"  OBVIOUS
<1>2. CustomAfter("BeginCustomSection") /\ ~CustomAfter("EndCustomSection")
  BY <1>1, Zenon DEF CustomAfter
<1>3. ASSUME NEW c, NEW f, Calls(c, f)
      PROVE  f # "BeginCustomSection" /\ f # "EndCustomSection"
  BY <1>3 DEF Calls, Naming, Importing, Initializing, EntryCalls
<1> QED BY <1>2, <1>3, Zenon DEF CustomAfter

\* What is counted stays a natural number.
LEMMA CountedFacts ==
    ASSUME num \in Counters, NEW f
    PROVE  Counted(f) \in Counters
<1>1. /\ [num EXCEPT !.func = @ + 1] \in Counters /\ [num EXCEPT !.table = @ + 1] \in Counters
      /\ [num EXCEPT !.memory = @ + 1] \in Counters
      /\ [num EXCEPT !.global = @ + 1] \in Counters
      /\ [num EXCEPT !.event = @ + 1] \in Counters
  BY DEF Counters
<1> QED BY <1>1, Zenon DEF Counted

\* A callback moves from the name of a custom section into it, and out at its end.
LEMMA CallStep == ASSUME ReaderInv, CallItem PROVE ReaderInv'
<1>1. ValuesOK /\ Place /\ ErrorsReported  BY DEF ReaderInv
<1>2. todo # <<>> /\ item.r = "call"  BY DEF CallItem, Active
<1>3. /\ todo' = Tail(todo) /\ num' = Counted(item.d)
      /\ reading_custom' = CustomAfter(item.d)
      /\ UNCHANGED <<data, opt, offset, read_end, guards, section, section_result, seen,
                     result, state, reported>>
  BY DEF CallItem
<1>4. ErrorsReported'  BY <1>1, <1>3, ErrorsKept
<1>5. ValuesOK'
  <2>1. num' \in Counters  BY <1>1, <1>3, CountedFacts DEF ValuesOK
  <2> QED BY <1>1, <1>3, <2>1 DEF ValuesOK
<1>6. CASE ItemOfEntries
  <2>1. reading_custom' = reading_custom
    BY <1>2, <1>3, <1>6, FitsKinds, CustomAfterFacts, Zenon DEF ItemOfEntries
  <2>2. InEntries'  BY <1>3, <1>6, <2>1 DEF ItemOfEntries, InEntries, InLimits, size
  <2> QED BY <1>4, <1>5, <2>2 DEF Place, ReaderInv
<1>7. CASE ItemOfBegin
  <2>1. reading_custom'  BY <1>3, <1>7, ItemKinds, CustomAfterFacts
  <2>2. InCustom'  BY <1>3, <1>7, <2>1 DEF ItemOfBegin, AtName, InCustom, InLimits, size
  <2> QED BY <1>4, <1>5, <2>2 DEF Place, ReaderInv
<1>8. CASE ItemOfEnd
  <2>1. ~reading_custom' /\ todo' = <<>>  BY <1>3, <1>8, ItemKinds, CustomAfterFacts
  <2>2. AtName'  BY <1>3, <1>8, <2>1 DEF ItemOfEnd, AtName, InCustom, InLimits, size
  <2> QED BY <1>4, <1>5, <2>2 DEF Place, ReaderInv
<1>9. CASE ItemOfCustom
  <2>1. reading_custom' = reading_custom
    BY <1>2, <1>3, <1>9, FitsKinds, CustomAfterFacts, Zenon DEF ItemOfCustom
  <2>2. InCustom'  BY <1>3, <1>9, <2>1 DEF ItemOfCustom, InCustom, InLimits, size
  <2> QED BY <1>4, <1>5, <2>2 DEF Place, ReaderInv
<1>10. CASE ItemInside
  <2>1. reading_custom' = reading_custom
    BY <1>2, <1>3, <1>10, FitsKinds, CustomAfterFacts, Zenon DEF ItemInside
  <2>2. InSubsection'  BY <1>3, <1>10, <2>1 DEF ItemInside, InSubsection, size
  <2> QED BY <1>4, <1>5, <2>2 DEF Place, ReaderInv
<1> QED BY <1>1, <1>2, <1>6, <1>7, <1>8, <1>9, <1>10, ItemCases, ItemKinds

\* The unrolling of a loop leaves items of the same section.
LEMMA LoopStep == ASSUME ReaderInv, LoopItem PROVE ReaderInv'
<1>1. ValuesOK /\ Place /\ ErrorsReported  BY DEF ReaderInv
<1>2. todo # <<>> /\ item.r = "loop"  BY DEF LoopItem, Active
<1>3. /\ todo' = Unfold(item) \o Tail(todo)
      /\ UNCHANGED <<data, opt, offset, read_end, guards, reading_custom, section,
                     section_result, seen, num, result, state, reported>>
  BY DEF LoopItem
<1>4. ErrorsReported'  BY <1>1, <1>3, ErrorsKept
<1>5. ValuesOK'  BY <1>1, <1>3 DEF ValuesOK
<1>6. CASE ItemOfEntries
  <2>1. Listed(section, read_end, Unfold(item))
    BY <1>2, <1>6, ListedUnfold DEF ItemOfEntries
  <2>2. Listed(section, read_end, todo')
    BY <1>3, <1>6, <2>1, ListedConcat DEF ItemOfEntries
  <2>3. InEntries'  BY <1>3, <1>6, <2>2 DEF ItemOfEntries, InEntries, InLimits, size
  <2> QED BY <1>4, <1>5, <2>3 DEF Place, ReaderInv
<1>7. CASE ItemOfCustom
  <2>1. Listed(0, read_end, Unfold(item))
    BY <1>2, <1>7, ListedUnfold DEF ItemOfCustom
  <2>2. CustomRest(read_end, todo')
    BY <1>3, <1>7, <2>1, RestMore DEF ItemOfCustom
  <2>3. InCustom'  BY <1>3, <1>7, <2>2 DEF ItemOfCustom, InCustom, InLimits, size
  <2> QED BY <1>4, <1>5, <2>3 DEF Place, ReaderInv
<1>8. CASE ItemInside
  <2>1. PICK g \in Nat : /\ guards = <<size, g>> /\ read_end <= g /\ g <= size
                         /\ SubRest(read_end, g, Tail(todo))
    BY <1>8 DEF ItemInside
  <2>2. Listed(Sub, read_end, Unfold(item))
    BY <1>2, <1>8, ListedUnfold DEF ItemInside
  <2>3. SubRest(read_end, g, todo')
    BY <1>3, <2>1, <2>2, SubRestMore
  <2>4. InSubsection'  BY <1>3, <1>8, <2>1, <2>3 DEF ItemInside, InSubsection, size
  <2> QED BY <1>4, <1>5, <2>4 DEF Place, ReaderInv
<1> QED BY <1>1, <1>2, <1>6, <1>7, <1>8, ItemCases, ItemKinds

\* The stack of guards with one more, and with its last one gone.
LEMMA AppendToOne ==
    ASSUME NEW a \in Nat, NEW b \in Nat
    PROVE  Append(<<a>>, b) = <<a, b>>
<1> DEFINE s == Append(<<a>>, b)
<1>1. <<a>> \in Seq(Nat) /\ Len(<<a>>) = 1 /\ <<a>>[1] = a  OBVIOUS
<1>2. s \in Seq(Nat) /\ Len(s) = 2 /\ s[1] = a /\ s[2] = b
  BY <1>1, AppendProperties
<1>3. <<a, b>> \in Seq(Nat) /\ Len(<<a, b>>) = 2 /\ <<a, b>>[1] = a /\ <<a, b>>[2] = b
  OBVIOUS
<1> HIDE DEF s
<1>4. \A k \in 1 .. 2 : s[k] = <<a, b>>[k]  BY <1>2, <1>3
<1>5. s = <<a, b>>  BY <1>2, <1>3, <1>4, SeqEqual
<1> QED BY <1>5 DEF s

\* Dropping the second guard leaves the first.
LEMMA FrontOfTwo ==
    ASSUME NEW a \in Nat, NEW b \in Nat
    PROVE  Front(<<a, b>>) = <<a>> /\ Last(<<a, b>>) = b
<1> DEFINE t == <<a, b>>
           s == Front(t)
<1>1. t \in Seq(Nat) /\ Len(t) = 2 /\ t[1] = a /\ t[2] = b  OBVIOUS
<1>2. s = SubSeq(t, 1, 1) /\ Last(t) = b  BY <1>1 DEF Front, Last
<1>3. <<a>> \in Seq(Nat) /\ Len(<<a>>) = 1 /\ <<a>>[1] = a  OBVIOUS
<1> HIDE DEF s, t
<1>4. s \in Seq(Nat) /\ Len(s) = 1 /\ s[1] = a  BY <1>1, <1>2, SubSeqProperties
<1>5. \A k \in 1 .. 1 : s[k] = <<a>>[k]  BY <1>3, <1>4
<1>6. s = <<a>>  BY <1>3, <1>4, <1>5, SeqEqual
<1> QED BY <1>2, <1>6 DEF s, t

\* The guard of a subsection keeps the limit of its section, and its end restores it.
LEMMA EnterStep == ASSUME ReaderInv, EnterSubsection PROVE ReaderInv'
<1>1. ValuesOK /\ Place /\ ErrorsReported  BY DEF ReaderInv
<1>2. todo # <<>> /\ item.r = "enter"  BY DEF EnterSubsection, Active
<1>3. /\ todo' = Tail(todo) /\ guards' = Append(guards, read_end) /\ read_end' = item.x
      /\ UNCHANGED <<data, opt, offset, reading_custom, section, section_result, seen, num,
                     result, state, reported>>
  BY DEF EnterSubsection
<1>4. ErrorsReported'  BY <1>1, <1>3, ErrorsKept
<1>5. ItemOfEnter  BY <1>1, <1>2, ItemCases, ItemKinds
<1>6. PICK e \in Nat : /\ offset <= e /\ e <= read_end
                       /\ item = Enter(e) /\ SubRest(e, read_end, Tail(todo))
  BY <1>5 DEF ItemOfEnter, EnterItem
<1>7. read_end' = e  BY <1>3, <1>6 DEF Enter, R
<1>8. ValuesOK'  BY <1>1, <1>3, <1>7 DEF ValuesOK
<1>9. guards = <<size>> /\ read_end \in Nat  BY <1>1, <1>5 DEF ItemOfEnter, InCustom, ValuesOK
<1>10. guards' = <<size, read_end>>
  <2>1. size \in Nat  BY <1>1 DEF ValuesOK, Bytes, size
  <2> QED BY <1>3, <1>9, <2>1, AppendToOne
<1>11. InSubsection'
  BY <1>3, <1>5, <1>6, <1>7, <1>9, <1>10 DEF ItemOfEnter, InCustom, InLimits, InSubsection, size
<1> QED BY <1>4, <1>8, <1>11 DEF Place, ReaderInv

\* The end of a subsection restores the limit of its section.
LEMMA LeaveStep == ASSUME ReaderInv, LeaveSubsection PROVE ReaderInv'
<1>1. ValuesOK /\ Place /\ ErrorsReported  BY DEF ReaderInv
<1>2. todo # <<>> /\ item.r = "leave" /\ offset = item.x  BY DEF LeaveSubsection, Active
<1>3. /\ todo' = Tail(todo) /\ guards' = Front(guards) /\ read_end' = Last(guards)
      /\ UNCHANGED <<data, opt, offset, reading_custom, section, section_result, seen, num,
                     result, state, reported>>
  BY DEF LeaveSubsection
<1>4. ErrorsReported'  BY <1>1, <1>3, ErrorsKept
<1>5. ItemOfLeave  BY <1>1, <1>2, ItemCases, ItemKinds
<1>6. PICK g \in Nat : /\ guards = <<size, g>> /\ read_end <= g /\ g <= size
                       /\ CustomRest(g, Tail(todo))
  BY <1>5 DEF ItemOfLeave
<1>7. guards' = <<size>> /\ read_end' = g
  <2>1. size \in Nat  BY <1>1 DEF ValuesOK, Bytes, size
  <2> QED BY <1>3, <1>6, <2>1, FrontOfTwo
<1>8. ValuesOK'  BY <1>1, <1>3, <1>7 DEF ValuesOK
<1>9. InCustom'
  BY <1>1, <1>3, <1>5, <1>6, <1>7
  DEF ItemOfLeave, InSubsection, InCustom, InLimits, size, ValuesOK
<1> QED BY <1>4, <1>8, <1>9 DEF Place, ReaderInv

\* A skip goes to the limit: of the section, or of the subsection it is in.
LEMMA SkipStep == ASSUME ReaderInv, SkipRest PROVE ReaderInv'
<1>1. ValuesOK /\ Place /\ ErrorsReported  BY DEF ReaderInv
<1>2. todo # <<>> /\ item.r = "skip"  BY DEF SkipRest, Active
<1>3. /\ todo' = Tail(todo) /\ offset' = item.x
      /\ UNCHANGED <<data, opt, read_end, guards, reading_custom, section, section_result,
                     seen, num, result, state, reported>>
  BY DEF SkipRest
<1>4. ErrorsReported'  BY <1>1, <1>3, ErrorsKept
<1>5. offset' = read_end => ValuesOK'  BY <1>1, <1>3 DEF ValuesOK
<1>6. CASE ItemOfCustom
  <2>1. offset' = read_end  BY <1>2, <1>3, <1>6, FitsKinds DEF ItemOfCustom
  <2>2. InCustom'
    BY <1>1, <1>3, <1>6, <2>1 DEF ItemOfCustom, InCustom, InLimits, size, ValuesOK
  <2> QED BY <1>4, <1>5, <2>1, <2>2 DEF Place, ReaderInv
<1>7. CASE ItemInside
  <2>1. offset' = read_end  BY <1>2, <1>3, <1>7, FitsKinds DEF ItemInside
  <2>2. InSubsection'
    BY <1>1, <1>3, <1>7, <2>1 DEF ItemInside, InSubsection, size, ValuesOK
  <2> QED BY <1>4, <1>5, <2>1, <2>2 DEF Place, ReaderInv
<1> QED BY <1>1, <1>2, <1>6, <1>7, ItemCases, ItemKinds

\* An error that is only reported leaves the reader in place.
LEMMA ReportStep == ASSUME ReaderInv, Report PROVE ReaderInv'
<1>1. ValuesOK /\ Place /\ ErrorsReported  BY DEF ReaderInv
<1>2. todo # <<>> /\ item.r = "report"  BY DEF Report, Active
<1>3. /\ todo' = Tail(todo) /\ reported' = reported \cup {ErrorLevel}
      /\ UNCHANGED <<data, opt, offset, read_end, guards, reading_custom, section,
                     section_result, seen, num, result, state>>
  BY DEF Report
<1>4. reported \subseteq reported'  BY <1>3
<1>5. ErrorsReported'  BY <1>1, <1>3, <1>4, ErrorsKept
<1>6. ErrorLevel \in {"Error", "Warning"}  BY DEF ErrorLevel
<1>7. ValuesOK'  BY <1>1, <1>3, <1>6 DEF ValuesOK
<1>8. CASE ItemOfEntries
  <2>1. InEntries'  BY <1>3, <1>8 DEF ItemOfEntries, InEntries, InLimits, size
  <2> QED BY <1>5, <1>7, <2>1 DEF Place, ReaderInv
<1>9. CASE ItemOfCustom
  <2>1. InCustom'  BY <1>3, <1>9 DEF ItemOfCustom, InCustom, InLimits, size
  <2> QED BY <1>5, <1>7, <2>1 DEF Place, ReaderInv
<1>10. CASE ItemInside
  <2>1. InSubsection'  BY <1>3, <1>10 DEF ItemInside, InSubsection, size
  <2> QED BY <1>5, <1>7, <2>1 DEF Place, ReaderInv
<1> QED BY <1>1, <1>2, <1>8, <1>9, <1>10, ItemCases, ItemKinds

\* The limit of the section in force, whatever place a failure returns from.
LEMMA SectionLimit ==
    ASSUME ValuesOK, Place, section # NONE
    PROVE  /\ guards[1] = size /\ RestoredEnd \in Nat
           /\ offset <= RestoredEnd /\ RestoredEnd <= size
           /\ Len(guards) # 2 => RestoredEnd = read_end
<1>1. CASE InSubsection
  <2>1. PICK g \in Nat : guards = <<size, g>> /\ read_end <= g /\ g <= size
    BY <1>1 DEF InSubsection
  <2>2. RestoredEnd = g /\ guards[1] = size /\ Len(guards) = 2  BY <2>1 DEF RestoredEnd
  <2> QED BY <1>1, <2>1, <2>2 DEF InSubsection, ValuesOK
<1>2. CASE guards = <<size>> /\ InLimits
  <2>1. RestoredEnd = read_end /\ guards[1] = size  BY <1>2 DEF RestoredEnd
  <2> QED BY <1>2, <2>1 DEF InLimits, ValuesOK
<1> QED BY <1>1, <1>2 DEF Place, Between, InEntries, AtName, InCustom

\* A handler that fails, at whatever depth, leaves the limit of its section.
LEMMA FailStep == ASSUME ReaderInv, HandlerFails PROVE ReaderInv'
<1>1. ValuesOK /\ Place /\ ErrorsReported  BY DEF ReaderInv
<1>2. todo # <<>>  BY DEF HandlerFails, Active
<1>3. section # NONE  BY <1>1, <1>2 DEF Place, Between, InEntries, AtName, InCustom,
                                        InSubsection, Custom, NONE
<1>4. /\ section_result' = "Error" /\ todo' = <<>> /\ read_end' = RestoredEnd
      /\ guards' = <<guards[1]>> /\ reading_custom' = FALSE
      /\ ErrorLevel \in reported' /\ reported \subseteq reported'
      /\ reported' \subseteq reported \cup {"Error", ErrorLevel}
      /\ UNCHANGED <<data, opt, offset, section, seen, num, result, state>>
  BY DEF HandlerFails, LeftAfterFailure
<1>5. ErrorLevel \in {"Error", "Warning"}  BY DEF ErrorLevel
<1>6. /\ guards[1] = size /\ RestoredEnd \in Nat
      /\ offset <= RestoredEnd /\ RestoredEnd <= size
  BY <1>1, <1>3, SectionLimit
<1>7. ValuesOK'  BY <1>1, <1>4, <1>5, <1>6 DEF ValuesOK
<1>8. reading_custom => section = Custom
  BY <1>1 DEF Place, Between, InEntries, AtName, InCustom, InSubsection
<1>9. ErrorsReported'
  <2>1. ~IgnoreErrors => ErrorLevel = "Error"  BY <1>8 DEF IgnoreErrors, ErrorLevel
  <2> QED BY <1>1, <1>4, <2>1 DEF ErrorsReported, IgnoreErrors
<1>10. guards' = <<size>>  BY <1>4, <1>6
<1>11. CASE section = Custom
  <2>1. AtName'  BY <1>4, <1>6, <1>10, <1>11 DEF AtName, InLimits, size
  <2> QED BY <1>7, <1>9, <2>1 DEF Place, ReaderInv
<1>12. CASE section # Custom
  <2>1. section \in 1 .. 13
    BY <1>1, <1>3, <1>12 DEF Place, Between, InEntries, AtName, InCustom, InSubsection
  <2>2. Listed(section, read_end', todo')  BY <1>4, ListedNone
  <2>3. InEntries'  BY <1>4, <1>6, <1>10, <2>1, <2>2 DEF InEntries, InLimits, size
  <2> QED BY <1>7, <1>9, <2>3 DEF Place, ReaderInv
<1> QED BY <1>11, <1>12

\* At the end of a section the guards of its subsections are gone.
LEMMA AtEnd ==
    ASSUME Place, section # NONE, todo = <<>>
    PROVE  guards = <<size>> /\ InLimits /\ ~reading_custom
<1>1. ~InCustom  BY CustomItem
<1>2. ~InSubsection  BY SubRestHead DEF InSubsection
<1> QED BY <1>1, <1>2 DEF Place, Between, InEntries, AtName

\* The end of a section leaves the reader between sections, with the limit of the file.
LEMMA EndStep == ASSUME ReaderInv, EndSection PROVE ReaderInv'
<1>1. ValuesOK /\ Place /\ ErrorsReported  BY DEF ReaderInv
<1>2. section # NONE /\ todo = <<>> /\ state = "reading"  BY DEF EndSection
<1>3. guards = <<size>> /\ InLimits /\ ~reading_custom  BY <1>1, <1>2, AtEnd
<1>4. /\ offset' \in {offset, read_end} /\ state' \in {"returned", "reading"}
      /\ reported' = (IF Unfinished THEN reported \cup {"Error"} ELSE reported)
      /\ result' = IF (SectionFailed /\ ~IgnoreErrors) \/ Unfinished THEN "Error" ELSE result
      /\ section' = NONE /\ read_end' = guards[1] /\ guards' = <<>>
      /\ UNCHANGED <<data, opt, reading_custom, todo, section_result, seen, num>>
  BY DEF EndSection
<1>5. read_end' = size /\ size \in Nat
  BY <1>1, <1>3, <1>4 DEF ValuesOK, Bytes, size
<1>6. ValuesOK'  BY <1>1, <1>4, <1>5 DEF ValuesOK
<1>7. ErrorsReported'
  <2>1. (SectionFailed /\ ~IgnoreErrors) \/ Unfinished => "Error" \in reported'
    BY <1>1, <1>2, <1>4 DEF ErrorsReported, SectionFailed
  <2> QED BY <1>1, <1>4, <2>1 DEF ErrorsReported
<1>8. offset' <= size
  BY <1>1, <1>3, <1>4, <1>5 DEF InLimits, ValuesOK
<1>9. Between'  BY <1>2, <1>3, <1>4, <1>5, <1>8 DEF Between, size
<1> QED BY <1>6, <1>7, <1>9 DEF Place, ReaderInv

\* The header of a section lies behind the section before it, and its contents behind it.
LEMMA HeaderFacts ==
    ASSUME ValuesOK, Between, Header.readable
    PROVE  /\ Header.code \in Nat /\ Header.begin \in Nat /\ Header.end \in Nat
           /\ offset <= Header.begin /\ Header.begin <= Header.end
<1> DEFINE code   == ReadU32Leb128(data, offset, read_end)
           length == ReadU32Leb128(data, offset + code.n, read_end)
<1>1. read_end <= Len(data)  BY DEF Between, size, ValuesOK, Bytes
<1>2. data \in Bytes /\ offset \in Nat /\ read_end \in Nat  BY DEF ValuesOK
<1>3. code.n \in 0 .. 5 /\ code.v \in Nat  BY <1>1, <1>2, U32Facts
<1>4. offset + code.n \in Nat  BY <1>2, <1>3
<1>5. length.n \in 0 .. 5 /\ length.v \in Nat  BY <1>1, <1>2, <1>4, U32Facts
<1>6. /\ Header.code = code.v /\ Header.begin = offset + code.n + length.n
      /\ Header.end = offset + code.n + length.n + length.v
  BY DEF Header
<1> HIDE DEF code, length
<1> QED BY <1>2, <1>3, <1>5, <1>6

\* A header that is accepted begins a section inside the file.
LEMMA NextStep == ASSUME ReaderInv, NextSection PROVE ReaderInv'
<1>1. ValuesOK /\ Place /\ ErrorsReported  BY DEF ReaderInv
<1>2. section = NONE /\ state = "reading"  BY DEF NextSection, BetweenSections
<1>3. Between
  BY <1>1, <1>2 DEF Place, InEntries, AtName, InCustom, InSubsection, Custom, NONE
<1> DEFINE h == Header
<1>4. /\ HeaderAccepted(h) /\ offset' = h.begin /\ guards' = <<read_end>> /\ read_end' = h.end
      /\ section' = h.code /\ todo' = <<FirstRead(h.code)>> /\ section_result' = "Ok"
      /\ seen' = IF h.code = Custom THEN seen ELSE seen \cup {h.code}
      /\ UNCHANGED <<data, opt, reading_custom, num, result, state, reported>>
  BY DEF NextSection
<1>5. h.readable /\ h.code < 14 /\ h.end <= size
  BY <1>4 DEF HeaderAccepted, kBinarySectionCount
<1>6. /\ h.code \in Nat /\ h.begin \in Nat /\ h.end \in Nat
      /\ offset <= h.begin /\ h.begin <= h.end
  BY <1>1, <1>3, <1>5, HeaderFacts
<1> HIDE DEF h
<1>7. h.code \in 0 .. 13  BY <1>5, <1>6
<1>8. ValuesOK'
  <2>1. h.code # Custom => h.code \in 1 .. 13  BY <1>7 DEF Custom
  <2>2. seen' \subseteq 1 .. 13  BY <1>1, <1>4, <2>1 DEF ValuesOK
  <2>3. offset' \in Nat /\ read_end' \in Nat /\ section_result' \in {"Ok", "Error"}
    BY <1>4, <1>6
  <2> QED BY <1>1, <1>4, <2>2, <2>3 DEF ValuesOK
<1>9. ErrorsReported'  BY <1>1, <1>4 DEF ErrorsReported
<1>10. guards' = <<size>> /\ ~reading_custom'  BY <1>3, <1>4 DEF Between
<1>11. CASE h.code = Custom
  <2>1. AtName'
    BY <1>4, <1>5, <1>6, <1>10, <1>11 DEF AtName, InLimits, size, Custom
  <2> QED BY <1>8, <1>9, <2>1 DEF Place, ReaderInv
<1>12. CASE h.code # Custom
  <2>1. h.code \in 1 .. 13  BY <1>7, <1>12 DEF Custom
  <2>2. Listed(section', read_end', todo')  BY <1>4, <2>1, FirstItem
  <2>3. InEntries'  BY <1>4, <1>5, <1>6, <1>10, <2>1, <2>2 DEF InEntries, InLimits, size
  <2> QED BY <1>8, <1>9, <2>3 DEF Place, ReaderInv
<1> QED BY <1>11, <1>12

\* The steps that end reading, or leave the module undefined, leave the reader in place.
LEMMA StopStep ==
    ASSUME ReaderInv, RejectSection \/ ReadModuleEnds \/ CallUndefined
    PROVE  ReaderInv'
<1>1. ValuesOK /\ Place /\ ErrorsReported  BY DEF ReaderInv
<1>2. UNCHANGED <<data, opt, offset, read_end, guards, reading_custom, section, todo,
                  section_result, seen, num>>
  BY DEF RejectSection, ReadModuleEnds, CallUndefined
<1>3. Place'
  BY <1>1, <1>2 DEF Place, Between, InEntries, AtName, InCustom, InSubsection, InLimits, size
<1>4. CASE RejectSection
  <2>1. state' = "returned" /\ result' = "Error" /\ reported' = reported \cup {"Error"}
    BY <1>4 DEF RejectSection
  <2> QED BY <1>1, <1>2, <1>3, <2>1 DEF ReaderInv, ValuesOK, ErrorsReported
<1>5. CASE ReadModuleEnds
  <2>1. /\ result' = (IF num.sigs # num.bodies THEN "Error" ELSE result)
        /\ reported' = IF result = "Ok" /\ num.sigs # num.bodies
                       THEN reported \cup {"Error"} ELSE reported
        /\ state' = "returned" /\ section = NONE
    BY <1>5 DEF ReadModuleEnds, BetweenSections
  <2> QED BY <1>1, <1>2, <1>3, <2>1 DEF ReaderInv, ValuesOK, ErrorsReported
<1>6. CASE CallUndefined
  <2>1. state' = "undefined" /\ result' = result /\ reported' = reported
    BY <1>6 DEF CallUndefined
  <2> QED BY <1>1, <1>2, <1>3, <2>1 DEF ReaderInv, ValuesOK, ErrorsReported, IgnoreErrors
<1> QED BY <1>4, <1>5, <1>6

\* The reader starts between sections, at the first byte.
THEOREM ReaderInvInit == Init => ReaderInv
<1> SUFFICES ASSUME Init PROVE ReaderInv
  OBVIOUS
<1>1. data \in Bytes /\ Len(data) \in Nat  BY InputAssumption DEF Init, ReaderInit, Bytes
<1>2. /\ offset = 0 /\ read_end = Len(data) /\ guards = <<>> /\ reading_custom = FALSE
      /\ section = NONE /\ todo = <<>> /\ section_result = "Ok" /\ seen = {}
      /\ result = "Ok" /\ state = "reading" /\ reported = {} /\ num \in Counters
  BY DEF Init, ReaderInit, Counters
<1>3. ValuesOK  BY <1>1, <1>2 DEF ValuesOK
<1>4. Between  BY <1>1, <1>2 DEF Between, size
<1>5. ErrorsReported  BY <1>2 DEF ErrorsReported
<1> QED BY <1>3, <1>4, <1>5 DEF ReaderInv, Place

\* Every step of the reader keeps its invariant, whatever the callbacks do.
THEOREM ReaderInvNext == ReaderInv /\ [Next]_modVars => ReaderInv'
<1> SUFFICES ASSUME ReaderInv, [Next]_modVars PROVE ReaderInv'
  OBVIOUS
<1>1. CASE NextSection  BY <1>1, NextStep
<1>2. CASE RejectSection \/ ReadModuleEnds \/ CallUndefined  BY <1>2, StopStep
<1>3. CASE ReadItem  BY <1>3, ReadStep
<1>4. CASE CallItem  BY <1>4, CallStep
<1>5. CASE LoopItem  BY <1>5, LoopStep
<1>6. CASE EnterSubsection  BY <1>6, EnterStep
<1>7. CASE LeaveSubsection  BY <1>7, LeaveStep
<1>8. CASE SkipRest  BY <1>8, SkipStep
<1>9. CASE Report  BY <1>9, ReportStep
<1>10. CASE HandlerFails  BY <1>10, FailStep
<1>11. CASE EndSection  BY <1>11, EndStep
<1>12. CASE UNCHANGED modVars
  <2>1. UNCHANGED <<data, opt, offset, read_end, guards, reading_custom, section, todo,
                    section_result, seen, num, result, state, reported>>
    BY <1>12 DEF modVars, readerVars
  <2>2. ReaderInv  OBVIOUS
  <2> QED BY <2>1, <2>2
          DEF ReaderInv, ValuesOK, Place, Between, InEntries, AtName, InCustom, InSubsection,
              InLimits, size, ErrorsReported, IgnoreErrors
<1> QED BY <1>1, <1>2, <1>3, <1>4, <1>5, <1>6, <1>7, <1>8, <1>9, <1>10, <1>11, <1>12
        DEF Next

\* The reader is always in one of the places of the invariant.
THEOREM ReaderInvariant == ReaderSpec => []ReaderInv
  BY ReaderInvInit, ReaderInvNext, PTL DEF ReaderSpec

\* ReaderTypeOK: each variable of the two classes has the values the code can give it,
\* and a section is open exactly as long as the guard of its limit is in scope.
THEOREM ReaderTypes == ReaderSpec => []ReaderTypeOK
<1>1. ReaderInv => ReaderTypeOK
  <2> SUFFICES ASSUME ReaderInv PROVE ReaderTypeOK
    OBVIOUS
  <2>1. ValuesOK /\ Place  BY DEF ReaderInv
  <2>2. size \in Nat  BY <2>1 DEF ValuesOK, Bytes, size
  <2>3. /\ guards \in Seq(Nat) /\ Len(guards) \in 0 .. 2
        /\ section \in {NONE} \cup (0 .. 13) /\ (section = NONE) = (guards = <<>>)
        /\ section = NONE => todo = <<>>
        /\ reading_custom => section = Custom
        /\ Len(guards) = 2 => reading_custom
    <3>1. CASE Between  BY <3>1 DEF Between, NONE, Custom
    <3>2. CASE guards = <<size>> /\ section \in 0 .. 13 /\ (reading_custom => section = Custom)
      BY <2>2, <3>2 DEF NONE
    <3>3. CASE InSubsection
      <4>1. PICK g \in Nat : guards = <<size, g>>  BY <3>3 DEF InSubsection
      <4>2. guards \in Seq(Nat) /\ Len(guards) = 2 /\ guards # <<>>  BY <2>2, <4>1
      <4>3. section = 0 /\ reading_custom  BY <3>3 DEF InSubsection, Custom
      <4> QED BY <4>2, <4>3 DEF NONE, Custom
    <3> QED BY <2>1, <3>1, <3>2, <3>3 DEF Place, InEntries, AtName, InCustom, Custom
  <2>4. \A k \in DOMAIN num : num[k] \in Nat  BY <2>1 DEF ValuesOK, Counters
  <2> QED BY <2>1, <2>3, <2>4 DEF ValuesOK, ReaderTypeOK, kBinarySectionCount
<1> QED BY <1>1, ReaderInvariant, PTL

\* LimitsNest: the file holds the section, the section the subsection, and no read has
\* passed the innermost limit.
THEOREM LimitsAreNested == ReaderSpec => []LimitsNest
<1>1. ReaderInv => LimitsNest
  <2> SUFFICES ASSUME ReaderInv PROVE LimitsNest
    OBVIOUS
  <2>1. ValuesOK /\ Place  BY DEF ReaderInv
  <2>2. size \in Nat /\ offset \in Nat /\ read_end \in Nat
    BY <2>1 DEF ValuesOK, Bytes, size
  <2>3. CASE guards = <<>> /\ read_end = size /\ offset <= size
    BY <2>2, <2>3 DEF LimitsNest
  <2>4. CASE guards = <<size>> /\ InLimits
    BY <2>2, <2>4 DEF LimitsNest, InLimits
  <2>5. CASE InSubsection
    BY <2>2, <2>5 DEF LimitsNest, InSubsection
  <2> QED BY <2>1, <2>3, <2>4, <2>5 DEF Place, Between, InEntries, AtName, InCustom
<1> QED BY <1>1, ReaderInvariant, PTL

\* FailuresReported: no module is rejected in silence.
THEOREM RejectionReported == ReaderSpec => []FailuresReported
<1>1. ReaderInv => FailuresReported
  BY DEF ReaderInv, ErrorsReported, FailuresReported
<1> QED BY <1>1, ReaderInvariant, PTL
-----------------------------------------------------------------------------
(* From section to section: the refinement of SectionFrames.                 *)

\* The last section that is not custom and was begun.
Latest == IF section \in {NONE, Custom} THEN last_known ELSE section

\* The sections come in the order of the format: none that was seen has a later place
\* than the latest one.
OrderInv ==
    state = "reading" =>
        IF seen = {} THEN Latest = NONE
        ELSE /\ Latest \in seen
             /\ \A c \in seen : GetSectionOrder(c) <= GetSectionOrder(Latest)

\* Each code has its own place.
LEMMA OrderFacts ==
    \A c \in 0 .. 13 : /\ GetSectionOrder(c) \in 1 .. 14
                       /\ SectionCodes[GetSectionOrder(c)] = c
<1>1. DOMAIN SectionCodes = 1 .. 14  BY DEF SectionCodes
<1>2. \A c \in 0 .. 13 : \E k \in 1 .. 14 : SectionCodes[k] = c
  <2>1. /\ SectionCodes[1] = 0 /\ SectionCodes[2] = 1 /\ SectionCodes[3] = 2
        /\ SectionCodes[4] = 3 /\ SectionCodes[5] = 4 /\ SectionCodes[6] = 5
        /\ SectionCodes[7] = 13 /\ SectionCodes[8] = 6 /\ SectionCodes[9] = 7
        /\ SectionCodes[10] = 8 /\ SectionCodes[11] = 9 /\ SectionCodes[12] = 12
        /\ SectionCodes[13] = 10 /\ SectionCodes[14] = 11
    BY DEF SectionCodes
  <2> QED BY <2>1
<1> QED BY <1>1, <1>2 DEF GetSectionOrder

\* No section was seen when the reader starts.
LEMMA OrderInvInit == Init => OrderInv
  BY DEF Init, ReaderInit, OrderInv, Latest

\* A header is accepted only behind the latest section, which outlives its handler.
LEMMA OrderInvNext == ReaderInv /\ OrderInv /\ [Next]_modVars => OrderInv'
<1> SUFFICES ASSUME ReaderInv, OrderInv, [Next]_modVars PROVE OrderInv'
  OBVIOUS
<1>1. ValuesOK /\ Place  BY DEF ReaderInv
<1>2. CASE NextSection
  <2> DEFINE h == Header
  <2>1. /\ HeaderAccepted(h) /\ section' = h.code /\ section = NONE /\ state = "reading"
        /\ seen' = IF h.code = Custom THEN seen ELSE seen \cup {h.code}
        /\ UNCHANGED <<last_known, state>>
    BY <1>2 DEF NextSection, BetweenSections
  <2>2. Between
    BY <1>1, <2>1 DEF Place, InEntries, AtName, InCustom, InSubsection, Custom, NONE
  <2>3. /\ h.readable /\ h.code < 14
        /\ h.code # Custom => /\ last_known # NONE =>
                                     GetSectionOrder(h.code) > GetSectionOrder(last_known)
    BY <2>1 DEF HeaderAccepted, kBinarySectionCount
  <2>4. h.code \in Nat  BY <1>1, <2>2, <2>3, HeaderFacts
  <2> HIDE DEF h
  <2>5. h.code \in 0 .. 13 /\ seen \subseteq 1 .. 13  BY <1>1, <2>3, <2>4 DEF ValuesOK
  <2>6. Latest = last_known  BY <2>1 DEF Latest
  <2>7. CASE h.code = Custom
    BY <2>1, <2>6, <2>7 DEF OrderInv, Latest
  <2>8. CASE h.code # Custom
    <3>1. Latest' = h.code /\ h.code # NONE  BY <2>1, <2>5, <2>8 DEF Latest, NONE
    <3>2. seen' = seen \cup {h.code}  BY <2>1, <2>8
    <3>3. \A c \in seen : GetSectionOrder(c) <= GetSectionOrder(h.code)
      <4>1. SUFFICES ASSUME NEW c \in seen
                     PROVE  GetSectionOrder(c) <= GetSectionOrder(h.code)
        OBVIOUS
      <4>2. /\ last_known \in seen
            /\ GetSectionOrder(c) <= GetSectionOrder(last_known)
        BY <2>1, <2>6 DEF OrderInv
      <4>3. last_known # NONE  BY <2>5, <4>2 DEF NONE
      <4>4. /\ GetSectionOrder(c) \in Int /\ GetSectionOrder(last_known) \in Int
            /\ GetSectionOrder(h.code) \in Int
        BY <2>5, <4>2, OrderFacts
      <4> QED BY <2>3, <2>8, <4>2, <4>3, <4>4
    <3>4. GetSectionOrder(h.code) <= GetSectionOrder(h.code)  BY <2>5, OrderFacts
    <3> QED BY <3>1, <3>2, <3>3, <3>4 DEF OrderInv
  <2> QED BY <2>7, <2>8
<1>3. CASE RejectSection \/ ReadModuleEnds \/ CallUndefined
  BY <1>3 DEF RejectSection, ReadModuleEnds, CallUndefined, OrderInv
<1>4. CASE EndSection
  <2>1. state' = "reading" => last_known' = IF section = Custom THEN last_known ELSE section
    BY <1>4 DEF EndSection
  <2>2. seen' = seen /\ section' = NONE /\ section # NONE /\ state = "reading"
    BY <1>4 DEF EndSection
  <2> QED BY <2>1, <2>2 DEF OrderInv, Latest
<1>5. CASE \/ ReadItem \/ CallItem \/ LoopItem \/ EnterSubsection \/ LeaveSubsection
           \/ SkipRest \/ Report \/ HandlerFails \/ UNCHANGED modVars
  <2>1. UNCHANGED <<section, last_known, seen, state>>
    BY <1>5 DEF ReadItem, CallItem, LoopItem, EnterSubsection, LeaveSubsection, SkipRest,
                Report, HandlerFails, modVars, readerVars
  <2> QED BY <2>1 DEF OrderInv, Latest
<1> QED BY <1>2, <1>3, <1>4, <1>5 DEF Next

\* The largest place of a section seen is that of the latest one.
LEMMA MaxIs ==
    ASSUME NEW S, NEW m \in S, S \subseteq Int, \A y \in S : m >= y
    PROVE  Max(S) = m
<1>1. \A x \in S : (\A y \in S : x >= y) => x = m  OBVIOUS
<1> QED BY <1>1, Zenon DEF Max

PlacesSeen == {GetSectionOrder(code) : code \in seen} \cup {0}
LastPlace  == Max(PlacesSeen)

\* What SectionFrames keeps as last is the place of the latest section.
LEMMA LastPlaceIs ==
    ASSUME OrderInv, state = "reading", seen \subseteq 1 .. 13
    PROVE  LastPlace = IF seen = {} THEN 0 ELSE GetSectionOrder(Latest)
<1>1. \A c \in seen : GetSectionOrder(c) \in 1 .. 14
  <2>1. \A c \in seen : c \in 0 .. 13  OBVIOUS
  <2> QED BY <2>1, OrderFacts
<1>2. PlacesSeen \subseteq Int /\ 0 \in PlacesSeen  BY <1>1 DEF PlacesSeen
<1>3. CASE seen = {}
  <2>1. \A y \in PlacesSeen : 0 >= y  BY <1>3 DEF PlacesSeen
  <2> QED BY <1>2, <1>3, <2>1, MaxIs DEF LastPlace
<1>4. CASE seen # {}
  <2>1. Latest \in seen /\ \A c \in seen : GetSectionOrder(c) <= GetSectionOrder(Latest)
    BY <1>4 DEF OrderInv
  <2>2. GetSectionOrder(Latest) \in PlacesSeen  BY <2>1 DEF PlacesSeen
  <2>3. \A y \in PlacesSeen : GetSectionOrder(Latest) >= y  BY <1>1, <2>1 DEF PlacesSeen
  <2> QED BY <1>2, <1>4, <2>2, <2>3, MaxIs DEF LastPlace
<1> QED BY <1>3, <1>4

\* What SectionFrames sees of the reader: pos, last and verdict.
FramePos     == IF section = NONE THEN offset ELSE RestoredEnd
FrameVerdict == IF state # "returned" THEN "none"
                ELSE IF result = "Ok" THEN "accepted" ELSE "rejected"

\* A step SectionFrames does not see.
LEMMA FrameStutter ==
    ASSUME data' = data, FramePos' = FramePos, seen' = seen, FrameVerdict' = FrameVerdict
    PROVE  UNCHANGED Frames!frameVars
  BY DEF Frames!frameVars, FramePos, FrameVerdict, RestoredEnd

\* A rejection, wherever the file is left.
LEMMA FrameReject ==
    ASSUME data' = data, FramePos' \in Nat, seen' = seen, FrameVerdict = "none",
           FrameVerdict' = "rejected"
    PROVE  Frames!Reject
  BY DEF Frames!Reject, FramePos, FrameVerdict, RestoredEnd

\* The frames are read from the same bytes by the same number format.
LEMMA SameNumbers ==
    ASSUME NEW d, NEW i, NEW end
    PROVE  Frames!ReadU32Leb128(d, i, end) = ReadU32Leb128(d, i, end)
<1>1. Frames!LebSize(d, i, end, 5, 0 .. 15) = LebSize(d, i, end, 5, 0 .. 15)
  BY DEF Frames!LebSize, LebSize
<1>2. \A n, top : Frames!LebValue(d, i, n, top) = LebValue(d, i, n, top)
  BY DEF Frames!LebValue, LebValue
<1>3. \A b : Frames!Unsigned(b) = Unsigned(b)  BY DEF Frames!Unsigned, Unsigned
<1> QED BY <1>1, <1>2, <1>3 DEF Frames!ReadU32Leb128, ReadU32Leb128

\* The header of the next section is read as the head of the next frame.
LEMMA FrameTaken ==
    ASSUME ReaderInv, OrderInv, OrderInv', NextSection
    PROVE  Frames!TakeFrame
<1>1. ValuesOK /\ Place  BY DEF ReaderInv
<1>2. section = NONE /\ state = "reading"  BY DEF NextSection, BetweenSections
<1>3. Between
  BY <1>1, <1>2 DEF Place, InEntries, AtName, InCustom, InSubsection, Custom, NONE
<1>4. read_end = Len(data)  BY <1>3 DEF Between, size
<1> DEFINE h      == Header
           code   == ReadU32Leb128(data, offset, Len(data))
           length == ReadU32Leb128(data, offset + code.n, Len(data))
<1>5. /\ h.readable = (code.n > 0 /\ length.n > 0) /\ h.code = code.v
      /\ h.end = offset + code.n + length.n + length.v
  BY <1>4 DEF Header
<1>6. /\ HeaderAccepted(h) /\ guards' = <<read_end>> /\ read_end' = h.end
      /\ section' = h.code
      /\ seen' = IF h.code = Custom THEN seen ELSE seen \cup {h.code}
      /\ UNCHANGED <<data, last_known, state, result>>
  BY DEF NextSection
<1>7. h.readable /\ h.code < 14 /\ h.end <= size
  BY <1>6 DEF HeaderAccepted, kBinarySectionCount
<1>8. h.code \in Nat /\ h.end \in Nat  BY <1>1, <1>3, <1>7, HeaderFacts
<1>9. FramePos = offset /\ FramePos' = h.end
  <2>1. h.code # NONE  BY <1>8 DEF NONE
  <2>2. Len(guards') # 2  BY <1>6
  <2> QED BY <1>2, <1>6, <2>1, <2>2 DEF FramePos, RestoredEnd
<1>10. IF code.v = 0 THEN LastPlace' = LastPlace
       ELSE LastPlace' = GetSectionOrder(code.v) /\ LastPlace' > LastPlace
  <2>1. seen \subseteq 1 .. 13 /\ Latest = last_known
    BY <1>1, <1>2 DEF ValuesOK, Latest
  <2>2. LastPlace = IF seen = {} THEN 0 ELSE GetSectionOrder(last_known)
    BY <1>2, <2>1, LastPlaceIs
  <2>3. CASE code.v = 0
    <3>1. seen' = seen  BY <1>5, <1>6, <2>3 DEF Custom
    <3> QED BY <2>3, <3>1 DEF LastPlace, PlacesSeen
  <2>4. CASE code.v # 0
    <3>1. h.code # Custom /\ h.code \in 1 .. 13 /\ h.code # NONE
      BY <1>5, <1>7, <1>8, <2>4, SMTT(30) DEF Custom, NONE
    <3>2. seen' = seen \cup {h.code} /\ Latest' = h.code  BY <1>6, <3>1 DEF Latest
    <3>3. LastPlace' = GetSectionOrder(h.code)
      <4>1. seen' \subseteq 1 .. 13 /\ seen' # {} /\ state' = "reading"
        BY <1>2, <1>6, <2>1, <3>1, <3>2
      <4>2. \A c \in seen' : GetSectionOrder(c) \in 1 .. 14
        <5>1. \A c \in seen' : c \in 0 .. 13  BY <4>1
        <5> QED BY <5>1, OrderFacts
      <4>3. \A c \in seen' : GetSectionOrder(c) <= GetSectionOrder(h.code)
        BY <3>2, <4>1 DEF OrderInv
      <4> DEFINE S == {GetSectionOrder(c) : c \in seen'} \cup {0}
      <4>4. /\ GetSectionOrder(h.code) \in S /\ S \subseteq Int
            /\ \A y \in S : GetSectionOrder(h.code) >= y
        BY <3>2, <4>2, <4>3
      <4>5. LastPlace' = Max(S)  BY DEF LastPlace, PlacesSeen
      <4> HIDE DEF S
      <4> QED BY <4>4, <4>5, MaxIs
    <3>4. GetSectionOrder(h.code) > LastPlace
      <4>1. GetSectionOrder(h.code) \in 1 .. 14
        <5>1. h.code \in 0 .. 13  BY <3>1
        <5> QED BY <5>1, OrderFacts
      <4>2. seen # {} => last_known \in seen  BY <1>2, <2>1 DEF OrderInv
      <4>3. last_known \in seen => last_known # NONE  BY <2>1 DEF NONE
      <4>4. last_known # NONE => GetSectionOrder(h.code) > GetSectionOrder(last_known)
        BY <1>6, <3>1 DEF HeaderAccepted
      <4> HIDE DEF h
      <4> QED BY <2>2, <4>1, <4>2, <4>3, <4>4
    <3> QED BY <1>5, <2>4, <3>3, <3>4
  <2> QED BY <2>3, <2>4
<1>11. \A d, i, end : Frames!ReadU32Leb128(d, i, end) = ReadU32Leb128(d, i, end)
  BY SameNumbers
<1>12. FrameVerdict = "none" /\ FrameVerdict' = "none" /\ data' = data
  BY <1>2, <1>6 DEF FrameVerdict
<1>13. /\ code.n > 0 /\ length.n > 0
       /\ FramePos' = FramePos + code.n + length.n + length.v /\ FramePos' <= Len(data)
  BY <1>5, <1>7, <1>9 DEF size
<1>14. \E c \in {Frames!ReadU32Leb128(data, FramePos, Len(data))} :
       \E l \in {Frames!ReadU32Leb128(data, FramePos + c.n, Len(data))} :
           /\ c.n > 0 /\ l.n > 0
           /\ FramePos' = FramePos + c.n + l.n + l.v /\ FramePos' <= Len(data)
           /\ IF c.v = 0 THEN LastPlace' = LastPlace
              ELSE LastPlace' = GetSectionOrder(c.v) /\ LastPlace' > LastPlace
  <2>1. FramePos = offset  BY <1>9
  <2> HIDE DEF h
  <2> QED BY <1>10, <1>11, <1>13, <2>1
<1> QED BY <1>12, <1>14
        DEF Frames!TakeFrame, FramePos, FrameVerdict, LastPlace, PlacesSeen, RestoredEnd

\* Inside a section no step moves to another frame or ends reading.
LEMMA FrameKept ==
    ASSUME ReaderInv,
           \/ ReadItem \/ CallItem \/ CallUndefined \/ LoopItem \/ EnterSubsection
           \/ LeaveSubsection \/ SkipRest \/ Report \/ HandlerFails
    PROVE  UNCHANGED Frames!frameVars
<1>1. Place /\ state = "reading" /\ todo # <<>>
  BY DEF ReaderInv, ReadItem, CallItem, CallUndefined, LoopItem, EnterSubsection,
         LeaveSubsection, SkipRest, Report, HandlerFails, Active
<1>2. section # NONE
  BY <1>1 DEF Place, Between, InEntries, AtName, InCustom, InSubsection, Custom, NONE
<1>3. data' = data /\ section' = section /\ seen' = seen /\ result' = result
      /\ state' \in {"reading", "undefined"}
  BY <1>1 DEF ReadItem, CallItem, CallUndefined, LoopItem, EnterSubsection, LeaveSubsection,
             SkipRest, Report, HandlerFails
<1>4. FrameVerdict' = FrameVerdict  BY <1>1, <1>3 DEF FrameVerdict
<1>5. CASE ReadItem \/ CallItem \/ CallUndefined \/ LoopItem \/ SkipRest \/ Report
  <2>1. guards' = guards /\ read_end' = read_end
    BY <1>5 DEF ReadItem, CallItem, CallUndefined, LoopItem, SkipRest, Report
  <2>2. FramePos' = FramePos  BY <1>2, <1>3, <2>1 DEF FramePos, RestoredEnd
  <2> QED BY <1>3, <1>4, <2>2, FrameStutter
<1>6. CASE EnterSubsection
  <2>1. guards' = Append(guards, read_end) /\ item.r = "enter"  BY <1>6 DEF EnterSubsection
  <2>2. ItemOfEnter  BY <1>1, <2>1, ItemCases, ItemKinds
  <2>3. guards = <<size>> /\ size \in Nat /\ read_end \in Nat
    BY <2>2 DEF ItemOfEnter, InCustom, ReaderInv, ValuesOK, Bytes, size
  <2>4. guards' = <<size, read_end>>  BY <2>1, <2>3, AppendToOne
  <2>5. Len(guards) = 1 /\ Len(guards') = 2 /\ guards'[2] = read_end  BY <2>3, <2>4
  <2>6. FramePos = read_end /\ FramePos' = read_end
    BY <1>2, <1>3, <2>5 DEF FramePos, RestoredEnd
  <2> QED BY <1>3, <1>4, <2>6, FrameStutter
<1>7. CASE LeaveSubsection
  <2>1. guards' = Front(guards) /\ read_end' = Last(guards)  BY <1>7 DEF LeaveSubsection
  <2>2. ItemOfLeave
    BY <1>1, <1>7, ItemCases, ItemKinds DEF LeaveSubsection
  <2>3. PICK g \in Nat : guards = <<size, g>>  BY <2>2 DEF ItemOfLeave
  <2>4. size \in Nat  BY DEF ReaderInv, ValuesOK, Bytes, size
  <2>5. guards' = <<size>> /\ read_end' = g  BY <2>1, <2>3, <2>4, FrontOfTwo
  <2>6. Len(guards) = 2 /\ guards[2] = g /\ Len(guards') = 1  BY <2>3, <2>4, <2>5
  <2>7. FramePos = g /\ FramePos' = g
    BY <1>2, <1>3, <2>5, <2>6 DEF FramePos, RestoredEnd
  <2> QED BY <1>3, <1>4, <2>7, FrameStutter
<1>8. CASE HandlerFails
  <2>1. read_end' = RestoredEnd /\ guards' = <<guards[1]>>  BY <1>8 DEF HandlerFails
  <2>2. Len(guards') = 1  BY <2>1
  <2>3. FramePos' = read_end'  BY <1>2, <1>3, <2>2 DEF FramePos, RestoredEnd
  <2>4. FramePos = RestoredEnd  BY <1>2 DEF FramePos
  <2> QED BY <1>3, <1>4, <2>1, <2>3, <2>4, FrameStutter
<1> QED BY <1>5, <1>6, <1>7, <1>8

\* A section that is left behind is left at its end; one that is not ends reading.
LEMMA FrameLeft ==
    ASSUME ReaderInv, EndSection
    PROVE  Frames!Reject \/ UNCHANGED Frames!frameVars
<1>1. ValuesOK /\ Place /\ section # NONE /\ todo = <<>> /\ state = "reading"
  BY DEF ReaderInv, EndSection
<1>2. guards = <<size>>  BY <1>1, AtEnd
<1> DEFINE stop == SectionFailed /\ ~IgnoreErrors
<1>3. /\ result' = IF stop \/ Unfinished THEN "Error" ELSE result
      /\ state' = IF stop THEN "returned" ELSE "reading"
      /\ offset' = IF SectionFailed /\ ~stop THEN read_end ELSE offset
      /\ section' = NONE /\ seen' = seen /\ data' = data
  BY DEF EndSection
<1>4. FramePos = read_end /\ FramePos' = offset'
  BY <1>1, <1>2, <1>3 DEF FramePos, RestoredEnd
<1>5. FrameVerdict = "none"  BY <1>1 DEF FrameVerdict
<1>6. CASE stop
  <2>1. FrameVerdict' = "rejected"  BY <1>3, <1>6 DEF FrameVerdict
  <2>2. FramePos' \in Nat  BY <1>1, <1>3, <1>4 DEF ValuesOK
  <2> QED BY <1>3, <1>5, <2>1, <2>2, FrameReject
<1>7. CASE ~stop
  <2>1. FrameVerdict' = "none"  BY <1>3, <1>7 DEF FrameVerdict
  <2>2. offset' = read_end
    BY <1>1, <1>3, <1>7 DEF ValuesOK, SectionFailed, Unfinished
  <2> QED BY <1>3, <1>4, <1>5, <2>1, <2>2, FrameStutter
<1> QED BY <1>6, <1>7

\* The end of ReadModule accepts the file at its end or rejects it.
LEMMA FrameEnds ==
    ASSUME ReaderInv, ReadModuleEnds
    PROVE  Frames!Accept \/ Frames!Reject
<1>1. ValuesOK /\ Place /\ section = NONE /\ state = "reading" /\ offset >= size
  BY DEF ReaderInv, ReadModuleEnds, BetweenSections
<1>2. Between  BY <1>1 DEF Place, InEntries, AtName, InCustom, InSubsection, Custom, NONE
<1>3. size \in Nat /\ offset \in Nat /\ size = Len(data)
  BY <1>1 DEF ValuesOK, Bytes, size
<1>4. offset = Len(data)  BY <1>1, <1>2, <1>3 DEF Between
<1>5. /\ UNCHANGED <<data, offset, read_end, guards, section, seen>>
      /\ state' = "returned" /\ result' \in {"Ok", "Error"}
  BY <1>1 DEF ReadModuleEnds, ValuesOK
<1>6. FramePos = offset /\ FramePos' = offset  BY <1>1, <1>5 DEF FramePos
<1>7. FrameVerdict = "none"  BY <1>1 DEF FrameVerdict
<1>8. CASE result' = "Ok"
  <2>1. FrameVerdict' = "accepted"  BY <1>5, <1>8 DEF FrameVerdict
  <2> QED BY <1>4, <1>5, <1>6, <1>7, <2>1
          DEF Frames!Accept, FramePos, FrameVerdict, RestoredEnd
<1>9. CASE result' = "Error"
  <2>1. FrameVerdict' = "rejected"  BY <1>5, <1>9 DEF FrameVerdict
  <2> QED BY <1>3, <1>5, <1>6, <1>7, <2>1, FrameReject
<1> QED BY <1>5, <1>8, <1>9

\* OrderInv holds of every state of the reader.
LEMMA OrderInvariant == ReaderSpec => []OrderInv
  BY ReaderInvariant, OrderInvInit, OrderInvNext, PTL DEF ReaderSpec

\* The first state of the reader is one of SectionFrames: nothing seen of a file.
LEMMA FramesStart == Init => Frames!FramesInit
<1> SUFFICES ASSUME Init PROVE Frames!FramesInit
  OBVIOUS
<1>1. /\ data \in Seq(0 .. 255) /\ section = NONE /\ offset = 0 /\ seen = {}
      /\ state = "reading"
  BY InputAssumption DEF Init, ReaderInit
<1>2. LastPlace = 0
  <2>1. PlacesSeen = {0}  BY <1>1 DEF PlacesSeen
  <2> QED BY <2>1, MaxIs DEF LastPlace
<1> QED BY <1>1, <1>2 DEF Frames!FramesInit, LastPlace, PlacesSeen

\* Every step of the reader is one of SectionFrames or leaves what it sees alone.
LEMMA FramesStep ==
    ASSUME ReaderInv, OrderInv, OrderInv', [Next]_modVars
    PROVE  [Frames!FramesNext]_(Frames!frameVars)
<1>1. CASE NextSection  BY <1>1, FrameTaken DEF Frames!FramesNext
<1>2. CASE RejectSection
  <2>1. /\ section = NONE /\ state = "reading" /\ state' = "returned" /\ result' = "Error"
        /\ section' = section /\ offset' = offset /\ seen' = seen /\ data' = data
    BY <1>2 DEF RejectSection, BetweenSections
  <2>2. offset \in Nat  BY DEF ReaderInv, ValuesOK
  <2>3. /\ FramePos' \in Nat /\ FrameVerdict = "none" /\ FrameVerdict' = "rejected"
    BY <2>1, <2>2 DEF FramePos, FrameVerdict
  <2> QED BY <2>1, <2>3, FrameReject DEF Frames!FramesNext
<1>3. CASE ReadModuleEnds  BY <1>3, FrameEnds DEF Frames!FramesNext
<1>4. CASE EndSection  BY <1>4, FrameLeft DEF Frames!FramesNext
<1>5. CASE \/ ReadItem \/ CallItem \/ CallUndefined \/ LoopItem \/ EnterSubsection
           \/ LeaveSubsection \/ SkipRest \/ Report \/ HandlerFails
  BY <1>5, FrameKept
<1>6. CASE UNCHANGED modVars
  <2>1. UNCHANGED <<data, offset, read_end, guards, section, seen, result, state>>
    BY <1>6 DEF modVars, readerVars
  <2>2. FramePos' = FramePos /\ FrameVerdict' = FrameVerdict
    BY <2>1 DEF FramePos, FrameVerdict, RestoredEnd
  <2> QED BY <2>1, <2>2, FrameStutter
<1> QED BY <1>1, <1>2, <1>3, <1>4, <1>5, <1>6 DEF Next

\* FramesImplemented: whatever the contents of the sections and whatever fails in a
\* custom one, the reader goes from section to section as SectionFrames says.
THEOREM ReaderRefinesFrames == ReaderSpec => FramesImplemented
  BY ReaderInvariant, OrderInvariant, FramesStart, FramesStep, PTL
  DEF ReaderSpec, FramesImplemented, Frames!FramesSpec

-----------------------------------------------------------------------------
(* The vectors of the builder.                                              *)

\* The elements of a sequence are numbered from 1.
LEMMA SeqDomain ==
    ASSUME NEW s, IsSeq(s)
    PROVE  Len(s) \in Nat /\ DOMAIN s = 1 .. Len(s)
<1>1. PICK S : s \in Seq(S)  BY DEF IsSeq
<1> QED BY <1>1, LenProperties

\* One element more.
Longer(s, e, t) == /\ IsSeq(t) /\ Len(t) = Len(s) + 1 /\ DOMAIN t = 1 .. Len(s) + 1
                   /\ t[Len(s) + 1] = e
                   /\ \A k \in DOMAIN s : k \in DOMAIN t /\ t[k] = s[k]

\* Append makes a sequence one element longer.
LEMMA SeqLonger ==
    ASSUME NEW s, IsSeq(s), NEW e
    PROVE  Longer(s, e, Append(s, e))
<1>1. PICK S : s \in Seq(S)  BY DEF IsSeq
<1>2. s \in Seq(S \cup {e})  BY <1>1, SeqMonotonic
<1> DEFINE t == Append(s, e)
<1>3. /\ t \in Seq(S \cup {e}) /\ Len(t) = Len(s) + 1
      /\ \A k \in 1 .. Len(s) : t[k] = s[k]
      /\ t[Len(s) + 1] = e
  BY <1>2, AppendProperties
<1>4. Len(s) \in Nat /\ DOMAIN s = 1 .. Len(s)  BY SeqDomain
<1> HIDE DEF t
<1>5. DOMAIN t = 1 .. Len(s) + 1  BY <1>3, LenProperties
<1>6. IsSeq(t)  BY <1>3 DEF IsSeq
<1>7. Longer(s, e, t)  BY <1>3, <1>4, <1>5, <1>6 DEF Longer
<1> QED BY <1>7 DEF t

\* The last one less.
LEMMA SeqShorter ==
    ASSUME NEW s, IsSeq(s), s # <<>>, NEW t, t = Front(s)
    PROVE  /\ IsSeq(t) /\ Len(s) \in Nat \ {0} /\ Len(t) = Len(s) - 1
           /\ DOMAIN t = 1 .. Len(s) - 1
           /\ \A k \in DOMAIN t : k \in DOMAIN s /\ t[k] = s[k]
<1>1. PICK S : s \in Seq(S)  BY DEF IsSeq
<1>2. Len(s) \in Nat \ {0} /\ DOMAIN s = 1 .. Len(s)  BY <1>1, EmptySeq, LenProperties
<1>3. t = SubSeq(s, 1, Len(s) - 1)  BY DEF Front
<1>4. /\ t \in Seq(S) /\ Len(t) = Len(s) - 1
      /\ \A k \in 1 .. Len(s) - 1 : t[k] = s[k]
  <2>1. \A k \in 1 .. Len(s) - 1 : s[k] \in S  BY <1>1, <1>2, ElementOfSeq
  <2>2. Len(s) - 1 \in Nat  BY <1>2
  <2> QED BY <1>1, <1>2, <1>3, <2>1, <2>2, SubSeqProperties
<1>5. DOMAIN t = 1 .. Len(s) - 1  BY <1>4, LenProperties
<1>6. IsSeq(t)  BY <1>4 DEF IsSeq
<1> QED BY <1>2, <1>4, <1>5, <1>6

\* One of them replaced.
LEMMA SeqReplaced ==
    ASSUME NEW s, IsSeq(s), NEW k, NEW e, NEW t, t = [s EXCEPT ![k] = e]
    PROVE  /\ IsSeq(t) /\ Len(t) = Len(s) /\ DOMAIN t = DOMAIN s
           /\ \A j \in DOMAIN s : t[j] = IF j = k THEN e ELSE s[j]
<1>1. PICK S : s \in Seq(S)  BY DEF IsSeq
<1>2. Len(s) \in Nat /\ DOMAIN s = 1 .. Len(s)  BY SeqDomain
<1>3. s = [j \in 1 .. Len(s) |-> s[j]]  BY <1>1, SeqDef
<1>4. DOMAIN t = DOMAIN s /\ \A j \in DOMAIN s : t[j] = IF j = k THEN e ELSE s[j]
  BY <1>3
<1>5. \A j \in 1 .. Len(s) : s[j] \in S  BY <1>1, <1>2, ElementOfSeq
<1>6. t = [j \in 1 .. Len(s) |-> IF j = k THEN e ELSE s[j]]  BY <1>2
<1>7. [j \in 1 .. Len(s) |-> IF j = k THEN e ELSE s[j]] \in Seq(S \cup {e})
  BY <1>2, <1>5, IsASeq
<1>8. t \in Seq(S \cup {e})  BY <1>6, <1>7
<1>9. Len(t) = Len(s)
  <2>1. Len(t) \in Nat /\ DOMAIN t = 1 .. Len(t)  BY <1>8, LenProperties
  <2> QED BY <1>2, <1>4, <2>1
<1> QED BY <1>4, <1>8, <1>9 DEF IsSeq

\* The callbacks that change the functions or the trees.
Vectorial == {"OnImportFunc", "OnFunction", "OnLocalDecl", "OnFunctionBinaryRead",
              "OnFunctionName", "OnFunctionSymbol"}
Arboreal == DOMAIN ExprMade \cup DOMAIN Opened \cup
            {"BeginFunctionBody", "OnElseExpr", "OnCatchExpr", "OnEndExpr", "EndFunctionBody"}

\* The callbacks of expressions are none of those of the sections.
LEMMA ExprCalls ==
    /\ DOMAIN ExprMade \cap (EntryCalls \cup Remembering) = {}
    /\ DOMAIN Opened \cap (EntryCalls \cup Remembering) = {}
    /\ DOMAIN ExprMade \cap DOMAIN Opened = {}
    /\ (DOMAIN ExprMade \cup DOMAIN Opened) \cap
           {"OnLocalDecl", "OnElseExpr", "OnCatchExpr", "OnEndExpr", "OnEndFunc",
            "OnFunctionBodyCount"} = {}
<1>1. DOMAIN ExprMade =
          DOMAIN AtomicExprs \cup DOMAIN BranchExprs \cup DOMAIN ConstExprs
          \cup DOMAIN MemoryExprs \cup DOMAIN TableExprs \cup DOMAIN SetExprs
          \cup DOMAIN OperatorExprs \cup DOMAIN SimdExprs
  <2>1. DOMAIN ExprMade = UNION {DOMAIN t : t \in ExprTables}  BY DEF ExprMade
  <2>2. \A a, b, c, d, e, f, g, h :
            UNION {DOMAIN t : t \in {a, b, c, d, e, f, g, h}} =
                DOMAIN a \cup DOMAIN b \cup DOMAIN c \cup DOMAIN d \cup DOMAIN e
                \cup DOMAIN f \cup DOMAIN g \cup DOMAIN h
    OBVIOUS
  <2> QED BY <2>1, <2>2 DEF ExprTables
<1> DEFINE Other == EntryCalls \cup Remembering \cup DOMAIN Opened \cup
                    {"OnLocalDecl", "OnElseExpr", "OnCatchExpr", "OnEndExpr", "OnEndFunc",
                     "OnFunctionBodyCount"}
<1>2. /\ DOMAIN AtomicExprs \cap Other = {} /\ DOMAIN BranchExprs \cap Other = {}
  BY DEF AtomicExprs, BranchExprs, Opened, EntryCalls, Remembering, Naming, Initializing, Importing
<1>3. /\ DOMAIN ConstExprs \cap Other = {} /\ DOMAIN MemoryExprs \cap Other = {}
  BY DEF ConstExprs, MemoryExprs, Opened, EntryCalls, Remembering, Naming, Initializing, Importing
<1>4. /\ DOMAIN TableExprs \cap Other = {} /\ DOMAIN SetExprs \cap Other = {}
  BY DEF TableExprs, SetExprs, Opened, EntryCalls, Remembering, Naming, Initializing, Importing
<1>5. /\ DOMAIN OperatorExprs \cap Other = {} /\ DOMAIN SimdExprs \cap Other = {}
  BY DEF OperatorExprs, SimdExprs, Opened, EntryCalls, Remembering, Naming, Initializing, Importing
<1>6. DOMAIN Opened \cap (EntryCalls \cup Remembering \cup
          {"OnLocalDecl", "OnElseExpr", "OnCatchExpr", "OnEndExpr", "OnEndFunc",
           "OnFunctionBodyCount"}) = {}
  BY DEF Opened, EntryCalls, Remembering, Naming, Initializing, Importing
<1>7. DOMAIN ExprMade \cap Other = {}
  <2> HIDE DEF Other
  <2> QED BY <1>1, <1>2, <1>3, <1>4, <1>5
<1> QED BY <1>6, <1>7

\* What a callback does with the functions and with the imports counted.
LEMMA FuncsAfter ==
    ASSUME NEW cb, Delegate(cb)
    PROVE  /\ cb.f \notin Vectorial => funcs' = funcs
           /\ cb.f \in {"OnImportFunc", "OnFunction"} => funcs' = Append(funcs, NewFunc(cb.x))
           /\ cb.f = "OnLocalDecl" =>
                  funcs' = [funcs EXCEPT ![current_func + 1].locals = @ + cb.x]
           /\ cb.f = "OnFunctionBinaryRead" =>
                  funcs' = [funcs EXCEPT ![cb.x.index + 1].wasm_bin = <<cb.x.begin, cb.x.end>>]
           /\ cb.f \in {"OnFunctionName", "OnFunctionSymbol"} => OnFunctionName(cb)
<1>1. CASE OnFuncType(cb) \/ OnStructType(cb) \/ OnTable(cb) \/ OnMemory(cb) \/ BeginGlobal(cb)
           \/ OnEventType(cb) \/ OnExport(cb) \/ OnStartFunction(cb) \/ BeginElemSegment(cb)
           \/ OnElemSegmentElemExpr(cb) \/ BeginDataSegment(cb) \/ OnDataSegmentData(cb)
  BY <1>1 DEF OnFuncType, OnStructType, OnTable, OnMemory, BeginGlobal, OnEventType, OnExport,
              OnStartFunction, BeginElemSegment, OnElemSegmentElemExpr, BeginDataSegment,
              OnDataSegmentData, Vectorial
<1>2. CASE OnImport(cb)
  <2>1. CASE cb.f = "OnImportFunc"
    <3>1. ImportKind["OnImportFunc"] = "func"  BY DEF ImportKind
    <3>2. AppendFunc(cb.x)  BY <1>2, <2>1, <3>1 DEF OnImport, AppendImport
    <3> QED BY <2>1, <3>2 DEF AppendFunc, Vectorial
  <2>2. CASE cb.f # "OnImportFunc"
    <3>1. cb.f \in DOMAIN ImportKind /\ ImportKind[cb.f] # "func"
      BY <1>2, <2>2 DEF OnImport, ImportKind
    <3>2. funcs' = funcs  BY <1>2, <3>1 DEF OnImport, AppendImport
    <3>3. cb.f \notin Vectorial  BY <2>2, <3>1 DEF ImportKind, Vectorial
    <3> QED BY <3>2, <3>3 DEF Vectorial
  <2> QED BY <2>1, <2>2
<1>3. CASE OnFunction(cb)  BY <1>3 DEF OnFunction, AppendFunc, Vectorial
<1>4. CASE BeginInitExpr(cb) \/ OnInitExpr(cb) \/ EndInitExpr(cb) \/ BeginFunctionBody(cb)
           \/ OnElseExpr(cb) \/ OnCatchExpr(cb) \/ OnEndExpr(cb) \/ EndFunctionBody(cb)
           \/ OnName(cb)
  BY <1>4 DEF BeginInitExpr, OnInitExpr, EndInitExpr, BeginFunctionBody, OnElseExpr, OnCatchExpr,
              OnEndExpr, EndFunctionBody, OnName, vectors, Vectorial
<1>5. CASE OnLocalDecl(cb) \/ OnFunctionBinaryRead(cb)
  BY <1>5 DEF OnLocalDecl, OnFunctionBinaryRead, Vectorial
<1>6. CASE OnExpr(cb) \/ OnOpenExpr(cb)
  <2>1. cb.f \in DOMAIN ExprMade \cup DOMAIN Opened  BY <1>6 DEF OnExpr, OnOpenExpr
  <2>2. cb.f \notin Vectorial  BY <2>1, ExprCalls DEF Vectorial, EntryCalls, Naming, Importing, Remembering
  <2>3. funcs' = funcs  BY <1>6 DEF OnExpr, OnOpenExpr, vectors
  <2> QED BY <2>2, <2>3 DEF Vectorial
<1>7. CASE OnFunctionName(cb)  BY <1>7 DEF OnFunctionName, Vectorial
<1>8. CASE Nop(cb)
  <2>1. cb.f \notin Vectorial /\ funcs' = funcs  BY <1>8 DEF Nop, Acts, Vectorial, irVars
  <2> QED BY <2>1 DEF Vectorial
<1> QED BY <1>1, <1>2, <1>3, <1>4, <1>5, <1>6, <1>7, <1>8 DEF Delegate

\* What a callback does with the labels and the expressions.
LEMMA TreesAfter ==
    ASSUME NEW cb, Delegate(cb)
    PROVE  /\ cb.f \notin Arboreal => label_stack' = label_stack /\ exprs' = exprs
           /\ cb.f \in DOMAIN ExprMade => OnExpr(cb)
           /\ cb.f \in DOMAIN Opened => OnOpenExpr(cb)
           /\ cb.f = "BeginFunctionBody" => BeginFunctionBody(cb)
           /\ cb.f = "OnElseExpr" => OnElseExpr(cb)
           /\ cb.f = "OnCatchExpr" => OnCatchExpr(cb)
           /\ cb.f \in {"OnEndExpr", "EndFunctionBody"} =>
                  label_stack' = Front(label_stack) /\ exprs' = exprs
<1> DEFINE Exprs == DOMAIN ExprMade \cup DOMAIN Opened
           Kept  == label_stack' = label_stack /\ exprs' = exprs
           Rest  == {"BeginFunctionBody", "OnElseExpr", "OnCatchExpr", "OnEndExpr",
                     "EndFunctionBody"}
<1>0. /\ Exprs \cap (EntryCalls \cup Remembering \cup {"OnLocalDecl"} \cup Rest) = {}
      /\ DOMAIN ExprMade \cap DOMAIN Opened = {}
  BY ExprCalls DEF Remembering
<1>1. ASSUME cb.f \in EntryCalls \cup {"OnLocalDecl", "OnFunctionBinaryRead"}, Kept
      PROVE  cb.f \notin Exprs \cup Rest /\ Kept
  <2>1. cb.f \notin Exprs  BY <1>0, <1>1 DEF Remembering
  <2>2. cb.f \notin Rest
    BY <1>1 DEF EntryCalls, Naming, Initializing, Importing
  <2> QED BY <1>1, <2>1, <2>2
<1>2. CASE OnFuncType(cb) \/ OnStructType(cb) \/ OnTable(cb) \/ OnMemory(cb) \/ BeginGlobal(cb)
           \/ OnEventType(cb) \/ OnExport(cb) \/ OnStartFunction(cb) \/ BeginElemSegment(cb)
           \/ OnElemSegmentElemExpr(cb) \/ BeginDataSegment(cb) \/ OnDataSegmentData(cb)
  <2>1. cb.f \in EntryCalls
    BY <1>2 DEF OnFuncType, OnStructType, OnTable, OnMemory, BeginGlobal, OnEventType, OnExport,
              OnStartFunction, BeginElemSegment, OnElemSegmentElemExpr, BeginDataSegment,
              OnDataSegmentData, EntryCalls
  <2>2. Kept
    BY <1>2 DEF OnFuncType, OnStructType, OnTable, OnMemory, BeginGlobal, OnEventType, OnExport,
              OnStartFunction, BeginElemSegment, OnElemSegmentElemExpr, BeginDataSegment,
              OnDataSegmentData, building
  <2> QED BY <1>1, <2>1, <2>2
<1>3. CASE OnImport(cb) \/ OnFunction(cb) \/ BeginInitExpr(cb) \/ OnInitExpr(cb)
           \/ EndInitExpr(cb)
  <2>1. cb.f \in EntryCalls
    BY <1>3 DEF OnImport, OnFunction, BeginInitExpr, OnInitExpr, EndInitExpr, EntryCalls,
                Initializing, Importing, ImportKind
  <2>2. Kept
    BY <1>3 DEF OnImport, OnFunction, BeginInitExpr, OnInitExpr, EndInitExpr, building
  <2> QED BY <1>1, <2>1, <2>2
<1>4. CASE OnLocalDecl(cb) \/ OnFunctionBinaryRead(cb) \/ OnFunctionName(cb) \/ OnName(cb)
  <2>1. cb.f \in EntryCalls \cup {"OnLocalDecl", "OnFunctionBinaryRead"}
    BY <1>4 DEF OnLocalDecl, OnFunctionBinaryRead, OnFunctionName, OnName, EntryCalls, Naming
  <2>2. Kept
    BY <1>4 DEF OnLocalDecl, OnFunctionBinaryRead, OnFunctionName, OnName, building
  <2> QED BY <1>1, <2>1, <2>2
<1>5. CASE OnExpr(cb)  BY <1>0, <1>5 DEF OnExpr, Arboreal
<1>6. CASE OnOpenExpr(cb)  BY <1>0, <1>6 DEF OnOpenExpr, Arboreal
<1>7. CASE BeginFunctionBody(cb)
  <2>1. cb.f = "BeginFunctionBody"  BY <1>7 DEF BeginFunctionBody
  <2>2. cb.f \notin Exprs  BY <1>0, <2>1
  <2> QED BY <1>7, <2>1, <2>2 DEF Arboreal
<1>8. CASE OnElseExpr(cb)
  <2>1. cb.f = "OnElseExpr"  BY <1>8 DEF OnElseExpr
  <2>2. cb.f \notin Exprs  BY <1>0, <2>1
  <2> QED BY <1>8, <2>1, <2>2 DEF Arboreal
<1>9. CASE OnCatchExpr(cb)
  <2>1. cb.f = "OnCatchExpr"  BY <1>9 DEF OnCatchExpr
  <2>2. cb.f \notin Exprs  BY <1>0, <2>1
  <2> QED BY <1>9, <2>1, <2>2 DEF Arboreal
<1>10. CASE OnEndExpr(cb) \/ EndFunctionBody(cb)
  <2>1. /\ cb.f \in {"OnEndExpr", "EndFunctionBody"}
        /\ label_stack' = Front(label_stack) /\ exprs' = exprs
    BY <1>10 DEF OnEndExpr, EndFunctionBody
  <2>2. cb.f \notin Exprs  BY <1>0, <2>1
  <2> QED BY <2>1, <2>2 DEF Arboreal
<1>11. CASE Nop(cb)
  <2>1. cb.f \notin Acts /\ Kept  BY <1>11 DEF Nop, irVars
  <2>2. Arboreal \subseteq Acts  BY DEF Arboreal, Acts
  <2> QED BY <2>1, <2>2 DEF Arboreal
<1> HIDE DEF Exprs, Kept, Rest
<1>12. (cb.f \notin Exprs \cup Rest /\ Kept) =>
         /\ cb.f \notin Arboreal => Kept
         /\ cb.f \notin DOMAIN ExprMade /\ cb.f \notin DOMAIN Opened
         /\ cb.f \notin {"BeginFunctionBody", "OnElseExpr", "OnCatchExpr", "OnEndExpr",
                         "EndFunctionBody"}
  BY DEF Exprs, Rest
<1> QED BY <1>2, <1>3, <1>4, <1>5, <1>6, <1>7, <1>8, <1>9, <1>10, <1>11, <1>12
        DEF Delegate, Kept

-----------------------------------------------------------------------------
(* The functions.                                                           *)

FuncKeys == {"params", "locals", "wasm_bin", "name"}
FuncsOK  == IsSeq(funcs) /\ \A f \in DOMAIN funcs : DOMAIN funcs[f] = FuncKeys
BinsKept == /\ Len(funcs') = Len(funcs)
            /\ \A f \in DOMAIN funcs : funcs'[f].wasm_bin = funcs[f].wasm_bin
Appending == {"OnImportFunc", "OnFunction"}

\* A field of a function, other than its bytes, is set.
LEMMA FieldSet ==
    ASSUME FuncsOK, NEW k, NEW r, funcs' = [funcs EXCEPT ![k] = r], 
           k \in DOMAIN funcs => DOMAIN r = FuncKeys /\ r.wasm_bin = funcs[k].wasm_bin
    PROVE  FuncsOK' /\ BinsKept
<1>1. /\ IsSeq(funcs') /\ Len(funcs') = Len(funcs) /\ DOMAIN funcs' = DOMAIN funcs
      /\ \A j \in DOMAIN funcs : funcs'[j] = IF j = k THEN r ELSE funcs[j]
  BY SeqReplaced DEF FuncsOK
<1> QED BY <1>1 DEF FuncsOK, BinsKept

\* What a callback does with the number of functions and with their bytes.
LEMMA FuncsKept ==
    ASSUME FuncsOK, NEW cb, Delegate(cb)
    PROVE  /\ FuncsOK'
           /\ cb.f \in Appending => Len(funcs') = Len(funcs) + 1
           /\ cb.f \notin Appending \cup {"OnFunctionBinaryRead"} => BinsKept
           /\ cb.f = "OnFunctionBinaryRead" =>
                  /\ Len(funcs') = Len(funcs)
                  /\ \A f \in DOMAIN funcs : funcs'[f].wasm_bin =
                        IF f = cb.x.index + 1 THEN <<cb.x.begin, cb.x.end>>
                        ELSE funcs[f].wasm_bin
<1>1. CASE cb.f \notin Vectorial
  <2>1. funcs' = funcs  BY <1>1, FuncsAfter
  <2>2. cb.f \notin Appending \cup {"OnFunctionBinaryRead"}  BY <1>1 DEF Vectorial, Appending
  <2> QED BY <2>1, <2>2 DEF FuncsOK, BinsKept
<1>2. CASE cb.f \in Appending
  <2>1. funcs' = Append(funcs, NewFunc(cb.x))  BY <1>2, FuncsAfter DEF Appending
  <2>2. DOMAIN NewFunc(cb.x) = FuncKeys  BY DEF NewFunc, FuncKeys
  <2>3. /\ IsSeq(funcs') /\ Len(funcs') = Len(funcs) + 1 /\ DOMAIN funcs' = 1 .. Len(funcs) + 1
        /\ funcs'[Len(funcs) + 1] = NewFunc(cb.x)
        /\ \A k \in DOMAIN funcs : k \in DOMAIN funcs' /\ funcs'[k] = funcs[k]
    <3> DEFINE e == NewFunc(cb.x)
    <3>1. IsSeq(funcs) /\ funcs' = Append(funcs, e)  BY <2>1 DEF FuncsOK
    <3> HIDE DEF e
    <3>2. Longer(funcs, e, funcs')  BY <3>1, SeqLonger, Zenon
    <3> QED BY <3>2 DEF Longer, e
  <2>4. Len(funcs) \in Nat /\ DOMAIN funcs = 1 .. Len(funcs)  BY SeqDomain DEF FuncsOK
  <2>5. \A k \in DOMAIN funcs' : k \in DOMAIN funcs \/ k = Len(funcs) + 1  BY <2>3, <2>4
  <2>6. FuncsOK'  BY <2>2, <2>3, <2>5 DEF FuncsOK
  <2>7. cb.f # "OnFunctionBinaryRead"  BY <1>2 DEF Appending
  <2> QED BY <1>2, <2>3, <2>6, <2>7
<1>3. CASE cb.f = "OnLocalDecl"
  <2> DEFINE k == current_func + 1
             r == [funcs[k] EXCEPT !.locals = @ + cb.x]
  <2>1. funcs' = [funcs EXCEPT ![k] = r]  BY <1>3, FuncsAfter
  <2>2. k \in DOMAIN funcs => DOMAIN r = FuncKeys /\ r.wasm_bin = funcs[k].wasm_bin
    BY DEF FuncsOK, FuncKeys
  <2> HIDE DEF k, r
  <2> QED BY <1>3, <2>1, <2>2, FieldSet DEF Appending
<1>4. CASE cb.f \in {"OnFunctionName", "OnFunctionSymbol"}
  <2>1. OnFunctionName(cb)  BY <1>4, FuncsAfter
  <2>2. CASE funcs' = funcs
    BY <1>4, <2>2 DEF FuncsOK, BinsKept, Appending
  <2>3. CASE NameFunction(cb.x.index, cb.x.name)
    <3> DEFINE k == cb.x.index + 1
               r == [funcs[k] EXCEPT !.name = GetUniqueName(Function, cb.x.name)]
    <3>1. funcs' = [funcs EXCEPT ![k] = r]  BY <2>3 DEF NameFunction
    <3>2. k \in DOMAIN funcs => DOMAIN r = FuncKeys /\ r.wasm_bin = funcs[k].wasm_bin
      BY DEF FuncsOK, FuncKeys
    <3> HIDE DEF k, r
    <3> QED BY <1>4, <3>1, <3>2, FieldSet DEF Appending
  <2> QED BY <2>1, <2>2, <2>3 DEF OnFunctionName
<1>5. CASE cb.f = "OnFunctionBinaryRead"
  <2> DEFINE k == cb.x.index + 1
             b == <<cb.x.begin, cb.x.end>>
             r == [funcs[k] EXCEPT !.wasm_bin = b]
  <2>1. funcs' = [funcs EXCEPT ![k] = r]  BY <1>5, FuncsAfter
  <2>2. k \in DOMAIN funcs => DOMAIN r = FuncKeys /\ r.wasm_bin = b
    BY DEF FuncsOK, FuncKeys
  <2> HIDE DEF r
  <2>3. /\ IsSeq(funcs') /\ Len(funcs') = Len(funcs) /\ DOMAIN funcs' = DOMAIN funcs
        /\ \A j \in DOMAIN funcs : funcs'[j] = IF j = k THEN r ELSE funcs[j]
    <3>1. IsSeq(funcs)  BY DEF FuncsOK
    <3> HIDE DEF k, b
    <3> QED BY <2>1, <3>1, SeqReplaced
  <2>4. FuncsOK'  BY <2>2, <2>3 DEF FuncsOK
  <2>5. \A j \in DOMAIN funcs : funcs'[j].wasm_bin = IF j = k THEN b ELSE funcs[j].wasm_bin
    BY <2>2, <2>3
  <2>6. cb.f \notin Appending  BY <1>5 DEF Appending
  <2> QED BY <1>5, <2>3, <2>4, <2>5, <2>6
<1> QED BY <1>1, <1>2, <1>3, <1>4, <1>5 DEF Vectorial, Appending

\* A set of natural numbers that has an element has a least one, and Min is it.
LEMMA MinIsLeast ==
    ASSUME NEW D, D \subseteq Nat, D # {}
    PROVE  Min(D) \in D /\ \A k \in D : Min(D) <= k
<1> DEFINE Below == OpToRel(<, Nat)
<1>1. IsWellFoundedOn(Below, Nat)  BY NatLessThanWellFounded
<1>2. \A x, y \in Nat : x < y => <<x, y>> \in Below  BY DEF OpToRel
<1> HIDE DEF Below
<1>3. PICK m \in D : \A k \in D : ~ (<<k, m>> \in Below)  BY <1>1, WFMin
<1>4. \A k \in D : m <= k
  <2> SUFFICES ASSUME NEW k \in D, ~ (m <= k) PROVE FALSE
    OBVIOUS
  <2>1. k \in Nat /\ m \in Nat /\ k < m  OBVIOUS
  <2> QED BY <1>2, <1>3, <2>1
<1> QED BY <1>4, Zenon DEF Min

\* Different counters make different names.
LEMMA SuffixesDiffer ==
    ASSUME NEW s \in Bytes, NEW j \in Nat, NEW k \in Nat, s \o Suffix(j) = s \o Suffix(k)
    PROVE  j = k
<1>1. Suffix(0) = <<>>  BY DEF Suffix
<1>2. \A n \in Nat \ {0} : Suffix(n) = <<46, 48 + n>>  BY DEF Suffix
<1>3. s \in Seq(Nat) /\ Len(s) \in Nat
  <2> DEFINE B == 0 .. 255
  <2>1. B \subseteq Nat /\ s \in Seq(B)  BY DEF Bytes
  <2> HIDE DEF B
  <2>2. s \in Seq(Nat)  BY <2>1, SeqMonotonic
  <2> QED BY <2>2, LenProperties
<1>4. s \o <<>> = s  BY <1>3, ConcatEmptySeq
<1>5. \A a, b \in Nat : /\ Len(s \o <<a, b>>) = Len(s) + 2
                        /\ (s \o <<a, b>>)[Len(s) + 2] = b
  <2> SUFFICES ASSUME NEW a \in Nat, NEW b \in Nat
               PROVE  /\ Len(s \o <<a, b>>) = Len(s) + 2
                      /\ (s \o <<a, b>>)[Len(s) + 2] = b
    OBVIOUS
  <2>1. <<a, b>> \in Seq(Nat) /\ Len(<<a, b>>) = 2 /\ <<a, b>>[2] = b  OBVIOUS
  <2> DEFINE u == <<a, b>>
  <2>2. u \in Seq(Nat) /\ Len(u) = 2 /\ u[2] = b  BY <2>1
  <2> HIDE DEF u
  <2>3. Len(s \o u) = Len(s) + 2 /\ (s \o u)[Len(s) + 2] = u[2]
    <3>1. /\ Len(s \o u) = Len(s) + Len(u)
          /\ \A i \in 1 .. Len(s) + Len(u) :
                 (s \o u)[i] = IF i <= Len(s) THEN s[i] ELSE u[i - Len(s)]
      BY <1>3, <2>2, ConcatProperties
    <3>2. Len(s) + 2 \in 1 .. Len(s) + Len(u) /\ ~ (Len(s) + 2 <= Len(s))
          /\ Len(s) + 2 - Len(s) = 2
      BY <1>3, <2>2
    <3> QED BY <2>2, <3>1, <3>2
  <2> QED BY <2>2, <2>3 DEF u
<1>6. CASE j = 0 /\ k # 0
  <2>1. s \o <<46, 48 + k>> = s  BY <1>1, <1>2, <1>4, <1>6
  <2>2. Len(s \o <<46, 48 + k>>) = Len(s) + 2  BY <1>5
  <2> QED BY <1>3, <2>1, <2>2
<1>7. CASE j # 0 /\ k = 0
  <2>1. s \o <<46, 48 + j>> = s  BY <1>1, <1>2, <1>4, <1>7
  <2>2. Len(s \o <<46, 48 + j>>) = Len(s) + 2  BY <1>5
  <2> QED BY <1>3, <2>1, <2>2
<1>8. CASE j # 0 /\ k # 0
  <2>1. s \o <<46, 48 + j>> = s \o <<46, 48 + k>>  BY <1>2, <1>8
  <2>2. 48 + j = 48 + k  BY <1>5, <2>1
  <2> QED BY <2>2
<1> QED BY <1>6, <1>7, <1>8

\* GetUniqueName finds a name its kind does not have.
LEMMA UniqueNameIsFree ==
    ASSUME IsFiniteSet(bindings), NEW kind, NEW s \in Bytes
    PROVE  GetUniqueName(kind, s) \notin NamesOf(kind)
<1> DEFINE n == Cardinality(bindings)
           D == {k \in 0 .. n : s \o Suffix(k) \notin NamesOf(kind)}
           mine == {c \in bindings : c.kind = kind}
<1>1. n \in Nat  BY FS_CardinalityType
<1>2. IsFiniteSet(NamesOf(kind)) /\ Cardinality(NamesOf(kind)) <= n
  <2>1. IsFiniteSet(mine) /\ Cardinality(mine) <= n
    <3>1. mine \in SUBSET bindings  OBVIOUS
    <3> QED BY <3>1, FS_Subset
  <2> DEFINE f == [b \in mine |-> b.name]
  <2>2. f \in Surjection(mine, NamesOf(kind))
    <3>1. NamesOf(kind) = {b.name : b \in mine}  BY DEF NamesOf
    <3> QED BY <3>1 DEF Surjection
  <2> HIDE DEF f, mine
  <2>3. IsFiniteSet(NamesOf(kind)) /\ Cardinality(NamesOf(kind)) <= Cardinality(mine)
    BY <2>1, <2>2, FS_Surjection
  <2>4. Cardinality(mine) \in Nat /\ Cardinality(NamesOf(kind)) \in Nat
    BY <2>1, <2>3, FS_CardinalityType
  <2> QED BY <1>1, <2>1, <2>3, <2>4
<1>3. D # {}
  <2> SUFFICES ASSUME D = {} PROVE FALSE
    OBVIOUS
  <2> DEFINE g == [k \in 0 .. n |-> s \o Suffix(k)]
  <2>1. g \in [0 .. n -> NamesOf(kind)]
    <3>1. \A k \in 0 .. n : s \o Suffix(k) \in NamesOf(kind)  OBVIOUS
    <3> QED BY <3>1
  <2>2. \A j, k \in 0 .. n : g[j] = g[k] => j = k
    <3> SUFFICES ASSUME NEW j \in 0 .. n, NEW k \in 0 .. n, g[j] = g[k] PROVE j = k
      OBVIOUS
    <3>1. j \in Nat /\ k \in Nat  BY <1>1
    <3>2. s \o Suffix(j) = s \o Suffix(k)  OBVIOUS
    <3> QED BY <3>1, <3>2, SuffixesDiffer
  <2>3. IsFiniteSet(0 .. n) /\ Cardinality(0 .. n) = n + 1
    <3>1. 0 \in Int /\ n \in Int /\ ~ (0 > n) /\ n - 0 + 1 = n + 1  BY <1>1
    <3> HIDE DEF n
    <3> QED BY <3>1, FS_Interval
  <2>4. Cardinality(NamesOf(kind)) < Cardinality(0 .. n)
    <3>1. Cardinality(NamesOf(kind)) \in Nat  BY <1>2, FS_CardinalityType
    <3> QED BY <1>1, <1>2, <2>3, <3>1
  <2> HIDE DEF g, n
  <2>5. \E x, y \in 0 .. n : x # y /\ g[x] = g[y]
    <3> DEFINE S == 0 .. n
               T == NamesOf(kind)
    <3>1. /\ IsFiniteSet(S) /\ IsFiniteSet(T) /\ Cardinality(T) < Cardinality(S)
          /\ g \in [S -> T]
      BY <1>2, <2>1, <2>3, <2>4
    <3> HIDE DEF S, T
    <3>2. \E x, y \in S : x # y /\ g[x] = g[y]  BY <3>1, FS_PigeonHole
    <3> QED BY <3>2 DEF S
  <2> QED BY <2>2, <2>5
<1>4. D \subseteq Nat  BY <1>1
<1>5. Min(D) \in D  BY <1>3, <1>4, MinIsLeast
<1>6. GetUniqueName(kind, s) = s \o Suffix(Min(D))  BY DEF GetUniqueName
<1> QED BY <1>5, <1>6

FunctionNaming == {"OnFunctionName", "OnFunctionSymbol"}

\* What a callback does with the names that are bound.
LEMMA BindingsAfter ==
    ASSUME NEW cb, Delegate(cb)
    PROVE  /\ cb.f \notin Naming => bindings' = bindings
           /\ cb.f \in FunctionNaming => OnFunctionName(cb)
           /\ cb.f \in Naming \ FunctionNaming => OnName(cb)
<1> DEFINE Kept == bindings' = bindings
<1>1. CASE OnFuncType(cb) \/ OnStructType(cb) \/ OnTable(cb) \/ OnMemory(cb) \/ BeginGlobal(cb)
           \/ OnEventType(cb) \/ OnExport(cb) \/ OnStartFunction(cb) \/ BeginElemSegment(cb)
           \/ OnElemSegmentElemExpr(cb) \/ BeginDataSegment(cb) \/ OnDataSegmentData(cb)
  <2>1. cb.f \notin Naming
    BY <1>1 DEF OnFuncType, OnStructType, OnTable, OnMemory, BeginGlobal, OnEventType, OnExport,
              OnStartFunction, BeginElemSegment, OnElemSegmentElemExpr, BeginDataSegment,
              OnDataSegmentData, Naming
  <2>2. Kept
    BY <1>1 DEF OnFuncType, OnStructType, OnTable, OnMemory, BeginGlobal, OnEventType, OnExport,
              OnStartFunction, BeginElemSegment, OnElemSegmentElemExpr, BeginDataSegment,
              OnDataSegmentData, building
  <2> QED BY <2>1, <2>2 DEF Naming, FunctionNaming
<1>2. CASE OnImport(cb) \/ OnFunction(cb) \/ BeginInitExpr(cb) \/ OnInitExpr(cb)
           \/ EndInitExpr(cb) \/ OnLocalDecl(cb) \/ OnFunctionBinaryRead(cb)
  <2>1. cb.f \notin Naming
    BY <1>2 DEF OnImport, OnFunction, BeginInitExpr, OnInitExpr, EndInitExpr, Naming,
                ImportKind, OnLocalDecl, OnFunctionBinaryRead
  <2>2. Kept
    BY <1>2 DEF OnImport, OnFunction, BeginInitExpr, OnInitExpr, EndInitExpr, building,
                OnLocalDecl, OnFunctionBinaryRead
  <2> QED BY <2>1, <2>2 DEF Naming, FunctionNaming
<1>3. CASE OnExpr(cb) \/ OnOpenExpr(cb)
  <2>1. cb.f \in DOMAIN ExprMade \cup DOMAIN Opened  BY <1>3 DEF OnExpr, OnOpenExpr
  <2>2. cb.f \notin Naming  BY <2>1, ExprCalls DEF EntryCalls
  <2>3. Kept  BY <1>3 DEF OnExpr, OnOpenExpr
  <2> QED BY <2>2, <2>3 DEF Naming, FunctionNaming
<1>4. CASE BeginFunctionBody(cb) \/ OnElseExpr(cb) \/ OnCatchExpr(cb) \/ OnEndExpr(cb)
           \/ EndFunctionBody(cb)
  <2>1. cb.f \notin Naming
    BY <1>4 DEF BeginFunctionBody, OnElseExpr, OnCatchExpr, OnEndExpr, EndFunctionBody, Naming
  <2>2. Kept
    BY <1>4 DEF BeginFunctionBody, OnElseExpr, OnCatchExpr, OnEndExpr, EndFunctionBody
  <2> QED BY <2>1, <2>2 DEF Naming, FunctionNaming
<1>5. CASE OnFunctionName(cb)  BY <1>5 DEF OnFunctionName, Naming, FunctionNaming
<1>6. CASE OnName(cb)  BY <1>6 DEF OnName, Naming, FunctionNaming
<1>7. CASE Nop(cb)
  <2>1. cb.f \notin Acts /\ Kept  BY <1>7 DEF Nop, irVars
  <2>2. Naming \subseteq Acts  BY DEF Naming, Acts
  <2> QED BY <2>1, <2>2 DEF Naming, FunctionNaming
<1> QED BY <1>1, <1>2, <1>3, <1>4, <1>5, <1>6, <1>7 DEF Delegate

-----------------------------------------------------------------------------
(* Names.                                                                   *)

Unshared   == \A b, c \in bindings : b.kind = c.kind /\ b.name = c.name => b = c
Named(f)   == [kind |-> Function, name |-> funcs[f].name, index |-> f - 1] \in bindings
FuncsNamed == \A f \in DOMAIN funcs : funcs[f].name # <<>> => Named(f)
NamesInv   == FuncsOK /\ IsFiniteSet(bindings) /\ Unshared /\ FuncsNamed

\* No function is given a name.
Unnamed == \A f \in DOMAIN funcs' :
               \/ f \in DOMAIN funcs /\ funcs'[f].name = funcs[f].name
               \/ funcs'[f].name = <<>>

\* A name is bound that its kind does not have.
LEMMA BindKeeps ==
    ASSUME IsFiniteSet(bindings), Unshared, NEW kind, NEW i, NEW s \in Bytes, Bind(kind, i, s)
    PROVE  IsFiniteSet(bindings') /\ Unshared' /\ bindings \subseteq bindings'
<1> DEFINE name == GetUniqueName(kind, s)
           new  == [kind |-> kind, name |-> name, index |-> i]
<1>1. name \notin NamesOf(kind)  BY UniqueNameIsFree
<1>2. bindings' = bindings \cup {new}  BY DEF Bind
<1>3. \A b \in bindings : ~ (b.kind = kind /\ b.name = name)
  <2> HIDE DEF name
  <2> QED BY <1>1 DEF NamesOf
<1>4. new.kind = kind /\ new.name = name  OBVIOUS
<1> HIDE DEF new, name
<1>5. IsFiniteSet(bindings')  BY <1>2, FS_AddElement
<1>6. Unshared'  BY <1>2, <1>3, <1>4 DEF Unshared
<1> QED BY <1>2, <1>5, <1>6

\* Nothing is bound and no function is given a name, or something else is named.
LEMMA NamesKeep ==
    ASSUME NamesInv, FuncsOK', IsFiniteSet(bindings'), Unshared', bindings \subseteq bindings',
           Unnamed
    PROVE  NamesInv'
<1> SUFFICES ASSUME NEW f \in DOMAIN funcs', funcs'[f].name # <<>>
             PROVE  Named(f)'
  BY DEF NamesInv, FuncsNamed
<1>1. f \in DOMAIN funcs /\ funcs'[f].name = funcs[f].name  BY DEF Unnamed
<1>2. Named(f)  BY <1>1 DEF NamesInv, FuncsNamed
<1> QED BY <1>1, <1>2 DEF Named

\* A function is named.
LEMMA NamingKeeps ==
    ASSUME NamesInv, FuncsOK', NEW i \in Nat, NEW s \in Bytes, NameFunction(i, s)
    PROVE  NamesInv'
<1> DEFINE k == i + 1
           name == GetUniqueName(Function, s)
           r == [funcs[k] EXCEPT !.name = name]
<1>1. Bind(Function, i, s) /\ funcs' = [funcs EXCEPT ![k] = r]  BY DEF NameFunction
<1>2. IsFiniteSet(bindings') /\ Unshared' /\ bindings \subseteq bindings'
  BY <1>1, BindKeeps DEF NamesInv
<1>3. [kind |-> Function, name |-> name, index |-> k - 1] \in bindings'
  <2>1. k - 1 = i  OBVIOUS
  <2>2. [kind |-> Function, name |-> name, index |-> i] \in bindings'  BY <1>1 DEF Bind
  <2> QED BY <2>1, <2>2
<1>4. k \in DOMAIN funcs => r.name = name
  BY DEF NamesInv, FuncsOK, FuncKeys
<1> HIDE DEF r, k, name
<1>5. /\ DOMAIN funcs' = DOMAIN funcs
      /\ \A j \in DOMAIN funcs : funcs'[j] = IF j = k THEN r ELSE funcs[j]
  <2>1. IsSeq(funcs)  BY DEF NamesInv, FuncsOK
  <2> QED BY <1>1, <2>1, SeqReplaced
<1> SUFFICES ASSUME NEW f \in DOMAIN funcs', funcs'[f].name # <<>>
             PROVE  Named(f)'
  BY <1>2 DEF NamesInv, FuncsNamed
<1>6. CASE f = k
  <2>1. funcs'[f].name = name  BY <1>4, <1>5, <1>6
  <2> QED BY <1>3, <1>6, <2>1 DEF Named
<1>7. CASE f # k
  <2>1. f \in DOMAIN funcs /\ funcs'[f] = funcs[f]  BY <1>5, <1>7
  <2>2. Named(f)  BY <2>1 DEF NamesInv, FuncsNamed
  <2> QED BY <1>2, <2>1, <2>2 DEF Named
<1> QED BY <1>6, <1>7

\* The callbacks that name no function.
LEMMA FuncsUnnamed ==
    ASSUME FuncsOK, NEW cb, Delegate(cb), cb.f \notin FunctionNaming
    PROVE  Unnamed
<1>1. CASE cb.f \notin Vectorial
  <2>1. funcs' = funcs  BY <1>1, FuncsAfter
  <2> QED BY <2>1 DEF Unnamed
<1>2. CASE cb.f \in Appending
  <2> DEFINE e == NewFunc(cb.x)
  <2>1. IsSeq(funcs) /\ funcs' = Append(funcs, e)
    BY <1>2, FuncsAfter DEF FuncsOK, Appending
  <2>2. e.name = <<>>  BY DEF NewFunc
  <2> HIDE DEF e
  <2>3. Longer(funcs, e, funcs')  BY <2>1, SeqLonger, Zenon
  <2>4. Len(funcs) \in Nat /\ DOMAIN funcs = 1 .. Len(funcs)  BY <2>1, SeqDomain
  <2>5. \A k \in DOMAIN funcs' : k \in DOMAIN funcs \/ k = Len(funcs) + 1
    BY <2>3, <2>4 DEF Longer
  <2> QED BY <2>2, <2>3, <2>5 DEF Longer, Unnamed
<1>3. CASE cb.f = "OnLocalDecl"
  <2> DEFINE k == current_func + 1
             r == [funcs[k] EXCEPT !.locals = @ + cb.x]
  <2>1. funcs' = [funcs EXCEPT ![k] = r] /\ IsSeq(funcs)  BY <1>3, FuncsAfter DEF FuncsOK
  <2>2. k \in DOMAIN funcs => r.name = funcs[k].name  BY DEF FuncsOK, FuncKeys
  <2> HIDE DEF k, r
  <2>3. /\ DOMAIN funcs' = DOMAIN funcs
        /\ \A j \in DOMAIN funcs : funcs'[j] = IF j = k THEN r ELSE funcs[j]
    BY <2>1, SeqReplaced
  <2> QED BY <2>2, <2>3 DEF Unnamed
<1>4. CASE cb.f = "OnFunctionBinaryRead"
  <2> DEFINE k == cb.x.index + 1
             r == [funcs[k] EXCEPT !.wasm_bin = <<cb.x.begin, cb.x.end>>]
  <2>1. funcs' = [funcs EXCEPT ![k] = r] /\ IsSeq(funcs)  BY <1>4, FuncsAfter DEF FuncsOK
  <2>2. k \in DOMAIN funcs => r.name = funcs[k].name  BY DEF FuncsOK, FuncKeys
  <2> HIDE DEF k, r
  <2>3. /\ DOMAIN funcs' = DOMAIN funcs
        /\ \A j \in DOMAIN funcs : funcs'[j] = IF j = k THEN r ELSE funcs[j]
    BY <2>1, SeqReplaced
  <2> QED BY <2>2, <2>3 DEF Unnamed
<1> QED BY <1>1, <1>2, <1>3, <1>4 DEF Vectorial, Appending, FunctionNaming

\* What a callback that names something is given.
GivesName(cb) == /\ cb.f \in Naming => cb.x.name \in Bytes
                 /\ cb.f \in FunctionNaming => cb.x.index \in Nat

\* A callback keeps the names apart.
LEMMA DelegateNames ==
    ASSUME NamesInv, NEW cb, Delegate(cb), GivesName(cb)
    PROVE  NamesInv'
<1>1. FuncsOK'  BY FuncsKept DEF NamesInv
<1>2. CASE cb.f \notin Naming
  <2>1. bindings' = bindings  BY <1>2, BindingsAfter
  <2>2. cb.f \notin FunctionNaming  BY <1>2 DEF Naming, FunctionNaming
  <2>3. Unnamed  BY <2>2, FuncsUnnamed DEF NamesInv
  <2>4. Unshared'  BY <2>1 DEF NamesInv, Unshared
  <2>5. IsFiniteSet(bindings') /\ bindings \subseteq bindings'  BY <2>1 DEF NamesInv
  <2> QED BY <1>1, <2>3, <2>4, <2>5, NamesKeep
<1>3. CASE cb.f \in Naming \ FunctionNaming
  <2>1. OnName(cb)  BY <1>3, BindingsAfter
  <2>2. Unnamed  BY <1>3, FuncsUnnamed DEF NamesInv
  <2>3. CASE bindings' = bindings
    <3>1. Unshared'  BY <2>3 DEF NamesInv, Unshared
    <3>2. IsFiniteSet(bindings') /\ bindings \subseteq bindings'  BY <2>3 DEF NamesInv
    <3> QED BY <1>1, <2>2, <3>1, <3>2, NamesKeep
  <2>4. CASE Bind(<<cb.f, cb.x.of>>, cb.x.index, cb.x.name)
    <3>1. cb.x.name \in Bytes  BY <1>3 DEF GivesName
    <3>2. IsFiniteSet(bindings') /\ Unshared' /\ bindings \subseteq bindings'
      BY <2>4, <3>1, BindKeeps DEF NamesInv
    <3> QED BY <1>1, <2>2, <3>2, NamesKeep
  <2> QED BY <2>1, <2>3, <2>4 DEF OnName
<1>4. CASE cb.f \in FunctionNaming
  <2>1. OnFunctionName(cb)  BY <1>4, BindingsAfter
  <2>2. cb.x.index \in Nat /\ cb.x.name \in Bytes
    BY <1>4 DEF GivesName, FunctionNaming, Naming
  <2>3. CASE NameFunction(cb.x.index, cb.x.name)
    BY <1>1, <2>2, <2>3, NamingKeeps
  <2>4. CASE funcs' = funcs /\ bindings' = bindings
    BY <2>4 DEF NamesInv, FuncsOK, Unshared, FuncsNamed, Named
  <2> QED BY <2>1, <2>3, <2>4 DEF OnFunctionName
<1> QED BY <1>2, <1>3, <1>4

\* The callbacks the reader makes give what a name needs.
LEMMA CallGivesName ==
    ASSUME ReaderInv, todo # <<>>, item.r = "call"
    PROVE  GivesName(Cb(item))
<1>1. Cb(item).f = item.d  BY DEF Cb
<1>2. \A c, end : Fits(c, end, item) => Remembers(c, item.d, item.x)
  BY DEF Fits, Primitives
<1>3. \/ \E c, end : Fits(c, end, item)
      \/ item.d \in {"BeginCustomSection", "EndCustomSection"}
  <2>1. CASE ItemOfEntries \/ ItemOfCustom \/ ItemInside
    BY <2>1 DEF ItemOfEntries, ItemOfCustom, ItemInside
  <2>2. CASE ItemOfBegin \/ ItemOfEnd
    BY <2>2, ItemKinds
  <2>3. CASE ItemOfName \/ ItemOfEnter \/ ItemOfFailure \/ ItemOfLeave
    BY <2>3, ItemKinds
  <2> QED BY <2>1, <2>2, <2>3, ItemCases DEF ReaderInv
<1>4. CASE item.d \notin Naming
  <2>1. item.d \notin FunctionNaming  BY <1>4 DEF Naming, FunctionNaming
  <2> QED BY <1>1, <1>4, <2>1 DEF GivesName
<1>5. CASE item.d \in Naming
  <2>1. item.d \notin {"BeginCustomSection", "EndCustomSection", "OnFunctionBinaryRead"}
    BY <1>5 DEF Naming
  <2>2. PICK c, end : Fits(c, end, item)  BY <1>3, <2>1
  <2>3. Remembers(c, item.d, item.x)  BY <1>2, <2>2
  <2>4. item.d \notin DOMAIN ExprMade \cup DOMAIN Opened  BY <1>5, ExprCalls DEF EntryCalls
  <2>5. Cb(item).x = item.x  BY <2>1, <2>4 DEF Cb
  <2>6. item.x.name \in Bytes /\ (item.d \in FunctionNaming => item.x.index \in Nat)
    BY <1>5, <2>3 DEF Remembers, FunctionNaming
  <2> QED BY <1>1, <2>5, <2>6 DEF GivesName
<1> QED BY <1>4, <1>5

\* In the beginning nothing is bound.
LEMMA NamesInit == Init => NamesInv
<1> SUFFICES ASSUME Init PROVE NamesInv
  OBVIOUS
<1>1. funcs = <<>> /\ bindings = {}  BY DEF Init, IrInit
<1>2. IsSeq(funcs) /\ DOMAIN funcs = {}  BY <1>1, EmptySeq DEF IsSeq
<1>3. IsFiniteSet(bindings)  BY <1>1, FS_EmptySet
<1> QED BY <1>1, <1>2, <1>3 DEF NamesInv, FuncsOK, Unshared, FuncsNamed

\* Every step keeps the names apart: only callbacks bind any.
LEMMA NamesNext == ReaderInv /\ NamesInv /\ [Next]_modVars => NamesInv'
<1> SUFFICES ASSUME ReaderInv, NamesInv, [Next]_modVars PROVE NamesInv'
  OBVIOUS
<1>1. CASE CallItem
  <2>1. Delegate(Cb(item)) /\ todo # <<>> /\ item.r = "call"
    BY <1>1 DEF CallItem, Active
  <2>2. GivesName(Cb(item))  BY <2>1, CallGivesName
  <2> DEFINE cb == Cb(item)
  <2>3. Delegate(cb) /\ GivesName(cb)  BY <2>1, <2>2
  <2> HIDE DEF cb
  <2> QED BY <2>3, DelegateNames
<1>2. CASE UNCHANGED irVars
  <2>1. funcs' = funcs /\ bindings' = bindings  BY <1>2 DEF irVars
  <2> QED BY <2>1 DEF NamesInv, FuncsOK, Unshared, FuncsNamed, Named
<1>3. CallItem \/ UNCHANGED irVars
  BY DEF Next, NextSection, RejectSection, ReadModuleEnds, ReadItem, CallUndefined, LoopItem,
         EnterSubsection, LeaveSubsection, SkipRest, Report, HandlerFails, EndSection, modVars
<1> QED BY <1>1, <1>2, <1>3

\* NamesResolve: however often names are given, no two entities of a kind share one, and
\* the name a function has leads back to it.
THEOREM ReaderNamesResolve == ReaderSpec => []NamesResolve
<1>1. NamesInv => NamesResolve
  BY DEF NamesInv, Unshared, FuncsNamed, Named, NamesResolve
<1> QED BY <1>1, NamesInit, NamesNext, ReaderInvariant, PTL DEF ReaderSpec

-----------------------------------------------------------------------------
(* The labels: a stack s of them, over the expressions es.                   *)

Constructs == {<<t, "body", t>> : t \in {"Block", "Loop", "If", "Try"}}
              \cup {<<"Else", "false", "If">>, <<"Catch", "catch", "Try">>}
BackOf(es, list) == Max({e \in DOMAIN es : es[e].list = list} \cup {0})

\* What a label is by itself: that of a function, or one of a construct.
LabelOK(es, label) ==
    \/ label.label_type = "Func" /\ label.exprs.of = "func" /\ label.exprs.i \in Nat
    \/ label.label_type # "Func" /\ label.exprs.of # "func" /\ label.exprs.i \in DOMAIN es

\* No two labels have the same list: functions differ, and constructs were begun in order.
Apart(lower, upper) ==
    /\ lower.label_type = "Func" /\ upper.label_type = "Func" => lower.exprs.i # upper.exprs.i
    /\ lower.label_type # "Func" /\ upper.label_type # "Func" => lower.exprs.i < upper.exprs.i

\* A label on the list of another: that of the last construct in it, of the right kind.
OnTop(es, lower, upper) ==
    upper.label_type # "Func" =>
        /\ upper.exprs.i = BackOf(es, lower.exprs)
        /\ <<upper.label_type, upper.exprs.of, es[upper.exprs.i].kind>> \in Constructs

StackOK(s, es) ==
    /\ IsSeq(s) /\ IsSeq(es)
    /\ s # <<>> => s[1].label_type = "Func"
    /\ \A k \in DOMAIN s : LabelOK(es, s[k])
    /\ \A j, k \in DOMAIN s : j < k => Apart(s[j], s[k])
    /\ \A k \in DOMAIN s : k - 1 \in DOMAIN s => OnTop(es, s[k - 1], s[k])

LabelsInv == StackOK(label_stack, exprs)

\* What the invariant says of the stack, as LabelsMatch says it.
LEMMA LabelsInvMatch == LabelsInv => LabelsMatch
<1> SUFFICES ASSUME LabelsInv, NEW k \in 2 .. Len(label_stack)
             PROVE  label_stack[k].label_type # "Func" =>
                /\ Back(label_stack[k - 1].exprs) # 0
                /\ label_stack[k].exprs.i = Back(label_stack[k - 1].exprs)
                /\ <<label_stack[k].label_type, label_stack[k].exprs.of,
                     exprs[Back(label_stack[k - 1].exprs)].kind>> \in Constructs
  BY DEF LabelsMatch, Constructs
<1>1. Len(label_stack) \in Nat /\ DOMAIN label_stack = 1 .. Len(label_stack)
  BY SeqDomain DEF LabelsInv, StackOK
<1>2. k \in DOMAIN label_stack /\ k - 1 \in DOMAIN label_stack  BY <1>1
<1>3. OnTop(exprs, label_stack[k - 1], label_stack[k]) /\ LabelOK(exprs, label_stack[k])
  BY <1>2 DEF LabelsInv, StackOK
<1>4. BackOf(exprs, label_stack[k - 1].exprs) = Back(label_stack[k - 1].exprs)
  BY DEF BackOf, Back, Elements
<1>5. 0 \notin DOMAIN exprs  BY SeqDomain DEF LabelsInv, StackOK
<1> QED BY <1>3, <1>4, <1>5 DEF OnTop, LabelOK

\* An expression appended is the last of the list it went to, and of no other.
Extended(es, e, es2) ==
    /\ Longer(es, e, es2)
    /\ Len(es) + 1 \in Nat
    /\ BackOf(es2, e.list) = Len(es) + 1
    /\ \A list : list # e.list => BackOf(es2, list) = BackOf(es, list)

\* Append makes an expression the last of its list.
LEMMA BackAfter ==
    ASSUME NEW es, IsSeq(es), NEW e
    PROVE  Extended(es, e, Append(es, e))
<1> DEFINE es2 == Append(es, e)
<1> SUFFICES Extended(es, e, es2)
  OBVIOUS
<1>1. Longer(es, e, es2)  BY SeqLonger, Zenon
<1>2. Len(es) \in Nat /\ DOMAIN es = 1 .. Len(es)  BY SeqDomain
<1> HIDE DEF es2
<1> DEFINE n == Len(es) + 1
<1>3. /\ DOMAIN es2 = DOMAIN es \cup {n} /\ es2[n] = e /\ n \in Nat
      /\ \A k \in DOMAIN es : es2[k] = es[k] /\ k < n /\ k \in Nat
  BY <1>1, <1>2 DEF Longer
<1> HIDE DEF n
<1>4. ASSUME NEW list
      PROVE  /\ list = e.list => BackOf(es2, list) = n
             /\ list # e.list => BackOf(es2, list) = BackOf(es, list)
  <2> DEFINE before == {k \in DOMAIN es : es[k].list = list}
             after  == {k \in DOMAIN es2 : es2[k].list = list}
  <2>1. BackOf(es2, list) = Max(after \cup {0})  BY DEF BackOf
  <2>2. after = IF list = e.list THEN before \cup {n} ELSE before
    BY <1>3
  <2>3. before \subseteq Nat /\ \A k \in before : k < n  BY <1>3
  <2> HIDE DEF before, after
  <2>4. CASE list = e.list
    <3> DEFINE S == after \cup {0}
    <3>1. n \in S /\ S \subseteq Int /\ \A y \in S : n >= y  BY <1>3, <2>2, <2>3, <2>4
    <3> HIDE DEF S
    <3>2. Max(S) = n  BY <3>1, MaxIs
    <3> QED BY <2>1, <2>4, <3>2 DEF S
  <2>5. CASE list # e.list
    BY <2>1, <2>2, <2>5 DEF BackOf, before
  <2> QED BY <2>4, <2>5
<1> QED BY <1>1, <1>3, <1>4 DEF n, Extended

\* An expression is appended to the list of the last label.
LEMMA ExprKeeps ==
    ASSUME NEW s, NEW es, StackOK(s, es), s # <<>>, NEW e, e.list = s[Len(s)].exprs,
           NEW es2, es2 = Append(es, e)
    PROVE  StackOK(s, es2)
<1>1. /\ Longer(es, e, es2)
      /\ \A list : list # e.list => BackOf(es2, list) = BackOf(es, list)
  <2>1. Extended(es, e, es2)  BY BackAfter, Zenon DEF StackOK
  <2> QED BY <2>1 DEF Extended
<1> DEFINE n == Len(s)
<1>2. n \in Nat /\ DOMAIN s = 1 .. n  BY SeqDomain DEF StackOK
<1>3. e.list = s[n].exprs  OBVIOUS
<1>4. \A k \in DOMAIN es : k \in DOMAIN es2 /\ es2[k] = es[k]
  BY <1>1 DEF Longer
<1>5. \A label : LabelOK(es, label) => LabelOK(es2, label)
  BY <1>4 DEF LabelOK
<1> HIDE DEF n
<1>6. ASSUME NEW k \in DOMAIN s, k - 1 \in DOMAIN s
      PROVE  OnTop(es2, s[k - 1], s[k])
  <2>1. k - 1 \in DOMAIN s /\ n \in DOMAIN s /\ k - 1 < n  BY <1>2, <1>6
  <2>2. Apart(s[k - 1], s[n])  BY <2>1 DEF StackOK
  <2>3. LabelOK(es, s[k - 1]) /\ LabelOK(es, s[n]) /\ LabelOK(es, s[k])
    BY <2>1 DEF StackOK
  <2>4. s[k - 1].exprs # e.list
    <3>1. \A a \in DOMAIN es : ~ (a < a)
      <4>1. \A a \in DOMAIN es : a \in Nat
        BY SeqDomain DEF StackOK
      <4> QED BY <4>1
    <3> QED BY <1>3, <2>2, <2>3, <3>1 DEF Apart, LabelOK
  <2>5. BackOf(es2, s[k - 1].exprs) = BackOf(es, s[k - 1].exprs)
    BY <1>1, <2>4
  <2>6. OnTop(es, s[k - 1], s[k])  BY <1>6 DEF StackOK
  <2>7. CASE s[k].label_type # "Func"
    <3>1. s[k].exprs.i \in DOMAIN es  BY <2>3, <2>7 DEF LabelOK
    <3>2. es2[s[k].exprs.i] = es[s[k].exprs.i]  BY <1>4, <3>1
    <3> QED BY <2>5, <2>6, <2>7, <3>2 DEF OnTop
  <2>8. CASE s[k].label_type = "Func"
    BY <2>8 DEF OnTop
  <2> QED BY <2>7, <2>8
<1>7. IsSeq(es2)  BY <1>1 DEF Longer
<1> QED BY <1>5, <1>6, <1>7 DEF StackOK

\* The last label is taken off.
LEMMA PopKeeps ==
    ASSUME NEW s, NEW es, StackOK(s, es), s # <<>>
    PROVE  StackOK(Front(s), es)
<1> DEFINE t == Front(s)
<1>1. t = Front(s)  OBVIOUS
<1> HIDE DEF t
<1>2. /\ IsSeq(t) /\ Len(s) \in Nat \ {0} /\ Len(t) = Len(s) - 1 /\ DOMAIN t = 1 .. Len(s) - 1
      /\ \A k \in DOMAIN t : k \in DOMAIN s /\ t[k] = s[k]
  BY <1>1, SeqShorter DEF StackOK
<1>3. t # <<>> => 1 \in DOMAIN t
  <2>1. t # <<>> => Len(t) # 0
    <3>1. PICK S : t \in Seq(S)  BY <1>2 DEF IsSeq
    <3> QED BY <3>1, EmptySeq
  <2> QED BY <1>2, <2>1
<1>4. StackOK(t, es)
  <2>1. t # <<>> => t[1].label_type = "Func"  BY <1>2, <1>3 DEF StackOK
  <2>2. \A k \in DOMAIN t : LabelOK(es, t[k])  BY <1>2 DEF StackOK
  <2>3. \A j, k \in DOMAIN t : j < k => Apart(t[j], t[k])  BY <1>2 DEF StackOK
  <2>4. \A k \in DOMAIN t : k - 1 \in DOMAIN t => OnTop(es, t[k - 1], t[k])  BY <1>2 DEF StackOK
  <2> QED BY <1>2, <2>1, <2>2, <2>3, <2>4 DEF StackOK
<1> QED BY <1>4 DEF t

\* A label is put on the others.
LEMMA PushKeeps ==
    ASSUME NEW s, NEW es, StackOK(s, es), NEW l, LabelOK(es, l),
           s = <<>> => l.label_type = "Func",
           \A k \in DOMAIN s : Apart(s[k], l),
           s # <<>> => OnTop(es, s[Len(s)], l)
    PROVE  StackOK(Append(s, l), es)
<1> DEFINE t == Append(s, l)
<1>1. Longer(s, l, t)  BY SeqLonger, Zenon DEF StackOK
<1> HIDE DEF t
<1> DEFINE n == Len(s) + 1
<1>2. Len(s) \in Nat /\ DOMAIN s = 1 .. Len(s)  BY SeqDomain DEF StackOK
<1>3. /\ IsSeq(t) /\ DOMAIN t = 1 .. n /\ t[n] = l /\ n \in Nat \ {0} /\ DOMAIN s = 1 .. n - 1
      /\ \A k \in 1 .. n - 1 : t[k] = s[k]
  BY <1>1, <1>2 DEF Longer
<1>4. s = <<>> <=> n = 1
  <2>1. PICK S : s \in Seq(S)  BY DEF StackOK, IsSeq
  <2>2. s = <<>> <=> Len(s) = 0  BY <2>1, EmptySeq
  <2> QED BY <1>2, <2>2
<1>5. n - 1 = Len(s)  BY <1>2
<1> HIDE DEF n
<1>6. StackOK(t, es)
  <2>1. t[1].label_type = "Func"
    <3>1. CASE n = 1  BY <1>3, <1>4, <3>1
    <3>2. CASE n # 1
      <4>1. 1 \in 1 .. n - 1  BY <1>3, <3>2
      <4> QED BY <1>3, <1>4, <3>2, <4>1 DEF StackOK
    <3> QED BY <3>1, <3>2
  <2>2. \A k \in DOMAIN t : k = n \/ k \in 1 .. n - 1  BY <1>3
  <2>3. \A k \in DOMAIN t : LabelOK(es, t[k])  BY <1>3, <2>2 DEF StackOK
  <2>4. ASSUME NEW j \in DOMAIN t, NEW k \in DOMAIN t, j < k
        PROVE  Apart(t[j], t[k])
    <3>1. j \in 1 .. n - 1  BY <1>3, <2>4
    <3>2. CASE k = n  BY <1>3, <3>1, <3>2
    <3>3. CASE k # n
      <4>1. k \in 1 .. n - 1  BY <2>2, <3>3
      <4> QED BY <1>3, <2>4, <3>1, <4>1 DEF StackOK
    <3> QED BY <3>2, <3>3
  <2>5. ASSUME NEW k \in DOMAIN t, k - 1 \in DOMAIN t
        PROVE  OnTop(es, t[k - 1], t[k])
    <3>1. k - 1 \in 1 .. n - 1  BY <1>3, <2>5
    <3>2. CASE k = n
      <4>1. s # <<>> /\ k - 1 = Len(s)  BY <1>3, <1>4, <1>5, <2>5, <3>2
      <4>2. OnTop(es, s[k - 1], l)  BY <4>1
      <4> QED BY <1>3, <3>1, <3>2, <4>2
    <3>3. CASE k # n
      <4>1. k \in 1 .. n - 1  BY <2>2, <3>3
      <4>2. OnTop(es, s[k - 1], s[k])  BY <1>3, <3>1, <4>1 DEF StackOK
      <4> QED BY <1>3, <3>1, <4>1, <4>2
    <3> QED BY <3>2, <3>3
  <2>6. IsSeq(es)  BY DEF StackOK
  <2> QED BY <1>3, <2>1, <2>3, <2>4, <2>5, <2>6 DEF StackOK
<1> QED BY <1>6 DEF t

\* The last label is replaced by another of the same construct.
LEMMA ReplaceKeeps ==
    ASSUME NEW s, NEW es, StackOK(s, es), Len(s) >= 2, NEW l,
           s[Len(s)].label_type # "Func", l.label_type # "Func", l.exprs.of # "func",
           l.exprs.i = BackOf(es, s[Len(s) - 1].exprs),
           <<l.label_type, l.exprs.of, es[s[Len(s)].exprs.i].kind>> \in Constructs
    PROVE  StackOK(Append(Front(s), l), es)
<1> DEFINE n == Len(s)
           t == Front(s)
<1>1. n \in Nat /\ DOMAIN s = 1 .. n /\ n - 1 \in DOMAIN s /\ n \in DOMAIN s
  BY SeqDomain DEF StackOK
<1>2. s # <<>>
  <2>1. PICK S : s \in Seq(S)  BY DEF StackOK, IsSeq
  <2> QED BY <2>1, EmptySeq
<1>3. StackOK(t, es)  BY <1>2, PopKeeps
<1>4. t = Front(s)  OBVIOUS
<1> HIDE DEF t
<1>5. /\ IsSeq(t) /\ Len(t) = n - 1 /\ DOMAIN t = 1 .. n - 1
      /\ \A k \in DOMAIN t : k \in DOMAIN s /\ t[k] = s[k]
  BY <1>2, <1>4, SeqShorter DEF StackOK
<1>6. OnTop(es, s[n - 1], s[n]) /\ LabelOK(es, s[n])  BY <1>1 DEF StackOK
<1>7. l.exprs.i = s[n].exprs.i  BY <1>6 DEF OnTop
<1>8. LabelOK(es, l)  BY <1>6, <1>7 DEF LabelOK
<1>9. ASSUME NEW k \in DOMAIN t PROVE Apart(t[k], l)
  <2>1. k \in DOMAIN s /\ k < n /\ t[k] = s[k]  BY <1>1, <1>5
  <2>2. Apart(s[k], s[n])  BY <1>1, <2>1 DEF StackOK
  <2> QED BY <1>7, <2>1, <2>2 DEF Apart
<1>10. t # <<>> /\ OnTop(es, t[Len(t)], l)
  <2>1. Len(t) = n - 1 /\ n - 1 \in DOMAIN t  BY <1>1, <1>5
  <2>2. t[Len(t)] = s[n - 1]  BY <1>5, <2>1
  <2>3. t # <<>>
    <3>1. PICK S : t \in Seq(S)  BY <1>5 DEF IsSeq
    <3>2. Len(t) # 0  BY <1>1, <2>1
    <3> QED BY <3>1, <3>2, EmptySeq
  <2> QED BY <1>7, <2>2, <2>3 DEF OnTop
<1>11. StackOK(Append(t, l), es)  BY <1>3, <1>8, <1>9, <1>10, PushKeeps
<1> QED BY <1>11 DEF t

\* The functions whose labels are in s are those before n.
FuncsBelow(s, n) == \A k \in DOMAIN s : s[k].label_type = "Func" => s[k].exprs.i < n

\* The labels of s2 were in s, but for one.
NewLabel(s, l, s2) == \A k \in DOMAIN s2 : (k \in DOMAIN s /\ s2[k] = s[k]) \/ s2[k] = l
NoLabel == Label("Else", NoList)

\* A callback keeps the labels and the expressions together.
LEMMA DelegateLabels ==
    ASSUME LabelsInv, NEW cb, Delegate(cb), ~LabelMissing(cb), ~LabelUnexpected(cb),
           cb.f = "BeginFunctionBody" => cb.x \in Nat /\ FuncsBelow(label_stack, cb.x)
    PROVE  /\ LabelsInv'
           /\ \A n : /\ FuncsBelow(label_stack, n)
                     /\ cb.f = "BeginFunctionBody" => cb.x < n
                     => FuncsBelow(label_stack, n)'
<1> DEFINE s == label_stack
           es == exprs
           m == Len(s)
           Goal == /\ LabelsInv'
                   /\ \A n : /\ FuncsBelow(s, n)
                             /\ cb.f = "BeginFunctionBody" => cb.x < n
                             => FuncsBelow(label_stack, n)'
<1> SUFFICES Goal  OBVIOUS
<1>1. StackOK(s, es)  BY DEF LabelsInv
<1>2. m \in Nat /\ DOMAIN s = 1 .. m /\ (s # <<>> => m \in Nat \ {0})
  <2>1. PICK S : s \in Seq(S)  BY <1>1 DEF StackOK, IsSeq
  <2> QED BY <2>1, LenProperties, EmptySeq
<1>3. ASSUME NEW l, NewLabel(s, l, label_stack'), StackOK(label_stack', exprs'),
             l.label_type = "Func" => cb.f = "BeginFunctionBody" /\ l.exprs.i = cb.x
      PROVE  Goal
  BY <1>3 DEF NewLabel, FuncsBelow, LabelsInv
<1> HIDE DEF Goal
<1>4. NewLabel(s, NoLabel, s) /\ NoLabel.label_type # "Func"
  BY DEF NewLabel, NoLabel, Label
<1>5. ASSUME s # <<>> PROVE NewLabel(s, NoLabel, Front(s)) /\ DOMAIN Front(s) = 1 .. m - 1
                            /\ \A k \in DOMAIN Front(s) : k \in DOMAIN s /\ Front(s)[k] = s[k]
  <2> DEFINE t == Front(s)
  <2>1. t = Front(s)  OBVIOUS
  <2> HIDE DEF t
  <2>2. DOMAIN t = 1 .. m - 1 /\ \A k \in DOMAIN t : k \in DOMAIN s /\ t[k] = s[k]
    BY <1>1, <1>5, <2>1, SeqShorter DEF StackOK
  <2> QED BY <2>1, <2>2 DEF NewLabel
<1>6. ASSUME NEW l, NEW t, IsSeq(t), \A k \in DOMAIN t : k \in DOMAIN s /\ t[k] = s[k]
      PROVE  NewLabel(s, l, Append(t, l))
  <2>1. Longer(t, l, Append(t, l))  BY <1>6, SeqLonger
  <2>2. DOMAIN t = 1 .. Len(t) /\ Len(t) \in Nat  BY <1>6, SeqDomain
  <2>3. \A k \in 1 .. Len(t) + 1 : k \in 1 .. Len(t) \/ k = Len(t) + 1  BY <2>2
  <2> DEFINE u == Append(t, l)
  <2>4. Longer(t, l, u)  BY <2>1
  <2> HIDE DEF u
  <2>5. NewLabel(s, l, u)  BY <1>6, <2>2, <2>3, <2>4 DEF Longer, NewLabel
  <2> QED BY <2>5 DEF u
<1>7. CASE cb.f \notin Arboreal
  <2>1. label_stack' = s /\ exprs' = es  BY <1>7, TreesAfter
  <2> QED BY <1>1, <1>3, <1>4, <2>1
<1>8. CASE cb.f \in DOMAIN ExprMade
  <2>1. OnExpr(cb)  BY <1>8, TreesAfter
  <2> DEFINE e == [kind |-> ExprMade[cb.f], loc |-> cb.x.loc, list |-> TopLabel.exprs]
  <2>2. exprs' = Append(es, e) /\ label_stack' = s  BY <2>1 DEF OnExpr, AppendExpr
  <2>3. s # <<>>  BY <1>8 DEF LabelMissing
  <2>4. e.list = s[Len(s)].exprs  BY DEF TopLabel, Last
  <2> HIDE DEF e, s, es
  <2>5. StackOK(s, exprs')  BY <1>1, <2>2, <2>3, <2>4, ExprKeeps
  <2> QED BY <1>3, <1>4, <2>2, <2>5
<1>9. CASE cb.f \in DOMAIN Opened
  <2>1. OnOpenExpr(cb)  BY <1>9, TreesAfter
  <2> DEFINE e == [kind |-> Opened[cb.f], loc |-> cb.x.loc, list |-> TopLabel.exprs]
             l == Label(Opened[cb.f], BodyList(Len(es) + 1))
  <2>2. exprs' = Append(es, e) /\ label_stack' = Append(s, l)
    BY <2>1 DEF OnOpenExpr, AppendExpr
  <2>3. s # <<>>  BY <1>9 DEF LabelMissing
  <2>4. e.list = s[m].exprs  BY DEF TopLabel, Last
  <2>5. e.kind \in {"Block", "Loop", "If", "Try"}  BY <1>9 DEF Opened
  <2>6. l.label_type = e.kind /\ l.exprs = BodyList(Len(es) + 1)  BY DEF Label
  <2>7. l.exprs.of = "body" /\ l.exprs.i = Len(es) + 1  BY <2>6 DEF BodyList
  <2> HIDE DEF e, l, s, es
  <2> DEFINE es2 == Append(es, e)
  <2>8. StackOK(s, es2)  BY <1>1, <2>3, <2>4, ExprKeeps
  <2>9. Extended(es, e, es2)  BY <1>1, BackAfter, Zenon DEF StackOK
  <2> HIDE DEF es2
  <2>10. LabelOK(es2, l)
    <3>1. DOMAIN es2 = 1 .. Len(es) + 1 /\ Len(es) + 1 \in Nat  BY <2>9 DEF Extended, Longer
    <3>2. Len(es) + 1 \in DOMAIN es2
      <4>1. Len(es) \in Nat  BY <1>1, SeqDomain DEF StackOK
      <4> QED BY <3>1, <4>1
    <3>3. l.label_type # "Func"  BY <2>5, <2>6
    <3> QED BY <2>7, <3>2, <3>3 DEF LabelOK
  <2>11. ASSUME NEW k \in DOMAIN s PROVE Apart(s[k], l)
    <3>1. LabelOK(es, s[k])  BY <1>1 DEF StackOK
    <3>2. DOMAIN es = 1 .. Len(es) /\ Len(es) \in Nat  BY <1>1, SeqDomain DEF StackOK
    <3>3. \A a \in DOMAIN es : a < Len(es) + 1  BY <3>2
    <3>4. l.label_type # "Func"  BY <2>5, <2>6
    <3> QED BY <2>7, <3>1, <3>3, <3>4 DEF Apart, LabelOK
  <2>12. OnTop(es2, s[Len(s)], l)
    <3>1. BackOf(es2, s[m].exprs) = Len(es) + 1  BY <2>4, <2>9 DEF Extended
    <3>2. es2[Len(es) + 1] = e  BY <2>9 DEF Extended, Longer
    <3>3. <<l.label_type, l.exprs.of, e.kind>> \in Constructs
      BY <2>5, <2>6, <2>7 DEF Constructs
    <3> QED BY <2>7, <3>1, <3>2, <3>3 DEF OnTop
  <2>13. StackOK(Append(s, l), es2)
    BY <2>3, <2>8, <2>10, <2>11, <2>12, PushKeeps
  <2>14. NewLabel(s, l, Append(s, l))  BY <1>1, <1>6 DEF StackOK
  <2>15. l.label_type # "Func"  BY <2>5, <2>6
  <2>16. NewLabel(s, l, label_stack') /\ StackOK(label_stack', exprs')
    BY <2>2, <2>13, <2>14 DEF es2
  <2> QED BY <1>3, <2>15, <2>16
<1>10. CASE cb.f = "BeginFunctionBody"
  <2>1. BeginFunctionBody(cb)  BY <1>10, TreesAfter
  <2> DEFINE l == Label("Func", FuncList(cb.x))
  <2>2. label_stack' = Append(s, l) /\ exprs' = es  BY <2>1 DEF BeginFunctionBody
  <2>3. l.label_type = "Func" /\ l.exprs.of = "func" /\ l.exprs.i = cb.x
    BY DEF Label, FuncList
  <2> HIDE DEF l, s, es
  <2>4. LabelOK(es, l)  BY <1>10, <2>3 DEF LabelOK
  <2>5. ASSUME NEW k \in DOMAIN s PROVE Apart(s[k], l)
    <3>1. FuncsBelow(s, cb.x) /\ cb.x \in Nat  BY <1>10 DEF s
    <3>2. s[k].label_type = "Func" => s[k].exprs.i < cb.x  BY <3>1 DEF FuncsBelow
    <3>3. LabelOK(es, s[k])  BY <1>1 DEF StackOK
    <3>4. s[k].label_type = "Func" => s[k].exprs.i # cb.x
      BY <3>1, <3>2, <3>3 DEF LabelOK
    <3> QED BY <2>3, <3>4 DEF Apart
  <2>6. OnTop(es, s[Len(s)], l)  BY <2>3 DEF OnTop
  <2>7. StackOK(Append(s, l), es)  BY <1>1, <2>3, <2>4, <2>5, <2>6, PushKeeps
  <2>8. NewLabel(s, l, Append(s, l))  BY <1>1, <1>6 DEF StackOK
  <2> QED BY <1>3, <1>10, <2>2, <2>3, <2>7, <2>8
<1>11. CASE cb.f \in {"OnElseExpr", "OnCatchExpr"}
  <2> DEFINE back == Back(ParentLabel.exprs)
             l == IF cb.f = "OnElseExpr" THEN Label("Else", FalseList(back))
                  ELSE Label("Catch", CatchList(back))
  <2>1. label_stack' = Append(Front(s), l) /\ exprs' = es
    <3>1. CASE cb.f = "OnElseExpr"
      BY <3>1, TreesAfter DEF OnElseExpr
    <3>2. CASE cb.f = "OnCatchExpr"
      BY <3>2, TreesAfter DEF OnCatchExpr
    <3> QED BY <1>11, <3>1, <3>2
  <2>2. m >= 2  BY <1>2, <1>11 DEF LabelMissing
  <2>3. s[m].label_type = IF cb.f = "OnElseExpr" THEN "If" ELSE "Try"
    BY <1>2, <1>11, <2>2 DEF LabelUnexpected, TopLabel, Last
  <2>4. back = BackOf(es, s[Len(s) - 1].exprs)  BY DEF Back, BackOf, Elements, ParentLabel
  <2> HIDE DEF back
  <2>5. /\ l.label_type = IF cb.f = "OnElseExpr" THEN "Else" ELSE "Catch"
        /\ l.exprs.of = IF cb.f = "OnElseExpr" THEN "false" ELSE "catch"
        /\ l.exprs.i = back
    BY DEF Label, FalseList, CatchList
  <2>6. OnTop(es, s[m - 1], s[m])
    <3>1. m \in DOMAIN s /\ m - 1 \in DOMAIN s  BY <1>2, <2>2
    <3> QED BY <1>1, <3>1 DEF StackOK
  <2> DEFINE kind == es[s[Len(s)].exprs.i].kind
  <2>7. <<s[m].label_type, s[m].exprs.of, kind>> \in Constructs
    BY <2>3, <2>6 DEF OnTop
  <2> HIDE DEF l, kind, s, es
  <2>8. kind = s[m].label_type  BY <2>3, <2>7 DEF Constructs
  <2>9. <<l.label_type, l.exprs.of, kind>> \in Constructs
    BY <2>3, <2>5, <2>8 DEF Constructs
  <2>10. l.label_type # "Func" /\ l.exprs.of # "func" /\ s[m].label_type # "Func"
    BY <2>3, <2>5
  <2>11. StackOK(Append(Front(s), l), es)
    BY <1>1, <2>2, <2>4, <2>5, <2>9, <2>10, ReplaceKeeps DEF kind
  <2>12. s # <<>> /\ IsSeq(Front(s))
    <3>1. s # <<>>
      <4>1. PICK S : s \in Seq(S)  BY <1>1 DEF StackOK, IsSeq
      <4> QED BY <2>2, <4>1, EmptySeq
    <3> QED BY <1>1, <3>1, PopKeeps DEF StackOK
  <2>13. NewLabel(s, l, Append(Front(s), l))  BY <1>5, <1>6, <2>12
  <2> QED BY <1>3, <2>1, <2>10, <2>11, <2>13
<1>12. CASE cb.f \in {"OnEndExpr", "EndFunctionBody"}
  <2>1. label_stack' = Front(s) /\ exprs' = es  BY <1>12, TreesAfter
  <2>2. s # <<>>
    <3>1. CASE cb.f = "EndFunctionBody"  BY <3>1 DEF LabelMissing
    <3>2. CASE cb.f = "OnEndExpr"
      <4>1. ~ (m < 2)  BY <3>2 DEF LabelMissing
      <4>2. PICK S : s \in Seq(S)  BY <1>1 DEF StackOK, IsSeq
      <4> QED BY <4>1, <4>2, EmptySeq
    <3> QED BY <1>12, <3>1, <3>2
  <2> HIDE DEF s, es
  <2>3. StackOK(Front(s), es)  BY <1>1, <2>2, PopKeeps
  <2> QED BY <1>3, <1>4, <1>5, <2>1, <2>2, <2>3
<1> QED BY <1>7, <1>8, <1>9, <1>10, <1>11, <1>12 DEF Arboreal

-----------------------------------------------------------------------------
(* The code section: what is left of it.                                    *)

Body(k)  == R("U32", "function body size", k)
Ender(k) == Call("EndFunctionBody", k)

\* The bodies from k on, of those before n.
Bodies(n, k, s) == /\ n \in Nat /\ k \in 0 .. n
                   /\ s = [j \in 1 .. n - k |-> Body(k + (j - 1))]

\* What comes next in body k, which ends at e, and the bodies after it.
EndRest(n, k, s) == \E t : Bodies(n, k + 1, t) /\ s = <<Ender(k)>> \o t
LoopRest(n, k, e, b, s) == \E t : EndRest(n, k, t) /\ s = <<BodyLoop(e, b)>> \o t
OpcodeRest(n, k, e, s) == \E t : EndRest(n, k, t) /\ s = <<R("Opcode", "opcode", e)>> \o t
Binary(k, e) == Call("OnFunctionBinaryRead", [index |-> k, end |-> e])
BinaryRest(n, k, e, s) == \E t : LoopRest(n, k, e, FALSE, t) /\ s = <<Binary(k, e)>> \o t
Decls(k, e) == R("Count", "local declaration count", [index |-> k, end |-> e])
DeclRest(n, k, e, s) == \E t : Bodies(n, k + 1, t) /\ s = <<Decls(k, e)>> \o t
BeginRest(n, k, e, s) == \E t : DeclRest(n, k, e, t) /\ s = <<Call("BeginFunctionBody", k)>> \o t

Rest(g, n, k, e, b, s) ==
    \/ g = "next"   /\ Bodies(n, k, s)
    \/ g = "begin"  /\ BeginRest(n, k, e, s)
    \/ g = "decl"   /\ DeclRest(n, k, e, s)
    \/ g = "binary" /\ BinaryRest(n, k, e, s)
    \/ g = "loop"   /\ LoopRest(n, k, e, b, s)
    \/ g = "opcode" /\ OpcodeRest(n, k, e, s)
    \/ g = "end"    /\ EndRest(n, k, s)

\* The stage g of body k, behind declarations and operands yet to be read.
CodeAt(g, n, k, e, b, s) ==
    \E a, r : Listed(Inner, 0, a) /\ Rest(g, n, k, e, b, r) /\ s = a \o r

\* The next item of a stage, and what it is followed by.
StageHead(g, n, k, e, b, i, s) ==
    \/ g = "next"   /\ i = Body(k) /\ Bodies(n, k + 1, s)
    \/ g = "begin"  /\ i = Call("BeginFunctionBody", k) /\ DeclRest(n, k, e, s)
    \/ g = "decl"   /\ i = Decls(k, e) /\ Bodies(n, k + 1, s)
    \/ g = "binary" /\ i = Binary(k, e) /\ LoopRest(n, k, e, FALSE, s)
    \/ g = "loop"   /\ i = BodyLoop(e, b) /\ EndRest(n, k, s)
    \/ g = "opcode" /\ i = R("Opcode", "opcode", e) /\ EndRest(n, k, s)
    \/ g = "end"    /\ i = Ender(k) /\ Bodies(n, k + 1, s)

\* The bodies are a sequence, of which the first is body k.
LEMMA BodiesFacts ==
    ASSUME NEW n, NEW k, NEW s, Bodies(n, k, s)
    PROVE  /\ IsSeq(s)
           /\ s = <<>> => k = n
           /\ s # <<>> => Head(s) = Body(k) /\ Bodies(n, k + 1, Tail(s))
<1>1. PICK m \in Nat : m = n - k  BY DEF Bodies
<1> DEFINE S == {Body(k + (j - 1)) : j \in 1 .. m}
<1>2. s = [j \in 1 .. m |-> Body(k + (j - 1))]  BY <1>1 DEF Bodies
<1>3. s \in [1 .. m -> S]  BY <1>2
<1>4. s \in Seq(S)  BY <1>1, <1>3, SeqDef
<1> HIDE DEF S
<1>5. Len(s) = m  BY <1>1, <1>2, <1>4, LenProperties
<1>6. IsSeq(s)  BY <1>4 DEF IsSeq
<1>7. ASSUME s = <<>> PROVE k = n
  <2>1. m = 0  BY <1>4, <1>5, <1>7, EmptySeq
  <2> QED BY <1>1, <2>1 DEF Bodies
<1>8. ASSUME s # <<>> PROVE Head(s) = Body(k) /\ Bodies(n, k + 1, Tail(s))
  <2>1. m # 0  BY <1>4, <1>5, <1>8, EmptySeq
  <2>2. 1 \in 1 .. m /\ k + (1 - 1) = k  BY <1>1, <2>1 DEF Bodies
  <2>3. Head(s) = s[1]  BY <1>4, <1>8, HeadTailProperties
  <2>4. s[1] = Body(k)  BY <1>2, <2>2
  <2> DEFINE t == Tail(s)
  <2>5. t \in Seq(S) /\ Len(t) = m - 1 /\ \A j \in 1 .. m - 1 : t[j] = s[j + 1]
    BY <1>4, <1>5, <1>8, HeadTailProperties
  <2> HIDE DEF t
  <2>6. t = [j \in 1 .. m - 1 |-> t[j]]  BY <1>1, <2>1, <2>5, LenProperties
  <2>7. \A j \in 1 .. m - 1 : t[j] = Body((k + 1) + (j - 1))
    <3> TAKE j \in 1 .. m - 1
    <3>1. j + 1 \in 1 .. m /\ k + ((j + 1) - 1) = (k + 1) + (j - 1)
      BY <1>1, <2>1 DEF Bodies
    <3> QED BY <1>2, <2>5, <3>1
  <2>8. t = [j \in 1 .. n - (k + 1) |-> Body((k + 1) + (j - 1))]
    <3>1. n - (k + 1) = m - 1  BY <1>1 DEF Bodies
    <3> QED BY <2>6, <2>7, <3>1
  <2>9. k + 1 \in 0 .. n /\ n \in Nat  BY <1>1, <2>1 DEF Bodies
  <2>10. Bodies(n, k + 1, t)  BY <2>8, <2>9 DEF Bodies
  <2> QED BY <2>3, <2>4, <2>10 DEF t
<1> QED BY <1>6, <1>7, <1>8

\* An item and what is behind it, if that is a sequence.
LEMMA ConsFacts ==
    ASSUME NEW e, NEW t, IsSeq(t), NEW s, s = <<e>> \o t
    PROVE  IsSeq(s) /\ s # <<>> /\ Head(s) = e /\ Tail(s) = t
  BY HeadTailCons, Zenon

\* Of what is left of a body, the first item.
LEMMA RestParts ==
    ASSUME NEW n, NEW k, NEW s
    PROVE  /\ EndRest(n, k, s) =>
                  /\ IsSeq(s) /\ s # <<>> /\ Head(s) = Ender(k) /\ Bodies(n, k + 1, Tail(s))
           /\ \A e, b : LoopRest(n, k, e, b, s) =>
                  /\ IsSeq(s) /\ s # <<>> /\ Head(s) = BodyLoop(e, b) /\ EndRest(n, k, Tail(s))
           /\ \A e : OpcodeRest(n, k, e, s) =>
                  /\ IsSeq(s) /\ s # <<>> /\ Head(s) = R("Opcode", "opcode", e)
                  /\ EndRest(n, k, Tail(s))
           /\ \A e : BinaryRest(n, k, e, s) =>
                  /\ IsSeq(s) /\ s # <<>> /\ Head(s) = Binary(k, e)
                  /\ LoopRest(n, k, e, FALSE, Tail(s))
           /\ \A e : DeclRest(n, k, e, s) =>
                  /\ IsSeq(s) /\ s # <<>> /\ Head(s) = Decls(k, e) /\ Bodies(n, k + 1, Tail(s))
           /\ \A e : BeginRest(n, k, e, s) =>
                  /\ IsSeq(s) /\ s # <<>> /\ Head(s) = Call("BeginFunctionBody", k)
                  /\ DeclRest(n, k, e, Tail(s))
<1>1. \A t : EndRest(n, k, t) =>
          IsSeq(t) /\ t # <<>> /\ Head(t) = Ender(k) /\ Bodies(n, k + 1, Tail(t))
  BY BodiesFacts, ConsFacts, Zenon DEF EndRest
<1>2. \A e, b, t : LoopRest(n, k, e, b, t) =>
          IsSeq(t) /\ t # <<>> /\ Head(t) = BodyLoop(e, b) /\ EndRest(n, k, Tail(t))
  BY <1>1, ConsFacts, Zenon DEF LoopRest
<1>3. \A e, t : OpcodeRest(n, k, e, t) =>
          IsSeq(t) /\ t # <<>> /\ Head(t) = R("Opcode", "opcode", e) /\ EndRest(n, k, Tail(t))
  BY <1>1, ConsFacts, Zenon DEF OpcodeRest
<1>4. \A e, t : BinaryRest(n, k, e, t) =>
          IsSeq(t) /\ t # <<>> /\ Head(t) = Binary(k, e) /\ LoopRest(n, k, e, FALSE, Tail(t))
  BY <1>2, ConsFacts, Zenon DEF BinaryRest
<1>5. \A e, t : DeclRest(n, k, e, t) =>
          IsSeq(t) /\ t # <<>> /\ Head(t) = Decls(k, e) /\ Bodies(n, k + 1, Tail(t))
  BY BodiesFacts, ConsFacts, Zenon DEF DeclRest
<1>6. \A e, t : BeginRest(n, k, e, t) =>
          /\ IsSeq(t) /\ t # <<>> /\ Head(t) = Call("BeginFunctionBody", k)
          /\ DeclRest(n, k, e, Tail(t))
  BY <1>5, ConsFacts, Zenon DEF BeginRest
<1> QED BY <1>1, <1>2, <1>3, <1>4, <1>5, <1>6, Zenon

\* What is left of a section at a stage is a sequence: empty after the last body, or
\* with the item of its stage first.
LEMMA RestFacts ==
    ASSUME NEW g, NEW n, NEW k, NEW e, NEW b, NEW s, Rest(g, n, k, e, b, s)
    PROVE  /\ IsSeq(s)
           /\ s = <<>> => g = "next" /\ k = n
           /\ s # <<>> => StageHead(g, n, k, e, b, Head(s), Tail(s))
<1>1. CASE g = "next"    BY <1>1, BodiesFacts DEF Rest, StageHead
<1>2. CASE g = "begin"   BY <1>2, RestParts DEF Rest, StageHead
<1>3. CASE g = "decl"    BY <1>3, RestParts DEF Rest, StageHead
<1>4. CASE g = "binary"  BY <1>4, RestParts DEF Rest, StageHead
<1>5. CASE g = "loop"
  <2>1. LoopRest(n, k, e, b, s)  BY <1>5, Zenon DEF Rest
  <2>2. IsSeq(s) /\ s # <<>> /\ Head(s) = BodyLoop(e, b) /\ EndRest(n, k, Tail(s))
    BY <2>1, RestParts, Zenon
  <2> QED BY <1>5, <2>2, Zenon DEF StageHead
<1>6. CASE g = "opcode"  BY <1>6, RestParts DEF Rest, StageHead
<1>7. CASE g = "end"     BY <1>7, RestParts DEF Rest, StageHead
<1> QED BY <1>1, <1>2, <1>3, <1>4, <1>5, <1>6, <1>7 DEF Rest

\* At a stage the next item is a declaration or an operand, or the item of the stage.
LEMMA CodeHead ==
    ASSUME NEW g, NEW n, NEW k, NEW e, NEW b, NEW s, CodeAt(g, n, k, e, b, s)
    PROVE  /\ IsSeq(s)
           /\ s = <<>> => g = "next" /\ k = n
           /\ s # <<>> => \/ Fits(Inner, 0, Head(s)) /\ CodeAt(g, n, k, e, b, Tail(s))
                          \/ StageHead(g, n, k, e, b, Head(s), Tail(s))
<1>1. PICK a, r : Listed(Inner, 0, a) /\ Rest(g, n, k, e, b, r) /\ s = a \o r
  BY DEF CodeAt
<1>2. IsSeq(a) /\ IsSeq(r)  BY <1>1, ListedIsSeq, RestFacts
<1>3. IsSeq(s)  BY <1>1, <1>2, SeqConcat
<1>4. CASE a = <<>>
  <2>1. s = r  BY <1>1, <1>2, <1>4, ConcatEmptySeq DEF IsSeq
  <2> QED BY <1>1, <1>3, <2>1, RestFacts
<1>5. CASE a # <<>>
  <2>1. Head(s) = Head(a) /\ Tail(s) = Tail(a) \o r /\ s # <<>>
    BY <1>1, <1>2, <1>5, HeadTailConcat, Zenon
  <2>2. Fits(Inner, 0, Head(a)) /\ Listed(Inner, 0, Tail(a))  BY <1>1, <1>5, ListedHeadTail
  <2>3. CodeAt(g, n, k, e, b, Tail(s))  BY <1>1, <2>1, <2>2, Zenon DEF CodeAt
  <2> QED BY <1>3, <2>1, <2>2, <2>3, Zenon
<1> QED BY <1>4, <1>5

\* More declarations or operands before what is left.
LEMMA CodeMore ==
    ASSUME NEW g, NEW n, NEW k, NEW e, NEW b, NEW s, CodeAt(g, n, k, e, b, s),
           NEW t, Listed(Inner, 0, t)
    PROVE  CodeAt(g, n, k, e, b, t \o s)
<1>1. PICK a, r : Listed(Inner, 0, a) /\ Rest(g, n, k, e, b, r) /\ s = a \o r
  BY DEF CodeAt
<1>2. IsSeq(a) /\ IsSeq(r) /\ IsSeq(t)  BY <1>1, ListedIsSeq, RestFacts
<1>3. Cat(Cat(t, a), r) = Cat(t, Cat(a, r))  BY <1>2, CatAssoc
<1>4. t \o s = Cat(t, a) \o r  BY <1>1, <1>3, Zenon DEF Cat
<1>5. Listed(Inner, 0, Cat(t, a))  BY <1>1, ListedConcat DEF Cat
<1> QED BY <1>1, <1>4, <1>5, Zenon DEF CodeAt

\* A stage without any.
LEMMA CodeOf ==
    ASSUME NEW g, NEW n, NEW k, NEW e, NEW b, NEW s, Rest(g, n, k, e, b, s)
    PROVE  CodeAt(g, n, k, e, b, s)
<1>1. IsSeq(s)  BY RestFacts
<1>2. s = <<>> \o s  BY <1>1, ConcatEmptySeq DEF IsSeq
<1>3. Listed(Inner, 0, <<>>)  BY ListedNone
<1> QED BY <1>2, <1>3, Zenon DEF CodeAt

\* What a stage's own item is.
LEMMA StageKinds ==
    ASSUME NEW g, NEW n, NEW k, NEW e, NEW b, NEW i, NEW s, StageHead(g, n, k, e, b, i, s)
    PROVE  /\ i.r \in Primitives => i.r # "call" /\ i.r # "loop"
           /\ i.r \in Primitives => /\ g \in {"next", "decl", "opcode"}
                                    /\ i.d # "any" /\ i.r \in NatPrimitives \cup {"Opcode"}
           /\ i.r = "loop" => g = "loop"
           /\ i.r = "call" => g \in {"begin", "binary", "end"}
           /\ i.r \in Primitives \cup {"loop", "call"}
<1>1. /\ g = "next" => i.r = "U32" /\ i.d = "function body size"
      /\ g = "begin" => i.r = "call"
      /\ g = "decl" => i.r = "Count" /\ i.d = "local declaration count"
      /\ g = "binary" => i.r = "call"
      /\ g = "loop" => i.r = "loop"
      /\ g = "opcode" => i.r = "Opcode" /\ i.d = "opcode"
      /\ g = "end" => i.r = "call"
  <2>1. /\ Body(k).r = "U32" /\ Body(k).d = "function body size"
        /\ Call("BeginFunctionBody", k).r = "call"
        /\ Decls(k, e).r = "Count" /\ Decls(k, e).d = "local declaration count"
        /\ Binary(k, e).r = "call"
        /\ R("Opcode", "opcode", e).r = "Opcode" /\ R("Opcode", "opcode", e).d = "opcode"
        /\ Ender(k).r = "call"
    BY DEF Body, Call, R, Decls, Binary, Ender
  <2>2. BodyLoop(e, b).r = "loop"  BY Zenon DEF BodyLoop, Loop, R
  <2> QED BY <2>1, <2>2, Zenon DEF StageHead
<1>2. g \in {"next", "begin", "decl", "binary", "loop", "opcode", "end"}
  BY Zenon DEF StageHead
<1> QED BY <1>1, <1>2 DEF Primitives, NatPrimitives

\* In the code section what follows from a read is ReadCodeSection's to say.
LEMMA ThenCode ==
    ASSUME section = 10, NEW i, NEW v, NEW at, i.d # "any"
    PROVE  Then(i, v, at) = ReadCodeSection(i, v, at)
<1>1. /\ section = 10 /\ section # 1 /\ section # 2 /\ section # 3 /\ section # 4
      /\ section # 5 /\ section # 6 /\ section # 7 /\ section # 8 /\ section # 9
      /\ section # 0 /\ section # 11 /\ section # 12 /\ section # 13
  OBVIOUS
<1> QED BY <1>1, Zenon DEF Then

\* Two items are one and one.
LEMMA PairOfItems == ASSUME NEW x, NEW y PROVE <<x>> \o <<y>> = <<x, y>>
<1> DEFINE S == {x, y}
           s == <<x>> \o <<y>>
           p == <<x, y>>
<1>1. <<x>> \in Seq(S) /\ <<y>> \in Seq(S) /\ p \in Seq(S)  OBVIOUS
<1>2. Len(<<x>>) = 1 /\ Len(<<y>>) = 1 /\ Len(p) = 2  OBVIOUS
<1>3. <<x>>[1] = x /\ <<y>>[1] = y /\ p[1] = x /\ p[2] = y  OBVIOUS
<1> DEFINE a == <<x>>
           c == <<y>>
<1>4. s = a \o c /\ a \in Seq(S) /\ c \in Seq(S) /\ Len(a) = 1 /\ Len(c) = 1
      /\ a[1] = x /\ c[1] = y
  BY <1>1, <1>2, <1>3
<1>5. p \in Seq(S) /\ Len(p) = 2 /\ p[1] = x /\ p[2] = y  BY <1>1, <1>2, <1>3
<1> HIDE DEF a, c, s, p, S
<1>6. s \in Seq(S) /\ Len(s) = 2 /\ s[1] = x /\ s[2] = y
  BY <1>4, ConcatProperties
<1>7. \A k \in 1 .. 2 : s[k] = p[k]  BY <1>5, <1>6
<1>8. s = p  BY <1>5, <1>6, <1>7, SeqEqual
<1> QED BY <1>8 DEF s, p

\* Three items are one and two.
LEMMA TripleOfItems == ASSUME NEW x, NEW y, NEW z PROVE <<x>> \o <<y, z>> = <<x, y, z>>
<1> DEFINE S == {x, y, z}
           s == <<x>> \o <<y, z>>
           p == <<x, y, z>>
<1>1. <<x>> \in Seq(S) /\ <<y, z>> \in Seq(S) /\ p \in Seq(S)  OBVIOUS
<1>2. Len(<<x>>) = 1 /\ Len(<<y, z>>) = 2 /\ Len(p) = 3  OBVIOUS
<1>3. <<x>>[1] = x /\ <<y, z>>[1] = y /\ <<y, z>>[2] = z /\ p[1] = x /\ p[2] = y /\ p[3] = z
  OBVIOUS
<1> DEFINE a == <<x>>
           c == <<y, z>>
<1>4. s = a \o c /\ a \in Seq(S) /\ c \in Seq(S) /\ Len(a) = 1 /\ Len(c) = 2
      /\ a[1] = x /\ c[1] = y /\ c[2] = z
  BY <1>1, <1>2, <1>3
<1>5. p \in Seq(S) /\ Len(p) = 3 /\ p[1] = x /\ p[2] = y /\ p[3] = z  BY <1>1, <1>2, <1>3
<1> HIDE DEF a, c, s, p, S
<1>6. s \in Seq(S) /\ Len(s) = 3 /\ s[1] = x /\ s[2] = y /\ s[3] = z
  <2>1. /\ s \in Seq(S) /\ Len(s) = Len(a) + Len(c)
        /\ \A j \in 1 .. Len(a) + Len(c) : s[j] = IF j <= Len(a) THEN a[j] ELSE c[j - Len(a)]
    BY <1>4, ConcatProperties
  <2>2. Len(a) + Len(c) = 3  BY <1>4
  <2>3. s[1] = a[1] /\ s[2] = c[1] /\ s[3] = c[2]  BY <1>4, <2>1, <2>2
  <2> QED BY <1>4, <2>1, <2>2, <2>3
<1>7. \A k \in 1 .. 3 : s[k] = p[k]  BY <1>5, <1>6
<1>8. s = p  BY <1>5, <1>6, <1>7, SeqEqual
<1> QED BY <1>8 DEF s, p

\* Two items before a list, one at a time.
LEMMA TwoThen == ASSUME NEW x, NEW y, NEW t, IsSeq(t) PROVE <<x, y>> \o t = <<x>> \o (<<y>> \o t)
<1>1. IsSeq(<<x>>) /\ IsSeq(<<y>>)  BY SeqOne
<1>2. (<<x>> \o <<y>>) \o t = <<x>> \o (<<y>> \o t)  BY <1>1, SeqAssoc
<1> QED BY <1>2, PairOfItems, Zenon

\* Three items before a list, one at a time.
OneByOne(x, y, z, t) == <<x, y, z>> \o t = <<x>> \o (<<y>> \o (<<z>> \o t))

\* They may be put before it one at a time.
LEMMA ThreeThen ==
    ASSUME NEW x, NEW y, NEW z, NEW t, IsSeq(t)
    PROVE  OneByOne(x, y, z, t)
<1>1. IsSeq(<<x>>) /\ IsSeq(<<y>>) /\ IsSeq(<<z>>)  BY SeqOne
<1> DEFINE q == <<y, z>>
<1>2. q = <<y>> \o <<z>>  BY PairOfItems
<1>3. IsSeq(q)  BY <1>1, <1>2, SeqConcat
<1>4. q \o t = <<y>> \o (<<z>> \o t)  BY TwoThen
<1>5. <<x, y, z>> = <<x>> \o q  BY TripleOfItems
<1> HIDE DEF q
<1>6. (<<x>> \o q) \o t = <<x>> \o (q \o t)  BY <1>1, <1>3, SeqAssoc
<1>7. <<x, y, z>> \o t = <<x>> \o (<<y>> \o (<<z>> \o t))  BY <1>4, <1>5, <1>6, Zenon
<1> QED BY <1>7, Zenon DEF OneByOne

\* What a read of the size of a body is followed by.
LEMMA SizeRead ==
    ASSUME section = 10, NEW n, NEW k, NEW t, Bodies(n, k + 1, t), NEW v, NEW at, NEW b
    PROVE  CodeAt("begin", n, k, at + v, b, Then(Body(k), v, at) \o t)
<1> DEFINE e == at + v
           x == Call("BeginFunctionBody", k)
           y == Decls(k, e)
<1>1. Then(Body(k), v, at) = <<x, y>>
  <2>1. Body(k).d = "function body size" /\ Body(k).x = k  BY DEF Body, R
  <2>2. Then(Body(k), v, at) = ReadCodeSection(Body(k), v, at)  BY <2>1, ThenCode
  <2> QED BY <2>1, <2>2, Zenon DEF ReadCodeSection, Decls
<1>2. IsSeq(t)  BY BodiesFacts
<1> HIDE DEF e
<1>3. DeclRest(n, k, e, <<y>> \o t)  BY Zenon DEF DeclRest
<1> HIDE DEF x, y
<1>4. <<x, y>> \o t = <<x>> \o (<<y>> \o t)  BY <1>2, TwoThen
<1>5. BeginRest(n, k, e, <<x>> \o (<<y>> \o t))  BY <1>3, Zenon DEF BeginRest, x
<1>6. Rest("begin", n, k, e, b, <<x, y>> \o t)  BY <1>4, <1>5, Zenon DEF Rest
<1>7. CodeAt("begin", n, k, e, b, <<x, y>> \o t)  BY <1>6, CodeOf
<1> QED BY <1>1, <1>7 DEF e

\* What a read of the number of declarations is followed by.
LEMMA DeclsRead ==
    ASSUME section = 10, NEW n, NEW k, NEW e, NEW t, Bodies(n, k + 1, t), NEW v \in Nat,
           NEW at, NEW b
    PROVE  CodeAt("binary", n, k, e, b, Then(Decls(k, e), v, at) \o t)
<1> DEFINE x == Binary(k, e)
           y == BodyLoop(e, FALSE)
           z == Ender(k)
           l == Times(v, <<R("Index", "local type count", 0)>>)
<1>1. Then(Decls(k, e), v, at) = l \o <<x, y, z>>
  <2>1. /\ Decls(k, e).d = "local declaration count"
        /\ Decls(k, e).x = [index |-> k, end |-> e]
        /\ Decls(k, e).x.end = e /\ Decls(k, e).x.index = k
    BY DEF Decls, R
  <2>2. Then(Decls(k, e), v, at) = ReadCodeSection(Decls(k, e), v, at)  BY <2>1, ThenCode
  <2> QED BY <2>1, <2>2, Zenon DEF ReadCodeSection, Binary, BodyLoop, Ender
<1>2. Listed(Inner, 0, l)
  <2>1. Reads(Inner, "Index", "local type count")  BY DEF Reads, InnerReads
  <2>2. Listed(Inner, 0, <<R("Index", "local type count", 0)>>)
    BY <2>1, FitsPlain, ListedOne DEF Primitives, Remembering, Naming
  <2> QED BY <2>2, ListedTimes
<1>3. IsSeq(t) /\ IsSeq(l)  BY <1>2, BodiesFacts, ListedIsSeq
<1>4. EndRest(n, k, <<z>> \o t)  BY Zenon DEF EndRest
<1>5. LoopRest(n, k, e, FALSE, <<y>> \o (<<z>> \o t))  BY <1>4, Zenon DEF LoopRest
<1>6. BinaryRest(n, k, e, <<x>> \o (<<y>> \o (<<z>> \o t)))  BY <1>5, Zenon DEF BinaryRest
<1> HIDE DEF x, y, z, l
<1>7. IsSeq(<<x, y, z>>)
  <2>1. <<x, y, z>> \in Seq({x, y, z})  OBVIOUS
  <2> QED BY <2>1 DEF IsSeq
<1>8. <<x, y, z>> \o t = <<x>> \o (<<y>> \o (<<z>> \o t))
  <2>1. OneByOne(x, y, z, t)  BY <1>3, ThreeThen, Zenon
  <2> QED BY <2>1, Zenon DEF OneByOne
<1>9. Rest("binary", n, k, e, b, <<x, y, z>> \o t)  BY <1>6, <1>8, Zenon DEF Rest
<1>10. CodeAt("binary", n, k, e, b, l \o (<<x, y, z>> \o t))
  BY <1>2, <1>9, CodeOf, CodeMore
<1>11. (l \o <<x, y, z>>) \o t = l \o (<<x, y, z>> \o t)  BY <1>3, <1>7, SeqAssoc
<1> QED BY <1>1, <1>10, <1>11, Zenon

\* What a read of an opcode is followed by.
LEMMA OpcodeRead ==
    ASSUME section = 10, NEW n, NEW k, NEW e, NEW t, EndRest(n, k, t), NEW v, NEW at,
           NEW b, b = (v = OpcodeEnd /\ at = e)
    PROVE  CodeAt("loop", n, k, e, b, Then(R("Opcode", "opcode", e), v, at) \o t)
<1> DEFINE i == R("Opcode", "opcode", e)
<1>1. i.d = "opcode" /\ i.x = e  BY DEF R
<1>2. Then(i, v, at) = ReadCodeSection(i, v, at)  BY <1>1, ThenCode
<1> HIDE DEF i
<1>3. Looping(0, e, v = OpcodeEnd /\ at = e, Then(i, v, at))
  <2>1. Looping(0, i.x, v = OpcodeEnd /\ at = i.x, ReadCodeSection(i, v, at))
    BY <1>1, OpcodeItems
  <2> QED BY <1>1, <1>2, <2>1, Zenon
<1>4. PICK a : /\ Listed(Inner, 0, a)
               /\ Then(i, v, at) = a \o <<BodyLoop(e, v = OpcodeEnd /\ at = e)>>
  BY <1>3, Zenon DEF Looping
<1> DEFINE y == BodyLoop(e, v = OpcodeEnd /\ at = e)
<1>5. IsSeq(a) /\ IsSeq(t) /\ IsSeq(<<y>>)  BY <1>4, ListedIsSeq, RestParts, SeqOne
<1>6. LoopRest(n, k, e, v = OpcodeEnd /\ at = e, <<y>> \o t)  BY Zenon DEF LoopRest
<1>7. Rest("loop", n, k, e, v = OpcodeEnd /\ at = e, <<y>> \o t)  BY <1>6, Zenon DEF Rest
<1>8. Then(i, v, at) = a \o <<y>>  BY <1>4
<1> HIDE DEF y
<1>9. (a \o <<y>>) \o t = a \o (<<y>> \o t)  BY <1>5, SeqAssoc
<1>10. CodeAt("loop", n, k, e, v = OpcodeEnd /\ at = e, a \o (<<y>> \o t))
  BY <1>4, <1>7, CodeOf, CodeMore, Zenon
<1>11. CodeAt("loop", n, k, e, v = OpcodeEnd /\ at = e, Then(i, v, at) \o t)
  BY <1>8, <1>9, <1>10, Zenon
<1> QED BY <1>11, Zenon DEF i

\* A read in a body: of a declaration or an operand, or that of its stage.
StageRead(g, n, k, e, b, i, v, at, s) ==
    \/ Fits(Inner, 0, i) /\ CodeAt(g, n, k, e, b, s)
    \/ g = "next" /\ i = Body(k) /\ v \in Nat /\ CodeAt("begin", n, k, at + v, b, s)
    \/ g = "decl" /\ i = Decls(k, e) /\ CodeAt("binary", n, k, e, b, s)
    \/ /\ g = "opcode" /\ i = R("Opcode", "opcode", e)
       /\ CodeAt("loop", n, k, e, v = OpcodeEnd /\ at = e, s)

\* Every read in a body is of one of these kinds.
LEMMA ReadStage ==
    ASSUME section = 10, NEW g, NEW n, NEW k, NEW e, NEW b, CodeAt(g, n, k, e, b, todo),
           todo # <<>>, item.r \in Primitives, NEW v, NEW at, Yields(item, v)
    PROVE  StageRead(g, n, k, e, b, item, v, at, Then(item, v, at) \o Tail(todo))
<1> DEFINE i == item
           t == Tail(todo)
<1>1. \/ Fits(Inner, 0, i) /\ CodeAt(g, n, k, e, b, t)
      \/ StageHead(g, n, k, e, b, i, t)
  BY CodeHead, Zenon DEF item
<1>2. i.r \in Primitives /\ Yields(i, v)  OBVIOUS
<1> HIDE DEF i, t
<1>3. CASE Fits(Inner, 0, i) /\ CodeAt(g, n, k, e, b, t)
  <2>1. Listed(Inner, 0, Then(i, v, at))
    <3>1. CASE i.d = "any"  BY <3>1, ListedNone, Zenon DEF Then
    <3>2. CASE i.d # "any"
      <4>1. ReadOf(Inner, 0, i, v)  BY <1>2, <1>3, <3>2 DEF ReadOf
      <4> QED BY <3>2, <4>1, InnerItems, ThenCode
    <3> QED BY <3>1, <3>2
  <2>2. CodeAt(g, n, k, e, b, Then(i, v, at) \o t)  BY <1>3, <2>1, CodeMore
  <2> QED BY <1>3, <2>2, Zenon DEF StageRead, i, t
<1>4. CASE StageHead(g, n, k, e, b, i, t)
  <2>0. i.r \in NatPrimitives \cup {"Opcode"} /\ g \in {"next", "decl", "opcode"}
    BY <1>2, <1>4, StageKinds
  <2>1. CASE g = "next"
    <3>1. i = Body(k) /\ Bodies(n, k + 1, t)  BY <1>4, <2>1 DEF StageHead
    <3>2. v \in Nat  BY <1>2, <3>1 DEF Yields, NatPrimitives, Body, R
    <3>3. CodeAt("begin", n, k, at + v, b, Then(Body(k), v, at) \o t)  BY <3>1, SizeRead
    <3> QED BY <2>1, <3>1, <3>2, <3>3, Zenon DEF StageRead, i, t
  <2>2. CASE g = "decl"
    <3>1. i = Decls(k, e) /\ Bodies(n, k + 1, t)  BY <1>4, <2>2 DEF StageHead
    <3>2. v \in Nat  BY <1>2, <3>1 DEF Yields, NatPrimitives, Decls, R
    <3>3. CodeAt("binary", n, k, e, b, Then(Decls(k, e), v, at) \o t)  BY <3>1, <3>2, DeclsRead
    <3> QED BY <2>2, <3>1, <3>3, Zenon DEF StageRead, i, t
  <2>3. CASE g = "opcode"
    <3>1. i = R("Opcode", "opcode", e) /\ EndRest(n, k, t)  BY <1>4, <2>3 DEF StageHead
    <3>2. CodeAt("loop", n, k, e, v = OpcodeEnd /\ at = e,
                 Then(R("Opcode", "opcode", e), v, at) \o t)
      BY <3>1, OpcodeRead, Zenon
    <3> QED BY <2>3, <3>1, <3>2, Zenon DEF StageRead, i, t
  <2> QED BY <2>0, <2>1, <2>2, <2>3
<1> QED BY <1>1, <1>3, <1>4

\* The loop of a body reads another opcode, or has come to the end of the body.
LEMMA LoopStage ==
    ASSUME NEW g, NEW n, NEW k, NEW e, NEW b, CodeAt(g, n, k, e, b, todo),
           todo # <<>>, item.r = "loop", offset \in Nat, e \in Nat
    PROVE  /\ g = "loop"
           /\ offset < e => CodeAt("opcode", n, k, e, b, Unfold(item) \o Tail(todo))
           /\ ~(offset < e) =>
                /\ CodeAt("end", n, k, e, b, Unfold(item) \o Tail(todo))
                /\ (offset = e /\ b) \/ Head(Unfold(item) \o Tail(todo)) = Fail
<1> DEFINE i == item
           t == Tail(todo)
<1>1. \/ Fits(Inner, 0, i) /\ CodeAt(g, n, k, e, b, t)
      \/ StageHead(g, n, k, e, b, i, t)
  BY CodeHead, Zenon DEF item
<1>2. i.r = "loop"  OBVIOUS
<1>3. ~Fits(Inner, 0, i)
  <2>1. \A d : ~Loops(Inner, d)  BY DEF Loops, Inner, Sub
  <2>2. "loop" \notin Primitives  BY DEF Primitives
  <2> QED BY <1>2, <2>1, <2>2, Zenon DEF Fits
<1>4. g = "loop"  BY <1>1, <1>2, <1>3, StageKinds
<1>5. i = BodyLoop(e, b) /\ EndRest(n, k, t)  BY <1>1, <1>3, <1>4, Zenon DEF StageHead
<1>6. i.d = "body" /\ i.x.end = e /\ i.x.seen_end = b
  BY <1>5, Zenon DEF BodyLoop, Loop, R
<1>7. Unfold(i) = IF offset < i.x.end THEN <<R("Opcode", "opcode", i.x.end)>>
                  ELSE Require(offset = i.x.end) \o Require(i.x.seen_end)
  BY <1>6, Zenon DEF Unfold
<1>8. IsSeq(t)  BY <1>5, RestParts
<1> HIDE DEF i, t
<1>9. ASSUME offset < e PROVE CodeAt("opcode", n, k, e, b, Unfold(i) \o t)
  <2>1. Unfold(i) = <<R("Opcode", "opcode", e)>>  BY <1>6, <1>7, <1>9, Zenon
  <2>2. OpcodeRest(n, k, e, Unfold(i) \o t)  BY <1>5, <2>1, Zenon DEF OpcodeRest
  <2>3. Rest("opcode", n, k, e, b, Unfold(i) \o t)  BY <2>2, Zenon DEF Rest
  <2> QED BY <2>3, CodeOf, Zenon
<1>10. ASSUME ~(offset < e)
       PROVE  /\ CodeAt("end", n, k, e, b, Unfold(i) \o t)
              /\ (offset = e /\ b) \/ Head(Unfold(i) \o t) = Fail
  <2> DEFINE p == Require(offset = e)
             q == Require(b)
  <2>1. Unfold(i) = p \o q  BY <1>6, <1>7, <1>10, Zenon
  <2>2. Listed(Inner, 0, p) /\ Listed(Inner, 0, q)  BY ListedRequire
  <2>3. p = IF offset = e THEN <<>> ELSE <<Fail>>  BY DEF Require
  <2>4. (q = <<>> /\ b) \/ q = <<Fail>>  BY Zenon DEF Require
  <2> HIDE DEF p, q
  <2>5. Listed(Inner, 0, p \o q)  BY <2>2, ListedConcat
  <2>6. Rest("end", n, k, e, b, t)  BY <1>5, Zenon DEF Rest
  <2>7. CodeAt("end", n, k, e, b, (p \o q) \o t)  BY <2>5, <2>6, CodeOf, CodeMore, Zenon
  <2>8. IsSeq(p) /\ IsSeq(q)  BY <2>2, ListedIsSeq
  <2>9. (p \o q) \o t = p \o (q \o t) /\ IsSeq(q \o t)  BY <1>8, <2>8, SeqAssoc, SeqConcat
  <2>10. CASE p = <<Fail>>
    <3>1. Head(<<Fail>> \o (q \o t)) = Fail  BY <2>9, HeadTailCons, Zenon
    <3> QED BY <2>1, <2>7, <2>9, <2>10, <3>1, Zenon
  <2>11. CASE p = <<>> /\ q = <<Fail>>
    <3>1. Head(<<Fail>> \o t) = Fail  BY <1>8, HeadTailCons, Zenon
    <3>2. p \o (q \o t) = q \o t  BY <2>9, <2>11, ConcatEmptySeq DEF IsSeq
    <3> QED BY <2>1, <2>7, <2>9, <2>11, <3>1, <3>2, Zenon
  <2>12. CASE offset = e /\ b
    BY <2>1, <2>7, <2>12, Zenon
  <2> QED BY <2>3, <2>4, <2>10, <2>11, <2>12, Zenon
<1> QED BY <1>4, <1>9, <1>10, Zenon DEF i, t

\* A callback in a body: of a declaration or an instruction, or that of its stage.
StageCall(g, n, k, e, b, i, s) ==
    \/ Fits(Inner, 0, i) /\ Calls(Inner, i.d) /\ CodeAt(g, n, k, e, b, s)
    \/ g = "begin" /\ i = Call("BeginFunctionBody", k) /\ CodeAt("decl", n, k, e, b, s)
    \/ g = "binary" /\ i = Binary(k, e) /\ CodeAt("loop", n, k, e, FALSE, s)
    \/ g = "end" /\ i = Ender(k) /\ CodeAt("next", n, k + 1, e, b, s)

\* Every callback in a body is of one of these kinds.
LEMMA CallStage ==
    ASSUME NEW g, NEW n, NEW k, NEW e, NEW b, CodeAt(g, n, k, e, b, todo),
           todo # <<>>, item.r = "call"
    PROVE  StageCall(g, n, k, e, b, item, Tail(todo))
<1> DEFINE i == item
           t == Tail(todo)
<1>1. \/ Fits(Inner, 0, i) /\ CodeAt(g, n, k, e, b, t)
      \/ StageHead(g, n, k, e, b, i, t)
  BY CodeHead, Zenon DEF item
<1>2. i.r = "call"  OBVIOUS
<1> HIDE DEF i, t
<1> SUFFICES StageCall(g, n, k, e, b, i, t)
  BY Zenon DEF i, t
<1>3. CASE Fits(Inner, 0, i) /\ CodeAt(g, n, k, e, b, t)
  BY <1>2, <1>3, FitsKinds, Zenon DEF StageCall
<1>4. CASE StageHead(g, n, k, e, b, i, t)
  <2>0. g \in {"begin", "binary", "end"}  BY <1>2, <1>4, StageKinds
  <2>1. CASE g = "begin"
    <3>1. i = Call("BeginFunctionBody", k) /\ DeclRest(n, k, e, t)  BY <1>4, <2>1, Zenon DEF StageHead
    <3>2. CodeAt("decl", n, k, e, b, t)  BY <3>1, CodeOf, Zenon DEF Rest
    <3> QED BY <2>1, <3>1, <3>2, Zenon DEF StageCall
  <2>2. CASE g = "binary"
    <3>1. i = Binary(k, e) /\ LoopRest(n, k, e, FALSE, t)  BY <1>4, <2>2, Zenon DEF StageHead
    <3>2. CodeAt("loop", n, k, e, FALSE, t)  BY <3>1, CodeOf, Zenon DEF Rest
    <3> QED BY <2>2, <3>1, <3>2, Zenon DEF StageCall
  <2>3. CASE g = "end"
    <3>1. i = Ender(k) /\ Bodies(n, k + 1, t)  BY <1>4, <2>3, Zenon DEF StageHead
    <3>2. CodeAt("next", n, k + 1, e, b, t)  BY <3>1, CodeOf, Zenon DEF Rest
    <3> QED BY <2>3, <3>1, <3>2, Zenon DEF StageCall
  <2> QED BY <2>0, <2>1, <2>2, <2>3
<1> QED BY <1>1, <1>3, <1>4

\* The first read of the code section is the number of bodies.
LEMMA CountIsFirst == FirstRead(10).r = "Count" /\ FirstRead(10).d = "function body count"
<1>1. /\ 10 # 1 /\ 10 # 2 /\ 10 # 3 /\ 10 # 4 /\ 10 # 5 /\ 10 # 6 /\ 10 # 7 /\ 10 # 8 /\ 10 # 9
      /\ 10 # 0 /\ 10 # 11 /\ 10 # 12 /\ 10 # 13
  OBVIOUS
<1>2. FirstRead(10) = R("Count", "function body count", 0)  BY <1>1, Zenon DEF FirstRead
<1>3. /\ R("Count", "function body count", 0).r = "Count"
      /\ R("Count", "function body count", 0).d = "function body count"
  BY DEF R
<1> QED BY <1>2, <1>3, Zenon

\* What a read of the number of bodies is followed by.
LEMMA CountRead ==
    ASSUME section = 10, num.func \in Nat, NEW v \in Nat, NEW at, NEW e, NEW b
    PROVE  CodeAt("next", num.func + v, num.func, e, b, Then(FirstRead(10), v, at))
<1> DEFINE i == FirstRead(10)
           m == num.func
           s == [j \in 1 .. v |-> Body(m + (j - 1))]
           p == Require(v = num.sigs)
           c == <<Call("OnFunctionBodyCount", v)>>
<1>2. i.d = "function body count"  BY CountIsFirst
<1>3. Then(i, v, at) = p \o c \o s
  <2>1. Then(i, v, at) = ReadCodeSection(i, v, at)  BY <1>2, ThenCode
  <2> QED BY <1>2, <2>1, Zenon DEF ReadCodeSection, ForEach, Body
<1>4. Listed(Inner, 0, p)  BY ListedRequire
<1>5. Listed(Inner, 0, c)
  <2>1. /\ Calls(Inner, "OnFunctionBodyCount") /\ Remembers(Inner, "OnFunctionBodyCount", v)
    BY DEF Calls, Remembers, EntryCalls, Remembering, Naming, Initializing, Importing
  <2> QED BY <2>1, FitsCall, ListedOne
<1>6. Bodies(m + v, m, s)
  <2>1. m + v \in Nat /\ m \in 0 .. m + v /\ (m + v) - m = v  OBVIOUS
  <2> QED BY <2>1 DEF Bodies
<1> HIDE DEF i, m, s, p, c
<1>7. Listed(Inner, 0, p \o c)  BY <1>4, <1>5, ListedConcat
<1>8. CodeAt("next", m + v, m, e, b, s)  BY <1>6, CodeOf, Zenon DEF Rest
<1>9. CodeAt("next", m + v, m, e, b, (p \o c) \o s)  BY <1>7, <1>8, CodeMore, Zenon
<1> QED BY <1>3, <1>9, Zenon DEF i, m

\* Outside the code section no callback is about an instruction.
LEMMA CallOutside ==
    ASSUME ReaderInv, todo # <<>>, item.r = "call", section # 10
    PROVE  item.d \in EntryCalls /\ item.d \notin Arboreal
<1>1. item.d \in EntryCalls
  <2>1. CASE ItemOfBegin \/ ItemOfEnd  BY <2>1, ItemKinds DEF EntryCalls
  <2>2. CASE ItemOfName \/ ItemOfEnter \/ ItemOfFailure \/ ItemOfLeave  BY <2>2, ItemKinds
  <2>3. CASE ItemOfEntries
    <3>1. Calls(section, item.d) /\ section \in 1 .. 13
      BY <2>3, FitsKinds DEF ItemOfEntries, InEntries
    <3> QED BY <3>1 DEF Calls, EntryCalls, Inner, Sub
  <2>4. CASE ItemOfCustom \/ ItemInside
    <3>1. Calls(0, item.d) \/ Calls(Sub, item.d)
      BY <2>4, FitsKinds DEF ItemOfCustom, ItemInside
    <3> QED BY <3>1 DEF Calls, EntryCalls, Inner, Sub
  <2> QED BY <2>1, <2>2, <2>3, <2>4, ItemCases DEF ReaderInv
<1>2. Arboreal \cap EntryCalls = {}
  <2>1. {"BeginFunctionBody", "OnElseExpr", "OnCatchExpr", "OnEndExpr", "EndFunctionBody"}
            \cap EntryCalls = {}
    BY DEF EntryCalls, Naming, Initializing, Importing
  <2> QED BY <2>1, ExprCalls DEF Arboreal
<1> QED BY <1>1, <1>2

-----------------------------------------------------------------------------
(* The labels, through the code section.                                    *)

\* The index that no function begun has reached.
Begun(g, k) == IF g \in {"next", "begin"} THEN k ELSE k + 1
InStage(g, n, k, e, b) == /\ k \in Nat /\ e \in Nat
                          /\ CodeAt(g, n, k, e, b, todo)
                          /\ FuncsBelow(label_stack, Begun(g, k))
InCode == section = 10 =>
              IF section_result = "Error" THEN todo = <<>>
              ELSE \/ todo = <<FirstRead(10)>> /\ label_stack = <<>>
                   \/ \E g, n, k, e, b : InStage(g, n, k, e, b)
Labelled == /\ LabelsInv
            /\ 10 \notin seen => label_stack = <<>>
            /\ section = 10 => 10 \in seen
            /\ InCode

\* In the beginning there are no labels.
LEMMA LabelsInit == Init => Labelled
<1> SUFFICES ASSUME Init PROVE Labelled
  OBVIOUS
<1>1. label_stack = <<>> /\ exprs = <<>> /\ section = NONE
  BY DEF Init, IrInit, ReaderInit
<1>2. IsSeq(<<>>) /\ DOMAIN <<>> = {}  BY EmptySeq DEF IsSeq
<1>3. StackOK(<<>>, <<>>)  BY <1>2 DEF StackOK
<1> QED BY <1>1, <1>3 DEF Labelled, LabelsInv, InCode, NONE

\* A read in the code section moves from stage to stage; it changes no label.
LEMMA LabelsRead == ASSUME ReaderInv, Labelled, ReadItem PROVE Labelled'
<1> DEFINE v == Got.v
           at == offset + Got.n
<1>1. /\ todo # <<>> /\ IsRead /\ Got.n > 0
      /\ todo' = Then(item, v, at) \o Tail(todo)
      /\ UNCHANGED <<section, section_result, seen, irVars>>
  BY DEF ReadItem, Active
<1>2. label_stack' = label_stack /\ exprs' = exprs  BY <1>1 DEF irVars, building
<1>3. LabelsInv' /\ (10 \notin seen => label_stack = <<>>)' /\ (section = 10 => 10 \in seen)'
  BY <1>1, <1>2 DEF Labelled, LabelsInv
<1>4. CASE section # 10
  BY <1>1, <1>3, <1>4 DEF Labelled, InCode
<1>5. CASE section = 10
  <2>1. InEntries  BY <1>5 DEF ReaderInv, Place, Between, AtName, InCustom, InSubsection, NONE, Custom
  <2>2. item.r \in Primitives
    <3>1. item.r \notin Controls  BY <1>1 DEF IsRead, Controls
    <3> QED BY <1>1, <2>1, <3>1, EntriesItem, FitsKinds
  <2>3. at \in Nat /\ Yields(item, v)
    BY <1>1, <2>2, GotFacts DEF ReaderInv
  <2>4. num.func \in Nat  BY DEF ReaderInv, ValuesOK, Counters
  <2>5. section_result # "Error" /\ section' = 10 /\ section_result' # "Error"
    BY <1>1, <1>5 DEF Labelled, InCode
  <2> HIDE DEF v, at
  <2>6. CASE todo = <<FirstRead(10)>> /\ label_stack = <<>>
    <3>1. item = FirstRead(10) /\ Tail(todo) = <<>>  BY <2>6 DEF item
    <3>2. v \in Nat  BY <2>3, <3>1, CountIsFirst DEF Yields, NatPrimitives
    <3>3. PICK m \in Nat : m = num.func  BY <2>4
    <3>4. CodeAt("next", m + v, m, 0, FALSE, Then(item, v, at))
      BY <1>5, <2>4, <3>1, <3>2, <3>3, CountRead
    <3>5. IsSeq(Then(item, v, at))  BY <3>4, CodeHead
    <3>6. todo' = Then(item, v, at)  BY <1>1, <3>1, <3>5, ConcatEmptySeq DEF IsSeq
    <3>7. FuncsBelow(label_stack', m)
      <4>1. DOMAIN label_stack' = {}  BY <1>2, <2>6
      <4> QED BY <4>1 DEF FuncsBelow
    <3>8. PICK n, b : CodeAt("next", n, m, 0, b, todo')  BY <3>4, <3>6
    <3>9. InStage("next", n, m, 0, b)'  BY <3>3, <3>7, <3>8 DEF InStage, Begun
    <3> QED BY <1>3, <2>5, <3>9 DEF Labelled, InCode
  <2>7. CASE \E g, n, k, e, b : InStage(g, n, k, e, b)
    <3>1. PICK g, n, k, e, b : InStage(g, n, k, e, b)  BY <2>7
    <3>2. StageRead(g, n, k, e, b, item, v, at, todo')
      BY <1>1, <1>5, <2>2, <2>3, <3>1, ReadStage DEF InStage
    <3>3. k \in Nat /\ e \in Nat /\ FuncsBelow(label_stack', Begun(g, k))
      BY <1>2, <3>1 DEF InStage
    <3>4. PICK g2, e2, b2 : /\ CodeAt(g2, n, k, e2, b2, todo') /\ e2 \in Nat
                            /\ Begun(g2, k) = Begun(g, k)
      <4>1. CASE CodeAt(g, n, k, e, b, todo')  BY <3>3, <4>1
      <4>2. CASE g = "next" /\ v \in Nat /\ CodeAt("begin", n, k, at + v, b, todo')
        <5>1. at + v \in Nat  BY <2>3, <4>2
        <5> QED BY <4>2, <5>1 DEF Begun
      <4>3. CASE g = "decl" /\ CodeAt("binary", n, k, e, b, todo')
        BY <3>3, <4>3 DEF Begun
      <4>4. CASE g = "opcode" /\ CodeAt("loop", n, k, e, v = OpcodeEnd /\ at = e, todo')
        <5> DEFINE c == v = OpcodeEnd /\ at = e
        <5>1. CodeAt("loop", n, k, e, c, todo')  BY <4>4
        <5> HIDE DEF c
        <5>2. Begun("loop", k) = Begun(g, k)  BY <4>4 DEF Begun
        <5> QED BY <3>3, <5>1, <5>2
      <4> QED BY <3>2, <4>1, <4>2, <4>3, <4>4, Zenon DEF StageRead
    <3>5. InStage(g2, n, k, e2, b2)'  BY <3>3, <3>4 DEF InStage
    <3> QED BY <1>3, <2>5, <3>5 DEF Labelled, InCode
  <2> QED BY <1>5, <2>5, <2>6, <2>7 DEF Labelled, InCode
<1> QED BY <1>4, <1>5

\* A callback in a body moves to the next stage: that which begins body k has index k.
NextStage(g, n, k, e, cb, g2, k2, b2, s) ==
    /\ CodeAt(g2, n, k2, e, b2, s) /\ k2 \in Nat
    /\ \/ cb.f # "BeginFunctionBody" /\ Begun(g2, k2) = Begun(g, k)
       \/ cb.f = "BeginFunctionBody" /\ cb.x = k /\ Begun(g, k) = k /\ Begun(g2, k2) = k + 1

\* Every callback in a body moves so.
LEMMA CallMoves ==
    ASSUME todo # <<>>, item.r = "call", NEW g, NEW n, NEW k, NEW e, NEW b, InStage(g, n, k, e, b)
    PROVE  \E g2, k2, b2 : NextStage(g, n, k, e, Cb(item), g2, k2, b2, Tail(todo))
<1> DEFINE cb == Cb(item)
           t  == Tail(todo)
<1>1. StageCall(g, n, k, e, b, item, t)  BY CallStage, Zenon DEF InStage
<1>2. cb.f = item.d  BY DEF Cb
<1>3. k \in Nat /\ k + 1 \in Nat  BY DEF InStage
<1>4. item.d = "BeginFunctionBody" => cb.x = item.x
  <2>1. "BeginFunctionBody" \in Remembering  BY DEF Remembering
  <2> QED BY <2>1, ExprCalls DEF Cb
<1> HIDE DEF cb, t
<1>5. CASE Fits(Inner, 0, item) /\ Calls(Inner, item.d) /\ CodeAt(g, n, k, e, b, t)
  <2>1. item.d # "BeginFunctionBody"
    <3>1. item.d \notin Remembering  BY <1>5 DEF Calls, Inner, Sub
    <3> QED BY <3>1 DEF Remembering
  <2>2. NextStage(g, n, k, e, cb, g, k, b, t)  BY <1>2, <1>3, <1>5, <2>1 DEF NextStage
  <2> QED BY <2>2, Zenon DEF cb, t
<1>6. CASE /\ g = "begin" /\ item = Call("BeginFunctionBody", k)
           /\ CodeAt("decl", n, k, e, b, t)
  <2>1. item.d = "BeginFunctionBody" /\ item.x = k  BY <1>6 DEF Call, R
  <2>2. Begun(g, k) = k /\ Begun("decl", k) = k + 1  BY <1>6 DEF Begun
  <2>3. NextStage(g, n, k, e, cb, "decl", k, b, t)
    BY <1>2, <1>3, <1>4, <1>6, <2>1, <2>2 DEF NextStage
  <2> QED BY <2>3, Zenon DEF cb, t
<1>7. CASE g = "binary" /\ item = Binary(k, e) /\ CodeAt("loop", n, k, e, FALSE, t)
  <2>1. item.d # "BeginFunctionBody"  BY <1>7 DEF Binary, Call, R
  <2>2. Begun(g, k) = k + 1 /\ Begun("loop", k) = k + 1  BY <1>7 DEF Begun
  <2>3. PICK b2 : CodeAt("loop", n, k, e, b2, t)  BY <1>7
  <2>4. NextStage(g, n, k, e, cb, "loop", k, b2, t)
    BY <1>2, <1>3, <2>1, <2>2, <2>3 DEF NextStage
  <2> QED BY <2>4, Zenon DEF cb, t
<1>8. CASE g = "end" /\ item = Ender(k) /\ CodeAt("next", n, k + 1, e, b, t)
  <2>1. item.d # "BeginFunctionBody"  BY <1>8 DEF Ender, Call, R
  <2>2. Begun(g, k) = k + 1 /\ Begun("next", k + 1) = k + 1  BY <1>8 DEF Begun
  <2>3. NextStage(g, n, k, e, cb, "next", k + 1, b, t)
    BY <1>2, <1>3, <1>8, <2>1, <2>2 DEF NextStage
  <2> QED BY <2>3, Zenon DEF cb, t
<1> QED BY <1>1, <1>5, <1>6, <1>7, <1>8, Zenon DEF StageCall

\* A callback keeps the labels: the functions begun are those before the next body.
LEMMA LabelsCall == ASSUME ReaderInv, Labelled, CallItem PROVE Labelled'
<1> DEFINE cb == Cb(item)
<1>1. /\ todo # <<>> /\ item.r = "call" /\ Delegate(cb) /\ ~Rejects(cb)
      /\ todo' = Tail(todo)
      /\ UNCHANGED <<section, section_result, seen>>
  BY DEF CallItem, Active
<1>2. cb.f = item.d  BY DEF Cb
<1>3. ~LabelMissing(cb) /\ ~LabelUnexpected(cb)  BY <1>1 DEF Rejects
<1> HIDE DEF cb
<1>4. CASE section # 10
  <2>1. label_stack' = label_stack /\ exprs' = exprs
    <3>1. cb.f \notin Arboreal  BY <1>1, <1>2, <1>4, CallOutside
    <3> QED BY <1>1, <3>1, TreesAfter
  <2> QED BY <1>1, <1>4, <2>1 DEF Labelled, LabelsInv, InCode
<1>5. CASE section = 10
  <2>1. todo # <<FirstRead(10)>>
    <3>1. todo = <<FirstRead(10)>> => item = FirstRead(10)  BY DEF item
    <3> QED BY <1>1, <3>1, CountIsFirst
  <2>2. section_result # "Error"  BY <1>1, <1>5 DEF Labelled, InCode
  <2>3. PICK g, n, k, e, b : InStage(g, n, k, e, b)
    BY <1>5, <2>1, <2>2, Zenon DEF Labelled, InCode
  <2>4. PICK g2, k2, b2 : NextStage(g, n, k, e, cb, g2, k2, b2, todo')
    BY <1>1, <2>3, CallMoves DEF cb
  <2>5. k \in Nat /\ e \in Nat /\ FuncsBelow(label_stack, Begun(g, k))  BY <2>3 DEF InStage
  <2>6. cb.f = "BeginFunctionBody" => cb.x \in Nat /\ FuncsBelow(label_stack, cb.x)
    BY <2>4, <2>5 DEF NextStage
  <2>7. /\ LabelsInv'
        /\ \A m : /\ FuncsBelow(label_stack, m)
                  /\ cb.f = "BeginFunctionBody" => cb.x < m
                  => FuncsBelow(label_stack, m)'
    BY <1>1, <1>3, <2>6, DelegateLabels DEF Labelled
  <2>8. FuncsBelow(label_stack, Begun(g2, k2))
    <3>1. CASE cb.f # "BeginFunctionBody"  BY <2>4, <2>5, <3>1 DEF NextStage
    <3>2. CASE cb.f = "BeginFunctionBody"
      <4>1. Begun(g, k) = k /\ Begun(g2, k2) = k + 1  BY <2>4, <3>2 DEF NextStage
      <4>2. \A j \in DOMAIN label_stack : LabelOK(exprs, label_stack[j])
        BY DEF Labelled, LabelsInv, StackOK
      <4> QED BY <2>5, <4>1, <4>2 DEF FuncsBelow, LabelOK
    <3> QED BY <3>1, <3>2
  <2>9. cb.f = "BeginFunctionBody" => cb.x < Begun(g2, k2)
    BY <2>4, <2>5 DEF NextStage
  <2>10. FuncsBelow(label_stack, Begun(g2, k2))'
    <3>1. PICK m : m = Begun(g2, k2)  OBVIOUS
    <3>2. FuncsBelow(label_stack, m)'  BY <2>7, <2>8, <2>9, <3>1
    <3> QED BY <3>1, <3>2 DEF FuncsBelow
  <2>11. InStage(g2, n, k2, e, b2)'  BY <2>4, <2>5, <2>10 DEF InStage, NextStage
  <2>12. (10 \notin seen => label_stack = <<>>)' /\ (section = 10 => 10 \in seen)'
    BY <1>1, <1>5 DEF Labelled
  <2> QED BY <1>1, <2>2, <2>7, <2>11, <2>12 DEF Labelled, InCode
<1> QED BY <1>4, <1>5

\* The loop of a body is unfolded in its stage.
LEMMA LabelsLoop == ASSUME ReaderInv, Labelled, LoopItem PROVE Labelled'
<1>1. /\ todo # <<>> /\ item.r = "loop" /\ todo' = Unfold(item) \o Tail(todo)
      /\ UNCHANGED <<section, section_result, seen, label_stack, exprs>>
  BY DEF LoopItem, Active, irVars, building
<1>2. CASE section # 10  BY <1>1, <1>2 DEF Labelled, LabelsInv, InCode
<1>3. CASE section = 10
  <2>1. todo # <<FirstRead(10)>>
    <3>1. todo = <<FirstRead(10)>> => item = FirstRead(10)  BY DEF item
    <3> QED BY <1>1, <3>1, CountIsFirst
  <2>2. section_result # "Error"  BY <1>1, <1>3 DEF Labelled, InCode
  <2>3. PICK g, n, k, e, b : InStage(g, n, k, e, b)
    BY <1>3, <2>1, <2>2, Zenon DEF Labelled, InCode
  <2>4. offset \in Nat  BY DEF ReaderInv, ValuesOK
  <2>5. k \in Nat /\ e \in Nat /\ FuncsBelow(label_stack, Begun(g, k))  BY <2>3 DEF InStage
  <2>6. PICK g2 \in {"opcode", "end"} : g = "loop" /\ CodeAt(g2, n, k, e, b, todo')
    BY <1>1, <2>3, <2>4, <2>5, LoopStage DEF InStage
  <2>7. Begun(g2, k) = Begun(g, k)  BY <2>6 DEF Begun
  <2>8. InStage(g2, n, k, e, b)'  BY <1>1, <2>5, <2>6, <2>7 DEF InStage, FuncsBelow
  <2> QED BY <1>1, <2>2, <2>8 DEF Labelled, LabelsInv, InCode
<1> QED BY <1>2, <1>3

\* An error is reported in the middle of a body.
LEMMA LabelsReport == ASSUME ReaderInv, Labelled, Report PROVE Labelled'
<1>1. /\ todo # <<>> /\ item.r = "report" /\ todo' = Tail(todo)
      /\ UNCHANGED <<section, section_result, seen, label_stack, exprs>>
  BY DEF Report, Active, irVars, building
<1>2. CASE section # 10  BY <1>1, <1>2 DEF Labelled, LabelsInv, InCode
<1>3. CASE section = 10
  <2>1. todo # <<FirstRead(10)>>
    <3>1. todo = <<FirstRead(10)>> => item = FirstRead(10)  BY DEF item
    <3> QED BY <1>1, <3>1, CountIsFirst
  <2>2. section_result # "Error"  BY <1>1, <1>3 DEF Labelled, InCode
  <2>3. PICK g, n, k, e, b : InStage(g, n, k, e, b)
    BY <1>3, <2>1, <2>2, Zenon DEF Labelled, InCode
  <2>4. CodeAt(g, n, k, e, b, todo')
    <3>1. ~StageHead(g, n, k, e, b, item, todo')
      <4>1. item.r \notin Primitives \cup {"loop", "call"}  BY <1>1 DEF Primitives
      <4> QED BY <4>1, StageKinds
    <3> QED BY <1>1, <2>3, <3>1, CodeHead, Zenon DEF InStage, item
  <2>5. InStage(g, n, k, e, b)'  BY <1>1, <2>3, <2>4 DEF InStage, FuncsBelow
  <2> QED BY <1>1, <2>2, <2>5 DEF Labelled, LabelsInv, InCode
<1> QED BY <1>2, <1>3

\* A subsection is entered and left, and the rest skipped, in custom sections only.
LEMMA CustomSteps ==
    ASSUME ReaderInv, EnterSubsection \/ LeaveSubsection \/ SkipRest
    PROVE  section # 10
<1>1. todo # <<>> /\ item.r \in {"enter", "leave", "skip"}
  BY DEF EnterSubsection, LeaveSubsection, SkipRest, Active
<1>2. section = 10 => InEntries
  BY DEF ReaderInv, Place, Between, AtName, InCustom, InSubsection, NONE, Custom
<1>3. InEntries => ItemOfEntries  BY <1>1, EntriesItem DEF ItemOfEntries
<1> QED BY <1>1, <1>2, <1>3, ItemKinds

\* Every step keeps the labels.
LEMMA LabelsNext == ReaderInv /\ Labelled /\ [Next]_modVars => Labelled'
<1> SUFFICES ASSUME ReaderInv, Labelled, [Next]_modVars PROVE Labelled'
  OBVIOUS
<1>1. CASE NextSection
  <2>1. PICK h \in {Header} : /\ HeaderAccepted(h) /\ section' = h.code
                              /\ seen' = IF h.code = Custom THEN seen ELSE seen \cup {h.code}
                              /\ todo' = <<FirstRead(h.code)>>
    BY <1>1 DEF NextSection
  <2>2. section_result' = "Ok" /\ label_stack' = label_stack /\ exprs' = exprs
    BY <1>1 DEF NextSection, irVars, building
  <2>3. h.code = 10 => 10 \notin seen /\ 10 \in seen'
    BY <2>1 DEF HeaderAccepted, Custom
  <2>4. seen \subseteq seen'  BY <2>1
  <2> QED BY <2>1, <2>2, <2>3, <2>4 DEF Labelled, LabelsInv, InCode
<1>2. CASE RejectSection \/ ReadModuleEnds \/ CallUndefined \/ UNCHANGED modVars
  <2>1. UNCHANGED <<section, section_result, seen, todo, label_stack, exprs>>
    BY <1>2 DEF RejectSection, ReadModuleEnds, CallUndefined, modVars, readerVars, irVars, building
  <2> QED BY <2>1 DEF Labelled, LabelsInv, InCode, InStage, FuncsBelow
<1>3. CASE EnterSubsection \/ LeaveSubsection \/ SkipRest
  <2>1. section # 10  BY <1>3, CustomSteps
  <2>2. UNCHANGED <<section, seen, label_stack, exprs>>
    BY <1>3 DEF EnterSubsection, LeaveSubsection, SkipRest, irVars, building
  <2> QED BY <2>1, <2>2 DEF Labelled, LabelsInv, InCode
<1>4. CASE HandlerFails
  <2>1. /\ section_result' = "Error" /\ todo' = <<>>
        /\ UNCHANGED <<section, seen, label_stack, exprs>>
    BY <1>4 DEF HandlerFails, LeftAfterFailure, irVars, building
  <2> QED BY <2>1 DEF Labelled, LabelsInv, InCode
<1>5. CASE EndSection
  <2>1. section' = NONE /\ UNCHANGED <<seen, label_stack, exprs>>
    BY <1>5 DEF EndSection, irVars, building
  <2> QED BY <2>1 DEF Labelled, LabelsInv, InCode, NONE
<1> QED BY <1>1, <1>2, <1>3, <1>4, <1>5, LabelsRead, LabelsCall, LabelsLoop, LabelsReport DEF Next

\* LabelsMatch: under each label of a construct is the label whose list ends with that
\* construct, of the kind that OnElseExpr, OnCatchExpr and OnEndExpr cast it to.
THEOREM ReaderLabelsMatch == ReaderSpec => []LabelsMatch
<1> QED BY LabelsInit, LabelsNext, LabelsInvMatch, ReaderInvariant, PTL DEF ReaderSpec, Labelled

-----------------------------------------------------------------------------
(* The bytes of the bodies, B, in a file d: the functions from m + 1 on.      *)

Bins == [f \in DOMAIN funcs |-> funcs[f].wasm_bin]

IsRange(B, f)     == B[f] # <<>> /\ B[f][1] \in Nat /\ B[f][2] \in Nat
EndsBody(B, d, f) == B[f][1] < B[f][2] /\ B[f][2] <= Len(d) /\ d[B[f][2]] = OpcodeEnd[2]

\* Those up to function k are in place.
InOrder(B, d, m, k) ==
    \A f \in DOMAIN B : m < f /\ f <= k =>
        /\ IsRange(B, f) /\ EndsBody(B, d, f)
        /\ m + 1 < f => B[f - 1][2] < B[f][1]

\* Function k ends at or before at.
EndsBefore(B, m, k, at) == k \in DOMAIN B /\ m < k => B[k][2] <= at

\* Body k, of function k + 1, begins behind that before it and ends at e.
Current(B, m, k, e, at) ==
    k + 1 \in DOMAIN B =>
        /\ IsRange(B, k + 1) /\ B[k + 1][2] = e /\ B[k + 1][1] <= at
        /\ m < k => B[k][2] < B[k + 1][1]

\* The end of a body has been read: what the loop then says, and what it leaves.
Ended(g, b) == g = "end" \/ (g = "loop" /\ b)

\* What is in place at stage g of body k.
Placed(g, m, k, e, b, at, B, d) ==
    /\ InOrder(B, d, m, k)
    /\ g = "next" => EndsBefore(B, m, k, at)
    /\ g \in {"begin", "decl", "binary"} => EndsBefore(B, m, k, at - 1)
    /\ g \in {"loop", "opcode", "end"} => Current(B, m, k, e, at)
    /\ Ended(g, b) /\ k + 1 \in DOMAIN B => EndsBody(B, d, k + 1)
    /\ g = "end" => e <= at

\* It stays in place as the reader goes on.
LEMMA PlacedOn ==
    ASSUME NEW g, NEW m, NEW k, NEW e \in Nat, NEW b, NEW at \in Nat, NEW B, NEW d,
           Placed(g, m, k, e, b, at, B, d), InOrder(B, d, m, k) /\ m \in Nat /\ k \in Nat,
           DOMAIN B \subseteq Nat \ {0},
           NEW at2 \in Nat, at <= at2
    PROVE  Placed(g, m, k, e, b, at2, B, d)
<1>1. \A f \in DOMAIN B : m < f /\ f <= k => B[f][2] \in Nat  BY DEF InOrder, IsRange
<1>2. EndsBefore(B, m, k, at) => EndsBefore(B, m, k, at2)  BY <1>1 DEF EndsBefore
<1>3. EndsBefore(B, m, k, at - 1) => EndsBefore(B, m, k, at2 - 1)  BY <1>1 DEF EndsBefore
<1>4. Current(B, m, k, e, at) => Current(B, m, k, e, at2)  BY DEF Current, IsRange
<1>5. g = "end" => e <= at2  BY DEF Placed
<1> QED BY <1>2, <1>3, <1>4, <1>5, Zenon DEF Placed

\* The size of the next body is read.
LEMMA PlacedSize ==
    ASSUME NEW m \in Nat, NEW k \in Nat, NEW e, NEW b, NEW at \in Nat, NEW B, NEW d,
           Placed("next", m, k, e, b, at, B, d), DOMAIN B \subseteq Nat \ {0},
           NEW at2 \in Nat, at < at2, NEW e2, NEW b2
    PROVE  Placed("begin", m, k, e2, b2, at2, B, d)
<1>1. InOrder(B, d, m, k) /\ EndsBefore(B, m, k, at)  BY DEF Placed
<1>2. \A f \in DOMAIN B : m < f /\ f <= k => B[f][2] \in Nat  BY <1>1 DEF InOrder, IsRange
<1>3. EndsBefore(B, m, k, at2 - 1)  BY <1>1, <1>2 DEF EndsBefore
<1>4. ~Ended("begin", b2)  BY Zenon DEF Ended
<1> QED BY <1>1, <1>3, <1>4, Zenon DEF Placed

\* The beginning of a body and its declarations change nothing.
LEMMA PlacedBegin ==
    ASSUME NEW g, NEW g2, {g, g2} \subseteq {"begin", "decl", "binary"},
           NEW m, NEW k, NEW e, NEW b, NEW at, NEW B, NEW d, Placed(g, m, k, e, b, at, B, d)
    PROVE  Placed(g2, m, k, e, b, at, B, d)
<1>1. /\ g2 \in {"begin", "decl", "binary"} /\ g \in {"begin", "decl", "binary"}
      /\ g2 # "next" /\ g2 \notin {"loop", "opcode", "end"} /\ g2 # "end" /\ g2 # "loop"
  OBVIOUS
<1> QED BY <1>1, Zenon DEF Placed, Ended

\* Its bytes are those from here to its end.
LEMMA PlacedBytes ==
    ASSUME NEW m \in Nat, NEW k \in Nat, NEW e \in Nat, NEW b, NEW at \in Nat, NEW B, NEW d,
           Placed("binary", m, k, e, b, at, B, d), NEW l \in Nat, DOMAIN B = 1 .. l,
           NEW B2, DOMAIN B2 = DOMAIN B,
           \A f \in DOMAIN B : B2[f] = IF f = k + 1 THEN <<at, e>> ELSE B[f]
    PROVE  Placed("loop", m, k, e, FALSE, at, B2, d)
<1>1. InOrder(B, d, m, k) /\ EndsBefore(B, m, k, at - 1)  BY Zenon DEF Placed
<1>2. \A f \in DOMAIN B : f <= k => B2[f] = B[f]  OBVIOUS
<1>3. InOrder(B2, d, m, k)
  <2> SUFFICES ASSUME NEW f \in DOMAIN B2, m < f, f <= k
               PROVE  /\ IsRange(B2, f) /\ EndsBody(B2, d, f)
                      /\ m + 1 < f => B2[f - 1][2] < B2[f][1]
    BY DEF InOrder
  <2>1. B2[f] = B[f]  BY <1>2
  <2>2. IsRange(B, f) /\ EndsBody(B, d, f) /\ (m + 1 < f => B[f - 1][2] < B[f][1])
    BY <1>1 DEF InOrder
  <2>3. m + 1 < f => B2[f - 1] = B[f - 1]
    <3>1. m + 1 < f => f - 1 \in DOMAIN B /\ f - 1 <= k  OBVIOUS
    <3> QED BY <1>2, <3>1
  <2> QED BY <2>1, <2>2, <2>3 DEF IsRange, EndsBody
<1>4. Current(B2, m, k, e, at)
  <2> SUFFICES ASSUME k + 1 \in DOMAIN B
               PROVE  /\ IsRange(B2, k + 1) /\ B2[k + 1][2] = e /\ B2[k + 1][1] <= at
                      /\ m < k => B2[k][2] < B2[k + 1][1]
    BY DEF Current
  <2>1. B2[k + 1] = <<at, e>>  OBVIOUS
  <2>2. B2[k + 1] # <<>> /\ B2[k + 1][1] = at /\ B2[k + 1][2] = e  BY <2>1
  <2>3. m < k => B[k][2] \in Nat  BY <1>1 DEF InOrder, IsRange
  <2>4. m < k => B2[k][2] < at  BY <1>1, <1>2, <2>3 DEF EndsBefore
  <2> QED BY <2>2, <2>4 DEF IsRange
<1>5. ~Ended("loop", FALSE)  BY Zenon DEF Ended
<1> QED BY <1>3, <1>4, <1>5, Zenon DEF Placed

\* The loop goes on.
LEMMA PlacedLoop ==
    ASSUME NEW m, NEW k, NEW e, NEW b, NEW at, NEW B, NEW d, Placed("loop", m, k, e, b, at, B, d)
    PROVE  Placed("opcode", m, k, e, b, at, B, d)
  BY Zenon DEF Placed, Ended

\* The loop is at the end.
LEMMA PlacedEnd ==
    ASSUME NEW m, NEW k, NEW e, NEW b, NEW at \in Nat, NEW B, NEW d,
           Placed("loop", m, k, e, b, at, B, d), at = e, b
    PROVE  Placed("end", m, k, e, b, at, B, d)
<1>1. e <= at  OBVIOUS
<1> QED BY <1>1, Zenon DEF Placed, Ended

\* An opcode is read; an end in the last byte is that of the body.
LEMMA PlacedOpcode ==
    ASSUME NEW m, NEW k \in Nat, NEW e \in Nat, NEW b, NEW at \in Nat, NEW B, NEW d,
           Placed("opcode", m, k, e, b, at, B, d), m \in Nat, DOMAIN B \subseteq Nat \ {0},
           NEW at2 \in Nat, at < at2, at2 <= Len(d), NEW P,
           P => at2 = e /\ d[e] = OpcodeEnd[2]
    PROVE  Placed("loop", m, k, e, P, at2, B, d)
<1>1. InOrder(B, d, m, k) /\ Current(B, m, k, e, at)  BY Zenon DEF Placed
<1>2. Current(B, m, k, e, at2)  BY <1>1 DEF Current, IsRange
<1>3. at2 = e /\ d[e] = OpcodeEnd[2] /\ k + 1 \in DOMAIN B => EndsBody(B, d, k + 1)
  BY <1>1 DEF Current, EndsBody, IsRange
<1>4. Ended("loop", P) => P  BY Zenon DEF Ended
<1> QED BY <1>1, <1>2, <1>3, <1>4, Zenon DEF Placed

\* The body has ended: function k + 1 is in place.
LEMMA PlacedNext ==
    ASSUME NEW m \in Nat, NEW k \in Nat, NEW e \in Nat, NEW b, NEW at \in Nat, NEW B, NEW d,
           Placed("end", m, k, e, b, at, B, d), DOMAIN B \subseteq Nat \ {0}
    PROVE  Placed("next", m, k + 1, e, b, at, B, d)
<1>1. InOrder(B, d, m, k) /\ Current(B, m, k, e, at) /\ e <= at
      /\ (k + 1 \in DOMAIN B => EndsBody(B, d, k + 1))
  BY Zenon DEF Placed, Ended
<1>2. InOrder(B, d, m, k + 1)
  <2> SUFFICES ASSUME NEW f \in DOMAIN B, m < f, f <= k + 1
               PROVE  /\ IsRange(B, f) /\ EndsBody(B, d, f)
                      /\ m + 1 < f => B[f - 1][2] < B[f][1]
    BY DEF InOrder
  <2>1. CASE f <= k  BY <1>1, <2>1 DEF InOrder
  <2>2. CASE f = k + 1
    <3>1. f - 1 = k /\ (m + 1 < f => m < k)  BY <2>2
    <3> QED BY <1>1, <2>2, <3>1 DEF Current
  <2>3. f <= k \/ f = k + 1  OBVIOUS
  <2> QED BY <2>1, <2>2, <2>3
<1>3. EndsBefore(B, m, k + 1, at)  BY <1>1 DEF Current, EndsBefore, IsRange
<1>4. ~Ended("next", b)  BY Zenon DEF Ended
<1> QED BY <1>2, <1>3, <1>4, Zenon DEF Placed

\* Before the first body.
LEMMA PlacedFirst ==
    ASSUME NEW m \in Nat, NEW e, NEW b, NEW at, NEW B, NEW d, DOMAIN B \subseteq Nat
    PROVE  Placed("next", m, m, e, b, at, B, d)
<1>1. InOrder(B, d, m, m)  BY DEF InOrder
<1>2. EndsBefore(B, m, m, at)  BY DEF EndsBefore
<1>3. ~Ended("next", b)  BY Zenon DEF Ended
<1> QED BY <1>1, <1>2, <1>3, Zenon DEF Placed

\* An opcode that is an end has the code of an end in its last byte.
LEMMA EndOpcode ==
    ASSUME NEW d, NEW i \in Nat, NEW end, NEW x, x = ReadOpcode(d, i, end), x.n > 0,
           x.v = OpcodeEnd
    PROVE  d[i + x.n] = OpcodeEnd[2]
<1> DEFINE b == ReadT(d, i, end, 1)
           u == ReadU32Leb128(d, i + 1, end)
<1>1. x = IF b.n = 0 \/ (b.v \in OpcodePrefixes /\ u.n = 0) THEN [n |-> 0, v |-> <<0, 0>>]
          ELSE IF b.v \in OpcodePrefixes THEN [n |-> 1 + u.n, v |-> <<b.v, u.v>>]
          ELSE [n |-> 1, v |-> <<0, b.v>>]
  BY Zenon DEF ReadOpcode
<1>2. b.n # 0 => b.v = d[i + 1]
  BY DEF ReadT, CannotRead
<1> HIDE DEF b, u
<1>3. b.n # 0  BY <1>1
<1>4. b.v \notin OpcodePrefixes
  <2>1. b.v \in OpcodePrefixes => x.v = <<b.v, u.v>>  BY <1>1
  <2>2. <<b.v, u.v>> = <<0, 11>> => b.v = 0  OBVIOUS
  <2> QED BY <2>1, <2>2 DEF OpcodeEnd, OpcodePrefixes
<1>5. x.n = 1 /\ x.v = <<0, b.v>>  BY <1>1, <1>3, <1>4
<1>6. b.v = 11
  <2>1. <<0, b.v>> = <<0, 11>> => b.v = 11  OBVIOUS
  <2> QED BY <1>5, <2>1 DEF OpcodeEnd
<1>7. OpcodeEnd[2] = 11  BY DEF OpcodeEnd
<1> QED BY <1>2, <1>3, <1>5, <1>6, <1>7

-----------------------------------------------------------------------------
(* The number of functions.                                                 *)

\* The two counts are read in their own sections.
LEMMA CountReads ==
    ASSUME NEW c, NEW end, NEW i, Fits(c, end, i), i.r \in Primitives
    PROVE  /\ i.d = "function signature count" => c = 3
           /\ i.d = "function body count" => c = 10
<1>1. ASSUME i.d \in {"function signature count", "function body count"}
      PROVE  /\ i.d = "function signature count" => c = 3
             /\ i.d = "function body count" => c = 10
  <2>1. i.d # "any"  BY <1>1
  <2>2. Reads(c, i.r, i.d)  BY <2>1, ReadFits
  <2> QED BY <1>1, <2>2
        DEF Reads, CustomReads, SubReads, TypeReads, ImportReads, FunctionReads,
        TableSectionReads, MemorySectionReads, GlobalSectionReads, ExportReads, StartReads,
        ElemReads, CodeReads, InnerReads, DataReads, DataCountReads, EventSectionReads, TableReads,
        MemoryReads, GlobalReads, EventReads, InitReads
<1> QED BY <1>1

\* What is next, in each place: a read counts in sections 3 and 10 only, and functions are
\* added in sections 2 and 3 and given their bytes in section 10.
LEMMA PlaceOfItem ==
    ASSUME ReaderInv, todo # <<>>
    PROVE  /\ IsRead => item.r \in Primitives
           /\ IsRead /\ item.d = "function signature count" => section = 3
           /\ IsRead /\ item.d = "function body count" => section = 10
           /\ item.r = "call" /\ item.d = "OnFunction" => section = 3
           /\ item.r = "call" /\ item.d = "OnImportFunc" => section = 2
           /\ item.r = "call" /\ item.d = "OnFunctionBinaryRead" => section = 10
           /\ item.r = "loop" => section # 3
<1>1. IsRead => item.r \notin Controls /\ item.r # "call" /\ item.r # "error" /\ item.r # "loop"
      /\ item.r # "enter" /\ item.r # "leave"
  BY DEF IsRead, Controls
<1>2. ASSUME NEW c, NEW end, Fits(c, end, item)
      PROVE  /\ IsRead => item.r \in Primitives
             /\ IsRead /\ item.d = "function signature count" => c = 3
             /\ IsRead /\ item.d = "function body count" => c = 10
             /\ item.r = "call" /\ item.d = "OnFunction" => c = 3
             /\ item.r = "call" /\ item.d = "OnImportFunc" => c = 2
             /\ item.r = "call" /\ item.d = "OnFunctionBinaryRead" => c = 10
             /\ item.r = "loop" => c # 3
  <2>1. IsRead => item.r \in Primitives  BY <1>1, <1>2, FitsKinds
  <2>2. item.r = "call" => Calls(c, item.d)  BY <1>2, FitsKinds
  <2>3. Calls(c, "OnFunction") => c = 3
    BY DEF Calls, EntryCalls, Naming, Initializing, Importing
  <2>4. Calls(c, "OnImportFunc") => c = 2
    BY DEF Calls, EntryCalls, Naming, Initializing, Importing
  <2>5. Calls(c, "OnFunctionBinaryRead") => c = 10
    BY DEF Calls, EntryCalls, Naming, Initializing, Importing, Remembering
  <2>6. item.r = "loop" => Loops(c, item.d)  BY <1>2 DEF Fits, Primitives
  <2>7. ~Loops(3, item.d)  BY DEF Loops, Sub
  <2>8. item.r = "loop" => c # 3  BY <2>6, <2>7
  <2>9. /\ IsRead /\ item.d = "function signature count" => c = 3
        /\ IsRead /\ item.d = "function body count" => c = 10
    BY <1>2, <2>1, CountReads
  <2> QED BY <2>1, <2>2, <2>3, <2>4, <2>5, <2>8, <2>9
<1>3. CASE ItemOfEntries  BY <1>2, <1>3 DEF ItemOfEntries
<1>4. CASE ItemOfCustom
  <2>1. Fits(0, read_end, item)  BY <1>4 DEF ItemOfCustom
  <2>2. section = 0  BY <1>4 DEF ItemOfCustom, InCustom, Custom
  <2> QED BY <1>2, <2>1, <2>2
<1>5. CASE ItemInside
  <2>1. Fits(Sub, read_end, item) /\ Sub \notin {2, 3, 10}  BY <1>5 DEF ItemInside, Sub
  <2>2. section = 0  BY <1>5 DEF ItemInside, InSubsection, Custom
  <2>3. item.r = "loop" => section # 3  BY <2>2
  <2> QED BY <1>2, <2>1, <2>3
<1>6. CASE ItemOfName
  <2>1. item.r = "Str" /\ item.d = "section name"  BY <1>6 DEF ItemOfName, R
  <2> QED BY <2>1 DEF Primitives
<1>7. CASE ItemOfBegin \/ ItemOfEnd  BY <1>1, <1>7, ItemKinds
<1>8. CASE ItemOfEnter \/ ItemOfFailure \/ ItemOfLeave  BY <1>1, <1>8, ItemKinds
<1> QED BY <1>3, <1>4, <1>5, <1>6, <1>7, <1>8, ItemCases DEF ReaderInv

\* What a read counts.
LEMMA ReadCounts ==
    ASSUME ReaderInv, ReadItem
    PROVE  /\ num'.func = num.func
           /\ section # 3 => num'.sigs = num.sigs
           /\ section # 10 => num'.bodies = num.bodies
           /\ item.d = "function signature count" => num'.sigs = Got.v
           /\ item.d = "function body count" => num'.bodies = Got.v
           /\ item.d # "function signature count" => num'.sigs = num.sigs
           /\ item.d # "function body count" => num'.bodies = num.bodies
<1>1. todo # <<>> /\ IsRead /\ num' = Counts(item, Got.v)  BY DEF ReadItem, Active
<1>2. num \in Counters  BY DEF ReaderInv, ValuesOK
<1> DEFINE v == Got.v
<1>3. num' = CASE item.d = "function signature count" -> [num EXCEPT !.sigs = v]
               [] item.d = "function body count"      -> [num EXCEPT !.bodies = v]
               [] OTHER -> num
  BY <1>1 DEF Counts
<1> HIDE DEF v
<1>4. CASE item.d = "function signature count"
  <2>1. num' = [num EXCEPT !.sigs = v] /\ section = 3
    BY <1>1, <1>3, <1>4, PlaceOfItem
  <2> QED BY <1>2, <1>4, <2>1 DEF Counters, v
<1>5. CASE item.d = "function body count"
  <2>1. num' = [num EXCEPT !.bodies = v] /\ section = 10
    BY <1>1, <1>3, <1>5, PlaceOfItem
  <2> QED BY <1>2, <1>5, <2>1 DEF Counters, v
<1>6. CASE item.d # "function signature count" /\ item.d # "function body count"
  <2>1. num' = num  BY <1>3, <1>6
  <2> QED BY <1>6, <2>1
<1> QED BY <1>4, <1>5, <1>6

\* What a callback counts, and what it does with the functions.
LEMMA CallFuncs ==
    ASSUME ReaderInv, FuncsOK, CallItem
    PROVE  /\ FuncsOK' /\ num'.sigs = num.sigs /\ num'.bodies = num.bodies
           /\ item.d = "OnFunction" =>
                  section = 3 /\ Len(funcs') = Len(funcs) + 1 /\ num'.func = num.func
           /\ item.d = "OnImportFunc" =>
                  section = 2 /\ Len(funcs') = Len(funcs) + 1 /\ num'.func = num.func + 1
           /\ item.d \notin Appending => Len(funcs') = Len(funcs) /\ num'.func = num.func
           /\ item.d \notin Appending \cup {"OnFunctionBinaryRead"} => BinsKept
           /\ item.d = "OnFunctionBinaryRead" => section = 10
<1> DEFINE cb == Cb(item)
<1>1. todo # <<>> /\ item.r = "call" /\ Delegate(cb) /\ num' = Counted(item.d)
  BY DEF CallItem, Active
<1>2. cb.f = item.d  BY DEF Cb
<1> HIDE DEF cb
<1>3. num \in Counters  BY DEF ReaderInv, ValuesOK
<1>4. /\ num'.sigs = num.sigs /\ num'.bodies = num.bodies
      /\ num'.func = IF item.d = "OnImportFunc" THEN num.func + 1 ELSE num.func
  BY <1>1, <1>3 DEF Counted, Counters
<1>5. /\ FuncsOK'
      /\ item.d \in Appending => Len(funcs') = Len(funcs) + 1
      /\ item.d \notin Appending \cup {"OnFunctionBinaryRead"} => BinsKept
      /\ item.d = "OnFunctionBinaryRead" => Len(funcs') = Len(funcs)
  BY <1>1, <1>2, FuncsKept
<1>6. item.d \notin Appending => Len(funcs') = Len(funcs)  BY <1>5 DEF BinsKept
<1> QED BY <1>1, <1>4, <1>5, <1>6, PlaceOfItem DEF Appending

\* A list of items of which each is to make a function.
MakesOne(i) == i.d # "function signature count"
Few(s) == \E S : s \in Seq(S) /\ \A i \in S : MakesOne(i)
\* None of them.
LEMMA FewNone == Few(<<>>) /\ Len(<<>>) = 0
<1>1. PICK S : S = {}  OBVIOUS
<1>2. <<>> \in Seq(S) /\ Len(<<>>) = 0  BY EmptySeq
<1>3. \A i \in S : MakesOne(i)  BY <1>1
<1> QED BY <1>2, <1>3, Zenon DEF Few

\* The first of them, and the others.
LEMMA FewHeadTail ==
    ASSUME NEW s, Few(s), s # <<>>
    PROVE  /\ Len(s) \in Nat \ {0} /\ Few(Tail(s)) /\ Len(Tail(s)) = Len(s) - 1
           /\ MakesOne(Head(s)) /\ IsSeq(Tail(s))
<1>1. PICK S : s \in Seq(S) /\ \A i \in S : MakesOne(i)  BY DEF Few
<1>2. Len(s) \in Nat \ {0}  BY <1>1, EmptySeq, LenProperties
<1>3. Head(s) \in S /\ Tail(s) \in Seq(S) /\ Len(Tail(s)) = Len(s) - 1
  BY <1>1, HeadTailProperties
<1> QED BY <1>1, <1>2, <1>3 DEF Few, IsSeq

\* One more.
LEMMA FewCons ==
    ASSUME NEW s, Few(s), NEW e, MakesOne(e)
    PROVE  Few(<<e>> \o s) /\ Len(<<e>> \o s) = Len(s) + 1 /\ Len(s) \in Nat
<1>1. PICK S : s \in Seq(S) /\ \A i \in S : MakesOne(i)  BY DEF Few
<1> DEFINE T == S \cup {e}
           p == <<e>>
<1>2. s \in Seq(T) /\ p \in Seq(T) /\ Len(p) = 1 /\ Len(s) \in Nat
  <2>1. S \subseteq T /\ e \in T  OBVIOUS
  <2>2. s \in Seq(T)  BY <1>1, <2>1, SeqMonotonic
  <2>3. Len(s) \in Nat  BY <1>1, LenProperties
  <2> HIDE DEF T
  <2> QED BY <2>1, <2>2, <2>3
<1>3. \A i \in T : MakesOne(i)  BY <1>1
<1> HIDE DEF T, p
<1>4. p \o s \in Seq(T) /\ Len(p \o s) = Len(p) + Len(s)  BY <1>2, ConcatProperties
<1>5. Few(p \o s) /\ Len(p \o s) = Len(s) + 1  BY <1>2, <1>3, <1>4 DEF Few
<1> QED BY <1>2, <1>5 DEF p

\* One item, n times.
LEMMA TimesOne ==
    ASSUME NEW n \in Nat, NEW e
    PROVE  Times(n, <<e>>) \in Seq({e}) /\ Len(Times(n, <<e>>)) = n
<1> DEFINE s == <<e>>
<1>1. s \in Seq({e}) /\ Len(s) = 1 /\ s[1] = e  OBVIOUS
<1> HIDE DEF s
<1>2. \A k \in 1 .. n : s[1 + ((k - 1) % Len(s))] \in {e}
  <2> TAKE k \in 1 .. n
  <2>1. PICK m \in Nat : m = Len(s) /\ m = 1  BY <1>1
  <2>2. 1 + ((k - 1) % m) \in 1 .. m  BY <2>1
  <2>3. 1 + ((k - 1) % m) = 1  BY <2>1, <2>2
  <2> QED BY <1>1, <2>1, <2>3
<1>3. n * Len(s) = n
  <2>1. n * 1 = n  OBVIOUS
  <2> QED BY <1>1, <2>1, Zenon
<1>4. PICK T : T = {e}  OBVIOUS
<1>5. [k \in 1 .. n |-> s[1 + ((k - 1) % Len(s))]] \in Seq(T)  BY <1>2, <1>4, IsASeq
<1>6. PICK t : t = [k \in 1 .. n |-> s[1 + ((k - 1) % Len(s))]]  OBVIOUS
<1>7. Times(n, s) = t  BY <1>3, <1>6 DEF Times
<1>8. t \in Seq(T) /\ DOMAIN t = 1 .. n  BY <1>5, <1>6
<1>9. Len(t) = n
  <2>1. Len(t) \in Nat /\ DOMAIN t = 1 .. Len(t)  BY <1>8, LenProperties
  <2> QED BY <1>8, <2>1
<1> QED BY <1>4, <1>7, <1>8, <1>9 DEF s

\* As items, they are to make n functions.
LEMMA FewTimes ==
    ASSUME NEW n \in Nat, NEW e, MakesOne(e)
    PROVE  Few(Times(n, <<e>>)) /\ Len(Times(n, <<e>>)) = n
<1>1. PICK t : t = Times(n, <<e>>)  OBVIOUS
<1>2. t \in Seq({e}) /\ Len(t) = n  BY <1>1, TimesOne
<1>3. \A i \in {e} : MakesOne(i)  OBVIOUS
<1>4. Few(t)  BY <1>2, <1>3 DEF Few
<1> QED BY <1>1, <1>2, <1>4

\* There are no more functions than were imported and declared: until the function section
\* is open none is declared, and there each item left is to make one.
InSignatures ==
    section = 3 => \/ todo = <<FirstRead(3)>> /\ Len(funcs) <= num.func
                   \/ Few(todo) /\ Len(funcs) + Len(todo) <= num.func + num.sigs
FuncsCounted == /\ FuncsOK /\ Len(funcs) <= num.func + num.sigs
                /\ 3 \notin seen => Len(funcs) <= num.func
                /\ section = 3 => 3 \in seen
                /\ InSignatures

\* The first read of the function section is the number of signatures.
LEMMA SigCountIsFirst ==
    /\ FirstRead(3).r = "Count" /\ FirstRead(3).d = "function signature count"
    /\ ~MakesOne(FirstRead(3))
<1>1. 3 # 1 /\ 3 # 2 /\ 3 # 4 /\ 3 # 5 /\ 3 # 6 /\ 3 # 7 /\ 3 # 8 /\ 3 # 9 /\ 3 # 10
      /\ 3 # 0 /\ 3 # 11 /\ 3 # 12 /\ 3 # 13
  OBVIOUS
<1>2. FirstRead(3) = R("Count", "function signature count", 0)  BY <1>1, Zenon DEF FirstRead
<1>3. /\ R("Count", "function signature count", 0).r = "Count"
      /\ R("Count", "function signature count", 0).d = "function signature count"
  BY DEF R
<1> QED BY <1>2, <1>3, Zenon DEF MakesOne

\* What follows from a read in the function section.
LEMMA ThenFunctions ==
    ASSUME section = 3, NEW i, i.r \in Primitives, Fits(3, read_end, i), NEW v, NEW at
    PROVE  /\ i.d = "function signature count" =>
                  Then(i, v, at) = Times(v, <<R("Index", "signature index", 0)>>)
           /\ i.d # "function signature count" =>
                  Then(i, v, at) = <<>> \/ Then(i, v, at) = <<Call("OnFunction", v)>>
<1>1. /\ section = 3 /\ section # 1 /\ section # 2 /\ section # 10 /\ section # 4
      /\ section # 5 /\ section # 6 /\ section # 7 /\ section # 8 /\ section # 9
      /\ section # 0 /\ section # 11 /\ section # 12 /\ section # 13
  OBVIOUS
<1>2. CASE i.d = "any"  BY <1>2 DEF Then
<1>3. CASE i.d # "any"
  <2>1. Then(i, v, at) = ReadFunctionSection(i, v)  BY <1>1, <1>3, Zenon DEF Then
  <2>2. Reads(3, i.r, i.d)  BY <1>3, ReadFits
  <2>3. FunctionReads(i.r, i.d)  BY <2>2 DEF Reads, Inner, Sub
  <2>4. i.d \in {"function signature count", "signature index"}  BY <2>3 DEF FunctionReads
  <2>5. CASE i.d = "function signature count"
    BY <2>1, <2>5, Zenon DEF ReadFunctionSection
  <2>6. CASE i.d = "signature index"
    <3>1. i.d # "function signature count"  BY <2>6
    <3> QED BY <2>1, <2>6, <3>1, Zenon DEF ReadFunctionSection
  <2> QED BY <2>4, <2>5, <2>6
<1> QED BY <1>2, <1>3

\* A read in the function section.
LEMMA CountedRead == ASSUME ReaderInv, FuncsCounted, ReadItem PROVE FuncsCounted'
<1>0. /\ todo # <<>> /\ IsRead /\ Got.n > 0 /\ funcs' = funcs
      /\ todo' = Then(item, Got.v, offset + Got.n) \o Tail(todo)
      /\ UNCHANGED <<section, seen>>
  BY DEF ReadItem, Active, irVars
<1> DEFINE v  == Got.v
           at == offset + Got.n
           l  == Len(funcs)
<1>1. /\ num.func \in Nat /\ num.sigs \in Nat /\ l \in Nat
  BY SeqDomain DEF ReaderInv, ValuesOK, Counters, FuncsCounted, FuncsOK
<1>2. FuncsOK' /\ Len(funcs') = l  BY <1>0 DEF FuncsCounted, FuncsOK
<1>3. num'.func = num.func  BY ReadCounts
<1>4. CASE section # 3
  <2>1. num'.sigs = num.sigs  BY <1>4, ReadCounts
  <2> QED BY <1>0, <1>2, <1>3, <1>4, <2>1 DEF FuncsCounted, InSignatures
<1>5. CASE section = 3
  <2>1. InEntries  BY <1>5 DEF ReaderInv, Place, Between, AtName, InCustom, InSubsection, NONE, Custom
  <2>2. Fits(3, read_end, item)  BY <1>0, <1>5, <2>1, EntriesItem
  <2>3. item.r \in Primitives  BY <1>0, PlaceOfItem
  <2>4. Yields(item, v)  BY <1>0, <2>3, GotFacts DEF ReaderInv
  <2>5. todo' = Then(item, v, at) \o Tail(todo)  BY <1>0
  <2> HIDE DEF v, at, l
  <2>6. CASE todo = <<FirstRead(3)>> /\ l <= num.func
    <3>1. item = FirstRead(3) /\ Tail(todo) = <<>>  BY <2>6 DEF item
    <3>2. item.d = "function signature count" /\ item.r = "Count"  BY <3>1, SigCountIsFirst
    <3>3. v \in Nat  BY <2>4, <3>2 DEF Yields, NatPrimitives
    <3> DEFINE e == R("Index", "signature index", 0)
               t == Times(v, <<e>>)
    <3>4. Then(item, v, at) = t  BY <1>5, <2>2, <2>3, <3>2, ThenFunctions
    <3>5. MakesOne(e)  BY DEF MakesOne, R
    <3> HIDE DEF e
    <3>6. Few(t) /\ Len(t) = v  BY <3>3, <3>5, FewTimes
    <3> HIDE DEF t
    <3>7. IsSeq(t)  BY <3>6 DEF Few, IsSeq
    <3>8. todo' = t  BY <2>5, <3>1, <3>4, <3>7, ConcatEmptySeq DEF IsSeq
    <3>9. num'.sigs = v  BY <3>2, ReadCounts DEF v
    <3>10. Few(todo') /\ Len(todo') = v  BY <3>6, <3>8
    <3>11. num'.func + num'.sigs = num.func + v  BY <1>3, <3>9
    <3>12. Len(funcs') <= num'.func + num'.sigs /\ Len(funcs') + Len(todo') <= num'.func + num'.sigs
      BY <1>1, <1>2, <2>6, <3>3, <3>10, <3>11
    <3>13. 3 \in seen'  BY <1>0, <1>5 DEF FuncsCounted
    <3> QED BY <1>2, <3>10, <3>12, <3>13, Zenon DEF FuncsCounted, InSignatures
  <2>7. CASE Few(todo) /\ l + Len(todo) <= num.func + num.sigs
    <3>1. /\ Len(todo) \in Nat \ {0} /\ Few(Tail(todo)) /\ Len(Tail(todo)) = Len(todo) - 1
          /\ MakesOne(item) /\ IsSeq(Tail(todo))
      BY <1>0, <2>7, FewHeadTail DEF item
    <3>2. item.d # "function signature count"  BY <3>1 DEF MakesOne
    <3>3. num'.sigs = num.sigs  BY <3>2, ReadCounts
    <3>4. Few(todo') /\ Len(todo') <= Len(todo) /\ Len(todo') \in Nat
      <4> DEFINE t == Tail(todo)
                 c == Call("OnFunction", v)
      <4>1. Then(item, v, at) = <<>> \/ Then(item, v, at) = <<c>>
        BY <1>5, <2>2, <2>3, <3>2, ThenFunctions
      <4>2. MakesOne(c)  BY DEF MakesOne, Call, R
      <4>3. Few(t) /\ Len(t) = Len(todo) - 1 /\ IsSeq(t)  BY <3>1
      <4>4. todo' = Then(item, v, at) \o t  BY <2>5
      <4> HIDE DEF t, c
      <4>5. CASE Then(item, v, at) = <<>>
        <5>1. todo' = t  BY <4>3, <4>4, <4>5, ConcatEmptySeq DEF IsSeq
        <5> QED BY <3>1, <4>3, <5>1
      <4>6. CASE Then(item, v, at) = <<c>>
        <5>1. Few(<<c>> \o t) /\ Len(<<c>> \o t) = Len(t) + 1  BY <4>2, <4>3, FewCons
        <5>2. todo' = <<c>> \o t  BY <4>4, <4>6
        <5>3. Few(todo') /\ Len(todo') = Len(t) + 1  BY <5>1, <5>2
        <5> QED BY <3>1, <4>3, <5>3
      <4> QED BY <4>1, <4>5, <4>6
    <3> QED BY <1>0, <1>1, <1>2, <1>3, <1>5, <2>7, <3>1, <3>3, <3>4
            DEF FuncsCounted, InSignatures, l
  <2> QED BY <1>5, <2>6, <2>7 DEF FuncsCounted, InSignatures, l
<1> QED BY <1>4, <1>5

\* A callback: a function declared takes an item away, one imported is counted.
LEMMA CountedCall == ASSUME ReaderInv, FuncsCounted, CallItem PROVE FuncsCounted'
<1>1. /\ todo # <<>> /\ item.r = "call" /\ todo' = Tail(todo) /\ UNCHANGED <<section, seen>>
  BY DEF CallItem, Active
<1>2. FuncsOK  BY DEF FuncsCounted
<1>3. /\ FuncsOK' /\ num'.sigs = num.sigs
      /\ item.d = "OnFunction" =>
             section = 3 /\ Len(funcs') = Len(funcs) + 1 /\ num'.func = num.func
      /\ item.d = "OnImportFunc" =>
             section = 2 /\ Len(funcs') = Len(funcs) + 1 /\ num'.func = num.func + 1
      /\ item.d \notin Appending => Len(funcs') = Len(funcs) /\ num'.func = num.func
  BY <1>2, CallFuncs
<1>4. num.func \in Nat /\ num.sigs \in Nat /\ Len(funcs) \in Nat
  BY SeqDomain DEF ReaderInv, ValuesOK, Counters, FuncsCounted, FuncsOK
<1>5. CASE section # 3
  <2>1. item.d # "OnFunction"  BY <1>3, <1>5
  <2>2. \/ Len(funcs') = Len(funcs) + 1 /\ num'.func = num.func + 1
        \/ Len(funcs') = Len(funcs) /\ num'.func = num.func
    BY <1>3, <2>1 DEF Appending
  <2> QED BY <1>1, <1>3, <1>4, <1>5, <2>2 DEF FuncsCounted, InSignatures
<1>6. CASE section = 3
  <2>1. todo # <<FirstRead(3)>>
    <3>1. todo = <<FirstRead(3)>> => item = FirstRead(3)  BY DEF item
    <3> QED BY <1>1, <3>1, SigCountIsFirst
  <2>2. Few(todo) /\ Len(funcs) + Len(todo) <= num.func + num.sigs
    BY <1>6, <2>1 DEF FuncsCounted, InSignatures
  <2>3. Len(todo) \in Nat \ {0} /\ Few(todo') /\ Len(todo') = Len(todo) - 1
    BY <1>1, <2>2, FewHeadTail
  <2>4. /\ Len(funcs') = Len(funcs) + 1 \/ Len(funcs') = Len(funcs)
        /\ num'.func = num.func
    BY <1>3, <1>6 DEF Appending
  <2> QED BY <1>1, <1>3, <1>4, <1>6, <2>2, <2>3, <2>4 DEF FuncsCounted, InSignatures
<1> QED BY <1>5, <1>6

\* Every step keeps the number of functions within what was counted.
LEMMA FuncsCountedNext == ReaderInv /\ FuncsCounted /\ [Next]_modVars => FuncsCounted'
<1> SUFFICES ASSUME ReaderInv, FuncsCounted, [Next]_modVars PROVE FuncsCounted'
  OBVIOUS
<1>0. num.func \in Nat /\ num.sigs \in Nat /\ Len(funcs) \in Nat
  BY SeqDomain DEF ReaderInv, ValuesOK, Counters, FuncsCounted, FuncsOK
<1>1. CASE NextSection
  <2>1. PICK h \in {Header} : /\ HeaderAccepted(h) /\ section' = h.code
                              /\ seen' = IF h.code = Custom THEN seen ELSE seen \cup {h.code}
                              /\ todo' = <<FirstRead(h.code)>>
    BY <1>1 DEF NextSection
  <2>2. funcs' = funcs /\ num' = num  BY <1>1 DEF NextSection, irVars
  <2>3. h.code = 3 => 3 \notin seen /\ 3 \in seen'  BY <2>1 DEF HeaderAccepted, Custom
  <2>4. seen \subseteq seen'  BY <2>1
  <2> QED BY <2>1, <2>2, <2>3, <2>4 DEF FuncsCounted, FuncsOK, InSignatures
<1>2. CASE RejectSection \/ ReadModuleEnds \/ CallUndefined \/ UNCHANGED modVars
  <2>1. UNCHANGED <<section, seen, todo, funcs, num>>
    BY <1>2 DEF RejectSection, ReadModuleEnds, CallUndefined, modVars, readerVars, irVars
  <2> QED BY <2>1 DEF FuncsCounted, FuncsOK, InSignatures
<1>3. CASE EnterSubsection \/ LeaveSubsection \/ SkipRest \/ LoopItem
  <2>1. section # 3
    <3>1. todo # <<>> /\ item.r \in {"enter", "leave", "skip", "loop"}
      BY <1>3 DEF EnterSubsection, LeaveSubsection, SkipRest, LoopItem, Active
    <3>2. section = 3 => InEntries
      BY DEF ReaderInv, Place, Between, AtName, InCustom, InSubsection, NONE, Custom
    <3>3. InEntries => ItemOfEntries  BY <3>1, EntriesItem DEF ItemOfEntries
    <3> QED BY <3>1, <3>2, <3>3, ItemKinds, PlaceOfItem
  <2>2. UNCHANGED <<section, seen, funcs, num>>
    BY <1>3 DEF EnterSubsection, LeaveSubsection, SkipRest, LoopItem, irVars
  <2> QED BY <2>1, <2>2 DEF FuncsCounted, FuncsOK, InSignatures
<1>4. CASE HandlerFails
  <2>1. todo' = <<>> /\ UNCHANGED <<section, seen, funcs, num>>
    BY <1>4 DEF HandlerFails, LeftAfterFailure, irVars
  <2>2. Few(todo') /\ Len(todo') = 0  BY <2>1, FewNone
  <2> QED BY <1>0, <2>1, <2>2 DEF FuncsCounted, FuncsOK, InSignatures
<1>5. CASE EndSection
  <2>1. section' = NONE /\ UNCHANGED <<seen, funcs, num>>
    BY <1>5 DEF EndSection, irVars
  <2> QED BY <2>1 DEF FuncsCounted, FuncsOK, InSignatures, NONE
<1>6. CASE Report
  <2>1. /\ todo # <<>> /\ item.r = "report" /\ todo' = Tail(todo)
        /\ UNCHANGED <<section, seen, funcs, num>>
    BY <1>6 DEF Report, Active, irVars
  <2>2. CASE section # 3  BY <2>1, <2>2 DEF FuncsCounted, FuncsOK, InSignatures
  <2>3. CASE section = 3
    <3>1. todo # <<FirstRead(3)>>
      <4>1. todo = <<FirstRead(3)>> => item = FirstRead(3)  BY DEF item
      <4> QED BY <2>1, <4>1, SigCountIsFirst
    <3>2. Few(todo) /\ Len(funcs) + Len(todo) <= num.func + num.sigs
      BY <2>3, <3>1 DEF FuncsCounted, InSignatures
    <3>3. Len(todo) \in Nat \ {0} /\ Few(todo') /\ Len(todo') = Len(todo) - 1
      BY <2>1, <3>2, FewHeadTail
    <3> QED BY <1>0, <2>1, <2>3, <3>2, <3>3 DEF FuncsCounted, FuncsOK, InSignatures
  <2> QED BY <2>2, <2>3
<1> QED BY <1>1, <1>2, <1>3, <1>4, <1>5, <1>6, CountedRead, CountedCall DEF Next

\* In the beginning there are none.
LEMMA FuncsCountedInit == Init => FuncsCounted
<1> SUFFICES ASSUME Init PROVE FuncsCounted
  OBVIOUS
<1>1. funcs = <<>> /\ section = NONE /\ num.func = 0 /\ num.sigs = 0
  BY DEF Init, IrInit, ReaderInit
<1>2. IsSeq(funcs) /\ DOMAIN funcs = {} /\ Len(funcs) = 0  BY <1>1, EmptySeq DEF IsSeq
<1> QED BY <1>1, <1>2 DEF FuncsCounted, FuncsOK, InSignatures, NONE

-----------------------------------------------------------------------------
(* The bytes of the functions, through the code section.                    *)

\* Stage g of body k, with what is in place there.
InBody(g, n, k, e, b) ==
    /\ k \in Nat /\ e \in Nat /\ n = num.func + num.bodies
    /\ CodeAt(g, n, k, e, b, todo) /\ Placed(g, num.func, k, e, b, offset, Bins, data)
InBodies ==
    section = 10 => \/ todo = <<FirstRead(10)>>
                    \/ section_result = "Error" /\ todo = <<>>
                    \/ todo # <<>> /\ item = Fail
                    \/ \E g, n, k, e, b : InBody(g, n, k, e, b)
Rejected == state = "returned" /\ result = "Error"
BodiesInv ==
    /\ 10 \notin seen => num.bodies = 0
    /\ section = 10 => 10 \in seen
    /\ 10 \in seen /\ section # 10 /\ ~Rejected =>
           InOrder(Bins, data, num.func, num.func + num.bodies)
    /\ state = "returned" /\ result = "Ok" => num.sigs = num.bodies /\ section = NONE
    /\ InBodies

\* The functions are numbered from 1, and so are their bytes.
LEMMA BinsDomain ==
    ASSUME ReaderInv, FuncsOK
    PROVE  /\ Len(funcs) \in Nat /\ DOMAIN Bins = 1 .. Len(funcs) /\ DOMAIN Bins = DOMAIN funcs
           /\ DOMAIN Bins \subseteq Nat \ {0}
           /\ num.func \in Nat /\ num.bodies \in Nat /\ num.sigs \in Nat /\ offset \in Nat
<1>1. Len(funcs) \in Nat /\ DOMAIN funcs = 1 .. Len(funcs)  BY SeqDomain DEF FuncsOK
<1>2. DOMAIN Bins = DOMAIN funcs  BY DEF Bins
<1> QED BY <1>1, <1>2 DEF ReaderInv, ValuesOK, Counters

\* Callbacks that keep the bytes keep them all.
LEMMA BinsSame ==
    ASSUME FuncsOK, FuncsOK', BinsKept
    PROVE  Bins' = Bins
<1>1. DOMAIN funcs' = DOMAIN funcs  BY SeqDomain DEF FuncsOK, BinsKept
<1> QED BY <1>1 DEF Bins, BinsKept

\* No function is imported or declared once the code section is open.
LEMMA CodeIsLate ==
    ASSUME ReaderInv, OrderInv, state = "reading", 10 \in seen
    PROVE  section # 2 /\ section # 3
<1>1. SUFFICES ASSUME section \in {2, 3} PROVE FALSE
  OBVIOUS
<1>2. Latest = section  BY <1>1 DEF Latest, NONE, Custom
<1>3. GetSectionOrder(10) <= GetSectionOrder(section)  BY <1>2 DEF OrderInv
<1>4. /\ GetSectionOrder(10) \in 1 .. 14 /\ SectionCodes[GetSectionOrder(10)] = 10
      /\ GetSectionOrder(section) \in 1 .. 14 /\ SectionCodes[GetSectionOrder(section)] = section
  BY <1>1, OrderFacts
<1>5. \A j \in 1 .. 14 : /\ SectionCodes[j] = 10 => j = 13
                         /\ SectionCodes[j] \in {2, 3} => j < 13
  BY DEF SectionCodes
<1>6. GetSectionOrder(10) = 13 /\ GetSectionOrder(section) < 13  BY <1>1, <1>4, <1>5
<1> QED BY <1>3, <1>4, <1>6

\* Outside the code section nothing changes that is in place.
LEMMA BodiesOutside ==
    ASSUME BodiesInv, section # 10, state = "reading",
           UNCHANGED <<section, seen, state, result, data>>, num'.bodies = num.bodies,
           10 \in seen => Bins' = Bins /\ num'.func = num.func
    PROVE  BodiesInv'
<1>1. ~Rejected /\ ~(Rejected)'  BY DEF Rejected
<1>2. 10 \in seen => InOrder(Bins, data, num.func, num.func + num.bodies)'
  BY <1>1 DEF BodiesInv
<1> QED BY <1>1, <1>2 DEF BodiesInv, InBodies

\* In the code section it is enough to say where in the bodies the reader is.
LEMMA BodiesInside ==
    ASSUME BodiesInv, section = 10, state = "reading",
           UNCHANGED <<section, seen, state>>, InBodies'
    PROVE  BodiesInv'
  BY DEF BodiesInv

\* A read in the code section.
LEMMA BodiesRead ==
    ASSUME ReaderInv, FuncsOK, BodiesInv, ReadItem, section = 10
    PROVE  InBodies'
<1> DEFINE v  == Got.v
           at == offset + Got.n
<1>1. /\ todo # <<>> /\ IsRead /\ Got.n > 0 /\ funcs' = funcs /\ data' = data
      /\ todo' = Then(item, v, at) \o Tail(todo) /\ offset' = at
  BY DEF ReadItem, Active, irVars
<1>2. Bins' = Bins  BY <1>1 DEF Bins
<1>3. /\ DOMAIN Bins \subseteq Nat \ {0} /\ num.func \in Nat /\ num.bodies \in Nat
      /\ offset \in Nat
  BY BinsDomain
<1>4. item.r \in Primitives  BY <1>1, PlaceOfItem
<1>5. at \in Nat /\ offset < at /\ at <= Len(data) /\ Yields(item, v)
  <2>1. Got.n \in Nat
    <3>1. Got = ReadAs(item.r, data, offset, read_end)  BY DEF Got
    <3>2. /\ data \in Bytes /\ offset \in Nat /\ read_end \in Nat /\ read_end <= Len(data)
      BY LimitInFile DEF ReaderInv, ValuesOK
    <3> QED BY <1>1, <1>4, <3>1, <3>2, ReadAsFacts
  <2>2. /\ at \in Nat /\ at <= read_end /\ read_end <= Len(data) /\ Len(data) \in Nat
        /\ Yields(item, v) /\ read_end \in Nat
    BY <1>1, <1>4, GotFacts, LimitInFile DEF ReaderInv, ValuesOK
  <2> QED BY <1>1, <1>3, <2>1, <2>2
<1>6. v = OpcodeEnd /\ item.r = "Opcode" => data[at] = OpcodeEnd[2]
  <2>1. item.r = "Opcode" => Got = ReadOpcode(data, offset, read_end)
    BY DEF Got, ReadAs
  <2>2. PICK x : x = Got  OBVIOUS
  <2> QED BY <1>1, <1>3, <2>1, <2>2, EndOpcode
<1> HIDE DEF v, at
<1>7. CASE todo = <<FirstRead(10)>>
  <2>1. item = FirstRead(10) /\ Tail(todo) = <<>>  BY <1>7 DEF item
  <2>2. v \in Nat  BY <1>5, <2>1, CountIsFirst DEF Yields, NatPrimitives
  <2>3. num'.bodies = v /\ num'.func = num.func
    BY <1>1, <2>1, CountIsFirst, ReadCounts DEF v
  <2>4. PICK m \in Nat : m = num.func  BY <1>3
  <2>5. PICK t : t = Then(item, v, at)  OBVIOUS
  <2>6. CodeAt("next", m + v, m, 0, FALSE, t)  BY <1>3, <2>1, <2>2, <2>4, <2>5, CountRead
  <2>7. todo' = t
    <3>1. IsSeq(t)  BY <2>6, CodeHead
    <3> QED BY <1>1, <2>1, <2>5, <3>1, ConcatEmptySeq DEF IsSeq, v, at
  <2>8. Placed("next", m, m, 0, FALSE, at, Bins, data)  BY <1>3, PlacedFirst
  <2>9. PICK n : n = m + v  OBVIOUS
  <2>10. n = num'.func + num'.bodies  BY <2>3, <2>4, <2>9
  <2>11. Placed("next", num'.func, m, 0, FALSE, offset', Bins', data')
    BY <1>1, <1>2, <2>3, <2>4, <2>8 DEF at
  <2>12. InBody("next", n, m, 0, FALSE)'
    BY <2>6, <2>7, <2>9, <2>10, <2>11 DEF InBody
  <2> QED BY <2>12, Zenon DEF InBodies
<1>8. CASE \E g, n, k, e, b : InBody(g, n, k, e, b)
  <2>1. PICK g, n, k, e, b : InBody(g, n, k, e, b)  BY <1>8
  <2>2. PICK s : s = todo'  OBVIOUS
  <2>3. PICK m, B, d, p : /\ m = num.func /\ B = Bins /\ d = data /\ p = offset
                          /\ m \in Nat /\ p \in Nat
    BY <1>3
  <2>4. PICK i : i = item  OBVIOUS
  <2>5. StageRead(g, n, k, e, b, i, v, at, s)
    <3>1. CodeAt(g, n, k, e, b, todo)  BY <2>1, Zenon DEF InBody
    <3>2. StageRead(g, n, k, e, b, item, v, at, Then(item, v, at) \o Tail(todo))
      BY <1>1, <1>4, <1>5, <3>1, ReadStage
    <3> QED BY <1>1, <2>2, <2>4, <3>2 DEF v, at
  <2>6. /\ k \in Nat /\ e \in Nat /\ n = num.func + num.bodies
        /\ Placed(g, m, k, e, b, p, B, d)
    BY <2>1, <2>3 DEF InBody
  <2>7. i.d # "function body count"
    <3>1. Fits(Inner, 0, i) => i.d # "function body count"
      <4>1. Inner # 10  BY DEF Inner
      <4>2. i.r \in Primitives  BY <1>4, <2>4
      <4> QED BY <4>1, <4>2, CountReads
    <3>2. /\ Body(k).d # "function body count" /\ Decls(k, e).d # "function body count"
          /\ R("Opcode", "opcode", e).d # "function body count"
      BY DEF Body, Decls, R
    <3> QED BY <2>5, <3>1, <3>2, Zenon DEF StageRead
  <2>8. n = num'.func + num'.bodies /\ num'.func = m
    BY <2>3, <2>4, <2>6, <2>7, ReadCounts
  <2>9. /\ DOMAIN B \subseteq Nat \ {0} /\ p < at /\ at \in Nat /\ at <= Len(d)
        /\ InOrder(B, d, m, k) /\ Bins' = B /\ data' = d /\ offset' = at
    <3>1. InOrder(B, d, m, k)  BY <2>6, Zenon DEF Placed
    <3> QED BY <1>1, <1>2, <1>3, <1>5, <2>3, <3>1 DEF at
  <2>10. ASSUME NEW g2, NEW e2 \in Nat, NEW b2, CodeAt(g2, n, k, e2, b2, s),
                Placed(g2, m, k, e2, b2, at, B, d)
         PROVE  InBodies'
    <3>1. CodeAt(g2, n, k, e2, b2, todo')  BY <2>2, <2>10, Zenon
    <3>2. Placed(g2, num'.func, k, e2, b2, offset', Bins', data')  BY <2>8, <2>9, <2>10, Zenon
    <3>3. InBody(g2, n, k, e2, b2)'  BY <2>6, <2>8, <2>10, <3>1, <3>2, Zenon DEF InBody
    <3> QED BY <3>3, Zenon DEF InBodies
  <2>11. CASE Fits(Inner, 0, i) /\ CodeAt(g, n, k, e, b, s)
    <3>1. Placed(g, m, k, e, b, at, B, d)
      BY <2>3, <2>6, <2>9, PlacedOn
    <3> QED BY <2>6, <2>10, <2>11, <3>1
  <2>12. CASE g = "next" /\ v \in Nat /\ CodeAt("begin", n, k, at + v, b, s)
    <3>1. Placed("next", m, k, e, b, p, B, d)  BY <2>6, <2>12
    <3>2. PICK e2 : e2 = at + v  OBVIOUS
    <3>3. Placed("begin", m, k, e2, b, at, B, d)
      BY <2>3, <2>6, <2>9, <3>1, PlacedSize
    <3>4. e2 \in Nat  BY <2>9, <2>12, <3>2
    <3>5. CodeAt("begin", n, k, e2, b, s)  BY <2>12, <3>2
    <3> QED BY <2>10, <3>3, <3>4, <3>5
  <2>13. CASE g = "decl" /\ CodeAt("binary", n, k, e, b, s)
    <3>1. Placed("decl", m, k, e, b, p, B, d)  BY <2>6, <2>13
    <3>2. Placed("decl", m, k, e, b, at, B, d)
      BY <2>3, <2>6, <2>9, <3>1, PlacedOn
    <3>3. Placed("binary", m, k, e, b, at, B, d)  BY <3>2, PlacedBegin
    <3> QED BY <2>6, <2>10, <2>13, <3>3
  <2>14. CASE /\ g = "opcode" /\ i = R("Opcode", "opcode", e)
              /\ CodeAt("loop", n, k, e, v = OpcodeEnd /\ at = e, s)
    <3>1. Placed("opcode", m, k, e, b, p, B, d)  BY <2>6, <2>14
    <3>2. i.r = "Opcode"  BY <2>14 DEF R
    <3>3. v = OpcodeEnd /\ at = e => at = e /\ d[e] = OpcodeEnd[2]
      BY <1>6, <2>3, <2>4, <3>2
    <3> DEFINE c == v = OpcodeEnd /\ at = e
    <3>4. CodeAt("loop", n, k, e, c, s)  BY <2>14
    <3>5. c => at = e /\ d[e] = OpcodeEnd[2]  BY <3>3
    <3> HIDE DEF c
    <3>6. Placed("loop", m, k, e, c, at, B, d)
      BY <2>3, <2>6, <2>9, <3>1, <3>5, PlacedOpcode
    <3> QED BY <2>6, <2>10, <3>4, <3>6
  <2> QED BY <2>5, <2>11, <2>12, <2>13, <2>14, Zenon DEF StageRead
<1>9. ~(todo # <<>> /\ item = Fail)
  <2>1. Fail.r = "error"  BY DEF Fail, R
  <2> QED BY <1>1, <2>1 DEF IsRead
<1> QED BY <1>1, <1>7, <1>8, <1>9 DEF BodiesInv, InBodies

\* Where the reader is, once what follows of the bodies and what is in place are known.
LEMMA InBodyNext ==
    ASSUME NEW g, NEW n, NEW k \in Nat, NEW e \in Nat, NEW b, NEW m, NEW p, NEW B, NEW d, NEW s,
           CodeAt(g, n, k, e, b, s), Placed(g, m, k, e, b, p, B, d),
           n = num'.func + num'.bodies, m = num'.func, p = offset', B = Bins', d = data',
           s = todo'
    PROVE  InBodies'
<1>1. CodeAt(g, n, k, e, b, todo')  BY Zenon
<1>2. Placed(g, num'.func, k, e, b, offset', Bins', data')  BY Zenon
<1>3. InBody(g, n, k, e, b)'  BY <1>1, <1>2, Zenon DEF InBody
<1> QED BY <1>3, Zenon DEF InBodies

\* The loop of a body.
LEMMA BodiesLoop ==
    ASSUME ReaderInv, FuncsOK, BodiesInv, LoopItem, section = 10
    PROVE  InBodies'
<1>1. /\ todo # <<>> /\ item.r = "loop" /\ todo' = Unfold(item) \o Tail(todo)
      /\ funcs' = funcs /\ num' = num /\ data' = data /\ offset' = offset
  BY DEF LoopItem, Active, irVars
<1>2. Bins' = Bins  BY <1>1 DEF Bins
<1>3. offset \in Nat  BY BinsDomain
<1>4. todo # <<FirstRead(10)>> /\ item # Fail
  <2>1. todo = <<FirstRead(10)>> => item = FirstRead(10)  BY DEF item
  <2>2. Fail.r = "error"  BY DEF Fail, R
  <2> QED BY <1>1, <2>1, <2>2, CountIsFirst
<1>5. PICK g, n, k, e, b : InBody(g, n, k, e, b)
  BY <1>1, <1>4, Zenon DEF BodiesInv, InBodies
<1>6. PICK m, B, d, p, s : /\ m = num.func /\ B = Bins /\ d = data /\ p = offset /\ s = todo'
                           /\ p \in Nat
  BY <1>3
<1>7. /\ k \in Nat /\ e \in Nat /\ n = num.func + num.bodies /\ CodeAt(g, n, k, e, b, todo)
      /\ Placed(g, m, k, e, b, p, B, d)
  BY <1>5, <1>6, Zenon DEF InBody
<1>8. /\ g = "loop"
      /\ p < e => CodeAt("opcode", n, k, e, b, s)
      /\ ~(p < e) => CodeAt("end", n, k, e, b, s) /\ ((p = e /\ b) \/ Head(s) = Fail)
  <2>1. /\ g = "loop"
        /\ offset < e => CodeAt("opcode", n, k, e, b, Unfold(item) \o Tail(todo))
        /\ ~(offset < e) =>
             /\ CodeAt("end", n, k, e, b, Unfold(item) \o Tail(todo))
             /\ (offset = e /\ b) \/ Head(Unfold(item) \o Tail(todo)) = Fail
    BY <1>1, <1>3, <1>7, LoopStage, Zenon
  <2>2. s = Unfold(item) \o Tail(todo) /\ p = offset  BY <1>1, <1>6
  <2> QED BY <2>1, <2>2, Zenon
<1>9. /\ n = num'.func + num'.bodies /\ m = num'.func /\ p = offset' /\ B = Bins' /\ d = data'
      /\ s = todo'
  BY <1>1, <1>2, <1>6, <1>7
<1>10. Placed("loop", m, k, e, b, p, B, d)  BY <1>7, <1>8, Zenon
<1>11. CASE p < e
  <2>1. Placed("opcode", m, k, e, b, p, B, d)  BY <1>10, PlacedLoop
  <2> QED BY <1>7, <1>8, <1>9, <1>11, <2>1, InBodyNext
<1>12. CASE ~(p < e) /\ Head(s) = Fail
  <2>1. s # <<>>
    <3>1. CodeAt("end", n, k, e, b, s) /\ "end" # "next"  BY <1>8, <1>12
    <3> QED BY <3>1, CodeHead, Zenon
  <2>2. todo' # <<>> /\ item' = Fail
    <3>1. item' = Head(todo')  BY DEF item
    <3> QED BY <1>9, <1>12, <2>1, <3>1
  <2> QED BY <2>2, Zenon DEF InBodies
<1>13. CASE ~(p < e) /\ p = e /\ b
  <2>1. Placed("end", m, k, e, b, p, B, d)  BY <1>6, <1>7, <1>10, <1>13, PlacedEnd
  <2> QED BY <1>7, <1>8, <1>9, <1>13, <2>1, InBodyNext
<1> QED BY <1>8, <1>11, <1>12, <1>13

\* A callback in the code section.
LEMMA BodiesCall ==
    ASSUME ReaderInv, FuncsOK, BodiesInv, CallItem, section = 10
    PROVE  InBodies'
<1> DEFINE cb == Cb(item)
<1>1. /\ todo # <<>> /\ item.r = "call" /\ todo' = Tail(todo) /\ Delegate(cb)
      /\ data' = data /\ offset' = offset
  BY DEF CallItem, Active
<1>2. cb.f = item.d  BY DEF Cb
<1>3. /\ Len(funcs) \in Nat /\ DOMAIN Bins = 1 .. Len(funcs) /\ DOMAIN Bins = DOMAIN funcs
      /\ DOMAIN Bins \subseteq Nat \ {0} /\ num.func \in Nat /\ num.bodies \in Nat
      /\ offset \in Nat
  BY BinsDomain
<1>4. todo # <<FirstRead(10)>> /\ item # Fail
  <2>1. todo = <<FirstRead(10)>> => item = FirstRead(10)  BY DEF item
  <2>2. Fail.r = "error"  BY DEF Fail, R
  <2> QED BY <1>1, <2>1, <2>2, CountIsFirst
<1>5. PICK g, n, k, e, b : InBody(g, n, k, e, b)
  BY <1>1, <1>4, Zenon DEF BodiesInv, InBodies
<1>6. PICK m, B, d, p, s, i, l :
          /\ m = num.func /\ B = Bins /\ d = data /\ p = offset /\ s = todo' /\ i = item
          /\ l = Len(funcs) /\ m \in Nat /\ p \in Nat /\ l \in Nat
  BY <1>3
<1>7. /\ k \in Nat /\ e \in Nat /\ n = num.func + num.bodies /\ CodeAt(g, n, k, e, b, todo)
      /\ Placed(g, m, k, e, b, p, B, d)
  BY <1>5, <1>6, Zenon DEF InBody
<1>8. StageCall(g, n, k, e, b, i, s)  BY <1>1, <1>6, <1>7, CallStage
<1>9. /\ FuncsOK' /\ num'.func = num.func /\ num'.bodies = num.bodies
      /\ item.d # "OnFunctionBinaryRead" => Bins' = Bins
  <2>1. item.d \notin Appending
    <3>1. section # 2 /\ section # 3  OBVIOUS
    <3>2. item.d # "OnImportFunc" /\ item.d # "OnFunction"  BY <1>1, <3>1, PlaceOfItem, Zenon
    <3> QED BY <3>2 DEF Appending
  <2>2. /\ FuncsOK' /\ num'.bodies = num.bodies /\ num'.func = num.func
        /\ item.d # "OnFunctionBinaryRead" => BinsKept
    BY <2>1, CallFuncs
  <2> QED BY <2>2, BinsSame
<1>10. /\ n = num'.func + num'.bodies /\ m = num'.func /\ p = offset' /\ d = data' /\ s = todo'
       /\ i.d # "OnFunctionBinaryRead" => B = Bins'
  BY <1>1, <1>6, <1>7, <1>9
<1> HIDE DEF cb
<1>11. CASE Fits(Inner, 0, i) /\ Calls(Inner, i.d) /\ CodeAt(g, n, k, e, b, s)
  <2>1. i.d # "OnFunctionBinaryRead"
    <3>1. i.d \notin Remembering  BY <1>11 DEF Calls, Inner, Sub
    <3> QED BY <3>1 DEF Remembering
  <2> QED BY <1>7, <1>10, <1>11, <2>1, InBodyNext
<1>12. CASE g = "begin" /\ i = Call("BeginFunctionBody", k) /\ CodeAt("decl", n, k, e, b, s)
  <2>1. i.d # "OnFunctionBinaryRead"  BY <1>12 DEF Call, R
  <2>2. Placed("begin", m, k, e, b, p, B, d)  BY <1>7, <1>12
  <2>3. Placed("decl", m, k, e, b, p, B, d)  BY <2>2, PlacedBegin
  <2> QED BY <1>7, <1>10, <1>12, <2>1, <2>3, InBodyNext
<1>13. CASE g = "binary" /\ i = Binary(k, e) /\ CodeAt("loop", n, k, e, FALSE, s)
  <2>1. i.d = "OnFunctionBinaryRead" /\ i.x = [index |-> k, end |-> e]
    BY <1>13 DEF Binary, Call, R
  <2>2. cb.x = [index |-> k, begin |-> p, end |-> e]
    <3>1. "OnFunctionBinaryRead" \in Remembering  BY DEF Remembering
    <3>2. item.d \notin DOMAIN ExprMade \cup DOMAIN Opened  BY <1>6, <2>1, <3>1, ExprCalls
    <3>3. Cb(item).x = [index |-> item.x.index, begin |-> offset, end |-> item.x.end]
      BY <1>6, <2>1, <3>2 DEF Cb
    <3> QED BY <1>6, <2>1, <3>3 DEF cb
  <2>3. /\ Len(funcs') = Len(funcs)
        /\ \A f \in DOMAIN funcs : funcs'[f].wasm_bin = IF f = k + 1 THEN <<p, e>>
                                                       ELSE funcs[f].wasm_bin
    BY <1>1, <1>2, <1>6, <2>1, <2>2, FuncsKept
  <2>4. PICK B2 : B2 = Bins'  OBVIOUS
  <2>5. DOMAIN funcs' = DOMAIN funcs  BY <1>9, <2>3, SeqDomain DEF FuncsOK
  <2>6. /\ DOMAIN B2 = DOMAIN B /\ DOMAIN B = 1 .. l
        /\ \A f \in DOMAIN B : B2[f] = IF f = k + 1 THEN <<p, e>> ELSE B[f]
    BY <1>3, <1>6, <2>3, <2>4, <2>5 DEF Bins
  <2>7. Placed("binary", m, k, e, b, p, B, d)  BY <1>7, <1>13
  <2>8. Placed("loop", m, k, e, FALSE, p, B2, d)
    BY <1>6, <1>7, <2>6, <2>7, PlacedBytes
  <2> QED BY <1>7, <1>10, <1>13, <2>4, <2>8, InBodyNext
<1>14. CASE g = "end" /\ i = Ender(k) /\ CodeAt("next", n, k + 1, e, b, s)
  <2>1. i.d # "OnFunctionBinaryRead"  BY <1>14 DEF Ender, Call, R
  <2>2. Placed("end", m, k, e, b, p, B, d)  BY <1>7, <1>14
  <2>3. DOMAIN B \subseteq Nat \ {0}  BY <1>3, <1>6
  <2>4. Placed("next", m, k + 1, e, b, p, B, d)
    BY <1>6, <1>7, <2>2, <2>3, PlacedNext
  <2>5. PICK j \in Nat : j = k + 1  BY <1>7
  <2> QED BY <1>7, <1>10, <1>14, <2>1, <2>4, <2>5, InBodyNext
<1> QED BY <1>8, <1>11, <1>12, <1>13, <1>14, Zenon DEF StageCall

\* An error is reported in the middle of a body.
LEMMA BodiesReport ==
    ASSUME ReaderInv, FuncsOK, BodiesInv, Report, section = 10
    PROVE  InBodies'
<1>1. /\ todo # <<>> /\ item.r = "report" /\ todo' = Tail(todo)
      /\ funcs' = funcs /\ num' = num /\ data' = data /\ offset' = offset
  BY DEF Report, Active, irVars
<1>2. Bins' = Bins  BY <1>1 DEF Bins
<1>3. todo # <<FirstRead(10)>> /\ item # Fail
  <2>1. todo = <<FirstRead(10)>> => item = FirstRead(10)  BY DEF item
  <2>2. Fail.r = "error"  BY DEF Fail, R
  <2> QED BY <1>1, <2>1, <2>2, CountIsFirst
<1>4. PICK g, n, k, e, b : InBody(g, n, k, e, b)
  BY <1>1, <1>3, Zenon DEF BodiesInv, InBodies
<1>5. CodeAt(g, n, k, e, b, todo')
  <2>1. ~StageHead(g, n, k, e, b, item, todo')
    <3>1. item.r \notin Primitives \cup {"loop", "call"}  BY <1>1 DEF Primitives
    <3> QED BY <3>1, StageKinds
  <2> QED BY <1>1, <1>4, <2>1, CodeHead, Zenon DEF InBody, item
<1>6. InBody(g, n, k, e, b)'  BY <1>1, <1>2, <1>4, <1>5, Zenon DEF InBody
<1> QED BY <1>6, Zenon DEF InBodies

\* A section is over: the code section only when every body is in place.
LEMMA BodiesEnd ==
    ASSUME ReaderInv, FuncsOK, BodiesInv, EndSection
    PROVE  BodiesInv'
<1>1. /\ state = "reading" /\ todo = <<>> /\ section' = NONE
      /\ UNCHANGED <<seen, num, funcs, data>>
      /\ (state' = "returned" /\ result' = "Error") \/ state' = "reading"
      /\ section # Custom /\ section_result = "Error" => state' = "returned"
  BY DEF EndSection, SectionFailed, IgnoreErrors, irVars
<1>2. Bins' = Bins  BY <1>1 DEF Bins
<1>3. ~(state' = "returned" /\ result' = "Ok") /\ section' # 10  BY <1>1 DEF NONE
<1>4. ASSUME 10 \in seen, ~(Rejected)'
      PROVE  InOrder(Bins, data, num.func, num.func + num.bodies)
  <2>1. state' = "reading"  BY <1>1, <1>4 DEF Rejected
  <2>2. CASE section # 10  BY <1>1, <1>4, <2>2 DEF BodiesInv, Rejected
  <2>3. CASE section = 10
    <3>1. section_result # "Error"  BY <1>1, <2>1, <2>3 DEF Custom
    <3>2. todo # <<FirstRead(10)>>  BY <1>1
    <3>3. PICK g, n, k, e, b : InBody(g, n, k, e, b)
      BY <1>1, <2>3, <3>1, <3>2, Zenon DEF BodiesInv, InBodies
    <3>4. /\ n = num.func + num.bodies /\ CodeAt(g, n, k, e, b, todo)
          /\ InOrder(Bins, data, num.func, k)
      BY <3>3, Zenon DEF InBody, Placed
    <3>5. k = n  BY <1>1, <3>4, CodeHead, Zenon
    <3> QED BY <3>4, <3>5
  <2> QED BY <2>2, <2>3
<1>5. (10 \in seen /\ section # 10 /\ ~Rejected =>
           InOrder(Bins, data, num.func, num.func + num.bodies))'
  BY <1>1, <1>2, <1>4
<1>6. InBodies'  BY <1>3 DEF InBodies
<1> QED BY <1>1, <1>3, <1>5, <1>6 DEF BodiesInv

\* Every step keeps the bodies in place.
LEMMA BodiesNext ==
    ReaderInv /\ OrderInv /\ FuncsCounted /\ BodiesInv /\ [Next]_modVars => BodiesInv'
<1> SUFFICES ASSUME ReaderInv, OrderInv, FuncsCounted, BodiesInv, [Next]_modVars PROVE BodiesInv'
  OBVIOUS
<1>1. FuncsOK  BY DEF FuncsCounted
<1>2. CASE NextSection
  <2>1. PICK h \in {Header} : /\ HeaderAccepted(h) /\ section' = h.code
                              /\ seen' = IF h.code = Custom THEN seen ELSE seen \cup {h.code}
                              /\ todo' = <<FirstRead(h.code)>>
    BY <1>2 DEF NextSection
  <2>2. /\ state = "reading" /\ section = NONE /\ UNCHANGED <<state, num, funcs, data>>
    BY <1>2 DEF NextSection, BetweenSections, irVars
  <2>3. h.code = 10 => 10 \notin seen /\ 10 \in seen'
    BY <2>1 DEF HeaderAccepted, Custom
  <2>4. Bins' = Bins /\ section # 10 /\ ~Rejected  BY <2>2 DEF Bins, NONE, Rejected
  <2>5. 10 \in seen' /\ section' # 10 => 10 \in seen  BY <2>1
  <2>6. 10 \notin seen' => 10 \notin seen  BY <2>1
  <2>7. InBodies'  BY <2>1 DEF InBodies
  <2>8. (10 \in seen /\ section # 10 /\ ~Rejected =>
             InOrder(Bins, data, num.func, num.func + num.bodies))'
    BY <2>2, <2>4, <2>5 DEF BodiesInv
  <2> QED BY <2>1, <2>2, <2>3, <2>6, <2>7, <2>8 DEF BodiesInv
<1>3. CASE RejectSection \/ ReadModuleEnds
  <2>1. /\ state = "reading" /\ section = NONE /\ state' = "returned"
        /\ UNCHANGED <<section, seen, num, funcs, data>>
        /\ result' = "Ok" => num.sigs = num.bodies
    BY <1>3 DEF RejectSection, ReadModuleEnds, BetweenSections, irVars
  <2>2. Bins' = Bins /\ section # 10 /\ ~Rejected  BY <2>1 DEF Bins, NONE, Rejected
  <2>3. InBodies'  BY <2>1, <2>2 DEF InBodies
  <2> QED BY <2>1, <2>2, <2>3 DEF BodiesInv
<1>4. CASE CallUndefined
  <2>1. /\ state = "reading" /\ state' = "undefined"
        /\ UNCHANGED <<section, section_result, seen, todo, num, funcs, data, offset>>
    BY <1>4 DEF CallUndefined, Active, irVars
  <2>2. Bins' = Bins /\ ~Rejected  BY <2>1 DEF Bins, Rejected
  <2>3. InBodies'
    <3>1. \A g, n, k, e, b : InBody(g, n, k, e, b) => InBody(g, n, k, e, b)'
      BY <2>1, <2>2, Zenon DEF InBody
    <3>2. InBodies  BY DEF BodiesInv
    <3>3. item' = item  BY <2>1 DEF item
    <3> QED BY <2>1, <3>1, <3>2, <3>3, Zenon DEF InBodies
  <2> QED BY <2>1, <2>2, <2>3 DEF BodiesInv
<1>5. CASE UNCHANGED modVars
  <2>1. UNCHANGED <<state, result, section, section_result, seen, todo, num, funcs, data, offset>>
    BY <1>5 DEF modVars, readerVars, irVars
  <2>2. Bins' = Bins  BY <2>1 DEF Bins
  <2>3. InBodies'
    <3>1. \A g, n, k, e, b : InBody(g, n, k, e, b) => InBody(g, n, k, e, b)'
      BY <2>1, <2>2, Zenon DEF InBody
    <3>2. InBodies  BY DEF BodiesInv
    <3>3. item' = item  BY <2>1 DEF item
    <3> QED BY <2>1, <3>1, <3>2, <3>3, Zenon DEF InBodies
  <2> QED BY <2>1, <2>2, <2>3 DEF BodiesInv, Rejected
<1>6. CASE EnterSubsection \/ LeaveSubsection \/ SkipRest
  <2>1. section # 10  BY <1>6, CustomSteps
  <2>2. state = "reading" /\ UNCHANGED <<section, seen, state, result, data, num, funcs>>
    BY <1>6 DEF EnterSubsection, LeaveSubsection, SkipRest, Active, irVars
  <2>3. Bins' = Bins  BY <2>2 DEF Bins
  <2> QED BY <2>1, <2>2, <2>3, BodiesOutside
<1>7. CASE HandlerFails
  <2>1. /\ section_result' = "Error" /\ todo' = <<>> /\ state = "reading"
        /\ UNCHANGED <<section, seen, state, result, data, num, funcs>>
    BY <1>7 DEF HandlerFails, LeftAfterFailure, Active, irVars
  <2>2. Bins' = Bins  BY <2>1 DEF Bins
  <2>3. CASE section # 10  BY <2>1, <2>2, <2>3, BodiesOutside
  <2>4. CASE section = 10
    <3>1. InBodies'  BY <2>1 DEF InBodies
    <3> QED BY <2>1, <2>4, <3>1, BodiesInside
  <2> QED BY <2>3, <2>4
<1>8. CASE ReadItem
  <2>1. state = "reading" /\ UNCHANGED <<section, seen, state, result, data, funcs>>
    BY <1>8 DEF ReadItem, Active, irVars
  <2>2. CASE section # 10
    <3>1. num'.bodies = num.bodies /\ num'.func = num.func  BY <1>8, <2>2, ReadCounts
    <3>2. Bins' = Bins  BY <2>1 DEF Bins
    <3> QED BY <2>1, <2>2, <3>1, <3>2, BodiesOutside
  <2>3. CASE section = 10
    <3>1. InBodies'  BY <1>1, <1>8, <2>3, BodiesRead
    <3> QED BY <2>1, <2>3, <3>1, BodiesInside
  <2> QED BY <2>2, <2>3
<1>9. CASE LoopItem \/ Report
  <2>1. state = "reading" /\ UNCHANGED <<section, seen, state, result, data, num, funcs>>
    BY <1>9 DEF LoopItem, Report, Active, irVars
  <2>2. CASE section # 10
    <3>1. Bins' = Bins  BY <2>1 DEF Bins
    <3> QED BY <2>1, <2>2, <3>1, BodiesOutside
  <2>3. CASE section = 10
    <3>1. InBodies'  BY <1>1, <1>9, <2>3, BodiesLoop, BodiesReport
    <3> QED BY <2>1, <2>3, <3>1, BodiesInside
  <2> QED BY <2>2, <2>3
<1>10. CASE CallItem
  <2>1. /\ state = "reading" /\ todo # <<>> /\ item.r = "call"
        /\ UNCHANGED <<section, seen, state, result, data>>
    BY <1>10 DEF CallItem, Active
  <2>2. CASE section # 10
    <3>1. /\ FuncsOK' /\ num'.bodies = num.bodies
          /\ item.d \notin Appending => num'.func = num.func
          /\ item.d \notin Appending \cup {"OnFunctionBinaryRead"} => BinsKept
      BY <1>1, <1>10, CallFuncs
    <3>2. 10 \in seen => item.d \notin Appending \cup {"OnFunctionBinaryRead"}
      <4>1. 10 \in seen => section # 2 /\ section # 3  BY <2>1, CodeIsLate
      <4>2. 10 \in seen => /\ item.d # "OnImportFunc" /\ item.d # "OnFunction"
                           /\ item.d # "OnFunctionBinaryRead"
        BY <2>1, <2>2, <4>1, PlaceOfItem, Zenon
      <4> QED BY <4>2 DEF Appending
    <3>3. 10 \in seen => Bins' = Bins /\ num'.func = num.func
      BY <1>1, <3>1, <3>2, BinsSame
    <3> QED BY <2>1, <2>2, <3>1, <3>3, BodiesOutside
  <2>3. CASE section = 10
    <3>1. InBodies'  BY <1>1, <1>10, <2>3, BodiesCall
    <3> QED BY <2>1, <2>3, <3>1, BodiesInside
  <2> QED BY <2>2, <2>3
<1>11. CASE EndSection  BY <1>1, <1>11, BodiesEnd
<1> QED BY <1>2, <1>3, <1>4, <1>5, <1>6, <1>7, <1>8, <1>9, <1>10, <1>11 DEF Next

\* In the beginning there are no bodies.
LEMMA BodiesInit == Init => BodiesInv
<1> SUFFICES ASSUME Init PROVE BodiesInv
  OBVIOUS
<1>1. section = NONE /\ seen = {} /\ num.bodies = 0 /\ state = "reading"
  BY DEF Init, ReaderInit
<1> QED BY <1>1 DEF BodiesInv, InBodies, NONE

\* The bodies read are those of the functions declared.
LEMMA BodiesInvInPlace == ReaderInv /\ FuncsCounted /\ BodiesInv => BodiesInPlace
<1> SUFFICES ASSUME ReaderInv, FuncsCounted, BodiesInv, state = "returned", result = "Ok",
                    NEW f \in num.func + 1 .. Len(funcs)
             PROVE  /\ funcs[f].wasm_bin # <<>>
                    /\ LET bin == funcs[f].wasm_bin
                       IN  /\ bin[1] < bin[2] /\ bin[2] <= size
                           /\ data[bin[2]] = OpcodeEnd[2]
                           /\ f > num.func + 1 => funcs[f - 1].wasm_bin[2] < bin[1]
  BY DEF BodiesInPlace
<1>1. /\ Len(funcs) \in Nat /\ DOMAIN Bins = 1 .. Len(funcs) /\ DOMAIN Bins = DOMAIN funcs
      /\ num.func \in Nat /\ num.bodies \in Nat
  BY BinsDomain DEF FuncsCounted
<1>2. num.sigs = num.bodies /\ section # 10 /\ ~Rejected
  BY DEF BodiesInv, NONE, Rejected
<1>3. f \in DOMAIN Bins /\ num.func < f /\ f <= num.func + num.bodies
  BY <1>1, <1>2 DEF FuncsCounted
<1>4. 10 \in seen
  <2>1. num.bodies # 0  BY <1>1, <1>3
  <2> QED BY <2>1 DEF BodiesInv
<1>5. InOrder(Bins, data, num.func, num.func + num.bodies)
  BY <1>2, <1>4 DEF BodiesInv
<1>6. /\ IsRange(Bins, f) /\ EndsBody(Bins, data, f)
      /\ num.func + 1 < f => Bins[f - 1][2] < Bins[f][1]
  BY <1>3, <1>5 DEF InOrder
<1>7. Bins[f] = funcs[f].wasm_bin  BY <1>1, <1>3 DEF Bins
<1>8. f > num.func + 1 => Bins[f - 1] = funcs[f - 1].wasm_bin
  <2>1. f > num.func + 1 => f - 1 \in 1 .. Len(funcs)  BY <1>1, <1>3
  <2> QED BY <1>1, <2>1 DEF Bins
<1>9. f > num.func + 1 => num.func + 1 < f  BY <1>1, <1>3
<1> QED BY <1>6, <1>7, <1>8, <1>9 DEF IsRange, EndsBody, size

\* BodiesInPlace: of an accepted module each function that is not imported has bytes; they
\* end with an end inside the file, and they begin behind those of the function before.
THEOREM ReaderBodiesInPlace == ReaderSpec => []BodiesInPlace
<1> QED BY FuncsCountedInit, FuncsCountedNext, BodiesInit, BodiesNext, BodiesInvInPlace,
           ReaderInvariant, OrderInvariant, PTL
        DEF ReaderSpec
=============================================================================
