------------------------- MODULE ReaderItems_proofs -------------------------
(***************************************************************************)
(* What the primitives of the reader return (WasmBytes), and what the         *)
(* handlers of the sections put on the list todo (BinaryReader): a grammar    *)
(* of items per section, and for each handler the lemma that what it still    *)
(* has to do after a read is again a list of items of its section: first the  *)
(* primitives, the grammar and the sections of entries, then the function     *)
(* bodies, the custom sections and the step of any section.                   *)
(***************************************************************************)
EXTENDS BinaryReader, SequenceTheorems, TLAPS
-----------------------------------------------------------------------------
(***************************************************************************)
(* What the primitives of the reader return, for every sequence of bytes and *)
(* every offset: nothing read goes past the limit, and the value is of the   *)
(* type the handlers of the sections take it for.                            *)
(***************************************************************************)

Bytes == Seq(0 .. 255)

\* The primitives, and those whose value is a number or a sequence of bytes.
Primitives == {"U32", "Index", "Offset", "Count", "S32", "Type", "S64", "U8", "F32", "F64",
               "V128", "ExternalKind", "Opcode", "Str", "Bytes"}
NatPrimitives  == {"U32", "Index", "Offset", "Count", "U8", "ExternalKind"}
IntPrimitives  == {"S32", "Type"}
SeqPrimitives  == {"Str", "Bytes"}

\* A number of LEB128 has at most as many bytes as allowed and ends before the limit.
LEMMA LebSizeRange ==
    ASSUME NEW d, NEW i, NEW end, NEW most \in Nat, NEW fitting
    PROVE  /\ LebSize(d, i, end, most, fitting) \in 0 .. most
           /\ LebSize(d, i, end, most, fitting) # 0 =>
                  i + LebSize(d, i, end, most, fitting) <= end
  BY DEF LebSize

\* The value of n bytes is a number, whatever they are, if what stands for the last is.
LEMMA LebValueType ==
    ASSUME NEW d, NEW i \in Nat, NEW n \in 0 .. 5, NEW top,
           n # 0 => top \in Int,
           \A k \in 1 .. n : d[i + k] \in 0 .. 255
    PROVE  /\ LebValue(d, i, n, top) \in Int
           /\ (n # 0 => top \in Nat) => LebValue(d, i, n, top) \in Nat
<1> DEFINE Digit(k) == IF k > n THEN 0 ELSE IF k = n THEN top ELSE d[i + k] % 128
<1>1. LebValue(d, i, n, top) =
          Digit(1) + 128 * Digit(2) + 16384 * Digit(3) + 2097152 * Digit(4)
          + 268435456 * Digit(5)
  BY DEF LebValue
<1>2. \A k \in 1 .. 5 : /\ Digit(k) \in Int
                        /\ (n # 0 => top \in Nat) => Digit(k) \in Nat
  OBVIOUS
<1> HIDE DEF Digit
<1> QED BY <1>1, <1>2

\* The bytes of what lies inside a limit inside the file.
LEMMA BytesInside ==
    ASSUME NEW d \in Bytes, NEW i \in Nat, NEW n \in Nat, n # 0 => i + n <= Len(d)
    PROVE  \A k \in 1 .. n : d[i + k] \in 0 .. 255
<1> SUFFICES ASSUME NEW k \in 1 .. n
             PROVE  d[i + k] \in 0 .. 255
  OBVIOUS
<1>1. Len(d) \in Nat
  BY LenProperties DEF Bytes
<1>2. i + k \in 1 .. Len(d)
  BY <1>1
<1> QED BY <1>2, ElementOfSeq DEF Bytes

\* An unsigned number takes at most five bytes, all before the limit.
LEMMA U32Facts ==
    ASSUME NEW d \in Bytes, NEW i \in Nat, NEW end \in Nat, end <= Len(d)
    PROVE  LET u == ReadU32Leb128(d, i, end)
           IN  u.n \in 0 .. 5 /\ u.v \in Nat /\ (u.n # 0 => i + u.n <= end)
<1> DEFINE n == LebSize(d, i, end, 5, 0 .. 15)
<1>1. n \in 0 .. 5 /\ (n # 0 => i + n <= end)
  BY LebSizeRange
<1>2. ReadU32Leb128(d, i, end) = [n |-> n, v |-> LebValue(d, i, n, Unsigned(d[i + n]))]
  BY DEF ReadU32Leb128
<1> HIDE DEF n
<1>3. Len(d) \in Nat
  BY LenProperties DEF Bytes
<1>4. \A k \in 1 .. n : d[i + k] \in 0 .. 255
  <2>1. n \in Nat /\ (n # 0 => i + n <= Len(d))
    BY <1>1, <1>3
  <2> QED BY <2>1, BytesInside
<1>5. n # 0 => Unsigned(d[i + n]) \in Nat
  <2> HAVE n # 0
  <2>1. n \in 1 .. n
    BY <1>1
  <2>2. d[i + n] \in 0 .. 255
    BY <1>4, <2>1
  <2>3. \A b \in 0 .. 255 : Unsigned(b) \in Nat
    BY DEF Unsigned
  <2> QED BY <2>2, <2>3, Zenon
<1>6. LebValue(d, i, n, Unsigned(d[i + n])) \in Nat
  BY <1>1, <1>4, <1>5, LebValueType, SMTT(30)
<1> QED BY <1>1, <1>2, <1>6

\* So does a signed number, whose value may be negative.
LEMMA S32Facts ==
    ASSUME NEW d \in Bytes, NEW i \in Nat, NEW end \in Nat, end <= Len(d)
    PROVE  LET u == ReadS32Leb128(d, i, end)
           IN  u.n \in 0 .. 5 /\ u.v \in Int /\ (u.n # 0 => i + u.n <= end)
<1> DEFINE n == LebSize(d, i, end, 5, (0 .. 7) \cup (120 .. 127))
<1>1. n \in 0 .. 5 /\ (n # 0 => i + n <= end)
  BY LebSizeRange
<1>2. ReadS32Leb128(d, i, end) = [n |-> n, v |-> LebValue(d, i, n, Signed(d[i + n]))]
  BY DEF ReadS32Leb128
<1> HIDE DEF n
<1>3. Len(d) \in Nat
  BY LenProperties DEF Bytes
<1>4. \A k \in 1 .. n : d[i + k] \in 0 .. 255
  <2>1. n \in Nat /\ (n # 0 => i + n <= Len(d))
    BY <1>1, <1>3
  <2> QED BY <2>1, BytesInside
<1>5. n # 0 => Signed(d[i + n]) \in Int
  <2> HAVE n # 0
  <2>1. n \in 1 .. n
    BY <1>1
  <2>2. d[i + n] \in 0 .. 255
    BY <1>4, <2>1
  <2>3. \A b \in 0 .. 255 : Signed(b) \in Int
    BY DEF Signed
  <2> QED BY <2>2, <2>3, Zenon
<1>6. LebValue(d, i, n, Signed(d[i + n])) \in Int
  BY <1>1, <1>4, <1>5, LebValueType
<1> QED BY <1>1, <1>2, <1>6

\* A length and its bytes end before the limit.
LEMMA BytesFacts ==
    ASSUME NEW d \in Bytes, NEW i \in Nat, NEW end \in Nat, end <= Len(d)
    PROVE  LET b == ReadBytes(d, i, end)
           IN  b.n \in Nat /\ b.v \in Bytes /\ (b.n # 0 => i + b.n <= end)
<1> DEFINE u == ReadU32Leb128(d, i, end)
           b == ReadBytes(d, i, end)
           n == u.n
           v == u.v
<1>1. n \in 0 .. 5 /\ v \in Nat /\ (n # 0 => i + n <= end)
  BY U32Facts
<1>2. b = IF n = 0 \/ i + n + v > end THEN [n |-> 0, v |-> <<>>]
          ELSE [n |-> n + v, v |-> SubSeq(d, i + n + 1, i + n + v)]
  BY DEF ReadBytes
<1>3. Len(d) \in Nat
  BY LenProperties DEF Bytes
<1> HIDE DEF n, v, b
<1> SUFFICES b.n \in Nat /\ b.v \in Bytes /\ (b.n # 0 => i + b.n <= end)
  BY DEF b
<1>4. CASE n = 0 \/ i + n + v > end
  <2>1. b = [n |-> 0, v |-> <<>>]
    BY <1>2, <1>4
  <2>2. <<>> \in Bytes
    BY EmptySeq DEF Bytes
  <2> QED BY <2>1, <2>2
<1>5. CASE ~(n = 0 \/ i + n + v > end)
  <2>1. \A k \in i + n + 1 .. i + n + v : d[k] \in 0 .. 255
    <3> TAKE k \in i + n + 1 .. i + n + v
    <3>1. k \in 1 .. Len(d)
      BY <1>1, <1>3, <1>5
    <3> QED BY <3>1, ElementOfSeq DEF Bytes
  <2>2. SubSeq(d, i + n + 1, i + n + v) \in Bytes
    BY <1>1, <2>1, SubSeqProperties DEF Bytes
  <2>3. b = [n |-> n + v, v |-> SubSeq(d, i + n + 1, i + n + v)]
    BY <1>2, <1>5
  <2> QED BY <1>1, <1>5, <2>2, <2>3
<1> QED BY <1>4, <1>5

\* A string is read as its bytes are, or not at all.
LEMMA StrFacts ==
    ASSUME NEW d \in Bytes, NEW i \in Nat, NEW end \in Nat, end <= Len(d)
    PROVE  LET s == ReadStr(d, i, end)
           IN  s.n \in Nat /\ s.v \in Bytes /\ (s.n # 0 => i + s.n <= end)
<1> DEFINE b == ReadBytes(d, i, end)
<1>1. b.n \in Nat /\ b.v \in Bytes /\ (b.n # 0 => i + b.n <= end)
  BY BytesFacts
<1>2. ReadStr(d, i, end) = IF IsValidUtf8(b.v) THEN b ELSE [n |-> 0, v |-> <<>>]
  BY DEF ReadStr
<1> HIDE DEF b
<1> QED BY <1>1, <1>2 DEF Bytes

\* A value of fixed size is read whole or not at all.
LEMMA TFacts ==
    ASSUME NEW d \in Bytes, NEW i \in Nat, NEW end \in Nat, end <= Len(d), NEW n \in Nat
    PROVE  LET t == ReadT(d, i, end, n)
           IN  /\ t.n \in {0, n} /\ (t.n # 0 => i + t.n <= end /\ t.v \in 0 .. 255)
               /\ t.n = 0 /\ n # 0 => t.v = 0
<1>1. Len(d) \in Nat
  BY LenProperties DEF Bytes
<1>2. CASE i + n > end
  BY <1>2 DEF ReadT, CannotRead
<1>3. CASE ~(i + n > end)
  <2>1. ReadT(d, i, end, n) = [n |-> n, v |-> d[i + 1]]
    BY <1>3 DEF ReadT
  <2>2. n # 0 => i + 1 \in 1 .. Len(d)
    BY <1>1, <1>3
  <2>3. n # 0 => d[i + 1] \in 0 .. 255
    BY <2>2, ElementOfSeq DEF Bytes
  <2> QED BY <1>3, <2>1, <2>3
<1> QED BY <1>2, <1>3

\* A byte is a natural number.
LEMMA ByteIsNat == \A b \in 0 .. 255 : b \in Nat
  OBVIOUS

\* Two natural numbers make the pair of an opcode.
LEMMA PairOfNats == \A a, b \in Nat : <<a, b>> \in Nat \X Nat
  OBVIOUS

\* An opcode, with its prefix, ends before the limit.
LEMMA OpcodeFacts ==
    ASSUME NEW d \in Bytes, NEW i \in Nat, NEW end \in Nat, end <= Len(d)
    PROVE  LET o == ReadOpcode(d, i, end)
           IN  o.n \in Nat /\ o.v \in Nat \X Nat /\ (o.n # 0 => i + o.n <= end)
<1> DEFINE b == ReadT(d, i, end, 1)
           u == ReadU32Leb128(d, i + 1, end)
           o == ReadOpcode(d, i, end)
<1>1. b.n \in {0, 1} /\ (b.n # 0 => i + b.n <= end /\ b.v \in 0 .. 255)
  BY TFacts
<1>2. u.n \in 0 .. 5 /\ u.v \in Nat /\ (u.n # 0 => i + 1 + u.n <= end)
  BY U32Facts
<1>3. o =
          IF b.n = 0 \/ (b.v \in OpcodePrefixes /\ u.n = 0) THEN [n |-> 0, v |-> <<0, 0>>]
          ELSE IF b.v \in OpcodePrefixes THEN [n |-> 1 + u.n, v |-> <<b.v, u.v>>]
          ELSE [n |-> 1, v |-> <<0, b.v>>]
  BY DEF ReadOpcode
<1> HIDE DEF b, u, o
<1> SUFFICES o.n \in Nat /\ o.v \in Nat \X Nat /\ (o.n # 0 => i + o.n <= end)
  BY DEF o
<1>4. CASE b.n = 0 \/ (b.v \in OpcodePrefixes /\ u.n = 0)
  BY <1>3, <1>4
<1>5. CASE b.n # 0 /\ b.v \in OpcodePrefixes /\ u.n # 0
  <2>1. o = [n |-> 1 + u.n, v |-> <<b.v, u.v>>]
    BY <1>3, <1>5
  <2>2. <<b.v, u.v>> \in Nat \X Nat
    BY <1>1, <1>2, <1>5, ByteIsNat, PairOfNats, Zenon
  <2>3. o.n = 1 + u.n
    BY <2>1, Zenon
  <2>4. o.v \in Nat \X Nat
    BY <2>1, <2>2, Zenon
  <2>5. o.n \in Nat /\ i + o.n <= end
    BY <1>2, <1>5, <2>3
  <2> QED BY <2>4, <2>5, Zenon
<1>6. CASE b.n # 0 /\ b.v \notin OpcodePrefixes
  <2>1. o = [n |-> 1, v |-> <<0, b.v>>]
    BY <1>3, <1>6
  <2>2. <<0, b.v>> \in Nat \X Nat
    <3>1. 0 \in Nat
      OBVIOUS
    <3> QED BY <1>1, <1>6, <3>1, ByteIsNat, PairOfNats, Zenon
  <2>3. o.n = 1
    BY <2>1, Zenon
  <2>4. o.v \in Nat \X Nat
    BY <2>1, <2>2, Zenon
  <2>5. o.n \in Nat /\ i + o.n <= end
    BY <1>1, <1>6, <2>3
  <2> QED BY <2>4, <2>5, Zenon
<1> QED BY <1>4, <1>5, <1>6

\* ReadAs: what is read lies before the limit, and the value has the type of the
\* primitive.
LEMMA ReadAsFacts ==
    ASSUME NEW r \in Primitives, NEW d \in Bytes, NEW i \in Nat, NEW end \in Nat,
           end <= Len(d), ReadAs(r, d, i, end).n > 0
    PROVE  /\ ReadAs(r, d, i, end).n \in Nat
           /\ i + ReadAs(r, d, i, end).n <= end
           /\ r \in NatPrimitives => ReadAs(r, d, i, end).v \in Nat
           /\ r \in IntPrimitives => ReadAs(r, d, i, end).v \in Int
           /\ r \in SeqPrimitives => ReadAs(r, d, i, end).v \in Bytes
           /\ r = "Opcode" => ReadAs(r, d, i, end).v \in Nat \X Nat
<1> DEFINE got == ReadAs(r, d, i, end)
<1>1. CASE r \in {"U32", "Index", "Offset"}
  <2>1. got = ReadU32Leb128(d, i, end)
    BY <1>1, Zenon DEF ReadAs
  <2> QED BY <1>1, <2>1, U32Facts, SMTT(30) DEF NatPrimitives, IntPrimitives, SeqPrimitives
<1>2. CASE r = "Count"
  <2>1. got = ReadCount(d, i, end)
    BY <1>2, Zenon DEF ReadAs
  <2> DEFINE u == ReadU32Leb128(d, i, end)
  <2>2. u.n \in 0 .. 5 /\ u.v \in Nat /\ (u.n # 0 => i + u.n <= end)
    BY U32Facts
  <2>3. got = IF u.v > end - i - u.n THEN CannotRead ELSE u
    BY <2>1 DEF ReadCount
  <2> QED BY <1>2, <2>2, <2>3 DEF CannotRead, NatPrimitives, IntPrimitives, SeqPrimitives
<1>3. CASE r \in {"S32", "Type"}
  <2>1. got = ReadS32Leb128(d, i, end)
    BY <1>3, Zenon DEF ReadAs
  <2>2. r \in IntPrimitives /\ r \notin NatPrimitives \cup SeqPrimitives /\ r # "Opcode"
    BY <1>3 DEF NatPrimitives, IntPrimitives, SeqPrimitives
  <2>3. /\ got.n \in 0 .. 5 /\ got.v \in Int
        /\ got.n # 0 => i + got.n <= end
    BY <2>1, S32Facts
  <2> QED BY <2>2, <2>3
<1>4. CASE r = "S64"
  <2>1. got = ReadS64Leb128(d, i, end)
    BY <1>4, Zenon DEF ReadAs
  <2>2. got.n = LebSize(d, i, end, 10, {0, 127})
    BY <2>1 DEF ReadS64Leb128
  <2>3. got.n \in 0 .. 10 /\ (got.n # 0 => i + got.n <= end)
    BY <2>2, LebSizeRange
  <2> QED BY <1>4, <2>3 DEF NatPrimitives, IntPrimitives, SeqPrimitives
<1>5. CASE r \in {"U8", "F32", "F64", "V128"}
  <2>1. \E n \in Nat : got = ReadT(d, i, end, n)
    <3>1. r = "U8" => got = ReadT(d, i, end, 1)
      BY Zenon DEF ReadAs
    <3>2. r = "F32" => got = ReadT(d, i, end, 4)
      BY Zenon DEF ReadAs
    <3>3. r = "F64" => got = ReadT(d, i, end, 8)
      BY Zenon DEF ReadAs
    <3>4. r = "V128" => got = ReadT(d, i, end, 16)
      BY Zenon DEF ReadAs
    <3> QED BY <1>5, <3>1, <3>2, <3>3, <3>4
  <2>2. PICK n \in Nat : got = ReadT(d, i, end, n)
    BY <2>1
  <2>3. got.n \in {0, n} /\ (got.n # 0 => i + got.n <= end /\ got.v \in 0 .. 255)
    <3> DEFINE t == ReadT(d, i, end, n)
    <3>1. t.n \in {0, n} /\ (t.n # 0 => i + t.n <= end /\ t.v \in 0 .. 255)
      BY TFacts
    <3> QED BY <2>2, <3>1, Zenon
  <2>4. got.n > 0
    OBVIOUS
  <2> HIDE DEF got
  <2>5. got.n \in Nat /\ got.n # 0
    BY <2>3, <2>4
  <2>7. i + got.n <= end /\ got.v \in Nat
    BY <2>3, <2>5, ByteIsNat, Zenon
  <2>6. r \notin IntPrimitives /\ r \notin SeqPrimitives /\ r # "Opcode"
    BY <1>5 DEF IntPrimitives, SeqPrimitives
  <2> QED BY <2>5, <2>7, <2>6, Zenon DEF got
<1>6. CASE r = "ExternalKind"
  <2>1. got = ReadExternalKind(d, i, end)
    BY <1>6, Zenon DEF ReadAs
  <2> DEFINE b == ReadT(d, i, end, 1)
  <2>2. b.n \in {0, 1} /\ (b.n # 0 => i + b.n <= end /\ b.v \in 0 .. 255)
    BY TFacts
  <2>3. got = IF b.v >= kExternalKindCount THEN CannotRead ELSE b
    BY <2>1 DEF ReadExternalKind
  <2>4. got.n > 0
    OBVIOUS
  <2> HIDE DEF got, b
  <2>5. got = b
    BY <2>3, <2>4 DEF CannotRead
  <2>6. got.n \in Nat /\ got.n # 0
    BY <2>2, <2>4, <2>5
  <2>8. i + got.n <= end /\ got.v \in Nat
    BY <2>2, <2>5, <2>6, ByteIsNat, Zenon
  <2>7. r \notin IntPrimitives /\ r \notin SeqPrimitives /\ r # "Opcode"
    BY <1>6 DEF IntPrimitives, SeqPrimitives
  <2> QED BY <2>6, <2>8, <2>7, Zenon DEF got
<1>7. CASE r = "Opcode"
  <2>1. got = ReadOpcode(d, i, end)
    BY <1>7, Zenon DEF ReadAs
  <2> QED BY <1>7, <2>1, OpcodeFacts DEF NatPrimitives, IntPrimitives, SeqPrimitives
<1>8. CASE r = "Str"
  <2>1. got = ReadStr(d, i, end)
    BY <1>8, Zenon DEF ReadAs
  <2> QED BY <1>8, <2>1, StrFacts DEF NatPrimitives, IntPrimitives, SeqPrimitives
<1>9. CASE r = "Bytes"
  <2>1. got = ReadBytes(d, i, end)
    BY <1>9, Zenon DEF ReadAs
  <2> QED BY <1>9, <2>1, BytesFacts DEF NatPrimitives, IntPrimitives, SeqPrimitives
<1> QED BY <1>1, <1>2, <1>3, <1>4, <1>5, <1>6, <1>7, <1>8, <1>9 DEF Primitives
-----------------------------------------------------------------------------
(***************************************************************************)
(* The items on the list.                                                    *)
(***************************************************************************)

\* A sequence, whatever its elements are.
IsSeq(s) == \E S : s \in Seq(S)

\* Two sequences are sequences over one set.
LEMMA SeqOfTwo ==
    ASSUME NEW s, NEW t, IsSeq(s), IsSeq(t)
    PROVE  \E S : s \in Seq(S) /\ t \in Seq(S)
<1>1. PICK S : s \in Seq(S)  BY DEF IsSeq
<1>2. PICK T : t \in Seq(T)  BY DEF IsSeq
<1>3. s \in Seq(S \cup T) /\ t \in Seq(S \cup T)
  BY <1>1, <1>2, SeqMonotonic
<1> QED BY <1>3

\* A single item is a sequence.
LEMMA SeqOne == ASSUME NEW e PROVE IsSeq(<<e>>)
<1>1. <<e>> \in Seq({e})  OBVIOUS
<1> QED BY <1>1 DEF IsSeq

\* Putting the items of a handler before what is left (Then(..) \o Tail(todo)) gives a sequence.
LEMMA SeqConcat ==
    ASSUME NEW s, NEW t, IsSeq(s), IsSeq(t)
    PROVE  IsSeq(s \o t)
<1>1. PICK S : s \in Seq(S) /\ t \in Seq(S)  BY SeqOfTwo
<1> QED BY <1>1, ConcatProperties DEF IsSeq

\* How the parts of a handler's text are bracketed does not matter.
LEMMA SeqAssoc ==
    ASSUME NEW s, NEW t, NEW u, IsSeq(s), IsSeq(t), IsSeq(u)
    PROVE  (s \o t) \o u = s \o (t \o u)
<1>1. PICK S : s \in Seq(S) /\ t \in Seq(S)  BY SeqOfTwo
<1>2. PICK T : u \in Seq(T)  BY DEF IsSeq
<1>3. s \in Seq(S \cup T) /\ t \in Seq(S \cup T) /\ u \in Seq(S \cup T)
  BY <1>1, <1>2, SeqMonotonic
<1> QED BY <1>3, ConcatAssociative

\* The first item of a list is that of its first part, if this has any.
LEMMA HeadTailConcat ==
    ASSUME NEW s, NEW t, IsSeq(s), IsSeq(t), s # <<>>
    PROVE  /\ Head(s \o t) = Head(s) /\ Tail(s \o t) = Tail(s) \o t
           /\ s \o t # <<>> /\ IsSeq(Tail(s))
<1>1. PICK S : s \in Seq(S) /\ t \in Seq(S)  BY SeqOfTwo
<1>2. Len(s) \in Nat \ {0}  BY <1>1, EmptySeq
<1>2a. Len(t) \in Nat  BY <1>1, LenProperties
<1>3. /\ s \o t \in Seq(S) /\ Len(s \o t) = Len(s) + Len(t)
      /\ \A k \in 1 .. Len(s) + Len(t) : (s \o t)[k] =
             IF k <= Len(s) THEN s[k] ELSE t[k - Len(s)]
  BY <1>1, ConcatProperties
<1>4. s \o t # <<>>  BY <1>1, <1>2, ConcatEqualIffEmpty
<1>5. Head(s \o t) = Head(s)
  <2>1. (s \o t)[1] = s[1]  BY <1>2, <1>2a, <1>3
  <2> QED BY <2>1, <1>1, <1>3, <1>4
<1>6. /\ Tail(s) \in Seq(S) /\ Len(Tail(s)) = Len(s) - 1
      /\ \A k \in 1 .. Len(Tail(s)) : Tail(s)[k] = s[k + 1]
  BY <1>1, HeadTailProperties
<1>7. /\ Tail(s \o t) \in Seq(S) /\ Len(Tail(s \o t)) = Len(s) + Len(t) - 1
      /\ \A k \in 1 .. Len(Tail(s \o t)) : Tail(s \o t)[k] = (s \o t)[k + 1]
  BY <1>3, <1>4, HeadTailProperties
<1>8. /\ Tail(s) \o t \in Seq(S) /\ Len(Tail(s) \o t) = Len(Tail(s)) + Len(t)
      /\ \A k \in 1 .. Len(Tail(s)) + Len(t) : (Tail(s) \o t)[k] =
             IF k <= Len(Tail(s)) THEN Tail(s)[k] ELSE t[k - Len(Tail(s))]
  BY <1>1, <1>6, ConcatProperties
<1>9. Len(Tail(s \o t)) = Len(Tail(s) \o t)
  BY <1>2, <1>2a, <1>6, <1>7, <1>8
<1>10. \A k \in 1 .. Len(Tail(s \o t)) : Tail(s \o t)[k] = (Tail(s) \o t)[k]
  <2> TAKE k \in 1 .. Len(Tail(s \o t))
  <2>1. PICK n, m \in Nat : n = Len(s) /\ m = Len(t) /\ n > 0  BY <1>2, <1>2a
  <2>2. k \in 1 .. n + m - 1 /\ Len(Tail(s)) = n - 1  BY <1>6, <1>7, <2>1
  <2>3. Tail(s \o t)[k] = IF k + 1 <= n THEN s[k + 1] ELSE t[k + 1 - n]
    BY <1>3, <1>7, <2>1, <2>2
  <2>4. (Tail(s) \o t)[k] = IF k <= n - 1 THEN Tail(s)[k] ELSE t[k - (n - 1)]
    BY <1>8, <2>1, <2>2
  <2>5. k <= n - 1 => Tail(s)[k] = s[k + 1]  BY <1>6, <2>2
  <2>6. k - (n - 1) = k + 1 - n /\ (k <= n - 1 <=> k + 1 <= n)  BY <2>1
  <2> QED BY <2>3, <2>4, <2>5, <2>6
<1>11. Tail(s \o t) = Tail(s) \o t
  BY <1>7, <1>8, <1>9, <1>10, SeqEqual
<1> QED BY <1>4, <1>5, <1>6, <1>11 DEF IsSeq

\* The first item and the rest of a list that starts with the item e.
LEMMA HeadTailCons ==
    ASSUME NEW e, NEW t, IsSeq(t)
    PROVE  /\ Head(<<e>> \o t) = e /\ Tail(<<e>> \o t) = t
           /\ <<e>> \o t # <<>> /\ IsSeq(<<e>> \o t)
<1>1. IsSeq(<<e>>)  BY SeqOne
<1>2. <<e>> # <<>> /\ Head(<<e>>) = e /\ Tail(<<e>>) = <<>>  OBVIOUS
<1>3. <<>> \o t = t  BY ConcatEmptySeq DEF IsSeq
<1>4. /\ Head(<<e>> \o t) = Head(<<e>>) /\ Tail(<<e>> \o t) = Tail(<<e>>) \o t
      /\ <<e>> \o t # <<>>
  BY <1>1, <1>2, HeadTailConcat
<1>5. IsSeq(<<e>> \o t)  BY <1>1, SeqConcat
<1> QED BY <1>2, <1>3, <1>4, <1>5, Zenon
-----------------------------------------------------------------------------
(* The items of each section.                                               *)

\* The contents of a subsection of a custom section, as if it were a section.
Sub == -1

\* The declarations and operands of a body, as if they were a section.
Inner == -2

Naming == {"OnFunctionName", "OnLocalName", "OnFunctionSymbol", "OnGlobalSymbol",
           "OnEventSymbol", "OnDataSymbol"}
Initializing == {"BeginGlobalInitExpr", "EndGlobalInitExpr", "BeginElemSegmentInitExpr",
                 "EndElemSegmentInitExpr", "BeginDataSegmentInitExpr",
                 "EndDataSegmentInitExpr", "OnInitExpr"}
Importing == {"OnImportFunc", "OnImportTable", "OnImportMemory", "OnImportGlobal",
              "OnImportEvent"}
\* The callbacks of the sections other than the code section.
EntryCalls == Naming \cup Initializing \cup Importing \cup
    {"BeginCustomSection", "EndCustomSection", "EndNamesSection", "OnFunctionNamesCount",
     "OnLocalNameLocalCount", "OnFuncType", "OnStructType", "OnArrayType", "OnFunction",
     "OnTable", "OnMemory", "BeginGlobal", "OnEventType", "OnExport", "OnStartFunction",
     "BeginElemSegment", "OnElemSegmentElemExpr", "BeginDataSegment", "OnDataSegmentData",
     "EndDataCountSection"}

\* The descriptions of the items of which what they remember matters.
Remembering == Naming \cup
    {"function name", "offset", "segment", "index", "symbol name", "event signature index",
     "block signature type", "signature of call", "function body size", "BeginFunctionBody",
     "opcode", "EndFunctionBody", "local declaration count", "OnFunctionBinaryRead", "body"}

Calls(c, f) ==
    \/ c = 0   /\ f = "EndNamesSection"
    \/ c = Sub /\ f \in Naming \cup {"OnFunctionNamesCount", "OnLocalNameLocalCount"}
    \/ c = 1   /\ f \in {"OnFuncType", "OnStructType", "OnArrayType"}
    \/ c = 2   /\ f \in Importing
    \/ c = 3   /\ f = "OnFunction"
    \/ c = 4   /\ f = "OnTable"
    \/ c = 5   /\ f = "OnMemory"
    \/ c = 6   /\ f \in Initializing \cup {"BeginGlobal"}
    \/ c = 7   /\ f = "OnExport"
    \/ c = 8   /\ f = "OnStartFunction"
    \/ c = 9   /\ f \in Initializing \cup {"BeginElemSegment", "OnElemSegmentElemExpr"}
    \/ c = 10  /\ f \notin EntryCalls
    \/ c = Inner /\ f \notin EntryCalls \cup Remembering
    \/ c = 11  /\ f \in Initializing \cup {"BeginDataSegment", "OnDataSegmentData"}
    \/ c = 12  /\ f = "EndDataCountSection"
    \/ c = 13  /\ f = "OnEventType"

\* The reads that lead to something: the primitive and the description.
TableReads(r, d)  == \/ r = "Type" /\ d = "table elem type"
                     \/ r = "U32" /\ d = "table flags"
MemoryReads(r, d) == r = "U32" /\ d = "memory flags"
GlobalReads(r, d) == \/ r = "Type" /\ d = "global type"
                     \/ r = "U8" /\ d = "global mutability"
EventReads(r, d)  == \/ r = "U32" /\ d = "event attribute"
                     \/ r = "Index" /\ d = "event signature index"
InitReads(r, d)   == r = "Opcode" /\ d \in {"init opcode", "init end"}

CustomReads(r, d) ==
    \/ r = "Count"  /\ d = "relocation count"
    \/ r = "Offset" /\ d \in {"name subsection size", "linking subsection size"}
    \/ r = "U32"    /\ d \in {"name type", "relocation type", "needed_dynlibs", "version",
                              "linking type"}
SubReads(r, d) ==
    \/ r = "Str"   /\ d \in {"function name", "local name", "symbol name", "data symbol name"}
    \/ r = "Count" /\ d \in {"name count", "function count", "local count"}
    \/ r = "Index" /\ d \in {"function index", "locals function index", "named index"}
    \/ r = "U32"   /\ d \in {"segment info count", "init function count", "comdat count",
                             "entry count", "sym count", "sym type", "sym flags", "index",
                             "segment", "offset"}
TypeReads(r, d) ==
    \/ r = "Count" /\ d \in {"type count", "function param count", "function result count",
                             "field count"}
    \/ r = "Type"  /\ d \in {"type form", "value type", "field type"}
    \/ r = "U8"    /\ d = "field mutability"
ImportReads(r, d) ==
    \/ r = "Count" /\ d = "import count"
    \/ r = "U8"    /\ d = "import kind"
    \/ r = "Index" /\ d = "import signature index"
    \/ TableReads(r, d) \/ MemoryReads(r, d) \/ GlobalReads(r, d) \/ EventReads(r, d)
FunctionReads(r, d) ==
    \/ r = "Count" /\ d = "function signature count"
    \/ r = "Index" /\ d = "signature index"
ExportReads(r, d) ==
    \/ r = "Count"        /\ d = "export count"
    \/ r = "ExternalKind" /\ d = "export kind"
ElemReads(r, d) ==
    \/ r = "Count"        /\ d \in {"elem segment count", "elem count"}
    \/ r = "U32"          /\ d = "elem segment flags"
    \/ r = "Type"         /\ d = "elem expr type"
    \/ r = "ExternalKind" /\ d = "elem kind"
    \/ r = "Opcode"       /\ d \in {"elem expr opcode", "elem expr end"}
    \/ r = "Index"        /\ d = "elem expr func index"
    \/ InitReads(r, d)
CodeReads(r, d) ==
    \/ r = "Count"  /\ d \in {"function body count", "local declaration count",
                              "num result types", "br_table target count"}
    \/ r = "U32"    /\ d = "function body size"
    \/ r = "Index"  /\ d \in {"local type count", "signature of call"}
    \/ r = "Type"   /\ d \in {"local type", "block signature type"}
    \/ r = "Opcode" /\ d = "opcode"
    \/ r = "U8"     /\ d = "reserved"
InnerReads(r, d) ==
    \/ r = "Count" /\ d \in {"num result types", "br_table target count"}
    \/ r = "Index" /\ d \in {"local type count", "signature of call"}
    \/ r = "Type"  /\ d \in {"local type", "block signature type"}
    \/ r = "U8"    /\ d = "reserved"
DataReads(r, d) ==
    \/ r = "Count" /\ d = "data segment count"
    \/ r = "U32"   /\ d = "data segment flags"
    \/ r = "Bytes" /\ d = "data segment data"
    \/ InitReads(r, d)

TableSectionReads(r, d)  == (r = "Count" /\ d = "table count") \/ TableReads(r, d)
MemorySectionReads(r, d) == (r = "Count" /\ d = "memory count") \/ MemoryReads(r, d)
GlobalSectionReads(r, d) == \/ r = "Count" /\ d = "global count"
                            \/ GlobalReads(r, d) \/ InitReads(r, d)
EventSectionReads(r, d)  == (r = "Count" /\ d = "event count") \/ EventReads(r, d)
StartReads(r, d)         == r = "Index" /\ d = "start function index"
DataCountReads(r, d)     == r = "Index" /\ d = "data count"

Reads(c, r, d) ==
    \/ c = 0   /\ CustomReads(r, d)
    \/ c = Sub /\ SubReads(r, d)
    \/ c = 1   /\ TypeReads(r, d)
    \/ c = 2   /\ ImportReads(r, d)
    \/ c = 3   /\ FunctionReads(r, d)
    \/ c = 4   /\ TableSectionReads(r, d)
    \/ c = 5   /\ MemorySectionReads(r, d)
    \/ c = 6   /\ GlobalSectionReads(r, d)
    \/ c = 7   /\ ExportReads(r, d)
    \/ c = 8   /\ StartReads(r, d)
    \/ c = 9   /\ ElemReads(r, d)
    \/ c = 10  /\ CodeReads(r, d)
    \/ c = Inner /\ InnerReads(r, d)
    \/ c = 11  /\ DataReads(r, d)
    \/ c = 12  /\ DataCountReads(r, d)
    \/ c = 13  /\ EventSectionReads(r, d)

Loops(c, d) ==
    \/ c = 0   /\ d \in {"names", "linking"}
    \/ c = Sub /\ d \in {"function names", "local functions", "local names"}
    \/ c = 6   /\ d = "global"
    \/ c = 10  /\ d = "body"

\* What an item remembers.
Remembers(c, d, x) ==
    /\ d \in Naming \cup {"offset"} => x.name \in Bytes
    /\ d \in {"OnFunctionName", "OnFunctionSymbol", "symbol name"} => x.index \in Nat
    /\ d = "function name" => x \in Nat
    /\ d = "segment" => x \in Bytes
    /\ d \in {"index", "symbol name"} => x.kind \in {0, 2, 4}
    /\ d = "event signature index" => Calls(c, x) /\ x \in {"OnImportEvent", "OnEventType"}
    /\ d = "block signature type" => x \in DOMAIN Opened
    /\ d = "signature of call" => x \in {"OnCallIndirectExpr", "OnReturnCallIndirectExpr"}
    /\ d \in {"function body size", "BeginFunctionBody", "opcode", "EndFunctionBody"} => x \in Nat
    /\ d \in {"local declaration count", "OnFunctionBinaryRead"} => x.index \in Nat /\ x.end \in Nat
    /\ d = "body" => x.end \in Nat

\* An item of section c, where what is left is skipped up to end.
Fits(c, end, i) ==
    \/ i.r \in {"error", "report"}
    \/ i.r \in Primitives /\ i.d = "any"
    \/ i.r = "skip" /\ c \in {0, Sub} /\ i.x = end
    \/ /\ \/ i.r \in Primitives /\ Reads(c, i.r, i.d)
          \/ i.r = "call" /\ Calls(c, i.d)
          \/ i.r = "loop" /\ Loops(c, i.d)
       /\ Remembers(c, i.d, i.x)

\* A list of such items.
Listed(c, end, s) == \E S : s \in Seq(S) /\ \A i \in S : Fits(c, end, i)

\* A list of items is a sequence.
LEMMA ListedIsSeq == ASSUME NEW c, NEW end, NEW s, Listed(c, end, s) PROVE IsSeq(s)
  BY DEF Listed, IsSeq

\* A sequence over a set of fitting items is a list of them.
LEMMA ListedOf ==
    ASSUME NEW c, NEW end, NEW S, NEW s \in Seq(S), \A i \in S : Fits(c, end, i)
    PROVE  Listed(c, end, s)
  BY Zenon DEF Listed

\* A handler with nothing left to do.
LEMMA ListedNone == ASSUME NEW c, NEW end PROVE Listed(c, end, <<>>)
<1> DEFINE S == {}
<1>1. <<>> \in Seq(S)  BY EmptySeq
<1>2. \A e \in S : Fits(c, end, e)  OBVIOUS
<1> HIDE DEF S
<1> QED BY <1>1, <1>2, ListedOf

\* One item.
LEMMA ListedOne ==
    ASSUME NEW c, NEW end, NEW i, Fits(c, end, i)
    PROVE  Listed(c, end, <<i>>)
<1> DEFINE S == {i}
<1>1. <<i>> \in Seq(S)  OBVIOUS
<1>2. \A e \in S : Fits(c, end, e)  OBVIOUS
<1> HIDE DEF S
<1> QED BY <1>1, <1>2, ListedOf

\* What follows from a read, then what was left.
LEMMA ListedConcat ==
    ASSUME NEW c, NEW end, NEW s, NEW t, Listed(c, end, s), Listed(c, end, t)
    PROVE  Listed(c, end, s \o t)
<1>1. PICK S : s \in Seq(S) /\ \A i \in S : Fits(c, end, i)  BY DEF Listed
<1>2. PICK T : t \in Seq(T) /\ \A i \in T : Fits(c, end, i)  BY DEF Listed
<1>3. s \in Seq(S \cup T) /\ t \in Seq(S \cup T)  BY <1>1, <1>2, SeqMonotonic
<1>4. s \o t \in Seq(S \cup T)  BY <1>3, ConcatProperties
<1>5. \A i \in S \cup T : Fits(c, end, i)  BY <1>1, <1>2
<1> QED BY <1>4, <1>5 DEF Listed

\* Two items.
LEMMA ListedTwo ==
    ASSUME NEW c, NEW end, NEW i, NEW j, Fits(c, end, i), Fits(c, end, j)
    PROVE  Listed(c, end, <<i, j>>)
<1> DEFINE S == {i, j}
<1>1. <<i, j>> \in Seq(S)  OBVIOUS
<1>2. \A e \in S : Fits(c, end, e)  OBVIOUS
<1> HIDE DEF S
<1> QED BY <1>1, <1>2, ListedOf

\* Three items.
LEMMA ListedThree ==
    ASSUME NEW c, NEW end, NEW i, NEW j, NEW k,
           Fits(c, end, i), Fits(c, end, j), Fits(c, end, k)
    PROVE  Listed(c, end, <<i, j, k>>)
<1> DEFINE S == {i, j, k}
<1>1. <<i, j, k>> \in Seq(S)  OBVIOUS
<1>2. \A e \in S : Fits(c, end, e)  OBVIOUS
<1> HIDE DEF S
<1> QED BY <1>1, <1>2, ListedOf

\* The first item of a list, and what is behind it.
LEMMA ListedHeadTail ==
    ASSUME NEW c, NEW end, NEW s, Listed(c, end, s), s # <<>>
    PROVE  Fits(c, end, Head(s)) /\ Listed(c, end, Tail(s))
<1>1. PICK S : s \in Seq(S) /\ \A i \in S : Fits(c, end, i)  BY DEF Listed
<1>2. Head(s) \in S /\ Tail(s) \in Seq(S)  BY <1>1, HeadTailProperties
<1> QED BY <1>1, <1>2 DEF Listed

\* CHECK_RESULT and ERROR_UNLESS: a failure or nothing.
LEMMA ListedRequire == ASSUME NEW c, NEW end, NEW P PROVE Listed(c, end, Require(P))
<1>1. Listed(c, end, <<Fail>>)  BY ListedOne DEF Fits, Fail, R
<1> QED BY <1>1, ListedNone DEF Require

\* A conditional part of a handler.
LEMMA ListedWhen ==
    ASSUME NEW c, NEW end, NEW P, NEW s, Listed(c, end, s)
    PROVE  Listed(c, end, When(P, s))
  BY ListedNone DEF When

\* A counted loop of a handler.
LEMMA ListedTimes ==
    ASSUME NEW c, NEW end, NEW s, Listed(c, end, s), NEW n \in Nat
    PROVE  Listed(c, end, Times(n, s))
<1>1. PICK S : s \in Seq(S) /\ \A i \in S : Fits(c, end, i)  BY DEF Listed
<1>2. PICK m \in Nat : m = Len(s)  BY <1>1, LenProperties
<1>3. n * m \in Nat  OBVIOUS
<1>4. PICK l \in Nat : l = n * m  BY <1>3
<1>5. \A k \in 1 .. l : s[1 + ((k - 1) % Len(s))] \in S
  <2> TAKE k \in 1 .. l
  <2>1. m # 0  BY <1>4
  <2>2. 1 + ((k - 1) % m) \in 1 .. m  BY <2>1
  <2> QED BY <1>1, <1>2, <2>2, ElementOfSeq
<1>6. [k \in 1 .. l |-> s[1 + ((k - 1) % Len(s))]] \in Seq(S)  BY <1>5, IsASeq
<1>7. Times(n, s) \in Seq(S)  BY <1>2, <1>4, <1>6 DEF Times
<1> QED BY <1>1, <1>7 DEF Listed

\* An item of a list, from what makes it fit.
LEMMA FitsRead ==
    ASSUME NEW c, NEW end, NEW r \in Primitives, NEW d, NEW x,
           d = "any" \/ (Reads(c, r, d) /\ Remembers(c, d, x))
    PROVE  Fits(c, end, R(r, d, x))
  BY DEF Fits, R

\* A read the section has, that remembers nothing.
LEMMA FitsPlain ==
    ASSUME NEW c, NEW end, NEW r \in Primitives, NEW d, NEW x,
           Reads(c, r, d), d \notin Remembering
    PROVE  Fits(c, end, R(r, d, x))
<1>1. Remembers(c, d, x)  BY DEF Remembers, Remembering, Naming
<1> QED BY <1>1, FitsRead

\* A read whose value is not used fits everywhere.
LEMMA FitsUnused == ASSUME NEW c, NEW end, NEW r \in Primitives PROVE Fits(c, end, Unused(r))
  BY DEF Fits, R, Unused

\* A callback of the section.
LEMMA FitsCall ==
    ASSUME NEW c, NEW end, NEW f, NEW x, Calls(c, f), Remembers(c, f, x)
    PROVE  Fits(c, end, Call(f, x))
  BY DEF Fits, R, Call

\* A loop of the section.
LEMMA FitsLoop ==
    ASSUME NEW c, NEW end, NEW d, NEW x, Loops(c, d), Remembers(c, d, x)
    PROVE  Fits(c, end, Loop(d, x))
  BY DEF Fits, R, Loop

\* A failure fits everywhere.
LEMMA FitsFail == ASSUME NEW c, NEW end PROVE Fits(c, end, Fail)
  BY DEF Fits, R, Fail

\* What an item that leads to something is.
LEMMA ReadFits ==
    ASSUME NEW c, NEW end, NEW i, Fits(c, end, i), i.r \in Primitives, i.d # "any"
    PROVE  Reads(c, i.r, i.d) /\ Remembers(c, i.d, i.x)
  BY DEF Fits, Primitives

\* The reads of each section.
LEMMA SectionReads ==
    ASSUME NEW r, NEW d
    PROVE  /\ Reads(0, r, d) => CustomReads(r, d)
           /\ Reads(Sub, r, d) => SubReads(r, d)
           /\ Reads(1, r, d) => TypeReads(r, d)
           /\ Reads(2, r, d) => ImportReads(r, d)
           /\ Reads(3, r, d) => FunctionReads(r, d)
           /\ Reads(4, r, d) => TableSectionReads(r, d)
           /\ Reads(5, r, d) => MemorySectionReads(r, d)
           /\ Reads(6, r, d) => GlobalSectionReads(r, d)
           /\ Reads(7, r, d) => ExportReads(r, d)
           /\ Reads(8, r, d) => StartReads(r, d)
           /\ Reads(9, r, d) => ElemReads(r, d)
           /\ Reads(10, r, d) => CodeReads(r, d)
           /\ Reads(Inner, r, d) => InnerReads(r, d)
           /\ Reads(11, r, d) => DataReads(r, d)
           /\ Reads(12, r, d) => DataCountReads(r, d)
           /\ Reads(13, r, d) => EventSectionReads(r, d)
  BY DEF Reads, Sub, Inner

\* A value read for an item.
Yields(i, v) == /\ i.r \in NatPrimitives => v \in Nat
                /\ i.r \in SeqPrimitives => v \in Bytes

\* Item i of section c has been read, and yielded v.
ReadOf(c, end, i, v) ==
    Fits(c, end, i) /\ i.r \in Primitives /\ i.d # "any" /\ Yields(i, v)

\* ReadTypeSection leaves items of the type section.
LEMMA ListedTypes ==
    ASSUME NEW end, NEW i, NEW v, ReadOf(1, end, i, v)
    PROVE  Listed(1, end, ReadTypeSection(i, v))
<1>1. TypeReads(i.r, i.d)  BY ReadFits, SectionReads DEF ReadOf
<1>2. /\ Listed(1, end, <<R("Type", "type form", 0)>>)
      /\ Listed(1, end, <<R("Count", "function param count", 0)>>)
      /\ Listed(1, end, <<R("Count", "field count", 0)>>)
      /\ Listed(1, end, <<R("Type", "value type", 0)>>)
      /\ Listed(1, end, <<R("Count", "function result count", v)>>)
      /\ Listed(1, end, <<Call("OnFuncType", i.x)>>)
      /\ Listed(1, end, <<Call("OnArrayType", 0)>>)
      /\ Listed(1, end, <<Call("OnStructType", 0)>>)
      /\ Listed(1, end, ReadField)
      /\ Listed(1, end, <<Fail>>)
  BY ListedOne, ListedTwo, FitsRead, FitsCall, FitsFail
     DEF Primitives, Reads, TypeReads, Calls, Remembers, ReadField, Naming
<1>3. CASE i.d = "type count"
  <2>1. ReadTypeSection(i, v) = Times(v, <<R("Type", "type form", 0)>>)
    BY <1>3, Zenon DEF ReadTypeSection
  <2>2. v \in Nat  BY <1>1, <1>3 DEF ReadOf, Yields, TypeReads, NatPrimitives
  <2> QED BY <1>2, <2>1, <2>2, ListedTimes
<1>4. CASE i.d = "type form"
  <2>1. ReadTypeSection(i, v) =
            CASE v = FuncForm -> <<R("Count", "function param count", 0)>>
              [] v = Struct   -> Require(Enabled("gc")) \o <<R("Count", "field count", 0)>>
              [] v = Array    -> Require(Enabled("gc")) \o ReadField
                                 \o <<Call("OnArrayType", 0)>>
              [] OTHER        -> <<Fail>>
    BY <1>4, Zenon DEF ReadTypeSection
  <2>2. FuncForm # Struct /\ FuncForm # Array /\ Struct # Array
    BY DEF FuncForm, Struct, Array
  <2>3. \/ ReadTypeSection(i, v) = <<R("Count", "function param count", 0)>>
        \/ ReadTypeSection(i, v) = Require(Enabled("gc")) \o <<R("Count", "field count", 0)>>
        \/ ReadTypeSection(i, v) = Require(Enabled("gc")) \o ReadField
                                   \o <<Call("OnArrayType", 0)>>
        \/ ReadTypeSection(i, v) = <<Fail>>
    BY <2>1, <2>2, Zenon
  <2> QED BY <1>2, <2>3, ListedRequire, ListedConcat
<1>5. CASE i.d = "function param count"
  <2>1. ReadTypeSection(i, v) = Times(v, <<R("Type", "value type", 0)>>)
                                \o <<R("Count", "function result count", v)>>
    BY <1>5, Zenon DEF ReadTypeSection
  <2>2. v \in Nat  BY <1>1, <1>5 DEF ReadOf, Yields, TypeReads, NatPrimitives
  <2> QED BY <1>2, <2>1, <2>2, ListedTimes, ListedConcat
<1>6. CASE i.d = "function result count"
  <2>1. ReadTypeSection(i, v) = Times(v, <<R("Type", "value type", 0)>>)
                                \o <<Call("OnFuncType", i.x)>>
    BY <1>6, Zenon DEF ReadTypeSection
  <2>2. v \in Nat  BY <1>1, <1>6 DEF ReadOf, Yields, TypeReads, NatPrimitives
  <2> QED BY <1>2, <2>1, <2>2, ListedTimes, ListedConcat
<1>7. CASE i.d = "field count"
  <2>1. ReadTypeSection(i, v) = Times(v, ReadField) \o <<Call("OnStructType", 0)>>
    BY <1>7, Zenon DEF ReadTypeSection
  <2>2. v \in Nat  BY <1>1, <1>7 DEF ReadOf, Yields, TypeReads, NatPrimitives
  <2> QED BY <1>2, <2>1, <2>2, ListedTimes, ListedConcat
<1>8. CASE i.d \in {"value type", "field type", "field mutability"}
  <2>1. \E P : ReadTypeSection(i, v) = Require(P)
    <3>1. i.d \in {"value type", "field type"} =>
              ReadTypeSection(i, v) = Require(IsConcreteType(v))
      BY Zenon DEF ReadTypeSection
    <3>2. i.d = "field mutability" => ReadTypeSection(i, v) = Require(v <= 1)
      BY Zenon DEF ReadTypeSection
    <3> QED BY <1>8, <3>1, <3>2
  <2> QED BY <2>1, ListedRequire
<1>9. i.d \in {"type count", "type form", "function param count", "function result count",
              "field count", "value type", "field type", "field mutability"}
  BY <1>1 DEF TypeReads
<1> QED BY <1>3, <1>4, <1>5, <1>6, <1>7, <1>8, <1>9

\* The initializers, in the sections of globals, elements and data.
LEMMA ListedInitExpr ==
    ASSUME NEW c \in {6, 9, 11}, NEW end, NEW op, NEW require_i32
    PROVE  /\ Listed(c, end, ReadInitExpr(require_i32))
           /\ Listed(c, end, InitExpr(op, require_i32))
<1> DEFINE Value(r) == <<Unused(r), Call("OnInitExpr", 0)>>
           first == CASE op = I32Const             -> Value("S32")
                      [] op = I64Const             -> Value("S64")
                      [] op = F32Const             -> Value("F32")
                      [] op = F64Const             -> Value("F64")
                      [] op = V128Const            -> Value("V128")
                      [] op = RefNull              -> <<Call("OnInitExpr", 0)>>
                      [] op \in {GlobalGet, RefFunc} -> Value("Index")
                      [] OTHER                     -> <<Fail>>
           must == require_i32 => op \in {I32Const, GlobalGet}
<1>1. Fits(c, end, Call("OnInitExpr", 0))
  BY FitsCall DEF Calls, Remembers, Naming, Initializing
<1>2. \A r \in Primitives : Listed(c, end, Value(r))
  BY <1>1, FitsUnused, ListedTwo
<1>3. Listed(c, end, <<Call("OnInitExpr", 0)>>) /\ Listed(c, end, <<Fail>>)
  BY <1>1, ListedOne, FitsFail
<1>4. Listed(c, end, <<R("Opcode", "init end", 0)>>) /\ Listed(c, end, ReadInitExpr(require_i32))
  BY ListedOne, FitsRead DEF Primitives, Reads, InitReads, GlobalSectionReads, ElemReads, DataReads,
                               Remembers, Naming, ReadInitExpr
<1>5. Listed(c, end, first)
  <2>1. /\ Listed(c, end, Value("S32")) /\ Listed(c, end, Value("S64"))
        /\ Listed(c, end, Value("F32")) /\ Listed(c, end, Value("F64"))
        /\ Listed(c, end, Value("V128")) /\ Listed(c, end, Value("Index"))
    BY <1>2 DEF Primitives
  <2> HIDE DEF Value
  <2> QED BY <1>3, <2>1, Zenon
<1>6. InitExpr(op, require_i32) =
          IF op = OpcodeEnd THEN <<>>
          ELSE first \o Require(must) \o <<R("Opcode", "init end", 0)>>
  BY Zenon DEF InitExpr
<1> HIDE DEF first, must
<1> QED BY <1>4, <1>5, <1>6, ListedNone, ListedRequire, ListedConcat

SharedNames == {"table elem type", "table flags", "memory flags", "global type",
                "global mutability", "event attribute", "event signature index",
                "init opcode", "init end"}

\* ReadTable, ReadMemory, ReadGlobalHeader, ReadEventType and ReadInitExpr leave items of
\* the section they are called from.
LEMMA ListedShared ==
    ASSUME NEW c \in {2, 4, 5, 6, 9, 11, 13}, NEW end, NEW i, NEW v,
           ReadOf(c, end, i, v), i.d \in SharedNames
    PROVE  Listed(c, end, ReadShared(i, v))
<1>1. Reads(c, i.r, i.d) /\ Remembers(c, i.d, i.x)  BY ReadFits DEF ReadOf
<1>2. Listed(c, end, <<Unused("U32")>>)
  BY ListedOne, FitsUnused DEF Primitives
<1>3. CASE i.d \in {"table elem type", "global type", "global mutability", "event attribute",
                    "init end"}
  <2>1. \E P : ReadShared(i, v) = Require(P)
    <3>1. i.d = "table elem type" => ReadShared(i, v) = Require(v \in RefTypes)
      BY Zenon DEF ReadShared
    <3>2. i.d = "global type" => ReadShared(i, v) = Require(IsConcreteType(v))
      BY Zenon DEF ReadShared
    <3>3. i.d = "global mutability" => ReadShared(i, v) = Require(v <= 1)
      BY Zenon DEF ReadShared
    <3>4. i.d = "event attribute" => ReadShared(i, v) = Require(v = 0)
      BY Zenon DEF ReadShared
    <3>5. i.d = "init end" => ReadShared(i, v) = Require(v = OpcodeEnd)
      BY Zenon DEF ReadShared
    <3> QED BY <1>3, <3>1, <3>2, <3>3, <3>4, <3>5, Zenon
  <2> QED BY <2>1, ListedRequire
<1>4. CASE i.d \in {"table flags", "memory flags"}
  <2>1. \/ ReadShared(i, v) = <<Unused("U32")>> \o Require(~IsShared(v))
                              \o When(HasMax(v), <<Unused("U32")>>)
        \/ ReadShared(i, v) = <<Unused("U32")>> \o When(HasMax(v), <<Unused("U32")>>)
    <3>1. i.d = "table flags" =>
              ReadShared(i, v) = <<Unused("U32")>> \o Require(~IsShared(v))
                                 \o When(HasMax(v), <<Unused("U32")>>)
      BY Zenon DEF ReadShared
    <3>2. i.d = "memory flags" =>
              ReadShared(i, v) = <<Unused("U32")>> \o When(HasMax(v), <<Unused("U32")>>)
      BY Zenon DEF ReadShared
    <3> QED BY <1>4, <3>1, <3>2, Zenon
  <2>2. Listed(c, end, When(HasMax(v), <<Unused("U32")>>))  BY <1>2, ListedWhen
  <2>3. Listed(c, end, Require(~IsShared(v)))  BY ListedRequire
  <2> QED BY <1>2, <2>1, <2>2, <2>3, ListedConcat
<1>5. CASE i.d = "event signature index"
  <2>1. ReadShared(i, v) = <<Call(i.x, v)>>  BY <1>5, Zenon DEF ReadShared
  <2>2. Calls(c, i.x)  BY <1>1, <1>5 DEF Remembers
  <2>3. i.x \in {"OnImportEvent", "OnEventType"}
    BY <1>1, <1>5 DEF Remembers
  <2>4. Remembers(c, i.x, v)
    BY <2>3 DEF Remembers, Naming
  <2> QED BY <2>1, <2>2, <2>4, FitsCall, ListedOne
<1>6. CASE i.d = "init opcode"
  <2>1. ReadShared(i, v) = Require(IsEnabled(v, opt.features)) \o InitExpr(v, i.x)
    BY <1>6, Zenon DEF ReadShared
  <2>2. c \in {6, 9, 11}
    BY <1>1, <1>6, SectionReads
       DEF ImportReads, TableReads, MemoryReads, GlobalReads, EventReads,
           TableSectionReads, MemorySectionReads, EventSectionReads
  <2> QED BY <2>1, <2>2, ListedInitExpr, ListedRequire, ListedConcat
<1> QED BY <1>3, <1>4, <1>5, <1>6 DEF SharedNames

\* A function on 1 .. n as a list.
LEMMA ListedMap ==
    ASSUME NEW c, NEW end, NEW n \in Nat, NEW s, s = [k \in 1 .. n |-> s[k]],
           \A k \in 1 .. n : Fits(c, end, s[k])
    PROVE  Listed(c, end, s)
<1> DEFINE S == {s[k] : k \in 1 .. n}
<1>1. s \in [1 .. n -> S]  OBVIOUS
<1>2. s \in Seq(S)  BY <1>1, SeqDef
<1>3. \A i \in S : Fits(c, end, i)  OBVIOUS
<1> HIDE DEF S
<1> QED BY <1>2, <1>3, ListedOf

\* ReadImportSection leaves items of the import section.
LEMMA ListedImports ==
    ASSUME NEW end, NEW i, NEW v, ReadOf(2, end, i, v)
    PROVE  Listed(2, end, ReadImportSection(i, v))
<1>1. ImportReads(i.r, i.d)  BY ReadFits, SectionReads DEF ReadOf
<1>2. /\ Fits(2, end, Unused("Str"))
      /\ Fits(2, end, R("U8", "import kind", 0))
      /\ Fits(2, end, R("Index", "import signature index", 0))
  BY FitsRead, FitsUnused DEF Primitives, Reads, ImportReads, Remembers, Naming
<1>11. /\ Fits(2, end, R("Type", "table elem type", 0))
       /\ Fits(2, end, R("U32", "table flags", 0))
       /\ Fits(2, end, R("U32", "memory flags", 0))
  <2>1. /\ Reads(2, "Type", "table elem type") /\ Reads(2, "U32", "table flags")
        /\ Reads(2, "U32", "memory flags")
    BY DEF Reads, ImportReads, TableReads, MemoryReads
  <2> QED BY <2>1, FitsPlain DEF Primitives, Remembering, Naming
<1>12. /\ Fits(2, end, R("Type", "global type", 0))
       /\ Fits(2, end, R("U8", "global mutability", 0))
  <2>1. Reads(2, "Type", "global type") /\ Reads(2, "U8", "global mutability")
    BY DEF Reads, ImportReads, GlobalReads
  <2> QED BY <2>1, FitsPlain DEF Primitives, Remembering, Naming
<1>13. Fits(2, end, R("U32", "event attribute", 0))
  <2>1. Reads(2, "U32", "event attribute")  BY DEF Reads, ImportReads, EventReads
  <2> QED BY <2>1, FitsPlain DEF Primitives, Remembering, Naming
<1>14. Fits(2, end, R("Index", "event signature index", "OnImportEvent"))
  <2>1. Reads(2, "Index", "event signature index")  BY DEF Reads, ImportReads, EventReads
  <2>2. Remembers(2, "event signature index", "OnImportEvent")
    BY DEF Remembers, Calls, Importing, Naming
  <2> QED BY <2>1, <2>2, FitsRead DEF Primitives
<1>3. \A f \in Importing : \A x : Fits(2, end, Call(f, x))
  BY FitsCall DEF Calls, Remembers, Importing, Naming
<1>4. /\ Listed(2, end, <<Unused("Str"), Unused("Str"), R("U8", "import kind", 0)>>)
      /\ Listed(2, end, <<R("Index", "import signature index", 0)>>)
      /\ Listed(2, end, ReadTable) /\ Listed(2, end, ReadMemory)
      /\ Listed(2, end, ReadGlobalHeader) /\ Listed(2, end, ReadEventType("OnImportEvent"))
  BY <1>2, <1>11, <1>12, <1>13, <1>14, ListedOne, ListedTwo, ListedThree
     DEF ReadTable, ReadMemory, ReadGlobalHeader, ReadEventType
<1>5. \A f \in Importing : \A x : Listed(2, end, <<Call(f, x)>>)
  BY <1>3, ListedOne
<1>6. CASE i.d = "import count"
  <2>1. ReadImportSection(i, v) =
            Times(v, <<Unused("Str"), Unused("Str"), R("U8", "import kind", 0)>>)
    BY <1>6, Zenon DEF ReadImportSection
  <2>2. v \in Nat
    BY <1>1, <1>6 DEF ReadOf, Yields, NatPrimitives, ImportReads, TableReads, MemoryReads,
                      GlobalReads, EventReads
  <2> QED BY <1>4, <2>1, <2>2, ListedTimes
<1>7. CASE i.d = "import kind"
  <2>1. ReadImportSection(i, v) =
            CASE v = 0 -> <<R("Index", "import signature index", 0)>>
              [] v = 1 -> ReadTable \o <<Call("OnImportTable", 0)>>
              [] v = 2 -> ReadMemory \o <<Call("OnImportMemory", 0)>>
              [] v = 3 -> ReadGlobalHeader \o <<Call("OnImportGlobal", 0)>>
              [] v = 4 -> Require(Enabled("exceptions"))
                          \o ReadEventType("OnImportEvent")
              [] OTHER -> <<>>
    BY <1>7, Zenon DEF ReadImportSection
  <2>2. /\ Listed(2, end, ReadTable \o <<Call("OnImportTable", 0)>>)
        /\ Listed(2, end, ReadMemory \o <<Call("OnImportMemory", 0)>>)
        /\ Listed(2, end, ReadGlobalHeader \o <<Call("OnImportGlobal", 0)>>)
        /\ Listed(2, end, Require(Enabled("exceptions")) \o ReadEventType("OnImportEvent"))
        /\ Listed(2, end, <<>>)
    BY <1>4, <1>5, ListedConcat, ListedRequire, ListedNone DEF Importing
  <2> QED BY <1>4, <2>1, <2>2, Zenon
<1>8. CASE i.d = "import signature index"
  <2>1. ReadImportSection(i, v) = <<Call("OnImportFunc", v)>>
    BY <1>8, Zenon DEF ReadImportSection
  <2> QED BY <1>5, <2>1 DEF Importing
<1>9. CASE i.d \in SharedNames
  <2>1. i.d # "import count" /\ i.d # "import kind" /\ i.d # "import signature index"
    BY <1>9 DEF SharedNames
  <2>2. ReadImportSection(i, v) = ReadShared(i, v)
    BY <2>1, Zenon DEF ReadImportSection
  <2> QED BY <1>9, <2>2, ListedShared
<1> QED BY <1>1, <1>6, <1>7, <1>8, <1>9
        DEF ImportReads, TableReads, MemoryReads, GlobalReads, EventReads, SharedNames

\* ReadFunctionSection leaves items of the function section.
LEMMA ListedFunctions ==
    ASSUME NEW end, NEW i, NEW v, ReadOf(3, end, i, v)
    PROVE  Listed(3, end, ReadFunctionSection(i, v))
<1>1. FunctionReads(i.r, i.d)  BY ReadFits, SectionReads DEF ReadOf
<1>2. CASE i.d = "function signature count"
  <2>1. ReadFunctionSection(i, v) = Times(v, <<R("Index", "signature index", 0)>>)
    BY <1>2, Zenon DEF ReadFunctionSection
  <2>2. v \in Nat  BY <1>1, <1>2 DEF ReadOf, Yields, NatPrimitives, FunctionReads
  <2>3. Listed(3, end, <<R("Index", "signature index", 0)>>)
    BY ListedOne, FitsRead DEF Primitives, Reads, FunctionReads, Remembers, Naming
  <2> QED BY <2>1, <2>2, <2>3, ListedTimes
<1>3. CASE i.d = "signature index"
  <2>1. ReadFunctionSection(i, v) = <<Call("OnFunction", v)>>
    BY <1>3, Zenon DEF ReadFunctionSection
  <2> QED BY <2>1, ListedOne, FitsCall DEF Calls, Remembers, Naming
<1> QED BY <1>1, <1>2, <1>3 DEF FunctionReads

\* ReadTableSection leaves items of the table section.
LEMMA ListedTables ==
    ASSUME NEW end, NEW i, NEW v, ReadOf(4, end, i, v)
    PROVE  Listed(4, end, ReadTableSection(i, v))
<1>1. TableSectionReads(i.r, i.d)  BY ReadFits, SectionReads DEF ReadOf
<1>2. CASE i.d = "table count"
  <2>1. ReadTableSection(i, v) = Times(v, ReadTable \o <<Call("OnTable", 0)>>)
    BY <1>2, Zenon DEF ReadTableSection
  <2>2. v \in Nat
    BY <1>1, <1>2 DEF ReadOf, Yields, NatPrimitives, TableSectionReads, TableReads
  <2>3. /\ Fits(4, end, R("Type", "table elem type", 0))
        /\ Fits(4, end, R("U32", "table flags", 0))
    <3>1. Reads(4, "Type", "table elem type") /\ Reads(4, "U32", "table flags")
      BY DEF Reads, TableSectionReads, TableReads
    <3> QED BY <3>1, FitsPlain DEF Primitives, Remembering, Naming
  <2>5. Listed(4, end, ReadTable)  BY <2>3, ListedTwo DEF ReadTable
  <2>4. Listed(4, end, <<Call("OnTable", 0)>>)
    BY ListedOne, FitsCall DEF Calls, Remembers, Naming
  <2> QED BY <2>1, <2>2, <2>5, <2>4, ListedTimes, ListedConcat
<1>3. CASE i.d \in SharedNames
  <2>1. i.d # "table count"  BY <1>3 DEF SharedNames
  <2>2. ReadTableSection(i, v) = ReadShared(i, v)
    BY <2>1, Zenon DEF ReadTableSection
  <2> QED BY <1>3, <2>2, ListedShared
<1> QED BY <1>1, <1>2, <1>3 DEF TableSectionReads, TableReads, SharedNames

\* ReadMemorySection leaves items of the memory section.
LEMMA ListedMemories ==
    ASSUME NEW end, NEW i, NEW v, ReadOf(5, end, i, v)
    PROVE  Listed(5, end, ReadMemorySection(i, v))
<1>1. MemorySectionReads(i.r, i.d)  BY ReadFits, SectionReads DEF ReadOf
<1>2. CASE i.d = "memory count"
  <2>1. ReadMemorySection(i, v) = Times(v, ReadMemory \o <<Call("OnMemory", 0)>>)
    BY <1>2, Zenon DEF ReadMemorySection
  <2>2. v \in Nat
    BY <1>1, <1>2 DEF ReadOf, Yields, NatPrimitives, MemorySectionReads, MemoryReads
  <2>3. Listed(5, end, ReadMemory)
    BY ListedOne, FitsRead
       DEF ReadMemory, Primitives, Reads, MemorySectionReads, MemoryReads, Remembers, Naming
  <2>4. Listed(5, end, <<Call("OnMemory", 0)>>)
    BY ListedOne, FitsCall DEF Calls, Remembers, Naming
  <2> QED BY <2>1, <2>2, <2>3, <2>4, ListedTimes, ListedConcat
<1>3. CASE i.d \in SharedNames
  <2>1. i.d # "memory count"  BY <1>3 DEF SharedNames
  <2>2. ReadMemorySection(i, v) = ReadShared(i, v)
    BY <2>1, Zenon DEF ReadMemorySection
  <2> QED BY <1>3, <2>2, ListedShared
<1> QED BY <1>1, <1>2, <1>3 DEF MemorySectionReads, MemoryReads, SharedNames

\* ReadEventSection leaves items of the event section.
LEMMA ListedEvents ==
    ASSUME NEW end, NEW i, NEW v, ReadOf(13, end, i, v)
    PROVE  Listed(13, end, ReadEventSection(i, v))
<1>1. EventSectionReads(i.r, i.d)  BY ReadFits, SectionReads DEF ReadOf
<1>2. CASE i.d = "event count"
  <2>1. ReadEventSection(i, v) = Times(v, ReadEventType("OnEventType"))
    BY <1>2, Zenon DEF ReadEventSection
  <2>2. v \in Nat
    BY <1>1, <1>2 DEF ReadOf, Yields, NatPrimitives, EventSectionReads, EventReads
  <2>3. Fits(13, end, R("U32", "event attribute", 0))
    <3>1. Reads(13, "U32", "event attribute")
      BY DEF Reads, EventSectionReads, EventReads
    <3> QED BY <3>1, FitsPlain DEF Primitives, Remembering, Naming
  <2>4. Fits(13, end, R("Index", "event signature index", "OnEventType"))
    <3>1. Reads(13, "Index", "event signature index")
      BY DEF Reads, EventSectionReads, EventReads
    <3>2. Remembers(13, "event signature index", "OnEventType")
      BY DEF Remembers, Calls, Naming
    <3> QED BY <3>1, <3>2, FitsRead DEF Primitives
  <2>5. Listed(13, end, ReadEventType("OnEventType"))
    BY <2>3, <2>4, ListedTwo DEF ReadEventType
  <2> QED BY <2>1, <2>2, <2>5, ListedTimes
<1>3. CASE i.d \in SharedNames
  <2>1. i.d # "event count"  BY <1>3 DEF SharedNames
  <2>2. ReadEventSection(i, v) = ReadShared(i, v)
    BY <2>1, Zenon DEF ReadEventSection
  <2> QED BY <1>3, <2>2, ListedShared
<1> QED BY <1>1, <1>2, <1>3 DEF EventSectionReads, EventReads, SharedNames

\* ReadGlobalSection leaves items of the global section.
LEMMA ListedGlobals ==
    ASSUME NEW end, NEW i, NEW v, ReadOf(6, end, i, v)
    PROVE  Listed(6, end, ReadGlobalSection(i, v))
<1>1. GlobalSectionReads(i.r, i.d)  BY ReadFits, SectionReads DEF ReadOf
<1>2. CASE i.d = "global count"
  <2> DEFINE s == [k \in 1 .. v |-> Loop("global", num.global + (k - 1))]
  <2>1. ReadGlobalSection(i, v) = s
    BY <1>2, Zenon DEF ReadGlobalSection, ForEach
  <2>2. v \in Nat
    BY <1>1, <1>2
       DEF ReadOf, Yields, NatPrimitives, GlobalSectionReads, GlobalReads, InitReads
  <2>3. \A x : Fits(6, end, Loop("global", x))
    BY FitsLoop DEF Loops, Remembers, Naming
  <2>4. \A k \in 1 .. v : Fits(6, end, s[k])  BY <2>3
  <2>5. s = [k \in 1 .. v |-> s[k]]  OBVIOUS
  <2> HIDE DEF s
  <2> QED BY <2>1, <2>2, <2>4, <2>5, ListedMap
<1>3. CASE i.d \in SharedNames
  <2>1. i.d # "global count"  BY <1>3 DEF SharedNames
  <2>2. ReadGlobalSection(i, v) = ReadShared(i, v)
    BY <2>1, Zenon DEF ReadGlobalSection
  <2> QED BY <1>3, <2>2, ListedShared
<1> QED BY <1>1, <1>2, <1>3 DEF GlobalSectionReads, GlobalReads, InitReads, SharedNames

\* ReadExportSection leaves items of the export section.
LEMMA ListedExports ==
    ASSUME NEW end, NEW i, NEW v, ReadOf(7, end, i, v)
    PROVE  Listed(7, end, ReadExportSection(i, v))
<1>1. ExportReads(i.r, i.d)  BY ReadFits, SectionReads DEF ReadOf
<1>2. CASE i.d = "export count"
  <2>1. ReadExportSection(i, v) =
            Times(v, <<Unused("Str"), R("ExternalKind", "export kind", 0)>>)
    BY <1>2, Zenon DEF ReadExportSection
  <2>2. v \in Nat  BY <1>1, <1>2 DEF ReadOf, Yields, NatPrimitives, ExportReads
  <2>3. Reads(7, "ExternalKind", "export kind")  BY DEF Reads, ExportReads
  <2>4. Listed(7, end, <<Unused("Str"), R("ExternalKind", "export kind", 0)>>)
    BY <2>3, ListedTwo, FitsPlain, FitsUnused DEF Primitives, Remembering, Naming
  <2> QED BY <2>1, <2>2, <2>4, ListedTimes
<1>3. CASE i.d = "export kind"
  <2>1. ReadExportSection(i, v) =
            <<Unused("Index")>> \o Require(v = 4 => Enabled("exceptions"))
            \o <<Call("OnExport", 0)>>
    BY <1>3, Zenon DEF ReadExportSection
  <2>2. Listed(7, end, <<Unused("Index")>>)  BY ListedOne, FitsUnused DEF Primitives
  <2>3. Listed(7, end, <<Call("OnExport", 0)>>)
    BY ListedOne, FitsCall DEF Calls, Remembers, Naming
  <2> QED BY <2>1, <2>2, <2>3, ListedRequire, ListedConcat
<1> QED BY <1>1, <1>2, <1>3 DEF ExportReads

\* ReadStartSection leaves items of the start section.
LEMMA ListedStart ==
    ASSUME NEW end, NEW i, NEW v, ReadOf(8, end, i, v)
    PROVE  Listed(8, end, ReadStartSection(i, v))
  BY ListedOne, FitsCall DEF ReadStartSection, Calls, Remembers, Naming

\* ReadDataCountSection leaves items of its section.
LEMMA ListedDataCount ==
    ASSUME NEW end, NEW i, NEW v, ReadOf(12, end, i, v)
    PROVE  Listed(12, end, ReadDataCountSection(i, v))
  BY ListedOne, FitsCall DEF ReadDataCountSection, Calls, Remembers, Naming

\* ReadElemSection leaves items of the element section.
LEMMA ListedElems ==
    ASSUME NEW end, NEW i, NEW v, ReadOf(9, end, i, v)
    PROVE  Listed(9, end, ReadElemSection(i, v))
<1>1. ElemReads(i.r, i.d)  BY ReadFits, SectionReads DEF ReadOf
<1>2. /\ Reads(9, "U32", "elem segment flags") /\ Reads(9, "Type", "elem expr type")
      /\ Reads(9, "ExternalKind", "elem kind") /\ Reads(9, "Count", "elem count")
      /\ Reads(9, "Opcode", "elem expr opcode") /\ Reads(9, "Opcode", "elem expr end")
      /\ Reads(9, "Index", "elem expr func index")
  BY DEF Reads, ElemReads
<1>3. \A x : /\ Fits(9, end, R("U32", "elem segment flags", x))
             /\ Listed(9, end, <<R("Type", "elem expr type", x)>>)
             /\ Listed(9, end, <<R("ExternalKind", "elem kind", x)>>)
             /\ Listed(9, end, <<R("Count", "elem count", x)>>)
             /\ Listed(9, end, <<R("Opcode", "elem expr opcode", x)>>)
             /\ Listed(9, end, <<R("Opcode", "elem expr end", x)>>)
             /\ Listed(9, end, <<R("Index", "elem expr func index", x)>>)
  BY <1>2, FitsPlain, ListedOne DEF Primitives, Remembering, Naming
<1>4. \A x : /\ Listed(9, end, <<Call("BeginElemSegment", x)>>)
             /\ Listed(9, end, <<Call("BeginElemSegmentInitExpr", x)>>)
             /\ Listed(9, end, <<Call("EndElemSegmentInitExpr", x)>>)
             /\ Listed(9, end, <<Call("OnElemSegmentElemExpr", x)>>)
  BY FitsCall, ListedOne DEF Calls, Initializing, Remembers, Naming
<1>5. Listed(9, end, <<Unused("Index")>>)  BY ListedOne, FitsUnused DEF Primitives
<1>6. Listed(9, end, ReadInitExpr(TRUE))  BY ListedInitExpr
<1>7. CASE i.d = "elem segment count"
  <2> DEFINE s == [k \in 1 .. v |-> R("U32", "elem segment flags", k - 1)]
  <2>1. ReadElemSection(i, v) = s  BY <1>7, Zenon DEF ReadElemSection, ForEach
  <2>2. v \in Nat
    BY <1>1, <1>7 DEF ReadOf, Yields, NatPrimitives, ElemReads, InitReads
  <2>3. \A k \in 1 .. v : Fits(9, end, s[k])  BY <1>3
  <2>4. s = [k \in 1 .. v |-> s[k]]  OBVIOUS
  <2> HIDE DEF s
  <2> QED BY <2>1, <2>2, <2>3, <2>4, ListedMap
<1>8. CASE i.d = "elem segment flags"
  <2> DEFINE init == <<Call("BeginElemSegmentInitExpr", i.x)>> \o ReadInitExpr(TRUE)
                     \o <<Call("EndElemSegmentInitExpr", i.x)>>
             kind == IF SegUseElemExprs(v) THEN <<R("Type", "elem expr type", 0)>>
                     ELSE <<R("ExternalKind", "elem kind", 0)>>
  <2>1. ReadElemSection(i, v) =
            Require(v <= SegFlagMax)
            \o When(SegExplicitIndex(v) /\ ~SegPassive(v), <<Unused("Index")>>)
            \o <<Call("BeginElemSegment", i.x)>>
            \o When(~SegPassive(v), init)
            \o When(SegPassive(v) \/ SegExplicitIndex(v), kind)
            \o <<R("Count", "elem count", [index |-> i.x, flags |-> v])>>
    BY <1>8, Zenon DEF ReadElemSection
  <2>2. Listed(9, end, init)  BY <1>4, <1>6, ListedConcat
  <2>3. Listed(9, end, kind)  BY <1>3
  <2> HIDE DEF init, kind
  <2>4. /\ Listed(9, end, Require(v <= SegFlagMax))
        /\ Listed(9, end, When(SegExplicitIndex(v) /\ ~SegPassive(v), <<Unused("Index")>>))
        /\ Listed(9, end, When(~SegPassive(v), init))
        /\ Listed(9, end, When(SegPassive(v) \/ SegExplicitIndex(v), kind))
    BY <1>5, <2>2, <2>3, ListedRequire, ListedWhen
  <2> QED BY <1>3, <1>4, <2>1, <2>4, ListedConcat
<1>9. CASE i.d \in {"elem expr type", "elem kind", "elem expr end"}
  <2>1. \E P : ReadElemSection(i, v) = Require(P)
    <3>1. i.d = "elem expr type" => ReadElemSection(i, v) = Require(v \in RefTypes)
      BY Zenon DEF ReadElemSection
    <3>2. i.d = "elem kind" => ReadElemSection(i, v) = Require(v = 0)
      BY Zenon DEF ReadElemSection
    <3>3. i.d = "elem expr end" => ReadElemSection(i, v) = Require(v = OpcodeEnd)
      BY Zenon DEF ReadElemSection
    <3> QED BY <1>9, <3>1, <3>2, <3>3, Zenon
  <2> QED BY <2>1, ListedRequire
<1>10. CASE i.d = "elem count"
  <2> DEFINE one == IF SegUseElemExprs(i.x.flags)
                    THEN R("Opcode", "elem expr opcode", i.x.index)
                    ELSE R("Index", "elem expr func index", i.x.index)
  <2>1. ReadElemSection(i, v) = Times(v, <<one>>)  BY <1>10, Zenon DEF ReadElemSection
  <2>2. v \in Nat
    BY <1>1, <1>10 DEF ReadOf, Yields, NatPrimitives, ElemReads, InitReads
  <2>3. Listed(9, end, <<one>>)  BY <1>3
  <2> HIDE DEF one
  <2> QED BY <2>1, <2>2, <2>3, ListedTimes
<1>11. CASE i.d = "elem expr opcode"
  <2> DEFINE first == CASE v = RefNull -> <<Call("OnElemSegmentElemExpr", i.x)>>
                        [] v = RefFunc -> <<R("Index", "elem expr func index", i.x)>>
                        [] OTHER       -> <<R("report", "", 0)>>
  <2>1. ReadElemSection(i, v) = first \o <<R("Opcode", "elem expr end", 0)>>
    BY <1>11, Zenon DEF ReadElemSection
  <2>2. Listed(9, end, <<R("report", "", 0)>>)  BY ListedOne DEF Fits, R
  <2>3. Listed(9, end, first)  BY <1>3, <1>4, <2>2, Zenon
  <2> HIDE DEF first
  <2> QED BY <1>3, <2>1, <2>3, ListedConcat
<1>12. CASE i.d = "elem expr func index"
  <2>1. ReadElemSection(i, v) = <<Call("OnElemSegmentElemExpr", i.x)>>
    BY <1>12, Zenon DEF ReadElemSection
  <2> QED BY <1>4, <2>1
<1>13. CASE i.d \in SharedNames
  <2>1. i.d \notin {"elem segment count", "elem segment flags", "elem expr type", "elem kind",
                    "elem count", "elem expr opcode", "elem expr func index", "elem expr end"}
    BY <1>13 DEF SharedNames
  <2>2. ReadElemSection(i, v) = ReadShared(i, v)
    BY <2>1, Zenon DEF ReadElemSection
  <2> QED BY <1>13, <2>2, ListedShared
<1> QED BY <1>1, <1>7, <1>8, <1>9, <1>10, <1>11, <1>12, <1>13
        DEF ElemReads, InitReads, SharedNames

\* ReadDataSection leaves items of the data section.
LEMMA ListedData ==
    ASSUME NEW end, NEW i, NEW v, ReadOf(11, end, i, v)
    PROVE  Listed(11, end, ReadDataSection(i, v))
<1>1. DataReads(i.r, i.d)  BY ReadFits, SectionReads DEF ReadOf
<1>2. Reads(11, "U32", "data segment flags") /\ Reads(11, "Bytes", "data segment data")
  BY DEF Reads, DataReads
<1>3. \A x : /\ Fits(11, end, R("U32", "data segment flags", x))
             /\ Listed(11, end, <<R("Bytes", "data segment data", x)>>)
  BY <1>2, FitsPlain, ListedOne DEF Primitives, Remembering, Naming
<1>4. \A x : /\ Listed(11, end, <<Call("BeginDataSegment", x)>>)
             /\ Listed(11, end, <<Call("BeginDataSegmentInitExpr", x)>>)
             /\ Listed(11, end, <<Call("EndDataSegmentInitExpr", x)>>)
             /\ Listed(11, end, <<Call("OnDataSegmentData", x)>>)
  BY FitsCall, ListedOne DEF Calls, Initializing, Remembers, Naming
<1>5. Listed(11, end, <<Unused("Index")>>)  BY ListedOne, FitsUnused DEF Primitives
<1>6. Listed(11, end, ReadInitExpr(TRUE))  BY ListedInitExpr
<1>7. CASE i.d = "data segment count"
  <2> DEFINE s == [k \in 1 .. v |-> R("U32", "data segment flags", k - 1)]
  <2>1. ReadDataSection(i, v) = Require(data_count \in {NONE, v}) \o s
    BY <1>7, Zenon DEF ReadDataSection, ForEach
  <2>2. v \in Nat
    BY <1>1, <1>7 DEF ReadOf, Yields, NatPrimitives, DataReads, InitReads
  <2>3. \A k \in 1 .. v : Fits(11, end, s[k])  BY <1>3
  <2>4. s = [k \in 1 .. v |-> s[k]]  OBVIOUS
  <2> HIDE DEF s
  <2>5. Listed(11, end, s)  BY <2>2, <2>3, <2>4, ListedMap
  <2> QED BY <2>1, <2>5, ListedRequire, ListedConcat
<1>8. CASE i.d = "data segment flags"
  <2> DEFINE init == <<Call("BeginDataSegmentInitExpr", i.x)>> \o ReadInitExpr(TRUE)
                     \o <<Call("EndDataSegmentInitExpr", i.x)>>
  <2>1. ReadDataSection(i, v) =
            Require(v <= SegFlagMax)
            \o When(SegExplicitIndex(v), <<Unused("Index")>>)
            \o <<Call("BeginDataSegment", i.x)>>
            \o When(~SegPassive(v), init)
            \o <<R("Bytes", "data segment data", i.x)>>
    BY <1>8, Zenon DEF ReadDataSection
  <2>2. Listed(11, end, init)  BY <1>4, <1>6, ListedConcat
  <2> HIDE DEF init
  <2>3. /\ Listed(11, end, Require(v <= SegFlagMax))
        /\ Listed(11, end, When(SegExplicitIndex(v), <<Unused("Index")>>))
        /\ Listed(11, end, When(~SegPassive(v), init))
    BY <1>5, <2>2, ListedRequire, ListedWhen
  <2> QED BY <1>3, <1>4, <2>1, <2>3, ListedConcat
<1>9. CASE i.d = "data segment data"
  <2>1. ReadDataSection(i, v) =
            <<Call("OnDataSegmentData", [index |-> i.x, size |-> Len(v)])>>
    BY <1>9, Zenon DEF ReadDataSection
  <2> QED BY <1>4, <2>1
<1>10. CASE i.d \in SharedNames
  <2>1. i.d \notin {"data segment count", "data segment flags", "data segment data"}
    BY <1>10 DEF SharedNames
  <2>2. ReadDataSection(i, v) = ReadShared(i, v)
    BY <2>1, Zenon DEF ReadDataSection
  <2> QED BY <1>10, <2>2, ListedShared
<1> QED BY <1>1, <1>7, <1>8, <1>9, <1>10 DEF DataReads, InitReads, SharedNames
-----------------------------------------------------------------------------
(* The handlers of function bodies and of custom sections.                    *)

\* The callbacks of the cases of the switch: they are of no other section, and what
\* they are given does not matter.
CaseCall(f) == f \notin EntryCalls \cup Remembering

CaseFits(end, c) == Listed(Inner, end, c.items)

\* What a case of the switch over opcodes is made of: callbacks and unused reads.
LEMMA CaseItems ==
    ASSUME NEW end, NEW f, CaseCall(f)
    PROVE  /\ Listed(Inner, end, <<Call(f, 0)>>)
           /\ \A ops : CaseFits(end, Case(ops, f))
           /\ \A ops, reads :
                  Listed(Inner, end, reads) => CaseFits(end, CaseReads(ops, reads, f))
<1>1. Calls(Inner, f) /\ Remembers(Inner, f, 0)
  BY DEF CaseCall, Calls, Remembers, Remembering, Naming
<1>2. Listed(Inner, end, <<Call(f, 0)>>)  BY <1>1, FitsCall, ListedOne
<1>3. ASSUME NEW ops PROVE CaseFits(end, Case(ops, f))
  BY <1>2 DEF CaseFits, Case
<1>4. ASSUME NEW ops, NEW reads, Listed(Inner, end, reads)
      PROVE  CaseFits(end, CaseReads(ops, reads, f))
  <2>1. Listed(Inner, end, reads \o <<Call(f, 0)>>)  BY <1>2, <1>4, ListedConcat
  <2>2. CaseReads(ops, reads, f).items = reads \o <<Call(f, 0)>>  BY DEF CaseReads
  <2> QED BY <2>1, <2>2 DEF CaseFits
<1> QED BY <1>2, <1>3, <1>4, Zenon

\* Reads whose value is not used, then the callback of the case.
LEMMA CaseThenItems ==
    ASSUME NEW end, NEW ops, NEW i, Fits(Inner, end, i)
    PROVE  CaseFits(end, CaseThen(ops, i))
  BY ListedOne DEF CaseFits, CaseThen

\* The operands of the cases.
LEMMA OperandItems ==
    ASSUME NEW end
    PROVE  /\ \A r \in Primitives : Listed(Inner, end, <<Unused(r)>>)
           /\ Listed(Inner, end, Index) /\ Listed(Inner, end, Index \o Index)
           /\ Listed(Inner, end, MemArg)
           /\ Listed(Inner, end, <<Reserved>>) /\ Listed(Inner, end, <<Reserved, Reserved>>)
           /\ Listed(Inner, end, <<Unused("Index"), Reserved>>)
<1>1. \A r \in Primitives : Fits(Inner, end, Unused(r))  BY FitsUnused
<1>2. Reads(Inner, "U8", "reserved")  BY DEF Reads, InnerReads
<1>3. Fits(Inner, end, Reserved)
  BY <1>2, FitsPlain DEF Reserved, Primitives, Remembering, Naming
<1>4. Listed(Inner, end, Index)  BY <1>1, ListedOne DEF Index, Primitives
<1>5. Listed(Inner, end, Index \o Index)  BY <1>4, ListedConcat
<1>6. Listed(Inner, end, MemArg)  BY <1>1, ListedTwo DEF MemArg, Primitives
<1>7. \A r \in Primitives : Listed(Inner, end, <<Unused(r)>>)  BY <1>1, ListedOne
<1>8. /\ Listed(Inner, end, <<Reserved>>) /\ Listed(Inner, end, <<Reserved, Reserved>>)
      /\ Listed(Inner, end, <<Unused("Index"), Reserved>>)
  BY <1>1, <1>3, ListedOne, ListedTwo DEF Primitives
<1> QED BY <1>4, <1>5, <1>6, <1>7, <1>8

\* The cases that read the signature of a block.
LEMMA OpensItems ==
    ASSUME NEW end, NEW op, NEW f \in DOMAIN Opened
    PROVE  CaseFits(end, Opens(op, f))
<1>1. Reads(Inner, "Type", "block signature type")  BY DEF Reads, InnerReads
<1>2. Remembers(Inner, "block signature type", f)  BY DEF Remembers, Naming
<1>3. Fits(Inner, end, R("Type", "block signature type", f))
  BY <1>1, <1>2, FitsRead DEF Primitives
<1> QED BY <1>3, CaseThenItems DEF Opens

\* The cases of the control instructions.
LEMMA ControlItems == ASSUME NEW end PROVE \A c \in ControlCases : CaseFits(end, c)
<1>1. /\ CaseCall("OnUnreachableExpr") /\ CaseCall("OnElseExpr") /\ CaseCall("OnSelectExpr")
      /\ CaseCall("OnBrExpr") /\ CaseCall("OnBrIfExpr") /\ CaseCall("OnBrTableExpr")
      /\ CaseCall("OnReturnExpr") /\ CaseCall("OnNopExpr") /\ CaseCall("OnDropExpr")
  BY DEF CaseCall, EntryCalls, Remembering, Naming, Initializing, Importing
<1>2. {"OnBlockExpr", "OnLoopExpr", "OnIfExpr"} \subseteq DOMAIN Opened  BY DEF Opened
<1>3. /\ Reads(Inner, "Count", "num result types") /\ Reads(Inner, "Count", "br_table target count")
  BY DEF Reads, InnerReads
<1>4. /\ Listed(Inner, end, <<R("Count", "num result types", 0)>>)
      /\ Listed(Inner, end, <<R("Count", "br_table target count", 0)>>)
  BY <1>3, FitsPlain, ListedOne DEF Primitives, Remembering, Naming
<1>5. \A op : /\ CaseFits(end, Opens(op, "OnBlockExpr")) /\ CaseFits(end, Opens(op, "OnLoopExpr"))
              /\ CaseFits(end, Opens(op, "OnIfExpr"))
  BY <1>2, OpensItems
<1>6. \A ops : /\ CaseFits(end, Case(ops, "OnUnreachableExpr"))
               /\ CaseFits(end, Case(ops, "OnElseExpr"))
               /\ CaseFits(end, Case(ops, "OnSelectExpr"))
               /\ CaseFits(end, Case(ops, "OnReturnExpr"))
               /\ CaseFits(end, Case(ops, "OnNopExpr"))
               /\ CaseFits(end, Case(ops, "OnDropExpr"))
               /\ CaseFits(end, CaseReads(ops, <<R("Count", "num result types", 0)>>,
                                          "OnSelectExpr"))
               /\ CaseFits(end, CaseReads(ops, Index, "OnBrExpr"))
               /\ CaseFits(end, CaseReads(ops, Index, "OnBrIfExpr"))
               /\ CaseFits(end, CaseReads(ops, <<R("Count", "br_table target count", 0)>>,
                                          "OnBrTableExpr"))
  BY <1>1, <1>4, CaseItems, OperandItems
<1> QED BY <1>5, <1>6 DEF ControlCases

\* The cases of the constants.
LEMMA ConstItems == ASSUME NEW end PROVE \A c \in ConstCases : CaseFits(end, c)
<1>1. /\ CaseCall("OnI32ConstExpr") /\ CaseCall("OnI64ConstExpr") /\ CaseCall("OnF32ConstExpr")
      /\ CaseCall("OnF64ConstExpr") /\ CaseCall("OnV128ConstExpr")
  BY DEF CaseCall, EntryCalls, Remembering, Naming, Initializing, Importing
<1>2. {"S32", "S64", "F32", "F64", "V128"} \subseteq Primitives  BY DEF Primitives
<1> QED BY <1>1, <1>2, CaseItems, OperandItems DEF ConstCases

\* The cases of the variable instructions.
LEMMA VariableItems == ASSUME NEW end PROVE \A c \in VariableCases : CaseFits(end, c)
<1>1. /\ CaseCall("OnGlobalGetExpr") /\ CaseCall("OnLocalGetExpr")
      /\ CaseCall("OnGlobalSetExpr") /\ CaseCall("OnLocalSetExpr")
      /\ CaseCall("OnLocalTeeExpr") /\ CaseCall("OnCallExpr") /\ CaseCall("OnReturnCallExpr")
  BY DEF CaseCall, EntryCalls, Remembering, Naming, Initializing, Importing
<1>2. Reads(Inner, "Index", "signature of call")  BY DEF Reads, InnerReads
<1>3. \A f \in {"OnCallIndirectExpr", "OnReturnCallIndirectExpr"} :
          Fits(Inner, end, R("Index", "signature of call", f))
  BY <1>2, FitsRead DEF Primitives, Remembers, Naming
<1> QED BY <1>1, <1>3, CaseItems, CaseThenItems, OperandItems DEF VariableCases

\* The cases of loads and stores.
LEMMA MemoryItems == ASSUME NEW end PROVE \A c \in MemoryCases : CaseFits(end, c)
<1>1. /\ CaseCall("OnLoadExpr") /\ CaseCall("OnStoreExpr")
      /\ CaseCall("OnMemorySizeExpr") /\ CaseCall("OnMemoryGrowExpr")
  BY DEF CaseCall, EntryCalls, Remembering, Naming, Initializing, Importing
<1> QED BY <1>1, CaseItems, OperandItems, ZenonT(60) DEF MemoryCases

\* The cases of unary, binary and comparison instructions.
LEMMA NumericItems ==
    ASSUME NEW end
    PROVE  \A c \in {BinaryCase, CompareCase, UnaryCase, ConvertCase} : CaseFits(end, c)
<1>1. /\ CaseCall("OnBinaryExpr") /\ CaseCall("OnCompareExpr")
      /\ CaseCall("OnUnaryExpr") /\ CaseCall("OnConvertExpr")
  BY DEF CaseCall, EntryCalls, Remembering, Naming, Initializing, Importing
<1>2. \A ops : /\ CaseFits(end, Case(ops, "OnBinaryExpr"))
               /\ CaseFits(end, Case(ops, "OnCompareExpr"))
               /\ CaseFits(end, Case(ops, "OnUnaryExpr"))
               /\ CaseFits(end, Case(ops, "OnConvertExpr"))
  BY <1>1, CaseItems
<1>3. CaseFits(end, BinaryCase)
  <2>1. \E ops : BinaryCase = Case(ops, "OnBinaryExpr")  BY DEF BinaryCase
  <2> QED BY <1>2, <2>1
<1>4. CaseFits(end, CompareCase)  BY <1>2, Zenon DEF CompareCase
<1>5. CaseFits(end, UnaryCase)
  <2>1. \E ops : UnaryCase = Case(ops, "OnUnaryExpr")  BY DEF UnaryCase
  <2> QED BY <1>2, <2>1
<1>6. CaseFits(end, ConvertCase)  BY <1>2, ZenonT(60) DEF ConvertCase
<1> QED BY <1>3, <1>4, <1>5, <1>6

\* The cases of the SIMD instructions with a lane or a shuffle.
LEMMA LaneItems == ASSUME NEW end PROVE \A c \in LaneCases : CaseFits(end, c)
<1>1. /\ CaseCall("OnTernaryExpr") /\ CaseCall("OnSimdLaneOpExpr")
      /\ CaseCall("OnSimdShuffleOpExpr") /\ CaseCall("OnLoadSplatExpr")
  BY DEF CaseCall, EntryCalls, Remembering, Naming, Initializing, Importing
<1>2. {"U8", "V128"} \subseteq Primitives  BY DEF Primitives
<1> QED BY <1>1, <1>2, CaseItems, OperandItems DEF LaneCases

\* The cases of exception handling.
LEMMA ExceptionItems == ASSUME NEW end PROVE \A c \in ExceptionCases : CaseFits(end, c)
<1>1. /\ CaseCall("OnCatchExpr") /\ CaseCall("OnRethrowExpr")
      /\ CaseCall("OnThrowExpr") /\ CaseCall("OnBrOnExnExpr")
  BY DEF CaseCall, EntryCalls, Remembering, Naming, Initializing, Importing
<1>2. "OnTryExpr" \in DOMAIN Opened  BY DEF Opened
<1> QED BY <1>1, <1>2, CaseItems, OpensItems, OperandItems DEF ExceptionCases

\* The cases of sign extension and saturating conversion.
LEMMA ExtendItems == ASSUME NEW end PROVE \A c \in ExtendCases : CaseFits(end, c)
<1>1. CaseCall("OnUnaryExpr") /\ CaseCall("OnConvertExpr")
  BY DEF CaseCall, EntryCalls, Remembering, Naming, Initializing, Importing
<1> QED BY <1>1, CaseItems DEF ExtendCases

\* The cases of the atomic instructions.
LEMMA AtomicItems == ASSUME NEW end PROVE \A c \in AtomicCases : CaseFits(end, c)
<1>1. /\ CaseCall("OnAtomicNotifyExpr") /\ CaseCall("OnAtomicWaitExpr")
      /\ CaseCall("OnAtomicFenceExpr") /\ CaseCall("OnAtomicLoadExpr")
      /\ CaseCall("OnAtomicStoreExpr") /\ CaseCall("OnAtomicRmwExpr")
      /\ CaseCall("OnAtomicRmwCmpxchgExpr")
  BY DEF CaseCall, EntryCalls, Remembering, Naming, Initializing, Importing
<1> QED BY <1>1, CaseItems, OperandItems DEF AtomicCases

\* The cases of the bulk memory instructions.
LEMMA BulkItems == ASSUME NEW end PROVE \A c \in BulkCases : CaseFits(end, c)
<1>1. /\ CaseCall("OnTableInitExpr") /\ CaseCall("OnMemoryInitExpr")
      /\ CaseCall("OnDataDropExpr") /\ CaseCall("OnElemDropExpr")
      /\ CaseCall("OnMemoryFillExpr") /\ CaseCall("OnMemoryCopyExpr")
      /\ CaseCall("OnTableCopyExpr")
  BY DEF CaseCall, EntryCalls, Remembering, Naming, Initializing, Importing
<1> QED BY <1>1, CaseItems, OperandItems DEF BulkCases

\* The cases of the reference and table instructions.
LEMMA ReferenceItems == ASSUME NEW end PROVE \A c \in ReferenceCases : CaseFits(end, c)
<1>1. /\ CaseCall("OnTableGetExpr") /\ CaseCall("OnTableSetExpr")
      /\ CaseCall("OnTableGrowExpr") /\ CaseCall("OnTableSizeExpr")
      /\ CaseCall("OnTableFillExpr") /\ CaseCall("OnRefFuncExpr")
      /\ CaseCall("OnRefNullExpr") /\ CaseCall("OnRefIsNullExpr")
  BY DEF CaseCall, EntryCalls, Remembering, Naming, Initializing, Importing
<1> QED BY <1>1, CaseItems, OperandItems, ZenonT(60) DEF ReferenceCases

\* Whatever the opcode, the items of its case are of the code section.
LEMMA ListedItemsOf ==
    ASSUME NEW end, NEW op \in DOMAIN ItemsOf
    PROVE  Listed(Inner, end, ItemsOf[op])
<1>1. \A c \in Cases : CaseFits(end, c)
  BY ControlItems, ConstItems, VariableItems, MemoryItems, NumericItems, LaneItems,
     ExceptionItems, ExtendItems, AtomicItems, BulkItems, ReferenceItems DEF Cases
<1>2. \E c \in Cases : op \in c.ops /\ ItemsOf[op] = c.items
  <2> HIDE DEF Cases
  <2>1. op \in UNION {c.ops : c \in Cases}  BY DEF ItemsOf
  <2>2. ItemsOf[op] = (CHOOSE c \in Cases : op \in c.ops).items  BY DEF ItemsOf
  <2> QED BY <2>1, <2>2
<1> QED BY <1>1, <1>2 DEF CaseFits

\* The callback of a case, whatever it is given.
LEMMA CaseCallFits ==
    ASSUME NEW end, NEW f, NEW x, CaseCall(f)
    PROVE  Listed(Inner, end, <<Call(f, x)>>)
<1>1. Calls(Inner, f) /\ Remembers(Inner, f, x)
  BY DEF CaseCall, Calls, Remembers, Remembering, Naming
<1> QED BY <1>1, FitsCall, ListedOne

\* Nothing but operands comes of what is read in a body, opcodes excepted.
InnerNames == {"local type count", "local type", "block signature type", "reserved",
               "num result types", "br_table target count", "signature of call"}

\* An operand is an item of the code section.
LEMMA InnerIsCode ==
    ASSUME NEW end, NEW s, Listed(Inner, end, s)
    PROVE  Listed(10, end, s)
<1>1. \A r, d : Reads(Inner, r, d) => Reads(10, r, d)
  <2>1. \A r, d : InnerReads(r, d) => CodeReads(r, d)  BY DEF InnerReads, CodeReads
  <2>2. \A r, d : CodeReads(r, d) => Reads(10, r, d)  BY DEF Reads
  <2>3. \A r, d : Reads(Inner, r, d) => InnerReads(r, d)  BY SectionReads
  <2> QED BY <2>1, <2>2, <2>3
<1>2. \A f : Calls(Inner, f) => Calls(10, f)  BY DEF Calls, Inner, Sub
<1>3. \A d : ~Loops(Inner, d)  BY DEF Loops, Inner, Sub
<1>4. Inner \notin {0, Sub}  BY DEF Inner, Sub
<1>5. \A d, x : Remembers(Inner, d, x) => Remembers(10, d, x)
  <2> SUFFICES ASSUME NEW d, NEW x, Remembers(Inner, d, x) PROVE Remembers(10, d, x)
    OBVIOUS
  <2>1. d = "event signature index" => Calls(10, x)
    BY <1>2 DEF Remembers
  <2> QED BY <2>1 DEF Remembers
<1>6. ASSUME NEW i, Fits(Inner, end, i) PROVE Fits(10, end, i)
  BY <1>1, <1>2, <1>3, <1>4, <1>5, <1>6 DEF Fits
<1>7. PICK S : s \in Seq(S) /\ \A i \in S : Fits(Inner, end, i)  BY DEF Listed
<1>8. \A i \in S : Fits(10, end, i)  BY <1>6, <1>7
<1> QED BY <1>7, <1>8, ListedOf

\* What follows from a read of an operand are operands.
LEMMA InnerItems ==
    ASSUME NEW end, NEW i, NEW v, NEW at, ReadOf(Inner, end, i, v)
    PROVE  Listed(Inner, end, ReadCodeSection(i, v, at))
<1>1. InnerReads(i.r, i.d) /\ Remembers(Inner, i.d, i.x)
  BY ReadFits, SectionReads DEF ReadOf
<1>2. CASE i.d = "local type count"
  <2>1. ReadCodeSection(i, v, at) = <<R("Type", "local type", v)>>
    BY <1>2, Zenon DEF ReadCodeSection
  <2>2. Reads(Inner, "Type", "local type")  BY DEF Reads, InnerReads
  <2> QED BY <2>1, <2>2, FitsPlain, ListedOne DEF Primitives, Remembering, Naming
<1>8. CASE i.d = "local type"
  <2>1. ReadCodeSection(i, v, at) = Require(IsConcreteType(v)) \o <<Call("OnLocalDecl", i.x)>>
    BY <1>8, Zenon DEF ReadCodeSection
  <2>2. CaseCall("OnLocalDecl")
    BY DEF CaseCall, Remembering, EntryCalls, Naming, Initializing, Importing
  <2> QED BY <2>1, <2>2, CaseCallFits, ListedRequire, ListedConcat
<1>3. CASE i.d = "block signature type"
  <2>1. ReadCodeSection(i, v, at) = Require(IsBlockType(v)) \o <<Call(i.x, v)>>
    BY <1>3, Zenon DEF ReadCodeSection, ReadFunctionBody
  <2>2. i.x \in {"OnBlockExpr", "OnLoopExpr", "OnIfExpr", "OnTryExpr"}
    BY <1>1, <1>3 DEF Remembers, Opened
  <2>3. CaseCall(i.x)
    BY <2>2 DEF CaseCall, Remembering, EntryCalls, Naming, Initializing, Importing
  <2> QED BY <2>1, <2>3, CaseCallFits, ListedRequire, ListedConcat
<1>4. CASE i.d = "reserved"
  <2>1. ReadCodeSection(i, v, at) = Require(v = 0)  BY <1>4, Zenon DEF ReadCodeSection, ReadFunctionBody
  <2> QED BY <2>1, ListedRequire
<1>5. CASE i.d = "num result types"
  <2>1. ReadCodeSection(i, v, at) = Require(v = 1) \o <<Unused("Type")>>
    BY <1>5, Zenon DEF ReadCodeSection, ReadFunctionBody
  <2>2. Listed(Inner, end, <<Unused("Type")>>)  BY OperandItems DEF Primitives
  <2> QED BY <2>1, <2>2, ListedRequire, ListedConcat
<1>6. CASE i.d = "br_table target count"
  <2>1. ReadCodeSection(i, v, at) = Times(v + 1, <<Unused("Index")>>)
    BY <1>6, Zenon DEF ReadCodeSection, ReadFunctionBody
  <2>2. Listed(Inner, end, <<Unused("Index")>>)  BY OperandItems DEF Primitives
  <2>3. v \in Nat  BY <1>1, <1>6 DEF ReadOf, Yields, NatPrimitives, InnerReads
  <2>4. v + 1 \in Nat  BY <2>3
  <2> QED BY <2>1, <2>2, <2>4, ListedTimes
<1>7. CASE i.d = "signature of call"
  <2> DEFINE table == IF Enabled("reference_types") THEN Index ELSE <<Reserved>>
  <2>1. ReadCodeSection(i, v, at) = table \o <<Call(i.x, v)>>
    BY <1>7, Zenon DEF ReadCodeSection, ReadFunctionBody
  <2>2. i.x \in {"OnCallIndirectExpr", "OnReturnCallIndirectExpr"}
    BY <1>1, <1>7 DEF Remembers
  <2>3. CaseCall(i.x)
    BY <2>2 DEF CaseCall, Remembering, EntryCalls, Naming, Initializing, Importing
  <2>4. Listed(Inner, end, table)  BY OperandItems
  <2> HIDE DEF table
  <2> QED BY <2>1, <2>3, <2>4, CaseCallFits, ListedConcat
<1> QED BY <1>1, <1>2, <1>3, <1>4, <1>5, <1>6, <1>7, <1>8 DEF InnerReads

\* The loop of a body that ends at e, and what an opcode is followed by: the operands
\* and the callback of its case, then the loop.
BodyLoop(e, seen_end) == Loop("body", [end |-> e, seen_end |-> seen_end])
Looping(end, e, seen_end, s) ==
    \E a : Listed(Inner, end, a) /\ s = a \o <<BodyLoop(e, seen_end)>>

\* An opcode is followed so; the end is seen where it is the last byte.
LEMMA OpcodeItems ==
    ASSUME NEW end, NEW i, NEW v, NEW at, i.d = "opcode"
    PROVE  Looping(end, i.x, v = OpcodeEnd /\ at = i.x, ReadCodeSection(i, v, at))
<1> DEFINE last == IF at = i.x THEN "OnEndFunc" ELSE "OnEndExpr"
           code == IF v = OpcodeEnd THEN <<Call(last, 0)>>
                   ELSE IF v \in DOMAIN ItemsOf THEN ItemsOf[v]
                   ELSE <<Fail>>
<1>1. ReadCodeSection(i, v, at) =
          Require(IsEnabled(v, opt.features))
          \o Require(v \in NeedsDataCount => data_count # NONE) \o code
          \o <<BodyLoop(i.x, v = OpcodeEnd /\ at = i.x)>>
  BY Zenon DEF ReadCodeSection, ReadFunctionBody, BodyLoop
<1>2. Listed(Inner, end, <<Call(last, 0)>>)
  <2>1. CaseCall("OnEndFunc") /\ CaseCall("OnEndExpr")
    BY DEF CaseCall, Remembering, EntryCalls, Naming, Initializing, Importing
  <2> QED BY <2>1, CaseItems
<1>3. Listed(Inner, end, <<Fail>>)  BY ListedOne, FitsFail
<1> HIDE DEF last
<1>4. Listed(Inner, end, code)  BY <1>2, <1>3, ListedItemsOf, Zenon
<1> HIDE DEF code
<1>5. Listed(Inner, end, Require(IsEnabled(v, opt.features))
                         \o Require(v \in NeedsDataCount => data_count # NONE) \o code)
  BY <1>4, ListedRequire, ListedConcat
<1> QED BY <1>1, <1>5, Zenon DEF Looping

\* ReadCodeSection leaves items of the code section.
LEMMA ListedCode ==
    ASSUME NEW end, NEW i, NEW v, NEW at \in Nat, ReadOf(10, end, i, v), num.func \in Nat
    PROVE  Listed(10, end, ReadCodeSection(i, v, at))
<1>1. CodeReads(i.r, i.d) /\ Remembers(10, i.d, i.x)
  BY ReadFits, SectionReads DEF ReadOf
<1>2. CASE i.d = "function body count"
  <2> DEFINE s == [k \in 1 .. v |-> R("U32", "function body size", num.func + (k - 1))]
  <2>1. ReadCodeSection(i, v, at) =
            Require(v = num.sigs) \o <<Call("OnFunctionBodyCount", v)>> \o s
    BY <1>2, Zenon DEF ReadCodeSection, ForEach
  <2>2. v \in Nat  BY <1>1, <1>2 DEF ReadOf, Yields, NatPrimitives, CodeReads
  <2>3. Reads(10, "U32", "function body size")  BY DEF Reads, CodeReads
  <2>4. ASSUME NEW k \in 1 .. v PROVE Fits(10, end, s[k])
    <3>1. num.func + (k - 1) \in Nat  BY <2>2
    <3>2. Remembers(10, "function body size", num.func + (k - 1))
      BY <3>1 DEF Remembers, Naming
    <3> QED BY <2>3, <3>2, FitsRead DEF Primitives
  <2>5. s = [k \in 1 .. v |-> s[k]]  OBVIOUS
  <2>6. Calls(10, "OnFunctionBodyCount") /\ Remembers(10, "OnFunctionBodyCount", v)
    BY DEF Calls, Remembers, EntryCalls, Naming, Initializing, Importing
  <2> HIDE DEF s
  <2>7. Listed(10, end, s)  BY <2>2, <2>4, <2>5, ListedMap
  <2>8. Listed(10, end, <<Call("OnFunctionBodyCount", v)>>)  BY <2>6, FitsCall, ListedOne
  <2> QED BY <2>1, <2>7, <2>8, ListedRequire, ListedConcat
<1>3. CASE i.d = "function body size"
  <2> DEFINE x == [index |-> i.x, end |-> at + v]
  <2>1. ReadCodeSection(i, v, at) =
            <<Call("BeginFunctionBody", i.x), R("Count", "local declaration count", x)>>
    BY <1>3, Zenon DEF ReadCodeSection
  <2>2. v \in Nat /\ i.x \in Nat
    BY <1>1, <1>3 DEF ReadOf, Yields, NatPrimitives, CodeReads, Remembers
  <2>3. x.index \in Nat /\ x.end \in Nat  BY <2>2
  <2> HIDE DEF x
  <2>4. /\ Reads(10, "Count", "local declaration count")
        /\ Remembers(10, "local declaration count", x)
    BY <2>3 DEF Reads, CodeReads, Remembers, Naming
  <2>5. Calls(10, "BeginFunctionBody") /\ Remembers(10, "BeginFunctionBody", i.x)
    BY <2>2 DEF Calls, Remembers, EntryCalls, Naming, Initializing, Importing
  <2>6. Fits(10, end, R("Count", "local declaration count", x))
    BY <2>4, FitsRead DEF Primitives
  <2>7. Fits(10, end, Call("BeginFunctionBody", i.x))  BY <2>5, FitsCall
  <2> QED BY <2>1, <2>6, <2>7, ListedTwo
<1>4. CASE i.d = "local declaration count"
  <2> DEFINE loop == Loop("body", [end |-> i.x.end, seen_end |-> FALSE])
  <2>1. ReadCodeSection(i, v, at) =
            Times(v, <<R("Index", "local type count", 0)>>)
            \o <<Call("OnFunctionBinaryRead", i.x), loop, Call("EndFunctionBody", i.x.index)>>
    BY <1>4, Zenon DEF ReadCodeSection
  <2>2. v \in Nat /\ i.x.index \in Nat /\ i.x.end \in Nat
    BY <1>1, <1>4 DEF ReadOf, Yields, NatPrimitives, CodeReads, Remembers
  <2>3. Reads(10, "Index", "local type count")  BY DEF Reads, CodeReads
  <2>4. Listed(10, end, <<R("Index", "local type count", 0)>>)
    BY <2>3, FitsPlain, ListedOne DEF Primitives, Remembering, Naming
  <2>5. Remembers(10, "body", [end |-> i.x.end, seen_end |-> FALSE])
    BY <2>2 DEF Remembers, Naming
  <2>6. Fits(10, end, loop)  BY <2>5, FitsLoop DEF Loops
  <2>7. /\ Calls(10, "OnFunctionBinaryRead") /\ Remembers(10, "OnFunctionBinaryRead", i.x)
        /\ Calls(10, "EndFunctionBody") /\ Remembers(10, "EndFunctionBody", i.x.index)
    BY <2>2 DEF Calls, Remembers, EntryCalls, Naming, Initializing, Importing
  <2>8. /\ Fits(10, end, Call("OnFunctionBinaryRead", i.x))
        /\ Fits(10, end, Call("EndFunctionBody", i.x.index))
    BY <2>7, FitsCall
  <2> HIDE DEF loop
  <2>9. Listed(10, end, <<Call("OnFunctionBinaryRead", i.x), loop,
                          Call("EndFunctionBody", i.x.index)>>)
    BY <2>6, <2>8, ListedThree
  <2> QED BY <2>1, <2>2, <2>4, <2>9, ListedTimes, ListedConcat
<1>5. CASE i.d = "opcode"
  <2>1. Looping(end, i.x, v = OpcodeEnd /\ at = i.x, ReadCodeSection(i, v, at))
    BY <1>5, OpcodeItems
  <2>2. PICK a : /\ Listed(Inner, end, a)
                 /\ ReadCodeSection(i, v, at) = a \o <<BodyLoop(i.x, v = OpcodeEnd /\ at = i.x)>>
    BY <2>1 DEF Looping
  <2>3. \A b : Remembers(10, "body", [end |-> i.x, seen_end |-> b])
    BY <1>1, <1>5 DEF Remembers, Naming
  <2>4. \A b : Listed(10, end, <<BodyLoop(i.x, b)>>)
    BY <2>3, FitsLoop, ListedOne DEF Loops, BodyLoop
  <2> QED BY <2>2, <2>4, InnerIsCode, ListedConcat
<1>6. CASE i.d \in InnerNames
  <2>1. Reads(Inner, i.r, i.d)  BY <1>1, <1>6 DEF Reads, CodeReads, InnerReads, InnerNames
  <2>2. ReadOf(Inner, end, i, v)
    BY <1>1, <1>6, <2>1 DEF ReadOf, Fits, Remembers, InnerNames, Naming
  <2> QED BY <2>2, InnerItems, InnerIsCode
<1> QED BY <1>1, <1>2, <1>3, <1>4, <1>5, <1>6 DEF CodeReads, InnerNames

\* What a section's handler still has to do, once a subsection is to be entered: its
\* limit is that of the contents and its contents are followed by the section's.
Entered(end, e, s) ==
    \E a, b : /\ Listed(Sub, e, a) /\ Listed(0, end, b)
              /\ s = <<Enter(e)>> \o (a \o (<<Leave(e)>> \o b))

\* Concatenation, as an operator the provers take as it is.
Cat(s, t) == s \o t

\* Concatenation is associative.
LEMMA CatAssoc ==
    ASSUME NEW s, NEW t, NEW u, IsSeq(s), IsSeq(t), IsSeq(u)
    PROVE  Cat(Cat(s, t), u) = Cat(s, Cat(t, u))
  BY SeqAssoc, SMTT(30) DEF Cat

\* The four parts of a subsection, bracketed to the right.
LEMMA CatAssocFour ==
    ASSUME NEW s, NEW t, NEW u, NEW w, IsSeq(s), IsSeq(t), IsSeq(u), IsSeq(w)
    PROVE  Cat(Cat(Cat(s, t), u), w) = Cat(s, Cat(t, Cat(u, w)))
<1>1. IsSeq(Cat(s, t)) /\ IsSeq(Cat(u, w))  BY SeqConcat DEF Cat
<1> QED BY <1>1, CatAssoc

\* A list that starts with a failure: what is behind it will not be looked at.
Failing(s) == \E t : IsSeq(t) /\ s = <<Fail>> \o t

\* A subsection is entered with its limit inside that of the section, or fails at once
\* (the check of the subsection's end before the guard).
LEMMA SubsectionItems ==
    ASSUME NEW at \in Nat, NEW v \in Nat, NEW contents, NEW next, read_end \in Nat,
           Listed(Sub, at + v, contents), Fits(0, read_end, next)
    PROVE  \/ /\ at + v <= read_end
              /\ Entered(read_end, at + v, Subsection(at, v, contents, next))
           \/ Failing(Subsection(at, v, contents, next))
<1> DEFINE e == at + v
           body == <<Enter(e)>> \o (contents \o <<Leave(e), next>>)
<1>1. /\ IsSeq(<<Enter(e)>>) /\ IsSeq(<<Leave(e), next>>) /\ IsSeq(<<Leave(e)>>)
      /\ IsSeq(<<next>>) /\ IsSeq(contents)
  <2>1. \A x : IsSeq(<<x>>)  BY SeqOne
  <2>2. <<Leave(e), next>> \in Seq({Leave(e), next})  OBVIOUS
  <2> QED BY <2>1, <2>2, ListedIsSeq DEF IsSeq
<1>2. IsSeq(body)  BY <1>1, SeqConcat
<1>3. IsSeq(Require(e <= read_end))
  BY SeqOne, EmptySeq DEF Require, IsSeq
<1>4. Subsection(at, v, contents, next) = Require(e <= read_end) \o body
  <2>1. Subsection(at, v, contents, next) =
            ((Require(e <= read_end) \o <<Enter(e)>>) \o contents) \o <<Leave(e), next>>
    BY Zenon DEF Subsection
  <2> DEFINE p == Require(e <= read_end)
             q == <<Enter(e)>>
             t == <<Leave(e), next>>
  <2>2. IsSeq(p) /\ IsSeq(q) /\ IsSeq(t) /\ IsSeq(contents)  BY <1>1, <1>3
  <2>3. Subsection(at, v, contents, next) = Cat(Cat(Cat(p, q), contents), t)
    BY <2>1 DEF Cat
  <2>4. Cat(p, Cat(q, Cat(contents, t))) = Require(e <= read_end) \o body
    BY DEF Cat
  <2> HIDE DEF p, q, t, body, e
  <2>5. Cat(Cat(Cat(p, q), contents), t) = Cat(p, Cat(q, Cat(contents, t)))
    BY <2>2, CatAssocFour
  <2> QED BY <2>3, <2>4, <2>5
<1>5. <<Leave(e), next>> = <<Leave(e)>> \o <<next>>  OBVIOUS
<1>6. CASE e <= read_end
  <2>1. Require(e <= read_end) = <<>>  BY <1>6 DEF Require
  <2>2. Subsection(at, v, contents, next) = body
    BY <1>2, <1>4, <2>1, ConcatEmptySeq DEF IsSeq
  <2>3. Listed(0, read_end, <<next>>)  BY ListedOne
  <2>4. Entered(read_end, e, body)
    <3>1. body = <<Enter(e)>> \o (contents \o (<<Leave(e)>> \o <<next>>))
      BY <1>5
    <3> HIDE DEF body
    <3> QED BY <2>3, <3>1 DEF Entered
  <2> HIDE DEF body
  <2> QED BY <1>6, <2>2, <2>4
<1>7. CASE ~(e <= read_end)
  <2>1. Require(e <= read_end) = <<Fail>>  BY <1>7 DEF Require
  <2> HIDE DEF body
  <2> QED BY <1>2, <1>4, <2>1 DEF Failing
<1> QED BY <1>6, <1>7

\* The first item of a custom section: its name, and what this says of the rest.
LEMMA CustomItems ==
    ASSUME NEW i, NEW v, NEW at, i.d = "section name"
    PROVE  \E b : /\ Listed(0, read_end, b)
                  /\ ReadCustomSection(i, v, at) =
                         <<Call("BeginCustomSection", 0)>> \o b \o <<Call("EndCustomSection", 0)>>
<1> DEFINE b == CASE v = kName /\ opt.read_debug_names ->
                    <<Loop("names", [first |-> TRUE, previous |-> 0]),
                      Call("EndNamesSection", 0)>>
              [] v = kDylink -> Times(4, <<Unused("U32")>>) \o <<R("U32", "needed_dynlibs", 0)>>
              [] IsPrefix(kReloc, v) -> <<Unused("U32"), R("Count", "relocation count", 0)>>
              [] v = kLinking -> <<R("U32", "version", 0)>>
              [] OTHER -> <<Skip(read_end)>>
<1>1. ReadCustomSection(i, v, at) =
          <<Call("BeginCustomSection", 0)>> \o b \o <<Call("EndCustomSection", 0)>>
  BY Zenon DEF ReadCustomSection
<1>2. /\ Reads(0, "U32", "needed_dynlibs") /\ Reads(0, "Count", "relocation count")
      /\ Reads(0, "U32", "version")
  BY DEF Reads, CustomReads
<1>3. /\ Fits(0, read_end, R("U32", "needed_dynlibs", 0))
      /\ Fits(0, read_end, R("Count", "relocation count", 0))
      /\ Fits(0, read_end, R("U32", "version", 0))
  BY <1>2, FitsPlain DEF Primitives, Remembering, Naming
<1>4. Fits(0, read_end, Loop("names", [first |-> TRUE, previous |-> 0]))
  BY FitsLoop DEF Loops, Remembers, Naming
<1>5. Fits(0, read_end, Call("EndNamesSection", 0))
  BY FitsCall DEF Calls, Remembers, Naming
<1>6. Fits(0, read_end, Skip(read_end))  BY DEF Fits, Skip, R
<1>7. Fits(0, read_end, Unused("U32"))  BY FitsUnused DEF Primitives
<1>8. Listed(0, read_end, Times(4, <<Unused("U32")>>))  BY <1>7, ListedOne, ListedTimes
<1>9. /\ Listed(0, read_end, <<Loop("names", [first |-> TRUE, previous |-> 0]),
                               Call("EndNamesSection", 0)>>)
      /\ Listed(0, read_end, Times(4, <<Unused("U32")>>) \o <<R("U32", "needed_dynlibs", 0)>>)
      /\ Listed(0, read_end, <<Unused("U32"), R("Count", "relocation count", 0)>>)
      /\ Listed(0, read_end, <<R("U32", "version", 0)>>)
      /\ Listed(0, read_end, <<Skip(read_end)>>)
  BY <1>3, <1>4, <1>5, <1>6, <1>7, <1>8, ListedOne, ListedTwo, ListedConcat
<1>10. Listed(0, read_end, b)  BY <1>9, Zenon
<1> HIDE DEF b
<1> QED BY <1>1, <1>10

RelocReads == {"relocation count", "relocation type"}
NameReads == {"name type", "name subsection size", "name count", "function index",
              "function name", "function count", "locals function index", "local count",
              "named index", "local name"}
LinkingReads == {"version", "linking type", "linking subsection size", "segment info count",
                 "init function count", "comdat count", "entry count", "sym count", "sym type",
                 "sym flags", "index", "symbol name", "data symbol name", "segment", "offset"}

\* Which handler an item of a custom section belongs to.
LEMMA CustomHandlers ==
    ASSUME NEW i, NEW v, NEW at
    PROVE  /\ i.d \in RelocReads => ReadCustomSection(i, v, at) = ReadRelocSection(i, v)
           /\ i.d = "needed_dynlibs" => ReadCustomSection(i, v, at) = ReadDylinkSection(i, v)
           /\ i.d \in NameReads => ReadCustomSection(i, v, at) = ReadNameSection(i, v, at)
           /\ i.d \in LinkingReads => ReadCustomSection(i, v, at) = ReadLinkingSection(i, v, at)
<1>1. ASSUME i.d \in RelocReads
      PROVE  ReadCustomSection(i, v, at) = ReadRelocSection(i, v)
  <2>1. i.d # "section name" /\ i.d \in {"relocation count", "relocation type"}
    BY <1>1 DEF RelocReads
  <2>2. i.d # "needed_dynlibs" /\ i.d \notin NameReads
    BY <2>1 DEF NameReads
  <2> QED BY <2>1, <2>2, Zenon DEF ReadCustomSection, NameReads
<1>2. ASSUME i.d = "needed_dynlibs"
      PROVE  ReadCustomSection(i, v, at) = ReadDylinkSection(i, v)
  <2>1. /\ i.d # "section name" /\ i.d \notin {"relocation count", "relocation type"}
        /\ i.d \notin NameReads
    BY <1>2 DEF NameReads
  <2> QED BY <1>2, <2>1, Zenon DEF ReadCustomSection, NameReads
<1>3. ASSUME i.d \in NameReads
      PROVE  ReadCustomSection(i, v, at) = ReadNameSection(i, v, at)
  <2>1. /\ i.d # "section name" /\ i.d \notin {"relocation count", "relocation type"}
        /\ i.d # "needed_dynlibs"
    BY <1>3 DEF NameReads
  <2> QED BY <1>3, <2>1, Zenon DEF ReadCustomSection, NameReads
<1>4. ASSUME i.d \in LinkingReads
      PROVE  ReadCustomSection(i, v, at) = ReadLinkingSection(i, v, at)
  <2>1. /\ i.d # "section name" /\ i.d \notin {"relocation count", "relocation type"}
        /\ i.d # "needed_dynlibs" /\ i.d \notin NameReads
    BY <1>4 DEF NameReads, LinkingReads
  <2> QED BY <1>4, <2>1, Zenon DEF ReadCustomSection, NameReads
<1> QED BY <1>1, <1>2, <1>3, <1>4

\* What a read of a custom section's own items leads to: more of them, or a subsection.
CustomNext(at, s) ==
    \/ Listed(0, read_end, s)
    \/ \E e \in Nat : at <= e /\ e <= read_end /\ Entered(read_end, e, s)
    \/ Failing(s)

\* A subsection with contents that fit leads to a list CustomNext allows.
LEMMA CustomSubsection ==
    ASSUME NEW at \in Nat, NEW v \in Nat, NEW contents, NEW next, read_end \in Nat,
           Listed(Sub, at + v, contents), Fits(0, read_end, next)
    PROVE  CustomNext(at, Subsection(at, v, contents, next))
<1>1. at + v \in Nat /\ at <= at + v  OBVIOUS
<1>2. \/ /\ at + v <= read_end
         /\ Entered(read_end, at + v, Subsection(at, v, contents, next))
      \/ Failing(Subsection(at, v, contents, next))
  BY SubsectionItems
<1> QED BY <1>1, <1>2, Zenon DEF CustomNext

\* The three kinds of names.
LEMMA UpToTwo == \A n \in 0 .. 2 : n = 0 \/ n = 1 \/ n = 2
  OBVIOUS

\* The contents of a subsection of the name section, by its kind.
LEMMA NamesSubsection ==
    ASSUME NEW at \in Nat, NEW i, NEW v, read_end \in Nat, ReadOf(0, read_end, i, v),
           i.d = "name subsection size"
    PROVE  CustomNext(at, ReadNameSection(i, v, at))
<1>1. CustomReads(i.r, i.d)  BY ReadFits, SectionReads DEF ReadOf
<1>2. v \in Nat  BY <1>1 DEF ReadOf, Yields, NatPrimitives, CustomReads
<1> DEFINE end   == at + v
           first == CASE i.x = 0 -> Unused("Str")
                      [] i.x = 1 -> R("Count", "name count", 0)
                      [] i.x = 2 -> R("Count", "function count", 0)
           contents == IF i.x \notin 0 .. 2 THEN <<Skip(end)>>
                       ELSE When(v # 0, <<first>>)
           next == Loop("names", [first |-> FALSE, previous |-> i.x])
<1>3. ReadNameSection(i, v, at) = Subsection(at, v, contents, next)
  BY Zenon DEF ReadNameSection
<1>4. Fits(0, read_end, next)
  BY FitsLoop DEF Loops, Remembers, Naming
<1>5. Listed(Sub, end, <<Skip(end)>>)
  BY ListedOne DEF Fits, Skip, R
<1>6. ASSUME i.x \in 0 .. 2 PROVE Listed(Sub, end, <<first>>)
  <2>1. Reads(Sub, "Count", "name count") /\ Reads(Sub, "Count", "function count")
    BY DEF Reads, SubReads
  <2>2. /\ Fits(Sub, end, R("Count", "name count", 0))
        /\ Fits(Sub, end, R("Count", "function count", 0))
    BY <2>1, FitsPlain DEF Primitives, Remembering, Naming
  <2>3. Fits(Sub, end, Unused("Str"))  BY FitsUnused DEF Primitives
  <2>4. i.x = 0 \/ i.x = 1 \/ i.x = 2
    BY <1>6, UpToTwo, Zenon
  <2>5. Fits(Sub, end, first)  BY <2>2, <2>3, <2>4, Zenon
  <2> HIDE DEF first, end
  <2> QED BY <2>5, ListedOne
<1> HIDE DEF first, next
<1>7. Listed(Sub, end, contents)
  BY <1>5, <1>6, ListedWhen
<1> HIDE DEF contents
<1> QED BY <1>2, <1>3, <1>4, <1>7, CustomSubsection

\* The contents of a subsection of the linking section, by its kind.
LEMMA LinkingSubsection ==
    ASSUME NEW at \in Nat, NEW i, NEW v, read_end \in Nat, ReadOf(0, read_end, i, v),
           i.d = "linking subsection size"
    PROVE  CustomNext(at, ReadLinkingSection(i, v, at))
<1>1. CustomReads(i.r, i.d)  BY ReadFits, SectionReads DEF ReadOf
<1>2. v \in Nat  BY <1>1 DEF ReadOf, Yields, NatPrimitives, CustomReads
<1> DEFINE end   == at + v
           first == CASE i.x = 5 -> R("U32", "segment info count", 0)
                      [] i.x = 6 -> R("U32", "init function count", 0)
                      [] i.x = 7 -> R("U32", "comdat count", 0)
                      [] i.x = 8 -> R("U32", "sym count", 0)
                      [] OTHER   -> Skip(at + v)
           next == Loop("linking", 0)
<1>3. ReadLinkingSection(i, v, at) = Subsection(at, v, <<first>>, next)
  BY Zenon DEF ReadLinkingSection
<1>4. Fits(0, read_end, next)
  BY FitsLoop DEF Loops, Remembers, Naming
<1>5. Fits(Sub, end, Skip(end))  BY DEF Fits, Skip, R
<1>6. /\ Reads(Sub, "U32", "segment info count") /\ Reads(Sub, "U32", "init function count")
      /\ Reads(Sub, "U32", "comdat count") /\ Reads(Sub, "U32", "sym count")
  BY DEF Reads, SubReads
<1>7. /\ Fits(Sub, end, R("U32", "segment info count", 0))
      /\ Fits(Sub, end, R("U32", "init function count", 0))
      /\ Fits(Sub, end, R("U32", "comdat count", 0))
      /\ Fits(Sub, end, R("U32", "sym count", 0))
  BY <1>6, FitsPlain DEF Primitives, Remembering, Naming
<1>8. Fits(Sub, end, first)  BY <1>5, <1>7, Zenon
<1> HIDE DEF first, next
<1>9. Listed(Sub, end, <<first>>)
  <2> HIDE DEF end
  <2> QED BY <1>8, ListedOne
<1> QED BY <1>2, <1>3, <1>4, <1>9, CustomSubsection

\* What a custom section's own reads lead to: items of the section, or a subsection.
LEMMA CustomReadItems ==
    ASSUME NEW at \in Nat, NEW i, NEW v, read_end \in Nat, ReadOf(0, read_end, i, v)
    PROVE  CustomNext(at, ReadCustomSection(i, v, at))
<1>1. CustomReads(i.r, i.d)  BY ReadFits, SectionReads DEF ReadOf
<1>2. \A s : Listed(0, read_end, s) => CustomNext(at, s)  BY DEF CustomNext
<1>3. /\ Reads(0, "U32", "relocation type") /\ Reads(0, "Offset", "name subsection size")
      /\ Reads(0, "Offset", "linking subsection size")
  BY DEF Reads, CustomReads
<1>4. /\ \A x : Listed(0, read_end, <<R("U32", "relocation type", x)>>)
      /\ \A x : Listed(0, read_end, <<R("Offset", "name subsection size", x)>>)
      /\ \A x : Listed(0, read_end, <<R("Offset", "linking subsection size", x)>>)
  BY <1>3, FitsPlain, ListedOne DEF Primitives, Remembering, Naming
<1>5. CASE i.d = "relocation count"
  <2>1. ReadCustomSection(i, v, at) = Times(v, <<R("U32", "relocation type", 0)>>)
    <3>1. ReadRelocSection(i, v) = Times(v, <<R("U32", "relocation type", 0)>>)
      BY <1>5, Zenon DEF ReadRelocSection
    <3> QED BY <1>5, <3>1, CustomHandlers DEF RelocReads
  <2>2. v \in Nat  BY <1>1, <1>5 DEF ReadOf, Yields, NatPrimitives, CustomReads
  <2> QED BY <1>2, <1>4, <2>1, <2>2, ListedTimes
<1>6. CASE i.d = "relocation type"
  <2>1. ReadRelocSection(i, v) = <<Unused("Offset"), Unused("Index")>>
                                 \o When(v \in WithAddend, <<Unused("S32")>>)
    BY <1>6, Zenon DEF ReadRelocSection
  <2>2. /\ Listed(0, read_end, <<Unused("Offset"), Unused("Index")>>)
        /\ Listed(0, read_end, <<Unused("S32")>>)
    BY FitsUnused, ListedOne, ListedTwo DEF Primitives
  <2>3. Listed(0, read_end, ReadRelocSection(i, v))
    BY <2>1, <2>2, ListedWhen, ListedConcat
  <2> QED BY <1>2, <1>6, <2>3, CustomHandlers DEF RelocReads
<1>7. CASE i.d = "needed_dynlibs"
  <2>1. v \in Nat  BY <1>1, <1>7 DEF ReadOf, Yields, NatPrimitives, CustomReads
  <2>2. Listed(0, read_end, <<Unused("Str")>>)  BY FitsUnused, ListedOne DEF Primitives
  <2>3. Listed(0, read_end, ReadDylinkSection(i, v))
    BY <2>1, <2>2, ListedTimes DEF ReadDylinkSection
  <2> QED BY <1>2, <1>7, <2>3, CustomHandlers
<1>8. CASE i.d = "name type"
  <2>1. ReadNameSection(i, v, at) =
            Require(i.x.first \/ v > i.x.previous) \o <<R("Offset", "name subsection size", v)>>
    BY <1>8, Zenon DEF ReadNameSection
  <2>2. Listed(0, read_end, ReadNameSection(i, v, at))
    BY <1>4, <2>1, ListedRequire, ListedConcat
  <2> QED BY <1>2, <1>8, <2>2, CustomHandlers DEF NameReads
<1>9. CASE i.d = "name subsection size"
  <2>1. ReadCustomSection(i, v, at) = ReadNameSection(i, v, at)
    BY <1>9, CustomHandlers DEF NameReads
  <2>2. CustomNext(at, ReadNameSection(i, v, at))  BY <1>9, NamesSubsection
  <2> QED BY <2>1, <2>2
<1>10. CASE i.d = "version"
  <2>1. ReadLinkingSection(i, v, at) = Require(v = 2) \o <<Loop("linking", 0)>>
    BY <1>10, Zenon DEF ReadLinkingSection
  <2>2. Listed(0, read_end, <<Loop("linking", 0)>>)
    BY FitsLoop, ListedOne DEF Loops, Remembers, Naming
  <2>3. Listed(0, read_end, ReadLinkingSection(i, v, at))
    BY <2>1, <2>2, ListedRequire, ListedConcat
  <2> QED BY <1>2, <1>10, <2>3, CustomHandlers DEF LinkingReads
<1>11. CASE i.d = "linking type"
  <2>1. ReadLinkingSection(i, v, at) = <<R("Offset", "linking subsection size", v)>>
    BY <1>11, Zenon DEF ReadLinkingSection
  <2> QED BY <1>2, <1>4, <1>11, <2>1, CustomHandlers DEF LinkingReads
<1>12. CASE i.d = "linking subsection size"
  <2>1. ReadCustomSection(i, v, at) = ReadLinkingSection(i, v, at)
    BY <1>12, CustomHandlers DEF LinkingReads
  <2>2. CustomNext(at, ReadLinkingSection(i, v, at))  BY <1>12, LinkingSubsection
  <2> QED BY <2>1, <2>2
<1> QED BY <1>1, <1>5, <1>6, <1>7, <1>8, <1>9, <1>10, <1>11, <1>12 DEF CustomReads

\* The items of the contents of a subsection.
LEMMA NameItems ==
    ASSUME NEW end, NEW at, NEW i, NEW v, ReadOf(Sub, end, i, v), i.d \in NameReads
    PROVE  Listed(Sub, end, ReadNameSection(i, v, at))
<1>1. SubReads(i.r, i.d) /\ Remembers(Sub, i.d, i.x)
  BY ReadFits, SectionReads DEF ReadOf
<1>2. /\ Reads(Sub, "Str", "function name") /\ Reads(Sub, "Str", "local name")
      /\ Reads(Sub, "Index", "function index") /\ Reads(Sub, "Index", "locals function index")
      /\ Reads(Sub, "Index", "named index") /\ Reads(Sub, "Count", "local count")
  BY DEF Reads, SubReads
<1>3. \A x : /\ Fits(Sub, end, R("Str", "local name", x))
             /\ Fits(Sub, end, R("Index", "function index", x))
             /\ Fits(Sub, end, R("Index", "locals function index", x))
             /\ Fits(Sub, end, R("Index", "named index", x))
             /\ Fits(Sub, end, R("Count", "local count", x))
  BY <1>2, FitsPlain DEF Primitives, Remembering, Naming
<1>4. \A x : /\ Fits(Sub, end, Loop("function names", x))
             /\ Fits(Sub, end, Loop("local functions", x))
             /\ Fits(Sub, end, Loop("local names", x))
  BY FitsLoop DEF Loops, Remembers, Naming
<1>5. \A x : /\ Fits(Sub, end, Call("OnFunctionNamesCount", x))
             /\ Fits(Sub, end, Call("OnLocalNameLocalCount", x))
  BY FitsCall DEF Calls, Remembers, Naming
<1>6. CASE i.d = "name count"
  <2>1. ReadNameSection(i, v, at) =
            <<Call("OnFunctionNamesCount", v),
              Loop("function names", [left |-> v, last |-> NONE])>>
    BY <1>6, Zenon DEF ReadNameSection
  <2> QED BY <1>4, <1>5, <2>1, ListedTwo
<1>7. CASE i.d = "function index"
  <2>1. ReadNameSection(i, v, at) =
            Require(After(i.x.last, v)) \o Require(v < NumTotalFuncs)
            \o <<R("Str", "function name", v),
                 Loop("function names", [left |-> i.x.left - 1, last |-> v])>>
    BY <1>7, Zenon DEF ReadNameSection
  <2>2. v \in Nat  BY <1>1, <1>7 DEF ReadOf, Yields, NatPrimitives, SubReads
  <2>3. Remembers(Sub, "function name", v)  BY <2>2 DEF Remembers, Naming
  <2>4. Fits(Sub, end, R("Str", "function name", v))
    BY <1>2, <2>3, FitsRead DEF Primitives
  <2>5. Listed(Sub, end, <<R("Str", "function name", v),
                           Loop("function names", [left |-> i.x.left - 1, last |-> v])>>)
    BY <1>4, <2>4, ListedTwo
  <2> QED BY <2>1, <2>5, ListedRequire, ListedConcat
<1>8. CASE i.d = "function name"
  <2> DEFINE x == [index |-> i.x, name |-> v]
  <2>1. ReadNameSection(i, v, at) = <<Call("OnFunctionName", x)>>
    BY <1>8, Zenon DEF ReadNameSection
  <2>2. v \in Bytes  BY <1>1, <1>8 DEF ReadOf, Yields, SeqPrimitives, SubReads
  <2>3. x.name \in Bytes /\ x.index \in Nat  BY <1>1, <1>8, <2>2 DEF Remembers
  <2> HIDE DEF x
  <2>4. Remembers(Sub, "OnFunctionName", x)  BY <2>3 DEF Remembers
  <2> QED BY <2>1, <2>4, FitsCall, ListedOne DEF Calls, Naming
<1>9. CASE i.d = "function count"
  <2>1. ReadNameSection(i, v, at) = <<Loop("local functions", [left |-> v, last |-> NONE])>>
    BY <1>9, Zenon DEF ReadNameSection
  <2> QED BY <1>4, <2>1, ListedOne
<1>10. CASE i.d = "locals function index"
  <2>1. ReadNameSection(i, v, at) =
            Require(v < NumTotalFuncs) \o Require(After(i.x.last, v))
            \o <<R("Count", "local count", v),
                 Loop("local functions", [left |-> i.x.left - 1, last |-> v])>>
    BY <1>10, Zenon DEF ReadNameSection
  <2>2. Listed(Sub, end, <<R("Count", "local count", v),
                           Loop("local functions", [left |-> i.x.left - 1, last |-> v])>>)
    BY <1>3, <1>4, ListedTwo
  <2> QED BY <2>1, <2>2, ListedRequire, ListedConcat
<1>11. CASE i.d = "local count"
  <2>1. ReadNameSection(i, v, at) =
            <<Call("OnLocalNameLocalCount", [index |-> i.x, count |-> v]),
              Loop("local names", [of |-> i.x, left |-> v, last |-> NONE])>>
    BY <1>11, Zenon DEF ReadNameSection
  <2> QED BY <1>4, <1>5, <2>1, ListedTwo
<1>12. CASE i.d = "named index"
  <2> DEFINE x == [i.x EXCEPT !.left = @ - 1, !.last = v]
             y == [of |-> i.x.of, index |-> v]
  <2>1. ReadNameSection(i, v, at) =
            Require(After(i.x.last, v)) \o <<R("Str", "local name", y), Loop("local names", x)>>
    BY <1>12, Zenon DEF ReadNameSection
  <2> HIDE DEF x, y
  <2>2. Listed(Sub, end, <<R("Str", "local name", y), Loop("local names", x)>>)
    BY <1>3, <1>4, ListedTwo
  <2> QED BY <2>1, <2>2, ListedRequire, ListedConcat
<1>13. CASE i.d = "local name"
  <2> DEFINE x == [of |-> i.x.of, index |-> i.x.index, name |-> v, partial |-> FALSE]
  <2>1. ReadNameSection(i, v, at) = <<Call("OnLocalName", x)>>
    BY <1>13, Zenon DEF ReadNameSection
  <2>2. v \in Bytes  BY <1>1, <1>13 DEF ReadOf, Yields, SeqPrimitives, SubReads
  <2>3. x.name \in Bytes  BY <2>2
  <2> HIDE DEF x
  <2>4. Remembers(Sub, "OnLocalName", x)  BY <2>3 DEF Remembers
  <2> QED BY <2>1, <2>4, FitsCall, ListedOne DEF Calls, Naming
<1>14. i.d \notin {"name type", "name subsection size"}
  BY <1>1 DEF SubReads
<1> QED BY <1>6, <1>7, <1>8, <1>9, <1>10, <1>11, <1>12, <1>13, <1>14 DEF NameReads

\* Inside a subsection of the linking section the items stay those of subsections.
LEMMA LinkingItems ==
    ASSUME NEW end, NEW at, NEW i, NEW v, ReadOf(Sub, end, i, v), i.d \in LinkingReads
    PROVE  Listed(Sub, end, ReadLinkingSection(i, v, at))
<1>1. SubReads(i.r, i.d) /\ Remembers(Sub, i.d, i.x)
  BY ReadFits, SectionReads DEF ReadOf
<1>2. Fits(Sub, end, Unused("Str")) /\ Fits(Sub, end, Unused("U32"))
  BY FitsUnused DEF Primitives
<1>3. /\ Reads(Sub, "U32", "entry count") /\ Reads(Sub, "U32", "sym type")
      /\ Reads(Sub, "U32", "sym flags") /\ Reads(Sub, "Str", "data symbol name")
  BY DEF Reads, SubReads
<1>4. \A x : /\ Fits(Sub, end, R("U32", "entry count", x))
             /\ Fits(Sub, end, R("U32", "sym type", x))
             /\ Fits(Sub, end, R("U32", "sym flags", x))
             /\ Fits(Sub, end, R("Str", "data symbol name", x))
  BY <1>3, FitsPlain DEF Primitives, Remembering, Naming
<1>5. i.d \in {"segment info count", "init function count", "comdat count", "entry count",
               "sym count"} => v \in Nat
  BY <1>1 DEF ReadOf, Yields, NatPrimitives, SubReads
<1>6. i.d \in {"symbol name", "data symbol name"} => v \in Bytes
  BY <1>1 DEF ReadOf, Yields, SeqPrimitives, SubReads
<1>7. CASE i.d = "segment info count"
  <2>1. ReadLinkingSection(i, v, at) =
            Times(v, <<Unused("Str"), Unused("U32"), Unused("U32")>>)
    BY <1>7, Zenon DEF ReadLinkingSection
  <2> QED BY <1>2, <1>5, <1>7, <2>1, ListedThree, ListedTimes
<1>8. CASE i.d \in {"init function count", "entry count"}
  <2>1. ReadLinkingSection(i, v, at) = Times(v, <<Unused("U32"), Unused("U32")>>)
    BY <1>8, Zenon DEF ReadLinkingSection
  <2> QED BY <1>2, <1>5, <1>8, <2>1, ListedTwo, ListedTimes
<1>9. CASE i.d = "comdat count"
  <2>1. ReadLinkingSection(i, v, at) =
            Times(v, <<Unused("Str"), Unused("U32"), R("U32", "entry count", 0)>>)
    BY <1>9, Zenon DEF ReadLinkingSection
  <2> QED BY <1>2, <1>4, <1>5, <1>9, <2>1, ListedThree, ListedTimes
<1>10. CASE i.d = "sym count"
  <2>1. ReadLinkingSection(i, v, at) = Times(v, <<R("U32", "sym type", 0)>>)
    BY <1>10, Zenon DEF ReadLinkingSection
  <2> QED BY <1>4, <1>5, <1>10, <2>1, ListedOne, ListedTimes
<1>11. CASE i.d = "sym type"
  <2>1. ReadLinkingSection(i, v, at) = <<R("U32", "sym flags", v)>>
    BY <1>11, Zenon DEF ReadLinkingSection
  <2> QED BY <1>4, <2>1, ListedOne
<1>12. CASE i.d = "sym flags"
  <2> DEFINE x == [kind |-> i.x, named |-> ~Undefined(v) \/ ExplicitName(v)]
  <2>1. ReadLinkingSection(i, v, at) =
            CASE i.x \in {0, 2, 4} -> <<R("U32", "index", x)>>
              [] i.x = 1 -> <<R("Str", "data symbol name", v)>>
              [] i.x = 3 -> <<Unused("U32")>>
              [] OTHER   -> <<>>
    BY <1>12, Zenon DEF ReadLinkingSection
  <2>2. ASSUME i.x \in {0, 2, 4} PROVE Listed(Sub, end, <<R("U32", "index", x)>>)
    <3>1. x.kind \in {0, 2, 4}  BY <2>2
    <3> HIDE DEF x
    <3>2. Reads(Sub, "U32", "index") /\ Remembers(Sub, "index", x)
      BY <3>1 DEF Reads, SubReads, Remembers, Naming
    <3> QED BY <3>2, FitsRead, ListedOne DEF Primitives
  <2>3. /\ Listed(Sub, end, <<R("Str", "data symbol name", v)>>)
        /\ Listed(Sub, end, <<Unused("U32")>>) /\ Listed(Sub, end, <<>>)
    BY <1>2, <1>4, ListedOne, ListedNone
  <2>4. i.x \notin {0, 2, 4} \/ (i.x # 1 /\ i.x # 3)  OBVIOUS
  <2> HIDE DEF x
  <2> QED BY <2>1, <2>2, <2>3, Zenon
<1>13. CASE i.d = "index"
  <2> DEFINE x == [kind |-> i.x.kind, index |-> v]
  <2>1. ReadLinkingSection(i, v, at) = When(i.x.named, <<R("Str", "symbol name", x)>>)
    BY <1>13, Zenon DEF ReadLinkingSection
  <2>2. v \in Nat  BY <1>1, <1>13 DEF ReadOf, Yields, NatPrimitives, SubReads
  <2>3. x.kind \in {0, 2, 4} /\ x.index \in Nat  BY <1>1, <1>13, <2>2 DEF Remembers
  <2> HIDE DEF x
  <2>4. Reads(Sub, "Str", "symbol name") /\ Remembers(Sub, "symbol name", x)
    BY <2>3 DEF Reads, SubReads, Remembers, Naming
  <2> QED BY <2>1, <2>4, FitsRead, ListedOne, ListedWhen DEF Primitives
<1>14. CASE i.d = "symbol name"
  <2> DEFINE x == [of |-> 0, index |-> i.x.index, name |-> v, partial |-> FALSE]
             f == SymbolCallback[i.x.kind]
  <2>1. ReadLinkingSection(i, v, at) = <<Call(f, x)>>
    BY <1>14, Zenon DEF ReadLinkingSection
  <2>2. x.name \in Bytes /\ x.index \in Nat  BY <1>1, <1>6, <1>14 DEF Remembers
  <2>3. i.x.kind \in {0, 2, 4}  BY <1>1, <1>14 DEF Remembers
  <2>4. \A k \in {0, 2, 4} :
            SymbolCallback[k] \in {"OnFunctionSymbol", "OnGlobalSymbol", "OnEventSymbol"}
    <3> SUFFICES ASSUME NEW k \in {0, 2, 4}
                 PROVE  SymbolCallback[k] \in
                            {"OnFunctionSymbol", "OnGlobalSymbol", "OnEventSymbol"}
      OBVIOUS
    <3>1. SymbolCallback[k] = CASE k = 0 -> "OnFunctionSymbol"
                                [] k = 2 -> "OnGlobalSymbol"
                                [] k = 4 -> "OnEventSymbol"
      BY Zenon DEF SymbolCallback
    <3>2. k = 0 \/ k = 2 \/ k = 4  OBVIOUS
    <3> QED BY <3>1, <3>2, Zenon
  <2>5. f \in {"OnFunctionSymbol", "OnGlobalSymbol", "OnEventSymbol"}  BY <2>3, <2>4
  <2> HIDE DEF x, f
  <2>6. Calls(Sub, f) /\ Remembers(Sub, f, x)
    BY <2>2, <2>5 DEF Calls, Remembers, Naming
  <2> QED BY <2>1, <2>6, FitsCall, ListedOne
<1>15. CASE i.d = "data symbol name"
  <2>1. ReadLinkingSection(i, v, at) = When(~Undefined(i.x), <<R("U32", "segment", v)>>)
    BY <1>15, Zenon DEF ReadLinkingSection
  <2>2. Reads(Sub, "U32", "segment") /\ Remembers(Sub, "segment", v)
    BY <1>6, <1>15 DEF Reads, SubReads, Remembers, Naming
  <2> QED BY <2>1, <2>2, FitsRead, ListedOne, ListedWhen DEF Primitives
<1>16. CASE i.d = "segment"
  <2> DEFINE x == [name |-> i.x, index |-> v]
  <2>1. ReadLinkingSection(i, v, at) = <<R("U32", "offset", x)>>
    BY <1>16, Zenon DEF ReadLinkingSection
  <2>2. x.name \in Bytes  BY <1>1, <1>16 DEF Remembers
  <2> HIDE DEF x
  <2>3. Reads(Sub, "U32", "offset") /\ Remembers(Sub, "offset", x)
    BY <2>2 DEF Reads, SubReads, Remembers, Naming
  <2> QED BY <2>1, <2>3, FitsRead, ListedOne DEF Primitives
<1>17. CASE i.d = "offset"
  <2> DEFINE x == [of |-> 0, index |-> i.x.index, name |-> i.x.name, partial |-> v # 0]
  <2>1. ReadLinkingSection(i, v, at) = <<Unused("U32"), Call("OnDataSymbol", x)>>
    BY <1>17, Zenon DEF ReadLinkingSection
  <2>2. x.name \in Bytes  BY <1>1, <1>17 DEF Remembers
  <2> HIDE DEF x
  <2>3. Calls(Sub, "OnDataSymbol") /\ Remembers(Sub, "OnDataSymbol", x)
    BY <2>2 DEF Calls, Remembers, Naming
  <2> QED BY <1>2, <2>1, <2>3, FitsCall, ListedTwo
<1>18. i.d \notin {"version", "linking type", "linking subsection size"}
  BY <1>1 DEF SubReads
<1> QED BY <1>7, <1>8, <1>9, <1>10, <1>11, <1>12, <1>13, <1>14, <1>15, <1>16, <1>17, <1>18
        DEF LinkingReads

\* Inside a subsection of either section the items stay those of subsections.
LEMMA ListedSub ==
    ASSUME NEW end, NEW at, NEW i, NEW v, ReadOf(Sub, end, i, v)
    PROVE  Listed(Sub, end, ReadCustomSection(i, v, at))
<1>1. SubReads(i.r, i.d)  BY ReadFits, SectionReads DEF ReadOf
<1>2. i.d \in NameReads \cup LinkingReads
  BY <1>1 DEF SubReads, NameReads, LinkingReads
<1>3. CASE i.d \in NameReads
  <2>1. ReadCustomSection(i, v, at) = ReadNameSection(i, v, at)  BY <1>3, CustomHandlers
  <2> QED BY <1>3, <2>1, NameItems
<1>4. CASE i.d \in LinkingReads
  <2>1. ReadCustomSection(i, v, at) = ReadLinkingSection(i, v, at)  BY <1>4, CustomHandlers
  <2> QED BY <1>4, <2>1, LinkingItems
<1> QED BY <1>2, <1>3, <1>4

\* The loops inside subsections.
LEMMA SubLoops ==
    \A d : Loops(Sub, d) => d = "function names" \/ d = "local functions" \/ d = "local names"
<1>1. Sub # 0 /\ Sub # 6 /\ Sub # 10  BY DEF Sub
<1> QED BY <1>1 DEF Loops

\* What a loop does next.
LEMMA ListedUnfold ==
    ASSUME NEW c, NEW end, NEW i, Fits(c, end, i), i.r = "loop"
    PROVE  Listed(c, end, Unfold(i))
<1>1. Loops(c, i.d) /\ Remembers(c, i.d, i.x)
  BY DEF Fits, Primitives
<1>2. CASE c = 0
  <2>1. Reads(0, "U32", "name type") /\ Reads(0, "U32", "linking type")
    BY DEF Reads, CustomReads
  <2>2. \A x : /\ Listed(0, end, <<R("U32", "name type", x)>>)
               /\ Listed(0, end, <<R("U32", "linking type", x)>>)
    BY <2>1, FitsPlain, ListedOne DEF Primitives, Remembering, Naming
  <2>3. i.d = "names" \/ i.d = "linking"  BY <1>1, <1>2 DEF Loops, Sub
  <2>4. i.d = "names" => Unfold(i) = When(offset < read_end, <<R("U32", "name type", i.x)>>)
    BY Zenon DEF Unfold
  <2>5. i.d = "linking" => Unfold(i) = When(offset < read_end, <<R("U32", "linking type", 0)>>)
    BY Zenon DEF Unfold
  <2> QED BY <1>2, <2>2, <2>3, <2>4, <2>5, ListedWhen
<1>3. CASE c = Sub
  <2>1. /\ Reads(Sub, "Index", "function index") /\ Reads(Sub, "Index", "named index")
        /\ Reads(Sub, "Index", "locals function index")
    BY DEF Reads, SubReads
  <2>2. \A x : /\ Listed(Sub, end, <<R("Index", "function index", x)>>)
               /\ Listed(Sub, end, <<R("Index", "locals function index", x)>>)
               /\ Listed(Sub, end, <<R("Index", "named index", x)>>)
    BY <2>1, FitsPlain, ListedOne DEF Primitives, Remembering, Naming
  <2>3. i.d = "function names" \/ i.d = "local functions" \/ i.d = "local names"
    BY <1>1, <1>3, SubLoops
  <2>4. i.d = "function names" =>
            Unfold(i) = When(i.x.left > 0, <<R("Index", "function index", i.x)>>)
    BY Zenon DEF Unfold
  <2>5. i.d = "local functions" =>
            Unfold(i) = When(i.x.left > 0, <<R("Index", "locals function index", i.x)>>)
    BY Zenon DEF Unfold
  <2>6. i.d = "local names" =>
            Unfold(i) = When(i.x.left > 0, <<R("Index", "named index", i.x)>>)
    BY Zenon DEF Unfold
  <2> QED BY <1>3, <2>2, <2>3, <2>4, <2>5, <2>6, ListedWhen
<1>4. CASE c = 6
  <2>1. i.d = "global"  BY <1>1, <1>4 DEF Loops, Sub
  <2>2. Unfold(i) = ReadGlobal(i.x)  BY <2>1, Zenon DEF Unfold
  <2>3. ReadGlobal(i.x) =
            ReadGlobalHeader
            \o <<Call("BeginGlobal", i.x), Call("BeginGlobalInitExpr", i.x)>>
            \o ReadInitExpr(FALSE) \o <<Call("EndGlobalInitExpr", i.x)>>
    BY DEF ReadGlobal
  <2>4. Reads(6, "Type", "global type") /\ Reads(6, "U8", "global mutability")
    BY DEF Reads, GlobalSectionReads, GlobalReads
  <2>5. /\ Fits(6, end, R("Type", "global type", 0))
        /\ Fits(6, end, R("U8", "global mutability", 0))
    BY <2>4, FitsPlain DEF Primitives, Remembering, Naming
  <2>6. Listed(6, end, ReadGlobalHeader)  BY <2>5, ListedTwo DEF ReadGlobalHeader
  <2>7. /\ Fits(6, end, Call("BeginGlobal", i.x))
        /\ Fits(6, end, Call("BeginGlobalInitExpr", i.x))
        /\ Fits(6, end, Call("EndGlobalInitExpr", i.x))
    BY FitsCall DEF Calls, Remembers, Naming, Initializing
  <2>8. /\ Listed(6, end, <<Call("BeginGlobal", i.x), Call("BeginGlobalInitExpr", i.x)>>)
        /\ Listed(6, end, <<Call("EndGlobalInitExpr", i.x)>>)
    BY <2>7, ListedOne, ListedTwo
  <2>9. Listed(6, end, ReadInitExpr(FALSE))  BY ListedInitExpr
  <2> QED BY <1>4, <2>2, <2>3, <2>6, <2>8, <2>9, ListedConcat
<1>5. CASE c = 10
  <2>1. i.d = "body"  BY <1>1, <1>5 DEF Loops, Sub
  <2>2. Unfold(i) = IF offset < i.x.end THEN <<R("Opcode", "opcode", i.x.end)>>
                    ELSE Require(offset = i.x.end) \o Require(i.x.seen_end)
    BY <2>1, Zenon DEF Unfold
  <2>3. i.x.end \in Nat  BY <1>1, <2>1 DEF Remembers
  <2>4. Reads(10, "Opcode", "opcode") /\ Remembers(10, "opcode", i.x.end)
    BY <2>3 DEF Reads, CodeReads, Remembers, Naming
  <2>5. Listed(10, end, <<R("Opcode", "opcode", i.x.end)>>)
    BY <2>4, FitsRead, ListedOne DEF Primitives
  <2>6. Listed(10, end, Require(offset = i.x.end) \o Require(i.x.seen_end))
    BY ListedRequire, ListedConcat
  <2> QED BY <1>5, <2>2, <2>5, <2>6
<1> QED BY <1>1, <1>2, <1>3, <1>4, <1>5 DEF Loops

\* What is read in the sections of entries.
LEMMA ListedThen ==
    ASSUME section \in 1 .. 13, NEW end, NEW i, NEW v, NEW at \in Nat,
           Fits(section, end, i), i.r \in Primitives, Yields(i, v), num.func \in Nat
    PROVE  Listed(section, end, Then(i, v, at))
<1>1. CASE i.d = "any"
  BY <1>1, ListedNone DEF Then
<1>2. CASE i.d # "any"
  <2>1. ReadOf(section, end, i, v)  BY <1>2 DEF ReadOf
  <2>2. Then(i, v, at) =
            CASE section = 0  -> ReadCustomSection(i, v, at)
              [] section = 1  -> ReadTypeSection(i, v)
              [] section = 2  -> ReadImportSection(i, v)
              [] section = 3  -> ReadFunctionSection(i, v)
              [] section = 4  -> ReadTableSection(i, v)
              [] section = 5  -> ReadMemorySection(i, v)
              [] section = 6  -> ReadGlobalSection(i, v)
              [] section = 7  -> ReadExportSection(i, v)
              [] section = 8  -> ReadStartSection(i, v)
              [] section = 9  -> ReadElemSection(i, v)
              [] section = 10 -> ReadCodeSection(i, v, at)
              [] section = 11 -> ReadDataSection(i, v)
              [] section = 12 -> ReadDataCountSection(i, v)
              [] section = 13 -> ReadEventSection(i, v)
    BY <1>2, Zenon DEF Then
  <2> DEFINE Good(k, s) == section = k => Listed(section, end, s)
  <2>3. /\ Good(1, ReadTypeSection(i, v))
        /\ Good(2, ReadImportSection(i, v))
        /\ Good(3, ReadFunctionSection(i, v))
        /\ Good(4, ReadTableSection(i, v))
        /\ Good(5, ReadMemorySection(i, v))
        /\ Good(6, ReadGlobalSection(i, v))
        /\ Good(7, ReadExportSection(i, v))
    BY <2>1, ListedTypes, ListedImports, ListedFunctions, ListedTables, ListedMemories,
       ListedGlobals, ListedExports
  <2>4. /\ Good(8, ReadStartSection(i, v))
        /\ Good(9, ReadElemSection(i, v))
        /\ Good(10, ReadCodeSection(i, v, at))
        /\ Good(11, ReadDataSection(i, v))
        /\ Good(12, ReadDataCountSection(i, v))
        /\ Good(13, ReadEventSection(i, v))
    BY <2>1, ListedStart, ListedElems, ListedCode, ListedData, ListedDataCount, ListedEvents
  <2>5. /\ section # 0
        /\ \/ section = 1 \/ section = 2 \/ section = 3 \/ section = 4 \/ section = 5
           \/ section = 6 \/ section = 7 \/ section = 8 \/ section = 9 \/ section = 10
           \/ section = 11 \/ section = 12 \/ section = 13
    OBVIOUS
  <2> HIDE DEF Good
  <2>6. Good(section, Then(i, v, at))
    BY <2>2, <2>3, <2>4, <2>5, ZenonT(60)
  <2> QED BY <2>6 DEF Good
<1> QED BY <1>1, <1>2

\* Each section starts with its first read.
LEMMA FirstItem ==
    ASSUME NEW code \in 1 .. 13, NEW end
    PROVE  Listed(code, end, <<FirstRead(code)>>)
<1>1. /\ Reads(1, "Count", "type count") /\ Reads(2, "Count", "import count")
      /\ Reads(3, "Count", "function signature count") /\ Reads(4, "Count", "table count")
      /\ Reads(5, "Count", "memory count") /\ Reads(6, "Count", "global count")
      /\ Reads(7, "Count", "export count") /\ Reads(8, "Index", "start function index")
      /\ Reads(9, "Count", "elem segment count") /\ Reads(10, "Count", "function body count")
      /\ Reads(11, "Count", "data segment count") /\ Reads(12, "Index", "data count")
      /\ Reads(13, "Count", "event count")
  BY DEF Reads, TypeReads, ImportReads, FunctionReads, TableSectionReads, MemorySectionReads,
         GlobalSectionReads, ExportReads, StartReads, ElemReads, CodeReads, DataReads,
         DataCountReads, EventSectionReads
<1>2. \A r \in {"Count", "Index"} :
          \A d \in {"type count", "import count", "function signature count", "table count",
                    "memory count", "global count", "export count", "start function index",
                    "elem segment count", "function body count", "data segment count",
                    "data count", "event count"} :
              \A c : Reads(c, r, d) => Listed(c, end, <<R(r, d, 0)>>)
  BY FitsPlain, ListedOne, ZenonT(60) DEF Primitives, Remembering, Naming
<1>3. /\ Listed(1, end, <<R("Count", "type count", 0)>>)
      /\ Listed(2, end, <<R("Count", "import count", 0)>>)
      /\ Listed(3, end, <<R("Count", "function signature count", 0)>>)
      /\ Listed(4, end, <<R("Count", "table count", 0)>>)
      /\ Listed(5, end, <<R("Count", "memory count", 0)>>)
      /\ Listed(6, end, <<R("Count", "global count", 0)>>)
      /\ Listed(7, end, <<R("Count", "export count", 0)>>)
      /\ Listed(8, end, <<R("Index", "start function index", 0)>>)
      /\ Listed(9, end, <<R("Count", "elem segment count", 0)>>)
      /\ Listed(10, end, <<R("Count", "function body count", 0)>>)
      /\ Listed(11, end, <<R("Count", "data segment count", 0)>>)
      /\ Listed(12, end, <<R("Index", "data count", 0)>>)
      /\ Listed(13, end, <<R("Count", "event count", 0)>>)
  BY <1>1, <1>2
<1>4. /\ code # 0
      /\ \/ code = 1 \/ code = 2 \/ code = 3 \/ code = 4 \/ code = 5 \/ code = 6 \/ code = 7
         \/ code = 8 \/ code = 9 \/ code = 10 \/ code = 11 \/ code = 12 \/ code = 13
  OBVIOUS
<1> QED BY <1>3, <1>4, ZenonT(60) DEF FirstRead
=============================================================================
