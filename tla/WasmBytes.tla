------------------------------ MODULE WasmBytes ------------------------------
(***************************************************************************)
(* What the binary reader reads from the bytes of a file (the primitives of  *)
(* src/binary-reader.cc and src/leb128.cc).  d is the sequence of all bytes, *)
(* i the offset of the first byte to read, end the limit read_end_.  Each    *)
(* operator returns the number n of bytes taken, 0 when it fails, and the    *)
(* value v.  Values stay below 2^31, the bound of TLC's integers.            *)
(***************************************************************************)
EXTENDS Integers, Sequences

CannotRead == [n |-> 0, v |-> 0]

\* The bytes of the LEB128 number at i: its last one is the first below 128, and
\* when that is also the last one allowed it must be one of fitting.
LebSize(d, i, end, most, fitting) ==
    LET Last(n) == /\ i + n <= end /\ d[i + n] < 128
                   /\ \A k \in 1 .. n - 1 : d[i + k] >= 128
                   /\ n = most => d[i + n] \in fitting
    IN  IF \E n \in 1 .. most : Last(n) THEN CHOOSE n \in 1 .. most : Last(n) ELSE 0

\* The value of n bytes, seven bits each from the lowest; the last stands for top.
LebValue(d, i, n, top) ==
    LET Part(k) == IF k > n THEN 0 ELSE IF k = n THEN top ELSE d[i + k] % 128
    IN  Part(1) + 128 * Part(2) + 16384 * Part(3) + 2097152 * Part(4) + 268435456 * Part(5)

Unsigned(b) == b
\* Bit 6 of the last byte is the sign.
Signed(b)   == IF b < 64 THEN b ELSE b - 128

ReadU32Leb128(d, i, end) ==
    LET n == LebSize(d, i, end, 5, 0 .. 15)
    IN  [n |-> n, v |-> LebValue(d, i, n, Unsigned(d[i + n]))]

\* In the fifth byte the bits above bit 3 must repeat it.
ReadS32Leb128(d, i, end) ==
    LET n == LebSize(d, i, end, 5, (0 .. 7) \cup (120 .. 127))
    IN  [n |-> n, v |-> LebValue(d, i, n, Signed(d[i + n]))]

\* Nothing depends on the value of an i64.
ReadS64Leb128(d, i, end) == [n |-> LebSize(d, i, end, 10, {0, 127}), v |-> 0]

\* ReadT: a value of n bytes of which at most the first matters.
ReadT(d, i, end, n) == IF i + n > end THEN CannotRead ELSE [n |-> n, v |-> d[i + 1]]

\* A length and as many bytes.
ReadBytes(d, i, end) ==
    LET u == ReadU32Leb128(d, i, end)
    IN  IF u.n = 0 \/ i + u.n + u.v > end THEN [n |-> 0, v |-> <<>>]
        ELSE [n |-> u.n + u.v, v |-> SubSeq(d, i + u.n + 1, i + u.n + u.v)]

\* The files hold names in ASCII and, for invalid ones, a byte of 128 or more.
IsValidUtf8(s) == \A k \in DOMAIN s : s[k] < 128

ReadStr(d, i, end) ==
    LET b == ReadBytes(d, i, end)
    IN  IF IsValidUtf8(b.v) THEN b ELSE [n |-> 0, v |-> <<>>]

\* An opcode is a pair of its prefix, 0 for none, and its code.
OpcodePrefixes == {252, 253, 254}

ReadOpcode(d, i, end) ==
    LET b == ReadT(d, i, end, 1)
        u == ReadU32Leb128(d, i + 1, end)
    IN  IF b.n = 0 \/ (b.v \in OpcodePrefixes /\ u.n = 0) THEN [n |-> 0, v |-> <<0, 0>>]
        ELSE IF b.v \in OpcodePrefixes THEN [n |-> 1 + u.n, v |-> <<b.v, u.v>>]
        ELSE [n |-> 1, v |-> <<0, b.v>>]

\* ReadCount: each of the things counted takes a byte at least.
ReadCount(d, i, end) ==
    LET u == ReadU32Leb128(d, i, end)
    IN  IF u.v > end - i - u.n THEN CannotRead ELSE u

kExternalKindCount == 5

ReadExternalKind(d, i, end) ==
    LET b == ReadT(d, i, end, 1)
    IN  IF b.v >= kExternalKindCount THEN CannotRead ELSE b

\* The primitive a reader names.
ReadAs(r, d, i, end) ==
    CASE r \in {"U32", "Index", "Offset"} -> ReadU32Leb128(d, i, end)
      [] r = "Count"        -> ReadCount(d, i, end)
      [] r \in {"S32", "Type"} -> ReadS32Leb128(d, i, end)
      [] r = "S64"          -> ReadS64Leb128(d, i, end)
      [] r = "U8"           -> ReadT(d, i, end, 1)
      [] r = "F32"          -> ReadT(d, i, end, 4)
      [] r = "F64"          -> ReadT(d, i, end, 8)
      [] r = "V128"         -> ReadT(d, i, end, 16)
      [] r = "ExternalKind" -> ReadExternalKind(d, i, end)
      [] r = "Opcode"       -> ReadOpcode(d, i, end)
      [] r = "Str"          -> ReadStr(d, i, end)
      [] r = "Bytes"        -> ReadBytes(d, i, end)
=============================================================================
