---------------------------- MODULE SectionFrames ----------------------------
(***************************************************************************)
(* What reading the sections of a module amounts to, whatever is in them:    *)
(* the file is a chain of frames (a code, a size, and as many bytes), each   *)
(* beginning where the one before ends; the frames that are not custom come  *)
(* in the order of the format, each at most once.  A file may be rejected    *)
(* anywhere and is accepted only at its end.                                 *)
(***************************************************************************)
EXTENDS WasmBytes

CONSTANT Rank(_)   \* the place of a section code in the format

VARIABLES data, pos, last, verdict
frameVars == <<data, pos, last, verdict>>

FramesInit == data \in Seq(0 .. 255) /\ pos = 0 /\ last = 0 /\ verdict = "none"

TakeFrame ==
    /\ verdict = "none"
    /\ \E code \in {ReadU32Leb128(data, pos, Len(data))} :
       \E length \in {ReadU32Leb128(data, pos + code.n, Len(data))} :
           /\ code.n > 0 /\ length.n > 0
           /\ pos' = pos + code.n + length.n + length.v /\ pos' <= Len(data)
           /\ IF code.v = 0 THEN last' = last
              ELSE last' = Rank(code.v) /\ last' > last
    /\ UNCHANGED <<data, verdict>>

Accept ==
    /\ verdict = "none" /\ pos = Len(data)
    /\ verdict' = "accepted"
    /\ UNCHANGED <<data, pos, last>>

\* Where a rejected file was left is not said.
Reject ==
    /\ verdict = "none"
    /\ verdict' = "rejected" /\ pos' \in Nat
    /\ UNCHANGED <<data, last>>

FramesNext == TakeFrame \/ Accept \/ Reject

FramesSpec == FramesInit /\ [][FramesNext]_frameVars
=============================================================================
