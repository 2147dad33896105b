----------------------- MODULE BlockHierarchy_proofs -----------------------
(***************************************************************************)
(* Type correctness of the block hierarchy and the three facts the label    *)
(* search relies on -- laminar pc ranges, innermost parents, an if right    *)
(* before every else -- for every instruction vector.                       *)
(*                                                                          *)
(* The invariant is stated on a block vector, a work stack and two pc       *)
(* bounds rather than on the state, because `else' closes one block and     *)
(* opens another in one step: the vector in between is not a state.         *)
(***************************************************************************)
EXTENDS BlockHierarchy, SequenceTheorems, FiniteSetTheorems, TLAPS

\* wk lists the open blocks of blks, outermost first.
WorkSorted(wk) == \A i, j \in DOMAIN wk : i < j => wk[i] < wk[j]

OpenIffOnWork(blks, wk) ==
    \A b \in DOMAIN blks : IsOpen(blks, b) <=> \E i \in DOMAIN wk : wk[i] = b

WorkIsChain(blks, wk) ==
    \A i \in DOMAIN wk : blks[wk[i]].parent = IF i = 1 THEN 0 ELSE wk[i - 1]

\* No block begins after pc s, and every closed one ended before pc e.
PcBounds(blks, s, e) ==
    \A b \in DOMAIN blks :
        /\ blks[b].start \in 1 .. s
        /\ ~IsOpen(blks, b) => blks[b].end < e

TreeInv(blks, wk, s, e) ==
    /\ blks \in Seq(WINST_BLK)
    /\ wk \in Seq(DOMAIN blks)
    /\ WorkSorted(wk)
    /\ OpenIffOnWork(blks, wk)
    /\ WorkIsChain(blks, wk)
    /\ PcBounds(blks, s, e)
    /\ LaminarTree(blks)
    /\ InnermostParents(blks)
    /\ ElseAfterIf(blks)

\* The inductive invariant of the build loop.
HierInv ==
    /\ HierTypeOK
    /\ TreeInv(blocks, work, ins_cnt, ins_cnt)
-----------------------------------------------------------------------------
(* What the two helpers do to the vector, field by field.                   *)

\* A sequence has a length, and elements of its set.
LEMMA SeqBasics ==
    ASSUME NEW S, NEW s \in Seq(S)
    PROVE  Len(s) \in Nat /\ DOMAIN s = 1 .. Len(s) /\ \A i \in DOMAIN s : s[i] \in S
BY LenProperties

\* The top of a stack and what is below it.
LEMMA StackTop ==
    ASSUME NEW S, NEW wk \in Seq(S), wk # <<>>
    PROVE  /\ Len(wk) \in Nat \ {0}
           /\ Last(wk) = wk[Len(wk)]
           /\ Last(wk) \in S
           /\ Front(wk) \in Seq(S)
           /\ Len(Front(wk)) = Len(wk) - 1
           /\ \A i \in 1 .. Len(wk) - 1 : Front(wk)[i] = wk[i]
<1>1. Len(wk) \in Nat \ {0} /\ \A i \in 1 .. Len(wk) : wk[i] \in S
  BY EmptySeq, SeqBasics
<1>2. Front(wk) = SubSeq(wk, 1, Len(wk) - 1)  BY DEF Front
<1>3. \A i \in 1 .. Len(wk) - 1 : wk[i] \in S  BY <1>1
<1>4. PICK n \in Nat : n = Len(wk) - 1  BY <1>1
<1>5. /\ Front(wk) \in Seq(S)
      /\ Len(Front(wk)) = IF 1 <= n THEN n - 1 + 1 ELSE 0
      /\ \A i \in 1 .. n - 1 + 1 : Front(wk)[i] = wk[1 + i - 1]
  <2>1. \A i \in 1 .. n : wk[i] \in S  BY <1>3, <1>4
  <2>2. n \in Int /\ 1 \in Int  BY <1>4
  <2>3. Front(wk) = SubSeq(wk, 1, n)  BY <1>2, <1>4
  <2> QED BY ONLY <2>1, <2>2, <2>3, SubSeqProperties
<1>6. Len(Front(wk)) = n /\ \A i \in 1 .. n : Front(wk)[i] = wk[i]
  <2>1. n - 1 + 1 = n /\ (~(1 <= n) => n = 0)
        /\ \A i \in 1 .. n : 1 + i - 1 = i
    BY <1>4
  <2> QED BY <1>5, <2>1
<1>7. Last(wk) = wk[Len(wk)] /\ Last(wk) \in S  BY <1>1 DEF Last
<1> QED BY <1>1, <1>4, <1>5, <1>6, <1>7

\* A new block is appended open, below the innermost open one, which lists it.
LEMMA CreateShape ==
    ASSUME NEW blks \in Seq(WINST_BLK), NEW wk \in Seq(DOMAIN blks),
           NEW pc \in Nat, NEW kind \in BLK_KIND
    PROVE  LET new == Create_new_block(wk, blks, pc, kind)
               id  == Len(blks) + 1
           IN  /\ new \in Seq(WINST_BLK)
               /\ Len(new) = id
               /\ \A b \in 1 .. Len(blks) :
                     /\ new[b].kind = blks[b].kind
                     /\ new[b].parent = blks[b].parent
                     /\ new[b].start = blks[b].start
                     /\ new[b].end = blks[b].end
               /\ new[id].kind = kind
               /\ new[id].parent = IF wk = <<>> THEN 0 ELSE Last(wk)
               /\ new[id].start = pc
               /\ new[id].end = 0
<1> DEFINE id == Len(blks) + 1
<1>1. Len(blks) \in Nat /\ DOMAIN blks = 1 .. Len(blks)
      /\ \A b \in 1 .. Len(blks) : blks[b] \in WINST_BLK
  BY SeqBasics
<1>2. CASE wk = <<>>
  <2>1. NewBlk(kind, 0, pc) \in WINST_BLK  BY DEF NewBlk, WINST_BLK
  <2> QED BY <1>1, <1>2, <2>1 DEF Create_new_block, NewBlk
<1>3. CASE wk # <<>>
  <2> DEFINE t == Last(wk)
             linked == [blks EXCEPT ![t].child = Append(@, id)]
  <2>1. t \in 1 .. Len(blks)  BY <1>1, <1>3, StackTop
  <2>2. blks[t] \in WINST_BLK  BY <1>1, <2>1
  <2>3. Append(blks[t].child, id) \in Seq(Nat)  BY <1>1, <2>2 DEF WINST_BLK
  <2>4. [blks[t] EXCEPT !.child = Append(@, id)] \in WINST_BLK
    BY <2>2, <2>3 DEF WINST_BLK
  <2>5. linked = [blks EXCEPT ![t] = [blks[t] EXCEPT !.child = Append(@, id)]]
    OBVIOUS
  <2>6. /\ linked \in Seq(WINST_BLK)
        /\ Len(linked) = Len(blks)
        /\ \A b \in 1 .. Len(blks) :
              linked[b] = IF b = t THEN [blks[t] EXCEPT !.child = Append(@, id)]
                          ELSE blks[b]
    BY <2>1, <2>4, <2>5, ExceptSeq
  <2>7. \A b \in 1 .. Len(blks) :
            /\ linked[b].kind = blks[b].kind
            /\ linked[b].parent = blks[b].parent
            /\ linked[b].start = blks[b].start
            /\ linked[b].end = blks[b].end
    BY <1>1, <2>2, <2>6 DEF WINST_BLK
  <2>8. NewBlk(kind, t, pc) \in WINST_BLK  BY <1>1, <2>1 DEF NewBlk, WINST_BLK
  <2>9. Create_new_block(wk, blks, pc, kind) = Append(linked, NewBlk(kind, t, pc))
    BY <1>3 DEF Create_new_block
  <2> HIDE DEF linked, t
  <2> QED BY <1>1, <1>3, <2>6, <2>7, <2>8, <2>9 DEF NewBlk, t
<1> QED BY <1>2, <1>3

\* Closing the innermost block sets its end and nothing else.
LEMMA FinishShape ==
    ASSUME NEW blks \in Seq(WINST_BLK), NEW wk \in Seq(DOMAIN blks),
           wk # <<>>, NEW pc \in Nat
    PROVE  LET new == Finish_old_block(wk, blks, pc)
           IN  /\ new \in Seq(WINST_BLK)
               /\ Len(new) = Len(blks)
               /\ \A b \in 1 .. Len(blks) :
                     /\ new[b].kind = blks[b].kind
                     /\ new[b].parent = blks[b].parent
                     /\ new[b].start = blks[b].start
                     /\ new[b].end = IF b = Last(wk) THEN pc ELSE blks[b].end
<1> DEFINE t == Last(wk)
<1>1. Len(blks) \in Nat /\ DOMAIN blks = 1 .. Len(blks)
      /\ \A b \in 1 .. Len(blks) : blks[b] \in WINST_BLK
  BY SeqBasics
<1>2. t \in 1 .. Len(blks)  BY <1>1, StackTop
<1>3. [blks[t] EXCEPT !.end = pc] \in WINST_BLK  BY <1>1, <1>2 DEF WINST_BLK
<1>4. Finish_old_block(wk, blks, pc) = [blks EXCEPT ![t] = [blks[t] EXCEPT !.end = pc]]
  BY DEF Finish_old_block
<1> HIDE DEF t
<1>5. /\ Finish_old_block(wk, blks, pc) \in Seq(WINST_BLK)
      /\ Len(Finish_old_block(wk, blks, pc)) = Len(blks)
      /\ \A b \in 1 .. Len(blks) :
            Finish_old_block(wk, blks, pc)[b]
              = IF b = t THEN [blks[t] EXCEPT !.end = pc] ELSE blks[b]
  BY <1>2, <1>3, <1>4, ExceptSeq
<1> QED BY <1>1, <1>2, <1>5 DEF WINST_BLK, t
-----------------------------------------------------------------------------
(* Closing the innermost block at pc keeps the invariant.                   *)

\* Closing the innermost block at pc keeps TreeInv.
LEMMA FinishPreserves ==
    ASSUME NEW blks, NEW wk, NEW pc \in Nat \ {0},
           TreeInv(blks, wk, pc, pc), wk # <<>>
    PROVE  TreeInv(Finish_old_block(wk, blks, pc), Front(wk), pc, pc + 1)
<1> DEFINE new == Finish_old_block(wk, blks, pc)
           t   == Last(wk)
           n   == Len(wk)
           N   == Len(blks)
<1>1. blks \in Seq(WINST_BLK) /\ wk \in Seq(DOMAIN blks)  BY DEF TreeInv
<1>2. N \in Nat /\ DOMAIN blks = 1 .. N
      /\ \A b \in 1 .. N : blks[b] \in WINST_BLK
  BY <1>1, SeqBasics
<1>3. /\ n \in Nat \ {0} /\ t = wk[n] /\ t \in 1 .. N
      /\ Front(wk) \in Seq(1 .. N) /\ Len(Front(wk)) = n - 1
      /\ \A i \in 1 .. n - 1 : Front(wk)[i] = wk[i]
  BY <1>1, <1>2, StackTop
<1>4. /\ new \in Seq(WINST_BLK) /\ Len(new) = N /\ DOMAIN new = 1 .. N
      /\ \A b \in 1 .. N : /\ new[b].kind = blks[b].kind
                           /\ new[b].parent = blks[b].parent
                           /\ new[b].start = blks[b].start
                           /\ new[b].end = IF b = t THEN pc ELSE blks[b].end
  BY <1>1, <1>2, FinishShape, SeqBasics
<1>5. DOMAIN wk = 1 .. n /\ DOMAIN Front(wk) = 1 .. n - 1
      /\ \A i \in 1 .. n : wk[i] \in 1 .. N
  BY <1>1, <1>2, <1>3, SeqBasics, ZenonT(60)
<1>6. \A b \in 1 .. N : /\ blks[b].start \in Nat /\ blks[b].end \in Nat
                        /\ blks[b].parent \in Nat
  BY <1>2 DEF WINST_BLK
<1> HIDE DEF new, t, n, N
<1>7. IsOpen(blks, t)
  BY <1>2, <1>3, <1>5, SMTT(30) DEF TreeInv, OpenIffOnWork
<1>6a. \A i, j \in 1 .. n : i < j => wk[i] < wk[j]
  BY <1>5 DEF TreeInv, WorkSorted
<1>8. \A b \in 1 .. N : IsOpen(blks, b) => b <= t
  <2> SUFFICES ASSUME NEW b \in 1 .. N, IsOpen(blks, b) PROVE b <= t  OBVIOUS
  <2>1. PICK i \in 1 .. n : wk[i] = b
    BY <1>2, <1>5 DEF TreeInv, OpenIffOnWork
  <2>2. n \in 1 .. n /\ (i < n \/ i = n)  BY <1>3
  <2> QED BY <1>2, <1>3, <1>5, <1>6a, <2>1, <2>2
<1>9. \A b \in 1 .. N : /\ blks[b].start \in 1 .. pc
                        /\ ~IsOpen(blks, b) => blks[b].end < pc
  BY <1>2 DEF TreeInv, PcBounds
<1>10. \A b \in 1 .. N : IsOpen(new, b) <=> IsOpen(blks, b) /\ b # t
  BY <1>3, <1>4, <1>6 DEF IsOpen
<1>11. WorkSorted(Front(wk))
  <2> SUFFICES ASSUME NEW i \in 1 .. n - 1, NEW j \in 1 .. n - 1, i < j
               PROVE  Front(wk)[i] < Front(wk)[j]
    BY <1>5 DEF WorkSorted
  <2>1. i \in 1 .. n /\ j \in 1 .. n  BY <1>3
  <2> QED BY <1>3, <1>6a, <2>1
<1>12. OpenIffOnWork(new, Front(wk))
  <2> SUFFICES ASSUME NEW b \in 1 .. N
               PROVE  IsOpen(new, b) <=> \E i \in 1 .. n - 1 : Front(wk)[i] = b
    BY <1>4, <1>5 DEF OpenIffOnWork
  <2>1. IsOpen(blks, b) <=> \E i \in 1 .. n : wk[i] = b
    BY <1>2, <1>5 DEF TreeInv, OpenIffOnWork
  <2>2. \A i \in 1 .. n - 1 : wk[i] # t
    <3> TAKE i \in 1 .. n - 1
    <3>1. i \in 1 .. n /\ n \in 1 .. n /\ i < n  BY <1>3
    <3>2. wk[i] < wk[n]  BY <1>6a, <3>1
    <3> QED BY <1>2, <1>3, <1>5, <3>1, <3>2
  <2>3. \A i \in 1 .. n : wk[i] = b /\ b # t => i \in 1 .. n - 1
    BY <1>3
  <2> QED BY <1>3, <1>10, <2>1, <2>2, <2>3
<1>13. WorkIsChain(new, Front(wk))
  <2> SUFFICES ASSUME NEW i \in 1 .. n - 1
               PROVE  new[Front(wk)[i]].parent = IF i = 1 THEN 0 ELSE Front(wk)[i - 1]
    BY <1>5 DEF WorkIsChain
  <2>1. blks[wk[i]].parent = IF i = 1 THEN 0 ELSE wk[i - 1]
    BY <1>3, <1>5, SMTT(30) DEF TreeInv, WorkIsChain
  <2>2. i # 1 => i - 1 \in 1 .. n - 1  BY <1>3
  <2> QED BY <1>3, <1>4, <1>5, <2>1, <2>2, SMTT(30)
<1>14. PcBounds(new, pc, pc + 1)
  <2> SUFFICES ASSUME NEW b \in 1 .. N
               PROVE  new[b].start \in 1 .. pc /\ (~IsOpen(new, b) => new[b].end < pc + 1)
    BY <1>4 DEF PcBounds
  <2> QED BY <1>4, <1>6, <1>9, <1>10
\* A block created after t is over, so t closes around it; one created before t
\* is open if it encloses t.
<1>15. \A b, c \in 1 .. N : Before(blks, b, c) => Before(new, b, c)
  BY <1>4, <1>7, <1>10 DEF Before
<1>16. \A b, c \in 1 .. N : Encloses(blks, b, c) /\ b < c => Encloses(new, b, c)
  <2> SUFFICES ASSUME NEW b \in 1 .. N, NEW c \in 1 .. N, b < c, Encloses(blks, b, c)
               PROVE  Encloses(new, b, c)
    OBVIOUS
  <2>1. CASE b = t
    <3>1. ~IsOpen(blks, c) /\ c # t  BY <1>3, <1>8, <2>1
    <3>2. blks[c].end < pc  BY <1>9, <3>1
    <3> QED BY <1>4, <1>10, <2>1, <3>1, <3>2 DEF Encloses
  <2>2. CASE c = t
    <3>1. IsOpen(blks, b)  BY <1>7, <2>2 DEF Encloses
    <3> QED BY <1>4, <1>10, <2>2, <3>1 DEF Encloses
  <2>3. CASE b # t /\ c # t
    BY <1>4, <1>10, <2>3 DEF Encloses
  <2> QED BY <2>1, <2>2, <2>3
<1>17. LaminarTree(new)
  BY <1>2, <1>4, <1>15, <1>16 DEF TreeInv, LaminarTree
<1>18. InnermostParents(new)
  <2> SUFFICES ASSUME NEW c \in 1 .. N
               PROVE  /\ blks[c].parent < c
                      /\ blks[c].parent # 0 => Encloses(new, blks[c].parent, c)
                      /\ \A b \in 1 .. N : blks[c].parent < b /\ b < c => Before(new, b, c)
    BY <1>4 DEF InnermostParents
  <2>1. /\ blks[c].parent < c
        /\ blks[c].parent # 0 => Encloses(blks, blks[c].parent, c)
        /\ \A b \in 1 .. N : blks[c].parent < b /\ b < c => Before(blks, b, c)
    BY <1>2 DEF TreeInv, InnermostParents
  <2>2. blks[c].parent # 0 => blks[c].parent \in 1 .. N  BY <1>2, <1>6, <2>1
  <2> QED BY <1>15, <1>16, <2>1, <2>2
<1>19. ElseAfterIf(new)
  <2> SUFFICES ASSUME NEW c \in 1 .. N, new[c].kind = "ELSE"
               PROVE  IfClosedFor(new, c)
    BY <1>4 DEF ElseAfterIf
  <2>1. IfClosedFor(blks, c)  BY <1>2, <1>4 DEF TreeInv, ElseAfterIf
  <2>2. PICK b \in 1 .. c - 1 : /\ blks[b].kind = "IF"
                                /\ blks[b].parent = blks[c].parent
                                /\ blks[b].end = blks[c].start
    BY <2>1 DEF IfClosedFor
  <2>3. b \in 1 .. N /\ b # t  BY <1>2, <1>7, <1>9, <2>2 DEF IsOpen
  <2> QED BY <1>4, <2>2, <2>3 DEF IfClosedFor
<1> QED BY <1>3, <1>4, <1>11, <1>12, <1>13, <1>14, <1>17, <1>18, <1>19 DEF TreeInv, new

\* Opening a block at pc keeps the invariant, provided an else block opens where
\* its if was closed.
LEMMA CreatePreserves ==
    ASSUME NEW blks, NEW wk, NEW pc \in Nat \ {0}, NEW kind \in BLK_KIND,
           TreeInv(blks, wk, pc, pc + 1),
           kind = "ELSE" =>
               \E b \in 1 .. Len(blks) :
                   /\ blks[b].kind = "IF"
                   /\ blks[b].parent = IF wk = <<>> THEN 0 ELSE Last(wk)
                   /\ blks[b].end = pc
    PROVE  TreeInv(Create_new_block(wk, blks, pc, kind), Append(wk, Len(blks) + 1),
                   pc, pc + 1)
<1> DEFINE N   == Len(blks)
           n   == Len(wk)
           id  == N + 1
           new == Create_new_block(wk, blks, pc, kind)
           p   == IF wk = <<>> THEN 0 ELSE Last(wk)
           wk2 == Append(wk, id)
<1>1. blks \in Seq(WINST_BLK) /\ wk \in Seq(DOMAIN blks)  BY DEF TreeInv
<1>2. N \in Nat /\ DOMAIN blks = 1 .. N
      /\ \A b \in 1 .. N : blks[b] \in WINST_BLK
  BY <1>1, SeqBasics
<1>3. /\ n \in Nat /\ DOMAIN wk = 1 .. n /\ wk \in Seq(1 .. N)
      /\ \A i \in 1 .. n : wk[i] \in 1 .. N
  BY <1>1, <1>2, SeqBasics
<1>4. /\ wk2 \in Seq(1 .. id) /\ DOMAIN wk2 = 1 .. n + 1 /\ wk2[n + 1] = id
      /\ \A i \in 1 .. n : wk2[i] = wk[i]
  <2>1. wk \in Seq(1 .. id)  BY <1>2, <1>3, SeqMonotonic
  <2>2. id \in 1 .. id  BY <1>2
  <2> QED BY <1>3, <2>1, <2>2
<1>5. /\ new \in Seq(WINST_BLK) /\ DOMAIN new = 1 .. id
      /\ \A b \in 1 .. N : /\ new[b].kind = blks[b].kind
                           /\ new[b].parent = blks[b].parent
                           /\ new[b].start = blks[b].start
                           /\ new[b].end = blks[b].end
      /\ new[id].kind = kind /\ new[id].parent = p
      /\ new[id].start = pc  /\ new[id].end = 0
  BY <1>1, <1>2, CreateShape, SeqBasics
<1>6. /\ n = 0 => p = 0
      /\ n # 0 => p = wk[n] /\ p \in 1 .. N
      /\ p = IF wk = <<>> THEN 0 ELSE Last(wk)
  <2>1. CASE wk = <<>>  BY <1>3, <2>1
  <2>2. CASE wk # <<>>  BY <1>1, <1>2, <2>2, StackTop
  <2> QED BY <2>1, <2>2
<1>7. \A b \in 1 .. N : /\ blks[b].start \in Nat /\ blks[b].end \in Nat
                        /\ blks[b].parent \in Nat
  BY <1>2 DEF WINST_BLK
<1>8. 1 .. id = 1 .. N \cup {id} /\ id \notin 1 .. N /\ id \in Nat \ {0}  BY <1>2
<1> HIDE DEF N, n, id, new, p, wk2
<1>9. id = N + 1 /\ 1 .. n + 1 = 1 .. n \cup {n + 1} /\ n + 1 \notin 1 .. n
  BY <1>3 DEF id
<1>10. \A i, j \in 1 .. n : i < j => wk[i] < wk[j]
  BY <1>3 DEF TreeInv, WorkSorted
<1>11. \A b \in 1 .. N : IsOpen(blks, b) <=> \E i \in 1 .. n : wk[i] = b
  BY <1>2, <1>3 DEF TreeInv, OpenIffOnWork
<1>12. \A b \in 1 .. N : /\ blks[b].start \in 1 .. pc
                         /\ ~IsOpen(blks, b) => blks[b].end < pc + 1
  BY <1>2 DEF TreeInv, PcBounds
<1>13. /\ \A b \in 1 .. N : IsOpen(new, b) <=> IsOpen(blks, b)
       /\ IsOpen(new, id)
  BY <1>5 DEF IsOpen
<1>14. WorkSorted(wk2)
  <2> SUFFICES ASSUME NEW i \in 1 .. n + 1, NEW j \in 1 .. n + 1, i < j
               PROVE  wk2[i] < wk2[j]
    BY <1>4 DEF WorkSorted
  <2>1. i \in 1 .. n  BY <1>3
  <2>2. CASE j \in 1 .. n  BY <1>4, <1>10, <2>1, <2>2
  <2>3. CASE j = n + 1  BY <1>2, <1>3, <1>4, <1>9, <2>1, <2>3
  <2> QED BY <1>9, <2>2, <2>3
<1>15. OpenIffOnWork(new, wk2)
  <2> SUFFICES ASSUME NEW b \in 1 .. id
               PROVE  IsOpen(new, b) <=> \E i \in 1 .. n + 1 : wk2[i] = b
    BY <1>4, <1>5 DEF OpenIffOnWork
  <2>1. CASE b = id  BY <1>4, <1>9, <1>13, <2>1
  <2>2. CASE b \in 1 .. N
    <3>1. b # id  BY <1>8, <2>2
    <3> QED BY <1>4, <1>9, <1>11, <1>13, <2>2, <3>1
  <2> QED BY <1>8, <2>1, <2>2
<1>16. WorkIsChain(new, wk2)
  <2> SUFFICES ASSUME NEW i \in 1 .. n + 1
               PROVE  new[wk2[i]].parent = IF i = 1 THEN 0 ELSE wk2[i - 1]
    BY <1>4 DEF WorkIsChain
  <2>1. CASE i = n + 1
    <3>1. new[wk2[i]].parent = p  BY <1>4, <1>5, <2>1
    <3>2. CASE n = 0  BY <1>6, <2>1, <3>1, <3>2
    <3>3. CASE n # 0
      <4>1. i # 1 /\ i - 1 = n /\ n \in 1 .. n  BY <1>3, <2>1, <3>3
      <4> QED BY <1>4, <1>6, <3>1, <3>3, <4>1
    <3> QED BY <3>2, <3>3
  <2>2. CASE i \in 1 .. n
    <3>1. blks[wk[i]].parent = IF i = 1 THEN 0 ELSE wk[i - 1]
      BY <1>3, <2>2 DEF TreeInv, WorkIsChain
    <3>2. i # 1 => i - 1 \in 1 .. n  BY <1>3, <2>2
    <3> QED BY <1>3, <1>4, <1>5, <2>2, <3>1, <3>2, SMTT(30)
  <2> QED BY <1>9, <2>1, <2>2
<1>17. PcBounds(new, pc, pc + 1)
  <2> SUFFICES ASSUME NEW b \in 1 .. id
               PROVE  new[b].start \in 1 .. pc /\ (~IsOpen(new, b) => new[b].end < pc + 1)
    BY <1>5 DEF PcBounds
  <2>1. CASE b = id  BY <1>5, <1>13, <2>1
  <2>2. CASE b \in 1 .. N  BY <1>5, <1>12, <1>13, <2>2
  <2> QED BY <1>8, <2>1, <2>2
<1>18. \A b, c \in 1 .. N : /\ Before(blks, b, c) => Before(new, b, c)
                            /\ Encloses(blks, b, c) => Encloses(new, b, c)
  BY <1>5, <1>13 DEF Before, Encloses
\* An older block either is open, and encloses the new one, or ended by pc.
<1>19. \A b \in 1 .. N : /\ IsOpen(blks, b) => Encloses(new, b, id)
                         /\ ~IsOpen(blks, b) => Before(new, b, id)
  <2> SUFFICES ASSUME NEW b \in 1 .. N
               PROVE  /\ IsOpen(blks, b) => Encloses(new, b, id)
                      /\ ~IsOpen(blks, b) => Before(new, b, id)
    OBVIOUS
  <2>1. blks[b].start <= pc /\ (~IsOpen(blks, b) => blks[b].end <= pc)
    BY <1>7, <1>12
  <2> QED BY <1>5, <1>13, <2>1 DEF Before, Encloses
<1>20. LaminarTree(new)
  <2> SUFFICES ASSUME NEW b \in 1 .. id, NEW c \in 1 .. id, b < c
               PROVE  Before(new, b, c) \/ Encloses(new, b, c)
    BY <1>5 DEF LaminarTree
  <2>1. b \in 1 .. N  BY <1>2, <1>9
  <2>2. CASE c = id  BY <1>19, <2>1, <2>2
  <2>3. CASE c \in 1 .. N
    <3>1. Before(blks, b, c) \/ Encloses(blks, b, c)
      BY <1>2, <2>1, <2>3 DEF TreeInv, LaminarTree
    <3> QED BY <1>18, <2>1, <2>3, <3>1
  <2> QED BY <1>8, <2>2, <2>3
<1>21. InnermostParents(new)
  <2> SUFFICES ASSUME NEW c \in 1 .. id
               PROVE  /\ new[c].parent < c
                      /\ new[c].parent # 0 => Encloses(new, new[c].parent, c)
                      /\ \A b \in 1 .. id : new[c].parent < b /\ b < c => Before(new, b, c)
    BY <1>5 DEF InnermostParents
  <2>1. CASE c \in 1 .. N
    <3>1. /\ blks[c].parent < c
          /\ blks[c].parent # 0 => Encloses(blks, blks[c].parent, c)
          /\ \A b \in 1 .. N : blks[c].parent < b /\ b < c => Before(blks, b, c)
      BY <1>2, <2>1 DEF TreeInv, InnermostParents
    <3>2. blks[c].parent # 0 => blks[c].parent \in 1 .. N  BY <1>2, <1>7, <2>1, <3>1
    <3>3. \A b \in 1 .. id : b < c => b \in 1 .. N  BY <1>2, <1>9, <2>1
    <3> QED BY <1>5, <1>18, <2>1, <3>1, <3>2, <3>3
  <2>2. CASE c = id
    <3>1. p < id /\ (p # 0 => p \in 1 .. N /\ IsOpen(blks, p))
      <4>1. CASE n = 0  BY <1>6, <1>8, <4>1
      <4>2. CASE n # 0
        <5>1. n \in 1 .. n  BY <1>3, <4>2
        <5> QED BY <1>2, <1>6, <1>9, <1>11, <4>2, <5>1
      <4> QED BY <4>1, <4>2
    <3>2. \A b \in 1 .. N : p < b => ~IsOpen(blks, b)
      <4> SUFFICES ASSUME NEW b \in 1 .. N, p < b, NEW i \in 1 .. n, wk[i] = b
                   PROVE  FALSE
        BY <1>11
      <4>1. n \in 1 .. n /\ n # 0 /\ (i < n \/ i = n)  BY <1>3
      <4> QED BY <1>3, <1>6, <1>10, <4>1
    <3>3. \A b \in 1 .. id : b < id => b \in 1 .. N  BY <1>2, <1>9
    <3> QED BY <1>5, <1>19, <2>2, <3>1, <3>2, <3>3
  <2> QED BY <1>8, <2>1, <2>2
<1>22. ElseAfterIf(new)
  <2> SUFFICES ASSUME NEW c \in 1 .. id, new[c].kind = "ELSE"
               PROVE  \E b \in 1 .. c - 1 : /\ new[b].kind = "IF"
                                            /\ new[b].parent = new[c].parent
                                            /\ new[b].end = new[c].start
    BY <1>5 DEF ElseAfterIf, IfClosedFor
  <2>1. CASE c \in 1 .. N
    <3>1. PICK b \in 1 .. c - 1 : /\ blks[b].kind = "IF"
                                  /\ blks[b].parent = blks[c].parent
                                  /\ blks[b].end = blks[c].start
      BY <1>2, <1>5, <2>1, ZenonT(60) DEF TreeInv, ElseAfterIf, IfClosedFor
    <3>2. b \in 1 .. N  BY <1>2, <2>1
    <3> QED BY <1>5, <2>1, <3>1, <3>2
  <2>2. CASE c = id
    <3>1. PICK b \in 1 .. N : /\ blks[b].kind = "IF"
                              /\ blks[b].parent = p
                              /\ blks[b].end = pc
      BY <1>5, <1>6, <2>2 DEF N
    <3>2. b \in 1 .. c - 1  BY <1>2, <1>9, <2>2
    <3> QED BY <1>5, <2>2, <3>1, <3>2
  <2> QED BY <1>8, <2>1, <2>2
<1>23. wk2 \in Seq(DOMAIN new)  BY <1>4, <1>5
<1> QED BY <1>5, <1>14, <1>15, <1>16, <1>17, <1>20, <1>21, <1>22, <1>23
        DEF TreeInv, new, wk2, id, N

\* The pc bounds may be raised.
LEMMA RaiseBounds ==
    ASSUME NEW blks, NEW wk, NEW s \in Nat, NEW e \in Nat,
           NEW s2 \in Nat, NEW e2 \in Nat, s <= s2, e <= e2,
           TreeInv(blks, wk, s, e)
    PROVE  TreeInv(blks, wk, s2, e2)
<1>1. DOMAIN blks = 1 .. Len(blks) /\ \A b \in 1 .. Len(blks) : blks[b] \in WINST_BLK
  BY SeqBasics DEF TreeInv
<1>2. \A b \in 1 .. Len(blks) : blks[b].start \in Nat /\ blks[b].end \in Nat
  BY <1>1 DEF WINST_BLK
<1>3. PcBounds(blks, s2, e2)
  BY <1>1, <1>2 DEF TreeInv, PcBounds
<1> QED BY <1>3 DEF TreeInv

\* The function block alone satisfies the invariant.
LEMMA FunctionBlock ==
    TreeInv(Create_new_block(<<>>, <<>>, BLOCK_INSTR_BEGIN, "FUNC"),
            <<BLOCK_FUNCTION>>, BLOCK_INSTR_BEGIN, BLOCK_INSTR_BEGIN)
<1> DEFINE f == NewBlk("FUNC", 0, 1)
<1>1. Create_new_block(<<>>, <<>>, BLOCK_INSTR_BEGIN, "FUNC") = <<f>>
  BY DEF Create_new_block, BLOCK_INSTR_BEGIN
<1>2. f \in WINST_BLK  BY DEF NewBlk, WINST_BLK, BLK_KIND
<1>3. f.kind = "FUNC" /\ f.parent = 0 /\ f.start = 1 /\ f.end = 0  BY DEF NewBlk
<1> HIDE DEF f
<1>4. /\ <<f>> \in Seq(WINST_BLK) /\ DOMAIN <<f>> = {1} /\ <<f>>[1] = f
      /\ <<1>> \in Seq({1}) /\ DOMAIN <<1>> = {1} /\ <<1>>[1] = 1
  BY <1>2
<1> DEFINE F == <<f>>
           W == <<1>>
<1> HIDE DEF F, W
<1>5. /\ F \in Seq(WINST_BLK) /\ DOMAIN F = {1} /\ F[1] = f
      /\ W \in Seq({1}) /\ DOMAIN W = {1} /\ W[1] = 1
  BY <1>4 DEF F, W
<1>6. WorkSorted(W) /\ OpenIffOnWork(F, W) /\ WorkIsChain(F, W)
  BY <1>3, <1>5 DEF WorkSorted, OpenIffOnWork, WorkIsChain, IsOpen
<1>7. PcBounds(F, 1, 1) /\ LaminarTree(F)
  BY <1>3, <1>5 DEF PcBounds, LaminarTree, IsOpen
<1>8. InnermostParents(F) /\ ElseAfterIf(F)
  BY <1>3, <1>5 DEF InnermostParents, ElseAfterIf
<1> QED BY <1>1, <1>5, <1>6, <1>7, <1>8
        DEF TreeInv, F, W, BLOCK_FUNCTION, BLOCK_INSTR_BEGIN
-----------------------------------------------------------------------------
\* Where the pass starts, for any vector: a composition that starts it again and again
\* takes the vectors from elsewhere.
HierStart ==
    /\ ins \in Seq(Inst)
    /\ it = 1 /\ ins_cnt = BLOCK_INSTR_BEGIN
    /\ blocks = Create_new_block(<<>>, <<>>, BLOCK_INSTR_BEGIN, "FUNC")
    /\ work = <<BLOCK_FUNCTION>> /\ build = "running"

\* The vectors of the specification are among these.
LEMMA HierStarts == HierInit => HierStart
BY InputsAssumption DEF HierInit, HierStart

\* No block is there when the pass starts.
LEMMA HierInvInit == HierStart => HierInv
<1> SUFFICES ASSUME HierStart PROVE HierInv  OBVIOUS
<1>1. TreeInv(blocks, work, ins_cnt, ins_cnt)
  BY FunctionBlock DEF HierStart
<1>2. ins \in Seq(Inst)  BY DEF HierStart
<1>3. Len(ins) \in Nat  BY <1>2, SeqBasics
<1>4. blocks \in Seq(WINST_BLK) /\ work \in Seq(DOMAIN blocks)
  BY <1>1 DEF TreeInv
<1>5. DOMAIN blocks = 1 .. Len(blocks)  BY <1>4, SeqBasics
<1> QED BY <1>1, <1>3, <1>4, <1>5 DEF HierInv, HierTypeOK, HierStart, BLOCK_INSTR_BEGIN

\* Every step of the pass keeps its invariant.
LEMMA HierInvNext == HierInv /\ [HierNext]_hierVars => HierInv'
<1> SUFFICES ASSUME HierInv, [HierNext]_hierVars PROVE HierInv'  OBVIOUS
<1>1. /\ ins \in Seq(Inst) /\ Len(ins) \in Nat
      /\ it \in 1 .. Len(ins) + 1 /\ ins_cnt \in 1 .. it
      /\ ins_cnt \in Nat \ {0} /\ ins_cnt + 1 \in Nat /\ ins_cnt <= ins_cnt + 1
      /\ build \in {"running", "returned", "aborted"}
  BY SeqBasics DEF HierInv, HierTypeOK
<1>2. /\ blocks \in Seq(WINST_BLK) /\ work \in Seq(DOMAIN blocks)
      /\ DOMAIN blocks = 1 .. Len(blocks) /\ Len(blocks) \in Nat
  BY SeqBasics DEF HierInv, TreeInv
<1>3. TreeInv(blocks, work, ins_cnt, ins_cnt)  BY DEF HierInv
<1>4. TreeInv(blocks, work, ins_cnt, ins_cnt + 1)  BY <1>1, <1>3, RaiseBounds
\* A step that advances preserves the invariant if it yields a tree whose blocks
\* begin by ins_cnt and end before the next instruction.
<1>5. ASSUME it <= Len(ins), Advance, build' = build, ins' = ins,
             TreeInv(blocks', work', ins_cnt, ins_cnt + 1)
      PROVE  HierInv'
  <2>1. TreeInv(blocks', work', ins_cnt + 1, ins_cnt + 1)
    BY <1>1, <1>5, RaiseBounds
  <2>2. TreeInv(blocks', work', ins_cnt', ins_cnt')
    BY <1>5, <2>1 DEF Advance
  <2>3. blocks' \in Seq(WINST_BLK) /\ work' \in Seq(DOMAIN blocks')
    BY <1>5 DEF TreeInv
  <2>4. DOMAIN blocks' = 1 .. Len(blocks')  BY <2>3, SeqBasics
  <2>5. it' \in 1 .. Len(ins') + 1 /\ ins_cnt' \in 1 .. it'
    BY <1>1, <1>5 DEF Advance
  <2> QED BY <1>1, <1>5, <2>2, <2>3, <2>4, <2>5 DEF HierInv, HierTypeOK
<1>6. ASSUME NEW op \in DOMAIN Opens, OpenBlock(op) PROVE HierInv'
  <2>1. Opens[op] \in BLK_KIND /\ Opens[op] # "ELSE"  BY DEF Opens, BLK_KIND
  <2>2. TreeInv(blocks', work', ins_cnt, ins_cnt + 1)
    BY <1>1, <1>4, <1>6, <2>1, CreatePreserves DEF OpenBlock
  <2> QED BY <1>5, <1>6, <2>2 DEF OpenBlock, At
<1>7. CASE ElseBlock
  <2> DEFINE closed == Finish_old_block(work, blocks, ins_cnt)
             rest   == Front(work)
             t      == Last(work)
  <2>1. work # <<>> /\ blocks[t].kind = "IF"  BY <1>7 DEF ElseBlock, IfOnTop
  <2>2. TreeInv(closed, rest, ins_cnt, ins_cnt + 1)
    BY <1>1, <1>3, <2>1, FinishPreserves
  <2>3. t \in 1 .. Len(blocks) /\ t = work[Len(work)] /\ Len(work) \in Nat \ {0}
        /\ Len(rest) = Len(work) - 1
        /\ \A i \in 1 .. Len(work) - 1 : rest[i] = work[i]
        /\ rest \in Seq(DOMAIN blocks)
    BY <1>2, <2>1, StackTop
  <2>4. closed[t].kind = "IF" /\ closed[t].parent = blocks[t].parent
        /\ closed[t].end = ins_cnt /\ Len(closed) = Len(blocks)
    <3>1. ins_cnt \in Nat  BY <1>1
    <3> QED BY <1>2, <2>1, <2>3, <3>1, FinishShape
  <2>5. blocks[t].parent = IF rest = <<>> THEN 0 ELSE Last(rest)
    <3>1. DOMAIN work = 1 .. Len(work) /\ Len(work) \in 1 .. Len(work)
      BY <1>2, <2>3, SeqBasics
    <3>2. blocks[t].parent = IF Len(work) = 1 THEN 0 ELSE work[Len(work) - 1]
      BY <1>3, <2>3, <3>1 DEF TreeInv, WorkIsChain
    <3>3. CASE rest = <<>>
      <4>1. Len(rest) = 0  BY <3>3
      <4> QED BY <2>3, <3>2, <3>3, <4>1
    <3>4. CASE rest # <<>>
      <4>1. Len(rest) \in Nat \ {0} /\ Last(rest) = rest[Len(rest)]
        <5>1. Len(rest) \in Nat \ {0}
          <6> HIDE DEF rest
          <6> QED BY <2>3, <3>4, EmptySeq
        <5>2. Last(rest) = rest[Len(rest)]  BY DEF Last
        <5> QED BY <5>1, <5>2
      <4>2. Len(work) # 1 /\ Len(work) - 1 \in 1 .. Len(work) - 1  BY <2>3, <4>1
      <4> QED BY <2>3, <3>2, <3>4, <4>1, <4>2
    <3> QED BY <3>3, <3>4
  <2>6. blocks' = Create_new_block(rest, closed, ins_cnt, "ELSE")
        /\ work' = Append(rest, Len(closed) + 1)
    BY <1>7, <2>4 DEF ElseBlock
  <2>7. "ELSE" \in BLK_KIND  BY DEF BLK_KIND
  <2> HIDE DEF closed, rest, t
  <2>8. \E b \in 1 .. Len(closed) : /\ closed[b].kind = "IF"
                                    /\ closed[b].parent = IF rest = <<>> THEN 0 ELSE Last(rest)
                                    /\ closed[b].end = ins_cnt
    BY <2>3, <2>4, <2>5
  <2>9. TreeInv(blocks', work', ins_cnt, ins_cnt + 1)
    BY <1>1, <2>2, <2>6, <2>7, <2>8, CreatePreserves
  <2> QED BY <1>5, <1>7, <2>9 DEF ElseBlock, At
<1>8. CASE ElseWithoutIf
  BY <1>8 DEF ElseWithoutIf, Abort, HierInv, HierTypeOK
<1>9. CASE EndBlock
  <2>1. TreeInv(blocks', work', ins_cnt, ins_cnt + 1)
    BY <1>1, <1>3, <1>9, FinishPreserves DEF EndBlock
  <2> QED BY <1>5, <1>9, <2>1 DEF EndBlock, At
<1>10. CASE EndIgnored
  BY <1>1, <1>10 DEF EndIgnored, At, HierInv, HierTypeOK
<1>11. CASE OtherInst
  <2>1. TreeInv(blocks', work', ins_cnt, ins_cnt + 1)  BY <1>4, <1>11 DEF OtherInst
  <2> QED BY <1>5, <1>11, <2>1 DEF OtherInst
<1>12. CASE ReturnBlocks
  BY <1>12 DEF ReturnBlocks, HierInv, HierTypeOK
<1>13. CASE UNCHANGED hierVars
  BY <1>13 DEF hierVars, HierInv, HierTypeOK
<1> QED BY <1>6, <1>7, <1>8, <1>9, <1>10, <1>11, <1>12, <1>13 DEF HierNext

\* The invariant holds of every state of the pass.
LEMMA HierInvariant == HierSpec => []HierInv
<1>1. HierStart => HierInv  BY HierInvInit
<1>2. HierInv /\ [HierNext]_hierVars => HierInv'  BY HierInvNext
<1> QED BY <1>1, <1>2, HierStarts, PTL DEF HierSpec
-----------------------------------------------------------------------------
\* Whatever instruction vector the pass is given, its state stays well typed:
\* in particular the iterator never lags behind ins_cnt, and the work stack only
\* holds ids of existing blocks, which Get_blk_in_hier asserts at each lookup.
THEOREM HierTypeCorrect == HierSpec => []HierTypeOK
<1>1. HierInv => HierTypeOK  BY DEF HierInv
<1> QED BY <1>1, HierInvariant, PTL

\* The pc ranges of the blocks are laminar at every step, for every vector: the
\* work stack makes nesting strict even where the input is not well nested.
THEOREM HierLaminar == HierSpec => []Laminar
<1>1. HierInv => Laminar  BY DEF HierInv, TreeInv, Laminar
<1> QED BY <1>1, HierInvariant, PTL

\* The parent recorded for a block is the innermost block around it.
THEOREM HierParentInnermost == HierSpec => []ParentInnermost
<1>1. HierInv => ParentInnermost  BY DEF HierInv, TreeInv, ParentInnermost
<1> QED BY <1>1, HierInvariant, PTL

\* Every else block begins where its if, a sibling, was closed.
THEOREM HierElseFollowsIf == HierSpec => []ElseFollowsIf
<1>1. HierInv => ElseFollowsIf  BY DEF HierInv, TreeInv, ElseFollowsIf
<1> QED BY <1>1, HierInvariant, PTL
-----------------------------------------------------------------------------
(* The child lists.                                                         *)

KidsListed(blks) ==
    \A p \in DOMAIN blks :
        /\ ToSet(blks[p].child) = {c \in DOMAIN blks : blks[c].parent = p}
        /\ \A i, j \in DOMAIN blks[p].child :
               i < j => blks[p].child[i] < blks[p].child[j]

\* Closing a block leaves every child list alone.
LEMMA FinishLists ==
    ASSUME NEW blks \in Seq(WINST_BLK), NEW wk \in Seq(DOMAIN blks),
           wk # <<>>, NEW pc \in Nat, KidsListed(blks)
    PROVE  KidsListed(Finish_old_block(wk, blks, pc))
<1> DEFINE t   == Last(wk)
           new == Finish_old_block(wk, blks, pc)
<1>1. DOMAIN blks = 1 .. Len(blks) /\ \A b \in 1 .. Len(blks) : blks[b] \in WINST_BLK
  BY SeqBasics
<1>2. t \in 1 .. Len(blks)  BY <1>1, StackTop
<1>3. DOMAIN new = 1 .. Len(blks)
  BY FinishShape, SeqBasics
<1>4. \A b \in 1 .. Len(blks) : new[b].child = blks[b].child /\ new[b].parent = blks[b].parent
  <2>1. new = [blks EXCEPT ![t].end = pc]  BY DEF Finish_old_block
  <2> HIDE DEF new, t
  <2> QED BY <1>1, <1>2, <2>1 DEF WINST_BLK
<1> HIDE DEF new, t
<1> QED BY <1>1, <1>3, <1>4, ZenonT(60) DEF KidsListed, new

\* A new block is entered as the last child of the innermost open block, once.
LEMMA CreateLists ==
    ASSUME NEW blks \in Seq(WINST_BLK), NEW wk \in Seq(DOMAIN blks),
           NEW pc \in Nat, NEW kind \in BLK_KIND, KidsListed(blks), InnermostParents(blks)
    PROVE  KidsListed(Create_new_block(wk, blks, pc, kind))
<1> DEFINE N   == Len(blks)
           id  == N + 1
           new == Create_new_block(wk, blks, pc, kind)
           t   == Last(wk)
<1>1. N \in Nat /\ DOMAIN blks = 1 .. N /\ \A b \in 1 .. N : blks[b] \in WINST_BLK
  BY SeqBasics
<1>2. /\ DOMAIN new = 1 .. id
      /\ \A b \in 1 .. N : new[b].parent = blks[b].parent
      /\ new[id].parent = IF wk = <<>> THEN 0 ELSE t
  BY <1>1, CreateShape, SeqBasics
<1>3. wk # <<>> => t \in 1 .. N  BY <1>1, StackTop
<1>4. \A b \in 1 .. N : blks[b].parent \in Nat /\ blks[b].child \in Seq(Nat)
  BY <1>1 DEF WINST_BLK
<1>5. /\ new[id].child = <<>>
      /\ \A b \in 1 .. N :
            new[b].child = IF wk # <<>> /\ b = t THEN Append(blks[b].child, id)
                           ELSE blks[b].child
  <2>1. CASE wk = <<>>
    <3>1. new = Append(blks, NewBlk(kind, 0, pc))  BY <2>1 DEF Create_new_block
    <3> HIDE DEF new
    <3> QED BY <1>1, <2>1, <3>1 DEF NewBlk
  <2>2. CASE wk # <<>>
    <3> DEFINE linked == [blks EXCEPT ![t].child = Append(@, id)]
    <3>1. new = Append(linked, NewBlk(kind, t, pc))  BY <2>2 DEF Create_new_block
    <3>2. \A b \in 1 .. N : linked[b].child = IF b = t THEN Append(blks[b].child, id)
                                               ELSE blks[b].child
      <4> HIDE DEF t, N
      <4> QED BY <1>1, <1>3, <2>2 DEF WINST_BLK
    <3>3. linked \in Seq(WINST_BLK) /\ Len(linked) = N
      <4>1. Append(blks[t].child, id) \in Seq(Nat)  BY <1>1, <1>3, <1>4, <2>2
      <4>2. [blks[t] EXCEPT !.child = Append(@, id)] \in WINST_BLK
        BY <1>1, <1>3, <2>2, <4>1 DEF WINST_BLK
      <4>3. linked = [blks EXCEPT ![t] = [blks[t] EXCEPT !.child = Append(@, id)]]
        OBVIOUS
      <4> QED BY <1>3, <2>2, <4>2, <4>3, ExceptSeq
    <3>4. NewBlk(kind, t, pc).child = <<>>  BY DEF NewBlk
    <3>5. NewBlk(kind, t, pc) \in WINST_BLK
      BY <1>1, <1>3, <2>2 DEF NewBlk, WINST_BLK
    <3> HIDE DEF linked, new, t
    <3>6. new[id] = NewBlk(kind, t, pc) /\ \A b \in 1 .. N : new[b] = linked[b]
      BY <3>1, <3>3, <3>5, AppendProperties
    <3> QED BY <2>2, <3>2, <3>4, <3>6
  <2> QED BY <2>1, <2>2
<1>6. \A c \in 1 .. N : blks[c].parent < c  BY <1>1 DEF InnermostParents
<1> HIDE DEF new, t
<1> SUFFICES ASSUME NEW p \in 1 .. id
             PROVE  /\ ToSet(new[p].child) = {c \in 1 .. id : new[c].parent = p}
                    /\ \A i, j \in DOMAIN new[p].child :
                           i < j => new[p].child[i] < new[p].child[j]
  BY <1>2 DEF KidsListed, new
<1>7. CASE p = id
  <2>1. \A c \in 1 .. id : new[c].parent # id
    BY <1>1, <1>2, <1>3, <1>4, <1>6
  <2>2. DOMAIN new[p].child = {} /\ ToSet(new[p].child) = {}  BY <1>5, <1>7 DEF ToSet
  <2> QED BY <1>7, <2>1, <2>2
<1>8. CASE p \in 1 .. N
  <2> DEFINE kids == blks[p].child
  <2>1. /\ ToSet(kids) = {c \in 1 .. N : blks[c].parent = p}
        /\ \A i, j \in DOMAIN kids : i < j => kids[i] < kids[j]
    BY <1>1, <1>8 DEF KidsListed
  <2>2. kids \in Seq(Nat) /\ Len(kids) \in Nat /\ DOMAIN kids = 1 .. Len(kids)
    BY <1>4, <1>8, SeqBasics
  <2>3. \A i \in 1 .. Len(kids) : kids[i] \in 1 .. N
    <3>1. \A i \in 1 .. Len(kids) : kids[i] \in ToSet(kids)  BY <2>2 DEF ToSet
    <3> QED BY <2>1, <3>1
  <2> HIDE DEF kids
  <2>4. 1 .. Len(kids) + 1 = 1 .. Len(kids) \cup {Len(kids) + 1}  BY <2>2
  <2>5. CASE wk # <<>> /\ p = t
    <3>1. new[p].child = Append(kids, id)  BY <1>5, <1>8, <2>5 DEF kids
    <3> DEFINE more == Append(kids, id)
    <3>2. /\ DOMAIN more = 1 .. Len(kids) + 1 /\ more[Len(kids) + 1] = id
          /\ \A i \in 1 .. Len(kids) : more[i] = kids[i]
      BY <1>1, <2>2
    <3> HIDE DEF more
    <3>3. ToSet(more) = ToSet(kids) \cup {id}
      <4>1. ToSet(more) = {more[i] : i \in 1 .. Len(kids)} \cup {more[Len(kids) + 1]}
        BY <2>4, <3>2 DEF ToSet
      <4>2. ToSet(kids) = {kids[i] : i \in 1 .. Len(kids)}  BY <2>2 DEF ToSet
      <4> QED BY <3>2, <4>1, <4>2
    <3>4. {c \in 1 .. id : new[c].parent = p} = {c \in 1 .. N : blks[c].parent = p} \cup {id}
      BY <1>1, <1>2, <2>5
    <3>5. \A i, j \in 1 .. Len(kids) + 1 : i < j => more[i] < more[j]
      <4> SUFFICES ASSUME NEW i \in 1 .. Len(kids) + 1, NEW j \in 1 .. Len(kids) + 1, i < j
                   PROVE  more[i] < more[j]
        OBVIOUS
      <4>1. i \in 1 .. Len(kids)  BY <2>2
      <4>2. CASE j = Len(kids) + 1  BY <1>1, <2>3, <3>2, <4>1, <4>2
      <4>3. CASE j \in 1 .. Len(kids)  BY <2>1, <2>2, <3>2, <4>1, <4>3
      <4> QED BY <2>4, <4>2, <4>3
    <3> QED BY <2>1, <3>1, <3>2, <3>3, <3>4, <3>5 DEF more
  <2>6. CASE ~(wk # <<>> /\ p = t)
    <3>1. new[p].child = kids  BY <1>5, <1>8, <2>6 DEF kids
    <3>2. new[id].parent # p  BY <1>2, <1>8, <2>6
    <3>3. {c \in 1 .. id : new[c].parent = p} = {c \in 1 .. N : blks[c].parent = p}
      BY <1>1, <1>2, <3>2
    <3> QED BY <2>1, <3>1, <3>3
  <2> QED BY <2>5, <2>6
<1> QED BY <1>1, <1>7, <1>8

\* Every step of the pass keeps the lists.
LEMMA KidsListedNext ==
    ASSUME HierInv, KidsListed(blocks), [HierNext]_hierVars
    PROVE  KidsListed(blocks')
<1>1. /\ blocks \in Seq(WINST_BLK) /\ work \in Seq(DOMAIN blocks)
      /\ TreeInv(blocks, work, ins_cnt, ins_cnt) /\ InnermostParents(blocks)
  BY DEF HierInv, TreeInv
<1>2. ins_cnt \in Nat \ {0} /\ ins_cnt \in Nat  BY DEF HierInv, HierTypeOK
<1>3. ASSUME NEW op \in DOMAIN Opens, OpenBlock(op) PROVE KidsListed(blocks')
  <2>1. Opens[op] \in BLK_KIND  BY DEF Opens, BLK_KIND
  <2> QED BY <1>1, <1>2, <1>3, <2>1, CreateLists DEF OpenBlock
<1>4. CASE ElseBlock
  <2> DEFINE closed == Finish_old_block(work, blocks, ins_cnt)
             rest   == Front(work)
  <2>1. work # <<>>  BY <1>4 DEF ElseBlock, IfOnTop
  <2>2. KidsListed(closed)  BY <1>1, <1>2, <2>1, FinishLists
  <2>3. TreeInv(closed, rest, ins_cnt, ins_cnt + 1)
    BY <1>1, <1>2, <2>1, FinishPreserves
  <2>4. "ELSE" \in BLK_KIND  BY DEF BLK_KIND
  <2>5. blocks' = Create_new_block(rest, closed, ins_cnt, "ELSE")  BY <1>4 DEF ElseBlock
  <2> HIDE DEF closed, rest
  <2>6. closed \in Seq(WINST_BLK) /\ rest \in Seq(DOMAIN closed) /\ InnermostParents(closed)
    BY <2>3 DEF TreeInv
  <2> QED BY <1>2, <2>2, <2>4, <2>5, <2>6, CreateLists
<1>5. CASE EndBlock
  BY <1>1, <1>2, <1>5, FinishLists DEF EndBlock
<1>6. CASE \/ ElseWithoutIf \/ EndIgnored \/ OtherInst \/ ReturnBlocks
           \/ UNCHANGED hierVars
  BY <1>6 DEF ElseWithoutIf, Abort, EndIgnored, OtherInst, ReturnBlocks, hierVars
<1> QED BY <1>3, <1>4, <1>5, <1>6 DEF HierNext

\* The child list of a block, which the label search walks in order, is exactly the
\* blocks that name it as parent, in the order of their ids, for every vector.
THEOREM HierChildLists == HierSpec => []ChildLists
<1>1. HierStart => KidsListed(blocks)
  <2> SUFFICES ASSUME HierStart PROVE KidsListed(blocks)
    OBVIOUS
  <2>1. blocks = <<NewBlk("FUNC", 0, 1)>>
    BY DEF HierStart, Create_new_block, BLOCK_INSTR_BEGIN
  <2>2. DOMAIN blocks = {1} /\ blocks[1].child = <<>> /\ blocks[1].parent = 0
    BY <2>1 DEF NewBlk
  <2> QED BY <2>2 DEF KidsListed, ToSet
<1>2. HierInv /\ KidsListed(blocks) /\ [HierNext]_hierVars => KidsListed(blocks)'
  BY KidsListedNext
<1>3. HierInv /\ KidsListed(blocks) => ChildLists
  <2> SUFFICES ASSUME HierInv, KidsListed(blocks) PROVE ChildLists
    OBVIOUS
  <2>1. DOMAIN blocks = 1 .. Len(blocks)  BY SeqBasics DEF HierInv, TreeInv
  <2> QED BY <2>1 DEF KidsListed, ChildLists, BlkIds
<1> QED BY <1>1, <1>2, <1>3, HierInvariant, HierStarts, PTL DEF HierSpec
-----------------------------------------------------------------------------
(***************************************************************************)
(* Where the blocks end.  The stack of the pass has the depth that counting  *)
(* the instructions gives; the block at place k of it was opened at depth    *)
(* k - 1 and nothing has closed it since.                                    *)
(***************************************************************************)

\* The instruction that opened b; the function block is open before the first.
Pos(blks, b) == IF b = BLOCK_FUNCTION THEN 0 ELSE blks[b].start

OpenAt(blks, wk, n) ==
    \A k \in DOMAIN wk :
        /\ Pos(blks, wk[k]) \in 0 .. n /\ Depth(Pos(blks, wk[k])) = k - 1
        /\ \A j \in Closers(Pos(blks, wk[k])) : j > n

ClosedAt(blks, n) ==
    \A b \in DOMAIN blks : ~IsOpen(blks, b) =>
        /\ blks[b].end \in Closers(Pos(blks, b)) /\ blks[b].end <= n
        /\ \A j \in Closers(Pos(blks, b)) : blks[b].end <= j

DepthInv ==
    (InBody /\ build # "aborted") =>
        /\ Len(work) = Depth(it - 1) + 1
        /\ OpenAt(blocks, work, it - 1) /\ ClosedAt(blocks, it - 1)

\* How many of the first n positions are in P.
Among(P, n)   == {j \in 1 .. n : j \in P}
CountIn(P, n) == Cardinality(Among(P, n))

OpensAt == {j \in Nat : ins[j].op \in DOMAIN Opens}
EndsAt  == {j \in Nat : ins[j].op = "End"}

\* One more position counts if it is in the set.
LEMMA CountUpTo ==
    ASSUME NEW P, NEW i \in Nat \ {0}
    PROVE  /\ CountIn(P, i - 1) \in Nat
           /\ i \in P => CountIn(P, i) = CountIn(P, i - 1) + 1
           /\ i \notin P => CountIn(P, i) = CountIn(P, i - 1)
<1>1. IsFiniteSet(Among(P, i - 1))
  <2>1. IsFiniteSet(1 .. i - 1)  BY FS_Interval
  <2>2. Among(P, i - 1) \subseteq 1 .. i - 1  BY DEF Among
  <2> QED BY <2>1, <2>2, FS_Subset
<1>2. CountIn(P, i - 1) \in Nat  BY <1>1, FS_CardinalityType DEF CountIn
<1>3. 1 .. i = (1 .. i - 1) \cup {i} /\ i \notin 1 .. i - 1  OBVIOUS
<1>4. ASSUME i \in P PROVE CountIn(P, i) = CountIn(P, i - 1) + 1
  <2>1. Among(P, i) = Among(P, i - 1) \cup {i} /\ i \notin Among(P, i - 1)
    BY <1>3, <1>4 DEF Among
  <2> QED BY <1>1, <2>1, FS_AddElement DEF CountIn
<1>5. ASSUME i \notin P PROVE CountIn(P, i) = CountIn(P, i - 1)
  <2>1. Among(P, i) = Among(P, i - 1)  BY <1>3, <1>5 DEF Among
  <2> QED BY <2>1 DEF CountIn
<1> QED BY <1>2, <1>4, <1>5

\* The depth is the difference of two counts.
LEMMA DepthCounts ==
    ASSUME NEW n \in Nat
    PROVE  Depth(n) = CountIn(OpensAt, n) - CountIn(EndsAt, n)
<1>1. Among(OpensAt, n) = {j \in 1 .. n : ins[j].op \in DOMAIN Opens}
  BY DEF Among, OpensAt
<1>2. Among(EndsAt, n) = {j \in 1 .. n : ins[j].op = "End"}
  BY DEF Among, EndsAt
<1> QED BY <1>1, <1>2, Zenon DEF Depth, CountIn

\* What one instruction does to the depth.
LEMMA DepthStep ==
    ASSUME NEW n \in Nat
    PROVE  /\ Depth(n) \in Int
           /\ ins[n + 1].op \in DOMAIN Opens => Depth(n + 1) = Depth(n) + 1
           /\ ins[n + 1].op = "End" => Depth(n + 1) = Depth(n) - 1
           /\ ins[n + 1].op \notin DOMAIN Opens \cup {"End"} => Depth(n + 1) = Depth(n)
<1>1. n + 1 \in Nat \ {0} /\ n + 1 - 1 = n  OBVIOUS
<1>2. /\ Depth(n) = CountIn(OpensAt, n) - CountIn(EndsAt, n)
      /\ Depth(n + 1) = CountIn(OpensAt, n + 1) - CountIn(EndsAt, n + 1)
  BY DepthCounts
<1>3. \A P : /\ CountIn(P, n) \in Nat
             /\ n + 1 \in P => CountIn(P, n + 1) = CountIn(P, n) + 1
             /\ n + 1 \notin P => CountIn(P, n + 1) = CountIn(P, n)
  BY <1>1, CountUpTo
<1>4. /\ (n + 1 \in OpensAt) <=> (ins[n + 1].op \in DOMAIN Opens)
      /\ (n + 1 \in EndsAt) <=> (ins[n + 1].op = "End")
  BY DEF OpensAt, EndsAt
<1>5. "End" \notin DOMAIN Opens  BY DEF Opens
<1> QED BY <1>2, <1>3, <1>4, <1>5

\* Before the first instruction the depth is that of the body.
LEMMA DepthZero == Depth(0) = 0
<1>1. /\ {j \in 1 .. 0 : ins[j].op \in DOMAIN Opens} = {}
      /\ {j \in 1 .. 0 : ins[j].op = "End"} = {}
  OBVIOUS
<1> QED BY <1>1, FS_EmptySet DEF Depth

\* An instruction that is neither end nor else closes nothing.
LEMMA NoneCloses ==
    ASSUME NEW blks, NEW wk, NEW n \in Nat, n < Len(ins), Len(ins) \in Nat,
           ins[n + 1].op \notin {"End", "Else"}, OpenAt(blks, wk, n), ClosedAt(blks, n),
           blks \in Seq(WINST_BLK), wk \in Seq(DOMAIN blks)
    PROVE  OpenAt(blks, wk, n + 1) /\ ClosedAt(blks, n + 1)
<1>1. ASSUME NEW s, NEW j \in Closers(s), j > n
      PROVE  j > n + 1
  <2>1. j \in Int /\ ins[j].op \in {"End", "Else"}  BY <1>1 DEF Closers
  <2> QED BY <1>1, <2>1
<1>2. OpenAt(blks, wk, n + 1)  BY <1>1 DEF OpenAt
<1>3. \A b \in DOMAIN blks : blks[b].end \in Nat
  <2>1. \A b \in DOMAIN blks : blks[b] \in WINST_BLK  BY SeqBasics
  <2> QED BY <2>1 DEF WINST_BLK
<1>4. ClosedAt(blks, n + 1)  BY <1>3 DEF ClosedAt
<1> QED BY <1>2, <1>4

\* An end or an else closes the innermost block and no other.
LEMMA TopCloses ==
    ASSUME NEW blks, NEW wk, NEW n \in Nat, n < Len(ins), Len(ins) \in Nat,
           ins[n + 1].op \in {"End", "Else"}, OpenAt(blks, wk, n), ClosedAt(blks, n),
           blks \in Seq(WINST_BLK), wk \in Seq(DOMAIN blks), wk # <<>>,
           Len(wk) = Depth(n) + 1
    PROVE  LET new == Finish_old_block(wk, blks, n + 1)
           IN  OpenAt(new, Front(wk), n + 1) /\ ClosedAt(new, n + 1)
<1> DEFINE new == Finish_old_block(wk, blks, n + 1)
           t   == Last(wk)
           N   == Len(blks)
           L   == Len(wk)
<1>1. N \in Nat /\ DOMAIN blks = 1 .. N /\ \A b \in 1 .. N : blks[b] \in WINST_BLK
  BY SeqBasics
<1>2. /\ L \in Nat \ {0} /\ t = wk[L] /\ t \in 1 .. N
      /\ Front(wk) \in Seq(1 .. N) /\ Len(Front(wk)) = L - 1
      /\ \A i \in 1 .. L - 1 : Front(wk)[i] = wk[i]
  BY <1>1, StackTop
<1>3. /\ DOMAIN wk = 1 .. L /\ DOMAIN Front(wk) = 1 .. L - 1
      /\ \A i \in 1 .. L : wk[i] \in 1 .. N
  BY <1>1, <1>2, SeqBasics
<1>4. /\ DOMAIN new = 1 .. N
      /\ \A b \in 1 .. N : /\ new[b].start = blks[b].start
                           /\ new[b].end = IF b = t THEN n + 1 ELSE blks[b].end
  BY <1>1, FinishShape, SeqBasics
<1>5. \A b \in 1 .. N : Pos(new, b) = Pos(blks, b)  BY <1>4 DEF Pos
<1>6. /\ Depth(n) \in Int
      /\ ins[n + 1].op = "End" => Depth(n + 1) = Depth(n) - 1
      /\ ins[n + 1].op = "Else" => Depth(n + 1) = Depth(n)
  <2>1. "Else" \notin DOMAIN Opens \cup {"End"}  BY DEF Opens
  <2> QED BY <2>1, DepthStep
<1>7. \A b \in 1 .. N : blks[b].end \in Nat  BY <1>1 DEF WINST_BLK
<1> HIDE DEF new, t, N, L
\* The next instruction closes what is at depth L - 1, and that is t alone.
<1>8. \A k \in 1 .. L : n + 1 \in Closers(Pos(blks, wk[k])) <=> k = L
  <2> SUFFICES ASSUME NEW k \in 1 .. L
               PROVE  n + 1 \in Closers(Pos(blks, wk[k])) <=> k = L
    OBVIOUS
  <2> DEFINE s == Pos(blks, wk[k])
  <2>1. s \in 0 .. n /\ Depth(s) = k - 1  BY <1>3 DEF OpenAt
  <2>2. n + 1 \in s + 1 .. Len(ins)  BY <2>1
  <2>3. n + 1 \in Closers(s) <=> (\/ (ins[n + 1].op = "End"  /\ Depth(n + 1) = k - 2)
                                \/ (ins[n + 1].op = "Else" /\ Depth(n + 1) = k - 1))
    <3>1. k - 1 - 1 = k - 2  OBVIOUS
    <3>2. n + 1 \in Closers(s) <=> (\/ (ins[n + 1].op = "End"  /\ Depth(n + 1) = Depth(s) - 1)
                                  \/ (ins[n + 1].op = "Else" /\ Depth(n + 1) = Depth(s)))
      <4> HIDE DEF s
      <4> QED BY <2>2 DEF Closers
    <3> HIDE DEF s
    <3> QED BY <2>1, <3>1, <3>2
  <2>4. Depth(n) = L - 1  BY <1>2, <1>6 DEF L
  <2> QED BY <1>2, <1>6, <2>3, <2>4, SMTT(30)
<1>9. \A k \in 1 .. L : \A j \in Closers(Pos(blks, wk[k])) : j \in Int /\ j >= n + 1
  <2> SUFFICES ASSUME NEW k \in 1 .. L, NEW j \in Closers(Pos(blks, wk[k]))
               PROVE  j \in Int /\ j >= n + 1
    OBVIOUS
  <2>1. j > n  BY <1>3 DEF OpenAt
  <2>2. j \in Int  BY DEF Closers
  <2> QED BY <2>1, <2>2
<1>10. OpenAt(new, Front(wk), n + 1)
  <2> SUFFICES ASSUME NEW k \in 1 .. L - 1
               PROVE  /\ Pos(blks, wk[k]) \in 0 .. n + 1 /\ Depth(Pos(blks, wk[k])) = k - 1
                      /\ \A j \in Closers(Pos(blks, wk[k])) : j > n + 1
    <3>1. \A k \in 1 .. L - 1 : Pos(new, Front(wk)[k]) = Pos(blks, wk[k])
      <4>1. \A k \in 1 .. L - 1 : k \in 1 .. L  BY <1>2
      <4> QED BY <1>2, <1>3, <1>5, <4>1
    <3> QED BY <1>3, <3>1 DEF OpenAt
  <2>1. k \in 1 .. L /\ k # L  BY <1>2
  <2>2. Pos(blks, wk[k]) \in 0 .. n /\ Depth(Pos(blks, wk[k])) = k - 1
    BY <1>3, <2>1 DEF OpenAt
  <2>3. \A j \in Closers(Pos(blks, wk[k])) : j # n + 1 /\ j \in Int /\ j >= n + 1
    BY <1>8, <1>9, <2>1
  <2> QED BY <2>2, <2>3
<1>11. ClosedAt(new, n + 1)
  <2> SUFFICES ASSUME NEW b \in 1 .. N, ~IsOpen(new, b)
               PROVE  /\ new[b].end \in Closers(Pos(blks, b)) /\ new[b].end <= n + 1
                      /\ \A j \in Closers(Pos(blks, b)) : new[b].end <= j
    BY <1>4, <1>5 DEF ClosedAt
  <2>1. CASE b = t
    <3>1. L \in 1 .. L  BY <1>2
    <3> QED BY <1>2, <1>4, <1>8, <1>9, <2>1, <3>1
  <2>2. CASE b # t
    <3>1. ~IsOpen(blks, b) /\ new[b].end = blks[b].end  BY <1>4, <2>2 DEF IsOpen
    <3> QED BY <1>1, <1>7, <3>1, SMTT(30) DEF ClosedAt
  <2> QED BY <2>1, <2>2
<1> QED BY <1>10, <1>11 DEF new

\* A block opened by the instruction just passed is one deeper than the stack was.
LEMMA OneOpens ==
    ASSUME NEW blks, NEW wk, NEW n \in Nat \ {0}, NEW kind \in BLK_KIND,
           OpenAt(blks, wk, n), ClosedAt(blks, n), Len(blks) >= 1, Len(wk) = Depth(n),
           blks \in Seq(WINST_BLK), wk \in Seq(DOMAIN blks)
    PROVE  LET new == Create_new_block(wk, blks, n, kind)
           IN  OpenAt(new, Append(wk, Len(blks) + 1), n) /\ ClosedAt(new, n)
<1> DEFINE N   == Len(blks)
           id  == N + 1
           new == Create_new_block(wk, blks, n, kind)
           wk2 == Append(wk, id)
           L   == Len(wk)
<1>1. N \in Nat /\ DOMAIN blks = 1 .. N /\ \A b \in 1 .. N : blks[b] \in WINST_BLK
  BY SeqBasics
<1>2. /\ DOMAIN new = 1 .. id
      /\ \A b \in 1 .. N : new[b].start = blks[b].start /\ new[b].end = blks[b].end
      /\ new[id].start = n /\ new[id].end = 0
  BY <1>1, CreateShape, SeqBasics
<1>3. /\ L \in Nat /\ DOMAIN wk = 1 .. L /\ \A i \in 1 .. L : wk[i] \in 1 .. N
  BY <1>1, SeqBasics
<1>4. /\ DOMAIN wk2 = 1 .. L + 1 /\ wk2[L + 1] = id
      /\ \A i \in 1 .. L : wk2[i] = wk[i]
  BY <1>3
<1>5. id # BLOCK_FUNCTION /\ id \notin 1 .. N  BY <1>1 DEF BLOCK_FUNCTION
<1>6. 1 .. id = 1 .. N \cup {id} /\ 1 .. L + 1 = 1 .. L \cup {L + 1}  BY <1>1, <1>3
<1> HIDE DEF N, id, new, wk2, L
<1>7. Pos(new, id) = n /\ \A b \in 1 .. N : Pos(new, b) = Pos(blks, b)
  BY <1>2, <1>5 DEF Pos
<1>8. OpenAt(new, wk2, n)
  <2> SUFFICES ASSUME NEW k \in 1 .. L + 1
               PROVE  /\ Pos(new, wk2[k]) \in 0 .. n /\ Depth(Pos(new, wk2[k])) = k - 1
                      /\ \A j \in Closers(Pos(new, wk2[k])) : j > n
    BY <1>4 DEF OpenAt
  <2>1. CASE k = L + 1
    <3>1. Pos(new, wk2[k]) = n  BY <1>4, <1>7, <2>1
    <3>2. Depth(n) = k - 1  BY <1>3, <2>1 DEF L
    <3>3. \A j \in Closers(n) : j > n  BY DEF Closers
    <3> QED BY <3>1, <3>2, <3>3
  <2>2. CASE k \in 1 .. L
    <3>1. Pos(new, wk2[k]) = Pos(blks, wk[k])  BY <1>3, <1>4, <1>7, <2>2
    <3> QED BY <1>3, <2>2, <3>1 DEF OpenAt
  <2> QED BY <1>6, <2>1, <2>2
<1>9. ClosedAt(new, n)
  <2> SUFFICES ASSUME NEW b \in 1 .. id, ~IsOpen(new, b)
               PROVE  /\ new[b].end \in Closers(Pos(new, b)) /\ new[b].end <= n
                      /\ \A j \in Closers(Pos(new, b)) : new[b].end <= j
    BY <1>2 DEF ClosedAt
  <2>1. b \in 1 .. N  BY <1>2, <1>6 DEF IsOpen
  <2>2. ~IsOpen(blks, b) /\ new[b].end = blks[b].end /\ Pos(new, b) = Pos(blks, b)
    BY <1>2, <1>7, <2>1 DEF IsOpen
  <2> QED BY <1>1, <2>1, <2>2 DEF ClosedAt
<1> QED BY <1>8, <1>9 DEF new, wk2, id, N

\* Every step of the pass keeps the depths.
LEMMA DepthInvNext ==
    ASSUME HierInv, Len(blocks) >= 1, DepthInv, [HierNext]_hierVars
    PROVE  Len(blocks') >= 1 /\ DepthInv'
<1>1. /\ ins \in Seq(Inst) /\ Len(ins) \in Nat /\ it \in 1 .. Len(ins) + 1
      /\ ins_cnt \in 1 .. it
  BY SeqBasics DEF HierInv, HierTypeOK
<1>2. /\ blocks \in Seq(WINST_BLK) /\ work \in Seq(DOMAIN blocks)
      /\ TreeInv(blocks, work, ins_cnt, ins_cnt) /\ Len(blocks) \in Nat
      /\ Len(work) \in Nat
  BY SeqBasics DEF HierInv, TreeInv
<1> DEFINE n == it - 1
<1> DEFINE Kept == (/\ it = ins_cnt /\ Len(work) = Depth(n) + 1
                    /\ OpenAt(blocks, work, n) /\ ClosedAt(blocks, n))
                   => /\ Len(work') = Depth(n + 1) + 1
                      /\ OpenAt(blocks', work', n + 1) /\ ClosedAt(blocks', n + 1)
<1>3. n \in Nat /\ n + 1 = it  BY <1>1
<1>4. ins_cnt \in Nat \ {0} /\ ins_cnt \in Nat  BY <1>1
\* What a step that advances has to show.
<1>5. ASSUME Advance, ins' = ins, build' = build, build = "running", Len(blocks') >= 1,
             Kept
      PROVE  Len(blocks') >= 1 /\ DepthInv'
  <2> SUFFICES ASSUME InBody', build' # "aborted"
               PROVE  /\ Len(work') = Depth(it - 1)' + 1
                      /\ OpenAt(blocks, work, it - 1)' /\ ClosedAt(blocks, it - 1)'
    BY <1>5 DEF DepthInv
  <2>1. it' = it + 1 /\ ins_cnt' = ins_cnt + 1  BY <1>5 DEF Advance
  <2>2. it = ins_cnt
    <3>1. it' = ins_cnt'  BY DEF InBody
    <3>2. it \in Int /\ ins_cnt \in Int  BY <1>1
    <3> QED BY <2>1, <3>1, <3>2
  <2>3. /\ Len(work) = Depth(n) + 1 /\ OpenAt(blocks, work, n) /\ ClosedAt(blocks, n)
    BY <1>5, <2>2 DEF DepthInv, InBody
  <2>4. /\ Len(work') = Depth(n + 1) + 1
        /\ OpenAt(blocks', work', n + 1) /\ ClosedAt(blocks', n + 1)
    BY <1>5, <2>2, <2>3
  <2>5. it' - 1 = n + 1  BY <1>1, <2>1
  <2>6. \A i : Depth(i)' = Depth(i)  BY <1>5 DEF Depth
  <2>7. \A s : Closers(s)' = Closers(s)  BY <1>5, <2>6 DEF Closers
  <2> HIDE DEF n
  <2> QED BY <2>4, <2>5, <2>6, <2>7 DEF OpenAt, ClosedAt
<1>6. ASSUME NEW op \in DOMAIN Opens, OpenBlock(op)
      PROVE  Len(blocks') >= 1 /\ DepthInv'
  <2>1. /\ blocks' = Create_new_block(work, blocks, ins_cnt, Opens[op])
        /\ work' = Append(work, Len(blocks) + 1) /\ Advance /\ ins' = ins
        /\ build' = build /\ build = "running" /\ it <= Len(ins) /\ ins[it].op = op
    BY <1>6 DEF OpenBlock, At
  <2>2. Opens[op] \in BLK_KIND  BY DEF Opens, BLK_KIND
  <2>3. Len(blocks') = Len(blocks) + 1  BY <1>2, <1>4, <2>1, <2>2, CreateShape
  <2>4. Len(work') = Len(work) + 1  BY <1>2, <2>1, AppendProperties
  <2>5. ASSUME it = ins_cnt, Len(work) = Depth(n) + 1, OpenAt(blocks, work, n),
               ClosedAt(blocks, n)
        PROVE  /\ Len(work') = Depth(n + 1) + 1
               /\ OpenAt(blocks', work', n + 1) /\ ClosedAt(blocks', n + 1)
    <3>1. op \notin {"End", "Else"}  BY DEF Opens
    <3>2. OpenAt(blocks, work, n + 1) /\ ClosedAt(blocks, n + 1)
      BY <1>1, <1>2, <1>3, <2>1, <2>5, <3>1, NoneCloses
    <3>3. Depth(n) \in Int /\ Depth(n + 1) = Depth(n) + 1
      BY <1>3, <2>1, DepthStep
    <3>4. Len(work) = Depth(n + 1) /\ n + 1 = ins_cnt /\ n + 1 \in Nat \ {0}
      BY <1>2, <1>3, <2>5, <3>3
    <3>5. OpenAt(blocks', work', n + 1) /\ ClosedAt(blocks', n + 1)
      BY <1>2, <2>1, <2>2, <3>2, <3>4, OneOpens
    <3> QED BY <2>4, <3>4, <3>5
  <2>6. Kept  BY <2>5
  <2> HIDE DEF n, Kept
  <2> QED BY <1>2, <1>5, <2>1, <2>3, <2>6
<1>7. CASE ElseBlock
  <2> DEFINE closed == Finish_old_block(work, blocks, ins_cnt)
             rest   == Front(work)
  <2>1. /\ blocks' = Create_new_block(rest, closed, ins_cnt, "ELSE")
        /\ work' = Append(rest, Len(blocks) + 1) /\ Advance /\ ins' = ins
        /\ build' = build /\ build = "running" /\ it <= Len(ins) /\ ins[it].op = "Else"
        /\ work # <<>>
    BY <1>7 DEF ElseBlock, At, IfOnTop
  <2>2. "ELSE" \in BLK_KIND  BY DEF BLK_KIND
  <2>3. Len(closed) = Len(blocks)  BY <1>2, <1>4, <2>1, FinishShape
  <2>4. TreeInv(closed, rest, ins_cnt, ins_cnt + 1)
    BY <1>2, <1>4, <2>1, FinishPreserves
  <2>5. closed \in Seq(WINST_BLK) /\ rest \in Seq(DOMAIN closed)
    BY <2>4 DEF TreeInv
  <2>6. Len(rest) = Len(work) - 1  BY <1>2, <2>1, StackTop
  <2>7. Len(blocks') = Len(blocks) + 1
    <3> HIDE DEF closed, rest
    <3> QED BY <1>4, <2>1, <2>2, <2>3, <2>5, CreateShape
  <2>8. Len(work') = Len(rest) + 1  BY <2>1, <2>5, AppendProperties
  <2>9. ASSUME it = ins_cnt, Len(work) = Depth(n) + 1, OpenAt(blocks, work, n),
               ClosedAt(blocks, n)
        PROVE  /\ Len(work') = Depth(n + 1) + 1
               /\ OpenAt(blocks', work', n + 1) /\ ClosedAt(blocks', n + 1)
    <3>1. n + 1 = ins_cnt /\ n < Len(ins) /\ ins[n + 1].op \in {"End", "Else"}
      BY <1>1, <1>3, <2>1, <2>9
    <3>2. OpenAt(closed, rest, n + 1) /\ ClosedAt(closed, n + 1)
      BY <1>1, <1>2, <1>3, <2>1, <2>9, <3>1, TopCloses
    <3>3. Depth(n) \in Int /\ Depth(n + 1) = Depth(n)
      <4>1. ins[n + 1].op \notin DOMAIN Opens \cup {"End"}  BY <1>3, <2>1 DEF Opens
      <4> QED BY <1>3, <4>1, DepthStep
    <3>4. Len(rest) = Depth(n + 1)  BY <1>2, <2>6, <2>9, <3>3
    <3>5. n + 1 \in Nat \ {0}  BY <1>3
    <3> HIDE DEF closed, rest
    <3>6. OpenAt(blocks', work', n + 1) /\ ClosedAt(blocks', n + 1)
      BY <2>1, <2>2, <2>3, <2>5, <3>1, <3>2, <3>4, <3>5, OneOpens
    <3> QED BY <2>8, <3>4, <3>6
  <2>10. Kept  BY <2>9
  <2> HIDE DEF n, closed, rest, Kept
  <2> QED BY <1>2, <1>5, <2>1, <2>7, <2>10
<1>8. CASE EndBlock
  <2>1. /\ blocks' = Finish_old_block(work, blocks, ins_cnt)
        /\ work' = Front(work) /\ Advance /\ ins' = ins
        /\ build' = build /\ build = "running" /\ it <= Len(ins) /\ ins[it].op = "End"
        /\ work # <<>>
    BY <1>8 DEF EndBlock, At
  <2>2. Len(blocks') = Len(blocks)  BY <1>2, <1>4, <2>1, FinishShape
  <2>3. Len(work') = Len(work) - 1  BY <1>2, <2>1, StackTop
  <2>4. ASSUME it = ins_cnt, Len(work) = Depth(n) + 1, OpenAt(blocks, work, n),
               ClosedAt(blocks, n)
        PROVE  /\ Len(work') = Depth(n + 1) + 1
               /\ OpenAt(blocks', work', n + 1) /\ ClosedAt(blocks', n + 1)
    <3>1. n + 1 = ins_cnt /\ n < Len(ins) /\ ins[n + 1].op \in {"End", "Else"}
      BY <1>1, <1>3, <2>1, <2>4
    <3>2. OpenAt(blocks', work', n + 1) /\ ClosedAt(blocks', n + 1)
      BY <1>1, <1>2, <1>3, <2>1, <2>4, <3>1, TopCloses
    <3>3. Depth(n) \in Int /\ Depth(n + 1) = Depth(n) - 1
      BY <1>3, <2>1, DepthStep
    <3>4. Len(work') = Depth(n + 1) + 1  BY <1>2, <2>3, <2>4, <3>3
    <3> QED BY <3>2, <3>4
  <2>5. Kept  BY <2>4
  <2> HIDE DEF n, Kept
  <2> QED BY <1>2, <1>5, <2>1, <2>2, <2>5
<1>9. CASE OtherInst
  <2>1. /\ blocks' = blocks /\ work' = work /\ Advance /\ ins' = ins
        /\ build' = build /\ build = "running" /\ it <= Len(ins)
        /\ ins[it].op \notin DOMAIN Opens \cup {"Else", "End"}
    BY <1>9 DEF OtherInst
  <2>2. ASSUME it = ins_cnt, Len(work) = Depth(n) + 1, OpenAt(blocks, work, n),
               ClosedAt(blocks, n)
        PROVE  /\ Len(work') = Depth(n + 1) + 1
               /\ OpenAt(blocks', work', n + 1) /\ ClosedAt(blocks', n + 1)
    <3>1. n < Len(ins) /\ ins[n + 1].op \notin DOMAIN Opens \cup {"Else", "End"}
      BY <1>1, <1>3, <2>1
    <3>2. OpenAt(blocks, work, n + 1) /\ ClosedAt(blocks, n + 1)
      BY <1>1, <1>2, <1>3, <2>2, <3>1, NoneCloses
    <3>3. Depth(n + 1) = Depth(n)  BY <1>3, <3>1, DepthStep
    <3> QED BY <2>1, <2>2, <3>2, <3>3
  <2>3. Kept  BY <2>2
  <2> HIDE DEF n, Kept
  <2> QED BY <1>5, <2>1, <2>3
<1>10. CASE EndIgnored
  <2>1. it' = it + 1 /\ ins_cnt' = ins_cnt /\ blocks' = blocks  BY <1>10 DEF EndIgnored
  <2>2. it' # ins_cnt'  BY <1>1, <2>1
  <2> QED BY <2>1, <2>2 DEF DepthInv, InBody
<1>11. CASE ElseWithoutIf
  BY <1>11 DEF ElseWithoutIf, Abort, DepthInv
<1>12. CASE ReturnBlocks \/ UNCHANGED hierVars
  <2>1. UNCHANGED <<ins, it, ins_cnt, blocks, work>> /\ (build' # "aborted" => build # "aborted")
    BY <1>12 DEF ReturnBlocks, hierVars
  <2>2. \A i : Depth(i)' = Depth(i)  BY <2>1 DEF Depth
  <2>3. \A s : Closers(s)' = Closers(s)  BY <2>1, <2>2 DEF Closers
  <2>4. InBody' => InBody  BY <2>1 DEF InBody
  <2> QED BY <2>1, <2>2, <2>3, <2>4 DEF DepthInv, OpenAt, ClosedAt
<1> QED BY <1>6, <1>7, <1>8, <1>9, <1>10, <1>11, <1>12 DEF HierNext

\* The first closer is the end of the block.
LEMMA MinIs ==
    ASSUME NEW S, NEW m \in S, S \subseteq Int, \A y \in S : m <= y
    PROVE  Min(S) = m
<1>1. \A x \in S : (\A y \in S : x <= y) => x = m  OBVIOUS
<1> QED BY <1>1, Zenon DEF Min

\* Counting and the stack agree on the end of each block.
LEMMA EndsNow == HierInv /\ DepthInv => EndsWhereWasmSays
<1> SUFFICES ASSUME HierInv, DepthInv, InBody, build # "aborted", NEW b \in BlkIds
             PROVE  LET s == IF b = BLOCK_FUNCTION THEN 0 ELSE blocks[b].start
                        passed == {j \in Closers(s) : j < it}
                    IN  IF passed = {} THEN IsOpen(blocks, b) ELSE blocks[b].end = Min(passed)
  BY DEF EndsWhereWasmSays
<1> DEFINE s == Pos(blocks, b)
           passed == {j \in Closers(s) : j < it}
<1>1. OpenAt(blocks, work, it - 1) /\ ClosedAt(blocks, it - 1)  BY DEF DepthInv
<1>2. it \in Nat /\ Closers(s) \subseteq Int
  BY SeqBasics DEF HierInv, HierTypeOK, Closers
<1>3. b \in DOMAIN blocks  BY SeqBasics DEF HierInv, TreeInv, BlkIds
<1>4. CASE IsOpen(blocks, b)
  <2>1. PICK k \in DOMAIN work : work[k] = b
    BY <1>3, <1>4 DEF HierInv, TreeInv, OpenIffOnWork
  <2>2. \A j \in Closers(s) : j > it - 1  BY <1>1, <2>1 DEF OpenAt
  <2>3. passed = {}  BY <1>2, <2>2
  <2> QED BY <1>4, <2>3 DEF Pos
<1>5. CASE ~IsOpen(blocks, b)
  <2>1. /\ blocks[b].end \in Closers(s) /\ blocks[b].end <= it - 1
        /\ \A j \in Closers(s) : blocks[b].end <= j
    BY <1>1, <1>3, <1>5 DEF ClosedAt
  <2>2. blocks[b].end \in passed /\ passed \subseteq Int  BY <1>2, <2>1
  <2>3. Min(passed) = blocks[b].end  BY <2>1, <2>2, MinIs
  <2> QED BY <2>2, <2>3 DEF Pos
<1> QED BY <1>4, <1>5

\* Every block ends exactly where the nesting of wasm says its construct does, for a
\* vector of any length and depth, until an else has no if or the body is over: the
\* stack of the pass agrees with counting, which uses none.
THEOREM HierEndsWhereWasmSays == HierSpec => []EndsWhereWasmSays
<1>1. HierStart => Len(blocks) >= 1 /\ DepthInv
  <2> SUFFICES ASSUME HierStart PROVE Len(blocks) >= 1 /\ DepthInv
    OBVIOUS
  <2>1. /\ blocks = <<NewBlk("FUNC", 0, 1)>> /\ work = <<1>> /\ it = 1
    BY DEF HierStart, Create_new_block, BLOCK_INSTR_BEGIN, BLOCK_FUNCTION
  <2>2. /\ Len(blocks) = 1 /\ DOMAIN blocks = {1} /\ blocks[1].end = 0
        /\ DOMAIN work = {1} /\ work[1] = 1 /\ Len(work) = 1 /\ it - 1 = 0
    BY <2>1 DEF NewBlk
  <2>3. Pos(blocks, 1) = 0  BY DEF Pos, BLOCK_FUNCTION
  <2>4. \A j \in Closers(0) : j > 0  BY DEF Closers
  <2>5. OpenAt(blocks, work, 0)  BY <2>2, <2>3, <2>4, DepthZero DEF OpenAt
  <2>6. ClosedAt(blocks, 0)  BY <2>2 DEF ClosedAt, IsOpen
  <2> QED BY <2>2, <2>5, <2>6, DepthZero DEF DepthInv
<1>2. HierInv /\ Len(blocks) >= 1 /\ DepthInv /\ [HierNext]_hierVars
        => (Len(blocks) >= 1 /\ DepthInv)'
  BY DepthInvNext
<1>3. HierInv /\ DepthInv => EndsWhereWasmSays  BY EndsNow
<1> QED BY <1>1, <1>2, <1>3, HierInvariant, HierStarts, PTL DEF HierSpec
-----------------------------------------------------------------------------
(***************************************************************************)
(* The blocks of the body proper, for the label search: their starts are     *)
(* apart, each instruction that opens one has it, at the depth counting      *)
(* gives, and nothing that comes after the body's own End changes them.      *)
(***************************************************************************)

\* The instructions that open a block, and its kind.
Starting   == DOMAIN Opens \cup {"Else"}
KindOf(op) == IF op = "Else" THEN "ELSE" ELSE Opens[op]

\* A step leaves a block as it is, or closes it.
StepKeeps(old, new, cnt) ==
    \A b \in DOMAIN old :
        /\ b \in DOMAIN new
        /\ new[b].start = old[b].start /\ new[b].kind = old[b].kind
        /\ new[b].parent = old[b].parent
        /\ new[b].end = old[b].end \/ (IsOpen(old, b) /\ new[b].end = cnt)

\* It closes one at an end, or an if at an else.
StepCloses(old, new, op) ==
    \A b \in DOMAIN old : new[b].end # old[b].end =>
        op = "End" \/ (op = "Else" /\ old[b].kind = "IF")

\* It opens at most one, under the parent given.
StepOpens(old, new, cnt, op, parent) ==
    LET id == Len(old) + 1
    IN  IF op \in Starting
        THEN /\ DOMAIN new = DOMAIN old \cup {id}
             /\ new[id].start = cnt /\ new[id].end = 0 /\ new[id].kind = KindOf(op)
             /\ new[id].parent = parent
        ELSE DOMAIN new = DOMAIN old

TopOf(wk) == IF wk = <<>> THEN 0 ELSE Last(wk)
ParentAt(op) == IF op = "Else" THEN TopOf(Front(work)) ELSE TopOf(work)

StepBlocks ==
    /\ Advance /\ build = "running" /\ build' = build /\ ins' = ins /\ it <= Len(ins)
    /\ StepKeeps(blocks, blocks', ins_cnt)
    /\ StepCloses(blocks, blocks', ins[it].op)
    /\ StepOpens(blocks, blocks', ins_cnt, ins[it].op, ParentAt(ins[it].op))
    /\ ins[it].op = "Else" => IfOnTop

\* A new block, on the vector it is added to.
LEMMA CreateSteps ==
    ASSUME NEW blks \in Seq(WINST_BLK), NEW wk \in Seq(DOMAIN blks), NEW cnt \in Nat,
           NEW op \in Starting
    PROVE  LET new == Create_new_block(wk, blks, cnt, KindOf(op))
           IN  /\ StepOpens(blks, new, cnt, op, TopOf(wk))
               /\ \A b \in DOMAIN blks :
                     /\ b \in DOMAIN new
                     /\ new[b].start = blks[b].start /\ new[b].kind = blks[b].kind
                     /\ new[b].parent = blks[b].parent /\ new[b].end = blks[b].end
<1> DEFINE new == Create_new_block(wk, blks, cnt, KindOf(op))
           id  == Len(blks) + 1
<1>1. KindOf(op) \in BLK_KIND  BY DEF KindOf, Starting, Opens, BLK_KIND
<1>2. Len(blks) \in Nat /\ DOMAIN blks = 1 .. Len(blks)  BY SeqBasics
<1>3. /\ Len(new) = id /\ new \in Seq(WINST_BLK)
      /\ \A b \in 1 .. Len(blks) :
            /\ new[b].kind = blks[b].kind /\ new[b].parent = blks[b].parent
            /\ new[b].start = blks[b].start /\ new[b].end = blks[b].end
      /\ new[id].kind = KindOf(op) /\ new[id].parent = TopOf(wk)
      /\ new[id].start = cnt /\ new[id].end = 0
  BY <1>1, CreateShape DEF TopOf
<1> HIDE DEF new
<1>4. DOMAIN new = 1 .. id  BY <1>3, SeqBasics
<1>5. 1 .. id = 1 .. Len(blks) \cup {id}  BY <1>2
<1>6. StepOpens(blks, new, cnt, op, TopOf(wk))  BY <1>2, <1>3, <1>4, <1>5 DEF StepOpens
<1> QED BY <1>2, <1>3, <1>4, <1>5, <1>6 DEF new

\* Closing the top.
LEMMA FinishSteps ==
    ASSUME NEW blks \in Seq(WINST_BLK), NEW wk \in Seq(DOMAIN blks), NEW cnt \in Nat,
           wk # <<>>, OpenIffOnWork(blks, wk)
    PROVE  LET new == Finish_old_block(wk, blks, cnt)
           IN  /\ DOMAIN new = DOMAIN blks /\ Len(new) = Len(blks)
               /\ StepKeeps(blks, new, cnt)
               /\ \A b \in DOMAIN blks : new[b].end # blks[b].end => b = Last(wk)
<1> DEFINE new == Finish_old_block(wk, blks, cnt)
<1>1. Len(blks) \in Nat /\ DOMAIN blks = 1 .. Len(blks)  BY SeqBasics
<1>2. /\ Len(new) = Len(blks) /\ new \in Seq(WINST_BLK)
      /\ \A b \in 1 .. Len(blks) :
            /\ new[b].kind = blks[b].kind /\ new[b].parent = blks[b].parent
            /\ new[b].start = blks[b].start
            /\ new[b].end = IF b = Last(wk) THEN cnt ELSE blks[b].end
  BY FinishShape
<1> HIDE DEF new
<1>3. DOMAIN new = 1 .. Len(blks)  BY <1>2, SeqBasics
<1>4. IsOpen(blks, Last(wk))
  <2>1. Len(wk) \in DOMAIN wk /\ Last(wk) = wk[Len(wk)] /\ Last(wk) \in DOMAIN blks
    BY StackTop, SeqBasics
  <2> QED BY <2>1 DEF OpenIffOnWork
<1>5. StepKeeps(blks, new, cnt)  BY <1>1, <1>2, <1>3, <1>4 DEF StepKeeps
<1> QED BY <1>1, <1>2, <1>3, <1>5 DEF new

\* What a step of the pass that advances does to the blocks.
LEMMA StepIs ==
    ASSUME HierInv, HierNext, build' # "aborted", it' # it, ins_cnt' # ins_cnt
    PROVE  StepBlocks
<1>1. /\ blocks \in Seq(WINST_BLK) /\ work \in Seq(DOMAIN blocks)
      /\ TreeInv(blocks, work, ins_cnt, ins_cnt) /\ OpenIffOnWork(blocks, work)
  BY DEF HierInv, TreeInv
<1>2. ins_cnt \in Nat /\ ins_cnt \in Nat \ {0}  BY DEF HierInv, HierTypeOK
<1>3. ASSUME NEW op \in DOMAIN Opens, OpenBlock(op) PROVE StepBlocks
  <2>1. /\ Advance /\ build = "running" /\ build' = build /\ ins' = ins /\ it <= Len(ins)
        /\ ins[it].op = op /\ blocks' = Create_new_block(work, blocks, ins_cnt, Opens[op])
    BY <1>3 DEF OpenBlock, At
  <2>2. op \in Starting /\ op # "Else" /\ KindOf(op) = Opens[op]
    BY DEF Starting, Opens, KindOf
  <2>3. /\ StepOpens(blocks, blocks', ins_cnt, op, TopOf(work))
        /\ \A b \in DOMAIN blocks :
              /\ b \in DOMAIN blocks'
              /\ blocks'[b].start = blocks[b].start /\ blocks'[b].kind = blocks[b].kind
              /\ blocks'[b].parent = blocks[b].parent /\ blocks'[b].end = blocks[b].end
    BY <1>1, <1>2, <2>1, <2>2, CreateSteps
  <2>4. ParentAt(op) = TopOf(work)  BY <2>2 DEF ParentAt
  <2> QED BY <2>1, <2>2, <2>3, <2>4 DEF StepBlocks, StepKeeps, StepCloses
<1>4. CASE ElseBlock
  <2> DEFINE closed == Finish_old_block(work, blocks, ins_cnt)
             rest   == Front(work)
  <2>1. /\ Advance /\ build = "running" /\ build' = build /\ ins' = ins /\ it <= Len(ins)
        /\ ins[it].op = "Else" /\ work # <<>> /\ blocks[Last(work)].kind = "IF"
        /\ blocks' = Create_new_block(rest, closed, ins_cnt, "ELSE")
    BY <1>4 DEF ElseBlock, At, IfOnTop
  <2>2. /\ DOMAIN closed = DOMAIN blocks /\ Len(closed) = Len(blocks)
        /\ StepKeeps(blocks, closed, ins_cnt)
        /\ \A b \in DOMAIN blocks : closed[b].end # blocks[b].end => b = Last(work)
    BY <1>1, <1>2, <2>1, FinishSteps
  <2>3. TreeInv(closed, rest, ins_cnt, ins_cnt + 1)
    BY <1>1, <1>2, <2>1, FinishPreserves
  <2>4. closed \in Seq(WINST_BLK) /\ rest \in Seq(DOMAIN closed)  BY <2>3 DEF TreeInv
  <2>5. "Else" \in Starting /\ KindOf("Else") = "ELSE"  BY DEF Starting, KindOf
  <2>6. ParentAt("Else") = TopOf(rest)  BY DEF ParentAt
  <2> HIDE DEF closed, rest
  <2>7. /\ StepOpens(closed, blocks', ins_cnt, "Else", TopOf(rest))
        /\ \A b \in DOMAIN closed :
              /\ b \in DOMAIN blocks'
              /\ blocks'[b].start = closed[b].start /\ blocks'[b].kind = closed[b].kind
              /\ blocks'[b].parent = closed[b].parent /\ blocks'[b].end = closed[b].end
    BY <1>2, <2>1, <2>4, <2>5, CreateSteps
  <2>8. StepOpens(blocks, blocks', ins_cnt, "Else", TopOf(rest))
    BY <2>2, <2>7 DEF StepOpens
  <2>9. StepKeeps(blocks, blocks', ins_cnt)  BY <2>2, <2>7 DEF StepKeeps
  <2>10. StepCloses(blocks, blocks', "Else")  BY <2>1, <2>2, <2>7 DEF StepCloses
  <2>11. IfOnTop  BY <2>1 DEF IfOnTop
  <2> QED BY <2>1, <2>6, <2>8, <2>9, <2>10, <2>11 DEF StepBlocks
<1>5. CASE EndBlock
  <2>1. /\ Advance /\ build = "running" /\ build' = build /\ ins' = ins /\ it <= Len(ins)
        /\ ins[it].op = "End" /\ work # <<>>
        /\ blocks' = Finish_old_block(work, blocks, ins_cnt)
    BY <1>5 DEF EndBlock, At
  <2>2. DOMAIN blocks' = DOMAIN blocks /\ StepKeeps(blocks, blocks', ins_cnt)
    BY <1>1, <1>2, <2>1, FinishSteps
  <2>3. "End" \notin Starting  BY DEF Starting, Opens
  <2> QED BY <2>1, <2>2, <2>3 DEF StepBlocks, StepCloses, StepOpens
<1>6. CASE OtherInst
  <2>1. /\ Advance /\ build = "running" /\ build' = build /\ ins' = ins /\ it <= Len(ins)
        /\ ins[it].op \notin Starting /\ ins[it].op # "Else" /\ blocks' = blocks
    BY <1>6 DEF OtherInst, Starting
  <2> QED BY <2>1 DEF StepBlocks, StepKeeps, StepCloses, StepOpens
<1>7. CASE ElseWithoutIf \/ EndIgnored \/ ReturnBlocks
  BY <1>7 DEF ElseWithoutIf, Abort, EndIgnored, ReturnBlocks
<1> QED BY <1>3, <1>4, <1>5, <1>6, <1>7 DEF HierNext

\* A step that does not advance leaves the blocks alone, but for an ignored end.
LEMMA StepElse ==
    ASSUME HierInv, [HierNext]_hierVars, build' # "aborted", ~StepBlocks
    PROVE  /\ UNCHANGED <<ins, blocks, work, ins_cnt>> /\ build # "aborted"
           /\ \/ it' = it
              \/ it' = it + 1 /\ it <= Len(ins) /\ ins[it].op = "End" /\ work = <<>>
<1>1. CASE UNCHANGED hierVars  BY <1>1 DEF hierVars
<1>2. CASE HierNext
  <2>1. it \in Nat /\ ins_cnt \in Nat
    BY SeqBasics DEF HierInv, HierTypeOK
  <2>2. CASE Advance
    <3>1. it' # it /\ ins_cnt' # ins_cnt  BY <2>1, <2>2 DEF Advance
    <3> QED BY <1>2, <3>1, StepIs
  <2>3. CASE ~Advance
    <3>1. ElseWithoutIf \/ EndIgnored \/ ReturnBlocks
      BY <1>2, <2>3 DEF HierNext, OpenBlock, ElseBlock, EndBlock, OtherInst
    <3> QED BY <3>1 DEF ElseWithoutIf, Abort, EndIgnored, ReturnBlocks, At
  <2> QED BY <2>2, <2>3
<1> QED BY <1>1, <1>2

\* Blocks begin one after the other, each at an instruction of its own that is not its
\* last, but for the function block, the first and only one of its kind.
StartsInv ==
    /\ Len(blocks) >= 1 /\ blocks[1].kind = "FUNC" /\ blocks[1].start = 1
    /\ \A b \in DOMAIN blocks : b # 1 =>
          /\ blocks[b].kind # "FUNC" /\ blocks[b].start < ins_cnt
          /\ ~IsOpen(blocks, b) => blocks[b].start < blocks[b].end
    /\ \A b, c \in DOMAIN blocks : 1 < b /\ b < c => blocks[b].start < blocks[c].start

\* Every step keeps the starts apart.
LEMMA StartsInvNext ==
    ASSUME HierInv, StartsInv, [HierNext]_hierVars
    PROVE  StartsInv'
<1>1. /\ blocks \in Seq(WINST_BLK) /\ DOMAIN blocks = 1 .. Len(blocks) /\ Len(blocks) \in Nat
      /\ \A b \in DOMAIN blocks : blocks[b].start \in Nat
      /\ ins_cnt \in Nat
  <2>1. blocks \in Seq(WINST_BLK) /\ ins_cnt \in Nat  BY DEF HierInv, TreeInv, HierTypeOK
  <2>2. \A b \in DOMAIN blocks : blocks[b] \in WINST_BLK  BY <2>1, SeqBasics
  <2> QED BY <2>1, <2>2, SeqBasics DEF WINST_BLK
<1>2. CASE build' = "aborted" \/ ~StepBlocks
  <2>1. UNCHANGED <<blocks, ins_cnt>>
    <3>1. CASE build' # "aborted"  BY <1>2, <3>1, StepElse
    <3>2. CASE build' = "aborted"
      BY <3>2 DEF HierNext, hierVars, ElseWithoutIf, Abort, OpenBlock, ElseBlock, EndBlock,
                  EndIgnored, OtherInst, ReturnBlocks, At
    <3> QED BY <3>1, <3>2
  <2> QED BY <2>1 DEF StartsInv
<1>3. CASE build' # "aborted" /\ StepBlocks
  <2> DEFINE op == ins[it].op
             id == Len(blocks) + 1
  <2>1. /\ ins_cnt' = ins_cnt + 1
        /\ StepKeeps(blocks, blocks', ins_cnt)
        /\ StepOpens(blocks, blocks', ins_cnt, op, ParentAt(op))
    BY <1>3 DEF StepBlocks, Advance
  <2>2. DOMAIN blocks \subseteq DOMAIN blocks' /\ DOMAIN blocks' \subseteq DOMAIN blocks \cup {id}
    BY <2>1 DEF StepOpens
  <2>3. /\ id \in DOMAIN blocks' => /\ blocks'[id].start = ins_cnt /\ blocks'[id].kind # "FUNC"
                                    /\ blocks'[id].end = 0
        /\ id \notin DOMAIN blocks /\ \A b \in DOMAIN blocks : b < id
    BY <1>1, <2>1 DEF StepOpens, KindOf, Starting, Opens
  <2>4. \A b \in DOMAIN blocks : blocks'[b].start = blocks[b].start /\ blocks'[b].kind = blocks[b].kind
    BY <2>1 DEF StepKeeps
  <2>5. blocks' \in Seq(WINST_BLK)
    BY HierInvNext DEF HierInv, TreeInv
  <2>6. DOMAIN blocks' = 1 .. Len(blocks') /\ Len(blocks') \in Nat  BY <2>5, SeqBasics
  <2>7. 1 \in DOMAIN blocks /\ Len(blocks') >= 1 /\ id # 1
    BY <1>1, <2>2, <2>6 DEF StartsInv
  <2> HIDE DEF op, id
  <2>8. \A b \in DOMAIN blocks' :
            b # 1 => blocks'[b].kind # "FUNC" /\ blocks'[b].start < ins_cnt'
    BY <1>1, <2>1, <2>2, <2>3, <2>4 DEF StartsInv
  <2>9. \A b, c \in DOMAIN blocks' : 1 < b /\ b < c => blocks'[b].start < blocks'[c].start
    BY <1>1, <2>2, <2>3, <2>4, <2>6 DEF StartsInv
  <2>10. ASSUME NEW b \in DOMAIN blocks', b # 1, ~IsOpen(blocks', b)
         PROVE  blocks'[b].start < blocks'[b].end
    <3>1. CASE b = id  BY <2>3, <2>10, <3>1 DEF IsOpen
    <3>2. CASE b \in DOMAIN blocks
      <4>1. \/ blocks'[b].end = blocks[b].end
            \/ blocks'[b].end = ins_cnt
        BY <2>1, <3>2 DEF StepKeeps
      <4>2. blocks[b].start < ins_cnt  BY <2>10, <3>2 DEF StartsInv
      <4>3. ~IsOpen(blocks, b) => blocks[b].start < blocks[b].end
        BY <2>10, <3>2 DEF StartsInv
      <4> QED BY <2>4, <2>10, <3>2, <4>1, <4>2, <4>3 DEF IsOpen
    <3> QED BY <2>2, <3>1, <3>2
  <2> QED BY <2>4, <2>7, <2>8, <2>9, <2>10 DEF StartsInv
<1> QED BY <1>2, <1>3

\* An instruction before every end of the body, and a vector the body is over in.
Early(s)    == \A e \in Ends(0) : s < e
BodyOver(n) == \E e \in Ends(0) : e <= n
EarlyBlks(blks) == {b \in DOMAIN blks : Early(Pos(blks, b))}

\* b is open after instruction q.
Covers(blks, b, q) == Pos(blks, b) <= q /\ (IsOpen(blks, b) \/ q < blks[b].end)

\* Each block was opened by an instruction of its kind, one deeper than its parent.
Opened(blks) ==
    \A b \in EarlyBlks(blks) : b # 1 =>
        /\ ins[blks[b].start].op \in Starting
        /\ blks[b].kind = KindOf(ins[blks[b].start].op)
        /\ blks[b].parent \in DOMAIN blks
        /\ Depth(blks[b].start) = Depth(Pos(blks, blks[b].parent)) + 1

\* Each closed one ends at the first instruction that closes it, an end but for an if.
Ended(blks, n) ==
    \A b \in EarlyBlks(blks) : ~IsOpen(blks, b) =>
        /\ blks[b].end \in Closers(Pos(blks, b)) /\ blks[b].end <= n
        /\ \A j \in Closers(Pos(blks, b)) : blks[b].end <= j
        /\ blks[b].kind # "IF" => ins[blks[b].end].op = "End"

\* Each instruction that opens a block has one.
Found(blks, n) ==
    \A s \in 1 .. n : Early(s) /\ ins[s].op \in Starting =>
        \E b \in DOMAIN blks : b # 1 /\ blks[b].start = s

\* The last block open after q is as deep as q is.
TopAt(blks, q) ==
    \E t \in EarlyBlks(blks) :
        /\ Covers(blks, t, q) /\ Depth(Pos(blks, t)) = Depth(q)
        /\ \A b \in DOMAIN blks : Covers(blks, b, q) => b <= t

Topped(blks, n) == \A q \in 0 .. n : Early(q) => TopAt(blks, q)

BodyFacts(blks, n) == Opened(blks) /\ Ended(blks, n) /\ Found(blks, n) /\ Topped(blks, n)

\* While the body lasts program counters are positions; afterwards all its blocks are
\* closed, and no later one has a program counter of the body.
BodyInv ==
    build # "aborted" =>
        /\ BodyFacts(blocks, it - 1)
        /\ IF BodyOver(it - 1)
           THEN /\ BodyOver(ins_cnt - 1)
                /\ \A b \in EarlyBlks(blocks) : ~IsOpen(blocks, b)
           ELSE InBody

\* The next instruction of the body.
LEMMA BodyGoesOn ==
    ASSUME HierInv, HierInv', StartsInv, NEW n \in Nat, it = n + 1, it = ins_cnt, work # <<>>,
           BodyFacts(blocks, n), ~BodyOver(n), StepBlocks,
           Len(work) = Depth(n) + 1, OpenAt(blocks, work, n),
           Len(work') = Depth(n + 1) + 1, OpenAt(blocks', work', n + 1), ClosedAt(blocks', n + 1)
    PROVE  /\ BodyFacts(blocks', n + 1)
           /\ BodyOver(n + 1) => \A b \in DOMAIN blocks' : ~IsOpen(blocks', b)
<1> DEFINE op == ins[n + 1].op
           id == Len(blocks) + 1
<1>1. /\ blocks \in Seq(WINST_BLK) /\ work \in Seq(DOMAIN blocks)
      /\ WorkIsChain(blocks, work) /\ Len(blocks) \in Nat /\ DOMAIN blocks = 1 .. Len(blocks)
      /\ \A b \in DOMAIN blocks : blocks[b].start \in Nat /\ blocks[b].end \in Nat
  <2>1. blocks \in Seq(WINST_BLK) /\ work \in Seq(DOMAIN blocks) /\ WorkIsChain(blocks, work)
    BY DEF HierInv, TreeInv
  <2>2. \A b \in DOMAIN blocks : blocks[b] \in WINST_BLK  BY <2>1, SeqBasics
  <2> QED BY <2>1, <2>2, SeqBasics DEF WINST_BLK
<1>2. /\ StepKeeps(blocks, blocks', n + 1)
      /\ StepCloses(blocks, blocks', op)
      /\ StepOpens(blocks, blocks', n + 1, op, ParentAt(op))
      /\ op = "Else" => IfOnTop
      /\ n + 1 <= Len(ins)
  BY DEF StepBlocks
<1>3. /\ Depth(n) \in Int /\ Depth(n + 1) \in Int
      /\ op \in DOMAIN Opens => Depth(n + 1) = Depth(n) + 1
      /\ op = "End" => Depth(n + 1) = Depth(n) - 1
      /\ op \notin DOMAIN Opens \cup {"End"} => Depth(n + 1) = Depth(n)
  <2>1. n + 1 \in Nat  OBVIOUS
  <2> QED BY <2>1, DepthStep
<1>4. \A e \in Ends(0) : e \in Nat /\ e > n
  BY DEF BodyOver, Ends
<1>5. /\ DOMAIN blocks \subseteq DOMAIN blocks'
      /\ DOMAIN blocks' \subseteq DOMAIN blocks \cup {id} /\ id \notin DOMAIN blocks
      /\ id # 1 /\ 1 \in DOMAIN blocks
      /\ op \in Starting <=> id \in DOMAIN blocks'
      /\ op \in Starting => /\ blocks'[id].start = n + 1 /\ blocks'[id].end = 0
                            /\ blocks'[id].kind = KindOf(op)
                            /\ blocks'[id].parent = ParentAt(op)
  BY <1>1, <1>2 DEF StepOpens, StartsInv
<1>6. \A b \in DOMAIN blocks : Pos(blocks', b) = Pos(blocks, b)
  BY <1>2 DEF StepKeeps, Pos
<1>7. op \in Starting => Pos(blocks', id) = n + 1  BY <1>5 DEF Pos, BLOCK_FUNCTION
<1>8. /\ Opened(blocks) /\ Ended(blocks, n) /\ Found(blocks, n) /\ Topped(blocks, n)
  BY DEF BodyFacts
<1>9. /\ Len(work) \in Nat \ {0} /\ Last(work) = work[Len(work)] /\ Last(work) \in DOMAIN blocks
      /\ Front(work) \in Seq(DOMAIN blocks) /\ Len(Front(work)) = Len(work) - 1
      /\ \A i \in 1 .. Len(work) - 1 : Front(work)[i] = work[i]
      /\ DOMAIN work = 1 .. Len(work)
  BY <1>1, StackTop, SeqBasics
<1> HIDE DEF op, id
<1>10. op \in Starting => /\ ParentAt(op) \in DOMAIN blocks
                          /\ Depth(n + 1) = Depth(Pos(blocks, ParentAt(op))) + 1
  <2>1. CASE op \in Starting /\ op # "Else"
    <3>1. ParentAt(op) = work[Len(work)] /\ ParentAt(op) \in DOMAIN blocks
      BY <1>9, <2>1 DEF ParentAt, TopOf
    <3>2. Depth(Pos(blocks, work[Len(work)])) = Len(work) - 1
      BY <1>9 DEF OpenAt
    <3>3. op \in DOMAIN Opens  BY <2>1 DEF Starting
    <3> QED BY <1>3, <1>9, <3>1, <3>2, <3>3
  <2>2. CASE op = "Else"
    <3>1. blocks[Last(work)].kind = "IF"  BY <1>2, <2>2 DEF IfOnTop
    <3>2. Last(work) # 1  BY <3>1 DEF StartsInv
    <3>3. Last(work) \in EarlyBlks(blocks)
      <4>1. Pos(blocks, Last(work)) \in 0 .. n  BY <1>9 DEF OpenAt
      <4> QED BY <1>4, <1>9, <4>1 DEF EarlyBlks, Early
    <3>4. blocks[Last(work)].parent # 0
      <4>1. blocks[Last(work)].parent \in DOMAIN blocks  BY <1>8, <3>2, <3>3 DEF Opened
      <4> QED BY <1>1, <4>1
    <3>5. Len(work) # 1
      <4> SUFFICES ASSUME Len(work) = 1 PROVE FALSE
        OBVIOUS
      <4>1. 1 \in DOMAIN work /\ work[1] = Last(work)  BY <1>9
      <4>2. blocks[work[1]].parent = 0  BY <1>1, <4>1 DEF WorkIsChain
      <4> QED BY <3>4, <4>1, <4>2
    <3>6. PICK m \in Nat : m = Len(work) - 1 /\ m >= 1 /\ m \in 1 .. Len(work)
      BY <1>9, <3>5
    <3>7. Front(work) # <<>> /\ Len(Front(work)) = m  BY <1>9, <3>6
    <3>8. Last(Front(work)) = work[m] /\ work[m] \in DOMAIN blocks
      <4>1. Last(Front(work)) = Front(work)[m] /\ Last(Front(work)) \in DOMAIN blocks
        BY <1>9, <3>7, StackTop
      <4>2. m \in 1 .. Len(work) - 1  BY <1>9, <3>6
      <4> QED BY <1>9, <4>1, <4>2
    <3>9. ParentAt(op) = work[m]  BY <2>2, <3>7, <3>8 DEF ParentAt, TopOf
    <3>10. Depth(Pos(blocks, work[m])) = m - 1
      BY <1>9, <3>6 DEF OpenAt
    <3>11. op \notin DOMAIN Opens \cup {"End"}  BY <2>2 DEF Opens
    <3> QED BY <1>3, <3>6, <3>8, <3>9, <3>10, <3>11
  <2> QED BY <2>1, <2>2
<1>11. Opened(blocks')
  <2> SUFFICES ASSUME NEW b \in EarlyBlks(blocks'), b # 1
               PROVE  /\ ins[blocks'[b].start].op \in Starting
                      /\ blocks'[b].kind = KindOf(ins[blocks'[b].start].op)
                      /\ blocks'[b].parent \in DOMAIN blocks'
                      /\ Depth(blocks'[b].start) = Depth(Pos(blocks', blocks'[b].parent)) + 1
    BY DEF Opened
  <2>1. CASE b \in DOMAIN blocks
    <3>1. b \in EarlyBlks(blocks)  BY <1>6, <2>1 DEF EarlyBlks
    <3>2. /\ blocks'[b].start = blocks[b].start /\ blocks'[b].kind = blocks[b].kind
          /\ blocks'[b].parent = blocks[b].parent
      BY <1>2, <2>1 DEF StepKeeps
    <3> QED BY <1>5, <1>6, <1>8, <3>1, <3>2 DEF Opened
  <2>2. CASE b = id
    <3>1. op \in Starting  BY <1>5, <2>2 DEF EarlyBlks
    <3>2. ParentAt(op) \in DOMAIN blocks' /\ Pos(blocks', ParentAt(op)) = Pos(blocks, ParentAt(op))
      BY <1>5, <1>6, <1>10, <3>1
    <3> QED BY <1>5, <1>10, <2>2, <3>1, <3>2 DEF op
  <2> QED BY <1>5, <2>1, <2>2 DEF EarlyBlks
<1>12. Ended(blocks', n + 1)
  <2> SUFFICES ASSUME NEW b \in EarlyBlks(blocks'), ~IsOpen(blocks', b)
               PROVE  /\ blocks'[b].end \in Closers(Pos(blocks', b)) /\ blocks'[b].end <= n + 1
                      /\ \A j \in Closers(Pos(blocks', b)) : blocks'[b].end <= j
                      /\ blocks'[b].kind # "IF" => ins[blocks'[b].end].op = "End"
    BY DEF Ended
  <2>1. b \in DOMAIN blocks'  BY DEF EarlyBlks
  <2>2. b \in DOMAIN blocks  BY <1>5, <2>1 DEF IsOpen
  <2>3. CASE blocks'[b].end = blocks[b].end
    <3>1. b \in EarlyBlks(blocks) /\ ~IsOpen(blocks, b) /\ blocks'[b].kind = blocks[b].kind
      BY <1>2, <1>6, <2>2, <2>3 DEF EarlyBlks, IsOpen, StepKeeps
    <3> QED BY <1>8, <2>1, <2>3, <3>1 DEF ClosedAt, Ended
  <2>4. CASE blocks'[b].end # blocks[b].end
    <3>1. blocks'[b].end = n + 1 /\ blocks'[b].kind = blocks[b].kind
          /\ (op = "End" \/ blocks[b].kind = "IF")
      BY <1>2, <2>2, <2>4 DEF StepKeeps, StepCloses
    <3> QED BY <2>1, <3>1 DEF ClosedAt, op
  <2> QED BY <2>3, <2>4
<1>13. Found(blocks', n + 1)
  <2> SUFFICES ASSUME NEW s \in 1 .. n + 1, Early(s), ins[s].op \in Starting
               PROVE  \E b \in DOMAIN blocks' : b # 1 /\ blocks'[b].start = s
    BY DEF Found
  <2>1. CASE s = n + 1  BY <1>5, <2>1 DEF op
  <2>2. CASE s \in 1 .. n
    <3>1. PICK b \in DOMAIN blocks : b # 1 /\ blocks[b].start = s  BY <1>8, <2>2 DEF Found
    <3> QED BY <1>2, <3>1 DEF StepKeeps
  <2> QED BY <2>1, <2>2
<1>14. blocks' \in Seq(WINST_BLK) /\ work' \in Seq(DOMAIN blocks')
       /\ OpenIffOnWork(blocks', work') /\ WorkSorted(work')
  BY DEF HierInv, TreeInv
<1>15. ASSUME NEW q \in 0 .. n, Early(q) PROVE TopAt(blocks', q)
  <2>1. PICK t \in EarlyBlks(blocks) :
            /\ Covers(blocks, t, q) /\ Depth(Pos(blocks, t)) = Depth(q)
            /\ \A b \in DOMAIN blocks : Covers(blocks, b, q) => b <= t
    BY <1>8, <1>15 DEF Topped, TopAt
  <2>2. t \in EarlyBlks(blocks') /\ Pos(blocks', t) = Pos(blocks, t) /\ t \in DOMAIN blocks
    BY <1>5, <1>6 DEF EarlyBlks
  <2>3. ASSUME NEW b \in DOMAIN blocks PROVE Covers(blocks', b, q) <=> Covers(blocks, b, q)
    <3>1. \/ blocks'[b].end = blocks[b].end
          \/ blocks[b].end = 0 /\ blocks'[b].end = n + 1
      BY <1>2 DEF StepKeeps, IsOpen
    <3> QED BY <1>6, <3>1 DEF Covers, IsOpen
  <2>4. ASSUME NEW b \in DOMAIN blocks', Covers(blocks', b, q) PROVE b \in DOMAIN blocks
    <3>1. Pos(blocks', b) <= q  BY <2>4 DEF Covers
    <3>2. b # id  BY <1>5, <1>7, <3>1
    <3> QED BY <1>5, <3>2
  <2> QED BY <2>1, <2>2, <2>3, <2>4, Zenon DEF TopAt
<1>16. ASSUME Early(n + 1) PROVE TopAt(blocks', n + 1)
  <2>1. work' # <<>>
    <3> SUFFICES ASSUME work' = <<>> PROVE FALSE
      OBVIOUS
    <3>1. Depth(n + 1) = 0 - 1  BY <1>3
    <3>2. Depth(n) >= 0  BY <1>3, <1>9
    <3>3. op = "End"  BY <1>3, <3>1, <3>2
    <3>4. n + 1 \in 0 + 1 .. Len(ins)  BY <1>2
    <3>5. n + 1 \in Ends(0)  BY <3>1, <3>3, <3>4, DepthZero DEF Ends, op
    <3> QED BY <1>16, <3>5 DEF Early
  <2> DEFINE t == Last(work')
             l == Len(work')
  <2>2. l \in Nat \ {0} /\ t = work'[l] /\ t \in DOMAIN blocks' /\ DOMAIN work' = 1 .. l
    BY <1>14, <2>1, StackTop, SeqBasics
  <2>3. /\ Pos(blocks', work'[l]) \in 0 .. n + 1 /\ Depth(Pos(blocks', work'[l])) = l - 1
    BY <2>2 DEF OpenAt
  <2>4. IsOpen(blocks', t)  BY <1>14, <2>2 DEF OpenIffOnWork
  <2>5. Covers(blocks', t, n + 1) /\ Depth(Pos(blocks', t)) = Depth(n + 1)
    BY <1>3, <2>2, <2>3, <2>4 DEF Covers
  <2>6. t \in EarlyBlks(blocks')
    <3>1. Pos(blocks', t) \in 0 .. n + 1  BY <2>2, <2>3
    <3>2. \A e \in Ends(0) : n + 1 < e  BY <1>16 DEF Early
    <3>3. Early(Pos(blocks', t))  BY <1>4, <3>1, <3>2 DEF Early
    <3> QED BY <2>2, <3>3 DEF EarlyBlks
  <2>7. ASSUME NEW b \in DOMAIN blocks', Covers(blocks', b, n + 1) PROVE b <= t
    <3>1. IsOpen(blocks', b)
      <4>1. ~IsOpen(blocks', b) => blocks'[b].end <= n + 1 /\ blocks'[b].end \in Int
        BY DEF ClosedAt, Closers
      <4> QED BY <2>7, <4>1 DEF Covers
    <3>2. PICK i \in 1 .. l : work'[i] = b  BY <1>14, <2>2, <3>1 DEF OpenIffOnWork
    <3>3. i < l => work'[i] < work'[l]  BY <1>14, <2>2, SMTT(30) DEF WorkSorted
    <3>4. b \in Int  BY <1>14, SeqBasics
    <3>5. i = l \/ i < l  BY <2>2
    <3> HIDE DEF t, l
    <3>6. CASE i = l  BY <2>2, <3>2, <3>4, <3>6
    <3>7. CASE i < l
      <4>1. b < t  BY <2>2, <3>2, <3>3, <3>7
      <4>2. t \in Int  BY <1>14, <2>2, SeqBasics
      <4> QED BY <3>4, <4>1, <4>2
    <3> QED BY <3>5, <3>6, <3>7
  <2> HIDE DEF t
  <2> QED BY <2>5, <2>6, <2>7 DEF TopAt
<1>17. Topped(blocks', n + 1)
  <2>1. 0 .. n + 1 = 0 .. n \cup {n + 1}  OBVIOUS
  <2> QED BY <1>15, <1>16, <2>1 DEF Topped
<1>18. ASSUME BodyOver(n + 1), NEW b \in DOMAIN blocks' PROVE ~IsOpen(blocks', b)
  <2>1. n + 1 \in Ends(0)  BY <1>4, <1>18 DEF BodyOver
  <2>2. Depth(n + 1) = 0 - 1  BY <2>1, DepthZero DEF Ends
  <2>3. Len(work') = 0  BY <2>2
  <2>4. DOMAIN work' = {}  BY <1>14, <2>3, SeqBasics
  <2> QED BY <1>14, <2>4 DEF OpenIffOnWork
<1> QED BY <1>11, <1>12, <1>13, <1>17, <1>18 DEF BodyFacts

\* The facts speak of the instructions, which never change, and of what is given.
LEMMA FactsFixed ==
    ASSUME ins' = ins
    PROVE  /\ BodyFacts(blocks', it' - 1) => BodyFacts(blocks, it - 1)'
           /\ BodyOver(it - 1)' <=> BodyOver(it' - 1)
           /\ BodyOver(ins_cnt - 1)' <=> BodyOver(ins_cnt' - 1)
           /\ EarlyBlks(blocks)' = EarlyBlks(blocks')
<1>1. \A i : Depth(i)' = Depth(i)  BY DEF Depth
<1>2. \A s : Closers(s)' = Closers(s)  BY <1>1 DEF Closers
<1>3. \A s : Ends(s)' = Ends(s)  BY <1>1 DEF Ends
<1>4. \A s : Early(s)' <=> Early(s)  BY <1>3 DEF Early
<1>5. EarlyBlks(blocks)' = EarlyBlks(blocks')  BY <1>4 DEF EarlyBlks, Pos
<1>6. Opened(blocks') => Opened(blocks)'  BY <1>1, <1>5 DEF Opened, Pos
<1>7. Ended(blocks', it' - 1) => Ended(blocks, it - 1)'
  BY <1>2, <1>5 DEF Ended, Pos, IsOpen
<1>8. Found(blocks', it' - 1) => Found(blocks, it - 1)'  BY <1>4 DEF Found
<1>9. Topped(blocks', it' - 1) => Topped(blocks, it - 1)'
  BY <1>1, <1>4, <1>5 DEF Topped, TopAt, Covers, Pos, IsOpen
<1> QED BY <1>3, <1>5, <1>6, <1>7, <1>8, <1>9 DEF BodyFacts, BodyOver

\* After the body its blocks are as they were.
LEMMA BodyStays ==
    ASSUME HierInv, HierInv', StartsInv, NEW n \in Nat, it = n + 1, BodyFacts(blocks, n),
           BodyOver(n), BodyOver(ins_cnt - 1),
           \A b \in EarlyBlks(blocks) : ~IsOpen(blocks, b),
           StepKeeps(blocks, blocks', ins_cnt),
           \A b \in DOMAIN blocks' \ DOMAIN blocks : b # 1 /\ blocks'[b].start = ins_cnt
    PROVE  /\ BodyFacts(blocks', n) /\ BodyFacts(blocks', n + 1)
           /\ \A b \in EarlyBlks(blocks') : ~IsOpen(blocks', b)
<1>1. PICK e \in Ends(0) : e <= n  BY DEF BodyOver
<1>2. PICK f \in Ends(0) : f <= ins_cnt - 1  BY DEF BodyOver
<1>3. e \in Nat /\ f \in Nat /\ ins_cnt \in Nat
  BY SMTT(30) DEF Ends, HierInv, HierTypeOK
<1>4. ASSUME NEW q \in Int, Early(q) PROVE q < ins_cnt /\ q # n + 1
  <2>1. q < e /\ q < f  BY <1>4 DEF Early
  <2> QED BY <1>1, <1>2, <1>3, <2>1
<1>5. /\ \A b \in DOMAIN blocks : b \in DOMAIN blocks' /\ Pos(blocks', b) = Pos(blocks, b)
      /\ \A b \in DOMAIN blocks' \ DOMAIN blocks : Pos(blocks', b) = ins_cnt
  BY DEF StepKeeps, Pos, BLOCK_FUNCTION
<1>6. \A b : b \in EarlyBlks(blocks') <=> b \in EarlyBlks(blocks)
  <2>1. ~Early(ins_cnt)  BY <1>3, <1>4
  <2> QED BY <1>5, <2>1 DEF EarlyBlks
<1>7. \A b \in EarlyBlks(blocks) :
          /\ blocks'[b].start = blocks[b].start /\ blocks'[b].kind = blocks[b].kind
          /\ blocks'[b].parent = blocks[b].parent /\ blocks'[b].end = blocks[b].end
          /\ b \in DOMAIN blocks /\ b \in DOMAIN blocks'
  BY DEF StepKeeps, EarlyBlks
<1>8. /\ Opened(blocks) /\ Ended(blocks, n) /\ Found(blocks, n) /\ Topped(blocks, n)
  BY DEF BodyFacts
<1>9. Opened(blocks')
  <2>1. ASSUME NEW b \in EarlyBlks(blocks'), b # 1
        PROVE  /\ ins[blocks'[b].start].op \in Starting
               /\ blocks'[b].kind = KindOf(ins[blocks'[b].start].op)
               /\ blocks'[b].parent \in DOMAIN blocks'
               /\ Depth(blocks'[b].start) = Depth(Pos(blocks', blocks'[b].parent)) + 1
    <3>1. b \in EarlyBlks(blocks)  BY <1>6
    <3>2. /\ ins[blocks[b].start].op \in Starting
          /\ blocks[b].kind = KindOf(ins[blocks[b].start].op)
          /\ blocks[b].parent \in DOMAIN blocks
          /\ Depth(blocks[b].start) = Depth(Pos(blocks, blocks[b].parent)) + 1
      BY <1>8, <2>1, <3>1 DEF Opened
    <3> QED BY <1>5, <1>7, <3>1, <3>2
  <2> QED BY <2>1 DEF Opened
<1>10. \A b \in EarlyBlks(blocks) : Pos(blocks', b) = Pos(blocks, b)  BY <1>5, <1>7
<1>11. Ended(blocks', n)
  BY <1>6, <1>7, <1>8, <1>10 DEF Ended, IsOpen
<1>12. Ended(blocks', n + 1)
  <2>1. \A b \in EarlyBlks(blocks') : ~IsOpen(blocks', b) =>
            blocks'[b].end \in Int /\ blocks'[b].end <= n
    BY <1>11 DEF Ended, Closers
  <2>2. \A x \in Int : x <= n => x <= n + 1  OBVIOUS
  <2> QED BY <1>11, <2>1, <2>2 DEF Ended
<1>13. Found(blocks', n)
  BY <1>8, <1>5 DEF Found, StepKeeps
<1>14. Found(blocks', n + 1)
  <2>1. 1 .. n + 1 = 1 .. n \cup {n + 1}  OBVIOUS
  <2> QED BY <1>4, <1>13, <2>1 DEF Found
<1>15. ASSUME NEW q \in 0 .. n, Early(q) PROVE TopAt(blocks', q)
  <2>1. PICK t \in EarlyBlks(blocks) :
            /\ Covers(blocks, t, q) /\ Depth(Pos(blocks, t)) = Depth(q)
            /\ \A b \in DOMAIN blocks : Covers(blocks, b, q) => b <= t
    BY <1>8, <1>15 DEF Topped, TopAt
  <2>2. \A b \in EarlyBlks(blocks) : Covers(blocks', b, q) <=> Covers(blocks, b, q)
    BY <1>7, <1>10 DEF Covers, IsOpen
  <2>3. ASSUME NEW b \in DOMAIN blocks', Covers(blocks', b, q) PROVE b \in EarlyBlks(blocks)
    <3>1. Pos(blocks', b) <= q /\ q < ins_cnt  BY <1>4, <1>15, <2>3 DEF Covers
    <3>2. b \in DOMAIN blocks  BY <1>3, <1>5, <3>1
    <3>3. Pos(blocks', b) \in Nat
      <4>1. blocks' \in Seq(WINST_BLK)  BY DEF HierInv, TreeInv
      <4>2. blocks'[b] \in WINST_BLK  BY <4>1, SeqBasics
      <4> QED BY <4>2 DEF Pos, WINST_BLK
    <3>4. Early(Pos(blocks', b))
      <4>1. \A x \in Ends(0) : x \in Nat /\ q < x  BY <1>15 DEF Early, Ends
      <4> QED BY <3>1, <3>3, <4>1 DEF Early
    <3> QED BY <1>5, <3>2, <3>4 DEF EarlyBlks
  <2>4. \A b \in DOMAIN blocks' : Covers(blocks', b, q) => b <= t
    BY <1>7, <2>1, <2>2, <2>3
  <2>5. t \in EarlyBlks(blocks') /\ Covers(blocks', t, q) /\ Depth(Pos(blocks', t)) = Depth(q)
    BY <1>6, <1>10, <2>1, <2>2
  <2> QED BY <2>4, <2>5 DEF TopAt
<1>16. Topped(blocks', n)  BY <1>15 DEF Topped
<1>17. Topped(blocks', n + 1)
  <2>1. 0 .. n + 1 = 0 .. n \cup {n + 1}  OBVIOUS
  <2> QED BY <1>4, <1>15, <2>1 DEF Topped
<1>18. \A b \in EarlyBlks(blocks') : ~IsOpen(blocks', b)  BY <1>6, <1>7 DEF IsOpen
<1> QED BY <1>9, <1>11, <1>12, <1>13, <1>14, <1>16, <1>17, <1>18 DEF BodyFacts

\* Every step keeps the facts about the body.
LEMMA BodyInvNext ==
    ASSUME HierInv, StartsInv, DepthInv, BodyInv, [HierNext]_hierVars
    PROVE  BodyInv'
<1> SUFFICES ASSUME build' # "aborted" PROVE BodyInv'
  BY DEF BodyInv
<1>1. /\ it \in Nat \ {0} /\ ins_cnt \in Nat \ {0} /\ Len(blocks) \in Nat
      /\ blocks \in Seq(WINST_BLK) /\ DOMAIN blocks = 1 .. Len(blocks)
      /\ work \in Seq(DOMAIN blocks) /\ OpenIffOnWork(blocks, work)
  BY SeqBasics DEF HierInv, HierTypeOK, TreeInv
<1>2. PICK n \in Nat : n = it - 1 /\ it = n + 1  BY <1>1
<1>3. HierInv'  BY HierInvNext
<1>4. CASE ~StepBlocks
  <2>1. /\ ins' = ins /\ blocks' = blocks /\ work' = work /\ ins_cnt' = ins_cnt
        /\ build # "aborted"
        /\ \/ it' = it
           \/ it' = it + 1 /\ it <= Len(ins) /\ ins[it].op = "End" /\ work = <<>>
    BY <1>4, StepElse
  <2>2. /\ BodyFacts(blocks, n)
        /\ BodyOver(n) => /\ BodyOver(ins_cnt - 1)
                          /\ \A b \in EarlyBlks(blocks) : ~IsOpen(blocks, b)
        /\ ~BodyOver(n) => InBody
    BY <1>2, <2>1 DEF BodyInv
  <2>3. CASE it' = it
    <3>1. it' - 1 = n  BY <1>2, <2>3
    <3> QED BY <2>1, <2>2, <2>3, <3>1, FactsFixed DEF BodyInv, InBody, IsOpen
  <2>4. CASE it' = it + 1 /\ work = <<>>
    <3>1. BodyOver(n)
      <4> SUFFICES ASSUME ~BodyOver(n) PROVE FALSE
        OBVIOUS
      <4>1. \A e \in Ends(0) : e \in Nat /\ e > n /\ 0 < e  BY DEF BodyOver, Ends
      <4>2. 1 \in EarlyBlks(blocks) /\ Pos(blocks, 1) = 0
        BY <1>1, <4>1 DEF EarlyBlks, Early, Pos, BLOCK_FUNCTION, StartsInv
      <4>3. ~IsOpen(blocks, 1)
        <5>1. DOMAIN work = {}  BY <2>4
        <5> QED BY <1>1, <4>2, <5>1 DEF OpenIffOnWork, EarlyBlks
      <4>4. /\ blocks[1].end \in Closers(0) /\ blocks[1].end <= n
            /\ ins[blocks[1].end].op = "End"
        BY <2>2, <4>2, <4>3 DEF BodyFacts, Ended, StartsInv
      <4>5. blocks[1].end \in Ends(0)  BY <4>4 DEF Closers, Ends
      <4> QED BY <4>4, <4>5 DEF BodyOver
    <3>2. StepKeeps(blocks, blocks', ins_cnt) /\ DOMAIN blocks' \ DOMAIN blocks = {}
      BY <2>1 DEF StepKeeps
    <3>3. /\ BodyFacts(blocks', n + 1)
          /\ \A b \in EarlyBlks(blocks') : ~IsOpen(blocks', b)
      BY <1>2, <1>3, <2>2, <3>1, <3>2, BodyStays
    <3>4. it' - 1 = n + 1  BY <1>2, <2>4
    <3>5. BodyOver(n + 1)
      <4>1. PICK e \in Ends(0) : e <= n  BY <3>1 DEF BodyOver
      <4>2. e \in Nat  BY DEF Ends
      <4> QED BY <4>1, <4>2 DEF BodyOver
    <3> QED BY <2>1, <2>2, <3>1, <3>3, <3>4, <3>5, FactsFixed DEF BodyInv, IsOpen
  <2> QED BY <2>1, <2>3, <2>4
<1>5. CASE StepBlocks
  <2>1. /\ it' = it + 1 /\ ins_cnt' = ins_cnt + 1 /\ ins' = ins /\ build # "aborted"
        /\ it' - 1 = n + 1
        /\ StepKeeps(blocks, blocks', ins_cnt)
        /\ StepOpens(blocks, blocks', ins_cnt, ins[it].op, ParentAt(ins[it].op))
    BY <1>1, <1>2, <1>5 DEF StepBlocks, Advance
  <2>2. /\ BodyFacts(blocks, n)
        /\ BodyOver(n) => /\ BodyOver(ins_cnt - 1)
                          /\ \A b \in EarlyBlks(blocks) : ~IsOpen(blocks, b)
        /\ ~BodyOver(n) => InBody
    BY <1>2, <2>1 DEF BodyInv
  <2>3. CASE BodyOver(n)
    <3>1. \A b \in DOMAIN blocks' \ DOMAIN blocks : b # 1 /\ blocks'[b].start = ins_cnt
      <4>1. Len(blocks) + 1 # 1  BY <1>1 DEF StartsInv
      <4> QED BY <2>1, <4>1 DEF StepOpens
    <3>2. /\ BodyFacts(blocks', n + 1)
          /\ \A b \in EarlyBlks(blocks') : ~IsOpen(blocks', b)
      BY <1>2, <1>3, <2>1, <2>2, <2>3, <3>1, BodyStays
    <3>3. BodyOver(n + 1) /\ BodyOver(ins_cnt' - 1)
      <4>1. PICK e \in Ends(0) : e <= n  BY <2>3 DEF BodyOver
      <4>2. PICK f \in Ends(0) : f <= ins_cnt - 1  BY <2>2, <2>3 DEF BodyOver
      <4>3. e \in Nat /\ f \in Nat  BY DEF Ends
      <4>4. e <= n + 1 /\ f <= ins_cnt' - 1  BY <1>1, <2>1, <4>1, <4>2, <4>3
      <4> QED BY <4>4 DEF BodyOver
    <3> QED BY <2>1, <3>2, <3>3, FactsFixed DEF BodyInv, IsOpen
  <2>4. CASE ~BodyOver(n)
    <3>1. it = ins_cnt  BY <2>2, <2>4 DEF InBody
    <3>2. it' = ins_cnt'  BY <2>1, <3>1
    <3>3. /\ Len(work) = Depth(n) + 1 /\ OpenAt(blocks, work, n)
      BY <1>2, <2>1, <3>1 DEF DepthInv, InBody
    <3>4. \A i : Depth(i)' = Depth(i)  BY <2>1 DEF Depth
    <3>5. \A s : Closers(s)' = Closers(s)  BY <2>1, <3>4 DEF Closers
    <3>6. DepthInv'  BY DepthInvNext DEF StartsInv
    <3>7. /\ Len(work') = Depth(it - 1)' + 1
          /\ OpenAt(blocks, work, it - 1)' /\ ClosedAt(blocks, it - 1)'
      BY <3>2, <3>6 DEF DepthInv, InBody
    <3>8. /\ Len(work') = Depth(n + 1) + 1 /\ OpenAt(blocks', work', n + 1)
          /\ ClosedAt(blocks', n + 1)
      BY <2>1, <3>4, <3>5, <3>7 DEF OpenAt, ClosedAt, Pos, IsOpen
    <3>9. work # <<>>
      <4>1. \A e \in Ends(0) : e \in Nat /\ e > n /\ 0 < e  BY <2>4 DEF BodyOver, Ends
      <4>2. 1 \in EarlyBlks(blocks) /\ Pos(blocks, 1) = 0
        BY <1>1, <4>1 DEF EarlyBlks, Early, Pos, BLOCK_FUNCTION, StartsInv
      <4>3. IsOpen(blocks, 1)
        <5> SUFFICES ASSUME ~IsOpen(blocks, 1) PROVE FALSE
          OBVIOUS
        <5>1. /\ blocks[1].end \in Closers(0) /\ blocks[1].end <= n
              /\ ins[blocks[1].end].op = "End"
          BY <2>2, <4>2 DEF BodyFacts, Ended, StartsInv
        <5>2. blocks[1].end \in Ends(0)  BY <5>1 DEF Closers, Ends
        <5> QED BY <2>4, <5>1, <5>2 DEF BodyOver
      <4>4. 1 \in DOMAIN blocks  BY <4>2 DEF EarlyBlks
      <4>5. \E i \in DOMAIN work : work[i] = 1  BY <1>1, <4>3, <4>4 DEF OpenIffOnWork
      <4> QED BY <4>5
    <3>10. /\ BodyFacts(blocks', n + 1)
           /\ BodyOver(n + 1) => \A b \in DOMAIN blocks' : ~IsOpen(blocks', b)
      BY <1>2, <1>3, <1>5, <2>2, <2>4, <3>1, <3>3, <3>8, <3>9, BodyGoesOn
    <3>11. ins_cnt' - 1 = n + 1  BY <2>1, <3>2
    <3>12. EarlyBlks(blocks') \subseteq DOMAIN blocks'  BY DEF EarlyBlks
    <3> QED BY <2>1, <3>2, <3>10, <3>11, <3>12, FactsFixed DEF BodyInv, InBody, IsOpen
  <2> QED BY <2>3, <2>4
<1> QED BY <1>4, <1>5

\* At the start only the function block is there, and no instruction has passed.
LEMMA BodyInit == HierStart => StartsInv /\ DepthInv /\ BodyInv
<1> SUFFICES ASSUME HierStart PROVE StartsInv /\ DepthInv /\ BodyInv
  OBVIOUS
<1>1. /\ blocks = <<NewBlk("FUNC", 0, 1)>> /\ work = <<1>> /\ it = 1 /\ ins_cnt = 1
  BY DEF HierStart, Create_new_block, BLOCK_INSTR_BEGIN, BLOCK_FUNCTION
<1>2. /\ Len(blocks) = 1 /\ DOMAIN blocks = {1} /\ blocks[1].end = 0
      /\ blocks[1].kind = "FUNC" /\ blocks[1].start = 1
      /\ DOMAIN work = {1} /\ work[1] = 1 /\ Len(work) = 1 /\ it - 1 = 0
  BY <1>1 DEF NewBlk
<1>3. Pos(blocks, 1) = 0 /\ IsOpen(blocks, 1)  BY <1>2 DEF Pos, BLOCK_FUNCTION, IsOpen
<1>4. DepthInv
  <2>1. \A j \in Closers(0) : j > 0  BY DEF Closers
  <2>2. OpenAt(blocks, work, 0)  BY <1>2, <1>3, <2>1, DepthZero DEF OpenAt
  <2>3. ClosedAt(blocks, 0)  BY <1>2 DEF ClosedAt, IsOpen
  <2> QED BY <1>2, <2>2, <2>3, DepthZero DEF DepthInv
<1>5. StartsInv  BY <1>2 DEF StartsInv
<1>6. Topped(blocks, 0)
  <2> SUFFICES ASSUME NEW q \in 0 .. 0, Early(q) PROVE TopAt(blocks, q)
    BY DEF Topped
  <2>1. q = 0  OBVIOUS
  <2>2. 1 \in EarlyBlks(blocks)  BY <1>2, <1>3, <2>1 DEF EarlyBlks
  <2>3. Covers(blocks, 1, q)  BY <1>3, <2>1 DEF Covers
  <2>4. Depth(Pos(blocks, 1)) = Depth(q)  BY <1>3, <2>1
  <2>5. \A b \in DOMAIN blocks : b <= 1  BY <1>2
  <2> QED BY <2>2, <2>3, <2>4, <2>5 DEF TopAt
<1>7. /\ Opened(blocks) /\ Ended(blocks, 0) /\ Found(blocks, 0)
  BY <1>2, <1>3 DEF Opened, Ended, Found, EarlyBlks
<1>8. ~BodyOver(0)  BY DEF BodyOver, Ends
<1> QED BY <1>1, <1>2, <1>4, <1>5, <1>6, <1>7, <1>8 DEF BodyInv, BodyFacts, InBody

\* The vector is returned when all its instructions are read.
ReadToEnd == build = "returned" => it = Len(ins) + 1

\* The invariants of the hierarchy together: a composition that otherwise stutters on
\* its variables has them too.
BlocksInv ==
    HierInv /\ KidsListed(blocks) /\ StartsInv /\ DepthInv /\ BodyInv /\ ReadToEnd

\* They hold at the start.
LEMMA BlocksInvInit == HierStart => BlocksInv
<1> SUFFICES ASSUME HierStart PROVE BlocksInv
  OBVIOUS
<1>1. KidsListed(blocks)
  <2>1. blocks = <<NewBlk("FUNC", 0, 1)>>
    BY DEF HierStart, Create_new_block, BLOCK_INSTR_BEGIN
  <2>2. DOMAIN blocks = {1} /\ blocks[1].child = <<>> /\ blocks[1].parent = 0
    BY <2>1 DEF NewBlk
  <2> QED BY <2>2 DEF KidsListed, ToSet
<1>2. ReadToEnd  BY DEF ReadToEnd, HierStart
<1> QED BY <1>1, <1>2, HierInvInit, BodyInit DEF BlocksInv

\* Every step of the pass keeps them.
LEMMA BlocksInvNext == ASSUME BlocksInv, [HierNext]_hierVars PROVE BlocksInv'
<1>1. HierInv'  BY HierInvNext DEF BlocksInv
<1>2. KidsListed(blocks)'  BY KidsListedNext DEF BlocksInv
<1>3. StartsInv'  BY StartsInvNext DEF BlocksInv
<1>4. DepthInv'  BY DepthInvNext DEF BlocksInv, StartsInv
<1>5. BodyInv'  BY BodyInvNext DEF BlocksInv
<1>6. ReadToEnd'
  <2>1. it \in 1 .. Len(ins) + 1 /\ Len(ins) \in Nat
    BY SeqBasics DEF BlocksInv, HierInv, HierTypeOK
  <2>2. CASE ReturnBlocks \/ UNCHANGED hierVars
    BY <2>1, <2>2 DEF ReturnBlocks, hierVars, ReadToEnd, BlocksInv
  <2>3. CASE HierNext /\ ~ReturnBlocks
    <3>1. build' # "returned"
      BY <2>3 DEF HierNext, OpenBlock, ElseBlock, ElseWithoutIf, Abort, EndBlock, EndIgnored,
                  OtherInst, At
    <3> QED BY <3>1 DEF ReadToEnd
  <2> QED BY <2>2, <2>3
<1> QED BY <1>1, <1>2, <1>3, <1>4, <1>5, <1>6 DEF BlocksInv

\* They give what the checked properties say.
LEMMA BlocksInvSays ==
    ASSUME BlocksInv
    PROVE  Laminar /\ ParentInnermost /\ ElseFollowsIf /\ ChildLists
<1>1. Laminar /\ ParentInnermost /\ ElseFollowsIf
  BY DEF BlocksInv, HierInv, TreeInv, Laminar, ParentInnermost, ElseFollowsIf
<1>2. DOMAIN blocks = 1 .. Len(blocks)  BY SeqBasics DEF BlocksInv, HierInv, TreeInv
<1>3. ChildLists  BY <1>2 DEF BlocksInv, KidsListed, ChildLists, BlkIds
<1> QED BY <1>1, <1>3
=============================================================================
