---------------------------- MODULE VisitedModule ----------------------------
(***************************************************************************)
(* A module that is read and then visited: BinaryReader, with the builder as *)
(* its delegate, and ExprVisitor on the trees the builder has left.  Nothing *)
(* in src/ visits the module it has read; the visitor is there for clients   *)
(* of the library.                                                          *)
(***************************************************************************)
EXTENDS BinaryReader, ExprVisitor

allVars == <<modVars, visitVars>>

\* Only a module that was read without an error is visited.
VisitedNext ==
    \/ Next /\ UNCHANGED visitVars
    \/ state = "returned" /\ result = "Ok" /\ Visit /\ UNCHANGED modVars

VisitedInit == Init /\ VisitInit

VisitedSpec == VisitedInit /\ [][VisitedNext]_allVars /\ WF_allVars(VisitedNext)
-----------------------------------------------------------------------------
\* Where the callbacks of a body begin in the trace of the reader, and the callbacks.
BodyStarts == {p \in DOMAIN trace : trace[p].k = "func"}
Callbacks(p) ==
    SubSeq(trace, p + 1, Min({q \in BodyStarts : q > p} \cup {Len(trace) + 1}) - 1)

Count(k, s)  == Cardinality({p \in DOMAIN s : s[p].k = k})
Balanced(p)  == Count("open", Callbacks(p)) = Count("end", Callbacks(p))

\* What both walks say: an else or catch with nothing in it is not told apart from
\* none, and the reader does not say what it is that ends.
Shown(s) ==
    LET Empty(p) == s[p].k \in {"else", "catch"} /\ p < Len(s) /\ s[p + 1].k = "end"
        kept     == SelectSeq([p \in DOMAIN s |-> p], LAMBDA p : ~Empty(p))
    IN  [p \in DOMAIN kept |->
            [k |-> s[kept[p]].k,
             e |-> IF s[kept[p]].k \in {"expr", "open"} THEN s[kept[p]].e ELSE 0]]

\* A visit that completes shows the delegate the expressions of the function, and
\* where each construct begins, turns and ends, in the order of the bytes: the
\* stacks and iterators of the visitor undo what the label stack of the builder
\* did, whatever a visit that failed before has left behind (expr-visitor.cc:27).
VisitInOrder ==
    (call = "VisitExprList" /\ root_iter = End) =>
        \A p \in BodyStarts :
            (trace[p].e = visit_func /\ \A q \in BodyStarts : q <= p => Balanced(q))
                => Shown(visited) = Shown(Callbacks(p))
=============================================================================
