----------------------------- MODULE ExprVisitor -----------------------------
(***************************************************************************)
(* ExprVisitor (src/expr-visitor.cc): walks the expressions of a function    *)
(* with explicit stacks instead of recursion and calls a delegate at each.   *)
(*                                                                          *)
(* An iterator is the expression it stands at, or End.  What the delegate    *)
(* is and who visits is external: a client that visits the functions of a    *)
(* module in turn, goes on to the next after a visit that failed, and whose  *)
(* delegate fails at most MaxFailures times.                                *)
(***************************************************************************)
EXTENDS IrBuilder

CONSTANT MaxFailures
ASSUME MaxFailuresAssumption == MaxFailures \in Nat

VARIABLES
    state_stack, expr_stack, expr_iter_stack,
    call,          \* the innermost function that runs: "none", "VisitExprList", "VisitExpr"
    visit_func,    \* the function that is visited or, if none is, the next one
    root_iter,     \* the iterator of VisitExprList
    visited,       \* the callbacks of the current visit
    failures       \* how often the delegate has failed

visitVars == <<state_stack, expr_stack, expr_iter_stack, call, visit_func, root_iter, visited,
               failures>>
stacks == <<state_stack, expr_stack, expr_iter_stack>>
client == <<visit_func, root_iter, failures>>

End == 0

VisitInit ==
    /\ state_stack = <<>> /\ expr_stack = <<>> /\ expr_iter_stack = <<>>
    /\ call = "none" /\ visit_func = 0 /\ root_iter = End
    /\ visited = <<>> /\ failures = 0
-----------------------------------------------------------------------------
\* Iterators: the first element of a list that follows e.
Following(list, e) ==
    LET later == {d \in Elements(list) : d > e} IN IF later = {} THEN End ELSE Min(later)
Begin(list) == Following(list, 0)

\* The state in which the first list of an expression is walked, and the list of
\* each state.
FirstState == [Block |-> "Block", Loop |-> "Loop", If |-> "IfTrue", Try |-> "Try"]
ListOf(s, e) ==
    CASE s \in {"Block", "Loop", "IfTrue", "Try"} -> BodyList(e)
      [] s = "IfFalse" -> FalseList(e)
      [] s = "Catch"   -> CatchList(e)

Running == call = "VisitExpr" /\ state_stack # <<>>
State   == Last(state_stack)
Expr    == Last(expr_stack)
Iter    == Last(expr_iter_stack)

\* The stacks as they are after the top entry is replaced.
PopDefault ==
    /\ state_stack' = Front(state_stack) /\ expr_stack' = Front(expr_stack)
    /\ UNCHANGED expr_iter_stack
PopExprlist ==
    /\ state_stack' = Front(state_stack) /\ expr_stack' = Front(expr_stack)
    /\ expr_iter_stack' = Front(expr_iter_stack)
PopDefaultPushExprlist(s) ==
    /\ state_stack' = Append(Front(state_stack), s) /\ UNCHANGED expr_stack
    /\ expr_iter_stack' = Append(expr_iter_stack, Begin(ListOf(s, Expr)))
PopPushExprlist(s) ==
    /\ state_stack' = Append(Front(state_stack), s) /\ UNCHANGED expr_stack
    /\ expr_iter_stack' = Append(Front(expr_iter_stack), Begin(ListOf(s, Expr)))

\* A callback of the delegate about e that succeeds.
Calls(k, e) == visited' = Append(visited, [k |-> k, e |-> e])
-----------------------------------------------------------------------------
(* VisitFunc and VisitExprList.                                             *)
VisitFunc ==
    /\ call = "none" /\ visit_func < Len(funcs)
    /\ root_iter' = Begin(FuncList(visit_func))
    /\ call' = "VisitExprList" /\ visited' = <<>>
    /\ UNCHANGED <<stacks, visit_func, failures>>

VisitFuncReturns ==
    /\ call = "VisitExprList" /\ root_iter = End
    /\ call' = "none" /\ visit_func' = visit_func + 1
    /\ UNCHANGED <<stacks, root_iter, visited, failures>>

\* Faulty: the stacks keep what a visit that failed has left.
VisitExpr_uncleared ==
    /\ call = "VisitExprList" /\ root_iter # End
    /\ state_stack' = Append(state_stack, "Default")
    /\ expr_stack' = Append(expr_stack, root_iter)
    /\ root_iter' = Following(FuncList(visit_func), root_iter)
    /\ call' = "VisitExpr"
    /\ UNCHANGED <<expr_iter_stack, visit_func, visited, failures>>

VisitExpr ==
    /\ call = "VisitExprList" /\ root_iter # End
    /\ state_stack' = <<"Default">> /\ expr_stack' = <<root_iter>> /\ expr_iter_stack' = <<>>
    /\ root_iter' = Following(FuncList(visit_func), root_iter)
    /\ call' = "VisitExpr"
    /\ UNCHANGED <<visit_func, visited, failures>>

VisitExprReturns ==
    /\ call = "VisitExpr" /\ state_stack = <<>>
    /\ call' = "VisitExprList"
    /\ UNCHANGED <<stacks, client, visited>>
-----------------------------------------------------------------------------
(* One turn of the loop of VisitExpr.                                       *)

\* HandleDefaultState of an expression without a list, and of one with a list.
VisitPlain ==
    /\ Running /\ State = "Default" /\ exprs[Expr].kind \notin DOMAIN FirstState
    /\ Calls("expr", Expr)
    /\ PopDefault
    /\ UNCHANGED <<call, client>>

VisitOpening ==
    /\ Running /\ State = "Default" /\ exprs[Expr].kind \in DOMAIN FirstState
    /\ Calls("open", Expr)
    /\ PopDefaultPushExprlist(FirstState[exprs[Expr].kind])
    /\ UNCHANGED <<call, client>>

\* PushDefault(&*iter++).
VisitElement ==
    /\ Running /\ State # "Default" /\ Iter # End
    /\ state_stack' = Append(state_stack, "Default")
    /\ expr_stack' = Append(expr_stack, Iter)
    /\ expr_iter_stack' = Append(Front(expr_iter_stack), Following(ListOf(State, Expr), Iter))
    /\ UNCHANGED <<call, client, visited>>

AtEnd == Running /\ State # "Default" /\ Iter = End

EndList ==
    /\ AtEnd /\ State \in {"Block", "Loop", "IfFalse", "Catch"}
    /\ Calls("end", Expr)
    /\ PopExprlist
    /\ UNCHANGED <<call, client>>

\* The false list is walked whether it has elements or not.
AfterIfTrue ==
    /\ AtEnd /\ State = "IfTrue"
    /\ Calls("else", Expr)
    /\ PopPushExprlist("IfFalse")
    /\ UNCHANGED <<call, client>>

NoCatch == Elements(CatchList(Expr)) = {}

EndTry ==
    /\ AtEnd /\ State = "Try"
    /\ IF NoCatch
       THEN /\ visited' = visited \o <<[k |-> "catch", e |-> Expr], [k |-> "end", e |-> Expr]>>
            /\ PopExprlist
       ELSE Calls("catch", Expr) /\ PopPushExprlist("Catch")
    /\ UNCHANGED <<call, client>>

\* The delegate returns an error, and so do VisitExpr, VisitExprList and VisitFunc.
\* The stacks stay as they are at that call: a default state has been popped, and so
\* has a try without a catch if it is the second of its two calls that fails.
DelegateFails ==
    /\ Running /\ failures < MaxFailures
    /\ \/ State = "Default" /\ PopDefault
       \/ AtEnd /\ UNCHANGED stacks
       \/ AtEnd /\ State = "Try" /\ NoCatch /\ PopExprlist
    /\ failures' = failures + 1
    /\ call' = "none" /\ visit_func' = visit_func + 1
    /\ UNCHANGED <<root_iter, visited>>

Visit ==
    \/ VisitFunc \/ VisitFuncReturns \/ VisitExpr \/ VisitExprReturns
    \/ VisitPlain \/ VisitOpening \/ VisitElement \/ EndList \/ AfterIfTrue \/ EndTry
    \/ DelegateFails
=============================================================================
