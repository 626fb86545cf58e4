------------------------------ MODULE MCSession ------------------------------
(***************************************************************************)
(* Session for TLC.                                                        *)
(***************************************************************************)
EXTENDS Session, TLC

Symmetry == Permutations(SessionId) \cup Permutations(WindowId)

\* Bounds on what is explored: winlinks with an alert, entries on the stacks.
CONSTANTS MaxAlerts, MaxStack

Bounds ==
    /\ Cardinality({x \in SessionId \X Idx : x[2] \in ses[x[1]].alerts}) <= MaxAlerts
    /\ \A s \in SessionId : Len(ses[s].lastw) <= MaxStack

\* Keep is SelectSeq.
Stacks(n) == UNION {[1..k -> Idx] : k \in 0..n}

ASSUME KeepIsSelectSeq ==
    \A q \in Stacks(4), T \in SUBSET Idx :
        Keep(q, T) = SelectSeq(q, LAMBDA i : i \in T)

=============================================================================
