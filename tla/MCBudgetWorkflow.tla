-------------------------- MODULE MCBudgetWorkflow --------------------------
(***************************************************************************)
(* Small instances of BudgetWorkflow.  The state space of the workflow is   *)
(* finite but large; the commands that take work back are counted and       *)
(* bounded by MaxRework.                                                    *)
(***************************************************************************)
EXTENDS BudgetWorkflow, TLC

CONSTANTS r1, r2, i1, i2, i3, p1, p2, leaf, econ, appr1, zgd, MaxRework

VARIABLE reworks

\* Which request and which position each line belongs to
OneRequest  == (i1 :> r1) @@ (i2 :> r1)
TwoRequests == (i1 :> r1) @@ (i2 :> r2)
OnePosition  == (i1 :> p1) @@ (i2 :> p1)
TwoPositions == (i1 :> p1) @@ (i2 :> p2)

\* What can be exchanged: the two lines of OnePosition with OneRequest; with two
\* positions or two modules each of these together with its line.  r2, i3 and p2
\* occur in no state of the instance they are exchanged in; TLC ignores a
\* symmetry set of fewer than two exchanges.
LinesAlike == Permutations({i1, i2})
LinesExchanged == (i1 :> i2) @@ (i2 :> i1)
ArticlesAlike ==
    {LinesExchanged @@ (p1 :> p2) @@ (p2 :> p1)} \cup Permutations({r2, i3})
ModulesAlike ==
    {LinesExchanged @@ (r1 :> r2) @@ (r2 :> r1)} \cup Permutations({i3, p2})

\* A route with one intermediate reviewer
Route == {<<leaf, econ>>, <<econ, appr1>>, <<appr1, zgd>>}
RoleOf == [s \in Steps |-> CASE s = leaf -> "cfo"
                             [] s = econ -> "economist"
                             [] s = zgd  -> "zgd"
                             [] OTHER    -> "approver"]

MCInit == Init /\ reworks = 0

MCNext ==
    \/ (ModuleStep \/ CfoStep \/ EconomistStep \/ ReviewerStep) /\ UNCHANGED reworks
    \/ ReworkStep /\ reworks < MaxRework /\ reworks' = reworks + 1

MCSpec == MCInit /\ [][MCNext]_<<vars, reworks>>

=============================================================================
