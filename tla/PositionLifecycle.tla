------------------------- MODULE PositionLifecycle -------------------------
(***************************************************************************)
(* What the approval route promises about the lines of a CFO position,     *)
(* whoever takes the decisions: the abstract specification BudgetWorkflow  *)
(* implements.  A position goes from the CFO to the economist and, once    *)
(* its last line is frozen, above; there it is fixed as a whole.  Lines    *)
(* enter at the foot only and are written while they are open; whatever    *)
(* takes the position down opens the lines it takes down.  Requests,       *)
(* decisions, the audit logs and the single steps of the route are left    *)
(* out.                                                                    *)
(***************************************************************************)
CONSTANTS
    Items,      \* the lines
    Positions,
    PosOf,      \* the position of a line
    Status      \* what may be written of a line; "absent" and "deleted" are no line

VARIABLES
    status,     \* of the lines
    entered,    \* lines that have been in their position
    frozen, fixed,
    place       \* where the position is: "outside" the route or at one of OnRoute

lifeVars == <<status, entered, frozen, fixed, place>>

OnRoute == {"cfo", "economist", "above"}

Lines(p) == {i \in entered : PosOf[i] = p /\ status[i] \notin {"absent", "deleted"}}

Init ==
    /\ status = [i \in Items |-> "absent"]
    /\ entered = {} /\ frozen = {} /\ fixed = {}
    /\ place = [p \in Positions |-> "outside"]

\* Lines are drafted, decided, deleted, taken up again: the open ones, and those
\* that are in no position yet
Write ==
    /\ status' \in [Items -> Status]
    /\ \A i \in Items : status'[i] # status[i] =>
          i \notin frozen /\ (i \in entered => place[PosOf[i]] # "outside")
    /\ UNCHANGED <<entered, frozen, fixed, place>>

\* Lines enter positions that are at the foot, with nothing closed
Enter(S) ==
    /\ \A i \in S : /\ status[i] \notin {"absent", "deleted"}
                    /\ place[PosOf[i]] \in {"outside", "cfo"}
                    /\ Lines(PosOf[i]) \cap (frozen \cup fixed) = {}
    /\ entered' = entered \cup S
    /\ place' = [p \in Positions |->
                   IF p \in {PosOf[i] : i \in S} THEN "cfo" ELSE place[p]]
    /\ UNCHANGED <<status, frozen, fixed>>

\* The CFO hands on the position, also one that was returned half way
Send(p) ==
    /\ place[p] # "outside"
    /\ place' = [place EXCEPT ![p] = "economist"]
    /\ UNCHANGED <<status, entered, frozen, fixed>>

\* The last line that is frozen takes the position up
Freeze(p, S) ==
    /\ place[p] = "economist" /\ S # {} /\ S \subseteq Lines(p)
    /\ frozen' = frozen \cup S
    /\ place' = IF Lines(p) \subseteq frozen' THEN [place EXCEPT ![p] = "above"] ELSE place
    /\ UNCHANGED <<status, entered, fixed>>

Thaw(p, S) ==
    /\ place[p] = "economist" /\ S \subseteq Lines(p)
    /\ frozen' = frozen \ S
    /\ UNCHANGED <<status, entered, fixed, place>>

\* Above, a line that was returned is frozen again by its approval
Approve(p, S) ==
    /\ place[p] = "above" /\ S # {} /\ S \subseteq Lines(p)
    /\ frozen' = frozen \cup S
    /\ UNCHANGED <<status, entered, fixed, place>>

\* Down: to the CFO from the economist, to any lower step from above
Return(p, S) ==
    /\ place[p] \in {"economist", "above"} /\ S # {} /\ S \subseteq Lines(p)
    /\ frozen' = frozen \ S
    /\ status' \in [Items -> Status]
    /\ \A i \in Items : status'[i] # status[i] => i \in S
    /\ \E to \in IF place[p] = "economist" THEN {"cfo"} ELSE OnRoute :
          place' = [place EXCEPT ![p] = to]
    /\ UNCHANGED <<entered, fixed>>

Fix(p) ==
    /\ place[p] = "above" /\ Lines(p) # {}
    /\ fixed' = fixed \cup Lines(p) /\ frozen' = frozen \cup Lines(p)
    /\ place' = [place EXCEPT ![p] = "outside"]
    /\ UNCHANGED <<status, entered>>

Unfix(p) ==
    /\ place[p] = "outside" /\ Lines(p) # {} /\ Lines(p) \subseteq fixed
    /\ fixed' = fixed \ Lines(p)
    /\ place' = [place EXCEPT ![p] = "above"]
    /\ UNCHANGED <<status, entered, frozen>>

Next ==
    \/ Write
    \/ \E S \in SUBSET Items : Enter(S)
    \/ \E p \in Positions : Send(p) \/ Fix(p) \/ Unfix(p)
    \/ \E p \in Positions, S \in SUBSET Items :
          Freeze(p, S) \/ Thaw(p, S) \/ Approve(p, S) \/ Return(p, S)

Spec == Init /\ [][Next]_lifeVars

=============================================================================
