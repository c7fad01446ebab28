----------------------------- MODULE MCTables -----------------------------
(***************************************************************************)
(* Five machines of the approval register in the browser that share no     *)
(* state, each on its own: its rows and how they are read anew, the        *)
(* filters and the columns of a table, the ticked groups, the dialogs.  A  *)
(* behaviour runs the one chosen at its start.                             *)
(***************************************************************************)
EXTENDS RegisterSelection, RegisterDialogs, RegisterClient, TableFilters, TableColumns

CONSTANTS
    r1, r2, r3, r4, status, name, top, mid, low, i1, i2, i3, g1, g2, p1, p2, q1, q2

VARIABLE machine

\* One line in an open group, one in a closed group of an open one and one in a
\* closed group; the last line, which comes and goes, is in the open group and
\* shares its line status with the line of the closed one
CellOf ==
    [r \in {r1, r2, r3, r4} |-> [col \in {status, name} |->
        IF col = name THEN IF r \in {r1, r3} THEN {"x"} ELSE {"y"}
        ELSE {IF r \in {r1, r2} THEN "on review" ELSE "approved"}
               \cup (IF r = r3 THEN {} ELSE {"group: open"})
               \cup (IF r \in {r2, r3} THEN {"group: closed"} ELSE {})]]

\* A branch of three levels with a line in the last and one in the second
Branch == [g \in {top, mid, low} |-> CASE g = top -> {}
                                      [] g = mid -> {top}
                                      [] g = low -> {top, mid}]
LevelOf == [i \in {i1, i2} |-> IF i = i1 THEN low ELSE mid]

\* Two lines of the first group have the one position, the third line the other
ButtonOf == [i \in {i1, i2, i3} |-> IF i = i3 THEN g2 ELSE g1]
StageOf  == [i \in {i1, i2, i3} |-> IF i = i1 THEN "cfo" ELSE "economist"]
PlaceOf  == [i \in {i1, i2, i3} |-> IF i = i3 THEN p2 ELSE p1]

\* One group made of two requests: handing it on takes three posts
TwoRequests == [g \in {g1} |-> {q1, q2}]

allVars == <<machine, filterVars, columnVars, vars, dialogVars, clientVars>>

AllInit ==
    /\ machine \in {"filters", "columns", "selection", "dialogs", "client"}
    /\ FiltersInit /\ ColumnsInit /\ Init /\ DialogInit /\ ClientInit
    /\ machine # "filters" => ~remote
    /\ machine # "columns" => content = "few"

AllNext ==
    /\ UNCHANGED machine
    /\ \/ /\ machine = "filters" /\ FiltersNext
          /\ UNCHANGED <<columnVars, vars, dialogVars, clientVars>>
       \/ /\ machine = "columns" /\ ColumnsNext
          /\ UNCHANGED <<filterVars, vars, dialogVars, clientVars>>
       \/ /\ machine = "selection" /\ Next
          /\ UNCHANGED <<filterVars, columnVars, dialogVars, clientVars>>
       \/ /\ machine = "dialogs" /\ DialogNext
          /\ UNCHANGED <<filterVars, columnVars, vars, clientVars>>
       \/ /\ machine = "client" /\ ClientNext
          /\ UNCHANGED <<filterVars, columnVars, vars, dialogVars>>

AllSpec == AllInit /\ [][AllNext]_allVars /\ DialogFairness /\ ClientFairness

-----------------------------------------------------------------------------

\* The hand-over dialog does not stay loading; rows that are behind what the
\* user was told are being read anew, and catch up unless the register says
\* that it could not load them.
NothingWaits ==
    /\ [](DialogTypeOK /\ ClientTypeOK)
    /\ LoadingEnds /\ []StaleRowsAsked /\ RowsCatchUp

=============================================================================
