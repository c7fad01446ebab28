---------------------------- MODULE TableFilters ----------------------------
(***************************************************************************)
(* The filters every table of the browser shares (useTableColumnControls   *)
(* of tableColumns.ts, the header menus of TableColumnControls.tsx):       *)
(* values ticked in the menu of a column, the search among the values and  *)
(* the order of the rows.                                                  *)
(*                                                                         *)
(* In most tables the values on offer are computed from the rows at hand.  *)
(* The approval register asks the server for them and unticks with a group *)
(* status the line statuses that group status covers (remote).             *)
(***************************************************************************)
EXTENDS FiniteSets

CONSTANTS
    Rows,        \* every row there may be
    Moving,      \* the rows that come and go
    Columns,     \* the columns with a filter
    Sortable,    \* the columns that can order the rows
    Status,      \* the column whose values cover one another
    Values,      \* the values of the cells
    GroupValues, \* the values that come from the group of a row
    Found,       \* the values the search finds
    Cell         \* the values of a row in a column

\* A cell without a value has the value "empty"
ASSUME CellAssumption ==
    /\ Moving \subseteq Rows /\ Status \in Columns /\ Sortable \subseteq Columns
    /\ IsFiniteSet(Values)
    /\ Cell \in [Rows -> [Columns -> (SUBSET Values) \ {{}}]]

VARIABLES
    remote,    \* the register, or a table that filters its own rows
    present,   \* the rows there are now
    facets,    \* the values and their covers the server gave last
    ticked,    \* the filter of each column
    searched,  \* the columns whose values are searched
    sort       \* the column the rows are ordered by, and the direction

filters    == <<ticked, searched, sort>>
filterVars == <<remote, present, facets, filters>>

NoFilter  == [on |-> FALSE, values |-> {}]
Unsorted  == [column |-> "none", down |-> FALSE]

FiltersTypeOK ==
    /\ remote \in BOOLEAN /\ present \subseteq Rows
    /\ facets \in [values : [Columns -> SUBSET Values],
                   covered : [GroupValues -> SUBSET Values]]
    /\ ticked \in [Columns -> [on : BOOLEAN, values : SUBSET Values]]
    /\ searched \subseteq Columns
    /\ sort = Unsorted \/ sort \in [column : Sortable, down : BOOLEAN]

-----------------------------------------------------------------------------
(* Which rows pass, which values are on offer *)

\* rowMatchesColumnFilter: no list, and an empty one, let every row pass
Passes(r, c) ==
    \/ ~ticked[c].on \/ ticked[c].values = {}
    \/ Cell[r][c] \cap ticked[c].values # {}

Shown == {r \in present : \A c \in Columns : Passes(r, c)}

\* The rows the filters of the other columns let pass
Scope(c) == {r \in present : \A d \in Columns \ {c} : Passes(r, d)}

Available(c) == UNION {Cell[r][c] : r \in Scope(c)}

\* Line statuses that only lines under the group status g have
Covered(g) ==
    {v \in Available(Status) \ GroupValues :
        \A r \in Scope(Status) : v \in Cell[r][Status] => g \in Cell[r][Status]}

Facets == [values |-> [c \in Columns |-> Available(c)],
           covered |-> [g \in GroupValues |-> Covered(g)]]

Offered(c) ==
    {v \in (IF remote THEN facets.values[c] ELSE Available(c)) :
        c \in searched => v \in Found}

Ticked(c) == IF ticked[c].on THEN ticked[c].values ELSE Offered(c)

FiltersInit ==
    /\ remote \in BOOLEAN /\ present = Rows
    /\ ticked = [c \in Columns |-> NoFilter] /\ searched = {} /\ sort = Unsorted
    /\ facets = Facets

-----------------------------------------------------------------------------
(* The menu of a column *)

Menu == UNCHANGED <<remote, present, facets, sort>>

\* A list as long as what is on offer counts as no filter
AsFilter(c, values) ==
    IF values # {} /\ Cardinality(values) = Cardinality(Offered(c))
    THEN NoFilter ELSE [on |-> TRUE, values |-> values]

\* Mutant: a filter that is off has nothing ticked
ToggledFromNothing(c, v) ==
    IF v \in ticked[c].values THEN ticked[c].values \ {v} ELSE ticked[c].values \cup {v}

\* The register's adjustFilterSelection, for the values just unticked
Without(values, gone) ==
    values \ UNION {facets.covered[g] : g \in (gone \cap GroupValues) \ values}

Adjusted(c, values, gone) ==
    IF remote /\ c = Status THEN Without(values, gone) ELSE values

Toggled(c, v) == IF v \in Ticked(c) THEN Ticked(c) \ {v} ELSE Ticked(c) \cup {v}

Toggle(c, v) ==
    /\ v \in Offered(c) /\ Menu /\ UNCHANGED searched
    /\ ticked' = [ticked EXCEPT ![c] = AsFilter(c, Adjusted(c, Toggled(c, v), {v}))]

\* "Untick the visible", when all of them are ticked
UntickVisible(c) ==
    /\ Offered(c) # {} /\ Offered(c) \subseteq Ticked(c) /\ Menu /\ UNCHANGED searched
    /\ ticked' = [ticked EXCEPT ![c] =
            AsFilter(c, Adjusted(c, Ticked(c) \ Offered(c), Offered(c)))]

TickEvery(c) ==
    /\ Menu /\ UNCHANGED searched
    /\ ticked' = [ticked EXCEPT ![c] = NoFilter]

ClearColumn(c) ==
    /\ ticked[c].on /\ Menu
    /\ ticked' = [ticked EXCEPT ![c] = NoFilter] /\ searched' = searched \ {c}

Search(c) ==
    /\ Menu /\ UNCHANGED ticked
    /\ searched' = IF c \in searched THEN searched \ {c} ELSE searched \cup {c}

\* Up, down and back to the order the rows come in
ToggleSort(c) ==
    /\ sort' = IF sort.column # c THEN [column |-> c, down |-> FALSE]
                ELSE IF ~sort.down THEN [sort EXCEPT !.down = TRUE] ELSE Unsorted
    /\ UNCHANGED <<remote, present, facets, ticked, searched>>

ServeFacets ==
    /\ remote /\ facets' = Facets
    /\ UNCHANGED <<remote, present, filters>>

\* "Reset the settings of the table", and the filters' own reset
ResetFilters ==
    /\ ticked' = [c \in Columns |-> NoFilter] /\ searched' = {} /\ sort' = Unsorted
    /\ UNCHANGED <<remote, present, facets>>

\* The filters stay when rows come and go
ComeOrGo(r) ==
    /\ present' = IF r \in present THEN present \ {r} ELSE present \cup {r}
    /\ UNCHANGED <<remote, facets, filters>>

-----------------------------------------------------------------------------

FiltersNext ==
    \/ \E c \in Columns :
          \/ \E v \in Values : Toggle(c, v)
          \/ UntickVisible(c) \/ TickEvery(c) \/ ClearColumn(c) \/ Search(c)
    \/ \E c \in Sortable : ToggleSort(c)
    \/ ServeFacets
    \/ ResetFilters
    \/ \E r \in Moving : ComeOrGo(r)

FiltersSpec == FiltersInit /\ [][FiltersNext]_filterVars

-----------------------------------------------------------------------------
(* Properties *)

\* The menu shows what the filter knows: nothing searched, the server's values
\* those of its rows, the ticked ones among them and at least one
MenuTells(c) ==
    /\ c \notin searched /\ (remote => facets = Facets)
    /\ Ticked(c) \subseteq Available(c) /\ Ticked(c) # {}

\* The filter is a list before and after: whatever is searched, and whatever values the
\* list holds that other filters or rows now gone keep from the menu
StaysList(c) ==
    /\ ticked[c].on /\ ticked[c].values # {} /\ ticked'[c].on
    /\ remote => facets = Facets

\* Ticking or unticking a value shows or hides rows that have it and leaves
\* every other row as it was, whichever filters other columns have, and in the
\* midst of a search too once there is a list; not so when the last value is
\* unticked, which shows everything.
LocalToggle ==
    [][ticked' # ticked => \A c \in Columns, v \in Values :
          /\ Toggle(c, v) /\ (MenuTells(c) \/ StaysList(c))
          /\ ticked'[c] # [on |-> TRUE, values |-> {}]
          => \A r \in present : v \notin Cell[r][c] => (r \in Shown <=> r \in Shown')]_filterVars

\* Unticking a group status in the register hides the lines under it whose line
\* status no other line has; such a line stays only with the status, ticked still,
\* of another group of its branch.
ClosedGroupGone ==
    [][\A g \in GroupValues :
          (/\ remote /\ MenuTells(Status) /\ g \in Ticked(Status)
           /\ Toggle(Status, g) /\ ticked'[Status].values # {})
          => \A r \in Shown' :
                g \in Cell[r][Status] /\ Cell[r][Status] \ GroupValues \subseteq Covered(g)
                   => \E h \in GroupValues \cap Cell[r][Status] :
                          h # g /\ h \in ticked'[Status].values]_filterVars

\* A tick moves the rows it names and no other.
FilterTold == []FiltersTypeOK /\ LocalToggle /\ ClosedGroupGone

-----------------------------------------------------------------------------
(* Not kept by the code, and checked by no run: added to Tables.cfg both    *)
(* are refuted.                                                             *)

\* The first value unticked among those a search finds hides what has that value, and
\* not all the rows the search does not find (toggleFilterOption starts from what is
\* on offer).
FirstUntickLocal ==
    [][\A c \in Columns, v \in Values :
          Toggle(c, v) /\ ~ticked[c].on /\ c \in searched /\ ~remote =>
              \A r \in Shown : v \notin Cell[r][c] => r \in Shown']_filterVars

\* A list of ticked values is given up only for the same values: not when a search
\* finds just as many others (the lengths are compared, not the values).
ListGivenUpForAll ==
    [][\A c \in Columns, v \in Values :
          Toggle(c, v) /\ ticked[c].on /\ ~ticked'[c].on => Toggled(c, v) = Offered(c)]_filterVars

=============================================================================
