------------------------- MODULE RegisterSelection -------------------------
(***************************************************************************)
(* What is ticked and unfolded in the approval register                    *)
(* (ApprovalRegister.tsx): groups of a tree whose branches come and go     *)
(* with every fetch, rows under them, and the loads that tick or untick    *)
(* the rows of a group some time after the group.                          *)
(*                                                                         *)
(* Column filters and the order of the rows make another query and leave   *)
(* everything here as it is; only the filters of the toolbar (one of them  *)
(* here, on or off) forget what is ticked.  A load reads the server when   *)
(* it is answered.                                                         *)
(***************************************************************************)
EXTENDS Naturals, FiniteSets

CONSTANTS
    Groups,      \* the groups of the register
    NoGroup,     \* for a load that is for no group
    Above,       \* the groups above a group, as many as there are levels
    Selectable,  \* groups in which the user may do something
    Items,       \* the lines
    Leaf,        \* the group whose rows include the line
    Narrow,      \* the lines the toolbar's filter lets pass
    MaxLoads     \* bound on the loads under way

\* The user groups by any levels in any order; the groups above a group are one
\* of each level above its own, each above or below the others
ASSUME TreeAssumption ==
    /\ IsFiniteSet(Groups) /\ NoGroup \notin Groups
    /\ Above \in [Groups -> SUBSET Groups]
    /\ \A g \in Groups : g \notin Above[g]
    /\ \A g \in Groups : \A h \in Above[g] :
          /\ Above[h] \subseteq Above[g]
          /\ \A k \in Above[g] : h = k \/ h \in Above[k] \/ k \in Above[h]
    /\ Selectable \subseteq Groups /\ Leaf \in [Items -> Groups]

VARIABLES
    open,        \* lines that wait for the user, at the server
    narrow,      \* the toolbar's filter is on
    tree,        \* the groups in the cache
    expanded,    \* unfolded groups
    groups,      \* ticked groups
    picked,      \* ticked rows
    loads,       \* rows of groups under way to be ticked or unticked
    crossed      \* a load was under way when the filter changed

ticks == <<groups, picked>>
vars == <<open, narrow, tree, expanded, ticks, loads, crossed>>

Roots == {g \in Groups : Above[g] = {}}

Parents(g) == {h \in Above[g] : Above[g] = {h} \cup Above[h]}

Children(g) == {h \in Groups : g \in Parents(h)}

Below(g) == {h \in Groups : g \in {h} \cup Above[h]}

Under(g) == {i \in Items : Leaf[i] \in Below(g)}

Matches(i, filtered) == filtered => i \in Narrow

Load == [op : {"tick", "untick", "all"}, group : Groups \cup {NoGroup}, narrow : BOOLEAN]

TypeOK ==
    /\ open \subseteq Items /\ narrow \in BOOLEAN /\ crossed \in BOOLEAN
    /\ tree \subseteq Groups /\ expanded \subseteq Groups
    /\ groups \subseteq Selectable /\ picked \subseteq Items
    /\ loads \subseteq Load

\* What the server prunes the tree to: the roots, and below what is unfolded
Pruned(unfolded) == {g \in Groups : Above[g] \subseteq unfolded}

Init ==
    /\ open = Items /\ narrow = FALSE
    /\ expanded = Roots /\ tree = Pruned(Roots)
    /\ groups = {} /\ picked = {} /\ loads = {} /\ crossed = FALSE

-----------------------------------------------------------------------------
(* Folding *)

\* Unfolding loads the whole branch
Unfold(g) ==
    /\ g \in tree /\ g \notin expanded
    /\ tree' = tree \cup Below(g) /\ expanded' = expanded \cup Below(g)
    /\ UNCHANGED <<open, narrow, ticks, loads, crossed>>

Fold(g) ==
    /\ g \in tree /\ g \in expanded
    /\ expanded' = expanded \ (Below(g) \cap tree)
    /\ UNCHANGED <<open, narrow, tree, ticks, loads, crossed>>

FoldAll ==
    /\ expanded' = {}
    /\ UNCHANGED <<open, narrow, tree, ticks, loads, crossed>>

\* Folded rows are unfolded root by root, or child by child under a root that is
UnfoldAll ==
    LET more == UNION {Below(g) : g \in (Roots \ expanded)
                        \cup UNION {(Children(r) \cap tree) \ expanded : r \in Roots \cap expanded}}
    IN  /\ expanded' = expanded \cup more /\ tree' = tree \cup more
        /\ UNCHANGED <<open, narrow, ticks, loads, crossed>>

\* The tree is read anew; with nothing unfolded the server unfolds the roots
Refetch ==
    /\ tree' = Pruned(IF expanded = {} THEN Roots ELSE expanded)
    /\ UNCHANGED <<open, narrow, expanded, ticks, loads, crossed>>

Forget == groups' = {} /\ picked' = {}

\* A change of the toolbar's filter forgets what was ticked and unfolded, but
\* not the loads; the new tree is unfolded by default

Filter ==
    /\ narrow' = ~narrow /\ Forget
    /\ expanded' = Roots /\ tree' = Pruned(Roots)
    /\ crossed' = (crossed \/ loads # {})
    /\ UNCHANGED <<open, loads>>

\* The line is decided by somebody else
Decide(i) ==
    /\ i \in open /\ open' = open \ {i}
    /\ UNCHANGED <<narrow, tree, expanded, ticks, loads, crossed>>

-----------------------------------------------------------------------------
(* Ticking *)

Visible(g) == g \in tree /\ Above[g] \subseteq expanded

Ask(op, g) ==
    /\ Cardinality(loads) < MaxLoads
    /\ loads' = loads \cup {[op |-> op, group |-> g, narrow |-> narrow]}

\* A row ticked by hand unticks every group and leaves the rows they ticked
TickRow(i) ==
    /\ Visible(Leaf[i]) /\ Leaf[i] \in expanded /\ Matches(i, narrow) /\ i \notin picked
    /\ picked' = picked \cup {i} /\ groups' = {}
    /\ UNCHANGED <<open, narrow, tree, expanded, loads, crossed>>

\* A row unticked by hand leaves its group ticked
UntickRow(i) ==
    /\ Visible(Leaf[i]) /\ Leaf[i] \in expanded /\ i \in picked
    /\ picked' = picked \ {i}
    /\ UNCHANGED <<open, narrow, tree, expanded, groups, loads, crossed>>

TickGroup(g) ==
    /\ Visible(g) /\ g \in Selectable \ groups /\ Ask("tick", g)
    /\ groups' = groups \cup (Below(g) \cap tree \cap Selectable)
    /\ expanded' = expanded \cup (Below(g) \cap tree)
    /\ UNCHANGED <<open, narrow, tree, picked, crossed>>

UntickGroup(g) ==
    /\ Visible(g) /\ g \in groups /\ Ask("untick", g)
    /\ groups' = groups \ (Below(g) \cap tree)
    /\ UNCHANGED <<open, narrow, tree, expanded, picked, crossed>>

TickAll ==
    /\ ~ (Roots \cap Selectable \subseteq groups) /\ Ask("all", NoGroup)
    /\ groups' = (UNION {Below(g) : g \in Roots \cap Selectable}) \cap tree \cap Selectable
    /\ UNCHANGED <<open, narrow, tree, expanded, picked, crossed>>

\* "Clear the selection", and all unticked; what a decision does when it is stored
Clear ==
    /\ Forget
    /\ UNCHANGED <<open, narrow, tree, expanded, loads, crossed>>

\* The lines the user may decide below the group, or below all roots
LinesFor(l) ==
    {i \in open : /\ Matches(i, l.narrow)
                  /\ l.op = "all" \/ i \in Under(l.group)}

Answer(l) ==
    /\ picked' = CASE l.op = "tick"   -> picked \cup LinesFor(l)
                 [] l.op = "untick" -> picked \ LinesFor(l)
                 [] l.op = "all"    -> LinesFor(l)
    /\ loads' = loads \ {l}
    /\ UNCHANGED <<open, narrow, tree, expanded, groups, crossed>>

\* The groups stay ticked without their rows; what cannot be unticked one by one
\* is all unticked
Fail(l) ==
    /\ picked' = IF l.op = "tick" THEN picked ELSE {}
    /\ groups' = IF l.op = "all" THEN {} ELSE groups
    /\ loads' = loads \ {l}
    /\ UNCHANGED <<open, narrow, tree, expanded, crossed>>

\* The rows of an unfolded group are shown, or shown anew: under a ticked group
\* those that wait for the user are ticked
ShowRows(g) ==
    /\ Visible(g) /\ g \in expanded /\ g \in groups
    /\ picked' = picked \cup {i \in open : Leaf[i] = g /\ Matches(i, narrow)}
    /\ UNCHANGED <<open, narrow, tree, expanded, groups, loads, crossed>>

-----------------------------------------------------------------------------
(* What a command for the ticked groups is sent for *)

\* buildParentMap: the parents the cache knows
KnownAbove(g) == IF g \in tree THEN Above[g] ELSE {}

\* Mutant: only the parent is looked at
ParentNotTicked == {g \in groups : Parents(g) \cap KnownAbove(g) \cap groups = {}}

\* topLevelSelectedGroups
SelectionRoots == {g \in groups : KnownAbove(g) \cap groups = {}}

Next ==
    \/ \E g \in Groups :
          Unfold(g) \/ Fold(g) \/ TickGroup(g) \/ UntickGroup(g) \/ ShowRows(g)
    \/ FoldAll \/ UnfoldAll \/ Refetch \/ Filter
    \/ \E i \in Items : TickRow(i) \/ UntickRow(i) \/ Decide(i)
    \/ TickAll \/ Clear
    \/ \E l \in loads : Answer(l) \/ Fail(l)

Spec == Init /\ [][Next]_vars

-----------------------------------------------------------------------------
(* Properties *)

\* A command for what is ticked is sent exactly once for every ticked group the
\* cache still has: through itself or the one ticked group at the top of those
\* above it, whether or not the groups between can be ticked.
RootsOnce ==
    \A g \in groups \cap tree :
        Cardinality(({g} \cup Above[g]) \cap SelectionRoots) = 1

\* No row stays ticked that the toolbar's filter hides, unless a load was under
\* way when the filter was changed: what is decided is what can be looked up.
TickedInScope == ~crossed => \A i \in picked : Matches(i, narrow)

\* What is ticked is what a command acts on, once.
TicksMeant == TypeOK /\ RootsOnce /\ TickedInScope

=============================================================================
