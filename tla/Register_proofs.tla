--------------------------- MODULE Register_proofs ---------------------------
(***************************************************************************)
(* Proofs about the approval register in the browser: what is ticked in a  *)
(* tree of any depth is acted on once and can be looked up; a decision     *)
(* that no call refused has decided each of its lines; rows that lack what *)
(* the user was told of are being asked for; a command posts its reviews   *)
(* before its hand-overs; a tick in a filter moves the rows it names and   *)
(* no other; and widths nobody has dragged fit the rows.                   *)
(***************************************************************************)
EXTENDS RegisterSelection, RegisterDialogs, RegisterClient, TableFilters, TableColumns,
        FiniteSetTheorems, SequenceTheorems, WellFoundedInduction, TLAPS

(***************************************************************************)
(* The ticked groups                                                       *)
(***************************************************************************)

\* The groups of a branch: one and those above it
Line(g) == {g} \cup Above[g]

\* Of any two groups of a branch one is above the other.
LEMMA OneIsAbove ==
    ASSUME NEW g \in Groups, NEW h \in Line(g), NEW k \in Line(g)
    PROVE  h = k \/ h \in Above[k] \/ k \in Above[h]
BY TreeAssumption DEF Line

\* Among groups of the tree there is one with none of the others above it: as
\* many groups as there are, a set of groups above another grows smaller.
LEMMA TopExists ==
    ASSUME NEW S \in SUBSET Groups, S # {}
    PROVE  \E t \in S : Above[t] \cap S = {}
<1> DEFINE R == StrictSubsetOrdering(Groups)
           T == {Above[t] : t \in S}
<1>1. IsWellFoundedOn(R, FiniteSubsetsOf(Groups))
  BY FS_StrictSubsetOrderingWellFounded
<1>2. T \subseteq FiniteSubsetsOf(Groups) /\ T # {}
  <2>1. \A t \in S : Above[t] \in SUBSET Groups
    BY TreeAssumption
  <2>2. \A t \in S : IsFiniteSet(Above[t])
    BY <2>1, TreeAssumption, FS_Subset
  <2> QED
    BY <2>1, <2>2 DEF FiniteSubsetsOf
<1>3. PICK x \in T : \A y \in T : ~ (<<y, x>> \in R)
  <2> HIDE DEF R, T
  <2> QED
    BY <1>1, <1>2, WFMin
<1>4. PICK t \in S : x = Above[t]
  OBVIOUS
<1>5. ASSUME NEW u \in Above[t] \cap S
      PROVE  FALSE
  <2>1. Above[u] \subseteq Above[t] /\ u \in Above[t] /\ u \notin Above[u]
    BY <1>5, TreeAssumption
  <2>2. Above[u] \in T
    BY <1>5
  <2>3. Above[u] \in SUBSET Groups /\ Above[t] \in SUBSET Groups
    BY <1>5, TreeAssumption
  <2> QED
    BY <1>3, <1>4, <2>1, <2>2, <2>3 DEF StrictSubsetOrdering
<1> QED
  BY <1>5

\* With a group a branch holds what is above it: in the cache or in the branch
LEMMA BranchClosed ==
    ASSUME NEW g \in Groups, NEW h \in Below(g)
    PROVE  Above[h] \subseteq Below(g) \cup Above[g]
<1> SUFFICES ASSUME NEW k \in Above[h] PROVE k \in Below(g) \cup Above[g]
  OBVIOUS
<1>1. h \in Groups /\ k \in Groups /\ g \in Line(h) /\ k \in Line(h)
  BY TreeAssumption DEF Below, Line
<1> QED
  BY <1>1, OneIsAbove, TreeAssumption DEF Below, Line

LEMMA PrunedClosed ==
    ASSUME NEW X
    PROVE  /\ Pruned(X) \subseteq Groups
           /\ \A g \in Pruned(X) : Above[g] \subseteq Pruned(X)
BY TreeAssumption DEF Pruned

\* The cache is a tree: what the server prunes away goes with all below it
TreeClosed == \A g \in tree : Above[g] \subseteq tree

\* Of the ticked groups of a branch the topmost is the one its commands are for.
LEMMA OneRoot ==
    ASSUME TypeOK, TreeClosed
    PROVE  RootsOnce
<1> SUFFICES ASSUME NEW g \in groups \cap tree
             PROVE  Cardinality(({g} \cup Above[g]) \cap SelectionRoots) = 1
  BY DEF RootsOnce
<1> DEFINE S == Line(g) \cap groups
<1>1. /\ g \in Groups /\ Line(g) \subseteq tree /\ tree \subseteq Groups
      /\ S \in SUBSET Groups /\ S # {}
  BY TreeAssumption DEF TypeOK, TreeClosed, Line
<1>2. PICK t \in S : Above[t] \cap S = {}
  <2> HIDE DEF S
  <2> QED
    BY <1>1, TopExists
<1>3. \A h \in Line(g) : Above[h] \subseteq Line(g) /\ KnownAbove(h) = Above[h]
  BY <1>1, TreeAssumption DEF Line, KnownAbove
<1>4. t \in SelectionRoots
  BY <1>2, <1>3 DEF SelectionRoots
<1>5. ASSUME NEW u \in Line(g) \cap SelectionRoots
      PROVE  u = t
  <2>1. u \in S /\ Above[u] \cap groups = {}
    BY <1>3, <1>5 DEF SelectionRoots
  <2> QED
    BY <1>1, <1>2, <2>1, OneIsAbove
<1>6. ({g} \cup Above[g]) \cap SelectionRoots = {t}
  BY <1>2, <1>4, <1>5 DEF Line
<1> QED
  BY <1>6, FS_Singleton

\* A load under way asks for what the toolbar's filter shows
LoadsInScope == ~crossed => \A l \in loads : l.narrow = narrow

SelectionInv == TypeOK /\ TreeClosed /\ LoadsInScope /\ TickedInScope

LEMMA SelectionInit == Init => SelectionInv
<1> SUFFICES ASSUME Init PROVE SelectionInv
  OBVIOUS
<1>1. TypeOK /\ TreeClosed
  BY PrunedClosed DEF Init, TypeOK, TreeClosed, Roots
<1> QED
  BY <1>1 DEF Init, SelectionInv, LoadsInScope, TickedInScope

(* Steps that leave the ticks alone *)

LEMMA FoldingNext ==
    ASSUME SelectionInv,
           \/ \E g \in Groups : Unfold(g) \/ Fold(g)
           \/ FoldAll \/ UnfoldAll \/ Refetch
           \/ \E i \in Items : Decide(i)
    PROVE  SelectionInv'
<1>1. /\ UNCHANGED <<narrow, ticks, loads, crossed>> /\ open' \subseteq open
  BY DEF Unfold, Fold, FoldAll, UnfoldAll, Refetch, Decide
<1>2. LoadsInScope' /\ TickedInScope'
  BY <1>1 DEF SelectionInv, LoadsInScope, TickedInScope, Matches, ticks
<1>3. (tree' \subseteq Groups /\ expanded' \subseteq Groups) => TypeOK'
  BY <1>1 DEF SelectionInv, TypeOK, ticks
<1>4. ASSUME NEW g \in Groups, Unfold(g)
      PROVE  TypeOK' /\ TreeClosed'
  <2>1. Above[g] \subseteq tree
    BY <1>4 DEF Unfold, SelectionInv, TreeClosed
  <2>2. tree' \subseteq Groups /\ expanded' \subseteq Groups
    BY <1>4 DEF Unfold, Below, SelectionInv, TypeOK
  <2> QED
    BY <1>3, <1>4, <2>1, <2>2, BranchClosed DEF Unfold, SelectionInv, TreeClosed
<1>5. CASE UnfoldAll
  <2> DEFINE Folded == (Roots \ expanded)
                 \cup UNION {(Children(r) \cap tree) \ expanded : r \in Roots \cap expanded}
             more   == UNION {Below(g) : g \in Folded}
  <2>1. Folded \subseteq Groups /\ more \subseteq Groups
    BY DEF Roots, Children, Below
  <2>2. \A g \in Folded : Above[g] \subseteq tree
    BY DEF Roots, SelectionInv, TreeClosed
  <2>3. tree' = tree \cup more /\ expanded' = expanded \cup more
    BY <1>5 DEF UnfoldAll
  <2>4. \A h \in more : Above[h] \subseteq tree \cup more
    <3> SUFFICES ASSUME NEW g \in Folded, NEW h \in Below(g)
                 PROVE  Above[h] \subseteq tree \cup more
      OBVIOUS
    <3>1. Below(g) \subseteq more
      OBVIOUS
    <3> HIDE DEF Folded, more
    <3> QED
      BY <2>1, <2>2, <3>1, BranchClosed
  <2> HIDE DEF Folded, more
  <2>5. TypeOK'
    BY <1>3, <2>1, <2>3 DEF SelectionInv, TypeOK
  <2>6. TreeClosed'
    BY <2>3, <2>4 DEF SelectionInv, TreeClosed
  <2> QED
    BY <1>2, <2>5, <2>6 DEF SelectionInv
<1>6. CASE Refetch
  BY <1>2, <1>3, <1>6, PrunedClosed DEF Refetch, SelectionInv, TypeOK, TreeClosed
<1>7. CASE \/ \E g \in Groups : Fold(g)
           \/ FoldAll \/ \E i \in Items : Decide(i)
  BY <1>2, <1>3, <1>7 DEF Fold, FoldAll, Decide, SelectionInv, TypeOK, TreeClosed
<1> QED
  BY <1>2, <1>4, <1>5, <1>6, <1>7 DEF SelectionInv

\* What was ticked is forgotten, what was asked is not
LEMMA FilterNext ==
    ASSUME SelectionInv, Filter
    PROVE  SelectionInv'
<1>1. TypeOK' /\ TreeClosed'
  BY PrunedClosed DEF Filter, Forget, SelectionInv, TypeOK, TreeClosed, Roots
<1>2. LoadsInScope' /\ TickedInScope'
  BY DEF Filter, Forget, LoadsInScope, TickedInScope
<1> QED
  BY <1>1, <1>2 DEF SelectionInv

(* Ticking *)

\* A load is asked under the filter of the moment
LEMMA AskNext ==
    ASSUME SelectionInv, NEW op \in {"tick", "untick", "all"},
           NEW g \in Groups \cup {NoGroup}, Ask(op, g), narrow' = narrow, crossed' = crossed
    PROVE  loads' \subseteq Load /\ LoadsInScope'
BY DEF Ask, SelectionInv, TypeOK, Load, LoadsInScope

LEMMA TicksNext ==
    ASSUME SelectionInv,
           \/ \E g \in Groups : TickGroup(g) \/ UntickGroup(g)
           \/ TickAll \/ Clear
    PROVE  SelectionInv'
<1>1. UNCHANGED <<open, narrow, tree, crossed>> /\ picked' \subseteq picked
  BY DEF TickGroup, UntickGroup, TickAll, Clear, Forget
<1>2. TreeClosed' /\ TickedInScope'
  BY <1>1 DEF SelectionInv, TreeClosed, TickedInScope, Matches
<1>3. loads' \subseteq Load /\ LoadsInScope'
  <2>1. ASSUME NEW g \in Groups, TickGroup(g) PROVE loads' \subseteq Load /\ LoadsInScope'
    BY <2>1, AskNext DEF TickGroup
  <2>2. ASSUME NEW g \in Groups, UntickGroup(g) PROVE loads' \subseteq Load /\ LoadsInScope'
    BY <2>2, AskNext DEF UntickGroup
  <2>3. ASSUME TickAll PROVE loads' \subseteq Load /\ LoadsInScope'
    BY <2>3, AskNext DEF TickAll
  <2>4. ASSUME Clear PROVE loads' \subseteq Load /\ LoadsInScope'
    BY <2>4 DEF Clear, SelectionInv, TypeOK, LoadsInScope
  <2> QED
    BY <2>1, <2>2, <2>3, <2>4
<1>4. groups' \subseteq Selectable /\ expanded' \subseteq Groups
  <2>1. CASE \E g \in Groups : TickGroup(g)
    BY <2>1 DEF TickGroup, SelectionInv, TypeOK, Below
  <2>2. CASE \E g \in Groups : UntickGroup(g)
    BY <2>2 DEF UntickGroup, SelectionInv, TypeOK
  <2>3. CASE TickAll \/ Clear
    BY <2>3 DEF TickAll, Clear, Forget, SelectionInv, TypeOK
  <2> QED
    BY <2>1, <2>2, <2>3
<1>5. TypeOK'
  BY <1>1, <1>3, <1>4 DEF SelectionInv, TypeOK
<1> QED
  BY <1>2, <1>3, <1>5 DEF SelectionInv

LEMMA RowsNext ==
    ASSUME SelectionInv,
           \/ \E i \in Items : TickRow(i) \/ UntickRow(i)
           \/ \E g \in Groups : ShowRows(g)
    PROVE  SelectionInv'
<1>1. UNCHANGED <<open, narrow, tree, expanded, loads, crossed>> /\ groups' \subseteq groups
  BY DEF TickRow, UntickRow, ShowRows
<1>2. \A i \in picked' \ picked : i \in Items /\ Matches(i, narrow)
  BY DEF TickRow, UntickRow, ShowRows, SelectionInv, TypeOK
<1> QED
  BY <1>1, <1>2
     DEF SelectionInv, TypeOK, TreeClosed, LoadsInScope, TickedInScope, Matches

LEMMA AnswersNext ==
    ASSUME SelectionInv, NEW l \in loads, Answer(l) \/ Fail(l)
    PROVE  SelectionInv'
<1>1. /\ UNCHANGED <<open, narrow, tree, expanded, crossed>> /\ groups' \subseteq groups
      /\ loads' \subseteq loads
  BY DEF Answer, Fail
<1>2. l.op \in {"tick", "untick", "all"}
  BY DEF SelectionInv, TypeOK, Load
<1>3. picked' \subseteq picked \cup LinesFor(l)
  BY <1>2 DEF Answer, Fail
<1>4. \A i \in LinesFor(l) : i \in Items /\ Matches(i, l.narrow)
  BY DEF LinesFor, SelectionInv, TypeOK
<1> QED
  BY <1>1, <1>3, <1>4
     DEF SelectionInv, TypeOK, TreeClosed, LoadsInScope, TickedInScope, Matches

\* In a tree of any depth, wherever folding, fetching and late loads leave it, a
\* command is sent once for every ticked group that the cache has, and no row
\* stays ticked that the toolbar's filter hides.
THEOREM TicksHold == Spec => []TicksMeant
<1>1. SelectionInv /\ [Next]_vars => SelectionInv'
  <2> SUFFICES ASSUME SelectionInv, [Next]_vars PROVE SelectionInv'
    OBVIOUS
  <2>1. CASE Next
    BY <2>1, FoldingNext, FilterNext, TicksNext, RowsNext, AnswersNext DEF Next
  <2>2. CASE UNCHANGED vars
    BY <2>2 DEF vars, ticks, SelectionInv, TypeOK, TreeClosed, LoadsInScope, TickedInScope,
                Matches
  <2> QED
    BY <2>1, <2>2
<1>2. SelectionInv => TicksMeant
  BY OneRoot DEF SelectionInv, TicksMeant
<1> QED
  BY <1>1, <1>2, SelectionInit, PTL DEF Spec

(***************************************************************************)
(* A decision on many lines                                                *)
(***************************************************************************)

\* Whatever the mix of stages and positions, each line is in one of the calls.
LEMMA CallsCover ==
    ASSUME NEW lines \in SUBSET DialogLines
    PROVE  lines = UNION Calls(lines)
<1> DEFINE Of(s)    == {i \in lines : Stage[i] = s}
           Place(j) == {i \in lines : Stage[i] = "economist" /\ PositionOf[i] = PositionOf[j]}
<1>1. Calls(lines) = ({Of(s) : s \in {"cfo", "approver"}} \ {{}})
                        \cup {Place(j) : j \in Of("economist")}
  BY DEF Calls
<1>2. ASSUME NEW i \in lines PROVE i \in UNION Calls(lines)
  <2>1. CASE Stage[i] \in {"cfo", "approver"}
    <3>1. i \in Of(Stage[i]) /\ Of(Stage[i]) \in Calls(lines)
      BY <1>1, <2>1
    <3> QED
      BY <3>1
  <2>2. CASE Stage[i] = "economist"
    <3>1. i \in Place(i) /\ Place(i) \in Calls(lines)
      BY <1>1, <2>2
    <3> QED
      BY <3>1
  <2> QED
    BY <2>1, <2>2, StageAssumption
<1>3. \A c \in Calls(lines) : c \subseteq lines
  BY <1>1
<1> QED
  BY <1>2, <1>3

\* While no call was refused, what still waits is in a call under way
DialogInv ==
    /\ waiting \subseteq DialogLines /\ target \subseteq DialogLines
    /\ posted = {} => posts = {}
    /\ ~refused => posted \cap waiting \subseteq UNION posts

\* The lines of the decision under way
Decision == <<posts, posted, refused>>

LEMMA DecisionKept ==
    ASSUME DialogInv, UNCHANGED Decision, waiting' \subseteq waiting,
           target' \subseteq DialogLines
    PROVE  DialogInv'
BY DEF DialogInv, Decision

LEMMA DialogsNext ==
    ASSUME DialogInv, [DialogNext]_dialogVars
    PROVE  /\ DialogInv'
           /\ posted # {} /\ posted' = {} /\ ~refused' => posted \cap waiting' = {}
<1>1. CASE Post
  <2>1. /\ posts' = Calls(target) /\ posted' = target /\ target' = target /\ target # {}
        /\ waiting' = waiting /\ posted = {}
    BY <1>1 DEF Post
  <2>2. target = UNION Calls(target)
    BY CallsCover DEF DialogInv
  <2> QED
    BY <2>1, <2>2 DEF DialogInv
<1>2. ASSUME NEW c \in SUBSET DialogLines, ServePost(c)
      PROVE  /\ DialogInv'
             /\ posted # {} /\ posted' = {} /\ ~refused' => posted \cap waiting' = {}
  <2>1. /\ c \in posts /\ posts' = posts \ {c} /\ waiting' = waiting \ c /\ refused' = refused
    BY <1>2 DEF ServePost
  <2>2. ~refused' => posted \cap waiting' \subseteq UNION posts'
    BY <2>1 DEF DialogInv
  <2>3. /\ posted' = {} \/ posted' = posted
        /\ posted' # posted => posts' = {}
        /\ posts' # {} => posted' = posted
        /\ target' \subseteq target
    BY <1>2, <2>1 DEF ServePost, Settle
  <2>4. posted # {}
    BY <2>1 DEF DialogInv
  <2>5. posts' = {} /\ ~refused' => posted \cap waiting' = {}
    BY <2>2
  <2>6. ASSUME ~refused' PROVE posted' \cap waiting' \subseteq UNION posts'
    <3>1. CASE posted' = {}
      BY <3>1
    <3>2. CASE posted' = posted
      BY <2>2, <2>6, <3>2
    <3> QED
      BY <2>3, <3>1, <3>2
  <2> QED
    BY <2>1, <2>3, <2>4, <2>5, <2>6 DEF DialogInv
<1>refuse. ASSUME NEW c \in SUBSET DialogLines, RefusePost(c) PROVE DialogInv' /\ refused'
  BY <1>refuse DEF RefusePost, DialogInv
<1>3. CASE \/ \E lines \in SUBSET DialogLines : OpenRows(lines)
           \/ \E c \in SUBSET DialogLines : ServeStray(c)
           \/ Cancel
           \/ \E i \in DialogLines : DecideElsewhere(i)
           \/ \E g \in DialogGroups : AskGroup(g)
           \/ \E gs \in SUBSET DialogGroups : OpenForward(gs)
           \/ CloseForward \/ Confirm
           \/ \E a \in Questions : AnswerDialog(a) \/ FailDialog(a)
  <2>1. UNCHANGED Decision /\ waiting' \subseteq waiting
    BY <1>3 DEF OpenRows, ServeStray, Cancel, DecideElsewhere, AskGroup, OpenForward, CloseForward,
                Confirm, AnswerDialog, FailDialog, Server, Decision
  <2>2. target' \subseteq DialogLines
    BY <1>3 DEF OpenRows, ServeStray, Cancel, DecideElsewhere, AskGroup, OpenForward, CloseForward,
                Confirm, AnswerDialog, FailDialog, LinesOf, DialogInv
  <2> QED
    BY <2>1, <2>2, DecisionKept DEF Decision
<1>4. CASE UNCHANGED dialogVars
  BY <1>4, DecisionKept DEF dialogVars, Decision, DialogInv
<1> QED
  BY <1>1, <1>2, <1>refuse, <1>3, <1>4 DEF DialogNext

\* When the page tells of no refusal, every line of the decision was decided,
\* however many lines, stages and positions, and whoever decides meanwhile.
THEOREM SuccessHolds == DialogSpec => SuccessMeansAll
<1>1. DialogInit => DialogInv
  BY DEF DialogInit, DialogInv
<1>2. DialogInv /\ [DialogNext]_dialogVars => DialogInv'
  BY DialogsNext
<1>3. DialogInv /\ [DialogNext]_dialogVars =>
        [posted # {} /\ posted' = {} /\ ~refused' => posted \cap waiting' = {}]_dialogVars
  BY DialogsNext
<1> QED
  BY <1>1, <1>2, <1>3, PTL DEF DialogSpec, SuccessMeansAll

(***************************************************************************)
(* The widths of a table                                                   *)
(***************************************************************************)

\* A held handle has stopped the fitting, and until then no contents were missed
WidthsInv ==
    /\ FittedToRows
    /\ drag => adjusted
    /\ ~adjusted => fitKey = content

\* Widths nobody has dragged since the last reset fit the rows, however often
\* the rows come and go, a handle is taken or the table is reset.
THEOREM WidthsFit == ColumnsSpec => []FittedToRows
<1>1. ColumnsInit => WidthsInv
  BY DEF ColumnsInit, WidthsInv, FittedToRows, ColumnsTypeOK
<1>2. WidthsInv /\ [ColumnsNext]_columnVars => WidthsInv'
  <2> SUFFICES ASSUME WidthsInv, [ColumnsNext]_columnVars PROVE WidthsInv'
    OBVIOUS
  <2> USE DEF WidthsInv, FittedToRows, ColumnsTypeOK
  <2>1. ASSUME NEW c \in Hideable, ToggleColumn(c) PROVE WidthsInv'
    BY <2>1 DEF ToggleColumn
  <2>2. CASE Grab \/ Drag \/ Drop
    BY <2>2 DEF Grab, Drag, Drop
  <2>3. CASE FitOne
    BY <2>3 DEF FitOne
  <2>4. CASE Reset
    BY <2>4 DEF Reset, ResetWidths
  <2>5. CASE NewContents
    BY <2>5 DEF NewContents, AutoFit
  <2>6. CASE UNCHANGED columnVars
    BY <2>6 DEF columnVars
  <2> QED
    BY <2>1, <2>2, <2>3, <2>4, <2>5, <2>6 DEF ColumnsNext
<1>3. WidthsInv => FittedToRows
  BY DEF WidthsInv
<1> QED
  BY <1>1, <1>2, <1>3, PTL DEF ColumnsSpec

(***************************************************************************)
(* The query cache and the mutations                                       *)
(***************************************************************************)

\* No review is completed after a group was handed on
ReviewsFirst(todo) ==
    \A m, n \in DOMAIN todo : m < n /\ todo[n].op = "complete" => todo[m].op = "complete"

Command == [kind : Kinds, todo : Seq(Posts) \ {<<>>}, back : SUBSET Requests,
            touched : SUBSET Loadable]

ClientTypes ==
    /\ db \in [Loadable -> Nat] /\ owed \in [Loadable -> Nat]
    /\ cachedRows \in [Loadable -> Nat] /\ onScreen \subseteq Loadable
    /\ rowsFetch \in [Loadable -> {Idle, Due, Asked, Failed} \cup {Read(v) : v \in Nat}]
    /\ cmd \in [Slots -> {NoCmd} \cup Command]

\* Nobody is told of more than the server has done, and rows that are behind it
\* are neither thought complete nor on their way
CaughtUp ==
    \A g \in Loadable :
        /\ owed[g] <= db[g]
        /\ rowsFetch[g] = Idle => cachedRows[g] >= owed[g]
        /\ \A v \in Nat : rowsFetch[g] = Read(v) => v >= owed[g]

ScriptsOrdered ==
    \A s \in Slots : cmd[s] # NoCmd /\ cmd[s].kind = "forward" => ReviewsFirst(cmd[s].todo)

ClientInv == ClientTypes /\ CaughtUp /\ ScriptsOrdered

(* The scripts *)

\* A finite set is listed: one post for each of its members.
LEMMA Listed ==
    ASSUME NEW S, IsFiniteSet(S)
    PROVE  Cardinality(S) \in Nat /\ SetToSeq(S) \in [1 .. Cardinality(S) -> S]
<1>1. Cardinality(S) \in Nat /\ ExistsBijection(1 .. Cardinality(S), S)
  BY FS_CardinalityType
<1>2. \E f \in [1 .. Cardinality(S) -> S] : IsInjective(f)
  BY <1>1 DEF ExistsBijection, Bijection, Injection
<1> QED
  BY <1>1, <1>2 DEF SetToSeq

LEMMA ScriptPosts ==
    ASSUME NEW op, NEW S, IsFiniteSet(S)
    PROVE  /\ Script(op, S) \in Seq([op : {op}, on : S])
           /\ S # {} => Script(op, S) # <<>>
<1>1. Cardinality(S) \in Nat /\ SetToSeq(S) \in [1 .. Cardinality(S) -> S]
  BY Listed
<1>2. Script(op, S) \in [1 .. Cardinality(S) -> [op : {op}, on : S]]
  BY <1>1 DEF Script
<1>3. Script(op, S) \in Seq([op : {op}, on : S]) /\ Len(Script(op, S)) = Cardinality(S)
  <2>1. Script(op, S) \in Seq([op : {op}, on : S])
    <3> DEFINE R == [op : {op}, on : S]
               n == Cardinality(S)
    <3>1. n \in Nat /\ Script(op, S) \in [1 .. n -> R]
      BY <1>1, <1>2
    <3> HIDE DEF R, n
    <3>2. Script(op, S) \in UNION {[1 .. k -> R] : k \in Nat}
      BY <3>1
    <3>3. Script(op, S) \in Seq(R)
      BY <3>2, SeqDef, Zenon
    <3> QED
      BY <3>3 DEF R
  <2>2. DOMAIN Script(op, S) = 1 .. Cardinality(S)
    BY <1>2
  <2> QED
    BY <1>1, <2>1, <2>2, LenProperties
<1>4. S # {} => Cardinality(S) # 0
  BY FS_EmptySet
<1> QED
  BY <1>3, <1>4

\* What one post after the other is made of, the reviews of a hand-over first.
LEMMA DecideScript ==
    ASSUME NEW op \in {"decide", "submit"}, NEW S \in SUBSET Loadable
    PROVE  Script(op, S) \in Seq(Posts) /\ (S # {} => Script(op, S) # <<>>)
<1>1. IsFiniteSet(S)
  BY ClientAssumption, FS_Subset
<1>2. [op : {op}, on : S] \subseteq Posts
  BY DEF Posts
<1>3. Script(op, S) \in Seq([op : {op}, on : S]) /\ (S # {} => Script(op, S) # <<>>)
  BY <1>1, ScriptPosts
<1> QED
  BY <1>2, <1>3, SeqMonotonic

LEMMA CompleteScript ==
    ASSUME NEW S \in SUBSET Requests
    PROVE  Script("complete", S) \in Seq(Posts) /\ (S # {} => Script("complete", S) # <<>>)
<1>1. IsFiniteSet(S)
  BY ClientAssumption, FS_Subset
<1>2. [op : {"complete"}, on : S] \subseteq Posts
  BY DEF Posts
<1>3. /\ Script("complete", S) \in Seq([op : {"complete"}, on : S])
      /\ S # {} => Script("complete", S) # <<>>
  BY <1>1, ScriptPosts
<1> QED
  BY <1>2, <1>3, SeqMonotonic

\* A hand-over completes the reviews it has to complete before it hands on.
LEMMA ForwardOrdered ==
    ASSUME NEW S \in SUBSET Loadable, S # {}, NEW awaiting \in SUBSET S
    PROVE  /\ ForwardScript(S, awaiting) \in Seq(Posts) \ {<<>>}
           /\ ReviewsFirst(ForwardScript(S, awaiting))
<1> DEFINE U == UNION {RequestsOf[g] : g \in awaiting}
           A == Script("complete", U)
           B == Script("submit", S)
<1>1. U \in SUBSET Requests
  BY ClientAssumption
<1>2. IsFiniteSet(U) /\ IsFiniteSet(S)
  BY <1>1, ClientAssumption, FS_Subset
<1> HIDE DEF U
<1>3. A \in Seq([op : {"complete"}, on : U]) /\ A \in Seq(Posts)
  BY <1>1, <1>2, ScriptPosts, CompleteScript
<1>4. B \in Seq([op : {"submit"}, on : S]) /\ B \in Seq(Posts) /\ B # <<>>
  BY <1>2, ScriptPosts, DecideScript
<1> HIDE DEF A, B
<1>5. A \o B \in Seq(Posts) \ {<<>>}
  BY <1>3, <1>4, ConcatProperties, ConcatEqualIffEmpty, ConcatSimplifications
<1>6. /\ Len(A) \in Nat /\ Len(B) \in Nat /\ DOMAIN (A \o B) = 1 .. Len(A) + Len(B)
      /\ \A n \in 1 .. Len(A) + Len(B) :
            (A \o B)[n] = IF n <= Len(A) THEN A[n] ELSE B[n - Len(A)]
  BY <1>3, <1>4, <1>5, ConcatProperties, LenProperties
<1>7. \A n \in 1 .. Len(A) : A[n].op = "complete"
  <2> TAKE n \in 1 .. Len(A)
  <2>1. A[n] \in [op : {"complete"}, on : U]
    BY <1>3, ElementOfSeq
  <2> QED
    BY <2>1
<1>8. \A n \in 1 .. Len(B) : B[n].op = "submit"
  <2> TAKE n \in 1 .. Len(B)
  <2>1. B[n] \in [op : {"submit"}, on : S]
    BY <1>4, ElementOfSeq
  <2> QED
    BY <2>1
<1>9. ReviewsFirst(A \o B)
  <2> SUFFICES ASSUME NEW m \in 1 .. Len(A) + Len(B), NEW n \in 1 .. Len(A) + Len(B),
                      m < n, (A \o B)[n].op = "complete"
               PROVE  (A \o B)[m].op = "complete"
    BY <1>6 DEF ReviewsFirst
  <2>1. CASE n <= Len(A)
    BY <1>6, <1>7, <2>1
  <2>2. CASE n > Len(A)
    <3>1. n - Len(A) \in 1 .. Len(B) /\ (A \o B)[n] = B[n - Len(A)]
      BY <1>6, <2>2
    <3> QED
      BY <1>8, <3>1
  <2> QED
    BY <1>6, <2>1, <2>2
<1> QED
  BY <1>5, <1>9 DEF ForwardScript, U, A, B

LEMMA RestOrdered ==
    ASSUME NEW todo \in Seq(Posts), todo # <<>>, ReviewsFirst(todo)
    PROVE  ReviewsFirst(Tail(todo))
BY DEF ReviewsFirst

(* Steps of the cache *)

\* The tree says nothing of the rows
LEMMA TreeKept ==
    ASSUME ClientInv, UNCHANGED <<db, rowsVars, cmd, owed>>
    PROVE  ClientInv'
BY DEF ClientInv, ClientTypes, CaughtUp, ScriptsOrdered, rowsVars

\* A fetch goes on, its answer is not older than what the user was told, or it
\* is cancelled or fails
LEMMA RowsRead ==
    ASSUME ClientInv, NEW g \in Loadable, UNCHANGED <<db, cmd, owed>>,
           onScreen' \subseteq Loadable,
           NEW f \in {Idle, Due, Asked, Failed} \cup {Read(v) : v \in Nat},
           rowsFetch' = [rowsFetch EXCEPT ![g] = f],
           NEW r \in Nat, cachedRows' = [cachedRows EXCEPT ![g] = r],
           f = Idle => r >= owed[g],
           \A v \in Nat : f = Read(v) => v >= owed[g]
    PROVE  ClientInv'
<1>1. ClientTypes'
  BY DEF ClientInv, ClientTypes
<1>2. ASSUME NEW h \in Loadable
      PROVE  /\ owed[h] <= db[h]
             /\ rowsFetch'[h] = Idle => cachedRows'[h] >= owed[h]
             /\ \A v \in Nat : rowsFetch'[h] = Read(v) => v >= owed[h]
  <2>1. CASE h = g
    BY <2>1 DEF ClientInv, ClientTypes, CaughtUp
  <2>2. CASE h # g
    BY <2>2 DEF ClientInv, ClientTypes, CaughtUp
  <2> QED
    BY <2>1, <2>2
<1>3. CaughtUp'
  BY <1>2 DEF CaughtUp
<1>4. ScriptsOrdered'
  BY DEF ClientInv, ScriptsOrdered
<1> QED
  BY <1>1, <1>3, <1>4 DEF ClientInv

\* The states of a fetch are told apart
LEMMA States ==
    /\ Idle # Due /\ Idle # Asked /\ Idle # Failed
    /\ \A v \in Nat : Read(v) \notin {Idle, Due, Asked, Failed}
    /\ \A v, w \in Nat : Read(v) = Read(w) => v = w
    /\ \A v \in Nat : Read(v).state = "read" /\ Read(v).data = v
<1>1. /\ Idle.state = "idle" /\ Due.state = "due" /\ Asked.state = "asked"
      /\ Failed.state = "failed"
      /\ \A v \in Nat : Read(v).state = "read" /\ Read(v).data = v
  BY DEF Idle, Due, Asked, Failed, Read
<1> QED
  BY <1>1

LEMMA FetchingNext ==
    ASSUME ClientInv, Fetching
    PROVE  ClientInv'
<1> USE DEF rowsVars, treeVars
<1>1. CASE ServeTree \/ ReceiveTree \/ FailTree
  BY <1>1, TreeKept DEF ServeTree, ReceiveTree, FailTree
<1>2. ASSUME NEW g \in Loadable, ServeRows(g) PROVE ClientInv'
  <2>1. db[g] \in Nat /\ db[g] >= owed[g] /\ cachedRows[g] \in Nat
        /\ cachedRows = [cachedRows EXCEPT ![g] = cachedRows[g]]
    BY DEF ClientInv, ClientTypes, CaughtUp
  <2>2. \A v \in Nat : Read(db[g]) = Read(v) => v >= owed[g]
    BY <2>1, States
  <2>3. onScreen' \subseteq Loadable /\ UNCHANGED <<db, cmd, owed, cachedRows>>
        /\ rowsFetch' = [rowsFetch EXCEPT ![g] = Read(db[g])]
    BY <1>2 DEF ServeRows, ClientInv, ClientTypes
  <2>4. Read(db[g]) # Idle /\ Read(db[g]) \in {Idle, Due, Asked, Failed} \cup {Read(v) : v \in Nat}
    BY <2>1, States
  <2> QED
    BY <2>1, <2>2, <2>3, <2>4, RowsRead
<1>3. ASSUME NEW g \in Loadable, ReceiveRows(g) PROVE ClientInv'
  <2>1. PICK v \in Nat : rowsFetch[g] = Read(v)
    <3>1. rowsFetch[g] \in {Idle, Due, Asked, Failed} \cup {Read(v) : v \in Nat}
      BY DEF ClientInv, ClientTypes
    <3>2. rowsFetch[g].state = "read"
      BY <1>3 DEF ReceiveRows
    <3> QED
      BY <3>1, <3>2 DEF Idle, Due, Asked, Failed
  <2>2. v >= owed[g] /\ rowsFetch[g].data = v
    BY <2>1, States DEF ClientInv, CaughtUp
  <2>3. onScreen' \subseteq Loadable /\ UNCHANGED <<db, cmd, owed>>
        /\ rowsFetch' = [rowsFetch EXCEPT ![g] = Idle]
        /\ cachedRows' = [cachedRows EXCEPT ![g] = v]
    BY <1>3, <2>2 DEF ReceiveRows, ClientInv, ClientTypes
  <2>4. \A w \in Nat : Idle # Read(w)
    BY States
  <2> QED
    BY <2>2, <2>3, <2>4, RowsRead
<1>4. ASSUME NEW g \in Loadable, FailRows(g) PROVE ClientInv'
  <2>1. cachedRows[g] \in Nat /\ cachedRows = [cachedRows EXCEPT ![g] = cachedRows[g]]
    BY DEF ClientInv, ClientTypes
  <2>2. onScreen' \subseteq Loadable /\ UNCHANGED <<db, cmd, owed, cachedRows>>
        /\ rowsFetch' = [rowsFetch EXCEPT ![g] = Failed]
    BY <1>4 DEF FailRows, ClientInv, ClientTypes
  <2>3. Failed # Idle /\ \A v \in Nat : Failed # Read(v)
    BY States
  <2> QED
    BY <2>1, <2>2, <2>3, RowsRead
<1> QED
  BY <1>1, <1>2, <1>3, <1>4 DEF Fetching

(* Steps of the user *)

LEMMA StartNext ==
    ASSUME ClientInv, NEW s \in Slots, NEW kind \in Kinds, NEW todo \in Seq(Posts) \ {<<>>},
           kind = "forward" => ReviewsFirst(todo),
           Start(s, kind, todo)
    PROVE  ClientInv'
<1> DEFINE c == [kind |-> kind, todo |-> todo, back |-> {}, touched |-> {}]
<1>1. c \in Command
  BY DEF Command
<1>2. cmd' = [cmd EXCEPT ![s] = c] /\ UNCHANGED <<db, rowsVars, owed>>
  BY DEF Start
<1>3. c.kind = kind /\ c.todo = todo
  OBVIOUS
<1> HIDE DEF c
<1>4. ClientTypes'
  BY <1>1, <1>2 DEF ClientInv, ClientTypes, rowsVars
<1>5. CaughtUp'
  BY <1>2 DEF ClientInv, CaughtUp, rowsVars
<1>6. ScriptsOrdered'
  BY <1>2, <1>3 DEF ClientInv, ClientTypes, ScriptsOrdered
<1> QED
  BY <1>4, <1>5, <1>6 DEF ClientInv

LEMMA UserNext ==
    ASSUME ClientInv, User
    PROVE  ClientInv'
<1> USE DEF Kinds, Modal
<1>1. ASSUME NEW g \in Loadable, ExpandGroup(g) PROVE ClientInv'
  BY <1>1, TreeKept DEF ExpandGroup
<1>2. ASSUME NEW g \in Loadable, CollapseGroup(g) PROVE ClientInv'
  <2> DEFINE f == IF rowsFetch[g] = Idle THEN rowsFetch[g] ELSE Due
  <2>1. cachedRows[g] \in Nat /\ cachedRows = [cachedRows EXCEPT ![g] = cachedRows[g]]
        /\ onScreen' \subseteq Loadable /\ UNCHANGED <<db, cmd, owed, cachedRows>>
    BY <1>2 DEF ClientInv, ClientTypes, CollapseGroup
  <2>2. rowsFetch' = [rowsFetch EXCEPT ![g] = f]
    BY <1>2 DEF CollapseGroup
  <2>3. f = Idle => cachedRows[g] >= owed[g]
    BY States DEF ClientInv, CaughtUp
  <2>4. f \in {Idle, Due} /\ \A v \in Nat : f # Read(v)
    BY States
  <2> HIDE DEF f
  <2> QED
    BY <2>1, <2>2, <2>3, <2>4, RowsRead
<1>3. ASSUME NEW s \in Slots, NEW g \in Loadable, DecideRow(s, g) PROVE ClientInv'
  BY <1>3, DecideScript, StartNext DEF DecideRow
<1>4. ASSUME NEW s \in Slots, NEW g \in Loadable, CompleteReview(s, g) PROVE ClientInv'
  <2>1. RequestsOf[g] \in SUBSET Requests /\ RequestsOf[g] # {}
    BY ClientAssumption
  <2> QED
    BY <1>4, <2>1, CompleteScript, StartNext DEF CompleteReview
<1>5. ASSUME NEW s \in Slots, NEW g \in Loadable, WorkflowAction(s, g) PROVE ClientInv'
  BY <1>5, DecideScript, StartNext DEF WorkflowAction
<1>6. ASSUME NEW s \in Slots, NEW S \in SUBSET Loadable,
             DecideRows(s, S) \/ ApproveGroups(s, S)
      PROVE  ClientInv'
  BY <1>6, DecideScript, StartNext DEF DecideRows, ApproveGroups
<1>7. ASSUME NEW s \in Slots, NEW S \in SUBSET Loadable, NEW awaiting \in SUBSET S,
             Forward(s, S, awaiting)
      PROVE  ClientInv'
  BY <1>7, ForwardOrdered, StartNext DEF Forward
<1> QED
  BY <1>1, <1>2, <1>3, <1>4, <1>5, <1>6, <1>7 DEF User

(* The answers to the posts *)

\* After a post the rest of the script is left
LEMMA RestOfScript ==
    ASSUME NEW c \in Command
    PROVE  Tail(c.todo) \in Seq(Posts)
BY HeadTailProperties DEF Command

\* The command ends: the rows are read anew, or nothing is told
LEMMA EndNext ==
    ASSUME ClientInv, NEW s \in Slots, NEW c,
           db' \in [Loadable -> Nat], \A g \in Loadable : db[g] <= db'[g],
           Succeed(s, c) \/ FailMutation(s, c)
    PROVE  ClientInv'
<1>1. cmd' = [cmd EXCEPT ![s] = NoCmd]
  BY DEF Succeed, FailMutation
<1>2. cmd' \in [Slots -> {NoCmd} \cup Command] /\ ScriptsOrdered'
  BY <1>1 DEF ClientInv, ClientTypes, ScriptsOrdered
<1>3. CASE Told(c) /\ Invalidate /\ (UNCHANGED cachedRows \/ cachedRows' = PatchRows(c))
  <2>1. /\ owed' \in [Loadable -> Nat] /\ onScreen' \subseteq Loadable
        /\ rowsFetch' \in [Loadable -> {Asked, Due}]
    BY <1>3 DEF Told, Invalidate, ClientInv, ClientTypes
  <2>2. cachedRows' \in [Loadable -> Nat]
    BY <1>3 DEF PatchRows, ClientInv, ClientTypes
  <2>3. \A g \in Loadable : owed'[g] <= db'[g]
    <3> TAKE g \in Loadable
    <3>1. owed'[g] = IF g \in c.touched THEN db'[g] ELSE owed[g]
      BY <1>3 DEF Told
    <3>2. owed[g] \in Nat /\ db[g] \in Nat /\ db'[g] \in Nat /\ owed[g] <= db[g]
      BY DEF ClientInv, ClientTypes, CaughtUp
    <3> QED
      BY <3>1, <3>2
  <2>4. \A g \in Loadable : rowsFetch'[g] # Idle /\ \A v \in Nat : rowsFetch'[g] # Read(v)
    BY <2>1, States
  <2>5. CaughtUp'
    BY <2>3, <2>4 DEF CaughtUp
  <2>6. ClientTypes'
    BY <1>2, <2>1, <2>2 DEF ClientTypes
  <2> QED
    BY <1>2, <2>5, <2>6 DEF ClientInv
<1>4. CASE UNCHANGED <<owed, treeVars, rowsVars>>
  <2>1. \A g \in Loadable : owed'[g] <= db'[g]
    <3> TAKE g \in Loadable
    <3>1. owed[g] \in Nat /\ db[g] \in Nat /\ db'[g] \in Nat /\ owed[g] <= db[g]
      BY DEF ClientInv, ClientTypes, CaughtUp
    <3> QED
      BY <1>4, <3>1
  <2>2. CaughtUp'
    BY <1>4, <2>1 DEF ClientInv, CaughtUp, rowsVars
  <2>3. ClientTypes'
    BY <1>2, <1>4 DEF ClientInv, ClientTypes, rowsVars
  <2> QED
    BY <1>2, <2>2, <2>3 DEF ClientInv
<1> QED
  BY <1>3, <1>4 DEF Succeed, FailMutation

LEMMA AdvanceNext ==
    ASSUME ClientInv, NEW s \in Slots, NEW c,
           c.todo # <<>> => c \in Command,
           c.todo # <<>> /\ c.kind = "forward" => ReviewsFirst(c.todo),
           db' \in [Loadable -> Nat], \A g \in Loadable : db[g] <= db'[g],
           Advance(s, c)
    PROVE  ClientInv'
<1>1. CASE c.todo = <<>>
  BY <1>1, EndNext DEF Advance
<1>2. CASE c.todo # <<>>
  <2>1. cmd' = [cmd EXCEPT ![s] = c] /\ UNCHANGED <<rowsVars, owed>>
    BY <1>2 DEF Advance
  <2>2. ClientTypes'
    BY <1>2, <2>1 DEF ClientInv, ClientTypes, rowsVars
  <2>3. \A g \in Loadable : owed'[g] <= db'[g]
    <3> TAKE g \in Loadable
    <3>1. owed[g] \in Nat /\ db[g] \in Nat /\ db'[g] \in Nat /\ owed[g] <= db[g]
      BY DEF ClientInv, ClientTypes, CaughtUp
    <3> QED
      BY <2>1, <3>1
  <2>4. CaughtUp'
    BY <2>1, <2>3 DEF ClientInv, CaughtUp, rowsVars
  <2>5. ScriptsOrdered'
    BY <1>2, <2>1 DEF ClientInv, ClientTypes, ScriptsOrdered
  <2> QED
    BY <2>2, <2>4, <2>5 DEF ClientInv
<1> QED
  BY <1>1, <1>2

\* The server counts changes up
LEMMA Counted ==
    ASSUME ClientInv, NEW S, Bump(S)
    PROVE  db' \in [Loadable -> Nat] /\ \A g \in Loadable : db[g] <= db'[g]
BY DEF ClientInv, ClientTypes, Bump

\* A pending mutation has a post to make
LEMMA NextPost ==
    ASSUME ClientInv, NEW s \in Slots, cmd[s] # NoCmd
    PROVE  /\ cmd[s] \in Command /\ Head(cmd[s].todo) \in Posts
           /\ Changed(Head(cmd[s].todo)) \subseteq Loadable
           /\ cmd[s].kind = "forward" =>
                ReviewsFirst(cmd[s].todo) /\ ReviewsFirst(Tail(cmd[s].todo))
<1>1. cmd[s] \in Command
  BY DEF ClientInv, ClientTypes
<1>2. cmd[s].todo \in Seq(Posts) /\ cmd[s].todo # <<>>
  BY <1>1 DEF Command
<1>3. Head(cmd[s].todo) \in Posts
  BY <1>2, HeadTailProperties
<1>4. Changed(Head(cmd[s].todo)) \subseteq Loadable
  BY <1>3 DEF Changed, Posts
<1>5. cmd[s].kind = "forward" => ReviewsFirst(cmd[s].todo)
  BY DEF ClientInv, ScriptsOrdered
<1> QED
  BY <1>1, <1>2, <1>3, <1>4, <1>5, RestOrdered

LEMMA DoneNext ==
    ASSUME ClientInv, NEW s \in Slots, NEW back \in BOOLEAN, Done(s, back)
    PROVE  ClientInv'
<1> DEFINE c == cmd[s]
           post == Head(c.todo)
           sent == IF back THEN c.back \cup {post.on} ELSE c.back
           changed == c.touched \cup Changed(post)
           d == [c EXCEPT !.todo = Tail(@), !.back = sent, !.touched = changed]
<1>1. c # NoCmd /\ Bump(Changed(post)) /\ (back => post.op = "complete")
  BY DEF Done
<1>2. Advance(s, d)
  BY DEF Done
<1>3. c \in Command /\ post \in Posts /\ Changed(post) \subseteq Loadable
      /\ (c.kind = "forward" => ReviewsFirst(Tail(c.todo)))
  BY <1>1, NextPost
<1>4. c.back \in SUBSET Requests /\ c.touched \in SUBSET Loadable
  BY <1>3 DEF Command
<1>5. post.op = "complete" => post.on \in Requests
  BY <1>3 DEF Posts
<1>6. sent \in SUBSET Requests /\ changed \in SUBSET Loadable
  BY <1>1, <1>3, <1>4, <1>5
<1>7. d = [c EXCEPT !.todo = Tail(@), !.back = sent, !.touched = changed]
  OBVIOUS
<1> HIDE DEF c, post, sent, changed, d
<1>8. /\ d.todo = Tail(c.todo) /\ d.todo \in Seq(Posts) /\ d.kind = c.kind
      /\ d.todo # <<>> => d \in Command
  BY <1>3, <1>6, <1>7, RestOfScript DEF Command
<1>9. db' \in [Loadable -> Nat] /\ \A g \in Loadable : db[g] <= db'[g]
  BY <1>1, Counted
<1> QED
  BY <1>2, <1>3, <1>8, <1>9, AdvanceNext

LEMMA PassNext ==
    ASSUME ClientInv, NEW s \in Slots, Pass(s)
    PROVE  ClientInv'
<1> DEFINE c == cmd[s]
           d == [c EXCEPT !.todo = Tail(@)]
<1>1. c # NoCmd /\ UNCHANGED db /\ Advance(s, d)
  BY DEF Pass
<1>2. c \in Command /\ (c.kind = "forward" => ReviewsFirst(Tail(c.todo)))
  BY <1>1, NextPost
<1>3. c.back \in SUBSET Requests /\ c.touched \in SUBSET Loadable
      /\ d = [c EXCEPT !.todo = Tail(@), !.back = c.back, !.touched = c.touched]
  BY <1>2 DEF Command
<1> HIDE DEF c, d
<1>4. /\ d.todo = Tail(c.todo) /\ d.todo \in Seq(Posts) /\ d.kind = c.kind
      /\ d.todo # <<>> => d \in Command
  BY <1>2, <1>3, RestOfScript DEF Command
<1>5. db' \in [Loadable -> Nat] /\ \A g \in Loadable : db[g] <= db'[g]
  BY <1>1 DEF ClientInv, ClientTypes
<1> QED
  BY <1>1, <1>2, <1>4, <1>5, AdvanceNext

LEMMA AnswersAreKept ==
    ASSUME ClientInv, Answers
    PROVE  ClientInv'
<1>1. ASSUME NEW s \in Slots, Refused(s) PROVE ClientInv'
  <2>1. FailMutation(s, cmd[s]) /\ db' = db
    BY <1>1 DEF Refused
  <2>2. db' \in [Loadable -> Nat] /\ \A g \in Loadable : db[g] <= db'[g]
    BY <2>1 DEF ClientInv, ClientTypes
  <2> QED
    BY <2>1, <2>2, EndNext
<1> QED
  BY <1>1, DoneNext, PassNext DEF Answers

(* A branch arrives, or others work *)

LEMMA BranchNext ==
    ASSUME ClientInv, NEW g \in Loadable, BranchLoaded(g)
    PROVE  ClientInv'
<1> DEFINE f == IF rowsFetch[g] = Due THEN Asked ELSE rowsFetch[g]
<1>1. rowsFetch[g] \in {Idle, Due, Asked, Failed} \cup {Read(v) : v \in Nat}
      /\ cachedRows[g] \in Nat /\ cachedRows = [cachedRows EXCEPT ![g] = cachedRows[g]]
  BY DEF ClientInv, ClientTypes
<1>2. /\ UNCHANGED <<db, cmd, owed, cachedRows>> /\ onScreen' \subseteq Loadable
      /\ rowsFetch' = [rowsFetch EXCEPT ![g] = f]
  BY DEF BranchLoaded, Show, ClientInv, ClientTypes
<1>3. f \in {Idle, Due, Asked, Failed} \cup {Read(v) : v \in Nat}
  BY <1>1
<1>4. f = Idle => cachedRows[g] >= owed[g]
  BY States DEF ClientInv, CaughtUp
<1>5. \A v \in Nat : f = Read(v) => v >= owed[g]
  BY States DEF ClientInv, CaughtUp
<1> HIDE DEF f
<1> QED
  BY <1>1, <1>2, <1>3, <1>4, <1>5, RowsRead

LEMMA ElsewhereNext ==
    ASSUME ClientInv, NEW g \in Loadable, ChangedElsewhere(g)
    PROVE  ClientInv'
<1>1. Bump({g}) /\ UNCHANGED <<rowsVars, cmd, owed>>
  BY DEF ChangedElsewhere
<1>2. db' \in [Loadable -> Nat] /\ \A h \in Loadable : db[h] <= db'[h]
  BY <1>1, Counted
<1>3. \A h \in Loadable : owed'[h] <= db'[h]
  <2> TAKE h \in Loadable
  <2>1. owed[h] \in Nat /\ db[h] \in Nat /\ db'[h] \in Nat /\ owed[h] <= db[h]
    BY <1>2 DEF ClientInv, ClientTypes, CaughtUp
  <2> QED
    BY <1>1, <1>2, <2>1
<1>4. ClientTypes' /\ ScriptsOrdered'
  BY <1>1, <1>2 DEF ClientInv, ClientTypes, ScriptsOrdered, rowsVars
<1>5. CaughtUp'
  BY <1>1, <1>3 DEF ClientInv, CaughtUp, rowsVars
<1> QED
  BY <1>4, <1>5 DEF ClientInv

LEMMA ClientKept ==
    ASSUME ClientInv, [ClientNext]_clientVars
    PROVE  ClientInv'
<1>1. CASE UNCHANGED clientVars
  BY <1>1, TreeKept DEF clientVars
<1> QED
  BY <1>1, UserNext, AnswersAreKept, FetchingNext, BranchNext, ElsewhereNext DEF ClientNext

LEMMA ClientStarts == ClientInit => ClientInv
<1> SUFFICES ASSUME ClientInit PROVE ClientInv
  OBVIOUS
<1>1. ClientTypes
  BY ClientAssumption DEF ClientInit, ClientTypes, NoRows
<1>2. CaughtUp
  BY States DEF ClientInit, CaughtUp
<1>3. ScriptsOrdered
  BY DEF ClientInit, ScriptsOrdered
<1> QED
  BY <1>1, <1>2, <1>3 DEF ClientInv

\* Rows on screen that are behind what the user was told are being read again or
\* say that they could not be, whichever fetches are cancelled, overtaken or fail.
THEOREM StaleAreAsked == ClientSpec => []StaleRowsAsked
<1>1. ClientInv => StaleRowsAsked
  BY DEF ClientInv, ClientTypes, CaughtUp, StaleRowsAsked
<1> QED
  BY <1>1, ClientStarts, ClientKept, PTL DEF ClientSpec

\* What a step does to a group that a command hands on
HandedOn(s) ==
    LET c == cmd[s] IN
    c # NoCmd /\ c.kind = "forward" /\ c.todo # <<>> /\ db' # db
    /\ cmd'[s] # c /\ Head(c.todo).op = "submit"
       => /\ \A n \in DOMAIN c.todo : c.todo[n].op # "complete"
          /\ RequestsOf[Head(c.todo).on] \cap c.back = {}

\* Only the answer to the post of a command does both, and it is not skipped
LEMMA OnlyDone ==
    ASSUME ClientInv, [ClientNext]_clientVars, NEW s \in Slots,
           cmd[s] # NoCmd, db' # db, cmd'[s] # cmd[s]
    PROVE  ~Skipped(cmd[s], Head(cmd[s].todo))
<1>1. ASSUME NEW r \in Slots, NEW back \in BOOLEAN, Done(r, back)
      PROVE  r = s
  <2>1. \E c : cmd' = [cmd EXCEPT ![r] = c]
    BY <1>1 DEF Done, Advance, Succeed
  <2> QED
    BY <2>1 DEF ClientInv, ClientTypes
<1>2. PICK back \in BOOLEAN : Done(s, back)
  <2>1. ASSUME NEW r \in Slots, Pass(r) \/ Refused(r) PROVE FALSE
    BY <2>1 DEF Pass, Refused
  <2>2. ~User
    BY DEF User, ExpandGroup, CollapseGroup, DecideRow, CompleteReview, WorkflowAction,
           DecideRows, ApproveGroups, Forward, Start
  <2>3. ~Fetching
    BY DEF Fetching, ServeTree, ReceiveTree, FailTree, ServeRows, ReceiveRows, FailRows
  <2>4. ASSUME NEW g \in Loadable, BranchLoaded(g) \/ ChangedElsewhere(g) PROVE FALSE
    BY <2>4 DEF BranchLoaded, ChangedElsewhere
  <2>5. ClientNext
    BY DEF clientVars
  <2> QED
    BY <1>1, <2>1, <2>2, <2>3, <2>4, <2>5 DEF ClientNext, Answers
<1> QED
  BY <1>2 DEF Done

\* A group is handed on only when its command has no review left to complete,
\* and never with a request that completing sent back, for any mutations at once.
THEOREM ReviewsComeFirst == ClientSpec => ReviewedThenForwarded
<1>1. ClientInv /\ [ClientNext]_clientVars => [\A s \in Slots : HandedOn(s)]_clientVars
  <2> SUFFICES ASSUME ClientInv, [ClientNext]_clientVars, NEW s \in Slots
               PROVE  HandedOn(s)
    OBVIOUS
  <2> DEFINE c == cmd[s]
  <2>1. SUFFICES ASSUME c # NoCmd, c.kind = "forward", c.todo # <<>>, db' # db,
                        cmd'[s] # c, Head(c.todo).op = "submit"
                 PROVE  /\ \A n \in DOMAIN c.todo : c.todo[n].op # "complete"
                        /\ RequestsOf[Head(c.todo).on] \cap c.back = {}
    BY DEF HandedOn
  <2>2. c.todo \in Seq(Posts) /\ ReviewsFirst(c.todo)
    BY <2>1, NextPost DEF Command
  <2>3. Head(c.todo) = c.todo[1] /\ DOMAIN c.todo = 1 .. Len(c.todo) /\ Len(c.todo) \in Nat \ {0}
    BY <2>1, <2>2
  <2>4. \A n \in DOMAIN c.todo : c.todo[n].op # "complete"
    <3> TAKE n \in DOMAIN c.todo
    <3> QED
      BY <2>1, <2>2, <2>3 DEF ReviewsFirst
  <2>5. RequestsOf[Head(c.todo).on] \cap c.back = {}
    BY <2>1, OnlyDone DEF Skipped
  <2> QED
    BY <2>4, <2>5
<1> QED
  BY <1>1, ClientStarts, ClientKept, PTL DEF ClientSpec, ReviewedThenForwarded, HandedOn

(***************************************************************************)
(* The filters of a table                                                  *)
(***************************************************************************)

\* What is on offer, ticked or covered are values of cells.
LEMMA ValuesOffered ==
    ASSUME FiltersTypeOK
    PROVE  /\ \A c \in Columns : /\ Available(c) \subseteq Values
                                 /\ Offered(c) \subseteq Values
                                 /\ Ticked(c) \subseteq Values
           /\ Facets \in [values : [Columns -> SUBSET Values],
                          covered : [GroupValues -> SUBSET Values]]
<1>1. ASSUME NEW c \in Columns PROVE Available(c) \subseteq Values
  BY <1>1, CellAssumption DEF Available, Scope, FiltersTypeOK
<1>2. ASSUME NEW c \in Columns PROVE Offered(c) \subseteq Values
  BY <1>1, <1>2 DEF Offered, FiltersTypeOK
<1>3. ASSUME NEW c \in Columns PROVE Ticked(c) \subseteq Values
  BY <1>2, <1>3 DEF Ticked, FiltersTypeOK
<1>4. \A g \in GroupValues : Covered(g) \subseteq Values
  BY <1>1, CellAssumption DEF Covered
<1> QED
  BY <1>1, <1>2, <1>3, <1>4 DEF Facets

\* A menu writes the filter of its column
LEMMA FilterWritten ==
    ASSUME FiltersTypeOK, NEW c \in Columns, Menu, searched' \subseteq Columns,
           \/ ticked' = [ticked EXCEPT ![c] = NoFilter]
           \/ \E W \in SUBSET Values : ticked' = [ticked EXCEPT ![c] = AsFilter(c, W)]
    PROVE  FiltersTypeOK'
<1>1. \A W \in SUBSET Values : AsFilter(c, W) \in [on : BOOLEAN, values : SUBSET Values]
  BY DEF AsFilter, NoFilter
<1>2. NoFilter \in [on : BOOLEAN, values : SUBSET Values]
  BY DEF NoFilter
<1>3. ticked' \in [Columns -> [on : BOOLEAN, values : SUBSET Values]]
  BY <1>1, <1>2 DEF FiltersTypeOK
<1> QED
  BY <1>3 DEF FiltersTypeOK, Menu

LEMMA FiltersTyped ==
    ASSUME FiltersTypeOK, [FiltersNext]_filterVars
    PROVE  FiltersTypeOK'
<1>1. ASSUME NEW c \in Columns, NEW v \in Values, Toggle(c, v) PROVE FiltersTypeOK'
  <2> DEFINE W == Adjusted(c, Toggled(c, v), {v})
  <2>1. W \in SUBSET Values
    BY ValuesOffered DEF Adjusted, Without, Toggled
  <2>2. ticked' = [ticked EXCEPT ![c] = AsFilter(c, W)] /\ Menu /\ searched' \subseteq Columns
    BY <1>1 DEF Toggle, FiltersTypeOK
  <2> HIDE DEF W
  <2> QED
    BY <2>1, <2>2, FilterWritten
<1>2. ASSUME NEW c \in Columns, UntickVisible(c) PROVE FiltersTypeOK'
  <2> DEFINE W == Adjusted(c, Ticked(c) \ Offered(c), Offered(c))
  <2>1. W \in SUBSET Values
    BY ValuesOffered DEF Adjusted, Without
  <2>2. ticked' = [ticked EXCEPT ![c] = AsFilter(c, W)] /\ Menu /\ searched' \subseteq Columns
    BY <1>2 DEF UntickVisible, FiltersTypeOK
  <2> HIDE DEF W
  <2> QED
    BY <2>1, <2>2, FilterWritten
<1>3. ASSUME NEW c \in Columns, TickEvery(c) \/ ClearColumn(c) PROVE FiltersTypeOK'
  <2>1. ticked' = [ticked EXCEPT ![c] = NoFilter] /\ Menu /\ searched' \subseteq Columns
    BY <1>3 DEF TickEvery, ClearColumn, FiltersTypeOK
  <2> QED
    BY <2>1, FilterWritten
<1>4. ASSUME NEW c \in Columns, Search(c) PROVE FiltersTypeOK'
  BY <1>4 DEF Search, Menu, FiltersTypeOK
<1>5. ASSUME NEW c \in Sortable, ToggleSort(c) PROVE FiltersTypeOK'
  <2>1. sort' = Unsorted \/ sort' \in [column : Sortable, down : BOOLEAN]
    <3>1. CASE sort.column # c
      BY <1>5, <3>1 DEF ToggleSort
    <3>2. CASE sort.column = c /\ ~sort.down
      <4>1. CASE sort = Unsorted
        BY <1>5, <3>2, <4>1 DEF ToggleSort, Unsorted
      <4>2. CASE sort \in [column : Sortable, down : BOOLEAN]
        BY <1>5, <3>2, <4>2 DEF ToggleSort
      <4> QED
        BY <4>1, <4>2 DEF FiltersTypeOK
    <3>3. CASE sort.column = c /\ sort.down
      BY <1>5, <3>3 DEF ToggleSort
    <3> QED
      BY <3>1, <3>2, <3>3
  <2> QED
    BY <1>5, <2>1 DEF ToggleSort, FiltersTypeOK
<1>6. CASE ServeFacets
  BY <1>6, ValuesOffered DEF ServeFacets, filters, FiltersTypeOK
<1>7. CASE ResetFilters
  BY <1>7 DEF ResetFilters, NoFilter, FiltersTypeOK
<1>8. ASSUME NEW r \in Moving, ComeOrGo(r) PROVE FiltersTypeOK'
  BY <1>8, CellAssumption DEF ComeOrGo, filters, FiltersTypeOK
<1>9. CASE UNCHANGED filterVars
  BY <1>9 DEF filterVars, filters, FiltersTypeOK
<1> QED
  BY <1>1, <1>2, <1>3, <1>4, <1>5, <1>6, <1>7, <1>8, <1>9 DEF FiltersNext

\* A menu that tells what the filter knows offers the values of the rows in scope.
LEMMA MenuOffers ==
    ASSUME FiltersTypeOK, NEW c \in Columns, MenuTells(c)
    PROVE  Offered(c) = Available(c)
BY DEF MenuTells, Offered, Facets

\* A row in scope passes exactly when one of its values is ticked.
LEMMA PassesTicked ==
    ASSUME FiltersTypeOK, NEW c \in Columns, MenuTells(c), NEW r \in Scope(c)
    PROVE  Passes(r, c) <=> Cell[r][c] \cap Ticked(c) # {}
<1>1. Cell[r][c] # {} /\ Cell[r][c] \subseteq Available(c)
  BY CellAssumption DEF Available, Scope, FiltersTypeOK
<1>2. CASE ~ticked[c].on
  BY <1>1, <1>2, MenuOffers DEF Passes, Ticked
<1>3. CASE ticked[c].on
  BY <1>3 DEF Passes, Ticked, MenuTells
<1> QED
  BY <1>2, <1>3

\* A list as long as what is on offer is what is on offer: counting is enough.
LEMMA CountIsEnough ==
    ASSUME FiltersTypeOK, NEW c \in Columns, NEW W \in SUBSET Offered(c),
           AsFilter(c, W) # [on |-> TRUE, values |-> W]
    PROVE  AsFilter(c, W) = NoFilter /\ W = Offered(c)
<1>1. Offered(c) \in SUBSET Values /\ IsFiniteSet(Values)
  BY ValuesOffered, CellAssumption
<1>2. IsFiniteSet(Offered(c))
  BY <1>1, FS_Subset
<1>3. Cardinality(W) = Cardinality(Offered(c)) /\ AsFilter(c, W) = NoFilter
  BY DEF AsFilter
<1> QED
  BY <1>2, <1>3, FS_Subset

\* A line status that goes with a group status is no value of a row elsewhere.
LEMMA CoveredElsewhere ==
    ASSUME FiltersTypeOK, NEW c \in Columns, NEW v \in Values, remote => facets = Facets,
           NEW r \in Scope(c), v \notin Cell[r][c], NEW x \in Cell[r][c]
    PROVE  x \in Adjusted(c, Toggled(c, v), {v}) <=> x \in Ticked(c)
<1>1. x \in Toggled(c, v) <=> x \in Ticked(c)
  BY DEF Toggled
<1>2. CASE ~(remote /\ c = Status)
  BY <1>1, <1>2 DEF Adjusted
<1>3. CASE remote /\ c = Status
  <2>1. \A g \in GroupValues : facets.covered[g] = Covered(g)
    BY <1>3 DEF Facets
  <2>2. v \in GroupValues => x \notin Covered(v)
    BY <1>3 DEF Covered
  <2>3. x \notin UNION {facets.covered[g] : g \in ({v} \cap GroupValues) \ Toggled(c, v)}
    BY <2>1, <2>2
  <2> QED
    BY <1>1, <1>3, <2>3 DEF Adjusted, Without
<1> QED
  BY <1>2, <1>3

LEMMA ToggleIsLocal ==
    ASSUME FiltersTypeOK, NEW c \in Columns, NEW v \in Values,
           Toggle(c, v), MenuTells(c) \/ StaysList(c), ticked'[c] # [on |-> TRUE, values |-> {}],
           NEW r \in present, v \notin Cell[r][c]
    PROVE  r \in Shown <=> r \in Shown'
<1> DEFINE W == Adjusted(c, Toggled(c, v), {v})
<1>1. /\ present' = present
      /\ \A d \in Columns \ {c} : ticked'[d] = ticked[d]
      /\ ticked'[c] = AsFilter(c, W)
  BY DEF Toggle, Menu, FiltersTypeOK
<1>2. \A d \in Columns \ {c} : Passes(r, d)' <=> Passes(r, d)
  BY <1>1 DEF Passes
<1>3. CASE r \notin Scope(c)
  <2>1. PICK d \in Columns \ {c} : ~Passes(r, d)
    BY <1>3 DEF Scope
  <2>2. ~Passes(r, d)'
    BY <1>2, <2>1
  <2> QED
    BY <2>1, <2>2 DEF Shown
<1>4. CASE r \in Scope(c)
  <2>1. Passes(r, c)' <=> Cell[r][c] \cap W # {}
    <3> HIDE DEF W
    <3>1. CASE AsFilter(c, W) = [on |-> TRUE, values |-> W]
      <4>1. ticked'[c] = [on |-> TRUE, values |-> W]
        BY <1>1, <3>1
      <4>2. W # {}
        BY <4>1
      <4>3. ticked'[c].on /\ ticked'[c].values = W
        BY <4>1
      <4> QED
        BY <4>2, <4>3 DEF Passes
    <3>2. CASE AsFilter(c, W) # [on |-> TRUE, values |-> W]
      <4>1. ~ticked'[c].on
        BY <1>1, <3>2 DEF AsFilter, NoFilter
      <4>2. MenuTells(c)
        BY <4>1 DEF StaysList
      <4>3. W \subseteq Offered(c)
        BY <4>2, MenuOffers DEF W, Adjusted, Without, Toggled, Toggle, MenuTells
      <4>4. AsFilter(c, W) = NoFilter /\ W = Offered(c)
        BY <3>2, <4>3, CountIsEnough
      <4>5. Cell[r][c] # {} /\ Cell[r][c] \subseteq Offered(c)
        BY <1>4, <4>2, MenuOffers, CellAssumption DEF Available, Scope, FiltersTypeOK
      <4> QED
        BY <1>1, <4>4, <4>5 DEF Passes, NoFilter
    <3> QED
      BY <3>1, <3>2
  <2>2. Cell[r][c] \cap W # {} <=> Cell[r][c] \cap Ticked(c) # {}
    BY <1>4, CoveredElsewhere DEF MenuTells, StaysList
  <2>3. Cell[r][c] \cap Ticked(c) # {} <=> Passes(r, c)
    <3>1. CASE MenuTells(c)
      BY <1>4, <3>1, PassesTicked
    <3>2. CASE StaysList(c)
      BY <3>2 DEF StaysList, Passes, Ticked
    <3> QED
      BY <3>1, <3>2
  <2>4. \A d \in Columns : Passes(r, d)' <=> Passes(r, d)
    BY <1>2, <2>1, <2>2, <2>3
  <2> QED
    BY <1>1, <2>4 DEF Shown
<1> QED
  BY <1>3, <1>4

LEMMA ClosedIsGone ==
    ASSUME FiltersTypeOK, NEW g \in GroupValues, remote, MenuTells(Status),
           g \in Ticked(Status), Toggle(Status, g), ticked'[Status].values # {},
           NEW r \in Shown', g \in Cell[r][Status],
           Cell[r][Status] \ GroupValues \subseteq Covered(g)
    PROVE  \E h \in GroupValues \cap Cell[r][Status] :
              h # g /\ h \in ticked'[Status].values
<1> DEFINE W == Adjusted(Status, Toggled(Status, g), {g})
<1>1. ticked'[Status] = AsFilter(Status, W)
  BY CellAssumption DEF Toggle, FiltersTypeOK
<1>2. ticked'[Status] = [on |-> TRUE, values |-> W]
  BY <1>1 DEF AsFilter, NoFilter
<1>3. Passes(r, Status)'
  BY CellAssumption DEF Shown
<1>4. PICK h \in Cell[r][Status] : h \in W
  BY <1>2, <1>3 DEF Passes
<1>5. h # g /\ h \notin facets.covered[g]
  BY <1>4 DEF Adjusted, Without, Toggled
<1>6. h \in GroupValues
  BY <1>4, <1>5 DEF MenuTells, Facets
<1> QED
  BY <1>2, <1>4, <1>5, <1>6

\* In a table of any rows and columns a tick moves only rows that have its value,
\* though a full list is told from others by its length alone; and a group status
\* unticked takes with it the lines that no other status keeps.
THEOREM TicksAreTold == FiltersSpec => FilterTold
<1>1. FiltersInit => FiltersTypeOK
  <2> SUFFICES ASSUME FiltersInit PROVE FiltersTypeOK
    OBVIOUS
  <2> DEFINE T == [values : [Columns -> SUBSET Values], covered : [GroupValues -> SUBSET Values]]
  <2>1. \A c \in Columns : Available(c) \subseteq Values
    BY CellAssumption DEF FiltersInit, Available, Scope
  <2>2. Facets \in T
    BY <2>1, CellAssumption DEF Facets, Covered
  <2> QED
    BY <2>2 DEF FiltersInit, FiltersTypeOK, NoFilter
<1>2. FiltersTypeOK /\ [FiltersNext]_filterVars => FiltersTypeOK'
  BY FiltersTyped
<1>3. FiltersTypeOK =>
        [ticked' # ticked => \A c \in Columns, v \in Values :
          /\ Toggle(c, v) /\ (MenuTells(c) \/ StaysList(c))
          /\ ticked'[c] # [on |-> TRUE, values |-> {}]
          => \A r \in present : v \notin Cell[r][c] => (r \in Shown <=> r \in Shown')]_filterVars
  BY ToggleIsLocal
<1>4. FiltersTypeOK =>
        [\A g \in GroupValues :
          (/\ remote /\ MenuTells(Status) /\ g \in Ticked(Status)
           /\ Toggle(Status, g) /\ ticked'[Status].values # {})
          => \A r \in Shown' :
                g \in Cell[r][Status] /\ Cell[r][Status] \ GroupValues \subseteq Covered(g)
                   => \E h \in GroupValues \cap Cell[r][Status] :
                          h # g /\ h \in ticked'[Status].values]_filterVars
  BY ClosedIsGone
<1> QED
  BY <1>1, <1>2, <1>3, <1>4, PTL DEF FiltersSpec, FilterTold, LocalToggle, ClosedGroupGone

=============================================================================
