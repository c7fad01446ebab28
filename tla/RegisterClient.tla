--------------------------- MODULE RegisterClient ---------------------------
(***************************************************************************)
(* The approval register in the browser (components/ApprovalRegister.tsx): *)
(* the query cache that holds the tree of groups and the rows of the       *)
(* expanded groups, the requests that fill it, and the mutations that post *)
(* decisions and hand groups on, each a script of posts.                   *)
(*                                                                         *)
(* What a group looks like is its version: the number of changes the       *)
(* server has made to it.  What the server answers is any answer it can    *)
(* give (BudgetWorkflow says which); the client only sees the answer.      *)
(* The cache is that of React Query: invalidating a query cancels the      *)
(* fetch under way and asks again, and a failed fetch is retried once.     *)
(***************************************************************************)
EXTENDS Naturals, FiniteSets, Sequences, SequencesExt, FiniteSetsExt

CONSTANTS
    Role,        \* role of the user
    Loadable,    \* the groups of the tree whose rows can be loaded
    Requests,    \* the budget requests
    RequestsOf,  \* request_ids of a group
    Slots,       \* mutations that may be pending at once
    MaxVersion,  \* bound on the changes made to the groups, all together
    MaxClicks    \* bound on the mutations the user starts

ASSUME ClientAssumption ==
    /\ IsFiniteSet(Loadable) /\ IsFiniteSet(Requests)
    /\ RequestsOf \in [Loadable -> (SUBSET Requests) \ {{}}]
    /\ MaxVersion \in Nat

VARIABLES
    db,         \* version of each group at the server
    cachedTree, \* version of each group in the cached tree
    treeFetch,  \* the fetch of the tree
    branch,     \* groups being expanded, with their version at the click
    onScreen,   \* expanded groups
    cachedRows, \* version of the cached rows of each group
    rowsFetch,  \* the fetch of the rows of each group
    cmd,        \* the pending mutations
    owed,       \* version of each group the user has been told of
    clicks      \* mutations started so far

treeVars   == <<cachedTree, treeFetch, branch>>
rowsVars   == <<onScreen, cachedRows, rowsFetch>>
clientVars == <<db, treeVars, rowsVars, cmd, owed, clicks>>

Versions == 0 .. MaxVersion
NoRows   == MaxVersion + 1
NotBranching == MaxVersion + 1
Idle  == [state |-> "idle"]
Due   == [state |-> "due"]     \* not loaded or invalidated, and nobody looks
Asked == [state |-> "asked"]
Failed == [state |-> "failed"] \* shown as an error
Read(data) == [state |-> "read", data |-> data]
NoCmd == [kind |-> "none"]

Modal == {"decide", "approve", "forward"}   \* posted from a modal dialog
Kinds == Modal \cup {"row", "group"}        \* or with a button of the table
\* Mutations that refresh the register when they fail halfway as well
RefreshOnError == {"approve", "forward"}

Posts == [op : {"decide", "submit"}, on : Loadable] \cup [op : {"complete"}, on : Requests]

ClientTypeOK ==
    /\ db \in [Loadable -> Versions] /\ cachedTree \in [Loadable -> Versions]
    /\ cachedRows \in [Loadable -> Versions \cup {NoRows}]
    /\ branch \in [Loadable -> Versions \cup {NotBranching}]
    /\ treeFetch \in {Idle, Asked, Failed} \cup {Read(d) : d \in [Loadable -> Versions]}
    /\ rowsFetch \in [Loadable -> {Idle, Due, Asked, Failed} \cup {Read(v) : v \in Versions}]
    /\ onScreen \subseteq Loadable
    /\ \A s \in Slots : cmd[s] # NoCmd =>
          /\ cmd[s].kind \in Kinds /\ cmd[s].todo \in Seq(Posts)
          /\ cmd[s].back \subseteq Requests /\ cmd[s].touched \subseteq Loadable
    /\ owed \in [Loadable -> Versions] /\ clicks \in 0 .. MaxClicks

ClientInit ==
    /\ db = [g \in Loadable |-> 0] /\ cachedTree = db /\ owed = db
    /\ treeFetch = Idle
    /\ branch = [g \in Loadable |-> NotBranching]
    /\ onScreen = {}
    /\ cachedRows = [g \in Loadable |-> NoRows]
    /\ rowsFetch = [g \in Loadable |-> Due]
    /\ cmd = [s \in Slots |-> NoCmd]
    /\ clicks = 0

-----------------------------------------------------------------------------
(* The query cache *)

\* invalidateQueries of both keys: the tree and the rows on screen are read
\* anew, the rows off screen when their group is expanded again
Invalidate ==
    /\ treeFetch' = Asked
    /\ rowsFetch' = [g \in Loadable |-> IF g \in onScreen THEN Asked ELSE Due]
    /\ UNCHANGED <<cachedTree, branch, onScreen>>

ServeTree ==
    /\ treeFetch = Asked
    /\ treeFetch' = Read(db)
    /\ UNCHANGED <<db, cachedTree, branch, rowsVars, cmd, owed, clicks>>

ReceiveTree ==
    /\ treeFetch.state = "read"
    /\ cachedTree' = treeFetch.data
    /\ treeFetch' = Idle
    /\ UNCHANGED <<db, branch, rowsVars, cmd, owed, clicks>>

\* The retry has failed as well
FailTree ==
    /\ treeFetch = Asked
    /\ treeFetch' = Failed
    /\ UNCHANGED <<db, cachedTree, branch, rowsVars, cmd, owed, clicks>>

ServeRows(g) ==
    /\ rowsFetch[g] = Asked
    /\ rowsFetch' = [rowsFetch EXCEPT ![g] = Read(db[g])]
    /\ UNCHANGED <<db, treeVars, onScreen, cachedRows, cmd, owed, clicks>>

ReceiveRows(g) ==
    /\ rowsFetch[g].state = "read"
    /\ cachedRows' = [cachedRows EXCEPT ![g] = rowsFetch[g].data]
    /\ rowsFetch' = [rowsFetch EXCEPT ![g] = Idle]
    /\ UNCHANGED <<db, treeVars, onScreen, cmd, owed, clicks>>

FailRows(g) ==
    /\ rowsFetch[g] = Asked
    /\ rowsFetch' = [rowsFetch EXCEPT ![g] = Failed]
    /\ UNCHANGED <<db, treeVars, onScreen, cachedRows, cmd, owed, clicks>>

-----------------------------------------------------------------------------
(* The tree *)

NoModal == \A s \in Slots : cmd[s].kind \notin Modal

\* A collapsed group is asked for its children; rows come with its expansion
ExpandGroup(g) ==
    /\ g \notin onScreen /\ branch[g] = NotBranching /\ NoModal
    /\ branch' = [branch EXCEPT ![g] = cachedTree[g]]
    /\ UNCHANGED <<db, cachedTree, treeFetch, rowsVars, cmd, owed, clicks>>

Show(g) ==
    /\ onScreen' = onScreen \cup {g}
    /\ rowsFetch' = [rowsFetch EXCEPT ![g] = IF @ = Due THEN Asked ELSE @]
    /\ UNCHANGED cachedRows

\* The group object of the click is merged into whatever tree is cached now;
\* an error is shown and the group expands all the same
BranchLoaded(g) ==
    /\ branch[g] # NotBranching
    /\ branch' = [branch EXCEPT ![g] = NotBranching]
    /\ \/ cachedTree' = [cachedTree EXCEPT ![g] = branch[g]]
       \/ UNCHANGED cachedTree
    /\ Show(g)
    /\ UNCHANGED <<db, treeFetch, cmd, owed, clicks>>

\* Nobody looks at the rows of a collapsed group: their fetch is cancelled
CollapseGroup(g) ==
    /\ g \in onScreen /\ NoModal
    /\ onScreen' = onScreen \ {g}
    /\ rowsFetch' = [rowsFetch EXCEPT ![g] = IF @ = Idle THEN @ ELSE Due]
    /\ UNCHANGED <<db, treeVars, cachedRows, cmd, owed, clicks>>

-----------------------------------------------------------------------------
(* The mutations *)

Script(op, S) == [n \in 1 .. Cardinality(S) |-> [op |-> op, on |-> SetToSeq(S)[n]]]

\* Mutant: the groups are handed on before their reviews are completed
SubmitFirst(S, awaiting) ==
    Script("submit", S) \o Script("complete", UNION {RequestsOf[g] : g \in awaiting})

\* The responsible of the CFO completes the reviews that await it, then hands
\* the groups on
ForwardScript(S, awaiting) ==
    Script("complete", UNION {RequestsOf[g] : g \in awaiting}) \o Script("submit", S)

Start(s, kind, todo) ==
    /\ cmd[s] = NoCmd /\ NoModal
    /\ clicks < MaxClicks /\ clicks' = clicks + 1
    /\ cmd' = [cmd EXCEPT ![s] = [kind |-> kind, todo |-> todo, back |-> {},
                                  touched |-> {}]]
    /\ UNCHANGED <<db, treeVars, rowsVars, owed>>

\* Several rows are decided by posts that run side by side, one per position
DecideRows(s, S) == S # {} /\ Start(s, "decide", Script("decide", S))
DecideRow(s, g) == Start(s, "row", Script("decide", {g}))
ApproveGroups(s, S) ==
    Role = "employee" /\ S # {} /\ Start(s, "approve", Script("decide", S))
CompleteReview(s, g) ==
    Role = "employee" /\ Start(s, "group", Script("complete", RequestsOf[g]))
WorkflowAction(s, g) == Start(s, "group", Script("submit", {g}))
Forward(s, S, awaiting) ==
    /\ S # {} /\ awaiting \subseteq S
    /\ Role = "employee" \/ awaiting = {}
    /\ Start(s, "forward", ForwardScript(S, awaiting))

Changed(post) ==
    IF post.op = "complete" THEN {g \in Loadable : post.on \in RequestsOf[g]} ELSE {post.on}

CanChange(S) ==
    MapThenSumSet(LAMBDA g : db[g], Loadable) + Cardinality(S) <= MaxVersion
Bump(S) == db' = [g \in Loadable |-> IF g \in S THEN db[g] + 1 ELSE db[g]]

\* A group is not handed on when completing its review sent a request back
Skipped(c, post) == post.op = "submit" /\ RequestsOf[post.on] \cap c.back # {}

\* updateRegisterCache: the row the answer speaks of is patched in place
PatchRows(c) ==
    [g \in Loadable |->
        IF /\ c.kind \in {"decide", "row"} /\ c.touched = {g}
           /\ cachedRows[g] + 1 = db'[g]
        THEN db'[g] ELSE cachedRows[g]]

Told(c) == owed' = [g \in Loadable |-> IF g \in c.touched THEN db'[g] ELSE owed[g]]

Succeed(s, c) ==
    /\ cmd' = [cmd EXCEPT ![s] = NoCmd]
    /\ cachedRows' = PatchRows(c)
    /\ Invalidate
    /\ Told(c)

FailMutation(s, c) ==
    /\ cmd' = [cmd EXCEPT ![s] = NoCmd]
    /\ IF c.kind \in RefreshOnError
       THEN Told(c) /\ Invalidate /\ UNCHANGED cachedRows
       ELSE UNCHANGED <<owed, treeVars, rowsVars>>

Advance(s, c) ==
    IF c.todo = <<>> THEN Succeed(s, c)
    ELSE /\ cmd' = [cmd EXCEPT ![s] = c]
         /\ UNCHANGED <<treeVars, rowsVars, owed>>

\* The server has done what the post asks.  back: the answer to completing the
\* review names lines sent to the module, which the page handles although the
\* server of this version leaves that field out.
Done(s, back) ==
    LET c == cmd[s]
        post == Head(c.todo)
    IN  /\ c # NoCmd /\ ~Skipped(c, post)
        /\ CanChange(Changed(post))
        /\ back => c.kind = "forward" /\ post.op = "complete"
        /\ Bump(Changed(post))
        /\ Advance(s, [c EXCEPT !.todo = Tail(@),
                                !.back = IF back THEN @ \cup {post.on} ELSE @,
                                !.touched = @ \cup Changed(post)])
        /\ UNCHANGED clicks

\* A review that is complete already, or a group to be skipped: go on
Pass(s) ==
    LET c == cmd[s]
    IN  /\ c # NoCmd /\ c.kind = "forward"
        /\ Head(c.todo).op = "complete" \/ Skipped(c, Head(c.todo))
        /\ UNCHANGED <<db, clicks>>
        /\ Advance(s, [c EXCEPT !.todo = Tail(@)])

\* The post is refused or its answer is lost.  What the server does all the
\* same, for this post or for those that run side by side with it, is work
\* nobody waits for any more.
Refused(s) ==
    LET c == cmd[s]
    IN  /\ c # NoCmd /\ ~Skipped(c, Head(c.todo))
        /\ UNCHANGED <<db, clicks>>
        /\ FailMutation(s, c)

\* A post nobody waits for any more, or the work of another user
ChangedElsewhere(g) ==
    /\ CanChange({g}) /\ Bump({g})
    /\ UNCHANGED <<treeVars, rowsVars, cmd, owed, clicks>>

-----------------------------------------------------------------------------

Answers ==
    \/ \E s \in Slots, back \in BOOLEAN : Done(s, back)
    \/ \E s \in Slots : Pass(s) \/ Refused(s)

Fetching ==
    \/ ServeTree \/ ReceiveTree \/ FailTree
    \/ \E g \in Loadable : ServeRows(g) \/ ReceiveRows(g) \/ FailRows(g)

User ==
    \/ \E g \in Loadable : ExpandGroup(g) \/ CollapseGroup(g)
    \/ \E s \in Slots, g \in Loadable :
          DecideRow(s, g) \/ CompleteReview(s, g) \/ WorkflowAction(s, g)
    \/ \E s \in Slots, S \in SUBSET Loadable : DecideRows(s, S) \/ ApproveGroups(s, S)
    \/ \E s \in Slots : \E S \in SUBSET Loadable : \E awaiting \in SUBSET S :
          Forward(s, S, awaiting)

ClientNext ==
    \/ User \/ Answers \/ Fetching
    \/ \E g \in Loadable : BranchLoaded(g) \/ ChangedElsewhere(g)

\* Every request of the browser is answered or fails; nobody must click
ClientFairness ==
    /\ WF_clientVars(Answers)
    /\ WF_clientVars(ServeTree \/ FailTree) /\ WF_clientVars(ReceiveTree)
    /\ \A g \in Loadable :
          WF_clientVars(ServeRows(g) \/ FailRows(g)) /\ WF_clientVars(ReceiveRows(g))
ClientSpec == ClientInit /\ [][ClientNext]_clientVars /\ ClientFairness

-----------------------------------------------------------------------------
(* Properties *)

\* Once the user has been told how a command went, the rows on screen catch up
\* with what it did, although fetches are cancelled, overtaken, retried and
\* fail: or the register says that it could not load them.  For the approval
\* and the forwarding of groups this holds when they stop halfway, too.
RowsCatchUp ==
    \A g \in Loadable :
        g \in onScreen /\ cachedRows[g] < owed[g]
            ~> g \notin onScreen \/ cachedRows[g] >= owed[g] \/ rowsFetch[g] = Failed

\* While a fetch is awaited nothing is lost: rows on screen that are behind
\* what the user was told are being read again, or say that they are not.
StaleRowsAsked ==
    \A g \in onScreen :
        cachedRows[g] < owed[g] => rowsFetch[g] # Idle

\* A group is handed on to the economist only after the reviews of its requests
\* that the same command completes, and never with a request that completing
\* sent back to its module.
ReviewedThenForwarded ==
    [][\A s \in Slots :
          LET c == cmd[s] IN
          c # NoCmd /\ c.kind = "forward" /\ c.todo # <<>> /\ db' # db
          /\ cmd'[s] # c /\ Head(c.todo).op = "submit"
             => /\ \A n \in DOMAIN c.todo : c.todo[n].op # "complete"
                /\ RequestsOf[Head(c.todo).on] \cap c.back = {}]_clientVars

=============================================================================
