----------------------------- MODULE RouteEditor -----------------------------
(***************************************************************************)
(* The administrator's page of the approval route (pages/ApprovalPage.tsx) *)
(* over the steps and edges of the server (services/approval_service.py).  *)
(* An edge <<p, c>> says that a position goes from the child c up to the   *)
(* parent p.  Steps of CFOs and of the ZGD are always there, the step of   *)
(* an economist is made when a CFO gets the economist, the steps of the    *)
(* reviewers are made and deleted here.  Every reading of the route by the *)
(* administrator, and every hand-over of a position to its economist,      *)
(* first puts the automatic edges right.  Positions travel meanwhile.  One *)
(* position stands for the positions of a CFO, one administrator edits,    *)
(* and a change and its answer are one step, deletions apart.              *)
(***************************************************************************)
EXTENDS Naturals, FiniteSets, Sequences

CONSTANTS
    Cfos, Economists, Reviewers, Zgds, \* the steps there may be, by what they are for
    NoStep,
    Order,       \* the CFOs, sorted by their names
    MaxEdits,    \* bound on the changes of the administrator
    MaxFaults    \* bound on the calls that fail without reason

Steps == Cfos \cup Economists \cup Reviewers \cup Zgds

\* A step is for one purpose, and the list of the CFOs is complete
ASSUME RouteEditorAssumption ==
    /\ Cfos \cap (Economists \cup Reviewers \cup Zgds) = {}
    /\ Economists \cap (Reviewers \cup Zgds) = {} /\ Reviewers \cap Zgds = {}
    /\ NoStep \notin Steps
    /\ Order \in Seq(Cfos) /\ \A c \in Cfos : \E i \in 1 .. Len(Order) : Order[i] = c
    /\ MaxEdits \in Nat /\ MaxFaults \in Nat

VARIABLES
    steps, edges, \* the graph at the server
    assigned,     \* the economist of a CFO
    at,           \* the step of the position of a CFO
    view,         \* the answer to the last reading: steps, edges, economists and positions
    stale,        \* the reading was invalidated, and the next one is under way
    pending,      \* the step the administrator has begun to connect
    create,       \* the dialog of a new step: closed, free, or the child to connect
    cut,          \* the dialog that deletes an edge
    previews,     \* edges whose preview is under way
    target,       \* the step the dialog asks to delete
    job,          \* the deletion the server has checked and not yet made
    severed,      \* history: edges deleted with the assignment they stand for, and not made anew
    strayed,      \* history: CFOs that had an edge above them deleted once, or whose position
                  \* travelled to an economist that is not theirs or not yet linked
    edits, faults

vars == <<steps, edges, assigned, at, view, stale, pending, create, cut, previews, target, job,
          severed, strayed, edits, faults>>

graph   == <<steps, edges>>
history == <<severed, strayed>>
screen  == <<pending, create, target>>
cutting == <<cut, previews>>

View(s, e, a, p) == [steps |-> s, edges |-> e, assigned |-> a, at |-> p]
Closed == [edge |-> NoStep, state |-> "closed"]
Idle == [kind |-> "none", what |-> NoStep, unassigns |-> FALSE]

TypeOK ==
    /\ steps \subseteq Steps /\ Cfos \cup Zgds \subseteq steps /\ edges \subseteq steps \X steps
    /\ assigned \in [Cfos -> Economists \cup {NoStep}] /\ at \in [Cfos -> steps \cup {NoStep}]
    /\ view \in [steps : SUBSET Steps, edges : SUBSET (Steps \X Steps),
                 assigned : [Cfos -> Economists \cup {NoStep}], at : [Cfos -> Steps \cup {NoStep}]]
    /\ stale \in BOOLEAN /\ pending \in Steps \cup {NoStep}
    /\ create \in [state : {"closed", "free", "linked"}, child : Steps \cup {NoStep}]
    /\ cut \in {Closed} \cup [edge : Steps \X Steps, state : {"loading", "asking"}]
    /\ previews \subseteq Steps \X Steps /\ target \in Steps \cup {NoStep}
    /\ job \in {Idle} \cup [kind : {"edge"}, what : Steps \X Steps, unassigns : BOOLEAN]
                    \cup [kind : {"step"}, what : Steps, unassigns : {FALSE}]
    /\ severed \subseteq Economists \X Cfos /\ strayed \subseteq Cfos
    /\ edits \in 0 .. MaxEdits /\ faults \in 0 .. MaxFaults

-----------------------------------------------------------------------------
(* The graph *)

Parents(es, s) == {e[1] : e \in {x \in es : x[2] = s}}
Children(es, s) == {e[2] : e \in {x \in es : x[1] = s}}

\* Every pair of a step and one below it
Below(es) ==
    LET R[n \in 0 .. Cardinality(Steps)] ==
            IF n = 0 THEN es
            ELSE R[n - 1] \cup {<<x[1][1], x[2][2]>> : x \in {y \in R[n - 1] \X es : y[1][2] = y[2][1]}}
    IN  R[Cardinality(Steps)]

Cyclic(es) == \E s \in Steps : <<s, s>> \in Below(es)

\* _assert_graph: leaves below, the ZGD on top, no cycle
GraphOK(es) ==
    /\ \A e \in es : e[1] \notin Cfos /\ e[2] \notin Zgds
    /\ ~Cyclic(es)

\* CFOs of an economist's step: linked and assigned
CfosOf(es, a, s) == {c \in Cfos : <<s, c>> \in es /\ a[c] = s}
Anchor(es, a, s) == s \in Cfos \cup Zgds \/ CfosOf(es, a, s) # {}

\* Mutant: a direct link to a reviewer is left alone
WrongEconomists(g, c) == Parents(g.edges, c) \cap (Economists \ {assigned[c]})

\* What is linked to a CFO directly, its own economist apart
Wrong(g, c) == Parents(g.edges, c) \ {assigned[c]}

\* The position of the CFO comes along from a former economist
AtOwn(g, c) == IF g.at[c] \in Wrong(g, c) \cap Economists THEN [g.at EXCEPT ![c] = assigned[c]] ELSE g.at

\* sync_automatic_steps for one CFO: the economist's step comes between the CFO and
\* whatever is linked to it directly; another economist's parents are taken over
SyncCfo(c, g) ==
    LET e == assigned[c]
        wrong == Wrong(g, c)
        above == (UNION {Parents(g.edges, f) : f \in wrong \cap Economists}) \ {e}
    IN  IF e = NoStep THEN g
        ELSE [steps |-> g.steps \cup {e},
              edges |-> (g.edges \ {<<p, c>> : p \in wrong}) \cup {<<e, c>>}
                          \cup {<<p, e>> : p \in above \cup (wrong \ Economists)},
              at |-> AtOwn(g, c)]

\* One CFO after the other, by name
Synced ==
    LET Run[n \in 0 .. Len(Order)] ==
            IF n = 0 THEN [steps |-> steps, edges |-> edges, at |-> at]
            ELSE SyncCfo(Order[n], Run[n - 1])
    IN  Run[Len(Order)]

\* Economists of the first route: whoever the CFOs have been given
Init ==
    /\ assigned \in [Cfos -> Economists \cup {NoStep}]
    /\ edges = {<<assigned[c], c>> : c \in {x \in Cfos : assigned[x] # NoStep}}
    /\ steps = Cfos \cup Zgds \cup {assigned[c] : c \in {x \in Cfos : assigned[x] # NoStep}}
    /\ at = [c \in Cfos |-> NoStep] /\ view = View(steps, edges, assigned, at)
    /\ stale = FALSE /\ pending = NoStep /\ create = [state |-> "closed", child |-> NoStep]
    /\ cut = Closed /\ previews = {} /\ target = NoStep /\ job = Idle
    /\ severed = {} /\ strayed = {} /\ edits = 0 /\ faults = 0

Edit == edits < MaxEdits /\ edits' = edits + 1
Fault == faults < MaxFaults /\ faults' = faults + 1

\* No dialog covers the graph
Bare == create.state = "closed" /\ cut = Closed /\ target = NoStep

-----------------------------------------------------------------------------
(* Reading the route *)

\* The effect on the set of steps: a change of the set gives up the link begun
KeptPending(new) == IF new = view.steps THEN pending ELSE NoStep

Read ==
    /\ stale /\ stale' = FALSE
    /\ steps' = Synced.steps /\ edges' = Synced.edges /\ at' = Synced.at
    /\ view' = View(steps', edges', assigned, at')
    /\ pending' = KeptPending(steps')
    /\ UNCHANGED <<assigned, create, target, cutting, job, history, edits, faults>>

\* The button that reads anew, and the change of a responsible, which touches no edge
Refresh ==
    /\ Bare /\ ~stale /\ Edit /\ stale' = TRUE
    /\ UNCHANGED <<graph, assigned, at, view, screen, cutting, job, history, faults>>

-----------------------------------------------------------------------------
(* Connecting *)

\* The handle of a card: begins a link, and a second click gives it up
Handle(s) ==
    /\ Bare /\ s \in view.steps \ Zgds
    /\ pending' = IF pending = s THEN NoStep ELSE s
    /\ UNCHANGED <<graph, assigned, at, view, stale, create, target, cutting, job, history, edits, faults>>

\* The space bar
GiveUp ==
    /\ pending # NoStep /\ pending' = NoStep
    /\ UNCHANGED <<graph, assigned, at, view, stale, create, target, cutting, job, history, edits, faults>>

\* create_edge: made when the graph stays in order, otherwise refused
Linked(p, c) ==
    IF {p, c} \subseteq steps /\ <<p, c>> \notin edges /\ GraphOK(edges \cup {<<p, c>>})
    THEN /\ edges' = edges \cup {<<p, c>>} /\ stale' = TRUE
         /\ severed' = severed \ {<<p, c>>}
    ELSE UNCHANGED <<edges, stale, severed>>

\* The card of a step that is no leaf takes the link begun, by click or by drop
Connect(p) ==
    /\ Bare /\ pending # NoStep /\ p \in view.steps \ Cfos /\ p # pending /\ Edit
    /\ Linked(p, pending) /\ pending' = NoStep
    /\ UNCHANGED <<steps, assigned, at, view, create, target, cutting, job, strayed, faults>>

\* A click beside the cards asks for a new step above the one begun
AskLinked ==
    /\ Bare /\ pending # NoStep /\ pending' = NoStep
    /\ create' = [state |-> "linked", child |-> pending]
    /\ UNCHANGED <<graph, assigned, at, view, stale, target, cutting, job, history, edits, faults>>

\* The button of the page
AskFree ==
    /\ Bare /\ create' = [state |-> "free", child |-> NoStep]
    /\ UNCHANGED <<graph, assigned, at, view, stale, pending, target, cutting, job, history, edits, faults>>

CancelCreate ==
    /\ create.state # "closed" /\ create' = [state |-> "closed", child |-> NoStep]
    /\ UNCHANGED <<graph, assigned, at, view, stale, pending, target, cutting, job, history, edits, faults>>

\* create_step, the edge in the same transaction: a refused edge takes the step with it
Create(r) ==
    /\ create.state # "closed" /\ r \in Reviewers \ (steps \cup view.steps) /\ Edit
    /\ LET new == IF create.state = "free" THEN {} ELSE {<<r, create.child>>}
       IN  IF create.state = "free" \/ (create.child \in steps /\ GraphOK(edges \cup new))
           THEN /\ steps' = steps \cup {r} /\ edges' = edges \cup new
                /\ stale' = TRUE /\ create' = [state |-> "closed", child |-> NoStep]
           ELSE UNCHANGED <<graph, stale, create>>
    /\ UNCHANGED <<assigned, at, view, pending, target, cutting, job, history, faults>>

-----------------------------------------------------------------------------
(* Deleting an edge *)

AskCut(e) ==
    /\ Bare /\ e \in view.edges /\ Edit
    /\ cut' = [edge |-> e, state |-> "loading"] /\ previews' = previews \cup {e}
    /\ UNCHANGED <<graph, assigned, at, view, stale, screen, job, history, faults>>

\* The preview comes, and opens its dialog whatever is open by then
Preview(e) ==
    /\ e \in previews /\ previews' = previews \ {e} /\ cut' = [edge |-> e, state |-> "asking"]
    /\ UNCHANGED <<graph, assigned, at, view, stale, screen, job, history, edits, faults>>

\* Mutant: the error is told, and the dialog goes on waiting
TellPreview(e) ==
    /\ e \in previews /\ previews' = previews \ {e} /\ Fault
    /\ UNCHANGED <<graph, assigned, at, view, stale, screen, cut, job, history, edits>>

FailPreview(e) ==
    /\ e \in previews /\ previews' = previews \ {e} /\ Fault /\ cut' = Closed
    /\ UNCHANGED <<graph, assigned, at, view, stale, screen, job, history, edits>>

CancelCut ==
    /\ cut # Closed /\ job.kind # "edge" /\ cut' = Closed
    /\ UNCHANGED <<graph, assigned, at, view, stale, screen, previews, job, history, edits, faults>>

\* delete_edge looks outside its transaction whether a position sits at the edge, and
\* whether the edge stands for the assignment of an economist
Uses(p, c) ==
    IF c \in CfosOf(edges, assigned, p) THEN at[c] \in {p, c} ELSE \E x \in Cfos : at[x] \in {p, c}

CheckCut ==
    /\ cut.state = "asking" /\ job = Idle
    /\ LET p == cut.edge[1]
           c == cut.edge[2]
       IN  ~Uses(p, c) /\ job' = [kind |-> "edge", what |-> cut.edge, unassigns |-> c \in CfosOf(edges, assigned, p)]
    /\ UNCHANGED <<graph, assigned, at, view, stale, screen, cutting, history, edits, faults>>

\* The economist of the CFO goes with the edge
Unassigned(c) == [assigned EXCEPT ![c] = NoStep]

\* The success closes whichever of these dialogs is open
MakeCut ==
    /\ job.kind = "edge" /\ job' = Idle
    /\ LET p == job.what[1]
           c == job.what[2]
       IN  IF job.what \in edges
           THEN /\ edges' = edges \ {job.what} /\ cut' = Closed /\ stale' = TRUE
                /\ strayed' = strayed \cup ({c} \cap Cfos)
                /\ IF job.unassigns
                   THEN /\ assigned' = IF assigned[c] = p THEN Unassigned(c) ELSE assigned
                        /\ severed' = severed \cup {job.what}
                   ELSE UNCHANGED <<assigned, severed>>
           ELSE UNCHANGED <<edges, assigned, stale, cut, history>>
    /\ UNCHANGED <<steps, at, view, screen, previews, edits, faults>>

-----------------------------------------------------------------------------
(* Deleting a step *)

\* canDeleteApprovalStep, for what was read last
CanDelete(s) ==
    /\ ~Anchor(view.edges, view.assigned, s)
    /\ \A c \in Cfos : view.at[c] # s

AskDelete(s) ==
    /\ Bare /\ s \in view.steps /\ CanDelete(s) /\ Edit /\ target' = s
    /\ UNCHANGED <<graph, assigned, at, view, stale, pending, create, cutting, job, history, faults>>

CancelDelete ==
    /\ target # NoStep /\ job.kind # "step" /\ target' = NoStep
    /\ UNCHANGED <<graph, assigned, at, view, stale, pending, create, cutting, job, history, edits, faults>>

CheckDelete ==
    /\ target # NoStep /\ job = Idle /\ \A c \in Cfos : at[c] # target
    /\ job' = [kind |-> "step", what |-> target, unassigns |-> FALSE]
    /\ UNCHANGED <<graph, assigned, at, view, stale, screen, cutting, history, edits, faults>>

\* A position that has come to the step meanwhile has no step any more
Left(s) == [c \in Cfos |-> IF at[c] = s THEN NoStep ELSE at[c]]

\* The edges of the step go with it
MakeDelete ==
    /\ job.kind = "step" /\ job' = Idle
    /\ LET s == job.what
       IN  IF s \in steps /\ ~Anchor(edges, assigned, s)
           THEN /\ steps' = steps \ {s} /\ edges' = {e \in edges : s \notin {e[1], e[2]}}
                /\ at' = Left(s)
                /\ target' = NoStep /\ stale' = TRUE
           ELSE UNCHANGED <<graph, at, target, stale>>
    /\ UNCHANGED <<assigned, view, pending, create, cutting, history, edits, faults>>

-----------------------------------------------------------------------------
(* Another economist *)

\* The calls for the CFOs of a card run at once; after a failure the rest is stored all the
\* same, and nothing is read anew
Reassign(s, e) ==
    /\ Bare /\ s \in view.steps /\ e \in Economists \ {s} /\ Edit
    /\ LET asked == CfosOf(view.edges, view.assigned, s)
       IN  /\ asked # {}
           /\ \E done \in SUBSET asked :
                /\ assigned' = [c \in Cfos |-> IF c \in done THEN e ELSE assigned[c]]
                /\ severed' = {x \in severed : x[2] \notin done}
                /\ IF done = asked THEN stale' = TRUE /\ UNCHANGED faults ELSE Fault /\ UNCHANGED stale
    /\ UNCHANGED <<graph, at, view, screen, cutting, job, strayed>>

\* The page of the units gives a CFO an economist, or takes it when nothing is under way
AssignUnit(c, e) ==
    /\ Bare /\ e # assigned[c] /\ Edit
    /\ e = NoStep => at[c] = NoStep
    /\ assigned' = [assigned EXCEPT ![c] = e] /\ severed' = {x \in severed : x[2] # c} /\ stale' = TRUE
    /\ UNCHANGED <<graph, at, view, screen, cutting, job, strayed, faults>>

-----------------------------------------------------------------------------
(* The positions travel *)

\* The CFO hands its position over; the automatic edges are put right first
Enter(c) ==
    /\ at[c] = NoStep /\ assigned[c] # NoStep
    /\ steps' = Synced.steps /\ edges' = Synced.edges
    /\ at' = [Synced.at EXCEPT ![c] = assigned[c]]
    /\ UNCHANGED <<assigned, view, stale, screen, cutting, job, history, edits, faults>>

\* An economist may stand above another one, or below a reviewer without the edge that is
\* put right at the next reading: a position may come to one that does not have its CFO
StrayedBy(c) ==
    IF at'[c] \in Economists /\ c \notin CfosOf(edges, assigned, at'[c]) THEN strayed \cup {c} ELSE strayed

\* On to the only parent; the ZGD fixes what has come
Forward(c) ==
    /\ at[c] \in Economists => c \in CfosOf(edges, assigned, at[c])
    /\ \/ at[c] \in Zgds /\ at' = [at EXCEPT ![c] = NoStep]
       \/ at[c] \in steps \ Zgds /\ \E p \in steps : Parents(edges, at[c]) = {p} /\ at' = [at EXCEPT ![c] = p]
    /\ strayed' = StrayedBy(c)
    /\ UNCHANGED <<graph, assigned, view, stale, screen, cutting, job, severed, edits, faults>>

\* Back down towards the CFO
Back(c) ==
    /\ at[c] # NoStep /\ Children(edges, at[c]) # {}
    /\ at[c] \in Economists => c \in CfosOf(edges, assigned, at[c])
    /\ LET kids == Children(edges, at[c])
           own == {k \in kids : k = c \/ <<k, c>> \in Below(edges)}
       IN \E k \in IF own = {} THEN kids ELSE own :
            /\ own # {} \/ kids = {k}
            /\ at' = [at EXCEPT ![c] = IF k \in Cfos THEN NoStep ELSE k]
    /\ strayed' = StrayedBy(c)
    /\ UNCHANGED <<graph, assigned, view, stale, screen, cutting, job, severed, edits, faults>>

-----------------------------------------------------------------------------
Next ==
    \/ Read \/ Refresh \/ GiveUp \/ AskLinked \/ AskFree \/ CancelCreate
    \/ CancelCut \/ CheckCut \/ MakeCut \/ CancelDelete \/ CheckDelete \/ MakeDelete
    \/ \E s \in Steps :
        \/ Handle(s) \/ Connect(s) \/ Create(s) \/ AskDelete(s)
        \/ \E e \in Economists : Reassign(s, e)
    \/ \E e \in Steps \X Steps : AskCut(e) \/ Preview(e) \/ FailPreview(e)
    \/ \E c \in Cfos :
        \/ Enter(c) \/ Forward(c) \/ Back(c)
        \/ \E e \in Economists \cup {NoStep} : AssignUnit(c, e)

\* Every preview is answered or fails.
Fairness == \A e \in Steps \X Steps : WF_vars(Preview(e) \/ FailPreview(e))

Spec == Init /\ [][Next]_vars /\ Fairness

-----------------------------------------------------------------------------
(* Properties *)

\* Whatever the administrator links, the route that is read has between a CFO that has an
\* economist and everything else just the step of that economist.
RouteInView ==
    \A c \in Cfos : view.assigned[c] # NoStep => Parents(view.edges, c) = {view.assigned[c]}

\* The link begun starts at a card that is on the screen.
PendingIsShown == pending \in view.steps \cup {NoStep}

\* An edge that was deleted together with the assignment it stands for stays deleted,
\* however often the automatic edges are put right, until the same edge is linked, or the CFO given an economist, anew.
CutStays == severed \cap edges = {}

\* Whenever the route has been read, the position of a CFO that sits with an economist
\* sits with its own, whichever economists the CFO had before: unless an edge above the CFO
\* was once deleted, which may cross a position that comes and a change of the economist,
\* or the position travelled there itself.
OwnEconomist ==
    ~stale /\ view.assigned = assigned =>
        \A c \in Cfos \ strayed : at[c] \in Economists => at[c] = assigned[c]

\* The route, its automatic edges and the positions on it agree.
RouteStands == TypeOK /\ RouteInView /\ PendingIsShown /\ CutStays /\ OwnEconomist

\* The dialog that deletes an edge does not wait for its preview for ever.
PreviewEnds == cut.state = "loading" ~> cut.state # "loading"

\* The route has no cycle, as the server says when it refuses an edge.
Acyclic == ~Cyclic(edges)

=============================================================================
