-------------------------- MODULE RegisterDialogs --------------------------
(***************************************************************************)
(* The dialogs of the approval register that open over lines loaded for    *)
(* them (ApprovalRegister.tsx): a decision on the lines of a group, and    *)
(* handing groups on.  Nothing keeps the user from opening another dialog  *)
(* while the lines of the first are under way.  A decision on many lines   *)
(* is posted as one call per kind of line and position, all at once.       *)
(***************************************************************************)
EXTENDS Naturals, FiniteSets

CONSTANTS
    DialogGroups, \* the groups with buttons
    DialogLines,  \* the lines
    GroupOf,      \* the group of a line
    Stage,        \* who decides the line: "cfo", "economist" or "approver"
    PositionOf,   \* the position of a line
    MaxAsked      \* bound on the loads of a run

\* Each line is decided at one of the stages that have an endpoint
ASSUME StageAssumption == Stage \in [DialogLines -> {"cfo", "economist", "approver"}]

VARIABLES
    waiting,      \* lines that wait for the user, at the server
    target,       \* the lines of the open decision dialog
    posts,        \* the calls of the decision under way
    posted,       \* the lines it is for
    refused,      \* one of its calls was refused
    strays,       \* calls under way of decisions that were refused meanwhile
    forward,      \* the dialog that hands groups on
    asked,        \* loads under way
    count         \* loads asked so far

dialogVars == <<waiting, target, posts, posted, refused, strays, forward, asked, count>>

Question(op, gs) == [op |-> op, groups |-> gs]
Questions == {Question("decide", {g}) : g \in DialogGroups}
          \cup {Question("forward", gs) : gs \in SUBSET DialogGroups}

DialogTypeOK ==
    /\ waiting \subseteq DialogLines /\ target \subseteq DialogLines
    /\ posted \subseteq DialogLines /\ posts \subseteq SUBSET DialogLines
    /\ refused \in BOOLEAN /\ strays \subseteq SUBSET DialogLines
    /\ forward \in [groups : SUBSET DialogGroups, lines : SUBSET DialogLines, loading : BOOLEAN]
    /\ asked \subseteq Questions /\ count \in 0 .. MaxAsked

DialogInit ==
    /\ waiting = DialogLines /\ target = {} /\ posts = {} /\ posted = {} /\ refused = FALSE /\ strays = {}
    /\ forward = [groups |-> {}, lines |-> {}, loading |-> FALSE]
    /\ asked = {} /\ count = 0

Deciding == UNCHANGED <<forward, asked, count>>

NoDialog == target = {} /\ forward.groups = {}

LinesOf(gs) == {i \in waiting : GroupOf[i] \in gs}

-----------------------------------------------------------------------------
(* The decision dialog *)

\* A row's own button, and the selection bar
OpenRows(lines) ==
    /\ NoDialog /\ lines # {} /\ target' = lines
    /\ UNCHANGED <<waiting, posts, posted, refused, strays>> /\ Deciding

Cancel ==
    /\ target # {} /\ posted = {} /\ target' = {}
    /\ UNCHANGED <<waiting, posts, posted, refused, strays>> /\ Deciding

\* Mutant: the calls of a stage overwrite one another
OneCallAStage(lines) ==
    {{CHOOSE j \in lines : Stage[j] = s} : s \in {Stage[i] : i \in lines}}

\* postBulkRowDecision: one call for the lines of the CFO, one for those of the
\* last steps, one for every position of the economist's
Calls(lines) ==
    ({{i \in lines : Stage[i] = s} : s \in {"cfo", "approver"}} \ {{}})
        \cup {{i \in lines : Stage[i] = "economist" /\ PositionOf[i] = PositionOf[j]} :
                  j \in {i \in lines : Stage[i] = "economist"}}

Post ==
    /\ target # {} /\ posted = {}
    /\ posts' = Calls(target) /\ posted' = target /\ refused' = FALSE
    /\ UNCHANGED <<waiting, target, strays>> /\ Deciding

\* With all answered well the dialog closes, whichever it has become
Settle(rest) ==
    IF rest # {} THEN UNCHANGED <<target, posted>> ELSE posted' = {} /\ target' = {}

\* A call is stored as a whole
ServePost(c) ==
    /\ c \in posts /\ c \subseteq waiting /\ waiting' = waiting \ c
    /\ posts' = posts \ {c} /\ Settle(posts \ {c})
    /\ UNCHANGED <<refused, strays>> /\ Deciding

\* ... or refused.  Promise.all ends with the first refusal: it is told, the dialog stays
\* and can be sent again, and the other calls go on unheeded
RefusePost(c) ==
    /\ c \in posts /\ ~ c \subseteq waiting
    /\ refused' = TRUE /\ posted' = {} /\ posts' = {} /\ strays' = strays \cup (posts \ {c})
    /\ UNCHANGED <<waiting, target>> /\ Deciding

ServeStray(c) ==
    /\ c \in strays /\ strays' = strays \ {c}
    /\ waiting' = IF c \subseteq waiting THEN waiting \ c ELSE waiting
    /\ UNCHANGED <<target, posts, posted, refused>> /\ Deciding

\* The line is decided by somebody else
DecideElsewhere(i) ==
    /\ i \in waiting /\ waiting' = waiting \ {i}
    /\ UNCHANGED <<target, posts, posted, refused, strays>> /\ Deciding

-----------------------------------------------------------------------------
(* Dialogs that load their lines *)

Server == UNCHANGED <<waiting, posts, posted, refused, strays>>

\* The button of a group: the dialog opens when its lines have come
AskGroup(g) ==
    /\ NoDialog /\ count < MaxAsked /\ count' = count + 1
    /\ asked' = asked \cup {Question("decide", {g})}
    /\ UNCHANGED <<target, forward>> /\ Server

OpenForward(gs) ==
    /\ NoDialog /\ gs # {} /\ count < MaxAsked /\ count' = count + 1
    /\ asked' = asked \cup {Question("forward", gs)}
    /\ forward' = [groups |-> gs, lines |-> {}, loading |-> TRUE]
    /\ UNCHANGED target /\ Server

CloseForward ==
    /\ forward.groups # {}
    /\ forward' = [forward EXCEPT !.groups = {}, !.lines = {}]
    /\ UNCHANGED <<target, asked, count>> /\ Server

\* The groups are handed on, and the dialog closes
Confirm ==
    /\ forward.groups # {} /\ ~forward.loading /\ forward.lines # {}
    /\ forward' = [forward EXCEPT !.groups = {}]
    /\ waiting' = waiting \ LinesOf(forward.groups)
    /\ UNCHANGED <<target, posts, posted, refused, strays, asked, count>>

\* The answer is shown in whatever dialog is open by then
AnswerDialog(a) ==
    /\ a \in asked /\ asked' = asked \ {a} /\ UNCHANGED count /\ Server
    /\ IF a.op = "forward"
       THEN /\ forward' = [forward EXCEPT !.lines = LinesOf(a.groups), !.loading = FALSE]
            /\ UNCHANGED target
       ELSE /\ target' = IF LinesOf(a.groups) = {} THEN target ELSE LinesOf(a.groups)
            /\ UNCHANGED forward

\* Mutant: the failed load leaves the dialog loading
FailLoading(a) ==
    /\ a \in asked /\ asked' = asked \ {a} /\ UNCHANGED <<target, count>> /\ Server
    /\ forward' = IF a.op = "forward" THEN [forward EXCEPT !.groups = {}] ELSE forward

FailDialog(a) ==
    /\ a \in asked /\ asked' = asked \ {a} /\ UNCHANGED <<target, count>> /\ Server
    /\ forward' = IF a.op = "forward" THEN [forward EXCEPT !.groups = {}, !.loading = FALSE]
                  ELSE forward

-----------------------------------------------------------------------------

DialogNext ==
    \/ \E lines \in SUBSET DialogLines : OpenRows(lines)
    \/ Cancel \/ Post
    \/ \E c \in SUBSET DialogLines : ServePost(c) \/ RefusePost(c) \/ ServeStray(c)
    \/ \E i \in DialogLines : DecideElsewhere(i)
    \/ \E g \in DialogGroups : AskGroup(g)
    \/ \E gs \in SUBSET DialogGroups : OpenForward(gs)
    \/ CloseForward \/ Confirm
    \/ \E a \in Questions : AnswerDialog(a) \/ FailDialog(a)

\* Every load is answered or fails, every call too: the network and the server
DialogFairness ==
    /\ WF_dialogVars(\E a \in Questions : AnswerDialog(a) \/ FailDialog(a))
    /\ WF_dialogVars(\E c \in SUBSET DialogLines : ServePost(c) \/ RefusePost(c))
    /\ WF_dialogVars(\E c \in SUBSET DialogLines : ServeStray(c))

DialogSpec == DialogInit /\ [][DialogNext]_dialogVars /\ DialogFairness

-----------------------------------------------------------------------------
(* Properties *)

\* When the page tells of no refusal, every line of the decision was decided:
\* none is left out of the calls, whatever mix of stages and positions was
\* ticked.
SuccessMeansAll ==
    [][posted # {} /\ posted' = {} /\ ~refused' => posted \cap waiting' = {}]_dialogVars

\* The dialog that hands groups on does not stay loading: also when its load
\* fails, or when it is closed and opened for other groups meanwhile.
LoadingEnds == forward.loading ~> ~forward.loading

-----------------------------------------------------------------------------
(* Not kept by the code, and checked by no run: added to Tables.cfg it is   *)
(* refuted by a load that ends in the dialog opened after it.               *)

\* "Check the details before sending": the groups that are handed on are those
\* whose lines are shown.
HandsOnWhatItShows ==
    [][Confirm => \A i \in forward.lines : GroupOf[i] \in forward.groups]_dialogVars

=============================================================================
