--------------------------- MODULE BudgetWorkflow ---------------------------
(***************************************************************************)
(* The approval workflow of budget requests: the handlers of               *)
(* request_service.py, budget_item_service.py and approval_service.py that *)
(* change a request, a line (req_item) or a CFO position, for one CFO and  *)
(* one budget year.                                                        *)
(*                                                                         *)
(* One action is one endpoint, taken as atomic: it checks and writes in one *)
(* step.  HandlerRaces opens the handlers that check before they lock.     *)
(* Sums, comments, chat and notifications are abstracted away.  The audit  *)
(* logs (req_logs, cfo_position_logs) are the only place where much of the *)
(* state lives: every question the code asks of a log is a variable here,  *)
(* updated by each action that writes a row the question reads.            *)
(*                                                                         *)
(* "approved" stands for approved and approved_with_changes.  The statuses *)
(* "cancelled" of a request and "waiting" of a position are never written  *)
(* by the code in this commit (cancel always answers 409).                 *)
(***************************************************************************)
EXTENDS Naturals, FiniteSets

CONSTANTS
    Requests,   \* the requests of the modules of the CFO (one per module)
    Items,      \* the lines that may ever be created
    Positions,  \* the CFO positions, one per article
    ReqOf,      \* the request a line belongs to
    PosOf,      \* the position of the article of a line
    Steps,      \* the steps of the approval route
    Edges,      \* <<child, parent>> pairs of the route graph
    Role,       \* the role of the assignee; "cfo" is the responsible of the CFO
    Leaf,       \* the step of the CFO
    Econ,       \* the step of the economist of the CFO
    NoStep      \* current_step_id = NULL

ASSUME RouteAssumption ==
    /\ ReqOf \in [Items -> Requests]
    /\ PosOf \in [Items -> Positions]
    /\ Edges \subseteq Steps \X Steps
    /\ Role \in [Steps -> {"cfo", "economist", "approver", "zgd"}]
    /\ Leaf \in Steps /\ Role[Leaf] = "cfo"
    /\ Econ \in Steps /\ Role[Econ] = "economist"
    /\ NoStep \notin Steps

VARIABLES
    reqStatus,     \* requests.status
    reviewDone,    \* requests whose latest CFO cycle was completed
    handoff,       \* the latest hand-over between CFO and module, per request
    pack,          \* the line ids named by that hand-over
    itemStatus,    \* req_items.status
    linked,        \* lines with a cfo_position_id
    frozen,        \* req_items.frozen
    fixed,         \* req_items.fixed
    cfoDecision,   \* the latest cfo_item_decided of a line
    sinceHandoff,  \* lines decided after the latest hand-over of their request
    sinceOwn,      \* lines decided after the latest hand-over that names them
    sinceReturn,   \* lines decided after the latest return of their position
    econDecision,  \* the latest economist_item_decided of a line
    econFresh,     \* lines the economist decided after the latest return
    posStatus,     \* cfo_positions.status
    posStep,       \* cfo_positions.current_step_id
    lastReturn,    \* the lines named by the latest position_returned
    approvedAt     \* lines approved at a reviewer step since its last reset

reqVars  == <<reqStatus, reviewDone, handoff, pack>>
flagVars == <<linked, frozen, fixed>>
cfoVars  == <<cfoDecision, sinceHandoff, sinceOwn, sinceReturn>>
econVars == <<econDecision, econFresh>>
posVars  == <<posStatus, posStep, lastReturn, approvedAt>>
vars     == <<reqVars, itemStatus, flagVars, cfoVars, econVars, posVars>>

RequestStatus == {"absent", "draft", "on_review", "approved", "rejected"}
ItemStatus    == {"absent", "on_review", "approved", "rejected", "deleted"}
Decisions     == {"approved", "rejected", "on_revision"}
PosStatus     == {"absent", "on_review", "on_approval", "approved", "on_revision"}
Reviewers     == {s \in Steps : Role[s] \in {"approver", "zgd"}}

TypeOK ==
    /\ reqStatus \in [Requests -> RequestStatus]
    /\ reviewDone \subseteq Requests
    /\ handoff \in [Requests -> {"none", "returned", "resubmitted"}]
    /\ pack \in [Requests -> SUBSET Items]
    /\ itemStatus \in [Items -> ItemStatus]
    /\ linked \subseteq Items /\ frozen \subseteq Items /\ fixed \subseteq Items
    /\ cfoDecision \in [Items -> Decisions \cup {"none"}]
    /\ sinceHandoff \subseteq Items /\ sinceOwn \subseteq Items
    /\ sinceReturn \subseteq Items
    /\ econDecision \in [Items -> Decisions \cup {"none"}]
    /\ econFresh \subseteq Items
    /\ posStatus \in [Positions -> PosStatus]
    /\ posStep \in [Positions -> Steps \cup {NoStep}]
    /\ lastReturn \in [Positions -> SUBSET Items]
    /\ approvedAt \in [Positions -> [Reviewers -> SUBSET Items]]

-----------------------------------------------------------------------------
(* What the handlers read *)

Parents(s)  == {t \in Steps : <<s, t>> \in Edges}
Children(s) == {t \in Steps : <<t, s>> \in Edges}
NextSteps(s) == IF Cardinality(Parents(s)) = 1 THEN Parents(s) ELSE {}
AtReviewer(p) == posStep[p] \in Reviewers

Active(i)  == itemStatus[i] \notin {"absent", "deleted"}
ItemsOf(r) == {i \in Items : ReqOf[i] = r /\ Active(i)}
LinesOf(p) == {i \in linked : PosOf[i] = p /\ Active(i)}
OpenLines(p) == LinesOf(p) \ fixed

AllFrozen(p) == LinesOf(p) # {} /\ LinesOf(p) \subseteq frozen
AllFixed(p)  == LinesOf(p) # {} /\ LinesOf(p) \subseteq fixed

\* Lines currently handed back to the author of the module
Returned(r) == IF handoff[r] = "returned" THEN pack[r] ELSE {}

\* A repeated CFO cycle admits only the lines of the resubmitted package
InCycle(i) == handoff[ReqOf[i]] = "resubmitted" => i \in pack[ReqOf[i]]

\* Saved revision choices of the CFO that have not been sent to the module
PendingRevision(r) ==
    {i \in sinceHandoff : ReqOf[i] = r /\ cfoDecision[i] = "on_revision"}
UnsentRevision(r) ==
    {i \in sinceOwn : ReqOf[i] = r /\ cfoDecision[i] = "on_revision"}

AtLeafRevision(p) == posStatus[p] = "on_revision" /\ posStep[p] = Leaf

\* The line came back from above to the CFO and not yet to the module
CfoRevision(i) ==
    /\ i \in linked
    /\ AtLeafRevision(PosOf[i])
    /\ i \in lastReturn[PosOf[i]]
    /\ i \notin Returned(ReqOf[i])

CfoStageOpen(i) ==
    /\ i \in linked
    /\ posStatus[PosOf[i]] \in {"on_review", "on_revision"}
    /\ posStep[PosOf[i]] = Leaf

\* Mutant: a return does not invalidate the decisions of the economist
KeepDecisions(p) == {i \in Items : econDecision[i] # "none"}

\* The economist's decisions that a later return has not invalidated
EconomistDecided(p) ==
    {i \in Items : /\ econDecision[i] # "none"
                   /\ i \in lastReturn[p] => i \in econFresh}

\* Freezing towards step s and returning to step s void the approvals of step s
ClearedApprovals(p, s) ==
    [approvedAt EXCEPT ![p] = [t \in Reviewers |-> IF t = s THEN {} ELSE @[t]]]

\* Lines that still need the decision of the assignee of the current step
PendingDecisions(p, lines) ==
    IF posStep[p] = Econ THEN lines \ EconomistDecided(p)
    ELSE IF AtReviewer(p)
    THEN LET required == IF lastReturn[p] # {} THEN lastReturn[p] ELSE lines
         IN  ((lines \cap required) \ fixed) \ approvedAt[p][posStep[p]]
    ELSE {}

-----------------------------------------------------------------------------
(* Module: drafting a request and handing it to the CFO *)

Init ==
    /\ reqStatus = [r \in Requests |-> "absent"]
    /\ reviewDone = {}
    /\ handoff = [r \in Requests |-> "none"]
    /\ pack = [r \in Requests |-> {}]
    /\ itemStatus = [i \in Items |-> "absent"]
    /\ linked = {} /\ frozen = {} /\ fixed = {}
    /\ cfoDecision = [i \in Items |-> "none"]
    /\ sinceHandoff = {} /\ sinceOwn = {} /\ sinceReturn = {}
    /\ econDecision = [i \in Items |-> "none"]
    /\ econFresh = {}
    /\ posStatus = [p \in Positions |-> "absent"]
    /\ posStep = [p \in Positions |-> NoStep]
    /\ lastReturn = [p \in Positions |-> {}]
    /\ approvedAt = [p \in Positions |-> [s \in Reviewers |-> {}]]

CreateRequest(r) ==
    /\ reqStatus[r] = "absent"
    /\ reqStatus' = [reqStatus EXCEPT ![r] = "draft"]
    /\ UNCHANGED <<reviewDone, handoff, pack, itemStatus, flagVars, cfoVars,
                   econVars, posVars>>

\* The rows of the lines go with the request (ON DELETE CASCADE)
DeleteRequest(r) ==
    /\ reqStatus[r] = "draft"
    /\ reqStatus' = [reqStatus EXCEPT ![r] = "absent"]
    /\ itemStatus' = [i \in Items |-> IF ReqOf[i] = r THEN "absent" ELSE itemStatus[i]]
    /\ UNCHANGED <<reviewDone, handoff, pack, flagVars, cfoVars, econVars, posVars>>

CanCreateItem(i) == itemStatus[i] = "absent" /\ reqStatus[ReqOf[i]] = "draft"

InsertItem(i) ==
    /\ itemStatus' = [itemStatus EXCEPT ![i] = "on_review"]
    /\ UNCHANGED <<reqVars, flagVars, cfoVars, econVars, posVars>>

CreateItem(i) == CanCreateItem(i) /\ InsertItem(i)

CanDeleteItem(i) ==
    /\ Active(i)
    /\ \/ reqStatus[ReqOf[i]] = "draft"
       \/ /\ reqStatus[ReqOf[i]] = "on_review"
          /\ i \in Returned(ReqOf[i])
          /\ i \notin frozen \cup fixed

\* A soft delete; the link to the position stays and nothing is recomputed
MarkDeleted(i) ==
    /\ itemStatus' = [itemStatus EXCEPT ![i] = "deleted"]
    /\ UNCHANGED <<reqVars, flagVars, cfoVars, econVars, posVars>>

DeleteItem(i) == CanDeleteItem(i) /\ MarkDeleted(i)

IsRevision(r) == reqStatus[r] = "on_review" /\ Returned(r) # {}

SubmittedLines(r) ==
    IF IsRevision(r) THEN ItemsOf(r) \cap Returned(r) ELSE ItemsOf(r)

\* A position takes a line only at the foot of the route, with nothing closed
AcceptsLines(p) ==
    /\ LinesOf(p) \cap (frozen \cup fixed) = {}
    /\ posStep[p] \in {NoStep, Leaf}

CanSubmit(r) ==
    /\ ItemsOf(r) # {}
    /\ reqStatus[r] = "draft" \/ IsRevision(r)
    /\ \A i \in SubmittedLines(r) :
          i \notin frozen \cup fixed /\ AcceptsLines(PosOf[i])

\* The lines sent go to the CFO; again: they come back from a revision
HandToCfo(r, sent, again) ==
    LET affected == {PosOf[i] : i \in sent}
    IN  /\ linked' = linked \cup sent
        /\ posStatus' = [p \in Positions |->
                           IF p \in affected THEN "on_review" ELSE posStatus[p]]
        /\ posStep' = [p \in Positions |-> IF p \in affected THEN Leaf ELSE posStep[p]]
        /\ reqStatus' = [reqStatus EXCEPT ![r] = "on_review"]
        /\ handoff' = IF again THEN [handoff EXCEPT ![r] = "resubmitted"] ELSE handoff
        /\ reviewDone' = IF again THEN reviewDone \ {r} ELSE reviewDone
        /\ sinceHandoff' = IF again THEN {i \in sinceHandoff : ReqOf[i] # r}
                                    ELSE sinceHandoff
        /\ sinceOwn' = IF again THEN sinceOwn \ pack[r] ELSE sinceOwn
        /\ UNCHANGED <<pack, itemStatus, frozen, fixed, cfoDecision, sinceReturn,
                       econVars, lastReturn, approvedAt>>

Submit(r) == CanSubmit(r) /\ HandToCfo(r, SubmittedLines(r), IsRevision(r))

-----------------------------------------------------------------------------
(* CFO: deciding lines, returning them to the module, completing the review *)

\* Mutant: the CFO may decide a line that is closed above
DecideClosed(i) ==
    LET r == ReqOf[i]
    IN  /\ reqStatus[r] = "on_review"
        /\ r \in reviewDone => CfoRevision(i) \/ CfoStageOpen(i)
        /\ InCycle(i) \/ cfoDecision[i] # "none"
        /\ Returned(r) = {}
        /\ Active(i)

CanDecideCfo(i) ==
    LET r == ReqOf[i]
    IN  /\ reqStatus[r] = "on_review"
        /\ r \in reviewDone => CfoRevision(i) \/ CfoStageOpen(i)
        /\ InCycle(i) \/ cfoDecision[i] # "none"
        /\ Returned(r) = {}
        /\ Active(i)
        /\ i \notin frozen \cup fixed

\* The line keeps on_review unless rejected: accepting is the economist's word
RecordCfoDecision(i, d) ==
    /\ itemStatus' = [itemStatus EXCEPT ![i] = IF d = "rejected" THEN d ELSE "on_review"]
    /\ cfoDecision' = [cfoDecision EXCEPT ![i] = d]
    /\ sinceHandoff' = sinceHandoff \cup {i}
    /\ sinceOwn' = sinceOwn \cup {i}
    /\ sinceReturn' = sinceReturn \cup {i}
    /\ UNCHANGED <<reqVars, flagVars, econVars, posVars>>

DecideCfo(i, d) == CanDecideCfo(i) /\ RecordCfoDecision(i, d)

\* The rows of the register the CFO may select for a return to the module
Revisable(i) ==
    LET r == ReqOf[i]
    IN  /\ Active(i)
        /\ i \notin frozen \cup fixed
        /\ \/ r \notin reviewDone /\ InCycle(i)
           \/ CfoRevision(i) /\ i \notin sinceReturn
           \/ i \in PendingRevision(r)
           \/ CfoStageOpen(i) /\ cfoDecision[i] # "none"

\* One revision package: the lines S of request r go back to the module.
\* Every line returned to the CFO from above must have a fresh decision.
CfoRevisionFromRegister(r, S) ==
    LET decided  == sinceReturn \cup S
        affected == {PosOf[i] : i \in S \cap linked}
    IN  /\ S # {}
        /\ reqStatus[r] = "on_review"
        /\ Returned(r) = {}
        /\ \A i \in S : /\ Revisable(i)
                        /\ r \in reviewDone => i \in linked /\ AtLeafRevision(PosOf[i])
        /\ \A i \in ItemsOf(r) \cap linked :
              AtLeafRevision(PosOf[i]) =>
                 lastReturn[PosOf[i]] \cap ItemsOf(r) \subseteq decided
        /\ itemStatus' = [i \in Items |-> IF i \in S THEN "on_review" ELSE itemStatus[i]]
        /\ cfoDecision' = [i \in Items |-> IF i \in S THEN "on_revision" ELSE cfoDecision[i]]
        /\ posStatus' = [p \in Positions |->
                           IF p \in affected THEN "on_revision" ELSE posStatus[p]]
        /\ handoff' = [handoff EXCEPT ![r] = "returned"]
        /\ pack' = [pack EXCEPT ![r] = S]
        /\ reviewDone' = reviewDone \ {r}
        /\ sinceHandoff' = {i \in sinceHandoff : ReqOf[i] # r}
        /\ sinceOwn' = sinceOwn \ S
        /\ sinceReturn' = decided
        /\ UNCHANGED <<reqStatus, flagVars, econVars, posStep, lastReturn, approvedAt>>

CompleteCfoReview(r) ==
    LET lines    == ItemsOf(r)
        accepted == {i \in lines : cfoDecision[i] = "approved"}
    IN  /\ reqStatus[r] = "on_review"
        /\ r \notin reviewDone
        /\ Returned(r) = {}
        /\ lines # {}
        /\ \A i \in lines : cfoDecision[i] # "none"
        /\ PendingRevision(r) = {}
        /\ lines \cap linked # {}
        /\ reqStatus' = [reqStatus EXCEPT
                           ![r] = IF accepted = {} THEN "rejected" ELSE "on_review"]
        /\ reviewDone' = reviewDone \cup {r}
        /\ UNCHANGED <<handoff, pack, itemStatus, flagVars, cfoVars, econVars, posVars>>

\* Mutant: only the lines' own requests are looked at, not the other modules
OwnModulesReviewed(p) ==
    /\ ~AllFixed(p)
    /\ \E i \in LinesOf(p) : itemStatus[i] # "rejected" /\ ReqOf[i] \in reviewDone
    /\ posStatus[p] \in {"on_review", "on_revision"}

\* Looks at the status of the position and at every request of the CFO, not at
\* the step the position is at
CanSubmitToEconomist(p) ==
    /\ ~AllFixed(p)
    /\ \E i \in LinesOf(p) : itemStatus[i] # "rejected"
    /\ posStatus[p] \in {"on_review", "on_revision"}
    /\ \A i \in LinesOf(p) : UnsentRevision(ReqOf[i]) = {}
    /\ \A r \in Requests : /\ reqStatus[r] # "draft"
                           /\ reqStatus[r] = "on_review" => r \in reviewDone

\* Mutant: the economist gets the position in a status of its own
HandWaiting(p) ==
    /\ posStatus' = [posStatus EXCEPT ![p] = "waiting"]
    /\ posStep' = [posStep EXCEPT ![p] = Econ]
    /\ UNCHANGED <<reqVars, itemStatus, flagVars, cfoVars, econVars, lastReturn,
                   approvedAt>>

HandToEconomist(p) ==
    /\ posStatus' = [posStatus EXCEPT ![p] = "on_approval"]
    /\ posStep' = [posStep EXCEPT ![p] = Econ]
    /\ UNCHANGED <<reqVars, itemStatus, flagVars, cfoVars, econVars, lastReturn,
                   approvedAt>>

SubmitToEconomist(p) == CanSubmitToEconomist(p) /\ HandToEconomist(p)

-----------------------------------------------------------------------------
(* Economist *)

\* Any line ever linked to the position, a deleted one included
CanDecideEconomist(i) ==
    /\ i \in linked
    /\ posStep[PosOf[i]] = Econ
    /\ i \notin frozen \cup fixed

DecideItemEconomist(i, d) ==
    /\ CanDecideEconomist(i)
    /\ itemStatus' = [itemStatus EXCEPT ![i] = IF d = "on_revision" THEN "on_review" ELSE d]
    /\ econDecision' = [econDecision EXCEPT ![i] = d]
    /\ econFresh' = econFresh \cup {i}
    /\ UNCHANGED <<reqVars, flagVars, cfoVars, posVars>>

CanCompleteReview(p) ==
    /\ posStep[p] = Econ
    /\ \E i \in LinesOf(p) : itemStatus[i] # "rejected"
    /\ LinesOf(p) \subseteq EconomistDecided(p)
    /\ \A i \in LinesOf(p) : econDecision[i] # "on_revision"

CompleteEconomistReview(p) ==
    /\ CanCompleteReview(p)
    /\ posStatus' = [posStatus EXCEPT ![p] = "approved"]
    /\ UNCHANGED <<reqVars, itemStatus, flagVars, cfoVars, econVars, posStep,
                   lastReturn, approvedAt>>

\* Mutant: freezing any line sends the position up
FreezeAny(p, S) ==
    /\ posStep[p] = Econ
    /\ posStatus[p] = "approved"
    /\ S # {} /\ S \subseteq OpenLines(p)
    /\ \E next \in NextSteps(Econ) :
         /\ posStep' = [posStep EXCEPT ![p] = next]
         /\ approvedAt' = ClearedApprovals(p, next)
    /\ frozen' = frozen \cup S
    /\ posStatus' = [posStatus EXCEPT ![p] = "on_approval"]
    /\ UNCHANGED <<reqVars, itemStatus, linked, fixed, cfoVars, econVars, lastReturn>>

CanFreeze(p, S) ==
    /\ posStep[p] = Econ
    /\ posStatus[p] = "approved"
    /\ S # {} /\ S \subseteq OpenLines(p)
    /\ NextSteps(Econ) # {}

\* Freezing the last open line sends the position up as one package
FreezePosition(p, S) ==
    /\ CanFreeze(p, S)
    /\ \E next \in NextSteps(Econ) :
         /\ frozen' = frozen \cup S
         /\ IF LinesOf(p) \subseteq frozen'
            THEN /\ posStatus' = [posStatus EXCEPT ![p] = "on_approval"]
                 /\ posStep' = [posStep EXCEPT ![p] = next]
                 /\ approvedAt' = ClearedApprovals(p, next)
            ELSE UNCHANGED <<posStatus, posStep, approvedAt>>
    /\ UNCHANGED <<reqVars, itemStatus, linked, fixed, cfoVars, econVars, lastReturn>>

CanUnfreeze(p, S) ==
    /\ posStep[p] = Econ
    /\ S \subseteq OpenLines(p)
    /\ S = {} => OpenLines(p) \cap frozen = {}

UnfreezePosition(p, S) ==
    /\ CanUnfreeze(p, S)
    /\ frozen' = frozen \ S
    /\ posStatus' = [posStatus EXCEPT ![p] = "on_approval"]
    /\ UNCHANGED <<reqVars, itemStatus, linked, fixed, cfoVars, econVars, posStep,
                   lastReturn, approvedAt>>

-----------------------------------------------------------------------------
(* Reviewers and ZGD *)

CanApprove(p, S) ==
    /\ AtReviewer(p)
    /\ S # {} /\ S \subseteq OpenLines(p)
    /\ \A i \in S \ frozen : posStatus[p] = "on_revision" /\ i \in lastReturn[p]

\* A line decision; the position moves only by ForwardAtStep
ApproveItemsAtStep(p, S) ==
    /\ CanApprove(p, S)
    /\ frozen' = frozen \cup S
    /\ approvedAt' = [approvedAt EXCEPT ![p][posStep[p]] = @ \cup S]
    /\ UNCHANGED <<reqVars, itemStatus, linked, fixed, cfoVars, econVars, posStatus,
                   posStep, lastReturn>>

CanForward(p) ==
    /\ AtReviewer(p) /\ Role[posStep[p]] = "approver"
    /\ AllFrozen(p)
    /\ NextSteps(posStep[p]) # {}

ForwardAtStep(p) ==
    /\ CanForward(p)
    /\ \E next \in NextSteps(posStep[p]) :
          posStep' = [posStep EXCEPT ![p] = next]
    /\ posStatus' = [posStatus EXCEPT ![p] = "on_approval"]
    /\ UNCHANGED <<reqVars, itemStatus, flagVars, cfoVars, econVars, lastReturn,
                   approvedAt>>

\* The status a request gets from its lines and their positions
DerivedStatus(r, nowFixed, nowPosStatus) ==
    LET lines == ItemsOf(r)
    IN  IF lines # {} /\ \A i \in lines : itemStatus[i] = "rejected" THEN "rejected"
        ELSE IF /\ lines # {}
                /\ \A i \in lines : itemStatus[i] = "approved" /\ i \in nowFixed
                /\ \A i \in linked : ReqOf[i] = r => nowPosStatus[PosOf[i]] # "on_revision"
        THEN "approved"
        ELSE "on_review"

\* reqStatus after _sync_request_statuses of the requests R
SyncedStatus(R, nowFixed, nowPosStatus) ==
    [r \in Requests |->
        IF r \in R /\ reqStatus[r] # "draft"
        THEN DerivedStatus(r, nowFixed, nowPosStatus) ELSE reqStatus[r]]

\* Mutant: only the lines of the latest return are fixed
FixReturned(p) ==
    LET lines == IF lastReturn[p] = {} THEN OpenLines(p)
                 ELSE OpenLines(p) \cap lastReturn[p]
    IN  /\ AtReviewer(p) /\ Role[posStep[p]] = "zgd" /\ Parents(posStep[p]) = {}
        /\ lines # {}
        /\ PendingDecisions(p, lines) = {}
        /\ fixed' = fixed \cup lines
        /\ frozen' = frozen \cup lines
        /\ posStatus' = [posStatus EXCEPT ![p] = "approved"]
        /\ posStep' = [posStep EXCEPT ![p] = NoStep]
        /\ reqStatus' = SyncedStatus({ReqOf[i] : i \in lines}, fixed', posStatus')
        /\ UNCHANGED <<reviewDone, handoff, pack, itemStatus, linked, cfoVars,
                       econVars, lastReturn, approvedAt>>

CanFix(p) ==
    /\ AtReviewer(p) /\ Role[posStep[p]] = "zgd" /\ Parents(posStep[p]) = {}
    /\ OpenLines(p) # {}
    /\ PendingDecisions(p, OpenLines(p)) = {}

FixPosition(p) ==
    LET lines == OpenLines(p)
    IN  /\ CanFix(p)
        /\ fixed' = fixed \cup lines
        /\ frozen' = frozen \cup lines
        /\ posStatus' = [posStatus EXCEPT ![p] = "approved"]
        /\ posStep' = [posStep EXCEPT ![p] = NoStep]
        /\ reqStatus' = SyncedStatus({ReqOf[i] : i \in lines}, fixed', posStatus')
        /\ UNCHANGED <<reviewDone, handoff, pack, itemStatus, linked, cfoVars,
                       econVars, lastReturn, approvedAt>>

\* Back to the ZGD step the position was fixed at
UnfixPosition(p) ==
    LET lines == LinesOf(p)
    IN  /\ AllFixed(p)
        /\ fixed' = fixed \ lines
        /\ frozen' = frozen \cup lines
        /\ posStatus' = [posStatus EXCEPT ![p] = "on_approval"]
        /\ \E s \in Reviewers :
             /\ Role[s] = "zgd" /\ Parents(s) = {}
             /\ posStep' = [posStep EXCEPT ![p] = s]
        /\ reqStatus' = SyncedStatus({ReqOf[i] : i \in lines}, fixed', posStatus')
        /\ UNCHANGED <<reviewDone, handoff, pack, itemStatus, linked, cfoVars,
                       econVars, lastReturn, approvedAt>>

-----------------------------------------------------------------------------
(* Returning lines one step down, from the economist, a reviewer or the ZGD *)

\* Only the economist must have decided every line first: for a reviewer who
\* names the lines, and for the ZGD, the return is the decision.
CanReturn(p, S, target) ==
    /\ posStep[p] = Econ \/ AtReviewer(p)
    /\ target \in Children(posStep[p])
    /\ posStep[p] = Econ => PendingDecisions(p, LinesOf(p)) = {}
    /\ S # {} /\ S \subseteq OpenLines(p)

\* The economist may correct the sum of the lines T, which approves them
ReturnPosition(p, S, T, target) ==
    /\ CanReturn(p, S, target)
    /\ T \subseteq S /\ (T # {} => posStep[p] = Econ)
    /\ frozen' = frozen \ S
    /\ itemStatus' = [i \in Items |-> IF i \in T THEN "approved" ELSE itemStatus[i]]
    /\ posStatus' = [posStatus EXCEPT ![p] = "on_revision"]
    /\ posStep' = [posStep EXCEPT ![p] = target]
    /\ lastReturn' = [lastReturn EXCEPT ![p] = S]
    /\ approvedAt' = ClearedApprovals(p, target)
    /\ econFresh' = {i \in econFresh : PosOf[i] # p}
    /\ sinceReturn' = {i \in sinceReturn : PosOf[i] # p}
    /\ UNCHANGED <<reqVars, linked, fixed, cfoDecision, sinceHandoff, sinceOwn,
                   econDecision>>

-----------------------------------------------------------------------------

ModuleStep ==
    \/ \E r \in Requests : CreateRequest(r) \/ DeleteRequest(r) \/ Submit(r)
    \/ \E i \in Items : CreateItem(i) \/ DeleteItem(i)

CfoStep ==
    \/ \E i \in Items, d \in Decisions : DecideCfo(i, d)
    \/ \E r \in Requests : CompleteCfoReview(r)
    \/ \E p \in Positions : SubmitToEconomist(p)

EconomistStep ==
    \/ \E i \in Items, d \in Decisions : DecideItemEconomist(i, d)
    \/ \E p \in Positions : CompleteEconomistReview(p)
    \/ \E p \in Positions, S \in SUBSET Items : FreezePosition(p, S)

ReviewerStep ==
    \/ \E p \in Positions, S \in SUBSET Items : ApproveItemsAtStep(p, S)
    \/ \E p \in Positions : ForwardAtStep(p) \/ FixPosition(p)

\* The commands that take work back
ReworkStep ==
    \/ \E r \in Requests : \E S \in SUBSET ItemsOf(r) : CfoRevisionFromRegister(r, S)
    \/ \E p \in Positions, S \in SUBSET Items : UnfreezePosition(p, S)
    \/ \E p \in Positions : UnfixPosition(p)
    \/ \E p \in Positions, target \in Steps :
          \E S \in SUBSET Items : \E T \in SUBSET S : ReturnPosition(p, S, T, target)

Next == ModuleStep \/ CfoStep \/ EconomistStep \/ ReviewerStep \/ ReworkStep

Spec == Init /\ [][Next]_vars

-----------------------------------------------------------------------------
(* Properties *)

\* A budget line is fixed only together with every line of its position, and
\* exactly while the position is off the route and approved (fix_position,
\* unfix_position, submit, delete_item).
FixationIsWhole ==
    /\ \A i \in fixed : /\ LinesOf(PosOf[i]) \subseteq fixed
                        /\ posStep[PosOf[i]] = NoStep
                        /\ posStatus[PosOf[i]] = "approved"
    /\ \A p \in Positions : posStatus[p] # "absent" /\ posStep[p] = NoStep
                              => AllFixed(p)

\* What a reviewer or the ZGD has in approval is frozen to the last line, no
\* matter how the position got there (freeze_position, approve_position_at_step).
AboveEconomistFrozen ==
    \A p \in Positions :
        AtReviewer(p) /\ posStatus[p] = "on_approval" => AllFrozen(p)

\* A position is frozen and fixed as a whole.
WholePositions == FixationIsWhole /\ AboveEconomistFrozen

\* A line that stays frozen keeps its status: no command of any role may
\* change or delete it (409 in every handler).
FrozenImmutable ==
    [][\A i \in frozen \cap frozen' : itemStatus'[i] = itemStatus[i]]_vars

\* Nobody skips a stage: a line at the economist or above has the decision of
\* the CFO, a frozen line the decision of the economist, although lines enter
\* positions, leave requests and are taken back in any order
\* (complete_cfo_review, complete_economist_review, freeze_position).
StagesDecided ==
    /\ \A p \in Positions : posStep[p] \notin {Leaf, NoStep} =>
          \A i \in LinesOf(p) : cfoDecision[i] # "none"
    /\ \A i \in frozen : econDecision[i] # "none"

\* p moves one step up the route
MovesUp(p) == posStep'[p] # posStep[p] /\ <<posStep[p], posStep'[p]>> \in Edges

\* After a return, the economist or the reviewer who received the lines sends
\* the position up only with a new decision on each of them ("after a return a
\* repeated decision on the returned lines is required").
ReturnedLinesRedecided ==
    [][\A p \in Positions : MovesUp(p) =>
          LET returned == lastReturn[p] \cap LinesOf(p)
          IN  /\ posStep[p] = Econ => returned \subseteq econFresh
              /\ AtReviewer(p) /\ posStatus[p] = "on_revision"
                    => returned \subseteq approvedAt[p][posStep[p]]]_vars

\* Where on the route a position is
Place(s) ==
    CASE s = NoStep -> "outside" [] s = Leaf -> "cfo" [] s = Econ -> "economist"
      [] OTHER -> "above"

places == [p \in Positions |-> Place(posStep[p])]

Lifecycle == INSTANCE PositionLifecycle WITH
    Status <- ItemStatus, status <- itemStatus, entered <- linked, place <- places

\* On a route where only the CFO hands on to the economist, whatever the handlers
\* of all roles do to requests, lines and positions is a step of the life of a
\* position: lines enter at the foot, the last frozen line takes it up, it is
\* fixed as a whole, and no line is written that is frozen.
LifecycleKept == Lifecycle!Spec

-----------------------------------------------------------------------------
(* What the documents and comments promise and the code does not keep.  No  *)
(* run checks these; added to TwoArticles.cfg with MaxRework = 3            *)
(* (FixedLinesApproved: to OneArticle.cfg, whose lines share a position)    *)
(* each of them is refuted, and the trace shows how it comes about.         *)

\* A line in the hands of the module can be sent back after it was corrected.
ReturnedCanResubmit ==
    \A r \in Requests : IsRevision(r) /\ SubmittedLines(r) # {} => CanSubmit(r)

\* The ZGD fixes only lines approved at the final step.
FixedLinesApproved ==
    [][\A i \in fixed' \ fixed :
          LET p == PosOf[i] IN AtReviewer(p) => i \in approvedAt[p][posStep[p]]]_vars

\* An approver forwards a position only when every line is decided.
ForwardedLinesDecided ==
    [][\A p \in Positions : MovesUp(p) /\ AtReviewer(p)
          => OpenLines(p) \ lastReturn[p] \subseteq approvedAt[p][posStep[p]]]_vars

\* The economist forwards a position only with all its lines decided, none of
\* them marked for revision.
EconomistForwardsDecided ==
    [][\A p \in Positions : MovesUp(p) /\ posStep[p] = Econ
          => \A i \in LinesOf(p) : econDecision[i] # "on_revision"]_vars

\* Lines returned to the CFO need a new CFO decision before the position may go
\* to the economist again.
ReturnedToCfoRedecided ==
    [][\A p \in Positions : MovesUp(p) /\ posStep[p] = Leaf
          => lastReturn[p] \cap LinesOf(p) \subseteq sinceReturn]_vars

\* The CFO decides a line only while its position is at the CFO.
CfoDecidesAtCfoStep ==
    [][\A i \in linked : cfoDecision'[i] # cfoDecision[i] => posStep[PosOf[i]] = Leaf]_vars

\* A rejected request has no line open for the economist.
RejectedStaysOffRoute ==
    \A r \in Requests : reqStatus[r] = "rejected" =>
        \A i \in ItemsOf(r) \cap linked :
            itemStatus[i] = "rejected" \/ posStep[PosOf[i]] # Econ

\* A position above the CFO takes no further lines.
NoLateLines ==
    [][\A p \in Positions : posStep[p] \notin {Leaf, NoStep} /\ posStep'[p] = posStep[p]
          => {i \in linked' : PosOf[i] = p /\ itemStatus'[i] \notin {"absent", "deleted"}}
             \subseteq LinesOf(p)]_vars

\* An approved request is final: each of its active lines is approved and fixed.
ApprovedIsFinal ==
    \A r \in Requests : reqStatus[r] = "approved" =>
        \A i \in ItemsOf(r) : i \in fixed /\ itemStatus[i] = "approved"

\* The CFO completes a repeated review only with a new decision on each line the
\* module resubmitted.
CompletedReviewRedecided ==
    [][\A r \in reviewDone' \ reviewDone : handoff[r] = "resubmitted" =>
          pack[r] \cap ItemsOf(r) \subseteq sinceHandoff]_vars

=============================================================================
