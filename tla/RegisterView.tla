---------------------------- MODULE RegisterView ----------------------------
(***************************************************************************)
(* What the approval register offers to whom.  The server derives the flags *)
(* of a row (_register_entries of request_service.py) from the state of     *)
(* BudgetWorkflow; the browser derives the status text, the buttons of a    *)
(* row and the buttons of a group from the flags (registryConfig.ts,        *)
(* ApprovalRegister.tsx).  The offers are then compared with what the       *)
(* handlers of BudgetWorkflow accept in the same state.                     *)
(*                                                                         *)
(* A user is the assignee of a step: the leaf stands for the responsible of *)
(* the CFO, Author for the employee of the modules.                         *)
(***************************************************************************)
EXTENDS BudgetWorkflow

CONSTANT Author

ASSUME AuthorAssumption == Author \notin Steps
ASSUME PositionsAssumption == IsFiniteSet(Positions)

Users == Steps \cup {Author}
RoleOfUser(u) == IF u \in {Author, Leaf} THEN "employee" ELSE Role[u]

-----------------------------------------------------------------------------
(* The flags of a row, by the server *)

RequestOpen(r) == reqStatus[r] \notin {"approved", "rejected"}
Closed(i) == i \in frozen \/ i \in fixed

\* Decisions of the current step that a return or a reset has voided are gone
DecidedAt(u, p) == IF u = Econ THEN EconomistDecided(p) ELSE approvedAt[p][u]

\* The current step is the user's and it is not that of the CFO
OwnsStep(u, p) == posStep[p] = u /\ u \notin {Leaf, Author}

\* Once lines were returned to a reviewer only they are reviewed again
ReturnScope(i) == LET back == lastReturn[PosOf[i]] IN back = {} \/ i \in back

IsApprovalActionable(u, i) ==
    LET p == PosOf[i]
    IN  /\ OwnsStep(u, p) /\ i \in linked \ fixed
        /\ i \notin DecidedAt(u, p)
        /\ IF u = Econ THEN i \notin frozen
           ELSE ReturnScope(i) /\ i \in frozen \cup lastReturn[p]

IsPositionEditable(u, i) ==
    LET p == PosOf[i]
    IN  /\ OwnsStep(u, p) /\ i \in linked \ fixed
        /\ i \in DecidedAt(u, p)
        /\ IF u = Econ THEN i \notin frozen ELSE ReturnScope(i) /\ i \in frozen

\* Mutant: a completed review counts as open
ReviewStillOpen(i) ==
    reqStatus[ReqOf[i]] = "on_review" /\ Returned(ReqOf[i]) = {}

IsCfoReview(i) ==
    LET r == ReqOf[i]
    IN  reqStatus[r] = "on_review" /\ r \notin reviewDone /\ Returned(r) = {}

\* Resubmitted by the module after the latest decision of the CFO
IsReopened(i) ==
    /\ handoff[ReqOf[i]] = "resubmitted" /\ i \in pack[ReqOf[i]]
    /\ cfoDecision[i] # "none" /\ i \notin sinceHandoff

IsCfoRevisionActionable(u, i) ==
    /\ u = Leaf /\ RequestOpen(ReqOf[i])
    /\ CfoRevision(i) /\ i \notin sinceReturn /\ ~Closed(i)

IsCfoActionable(u, i) ==
    /\ u = Leaf /\ ~Closed(i)
    /\ \/ /\ IsCfoReview(i) /\ InCycle(i)
          /\ cfoDecision[i] = "none" \/ IsReopened(i)
       \/ IsCfoRevisionActionable(u, i)

IsCfoEditable(u, i) ==
    LET r == ReqOf[i]
    IN  /\ u = Leaf /\ RequestOpen(r) /\ ~Closed(i)
        /\ CfoStageOpen(i) /\ Returned(r) = {}
        /\ cfoDecision[i] # "none"

IsDecisionEditable(u, i) == IsCfoEditable(u, i) \/ IsPositionEditable(u, i)

\* decision_editable_stage
EditableStage(u, i) ==
    IF IsCfoEditable(u, i) THEN "cfo_review"
    ELSE IF ~IsPositionEditable(u, i) THEN "none"
    ELSE IF u = Econ THEN "economist" ELSE "approver"

IsModuleRevision(i) == RequestOpen(ReqOf[i]) /\ i \in Returned(ReqOf[i])
\* is_cfo_revision: of the latest return, to whichever step it went
IsCfoRevision(i) ==
    /\ i \in linked /\ RequestOpen(ReqOf[i])
    /\ posStatus[PosOf[i]] = "on_revision" /\ i \in lastReturn[PosOf[i]]
RowOnRevision(i) == IsModuleRevision(i) \/ IsCfoRevision(i)
IsRevisionPending(i) ==
    RequestOpen(ReqOf[i]) /\ i \in PendingRevision(ReqOf[i])
IsRevisionMarked(i) ==
    /\ i \in linked /\ RequestOpen(ReqOf[i])
    /\ i \in EconomistDecided(PosOf[i]) /\ econDecision[i] = "on_revision"

\* All lines of the position are decided; a saved revision choice is a decision
CanSubmitPosition(u, p) ==
    /\ u = Leaf /\ posStep[p] = Leaf
    /\ posStatus[p] \in {"on_review", "on_revision"}
    /\ \E i \in LinesOf(p) : itemStatus[i] # "rejected"
    /\ OpenLines(p) # {}
    /\ \A i \in LinesOf(p) : /\ i \notin Returned(ReqOf[i])
                             /\ i \in fixed \/ cfoDecision[i] # "none"
    /\ AtLeafRevision(p) => lastReturn[p] \subseteq sinceReturn

CanCompleteEconomist(u, p) ==
    /\ u = Econ /\ posStep[p] = Econ
    /\ \E i \in LinesOf(p) : itemStatus[i] # "rejected"
    /\ \A i \in LinesOf(p) : i \in EconomistDecided(p) /\ itemStatus[i] # "on_review"

CanSubmitReviewed(u, p) ==
    LET required == IF lastReturn[p] = {} THEN OpenLines(p) ELSE lastReturn[p]
    IN  /\ OwnsStep(u, p) /\ Role[u] = "approver"
        /\ OpenLines(p) # {} /\ OpenLines(p) \subseteq frozen
        /\ required \subseteq approvedAt[p][u]

CanReturnMarked(u, p) ==
    /\ u = Econ /\ posStep[p] = Econ /\ OpenLines(p) # {}
    /\ OpenLines(p) \subseteq EconomistDecided(p)
    /\ \E i \in OpenLines(p) : econDecision[i] = "on_revision"

CanReturnReviewed(u, p) == OwnsStep(u, p) /\ u \in Reviewers /\ OpenLines(p) # {}

IsPackage(i) == i \in linked \ fixed
NothingMarked(i) == PendingRevision(ReqOf[i]) = {}

IsSubmission(u, i) ==
    /\ CanSubmitPosition(u, PosOf[i]) /\ IsPackage(i)
    /\ NothingMarked(i) /\ i \notin Returned(ReqOf[i])
IsWorkflowSubmission(u, i) ==
    /\ LET p == PosOf[i]
       IN  \/ CanSubmitPosition(u, p) \/ CanSubmitReviewed(u, p)
           \/ CanCompleteEconomist(u, p) /\ OpenLines(p) # {}
    /\ IsPackage(i) /\ NothingMarked(i) /\ RequestOpen(ReqOf[i])
IsWorkflowRevision(u, i) ==
    CanReturnMarked(u, PosOf[i]) /\ IsPackage(i) /\ RequestOpen(ReqOf[i])
IsWorkflowReturn(u, i) ==
    CanReturnReviewed(u, PosOf[i]) /\ IsPackage(i) /\ RequestOpen(ReqOf[i])
IsEconomistCompletion(u, i) == CanCompleteEconomist(u, PosOf[i]) /\ IsPackage(i)

IsZgdLock(u, i) ==
    LET p == PosOf[i]
    IN  /\ OwnsStep(u, p) /\ Role[u] = "zgd" /\ IsPackage(i)
        /\ OpenLines(p) \subseteq approvedAt[p][u]

IsPositionActionable(u, i) ==
    \/ IsApprovalActionable(u, i) \/ IsSubmission(u, i) \/ IsWorkflowSubmission(u, i)
    \/ IsWorkflowRevision(u, i) \/ IsWorkflowReturn(u, i) \/ IsEconomistCompletion(u, i)

IsCompletable(u, r) ==
    /\ u = Leaf /\ reqStatus[r] = "on_review"
    /\ r \notin reviewDone /\ Returned(r) = {}
    /\ ItemsOf(r) # {} /\ \A i \in ItemsOf(r) : cfoDecision[i] # "none"

-----------------------------------------------------------------------------
(* A row in the browser *)

IsRowActionable(u, i) ==
    /\ i \notin fixed
    /\ IsApprovalActionable(u, i) \/ IsCfoActionable(u, i) \/ IsDecisionEditable(u, i)

\* Mutant: the economist's endpoint is tried first
EconomistFirst(u, i) ==
    IF IsApprovalActionable(u, i) THEN "economist"
    ELSE IF IsCfoActionable(u, i) THEN "cfo_review" ELSE EditableStage(u, i)

\* postRowDecision: the stage whose endpoint takes the decision
Endpoint(u, i) ==
    IF IsCfoActionable(u, i) \/ EditableStage(u, i) = "cfo_review" THEN "cfo_review"
    ELSE IF u \in Reviewers THEN "approver"
    ELSE "economist"

\* The choices of the decision dialog and of the row's buttons
RowDecisions(u, i) ==
    IF ~IsRowActionable(u, i) THEN {}
    ELSE IF Endpoint(u, i) = "approver" THEN {"approved"}
    ELSE IF Endpoint(u, i) = "cfo_review" THEN {"approved", "rejected"}
    ELSE Decisions

\* rowRegistryStatus: the first status that applies; last is the final status
\* of the latest decision in the logs, "none" when there is none
Final == {"approved", "rejected"}

\* Mutant: a frozen line shows what was decided on it
FrozenIsDecided(u, i) ==
    /\ i \in linked \ frozen /\ posStep[PosOf[i]] # NoStep
    /\ itemStatus[i] \in Final /\ ~RowOnRevision(i)
    /\ ~IsApprovalActionable(u, i) /\ ~IsDecisionEditable(u, i)
    /\ ~IsSubmission(u, i) /\ ~IsWorkflowSubmission(u, i) /\ ~IsWorkflowRevision(u, i)

WaitsForOthers(u, i) ==
    /\ i \in linked /\ posStep[PosOf[i]] # NoStep
    /\ itemStatus[i] \in Final /\ ~RowOnRevision(i)
    /\ ~IsApprovalActionable(u, i) /\ ~IsDecisionEditable(u, i)
    /\ ~IsSubmission(u, i) /\ ~IsWorkflowSubmission(u, i) /\ ~IsWorkflowRevision(u, i)

RowStatus(u, i, last) ==
    IF i \in fixed THEN "fixed"
    ELSE IF IsRevisionPending(i) \/ IsRevisionMarked(i) THEN "selected for revision"
    ELSE IF WaitsForOthers(u, i) THEN "in approval"
    ELSE IF /\ RowOnRevision(i) /\ posStep[PosOf[i]] = u /\ ~IsSubmission(u, i)
            /\ ~IsRowActionable(u, i) /\ itemStatus[i] \in Final THEN "decided again"
    ELSE IF IsDecisionEditable(u, i) /\ last \in Final THEN last
    ELSE IF IsRowActionable(u, i) THEN "your decision"
    ELSE IF IsModuleRevision(i) THEN "on revision"
    ELSE IF IsSubmission(u, i)
    THEN IF last \in Final THEN last
         ELSE IF itemStatus[i] \in Final THEN itemStatus[i] ELSE "hand over"
    ELSE IF RowOnRevision(i) THEN "on revision"
    ELSE IF itemStatus[i] \in Final THEN itemStatus[i]
    ELSE IF reqStatus[ReqOf[i]] = "draft" THEN "draft"
    ELSE IF reqStatus[ReqOf[i]] = "rejected" THEN "request rejected"
    ELSE IF IsCfoReview(i) THEN "cfo review"
    ELSE IF i \in linked /\ posStep[PosOf[i]] # NoStep THEN "earlier steps"
    ELSE "on review"

-----------------------------------------------------------------------------
(* A group in the browser: the rows of an article, a module or the CFO *)

Rows(S) == {i \in S : Active(i)}
ModuleRows(r) == ItemsOf(r)
RequestsIn(S) == {ReqOf[i] : i \in S}
PositionsIn(S) == {PosOf[i] : i \in S \cap linked}

\* _register_aggregates: the counts the buttons look at, as sets
ActionableRequests(u, S)  == {ReqOf[i] : i \in {j \in S : IsCfoActionable(u, j)}}
CompletableRequests(u, S) == {r \in RequestsIn(S) : IsCompletable(u, r)}
SubmissionPositions(u, S) == PositionsIn({i \in S : IsSubmission(u, i)})
ReadyPositions(u, S)      == PositionsIn({i \in S : IsWorkflowSubmission(u, i)})
MarkedPositions(u, S)     == PositionsIn({i \in S : IsWorkflowRevision(u, i)})
ReturnPositions(u, S)     == PositionsIn({i \in S : IsWorkflowReturn(u, i)})
LockPositions(u, S)       == PositionsIn({i \in S : IsZgdLock(u, i)})
Unsubmitted == {r \in Requests : reqStatus[r] = "draft"}

HasCfoActions(u, S) == ActionableRequests(u, S) # {}
HasCfoDecisions(u, S) ==
    /\ RoleOfUser(u) = "employee"
    /\ \/ HasCfoActions(u, S) \/ CompletableRequests(u, S) # {}
       \/ \E i \in S : IsCfoEditable(u, i)
HasComplete(u, S) ==
    /\ CompletableRequests(u, S) # {}
    /\ ~HasCfoActions(u, S)
    /\ Unsubmitted = {}
HasWorkflow(u, S) ==
    /\ \E i \in S : i \in linked /\ IsPositionActionable(u, i)
    /\ (\E i \in S : RowOnRevision(i)) /\ RoleOfUser(u) = "employee"
          => SubmissionPositions(u, S) # {}

HasPackage(u, S) ==
    IF RoleOfUser(u) = "employee"
    THEN /\ SubmissionPositions(u, S) # {}
         /\ ~HasCfoActions(u, S) /\ Unsubmitted = {}
    ELSE RoleOfUser(u) # "zgd" /\ ReadyPositions(u, S) # {}
HasReturn(u, S) ==
    \/ u = Econ /\ MarkedPositions(u, S) # {}
    \/ u \in Reviewers /\ ReturnPositions(u, S) # {}
HasLock(u, S) == RoleOfUser(u) = "zgd" /\ LockPositions(u, S) # {}
HasUnlock(u, S) == RoleOfUser(u) = "zgd" /\ S # {} /\ S \subseteq fixed

\* GroupActions: the buttons of a group.  The approval button decides the lines
\* until the position is ready, then hands it on or fixes it.
\* Mutant: whoever may return the group no longer decides its lines
ReturnsInstead(u, S) ==
    HasWorkflow(u, S) /\ ~HasPackage(u, S) /\ ~HasReturn(u, S) /\ ~HasLock(u, S)

DecidesLines(u, S) ==
    /\ HasWorkflow(u, S) /\ ~HasPackage(u, S) /\ ~HasLock(u, S)
    /\ ~(u = Econ /\ HasReturn(u, S))
RejectsLines(u, S) == u = Econ /\ HasWorkflow(u, S) /\ ~HasReturn(u, S)

GroupButtons(u, S) ==
    {b \in {"complete", "approve lines", "reject lines", "return", "hand on", "fix",
            "unfix"} :
        CASE b = "complete"      -> HasComplete(u, S)
          [] b = "approve lines" -> HasCfoActions(u, S) \/ DecidesLines(u, S)
          [] b = "reject lines"  -> HasCfoDecisions(u, S) \/ RejectsLines(u, S)
          [] b = "return"  -> HasCfoActions(u, S) \/ (HasWorkflow(u, S) /\ HasReturn(u, S))
          [] b = "hand on" -> HasPackage(u, S) /\ HasWorkflow(u, S) /\ ~HasLock(u, S)
          [] b = "fix"     -> HasLock(u, S)
          [] b = "unfix"   -> HasUnlock(u, S)}

\* isGroupSelectable: the groups with a checkbox
GroupSelectable(u, S) ==
    \/ HasWorkflow(u, S)
    \/ RoleOfUser(u) = "employee" /\ (HasCfoActions(u, S) \/ HasComplete(u, S))

\* groupRegistryStatus, down to the statuses that ask nobody for anything
AsksDecision(u, S) ==
    LET actionable == PositionsIn({i \in S : IsPositionActionable(u, i)})
        completion == PositionsIn({i \in S : IsEconomistCompletion(u, i)})
    IN  \/ HasCfoActions(u, S)
        \/ Cardinality(actionable)
              > Cardinality(SubmissionPositions(u, S)) + Cardinality(completion)

GroupStatus(u, S) ==
    IF S = {} THEN "no rows"
    ELSE IF \E i \in S : IsCfoRevision(i) THEN "on revision"
    ELSE IF AsksDecision(u, S) THEN "your decision"
    ELSE IF (\E i \in S : RowOnRevision(i)) /\ CompletableRequests(u, S) = {}
         THEN "on revision"
    ELSE IF SubmissionPositions(u, S) # {} THEN "hand over"
    ELSE IF \E i \in S : IsEconomistCompletion(u, i) THEN "approve and hand over"
    ELSE IF CompletableRequests(u, S) # {} THEN "complete the review"
    ELSE IF \A i \in S : itemStatus[i] = "approved" THEN "approved"
    ELSE IF \A i \in S : itemStatus[i] = "rejected" THEN "rejected"
    ELSE IF \A i \in S : itemStatus[i] \in Final THEN "partly decided"
    ELSE IF \E i \in S : reqStatus[ReqOf[i]] = "draft" THEN "draft"
    ELSE "under way"

-----------------------------------------------------------------------------
(* The page of the positions: one next action for the assignee of the step *)

Undecided(p) == {i \in LinesOf(p) \ (frozen \cup fixed) : itemStatus[i] = "on_review"}

BackAtEconomist(p) == posStatus[p] = "on_revision" /\ LinesOf(p) \cap frozen # {}

\* Mutant: a position of which the lines are decided is shown as reviewed
FreezeDecided(u, p) ==
    IF AllFixed(p) \/ posStep[p] # u THEN "none"
    ELSE IF u = Leaf THEN "submit"
    ELSE IF u = Econ
    THEN IF BackAtEconomist(p) THEN "unfreeze"
         ELSE IF Undecided(p) = {} THEN "freeze"
         ELSE "decide_items"
    ELSE IF Role[u] = "zgd" THEN "fix"
    ELSE "approve"

\* positionWorkflowPresentation
PageAction(u, p) ==
    IF AllFixed(p) \/ posStep[p] # u THEN "none"
    ELSE IF u = Leaf THEN "submit"
    ELSE IF u = Econ
    THEN IF BackAtEconomist(p) THEN "unfreeze"
         ELSE IF posStatus[p] = "approved" THEN "freeze"
         ELSE IF Undecided(p) # {} THEN "decide_items"
         ELSE "complete_review"
    ELSE IF Role[u] = "zgd" THEN "fix"
    ELSE "approve"

PageButtons(u, p) ==
    ({PageAction(u, p)} \ {"none"}) \cup
    {"return" : t \in IF u \in Reviewers /\ PageAction(u, p) # "none"
                      THEN Children(u) ELSE {}}

\* The handler of what the button of an action posts accepts it; "fix" posts an
\* approval as well
PageAccepts(a, p) ==
    CASE a = "submit"          -> CanSubmitToEconomist(p)
      [] a = "decide_items"    -> \E i \in Undecided(p) : CanDecideEconomist(i)
      [] a = "complete_review" -> CanCompleteReview(p)
      [] a = "freeze"          -> CanFreeze(p, OpenLines(p))
      [] a = "unfreeze"        -> CanUnfreeze(p, OpenLines(p))
      [] a = "fix"             -> CanApprove(p, OpenLines(p))
      [] a = "approve"         -> CanForward(p)

\* The button on a line of the economist
PageDecides(u, i) ==
    /\ u = Econ /\ i \in LinesOf(PosOf[i]) \ (frozen \cup fixed)
    /\ PageAction(u, PosOf[i]) # "none"

-----------------------------------------------------------------------------
(* Properties *)

\* The handler behind each decision the register offers on a row accepts it: in
\* no order of the work of modules, CFO, economist, reviewers and ZGD do the
\* flags of the row and the conditions of the handler drift apart
\* (postRowDecision, decide_cfo, decide_item, approve_position_at_step).  Left
\* out is the CFO's decision while another line of the request is with the
\* module: there they do drift apart (ReturnedOfferAccepted below).
RowOffersAccepted ==
    \A u \in Users, i \in Rows(Items) : \A d \in RowDecisions(u, i) :
        CASE Endpoint(u, i) = "cfo_review" ->
                Returned(ReqOf[i]) = {} => CanDecideCfo(i)
          [] Endpoint(u, i) = "economist"  -> CanDecideEconomist(i)
          [] Endpoint(u, i) = "approver"   -> CanApprove(PosOf[i], {i})

\* A group that is ready can be selected, and handing it on succeeds for every
\* position of the group when no line is marked for revision, although the
\* position may have lines outside of the group (workflow-action approve).
PackagesAccepted ==
    \A u \in Users, r \in Requests :
        LET S == ModuleRows(r) IN
        HasPackage(u, S) =>
            /\ GroupSelectable(u, S)
            /\ u \in Steps \ {Leaf} /\ MarkedPositions(u, S) = {} =>
                  \A p \in ReadyPositions(u, S) :
                     IF u = Econ THEN CanCompleteReview(p) ELSE CanForward(p)

\* The lock of the ZGD is offered on a group only when every position it counts
\* can be fixed, whatever was returned and approved before (fix_position).
LocksAccepted ==
    \A u \in Reviewers, r \in Requests :
        \A p \in LockPositions(u, ModuleRows(r)) : CanFix(p)

\* What the register offers, on a row, on a group and for the lock, is accepted.
OffersAccepted == RowOffersAccepted /\ PackagesAccepted /\ LocksAccepted

\* While a position is at the step of somebody else none of its lines shows a
\* final decision, although an earlier step has decided and frozen it ("the
\* saved item decision must not hide that active route state").  Most is shown
\* when the latest decision in the logs is final.
ActiveRouteShown ==
    \A i \in Rows(linked) \ fixed :
        posStep[PosOf[i]] # NoStep =>
            \A u \in Users \ {posStep[PosOf[i]]} : RowStatus(u, i, "approved") \notin Final

\* The freeze, the unfreeze, the decisions and the returns the page of the
\* positions offers for a position that has lines are accepted
\* (positionWorkflowPresentation against freeze_position, unfreeze_position,
\* decide_item and return_position).
PageAccepted ==
    \A u \in Steps : \A p \in {q \in Positions : LinesOf(q) # {}} :
        /\ PageAction(u, p) \in {"freeze", "unfreeze", "decide_items"}
              => PageAccepts(PageAction(u, p), p)
        /\ \A i \in LinesOf(p) : PageDecides(u, i) => CanDecideEconomist(i)
        /\ "return" \in PageButtons(u, p) =>
              \E t \in Children(u) : CanReturn(p, OpenLines(p), t)

\* Nobody is asked in vain: while every module has submitted its request, the
\* group of an open request whose status asks the user for a decision, for
\* handing it on or for completing the review has the button for that
\* (groupRegistryStatus, built from counts of positions, against GroupActions,
\* built from the rows).  Left out is the economist while the CFO has marked a
\* line of the request for revision (DecidedCanBeHandedOn below).
AskedCanAct ==
    Unsubmitted = {} => \A u \in Steps, r \in Requests :
        LET S == ModuleRows(r)
            asked == GroupStatus(u, S)
            buttons == GroupButtons(u, S)
        IN  RequestOpen(r) =>
                /\ asked = "your decision" =>
                      \/ buttons \cap {"approve lines", "hand on", "fix"} # {}
                      \/ u = Econ /\ "return" \in buttons
                /\ asked = "hand over" => "hand on" \in buttons
                /\ asked = "approve and hand over" /\ PendingRevision(r) = {}
                      => "hand on" \in buttons
                /\ asked = "complete the review" => "complete" \in buttons

-----------------------------------------------------------------------------
(* What the register promises and the handlers or the buttons do not keep.   *)
(* No run checks these; added to TwoArticles.cfg with MaxRework = 3 each of  *)
(* them is refuted.                                                         *)

\* The CFO may decide each line that came back from above, also while another
\* line of the same request is with the module: the row offers it
\* (is_cfo_revision_actionable looks at the line alone), the handler answers
\* 409 (_decide_cfo looks at the request).
ReturnedOfferAccepted ==
    \A i \in Rows(Items) : IsCfoRevisionActionable(Leaf, i) => CanDecideCfo(i)

\* Whoever has decided every line can hand the group on ("once every line has a
\* decision, the same group exposes the package handoff/return actions"): not
\* the economist while the CFO has marked a line of another article for
\* revision, although the status of the group asks for it.
DecidedCanBeHandedOn ==
    \A r \in Requests :
        Unsubmitted = {} /\ GroupStatus(Econ, ModuleRows(r)) = "approve and hand over"
            => "hand on" \in GroupButtons(Econ, ModuleRows(r))

=============================================================================
