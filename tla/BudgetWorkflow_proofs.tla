------------------------ MODULE BudgetWorkflow_proofs ------------------------
(***************************************************************************)
(* Theorems about BudgetWorkflow and RegisterView for every set of         *)
(* requests, lines and positions and every route graph: type correctness,  *)
(* the safety properties the runs check on small instances, and what the   *)
(* approval register offers: whoever is asked finds the button, no row     *)
(* hides that its position is on the way, and what rows, groups, the lock  *)
(* of the ZGD and the page of the positions offer is accepted.  And about  *)
(* HandlerRaces, for any number of HTTP requests in flight: the lock of a  *)
(* request row is one, and what is under it stays as it was read.          *)
(***************************************************************************)
EXTENDS HandlerRaces, RegisterView, FiniteSetTheorems, TLAPS

(***************************************************************************)
(* Type correctness.                                                       *)
(***************************************************************************)

LEMMA SyncedStatusType ==
    ASSUME reqStatus \in [Requests -> RequestStatus], NEW R, NEW F, NEW P
    PROVE  SyncedStatus(R, F, P) \in [Requests -> RequestStatus]
BY DEF SyncedStatus, DerivedStatus, RequestStatus

LEMMA ClearedApprovalsType ==
    ASSUME TypeOK, NEW p \in Positions, NEW s
    PROVE  ClearedApprovals(p, s) \in [Positions -> [Reviewers -> SUBSET Items]]
BY DEF ClearedApprovals, TypeOK

LEMMA TypeInit == Init => TypeOK
BY RouteAssumption DEF Init, TypeOK, RequestStatus, ItemStatus, PosStatus, Decisions

LEMMA TypeNext == TypeOK /\ [Next]_vars => TypeOK'
<1> SUFFICES ASSUME TypeOK, [Next]_vars PROVE TypeOK'
    OBVIOUS
<1> USE RouteAssumption
<1>1. ASSUME NEW r \in Requests, CreateRequest(r) PROVE TypeOK'
  BY <1>1 DEF CreateRequest, TypeOK, RequestStatus, flagVars, cfoVars, econVars, posVars
<1>2. ASSUME NEW r \in Requests, DeleteRequest(r) PROVE TypeOK'
  BY <1>2 DEF DeleteRequest, TypeOK, RequestStatus, ItemStatus, flagVars, cfoVars,
      econVars, posVars
<1>3. ASSUME NEW r \in Requests, Submit(r) PROVE TypeOK'
  BY <1>3 DEF Submit, HandToCfo, SubmittedLines, ItemsOf, TypeOK, RequestStatus,
      PosStatus, econVars
<1>4. ASSUME NEW i \in Items, CreateItem(i) PROVE TypeOK'
  BY <1>4 DEF CreateItem, CanCreateItem, InsertItem, TypeOK, ItemStatus, reqVars,
      flagVars, cfoVars, econVars, posVars
<1>5. ASSUME NEW i \in Items, DeleteItem(i) PROVE TypeOK'
  BY <1>5 DEF DeleteItem, CanDeleteItem, MarkDeleted, TypeOK, ItemStatus, reqVars,
      flagVars, cfoVars, econVars, posVars
<1>6. ASSUME NEW i \in Items, NEW d \in Decisions, DecideCfo(i, d) PROVE TypeOK'
  BY <1>6 DEF DecideCfo, RecordCfoDecision, TypeOK, ItemStatus, Decisions, reqVars,
      flagVars, econVars, posVars
<1>7. ASSUME NEW r \in Requests, CompleteCfoReview(r) PROVE TypeOK'
  BY <1>7 DEF CompleteCfoReview, TypeOK, RequestStatus, flagVars, cfoVars, econVars,
      posVars
<1>8. ASSUME NEW p \in Positions, SubmitToEconomist(p) PROVE TypeOK'
  BY <1>8 DEF SubmitToEconomist, CanSubmitToEconomist, HandToEconomist, TypeOK,
      PosStatus, reqVars, flagVars, cfoVars, econVars
<1>9. ASSUME NEW i \in Items, NEW d \in Decisions, DecideItemEconomist(i, d) PROVE TypeOK'
  BY <1>9 DEF DecideItemEconomist, CanDecideEconomist, TypeOK, ItemStatus, Decisions,
      reqVars, flagVars,
      cfoVars, posVars
<1>10. ASSUME NEW p \in Positions, CompleteEconomistReview(p) PROVE TypeOK'
  BY <1>10 DEF CompleteEconomistReview, CanCompleteReview, TypeOK, PosStatus, reqVars,
      flagVars, cfoVars,
      econVars
<1>11. ASSUME NEW p \in Positions, NEW S \in SUBSET Items, FreezePosition(p, S)
      PROVE TypeOK'
  <2>1. PICK next \in NextSteps(Econ) :
           /\ frozen' = frozen \cup S
           /\ \/ /\ posStatus' = [posStatus EXCEPT ![p] = "on_approval"]
                 /\ posStep' = [posStep EXCEPT ![p] = next]
                 /\ approvedAt' = ClearedApprovals(p, next)
              \/ UNCHANGED <<posStatus, posStep, approvedAt>>
    BY <1>11 DEF FreezePosition, CanFreeze
  <2>2. next \in Steps
    BY DEF NextSteps, Parents
  <2>3. /\ posStatus' \in [Positions -> PosStatus]
        /\ posStep' \in [Positions -> Steps \cup {NoStep}]
    BY <2>1, <2>2 DEF TypeOK, PosStatus
  <2>4. approvedAt' \in [Positions -> [Reviewers -> SUBSET Items]]
    BY <2>1, ClearedApprovalsType DEF TypeOK
  <2> QED
    BY <1>11, <2>1, <2>3, <2>4 DEF FreezePosition, CanFreeze, TypeOK, reqVars,
        cfoVars, econVars
<1>12. ASSUME NEW p \in Positions, NEW S \in SUBSET Items, ApproveItemsAtStep(p, S)
      PROVE TypeOK'
  BY <1>12 DEF ApproveItemsAtStep, CanApprove, AtReviewer, TypeOK, reqVars, cfoVars,
      econVars
<1>13. ASSUME NEW p \in Positions, ForwardAtStep(p) PROVE TypeOK'
  BY <1>13 DEF ForwardAtStep, CanForward, NextSteps, Parents, TypeOK, PosStatus,
      reqVars, flagVars,
      cfoVars, econVars
<1>14. ASSUME NEW p \in Positions, FixPosition(p) PROVE TypeOK'
  BY <1>14, SyncedStatusType
     DEF FixPosition, CanFix, OpenLines, LinesOf, TypeOK, PosStatus, cfoVars, econVars
<1>15. ASSUME NEW r \in Requests, NEW S \in SUBSET ItemsOf(r), CfoRevisionFromRegister(r, S)
       PROVE TypeOK'
  BY <1>15 DEF CfoRevisionFromRegister, ItemsOf, TypeOK, ItemStatus, PosStatus,
      Decisions, flagVars, econVars
<1>16. ASSUME NEW p \in Positions, NEW S \in SUBSET Items, UnfreezePosition(p, S)
      PROVE TypeOK'
  BY <1>16 DEF UnfreezePosition, CanUnfreeze, TypeOK, PosStatus, reqVars, cfoVars,
      econVars
<1>17. ASSUME NEW p \in Positions, UnfixPosition(p) PROVE TypeOK'
  BY <1>17, SyncedStatusType
     DEF UnfixPosition, Reviewers, LinesOf, TypeOK, PosStatus, cfoVars, econVars
<1>18. ASSUME NEW p \in Positions, NEW target \in Steps, NEW S \in SUBSET Items,
              NEW T \in SUBSET S, ReturnPosition(p, S, T, target)
       PROVE TypeOK'
  BY <1>18, ClearedApprovalsType DEF ReturnPosition, CanReturn, TypeOK, ItemStatus,
      PosStatus,
      reqVars
<1>19. CASE UNCHANGED vars
  BY <1>19 DEF TypeOK, vars, reqVars, flagVars, cfoVars, econVars, posVars
<1> QED
  BY <1>1, <1>2, <1>3, <1>4, <1>5, <1>6, <1>7, <1>8, <1>9, <1>10, <1>11, <1>12, <1>13,
     <1>14, <1>15, <1>16, <1>17, <1>18, <1>19
     DEF Next, ModuleStep, CfoStep, EconomistStep, ReviewerStep, ReworkStep

\* Every reachable state of the workflow is well typed.
THEOREM TypeCorrect == Spec => []TypeOK
BY TypeInit, TypeNext, PTL DEF Spec

(***************************************************************************)
(* Flags and links: closing a line never runs ahead of submitting it.      *)
(***************************************************************************)

LinkInv ==
    /\ frozen \subseteq linked
    /\ fixed \subseteq frozen
    /\ \A i \in linked : /\ reqStatus[ReqOf[i]] \notin {"absent", "draft"}
                         /\ itemStatus[i] # "absent"
                         /\ posStatus[PosOf[i]] # "absent"
    /\ \A i \in frozen : Active(i)

LEMMA SyncedKeepsSubmitted ==
    ASSUME TypeOK, NEW R, NEW F, NEW P, NEW r \in Requests,
           reqStatus[r] \notin {"absent", "draft"}
    PROVE  SyncedStatus(R, F, P)[r] \notin {"absent", "draft"}
BY DEF SyncedStatus, DerivedStatus

LEMMA LinkInit == Init => LinkInv
BY DEF Init, LinkInv

LEMMA LinkNext == TypeOK /\ LinkInv /\ [Next]_vars => LinkInv'
<1> SUFFICES ASSUME TypeOK, LinkInv, [Next]_vars PROVE LinkInv'
    OBVIOUS
<1> USE RouteAssumption
<1>1. ASSUME NEW r \in Requests, CreateRequest(r) PROVE LinkInv'
  BY <1>1 DEF CreateRequest, LinkInv, TypeOK, Active, flagVars, posVars
<1>2. ASSUME NEW r \in Requests, DeleteRequest(r) PROVE LinkInv'
  BY <1>2 DEF DeleteRequest, LinkInv, TypeOK, Active, flagVars, posVars
<1>3. ASSUME NEW r \in Requests, Submit(r) PROVE LinkInv'
  BY <1>3 DEF Submit, HandToCfo, SubmittedLines, ItemsOf, LinkInv, TypeOK, Active
<1>4. ASSUME NEW i \in Items, CreateItem(i) PROVE LinkInv'
  BY <1>4 DEF CreateItem, CanCreateItem, InsertItem, LinkInv, TypeOK, Active, reqVars,
      flagVars, posVars
<1>5. ASSUME NEW i \in Items, DeleteItem(i) PROVE LinkInv'
  BY <1>5 DEF DeleteItem, CanDeleteItem, MarkDeleted, LinkInv, TypeOK, Active, reqVars,
      flagVars, posVars
<1>6. ASSUME NEW i \in Items, NEW d \in Decisions, DecideCfo(i, d) PROVE LinkInv'
  BY <1>6 DEF DecideCfo, RecordCfoDecision, CanDecideCfo, LinkInv, TypeOK, Active,
      reqVars, flagVars, Decisions, posVars
<1>7. ASSUME NEW r \in Requests, CompleteCfoReview(r) PROVE LinkInv'
  BY <1>7 DEF CompleteCfoReview, LinkInv, TypeOK, Active, flagVars, posVars
<1>8. ASSUME NEW p \in Positions, SubmitToEconomist(p) PROVE LinkInv'
  BY <1>8 DEF SubmitToEconomist, CanSubmitToEconomist, HandToEconomist, LinkInv, TypeOK,
      Active, reqVars, flagVars
<1>9. ASSUME NEW i \in Items, NEW d \in Decisions, DecideItemEconomist(i, d)
      PROVE LinkInv'
  BY <1>9 DEF DecideItemEconomist, CanDecideEconomist, posVars, LinkInv, TypeOK,
      Active, reqVars, flagVars,
      Decisions
<1>10. ASSUME NEW p \in Positions, CompleteEconomistReview(p) PROVE LinkInv'
  BY <1>10 DEF CompleteEconomistReview, CanCompleteReview, LinkInv, TypeOK, Active,
      reqVars, flagVars
<1>11. ASSUME NEW p \in Positions, NEW S \in SUBSET Items, FreezePosition(p, S)
      PROVE LinkInv'
  BY <1>11 DEF FreezePosition, CanFreeze, OpenLines, LinesOf, LinkInv, TypeOK, Active,
      reqVars
<1>12. ASSUME NEW p \in Positions, NEW S \in SUBSET Items, ApproveItemsAtStep(p, S)
      PROVE LinkInv'
  BY <1>12 DEF ApproveItemsAtStep, CanApprove, OpenLines, LinesOf, LinkInv, TypeOK,
      Active, reqVars
<1>13. ASSUME NEW p \in Positions, ForwardAtStep(p) PROVE LinkInv'
  BY <1>13 DEF ForwardAtStep, CanForward, LinkInv, TypeOK, Active, reqVars, flagVars
<1>14. ASSUME NEW p \in Positions, FixPosition(p) PROVE LinkInv'
  BY <1>14, SyncedKeepsSubmitted DEF FixPosition, CanFix, OpenLines, LinesOf, LinkInv,
      TypeOK,
      Active
<1>15. ASSUME NEW r \in Requests, NEW S \in SUBSET ItemsOf(r), CfoRevisionFromRegister(r, S)
       PROVE LinkInv'
  BY <1>15 DEF CfoRevisionFromRegister, ItemsOf, LinkInv, TypeOK, Active, flagVars
<1>16. ASSUME NEW p \in Positions, NEW S \in SUBSET Items, UnfreezePosition(p, S)
      PROVE LinkInv'
  BY <1>16 DEF UnfreezePosition, CanUnfreeze, OpenLines, LinesOf, LinkInv, TypeOK,
      Active, reqVars
<1>17. ASSUME NEW p \in Positions, UnfixPosition(p) PROVE LinkInv'
  BY <1>17, SyncedKeepsSubmitted DEF UnfixPosition, LinesOf, LinkInv, TypeOK, Active
<1>18. ASSUME NEW p \in Positions, NEW target \in Steps, NEW S \in SUBSET Items,
              NEW T \in SUBSET S, ReturnPosition(p, S, T, target)
       PROVE LinkInv'
  BY <1>18 DEF ReturnPosition, CanReturn, OpenLines, LinesOf, LinkInv, TypeOK, Active,
      reqVars
<1>19. CASE UNCHANGED vars
  BY <1>19 DEF LinkInv, Active, vars, reqVars, flagVars, posVars
<1> QED
  BY <1>1, <1>2, <1>3, <1>4, <1>5, <1>6, <1>7, <1>8, <1>9, <1>10, <1>11, <1>12, <1>13,
     <1>14, <1>15, <1>16, <1>17, <1>18, <1>19
     DEF Next, ModuleStep, CfoStep, EconomistStep, ReviewerStep, ReworkStep

(***************************************************************************)
(* A position is fixed as a whole.                                         *)
(***************************************************************************)

LEMMA FixationInit == Init => FixationIsWhole
BY DEF Init, FixationIsWhole

LEMMA FixationNext ==
    TypeOK /\ LinkInv /\ FixationIsWhole /\ [Next]_vars => FixationIsWhole'
<1> SUFFICES ASSUME TypeOK, LinkInv, FixationIsWhole, [Next]_vars PROVE FixationIsWhole'
    OBVIOUS
<1> USE RouteAssumption
<1>1. ASSUME NEW r \in Requests, CreateRequest(r) PROVE FixationIsWhole'
  BY <1>1 DEF CreateRequest, FixationIsWhole, AllFixed, LinesOf, Active, flagVars,
      posVars
<1>2. ASSUME NEW r \in Requests, DeleteRequest(r) PROVE FixationIsWhole'
  BY <1>2 DEF DeleteRequest, LinkInv, FixationIsWhole, AllFixed, LinesOf, Active,
      TypeOK, flagVars, posVars
<1>3. ASSUME NEW r \in Requests, Submit(r) PROVE FixationIsWhole'
  BY <1>3 DEF Submit, HandToCfo, CanSubmit, AcceptsLines, SubmittedLines, ItemsOf,
      LinkInv, FixationIsWhole, AllFixed, LinesOf, Active, TypeOK
<1>4. ASSUME NEW i \in Items, CreateItem(i) PROVE FixationIsWhole'
  BY <1>4 DEF CreateItem, CanCreateItem, InsertItem, LinkInv, FixationIsWhole, AllFixed,
      LinesOf, Active, TypeOK, flagVars, posVars
<1>5. ASSUME NEW i \in Items, DeleteItem(i) PROVE FixationIsWhole'
  BY <1>5 DEF DeleteItem, CanDeleteItem, MarkDeleted, LinkInv, FixationIsWhole,
      AllFixed, LinesOf, Active, TypeOK, flagVars, posVars
<1>6. ASSUME NEW i \in Items, NEW d \in Decisions, DecideCfo(i, d) PROVE FixationIsWhole'
  BY <1>6 DEF DecideCfo, RecordCfoDecision, CanDecideCfo, FixationIsWhole, AllFixed,
      LinesOf, Active, TypeOK, Decisions, flagVars, posVars
<1>7. ASSUME NEW r \in Requests, CompleteCfoReview(r) PROVE FixationIsWhole'
  BY <1>7 DEF CompleteCfoReview, FixationIsWhole, AllFixed, LinesOf, Active, flagVars,
      posVars
<1>8. ASSUME NEW p \in Positions, SubmitToEconomist(p) PROVE FixationIsWhole'
  BY <1>8 DEF SubmitToEconomist, CanSubmitToEconomist, HandToEconomist, FixationIsWhole,
      AllFixed, LinesOf, Active, TypeOK, flagVars
<1>9. ASSUME NEW i \in Items, NEW d \in Decisions, DecideItemEconomist(i, d)
      PROVE FixationIsWhole'
  BY <1>9 DEF DecideItemEconomist, CanDecideEconomist, LinkInv, FixationIsWhole,
      AllFixed, LinesOf, Active,
      TypeOK, Decisions, flagVars, posVars
<1>10. ASSUME NEW p \in Positions, CompleteEconomistReview(p) PROVE FixationIsWhole'
  BY <1>10 DEF CompleteEconomistReview, CanCompleteReview, FixationIsWhole, AllFixed,
      LinesOf, Active,
      TypeOK, flagVars
<1>11. ASSUME NEW p \in Positions, NEW S \in SUBSET Items, FreezePosition(p, S)
       PROVE FixationIsWhole'
  <2>1. /\ posStep[p] = Econ
        /\ UNCHANGED <<itemStatus, linked, fixed>>
        /\ \/ UNCHANGED <<posStatus, posStep>>
           \/ \E next \in Steps :
                 /\ posStatus' = [posStatus EXCEPT ![p] = "on_approval"]
                 /\ posStep' = [posStep EXCEPT ![p] = next]
    BY <1>11 DEF FreezePosition, CanFreeze, NextSteps, Parents
  <2>2. \A i \in fixed : PosOf[i] \in Positions \ {p}
    BY <2>1 DEF FixationIsWhole, TypeOK
  <2>3. \A q \in Positions : LinesOf(q)' = LinesOf(q) /\ AllFixed(q)' = AllFixed(q)
    BY <2>1 DEF AllFixed, LinesOf, Active
  <2>4. \A q \in Positions \ {p} : posStep'[q] = posStep[q] /\ posStatus'[q] = posStatus[q]
    BY <2>1 DEF TypeOK
  <2>5. posStep'[p] \in Steps
    BY <2>1 DEF TypeOK
  <2> QED
    BY <2>1, <2>2, <2>3, <2>4, <2>5 DEF FixationIsWhole
<1>12. ASSUME NEW p \in Positions, NEW S \in SUBSET Items, ApproveItemsAtStep(p, S)
       PROVE FixationIsWhole'
  BY <1>12 DEF ApproveItemsAtStep, CanApprove, FixationIsWhole, AllFixed, LinesOf,
      Active
<1>13. ASSUME NEW p \in Positions, ForwardAtStep(p) PROVE FixationIsWhole'
  BY <1>13 DEF ForwardAtStep, CanForward, AtReviewer, Reviewers, NextSteps, Parents,
      FixationIsWhole, AllFixed, LinesOf, Active, TypeOK, flagVars
<1>14. ASSUME NEW p \in Positions, FixPosition(p) PROVE FixationIsWhole'
  BY <1>14 DEF FixPosition, CanFix, AtReviewer, Reviewers, OpenLines, LinkInv,
      FixationIsWhole,
      AllFixed, LinesOf, Active, TypeOK
<1>15. ASSUME NEW r \in Requests, NEW S \in SUBSET ItemsOf(r), CfoRevisionFromRegister(r, S)
       PROVE FixationIsWhole'
  <2>1. /\ \A i \in S : Active(i) /\ i \notin fixed
        /\ UNCHANGED <<linked, fixed, posStep>>
        /\ itemStatus' = [i \in Items |-> IF i \in S THEN "on_review" ELSE itemStatus[i]]
        /\ posStatus' = [q \in Positions |-> IF q \in {PosOf[i] : i \in S \cap linked}
                                              THEN "on_revision" ELSE posStatus[q]]
    BY <1>15 DEF CfoRevisionFromRegister, Revisable, flagVars
  <2>2. \A q \in Positions : LinesOf(q)' = LinesOf(q)
    BY <2>1 DEF LinesOf, Active, TypeOK
  <2>3. \A i \in S \cap linked : \A j \in fixed : PosOf[j] # PosOf[i]
    BY <2>1 DEF FixationIsWhole, LinesOf
  <2>4. \A i \in S \cap linked : posStep[PosOf[i]] # NoStep
    BY <2>1 DEF FixationIsWhole, AllFixed, LinesOf, LinkInv, TypeOK
  <2> QED
    BY <2>1, <2>2, <2>3, <2>4 DEF FixationIsWhole, AllFixed, TypeOK, LinkInv
<1>16. ASSUME NEW p \in Positions, NEW S \in SUBSET Items, UnfreezePosition(p, S)
       PROVE FixationIsWhole'
  BY <1>16 DEF UnfreezePosition, CanUnfreeze, FixationIsWhole, AllFixed, LinesOf,
      Active, TypeOK
<1>17. ASSUME NEW p \in Positions, UnfixPosition(p) PROVE FixationIsWhole'
  BY <1>17 DEF UnfixPosition, Reviewers, LinkInv, FixationIsWhole, AllFixed, LinesOf,
      Active, TypeOK
<1>18. ASSUME NEW p \in Positions, NEW target \in Steps, NEW S \in SUBSET Items,
              NEW T \in SUBSET S, ReturnPosition(p, S, T, target)
       PROVE FixationIsWhole'
  BY <1>18 DEF ReturnPosition, CanReturn, AtReviewer, Reviewers, OpenLines,
      FixationIsWhole,
      AllFixed, LinesOf, Active, TypeOK
<1>19. CASE UNCHANGED vars
  BY <1>19 DEF FixationIsWhole, AllFixed, LinesOf, Active, vars, flagVars, posVars
<1> QED
  BY <1>1, <1>2, <1>3, <1>4, <1>5, <1>6, <1>7, <1>8, <1>9, <1>10, <1>11, <1>12, <1>13,
     <1>14, <1>15, <1>16, <1>17, <1>18, <1>19
     DEF Next, ModuleStep, CfoStep, EconomistStep, ReviewerStep, ReworkStep

\* Every position is fixed as a whole, in every reachable state.
THEOREM Fixation == Spec => []FixationIsWhole
<1>1. Init => TypeOK /\ LinkInv /\ FixationIsWhole
  BY TypeInit, LinkInit, FixationInit
<1>2. TypeOK /\ LinkInv /\ FixationIsWhole /\ [Next]_vars
         => (TypeOK /\ LinkInv /\ FixationIsWhole)'
  BY TypeNext, LinkNext, FixationNext
<1> QED
  BY <1>1, <1>2, PTL DEF Spec

(***************************************************************************)
(* What is above the economist is frozen.  Only a line of a position at    *)
(* the economist, or one that is being returned, loses its flag.           *)
(***************************************************************************)

LEMMA AboveInit == Init => AboveEconomistFrozen
BY RouteAssumption DEF Init, AboveEconomistFrozen, AtReviewer, Reviewers

LEMMA AboveNext ==
    TypeOK /\ LinkInv /\ AboveEconomistFrozen /\ [Next]_vars => AboveEconomistFrozen'
<1> SUFFICES ASSUME TypeOK, LinkInv, AboveEconomistFrozen, [Next]_vars
             PROVE  AboveEconomistFrozen'
    OBVIOUS
<1> USE RouteAssumption
<1> USE DEF AboveEconomistFrozen, AtReviewer, Reviewers, AllFrozen, LinesOf, Active
<1>1. ASSUME NEW r \in Requests, CreateRequest(r) PROVE AboveEconomistFrozen'
  BY <1>1 DEF CreateRequest, flagVars, posVars
<1>2. ASSUME NEW r \in Requests, DeleteRequest(r) PROVE AboveEconomistFrozen'
  BY <1>2 DEF DeleteRequest, LinkInv, TypeOK, flagVars, posVars
<1>3. ASSUME NEW r \in Requests, Submit(r) PROVE AboveEconomistFrozen'
  BY <1>3 DEF Submit, HandToCfo, CanSubmit, AcceptsLines, SubmittedLines, ItemsOf,
      TypeOK
<1>4. ASSUME NEW i \in Items, CreateItem(i) PROVE AboveEconomistFrozen'
  BY <1>4 DEF CreateItem, CanCreateItem, InsertItem, LinkInv, TypeOK, flagVars, posVars
<1>5. ASSUME NEW i \in Items, DeleteItem(i) PROVE AboveEconomistFrozen'
  BY <1>5 DEF DeleteItem, CanDeleteItem, MarkDeleted, LinkInv, TypeOK, flagVars, posVars
<1>6. ASSUME NEW i \in Items, NEW d \in Decisions, DecideCfo(i, d)
      PROVE AboveEconomistFrozen'
  BY <1>6 DEF DecideCfo, RecordCfoDecision, CanDecideCfo, TypeOK, Decisions, flagVars,
      posVars
<1>7. ASSUME NEW r \in Requests, CompleteCfoReview(r) PROVE AboveEconomistFrozen'
  BY <1>7 DEF CompleteCfoReview, flagVars, posVars
<1>8. ASSUME NEW p \in Positions, SubmitToEconomist(p) PROVE AboveEconomistFrozen'
  BY <1>8 DEF SubmitToEconomist, CanSubmitToEconomist, HandToEconomist, TypeOK, flagVars
<1>9. ASSUME NEW i \in Items, NEW d \in Decisions, DecideItemEconomist(i, d)
      PROVE AboveEconomistFrozen'
  BY <1>9 DEF DecideItemEconomist, CanDecideEconomist, TypeOK, Decisions, flagVars,
      posVars
<1>10. ASSUME NEW p \in Positions, CompleteEconomistReview(p) PROVE AboveEconomistFrozen'
  BY <1>10 DEF CompleteEconomistReview, CanCompleteReview, TypeOK, flagVars
<1>11. ASSUME NEW p \in Positions, NEW S \in SUBSET Items, FreezePosition(p, S)
       PROVE AboveEconomistFrozen'
  BY <1>11 DEF FreezePosition, CanFreeze, OpenLines, TypeOK
<1>12. ASSUME NEW p \in Positions, NEW S \in SUBSET Items, ApproveItemsAtStep(p, S)
       PROVE AboveEconomistFrozen'
  BY <1>12 DEF ApproveItemsAtStep, CanApprove
<1>13. ASSUME NEW p \in Positions, ForwardAtStep(p) PROVE AboveEconomistFrozen'
  BY <1>13 DEF ForwardAtStep, CanForward, TypeOK, flagVars
<1>14. ASSUME NEW p \in Positions, FixPosition(p) PROVE AboveEconomistFrozen'
  BY <1>14 DEF FixPosition, CanFix, TypeOK
<1>15. ASSUME NEW r \in Requests, NEW S \in SUBSET ItemsOf(r), CfoRevisionFromRegister(r, S)
       PROVE AboveEconomistFrozen'
  BY <1>15 DEF CfoRevisionFromRegister, ItemsOf, TypeOK, flagVars
<1>16. ASSUME NEW p \in Positions, NEW S \in SUBSET Items, UnfreezePosition(p, S)
       PROVE AboveEconomistFrozen'
  BY <1>16 DEF UnfreezePosition, CanUnfreeze, OpenLines, TypeOK
<1>17. ASSUME NEW p \in Positions, UnfixPosition(p) PROVE AboveEconomistFrozen'
  BY <1>17 DEF UnfixPosition, AllFixed, TypeOK
<1>18. ASSUME NEW p \in Positions, NEW target \in Steps, NEW S \in SUBSET Items,
              NEW T \in SUBSET S, ReturnPosition(p, S, T, target)
       PROVE AboveEconomistFrozen'
  BY <1>18 DEF ReturnPosition, CanReturn, OpenLines, TypeOK
<1>19. CASE UNCHANGED vars
  BY <1>19 DEF vars, flagVars, posVars
<1> QED
  BY <1>1, <1>2, <1>3, <1>4, <1>5, <1>6, <1>7, <1>8, <1>9, <1>10, <1>11, <1>12, <1>13,
     <1>14, <1>15, <1>16, <1>17, <1>18, <1>19
     DEF Next, ModuleStep, CfoStep, EconomistStep, ReviewerStep, ReworkStep

\* A position in approval above the economist is frozen to the last line.
THEOREM Above == Spec => []AboveEconomistFrozen
<1>1. Init => TypeOK /\ LinkInv /\ AboveEconomistFrozen
  BY TypeInit, LinkInit, AboveInit
<1>2. TypeOK /\ LinkInv /\ AboveEconomistFrozen /\ [Next]_vars
         => (TypeOK /\ LinkInv /\ AboveEconomistFrozen)'
  BY TypeNext, LinkNext, AboveNext
<1> QED
  BY <1>1, <1>2, PTL DEF Spec

\* For every route and any number of modules a position is closed as a whole.
THEOREM WholeAlways == Spec => []WholePositions
BY Fixation, Above, PTL DEF WholePositions

(***************************************************************************)
(* Frozen lines keep their status.                                         *)
(***************************************************************************)

LEMMA FrozenStep ==
    ASSUME TypeOK, LinkInv, [Next]_vars
    PROVE  \A i \in frozen \cap frozen' : itemStatus'[i] = itemStatus[i]
<1> SUFFICES ASSUME NEW i \in frozen, i \in frozen' PROVE itemStatus'[i] = itemStatus[i]
    OBVIOUS
<1>0. /\ i \in Items /\ i \in linked /\ Active(i)
      /\ reqStatus[ReqOf[i]] \notin {"absent", "draft"} /\ itemStatus[i] # "absent"
  BY DEF TypeOK, LinkInv
<1>1. ASSUME NEW r \in Requests, DeleteRequest(r) PROVE itemStatus'[i] = itemStatus[i]
  BY <1>0, <1>1 DEF DeleteRequest
<1>2. ASSUME NEW j \in Items, CreateItem(j) \/ DeleteItem(j)
      PROVE itemStatus'[i] = itemStatus[i]
  BY <1>0, <1>2 DEF CreateItem, CanCreateItem, InsertItem, DeleteItem, CanDeleteItem,
      MarkDeleted, TypeOK
<1>3. ASSUME NEW j \in Items, NEW d \in Decisions, DecideCfo(j, d) \/ DecideItemEconomist(j, d)
      PROVE  itemStatus'[i] = itemStatus[i]
  BY <1>0, <1>3 DEF DecideCfo, RecordCfoDecision, CanDecideCfo, DecideItemEconomist,
      CanDecideEconomist,
      TypeOK
<1>4. ASSUME NEW r \in Requests, NEW S \in SUBSET ItemsOf(r), CfoRevisionFromRegister(r, S)
      PROVE  itemStatus'[i] = itemStatus[i]
  BY <1>0, <1>4 DEF CfoRevisionFromRegister, Revisable
<1>5. ASSUME NEW p \in Positions, NEW target \in Steps, NEW S \in SUBSET Items,
             NEW T \in SUBSET S, ReturnPosition(p, S, T, target)
      PROVE  itemStatus'[i] = itemStatus[i]
  BY <1>0, <1>5 DEF ReturnPosition, CanReturn
<1>6. ASSUME NEW r \in Requests, CreateRequest(r) \/ Submit(r) \/ CompleteCfoReview(r)
      PROVE  itemStatus'[i] = itemStatus[i]
  BY <1>6 DEF CreateRequest, Submit, HandToCfo, CompleteCfoReview
<1>7. ASSUME NEW p \in Positions, \/ SubmitToEconomist(p) \/ CompleteEconomistReview(p)
                                  \/ ForwardAtStep(p) \/ FixPosition(p) \/ UnfixPosition(p)
      PROVE  itemStatus'[i] = itemStatus[i]
  BY <1>7 DEF SubmitToEconomist, CanSubmitToEconomist, HandToEconomist,
      CompleteEconomistReview, CanCompleteReview, ForwardAtStep, CanForward,
      FixPosition, CanFix, UnfixPosition
<1>8. ASSUME NEW p \in Positions, NEW S \in SUBSET Items,
             FreezePosition(p, S) \/ UnfreezePosition(p, S) \/ ApproveItemsAtStep(p, S)
      PROVE  itemStatus'[i] = itemStatus[i]
  BY <1>8 DEF FreezePosition, CanFreeze, UnfreezePosition, CanUnfreeze,
      ApproveItemsAtStep, CanApprove
<1>9. CASE UNCHANGED vars
  BY <1>9 DEF vars
<1> QED
  BY <1>1, <1>2, <1>3, <1>4, <1>5, <1>6, <1>7, <1>8, <1>9
     DEF Next, ModuleStep, CfoStep, EconomistStep, ReviewerStep, ReworkStep

\* No command changes or deletes a line that stays frozen.
THEOREM FrozenLinesKept == Spec => FrozenImmutable
<1>1. Init => TypeOK /\ LinkInv
  BY TypeInit, LinkInit
<1>2. TypeOK /\ LinkInv /\ [Next]_vars => (TypeOK /\ LinkInv)'
  BY TypeNext, LinkNext
<1>3. TypeOK /\ LinkInv /\ [Next]_vars
         => [\A i \in frozen \cap frozen' : itemStatus'[i] = itemStatus[i]]_vars
  BY FrozenStep
<1> QED
  BY <1>1, <1>2, <1>3, PTL DEF Spec, FrozenImmutable


(***************************************************************************)
(* Nobody skips a stage.  The strengthening says where the decision of the *)
(* CFO is remembered while a line is not at the economist or above (its    *)
(* own status, the return to the module, a completed review, the status of *)
(* its request), and the decision of the economist while the line is not   *)
(* frozen (a completed economist review, a position above the economist).  *)
(***************************************************************************)

DecidedByCfo(i) == cfoDecision[i] # "none"
DecidedByEcon(i) == econDecision[i] # "none"

\* Decisions of the CFO seen from the line
CfoLineInv ==
    \A i \in Items :
        \/ itemStatus[i] \in {"approved", "rejected"}
        \/ i \in linked /\ itemStatus[i] = "deleted"
        \/ i \in Returned(ReqOf[i])
        \/ i \in frozen
        => DecidedByCfo(i)

\* Decisions of the CFO seen from the request
CfoRequestInv ==
    \A r \in Requests :
        /\ r \in reviewDone => reqStatus[r] \notin {"absent", "draft"}
        /\ r \in reviewDone \/ reqStatus[r] \in {"approved", "rejected"}
              => \A i \in ItemsOf(r) : DecidedByCfo(i)

\* Decisions of the CFO seen from the position
CfoPositionInv ==
    \A p \in Positions : posStep[p] \notin {Leaf, NoStep} =>
        \A i \in LinesOf(p) : DecidedByCfo(i)

\* Decisions of the economist
EconInv ==
    /\ \A i \in frozen : DecidedByEcon(i)
    /\ \A p \in Positions :
          AtReviewer(p) \/ (posStep[p] = Econ /\ posStatus[p] = "approved")
              => \A i \in LinesOf(p) : DecidedByEcon(i)

DecidedInv == CfoLineInv /\ CfoRequestInv /\ CfoPositionInv /\ EconInv

LEMMA DecidedInit == Init => DecidedInv
BY RouteAssumption DEF Init, DecidedInv, CfoLineInv, CfoRequestInv, CfoPositionInv,
    EconInv, Returned, ItemsOf, LinesOf, Active, AtReviewer, Reviewers

LEMMA CfoLineNext ==
    TypeOK /\ LinkInv /\ CfoLineInv /\ CfoPositionInv /\ EconInv /\ [Next]_vars
      => CfoLineInv'
<1> SUFFICES ASSUME TypeOK, LinkInv, CfoLineInv, CfoPositionInv, EconInv, [Next]_vars
             PROVE  CfoLineInv'
    OBVIOUS
<1> USE RouteAssumption
<1>1. ASSUME NEW r \in Requests, CreateRequest(r)
      PROVE  CfoLineInv'
  BY <1>1 DEF CreateRequest, CfoLineInv, Returned, DecidedByCfo, flagVars, cfoVars
<1>2. ASSUME NEW r \in Requests, DeleteRequest(r)
      PROVE  CfoLineInv'
  BY <1>2 DEF DeleteRequest, CfoLineInv, Returned, DecidedByCfo, flagVars, cfoVars
<1>3. ASSUME NEW r \in Requests, Submit(r)
      PROVE  CfoLineInv'
  BY <1>3 DEF Submit, HandToCfo, SubmittedLines, CfoLineInv, ItemsOf, Active, Returned,
    DecidedByCfo
<1>4. ASSUME NEW i \in Items, CreateItem(i)
      PROVE  CfoLineInv'
  BY <1>4 DEF CreateItem, CanCreateItem, InsertItem, TypeOK, LinkInv, CfoLineInv,
      Active, Returned, DecidedByCfo, reqVars, flagVars, cfoVars
<1>5. ASSUME NEW i \in Items, DeleteItem(i)
      PROVE  CfoLineInv'
  BY <1>5 DEF DeleteItem, CanDeleteItem, MarkDeleted, TypeOK, LinkInv, CfoLineInv,
      Active, Returned, DecidedByCfo, reqVars, flagVars, cfoVars
<1>6. ASSUME NEW i \in Items, NEW d \in Decisions, DecideCfo(i, d)
      PROVE  CfoLineInv'
  BY <1>6 DEF DecideCfo, RecordCfoDecision, CanDecideCfo, TypeOK, LinkInv, CfoLineInv,
      Active, Returned, DecidedByCfo, reqVars, flagVars, cfoVars, Decisions
<1>7. ASSUME NEW r \in Requests, CompleteCfoReview(r)
      PROVE  CfoLineInv'
  BY <1>7 DEF CompleteCfoReview, CfoLineInv, Returned, DecidedByCfo, flagVars, cfoVars
<1>8. ASSUME NEW p \in Positions, SubmitToEconomist(p)
      PROVE  CfoLineInv'
  BY <1>8 DEF SubmitToEconomist, CanSubmitToEconomist, HandToEconomist, TypeOK, LinkInv,
      CfoLineInv, Active, Returned, DecidedByCfo, reqVars, flagVars, cfoVars
<1>9. ASSUME NEW i \in Items, NEW d \in Decisions, DecideItemEconomist(i, d)
      PROVE  CfoLineInv'
  BY <1>9 DEF DecideItemEconomist, CanDecideEconomist, LinkInv, CfoLineInv,
      CfoPositionInv, LinesOf, Active,
    Returned, DecidedByCfo, reqVars, flagVars, cfoVars
<1>10. ASSUME NEW p \in Positions, CompleteEconomistReview(p)
      PROVE  CfoLineInv'
  BY <1>10 DEF CompleteEconomistReview, CanCompleteReview, CfoLineInv, Returned,
      DecidedByCfo, reqVars,
    flagVars, cfoVars
<1>11. ASSUME NEW p \in Positions, NEW S \in SUBSET Items, FreezePosition(p, S)
      PROVE  CfoLineInv'
  BY <1>11 DEF FreezePosition, CanFreeze, OpenLines, CfoLineInv, CfoPositionInv,
      Returned,
    DecidedByCfo, reqVars, cfoVars
<1>12. ASSUME NEW p \in Positions, NEW S \in SUBSET Items, ApproveItemsAtStep(p, S)
      PROVE  CfoLineInv'
  BY <1>12 DEF ApproveItemsAtStep, CanApprove, OpenLines, CfoLineInv, CfoPositionInv,
      AtReviewer,
    Reviewers, Returned, DecidedByCfo, reqVars, cfoVars
<1>13. ASSUME NEW p \in Positions, ForwardAtStep(p)
      PROVE  CfoLineInv'
  BY <1>13 DEF ForwardAtStep, CanForward, CfoLineInv, Returned, DecidedByCfo, reqVars,
      flagVars,
    cfoVars
<1>14. ASSUME NEW p \in Positions, FixPosition(p)
      PROVE  CfoLineInv'
  BY <1>14 DEF FixPosition, CanFix, OpenLines, CfoLineInv, CfoPositionInv, AtReviewer,
      Reviewers,
    Returned, DecidedByCfo, cfoVars
<1>15. ASSUME NEW r \in Requests, NEW S \in SUBSET ItemsOf(r),
              CfoRevisionFromRegister(r, S)
      PROVE  CfoLineInv'
  BY <1>15 DEF CfoRevisionFromRegister, TypeOK, CfoLineInv, Returned, DecidedByCfo,
    flagVars
<1>16. ASSUME NEW p \in Positions, NEW S \in SUBSET Items, UnfreezePosition(p, S)
      PROVE  CfoLineInv'
  BY <1>16 DEF UnfreezePosition, CanUnfreeze, CfoLineInv, Returned, DecidedByCfo,
      reqVars, cfoVars
<1>17. ASSUME NEW p \in Positions, UnfixPosition(p)
      PROVE  CfoLineInv'
  BY <1>17 DEF UnfixPosition, AllFixed, LinkInv, CfoLineInv, Returned, DecidedByCfo,
    cfoVars
<1>18. ASSUME NEW p \in Positions, NEW target \in Steps, NEW S \in SUBSET Items,
              NEW T \in SUBSET S, ReturnPosition(p, S, T, target)
      PROVE  CfoLineInv'
  BY <1>18 DEF ReturnPosition, CanReturn, OpenLines, CfoLineInv, CfoPositionInv,
      Returned,
    DecidedByCfo, reqVars
<1>19. CASE UNCHANGED vars
  BY <1>19 DEF vars, CfoLineInv, Returned, DecidedByCfo, reqVars, flagVars, cfoVars
<1> QED
  BY <1>1, <1>2, <1>3, <1>4, <1>5, <1>6, <1>7, <1>8, <1>9, <1>10, <1>11, <1>12, <1>13,
     <1>14, <1>15, <1>16, <1>17, <1>18, <1>19
     DEF Next, ModuleStep, CfoStep, EconomistStep, ReviewerStep, ReworkStep

LEMMA CfoRequestNext ==
    TypeOK /\ LinkInv /\ CfoLineInv /\ CfoRequestInv /\ CfoPositionInv /\ [Next]_vars
      => CfoRequestInv'
<1> SUFFICES ASSUME TypeOK, LinkInv, CfoLineInv, CfoRequestInv, CfoPositionInv, [Next]_vars
             PROVE  CfoRequestInv'
    OBVIOUS
<1> USE RouteAssumption
<1>1. ASSUME NEW r \in Requests, CreateRequest(r)
      PROVE  CfoRequestInv'
  BY <1>1 DEF CreateRequest, CfoRequestInv, ItemsOf, Active, DecidedByCfo, cfoVars
<1>2. ASSUME NEW r \in Requests, DeleteRequest(r)
      PROVE  CfoRequestInv'
  BY <1>2 DEF DeleteRequest, CfoRequestInv, ItemsOf, Active, DecidedByCfo, cfoVars
<1>3. ASSUME NEW r \in Requests, Submit(r)
      PROVE  CfoRequestInv'
  BY <1>3 DEF Submit, HandToCfo, CfoRequestInv, ItemsOf, Active, DecidedByCfo
<1>4. ASSUME NEW i \in Items, CreateItem(i)
      PROVE  CfoRequestInv'
  BY <1>4 DEF CreateItem, CanCreateItem, InsertItem, TypeOK, LinkInv, CfoRequestInv,
      ItemsOf, Active, DecidedByCfo, reqVars, cfoVars
<1>5. ASSUME NEW i \in Items, DeleteItem(i)
      PROVE  CfoRequestInv'
  BY <1>5 DEF DeleteItem, CanDeleteItem, MarkDeleted, TypeOK, LinkInv, CfoRequestInv,
      ItemsOf, Active, DecidedByCfo, reqVars, cfoVars
<1>6. ASSUME NEW i \in Items, NEW d \in Decisions, DecideCfo(i, d)
      PROVE  CfoRequestInv'
  BY <1>6 DEF DecideCfo, RecordCfoDecision, CanDecideCfo, TypeOK, LinkInv,
      CfoRequestInv, ItemsOf, Active, DecidedByCfo, reqVars, cfoVars, Decisions
<1>7. ASSUME NEW r \in Requests, CompleteCfoReview(r)
      PROVE  CfoRequestInv'
  BY <1>7 DEF CompleteCfoReview, CfoRequestInv, ItemsOf, Active, DecidedByCfo, cfoVars
<1>8. ASSUME NEW p \in Positions, SubmitToEconomist(p)
      PROVE  CfoRequestInv'
  BY <1>8 DEF SubmitToEconomist, CanSubmitToEconomist, HandToEconomist, TypeOK, LinkInv,
      CfoRequestInv, ItemsOf, Active, DecidedByCfo, reqVars, cfoVars
<1>9. ASSUME NEW i \in Items, NEW d \in Decisions, DecideItemEconomist(i, d)
      PROVE  CfoRequestInv'
  BY <1>9 DEF DecideItemEconomist, CanDecideEconomist, LinkInv, CfoLineInv,
      CfoRequestInv, ItemsOf, Active,
    DecidedByCfo, reqVars, cfoVars
<1>10. ASSUME NEW p \in Positions, CompleteEconomistReview(p)
      PROVE  CfoRequestInv'
  BY <1>10 DEF CompleteEconomistReview, CanCompleteReview, CfoRequestInv, ItemsOf,
      Active, DecidedByCfo,
    reqVars, cfoVars
<1>11. ASSUME NEW p \in Positions, NEW S \in SUBSET Items, FreezePosition(p, S)
      PROVE  CfoRequestInv'
  BY <1>11 DEF FreezePosition, CanFreeze, CfoRequestInv, ItemsOf, Active,
      DecidedByCfo, reqVars,
    cfoVars
<1>12. ASSUME NEW p \in Positions, NEW S \in SUBSET Items, ApproveItemsAtStep(p, S)
      PROVE  CfoRequestInv'
  BY <1>12 DEF ApproveItemsAtStep, CanApprove, CfoRequestInv, ItemsOf, Active,
      DecidedByCfo, reqVars,
    cfoVars
<1>13. ASSUME NEW p \in Positions, ForwardAtStep(p)
      PROVE  CfoRequestInv'
  BY <1>13 DEF ForwardAtStep, CanForward, CfoRequestInv, ItemsOf, Active,
      DecidedByCfo, reqVars,
    cfoVars
<1>14. ASSUME NEW p \in Positions, FixPosition(p)
      PROVE  CfoRequestInv'
  BY <1>14 DEF FixPosition, CanFix, SyncedStatus, DerivedStatus, CfoLineInv,
      CfoRequestInv,
    ItemsOf, Active, DecidedByCfo, cfoVars
<1>15. ASSUME NEW r \in Requests, NEW S \in SUBSET ItemsOf(r),
              CfoRevisionFromRegister(r, S)
      PROVE  CfoRequestInv'
  BY <1>15 DEF CfoRevisionFromRegister, CfoRequestInv, ItemsOf, Active, DecidedByCfo
<1>16. ASSUME NEW p \in Positions, NEW S \in SUBSET Items, UnfreezePosition(p, S)
      PROVE  CfoRequestInv'
  BY <1>16 DEF UnfreezePosition, CanUnfreeze, CfoRequestInv, ItemsOf, Active,
      DecidedByCfo, reqVars,
    cfoVars
<1>17. ASSUME NEW p \in Positions, UnfixPosition(p)
      PROVE  CfoRequestInv'
  BY <1>17 DEF UnfixPosition, SyncedStatus, DerivedStatus, CfoLineInv, CfoRequestInv,
    ItemsOf, Active, DecidedByCfo, cfoVars
<1>18. ASSUME NEW p \in Positions, NEW target \in Steps, NEW S \in SUBSET Items,
              NEW T \in SUBSET S, ReturnPosition(p, S, T, target)
      PROVE  CfoRequestInv'
  BY <1>18 DEF ReturnPosition, CanReturn, OpenLines, CfoRequestInv, ItemsOf, LinesOf,
      Active,
    DecidedByCfo, reqVars
<1>19. CASE UNCHANGED vars
  BY <1>19 DEF vars, CfoRequestInv, ItemsOf, Active, DecidedByCfo, reqVars, cfoVars
<1> QED
  BY <1>1, <1>2, <1>3, <1>4, <1>5, <1>6, <1>7, <1>8, <1>9, <1>10, <1>11, <1>12, <1>13,
     <1>14, <1>15, <1>16, <1>17, <1>18, <1>19
     DEF Next, ModuleStep, CfoStep, EconomistStep, ReviewerStep, ReworkStep

LEMMA CfoPositionNext ==
    TypeOK /\ LinkInv /\ CfoLineInv /\ CfoRequestInv /\ CfoPositionInv /\ [Next]_vars
      => CfoPositionInv'
<1> SUFFICES ASSUME TypeOK, LinkInv, CfoLineInv, CfoRequestInv, CfoPositionInv, [Next]_vars
             PROVE  CfoPositionInv'
    OBVIOUS
<1> USE RouteAssumption
<1>1. ASSUME NEW r \in Requests, CreateRequest(r)
      PROVE  CfoPositionInv'
  BY <1>1 DEF CreateRequest, CfoPositionInv, LinesOf, Active, DecidedByCfo, flagVars,
    cfoVars, posVars
<1>2. ASSUME NEW r \in Requests, DeleteRequest(r)
      PROVE  CfoPositionInv'
  BY <1>2 DEF DeleteRequest, TypeOK, CfoPositionInv, LinesOf, Active, DecidedByCfo,
    flagVars, cfoVars, posVars
<1>3. ASSUME NEW r \in Requests, Submit(r)
      PROVE  CfoPositionInv'
  BY <1>3 DEF Submit, HandToCfo, CfoPositionInv, LinesOf, Active, DecidedByCfo
<1>4. ASSUME NEW i \in Items, CreateItem(i)
      PROVE  CfoPositionInv'
  BY <1>4 DEF CreateItem, CanCreateItem, InsertItem, TypeOK, LinkInv, CfoPositionInv,
      LinesOf, Active, DecidedByCfo, flagVars, cfoVars, posVars
<1>5. ASSUME NEW i \in Items, DeleteItem(i)
      PROVE  CfoPositionInv'
  BY <1>5 DEF DeleteItem, CanDeleteItem, MarkDeleted, TypeOK, LinkInv, CfoPositionInv,
      LinesOf, Active, DecidedByCfo, flagVars, cfoVars, posVars
<1>6. ASSUME NEW i \in Items, NEW d \in Decisions, DecideCfo(i, d)
      PROVE  CfoPositionInv'
  BY <1>6 DEF DecideCfo, RecordCfoDecision, CanDecideCfo, TypeOK, LinkInv,
      CfoPositionInv, LinesOf, Active, DecidedByCfo, flagVars, cfoVars, posVars,
      Decisions
<1>7. ASSUME NEW r \in Requests, CompleteCfoReview(r)
      PROVE  CfoPositionInv'
  BY <1>7 DEF CompleteCfoReview, CfoPositionInv, LinesOf, Active, DecidedByCfo,
      flagVars,
    cfoVars, posVars
<1>8. ASSUME NEW p \in Positions, SubmitToEconomist(p)
      PROVE  CfoPositionInv'
  <2>1. ASSUME NEW i \in LinesOf(p) PROVE DecidedByCfo(i)
    <3>1. /\ i \in ItemsOf(ReqOf[i]) /\ ReqOf[i] \in Requests
          /\ reqStatus[ReqOf[i]] \notin {"absent", "draft"}
      BY DEF TypeOK, LinkInv, LinesOf, ItemsOf
    <3>2. reqStatus[ReqOf[i]] = "on_review" => ReqOf[i] \in reviewDone
      BY <1>8, <3>1 DEF SubmitToEconomist, CanSubmitToEconomist
    <3> QED
      BY <3>1, <3>2 DEF TypeOK, RequestStatus, CfoRequestInv
  <2> QED
    BY <1>8, <2>1 DEF SubmitToEconomist, HandToEconomist, TypeOK, CfoPositionInv,
        LinesOf,
      Active, DecidedByCfo, flagVars, cfoVars
<1>9. ASSUME NEW i \in Items, NEW d \in Decisions, DecideItemEconomist(i, d)
      PROVE  CfoPositionInv'
  BY <1>9 DEF DecideItemEconomist, CanDecideEconomist, LinkInv, CfoLineInv,
      CfoPositionInv, LinesOf, Active,
    DecidedByCfo, flagVars, cfoVars, posVars
<1>10. ASSUME NEW p \in Positions, CompleteEconomistReview(p)
      PROVE  CfoPositionInv'
  BY <1>10 DEF CompleteEconomistReview, CanCompleteReview, CfoPositionInv, LinesOf,
      Active, DecidedByCfo,
    flagVars, cfoVars
<1>11. ASSUME NEW p \in Positions, NEW S \in SUBSET Items, FreezePosition(p, S)
      PROVE  CfoPositionInv'
  BY <1>11 DEF FreezePosition, CanFreeze, TypeOK, CfoPositionInv, LinesOf, Active,
      DecidedByCfo,
    reqVars, cfoVars, econVars
<1>12. ASSUME NEW p \in Positions, NEW S \in SUBSET Items, ApproveItemsAtStep(p, S)
      PROVE  CfoPositionInv'
  BY <1>12 DEF ApproveItemsAtStep, CanApprove, CfoPositionInv, LinesOf, Active,
      DecidedByCfo, cfoVars
<1>13. ASSUME NEW p \in Positions, ForwardAtStep(p)
      PROVE  CfoPositionInv'
  BY <1>13 DEF ForwardAtStep, CanForward, CfoPositionInv, LinesOf, Active, AtReviewer,
      Reviewers,
    DecidedByCfo, flagVars, cfoVars
<1>14. ASSUME NEW p \in Positions, FixPosition(p)
      PROVE  CfoPositionInv'
  BY <1>14 DEF FixPosition, CanFix, CfoPositionInv, LinesOf, Active, DecidedByCfo,
      cfoVars
<1>15. ASSUME NEW r \in Requests, NEW S \in SUBSET ItemsOf(r),
              CfoRevisionFromRegister(r, S)
      PROVE  CfoPositionInv'
  BY <1>15 DEF CfoRevisionFromRegister, TypeOK, CfoPositionInv, LinesOf, Active,
    DecidedByCfo, flagVars
<1>16. ASSUME NEW p \in Positions, NEW S \in SUBSET Items, UnfreezePosition(p, S)
      PROVE  CfoPositionInv'
  BY <1>16 DEF UnfreezePosition, CanUnfreeze, CfoPositionInv, LinesOf, Active,
      DecidedByCfo, cfoVars
<1>17. ASSUME NEW p \in Positions, UnfixPosition(p)
      PROVE  CfoPositionInv'
  BY <1>17 DEF UnfixPosition, AllFixed, TypeOK, LinkInv, CfoLineInv, CfoPositionInv,
    LinesOf, Active, DecidedByCfo, cfoVars
<1>18. ASSUME NEW p \in Positions, NEW target \in Steps, NEW S \in SUBSET Items,
              NEW T \in SUBSET S, ReturnPosition(p, S, T, target)
      PROVE  CfoPositionInv'
  BY <1>18 DEF ReturnPosition, CanReturn, TypeOK, LinkInv, CfoLineInv, CfoPositionInv,
      LinesOf,
    Active, AtReviewer, Reviewers, DecidedByCfo
<1>19. CASE UNCHANGED vars
  BY <1>19 DEF vars, CfoPositionInv, LinesOf, Active, DecidedByCfo, flagVars, cfoVars,
    posVars
<1> QED
  BY <1>1, <1>2, <1>3, <1>4, <1>5, <1>6, <1>7, <1>8, <1>9, <1>10, <1>11, <1>12, <1>13,
     <1>14, <1>15, <1>16, <1>17, <1>18, <1>19
     DEF Next, ModuleStep, CfoStep, EconomistStep, ReviewerStep, ReworkStep

LEMMA EconNext ==
    TypeOK /\ LinkInv /\ FixationIsWhole /\ EconInv /\ [Next]_vars => EconInv'
<1> SUFFICES ASSUME TypeOK, LinkInv, FixationIsWhole, EconInv, [Next]_vars
             PROVE  EconInv'
    OBVIOUS
<1> USE RouteAssumption
<1>1. ASSUME NEW r \in Requests, CreateRequest(r)
      PROVE  EconInv'
  BY <1>1 DEF CreateRequest, EconInv, LinesOf, Active, AtReviewer, DecidedByEcon,
    flagVars, econVars, posVars
<1>2. ASSUME NEW r \in Requests, DeleteRequest(r)
      PROVE  EconInv'
  BY <1>2 DEF DeleteRequest, TypeOK, EconInv, LinesOf, Active, AtReviewer,
      DecidedByEcon,
    flagVars, econVars, posVars
<1>3. ASSUME NEW r \in Requests, Submit(r)
      PROVE  EconInv'
  BY <1>3 DEF Submit, HandToCfo, CanSubmit, AcceptsLines, SubmittedLines, TypeOK,
      LinkInv, EconInv, LinesOf, Active, AtReviewer, DecidedByEcon, flagVars, econVars,
      posVars, ItemsOf, Reviewers, IsRevision, Returned
<1>4. ASSUME NEW i \in Items, CreateItem(i)
      PROVE  EconInv'
  BY <1>4 DEF CreateItem, CanCreateItem, InsertItem, TypeOK, LinkInv, EconInv, LinesOf,
      Active, AtReviewer, DecidedByEcon, flagVars, econVars, posVars
<1>5. ASSUME NEW i \in Items, DeleteItem(i)
      PROVE  EconInv'
  BY <1>5 DEF DeleteItem, CanDeleteItem, MarkDeleted, TypeOK, LinkInv, EconInv, LinesOf,
      Active, AtReviewer, DecidedByEcon, flagVars, econVars, posVars
<1>6. ASSUME NEW i \in Items, NEW d \in Decisions, DecideCfo(i, d)
      PROVE  EconInv'
  BY <1>6 DEF DecideCfo, RecordCfoDecision, CanDecideCfo, TypeOK, LinkInv, EconInv,
      LinesOf, Active, AtReviewer, DecidedByEcon, flagVars, econVars, posVars
<1>7. ASSUME NEW r \in Requests, CompleteCfoReview(r)
      PROVE  EconInv'
  BY <1>7 DEF CompleteCfoReview, EconInv, LinesOf, Active, AtReviewer, DecidedByEcon,
    flagVars, econVars, posVars
<1>8. ASSUME NEW p \in Positions, SubmitToEconomist(p)
      PROVE  EconInv'
  BY <1>8 DEF SubmitToEconomist, CanSubmitToEconomist, HandToEconomist, TypeOK, LinkInv,
      EconInv, LinesOf, Active, AtReviewer, DecidedByEcon, flagVars, econVars, posVars,
      Reviewers
<1>9. ASSUME NEW i \in Items, NEW d \in Decisions, DecideItemEconomist(i, d)
      PROVE  EconInv'
  BY <1>9 DEF DecideItemEconomist, CanDecideEconomist, Decisions, TypeOK, EconInv,
      LinesOf, Active,
    AtReviewer, DecidedByEcon, flagVars, posVars
<1>10. ASSUME NEW p \in Positions, CompleteEconomistReview(p)
      PROVE  EconInv'
  BY <1>10 DEF CompleteEconomistReview, CanCompleteReview, EconomistDecided, EconInv,
      LinesOf, Active,
    AtReviewer, DecidedByEcon, flagVars, econVars
<1>11. ASSUME NEW p \in Positions, NEW S \in SUBSET Items, FreezePosition(p, S)
      PROVE  EconInv'
  BY <1>11 DEF FreezePosition, CanFreeze, OpenLines, TypeOK, EconInv, LinesOf, Active,
      AtReviewer,
    DecidedByEcon, econVars
<1>12. ASSUME NEW p \in Positions, NEW S \in SUBSET Items, ApproveItemsAtStep(p, S)
      PROVE  EconInv'
  <2>1. /\ AtReviewer(p)
        /\ S \subseteq OpenLines(p)
        /\ frozen' = frozen \cup S
        /\ UNCHANGED <<itemStatus, linked, econDecision, posStatus, posStep>>
    BY <1>12 DEF ApproveItemsAtStep, CanApprove, econVars
  <2>2. \A i \in S : DecidedByEcon(i)
    BY <2>1 DEF EconInv, OpenLines
  <2> QED
    BY <2>1, <2>2 DEF EconInv, AtReviewer, Reviewers, LinesOf, Active, DecidedByEcon
<1>13. ASSUME NEW p \in Positions, ForwardAtStep(p)
      PROVE  EconInv'
  BY <1>13 DEF ForwardAtStep, CanForward, EconInv, LinesOf, Active, AtReviewer,
      DecidedByEcon,
    flagVars, econVars
<1>14. ASSUME NEW p \in Positions, FixPosition(p)
      PROVE  EconInv'
  <2>1. /\ AtReviewer(p)
        /\ frozen' = frozen \cup OpenLines(p)
        /\ posStatus' = [posStatus EXCEPT ![p] = "approved"]
        /\ posStep' = [posStep EXCEPT ![p] = NoStep]
        /\ UNCHANGED <<itemStatus, linked, econDecision>>
    BY <1>14 DEF FixPosition, CanFix, econVars
  <2>2. \A i \in OpenLines(p) : DecidedByEcon(i)
    BY <2>1 DEF EconInv, OpenLines
  <2> QED
    BY <2>1, <2>2 DEF EconInv, TypeOK, AtReviewer, Reviewers, LinesOf, Active,
        DecidedByEcon
<1>15. ASSUME NEW r \in Requests, NEW S \in SUBSET ItemsOf(r),
              CfoRevisionFromRegister(r, S)
      PROVE  EconInv'
  BY <1>15 DEF CfoRevisionFromRegister, TypeOK, EconInv, ItemsOf, LinesOf, Active,
    AtReviewer, DecidedByEcon, flagVars, econVars
<1>16. ASSUME NEW p \in Positions, NEW S \in SUBSET Items, UnfreezePosition(p, S)
      PROVE  EconInv'
  BY <1>16 DEF UnfreezePosition, CanUnfreeze, EconInv, LinesOf, Active, AtReviewer,
      DecidedByEcon,
    econVars
<1>17. ASSUME NEW p \in Positions, UnfixPosition(p)
      PROVE  EconInv'
  BY <1>17 DEF UnfixPosition, AllFixed, LinkInv, EconInv, LinesOf, Active, AtReviewer,
    DecidedByEcon, econVars
<1>18. ASSUME NEW p \in Positions, NEW target \in Steps, NEW S \in SUBSET Items,
              NEW T \in SUBSET S, ReturnPosition(p, S, T, target)
      PROVE  EconInv'
  BY <1>18 DEF ReturnPosition, CanReturn, OpenLines, PendingDecisions,
      EconomistDecided, TypeOK,
    EconInv, LinesOf, Active, AtReviewer, DecidedByEcon
<1>19. CASE UNCHANGED vars
  BY <1>19 DEF vars, EconInv, LinesOf, Active, AtReviewer, DecidedByEcon, flagVars,
    econVars, posVars
<1> QED
  BY <1>1, <1>2, <1>3, <1>4, <1>5, <1>6, <1>7, <1>8, <1>9, <1>10, <1>11, <1>12, <1>13,
     <1>14, <1>15, <1>16, <1>17, <1>18, <1>19
     DEF Next, ModuleStep, CfoStep, EconomistStep, ReviewerStep, ReworkStep


\* Every line at the economist or above has the decision of the CFO, every
\* frozen line the decision of the economist.
THEOREM Stages == Spec => []StagesDecided
<1> DEFINE Inv == TypeOK /\ LinkInv /\ FixationIsWhole /\ DecidedInv
<1>1. Init => Inv
  BY TypeInit, LinkInit, FixationInit, DecidedInit
<1>2. Inv /\ [Next]_vars => Inv'
  BY TypeNext, LinkNext, FixationNext, CfoLineNext, CfoRequestNext, CfoPositionNext,
      EconNext
     DEF DecidedInv
<1>3. Inv => StagesDecided
  BY DEF DecidedInv, CfoPositionInv, EconInv, StagesDecided, DecidedByCfo, DecidedByEcon
<1> QED
  BY <1>1, <1>2, <1>3, PTL DEF Spec

(***************************************************************************)
(* Decisions after a return.  The property is about steps, and rests on    *)
(* what the economist's "approved" and the frozen flags of a returned line *)
(* say about the decisions made since the return.                          *)
(***************************************************************************)

\* No reviewer stands below the economist, as in every route the code builds by
\* itself (nothing keeps an administrator from drawing another one, and then the
\* CFO may hand on what was returned to that reviewer), and no two steps stand
\* above each other (_assert_graph)
UpwardRoute ==
    /\ \A s \in Reviewers : <<s, Econ>> \notin Edges
    /\ \A s, t \in Steps : <<s, t>> \in Edges => <<t, s>> \notin Edges

\* A return names lines of its own position
ReturnOwnInv == \A p \in Positions : \A i \in lastReturn[p] : PosOf[i] = p

\* What the economist has completed includes new decisions on the returned lines
EconReviewInv ==
    \A p \in Positions :
        posStep[p] = Econ /\ posStatus[p] = "approved"
            => lastReturn[p] \cap LinesOf(p) \subseteq econFresh

\* At a reviewer a position is in approval or on revision; on revision, a
\* returned line is closed again only by an approval at that step
ReviewerInv ==
    \A p \in Positions : AtReviewer(p) =>
        /\ posStatus[p] \in {"on_approval", "on_revision"}
        /\ posStatus[p] = "on_revision"
              => lastReturn[p] \cap frozen \subseteq approvedAt[p][posStep[p]]

RedecidedInv == ReturnOwnInv /\ EconReviewInv /\ ReviewerInv

LEMMA RedecidedInit == Init => RedecidedInv
BY RouteAssumption
   DEF Init, RedecidedInv, ReturnOwnInv, EconReviewInv, ReviewerInv, AtReviewer,
   Reviewers

LEMMA RedecidedNext ==
    TypeOK /\ LinkInv /\ FixationIsWhole /\ AboveEconomistFrozen /\ RedecidedInv
        /\ [Next]_vars => RedecidedInv'
<1> SUFFICES ASSUME TypeOK, LinkInv, FixationIsWhole, AboveEconomistFrozen, RedecidedInv,
                    [Next]_vars
             PROVE  RedecidedInv'
    OBVIOUS
<1> USE RouteAssumption DEF RedecidedInv, ReturnOwnInv, EconReviewInv, ReviewerInv
<1>0. Econ \notin Reviewers /\ Leaf \notin Reviewers /\ NoStep \notin Reviewers /\ Econ # Leaf
  BY DEF Reviewers
\* Steps that change neither the positions nor the returns nor a frozen flag,
\* and revive no line that is not decided by the economist anew
<1>quiet. ASSUME UNCHANGED <<posVars, linked, frozen>>, econFresh \subseteq econFresh',
                 \A i \in linked : Active(i)' => Active(i) \/ i \in econFresh'
          PROVE  RedecidedInv'
  BY <1>quiet DEF posVars, AtReviewer, LinesOf
<1>1. ASSUME NEW r \in Requests, CreateRequest(r) PROVE RedecidedInv'
  BY <1>1, <1>quiet DEF CreateRequest, flagVars, econVars, Active
<1>2. ASSUME NEW r \in Requests, DeleteRequest(r) PROVE RedecidedInv'
  BY <1>2, <1>quiet DEF DeleteRequest, flagVars, econVars, Active, TypeOK
<1>3. ASSUME NEW r \in Requests, Submit(r) PROVE RedecidedInv'
  <2> DEFINE affected == {PosOf[i] : i \in SubmittedLines(r)}
  <2>1. /\ linked' = linked \cup SubmittedLines(r)
        /\ posStatus' = [p \in Positions |-> IF p \in affected THEN "on_review" ELSE posStatus[p]]
        /\ posStep' = [p \in Positions |-> IF p \in affected THEN Leaf ELSE posStep[p]]
        /\ UNCHANGED <<itemStatus, frozen, econFresh, lastReturn, approvedAt>>
    BY <1>3 DEF Submit, HandToCfo, econVars
  <2>2. \A p \in Positions \ affected : LinesOf(p)' = LinesOf(p)
    BY <2>1 DEF LinesOf, Active
  <2> QED
    BY <1>0, <2>1, <2>2 DEF AtReviewer
<1>4. ASSUME NEW i \in Items, CreateItem(i) PROVE RedecidedInv'
  <2>1. i \notin linked
    BY <1>4 DEF CreateItem, CanCreateItem, LinkInv
  <2> QED
    BY <1>4, <2>1, <1>quiet DEF CreateItem, InsertItem, flagVars, econVars, Active,
        TypeOK
<1>5. ASSUME NEW i \in Items, DeleteItem(i) PROVE RedecidedInv'
  BY <1>5, <1>quiet DEF DeleteItem, CanDeleteItem, MarkDeleted, flagVars, econVars,
      Active, TypeOK
<1>6. ASSUME NEW i \in Items, NEW d \in Decisions, DecideCfo(i, d) PROVE RedecidedInv'
  BY <1>6, <1>quiet DEF DecideCfo, CanDecideCfo, RecordCfoDecision, flagVars,
      econVars, Active, TypeOK
<1>7. ASSUME NEW r \in Requests, CompleteCfoReview(r) PROVE RedecidedInv'
  BY <1>7, <1>quiet DEF CompleteCfoReview, flagVars, econVars, Active
<1>8. ASSUME NEW p \in Positions, SubmitToEconomist(p) PROVE RedecidedInv'
  BY <1>0, <1>8 DEF SubmitToEconomist, HandToEconomist, flagVars, econVars, TypeOK,
      AtReviewer, LinesOf, Active
<1>9. ASSUME NEW i \in Items, NEW d \in Decisions, DecideItemEconomist(i, d) PROVE RedecidedInv'
  BY <1>9, <1>quiet DEF DecideItemEconomist, CanDecideEconomist, flagVars, Active,
      TypeOK
<1>10. ASSUME NEW p \in Positions, CompleteEconomistReview(p) PROVE RedecidedInv'
  <2>1. lastReturn[p] \cap LinesOf(p) \subseteq econFresh
    BY <1>10 DEF CompleteEconomistReview, CanCompleteReview, EconomistDecided
  <2>2. posStep[p] = Econ /\ posStatus' = [posStatus EXCEPT ![p] = "approved"]
        /\ UNCHANGED <<itemStatus, linked, frozen, econFresh, posStep, lastReturn, approvedAt>>
    BY <1>10 DEF CompleteEconomistReview, CanCompleteReview, flagVars, econVars
  <2> QED
    BY <1>0, <2>1, <2>2 DEF TypeOK, AtReviewer, LinesOf, Active
<1>11. ASSUME NEW p \in Positions, NEW S \in SUBSET Items, FreezePosition(p, S)
       PROVE  RedecidedInv'
  <2>1. /\ posStep[p] = Econ /\ S \subseteq OpenLines(p) /\ frozen' = frozen \cup S
        /\ UNCHANGED <<itemStatus, linked, econFresh, lastReturn>>
    BY <1>11 DEF FreezePosition, CanFreeze, econVars
  <2>2. \A q \in Positions \ {p} :
           lastReturn[q] \cap frozen' = lastReturn[q] \cap frozen
    BY <2>1 DEF OpenLines, LinesOf
  <2>3. CASE UNCHANGED <<posStatus, posStep, approvedAt>>
    BY <1>0, <2>1, <2>2, <2>3 DEF AtReviewer, LinesOf, Active
  <2>4. CASE \E next \in NextSteps(Econ) :
                /\ posStatus' = [posStatus EXCEPT ![p] = "on_approval"]
                /\ posStep' = [posStep EXCEPT ![p] = next]
                /\ approvedAt' = ClearedApprovals(p, next)
    BY <1>0, <2>1, <2>2, <2>4 DEF TypeOK, ClearedApprovals, AtReviewer, LinesOf, Active
  <2> QED
    BY <1>11, <2>3, <2>4 DEF FreezePosition, CanFreeze
<1>12. ASSUME NEW p \in Positions, NEW S \in SUBSET Items, ApproveItemsAtStep(p, S)
       PROVE  RedecidedInv'
  <2>1. /\ AtReviewer(p) /\ S \subseteq OpenLines(p) /\ frozen' = frozen \cup S
        /\ approvedAt' = [approvedAt EXCEPT ![p][posStep[p]] = @ \cup S]
        /\ UNCHANGED <<itemStatus, linked, econFresh, posStatus, posStep, lastReturn>>
    BY <1>12 DEF ApproveItemsAtStep, CanApprove, econVars
  <2>2. \A q \in Positions \ {p} :
           lastReturn[q] \cap frozen' = lastReturn[q] \cap frozen
    BY <2>1 DEF OpenLines, LinesOf
  <2>3. /\ approvedAt'[p][posStep[p]] = approvedAt[p][posStep[p]] \cup S
        /\ \A q \in Positions \ {p} : approvedAt'[q] = approvedAt[q]
    BY <2>1 DEF TypeOK, AtReviewer
  <2> QED
    BY <2>1, <2>2, <2>3 DEF AtReviewer, LinesOf, Active
<1>13. ASSUME NEW p \in Positions, ForwardAtStep(p) PROVE RedecidedInv'
  BY <1>0, <1>13 DEF ForwardAtStep, CanForward, flagVars, econVars, TypeOK,
      AtReviewer, LinesOf, Active
<1>14. ASSUME NEW p \in Positions, FixPosition(p) PROVE RedecidedInv'
  <2>1. /\ posStatus' = [posStatus EXCEPT ![p] = "approved"]
        /\ posStep' = [posStep EXCEPT ![p] = NoStep]
        /\ frozen' = frozen \cup OpenLines(p)
        /\ UNCHANGED <<itemStatus, linked, econFresh, lastReturn, approvedAt>>
    BY <1>14 DEF FixPosition, CanFix, econVars
  <2>2. \A q \in Positions \ {p} :
           lastReturn[q] \cap frozen' = lastReturn[q] \cap frozen
    BY <2>1 DEF OpenLines, LinesOf
  <2>3. NoStep # Econ
    OBVIOUS
  <2> QED
    BY <1>0, <2>1, <2>2, <2>3 DEF TypeOK, AtReviewer, LinesOf, Active
<1>15. ASSUME NEW r \in Requests, NEW S \in SUBSET ItemsOf(r), CfoRevisionFromRegister(r, S)
       PROVE  RedecidedInv'
  <2> DEFINE affected == {PosOf[i] : i \in S \cap linked}
  <2>1. /\ \A i \in S : Active(i) /\ i \notin frozen
        /\ posStatus' = [p \in Positions |-> IF p \in affected THEN "on_revision" ELSE posStatus[p]]
        /\ itemStatus' = [i \in Items |-> IF i \in S THEN "on_review" ELSE itemStatus[i]]
        /\ UNCHANGED <<linked, frozen, econFresh, posStep, lastReturn, approvedAt>>
    BY <1>15 DEF CfoRevisionFromRegister, Revisable, flagVars, econVars
  <2>2. \A p \in Positions : LinesOf(p)' \subseteq LinesOf(p)
    BY <2>1 DEF LinesOf, Active, TypeOK
  \* A position in approval above the economist has no open line to send back
  <2>3. \A p \in affected : AtReviewer(p) => posStatus[p] = "on_revision"
    <3>1. SUFFICES ASSUME NEW i \in S \cap linked, AtReviewer(PosOf[i]),
                          posStatus[PosOf[i]] = "on_approval"
                   PROVE  FALSE
      BY DEF TypeOK
    <3>2. i \in LinesOf(PosOf[i])
      BY <2>1 DEF LinesOf, TypeOK
    <3> QED
      BY <2>1, <3>1, <3>2 DEF AboveEconomistFrozen, AllFrozen, TypeOK
  <2> QED
    BY <2>1, <2>2, <2>3 DEF AtReviewer
<1>16. ASSUME NEW p \in Positions, NEW S \in SUBSET Items, UnfreezePosition(p, S)
       PROVE  RedecidedInv'
  BY <1>0, <1>16 DEF UnfreezePosition, CanUnfreeze, econVars, TypeOK, AtReviewer,
      LinesOf, Active
<1>17. ASSUME NEW p \in Positions, UnfixPosition(p) PROVE RedecidedInv'
  <2>1. PICK s \in Reviewers :
           /\ posStep' = [posStep EXCEPT ![p] = s]
           /\ posStatus' = [posStatus EXCEPT ![p] = "on_approval"]
           /\ frozen' = frozen \cup LinesOf(p)
           /\ UNCHANGED <<itemStatus, linked, econFresh, lastReturn, approvedAt>>
    BY <1>17 DEF UnfixPosition, econVars
  <2>2. \A q \in Positions \ {p} :
           lastReturn[q] \cap frozen' = lastReturn[q] \cap frozen
    BY <2>1 DEF LinesOf
  <2> QED
    BY <1>0, <2>1, <2>2 DEF TypeOK, AtReviewer, LinesOf, Active
<1>18. ASSUME NEW p \in Positions, NEW target \in Steps, NEW S \in SUBSET Items,
              NEW T \in SUBSET S, ReturnPosition(p, S, T, target)
       PROVE  RedecidedInv'
  <2>1. /\ S \subseteq OpenLines(p)
        /\ frozen' = frozen \ S
        /\ itemStatus' = [i \in Items |-> IF i \in T THEN "approved" ELSE itemStatus[i]]
        /\ posStatus' = [posStatus EXCEPT ![p] = "on_revision"]
        /\ posStep' = [posStep EXCEPT ![p] = target]
        /\ lastReturn' = [lastReturn EXCEPT ![p] = S]
        /\ approvedAt' = ClearedApprovals(p, target)
        /\ econFresh' = {i \in econFresh : PosOf[i] # p}
        /\ linked' = linked
    BY <1>18 DEF ReturnPosition, CanReturn
  <2>2. \A i \in S : PosOf[i] = p /\ Active(i)
    BY <2>1 DEF OpenLines, LinesOf
  <2>3. \A q \in Positions : LinesOf(q)' \subseteq LinesOf(q)
    BY <2>1, <2>2 DEF LinesOf, Active, TypeOK
  <2>4. \A q \in Positions \ {p} : /\ posStep'[q] = posStep[q] /\ posStatus'[q] = posStatus[q]
                                   /\ lastReturn'[q] = lastReturn[q]
                                   /\ approvedAt'[q] = approvedAt[q]
    BY <2>1 DEF TypeOK, ClearedApprovals
  <2>5. lastReturn'[p] = S /\ posStatus'[p] = "on_revision"
    BY <2>1 DEF TypeOK
  <2>6. \A q \in Positions : \A i \in LinesOf(q) : PosOf[i] = q
    BY DEF LinesOf
  <2>7. ReturnOwnInv'
    BY <2>2, <2>4, <2>5
  <2>8. EconReviewInv'
    BY <2>1, <2>3, <2>4, <2>5, <2>6
  <2>9. ReviewerInv'
    BY <2>1, <2>4, <2>5 DEF AtReviewer
  <2> QED
    BY <2>7, <2>8, <2>9
<1>19. CASE UNCHANGED vars
  BY <1>19, <1>quiet DEF vars, flagVars, econVars, Active
<1> QED
  BY <1>1, <1>2, <1>3, <1>4, <1>5, <1>6, <1>7, <1>8, <1>9, <1>10, <1>11, <1>12, <1>13,
     <1>14, <1>15, <1>16, <1>17, <1>18, <1>19
     DEF Next, ModuleStep, CfoStep, EconomistStep, ReviewerStep, ReworkStep

\* What a move up asks for in ReturnedLinesRedecided
Redecided(p) ==
    LET returned == lastReturn[p] \cap LinesOf(p)
    IN  /\ posStep[p] = Econ => returned \subseteq econFresh
        /\ AtReviewer(p) /\ posStatus[p] = "on_revision"
              => returned \subseteq approvedAt[p][posStep[p]]

LEMMA RedecidedStep ==
    ASSUME UpwardRoute, TypeOK, LinkInv, FixationIsWhole, AboveEconomistFrozen, RedecidedInv,
           Next, NEW p \in Positions, MovesUp(p)
    PROVE  Redecided(p)
<1> USE RouteAssumption
<1>0. /\ Econ \notin Reviewers /\ Leaf \notin Reviewers /\ NoStep \notin Steps
      /\ posStep[p] # posStep'[p] /\ <<posStep[p], posStep'[p]>> \in Edges
      /\ posStep[p] \in Steps /\ posStep'[p] \in Steps
  BY DEF MovesUp, Reviewers
<1>1. CASE ModuleStep
  <2>1. PICK r \in Requests : Submit(r)
    BY <1>0, <1>1 DEF ModuleStep, CreateRequest, DeleteRequest, CreateItem, InsertItem,
        DeleteItem, MarkDeleted, posVars
  <2>2. posStep[p] \in {NoStep, Leaf}
    BY <1>0, <2>1 DEF Submit, HandToCfo, CanSubmit, AcceptsLines
  <2> QED
    BY <1>0, <2>2 DEF Redecided, AtReviewer
<1>2. CASE CfoStep
  <2>1. SubmitToEconomist(p)
    BY <1>0, <1>2 DEF CfoStep, DecideCfo, RecordCfoDecision, CompleteCfoReview,
        SubmitToEconomist, HandToEconomist, posVars, TypeOK
  <2>2. posStep'[p] = Econ
    BY <2>1 DEF SubmitToEconomist, HandToEconomist, TypeOK
  <2> QED
    BY <1>0, <2>2 DEF Redecided, AtReviewer, UpwardRoute
<1>3. CASE EconomistStep
  <2>1. PICK S \in SUBSET Items : FreezePosition(p, S)
    <3>1. ASSUME NEW q \in Positions, NEW S \in SUBSET Items, FreezePosition(q, S), q # p
          PROVE  FALSE
      BY <1>0, <3>1 DEF FreezePosition, CanFreeze, TypeOK
    <3> QED
      BY <1>0, <1>3, <3>1 DEF EconomistStep, DecideItemEconomist, CanDecideEconomist,
          CompleteEconomistReview, CanCompleteReview, posVars
  <2> QED
    BY <1>0, <2>1 DEF FreezePosition, CanFreeze, Redecided, AtReviewer, RedecidedInv,
        EconReviewInv
<1>4. CASE ReviewerStep
  <2>1. ForwardAtStep(p)
    <3>1. ASSUME NEW q \in Positions, ForwardAtStep(q), q # p PROVE FALSE
      BY <1>0, <3>1 DEF ForwardAtStep, CanForward, TypeOK
    <3>2. ASSUME NEW q \in Positions, FixPosition(q) PROVE FALSE
      BY <1>0, <3>2 DEF FixPosition, CanFix, TypeOK
    <3> QED
      BY <1>0, <1>4, <3>1, <3>2 DEF ReviewerStep, ApproveItemsAtStep, CanApprove
  <2>2. AtReviewer(p) /\ LinesOf(p) \subseteq frozen
    BY <2>1 DEF ForwardAtStep, CanForward, AllFrozen
  <2> QED
    BY <1>0, <2>2 DEF Redecided, AtReviewer, RedecidedInv, ReviewerInv
<1>5. CASE ReworkStep
  <2>1. PICK target \in Steps, S \in SUBSET Items, T \in SUBSET Items :
           ReturnPosition(p, S, T, target)
    <3>1. ASSUME NEW q \in Positions, UnfixPosition(q) PROVE FALSE
      <4>1. PICK i \in LinesOf(q) : i \in fixed
        BY <3>1 DEF UnfixPosition, AllFixed
      <4> QED
        BY <1>0, <3>1, <4>1 DEF UnfixPosition, FixationIsWhole, LinesOf, TypeOK
    <3>2. ASSUME NEW q \in Positions, NEW target \in Steps, NEW S \in SUBSET Items,
                 NEW T \in SUBSET S, ReturnPosition(q, S, T, target), q # p
          PROVE  FALSE
      BY <1>0, <3>2 DEF ReturnPosition, CanReturn, TypeOK
    <3>3. ASSUME NEW target \in Steps, NEW S \in SUBSET Items, NEW T \in SUBSET S,
                 ReturnPosition(p, S, T, target)
          PROVE  \E t \in Steps, U \in SUBSET Items, V \in SUBSET Items :
                    ReturnPosition(p, U, V, t)
      BY <3>3
    <3> QED
      BY <1>0, <1>5, <3>1, <3>2, <3>3 DEF ReworkStep, CfoRevisionFromRegister,
          UnfreezePosition, CanUnfreeze
  <2>2. posStep[p] = Econ => LinesOf(p) \subseteq EconomistDecided(p)
    BY <2>1 DEF ReturnPosition, CanReturn, PendingDecisions
  <2>3. target \in Children(posStep[p]) /\ posStep'[p] = target
    BY <2>1 DEF ReturnPosition, CanReturn, TypeOK
  <2> QED
    BY <1>0, <2>2, <2>3 DEF Redecided, UpwardRoute, Children, EconomistDecided
<1> QED
  BY <1>1, <1>2, <1>3, <1>4, <1>5 DEF Next

\* The economist or the reviewer to whom lines were returned sends the position
\* up only with a new decision on each of them, on every route that leads up.
THEOREM ReturnedRedecided ==
    ASSUME UpwardRoute
    PROVE  Spec => ReturnedLinesRedecided
<1> DEFINE Inv == TypeOK /\ LinkInv /\ FixationIsWhole /\ AboveEconomistFrozen /\ RedecidedInv
<1>1. Init => Inv
  BY TypeInit, LinkInit, FixationInit, AboveInit, RedecidedInit
<1>2. Inv /\ [Next]_vars => Inv'
  BY TypeNext, LinkNext, FixationNext, AboveNext, RedecidedNext
<1>3. Inv /\ [Next]_vars =>
         [\A p \in Positions : MovesUp(p) =>
             LET returned == lastReturn[p] \cap LinesOf(p)
             IN  /\ posStep[p] = Econ => returned \subseteq econFresh
                 /\ AtReviewer(p) /\ posStatus[p] = "on_revision"
                       => returned \subseteq approvedAt[p][posStep[p]]]_vars
  BY RedecidedStep DEF Redecided
<1> QED
  BY <1>1, <1>2, <1>3, PTL DEF Spec, ReturnedLinesRedecided

(***************************************************************************)
(* What the approval register offers.                                      *)
(***************************************************************************)

LEMMA StepsDiffer ==
    /\ Leaf \in Steps /\ Econ \in Steps /\ Leaf # Econ /\ Author # Leaf /\ Author # Econ
    /\ NoStep # Leaf /\ NoStep # Econ
    /\ Leaf \notin Reviewers /\ Econ \notin Reviewers /\ Author \notin Reviewers
    /\ NoStep \notin Reviewers
BY RouteAssumption, AuthorAssumption DEF Reviewers

(***************************************************************************)
(* What follows from the flags alone, in any state.                        *)
(***************************************************************************)

\* The CFO takes part in a position at the CFO's step only
LEMMA LeafActs ==
    ASSUME NEW i, i \in linked
    PROVE  /\ ~IsApprovalActionable(Leaf, i) /\ ~IsPositionEditable(Leaf, i)
           /\ ~IsWorkflowRevision(Leaf, i) /\ ~IsWorkflowReturn(Leaf, i)
           /\ ~IsEconomistCompletion(Leaf, i)
           /\ IsWorkflowSubmission(Leaf, i) => CanSubmitPosition(Leaf, PosOf[i])
BY StepsDiffer
   DEF IsApprovalActionable, IsPositionEditable, OwnsStep, IsWorkflowRevision,
       CanReturnMarked, IsWorkflowReturn, CanReturnReviewed, IsEconomistCompletion,
       CanCompleteEconomist, IsWorkflowSubmission, CanSubmitReviewed

\* A line the CFO may send up with its position can be submitted
LEMMA SubmitsAsWorkflow ==
    ASSUME NEW i, Active(i), IsWorkflowSubmission(Leaf, i)
    PROVE  IsSubmission(Leaf, i)
<1>1. i \in linked /\ IsPackage(i) /\ NothingMarked(i)
  BY DEF IsWorkflowSubmission, IsPackage
<1>2. CanSubmitPosition(Leaf, PosOf[i])
  BY <1>1, LeafActs
<1>3. i \notin Returned(ReqOf[i])
  BY <1>1, <1>2 DEF CanSubmitPosition, LinesOf
<1> QED
  BY <1>1, <1>2, <1>3 DEF IsSubmission

\* Who is not at the step of the position is offered nothing of it
LEMMA OthersWait ==
    ASSUME NEW u \in Users, NEW i, posStep[PosOf[i]] # u
    PROVE  /\ ~IsApprovalActionable(u, i) /\ ~IsDecisionEditable(u, i)
           /\ ~IsSubmission(u, i) /\ ~IsWorkflowSubmission(u, i)
           /\ ~IsWorkflowRevision(u, i)
BY DEF IsApprovalActionable, OwnsStep, IsDecisionEditable, IsCfoEditable, CfoStageOpen,
       IsPositionEditable, IsSubmission, IsWorkflowSubmission, IsWorkflowRevision,
       CanSubmitPosition, CanSubmitReviewed, CanCompleteEconomist, CanReturnMarked

LEMMA StatusOfOthers ==
    ASSUME NEW u \in Users, NEW i, i \in linked \ fixed,
           posStep[PosOf[i]] # NoStep, posStep[PosOf[i]] # u
    PROVE  RowStatus(u, i, "approved") \notin Final
<1>1. ~IsDecisionEditable(u, i) /\ ~IsSubmission(u, i)
  BY OthersWait
<1>2. WaitsForOthers(u, i) \/ RowOnRevision(i) \/ itemStatus[i] \notin Final
  BY OthersWait DEF WaitsForOthers
<1>3. RowStatus(u, i, "approved")
         \in {"selected for revision", "in approval", "decided again", "your decision",
              "on revision", "draft", "request rejected", "cfo review", "earlier steps"}
  BY <1>1, <1>2 DEF RowStatus
<1> QED
  BY <1>3 DEF Final

\* In no state does a row show a final decision to somebody who is not at the
\* step its position is at.
THEOREM RouteIsShown == Spec => []ActiveRouteShown
<1>1. ActiveRouteShown
  <2>1. ASSUME NEW i \in Rows(linked) \ fixed, posStep[PosOf[i]] # NoStep,
               NEW u \in Users \ {posStep[PosOf[i]]}
        PROVE  RowStatus(u, i, "approved") \notin Final
    BY <2>1, StatusOfOthers DEF Rows
  <2> QED
    BY <2>1 DEF ActiveRouteShown, Rows
<1> QED
  BY <1>1, PTL

(***************************************************************************)
(* Who is asked has the button.  The status of a group compares counts of  *)
(* positions; what the buttons need is one position that is neither to be  *)
(* submitted nor to be completed.                                          *)
(***************************************************************************)

LEMMA CountedPosition ==
    ASSUME NEW A \in SUBSET Positions, NEW S \in SUBSET Positions,
           NEW C \in SUBSET Positions,
           Cardinality(A) > Cardinality(S) + Cardinality(C)
    PROVE  \E p \in A : p \notin S /\ p \notin C
<1>1. IsFiniteSet(S) /\ IsFiniteSet(C)
  BY PositionsAssumption, FS_Subset
<1>2. IsFiniteSet(S \cup C) /\ IsFiniteSet(S \cap C)
  BY <1>1, PositionsAssumption, FS_Subset
<1>3. Cardinality(S \cup C) = Cardinality(S) + Cardinality(C) - Cardinality(S \cap C)
  BY <1>1, FS_Union
<1>4. /\ Cardinality(S) \in Nat /\ Cardinality(C) \in Nat
      /\ Cardinality(S \cup C) \in Nat /\ Cardinality(S \cap C) \in Nat
  BY <1>1, <1>2, FS_CardinalityType
<1>5. ASSUME A \subseteq S \cup C PROVE FALSE
  <2>1. IsFiniteSet(A) /\ Cardinality(A) <= Cardinality(S \cup C)
    BY <1>2, <1>5, FS_Subset
  <2>2. Cardinality(A) \in Nat
    BY <2>1, FS_CardinalityType
  <2> QED
    BY <1>3, <1>4, <2>1, <2>2
<1> QED
  BY <1>5

\* The asked user has more to do with a group than to submit or complete it
LEMMA SomethingToDecide ==
    ASSUME NEW u \in Steps, NEW S \in SUBSET Items, \A i \in S : Active(i),
           AsksDecision(u, S), ~HasCfoActions(u, S)
    PROVE  u # Leaf /\ HasWorkflow(u, S)
<1> DEFINE Asked == {i \in S : IsPositionActionable(u, i)}
           Done  == {i \in S : IsEconomistCompletion(u, i)}
<1>1. /\ PositionsIn(Asked) \subseteq Positions /\ PositionsIn(Done) \subseteq Positions
      /\ SubmissionPositions(u, S) \subseteq Positions
  BY RouteAssumption DEF PositionsIn, SubmissionPositions
<1>2. PICK p \in PositionsIn(Asked) :
         p \notin SubmissionPositions(u, S) /\ p \notin PositionsIn(Done)
  <2>1. Cardinality(PositionsIn(Asked))
           > Cardinality(SubmissionPositions(u, S)) + Cardinality(PositionsIn(Done))
    BY DEF AsksDecision
  <2> HIDE DEF Asked, Done
  <2> QED
    BY <1>1, <2>1, CountedPosition
<1>3. PICK i \in S \cap linked : IsPositionActionable(u, i) /\ p = PosOf[i]
  BY <1>2 DEF PositionsIn
<1>4. ~IsSubmission(u, i) /\ ~IsEconomistCompletion(u, i)
  BY <1>2, <1>3 DEF SubmissionPositions, PositionsIn
<1>5. u # Leaf
  BY <1>3, <1>4, LeafActs, SubmitsAsWorkflow DEF IsPositionActionable
<1>6. RoleOfUser(u) # "employee"
  BY <1>5, RouteAssumption, AuthorAssumption DEF RoleOfUser
<1> QED
  BY <1>3, <1>5, <1>6 DEF HasWorkflow

\* A decision asked for is a button of the lines or of the whole group
LEMMA DecisionHasButton ==
    ASSUME NEW u \in Steps, NEW S \in SUBSET Items, \A i \in S : Active(i),
           AsksDecision(u, S)
    PROVE  \/ GroupButtons(u, S) \cap {"approve lines", "hand on", "fix"} # {}
           \/ u = Econ /\ "return" \in GroupButtons(u, S)
<1>1. CASE HasCfoActions(u, S)
  BY <1>1 DEF GroupButtons
<1>2. CASE HasLock(u, S)
  BY <1>2 DEF GroupButtons
<1>3. CASE ~HasCfoActions(u, S) /\ ~HasLock(u, S) /\ HasPackage(u, S)
  BY <1>3, SomethingToDecide DEF GroupButtons
<1>4. CASE ~HasCfoActions(u, S) /\ ~HasLock(u, S) /\ ~HasPackage(u, S)
  BY <1>4, SomethingToDecide DEF GroupButtons, DecidesLines
<1> QED
  BY <1>1, <1>2, <1>3, <1>4

\* The responsible of the CFO hands the submitted lines on
LEMMA HandOverHasButton ==
    ASSUME NEW u \in Steps, NEW S \in SUBSET Items, Unsubmitted = {},
           ~HasCfoActions(u, S), SubmissionPositions(u, S) # {}
    PROVE  "hand on" \in GroupButtons(u, S)
<1>1. PICK i \in S : IsSubmission(u, i)
  BY DEF SubmissionPositions, PositionsIn
<1>2. u = Leaf /\ i \in linked
  BY <1>1 DEF IsSubmission, CanSubmitPosition, IsPackage
<1>3. RoleOfUser(u) = "employee"
  BY <1>2 DEF RoleOfUser
<1>4. HasPackage(u, S) /\ HasWorkflow(u, S) /\ ~HasLock(u, S)
  BY <1>1, <1>2, <1>3 DEF HasPackage, HasWorkflow, HasLock, IsPositionActionable
<1> QED
  BY <1>4 DEF GroupButtons

\* The economist hands on what is decided unless the CFO has marked a line
LEMMA CompletionHasButton ==
    ASSUME NEW u \in Steps, NEW r \in Requests, RequestOpen(r), PendingRevision(r) = {},
           \E i \in ItemsOf(r) : IsEconomistCompletion(u, i)
    PROVE  "hand on" \in GroupButtons(u, ItemsOf(r))
<1> DEFINE S == ItemsOf(r)
<1>1. PICK i \in S : IsEconomistCompletion(u, i)
  OBVIOUS
<1>2. u = Econ /\ i \in linked /\ IsPackage(i) /\ CanCompleteEconomist(u, PosOf[i])
  BY <1>1 DEF IsEconomistCompletion, CanCompleteEconomist, IsPackage
<1>3. ReqOf[i] = r /\ i \in OpenLines(PosOf[i])
  BY <1>1, <1>2 DEF ItemsOf, OpenLines, LinesOf, IsPackage
<1>4. IsWorkflowSubmission(u, i)
  BY <1>2, <1>3 DEF IsWorkflowSubmission, NothingMarked
<1>5. RoleOfUser(u) = "economist"
  BY <1>2, StepsDiffer, RouteAssumption DEF RoleOfUser
<1>6. ReadyPositions(u, S) # {}
  BY <1>1, <1>2, <1>4 DEF ReadyPositions, PositionsIn
<1>7. HasPackage(u, S) /\ HasWorkflow(u, S) /\ ~HasLock(u, S)
  BY <1>1, <1>2, <1>5, <1>6, <1>4 DEF HasPackage, HasWorkflow, HasLock, IsPositionActionable
<1> QED
  BY <1>7 DEF GroupButtons

\* In no state is a user asked in vain, for any number of positions in a group.
THEOREM AskedActs == Spec => []AskedCanAct
<1>1. AskedCanAct
  <2> SUFFICES ASSUME NEW u \in Steps, NEW r \in Requests, Unsubmitted = {}, RequestOpen(r)
               PROVE  LET S == ItemsOf(r)
                          asked == GroupStatus(u, S)
                          buttons == GroupButtons(u, S)
                      IN  /\ asked = "your decision" =>
                                \/ buttons \cap {"approve lines", "hand on", "fix"} # {}
                                \/ u = Econ /\ "return" \in buttons
                          /\ asked = "hand over" => "hand on" \in buttons
                          /\ asked = "approve and hand over" /\ PendingRevision(r) = {}
                                => "hand on" \in buttons
                          /\ asked = "complete the review" => "complete" \in buttons
    BY DEF AskedCanAct, ModuleRows
  <2> DEFINE S == ItemsOf(r)
  <2>0. S \in SUBSET Items /\ \A i \in S : Active(i)
    BY DEF ItemsOf
  <2>1. ASSUME GroupStatus(u, S) = "your decision"
        PROVE  \/ GroupButtons(u, S) \cap {"approve lines", "hand on", "fix"} # {}
               \/ u = Econ /\ "return" \in GroupButtons(u, S)
    <3>1. AsksDecision(u, S)
      BY <2>1 DEF GroupStatus
    <3> QED
      BY <2>0, <3>1, DecisionHasButton
  <2>2. ASSUME GroupStatus(u, S) = "hand over" PROVE "hand on" \in GroupButtons(u, S)
    <3>1. SubmissionPositions(u, S) # {} /\ ~AsksDecision(u, S)
      BY <2>2 DEF GroupStatus
    <3>2. ~HasCfoActions(u, S)
      BY <3>1 DEF AsksDecision
    <3> QED
      BY <2>0, <3>1, <3>2, HandOverHasButton
  <2>3. ASSUME GroupStatus(u, S) = "approve and hand over", PendingRevision(r) = {}
        PROVE  "hand on" \in GroupButtons(u, S)
    <3>1. \E i \in S : IsEconomistCompletion(u, i)
      BY <2>3 DEF GroupStatus
    <3> QED
      BY <2>3, <3>1, CompletionHasButton
  <2>4. ASSUME GroupStatus(u, S) = "complete the review"
        PROVE  "complete" \in GroupButtons(u, S)
    <3>1. CompletableRequests(u, S) # {} /\ ~AsksDecision(u, S)
      BY <2>4 DEF GroupStatus
    <3> QED
      BY <3>1 DEF AsksDecision, HasComplete, GroupButtons
  <2> QED
    BY <2>1, <2>2, <2>3, <2>4
<1> QED
  BY <1>1, PTL

(***************************************************************************)
(* What is offered is accepted.  The flags of the register are compared    *)
(* with the conditions of the handlers in every reachable state; what the  *)
(* two read differs, and the invariants of the workflow bridge it: a       *)
(* linked line belongs to a submitted request, a returned line was decided *)
(* by the CFO, a position on the route has no fixed line, and a line above *)
(* the economist is frozen unless it was returned.                         *)
(***************************************************************************)

\* The route of one CFO: one step of the CFO, one of the economist, a reviewer
\* hands on to exactly one step and the ZGD to none
PlainRoute ==
    \A s \in Steps :
        /\ Role[s] = "cfo" => s = Leaf
        /\ Role[s] = "economist" => s = Econ
        /\ Role[s] \in {"economist", "approver"} => NextSteps(s) # {}
        /\ Role[s] = "zgd" => Parents(s) = {}

\* What was returned from above had been decided by the CFO on its way up
ReturnedDecided == \A p \in Positions : \A i \in lastReturn[p] : DecidedByCfo(i)

LEMMA ReturnedDecidedNext ==
    TypeOK /\ CfoPositionInv /\ ReturnedDecided /\ [Next]_vars => ReturnedDecided'
<1> SUFFICES ASSUME TypeOK, CfoPositionInv, ReturnedDecided, [Next]_vars
             PROVE  ReturnedDecided'
    OBVIOUS
<1> USE DEF ReturnedDecided, DecidedByCfo
<1>quiet. ASSUME UNCHANGED <<lastReturn, cfoDecision>> PROVE ReturnedDecided'
  BY <1>quiet
<1>decide. ASSUME NEW i \in Items, NEW d \in Decisions, DecideCfo(i, d)
           PROVE  ReturnedDecided'
  BY <1>decide DEF DecideCfo, RecordCfoDecision, posVars, Decisions, TypeOK
<1>revise. ASSUME NEW r \in Requests, NEW S \in SUBSET ItemsOf(r),
                  CfoRevisionFromRegister(r, S)
           PROVE  ReturnedDecided'
  BY <1>revise DEF CfoRevisionFromRegister, TypeOK
<1>return. ASSUME NEW p \in Positions, NEW target \in Steps, NEW S \in SUBSET Items,
                  NEW T \in SUBSET S, ReturnPosition(p, S, T, target)
           PROVE  ReturnedDecided'
  <2>1. /\ S \subseteq LinesOf(p) /\ posStep[p] \notin {Leaf, NoStep}
        /\ lastReturn' = [lastReturn EXCEPT ![p] = S]
        /\ cfoDecision' = cfoDecision
    BY <1>return, StepsDiffer DEF ReturnPosition, CanReturn, OpenLines, AtReviewer
  <2>2. \A i \in S : cfoDecision[i] # "none"
    BY <2>1 DEF CfoPositionInv
  <2> QED
    BY <2>1, <2>2 DEF TypeOK
<1>modules. CASE ModuleStep
  <2>1. UNCHANGED <<lastReturn, cfoDecision>>
    BY <1>modules DEF ModuleStep, CreateRequest, DeleteRequest, Submit, HandToCfo,
        CreateItem, InsertItem, DeleteItem, MarkDeleted, cfoVars, posVars
  <2> QED
    BY <2>1, <1>quiet
<1>cfo. CASE \/ \E r \in Requests : CompleteCfoReview(r)
             \/ \E p \in Positions : SubmitToEconomist(p)
  BY <1>cfo, <1>quiet
     DEF CompleteCfoReview, SubmitToEconomist, HandToEconomist, cfoVars, posVars
<1>economist. CASE EconomistStep
  <2>1. UNCHANGED <<lastReturn, cfoDecision>>
    BY <1>economist DEF EconomistStep, DecideItemEconomist, CompleteEconomistReview,
        FreezePosition, cfoVars, posVars
  <2> QED
    BY <2>1, <1>quiet
<1>reviewer. CASE ReviewerStep
  <2>1. UNCHANGED <<lastReturn, cfoDecision>>
    BY <1>reviewer DEF ReviewerStep, ApproveItemsAtStep, ForwardAtStep, FixPosition,
        cfoVars
  <2> QED
    BY <2>1, <1>quiet
<1>back. CASE \/ \E p \in Positions, S \in SUBSET Items : UnfreezePosition(p, S)
              \/ \E p \in Positions : UnfixPosition(p)
  BY <1>back, <1>quiet DEF UnfreezePosition, UnfixPosition, cfoVars
<1>stay. CASE UNCHANGED vars
  BY <1>stay, <1>quiet DEF vars, cfoVars, posVars
<1> QED
  BY <1>decide, <1>revise, <1>return, <1>modules, <1>cfo, <1>economist, <1>reviewer,
     <1>back, <1>stay
     DEF Next, CfoStep, ReworkStep

\* What the register is compared with
WorkflowInv ==
    /\ TypeOK /\ LinkInv /\ FixationIsWhole /\ AboveEconomistFrozen
    /\ DecidedInv /\ RedecidedInv /\ ReturnedDecided

LEMMA WorkflowHolds == Spec => []WorkflowInv
<1>1. Init => WorkflowInv
  <2>1. Init => ReturnedDecided
    BY DEF Init, ReturnedDecided
  <2> QED
    BY <2>1, TypeInit, LinkInit, FixationInit, AboveInit, DecidedInit, RedecidedInit
       DEF WorkflowInv
<1>2. WorkflowInv /\ [Next]_vars => WorkflowInv'
  BY TypeNext, LinkNext, FixationNext, AboveNext, CfoLineNext, CfoRequestNext,
      CfoPositionNext, EconNext, RedecidedNext, ReturnedDecidedNext
     DEF WorkflowInv, DecidedInv
<1> QED
  BY <1>1, <1>2, PTL DEF Spec

\* A position on the route has no fixed line
LEMMA OnRouteOpen ==
    ASSUME WorkflowInv, NEW p \in Positions, posStep[p] # NoStep
    PROVE  OpenLines(p) = LinesOf(p)
BY DEF WorkflowInv, FixationIsWhole, OpenLines, LinesOf

(* The rows *)

LEMMA CfoOffer ==
    ASSUME WorkflowInv, NEW u, NEW i \in Items, Active(i),
           IsCfoActionable(u, i) \/ IsCfoEditable(u, i), Returned(ReqOf[i]) = {}
    PROVE  CanDecideCfo(i)
<1> DEFINE r == ReqOf[i]
<1>0. r \in Requests /\ PosOf[i] \in Positions
  BY RouteAssumption
<1>1. i \in linked /\ RequestOpen(r) => reqStatus[r] = "on_review"
  BY <1>0 DEF WorkflowInv, LinkInv, TypeOK, RequestStatus, RequestOpen
<1>2. CfoRevision(i) => cfoDecision[i] # "none"
  BY <1>0 DEF CfoRevision, WorkflowInv, ReturnedDecided, DecidedByCfo
<1>3. CASE IsCfoReview(i) /\ InCycle(i) /\ ~Closed(i)
  BY <1>3 DEF IsCfoReview, CanDecideCfo, Closed
<1>4. CASE IsCfoRevisionActionable(u, i)
  BY <1>1, <1>2, <1>4 DEF IsCfoRevisionActionable, CfoRevision, CanDecideCfo, Closed
<1>5. CASE IsCfoEditable(u, i)
  BY <1>1, <1>5 DEF IsCfoEditable, CfoStageOpen, CanDecideCfo, Closed
<1> QED
  BY <1>3, <1>4, <1>5 DEF IsCfoActionable

LEMMA ReviewerOffer ==
    ASSUME WorkflowInv, NEW u \in Reviewers, NEW i \in Items, Active(i),
           IsApprovalActionable(u, i) \/ IsPositionEditable(u, i)
    PROVE  CanApprove(PosOf[i], {i})
<1> DEFINE p == PosOf[i]
<1>0. p \in Positions /\ u # Econ
  BY RouteAssumption, StepsDiffer
<1>1. /\ i \in linked \ fixed /\ posStep[p] = u
      /\ i \in frozen \cup lastReturn[p]
  BY <1>0 DEF IsApprovalActionable, IsPositionEditable, OwnsStep
<1>2. AtReviewer(p) /\ i \in OpenLines(p) /\ i \in LinesOf(p)
  BY <1>1 DEF AtReviewer, OpenLines, LinesOf
<1>3. i \notin frozen => posStatus[p] = "on_revision"
  BY <1>0, <1>2 DEF WorkflowInv, AboveEconomistFrozen, AllFrozen, RedecidedInv, ReviewerInv
<1> QED
  BY <1>1, <1>2, <1>3 DEF CanApprove

LEMMA EconomistOffer ==
    ASSUME PlainRoute, NEW u \in Users \ Reviewers, NEW i \in Items,
           IsApprovalActionable(u, i) \/ IsPositionEditable(u, i)
    PROVE  CanDecideEconomist(i)
<1>1. u \in Steps /\ u # Leaf /\ posStep[PosOf[i]] = u /\ i \in linked \ fixed
  BY DEF IsApprovalActionable, IsPositionEditable, OwnsStep, Users
<1>2. u = Econ
  <2>1. u \notin Reviewers /\ Role[u] \in {"cfo", "economist", "approver", "zgd"}
    BY <1>1, RouteAssumption
  <2>2. Role[u] \in {"cfo", "economist"}
    BY <1>1, <2>1 DEF Reviewers
  <2>3. /\ Role[u] = "cfo" => u = Leaf
        /\ Role[u] = "economist" => u = Econ
    BY <1>1, Zenon DEF PlainRoute
  <2> QED
    BY <1>1, <2>2, <2>3
<1>3. i \notin frozen
  BY <1>2 DEF IsApprovalActionable, IsPositionEditable
<1> QED
  BY <1>1, <1>2, <1>3 DEF CanDecideEconomist

LEMMA RowsAccepted ==
    ASSUME PlainRoute, WorkflowInv
    PROVE  RowOffersAccepted
<1> SUFFICES ASSUME NEW u \in Users, NEW i \in Items, Active(i), IsRowActionable(u, i)
             PROVE  CASE Endpoint(u, i) = "cfo_review" ->
                            Returned(ReqOf[i]) = {} => CanDecideCfo(i)
                      [] Endpoint(u, i) = "economist"  -> CanDecideEconomist(i)
                      [] Endpoint(u, i) = "approver"   -> CanApprove(PosOf[i], {i})
  BY DEF RowOffersAccepted, Rows, RowDecisions
<1>1. Endpoint(u, i) = "cfo_review"
         => IsCfoActionable(u, i) \/ IsCfoEditable(u, i)
  BY DEF Endpoint, EditableStage
<1>2. Endpoint(u, i) # "cfo_review"
         => IsApprovalActionable(u, i) \/ IsPositionEditable(u, i)
  BY DEF Endpoint, EditableStage, IsRowActionable, IsDecisionEditable
<1>3. CASE Endpoint(u, i) = "cfo_review"
  BY <1>1, <1>3, CfoOffer
<1>4. CASE Endpoint(u, i) = "approver"
  BY <1>2, <1>4, ReviewerOffer DEF Endpoint
<1>5. CASE Endpoint(u, i) = "economist"
  BY <1>2, <1>5, EconomistOffer DEF Endpoint
<1> QED
  BY <1>3, <1>4, <1>5 DEF Endpoint

(* The groups *)

\* A group that can be handed on has a checkbox
LEMMA PackageSelectable ==
    ASSUME NEW u \in Users, NEW S, HasPackage(u, S)
    PROVE  GroupSelectable(u, S)
<1>1. CASE RoleOfUser(u) = "employee"
  <2>1. PICK i \in S : i \in linked /\ IsSubmission(u, i)
    BY <1>1 DEF HasPackage, SubmissionPositions, PositionsIn
  <2> QED
    BY <1>1, <2>1 DEF HasPackage, GroupSelectable, HasWorkflow, IsPositionActionable
<1>2. CASE RoleOfUser(u) # "employee"
  <2>1. PICK i \in S : i \in linked /\ IsWorkflowSubmission(u, i)
    BY <1>2 DEF HasPackage, ReadyPositions, PositionsIn
  <2> QED
    BY <1>2, <2>1 DEF GroupSelectable, HasWorkflow, IsPositionActionable
<1> QED
  BY <1>1, <1>2

\* What the economist may hand on is completely decided, none of it for revision
LEMMA EconomistPackage ==
    ASSUME WorkflowInv, NEW r \in Requests, MarkedPositions(Econ, ItemsOf(r)) = {},
           NEW p \in ReadyPositions(Econ, ItemsOf(r))
    PROVE  CanCompleteReview(p)
<1>1. PICK i \in ItemsOf(r) : i \in linked /\ p = PosOf[i] /\ IsWorkflowSubmission(Econ, i)
  BY DEF ReadyPositions, PositionsIn
<1>2. p \in Positions /\ i \in Items
  BY <1>1, RouteAssumption DEF ItemsOf
<1>3. /\ CanCompleteEconomist(Econ, p) /\ OpenLines(p) # {}
      /\ IsPackage(i) /\ RequestOpen(ReqOf[i])
  BY <1>1, StepsDiffer, RouteAssumption
     DEF IsWorkflowSubmission, CanSubmitPosition, CanSubmitReviewed
<1>4. OpenLines(p) = LinesOf(p)
  BY <1>2, <1>3, OnRouteOpen, StepsDiffer DEF CanCompleteEconomist
<1>5. ~CanReturnMarked(Econ, p)
  BY <1>1, <1>3 DEF MarkedPositions, PositionsIn, IsWorkflowRevision
<1>6. \A j \in LinesOf(p) : econDecision[j] # "on_revision"
  BY <1>3, <1>4, <1>5 DEF CanReturnMarked, CanCompleteEconomist
<1> QED
  BY <1>3, <1>6 DEF CanCompleteEconomist, CanCompleteReview

\* What a reviewer may hand on is frozen to the last line
LEMMA ReviewerPackage ==
    ASSUME PlainRoute, WorkflowInv, NEW u \in Steps \ {Leaf, Econ}, NEW r \in Requests,
           NEW p \in ReadyPositions(u, ItemsOf(r))
    PROVE  CanForward(p)
<1>1. PICK i \in ItemsOf(r) : i \in linked /\ p = PosOf[i] /\ IsWorkflowSubmission(u, i)
  BY DEF ReadyPositions, PositionsIn
<1>2. p \in Positions
  BY <1>1, RouteAssumption DEF ItemsOf
<1>3. CanSubmitReviewed(u, p)
  BY <1>1 DEF IsWorkflowSubmission, CanSubmitPosition, CanCompleteEconomist
<1>4. /\ posStep[p] = u /\ Role[u] = "approver" /\ AtReviewer(p)
      /\ OpenLines(p) # {} /\ OpenLines(p) \subseteq frozen
  BY <1>3 DEF CanSubmitReviewed, OwnsStep, AtReviewer, Reviewers
<1>5. OpenLines(p) = LinesOf(p)
  BY <1>2, <1>4, OnRouteOpen, RouteAssumption
<1>6. NextSteps(u) # {}
  BY <1>4 DEF PlainRoute
<1> QED
  BY <1>4, <1>5, <1>6 DEF CanForward, AllFrozen

LEMMA GroupsAccepted ==
    ASSUME PlainRoute, WorkflowInv
    PROVE  PackagesAccepted
<1> SUFFICES ASSUME NEW u \in Users, NEW r \in Requests, HasPackage(u, ItemsOf(r))
             PROVE  /\ GroupSelectable(u, ItemsOf(r))
                    /\ u \in Steps \ {Leaf} /\ MarkedPositions(u, ItemsOf(r)) = {} =>
                          \A p \in ReadyPositions(u, ItemsOf(r)) :
                             IF u = Econ THEN CanCompleteReview(p) ELSE CanForward(p)
  BY DEF PackagesAccepted, ModuleRows
<1> QED
  BY PackageSelectable, EconomistPackage, ReviewerPackage

(* The lock of the ZGD *)

LEMMA LockOffer ==
    ASSUME PlainRoute, WorkflowInv
    PROVE  LocksAccepted
<1> SUFFICES ASSUME NEW u \in Reviewers, NEW r \in Requests,
                    NEW p \in LockPositions(u, ItemsOf(r))
             PROVE  CanFix(p)
  BY DEF LocksAccepted, ModuleRows
<1>1. PICK i \in ItemsOf(r) : i \in linked /\ p = PosOf[i] /\ IsZgdLock(u, i)
  BY DEF LockPositions, PositionsIn
<1>2. /\ posStep[p] = u /\ u \in Steps /\ Role[u] = "zgd" /\ u # Econ
      /\ OpenLines(p) \subseteq approvedAt[p][u]
  BY <1>1, RouteAssumption DEF IsZgdLock, OwnsStep, Reviewers
<1>3. i \in OpenLines(p)
  BY <1>1 DEF IsZgdLock, IsPackage, ItemsOf, OpenLines, LinesOf
<1>4. AtReviewer(p) /\ Parents(posStep[p]) = {}
  BY <1>2 DEF AtReviewer, PlainRoute
<1>5. PendingDecisions(p, OpenLines(p)) = {}
  BY <1>2, <1>4 DEF PendingDecisions, AtReviewer
<1> QED
  BY <1>2, <1>3, <1>4, <1>5 DEF CanFix

\* On the route of one CFO, whatever the register offers on a row, on a group and
\* for the lock of the ZGD is accepted in every reachable state.
THEOREM RegisterOffers ==
    ASSUME PlainRoute
    PROVE  Spec => []OffersAccepted
<1>1. WorkflowInv => OffersAccepted
  BY RowsAccepted, GroupsAccepted, LockOffer DEF OffersAccepted
<1> QED
  BY <1>1, WorkflowHolds, PTL

(* The page of the positions *)

\* What the page of the positions offers for a position with lines is accepted.
THEOREM PageOffers ==
    ASSUME PlainRoute
    PROVE  Spec => []PageAccepted
<1>1. ASSUME WorkflowInv PROVE PageAccepted
  <2> SUFFICES ASSUME NEW u \in Steps, NEW p \in Positions, LinesOf(p) # {},
                      PageAction(u, p) # "none"
               PROVE  /\ PageAction(u, p) \in {"freeze", "unfreeze", "decide_items"}
                            => PageAccepts(PageAction(u, p), p)
                      /\ \A i \in LinesOf(p) : PageDecides(u, i) => CanDecideEconomist(i)
                      /\ "return" \in PageButtons(u, p) =>
                            \E t \in Children(u) : CanReturn(p, OpenLines(p), t)
    <3>1. \A u \in Steps : \A p \in Positions : PageAction(u, p) = "none" =>
             /\ "return" \notin PageButtons(u, p)
             /\ \A i \in LinesOf(p) : ~PageDecides(u, i)
      BY DEF PageButtons, PageDecides, LinesOf
    <3> QED
      BY <3>1 DEF PageAccepted
  <2>1. posStep[p] = u
    BY DEF PageAction
  <2>2. OpenLines(p) = LinesOf(p)
    BY <1>1, <2>1, OnRouteOpen, RouteAssumption
  <2>3. PageAction(u, p) = "freeze" => CanFreeze(p, OpenLines(p))
    <3>1. NextSteps(Econ) # {}
      BY RouteAssumption DEF PlainRoute
    <3> QED
      BY <2>1, <2>2, <3>1, RouteAssumption DEF PageAction, CanFreeze
  <2>4. PageAction(u, p) = "unfreeze" => CanUnfreeze(p, OpenLines(p))
    BY <2>1, <2>2 DEF PageAction, CanUnfreeze
  <2>5. PageAction(u, p) = "decide_items" => \E i \in Undecided(p) : CanDecideEconomist(i)
    BY <2>1 DEF PageAction, Undecided, LinesOf, CanDecideEconomist
  <2>6. \A i \in LinesOf(p) : PageDecides(u, i) => CanDecideEconomist(i)
    BY <2>1 DEF PageDecides, LinesOf, CanDecideEconomist
  <2>7. ASSUME "return" \in PageButtons(u, p)
        PROVE  \E t \in Children(u) : CanReturn(p, OpenLines(p), t)
    <3>1. u \in Reviewers /\ Children(u) # {}
      BY <2>7 DEF PageButtons, PageAction
    <3> QED
      BY <2>1, <2>2, <3>1, StepsDiffer DEF CanReturn, AtReviewer
  <2>8. ASSUME PageAction(u, p) \in {"freeze", "unfreeze", "decide_items"}
        PROVE  PageAccepts(PageAction(u, p), p)
    BY <2>3, <2>4, <2>5, <2>8 DEF PageAccepts
  <2> QED
    BY <2>6, <2>7, <2>8
<1> QED
  BY <1>1, WorkflowHolds, PTL

(***************************************************************************)
(* The life of a position: the workflow implements PositionLifecycle.      *)
(***************************************************************************)

\* Nobody hands on to the CFO, and only the CFO to the economist
OrderlyRoute ==
    \A s, t \in Steps : <<s, t>> \in Edges => t # Leaf /\ (t = Econ => s = Leaf)

LEMMA SameLines == \A p : Lifecycle!Lines(p) = LinesOf(p)
BY DEF Lifecycle!Lines, LinesOf, Active

LEMMA PlaceCases ==
    ASSUME NEW s
    PROVE  /\ s = NoStep <=> Place(s) = "outside"
           /\ s = Leaf <=> Place(s) = "cfo"
           /\ s = Econ <=> Place(s) = "economist"
           /\ s \notin {NoStep, Leaf, Econ} <=> Place(s) = "above"
BY StepsDiffer DEF Place

\* What is linked and open is on its way
LEMMA OpenIsOnRoute ==
    ASSUME TypeOK, LinkInv, FixationIsWhole, NEW i \in linked \ frozen, Active(i)
    PROVE  posStep[PosOf[i]] # NoStep
<1>1. PosOf[i] \in Positions /\ posStatus[PosOf[i]] # "absent" /\ i \in LinesOf(PosOf[i])
  BY RouteAssumption DEF TypeOK, LinkInv, LinesOf
<1> QED
  BY <1>1 DEF FixationIsWhole, AllFixed, LinkInv

\* A position on the route has no fixed line
LEMMA NothingFixedOnRoute ==
    ASSUME FixationIsWhole, NEW p \in Positions, posStep[p] # NoStep
    PROVE  OpenLines(p) = LinesOf(p)
BY DEF FixationIsWhole, OpenLines, LinesOf

\* Writing open lines
LEMMA WriteStep ==
    ASSUME TypeOK, TypeOK', UNCHANGED <<flagVars, posStep>>,
           \A i \in Items : itemStatus'[i] # itemStatus[i] =>
              i \notin frozen /\ (i \in linked => posStep[PosOf[i]] # NoStep)
    PROVE  Lifecycle!Write
<1>1. \A i \in Items : posStep[PosOf[i]] # NoStep => places[PosOf[i]] # "outside"
  BY PlaceCases, RouteAssumption DEF places
<1>2. places' = places
  BY DEF places
<1> QED
  BY <1>1, <1>2 DEF Lifecycle!Write, TypeOK, flagVars

\* Lines drafted, decided, returned to the module or deleted are open
LEMMA WritesAreOpen ==
    ASSUME TypeOK, LinkInv, FixationIsWhole, TypeOK',
           \/ \E r \in Requests : DeleteRequest(r)
           \/ \E i \in Items : CreateItem(i) \/ DeleteItem(i)
           \/ \E i \in Items, d \in Decisions : DecideCfo(i, d) \/ DecideItemEconomist(i, d)
           \/ \E r \in Requests : \E S \in SUBSET ItemsOf(r) : CfoRevisionFromRegister(r, S)
    PROVE  Lifecycle!Write
<1>1. UNCHANGED <<flagVars, posStep>>
  BY DEF DeleteRequest, CreateItem, InsertItem, DeleteItem, MarkDeleted, DecideCfo,
         RecordCfoDecision, DecideItemEconomist, CfoRevisionFromRegister, posVars
<1>2. ASSUME NEW i \in Items, itemStatus'[i] # itemStatus[i]
      PROVE  i \notin frozen /\ (i \in linked => posStep[PosOf[i]] # NoStep)
  <2>1. \A j \in Items : j \in linked =>
           reqStatus[ReqOf[j]] # "draft" /\ itemStatus[j] # "absent"
    BY DEF LinkInv
  <2>2. \A j \in Items : Active(j) /\ j \in linked \ frozen => posStep[PosOf[j]] # NoStep
    BY OpenIsOnRoute
  <2>3. ASSUME NEW r \in Requests, DeleteRequest(r) PROVE i \notin linked
    BY <1>2, <2>1, <2>3 DEF DeleteRequest
  <2>4. ASSUME NEW j \in Items, CreateItem(j) PROVE i \notin linked
    BY <1>2, <2>1, <2>4 DEF CreateItem, CanCreateItem, InsertItem, TypeOK
  <2>5. ASSUME NEW j \in Items, DeleteItem(j)
        PROVE  i \notin linked \/ (i \notin frozen /\ Active(i))
    BY <1>2, <2>1, <2>5 DEF DeleteItem, CanDeleteItem, MarkDeleted, TypeOK
  <2>6. ASSUME NEW j \in Items, NEW d \in Decisions, DecideCfo(j, d)
        PROVE  i \notin frozen /\ Active(i)
    BY <1>2, <2>6 DEF DecideCfo, CanDecideCfo, RecordCfoDecision, TypeOK
  <2>7. ASSUME NEW j \in Items, NEW d \in Decisions, DecideItemEconomist(j, d)
        PROVE  i \notin frozen /\ posStep[PosOf[i]] # NoStep
    BY <1>2, <2>7, StepsDiffer, RouteAssumption
       DEF DecideItemEconomist, CanDecideEconomist, TypeOK
  <2>8. ASSUME NEW r \in Requests, NEW S \in SUBSET ItemsOf(r), CfoRevisionFromRegister(r, S)
        PROVE  i \notin frozen /\ Active(i)
    BY <1>2, <2>8 DEF CfoRevisionFromRegister, Revisable
  <2>9. frozen \subseteq linked
    BY DEF LinkInv
  <2> QED
    BY <2>2, <2>3, <2>4, <2>5, <2>6, <2>7, <2>8, <2>9
<1> QED
  BY <1>1, <1>2, WriteStep

\* What a submission hands over enters at the foot
LEMMA SubmitEnters ==
    ASSUME TypeOK, NEW r \in Requests, Submit(r)
    PROVE  Lifecycle!Enter(SubmittedLines(r))
<1> DEFINE S == SubmittedLines(r)
<1>1. S \subseteq Items /\ \A i \in S : Active(i) /\ AcceptsLines(PosOf[i])
  BY DEF Submit, CanSubmit, SubmittedLines, ItemsOf
<1>2. \A i \in S : /\ places[PosOf[i]] \in {"outside", "cfo"}
                   /\ Lifecycle!Lines(PosOf[i]) \cap (frozen \cup fixed) = {}
  BY <1>1, PlaceCases, SameLines, RouteAssumption DEF places, AcceptsLines
<1>3. places' = [p \in Positions |-> IF p \in {PosOf[i] : i \in S} THEN "cfo" ELSE places[p]]
  BY PlaceCases DEF Submit, HandToCfo, places
<1>4. linked' = linked \cup S /\ UNCHANGED <<itemStatus, frozen, fixed>>
  BY DEF Submit, HandToCfo
<1> QED
  BY <1>1, <1>2, <1>3, <1>4 DEF Lifecycle!Enter, Active

\* Where a position goes when its step is set
LEMMA PlaceMoves ==
    ASSUME TypeOK, NEW p \in Positions, NEW s, posStep' = [posStep EXCEPT ![p] = s]
    PROVE  places' = [places EXCEPT ![p] = Place(s)]
BY DEF TypeOK, places

LEMMA CfoSends ==
    ASSUME TypeOK, FixationIsWhole, NEW p \in Positions, SubmitToEconomist(p)
    PROVE  Lifecycle!Send(p)
<1>1. posStep[p] # NoStep
  BY DEF SubmitToEconomist, CanSubmitToEconomist, FixationIsWhole
<1>2. posStep' = [posStep EXCEPT ![p] = Econ] /\ UNCHANGED <<itemStatus, flagVars>>
  BY DEF SubmitToEconomist, HandToEconomist
<1>3. places' = [places EXCEPT ![p] = "economist"]
  BY <1>2, PlaceMoves, PlaceCases
<1>4. places[p] # "outside"
  BY <1>1, PlaceCases DEF places
<1> QED
  BY <1>2, <1>3, <1>4 DEF Lifecycle!Send, flagVars

LEMMA EconomistFreezes ==
    ASSUME OrderlyRoute, TypeOK, FixationIsWhole,
           NEW p \in Positions, NEW S \in SUBSET Items, FreezePosition(p, S)
    PROVE  Lifecycle!Freeze(p, S)
<1>1. /\ posStep[p] = Econ /\ S # {} /\ S \subseteq LinesOf(p)
      /\ frozen' = frozen \cup S /\ UNCHANGED <<itemStatus, linked, fixed>>
  BY DEF FreezePosition, CanFreeze, OpenLines
<1>2. CASE LinesOf(p) \subseteq frozen'
  <2>1. PICK next \in NextSteps(Econ) : posStep' = [posStep EXCEPT ![p] = next]
    BY <1>2 DEF FreezePosition
  <2>2. next \notin {NoStep, Leaf, Econ}
    BY <2>1, StepsDiffer, RouteAssumption DEF NextSteps, Parents, OrderlyRoute
  <2>3. places' = [places EXCEPT ![p] = "above"]
    BY <2>1, <2>2, PlaceMoves, PlaceCases
  <2> QED
    BY <1>1, <1>2, <2>3, SameLines, PlaceCases DEF Lifecycle!Freeze, places
<1>3. CASE ~ (LinesOf(p) \subseteq frozen')
  <2>1. places' = places
    BY <1>3 DEF FreezePosition, places
  <2> QED
    BY <1>1, <1>3, <2>1, SameLines, PlaceCases DEF Lifecycle!Freeze, places
<1> QED
  BY <1>2, <1>3

LEMMA EconomistThaws ==
    ASSUME NEW p \in Positions, NEW S \in SUBSET Items, UnfreezePosition(p, S)
    PROVE  Lifecycle!Thaw(p, S)
<1>1. /\ posStep[p] = Econ /\ S \subseteq LinesOf(p) /\ frozen' = frozen \ S
      /\ UNCHANGED <<itemStatus, linked, fixed, posStep>>
  BY DEF UnfreezePosition, CanUnfreeze, OpenLines
<1> QED
  BY <1>1, SameLines, PlaceCases DEF Lifecycle!Thaw, places

\* A reviewer's step is above
LEMMA ReviewerIsAbove ==
    ASSUME NEW p \in Positions, AtReviewer(p)
    PROVE  places[p] = "above"
BY StepsDiffer, PlaceCases, RouteAssumption DEF AtReviewer, Reviewers, places

LEMMA ReviewerApproves ==
    ASSUME NEW p \in Positions, NEW S \in SUBSET Items, ApproveItemsAtStep(p, S)
    PROVE  Lifecycle!Approve(p, S)
<1>1. /\ AtReviewer(p) /\ S # {} /\ S \subseteq LinesOf(p) /\ frozen' = frozen \cup S
      /\ UNCHANGED <<itemStatus, linked, fixed, posStep>>
  BY DEF ApproveItemsAtStep, CanApprove, OpenLines
<1>2. places' = places
  BY <1>1 DEF places
<1> QED
  BY <1>1, <1>2, SameLines, ReviewerIsAbove DEF Lifecycle!Approve

\* Going up above the economist is still above
LEMMA ReviewerForwards ==
    ASSUME OrderlyRoute, TypeOK, NEW p \in Positions, ForwardAtStep(p)
    PROVE  UNCHANGED Lifecycle!lifeVars
<1>1. PICK next \in NextSteps(posStep[p]) : posStep' = [posStep EXCEPT ![p] = next]
  BY DEF ForwardAtStep
<1>2. AtReviewer(p) /\ UNCHANGED <<itemStatus, flagVars>>
  BY DEF ForwardAtStep, CanForward
<1>3. next \notin {NoStep, Leaf, Econ}
  BY <1>1, <1>2, StepsDiffer, RouteAssumption
     DEF NextSteps, Parents, OrderlyRoute, AtReviewer, Reviewers
<1>4. places' = places
  BY <1>1, <1>2, <1>3, PlaceMoves, PlaceCases, ReviewerIsAbove DEF places
<1> QED
  BY <1>2, <1>4 DEF Lifecycle!lifeVars, flagVars

LEMMA ZgdFixes ==
    ASSUME TypeOK, FixationIsWhole, NEW p \in Positions, FixPosition(p)
    PROVE  Lifecycle!Fix(p)
<1>1. /\ AtReviewer(p) /\ OpenLines(p) # {}
      /\ fixed' = fixed \cup OpenLines(p) /\ frozen' = frozen \cup OpenLines(p)
      /\ posStep' = [posStep EXCEPT ![p] = NoStep]
      /\ UNCHANGED <<itemStatus, linked>>
  BY DEF FixPosition, CanFix
<1>2. OpenLines(p) = LinesOf(p)
  BY <1>1, NothingFixedOnRoute, RouteAssumption DEF AtReviewer, Reviewers
<1>3. places' = [places EXCEPT ![p] = "outside"]
  BY <1>1, PlaceMoves, PlaceCases
<1> QED
  BY <1>1, <1>2, <1>3, SameLines, ReviewerIsAbove DEF Lifecycle!Fix

LEMMA ZgdUnfixes ==
    ASSUME TypeOK, LinkInv, FixationIsWhole, NEW p \in Positions, UnfixPosition(p)
    PROVE  Lifecycle!Unfix(p)
<1>1. PICK s \in Reviewers : posStep' = [posStep EXCEPT ![p] = s]
  BY DEF UnfixPosition
<1>2. /\ LinesOf(p) # {} /\ LinesOf(p) \subseteq fixed
      /\ fixed' = fixed \ LinesOf(p) /\ frozen' = frozen \cup LinesOf(p)
      /\ UNCHANGED <<itemStatus, linked>>
  BY DEF UnfixPosition, AllFixed
<1>3. frozen' = frozen
  BY <1>2 DEF LinkInv
<1>4. posStep[p] = NoStep
  BY <1>2 DEF FixationIsWhole, LinesOf
<1>5. places' = [places EXCEPT ![p] = "above"]
  <2>1. s \notin {NoStep, Leaf, Econ}
    BY StepsDiffer
  <2> QED
    BY <1>1, <2>1, PlaceMoves, PlaceCases
<1> QED
  BY <1>2, <1>3, <1>4, <1>5, SameLines, PlaceCases DEF Lifecycle!Unfix, places

LEMMA LinesComeDown ==
    ASSUME OrderlyRoute, TypeOK, TypeOK', NEW p \in Positions, NEW target \in Steps,
           NEW S \in SUBSET Items, NEW T \in SUBSET S, ReturnPosition(p, S, T, target)
    PROVE  Lifecycle!Return(p, S)
<1>1. /\ posStep[p] = Econ \/ AtReviewer(p)
      /\ S # {} /\ S \subseteq LinesOf(p)
      /\ <<target, posStep[p]>> \in Edges
      /\ frozen' = frozen \ S /\ posStep' = [posStep EXCEPT ![p] = target]
      /\ UNCHANGED <<linked, fixed>>
  BY DEF ReturnPosition, CanReturn, OpenLines, Children
<1>2. places[p] \in {"economist", "above"}
  BY <1>1, ReviewerIsAbove, PlaceCases DEF places
<1>3. itemStatus' \in [Items -> ItemStatus]
      /\ \A i \in Items : itemStatus'[i] # itemStatus[i] => i \in S
  BY DEF TypeOK, ReturnPosition
<1>4. places' = [places EXCEPT ![p] = Place(target)]
  BY <1>1, PlaceMoves
<1>5. Place(target) \in (IF places[p] = "economist" THEN {"cfo"} ELSE Lifecycle!OnRoute)
  <2>1. places[p] = "economist" => target = Leaf
    BY <1>1, PlaceCases, RouteAssumption DEF places, OrderlyRoute
  <2>2. Place(target) \in Lifecycle!OnRoute
    BY PlaceCases, RouteAssumption DEF Lifecycle!OnRoute
  <2> QED
    BY <2>1, <2>2, PlaceCases
<1> QED
  BY <1>1, <1>2, <1>3, <1>4, <1>5, SameLines DEF Lifecycle!Return

LEMMA LifeNext ==
    ASSUME OrderlyRoute, TypeOK, LinkInv, FixationIsWhole, TypeOK', [Next]_vars
    PROVE  Lifecycle!Next \/ UNCHANGED Lifecycle!lifeVars
<1>1. ASSUME UNCHANGED <<itemStatus, flagVars, posStep>>
      PROVE  UNCHANGED Lifecycle!lifeVars
  BY <1>1 DEF Lifecycle!lifeVars, flagVars, places
<1>2. CASE \/ \E r \in Requests : DeleteRequest(r)
           \/ \E i \in Items : CreateItem(i) \/ DeleteItem(i)
           \/ \E i \in Items, d \in Decisions : DecideCfo(i, d) \/ DecideItemEconomist(i, d)
           \/ \E r \in Requests : \E S \in SUBSET ItemsOf(r) : CfoRevisionFromRegister(r, S)
  BY <1>2, WritesAreOpen DEF Lifecycle!Next
<1>3. ASSUME NEW r \in Requests, Submit(r)
      PROVE  Lifecycle!Next
  <2>1. SubmittedLines(r) \in SUBSET Items
    BY DEF SubmittedLines, ItemsOf
  <2> QED
    BY <1>3, <2>1, SubmitEnters DEF Lifecycle!Next
<1>4. CASE \/ \E r \in Requests : CreateRequest(r) \/ CompleteCfoReview(r)
           \/ \E p \in Positions : CompleteEconomistReview(p)
           \/ UNCHANGED vars
  BY <1>1, <1>4 DEF CreateRequest, CompleteCfoReview, CompleteEconomistReview, vars, posVars,
                    flagVars
<1>5. ASSUME NEW p \in Positions,
             SubmitToEconomist(p) \/ ForwardAtStep(p) \/ FixPosition(p) \/ UnfixPosition(p)
      PROVE  Lifecycle!Next \/ UNCHANGED Lifecycle!lifeVars
  BY <1>5, CfoSends, ReviewerForwards, ZgdFixes, ZgdUnfixes DEF Lifecycle!Next
<1>6. ASSUME NEW p \in Positions, NEW S \in SUBSET Items,
             FreezePosition(p, S) \/ UnfreezePosition(p, S) \/ ApproveItemsAtStep(p, S)
      PROVE  Lifecycle!Next
  BY <1>6, EconomistFreezes, EconomistThaws, ReviewerApproves DEF Lifecycle!Next
<1>7. ASSUME NEW p \in Positions, NEW target \in Steps, NEW S \in SUBSET Items,
             NEW T \in SUBSET S, ReturnPosition(p, S, T, target)
      PROVE  Lifecycle!Next
  BY <1>7, LinesComeDown DEF Lifecycle!Next
<1> QED
  BY <1>2, <1>3, <1>4, <1>5, <1>6, <1>7
     DEF Next, ModuleStep, CfoStep, EconomistStep, ReviewerStep, ReworkStep

LEMMA LifeInit == Init => Lifecycle!Init
BY PlaceCases DEF Init, Lifecycle!Init, places

\* On an orderly route every behaviour of the workflow is, for its positions and
\* lines, one of the abstract life of a position.
THEOREM LivesAreKept ==
    ASSUME OrderlyRoute
    PROVE  Spec => LifecycleKept
<1>1. Init => TypeOK /\ LinkInv /\ FixationIsWhole
  BY TypeInit, LinkInit, FixationInit
<1>2. TypeOK /\ LinkInv /\ FixationIsWhole /\ [Next]_vars
         => (TypeOK /\ LinkInv /\ FixationIsWhole)'
  BY TypeNext, LinkNext, FixationNext
<1>3. TypeOK /\ LinkInv /\ FixationIsWhole /\ [Next]_vars
         => [Lifecycle!Next]_(Lifecycle!lifeVars)
  BY TypeNext, LifeNext
<1> QED
  BY <1>1, <1>2, <1>3, LifeInit, PTL DEF Spec, LifecycleKept, Lifecycle!Spec

(***************************************************************************)
(* The handlers taken apart: HandlerRaces.                                 *)
(***************************************************************************)


Locked(w) == call[w].op = "submit" /\ call[w].stage = "locked"

\* The calls and the rows are there, and a submission names a request
Shape ==
    /\ DOMAIN call = Workers /\ call = [w \in Workers |-> call[w]]
    /\ DOMAIN reqStatus = Requests /\ reqStatus = [r \in Requests |-> reqStatus[r]]
    /\ \A w \in Workers : call[w].op = "submit" => call[w].req \in Requests

\* Nobody else holds the row of the request a call has locked
LockedAlone ==
    \A w, v \in Workers :
        Locked(w) /\ Locked(v) /\ call[w].req = call[v].req => w = v

RacesInv == Shape /\ LockedAlone /\ SubmittedOnce

LEMMA RacesInvInit == RacesInit => RacesInv
BY DEF RacesInit, Init, Idle, RacesInv, Shape, LockedAlone, Locked, SubmittedOnce,
    InFlight

\* A step that takes no lock keeps the locks there are, and what they hold as
\* long as no request a call has locked changes its status.
LEMMA LocksKept ==
    ASSUME RacesInv, Shape',
           \A w \in Workers : Locked(w)' => Locked(w) /\ call'[w] = call[w],
           \A w \in Workers : Locked(w)' => reqStatus'[call[w].req] = reqStatus[call[w].req]
    PROVE  RacesInv'
BY DEF RacesInv, LockedAlone, Locked, SubmittedOnce, InFlight

LEMMA CallReplaced ==
    ASSUME Shape, NEW w \in Workers, NEW c, call' = [call EXCEPT ![w] = c]
    PROVE  /\ call'[w] = c
           /\ \A v \in Workers \ {w} : call'[v] = call[v]
           /\ DOMAIN call' = Workers /\ call' = [v \in Workers |-> call'[v]]
BY DEF Shape

\* Of the steps that hold their lock throughout none touches a locked request.
LEMMA AtomicKeeps ==
    ASSUME RacesInv, AtomicStep \/ RevisionStep
    PROVE  RacesInv'
<1>1. call' = call
  BY DEF AtomicStep, RevisionStep
<1>2. /\ DOMAIN reqStatus' = Requests /\ reqStatus' = [r \in Requests |-> reqStatus'[r]]
      /\ \A w \in Workers : Locked(w) => reqStatus'[call[w].req] = reqStatus[call[w].req]
  <2>1. ASSUME NEW r \in Requests, ~Remembered(r), CreateRequest(r)
        PROVE  <1>2
    BY <2>1 DEF Remembered, InFlight, CreateRequest, RacesInv, Shape, Locked
  <2>2. CASE CompleteReviewStep
    <3>1. PICK r \in Requests : ~RequestLocked(r) /\ CompleteCfoReview(r)
      BY <2>2 DEF CompleteReviewStep
    <3>2. PICK s : reqStatus' = [reqStatus EXCEPT ![r] = s]
      BY <3>1 DEF CompleteCfoReview
    <3>3. \A w \in Workers : Locked(w) => call[w].req # r /\ call[w].req \in Requests
      BY <3>1 DEF RequestLocked, InFlight, RacesInv, Shape, Locked
    <3> QED
      BY <3>2, <3>3 DEF RacesInv, Shape
  <2>3. CASE LockedPositionStep
    <3>1. PICK p \in Positions :
             \/ UNCHANGED reqStatus
             \/ (\A i \in OpenLines(p) : ~RequestLocked(ReqOf[i])) /\ FixPosition(p)
      BY <2>3 DEF LockedPositionStep, DecideItemEconomist, CanDecideEconomist,
          CompleteEconomistReview, CanCompleteReview,
          FreezePosition, CanFreeze, ApproveItemsAtStep, CanApprove, reqVars
    <3>2. CASE UNCHANGED reqStatus
      BY <3>2 DEF RacesInv, Shape
    <3>3. CASE (\A i \in OpenLines(p) : ~RequestLocked(ReqOf[i])) /\ FixPosition(p)
      <4>1. reqStatus' = SyncedStatus({ReqOf[i] : i \in OpenLines(p)}, fixed', posStatus')
        BY <3>3 DEF FixPosition, CanFix
      <4>2. \A w \in Workers : Locked(w) => call[w].req \notin {ReqOf[i] : i \in OpenLines(p)}
        BY <3>3 DEF RequestLocked, InFlight, Locked
      <4> QED
        BY <4>1, <4>2 DEF SyncedStatus, RacesInv, Shape, Locked
    <3> QED
      BY <3>1, <3>2, <3>3
  <2>4. CASE RevisionStep
    BY <2>4 DEF RevisionStep, CfoRevisionFromRegister, RacesInv, Shape
  <2> QED
    BY <2>1, <2>2, <2>3, <2>4 DEF AtomicStep
<1>3. Shape'
  BY <1>1, <1>2 DEF RacesInv, Shape
<1> QED
  BY <1>1, <1>2, <1>3, LocksKept DEF Locked

\* A handler that begins has no lock on a request.
LEMMA BeginKeeps ==
    ASSUME RacesInv, NEW w \in Workers, NEW c, Begin(w, c),
           c.op = "submit" => c.req \in Requests /\ c.stage = "read"
    PROVE  RacesInv'
<1>1. call' = [call EXCEPT ![w] = c] /\ UNCHANGED reqStatus
  BY DEF Begin, vars, reqVars
<1>2. /\ call'[w] = c
      /\ \A v \in Workers \ {w} : call'[v] = call[v]
      /\ DOMAIN call' = Workers /\ call' = [v \in Workers |-> call'[v]]
  BY <1>1, CallReplaced DEF RacesInv
<1>3. Shape'
  BY <1>1, <1>2 DEF RacesInv, Shape
<1> QED
  BY <1>1, <1>2, <1>3, LocksKept DEF Locked

\* Nor has one that ends: what it has changed is of a request it has locked
\* itself or that nobody has.
LEMMA EndKeeps ==
    ASSUME RacesInv, NEW w \in Workers, End(w),
           DOMAIN reqStatus' = Requests, reqStatus' = [r \in Requests |-> reqStatus'[r]],
           \A v \in Workers \ {w} : Locked(v) => reqStatus'[call[v].req] = reqStatus[call[v].req]
    PROVE  RacesInv'
<1>1. /\ call'[w] = Idle
      /\ \A v \in Workers \ {w} : call'[v] = call[v]
      /\ DOMAIN call' = Workers /\ call' = [v \in Workers |-> call'[v]]
  BY CallReplaced DEF End, RacesInv
<1>2. ~Locked(w)'
  BY <1>1 DEF Locked, Idle
<1>3. Shape'
  BY <1>1 DEF RacesInv, Shape, Idle
<1> QED
  BY <1>1, <1>2, <1>3, LocksKept DEF Locked

LEMMA FailKeeps ==
    ASSUME RacesInv, NEW w \in Workers, Fail(w)
    PROVE  RacesInv'
BY EndKeeps DEF Fail, vars, reqVars, RacesInv, Shape

LEMMA BeginStepKeeps == RacesInv /\ BeginStep => RacesInv'
<1> SUFFICES ASSUME RacesInv, NEW w \in Workers,
                    \/ \E i \in Items : BeginCreateItem(w, i) \/ BeginDeleteItem(w, i)
                    \/ \E r \in Requests : BeginDeleteRequest(w, r) \/ BeginSubmit(w, r)
                    \/ \E i \in Items, d \in Decisions : BeginDecideCfo(w, i, d)
                    \/ \E p \in Positions : BeginSubmitToEconomist(w, p)
             PROVE  RacesInv'
    BY DEF BeginStep
<1>1. ASSUME NEW i \in Items, BeginCreateItem(w, i) PROVE RacesInv'
  BY <1>1, BeginKeeps DEF BeginCreateItem
<1>2. ASSUME NEW i \in Items, BeginDeleteItem(w, i) PROVE RacesInv'
  BY <1>2, BeginKeeps DEF BeginDeleteItem
<1>3. ASSUME NEW r \in Requests, BeginDeleteRequest(w, r) PROVE RacesInv'
  BY <1>3, BeginKeeps DEF BeginDeleteRequest
<1>4. ASSUME NEW r \in Requests, BeginSubmit(w, r) PROVE RacesInv'
  BY <1>4, BeginKeeps DEF BeginSubmit
<1>5. ASSUME NEW i \in Items, NEW d \in Decisions, BeginDecideCfo(w, i, d) PROVE RacesInv'
  BY <1>5, BeginKeeps DEF BeginDecideCfo
<1>6. ASSUME NEW p \in Positions, BeginSubmitToEconomist(w, p) PROVE RacesInv'
  BY <1>6, BeginKeeps DEF BeginSubmitToEconomist
<1> QED
  BY <1>1, <1>2, <1>3, <1>4, <1>5, <1>6

\* The row is locked when nobody holds it, and read again under the lock.
LEMMA LockKeeps ==
    ASSUME RacesInv, NEW w \in Workers, LockSubmit(w)
    PROVE  RacesInv'
<1>1. CASE Fail(w)
  BY <1>1, FailKeeps
<1>2. CASE ~Fail(w)
  <2> DEFINE c == call[w]
             held == [op |-> "submit", stage |-> "locked", req |-> c.req,
                      again |-> SubmitAgain(c), sent |-> CachedLines(c),
                      known |-> {p \in Positions : posStatus[p] # "absent"}]
  <2>1. /\ c.op = "submit" /\ c.stage = "read" /\ ~RequestLocked(c.req)
        /\ PassesUnderLock(c)
        /\ call' = [call EXCEPT ![w] = held]
        /\ UNCHANGED reqStatus
    BY <1>2 DEF LockSubmit, vars, reqVars
  <2>2. /\ call'[w] = held
        /\ \A v \in Workers \ {w} : call'[v] = call[v]
        /\ DOMAIN call' = Workers /\ call' = [v \in Workers |-> call'[v]]
    <3> HIDE DEF held
    <3> QED BY <2>1, CallReplaced DEF RacesInv
  <2>3. call'[w].req = c.req /\ call'[w].again = SubmitAgain(c)
    BY <2>2
  <2>4. Shape'
    BY <2>1, <2>2, <2>3 DEF RacesInv, Shape
  <2>5. LockedAlone'
    BY <2>1, <2>2, <2>3 DEF RacesInv, LockedAlone, Locked, RequestLocked, InFlight
  <2>6. ~SubmitAgain(c) => reqStatus[c.req] = "draft"
    BY <2>1 DEF PassesUnderLock
  <2>7. SubmittedOnce'
    <3> HIDE DEF held
    <3> QED BY <2>1, <2>2, <2>3, <2>6 DEF RacesInv, SubmittedOnce, InFlight
  <2> QED
    BY <2>4, <2>5, <2>7 DEF RacesInv
<1> QED
  BY <1>1, <1>2

LEMMA EndStepKeeps == RacesInv /\ EndStep => RacesInv'
<1> SUFFICES ASSUME RacesInv, NEW w \in Workers,
                    \/ EndCreateItem(w) \/ EndDeleteItem(w) \/ EndDeleteRequest(w)
                    \/ LockSubmit(w) \/ EndSubmit(w)
                    \/ EndDecideCfo(w) \/ EndSubmitToEconomist(w)
             PROVE  RacesInv'
    BY DEF EndStep
<1>1. CASE Fail(w)
  BY <1>1, FailKeeps
<1>2. CASE LockSubmit(w)
  BY <1>2, LockKeeps
<1>3. ASSUME End(w), UNCHANGED reqStatus PROVE RacesInv'
  BY <1>3, EndKeeps DEF RacesInv, Shape
<1>4. CASE EndCreateItem(w) /\ ~Fail(w)
  BY <1>3, <1>4 DEF EndCreateItem, InsertItem, reqVars
<1>5. CASE EndDeleteItem(w) /\ ~Fail(w)
  BY <1>3, <1>5 DEF EndDeleteItem, MarkDeleted, reqVars
<1>6. CASE EndDecideCfo(w) /\ ~Fail(w)
  BY <1>3, <1>6 DEF EndDecideCfo, RecordCfoDecision, reqVars
<1>7. CASE EndSubmitToEconomist(w)
  BY <1>3, <1>7 DEF EndSubmitToEconomist, HandToEconomist, reqVars
<1>8. CASE EndDeleteRequest(w) /\ ~Fail(w)
  <2> DEFINE r == call[w].req
  <2>1. End(w) /\ ~RequestLocked(r) /\ reqStatus' = [reqStatus EXCEPT ![r] = "absent"]
    BY <1>8 DEF EndDeleteRequest, RemoveRequest
  <2>2. \A v \in Workers : Locked(v) => call[v].req # r /\ call[v].req \in Requests
    BY <2>1 DEF RequestLocked, InFlight, Locked, RacesInv, Shape
  <2> QED
    BY <2>1, <2>2, EndKeeps DEF RacesInv, Shape
<1>9. CASE EndSubmit(w) /\ ~Fail(w)
  <2> DEFINE r == call[w].req
  <2>1. /\ End(w) /\ Locked(w)
        /\ reqStatus' = [reqStatus EXCEPT ![r] = "on_review"]
    BY <1>9 DEF EndSubmit, HandToCfo, Locked
  <2>2. \A v \in Workers \ {w} : Locked(v) => call[v].req # r /\ call[v].req \in Requests
    BY <2>1 DEF Locked, RacesInv, Shape, LockedAlone
  <2> QED
    BY <2>1, <2>2, EndKeeps DEF RacesInv, Shape
<1> QED
  BY <1>1, <1>2, <1>4, <1>5, <1>6, <1>7, <1>8, <1>9

\* However many calls are in flight, the first submission of a request that
\* holds its row holds a draft: a duplicate of the click or a retry that read
\* the draft before the lock finds it submitted and gives up.
THEOREM OneSubmission == RacesSpec => []SubmittedOnce
<1>1. RacesInit => RacesInv
  BY RacesInvInit
<1>2. RacesInv /\ [RacesNext]_<<vars, call>> => RacesInv'
  <2>1. RacesInv /\ (AtomicStep \/ RevisionStep) => RacesInv'
    BY AtomicKeeps
  <2>2. RacesInv /\ UNCHANGED <<vars, call>> => RacesInv'
    BY DEF vars, reqVars, RacesInv, Shape, LockedAlone, Locked, SubmittedOnce, InFlight
  <2> QED
    BY <2>1, <2>2, BeginStepKeeps, EndStepKeeps DEF RacesNext
<1>3. RacesInv => SubmittedOnce
  BY DEF RacesInv
<1> QED
  BY <1>1, <1>2, <1>3, PTL DEF RacesSpec

-----------------------------------------------------------------------------
(***************************************************************************)
(* Nothing undecided gets above the CFO.  A line is decided when its       *)
(* position leaves the CFO because every request of the CFO is: a request  *)
(* is reviewed, and then its lines at the positions are decided, or it is  *)
(* a draft and holds the hand-over up, or closed, or gone with its lines.  *)
(* A line that comes later comes through the lock of the position, which   *)
(* it takes back to the CFO.                                               *)
(***************************************************************************)

Decided(i) == cfoDecision[i] # "none" \/ econDecision[i] # "none"

RowsKept ==
    /\ reqStatus \in [Requests -> RequestStatus] /\ reviewDone \subseteq Requests
    /\ itemStatus \in [Items -> ItemStatus] /\ linked \subseteq Items
    /\ cfoDecision \in [Items -> Decisions \cup {"none"}]
    /\ econDecision \in [Items -> Decisions \cup {"none"}]
    /\ posStep \in [Positions -> Steps \cup {NoStep}]

\* A line at a position has a row, and so has its request
LinesThere == \A i \in linked : itemStatus[i] # "absent" /\ reqStatus[ReqOf[i]] # "absent"

\* What is reviewed or closed is decided
ClosedDecided ==
    /\ \A r \in reviewDone : reqStatus[r] \notin {"absent", "draft"}
    /\ \A i \in Items : itemStatus[i] \in {"approved", "rejected"} => Decided(i)
    /\ \A i \in linked :
         /\ Active(i)
         /\ ReqOf[i] \in reviewDone \/ reqStatus[ReqOf[i]] \in {"approved", "rejected"}
         => Decided(i)

RowsInv == RowsKept /\ LinesThere /\ ClosedDecided /\ NothingUnseen

\* What a call has read holds until it writes: a line to be created is not
\* there, the lines to be submitted are there if the request is, and what is
\* handed to the economist is decided
CallOK(c) ==
    /\ c.op \in {"create_item", "delete_item", "decide_cfo"} => c.item \in Items
    /\ c.op = "create_item" => itemStatus[c.item] = "absent"
    /\ c.op = "decide_cfo" => c.decision \in Decisions
    /\ c.op \in {"delete_request", "submit"} => c.req \in Requests
    /\ c.op = "submit" /\ c.stage = "read" /\ reqStatus[c.req] # "absent" =>
          \A i \in c.active : ReqOf[i] = c.req => itemStatus[i] # "absent"
    /\ c.op = "submit" /\ c.stage = "read" => c.active \subseteq Items
    /\ c.op = "submit" /\ c.stage = "locked" =>
          /\ reqStatus[c.req] # "absent" /\ c.sent \subseteq Items
          /\ \A i \in c.sent : ReqOf[i] = c.req /\ itemStatus[i] # "absent"
    /\ c.op = "submit_to_economist" =>
          c.pos \in Positions /\ \A i \in LinesOf(c.pos) : Decided(i)

CreateApart ==
    \A w, v \in InFlight("create_item") : call[w].item = call[v].item => w = v

SeenInv == RowsInv /\ CreateApart /\ \A w \in Workers : CallOK(call[w])

LEMMA SeenInvInit == RacesInit => SeenInv
<1> SUFFICES ASSUME RacesInit PROVE SeenInv
    OBVIOUS
<1>1. RowsInv
  BY RouteAssumption DEF RacesInit, Init, RowsInv, RowsKept, LinesThere, ClosedDecided,
      NothingUnseen,
      RequestStatus, ItemStatus
<1>2. \A w \in Workers : call[w].op = "idle"
  BY DEF RacesInit, Idle
<1> QED
  BY <1>1, <1>2 DEF SeenInv, CreateApart, InFlight, CallOK

\* A handler that begins leaves the rows as they are.
LEMMA SeenBegin ==
    ASSUME RacesInv, SeenInv, NEW w \in Workers, NEW c, Begin(w, c), CallOK(c),
           c.op = "create_item" => \A v \in InFlight("create_item") : call[v].item # c.item
    PROVE  SeenInv'
<1>1. /\ call' = [call EXCEPT ![w] = c]
      /\ UNCHANGED <<reqStatus, reviewDone, itemStatus, linked, cfoDecision, econDecision, posStep>>
  BY DEF Begin, vars, reqVars, flagVars, cfoVars, econVars, posVars
<1>2. call'[w] = c /\ \A v \in Workers \ {w} : call'[v] = call[v]
  BY <1>1, CallReplaced DEF RacesInv
<1>3. RowsInv'
  BY <1>1 DEF SeenInv, RowsInv, RowsKept, LinesThere, ClosedDecided, NothingUnseen,
      Decided, LinesOf, Active
<1>4. CallOK(c)' /\ \A v \in Workers \ {w} : CallOK(call[v])'
  BY <1>1, <1>2 DEF SeenInv, CallOK, LinesOf, Active, Decided
<1>5. CreateApart'
  BY <1>2 DEF SeenInv, CreateApart, InFlight
<1> QED
  BY <1>2, <1>3, <1>4, <1>5 DEF SeenInv

LEMMA SeenBeginStep == RacesInv /\ SeenInv /\ BeginStep => SeenInv'
<1> SUFFICES ASSUME RacesInv, SeenInv, NEW w \in Workers,
                    \/ \E i \in Items : BeginCreateItem(w, i) \/ BeginDeleteItem(w, i)
                    \/ \E r \in Requests : BeginDeleteRequest(w, r) \/ BeginSubmit(w, r)
                    \/ \E i \in Items, d \in Decisions : BeginDecideCfo(w, i, d)
                    \/ \E p \in Positions : BeginSubmitToEconomist(w, p)
             PROVE  SeenInv'
    BY DEF BeginStep
<1>1. ASSUME NEW i \in Items, BeginCreateItem(w, i) PROVE SeenInv'
  BY <1>1, SeenBegin DEF BeginCreateItem, CanCreateItem, CallOK
<1>2. ASSUME NEW i \in Items, BeginDeleteItem(w, i) PROVE SeenInv'
  BY <1>2, SeenBegin DEF BeginDeleteItem, CallOK
<1>3. ASSUME NEW r \in Requests, BeginDeleteRequest(w, r) PROVE SeenInv'
  BY <1>3, SeenBegin DEF BeginDeleteRequest, CallOK
<1>4. ASSUME NEW r \in Requests, BeginSubmit(w, r) PROVE SeenInv'
  <2> DEFINE c == [op |-> "submit", stage |-> "read", req |-> r,
                   active |-> {i \in Items : Active(i)}, member |-> linked,
                   closed |-> frozen \cup fixed,
                   cached |-> reqStatus[r] = "on_review", returned |-> Returned(r)]
  <2>1. Begin(w, c)
    BY <1>4 DEF BeginSubmit
  <2>2. CallOK(c) /\ c.op # "create_item"
    BY DEF CallOK, Active
  <2> HIDE DEF c
  <2> QED
    BY <2>1, <2>2, SeenBegin
<1>5. ASSUME NEW i \in Items, NEW d \in Decisions, BeginDecideCfo(w, i, d) PROVE SeenInv'
  BY <1>5, SeenBegin DEF BeginDecideCfo, CallOK
<1>6. ASSUME NEW p \in Positions, BeginSubmitToEconomist(w, p) PROVE SeenInv'
  <2>1. \A r \in Requests : reqStatus[r] # "draft" /\ (reqStatus[r] = "on_review" => r \in reviewDone)
    BY <1>6 DEF BeginSubmitToEconomist, CanSubmitToEconomist
  <2>2. ASSUME NEW i \in LinesOf(p) PROVE Decided(i)
    <3>1. i \in linked /\ Active(i) /\ i \in Items /\ ReqOf[i] \in Requests
      BY RouteAssumption DEF LinesOf, SeenInv, RowsInv, RowsKept
    <3>2. reqStatus[ReqOf[i]] \in RequestStatus \ {"absent", "draft"}
      BY <2>1, <3>1 DEF SeenInv, RowsInv, RowsKept, LinesThere
    <3> QED
      BY <2>1, <3>1, <3>2 DEF SeenInv, RowsInv, ClosedDecided, RequestStatus
  <2> QED
    BY <1>6, <2>2, SeenBegin DEF BeginSubmitToEconomist, CallOK
<1> QED
  BY <1>1, <1>2, <1>3, <1>4, <1>5, <1>6

\* Nor does a handler that holds its lock throughout bring an undecided line
\* above the CFO: it decides lines, or moves a position whose lines are decided.
LEMMA SeenAtomic == RacesInv /\ SeenInv /\ (AtomicStep \/ RevisionStep) => SeenInv'
<1> SUFFICES ASSUME RacesInv, SeenInv, AtomicStep \/ RevisionStep PROVE SeenInv'
    OBVIOUS
<1>0. call' = call
  BY DEF AtomicStep, RevisionStep
<1>a. CreateApart'
  BY <1>0 DEF SeenInv, CreateApart, InFlight
<1> USE RouteAssumption DEF SeenInv, RowsInv
<1>1. ASSUME NEW r \in Requests, ~Remembered(r), CreateRequest(r) PROVE SeenInv'
  <2>1. /\ reqStatus[r] = "absent" /\ reqStatus' = [reqStatus EXCEPT ![r] = "draft"]
        /\ UNCHANGED <<reviewDone, itemStatus, linked, cfoDecision, econDecision, posStep>>
    BY <1>1 DEF CreateRequest, flagVars, cfoVars, econVars, posVars
  <2>2. RowsInv'
    BY <2>1 DEF RowsKept, LinesThere, ClosedDecided, NothingUnseen, Decided, LinesOf,
        Active, RequestStatus
  <2>3. ASSUME NEW w \in Workers PROVE CallOK(call[w])'
    BY <1>0, <1>1, <2>1 DEF CallOK, Remembered, InFlight, RowsKept, LinesOf, Active, Decided
  <2> QED
    BY <1>a, <2>2, <2>3
<1>2. ASSUME NEW r \in Requests, CompleteCfoReview(r) PROVE SeenInv'
  <2>1. /\ reqStatus[r] = "on_review"
        /\ \A i \in ItemsOf(r) : Decided(i)
        /\ reviewDone' = reviewDone \cup {r}
        /\ \/ reqStatus' = [reqStatus EXCEPT ![r] = "on_review"]
           \/ reqStatus' = [reqStatus EXCEPT ![r] = "rejected"]
        /\ UNCHANGED <<itemStatus, linked, cfoDecision, econDecision, posStep>>
    BY <1>2 DEF CompleteCfoReview, Decided, flagVars, cfoVars, econVars, posVars
  <2>2. RowsInv'
    BY <2>1 DEF RowsKept, LinesThere, ClosedDecided, NothingUnseen, Decided, LinesOf,
        ItemsOf, Active, RequestStatus
  <2>3. ASSUME NEW w \in Workers PROVE CallOK(call[w])'
    BY <1>0, <2>1 DEF CallOK, RowsKept, LinesOf, Active, Decided
  <2> QED
    BY <1>a, <2>2, <2>3
<1>3. ASSUME NEW i \in Items, NEW d \in Decisions, DecideItemEconomist(i, d) PROVE SeenInv'
  <2>1. /\ i \in linked
        /\ itemStatus' = [itemStatus EXCEPT ![i] = IF d = "on_revision" THEN "on_review" ELSE d]
        /\ econDecision' = [econDecision EXCEPT ![i] = d]
        /\ UNCHANGED <<reqStatus, reviewDone, linked, cfoDecision, posStep>>
    BY <1>3 DEF DecideItemEconomist, CanDecideEconomist, reqVars, flagVars, cfoVars,
        posVars
  <2>2. d # "none" /\ d \in {"approved", "rejected", "on_revision"}
    BY DEF Decisions
  <2>3. RowsInv'
    BY <2>1, <2>2 DEF RowsKept, LinesThere, ClosedDecided, NothingUnseen, Decided,
        LinesOf, Active, ItemStatus
  <2>4. ASSUME NEW w \in Workers PROVE CallOK(call[w])'
    BY <1>0, <2>1, <2>2 DEF CallOK, RowsKept, LinesThere, LinesOf, Active, Decided
  <2> QED
    BY <1>a, <2>3, <2>4
<1>4. ASSUME UNCHANGED <<reqStatus, reviewDone, itemStatus, linked, cfoDecision, econDecision>>,
             NEW p \in Positions, NEW s \in Steps \cup {NoStep},
             posStep' = [posStep EXCEPT ![p] = s], posStep[p] = Econ \/ s = NoStep
      PROVE  SeenInv'
  <2>1. Econ \notin {Leaf, NoStep}
    OBVIOUS
  <2>2. RowsInv'
    BY <1>4, <2>1 DEF RowsKept, LinesThere, ClosedDecided, NothingUnseen, Decided,
        LinesOf, Active
  <2>3. ASSUME NEW w \in Workers PROVE CallOK(call[w])'
    BY <1>0, <1>4 DEF CallOK, LinesOf, Active, Decided
  <2> QED
    BY <1>a, <2>2, <2>3
<1>5. ASSUME UNCHANGED <<reqStatus, reviewDone, itemStatus, linked, cfoDecision, econDecision, posStep>>
      PROVE  SeenInv'
  <2>1. RowsInv'
    BY <1>5 DEF RowsKept, LinesThere, ClosedDecided, NothingUnseen, Decided, LinesOf, Active
  <2>2. ASSUME NEW w \in Workers PROVE CallOK(call[w])'
    BY <1>0, <1>5 DEF CallOK, LinesOf, Active, Decided
  <2> QED
    BY <1>a, <2>1, <2>2
<1>6. ASSUME NEW p \in Positions, CompleteEconomistReview(p) PROVE SeenInv'
  BY <1>5, <1>6 DEF CompleteEconomistReview, CanCompleteReview, reqVars, flagVars,
      cfoVars, econVars
<1>7. ASSUME NEW p \in Positions, NEW S \in SUBSET Items, FreezePosition(p, S) PROVE SeenInv'
  <2>1. /\ UNCHANGED <<reqStatus, reviewDone, itemStatus, linked, cfoDecision, econDecision>>
        /\ posStep[p] = Econ
        /\ \/ UNCHANGED posStep
           \/ \E next \in NextSteps(Econ) : posStep' = [posStep EXCEPT ![p] = next]
    BY <1>7 DEF FreezePosition, CanFreeze, reqVars, cfoVars, econVars
  <2>2. NextSteps(Econ) \subseteq Steps
    BY DEF NextSteps, Parents
  <2> QED
    BY <1>4, <1>5, <2>1, <2>2
<1>8. ASSUME NEW p \in Positions, NEW S \in SUBSET Items, ApproveItemsAtStep(p, S) PROVE SeenInv'
  BY <1>5, <1>8 DEF ApproveItemsAtStep, CanApprove, reqVars, cfoVars, econVars
<1>9. ASSUME NEW p \in Positions, FixPosition(p) PROVE SeenInv'
  <2> DEFINE R == {ReqOf[i] : i \in OpenLines(p)}
  <2>1. /\ posStep' = [posStep EXCEPT ![p] = NoStep]
        /\ reqStatus' = SyncedStatus(R, fixed', posStatus')
        /\ UNCHANGED <<reviewDone, itemStatus, linked, cfoDecision, econDecision>>
    BY <1>9 DEF FixPosition, CanFix, cfoVars, econVars
  <2>2. \A r \in R : r \in Requests /\ reqStatus[r] # "absent"
    BY DEF OpenLines, LinesOf, RowsKept, LinesThere
  <2>3. ASSUME NEW r \in Requests
        PROVE  /\ reqStatus'[r] \in RequestStatus
               /\ reqStatus'[r] = reqStatus[r] \/ (r \in R /\ reqStatus[r] # "draft"
                    /\ reqStatus'[r] \in {"on_review", "approved", "rejected"})
               /\ reqStatus'[r] # reqStatus[r] /\ reqStatus'[r] \in {"approved", "rejected"}
                    => \A i \in ItemsOf(r) : itemStatus[i] \in {"approved", "rejected"}
    BY <2>1 DEF SyncedStatus, DerivedStatus, RowsKept, RequestStatus
  <2>4. reqStatus' \in [Requests -> RequestStatus]
    BY <2>1, <2>3 DEF SyncedStatus
  <2>5. \A r \in Requests : /\ (reqStatus'[r] = "absent" <=> reqStatus[r] = "absent")
                            /\ (reqStatus'[r] = "draft" <=> reqStatus[r] = "draft")
    BY <2>2, <2>3
  <2>6. RowsKept' /\ LinesThere' /\ NothingUnseen'
    BY <2>1, <2>4, <2>5 DEF RowsKept, LinesThere, NothingUnseen, LinesOf, Active, Decided
  <2>7. ClosedDecided'
    <3>1. ASSUME NEW i \in linked, Active(i), ~Decided(i),
                 ReqOf[i] \in reviewDone \/ reqStatus'[ReqOf[i]] \in {"approved", "rejected"}
          PROVE  FALSE
      <4>1. i \in Items /\ ReqOf[i] \in Requests /\ i \in ItemsOf(ReqOf[i])
        BY <3>1 DEF RowsKept, ItemsOf
      <4> QED
        BY <2>3, <3>1, <4>1 DEF ClosedDecided
    <3>2. \A r \in reviewDone : reqStatus'[r] \notin {"absent", "draft"}
      BY <2>1, <2>5 DEF ClosedDecided, RowsKept
    <3> QED
      BY <2>1, <3>1, <3>2 DEF ClosedDecided, Active, Decided
  <2>8. ASSUME NEW w \in Workers PROVE CallOK(call[w])'
    BY <1>0, <2>1, <2>5 DEF CallOK, LinesOf, Active, Decided
  <2> QED
    BY <1>a, <2>6, <2>7, <2>8
<1>10. CASE RevisionStep
  <2>1. PICK r \in Requests : \E S \in SUBSET ItemsOf(r) : CfoRevisionFromRegister(r, S)
    BY <1>10 DEF RevisionStep
  <2> PICK S \in SUBSET ItemsOf(r) : CfoRevisionFromRegister(r, S)
    BY <2>1
  <2>2. /\ itemStatus' = [i \in Items |-> IF i \in S THEN "on_review" ELSE itemStatus[i]]
        /\ cfoDecision' = [i \in Items |-> IF i \in S THEN "on_revision" ELSE cfoDecision[i]]
        /\ reviewDone' = reviewDone \ {r}
        /\ UNCHANGED <<reqStatus, linked, econDecision, posStep>>
    BY DEF CfoRevisionFromRegister, flagVars, econVars
  <2>3. \A i \in S : i \in Items /\ Active(i)
    BY DEF ItemsOf
  <2>4. RowsInv'
    BY <2>2, <2>3 DEF RowsKept, LinesThere, ClosedDecided, NothingUnseen, Decided,
        LinesOf, Active, ItemStatus, Decisions
  <2>5. ASSUME NEW w \in Workers PROVE CallOK(call[w])'
    BY <1>0, <2>2, <2>3 DEF CallOK, RowsKept, LinesThere, LinesOf, Active, Decided
  <2> QED
    BY <1>a, <2>4, <2>5
<1> QED
  BY <1>1, <1>2, <1>3, <1>6, <1>7, <1>8, <1>9, <1>10
     DEF AtomicStep, CompleteReviewStep, LockedPositionStep

\* A handler that ends has no more to remember.
LEMMA SeenEnd ==
    ASSUME RacesInv, SeenInv, NEW w \in Workers, End(w), RowsInv',
           \A v \in Workers \ {w} : call'[v] = call[v] => CallOK(call[v])'
    PROVE  SeenInv'
<1>1. call'[w] = Idle /\ \A v \in Workers \ {w} : call'[v] = call[v]
  BY CallReplaced DEF End, RacesInv
<1>2. CallOK(call[w])'
  BY <1>1 DEF CallOK, Idle
<1>3. CreateApart'
  BY <1>1 DEF SeenInv, CreateApart, InFlight, Idle
<1> QED
  BY <1>1, <1>2, <1>3 DEF SeenInv

LEMMA SeenFail ==
    ASSUME RacesInv, SeenInv, NEW w \in Workers, Fail(w)
    PROVE  SeenInv'
<1>1. UNCHANGED <<reqStatus, reviewDone, itemStatus, linked, cfoDecision, econDecision, posStep>>
  BY DEF Fail, vars, reqVars, flagVars, cfoVars, econVars, posVars
<1>2. RowsInv'
  BY <1>1 DEF SeenInv, RowsInv, RowsKept, LinesThere, ClosedDecided, NothingUnseen,
      Decided, LinesOf, Active
<1>3. ASSUME NEW v \in Workers \ {w}, call'[v] = call[v] PROVE CallOK(call[v])'
  BY <1>1, <1>3 DEF SeenInv, CallOK, LinesOf, Active, Decided
<1> QED
  BY <1>2, <1>3, SeenEnd DEF Fail

\* The line that is inserted is at no position yet.
LEMMA SeenCreateItem ==
    ASSUME RacesInv, SeenInv, NEW w \in Workers, EndCreateItem(w), ~Fail(w)
    PROVE  SeenInv'
<1> USE RouteAssumption DEF SeenInv, RowsInv
<1> DEFINE i == call[w].item
<1>1. /\ call[w].op = "create_item" /\ i \in Items /\ itemStatus[i] = "absent" /\ i \notin linked
      /\ End(w) /\ itemStatus' = [itemStatus EXCEPT ![i] = "on_review"]
      /\ UNCHANGED <<reqStatus, reviewDone, linked, cfoDecision, econDecision, posStep>>
  BY DEF EndCreateItem, CallOK, InsertItem, LinesThere, reqVars, flagVars, cfoVars,
      econVars, posVars
<1>2. RowsInv'
  BY <1>1 DEF RowsKept, LinesThere, ClosedDecided, NothingUnseen, Decided, LinesOf,
      Active, ItemStatus
<1>3. ASSUME NEW v \in Workers \ {w}, call'[v] = call[v] PROVE CallOK(call[v])'
  BY <1>1, <1>3 DEF CallOK, CreateApart, InFlight, RowsKept, LinesOf, Active, Decided
<1> QED
  BY <1>1, <1>2, <1>3, SeenEnd

LEMMA SeenDeleteItem ==
    ASSUME RacesInv, SeenInv, NEW w \in Workers, EndDeleteItem(w), ~Fail(w)
    PROVE  SeenInv'
<1> USE RouteAssumption DEF SeenInv, RowsInv
<1> DEFINE i == call[w].item
<1>1. /\ i \in Items /\ itemStatus[i] # "absent"
      /\ End(w) /\ itemStatus' = [itemStatus EXCEPT ![i] = "deleted"]
      /\ UNCHANGED <<reqStatus, reviewDone, linked, cfoDecision, econDecision, posStep>>
  BY DEF EndDeleteItem, CallOK, MarkDeleted, reqVars, flagVars, cfoVars, econVars,
      posVars
<1>2. RowsInv'
  BY <1>1 DEF RowsKept, LinesThere, ClosedDecided, NothingUnseen, Decided, LinesOf,
      Active, ItemStatus
<1>3. ASSUME NEW v \in Workers \ {w}, call'[v] = call[v] PROVE CallOK(call[v])'
  BY <1>1, <1>3 DEF CallOK, RowsKept, LinesOf, Active, Decided
<1> QED
  BY <1>1, <1>2, <1>3, SeenEnd

\* The lines of a request go with it; who has locked a request has another one.
LEMMA SeenDeleteRequest ==
    ASSUME RacesInv, SeenInv, NEW w \in Workers, EndDeleteRequest(w), ~Fail(w)
    PROVE  SeenInv'
<1> USE RouteAssumption DEF SeenInv, RowsInv
<1> DEFINE r == call[w].req
           kept == {i \in Items : ReqOf[i] # r}
<1>1. /\ r \in Requests /\ ~RequestLocked(r) /\ End(w)
      /\ reqStatus' = [reqStatus EXCEPT ![r] = "absent"]
      /\ reviewDone' = reviewDone \ {r}
      /\ itemStatus' = [i \in Items |-> IF i \in kept THEN itemStatus[i] ELSE "absent"]
      /\ linked' = linked \cap kept
      /\ cfoDecision' = [i \in Items |-> IF i \in kept THEN cfoDecision[i] ELSE "none"]
      /\ econDecision' = [i \in Items |-> IF i \in kept THEN econDecision[i] ELSE "none"]
      /\ UNCHANGED posStep
  BY DEF EndDeleteRequest, CallOK, RemoveRequest
<1>2. RowsInv'
  <2>1. RowsKept'
    BY <1>1 DEF RowsKept, RequestStatus, ItemStatus
  <2>2. LinesThere'
    BY <1>1 DEF RowsKept, LinesThere
  <2>3. ClosedDecided' /\ NothingUnseen'
    BY <1>1 DEF RowsKept, ClosedDecided, NothingUnseen, Decided, LinesOf, Active
  <2> QED
    BY <2>1, <2>2, <2>3
<1>3. ASSUME NEW v \in Workers \ {w}, call'[v] = call[v] PROVE CallOK(call[v])'
  <2>1. CallOK(call[v]) /\ (Locked(v) => call[v].req # r)
    BY <1>1 DEF RequestLocked, InFlight, Locked
  <2> QED
    BY <1>1, <1>3, <2>1 DEF CallOK, Locked, RowsKept, LinesOf, Active, Decided
<1> QED
  BY <1>1, <1>2, <1>3, SeenEnd

\* What submit sends is among the lines it has read, and the request they were
\* read of is still there.
LEMMA SeenLock ==
    ASSUME RacesInv, SeenInv, NEW w \in Workers, LockSubmit(w), ~Fail(w)
    PROVE  SeenInv'
<1> DEFINE c == call[w]
           held == [op |-> "submit", stage |-> "locked", req |-> c.req,
                    again |-> SubmitAgain(c), sent |-> CachedLines(c),
                    known |-> {p \in Positions : posStatus[p] # "absent"}]
<1>1. /\ c.op = "submit" /\ c.stage = "read" /\ PassesUnderLock(c)
      /\ call' = [call EXCEPT ![w] = held]
      /\ UNCHANGED <<reqStatus, reviewDone, itemStatus, linked, cfoDecision, econDecision, posStep>>
  BY DEF LockSubmit, vars, reqVars, flagVars, cfoVars, econVars, posVars
<1>2. CachedLines(c) \subseteq {i \in c.active : ReqOf[i] = c.req}
  BY DEF CachedLines
<1>3. c.req \in Requests /\ reqStatus[c.req] # "absent"
  BY <1>1 DEF SeenInv, CallOK, PassesUnderLock, SubmitAgain
<1>4. CallOK(held)
  BY <1>1, <1>2, <1>3 DEF SeenInv, CallOK
<1> HIDE DEF held
<1>5. call'[w] = held /\ \A v \in Workers \ {w} : call'[v] = call[v]
  BY <1>1, CallReplaced DEF RacesInv
<1>6. RowsInv'
  BY <1>1 DEF SeenInv, RowsInv, RowsKept, LinesThere, ClosedDecided, NothingUnseen,
      Decided, LinesOf, Active
<1>7. ASSUME NEW v \in Workers PROVE CallOK(call[v])'
  <2>1. CallOK(call'[v])
    BY <1>4, <1>5 DEF SeenInv
  <2> QED
    BY <1>1, <2>1 DEF CallOK, LinesOf, Active, Decided
<1>8. CreateApart'
  BY <1>5 DEF SeenInv, CreateApart, InFlight, held
<1> QED
  BY <1>6, <1>7, <1>8 DEF SeenInv

\* The lines sent are of a request that is not reviewed, at positions that go
\* back to the CFO and that nobody is handing over.
LEMMA SeenSubmit ==
    ASSUME RacesInv, SeenInv, NEW w \in Workers, EndSubmit(w), ~Fail(w)
    PROVE  SeenInv'
<1> USE RouteAssumption DEF SeenInv, RowsInv
<1> DEFINE r == call[w].req
           sent == call[w].sent
           affected == {PosOf[i] : i \in sent}
<1>1. /\ r \in Requests /\ reqStatus[r] # "absent" /\ sent \subseteq Items
      /\ \A i \in sent : ReqOf[i] = r /\ itemStatus[i] # "absent"
      /\ \A p \in affected : ~PositionLocked(p)
      /\ End(w) /\ HandToCfo(r, sent, call[w].again)
  BY DEF EndSubmit, CallOK
<1>2. /\ linked' = linked \cup sent
      /\ posStep' = [p \in Positions |-> IF p \in affected THEN Leaf ELSE posStep[p]]
      /\ reqStatus' = [reqStatus EXCEPT ![r] = "on_review"]
      /\ UNCHANGED <<itemStatus, cfoDecision, econDecision>>
  BY <1>1 DEF HandToCfo, econVars
<1>3. r \notin reviewDone' /\ reviewDone' \subseteq reviewDone
  <2>1. CASE call[w].again
    BY <1>1, <2>1 DEF HandToCfo
  <2>2. CASE ~call[w].again
    <3>1. reqStatus[r] = "draft"
      BY <2>2 DEF EndSubmit, RacesInv, SubmittedOnce, InFlight
    <3> QED
      BY <1>1, <2>2, <3>1 DEF HandToCfo, ClosedDecided
  <2> QED
    BY <2>1, <2>2
<1>4. RowsInv'
  <2>1. RowsKept'
    BY <1>1, <1>2, <1>3 DEF RowsKept, RequestStatus
  <2>2. LinesThere'
    BY <1>1, <1>2 DEF RowsKept, LinesThere
  <2>3. ClosedDecided'
    BY <1>1, <1>2, <1>3 DEF RowsKept, ClosedDecided, Decided, Active
  <2>4. NothingUnseen'
    BY <1>1, <1>2 DEF RowsKept, NothingUnseen, Decided, LinesOf, Active
  <2> QED
    BY <2>1, <2>2, <2>3, <2>4
<1>5. ASSUME NEW v \in Workers \ {w}, call'[v] = call[v] PROVE CallOK(call[v])'
  <2>1. CallOK(call[v]) /\ (call[v].op = "submit_to_economist" => call[v].pos \notin affected)
    BY <1>1 DEF PositionLocked, InFlight
  <2> HIDE DEF r, sent
  <2> QED
    BY <1>1, <1>2, <1>5, <2>1 DEF CallOK, RowsKept, LinesOf, Active, Decided
<1> QED
  BY <1>1, <1>4, <1>5, SeenEnd

LEMMA SeenDecide ==
    ASSUME RacesInv, SeenInv, NEW w \in Workers, EndDecideCfo(w), ~Fail(w)
    PROVE  SeenInv'
<1> USE RouteAssumption DEF SeenInv, RowsInv
<1> DEFINE i == call[w].item
           d == call[w].decision
<1>1. /\ i \in Items /\ itemStatus[i] # "absent" /\ d \in Decisions /\ d # "none"
      /\ End(w)
      /\ itemStatus' = [itemStatus EXCEPT ![i] = IF d = "rejected" THEN d ELSE "on_review"]
      /\ cfoDecision' = [cfoDecision EXCEPT ![i] = d]
      /\ UNCHANGED <<reqStatus, reviewDone, linked, econDecision, posStep>>
  BY DEF EndDecideCfo, CallOK, RecordCfoDecision, Decisions, reqVars, flagVars,
      econVars, posVars
<1> HIDE DEF i, d
<1>2. RowsInv'
  BY <1>1 DEF RowsKept, LinesThere, ClosedDecided, NothingUnseen, Decided, LinesOf,
      Active, ItemStatus
<1>3. ASSUME NEW v \in Workers \ {w}, call'[v] = call[v] PROVE CallOK(call[v])'
  BY <1>1, <1>3 DEF CallOK, RowsKept, LinesOf, Active, Decided
<1> QED
  BY <1>1, <1>2, <1>3, SeenEnd

\* Under the lock nothing undecided has come to the position.
LEMMA SeenToEconomist ==
    ASSUME RacesInv, SeenInv, NEW w \in Workers, EndSubmitToEconomist(w)
    PROVE  SeenInv'
<1> USE RouteAssumption DEF SeenInv, RowsInv
<1> DEFINE p == call[w].pos
<1>1. /\ p \in Positions /\ \A i \in LinesOf(p) : Decided(i)
      /\ End(w) /\ posStep' = [posStep EXCEPT ![p] = Econ]
      /\ UNCHANGED <<reqStatus, reviewDone, itemStatus, linked, cfoDecision, econDecision>>
  BY DEF EndSubmitToEconomist, HandToEconomist, CallOK, reqVars, flagVars, cfoVars,
      econVars
<1> HIDE DEF p
<1>2. RowsInv'
  BY <1>1 DEF RowsKept, LinesThere, ClosedDecided, NothingUnseen, Decided, LinesOf, Active
<1>3. ASSUME NEW v \in Workers \ {w}, call'[v] = call[v] PROVE CallOK(call[v])'
  BY <1>1, <1>3 DEF CallOK, LinesOf, Active, Decided
<1> QED
  BY <1>1, <1>2, <1>3, SeenEnd

\* However many handlers overlap, whatever they have read before they lock: no
\* line is at the economist or above that neither the CFO nor the economist has
\* decided.  submit_to_economist looks at every request of the CFO under the
\* lock of the position, and a submission takes its positions back to the CFO.
THEOREM NothingGoesUnseen == RacesSpec => []NothingUnseen
<1>1. RacesInit => RacesInv /\ SeenInv
  BY RacesInvInit, SeenInvInit
<1>2. RacesInv /\ SeenInv /\ [RacesNext]_<<vars, call>> => RacesInv' /\ SeenInv'
  <2>1. RacesInv /\ SeenInv /\ EndStep => SeenInv'
    <3> SUFFICES ASSUME RacesInv, SeenInv, NEW w \in Workers,
                        \/ EndCreateItem(w) \/ EndDeleteItem(w) \/ EndDeleteRequest(w)
                        \/ LockSubmit(w) \/ EndSubmit(w)
                        \/ EndDecideCfo(w) \/ EndSubmitToEconomist(w)
                 PROVE  SeenInv'
        BY DEF EndStep
    <3> QED
      BY SeenFail, SeenCreateItem, SeenDeleteItem, SeenDeleteRequest, SeenLock,
          SeenSubmit,
         SeenDecide, SeenToEconomist
  <2>2. RacesInv /\ (AtomicStep \/ RevisionStep) => RacesInv'
    BY AtomicKeeps
  <2>3. RacesInv /\ SeenInv /\ UNCHANGED <<vars, call>> => RacesInv' /\ SeenInv'
    <3> SUFFICES ASSUME RacesInv, SeenInv, UNCHANGED <<vars, call>> PROVE RacesInv' /\ SeenInv'
        OBVIOUS
    <3>1. RacesInv'
      BY DEF vars, reqVars, RacesInv, Shape, LockedAlone, Locked, SubmittedOnce,
          InFlight
    <3>2. /\ UNCHANGED <<reqStatus, reviewDone, itemStatus, linked, cfoDecision, econDecision, posStep>>
          /\ call' = call
      BY DEF vars, reqVars, flagVars, cfoVars, econVars, posVars
    <3>3. RowsInv'
      BY <3>2 DEF SeenInv, RowsInv, RowsKept, LinesThere, ClosedDecided, NothingUnseen,
          Decided, LinesOf, Active
    <3>4. CreateApart' /\ \A w \in Workers : CallOK(call[w])'
      BY <3>2 DEF SeenInv, CreateApart, InFlight, CallOK, LinesOf, Active, Decided
    <3> QED
      BY <3>1, <3>3, <3>4 DEF SeenInv
  <2> QED
    BY <2>1, <2>2, <2>3, BeginStepKeeps, EndStepKeeps, SeenBeginStep,
        SeenAtomic DEF RacesNext
<1>3. SeenInv => NothingUnseen
  BY DEF SeenInv, RowsInv
<1> QED
  BY <1>1, <1>2, <1>3, PTL DEF RacesSpec

=============================================================================
