---------------------------- MODULE HandlerRaces ----------------------------
(***************************************************************************)
(* The handlers of BudgetWorkflow that read before they lock, taken apart. *)
(*                                                                         *)
(* The service runs every HTTP request in a thread of its own, in READ     *)
(* COMMITTED transactions.  A table read once is answered from the cache   *)
(* of the HTTP request until that request writes the table                 *)
(* (SqlRepository.load_all), so a handler may decide on rows that are      *)
(* older than the lock it holds.  A worker is one HTTP request in flight;  *)
(* its call records what the handler has read.                             *)
(*                                                                         *)
(* create_item, delete_item and delete_request check the request and write *)
(* later without looking again.  submit caches the lines (and for a        *)
(* resubmission the log) before it locks the request, and reads the        *)
(* position before it updates it.  decide_cfo locks nothing but the row it *)
(* writes.  submit_to_economist holds the position while it looks at the   *)
(* requests.  The other handlers hold the lock of the position or of the   *)
(* request from their first read on, and stay atomic.  The module follows  *)
(* lines on their first way up a route without intermediate reviewers:     *)
(* forwarding and the commands that take work back from above the CFO are  *)
(* left to BudgetWorkflow.                                                 *)
(*                                                                         *)
(* Log rows carry the start of their transaction.  Their order is that of  *)
(* the commits here: a hand-over waits for the decisions in flight.        *)
(***************************************************************************)
EXTENDS BudgetWorkflow

CONSTANT Workers

VARIABLE call

Idle == [op |-> "idle"]

InFlight(op) == {w \in Workers : call[w].op = op}

\* SELECT ... FOR UPDATE held until the commit
RequestLocked(r) ==
    \E w \in InFlight("submit") : call[w].stage = "locked" /\ call[w].req = r
PositionLocked(p) == \E w \in InFlight("submit_to_economist") : call[w].pos = p

Deciding(r) == \E w \in InFlight("decide_cfo") : ReqOf[call[w].item] = r

\* A new request gets an id of its own: a deleted one is not created again
\* while a call still carries its id or the id of one of its lines
Remembered(r) ==
    \/ \E w \in InFlight("delete_request") \cup InFlight("submit") : call[w].req = r
    \/ \E w \in InFlight("create_item") \cup InFlight("delete_item")
                \cup InFlight("decide_cfo") : ReqOf[call[w].item] = r

Begin(w, c) == call[w] = Idle /\ call' = [call EXCEPT ![w] = c] /\ UNCHANGED vars
End(w)      == call' = [call EXCEPT ![w] = Idle]
Fail(w)     == End(w) /\ UNCHANGED vars

-----------------------------------------------------------------------------
(* Module *)

\* The insert waits for a lock on the request row and fails without the row
BeginCreateItem(w, i) ==
    /\ CanCreateItem(i)
    /\ \A v \in InFlight("create_item") : call[v].item # i
    /\ Begin(w, [op |-> "create_item", item |-> i])

EndCreateItem(w) ==
    /\ call[w].op = "create_item"
    /\ LET i == call[w].item
       IN  /\ ~RequestLocked(ReqOf[i])
           /\ IF reqStatus[ReqOf[i]] = "absent" THEN Fail(w)
              ELSE InsertItem(i) /\ End(w)

BeginDeleteItem(w, i) == CanDeleteItem(i) /\ Begin(w, [op |-> "delete_item", item |-> i])

EndDeleteItem(w) ==
    /\ call[w].op = "delete_item"
    /\ LET i == call[w].item
       IN IF itemStatus[i] = "absent" THEN Fail(w) ELSE MarkDeleted(i) /\ End(w)

BeginDeleteRequest(w, r) ==
    reqStatus[r] = "draft" /\ Begin(w, [op |-> "delete_request", req |-> r])

\* The request goes with its lines and its log; the positions stay, and what
\* their log says of the lines is never asked again
RemoveRequest(r) ==
    LET kept == {i \in Items : ReqOf[i] # r}
        Keep(f, empty) == [i \in Items |-> IF i \in kept THEN f[i] ELSE empty]
    IN  /\ reqStatus' = [reqStatus EXCEPT ![r] = "absent"]
        /\ reviewDone' = reviewDone \ {r}
        /\ handoff' = [handoff EXCEPT ![r] = "none"]
        /\ pack' = [pack EXCEPT ![r] = {}]
        /\ itemStatus' = Keep(itemStatus, "absent")
        /\ linked' = linked \cap kept
        /\ frozen' = frozen \cap kept
        /\ fixed' = fixed \cap kept
        /\ cfoDecision' = Keep(cfoDecision, "none")
        /\ econDecision' = Keep(econDecision, "none")
        /\ sinceHandoff' = sinceHandoff \cap kept
        /\ sinceOwn' = sinceOwn \cap kept
        /\ sinceReturn' = sinceReturn \cap kept
        /\ econFresh' = econFresh \cap kept
        /\ approvedAt' = [p \in Positions |-> [s \in Reviewers |-> approvedAt[p][s] \cap kept]]
        /\ UNCHANGED <<posStatus, posStep, lastReturn>>

EndDeleteRequest(w) ==
    /\ call[w].op = "delete_request"
    /\ LET r == call[w].req
       IN  /\ ~RequestLocked(r)
           /\ IF reqStatus[r] = "absent" THEN Fail(w) ELSE RemoveRequest(r) /\ End(w)

\* What submit reads before its transaction: the lines (into the cache of the
\* request), for a request on review also the log
BeginSubmit(w, r) ==
    /\ reqStatus[r] = "draft" \/ IsRevision(r)
    /\ ItemsOf(r) # {}
    /\ Begin(w, [op |-> "submit", stage |-> "read", req |-> r,
                 active |-> {i \in Items : Active(i)}, member |-> linked,
                 closed |-> frozen \cup fixed,
                 cached |-> reqStatus[r] = "on_review", returned |-> Returned(r)])

\* The request row is read again under the lock.  The lines come from the cache,
\* and so does the log when it is in there.
SubmitAgain(c) ==
    LET returned == IF c.cached THEN c.returned ELSE Returned(c.req)
    IN  reqStatus[c.req] = "on_review" /\ returned # {}

CachedLines(c) ==
    LET returned == IF c.cached THEN c.returned ELSE Returned(c.req)
        lines    == {i \in c.active : ReqOf[i] = c.req}
    IN  IF SubmitAgain(c) THEN lines \cap returned ELSE lines

\* Mutant: the status of the request is not read again under the lock
PassesUnseen(c) ==
    \A i \in CachedLines(c) :
        /\ i \notin c.closed
        /\ {j \in c.active \cap c.member : PosOf[j] = PosOf[i]} \cap c.closed = {}
        /\ posStep[PosOf[i]] \in {NoStep, Leaf}

PassesUnderLock(c) ==
    /\ reqStatus[c.req] = "draft" \/ SubmitAgain(c)
    /\ \A i \in CachedLines(c) :
          /\ i \notin c.closed
          /\ {j \in c.active \cap c.member : PosOf[j] = PosOf[i]} \cap c.closed = {}
          /\ posStep[PosOf[i]] \in {NoStep, Leaf}

LockSubmit(w) ==
    LET c == call[w]
    IN  /\ c.op = "submit" /\ c.stage = "read"
        /\ ~RequestLocked(c.req)
        /\ IF PassesUnderLock(c)
           THEN /\ call' = [call EXCEPT ![w] =
                     [op |-> "submit", stage |-> "locked", req |-> c.req,
                      again |-> SubmitAgain(c), sent |-> CachedLines(c),
                      known |-> {p \in Positions : posStatus[p] # "absent"}]]
                /\ UNCHANGED vars
           ELSE Fail(w)

\* Waits for the lock of a position it updates.  A position that another
\* request has created in the meantime violates the unique index.
EndSubmit(w) ==
    LET c == call[w]
        affected == {PosOf[i] : i \in c.sent}
    IN  /\ c.op = "submit" /\ c.stage = "locked"
        /\ c.again => ~Deciding(c.req)
        /\ \A p \in affected : ~PositionLocked(p)
        /\ IF \E p \in affected : p \notin c.known /\ posStatus[p] # "absent"
           THEN Fail(w)
           ELSE HandToCfo(c.req, c.sent, c.again) /\ End(w)

-----------------------------------------------------------------------------
(* CFO *)

BeginDecideCfo(w, i, d) ==
    CanDecideCfo(i) /\ Begin(w, [op |-> "decide_cfo", item |-> i, decision |-> d])

EndDecideCfo(w) ==
    /\ call[w].op = "decide_cfo"
    /\ LET i == call[w].item
       IN IF itemStatus[i] = "absent" THEN Fail(w)
          ELSE RecordCfoDecision(i, call[w].decision) /\ End(w)

BeginSubmitToEconomist(w, p) ==
    /\ ~PositionLocked(p)
    /\ CanSubmitToEconomist(p)
    /\ Begin(w, [op |-> "submit_to_economist", pos |-> p])

EndSubmitToEconomist(w) ==
    /\ call[w].op = "submit_to_economist"
    /\ HandToEconomist(call[w].pos) /\ End(w)

-----------------------------------------------------------------------------
(* The handlers that hold their lock from the first read on *)

CompleteReviewStep == \E r \in Requests : ~RequestLocked(r) /\ CompleteCfoReview(r)

\* One revision package of the CFO
RevisionStep ==
    /\ \E r \in Requests :
          /\ ~RequestLocked(r) /\ ~Deciding(r)
          /\ \E S \in SUBSET ItemsOf(r) :
                /\ \A i \in S \cap linked : ~PositionLocked(PosOf[i])
                /\ CfoRevisionFromRegister(r, S)
    /\ UNCHANGED call

LockedPositionStep ==
    \E p \in Positions :
        /\ ~PositionLocked(p)
        /\ \/ \E i \in Items, d \in Decisions : PosOf[i] = p /\ DecideItemEconomist(i, d)
           \/ CompleteEconomistReview(p)
           \/ \E S \in SUBSET Items : FreezePosition(p, S) \/ ApproveItemsAtStep(p, S)
           \/ /\ \A i \in OpenLines(p) : ~RequestLocked(ReqOf[i])
              /\ FixPosition(p)

AtomicStep ==
    /\ \/ \E r \in Requests : ~Remembered(r) /\ CreateRequest(r)
       \/ CompleteReviewStep
       \/ LockedPositionStep
    /\ UNCHANGED call

BeginStep ==
    \E w \in Workers :
        \/ \E i \in Items : BeginCreateItem(w, i) \/ BeginDeleteItem(w, i)
        \/ \E r \in Requests : BeginDeleteRequest(w, r) \/ BeginSubmit(w, r)
        \/ \E i \in Items, d \in Decisions : BeginDecideCfo(w, i, d)
        \/ \E p \in Positions : BeginSubmitToEconomist(w, p)

EndStep ==
    \E w \in Workers :
        \/ EndCreateItem(w) \/ EndDeleteItem(w) \/ EndDeleteRequest(w)
        \/ LockSubmit(w) \/ EndSubmit(w)
        \/ EndDecideCfo(w) \/ EndSubmitToEconomist(w)

RacesInit == Init /\ call = [w \in Workers |-> Idle]
RacesNext == AtomicStep \/ RevisionStep \/ BeginStep \/ EndStep
RacesSpec == RacesInit /\ [][RacesNext]_<<vars, call>>

-----------------------------------------------------------------------------
(* Properties *)

\* However the handlers overlap, no line is at the economist or above that
\* neither the CFO nor the economist has decided: the look at every request of
\* the CFO, taken under the lock of the position, closes the window.
NothingUnseen ==
    \A p \in Positions : posStep[p] \notin {Leaf, NoStep} =>
        \A i \in LinesOf(p) : cfoDecision[i] # "none" \/ econDecision[i] # "none"

\* Of two calls that submit the same draft one takes effect: who holds the
\* request for its first submission finds a draft and keeps it a draft until
\* the commit, whatever was read before the lock and whoever else is under way
\* (submit, delete_request, complete_cfo_review, fix_position).
SubmittedOnce ==
    \A w \in InFlight("submit") :
        call[w].stage = "locked" /\ ~call[w].again => reqStatus[call[w].req] = "draft"

-----------------------------------------------------------------------------
(* What the checks of the handlers promise and their overlap does not keep. *)
(* No run checks these; added to ModulesRace.cfg each of them is refuted.   *)

\* Only a draft can be deleted.
OnlyDraftsVanish ==
    [][\A r \in Requests : reqStatus[r] \in {"on_review", "approved", "rejected"}
          => reqStatus'[r] # "absent"]_<<vars, call>>

\* A request without lines cannot be submitted.
SubmittedWithLines ==
    [][\A r \in Requests : reqStatus[r] = "draft" /\ reqStatus'[r] = "on_review"
          => ItemsOf(r) # {}]_<<vars, call>>

\* A completed review is undone only by a new package for the module.
CompletedReviewStands ==
    [][\A r \in reviewDone \ reviewDone' :
          reqStatus'[r] # "absent" => handoff'[r] = "returned"]_<<vars, call>>

\* A frozen line cannot be changed, not even by a decision made on a line that
\* was open when the handler read it.
FrozenStaysPut ==
    [][\A i \in frozen \cap frozen' : itemStatus'[i] = itemStatus[i]]_<<vars, call>>

\* A position above the CFO is not brought back by a submission.
NotPulledBack ==
    [][\A p \in Positions : posStep[p] \notin {Leaf, NoStep} => posStep'[p] # Leaf]_<<vars, call>>

=============================================================================
