---------------------------- MODULE RequestsList ----------------------------
(***************************************************************************)
(* The list of the requests of an employee's modules                       *)
(* (pages/RequestsPage.tsx) with the handlers behind its buttons: a        *)
(* request is created, a draft deleted, a cancelled one restored, and the  *)
(* closed ones exported.  A second responsible uses the same handlers at   *)
(* the same time, and the requests go through their workflow, which is     *)
(* reduced here to submitting and closing.                                 *)
(*                                                                         *)
(* One budget year; an id that is "absent" is not in use.  Requests are    *)
(* cancelled by earlier versions of the program only.                      *)
(***************************************************************************)
EXTENDS Naturals, FiniteSets

CONSTANTS
    Requests,
    Modules,    \* those that requests are created for
    UnitOf,     \* unit_id, when the request is there
    First,      \* employeeModules[0], the module the button creates for
    Filters,    \* values of the status filter: "all" and statuses
    None,
    MaxClicks,  \* bound on the calls of the user
    MaxMoves,   \* bound on what the others do
    MaxMissed   \* bound on lost answers

ASSUME RequestsAssumption ==
    /\ IsFiniteSet(Requests) /\ First \in Modules /\ "all" \in Filters
    /\ "list" \notin Requests /\ None \notin Requests
    /\ MaxClicks \in Nat /\ MaxMoves \in Nat /\ MaxMissed \in Nat

Statuses == {"draft", "on_review", "approved", "rejected", "cancelled"}
Closed   == {"approved", "rejected"}      \* CLOSED_EXPORT_STATUSES
Actors   == {"me", "other"}

VARIABLES
    db,       \* status of each request at the server
    call,     \* the call of each actor
    place,    \* the page on screen: the list or a request
    filter,
    list,     \* the cached rows of each filter
    fetch,    \* the fetch of each filter
    stale,    \* invalidated filters
    question,   \* deleteTarget
    export,   \* the export dialog and its request
    behind,   \* what the cached rows lack of the changes the user was told of
    strayed,  \* a file had a request in it that its table did not show
    clicks, moves, missed

cacheVars  == <<list, fetch, stale, behind>>
exportVars == <<export, strayed>>
listVars == <<db, call, place, filter, cacheVars, question, exportVars, clicks, moves, missed>>

AtRest  == [state |-> "idle"]
Asked == [state |-> "asked"]
NotLoaded == [r \in Requests |-> "not loaded"]
NotExporting == [open |-> FALSE, ticked |-> {}, asked |-> AtRest]

Rows == [Requests -> Statuses \cup {"absent"}]

\* A call under way: of a module to create in, or of a request
Call == [op : {"create", "delete", "restore"}, on : Requests \cup Modules,
         state : {"sent", "checked", "ok", "existing", "error"}, id : Requests \cup {None}]
Fetched == [state : {"read"}, fresh : BOOLEAN, rows : Rows]
Export  == [open : BOOLEAN, ticked : SUBSET Closed,
            asked : {AtRest} \cup [state : {"sent"}, shown : SUBSET Requests, ids : SUBSET Requests,
                                   ticked : SUBSET Closed]]

ListTypeOK ==
    /\ db \in Rows /\ call \in [Actors -> {AtRest} \cup Call]
    /\ place \in {"list"} \cup Requests /\ filter \in Filters
    /\ list \in [Filters -> Rows \cup {NotLoaded}]
    /\ fetch \in [Filters -> {AtRest, Asked} \cup Fetched]
    /\ stale \subseteq Filters /\ behind \in [Filters -> {"no", "told", "slipped"}]
    /\ question \in Requests \cup {None} /\ export \in Export /\ strayed \in BOOLEAN
    /\ clicks \in 0 .. MaxClicks /\ moves \in 0 .. MaxMoves /\ missed \in 0 .. MaxMissed

Active(r) == db[r] \notin {"absent", "cancelled"}
Actives(m) == {r \in Requests : UnitOf[r] = m /\ Active(r)}
Unused(m) == {r \in Requests : UnitOf[r] = m /\ db[r] = "absent"}

-----------------------------------------------------------------------------
(* The server.  Each handler checks, then writes: a committed write of the *)
(* other actor may come between.                                           *)

Send(a, op, on) ==
    /\ call[a] = AtRest
    /\ call' = [call EXCEPT ![a] = [op |-> op, on |-> on, state |-> "sent", id |-> None]]

\* The other one's answers are of no interest here
Reply(a, state, id) ==
    call' = [call EXCEPT ![a] = IF a = "other" THEN AtRest
                                ELSE [@ EXCEPT !.state = state, !.id = id]]
Pass(a) == call' = [call EXCEPT ![a].state = "checked"]

Serving(a, op, state) == call[a] # AtRest /\ call[a].op = op /\ call[a].state = state

CheckCreate(a) ==
    LET there == Actives(call[a].on)
    IN IF there = {} THEN Pass(a) ELSE \E r \in there : Reply(a, "existing", r)

\* Mutant: without the index of the active requests
InsertUnchecked(a, r) == db' = [db EXCEPT ![r] = "draft"] /\ Reply(a, "ok", r)

\* The unique index of the active requests refuses what the check has missed,
\* and its message names no request
Insert(a, r) ==
    IF Actives(UnitOf[r]) = {} THEN db' = [db EXCEPT ![r] = "draft"] /\ Reply(a, "ok", r)
    ELSE Reply(a, "error", None) /\ UNCHANGED db

CheckDelete(a) == IF db[call[a].on] = "draft" THEN Pass(a) ELSE Reply(a, "error", None)
Delete(a, r) ==
    IF db[r] = "absent" THEN Reply(a, "error", None) /\ UNCHANGED db
    ELSE db' = [db EXCEPT ![r] = "absent"] /\ Reply(a, "ok", None)

\* The row is locked from here to the write
CheckRestore(a, r) ==
    IF db[r] = "draft" THEN Reply(a, "ok", r)
    ELSE IF db[r] # "cancelled" THEN Reply(a, "error", None)
    ELSE IF Actives(UnitOf[r]) # {} THEN \E s \in Actives(UnitOf[r]) : Reply(a, "existing", s)
    ELSE Pass(a)

Check(a) ==
    /\ \/ Serving(a, "create", "sent") /\ CheckCreate(a)
       \/ Serving(a, "delete", "sent") /\ CheckDelete(a)
       \/ /\ Serving(a, "restore", "sent") /\ CheckRestore(a, call[a].on)
          /\ \A b \in Actors : ~(Serving(b, "restore", "checked") /\ call[b].on = call[a].on)
    /\ UNCHANGED <<db, place, filter, cacheVars, question, exportVars, clicks, moves, missed>>

Write(a) ==
    /\ \/ Serving(a, "create", "checked") /\ \E r \in Unused(call[a].on) : Insert(a, r)
       \/ Serving(a, "delete", "checked") /\ Delete(a, call[a].on)
       \/ Serving(a, "restore", "checked") /\ Insert(a, call[a].on)
    /\ UNCHANGED <<place, filter, cacheVars, question, exportVars, clicks, moves, missed>>

OtherCalls ==
    /\ moves < MaxMoves /\ moves' = moves + 1
    /\ \/ \E m \in Modules : Send("other", "create", m)
       \/ \E r \in Requests : db[r] = "draft" /\ Send("other", "delete", r)
       \/ \E r \in Requests : db[r] = "cancelled" /\ Send("other", "restore", r)
    /\ UNCHANGED <<db, place, filter, cacheVars, question, exportVars, clicks, missed>>

Workflow(r) ==
    /\ moves < MaxMoves /\ moves' = moves + 1
    /\ \/ db[r] = "draft" /\ db' = [db EXCEPT ![r] = "on_review"]
       \/ db[r] = "on_review" /\ \E s \in Closed : db' = [db EXCEPT ![r] = s]
    /\ UNCHANGED <<call, place, filter, cacheVars, question, exportVars, clicks, missed>>

-----------------------------------------------------------------------------
(* The cache of the lists, one query per filter *)

OnScreen(f) == place = "list" /\ filter = f
Loaded(f) == list[f] # NotLoaded

Serve(f) ==
    /\ fetch[f] = Asked
    /\ fetch' = [fetch EXCEPT ![f] =
          [state |-> "read", fresh |-> TRUE,
           rows |-> [r \in Requests |-> IF f \in {"all", db[r]} THEN db[r] ELSE "absent"]]]
    /\ UNCHANGED <<db, call, place, filter, list, stale, behind, question, exportVars, clicks, moves,
                   missed>>

Load(f) ==
    /\ fetch[f].state = "read"
    /\ list' = [list EXCEPT ![f] = fetch[f].rows]
    /\ stale' = stale \ {f}
    /\ behind' = [behind EXCEPT ![f] = IF fetch[f].fresh THEN "no" ELSE @]
    /\ fetch' = [fetch EXCEPT ![f] = AtRest]
    /\ UNCHANGED <<db, call, place, filter, question, exportVars, clicks, moves, missed>>

\* After its retry; a list that has never been loaded is shown as an empty one
FailLoad(f) ==
    /\ fetch[f] = Asked
    /\ missed < MaxMissed /\ missed' = missed + 1
    /\ fetch' = [fetch EXCEPT ![f] = AtRest]
    /\ UNCHANGED <<db, call, place, filter, list, stale, behind, question, exportVars, clicks, moves>>

\* What has been read by now does not know of the change
Older(x) == IF x.state = "read" THEN [x EXCEPT !.fresh = FALSE] ELSE x

\* Mutant: the fetch under way on screen is let go on
InvalidateIdle ==
    /\ fetch' = [f \in Filters |-> IF OnScreen(f) /\ fetch[f] = AtRest THEN Asked ELSE Older(fetch[f])]
    /\ stale' = Filters

\* invalidateQueries(['requests']): what is on screen is asked anew in place of
\* the fetch under way, the rest when it is next looked at; a fetch under way
\* out of sight goes on, and makes its list count as a good one
Invalidate ==
    /\ fetch' = [f \in Filters |-> IF OnScreen(f) THEN Asked ELSE Older(fetch[f])]
    /\ stale' = Filters

\* A change the user is told of, for the lists that were read before
Tell ==
    /\ Invalidate
    /\ behind' = [f \in Filters |->
                    IF fetch[f].state = "read" /\ ~OnScreen(f) THEN "slipped"
                    ELSE IF Loaded(f) \/ fetch[f].state = "read" THEN "told" ELSE behind[f]]

\* A list comes on screen: one that is not loaded, invalidated or older than
\* half a minute is asked for
Look(f) ==
    /\ fetch' \in IF fetch[f] # AtRest THEN {fetch}
                  ELSE {[fetch EXCEPT ![f] = Asked]}
                       \cup (IF Loaded(f) /\ f \notin stale THEN {fetch} ELSE {})
    /\ UNCHANGED <<list, stale, behind>>

-----------------------------------------------------------------------------
(* The user *)

Shown == {r \in Requests : list[filter][r] \in Statuses}

\* The table is there, and no dialog
Free ==
    /\ place = "list" /\ (Loaded(filter) \/ fetch[filter] = AtRest)
    /\ question = None /\ ~export.open

SetFilter(f) ==
    /\ Free /\ f # filter
    /\ filter' = f
    /\ Look(f)
    /\ UNCHANGED <<db, call, place, question, exportVars, clicks, moves, missed>>

OpenRow(r) ==
    /\ Free /\ r \in Shown
    /\ place' = r
    /\ UNCHANGED <<db, call, filter, cacheVars, question, exportVars, clicks, moves, missed>>

\* The page is built anew, without a filter
Back ==
    /\ place # "list"
    /\ place' = "list" /\ filter' = "all"
    /\ Look("all")
    /\ UNCHANGED <<db, call, question, exportVars, clicks, moves, missed>>

Click(op, on) ==
    /\ clicks < MaxClicks /\ clicks' = clicks + 1
    /\ Send("me", op, on)
    /\ UNCHANGED <<db, place, filter, cacheVars, exportVars, moves, missed>>

ClickCreate == Free /\ Click("create", First) /\ UNCHANGED question
ClickRestore(r) ==
    Free /\ r \in Shown /\ list[filter][r] = "cancelled" /\ Click("restore", r) /\ UNCHANGED question

AskDelete(r) ==
    /\ Free /\ r \in Shown /\ list[filter][r] = "draft"
    /\ question' = r
    /\ UNCHANGED <<db, call, place, filter, cacheVars, exportVars, clicks, moves, missed>>

ConfirmDelete == question # None /\ Click("delete", question) /\ UNCHANGED question

Pending(op) == call["me"] # AtRest /\ call["me"].op = op

CloseDialog == question # None /\ ~Pending("delete") /\ question' = None

CancelDelete ==
    /\ CloseDialog
    /\ UNCHANGED <<db, call, place, filter, cacheVars, exportVars, clicks, moves, missed>>

Lose ==
    /\ call["me"] # AtRest /\ call["me"].state \in {"ok", "existing"}
    /\ missed < MaxMissed /\ missed' = missed + 1
    /\ call' = [call EXCEPT !["me"].state = "error", !["me"].id = None]
    /\ UNCHANGED <<db, place, filter, cacheVars, question, exportVars, clicks, moves>>

\* Whatever page is on screen by now, the answer to a creation opens its request
Navigate(r) == place' = r

Came(op, state) == Pending(op) /\ call["me"].state = state

TakeAnswer ==
    /\ \/ \E s \in {"ok", "existing"} :
             Came("create", s) /\ Tell /\ Navigate(call["me"].id) /\ UNCHANGED question
       \/ Came("delete", "ok") /\ Tell /\ question' = None /\ UNCHANGED place
       \/ Came("restore", "ok") /\ Tell /\ UNCHANGED <<place, question>>
       \/ /\ \E op \in {"create", "delete", "restore"} : Came(op, "error")
                \/ Came("restore", "existing")
          /\ UNCHANGED <<fetch, stale, behind, place, question>>
    /\ call' = [call EXCEPT !["me"] = AtRest]
    /\ UNCHANGED <<db, filter, list, exportVars, clicks, moves, missed>>

-----------------------------------------------------------------------------
(* The export of the closed requests *)

ShownClosed == {r \in Shown : list[filter][r] \in Closed}

\* exportSettingsFromRequestPage: the statuses the table shows now
OpenExport ==
    /\ Free /\ ShownClosed # {}
    /\ export' = [export EXCEPT !.open = TRUE, !.ticked = {list[filter][r] : r \in ShownClosed}]
    /\ UNCHANGED <<db, call, place, filter, cacheVars, question, strayed, clicks, moves, missed>>

ToggleStatus(s) ==
    /\ export.open
    /\ export' = [export EXCEPT !.ticked = IF s \in @ THEN @ \ {s} ELSE @ \cup {s}]
    /\ UNCHANGED <<db, call, place, filter, cacheVars, question, strayed, clicks, moves, missed>>

CloseExport ==
    /\ export.open
    /\ export' = [export EXCEPT !.open = FALSE, !.ticked = {}]
    /\ UNCHANGED <<db, call, place, filter, cacheVars, question, strayed, clicks, moves, missed>>

\* request_ids: the rows of the table
AskFor == Shown

ClickExport ==
    /\ export.open /\ export.asked = AtRest /\ export.ticked # {} /\ ShownClosed # {}
    /\ clicks < MaxClicks /\ clicks' = clicks + 1
    /\ export' = [export EXCEPT !.asked = [state |-> "sent", shown |-> Shown, ids |-> AskFor,
                                               ticked |-> export.ticked]]
    /\ UNCHANGED <<db, call, place, filter, cacheVars, question, strayed, moves, missed>>

\* A file closes the dialog that is open by now; with nothing to put into one
\* the answer is an error
ReceiveExport ==
    /\ export.asked # AtRest
    /\ LET found == {r \in export.asked.ids : db[r] \in export.asked.ticked}
       IN /\ export' = IF found = {} THEN [export EXCEPT !.asked = AtRest] ELSE NotExporting
          /\ strayed' = (strayed \/ ~(found \subseteq export.asked.shown))
    /\ UNCHANGED <<db, call, place, filter, cacheVars, question, clicks, moves, missed>>

-----------------------------------------------------------------------------

ListInit ==
    /\ db \in Rows
    /\ \A m \in Modules : Cardinality(Actives(m)) <= 1
    /\ call = [a \in Actors |-> AtRest]
    /\ place = "list" /\ filter = "all"
    /\ list = [f \in Filters |-> NotLoaded]
    /\ fetch = [f \in Filters |-> IF f = "all" THEN Asked ELSE AtRest]
    /\ stale = {} /\ behind = [f \in Filters |-> "no"]
    /\ question = None
    /\ export = NotExporting
    /\ strayed = FALSE
    /\ clicks = 0 /\ moves = 0 /\ missed = 0

ListNext ==
    \/ \E a \in Actors : Check(a) \/ Write(a)
    \/ OtherCalls
    \/ \E r \in Requests : Workflow(r) \/ OpenRow(r) \/ ClickRestore(r) \/ AskDelete(r)
    \/ \E f \in Filters : Serve(f) \/ Load(f) \/ FailLoad(f) \/ SetFilter(f)
    \/ Back \/ ClickCreate \/ ConfirmDelete \/ CancelDelete \/ Lose \/ TakeAnswer
    \/ OpenExport \/ CloseExport \/ ClickExport \/ ReceiveExport
    \/ \E s \in Closed : ToggleStatus(s)

ListSpec == ListInit /\ [][ListNext]_listVars

-----------------------------------------------------------------------------
(* Properties *)

\* A module has one request that is not cancelled, whoever creates and restores
\* at the same time.
OneActive == \A m \in Modules : Cardinality(Actives(m)) <= 1

\* The dialog that asks about a draft stays on it until the answer has come: an
\* answer never closes the question about another request.
AskedUntilAnswered == Pending("delete") => question = call["me"].on

\* The list on screen lacks a change the user has been told of only while it is
\* being asked anew or has failed to load, or because its fetch had been under
\* way, out of sight, at the change.
ListAskedAnew ==
    place = "list" /\ behind[filter] = "told" => fetch[filter] # AtRest \/ filter \in stale

\* A file holds nothing but requests of the table the user exported from, though
\* the list is read anew and requests change while it is made.
FileIsTheTable == ~strayed

\* The list is asked anew, a file is made from the table the user sees, and the
\* dialog that asks about a draft stays on it until the answer has come.
ListTells == ListTypeOK /\ ListAskedAnew /\ FileIsTheTable /\ AskedUntilAnswered

=============================================================================
