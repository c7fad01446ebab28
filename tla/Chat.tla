-------------------------------- MODULE Chat -------------------------------
(***************************************************************************)
(* A chat in the browser (api/usePagedChat.ts, ChatInboxDrawer.tsx, the    *)
(* chat of RequestDetailsPage.tsx, the socket of Layout.tsx).  The newest  *)
(* messages come by page, refetched whenever the socket tells of a         *)
(* message, or opens again after it was lost; older pages are asked for    *)
(* with a cursor.  What is shown joins the pages of all fetches so far.    *)
(* The last message shown is marked as read: by the page of a request one  *)
(* mark at a time, by the drawer of chats as they come.  The program also  *)
(* writes messages nobody is told of (api.py sends no chat.message.created *)
(* after a submission, the return to the module, the hand-over to the      *)
(* economist and his completion): an open chat does not ask for them.      *)
(***************************************************************************)
EXTENDS Naturals, FiniteSets

CONSTANTS
    PageSize,
    Earlier,   \* how many messages there may be when the browser comes
    MaxPosts,  \* bound on the messages that come later
    MaxMarks,  \* bound on the marks of the drawer under way at once
    MaxFaults  \* bound on lost sockets, failed fetches and failed marks

ASSUME ChatAssumption ==
    /\ PageSize \in Nat \ {0} /\ Earlier \subseteq Nat
    /\ MaxPosts \in Nat /\ MaxFaults \in Nat

VARIABLES
    place,    \* of the whole behaviour: "page" of a request, or "drawer" of chats
    admin,    \* the user is an administrator: he reads every chat, and takes part in none
    earlier,  \* messages there are when the browser comes
    posts,    \* the messages at the server, numbered as they came
    told,     \* history: the last message an event for this browser was sent for and not lost for good
    read,     \* the server's mark of how far this user has read, 0 for nothing
    open,     \* the chat is open in the browser
    socket,   \* "none", "up" or "down"
    pinged,   \* an event of the server is on its way through the socket
    data,     \* the answer of the last fetch: last message and mark
    loaded,   \* there has been such an answer
    stale,    \* the query was invalidated and not asked for again
    behind,   \* history: an event was let go by, and nobody will ask
    older,    \* the first message of the older pages, 0 while none was loaded
    recent,   \* messages of all answers so far
    fetch,    \* "none", "asked", or the answer on its way
    loading,  \* the cursor an older page was asked for, 0 for none
    marks,    \* marks under way
    waiting,  \* the page of a request waits for the refetch after its mark
    marked,   \* the last message the drawer has marked
    gap,      \* history: older pages were shown, and a new page did not reach down to them
    faults

chatVars ==
    <<place, admin, earlier, posts, told, read, open, socket, pinged, data, loaded, stale, behind, older, recent,
      fetch, loading, marks, waiting, marked, gap, faults>>

fixed == <<place, admin, earlier>>
conversation == <<fixed, posts, told, read>>
sockets == <<socket, pinged>>
cache == <<data, loaded, older, recent>>
query == <<fetch, stale, behind>>
marking == <<marks, waiting, marked>>
history == <<gap, faults>>

Msgs == 1 .. earlier + MaxPosts
None == [last |-> 0, read |-> 0, stage |-> "none"]

ChatTypeOK ==
    /\ place \in {"page", "drawer"} /\ admin \in BOOLEAN /\ earlier \in Earlier
    /\ posts \in earlier .. earlier + MaxPosts /\ told \in 0 .. posts /\ read \in 0 .. posts
    /\ open \in BOOLEAN /\ socket \in {"none", "up", "down"} /\ pinged \in BOOLEAN
    /\ data \in [last : 0 .. posts, read : 0 .. posts]
    /\ loaded \in BOOLEAN /\ stale \in BOOLEAN /\ behind \in BOOLEAN
    /\ older \in Msgs \cup {0} /\ recent \subseteq Msgs
    /\ fetch \in [last : 0 .. posts, read : 0 .. posts, stage : {"none", "asked", "served"}]
    /\ loading \in Msgs \cup {0} /\ marks \subseteq Msgs /\ waiting \in BOOLEAN
    /\ marked \in Msgs \cup {0} /\ gap \in BOOLEAN
    /\ faults \in 0 .. MaxFaults

\* The page of messages that ends with the message
Page(last) == {m \in 1 .. last : m + PageSize > last}
First(last) == IF last > PageSize THEN last - PageSize + 1 ELSE 1

\* Where the next older page ends: the first message not to ask for again; 1 for no more
Cursor == IF older # 0 THEN older ELSE First(data.last)

\* Mutant: only what the last answers hold
ShownNow == Page(data.last) \cup (IF older = 0 THEN {} ELSE Page(older - 1 + PageSize))

Shown == recent

-----------------------------------------------------------------------------

\* For an administrator the layout opens no socket; the drawer has its own, which lives
\* while the chat is open and is not opened again when it is lost
OwnSocket == place = "drawer" /\ admin

\* The page opens its socket when it has the chat; the drawer has the one of the layout
Offline == IF place = "page" \/ OwnSocket THEN "none" ELSE "down"

ChatInit ==
    /\ place \in {"page", "drawer"} /\ admin \in BOOLEAN /\ earlier \in Earlier
    /\ posts = earlier /\ told = earlier
    /\ read \in {0, IF admin THEN 0 ELSE earlier} /\ open = FALSE /\ socket = Offline /\ pinged = FALSE
    /\ data = [last |-> 0, read |-> 0] /\ loaded = FALSE /\ stale = FALSE
    /\ behind = FALSE /\ older = 0 /\ recent = {} /\ fetch = None
    /\ loading = 0 /\ marks = {} /\ waiting = FALSE /\ marked = 0
    /\ gap = FALSE /\ faults = 0

Latest == IF Shown = {} THEN 0 ELSE CHOOSE m \in Shown : \A n \in Shown : n <= m

\* invalidateQueries: a fetch under way is cancelled and made anew; for a closed chat
\* nothing is asked, and its answer, if one is under way, counts as fresh
Invalidate ==
    IF open THEN fetch' = [None EXCEPT !.stage = "asked"] /\ stale' = FALSE /\ behind' = FALSE
    ELSE stale' = TRUE /\ UNCHANGED <<fetch, behind>>

\* The effect that marks: the page of a request waits for its own mark, the drawer
\* only remembers which message it has marked
WantsMark ==
    /\ open /\ Latest # 0 /\ data.read # Latest
    /\ IF place = "page" THEN marks = {} /\ ~waiting ELSE marked # Latest /\ Cardinality(marks) < MaxMarks

SendMark ==
    /\ WantsMark /\ marks' = marks \cup {Latest} /\ marked' = IF place = "page" THEN 0 ELSE Latest
    /\ UNCHANGED <<conversation, open, sockets, cache, query, loading, waiting, history>>

\* A socket nobody opens again: what was on its way is lost for good
Deaf == socket' = "none" /\ pinged' = FALSE /\ told' = IF pinged THEN 0 ELSE told

Fault == faults < MaxFaults /\ faults' = faults + 1

-----------------------------------------------------------------------------
(* The user *)

OpenChat ==
    /\ ~open /\ open' = TRUE
    /\ \/ fetch.stage = "none" /\ fetch' = [None EXCEPT !.stage = "asked"]
          /\ stale' = FALSE /\ behind' = FALSE
       \/ (fetch.stage # "none" \/ (loaded /\ ~stale)) /\ UNCHANGED query
    /\ socket' = (IF OwnSocket THEN "down" ELSE socket)
    /\ UNCHANGED <<conversation, pinged, cache, loading, marking, history>>

CloseChat ==
    /\ open /\ open' = FALSE
    /\ IF OwnSocket THEN Deaf ELSE UNCHANGED <<told, sockets>>
    /\ UNCHANGED <<fixed, posts, read, cache, query, loading, marking, history>>

LoadOlder ==
    /\ open /\ loaded /\ Cursor > 1 /\ loading = 0 /\ loading' = Cursor
    /\ UNCHANGED <<conversation, open, sockets, cache, query, marking, history>>

-----------------------------------------------------------------------------
(* The server *)

\* The drawer's own socket, beside the one of the layout, which is not told of what its
\* user has sent; it may have died unnoticed
Beside == place = "drawer" /\ ~admin /\ open

\* chat.message.created goes to the sockets that are up; a socket that will be opened
\* again makes up for what it missed
Announce(mine) ==
    /\ told' = IF OwnSocket /\ socket # "up" THEN told ELSE posts'
    /\ LET sure == pinged \/ (socket = "up" /\ ~(mine /\ place = "drawer"))
       IN  pinged' \in {sure, sure \/ Beside}
    /\ UNCHANGED socket

\* A message of somebody else, or of the program about a decision, a revision or a return
PostOther ==
    /\ posts < earlier + MaxPosts /\ posts' = posts + 1 /\ Announce(FALSE)
    /\ UNCHANGED <<fixed, read, open, cache, query, loading, marking, history>>

\* A message of the program that no event tells of: the notification sent in its place
\* makes the browser ask for other things.  Only after a step taken on the page of the
\* request itself the chat is asked for with all the rest.
PostSilently ==
    /\ posts < earlier + MaxPosts /\ posts' = posts + 1
    /\ UNCHANGED query \/ (place = "page" /\ ~admin /\ Invalidate)
    /\ UNCHANGED <<fixed, told, read, open, sockets, cache, loading, marking, history>>

\* What this user has sent is stored, and his mark with it; then the browser asks anew
PostMine ==
    /\ ~admin /\ loaded /\ posts < earlier + MaxPosts /\ posts' = posts + 1 /\ read' = posts'
    /\ Announce(TRUE) /\ Invalidate
    /\ UNCHANGED <<fixed, open, cache, loading, marking, history>>

\* mark_read stores what it is told, also when it tells of less than the mark before, but
\* for an administrator nothing; then the browser asks anew, and the page waits for the answer
ServeMark(m) ==
    /\ m \in marks /\ marks' = marks \ {m} /\ read' = (IF admin THEN read ELSE m) /\ Invalidate
    /\ waiting' = (place = "page" /\ open)
    /\ UNCHANGED <<fixed, posts, told, open, sockets, cache, loading, marked, history>>

\* A mark that failed is forgotten, and made again
FailMark(m) ==
    /\ m \in marks /\ Fault /\ marks' = marks \ {m} /\ marked' = 0
    /\ UNCHANGED <<conversation, open, sockets, cache, query, loading, waiting, gap>>

ServeFetch ==
    /\ fetch.stage = "asked"
    /\ fetch' = [last |-> posts, read |-> read, stage |-> "served"]
    /\ UNCHANGED <<conversation, open, sockets, cache, stale, behind, loading, marking, history>>

-----------------------------------------------------------------------------
(* What comes back *)

\* The page opens another socket whenever the chat it has is not the one it had
TakeFetch ==
    /\ fetch.stage = "served" /\ fetch' = None /\ waiting' = FALSE
    /\ loaded' = TRUE /\ data' = [last |-> fetch.last, read |-> fetch.read]
    /\ stale' = FALSE /\ behind' = stale
    /\ recent' = recent \cup Page(fetch.last)
    /\ gap' = (gap \/ ((older # 0 \/ loading # 0) /\ First(fetch.last) > Latest + 1))
    /\ IF place = "page" /\ (data' # data \/ ~loaded) THEN socket' = "down" /\ pinged' = FALSE
       ELSE UNCHANGED sockets
    /\ UNCHANGED <<conversation, open, older, loading, marks, marked, faults>>

FailFetch ==
    /\ fetch.stage # "none" /\ Fault
    /\ fetch' = None /\ waiting' = FALSE /\ stale' = TRUE /\ behind' = TRUE
    /\ UNCHANGED <<conversation, open, sockets, cache, loading, marks, marked, gap>>

TakeOlder ==
    /\ loading # 0 /\ loading' = 0
    /\ older' = First(loading - 1) /\ recent' = recent \cup Page(loading - 1)
    /\ UNCHANGED <<conversation, open, sockets, data, loaded, query, marking, history>>

FailOlder ==
    /\ loading # 0 /\ loading' = 0 /\ Fault
    /\ UNCHANGED <<conversation, open, sockets, cache, query, marking, gap>>

Ping ==
    /\ pinged /\ pinged' = FALSE /\ Invalidate
    /\ UNCHANGED <<conversation, open, socket, cache, loading, marking, history>>

\* The socket is lost, and with it what was on its way
Lose ==
    /\ socket = "up" /\ Fault
    /\ \/ OwnSocket /\ Deaf
       \/ ~OwnSocket /\ socket' = "down" /\ pinged' \in {FALSE, pinged /\ Beside} /\ UNCHANGED told
    /\ UNCHANGED <<fixed, posts, read, open, cache, query, loading, marking, gap>>

\* The drawer's own socket is there at last; nothing is asked
Connect ==
    /\ OwnSocket /\ socket = "down" /\ socket' = "up"
    /\ UNCHANGED <<conversation, pinged, open, cache, query, loading, marking, history>>

\* Mutant: the socket is opened again and nothing is asked
ReconnectSilently ==
    /\ ~OwnSocket /\ socket = "down" /\ socket' = "up"
    /\ UNCHANGED <<conversation, pinged, open, cache, query, loading, marking, history>>

\* onclose: after a delay the socket is opened again, and the chat is asked for
Reconnect ==
    /\ ~OwnSocket /\ socket = "down" /\ socket' = "up" /\ Invalidate
    /\ UNCHANGED <<conversation, pinged, open, cache, loading, marking, history>>

-----------------------------------------------------------------------------

Network ==
    \/ ServeFetch \/ TakeFetch \/ TakeOlder \/ PostMine \/ Ping \/ Connect \/ Reconnect
    \/ \E m \in Msgs : ServeMark(m)

ChatNext ==
    \/ Network \/ SendMark \/ OpenChat \/ CloseChat \/ LoadOlder \/ PostOther \/ PostSilently
    \/ FailFetch \/ FailOlder \/ Lose
    \/ \E m \in Msgs : FailMark(m)

\* The browser runs its effects, a lost socket is opened again, requests are served
ChatFairness ==
    /\ WF_chatVars(SendMark) /\ WF_chatVars(ServeFetch) /\ WF_chatVars(TakeFetch) /\ WF_chatVars(Ping)
    /\ WF_chatVars(Reconnect) /\ WF_chatVars(\E m \in Msgs : ServeMark(m))

ChatSpec == ChatInit /\ [][ChatNext]_chatVars /\ ChatFairness

-----------------------------------------------------------------------------
(* Properties *)

\* Every message up to the last one shown is shown or can still be asked for with the
\* cursor, unless older pages were loaded and then more messages than a page came
\* while the browser did not hear; and marks tell of messages that exist (ChatTypeOK).
NothingLost == ChatTypeOK /\ (~gap => \A m \in 1 .. Latest : m \in Shown \/ m < Cursor)

\* The chat that stays open shows the last message the browser was told of, whatever
\* sockets were lost, unless its last fetch failed, or answers what was asked before the
\* chat was closed.  A lost socket that is opened again counts as told; the drawer's own
\* socket, which is not, counts as long as it lives.
LastShown == open ~> (~open \/ behind \/ Latest >= told)

\* No run checks this; added to Shell.cfg, TLC refutes it: the chat that stays open shows
\* every message.  After a resubmission or a hand-over nobody tells it of the last one
\* (PostSilently).
AllShown == open ~> (~open \/ behind \/ Latest = posts)

\* The chat that stays open is marked once for what is new, not for ever: the browser
\* hears of its own mark.  Not so on the page of a request that an administrator opened
\* by its address with ?chat=1: mark_read stores nothing for him, the page finds the
\* last message unread after every answer and marks it again without end.
MarkingEnds == (place = "page" /\ admin) \/ []<>~open \/ <>[](marks = {})

\* The page of a request keeps what a conversation owes its reader, who takes part in it.
Reads == place = "page" /\ ~admin
Receipts ==
    INSTANCE ReadReceipts WITH
        posted <- IF Reads THEN posts ELSE 0,
        told <- IF Reads THEN told ELSE 0,
        mark <- IF Reads THEN read ELSE 0,
        present <- Reads /\ open /\ ~behind
MarkedToTheEnd == Receipts!Spec

=============================================================================
