---------------------------- MODULE Shell_proofs ----------------------------
(***************************************************************************)
(* The session and the chats of the browser.  No session sees what another *)
(* one has read, for any users and roles, any number of logins and any     *)
(* number of requests under way.  An answer is handled in whatever session *)
(* is open by then; what saves the cache is that a request which may still *)
(* fill it was sent with the token of today (LiveIsOwn), because whatever  *)
(* changes the token drops the queries under way.                          *)
(*                                                                         *)
(* Every message of a chat can be reached, for pages of any size: what is  *)
(* shown reaches without a hole from the last message down to the cursor   *)
(* (ChatInv), through any overlap of refetches, older pages, posts and     *)
(* lost sockets.  And the page of a request takes only steps that          *)
(* ReadReceipts allows.                                                    *)
(***************************************************************************)
EXTENDS Session, Chat, TLAPS

Logins == 0 .. Len(owner)

\* A request under way: a token that was given, and a user where one is sent
RequestOK(f) ==
    /\ f \in [kind : {"login", "me", "page", "profile"}, token : Logins,
              user : Users \cup {NoUser}, live : BOOLEAN]
    /\ f.kind \in {"login", "profile"} => f.user \in Users

\* What localStorage and the tab hold, and what is under way
Shape ==
    /\ owner \in Seq(Users) /\ token \in Logins
    /\ kept \in Users \cup {NoUser} /\ shown \in Users \cup {NoUser}
    /\ kept = NoUser => token = 0
    /\ editing => shown # NoUser
    /\ \A f \in flights : RequestOK(f)

\* Unless another tab has changed the token, a query that may fill the cache was
\* sent with the token there is now
LiveIsOwn == ~alien => \A f \in flights : f.live /\ f.kind # "login" => f.token = token

SessionInv == Shape /\ LiveIsOwn /\ NothingLeftBehind /\ OwnAnswersOnly

-----------------------------------------------------------------------------

\* What a dropped request still is, and that it fills nothing
LEMMA DroppedIsDead ==
    ASSUME Shape
    PROVE  \A g \in Dropped : RequestOK(g) /\ ~g.live
<1>1. SUFFICES ASSUME NEW f \in flights
               PROVE  RequestOK([f EXCEPT !.live = FALSE]) /\ ~[f EXCEPT !.live = FALSE].live
  BY DEF Dropped
<1> QED BY DEF Shape, RequestOK

\* More tokens given leave a request what it is
LEMMA RequestKept ==
    ASSUME NEW u \in Users, owner \in Seq(Users), owner' = Append(owner, u),
           NEW f, RequestOK(f)
    PROVE  RequestOK(f)'
<1>1. Len(owner') = Len(owner) + 1 /\ Len(owner) \in Nat
  OBVIOUS
<1> QED BY <1>1 DEF RequestOK, Logins

\* A page's query and the question who the user is carry the token there is now
LEMMA QueryOK ==
    ASSUME Shape
    PROVE  /\ RequestOK(PageQuery) /\ RequestOK([PageQuery EXCEPT !.kind = "me"])
           /\ PageQuery.token = token /\ [PageQuery EXCEPT !.kind = "me"].token = token
  BY DEF Shape, RequestOK, PageQuery

-----------------------------------------------------------------------------

LEMMA SessionInit == Init => SessionInv
<1> SUFFICES ASSUME Init PROVE SessionInv
  OBVIOUS
<1>1. owner \in Seq(Users) /\ Len(owner) = 0
  BY DEF Init
<1> QED
  BY <1>1 DEF Init, SessionInv, Shape, Logins, LiveIsOwn, NothingLeftBehind,
              OwnAnswersOnly

\* A session is cleared: what is under way can fill nothing any more
LEMMA Cleared ==
    ASSUME Shape, UNCHANGED owner, token' = 0, kept' = NoUser, shown' = NoUser, pages' = {},
           editing' = FALSE, flights' \subseteq Dropped
    PROVE  SessionInv'
<1>1. \A f \in flights' : RequestOK(f)' /\ ~f.live
  BY DroppedIsDead DEF RequestOK, Logins
<1>2. Shape'
  BY <1>1 DEF Shape, Logins
<1> QED
  BY <1>1, <1>2 DEF SessionInv, LiveIsOwn, NothingLeftBehind, OwnAnswersOnly

\* Another request is sent from an open session, with the token there is now
LEMMA Sent ==
    ASSUME SessionInv, NEW f, RequestOK(f), f.kind = "login" \/ (shown # NoUser /\ f.token = token),
           flights' = flights \cup {f},
           UNCHANGED <<owner, token, kept, shown, pages, editing, alien>>
    PROVE  SessionInv'
<1>1. \A g \in flights' : RequestOK(g)'
  BY DEF SessionInv, Shape, RequestOK, Logins
<1>2. Shape'
  BY <1>1 DEF SessionInv, Shape, Logins
<1> QED
  BY <1>2 DEF SessionInv, LiveIsOwn, NothingLeftBehind, OwnAnswersOnly

\* An answer comes and shows a user, fills no cache and changes no token
LEMMA Answered ==
    ASSUME SessionInv, flights' \subseteq flights, UNCHANGED <<owner, token, alien>>,
           \/ UNCHANGED <<kept, shown>>
           \/ kept' \in Users /\ shown' \in Users,
           pages' = pages, editing' => editing
    PROVE  SessionInv'
<1>1. \A f \in flights' : RequestOK(f)'
  BY DEF SessionInv, Shape, RequestOK, Logins
<1>2. Shape'
  BY <1>1, SessionAssumption DEF SessionInv, Shape, Logins
<1> QED
  BY <1>2, SessionAssumption
     DEF SessionInv, LiveIsOwn, NothingLeftBehind, OwnAnswersOnly

\* The answer of a live query goes into the cache
LEMMA Filled ==
    ASSUME SessionInv, NEW f \in flights, f.kind = "page", f.live, flights' = flights \ {f},
           pages' = pages \cup {f.token}, UNCHANGED <<owner, token, kept, shown, editing, alien>>
    PROVE  SessionInv'
<1>1. \A g \in flights' : RequestOK(g)'
  BY DEF SessionInv, Shape, RequestOK, Logins
<1>2. Shape'
  BY <1>1 DEF SessionInv, Shape, Logins
<1>3. shown # NoUser
  BY DEF SessionInv, NothingLeftBehind
<1> QED
  BY <1>2, <1>3 DEF SessionInv, LiveIsOwn, NothingLeftBehind, OwnAnswersOnly

-----------------------------------------------------------------------------
(* The actions that do more than one of these *)

\* A login starts with an empty cache, and a token of its own
LEMMA LoggedIn == ASSUME SessionInv, NEW f \in flights, Login(f) PROVE SessionInv'
<1>1. f.user \in Users /\ owner \in Seq(Users)
  BY DEF SessionInv, Shape, RequestOK, Login
<1>2. owner' \in Seq(Users) /\ Len(owner') = Len(owner) + 1 /\ Len(owner) \in Nat
  BY <1>1 DEF Login
<1>3. ASSUME NEW g \in flights' PROVE RequestOK(g)' /\ ~g.live
  <2>1. RequestOK(g) /\ ~g.live
    BY <1>3, DroppedIsDead DEF Login, SessionInv
  <2> QED
    BY <2>1, <1>1, RequestKept DEF Login
<1>4. Shape'
  BY <1>1, <1>2, <1>3, SessionAssumption DEF Login, Shape, Logins
<1> QED
  BY <1>1, <1>3, <1>4, SessionAssumption
     DEF Login, SessionInv, LiveIsOwn, NothingLeftBehind, OwnAnswersOnly

\* The tab starts anew with the user and the token of the storage
LEMMA LoadedAnew == ASSUME SessionInv, Load PROVE SessionInv'
<1>1. Shape /\ (kept = NoUser => token = 0)
  BY DEF SessionInv, Shape
<1>2. \A g \in flights' : RequestOK(g) /\ g.token = token /\ kept # NoUser
  BY <1>1, QueryOK DEF Load
<1>3. \A g \in flights' : RequestOK(g)'
  BY <1>2 DEF Load, RequestOK, Logins
<1>4. Shape'
  BY <1>1, <1>3 DEF Load, Shape, Logins
<1> QED
  BY <1>2, <1>4 DEF Load, SessionInv, LiveIsOwn, NothingLeftBehind, OwnAnswersOnly

\* Another tab signs in: this one is marked when it has anything to lose
LEMMA SignedInElsewhere == ASSUME SessionInv, NEW u \in Users, OtherTabIn(u) PROVE SessionInv'
<1>1. owner \in Seq(Users) /\ Shape
  BY DEF SessionInv, Shape
<1>2. owner' \in Seq(Users) /\ Len(owner') = Len(owner) + 1 /\ Len(owner) \in Nat
  BY <1>1 DEF OtherTabIn
<1>3. \A g \in flights' : RequestOK(g)'
  BY <1>1, RequestKept DEF OtherTabIn, Shape
<1>4. Shape'
  BY <1>1, <1>2, <1>3, SessionAssumption DEF OtherTabIn, Shape, Logins
<1> QED
  BY <1>4 DEF OtherTabIn, SessionInv, LiveIsOwn, NothingLeftBehind, OwnAnswersOnly

\* ... or out
LEMMA SignedOutElsewhere == ASSUME SessionInv, OtherTabOut PROVE SessionInv'
<1>1. \A g \in flights' : RequestOK(g)'
  BY DEF OtherTabOut, SessionInv, Shape, RequestOK, Logins
<1>2. Shape'
  BY <1>1 DEF OtherTabOut, SessionInv, Shape, Logins
<1> QED
  BY <1>2 DEF OtherTabOut, SessionInv, LiveIsOwn, NothingLeftBehind, OwnAnswersOnly

\* The server takes the token of a request
LEMMA ServedOne == ASSUME SessionInv, NEW f \in flights, Served(f) PROVE SessionInv'
<1>1. /\ f.token \in 1 .. Len(owner) /\ owner[f.token] \in Users
      /\ f.kind = "profile" => f.user \in Users
  BY DEF Served, Alive, SessionInv, Shape, RequestOK, Logins
<1>2. flights' = flights \ {f} /\ UNCHANGED <<owner, token, alien>>
  BY DEF Served
<1>3. CASE f.kind = "page" /\ f.live
  BY <1>2, <1>3, Filled DEF Served
<1>4. CASE f.kind = "page" /\ ~f.live
  BY <1>2, <1>4, Answered DEF Served
<1>5. CASE f.kind = "me"
  <2>1. Persist(owner[f.token]) /\ pages' = pages /\ editing' = editing
    BY <1>5 DEF Served
  <2> QED
    BY <1>1, <1>2, <2>1, Answered DEF Persist
<1>6. CASE f.kind = "profile"
  <2>1. /\ pages' = pages
        /\ \/ Persist(f.user) /\ editing' = FALSE
           \/ UNCHANGED <<kept, shown, editing>>
    BY <1>6 DEF Served
  <2> QED
    BY <1>1, <1>2, <1>6, <2>1, Answered DEF Persist
<1> QED
  BY <1>3, <1>4, <1>5, <1>6 DEF Served, SessionInv, Shape, RequestOK

LEMMA SessionNext == SessionInv /\ [Next]_vars => SessionInv'
<1> SUFFICES ASSUME SessionInv, [Next]_vars PROVE SessionInv'
  OBVIOUS
<1>1. CASE UNCHANGED vars
  BY <1>1 DEF vars, SessionInv, Shape, RequestOK, Logins, LiveIsOwn, NothingLeftBehind, OwnAnswersOnly
<1>2. ASSUME NEW u \in Users, SendLogin(u) PROVE SessionInv'
  <2> DEFINE f == [kind |-> "login", token |-> 0, user |-> u, live |-> TRUE]
  <2>1. RequestOK(f) /\ f.kind = "login"
    BY DEF RequestOK, SessionInv, Shape, Logins
  <2>2. flights' = flights \cup {f} /\ UNCHANGED <<owner, token, kept, shown, pages, editing, alien>>
    BY <1>2 DEF SendLogin
  <2> HIDE DEF f
  <2> QED BY <2>1, <2>2, Sent
<1>3. ASSUME NEW u \in Users, OtherTabIn(u) PROVE SessionInv'
  BY <1>3, SignedInElsewhere
<1>4. ASSUME NEW f \in flights, Login(f) PROVE SessionInv'
  BY <1>4, LoggedIn
<1>5. ASSUME NEW f \in flights, RefuseLogin(f) PROVE SessionInv'
  BY <1>5, Answered DEF RefuseLogin
<1>6. ASSUME NEW f \in flights, Served(f) PROVE SessionInv'
  BY <1>6, ServedOne
<1>7. ASSUME NEW f \in flights, Unauthorized(f) PROVE SessionInv'
  BY <1>7, Cleared DEF Unauthorized, server, SessionInv
<1>8. CASE Logout
  BY <1>8, Cleared DEF Logout, Forget, server, SessionInv
<1>9. CASE Load
  BY <1>9, LoadedAnew
<1>10. CASE Fetch
  BY <1>10, QueryOK, Sent DEF Fetch, SessionInv
<1>11. CASE OpenProfile
  BY <1>11 DEF OpenProfile, SessionInv, Shape, RequestOK, Logins, LiveIsOwn, NothingLeftBehind, OwnAnswersOnly
<1>12. CASE CloseProfile
  BY <1>12, Answered DEF CloseProfile
<1>13. CASE SaveProfile
  <2> DEFINE f == [kind |-> "profile", token |-> token, user |-> shown, live |-> TRUE]
  <2>1. shown # NoUser
    BY <1>13 DEF SaveProfile, SessionInv, Shape
  <2>2. RequestOK(f) /\ f.token = token
    BY <2>1 DEF RequestOK, SessionInv, Shape
  <2>3. flights' = flights \cup {f} /\ UNCHANGED <<owner, token, kept, shown, pages, editing, alien>>
    BY <1>13 DEF SaveProfile
  <2> HIDE DEF f
  <2> QED BY <2>1, <2>2, <2>3, Sent
<1>14. CASE OtherTabOut
  BY <1>14, SignedOutElsewhere
<1>15. ASSUME NEW p \in Paths, Nav(p) PROVE SessionInv'
  BY <1>15, Answered DEF Nav
<1>16. ASSUME NEW f \in flights, FailMe(f) PROVE SessionInv'
  BY <1>16, Cleared DEF FailMe, server, SessionInv
<1>17. ASSUME NEW t \in Tokens, Expire(t) PROVE SessionInv'
  BY <1>17, Answered DEF Expire
<1> QED
  BY <1>1, <1>2, <1>3, <1>4, <1>5, <1>6, <1>7, <1>8, <1>9, <1>10, <1>11, <1>12, <1>13, <1>14,
     <1>15, <1>16, <1>17 DEF Next, Answer

-----------------------------------------------------------------------------
(* The tab shows the login page exactly when it shows no user *)

\* Where the router sends a user: to the login page nobody, and nobody elsewhere
LEMMA RoutedRight ==
    ASSUME NEW p, NEW u \in Users \cup {NoUser}
    PROVE  Routed(p, u) \in Paths /\ (u = NoUser <=> Routed(p, u) = "/login")
  BY DEF Routed, Open, Paths

Pathed == path \in Paths /\ (shown = NoUser <=> path = "/login")

LEMMA PathedNext == SessionInv /\ Pathed /\ [Next]_vars => Pathed'
<1> SUFFICES ASSUME SessionInv, Pathed, [Next]_vars PROVE Pathed'
  OBVIOUS
<1>1. CASE UNCHANGED <<shown, path>>
  BY <1>1 DEF Pathed
<1>2. CASE shown' = NoUser /\ path' = "/login"
  BY <1>2 DEF Pathed, Paths
<1>3. ASSUME NEW u \in Users \cup {NoUser}, NEW p, shown' = u, path' = Routed(p, u) PROVE Pathed'
  BY <1>3, RoutedRight DEF Pathed
<1>4. ASSUME NEW u \in Users, Persist(u) PROVE Pathed'
  BY <1>3, <1>4 DEF Persist
<1>5. ASSUME NEW f \in flights, Login(f) PROVE Pathed'
  BY <1>3, <1>5 DEF Login, SessionInv, Shape, RequestOK
<1>6. ASSUME NEW f \in flights, Served(f) PROVE Pathed'
  <2>1. f.token \in 1 .. Len(owner) => owner[f.token] \in Users
    BY DEF SessionInv, Shape
  <2> QED
    BY <1>1, <1>4, <1>6, <2>1 DEF Served, Alive, SessionInv, Shape, RequestOK, Logins
<1>7. CASE Load
  BY <1>3, <1>7 DEF Load, SessionInv, Shape
<1>8. ASSUME NEW p \in Paths, Nav(p) PROVE Pathed'
  BY <1>3, <1>8 DEF Nav, SessionInv, Shape
<1> QED
  BY <1>1, <1>2, <1>5, <1>6, <1>7, <1>8
     DEF Next, vars, Answer, SendLogin, OtherTabIn, RefuseLogin, Unauthorized, Logout, Fetch,
         OpenProfile, CloseProfile, SaveProfile, OtherTabOut, FailMe, Expire

\* As many tokens as logins, and the cache holds answers to tokens
Counted ==
    /\ Len(owner) <= MaxLogins /\ dead \subseteq Tokens /\ pages \subseteq Tokens
    /\ editing \in BOOLEAN /\ alien \in BOOLEAN

LEMMA CountedNext == SessionInv /\ Counted /\ [Next]_vars => Counted'
<1> SUFFICES ASSUME SessionInv, Counted, [Next]_vars PROVE Counted'
  OBVIOUS
<1>1. CASE /\ UNCHANGED <<owner, dead>> /\ pages' \in {pages, {}}
           /\ editing' \in BOOLEAN /\ alien' \in BOOLEAN
  BY <1>1 DEF Counted
<1>2. ASSUME NEW u, Len(owner) < MaxLogins, owner' = Append(owner, u), dead' = dead,
             pages' \in {pages, {}}, u \in Users, editing' = editing, alien' \in BOOLEAN
      PROVE  Counted'
  <2>1. Len(owner') = Len(owner) + 1
    BY <1>2 DEF SessionInv, Shape
  <2> QED
    BY <1>2, <2>1, SessionAssumption DEF Counted, SessionInv, Shape
<1>3. ASSUME NEW f \in flights, Login(f) PROVE Counted'
  BY <1>2, <1>3 DEF Login, SessionInv, Shape, RequestOK
<1>4. ASSUME NEW u \in Users, OtherTabIn(u) PROVE Counted'
  BY <1>2, <1>4 DEF OtherTabIn
<1>5. ASSUME NEW f \in flights, Served(f) PROVE Counted'
  <2>1. f.token \in Tokens
    BY <1>5, SessionAssumption DEF Served, Alive, SessionInv, Shape, RequestOK, Logins, Counted, Tokens
  <2> QED
    BY <1>5, <2>1 DEF Served, Counted, Tokens
<1>6. ASSUME NEW t \in Tokens, Expire(t) PROVE Counted'
  BY <1>6 DEF Expire, Counted, Tokens
<1> QED
  BY <1>1, <1>3, <1>4, <1>5, <1>6
     DEF Counted, Next, vars, Answer, SendLogin, RefuseLogin, Unauthorized, Logout, Load, Fetch,
         Forget, OpenProfile, CloseProfile, SaveProfile, OtherTabOut, FailMe, Nav, server

LEMMA TypesAre == SessionInv /\ Pathed /\ Counted => TypeOK
<1> SUFFICES ASSUME SessionInv, Pathed, Counted PROVE TypeOK
  OBVIOUS
<1>1. Logins \subseteq {0} \cup Tokens
  BY SessionAssumption DEF SessionInv, Shape, Logins, Counted, Tokens
<1>2. flights \subseteq Flight
  BY <1>1 DEF SessionInv, Shape, RequestOK, Flight
<1> QED
  BY <1>1, <1>2 DEF SessionInv, Shape, Pathed, Counted, TypeOK

-----------------------------------------------------------------------------

\* No session sees what another one has read: the login page has nothing of an earlier
\* session behind it, whatever answers are still to come (clearUserSession in
\* utils/session.ts and its callers), and unless another tab has changed the token the
\* cache holds answers to requests of this session only.
THEOREM Apart == Spec => []SessionsApart
<1>1. Init => Pathed
  BY DEF Init, Pathed, Paths
<1>2. Init => Counted
  <2> SUFFICES ASSUME Init PROVE Counted
    OBVIOUS
  <2>1. Len(owner) = 0 /\ dead = {} /\ pages = {} /\ ~editing /\ ~alien
    BY DEF Init
  <2>2. editing \in BOOLEAN /\ alien \in BOOLEAN
    BY DEF Init
  <2> QED
    BY <2>1, <2>2, SessionAssumption DEF Counted
<1>3. SessionInv /\ Pathed /\ Counted => SessionsApart
  BY TypesAre DEF SessionInv, SessionsApart
<1> QED
  BY <1>1, <1>2, <1>3, SessionInit, SessionNext, PathedNext, CountedNext, PTL DEF Spec

-----------------------------------------------------------------------------
(* Chat: what is shown has no hole above the cursor *)

\* The answers known so far grow, and what is shown is made of them
Answers ==
    /\ fetch.stage = "served" => data.last <= fetch.last
    /\ recent \subseteq 1 .. data.last
    /\ data.last # 0 => data.last \in recent
    /\ older <= data.last
    /\ loading # 0 => loading \in 2 .. data.last

\* From the last message down to the cursor, and to a page asked for below it
NoHole ==
    ~gap => /\ \A m \in 1 .. data.last : m \in recent \/ m < Cursor
            /\ loading # 0 => \A m \in loading .. data.last : m \in recent

ChatInv == ChatTypeOK /\ marks \subseteq 1 .. posts /\ Answers /\ NoHole

\* A page is the messages from its first to its last
LEMMA PageIs ==
    ASSUME NEW n \in Nat
    PROVE  /\ First(n) \in Nat /\ First(n) >= 1 /\ (n # 0 => First(n) <= n)
           /\ Page(n) = First(n) .. n
  BY ChatAssumption DEF First, Page

\* ... and starts no earlier when its last message is a later one
LEMMA FirstGrows ==
    ASSUME NEW n \in Nat, NEW k \in Nat, n <= k
    PROVE  First(n) <= First(k)
  BY ChatAssumption DEF First

LEMMA MsgsAre == ASSUME ChatTypeOK PROVE earlier \in Nat /\ posts \in Nat /\ Msgs = 1 .. earlier + MaxPosts
  BY ChatAssumption DEF ChatTypeOK, Msgs

\* The last message shown is the last one of the last answer
LEMMA LatestIs == ASSUME ChatTypeOK, Answers PROVE Latest = data.last
<1>1. data.last \in Nat
  BY MsgsAre DEF ChatTypeOK
<1>2. CASE data.last = 0
  BY <1>1, <1>2 DEF Answers, Latest, Shown
<1>3. CASE data.last # 0
  <2>1. data.last \in Shown /\ \A n \in Shown : n \in Nat /\ n <= data.last
    BY <1>1, <1>3 DEF Answers, Shown
  <2> DEFINE Last(m) == \A n \in Shown : n <= m
  <2>2. \A m \in Shown : Last(m) => m = data.last
    BY <1>1, <2>1
  <2>3. (CHOOSE m \in Shown : Last(m)) \in Shown /\ Last(CHOOSE m \in Shown : Last(m))
    BY <2>1
  <2> QED
    BY <2>1, <2>2, <2>3 DEF Latest
<1> QED BY <1>2, <1>3

LEMMA ChatInitOK == ChatInit => ChatInv
<1> SUFFICES ASSUME ChatInit PROVE ChatInv
  OBVIOUS
<1>1. earlier \in Nat
  BY ChatAssumption DEF ChatInit
<1>2. ChatTypeOK
  <2>1. data \in [last : 0 .. posts, read : 0 .. posts]
    BY <1>1 DEF ChatInit
  <2>2. fetch \in [last : 0 .. posts, read : 0 .. posts, stage : {"none", "asked", "served"}]
    BY <1>1 DEF ChatInit, None
  <2>3. socket \in {"none", "up", "down"} /\ place \in {"page", "drawer"} /\ admin \in BOOLEAN
    BY DEF ChatInit, Offline
  <2>4. posts \in earlier .. earlier + MaxPosts /\ read \in 0 .. posts /\ told \in 0 .. posts /\ 0 \in 0 .. MaxFaults
    BY <1>1, ChatAssumption DEF ChatInit
  <2> QED
    BY <2>1, <2>2, <2>3, <2>4 DEF ChatInit, ChatTypeOK
<1> QED
  BY <1>1, <1>2 DEF ChatInit, ChatInv, Answers, NoHole, None

\* Where a fetch may be that brings nothing yet
Asked == {None, [None EXCEPT !.stage = "asked"], [last |-> posts, read |-> read, stage |-> "served"]}

\* Most steps leave the answers as they are: they ask anew, or move marks and posts on
LEMMA NothingAnswered ==
    ASSUME ChatInv, UNCHANGED <<place, admin, earlier, data, recent, older, gap>>,
           \/ loading' \in {loading, 0}
           \/ loading' = Cursor /\ Cursor > 1,
           posts' \in posts .. earlier + MaxPosts, told' \in 0 .. posts', read' \in 0 .. posts',
           fetch' \in {fetch} \cup Asked, marks' \subseteq 1 .. posts',
           open' \in BOOLEAN, socket' \in {"none", "up", "down"}, pinged' \in BOOLEAN,
           loaded' \in BOOLEAN, stale' \in BOOLEAN, behind' \in BOOLEAN, waiting' \in BOOLEAN,
           marked' \in Msgs \cup {0}, faults' \in 0 .. MaxFaults
    PROVE  ChatInv'
<1>1. ChatTypeOK /\ Answers /\ NoHole
  BY DEF ChatInv
<1>2. /\ earlier \in Nat /\ posts \in Nat /\ posts' \in Nat /\ posts <= posts'
      /\ Msgs = 1 .. earlier + MaxPosts /\ Msgs' = Msgs
      /\ data.last \in 0 .. posts /\ data.read \in 0 .. posts
  BY <1>1, MsgsAre DEF ChatTypeOK, Msgs
<1>3. loading' # 0 => loading' \in 2 .. data.last
  <2>1. CASE loading' \in {loading, 0}
    BY <1>1, <2>1 DEF Answers
  <2>2. CASE loading' = Cursor /\ Cursor > 1
    <3>1. CASE older # 0
      BY <1>1, <1>2, <2>2, <3>1 DEF Cursor, Answers, ChatTypeOK
    <3>2. CASE older = 0
      BY <1>2, <2>2, <3>2, PageIs, ChatAssumption DEF Cursor, First
    <3> QED BY <3>1, <3>2
  <2> QED BY <2>1, <2>2
<1>4. data' \in [last : 0 .. posts', read : 0 .. posts']
  BY <1>1, <1>2 DEF ChatTypeOK
<1>5. /\ fetch' \in [last : 0 .. posts', read : 0 .. posts', stage : {"none", "asked", "served"}]
      /\ fetch'.stage = "served" => data.last <= fetch'.last
  <2>1. CASE fetch' = fetch
    BY <1>1, <1>2, <2>1 DEF ChatTypeOK, Answers
  <2>2. CASE fetch' \in Asked
    BY <1>1, <1>2, <2>2 DEF ChatTypeOK, Asked, None
  <2> QED BY <2>1, <2>2
<1>6. marks' \subseteq Msgs
  BY <1>2, ChatAssumption
<1>7. ChatTypeOK'
  <2>1. loading' \in Msgs \cup {0}
    BY <1>1, <1>2, <1>3, ChatAssumption DEF ChatTypeOK
  <2> QED
    BY <1>1, <1>2, <1>4, <1>5, <1>6, <2>1, ChatAssumption DEF ChatTypeOK
<1>8. Answers'
  BY <1>1, <1>2, <1>3, <1>5 DEF Answers
<1>9. NoHole'
  <2>1. Cursor' = Cursor
    BY DEF Cursor, First
  <2>2. CASE loading' \in {loading, 0}
    BY <1>1, <2>1, <2>2 DEF NoHole
  <2>3. CASE loading' = Cursor /\ Cursor > 1
    BY <1>1, <1>2, <1>3, <2>1, <2>3 DEF NoHole
  <2> QED BY <2>2, <2>3
<1> QED
  BY <1>7, <1>8, <1>9 DEF ChatInv

\* The answer of a fetch: a page that reaches down to what is shown, or a gap
LEMMA FetchTaken == ASSUME ChatInv, TakeFetch PROVE ChatInv'
<1>1. ChatTypeOK /\ Answers /\ NoHole /\ marks \subseteq 1 .. posts
  BY DEF ChatInv
<1> DEFINE new == fetch.last
<1>2. /\ earlier \in Nat /\ posts \in Nat /\ posts \in earlier .. earlier + MaxPosts
      /\ Msgs = 1 .. earlier + MaxPosts
      /\ data.last \in Nat /\ new \in 0 .. posts /\ fetch.read \in 0 .. posts /\ data.last <= new
  BY <1>1, MsgsAre DEF ChatTypeOK, TakeFetch, Answers
<1>3. /\ UNCHANGED <<place, admin, earlier, posts, told, read, open, older, loading, marks, marked, faults>>
      /\ data' = [last |-> new, read |-> fetch.read] /\ fetch' = None
      /\ recent' = recent \cup Page(new)
  BY DEF TakeFetch, conversation, fixed
<1>4. Page(new) = First(new) .. new /\ First(new) \in Nat /\ First(new) >= 1
      /\ (new # 0 => First(new) <= new) /\ First(data.last) <= First(new) /\ First(data.last) \in Nat
  BY <1>2, PageIs, FirstGrows
<1>5. recent' \subseteq 1 .. new /\ (new # 0 => new \in recent')
  <2>1. recent \subseteq 1 .. data.last
    BY <1>1 DEF Answers
  <2>2. new \in Nat
    BY <1>2
  <2> HIDE DEF new
  <2>3. \A m \in recent : m \in 1 .. new
    BY <1>2, <2>1, <2>2
  <2>4. \A m \in Page(new) : m \in 1 .. new
    BY <1>4, <2>2
  <2>5. new # 0 => new \in Page(new)
    BY <1>4, <2>2
  <2> QED BY <1>3, <2>3, <2>4, <2>5
<1>6. ChatTypeOK'
  <2>1. recent' \subseteq Msgs
    <3>1. 1 .. new \subseteq Msgs
      BY <1>2, ChatAssumption
    <3> QED BY <1>5, <3>1
  <2>2. data' \in [last : 0 .. posts, read : 0 .. posts]
    BY <1>2, <1>3
  <2>3. fetch' \in [last : 0 .. posts, read : 0 .. posts, stage : {"none", "asked", "served"}]
    BY <1>2, <1>3 DEF None
  <2>4. /\ socket' \in {"none", "up", "down"} /\ pinged' \in BOOLEAN /\ waiting' \in BOOLEAN
        /\ loaded' \in BOOLEAN /\ stale' \in BOOLEAN /\ behind' \in BOOLEAN /\ gap' \in BOOLEAN
    BY <1>1 DEF TakeFetch, ChatTypeOK, sockets
  <2>5. Msgs' = Msgs
    BY <1>3 DEF Msgs
  <2> QED
    BY <1>1, <1>3, <2>1, <2>2, <2>3, <2>4, <2>5 DEF ChatTypeOK
<1>7. Answers'
  <2>1. data'.last = new /\ fetch'.stage = "none"
    BY <1>3 DEF None
  <2>3. older <= new /\ (loading # 0 => loading \in 2 .. new)
    BY <1>1, <1>2 DEF Answers, ChatTypeOK
  <2> QED
    BY <1>2, <1>3, <1>5, <2>1, <2>3 DEF Answers
<1>8. NoHole'
  <2> SUFFICES ASSUME ~gap'
               PROVE  /\ \A m \in 1 .. new : m \in recent' \/ m < Cursor'
                      /\ loading # 0 => \A m \in loading .. new : m \in recent'
    BY <1>3 DEF NoHole
  <2>1. ~gap /\ ((older # 0 \/ loading # 0) => First(new) <= data.last + 1)
    <3>1. Latest = data.last
      BY <1>1, LatestIs
    <3>2. /\ ~gap' => ~(gap \/ ((older # 0 \/ loading # 0) /\ First(new) > Latest + 1))
          /\ First(new) \in Nat
      BY <1>4 DEF TakeFetch
    <3> QED
      BY <1>2, <3>1, <3>2
  <2>2. Cursor' = IF older # 0 THEN older ELSE First(new)
    BY <1>3 DEF Cursor, First
  <2>3. Cursor <= Cursor' /\ Cursor \in Nat /\ Cursor' \in Nat
    BY <1>1, <1>2, <1>4, <2>2 DEF Cursor, ChatTypeOK
  <2>4. \A m \in 1 .. new : m >= First(new) => m \in recent'
    BY <1>2, <1>3, <1>4
  <2>5. \A m \in 1 .. data.last : m \in recent' \/ m < Cursor'
    BY <1>1, <1>2, <1>3, <2>1, <2>3 DEF NoHole
  <2>6. CASE older = 0 /\ loading = 0
    BY <1>2, <1>4, <2>2, <2>4, <2>6
  <2>7. CASE older # 0 \/ loading # 0
    <3>1. \A m \in 1 .. new : m \in 1 .. data.last \/ m >= First(new)
      BY <1>2, <1>4, <2>1, <2>7
    <3>2. \A m \in 1 .. new : m \in recent' \/ m < Cursor'
      BY <2>4, <2>5, <3>1
    <3>3. ASSUME loading # 0, NEW m \in loading .. new PROVE m \in recent'
      <4>1. m \in 1 .. new /\ (m \in 1 .. data.last => m \in loading .. data.last)
        BY <1>1, <1>2, <3>3 DEF Answers
      <4>2. m \in 1 .. data.last => m \in recent
        BY <1>1, <2>1, <3>3, <4>1 DEF NoHole
      <4> QED
        BY <1>3, <2>4, <3>1, <4>1, <4>2
    <3> QED BY <3>2, <3>3
  <2> QED BY <2>6, <2>7
<1> QED
  BY <1>1, <1>3, <1>6, <1>7, <1>8 DEF ChatInv

\* The answer with an older page: it ends where the cursor was
LEMMA OlderTaken == ASSUME ChatInv, TakeOlder PROVE ChatInv'
<1>1. ChatTypeOK /\ Answers /\ NoHole /\ marks \subseteq 1 .. posts
  BY DEF ChatInv
<1> DEFINE end == loading - 1
<1>2. /\ earlier \in Nat /\ posts \in Nat /\ posts \in earlier .. earlier + MaxPosts
      /\ Msgs = 1 .. earlier + MaxPosts /\ data.last \in 0 .. posts
      /\ end \in Nat /\ end >= 1 /\ end < data.last /\ loading = end + 1
  BY <1>1, MsgsAre DEF ChatTypeOK, TakeOlder, Answers
<1>3. /\ UNCHANGED <<place, admin, earlier, posts, told, read, open, socket, pinged, data, loaded,
                     stale, behind, fetch, marks, waiting, marked, gap, faults>>
      /\ loading' = 0 /\ older' = First(end) /\ recent' = recent \cup Page(end)
  BY DEF TakeOlder, conversation, fixed, sockets, query, marking, history
<1>4. Page(end) = First(end) .. end /\ First(end) \in 1 .. end
  BY <1>2, PageIs
<1>5. recent' \subseteq 1 .. data.last /\ older' \in 1 .. data.last
  <2>1. recent \subseteq 1 .. data.last
    BY <1>1 DEF Answers
  <2>2. end \in Nat /\ data.last \in Nat /\ end <= data.last
    BY <1>2
  <2> HIDE DEF end
  <2>3. \A m \in Page(end) : m \in 1 .. data.last
    BY <1>4, <2>2
  <2>4. First(end) \in 1 .. data.last
    BY <1>4, <2>2
  <2> QED BY <1>3, <2>1, <2>3, <2>4
<1>6. ChatTypeOK'
  <2>1. recent' \subseteq Msgs /\ older' \in Msgs
    <3>1. 1 .. data.last \subseteq Msgs
      BY <1>2, ChatAssumption
    <3> QED BY <1>5, <3>1
  <2>2. Msgs' = Msgs
    BY <1>3 DEF Msgs
  <2> QED
    BY <1>1, <1>3, <2>1, <2>2 DEF ChatTypeOK
<1>7. Answers'
  BY <1>1, <1>2, <1>3, <1>5 DEF Answers
<1>8. NoHole'
  <2> SUFFICES ASSUME ~gap, NEW m \in 1 .. data.last PROVE m \in recent' \/ m < older'
    BY <1>2, <1>3, <1>4 DEF NoHole, Cursor
  <2>1. CASE m >= loading
    BY <1>1, <1>2, <1>3, <2>1 DEF NoHole
  <2>2. CASE m < loading
    BY <1>2, <1>3, <1>4, <2>2
  <2> QED BY <1>2, <2>1, <2>2
<1> QED
  BY <1>1, <1>3, <1>6, <1>7, <1>8 DEF ChatInv

\* An invalidated query is asked for anew, or is stale
LEMMA Invalidated ==
    ASSUME ChatTypeOK, Invalidate
    PROVE  fetch' \in {fetch} \cup Asked /\ stale' \in BOOLEAN /\ behind' \in BOOLEAN
  BY DEF ChatTypeOK, Invalidate, Asked

\* An event, sent or not, tells of a message there is
LEMMA Announced ==
    ASSUME ChatTypeOK, posts \in Nat, posts' = posts + 1, NEW mine \in BOOLEAN, Announce(mine)
    PROVE  told' \in 0 .. posts' /\ pinged' \in BOOLEAN /\ socket' = socket
<1>1. told \in 0 .. posts /\ pinged \in BOOLEAN
  BY DEF ChatTypeOK
<1>2. told' \in {told, posts'} /\ socket' = socket
  BY DEF Announce
<1>3. pinged' \in BOOLEAN
  BY <1>1 DEF Announce, Beside
<1> QED
  BY <1>1, <1>2, <1>3

LEMMA ChatStep == ChatInv /\ [ChatNext]_chatVars => ChatInv'
<1> SUFFICES ASSUME ChatInv, [ChatNext]_chatVars PROVE ChatInv'
  OBVIOUS
<1> USE DEF conversation, fixed, sockets, cache, query, marking, history
<1>1. /\ ChatTypeOK /\ Answers /\ NoHole /\ marks \subseteq 1 .. posts
      /\ open \in BOOLEAN /\ socket \in {"none", "up", "down"} /\ pinged \in BOOLEAN
      /\ loaded \in BOOLEAN /\ stale \in BOOLEAN /\ behind \in BOOLEAN /\ waiting \in BOOLEAN
      /\ marked \in Msgs \cup {0} /\ faults \in 0 .. MaxFaults
      /\ read \in 0 .. posts /\ told \in 0 .. posts
  BY DEF ChatInv, ChatTypeOK
<1>2. /\ posts \in Nat /\ posts \in posts .. earlier + MaxPosts /\ earlier \in Nat
      /\ posts < earlier + MaxPosts => posts + 1 \in posts .. earlier + MaxPosts
      /\ marks \subseteq 1 .. posts + 1 /\ read \in 0 .. posts + 1 /\ told \in 0 .. posts + 1
      /\ 0 \in 0 .. posts /\ posts + 1 \in 0 .. posts + 1
      /\ Fault => faults' \in 0 .. MaxFaults
  BY <1>1, MsgsAre, ChatAssumption DEF ChatTypeOK, Fault
<1>3. fetch \in {fetch} \cup Asked /\ None \in {fetch} \cup Asked /\ loading \in {loading, 0}
  BY DEF Asked
<1>4. CASE UNCHANGED chatVars
  BY <1>1, <1>2, <1>3, <1>4, NothingAnswered DEF chatVars
<1>5. CASE SendMark
  <2>1. Latest = data.last /\ data.last \in 0 .. posts /\ Latest # 0
    BY <1>1, <1>5, LatestIs DEF SendMark, WantsMark, ChatTypeOK
  <2>2. marks' \subseteq 1 .. posts /\ marked' \in Msgs \cup {0}
    <3>1. Latest \in 1 .. posts /\ Latest \in Msgs /\ 0 \in Msgs \cup {0}
      BY <1>1, <1>2, <2>1, MsgsAre, ChatAssumption
    <3>2. marks' = marks \cup {Latest} /\ marked' \in {0, Latest}
      BY <1>5 DEF SendMark
    <3> QED BY <1>1, <3>1, <3>2
  <2> QED
    BY <1>1, <1>2, <1>3, <1>5, <2>2, NothingAnswered DEF SendMark
<1>6. CASE OpenChat
  <2>1. fetch' \in {fetch} \cup Asked /\ stale' \in BOOLEAN /\ behind' \in BOOLEAN /\ open' \in BOOLEAN
    BY <1>1, <1>6 DEF OpenChat, Asked
  <2>2. socket' \in {"none", "up", "down"}
    BY <1>1, <1>6 DEF OpenChat
  <2> QED
    BY <1>1, <1>2, <1>3, <1>6, <2>1, <2>2, NothingAnswered DEF OpenChat
<1>7. CASE CloseChat
  <2>1. told' \in 0 .. posts /\ socket' \in {"none", "up", "down"} /\ pinged' \in BOOLEAN
    BY <1>1, <1>2, <1>7 DEF CloseChat, Deaf
  <2> QED
    BY <1>1, <1>2, <1>3, <1>7, <2>1, NothingAnswered DEF CloseChat
<1>8. CASE LoadOlder
  BY <1>1, <1>2, <1>3, <1>8, NothingAnswered DEF LoadOlder
<1>9. CASE PostOther
  <2>1. told' \in 0 .. posts' /\ pinged' \in BOOLEAN /\ socket' = socket
    BY <1>1, <1>2, <1>9, Announced DEF PostOther
  <2> QED
    BY <1>1, <1>2, <1>3, <1>9, <2>1, NothingAnswered DEF PostOther
<1>10. CASE PostMine
  <2>1. read' \in 0 .. posts'
    BY <1>2, <1>10 DEF PostMine
  <2>2. told' \in 0 .. posts' /\ pinged' \in BOOLEAN /\ socket' = socket
    BY <1>1, <1>2, <1>10, Announced DEF PostMine
  <2> QED
    BY <1>1, <1>2, <1>3, <1>10, <2>1, <2>2, Invalidated, NothingAnswered DEF PostMine
<1>11. ASSUME NEW m \in Msgs, ServeMark(m) PROVE ChatInv'
  <2>1. read' \in 0 .. posts /\ posts' = posts /\ marks' \subseteq 1 .. posts /\ waiting' \in BOOLEAN
    BY <1>1, <1>2, <1>11 DEF ServeMark
  <2> QED
    BY <1>1, <1>2, <1>3, <1>11, <2>1, Invalidated, NothingAnswered DEF ServeMark
<1>12. ASSUME NEW m \in Msgs, FailMark(m) PROVE ChatInv'
  <2>1. marks' \subseteq 1 .. posts /\ marked' \in Msgs \cup {0}
    BY <1>1, <1>12 DEF FailMark
  <2> QED
    BY <1>1, <1>2, <1>3, <1>12, <2>1, NothingAnswered DEF FailMark
<1>13. CASE ServeFetch
  BY <1>1, <1>2, <1>3, <1>13, NothingAnswered DEF ServeFetch, Asked
<1>14. CASE TakeFetch
  BY <1>14, FetchTaken
<1>15. CASE FailFetch
  BY <1>1, <1>2, <1>3, <1>15, NothingAnswered DEF FailFetch
<1>16. CASE TakeOlder
  BY <1>16, OlderTaken
<1>17. CASE FailOlder
  BY <1>1, <1>2, <1>3, <1>17, NothingAnswered DEF FailOlder
<1>18. CASE Ping
  BY <1>1, <1>2, <1>3, <1>18, Invalidated, NothingAnswered DEF Ping
<1>19. CASE Lose
  <2>1. told' \in 0 .. posts /\ socket' \in {"none", "up", "down"} /\ pinged' \in BOOLEAN
    BY <1>1, <1>2, <1>19 DEF Lose, Deaf
  <2> QED
    BY <1>1, <1>2, <1>3, <1>19, <2>1, NothingAnswered DEF Lose
<1>20. CASE Reconnect
  BY <1>1, <1>2, <1>3, <1>20, Invalidated, NothingAnswered DEF Reconnect
<1>21. CASE PostSilently
  <2>1. fetch' \in {fetch} \cup Asked /\ stale' \in BOOLEAN /\ behind' \in BOOLEAN
    BY <1>1, <1>21, Invalidated DEF PostSilently
  <2> QED
    BY <1>1, <1>2, <1>3, <1>21, <2>1, NothingAnswered DEF PostSilently
<1>22. CASE Connect
  BY <1>1, <1>2, <1>3, <1>22, NothingAnswered DEF Connect
<1> QED
  BY <1>4, <1>5, <1>6, <1>7, <1>8, <1>9, <1>10, <1>11, <1>12, <1>13, <1>14, <1>15, <1>16, <1>17,
     <1>18, <1>19, <1>20, <1>21, <1>22 DEF ChatNext, Network

-----------------------------------------------------------------------------

\* Every message of a chat up to the last one shown is shown or can still be asked for
\* with the cursor of usePagedChat.ts, whatever the size of a page: unless older pages
\* were loaded and then more than a page came while the browser did not hear.
THEOREM Reachable == ChatSpec => []NothingLost
<1>1. ChatInv => NothingLost
  BY LatestIs DEF ChatInv, NoHole, NothingLost, Shown
<1> QED
  BY <1>1, ChatInitOK, ChatStep, PTL DEF ChatSpec

-----------------------------------------------------------------------------
(* What ReadReceipts allows *)

\* The conversation as the reader of a request's page knows it
LEMMA ReceiptsStart == ChatInit => Receipts!Init
  BY ChatAssumption DEF ChatInit, Reads, Receipts!Init

LEMMA ReceiptsStep == ChatInv /\ [ChatNext]_chatVars => [Receipts!Next]_(Receipts!receipt)
<1> SUFFICES ASSUME ChatInv, [ChatNext]_chatVars PROVE [Receipts!Next]_(Receipts!receipt)
  OBVIOUS
<1> USE DEF conversation, fixed, sockets, cache, query, marking, history
<1>1. /\ posts \in Nat /\ read \in 0 .. posts /\ marks \subseteq 1 .. posts
      /\ open \in BOOLEAN /\ behind \in BOOLEAN
  BY MsgsAre DEF ChatInv, ChatTypeOK
<1>2. place' = place /\ admin' = admin
  BY DEF chatVars, ChatNext, Network, ServeFetch, TakeFetch, TakeOlder, PostMine, Ping, Reconnect,
         ServeMark, SendMark, OpenChat, CloseChat, LoadOlder, PostOther, PostSilently, FailFetch,
         FailOlder, Connect, Lose, FailMark
<1>3. CASE ~Reads
  BY <1>2, <1>3 DEF Reads, Receipts!receipt
<1>4. CASE Reads
  <2> DEFINE present == open /\ ~behind
  <2>0. Reads' /\ ~OwnSocket /\ ~admin
    BY <1>2, <1>4 DEF Reads, OwnSocket
  <2>1. CASE UNCHANGED <<posts, told, read>> /\ (open' = open \/ open' = ~open) /\ behind' \in BOOLEAN
    <3>1. present' = present \/ present' = ~present
      BY <1>1, <2>1
    <3> QED
      BY <1>4, <2>0, <2>1, <3>1
         DEF Receipts!Next, Receipts!ComeOrGo, Receipts!receipt
  <2>2. CASE PostOther
    BY <1>1, <1>4, <2>0, <2>2
       DEF PostOther, Announce, Receipts!Next, Receipts!Post, Receipts!Back
  <2>3. ASSUME Invalidate, open' = open PROVE present' \in {present, TRUE}
    <3>1. CASE open
      BY <2>3, <3>1 DEF Invalidate
    <3>2. CASE ~open
      BY <2>3, <3>2 DEF Invalidate
    <3> QED BY <3>1, <3>2
  <2>4. CASE PostMine
    BY <1>1, <1>4, <2>0, <2>3, <2>4
       DEF PostMine, Announce, Receipts!Next, Receipts!Post, Receipts!Back
  <2>5. ASSUME NEW m \in Msgs, ServeMark(m) PROVE Receipts!Next
    <3>1. m \in 0 .. posts /\ read' = m /\ posts' = posts /\ told' = told
      BY <1>1, <2>0, <2>5 DEF ServeMark
    <3> QED
      BY <1>4, <2>0, <2>3, <2>5, <3>1
         DEF ServeMark, Receipts!Next, Receipts!Mark, Receipts!Back
  <2>6. ChatTypeOK
    BY DEF ChatInv
  <2>7. CASE Ping \/ Reconnect
    BY <2>1, <2>6, <2>7, Invalidated DEF Ping, Reconnect
  <2>8. CASE OpenChat
    BY <1>1, <2>1, <2>8 DEF OpenChat
  <2>9. CASE CloseChat
    BY <1>1, <2>0, <2>1, <2>9 DEF CloseChat
  <2>10. CASE TakeFetch
    BY <2>1, <2>6, <2>10 DEF TakeFetch, ChatTypeOK
  <2>11. CASE PostSilently
    <3>1. present' \in {present, TRUE}
      BY <2>3, <2>11 DEF PostSilently
    <3> QED
      BY <1>4, <2>0, <2>11, <3>1
         DEF PostSilently, Receipts!Next, Receipts!PostSilently, Receipts!Back
  <2>12. CASE Lose
    BY <1>1, <2>0, <2>1, <2>12 DEF Lose
  <2> QED
    BY <1>1, <2>1, <2>2, <2>4, <2>5, <2>7, <2>8, <2>9, <2>10, <2>11, <2>12
       DEF chatVars, ChatNext, Network, ServeFetch, TakeOlder, SendMark, LoadOlder, FailFetch,
           FailOlder, Connect, FailMark
<1> QED BY <1>3, <1>4

\* The page of a request shows its reader a conversation as ReadReceipts has it: the mark
\* is the number of a message there is, only posts and marks move it, and neither sends
\* the reader away.  (That the reader who stays is caught up with stays with the checker.)
THEOREM ReceiptsKept == ChatSpec => Receipts!Init /\ [][Receipts!Next]_(Receipts!receipt)
<1> QED
  BY ChatInitOK, ChatStep, ReceiptsStart, ReceiptsStep, PTL DEF ChatSpec

=============================================================================
