------------------------------ MODULE Session ------------------------------
(***************************************************************************)
(* The session of the browser (App.tsx, api/client.ts, utils/session.ts,   *)
(* Layout.tsx): a token and a user in localStorage, which every tab        *)
(* shares, the user and the query cache in the memory of this tab, and the *)
(* requests under way, each with the token it was sent with.  A request is *)
(* never called back: its answer is handled in whatever session is open by *)
(* then.  Requests that the network loses change nothing and are left out, *)
(* but for /auth/me, whose loss counts as a refusal.                       *)
(***************************************************************************)
EXTENDS Naturals, Sequences, FiniteSets

CONSTANTS
    Users, Role,  \* the users and their roles
    NoUser,
    MaxLogins,    \* bound on the sessions opened
    MaxFlights    \* bound on the requests under way at once

ASSUME SessionAssumption == NoUser \notin Users /\ MaxLogins \in Nat

VARIABLES
    owner,    \* at the server: whose each token is, tokens numbered as they are given
    dead,     \* tokens that the server no longer takes
    token,    \* localStorage: the token, 0 for none
    kept,     \* localStorage: the user
    shown,    \* the user of this tab
    path,     \* the page of this tab
    pages,    \* the tokens whose answers the query cache holds
    flights,  \* requests under way
    editing,  \* the profile dialog is open
    alien     \* history: another tab has changed the token under this one

vars == <<owner, dead, token, kept, shown, path, pages, flights, editing, alien>>

server == <<owner, dead>>

Tokens == 1 .. MaxLogins
Flight == [kind : {"login", "me", "page", "profile"}, token : {0} \cup Tokens,
           user : Users \cup {NoUser}, live : BOOLEAN]

Paths == {"/login", "/", "/requests", "/users", "/units", "/catalogs", "/approval"}

TypeOK ==
    /\ owner \in Seq(Users) /\ Len(owner) <= MaxLogins /\ dead \subseteq Tokens
    /\ token \in {0} \cup Tokens /\ kept \in Users \cup {NoUser}
    /\ shown \in Users \cup {NoUser} /\ path \in Paths
    /\ pages \subseteq Tokens /\ flights \subseteq Flight
    /\ editing \in BOOLEAN /\ alien \in BOOLEAN
    /\ (shown = NoUser) <=> (path = "/login")

Alive(t) == t # 0 /\ t \notin dead

\* The answer of a page query that was dropped from the cache is not stored
Dropped == {[f EXCEPT !.live = FALSE] : f \in flights}

-----------------------------------------------------------------------------
(* Pages *)

\* Pages that a role may open, and where the router sends it from another
Open(role) ==
    {"/requests", "/approval"} \cup (IF role = "employee" THEN {} ELSE {"/"})
        \cup (IF role = "admin" THEN {"/users", "/units"} ELSE {})
        \cup (IF role \in {"admin", "economist"} THEN {"/catalogs"} ELSE {})

Routed(p, user) ==
    IF user = NoUser THEN "/login"
    ELSE IF p \in Open(Role[user]) THEN p
    ELSE IF Role[user] = "employee" THEN "/requests" ELSE "/"

\* The menu of the layout
Items(role) ==
    {"/requests", "/approval"} \cup (IF role = "employee" THEN {} ELSE {"/"})
        \cup (IF role = "admin" THEN {"/users", "/units"} ELSE {})
        \cup (IF role \in {"admin", "economist"} THEN {"/catalogs"} ELSE {})

\* The page a user starts on
Home(user) == IF Role[user] \in {"employee", "economist"} THEN "/requests" ELSE "/"

-----------------------------------------------------------------------------

Init ==
    /\ owner = <<>> /\ dead = {} /\ token = 0 /\ kept = NoUser /\ shown = NoUser
    /\ path = "/login" /\ pages = {} /\ flights = {} /\ editing = FALSE /\ alien = FALSE

\* Mutant: the cache survives the session
ForgetStorage ==
    token' = 0 /\ kept' = NoUser /\ UNCHANGED <<pages, flights>> /\ alien' = FALSE

\* clearUserSession
Forget ==
    token' = 0 /\ kept' = NoUser /\ pages' = {} /\ flights' = Dropped /\ alien' = FALSE

SendLogin(u) ==
    /\ shown = NoUser /\ Cardinality(flights) < MaxFlights
    /\ flights' = flights \cup {[kind |-> "login", token |-> 0, user |-> u, live |-> TRUE]}
    /\ UNCHANGED <<owner, dead, token, kept, shown, path, pages, editing, alien>>

\* handleLogin: whatever is left of an earlier session is cleared first
Login(f) ==
    /\ f \in flights /\ f.kind = "login" /\ Len(owner) < MaxLogins
    /\ owner' = Append(owner, f.user) /\ token' = Len(owner) + 1
    /\ kept' = f.user /\ shown' = f.user /\ path' = Routed(Home(f.user), f.user)
    /\ pages' = {} /\ flights' = Dropped \ {[f EXCEPT !.live = FALSE]}
    /\ alien' = FALSE /\ UNCHANGED <<dead, editing>>

RefuseLogin(f) ==
    /\ f \in flights /\ f.kind = "login" /\ flights' = flights \ {f}
    /\ UNCHANGED <<owner, dead, token, kept, shown, path, pages, editing, alien>>

Logout ==
    /\ shown # NoUser /\ Forget
    /\ shown' = NoUser /\ path' = "/login" /\ editing' = FALSE /\ UNCHANGED server

PageQuery == [kind |-> "page", token |-> token, user |-> NoUser, live |-> TRUE]

\* The tab is loaded anew: what it had under way is gone; the page asks for its data,
\* and with a token the user is asked for
Load ==
    /\ shown' = kept /\ path' = Routed(path, kept) /\ pages' = {} /\ alien' = FALSE
    /\ flights' = (IF kept = NoUser THEN {} ELSE {PageQuery})
                     \cup (IF token = 0 THEN {} ELSE {[PageQuery EXCEPT !.kind = "me"]})
    /\ editing' = FALSE /\ UNCHANGED <<owner, dead, token, kept>>

Nav(p) ==
    /\ shown # NoUser /\ p \in Items(Role[shown]) /\ path' = Routed(p, shown)
    /\ UNCHANGED <<owner, dead, token, kept, shown, pages, flights, editing, alien>>

-----------------------------------------------------------------------------
(* Requests and their answers *)

\* A query of a page
Fetch ==
    /\ shown # NoUser /\ Cardinality(flights) < MaxFlights
    /\ flights' = flights \cup {PageQuery}
    /\ UNCHANGED <<owner, dead, token, kept, shown, path, pages, editing, alien>>

OpenProfile ==
    /\ shown # NoUser /\ ~editing /\ editing' = TRUE
    /\ UNCHANGED <<owner, dead, token, kept, shown, path, pages, flights, alien>>

CloseProfile ==
    /\ editing /\ editing' = FALSE
    /\ UNCHANGED <<owner, dead, token, kept, shown, path, pages, flights, alien>>

SaveProfile ==
    /\ editing /\ Cardinality(flights) < MaxFlights /\ ~\E f \in flights : f.kind = "profile"
    /\ flights' = flights \cup {[kind |-> "profile", token |-> token, user |-> shown, live |-> TRUE]}
    /\ UNCHANGED <<owner, dead, token, kept, shown, path, pages, editing, alien>>

\* persistUser, from the component's closure: the user of the answer becomes the tab's
Persist(u) ==
    /\ kept' = u /\ shown' = u
    /\ path' = IF path = "/login" THEN Routed("/", u) ELSE Routed(path, u)

\* The server takes the token
Served(f) ==
    /\ f \in flights /\ f.kind # "login" /\ Alive(f.token)
    /\ flights' = flights \ {f} /\ UNCHANGED <<owner, dead, token, alien>>
    /\ \/ /\ f.kind = "page" /\ pages' = IF f.live THEN pages \cup {f.token} ELSE pages
          /\ UNCHANGED <<kept, shown, path, editing>>
       \/ /\ f.kind = "me" /\ Persist(owner[f.token]) /\ UNCHANGED <<pages, editing>>
       \/ /\ f.kind = "profile" /\ f.user = owner[f.token] /\ Persist(f.user)
          /\ editing' = FALSE /\ UNCHANGED pages
       \* another user's profile is refused, unless an administrator asks
       \/ /\ f.kind = "profile" /\ f.user # owner[f.token] /\ UNCHANGED <<pages>>
          /\ IF Role[owner[f.token]] = "admin" THEN Persist(f.user) /\ editing' = FALSE
             ELSE UNCHANGED <<kept, shown, path, editing>>

\* Mutant: the answer is told to the user and nothing else
OnlyTell(f) ==
    /\ f \in flights /\ f.kind # "login" /\ ~Alive(f.token) /\ flights' = flights \ {f}
    /\ UNCHANGED <<owner, dead, token, kept, shown, path, pages, editing, alien>>

\* 401: the session is cleared, whichever it is, and the tab loaded anew, unless it
\* shows the login page
Unauthorized(f) ==
    /\ f \in flights /\ f.kind # "login" /\ ~Alive(f.token)
    /\ token' = 0 /\ kept' = NoUser /\ pages' = {} /\ alien' = FALSE
    /\ flights' = IF path = "/login" THEN Dropped \ {[f EXCEPT !.live = FALSE]} ELSE {}
    /\ shown' = NoUser /\ path' = "/login" /\ editing' = FALSE /\ UNCHANGED server

\* The first request of the tab failed for another reason: it counts as signed out
FailMe(f) ==
    /\ f \in flights /\ f.kind = "me"
    /\ token' = 0 /\ kept' = NoUser /\ pages' = {} /\ alien' = FALSE
    /\ flights' = Dropped \ {[f EXCEPT !.live = FALSE]}
    /\ shown' = NoUser /\ path' = "/login" /\ editing' = FALSE /\ UNCHANGED server

-----------------------------------------------------------------------------
(* The rest of the world *)

Expire(t) ==
    /\ t \in DOMAIN owner /\ t \notin dead /\ dead' = dead \cup {t}
    /\ UNCHANGED <<owner, token, kept, shown, path, pages, flights, editing, alien>>

\* Another tab signs out, or in
OtherTabOut ==
    /\ token # 0 /\ token' = 0 /\ kept' = NoUser /\ alien' = (shown # NoUser)
    /\ UNCHANGED <<owner, dead, shown, path, pages, flights, editing>>

OtherTabIn(u) ==
    /\ Len(owner) < MaxLogins /\ owner' = Append(owner, u)
    /\ token' = Len(owner) + 1 /\ kept' = u /\ alien' = (shown # NoUser)
    /\ UNCHANGED <<dead, shown, path, pages, flights, editing>>

Answer == \E f \in flights : Login(f) \/ RefuseLogin(f) \/ Served(f) \/ Unauthorized(f)

Next ==
    \/ \E u \in Users : SendLogin(u) \/ OtherTabIn(u)
    \/ Answer
    \/ Logout \/ Load \/ Fetch \/ OpenProfile \/ CloseProfile \/ SaveProfile \/ OtherTabOut
    \/ \E p \in Paths : Nav(p)
    \/ \E f \in flights : FailMe(f)
    \/ \E t \in Tokens : Expire(t)

\* Every request is answered
Fairness == WF_vars(Answer)

Spec == Init /\ [][Next]_vars /\ Fairness

-----------------------------------------------------------------------------
(* Properties *)

\* On the login page nothing of an earlier session is left in memory, and no answer
\* under way can bring it back (clearUserSession, whoever calls it).
NothingLeftBehind ==
    shown = NoUser => pages = {} /\ \A f \in flights : f.live => f.kind = "login"

\* Unless another tab has changed the token, the cache holds answers to this
\* session only, whatever order the answers of earlier sessions come in.
OwnAnswersOnly == ~alien => pages \subseteq {token}

\* No session sees what another one has read; and the tab shows the login page
\* exactly when it shows no user (TypeOK).
SessionsApart == TypeOK /\ NothingLeftBehind /\ OwnAnswersOnly

\* A session whose token the server refuses ends: the interceptor signs the tab out.
DeadSessionEnds ==
    (shown # NoUser /\ \E f \in flights : f.kind # "login" /\ ~Alive(f.token))
        ~> (shown = NoUser \/ Alive(token))

=============================================================================
