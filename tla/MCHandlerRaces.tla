--------------------------- MODULE MCHandlerRaces ---------------------------
(***************************************************************************)
(* Small instances of HandlerRaces: two HTTP requests in flight.  The      *)
(* revision packages of the CFO are counted and bounded by MaxRework.      *)
(***************************************************************************)
EXTENDS HandlerRaces, TLC

CONSTANTS r1, r2, i1, i2, p1, w1, w2, leaf, econ, zgd, MaxRework

VARIABLE reworks

\* Workers are alike, and so are two modules with one line each
Calls   == Permutations(Workers)
Modules == (r1 :> r2) @@ (r2 :> r1) @@ (i1 :> i2) @@ (i2 :> i1)
CallsAndModules == Calls \cup {Modules}

\* Two lines of one position, of two modules
TwoRequests == (i1 :> r1) @@ (i2 :> r2)
OnePosition == [i \in Items |-> p1]

\* A route without intermediate reviewers
Route  == {<<leaf, econ>>, <<econ, zgd>>}
RoleOf == (leaf :> "cfo") @@ (econ :> "economist") @@ (zgd :> "zgd")

MCInit == RacesInit /\ reworks = 0

MCNext ==
    \/ (AtomicStep \/ BeginStep \/ EndStep) /\ UNCHANGED reworks
    \/ RevisionStep /\ reworks < MaxRework /\ reworks' = reworks + 1

MCSpec == MCInit /\ [][MCNext]_<<vars, call, reworks>>

=============================================================================
