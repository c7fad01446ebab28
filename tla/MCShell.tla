------------------------------ MODULE MCShell ------------------------------
(***************************************************************************)
(* Two machines of the browser that share no state, each on its own: a     *)
(* behaviour runs the one chosen at its start.                             *)
(***************************************************************************)
EXTENDS Session, Chat

CONSTANTS u1, u2

VARIABLE machine

RoleOf == [u \in {u1, u2} |-> IF u = u1 THEN "admin" ELSE "employee"]

allVars == <<machine, vars, chatVars>>

\* A chat without messages, or with all of them read, is looked at on the page of its
\* request only
AllInit ==
    /\ machine \in {"session", "chat"} /\ Init /\ ChatInit
    /\ earlier = 0 => place = "page" /\ ~admin
    /\ place = "drawer" => read = 0
    /\ machine = "session" => earlier = 0

AllNext ==
    /\ UNCHANGED machine
    /\ \/ machine = "session" /\ Next /\ UNCHANGED chatVars
       \/ machine = "chat" /\ ChatNext /\ UNCHANGED vars

AllSpec == AllInit /\ [][AllNext]_allVars /\ Fairness /\ ChatFairness

-----------------------------------------------------------------------------

\* The chat that stays open shows the last message the browser was told of, marking it
\* comes to an end, and the page of a request keeps what ReadReceipts owes its reader.
ShownAndMarked == LastShown /\ MarkingEnds /\ MarkedToTheEnd

=============================================================================
