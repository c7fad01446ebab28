---------------------------- MODULE MCEmployee ----------------------------
(***************************************************************************)
(* What the employee of a module works with: the form of a new line, the   *)
(* list of the requests, the preview of a file.  They share no state here; *)
(* a behaviour runs the one chosen at its start.                           *)
(***************************************************************************)
EXTENDS LineForm, RequestsList, FilePreview, TLC

CONSTANTS q1, q2, q3, m1, m2

VARIABLE machine

\* One module with room for two requests, and the approved request of another
UnitOfThree == [r \in {q1, q2, q3} |-> IF r = q3 THEN m2 ELSE m1]

allVars == <<machine, vars, listVars, previewVars>>

\* Files and ids differ in nothing but their names
NameSymmetry == Permutations(Files) \cup Permutations({q1, q2})

AllInit ==
    /\ machine \in {"form", "list", "preview"}
    /\ Init /\ ListInit /\ PreviewInit
    /\ IF machine = "list" THEN
          \/ /\ db[q3] = "absent"
             /\ \A r \in {q1, q2} : db[r] \in {"absent", "draft", "on_review", "cancelled"}
          \/ db[q3] = "approved" /\ \A r \in {q1, q2} : db[r] \in {"absent", "rejected"}
       ELSE \A r \in {q1, q2, q3} : db[r] = "absent"
    /\ machine # "preview" => ~window

AllNext ==
    /\ UNCHANGED machine
    /\ \/ machine = "form" /\ Next /\ UNCHANGED <<listVars, previewVars>>
       \/ machine = "list" /\ ListNext /\ UNCHANGED <<vars, previewVars>>
       \/ machine = "preview" /\ PreviewNext /\ UNCHANGED <<vars, listVars>>

AllSpec == AllInit /\ [][AllNext]_allVars

=============================================================================
