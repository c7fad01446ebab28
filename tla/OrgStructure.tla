---------------------------- MODULE OrgStructure ----------------------------
(***************************************************************************)
(* The pages of the units and of the users (pages/UnitsPage.tsx,           *)
(* UsersPage.tsx) over their services (unit_service.py, user_service.py).  *)
(* Departments have CFOs, CFOs have modules; a CFO and a module have a     *)
(* responsible employee, a CFO has an economist, and both are told apart   *)
(* by the role of the user alone.  One administrator edits, on lists that  *)
(* may be old; employees make requests meanwhile.  A new unit is made by   *)
(* up to three calls; any other command and its answer are one step.       *)
(* Texts and what is typed and not sent are left out.                      *)
(***************************************************************************)
EXTENDS Naturals, FiniteSets

CONSTANTS
    Units, Users,
    Department, Cfo, Module, \* the units there are at first
    None,
    MaxEdits,  \* bound on the commands of the administrator
    MaxFaults  \* bound on the calls that fail without reason

ASSUME UnitsAssumption ==
    /\ {Department, Cfo, Module} \subseteq Units /\ None \notin Units \cup Users
    /\ Department # Cfo /\ Cfo # Module /\ Module # Department
    /\ MaxEdits \in Nat /\ MaxFaults \in Nat

VARIABLES
    org,       \* the server: parent and lines of every unit, role of every user,
               \* who is active where, and the units that have requests
    shown,     \* the last answers of the lists
    stale,     \* they were invalidated
    dialog,    \* of the page of units: closed, new or edit, with the unit as it was shown
    call,      \* the new unit, or the change of one, that is being stored
    target,    \* the unit the page asks to delete
    rerolled,  \* history: users whose role was changed
    edits, faults

vars == <<org, shown, stale, dialog, call, target, rerolled, edits, faults>>

Lines == {"dds", "invest"}
Roles == {"employee", "economist"}
Closed == [kind |-> "closed", unit |-> None, lines |-> "dds", blocked |-> FALSE]
Idle == [op |-> "none", unit |-> None, lines |-> "dds", owner |-> None, economist |-> None]

-----------------------------------------------------------------------------
(* Units *)

UnitsOf(o) == DOMAIN o.parent

\* unitLevel: a unit that is gone counts as the first level
Level(o, u) ==
    IF u \notin UnitsOf(o) \/ o.parent[u] = None THEN 1
    ELSE IF o.parent[u] \notin UnitsOf(o) \/ o.parent[o.parent[u]] = None THEN 2
    ELSE 3

Children(o, u) == {x \in UnitsOf(o) : o.parent[x] = u}

\* The CFO of a unit, with its modules
Family(o, u) ==
    LET cfo == IF Level(o, u) = 2 THEN u ELSE o.parent[u]
    IN  {cfo} \cup Children(o, cfo)

\* Who is active at a unit in a role
Active(o, u, r) == {x \in DOMAIN o.role : <<u, x>> \in o.active /\ o.role[x] = r}

\* _set_assignment: everybody else of the role leaves
Assigned(o, u, x, r) ==
    [o EXCEPT !.active = (@ \ ({u} \X (Active(o, u, r) \ {x}))) \cup {<<u, x>>}]

\* set_responsible
MayOwn(o, u, x) ==
    /\ Level(o, u) \in {2, 3} /\ x \in DOMAIN o.role /\ o.role[x] = "employee"
    /\ \A f \in Family(o, u) \ {u} : <<f, x>> \notin o.active

\* create_assignment
MayAssign(o, u, x) == Level(o, u) = 2 /\ x \in DOMAIN o.role /\ o.role[x] = "economist"

\* Nobody is responsible for anything yet
Init ==
    /\ \E role \in [Users -> Roles] :
         org = [parent |-> [u \in {Department, Cfo, Module} |->
                            CASE u = Module -> Cfo [] u = Cfo -> Department [] u = Department -> None],
                lines |-> [u \in {Department, Cfo, Module} |-> "dds"],
                role |-> role, active |-> {}, requested |-> {}]
    /\ shown = org /\ stale = FALSE /\ dialog = Closed /\ call = Idle /\ target = None
    /\ rerolled = {} /\ edits = 0 /\ faults = 0

Edit == edits < MaxEdits /\ edits' = edits + 1
Fault == faults < MaxFaults /\ faults' = faults + 1

Load ==
    /\ stale /\ stale' = FALSE /\ shown' = org
    /\ UNCHANGED <<org, dialog, call, target, rerolled, edits, faults>>

\* A request is made in a module by its responsible
Request(u) ==
    /\ u \in UnitsOf(org) /\ Level(org, u) = 3 /\ Active(org, u, "employee") # {}
    /\ org' = [org EXCEPT !.requested = @ \cup {u}]
    /\ UNCHANGED <<shown, stale, dialog, call, target, rerolled, edits, faults>>

-----------------------------------------------------------------------------
(* The dialog of a unit *)

\* From a card above the last level, or from the button of the page
OpenNew(u) ==
    /\ u = None \/ (u \in UnitsOf(shown) /\ Level(shown, u) < 3)
    /\ dialog = Closed /\ dialog' = [Closed EXCEPT !.kind = "new", !.unit = u]
    /\ UNCHANGED <<org, shown, stale, call, target, rerolled, edits, faults>>

OpenEdit(u) ==
    /\ dialog = Closed /\ u \in UnitsOf(shown)
    /\ dialog' = [kind |-> "edit", unit |-> u, lines |-> shown.lines[u], blocked |-> u \in shown.requested]
    /\ UNCHANGED <<org, shown, stale, call, target, rerolled, edits, faults>>

CloseDialog ==
    /\ dialog # Closed /\ target = None /\ dialog' = Closed
    /\ UNCHANGED <<org, shown, stale, call, target, rerolled, edits, faults>>

\* The level of the unit the dialog is about
DialogLevel == IF dialog.kind = "edit" THEN Level(shown, dialog.unit)
               ELSE IF dialog.unit = None THEN 1 ELSE Level(shown, dialog.unit) + 1

Employees == {x \in DOMAIN shown.role : shown.role[x] = "employee"}
Economists == {x \in DOMAIN shown.role : shown.role[x] = "economist"}

\* The dialog stays open until the answer
SubmitNew(lines, x, e) ==
    /\ dialog.kind = "new" /\ call = Idle /\ Edit
    /\ x # None => dialog.unit # None /\ x \in Employees
    /\ e # None => DialogLevel = 2 /\ e \in Economists
    /\ call' = [op |-> "unit", unit |-> dialog.unit, lines |-> lines, owner |-> x, economist |-> e]
    /\ UNCHANGED <<org, shown, stale, dialog, target, rerolled, faults>>

\* The choice of lines is closed to a unit that was shown with requests
SubmitEdit(lines) ==
    /\ dialog.kind = "edit" /\ target = None /\ call = Idle /\ Edit
    /\ dialog.blocked => lines = dialog.lines
    /\ call' = [Idle EXCEPT !.op = "change", !.unit = dialog.unit, !.lines = lines]
    /\ UNCHANGED <<org, shown, stale, dialog, target, rerolled, faults>>

\* A success closes whichever dialog is open by then
Done ==
    /\ call' = Idle /\ dialog' = Closed /\ stale' = TRUE

\* What is left of the calls of a new unit
Then(u) ==
    LET rest == IF call.op = "unit" /\ call.owner # None THEN "owner"
                ELSE IF call.op # "economist" /\ call.economist # None THEN "economist" ELSE "none"
    IN  IF rest = "none" THEN Done
        ELSE call' = [call EXCEPT !.op = rest, !.unit = u] /\ UNCHANGED <<dialog, stale>>

\* A refusal and a failure leave the dialog as it is, and what was stored
Refused == call' = Idle /\ UNCHANGED <<org, dialog, stale>>

\* The page has found the type of the new unit from the level it was shown
MakeUnit(u) ==
    /\ call.op = "unit" /\ u \in Units \ UnitsOf(org)
    /\ IF call.unit = None \/ (call.unit \in UnitsOf(org) /\ Level(org, call.unit) < 3)
       THEN /\ org' = [org EXCEPT
                !.parent = [x \in UnitsOf(org) \cup {u} |-> IF x = u THEN call.unit ELSE org.parent[x]],
                !.lines = [x \in UnitsOf(org) \cup {u} |-> IF x = u THEN call.lines ELSE org.lines[x]]]
            /\ Then(u)
       ELSE Refused
    /\ UNCHANGED <<shown, target, rerolled, edits, faults>>

\* The responsible and the economist of the new unit
StaffUnit ==
    /\ \/ /\ call.op = "owner"
          /\ IF MayOwn(org, call.unit, call.owner)
             THEN org' = Assigned(org, call.unit, call.owner, "employee") /\ Then(call.unit)
             ELSE Refused
       \/ /\ call.op = "economist"
          /\ IF MayAssign(org, call.unit, call.economist)
             THEN org' = Assigned(org, call.unit, call.economist, "economist") /\ Then(call.unit)
             ELSE Refused
    /\ UNCHANGED <<shown, target, rerolled, edits, faults>>

\* Mutant: as the page does
MayChange(u, lines) == u \in UnitsOf(org)

\* update_unit: the parent the page sends is the one the unit has
MayChangeTo(u, lines) == u \in UnitsOf(org) /\ (lines # org.lines[u] => u \notin org.requested)

ChangeUnit ==
    /\ call.op = "change"
    /\ IF MayChangeTo(call.unit, call.lines)
       THEN org' = [org EXCEPT !.lines[call.unit] = call.lines] /\ Done
       ELSE Refused
    /\ UNCHANGED <<shown, target, rerolled, edits, faults>>

FailCall ==
    /\ call # Idle /\ Fault /\ Refused
    /\ UNCHANGED <<shown, target, rerolled, edits>>

\* The buttons beside the fields of an existing unit
Staff ==
    /\ dialog.kind = "edit" /\ target = None /\ Edit /\ stale' = TRUE
    /\ LET u == dialog.unit
           linked == Active(shown, u, "economist")
       IN  \/ \E x \in Employees : DialogLevel > 1 /\ MayOwn(org, u, x) /\ org' = Assigned(org, u, x, "employee")
           \/ DialogLevel > 1 /\ org' = [org EXCEPT !.active = @ \ ({u} \X Active(org, u, "employee"))]
           \/ \E x \in Economists : DialogLevel = 2 /\ MayAssign(org, u, x) /\ org' = Assigned(org, u, x, "economist")
           \/ \E x \in linked : DialogLevel = 2 /\ <<u, x>> \in org.active /\ org' = [org EXCEPT !.active = @ \ {<<u, x>>}]
    /\ UNCHANGED <<shown, dialog, call, target, rerolled, faults>>

AskDelete ==
    /\ dialog.kind = "edit" /\ target = None /\ call = Idle /\ target' = dialog.unit
    /\ UNCHANGED <<org, shown, stale, dialog, call, rerolled, edits, faults>>

CancelDelete ==
    /\ target # None /\ target' = None
    /\ UNCHANGED <<org, shown, stale, dialog, call, rerolled, edits, faults>>

\* delete_unit; a CFO has positions only while its modules have requests
Deletable(u) == u \in UnitsOf(org) /\ u \notin org.requested /\ Children(org, u) = {}

\* Everybody leaves the unit with it; the dialog of the unit closes
DeleteUnit ==
    /\ target # None /\ Edit /\ Deletable(target)
    /\ LET rest == UnitsOf(org) \ {target}
       IN  org' = [org EXCEPT !.parent = [u \in rest |-> org.parent[u]], !.lines = [u \in rest |-> org.lines[u]],
                              !.active = @ \ ({target} \X Users)]
    /\ target' = None /\ stale' = TRUE
    /\ dialog' = IF dialog.kind = "edit" /\ dialog.unit = target THEN Closed ELSE dialog
    /\ UNCHANGED <<shown, call, rerolled, faults>>

-----------------------------------------------------------------------------
(* The page of users *)

\* The dialog sends all its fields, the role among them
SaveUser(x, r) ==
    /\ dialog = Closed /\ x \in DOMAIN shown.role \cap DOMAIN org.role /\ Edit
    /\ org' = [org EXCEPT !.role[x] = r] /\ stale' = TRUE
    /\ rerolled' = IF r = org.role[x] THEN rerolled ELSE rerolled \cup {x}
    /\ UNCHANGED <<shown, dialog, call, target, faults>>

CreateUser(x, r) ==
    /\ dialog = Closed /\ x \in Users \ DOMAIN org.role /\ Edit
    /\ org' = [org EXCEPT !.role = [y \in DOMAIN org.role \cup {x} |-> IF y = x THEN r ELSE org.role[y]]]
    /\ stale' = TRUE
    /\ UNCHANGED <<shown, dialog, call, target, rerolled, faults>>

\* delete_user: whoever is active anywhere stays
Unassigned(x) == \A u \in UnitsOf(org) : <<u, x>> \notin org.active

DeleteUser(x) ==
    /\ dialog = Closed /\ x \in DOMAIN shown.role \cap DOMAIN org.role /\ Unassigned(x) /\ Edit
    /\ org' = [org EXCEPT !.role = [y \in DOMAIN org.role \ {x} |-> org.role[y]]]
    /\ stale' = TRUE /\ rerolled' = rerolled \ {x}
    /\ UNCHANGED <<shown, dialog, call, target, faults>>

-----------------------------------------------------------------------------
Next ==
    \/ Load \/ CloseDialog \/ StaffUnit \/ ChangeUnit \/ FailCall \/ Staff
    \/ AskDelete \/ CancelDelete \/ DeleteUnit
    \/ \E u \in Units : Request(u) \/ OpenEdit(u) \/ MakeUnit(u)
    \/ \E u \in Units \cup {None} : OpenNew(u)
    \/ \E l \in Lines : SubmitEdit(l) \/ \E x, e \in Users \cup {None} : SubmitNew(l, x, e)
    \/ \E x \in Users : DeleteUser(x) \/ \E r \in Roles : SaveUser(x, r) \/ CreateUser(x, r)

Spec == Init /\ [][Next]_vars

-----------------------------------------------------------------------------
(* Properties *)

TypeOK ==
    /\ \A o \in {org, shown} :
        /\ UnitsOf(o) \subseteq Units /\ DOMAIN o.lines = UnitsOf(o) /\ DOMAIN o.role \subseteq Users
        /\ \A u \in UnitsOf(o) : o.parent[u] \in UnitsOf(o) \cup {None} /\ o.lines[u] \in Lines
        /\ o.active \subseteq UnitsOf(o) \X Users /\ o.requested \subseteq UnitsOf(o)
    /\ stale \in BOOLEAN /\ rerolled \subseteq Users
    /\ dialog.kind \in {"closed", "new", "edit"} /\ target \in Units \cup {None}
    /\ call.op \in {"none", "unit", "owner", "economist", "change"}
    /\ edits \in 0 .. MaxEdits /\ faults \in 0 .. MaxFaults

\* However old the list, and whoever makes a request while the dialog is open: once a
\* module has a request, it keeps the kind of its lines, and is not deleted.
KindKept ==
    [][\A u \in org.requested : u \in UnitsOf(org') /\ org'.lines[u] = org.lines[u]]_vars

\* Nobody who is active at a unit has been deleted, whatever became of their role.
NoGhosts == \A a \in org.active : a[2] \in DOMAIN org.role

\* Users who kept their role: nobody is responsible for a CFO and for one of its modules,
\* no unit has two responsibles, no CFO two economists, and only a CFO has one.
OwnersApart ==
    \A a, b \in org.active : {a[2], b[2]} \cap rerolled = {} =>
        /\ a[2] = b[2] /\ org.role[a[2]] = "employee" => org.parent[a[1]] # b[1]
        /\ a[1] = b[1] /\ org.role[a[2]] = org.role[b[2]] => a = b
        /\ org.role[a[2]] = "economist" => Level(org, a[1]) = 2

\* Units keep their kind and their people are who they should be.
StaffKept == []TypeOK /\ KindKept /\ []NoGhosts /\ []OwnersApart

=============================================================================
