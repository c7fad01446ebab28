------------------------ MODULE Directory_proofs -------------------------
(***************************************************************************)
(* The directories of the administrator, for any units, users and entries, *)
(* any number of commands and of failed calls, and however old the lists   *)
(* are that the administrator works on.                                    *)
(*                                                                         *)
(* Units and users: neither the lists nor the dialog is needed to tell who *)
(* is where; what the server checks in each command is enough (OrgInv).    *)
(*                                                                         *)
(* Articles and categories: rows that are stored one by one against the    *)
(* plan of an import (CatalogInv).  While nobody interferes, the rest of   *)
(* the rows, imported, would leave what an import of all of them would     *)
(* have left; a call does to the list what the plan does, but for what is  *)
(* active.                                                                 *)
(***************************************************************************)
EXTENDS OrgStructure, Catalog, FiniteSetTheorems, WellFoundedInduction, TLAPS

(***************************************************************************)
(* Units and users.                                                        *)
(***************************************************************************)

IsOrg(o) == o = [parent |-> o.parent, lines |-> o.lines, role |-> o.role,
                 active |-> o.active, requested |-> o.requested]

\* The tables of the server: only users there are at units there are
Shape ==
    /\ IsOrg(org) /\ UnitsOf(org) \subseteq Units /\ DOMAIN org.lines = UnitsOf(org)
    /\ org.parent \in [UnitsOf(org) -> UnitsOf(org) \cup {None}]
    /\ org.active \subseteq UnitsOf(org) \X DOMAIN org.role
    /\ org.requested \subseteq UnitsOf(org) /\ DOMAIN org.role \subseteq Users

\* There is nothing below the modules: whoever has a parent with a parent has no
\* great-grandparent
ThreeLevels ==
    \A u \in UnitsOf(org) :
        LET p == org.parent[u]
        IN  p # None /\ org.parent[p] # None => org.parent[org.parent[p]] = None

\* Nobody is active at a department
NotAtDepartments == \A a \in org.active : Level(org, a[1]) # 1

OrgInv == Shape /\ ThreeLevels /\ NotAtDepartments /\ OwnersApart

-----------------------------------------------------------------------------
(* Levels *)

\* The level of a unit in a tree as it is kept
LEMMA Levels ==
    ASSUME Shape, NEW u \in UnitsOf(org)
    PROVE  /\ Level(org, u) = 1 <=> org.parent[u] = None
           /\ Level(org, u) = 2 <=> org.parent[u] # None /\ org.parent[org.parent[u]] = None
           /\ Level(org, u) \in 1 .. 3
<1>1. org.parent[u] \in UnitsOf(org) \cup {None}
  BY DEF Shape
<1> QED
  BY <1>1 DEF Level

\* A unit that stays where it is, under a parent that stays, keeps its level
LEMMA LevelKept ==
    ASSUME Shape, Shape', NEW u \in UnitsOf(org), u \in UnitsOf(org'),
           org'.parent[u] = org.parent[u],
           org.parent[u] # None => org'.parent[org.parent[u]] = org.parent[org.parent[u]]
    PROVE  Level(org', u) = Level(org, u)
<1>1. org.parent[u] \in UnitsOf(org) \cup {None} /\ org'.parent[u] \in UnitsOf(org') \cup {None}
  BY DEF Shape
<1> QED
  BY <1>1 DEF Level

\* Above and below a unit that somebody may be responsible for, the family is all there is
LEMMA AboveAndBelow ==
    ASSUME OrgInv, NEW u \in UnitsOf(org), Level(org, u) \in {2, 3}, NEW v \in UnitsOf(org),
           Level(org, v) # 1, org.parent[u] = v \/ org.parent[v] = u
    PROVE  v \in Family(org, u) \ {u}
<1> USE UnitsAssumption
<1>1. /\ org.parent[u] \in UnitsOf(org) \cup {None} /\ org.parent[v] \in UnitsOf(org) \cup {None}
      /\ u \in Units /\ v \in Units
  BY DEF OrgInv, Shape
<1>2. v # u
  BY <1>1, Levels DEF OrgInv, ThreeLevels
<1>3. CASE Level(org, u) = 2
  <2>1. org.parent[u] # v
    BY <1>1, <1>3, Levels DEF OrgInv
  <2> QED
    BY <1>2, <1>3, <2>1 DEF Family, Children
<1>4. CASE Level(org, u) = 3
  <2>1. org.parent[u] # None /\ org.parent[org.parent[u]] # None
    BY <1>4, Levels DEF OrgInv
  <2>2. org.parent[v] # u
    BY <1>1, <2>1 DEF OrgInv, ThreeLevels
  <2> QED
    BY <1>2, <1>4, <2>2 DEF Family, Children
<1> QED
  BY <1>3, <1>4

-----------------------------------------------------------------------------
(* What the commands do to the people *)

\* The tree stays and somebody leaves, or somebody who is active nowhere comes or goes
LEMMA NobodyNew ==
    ASSUME OrgInv, IsOrg(org'), org'.parent = org.parent, org'.requested \subseteq UnitsOf(org),
           DOMAIN org'.lines = UnitsOf(org), DOMAIN org'.role \subseteq Users,
           org'.active \subseteq org.active,
           \A a \in org'.active : /\ a[2] \in DOMAIN org'.role
                                  /\ org'.role[a[2]] = org.role[a[2]] \/ a[2] \in rerolled'
                                  /\ a[2] \in rerolled => a[2] \in rerolled'
    PROVE  OrgInv'
<1>1. UnitsOf(org') = UnitsOf(org) /\ \A u : Level(org', u) = Level(org, u)
  BY DEF UnitsOf, Level
<1>2. org'.active \subseteq UnitsOf(org) \X DOMAIN org'.role
  BY DEF OrgInv, Shape
<1>3. Shape'
  BY <1>1, <1>2 DEF OrgInv, Shape
<1>4. ThreeLevels' /\ NotAtDepartments'
  BY <1>1 DEF OrgInv, ThreeLevels, NotAtDepartments
<1>5. OwnersApart'
  <2> SUFFICES ASSUME NEW a \in org'.active, NEW b \in org'.active,
                      a[2] \notin rerolled' /\ b[2] \notin rerolled'
               PROVE  /\ a[2] = b[2] /\ org'.role[a[2]] = "employee" => org'.parent[a[1]] # b[1]
                      /\ a[1] = b[1] /\ org'.role[a[2]] = org'.role[b[2]] => a = b
                      /\ org'.role[a[2]] = "economist" => Level(org', a[1]) = 2
    BY DEF OwnersApart
  <2>1. /\ a \in org.active /\ b \in org.active /\ {a[2], b[2]} \cap rerolled = {}
        /\ org'.role[a[2]] = org.role[a[2]] /\ org'.role[b[2]] = org.role[b[2]]
    OBVIOUS
  <2> QED
    BY <1>1, <2>1 DEF OrgInv, OwnersApart
<1> QED
  BY <1>3, <1>4, <1>5 DEF OrgInv

\* Somebody comes to a unit in a role, and everybody else of the role leaves
LEMMA SomebodyNew ==
    ASSUME OrgInv, NEW u \in UnitsOf(org), NEW x \in DOMAIN org.role, NEW r, org.role[x] = r,
           org' = Assigned(org, u, x, r), rerolled' = rerolled, Level(org, u) # 1,
           r = "employee" => MayOwn(org, u, x),
           r = "economist" => Level(org, u) = 2
    PROVE  OrgInv'
<1>1. /\ IsOrg(org') /\ org'.parent = org.parent /\ org'.role = org.role
      /\ org'.requested = org.requested /\ org'.lines = org.lines
      /\ org'.active = (org.active \ ({u} \X (Active(org, u, r) \ {x}))) \cup {<<u, x>>}
  BY DEF Assigned, OrgInv, Shape, IsOrg
<1>2. UnitsOf(org') = UnitsOf(org) /\ \A v : Level(org', v) = Level(org, v)
  BY <1>1 DEF UnitsOf, Level
<1>3. \A a \in org'.active : a \in org.active \/ a = <<u, x>>
  BY <1>1
<1>4. Shape'
  BY <1>1, <1>2, <1>3 DEF OrgInv, Shape
<1>5. ThreeLevels' /\ NotAtDepartments'
  BY <1>1, <1>2, <1>3 DEF OrgInv, ThreeLevels, NotAtDepartments
\* Nobody in the same role is left at the unit, and x is not active next to it
<1>6. \A a \in org'.active : a[1] = u /\ org.role[a[2]] = r => a = <<u, x>>
  BY <1>1 DEF OrgInv, Shape, Active
<1>7. ASSUME NEW a \in org'.active, a[2] = x, r = "employee"
      PROVE  org.parent[u] # a[1] /\ org.parent[a[1]] # u
  <2>1. a[1] \in UnitsOf(org) /\ Level(org, a[1]) # 1 /\ a = <<a[1], x>>
    BY <1>3, <1>7 DEF OrgInv, Shape, NotAtDepartments
  <2>2. Level(org, u) \in {2, 3} /\ \A f \in Family(org, u) \ {u} : <<f, x>> \notin org.active
    BY <1>7 DEF MayOwn
  <2>3. a[1] \notin Family(org, u) \ {u}
    BY <1>3, <2>1, <2>2
  <2> QED
    BY <2>1, <2>2, <2>3, AboveAndBelow
<1>8. OwnersApart'
  <2> SUFFICES ASSUME NEW a \in org'.active, NEW b \in org'.active,
                      {a[2], b[2]} \cap rerolled = {}
               PROVE  /\ a[2] = b[2] /\ org.role[a[2]] = "employee" => org.parent[a[1]] # b[1]
                      /\ a[1] = b[1] /\ org.role[a[2]] = org.role[b[2]] => a = b
                      /\ org.role[a[2]] = "economist" => Level(org, a[1]) = 2
    BY <1>1, <1>2 DEF OwnersApart
  <2>1. CASE a \in org.active /\ b \in org.active
    BY <2>1 DEF OrgInv, OwnersApart
  <2>2. CASE a = <<u, x>>
    BY <1>6, <1>7, <2>2
  <2>3. CASE b = <<u, x>>
    <3>1. org.role[a[2]] = "economist" => Level(org, a[1]) = 2
      <4>1. CASE a = <<u, x>>
        BY <4>1
      <4>2. CASE a \in org.active
        BY <4>2 DEF OrgInv, OwnersApart
      <4> QED BY <1>3, <4>1, <4>2
    <3> QED
      BY <1>6, <1>7, <2>3, <3>1
  <2> QED
    BY <1>3, <2>1, <2>2, <2>3
<1> QED
  BY <1>4, <1>5, <1>8 DEF OrgInv

-----------------------------------------------------------------------------
(* What the commands do to the units *)

\* The units there were keep their parents, and whoever is active stays at a unit
LEMMA SameTree ==
    ASSUME OrgInv, Shape', ThreeLevels',
           org'.active \subseteq org.active, org'.role = org.role, rerolled' = rerolled,
           \A a \in org'.active :
               /\ a[1] \in UnitsOf(org') /\ org'.parent[a[1]] = org.parent[a[1]]
               /\ org.parent[a[1]] # None =>
                      org'.parent[org.parent[a[1]]] = org.parent[org.parent[a[1]]]
    PROVE  OrgInv'
<1>1. ASSUME NEW a \in org'.active PROVE Level(org', a[1]) = Level(org, a[1])
  <2>1. a[1] \in UnitsOf(org)
    BY DEF OrgInv, Shape
  <2> QED
    BY <2>1, LevelKept DEF OrgInv
<1>2. NotAtDepartments'
  BY <1>1 DEF OrgInv, NotAtDepartments
<1>3. OwnersApart'
  BY <1>1 DEF OrgInv, OwnersApart
<1> QED
  BY <1>2, <1>3 DEF OrgInv

\* The new unit stands below one that has no more than one above it
LEMMA UnitMade ==
    ASSUME OrgInv, NEW u \in Units \ UnitsOf(org), NEW p,
           p = None \/ (p \in UnitsOf(org) /\ Level(org, p) < 3),
           IsOrg(org'), rerolled' = rerolled,
           org'.parent = [x \in UnitsOf(org) \cup {u} |-> IF x = u THEN p ELSE org.parent[x]],
           DOMAIN org'.lines = UnitsOf(org) \cup {u},
           org'.role = org.role, org'.active = org.active, org'.requested = org.requested
    PROVE  OrgInv'
<1> USE UnitsAssumption
<1>1. UnitsOf(org') = UnitsOf(org) \cup {u}
  BY DEF UnitsOf
<1>2. Shape'
  BY <1>1 DEF OrgInv, Shape
<1>3. \A x \in UnitsOf(org) : /\ org'.parent[x] = org.parent[x]
                              /\ org.parent[x] \in UnitsOf(org) \cup {None}
  BY DEF OrgInv, Shape
<1>4. ThreeLevels'
  <2> SUFFICES ASSUME NEW x \in UnitsOf(org'), org'.parent[x] # None,
                      org'.parent[org'.parent[x]] # None
               PROVE  org'.parent[org'.parent[org'.parent[x]]] = None
    BY DEF ThreeLevels
  <2>1. CASE x \in UnitsOf(org)
    <3>1. org.parent[x] \in UnitsOf(org) /\ org'.parent[x] = org.parent[x]
      BY <1>3, <2>1
    <3>2. org.parent[org.parent[x]] \in UnitsOf(org)
      BY <1>3, <3>1
    <3> QED
      BY <1>3, <2>1, <3>1, <3>2 DEF OrgInv, ThreeLevels
  <2>2. CASE x = u
    <3>1. org'.parent[x] = p /\ p \in UnitsOf(org) /\ Level(org, p) < 3
      BY <2>2
    <3>2. org.parent[p] \in UnitsOf(org) /\ org.parent[org.parent[p]] = None
      BY <1>3, <3>1, Levels DEF OrgInv
    <3> QED
      BY <1>3, <3>1, <3>2
  <2> QED
    BY <1>1, <2>1, <2>2
<1> QED
  <2>1. \A a \in org'.active : a[1] \in UnitsOf(org)
    BY DEF OrgInv, Shape
  <2> QED
    BY <1>1, <1>2, <1>3, <1>4, <2>1, SameTree

\* Nothing stood below the unit that is deleted, and its people leave with it
LEMMA UnitDeleted ==
    ASSUME OrgInv, NEW t, Deletable(t), IsOrg(org'), rerolled' = rerolled,
           org'.parent = [u \in UnitsOf(org) \ {t} |-> org.parent[u]],
           DOMAIN org'.lines = UnitsOf(org) \ {t},
           org'.role = org.role, org'.active = org.active \ ({t} \X Users),
           org'.requested = org.requested
    PROVE  OrgInv'
<1>1. UnitsOf(org') = UnitsOf(org) \ {t}
  BY DEF UnitsOf
<1>2. \A u \in UnitsOf(org) : org.parent[u] \in (UnitsOf(org) \ {t}) \cup {None}
  BY DEF OrgInv, Shape, Deletable, Children
<1>3. \A u \in UnitsOf(org') : org'.parent[u] = org.parent[u]
  BY DEF UnitsOf
<1>4. \A a \in org'.active : a \in org.active /\ a[1] \in UnitsOf(org')
  BY <1>1 DEF OrgInv, Shape
<1>5. Shape'
  <2>1. org'.active \subseteq UnitsOf(org') \X DOMAIN org'.role
    BY <1>4 DEF OrgInv, Shape
  <2> QED
    BY <1>1, <1>2, <2>1 DEF OrgInv, Shape, Deletable
<1>6. ThreeLevels'
  BY <1>1, <1>2, <1>3 DEF OrgInv, ThreeLevels
<1> QED
  BY <1>1, <1>2, <1>3, <1>4, <1>5, <1>6, SameTree

-----------------------------------------------------------------------------
(* The commands *)

LEMMA OrgInit == Init => OrgInv
<1> SUFFICES ASSUME Init PROVE OrgInv
  OBVIOUS
<1> USE UnitsAssumption
<1>1. PICK role \in [Users -> Roles] :
        org = [parent |-> [u \in {Department, Cfo, Module} |->
                            CASE u = Module -> Cfo [] u = Cfo -> Department [] u = Department -> None],
               lines |-> [u \in {Department, Cfo, Module} |-> "dds"],
               role |-> role, active |-> {}, requested |-> {}]
  BY DEF Init
<1>2. /\ IsOrg(org) /\ UnitsOf(org) = {Department, Cfo, Module} /\ org.active = {} /\ org.requested = {}
      /\ org.role = role /\ DOMAIN org.role \subseteq Users /\ DOMAIN org.lines = UnitsOf(org)
  BY <1>1 DEF IsOrg, UnitsOf
<1>3. org.parent[Module] = Cfo /\ org.parent[Cfo] = Department /\ org.parent[Department] = None
  BY <1>1
<1>4. org.parent \in [UnitsOf(org) -> UnitsOf(org) \cup {None}]
  BY <1>1, <1>2, <1>3
<1> QED
  BY <1>2, <1>3, <1>4 DEF OrgInv, Shape, ThreeLevels, NotAtDepartments, OwnersApart

\* The responsible and the economist, from the calls of a new unit or from the buttons
LEMMA Owned ==
    ASSUME OrgInv, NEW u, NEW x, MayOwn(org, u, x), org' = Assigned(org, u, x, "employee"),
           rerolled' = rerolled
    PROVE  OrgInv'
<1>1. u \in UnitsOf(org) /\ Level(org, u) # 1 /\ x \in DOMAIN org.role /\ org.role[x] = "employee"
  BY DEF MayOwn, Level
<1> QED
  BY <1>1, SomebodyNew

LEMMA Appointed ==
    ASSUME OrgInv, NEW u, NEW x, MayAssign(org, u, x), org' = Assigned(org, u, x, "economist"),
           rerolled' = rerolled
    PROVE  OrgInv'
<1>1. u \in UnitsOf(org) /\ Level(org, u) = 2 /\ x \in DOMAIN org.role /\ org.role[x] = "economist"
  BY DEF MayAssign, Level
<1> QED
  BY <1>1, SomebodyNew

LEMMA SomebodyLeaves ==
    ASSUME OrgInv, NEW gone, org' = [org EXCEPT !.active = @ \ gone], rerolled' = rerolled
    PROVE  OrgInv'
<1>1. /\ IsOrg(org') /\ org'.parent = org.parent /\ org'.requested = org.requested
      /\ org'.role = org.role /\ org'.active = org.active \ gone /\ org'.lines = org.lines
  BY DEF OrgInv, Shape, IsOrg
<1> QED
  BY <1>1, NobodyNew DEF OrgInv, Shape

LEMMA OrgNext == OrgInv /\ [Next]_vars => OrgInv'
<1> SUFFICES ASSUME OrgInv, [Next]_vars PROVE OrgInv'
  OBVIOUS
<1>1. ASSUME UNCHANGED <<org, rerolled>> PROVE OrgInv'
  BY <1>1 DEF OrgInv, Shape, ThreeLevels, NotAtDepartments, OwnersApart
<1>2. CASE StaffUnit
  BY <1>1, <1>2, Owned, Appointed DEF StaffUnit, Refused
<1>3. CASE ChangeUnit
  <2>1. CASE org' = [org EXCEPT !.lines[call.unit] = call.lines]
    <3>1. /\ IsOrg(org') /\ org'.parent = org.parent /\ org'.requested = org.requested
          /\ org'.role = org.role /\ org'.active = org.active /\ rerolled' = rerolled
          /\ DOMAIN org'.lines = DOMAIN org.lines
      BY <1>3, <2>1 DEF ChangeUnit, OrgInv, Shape, IsOrg
    <3> QED
      BY <3>1, NobodyNew DEF OrgInv, Shape
  <2> QED
    BY <1>1, <1>3, <2>1 DEF ChangeUnit, Refused
<1>4. CASE Staff
  <2>1. rerolled' = rerolled
    BY <1>4 DEF Staff
  <2>2. ASSUME NEW x, MayOwn(org, dialog.unit, x), org' = Assigned(org, dialog.unit, x, "employee")
        PROVE  OrgInv'
    BY <2>1, <2>2, Owned
  <2>3. ASSUME NEW x, MayAssign(org, dialog.unit, x), org' = Assigned(org, dialog.unit, x, "economist")
        PROVE  OrgInv'
    BY <2>1, <2>3, Appointed
  <2>4. ASSUME NEW gone, org' = [org EXCEPT !.active = @ \ gone] PROVE OrgInv'
    BY <2>1, <2>4, SomebodyLeaves
  <2> QED
    BY <1>4, <2>2, <2>3, <2>4 DEF Staff
<1>5. CASE DeleteUnit
  <2>1. /\ IsOrg(org') /\ org'.role = org.role /\ org'.requested = org.requested
        /\ org'.parent = [u \in UnitsOf(org) \ {target} |-> org.parent[u]]
        /\ org'.active = org.active \ ({target} \X Users)
        /\ DOMAIN org'.lines = UnitsOf(org) \ {target}
    BY <1>5 DEF DeleteUnit, OrgInv, Shape, IsOrg
  <2> QED
    BY <1>5, <2>1, UnitDeleted DEF DeleteUnit
<1>6. ASSUME NEW u \in Units, Request(u) PROVE OrgInv'
  <2>1. /\ IsOrg(org') /\ org'.parent = org.parent /\ org'.requested = org.requested \cup {u}
        /\ org'.role = org.role /\ org'.active = org.active /\ rerolled' = rerolled
        /\ u \in UnitsOf(org) /\ org'.lines = org.lines
    BY <1>6 DEF Request, OrgInv, Shape, IsOrg
  <2> QED
    BY <2>1, NobodyNew DEF OrgInv, Shape
<1>7. ASSUME NEW u \in Units, MakeUnit(u) PROVE OrgInv'
  <2>1. CASE org' = org
    BY <1>1, <1>7, <2>1 DEF MakeUnit
  <2>2. CASE org' # org
    <3>1. /\ call.unit = None \/ (call.unit \in UnitsOf(org) /\ Level(org, call.unit) < 3)
          /\ org' = [org EXCEPT
               !.parent = [x \in UnitsOf(org) \cup {u} |-> IF x = u THEN call.unit ELSE org.parent[x]],
               !.lines = [x \in UnitsOf(org) \cup {u} |-> IF x = u THEN call.lines ELSE org.lines[x]]]
          /\ rerolled' = rerolled /\ u \in Units \ UnitsOf(org)
      BY <1>7, <2>2 DEF MakeUnit, Refused
    <3>2. /\ IsOrg(org') /\ org'.requested = org.requested
          /\ org'.parent = [x \in UnitsOf(org) \cup {u} |-> IF x = u THEN call.unit ELSE org.parent[x]]
          /\ DOMAIN org'.lines = UnitsOf(org) \cup {u}
          /\ org'.role = org.role /\ org'.active = org.active
      BY <3>1 DEF OrgInv, Shape, IsOrg
    <3> QED
      BY <3>1, <3>2, UnitMade
  <2> QED
    BY <2>1, <2>2
<1>8. ASSUME NEW x \in Users, NEW r \in Roles, SaveUser(x, r) PROVE OrgInv'
  <2>1. /\ IsOrg(org') /\ org'.parent = org.parent /\ org'.requested = org.requested
        /\ org'.role = [org.role EXCEPT ![x] = r] /\ org'.active = org.active
        /\ DOMAIN org'.role = DOMAIN org.role /\ org'.lines = org.lines
    BY <1>8 DEF SaveUser, OrgInv, Shape, IsOrg
  <2>2. \A a \in org.active : a[2] \in DOMAIN org.role
    BY DEF OrgInv, Shape
  <2>3. \A y \in DOMAIN org.role : org'.role[y] = org.role[y] \/ y \in rerolled'
    BY <1>8, <2>1 DEF SaveUser
  <2>4. rerolled \subseteq rerolled'
    BY <1>8 DEF SaveUser
  <2> QED
    BY <2>1, <2>2, <2>3, <2>4, NobodyNew DEF OrgInv, Shape
<1>9. ASSUME NEW x \in Users, NEW r \in Roles, CreateUser(x, r) PROVE OrgInv'
  <2>1. /\ IsOrg(org') /\ org'.parent = org.parent /\ org'.requested = org.requested
        /\ org'.role = [y \in DOMAIN org.role \cup {x} |-> IF y = x THEN r ELSE org.role[y]]
        /\ org'.active = org.active /\ rerolled' = rerolled /\ x \notin DOMAIN org.role
        /\ org'.lines = org.lines
    BY <1>9 DEF CreateUser, OrgInv, Shape, IsOrg
  <2>2. \A a \in org.active : a[2] \in DOMAIN org.role
    BY DEF OrgInv, Shape
  <2>3. \A y \in DOMAIN org.role : y \in DOMAIN org'.role /\ org'.role[y] = org.role[y]
    BY <2>1
  <2> QED
    BY <2>1, <2>2, <2>3, NobodyNew DEF OrgInv, Shape
<1>10. ASSUME NEW x \in Users, DeleteUser(x) PROVE OrgInv'
  <2>1. /\ IsOrg(org') /\ org'.parent = org.parent /\ org'.requested = org.requested
        /\ org'.role = [y \in DOMAIN org.role \ {x} |-> org.role[y]]
        /\ org'.active = org.active /\ rerolled' = rerolled \ {x} /\ Unassigned(x)
        /\ org'.lines = org.lines
    BY <1>10 DEF DeleteUser, OrgInv, Shape, IsOrg
  <2>2. \A a \in org.active : a[2] \in DOMAIN org.role /\ a[2] # x
    BY <2>1 DEF OrgInv, Shape, Unassigned
  <2>3. \A y \in DOMAIN org.role \ {x} : y \in DOMAIN org'.role /\ org'.role[y] = org.role[y]
    BY <2>1
  <2> QED
    BY <2>1, <2>2, <2>3, NobodyNew DEF OrgInv, Shape
<1> QED
  BY <1>1, <1>2, <1>3, <1>4, <1>5, <1>6, <1>7, <1>8, <1>9, <1>10
     DEF Next, vars, Load, CloseDialog, FailCall, Refused, AskDelete, CancelDelete, OpenNew,
         OpenEdit, SubmitEdit, SubmitNew

-----------------------------------------------------------------------------

\* A step keeps the units that have requests, and the kind of their lines
LEMMA KindStep ==
    OrgInv /\ [Next]_vars =>
        \A u \in org.requested : u \in UnitsOf(org') /\ org'.lines[u] = org.lines[u]
<1> SUFFICES ASSUME OrgInv, [Next]_vars, NEW u \in org.requested
             PROVE  u \in UnitsOf(org') /\ org'.lines[u] = org.lines[u]
  OBVIOUS
<1>1. u \in UnitsOf(org) /\ IsOrg(org) /\ DOMAIN org.lines = UnitsOf(org)
  BY DEF OrgInv, Shape
<1>2. ASSUME org'.parent = org.parent, org'.lines = org.lines
      PROVE  u \in UnitsOf(org') /\ org'.lines[u] = org.lines[u]
  BY <1>1, <1>2 DEF UnitsOf
<1>3. CASE ChangeUnit
  BY <1>1, <1>3 DEF ChangeUnit, MayChangeTo, Refused, IsOrg, UnitsOf
<1>4. CASE DeleteUnit
  BY <1>1, <1>4 DEF DeleteUnit, Deletable, IsOrg, UnitsOf
<1>5. ASSUME NEW x \in Units, MakeUnit(x) PROVE u \in UnitsOf(org') /\ org'.lines[u] = org.lines[u]
  <2>1. CASE org' = org
    BY <1>1, <2>1
  <2>2. CASE org' # org
    <3>1. /\ x \notin UnitsOf(org)
          /\ org' = [org EXCEPT
               !.parent = [y \in UnitsOf(org) \cup {x} |-> IF y = x THEN call.unit ELSE org.parent[y]],
               !.lines = [y \in UnitsOf(org) \cup {x} |-> IF y = x THEN call.lines ELSE org.lines[y]]]
      BY <1>5, <2>2 DEF MakeUnit, Refused
    <3>2. /\ UnitsOf(org') = UnitsOf(org) \cup {x}
          /\ org'.lines = [y \in UnitsOf(org) \cup {x} |-> IF y = x THEN call.lines ELSE org.lines[y]]
      BY <1>1, <3>1 DEF IsOrg, UnitsOf
    <3> QED
      BY <1>1, <3>1, <3>2
  <2> QED
    BY <2>1, <2>2
<1>6. ASSUME NEW x \in Units, Request(x) PROVE u \in UnitsOf(org') /\ org'.lines[u] = org.lines[u]
  BY <1>1, <1>2, <1>6 DEF Request, IsOrg
<1>7. CASE StaffUnit
  BY <1>1, <1>2, <1>7 DEF StaffUnit, Refused, Assigned, IsOrg
<1>8. CASE Staff
  BY <1>1, <1>2, <1>8 DEF Staff, Assigned, IsOrg
<1>9. ASSUME NEW x \in Users, NEW r \in Roles, SaveUser(x, r) \/ CreateUser(x, r)
      PROVE  u \in UnitsOf(org') /\ org'.lines[u] = org.lines[u]
  BY <1>1, <1>2, <1>9 DEF SaveUser, CreateUser, IsOrg
<1>10. ASSUME NEW x \in Users, DeleteUser(x)
       PROVE  u \in UnitsOf(org') /\ org'.lines[u] = org.lines[u]
  BY <1>1, <1>2, <1>10 DEF DeleteUser, IsOrg
<1> QED
  BY <1>2, <1>3, <1>4, <1>5, <1>6, <1>7, <1>8, <1>9, <1>10
     DEF Next, vars, Load, CloseDialog, FailCall, Refused, AskDelete, CancelDelete, OpenNew,
         OpenEdit, SubmitEdit, SubmitNew

-----------------------------------------------------------------------------
(* What the page holds *)

OrgFits(o) ==
    /\ UnitsOf(o) \subseteq Units /\ DOMAIN o.lines = UnitsOf(o) /\ DOMAIN o.role \subseteq Users
    /\ \A u \in UnitsOf(o) : o.parent[u] \in UnitsOf(o) \cup {None} /\ o.lines[u] \in Lines
    /\ o.active \subseteq UnitsOf(o) \X Users /\ o.requested \subseteq UnitsOf(o)

LinesFit(o) == \A u \in UnitsOf(o) : o.lines[u] \in Lines

DialogFits ==
    /\ dialog = [kind |-> dialog.kind, unit |-> dialog.unit, lines |-> dialog.lines, blocked |-> dialog.blocked]
    /\ dialog.kind \in {"closed", "new", "edit"} /\ dialog.unit \in Units \cup {None}

CallFits ==
    /\ call = [op |-> call.op, unit |-> call.unit, lines |-> call.lines, owner |-> call.owner,
               economist |-> call.economist]
    /\ call.op \in {"none", "unit", "owner", "economist", "change"} /\ call.lines \in Lines

PageInv ==
    /\ OrgFits(shown) /\ LinesFit(org) /\ DialogFits /\ CallFits
    /\ stale \in BOOLEAN /\ rerolled \subseteq Users /\ target \in Units \cup {None}
    /\ edits \in 0 .. MaxEdits /\ faults \in 0 .. MaxFaults

LEMMA OrgFit == Shape /\ LinesFit(org) => OrgFits(org)
<1> SUFFICES ASSUME Shape, LinesFit(org) PROVE OrgFits(org)
  OBVIOUS
<1>1. \A u \in UnitsOf(org) : org.parent[u] \in UnitsOf(org) \cup {None}
  BY DEF Shape
<1>2. org.active \subseteq UnitsOf(org) \X Users
  BY DEF Shape
<1> QED
  BY <1>1, <1>2 DEF OrgFits, LinesFit, Shape

LEMMA IdleFits == call' = Idle => CallFits'
BY DEF Idle, CallFits, Lines

LEMMA ClosedFits == dialog' = Closed => DialogFits'
BY DEF Closed, DialogFits

\* What is left of the calls of a new unit, or its end
LEMMA ThenFits ==
    ASSUME CallFits, DialogFits, stale \in BOOLEAN, NEW u, Then(u) \/ Done \/ Refused
    PROVE  CallFits' /\ DialogFits' /\ stale' \in BOOLEAN
<1>1. CASE Done
  BY <1>1, IdleFits, ClosedFits DEF Done
<1>2. CASE Refused
  <2>1. call' = Idle /\ dialog' = dialog /\ stale' = stale
    BY <1>2 DEF Refused
  <2> QED
    BY <2>1, IdleFits DEF DialogFits
<1>3. CASE Then(u)
  <2> DEFINE rest == IF call.op = "unit" /\ call.owner # None THEN "owner"
                     ELSE IF call.op # "economist" /\ call.economist # None THEN "economist" ELSE "none"
  <2>1. rest \in {"owner", "economist", "none"}
    OBVIOUS
  <2>2. IF rest = "none" THEN Done
        ELSE call' = [call EXCEPT !.op = rest, !.unit = u] /\ dialog' = dialog /\ stale' = stale
    BY <1>3 DEF Then
  <2> HIDE DEF rest
  <2>3. CASE rest = "none"
    BY <1>1, <2>2, <2>3
  <2>4. CASE rest # "none"
    <3>1. call' = [op |-> rest, unit |-> u, lines |-> call.lines, owner |-> call.owner,
                   economist |-> call.economist]
      BY <2>2, <2>4 DEF CallFits
    <3>2. CallFits'
      BY <2>1, <3>1 DEF CallFits
    <3> QED
      BY <2>2, <2>4, <3>2 DEF DialogFits
  <2> QED
    BY <2>3, <2>4
<1> QED
  BY <1>1, <1>2, <1>3

LEMMA LinesStep ==
    ASSUME OrgInv, PageInv, [Next]_vars
    PROVE  LinesFit(org')
<1>1. IsOrg(org) /\ DOMAIN org.lines = UnitsOf(org) /\ \A u \in UnitsOf(org) : org.lines[u] \in Lines
  BY DEF OrgInv, Shape, PageInv, LinesFit
<1>2. call.lines \in Lines
  BY DEF PageInv, CallFits
<1>3. ASSUME org'.parent = org.parent, org'.lines = org.lines
      PROVE  LinesFit(org')
  BY <1>1, <1>3 DEF UnitsOf, LinesFit
<1>4. CASE ChangeUnit
  <2>1. CASE org' = org
    BY <1>3, <2>1
  <2>2. CASE org' # org
    <3>1. org' = [org EXCEPT !.lines[call.unit] = call.lines]
      BY <1>4, <2>2 DEF ChangeUnit, Refused
    <3>2. org'.parent = org.parent /\ org'.lines = [org.lines EXCEPT ![call.unit] = call.lines]
      BY <1>1, <3>1 DEF IsOrg
    <3> QED
      BY <1>1, <1>2, <3>2 DEF LinesFit, UnitsOf
  <2> QED
    BY <2>1, <2>2
<1>5. CASE DeleteUnit
  <2> DEFINE rest == UnitsOf(org) \ {target}
  <2>1. org'.parent = [u \in rest |-> org.parent[u]] /\ org'.lines = [u \in rest |-> org.lines[u]]
    BY <1>1, <1>5 DEF DeleteUnit, IsOrg
  <2> QED
    BY <1>1, <2>1 DEF LinesFit, UnitsOf
<1>6. ASSUME NEW x \in Units, MakeUnit(x) PROVE LinesFit(org')
  <2>1. CASE org' = org
    BY <1>3, <2>1
  <2>2. CASE org' # org
    <3>1. org' = [org EXCEPT
               !.parent = [y \in UnitsOf(org) \cup {x} |-> IF y = x THEN call.unit ELSE org.parent[y]],
               !.lines = [y \in UnitsOf(org) \cup {x} |-> IF y = x THEN call.lines ELSE org.lines[y]]]
      BY <1>6, <2>2 DEF MakeUnit, Refused
    <3>2. /\ UnitsOf(org') = UnitsOf(org) \cup {x}
          /\ org'.lines = [y \in UnitsOf(org) \cup {x} |-> IF y = x THEN call.lines ELSE org.lines[y]]
      BY <1>1, <3>1 DEF IsOrg, UnitsOf
    <3> QED
      BY <1>1, <1>2, <3>2 DEF LinesFit
  <2> QED
    BY <2>1, <2>2
<1>7. ASSUME NEW x \in Units, Request(x) PROVE LinesFit(org')
  BY <1>1, <1>3, <1>7 DEF Request, IsOrg
<1>8. CASE StaffUnit
  BY <1>1, <1>3, <1>8 DEF StaffUnit, Refused, Assigned, IsOrg
<1>9. CASE Staff
  BY <1>1, <1>3, <1>9 DEF Staff, Assigned, IsOrg
<1>10. ASSUME NEW x \in Users, NEW r \in Roles, SaveUser(x, r) \/ CreateUser(x, r)
       PROVE  LinesFit(org')
  BY <1>1, <1>3, <1>10 DEF SaveUser, CreateUser, IsOrg
<1>11. ASSUME NEW x \in Users, DeleteUser(x) PROVE LinesFit(org')
  BY <1>1, <1>3, <1>11 DEF DeleteUser, IsOrg
<1> QED
  BY <1>3, <1>4, <1>5, <1>6, <1>7, <1>8, <1>9, <1>10, <1>11
     DEF Next, vars, Load, CloseDialog, FailCall, Refused, AskDelete, CancelDelete, OpenNew,
         OpenEdit, SubmitEdit, SubmitNew

LEMMA Bounded ==
    ASSUME PageInv, Edit \/ edits' = edits, Fault \/ faults' = faults
    PROVE  edits' \in 0 .. MaxEdits /\ faults' \in 0 .. MaxFaults
<1>1. MaxEdits \in Nat /\ MaxFaults \in Nat
  BY UnitsAssumption
<1>2. edits \in 0 .. MaxEdits /\ faults \in 0 .. MaxFaults
  BY DEF PageInv
<1> QED
  BY <1>1, <1>2 DEF Edit, Fault

LEMMA PageStep ==
    ASSUME OrgInv, PageInv, [Next]_vars
    PROVE  PageInv'
<1>1. LinesFit(org)'
  BY LinesStep
<1>2. /\ OrgFits(shown) /\ LinesFit(org) /\ DialogFits /\ CallFits
      /\ stale \in BOOLEAN /\ rerolled \subseteq Users /\ target \in Units \cup {None}
      /\ UnitsOf(shown) \subseteq Units
  BY DEF PageInv, OrgFits
<1>3. (Edit \/ edits' = edits) /\ (Fault \/ faults' = faults)
  BY DEF Next, vars, Load, CloseDialog, StaffUnit, ChangeUnit, FailCall, Staff, AskDelete, CancelDelete,
         DeleteUnit, Request, OpenEdit, MakeUnit, OpenNew, SubmitEdit, SubmitNew, DeleteUser, SaveUser,
         CreateUser
<1>4. edits' \in 0 .. MaxEdits /\ faults' \in 0 .. MaxFaults
  BY <1>3, Bounded
<1>5. OrgFits(shown)'
  <2>1. CASE shown' = org
    BY <1>2, <2>1, OrgFit DEF OrgInv, OrgFits
  <2>2. CASE shown' = shown
    BY <1>2, <2>2 DEF OrgFits, UnitsOf
  <2> QED
    BY <2>1, <2>2 DEF Next, vars, Load, CloseDialog, StaffUnit, ChangeUnit, FailCall, Staff, AskDelete,
         CancelDelete, DeleteUnit, Request, OpenEdit, MakeUnit, OpenNew, SubmitEdit, SubmitNew, DeleteUser,
         SaveUser, CreateUser
<1>6. rerolled' \subseteq Users
  BY <1>2 DEF Next, vars, Load, CloseDialog, StaffUnit, ChangeUnit, FailCall, Staff, AskDelete,
         CancelDelete, DeleteUnit, Request, OpenEdit, MakeUnit, OpenNew, SubmitEdit, SubmitNew, DeleteUser,
         SaveUser, CreateUser
<1>7. CallFits' /\ DialogFits' /\ stale' \in BOOLEAN /\ target' \in Units \cup {None}
  <2>1. ASSUME UNCHANGED <<call, dialog, target>>, stale' \in BOOLEAN
        PROVE  CallFits' /\ DialogFits' /\ stale' \in BOOLEAN /\ target' \in Units \cup {None}
    BY <1>2, <2>1 DEF CallFits, DialogFits
  <2>2. CASE \/ Load \/ Staff \/ UNCHANGED vars
             \/ \E u \in Units : Request(u)
             \/ \E x \in Users : DeleteUser(x) \/ \E r \in Roles : SaveUser(x, r) \/ CreateUser(x, r)
    BY <1>2, <2>1, <2>2 DEF Load, Staff, Request, DeleteUser, SaveUser, CreateUser, vars
  <2>3. CASE CloseDialog
    BY <1>2, <2>3, ClosedFits DEF CloseDialog, CallFits
  <2>4. CASE StaffUnit \/ ChangeUnit \/ FailCall \/ \E u \in Units : MakeUnit(u)
    <3>1. target' = target /\ \E u : Then(u) \/ Done \/ Refused
      BY <2>4 DEF StaffUnit, ChangeUnit, FailCall, MakeUnit
    <3> QED
      BY <1>2, <3>1, ThenFits
  <2>5. CASE AskDelete \/ CancelDelete
    <3>1. UNCHANGED <<call, dialog, stale>> /\ target' \in {dialog.unit, None}
      BY <2>5 DEF AskDelete, CancelDelete
    <3> QED
      BY <1>2, <3>1 DEF CallFits, DialogFits
  <2>6. CASE DeleteUnit
    <3>1. call' = call /\ stale' = TRUE /\ target' = None /\ (dialog' = Closed \/ dialog' = dialog)
      BY <2>6 DEF DeleteUnit
    <3>2. DialogFits'
      BY <1>2, <3>1, ClosedFits DEF DialogFits
    <3> QED
      BY <1>2, <3>1, <3>2 DEF CallFits
  <2>7. ASSUME NEW u \in Units, OpenEdit(u)
        PROVE  CallFits' /\ DialogFits' /\ stale' \in BOOLEAN /\ target' \in Units \cup {None}
    <3>1. /\ dialog' = [kind |-> "edit", unit |-> u, lines |-> shown.lines[u], blocked |-> u \in shown.requested]
          /\ UNCHANGED <<call, stale, target>>
      BY <2>7 DEF OpenEdit
    <3>2. DialogFits'
      BY <3>1 DEF DialogFits
    <3> QED
      BY <1>2, <3>1, <3>2 DEF CallFits
  <2>8. ASSUME NEW u \in Units \cup {None}, OpenNew(u)
        PROVE  CallFits' /\ DialogFits' /\ stale' \in BOOLEAN /\ target' \in Units \cup {None}
    <3>1. dialog' = [Closed EXCEPT !.kind = "new", !.unit = u] /\ UNCHANGED <<call, stale, target>>
      BY <2>8 DEF OpenNew
    <3>2. DialogFits'
      BY <3>1 DEF DialogFits, Closed
    <3> QED
      BY <1>2, <3>1, <3>2 DEF CallFits
  <2>9. ASSUME NEW l \in Lines, SubmitEdit(l)
        PROVE  CallFits' /\ DialogFits' /\ stale' \in BOOLEAN /\ target' \in Units \cup {None}
    <3>1. /\ call' = [Idle EXCEPT !.op = "change", !.unit = dialog.unit, !.lines = l]
          /\ UNCHANGED <<dialog, stale, target>>
      BY <2>9 DEF SubmitEdit
    <3>2. CallFits'
      BY <3>1 DEF CallFits, Idle
    <3> QED
      BY <1>2, <3>1, <3>2 DEF DialogFits
  <2>10. ASSUME NEW l \in Lines, NEW x \in Users \cup {None}, NEW e \in Users \cup {None}, SubmitNew(l, x, e)
         PROVE  CallFits' /\ DialogFits' /\ stale' \in BOOLEAN /\ target' \in Units \cup {None}
    <3>1. /\ call' = [op |-> "unit", unit |-> dialog.unit, lines |-> l, owner |-> x, economist |-> e]
          /\ UNCHANGED <<dialog, stale, target>>
      BY <2>10 DEF SubmitNew
    <3>2. CallFits'
      BY <3>1 DEF CallFits
    <3> QED
      BY <1>2, <3>1, <3>2 DEF DialogFits
  <2> QED
    BY <2>2, <2>3, <2>4, <2>5, <2>6, <2>7, <2>8, <2>9, <2>10 DEF Next
<1> QED
  BY <1>1, <1>4, <1>5, <1>6, <1>7 DEF PageInv

LEMMA PageStart == Init => PageInv
<1> SUFFICES ASSUME Init PROVE PageInv
  OBVIOUS
<1>1. /\ shown = org /\ stale = FALSE /\ dialog = Closed /\ call = Idle /\ target = None
      /\ rerolled = {} /\ edits = 0 /\ faults = 0
      /\ org.lines = [u \in {Department, Cfo, Module} |-> "dds"]
  BY DEF Init
<1>2. LinesFit(org)
  <2>1. UnitsOf(org) = {Department, Cfo, Module}
    BY OrgInit, <1>1 DEF OrgInv, Shape
  <2> QED
    BY <1>1, <2>1 DEF LinesFit, Lines
<1>3. OrgFits(shown)
  BY <1>1, <1>2, OrgInit, OrgFit DEF OrgInv
<1>4. DialogFits /\ CallFits
  BY <1>1 DEF DialogFits, CallFits, Closed, Idle, Lines
<1>5. edits \in 0 .. MaxEdits /\ faults \in 0 .. MaxFaults
  <2>1. MaxEdits \in Nat /\ MaxFaults \in Nat
    BY UnitsAssumption
  <2> QED
    BY <1>1, <2>1
<1> QED
  BY <1>1, <1>2, <1>3, <1>4, <1>5 DEF PageInv

\* Once a module has a request it keeps the kind of its lines and is not deleted
\* (update_unit, delete_unit in unit_service.py); nobody who is active at a unit is
\* deleted (delete_user in user_service.py); and among users who kept their role nobody is
\* responsible for a CFO and for one of its modules, a unit has one responsible and a CFO
\* one economist (set_responsible, create_assignment).
THEOREM PeopleAndKind == Spec => StaffKept
<1>1. OrgInv => NoGhosts /\ OwnersApart
  BY DEF OrgInv, Shape, NoGhosts
<1>2. OrgInv /\ PageInv => TypeOK
  <2> SUFFICES ASSUME OrgInv, PageInv PROVE TypeOK
    OBVIOUS
  <2>1. OrgFits(org) /\ OrgFits(shown)
    BY OrgFit DEF OrgInv, PageInv
  <2> QED
    BY <2>1 DEF TypeOK, OrgFits, PageInv, DialogFits, CallFits
<1>3. OrgInv /\ [Next]_vars => [\A u \in org.requested : u \in UnitsOf(org') /\ org'.lines[u] = org.lines[u]]_vars
  BY KindStep
<1> QED
  BY <1>1, <1>2, <1>3, OrgInit, PageStart, OrgNext, PageStep, PTL DEF Spec, StaffKept, KindKept

\* What holds of zero, and of the number after every number it holds of, holds of all
LEMMA CountUp ==
    ASSUME NEW S, 0 \in S, \A n \in Nat : n \in S => n + 1 \in S
    PROVE  Nat \subseteq S
<1> DEFINE T == Nat \ S
           R == OpToRel(<, Nat)
<1> SUFFICES ASSUME T # {} PROVE FALSE
  OBVIOUS
<1>1. IsWellFoundedOn(R, Nat)
  BY NatLessThanWellFounded
<1>2. PICK x \in T : \A y \in T : ~ (<<y, x>> \in R)
  <2>1. T \subseteq Nat
    OBVIOUS
  <2> HIDE DEF R, T
  <2> QED
    BY <1>1, <2>1, WFMin
<1>3. x \in Nat /\ x # 0 /\ x - 1 \in Nat /\ x - 1 < x
  OBVIOUS
<1>4. x - 1 \in T
  <2>1. (x - 1) + 1 = x
    BY <1>3
  <2>2. x - 1 \notin S
    BY <1>2, <1>3, <2>1
  <2> QED
    BY <1>3, <2>2
<1>5. <<x - 1, x>> \in R
  BY <1>3 DEF OpToRel
<1> QED
  BY <1>2, <1>4, <1>5

(***************************************************************************)
(* Lists that differ in nothing but what is active.                        *)
(***************************************************************************)

Any == Entry \cup {Fresh, Gone}

Shaped(e) == e = [parent |-> e.parent, name |-> e.name, dep |-> e.dep, active |-> e.active]

Alike(a, b) ==
    /\ DOMAIN a = Ids /\ DOMAIN b = Ids
    /\ \A i \in Ids :
        /\ Shaped(a[i]) /\ Shaped(b[i])
        /\ a[i].parent = b[i].parent /\ a[i].dep = b[i].dep /\ a[i].name = b[i].name
        /\ a[i].name = Null => a[i] = b[i]

\* A list that keeps what another one had, and adds to it
Grown(a, b) ==
    \A i \in Ids :
        /\ a[i] = Gone => b[i] = Gone
        /\ i \in Live(a) => i \in Live(b) /\ b[i].parent = a[i].parent /\ b[i].dep = a[i].dep
                            /\ b[i].name = a[i].name

LEMMA Kinds ==
    ASSUME NEW e \in Any
    PROVE  /\ Shaped(e) /\ Fresh \in Any /\ Gone \in Any
           /\ Fresh.name = Null /\ Gone.name = Null /\ Fresh # Gone
           /\ e.name # Null => e \in Entry
           /\ e.name = Null => e = Fresh \/ e = Gone
<1>1. \A x \in Entry : x.name \in Names /\ Shaped(x)
  BY DEF Entry, Shaped
<1>2. \A x \in Entry : x.name # Null
  BY <1>1, CatalogAssumption
<1>3. Shaped(Fresh) /\ Shaped(Gone) /\ Fresh.name = Null /\ Gone.name = Null /\ Fresh # Gone
  <2>1. Fresh.active = FALSE /\ Gone.active = TRUE
    BY DEF Fresh, Gone
  <2> QED
    BY <2>1 DEF Fresh, Gone, Shaped
<1> QED
  BY <1>1, <1>2, <1>3 DEF Any

LEMMA AlikeSame ==
    ASSUME NEW a \in [Ids -> Any]
    PROVE  Alike(a, a)
BY Kinds DEF Alike

LEMMA AlikeBack ==
    ASSUME NEW a, NEW b, Alike(a, b)
    PROVE  Alike(b, a)
BY DEF Alike

LEMMA AlikeOn ==
    ASSUME NEW a, NEW b, NEW c, Alike(a, b), Alike(b, c)
    PROVE  Alike(a, c)
BY DEF Alike

LEMMA AlikeLists ==
    ASSUME NEW a, NEW b, Alike(a, b)
    PROVE  /\ Live(a) = Live(b) /\ Free(a) = Free(b) /\ New(a) = New(b)
           /\ \A k : Kids(a, k) = Kids(b, k)
           /\ \A p, d, n : Find(a, p, d, n) = Find(b, p, d, n)
<1>1. Live(a) = Live(b)
  BY DEF Alike, Live
<1>2. Free(a) = Free(b)
  <2>1. \A i \in Ids : a[i] = Fresh <=> b[i] = Fresh
    <3>1. Fresh.name = Null
      BY DEF Fresh
    <3> QED
      BY <3>1 DEF Alike
  <2> QED
    BY <2>1 DEF Free
<1>3. New(a) = New(b)
  BY <1>2 DEF New
<1>4. \A k : Kids(a, k) = Kids(b, k)
  BY DEF Alike, Kids
<1>5. \A p, d, n : Find(a, p, d, n) = Find(b, p, d, n)
  BY DEF Alike, Find
<1> QED
  BY <1>1, <1>2, <1>3, <1>4, <1>5

LEMMA AlikeAdd ==
    ASSUME NEW a, NEW b, Alike(a, b), NEW p, NEW n, n # Null, NEW d, NEW x, NEW y
    PROVE  Alike(Add(a, p, n, d, x), Add(b, p, n, d, y))
<1> DEFINE e == [parent |-> p, name |-> n, dep |-> d, active |-> x]
           f == [parent |-> p, name |-> n, dep |-> d, active |-> y]
           k == New(a)
<1>1. Shaped(e) /\ Shaped(f) /\ e.parent = f.parent /\ e.dep = f.dep /\ e.name = f.name /\ e.name # Null
  BY DEF Shaped
<1>2. Add(a, p, n, d, x) = [a EXCEPT ![k] = e] /\ Add(b, p, n, d, y) = [b EXCEPT ![k] = f]
  BY AlikeLists DEF Add
<1> HIDE DEF e, f, k
<1>3. \A i \in Ids : /\ [a EXCEPT ![k] = e][i] = IF i = k THEN e ELSE a[i]
                     /\ [b EXCEPT ![k] = f][i] = IF i = k THEN f ELSE b[i]
  BY DEF Alike
<1> QED
  BY <1>1, <1>2, <1>3 DEF Alike

\* An entry is made active or not
LEMMA AlikeActive ==
    ASSUME NEW a, DOMAIN a = Ids, \A i \in Ids : Shaped(a[i]), NEW S, \A i \in S : a[i].name # Null,
           NEW x
    PROVE  Alike(a, [i \in Ids |-> IF i \in S THEN [a[i] EXCEPT !.active = x] ELSE a[i]])
<1> DEFINE b == [i \in Ids |-> IF i \in S THEN [a[i] EXCEPT !.active = x] ELSE a[i]]
<1>1. ASSUME NEW e, Shaped(e)
      PROVE  LET f == [e EXCEPT !.active = x]
             IN  /\ f = [parent |-> e.parent, name |-> e.name, dep |-> e.dep, active |-> x]
                 /\ Shaped(f) /\ f.parent = e.parent /\ f.dep = e.dep /\ f.name = e.name
  BY <1>1 DEF Shaped
<1>2. DOMAIN b = Ids /\ \A i \in Ids : b[i] = IF i \in S THEN [a[i] EXCEPT !.active = x] ELSE a[i]
  OBVIOUS
<1> HIDE DEF b
<1>3. ASSUME NEW i \in Ids
      PROVE  /\ Shaped(b[i]) /\ a[i].parent = b[i].parent /\ a[i].dep = b[i].dep
             /\ a[i].name = b[i].name /\ (a[i].name = Null => a[i] = b[i])
  <2>1. CASE i \in S
    <3> DEFINE e == a[i]
               f == [e EXCEPT !.active = x]
    <3>1. Shaped(e) /\ e.name # Null /\ b[i] = f
      BY <1>2, <2>1
    <3> HIDE DEF e
    <3>2. Shaped(f) /\ f.parent = e.parent /\ f.dep = e.dep /\ f.name = e.name
      BY <1>1, <3>1
    <3> HIDE DEF f
    <3> QED
      BY <3>1, <3>2 DEF e
  <2>2. CASE i \notin S
    BY <1>2, <2>2
  <2> QED
    BY <2>1, <2>2
<1> QED
  BY <1>2, <1>3 DEF Alike, b

LEMMA AlikeCategory ==
    ASSUME NEW a, NEW b, Alike(a, b), NEW r \in Row, NEW k
    PROVE  Alike(WithCategory(a, k, r), WithCategory(b, k, r))
<1> DEFINE n == IF r.cat = Null THEN r.name ELSE r.cat
           leaf == Find(a, k, r.dep, n)
           A == [i \in Ids |-> IF i \in leaf THEN [a[i] EXCEPT !.active = r.active] ELSE a[i]]
           B == [i \in Ids |-> IF i \in leaf THEN [b[i] EXCEPT !.active = r.active] ELSE b[i]]
<1>1. n # Null
  BY CatalogAssumption DEF Row
<1>2. leaf = Find(b, k, r.dep, n) /\ Kids(a, k) = Kids(b, k)
  BY AlikeLists
<1>3. \A i \in leaf : a[i].name # Null /\ b[i].name # Null
  BY <1>1, <1>2 DEF Find
<1> HIDE DEF n, leaf
<1>4. Alike(A, B)
  <2>1. Alike(a, A)
    <3>1. DOMAIN a = Ids
      BY DEF Alike
    <3>2. \A i \in Ids : Shaped(a[i])
      BY DEF Alike
    <3>3. \A i \in leaf : a[i].name # Null
      BY <1>3
    <3> QED
      BY <3>1, <3>2, <3>3, AlikeActive
  <2>2. Alike(b, B)
    <3>1. DOMAIN b = Ids
      BY DEF Alike
    <3>2. \A i \in Ids : Shaped(b[i])
      BY DEF Alike
    <3>3. \A i \in leaf : b[i].name # Null
      BY <1>3
    <3> QED
      BY <3>1, <3>2, <3>3, AlikeActive
  <2> HIDE DEF A, B
  <2>3. Alike(A, a) /\ Alike(A, b)
    BY <2>1, AlikeBack, AlikeOn
  <2> QED
    BY <2>2, <2>3, AlikeOn
<1>5. Alike(Add(a, k, n, r.dep, r.active), Add(b, k, n, r.dep, r.active))
  BY <1>1, AlikeAdd
<1>6. WithCategory(a, k, r) = IF r.cat = Null /\ Kids(a, k) # {} THEN a
                              ELSE IF leaf = {} THEN Add(a, k, n, r.dep, r.active) ELSE A
  BY DEF WithCategory, leaf, n
<1>7. WithCategory(b, k, r) = IF r.cat = Null /\ Kids(a, k) # {} THEN b
                              ELSE IF leaf = {} THEN Add(b, k, n, r.dep, r.active) ELSE B
  BY <1>2 DEF WithCategory, n
<1> HIDE DEF A, B
<1> QED
  BY <1>4, <1>5, <1>6, <1>7

LEMMA AlikePlanned ==
    ASSUME NEW a, NEW b, Alike(a, b), NEW r \in Row
    PROVE  Alike(Planned(a, r), Planned(b, r))
<1>1. r.name # Null
  BY CatalogAssumption DEF Row
<1>2. Alike(WithArticle(a, r), WithArticle(b, r))
  <2>1. Find(a, Null, r.dep, r.name) = Find(b, Null, r.dep, r.name)
    BY AlikeLists
  <2>2. Alike(Add(a, Null, r.name, r.dep, TRUE), Add(b, Null, r.name, r.dep, TRUE))
    BY <1>1, AlikeAdd
  <2> QED
    BY <2>1, <2>2 DEF WithArticle
<1>3. ArticleOf(WithArticle(a, r), r) = ArticleOf(WithArticle(b, r), r)
  BY <1>2, AlikeLists DEF ArticleOf
<1> QED
  BY <1>2, <1>3, AlikeCategory DEF Planned

(***************************************************************************)
(* The import, row by row.                                                 *)
(***************************************************************************)

Run(u, its, rows) == u[0] = its /\ \A n \in 1 .. Len(rows) : u[n] = Planned(u[n - 1], rows[n])

LEMMA RunIsThere ==
    ASSUME NEW its, NEW rows, NEW L \in Nat
    PROVE  \E u : u = [n \in 0 .. L |-> IF n = 0 THEN its ELSE Planned(u[n - 1], rows[n])]
<1> DEFINE Is(u, m) == u = [n \in 0 .. m |-> IF n = 0 THEN its ELSE Planned(u[n - 1], rows[n])]
           S == {m \in Nat : \E u : Is(u, m)}
<1>1. 0 \in S
  <2> DEFINE u == [n \in 0 .. 0 |-> its]
  <2>1. Is(u, 0)
    OBVIOUS
  <2> QED
    BY <2>1
<1>2. ASSUME NEW m \in Nat, m \in S
      PROVE  m + 1 \in S
  <2>1. PICK u : Is(u, m)
    BY <1>2
  <2> DEFINE h == [n \in 0 .. m + 1 |-> IF n = m + 1 THEN Planned(u[m], rows[m + 1]) ELSE u[n]]
  <2>2. \A n \in 0 .. m : h[n] = u[n]
    BY <1>2
  <2>3. \A n \in 0 .. m : h[n] = IF n = 0 THEN its ELSE Planned(h[n - 1], rows[n])
    <3>1. \A n \in 0 .. m : u[n] = IF n = 0 THEN its ELSE Planned(u[n - 1], rows[n])
      BY <2>1
    <3>2. \A n \in 0 .. m : n # 0 => n - 1 \in 0 .. m
      BY <1>2
    <3> HIDE DEF h
    <3> QED
      BY <2>2, <3>1, <3>2
  <2>4. h[m + 1] = Planned(h[m], rows[m + 1])
    BY <1>2, <2>2
  <2>5. h = [n \in 0 .. m + 1 |-> h[n]]
    OBVIOUS
  <2>6. \A n \in 0 .. m + 1 : h[n] = IF n = 0 THEN its ELSE Planned(h[n - 1], rows[n])
    <3> HIDE DEF h
    <3>1. ASSUME NEW n \in 0 .. m + 1
          PROVE  n \in 0 .. m \/ (n = m + 1 /\ n # 0 /\ n - 1 = m)
      BY <1>2
    <3> QED
      BY <2>3, <2>4, <3>1
  <2>7. Is(h, m + 1)
    <3> HIDE DEF h
    <3> QED
      BY <2>5, <2>6
  <2> HIDE DEF h, Is
  <2> QED
    BY <1>2, <2>7
<1> HIDE DEF Is
<1>3. Nat \subseteq S
  <2> HIDE DEF S
  <2> QED
    BY <1>1, <1>2, CountUp
<1> QED
  BY <1>3 DEF Is

LEMMA ImportRun ==
    ASSUME NEW its, NEW rows \in Seq(Row)
    PROVE  \E u : Run(u, its, rows) /\ Imported(its, rows) = u[Len(rows)]
<1> DEFINE u == CHOOSE u : u = [n \in 0 .. Len(rows) |->
                                  IF n = 0 THEN its ELSE Planned(u[n - 1], rows[n])]
<1>0. Len(rows) \in Nat
  OBVIOUS
<1>1. u = [n \in 0 .. Len(rows) |-> IF n = 0 THEN its ELSE Planned(u[n - 1], rows[n])]
  BY <1>0, RunIsThere
<1>2. Imported(its, rows) = u[Len(rows)]
  BY DEF Imported
<1> HIDE DEF u
<1>3. Run(u, its, rows)
  BY <1>0, <1>1 DEF Run
<1> QED
  BY <1>2, <1>3

LEMMA ImportNone ==
    ASSUME NEW its
    PROVE  Imported(its, <<>>) = its
<1>1. <<>> \in Seq(Row) /\ Len(<<>>) = 0
  OBVIOUS
<1>2. PICK u : Run(u, its, <<>>) /\ Imported(its, <<>>) = u[Len(<<>>)]
  BY <1>1, ImportRun
<1> QED
  BY <1>1, <1>2 DEF Run

\* The first row, and then the others
LEMMA ImportOnce ==
    ASSUME NEW its, NEW rows \in Seq(Row), rows # <<>>
    PROVE  Imported(its, rows) = Imported(Planned(its, Head(rows)), Tail(rows))
<1> DEFINE rest == Tail(rows)
           with == Planned(its, Head(rows))
<1>1. /\ rest \in Seq(Row) /\ Len(rows) \in Nat /\ Len(rest) \in Nat /\ Len(rows) = Len(rest) + 1
      /\ Head(rows) = rows[1]
  OBVIOUS
<1>2. \A n \in 1 .. Len(rest) : rest[n] = rows[n + 1]
  OBVIOUS
<1>3. PICK u : Run(u, its, rows) /\ Imported(its, rows) = u[Len(rows)]
  BY ImportRun
<1>4. PICK v : Run(v, with, rest) /\ Imported(with, rest) = v[Len(rest)]
  BY <1>1, ImportRun
<1> HIDE DEF rest
<1> DEFINE S == {n \in Nat : n <= Len(rest) => v[n] = u[n + 1]}
<1>5. 0 \in S
  <2>1. 1 \in 1 .. Len(rows) /\ 1 - 1 = 0 /\ 0 + 1 = 1
    BY <1>1
  <2>2. u[1] = Planned(u[0], rows[1])
    BY <1>3, <2>1 DEF Run
  <2> QED
    BY <1>1, <1>3, <1>4, <2>1, <2>2 DEF Run
<1>6. ASSUME NEW n \in Nat, n \in S PROVE n + 1 \in S
  <2> SUFFICES ASSUME n + 1 <= Len(rest) PROVE v[n + 1] = u[(n + 1) + 1]
    BY <1>6
  <2>1. /\ n + 1 \in 1 .. Len(rest) /\ (n + 1) + 1 \in 1 .. Len(rows)
        /\ (n + 1) - 1 = n /\ ((n + 1) + 1) - 1 = n + 1 /\ v[n] = u[n + 1]
    BY <1>1, <1>6
  <2>2. v[n + 1] = Planned(v[n], rest[n + 1])
    BY <1>4, <2>1 DEF Run
  <2>3. u[(n + 1) + 1] = Planned(u[n + 1], rows[(n + 1) + 1])
    BY <1>3, <2>1 DEF Run
  <2> QED
    BY <1>2, <2>1, <2>2, <2>3
<1>7. Nat \subseteq S
  <2> HIDE DEF S
  <2> QED
    BY <1>5, <1>6, CountUp
<1>8. v[Len(rest)] = u[Len(rest) + 1]
  BY <1>1, <1>7
<1> QED
  BY <1>1, <1>3, <1>4, <1>8 DEF rest

\* Lists that are alike are so after the same rows
LEMMA AlikeImported ==
    ASSUME NEW a, NEW b, Alike(a, b), NEW rows \in Seq(Row)
    PROVE  Alike(Imported(a, rows), Imported(b, rows))
<1>1. PICK u : Run(u, a, rows) /\ Imported(a, rows) = u[Len(rows)]
  BY ImportRun
<1>2. PICK v : Run(v, b, rows) /\ Imported(b, rows) = v[Len(rows)]
  BY ImportRun
<1>3. Len(rows) \in Nat /\ \A n \in 1 .. Len(rows) : rows[n] \in Row
  OBVIOUS
<1> DEFINE S == {n \in Nat : n <= Len(rows) => Alike(u[n], v[n])}
<1>5. 0 \in S
  BY <1>1, <1>2 DEF Run
<1>6. ASSUME NEW n \in Nat, n \in S PROVE n + 1 \in S
  <2> SUFFICES ASSUME n + 1 <= Len(rows) PROVE Alike(u[n + 1], v[n + 1])
    BY <1>6
  <2>1. n + 1 \in 1 .. Len(rows) /\ (n + 1) - 1 = n /\ Alike(u[n], v[n]) /\ rows[n + 1] \in Row
    BY <1>3, <1>6
  <2>2. u[n + 1] = Planned(u[n], rows[n + 1]) /\ v[n + 1] = Planned(v[n], rows[n + 1])
    BY <1>1, <1>2, <2>1 DEF Run
  <2> QED
    BY <2>1, <2>2, AlikePlanned
<1>7. Nat \subseteq S
  <2> HIDE DEF S
  <2> QED
    BY <1>5, <1>6, CountUp
<1> QED
  BY <1>1, <1>2, <1>3, <1>7

(***************************************************************************)
(* The lists stay as the server keeps them.                                *)
(***************************************************************************)

LEMMA LiveIs ==
    ASSUME NEW its \in [Ids -> Any]
    PROVE  /\ \A i \in Live(its) : i \in Ids /\ its[i] \in Entry /\ its[i].name \in Names
           /\ \A i \in Ids : i \notin Live(its) => its[i] = Fresh \/ its[i] = Gone
           /\ \A i \in Ids : its[i] = Fresh \/ its[i] = Gone => i \notin Live(its)
           /\ Free(its) \subseteq Ids /\ IsFiniteSet(Free(its)) /\ Cardinality(Free(its)) \in Nat
<1>1. \A i \in Ids : its[i] \in Any
  OBVIOUS
<1>2. \A e \in Entry : e.name \in Names
  BY DEF Entry
<1>3. Free(its) \subseteq Ids
  BY DEF Free
<1>4. IsFiniteSet(Free(its)) /\ Cardinality(Free(its)) \in Nat
  BY <1>3, CatalogAssumption, FS_Subset, FS_CardinalityType
<1>5. \A i \in Ids : /\ its[i].name # Null => its[i] \in Entry
                     /\ its[i].name = Null => its[i] = Fresh \/ its[i] = Gone
  BY <1>1, Kinds
<1>6. Fresh.name = Null /\ Gone.name = Null
  BY DEF Fresh, Gone
<1> QED
  BY <1>2, <1>3, <1>4, <1>5, <1>6 DEF Live

LEMMA AlikeTree ==
    ASSUME NEW a, NEW b \in [Ids -> Any], Tree(a), Unique(a), Alike(a, b)
    PROVE  Tree(b) /\ Unique(b) /\ Grown(a, b) /\ Free(b) = Free(a) /\ Live(b) = Live(a)
<1>1. Free(b) = Free(a) /\ Live(b) = Live(a)
  BY AlikeLists
<1>2. \A i \in Live(a) : i \in Ids
  BY DEF Live
<1>3. Tree(b)
  BY <1>1, <1>2 DEF Tree, Alike, Any
<1>4. Unique(b)
  BY <1>1, <1>2 DEF Unique, Alike
<1>5. Grown(a, b)
  <2>1. Gone.name = Null
    BY DEF Gone
  <2> QED
    BY <1>1, <2>1 DEF Grown, Alike
<1> QED
  BY <1>1, <1>3, <1>4, <1>5

LEMMA GrownOn ==
    ASSUME NEW a, NEW b, NEW c, Grown(a, b), Grown(b, c)
    PROVE  Grown(a, c)
<1>1. \A i \in Live(a) : i \in Ids
  BY DEF Live
<1> QED
  BY <1>1 DEF Grown

LEMMA OneFound ==
    ASSUME NEW its, Unique(its), NEW p, NEW d, NEW n, n # Null, NEW a \in Find(its, p, d, n)
    PROVE  Find(its, p, d, n) = {a}
<1>1. \A i \in Find(its, p, d, n) : i \in Live(its)
  BY DEF Find, Live
<1> QED
  BY <1>1 DEF Find, Unique

\* An entry can be added, and b is the list with it
MayAdd(its, p, n, d) ==
    /\ Tree(its) /\ Unique(its) /\ Free(its) # {}
    /\ p \in Ids \cup {Null} /\ n \in Names /\ d \in Departments
    /\ p # Null => p \in Live(its) /\ its[p].parent = Null /\ its[p].dep = d
    /\ Find(its, p, d, n) = {}

HasAdded(its, p, n, d, x, b) ==
    /\ Tree(b) /\ Unique(b) /\ Grown(its, b)
    /\ Cardinality(Free(b)) = Cardinality(Free(its)) - 1
    /\ New(its) \in Live(b) /\ New(its) \in Ids /\ its[New(its)] = Fresh
    /\ \A i \in Ids \ {New(its)} : b[i] = its[i]
    /\ b[New(its)] = [parent |-> p, name |-> n, dep |-> d, active |-> x]
    /\ Find(b, p, d, n) = {New(its)} /\ Kids(b, New(its)) = {}

LEMMA Added ==
    ASSUME NEW its, NEW p, NEW n, NEW d, NEW x \in BOOLEAN, MayAdd(its, p, n, d)
    PROVE  HasAdded(its, p, n, d, x, Add(its, p, n, d, x))
<1> USE DEF MayAdd
<1> DEFINE e == [parent |-> p, name |-> n, dep |-> d, active |-> x]
           k == New(its)
           b == Add(its, p, n, d, x)
<1>1. its \in [Ids -> Any] /\ n # Null
  BY CatalogAssumption DEF Tree, Any
<1>2. e \in Entry /\ e.parent = p /\ e.name = n /\ e.dep = d /\ e \in Any
  BY DEF Entry, Any
<1>3. k \in Free(its)
  BY DEF New
<1>4. k \in Ids /\ its[k] = Fresh /\ k \notin Live(its)
  BY <1>1, <1>3, LiveIs DEF Free
<1>5. b = [its EXCEPT ![k] = e]
  BY DEF Add
<1> HIDE DEF b, e, k
<1>6. b \in [Ids -> Any] /\ \A i \in Ids : b[i] = IF i = k THEN e ELSE its[i]
  BY <1>1, <1>2, <1>4, <1>5
<1>7. Live(b) = Live(its) \cup {k} /\ \A i \in Live(its) : i \in Ids /\ i # k /\ b[i] = its[i]
  BY <1>1, <1>2, <1>4, <1>6 DEF Live
<1>8. e # Fresh
  <2>1. Fresh.name = Null
    BY DEF Fresh
  <2> QED
    BY <1>1, <1>2, <2>1
<1>9. Free(b) = Free(its) \ {k}
  BY <1>4, <1>6, <1>8 DEF Free
<1>10. Cardinality(Free(b)) = Cardinality(Free(its)) - 1
  <2>1. IsFiniteSet(Free(its))
    BY <1>1, LiveIs
  <2> QED
    BY <1>3, <1>9, <2>1, FS_RemoveElement
<1>11. \A i \in Live(its) : its[i].parent # k
  <2>1. k # Null
    BY <1>4, CatalogAssumption
  <2>2. \A i \in Live(its) : its[i].parent # Null => its[i].parent \in Live(its)
    BY DEF Tree
  <2> QED
    BY <1>4, <2>1, <2>2
<1>12. Tree(b)
  <2> SUFFICES ASSUME NEW i \in Live(b), b[i].parent # Null
               PROVE  /\ b[i].parent \in Live(b) /\ b[b[i].parent].parent = Null
                      /\ b[b[i].parent].dep = b[i].dep
    BY <1>6 DEF Tree, Any
  <2>1. CASE i = k
    <3>1. b[i] = e /\ p # Null /\ p \in Live(its) /\ its[p].parent = Null /\ its[p].dep = d
      BY <1>2, <1>4, <1>6, <2>1
    <3> QED
      BY <1>2, <1>7, <3>1
  <2>2. CASE i # k
    <3>1. i \in Live(its) /\ b[i] = its[i]
      BY <1>7, <2>2
    <3>2. b[i].parent \in Live(its) /\ its[b[i].parent].parent = Null /\ its[b[i].parent].dep = b[i].dep
      BY <3>1 DEF Tree
    <3> QED
      BY <1>7, <3>2
  <2> QED
    BY <2>1, <2>2
<1>13. Unique(b)
  <2>1. \A i \in Live(its) : ~ (its[i].parent = p /\ its[i].dep = d /\ its[i].name = n)
    BY <1>7 DEF Find
  <2>2. b[k] = e
    BY <1>4, <1>6
  <2> QED
    BY <1>2, <1>7, <2>1, <2>2 DEF Unique
<1>14. Grown(its, b)
  <2>1. Fresh # Gone
    BY <1>2, Kinds
  <2> QED
    BY <1>4, <1>6, <1>7, <2>1 DEF Grown
<1>15. Find(b, p, d, n) = {k}
  BY <1>2, <1>4, <1>6 DEF Find
<1>16. Kids(b, k) = {}
  <2>1. \A i \in Ids : its[i].parent # k
    <3>1. \A i \in Ids : i \notin Live(its) => its[i].parent = Null
      BY <1>1, LiveIs DEF Fresh, Gone
    <3>2. k # Null
      BY <1>4, CatalogAssumption
    <3> QED
      BY <1>11, <3>1, <3>2
  <2>2. p # k
    BY <1>4, CatalogAssumption
  <2> QED
    BY <1>2, <1>6, <2>1, <2>2 DEF Kids
<1> QED
  BY <1>4, <1>6, <1>7, <1>10, <1>12, <1>13, <1>14, <1>15, <1>16 DEF HasAdded, b, e, k

\* The article of a row: there, or new
LEMMA ArticleThere ==
    ASSUME NEW its, Tree(its), Unique(its), NEW r \in Row, Cardinality(Free(its)) >= 1
    PROVE  /\ Tree(WithArticle(its, r)) /\ Unique(WithArticle(its, r)) /\ Grown(its, WithArticle(its, r))
           /\ Cardinality(Free(WithArticle(its, r))) >= Cardinality(Free(its)) - 1
           /\ Find(WithArticle(its, r), Null, r.dep, r.name) = {ArticleOf(WithArticle(its, r), r)}
           /\ ArticleOf(WithArticle(its, r), r) \in Live(WithArticle(its, r))
<1> DEFINE b == WithArticle(its, r)
           F == Find(b, Null, r.dep, r.name)
<1>1. r.name \in Names /\ r.dep \in Departments /\ r.name # Null
  BY CatalogAssumption DEF Row
<1>2. its \in [Ids -> Any] /\ Cardinality(Free(its)) \in Nat
  BY LiveIs DEF Tree, Any
<1>3. Free(its) # {}
  BY FS_EmptySet
<1>4. /\ Tree(b) /\ Unique(b) /\ Grown(its, b) /\ F # {}
      /\ Cardinality(Free(b)) >= Cardinality(Free(its)) - 1
  <2>1. CASE Find(its, Null, r.dep, r.name) = {}
    <3>1. b = Add(its, Null, r.name, r.dep, TRUE)
      BY <2>1 DEF WithArticle
    <3>2. /\ Tree(b) /\ Unique(b) /\ Grown(its, b) /\ F = {New(its)}
          /\ Cardinality(Free(b)) = Cardinality(Free(its)) - 1
      <4>1. MayAdd(its, Null, r.name, r.dep)
        BY <1>1, <1>3, <2>1 DEF MayAdd
      <4>2. HasAdded(its, Null, r.name, r.dep, TRUE, Add(its, Null, r.name, r.dep, TRUE))
        BY <4>1, Added
      <4> QED
        BY <3>1, <4>2 DEF HasAdded
    <3> QED
      BY <1>2, <3>2
  <2>2. CASE Find(its, Null, r.dep, r.name) # {}
    <3>1. b = its
      BY <2>2 DEF WithArticle
    <3>2. Grown(its, its)
      BY DEF Grown
    <3> QED
      BY <1>2, <2>2, <3>1, <3>2
  <2> QED
    BY <2>1, <2>2
<1> HIDE DEF b
<1>5. ArticleOf(b, r) \in F
  BY <1>4 DEF ArticleOf
<1>6. F = {ArticleOf(b, r)}
  BY <1>1, <1>4, <1>5, OneFound
<1>7. ArticleOf(b, r) \in Live(b)
  BY <1>1, <1>5 DEF Find, Live
<1> QED
  BY <1>4, <1>6, <1>7 DEF b

\* The category of a row, in its article
LEMMA CategoryThere ==
    ASSUME NEW its, Tree(its), Unique(its), NEW r \in Row, Cardinality(Free(its)) >= 1,
           NEW a \in Live(its), its[a].parent = Null, its[a].dep = r.dep
    PROVE  /\ Tree(WithCategory(its, a, r)) /\ Unique(WithCategory(its, a, r))
           /\ Grown(its, WithCategory(its, a, r))
           /\ Cardinality(Free(WithCategory(its, a, r))) >= Cardinality(Free(its)) - 1
<1> DEFINE n == IF r.cat = Null THEN r.name ELSE r.cat
           leaf == Find(its, a, r.dep, n)
           told == [i \in Ids |-> IF i \in leaf THEN [its[i] EXCEPT !.active = r.active] ELSE its[i]]
           b == WithCategory(its, a, r)
<1>1. n \in Names /\ r.dep \in Departments /\ r.active \in BOOLEAN /\ n # Null
  BY CatalogAssumption DEF Row
<1>2. its \in [Ids -> Any] /\ Cardinality(Free(its)) \in Nat /\ a \in Ids
  BY LiveIs DEF Tree, Any
<1>3. Free(its) # {}
  BY FS_EmptySet
<1>4. b = IF r.cat = Null /\ Kids(its, a) # {} THEN its
          ELSE IF leaf = {} THEN Add(its, a, n, r.dep, r.active) ELSE told
  BY DEF WithCategory
<1>5. CASE b = its
  <2>1. Grown(its, its)
    BY DEF Grown
  <2> QED
    BY <1>2, <1>5, <2>1
<1>6. CASE leaf = {} /\ b = Add(its, a, n, r.dep, r.active)
  <2> HIDE DEF n, b
  <2>1. /\ Tree(b) /\ Unique(b) /\ Grown(its, b)
        /\ Cardinality(Free(b)) = Cardinality(Free(its)) - 1
    <3>1. MayAdd(its, a, n, r.dep)
      BY <1>1, <1>2, <1>3, <1>6 DEF MayAdd, n
    <3>2. HasAdded(its, a, n, r.dep, r.active, Add(its, a, n, r.dep, r.active))
      BY <1>1, <3>1, Added
    <3> QED
      BY <1>6, <3>2 DEF HasAdded
  <2> QED
    BY <1>2, <2>1 DEF b
<1>7. CASE b = told
  <2>1. \A i \in leaf : i \in Ids /\ its[i].name # Null
    BY <1>1 DEF Find
  <2>2. \A i \in leaf : its[i] \in Entry
    BY <1>2, <2>1, LiveIs DEF Live
  <2> HIDE DEF leaf
  <2>3. Alike(its, told)
    <3>1. DOMAIN its = Ids
      BY <1>2
    <3>2. \A i \in Ids : Shaped(its[i])
      BY <1>2, Kinds
    <3>3. \A i \in leaf : its[i].name # Null
      BY <2>1
    <3> QED
      BY <3>1, <3>2, <3>3, AlikeActive
  <2>4. told \in [Ids -> Any]
    <3>1. \A e \in Entry : [e EXCEPT !.active = r.active] \in Entry
      BY <1>1 DEF Entry
    <3>2. \A i \in Ids : told[i] \in Any
      BY <1>2, <2>2, <3>1 DEF Any
    <3> QED
      BY <3>2
  <2> HIDE DEF told
  <2>5. Tree(told) /\ Unique(told) /\ Grown(its, told) /\ Free(told) = Free(its)
    BY <2>3, <2>4, AlikeTree
  <2> QED
    BY <1>2, <1>7, <2>5
<1> QED
  BY <1>4, <1>5, <1>6, <1>7

LEMMA PlannedTree ==
    ASSUME NEW its, Tree(its), Unique(its), NEW r \in Row, NEW m \in Nat, Room(its, m + 1)
    PROVE  /\ Tree(Planned(its, r)) /\ Unique(Planned(its, r)) /\ Grown(its, Planned(its, r))
           /\ Room(Planned(its, r), m)
<1> DEFINE with == WithArticle(its, r)
           a == ArticleOf(with, r)
<1>1. Cardinality(Free(its)) >= 2 * (m + 1) /\ Cardinality(Free(its)) \in Nat
  BY LiveIs DEF Room, Tree, Any
<1>2. Cardinality(Free(its)) >= 1
  BY <1>1
<1>3. /\ Tree(with) /\ Unique(with) /\ Grown(its, with)
      /\ Cardinality(Free(with)) >= Cardinality(Free(its)) - 1
      /\ Find(with, Null, r.dep, r.name) = {a} /\ a \in Live(with)
  BY <1>2, ArticleThere
<1> HIDE DEF with, a
<1>4. Cardinality(Free(with)) \in Nat
  BY <1>3, LiveIs DEF Tree, Any
<1>5. Cardinality(Free(with)) >= 1 /\ Cardinality(Free(with)) >= 2 * m + 1
  BY <1>1, <1>3, <1>4
<1>6. with[a].parent = Null /\ with[a].dep = r.dep
  BY <1>3 DEF Find
<1>7. Planned(its, r) = WithCategory(with, a, r)
  BY DEF Planned, with, a
<1>8. /\ Tree(Planned(its, r)) /\ Unique(Planned(its, r)) /\ Grown(with, Planned(its, r))
      /\ Cardinality(Free(Planned(its, r))) >= Cardinality(Free(with)) - 1
  BY <1>3, <1>5, <1>6, <1>7, CategoryThere
<1>9. Cardinality(Free(Planned(its, r))) \in Nat
  BY <1>8, LiveIs DEF Tree, Any
<1>10. Room(Planned(its, r), m)
  BY <1>4, <1>5, <1>8, <1>9 DEF Room
<1> QED
  BY <1>3, <1>8, <1>10, GrownOn

LEMMA ImportedTree ==
    ASSUME NEW its, Tree(its), Unique(its), NEW rows \in Seq(Row), Room(its, Len(rows))
    PROVE  /\ Tree(Imported(its, rows)) /\ Unique(Imported(its, rows))
           /\ Grown(its, Imported(its, rows))
<1>1. PICK u : Run(u, its, rows) /\ Imported(its, rows) = u[Len(rows)]
  BY ImportRun
<1>3. Len(rows) \in Nat /\ \A n \in 1 .. Len(rows) : rows[n] \in Row
  OBVIOUS
<1> DEFINE Good(n) == Tree(u[n]) /\ Unique(u[n]) /\ Grown(its, u[n]) /\ Room(u[n], Len(rows) - n)
           S == {n \in Nat : n <= Len(rows) => Good(n)}
<1>5. 0 \in S
  <2>1. u[0] = its /\ Len(rows) - 0 = Len(rows)
    BY <1>1, <1>3 DEF Run
  <2>2. Grown(its, its)
    BY DEF Grown
  <2> QED
    BY <2>1, <2>2
<1>6. ASSUME NEW n \in Nat, n \in S PROVE n + 1 \in S
  <2> SUFFICES ASSUME n + 1 <= Len(rows) PROVE Good(n + 1)
    BY <1>6
  <2>1. n + 1 \in 1 .. Len(rows) /\ (n + 1) - 1 = n /\ Good(n) /\ rows[n + 1] \in Row
    BY <1>3, <1>6
  <2>2. u[n + 1] = Planned(u[n], rows[n + 1])
    BY <1>1, <2>1 DEF Run
  <2> DEFINE m == Len(rows) - (n + 1)
  <2>3. m \in Nat /\ m + 1 = Len(rows) - n
    BY <1>3
  <2> HIDE DEF m
  <2>4. Tree(u[n]) /\ Unique(u[n]) /\ Grown(its, u[n]) /\ Room(u[n], m + 1)
    BY <2>1, <2>3
  <2>5. /\ Tree(u[n + 1]) /\ Unique(u[n + 1]) /\ Grown(u[n], u[n + 1]) /\ Room(u[n + 1], m)
    BY <2>1, <2>2, <2>3, <2>4, PlannedTree
  <2>6. Grown(its, u[n + 1])
    BY <2>4, <2>5, GrownOn
  <2> QED
    BY <2>5, <2>6 DEF m
<1>7. Nat \subseteq S
  <2> HIDE DEF S
  <2> QED
    BY <1>5, <1>6, CountUp
<1>8. Good(Len(rows))
  BY <1>3, <1>7
<1> QED
  BY <1>1, <1>8

LEMMA SaidAlike ==
    ASSUME NEW a, NEW b, Tree(a), Alike(a, b)
    PROVE  Said(a) = Said(b)
<1> DEFINE S(its, i) == [dep |-> its[i].dep, name |-> its[i].name,
                         of |-> IF its[i].parent = Null THEN Null ELSE its[its[i].parent].name]
<1>1. Live(a) = Live(b)
  BY AlikeLists
<1>2. \A i \in Live(a) : i \in Ids /\ (a[i].parent # Null => a[i].parent \in Ids)
  BY DEF Live, Tree
<1>3. \A i \in Live(a) : S(a, i) = S(b, i)
  BY <1>2 DEF Alike
<1>4. Said(a) = {S(a, i) : i \in Live(a)} /\ Said(b) = {S(b, i) : i \in Live(b)}
  BY DEF Said
<1> HIDE DEF S
<1> QED
  BY <1>1, <1>3, <1>4

(***************************************************************************)
(* The rows of the dialog against the plan.                                *)
(***************************************************************************)

LEMMA PlannedIn ==
    ASSUME NEW its, Tree(its), Unique(its), NEW r \in Row, NEW a \in Find(its, Null, r.dep, r.name)
    PROVE  Planned(its, r) = WithCategory(its, a, r)
<1>1. r.name # Null
  BY CatalogAssumption DEF Row
<1>2. Find(its, Null, r.dep, r.name) = {a}
  BY <1>1, OneFound
<1>3. WithArticle(its, r) = its
  BY <1>2 DEF WithArticle
<1>4. ArticleOf(its, r) = a
  BY <1>2 DEF ArticleOf
<1> QED
  BY <1>3, <1>4 DEF Planned

LEMMA LeafIsKid ==
    ASSUME NEW its, NEW a, Kids(its, a) = {}
    PROVE  \A dep, n : Find(its, a, dep, n) = {}
BY DEF Find, Kids

LEMMA DefaultThere ==
    ASSUME NEW its, Tree(its), Unique(its), Free(its) # {}, NEW a \in Live(its), its[a].parent = Null
    PROVE  /\ Tree(WithDefault(its, a)) /\ Unique(WithDefault(its, a)) /\ Grown(its, WithDefault(its, a))
           /\ Kids(its, a) = {} =>
                HasAdded(its, a, its[a].name, its[a].dep, its[a].active, WithDefault(its, a))
<1> DEFINE e == its[a]
<1>1. its \in [Ids -> Any]
  BY DEF Tree, Any
<1>2. a \in Ids /\ e \in Entry
  BY <1>1, LiveIs
<1>3. e.name \in Names /\ e.dep \in Departments /\ e.active \in BOOLEAN /\ e.parent = Null
  BY <1>2 DEF Entry
<1> HIDE DEF e
<1>4. CASE Kids(its, a) = {}
  <2>1. MayAdd(its, a, e.name, e.dep)
    <3>1. its[a].parent = Null /\ its[a].dep = e.dep
      BY DEF e
    <3>2. Find(its, a, e.dep, e.name) = {}
      BY <1>4, LeafIsKid
    <3> QED
      BY <1>2, <1>3, <3>1, <3>2 DEF MayAdd
  <2>2. HasAdded(its, a, e.name, e.dep, e.active, Add(its, a, e.name, e.dep, e.active))
    BY <1>3, <2>1, Added
  <2>3. WithDefault(its, a) = Add(its, a, e.name, e.dep, e.active)
    BY <1>4 DEF WithDefault, e
  <2>4. HasAdded(its, a, e.name, e.dep, e.active, WithDefault(its, a))
    BY <2>2, <2>3
  <2> QED
    BY <2>4 DEF HasAdded, e
<1>5. CASE Kids(its, a) # {}
  <2>1. WithDefault(its, a) = its
    BY <1>5 DEF WithDefault
  <2>2. Grown(its, its)
    BY DEF Grown
  <2> QED
    BY <1>5, <2>1, <2>2
<1> QED
  BY <1>4, <1>5

\* An article without category is planned with the one of its name
LEMMA DefaultPlanned ==
    ASSUME NEW its, Tree(its), Unique(its), NEW r \in Row, r.cat = Null,
           NEW a \in Find(its, Null, r.dep, r.name)
    PROVE  Alike(Planned(its, r), WithDefault(its, a))
<1>1. its \in [Ids -> Any] /\ r.name # Null
  BY CatalogAssumption DEF Tree, Any, Row
<1>2. its[a].name = r.name /\ its[a].dep = r.dep
  BY DEF Find
<1>3. Alike(its, its)
  BY <1>1, AlikeSame
<1>4. Planned(its, r) = WithCategory(its, a, r)
  BY PlannedIn
<1>5. CASE Kids(its, a) # {}
  BY <1>3, <1>4, <1>5 DEF WithCategory, WithDefault
<1>6. CASE Kids(its, a) = {}
  <2>1. Find(its, a, r.dep, r.name) = {}
    BY <1>6, LeafIsKid
  <2>2. WithCategory(its, a, r) = Add(its, a, r.name, r.dep, r.active)
    BY <1>6, <2>1 DEF WithCategory
  <2>3. WithDefault(its, a) = Add(its, a, r.name, r.dep, its[a].active)
    BY <1>2, <1>6 DEF WithDefault
  <2> QED
    BY <1>1, <1>3, <1>4, <2>2, <2>3, AlikeAdd
<1> QED
  BY <1>5, <1>6

\* A new article, and its category if the row names none: what is left to do for the row
\* is what the plan had left
LEMMA ArticlePlanned ==
    ASSUME NEW its, Tree(its), Unique(its), NEW r \in Row, Room(its, 1),
           Find(its, Null, r.dep, r.name) = {},
           NEW with, with = Add(its, Null, r.name, r.dep, r.active),
           NEW its2, its2 = IF r.cat = Null THEN WithDefault(with, New(its)) ELSE with
    PROVE  /\ Tree(its2) /\ Unique(its2) /\ Grown(its, its2)
           /\ New(its) \in Ids /\ its[New(its)] = Fresh /\ with \in [Ids -> Any]
           /\ New(its) \in Live(with) /\ its2[New(its)] = with[New(its)]
           /\ Alike(Planned(its2, r), Planned(its, r))
<1> DEFINE k == New(its)
           w == Add(its, Null, r.name, r.dep, TRUE)
<1>1. r.name \in Names /\ r.dep \in Departments /\ r.name # Null /\ r.active \in BOOLEAN
  BY CatalogAssumption DEF Row
<1>2. its \in [Ids -> Any] /\ Cardinality(Free(its)) \in Nat
  BY LiveIs DEF Tree, Any
<1>3. Cardinality(Free(its)) >= 2 /\ Free(its) # {}
  <2>1. Cardinality(Free(its)) >= 2
    BY <1>2 DEF Room
  <2> QED
    BY <2>1, FS_EmptySet
<1>4. MayAdd(its, Null, r.name, r.dep)
  BY <1>1, <1>3 DEF MayAdd
<1>5. HasAdded(its, Null, r.name, r.dep, r.active, with)
  BY <1>1, <1>4, Added
<1>6. HasAdded(its, Null, r.name, r.dep, TRUE, w)
  BY <1>4, Added
<1> HIDE DEF w, k
<1>7. /\ Tree(with) /\ Unique(with) /\ Grown(its, with)
      /\ Cardinality(Free(with)) = Cardinality(Free(its)) - 1
      /\ k \in Live(with) /\ k \in Ids /\ its[k] = Fresh
      /\ with[k].parent = Null /\ with[k].name = r.name /\ with[k].dep = r.dep
      /\ with[k].active = r.active
      /\ Find(with, Null, r.dep, r.name) = {k} /\ Kids(with, k) = {}
  BY <1>5 DEF HasAdded, k
<1>8. Find(w, Null, r.dep, r.name) = {k}
  BY <1>6 DEF HasAdded, k
<1>9. Alike(with, w)
  <2>1. Alike(its, its)
    BY <1>2, AlikeSame
  <2> QED
    BY <1>1, <2>1, AlikeAdd DEF w
<1>10. Planned(its, r) = WithCategory(w, k, r)
  <2>1. WithArticle(its, r) = w
    BY DEF WithArticle, w
  <2>2. ArticleOf(w, r) = k
    BY <1>8 DEF ArticleOf
  <2> QED
    BY <2>1, <2>2 DEF Planned
<1>11. Alike(WithCategory(with, k, r), Planned(its, r))
  BY <1>9, <1>10, AlikeCategory
<1>12. with \in [Ids -> Any]
  BY <1>7 DEF Tree, Any
<1>13. CASE r.cat # Null
  <2>1. its2 = with
    BY <1>13
  <2>2. Planned(its2, r) = WithCategory(with, k, r)
    BY <1>7, <2>1, PlannedIn
  <2> QED
    BY <1>7, <1>11, <1>12, <2>1, <2>2 DEF k
<1>14. CASE r.cat = Null
  <2>1. its2 = WithDefault(with, k)
    BY <1>14 DEF k
  <2>2. Free(with) # {}
    <3>1. Cardinality(Free(with)) # 0
      BY <1>2, <1>3, <1>7
    <3> QED
      BY <3>1, FS_EmptySet
  <2>3. /\ Tree(its2) /\ Unique(its2) /\ Grown(with, its2)
        /\ HasAdded(with, k, r.name, r.dep, r.active, its2)
    BY <1>7, <2>1, <2>2, DefaultThere
  <2> DEFINE j == New(with)
  <2>4. j # k
    <3>1. with[j] = Fresh
      BY <2>3 DEF HasAdded
    <3>2. with[k].name # Null
      BY <1>1, <1>7
    <3> QED
      BY <3>1, <3>2 DEF Fresh
  <2>5. its2[k] = with[k] /\ j \in Ids /\ its2[j].parent = k
    BY <1>7, <2>3, <2>4 DEF HasAdded
  <2>6. k \in Find(its2, Null, r.dep, r.name)
    BY <1>7, <2>5 DEF Find
  <2>7. Planned(its2, r) = WithCategory(its2, k, r)
    BY <2>3, <2>6, PlannedIn
  <2>8. Kids(its2, k) # {}
    BY <2>5 DEF Kids
  <2>9. Planned(its2, r) = its2
    BY <1>14, <2>7, <2>8 DEF WithCategory
  <2>10. its2 = WithCategory(with, k, r)
    <3>1. its2 = Add(with, k, r.name, r.dep, r.active)
      BY <1>7, <2>1 DEF WithDefault
    <3>2. Find(with, k, r.dep, r.name) = {}
      BY <1>7, LeafIsKid
    <3> QED
      BY <1>7, <1>14, <3>1, <3>2 DEF WithCategory
  <2>11. Grown(its, its2)
    BY <1>7, <2>3, GrownOn
  <2>12. Alike(Planned(its2, r), Planned(its, r))
    BY <1>11, <2>9, <2>10
  <2> QED
    BY <1>7, <1>12, <2>3, <2>5, <2>11, <2>12 DEF k
<1> QED
  BY <1>13, <1>14

LEMMA CategoryPlanned ==
    ASSUME NEW its, Tree(its), Unique(its), NEW r \in Row, r.cat # Null,
           NEW a \in Find(its, Null, r.dep, r.name), Find(its, a, r.dep, r.cat) = {}
    PROVE  Planned(its, r) = Add(its, a, r.cat, r.dep, r.active)
<1>1. Planned(its, r) = WithCategory(its, a, r)
  BY PlannedIn
<1> QED
  BY <1>1 DEF WithCategory

LEMMA PatchPlanned ==
    ASSUME NEW its, Tree(its), Unique(its), NEW r \in Row, r.cat # Null,
           NEW a \in Find(its, Null, r.dep, r.name), Find(its, a, r.dep, r.cat) # {}
    PROVE  Alike(its, Planned(its, r))
<1> DEFINE leaf == Find(its, a, r.dep, r.cat)
           told == [i \in Ids |-> IF i \in leaf THEN [its[i] EXCEPT !.active = r.active] ELSE its[i]]
<1>1. Planned(its, r) = WithCategory(its, a, r)
  BY PlannedIn
<1>2. Planned(its, r) = told
  BY <1>1 DEF WithCategory
<1>3. DOMAIN its = Ids
  BY DEF Tree
<1>4. \A i \in Ids : Shaped(its[i])
  BY Kinds DEF Tree, Any
<1>5. \A i \in leaf : its[i].name # Null
  BY DEF Find
<1> HIDE DEF leaf
<1>6. Alike(its, told)
  BY <1>3, <1>4, <1>5, AlikeActive
<1> QED
  BY <1>2, <1>6

(***************************************************************************)
(* The invariant.                                                          *)
(***************************************************************************)

\* What was read of a list: no entry has moved since, an entry may be gone
Kept(k, its) ==
    \A i \in Live(k) :
        \/ its[i] = Gone
        \/ i \in Live(its) /\ its[i].parent = k[i].parent /\ its[i].dep = k[i].dep

SameNames(k, its) == \A i \in Live(k) : its[i].name = k[i].name

\* Rows that nobody disturbed: the rest of them, imported, leaves what an import of all
\* of them would have left
OnCourse ==
    save.import # Null =>
        /\ SameNames(save.known, items)
        /\ \E F : Tree(F) /\ Said(F) = save.import /\ Alike(F, Imported(items, save.left))

SaveFits ==
    /\ save = [left |-> save.left, known |-> save.known, import |-> save.import]
    /\ save.left \in Seq(Row) /\ save.known \in [Ids -> Any]
    /\ save # Resting => save.left # <<>> /\ saved = Null
    /\ Kept(save.known, items)
    /\ OnCourse /\ RowsAsImported

ListFits ==
    /\ Tree(items) /\ Unique(items) /\ used \subseteq Live(items)
    /\ Tree(view) /\ Kept(view, items)

FilesFit ==
    /\ open \in BOOLEAN /\ file \in DOMAIN Files \cup {Null} /\ preview \in DOMAIN Files \cup {Null}
    /\ previewing \subseteq DOMAIN Files
    /\ \A f \in previewing : file # Null => file = f
    /\ file # Null /\ preview # Null => file = preview

Counted == old \in BOOLEAN /\ commands \in 0 .. MaxCommands /\ failures \in 0 .. MaxFailures

CatalogInv == ListFits /\ SaveFits /\ FilesFit /\ Counted

LEMMA KeptOn ==
    ASSUME NEW k, NEW a, NEW b, Kept(k, a), Grown(a, b)
    PROVE  /\ Kept(k, b)
           /\ SameNames(k, a) => SameNames(k, b)
<1>1. \A i \in Live(k) : i \in Ids /\ k[i].name # Null
  BY DEF Live
<1>2. \A i \in Ids : a[i].name # Null => i \in Live(a)
  BY DEF Live
<1>3. Kept(k, b)
  BY <1>1 DEF Kept, Grown
<1>4. ASSUME SameNames(k, a) PROVE SameNames(k, b)
  BY <1>1, <1>2, <1>4 DEF SameNames, Grown
<1> QED
  BY <1>3, <1>4

LEMMA RestingIs ==
    /\ Resting.left = <<>> /\ Resting.known = NoEntries /\ Resting.import = Null
    /\ Resting = [left |-> <<>>, known |-> NoEntries, import |-> Null]
    /\ NoEntries \in [Ids -> Any] /\ Live(NoEntries) = {}
    /\ <<>> \in Seq(Row)
<1>1. NoEntries \in [Ids -> Any]
  BY DEF NoEntries, Any
<1>2. Live(NoEntries) = {}
  BY DEF Live, NoEntries, Fresh
<1> QED
  BY <1>1, <1>2 DEF Resting

\* The rows are given up, or done with
LEMMA SaveRests ==
    ASSUME save' = Resting, saved' # Null => Said(items') = saved'
    PROVE  SaveFits'
<1>1. /\ save'.left = <<>> /\ save'.known = NoEntries /\ save'.import = Null
      /\ save' = [left |-> save'.left, known |-> save'.known, import |-> save'.import]
  BY RestingIs
<1>2. Kept(NoEntries, items')
  BY RestingIs DEF Kept
<1>3. OnCourse'
  BY <1>1 DEF OnCourse
<1>4. RowsAsImported'
  BY DEF RowsAsImported
<1> QED
  BY <1>1, <1>2, <1>3, <1>4, RestingIs DEF SaveFits

LEMMA SaveDisturbed ==
    ASSUME SaveFits, save' = Disturbed, saved' = Null, Kept(save.known, items')
    PROVE  SaveFits'
<1>1. CASE save = Resting
  <2>1. save' = Resting
    BY <1>1 DEF Disturbed
  <2> QED
    BY <2>1, SaveRests
<1>2. CASE save # Resting
  <2>1. save' = [left |-> save.left, known |-> save.known, import |-> Null]
    BY <1>2 DEF Disturbed, SaveFits
  <2>2. /\ save'.left = save.left /\ save'.known = save.known /\ save'.import = Null
        /\ save' = [left |-> save'.left, known |-> save'.known, import |-> save'.import]
    BY <2>1
  <2>3. OnCourse' /\ RowsAsImported'
    BY <2>2 DEF OnCourse, RowsAsImported
  <2>4. save.left # <<>> /\ save.left \in Seq(Row) /\ save.known \in [Ids -> Any]
    BY <1>2 DEF SaveFits
  <2> QED
    BY <2>2, <2>3, <2>4 DEF SaveFits
<1> QED
  BY <1>1, <1>2

LEMMA SaveStays ==
    ASSUME SaveFits, UNCHANGED <<items, save, saved>>
    PROVE  SaveFits'
BY DEF SaveFits, OnCourse, RowsAsImported, Kept, SameNames

LEMMA FilesStay ==
    ASSUME FilesFit, UNCHANGED importDialog
    PROVE  FilesFit'
BY DEF FilesFit, importDialog

LEMMA ListGrows ==
    ASSUME ListFits, Tree(items'), Unique(items'), Grown(items, items'), UNCHANGED <<used, view>>
    PROVE  ListFits'
<1>1. Kept(view, items')
  BY KeptOn DEF ListFits
<1>2. used \subseteq Live(items')
  <2>1. \A i \in Live(items) : i \in Ids
    BY DEF Live
  <2> QED
    BY <2>1 DEF ListFits, Grown
<1> QED
  BY <1>1, <1>2 DEF ListFits

LEMMA CountedOn ==
    ASSUME Counted, Command \/ UNCHANGED commands, Fail \/ UNCHANGED failures,
           old' \in BOOLEAN
    PROVE  Counted'
<1>1. commands' \in 0 .. MaxCommands
  BY CatalogAssumption DEF Counted, Command
<1>2. failures' \in 0 .. MaxFailures
  BY CatalogAssumption DEF Counted, Fail
<1> QED
  BY <1>1, <1>2 DEF Counted

LEMMA ChangedStep ==
    ASSUME CatalogInv, NEW its, Changed(its), Tree(its), Unique(its), used \subseteq Live(its),
           Kept(view, its), Kept(save.known, its)
    PROVE  CatalogInv'
<1>1. /\ Command /\ items' = its /\ old' = TRUE /\ save' = Disturbed /\ saved' = Null
      /\ UNCHANGED <<used, view, failures>> /\ UNCHANGED importDialog
  BY DEF Changed
<1>2. ListFits'
  BY <1>1 DEF CatalogInv, ListFits
<1>3. SaveFits'
  BY <1>1, SaveDisturbed DEF CatalogInv
<1>4. FilesFit'
  BY <1>1, FilesStay DEF CatalogInv
<1>5. Counted'
  BY <1>1, CountedOn DEF CatalogInv
<1> QED
  BY <1>2, <1>3, <1>4, <1>5 DEF CatalogInv

LEMMA UpdateStep ==
    ASSUME CatalogInv, NEW i \in Ids, NEW name \in Names, NEW active \in BOOLEAN,
           Update(i, name, active)
    PROVE  CatalogInv'
<1> DEFINE e == [items[i] EXCEPT !.name = name, !.active = active]
           its == [items EXCEPT ![i] = e]
<1>1. /\ i \in Live(items) /\ Twins(items, i, name) = {} /\ Changed(its)
  BY DEF Update
<1>2. /\ Tree(items) /\ Unique(items) /\ used \subseteq Live(items) /\ Kept(view, items)
      /\ Kept(save.known, items) /\ items \in [Ids -> Any]
  BY DEF CatalogInv, ListFits, SaveFits, Tree, Any
<1>3. items[i] \in Entry
  BY <1>1, <1>2, LiveIs
<1>4. /\ e \in Entry /\ e.parent = items[i].parent /\ e.dep = items[i].dep /\ e.name = name
      /\ name # Null /\ e \in Any
  BY <1>3, CatalogAssumption DEF Entry, Any
<1> HIDE DEF e
<1>5. its \in [Ids -> Any] /\ \A j \in Ids : its[j] = IF j = i THEN e ELSE items[j]
  BY <1>2, <1>4
<1> HIDE DEF its
<1>6. Live(its) = Live(items)
  BY <1>1, <1>4, <1>5 DEF Live
<1>7. \A j \in Live(items) : j \in Ids
  BY DEF Live
<1>8. Tree(its)
  BY <1>2, <1>4, <1>5, <1>6, <1>7 DEF Tree, Any
<1>9. Unique(its)
  <2> SUFFICES ASSUME NEW j \in Live(items), NEW k \in Live(items),
                      its[j].parent = its[k].parent, its[j].dep = its[k].dep, its[j].name = its[k].name
               PROVE  j = k
    BY <1>6 DEF Unique
  <2>1. \A h \in Live(items) : items[h].parent = items[i].parent /\ items[h].dep = items[i].dep
                               /\ items[h].name = name => h = i
    BY <1>1, <1>7 DEF Twins, Find
  <2>2. CASE j = i
    BY <1>4, <1>5, <1>7, <2>1, <2>2
  <2>3. CASE k = i
    BY <1>4, <1>5, <1>7, <2>1, <2>3
  <2>4. CASE j # i /\ k # i
    BY <1>2, <1>5, <1>7, <2>4 DEF Unique
  <2> QED
    BY <2>2, <2>3, <2>4
<1>10. \A j \in Ids : items[j] = Gone => its[j] = Gone
  <2>1. Gone.name = Null /\ items[i].name # Null
    BY <1>1 DEF Gone, Live
  <2> QED
    BY <1>5, <2>1
<1>11. \A k : Kept(k, items) => Kept(k, its)
  <2> TAKE k
  <2>1. \A j \in Live(k) : j \in Ids
    BY DEF Live
  <2> QED
    BY <1>4, <1>5, <1>6, <1>10, <2>1 DEF Kept
<1> QED
  BY <1>1, <1>2, <1>6, <1>8, <1>9, <1>11, ChangedStep

LEMMA DeleteStep ==
    ASSUME CatalogInv, NEW i \in Ids, Delete(i)
    PROVE  CatalogInv'
<1> DEFINE its == [items EXCEPT ![i] = Gone]
<1>1. i \in Live(items) /\ Kids(items, i) = {} /\ i \notin used /\ Changed(its)
  BY DEF Delete, MayDelete
<1>2. /\ Tree(items) /\ Unique(items) /\ used \subseteq Live(items) /\ Kept(view, items)
      /\ Kept(save.known, items) /\ items \in [Ids -> Any]
  BY DEF CatalogInv, ListFits, SaveFits, Tree, Any
<1>3. its \in [Ids -> Any] /\ \A j \in Ids : its[j] = IF j = i THEN Gone ELSE items[j]
  BY <1>2 DEF Any
<1> HIDE DEF its
<1>4. Gone.name = Null
  BY DEF Gone
<1>5. Live(its) = Live(items) \ {i} /\ \A j \in Live(items) : j \in Ids
  BY <1>3, <1>4 DEF Live
<1>6. Tree(its)
  <2>1. \A j \in Live(items) : items[j].parent # i
    BY <1>1, <1>5 DEF Kids
  <2> QED
    BY <1>2, <1>3, <1>5, <2>1 DEF Tree, Any
<1>7. Unique(its)
  BY <1>2, <1>3, <1>5 DEF Unique
<1>8. used \subseteq Live(its)
  BY <1>1, <1>2, <1>5
<1>9. \A k : Kept(k, items) => Kept(k, its)
  <2> TAKE k
  <2>1. \A j \in Live(k) : j \in Ids
    BY DEF Live
  <2> QED
    BY <1>3, <1>5, <2>1 DEF Kept
<1> QED
  BY <1>1, <1>2, <1>6, <1>7, <1>8, <1>9, ChangedStep

LEMMA AddCategoryStep ==
    ASSUME CatalogInv, NEW a \in Ids, NEW name \in Names, AddCategory(a, name)
    PROVE  CatalogInv'
<1> DEFINE its == Add(items, a, name, items[a].dep, TRUE)
<1>1. /\ Room(items, 1) /\ a \in Live(items) /\ items[a].parent = Null
      /\ Find(items, a, items[a].dep, name) = {} /\ Changed(its)
  BY DEF AddCategory
<1>2. /\ Tree(items) /\ Unique(items) /\ used \subseteq Live(items) /\ Kept(view, items)
      /\ Kept(save.known, items) /\ items \in [Ids -> Any]
  BY DEF CatalogInv, ListFits, SaveFits, Tree, Any
<1>3. items[a].dep \in Departments
  <2>1. items[a] \in Entry
    BY <1>1, <1>2, LiveIs
  <2> QED
    BY <2>1 DEF Entry
<1>4. Free(items) # {}
  <2>1. Cardinality(Free(items)) # 0
    BY <1>1, <1>2, LiveIs DEF Room
  <2> QED
    BY <2>1, FS_EmptySet
<1>5. MayAdd(items, a, name, items[a].dep)
  BY <1>1, <1>2, <1>3, <1>4 DEF MayAdd
<1>6. HasAdded(items, a, name, items[a].dep, TRUE, its)
  BY <1>5, Added
<1> HIDE DEF its
<1>7. Tree(its) /\ Unique(its) /\ Grown(items, its)
  BY <1>6 DEF HasAdded
<1>8. Kept(view, its) /\ Kept(save.known, its)
  BY <1>2, <1>7, KeptOn
<1>9. used \subseteq Live(its)
  <2>1. \A i \in Live(items) : i \in Ids
    BY DEF Live
  <2> QED
    BY <1>2, <1>7, <2>1 DEF Grown
<1> QED
  BY <1>1, <1>7, <1>8, <1>9, ChangedStep

LEMMA UseStep ==
    ASSUME CatalogInv, NEW i \in Ids, Use(i)
    PROVE  CatalogInv'
<1>1. /\ i \in Live(items) /\ used' = used \cup {i}
      /\ UNCHANGED <<items, view>> /\ UNCHANGED <<items, save, saved>> /\ UNCHANGED importDialog
      /\ UNCHANGED commands /\ UNCHANGED failures /\ old' = old
  BY DEF Use, importDialog
<1>2. ListFits'
  BY <1>1 DEF CatalogInv, ListFits, Tree, Unique, Live, Kept
<1>3. SaveFits'
  BY <1>1, SaveStays DEF CatalogInv
<1>4. FilesFit'
  BY <1>1, FilesStay DEF CatalogInv
<1>5. Counted'
  BY <1>1 DEF CatalogInv, Counted
<1> QED
  BY <1>2, <1>3, <1>4, <1>5 DEF CatalogInv

LEMMA RefetchStep ==
    ASSUME CatalogInv, Refetch
    PROVE  CatalogInv'
<1>1. /\ old' = FALSE /\ view' = items /\ UNCHANGED <<items, used>>
      /\ UNCHANGED <<items, save, saved>> /\ UNCHANGED importDialog
      /\ UNCHANGED commands /\ UNCHANGED failures
  BY DEF Refetch, list
<1>2. ListFits'
  BY <1>1 DEF CatalogInv, ListFits, Tree, Unique, Live, Kept
<1>3. SaveFits'
  BY <1>1, SaveStays DEF CatalogInv
<1>4. FilesFit'
  BY <1>1, FilesStay DEF CatalogInv
<1>5. Counted'
  BY <1>1 DEF CatalogInv, Counted
<1> QED
  BY <1>2, <1>3, <1>4, <1>5 DEF CatalogInv

\* The dialog and its files
LEMMA FileStep ==
    ASSUME CatalogInv, Open \/ Close \/ \E f \in DOMAIN Files : Choose(f) \/ Preview(f)
    PROVE  CatalogInv'
<1>1. /\ UNCHANGED <<items, used, view>> /\ UNCHANGED <<items, save, saved>> /\ old' = old
      /\ Command \/ UNCHANGED commands
      /\ Fail \/ UNCHANGED failures
  BY DEF Open, Close, Choose, Preview, list
<1>2. ListFits'
  BY <1>1 DEF CatalogInv, ListFits, Tree, Unique, Live, Kept
<1>3. SaveFits'
  BY <1>1, SaveStays DEF CatalogInv
<1>4. Counted'
  <2>1. old' \in BOOLEAN
    BY <1>1 DEF CatalogInv, Counted
  <2> QED
    BY <1>1, <2>1, CountedOn DEF CatalogInv
<1>5. FilesFit'
  <2>1. CASE Open
    BY <2>1 DEF Open, CatalogInv, FilesFit
  <2>2. CASE Close
    BY <2>2 DEF Close, CatalogInv, FilesFit
  <2>3. ASSUME NEW f \in DOMAIN Files, Choose(f) PROVE FilesFit'
    BY <2>3 DEF Choose, MayChoose, CatalogInv, FilesFit
  <2>4. ASSUME NEW f \in DOMAIN Files, Preview(f) PROVE FilesFit'
    BY <2>4 DEF Preview, CatalogInv, FilesFit
  <2> QED
    BY <2>1, <2>2, <2>3, <2>4
<1> QED
  BY <1>2, <1>3, <1>4, <1>5 DEF CatalogInv

LEMMA CommitStep ==
    ASSUME CatalogInv, Commit
    PROVE  CatalogInv'
<1>1. /\ file # Null /\ Room(items, Len(Files[file])) /\ items' = Imported(items, Files[file])
      /\ old' = TRUE /\ open' = FALSE /\ file' = Null /\ preview' = Null
      /\ save' = Disturbed /\ saved' = Null /\ UNCHANGED <<used, view>>
      /\ UNCHANGED previewing /\ UNCHANGED commands /\ UNCHANGED failures
  BY DEF Commit
<1>2. Files[file] \in Seq(Row)
  BY <1>1, CatalogAssumption DEF CatalogInv, FilesFit
<1>3. Tree(items') /\ Unique(items') /\ Grown(items, items')
  BY <1>1, <1>2, ImportedTree DEF CatalogInv, ListFits
<1>4. ListFits'
  BY <1>1, <1>3, ListGrows DEF CatalogInv
<1>5. Kept(save.known, items')
  BY <1>3, KeptOn DEF CatalogInv, SaveFits
<1>6. SaveFits'
  BY <1>1, <1>5, SaveDisturbed DEF CatalogInv
<1>7. FilesFit'
  BY <1>1 DEF CatalogInv, FilesFit
<1>8. Counted'
  BY <1>1, CountedOn DEF CatalogInv
<1> QED
  BY <1>4, <1>6, <1>7, <1>8 DEF CatalogInv

LEMMA SaveRowsStep ==
    ASSUME CatalogInv, NEW dep \in Departments, NEW rows \in TypedRows, SaveRows(dep, rows)
    PROVE  CatalogInv'
<1> DEFINE known == [i \in Ids |-> IF view[i].dep = dep THEN view[i] ELSE Fresh]
           import == IF ShownAsIs THEN Said(Imported(items, rows)) ELSE Null
<1>1. /\ Command /\ Room(items, Len(rows))
      /\ save' = [left |-> rows, known |-> known, import |-> import] /\ saved' = Null
      /\ UNCHANGED <<items, used, view>> /\ UNCHANGED importDialog
      /\ old' = old /\ UNCHANGED failures
  BY DEF SaveRows, list
<1>2. rows \in Seq(Row) /\ rows # <<>>
  BY CatalogAssumption
<1>3. view \in [Ids -> Any] /\ items \in [Ids -> Any]
  BY DEF CatalogInv, ListFits, Tree, Any
<1>4. known \in [Ids -> Any] /\ \A i \in Live(known) : i \in Live(view) /\ known[i] = view[i]
  <2>1. Fresh \in Any /\ Fresh.name = Null
    BY DEF Any, Fresh
  <2> QED
    BY <1>3, <2>1 DEF Live
<1>5. import # Null => ShownAsIs /\ import = Said(Imported(items, rows))
  OBVIOUS
<1> HIDE DEF known, import
<1>6. Kept(known, items)
  BY <1>4 DEF CatalogInv, ListFits, Kept
<1>7. OnCourse'
  <2> SUFFICES ASSUME import # Null
               PROVE  /\ SameNames(known, items)
                      /\ \E F : Tree(F) /\ Said(F) = import /\ Alike(F, Imported(items, rows))
    BY <1>1 DEF OnCourse
  <2>1. SameNames(known, items)
    BY <1>4, <1>5 DEF ShownAsIs, SameNames
  <2>2. Tree(Imported(items, rows))
    BY <1>1, <1>2, ImportedTree DEF CatalogInv, ListFits
  <2>3. Alike(Imported(items, rows), Imported(items, rows))
    BY <2>2, AlikeSame DEF Tree, Any
  <2> QED
    BY <1>5, <2>1, <2>2, <2>3
<1>8. SaveFits'
  <2>1. /\ save'.left = rows /\ save'.known = known /\ save'.import = import
        /\ save' = [left |-> save'.left, known |-> save'.known, import |-> save'.import]
    BY <1>1
  <2>2. RowsAsImported'
    BY <1>1 DEF RowsAsImported
  <2>3. Kept(known, items')
    BY <1>1, <1>6
  <2> QED
    BY <1>1, <1>2, <1>4, <1>7, <2>1, <2>2, <2>3 DEF SaveFits
<1>9. ListFits'
  BY <1>1 DEF CatalogInv, ListFits, Tree, Unique, Live, Kept
<1>10. FilesFit'
  BY <1>1, FilesStay DEF CatalogInv
<1>11. Counted'
  <2>1. old' \in BOOLEAN
    BY <1>1 DEF CatalogInv, Counted
  <2> QED
    BY <1>1, <2>1, CountedOn DEF CatalogInv
<1> QED
  BY <1>8, <1>9, <1>10, <1>11 DEF CatalogInv

(***************************************************************************)
(* A row is stored.                                                        *)
(***************************************************************************)

\* What the loop holds while rows are left
LEMMA Underway ==
    ASSUME CatalogInv, save # Resting
    PROVE  /\ Tree(items) /\ Unique(items) /\ items \in [Ids -> Any]
           /\ save = [left |-> save.left, known |-> save.known, import |-> save.import]
           /\ save.left \in Seq(Row) /\ save.left # <<>> /\ Typed \in Row
           /\ save.known \in [Ids -> Any] /\ Kept(save.known, items) /\ saved = Null
           /\ OnCourse
<1>1. save.left \in Seq(Row) /\ save.left # <<>>
  BY DEF CatalogInv, SaveFits
<1>2. Typed \in Row
  BY <1>1 DEF Typed
<1> QED
  BY <1>1, <1>2 DEF CatalogInv, ListFits, SaveFits, Tree, Any

LEMMA FailRowsFits ==
    ASSUME CatalogInv, save # Resting, FailRows
    PROVE  SaveFits' /\ old' = old /\ items' = items
<1>1. save' = Resting /\ saved' = saved /\ old' = old /\ items' = items
  BY DEF FailRows
<1>2. saved' = Null
  BY <1>1, Underway
<1> QED
  BY <1>1, <1>2, SaveRests

\* The last step of a row
LEMMA NextRowFits ==
    ASSUME CatalogInv, save # Resting, NEW known \in [Ids -> Any], NextRow(known),
           Kept(known, items'),
           save.import # Null =>
             SameNames(known, items') /\ Alike(Planned(items, Typed), items')
    PROVE  SaveFits' /\ old' \in BOOLEAN
<1>1. /\ save = [left |-> save.left, known |-> save.known, import |-> save.import]
      /\ save.left \in Seq(Row) /\ save.left # <<>> /\ Typed \in Row /\ saved = Null /\ OnCourse
  BY Underway
<1>2. old \in BOOLEAN
  BY DEF CatalogInv, Counted
<1> DEFINE rest == Tail(save.left)
<1>3. rest \in Seq(Row) /\ Len(rest) = Len(save.left) - 1 /\ Len(save.left) \in Nat \ {0}
  BY <1>1
<1>4. \A its : Imported(its, save.left) = Imported(Planned(its, Typed), rest)
  BY <1>1, ImportOnce DEF Typed
<1> HIDE DEF rest
<1>5. ASSUME save.import # Null
      PROVE  \E F : Tree(F) /\ Said(F) = save.import /\ Alike(F, Imported(items', rest))
  <2>1. PICK F : Tree(F) /\ Said(F) = save.import /\ Alike(F, Imported(items, save.left))
    BY <1>1, <1>5 DEF OnCourse
  <2>2. Alike(Imported(Planned(items, Typed), rest), Imported(items', rest))
    BY <1>3, <1>5, AlikeImported
  <2>3. Alike(F, Imported(items', rest))
    BY <1>4, <2>1, <2>2, AlikeOn
  <2> QED
    BY <2>1, <2>3
<1>6. CASE Len(save.left) > 1
  <2>1. save' = [left |-> rest, known |-> known, import |-> save.import] /\ saved' = saved /\ old' = old
    BY <1>1, <1>6 DEF NextRow, rest
  <2>2. /\ save'.left = rest /\ save'.known = known /\ save'.import = save.import
        /\ save' = [left |-> save'.left, known |-> save'.known, import |-> save'.import]
    BY <2>1
  <2>3. rest # <<>>
    BY <1>3, <1>6
  <2>4. OnCourse'
    BY <1>5, <2>2 DEF OnCourse
  <2>5. RowsAsImported'
    BY <1>1, <2>1 DEF RowsAsImported
  <2> QED
    BY <1>1, <1>2, <1>3, <2>1, <2>2, <2>3, <2>4, <2>5 DEF SaveFits
<1>7. CASE ~ (Len(save.left) > 1)
  <2>1. save' = Resting /\ saved' = save.import /\ old' = TRUE
    BY <1>7 DEF NextRow
  <2>2. rest = <<>>
    BY <1>3, <1>7
  <2>3. ASSUME save.import # Null PROVE Said(items') = save.import
    <3>1. PICK F : Tree(F) /\ Said(F) = save.import /\ Alike(F, Imported(items', rest))
      BY <1>5, <2>3
    <3>2. Imported(items', rest) = items'
      BY <2>2, ImportNone
    <3> QED
      BY <3>1, <3>2, SaidAlike
  <2> QED
    BY <2>1, <2>3, SaveRests
<1> QED
  BY <1>6, <1>7

\* Whatever a call does to the rows, the rest follows from what it does to the list
LEMMA Stored ==
    ASSUME CatalogInv, Storing, Fail \/ UNCHANGED failures,
           SaveFits', old' \in BOOLEAN,
           items' = items \/ (Tree(items') /\ Unique(items') /\ Grown(items, items'))
    PROVE  CatalogInv'
<1>1. UNCHANGED <<used, view>> /\ UNCHANGED importDialog /\ UNCHANGED commands
  BY DEF Storing
<1>2. Tree(items') /\ Unique(items') /\ Grown(items, items')
  <2>1. CASE items' = items
    BY <2>1 DEF CatalogInv, ListFits, Tree, Unique, Grown, Live
  <2> QED
    BY <2>1
<1>3. ListFits'
  BY <1>1, <1>2, ListGrows DEF CatalogInv
<1>4. FilesFit'
  BY <1>1, FilesStay DEF CatalogInv
<1>5. Counted'
  BY <1>1, CountedOn DEF CatalogInv
<1> QED
  BY <1>3, <1>4, <1>5 DEF CatalogInv

\* An article the loop knows is there, unless it is gone; it is the row's article,
\* unless it was renamed
LEMMA Known ==
    ASSUME CatalogInv, save # Resting, NEW a \in Article
    PROVE  /\ a \in Ids /\ a \in Live(save.known)
           /\ a \in Live(items) => items[a].parent = Null /\ items[a].dep = Typed.dep
           /\ save.import # Null => a \in Live(items) /\ a \in Find(items, Null, Typed.dep, Typed.name)
<1>1. /\ a \in Ids /\ save.known[a].parent = Null /\ save.known[a].dep = Typed.dep
      /\ save.known[a].name = Typed.name
  BY DEF Article, Find
<1>2. Typed.name # Null
  BY Underway, CatalogAssumption DEF Row
<1>3. a \in Live(save.known)
  BY <1>1, <1>2 DEF Live
<1>4. Gone.name = Null
  BY DEF Gone
<1>5. items[a] = Gone \/ (a \in Live(items) /\ items[a].parent = Null /\ items[a].dep = Typed.dep)
  BY <1>1, <1>3, Underway DEF Kept
<1>6. a \in Live(items) => items[a] # Gone
  BY <1>4 DEF Live
<1>7. save.import # Null => items[a].name = Typed.name
  BY <1>1, <1>3, Underway DEF OnCourse, SameNames
<1> QED
  BY <1>1, <1>2, <1>3, <1>4, <1>5, <1>6, <1>7 DEF Find

LEMMA PostArticleStep ==
    ASSUME CatalogInv, PostArticle
    PROVE  CatalogInv'
<1>1. Storing /\ save # Resting /\ Room(items, 1) /\ UNCHANGED failures
  BY DEF PostArticle, Storing
<1>2. CASE Find(items, Null, Typed.dep, Typed.name) # {}
  <2>1. FailRows
    BY <1>2 DEF PostArticle
  <2>2. SaveFits' /\ old' = old /\ items' = items
    BY <1>1, <2>1, FailRowsFits
  <2>3. old' \in BOOLEAN
    BY <2>2 DEF CatalogInv, Counted
  <2> QED
    BY <1>1, <2>2, <2>3, Stored
<1>3. CASE Find(items, Null, Typed.dep, Typed.name) = {}
  <2> DEFINE with == Add(items, Null, Typed.name, Typed.dep, Typed.active)
             k == New(items)
             known == [save.known EXCEPT ![k] = with[k]]
  <2>1. /\ items' = IF Typed.cat = Null THEN WithDefault(with, k) ELSE with
        /\ save' = [save EXCEPT !.known = known] /\ saved' = saved /\ old' = old
    BY <1>3 DEF PostArticle, WantsDefault, Learnt
  <2>2. /\ save = [left |-> save.left, known |-> save.known, import |-> save.import]
        /\ save.left \in Seq(Row) /\ save.left # <<>> /\ Typed \in Row /\ saved = Null
        /\ save.known \in [Ids -> Any] /\ Kept(save.known, items)
        /\ Tree(items) /\ Unique(items) /\ items \in [Ids -> Any]
    BY <1>1, Underway
  <2>3. OnCourse
    BY <1>1, Underway
  <2>4. /\ Tree(items') /\ Unique(items') /\ Grown(items, items')
        /\ k \in Ids /\ items[k] = Fresh /\ with \in [Ids -> Any]
        /\ k \in Live(with) /\ items'[k] = with[k]
        /\ Alike(Planned(items', Typed), Planned(items, Typed))
    <3> HIDE DEF with
    <3>1. with = Add(items, Null, Typed.name, Typed.dep, Typed.active)
      BY DEF with
    <3> QED
      BY <1>1, <1>3, <2>1, <2>2, <3>1, ArticlePlanned
  <2> HIDE DEF with, k
  <2>5. known \in [Ids -> Any] /\ \A i \in Ids : known[i] = IF i = k THEN with[k] ELSE save.known[i]
    BY <2>2, <2>4
  <2> HIDE DEF known
  <2>6. Kept(save.known, items')
    BY <2>2, <2>4, KeptOn
  <2>7. with[k].name # Null
    BY <2>4 DEF Live
  <2>8. Kept(known, items')
    <3> SUFFICES ASSUME NEW i \in Live(known)
                 PROVE  \/ items'[i] = Gone
                        \/ /\ i \in Live(items') /\ items'[i].parent = known[i].parent
                           /\ items'[i].dep = known[i].dep
      BY DEF Kept
    <3>1. i \in Ids
      BY DEF Live
    <3>2. CASE i = k
      BY <2>4, <2>5, <2>7, <3>1, <3>2 DEF Live
    <3>3. CASE i # k
      <4>1. i \in Live(save.known) /\ known[i] = save.known[i]
        BY <2>5, <3>1, <3>3 DEF Live
      <4> QED
        BY <2>6, <4>1 DEF Kept
    <3> QED
      BY <3>2, <3>3
  <2>9. save' = [left |-> save.left, known |-> known, import |-> save.import]
    BY <2>1, <2>2
  <2>10. /\ save'.left = save.left /\ save'.known = known /\ save'.import = save.import
         /\ save' = [left |-> save'.left, known |-> save'.known, import |-> save'.import]
    BY <2>9
  <2>11. OnCourse'
    <3> SUFFICES ASSUME save.import # Null
                 PROVE  /\ SameNames(known, items')
                        /\ \E F : /\ Tree(F) /\ Said(F) = save.import
                                  /\ Alike(F, Imported(items', save.left))
      BY <2>10 DEF OnCourse
    <3>1. SameNames(save.known, items')
      BY <2>2, <2>3, <2>4, KeptOn DEF OnCourse
    <3>2. SameNames(known, items')
      <4> SUFFICES ASSUME NEW i \in Live(known) PROVE items'[i].name = known[i].name
        BY DEF SameNames
      <4>1. i \in Ids
        BY DEF Live
      <4>2. i # k => i \in Live(save.known)
        BY <2>5, <4>1 DEF Live
      <4> QED
        BY <2>4, <2>5, <3>1, <4>1, <4>2 DEF SameNames
    <3>3. PICK F : Tree(F) /\ Said(F) = save.import /\ Alike(F, Imported(items, save.left))
      BY <2>3 DEF OnCourse
    <3>4. Tail(save.left) \in Seq(Row)
      BY <2>2
    <3>5. \A its : Imported(its, save.left) = Imported(Planned(its, Typed), Tail(save.left))
      BY <2>2, ImportOnce DEF Typed
    <3>6. Alike(Imported(items', save.left), Imported(items, save.left))
      BY <2>4, <3>4, <3>5, AlikeImported
    <3>7. Alike(F, Imported(items', save.left))
      BY <3>3, <3>6, AlikeBack, AlikeOn
    <3> QED
      BY <3>2, <3>3, <3>7
  <2>12. SaveFits'
    <3>1. RowsAsImported'
      BY <2>1, <2>2 DEF RowsAsImported
    <3> QED
      BY <2>1, <2>2, <2>5, <2>8, <2>10, <2>11, <3>1 DEF SaveFits
  <2>13. old' \in BOOLEAN
    BY <2>1 DEF CatalogInv, Counted
  <2> QED
    BY <1>1, <2>4, <2>12, <2>13, Stored
<1> QED
  BY <1>2, <1>3

LEMMA PostDefaultStep ==
    ASSUME CatalogInv, PostDefault
    PROVE  CatalogInv'
<1>1. Storing /\ save # Resting /\ Free(items) # {} /\ Typed.cat = Null /\ UNCHANGED failures
  BY DEF PostDefault, Storing
<1>2. /\ Tree(items) /\ Unique(items) /\ Typed \in Row
      /\ save.known \in [Ids -> Any] /\ Kept(save.known, items) /\ OnCourse
  BY <1>1, Underway
<1>3. PICK a \in Article :
        IF a \in Live(items) THEN items' = WithDefault(items, a) /\ NextRow(save.known) ELSE FailRows
  BY DEF PostDefault
<1>4. CASE a \notin Live(items)
  <2>1. SaveFits' /\ old' = old /\ items' = items
    BY <1>1, <1>3, <1>4, FailRowsFits
  <2>2. old' \in BOOLEAN
    BY <2>1 DEF CatalogInv, Counted
  <2> QED
    BY <1>1, <2>1, <2>2, Stored
<1>5. CASE a \in Live(items)
  <2>1. items' = WithDefault(items, a) /\ NextRow(save.known)
    BY <1>3, <1>5
  <2>2. items[a].parent = Null
    BY <1>1, <1>5, Known
  <2>3. Tree(items') /\ Unique(items') /\ Grown(items, items')
    BY <1>1, <1>2, <1>5, <2>1, <2>2, DefaultThere
  <2>4. Kept(save.known, items')
    BY <1>2, <2>3, KeptOn
  <2>5. ASSUME save.import # Null
        PROVE  SameNames(save.known, items') /\ Alike(Planned(items, Typed), items')
    <3>1. SameNames(save.known, items')
      BY <1>2, <2>3, <2>5, KeptOn DEF OnCourse
    <3>2. a \in Find(items, Null, Typed.dep, Typed.name)
      BY <1>1, <2>5, Known
    <3>3. Alike(Planned(items, Typed), items')
      BY <1>1, <1>2, <2>1, <3>2, DefaultPlanned
    <3> QED
      BY <3>1, <3>3
  <2>6. SaveFits' /\ old' \in BOOLEAN
    BY <1>1, <1>2, <2>1, <2>4, <2>5, NextRowFits
  <2> QED
    BY <1>1, <2>3, <2>6, Stored
<1> QED
  BY <1>4, <1>5

LEMMA PostCategoryStep ==
    ASSUME CatalogInv, PostCategory
    PROVE  CatalogInv'
<1>1. Storing /\ save # Resting /\ Free(items) # {} /\ Typed.cat # Null /\ UNCHANGED failures
  BY DEF PostCategory, Storing
<1>2. /\ Tree(items) /\ Unique(items) /\ Typed \in Row
      /\ save.known \in [Ids -> Any] /\ Kept(save.known, items) /\ OnCourse
  BY <1>1, Underway
<1>3. PICK a \in Article :
        IF a \in Live(items) /\ Find(items, a, Typed.dep, Typed.cat) = {}
        THEN LET with == Add(items, a, Typed.cat, Typed.dep, Typed.active)
             IN  items' = with /\ NextRow(Learnt(with))
        ELSE FailRows
  BY DEF PostCategory
<1>4. CASE ~ (a \in Live(items) /\ Find(items, a, Typed.dep, Typed.cat) = {})
  <2>1. FailRows
    BY <1>3, <1>4
  <2>2. SaveFits' /\ old' = old /\ items' = items
    BY <1>1, <2>1, FailRowsFits
  <2>3. old' \in BOOLEAN
    BY <2>2 DEF CatalogInv, Counted
  <2> QED
    BY <1>1, <2>2, <2>3, Stored
<1>5. CASE a \in Live(items) /\ Find(items, a, Typed.dep, Typed.cat) = {}
  <2> DEFINE k == New(items)
             known == [save.known EXCEPT ![k] = items'[k]]
  <2>1. items' = Add(items, a, Typed.cat, Typed.dep, Typed.active) /\ NextRow(known)
    BY <1>3, <1>5 DEF Learnt
  <2>2. items[a].parent = Null /\ items[a].dep = Typed.dep /\ a \in Ids
    BY <1>1, <1>5, Known
  <2>3. MayAdd(items, a, Typed.cat, Typed.dep) /\ Typed.active \in BOOLEAN
    <3>1. Typed.cat \in Names /\ Typed.dep \in Departments /\ Typed.active \in BOOLEAN
      BY <1>1, <1>2 DEF Row
    <3> QED
      BY <1>1, <1>2, <1>5, <2>2, <3>1 DEF MayAdd
  <2>4. HasAdded(items, a, Typed.cat, Typed.dep, Typed.active, items')
    BY <2>1, <2>3, Added
  <2>5. /\ Tree(items') /\ Unique(items') /\ Grown(items, items')
        /\ k \in Live(items') /\ k \in Ids /\ items[k] = Fresh
    BY <2>4 DEF HasAdded
  <2> HIDE DEF k
  <2>6. items' \in [Ids -> Any]
    BY <2>5 DEF Tree, Any
  <2>7. known \in [Ids -> Any] /\ \A i \in Ids : known[i] = IF i = k THEN items'[k] ELSE save.known[i]
    BY <1>2, <2>5, <2>6
  <2> HIDE DEF known
  <2>8. Kept(save.known, items')
    BY <1>2, <2>5, KeptOn
  <2>9. \A i \in Live(known) : i \in Ids /\ (i # k => i \in Live(save.known))
    BY <2>7 DEF Live
  <2>10. Kept(known, items')
    <3> SUFFICES ASSUME NEW i \in Live(known)
                 PROVE  \/ items'[i] = Gone
                        \/ /\ i \in Live(items') /\ items'[i].parent = known[i].parent
                           /\ items'[i].dep = known[i].dep
      BY DEF Kept
    <3>1. CASE i = k
      BY <2>5, <2>7, <3>1
    <3>2. CASE i # k
      <4>1. i \in Live(save.known) /\ known[i] = save.known[i]
        BY <2>7, <2>9, <3>2
      <4> QED
        BY <2>8, <4>1 DEF Kept
    <3> QED
      BY <3>1, <3>2
  <2>11. ASSUME save.import # Null
         PROVE  SameNames(known, items') /\ Alike(Planned(items, Typed), items')
    <3>1. SameNames(save.known, items')
      BY <1>2, <2>5, <2>11, KeptOn DEF OnCourse
    <3>2. SameNames(known, items')
      BY <2>7, <2>9, <3>1 DEF SameNames
    <3>3. a \in Find(items, Null, Typed.dep, Typed.name)
      BY <1>1, <2>11, Known
    <3>4. Planned(items, Typed) = items'
      BY <1>1, <1>2, <1>5, <2>1, <3>3, CategoryPlanned
    <3> QED
      BY <2>6, <3>2, <3>4, AlikeSame
  <2>12. SaveFits' /\ old' \in BOOLEAN
    BY <1>1, <2>1, <2>7, <2>10, <2>11, NextRowFits
  <2> QED
    BY <1>1, <2>5, <2>12, Stored
<1> QED
  BY <1>4, <1>5

LEMMA PatchCategoryStep ==
    ASSUME CatalogInv, PatchCategory
    PROVE  CatalogInv'
<1>1. Storing /\ save # Resting /\ UNCHANGED failures
  BY DEF PatchCategory, Storing
<1>2. /\ Tree(items) /\ Unique(items) /\ Typed \in Row /\ items \in [Ids -> Any]
      /\ save.known \in [Ids -> Any] /\ Kept(save.known, items) /\ OnCourse
  BY <1>1, Underway
<1>3. PICK i \in Category :
        IF save.known[i].active = Typed.active THEN UNCHANGED items /\ NextRow(save.known)
        ELSE IF i \in Live(items)
             THEN /\ items' = [items EXCEPT ![i] = [@ EXCEPT !.active = Typed.active]]
                  /\ NextRow(save.known)
             ELSE FailRows
  BY DEF PatchCategory
<1> DEFINE a == save.known[i].parent
<1>4. i \in Ids /\ a \in Article /\ save.known[i].name = Typed.cat
  BY DEF Category
<1> HIDE DEF a
<1>5. a \in Ids
  BY <1>1, <1>4, Known
<1>6. i \in Live(save.known) /\ Typed.cat # Null
  <2>1. a # Null
    BY <1>5, CatalogAssumption
  <2>2. save.known[i] # Fresh /\ save.known[i] # Gone
    BY <2>1 DEF a, Fresh, Gone
  <2> QED
    BY <1>2, <1>4, <2>2, LiveIs DEF Live
<1>7. save.import # Null =>
        /\ a \in Find(items, Null, Typed.dep, Typed.name)
        /\ i \in Find(items, a, Typed.dep, Typed.cat)
  <2> SUFFICES ASSUME save.import # Null
               PROVE  /\ a \in Find(items, Null, Typed.dep, Typed.name)
                      /\ i \in Find(items, a, Typed.dep, Typed.cat)
    OBVIOUS
  <2>1. a \in Find(items, Null, Typed.dep, Typed.name)
    BY <1>1, <1>4, Known
  <2>2. items[i].name = Typed.cat
    BY <1>2, <1>4, <1>6 DEF OnCourse, SameNames
  <2>3. items[i] # Gone
    BY <1>6, <2>2 DEF Gone
  <2>4. i \in Live(items) /\ items[i].parent = a
    BY <1>2, <1>6, <2>3 DEF Kept, a
  <2>5. items[a].dep = items[i].dep
    <3>1. a # Null
      BY <1>5, CatalogAssumption
    <3> QED
      BY <1>2, <2>4, <3>1 DEF Tree
  <2>6. items[a].dep = Typed.dep
    BY <2>1 DEF Find
  <2> QED
    BY <1>4, <2>1, <2>2, <2>4, <2>5, <2>6 DEF Find
<1>8. save.import # Null => Alike(Planned(items, Typed), items)
  BY <1>2, <1>6, <1>7, PatchPlanned, AlikeBack
<1>9. ASSUME Alike(items, items'), items' \in [Ids -> Any], NextRow(save.known)
      PROVE  CatalogInv'
  <2>1. Tree(items') /\ Unique(items') /\ Grown(items, items')
    BY <1>2, <1>9, AlikeTree
  <2>2. Kept(save.known, items')
    BY <1>2, <2>1, KeptOn
  <2>3. save.import # Null => SameNames(save.known, items')
    BY <1>2, <2>1, KeptOn DEF OnCourse
  <2>4. save.import # Null => Alike(Planned(items, Typed), items')
    BY <1>8, <1>9, AlikeOn
  <2>5. SaveFits' /\ old' \in BOOLEAN
    BY <1>1, <1>2, <1>9, <2>2, <2>3, <2>4, NextRowFits
  <2> QED
    BY <1>1, <2>1, <2>5, Stored
<1>10. CASE save.known[i].active = Typed.active
  <2>1. items' = items /\ NextRow(save.known)
    BY <1>3, <1>10
  <2> QED
    BY <1>2, <1>9, <2>1, AlikeSame
<1>11. CASE save.known[i].active # Typed.active /\ i \in Live(items)
  <2>1. items' = [items EXCEPT ![i] = [items[i] EXCEPT !.active = Typed.active]] /\ NextRow(save.known)
    BY <1>3, <1>11
  <2> DEFINE e == [items[i] EXCEPT !.active = Typed.active]
  <2>2. items[i] \in Entry /\ Typed.active \in BOOLEAN
    BY <1>2, <1>11, LiveIs DEF Row
  <2>3. e \in Any
    BY <2>2 DEF Entry, Any
  <2>4. items' = [j \in Ids |-> IF j \in {i} THEN [items[j] EXCEPT !.active = Typed.active] ELSE items[j]]
    <3>1. items' = [j \in Ids |-> IF j = i THEN e ELSE items[j]]
      <4> HIDE DEF e
      <4> QED
        BY <1>2, <1>4, <2>1 DEF e
    <3> QED
      BY <3>1
  <2>5. Alike(items, items')
    <3>1. DOMAIN items = Ids
      BY <1>2
    <3>2. \A j \in Ids : Shaped(items[j])
      BY <1>2, Kinds
    <3>3. \A j \in {i} : items[j].name # Null
      BY <1>11 DEF Live
    <3> QED
      BY <2>4, <3>1, <3>2, <3>3, AlikeActive
  <2>6. items' \in [Ids -> Any]
    <3> HIDE DEF e
    <3> QED
      BY <1>2, <2>1, <2>3 DEF e
  <2> QED
    BY <1>9, <2>1, <2>5, <2>6
<1>12. CASE save.known[i].active # Typed.active /\ i \notin Live(items)
  <2>1. FailRows
    BY <1>3, <1>12
  <2>2. SaveFits' /\ old' = old /\ items' = items
    BY <1>1, <2>1, FailRowsFits
  <2>3. old' \in BOOLEAN
    BY <2>2 DEF CatalogInv, Counted
  <2> QED
    BY <1>1, <2>2, <2>3, Stored
<1> QED
  BY <1>10, <1>11, <1>12

LEMMA FailPostStep ==
    ASSUME CatalogInv, FailPost
    PROVE  CatalogInv'
<1>1. Storing /\ save # Resting /\ Fail /\ FailRows
  BY DEF FailPost, Storing
<1>2. SaveFits' /\ old' = old /\ items' = items
  BY <1>1, FailRowsFits
<1>3. old' \in BOOLEAN
  BY <1>2 DEF CatalogInv, Counted
<1> QED
  BY <1>1, <1>2, <1>3, Stored

LEMMA CatalogStep ==
    ASSUME CatalogInv, [CatalogNext]_catalogVars
    PROVE  CatalogInv'
<1>1. CASE UNCHANGED catalogVars
  <2>1. /\ UNCHANGED <<items, used, view>> /\ UNCHANGED <<items, save, saved>>
        /\ UNCHANGED importDialog /\ UNCHANGED commands /\ UNCHANGED failures /\ old' = old
    BY <1>1 DEF catalogVars, importDialog
  <2>2. ListFits'
    BY <2>1 DEF CatalogInv, ListFits, Tree, Unique, Live, Kept
  <2>3. SaveFits'
    BY <2>1, SaveStays DEF CatalogInv
  <2>4. FilesFit'
    BY <2>1, FilesStay DEF CatalogInv
  <2>5. Counted'
    BY <2>1 DEF CatalogInv, Counted
  <2> QED
    BY <2>2, <2>3, <2>4, <2>5 DEF CatalogInv
<1>2. CASE Open \/ Close \/ \E f \in DOMAIN Files : Choose(f) \/ Preview(f)
  BY <1>2, FileStep
<1>3. CASE Refetch
  BY <1>3, RefetchStep
<1>4. CASE Commit
  BY <1>4, CommitStep
<1>5. CASE PostArticle
  BY <1>5, PostArticleStep
<1>6. CASE PostDefault
  BY <1>6, PostDefaultStep
<1>7. CASE PostCategory
  BY <1>7, PostCategoryStep
<1>8. CASE PatchCategory
  BY <1>8, PatchCategoryStep
<1>9. CASE FailPost
  BY <1>9, FailPostStep
<1>10. ASSUME NEW i \in Ids, Delete(i) \/ Use(i) PROVE CatalogInv'
  BY <1>10, DeleteStep, UseStep
<1>11. ASSUME NEW i \in Ids, NEW n \in Names, AddCategory(i, n) PROVE CatalogInv'
  BY <1>11, AddCategoryStep
<1>12. ASSUME NEW i \in Ids, NEW n \in Names, NEW b \in BOOLEAN, Update(i, n, b) PROVE CatalogInv'
  BY <1>12, UpdateStep
<1>13. ASSUME NEW d \in Departments, NEW rows \in TypedRows, SaveRows(d, rows) PROVE CatalogInv'
  BY <1>13, SaveRowsStep
<1> QED
  BY <1>1, <1>2, <1>3, <1>4, <1>5, <1>6, <1>7, <1>8, <1>9, <1>10, <1>11, <1>12, <1>13 DEF CatalogNext

LEMMA CatalogStart == CatalogInit => CatalogInv
<1> SUFFICES ASSUME CatalogInit PROVE CatalogInv
  OBVIOUS
<1>1. /\ items \in Lists /\ used = {} /\ view = items /\ old = FALSE
      /\ open = FALSE /\ file = Null /\ preview = Null /\ previewing = {}
      /\ save = Resting /\ saved = Null /\ commands = 0 /\ failures = 0
  BY DEF CatalogInit
<1>2. Tree(items) /\ Unique(items)
  BY <1>1, CatalogAssumption
<1>3. ListFits
  BY <1>1, <1>2 DEF ListFits, Kept
<1>4. SaveFits
  <2>1. /\ save.left = <<>> /\ save.known = NoEntries /\ save.import = Null
        /\ save = [left |-> save.left, known |-> save.known, import |-> save.import]
    BY <1>1, RestingIs
  <2>2. Kept(NoEntries, items)
    BY RestingIs DEF Kept
  <2>3. OnCourse /\ RowsAsImported
    BY <1>1, <2>1 DEF OnCourse, RowsAsImported
  <2> QED
    BY <1>1, <2>1, <2>2, <2>3, RestingIs DEF SaveFits
<1>5. FilesFit
  BY <1>1 DEF FilesFit
<1>6. Counted
  <2>1. MaxCommands \in Nat /\ MaxFailures \in Nat
    BY CatalogAssumption
  <2>2. 0 \in 0 .. MaxCommands /\ 0 \in 0 .. MaxFailures
    BY <2>1
  <2>3. commands \in 0 .. MaxCommands /\ failures \in 0 .. MaxFailures
    BY <1>1, <2>2
  <2> QED
    BY <1>1, <2>3 DEF Counted
<1> QED
  BY <1>3, <1>4, <1>5, <1>6 DEF CatalogInv

\* No article and no category is there twice, rows stored one by one leave the list an import of
\* them leaves, and the file that is imported is the one whose preview is shown (ListsAsImported).
THEOREM ImportIsRight == CatalogSpec => []ListsAsImported
<1>1. CatalogInv => ListsAsImported
  <2> SUFFICES ASSUME CatalogInv PROVE ListsAsImported
    OBVIOUS
  <2>1. CatalogTypeOK
    BY DEF CatalogInv, ListFits, SaveFits, FilesFit, Counted, CatalogTypeOK, Any
  <2>2. NoTwins
    BY DEF CatalogInv, ListFits, NoTwins
  <2>3. RowsAsImported
    BY DEF CatalogInv, SaveFits
  <2>4. ImportsWhatItShows
    BY DEF CatalogInv, FilesFit, ImportsWhatItShows
  <2> QED
    BY <2>1, <2>2, <2>3, <2>4 DEF ListsAsImported
<1> QED
  BY <1>1, CatalogStart, CatalogStep, PTL DEF CatalogSpec

=============================================================================
