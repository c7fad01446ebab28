---------------------------- MODULE MCDirectory ----------------------------
(***************************************************************************)
(* The directories an administrator keeps: units and users, and the lists  *)
(* of articles.  They share no state here; a behaviour runs the one chosen *)
(* at its start.                                                           *)
(***************************************************************************)
EXTENDS OrgStructure, Catalog, TLC

\* A department with a CFO and a module, one more unit, and two users; articles and
\* a second department for the lists
CONSTANTS d, c, m, n, p, q, x, y, d2

VARIABLE machine

\* Nothing to begin with, or an article, with one category or none; rows and files that
\* speak of it and of another one, in this department and in the other
RowOf(name, cat, dep, active) == [name |-> name, cat |-> cat, dep |-> dep, active |-> active]
Rows == {RowOf(x, Null, d, TRUE), RowOf(x, y, d, TRUE), RowOf(x, y, d, FALSE),
         RowOf(x, x, d, FALSE), RowOf(x, Null, d2, TRUE)}
OneOrTwo  == {<<r>> : r \in Rows} \cup {<<r, s>> : r \in Rows, s \in Rows}
TwoFiles  == "f" :> <<RowOf(x, Null, d, TRUE)>> @@ "g" :> <<RowOf(y, x, d, FALSE)>>
SixIds    == 1 .. 6
InD(parent, name) == [parent |-> parent, name |-> name, dep |-> d, active |-> TRUE]
NoneOrOne == {NoEntries, [NoEntries EXCEPT ![1] = InD(Null, x)],
              [NoEntries EXCEPT ![1] = InD(Null, x), ![2] = InD(1, y)]}

allVars == <<machine, vars, catalogVars>>

\* The users differ in nothing but their names
UserSymmetry == Permutations({p, q})

AllInit ==
    /\ machine \in {"org", "lists"}
    /\ Init /\ CatalogInit
    /\ machine = "org" => items = NoEntries
    /\ machine = "lists" => \A u \in {p, q} : org.role[u] = "employee"

AllNext ==
    /\ UNCHANGED machine
    /\ \/ machine = "org" /\ Next /\ UNCHANGED catalogVars
       \/ machine = "lists" /\ CatalogNext /\ UNCHANGED vars

AllSpec == AllInit /\ [][AllNext]_allVars

=============================================================================
