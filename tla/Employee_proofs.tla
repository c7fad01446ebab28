-------------------------- MODULE Employee_proofs --------------------------
(***************************************************************************)
(* Theorems about what the employee of a module works with: the form that  *)
(* adds a line makes one line of one filling-in, for any number of files   *)
(* and clicks, and spreads a sum to the last unit, for any number of       *)
(* months and any sums; the list of the requests leaves each module one    *)
(* active request and tells its user of it, for any number of requests,    *)
(* modules and calls; and the preview of a file leaks no content and shows *)
(* nothing late, for any set of files and any number of openings.          *)
(***************************************************************************)
EXTENDS LineForm, RequestsList, FilePreview, FiniteSetTheorems,
        WellFoundedInduction, TLAPS

(***************************************************************************)
(* The form                                                                *)
(***************************************************************************)

IsMutation(c) ==
    c = [state |-> c.state, entry |-> c.entry, sum |-> c.sum, total |-> c.total,
         files |-> c.files, left |-> c.left, line |-> c.line]

\* What is under way: nothing, or the posts for the form as it is filled in now
MutationOK ==
    \/ create = Idle
    \/ /\ IsMutation(create) /\ create.state \in {"create", "attach"} /\ create.entry = entry
       /\ create.state = "create" => create.left = create.files

\* Lines are numbered in the order they come, and were entered before
LinesOK ==
    /\ entry \in Nat /\ \E n \in Nat : DOMAIN lines = 1 .. n
    /\ \A l \in DOMAIN lines : lines[l].entry \in Nat /\ lines[l].entry <= entry

\* Until the chain has made its line, the form that is filled in has none
NoneYet ==
    losses = 0 /\ create.state # "attach" =>
        \A l \in DOMAIN lines : lines[l].entry # entry

\* The line of the chain has the files that were sent
SentSoFar ==
    create.state = "attach" =>
        /\ create.line \in DOMAIN lines /\ lines[create.line].entry = entry
        /\ create.files \ create.left \subseteq lines[create.line].files

FormInv ==
    /\ MutationOK /\ LinesOK /\ NoneYet /\ SentSoFar /\ OneLineEach /\ losses \in Nat
    /\ create # Idle => told # "added"

LEMMA FormInit == Init => FormInv
<1> SUFFICES ASSUME Init PROVE FormInv
  OBVIOUS
<1>1. DOMAIN lines = 1 .. 0 /\ DOMAIN lines = {}
  BY DEF Init
<1> QED
  BY <1>1 DEF Init, FormInv, MutationOK, LinesOK, NoneYet, SentSoFar, OneLineEach, Idle

\* Typing and picking touch neither the chain nor the lines
LEMMA FormKept ==
    ASSUME FormInv, UNCHANGED <<entry, create, lines, told, losses>>
    PROVE  FormInv'
BY DEF FormInv, MutationOK, LinesOK, NoneYet, SentSoFar, OneLineEach, Idle

\* Another line, the last one
LEMMA OneMore ==
    ASSUME LinesOK, Created
    PROVE  \E n \in Nat :
              /\ DOMAIN lines = 1 .. n /\ Cardinality(DOMAIN lines) = n
              /\ DOMAIN lines' = 1 .. (n + 1)
              /\ lines'[n + 1] = [entry |-> create.entry, files |-> {}]
              /\ \A l \in 1 .. n : lines'[l] = lines[l]
<1>1. PICK n \in Nat : DOMAIN lines = 1 .. n
  BY DEF LinesOK
<1>2. Cardinality(DOMAIN lines) = n
  BY <1>1, FS_Interval
<1>3. lines' = [k \in 1 .. (n + 1) |->
                   IF k < n + 1 THEN lines[k] ELSE [entry |-> create.entry, files |-> {}]]
  BY <1>2 DEF Created
<1>4. /\ DOMAIN lines' = 1 .. (n + 1) /\ n + 1 \in 1 .. (n + 1)
      /\ lines'[n + 1] = [entry |-> create.entry, files |-> {}]
      /\ \A l \in 1 .. n : lines'[l] = lines[l]
  BY <1>3
<1> QED
  BY <1>1, <1>2, <1>4

\* The chain is over, and the form is empty for the next line
LEMMA FormCleared ==
    ASSUME FormInv, create' = Idle, entry' = entry + 1, UNCHANGED losses,
           \E n \in Nat : DOMAIN lines' = 1 .. n,
           \A l \in DOMAIN lines' : lines'[l].entry \in Nat /\ lines'[l].entry <= entry,
           OneLineEach'
    PROVE  FormInv'
<1>1. entry \in Nat /\ losses \in Nat
  BY DEF FormInv, LinesOK
<1>2. LinesOK' /\ NoneYet'
  BY <1>1 DEF LinesOK, NoneYet
<1> QED
  BY <1>1, <1>2 DEF FormInv, MutationOK, SentSoFar, Idle

LEMMA ServedForm == ASSUME FormInv, ServeCreate PROVE FormInv'
<1>1. CASE ~Accepted
  BY <1>1 DEF ServeCreate, CreationFailed, fields, FormInv, MutationOK, LinesOK, NoneYet,
              SentSoFar, OneLineEach, Idle
<1>2. CASE Accepted
  <2>1. PICK n \in Nat :
            /\ DOMAIN lines = 1 .. n /\ Cardinality(DOMAIN lines) = n
            /\ DOMAIN lines' = 1 .. (n + 1)
            /\ lines'[n + 1] = [entry |-> create.entry, files |-> {}]
            /\ \A l \in 1 .. n : lines'[l] = lines[l]
    BY <1>2, OneMore DEF ServeCreate, FormInv
  <2>2. /\ create.entry = entry /\ create.state = "create" /\ entry \in Nat
        /\ create # Idle /\ losses' = losses
    BY DEF ServeCreate, FormInv, MutationOK, LinesOK, Idle
  <2>3. \A l \in DOMAIN lines' : lines'[l].entry \in Nat /\ lines'[l].entry <= entry
    BY <2>1, <2>2 DEF FormInv, LinesOK
  <2>4. OneLineEach'
    BY <2>1, <2>2 DEF FormInv, OneLineEach, NoneYet
  <2>5. CASE create.files = {}
    BY <1>2, <2>1, <2>3, <2>4, <2>2, <2>5, FormCleared DEF ServeCreate, Finished, Clear
  <2>6. CASE create.files # {}
    <3>1. /\ create' = [create EXCEPT !.state = "attach", !.line = n + 1]
          /\ UNCHANGED <<entry, told>>
      BY <1>2, <2>1, <2>6 DEF ServeCreate
    <3>2. /\ IsMutation(create') /\ create'.state = "attach" /\ create'.entry = entry
          /\ create'.line = n + 1 /\ create'.files = create.files /\ create'.left = create.files
      BY <2>2, <3>1 DEF FormInv, MutationOK, IsMutation
    <3>3. /\ n + 1 \in DOMAIN lines' /\ lines'[n + 1].entry = entry /\ told # "added"
      BY <2>1, <2>2 DEF FormInv
    <3>4. MutationOK' /\ LinesOK'
      BY <2>1, <2>2, <2>3, <3>1, <3>2 DEF MutationOK, LinesOK
    <3>5. NoneYet' /\ SentSoFar'
      BY <3>1, <3>2, <3>3 DEF NoneYet, SentSoFar
    <3> QED
      BY <2>2, <2>4, <3>1, <3>3, <3>4, <3>5 DEF FormInv
  <2> QED
    BY <2>5, <2>6
<1> QED
  BY <1>1, <1>2

LEMMA LostCreate == ASSUME FormInv, LoseCreate PROVE FormInv'
<1>1. PICK n \in Nat :
          /\ DOMAIN lines = 1 .. n /\ DOMAIN lines' = 1 .. (n + 1)
          /\ lines'[n + 1] = [entry |-> create.entry, files |-> {}]
          /\ \A l \in 1 .. n : lines'[l] = lines[l]
  BY OneMore DEF LoseCreate, FormInv
<1>2. /\ create.entry = entry /\ entry \in Nat /\ losses' = losses + 1 /\ losses \in Nat
      /\ create' = Idle /\ told' = "failed" /\ entry' = entry
  BY DEF LoseCreate, CreationFailed, FormInv, MutationOK, LinesOK, Idle
<1>3. losses' \in Nat /\ losses' # 0
  BY <1>2
<1>4. LinesOK'
  BY <1>1, <1>2 DEF FormInv, LinesOK
<1> QED
  BY <1>2, <1>3, <1>4 DEF FormInv, MutationOK, NoneYet, SentSoFar, OneLineEach, Idle

\* One more file at the line of the chain; the last one ends the chain
LEMMA Attached ==
    ASSUME FormInv, NEW f, Attach(f)
    PROVE  /\ FormInv'
           /\ create.left = {f} =>
                 create.line \in DOMAIN lines' /\ create.files \subseteq lines'[create.line].files
           /\ create.line \in DOMAIN lines' /\ lines'[create.line].entry = create.entry
<1> DEFINE k == create.line
<1>1. /\ k \in DOMAIN lines /\ lines[k].entry = entry /\ create.entry = entry /\ f \in create.left
      /\ create.files \ create.left \subseteq lines[k].files /\ create # Idle
      /\ create.state = "attach" /\ IsMutation(create)
      /\ lines' = [lines EXCEPT ![k].files = @ \cup {f}]
  BY DEF Attach, FormInv, MutationOK, SentSoFar, Idle
<1> DEFINE row == [lines[k] EXCEPT !.files = @ \cup {f}]
<1>2. lines' = [lines EXCEPT ![k] = row]
  BY <1>1
<1>3. row.entry = entry /\ lines[k].files \cup {f} \subseteq row.files
  BY <1>1 DEF FormInv
<1> HIDE DEF row, k
<1>4. /\ DOMAIN lines' = DOMAIN lines /\ lines'[k] = row
      /\ \A l \in DOMAIN lines : lines'[l].entry = lines[l].entry
  BY <1>1, <1>2, <1>3
<1>5. /\ \E n \in Nat : DOMAIN lines' = 1 .. n
      /\ \A l \in DOMAIN lines' : lines'[l].entry \in Nat /\ lines'[l].entry <= entry
  BY <1>4 DEF FormInv, LinesOK
<1>6. OneLineEach'
  BY <1>4 DEF Attach, FormInv, OneLineEach
<1>7. create.files \ (create.left \ {f}) \subseteq lines'[k].files
  BY <1>1, <1>3, <1>4
<1>8. CASE create.left = {f}
  <2>1. FormInv'
    BY <1>5, <1>6, <1>8, FormCleared DEF Attach, Finished, Clear
  <2> QED
    BY <1>1, <1>3, <1>4, <1>7, <1>8, <2>1 DEF k
<1>9. CASE create.left # {f}
  <2>1. /\ create' = [create EXCEPT !.left = create.left \ {f}]
        /\ UNCHANGED <<entry, told, losses>>
    BY <1>9 DEF Attach
  <2>2. /\ IsMutation(create') /\ create'.state = "attach" /\ create'.entry = entry
        /\ create'.line = k /\ create'.files = create.files /\ create'.left = create.left \ {f}
    BY <1>1, <2>1 DEF IsMutation, k
  <2>3. MutationOK' /\ LinesOK' /\ NoneYet'
    BY <1>5, <2>1, <2>2 DEF MutationOK, LinesOK, NoneYet, FormInv
  <2>4. SentSoFar' /\ told # "added"
    BY <1>1, <1>3, <1>4, <1>7, <2>1, <2>2 DEF SentSoFar, FormInv
  <2> QED
    BY <1>1, <1>3, <1>4, <1>6, <1>9, <2>1, <2>3, <2>4 DEF FormInv, k
<1> QED
  BY <1>8, <1>9

LEMMA FormNext == FormInv /\ [Next]_vars => FormInv'
<1> SUFFICES ASSUME FormInv, [Next]_vars PROVE FormInv'
  OBVIOUS
<1>1. CASE UNCHANGED vars \/ Typing \/ Submit
  <2>1. UNCHANGED <<entry, create, lines, told, losses>>
    BY <1>1 DEF vars, Typing, Submit, TypeTarget, Lock, TypeMonth, Redistribute, Name, AddFile,
                RemoveFile, Fill
  <2> QED
    BY <2>1, FormKept
<1>2. CASE Add
  <2>1. /\ create' = [state |-> "create", entry |-> entry, sum |-> target,
                      total |-> Total(months), files |-> files, left |-> files, line |-> 0]
        /\ told' = "nothing" /\ UNCHANGED <<entry, lines, losses>> /\ create = Idle
    BY <1>2 DEF Add, Ready
  <2>2. MutationOK'
    BY <2>1 DEF MutationOK, IsMutation
  <2>3. LinesOK' /\ NoneYet' /\ SentSoFar'
    BY <2>1 DEF FormInv, LinesOK, NoneYet, SentSoFar, Idle
  <2> QED
    BY <2>1, <2>2, <2>3 DEF FormInv, OneLineEach
<1>3. CASE ServeCreate
  BY <1>3, ServedForm
<1>4. CASE LoseCreate
  BY <1>4, LostCreate
<1>5. ASSUME NEW f \in Files, Attach(f) PROVE FormInv'
  BY <1>5, Attached
<1>6. ASSUME NEW f \in Files, RefuseFile(f) PROVE FormInv'
  BY <1>6, FormCleared DEF RefuseFile, AttachmentFailed, Clear, FormInv, LinesOK, OneLineEach
<1> QED
  BY <1>1, <1>2, <1>3, <1>4, <1>5, <1>6 DEF Next, Chain

\* One filling-in of the form makes one line, whichever files are refused and however
\* often the user clicks, unless the answer to the creation was lost (createItemMutation
\* of RequestDetailsPage.tsx).
THEOREM OneLine == Spec => []OneLineEach
<1>1. FormInv => OneLineEach
  BY DEF FormInv
<1> QED
  BY <1>1, FormInit, FormNext, PTL DEF Spec

LEMMA WholeStep ==
    FormInv /\ [Next]_vars /\ told' = "added" /\ create # Idle =>
        \E l \in DOMAIN lines' :
            lines'[l].entry = create.entry /\ create.files \subseteq lines'[l].files
<1> SUFFICES ASSUME FormInv, [Next]_vars, told' = "added", create # Idle
             PROVE  \E l \in DOMAIN lines' :
                        lines'[l].entry = create.entry /\ create.files \subseteq lines'[l].files
  OBVIOUS
<1>1. told # "added"
  BY DEF FormInv
<1>2. CASE ServeCreate
  <2>1. Created /\ create.files = {}
    BY <1>1, <1>2 DEF ServeCreate, CreationFailed
  <2>2. PICK n \in Nat : /\ DOMAIN lines' = 1 .. (n + 1)
                         /\ lines'[n + 1] = [entry |-> create.entry, files |-> {}]
    BY <2>1, OneMore DEF FormInv
  <2>3. n + 1 \in DOMAIN lines'
    BY <2>2
  <2> QED
    BY <2>1, <2>2, <2>3
<1>3. ASSUME NEW f \in Files, Attach(f)
      PROVE  \E l \in DOMAIN lines' :
                 lines'[l].entry = create.entry /\ create.files \subseteq lines'[l].files
  <2>1. create.left = {f}
    BY <1>1, <1>3 DEF Attach
  <2> QED
    BY <1>3, <2>1, Attached
<1> QED
  BY <1>1, <1>2, <1>3
     DEF Next, Chain, Typing, Submit, vars, TypeTarget, Lock, TypeMonth, Redistribute, Name,
         AddFile, RemoveFile, Fill, Add, LoseCreate, CreationFailed, RefuseFile, AttachmentFailed

\* "The line and its files are added" is said only of a line that has all the files the
\* form had at the click, for any number of files.
THEOREM AddedIsWhole == Spec => AddedWhole
<1>1. FormInv /\ [Next]_vars =>
        [told' = "added" /\ create # Idle =>
            \E l \in DOMAIN lines' :
                lines'[l].entry = create.entry /\ create.files \subseteq lines'[l].files]_vars
  BY WholeStep
<1> QED
  BY <1>1, FormInit, FormNext, PTL DEF Spec, AddedWhole

\* What holds of zero, and of the number after every number it holds of, holds of all
LEMMA CountUp ==
    ASSUME NEW S, 0 \in S, \A n \in Nat : n \in S => n + 1 \in S
    PROVE  Nat \subseteq S
<1> DEFINE T == Nat \ S
           R == OpToRel(<, Nat)
<1> SUFFICES ASSUME T # {} PROVE FALSE
  OBVIOUS
<1>1. IsWellFoundedOn(R, Nat)
  BY NatLessThanWellFounded
<1>2. PICK x \in T : \A y \in T : ~ (<<y, x>> \in R)
  <2>1. T \subseteq Nat
    OBVIOUS
  <2> HIDE DEF R, T
  <2> QED
    BY <1>1, <2>1, WFMin
<1>3. x \in Nat /\ x # 0 /\ x - 1 \in Nat /\ x - 1 < x
  OBVIOUS
<1>4. x - 1 \in T
  <2>1. (x - 1) + 1 = x
    BY <1>3
  <2>2. x - 1 \notin S
    BY <1>2, <1>3, <2>1
  <2> QED
    BY <1>3, <2>2
<1>5. <<x - 1, x>> \in R
  BY <1>3 DEF OpToRel
<1> QED
  BY <1>2, <1>4, <1>5

(***************************************************************************)
(* Sums over the months: a sum is the last of the sums of the first        *)
(* months, so that what is to be shown of it is shown of those, counting   *)
(* up.                                                                     *)
(***************************************************************************)

\* The sums of the first months
Partial(u, f) == u[0] = 0 /\ \A m \in Months : u[m] = u[m - 1] + f[m]

LEMMA PartialIsThere ==
    ASSUME NEW f, NEW L \in Nat
    PROVE  \E u : u = [n \in 0 .. L |-> IF n = 0 THEN 0 ELSE u[n - 1] + f[n]]
<1> DEFINE Is(u, m) == u = [n \in 0 .. m |-> IF n = 0 THEN 0 ELSE u[n - 1] + f[n]]
           S == {m \in Nat : \E u : Is(u, m)}
<1>1. 0 \in S
  <2> DEFINE u == [n \in 0 .. 0 |-> 0]
  <2>1. Is(u, 0)
    OBVIOUS
  <2> QED
    BY <2>1
<1>2. ASSUME NEW m \in Nat, m \in S
      PROVE  m + 1 \in S
  <2>1. PICK u : Is(u, m)
    BY <1>2
  <2> DEFINE h == [n \in 0 .. m + 1 |-> IF n = m + 1 THEN u[m] + f[m + 1] ELSE u[n]]
  <2>2. \A n \in 0 .. m : h[n] = u[n]
    BY <1>2
  <2>3. \A n \in 0 .. m : h[n] = IF n = 0 THEN 0 ELSE h[n - 1] + f[n]
    <3>1. \A n \in 0 .. m : u[n] = IF n = 0 THEN 0 ELSE u[n - 1] + f[n]
      BY <2>1
    <3>2. \A n \in 0 .. m : n # 0 => n - 1 \in 0 .. m
      BY <1>2
    <3> HIDE DEF h
    <3> QED
      BY <2>2, <3>1, <3>2
  <2>4. h[m + 1] = h[m] + f[m + 1]
    BY <1>2, <2>2
  <2>5. h = [n \in 0 .. m + 1 |-> h[n]]
    OBVIOUS
  <2>6. \A n \in 0 .. m + 1 : h[n] = IF n = 0 THEN 0 ELSE h[n - 1] + f[n]
    <3> HIDE DEF h
    <3>1. ASSUME NEW n \in 0 .. m + 1
          PROVE  n \in 0 .. m \/ (n = m + 1 /\ n # 0 /\ n - 1 = m)
      BY <1>2
    <3> QED
      BY <2>3, <2>4, <3>1
  <2>7. Is(h, m + 1)
    <3> HIDE DEF h
    <3> QED
      BY <2>5, <2>6
  <2> HIDE DEF h, Is
  <2> QED
    BY <1>2, <2>7
<1> HIDE DEF Is
<1>3. Nat \subseteq S
  <2> HIDE DEF S
  <2> QED
    BY <1>1, <1>2, CountUp
<1> QED
  BY <1>3 DEF Is

LEMMA SumRun ==
    ASSUME NEW f \in [Months -> Int]
    PROVE  /\ Sum(f) \in Int
           /\ \E u \in [0 .. LastMonth -> Int] : Partial(u, f) /\ Sum(f) = u[LastMonth]
<1> DEFINE u == CHOOSE u : u = [n \in 0 .. LastMonth |-> IF n = 0 THEN 0 ELSE u[n - 1] + f[n]]
<1>0. LastMonth \in Nat /\ LastMonth # 0
  BY FormAssumption
<1>1. u = [n \in 0 .. LastMonth |-> IF n = 0 THEN 0 ELSE u[n - 1] + f[n]]
  BY <1>0, PartialIsThere
<1>2. Sum(f) = u[LastMonth]
  BY DEF Sum
<1> HIDE DEF u
<1>3. Partial(u, f)
  BY <1>0, <1>1 DEF Partial, Months
<1> DEFINE S == {n \in Nat : n <= LastMonth => u[n] \in Int}
<1>4. 0 \in S
  BY <1>3 DEF Partial
<1>5. ASSUME NEW n \in Nat, n \in S PROVE n + 1 \in S
  <2> SUFFICES ASSUME n + 1 <= LastMonth PROVE u[n + 1] \in Int
    BY <1>5
  <2>1. n + 1 \in Months /\ (n + 1) - 1 = n /\ u[n] \in Int
    BY <1>0, <1>5 DEF Months
  <2>2. u[n + 1] = u[n] + f[n + 1] /\ f[n + 1] \in Int
    BY <1>3, <2>1 DEF Partial
  <2> QED
    BY <2>1, <2>2
<1>6. Nat \subseteq S
  <2> HIDE DEF S
  <2> QED
    BY <1>4, <1>5, CountUp
<1>7. \A n \in 0 .. LastMonth : u[n] \in Int
  BY <1>0, <1>6
<1>8. u \in [0 .. LastMonth -> Int]
  BY <1>1, <1>7
<1> QED
  BY <1>0, <1>2, <1>3, <1>7, <1>8

\* What holds of the sums of the first months holds of the whole
LEMMA SumAdd ==
    ASSUME NEW f \in [Months -> Int], NEW g \in [Months -> Int], NEW h \in [Months -> Int],
           \A m \in Months : h[m] = f[m] + g[m]
    PROVE  Sum(h) = Sum(f) + Sum(g)
<1>0. LastMonth \in Nat
  BY FormAssumption
<1>1. PICK u \in [0 .. LastMonth -> Int] : Partial(u, f) /\ Sum(f) = u[LastMonth]
  BY SumRun
<1>2. PICK v \in [0 .. LastMonth -> Int] : Partial(v, g) /\ Sum(g) = v[LastMonth]
  BY SumRun
<1>3. PICK w \in [0 .. LastMonth -> Int] : Partial(w, h) /\ Sum(h) = w[LastMonth]
  BY SumRun
<1> DEFINE S == {n \in Nat : n <= LastMonth => w[n] = u[n] + v[n]}
<1>4. 0 \in S
  BY <1>1, <1>2, <1>3 DEF Partial
<1>5. ASSUME NEW n \in Nat, n \in S PROVE n + 1 \in S
  <2> SUFFICES ASSUME n + 1 <= LastMonth PROVE w[n + 1] = u[n + 1] + v[n + 1]
    BY <1>5
  <2>1. n + 1 \in Months /\ (n + 1) - 1 = n /\ n \in 0 .. LastMonth /\ w[n] = u[n] + v[n]
    BY <1>0, <1>5 DEF Months
  <2>2. u[n + 1] = u[n] + f[n + 1] /\ v[n + 1] = v[n] + g[n + 1] /\ w[n + 1] = w[n] + h[n + 1]
    BY <1>1, <1>2, <1>3, <2>1 DEF Partial
  <2>3. /\ h[n + 1] = f[n + 1] + g[n + 1] /\ f[n + 1] \in Int /\ g[n + 1] \in Int
        /\ u[n] \in Int /\ v[n] \in Int
    BY <2>1
  <2> QED
    BY <2>1, <2>2, <2>3
<1>6. Nat \subseteq S
  <2> HIDE DEF S
  <2> QED
    BY <1>4, <1>5, CountUp
<1> QED
  BY <1>0, <1>1, <1>2, <1>3, <1>6

LEMMA SumScale ==
    ASSUME NEW f \in [Months -> Int], NEW g \in [Months -> Int], NEW s \in Int,
           \A m \in Months : g[m] = f[m] * s
    PROVE  Sum(g) = Sum(f) * s
<1>0. LastMonth \in Nat
  BY FormAssumption
<1>1. PICK u \in [0 .. LastMonth -> Int] : Partial(u, f) /\ Sum(f) = u[LastMonth]
  BY SumRun
<1>2. PICK v \in [0 .. LastMonth -> Int] : Partial(v, g) /\ Sum(g) = v[LastMonth]
  BY SumRun
<1> DEFINE S == {n \in Nat : n <= LastMonth => v[n] = u[n] * s}
<1>4. 0 \in S
  BY <1>1, <1>2 DEF Partial
<1>5. ASSUME NEW n \in Nat, n \in S PROVE n + 1 \in S
  <2> SUFFICES ASSUME n + 1 <= LastMonth PROVE v[n + 1] = u[n + 1] * s
    BY <1>5
  <2>1. n + 1 \in Months /\ (n + 1) - 1 = n /\ n \in 0 .. LastMonth /\ v[n] = u[n] * s
    BY <1>0, <1>5 DEF Months
  <2>2. u[n + 1] = u[n] + f[n + 1] /\ v[n + 1] = v[n] + g[n + 1]
    BY <1>1, <1>2, <2>1 DEF Partial
  <2>3. g[n + 1] = f[n + 1] * s /\ f[n + 1] \in Int /\ u[n] \in Int
    BY <2>1
  <2>4. (u[n] + f[n + 1]) * s = u[n] * s + f[n + 1] * s
    BY <2>3
  <2> QED
    BY <2>1, <2>2, <2>3, <2>4
<1>6. Nat \subseteq S
  <2> HIDE DEF S
  <2> QED
    BY <1>4, <1>5, CountUp
<1> QED
  BY <1>0, <1>1, <1>2, <1>6

LEMMA SumAtMost ==
    ASSUME NEW f \in [Months -> Int], NEW g \in [Months -> Int], \A m \in Months : f[m] <= g[m]
    PROVE  Sum(f) <= Sum(g)
<1>0. LastMonth \in Nat
  BY FormAssumption
<1>1. PICK u \in [0 .. LastMonth -> Int] : Partial(u, f) /\ Sum(f) = u[LastMonth]
  BY SumRun
<1>2. PICK v \in [0 .. LastMonth -> Int] : Partial(v, g) /\ Sum(g) = v[LastMonth]
  BY SumRun
<1> DEFINE S == {n \in Nat : n <= LastMonth => u[n] <= v[n]}
<1>4. 0 \in S
  BY <1>1, <1>2 DEF Partial
<1>5. ASSUME NEW n \in Nat, n \in S PROVE n + 1 \in S
  <2> SUFFICES ASSUME n + 1 <= LastMonth PROVE u[n + 1] <= v[n + 1]
    BY <1>5
  <2>1. n + 1 \in Months /\ (n + 1) - 1 = n /\ n \in 0 .. LastMonth /\ u[n] <= v[n]
    BY <1>0, <1>5 DEF Months
  <2>2. u[n + 1] = u[n] + f[n + 1] /\ v[n + 1] = v[n] + g[n + 1]
    BY <1>1, <1>2, <2>1 DEF Partial
  <2>3. f[n + 1] <= g[n + 1] /\ f[n + 1] \in Int /\ g[n + 1] \in Int /\ u[n] \in Int /\ v[n] \in Int
    BY <2>1
  <2> QED
    BY <2>1, <2>2, <2>3
<1>6. Nat \subseteq S
  <2> HIDE DEF S
  <2> QED
    BY <1>4, <1>5, CountUp
<1> QED
  BY <1>0, <1>1, <1>2, <1>6

\* The months of a set, counted
Ones(A) == [m \in Months |-> IF m \in A THEN 1 ELSE 0]

LEMMA SumOnes ==
    ASSUME NEW A \in SUBSET Months
    PROVE  Sum(Ones(A)) = Cardinality(A) /\ IsFiniteSet(A)
<1>0. LastMonth \in Nat
  BY FormAssumption
<1>9. IsFiniteSet(Months)
  BY <1>0, FS_Interval DEF Months
<1>10. IsFiniteSet(A)
  BY <1>9, FS_Subset
<1>11. \A m \in A : m \in Nat /\ 1 <= m /\ m <= LastMonth
  BY <1>0 DEF Months
<1>1. Ones(A) \in [Months -> Int]
  BY DEF Ones
<1>2. PICK u \in [0 .. LastMonth -> Int] : Partial(u, Ones(A)) /\ Sum(Ones(A)) = u[LastMonth]
  BY <1>1, SumRun
<1> DEFINE Early(n) == {m \in A : m <= n}
           S == {n \in Nat : n <= LastMonth => u[n] = Cardinality(Early(n))}
<1>4. 0 \in S
  <2>1. Early(0) = {}
    BY <1>11
  <2> QED
    BY <1>2, <2>1, FS_EmptySet DEF Partial
<1>5. ASSUME NEW n \in Nat, n \in S PROVE n + 1 \in S
  <2> SUFFICES ASSUME n + 1 <= LastMonth PROVE u[n + 1] = Cardinality(Early(n + 1))
    BY <1>5
  <2>1. n + 1 \in Months /\ (n + 1) - 1 = n /\ n \in 0 .. LastMonth /\ u[n] = Cardinality(Early(n))
    BY <1>0, <1>5 DEF Months
  <2>2. u[n + 1] = u[n] + (IF n + 1 \in A THEN 1 ELSE 0) /\ u[n] \in Int
    BY <1>2, <2>1 DEF Partial, Ones
  <2>3. IsFiniteSet(Early(n)) /\ n + 1 \notin Early(n)
    BY <1>10, <1>5, FS_Subset
  <2>4. Early(n + 1) = IF n + 1 \in A THEN Early(n) \cup {n + 1} ELSE Early(n)
    <3>1. \A m \in A : m <= n + 1 <=> m <= n \/ m = n + 1
      BY <1>5, <1>11
    <3> QED
      BY <3>1, <1>5
  <2> HIDE DEF Early
  <2>5. Cardinality(Early(n) \cup {n + 1}) = Cardinality(Early(n)) + 1
    BY <2>3, FS_AddElement
  <2> QED
    BY <2>1, <2>2, <2>4, <2>5
<1>6. Nat \subseteq S
  <2> HIDE DEF S
  <2> QED
    BY <1>4, <1>5, CountUp
<1>7. Early(LastMonth) = A
  BY <1>11
<1> QED
  BY <1>0, <1>10, <1>2, <1>6, <1>7

\* No month exceeds the sum
LEMMA MonthInSum ==
    ASSUME NEW f \in [Months -> Nat], NEW m \in Months
    PROVE  f[m] <= Sum(f) /\ Sum(f) \in Nat
<1> DEFINE g == [k \in Months |-> Ones({m})[k] * f[m]]
           z == [k \in Months |-> Ones({})[k] * f[m]]
<1>1. f \in [Months -> Int] /\ Ones({m}) \in [Months -> Int] /\ Ones({}) \in [Months -> Int]
  BY DEF Ones
<1>2. \A k \in Months : g[k] = IF k = m THEN f[m] ELSE 0
  BY DEF Ones
<1>3. \A k \in Months : z[k] = 0
  BY DEF Ones
<1>4. /\ g \in [Months -> Int] /\ z \in [Months -> Int]
      /\ \A k \in Months : g[k] = Ones({m})[k] * f[m] /\ z[k] = Ones({})[k] * f[m]
  <2>1. \A k \in Months : g[k] \in Int /\ z[k] \in Int
    BY <1>2, <1>3
  <2> QED
    BY <2>1
<1> HIDE DEF g, z
<1>5. Sum(g) = Sum(Ones({m})) * f[m] /\ Sum(z) = Sum(Ones({})) * f[m]
  BY <1>1, <1>4, SumScale
<1>6. Sum(Ones({m})) = 1 /\ Sum(Ones({})) = 0
  BY SumOnes, FS_Singleton, FS_EmptySet
<1>7. Sum(g) = f[m] /\ Sum(z) = 0
  BY <1>5, <1>6
<1>8. Sum(g) <= Sum(f) /\ Sum(z) <= Sum(f)
  BY <1>1, <1>2, <1>3, <1>4, SumAtMost
<1>9. Sum(f) \in Int
  BY <1>1, SumRun
<1> QED
  BY <1>7, <1>8, <1>9

LEMMA DivMod ==
    ASSUME NEW a \in Nat, NEW t \in Nat \ {0}
    PROVE  /\ a \div t \in Nat /\ a % t \in 0 .. t - 1
           /\ a = t * (a \div t) + (a % t)
<1>1. a \div t \in Int /\ a % t \in 0 .. t - 1
  OBVIOUS
<1>2. a = t * (a \div t) + (a % t)
  OBVIOUS
<1>3. a \div t >= 0
  BY <1>1, <1>2
<1> QED
  BY <1>1, <1>2, <1>3

\* Where of any two elements one is ahead of the other, and of all that the other
\* is ahead of, just j have fewer than j ahead of them.
LEMMA Ranked ==
    ASSUME NEW S, IsFiniteSet(S), NEW A \in [S -> SUBSET S], NEW j \in 0 .. Cardinality(S),
           \A m \in S : m \notin A[m],
           \A m, k \in S : m # k => \/ m \in A[k] /\ A[m] \subseteq A[k]
                                    \/ k \in A[m] /\ A[k] \subseteq A[m]
    PROVE  Cardinality({m \in S : Cardinality(A[m]) < j}) = j
<1> DEFINE n == Cardinality(S)
           rank == [m \in S |-> Cardinality(A[m])]
           T == {m \in S : Cardinality(A[m]) < j}
<1>1. n \in Nat /\ j \in Nat /\ j <= n
  BY FS_CardinalityType
<1>2. \A m \in S : IsFiniteSet(A[m]) /\ Cardinality(A[m]) \in Nat
  BY FS_Subset, FS_CardinalityType
<1>3. ASSUME NEW m \in S, NEW k \in S, m \in A[k], A[m] \subseteq A[k]
      PROVE  Cardinality(A[m]) < Cardinality(A[k])
  <2>1. A[m] \cup {m} \in SUBSET A[k] /\ Cardinality(A[m] \cup {m}) = Cardinality(A[m]) + 1
    BY <1>2, <1>3, FS_AddElement
  <2>2. Cardinality(A[m] \cup {m}) <= Cardinality(A[k])
    BY <1>2, <2>1, FS_Subset
  <2> QED
    BY <1>2, <2>1, <2>2
<1>4. \A m \in S : Cardinality(A[m]) < n
  <2>1. ASSUME NEW m \in S PROVE Cardinality(A[m]) < n
    <3>1. A[m] \cup {m} \in SUBSET S /\ Cardinality(A[m] \cup {m}) = Cardinality(A[m]) + 1
      BY <1>2, FS_AddElement
    <3>2. Cardinality(A[m] \cup {m}) <= n
      BY <3>1, FS_Subset
    <3> QED
      BY <1>1, <1>2, <3>1, <3>2
  <2> QED
    BY <2>1
<1>5. \A m, k \in S : m # k => Cardinality(A[m]) # Cardinality(A[k])
  <2>1. ASSUME NEW m \in S, NEW k \in S, m # k PROVE Cardinality(A[m]) # Cardinality(A[k])
    <3>1. CASE m \in A[k] /\ A[m] \subseteq A[k]
      BY <1>2, <1>3, <3>1
    <3>2. CASE k \in A[m] /\ A[k] \subseteq A[m]
      BY <1>2, <1>3, <3>2
    <3> QED
      BY <2>1, <3>1, <3>2
  <2> QED
    BY <2>1
<1>6. rank \in [S -> 0 .. n - 1] /\ \A m \in S : rank[m] = Cardinality(A[m])
  BY <1>1, <1>2, <1>4
<1> HIDE DEF rank, n
<1>7. rank \in Injection(S, 0 .. n - 1)
  BY <1>5, <1>6 DEF Injection, IsInjective
<1>8. IsFiniteSet(0 .. n - 1) /\ Cardinality(0 .. n - 1) = n
  BY <1>1, FS_Interval
<1>9. rank \in Surjection(S, 0 .. n - 1)
  BY <1>7, <1>8, FS_Injection DEF n
<1>10. \A i \in 0 .. n - 1 : \E m \in S : rank[m] = i
  BY <1>9 DEF Surjection
<1> DEFINE f == [m \in T |-> rank[m]]
<1>11. f \in Bijection(T, 0 .. j - 1)
  <2>1. f \in [T -> 0 .. j - 1]
    BY <1>1, <1>2, <1>6
  <2>2. \A m, k \in T : f[m] = f[k] => m = k
    BY <1>5, <1>6
  <2>3. \A i \in 0 .. j - 1 : \E m \in T : f[m] = i
    BY <1>1, <1>6, <1>10
  <2> HIDE DEF f, T
  <2> QED
    BY <2>1, <2>2, <2>3 DEF Bijection, Injection, Surjection, IsInjective
<1>12. IsFiniteSet(T)
  BY FS_Subset
<1>13. Cardinality(0 .. j - 1) = j
  BY <1>1, FS_Interval
<1> HIDE DEF f, T
<1>14. Cardinality(0 .. j - 1) = Cardinality(T)
  BY <1>11, <1>12, FS_Bijection DEF ExistsBijection
<1> QED
  BY <1>13, <1>14 DEF T

(***************************************************************************)
(* Spreading a sum over the months.                                        *)
(***************************************************************************)

LEMMA TotalIs ==
    ASSUME NEW p \in [Months -> Nat], \A m \in Months : p[m] <= MaxSum
    PROVE  Total(p) = Sum(p) /\ Read(p) = p
<1>1. \A m \in Months : Cents(p[m]) = p[m]
  BY FormAssumption DEF Cents, Bad
<1> QED
  BY <1>1 DEF Total, Read

LEMMA Portions ==
    ASSUME NEW w \in [Months -> Nat], NEW s \in Nat, s <= MaxSum, \A m \in Months : w[m] <= MaxSum,
           Total(w) # 0
    PROVE  /\ Total(w) = Sum(w) /\ Sum(w) \in Nat \ {0}
           /\ Portion(w, s) \in [Months -> Nat] /\ Remainder(w, s) \in [Months -> Nat]
           /\ \A m \in Months : /\ w[m] * s = Sum(w) * Portion(w, s)[m] + Remainder(w, s)[m]
                                /\ Remainder(w, s)[m] < Sum(w) /\ Portion(w, s)[m] <= s
           /\ Total(Portion(w, s)) = Sum(Portion(w, s))
<1> DEFINE t == Sum(w)
<1>1. Total(w) = t
  BY TotalIs
<1>2. t \in Nat /\ t # 0 /\ \A m \in Months : w[m] <= t
  <2>1. \A m \in Months : w[m] <= t /\ t \in Nat
    BY MonthInSum
  <2>2. 1 \in Months
    BY FormAssumption DEF Months
  <2> QED
    BY <1>1, <2>1, <2>2
<1>3. /\ Portion(w, s) = [m \in Months |-> (w[m] * s) \div t]
      /\ Remainder(w, s) = [m \in Months |-> (w[m] * s) % t]
  BY <1>1 DEF Portion, Remainder
<1> HIDE DEF t
<1>4. ASSUME NEW m \in Months
      PROVE  /\ (w[m] * s) \div t \in Nat /\ (w[m] * s) % t \in Nat /\ (w[m] * s) % t < t
             /\ w[m] * s = t * ((w[m] * s) \div t) + ((w[m] * s) % t)
             /\ (w[m] * s) \div t <= s
  <2> DEFINE a == w[m] * s
  <2>1. a \in Nat /\ w[m] \in Nat
    OBVIOUS
  <2> HIDE DEF a
  <2>2. a \div t \in Nat /\ a % t \in 0 .. t - 1 /\ a = t * (a \div t) + (a % t)
    BY <1>2, <2>1, DivMod
  <2>3. a <= t * s
    BY <1>2, <2>1 DEF a
  <2>4. t * (a \div t) <= t * s
    BY <1>2, <2>1, <2>2, <2>3
  <2>5. a \div t <= s
    <3> DEFINE q == a \div t
    <3>1. q \in Nat /\ t * q <= t * s
      BY <2>2, <2>4
    <3> HIDE DEF q
    <3>2. q <= s
      BY <1>2, <3>1
    <3> QED
      BY <3>2 DEF q
  <2> QED
    BY <1>2, <2>2, <2>5 DEF a
<1>5. Portion(w, s) \in [Months -> Nat] /\ Remainder(w, s) \in [Months -> Nat]
  BY <1>3, <1>4
<1>6. \A m \in Months : /\ w[m] * s = t * Portion(w, s)[m] + Remainder(w, s)[m]
                        /\ Remainder(w, s)[m] < t /\ Portion(w, s)[m] <= s
  BY <1>3, <1>4
<1>7. \A m \in Months : Portion(w, s)[m] <= MaxSum
  BY <1>5, <1>6, FormAssumption
<1>8. Total(Portion(w, s)) = Sum(Portion(w, s))
  BY <1>5, <1>7, TotalIs
<1> QED
  BY <1>1, <1>2, <1>5, <1>6, <1>8 DEF t

\* What the portions leave over is less than there are months with a remainder
LEMMA LeftOver ==
    ASSUME NEW w \in [Months -> Nat], NEW s \in Nat, s <= MaxSum, \A m \in Months : w[m] <= MaxSum,
           Total(w) # 0
    PROVE  s - Sum(Portion(w, s)) \in 0 .. Cardinality({m \in Months : Remainder(w, s)[m] > 0})
<1> DEFINE t == Sum(w)
           q == Portion(w, s)
           r == Remainder(w, s)
           P == {m \in Months : r[m] > 0}
           c == Cardinality(P)
           ws == [m \in Months |-> w[m] * s]
           tq == [m \in Months |-> q[m] * t]
           most == [m \in Months |-> Ones(P)[m] * (t - 1)]
<1>1. /\ t \in Nat \ {0} /\ q \in [Months -> Nat] /\ r \in [Months -> Nat]
      /\ \A m \in Months : w[m] * s = t * q[m] + r[m] /\ r[m] < t
  BY Portions
<1>2. P \in SUBSET Months
  OBVIOUS
<1>3. Sum(Ones(P)) = c /\ c \in Nat
  BY <1>2, SumOnes, FS_CardinalityType
<1> HIDE DEF t, q, r, c
<1>4. Ones(P) \in [Months -> Int] /\ \A m \in Months : Ones(P)[m] = IF r[m] > 0 THEN 1 ELSE 0
  BY DEF Ones
<1>5. /\ w \in [Months -> Int] /\ q \in [Months -> Int] /\ r \in [Months -> Int]
      /\ ws \in [Months -> Int] /\ tq \in [Months -> Int] /\ most \in [Months -> Int]
      /\ \A m \in Months : /\ ws[m] = w[m] * s /\ tq[m] = q[m] * t
                           /\ most[m] = Ones(P)[m] * (t - 1)
  <2>1. w \in [Months -> Int] /\ q \in [Months -> Int] /\ r \in [Months -> Int] /\ t \in Int /\ t - 1 \in Int
    BY <1>1
  <2> QED
    BY <1>4, <2>1
<1>6. \A m \in Months : ws[m] = tq[m] + r[m]
  BY <1>1, <1>5
<1>7. \A m \in Months : 0 <= r[m] /\ r[m] <= most[m]
  <2>1. ASSUME NEW m \in Months PROVE 0 <= r[m] /\ r[m] <= most[m]
    <3>1. CASE r[m] > 0
      BY <1>1, <1>4, <1>5, <3>1
    <3>2. CASE r[m] = 0
      BY <1>1, <1>4, <1>5, <3>2
    <3>3. r[m] \in Nat
      BY <1>1
    <3> QED
      BY <3>1, <3>2, <3>3
  <2> QED
    BY <2>1
<1> HIDE DEF ws, tq, most, P
<1>8. Sum(ws) = t * s
  <2>1. Sum(ws) = Sum(w) * s
    BY <1>5, SumScale
  <2> QED
    BY <1>1, <2>1 DEF t
<1>9. Sum(tq) = Sum(q) * t
  BY <1>1, <1>5, SumScale
<1>10. Sum(ws) = Sum(tq) + Sum(r)
  BY <1>5, <1>6, SumAdd
<1>11. Sum(most) = c * (t - 1)
  <2>1. t - 1 \in Int
    BY <1>1
  <2>2. Sum(most) = Sum(Ones(P)) * (t - 1)
    BY <1>4, <1>5, <2>1, SumScale
  <2> QED
    BY <1>3, <2>2
<1>12. Sum(r) <= Sum(most)
  BY <1>5, <1>7, SumAtMost
<1>13. Sum(r) \in Nat
  <2>1. 1 \in Months
    BY FormAssumption DEF Months
  <2> QED
    BY <1>1, <2>1, MonthInSum
<1>14. Sum(q) \in Nat
  <2>1. 1 \in Months
    BY FormAssumption DEF Months
  <2> QED
    BY <1>1, <2>1, MonthInSum
<1> DEFINE left == s - Sum(q)
<1>15. left \in Int /\ t * left = Sum(r)
  <2>1. t * (s - Sum(q)) = t * s - Sum(q) * t
    BY <1>1, <1>14
  <2> QED
    BY <1>1, <1>8, <1>9, <1>10, <1>13, <1>14, <2>1
<1>16. t * left <= c * (t - 1)
  BY <1>11, <1>12, <1>15
<1> HIDE DEF left
<1>17. 0 <= left
  BY <1>1, <1>13, <1>15
<1>18. left <= c
  <2>1. c * (t - 1) <= t * c
    BY <1>1, <1>3
  <2>2. t * left <= t * c
    BY <1>1, <1>3, <1>15, <1>16, <2>1
  <2> QED
    BY <1>1, <1>3, <1>15, <2>2
<1>19. left \in 0 .. c
  BY <1>3, <1>15, <1>17, <1>18
<1> QED
  BY <1>19 DEF left, q, c, P, r

\* Of the months with the larger remainder, or the same and earlier, none is ahead of itself
LEMMA AheadRanks ==
    ASSUME NEW w, NEW s, Remainder(w, s) \in [Months -> Nat]
    PROVE  /\ [m \in Months |-> Ahead(w, s, m)] \in [Months -> SUBSET Months]
           /\ \A m \in Months : m \notin Ahead(w, s, m)
           /\ \A m, k \in Months : m # k =>
                \/ m \in Ahead(w, s, k) /\ Ahead(w, s, m) \subseteq Ahead(w, s, k)
                \/ k \in Ahead(w, s, m) /\ Ahead(w, s, k) \subseteq Ahead(w, s, m)
<1> DEFINE r == Remainder(w, s)
<1>1. \A m, k \in Months : k \in Ahead(w, s, m) <=> r[k] > r[m] \/ (r[k] = r[m] /\ k < m)
  BY DEF Ahead
<1>2. \A m \in Months : Ahead(w, s, m) \subseteq Months
  BY DEF Ahead
<1>3. \A m \in Months : r[m] \in Nat /\ m \in Int
  BY FormAssumption DEF Months
<1> HIDE DEF r
<1>4. \A m \in Months : m \notin Ahead(w, s, m)
  BY <1>1, <1>3
<1>5. \A m, k, l \in Months : m \in Ahead(w, s, k) /\ l \in Ahead(w, s, m) => l \in Ahead(w, s, k)
  BY <1>1, <1>3
<1>6. \A m, k \in Months : m # k => m \in Ahead(w, s, k) \/ k \in Ahead(w, s, m)
  BY <1>1, <1>3
<1> QED
  BY <1>2, <1>4, <1>5, <1>6

LEMMA Weighting ==
    ASSUME NEW w \in [Months -> Nat], NEW s \in Nat, s <= MaxSum, \A m \in Months : w[m] <= MaxSum,
           Total(w) # 0
    PROVE  /\ Weighted(w, s) \in [Months -> Nat] /\ Sum(Weighted(w, s)) = s
           /\ \A m \in Months : w[m] = 0 => Weighted(w, s)[m] = 0
           /\ \A m, k \in Months : w[m] < w[k] => Weighted(w, s)[m] <= Weighted(w, s)[k]
<1> DEFINE t == Sum(w)
           q == Portion(w, s)
           r == Remainder(w, s)
           P == {m \in Months : r[m] > 0}
           left == s - Sum(q)
           A == [m \in Months |-> Ahead(w, s, m)]
           T == {m \in Months : Cardinality(A[m]) < left}
           v == Weighted(w, s)
<1>1. /\ t \in Nat \ {0} /\ q \in [Months -> Nat] /\ r \in [Months -> Nat]
      /\ \A m \in Months : w[m] * s = t * q[m] + r[m] /\ r[m] < t
      /\ Total(q) = Sum(q)
  BY Portions
<1>2. left \in 0 .. Cardinality(P)
  BY LeftOver
<1>3. IsFiniteSet(Months)
  BY FormAssumption, FS_Interval DEF Months
<1>4. IsFiniteSet(P) /\ Cardinality(P) <= Cardinality(Months)
      /\ Cardinality(P) \in Nat /\ Cardinality(Months) \in Nat
  BY <1>3, FS_Subset, FS_CardinalityType
<1>5. /\ A \in [Months -> SUBSET Months]
      /\ \A m \in Months : m \notin A[m]
      /\ \A m, k \in Months : m # k => \/ m \in A[k] /\ A[m] \subseteq A[k]
                                       \/ k \in A[m] /\ A[k] \subseteq A[m]
  BY <1>1, AheadRanks
<1>6. \A m, k \in Months : k \in A[m] <=> r[k] > r[m] \/ (r[k] = r[m] /\ k < m)
  BY DEF Ahead
<1>7. \A m \in Months : v[m] = q[m] + (IF m \in T THEN 1 ELSE 0)
  BY <1>1 DEF Weighted
<1>8. v = [m \in Months |-> v[m]]
  BY DEF Weighted
<1> HIDE DEF t, q, r, left, A, v
<1>9. Cardinality(T) = left
  <2>1. left \in 0 .. Cardinality(Months)
    BY <1>2, <1>4
  <2>2. /\ A \in [Months -> SUBSET Months]
        /\ \A m \in Months : m \notin A[m]
    BY <1>5
  <2>3. \A m, k \in Months : m # k => \/ m \in A[k] /\ A[m] \subseteq A[k]
                                      \/ k \in A[m] /\ A[k] \subseteq A[m]
    BY <1>5
  <2> QED
    BY <1>3, <2>1, <2>2, <2>3, Ranked
<1>10. \A m \in Months : IsFiniteSet(A[m]) /\ Cardinality(A[m]) \in Nat
  BY <1>3, <1>5, FS_Subset, FS_CardinalityType
<1>11. \A m, k \in Months : m \in T /\ k \in A[m] => k \in T
  <2>1. ASSUME NEW m \in Months, NEW k \in Months, m \in T, k \in A[m] PROVE k \in T
    <3>1. A[k] \subseteq A[m]
      BY <1>5, <2>1
    <3>2. Cardinality(A[k]) <= Cardinality(A[m])
      BY <1>10, <3>1, FS_Subset
    <3>3. left \in Int /\ Cardinality(A[m]) < left
      BY <1>2, <1>4, <2>1
    <3> QED
      BY <1>10, <3>2, <3>3
  <2> QED
    BY <2>1
<1>12. v \in [Months -> Nat]
  <2>1. \A m \in Months : v[m] \in Nat
    BY <1>1, <1>7
  <2> QED
    BY <1>8, <2>1
<1>13. Sum(v) = s
  <2>1. T \in SUBSET Months /\ Ones(T) \in [Months -> Int]
    BY DEF Ones
  <2>2. Sum(Ones(T)) = left
    BY <1>9, <2>1, SumOnes
  <2>3. \A m \in Months : v[m] = q[m] + Ones(T)[m]
    <3> HIDE DEF T
    <3> QED
      BY <1>7 DEF Ones
  <2>4. q \in [Months -> Int] /\ v \in [Months -> Int]
    BY <1>1, <1>12
  <2>5. Sum(v) = Sum(q) + Sum(Ones(T))
    <3> HIDE DEF T
    <3> QED
      BY <2>1, <2>3, <2>4, SumAdd
  <2>6. Sum(q) \in Int
    BY <2>4, SumRun
  <2> QED
    BY <2>2, <2>5, <2>6 DEF left
<1>14. ASSUME NEW m \in Months, w[m] = 0 PROVE v[m] = 0
  <2>1. t * q[m] + r[m] = 0 /\ q[m] \in Nat /\ r[m] \in Nat
    BY <1>1, <1>14
  <2>2. q[m] = 0 /\ r[m] = 0
    <3> DEFINE a == q[m]
               b == r[m]
    <3>1. t \in Nat \ {0} /\ a \in Nat /\ b \in Nat /\ t * a + b = 0
      BY <1>1, <2>1
    <3> HIDE DEF a, b
    <3>2. a = 0 /\ b = 0
      <4>1. t * a \in Nat
        BY <3>1
      <4>2. b = 0 /\ t * a = 0
        BY <3>1, <4>1
      <4> QED
        BY <3>1, <4>2
    <3> QED
      BY <3>2 DEF a, b
  <2>3. P \subseteq A[m]
    BY <1>6, <2>2
  <2>4. Cardinality(P) <= Cardinality(A[m])
    BY <1>10, <2>3, FS_Subset
  <2>5. m \notin T
    BY <1>2, <1>4, <1>10, <2>4
  <2> HIDE DEF T
  <2> QED
    BY <1>7, <2>2, <2>5
<1>15. ASSUME NEW m \in Months, NEW k \in Months, w[m] < w[k] PROVE v[m] <= v[k]
  <2>1. /\ q[m] \in Nat /\ r[m] \in Nat /\ q[k] \in Nat /\ r[k] \in Nat /\ r[m] < t /\ r[k] < t
        /\ w[m] * s = t * q[m] + r[m] /\ w[k] * s = t * q[k] + r[k]
        /\ w[m] \in Nat /\ w[k] \in Nat
    BY <1>1
  <2>2. w[m] * s <= w[k] * s
    BY <1>15, <2>1
  <2>3. q[m] <= q[k]
    <3> SUFFICES ASSUME q[k] + 1 <= q[m] PROVE FALSE
      BY <2>1
    <3>1. t * (q[k] + 1) <= t * q[m]
      BY <1>1, <2>1
    <3>2. t * (q[k] + 1) = t * q[k] + t
      BY <1>1, <2>1
    <3> QED
      BY <1>1, <2>1, <2>2, <3>1, <3>2
  <2>4. CASE q[m] = q[k] /\ m \in T
    <3>1. s # 0
      <4> SUFFICES ASSUME s = 0 PROVE FALSE
        OBVIOUS
      <4>1. Sum(q) \in Nat
        BY <1>1, MonthInSum
      <4>2. left = 0
        BY <1>2, <1>4, <4>1 DEF left
      <4> QED
        BY <1>10, <2>4, <4>2
    <3>2. w[m] * s < w[k] * s
      BY <1>15, <2>1, <3>1
    <3>3. r[m] < r[k]
      BY <1>1, <2>1, <2>4, <3>2
    <3>4. k \in T
      BY <1>6, <1>11, <2>4, <3>3
    <3> HIDE DEF T
    <3> QED
      BY <1>7, <2>1, <2>4, <3>4
  <2>5. CASE q[m] = q[k] /\ m \notin T
    <3> HIDE DEF T
    <3> QED
      BY <1>7, <2>1, <2>5
  <2>6. CASE q[m] < q[k]
    <3> HIDE DEF T
    <3> QED
      BY <1>7, <2>1, <2>6
  <2> QED
    BY <2>1, <2>3, <2>4, <2>5, <2>6
<1> QED
  BY <1>12, <1>13, <1>14, <1>15 DEF v

LEMMA Evening ==
    ASSUME NEW open \in SUBSET Months, open # {}, NEW s \in Nat
    PROVE  /\ Evenly(open, s) \in [Months -> Nat]
           /\ Sum([m \in Months |-> IF m \in open THEN Evenly(open, s)[m] ELSE 0]) = s
<1> DEFINE n == Cardinality(open)
           q == s \div n
           j == s % n
           A == [m \in open |-> {k \in open : k < m}]
           T == {m \in open : Cardinality(A[m]) < j}
           e == Evenly(open, s)
           even == [m \in Months |-> Ones(open)[m] * q]
           v == [m \in Months |-> IF m \in open THEN e[m] ELSE 0]
<1>1. IsFiniteSet(Months)
  BY FormAssumption, FS_Interval DEF Months
<1>2. IsFiniteSet(open) /\ n \in Nat \ {0}
  BY <1>1, FS_Subset, FS_CardinalityType, FS_EmptySet
<1>3. q \in Nat /\ j \in 0 .. n - 1 /\ s = n * q + j
  <2> HIDE DEF n
  <2>1. s \div n \in Nat /\ s % n \in 0 .. n - 1 /\ s = n * (s \div n) + (s % n)
    BY <1>2, DivMod
  <2> QED
    BY <2>1
<1>4. e \in [Months -> Nat] /\ \A m \in open : e[m] = q + (IF m \in T THEN 1 ELSE 0)
  <2>1. e = [m \in Months |-> q + (IF Cardinality({k \in open : k < m}) < j THEN 1 ELSE 0)]
    BY DEF Evenly
  <2> HIDE DEF q, j, e
  <2> QED
    BY <1>3, <2>1
<1>5. \A m, k \in open : k \in A[m] <=> k < m
  OBVIOUS
<1>6. A \in [open -> SUBSET open]
  OBVIOUS
<1>7. \A m \in open : m \in Int
  BY FormAssumption DEF Months
<1> HIDE DEF n, q, j, A, e
<1>8. Cardinality(T) = j
  <2>1. j \in 0 .. Cardinality(open)
    BY <1>2, <1>3 DEF n
  <2>2. \A m \in open : m \notin A[m]
    BY <1>5, <1>7
  <2>3. \A m, k \in open : m # k => \/ m \in A[k] /\ A[m] \subseteq A[k]
                                    \/ k \in A[m] /\ A[k] \subseteq A[m]
    <3>1. ASSUME NEW m \in open, NEW k \in open, m < k PROVE m \in A[k] /\ A[m] \subseteq A[k]
      <4>1. \A l \in A[m] : l \in open /\ l < m
        BY <1>5, <1>6
      <4>2. \A l \in A[m] : l < k
        BY <1>7, <3>1, <4>1
      <4> QED
        BY <1>5, <3>1, <4>1, <4>2
    <3> QED
      BY <1>7, <3>1
  <2> QED
    BY <1>2, <1>6, <2>1, <2>2, <2>3, Ranked
<1>9. T \subseteq open
  OBVIOUS
<1> HIDE DEF T
<1>10. Ones(open) \in [Months -> Int] /\ Ones(T) \in [Months -> Int]
  BY DEF Ones
<1>11. Sum(Ones(open)) = n /\ Sum(Ones(T)) = j
  BY <1>8, <1>9, SumOnes DEF n
<1>12. even \in [Months -> Int] /\ \A m \in Months : even[m] = Ones(open)[m] * q
  BY <1>3, <1>10
<1>13. v \in [Months -> Int]
  BY <1>4
<1>14. \A m \in Months : v[m] = even[m] + Ones(T)[m]
  <2>1. ASSUME NEW m \in Months, m \in open PROVE v[m] = even[m] + Ones(T)[m]
    BY <1>3, <1>4, <2>1 DEF Ones
  <2>2. ASSUME NEW m \in Months, m \notin open PROVE v[m] = even[m] + Ones(T)[m]
    BY <1>3, <1>9, <2>2 DEF Ones
  <2> QED
    BY <2>1, <2>2
<1> HIDE DEF even, v
<1>15. Sum(even) = n * q
  BY <1>3, <1>10, <1>11, <1>12, SumScale
<1>16. Sum(v) = Sum(even) + Sum(Ones(T))
  BY <1>10, <1>12, <1>13, <1>14, SumAdd
<1>17. Sum(v) = s
  BY <1>2, <1>3, <1>11, <1>15, <1>16
<1> QED
  BY <1>4, <1>17 DEF v, e

\* What is spread adds up to the sum; a locked month keeps what it holds, and no
\* larger open month becomes the smaller one.
LEMMA Spreading ==
    ASSUME NEW p \in [Months -> Nat], \A m \in Months : p[m] <= MaxSum,
           NEW s \in Nat, s <= MaxSum, NEW fixed \in SUBSET Months, Fits(p, s, fixed)
    PROVE  /\ Spread(p, s, fixed) \in [Months -> Nat] /\ Sum(Spread(p, s, fixed)) = s
           /\ \A m \in Months : Spread(p, s, fixed)[m] <= s
           /\ \A m \in fixed : Spread(p, s, fixed)[m] = p[m]
           /\ \A m, k \in Months \ fixed :
                p[m] < p[k] => Spread(p, s, fixed)[m] <= Spread(p, s, fixed)[k]
<1> DEFINE open == Months \ fixed
           held == [m \in Months |-> IF m \in fixed THEN p[m] ELSE 0]
           weights == [m \in Months |-> IF m \in open THEN p[m] ELSE 0]
           rest == s - Sum(held)
           shares == IF Total(weights) = 0 THEN Evenly(open, rest) ELSE Weighted(weights, rest)
           given == [m \in Months |-> IF m \in open THEN shares[m] ELSE 0]
           v == Spread(p, s, fixed)
<1>1. 1 \in Months
  BY FormAssumption DEF Months
<1>2. /\ held \in [Months -> Nat] /\ weights \in [Months -> Nat]
      /\ \A m \in Months : held[m] <= MaxSum /\ weights[m] <= MaxSum
      /\ \A m \in Months : held[m] = IF m \in fixed THEN p[m] ELSE 0
      /\ \A m \in Months : weights[m] = IF m \in open THEN p[m] ELSE 0
  BY FormAssumption
<1>3. Total(held) = Sum(held) /\ Sum(held) \in Nat /\ Total(weights) = Sum(weights)
  <2>1. \A m \in Months : held[m] <= MaxSum
    BY <1>2
  <2>2. \A m \in Months : weights[m] <= MaxSum
    BY <1>2
  <2>3. held \in [Months -> Nat] /\ weights \in [Months -> Nat]
    BY <1>2
  <2> HIDE DEF held, weights
  <2>4. Total(held) = Sum(held)
    BY <2>1, <2>3, TotalIs
  <2>5. Total(weights) = Sum(weights)
    BY <2>2, <2>3, TotalIs
  <2>6. Sum(held) \in Nat
    BY <1>1, <2>3, MonthInSum
  <2> QED
    BY <2>4, <2>5, <2>6
<1>4. Sum(held) <= s /\ (fixed = Months => Sum(held) = s)
  BY <1>3 DEF Fits
<1>5. rest \in Nat /\ rest <= s
  BY <1>3, <1>4
<1>6. v = [m \in Months |-> IF m \in open THEN shares[m] ELSE p[m]]
  <2>1. [m \in Months |-> IF m \in open THEN 0 ELSE p[m]] = held
    OBVIOUS
  <2> QED
    BY <1>3, <2>1 DEF Spread
<1>7. CASE open = {}
  <2>1. \A m \in Months : v[m] = held[m]
    BY <1>2, <1>6, <1>7
  <2>2. v \in [Months -> Nat]
    BY <1>6, <1>7
  <2>3. v = held
    BY <1>6, <2>1
  <2>4. fixed = Months
    BY <1>7
  <2> HIDE DEF v, held
  <2>5. Sum(v) = s
    BY <1>4, <2>3, <2>4
  <2>6. \A m \in Months : v[m] <= s
    BY <2>2, <2>5, MonthInSum
  <2>7. \A m \in fixed : v[m] = p[m]
    BY <1>2, <2>1
  <2> QED
    BY <1>7, <2>2, <2>5, <2>6, <2>7 DEF v
<1>8. CASE open # {}
  <2>1. /\ shares \in [Months -> Nat] /\ Sum(given) = rest
        /\ \A m, k \in open : p[m] < p[k] => shares[m] <= shares[k]
    <3>1. CASE Total(weights) = 0
      <4>1. shares = Evenly(open, rest)
        BY <3>1
      <4>2. \A m \in open : p[m] = 0
        <5>1. ASSUME NEW m \in open PROVE p[m] = 0
          <6>1. weights[m] <= Sum(weights)
            <7> HIDE DEF weights
            <7> QED
              BY <1>2, MonthInSum
          <6> QED
            BY <1>2, <1>3, <3>1, <6>1
        <5> QED
          BY <5>1
      <4>3. /\ Evenly(open, rest) \in [Months -> Nat]
            /\ Sum([m \in Months |-> IF m \in open THEN Evenly(open, rest)[m] ELSE 0]) = rest
        <5> HIDE DEF rest
        <5> QED
          BY <1>5, <1>8, Evening
      <4> HIDE DEF shares, rest
      <4>4. given = [m \in Months |-> IF m \in open THEN Evenly(open, rest)[m] ELSE 0]
        BY <4>1
      <4> HIDE DEF given
      <4> QED
        BY <4>1, <4>2, <4>3, <4>4
    <3>2. CASE Total(weights) # 0
      <4>1. shares = Weighted(weights, rest)
        BY <3>2
      <4>2. rest <= MaxSum
        BY <1>5, FormAssumption
      <4>3. \A m \in Months : weights[m] <= MaxSum
        BY <1>2
      <4>4. weights \in [Months -> Nat]
        BY <1>2
      <4>5. \A m \in open : weights[m] = p[m]
        BY <1>2
      <4>6. \A m \in Months \ open : weights[m] = 0
        BY <1>2
      <4> HIDE DEF weights, rest, shares
      <4>7. /\ shares \in [Months -> Nat] /\ Sum(shares) = rest
            /\ \A m \in Months : weights[m] = 0 => shares[m] = 0
            /\ \A m, k \in Months : weights[m] < weights[k] => shares[m] <= shares[k]
        BY <1>5, <3>2, <4>1, <4>2, <4>3, <4>4, Weighting
      <4>8. given = shares
        <5>1. \A m \in Months : given[m] = shares[m]
          BY <4>6, <4>7
        <5> QED
          BY <4>7, <5>1
      <4>9. \A m, k \in open : p[m] < p[k] => shares[m] <= shares[k]
        BY <4>5, <4>7
      <4> HIDE DEF given
      <4> QED
        BY <4>7, <4>8, <4>9
    <3> QED
      BY <3>1, <3>2
  <2> HIDE DEF shares
  <2>2. given \in [Months -> Nat]
    BY <2>1
  <2>3. v \in [Months -> Nat]
    BY <1>6, <2>1
  <2>4. \A m \in Months : v[m] = held[m] + given[m]
    <3>1. ASSUME NEW m \in open PROVE v[m] = held[m] + given[m]
      BY <1>2, <1>6, <2>1
    <3>2. ASSUME NEW m \in fixed PROVE v[m] = held[m] + given[m]
      BY <1>2, <1>6, <2>1
    <3> QED
      BY <3>1, <3>2
  <2>5. \A m \in open : v[m] = shares[m]
    BY <1>6
  <2>6. \A m \in fixed : v[m] = p[m]
    BY <1>6
  <2>7. held \in [Months -> Int] /\ given \in [Months -> Int] /\ v \in [Months -> Int]
    BY <1>2, <2>2, <2>3
  <2> HIDE DEF held, given, v
  <2>8. Sum(v) = s
    <3>1. Sum(v) = Sum(held) + Sum(given)
      BY <2>4, <2>7, SumAdd
    <3> QED
      BY <1>3, <1>5, <2>1, <3>1 DEF rest
  <2>9. \A m \in Months : v[m] <= s
    BY <2>3, <2>8, MonthInSum
  <2>10. \A m, k \in open : p[m] < p[k] => v[m] <= v[k]
    BY <2>1, <2>5
  <2> QED
    BY <2>3, <2>6, <2>8, <2>9, <2>10 DEF v
<1> QED
  BY <1>7, <1>8

(***************************************************************************)
(* The form keeps its types: a month that was spread is a sum again.       *)
(***************************************************************************)

LEMMA ReadMonths ==
    ASSUME months \in [Months -> Sums \cup {Bad}]
    PROVE  /\ Read(months) \in [Months -> Nat]
           /\ \A m \in Months : Read(months)[m] = Cents(months[m]) /\ Cents(months[m]) \in Sums
<1>1. \A m \in Months : Cents(months[m]) \in Sums
  BY FormAssumption DEF Cents, Sums, Bad
<1>2. \A x \in Sums : x \in Nat
  BY FormAssumption DEF Sums
<1> QED
  BY <1>1, <1>2 DEF Read

LEMMA TargetTyped ==
    ASSUME TypeOK, NEW x \in Sums, TypeTarget(x)
    PROVE  /\ months' \in [Months -> Sums \cup {Bad}] /\ target' = x
           /\ months' # months => /\ Total(months') = x
                                  /\ \A m \in locked : months'[m] = Cents(months[m])
<1> DEFINE p == [m \in Months |-> IF m \in locked THEN Cents(months[m]) ELSE 0]
           v == Spread(p, x, locked)
<1>1. \A m \in Months : Cents(months[m]) \in Nat /\ Cents(months[m]) <= MaxSum
  BY ReadMonths, FormAssumption DEF TypeOK, Sums
<1>2. p \in [Months -> Nat] /\ \A m \in Months : p[m] <= MaxSum
  BY <1>1, FormAssumption
<1>3. \A m \in locked : p[m] = Cents(months[m])
  BY DEF TypeOK
<1>4. x \in Nat /\ x <= MaxSum /\ locked \in SUBSET Months
  BY FormAssumption DEF Sums, TypeOK
<1>5. target' = x /\ months' = IF Fits(p, x, locked) THEN v ELSE months
  BY DEF TypeTarget
<1> HIDE DEF p
<1>6. CASE Fits(p, x, locked)
  <2>1. /\ v \in [Months -> Nat] /\ Sum(v) = x /\ \A m \in Months : v[m] <= x
        /\ \A m \in locked : v[m] = p[m]
    BY <1>2, <1>4, <1>6, Spreading
  <2> HIDE DEF v
  <2>2. \A m \in Months : v[m] \in Sums /\ v[m] <= MaxSum
    BY <1>4, <2>1, FormAssumption DEF Sums
  <2>3. v \in [Months -> Sums \cup {Bad}]
    BY <2>1, <2>2
  <2>4. Total(v) = x
    BY <2>1, <2>2, TotalIs
  <2> QED
    BY <1>3, <1>5, <1>6, <2>1, <2>3, <2>4
<1>7. CASE ~ Fits(p, x, locked)
  BY <1>5, <1>7 DEF TypeOK
<1> QED
  BY <1>6, <1>7

LEMMA Redistributed ==
    ASSUME TypeOK, Redistribute
    PROVE  /\ months' \in [Months -> Sums \cup {Bad}] /\ target' = target
           /\ Total(months') = target'
           /\ \A m \in locked : months'[m] = Cents(months[m])
           /\ \A m, k \in Months \ locked :
                 Cents(months[m]) < Cents(months[k]) => months'[m] <= months'[k]
<1> DEFINE p == Read(months)
           v == Spread(p, target, locked)
<1>1. p \in [Months -> Nat] /\ \A m \in Months : p[m] = Cents(months[m]) /\ Cents(months[m]) \in Sums
  BY ReadMonths DEF TypeOK
<1>2. \A m \in Months : p[m] <= MaxSum
  BY <1>1, FormAssumption DEF Sums
<1>3. target \in Nat /\ target <= MaxSum /\ locked \in SUBSET Months
  BY FormAssumption DEF Sums, TypeOK
<1>4. target' = target /\ months' = v /\ Fits(p, target, locked)
  BY DEF Redistribute
<1> HIDE DEF p
<1>5. /\ v \in [Months -> Nat] /\ Sum(v) = target /\ \A m \in Months : v[m] <= target
      /\ \A m \in locked : v[m] = p[m]
      /\ \A m, k \in Months \ locked : p[m] < p[k] => v[m] <= v[k]
  BY <1>1, <1>2, <1>3, <1>4, Spreading
<1> HIDE DEF v
<1>6. \A m \in Months : v[m] \in Sums /\ v[m] <= MaxSum
  BY <1>3, <1>5, FormAssumption DEF Sums
<1>7. v \in [Months -> Sums \cup {Bad}]
  BY <1>5, <1>6
<1>8. Total(v) = target
  BY <1>5, <1>6, TotalIs
<1> QED
  BY <1>1, <1>3, <1>4, <1>5, <1>7, <1>8

LEMMA FormTyped == Init => TypeOK
<1> SUFFICES ASSUME Init PROVE TypeOK
  OBVIOUS
<1>1. 0 \in Sums /\ 0 \in 0 .. MaxEntries /\ 0 \in 0 .. MaxLosses
  BY FormAssumption DEF Sums
<1>2. months \in [Months -> Sums \cup {Bad}]
  BY <1>1 DEF Init, Nothing
<1>3. DOMAIN lines = {}
  BY DEF Init
<1> QED
  BY <1>1, <1>2, <1>3 DEF Init, TypeOK

\* What the chain of posts may change, and what the user types
ChainTyped ==
    /\ entry \in 0 .. MaxEntries
    /\ create = Idle \/ create.entry \in 0 .. entry
    /\ DOMAIN lines \subseteq 1 .. MaxLines
    /\ \A l \in DOMAIN lines : lines[l].entry \in 0 .. entry /\ lines[l].files \subseteq Files
    /\ told \in {"nothing", "added", "failed"}
    /\ losses \in 0 .. MaxLosses
FieldsTyped ==
    /\ target \in Sums /\ months \in [Months -> Sums \cup {Bad}]
    /\ locked \subseteq Months /\ named \in BOOLEAN /\ files \subseteq Files

LEMMA FieldsStep == TypeOK /\ [Next]_vars => FieldsTyped' /\ draft' \in BOOLEAN
<1> SUFFICES ASSUME TypeOK, [Next]_vars PROVE FieldsTyped' /\ draft' \in BOOLEAN
  OBVIOUS
<1> USE DEF FieldsTyped
<1>1. ASSUME NEW x \in Sums, TypeTarget(x) PROVE FieldsTyped' /\ draft' \in BOOLEAN
  BY <1>1, TargetTyped DEF TypeOK, TypeTarget, Fill
<1>2. CASE Redistribute
  BY <1>2, Redistributed DEF TypeOK, Redistribute, Fill
<1>3. ASSUME NEW m \in Months, NEW x \in Sums \cup {Bad}, TypeMonth(m, x)
      PROVE  FieldsTyped' /\ draft' \in BOOLEAN
  BY <1>3 DEF TypeOK, TypeMonth, Fill
<1>4. ASSUME NEW m \in Months, Lock(m) PROVE FieldsTyped' /\ draft' \in BOOLEAN
  BY <1>4 DEF TypeOK, Lock, Fill
<1>5. CASE Name
  BY <1>5 DEF TypeOK, Name, Fill
<1>6. ASSUME NEW f \in Files, AddFile(f) \/ RemoveFile(f) PROVE FieldsTyped' /\ draft' \in BOOLEAN
  BY <1>6 DEF TypeOK, AddFile, RemoveFile, Pick, Fill
<1>7. CASE UNCHANGED <<fields, draft>> \/ (UNCHANGED fields /\ draft' = FALSE)
  BY <1>7 DEF TypeOK, fields
<1>8. CASE Blank /\ UNCHANGED draft
  <2>1. 0 \in Sums
    BY FormAssumption DEF Sums
  <2>2. Nothing \in [Months -> Sums \cup {Bad}]
    BY <2>1 DEF Nothing
  <2> QED
    BY <1>8, <2>1, <2>2 DEF Blank, TypeOK
<1>9. CASE Chain \/ Submit \/ UNCHANGED vars
  BY <1>7, <1>8, <1>9 DEF Chain, Add, ServeCreate, LoseCreate, Attach, RefuseFile, Submit, vars,
     CreationFailed, AttachmentFailed, Finished, Clear
<1> QED
  BY <1>1, <1>2, <1>3, <1>4, <1>5, <1>6, <1>9 DEF Next, Typing

LEMMA ChainStep == TypeOK /\ FormInv /\ [Next]_vars => ChainTyped'
<1> SUFFICES ASSUME TypeOK, FormInv, [Next]_vars PROVE ChainTyped'
  OBVIOUS
<1>1. ChainTyped /\ entry \in Nat /\ MaxEntries \in Nat /\ MaxLosses \in Nat /\ MaxLines \in Nat
  BY FormAssumption DEF TypeOK, ChainTyped
<1>2. CASE UNCHANGED <<entry, create, lines, told, losses>>
  BY <1>1, <1>2 DEF ChainTyped
<1>3. CASE Add
  BY <1>1, <1>3 DEF ChainTyped, Add
\* When the chain ends the form is as it was, or the next filling-in
<1>4. ASSUME create' = Idle, entry' = entry \/ (entry < MaxEntries /\ entry' = entry + 1),
             told' \in {"added", "failed"}, losses' \in 0 .. MaxLosses,
             DOMAIN lines' \subseteq 1 .. MaxLines,
             \A l \in DOMAIN lines' : lines'[l].entry \in 0 .. entry /\ lines'[l].files \subseteq Files
      PROVE  ChainTyped'
  BY <1>1, <1>4 DEF ChainTyped
<1>5. ASSUME Created, create # Idle
      PROVE  /\ DOMAIN lines' \subseteq 1 .. MaxLines
             /\ \A l \in DOMAIN lines' :
                   lines'[l].entry \in 0 .. entry /\ lines'[l].files \subseteq Files
  <2>1. PICK n \in Nat :
            /\ DOMAIN lines = 1 .. n /\ Cardinality(DOMAIN lines) = n
            /\ DOMAIN lines' = 1 .. (n + 1)
            /\ lines'[n + 1] = [entry |-> create.entry, files |-> {}]
            /\ \A l \in 1 .. n : lines'[l] = lines[l]
    BY <1>5, OneMore DEF FormInv
  <2>2. n < MaxLines
    BY <1>5, <2>1 DEF Created
  <2>3. \A l \in 1 .. (n + 1) : l \in 1 .. n \/ l = n + 1
    OBVIOUS
  <2>4. create.entry \in 0 .. entry
    BY <1>1, <1>5 DEF ChainTyped
  <2>5. \A l \in 1 .. n : lines[l].entry \in 0 .. entry /\ lines[l].files \subseteq Files
    BY <1>1, <2>1 DEF ChainTyped
  <2>6. ASSUME NEW l \in 1 .. (n + 1)
        PROVE  lines'[l].entry \in 0 .. entry /\ lines'[l].files \subseteq Files
    <3>1. CASE l \in 1 .. n
      BY <2>1, <2>5, <3>1
    <3>2. CASE l = n + 1
      BY <2>1, <2>4, <3>2
    <3> QED
      BY <2>3, <3>1, <3>2
  <2>7. 1 .. (n + 1) \subseteq 1 .. MaxLines
    BY <1>1, <2>2
  <2> QED
    BY <2>1, <2>6, <2>7
<1>6. CASE ServeCreate
  <2>1. create # Idle /\ losses' = losses /\ losses' \in 0 .. MaxLosses
    BY <1>1, <1>6 DEF ServeCreate, FormInv, MutationOK, Idle, ChainTyped
  <2>2. CASE ~Accepted
    BY <1>1, <1>4, <1>6, <2>1, <2>2 DEF ServeCreate, CreationFailed, ChainTyped
  <2>3. CASE Accepted /\ create.files = {}
    BY <1>4, <1>5, <1>6, <2>1, <2>3 DEF ServeCreate, Finished, Clear
  <2>4. CASE Accepted /\ create.files # {}
    <3>1. /\ create' = [create EXCEPT !.state = "attach", !.line = Cardinality(DOMAIN lines) + 1]
          /\ Created /\ UNCHANGED <<entry, told>>
      BY <1>6, <2>4 DEF ServeCreate
    <3>2. create'.entry = create.entry
      BY <2>1, <3>1 DEF FormInv, MutationOK, IsMutation
    <3> QED
      BY <1>1, <1>5, <2>1, <3>1, <3>2 DEF ChainTyped
  <2> QED
    BY <2>2, <2>3, <2>4
<1>7. CASE LoseCreate
  <2>1. create # Idle
    BY <1>7 DEF LoseCreate, FormInv, MutationOK, Idle
  <2>2. losses' \in 0 .. MaxLosses
    BY <1>1, <1>7 DEF LoseCreate, ChainTyped
  <2> QED
    BY <1>4, <1>5, <1>7, <2>1, <2>2 DEF LoseCreate, CreationFailed
<1>8. ASSUME NEW f \in Files, Attach(f) PROVE ChainTyped'
  <2> DEFINE k == create.line
             row == [lines[k] EXCEPT !.files = @ \cup {f}]
  <2>1. /\ k \in DOMAIN lines /\ create # Idle /\ IsMutation(create)
        /\ lines' = [lines EXCEPT ![k] = row] /\ losses' = losses
    BY <1>8 DEF Attach, FormInv, MutationOK, SentSoFar, Idle
  <2>2. row.entry \in 0 .. entry /\ row.files \subseteq Files
    BY <1>1, <2>1 DEF ChainTyped
  <2> HIDE DEF row
  <2>3. /\ DOMAIN lines' = DOMAIN lines
        /\ \A l \in DOMAIN lines' : lines'[l] = IF l = k THEN row ELSE lines[l]
    BY <2>1
  <2>4. /\ DOMAIN lines' \subseteq 1 .. MaxLines
        /\ \A l \in DOMAIN lines' : lines'[l].entry \in 0 .. entry /\ lines'[l].files \subseteq Files
    BY <1>1, <2>2, <2>3 DEF ChainTyped
  <2>5. CASE create.left = {f}
    BY <1>1, <1>4, <1>8, <2>1, <2>4, <2>5 DEF Attach, Finished, Clear, ChainTyped
  <2>6. CASE create.left # {f}
    <3>1. create' = [create EXCEPT !.left = @ \ {f}] /\ UNCHANGED <<entry, told>>
      BY <1>8, <2>6 DEF Attach
    <3>2. create'.entry = create.entry
      BY <2>1, <3>1 DEF IsMutation
    <3> QED
      BY <1>1, <2>1, <2>4, <3>1, <3>2 DEF ChainTyped
  <2> QED
    BY <2>5, <2>6
<1>9. ASSUME NEW f \in Files, RefuseFile(f) PROVE ChainTyped'
  BY <1>1, <1>4, <1>9 DEF RefuseFile, AttachmentFailed, Clear, ChainTyped
<1>10. CASE UNCHANGED vars \/ Typing \/ Submit
  <2>1. UNCHANGED <<entry, create, lines, told, losses>>
    BY <1>10 DEF vars, Typing, Submit, TypeTarget, Lock, TypeMonth, Redistribute, Name, AddFile,
                 RemoveFile, Fill
  <2> QED
    BY <1>2, <2>1
<1> QED
  BY <1>3, <1>6, <1>7, <1>8, <1>9, <1>10 DEF Next, Chain

LEMMA FormTypeStep == TypeOK /\ FormInv /\ [Next]_vars => TypeOK'
<1> SUFFICES ASSUME TypeOK, FormInv, [Next]_vars PROVE TypeOK'
  OBVIOUS
<1>1. FieldsTyped' /\ draft' \in BOOLEAN /\ ChainTyped'
  BY FieldsStep, ChainStep
<1> QED
  BY <1>1 DEF TypeOK, FieldsTyped, ChainTyped

\* What is sent is what was meant, for any number of months and any sums: the months keep
\* their types, a sum that is spread is spread to the last unit over the months that are
\* not locked, larger months stay the larger ones (redistributeMonthPlans and
\* redistributeUnlockedMonthPlans of RequestDetailsPage.tsx), and the files arrive.
THEOREM EnteredAsMeant == Spec => LinesAsEntered
<1>1. Spec => [](TypeOK /\ FormInv)
  <2>1. Init => TypeOK /\ FormInv
    BY FormInit, FormTyped
  <2>2. TypeOK /\ FormInv /\ [Next]_vars => (TypeOK /\ FormInv)'
    BY FormNext, FormTypeStep
  <2> QED
    BY <2>1, <2>2, PTL DEF Spec
<1>2. TypeOK =>
        [months' # months /\ (Redistribute \/ \E x \in Sums : TypeTarget(x))
           => /\ Total(months') = target'
              /\ \A m \in locked : months'[m] = Cents(months[m])]_vars
  BY TargetTyped, Redistributed
<1>3. TypeOK =>
        [Redistribute =>
           \A m, k \in Months \ locked :
               Cents(months[m]) < Cents(months[k]) => months'[m] <= months'[k]]_vars
  BY Redistributed
<1>4. Spec => SpreadExactly
  BY <1>1, <1>2, PTL DEF SpreadExactly
<1>5. Spec => OrderKept
  BY <1>1, <1>3, PTL DEF OrderKept
<1> QED
  BY <1>1, <1>4, <1>5, AddedIsWhole, PTL DEF LinesAsEntered

(***************************************************************************)
(* The list of the requests                                                *)
(***************************************************************************)

(***************************************************************************)
(* Calls.  A call under way names a module to create in or a request, and  *)
(* a creation that was answered names the request it made or found.        *)
(***************************************************************************)

CallOK(c) ==
    c # AtRest =>
        /\ c.op = "create" => c.on \in Modules
        /\ c.op # "create" => c.on \in Requests
        /\ c.op = "create" /\ c.state \in {"ok", "existing"} => c.id \in Requests

CallsOK == call \in [Actors -> {AtRest} \cup Call] /\ \A a \in Actors : CallOK(call[a])

\* No call begins, and none changes what it is about
NoNewCall ==
    \A a \in Actors :
        call'[a] # AtRest =>
            call[a] # AtRest /\ call'[a].op = call[a].op /\ call'[a].on = call[a].on

LEMMA CallMoved ==
    ASSUME CallsOK, NEW a \in Actors, NEW c \in {AtRest} \cup Call, CallOK(c),
           call' = [call EXCEPT ![a] = c]
    PROVE  /\ CallsOK'
           /\ (c # AtRest => call[a] # AtRest /\ c.op = call[a].op /\ c.on = call[a].on) => NoNewCall
<1>1. \A b \in Actors : call'[b] = IF b = a THEN c ELSE call[b]
  BY DEF CallsOK
<1>2. call' \in [Actors -> {AtRest} \cup Call]
  BY DEF CallsOK
<1> QED
  BY <1>1, <1>2 DEF CallsOK, NoNewCall

LEMMA CallSent ==
    ASSUME CallsOK, NEW a \in Actors, NEW op \in {"create", "delete", "restore"},
           NEW on, IF op = "create" THEN on \in Modules ELSE on \in Requests, Send(a, op, on)
    PROVE  CallsOK' /\ \A b \in Actors : b # a => call'[b] = call[b]
<1> DEFINE c == [op |-> op, on |-> on, state |-> "sent", id |-> None]
<1>1. c \in Call /\ CallOK(c)
  BY DEF Call, CallOK
<1>2. call' = [call EXCEPT ![a] = c]
  BY DEF Send
<1> HIDE DEF c
<1> QED
  BY <1>1, <1>2, CallMoved DEF CallsOK

\* The answer of the server, which the other actor only hears as an end
LEMMA CallReplied ==
    ASSUME CallsOK, NEW a \in Actors, call[a] # AtRest, NEW state \in {"ok", "existing", "error"},
           NEW id \in Requests \cup {None},
           call[a].op = "create" /\ state # "error" => id \in Requests, Reply(a, state, id)
    PROVE  CallsOK' /\ NoNewCall
<1>1. call[a] \in Call /\ CallOK(call[a])
  BY DEF CallsOK
<1>2. CASE a = "other"
  <2>1. call' = [call EXCEPT ![a] = AtRest] /\ CallOK(AtRest)
    BY <1>2 DEF Reply, CallOK
  <2> QED BY <2>1, CallMoved
<1>3. CASE a # "other"
  <2> DEFINE c == [call[a] EXCEPT !.state = state, !.id = id]
  <2>1. c \in Call /\ CallOK(c) /\ c.op = call[a].op /\ c.on = call[a].on
    BY <1>1 DEF Call, CallOK
  <2>2. call' = [call EXCEPT ![a] = c]
    BY <1>3 DEF Reply, CallsOK
  <2> HIDE DEF c
  <2> QED BY <2>1, <2>2, CallMoved
<1> QED BY <1>2, <1>3

LEMMA CallPassed ==
    ASSUME CallsOK, NEW a \in Actors, call[a] # AtRest, Pass(a)
    PROVE  CallsOK' /\ NoNewCall
<1>1. call[a] \in Call /\ CallOK(call[a])
  BY DEF CallsOK
<1> DEFINE c == [call[a] EXCEPT !.state = "checked"]
<1>2. c \in Call /\ CallOK(c) /\ c.op = call[a].op /\ c.on = call[a].on
  BY <1>1 DEF Call, CallOK
<1>3. call' = [call EXCEPT ![a] = c]
  BY DEF Pass, CallsOK
<1> HIDE DEF c
<1> QED BY <1>2, <1>3, CallMoved

LEMMA CallChecked == ASSUME CallsOK, NEW a \in Actors, Check(a) PROVE CallsOK' /\ NoNewCall
<1>1. call[a] # AtRest /\ call[a] \in Call /\ CallOK(call[a])
  BY DEF CallsOK, Check, Serving
<1>2. \A m : Actives(m) \subseteq Requests
  BY DEF Actives
<1>3. CASE Serving(a, "create", "sent") /\ CheckCreate(a)
  BY <1>1, <1>2, <1>3, CallPassed, CallReplied DEF CheckCreate
<1>4. CASE Serving(a, "delete", "sent") /\ CheckDelete(a)
  BY <1>1, <1>4, CallPassed, CallReplied DEF CheckDelete, Serving
<1>5. CASE Serving(a, "restore", "sent") /\ CheckRestore(a, call[a].on)
  BY <1>1, <1>2, <1>5, CallPassed, CallReplied DEF CheckRestore, Serving, CallOK
<1> QED
  BY <1>3, <1>4, <1>5 DEF Check

LEMMA CallWritten == ASSUME CallsOK, NEW a \in Actors, Write(a) PROVE CallsOK' /\ NoNewCall
<1>1. call[a] # AtRest /\ call[a] \in Call /\ CallOK(call[a])
  BY DEF CallsOK, Write, Serving
<1>2. ASSUME NEW r \in Requests, Insert(a, r) PROVE CallsOK' /\ NoNewCall
  BY <1>1, <1>2, CallReplied DEF Insert
<1>3. CASE Serving(a, "create", "checked") /\ \E r \in Unused(call[a].on) : Insert(a, r)
  BY <1>2, <1>3 DEF Unused
<1>4. CASE Serving(a, "delete", "checked") /\ Delete(a, call[a].on)
  BY <1>1, <1>4, CallReplied DEF Delete, Serving
<1>5. CASE Serving(a, "restore", "checked") /\ Insert(a, call[a].on)
  BY <1>1, <1>2, <1>5 DEF Serving, CallOK
<1> QED
  BY <1>3, <1>4, <1>5 DEF Write

LEMMA CallLost == ASSUME CallsOK, Lose PROVE CallsOK' /\ NoNewCall
<1>1. PICK a \in Actors : a = "me"
  BY DEF Actors
<1>2. call[a] # AtRest /\ call[a] \in Call /\ CallOK(call[a])
  BY <1>1 DEF CallsOK, Lose
<1> DEFINE c == [call[a] EXCEPT !.state = "error", !.id = None]
<1>3. c \in Call /\ CallOK(c) /\ c.op = call[a].op /\ c.on = call[a].on
  BY <1>2 DEF Call, CallOK
<1>4. call' = [call EXCEPT ![a] = c]
  BY <1>1 DEF Lose, CallsOK
<1> HIDE DEF c
<1> QED BY <1>2, <1>3, <1>4, CallMoved

LEMMA CallTaken == ASSUME CallsOK, TakeAnswer PROVE CallsOK' /\ NoNewCall
<1>1. "me" \in Actors /\ CallOK(AtRest) /\ call' = [call EXCEPT !["me"] = AtRest]
  BY DEF TakeAnswer, Actors, CallOK
<1> QED BY <1>1, CallMoved

\* The actions that begin calls, and those that touch none
LEMMA CallsStep == ListTypeOK /\ CallsOK /\ [ListNext]_listVars => CallsOK'
<1> SUFFICES ASSUME ListTypeOK, CallsOK, [ListNext]_listVars PROVE CallsOK'
  OBVIOUS
<1>1. CASE UNCHANGED call
  BY <1>1 DEF CallsOK
<1>2. ASSUME NEW a \in Actors, Check(a) \/ Write(a) PROVE CallsOK'
  BY <1>2, CallChecked, CallWritten
<1>3. CASE OtherCalls
  BY <1>3, CallSent DEF OtherCalls, Actors
<1>4. CASE ClickCreate \/ \E r \in Requests : ClickRestore(r)
  BY <1>4, CallSent, RequestsAssumption DEF ClickCreate, ClickRestore, Click, Actors
<1>5. CASE ConfirmDelete
  BY <1>5, CallSent DEF ConfirmDelete, Click, Actors, ListTypeOK
<1>6. CASE Lose \/ TakeAnswer
  BY <1>6, CallLost, CallTaken
<1> QED
  BY <1>1, <1>2, <1>3, <1>4, <1>5, <1>6
     DEF ListNext, listVars, Workflow, OpenRow, AskDelete, Serve, Load, FailLoad, SetFilter, Back,
         CancelDelete, OpenExport, CloseExport, ClickExport, ReceiveExport, ToggleStatus

(***************************************************************************)
(* The requests of a module                                                *)
(***************************************************************************)

\* OneActive without counting
Unique == \A m \in Modules : \A r, s \in Actives(m) : r = s

LEMMA UniqueIs == OneActive <=> Unique
<1>1. ASSUME NEW m \in Modules
      PROVE  Cardinality(Actives(m)) <= 1 <=> \A r, s \in Actives(m) : r = s
  <2>1. IsFiniteSet(Actives(m))
    BY RequestsAssumption, FS_Subset DEF Actives
  <2>2. Cardinality(Actives(m)) \in Nat
    BY <2>1, FS_CardinalityType
  <2>3. Cardinality(Actives(m)) = 0 <=> Actives(m) = {}
    BY <2>1, FS_EmptySet
  <2>4. Cardinality(Actives(m)) = 1 <=> \E r : Actives(m) = {r}
    BY <2>1, FS_Singleton
  <2>5. (\A r, s \in Actives(m) : r = s) <=> (Actives(m) = {} \/ \E r : Actives(m) = {r})
    OBVIOUS
  <2>6. Cardinality(Actives(m)) <= 1 <=> (Cardinality(Actives(m)) = 0 \/ Cardinality(Actives(m)) = 1)
    BY <2>2
  <2> QED BY <2>3, <2>4, <2>5, <2>6
<1> QED BY <1>1 DEF OneActive, Unique

\* The index of the active requests refuses a second one
LEMMA Inserted ==
    ASSUME ListTypeOK, Unique, NEW a, NEW r \in Requests, Insert(a, r)
    PROVE  Unique' /\ db' \in Rows
<1>1. CASE Actives(UnitOf[r]) = {}
  <2>1. db' = [db EXCEPT ![r] = "draft"] /\ db' \in Rows
    BY <1>1 DEF Insert, ListTypeOK, Rows, Statuses
  <2>2. \A s \in Requests : s # r => db'[s] = db[s]
    BY <2>1 DEF ListTypeOK, Rows
  <2>3. \A m \in Modules : Actives(m)' \subseteq Actives(m) \cup (IF UnitOf[r] = m THEN {r} ELSE {})
    BY <2>2 DEF Actives, Active
  <2> QED BY <1>1, <2>1, <2>3 DEF Unique
<1>2. CASE Actives(UnitOf[r]) # {}
  BY <1>2 DEF Insert, Unique, Actives, Active, ListTypeOK
<1> QED BY <1>1, <1>2

\* What the workflow moves is active before and after; what is deleted is not
LEMMA NoneMore ==
    ASSUME ListTypeOK, Unique, NEW r \in Requests, NEW s \in Statuses \cup {"absent"},
           db' = [db EXCEPT ![r] = s], Active(r) \/ s = "absent"
    PROVE  Unique' /\ db' \in Rows
<1>1. db' \in Rows /\ \A q \in Requests : db'[q] = IF q = r THEN s ELSE db[q]
  BY DEF ListTypeOK, Rows
<1>2. \A m : Actives(m)' \subseteq Actives(m)
  BY <1>1 DEF Actives, Active
<1> QED BY <1>1, <1>2 DEF Unique

LEMMA UniqueStep ==
    ListTypeOK /\ CallsOK /\ Unique /\ [ListNext]_listVars => Unique' /\ db' \in Rows
<1> SUFFICES ASSUME ListTypeOK, CallsOK, Unique, [ListNext]_listVars PROVE Unique' /\ db' \in Rows
  OBVIOUS
<1>1. CASE UNCHANGED db
  BY <1>1 DEF Unique, Actives, Active, ListTypeOK
<1>2. ASSUME NEW a \in Actors, Write(a) PROVE Unique' /\ db' \in Rows
  <2>1. call[a] # AtRest /\ CallOK(call[a])
    BY <1>2 DEF Write, Serving, CallsOK
  <2>2. CASE Serving(a, "create", "checked") /\ \E r \in Unused(call[a].on) : Insert(a, r)
    BY <2>2, Inserted DEF Unused
  <2>3. CASE Serving(a, "delete", "checked") /\ Delete(a, call[a].on)
    BY <1>1, <2>1, <2>3, NoneMore DEF Delete, Serving, CallOK
  <2>4. CASE Serving(a, "restore", "checked") /\ Insert(a, call[a].on)
    BY <2>1, <2>4, Inserted DEF Serving, CallOK
  <2> QED
    BY <1>2, <2>2, <2>3, <2>4 DEF Write
<1>3. ASSUME NEW r \in Requests, Workflow(r) PROVE Unique' /\ db' \in Rows
  BY <1>3, NoneMore DEF Workflow, Active, Statuses, Closed
<1> QED
  BY <1>1, <1>2, <1>3
     DEF ListNext, listVars, Check, OtherCalls, OpenRow, ClickRestore, AskDelete, Serve, Load,
         FailLoad, SetFilter, Back, ClickCreate, ConfirmDelete, CancelDelete, Click, Lose,
         TakeAnswer, OpenExport, CloseExport, ClickExport, ReceiveExport, ToggleStatus

(***************************************************************************)
(* What the user is told, asked and given                                  *)
(***************************************************************************)

\* A list that lacks what the user was told of is invalidated, and what is on its way
\* to it has been read since
ToldIsStale ==
    \A f \in Filters :
        behind[f] = "told" => f \in stale /\ (fetch[f].state = "read" => fetch[f].fresh)

\* What the dialog was asked for is what the table showed
AskedForShown == export.asked # AtRest => export.asked.ids \subseteq export.asked.shown

ListInv == ListTypeOK /\ CallsOK /\ Unique /\ AskedUntilAnswered /\ ToldIsStale
              /\ AskedForShown /\ FileIsTheTable

LEMMA ListStart == ListInit => ListInv
<1> SUFFICES ASSUME ListInit PROVE ListInv
  OBVIOUS
<1>1. ListTypeOK
  <2>1. export \in Export
    BY DEF ListInit, NotExporting, Export
  <2>2. list \in [Filters -> Rows \cup {NotLoaded}] /\ fetch \in [Filters -> {AtRest, Asked} \cup Fetched]
    BY DEF ListInit
  <2>3. call \in [Actors -> {AtRest} \cup Call] /\ behind \in [Filters -> {"no", "told", "slipped"}]
    BY DEF ListInit
  <2>4. db \in Rows /\ place = "list" /\ filter \in Filters /\ stale = {} /\ question = None
    BY RequestsAssumption DEF ListInit
  <2>5. clicks \in 0 .. MaxClicks /\ moves \in 0 .. MaxMoves /\ missed \in 0 .. MaxMissed
    BY RequestsAssumption DEF ListInit
  <2>6. strayed \in BOOLEAN
    BY DEF ListInit
  <2> QED
    BY <2>1, <2>2, <2>3, <2>4, <2>5, <2>6 DEF ListTypeOK
<1>2. Unique
  BY UniqueIs DEF ListInit, OneActive
<1>3. CallsOK /\ AskedUntilAnswered
  BY <1>1 DEF ListInit, ListTypeOK, CallsOK, CallOK, AskedUntilAnswered, Pending, Actors
<1> QED
  BY <1>1, <1>2, <1>3 DEF ListInit, ListInv, ToldIsStale, AskedForShown, NotExporting, FileIsTheTable

\* The question stays on the draft whose deletion is under way
LEMMA QuestionStep == ListInv /\ [ListNext]_listVars => AskedUntilAnswered'
<1> SUFFICES ASSUME ListInv, [ListNext]_listVars PROVE AskedUntilAnswered'
  OBVIOUS
<1> USE DEF AskedUntilAnswered, Pending
<1>0. CallsOK /\ ListTypeOK /\ "me" \in Actors /\ AskedUntilAnswered /\ None \notin Requests
  BY RequestsAssumption DEF ListInv, Actors
<1>1. CASE UNCHANGED <<call, question>>
  BY <1>0, <1>1
<1>2. CASE NoNewCall /\ question' = question
  BY <1>0, <1>2 DEF NoNewCall
<1>3. ASSUME NEW a \in Actors, Check(a) \/ Write(a) PROVE AskedUntilAnswered'
  BY <1>0, <1>2, <1>3, CallChecked, CallWritten DEF Check, Write
<1>4. CASE OtherCalls
  <2>1. call'["me"] = call["me"]
    BY <1>0, <1>4, CallSent DEF OtherCalls, Actors
  <2> QED
    BY <1>0, <1>4, <2>1 DEF OtherCalls
<1>5. ASSUME NEW op, NEW on, Send("me", op, on), op = "delete" => question' = on
      PROVE  AskedUntilAnswered'
  BY <1>0, <1>5 DEF Send, CallsOK
<1>6. CASE ClickCreate \/ ConfirmDelete \/ \E r \in Requests : ClickRestore(r)
  BY <1>5, <1>6 DEF ClickCreate, ClickRestore, ConfirmDelete, Click
<1>7. ASSUME NEW r \in Requests, AskDelete(r) PROVE AskedUntilAnswered'
  <2>1. question = None /\ call' = call
    BY <1>7 DEF AskDelete, Free
  <2>2. Pending("delete") => call["me"].on \in Requests
    BY <1>0 DEF CallsOK, CallOK
  <2> QED
    BY <1>0, <2>1, <2>2
<1>8. CASE CancelDelete
  BY <1>8 DEF CancelDelete, CloseDialog
<1>9. CASE Lose
  BY <1>0, <1>2, <1>9, CallLost DEF Lose
<1>10. CASE TakeAnswer
  <2>1. call'["me"] = AtRest
    BY <1>0, <1>10 DEF TakeAnswer, CallsOK
  <2> QED BY <2>1
<1> QED
  BY <1>1, <1>3, <1>4, <1>6, <1>7, <1>8, <1>9, <1>10
     DEF ListNext, listVars, Workflow, OpenRow, Serve, Load, FailLoad, SetFilter, Back,
         OpenExport, CloseExport, ClickExport, ReceiveExport, ToggleStatus

\* The queries of the lists: what an answer brings, and what an invalidation makes of them
LEMMA ToldStep ==
    ListInv /\ [ListNext]_listVars
        => /\ ToldIsStale' /\ fetch' \in [Filters -> {AtRest, Asked} \cup Fetched]
           /\ stale' \subseteq Filters /\ behind' \in [Filters -> {"no", "told", "slipped"}]
<1> DEFINE Kept ==
      /\ ToldIsStale' /\ fetch' \in [Filters -> {AtRest, Asked} \cup Fetched]
      /\ stale' \subseteq Filters /\ behind' \in [Filters -> {"no", "told", "slipped"}]
<1> SUFFICES ASSUME ListInv, [ListNext]_listVars PROVE Kept
  OBVIOUS
<1> USE DEF ToldIsStale
<1>0. /\ ToldIsStale /\ fetch \in [Filters -> {AtRest, Asked} \cup Fetched]
      /\ stale \subseteq Filters /\ behind \in [Filters -> {"no", "told", "slipped"}]
      /\ db \in Rows
  BY DEF ListInv, ListTypeOK
<1>1. CASE UNCHANGED <<fetch, stale, behind>>
  BY <1>0, <1>1
<1>2. ASSUME NEW f \in Filters, NEW x \in {AtRest, Asked} \cup Fetched, x.state = "read" => x.fresh,
             fetch' = [fetch EXCEPT ![f] = x], UNCHANGED <<stale, behind>>
      PROVE  Kept
  <2>1. \A g \in Filters : fetch'[g] = IF g = f THEN x ELSE fetch[g]
    BY <1>0, <1>2
  <2>2. fetch' \in [Filters -> {AtRest, Asked} \cup Fetched]
    BY <1>0, <1>2
  <2> QED
    BY <1>0, <1>2, <2>1, <2>2
<1>3. AtRest.state # "read" /\ Asked.state # "read"
  BY DEF AtRest, Asked
<1>4. ASSUME NEW f \in Filters, Serve(f) PROVE Kept
  <2> DEFINE x == [state |-> "read", fresh |-> TRUE,
                   rows |-> [r \in Requests |-> IF f \in {"all", db[r]} THEN db[r] ELSE "absent"]]
  <2>1. x \in Fetched /\ x.fresh
    BY <1>0 DEF Fetched, Rows
  <2>2. fetch' = [fetch EXCEPT ![f] = x] /\ UNCHANGED <<stale, behind>>
    BY <1>4 DEF Serve
  <2> HIDE DEF x
  <2> QED BY <1>2, <2>1, <2>2
<1>5. ASSUME NEW f \in Filters, Load(f) PROVE Kept
  BY <1>0, <1>5 DEF Load
<1>6. ASSUME NEW f \in Filters, FailLoad(f) PROVE Kept
  BY <1>2, <1>3, <1>6 DEF FailLoad
<1>7. ASSUME NEW f \in Filters, Look(f) PROVE Kept
  <2>1. fetch' = fetch \/ fetch' = [fetch EXCEPT ![f] = Asked]
    BY <1>7 DEF Look
  <2> QED
    BY <1>1, <1>2, <1>3, <1>7, <2>1 DEF Look
<1>8. CASE Tell
  <2>1. ASSUME NEW f \in Filters
        PROVE  /\ Older(fetch[f]) \in {AtRest, Asked} \cup Fetched
               /\ fetch[f].state # "read" => Older(fetch[f]) = fetch[f]
    <3>1. CASE fetch[f] \in Fetched
      BY <3>1 DEF Older, Fetched
    <3>2. CASE fetch[f] \in {AtRest, Asked}
      BY <3>2 DEF Older, AtRest, Asked
    <3> QED BY <1>0, <3>1, <3>2
  <2>2. fetch' \in [Filters -> {AtRest, Asked} \cup Fetched]
    BY <2>1, <1>8 DEF Tell, Invalidate
  <2>3. behind' \in [Filters -> {"no", "told", "slipped"}] /\ stale' = Filters
    BY <1>0, <1>8 DEF Tell, Invalidate
  <2>4. ASSUME NEW f \in Filters, behind'[f] = "told", fetch'[f].state = "read" PROVE FALSE
    <3>1. CASE OnScreen(f)
      BY <1>8, <2>4, <3>1 DEF Tell, Invalidate, Asked
    <3>2. CASE ~OnScreen(f)
      <4>1. fetch'[f] = Older(fetch[f])
        BY <1>8, <3>2 DEF Tell, Invalidate
      <4>2. fetch[f].state = "read"
        BY <2>1, <2>4, <4>1
      <4>3. behind'[f] = "slipped"
        BY <1>8, <3>2, <4>2 DEF Tell
      <4> QED BY <2>4, <4>3
    <3> QED BY <3>1, <3>2
  <2> QED BY <2>2, <2>3, <2>4
<1>9. CASE TakeAnswer
  BY <1>1, <1>8, <1>9 DEF TakeAnswer
<1>10. CASE Back
  BY <1>7, <1>10, RequestsAssumption DEF Back
<1> HIDE DEF Kept
<1> QED
  BY <1>1, <1>4, <1>5, <1>6, <1>7, <1>9, <1>10
     DEF ListNext, listVars, cacheVars, Check, Write, OtherCalls, Workflow, OpenRow, ClickRestore,
         AskDelete, SetFilter, ClickCreate, ConfirmDelete, CancelDelete, Click, Lose,
         OpenExport, CloseExport, ClickExport, ReceiveExport, ToggleStatus

\* The export dialog: its statuses, and the file it was asked for
LEMMA ExportStep ==
    ListInv /\ [ListNext]_listVars => AskedForShown' /\ FileIsTheTable' /\ export' \in Export
<1> SUFFICES ASSUME ListInv, [ListNext]_listVars
             PROVE  AskedForShown' /\ FileIsTheTable' /\ export' \in Export
  OBVIOUS
<1> USE DEF AskedForShown, FileIsTheTable
<1>0. AskedForShown /\ FileIsTheTable /\ export \in Export
  BY DEF ListInv, ListTypeOK
<1>1. CASE UNCHANGED exportVars
  BY <1>0, <1>1 DEF exportVars
<1>2. CASE OpenExport
  <2>1. {list[filter][r] : r \in ShownClosed} \subseteq Closed
    BY DEF ShownClosed
  <2> QED
    BY <1>0, <1>2, <2>1 DEF OpenExport, Export
<1>3. CASE CloseExport
  BY <1>0, <1>3 DEF CloseExport, Export
<1>4. ASSUME NEW s \in Closed, ToggleStatus(s)
      PROVE  AskedForShown' /\ FileIsTheTable' /\ export' \in Export
  BY <1>0, <1>4 DEF ToggleStatus, Export
<1>5. CASE ClickExport
  BY <1>0, <1>5 DEF ClickExport, Export, AskFor, Shown
<1>6. CASE ReceiveExport
  <2>1. NotExporting \in Export /\ NotExporting.asked = AtRest
    BY DEF NotExporting, Export
  <2>2. [export EXCEPT !.asked = AtRest] \in Export /\ [export EXCEPT !.asked = AtRest].asked = AtRest
    BY <1>0 DEF Export
  <2> QED
    BY <1>0, <1>6, <2>1, <2>2 DEF ReceiveExport
<1> QED
  BY <1>1, <1>2, <1>3, <1>4, <1>5, <1>6
     DEF ListNext, listVars, Check, Write, OtherCalls, Workflow, OpenRow, ClickRestore, Serve, Load,
         FailLoad, AskDelete, SetFilter, Back, ClickCreate, ConfirmDelete, CancelDelete, Click, Lose,
         TakeAnswer

\* Where the user is and what he looks at, and the bounds
LEMMA PlaceStep ==
    ListInv /\ [ListNext]_listVars
        => /\ place' \in {"list"} \cup Requests /\ filter' \in Filters
           /\ list' \in [Filters -> Rows \cup {NotLoaded}] /\ question' \in Requests \cup {None}
           /\ strayed' \in BOOLEAN
           /\ clicks' \in 0 .. MaxClicks /\ moves' \in 0 .. MaxMoves /\ missed' \in 0 .. MaxMissed
<1> DEFINE Placed ==
      /\ place' \in {"list"} \cup Requests /\ filter' \in Filters
      /\ list' \in [Filters -> Rows \cup {NotLoaded}] /\ question' \in Requests \cup {None}
      /\ strayed' \in BOOLEAN
      Bounded ==
      /\ clicks' \in 0 .. MaxClicks /\ moves' \in 0 .. MaxMoves /\ missed' \in 0 .. MaxMissed
<1> SUFFICES ASSUME ListInv, [ListNext]_listVars PROVE Placed /\ Bounded
  OBVIOUS
<1>0. /\ place \in {"list"} \cup Requests /\ filter \in Filters
      /\ list \in [Filters -> Rows \cup {NotLoaded}] /\ question \in Requests \cup {None}
      /\ strayed \in BOOLEAN
      /\ clicks \in 0 .. MaxClicks /\ moves \in 0 .. MaxMoves /\ missed \in 0 .. MaxMissed
      /\ CallsOK /\ fetch \in [Filters -> {AtRest, Asked} \cup Fetched]
  BY DEF ListInv, ListTypeOK
<1>1. Bounded
  <2>1. /\ clicks' = clicks \/ (clicks < MaxClicks /\ clicks' = clicks + 1)
        /\ moves' = moves \/ (moves < MaxMoves /\ moves' = moves + 1)
        /\ missed' = missed \/ (missed < MaxMissed /\ missed' = missed + 1)
    BY DEF ListNext, listVars, exportVars, cacheVars, Check, Write, OtherCalls, Workflow, OpenRow,
           ClickRestore, AskDelete, Serve, Load, FailLoad, SetFilter, Back, ClickCreate,
           ConfirmDelete, CancelDelete, Click, Lose, TakeAnswer, OpenExport, CloseExport,
           ClickExport, ReceiveExport, ToggleStatus
  <2> QED
    BY <1>0, <2>1, RequestsAssumption
<1>2. CASE UNCHANGED <<place, filter, list, question, strayed>>
  BY <1>0, <1>1, <1>2
<1>3. ASSUME NEW f \in Filters, Load(f) PROVE Placed
  <2>1. fetch[f] \in Fetched
    BY <1>0, <1>3 DEF Load, AtRest, Asked
  <2> QED
    BY <1>0, <1>3, <2>1 DEF Load, Fetched, exportVars
<1>4. CASE TakeAnswer
  <2>1. \A s \in {"ok", "existing"} : Came("create", s) => call["me"].id \in Requests
    BY <1>0 DEF Came, Pending, CallsOK, CallOK, Actors
  <2> QED
    BY <1>0, <1>4, <2>1 DEF TakeAnswer, Navigate, exportVars
<1>5. CASE ReceiveExport
  BY <1>0, <1>5 DEF ReceiveExport, cacheVars
<1>6. CASE Back \/ \E f \in Filters : SetFilter(f)
  BY <1>0, <1>6, RequestsAssumption DEF Back, SetFilter, Look, exportVars
<1>7. CASE \E r \in Requests : OpenRow(r) \/ AskDelete(r)
  BY <1>0, <1>7 DEF OpenRow, AskDelete, cacheVars, exportVars
<1>8. CASE CancelDelete
  BY <1>0, <1>8 DEF CancelDelete, CloseDialog, cacheVars, exportVars
<1> HIDE DEF Placed, Bounded
<1> QED
  BY <1>1, <1>2, <1>3, <1>4, <1>5, <1>6, <1>7, <1>8
     DEF ListNext, listVars, exportVars, cacheVars, Check, Write, OtherCalls, Workflow, ClickRestore,
         Serve, FailLoad, ClickCreate, ConfirmDelete, Click, Lose, OpenExport, CloseExport,
         ClickExport, ToggleStatus

LEMMA ListStep == ListInv /\ [ListNext]_listVars => ListInv'
<1> SUFFICES ASSUME ListInv, [ListNext]_listVars PROVE ListInv'
  OBVIOUS
<1>1. ListTypeOK /\ CallsOK /\ Unique
  BY DEF ListInv
<1>2. CallsOK'
  BY <1>1, CallsStep
<1>3. Unique' /\ db' \in Rows
  BY <1>1, UniqueStep
<1>4. ListTypeOK'
  BY <1>2, <1>3, ToldStep, ExportStep, PlaceStep DEF ListTypeOK, CallsOK
<1> QED
  BY <1>2, <1>3, <1>4, QuestionStep, ToldStep, ExportStep DEF ListInv

\* A module has one request that is not cancelled, for any number of requests, modules and
\* calls: the check of request_service.py may be passed by two creations or restorations
\* at once, the unique index of the active requests lets one of them write.
THEOREM OneActiveEach == ListSpec => []OneActive
<1>1. ListInv => OneActive
  BY UniqueIs DEF ListInv
<1> QED
  BY <1>1, ListStart, ListStep, PTL DEF ListSpec

\* What RequestsPage.tsx tells its user: the list that lacks a change he was told of is
\* asked anew unless its fetch slipped by, the file holds the table he exported, and the
\* question about a draft stays on it until the answer has come.
THEOREM ListIsRight == ListSpec => []ListTells
<1>1. ListInv => ListTells
  <2>1. ListInv => ListAskedAnew
    BY DEF ListInv, ListTypeOK, ToldIsStale, ListAskedAnew
  <2> QED
    BY <2>1 DEF ListInv, ListTells
<1> QED
  BY <1>1, ListStart, ListStep, PTL DEF ListSpec

(***************************************************************************)
(* The preview                                                             *)
(***************************************************************************)

(***************************************************************************)
(* What is held, and what is shown.  The download that may still be taken  *)
(* is the one of the latest opening, and only while the dialog has a file. *)
(***************************************************************************)

LatestOnly ==
    \A o \in Openings : download[o] = "asked" => o = opening /\ file # NoFile

Shape ==
    /\ file \in Attachments \cup {NoFile}
    /\ opening \in 0 .. MaxOpenings /\ url \in 0 .. MaxOpenings
    /\ fileOf \in [Openings -> Attachments \cup {NoFile}]
    /\ download \in [Openings -> {"none", "asked", "aborted", "done"}]
    /\ viewed \in 0 .. MaxOpenings
    /\ viewer \in [Openings -> {"none", "loading", "drawing", "failing", "done", "disposed"}]

\* The latest opening is that of the file, and the URL is made of its answer
OpenedForTheFile ==
    /\ window => file \in Attachments
    /\ file # NoFile /\ opening # 0 => fileOf[opening] = file
    /\ file # NoFile /\ url # 0 => url = opening /\ url \in live

\* The latest download of a file that is still named is on its way or has left
\* its content or an error, and the spinner turns for the viewer on screen
EndsAtTheFile ==
    /\ file # NoFile /\ opening # 0 =>
         \/ download[opening] = "asked"
         \/ download[opening] = "done" /\ (error \/ url = opening)
    /\ processing =>
         viewed = url /\ url # 0 /\ viewer[url] \in {"loading", "drawing", "failing"}

PreviewInv == Shape /\ LatestOnly /\ HoldsOne /\ OpenedForTheFile

LEMMA HeldInit == PreviewInit => PreviewInv
<1> SUFFICES ASSUME PreviewInit PROVE PreviewInv
    OBVIOUS
<1>1. file \in Attachments \cup {NoFile} /\ (window => file \in Attachments)
  BY DEF PreviewInit
<1> QED
  BY <1>1, AttachmentsAndBound
  DEF PreviewInit, PreviewInv, Shape, LatestOnly, HoldsOne, OpenedForTheFile, Openings

LEMMA HeldNext == PreviewInv /\ [PreviewNext]_previewVars => PreviewInv'
<1> SUFFICES ASSUME PreviewInv, [PreviewNext]_previewVars
             PROVE  PreviewInv'
    OBVIOUS
<1> USE AttachmentsAndBound DEF PreviewInv, Shape, Openings, LatestOnly, HoldsOne,
            OpenedForTheFile
<1>1. ASSUME NEW f \in Attachments, Download(f), file' = f
      PROVE  PreviewInv'
  <2>1. /\ opening' = opening + 1 /\ opening + 1 \in Openings
        /\ fileOf'[opening + 1] = f
        /\ url' = 0 /\ live' = live \ {opening}
    BY <1>1 DEF Download, Cleanup, ClearState
  <2>2. live' = {}
    BY <2>1
  <2>3. \A o \in Openings : download'[o] = "asked" => o = opening + 1
    BY <1>1 DEF Download, Cleanup
  <2>4. Shape'
    BY <1>1, <2>1 DEF Download, Cleanup
  <2> QED
    BY <1>1, <2>1, <2>2, <2>3, <2>4
<1>2. ASSUME NEW f \in Attachments, Choose(f)
      PROVE  PreviewInv'
  BY <1>1, <1>2 DEF Choose
<1>3. CASE Close
  BY <1>3 DEF Close, Cleanup
<1>4. CASE RenderWindow
  BY <1>1, <1>4 DEF RenderWindow
<1>5. ASSUME NEW o \in Openings, Answered(o)
      PROVE  PreviewInv'
  <2>1. CASE download[o] = "aborted"
    BY <1>5, <2>1 DEF Answered, Receive
  <2>2. CASE download[o] = "asked"
    <3>1. o = opening /\ file # NoFile /\ live' = live \cup {o} /\ url' = o
      BY <1>5, <2>2 DEF Answered, Receive
    <3> QED
      BY <1>5, <2>2, <3>1 DEF Answered
  <2> QED
    BY <1>5, <2>1, <2>2 DEF Answered, Receive
<1>6. ASSUME NEW o \in Openings, Refused(o)
      PROVE  PreviewInv'
  BY <1>6 DEF Refused
<1>7. ASSUME NEW o \in Openings, ViewerLoaded(o)
      PROVE  PreviewInv'
  BY <1>7 DEF ViewerLoaded
<1>8. ASSUME NEW o \in Openings, ViewerEnds(o)
      PROVE  PreviewInv'
  BY <1>8 DEF ViewerEnds
<1>9. CASE Commit
  BY <1>9 DEF Commit
<1>10. CASE UNCHANGED previewVars
  BY <1>10 DEF previewVars
<1> QED
  BY <1>2, <1>3, <1>4, <1>5, <1>6, <1>7, <1>8, <1>9, <1>10 DEF PreviewNext

LEMMA EndsInit == PreviewInit => EndsAtTheFile
  BY DEF PreviewInit, EndsAtTheFile

LEMMA EndsNext == PreviewInv /\ EndsAtTheFile /\ [PreviewNext]_previewVars => EndsAtTheFile'
<1> SUFFICES ASSUME PreviewInv, EndsAtTheFile, [PreviewNext]_previewVars
             PROVE  EndsAtTheFile'
    OBVIOUS
<1> USE AttachmentsAndBound DEF PreviewInv, Shape, Openings, LatestOnly, OpenedForTheFile,
            EndsAtTheFile
<1>1. ASSUME NEW f \in Attachments, Download(f)
      PROVE  EndsAtTheFile'
  <2>1. opening' = opening + 1 /\ opening + 1 \in Openings /\ processing' = FALSE
    BY <1>1 DEF Download, ClearState
  <2>2. download'[opening + 1] = "asked"
    BY <1>1, <2>1 DEF Download, Cleanup
  <2> QED
    BY <2>1, <2>2
<1>2. ASSUME NEW f \in Attachments, Choose(f)
      PROVE  EndsAtTheFile'
  BY <1>1, <1>2 DEF Choose
<1>3. CASE Close
  BY <1>3 DEF Close
<1>4. CASE RenderWindow
  BY <1>1, <1>4 DEF RenderWindow
<1>5. ASSUME NEW o \in Openings, Answered(o)
      PROVE  EndsAtTheFile'
  <2>1. CASE download[o] = "aborted"
    BY <1>5, <2>1 DEF Answered, Receive
  <2>2. CASE download[o] = "asked"
    <3>1. o = opening /\ url' = o /\ processing' = FALSE /\ opening' = opening
      BY <1>5, <2>2 DEF Answered, Receive
    <3>2. download'[opening] = "done"
      BY <1>5, <3>1 DEF Answered
    <3> QED
      BY <3>1, <3>2
  <2> QED
    BY <1>5, <2>1, <2>2 DEF Answered, Receive
<1>6. ASSUME NEW o \in Openings, Refused(o)
      PROVE  EndsAtTheFile'
  <2>0. opening' = opening /\ file' = file /\ url' = url /\ viewed' = viewed /\ viewer' = viewer
    BY <1>6 DEF Refused
  <2>1. CASE download[o] = "aborted"
    <3>1. error' = error /\ processing' = processing /\ (file # NoFile /\ opening # 0 => o # opening)
      BY <1>6, <2>1 DEF Refused
    <3>2. \A n \in Openings : n # o => download'[n] = download[n]
      BY <1>6 DEF Refused
    <3> QED
      BY <2>0, <3>1, <3>2
  <2>2. CASE download[o] = "asked"
    <3>1. o = opening /\ error' = TRUE /\ processing' = FALSE
      BY <1>6, <2>2 DEF Refused
    <3>2. download'[opening] = "done"
      BY <1>6, <3>1 DEF Refused
    <3> QED
      BY <2>0, <3>1, <3>2
  <2> QED
    BY <1>6, <2>1, <2>2 DEF Refused
<1>7. ASSUME NEW o \in Openings, ViewerLoaded(o)
      PROVE  EndsAtTheFile'
  <2>1. viewer' = [viewer EXCEPT ![o] = IF o \in live THEN "drawing" ELSE "failing"]
    BY <1>7 DEF ViewerLoaded
  <2>2. \A n \in Openings : viewer[n] \in {"loading", "drawing", "failing"}
                              => viewer'[n] \in {"loading", "drawing", "failing"}
    BY <2>1
  <2>3. /\ opening' = opening /\ file' = file /\ url' = url /\ viewed' = viewed
        /\ download' = download /\ error' = error /\ processing' = processing
    BY <1>7 DEF ViewerLoaded
  <2> QED
    BY <2>2, <2>3
<1>8. ASSUME NEW o \in Openings, ViewerEnds(o)
      PROVE  EndsAtTheFile'
  <2>1. /\ opening' = opening /\ file' = file /\ url' = url /\ download' = download
        /\ processing' = FALSE /\ (error => error')
    BY <1>8 DEF ViewerEnds, Finish
  <2> QED
    BY <2>1
<1>9. CASE Commit
  <2>1. /\ opening' = opening /\ file' = file /\ url' = url /\ download' = download
        /\ error' = error /\ viewed' = url /\ viewed # url
    BY <1>9 DEF Commit
  <2>2. ~processing
    BY <2>1
  <2>3. ASSUME processing'
        PROVE  url # 0 /\ viewer'[url] = "loading"
    <3>1. url # 0 /\ kind = "drawn"
      BY <1>9, <2>2, <2>3 DEF Commit
    <3> QED
      BY <1>9, <3>1 DEF Commit
  <2> QED
    BY <2>1, <2>3
<1>10. CASE UNCHANGED previewVars
  BY <1>10 DEF previewVars
<1> QED
  BY <1>2, <1>3, <1>4, <1>5, <1>6, <1>7, <1>8, <1>9, <1>10 DEF PreviewNext

\* What is no more than a flag, and the URLs there are
Flags ==
    /\ window \in BOOLEAN /\ kind \in {"drawn", "plain"} /\ error \in BOOLEAN
    /\ processing \in BOOLEAN /\ live \subseteq Openings

LEMMA FlagsKept == PreviewInv /\ Flags /\ [PreviewNext]_previewVars => Flags'
<1> SUFFICES ASSUME PreviewInv, Flags, [PreviewNext]_previewVars PROVE Flags'
  OBVIOUS
<1> USE DEF Flags
<1>0. Openings' = Openings
  BY DEF Openings
<1>1. ASSUME NEW f, Download(f), window' = window PROVE Flags'
  BY <1>0, <1>1 DEF Download, Cleanup, ClearState
<1>2. CASE Close
  BY <1>0, <1>2 DEF Close, Cleanup
<1>3. ASSUME NEW o \in Openings, Answered(o) PROVE Flags'
  BY <1>0, <1>3 DEF Answered, Receive, KindOf
<1>4. ASSUME NEW o \in Openings, Refused(o) PROVE Flags'
  BY <1>0, <1>4 DEF Refused
<1>5. ASSUME NEW o \in Openings, ViewerEnds(o) PROVE Flags'
  BY <1>0, <1>5 DEF ViewerEnds, Finish
<1>6. ASSUME NEW o \in Openings, ViewerLoaded(o) PROVE Flags'
  BY <1>0, <1>6 DEF ViewerLoaded
<1>7. CASE Commit
  <2>1. processing' \in BOOLEAN
    BY <1>7 DEF Commit
  <2> QED
    BY <1>0, <1>7, <2>1 DEF Commit
<1> QED
  BY <1>0, <1>1, <1>2, <1>3, <1>4, <1>5, <1>6, <1>7
     DEF PreviewNext, previewVars, Choose, RenderWindow

\* However the answers, the viewers and the user's clicks come, the preview
\* shows the content of the file it names under a URL that is not revoked, holds
\* no content but that of the latest opening and none without a file, and ends
\* with the file or an error in front of the user.
THEOREM PreviewIsRight == PreviewSpec => []PreviewRight
<1> DEFINE Inv == PreviewInv /\ EndsAtTheFile /\ Flags
<1>1. PreviewInit => Inv
  BY HeldInit, EndsInit DEF PreviewInit, Flags
<1>2. Inv /\ [PreviewNext]_previewVars => Inv'
  BY HeldNext, EndsNext, FlagsKept
<1>3. Inv => PreviewRight
  <2> SUFFICES ASSUME Inv PROVE PreviewRight
      OBVIOUS
  <2>1. ShowsTheFile /\ HoldsOne
    BY DEF PreviewInv, OpenedForTheFile, ShowsTheFile
  <2>2. SpinnerEnds
    BY DEF PreviewInv, Shape, EndsAtTheFile, SpinnerEnds, Quiet, Openings
  <2>3. PreviewTypeOK
    BY DEF PreviewInv, Shape, Flags, PreviewTypeOK
  <2> QED
    BY <2>1, <2>2, <2>3 DEF PreviewRight
<1> QED
  BY <1>1, <1>2, <1>3, PTL DEF PreviewSpec

=============================================================================
