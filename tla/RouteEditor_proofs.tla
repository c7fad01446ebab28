------------------------- MODULE RouteEditor_proofs -------------------------
(***************************************************************************)
(* Theorems about RouteEditor for every set of CFOs, economists, reviewers *)
(* and ZGDs and any number of changes.                                     *)
(***************************************************************************)
EXTENDS RouteEditor, WellFoundedInduction, TLAPS

(***************************************************************************)
(* Putting the automatic edges right, one CFO after the other.             *)
(***************************************************************************)

LEMMA CountUp ==
    ASSUME NEW S, 0 \in S, \A n \in Nat : n \in S => n + 1 \in S
    PROVE  Nat \subseteq S
<1> DEFINE T == Nat \ S
           R == OpToRel(<, Nat)
<1> SUFFICES ASSUME T # {} PROVE FALSE
  OBVIOUS
<1>1. IsWellFoundedOn(R, Nat)
  BY NatLessThanWellFounded
<1>2. PICK x \in T : \A y \in T : ~ (<<y, x>> \in R)
  <2>1. T \subseteq Nat
    OBVIOUS
  <2> HIDE DEF R, T
  <2> QED
    BY <1>1, <2>1, WFMin
<1>3. x \in Nat /\ x # 0 /\ x - 1 \in Nat /\ x - 1 < x
  OBVIOUS
<1>4. x - 1 \in T
  <2>1. (x - 1) + 1 = x
    BY <1>3
  <2>2. x - 1 \notin S
    BY <1>2, <1>3, <2>1
  <2> QED
    BY <1>3, <2>2
<1>5. <<x - 1, x>> \in R
  BY <1>3 DEF OpToRel
<1> QED
  BY <1>2, <1>4, <1>5

Before == [steps |-> steps, edges |-> edges, at |-> at]

LEMMA RunIsThere ==
    ASSUME NEW L \in Nat
    PROVE  \E f : f = [n \in 0 .. L |-> IF n = 0 THEN Before ELSE SyncCfo(Order[n], f[n - 1])]
<1> DEFINE Is(f, m) == f = [n \in 0 .. m |-> IF n = 0 THEN Before ELSE SyncCfo(Order[n], f[n - 1])]
           S == {m \in Nat : \E f : Is(f, m)}
<1>1. 0 \in S
  <2> DEFINE f == [n \in 0 .. 0 |-> Before]
  <2>1. Is(f, 0)
    OBVIOUS
  <2> QED
    BY <2>1
<1>2. ASSUME NEW m \in Nat, m \in S
      PROVE  m + 1 \in S
  <2>1. PICK f : Is(f, m)
    BY <1>2
  <2> DEFINE h == [n \in 0 .. m + 1 |-> IF n = m + 1 THEN SyncCfo(Order[m + 1], f[m]) ELSE f[n]]
  <2>2. \A n \in 0 .. m : h[n] = f[n]
    BY <1>2
  <2>3. \A n \in 0 .. m : h[n] = IF n = 0 THEN Before ELSE SyncCfo(Order[n], h[n - 1])
    <3>1. \A n \in 0 .. m : f[n] = IF n = 0 THEN Before ELSE SyncCfo(Order[n], f[n - 1])
      BY <2>1
    <3>2. \A n \in 0 .. m : n # 0 => n - 1 \in 0 .. m
      BY <1>2
    <3> HIDE DEF h
    <3> QED
      BY <2>2, <3>1, <3>2
  <2>4. h[m + 1] = SyncCfo(Order[m + 1], h[m])
    BY <1>2, <2>2
  <2>5. h = [n \in 0 .. m + 1 |-> h[n]]
    OBVIOUS
  <2>6. \A n \in 0 .. m + 1 : h[n] = IF n = 0 THEN Before ELSE SyncCfo(Order[n], h[n - 1])
    <3> HIDE DEF h
    <3>1. ASSUME NEW n \in 0 .. m + 1
          PROVE  n \in 0 .. m \/ (n = m + 1 /\ n # 0 /\ n - 1 = m)
      BY <1>2
    <3> QED
      BY <2>3, <2>4, <3>1
  <2>7. Is(h, m + 1)
    <3> HIDE DEF h
    <3> QED
      BY <2>5, <2>6
  <2> HIDE DEF h, Is
  <2> QED
    BY <1>2, <2>7
<1> HIDE DEF Is
<1>3. Nat \subseteq S
  <2> HIDE DEF S
  <2> QED
    BY <1>1, <1>2, CountUp
<1> QED
  BY <1>3 DEF Is

LEMMA SyncedRun ==
    \E f : /\ f = [n \in 0 .. Len(Order) |-> IF n = 0 THEN Before ELSE SyncCfo(Order[n], f[n - 1])]
           /\ Synced = f[Len(Order)]
<1> DEFINE Run == CHOOSE f : f = [n \in 0 .. Len(Order) |-> IF n = 0 THEN Before ELSE SyncCfo(Order[n], f[n - 1])]
<1>1. Len(Order) \in Nat
  BY RouteEditorAssumption
<1>2. Run = [n \in 0 .. Len(Order) |-> IF n = 0 THEN Before ELSE SyncCfo(Order[n], Run[n - 1])]
  BY <1>1, RunIsThere
<1>3. Synced = Run[Len(Order)]
  BY DEF Synced, Before
<1> QED
  BY <1>2, <1>3

(***************************************************************************)
(* The invariant.                                                          *)
(***************************************************************************)

\* A position that sits with an economist sits at an edge of its CFO
SitsLinked(g) == \A c \in Cfos \ strayed : g.at[c] \in Economists => <<g.at[c], c>> \in g.edges

\* The position of a CFO without an economist is not on its way
NoneWithout(g) == \A c \in Cfos \ strayed : assigned[c] = NoStep => g.at[c] = NoStep

\* What was deleted with its assignment is assigned no more
CutUnassigned == \A x \in severed : assigned[x[2]] # x[1]

\* A deletion takes an assignment along only if the edge can stand for one
JobStands == job.unassigns => job.what \in Economists \X Cfos

\* Graphs as the server keeps them
GraphType(g) ==
    /\ g.steps \subseteq Steps /\ Cfos \cup Zgds \subseteq g.steps
    /\ g.edges \subseteq g.steps \X g.steps
    /\ g.at \in [Cfos -> g.steps \cup {NoStep}]

GraphStands(g) == GraphType(g) /\ severed \cap g.edges = {} /\ SitsLinked(g) /\ NoneWithout(g)

RouteInv == RouteStands /\ SitsLinked(Before) /\ NoneWithout(Before) /\ CutUnassigned /\ JobStands

\* What the steps of a synchronisation rest on
Assigned ==
    /\ assigned \in [Cfos -> Economists \cup {NoStep}]
    /\ severed \subseteq Economists \X Cfos /\ CutUnassigned

(***************************************************************************)
(* One CFO is put right, and the others stay as they are.                  *)
(***************************************************************************)

LEMMA SyncedCfo ==
    ASSUME NEW g, NEW c \in Cfos, assigned[c] # NoStep
    PROVE  /\ SyncCfo(c, g).steps = g.steps \cup {assigned[c]}
           /\ SyncCfo(c, g).at = AtOwn(g, c)
           /\ SyncCfo(c, g).edges = (g.edges \ {<<p, c>> : p \in Wrong(g, c)}) \cup {<<assigned[c], c>>}
                \cup {<<p, assigned[c]>> : p \in
                        ((UNION {Parents(g.edges, f) : f \in Wrong(g, c) \cap Economists}) \ {assigned[c]})
                            \cup (Wrong(g, c) \ Economists)}
BY DEF SyncCfo

LEMMA ParentsAre ==
    ASSUME NEW S, NEW T, NEW U, S \subseteq T \X U, NEW c
    PROVE  Parents(S, c) = {p \in T : <<p, c>> \in S}
BY DEF Parents

LEMMA SyncKeepsType ==
    ASSUME NEW g, GraphType(g), Assigned, NEW c \in Cfos
    PROVE  GraphType(SyncCfo(c, g))
<1>1. CASE assigned[c] = NoStep
  BY <1>1 DEF SyncCfo
<1>2. CASE assigned[c] # NoStep
  <2> DEFINE e == assigned[c]
  <2>1. e \in Economists
    BY <1>2 DEF Assigned
  <2>2. Wrong(g, c) \subseteq g.steps /\ \A f : Parents(g.edges, f) \subseteq g.steps
    BY DEF Wrong, Parents, GraphType
  <2>3. SyncCfo(c, g).steps \subseteq Steps /\ Cfos \cup Zgds \subseteq SyncCfo(c, g).steps
    BY <1>2, <2>1, SyncedCfo DEF GraphType, Steps
  <2>4. SyncCfo(c, g).edges \subseteq SyncCfo(c, g).steps \X SyncCfo(c, g).steps
    <3>1. g.edges \subseteq SyncCfo(c, g).steps \X SyncCfo(c, g).steps
      BY <1>2, SyncedCfo DEF GraphType
    <3>2. <<e, c>> \in SyncCfo(c, g).steps \X SyncCfo(c, g).steps
      BY <1>2, SyncedCfo DEF GraphType
    <3>3. \A p \in g.steps : <<p, e>> \in SyncCfo(c, g).steps \X SyncCfo(c, g).steps
      BY <1>2, SyncedCfo
    <3> QED
      BY <1>2, <2>2, <3>1, <3>2, <3>3, SyncedCfo
  <2>5. SyncCfo(c, g).at \in [Cfos -> SyncCfo(c, g).steps \cup {NoStep}]
    <3>1. SyncCfo(c, g).steps = g.steps \cup {e} /\ SyncCfo(c, g).at = AtOwn(g, c)
      BY <1>2, SyncedCfo
    <3>2. g.at \in [Cfos -> g.steps \cup {e} \cup {NoStep}]
      BY DEF GraphType
    <3>3. AtOwn(g, c) = g.at \/ AtOwn(g, c) = [g.at EXCEPT ![c] = e]
      BY DEF AtOwn
    <3>4. AtOwn(g, c) \in [Cfos -> g.steps \cup {e} \cup {NoStep}]
      BY <3>2, <3>3
    <3> QED
      BY <3>1, <3>4
  <2> QED
    BY <2>3, <2>4, <2>5 DEF GraphType
<1> QED
  BY <1>1, <1>2

LEMMA SyncLinks ==
    ASSUME NEW g, GraphType(g), Assigned, NEW c \in Cfos, assigned[c] # NoStep
    PROVE  /\ Parents(SyncCfo(c, g).edges, c) = {assigned[c]}
           /\ \A d \in Cfos \ {c} : \A p : <<p, d>> \in SyncCfo(c, g).edges <=> <<p, d>> \in g.edges
           /\ \A d \in Cfos, p \in Economists : <<p, d>> \in SyncCfo(c, g).edges =>
                    <<p, d>> \in g.edges \/ p = assigned[d]
<1> DEFINE e == assigned[c]
           h == SyncCfo(c, g).edges
           up == ((UNION {Parents(g.edges, f) : f \in Wrong(g, c) \cap Economists}) \ {e})
                     \cup (Wrong(g, c) \ Economists)
<1>1. e \in Economists /\ e \notin Cfos
  BY RouteEditorAssumption DEF Assigned
<1>2. h = (g.edges \ {<<p, c>> : p \in Wrong(g, c)}) \cup {<<e, c>>} \cup {<<p, e>> : p \in up}
  BY SyncedCfo
<1>3. \A p : <<p, c>> \in g.edges => p = e \/ p \in Wrong(g, c)
  BY DEF Wrong, Parents
<1>4. \A p : <<p, c>> \in h <=> p = e
  <2> HIDE DEF e, h, up
  <2> QED
    BY <1>1, <1>2, <1>3
<1>5. \A d \in Cfos \ {c} : \A p : <<p, d>> \in h <=> <<p, d>> \in g.edges
  <2> HIDE DEF e, h, up
  <2> QED
    BY <1>1, <1>2
<1>6. h \subseteq SyncCfo(c, g).steps \X SyncCfo(c, g).steps
  BY SyncKeepsType DEF GraphType
<1>7. Parents(h, c) = {e}
  <2> HIDE DEF e, h
  <2>1. Parents(h, c) = {p \in SyncCfo(c, g).steps : <<p, c>> \in h}
    BY <1>6, ParentsAre
  <2>2. <<e, c>> \in h
    BY <1>4
  <2> QED
    BY <1>4, <1>6, <2>1, <2>2
<1> QED
  BY <1>4, <1>5, <1>7

LEMMA SyncStands ==
    ASSUME NEW g, GraphStands(g), Assigned, NEW c \in Cfos
    PROVE  GraphStands(SyncCfo(c, g))
<1>1. CASE assigned[c] = NoStep
  BY <1>1 DEF SyncCfo
<1>2. CASE assigned[c] # NoStep
  <2> DEFINE e == assigned[c]
             h == SyncCfo(c, g)
  <2>1. GraphType(g) /\ GraphType(h)
    BY SyncKeepsType DEF GraphStands
  <2>2. /\ e \in Economists
        /\ Parents(h.edges, c) = {e} /\ <<e, c>> \in h.edges
        /\ \A d \in Cfos \ {c} : \A p : <<p, d>> \in h.edges <=> <<p, d>> \in g.edges
        /\ \A d \in Cfos, p \in Economists : <<p, d>> \in h.edges =>
                <<p, d>> \in g.edges \/ p = assigned[d]
    <3>1. e \in Economists
      BY <1>2 DEF Assigned
    <3>2. <<e, c>> \in h.edges
      BY <1>2, SyncedCfo
    <3> QED
      BY <1>2, <2>1, <3>1, <3>2, SyncLinks
  <2>3. severed \cap h.edges = {}
    <3>1. ASSUME NEW x \in severed, x \in h.edges
          PROVE  FALSE
      <4>1. x[1] \in Economists /\ x[2] \in Cfos /\ x = <<x[1], x[2]>>
        BY <3>1 DEF Assigned
      <4>2. x \in g.edges \/ x[1] = assigned[x[2]]
        BY <2>2, <3>1, <4>1
      <4> QED
        BY <3>1, <4>2 DEF Assigned, CutUnassigned, GraphStands
    <3> QED
      BY <3>1
  <2>4. h.at = AtOwn(g, c) /\ g.at = [d \in Cfos |-> g.at[d]]
    BY <1>2, <2>1, SyncedCfo DEF GraphType
  <2>5. \A d \in Cfos \ {c} : h.at[d] = g.at[d]
    BY <2>4 DEF AtOwn
  <2>6. h.at[c] \in Economists => (c \in strayed \/ <<h.at[c], c>> \in h.edges)
    <3>1. CASE g.at[c] \in Wrong(g, c) \cap Economists
      <4>1. h.at[c] = e
        BY <2>4, <3>1 DEF AtOwn
      <4> QED
        BY <2>2, <4>1
    <3>2. CASE g.at[c] \notin Wrong(g, c) \cap Economists
      <4>1. h.at[c] = g.at[c]
        BY <2>4, <3>2 DEF AtOwn
      <4>2. ASSUME g.at[c] \in Economists, c \notin strayed
            PROVE  g.at[c] = e
        <5>1. <<g.at[c], c>> \in g.edges
          BY <4>2 DEF GraphStands, SitsLinked
        <5> QED
          BY <3>2, <4>2, <5>1 DEF Wrong, Parents
      <4> QED
        BY <2>2, <4>1, <4>2
    <3> QED
      BY <3>1, <3>2
  <2>7. SitsLinked(h)
    <3>1. ASSUME NEW d \in Cfos \ strayed, h.at[d] \in Economists
          PROVE  <<h.at[d], d>> \in h.edges
      <4>1. CASE d = c
        BY <2>6, <3>1, <4>1
      <4>2. CASE d # c
        BY <2>2, <2>5, <3>1, <4>2 DEF GraphStands, SitsLinked
      <4> QED
        BY <4>1, <4>2
    <3> HIDE DEF h
    <3> QED
      BY <3>1 DEF SitsLinked
  <2>8. NoneWithout(h)
    <3> HIDE DEF h
    <3> QED
      BY <1>2, <2>5 DEF GraphStands, NoneWithout
  <2> HIDE DEF h
  <2>9. GraphStands(h)
    BY <2>1, <2>3, <2>7, <2>8 DEF GraphStands
  <2> QED
    BY <2>9 DEF h
<1> QED
  BY <1>1, <1>2

LEMMA SyncSettles ==
    ASSUME NEW g, GraphStands(g), Assigned, NEW c \in Cfos, NEW d \in Cfos,
           assigned[d] # NoStep, d = c \/ Parents(g.edges, d) = {assigned[d]}
    PROVE  Parents(SyncCfo(c, g).edges, d) = {assigned[d]}
<1>1. GraphType(g)
  BY DEF GraphStands
<1>2. CASE assigned[c] = NoStep
  BY <1>2 DEF SyncCfo
<1>3. CASE assigned[c] # NoStep /\ d = c
  BY <1>1, <1>3, SyncLinks
<1>4. CASE assigned[c] # NoStep /\ d # c
  <2> DEFINE h == SyncCfo(c, g)
  <2>1. \A p : <<p, d>> \in h.edges <=> <<p, d>> \in g.edges
    BY <1>1, <1>4, SyncLinks
  <2>2. GraphType(h)
    BY <1>1, SyncKeepsType
  <2>3. h.edges \subseteq h.steps \X h.steps /\ g.edges \subseteq g.steps \X g.steps
    BY <1>1, <2>2 DEF GraphType
  <2> HIDE DEF h
  <2>4. Parents(h.edges, d) = {p \in h.steps : <<p, d>> \in h.edges}
    BY <2>3, ParentsAre
  <2>41. Parents(g.edges, d) = {p \in g.steps : <<p, d>> \in g.edges}
    <3>1. g.edges \subseteq g.steps \X g.steps
      BY <2>3
    <3> QED
      BY <3>1, ParentsAre
  <2>5. \A p : p \in Parents(h.edges, d) <=> p \in Parents(g.edges, d)
    BY <2>1, <2>3, <2>4, <2>41
  <2>6. Parents(h.edges, d) = {assigned[d]}
    BY <1>4, <2>5
  <2> QED
    BY <2>6 DEF h
<1> QED
  BY <1>2, <1>3, <1>4

\* All of them are put right, in whatever order
LEMMA SyncedStands ==
    ASSUME GraphStands(Before), Assigned
    PROVE  /\ GraphStands(Synced)
           /\ \A c \in Cfos : assigned[c] # NoStep => Parents(Synced.edges, c) = {assigned[c]}
<1>1. PICK f : /\ f = [n \in 0 .. Len(Order) |-> IF n = 0 THEN Before ELSE SyncCfo(Order[n], f[n - 1])]
               /\ Synced = f[Len(Order)]
  BY SyncedRun
<1>2. Len(Order) \in Nat /\ \A i \in 1 .. Len(Order) : Order[i] \in Cfos
  BY RouteEditorAssumption
<1> DEFINE Right(n, g) == \A i \in 1 .. n : assigned[Order[i]] # NoStep =>
                              Parents(g.edges, Order[i]) = {assigned[Order[i]]}
           Good(n) == n <= Len(Order) => GraphStands(f[n]) /\ Right(n, f[n])
           S == {n \in Nat : Good(n)}
<1>3. f[0] = Before /\ \A n \in 1 .. Len(Order) : f[n] = SyncCfo(Order[n], f[n - 1])
  BY <1>1, <1>2
<1>4. 0 \in S
  BY <1>3
<1>5. ASSUME NEW n \in Nat, n \in S
      PROVE  n + 1 \in S
  <2> SUFFICES Good(n + 1)
    <3> HIDE DEF Good
    <3> QED
      BY <1>5
  <2> SUFFICES ASSUME n + 1 <= Len(Order)
               PROVE  GraphStands(f[n + 1]) /\ Right(n + 1, f[n + 1])
    OBVIOUS
  <2>1. n + 1 \in 1 .. Len(Order) /\ n <= Len(Order) /\ (n + 1) - 1 = n
    BY <1>2, <1>5
  <2>2. GraphStands(f[n]) /\ Right(n, f[n])
    BY <1>5, <2>1
  <2>3. f[n + 1] = SyncCfo(Order[n + 1], f[n]) /\ Order[n + 1] \in Cfos
    BY <1>2, <1>3, <2>1
  <2>4. GraphStands(f[n + 1])
    BY <2>2, <2>3, SyncStands
  <2>5. ASSUME NEW i \in 1 .. n + 1, assigned[Order[i]] # NoStep
        PROVE  Parents(f[n + 1].edges, Order[i]) = {assigned[Order[i]]}
    <3>1. Order[i] \in Cfos /\ (i = n + 1 \/ i \in 1 .. n)
      BY <1>2, <1>5, <2>1, <2>5
    <3>2. Order[i] = Order[n + 1] \/ Parents(f[n].edges, Order[i]) = {assigned[Order[i]]}
      BY <2>2, <2>5, <3>1
    <3> DEFINE d == Order[i]
               c == Order[n + 1]
               g == f[n]
    <3>3. /\ GraphStands(g) /\ c \in Cfos /\ d \in Cfos /\ assigned[d] # NoStep
          /\ d = c \/ Parents(g.edges, d) = {assigned[d]}
          /\ f[n + 1] = SyncCfo(c, g)
      BY <2>2, <2>3, <2>5, <3>1, <3>2
    <3> HIDE DEF c, d, g
    <3>4. Parents(SyncCfo(c, g).edges, d) = {assigned[d]}
      BY <3>3, SyncSettles
    <3> QED
      BY <3>3, <3>4 DEF d
  <2> QED
    BY <2>4, <2>5
<1>6. Nat \subseteq S
  <2> HIDE DEF S
  <2> QED
    BY <1>4, <1>5, CountUp
<1>7. GraphStands(Synced) /\ Right(Len(Order), Synced)
  <2>1. Good(Len(Order))
    <3> HIDE DEF Good
    <3> QED
      BY <1>2, <1>6
  <2>2. GraphStands(f[Len(Order)]) /\ Right(Len(Order), f[Len(Order)])
    BY <1>2, <2>1
  <2> HIDE DEF Right
  <2> QED
    BY <1>1, <2>2
<1> QED
  BY <1>7, RouteEditorAssumption

(***************************************************************************)
(* Type correctness.                                                       *)
(***************************************************************************)

LEMMA Counted ==
    ASSUME TypeOK
    PROVE  (Edit => edits' \in 0 .. MaxEdits) /\ (Fault => faults' \in 0 .. MaxFaults)
<1>1. edits \in Nat /\ faults \in Nat /\ MaxEdits \in Nat /\ MaxFaults \in Nat
  BY RouteEditorAssumption DEF TypeOK
<1> QED
  BY <1>1 DEF Edit, Fault

LEMMA Assumed == RouteInv => GraphStands(Before) /\ Assigned
BY DEF RouteInv, RouteStands, TypeOK, CutStays, GraphStands, GraphType, Before, Assigned

LEMMA ReadType ==
    ASSUME RouteInv, Read PROVE TypeOK'
<1>1. TypeOK /\ GraphType(Synced)
  BY Assumed, SyncedStands DEF RouteInv, RouteStands, GraphStands
<1>2. /\ steps' \subseteq Steps /\ Cfos \cup Zgds \subseteq steps' /\ edges' \subseteq steps' \X steps'
      /\ at' \in [Cfos -> steps' \cup {NoStep}]
  BY <1>1 DEF Read, GraphType
<1>3. edges' \subseteq Steps \X Steps /\ at' \in [Cfos -> Steps \cup {NoStep}]
  BY <1>2
<1>4. view' \in [steps : SUBSET Steps, edges : SUBSET (Steps \X Steps),
                assigned : [Cfos -> Economists \cup {NoStep}], at : [Cfos -> Steps \cup {NoStep}]]
  BY <1>1, <1>2, <1>3 DEF Read, View, TypeOK
<1>5. pending' \in Steps \cup {NoStep} /\ stale' \in BOOLEAN
  BY <1>1 DEF Read, KeptPending, TypeOK
<1> QED
  BY <1>1, <1>2, <1>4, <1>5 DEF Read, TypeOK, cutting, history

LEMMA EnterType ==
    ASSUME RouteInv, NEW c \in Cfos, Enter(c) PROVE TypeOK'
<1>1. TypeOK /\ GraphType(Synced) /\ assigned[c] # NoStep
  BY Assumed, SyncedStands DEF RouteInv, RouteStands, GraphStands, Enter
<1>2. Parents(Synced.edges, c) = {assigned[c]}
  BY <1>1, Assumed, SyncedStands
<1>3. assigned[c] \in Synced.steps
  BY <1>1, <1>2 DEF Parents, GraphType
<1>4. /\ steps' \subseteq Steps /\ Cfos \cup Zgds \subseteq steps' /\ edges' \subseteq steps' \X steps'
      /\ at' \in [Cfos -> steps' \cup {NoStep}]
  BY <1>1, <1>3 DEF Enter, GraphType
<1> QED
  BY <1>1, <1>4 DEF Enter, TypeOK, screen, cutting, history

\* Steps that leave the graph and where the positions are alone
Elsewhere ==
    \/ Refresh \/ GiveUp \/ AskLinked \/ AskFree \/ CancelCreate
    \/ CancelCut \/ CheckCut \/ CancelDelete \/ CheckDelete
    \/ \E s \in Steps : Handle(s) \/ AskDelete(s)
    \/ \E e \in Steps \X Steps : AskCut(e) \/ Preview(e) \/ FailPreview(e)

LEMMA ElsewhereType ==
    ASSUME RouteInv, Elsewhere PROVE TypeOK'
<1>0. TypeOK
  BY DEF RouteInv, RouteStands
<1> USE DEF TypeOK, graph, screen, cutting, history
<1>1. CASE Refresh
  BY <1>0, <1>1, Counted DEF Refresh
<1>2. CASE GiveUp
  BY <1>0, <1>2 DEF GiveUp
<1>3. CASE AskLinked
  BY <1>0, <1>3 DEF AskLinked
<1>4. CASE AskFree
  BY <1>0, <1>4 DEF AskFree
<1>5. CASE CancelCreate
  BY <1>0, <1>5 DEF CancelCreate
<1>6. CASE CancelCut
  BY <1>0, <1>6 DEF CancelCut
<1>7. CASE CheckCut
  <2>1. cut \in [edge : Steps \X Steps, state : {"loading", "asking"}]
    BY <1>0, <1>7 DEF CheckCut, Closed
  <2>2. job' \in [kind : {"edge"}, what : Steps \X Steps, unassigns : BOOLEAN]
    BY <1>7, <2>1 DEF CheckCut
  <2> QED
    BY <1>0, <1>7, <2>2 DEF CheckCut
<1>8. CASE CancelDelete
  BY <1>0, <1>8 DEF CancelDelete
<1>9. CASE CheckDelete
  <2>1. job' \in [kind : {"step"}, what : Steps, unassigns : {FALSE}]
    BY <1>0, <1>9 DEF CheckDelete
  <2> QED
    BY <1>0, <1>9, <2>1 DEF CheckDelete
<1>10. ASSUME NEW s \in Steps, Handle(s) PROVE TypeOK'
  BY <1>0, <1>10 DEF Handle
<1>11. ASSUME NEW s \in Steps, AskDelete(s) PROVE TypeOK'
  BY <1>0, <1>11, Counted DEF AskDelete
<1>12. ASSUME NEW e \in Steps \X Steps, AskCut(e) PROVE TypeOK'
  <2>1. cut' \in [edge : Steps \X Steps, state : {"loading", "asking"}]
    BY <1>12 DEF AskCut
  <2> QED
    BY <1>0, <1>12, <2>1, Counted DEF AskCut
<1>13. ASSUME NEW e \in Steps \X Steps, Preview(e) PROVE TypeOK'
  <2>1. cut' \in [edge : Steps \X Steps, state : {"loading", "asking"}]
    BY <1>13 DEF Preview
  <2> QED
    BY <1>0, <1>13, <2>1 DEF Preview
<1>14. ASSUME NEW e \in Steps \X Steps, FailPreview(e) PROVE TypeOK'
  BY <1>0, <1>14, Counted DEF FailPreview
<1> QED
  BY <1>1, <1>2, <1>3, <1>4, <1>5, <1>6, <1>7, <1>8, <1>9, <1>10, <1>11, <1>12, <1>13, <1>14
     DEF Elsewhere

LEMMA ConnectType ==
    ASSUME RouteInv, NEW s \in Steps, Connect(s) \/ Create(s) PROVE TypeOK'
<1>0. TypeOK
  BY DEF RouteInv, RouteStands
<1> USE DEF TypeOK, graph, cutting, history
<1>1. CASE Connect(s)
  <2>1. edges' \subseteq steps \X steps /\ stale' \in BOOLEAN /\ severed' \subseteq Economists \X Cfos
    <3>1. \/ UNCHANGED <<edges, stale, severed>>
          \/ /\ s \in steps /\ pending \in steps
             /\ edges' = edges \cup {<<s, pending>>} /\ stale' = TRUE
             /\ severed' = severed \ {<<s, pending>>}
      BY <1>1 DEF Connect, Linked
    <3>2. CASE UNCHANGED <<edges, stale, severed>>
      BY <1>0, <3>2
    <3>3. CASE s \in steps /\ pending \in steps /\ edges' = edges \cup {<<s, pending>>}
      <4>1. edges \subseteq steps \X steps /\ severed \subseteq Economists \X Cfos /\ stale \in BOOLEAN
        BY <1>0
      <4>2. edges' \subseteq steps \X steps
        BY <3>3, <4>1
      <4>3. stale' \in BOOLEAN /\ severed' \subseteq Economists \X Cfos
        BY <3>1, <4>1
      <4> QED
        BY <4>2, <4>3
    <3> QED
      BY <3>1, <3>2, <3>3
  <2>2. edits' \in 0 .. MaxEdits
    BY <1>0, <1>1, Counted DEF Connect
  <2> QED
    BY <1>0, <1>1, <2>1, <2>2 DEF Connect
<1>2. CASE Create(s)
  <2>1. CASE UNCHANGED <<graph, stale, create>>
    BY <1>0, <1>2, <2>1, Counted DEF Create
  <2>2. CASE steps' = steps \cup {s} /\ edges' \subseteq edges \cup {<<s, create.child>>}
               /\ (edges' = edges \/ create.child \in steps)
               /\ stale' = TRUE /\ create' = [state |-> "closed", child |-> NoStep]
    <3>1. steps' \subseteq Steps /\ Cfos \cup Zgds \subseteq steps' /\ edges' \subseteq steps' \X steps'
      BY <1>0, <2>2
    <3>2. at \in [Cfos -> steps' \cup {NoStep}]
      BY <1>0, <2>2
    <3> QED
      BY <1>0, <1>2, <2>2, <3>1, <3>2, Counted DEF Create
  <2> QED
    BY <1>2, <2>1, <2>2 DEF Create
<1> QED
  BY <1>1, <1>2

LEMMA CutType ==
    ASSUME RouteInv, MakeCut PROVE TypeOK'
<1>0. TypeOK /\ JobStands
  BY DEF RouteInv, RouteStands
<1>1. job \in [kind : {"edge"}, what : Steps \X Steps, unassigns : BOOLEAN]
  <2>1. job.kind = "edge"
    BY DEF MakeCut
  <2>2. \/ job = Idle \/ job \in [kind : {"step"}, what : Steps, unassigns : {FALSE}]
        \/ job \in [kind : {"edge"}, what : Steps \X Steps, unassigns : BOOLEAN]
    BY <1>0 DEF TypeOK
  <2>3. job # Idle
    BY <2>1 DEF Idle
  <2>4. job \notin [kind : {"step"}, what : Steps, unassigns : {FALSE}]
    BY <2>1
  <2> QED
    BY <2>2, <2>3, <2>4
<1>2. assigned' \in [Cfos -> Economists \cup {NoStep}]
  BY <1>0, <1>1 DEF MakeCut, Unassigned, JobStands, TypeOK, history
<1>3. severed' \subseteq Economists \X Cfos /\ strayed' \subseteq Cfos
  BY <1>0, <1>1 DEF MakeCut, JobStands, TypeOK, history
<1>4. edges' \subseteq steps \X steps /\ stale' \in BOOLEAN /\ (cut' = cut \/ cut' = Closed)
  BY <1>0 DEF MakeCut, TypeOK
<1> QED
  BY <1>0, <1>2, <1>3, <1>4 DEF MakeCut, TypeOK, screen

LEMMA DeleteType ==
    ASSUME RouteInv, MakeDelete PROVE TypeOK'
<1>0. TypeOK
  BY DEF RouteInv, RouteStands
<1>1. CASE UNCHANGED <<graph, at, target, stale>>
  BY <1>0, <1>1 DEF MakeDelete, TypeOK, graph, cutting, history
<1>2. CASE ~ UNCHANGED <<graph, at, target, stale>>
  <2> DEFINE s == job.what
  <2>1. /\ ~Anchor(edges, assigned, s) /\ steps' = steps \ {s}
        /\ edges' = {e \in edges : s \notin {e[1], e[2]}} /\ at' = Left(s)
        /\ target' = NoStep /\ stale' = TRUE
    BY <1>2 DEF MakeDelete
  <2>2. s \notin Cfos \cup Zgds
    BY <2>1 DEF Anchor
  <2>3. steps' \subseteq Steps /\ Cfos \cup Zgds \subseteq steps' /\ edges' \subseteq steps' \X steps'
    BY <1>0, <2>1, <2>2 DEF TypeOK
  <2>4. at' \in [Cfos -> steps' \cup {NoStep}]
    BY <1>0, <2>1 DEF TypeOK, Left
  <2> QED
    BY <1>0, <2>1, <2>3, <2>4 DEF MakeDelete, TypeOK, cutting, history
<1> QED
  BY <1>1, <1>2

LEMMA AssignType ==
    ASSUME RouteInv,
           \/ \E s \in Steps, e \in Economists : Reassign(s, e)
           \/ \E c \in Cfos, e \in Economists \cup {NoStep} : AssignUnit(c, e)
    PROVE  TypeOK'
<1>0. TypeOK
  BY DEF RouteInv, RouteStands
<1> USE DEF TypeOK, graph, screen, cutting
<1>1. ASSUME NEW s \in Steps, NEW e \in Economists, Reassign(s, e) PROVE TypeOK'
  <2>1. PICK done : /\ assigned' = [c \in Cfos |-> IF c \in done THEN e ELSE assigned[c]]
                    /\ severed' = {x \in severed : x[2] \notin done}
                    /\ \/ stale' = TRUE /\ UNCHANGED faults
                       \/ Fault /\ UNCHANGED stale
    BY <1>1 DEF Reassign
  <2>2. assigned' \in [Cfos -> Economists \cup {NoStep}]
    BY <1>0, <2>1
  <2>3. severed' \subseteq Economists \X Cfos
    BY <1>0, <2>1
  <2>4. faults' \in 0 .. MaxFaults /\ edits' \in 0 .. MaxEdits /\ stale' \in BOOLEAN
    BY <1>0, <1>1, <2>1, Counted DEF Reassign
  <2> QED
    BY <1>0, <1>1, <2>2, <2>3, <2>4 DEF Reassign
<1>2. ASSUME NEW c \in Cfos, NEW e \in Economists \cup {NoStep}, AssignUnit(c, e) PROVE TypeOK'
  BY <1>0, <1>2, Counted DEF AssignUnit
<1> QED
  BY <1>1, <1>2

LEMMA TravelType ==
    ASSUME RouteInv, NEW c \in Cfos, Forward(c) \/ Back(c) PROVE TypeOK'
<1>0. TypeOK
  BY DEF RouteInv, RouteStands
<1>1. \E p \in steps \cup {NoStep} : at' = [at EXCEPT ![c] = p]
  <2>1. CASE Forward(c)
    BY <2>1 DEF Forward
  <2>2. CASE Back(c)
    <3>1. \A k \in Children(edges, at[c]) : k \in steps
      BY <1>0 DEF Children, TypeOK
    <3> QED
      BY <2>2, <3>1 DEF Back
  <2> QED
    BY <2>1, <2>2
<1>2. at' \in [Cfos -> steps \cup {NoStep}]
  BY <1>0, <1>1 DEF TypeOK
<1>3. strayed' \subseteq Cfos
  BY <1>0 DEF Forward, Back, StrayedBy, TypeOK
<1> QED
  BY <1>0, <1>2, <1>3 DEF Forward, Back, TypeOK, graph, screen, cutting

LEMMA TypeStep ==
    ASSUME RouteInv, [Next]_vars PROVE TypeOK'
<1>1. CASE Elsewhere
  BY <1>1, ElsewhereType
<1>2. CASE Read \/ \E c \in Cfos : Enter(c)
  BY <1>2, ReadType, EnterType
<1>3. CASE MakeCut \/ MakeDelete
  BY <1>3, CutType, DeleteType
<1>4. CASE \E s \in Steps : Connect(s) \/ Create(s)
  BY <1>4, ConnectType
<1>5. CASE \/ \E s \in Steps, e \in Economists : Reassign(s, e)
           \/ \E c \in Cfos, e \in Economists \cup {NoStep} : AssignUnit(c, e)
  BY <1>5, AssignType
<1>6. CASE \E c \in Cfos : Forward(c) \/ Back(c)
  BY <1>6, TravelType
<1>7. CASE UNCHANGED vars
  BY <1>7 DEF RouteInv, RouteStands, TypeOK, vars
<1> QED
  BY <1>1, <1>2, <1>3, <1>4, <1>5, <1>6, <1>7 DEF Next, Elsewhere

(***************************************************************************)
(* Every step keeps the invariant.                                         *)
(***************************************************************************)

LEMMA RouteInit == Init => RouteInv
<1> SUFFICES ASSUME Init PROVE RouteInv
  OBVIOUS
<1>1. \A c \in Cfos : assigned[c] # NoStep => assigned[c] \in Economists
  BY DEF Init
<1>2. TypeOK
  <2>1. steps \subseteq Steps /\ Cfos \cup Zgds \subseteq steps /\ edges \subseteq steps \X steps
    BY <1>1 DEF Init, Steps
  <2>2. at \in [Cfos -> steps \cup {NoStep}] /\ at \in [Cfos -> Steps \cup {NoStep}]
    BY DEF Init
  <2>3. edges \subseteq Steps \X Steps
    BY <2>1
  <2>4. view \in [steps : SUBSET Steps, edges : SUBSET (Steps \X Steps),
                 assigned : [Cfos -> Economists \cup {NoStep}], at : [Cfos -> Steps \cup {NoStep}]]
    BY <2>1, <2>2, <2>3 DEF Init, View
  <2>5. edits \in 0 .. MaxEdits /\ faults \in 0 .. MaxFaults
    BY RouteEditorAssumption DEF Init
  <2> QED
    BY <2>1, <2>2, <2>4, <2>5 DEF Init, TypeOK
<1>3. RouteInView
  <2>1. view.edges = edges /\ view.assigned = assigned
    BY DEF Init, View
  <2>2. \A c \in Cfos : assigned[c] # NoStep => \A p : <<p, c>> \in edges <=> p = assigned[c]
    BY DEF Init
  <2>3. ASSUME NEW c \in Cfos, assigned[c] # NoStep
        PROVE  Parents(edges, c) = {assigned[c]}
    <3>1. Parents(edges, c) = {p \in steps : <<p, c>> \in edges}
      <4>1. edges \subseteq steps \X steps
        BY <1>2 DEF TypeOK
      <4> QED
        BY <4>1, ParentsAre
    <3>2. assigned[c] \in steps
      BY <2>3 DEF Init
    <3> QED
      BY <2>2, <2>3, <3>1, <3>2
  <2> QED
    BY <2>1, <2>3 DEF RouteInView
<1>4. /\ PendingIsShown /\ CutStays /\ SitsLinked(Before) /\ NoneWithout(Before)
      /\ CutUnassigned /\ JobStands
  BY RouteEditorAssumption DEF Init, PendingIsShown, CutStays, SitsLinked, NoneWithout,
     CutUnassigned, JobStands, Before, Idle, Steps
<1>5. OwnEconomist
  BY RouteEditorAssumption DEF Init, OwnEconomist, Steps
<1> QED
  BY <1>2, <1>3, <1>4, <1>5 DEF RouteInv, RouteStands

\* What a synchronisation leaves behind: every position that did not stray sits right
LEMMA SyncedOwn ==
    ASSUME RouteInv, NEW c \in Cfos \ strayed, Synced.at[c] \in Economists
    PROVE  Synced.at[c] = assigned[c]
<1>1. /\ GraphStands(Synced)
      /\ \A d \in Cfos : assigned[d] # NoStep => Parents(Synced.edges, d) = {assigned[d]}
  BY Assumed, SyncedStands
<1>2. Synced.at[c] # NoStep
  BY RouteEditorAssumption DEF Steps
<1>3. assigned[c] # NoStep
  BY <1>1, <1>2 DEF GraphStands, NoneWithout
<1>4. <<Synced.at[c], c>> \in Synced.edges
  BY <1>1 DEF GraphStands, SitsLinked
<1> QED
  BY <1>1, <1>3, <1>4 DEF Parents

LEMMA ReadKeeps ==
    ASSUME RouteInv, Read PROVE RouteInv'
<1>1. TypeOK'
  BY ReadType
<1>2. /\ GraphStands(Synced)
      /\ \A d \in Cfos : assigned[d] # NoStep => Parents(Synced.edges, d) = {assigned[d]}
  BY Assumed, SyncedStands
<1>3. /\ steps' = Synced.steps /\ edges' = Synced.edges /\ at' = Synced.at
      /\ view'.steps = steps' /\ view'.edges = edges' /\ view'.assigned = assigned
      /\ assigned' = assigned /\ severed' = severed /\ strayed' = strayed /\ job' = job
      /\ pending' = KeptPending(steps')
  BY DEF Read, View, history
<1>4. RouteInView'
  BY <1>2, <1>3 DEF RouteInView
<1>5. PendingIsShown'
  BY <1>3 DEF RouteInv, RouteStands, PendingIsShown, KeptPending
<1>6. CutStays' /\ CutUnassigned' /\ JobStands'
  BY <1>2, <1>3 DEF RouteInv, CutStays, CutUnassigned, JobStands, GraphStands
<1>7. SitsLinked(Before)' /\ NoneWithout(Before)'
  BY <1>2, <1>3 DEF GraphStands, SitsLinked, NoneWithout, Before
<1>8. OwnEconomist'
  BY <1>3, SyncedOwn DEF OwnEconomist
<1> QED
  BY <1>1, <1>4, <1>5, <1>6, <1>7, <1>8 DEF RouteInv, RouteStands

LEMMA EnterKeeps ==
    ASSUME RouteInv, NEW c \in Cfos, Enter(c) PROVE RouteInv'
<1>1. TypeOK' /\ TypeOK
  BY EnterType DEF RouteInv, RouteStands
<1>2. /\ GraphStands(Synced)
      /\ \A d \in Cfos : assigned[d] # NoStep => Parents(Synced.edges, d) = {assigned[d]}
  BY Assumed, SyncedStands
<1>3. /\ assigned[c] # NoStep /\ edges' = Synced.edges /\ at' = [Synced.at EXCEPT ![c] = assigned[c]]
      /\ view' = view /\ stale' = stale /\ assigned' = assigned /\ severed' = severed
      /\ strayed' = strayed /\ job' = job /\ pending' = pending
  BY DEF Enter, screen, history
<1>4. RouteInView' /\ PendingIsShown'
  BY <1>3 DEF RouteInv, RouteStands, RouteInView, PendingIsShown
<1>5. CutStays' /\ CutUnassigned' /\ JobStands'
  BY <1>2, <1>3 DEF RouteInv, CutStays, CutUnassigned, JobStands, GraphStands
<1>6. at'[c] = assigned[c] /\ \A d \in Cfos \ {c} : at'[d] = Synced.at[d]
  BY <1>2, <1>3 DEF GraphStands, GraphType
<1>7. <<assigned[c], c>> \in Synced.edges
  <2>1. Parents(Synced.edges, c) = {assigned[c]} /\ Synced.edges \subseteq Synced.steps \X Synced.steps
    BY <1>2, <1>3 DEF GraphStands, GraphType
  <2>2. Parents(Synced.edges, c) = {p \in Synced.steps : <<p, c>> \in Synced.edges}
    <3>1. Synced.edges \subseteq Synced.steps \X Synced.steps
      BY <2>1
    <3> QED
      BY <3>1, ParentsAre
  <2> QED
    BY <2>1, <2>2
<1>8. SitsLinked(Before)' /\ NoneWithout(Before)'
  BY <1>2, <1>3, <1>6, <1>7 DEF GraphStands, SitsLinked, NoneWithout, Before
<1>9. OwnEconomist'
  BY <1>3, <1>6, SyncedOwn DEF OwnEconomist
<1> QED
  BY <1>1, <1>4, <1>5, <1>8, <1>9 DEF RouteInv, RouteStands

LEMMA ElsewhereKeeps ==
    ASSUME RouteInv, Elsewhere PROVE RouteInv'
<1>0. TypeOK /\ TypeOK'
  BY ElsewhereType DEF RouteInv, RouteStands
<1>1. /\ UNCHANGED <<graph, assigned, at, view, history>> /\ (stale' = stale \/ stale' = TRUE)
  BY DEF Elsewhere, Refresh, GiveUp, AskLinked, AskFree, CancelCreate, CancelCut, CheckCut,
     CancelDelete, CheckDelete, Handle, AskDelete, AskCut, Preview, FailPreview
<1>2. pending' \in {pending, NoStep} \cup view.steps
  BY DEF Elsewhere, Refresh, GiveUp, AskLinked, AskFree, CancelCreate, CancelCut, CheckCut,
     CancelDelete, CheckDelete, Handle, AskDelete, AskCut, Preview, FailPreview, screen
<1>3. JobStands'
  <2>1. CASE job' = job
    BY <2>1 DEF RouteInv, JobStands
  <2>2. CASE CheckCut
    <3>1. cut \in [edge : Steps \X Steps, state : {"loading", "asking"}]
      BY <1>0, <2>2 DEF CheckCut, TypeOK, Closed
    <3>2. job'.what = cut.edge /\ job'.unassigns = (cut.edge[2] \in CfosOf(edges, assigned, cut.edge[1]))
      BY <2>2 DEF CheckCut
    <3>3. cut.edge[2] \in CfosOf(edges, assigned, cut.edge[1]) => cut.edge \in Economists \X Cfos
      BY <1>0, <3>1, RouteEditorAssumption DEF CfosOf, TypeOK
    <3> QED
      BY <3>2, <3>3 DEF JobStands
  <2>3. CASE CheckDelete
    BY <2>3 DEF CheckDelete, JobStands
  <2> QED
    BY <2>1, <2>2, <2>3 DEF Elsewhere, Refresh, GiveUp, AskLinked, AskFree, CancelCreate, CancelCut,
       CancelDelete, Handle, AskDelete, AskCut, Preview, FailPreview
<1>4. RouteInView' /\ PendingIsShown' /\ CutStays' /\ CutUnassigned'
  BY <1>1, <1>2 DEF RouteInv, RouteStands, RouteInView, PendingIsShown, CutStays, CutUnassigned,
     graph, history
<1>5. SitsLinked(Before)' /\ NoneWithout(Before)'
  BY <1>1 DEF RouteInv, SitsLinked, NoneWithout, Before, graph, history
<1>6. OwnEconomist'
  BY <1>1 DEF RouteInv, RouteStands, OwnEconomist, history
<1> QED
  BY <1>0, <1>3, <1>4, <1>5, <1>6 DEF RouteInv, RouteStands

LEMMA ConnectKeeps ==
    ASSUME RouteInv, NEW s \in Steps, Connect(s) \/ Create(s) PROVE RouteInv'
<1>0. TypeOK /\ TypeOK'
  BY ConnectType DEF RouteInv, RouteStands
<1>1. /\ UNCHANGED <<assigned, at, view, strayed, job>> /\ (stale' = stale \/ stale' = TRUE)
      /\ pending' \in {pending, NoStep} /\ edges \subseteq edges'
  BY DEF Connect, Linked, Create, cutting, history, graph
<1>2. severed' \subseteq severed /\ severed' \cap edges' = {}
  <2>1. CASE Connect(s)
    BY <2>1 DEF Connect, Linked, RouteInv, RouteStands, CutStays
  <2>2. CASE Create(s)
    <3>1. s \notin Economists /\ severed \subseteq Economists \X Cfos
      BY <1>0, <2>2, RouteEditorAssumption DEF Create, TypeOK
    <3>2. edges' \subseteq edges \cup {<<s, create.child>>} /\ severed' = severed
      BY <2>2 DEF Create, history, graph
    <3> QED
      BY <3>1, <3>2 DEF RouteInv, RouteStands, CutStays
  <2> QED
    BY <2>1, <2>2
<1>3. RouteInView' /\ PendingIsShown' /\ CutStays' /\ CutUnassigned' /\ JobStands'
  BY <1>1, <1>2 DEF RouteInv, RouteStands, RouteInView, PendingIsShown, CutStays, CutUnassigned, JobStands
<1>4. SitsLinked(Before)' /\ NoneWithout(Before)'
  BY <1>1 DEF RouteInv, SitsLinked, NoneWithout, Before
<1>5. OwnEconomist'
  BY <1>1 DEF RouteInv, RouteStands, OwnEconomist
<1> QED
  BY <1>0, <1>3, <1>4, <1>5 DEF RouteInv, RouteStands

LEMMA CutKeeps ==
    ASSUME RouteInv, MakeCut PROVE RouteInv'
<1>0. TypeOK /\ TypeOK'
  BY CutType DEF RouteInv, RouteStands
<1> DEFINE p == job.what[1]
           c == job.what[2]
<1>1. UNCHANGED <<at, view, pending>> /\ job' = Idle
  BY DEF MakeCut, screen
<1>2. RouteInView' /\ PendingIsShown' /\ JobStands'
  BY <1>1 DEF RouteInv, RouteStands, RouteInView, PendingIsShown, JobStands, Idle
<1>3. CASE job.what \notin edges
  <2>1. UNCHANGED <<edges, assigned, stale, severed, strayed>>
    BY <1>3 DEF MakeCut, history
  <2>2. CutStays' /\ CutUnassigned' /\ SitsLinked(Before)' /\ NoneWithout(Before)' /\ OwnEconomist'
    BY <1>1, <2>1 DEF RouteInv, RouteStands, CutStays, CutUnassigned, SitsLinked, NoneWithout,
       Before, OwnEconomist
  <2> QED
    BY <1>0, <1>2, <2>2 DEF RouteInv, RouteStands
<1>4. CASE job.what \in edges
  <2>1. /\ edges' = edges \ {job.what} /\ stale' = TRUE /\ strayed' = strayed \cup ({c} \cap Cfos)
        /\ \/ assigned' = assigned /\ severed' = severed
           \/ /\ job.unassigns /\ severed' = severed \cup {job.what}
              /\ assigned' = IF assigned[c] = p THEN Unassigned(c) ELSE assigned
    BY <1>4 DEF MakeCut, history
  <2>2. job.what = <<p, c>>
    BY <1>0, <1>4 DEF TypeOK
  <2>3. \A d \in Cfos : assigned'[d] = assigned[d] \/ (d = c /\ assigned'[d] = NoStep)
    BY <1>0, <2>1 DEF TypeOK, Unassigned
  <2>4. CutStays'
    BY <2>1 DEF RouteInv, RouteStands, CutStays
  <2>5. CutUnassigned'
    <3>1. ASSUME NEW x \in severed'
          PROVE  assigned'[x[2]] # x[1]
      <4>1. x \in Economists \X Cfos
        BY <1>0, <3>1 DEF TypeOK
      <4>2. x[1] # NoStep
        BY <4>1, RouteEditorAssumption DEF Steps
      <4>3. CASE x \in severed
        BY <2>3, <4>1, <4>2, <4>3 DEF RouteInv, CutUnassigned
      <4>4. CASE x \notin severed
        <5>1. job.unassigns /\ x = job.what /\ c \in Cfos
          BY <2>1, <3>1, <4>1, <4>4
        <5>2. assigned' = IF assigned[c] = p THEN Unassigned(c) ELSE assigned
          BY <2>1, <3>1, <4>4
        <5>3. assigned'[c] # p
          BY <1>0, <4>2, <5>1, <5>2 DEF Unassigned, TypeOK
        <5> QED
          BY <5>1, <5>3
      <4> QED
        BY <4>3, <4>4
    <3> QED
      BY <3>1 DEF CutUnassigned
  <2>6. SitsLinked(Before)'
    BY <1>1, <2>1, <2>2 DEF RouteInv, SitsLinked, Before
  <2>7. NoneWithout(Before)'
    BY <1>1, <2>1, <2>3 DEF RouteInv, NoneWithout, Before
  <2>8. OwnEconomist'
    BY <2>1 DEF OwnEconomist
  <2> QED
    BY <1>0, <1>2, <2>4, <2>5, <2>6, <2>7, <2>8 DEF RouteInv, RouteStands
<1> QED
  BY <1>3, <1>4

LEMMA DeleteKeeps ==
    ASSUME RouteInv, MakeDelete PROVE RouteInv'
<1>0. TypeOK /\ TypeOK'
  BY DeleteType DEF RouteInv, RouteStands
<1> DEFINE s == job.what
<1>1. UNCHANGED <<assigned, view, pending, severed, strayed>> /\ job' = Idle
  BY DEF MakeDelete, history
<1>2. RouteInView' /\ PendingIsShown' /\ JobStands' /\ CutUnassigned'
  BY <1>1 DEF RouteInv, RouteStands, RouteInView, PendingIsShown, JobStands, Idle, CutUnassigned
<1>3. CASE UNCHANGED <<graph, at, target, stale>>
  <2>1. CutStays' /\ SitsLinked(Before)' /\ NoneWithout(Before)' /\ OwnEconomist'
    BY <1>1, <1>3 DEF RouteInv, RouteStands, CutStays, SitsLinked, NoneWithout, Before, OwnEconomist, graph
  <2> QED
    BY <1>0, <1>2, <2>1 DEF RouteInv, RouteStands
<1>4. CASE ~ UNCHANGED <<graph, at, target, stale>>
  <2>1. /\ ~Anchor(edges, assigned, s) /\ stale' = TRUE
        /\ edges' = {e \in edges : s \notin {e[1], e[2]}} /\ at' = Left(s)
    BY <1>4 DEF MakeDelete
  <2>2. s \notin Cfos
    BY <2>1 DEF Anchor
  <2>3. CutStays' /\ OwnEconomist'
    BY <1>1, <2>1 DEF RouteInv, RouteStands, CutStays, OwnEconomist
  <2>4. \A c \in Cfos : at'[c] = NoStep \/ (at'[c] = at[c] /\ at[c] # s)
    BY <2>1 DEF Left
  <2>5. NoStep \notin Economists
    BY RouteEditorAssumption DEF Steps
  <2>6. SitsLinked(Before)' /\ NoneWithout(Before)'
    BY <1>1, <2>1, <2>2, <2>4, <2>5 DEF RouteInv, SitsLinked, NoneWithout, Before
  <2> QED
    BY <1>0, <1>2, <2>3, <2>6 DEF RouteInv, RouteStands
<1> QED
  BY <1>3, <1>4

LEMMA ReassignKeeps ==
    ASSUME RouteInv, NEW s \in Steps, NEW e \in Economists, Reassign(s, e) PROVE RouteInv'
<1>0. TypeOK /\ TypeOK'
  BY AssignType DEF RouteInv, RouteStands
<1> DEFINE asked == CfosOf(view.edges, view.assigned, s)
<1>1. PICK done \in SUBSET asked :
            /\ assigned' = [c \in Cfos |-> IF c \in done THEN e ELSE assigned[c]]
            /\ severed' = {x \in severed : x[2] \notin done}
            /\ IF done = asked THEN stale' = TRUE /\ UNCHANGED faults ELSE Fault /\ UNCHANGED stale
  BY DEF Reassign
<1>2. UNCHANGED <<edges, at, view, pending, job, strayed>> /\ e # s
  BY DEF Reassign, graph, screen
<1>3. RouteInView' /\ PendingIsShown' /\ JobStands'
  BY <1>2 DEF RouteInv, RouteStands, RouteInView, PendingIsShown, JobStands
<1>4. CutStays' /\ SitsLinked(Before)'
  BY <1>1, <1>2 DEF RouteInv, RouteStands, CutStays, SitsLinked, Before
<1>5. CutUnassigned'
  <2>1. \A x \in severed' : x \in severed /\ x[2] \in Cfos /\ assigned'[x[2]] = assigned[x[2]]
    BY <1>0, <1>1 DEF TypeOK
  <2> QED
    BY <2>1 DEF RouteInv, CutUnassigned
<1>6. NoneWithout(Before)'
  <2>1. e # NoStep
    BY RouteEditorAssumption DEF Steps
  <2>2. \A c \in Cfos : assigned'[c] = NoStep => assigned[c] = NoStep
    BY <1>1, <2>1
  <2> QED
    BY <1>2, <2>2 DEF RouteInv, NoneWithout, Before
<1>7. OwnEconomist'
  <2>1. CASE done = {}
    <3>1. assigned' = assigned
      BY <1>0, <1>1, <2>1 DEF TypeOK
    <3>2. stale' = stale \/ stale' = TRUE
      BY <1>1
    <3> QED
      BY <1>2, <3>1, <3>2 DEF RouteInv, RouteStands, OwnEconomist
  <2>2. CASE done # {}
    <3>1. PICK c \in done : c \in Cfos /\ view.assigned[c] = s
      BY <2>2 DEF CfosOf
    <3>2. assigned'[c] = e /\ view'.assigned[c] = s
      BY <1>1, <1>2, <3>1
    <3> QED
      BY <1>2, <3>2 DEF OwnEconomist
  <2> QED
    BY <2>1, <2>2
<1> QED
  BY <1>0, <1>3, <1>4, <1>5, <1>6, <1>7 DEF RouteInv, RouteStands

LEMMA AssignKeeps ==
    ASSUME RouteInv, NEW c \in Cfos, NEW e \in Economists \cup {NoStep}, AssignUnit(c, e)
    PROVE  RouteInv'
<1>0. TypeOK /\ TypeOK'
  BY AssignType DEF RouteInv, RouteStands
<1>1. /\ UNCHANGED <<edges, at, view, pending, job, strayed>>
      /\ assigned' = [assigned EXCEPT ![c] = e] /\ severed' = {x \in severed : x[2] # c}
      /\ stale' = TRUE /\ (e = NoStep => at[c] = NoStep)
  BY DEF AssignUnit, graph, screen
<1>2. RouteInView' /\ PendingIsShown' /\ JobStands'
  BY <1>1 DEF RouteInv, RouteStands, RouteInView, PendingIsShown, JobStands
<1>3. CutStays' /\ SitsLinked(Before)' /\ OwnEconomist'
  BY <1>1 DEF RouteInv, RouteStands, CutStays, SitsLinked, Before, OwnEconomist
<1>4. CutUnassigned'
  <2>1. \A x \in severed' : x \in severed /\ x[2] \in Cfos /\ assigned'[x[2]] = assigned[x[2]]
    BY <1>0, <1>1 DEF TypeOK
  <2> QED
    BY <2>1 DEF RouteInv, CutUnassigned
<1>5. NoneWithout(Before)'
  <2>1. \A d \in Cfos : assigned'[d] = NoStep => assigned[d] = NoStep \/ at[d] = NoStep
    BY <1>0, <1>1 DEF TypeOK
  <2> QED
    BY <1>1, <2>1 DEF RouteInv, NoneWithout, Before
<1> QED
  BY <1>0, <1>2, <1>3, <1>4, <1>5 DEF RouteInv, RouteStands

LEMMA TravelKeeps ==
    ASSUME RouteInv, NEW c \in Cfos, Forward(c) \/ Back(c) PROVE RouteInv'
<1>0. TypeOK /\ TypeOK'
  BY TravelType DEF RouteInv, RouteStands
<1>1. /\ UNCHANGED <<edges, assigned, view, stale, pending, job, severed>>
      /\ strayed' = StrayedBy(c) /\ at[c] # NoStep
      /\ \A d \in Cfos \ {c} : at'[d] = at[d]
  <2>1. NoStep \notin Zgds /\ NoStep \notin steps /\ at = [d \in Cfos |-> at[d]]
    BY <1>0, RouteEditorAssumption DEF TypeOK, Steps
  <2>2. CASE Forward(c)
    BY <2>1, <2>2 DEF Forward, graph, screen
  <2>3. CASE Back(c)
    BY <2>1, <2>3 DEF Back, graph, screen
  <2> QED
    BY <2>2, <2>3
<1>2. RouteInView' /\ PendingIsShown' /\ JobStands' /\ CutStays' /\ CutUnassigned'
  BY <1>1 DEF RouteInv, RouteStands, RouteInView, PendingIsShown, JobStands, CutStays, CutUnassigned
<1>3. /\ strayed \subseteq strayed'
      /\ c \notin strayed' /\ at'[c] \in Economists => c \in CfosOf(edges, assigned, at'[c])
  BY <1>1 DEF StrayedBy
<1>4. SitsLinked(Before)'
  BY <1>1, <1>3 DEF RouteInv, SitsLinked, Before, CfosOf
<1>5. NoneWithout(Before)'
  BY <1>1, <1>3 DEF RouteInv, NoneWithout, Before
<1>6. OwnEconomist'
  BY <1>1, <1>3 DEF RouteInv, RouteStands, OwnEconomist, CfosOf
<1> QED
  BY <1>0, <1>2, <1>4, <1>5, <1>6 DEF RouteInv, RouteStands

LEMMA RouteNext == RouteInv /\ [Next]_vars => RouteInv'
<1> SUFFICES ASSUME RouteInv, [Next]_vars PROVE RouteInv'
  OBVIOUS
<1>1. CASE Elsewhere
  BY <1>1, ElsewhereKeeps
<1>2. CASE Read \/ \E c \in Cfos : Enter(c)
  BY <1>2, ReadKeeps, EnterKeeps
<1>3. CASE MakeCut \/ MakeDelete
  BY <1>3, CutKeeps, DeleteKeeps
<1>4. CASE \E s \in Steps : Connect(s) \/ Create(s)
  BY <1>4, ConnectKeeps
<1>5. CASE \/ \E s \in Steps, e \in Economists : Reassign(s, e)
           \/ \E c \in Cfos, e \in Economists \cup {NoStep} : AssignUnit(c, e)
  BY <1>5, ReassignKeeps, AssignKeeps
<1>6. CASE \E c \in Cfos : Forward(c) \/ Back(c)
  BY <1>6, TravelKeeps
<1>7. CASE UNCHANGED vars
  <2>1. TypeOK'
    BY TypeStep
  <2>2. RouteInView' /\ PendingIsShown' /\ CutStays' /\ CutUnassigned' /\ JobStands'
    BY <1>7 DEF RouteInv, RouteStands, RouteInView, PendingIsShown, CutStays, CutUnassigned, JobStands, vars
  <2>3. OwnEconomist' /\ SitsLinked(Before)' /\ NoneWithout(Before)'
    BY <1>7 DEF RouteInv, RouteStands, OwnEconomist, SitsLinked, NoneWithout, Before, vars
  <2> QED
    BY <2>1, <2>2, <2>3 DEF RouteInv, RouteStands
<1> QED
  BY <1>1, <1>2, <1>3, <1>4, <1>5, <1>6, <1>7 DEF Next, Elsewhere

\* Whatever the administrator does while positions travel: the route that is read has
\* just the economist's step between a CFO and the rest, an edge deleted with its
\* assignment stays deleted, and positions follow their CFO to a new economist.
THEOREM RouteAgrees == Spec => []RouteStands
<1>1. RouteInv => RouteStands
  BY DEF RouteInv
<1> QED
  BY RouteInit, RouteNext, <1>1, PTL DEF Spec

=============================================================================
