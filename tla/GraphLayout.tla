----------------------------- MODULE GraphLayout -----------------------------
(***************************************************************************)
(* How the graph of the approval route is drawn and moved about            *)
(* (pages/ApprovalPage.tsx, ApprovalGraph and EdgeDeleteGraphPreview).     *)
(* Steps are numbers in the order of their names, a route is a set of      *)
(* steps with edges <<parent, child>> and no cycle.  A step stands in the  *)
(* column after its deepest child, the ZGD two columns after the last      *)
(* reviewer; a step and all below it get a block of rows of their own.     *)
(* Cards are as wide as a column; a card is [col, y, h].                   *)
(***************************************************************************)
EXTENDS Integers, FiniteSets, FiniteSetsExt, SequencesExt

CONSTANTS
    Leaves, Tops,   \* the steps of CFOs and of the ZGD
    Routes, Answers, \* the routes that are drawn, as [steps, edges], and those among them that are moved about
    Height(_),      \* how tall the card of a step is
    Modules(_),     \* the heights of the cards of a CFO's modules
    Department(_),  \* of a CFO
    Gap,            \* between cards of a column
    Width,          \* of a column
    Frames,         \* how large the window may be: [w, h]
    Padding, Full, MaxZoom, \* the margin of the window, zoom 1 and the largest, in units of zoom
    MaxMoves        \* bound on what the user does

VARIABLES
    route,   \* the answer shown
    order,   \* the order of the CFOs the user has chosen, kept in the browser
    cards,   \* the layout, as remembered for route and order
    frame, zoom, pan,
    moves

vars == <<route, order, cards, frame, zoom, pan, moves>>

Max2(a, b) == IF a > b THEN a ELSE b
Min2(a, b) == IF a < b THEN a ELSE b
Sum(s) == FoldLeft(+, 0, s)

\* What the heights of several blocks, one under the other, come to
Stacked(hs) == Sum(hs) + Max2(0, Len(hs) - 1) * Gap

-----------------------------------------------------------------------------
(* The layout *)

Kids(g, s) == {e[2] : e \in {x \in g.edges : x[1] = s}}
Parents(g, s) == {e[1] : e \in {x \in g.edges : x[2] = s}}

\* Steps on the way to a ZGD
RECURSIVE OnRoute(_, _)
OnRoute(g, s) == s \in Tops \/ \E p \in Parents(g, s) : OnRoute(g, p)

\* Beside the route to the ZGD, steps off it are drawn as trees of their own
DrawnKids(g, s) == {c \in Kids(g, s) : g.steps \cap Tops = {} \/ (OnRoute(g, c) <=> OnRoute(g, s))}

RECURSIVE Depth(_, _)
Depth(g, s) ==
    IF DrawnKids(g, s) = {} THEN 0
    ELSE 1 + Max({Depth(g, c) : c \in DrawnKids(g, s)})

Column(g, s) ==
    IF s \in Tops
    THEN 2 + Max({0} \cup {Max2(1, Depth(g, r)) : r \in g.steps \ (Leaves \cup Tops)})
    ELSE Depth(g, s) + 1

\* A chosen order first, the other CFOs after it by name
Ordered(o, ls) == SelectSeq(o, LAMBDA l : l \in ls) \o SetToSortSeq(ls \ ToSet(o), <)

\* The first CFO of a branch says where it goes, its own name decides among equals
RECURSIVE BranchRank(_, _, _)
BranchRank(g, o, s) ==
    Min({100} \cup {i \in DOMAIN o : o[i] = s} \cup {BranchRank(g, o, c) : c \in DrawnKids(g, s)})

Sorted(g, o, ss) ==
    LET rank == [s \in ss |-> BranchRank(g, o, s)]
    IN  SetToSortSeq(ss, LAMBDA a, b : rank[a] < rank[b] \/ (rank[a] = rank[b] /\ a < b))

\* A CFO is as tall as its card or its modules, whichever are taller
LeafHeight(l) == Max2(Height(l), IF Modules(l) = <<>> THEN 0 ELSE Stacked(Modules(l)))
OwnHeight(s) == IF s \in Leaves THEN LeafHeight(s) ELSE Height(s)

\* Mutant: room for the card only
BlockOfCard(g, s) == OwnHeight(s)

\* The block of a step: its card beside the blocks of the steps below it
RECURSIVE Block(_, _)
Block(g, s) ==
    LET kids == DrawnKids(g, s)
    IN  Max2(OwnHeight(s), MapThenSumSet(LAMBDA c : Block(g, c), kids) + Max2(0, Cardinality(kids) - 1) * Gap)

\* Where each of several blocks begins
Starts(g, ss, top) == [i \in DOMAIN ss |-> top + Sum([j \in 1 .. i - 1 |-> Block(g, ss[j]) + Gap])]

\* A step that was placed under another parent stays there, and leaves its room empty here
RECURSIVE Place(_, _, _, _, _)
Place(g, o, s, top, placed) ==
    IF s \in DOMAIN placed THEN placed
    ELSE LET kids == Sorted(g, o, DrawnKids(g, s))
             below == Stacked([i \in DOMAIN kids |-> Block(g, kids[i])])
             starts == Starts(g, kids, top + Max2(0, (Block(g, s) - below) \div 2))
             under == FoldLeft(LAMBDA p, i : Place(g, o, kids[i], starts[i], p), placed,
                               [i \in DOMAIN kids |-> i])
         IN  under @@ (s :> top)

\* The ZGD first, then the other steps without a parent
Roots(g, o) ==
    LET roots == {s \in g.steps : \A p \in g.steps : s \notin DrawnKids(g, p)}
    IN  Sorted(g, o, roots \cap Tops) \o Sorted(g, o, roots \ Tops)

Placed(g, o) ==
    LET roots == Roots(g, o)
        starts == Starts(g, roots, 96)
    IN  FoldLeft(LAMBDA p, i : Place(g, o, roots[i], starts[i], p), <<>>, [i \in DOMAIN roots |-> i])

\* Cards are in the middle of their blocks; the modules of a CFO are in the first column
StepCard(g, tops, s) ==
    [of |-> s, module |-> 0, col |-> Column(g, s), y |-> tops[s] + (Block(g, s) - Height(s)) \div 2, h |-> Height(s)]

ModuleCards(g, tops, l) ==
    LET hs == Modules(l)
        top == tops[l] + Max2(0, (Block(g, l) - Stacked(hs)) \div 2)
    IN  {[of |-> l, module |-> i, col |-> 0, h |-> hs[i],
          y |-> top + Sum([j \in 1 .. i - 1 |-> hs[j] + Gap])] : i \in DOMAIN hs}

Layout(g, o) ==
    LET tops == Placed(g, Ordered(o, g.steps \cap Leaves))
    IN  {StepCard(g, tops, s) : s \in g.steps}
          \cup UNION {ModuleCards(g, tops, l) : l \in g.steps \cap Leaves}

\* The pools of departments: CFOs in the order drawn, joined to the pool above when it is
\* of the same department
Pools(g, cs) ==
    LET mine(l) == {c \in cs : c.of = l}
        y(l) == Min({c.y : c \in mine(l)})
        bottom(l) == Max({c.y + c.h : c \in mine(l)})
        own(l) == CHOOSE c \in cs : c.of = l /\ c.module = 0
        leaves == SetToSortSeq(g.steps \cap Leaves, LAMBDA a, b : own(a).y < own(b).y)
        join(ps, l) ==
            IF ps # <<>> /\ Last(ps).name = Department(l)
            THEN [ps EXCEPT ![Len(ps)].bottom = bottom(l)]
            ELSE Append(ps, [name |-> Department(l), y |-> y(l), bottom |-> bottom(l)])
    IN  FoldLeft(join, <<>>, leaves)

\* Where it wants to be, or under the last card above
Under(want, above) == IF above = {} THEN want ELSE Max2(want, Max(above) + 46 + 16)

\* The preview of a deletion: columns by depth, a step beside the middle of those below it
\* or under the step before it
RECURSIVE PreviewDepth(_, _)
PreviewDepth(g, s) == IF Kids(g, s) = {} THEN 0 ELSE 1 + Max({PreviewDepth(g, c) : c \in Kids(g, s)})

PreviewColumn(g, placed, n) ==
    LET col == {s \in g.steps : PreviewDepth(g, s) = n}
        anchor(s) == LET ys == {<<c, placed[c]>> : c \in Kids(g, s)}
                     IN  MapThenSumSet(LAMBDA p : p[2], ys) \div Cardinality(ys)
        before(a, b) == IF n = 0 \/ anchor(a) = anchor(b) THEN a < b ELSE anchor(a) < anchor(b)
        put(p, s) == p @@ (s :> Under(IF n = 0 THEN 12 ELSE anchor(s), {p[x] : x \in DOMAIN p \cap col}))
    IN  FoldLeft(put, placed, SetToSortSeq(col, before))

PreviewLayout(g) ==
    FoldLeft(LAMBDA p, n : PreviewColumn(g, p, n), <<>>, [i \in 1 .. Cardinality(g.steps) |-> i - 1])

-----------------------------------------------------------------------------
(* The window *)

Bounds ==
    LET x == Min({c.col : c \in cards}) * Width
        y == Min({c.y : c \in cards})
    IN  [x |-> x, y |-> y, w |-> (Max({c.col : c \in cards}) + 1) * Width - x,
         h |-> Max({c.y + c.h : c \in cards}) - y]

\* A graph that fits is in the middle, a larger one covers the window up to its margin
ClampAxis(t, start, length, z, window) ==
    IF length * z <= window - 2 * Padding THEN (window - length * z) \div 2 - start * z
    ELSE Min2(Padding - start * z, Max2(window - Padding - (start + length) * z, t))

Clamp(p, z) ==
    [x |-> ClampAxis(p.x, Bounds'.x, Bounds'.w, z, frame'.w), y |-> ClampAxis(p.y, Bounds'.y, Bounds'.h, z, frame'.h)]

\* fitViewport: as large as fits, and no larger than it is
FitZoom(b, f) ==
    Max({1} \cup {z \in 1 .. Full : b.w * z <= f.w - 2 * Padding /\ b.h * z <= f.h - 2 * Padding})

Fit == zoom' = FitZoom(Bounds', frame') /\ pan' = Clamp([x |-> 0, y |-> 0], zoom')

Init ==
    /\ route \in Routes /\ order = <<>> /\ cards = Layout(route, order)
    /\ frame \in Frames /\ zoom = FitZoom(Bounds, frame)
    /\ pan = [x |-> ClampAxis(0, Bounds.x, Bounds.w, zoom, frame.w),
              y |-> ClampAxis(0, Bounds.y, Bounds.h, zoom, frame.h)]
    /\ moves = 0

Move == route \in Answers /\ moves < MaxMoves /\ moves' = moves + 1
Still == UNCHANGED <<route, order, cards>>

\* The wheel scrolls, a drag moves both ways
Drag(dx, dy) ==
    /\ Move /\ Still /\ UNCHANGED <<frame, zoom>>
    /\ pan' = Clamp([x |-> pan.x + dx, y |-> pan.y + dy], zoom)

\* The zoom a change is clamped with: the new one
ClampedWith(z) == z

\* Buttons and the wheel with Alt
ChangeZoom(z) ==
    /\ Move /\ Still /\ UNCHANGED frame
    /\ z \in 1 .. MaxZoom /\ zoom' = z /\ pan' = Clamp(pan, ClampedWith(z))

Reset == Move /\ Still /\ UNCHANGED frame /\ Fit

\* The observer of the window clamps anew
Resize(f) ==
    /\ Move /\ Still /\ f # frame /\ frame' = f
    /\ UNCHANGED zoom /\ pan' = Clamp(pan, zoom)

\* Another answer: the same steps keep the zoom, and the observer, renewed with the
\* layout, clamps; other steps are framed anew
Refetch(g) ==
    /\ Move /\ g # route /\ route' = g /\ cards' = Layout(g, order)
    /\ UNCHANGED <<order, frame>>
    /\ IF g.steps = route.steps THEN UNCHANGED zoom /\ pan' = Clamp(pan, zoom) ELSE Fit

Without(s, a) == SelectSeq(s, LAMBDA l : l # a)

\* A CFO is dropped on another of its department
ReorderCfo(a, b) ==
    /\ Move /\ {a, b} \subseteq route.steps \cap Leaves /\ a # b /\ Department(a) = Department(b)
    /\ LET drawn == SetToSortSeq(route.steps \cap Leaves, LAMBDA l, m :
                       \E c, d \in cards : c.of = l /\ d.of = m /\ c.module = 0 /\ d.module = 0 /\ c.y < d.y)
           known == order \o SelectSeq(drawn, LAMBDA l : l \notin ToSet(order))
           place == CHOOSE i \in DOMAIN known : known[i] = b
       IN  order' = InsertAt(Without(known, a), place, a)
    /\ cards' = Layout(route, order')
    /\ UNCHANGED <<route, frame, zoom>> /\ pan' = Clamp(pan, zoom)

Next ==
    \/ \E d \in {-Width, Width} : Drag(0, d) \/ Drag(d, 0)
    \/ \E z \in 1 .. MaxZoom : ChangeZoom(z)
    \/ Reset
    \/ \E f \in Frames : Resize(f)
    \/ \E g \in Answers : Refetch(g)
    \/ \E a, b \in Leaves : ReorderCfo(a, b)

Spec == Init /\ [][Next]_vars

-----------------------------------------------------------------------------
(* Properties *)

TypeOK ==
    /\ route \in Routes \cup Answers /\ frame \in Frames /\ zoom \in 1 .. MaxZoom /\ moves \in 0 .. MaxMoves
    /\ IsInjective(order) /\ ToSet(order) \subseteq Leaves
    /\ \A s \in route.steps : \E c \in cards : c.of = s /\ c.module = 0

\* No card covers another one, whoever is linked to whom: between two cards of a column
\* there is the gap.
NoOverlap ==
    \A c, d \in cards : c # d /\ c.col = d.col => c.y + c.h + Gap <= d.y \/ d.y + d.h + Gap <= c.y

\* A step stands to the right of those below it, as long as both are on the way to the
\* ZGD or both are not.
RightOfChildren ==
    \A c, d \in cards : c.module = 0 /\ d.module = 0 /\ d.of \in DrawnKids(route, c.of) => d.col < c.col

\* The pools of departments are apart.
PoolsApart ==
    LET ps == Pools(route, cards)
    IN  \A i, j \in DOMAIN ps : i < j => ps[i].bottom <= ps[j].y

\* In the preview of a deletion no step covers another one.
PreviewApart ==
    LET p == PreviewLayout(route)
    IN  \A s, t \in route.steps :
            s # t /\ PreviewDepth(route, s) = PreviewDepth(route, t) => p[s] + 46 <= p[t] \/ p[t] + 46 <= p[s]

\* However the graph is dragged, zoomed, redrawn or the window resized, it stays in reach:
\* the whole graph is in the window, or the window is full of it.
InReach ==
    LET reach(t, start, length, window) ==
            LET lo == start * zoom + t
                hi == (start + length) * zoom + t
            IN  IF length * zoom <= window - 2 * Padding
                THEN lo >= Padding /\ hi <= window - Padding + 1
                ELSE lo <= Padding /\ hi >= window - Padding
    IN  reach(pan.x, Bounds.x, Bounds.w, frame.w) /\ reach(pan.y, Bounds.y, Bounds.h, frame.h)

=============================================================================
