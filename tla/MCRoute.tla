------------------------------ MODULE MCRoute ------------------------------
(***************************************************************************)
(* The route of approvals: its editor, and how its graph is drawn.  They   *)
(* share no state; a behaviour runs the one chosen at its start.           *)
(***************************************************************************)
EXTENDS RouteEditor, Integers

CONSTANTS c1, e1, e2, r1, z

VARIABLES machine, route, order, cards, frame, zoom, pan, moves

ByName == <<c1>>

-----------------------------------------------------------------------------
(* Routes to draw: three CFOs, two economists, two reviewers one above the *)
(* other or side by side, and the ZGD; everything from unlinked steps to a *)
(* step that is placed under two parents.                                  *)

All == 1 .. 8
Economy == {
    {<<4, 1>>, <<4, 2>>, <<4, 3>>}, {<<4, 1>>, <<4, 2>>, <<5, 3>>}, {<<4, 1>>, <<5, 2>>, <<5, 3>>}}
Whole  == [steps |-> All, edges |-> {<<4, 1>>, <<4, 2>>, <<5, 3>>, <<6, 4>>, <<6, 5>>, <<8, 6>>}]
Parted == [steps |-> All \ {2, 7}, edges |-> {<<4, 1>>, <<5, 3>>, <<6, 4>>, <<8, 6>>}]

Drawn == {Whole, Parted} \cup
    {[steps |-> All, edges |-> o \cup a \cup b \cup c \cup d] :
        o \in Economy, a \in SUBSET {<<6, 4>>, <<7, 4>>, <<8, 4>>},
        b \in SUBSET {<<6, 5>>, <<7, 5>>, <<8, 5>>}, c \in SUBSET {<<8, 6>>},
        d \in SUBSET {<<6, 7>>, <<8, 7>>}}

HeightOf(s) == IF s \in {1, 6} THEN 64 ELSE 32
ModulesOf(l) == CASE l = 1 -> <<32, 48>> [] l = 2 -> <<32>> [] OTHER -> <<>>
DepartmentOf(l) == IF l = 2 THEN 2 ELSE 1
Small == [w |-> 300, h |-> 200]

Drawing == INSTANCE GraphLayout WITH
    Leaves <- {1, 2, 3}, Tops <- {8}, Routes <- Drawn, Answers <- {Whole, Parted},
    Height <- HeightOf, Modules <- ModulesOf, Department <- DepartmentOf,
    Gap <- 16, Width <- 64, Frames <- {Small, [w |-> 900, h |-> 400]},
    Padding <- 28, Full <- 2, MaxZoom <- 3, MaxMoves <- 3

-----------------------------------------------------------------------------

drawingVars == <<route, order, cards, frame, zoom, pan, moves>>

MCInit ==
    /\ machine \in {"editor", "drawing"}
    /\ machine = "drawing" \/ (route = Whole /\ frame = Small)
    /\ Init /\ Drawing!Init
    /\ machine = "drawing" => edges = {}

MCNext ==
    /\ UNCHANGED machine
    /\ \/ machine = "editor" /\ Next /\ UNCHANGED drawingVars
       \/ machine = "drawing" /\ Drawing!Next /\ UNCHANGED vars

MCSpec == MCInit /\ [][MCNext]_<<machine, vars, drawingVars>> /\ Fairness

-----------------------------------------------------------------------------
(* Properties; those of the route are RouteEditor's *)

\* No two cards overlap, a step stands to the right of those drawn below it, the
\* frames of two departments have no place in common, the cards of a preview do
\* not overlap, and the graph cannot be moved out of the window.
WellDrawn ==
    machine = "drawing" =>
        /\ Drawing!TypeOK /\ Drawing!NoOverlap /\ Drawing!RightOfChildren /\ Drawing!PoolsApart
        /\ Drawing!PreviewApart /\ Drawing!InReach

=============================================================================
