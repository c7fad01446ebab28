--------------------------- MODULE LineTable_proofs ---------------------------
(***************************************************************************)
(* Theorems about LineTable for any lines and sums and any number of       *)
(* chains: what leaves the table is at the server, and a quiet table is    *)
(* that of the server, wherever a chain stopped.                           *)
(***************************************************************************)
EXTENDS LineTable, TLAPS

\* The details that were asked for are those of the lines
FetchOK ==
    /\ fetch.files \in BOOLEAN
    /\ fetch.state = "read" => fetch.lines \in [Lines -> Line] /\ fetch.may \in BOOLEAN

\* Who types a sum types months
DraftsOK == \A l \in Lines : drafts[l].months = None => drafts[l].sum = None

\* A chain works off calls that it has taken, with months for every line it patches
SaveOK ==
    save # Idle =>
        /\ save = [state |-> "saving", all |-> save.all, left |-> save.left, taken |-> save.taken]
        /\ save.all \subseteq Calls /\ save.left \subseteq save.all
        /\ \A l \in Lines : Call("patch", l) \in save.all =>
              save.taken[l] \in Draft /\ save.taken[l].months \in Sums

Shape == TypeOK /\ FetchOK /\ DraftsOK /\ SaveOK

LEMMA ShapeInit == Init => Shape
<1> SUFFICES ASSUME Init PROVE Shape
    OBVIOUS
<1>1. db \in [Lines -> Line]
  <2>1. 1 \in Sums
    BY TableAssumption DEF Sums
  <2>2. [sum : {1}, there : {TRUE}, old : {TRUE}, new : {FALSE}] \subseteq Line
    BY <2>1 DEF Line
  <2> QED
    BY <2>2 DEF Init
<1>2. NoDraft \in Draft
  BY DEF NoDraft, Draft
<1>3. TypeOK
  BY <1>1, <1>2, TableAssumption DEF Init, TypeOK, Idle
<1> QED
  BY <1>3 DEF Init, Shape, FetchOK, DraftsOK, SaveOK, Idle, NoDraft

\* Typing and staging leave everything but the table itself alone.
LEMMA EditShape ==
    ASSUME Shape, Edit, drafts' \in [Lines -> Draft], DraftsOK',
           staged' \subseteq Lines, removed' \subseteq Lines
    PROVE  Shape'
<1>1. UNCHANGED <<db, open, items, fetch, save, saves>>
  BY DEF Edit, server
<1> QED
  BY <1>1 DEF Shape, TypeOK, FetchOK, SaveOK

LEMMA DraftTyped ==
    ASSUME Shape, NEW l \in Lines, NEW d \in Draft, drafts' = [drafts EXCEPT ![l] = d],
           d.months # None
    PROVE  /\ drafts' \in [Lines -> Draft] /\ DraftsOK'
           /\ drafts'[l] = d /\ \A m \in Lines \ {l} : drafts'[m] = drafts[m]
<1>1. drafts' \in [Lines -> Draft]
  BY DEF Shape, TypeOK
<1>2. drafts'[l] = d /\ \A m \in Lines \ {l} : drafts'[m] = drafts[m]
  BY DEF Shape, TypeOK
<1> QED
  BY <1>1, <1>2 DEF Shape, DraftsOK

LEMMA SumTyped == ASSUME Shape, NEW l \in Lines PROVE Sum(l) \in Sums
BY DEF Sum, Shape, TypeOK, Line, Draft, None

\* What a user may do to the drafts: give a line months, and months with its sum
LEMMA Typed ==
    ASSUME Shape, NEW l \in Lines,
           \/ \E x \in Sums : TypeSum(l, x) \/ TypeMonths(l, x)
           \/ SpreadDifference(l)
    PROVE  /\ Edit /\ UNCHANGED <<staged, removed>>
           /\ \E d \in Draft : d.months # None /\ drafts' = [drafts EXCEPT ![l] = d]
<1>1. \A x \in Sums : x # None
  BY DEF Sums, None
<1>2. ASSUME NEW x \in Sums, TypeSum(l, x)
      PROVE  /\ Edit /\ UNCHANGED <<staged, removed>>
             /\ \E d \in Draft : d.months # None /\ drafts' = [drafts EXCEPT ![l] = d]
  <2>1. [sum |-> x, months |-> x] \in Draft
    BY DEF Draft
  <2> QED
    BY <1>1, <1>2, <2>1 DEF TypeSum
<1>3. ASSUME NEW x \in Sums, TypeMonths(l, x)
      PROVE  /\ Edit /\ UNCHANGED <<staged, removed>>
             /\ \E d \in Draft : d.months # None /\ drafts' = [drafts EXCEPT ![l] = d]
  <2> DEFINE d == [drafts[l] EXCEPT !.months = x]
  <2>1. d \in Draft /\ d.months = x
    BY DEF Draft, Shape, TypeOK
  <2>2. drafts' = [drafts EXCEPT ![l] = d]
    BY <1>3 DEF TypeMonths
  <2> HIDE DEF d
  <2> QED
    BY <1>1, <1>3, <2>1, <2>2 DEF TypeMonths
<1> QED
  BY <1>2, <1>3, SumTyped DEF SpreadDifference

LEMMA CellsShape == ASSUME Shape, NEW l \in Lines, Cells(l) PROVE Shape'
<1>1. CASE (\E x \in Sums : TypeSum(l, x) \/ TypeMonths(l, x)) \/ SpreadDifference(l)
  <2>1. PICK d \in Draft : d.months # None /\ drafts' = [drafts EXCEPT ![l] = d]
    BY <1>1, Typed
  <2>2. Edit /\ UNCHANGED <<staged, removed>>
    BY <1>1, Typed
  <2>3. drafts' \in [Lines -> Draft] /\ DraftsOK'
    BY <2>1, DraftTyped
  <2> QED
    BY <2>2, <2>3, EditShape DEF Shape, TypeOK
<1>2. CASE StageFile(l) \/ UnstageFile(l) \/ StageDelete(l) \/ RestoreDelete(l)
  <2>1. Edit /\ UNCHANGED drafts /\ staged' \subseteq Lines /\ removed' \subseteq Lines
    BY <1>2 DEF StageFile, UnstageFile, StageDelete, RestoreDelete, Shape, TypeOK
  <2> QED
    BY <2>1, EditShape DEF Shape, TypeOK, DraftsOK
<1>3. CASE DeleteLine(l)
  <2>1. UNCHANGED <<open, items, drafts, staged, removed, save, saves>>
    BY <1>3 DEF DeleteLine, table
  <2>2. db' \in [Lines -> Line]
    BY <1>3 DEF DeleteLine, Shape, TypeOK, Line
  <2>3. fetch' = fetch \/ fetch' = Asked(fetch.files)
    BY <1>3 DEF DeleteLine
  <2>4. FetchOK' /\ fetch'.state \in {"idle", "asked", "read"}
    BY <2>3 DEF Shape, TypeOK, FetchOK, Asked
  <2> QED
    BY <2>1, <2>2, <2>4 DEF Shape, TypeOK, DraftsOK, SaveOK
<1> QED
  BY <1>1, <1>2, <1>3 DEF Cells

LEMMA ClearedShape ==
    ASSUME ClearTable
    PROVE  drafts' \in [Lines -> Draft] /\ DraftsOK' /\ staged' \subseteq Lines /\ removed' \subseteq Lines
BY DEF ClearTable, NoDraft, Draft, DraftsOK

LEMMA SaveShape == ASSUME Shape, Save PROVE Shape'
<1>1. /\ save' = [state |-> "saving", all |-> Chain, left |-> Chain,
                  taken |-> [l \in Effective |-> drafts[l]]]
      /\ saves < MaxSaves /\ saves' = saves + 1
      /\ UNCHANGED <<db, open, items, fetch, drafts, staged, removed>>
  BY DEF Save, server, table
<1>2. Chain \subseteq Calls
  BY DEF Chain, Calls, Call, Effective, Shape, TypeOK
<1>3. Chain # {}
  BY DEF Save, Pending, Chain
<1>4. ASSUME NEW l \in Lines, Call("patch", l) \in Chain
      PROVE  /\ l \in Effective /\ drafts[l] \in Draft /\ drafts[l].months \in Sums
  <2>1. l \in Effective
    BY <1>4 DEF Chain, Call
  <2>2. drafts[l] \in Draft
    BY DEF Shape, TypeOK
  <2>3. drafts[l].months # None
    BY <2>1 DEF Effective, Differs, Shape, DraftsOK
  <2> QED
    BY <2>1, <2>2, <2>3 DEF Draft
<1>5. SaveOK'
  <2> DEFINE chain == Chain
  <2>1. save'.all = chain /\ save'.left = chain /\ save'.taken = [l \in Effective |-> drafts[l]]
    BY <1>1
  <2>2. save' = [state |-> "saving", all |-> save'.all, left |-> save'.left, taken |-> save'.taken]
    BY <1>1
  <2> HIDE DEF chain
  <2>3. \A l \in Lines : Call("patch", l) \in chain =>
              save'.taken[l] \in Draft /\ save'.taken[l].months \in Sums
    BY <1>4, <2>1 DEF chain
  <2>4. chain \subseteq Calls
    BY <1>2 DEF chain
  <2> QED
    BY <2>1, <2>2, <2>3, <2>4 DEF SaveOK
<1>6. saves' \in 0 .. MaxSaves
  BY <1>1, TableAssumption DEF Shape, TypeOK
<1>7. save'.left \subseteq Calls /\ save'.left # {}
  BY <1>1, <1>2, <1>3
<1>8. TypeOK'
  BY <1>1, <1>6, <1>7 DEF Shape, TypeOK
<1> QED
  BY <1>1, <1>5, <1>8 DEF Shape, FetchOK, DraftsOK

\* A call changes one field of its line.
LEMMA Applied ==
    ASSUME Shape, Saving, NEW c \in save.left, Accepts(c), Apply(c)
    PROVE  /\ c \in Calls /\ c = Call(c.op, c.line)
           /\ db' \in [Lines -> Line]
           /\ \A l \in Lines \ {c.line} : db'[l] = db[l]
           /\ c.op = "patch" => db'[c.line] = [db[c.line] EXCEPT !.sum = save.taken[c.line].months]
           /\ c.op = "attach" => db'[c.line] = [db[c.line] EXCEPT !.new = TRUE]
           /\ c.op = "delete" => db'[c.line] = [db[c.line] EXCEPT !.old = FALSE]
<1>1. c \in Calls /\ c \in save.all
  BY DEF Shape, SaveOK, Saving
<1>2. c = Call(c.op, c.line) /\ c.line \in Lines /\ c.op \in {"patch", "attach", "delete"}
  BY <1>1 DEF Calls, Call
<1>3. db \in [Lines -> Line]
  BY DEF Shape, TypeOK
<1>4. CASE c.op = "patch"
  <2>1. save.taken[c.line].months \in Sums
    BY <1>1, <1>2, <1>4 DEF Shape, SaveOK, Saving
  <2>2. db' = [db EXCEPT ![c.line] = [db[c.line] EXCEPT !.sum = save.taken[c.line].months]]
    BY <1>4 DEF Apply
  <2>3. [db[c.line] EXCEPT !.sum = save.taken[c.line].months] \in Line
    BY <1>2, <1>3, <2>1 DEF Line
  <2> QED
    BY <1>1, <1>2, <1>3, <1>4, <2>2, <2>3
<1>5. CASE c.op = "attach"
  <2>1. db' = [db EXCEPT ![c.line] = [db[c.line] EXCEPT !.new = TRUE]]
    BY <1>5 DEF Apply
  <2>2. [db[c.line] EXCEPT !.new = TRUE] \in Line
    BY <1>2, <1>3 DEF Line
  <2> QED
    BY <1>1, <1>2, <1>3, <1>5, <2>1, <2>2
<1>6. CASE c.op = "delete"
  <2>1. db' = [db EXCEPT ![c.line] = [db[c.line] EXCEPT !.old = FALSE]]
    BY <1>6 DEF Apply
  <2>2. [db[c.line] EXCEPT !.old = FALSE] \in Line
    BY <1>2, <1>3 DEF Line
  <2> QED
    BY <1>1, <1>2, <1>3, <1>6, <2>1, <2>2
<1> QED
  BY <1>2, <1>4, <1>5, <1>6

\* A chain stops at a call, or ends with it, or goes on after it.
LEMMA ChainStep ==
    ASSUME NEW c, Serve(c) \/ LoseAnswer(c)
    PROVE  /\ Saving /\ c \in save.left /\ UNCHANGED <<open, items, saves>>
           /\ UNCHANGED db \/ (Accepts(c) /\ Apply(c))
           /\ \/ Stopped
              \/ Accepts(c) /\ Apply(c) /\ save.left = {c} /\ Saved
              \/ /\ Accepts(c) /\ Apply(c) /\ save.left # {c}
                 /\ save' = [save EXCEPT !.left = @ \ {c}] /\ UNCHANGED <<fetch, table>>
BY DEF Serve, LoseAnswer, GoOn

LEMMA ChainShape == ASSUME Shape, NEW c \in Calls, Serve(c) \/ LoseAnswer(c) PROVE Shape'
<1>1. /\ Saving /\ c \in save.left /\ UNCHANGED <<open, items, saves>>
      /\ UNCHANGED db \/ (Accepts(c) /\ Apply(c))
  BY ChainStep
<1>2. db' \in [Lines -> Line]
  BY <1>1, Applied DEF Shape, TypeOK
<1>3. CASE Stopped
  <2>1. /\ save' = Idle /\ fetch' = Asked(fetch.files) /\ UNCHANGED <<drafts, staged, removed>>
    BY <1>3 DEF Stopped, table
  <2>2. FetchOK' /\ fetch'.state \in {"idle", "asked", "read"}
    BY <2>1 DEF Shape, FetchOK, Asked
  <2> QED
    BY <1>1, <1>2, <2>1, <2>2 DEF Shape, TypeOK, SaveOK, DraftsOK
<1>4. CASE Saved
  <2>1. /\ save' = Idle /\ fetch' = Asked(TRUE) /\ ClearTable
    BY <1>4 DEF Saved
  <2>2. FetchOK' /\ fetch'.state \in {"idle", "asked", "read"}
    BY <2>1 DEF FetchOK, Asked
  <2> QED
    BY <1>1, <1>2, <2>1, <2>2, ClearedShape DEF Shape, TypeOK, SaveOK
<1>5. CASE /\ save.left # {c}
           /\ save' = [save EXCEPT !.left = @ \ {c}] /\ UNCHANGED <<fetch, table>>
  <2> DEFINE rest == save.left \ {c}
  <2>1. save' = [state |-> "saving", all |-> save.all, left |-> rest, taken |-> save.taken]
    BY <1>1, <1>5 DEF Shape, SaveOK, Saving
  <2>2. rest \subseteq save.all /\ rest # {} /\ save.all \subseteq Calls
    BY <1>1, <1>5 DEF Shape, SaveOK, Saving
  <2> HIDE DEF rest
  <2>3. save'.all = save.all /\ save'.left = rest /\ save'.taken = save.taken
    BY <2>1
  <2>4. SaveOK'
    BY <1>1, <2>1, <2>2, <2>3 DEF Shape, SaveOK, Saving
  <2>5. TypeOK'
    BY <1>1, <1>2, <1>5, <2>2, <2>3 DEF Shape, TypeOK, table
  <2> QED
    BY <1>5, <2>4, <2>5 DEF Shape, FetchOK, DraftsOK, table
<1> QED
  BY <1>3, <1>4, <1>5, ChainStep

LEMMA DetailsShape == ASSUME Shape, ServeDetails \/ ReceiveDetails PROVE Shape'
<1>1. CASE ServeDetails
  <2>1. fetch' = Read(db, open, fetch.files)
        /\ UNCHANGED <<db, open, items, drafts, staged, removed, save, saves>>
    BY <1>1 DEF ServeDetails, server, table
  <2>2. FetchOK' /\ fetch'.state \in {"idle", "asked", "read"}
    BY <2>1 DEF Shape, TypeOK, FetchOK, Read
  <2> QED
    BY <2>1, <2>2 DEF Shape, TypeOK, DraftsOK, SaveOK
<1>2. CASE ReceiveDetails
  <2> DEFINE Seen(l) == IF fetch.files THEN fetch.lines[l]
                        ELSE [fetch.lines[l] EXCEPT !.old = items.lines[l].old,
                                                    !.new = items.lines[l].new]
  <2>1. /\ fetch.state = "read" /\ fetch' = Idle
        /\ items' = [may |-> fetch.may, lines |-> [l \in Lines |-> Seen(l)]]
        /\ UNCHANGED <<db, open, drafts, staged, removed, save, saves>>
    BY <1>2 DEF ReceiveDetails, server, table
  <2>2. ASSUME NEW l \in Lines PROVE Seen(l) \in Line
    <3>1. fetch.lines[l] \in Line /\ items.lines[l] \in Line
      BY <2>1 DEF Shape, TypeOK, FetchOK
    <3>2. ASSUME NEW a \in Line, NEW b \in Line
          PROVE  [a EXCEPT !.old = b.old, !.new = b.new] \in Line
      BY DEF Line
    <3> QED
      BY <3>1, <3>2
  <2> HIDE DEF Seen
  <2>3. items'.lines \in [Lines -> Line] /\ items'.may \in BOOLEAN
    BY <2>1, <2>2 DEF Shape, FetchOK
  <2>4. FetchOK' /\ fetch'.state \in {"idle", "asked", "read"}
    BY <2>1 DEF FetchOK, Idle
  <2> QED
    BY <2>1, <2>3, <2>4 DEF Shape, TypeOK, DraftsOK, SaveOK
<1> QED
  BY <1>1, <1>2

LEMMA ShapeNext == Shape /\ [Next]_vars => Shape'
<1> SUFFICES ASSUME Shape, [Next]_vars PROVE Shape'
    OBVIOUS
<1>1. CASE CancelTable
  <2>1. ClearTable /\ UNCHANGED <<db, open, items, fetch, save, saves>>
    BY <1>1 DEF CancelTable, server
  <2> QED
    BY <2>1, ClearedShape DEF Shape, TypeOK, FetchOK, SaveOK
<1>2. CASE Submit
  BY <1>2 DEF Submit, table, Shape, TypeOK, FetchOK, SaveOK, DraftsOK
<1>3. CASE UNCHANGED vars
  BY <1>3 DEF vars, server, table, Shape, TypeOK, FetchOK, SaveOK, DraftsOK
<1> QED
  BY <1>1, <1>2, <1>3, CellsShape, SaveShape, ChainShape, DetailsShape DEF Next

\* The table and its chains stay within their types for any lines and sums.
THEOREM TypeCorrect == Spec => []TypeOK
<1>1. Shape => TypeOK
  BY DEF Shape
<1> QED
  BY <1>1, ShapeInit, ShapeNext, PTL DEF Spec

-----------------------------------------------------------------------------
(* What a chain has done stays done until the chain is over. *)

Done(c, lines) ==
    /\ c.op = "patch"  => lines[c.line].sum = save.taken[c.line].months
    /\ c.op = "attach" => lines[c.line].new
    /\ c.op = "delete" => ~lines[c.line].old

DoneSoFar == Saving => \A c \in save.all \ save.left : Done(c, db)

\* A call does its work, and undoes that of no other call.
LEMMA CallDone ==
    ASSUME Shape, DoneSoFar, Saving, NEW c \in save.left, Accepts(c), Apply(c)
    PROVE  \A d \in save.all \ (save.left \ {c}) : Done(d, db')
<1>1. /\ c = Call(c.op, c.line)
      /\ \A l \in Lines \ {c.line} : db'[l] = db[l]
      /\ c.op = "patch" => db'[c.line] = [db[c.line] EXCEPT !.sum = save.taken[c.line].months]
      /\ c.op = "attach" => db'[c.line] = [db[c.line] EXCEPT !.new = TRUE]
      /\ c.op = "delete" => db'[c.line] = [db[c.line] EXCEPT !.old = FALSE]
      /\ c \in Calls
  BY Applied
<1>2. save.all \subseteq Calls /\ db \in [Lines -> Line]
  BY DEF Shape, TypeOK, SaveOK, Saving
<1>3. c.line \in Lines /\ db[c.line] \in Line /\ c.op \in {"patch", "attach", "delete"}
  BY <1>1, <1>2 DEF Calls
<1>4. Done(c, db')
  BY <1>1, <1>3 DEF Done, Line
<1>5. ASSUME NEW d \in save.all, d \notin save.left PROVE Done(d, db')
  <2>1. d \in Calls /\ d = Call(d.op, d.line) /\ d.line \in Lines /\ d # c
    BY <1>2, <1>5 DEF Calls, Call
  <2>2. Done(d, db)
    BY <1>5 DEF DoneSoFar
  <2>3. CASE d.line # c.line
    BY <1>1, <2>1, <2>2, <2>3 DEF Done
  <2>4. CASE d.line = c.line
    <3>1. d.op # c.op
      BY <1>1, <2>1, <2>4
    <3> QED
      BY <1>1, <1>3, <2>1, <2>2, <2>4, <3>1 DEF Done, Line
  <2> QED
    BY <2>3, <2>4
<1> QED
  BY <1>4, <1>5

LEMMA DoneNext == Shape /\ DoneSoFar /\ [Next]_vars => DoneSoFar'
<1> SUFFICES ASSUME Shape, DoneSoFar, [Next]_vars PROVE DoneSoFar'
    OBVIOUS
<1>1. CASE UNCHANGED <<save, db>>
  BY <1>1 DEF DoneSoFar, Saving, Done
<1>2. CASE save' = Idle
  BY <1>2 DEF DoneSoFar, Saving
<1>3. ASSUME NEW c \in Calls, Serve(c) \/ LoseAnswer(c) PROVE DoneSoFar'
  <2>1. CASE Stopped \/ Saved
    BY <1>2, <2>1 DEF Stopped, Saved
  <2>2. CASE /\ Accepts(c) /\ Apply(c) /\ save' = [save EXCEPT !.left = @ \ {c}]
    <3>1. Saving /\ c \in save.left
      BY <1>3, ChainStep
    <3>2. save'.all = save.all /\ save'.left = save.left \ {c} /\ save'.taken = save.taken
      BY <2>2, <3>1 DEF Shape, SaveOK, Saving
    <3>3. \A d \in save.all \ (save.left \ {c}) : Done(d, db')
      BY <2>2, <3>1, CallDone
    <3> QED
      BY <3>2, <3>3 DEF DoneSoFar, Done
  <2> QED
    BY <1>3, <2>1, <2>2, ChainStep
<1>4. CASE Save
  <2> DEFINE chain == Chain
  <2>1. save'.all = chain /\ save'.left = chain
    BY <1>4 DEF Save
  <2> HIDE DEF chain
  <2> QED
    BY <2>1 DEF DoneSoFar
<1>5. ASSUME NEW l \in Lines, Cells(l) PROVE UNCHANGED <<save, db>> \/ ~Saving'
  BY <1>5 DEF Cells, TypeSum, TypeMonths, SpreadDifference, StageFile, UnstageFile, StageDelete,
      RestoreDelete, DeleteLine, Edit, server, Saving
<1>6. ~Saving' => DoneSoFar'
  BY DEF DoneSoFar
<1>7. CancelTable \/ ServeDetails \/ ReceiveDetails \/ Submit \/ UNCHANGED vars => UNCHANGED <<save, db>>
  BY DEF CancelTable, ServeDetails, ReceiveDetails, Submit, vars, server
<1> QED
  BY <1>1, <1>3, <1>4, <1>5, <1>6, <1>7 DEF Next

\* The table is emptied after a chain only at its end.
LEMMA Emptied ==
    ASSUME Shape, [Next]_vars, Saving, save' = Idle, table' # table
    PROVE  \E c \in save.left : Accepts(c) /\ Apply(c) /\ save.left = {c}
<1>1. CASE \E c \in Calls : Serve(c) \/ LoseAnswer(c)
  BY <1>1, ChainStep DEF Stopped, table
<1>2. ~Save /\ ~CancelTable
  BY DEF Save, CancelTable
<1>3. (\E l \in Lines : Cells(l)) => save' = save
  BY DEF Cells, TypeSum, TypeMonths, SpreadDifference, StageFile, UnstageFile, StageDelete,
      RestoreDelete, DeleteLine, Edit
<1>4. ServeDetails \/ ReceiveDetails \/ Submit \/ UNCHANGED vars => save' = save
  BY DEF ServeDetails, ReceiveDetails, Submit, vars
<1> QED
  BY <1>1, <1>2, <1>3, <1>4 DEF Next, Saving

\* What the table drops at the end of a chain is at the server, in whatever order
\* the calls of the lines and files went out and however often a chain stopped
\* half way before.
THEOREM SavedIsStored == Spec => SavedAll
<1>1. Init => Shape /\ DoneSoFar
  BY ShapeInit DEF Init, DoneSoFar, Saving
<1>2. Shape /\ DoneSoFar /\ [Next]_vars => (Shape /\ DoneSoFar)'
  BY ShapeNext, DoneNext
<1>3. Shape /\ DoneSoFar /\ [Next]_vars
        => [Saving /\ save' = Idle /\ table' # table =>
             \A c \in save.all :
                LET line == db'[c.line] IN
                /\ c.op = "patch"  => line.sum = save.taken[c.line].months
                /\ c.op = "attach" => line.new
                /\ c.op = "delete" => ~line.old]_vars
  <2> SUFFICES ASSUME Shape, DoneSoFar, [Next]_vars, Saving, save' = Idle, table' # table,
                      NEW d \in save.all
               PROVE  Done(d, db')
      BY DEF Done
  <2>1. PICK c \in save.left : Accepts(c) /\ Apply(c) /\ save.left = {c}
    BY Emptied
  <2> QED
    BY <2>1, CallDone
<1> QED
  BY <1>1, <1>2, <1>3, PTL DEF Spec, SavedAll

\* The drafts of a line are cleared by the user or by the end of a chain.
LEMMA Cleared ==
    ASSUME Shape, [Next]_vars, ~CancelTable, NEW l \in Lines,
           drafts[l].months # None, drafts'[l] = NoDraft
    PROVE  Saving /\ \E c \in save.left : Accepts(c) /\ Apply(c) /\ save.left = {c}
<1>1. drafts'[l] # drafts[l]
  BY DEF NoDraft
<1>2. ASSUME NEW m \in Lines, Cells(m) PROVE FALSE
  <2>1. CASE UNCHANGED drafts
    BY <1>1, <2>1
  <2>2. CASE (\E x \in Sums : TypeSum(m, x) \/ TypeMonths(m, x)) \/ SpreadDifference(m)
    <3>1. PICK d \in Draft : d.months # None /\ drafts' = [drafts EXCEPT ![m] = d]
      BY <2>2, Typed
    <3>2. drafts'[m] = d /\ \A k \in Lines \ {m} : drafts'[k] = drafts[k]
      BY <3>1, DraftTyped
    <3> QED
      BY <1>1, <3>1, <3>2 DEF NoDraft
  <2> QED
    BY <1>2, <2>1, <2>2 DEF Cells, StageFile, UnstageFile, StageDelete, RestoreDelete, DeleteLine, table
<1>3. ~(Save \/ ServeDetails \/ ReceiveDetails \/ Submit \/ UNCHANGED vars)
  BY <1>1 DEF Save, ServeDetails, ReceiveDetails, Submit, vars, table
<1>4. PICK c \in Calls : Serve(c) \/ LoseAnswer(c)
  BY <1>2, <1>3 DEF Next
<1> QED
  BY <1>1, <1>4, ChainStep DEF Stopped, table

\* What a chain has taken of a line leaves the table only when the server has
\* it, or because the user cancels: never because some call of the chain failed.
THEOREM DraftsAreKept == Spec => DraftsKept
<1>1. Init => Shape /\ DoneSoFar
  BY ShapeInit DEF Init, DoneSoFar, Saving
<1>2. Shape /\ DoneSoFar /\ [Next]_vars => (Shape /\ DoneSoFar)'
  BY ShapeNext, DoneNext
<1>3. Shape /\ DoneSoFar /\ [Next]_vars
        => [~CancelTable =>
             \A l \in Lines :
                drafts[l].months # None /\ drafts'[l] = NoDraft
                /\ (Saving => Call("patch", l) \in save.all /\ save.taken[l] = drafts[l])
                    => db'[l].sum = drafts[l].months]_vars
  <2> SUFFICES ASSUME Shape, DoneSoFar, [Next]_vars, ~CancelTable, NEW l \in Lines,
                      drafts[l].months # None, drafts'[l] = NoDraft,
                      Saving => Call("patch", l) \in save.all /\ save.taken[l] = drafts[l]
               PROVE  db'[l].sum = drafts[l].months
      OBVIOUS
  <2>1. Saving
    BY Cleared
  <2>2. PICK c \in save.left : Accepts(c) /\ Apply(c) /\ save.left = {c}
    BY Cleared
  <2>3. Done(Call("patch", l), db')
    BY <2>1, <2>2, CallDone
  <2> QED
    BY <2>1, <2>3 DEF Done, Call
<1> QED
  BY <1>1, <1>2, <1>3, PTL DEF Spec, DraftsKept

-----------------------------------------------------------------------------
(* A quiet table is the server's. *)

Same(lines) == \A l \in Lines : lines[l].sum = db[l].sum /\ lines[l].there = db[l].there

\* Outside a chain, what is read and not yet received is the server's as well
FreshOrAsked ==
    save = Idle => /\ fetch.state = "read" => Same(fetch.lines)
                   /\ fetch.state = "idle" => Same(items.lines)

LEMMA FreshNext == Shape /\ FreshOrAsked /\ [Next]_vars => FreshOrAsked'
<1> SUFFICES ASSUME Shape, FreshOrAsked, [Next]_vars PROVE FreshOrAsked'
    OBVIOUS
<1>1. CASE UNCHANGED <<db, items, fetch, save>>
  BY <1>1 DEF FreshOrAsked, Same
<1>2. CASE fetch'.state = "asked" \/ save' # Idle
  BY <1>2 DEF FreshOrAsked
<1>3. ASSUME NEW l \in Lines, Cells(l) PROVE FreshOrAsked'
  <2>1. CASE DeleteLine(l)
    BY <1>1, <1>2, <2>1 DEF DeleteLine, Asked
  <2>2. CASE ~DeleteLine(l)
    BY <1>1, <1>3, <2>2 DEF Cells, TypeSum, TypeMonths, SpreadDifference, StageFile, UnstageFile,
        StageDelete, RestoreDelete, Edit, server
  <2> QED
    BY <2>1, <2>2
<1>4. CASE Save
  BY <1>2, <1>4 DEF Save, Idle
<1>5. ASSUME NEW c \in Calls, Serve(c) \/ LoseAnswer(c) PROVE FreshOrAsked'
  <2>1. CASE Stopped \/ Saved
    BY <1>2, <2>1 DEF Stopped, Saved, Asked
  <2>2. CASE Saving /\ save' = [save EXCEPT !.left = @ \ {c}]
    <3>1. save'.state = "saving"
      BY <2>2 DEF Shape, SaveOK, Saving
    <3> QED
      BY <1>2, <3>1 DEF Idle
  <2> QED
    BY <1>5, <2>1, <2>2, ChainStep
<1>6. CASE ServeDetails
  <2>1. fetch'.state = "read" /\ fetch'.lines = db /\ db' = db
    BY <1>6 DEF ServeDetails, Read, server
  <2> QED
    BY <2>1 DEF FreshOrAsked, Same
<1>7. CASE ReceiveDetails
  <2>1. /\ fetch.state = "read" /\ fetch'.state = "idle" /\ UNCHANGED <<db, save>>
        /\ \A l \in Lines : items'.lines[l] = IF fetch.files THEN fetch.lines[l]
                              ELSE [fetch.lines[l] EXCEPT !.old = items.lines[l].old,
                                                          !.new = items.lines[l].new]
    BY <1>7 DEF ReceiveDetails, Idle, server
  <2>2. ASSUME NEW l \in Lines
        PROVE  items'.lines[l].sum = fetch.lines[l].sum /\ items'.lines[l].there = fetch.lines[l].there
    <3>1. fetch.lines[l] \in Line
      BY <2>1 DEF Shape, FetchOK
    <3> QED
      BY <2>1, <3>1 DEF Line
  <2> QED
    BY <2>1, <2>2 DEF FreshOrAsked, Same
<1>8. CancelTable \/ Submit \/ UNCHANGED vars => UNCHANGED <<db, items, fetch, save>>
  BY DEF CancelTable, Submit, vars, server
<1> QED
  BY <1>1, <1>3, <1>4, <1>5, <1>6, <1>7, <1>8 DEF Next

\* With nothing under way the table shows the sums and the lines the server has,
\* also after a chain that stopped half way, with or without its last call applied.
THEOREM QuietTableIsFresh == Spec => []QuietIsFresh
<1>1. Init => Shape /\ FreshOrAsked
  <2> SUFFICES ASSUME Init PROVE FreshOrAsked
      BY ShapeInit
  <2>1. items.lines = db /\ fetch.state = "idle"
    BY DEF Init, Idle
  <2> QED
    BY <2>1 DEF FreshOrAsked, Same
<1>2. Shape /\ FreshOrAsked /\ [Next]_vars => (Shape /\ FreshOrAsked)'
  BY ShapeNext, FreshNext
<1>3. FreshOrAsked => QuietIsFresh
  BY DEF FreshOrAsked, QuietIsFresh, Same, Idle
<1> QED
  BY <1>1, <1>2, <1>3, PTL DEF Spec

===============================================================================
