----------------------------- MODULE LineTable -----------------------------
(***************************************************************************)
(* The table of the lines of one request (ItemsTable of                    *)
(* RequestDetailsPage.tsx): edits of many lines are kept as drafts, files  *)
(* are staged, and one button sends everything as a chain of calls, one    *)
(* after another, which may stop half way.  The cells stay open while the  *)
(* chain runs.                                                             *)
(*                                                                         *)
(* The months of a line are represented by their total, its files by the   *)
(* one it had and the one the user adds; its name, justification and       *)
(* analytics are drafts like the sum and are not told apart from it.       *)
(***************************************************************************)
EXTENDS Naturals, FiniteSets

CONSTANTS
    Lines,     \* the lines of the request
    Opened,    \* the lines whose months and files the user touches
    MaxSum,    \* bound on a sum
    MaxSaves   \* bound on the clicks on "save"

ASSUME TableAssumption ==
    Opened \subseteq Lines /\ MaxSum \in Nat \ {0} /\ MaxSaves \in Nat

VARIABLES
    db,      \* the lines at the server
    open,    \* the request may be edited, at the server
    items,   \* the lines in the cache, and whether they may be edited
    fetch,   \* the fetch of the request's details, and whether of the files too
    drafts,  \* what is typed and not saved, by line
    staged,  \* lines with a file to attach
    removed, \* lines whose old file is to be deleted
    save,    \* the chain under way
    saves    \* clicks on "save" so far

table == <<drafts, staged, removed>>
server == <<db, open>>
vars == <<server, items, fetch, table, save, saves>>

Sums  == 1 .. MaxSum
None  == 0                            \* the field has no draft
Idle  == [state |-> "idle", files |-> FALSE]
Asked(files) == [state |-> "asked", files |-> files]
Read(lines, may, files) == [state |-> "read", files |-> files, lines |-> lines, may |-> may]

Line  == [sum : Sums, there : BOOLEAN, old : BOOLEAN, new : BOOLEAN]
Draft == [sum : Sums \cup {None}, months : Sums \cup {None}]
NoDraft == [sum |-> None, months |-> None]

Call(op, l)  == [op |-> op, line |-> l]
Calls        == [op : {"patch", "attach", "delete"}, line : Lines]

TypeOK ==
    /\ db \in [Lines -> Line] /\ open \in BOOLEAN
    /\ items.lines \in [Lines -> Line] /\ items.may \in BOOLEAN
    /\ fetch.state \in {"idle", "asked", "read"}
    /\ drafts \in [Lines -> Draft] /\ staged \subseteq Lines /\ removed \subseteq Lines
    /\ save = Idle \/ (save.left \subseteq Calls /\ save.left # {})
    /\ saves \in 0 .. MaxSaves

Init ==
    /\ db \in [Lines -> [sum : {1}, there : {TRUE}, old : {TRUE}, new : {FALSE}]]
    /\ open = TRUE /\ items = [lines |-> db, may |-> TRUE] /\ fetch = Idle
    /\ drafts = [l \in Lines |-> NoDraft] /\ staged = {} /\ removed = {}
    /\ save = Idle
    /\ saves = 0

-----------------------------------------------------------------------------
(* The cells *)

\* canEmployeeEditItem, as far as the cache knows
CanEdit(l) == items.may /\ items.lines[l].there

Edit == UNCHANGED <<server, items, fetch, save, saves>>

\* A new sum is spread over the months at once
TypeSum(l, x) ==
    /\ CanEdit(l) /\ Edit
    /\ drafts' = [drafts EXCEPT ![l] = [sum |-> x, months |-> x]]
    /\ UNCHANGED <<staged, removed>>

\* A month typed by hand moves the total of the months and not the sum
TypeMonths(l, x) ==
    /\ l \in Opened /\ CanEdit(l) /\ Edit
    /\ drafts' = [drafts EXCEPT ![l].months = x]
    /\ UNCHANGED <<staged, removed>>

Sum(l) == IF drafts[l].sum = None THEN items.lines[l].sum ELSE drafts[l].sum

\* "Spread the difference by the present weights": the months follow the sum
SpreadDifference(l) ==
    /\ drafts[l].months # None /\ drafts[l].months # Sum(l)
    /\ TypeMonths(l, Sum(l))

Saving == save # Idle

StageFile(l) ==
    /\ l \in Opened /\ CanEdit(l) /\ ~Saving /\ Edit
    /\ staged' = staged \cup {l} /\ UNCHANGED <<drafts, removed>>
UnstageFile(l) ==
    /\ ~Saving /\ l \in staged /\ Edit
    /\ staged' = staged \ {l} /\ UNCHANGED <<drafts, removed>>
StageDelete(l) ==
    /\ l \in Opened /\ CanEdit(l) /\ ~Saving /\ items.lines[l].old /\ Edit
    /\ removed' = removed \cup {l} /\ UNCHANGED <<drafts, staged>>
RestoreDelete(l) ==
    /\ CanEdit(l) /\ ~Saving /\ l \in removed /\ Edit
    /\ removed' = removed \ {l} /\ UNCHANGED <<drafts, staged>>

-----------------------------------------------------------------------------
(* Saving and cancelling the whole table *)

\* hasEffectiveItemChanges: some field differs from the line in the cache
Differs(l) ==
    \/ drafts[l].sum    \notin {None, items.lines[l].sum}
    \/ drafts[l].months \notin {None, items.lines[l].sum}
Effective == {l \in Lines : Differs(l)}

Pending == Effective # {} \/ staged # {} \/ removed # {}

Chain ==
    {Call("patch", l) : l \in Effective} \cup {Call("attach", l) : l \in staged}
        \cup {Call("delete", l) : l \in removed}

Save ==
    /\ ~Saving /\ Pending /\ saves < MaxSaves
    /\ saves' = saves + 1
    /\ save' = [state |-> "saving", all |-> Chain, left |-> Chain,
              taken |-> [l \in Effective |-> drafts[l]]]
    /\ UNCHANGED <<server, items, fetch, table>>

ClearTable ==
    /\ drafts' = [l \in Lines |-> NoDraft] /\ staged' = {} /\ removed' = {}

CancelTable ==
    /\ ~Saving /\ Pending /\ ClearTable
    /\ UNCHANGED <<server, items, fetch, save, saves>>

\* The lines first, then the files line by line, attached before deleted
First(c) ==
    CASE c.op = "patch"  -> TRUE
      [] c.op = "attach" -> \A d \in save.left : d.op # "patch"
      [] c.op = "delete" -> \A d \in save.left :
                                d.op # "patch" /\ d # Call("attach", c.line)

\* The server takes the months for the sum, and refuses a sum they do not make
Accepts(c) ==
    /\ open /\ db[c.line].there
    /\ c.op = "patch" =>
          save.taken[c.line].sum \in {None, save.taken[c.line].months}
    /\ c.op = "delete" => db[c.line].old

Apply(c) ==
    db' = CASE c.op = "patch"  -> [db EXCEPT ![c.line].sum = save.taken[c.line].months]
            [] c.op = "attach" -> [db EXCEPT ![c.line].new = TRUE]
            [] c.op = "delete" -> [db EXCEPT ![c.line].old = FALSE]

Saved == save' = Idle /\ fetch' = Asked(TRUE) /\ ClearTable

\* Mutants: an error is shown and the lines are not read anew; an error drops
\* what was to be saved
StoppedQuietly == save' = Idle /\ UNCHANGED <<fetch, table>>
StoppedDropping == save' = Idle /\ fetch' = Asked(fetch.files) /\ ClearTable

\* The drafts stay, those that were stored before the error too; the lines are
\* read anew and their files are not
Stopped == save' = Idle /\ fetch' = Asked(fetch.files) /\ UNCHANGED table

\* Mutant: the end of the chain is not noticed
GoOnForever(c) == save' = [save EXCEPT !.left = @ \ {c}] /\ UNCHANGED <<fetch, table>>

GoOn(c) ==
    IF save.left = {c} THEN Saved
    ELSE /\ save' = [save EXCEPT !.left = @ \ {c}]
         /\ UNCHANGED <<fetch, table>>

\* Mutant: the chain goes on past a call that is refused
ServeAll(c) ==
    /\ Saving /\ c \in save.left /\ First(c)
    /\ IF Accepts(c) THEN Apply(c) ELSE UNCHANGED db
    /\ GoOn(c)
    /\ UNCHANGED <<open, items, saves>>

Serve(c) ==
    /\ Saving /\ c \in save.left /\ First(c)
    /\ IF Accepts(c) THEN Apply(c) /\ GoOn(c) ELSE UNCHANGED db /\ Stopped
    /\ UNCHANGED <<open, items, saves>>

\* No answer: the call may have been applied or not
LoseAnswer(c) ==
    /\ Saving /\ c \in save.left /\ First(c)
    /\ UNCHANGED db \/ (Accepts(c) /\ Apply(c))
    /\ Stopped
    /\ UNCHANGED <<open, items, saves>>

-----------------------------------------------------------------------------
(* One line deleted, the details read anew, and the end of the draft *)

\* A refused deletion is only told
DeleteLine(l) ==
    /\ CanEdit(l) /\ ~Saving
    /\ IF open /\ db[l].there
       THEN db' = [db EXCEPT ![l].there = FALSE] /\ fetch' = Asked(fetch.files)
       ELSE UNCHANGED <<db, fetch>>
    /\ UNCHANGED <<open, items, table, save, saves>>

ServeDetails ==
    /\ fetch.state = "asked" /\ fetch' = Read(db, open, fetch.files)
    /\ UNCHANGED <<server, items, table, save, saves>>

\* The drafts of a line outlive the line they were typed on
ReceiveDetails ==
    /\ fetch.state = "read" /\ fetch' = Idle
    /\ items' = [may |-> fetch.may,
                  lines |-> [l \in Lines |->
                      IF fetch.files THEN fetch.lines[l]
                      ELSE [fetch.lines[l] EXCEPT !.old = items.lines[l].old,
                                                  !.new = items.lines[l].new]]]
    /\ UNCHANGED <<server, table, save, saves>>

\* The request is submitted, here or in another window
Submit ==
    /\ open /\ open' = FALSE
    /\ UNCHANGED <<db, items, fetch, table, save, saves>>

-----------------------------------------------------------------------------

Cells(l) ==
    \/ \E x \in Sums : TypeSum(l, x) \/ TypeMonths(l, x)
    \/ SpreadDifference(l)
    \/ StageFile(l) \/ UnstageFile(l) \/ StageDelete(l) \/ RestoreDelete(l)
    \/ DeleteLine(l)

Next ==
    \/ \E l \in Lines : Cells(l)
    \/ Save \/ CancelTable
    \/ \E c \in Calls : Serve(c) \/ LoseAnswer(c)
    \/ ServeDetails \/ ReceiveDetails
    \/ Submit

Spec == Init /\ [][Next]_vars

-----------------------------------------------------------------------------
(* Properties *)

\* What the table drops at the end of a chain is at the server: every line of
\* the chain has the months that were taken, its file attached and its old file
\* gone.
SavedAll ==
    [][Saving /\ save' = Idle /\ table' # table =>
         \A c \in save.all :
            LET line == db'[c.line] IN
            /\ c.op = "patch"  => line.sum = save.taken[c.line].months
            /\ c.op = "attach" => line.new
            /\ c.op = "delete" => ~line.old]_vars

\* What a chain has taken leaves the table only when the server has it or the
\* user cancels: not because a call of the chain failed.
DraftsKept ==
    [][~CancelTable =>
         \A l \in Lines :
            drafts[l].months # None /\ drafts'[l] = NoDraft
            /\ (Saving => Call("patch", l) \in save.all /\ save.taken[l] = drafts[l])
                => db'[l].sum = drafts[l].months]_vars

\* With everything answered and read anew the table shows the server's lines,
\* also after a chain that stopped half way.
QuietIsFresh ==
    fetch = Idle /\ save = Idle =>
        \A l \in Lines : items.lines[l].sum = db[l].sum /\ items.lines[l].there = db[l].there

=============================================================================
