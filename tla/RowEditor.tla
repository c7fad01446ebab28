------------------------------ MODULE RowEditor ------------------------------
(***************************************************************************)
(* One row of the approval register under the hands of one user: the cells *)
(* the user types a fact and a comment into, the dialogs that ask for a    *)
(* decision, the posts they send, and the refetches that replace the row   *)
(* while the user is typing (RegistryRowCells, DecisionDialog and          *)
(* ArticleRevisionDialog of the frontend).                                 *)
(*                                                                         *)
(* A row is what the register shows of a budget line: its plan, its fact   *)
(* (approved_sum), its status and comment, and whether the user may act.   *)
(* The server decides as BudgetItemService.normalize_decision does.        *)
(***************************************************************************)
EXTENDS Naturals, FiniteSets

CONSTANTS
    MaxSum,     \* bound on a sum
    Texts,      \* comments
    MaxPosts,   \* bound on the posts the user sends
    MaxMoves    \* bound on the changes others make to the row

ASSUME EditorAssumption ==
    MaxSum \in Nat \ {0} /\ MaxPosts \in Nat /\ MaxMoves \in Nat

VARIABLES
    role,     \* role of the user, the same all along
    db,       \* the row at the server
    item,     \* the row in the cache
    fetch,    \* the fetch of the rows
    fact,     \* draftFact
    entered,  \* hasEnteredFact
    note,     \* draftComment
    dialog,   \* the open dialog
    posts,    \* the posts under way, by number
    sent,     \* posts sent so far
    moves     \* changes made by others so far

drafts == <<fact, entered, note>>
vars   == <<role, db, item, fetch, drafts, dialog, posts, sent, moves>>

Empty   == "empty"                    \* a blank comment
Notes   == Texts \cup {Empty}
Sums    == 0 .. MaxSum
Blank   == MaxSum + 1                 \* no amount
Amounts == Sums \cup {Blank}
Choices == {"approved", "approved_with_changes", "rejected"}
Decisions == Choices \cup {"on_revision"}
Changed == {"approved_with_changes", "rejected", "on_revision", "to_module"}

Rows == [status : {"on_review"} \cup Choices, plan : Sums \ {0}, sum : Sums,
         comment : Notes, open : BOOLEAN]

NoDialog == [open |-> FALSE]
Posts  == 1 .. MaxPosts
NoPost == [state |-> "none"]
PostRecords ==
    [state : {"sent", "done", "refused"}, op : {"row", "modal", "package", "comment"}, row : Rows,
     decision : Decisions \cup {"to_module", "none"}, amount : Amounts, note : Notes, answer : Rows]
Idle  == [state |-> "idle"]
Asked == [state |-> "asked"]
Read(row) == [state |-> "read", row |-> row]

TypeOK ==
    /\ role \in {"employee", "economist", "approver"}
    /\ db \in Rows /\ item \in Rows
    /\ fetch \in {Idle, Asked} \cup {Read(r) : r \in Rows}
    /\ fact \in Sums /\ entered \in BOOLEAN /\ note \in Notes
    /\ dialog # NoDialog =>
          /\ dialog.row \in Rows /\ dialog.decision \in Decisions \cup {"to_module"}
          /\ dialog.amount \in Amounts /\ dialog.note \in Notes
    /\ posts \in [Posts -> {NoPost} \cup PostRecords]
    /\ sent \in 0 .. MaxPosts /\ moves \in 0 .. MaxMoves

Init ==
    /\ role \in {"employee", "economist", "approver"}
    /\ db \in [status : {"on_review"}, plan : {MaxSum}, sum : Sums, comment : {Empty},
               open : {TRUE}]
    /\ item = db /\ fetch = Idle
    /\ fact = item.sum /\ entered = (item.sum # 0) /\ note = item.comment
    /\ dialog = NoDialog
    /\ posts = [n \in Posts |-> NoPost] /\ sent = 0 /\ moves = 0

-----------------------------------------------------------------------------
(* The row in the cache and the drafts of its cells *)

\* Mutant: the drafts are kept as long as the row is the same
ShowKeeping(r) == item' = r /\ UNCHANGED drafts

\* A row with another fact or comment resets the drafts of all its cells
Show(r) ==
    /\ item' = r
    /\ IF r.sum # item.sum \/ r.comment # item.comment
       THEN /\ fact' = r.sum /\ entered' = (r.sum # 0) /\ note' = r.comment
       ELSE UNCHANGED drafts

ServeRows ==
    /\ fetch = Asked /\ fetch' = Read(db)
    /\ UNCHANGED <<db, item, drafts, dialog, posts, sent, moves>>

ReceiveRows ==
    /\ fetch.state = "read" /\ fetch' = Idle
    /\ Show(fetch.row)
    /\ UNCHANGED <<db, dialog, posts, sent, moves>>

CanEditAmount == role # "approver" /\ item.open
NoModal == dialog = NoDialog

\* Every valid keystroke in the cell of the fact reaches the draft
TypeFact(x) ==
    /\ CanEditAmount /\ NoModal
    /\ fact' = x /\ entered' = TRUE
    /\ UNCHANGED <<db, item, fetch, note, dialog, posts, sent, moves>>

\* Escape in the cell of the fact
CancelFact ==
    /\ CanEditAmount /\ NoModal
    /\ fact' = item.sum /\ entered' = (item.sum # 0)
    /\ UNCHANGED <<db, item, fetch, note, dialog, posts, sent, moves>>

-----------------------------------------------------------------------------
(* The dialogs *)

Dialog(decision, amount, text, editable, choice) ==
    [open |-> TRUE, row |-> item, decision |-> decision, amount |-> amount,
     note |-> text, editable |-> editable, choice |-> choice, saving |-> FALSE]

Open(d) == NoModal /\ dialog' = d /\ UNCHANGED <<db, item, fetch, drafts, posts, sent, moves>>

StoredOrPlan == IF item.sum = 0 THEN item.plan ELSE item.sum
\* resolvePointApprovalAmount: the plan, until the user enters a fact
PointAmount ==
    IF role = "approver" \/ ~entered THEN item.plan ELSE fact
\* Mutant: the decision goes out as it was chosen, whatever the amount
AsChosen(decision, amount, plan) == decision

\* An approval of another amount than the plan is one with changes
Resolved(decision, amount, plan) ==
    IF decision = "approved" /\ amount \notin {Blank, plan}
    THEN "approved_with_changes" ELSE decision

Reject ==
    /\ item.open /\ role # "approver"
    /\ Open(Dialog("rejected", StoredOrPlan, note, TRUE, FALSE))
MarkForRevision ==
    /\ item.open /\ role = "economist"
    /\ Open(Dialog("on_revision", item.sum, note, FALSE, FALSE))
\* The responsible of the CFO returns the line to its module: the comment is
\* that of the line, the draft of the cell is not looked at
ReturnToModule ==
    /\ item.open /\ role = "employee"
    /\ Open(Dialog("to_module", Blank, item.comment, FALSE, FALSE))
\* The bar of the selection, with this row selected alone
ApproveSelected ==
    /\ item.open /\ Open(Dialog("approved", item.sum, Empty, FALSE, FALSE))

ShowAmount(d) ==
    d.decision = "approved_with_changes" \/ (d.editable /\ d.decision = "approved")
Adjusted(d) == IF ShowAmount(d) THEN d.amount ELSE Blank
Meant(d) == Resolved(d.decision, Adjusted(d), d.row.plan)

Change(d) ==
    /\ dialog # NoDialog /\ ~dialog.saving
    /\ dialog' = d
    /\ UNCHANGED <<db, item, fetch, drafts, posts, sent, moves>>
Choose(c)  == dialog # NoDialog /\ dialog.choice /\ Change([dialog EXCEPT !.decision = c])
TypeAmount(x) == dialog # NoDialog /\ ShowAmount(dialog) /\ Change([dialog EXCEPT !.amount = x])
TypeNote(t) == dialog # NoDialog /\ Change([dialog EXCEPT !.note = t])
Cancel == Change(NoDialog)

-----------------------------------------------------------------------------
(* The posts *)

Post(op, row, decision, amount, text) ==
    /\ sent < MaxPosts /\ sent' = sent + 1
    /\ posts' = [posts EXCEPT ![sent + 1] =
                   [state |-> "sent", op |-> op, row |-> row, decision |-> decision,
                    amount |-> amount, note |-> text, answer |-> row]]

PostDecision(op, row, decision, amount, text) ==
    /\ Post(op, row, Resolved(decision, amount, row.plan), amount, text)

\* The check mark of the row.  The responsible of a CFO decides in the dialog,
\* an economist when the fact differs from the plan; else the post goes out at
\* once, under whatever else is under way.
Approve ==
    /\ item.open /\ NoModal
    /\ IF role = "employee" \/ PointAmount # item.plan
       THEN Open(Dialog(Resolved("approved", PointAmount, item.plan), PointAmount,
                        note, role = "employee", role = "employee"))
       ELSE /\ PostDecision("row", item, "approved", PointAmount, note)
            /\ UNCHANGED <<db, item, fetch, fact, entered, note, dialog, moves>>

NeedsComment(d) == Meant(d) \in Changed

Confirm ==
    /\ dialog # NoDialog /\ ~dialog.saving
    /\ NeedsComment(dialog) => dialog.note # Empty
    /\ ShowAmount(dialog) => dialog.amount # Blank
    /\ dialog' = [dialog EXCEPT !.saving = TRUE]
    /\ IF dialog.decision = "to_module"
       THEN Post("package", dialog.row, "to_module", Blank, dialog.note)
       ELSE PostDecision("modal", dialog.row, Meant(dialog), Adjusted(dialog), dialog.note)
    /\ UNCHANGED <<db, item, fetch, fact, entered, note, moves>>

\* The cell of the comment saves on blur; it is disabled until the answer
SaveComment(t) ==
    /\ item.open /\ NoModal /\ t # note
    /\ \A n \in Posts : posts[n] # NoPost => posts[n].op # "comment"
    /\ note' = t
    /\ Post("comment", item, "none", Blank, t)
    /\ UNCHANGED <<db, item, fetch, fact, entered, dialog, moves>>

-----------------------------------------------------------------------------
(* The server *)

\* A correction without an amount corrects to the plan
Given(p) == IF p.amount = Blank THEN db.plan ELSE p.amount

\* normalize_decision, and the checks of the two reviews
Refuses(p) ==
    \/ ~db.open
    \/ p.decision \in {"rejected", "on_revision"} /\ p.note = Empty
    \/ /\ p.decision = "approved_with_changes"
       /\ (p.note = Empty /\ role # "employee") \/ Given(p) = db.sum

Fact(p) ==
    CASE p.decision = "approved" -> IF role = "approver" THEN db.sum ELSE db.plan
      [] p.decision = "rejected" -> 0
      [] p.decision = "approved_with_changes" -> Given(p)
      [] OTHER -> db.sum

\* The CFO only notes an acceptance: the line stays on review
Status(p) ==
    IF p.decision \in {"comment", "none"} THEN db.status
    ELSE IF p.decision = "on_revision" \/ (role = "employee" /\ p.decision # "rejected")
    THEN "on_review"
    ELSE IF role = "approver" THEN db.status ELSE p.decision

Stored(p) ==
    [db EXCEPT !.status = Status(p), !.sum = Fact(p), !.comment = p.note,
               !.open = p.op # "package" /\ (role # "approver" \/ p.op = "comment")]

Serve(n) ==
    LET p == posts[n]
    IN  /\ p.state = "sent"
        /\ IF Refuses(p)
           THEN posts' = [posts EXCEPT ![n].state = "refused"] /\ UNCHANGED db
           ELSE /\ posts' = [posts EXCEPT ![n].state = "done", ![n].answer = Stored(p)]
                /\ db' = Stored(p)
        /\ UNCHANGED <<item, fetch, drafts, dialog, sent, moves>>

\* updateRegisterCache: the status and the fact of the answer, the fact of a
\* line that is not accepted counting as none
Patched(p) ==
    [item EXCEPT !.status = p.answer.status,
                 !.sum = IF p.answer.status \in {"approved", "approved_with_changes"}
                         THEN p.answer.sum ELSE 0]

CloseDialog(p) ==
    dialog' = IF p.op \in {"modal", "package"} THEN NoDialog ELSE dialog

\* Mutant: the row is patched and not asked for again
PatchOnly(n) ==
    LET p == posts[n]
    IN  /\ p.state = "done"
        /\ posts' = [posts EXCEPT ![n] = NoPost]
        /\ CloseDialog(p)
        /\ IF p.op \in {"row", "modal"} /\ role # "approver"
           THEN Show(Patched(p)) ELSE UNCHANGED <<item, drafts>>
        /\ UNCHANGED <<db, fetch, sent, moves>>

Succeeded(n) ==
    LET p == posts[n]
    IN  /\ p.state = "done"
        /\ posts' = [posts EXCEPT ![n] = NoPost]
        /\ CloseDialog(p)
        /\ fetch' = Asked
        /\ IF p.op \in {"row", "modal"} /\ role # "approver"
           THEN Show(Patched(p)) ELSE UNCHANGED <<item, drafts>>
        /\ UNCHANGED <<db, sent, moves>>

\* A refused comment is taken back from its cell, a refused decision leaves
\* its dialog open
Failed(n) ==
    LET p == posts[n]
    IN  /\ p.state = "refused"
        /\ posts' = [posts EXCEPT ![n] = NoPost]
        /\ note' = IF p.op = "comment" THEN item.comment ELSE note
        /\ dialog' = IF p.op \in {"modal", "package"}
                     THEN [dialog EXCEPT !.saving = FALSE] ELSE dialog
        /\ UNCHANGED <<db, item, fetch, fact, entered, sent, moves>>

\* A colleague decides the fact, the line comes back from its module with
\* another plan, or goes on to where the user has no say.  The browser does not
\* know before it asks for the rows again.
MovedElsewhere(row) ==
    /\ moves < MaxMoves /\ moves' = moves + 1
    /\ \/ \E x \in Sums : row = [db EXCEPT !.sum = x]
       \/ \E x \in Sums \ {0} : row = [db EXCEPT !.plan = x, !.status = "on_review"]
       \/ row = [db EXCEPT !.open = ~db.open]
    /\ db' = row
    /\ UNCHANGED <<item, fetch, drafts, dialog, posts, sent>>

-----------------------------------------------------------------------------

Type ==
    \/ \E x \in Sums : TypeFact(x) \/ TypeAmount(x)
    \/ TypeAmount(Blank) \/ CancelFact
    \/ \E t \in Notes : TypeNote(t) \/ SaveComment(t)
    \/ \E c \in Choices : Choose(c)

Act ==
    \/ Approve \/ Reject \/ MarkForRevision \/ ReturnToModule \/ ApproveSelected
    \/ Confirm \/ Cancel

Answered == \E n \in Posts : Serve(n) \/ Succeeded(n) \/ Failed(n)

Next ==
    /\ \/ Type \/ Act \/ Answered
       \/ ServeRows \/ ReceiveRows
       \/ \E row \in Rows : MovedElsewhere(row)
    /\ UNCHANGED role

Spec == Init /\ [][Next]_vars

-----------------------------------------------------------------------------
(* Properties *)

\* Whatever was typed, chosen and taken back on the way, and whichever dialog
\* it comes from: no line is rejected, corrected or returned without a comment.
ChangesExplained ==
    \A n \in Posts :
        posts[n] # NoPost /\ posts[n].decision \in Changed => posts[n].note # Empty

\* "Approved" never stands for an amount other than the plan the user saw: such
\* an amount goes out as a correction.
ApprovedIsThePlan ==
    \A n \in Posts :
        posts[n] # NoPost /\ posts[n].decision = "approved"
            => posts[n].amount \in {Blank, posts[n].row.plan}

\* What is posted is a decision on what the user saw that says why it changes it.
PostsMeant == TypeOK /\ ChangesExplained /\ ApprovedIsThePlan

\* A fact the cell shows beside the stored one is one the check mark will act
\* on, although answers and refetches replace the row while the user types.
ShownFactCounts ==
    role # "approver" /\ fact # item.sum => entered

\* When everything sent is answered and read anew the row on screen is that of
\* the server, however many decisions were under way at once.
QuietIsFresh ==
    moves = 0 /\ fetch = Idle /\ (\A n \in Posts : posts[n] = NoPost) => item = db

=============================================================================
