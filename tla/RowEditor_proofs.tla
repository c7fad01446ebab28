--------------------------- MODULE RowEditor_proofs ---------------------------
(***************************************************************************)
(* Theorems about RowEditor for any sums and comments, any number of posts *)
(* under way and any number of changes made by others.                     *)
(***************************************************************************)
EXTENDS RowEditor, TLAPS

DialogRecords ==
    [open : {TRUE}, row : Rows, decision : Decisions \cup {"to_module"}, amount : Amounts,
     note : Notes, editable : BOOLEAN, choice : BOOLEAN, saving : BOOLEAN]

\* The dialogs have all their fields, posts are numbered as they are sent, and
\* only the responsible of a CFO returns a line to its module
Shape ==
    /\ TypeOK
    /\ dialog \in {NoDialog} \cup DialogRecords
    /\ dialog # NoDialog /\ dialog.decision = "to_module" => role = "employee"
    /\ \A n \in Posts : n > sent => posts[n] = NoPost
    /\ \A n \in Posts : posts[n] # NoPost /\ posts[n].decision = "to_module" => role = "employee"

LEMMA ShapeInit == Init => Shape
<1> SUFFICES ASSUME Init PROVE Shape
    OBVIOUS
<1>1. db \in Rows /\ item = db
  <2>1. MaxSum \in Sums \ {0} /\ Empty \in Notes
    BY EditorAssumption DEF Sums, Notes
  <2>2. \A sum \in Sums : [status |-> "on_review", plan |-> MaxSum, sum |-> sum,
                           comment |-> Empty, open |-> TRUE] \in Rows
    BY <2>1 DEF Rows
  <2>3. \E sum \in Sums : db = [status |-> "on_review", plan |-> MaxSum, sum |-> sum,
                                comment |-> Empty, open |-> TRUE]
    <3> HIDE DEF Sums, Empty
    <3> QED BY DEF Init
  <2> QED
    BY <2>2, <2>3 DEF Init
<1>2. fact \in Sums /\ entered \in BOOLEAN /\ note \in Notes
  BY <1>1 DEF Init, Rows
<1> QED
  BY <1>1, <1>2, EditorAssumption DEF Init, Shape, TypeOK, Posts

\* A post takes the next number and leaves the others alone.
LEMMA PostAdded ==
    ASSUME Shape, NEW op, NEW row, NEW decision, NEW amount, NEW text,
           Post(op, row, decision, amount, text)
    PROVE  /\ sent + 1 \in Posts /\ sent' = sent + 1 /\ posts[sent + 1] = NoPost
           /\ DOMAIN posts' = Posts /\ posts' = [n \in Posts |-> posts'[n]]
           /\ posts'[sent + 1] = [state |-> "sent", op |-> op, row |-> row, decision |-> decision,
                                  amount |-> amount, note |-> text, answer |-> row]
           /\ \A n \in Posts : n # sent + 1 => posts'[n] = posts[n]
<1> DEFINE new == [state |-> "sent", op |-> op, row |-> row, decision |-> decision,
                   amount |-> amount, note |-> text, answer |-> row]
<1>1. /\ sent < MaxPosts /\ sent' = sent + 1
      /\ posts' = [posts EXCEPT ![sent + 1] = new]
  BY DEF Post
<1> HIDE DEF new
<1>2. sent + 1 \in Posts /\ sent + 1 > sent /\ DOMAIN posts = Posts
  BY <1>1, EditorAssumption DEF Posts, Shape, TypeOK
<1>3. posts[sent + 1] = NoPost
  BY <1>2 DEF Shape
<1>4. /\ posts'[sent + 1] = new
      /\ \A n \in Posts : n # sent + 1 => posts'[n] = posts[n]
      /\ DOMAIN posts' = Posts /\ posts' = [n \in Posts |-> posts'[n]]
  BY <1>1, <1>2
<1> QED
  BY <1>1, <1>2, <1>3, <1>4 DEF new

\* It has the type of a post when its parts have theirs.
LEMMA PostTyped ==
    ASSUME Shape, NEW op \in {"row", "modal", "package", "comment"}, NEW row \in Rows,
           NEW decision \in Decisions \cup {"to_module", "none"}, NEW amount \in Amounts,
           NEW text \in Notes, Post(op, row, decision, amount, text),
           decision = "to_module" => role = "employee"
    PROVE  /\ posts' \in [Posts -> {NoPost} \cup PostRecords] /\ sent' \in 0 .. MaxPosts
           /\ \A n \in Posts : n > sent' => posts'[n] = NoPost
           /\ \A n \in Posts : posts'[n] # NoPost /\ posts'[n].decision = "to_module"
                 => role = "employee"
<1> DEFINE new == [state |-> "sent", op |-> op, row |-> row, decision |-> decision,
                   amount |-> amount, note |-> text, answer |-> row]
<1>1. new \in PostRecords /\ new.decision = decision
  BY DEF PostRecords
<1> HIDE DEF new
<1>2. /\ sent + 1 \in Posts /\ sent' = sent + 1 /\ posts' = [n \in Posts |-> posts'[n]]
      /\ posts'[sent + 1] = new
      /\ \A n \in Posts : n # sent + 1 => posts'[n] = posts[n]
  BY PostAdded DEF new
<1>3. \A n \in Posts : posts'[n] \in {NoPost} \cup PostRecords
  BY <1>1, <1>2 DEF Shape, TypeOK
<1>4. sent' \in 0 .. MaxPosts /\ sent \in Nat
  BY <1>2, EditorAssumption DEF Posts, Shape, TypeOK
<1>5. \A n \in Posts : n > sent' => posts'[n] = NoPost
  BY <1>2, <1>4 DEF Posts, Shape
<1>6. \A n \in Posts : posts'[n] # NoPost /\ posts'[n].decision = "to_module" => role = "employee"
  BY <1>1, <1>2 DEF Shape
<1> QED
  BY <1>2, <1>3, <1>4, <1>5, <1>6

LEMMA ResolvedTyped ==
    ASSUME NEW d \in Decisions, NEW a, NEW p
    PROVE  Resolved(d, a, p) \in Decisions
BY DEF Resolved, Decisions, Choices

\* The steps that send nothing and are answered nothing
LEMMA OpenShape ==
    ASSUME Shape, UNCHANGED role, NEW d \in DialogRecords, Open(d),
           d.decision = "to_module" => role = "employee"
    PROVE  Shape'
<1>1. d # NoDialog
  BY DEF DialogRecords, NoDialog
<1>2. dialog' = d /\ UNCHANGED <<role, db, item, fetch, fact, entered, note, posts, sent, moves>>
  BY DEF Open, drafts
<1>3. /\ d.row \in Rows /\ d.decision \in Decisions \cup {"to_module"}
      /\ d.amount \in Amounts /\ d.note \in Notes
  BY DEF DialogRecords
<1>4. TypeOK'
  BY <1>2, <1>3 DEF Shape, TypeOK
<1> QED
  BY <1>1, <1>2, <1>4 DEF Shape

LEMMA ShownTyped ==
    ASSUME Shape, NEW r \in Rows, Show(r)
    PROVE  item' \in Rows /\ fact' \in Sums /\ entered' \in BOOLEAN /\ note' \in Notes
BY DEF Show, Shape, TypeOK, Rows, drafts

LEMMA TypeShape == Shape /\ Type /\ UNCHANGED role => Shape'
<1> SUFFICES ASSUME Shape, Type, UNCHANGED role PROVE Shape'
    OBVIOUS
<1>1. ASSUME UNCHANGED <<db, item, fetch, note, dialog, posts, sent, moves>>,
             fact' \in Sums, entered' \in BOOLEAN
      PROVE  Shape'
  BY <1>1 DEF Shape, TypeOK
<1>2. item.sum \in Sums /\ (item.sum # 0) \in BOOLEAN
  BY DEF Shape, TypeOK, Rows
<1>3. CASE (\E x \in Sums : TypeFact(x)) \/ CancelFact
  BY <1>1, <1>2, <1>3 DEF TypeFact, CancelFact
<1>4. ASSUME NEW d \in DialogRecords, Change(d), dialog # NoDialog, d.decision = dialog.decision
                \/ d.decision \in Decisions
      PROVE  Shape'
  <2>1. dialog' = d /\ UNCHANGED <<role, db, item, fetch, fact, entered, note, posts, sent, moves>>
    BY <1>4 DEF Change, drafts
  <2>2. /\ d.row \in Rows /\ d.decision \in Decisions \cup {"to_module"}
        /\ d.amount \in Amounts /\ d.note \in Notes
    BY DEF DialogRecords
  <2>3. TypeOK'
    BY <2>1, <2>2 DEF Shape, TypeOK
  <2>4. d.decision = "to_module" => role = "employee"
    BY <1>4 DEF Shape, Decisions, Choices
  <2> QED
    BY <2>1, <2>3, <2>4 DEF Shape
<1>5. dialog # NoDialog => dialog \in DialogRecords
  BY DEF Shape
<1>6. ASSUME NEW x \in Amounts, TypeAmount(x) PROVE Shape'
  BY <1>4, <1>5, <1>6 DEF TypeAmount, DialogRecords
<1>7. ASSUME NEW t \in Notes, TypeNote(t) PROVE Shape'
  BY <1>4, <1>5, <1>7 DEF TypeNote, DialogRecords
<1>8. ASSUME NEW c \in Choices, Choose(c) PROVE Shape'
  BY <1>4, <1>5, <1>8 DEF Choose, DialogRecords, Decisions
<1>9. ASSUME NEW t \in Notes, SaveComment(t) PROVE Shape'
  <2>1. /\ note' = t /\ Post("comment", item, "none", Blank, t)
        /\ UNCHANGED <<db, item, fetch, fact, entered, dialog, moves>>
    BY <1>9 DEF SaveComment
  <2>2. item \in Rows /\ Blank \in Amounts
    BY DEF Shape, TypeOK, Amounts
  <2>3. /\ posts' \in [Posts -> {NoPost} \cup PostRecords] /\ sent' \in 0 .. MaxPosts
        /\ \A n \in Posts : n > sent' => posts'[n] = NoPost
        /\ \A n \in Posts : posts'[n] # NoPost /\ posts'[n].decision = "to_module"
              => role = "employee"
    BY <2>1, <2>2, PostTyped
  <2> QED
    BY <2>1, <2>3 DEF Shape, TypeOK
<1> QED
  BY <1>3, <1>6, <1>7, <1>8, <1>9 DEF Type, Amounts

LEMMA ActShape == Shape /\ Act /\ UNCHANGED role => Shape'
<1> SUFFICES ASSUME Shape, Act, UNCHANGED role PROVE Shape'
    OBVIOUS
<1>1. /\ item \in Rows /\ item.sum \in Amounts /\ item.plan \in Amounts /\ item.comment \in Notes
      /\ fact \in Amounts /\ note \in Notes /\ Blank \in Amounts /\ Empty \in Notes
      /\ StoredOrPlan \in Amounts /\ PointAmount \in Amounts
  BY DEF Shape, TypeOK, Rows, Amounts, Notes, StoredOrPlan, PointAmount
<1>2. ASSUME NEW decision \in Decisions \cup {"to_module"}, NEW amount \in Amounts,
             NEW text \in Notes, NEW editable \in BOOLEAN, NEW choice \in BOOLEAN
      PROVE  /\ Dialog(decision, amount, text, editable, choice) \in DialogRecords
             /\ Dialog(decision, amount, text, editable, choice).decision = decision
  BY <1>1 DEF Dialog, DialogRecords
<1>3. CASE Reject
  <2>1. Open(Dialog("rejected", StoredOrPlan, note, TRUE, FALSE))
    BY <1>3 DEF Reject
  <2> QED
    BY <1>1, <1>2, <2>1, OpenShape DEF Decisions, Choices
<1>4. CASE MarkForRevision
  <2>1. Open(Dialog("on_revision", item.sum, note, FALSE, FALSE))
    BY <1>4 DEF MarkForRevision
  <2> QED
    BY <1>1, <1>2, <2>1, OpenShape DEF Decisions, Choices
<1>5. CASE ReturnToModule
  <2>1. Open(Dialog("to_module", Blank, item.comment, FALSE, FALSE)) /\ role = "employee"
    BY <1>5 DEF ReturnToModule
  <2> QED
    BY <1>1, <1>2, <2>1, OpenShape
<1>6. CASE ApproveSelected
  <2>1. Open(Dialog("approved", item.sum, Empty, FALSE, FALSE))
    BY <1>6 DEF ApproveSelected
  <2> QED
    BY <1>1, <1>2, <2>1, OpenShape DEF Decisions, Choices
<1>7. CASE Approve
  <2>1. CASE role = "employee" \/ PointAmount # item.plan
    <3> DEFINE d == Resolved("approved", PointAmount, item.plan)
               cfo == role = "employee"
    <3>1. d \in Decisions /\ cfo \in BOOLEAN
      BY DEF Resolved, Decisions, Choices
    <3>2. Open(Dialog(d, PointAmount, note, cfo, cfo))
      BY <1>7, <2>1 DEF Approve
    <3> HIDE DEF d, cfo
    <3>3. d # "to_module"
      BY <3>1 DEF Decisions, Choices
    <3>4. /\ Dialog(d, PointAmount, note, cfo, cfo) \in DialogRecords
          /\ Dialog(d, PointAmount, note, cfo, cfo).decision = d
      BY <1>1, <1>2, <3>1
    <3> QED
      BY <3>2, <3>3, <3>4, OpenShape
  <2>2. CASE ~(role = "employee" \/ PointAmount # item.plan)
    <3> DEFINE d == Resolved("approved", PointAmount, item.plan)
    <3>1. /\ Post("row", item, d, PointAmount, note)
          /\ UNCHANGED <<db, item, fetch, fact, entered, note, dialog, moves>>
      BY <1>7, <2>2 DEF Approve, PostDecision
    <3>2. d \in Decisions /\ d # "to_module"
      BY DEF Resolved, Decisions, Choices
    <3> HIDE DEF d
    <3>3. /\ posts' \in [Posts -> {NoPost} \cup PostRecords] /\ sent' \in 0 .. MaxPosts
          /\ \A n \in Posts : n > sent' => posts'[n] = NoPost
          /\ \A n \in Posts : posts'[n] # NoPost /\ posts'[n].decision = "to_module"
                => role = "employee"
      BY <1>1, <3>1, <3>2, PostTyped
    <3> QED
      BY <3>1, <3>3 DEF Shape, TypeOK
  <2> QED
    BY <2>1, <2>2
<1>8. CASE Confirm
  <2> DEFINE saved == [dialog EXCEPT !.saving = TRUE]
  <2>1. /\ dialog \in DialogRecords /\ dialog # NoDialog /\ dialog' = saved
        /\ UNCHANGED <<db, item, fetch, fact, entered, note, moves>>
    BY <1>8 DEF Confirm, Shape
  <2>2. saved \in DialogRecords /\ saved.decision = dialog.decision
    BY <2>1 DEF DialogRecords
  <2>3. /\ saved.row \in Rows /\ saved.decision \in Decisions \cup {"to_module"}
        /\ saved.amount \in Amounts /\ saved.note \in Notes
    BY <2>2 DEF DialogRecords
  <2>4. /\ dialog.row \in Rows /\ dialog.decision \in Decisions \cup {"to_module"}
        /\ Adjusted(dialog) \in Amounts /\ dialog.note \in Notes
    BY <1>1, <2>1 DEF DialogRecords, Adjusted
  <2> HIDE DEF saved
  <2>5. PICK op \in {"package", "modal"}, decision \in Decisions \cup {"to_module", "none"},
             amount \in Amounts :
          /\ Post(op, dialog.row, decision, amount, dialog.note)
          /\ decision = "to_module" => role = "employee"
    <3>1. CASE dialog.decision = "to_module"
      <4>1. Post("package", dialog.row, "to_module", Blank, dialog.note)
        BY <1>8, <3>1 DEF Confirm
      <4>2. role = "employee"
        BY <2>1, <3>1 DEF Shape
      <4> QED
        BY <1>1, <4>1, <4>2
    <3>2. CASE dialog.decision # "to_module"
      <4>1. Post("modal", dialog.row, Resolved(Meant(dialog), Adjusted(dialog), dialog.row.plan),
                 Adjusted(dialog), dialog.note)
        BY <1>8, <3>2 DEF Confirm, PostDecision
      <4>2. Resolved(Meant(dialog), Adjusted(dialog), dialog.row.plan) \in Decisions
        BY <2>4, <3>2, ResolvedTyped DEF Meant
      <4>3. \A d \in Decisions : d # "to_module"
        BY DEF Decisions, Choices
      <4> QED
        BY <2>4, <4>1, <4>2, <4>3
    <3> QED
      BY <3>1, <3>2
  <2>6. /\ posts' \in [Posts -> {NoPost} \cup PostRecords] /\ sent' \in 0 .. MaxPosts
        /\ \A n \in Posts : n > sent' => posts'[n] = NoPost
        /\ \A n \in Posts : posts'[n] # NoPost /\ posts'[n].decision = "to_module"
              => role = "employee"
    BY <2>4, <2>5, PostTyped
  <2>7. TypeOK'
    BY <2>1, <2>3, <2>6 DEF Shape, TypeOK
  <2> QED
    BY <2>1, <2>2, <2>6, <2>7 DEF Shape
<1>9. CASE Cancel
  <2>1. dialog' = NoDialog /\ UNCHANGED <<role, db, item, fetch, fact, entered, note, posts, sent, moves>>
    BY <1>9 DEF Cancel, Change, drafts
  <2> QED
    BY <2>1 DEF Shape, TypeOK
<1> QED
  BY <1>3, <1>4, <1>5, <1>6, <1>7, <1>8, <1>9 DEF Act

LEMMA RowsShape == Shape /\ (ServeRows \/ ReceiveRows) /\ UNCHANGED role => Shape'
<1> SUFFICES ASSUME Shape, ServeRows \/ ReceiveRows, UNCHANGED role PROVE Shape'
    OBVIOUS
<1>1. CASE ServeRows
  <2>1. /\ fetch' = Read(db)
        /\ UNCHANGED <<db, item, fact, entered, note, dialog, posts, sent, moves>>
    BY <1>1 DEF ServeRows, drafts
  <2> QED
    BY <2>1 DEF Shape, TypeOK
<1>2. CASE ReceiveRows
  <2>1. /\ fetch.state = "read" /\ fetch' = Idle /\ Show(fetch.row)
        /\ UNCHANGED <<db, dialog, posts, sent, moves>>
    BY <1>2 DEF ReceiveRows
  <2>2. fetch.row \in Rows
    BY <2>1 DEF Shape, TypeOK, Idle, Asked, Read
  <2>3. item' \in Rows /\ fact' \in Sums /\ entered' \in BOOLEAN /\ note' \in Notes
    BY <2>1, <2>2, ShownTyped
  <2> QED
    BY <2>1, <2>3 DEF Shape, TypeOK
<1> QED
  BY <1>1, <1>2

LEMMA MovedShape == Shape /\ (\E row \in Rows : MovedElsewhere(row)) /\ UNCHANGED role => Shape'
<1> SUFFICES ASSUME Shape, NEW row \in Rows, MovedElsewhere(row), UNCHANGED role PROVE Shape'
    OBVIOUS
<1>1. /\ moves < MaxMoves /\ moves' = moves + 1 /\ db' = row
      /\ UNCHANGED <<item, fetch, fact, entered, note, dialog, posts, sent>>
  BY DEF MovedElsewhere, drafts
<1>2. moves' \in 0 .. MaxMoves
  BY <1>1, EditorAssumption DEF Shape, TypeOK
<1> QED
  BY <1>1, <1>2 DEF Shape, TypeOK

\* What the server stores is a row again.
LEMMA StoredTyped ==
    ASSUME Shape, NEW n \in Posts, posts[n] # NoPost
    PROVE  Stored(posts[n]) \in Rows
<1> DEFINE p == posts[n]
<1>1. p \in PostRecords /\ (p.decision = "to_module" => role = "employee")
  BY DEF Shape, TypeOK
<1>2. /\ p.op \in {"row", "modal", "package", "comment"} /\ p.note \in Notes
      /\ p.decision \in Decisions \cup {"to_module", "none"} /\ p.amount \in Amounts
  BY <1>1 DEF PostRecords
<1> HIDE DEF p
<1>3. /\ db.status \in {"on_review"} \cup Choices /\ db.plan \in Sums \ {0} /\ db.sum \in Sums
      /\ db \in Rows
  BY DEF Shape, TypeOK, Rows
<1>4. Fact(p) \in Sums
  <2>1. Given(p) \in Sums
    BY <1>2, <1>3 DEF Given, Amounts
  <2>2. 0 \in Sums
    BY EditorAssumption DEF Sums
  <2> QED
    BY <1>2, <1>3, <2>1, <2>2 DEF Fact, Decisions, Choices
<1>5. Status(p) \in {"on_review"} \cup Choices
  BY <1>1, <1>2, <1>3 DEF Status, Decisions, Choices
<1> DEFINE still == p.op # "package" /\ (role # "approver" \/ p.op = "comment")
<1>6. still \in BOOLEAN
  OBVIOUS
<1>7. Stored(p) = [db EXCEPT !.status = Status(p), !.sum = Fact(p), !.comment = p.note,
                             !.open = still]
  BY DEF Stored
<1> HIDE DEF still
<1>8. Stored(p) \in Rows
  BY <1>2, <1>3, <1>4, <1>5, <1>6, <1>7 DEF Rows
<1> QED
  BY <1>8 DEF p

LEMMA AnsweredShape == Shape /\ Answered /\ UNCHANGED role => Shape'
<1> SUFFICES ASSUME Shape, UNCHANGED role, NEW n \in Posts, Serve(n) \/ Succeeded(n) \/ Failed(n)
             PROVE  Shape'
    BY DEF Answered
<1> DEFINE p == posts[n]
<1>1. p.state \in {"sent", "done", "refused"} /\ p # NoPost /\ p \in PostRecords
  BY DEF Serve, Succeeded, Failed, Shape, TypeOK, NoPost
<1>2. p.answer \in Rows /\ n \in 1 .. sent
  BY <1>1, EditorAssumption DEF Shape, TypeOK, PostRecords, Posts
<1>3. ASSUME NEW q \in {NoPost} \cup PostRecords, posts' = [posts EXCEPT ![n] = q],
             q # NoPost => q.decision = p.decision,
             UNCHANGED sent
      PROVE  /\ posts' \in [Posts -> {NoPost} \cup PostRecords]
             /\ \A m \in Posts : m > sent' => posts'[m] = NoPost
             /\ \A m \in Posts : posts'[m] # NoPost /\ posts'[m].decision = "to_module"
                   => role = "employee"
  <2> HIDE DEF p
  <2>1. posts' \in [Posts -> {NoPost} \cup PostRecords]
    BY <1>3 DEF Shape, TypeOK
  <2>2. posts'[n] = q /\ \A m \in Posts \ {n} : posts'[m] = posts[m]
    BY <1>3 DEF Shape, TypeOK
  <2>3. \A m \in Posts : m > sent => posts'[m] = NoPost
    BY <1>2, <2>2 DEF Shape, TypeOK, Posts
  <2>4. \A m \in Posts : posts'[m] # NoPost /\ posts'[m].decision = "to_module"
            => role = "employee"
    BY <1>1, <1>3, <2>2 DEF Shape, p
  <2> QED
    BY <1>3, <2>1, <2>3, <2>4
<1>4. dialog # NoDialog => dialog \in DialogRecords
  BY DEF Shape
<1>5. CASE Serve(n)
  <2>1. UNCHANGED <<item, fetch, fact, entered, note, dialog, sent, moves>>
    BY <1>5 DEF Serve, drafts
  <2>2. PICK q : posts' = [posts EXCEPT ![n] = q] /\ q \in PostRecords /\ q.decision = p.decision
    <3>1. CASE Refuses(p)
      <4>1. posts' = [posts EXCEPT ![n] = [p EXCEPT !.state = "refused"]]
        BY <1>5, <3>1 DEF Serve
      <4>2. [p EXCEPT !.state = "refused"] \in PostRecords
        BY <1>1 DEF PostRecords
      <4>3. [p EXCEPT !.state = "refused"].decision = p.decision
        BY <1>1 DEF PostRecords
      <4> QED
        BY <4>1, <4>2, <4>3
    <3>2. CASE ~Refuses(p)
      <4> DEFINE q == [[p EXCEPT !.state = "done"] EXCEPT !.answer = Stored(p)]
      <4>1. posts' = [posts EXCEPT ![n] = q]
        BY <1>5, <3>2 DEF Serve, Shape, TypeOK
      <4>2. q \in PostRecords /\ q.decision = p.decision
        BY <1>1, StoredTyped DEF PostRecords
      <4> QED
        BY <4>1, <4>2
    <3> QED
      BY <3>1, <3>2
  <2>3. db' \in Rows
    BY <1>1, <1>5, StoredTyped DEF Serve, Shape, TypeOK
  <2> QED
    BY <1>3, <2>1, <2>2, <2>3 DEF Shape, TypeOK
<1>6. ASSUME NEW d, posts' = [posts EXCEPT ![n] = NoPost],
             dialog' = d, d = NoDialog \/ d = dialog \/ d = [dialog EXCEPT !.saving = FALSE],
             fetch' \in {fetch, Asked}, item' \in Rows, fact' \in Sums, entered' \in BOOLEAN,
             note' \in Notes, UNCHANGED <<db, sent, moves>>
      PROVE  Shape'
  <2>1. /\ posts' \in [Posts -> {NoPost} \cup PostRecords]
        /\ \A m \in Posts : m > sent' => posts'[m] = NoPost
        /\ \A m \in Posts : posts'[m] # NoPost /\ posts'[m].decision = "to_module"
              => role = "employee"
    BY <1>3, <1>6
  <2>2. /\ dialog' \in {NoDialog} \cup DialogRecords
        /\ dialog' # NoDialog => dialog'.decision = dialog.decision /\ dialog # NoDialog
    <3>1. CASE dialog = NoDialog
      BY <1>6, <3>1 DEF NoDialog
    <3>2. CASE dialog \in DialogRecords
      BY <1>6, <3>2 DEF NoDialog, DialogRecords
    <3> QED
      BY <3>1, <3>2, <1>4
  <2>3. dialog' # NoDialog =>
          /\ dialog'.row \in Rows /\ dialog'.decision \in Decisions \cup {"to_module"}
          /\ dialog'.amount \in Amounts /\ dialog'.note \in Notes
    BY <2>2 DEF DialogRecords
  <2>4. TypeOK'
    BY <1>6, <2>1, <2>3 DEF Shape, TypeOK
  <2> QED
    BY <2>1, <2>2, <2>4 DEF Shape
<1>7. CASE Succeeded(n)
  <2>1. /\ posts' = [posts EXCEPT ![n] = NoPost] /\ dialog' \in {NoDialog, dialog}
        /\ fetch' = Asked /\ UNCHANGED <<db, sent, moves>>
        /\ Show(Patched(p)) \/ UNCHANGED <<item, fact, entered, note>>
    BY <1>7 DEF Succeeded, CloseDialog, drafts
  <2>2. Patched(p) \in Rows
    <3>1. /\ p.answer.status \in {"on_review"} \cup Choices /\ p.answer.sum \in Sums
          /\ item \in Rows /\ 0 \in Sums
      BY <1>2, EditorAssumption DEF Rows, Shape, TypeOK, Sums
    <3> QED
      BY <3>1 DEF Patched, Rows
  <2>3. item' \in Rows /\ fact' \in Sums /\ entered' \in BOOLEAN /\ note' \in Notes
    BY <2>1, <2>2, ShownTyped DEF Shape, TypeOK
  <2> QED
    BY <1>6, <2>1, <2>3
<1>8. CASE Failed(n)
  <2>1. /\ posts' = [posts EXCEPT ![n] = NoPost]
        /\ dialog' = dialog \/ dialog' = [dialog EXCEPT !.saving = FALSE]
        /\ note' \in {item.comment, note} /\ UNCHANGED <<db, item, fetch, fact, entered, sent, moves>>
    BY <1>8 DEF Failed
  <2>2. /\ item' \in Rows /\ fact' \in Sums /\ entered' \in BOOLEAN /\ note' \in Notes
    BY <2>1 DEF Shape, TypeOK, Rows
  <2> QED
    BY <1>6, <2>1, <2>2
<1> QED
  BY <1>5, <1>7, <1>8

LEMMA ShapeNext == Shape /\ [Next]_vars => Shape'
<1>1. Shape /\ Next => Shape'
  BY TypeShape, ActShape, AnsweredShape, RowsShape, MovedShape DEF Next
<1>2. Shape /\ UNCHANGED vars => Shape'
  BY DEF vars, drafts, Shape, TypeOK
<1> QED
  BY <1>1, <1>2

-----------------------------------------------------------------------------
(* What is posted is meant *)

LEMMA MeantPosted ==
    ASSUME Shape, ChangesExplained, ApprovedIsThePlan,
           NEW op, NEW row, NEW decision, NEW amount, NEW text,
           Post(op, row, decision, amount, text),
           decision \in Changed => text # Empty,
           decision = "approved" => amount \in {Blank, row.plan}
    PROVE  ChangesExplained' /\ ApprovedIsThePlan'
<1> DEFINE new == [state |-> "sent", op |-> op, row |-> row, decision |-> decision,
                   amount |-> amount, note |-> text, answer |-> row]
<1>1. /\ posts'[sent + 1] = new
      /\ \A n \in Posts : n # sent + 1 => posts'[n] = posts[n]
  BY PostAdded
<1>2. /\ new.decision \in Changed => new.note # Empty
      /\ new.decision = "approved" => new.amount \in {Blank, new.row.plan}
  OBVIOUS
<1> HIDE DEF new
<1>3. ChangesExplained'
  BY <1>1, <1>2 DEF ChangesExplained
<1>4. ApprovedIsThePlan'
  BY <1>1, <1>2 DEF ApprovedIsThePlan, Blank
<1> QED
  BY <1>3, <1>4

\* An answer leaves the decision of a post and what goes with it alone.
LEMMA MeantAnswered ==
    ASSUME Shape, ChangesExplained, ApprovedIsThePlan, Answered
    PROVE  ChangesExplained' /\ ApprovedIsThePlan'
<1> PICK n \in Posts : Serve(n) \/ Succeeded(n) \/ Failed(n)
  BY DEF Answered
<1>1. posts[n] # NoPost /\ posts[n] \in PostRecords
  BY DEF Serve, Succeeded, Failed, Shape, TypeOK, NoPost
<1>2. PICK q : /\ posts' = [posts EXCEPT ![n] = q]
               /\ q # NoPost => /\ q.decision = posts[n].decision /\ q.note = posts[n].note
                                /\ q.amount = posts[n].amount /\ q.row = posts[n].row
  <2>1. CASE Serve(n) /\ Refuses(posts[n])
    <3> DEFINE q == [posts[n] EXCEPT !.state = "refused"]
    <3>1. posts' = [posts EXCEPT ![n] = q]
      BY <2>1 DEF Serve
    <3>2. /\ q.decision = posts[n].decision /\ q.note = posts[n].note
          /\ q.amount = posts[n].amount /\ q.row = posts[n].row
      BY <1>1 DEF PostRecords
    <3> QED
      BY <3>1, <3>2
  <2>2. CASE Serve(n) /\ ~Refuses(posts[n])
    <3> DEFINE q == [[posts[n] EXCEPT !.state = "done"] EXCEPT !.answer = Stored(posts[n])]
    <3>1. posts' = [posts EXCEPT ![n] = q]
      BY <2>2 DEF Serve, Shape, TypeOK
    <3>2. /\ q.decision = posts[n].decision /\ q.note = posts[n].note
          /\ q.amount = posts[n].amount /\ q.row = posts[n].row
      BY <1>1 DEF PostRecords
    <3> QED
      BY <3>1, <3>2
  <2>3. CASE Succeeded(n) \/ Failed(n)
    BY <2>3 DEF Succeeded, Failed
  <2> QED
    BY <2>1, <2>2, <2>3
<1>3. posts'[n] = q /\ \A m \in Posts \ {n} : posts'[m] = posts[m]
  BY <1>2 DEF Shape, TypeOK
<1>4. ChangesExplained'
  BY <1>1, <1>2, <1>3 DEF ChangesExplained
<1>5. ApprovedIsThePlan'
  BY <1>1, <1>2, <1>3 DEF ApprovedIsThePlan, Blank
<1> QED
  BY <1>4, <1>5

LEMMA MeantConfirm ==
    ASSUME Shape, ChangesExplained, ApprovedIsThePlan, Confirm
    PROVE  ChangesExplained' /\ ApprovedIsThePlan'
<1>1. NeedsComment(dialog) => dialog.note # Empty
  BY DEF Confirm
<1>2. CASE dialog.decision = "to_module"
  <2>1. Post("package", dialog.row, "to_module", Blank, dialog.note)
    BY <1>2 DEF Confirm
  <2>2. NeedsComment(dialog)
    BY <1>2 DEF NeedsComment, Meant, Resolved, Changed
  <2> QED
    BY <1>1, <2>1, <2>2, MeantPosted
<1>3. CASE dialog.decision # "to_module"
  <2> DEFINE d == Resolved(Meant(dialog), Adjusted(dialog), dialog.row.plan)
  <2>1. Post("modal", dialog.row, d, Adjusted(dialog), dialog.note)
    BY <1>3 DEF Confirm, PostDecision
  <2>2. d = Meant(dialog) /\ (d = "approved" => Adjusted(dialog) \in {Blank, dialog.row.plan})
    BY DEF Meant, Resolved
  <2> HIDE DEF d
  <2>3. d \in Changed => dialog.note # Empty
    BY <1>1, <2>2 DEF NeedsComment
  <2> QED
    BY <2>1, <2>2, <2>3, MeantPosted
<1> QED
  BY <1>2, <1>3

LEMMA MeantNext ==
    Shape /\ ChangesExplained /\ ApprovedIsThePlan /\ [Next]_vars
        => ChangesExplained' /\ ApprovedIsThePlan'
<1> SUFFICES ASSUME Shape, ChangesExplained, ApprovedIsThePlan, [Next]_vars
             PROVE  ChangesExplained' /\ ApprovedIsThePlan'
    OBVIOUS
<1>1. CASE UNCHANGED posts
  BY <1>1 DEF ChangesExplained, ApprovedIsThePlan, Blank
<1>2. CASE Type
  <2>1. ASSUME NEW t \in Notes, SaveComment(t) PROVE ChangesExplained' /\ ApprovedIsThePlan'
    <3>1. Post("comment", item, "none", Blank, t)
      BY <2>1 DEF SaveComment
    <3> QED
      BY <3>1, MeantPosted DEF Changed
  <2>2. UNCHANGED posts \/ \E t \in Notes : SaveComment(t)
    BY <1>2 DEF Type, TypeFact, TypeAmount, CancelFact, TypeNote, Choose, Change
  <2> QED
    BY <1>1, <2>1, <2>2
<1>3. CASE Act
  <2>1. CASE Approve
    <3>1. UNCHANGED posts \/ (PointAmount = item.plan
                                /\ PostDecision("row", item, "approved", PointAmount, note))
      BY <2>1 DEF Approve, Open
    <3>2. CASE PointAmount = item.plan /\ PostDecision("row", item, "approved", PointAmount, note)
      <4>1. Post("row", item, "approved", PointAmount, note)
        BY <3>2 DEF PostDecision, Resolved
      <4> QED
        BY <3>2, <4>1, MeantPosted DEF Changed
    <3> QED
      BY <1>1, <3>1, <3>2
  <2>2. UNCHANGED posts \/ Approve \/ Confirm
    BY <1>3 DEF Act, Reject, MarkForRevision, ReturnToModule, ApproveSelected, Open, Cancel, Change
  <2> QED
    BY <1>1, <2>1, <2>2, MeantConfirm
<1>4. UNCHANGED posts \/ Type \/ Act \/ Answered
  BY DEF Next, vars, ServeRows, ReceiveRows, MovedElsewhere
<1> QED
  BY <1>1, <1>2, <1>3, <1>4, MeantAnswered

\* Whatever the user types, chooses and takes back, and however the answers and
\* the refetches come in between: nothing is rejected, corrected or returned
\* without a comment, and "approved" goes out for no other amount than the plan.
THEOREM PostsAreMeant == Spec => []PostsMeant
<1>1. Init => Shape /\ ChangesExplained /\ ApprovedIsThePlan
  BY ShapeInit DEF Init, ChangesExplained, ApprovedIsThePlan
<1>2. Shape /\ ChangesExplained /\ ApprovedIsThePlan /\ [Next]_vars
        => (Shape /\ ChangesExplained /\ ApprovedIsThePlan)'
  BY ShapeNext, MeantNext
<1>3. Shape /\ ChangesExplained /\ ApprovedIsThePlan => PostsMeant
  BY DEF Shape, PostsMeant
<1> QED
  BY <1>1, <1>2, <1>3, PTL DEF Spec

-----------------------------------------------------------------------------
(* What the cell shows counts, and what is quiet is fresh *)

\* A fact the cell shows beside the stored one was entered by the user: no
\* answer and no refetch leaves an old draft beside a new row.
THEOREM FactCounts == Spec => []ShownFactCounts
<1>1. Init => ShownFactCounts
  BY DEF Init, ShownFactCounts, NoDialog
<1>2. ShownFactCounts /\ [Next]_vars => ShownFactCounts'
  <2> SUFFICES ASSUME ShownFactCounts, [Next]_vars PROVE ShownFactCounts'
      OBVIOUS
  <2>1. UNCHANGED role
    BY DEF Next, vars
  <2>2. CASE UNCHANGED <<item, fact, entered>>
    BY <2>1, <2>2 DEF ShownFactCounts
  <2>3. ASSUME NEW r, Show(r) PROVE ShownFactCounts'
    BY <2>1, <2>3 DEF Show, drafts, ShownFactCounts
  <2>4. CASE (\E x \in Sums : TypeFact(x)) \/ CancelFact
    BY <2>1, <2>4 DEF TypeFact, CancelFact, ShownFactCounts
  <2>5. Type => \/ (\E x \in Sums : TypeFact(x)) \/ CancelFact
                \/ UNCHANGED <<item, fact, entered>>
    BY DEF Type, TypeAmount, TypeNote, Choose, Change, SaveComment, drafts
  <2>6. Act => UNCHANGED <<item, fact, entered>>
    BY DEF Act, Approve, Reject, MarkForRevision, ReturnToModule, ApproveSelected, Open, Confirm,
        Cancel, Change, drafts
  <2>7. Answered => (\E r : Show(r)) \/ UNCHANGED <<item, fact, entered>>
    BY DEF Answered, Serve, Succeeded, Failed, drafts
  <2>8. \/ Type \/ Act \/ Answered \/ (\E r : Show(r)) \/ UNCHANGED <<item, fact, entered>>
    BY DEF Next, vars, drafts, ServeRows, ReceiveRows, MovedElsewhere
  <2> QED
    BY <2>2, <2>3, <2>4, <2>5, <2>6, <2>7, <2>8
<1> QED
  BY <1>1, <1>2, PTL DEF Spec

\* As long as nobody else has a hand in it, the row of the server is on screen,
\* has been read for it, or is going to be read: after the answer of a post that
\* was taken, or at once
OnItsWay ==
    moves = 0 =>
        \/ \E n \in Posts : posts[n].state = "done"
        \/ fetch = Asked
        \/ fetch.state = "read" /\ fetch.row = db
        \/ fetch = Idle /\ item = db

LEMMA OnItsWayNext == Shape /\ OnItsWay /\ [Next]_vars => OnItsWay'
<1> SUFFICES ASSUME Shape, OnItsWay, [Next]_vars PROVE OnItsWay'
    OBVIOUS
<1>0. moves' = 0 => moves = 0
  <2>1. moves \in Nat
    BY EditorAssumption DEF Shape, TypeOK
  <2>2. Type \/ Act => moves' = moves
    BY DEF Type, Act, TypeFact, CancelFact, TypeAmount, TypeNote, Choose, Change, SaveComment,
        Approve, Reject, MarkForRevision, ReturnToModule, ApproveSelected, Open, Confirm, Cancel
  <2>3. Answered \/ ServeRows \/ ReceiveRows \/ UNCHANGED vars => moves' = moves
    BY DEF Answered, Serve, Succeeded, Failed, ServeRows, ReceiveRows, vars
  <2>4. (\E row \in Rows : MovedElsewhere(row)) => moves' = moves + 1
    BY DEF MovedElsewhere
  <2> QED
    BY <2>1, <2>2, <2>3, <2>4 DEF Next
<1> SUFFICES ASSUME moves = 0, moves' = 0 PROVE OnItsWay'
    BY <1>0 DEF OnItsWay
<1>1. CASE /\ UNCHANGED <<db, item, fetch>>
           /\ \A n \in Posts : posts[n].state = "done" => posts'[n].state = "done"
  BY <1>1 DEF OnItsWay
<1>2. ASSUME NEW op, NEW row, NEW decision, NEW amount, NEW text,
             Post(op, row, decision, amount, text)
      PROVE  \A n \in Posts : posts[n].state = "done" => posts'[n].state = "done"
  <2>1. posts[sent + 1] = NoPost /\ \A n \in Posts : n # sent + 1 => posts'[n] = posts[n]
    BY <1>2, PostAdded
  <2> QED
    BY <2>1 DEF NoPost
<1>3. CASE Type
  <2>1. UNCHANGED <<db, item, fetch>> /\ (UNCHANGED posts \/
             \E t \in Notes : Post("comment", item, "none", Blank, t))
    BY <1>3 DEF Type, TypeFact, CancelFact, TypeAmount, TypeNote, Choose, Change, SaveComment
  <2> QED
    BY <1>1, <1>2, <2>1
<1>4. CASE Act
  <2>1. UNCHANGED <<db, item, fetch>>
    BY <1>4 DEF Act, Approve, Reject, MarkForRevision, ReturnToModule, ApproveSelected, Open,
        Confirm, Cancel, Change
  <2>2. UNCHANGED posts \/ \E op, row, decision, amount, text : Post(op, row, decision, amount, text)
    BY <1>4 DEF Act, Approve, Reject, MarkForRevision, ReturnToModule, ApproveSelected, Open,
        Confirm, Cancel, Change, PostDecision
  <2> QED
    BY <1>1, <1>2, <2>1, <2>2
<1>5. ASSUME NEW n \in Posts, Serve(n) PROVE OnItsWay'
  <2>1. posts[n] \in PostRecords /\ posts[n].state = "sent"
    BY <1>5 DEF Serve, Shape, TypeOK, NoPost
  <2>2. CASE Refuses(posts[n])
    <3>1. posts' = [posts EXCEPT ![n].state = "refused"] /\ UNCHANGED <<db, item, fetch>>
      BY <1>5, <2>2 DEF Serve
    <3>2. \A m \in Posts : posts[m].state = "done" => posts'[m].state = "done"
      BY <2>1, <3>1 DEF Shape, TypeOK
    <3> QED
      BY <1>1, <3>1, <3>2
  <2>3. CASE ~Refuses(posts[n])
    <3>1. posts' = [posts EXCEPT ![n] = [[posts[n] EXCEPT !.state = "done"]
                                            EXCEPT !.answer = Stored(posts[n])]]
      BY <1>5, <2>3 DEF Serve, Shape, TypeOK
    <3>2. posts'[n].state = "done"
      BY <2>1, <3>1 DEF Shape, TypeOK, PostRecords
    <3> QED
      BY <3>2 DEF OnItsWay
  <2> QED
    BY <2>2, <2>3
<1>6. ASSUME NEW n \in Posts, Succeeded(n) PROVE OnItsWay'
  BY <1>6 DEF Succeeded, OnItsWay
<1>7. ASSUME NEW n \in Posts, Failed(n) PROVE OnItsWay'
  <2>1. /\ posts[n].state = "refused" /\ posts' = [posts EXCEPT ![n] = NoPost]
        /\ UNCHANGED <<db, item, fetch>>
    BY <1>7 DEF Failed
  <2>2. \A m \in Posts : posts[m].state = "done" => posts'[m].state = "done"
    BY <2>1 DEF Shape, TypeOK
  <2> QED
    BY <1>1, <2>1, <2>2
<1>8. CASE ServeRows
  <2>1. fetch' = Read(db) /\ db' = db
    BY <1>8 DEF ServeRows
  <2>2. fetch'.state = "read" /\ fetch'.row = db'
    BY <2>1 DEF Read
  <2> QED
    BY <2>2 DEF OnItsWay
<1>9. CASE ReceiveRows
  <2>1. /\ fetch.state = "read" /\ fetch' = Idle /\ item' = fetch.row /\ UNCHANGED <<db, posts>>
    BY <1>9 DEF ReceiveRows, Show
  <2> QED
    BY <2>1 DEF OnItsWay, Asked, Idle
<1>10. UNCHANGED vars => UNCHANGED <<db, item, fetch, posts>>
  BY DEF vars
<1>11. ~\E row \in Rows : MovedElsewhere(row)
  BY DEF MovedElsewhere
<1> QED
  BY <1>1, <1>3, <1>4, <1>5, <1>6, <1>7, <1>8, <1>9, <1>10, <1>11 DEF Next, Answered

\* With everything sent answered and nothing to fetch the row on screen is the
\* row of the server, however many decisions were under way at once.
THEOREM QuietRowIsFresh == Spec => []QuietIsFresh
<1>1. Init => Shape /\ OnItsWay
  BY ShapeInit DEF Init, OnItsWay
<1>2. Shape /\ OnItsWay /\ [Next]_vars => (Shape /\ OnItsWay)'
  BY ShapeNext, OnItsWayNext
<1>3. Shape /\ OnItsWay => QuietIsFresh
  BY DEF OnItsWay, QuietIsFresh, NoPost, Idle, Asked
<1> QED
  BY <1>1, <1>2, <1>3, PTL DEF Spec

===============================================================================
