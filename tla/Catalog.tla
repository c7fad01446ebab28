------------------------------- MODULE Catalog -------------------------------
(***************************************************************************)
(* The reference lists of articles and their categories: the page          *)
(* (pages/CatalogsPage.tsx) over catalog_service.py and the import of      *)
(* excel_service.py.  A department has articles, an article categories.    *)
(* Rows typed in the dialog are stored by one call after the other, from   *)
(* the list as it was shown; a file is planned on the server and stored as *)
(* a whole, after a preview.  Others edit categories meanwhile.  The lists *)
(* of articles and of projects are alike, one of them is modelled.         *)
(***************************************************************************)
EXTENDS Naturals, Sequences, FiniteSets

CONSTANTS
    Ids,       \* the ids there are for entries
    Names, Departments, Null,
    TypedRows, \* the sequences of rows that are typed
    Files,     \* and the files, each a sequence of rows
    Lists,     \* the lists to begin with
    MaxCommands,  \* bound on the commands
    MaxFailures   \* bound on the calls that fail without reason

VARIABLES
    items,     \* the list at the server: an entry for every id that was given
    used,      \* entries that requests refer to
    view,      \* the last answer
    old,       \* it was invalidated
    open,      \* the dialog is open
    file, preview, previewing, \* the file chosen, the one whose preview is shown, and those
               \* that are being read
    save,      \* the rows that are being stored: left, known (the entries the loop knows),
               \* and the list as an import of the rows would leave it, if nobody interferes
    saved,     \* history: the last rows were stored, and what an import would have left
    commands, failures

catalogVars == <<items, used, view, old, open, file, preview, previewing, save, saved, commands, failures>>
list         == <<items, used>>
importDialog == <<open, file, preview, previewing>>

\* An article has no parent, and a blank cell no category
Entry == [parent : Ids \cup {Null}, name : Names, dep : Departments, active : BOOLEAN]
Row   == [name : Names, cat : Names \cup {Null}, dep : Departments, active : BOOLEAN]

\* Ids that were not given yet, and those whose entry is deleted: no id is given twice
Fresh == [parent |-> Null, name |-> Null, dep |-> Null, active |-> FALSE]
Gone  == [parent |-> Null, name |-> Null, dep |-> Null, active |-> TRUE]

NoEntries == [i \in Ids |-> Fresh]
Resting == [left |-> <<>>, known |-> NoEntries, import |-> Null]

-----------------------------------------------------------------------------
(* The list at the server *)

Live(its) == {i \in Ids : its[i].name # Null}
Free(its) == {i \in Ids : its[i] = Fresh}
New(its)  == CHOOSE i \in Free(its) : TRUE
Add(its, parent, name, dep, active) ==
    [its EXCEPT ![New(its)] = [parent |-> parent, name |-> name, dep |-> dep, active |-> active]]
\* Ids for an article and a category each
Room(its, n) == Cardinality(Free(its)) >= 2 * n

Kids(its, a) == {i \in Ids : its[i].parent = a}

\* Articles of a department, categories of an article, by name
Find(its, parent, dep, name) ==
    {i \in Ids : its[i].parent = parent /\ its[i].dep = dep /\ its[i].name = name}

\* _ensure_unique_item, the entry itself apart
Twins(its, i, name) == Find(its, its[i].parent, its[i].dep, name) \ {i}

\* _create_default_category: while the article has no other
WithDefault(its, a) ==
    IF Kids(its, a) = {} THEN Add(its, a, its[a].name, its[a].dep, its[a].active) ELSE its

\* A row of _catalog_import_plan: its article, and the category in it
WithArticle(its, r) ==
    IF Find(its, Null, r.dep, r.name) = {} THEN Add(its, Null, r.name, r.dep, TRUE) ELSE its
ArticleOf(its, r) == CHOOSE a \in Find(its, Null, r.dep, r.name) : TRUE
WithCategory(its, a, r) ==
    LET name == IF r.cat = Null THEN r.name ELSE r.cat
        leaf == Find(its, a, r.dep, name)
    IN  IF r.cat = Null /\ Kids(its, a) # {} THEN its
        ELSE IF leaf = {} THEN Add(its, a, name, r.dep, r.active)
        ELSE [i \in Ids |-> IF i \in leaf THEN [its[i] EXCEPT !.active = r.active] ELSE its[i]]
Planned(its, r) ==
    LET with == WithArticle(its, r) IN WithCategory(with, ArticleOf(with, r), r)

\* Row by row, each on what the rows before it have left
Imported(its, rows) ==
    LET After[n \in 0 .. Len(rows)] == IF n = 0 THEN its ELSE Planned(After[n - 1], rows[n])
    IN  After[Len(rows)]

\* What a list says, whatever the ids
Said(its) ==
    {[dep |-> its[i].dep, name |-> its[i].name,
      of |-> IF its[i].parent = Null THEN Null ELSE its[its[i].parent].name] : i \in Live(its)}

\* A list as the server keeps it: a category is in an article of its department,
\* and no two entries of a name are beside each other
Tree(its) ==
    /\ its \in [Ids -> Entry \cup {Fresh, Gone}]
    /\ \A i \in Live(its) :
        LET a == its[i].parent
        IN  a # Null => a \in Live(its) /\ its[a].parent = Null /\ its[a].dep = its[i].dep
Unique(its) ==
    \A i, j \in Live(its) :
        its[i].parent = its[j].parent /\ its[i].dep = its[j].dep /\ its[i].name = its[j].name => i = j

ASSUME CatalogAssumption ==
    /\ IsFiniteSet(Ids) /\ Null \notin Ids \cup Names
    /\ \A rows \in TypedRows : rows \in Seq(Row) /\ rows # <<>>
    /\ \A f \in DOMAIN Files : Files[f] \in Seq(Row)
    /\ \A its \in Lists : Tree(its) /\ Unique(its)
    /\ MaxCommands \in Nat /\ MaxFailures \in Nat

CatalogInit ==
    /\ items \in Lists /\ used = {} /\ view = items /\ old = FALSE
    /\ open = FALSE /\ file = Null /\ preview = Null /\ previewing = {}
    /\ save = Resting /\ saved = Null /\ commands = 0 /\ failures = 0

Command == commands < MaxCommands /\ commands' = commands + 1
Fail == failures < MaxFailures /\ failures' = failures + 1

Refetch ==
    /\ old /\ old' = FALSE /\ view' = items
    /\ UNCHANGED <<list, importDialog, save, saved, commands, failures>>

-----------------------------------------------------------------------------
(* The table of the page, and whoever else edits the list *)

Disturbed == IF save = Resting THEN Resting ELSE [save EXCEPT !.import = Null]

Changed(its) ==
    /\ Command /\ items' = its /\ old' = TRUE /\ save' = Disturbed /\ saved' = Null
    /\ UNCHANGED <<used, view, importDialog, failures>>

\* The table sends the name and whether the entry is active, whichever of them was
\* changed: an old table brings back an old one
Update(i, name, active) ==
    /\ i \in Live(items) /\ (name # items[i].name \/ active # items[i].active)
    /\ Twins(items, i, name) = {}
    /\ Changed([items EXCEPT ![i] = [@ EXCEPT !.name = name, !.active = active]])

\* delete_catalog: an article goes after its categories, a used entry never
MayDelete(i) == Kids(items, i) = {} /\ i \notin used

Delete(i) == i \in Live(items) /\ MayDelete(i) /\ Changed([items EXCEPT ![i] = Gone])

\* The dialog of a category
AddCategory(a, name) ==
    /\ Room(items, 1) /\ a \in Live(items) /\ items[a].parent = Null
    /\ Find(items, a, items[a].dep, name) = {}
    /\ Changed(Add(items, a, name, items[a].dep, TRUE))

\* A line of a request takes an active category
Use(i) ==
    /\ i \in Live(items) /\ items[i].active /\ items[i].parent # Null /\ used' = used \cup {i}
    /\ UNCHANGED <<items, view, old, importDialog, save, saved, commands, failures>>

-----------------------------------------------------------------------------
(* The file *)

Open ==
    /\ ~open /\ open' = TRUE
    /\ UNCHANGED <<list, view, old, file, preview, previewing, save, saved, commands, failures>>

\* Closing forgets the file and its preview, not what is under way
Close ==
    /\ open /\ open' = FALSE /\ file' = Null /\ preview' = Null
    /\ UNCHANGED <<list, view, old, previewing, save, saved, commands, failures>>

\* The button is closed while a file is being read
MayChoose == previewing = {}

Choose(f) ==
    /\ open /\ MayChoose /\ Command /\ file' = f /\ preview' = Null /\ previewing' = previewing \cup {f}
    /\ UNCHANGED <<list, view, old, open, save, saved, failures>>

Preview(f) ==
    /\ f \in previewing /\ previewing' = previewing \ {f}
    /\ \/ preview' = f /\ UNCHANGED failures
       \/ Fail /\ UNCHANGED preview
    /\ UNCHANGED <<list, view, old, open, file, save, saved, commands>>

\* The server plans anew, and stores all or nothing
Commit ==
    /\ open /\ file # Null /\ preview # Null /\ Room(items, Len(Files[file]))
    /\ items' = Imported(items, Files[file]) /\ old' = TRUE
    /\ open' = FALSE /\ file' = Null /\ preview' = Null
    /\ save' = Disturbed /\ saved' = Null
    /\ UNCHANGED <<used, view, previewing, commands, failures>>

-----------------------------------------------------------------------------
(* The rows *)

\* The page shows the list as it is
ShownAsIs == Live(view) = Live(items) /\ \A i \in Live(items) : view[i] = items[i]

\* The loop knows the entries of the department on the page
SaveRows(dep, rows) ==
    /\ open /\ save = Resting /\ Command /\ Room(items, Len(rows))
    /\ save' = [left |-> rows,
                known |-> [i \in Ids |-> IF view[i].dep = dep THEN view[i] ELSE Fresh],
                import |-> IF ShownAsIs THEN Said(Imported(items, rows)) ELSE Null]
    /\ saved' = Null
    /\ UNCHANGED <<list, view, old, importDialog, failures>>

Typed == Head(save.left)
Article == Find(save.known, Null, Typed.dep, Typed.name)
Category == {i \in Ids : save.known[i].parent \in Article /\ save.known[i].name = Typed.cat}

\* What an answer brings, beside what is known
Learnt(its) == [save.known EXCEPT ![New(items)] = its[New(items)]]

\* After the last row the list is read anew
NextRow(known) ==
    IF Len(save.left) > 1
    THEN save' = [save EXCEPT !.left = Tail(@), !.known = known] /\ UNCHANGED <<saved, old>>
    ELSE save' = Resting /\ saved' = save.import /\ old' = TRUE

\* A refusal ends the loop: earlier rows are stored, nothing is read anew
FailRows == save' = Resting /\ UNCHANGED <<items, old, saved>>

Storing == save # Resting /\ UNCHANGED <<used, view, importDialog, commands>>

\* Mutant: every new article gets its category
WantsDefaultAlways(r) == TRUE

\* create_default_category: "only for a blank Category cell"
WantsDefault(r) == r.cat = Null

PostArticle ==
    /\ Storing /\ Room(items, 1) /\ Article = {} /\ UNCHANGED failures
    /\ IF Find(items, Null, Typed.dep, Typed.name) # {} THEN FailRows
       ELSE LET with == Add(items, Null, Typed.name, Typed.dep, Typed.active)
            IN  /\ items' = IF WantsDefault(Typed) THEN WithDefault(with, New(items)) ELSE with
                /\ save' = [save EXCEPT !.known = Learnt(with)]
                /\ UNCHANGED <<saved, old>>

PostDefault ==
    /\ Storing /\ Free(items) # {} /\ Article # {} /\ Typed.cat = Null /\ UNCHANGED failures
    /\ \E a \in Article :
        IF a \in Live(items) THEN items' = WithDefault(items, a) /\ NextRow(save.known) ELSE FailRows

PostCategory ==
    /\ Storing /\ Free(items) # {} /\ UNCHANGED failures
    /\ Article # {} /\ Typed.cat # Null /\ Category = {}
    /\ \E a \in Article :
        IF a \in Live(items) /\ Find(items, a, Typed.dep, Typed.cat) = {}
        THEN LET with == Add(items, a, Typed.cat, Typed.dep, Typed.active)
             IN  items' = with /\ NextRow(Learnt(with))
        ELSE FailRows

\* What the loop knows of a category stays as it was read
PatchCategory ==
    /\ Storing /\ Category # {} /\ UNCHANGED failures
    /\ \E i \in Category :
        IF save.known[i].active = Typed.active THEN UNCHANGED items /\ NextRow(save.known)
        ELSE IF i \in Live(items)
             THEN /\ items' = [items EXCEPT ![i] = [@ EXCEPT !.active = Typed.active]]
                  /\ NextRow(save.known)
             ELSE FailRows

FailPost == Storing /\ Fail /\ FailRows

-----------------------------------------------------------------------------
CatalogNext ==
    \/ Refetch \/ Open \/ Close \/ Commit
    \/ PostArticle \/ PostDefault \/ PostCategory \/ PatchCategory \/ FailPost
    \/ \E f \in DOMAIN Files : Choose(f) \/ Preview(f)
    \/ \E i \in Ids :
        \/ Delete(i) \/ Use(i)
        \/ \E n \in Names : AddCategory(i, n) \/ \E b \in BOOLEAN : Update(i, n, b)
    \/ \E d \in Departments, rows \in TypedRows : SaveRows(d, rows)

CatalogSpec == CatalogInit /\ [][CatalogNext]_catalogVars

-----------------------------------------------------------------------------
(* Properties *)

CatalogTypeOK ==
    /\ Tree(items) /\ Tree(view) /\ used \subseteq Live(items)
    /\ old \in BOOLEAN /\ open \in BOOLEAN
    /\ {file, preview} \subseteq DOMAIN Files \cup {Null} /\ previewing \subseteq DOMAIN Files
    /\ save.left \in Seq(Row) /\ save.known \in [Ids -> Entry \cup {Fresh, Gone}]
    /\ commands \in 0 .. MaxCommands /\ failures \in 0 .. MaxFailures

\* No department has two articles of a name, no article two categories, however many rows
\* and files are stored, retried and renamed.
NoTwins == Unique(items)

\* Rows that were stored one by one have left the list an import of them would have left,
\* when the page showed the list as it was and nobody else edited it meanwhile.
RowsAsImported == saved # Null => Said(items) = saved

\* The file that the button imports is the one whose preview is shown, whenever the dialog
\* was closed, and files chosen, while another one was being read.
ImportsWhatItShows == open /\ file # Null /\ preview # Null => file = preview

\* No article and no category is there twice, rows stored one by one leave the list that an
\* import of them leaves, and the file that is imported is the one whose preview is shown.
ListsAsImported == CatalogTypeOK /\ NoTwins /\ RowsAsImported /\ ImportsWhatItShows

=============================================================================
