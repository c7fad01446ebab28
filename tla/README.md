# Verification of the BudgetBasket approval workflow and its browser client

BudgetBasket collects the budget of a company: every *module* (a unit) writes a
*request* for a year, its *lines* name an article and a sum. The responsible of
the *CFO* (financial responsibility centre) reviews the requests of the CFO's
modules line by line; the lines of one article, from all modules, form a *CFO
position*, and the positions travel up an approval route: CFO, economist,
reviewers, ZGD (deputy general director), who fixes them. At every step lines
may be returned one step down, and from the CFO to their module.

The server keeps the rules. The browser decides when to ask it, in which order
and with what it remembers of earlier answers; most of the code, and most of
what is hard to test, is there. The project models both in TLA+, checks them with
TLC on small instances and proves central invariants with TLAPS for every
instance. Paths are relative to `src/`; `R`, `B`, `A` stand for
`backend/app/services/request_service.py`, `budget_item_service.py` and
`approval_service.py`, `AR` for `frontend/src/components/ApprovalRegister.tsx`.

## Inventory

| Part | State it keeps | Operations | Interacts with | What is hard |
|---|---|---|---|---|
| Requests (`R`) | `requests`, `req_logs` | create, delete, submit, resubmit, complete the CFO review | lines, positions, route | state spread over logs; cached reads before a lock |
| Lines (`B`) | `req_items`, month plans | create, edit, delete, CFO decision, revision package | requests, positions | checks outside the transaction; a line is in a request and in a position at once |
| Positions (`A`) | `cfo_positions`, `cfo_position_logs` | hand to the economist, decide, complete, freeze, forward, approve, return, fix, unfix | lines, requests, route | partial returns; stale decisions; late lines |
| Route (`A`) | `steps`, `step_edges` | edit steps and edges, assign, automatic edges | positions, units | edits under a page that is behind; automatic edges against edges drawn by hand |
| Register (`R`, `register_query_service.py`) | none | rows, groups, flags, values of a filter | everything above | the flags are a second translation of the rules of the handlers |
| Units, users, reference lists | their tables | create, change, assign, delete, import | route, requests | several calls for one command; lists that are old |
| Repository (`repositories/`) | read cache per HTTP request, sessions | load, find, lock, write | everything | the cache survives a lock taken after it was filled |
| Chat (`chat_service.py`, websocket) | messages, read marks, connections | post, mark, page, broadcast | browser | sockets are lost, marks overlap |
| Register in the browser (`AR`, `approval-register/`) | query cache, ticks, dialogs, drafts of a row | tick, unfold, decide, hand on | server | refetches while the user types, decides or ticks; commands of several posts |
| Tables (`tableColumns.ts`) | filters, order, widths | tick, search, sort, drag | every page | a list of all values means "no filter" |
| Page of a request (`RequestDetailsPage.tsx`) | form of a line, drafts of the table, staged files | type, spread, save as a chain of calls | server | a chain that stops half way |
| List of requests (`RequestsPage.tsx`) | cached lists per filter, dialogs, export | create, delete, restore, export | server | answers that come after the user went on |
| File preview | object URLs, viewers | open, close | file download | late answers |
| Session (`App.tsx`, `client.ts`, `Layout.tsx`) | token and user in `localStorage`, query cache | log in, log out, other tabs | everything | answers of an earlier session |
| Route page (`ApprovalPage.tsx`) | graph, previews, pan and zoom | edit, preview, delete, move about | server | layout of any graph; previews of a closed dialog |
| Directories (`UnitsPage`, `UsersPage`, `CatalogsPage`) | dialogs, import preview | create, assign, type rows, import | server | commands of several calls |

The other parts are in `PROJECT.json` with the reason they are left out. What
makes the parts correct: nobody skips a stage of the route; what is closed
(frozen, fixed) stays as it is; a position is frozen and fixed as a whole;
decisions do not outlive the correction they were made before; overlapping calls
have the effect of some order of them; what the browser offers the server
accepts; what was said to the user is on screen or being asked for; nothing typed
is lost, nothing is posted that was not shown; what comes late changes nothing
that is not its own; the route is drawn without overlaps and stays acyclic.

## Modules

| Module | Contents | Checked in |
|---|---|---|
| `BudgetWorkflow` | requests, lines and positions of one CFO and year; one action per endpoint, atomic | `OneArticle`, `TwoArticles`, `TwoModules` |
| `PositionLifecycle` | abstract specification of a position and its lines, implemented by `BudgetWorkflow` | `OneArticle` |
| `HandlerRaces` | the handlers that check before they lock, split into their steps, several HTTP requests in flight; uses the effects of `BudgetWorkflow` | `ModulesRace` |
| `RegisterView` | extends `BudgetWorkflow`: flags of the server, buttons and statuses of the browser, compared with the guards of the handlers | `OneArticle`, `TwoArticles`, `TwoModules` |
| `RowEditor` | one row under the hands of one user: cells, dialogs, posts, refetches | `RowEditor` |
| `RegisterSelection`, `RegisterDialogs`, `RegisterClient`, `TableFilters`, `TableColumns` | ticks and unfolded groups; dialogs over loaded lines; the query cache and the mutations; filters; widths | `Tables` |
| `LineForm`, `RequestsList`, `FilePreview` | form of a new line; list of requests with its handlers; preview | `Employee` |
| `LineTable` | drafts of many lines saved by a chain of calls | `LineTable` |
| `Session`, `Chat`, `ReadReceipts` | session of a tab; a conversation over a socket; what a conversation owes its reader | `Shell` |
| `RouteEditor`, `GraphLayout` | route page over the route of the server; drawing and moving about | `Route`, `RouteCycle` |
| `OrgStructure`, `Catalog` | units and users; reference lists | `Directory` |
| `MC...` | instances for TLC, extending the modules they check; where several machines share a run they share no state, a behaviour runs the one chosen at its start | |
| `..._proofs` | theorems: `BudgetWorkflow_proofs` about the server (`BudgetWorkflow`, `RegisterView`, `HandlerRaces`), `Register_proofs` about the five modules of `Tables`, `Employee_proofs` about those of `Employee`, `Shell_proofs` about `Session` and `Chat`, `Directory_proofs` about those of `Directory`, the others about the module of their name | |

### Server

`BudgetWorkflow`. `reqStatus`, `itemStatus`, `linked`, `frozen`, `fixed`,
`posStatus`, `posStep` are columns. The other variables answer the questions the
code puts to its audit logs: which lines the module holds for revision
(`handoff`, `pack`: `request_returned_item_ids`), whether the CFO review is
complete (`reviewDone`), the latest decision of the CFO and whether it is later
than the latest hand-over of the request, of the line, or than the latest return
of the position (`cfoDecision`, `sinceHandoff`, `sinceOwn`, `sinceReturn`), the
same for the economist (`econDecision`, `econFresh`), the latest return
(`lastReturn`) and the approvals a reviewer step may still count (`approvedAt`).
Each action updates exactly the answers its log row changes; this keeps the state
finite while the logs grow. There is one action per endpoint; what the endpoint
checks before it writes has a name of its own (`CanDecideCfo`, `CanFreeze`,
`CanForward`, ...), so that the other modules compare with the guard itself;
`approve_position_at_step` is two, for it either decides lines or forwards.
`_sync_request_statuses` is part of the actions that call it. Group and bulk
endpoints call the same handlers in sequence and add no transition. Left out:
sums, comments, files, chat, notifications, step statuses; `approved` stands for
`approved_with_changes` too; the caller is the right one; the route is a constant
graph in which the ZGD step is the one root. Approving an approved line is a
stutter (the code accepts it).

`HandlerRaces`. FastAPI runs each handler in a thread, PostgreSQL in READ
COMMITTED, and `SqlRepository.load_all` answers from a cache that lives as long
as the HTTP request. Handlers that lock a row before they read are atomic; the
module opens the others. `call[w]` is what worker `w` has read. `submit`
remembers the lines (and, for a resubmission, the log) until after it locks the
request; `decide_cfo` holds no lock; `submit_to_economist` holds the position
while it looks at the requests, which it does not lock. It follows lines on their
first way up a route without intermediate reviewers. Rows of a log are ordered by
commit, while the code stamps them with the start of the transaction; hand-overs
therefore wait for decisions in flight.

`RegisterView` has no variables. Its operators go from the state of the workflow
to the flags of a row (`_register_entries`), from the flags to the buttons of a
row, of a group and of the page of the positions (`registryConfig.ts`,
`workflowPresentation.ts`), and compare each button with the guard of the handler
behind it, for every user who may have a step. Three premises mark where the code
does not keep its offers, each explained below: a line decided anew while another
one of its request is with the module, the economist's "approve and hand over"
while the CFO has marked a line for revision, and a position whose last line has
left it.

### Browser

Every module has the same shape. The server side of an action is the handler the
page calls, reduced to what its answer tells apart; an answer is a step of its
own, so that anything may happen between a click, the work of the server and the
answer. React Query is modelled by what the code relies on: invalidating a query
in use asks again and drops the fetch under way, a failed fetch is retried once
(the model's failure is the second one), a query that nobody looks at is only
marked stale. React renders what was set before the next event; `FilePreview`,
where effects and late answers interleave with rendering, has rendering as a step.

* `RowEditor`: a row is its plan, its fact, status, comment and whether the user
  may act; `normalize_decision` (`B`) is what the server does with a decision.
* `RegisterClient`: what a group looks like is the number of changes the server
  has made to it; a command is a script of posts, any of which may fail.
  `owed` is what the user was told.
* `RegisterDialogs`, `RegisterSelection`: loads in flight are sets, answered in
  any order; nothing keeps the user from opening the next dialog. The calls of a
  decision are sent together (`Promise.all`): the first refusal ends the decision for
  the page, the others go on as `strays`.
* `TableFilters`: a table that filters its own rows, or the register, which asks the
  server for the values on offer; a search finds a fixed set of values (`Found`).
* `LineForm`, `LineTable`: sums are whole numbers of cents, small; the months of
  the table are represented by their total; a call is refused or loses its answer.
  That the request is a draft is one flag for the server and the browser.
* `RequestsList`: one budget year, the workflow reduced to submitting and closing;
  the handlers of create, delete and restore are split at their checks.
* `Session`: a request under way carries the token it was sent with and is handled
  in whatever session is open when its answer comes.
* `Chat`: pages by cursor, one mark at a time on the page of a request,
  overlapping marks in the drawer; losing the socket loses what is told meanwhile.
  Not every message is told of (`api.py`:1332): what users send, decisions, revisions
  and returns raise `chat.message.created` (`PostOther`); a submission (`R`:846-851,
  `api.py`:867-870), the return to the module at the end of a review (`R`:625-639), the
  hand-over to the economist (`A`:1822-1828) and his completion (`A`:2047-2053) only
  send a notification, on which `Layout.tsx` 188-192 asks for other things
  (`PostSilently`). `told` is the last message the browser was told of or will make up
  for. The socket of the layout is for everybody but administrators; their drawer has
  one of its own, which is not opened again (`OwnSocket`, `Deaf`), and beside the
  layout's it is a second way to be told (`Beside`). For an administrator `mark_read`
  stores nothing, and he sends nothing.
* `RouteEditor`: one administrator, one position per CFO; a change and its answer
  are one step, deletions with their preview apart. `Synced` is what every
  reading of the route does on the server (`A`:336), one CFO after the other in
  the order of the table of units (`Order`).
* `GraphLayout`: coordinates are those of the code on a small scale; heights are
  constants; pools are those of departments.
* `OrgStructure`, `Catalog`: lists on screen are snapshots that may be old; a new
  unit is up to three calls, a typed row one or two, an import one. The list of the
  server is a function of ids, and no id is given twice; what a loop of calls knows
  of an entry may be gone by the time it uses it.

`PositionLifecycle` is the abstract specification of a position: its lines enter at
the foot of the route with nothing closed, are written while they are open, the
last frozen line takes the position up, it is fixed and unfixed as a whole, and
what takes it down opens the lines it takes down. `BudgetWorkflow!Lifecycle` is
that specification with `Place` for where the position is.

`ReadReceipts` is the abstract specification of a conversation: messages are
numbered, the mark of the reader is a message that exists, and a reader who stays
has it marked up to the last message he was told of. `Chat!MarkedToTheEnd` is that
specification under the mapping of `Receipts`, including its fairness: the page of a
request implements it for everybody who takes part in the conversation, which
administrators do not. The drawer does not claim it, its marks are sent as they come.

## Runs

| Run | Instance | Shows |
|---|---|---|
| `OneArticle` | 1 request, 2 lines, 1 position, CFO-economist-reviewer-ZGD, 2 rework commands | a position is fixed and frozen above the economist as a whole (`WholePositions`), and its lines live as `PositionLifecycle` says (`LifecycleKept`); returned lines need new decisions (`ReturnedLinesRedecided`); the page of the positions offers only what is accepted (`PageAccepted`); no row looks decided while its position is on the way (`ActiveRouteShown`) |
| `TwoArticles` | 1 request, its 2 lines in 2 positions, same route, 2 rework commands | the positions share a request, whose review the one reopens for the other: the register still offers only what is accepted (`OffersAccepted`), a group that asks for something offers it (`AskedCanAct`), no frozen line changes (`FrozenImmutable`) |
| `TwoModules` | 2 requests with a line each in 1 position, same route, 2 rework commands | a late module cannot get its line past the CFO on the decisions of the first (`StagesDecided`); the buttons of a module are accepted although the position has lines of the other (`OffersAccepted`) |
| `ModulesRace` | 2 requests in 1 position, 2 calls in flight, 1 revision package | overlapping handlers let nothing undecided up (`NothingUnseen`) and submit nothing twice (`SubmittedOnce`) |
| `RowEditor` | 1 row, every role, 2 posts under way, 1 move by a colleague | what is posted was meant (`PostsMeant`), a fact beside the stored one was entered (`ShownFactCounts`), a quiet row is the server's (`QuietIsFresh`) |
| `Tables` | a table of 4 rows; 3 levels of groups; 3 lines in 2 positions; a group of 2 requests, 2 commands | widths fit (`FittedToRows`), filters move only the rows they name, in a search too (`FilterTold`), ticked groups are commanded once (`TicksMeant`), success means every line (`SuccessMeansAll`), reviews come before the hand-over (`ReviewedThenForwarded`), nothing stays loading and rows catch up (`NothingWaits`) |
| `LineTable` | 2 lines, 2 saves | a failed chain keeps every draft (`DraftsKept`), a successful one has saved all (`SavedAll`), a quiet table is the server's |
| `Employee` | 2 months, sums to 2; 2 requests of a module and 1 of another, 1 click, 1 command of somebody else, 1 loss; 2 files opened 3 times | a line is made once while answers come (`OneLineEach`); months add up and files arrive (`LinesAsEntered`); one active request per module (`OneActive`); lists are asked anew and the export holds what the table shows (`ListTells`); the preview shows its file and leaks nothing (`PreviewRight`) |
| `Shell` | 2 users, 2 logins, 2 requests under way; pages of 1 message, up to 1 message before and 2 posts, 2 marks, 1 fault | nothing of an earlier session stays (`SessionsApart`, `DeadSessionEnds`); every message can be reached, and the chat that stays open shows the last one it was told of, marks it, and is done with marking (`NothingLost`, `ShownAndMarked`) |
| `Route` | 1 CFO, 2 economists, 1 reviewer, ZGD, 3 edits, 1 fault; every graph of 8 steps of `MCRoute` | automatic edges stand and deleted assignments do not come back (`RouteStands`), a preview ends (`PreviewEnds`), cards never overlap (`WellDrawn`) |
| `RouteCycle` | the same editor | violation of `Acyclic`, see below |
| `Directory` | 4 units, 2 users, 3 edits, 1 fault; lists of up to 6 entries, 2 commands | responsibles stay apart, no ghosts, units keep their kind (`StaffKept`); no twins, typed rows leave what an import leaves (`ListsAsImported`) |

A property that names several parts is the conjunction of definitions that stand
above it in the module of the component. The type invariant of a component is one
of the parts: of `SessionsApart`, `NothingLost`, `OneActive`, `ListTells`,
`PreviewRight`, `LinesAsEntered`, `FittedToRows`, `TicksMeant`, `FilterTold`,
`NothingWaits`, `RouteStands`, `StaffKept` and `ListsAsImported`.

Bounds. Every rule of the server relates a line to its request, its position, or
the other lines of either: two lines, in the same or in different requests and
positions, show each relation. One reviewer separates the roles above the
economist; `MaxRework` bounds returns, revision packages, unfreezing and unfixing
together. Two workers suffice for every race met: one call reads, the other
commits. In the browser a hazard needs one thing under way and one event between
its question and its answer: two slots, posts, loads or openings, one loss or
fault, and one more click or edit after it; three openings of a preview let the
first answer come after the third file. Counters of clicks, edits, losses, logins
and posts (`Max...`) are bounded in the guards, so every behaviour is a prefix of
a session and the question of a property is always met: each property has a
plausible change of the code (`mutants` in `PROJECT.json`) that breaks it in the
same run. The symmetries exchange names only: lines, positions and modules with their
lines, workers, files, ids of requests, users. No run with a symmetry checks liveness.

Deadlock is checked in no run: the workflow waits for people, and the browser
stops where the bounds on clicks and losses are used up.

Fairness. None is assumed of people. It is assumed where a machine answers: a
fetch, a post or a request under way is answered or fails (`RegisterClient`,
`RegisterDialogs`, `Session`, the previews of `RouteEditor`), and in `Chat` the
page sends the mark it wants to send, the socket reconnects (the code retries
with a timer) and fetches are served. Browsers end every request with an answer
or an error, so weak fairness is enough. Liveness properties (`RowsCatchUp` and
`LoadingEnds` in `NothingWaits`, `DeadSessionEnds`, `LastShown`, `MarkingEnds` and
`MarkedToTheEnd` in `ShownAndMarked`, `PreviewEnds`)
rest on these conjuncts only.

## Proofs

| Module | Theorem | Statement | Inductive invariant |
|---|---|---|---|
| `BudgetWorkflow_proofs` | `TypeCorrect` | `Spec => []TypeOK` | itself |
| | `Fixation` | `Spec => []FixationIsWhole` | with `TypeOK` and `LinkInv` |
| | `Above` | `Spec => []AboveEconomistFrozen` | with `TypeOK` and `LinkInv` |
| | `WholeAlways` | `Spec => []WholePositions` | the two above |
| | `FrozenLinesKept` | `Spec => FrozenImmutable` | step lemma under `TypeOK` and `LinkInv` |
| | `Stages` | `Spec => []StagesDecided` | with `LinkInv`, `FixationIsWhole` and `DecidedInv` |
| | `ReturnedRedecided` | `UpwardRoute` implies `Spec => ReturnedLinesRedecided` | with `LinkInv`, `FixationIsWhole`, `DecidedInv` and `RedecidedInv` |
| | `OneSubmission` | `RacesSpec => []SubmittedOnce` | `RacesInv` |
| | `NothingGoesUnseen` | `RacesSpec => []NothingUnseen` | `SeenInv` |
| | `RouteIsShown` | `Spec => []ActiveRouteShown` | none: true of every state |
| | `AskedActs` | `Spec => []AskedCanAct` | none: true of every state |
| | `RegisterOffers` | `PlainRoute` implies `Spec => []OffersAccepted` | `WorkflowInv` |
| | `PageOffers` | `PlainRoute` implies `Spec => []PageAccepted` | `WorkflowInv` |
| | `LivesAreKept` | `OrderlyRoute` implies `Spec => LifecycleKept`, the refinement of `PositionLifecycle` | steps under `TypeOK`, `LinkInv` and `FixationIsWhole` |
| `Register_proofs` | `TicksHold` | `Spec => []TicksMeant` of `RegisterSelection` | `SelectionInv` |
| | `SuccessHolds` | `DialogSpec => SuccessMeansAll` of `RegisterDialogs` | `DialogInv` |
| | `WidthsFit` | `ColumnsSpec => []FittedToRows` of `TableColumns` | `WidthsInv` |
| | `StaleAreAsked` | `ClientSpec => []StaleRowsAsked` of `RegisterClient`, a part of `NothingWaits` | `ClientInv` |
| | `ReviewsComeFirst` | `ClientSpec => ReviewedThenForwarded` | step lemma under `ClientInv` |
| | `TicksAreTold` | `FiltersSpec => FilterTold` of `TableFilters` | its types |
| `RowEditor_proofs` | `PostsAreMeant` | `Spec => []PostsMeant` | with `Shape` and `OnItsWay` |
| | `FactCounts` | `Spec => []ShownFactCounts` | with `Shape` |
| | `QuietRowIsFresh` | `Spec => []QuietIsFresh` | with `Shape` |
| `LineTable_proofs` | `TypeCorrect` | `Spec => []TypeOK` | with `Shape` |
| | `SavedIsStored` | `Spec => SavedAll` | with `DoneSoFar` |
| | `DraftsAreKept` | `Spec => DraftsKept` | step lemma under `Shape` |
| | `QuietTableIsFresh` | `Spec => []QuietIsFresh` | with `FreshOrAsked` |
| `Employee_proofs` | `OneLine` | `Spec => []OneLineEach` of `LineForm` | `FormInv` |
| | `AddedIsWhole` | `Spec => AddedWhole` of `LineForm`, a part of `LinesAsEntered` | `FormInv` |
| | `EnteredAsMeant` | `Spec => LinesAsEntered` | with `TypeOK` and `FormInv` |
| | `OneActiveEach` | `ListSpec => []OneActive` of `RequestsList` | `ListInv` |
| | `ListIsRight` | `ListSpec => []ListTells` | `ListInv` |
| | `PreviewIsRight` | `PreviewSpec => []PreviewRight` of `FilePreview` | `PreviewInv` and `EndsAtTheFile` |
| `Shell_proofs` | `Apart` | `Spec => []SessionsApart` | `SessionInv` |
| | `Reachable` | `ChatSpec => []NothingLost` of `Chat` | `ChatInv` |
| | `ReceiptsKept` | `ChatSpec` implements the initial states and the steps of `ReadReceipts` | steps under `ChatInv` |
| `RouteEditor_proofs` | `RouteAgrees` | `Spec => []RouteStands` | `RouteInv` |
| `Directory_proofs` | `PeopleAndKind` | `Spec => StaffKept` | `OrgInv` and `PageInv` |
| | `ImportIsRight` | `CatalogSpec => []ListsAsImported` | `CatalogInv` |

They hold for every value of the constants that the named assumptions of the
modules allow: the types of the constants, in `BudgetWorkflow` the roles of the
two bottom steps of the route, in `OrgStructure` that the first three units are
three, in `RegisterSelection` that the groups form a tree of any depth, in
`RegisterDialogs` that a line is decided at one of the three stages that have an
endpoint, in `RouteEditor` that the steps of the four kinds are distinct and that
`Order` has every CFO once, in `Catalog` that there are finitely many ids and that
the lists to begin with are as the server keeps them. Every run evaluates the
assumptions of the modules it extends.

Server. `LinkInv` says what a link means: a linked line belongs to a submitted
request, its row and its position exist, fixed lines are frozen, frozen lines are
linked and active. Without it `DeleteRequest` could remove a frozen line.
`StagesDecided` speaks only of lines that are above the CFO; a line gets there
through its request's completed review, and in between it may be returned,
corrected, deleted and revived. `DecidedInv` follows the decision along that way:
seen from the line, from the request, from the position, and for the economist.
`ReturnedLinesRedecided` needs `UpwardRoute`: no reviewer stands below the
economist. The editor does not enforce this, it lets an administrator put a
reviewer there; the theorem says what holds on routes as they are meant.
`RedecidedInv` ties the set of returned lines to the decisions that are fresh,
through partial returns and lines that leave the position.

Refinement. `LivesAreKept` shows that every step of the workflow is a step of
`PositionLifecycle` or changes nothing of it: `LifeInit` for the initial states,
one lemma per abstract action, put together in `LifeNext`. The mapping forgets
requests, decisions and the logs, and of a step of the route keeps whether it is
the CFO's, the economist's or above. That a fixed position is left as a whole, that
what is written is open and on the route, and that what is fixed is everything
(`fix_position` writes the open lines only) comes from `LinkInv` and
`FixationIsWhole`. `OrderlyRoute` says that nobody hands on to the CFO and only the
CFO to the economist, as in every route the code builds by itself; on a route an
administrator has drawn otherwise a package that goes up could end at the CFO.

Handlers. `RacesInv` says that a request is locked by one call at a time, and that
a call which holds the lock for a first submission has read the status after
taking it. For `NothingUnseen` that is not enough: what other calls have read
counts. `SeenInv` has the rows as the code can have left them, lines linked only
where their request was submitted, and lines of a completed review decided
(`RowsInv`); two calls never create the same line (`CreateApart`); and for each
call in flight what it has read and may still rely on (`CallOK`): a submission
that holds its request has the lines of the request, and a hand-over to the
economist that holds the position has seen every line of it decided. The last one
is stable because whoever adds a line to the position has to lock it.

Register. `RouteIsShown` and `AskedActs` need no reachability: the flags of a row
and the counts of its group are built so that the one implies the other. The
second is the one TLC says least about, for its instances have two positions: the
status counts positions, the buttons look at rows, and `CountedPosition` finds by
cardinality, in any finite set of positions, the one the button acts on.
`OffersAccepted` and `PageAccepted` depend on the workflow. `WorkflowInv` is the
conjunction of the invariants above, with `ReturnedDecided`: what was returned
from above had been decided by the CFO. `PlainRoute` says that the route has one
step of a CFO and one of an economist, one step above each step below the ZGD, and
none above the ZGD. The editor admits other graphs; forwarding refuses a step with
two parents, and one economist per CFO is what the assignment of economists makes.

Browser. `RegisterSelection`: the cache is a tree (`TreeClosed`: what it holds it
holds up to the root), so every group of the cache knows its parents; among the
ticked groups of a branch there is a topmost one (`TopExists`, by well-foundedness
of finite sets) and only one, which is where the command goes. `LoadsInScope`: while
the toolbar's filter stands, loads under way were asked under it. `RegisterDialogs`:
the calls a decision is split into cover it (`CallsCover`), and while none was
refused every line of it that still waits is in a call under way (`DialogInv`).
The other invariants say what may be under way. `RowEditor`: `OnItsWay` is the
property again for every post and dialog from the click to its answer. `LineTable`:
`DoneSoFar` says that what the chain has ticked off is at the server whatever came
in between, `FreshOrAsked` that a difference between table and server is one that
is being asked for, dropped or retyped. `LineForm`: until the chain has made its
line, the entry on screen has none (`NoneYet`), and the line of the chain has the
files sent so far (`SentSoFar`). `FilePreview`: the only live URL is that of the
present opening, and every answer under way belongs to an opening that knows it
was given up. `Session`: unless another tab has changed the token, a query that
may fill the cache carries the token of today (`LiveIsOwn`); whatever changes the
token drops the queries under way, and where an answer sets the user of the tab
without touching the token, the token is not looked at. `OrgStructure`: units have
three levels at most (`ThreeLevels`) and nobody is active at a department
(`NotAtDepartments`); from these the family that `set_responsible` looks at is
everything above and below (`AboveAndBelow`). The lists of the browser and its
dialogs do not occur in that invariant (`PageInv` gives no more than their types):
the checks of the server are enough, however old the lists are.

`RegisterClient` (`ClientInv`): nobody is told of more than the server has done, and
rows that are behind what was told are neither thought complete nor on their way
(`CaughtUp`); what is left of the script of a hand-over has no review behind a hand-over,
whatever was posted or refused of it so far (`ScriptsOrdered`). `TableFilters` rests on a
fact about finite sets: a filter as long as the list it is offered is that list, which is
why the code may take it for no filter. `TableColumns`: a handle that is held has stopped
the fitting, and until it is stopped no contents were missed (`WidthsInv`).

Lines. `LinesAsEntered` is arithmetic about sums of any number of months. `Sum` is a
recursive function; what it computes is shown by naming the sums of the first months
and counting up (`CountUp`, from the well-foundedness of the numbers), so that sums can
be added, scaled and compared. A sum that is spread anew gives each month its portion,
rounded down (`Portions`), and one unit more to the months with the largest remainders;
fewer units are left than months have a remainder (`LeftOver`), and exactly so many
months are ranked below that number (`Ranked`, `AheadRanks`), so the months come to the
sum (`Spreading`) and no month overtakes another.

Requests. Creating and restoring look before they write, and what they saw may be old:
`OneActive` rests on the unique index, which refuses the second active request
(`Inserted`), and on each call in flight being about a request or module that exists
(`CallsOK`). `ListTells` adds that a list which lacks what the user was told of is stale,
with nothing older on its way (`ToldIsStale`), that the question stays on the draft whose
deletion is under way (`AskedUntilAnswered`), and that what the export dialog asked for is
what the table showed (`AskedForShown`).

Chat. What is shown reaches without a hole from the last message the page knows down to
its cursor (`NoHole`), and the answers under way are pages of the chat as it was
(`Answers`); `NothingLost` follows, for pages of any size. The steps of the page are steps
of `ReadReceipts`, messages told of and not; that the mark reaches the last one told of
is liveness and stays with TLC.

Route. A reading of the route puts the automatic edges in for one CFO after the other.
`Synced` is a recursion along `Order`; the proof shows that the run of it exists and
counts up along it, with what each CFO leaves to the next: positions that have not
strayed stand at an edge of their CFO (`SitsLinked`), and a CFO without an economist has
no position under way (`NoneWithout`). What an administrator deleted with its assignment
is assigned no more (`CutUnassigned`), which is why the next reading does not bring it back.

Catalogue. Two lists are `Alike` if they differ in nothing but what is active; the plan
of an import keeps lists alike alike (`AlikePlanned`, `AlikeImported`). A call for a row
either does what the plan does for it (`DefaultPlanned`, `CategoryPlanned`,
`PatchPlanned`) or leaves of it what the plan would have left (`ArticlePlanned`). So while
nobody interferes, importing the rows that are left would still give what importing all
of them would have given (`OnCourse`), and after the last row nothing is left to import.
What the loop knows is never moved, only renamed or gone (`Kept`), for no id is given
twice. The server keeps a category in an article of its department (`Tree`), and no two
entries of a name beside each other (`Unique`).

What the proofs changed in the models. `OwnEconomist` of `RouteEditor` held in the run only
because of its bound; the attempt to prove it showed a history variable that was not
cleared when an economist was taken back, and four changes would have refuted it.
`ClosedGroupGone` of `RegisterClient` was stated for groups that are not nested.
`Catalog` gave the id of a deleted entry to the next one, which the code never does, and
its table changed names and activity apart where the code sends both. The premises
`PlainRoute`, `UpwardRoute` and `OrderlyRoute` stand where a proof failed without them on a
route the editor admits.

Only model-checked, and why:

* Liveness (`RowsCatchUp` and `LoadingEnds` in `NothingWaits`, `DeadSessionEnds`,
  `ShownAndMarked`, `PreviewEnds`) and with it the fairness of `ReadReceipts`: out of
  the prover's reach.
* `WellDrawn`: the layout is recursive over the graph and sorts and folds as it goes;
  what it computes needs induction over data.

## Where the code does not do what it says

`RouteCycle` is a run, for the layout of the route page follows the edges without
end once a cycle is there: the server refuses an edge that closes a cycle
(`A`:1148), but reading the route puts the automatic edges in without that check
(`A`:336-350). Administrator: reviewer above the CFO, economist above the
reviewer, then assign that economist to the CFO.

The others are stated beside the properties under "does not keep" and "No run
checks these"; added to the cfg named there, TLC refutes each of them.

* `BudgetWorkflow`, `TwoArticles.cfg` with `MaxRework = 3`: `ReturnedCanResubmit` (a
  line returned alone to its module is stuck while its position has a frozen line),
  `EconomistForwardsDecided`, `ReturnedToCfoRedecided` (lines returned to the CFO
  go up again undecided), `CfoDecidesAtCfoStep`, `RejectedStaysOffRoute`,
  `NoLateLines`, `ApprovedIsFinal`, `CompletedReviewRedecided`,
  `ForwardedLinesDecided`; `OneArticle.cfg`: `FixedLinesApproved` (after a return
  the ZGD fixes lines nobody approved at the final step). README.md of the repository calls
  `fixed` irreversible; `unfix_position` clears it.
* `HandlerRaces`, `ModulesRace.cfg`: `OnlyDraftsVanish` (a request under review is
  deleted), `SubmittedWithLines`, `CompletedReviewStands` (a duplicate
  resubmission, accepted on a cached log, reopens a completed review),
  `FrozenStaysPut` (a CFO decision lands on a line frozen in the meantime),
  `NotPulledBack` (a late submission pulls a position back from the economist).
* `RegisterView`, `TwoArticles.cfg` with `MaxRework = 3`: `ReturnedOfferAccepted` (the
  CFO is offered the decision on a line that came back from above while another line
  of the request
  is with the module: `is_cfo_revision_actionable`, `R`:2884-2898, looks at the
  line, `_decide_cfo`, `B`:568-572, at the request, and answers 409);
  `DecidedCanBeHandedOn` (the comment at `AR`:1282 says that once every line has a
  decision the group exposes the hand-over; with a line of another article marked
  for revision by the CFO it does not, `R`:2932-2954, though the status of the group
  asks the economist to "approve and hand over"). Both were met in the attempt to
  prove `OffersAccepted` and `AskedCanAct` for more than one position; they are the
  premises of these two. A third premise, of `PageAccepted`: a position at the
  economist that has lost its last line is still offered to be frozen, which the
  handler refuses.
* `RegisterDialogs`, `Tables.cfg`: `HandsOnWhatItShows` (the lines of the groups
  chosen first are shown for the groups chosen second).
* `TableFilters`, `Tables.cfg`: `FirstUntickLocal` (the first value unticked in a search
  hides all the search does not find) and `ListGivenUpForAll` (a list is given up when
  a search finds as many values as are ticked, `tableColumns.ts`:313). `FilterTold`
  leaves these two steps out.
* `Chat`, `Shell.cfg`: `AllShown` (a chat left open over a resubmission or a hand-over
  neither shows nor marks the message about it, for no event tells of it; `LastShown`
  speaks of the messages told of). `MarkingEnds` leaves out the page of a request that
  an administrator opens with `?chat=1`: the mark stored nowhere, the page sends it
  again after every answer (`RequestDetailsPage.tsx`:2574-2581), without end.

Met while reading, and visible in the models: the text "decide all lines" of a
group counts drafts of modules that have not submitted
(`registryConfig.ts`:669-676 against 294-305); a group whose positions are all
decided may offer "approve and hand over" for a rejected request, which answers
409 (`workflowPresentation.ts`:125-129). A reviewer two steps above the economist
lets the CFO pull a position down past the economist (`A`:1664), which needs two
reviewers and is not in the instances.

## Not modelled

* Pure reading: dashboards, histories, totals, notifications, exports of workbooks.
  They change nothing and no decision reads them.
* Permissions: who may call a handler is a function of role, assignment and
  status; the actions take the right caller.
* The object store, the file guard and the set of open websockets: the first two
  are services outside the program, of the third the browser sees what `Chat` has.
* In the browser: the text and the drawing of rows, menus and dialogs, keyboard
  navigation, the contents of a preview of a deletion, StrictMode. The branches
  for the ZGD and the approver in the list of requests cannot be reached by the
  router. In `ApprovalPage.tsx` the components for a user's own steps and for a
  graph without an editor are not used.
* What only makes a chat look sooner: the page opens its socket anew when the status of
  the request changes.
* Time: log rows are ordered by commit. Several budget years, CFOs that exchange
  modules, and moves of a line to another article.
* Authentication beyond accepting and refusing; schema migrations, deployment.

## How to go on

Every safety property of the runs but `WellDrawn` has a theorem. What is missing is
breadth: the object store with its deduplication (`file_service.py`:101) is the largest
hazard without a model, and several budget years would let positions of two years meet
in one list.
