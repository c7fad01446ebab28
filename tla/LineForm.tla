------------------------------ MODULE LineForm ------------------------------
(***************************************************************************)
(* The form that adds a line to a draft request (AddItemForm of            *)
(* RequestDetailsPage.tsx): a yearly sum spread over the months, months    *)
(* typed by hand or locked, files picked, and the chain of posts that      *)
(* creates the line and then attaches its files one by one.  The form      *)
(* stays open to the user while the chain runs, and an answer may be lost. *)
(***************************************************************************)
EXTENDS Naturals, FiniteSets

CONSTANTS
    LastMonth,   \* the months are 1 .. LastMonth
    MaxSum,      \* bound on a sum, in cents
    Files,       \* files the user may pick
    MaxEntries,  \* bound on the times the form is filled in
    MaxLines,    \* bound on the lines created
    MaxLosses    \* bound on the answers lost

ASSUME FormAssumption ==
    /\ LastMonth \in Nat \ {0} /\ MaxSum \in Nat /\ IsFiniteSet(Files)
    /\ MaxEntries \in Nat /\ MaxLines \in Nat /\ MaxLosses \in Nat

VARIABLES
    target,   \* sumPlan, the yearly sum
    months,   \* monthPlanValues
    locked,   \* lockedMonths
    named,    \* the article is chosen and the name typed
    files,    \* pendingFiles
    entry,    \* number of the present filling-in of the form
    create,   \* the mutation under way
    lines,    \* lines at the server, by number
    told,     \* what the last toast said
    draft,    \* the request is a draft
    losses    \* answers lost so far

fields == <<target, months, locked, named, files>>
vars   == <<fields, entry, create, lines, told, draft, losses>>

Months == 1 .. LastMonth
Sums   == 0 .. MaxSum
Bad    == MaxSum + 1                    \* a text that is not a sum
Nothing == [m \in Months |-> 0]
Idle    == [state |-> "idle"]

-----------------------------------------------------------------------------
(* The arithmetic of the month plans *)

\* monthPlansTotal: a text with an error counts as nothing
Cents(x) == IF x = Bad THEN 0 ELSE x
Read(p)  == [m \in Months |-> Cents(p[m])]
Sum(p) ==
    LET Upto[m \in 0 .. LastMonth] == IF m = 0 THEN 0 ELSE Upto[m - 1] + p[m]
    IN  Upto[LastMonth]
Total(p) == Sum(Read(p))

\* redistributeMonthPlans: in proportion to the weights, what is left going
\* unit by unit to the largest remainders, the earlier month first
Portion(p, sum)   == [m \in Months |-> (p[m] * sum) \div Total(p)]
Remainder(p, sum) == [m \in Months |-> (p[m] * sum) % Total(p)]
Ahead(p, sum, m) ==
    LET r == Remainder(p, sum)
    IN  {k \in Months : r[k] > r[m] \/ (r[k] = r[m] /\ k < m)}
Weighted(p, sum) ==
    IF Total(p) = 0 THEN p
    ELSE LET left == sum - Total(Portion(p, sum))
         IN  [m \in Months |-> Portion(p, sum)[m] +
                 (IF Cardinality(Ahead(p, sum, m)) < left THEN 1 ELSE 0)]

\* The same over the open months of a plan without weights
Evenly(open, sum) ==
    [m \in Months |-> sum \div Cardinality(open) +
        (IF Cardinality({k \in open : k < m}) < sum % Cardinality(open) THEN 1 ELSE 0)]

\* redistributeUnlockedMonthPlans: the sum of the locked months must fit, and
\* be all of it when no month is open
Fits(p, sum, fixed) ==
    LET held == Total([m \in Months |-> IF m \in fixed THEN p[m] ELSE 0])
    IN  held <= sum /\ (fixed = Months => held = sum)

\* Mutant: the locked months are weights like the others
SpreadAll(p, sum, fixed) == Weighted(p, sum)

Spread(p, sum, fixed) ==
    LET open    == Months \ fixed
        weights == [m \in Months |-> IF m \in open THEN p[m] ELSE 0]
        rest    == sum - Total([m \in Months |-> IF m \in open THEN 0 ELSE p[m]])
        shares  == IF Total(weights) = 0 THEN Evenly(open, rest) ELSE Weighted(weights, rest)
    IN  [m \in Months |-> IF m \in open THEN shares[m] ELSE p[m]]

-----------------------------------------------------------------------------
(* Filling the form in *)

TypeOK ==
    /\ target \in Sums /\ months \in [Months -> Sums \cup {Bad}]
    /\ locked \subseteq Months /\ named \in BOOLEAN /\ files \subseteq Files
    /\ entry \in 0 .. MaxEntries
    /\ create = Idle \/ create.entry \in 0 .. entry
    /\ DOMAIN lines \subseteq 1 .. MaxLines
    /\ \A l \in DOMAIN lines : lines[l].entry \in 0 .. entry /\ lines[l].files \subseteq Files
    /\ told \in {"nothing", "added", "failed"}
    /\ draft \in BOOLEAN /\ losses \in 0 .. MaxLosses

Blank ==
    /\ target' = 0 /\ months' = Nothing /\ locked' = {}
    /\ named' = FALSE /\ files' = {}

Init ==
    /\ target = 0 /\ months = Nothing /\ locked = {} /\ named = FALSE /\ files = {}
    /\ entry = 0 /\ create = Idle /\ lines = <<>> /\ told = "nothing"
    /\ draft = TRUE /\ losses = 0

\* The form is there while the request is a draft.  One flag stands for the status at the
\* server and for what the browser makes of it; no property tells them apart.
Fill == draft /\ UNCHANGED <<entry, create, lines, told, draft, losses>>

\* A new yearly sum forgets the weights: what is not locked is spread evenly.
\* A sum below the locked months stays in its field and the months as they are.
TypeTarget(x) ==
    /\ Fill /\ target' = x
    /\ LET p == [m \in Months |-> IF m \in locked THEN Cents(months[m]) ELSE 0]
       IN  months' = IF Fits(p, x, locked) THEN Spread(p, x, locked) ELSE months
    /\ UNCHANGED <<locked, named, files>>

Redistribute ==
    /\ Fill /\ target # Total(months)
    /\ Total(months) # 0
    /\ Fits(Read(months), target, locked)
    /\ months' = Spread(Read(months), target, locked)
    /\ UNCHANGED <<target, locked, named, files>>

TypeMonth(m, x) ==
    /\ Fill /\ months' = [months EXCEPT ![m] = x]
    /\ UNCHANGED <<target, locked, named, files>>

Lock(m) ==
    /\ Fill
    /\ locked' = IF m \in locked THEN locked \ {m} ELSE locked \cup {m}
    /\ UNCHANGED <<target, months, named, files>>

Name == Fill /\ named' = TRUE /\ UNCHANGED <<target, months, locked, files>>
Pick(fs)      == files' = fs /\ UNCHANGED <<target, months, locked, named>>
AddFile(f)    == Fill /\ create = Idle /\ Pick(files \cup {f})
RemoveFile(f) == Fill /\ Pick(files \ {f})

-----------------------------------------------------------------------------
(* The chain of posts *)

Ready ==
    /\ draft /\ create = Idle /\ named
    /\ Total(months) > 0 /\ target = Total(months)
    /\ \A m \in Months : months[m] # Bad

\* The mutation takes the form as it is at the click
Add ==
    /\ Ready
    /\ create' = [state |-> "create", entry |-> entry, sum |-> target,
                  total |-> Total(months), files |-> files, left |-> files, line |-> 0]
    /\ told' = "nothing"
    /\ UNCHANGED <<fields, entry, lines, draft, losses>>

Clear == Blank /\ entry < MaxEntries /\ entry' = entry + 1

\* Mutant: the form is kept when an attachment fails
KeepAfterAttachment ==
    /\ create' = Idle /\ told' = "failed" /\ UNCHANGED <<fields, entry>>

\* An error before the line exists keeps the form; an error of an attachment
\* clears it, since the line is there
AttachmentFailed == create' = Idle /\ told' = "failed" /\ Clear
CreationFailed   == create' = Idle /\ told' = "failed" /\ UNCHANGED <<fields, entry>>
Finished         == create' = Idle /\ told' = "added" /\ Clear

\* The server takes the line of a draft whose sum is that of its months
Accepted == draft /\ create.sum = create.total
Created ==
    /\ Cardinality(DOMAIN lines) < MaxLines
    /\ LET l == Cardinality(DOMAIN lines) + 1
       IN  lines' = [k \in 1 .. l |->
                       IF k < l THEN lines[k]
                       ELSE [entry |-> create.entry, files |-> {}]]

ServeCreate ==
    /\ create.state = "create"
    /\ IF ~Accepted THEN CreationFailed /\ UNCHANGED lines
       ELSE /\ Created
            /\ IF create.files = {} THEN Finished
               ELSE /\ create' = [create EXCEPT !.state = "attach",
                                                !.line = Cardinality(DOMAIN lines) + 1]
                    /\ UNCHANGED <<fields, entry, told>>
    /\ UNCHANGED <<draft, losses>>

\* The line is created and the browser does not hear of it
LoseCreate ==
    /\ create.state = "create" /\ Accepted /\ losses < MaxLosses
    /\ losses' = losses + 1
    /\ Created /\ CreationFailed
    /\ UNCHANGED draft

Attach(f) ==
    /\ create.state = "attach" /\ f \in create.left /\ draft
    /\ lines' = [lines EXCEPT ![create.line].files = @ \cup {f}]
    /\ IF create.left = {f} THEN Finished
       ELSE /\ create' = [create EXCEPT !.left = @ \ {f}]
            /\ UNCHANGED <<fields, entry, told>>
    /\ UNCHANGED <<draft, losses>>

\* The guard of files, the storage or the network refuses a file
RefuseFile(f) ==
    /\ create.state = "attach" /\ f \in create.left
    /\ AttachmentFailed
    /\ UNCHANGED <<lines, draft, losses>>

\* The request is submitted, here or in another window
Submit == draft /\ draft' = FALSE
          /\ UNCHANGED <<fields, entry, create, lines, told, losses>>

-----------------------------------------------------------------------------

Typing ==
    \/ \E x \in Sums : TypeTarget(x)
    \/ \E m \in Months : Lock(m) \/ \E x \in Sums \cup {Bad} : TypeMonth(m, x)
    \/ Redistribute \/ Name
    \/ \E f \in Files : AddFile(f) \/ RemoveFile(f)

Chain ==
    \/ Add \/ ServeCreate \/ LoseCreate
    \/ \E f \in Files : Attach(f) \/ RefuseFile(f)

Next == Typing \/ Chain \/ Submit

Spec == Init /\ [][Next]_vars

-----------------------------------------------------------------------------
(* Properties *)

\* However the months were typed and locked before, a sum that is spread is
\* spread to the last unit, and a locked month keeps what it held.
SpreadExactly ==
    [][months' # months /\ (Redistribute \/ \E x \in Sums : TypeTarget(x))
         => /\ Total(months') = target'
            /\ \A m \in locked : months'[m] = Cents(months[m])]_vars

\* Spreading by weights turns no larger month into a smaller one than a month
\* it exceeded, whoever receives the units that are left over.
OrderKept ==
    [][Redistribute =>
         \A m, k \in Months \ locked :
             Cents(months[m]) < Cents(months[k]) => months'[m] <= months'[k]]_vars

\* One filling-in of the form makes one line, although the chain of posts may
\* fail at any file and the user may click again: unless an answer was lost.
OneLineEach ==
    losses = 0 =>
        \A k, l \in DOMAIN lines : lines[k].entry = lines[l].entry => k = l

\* "The line and its files are added" is said only of a line that has all the
\* files the form had when the user clicked.
AddedWhole ==
    [][told' = "added" /\ create # Idle =>
         \E l \in DOMAIN lines' :
             lines'[l].entry = create.entry /\ create.files \subseteq lines'[l].files]_vars

\* What is sent is what was meant: the months are sums or texts marked as none
\* (TypeOK), they add up, and the files arrive.
LinesAsEntered == []TypeOK /\ SpreadExactly /\ OrderKept /\ AddedWhole

=============================================================================
