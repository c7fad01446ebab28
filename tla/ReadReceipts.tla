--------------------------- MODULE ReadReceipts ----------------------------
(***************************************************************************)
(* What a conversation owes its reader, whatever the transport: messages   *)
(* are numbered in the order they are posted, the mark of the reader is    *)
(* the number of a message that exists, and a reader who stays with the    *)
(* conversation has it marked as read up to the last message he was told   *)
(* of.  Of some messages nobody is told.                                   *)
(***************************************************************************)
EXTENDS Naturals

VARIABLES
    posted,  \* how many messages there are
    told,    \* the last message the reader was told of
    mark,    \* the last message the reader is known to have read
    present  \* the reader has the conversation before him

receipt == <<posted, told, mark, present>>

Init == posted \in Nat /\ told = posted /\ mark \in 0 .. posted /\ ~present

\* What the reader does himself may bring him back
Back == present' \in {present, TRUE}

\* A message of somebody else, or of the reader himself, whose mark it moves
Post == posted' = posted + 1 /\ told' = posted' /\ mark' \in {mark, posted'} /\ Back

\* A message that comes with no word to the reader
PostSilently == posted' = posted + 1 /\ Back /\ UNCHANGED <<told, mark>>

\* A mark may be late, and then tell of less than the one before
Mark == mark' \in 0 .. posted /\ Back /\ UNCHANGED <<posted, told>>

ComeOrGo == present' = ~present /\ UNCHANGED <<posted, told, mark>>

Next == Post \/ PostSilently \/ Mark \/ ComeOrGo

\* The reader who stays is caught up with what he was told of
CatchUp == present /\ mark < told /\ mark' \in told .. posted /\ UNCHANGED <<posted, told, present>>

Spec == Init /\ [][Next]_receipt /\ WF_receipt(CatchUp)

=============================================================================
