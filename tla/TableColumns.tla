---------------------------- MODULE TableColumns ----------------------------
(***************************************************************************)
(* The columns of a table (useTableColumnWidths and the visibility of      *)
(* tableColumns.ts, TableColumnTools of TableColumnControls.tsx): hidden   *)
(* ones, and widths that follow the rows until the user drags one.         *)
(***************************************************************************)
CONSTANTS
    Hideable,  \* the columns that can be hidden
    Contents   \* what the cells may hold

VARIABLES
    hidden,    \* the hidden columns
    content,   \* what the cells hold now
    width,     \* the contents the widths are fitted to
    adjusted,  \* a width was dragged
    fitKey,    \* the contents the widths were last fitted to unasked
    drag       \* the handle is held

columnVars == <<hidden, content, width, adjusted, fitKey, drag>>

ByHand == "by hand"

ColumnsTypeOK ==
    /\ hidden \subseteq Hideable /\ content \in Contents
    /\ width \in Contents \cup {ByHand} /\ fitKey \in Contents
    /\ adjusted \in BOOLEAN /\ drag \in BOOLEAN

ColumnsInit ==
    /\ hidden = {} /\ content \in Contents
    /\ width = content /\ adjusted = FALSE /\ fitKey = content /\ drag = FALSE

\* The last column that may be hidden stays
ToggleColumn(c) ==
    /\ c \in hidden \/ hidden \cup {c} # Hideable
    /\ hidden' = IF c \in hidden THEN hidden \ {c} ELSE hidden \cup {c}
    /\ UNCHANGED <<content, width, adjusted, fitKey, drag>>

\* Taking the handle is enough to stop the fitting
Grab ==
    /\ drag' = TRUE /\ adjusted' = TRUE
    /\ UNCHANGED <<hidden, content, width, fitKey>>
Drag ==
    /\ drag /\ width' = ByHand
    /\ UNCHANGED <<hidden, content, adjusted, fitKey, drag>>
Drop ==
    /\ drag /\ drag' = FALSE
    /\ UNCHANGED <<hidden, content, width, adjusted, fitKey>>

\* A double click on the handle
FitOne ==
    /\ width' = content
    /\ UNCHANGED <<hidden, content, adjusted, fitKey, drag>>

\* Mutant: the reset leaves the fitting to the next change of the rows
ResetLater == adjusted' = FALSE /\ UNCHANGED <<width, fitKey>>

ResetWidths == adjusted' = FALSE /\ width' = content /\ fitKey' = content

Reset ==
    /\ ~drag /\ hidden' = {} /\ ResetWidths
    /\ UNCHANGED <<content, drag>>

\* New contents are fitted unless a width was dragged or they are what was fitted
AutoFit ==
    IF adjusted \/ content' = fitKey THEN UNCHANGED <<width, adjusted, fitKey>>
    ELSE width' = content' /\ fitKey' = content' /\ UNCHANGED adjusted

NewContents ==
    /\ content' \in Contents /\ AutoFit
    /\ UNCHANGED <<hidden, drag>>

ColumnsNext ==
    \/ \E c \in Hideable : ToggleColumn(c)
    \/ Grab \/ Drag \/ Drop \/ FitOne \/ Reset
    \/ NewContents

ColumnsSpec == ColumnsInit /\ [][ColumnsNext]_columnVars

-----------------------------------------------------------------------------

\* Widths nobody has dragged since the last reset fit what the cells hold,
\* whatever came and went while a dragged width stood.
FittedToRows == ColumnsTypeOK /\ (~adjusted => width = content)

=============================================================================
