---------------------------- MODULE FilePreview ----------------------------
(***************************************************************************)
(* The preview of an attached file (components/FilePreviewDialog.tsx), as  *)
(* a dialog over a request or in a window of its own (App.tsx).  Each time *)
(* the dialog is given a file it downloads it, keeps the content under an  *)
(* object URL and hands the URL to a viewer, which is itself loaded on     *)
(* demand; every one of these steps may end after the user has gone on to  *)
(* another file.                                                           *)
(*                                                                         *)
(* An opening is one run of the effect that downloads, and names the       *)
(* object URL made of its answer.  A click renders and runs that effect at *)
(* once; what the effect or an answer sets is rendered, and the viewers'   *)
(* effects run, later (Commit).  The viewers of spreadsheets, documents    *)
(* and PDF files are of one shape, and "drawn" stands for each of them.    *)
(***************************************************************************)
EXTENDS Naturals, FiniteSets

CONSTANTS
    Attachments, \* the attached files
    Drawn,       \* those a viewer has to draw; the others need none
    NoFile,
    MaxOpenings  \* bound on the runs of the effect

\* No attachment stands for the absence of one
ASSUME AttachmentsAndBound == NoFile \notin Attachments /\ MaxOpenings \in Nat

VARIABLES
    window,     \* in a window of its own, on one file
    file,       \* the file the dialog is given
    opening,    \* latest run of the effect that downloads; 0 before the first
    fileOf,     \* the file of each opening
    download,   \* the download of each opening
    url,        \* the object URL in the state of the dialog, 0 for none
    live,       \* object URLs that are not revoked
    kind,       \* what the state says of the file at url
    error,
    processing,
    viewed,     \* the URL the viewers' effects have last run for
    viewer      \* the viewer of each URL

previewVars == <<window, file, opening, fileOf, download, url, live, kind, error, processing,
          viewed, viewer>>

Openings == 1 .. MaxOpenings

PreviewTypeOK ==
    /\ window \in BOOLEAN /\ file \in Attachments \cup {NoFile}
    /\ opening \in 0 .. MaxOpenings /\ fileOf \in [Openings -> Attachments \cup {NoFile}]
    /\ download \in [Openings -> {"none", "asked", "aborted", "done"}]
    /\ url \in 0 .. MaxOpenings /\ live \subseteq Openings /\ viewed \in 0 .. MaxOpenings
    /\ kind \in {"drawn", "plain"} /\ error \in BOOLEAN /\ processing \in BOOLEAN
    /\ viewer \in [Openings -> {"none", "loading", "drawing", "failing", "done", "disposed"}]

-----------------------------------------------------------------------------
(* The effect that downloads *)

\* Its clean-up aborts the download and revokes the URL made of it; then the
\* next download begins, if there is one
Cleanup(next) ==
    /\ download' = [o \in Openings |-> IF o = next THEN "asked"
                                       ELSE IF download[o] = "asked" THEN "aborted"
                                       ELSE download[o]]
    /\ live' = live \ {opening}

ClearState ==
    /\ error' = FALSE /\ processing' = FALSE
    /\ url' = 0

Download(f) ==
    /\ opening < MaxOpenings
    /\ opening' = opening + 1
    /\ fileOf' = [fileOf EXCEPT ![opening + 1] = f]
    /\ Cleanup(opening + 1)
    /\ ClearState
    /\ UNCHANGED <<kind, viewed, viewer>>

-----------------------------------------------------------------------------
(* The user *)

\* The dialog is modal: another file is chosen after it is closed
Choose(f) ==
    /\ ~window /\ file = NoFile
    /\ file' = f
    /\ Download(f)
    /\ UNCHANGED window

\* Without a file the effect cleans up and returns: url keeps the dead URL and
\* its viewer goes on
Close ==
    /\ ~window /\ file # NoFile
    /\ file' = NoFile
    /\ Cleanup(0)
    /\ UNCHANGED <<window, opening, fileOf, url, kind, error, processing, viewed, viewer>>

\* The route makes a new object of the file each time it is rendered, and the
\* effect runs for the object
RenderWindow ==
    /\ window
    /\ Download(file)
    /\ UNCHANGED <<window, file>>

-----------------------------------------------------------------------------
(* The answers *)

KindOf(f) == IF f \in Drawn THEN "drawn" ELSE "plain"

\* Mutant: the answer of an aborted download is taken as well
ReceiveAny(o) ==
    /\ download[o] \in {"asked", "aborted"}
    /\ live' = live \cup {o} /\ url' = o
    /\ kind' = KindOf(fileOf[o]) /\ processing' = FALSE

\* The content has come: unless the opening is over by now
Receive(o) ==
    /\ download[o] \in {"asked", "aborted"}
    /\ IF download[o] = "aborted" THEN UNCHANGED <<live, url, kind, processing>>
       ELSE /\ live' = live \cup {o} /\ url' = o
            /\ kind' = KindOf(fileOf[o]) /\ processing' = FALSE

Answered(o) ==
    /\ Receive(o)
    /\ download' = [download EXCEPT ![o] = "done"]
    /\ UNCHANGED <<window, file, opening, fileOf, error, viewed, viewer>>

\* The download has failed; an aborted one fails without a word
Refused(o) ==
    /\ download[o] \in {"asked", "aborted"}
    /\ download' = [download EXCEPT ![o] = "done"]
    /\ IF download[o] = "aborted" THEN UNCHANGED <<error, processing>>
       ELSE error' = TRUE /\ processing' = FALSE
    /\ UNCHANGED <<window, file, opening, fileOf, url, live, kind, viewed, viewer>>

-----------------------------------------------------------------------------
(* The viewers *)

\* What has been set is rendered: the viewer of the URL before is disposed of,
\* and one for the new URL is loaded
Commit ==
    /\ viewed # url
    /\ viewed' = url
    /\ viewer' = [o \in Openings |->
                    IF o = viewed /\ viewer[o] # "none" THEN "disposed"
                    ELSE IF o = url /\ kind = "drawn" THEN "loading" ELSE viewer[o]]
    /\ processing' = (processing \/ (url # 0 /\ kind = "drawn"))
    /\ UNCHANGED <<window, file, opening, fileOf, download, url, live, kind, error>>

\* The viewer's code is there, and reads the content of the URL, which fails
\* for one that has been revoked
ViewerLoaded(o) ==
    /\ viewer[o] = "loading"
    /\ viewer' = [viewer EXCEPT ![o] = IF o \in live THEN "drawing" ELSE "failing"]
    /\ UNCHANGED <<window, file, opening, fileOf, download, url, live, kind, error, processing, viewed>>

\* Content that cannot be drawn fails as well
Finish(o) ==
    /\ processing' = FALSE
    /\ error' \in IF viewer[o] = "drawing" THEN {error, TRUE} ELSE {TRUE}

ViewerEnds(o) ==
    /\ viewer[o] \in {"drawing", "failing"}
    /\ viewer' = [viewer EXCEPT ![o] = "done"]
    /\ Finish(o)
    /\ UNCHANGED <<window, file, opening, fileOf, download, url, live, kind, viewed>>

-----------------------------------------------------------------------------

PreviewInit ==
    /\ window \in BOOLEAN
    /\ fileOf = [o \in Openings |-> NoFile]
    /\ file \in IF window THEN Attachments ELSE {NoFile}
    /\ opening = 0
    /\ download = [o \in Openings |-> "none"]
    /\ url = 0 /\ live = {} /\ kind = "plain" /\ error = FALSE /\ processing = FALSE
    /\ viewed = 0 /\ viewer = [o \in Openings |-> "none"]

PreviewNext ==
    \/ \E f \in Attachments : Choose(f)
    \/ Close
    \/ RenderWindow
    \/ \E o \in Openings : Answered(o) \/ Refused(o) \/ ViewerLoaded(o) \/ ViewerEnds(o)
    \/ Commit

PreviewSpec == PreviewInit /\ [][PreviewNext]_previewVars

-----------------------------------------------------------------------------
(* Properties *)

\* Once what has been set is rendered, the content on screen is that of the
\* file the dialog names, under a URL that has not been revoked, however late
\* the answers for the files before have come.
ShowsTheFile ==
    file # NoFile /\ url # 0 => fileOf[url] = file /\ url \in live

\* At most one downloaded content is held, and none after the dialog is closed:
\* previews do not pile up in the memory of the page.
HoldsOne == live \subseteq IF file = NoFile THEN {} ELSE {opening}

\* The spinner ends: when nothing is under way, what the user looks at is the
\* file or the error, whatever was given up on the way here.
Quiet ==
    /\ viewed = url
    /\ \A o \in Openings : download[o] \in {"none", "done"} /\ viewer[o] \in {"none", "done", "disposed"}
SpinnerEnds == Quiet /\ file # NoFile /\ opening # 0 => error \/ (url = opening /\ ~processing)

\* The preview shows the file it names, holds no other, and comes to an end.
PreviewRight == PreviewTypeOK /\ ShowsTheFile /\ HoldsOne /\ SpinnerEnds

=============================================================================
