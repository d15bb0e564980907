------------------------------- MODULE HtmlToPdf -------------------------------
(***************************************************************************)
(* HtmlToPdfViewController with the kit it starts: the block it gives the   *)
(* kit sends a block to a global queue that reads the file, and that one a  *)
(* block to the main queue that shows what was read.  The kit writes the    *)
(* file on the main thread after the controller's block has returned.       *)
(***************************************************************************)
EXTENDS HtmlPdfKit

CONSTANT Old     \* what a file may hold from an earlier launch

\* A PDF, of this launch or of an earlier one, is whole.
ASSUME OldAssumption == Old # torn /\ torn \notin PDF

VARIABLES
    reads,       \* blocks on the global queue, by the job and file they are for
    shows,       \* blocks on the main queue: what was read for which job
    shown        \* what the controller's web view shows, nil at first

readerVars == <<reads, shows, shown>>

\* The documents directory may hold the PDF of an earlier launch.
ToPdfInit ==
    /\ webView = nil /\ outputFile = nil /\ timer = nil /\ busy = "no" /\ pdf = nil
    /\ request = [j \in Job |-> nil]
    /\ page = [j \in Job |-> "new"]
    /\ frames = [j \in Job |-> 0]
    /\ reports = [j \in Job |-> <<>>]
    /\ disk \in [File -> {nil, Old}]
    /\ reads = {} /\ shows = <<>> /\ shown = nil

\* _showFinishedPdf, called with the file's name from the kit's success block.
Reported == busy = "no" /\ busy' = "saving" /\ outputFile # nil

KitStep ==
    /\ Next
    /\ reads' = IF Reported THEN reads \cup {<<webView, outputFile>>} ELSE reads
    /\ UNCHANGED <<shows, shown>>

\* dataWithContentsOfFile: on a global queue, whatever the main thread does; no
\* data, nothing to show.
Read(r) ==
    /\ r \in reads
    /\ reads' = reads \ {r}
    /\ shows' = IF disk[r[2]] = nil THEN shows ELSE Append(shows, <<r[1], disk[r[2]]>>)
    /\ UNCHANGED <<vars, shown>>

Show ==
    /\ busy = "no"
    /\ shows # <<>>
    /\ shown' = Head(shows)
    /\ shows' = Tail(shows)
    /\ UNCHANGED <<vars, reads>>

ToPdfNext == KitStep \/ (\E r \in reads : Read(r)) \/ Show

allVars == <<vars, readerVars>>

ToPdfSpec == ToPdfInit /\ [][ToPdfNext]_allVars /\ Fairness
-----------------------------------------------------------------------------
\* A reader never sees a file that is being written: it is replaced in one step.
NeverShowsATornFile == \A i \in DOMAIN shows : shows[i][2] # torn

\* The PDF has been generated when the success block is called (BNHtmlPdfKit.h:167):
\* the read that block sends off finds the PDF of its job.
ReadFindsItsPdf ==
    \A r \in reads : disk[r[2]] \notin {nil, torn, Old} /\ disk[r[2]].of = r[1]
=============================================================================
