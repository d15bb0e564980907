------------------------------ MODULE HtmlPdfKit ------------------------------
(***************************************************************************)
(* BNHtmlPdfKit: one kit that turns the pages its clients give it into PDF  *)
(* files.  A job is one call of a save method; its page loads in a web view *)
(* whose delegate messages, like the client's calls and the one second      *)
(* timer, are steps of the main thread.  Saving takes several of them: the  *)
(* client's blocks are called first, and may start the next job, then the   *)
(* file is written.  UIWebView and the run loop's timers are external.      *)
(***************************************************************************)
EXTENDS Naturals, Sequences

CONSTANTS
    Job,         \* the calls of save methods
    External,    \* those of saveWebViewAsPdf, whose web view the client keeps
    File,        \* file names
    nil,
    torn,        \* what a file holds while it is being overwritten
    Frames,      \* bound: frames of a page
    Overlap,     \* may a client start a job while another is in progress?
    Reentrant    \* may a client start a job from the blocks the kit calls?

ASSUME JobAssumption    == External \subseteq Job /\ nil \notin Job \cup File /\ torn # nil
ASSUME FramesAssumption == Frames \in Nat \ {0}
ASSUME ClientAssumption == Overlap \in BOOLEAN /\ Reentrant \in BOOLEAN

VARIABLES
    webView,     \* self.webView: the job it was made for, or nil
    outputFile,  \* self.outputFile
    request,     \* the file each job was started with, nil for data only
    page,        \* what has happened to the job's page
    frames,      \* how many of its frames are still to load
    timer,       \* the job that armed the pending _timeout, or nil
    busy,        \* what the main thread is in the middle of
    pdf,         \* the PDF being saved, nil before the first
    reports,     \* what the client's blocks have been told about each job
    disk         \* what the files hold: nil, torn, or a PDF

pageVars == <<page, frames>>
vars == <<webView, outputFile, request, pageVars, timer, busy, pdf, reports, disk>>
-----------------------------------------------------------------------------
Page == {"new", "loading", "complete", "failed"}

\* A PDF: the job whose page it shows, and whether that page was complete.
PDF == [of : Job, whole : BOOLEAN]

Init ==
    /\ webView = nil
    /\ outputFile = nil
    /\ request = [j \in Job |-> nil]
    /\ page = [j \in Job |-> "new"]
    /\ frames = [j \in Job |-> 0]
    /\ timer = nil
    /\ busy = "no"
    /\ pdf = nil
    /\ reports = [j \in Job |-> <<>>]
    /\ disk = [f \in File |-> nil]

\* A web view of the kit's own is freed with the kit's reference to it; one that
\* the client keeps goes on sending to the kit, which is still its delegate.
SendsMessages(j) == busy = "no" /\ (webView = j \/ j \in External)
-----------------------------------------------------------------------------
(* The client starts a job.                                                *)

\* In between two jobs, during one, or inside a block or delegate's method that the
\* kit calls: before the file is written, once it is, and after a failure.
MayStart ==
    CASE busy = "no"                     -> webView = nil \/ Overlap
      [] busy \in {"saving", "failing"}  -> Reentrant
      [] busy = "written"                -> Reentrant /\ outputFile # nil
      [] OTHER                           -> FALSE

\* The file to write is that of the new job; the variant keeps the last one when
\* the new job has none.
LastFile(file) == IF file = nil THEN outputFile ELSE file
NewFile(file)  == file

Start(j, file, n) ==
    /\ MayStart
    /\ page[j] = "new"
    /\ page' = [page EXCEPT ![j] = IF n = 0 THEN "complete" ELSE "loading"]
    /\ frames' = [frames EXCEPT ![j] = n]
    /\ webView' = j
    /\ outputFile' = NewFile(file)
    /\ request' = [request EXCEPT ![j] = file]
    /\ UNCHANGED <<busy, pdf, reports, disk>>

\* saveHtmlAsPdf:toFile: and saveUrlAsPdf:toFile: make a web view and load it.
saveUrlAsPdf(j, file) ==
    /\ j \notin External
    /\ \E n \in 1 .. Frames : Start(j, file, n)
    /\ UNCHANGED timer

\* saveWebViewAsPdf:toFile: takes over a web view that loads, or has loaded.
saveWebViewAsPdf(j, file) ==
    /\ j \in External
    /\ \E n \in 0 .. Frames : Start(j, file, n)
    /\ timer' = nil
-----------------------------------------------------------------------------
(* _savePdf.                                                               *)

\* It returns at once when there is no web view; the variant does not ask.
NeverReturnsEarly == FALSE
NothingToSave     == webView = nil

CompletePages == {j \in Job : page[j] = "complete"}

\* Render what the page shows by now and call the completion blocks.
BeginSave ==
    IF NothingToSave
    THEN UNCHANGED <<busy, pdf, reports>>
    ELSE /\ busy' = "saving"
         /\ pdf' = [of |-> webView, whole |-> webView \in CompletePages']
         /\ reports' = [reports EXCEPT ![webView] = Append(@, "success")]

\* The blocks have returned: outputFile is loaded anew and written, if it is
\* not nil.  What the file holds meanwhile: it is written atomically; the
\* variant truncates it.
Truncated(old)      == torn
DuringTheWrite(old) == old

\* The web view is let go of; the variant keeps it.
KeptWebView      == webView
WebViewAfterSave == nil

BeginWrite ==
    /\ busy = "saving"
    /\ busy' = "writing"
    /\ disk' = IF outputFile = nil THEN disk
               ELSE [disk EXCEPT ![outputFile] = DuringTheWrite(@)]
    /\ UNCHANGED <<webView, outputFile, request, pageVars, timer, pdf, reports>>

EndWrite ==
    /\ busy = "writing"
    /\ busy' = "written"
    /\ disk' = IF outputFile = nil THEN disk ELSE [disk EXCEPT ![outputFile] = pdf]
    /\ UNCHANGED <<webView, outputFile, request, pageVars, timer, pdf, reports>>

EndSave ==
    /\ busy = "written"
    /\ busy' = "no"
    /\ webView' = WebViewAfterSave
    /\ UNCHANGED <<outputFile, request, pageVars, timer, pdf, reports, disk>>
-----------------------------------------------------------------------------
(* Delegate messages and the timer.                                        *)

\* Each message cancels the timer that an earlier one armed; the variant leaves
\* it running.
LeftRunning(j) == timer
TimerAfterMessage(j) == nil

\* A page that is not complete arms it anew; the variant forgets to.
NotArmed(j) == nil
Armed(j)    == j

\* A message comes for each frame.
FrameLoads(j) == page[j] = "loading" /\ frames[j] > 0

\* webViewDidFinishLoad:, once for each frame.  The document may be complete
\* with the last one; if it is not, wait a second and save what there is.
webViewDidFinishLoad(j, complete) ==
    /\ SendsMessages(j)
    /\ FrameLoads(j)
    /\ complete => frames[j] = 1
    /\ frames' = [frames EXCEPT ![j] = @ - 1]
    /\ IF complete
       THEN /\ page' = [page EXCEPT ![j] = "complete"]
            /\ timer' = TimerAfterMessage(j)
            /\ BeginSave
       ELSE /\ timer' = Armed(j)
            /\ UNCHANGED <<page, busy, pdf, reports>>
    /\ UNCHANGED <<webView, outputFile, request, disk>>

\* A document whose frames have loaded becomes complete without a message.
PageCompletes(j) ==
    /\ page[j] = "loading" /\ frames[j] = 0
    /\ page' = [page EXCEPT ![j] = "complete"]
    /\ UNCHANGED <<webView, outputFile, request, frames, timer, busy, pdf, reports, disk>>

\* webView:didFailLoadWithError: calls the failure block.  The page has failed, or one
\* of its frames has: a web view that the client keeps then goes on with the others.
didFailLoadWithError(j) ==
    /\ SendsMessages(j)
    /\ FrameLoads(j)
    /\ \/ page' = [page EXCEPT ![j] = "failed"] /\ UNCHANGED frames
       \/ j \in External /\ frames' = [frames EXCEPT ![j] = @ - 1] /\ UNCHANGED page
    /\ timer' = TimerAfterMessage(j)
    /\ busy' = "failing"
    /\ reports' = [reports EXCEPT ![j] = Append(@, "failure")]
    /\ UNCHANGED <<webView, outputFile, request, pdf, disk>>

EndFailure ==
    /\ busy = "failing"
    /\ busy' = "no"
    /\ webView' = nil
    /\ UNCHANGED <<outputFile, request, pageVars, timer, pdf, reports, disk>>

_timeout ==
    /\ busy = "no"
    /\ timer # nil
    /\ timer' = nil
    /\ UNCHANGED <<webView, outputFile, request, pageVars, disk>>
    /\ BeginSave
-----------------------------------------------------------------------------
LoadEvent(j) ==
    \/ \E complete \in BOOLEAN : webViewDidFinishLoad(j, complete)
    \/ didFailLoadWithError(j)

Next ==
    \/ \E j \in Job, file \in File \cup {nil} :
          saveUrlAsPdf(j, file) \/ saveWebViewAsPdf(j, file)
    \/ \E j \in Job : LoadEvent(j) \/ PageCompletes(j)
    \/ _timeout
    \/ BeginWrite
    \/ EndWrite
    \/ EndSave
    \/ EndFailure

\* A load ends or fails, a timer fires, and the main thread finishes what it began.
Fairness ==
    /\ \A j \in Job : WF_vars(LoadEvent(j))
    /\ WF_vars(_timeout)
    /\ WF_vars(BeginWrite) /\ WF_vars(EndWrite) /\ WF_vars(EndSave) /\ WF_vars(EndFailure)

Spec == Init /\ [][Next]_vars /\ Fairness
-----------------------------------------------------------------------------
(* Properties.                                                             *)

\* Every variable has its type.
TypeOK ==
    /\ webView \in Job \cup {nil}
    /\ outputFile \in File \cup {nil}
    /\ request \in [Job -> File \cup {nil}]
    /\ page \in [Job -> Page]
    /\ frames \in [Job -> 0 .. Frames]
    /\ timer \in Job \cup {nil}
    /\ busy \in {"no", "saving", "writing", "written", "failing"}
    /\ pdf \in PDF \cup {nil}
    /\ reports \in [Job -> Seq({"success", "failure"})]
    /\ disk \in [File -> PDF \cup {nil, torn}]

\* A job is reported once: neither two successes nor a failure after a success
\* (the delegate messages, _timeout and `webView = nil` together).
OneReportPerJob == \A j \in Job : Len(reports[j]) <= 1

\* The file a job asked for is the one its PDF is written to.
FileHoldsItsJob ==
    \A f \in File : disk[f] \notin {nil, torn} => request[disk[f].of] = f

\* A page is saved half loaded only when the second it was given has passed:
\* the timer that fires was armed by the page that is saved.
NoPrematureSave ==
    [][timer # nil /\ timer' = nil /\ busy' = "saving" /\ ~pdf'.whole
          => timer = pdf'.of]_vars

\* Each job is reported in the end, by success or by failure.
EveryJobIsReported ==
    \A j \in Job : page[j] # "new" ~> reports[j] # <<>>
=============================================================================
