--------------------------- MODULE HtmlPdfKitProofs ---------------------------
(***************************************************************************)
(* Theorems about HtmlPdfKit for any jobs, files and frames.               *)
(***************************************************************************)
EXTENDS HtmlPdfKit, SequenceTheorems, TLAPS

\* Reporting to a job's client adds one report to that job's.
LEMMA ReportTyped ==
    ASSUME NEW j \in Job, TypeOK, NEW how \in {"success", "failure"}
    PROVE  [reports EXCEPT ![j] = Append(@, how)] \in [Job -> Seq({"success", "failure"})]
<1>1. Append(reports[j], how) \in Seq({"success", "failure"})
  BY AppendProperties DEF TypeOK
<1> QED
  BY <1>1 DEF TypeOK

\* The PDF that _savePdf renders is of the page in the web view.
LEMMA PDFSaved ==
    ASSUME TypeOK, BeginSave, webView # nil
    PROVE  busy' = "saving" /\ pdf' \in PDF /\ pdf'.of = webView
<1> DEFINE whole == webView \in CompletePages'
<1>1. busy' = "saving" /\ pdf' = [of |-> webView, whole |-> whole]
  BY DEF BeginSave, NothingToSave
<1>2. whole \in BOOLEAN /\ webView \in Job
  BY DEF TypeOK
<1> HIDE DEF whole
<1> QED
  BY <1>1, <1>2 DEF PDF

\* _savePdf leaves the three variables it writes first well typed.
LEMMA BeginSaveTyped ==
    ASSUME TypeOK, BeginSave
    PROVE  /\ busy' \in {"no", "saving", "writing", "written", "failing"}
           /\ pdf' \in PDF \cup {nil}
           /\ reports' \in [Job -> Seq({"success", "failure"})]
<1>1. CASE webView = nil
  BY <1>1 DEF BeginSave, NothingToSave, TypeOK
<1>2. CASE webView # nil
  <2>1. webView \in Job
    BY <1>2 DEF TypeOK
  <2>2. busy' = "saving" /\ pdf' \in PDF
    BY <1>2, PDFSaved
  <2>3. reports' \in [Job -> Seq({"success", "failure"})]
    BY <1>2, <2>1, ReportTyped DEF BeginSave, NothingToSave
  <2> QED
    BY <2>2, <2>3
<1> QED
  BY <1>1, <1>2

\* Each variable keeps its type.
LEMMA TypeStep == TypeOK /\ [Next]_vars => TypeOK'
<1> SUFFICES ASSUME TypeOK, [Next]_vars PROVE TypeOK'
  OBVIOUS
<1>1. ASSUME NEW j \in Job, NEW file \in File \cup {nil}, NEW n \in 0 .. Frames,
             Start(j, file, n), timer' \in {nil, timer}
      PROVE  TypeOK'
  BY <1>1 DEF Start, NewFile, TypeOK, Page
<1>2. ASSUME NEW j \in Job, NEW file \in File \cup {nil}, saveUrlAsPdf(j, file)
      PROVE  TypeOK'
  <2>1. PICK n \in 1 .. Frames : Start(j, file, n)
    BY <1>2 DEF saveUrlAsPdf
  <2>2. n \in 0 .. Frames
    BY FramesAssumption
  <2> QED
    BY <1>1, <1>2, <2>1, <2>2 DEF saveUrlAsPdf
<1>3. ASSUME NEW j \in Job, NEW file \in File \cup {nil}, saveWebViewAsPdf(j, file)
      PROVE  TypeOK'
  BY <1>1, <1>3 DEF saveWebViewAsPdf
<1>4. ASSUME NEW j \in Job, NEW complete \in BOOLEAN, webViewDidFinishLoad(j, complete)
      PROVE  TypeOK'
  <2>1. frames' \in [Job -> 0 .. Frames]
    BY <1>4, FramesAssumption DEF webViewDidFinishLoad, FrameLoads, TypeOK
  <2>2. CASE complete
    BY <1>4, <2>1, <2>2, BeginSaveTyped
       DEF webViewDidFinishLoad, TimerAfterMessage, TypeOK, Page
  <2>3. CASE ~complete
    BY <1>4, <2>1, <2>3 DEF webViewDidFinishLoad, Armed, TypeOK
  <2> QED
    BY <2>2, <2>3
<1>5. ASSUME NEW j \in Job, didFailLoadWithError(j) PROVE TypeOK'
  <2>1. reports' \in [Job -> Seq({"success", "failure"})]
    BY <1>5, ReportTyped DEF didFailLoadWithError
  <2>2. frames' \in [Job -> 0 .. Frames]
    <3>1. frames[j] \in 0 .. Frames /\ frames[j] > 0
      BY <1>5 DEF didFailLoadWithError, FrameLoads, TypeOK
    <3>2. frames[j] - 1 \in 0 .. Frames
      BY <3>1, FramesAssumption
    <3>3. frames' = frames \/ frames' = [frames EXCEPT ![j] = frames[j] - 1]
      BY <1>5 DEF didFailLoadWithError
    <3> QED
      BY <3>2, <3>3 DEF TypeOK
  <2>3. page' \in [Job -> Page]
    BY <1>5 DEF didFailLoadWithError, TypeOK, Page
  <2> QED
    BY <1>5, <2>1, <2>2, <2>3 DEF didFailLoadWithError, TimerAfterMessage, TypeOK
<1>6. ASSUME NEW j \in Job, PageCompletes(j) PROVE TypeOK'
  BY <1>6 DEF PageCompletes, TypeOK, Page
<1>7. CASE _timeout
  BY <1>7, BeginSaveTyped DEF _timeout, TypeOK, pageVars
<1>8. CASE BeginWrite
  BY <1>8 DEF BeginWrite, DuringTheWrite, TypeOK, pageVars
<1>9. CASE EndWrite \/ EndSave
  BY <1>9 DEF EndWrite, EndSave, WebViewAfterSave, TypeOK, pageVars
<1>10. CASE EndFailure
  BY <1>10 DEF EndFailure, TypeOK, pageVars
<1>11. CASE UNCHANGED vars
  BY <1>11 DEF vars, TypeOK, pageVars
<1> QED
  BY <1>2, <1>3, <1>4, <1>5, <1>6, <1>7, <1>8, <1>9, <1>10, <1>11 DEF Next, LoadEvent

\* The type invariant holds in every state.
THEOREM TypeCorrect == Spec => []TypeOK
<1>1. Init => TypeOK
  <2>1. <<>> \in Seq({"success", "failure"})
    OBVIOUS
  <2> QED
    BY <2>1, FramesAssumption DEF Init, TypeOK, Page
<1> QED
  BY <1>1, TypeStep, PTL DEF Spec
-----------------------------------------------------------------------------
(* The right file, when no client starts a job from a block of the kit's.    *)

Started(j) == page[j] # "new"

\* The web view and the output file belong to one job, which has started.
ViewHasItsFile == webView # nil => Started(webView) /\ request[webView] = outputFile

\* So do the PDF that is being saved and the output file.
SavesToItsFile ==
    busy \in {"saving", "writing"} =>
        pdf \in PDF /\ Started(pdf.of) /\ request[pdf.of] = outputFile

\* What files hold was made by jobs that have started and keep their request.
FilesOfStartedJobs ==
    \A f \in File : disk[f] \notin {nil, torn} => Started(disk[f].of)

FileInv == TypeOK /\ ViewHasItsFile /\ SavesToItsFile /\ FilesOfStartedJobs /\ FileHoldsItsJob

LEMMA FileInit == Init => FileInv
<1> SUFFICES ASSUME Init PROVE FileInv
  OBVIOUS
<1>1. TypeOK
  <2>1. <<>> \in Seq({"success", "failure"})
    OBVIOUS
  <2> QED
    BY <2>1, FramesAssumption DEF Init, TypeOK, Page
<1> QED
  BY <1>1 DEF Init, FileInv, ViewHasItsFile, SavesToItsFile, FilesOfStartedJobs, FileHoldsItsJob

LEMMA FileStep == ASSUME ~Reentrant PROVE FileInv /\ [Next]_vars => FileInv'
<1> SUFFICES ASSUME FileInv, [Next]_vars PROVE FileInv'
  OBVIOUS
<1>t. TypeOK /\ TypeOK'
  BY TypeStep DEF FileInv
<1> DEFINE Good == /\ ViewHasItsFile' /\ SavesToItsFile'
                   /\ FilesOfStartedJobs' /\ FileHoldsItsJob'
<1> USE DEF FileInv, ViewHasItsFile, SavesToItsFile, FilesOfStartedJobs, FileHoldsItsJob, Started
<1> SUFFICES Good
  BY <1>t
\* A job starts between two others: its page was new, so no PDF is of it.
<1>1. ASSUME NEW j \in Job, NEW file \in File \cup {nil}, NEW n \in 0 .. Frames, Start(j, file, n)
      PROVE  Good
  <2>1. busy = "no"
    BY <1>t, <1>1 DEF Start, MayStart, TypeOK
  <2>2. ViewHasItsFile' /\ SavesToItsFile'
    BY <1>t, <1>1, <2>1 DEF Start, NewFile, TypeOK
  <2>3. ASSUME NEW f \in File, disk'[f] \notin {nil, torn}
        PROVE  page'[disk'[f].of] # "new" /\ request'[disk'[f].of] = f
    <3>1. disk[f] \in PDF /\ disk[f].of \in Job /\ disk[f].of # j
      BY <1>t, <1>1, <2>3 DEF Start, TypeOK, PDF
    <3> QED
      BY <1>t, <1>1, <2>3, <3>1 DEF Start, TypeOK
  <2> QED
    BY <2>2, <2>3
<1>2. ASSUME NEW j \in Job, NEW file \in File \cup {nil}, saveUrlAsPdf(j, file)
      PROVE  Good
  <2>1. PICK n \in 1 .. Frames : Start(j, file, n)
    BY <1>2 DEF saveUrlAsPdf
  <2>2. n \in 0 .. Frames
    BY FramesAssumption
  <2> HIDE DEF Good
  <2> QED
    BY <1>1, <2>1, <2>2
<1>3. ASSUME NEW j \in Job, NEW file \in File \cup {nil}, saveWebViewAsPdf(j, file)
      PROVE  Good
  <2> HIDE DEF Good
  <2> QED
    BY <1>1, <1>3 DEF saveWebViewAsPdf
\* A step that changes pages only from "loading" on, and perhaps begins a save.
<1>4. ASSUME \A j \in Job : page[j] # "new" => page'[j] # "new",
             UNCHANGED <<webView, outputFile, request, disk>>,
             BeginSave \/ (UNCHANGED pdf /\ (busy' = busy \/ busy' = "failing"))
      PROVE  Good
  <2>1. ViewHasItsFile'
    BY <1>t, <1>4 DEF TypeOK
  <2>2. SavesToItsFile'
    <3>1. CASE BeginSave /\ webView # nil
      <4>1. pdf'.of = webView /\ pdf' \in PDF
        BY <1>t, <3>1, PDFSaved
      <4>2. webView \in Job
        BY <1>t, <3>1 DEF TypeOK
      <4> QED
        BY <1>4, <3>1, <4>1, <4>2
    <3>2. CASE ~(BeginSave /\ webView # nil)
      <4>1. pdf' = pdf /\ (busy' = busy \/ busy' = "failing")
        BY <1>4, <3>2 DEF BeginSave, NothingToSave
      <4> QED
        BY <1>t, <1>4, <4>1 DEF TypeOK, PDF
    <3> QED
      BY <3>1, <3>2
  <2>3. FilesOfStartedJobs' /\ FileHoldsItsJob'
    BY <1>t, <1>4 DEF TypeOK, PDF
  <2> QED
    BY <2>1, <2>2, <2>3
<1>5. ASSUME NEW j \in Job, NEW complete \in BOOLEAN, webViewDidFinishLoad(j, complete)
      PROVE  Good
  <2> HIDE DEF Good
  <2> QED
    BY <1>t, <1>4, <1>5 DEF webViewDidFinishLoad, TypeOK
<1>6. ASSUME NEW j \in Job, didFailLoadWithError(j) PROVE Good
  <2> HIDE DEF Good
  <2> QED
    BY <1>t, <1>4, <1>6 DEF didFailLoadWithError, TypeOK
<1>7. ASSUME NEW j \in Job, PageCompletes(j) PROVE Good
  <2> HIDE DEF Good
  <2> QED
    BY <1>t, <1>4, <1>7 DEF PageCompletes, TypeOK
<1>8. CASE _timeout
  <2> HIDE DEF Good
  <2> QED
    BY <1>t, <1>4, <1>8 DEF _timeout, pageVars
<1>9. CASE BeginWrite
  BY <1>t, <1>9 DEF BeginWrite, DuringTheWrite, pageVars, TypeOK
\* The PDF goes to the output file, which is still that of its job.
<1>10. CASE EndWrite
  <2>1. busy = "writing" /\ busy' = "written" /\ UNCHANGED <<webView, outputFile, page, request>>
    BY <1>10 DEF EndWrite, pageVars
  <2>2. ASSUME NEW f \in File, disk'[f] \notin {nil, torn}
        PROVE  page'[disk'[f].of] # "new" /\ request'[disk'[f].of] = f
    <3>1. CASE disk'[f] = disk[f]
      BY <1>t, <2>1, <2>2, <3>1
    <3>2. CASE disk'[f] # disk[f]
      <4>1. outputFile = f /\ disk'[f] = pdf
        BY <1>t, <1>10, <3>2 DEF EndWrite, TypeOK
      <4> QED
        BY <1>t, <2>1, <4>1
    <3> QED
      BY <3>1, <3>2
  <2> QED
    BY <2>1, <2>2
<1>11. CASE EndSave \/ EndFailure
  BY <1>t, <1>11 DEF EndSave, EndFailure, WebViewAfterSave, pageVars, TypeOK
<1>12. CASE UNCHANGED vars
  BY <1>t, <1>12 DEF vars, pageVars, TypeOK
<1> HIDE DEF Good
<1> QED
  BY <1>2, <1>3, <1>5, <1>6, <1>7, <1>8, <1>9, <1>10, <1>11, <1>12 DEF Next, LoadEvent

\* A file never holds the PDF of a job that was started with another file, if no
\* client starts a job from a block the kit is calling.
THEOREM FilesHoldTheirJobs == ASSUME ~Reentrant PROVE Spec => []FileHoldsItsJob
<1>1. FileInv => FileHoldsItsJob
  BY DEF FileInv
<1> QED
  BY <1>1, FileInit, FileStep, PTL DEF Spec
-----------------------------------------------------------------------------
(* One report for each job, when all web views are the kit's own.           *)

\* A job that was reported has started, and is in the web view only while the main
\* thread is still in the save or the failure that reported it.
ReportedOnce(j) ==
    /\ Len(reports[j]) <= 1
    /\ reports[j] # <<>> => Started(j) /\ (webView = j => busy # "no")

ReportInv ==
    /\ TypeOK
    /\ webView # nil => Started(webView)
    /\ \A j \in Job : ReportedOnce(j)

LEMMA ReportInit == Init => ReportInv
  BY FileInit DEF Init, FileInv, ReportInv, ReportedOnce

\* One report more is the first, if there was none.
LEMMA FirstReport ==
    ASSUME TypeOK, NEW j \in Job, reports[j] = <<>>, NEW how \in {"success", "failure"},
           reports' = [reports EXCEPT ![j] = Append(@, how)]
    PROVE  /\ Len(reports'[j]) = 1
           /\ \A k \in Job \ {j} : reports'[k] = reports[k]
<1>1. reports'[j] = Append(<<>>, how)
  BY DEF TypeOK
<1> QED
  BY <1>1 DEF TypeOK

\* _savePdf reports the job in the web view, which was not reported yet.
LEMMA SaveReportsOnce ==
    ASSUME ReportInv, BeginSave, busy = "no", webView' = webView,
           \A j \in Job : page[j] # "new" => page'[j] # "new"
    PROVE  (webView' # nil => Started(webView)') /\ \A j \in Job : ReportedOnce(j)'
<1> USE DEF ReportInv, Started
<1>1. webView' # nil => Started(webView)'
  BY DEF TypeOK
<1>2. CASE webView = nil
  <2>1. UNCHANGED <<busy, reports>>
    BY <1>2 DEF BeginSave, NothingToSave
  <2> QED
    BY <1>1, <1>2, <2>1 DEF ReportedOnce, TypeOK
<1>3. CASE webView # nil
  <2>1. webView \in Job /\ reports[webView] = <<>>
    BY <1>3 DEF ReportedOnce, TypeOK
  <2>2. busy' = "saving" /\ reports' = [reports EXCEPT ![webView] = Append(@, "success")]
    BY <1>3 DEF BeginSave, NothingToSave
  <2>3. Len(reports'[webView]) = 1 /\ \A k \in Job \ {webView} : reports'[k] = reports[k]
    BY <2>1, <2>2, FirstReport
  <2>4. ASSUME NEW j \in Job PROVE ReportedOnce(j)'
    BY <1>3, <2>1, <2>2, <2>3 DEF ReportedOnce
  <2> QED
    BY <1>1, <2>4
<1> QED
  BY <1>2, <1>3

LEMMA ReportStep == ASSUME External = {} PROVE ReportInv /\ [Next]_vars => ReportInv'
<1> SUFFICES ASSUME ReportInv, [Next]_vars PROVE ReportInv'
  OBVIOUS
<1>t. TypeOK /\ TypeOK'
  BY TypeStep DEF ReportInv
<1> DEFINE Good == (webView # nil => Started(webView)) /\ \A j \in Job : ReportedOnce(j)
<1> SUFFICES Good'
  BY <1>t DEF ReportInv
<1>g. Good
  BY DEF ReportInv
<1> USE <1>t, <1>g DEF Started, ReportedOnce
<1>1. ASSUME NEW j \in Job, NEW file \in File \cup {nil}, saveUrlAsPdf(j, file)
      PROVE  Good'
  BY <1>1 DEF saveUrlAsPdf, Start, TypeOK
<1>2. ASSUME NEW j \in Job, NEW file \in File \cup {nil}, saveWebViewAsPdf(j, file)
      PROVE  FALSE
  BY <1>2 DEF saveWebViewAsPdf
<1>3. ASSUME NEW j \in Job, NEW complete \in BOOLEAN, webViewDidFinishLoad(j, complete)
      PROVE  Good'
  <2>1. webView = j /\ busy = "no" /\ webView' = webView
    BY <1>3 DEF webViewDidFinishLoad, SendsMessages
  <2>2. CASE complete
    <3>1. BeginSave /\ page' = [page EXCEPT ![j] = "complete"]
      BY <1>3, <2>2 DEF webViewDidFinishLoad
    <3> QED
      BY <2>1, <3>1, SaveReportsOnce DEF TypeOK
  <2>3. CASE ~complete
    BY <1>3, <2>3 DEF webViewDidFinishLoad
  <2> QED
    BY <2>2, <2>3
<1>4. ASSUME NEW j \in Job, didFailLoadWithError(j) PROVE Good'
  <2>1. /\ webView = j /\ busy = "no" /\ busy' = "failing" /\ webView' = webView
        /\ page' = [page EXCEPT ![j] = "failed"]
        /\ reports' = [reports EXCEPT ![j] = Append(@, "failure")]
    BY <1>4 DEF didFailLoadWithError, SendsMessages
  <2>2. reports[j] = <<>>
    BY <2>1
  <2>3. Len(reports'[j]) = 1 /\ \A k \in Job \ {j} : reports'[k] = reports[k]
    BY <2>1, <2>2, FirstReport
  <2> QED
    BY <2>1, <2>3 DEF TypeOK
<1>5. ASSUME NEW j \in Job, PageCompletes(j) PROVE Good'
  BY <1>5 DEF PageCompletes, TypeOK
<1>6. ASSUME _timeout PROVE Good'
  BY <1>6, SaveReportsOnce DEF _timeout, pageVars
<1>7. ASSUME BeginWrite \/ EndWrite PROVE Good'
  BY <1>7 DEF BeginWrite, EndWrite, pageVars
<1>8. ASSUME EndSave \/ EndFailure PROVE Good'
  <2>1. webView' = nil /\ UNCHANGED <<page, reports>>
    BY <1>8 DEF EndSave, EndFailure, WebViewAfterSave, pageVars
  <2>2. \A j \in Job : j # nil
    BY JobAssumption
  <2> QED
    BY <2>1, <2>2
<1>9. ASSUME UNCHANGED vars PROVE Good'
  BY <1>9 DEF vars, pageVars
<1> HIDE DEF Good
<1> QED
  BY <1>1, <1>2, <1>3, <1>4, <1>5, <1>6, <1>7, <1>8, <1>9 DEF Next, LoadEvent

\* A job is reported once, however jobs overlap and wherever they are started, when
\* no client keeps a web view whose delegate is the kit: `webView = nil` (:489) after
\* the blocks is what silences the messages still to come.
THEOREM JobsAreReportedOnce == ASSUME External = {} PROVE Spec => []OneReportPerJob
<1>1. ReportInv => OneReportPerJob
  BY DEF ReportInv, ReportedOnce, OneReportPerJob
<1> QED
  BY <1>1, ReportInit, ReportStep, PTL DEF Spec
-----------------------------------------------------------------------------
(* No page is saved early, when jobs come one after the other.              *)

\* A pending timer is that of the page in the web view.
TimerInv == TypeOK /\ (timer # nil => timer = webView /\ busy = "no")

LEMMA TimerStep ==
    ASSUME External = {}, ~Overlap, ~Reentrant
    PROVE  TimerInv /\ [Next]_vars => TimerInv'
<1> SUFFICES ASSUME TimerInv, [Next]_vars PROVE TimerInv'
  OBVIOUS
<1>t. TypeOK /\ TypeOK'
  BY TypeStep DEF TimerInv
<1> DEFINE Good == timer # nil => timer = webView /\ busy = "no"
<1> SUFFICES Good'
  BY <1>t DEF TimerInv
<1> USE <1>t DEF TimerInv
<1>1. ASSUME NEW j \in Job, NEW file \in File \cup {nil},
             saveUrlAsPdf(j, file) \/ saveWebViewAsPdf(j, file)
      PROVE  Good'
  <2>1. busy = "no" /\ webView = nil
    BY <1>1 DEF saveUrlAsPdf, saveWebViewAsPdf, Start, MayStart, TypeOK
  <2>2. timer = nil /\ timer' = timer
    BY <1>1, <2>1 DEF saveUrlAsPdf, saveWebViewAsPdf
  <2> QED
    BY <2>2
<1>2. ASSUME NEW j \in Job, NEW complete \in BOOLEAN, webViewDidFinishLoad(j, complete)
      PROVE  Good'
  <2>1. webView' = j /\ busy = "no"
    BY <1>2 DEF webViewDidFinishLoad, SendsMessages
  <2>2. IF complete THEN timer' = nil ELSE timer' = j /\ busy' = busy
    BY <1>2 DEF webViewDidFinishLoad, TimerAfterMessage, Armed
  <2> QED
    BY <2>1, <2>2
<1>3. ASSUME NEW j \in Job, didFailLoadWithError(j) PROVE Good'
  BY <1>3 DEF didFailLoadWithError, TimerAfterMessage
<1>4. ASSUME NEW j \in Job, PageCompletes(j) PROVE Good'
  BY <1>4 DEF PageCompletes
<1>5. ASSUME _timeout PROVE Good'
  BY <1>5 DEF _timeout
<1>6. ASSUME BeginWrite \/ EndWrite \/ EndSave \/ EndFailure PROVE Good'
  BY <1>6 DEF BeginWrite, EndWrite, EndSave, EndFailure
<1>7. ASSUME UNCHANGED vars PROVE Good'
  BY <1>7 DEF vars
<1> HIDE DEF Good
<1> QED
  BY <1>1, <1>2, <1>3, <1>4, <1>5, <1>6, <1>7 DEF Next, LoadEvent

\* When jobs come one after the other in the kit's own web views, a page is saved
\* half loaded only by the timer it armed itself.
THEOREM PagesGetTheirSecond ==
    ASSUME External = {}, ~Overlap, ~Reentrant
    PROVE  Spec => NoPrematureSave
<1> DEFINE Early == timer # nil /\ timer' = nil /\ busy' = "saving" /\ ~pdf'.whole => timer = pdf'.of
<1>1. TimerInv /\ [Next]_vars => Early
  <2> SUFFICES ASSUME TimerInv, [Next]_vars, timer # nil, timer' = nil, busy' = "saving", ~pdf'.whole
               PROVE  timer = pdf'.of
    OBVIOUS
  <2>1. TypeOK /\ timer = webView /\ busy = "no"
    BY DEF TimerInv
  <2>2. BeginSave
    BY <2>1 DEF Next, LoadEvent, saveUrlAsPdf, saveWebViewAsPdf, Start, webViewDidFinishLoad,
       didFailLoadWithError, PageCompletes, _timeout, BeginWrite, EndWrite, EndSave, EndFailure, vars
  <2> QED
    BY <2>1, <2>2, PDFSaved
<1>2. Init => TimerInv
  BY FileInit DEF Init, FileInv, TimerInv
<1> QED
  BY <1>1, <1>2, TimerStep, PTL DEF Spec, NoPrematureSave
=============================================================================
