---------------------------- MODULE HtmlToPdfProofs ----------------------------
(***************************************************************************)
(* Theorems about HtmlToPdf for any jobs, files and frames, whether clients *)
(* start jobs during others or not.                                        *)
(***************************************************************************)
EXTENDS HtmlToPdf, SequenceTheorems, TLAPS

\* What a file holds when it is there: nothing of it is torn.
Whole == PDF \cup {Old}

\* The part of the kit's state that reaches a file, and what is read from one.
WholeFiles ==
    /\ webView \in Job \cup {nil}
    /\ outputFile \in File \cup {nil}
    /\ pdf \in PDF \cup {nil}
    /\ disk \in [File -> Whole \cup {nil}]

WholeReads ==
    /\ reads \subseteq Job \X File
    /\ shows \in Seq(Job \X Whole)

ReaderInv == WholeFiles /\ WholeReads

\* _savePdf renders the page of the job whose web view the kit holds.
LEMMA SavedIsWhole ==
    ASSUME WholeFiles, BeginSave
    PROVE  pdf' \in PDF \cup {nil}
<1>1. CASE webView = nil
  BY <1>1 DEF BeginSave, NothingToSave, WholeFiles
<1>2. CASE webView # nil
  <2> DEFINE whole == webView \in CompletePages'
  <2>1. pdf' = [of |-> webView, whole |-> whole] /\ webView \in Job
    BY <1>2 DEF BeginSave, NothingToSave, WholeFiles
  <2>2. whole \in BOOLEAN
    OBVIOUS
  <2> HIDE DEF whole
  <2> QED
    BY <2>1, <2>2 DEF PDF
<1> QED
  BY <1>1, <1>2

\* A step of the kit leaves every file whole: it is written in one step, with a PDF.
LEMMA KitKeepsFilesWhole ==
    ASSUME WholeFiles, Next
    PROVE  WholeFiles'
<1>1. ASSUME NEW j \in Job, NEW file \in File \cup {nil}, NEW n \in Nat, Start(j, file, n)
      PROVE  WholeFiles'
  BY <1>1 DEF Start, NewFile, WholeFiles
<1>2. ASSUME NEW j \in Job, NEW file \in File \cup {nil},
             saveUrlAsPdf(j, file) \/ saveWebViewAsPdf(j, file)
      PROVE  WholeFiles'
  <2>1. PICK n \in Nat : Start(j, file, n)
    BY <1>2, FramesAssumption DEF saveUrlAsPdf, saveWebViewAsPdf
  <2> QED
    BY <1>1, <2>1
<1>3. ASSUME NEW j \in Job, LoadEvent(j) PROVE WholeFiles'
  <2>1. ASSUME NEW complete \in BOOLEAN, webViewDidFinishLoad(j, complete)
        PROVE  WholeFiles'
    BY <2>1, SavedIsWhole DEF webViewDidFinishLoad, WholeFiles
  <2> QED
    BY <1>3, <2>1 DEF LoadEvent, didFailLoadWithError, WholeFiles
<1>4. ASSUME NEW j \in Job, PageCompletes(j) PROVE WholeFiles'
  BY <1>4 DEF PageCompletes, WholeFiles
<1>5. CASE _timeout
  BY <1>5, SavedIsWhole DEF _timeout, WholeFiles
<1>6. CASE BeginWrite
  BY <1>6 DEF BeginWrite, DuringTheWrite, WholeFiles
<1>7. CASE EndWrite \/ EndSave
  BY <1>7 DEF EndWrite, EndSave, WebViewAfterSave, WholeFiles, Whole
<1>8. CASE EndFailure
  BY <1>8 DEF EndFailure, WholeFiles
<1> QED
  BY <1>2, <1>3, <1>4, <1>5, <1>6, <1>7, <1>8 DEF Next

\* The kit begins to save only with a web view: the block it calls has a job.
LEMMA ReportHasItsJob ==
    ASSUME WholeFiles, Next, Reported
    PROVE  <<webView, outputFile>> \in Job \X File
<1>1. busy = "no" /\ busy' = "saving" /\ outputFile # nil
  BY DEF Reported
<1>2. BeginSave
  BY <1>1 DEF Next, saveUrlAsPdf, saveWebViewAsPdf, Start, LoadEvent, webViewDidFinishLoad,
              didFailLoadWithError, PageCompletes, _timeout, BeginWrite, EndWrite, EndSave, EndFailure
<1>3. webView # nil
  BY <1>1, <1>2 DEF BeginSave, NothingToSave
<1> QED
  BY <1>1, <1>3 DEF WholeFiles

LEMMA ReaderStep == ReaderInv /\ [ToPdfNext]_allVars => ReaderInv'
<1> SUFFICES ASSUME ReaderInv, [ToPdfNext]_allVars PROVE ReaderInv'
  OBVIOUS
<1> USE DEF ReaderInv
<1>1. CASE KitStep
  <2>1. WholeFiles'
    BY <1>1, KitKeepsFilesWhole DEF KitStep
  <2>2. WholeReads'
    BY <1>1, ReportHasItsJob DEF KitStep, WholeReads
  <2> QED
    BY <2>1, <2>2
<1>2. ASSUME NEW r \in reads, Read(r) PROVE ReaderInv'
  <2>1. WholeFiles'
    BY <1>2 DEF Read, WholeFiles, vars
  <2>2. r[1] \in Job /\ r[2] \in File
    BY DEF WholeReads
  <2>3. disk[r[2]] # nil => <<r[1], disk[r[2]]>> \in Job \X Whole
    BY <2>2 DEF WholeFiles
  <2>4. shows' \in Seq(Job \X Whole)
    BY <1>2, <2>3, AppendProperties DEF Read, WholeReads
  <2>5. WholeReads'
    BY <1>2, <2>4 DEF Read, WholeReads
  <2> QED
    BY <2>1, <2>5
<1>3. CASE Show
  <2>1. WholeFiles'
    BY <1>3 DEF Show, WholeFiles, vars
  <2>2. Tail(shows) \in Seq(Job \X Whole)
    BY <1>3, HeadTailProperties DEF Show, WholeReads
  <2>3. WholeReads'
    BY <1>3, <2>2 DEF Show, WholeReads
  <2> QED
    BY <2>1, <2>3
<1>4. CASE UNCHANGED allVars
  BY <1>4 DEF allVars, vars, readerVars, WholeFiles, WholeReads
<1> QED
  BY <1>1, <1>2, <1>3, <1>4 DEF ToPdfNext

\* The file that a block on a global queue reads while the kit writes it is replaced as
\* a whole: what is shown is a PDF of this launch or of an earlier one, never a part.
THEOREM ShownIsWhole == ToPdfSpec => []NeverShowsATornFile
<1>1. ToPdfInit => ReaderInv
  BY DEF ToPdfInit, ReaderInv, WholeFiles, WholeReads, Whole
<1>2. ReaderInv => NeverShowsATornFile
  <2> SUFFICES ASSUME ReaderInv, NEW i \in DOMAIN shows PROVE shows[i][2] # torn
    BY DEF NeverShowsATornFile
  <2>1. shows[i] \in Job \X Whole
    BY DEF ReaderInv, WholeReads
  <2> QED
    BY <2>1, OldAssumption DEF Whole
<1> QED
  BY <1>1, <1>2, ReaderStep, PTL DEF ToPdfSpec
=============================================================================
