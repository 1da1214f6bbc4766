----------------------------- MODULE Overlap_proofs -----------------------------
(***************************************************************************)
(* Why two backup processes at once neither report falsely nor leave a     *)
(* timestamp ahead of unsaved mail, for any amount of mail, any bucket and  *)
(* any failures.  Each process keeps its own invariant (Backup_proofs);     *)
(* what is new is that it survives the steps of the other, which only ever  *)
(* add to the bucket.                                                      *)
(***************************************************************************)
EXTENDS Overlap, Backup_proofs

\* The second process with all that is proved of one.
Other == INSTANCE Backup_proofs WITH
    pc <- pcB, exit <- exitB, req <- reqB, resumed <- resumedB,
    boxes <- boxesB, box <- boxB, rest <- restB, batch <- batchB,
    cur <- curB, art <- artB, k <- kB, latest <- latestB,
    fetchErr <- fetchErrB, closeErr <- closeErrB,
    seen <- seenB, bodyless <- bodylessB

-----------------------------------------------------------------------------
(* Second and Other are the same process: an instance of Backup, and an     *)
(* instance of a module that extends it.                                    *)

LEMMA SameInit == Second!Init => Other!Init
BY DEF Second!Init, Other!Init, Second!MailInit, Other!MailInit, Second!WatermarkInit,
        Other!WatermarkInit, Second!StorageInit, Other!StorageInit, Second!File, Other!File,
        Second!Destinations, Other!Destinations

LEMMA SameStart == Second!Start => Other!Start
BY DEF Second!Start, Other!Start, Second!StartAll, Other!StartAll, Second!StartDuration,
        Other!StartDuration, Second!StartResume, Other!StartResume, Second!StartFromFile,
        Other!StartFromFile, Second!FallBack, Other!FallBack, Second!GiveUpBefore,
        Other!GiveUpBefore, Second!Saved, Other!Saved, Second!Destinations, Other!Destinations, Second!StartRefused,
        Other!StartRefused, Second!Begin, Other!Begin, Second!ReadFound, Other!ReadFound,
        Second!ReadFails, Other!ReadFails, Second!mailVars, Other!mailVars, Second!storageVars,
        Other!storageVars, Second!walkVars, Other!walkVars, Second!emitVars, Other!emitVars,
        Second!resultVars, Other!resultVars, Second!historyVars, Other!historyVars

LEMMA SameRun == Second!Run => Other!Run
<1>1. CASE Second!Connect \/ Second!ListMailboxes \/ Second!SelectMailbox \/
           Second!MailboxDone \/ Second!FetchDone \/ Second!BatchDone \/ Second!Transform
  <2>1. Other!Connect \/ Other!ListMailboxes \/ Other!SelectMailbox \/ Other!MailboxDone \/
        Other!FetchDone \/ Other!BatchDone \/ Other!Transform
      BY <1>1
      DEF Second!Connect, Other!Connect, Second!ListMailboxes, Other!ListMailboxes,
          Second!SelectMailbox, Other!SelectMailbox, Second!MailboxDone, Other!MailboxDone,
          Second!FetchDone, Other!FetchDone, Second!BatchDone, Other!BatchDone, Second!Transform,
          Other!Transform, Second!Step, Other!Step, Second!LeaveFetch, Other!LeaveFetch,
          Second!Live, Other!Live, Second!mailVars, Other!mailVars, Second!storageVars,
          Other!storageVars, Second!walkVars, Other!walkVars, Second!emitVars, Other!emitVars,
          Second!resultVars, Other!resultVars, Second!historyVars, Other!historyVars
  <2> QED
      BY <2>1 DEF Other!Run
<1>2. CASE Second!SearchMailbox
  <2>1. Other!SearchMailbox
      BY <1>2
      DEF Second!SearchMailbox, Other!SearchMailbox, Second!Step, Other!Step, Second!SearchHits,
          Other!SearchHits, Second!Live, Other!Live, Second!ServerDay, Other!ServerDay,
          Second!BoundDay, Other!BoundDay, Second!SinceZone, Other!SinceZone, Second!mailVars, Other!mailVars, Second!storageVars,
          Other!storageVars, Second!walkVars, Other!walkVars, Second!emitVars, Other!emitVars,
          Second!resultVars, Other!resultVars, Second!historyVars, Other!historyVars
  <2> QED
      BY <2>1 DEF Other!Run
<1>3. CASE Second!FetchBatch
  <2>1. Other!FetchBatch
      BY <1>3
      DEF Second!FetchBatch, Other!FetchBatch, Second!Step, Other!Step, Second!FirstOf,
          Other!FirstOf, Second!Cardinality, Other!Cardinality, Second!mailVars, Other!mailVars,
          Second!storageVars, Other!storageVars, Second!walkVars, Other!walkVars, Second!emitVars,
          Other!emitVars, Second!resultVars, Other!resultVars, Second!historyVars,
          Other!historyVars
  <2> QED
      BY <2>1 DEF Other!Run
<1>4. CASE Second!PrepareSink \/ Second!StoreNextSink \/ Second!StoreNextArtifact \/
           Second!StoreLastArtifact \/ Second!CloseSink
  <2>1. Other!PrepareSink \/ Other!StoreNextSink \/ Other!StoreNextArtifact \/
        Other!StoreLastArtifact \/ Other!CloseSink
      BY <1>4
      DEF Second!PrepareSink, Other!PrepareSink, Second!StoreNextSink, Other!StoreNextSink,
          Second!StoreNextArtifact, Other!StoreNextArtifact, Second!StoreLastArtifact,
          Other!StoreLastArtifact, Second!CloseSink, Other!CloseSink, Second!Step, Other!Step,
          Second!AfterClose, Other!AfterClose, Second!Prepare, Other!Prepare, Second!Put,
          Other!Put, Second!Newer, Other!Newer, Second!Finish, Other!Finish, Second!mailVars,
          Other!mailVars, Second!storageVars, Other!storageVars, Second!walkVars, Other!walkVars,
          Second!emitVars, Other!emitVars, Second!resultVars, Other!resultVars,
          Second!historyVars, Other!historyVars
  <2> QED
      BY <2>1 DEF Other!Run
<1>5. CASE Second!ReturnError \/ Second!ReturnNothing \/ Second!ReturnLatest \/
           Second!TruncateWatermark \/ Second!WriteWatermark
  <2>1. Other!ReturnError \/ Other!ReturnNothing \/ Other!ReturnLatest \/
        Other!TruncateWatermark \/ Other!WriteWatermark
      BY <1>5
      DEF Second!ReturnError, Other!ReturnError, Second!ReturnNothing, Other!ReturnNothing,
          Second!ReturnLatest, Other!ReturnLatest, Second!TruncateWatermark,
          Other!TruncateWatermark, Second!WriteWatermark, Other!WriteWatermark, Second!Step,
          Other!Step, Second!Exit, Other!Exit, Second!OpenWatermark, Other!OpenWatermark,
          Second!FillWatermark, Other!FillWatermark, Second!File, Other!File, Second!Stamp,
          Other!Stamp, Second!mailVars, Other!mailVars, Second!storageVars, Other!storageVars,
          Second!walkVars, Other!walkVars, Second!emitVars, Other!emitVars, Second!resultVars,
          Other!resultVars, Second!historyVars, Other!historyVars
  <2> QED
      BY <2>1 DEF Other!Run
<1>6. ASSUME NEW m \in Messages, Second!ReceiveMessage(m) \/ Second!PassOver(m) \/ Second!SkipBodyless(m)
      PROVE  Other!ReceiveMessage(m) \/ Other!PassOver(m) \/ Other!SkipBodyless(m)
    BY <1>6
    DEF Second!ReceiveMessage, Other!ReceiveMessage, Second!PassOver, Other!PassOver,
        Second!SkipBodyless, Other!SkipBodyless, Second!Step, Other!Step, Second!Keeps,
        Other!Keeps, Second!mailVars, Other!mailVars, Second!storageVars, Other!storageVars,
        Second!walkVars, Other!walkVars, Second!emitVars, Other!emitVars, Second!resultVars,
        Other!resultVars, Second!historyVars, Other!historyVars
<1> QED
    BY <1>1, <1>2, <1>3, <1>4, <1>5, <1>6 DEF Second!Run, Other!Run

LEMMA SameFailure == Second!Failure => Other!Failure
BY DEF Second!Failure, Other!Failure, Second!ConnectFails, Other!ConnectFails,
        Second!PrepareFails, Other!PrepareFails, Second!FetchFails, Other!FetchFails,
        Second!TransformFails, Other!TransformFails, Second!StoreFails, Other!StoreFails,
        Second!CloseFails, Other!CloseFails, Second!WriteFails, Other!WriteFails, Second!Crash,
        Other!Crash, Second!Fault, Other!Fault, Second!Exit, Other!Exit, Second!FailFetch,
        Other!FailFetch, Second!Spoil, Other!Spoil, Second!TearWatermark, Other!TearWatermark,
        Second!LeaveFetch, Other!LeaveFetch, Second!File, Other!File, Second!Stamp, Other!Stamp,
        Second!mailVars, Other!mailVars, Second!storageVars, Other!storageVars, Second!walkVars,
        Other!walkVars, Second!emitVars, Other!emitVars, Second!resultVars, Other!resultVars,
        Second!historyVars, Other!historyVars

\* Time passes and mail comes and goes for both.
LEMMA SameAccount == Account => World /\ Other!World /\ UNCHANGED <<secondVars, ownVars>>
<1> USE DEF storageVars, walkVars, emitVars, resultVars, historyVars, ownVars, secondVars,
            Other!storageVars, Other!walkVars, Other!emitVars, Other!resultVars,
            Other!historyVars, Environment, Other!Environment
<1>1. CASE TimePasses /\ UNCHANGED secondVars
    BY <1>1 DEF TimePasses, World, Tick, Other!TimePasses, Other!World, Other!Tick
<1>2. CASE MailArrives /\ UNCHANGED secondVars
    BY <1>2 DEF MailArrives, World, Deliver, DeliveryDates, Delivered,
                Other!MailArrives, Other!World, Other!Deliver, Other!DeliveryDates, Other!Delivered
<1>3. CASE MailDeleted /\ UNCHANGED secondVars
    BY <1>3 DEF MailDeleted, World, Expunge, Other!MailDeleted, Other!World, Other!Expunge
<1> QED
    BY <1>1, <1>2, <1>3 DEF Account

\* The formulas that are about what the two share.
LEMMA SameShared ==
    /\ Other!FileSafe <=> FileSafe
    /\ Other!FileSafe' <=> FileSafe'
    /\ Other!BucketOnly <=> BucketOnly
    /\ Other!Circumstances <=> Circumstances
    /\ Other!ZonesInOrder <=> ZonesInOrder
    /\ Other!Interference <=> Interference
BY DEF FileSafe, NothingSkipped, Saved, Destinations, Known, Delivered, BucketOnly, Windows,
       Circumstances, ZonesInOrder, Interference, LiveMail, mailVars, WatermarkTypeOK, FileKinds, StorageTypeOK,
       Other!FileSafe, Other!NothingSkipped, Other!Saved, Other!Destinations, Other!Known,
       Other!Delivered, Other!BucketOnly, Other!Windows, Other!Circumstances,
       Other!ZonesInOrder, Other!Interference, Other!LiveMail, Other!mailVars, Other!WatermarkTypeOK, Other!FileKinds,
       Other!StorageTypeOK

\* The assumptions of Backup in the words of the second process.
LEMMA Assumptions ==
    /\ SinkKinds = Other!SinkKinds /\ FaultKinds = Other!FaultKinds
    /\ MailAssumption /\ SinkAssumption /\ BackupAssumption
BY MailAssumption, SinkAssumption, BackupAssumption
   DEF SinkKinds, Other!SinkKinds, FaultKinds, Other!FaultKinds

-----------------------------------------------------------------------------
(* Both accounts of the window.                                             *)

bothVars == <<vars, secondVars>>

Together == Complete /\ Other!Complete

\* A step of a process is an interference for the other one.
LEMMA FirstInterferes ==
    ASSUME BucketOnly, Complete, FirstSteps
    PROVE  Next /\ Interference /\ UNCHANGED Other!ownVars
<1>1. UNCHANGED Other!ownVars
    BY DEF FirstSteps, secondVars, Other!ownVars, Other!walkVars, Other!emitVars,
           Other!resultVars, Other!historyVars
<1> QED
    BY <1>1, OwnSteps DEF FirstSteps, Next, Complete

LEMMA OtherInterferes ==
    ASSUME BucketOnly, Other!Complete, OtherSteps
    PROVE  Other!Next /\ Interference /\ UNCHANGED ownVars
<1>1. Other!Start \/ Other!Run \/ Other!Failure
    BY SameStart, SameRun, SameFailure DEF OtherSteps
<1>2. Other!BucketOnly /\ Other!TypeInv
    BY SameShared DEF Other!Complete
<1>3. Other!Interference
    BY <1>1, <1>2, Other!OwnSteps, Assumptions
<1> QED
    BY <1>1, <1>3, SameShared DEF OtherSteps, firstVars, ownVars, Other!Next

LEMMA StutterSteps == UNCHANGED bothVars => UNCHANGED vars /\ UNCHANGED Other!vars
BY DEF bothVars, vars, secondVars, mailVars, storageVars, walkVars, emitVars, resultVars,
       historyVars, Other!vars, Other!mailVars, Other!storageVars, Other!walkVars,
       Other!emitVars, Other!resultVars, Other!historyVars

LEMMA AccountSteps == Account => Next /\ Other!Next
BY SameAccount DEF World, Next, Other!World, Other!Next

LEMMA TogetherInit == OverlapInit => Together
BY CompleteInit, SameInit, Other!CompleteInit, Assumptions DEF OverlapInit, Together

LEMMA TogetherNext ==
    ASSUME BucketOnly, Together, [OverlapNext]_bothVars
    PROVE  Together'
<1> USE DEF Together
<1>1. CASE Account
    BY <1>1, AccountSteps, CompleteNext, Other!CompleteNext, Assumptions
<1>2. CASE FirstSteps
    BY <1>2, FirstInterferes, CompleteNext, Other!CompleteBeside, SameShared, Assumptions
<1>3. CASE OtherSteps
    BY <1>3, OtherInterferes, Other!CompleteNext, CompleteBeside, Assumptions
<1>4. CASE UNCHANGED bothVars
    BY <1>4, StutterSteps, CompleteNext, Other!CompleteNext, Assumptions
<1> QED
    BY <1>1, <1>2, <1>3, <1>4 DEF OverlapNext

\* BothComplete, for any amount of mail, any bucket and any failures of either
\* process: each that reports success has its whole window saved (Pipeline.Run).
THEOREM BothAlwaysComplete ==
    ASSUME ZonesInOrder, BucketOnly
    PROVE  OverlapSpec => []BothComplete
<1>1. OverlapInit => Together
    BY TogetherInit
<1>2. Together /\ [OverlapNext]_bothVars => Together'
    BY TogetherNext
<1>3. Together => BothComplete
  <2>1. Complete => RunComplete
      BY CompleteMeans
  <2>2. Other!Complete => Other!RunComplete
      BY Other!CompleteMeans, SameShared, Assumptions
  <2>3. Other!RunComplete => Second!RunComplete
      BY DEF Other!RunComplete, Second!RunComplete, Other!WindowSaved, Second!WindowSaved,
             Other!InWindow, Second!InWindow, Other!Saved, Second!Saved, Other!Excused,
             Second!Excused, Other!Destinations, Second!Destinations
  <2> QED
      BY <2>1, <2>2, <2>3 DEF Together, BothComplete
<1> QED
    BY <1>1, <1>2, <1>3, PTL DEF OverlapSpec, bothVars

-----------------------------------------------------------------------------
(* The timestamp file that both of them write.                              *)

SafeTogether == Together /\ SafeInv /\ Other!SafeInv

LEMMA SafeTogetherInit == Attended /\ OverlapInit => SafeTogether
<1> SUFFICES ASSUME Attended, OverlapInit PROVE SafeTogether
    OBVIOUS
<1>1. SafeInv
    BY StepInit DEF OverlapInit, StepInv, Attended
<1>2. Other!SafeInv
    BY SameInit, SameShared, Other!StepInit, Assumptions
    DEF OverlapInit, Other!StepInv, Attended
<1> QED
    BY <1>1, <1>2, TogetherInit DEF SafeTogether

LEMMA SafeTogetherNext ==
    ASSUME Attended, SafeTogether, [OverlapNext]_bothVars
    PROVE  SafeTogether'
<1>1. Together'
    BY TogetherNext DEF SafeTogether, Attended
<1>2. /\ Complete /\ Other!Complete
      /\ BucketOnly /\ Circumstances /\ Other!Circumstances
    BY SameShared DEF SafeTogether, Together, Attended
<1>3. CASE Account
    BY <1>1, <1>2, <1>3, SameAccount, WorldNext, Other!WorldNext, Assumptions DEF SafeTogether
<1>4. CASE FirstSteps
  <2>1. Next /\ Interference /\ UNCHANGED Other!ownVars
      BY <1>2, <1>4, FirstInterferes
  <2>2. SafeInv'
      BY <1>2, <2>1, InterferenceSaves, SafeNext DEF SafeTogether
  <2>3. FileSafe'
      BY <2>2 DEF SafeInv, BehindInv, BoundInv, FileSafe
  <2>4. Other!SafeInv'
      BY <2>1, <2>3, Other!SafeBeside, SameShared, Assumptions DEF SafeTogether
  <2> QED
      BY <1>1, <2>2, <2>4 DEF SafeTogether
<1>5. CASE OtherSteps
  <2>1. Other!Next /\ Other!Interference /\ Interference /\ UNCHANGED ownVars
      BY <1>2, <1>5, OtherInterferes, SameShared
  <2>2. Other!SafeInv'
      BY <1>2, <2>1, Other!InterferenceSaves, Other!SafeNext, Assumptions DEF SafeTogether
  <2>3. Other!FileSafe'
      BY <2>2 DEF Other!SafeInv, Other!BehindInv, Other!BoundInv, Other!FileSafe
  <2>4. SafeInv'
      BY <2>1, <2>3, SafeBeside, SameShared DEF SafeTogether
  <2> QED
      BY <1>1, <2>2, <2>4 DEF SafeTogether
<1>6. CASE UNCHANGED bothVars
  <2>1. UNCHANGED vars /\ UNCHANGED Other!vars
      BY <1>6, StutterSteps
  <2>2. SavedMail' = SavedMail /\ Other!SavedMail' = Other!SavedMail
      BY <2>1 DEF vars, mailVars, storageVars, SavedMail, Saved, Other!vars, Other!mailVars,
                  Other!storageVars, Other!SavedMail, Other!Saved
  <2> QED
      BY <1>1, <1>2, <2>1, <2>2, SafeNext, Other!SafeNext, Assumptions DEF SafeTogether
<1> QED
    BY <1>3, <1>4, <1>5, <1>6 DEF OverlapNext

\* OverlapSkipsNothing, for any amount of mail and any failures of either process:
\* whichever of them writes the timestamp file last, no live message is dated at
\* or before what it says without being in the bucket, or older than a window that
\* was drawn from the clock (Backup, WriteWatermark).
THEOREM OverlapNeverSkips ==
    ASSUME Attended
    PROVE  OverlapSpec => []OverlapSkipsNothing
<1>1. OverlapInit => SafeTogether
    BY SafeTogetherInit
<1>2. SafeTogether /\ [OverlapNext]_bothVars => SafeTogether'
    BY SafeTogetherNext
<1>3. SafeTogether => OverlapSkipsNothing
    BY DEF SafeTogether, SafeInv, BehindInv, OverlapSkipsNothing
<1> QED
    BY <1>1, <1>2, <1>3, PTL DEF OverlapSpec, bothVars
=============================================================================
