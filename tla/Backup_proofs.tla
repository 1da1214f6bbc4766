---------------------------- MODULE Backup_proofs ----------------------------
(***************************************************************************)
(* What holds of Backup for every account, every set of destinations and   *)
(* every bound.  TypeInv is the type invariant with the control facts it   *)
(* needs to be inductive.  The second part is about what one run leaves to  *)
(* the next.                                                               *)
(***************************************************************************)
EXTENDS Backup, TLAPS

\* What the program counter says of the other variables.
Control ==
    /\ pc \in {"transform", "store"} =>
          cur \in Messages /\ art \in 1 .. ArtifactsOf[cur]
    /\ pc \in {"sinks", "store", "close"} => k \in 1 .. Len(Sinks)
    /\ pc \in {"record", "write"} => latest # 0

TypeInv == TypeOK /\ Control

\* The actions that touch neither the account, the timestamp file nor the
\* destinations keep their types.
LEMMA WorldTypesStable ==
    ASSUME MailTypeOK, WatermarkTypeOK, StorageTypeOK
    PROVE  /\ UNCHANGED mailVars => MailTypeOK'
           /\ UNCHANGED file => WatermarkTypeOK'
           /\ UNCHANGED storageVars => StorageTypeOK'
BY DEF mailVars, storageVars, MailTypeOK, WatermarkTypeOK, StorageTypeOK

\* Exit leaves the variables of the run well typed, whatever they were.
LEMMA ExitType ==
    ASSUME NEW code \in {"ok", "error", "killed"}, Exit(code),
           req' \in [since : Nat, mailbox : Mailboxes \cup {NoBox}],
           resumed' \in BOOLEAN, faults' \in Nat, forgone' \subseteq Messages
    PROVE  RunTypeOK' /\ Control'
BY DEF Exit, RunTypeOK, Control, Pcs, FetchPcs

\* Every write to a destination or to the timestamp file keeps its type.
LEMMA PutType ==
    ASSUME StorageTypeOK, NEW s, NEW a \in Artifact, Put(s, a)
    PROVE  StorageTypeOK'
BY DEF StorageTypeOK, Put

LEMMA SpoilType ==
    ASSUME StorageTypeOK, NEW s \in SinkKinds, NEW a \in Artifact, Spoil(s, a)
    PROVE  StorageTypeOK'
BY DEF StorageTypeOK, Spoil, SinkKinds

LEMMA PrepareType ==
    ASSUME StorageTypeOK, NEW s, Prepare(s)
    PROVE  StorageTypeOK'
BY DEF StorageTypeOK, Prepare, storageVars

LEMMA TearType ==
    ASSUME WatermarkTypeOK, NEW t \in Nat \ {0}, TearWatermark(t)
    PROVE  WatermarkTypeOK'
BY DEF WatermarkTypeOK, TearWatermark, File, Stamp, FileKinds

LEMMA FillType ==
    ASSUME NEW t \in Nat \ {0}, FillWatermark(t)
    PROVE  WatermarkTypeOK'
BY DEF WatermarkTypeOK, FillWatermark, Stamp, FileKinds

LEMMA SinkFacts ==
    /\ Len(Sinks) \in Nat \ {0}
    /\ \A i \in 1 .. Len(Sinks) : Sinks[i] \in SinkKinds /\ Sinks[i] \in Destinations
BY SinkAssumption DEF Destinations

LEMMA TypeInit == Init => TypeInv
<1> SUFFICES ASSUME Init
             PROVE  TypeInv
    OBVIOUS
<1>1. MailTypeOK
    BY MailAssumption DEF Init, MailInit, MailTypeOK, MailStates
<1>2. WatermarkTypeOK
    BY DEF Init, WatermarkInit, WatermarkTypeOK, File, FileKinds
<1>3. StorageTypeOK
    BY DEF Init, StorageInit, StorageTypeOK
<1>4. RunTypeOK /\ Control
    BY DEF Init, RunTypeOK, Control, Pcs, FetchPcs
<1> QED
    BY <1>1, <1>2, <1>3, <1>4 DEF TypeInv, TypeOK

\* However a run is started, it starts well typed.
LEMMA BeginType ==
    ASSUME RunTypeOK, Control, NEW mode, NEW since \in Nat, NEW found \in BOOLEAN,
           Begin(mode, since, found), forgone' \subseteq Messages
    PROVE  RunTypeOK' /\ Control'
<1>1. req' \in [since : Nat, mailbox : Mailboxes \cup {NoBox}]
    BY BackupAssumption DEF Begin
<1> QED
    BY <1>1 DEF Begin, walkVars, emitVars, resultVars, historyVars,
                RunTypeOK, Control, Pcs, FetchPcs

LEMMA TypeNext == TypeInv /\ [Next]_vars => TypeInv'
<1> SUFFICES ASSUME TypeInv, [Next]_vars
             PROVE  TypeInv'
    OBVIOUS
<1>t. MailTypeOK /\ WatermarkTypeOK /\ StorageTypeOK /\ RunTypeOK /\ Control
    BY DEF TypeInv, TypeOK
<1>w. /\ UNCHANGED mailVars => MailTypeOK'
      /\ UNCHANGED file => WatermarkTypeOK'
      /\ UNCHANGED storageVars => StorageTypeOK'
    BY <1>t, WorldTypesStable
<1>g. SUFFICES MailTypeOK' /\ WatermarkTypeOK' /\ StorageTypeOK' /\ RunTypeOK' /\ Control'
    BY DEF TypeInv, TypeOK
<1>a. (pc \in {"transform", "store"} => <<cur, art>> \in Artifact) /\ latest \in Nat
    BY <1>t, BackupAssumption DEF Control, RunTypeOK
<1>1. CASE TimePasses
    BY <1>1, <1>t, <1>w, MailAssumption
    DEF TimePasses, Tick, MailTypeOK, Environment, storageVars, walkVars, emitVars, resultVars, historyVars, RunTypeOK, Control, Pcs, FetchPcs
<1>2. CASE MailArrives
  <2>1. PICK m \in Messages : Environment(Deliver(m))
      BY <1>2 DEF MailArrives
  <2>2. MailTypeOK'
      BY <2>1, <1>t, MailAssumption
      DEF Environment, Deliver, DeliveryDates, MailTypeOK, MailStates
  <2> QED
      BY <2>1, <2>2, <1>t, <1>w DEF Environment, storageVars, walkVars, emitVars, resultVars, historyVars, RunTypeOK, Control, Pcs, FetchPcs
<1>3. CASE MailDeleted
  <2>1. PICK m \in Messages : Environment(Expunge(m))
      BY <1>3 DEF MailDeleted
  <2>2. MailTypeOK'
      BY <2>1, <1>t DEF Environment, Expunge, MailTypeOK, MailStates
  <2> QED
      BY <2>1, <2>2, <1>t, <1>w DEF Environment, storageVars, walkVars, emitVars, resultVars, historyVars, RunTypeOK, Control, Pcs, FetchPcs
<1>4. CASE StartAll
    BY <1>4, <1>t, <1>w, BeginType DEF StartAll, Begin, RunTypeOK
<1>5. CASE StartDuration
  <2>1. PICK d \in Durations : Begin("duration", clock - d, FALSE) /\ GiveUpBefore(d)
      BY <1>5 DEF StartDuration
  <2>2. clock - d \in Nat
      BY <1>t, MailAssumption, BackupAssumption DEF MailTypeOK
  <2> QED
      BY <2>1, <2>2, <1>t, <1>w, BeginType DEF Begin, GiveUpBefore, RunTypeOK
<1>6. CASE StartResume
  <2>1. file.stamp \in Nat
      BY <1>t DEF WatermarkTypeOK
  <2>2. clock - Lookback \in Nat
      BY <1>t, MailAssumption, BackupAssumption DEF MailTypeOK
  <2>3. PICK since \in Nat, found \in BOOLEAN : Begin("resume", since, found)
      BY <1>6, <2>1, <2>2 DEF StartResume, StartFromFile, FallBack
  <2>4. forgone' \subseteq Messages
      BY <1>6, <1>t DEF StartResume, StartFromFile, FallBack, GiveUpBefore, RunTypeOK
  <2> QED
      BY <2>3, <2>4, <1>t, <1>w, BeginType DEF Begin
<1>7. CASE StartRefused
    BY <1>7, <1>t, <1>w
    DEF StartRefused, walkVars, emitVars, resultVars, historyVars, RunTypeOK, Control, Pcs, FetchPcs
<1>8. CASE Connect
    BY <1>8, <1>t, <1>w, SinkFacts
    DEF Connect, Step, walkVars, emitVars, resultVars, historyVars, RunTypeOK, Control, Pcs, FetchPcs
<1>9. CASE PrepareSink
  <2>1. StorageTypeOK'
      BY <1>9, <1>t, PrepareType DEF PrepareSink
  <2> QED
      BY <1>9, <2>1, <1>t, <1>w, SinkFacts DEF PrepareSink, Step, walkVars, emitVars, resultVars, historyVars, RunTypeOK, Control, Pcs, FetchPcs
<1>10. CASE ListMailboxes
    BY <1>10, <1>t, <1>w
    DEF ListMailboxes, Step, walkVars, emitVars, resultVars, historyVars, RunTypeOK, Control, Pcs, FetchPcs
<1>11. CASE SelectMailbox
    BY <1>11, <1>t, <1>w
    DEF SelectMailbox, Step, walkVars, emitVars, resultVars, historyVars, RunTypeOK, Control, Pcs, FetchPcs
<1>12. CASE SearchMailbox
  <2>1. rest' \subseteq Messages /\ seen' \subseteq Messages
      BY <1>12, <1>t DEF SearchMailbox, SearchHits, Live, RunTypeOK
  <2> QED
      BY <1>12, <2>1, <1>t, <1>w DEF SearchMailbox, Step, walkVars, emitVars, resultVars, historyVars, RunTypeOK, Control, Pcs, FetchPcs
<1>13. CASE FetchBatch
    BY <1>13, <1>t, <1>w
    DEF FetchBatch, Step, FirstOf, walkVars, emitVars, resultVars, historyVars, RunTypeOK, Control, Pcs, FetchPcs
<1>14. CASE MailboxDone
    BY <1>14, <1>t, <1>w
    DEF MailboxDone, Step, walkVars, emitVars, resultVars, historyVars, RunTypeOK, Control, Pcs, FetchPcs
<1>15. CASE FetchDone
  <2>1. PICK failed \in BOOLEAN : LeaveFetch(failed)
      BY <1>15 DEF FetchDone
  <2>2. pc' = "close" /\ UNCHANGED <<exit, req, resumed, faults, forgone>>
      BY <1>15 DEF FetchDone, Step
  <2>3. RunTypeOK' /\ Control'
      BY <2>1, <2>2, <1>t, SinkFacts DEF LeaveFetch, historyVars, RunTypeOK, Control, Pcs, FetchPcs
  <2> QED
      BY <1>15, <2>3, <1>t, <1>w DEF FetchDone, Step
<1>16. CASE BatchDone
    BY <1>16, <1>t, <1>w
    DEF BatchDone, Step, walkVars, emitVars, resultVars, historyVars, RunTypeOK, Control, Pcs, FetchPcs
<1>17. CASE \E m \in Messages : ReceiveMessage(m)
    BY <1>17, <1>t, <1>w, BackupAssumption
    DEF ReceiveMessage, Step, walkVars, emitVars, resultVars, historyVars, RunTypeOK, Control, Pcs, FetchPcs
<1>18. CASE \E m \in Messages : PassOver(m)
    BY <1>18, <1>t, <1>w
    DEF PassOver, Step, walkVars, emitVars, resultVars, historyVars, RunTypeOK, Control, Pcs, FetchPcs
<1>19. CASE \E m \in Messages : SkipBodyless(m)
    BY <1>19, <1>t, <1>w
    DEF SkipBodyless, Step, walkVars, emitVars, resultVars, historyVars, RunTypeOK, Control, Pcs, FetchPcs
<1>20. CASE Transform
    BY <1>20, <1>t, <1>w, SinkFacts
    DEF Transform, Step, walkVars, emitVars, resultVars, historyVars, RunTypeOK, Control, Pcs, FetchPcs
<1>21. CASE StoreNextSink
  <2>1. StorageTypeOK'
      BY <1>21, <1>t, <1>a, PutType DEF StoreNextSink, Step
  <2> QED
      BY <1>21, <2>1, <1>t, <1>w, SinkFacts DEF StoreNextSink, Step, walkVars, emitVars, resultVars, historyVars, RunTypeOK, Control, Pcs, FetchPcs
<1>22. CASE StoreNextArtifact
  <2>1. StorageTypeOK'
      BY <1>22, <1>t, <1>a, PutType DEF StoreNextArtifact, Step
  <2> QED
      BY <1>22, <2>1, <1>t, <1>w, BackupAssumption DEF StoreNextArtifact, Step, walkVars, emitVars, resultVars, historyVars, RunTypeOK, Control, Pcs, FetchPcs
<1>23. CASE StoreLastArtifact
  <2>1. StorageTypeOK'
      BY <1>23, <1>t, <1>a, PutType DEF StoreLastArtifact, Step
  <2>2. latest' \in Nat
      BY <1>23, <1>t, <1>a DEF StoreLastArtifact, Step, Newer, Control, MailTypeOK
  <2> QED
      BY <1>23, <2>1, <2>2, <1>t, <1>w DEF StoreLastArtifact, Step, walkVars, emitVars, resultVars, historyVars, RunTypeOK, Control, Pcs, FetchPcs
<1>24. CASE CloseSink
  <2>1. StorageTypeOK'
      BY <1>24, <1>t DEF CloseSink, Finish, StorageTypeOK
  <2> QED
      BY <1>24, <2>1, <1>t, <1>w, SinkFacts DEF CloseSink, AfterClose, Step, walkVars, emitVars, resultVars, historyVars, RunTypeOK, Control, Pcs, FetchPcs
<1>25. CASE ReturnError
  <2> QED
      BY <1>25, <1>t, <1>w, ExitType DEF ReturnError, RunTypeOK
<1>26. CASE ReturnNothing
  <2> QED
      BY <1>26, <1>t, <1>w, ExitType DEF ReturnNothing, RunTypeOK
<1>27. CASE ReturnLatest
    BY <1>27, <1>t, <1>w
    DEF ReturnLatest, Step, walkVars, emitVars, resultVars, historyVars, RunTypeOK, Control, Pcs, FetchPcs
<1>28. CASE TruncateWatermark
  <2>1. WatermarkTypeOK'
      BY <1>28 DEF TruncateWatermark, OpenWatermark, File, FileKinds, WatermarkTypeOK
  <2> QED
      BY <1>28, <2>1, <1>t, <1>w DEF TruncateWatermark, Step, walkVars, emitVars, resultVars, historyVars, RunTypeOK, Control, Pcs, FetchPcs
<1>29. CASE WriteWatermark
  <2>1. WatermarkTypeOK'
      BY <1>29, <1>t, <1>a, FillType DEF WriteWatermark, Control
  <2> QED
      BY <1>29, <1>t, <1>w, ExitType, <2>1 DEF WriteWatermark, RunTypeOK
<1>30. CASE ConnectFails
  <2> QED
      BY <1>30, <1>t, <1>w, ExitType DEF ConnectFails, RunTypeOK, Fault
<1>31. CASE PrepareFails
  <2> QED
      BY <1>31, <1>t, <1>w, ExitType DEF PrepareFails, RunTypeOK, Fault
<1>32. CASE FetchFails
  <2> QED
      BY <1>32, <1>t, <1>w, SinkFacts DEF FetchFails, Fault, FailFetch, LeaveFetch, historyVars, RunTypeOK, Control, Pcs, FetchPcs
<1>33. CASE TransformFails
  <2> QED
      BY <1>33, <1>t, <1>w, SinkFacts DEF TransformFails, Fault, FailFetch, LeaveFetch, historyVars, RunTypeOK, Control, Pcs, FetchPcs
<1>34. CASE StoreFails
  <2>1. StorageTypeOK'
      BY <1>34, <1>t, <1>a, SinkFacts, SpoilType DEF StoreFails, Control
  <2> QED
      BY <1>34, <1>t, <1>w, SinkFacts, <2>1 DEF StoreFails, Fault, FailFetch, LeaveFetch, historyVars, RunTypeOK, Control, Pcs, FetchPcs
<1>35. CASE CloseFails
    BY <1>35, <1>t, <1>w, SinkFacts
    DEF CloseFails, Fault, walkVars, emitVars, resultVars, historyVars, RunTypeOK, Control, Pcs, FetchPcs
<1>36. CASE WriteFails
  <2>1. WatermarkTypeOK'
      BY <1>36, <1>t, <1>w, <1>a, TearType DEF WriteFails, Control
  <2> QED
      BY <1>36, <1>t, <1>w, ExitType, <2>1 DEF WriteFails, RunTypeOK, Fault
<1>37. CASE Crash
  <2>1. WatermarkTypeOK'
      BY <1>37, <1>t, <1>w, <1>a, TearType DEF Crash, Control
  <2>2. StorageTypeOK'
      BY <1>37, <1>t, <1>w, <1>a, SinkFacts, SpoilType DEF Crash, Control
  <2> QED
      BY <1>37, <1>t, <1>w, ExitType, <2>1, <2>2 DEF Crash, RunTypeOK, Fault
<1>38. CASE UNCHANGED vars
    BY <1>38, <1>t, <1>w
    DEF vars, mailVars, storageVars, walkVars, emitVars, resultVars, historyVars, RunTypeOK, Control, Pcs, FetchPcs
<1> QED
    BY <1>1, <1>2, <1>3, <1>4, <1>5, <1>6, <1>7, <1>8, <1>9, <1>10, <1>11, <1>12, <1>13, <1>14, <1>15, <1>16, <1>17, <1>18, <1>19, <1>20, <1>21, <1>22, <1>23, <1>24, <1>25, <1>26, <1>27, <1>28, <1>29, <1>30, <1>31, <1>32, <1>33, <1>34, <1>35, <1>36, <1>37, <1>38
    DEF Next, Start, Run, Failure

\* Type correctness, with the control facts, for every value of the constants.
THEOREM TypeCorrect == Spec => [](TypeOK /\ Control)
<1>1. Init => TypeInv
    BY TypeInit
<1>2. TypeInv /\ [Next]_vars => TypeInv'
    BY TypeNext
<1> QED
    BY <1>1, <1>2, PTL DEF Spec, TypeInv

-----------------------------------------------------------------------------
(* Completeness.  A message of the window that was seen is accounted for at *)
(* every moment of a walk that has not failed: it is saved and not newer    *)
(* than Result.Latest, or excused, or still pending.                        *)

SavedMail   == {m \in Messages : Saved(m)}
ExcusedMail == {m \in Messages : Excused(m)}
WindowMail  == {m \in Messages : InWindow(m)}
UpToLatest  == {m \in Messages : mail[m].date <= latest}

\* Found by the search and not yet disposed of.
Pending == rest \cup batch \cup (IF pc \in {"transform", "store"} THEN {cur} ELSE {})

Walking == pc \in FetchPcs \cup {"close", "return", "record", "write"} /\ ~fetchErr

WalkInv ==
    /\ seen \subseteq Delivered
    /\ Pending \subseteq seen
    /\ pc \notin {"receive", "transform", "store"} => batch = {}
    /\ pc \notin {"batch", "receive", "transform", "store"} => rest = {}
    /\ pc \in {"idle", "connect", "sinks", "list"} => seen = {} /\ latest = 0
    /\ pc \in FetchPcs \cup {"idle", "connect", "sinks"} => ~fetchErr /\ ~closeErr

\* How far the message at hand has got.
StoreInv ==
    /\ pc \in {"transform", "store"} =>
          /\ Keeps(cur)
          /\ \A i \in 1 .. art - 1 : \A s \in Destinations : <<cur, i>> \in stored[s]
    /\ pc = "store" => \A j \in 1 .. k - 1 : <<cur, art>> \in stored[Sinks[j]]

\* The server's day begins no later than that of any bound: its zone is neither
\* behind UTC, the zone of the timestamp file, nor behind the client's.
ZonesInOrder == ZoneOffset >= 0 /\ ZoneOffset >= ClientZone

Covered ==
    ZonesInOrder /\ Walking => seen \cap WindowMail
                  \subseteq (SavedMail \cap UpToLatest) \cup ExcusedMail \cup Pending

\* Result.Latest is the date of a message of the window that is saved.
MarkInv ==
    Walking /\ latest # 0 =>
        /\ latest > req.since
        /\ \E m \in seen \cap SavedMail : mail[m].date = latest

SealInv ==
    /\ pc = "close" => \A j \in 1 .. k - 1 : Sinks[j] = "tar" => sealed \/ closeErr
    /\ pc \in {"return", "record", "write"} =>
          ("tar" \in Destinations => sealed \/ closeErr)
    /\ pc \in {"record", "write"} => ~fetchErr /\ ~closeErr

Complete == TypeInv /\ WalkInv /\ StoreInv /\ Covered /\ MarkInv /\ SealInv

\* The sets change only with the variables they are made of, and Put only adds.
LEMMA SetsStable ==
    /\ UNCHANGED <<mail, bodyless>> => ExcusedMail' = ExcusedMail
    /\ UNCHANGED <<mail, req>> => WindowMail' = WindowMail
    /\ UNCHANGED <<mail, latest>> => UpToLatest' = UpToLatest
    /\ UNCHANGED stored => SavedMail' = SavedMail
    /\ UNCHANGED mail => Delivered' = Delivered
BY DEF ExcusedMail, Excused, WindowMail, InWindow, UpToLatest, SavedMail, Saved, Delivered

LEMMA PutAdds ==
    ASSUME StorageTypeOK, NEW s \in Destinations, NEW a, Put(s, a)
    PROVE  /\ \A t \in Destinations : stored[t] \subseteq stored'[t]
           /\ a \in stored'[s]
           /\ SavedMail \subseteq SavedMail'
<1>1. (\A t \in Destinations : stored[t] \subseteq stored'[t]) /\ a \in stored'[s]
    BY DEF StorageTypeOK, Put
<1> QED
    BY <1>1 DEF SavedMail, Saved

LEMMA CompleteInit == Init => Complete
<1> SUFFICES ASSUME Init PROVE Complete
    OBVIOUS
<1> QED
    BY TypeInit DEF Init, Complete, WalkInv, StoreInv, Covered, MarkInv, SealInv,
       Walking, Pending, FetchPcs
\* A process that ended has nothing left to account for.
LEMMA ExitComplete ==
    ASSUME NEW code, Exit(code), mail' = mail
    PROVE  WalkInv' /\ StoreInv' /\ Covered' /\ MarkInv' /\ SealInv'
BY DEF Exit, WalkInv, StoreInv, Covered, MarkInv, SealInv, Walking, Pending, FetchPcs

\* A walk that failed promises nothing but to close the destinations.
LEMMA FailComplete ==
    ASSUME WalkInv, FailFetch, mail' = mail
    PROVE  WalkInv' /\ StoreInv' /\ Covered' /\ MarkInv' /\ SealInv'
<1>1. seen' \subseteq Delivered'
    BY SetsStable DEF FailFetch, LeaveFetch, historyVars, WalkInv
<1> QED
    BY <1>1 DEF FailFetch, LeaveFetch, historyVars, WalkInv, StoreInv, Covered, MarkInv, SealInv, Walking, Pending, FetchPcs

\* A later instant is not on an earlier day.
LEMMA DayMonotone ==
    ASSUME NEW a \in Int, NEW b \in Int, NEW d \in Nat \ {0}, a <= b
    PROVE  a \div d <= b \div d
<1> DEFINE q == a \div d
           r == b \div d
<1>1. q \in Int /\ r \in Int /\ d * q <= a /\ b < d * (r + 1)
    OBVIOUS
<1>2. SUFFICES ASSUME r + 1 <= q PROVE FALSE
    BY <1>1
<1>3. d * (r + 1) <= d * q
    BY <1>1, <1>2
<1> QED
    BY <1>1, <1>3

\* What the search returns has all of the window in it.
LEMMA SearchCovers ==
    ASSUME ZonesInOrder, MailTypeOK, RunTypeOK, SearchMailbox
    PROVE  Live(box) \cap WindowMail \subseteq rest'
<1> SUFFICES ASSUME NEW m \in Live(box), m \in WindowMail
             PROVE  m \in rest'
    OBVIOUS
<1>1. CASE req.since = 0
    BY <1>1 DEF SearchMailbox, SearchHits
<1>2. CASE req.since # 0
  <2>1. req.since \in Nat /\ mail[m].date \in Nat /\ mail[m].date > req.since
      BY <1>2 DEF WindowMail, InWindow, RunTypeOK, MailTypeOK
  <2>2. SinceZone \in Int /\ SinceZone <= ZoneOffset
      BY MailAssumption DEF SinceZone, ZonesInOrder
  <2>3. mail[m].date # 0 /\ BoundDay(req.since, SinceZone) <= ServerDay(mail[m].date)
    <3>1. /\ DayLength \in Nat \ {0}
          /\ mail[m].date + ZoneOffset \in Int /\ req.since + SinceZone \in Int
          /\ req.since + SinceZone <= mail[m].date + ZoneOffset
        BY <2>1, <2>2, MailAssumption
    <3>2. (req.since + SinceZone) \div DayLength <= (mail[m].date + ZoneOffset) \div DayLength
        BY <3>1, DayMonotone
    <3> QED
        BY <2>1, <3>2 DEF BoundDay, ServerDay
  <2>4. BoundDay(req.since, SinceZone) \in Int /\ ServerDay(mail[m].date) \in Int
      BY <2>1, <2>2, MailAssumption DEF BoundDay, ServerDay
  <2> QED
      BY <1>2, <2>1, <2>3, <2>4 DEF SearchMailbox, SearchHits
<1> QED
    BY <1>1, <1>2

\* Every step keeps the account of the window.
LEMMA CompleteNext ==
    ASSUME Complete, [Next]_vars
    PROVE  Complete'
<1>t. TypeInv' /\ MailTypeOK /\ StorageTypeOK /\ RunTypeOK /\ Control
    BY TypeNext DEF Complete, TypeInv, TypeOK
<1>i. WalkInv /\ StoreInv /\ Covered /\ MarkInv /\ SealInv
    BY DEF Complete
<1>g. SUFFICES WalkInv' /\ StoreInv' /\ Covered' /\ MarkInv' /\ SealInv'
    BY <1>t DEF Complete
<1>1. CASE TimePasses
    BY <1>1, <1>t, <1>i, SetsStable
    DEF TimePasses, Step, Environment, Tick, walkVars, emitVars, resultVars, historyVars, storageVars, mailVars,
        Keeps, WalkInv, StoreInv, Covered, MarkInv, SealInv, Walking, Pending, FetchPcs
<1>2. CASE MailArrives
  <2>1. PICK n \in Messages : Environment(Deliver(n))
      BY <1>2 DEF MailArrives
  <2>2. /\ Delivered \subseteq Delivered'
        /\ \A m \in Delivered : mail'[m] = mail[m]
      BY <2>1, <1>t DEF Environment, Deliver, Delivered, MailTypeOK
  <2>3. /\ seen \cap WindowMail' = seen \cap WindowMail
        /\ seen \cap UpToLatest' = seen \cap UpToLatest
        /\ seen \cap ExcusedMail' = seen \cap ExcusedMail
        /\ SavedMail' = SavedMail
      BY <2>1, <2>2, <1>i, SetsStable
      DEF Environment, WalkInv, WindowMail, InWindow, UpToLatest, ExcusedMail, Excused, historyVars,
          storageVars, resultVars
  <2>4. pc \in {"transform", "store"} => Keeps(cur)'
      BY <2>1, <2>2, <1>i
      DEF Environment, WalkInv, StoreInv, Pending, Keeps, emitVars
  <2> QED
      BY <2>1, <2>2, <2>3, <2>4, <1>i DEF Environment, Keeps, walkVars, emitVars, resultVars, historyVars, storageVars, mailVars, WalkInv, StoreInv, Covered, MarkInv, SealInv, Walking, Pending, FetchPcs
<1>3. CASE MailDeleted
  <2>1. PICK n \in Messages : Environment(Expunge(n))
      BY <1>3 DEF MailDeleted
  <2>2. \A m \in Messages : /\ mail'[m].date = mail[m].date
                            /\ mail[m].state # "unsent" => mail'[m].state # "unsent"
                            /\ mail[m].state = "expunged" => mail'[m].state = "expunged"
      BY <2>1, <1>t DEF Environment, Expunge, MailTypeOK, MailStates
  <2>3. /\ WindowMail' = WindowMail
        /\ UpToLatest' = UpToLatest
        /\ ExcusedMail \subseteq ExcusedMail'
        /\ SavedMail' = SavedMail
        /\ Delivered \subseteq Delivered'
      BY <2>1, <2>2, SetsStable
      DEF Environment, WindowMail, InWindow, UpToLatest, ExcusedMail, Excused, Delivered, historyVars,
          storageVars, resultVars
  <2>4. pc \in {"transform", "store"} => Keeps(cur)'
      BY <2>1, <2>2, <1>i, <1>t DEF Environment, StoreInv, Keeps, Control, emitVars
  <2> QED
      BY <2>1, <2>2, <2>3, <2>4, <1>i, <1>t DEF Environment, Keeps, SavedMail, walkVars, emitVars, resultVars, historyVars, storageVars, mailVars, WalkInv, StoreInv, Covered, MarkInv, SealInv, Walking, Pending, FetchPcs
<1>4. CASE StartAll
  <2>1. PICK mode, since, found : Begin(mode, since, found)
      BY <1>4 DEF StartAll
  <2> QED
      BY <2>1, <1>i, SetsStable DEF Begin, walkVars, emitVars, resultVars, historyVars, storageVars, mailVars, WalkInv, StoreInv, Covered, MarkInv, SealInv, Walking, Pending, FetchPcs
<1>5. CASE StartDuration
  <2>1. PICK mode, since, found : Begin(mode, since, found)
      BY <1>5 DEF StartDuration
  <2> QED
      BY <2>1, <1>i, SetsStable DEF Begin, walkVars, emitVars, resultVars, historyVars, storageVars, mailVars, WalkInv, StoreInv, Covered, MarkInv, SealInv, Walking, Pending, FetchPcs
<1>6. CASE StartResume
  <2>1. PICK mode, since, found : Begin(mode, since, found)
      BY <1>6 DEF StartResume, StartFromFile, FallBack
  <2> QED
      BY <2>1, <1>i, SetsStable DEF Begin, walkVars, emitVars, resultVars, historyVars, storageVars, mailVars, WalkInv, StoreInv, Covered, MarkInv, SealInv, Walking, Pending, FetchPcs
<1>7. CASE StartRefused
    BY <1>7, <1>t, <1>i, SetsStable
    DEF StartRefused, Step, walkVars, emitVars, resultVars, historyVars, storageVars, mailVars,
        Keeps, WalkInv, StoreInv, Covered, MarkInv, SealInv, Walking, Pending, FetchPcs
<1>8. CASE Connect
    BY <1>8, <1>t, <1>i, SetsStable
    DEF Connect, Step, walkVars, emitVars, resultVars, historyVars, storageVars, mailVars,
        Keeps, WalkInv, StoreInv, Covered, MarkInv, SealInv, Walking, Pending, FetchPcs
<1>9. CASE PrepareSink
    BY <1>9, <1>t, <1>i, SetsStable
    DEF PrepareSink, Step, walkVars, emitVars, resultVars, historyVars, storageVars, mailVars,
        Keeps, WalkInv, StoreInv, Covered, MarkInv, SealInv, Walking, Pending, FetchPcs
<1>10. CASE ListMailboxes
    BY <1>10, <1>t, <1>i, SetsStable
    DEF ListMailboxes, Step, walkVars, emitVars, resultVars, historyVars, storageVars, mailVars,
        Keeps, WalkInv, StoreInv, Covered, MarkInv, SealInv, Walking, Pending, FetchPcs
<1>11. CASE SelectMailbox
    BY <1>11, <1>t, <1>i, SetsStable
    DEF SelectMailbox, Step, walkVars, emitVars, resultVars, historyVars, storageVars, mailVars,
        Keeps, WalkInv, StoreInv, Covered, MarkInv, SealInv, Walking, Pending, FetchPcs
<1>12. CASE SearchMailbox
  <2>1. rest' \subseteq Live(box) /\ seen' = seen \cup Live(box) /\ UNCHANGED <<mail, req, stored, latest, bodyless>>
      BY <1>12 DEF SearchMailbox, SearchHits, Step, mailVars, storageVars, resultVars
  <2>2. ZonesInOrder => Live(box) \cap WindowMail \subseteq rest'
      BY <1>12, <1>t, SearchCovers
  <2>3. Live(box) \subseteq Delivered
      BY DEF Live, Delivered
  <2> QED
      BY <1>12, <2>1, <2>2, <2>3, <1>i, SetsStable
      DEF SearchMailbox, Step, walkVars, emitVars, resultVars, historyVars, storageVars, mailVars, WalkInv, StoreInv, Covered, MarkInv, SealInv, Walking, Pending, FetchPcs
<1>13. CASE FetchBatch
    BY <1>13, <1>t, <1>i, SetsStable
    DEF FetchBatch, Step, FirstOf, walkVars, emitVars, resultVars, historyVars, storageVars, mailVars,
        Keeps, WalkInv, StoreInv, Covered, MarkInv, SealInv, Walking, Pending, FetchPcs
<1>14. CASE MailboxDone
    BY <1>14, <1>t, <1>i, SetsStable
    DEF MailboxDone, Step, walkVars, emitVars, resultVars, historyVars, storageVars, mailVars,
        Keeps, WalkInv, StoreInv, Covered, MarkInv, SealInv, Walking, Pending, FetchPcs
<1>15. CASE FetchDone
  <2>1. UNCHANGED <<mail, req, stored, latest, bodyless, seen>> /\ ~fetchErr'
      BY <1>15 DEF FetchDone, Step, LeaveFetch, walkVars, emitVars, resultVars, historyVars, storageVars, mailVars
  <2> QED
      BY <1>15, <2>1, <1>i, SetsStable DEF FetchDone, Step, LeaveFetch, WalkInv, StoreInv, Covered, MarkInv, SealInv, Walking, Pending, FetchPcs
<1>16. CASE BatchDone
    BY <1>16, <1>t, <1>i, SetsStable
    DEF BatchDone, Step, walkVars, emitVars, resultVars, historyVars, storageVars, mailVars,
        Keeps, WalkInv, StoreInv, Covered, MarkInv, SealInv, Walking, Pending, FetchPcs
<1>17. CASE \E m \in Messages : ReceiveMessage(m)
    BY <1>17, <1>t, <1>i, SetsStable
    DEF ReceiveMessage, Step, walkVars, emitVars, resultVars, historyVars, storageVars, mailVars,
        Keeps, WalkInv, StoreInv, Covered, MarkInv, SealInv, Walking, Pending, FetchPcs
<1>18. CASE \E m \in Messages : PassOver(m)
  <2>1. PICK m \in Messages : PassOver(m)
      BY <1>18
  <2>2. m \in Delivered
      BY <2>1, <1>i DEF PassOver, Step, WalkInv, Pending
  <2>3. m \in WindowMail => m \in ExcusedMail
      BY <2>1, <2>2, <1>t
      DEF PassOver, Keeps, WindowMail, InWindow, ExcusedMail, Excused, Delivered, MailTypeOK, MailStates
  <2> QED
      BY <2>1, <2>3, <1>i, SetsStable DEF PassOver, Step, walkVars, emitVars, resultVars, historyVars, storageVars, mailVars, WalkInv, StoreInv, Covered, MarkInv, SealInv, Walking, Pending, FetchPcs
<1>19. CASE \E m \in Messages : SkipBodyless(m)
  <2>1. PICK m \in Messages : SkipBodyless(m)
      BY <1>19
  <2>2. ExcusedMail' = ExcusedMail \cup {m}
      BY <2>1 DEF SkipBodyless, Step, ExcusedMail, Excused, mailVars
  <2> QED
      BY <2>1, <2>2, <1>i, SetsStable DEF SkipBodyless, Step, walkVars, emitVars, resultVars, historyVars, storageVars, mailVars, WalkInv, StoreInv, Covered, MarkInv, SealInv, Walking, Pending, FetchPcs
<1>20. CASE Transform
    BY <1>20, <1>t, <1>i, SetsStable
    DEF Transform, Step, walkVars, emitVars, resultVars, historyVars, storageVars, mailVars,
        Keeps, WalkInv, StoreInv, Covered, MarkInv, SealInv, Walking, Pending, FetchPcs
<1>21. CASE StoreNextSink
  <2>1. StorageTypeOK /\ k \in 1 .. Len(Sinks) /\ Sinks[k] \in Destinations /\ Put(Sinks[k], <<cur, art>>)
      BY <1>21, <1>t, SinkFacts DEF StoreNextSink, Step, Control
  <2>2. /\ \A s \in Destinations : stored[s] \subseteq stored'[s]
        /\ <<cur, art>> \in stored'[Sinks[k]]
        /\ SavedMail \subseteq SavedMail'
      BY <2>1, PutAdds
  <2>3. UNCHANGED <<mail, req, bodyless, seen, rest, batch>>
      BY <1>21 DEF StoreNextSink, Step, mailVars, historyVars, walkVars
  <2>4. StoreInv'
      BY <1>21, <2>1, <2>2, <1>i, <1>t, SinkFacts DEF StoreNextSink, Step, StoreInv, Keeps, Control, mailVars
  <2> QED
      BY <1>21, <2>2, <2>3, <2>4, <1>i, SetsStable
      DEF StoreNextSink, Step, resultVars, mailVars, WalkInv, Covered, MarkInv, SealInv, Walking, Pending, FetchPcs
<1>22. CASE StoreNextArtifact
  <2>1. StorageTypeOK /\ k \in 1 .. Len(Sinks) /\ Sinks[k] \in Destinations /\ Put(Sinks[k], <<cur, art>>)
      BY <1>22, <1>t, SinkFacts DEF StoreNextArtifact, Step, Control
  <2>2. /\ \A s \in Destinations : stored[s] \subseteq stored'[s]
        /\ <<cur, art>> \in stored'[Sinks[k]]
        /\ SavedMail \subseteq SavedMail'
      BY <2>1, PutAdds
  <2>3. UNCHANGED <<mail, req, bodyless, seen, rest, batch>>
      BY <1>22 DEF StoreNextArtifact, Step, mailVars, historyVars, walkVars
  <2>4. \A s \in Destinations : <<cur, art>> \in stored'[s]
    <3> SUFFICES ASSUME NEW j \in 1 .. Len(Sinks)
                 PROVE  <<cur, art>> \in stored'[Sinks[j]]
        BY DEF Destinations
    <3> QED
        BY <1>22, <2>1, <2>2, <1>i, SinkFacts DEF StoreNextArtifact, Step, StoreInv
  <2>5. \A i \in 1 .. art : \A s \in Destinations : <<cur, i>> \in stored'[s]
    <3>1. \A i \in 1 .. art - 1 : \A s \in Destinations : <<cur, i>> \in stored[s]
        BY <1>22, <1>i DEF StoreNextArtifact, Step, StoreInv
    <3>2. art \in Nat /\ \A i \in 1 .. art : i = art \/ i \in 1 .. art - 1
        BY <1>t DEF RunTypeOK
    <3> QED
        BY <3>1, <3>2, <2>2, <2>4
  <2>6. StoreInv'
      BY <1>22, <2>5, <1>i, <1>t DEF StoreNextArtifact, Step, StoreInv, Keeps, Control, RunTypeOK, mailVars
  <2> QED
      BY <1>22, <2>2, <2>3, <2>6, <1>i, SetsStable
      DEF StoreNextArtifact, Step, resultVars, mailVars, WalkInv, Covered, MarkInv, SealInv, Walking, Pending, FetchPcs
<1>23. CASE StoreLastArtifact
  <2>1. StorageTypeOK /\ k \in 1 .. Len(Sinks) /\ Sinks[k] \in Destinations /\ Put(Sinks[k], <<cur, art>>)
      BY <1>23, <1>t, SinkFacts DEF StoreLastArtifact, Step, Control
  <2>2. /\ \A s \in Destinations : stored[s] \subseteq stored'[s]
        /\ <<cur, art>> \in stored'[Sinks[k]]
        /\ SavedMail \subseteq SavedMail'
      BY <2>1, PutAdds
  <2>3. UNCHANGED <<mail, req, bodyless, seen, rest, batch>>
      BY <1>23 DEF StoreLastArtifact, Step, mailVars, historyVars, walkVars
  <2>4. \A s \in Destinations : <<cur, art>> \in stored'[s]
    <3> SUFFICES ASSUME NEW j \in 1 .. Len(Sinks)
                 PROVE  <<cur, art>> \in stored'[Sinks[j]]
        BY DEF Destinations
    <3> QED
        BY <1>23, <2>1, <2>2, <1>i, SinkFacts DEF StoreLastArtifact, Step, StoreInv
  <2>5. \A i \in 1 .. art : \A s \in Destinations : <<cur, i>> \in stored'[s]
    <3>1. \A i \in 1 .. art - 1 : \A s \in Destinations : <<cur, i>> \in stored[s]
        BY <1>23, <1>i DEF StoreLastArtifact, Step, StoreInv
    <3>2. art \in Nat /\ \A i \in 1 .. art : i = art \/ i \in 1 .. art - 1
        BY <1>t DEF RunTypeOK
    <3> QED
        BY <3>1, <3>2, <2>2, <2>4
  <2>6. cur \in Messages /\ cur \in SavedMail'
      BY <1>23, <2>5, <1>t DEF StoreLastArtifact, Step, SavedMail, Saved, Control
  <2>7. /\ latest \in Nat /\ mail[cur].date \in Nat /\ latest' \in Nat
        /\ latest' >= latest /\ latest' >= mail[cur].date
        /\ latest' \in {latest, mail[cur].date}
      BY <1>23, <2>6, <1>t DEF StoreLastArtifact, Newer, RunTypeOK, MailTypeOK
  <2>8. UpToLatest \subseteq UpToLatest' /\ cur \in UpToLatest'
      BY <2>3, <2>6, <2>7, <1>t DEF UpToLatest, MailTypeOK
  <2>9. Covered'
      BY <1>23, <2>2, <2>3, <2>6, <2>8, <1>i, SetsStable
      DEF StoreLastArtifact, Step, Covered, Walking, Pending, FetchPcs
  <2>10. MarkInv'
    <3>1. Walking /\ cur \in seen /\ Keeps(cur)
        BY <1>23, <1>i DEF StoreLastArtifact, Step, WalkInv, StoreInv, Walking, Pending, FetchPcs
    <3>2. SUFFICES ASSUME latest' # 0
                   PROVE  /\ latest' > req.since
                          /\ \E m \in seen \cap SavedMail' : mail[m].date = latest'
        BY <2>3 DEF MarkInv
    <3>3. CASE latest' = mail[cur].date
        BY <3>1, <3>2, <3>3, <2>6, <2>7, <1>t DEF Keeps, RunTypeOK
    <3>4. CASE latest' = latest
        BY <3>1, <3>2, <3>4, <2>2, <1>i DEF MarkInv
    <3> QED
        BY <2>7, <3>3, <3>4
  <2>11. WalkInv' /\ StoreInv' /\ SealInv'
      BY <1>23, <2>3, <1>i, SetsStable
      DEF StoreLastArtifact, Step, WalkInv, StoreInv, SealInv, Pending, FetchPcs
  <2> QED
      BY <2>9, <2>10, <2>11
<1>24. CASE CloseSink
  <2>1. UNCHANGED <<mail, req, stored, latest, bodyless, seen, rest, batch, fetchErr, closeErr>>
      BY <1>24 DEF CloseSink, AfterClose, Step, Finish, walkVars, emitVars, resultVars, historyVars, storageVars, mailVars
  <2>2. pc = "close" /\ pc' \in {"close", "return"} /\ (pc' = "return" => k = Len(Sinks)) /\ k' = k + 1
      BY <1>24, <1>t, SinkFacts DEF CloseSink, AfterClose, Step, Control
  <2>3. (sealed => sealed') /\ (Sinks[k] = "tar" => sealed')
      BY <1>24, <1>t DEF CloseSink, Finish, StorageTypeOK
  <2>4. SealInv'
      BY <2>1, <2>2, <2>3, <1>i, <1>t, SinkFacts DEF SealInv, Control, Destinations
  <2> QED
      BY <2>1, <2>2, <2>4, <1>i, SetsStable
      DEF WalkInv, StoreInv, Covered, MarkInv, Walking, Pending, FetchPcs
<1>25. CASE ReturnError
    BY <1>25, ExitComplete DEF ReturnError, mailVars
<1>26. CASE ReturnNothing
    BY <1>26, ExitComplete DEF ReturnNothing, mailVars
<1>27. CASE ReturnLatest
    BY <1>27, <1>t, <1>i, SetsStable
    DEF ReturnLatest, Step, walkVars, emitVars, resultVars, historyVars, storageVars, mailVars,
        Keeps, WalkInv, StoreInv, Covered, MarkInv, SealInv, Walking, Pending, FetchPcs
<1>28. CASE TruncateWatermark
    BY <1>28, <1>t, <1>i, SetsStable
    DEF TruncateWatermark, Step, walkVars, emitVars, resultVars, historyVars, storageVars, mailVars,
        Keeps, WalkInv, StoreInv, Covered, MarkInv, SealInv, Walking, Pending, FetchPcs
<1>29. CASE WriteWatermark
    BY <1>29, ExitComplete DEF WriteWatermark, mailVars
<1>30. CASE ConnectFails
    BY <1>30, ExitComplete DEF ConnectFails, Fault, mailVars
<1>31. CASE PrepareFails
    BY <1>31, ExitComplete DEF PrepareFails, Fault, mailVars
<1>32. CASE FetchFails
    BY <1>32, <1>i, FailComplete DEF FetchFails, Fault, mailVars
<1>33. CASE TransformFails
    BY <1>33, <1>i, FailComplete DEF TransformFails, Fault, mailVars
<1>34. CASE StoreFails
    BY <1>34, <1>i, FailComplete DEF StoreFails, Fault, mailVars
<1>35. CASE CloseFails
  <2>1. UNCHANGED <<mail, req, stored, latest, bodyless, seen, rest, batch, fetchErr>> /\ closeErr'
      BY <1>35 DEF CloseFails, Fault, walkVars, emitVars, resultVars, historyVars, storageVars, mailVars
  <2>2. pc = "close" /\ pc' \in {"close", "return"}
      BY <1>35 DEF CloseFails
  <2> QED
      BY <2>1, <2>2, <1>i, SetsStable DEF WalkInv, StoreInv, Covered, MarkInv, SealInv, Walking, Pending, FetchPcs
<1>36. CASE WriteFails
    BY <1>36, ExitComplete DEF WriteFails, Fault, mailVars
<1>37. CASE Crash
    BY <1>37, ExitComplete DEF Crash, Fault, mailVars
<1>38. CASE UNCHANGED vars
    BY <1>38, <1>i, SetsStable DEF vars, Keeps, walkVars, emitVars, resultVars, historyVars, storageVars, mailVars, WalkInv, StoreInv, Covered, MarkInv, SealInv, Walking, Pending, FetchPcs
<1> QED
    BY <1>1, <1>2, <1>3, <1>4, <1>5, <1>6, <1>7, <1>8, <1>9, <1>10, <1>11, <1>12, <1>13, <1>14, <1>15, <1>16, <1>17, <1>18, <1>19, <1>20, <1>21, <1>22, <1>23, <1>24, <1>25, <1>26, <1>27, <1>28, <1>29, <1>30, <1>31, <1>32, <1>33, <1>34, <1>35, <1>36, <1>37, <1>38
    DEF Next, Start, Run, Failure

\* The account of the window is kept in every reachable state, whatever
\* fails and whenever the process is killed.
LEMMA AlwaysComplete == Spec => []Complete
<1>1. Init => Complete
    BY CompleteInit
<1>2. Complete /\ [Next]_vars => Complete'
    BY CompleteNext
<1> QED
    BY <1>1, <1>2, PTL DEF Spec

\* What the account says once nothing is pending.
LEMMA WindowIsSaved ==
    ASSUME ZonesInOrder, Complete, pc \in {"return", "record", "write"}, ~fetchErr
    PROVE  /\ WindowSaved
           /\ seen \cap WindowMail \subseteq (SavedMail \cap UpToLatest) \cup ExcusedMail
<1>1. Pending = {} /\ seen \cap WindowMail
                        \subseteq (SavedMail \cap UpToLatest) \cup ExcusedMail \cup Pending
    BY DEF Complete, WalkInv, Covered, Walking, Pending
<1>2. seen \subseteq Messages
    BY DEF Complete, TypeInv, TypeOK, RunTypeOK
<1> QED
    BY <1>1, <1>2 DEF WindowSaved, WindowMail, SavedMail, ExcusedMail

LEMMA CompleteMeans == ZonesInOrder /\ Complete => RunComplete
BY WindowIsSaved DEF RunComplete, Complete, SealInv

\* A run that returns without error has saved its whole window in every
\* destination and sealed the archive: RunComplete, for every number of
\* mailboxes, messages, artifacts, destinations and failures.
THEOREM RunsAreComplete ==
    ASSUME ZonesInOrder
    PROVE  Spec => []RunComplete
BY CompleteMeans, AlwaysComplete, PTL

\* A step that records a timestamp is the end of a write whose window is saved.
LEMMA RecordingStep ==
    ASSUME Complete, [Next]_vars, file' # file, file'.kind = "stamp"
    PROVE  /\ pc = "write" /\ ~fetchErr /\ latest # 0 /\ file' = Stamp(latest)
           /\ file'.stamp = latest
<1> USE DEF storageVars, walkVars, resultVars
<1>1. pc = "write" /\ (WriteWatermark \/ WriteFails \/ Crash)
  <2>1. CASE TimePasses \/ MailArrives \/ MailDeleted
      BY <2>1 DEF TimePasses, MailArrives, MailDeleted, Environment
  <2>2. CASE Start
      BY <2>2 DEF Start, StartAll, StartDuration, StartResume, StartFromFile, FallBack,
        StartRefused, Begin
  <2>3. CASE Run
    <3>1. CASE TruncateWatermark
        BY <3>1 DEF TruncateWatermark, OpenWatermark, File
    <3>2. CASE \E m \in Messages : ReceiveMessage(m) \/ PassOver(m) \/ SkipBodyless(m)
        BY <3>2 DEF ReceiveMessage, PassOver, SkipBodyless
    <3>3. CASE WriteWatermark
        BY <3>3 DEF WriteWatermark
    <3> QED
        BY <2>3, <3>1, <3>2, <3>3
        DEF Run, Connect, PrepareSink, ListMailboxes, SelectMailbox, SearchMailbox, FetchBatch,
            MailboxDone, FetchDone, BatchDone, Transform, StoreNextSink, StoreNextArtifact,
            StoreLastArtifact, CloseSink, ReturnError, ReturnNothing, ReturnLatest
  <2>4. CASE Failure
      BY <2>4 DEF Failure, ConnectFails, PrepareFails, FetchFails, TransformFails, StoreFails,
                  CloseFails, WriteFails, Crash
  <2>5. CASE UNCHANGED vars
      BY <2>5 DEF vars
  <2> QED
      BY <2>1, <2>2, <2>3, <2>4, <2>5 DEF Next
<1>2. file' = Stamp(latest)
    BY <1>1 DEF WriteWatermark, WriteFails, Crash, FillWatermark, TearWatermark, File
<1>3. ~fetchErr /\ latest # 0
    BY <1>1 DEF Complete, SealInv, TypeInv, Control
<1> QED
    BY <1>1, <1>2, <1>3 DEF Stamp

\* MarkIsEarned, for every instance: a timestamp is recorded only for a window
\* saved whole, and it is the date of the newest message the run saved.
THEOREM MarkAlwaysEarned ==
    ASSUME ZonesInOrder
    PROVE  Spec => MarkIsEarned
<1> DEFINE Earned == file' # file /\ file'.kind = "stamp" =>
                        /\ WindowSaved
                        /\ \E m \in seen : Saved(m) /\ mail[m].date = file'.stamp
                        /\ \A m \in seen : Excused(m) \/ mail[m].date <= file'.stamp
<1>1. Complete /\ [Next]_vars => [Earned]_vars
  <2> SUFFICES ASSUME Complete, [Next]_vars, file' # file, file'.kind = "stamp"
               PROVE  Earned
      OBVIOUS
  <2>1. pc = "write" /\ ~fetchErr /\ latest # 0 /\ file'.stamp = latest
      BY RecordingStep
  <2>2. /\ WindowSaved
        /\ seen \cap WindowMail \subseteq (SavedMail \cap UpToLatest) \cup ExcusedMail
      BY <2>1, WindowIsSaved
  <2>3. latest > req.since /\ \E m \in seen \cap SavedMail : mail[m].date = latest
      BY <2>1 DEF Complete, MarkInv, Walking
  <2>4. ASSUME NEW m \in seen PROVE Excused(m) \/ mail[m].date <= latest
    <3>1. m \in Messages /\ req.since \in Nat /\ latest \in Nat /\ mail[m].date \in Nat
        BY <2>4 DEF Complete, TypeInv, TypeOK, RunTypeOK, MailTypeOK
    <3>2. CASE m \in WindowMail
        BY <2>2, <2>4, <3>2 DEF UpToLatest, ExcusedMail
    <3>3. CASE m \notin WindowMail
        BY <2>3, <3>1, <3>3 DEF WindowMail, InWindow
    <3> QED
        BY <3>2, <3>3
  <2> QED
      BY <2>1, <2>2, <2>3, <2>4 DEF SavedMail
<1> QED
    BY <1>1, AlwaysComplete, PTL DEF MarkIsEarned, Spec

\* ResumeAdvances, for every instance and any zones: a resumed run records a
\* later timestamp than the one it started from.
THEOREM ResumeAlwaysAdvances == Spec => ResumeAdvances
<1> DEFINE Advances == resumed /\ file' # file /\ file'.kind = "stamp"
                        => file'.stamp > req.since
<1>1. Complete /\ [Next]_vars => [Advances]_vars
    BY RecordingStep DEF Complete, MarkInv, Walking
<1> QED
    BY <1>1, AlwaysComplete, PTL DEF ResumeAdvances, Spec

\* A step that leaves "search" for "batch" is the search.
LEMMA SearchingStep ==
    ASSUME [Next]_vars, pc = "search", pc' = "batch"
    PROVE  SearchMailbox
<1>1. CASE TimePasses \/ MailArrives \/ MailDeleted
    BY <1>1 DEF TimePasses, MailArrives, MailDeleted, Environment
<1>2. CASE Start
    BY <1>2 DEF Start, StartAll, StartDuration, StartResume, StartFromFile, FallBack,
        StartRefused, Begin
<1>3. CASE Run
  <2>1. CASE \E m \in Messages : ReceiveMessage(m) \/ PassOver(m) \/ SkipBodyless(m)
      BY <2>1 DEF ReceiveMessage, PassOver, SkipBodyless, Step
  <2> QED
      BY <1>3, <2>1
      DEF Run, Step, Connect, PrepareSink, ListMailboxes, SelectMailbox, FetchBatch, MailboxDone,
          FetchDone, BatchDone, Transform, StoreNextSink, StoreNextArtifact, StoreLastArtifact,
          CloseSink, AfterClose, ReturnError, ReturnNothing, ReturnLatest, TruncateWatermark,
          WriteWatermark
<1>4. CASE Failure
    BY <1>4 DEF Failure, ConnectFails, PrepareFails, FetchFails, TransformFails, StoreFails,
                CloseFails, WriteFails, Crash, FailFetch, Exit
<1> QED
    BY <1>1, <1>2, <1>3, <1>4 DEF Next, vars

\* SearchIsSuperset, for every length of day and every zone that is not behind
\* UTC: the search misses no dated message of the window (search, imap.go).
THEOREM SearchAlwaysCovers ==
    ASSUME ZonesInOrder
    PROVE  Spec => SearchIsSuperset
<1> DEFINE Covers == pc = "search" /\ pc' = "batch" =>
                        {m \in Live(box) : mail[m].date # 0 /\ InWindow(m)} \subseteq rest'
<1>1. TypeInv /\ [Next]_vars => [Covers]_vars
    BY SearchingStep, SearchCovers DEF TypeInv, TypeOK, Live, WindowMail
<1>2. Spec => []TypeInv
    BY TypeCorrect, PTL DEF TypeInv
<1> QED
    BY <1>1, <1>2, PTL DEF SearchIsSuperset, Spec

\* ArchiveSurvivesFailedBuild, for every list of destinations in buildSink's order:
\* no step but the last of building them touches the archive of the run before.
THEOREM ArchiveAlwaysSurvives == Spec => ArchiveSurvivesFailedBuild
<1> DEFINE Lost == "tar" \in Destinations
                   /\ (~(stored["tar"] \subseteq stored'["tar"]) \/ (sealed /\ ~sealed'))
<1>1. ASSUME TypeInv, Next, Lost PROVE pc' = "list"
  <2>0. StorageTypeOK /\ Control
      BY <1>1 DEF TypeInv, TypeOK
  <2>1. ~UNCHANGED storageVars
      BY <1>1 DEF storageVars
  <2>2. CASE PrepareSink
    <3>1. Sinks[k] = "tar" /\ k \in 1 .. Len(Sinks)
        BY <2>0, <2>1, <2>2 DEF PrepareSink, Prepare, Step, Control
    <3> QED
        BY <2>2, <3>1, SinkAssumption DEF PrepareSink, Step
  <2>3. ASSUME NEW s, NEW a, Put(s, a) PROVE FALSE
      BY <1>1, <2>0, <2>3 DEF Put, StorageTypeOK
  <2>4. ASSUME NEW s, NEW a, Spoil(s, a) PROVE FALSE
      BY <1>1, <2>0, <2>4 DEF Spoil, StorageTypeOK
  <2>5. ASSUME NEW s, Finish(s) PROVE FALSE
      BY <1>1, <2>0, <2>5 DEF Finish, StorageTypeOK
  <2>6. CASE TimePasses \/ MailArrives \/ MailDeleted \/ Start
      BY <2>1, <2>6 DEF TimePasses, MailArrives, MailDeleted, Environment, Start, StartAll,
                        StartDuration, StartResume, StartFromFile, FallBack,
        StartRefused, Begin
  <2>7. CASE Run
    <3>1. CASE \E m \in Messages : ReceiveMessage(m) \/ PassOver(m) \/ SkipBodyless(m)
        BY <2>1, <3>1 DEF ReceiveMessage, PassOver, SkipBodyless
    <3>2. CASE StoreNextSink \/ StoreNextArtifact \/ StoreLastArtifact \/ CloseSink
        BY <2>3, <2>5, <3>2 DEF StoreNextSink, StoreNextArtifact, StoreLastArtifact, CloseSink
    <3> QED
        BY <2>1, <2>2, <2>7, <3>1, <3>2
        DEF Run, Connect, ListMailboxes, SelectMailbox, SearchMailbox, FetchBatch, MailboxDone,
            FetchDone, BatchDone, Transform, ReturnError, ReturnNothing, ReturnLatest,
            TruncateWatermark, WriteWatermark
  <2>8. CASE Failure
      BY <2>1, <2>4, <2>8 DEF Failure, ConnectFails, PrepareFails, FetchFails, TransformFails,
                              StoreFails, CloseFails, WriteFails, Crash
  <2> QED
      BY <1>1, <2>6, <2>7, <2>8 DEF Next
<1>2. TypeInv /\ [Next]_vars => [Lost => pc' = "list"]_vars
    BY <1>1
<1>3. Spec => []TypeInv
    BY TypeCorrect, PTL DEF TypeInv
<1> QED
    BY <1>2, <1>3, PTL DEF ArchiveSurvivesFailedBuild, Spec

-----------------------------------------------------------------------------
(* Why repeated runs with no flags lose no mail: NothingSkipped and the     *)
(* refinement of IncrementalBackup, which the run of Backup shows for two   *)
(* messages, for any number of them, of artifacts, of failures and of       *)
(* destinations.                                                            *)

\* How far a run without a timestamp may look back.
Windows == {Lookback} \cup {d \in Durations : "duration" \in Modes}

\* The circumstances in which they hold: one mailbox of mail that is dated on
\* arrival, no two messages in one second, each with a body; windows,
\* DefaultLookback and any --duration, that are not empty; a server whose day begins
\* no later than the client's; no tar archive, which every run truncates ...
Circumstances ==
    /\ \E b \in Mailboxes : Mailboxes = {b}
    /\ ArrivalDates /\ DistinctInstants /\ ~MayLackBody
    /\ 0 \notin Windows
    /\ ZonesInOrder
    /\ "tar" \notin Destinations

\* ... and runs without flags ...
Unattended == Circumstances /\ Modes = {"resume"}

\* ... or with flags among them, if every destination is a bucket: what lies in a
\* directory, behind the timestamp, a run that stores it again can cut short.
BucketOnly == Destinations \subseteq {"s3"}

Attended == Circumstances /\ BucketOnly

LiveMail == {m \in Messages : mail[m].state = "live"}

\* A time in the past, or the date of a message delivered so far.
Known(t) == t < clock \/ \E n \in Delivered : mail[n].date = t

\* Dates are those of arrival.
DateInv ==
    /\ \A m \in Delivered : mail[m].date \in StartClock .. clock /\ mail[m].box \in Mailboxes
    /\ bodyless = {} /\ forgone \subseteq Delivered

\* Nothing more is owed to a message: it is saved, or no window reached it.
Settled(m) == Saved(m) \/ m \in forgone

\* The timestamp file and the bound of the run name known times.
BoundInv ==
    /\ file.kind = "stamp" => Known(file.stamp)
    /\ pc # "idle" => Known(req.since)
    /\ pc = "search" => box \in Mailboxes

\* Nobody else writes the timestamp file, and nobody gives a flag: the file is as
\* the run found it, and bounds the run.
AloneInv ==
    /\ pc # "idle" => req.since # 0
    /\ pc \notin {"idle", "write"} =>
          /\ resumed <=> file.kind = "stamp"
          /\ resumed => file.stamp = req.since
    /\ pc = "write" => file = File("blank")

\* What a run will not ask for is settled; what it has not seen is newer than all
\* it has.
BehindInv ==
    /\ NothingSkipped
    /\ pc # "idle" => \A m \in LiveMail : mail[m].date <= req.since => Settled(m)
    /\ \A m \in LiveMail \ seen : \A n \in seen : mail[n].date < mail[m].date

SafeInv == DateInv /\ BoundInv /\ BehindInv

StepInv == SafeInv /\ AloneInv

FullInv == Complete /\ StepInv

LEMMA StepInit == Circumstances /\ Init => StepInv
<1> SUFFICES ASSUME Circumstances, Init PROVE StepInv
    OBVIOUS
<1>1. Delivered = {} /\ LiveMail = {}
    BY DEF Init, MailInit, Delivered, LiveMail
<1>2. file.kind # "stamp"
    BY DEF Init, WatermarkInit, File
<1> QED
    BY <1>1, <1>2 DEF Init, StepInv, SafeInv, AloneInv, DateInv, BoundInv, BehindInv, NothingSkipped, LiveMail

-----------------------------------------------------------------------------
(* Every step is of one of these classes. *)

World == TimePasses \/ MailArrives \/ MailDeleted

Beginning == StartAll \/ StartDuration \/ StartResume

\* The run's memory of what it saw is kept or dropped.
HistoryKept == seen' \in {seen, {}} /\ bodyless' \in {bodyless, {}}

\* Nothing outside the process changes.
Quiet ==
    /\ UNCHANGED <<mailVars, file, stored, req, resumed, forgone>> /\ HistoryKept
    /\ \/ pc' = pc /\ (pc = "search" => box' = box)
       \/ pc # "idle" /\ pc # "write" /\ pc' # "write" /\ (pc' = "search" => box' \in Mailboxes)

Storing ==
    /\ UNCHANGED <<mailVars, file, req, resumed, forgone>> /\ HistoryKept
    /\ pc = "store" /\ pc' \notin {"search", "write"}
    /\ \E s \in Destinations : Put(s, <<cur, art>>) \/ Spoil(s, <<cur, art>>)

Recording ==
    /\ UNCHANGED <<mailVars, stored, req, resumed, forgone>>
    /\ pc = "write" /\ pc' = "idle" /\ seen' = {} /\ bodyless' = {}
    /\ file' \in {file, File("garbage"), Stamp(latest)}

LEMMA FailureClass ==
    ASSUME Complete, Failure
    PROVE  Quiet \/ Storing \/ Recording
<1> USE DEF Fault, Exit, FailFetch, LeaveFetch, HistoryKept, historyVars, storageVars, mailVars
<1>1. CASE ConnectFails \/ PrepareFails \/ FetchFails \/ TransformFails \/ CloseFails
    BY <1>1 DEF ConnectFails, PrepareFails, FetchFails, TransformFails, CloseFails, Quiet
<1>2. CASE StoreFails
    BY <1>2, SinkFacts DEF StoreFails, Storing, Complete, TypeInv, Control
<1>3. CASE WriteFails
    BY <1>3 DEF WriteFails, TearWatermark, Quiet, Recording
<1>4. CASE Crash /\ pc = "store"
    BY <1>4, SinkFacts DEF Crash, Storing, Complete, TypeInv, Control
<1>5. CASE Crash /\ pc = "write"
    BY <1>5 DEF Crash, TearWatermark, Recording
<1>6. CASE Crash /\ pc \notin {"store", "write"}
    BY <1>6 DEF Crash, Quiet
<1> QED
    BY <1>1, <1>2, <1>3, <1>4, <1>5, <1>6 DEF Failure

LEMMA RunClass ==
    ASSUME Circumstances, Complete, Run
    PROVE  Quiet \/ Storing \/ SearchMailbox \/ TruncateWatermark \/ Recording
<1> USE DEF Step, HistoryKept, historyVars, storageVars, mailVars
<1>1. CASE PrepareSink
  <2>1. Sinks[k] # "tar"
      BY <1>1, SinkFacts DEF PrepareSink, Complete, TypeInv, Control, Circumstances
  <2> QED
      BY <1>1, <2>1 DEF PrepareSink, Prepare, Quiet
<1>2. CASE SelectMailbox
    BY <1>2 DEF SelectMailbox, Quiet, Complete, TypeInv, TypeOK, RunTypeOK
<1>3. CASE \E m \in Messages : ReceiveMessage(m) \/ PassOver(m) \/ SkipBodyless(m)
    BY <1>3 DEF ReceiveMessage, PassOver, SkipBodyless, Circumstances, Quiet
<1>4. CASE StoreNextSink \/ StoreNextArtifact \/ StoreLastArtifact
  <2>1. k \in 1 .. Len(Sinks) /\ Sinks[k] \in Destinations
      BY <1>4, SinkFacts
      DEF StoreNextSink, StoreNextArtifact, StoreLastArtifact, Complete, TypeInv, Control
  <2> QED
      BY <1>4, <2>1 DEF StoreNextSink, StoreNextArtifact, StoreLastArtifact, Storing
<1>5. CASE WriteWatermark
    BY <1>5 DEF WriteWatermark, FillWatermark, Exit, Recording
<1>6. CASE CloseSink
    BY <1>6 DEF CloseSink, AfterClose, Finish, Quiet
<1>7. CASE FetchDone
    BY <1>7 DEF FetchDone, LeaveFetch, Quiet
<1>8. CASE ReturnError \/ ReturnNothing \/ ReturnLatest
    BY <1>8 DEF ReturnError, ReturnNothing, ReturnLatest, Exit, Quiet
<1>9. CASE Connect \/ ListMailboxes \/ FetchBatch \/ MailboxDone \/ BatchDone \/ Transform
    BY <1>9 DEF Connect, ListMailboxes, FetchBatch, MailboxDone, BatchDone, Transform, Quiet
<1> QED
    BY <1>1, <1>2, <1>3, <1>4, <1>5, <1>6, <1>7, <1>8, <1>9 DEF Run

LEMMA StepClasses ==
    ASSUME Circumstances, Complete, [Next]_vars
    PROVE  \/ World \/ Beginning \/ Quiet \/ Storing \/ SearchMailbox
           \/ TruncateWatermark \/ Recording
<1> USE DEF HistoryKept, historyVars, storageVars, mailVars
<1>1. CASE Start
    BY <1>1 DEF Start, Beginning, StartRefused, walkVars, Quiet
<1>2. CASE UNCHANGED vars
    BY <1>2 DEF vars, walkVars, Quiet
<1> QED
    BY <1>1, <1>2, RunClass, FailureClass DEF Next, World

\* Nobody gives a flag.
LEMMA NoFlags == Unattended /\ Beginning => StartResume
BY DEF Unattended, Beginning, StartAll, StartDuration, Begin

\* Storing one artifact disturbs no other message.
LEMMA StoringKeeps ==
    ASSUME Complete, Storing
    PROVE  /\ cur \in Messages /\ Keeps(cur)
           /\ \A m \in Messages \ {cur} : Saved(m)' <=> Saved(m)
           /\ SavedMail' \in {SavedMail \cup {cur}, SavedMail \ {cur}}
<1>1. cur \in Messages /\ Keeps(cur) /\ StorageTypeOK
    BY DEF Storing, Complete, TypeInv, TypeOK, Control, StoreInv
<1>2. ASSUME NEW m \in Messages \ {cur}, NEW i, NEW s \in Destinations
      PROVE  <<m, i>> \in stored'[s] <=> <<m, i>> \in stored[s]
    BY <1>1 DEF Storing, Put, Spoil, StorageTypeOK
<1>3. \A m \in Messages \ {cur} : Saved(m)' <=> Saved(m)
    BY <1>2 DEF Saved
<1> QED
    BY <1>1, <1>3 DEF SavedMail

\* The account changes by one message at most; a new one is newer than all others.
LEMMA WorldFacts ==
    ASSUME Circumstances, Complete, DateInv, World
    PROVE  /\ UNCHANGED <<file, storageVars, pc, req, resumed, box, seen, forgone>>
           /\ Delivered \subseteq Delivered'
           /\ \A m \in Delivered : mail'[m].date = mail[m].date
           /\ \A m \in LiveMail' \ LiveMail :
                 /\ mail'[m].date = clock
                 /\ \A n \in Delivered : mail[n].date < mail'[m].date
           /\ clock' \in Nat /\ clock' >= clock /\ DateInv'
<1> USE DEF Environment, Delivered, LiveMail, storageVars, walkVars, historyVars
<1>t. MailTypeOK /\ clock \in Nat
    BY DEF Complete, TypeInv, TypeOK, MailTypeOK
<1>1. CASE TimePasses
    BY <1>1, <1>t, MailAssumption, BackupAssumption
    DEF TimePasses, Tick, DateInv, Circumstances, MailTypeOK
<1>2. CASE MailArrives
  <2>1. PICK m \in Messages : Environment(Deliver(m))
      BY <1>2 DEF MailArrives
  <2>2. PICK b \in Mailboxes :
           mail' = [mail EXCEPT ![m] = [state |-> "live", box |-> b, date |-> clock]]
      BY <2>1 DEF Deliver, DeliveryDates, Circumstances
  <2>3. m \notin Delivered /\ \A n \in Delivered : mail[n].date < clock
      BY <2>1 DEF Deliver, Circumstances
  <2>4. /\ clock' = clock /\ bodyless' = bodyless
        /\ UNCHANGED <<file, storageVars, pc, req, resumed, box, seen, forgone>>
      BY <2>1 DEF Deliver
  <2>5. clock \in StartClock .. clock
      BY <1>t, MailAssumption DEF MailTypeOK
  <2>6. /\ Delivered' = Delivered \cup {m}
        /\ LiveMail' \ LiveMail \subseteq {m}
        /\ \A n \in Delivered : mail'[n] = mail[n]
        /\ mail'[m].date = clock /\ mail'[m].box = b
      BY <2>2, <2>3, <1>t DEF MailTypeOK
  <2>7. DateInv'
      BY <2>4, <2>5, <2>6 DEF DateInv
  <2> QED
      BY <1>t, <2>3, <2>4, <2>5, <2>6, <2>7
<1>3. CASE MailDeleted
  <2>1. PICK m \in Messages : Environment(Expunge(m))
      BY <1>3 DEF MailDeleted
  <2>2. /\ Delivered' = Delivered /\ LiveMail' \subseteq LiveMail
        /\ \A n \in Messages : mail'[n].date = mail[n].date /\ mail'[n].box = mail[n].box
      BY <2>1, <1>t DEF Expunge, MailTypeOK
  <2>3. DateInv'
      BY <2>1, <2>2 DEF DateInv, Expunge
  <2> QED
      BY <1>t, <2>1, <2>2, <2>3 DEF Expunge
<1> QED
    BY <1>1, <1>2, <1>3 DEF World

\* A known time stays known, and everything new is later.
LEMMA KnownFacts ==
    ASSUME Circumstances, Complete, DateInv, World, NEW t \in Nat, Known(t)
    PROVE  Known(t)' /\ \A m \in LiveMail' \ LiveMail : mail'[m].date > t
<1>1. /\ Delivered \subseteq Delivered'
      /\ \A m \in Delivered : mail'[m].date = mail[m].date
      /\ \A m \in LiveMail' \ LiveMail :
            /\ mail'[m].date = clock
            /\ \A n \in Delivered : mail[n].date < mail'[m].date
      /\ clock \in Nat /\ clock' \in Nat /\ clock' >= clock
    BY WorldFacts DEF Complete, TypeInv, TypeOK, MailTypeOK
<1>2. Known(t)'
    BY <1>1 DEF Known
<1>3. ASSUME NEW m \in LiveMail' \ LiveMail PROVE mail'[m].date > t
    BY <1>1, <1>3 DEF Known
<1> QED
    BY <1>2, <1>3

\* The classes that leave the account alone leave Known alone, too.
LEMMA KnownStable == UNCHANGED mailVars => /\ Delivered' = Delivered /\ LiveMail' = LiveMail
                                           /\ \A t : Known(t)' <=> Known(t)
BY DEF mailVars, Delivered, LiveMail, Known

-----------------------------------------------------------------------------
\* A run may begin with any bound that is known and has saved mail behind it.
LEMMA BoundKeeps ==
    ASSUME SafeInv, UNCHANGED <<mailVars, file, storageVars, seen, bodyless>>, pc' = "connect",
           forgone \subseteq forgone', forgone' \subseteq forgone \cup LiveMail,
           Known(req'.since), \A m \in LiveMail : mail[m].date <= req'.since => Settled(m)'
    PROVE  SafeInv'
<1>1. DateInv' /\ BoundInv'
    BY KnownStable DEF SafeInv, DateInv, BoundInv, LiveMail, Delivered, mailVars
<1>2. NothingSkipped'
    BY DEF SafeInv, BehindInv, NothingSkipped, LiveMail, Saved, mailVars, storageVars
<1>3. BehindInv'
    BY <1>2 DEF SafeInv, BehindInv, LiveMail, mailVars
<1> QED
    BY <1>1, <1>3 DEF SafeInv

\* A run resumes at its timestamp, or sets out from a window's bound.
LEMMA StartClasses ==
    ASSUME Beginning
    PROVE  /\ UNCHANGED <<mailVars, file, storageVars, seen, bodyless>> /\ pc' = "connect"
           /\ \/ ReadFound /\ req'.since = file.stamp /\ forgone' = forgone
              \/ req'.since = 0 /\ forgone' = forgone
              \/ \E d \in Windows : req'.since = clock - d /\ GiveUpBefore(d)
BY DEF Beginning, StartAll, StartDuration, StartResume, StartFromFile, FallBack, Begin, Windows,
       historyVars

LEMMA StartNext ==
    ASSUME Circumstances, Complete, SafeInv, Beginning
    PROVE  SafeInv'
<1>t. /\ WatermarkTypeOK /\ MailTypeOK /\ StartClock \in Nat \ {0}
      /\ Windows \subseteq Nat \ {0} /\ \A d \in Windows : d < StartClock
    BY MailAssumption, BackupAssumption DEF Complete, TypeInv, TypeOK, Windows, Circumstances
<1>s. \A m \in Messages : Saved(m)' <=> Saved(m)
    BY StartClasses DEF Saved, storageVars
<1>1. CASE ReadFound /\ req'.since = file.stamp /\ forgone' = forgone
  <2>1. Known(req'.since)
      BY <1>1 DEF SafeInv, BoundInv, ReadFound
  <2>2. \A m \in LiveMail : mail[m].date <= req'.since => Settled(m)'
      BY <1>1, <1>s DEF SafeInv, BehindInv, NothingSkipped, ReadFound, LiveMail, Settled
  <2> QED
      BY <1>1, <2>1, <2>2, StartClasses, BoundKeeps
<1>2. CASE req'.since = 0 /\ forgone' = forgone
  <2>1. Known(0)
      BY <1>t DEF Known, MailTypeOK
  <2>2. \A m \in LiveMail : ~(mail[m].date <= 0)
      BY <1>t DEF SafeInv, DateInv, LiveMail, Delivered, MailTypeOK
  <2> QED
      BY <1>2, <2>1, <2>2, StartClasses, BoundKeeps
<1>3. CASE \E d \in Windows : req'.since = clock - d /\ GiveUpBefore(d)
  <2>1. PICK d \in Windows : req'.since = clock - d /\ GiveUpBefore(d)
      BY <1>3
  <2>2. Known(req'.since)
      BY <1>t, <2>1 DEF Known, MailTypeOK
  <2>3. ASSUME NEW m \in LiveMail, mail[m].date <= req'.since PROVE Settled(m)'
    <3>1. mail[m].date \in 1 .. clock - d
        BY <1>t, <2>1, <2>3 DEF SafeInv, DateInv, LiveMail, Delivered, MailTypeOK
    <3> QED
        BY <1>s, <2>1, <3>1 DEF GiveUpBefore, Settled, LiveMail
  <2>4. forgone \subseteq forgone' /\ forgone' \subseteq forgone \cup LiveMail
      BY <2>1 DEF GiveUpBefore, LiveMail
  <2> QED
      BY <2>2, <2>3, <2>4, StartClasses, BoundKeeps
<1> QED
    BY <1>1, <1>2, <1>3, StartClasses

LEMMA WorldNext ==
    ASSUME Circumstances, Complete, SafeInv, World
    PROVE  SafeInv'
<1>1. /\ UNCHANGED <<file, storageVars, pc, req, resumed, box, seen, forgone>>
      /\ Delivered \subseteq Delivered'
      /\ \A m \in Delivered : mail'[m].date = mail[m].date
      /\ \A m \in LiveMail' \ LiveMail : \A n \in Delivered : mail[n].date < mail'[m].date
      /\ DateInv'
    BY WorldFacts DEF SafeInv
<1>t. WatermarkTypeOK /\ RunTypeOK /\ seen \subseteq Delivered
    BY DEF Complete, TypeInv, TypeOK, WalkInv
<1>2. BoundInv'
    BY <1>1, <1>t, KnownFacts DEF SafeInv, BoundInv, WatermarkTypeOK, RunTypeOK
<1>3. \A m \in Messages : Saved(m)' <=> Saved(m)
    BY <1>1 DEF Saved, storageVars
<1>4. LiveMail \subseteq Delivered
    BY DEF LiveMail, Delivered
<1>5. NothingSkipped'
  <2> SUFFICES ASSUME file.kind = "stamp", NEW m \in LiveMail', mail'[m].date <= file.stamp
               PROVE  Settled(m)
      BY <1>1, <1>3 DEF NothingSkipped, LiveMail, Settled
  <2>1. Known(file.stamp) /\ file.stamp \in Nat
      BY <1>t DEF SafeInv, BoundInv, WatermarkTypeOK
  <2>2. m \in LiveMail
    <3> SUFFICES ASSUME m \notin LiveMail PROVE FALSE
        OBVIOUS
    <3>1. mail'[m].date > file.stamp
        BY <2>1, KnownFacts DEF SafeInv
    <3>2. mail'[m].date \in Nat
        BY <1>1, TypeNext DEF Next, World, Complete, TypeInv, TypeOK, MailTypeOK, LiveMail
    <3> QED
        BY <2>1, <3>1, <3>2
  <2> QED
      BY <1>1, <1>4, <2>2 DEF SafeInv, BehindInv, NothingSkipped, LiveMail, Settled
<1>6. ASSUME pc # "idle", NEW m \in LiveMail', mail'[m].date <= req.since
      PROVE  Settled(m)'
  <2>1. Known(req.since) /\ req.since \in Nat
      BY <1>6, <1>t DEF SafeInv, BoundInv, RunTypeOK
  <2>2. m \in LiveMail
    <3> SUFFICES ASSUME m \notin LiveMail PROVE FALSE
        OBVIOUS
    <3>1. mail'[m].date > req.since
        BY <2>1, KnownFacts DEF SafeInv
    <3>2. mail'[m].date \in Nat
        BY <1>1, TypeNext DEF Next, World, Complete, TypeInv, TypeOK, MailTypeOK, LiveMail
    <3> QED
        BY <1>6, <2>1, <3>1, <3>2
  <2> QED
      BY <1>1, <1>3, <1>4, <1>6, <2>2 DEF SafeInv, BehindInv, Settled, LiveMail
<1>7. ASSUME NEW m \in LiveMail' \ seen, NEW n \in seen PROVE mail'[n].date < mail'[m].date
  <2>1. CASE m \in LiveMail
      BY <1>1, <1>4, <1>7, <1>t, <2>1 DEF SafeInv, BehindInv
  <2>2. CASE m \notin LiveMail
      BY <1>1, <1>t, <2>2
  <2> QED
      BY <2>1, <2>2
<1>8. BehindInv'
    BY <1>1, <1>3, <1>5, <1>6, <1>7 DEF BehindInv, LiveMail
<1> QED
    BY <1>1, <1>2, <1>8 DEF SafeInv

LEMMA QuietNext ==
    ASSUME Complete, SafeInv, Quiet
    PROVE  SafeInv'
<1>1. DateInv'
    BY KnownStable DEF Quiet, HistoryKept, SafeInv, DateInv, mailVars
<1>2. BoundInv'
    BY KnownStable DEF Quiet, SafeInv, BoundInv
<1>3. BehindInv'
    BY DEF Quiet, HistoryKept, SafeInv, BehindInv, NothingSkipped, LiveMail, Settled, Saved, mailVars
<1> QED
    BY <1>1, <1>2, <1>3 DEF SafeInv

\* After the search of the only mailbox there is no mail it has not seen.
LEMMA SearchNext ==
    ASSUME Circumstances, Complete, SafeInv, SearchMailbox
    PROVE  SafeInv'
<1>1. /\ UNCHANGED <<mailVars, file, storageVars, req, resumed, bodyless, forgone>>
      /\ pc = "search" /\ pc' = "batch" /\ seen' = seen \cup Live(box)
    BY DEF SearchMailbox, Step
<1>2. LiveMail \subseteq Live(box)
  <2>1. LiveMail \subseteq Delivered /\ box \in Mailboxes
      BY <1>1 DEF LiveMail, Delivered, SafeInv, BoundInv
  <2> QED
      BY <2>1 DEF LiveMail, Live, SafeInv, DateInv, Circumstances
<1>3. DateInv' /\ BoundInv'
    BY <1>1, KnownStable DEF SafeInv, DateInv, BoundInv, mailVars
<1>4. BehindInv'
    BY <1>1, <1>2
    DEF SafeInv, BehindInv, NothingSkipped, LiveMail, Settled, Saved, mailVars, storageVars
<1> QED
    BY <1>3, <1>4 DEF SafeInv

LEMMA TruncateNext ==
    ASSUME Complete, SafeInv, TruncateWatermark
    PROVE  SafeInv'
<1>1. /\ UNCHANGED <<mailVars, storageVars, req, resumed, seen, bodyless, forgone>>
      /\ pc = "record" /\ pc' = "write" /\ file' = File("blank")
    BY DEF TruncateWatermark, OpenWatermark, Step, historyVars
<1>2. DateInv' /\ BoundInv'
    BY <1>1, KnownStable DEF SafeInv, DateInv, BoundInv, File, mailVars
<1>3. BehindInv'
    BY <1>1
    DEF SafeInv, BehindInv, NothingSkipped, LiveMail, Settled, Saved, File, mailVars, storageVars
<1> QED
    BY <1>2, <1>3 DEF SafeInv

\* What is being stored is newer than anything the run was to leave out.
LEMMA StoringIsNew ==
    ASSUME Circumstances, Complete, SafeInv, AloneInv, Storing
    PROVE  /\ cur \in Delivered /\ mail[cur].date \in Nat
           /\ mail[cur].date > req.since
           /\ file.kind = "stamp" => file.stamp = req.since
<1>1. cur \in Delivered
    BY DEF Storing, Complete, WalkInv, Pending
<1>2. mail[cur].date \in Nat /\ mail[cur].date # 0 /\ req.since # 0
    BY <1>1, MailAssumption DEF SafeInv, DateInv, AloneInv, Storing, Complete, TypeInv, TypeOK, MailTypeOK
<1> QED
    BY <1>1, <1>2, StoringKeeps DEF Keeps, AloneInv, Storing

LEMMA StoringNext ==
    ASSUME Circumstances, Complete, SafeInv, Storing, AloneInv \/ SavedMail \subseteq SavedMail'
    PROVE  SafeInv'
<1>1. /\ UNCHANGED <<mailVars, file, req, resumed, forgone>> /\ HistoryKept
      /\ pc = "store" /\ pc' \notin {"search", "write"}
    BY DEF Storing
<1>2. DateInv' /\ BoundInv'
    BY <1>1, KnownStable DEF HistoryKept, SafeInv, DateInv, BoundInv, mailVars
<1>3. ASSUME NEW m \in LiveMail, mail[m].date <= req.since PROVE Settled(m)'
  <2>1. Settled(m) /\ m \in Messages
      BY <1>1, <1>3 DEF SafeInv, BehindInv, LiveMail
  <2>2. CASE AloneInv
    <3>1. m # cur
        BY <1>3, <2>2, StoringIsNew DEF Complete, TypeInv, TypeOK, RunTypeOK
    <3> QED
        BY <1>1, <2>1, <3>1, StoringKeeps DEF Settled
  <2>3. CASE SavedMail \subseteq SavedMail'
      BY <1>1, <2>1, <2>3 DEF SavedMail, Settled
  <2> QED
      BY <2>2, <2>3
<1>4. NothingSkipped'
  <2>1. CASE AloneInv
      BY <1>1, <1>3, <2>1, StoringIsNew DEF NothingSkipped, LiveMail, Settled, mailVars
  <2>2. CASE SavedMail \subseteq SavedMail'
      BY <1>1, <2>2 DEF SafeInv, BehindInv, NothingSkipped, SavedMail, mailVars
  <2> QED
      BY <2>1, <2>2
<1>5. BehindInv'
    BY <1>1, <1>3, <1>4 DEF HistoryKept, SafeInv, BehindInv, LiveMail, mailVars
<1> QED
    BY <1>2, <1>5 DEF SafeInv

\* Behind the newest message a run has seen everything is settled.
LEMMA RecordIsSafe ==
    ASSUME Circumstances, Complete, SafeInv, pc = "write"
    PROVE  /\ latest \in Nat /\ latest # 0 /\ latest > req.since /\ Known(latest)
           /\ \A m \in LiveMail : mail[m].date <= latest => Settled(m)
<1>t. MailTypeOK /\ RunTypeOK /\ seen \subseteq Delivered
    BY DEF Complete, TypeInv, TypeOK, WalkInv
<1>1. ~fetchErr /\ latest # 0 /\ latest > req.since
      /\ \E n \in seen : mail[n].date = latest
    BY DEF Complete, TypeInv, Control, SealInv, MarkInv, Walking
<1>2. PICK newest \in seen : mail[newest].date = latest
    BY <1>1
<1>3. Known(latest)
    BY <1>2, <1>t DEF Known
<1>4. ASSUME NEW m \in LiveMail, mail[m].date <= latest PROVE Settled(m)
  <2>1. mail[m].date \in Nat /\ latest \in Nat /\ req.since \in Nat
      BY <1>t DEF LiveMail, MailTypeOK, RunTypeOK
  <2>2. m \in seen
      BY <1>2, <1>4, <2>1 DEF SafeInv, BehindInv
  <2>3. CASE mail[m].date <= req.since
      BY <2>3 DEF SafeInv, BehindInv
  <2>4. CASE mail[m].date > req.since
    <3>1. m \in WindowMail /\ m \notin ExcusedMail
        BY <2>4 DEF WindowMail, InWindow, ExcusedMail, Excused, LiveMail, SafeInv, DateInv
    <3> QED
        BY <1>1, <2>2, <3>1, WindowIsSaved DEF SavedMail, Settled, Circumstances
  <2> QED
      BY <2>1, <2>3, <2>4
<1> QED
    BY <1>1, <1>3, <1>4, <1>t DEF RunTypeOK

LEMMA RecordingNext ==
    ASSUME Circumstances, Complete, SafeInv, Recording
    PROVE  SafeInv'
<1>1. /\ UNCHANGED <<mailVars, stored, req, resumed, forgone>>
      /\ pc = "write" /\ pc' = "idle" /\ seen' = {} /\ bodyless' = {}
    BY DEF Recording
<1>2. file'.kind = "stamp" => file' = file \/ file'.stamp = latest
    BY DEF Recording, File, Stamp
<1>3. DateInv' /\ BoundInv'
    BY <1>1, <1>2, KnownStable, RecordIsSafe DEF SafeInv, DateInv, BoundInv, mailVars
<1>4. NothingSkipped'
    BY <1>1, <1>2, RecordIsSafe
    DEF SafeInv, BehindInv, NothingSkipped, LiveMail, Settled, Saved, mailVars
<1>5. BehindInv'
    BY <1>1, <1>4 DEF BehindInv
<1> QED
    BY <1>3, <1>5 DEF SafeInv

\* A process that has the file to itself knows what it finds there.
LEMMA AloneNext ==
    ASSUME Unattended, FullInv, [Next]_vars
    PROVE  AloneInv'
<1> USE DEF FullInv, StepInv, AloneInv
<1>1. CASE World
    BY <1>1, WorldFacts DEF SafeInv, Unattended
<1>2. CASE StartResume
  <2>1. PICK since, found : /\ Begin("resume", since, found)
                            /\ \/ ReadFound /\ since = file.stamp /\ found = TRUE
                               \/ ~ReadFound /\ since = clock - Lookback /\ found = FALSE
      BY <1>2 DEF StartResume, StartFromFile, FallBack
  <2>2. since # 0
      BY <2>1, MailAssumption, BackupAssumption
      DEF ReadFound, Complete, TypeInv, TypeOK, WatermarkTypeOK, MailTypeOK
  <2> QED
      BY <2>1, <2>2 DEF Begin, ReadFound
<1>3. CASE Quiet
    BY <1>3 DEF Quiet
<1>4. CASE Storing
    BY <1>4 DEF Storing
<1>5. CASE SearchMailbox
    BY <1>5 DEF SearchMailbox, Step
<1>6. CASE TruncateWatermark
    BY <1>6 DEF TruncateWatermark, OpenWatermark, Step
<1>7. CASE Recording
    BY <1>7 DEF Recording
<1> QED
    BY <1>1, <1>2, <1>3, <1>4, <1>5, <1>6, <1>7, StepClasses, NoFlags DEF Unattended

LEMMA SafeNext ==
    ASSUME Circumstances, Complete, SafeInv, [Next]_vars,
           AloneInv \/ SavedMail \subseteq SavedMail'
    PROVE  SafeInv'
BY StepClasses, WorldNext, StartNext, QuietNext, StoringNext, SearchNext, TruncateNext, RecordingNext

LEMMA StepNext ==
    ASSUME Unattended, FullInv, [Next]_vars
    PROVE  FullInv'
<1>1. Complete'
    BY CompleteNext DEF FullInv
<1>2. StepInv'
    BY SafeNext, AloneNext DEF FullInv, StepInv, Unattended
<1> QED
    BY <1>1, <1>2 DEF FullInv

LEMMA AlwaysFull ==
    ASSUME Unattended
    PROVE  Spec => []FullInv
<1>1. Init => FullInv
    BY CompleteInit, StepInit DEF FullInv, Unattended
<1>2. FullInv /\ [Next]_vars => FullInv'
    BY StepNext
<1> QED
    BY <1>1, <1>2, PTL DEF Spec

\* NothingSkipped, for any amount of mail, any number of runs and any failures: no
\* live message is dated at or before the recorded timestamp without being in
\* every destination, but one too old for the window of a run that found no
\* timestamp (fetchRequest's bounds, message()'s strict comparison, Run's maximum).
THEOREM NothingEverSkipped ==
    ASSUME Unattended
    PROVE  Spec => []NothingSkipped
<1>1. FullInv => NothingSkipped
    BY DEF FullInv, StepInv, SafeInv, BehindInv
<1> QED
    BY <1>1, AlwaysFull, PTL

-----------------------------------------------------------------------------
(* Every step of Backup is one of IncrementalBackup's, or none.             *)

DateOf(m) == IF mail[m].state = "live" /\ m \notin forgone THEN mail[m].date ELSE 0
Dates == [m \in Messages |-> DateOf(m)]

\* The bound of the next run is known; a run that is storing or recording works
\* ahead of it.
LEMMA FrontierFacts ==
    ASSUME FullInv
    PROVE  /\ Frontier \in Nat /\ Known(Frontier)
           /\ pc = "write" => ~ReadFound /\ Frontier <= req.since
           /\ pc = "store" => Frontier <= req.since
<1>t. file.stamp \in Nat /\ req.since \in Nat /\ Known(0)
    BY MailAssumption
    DEF FullInv, Complete, TypeInv, TypeOK, MailTypeOK, WatermarkTypeOK, RunTypeOK, Known
<1>1. pc = "write" => ~ReadFound
    BY DEF FullInv, StepInv, SafeInv, BoundInv, AloneInv, File, ReadFound
<1> QED
    BY <1>t, <1>1 DEF Frontier, ReadFound, FullInv, StepInv, SafeInv, BoundInv, AloneInv

LEMMA WorldKept ==
    ASSUME Unattended, FullInv, World
    PROVE  [Promise!Next]_Promise!promiseVars
<1>1. UNCHANGED <<file, storageVars, pc, req, resumed, forgone>>
    BY WorldFacts DEF FullInv, StepInv, SafeInv, Unattended
<1>2. Frontier' = Frontier /\ SavedMail' = SavedMail
    BY <1>1 DEF Frontier, ReadFound, SavedMail, Saved, storageVars
<1>t. MailTypeOK /\ forgone \subseteq Delivered
    BY DEF FullInv, Complete, TypeInv, TypeOK, StepInv, SafeInv, DateInv
<1>3. CASE TimePasses
    BY <1>1, <1>2, <1>3 DEF TimePasses, Environment, Tick, SavedMail, Promise!promiseVars
<1>4. CASE MailArrives
  <2>1. PICK m \in Messages, b \in Mailboxes :
           /\ mail[m].state = "unsent"
           /\ mail' = [mail EXCEPT ![m] = [state |-> "live", box |-> b, date |-> clock]]
      BY <1>4 DEF MailArrives, Environment, Deliver, DeliveryDates, Unattended, Circumstances
  <2>2. m \in LiveMail' \ LiveMail /\ mail'[m].date = clock
      BY <2>1, <1>t DEF LiveMail, MailTypeOK
  <2>3. clock > Frontier
      BY <2>2, FrontierFacts, KnownFacts DEF FullInv, StepInv, SafeInv, Unattended
  <2>4. /\ Dates[m] = 0 /\ Dates'[m] = clock
        /\ Dates' = [Dates EXCEPT ![m] = clock]
      BY <1>1, <2>1, <1>t DEF Dates, DateOf, Delivered, MailTypeOK
  <2> QED
      BY <1>2, <2>3, <2>4 DEF Dates, DateOf, SavedMail, Promise!Next, Promise!Arrive
<1>5. CASE MailDeleted
  <2>1. PICK m \in Messages :
           mail[m].state = "live" /\ mail' = [mail EXCEPT ![m].state = "expunged"]
      BY <1>5 DEF MailDeleted, Environment, Expunge
  <2>2. CASE m \in forgone
    <3>1. Dates' = Dates
        BY <1>1, <2>1, <2>2, <1>t DEF Dates, DateOf, MailTypeOK
    <3> QED
        BY <1>2, <3>1 DEF Dates, DateOf, SavedMail, Promise!promiseVars
  <2>3. CASE m \notin forgone
    <3>1. Dates[m] # 0
        BY <2>1, <2>3, <1>t, MailAssumption
        DEF Dates, DateOf, Delivered, FullInv, StepInv, SafeInv, DateInv, MailTypeOK
    <3>2. Dates' = [Dates EXCEPT ![m] = 0]
        BY <1>1, <2>1, <1>t DEF Dates, DateOf, MailTypeOK
    <3> QED
        BY <1>2, <3>1, <3>2 DEF Dates, DateOf, SavedMail, Promise!Next, Promise!Withdraw
  <2> QED
      BY <2>2, <2>3
<1> QED
    BY <1>3, <1>4, <1>5 DEF World

\* A run that falls back to its window gives up unsaved mail older than that.
LEMMA FallBackKept ==
    ASSUME FullInv, FallBack
    PROVE  [Promise!Next]_Promise!promiseVars
<1>1. /\ UNCHANGED <<mail, stored, file>> /\ pc = "idle" /\ pc' = "connect"
      /\ ~ReadFound /\ GiveUpBefore(Lookback)
    BY DEF FallBack, Begin, mailVars, storageVars
<1>2. Frontier = 0 /\ Frontier' = 0 /\ SavedMail' = SavedMail
    BY <1>1 DEF Frontier, ReadFound, SavedMail, Saved
<1>t. MailTypeOK /\ clock - Lookback \in Int /\ Messages \subseteq Nat
    BY MailAssumption, BackupAssumption DEF FullInv, Complete, TypeInv, TypeOK, MailTypeOK
<1>3. ASSUME NEW m \in Messages, Dates'[m] # Dates[m]
      PROVE  /\ Dates'[m] = 0 /\ m \notin SavedMail
             /\ mail[m].date <= clock - Lookback /\ Dates[m] = mail[m].date
    BY <1>1, <1>3, <1>t DEF Dates, DateOf, GiveUpBefore, SavedMail, MailTypeOK
<1>4. ASSUME NEW m \in Messages, NEW n \in Messages \ SavedMail,
             Dates'[m] # Dates[m], Dates[n] <= Dates[m]
      PROVE  Dates'[n] = 0
  <2>1. Dates[m] = mail[m].date /\ mail[m].date <= clock - Lookback
      BY <1>3, <1>4
  <2>2. CASE Dates[n] = 0
      BY <1>1, <1>t, <2>2 DEF Dates, DateOf, GiveUpBefore, MailTypeOK
  <2>3. CASE Dates[n] # 0
    <3>1. mail[n].state = "live" /\ Dates[n] = mail[n].date
        BY <2>3 DEF Dates, DateOf
    <3>2. mail[n].date \in 1 .. clock - Lookback
        BY <1>4, <1>t, <2>1, <2>3, <3>1 DEF MailTypeOK
    <3> QED
        BY <1>1, <3>1, <3>2 DEF Dates, DateOf, GiveUpBefore, SavedMail
  <2> QED
      BY <2>2, <2>3
<1>5. Dates' = [m \in Messages |-> Dates'[m]]
    BY DEF Dates
<1>6. Promise!GiveUp
    BY <1>2, <1>3, <1>4, <1>5 DEF Promise!GiveUp, Dates, DateOf, SavedMail
<1> QED
    BY <1>6 DEF Promise!Next

\* Neither resuming at the timestamp nor anything a run does before it stores or
\* records.
LEMMA QuietKept ==
    ASSUME FullInv, StartFromFile \/ Quiet \/ SearchMailbox \/ TruncateWatermark
    PROVE  UNCHANGED Promise!promiseVars
<1>1. UNCHANGED <<mail, stored, forgone>>
    BY DEF StartFromFile, Begin, Quiet, SearchMailbox, TruncateWatermark, Step, mailVars, storageVars
<1>2. Frontier' = Frontier
  <2>1. CASE StartFromFile
      BY <2>1 DEF StartFromFile, Begin, Frontier, ReadFound
  <2>2. CASE Quiet
      BY <2>2 DEF Quiet, Frontier, ReadFound
  <2>3. CASE SearchMailbox
      BY <2>3 DEF SearchMailbox, Step, Frontier, ReadFound
  <2>4. CASE TruncateWatermark
      BY <2>4 DEF TruncateWatermark, OpenWatermark, Step, Frontier, ReadFound, File,
                  FullInv, StepInv, SafeInv, BoundInv, AloneInv
  <2> QED
      BY <2>1, <2>2, <2>3, <2>4
<1> QED
    BY <1>1, <1>2 DEF Saved, Promise!promiseVars

LEMMA StoringKept ==
    ASSUME Unattended, FullInv, Storing
    PROVE  [Promise!Next]_Promise!promiseVars
<1>1. UNCHANGED <<mailVars, file, req, resumed, forgone>> /\ pc = "store" /\ pc' # "write"
    BY DEF Storing
<1>2. Frontier' = Frontier /\ Dates' = Dates
    BY <1>1 DEF Frontier, ReadFound, Dates, DateOf, mailVars
<1>3. cur \in Messages /\ SavedMail' \in {SavedMail \cup {cur}, SavedMail \ {cur}}
    BY StoringKeeps DEF FullInv
<1>4. CASE SavedMail' = SavedMail \cup {cur}
    BY <1>2, <1>3, <1>4 DEF Dates, DateOf, SavedMail, Promise!Next, Promise!Save
<1>5. CASE SavedMail' = SavedMail \ {cur}
  <2>1. DateOf(cur) \notin 1 .. Frontier
      BY <1>1, StoringIsNew, FrontierFacts
      DEF DateOf, FullInv, StepInv, Complete, TypeInv, TypeOK, RunTypeOK, Unattended
  <2>2. cur \notin Promise!Behind(Frontier)
      BY <1>3, <2>1 DEF DateOf, Promise!Behind
  <2> QED
      BY <1>2, <1>3, <1>5, <2>2 DEF Dates, DateOf, SavedMail, Promise!Next, Promise!Lose
<1> QED
    BY <1>3, <1>4, <1>5

LEMMA RecordingKept ==
    ASSUME Unattended, FullInv, Recording
    PROVE  [Promise!Next]_Promise!promiseVars
<1>1. UNCHANGED <<mailVars, stored, req, resumed, forgone>> /\ pc = "write" /\ pc' = "idle"
    BY DEF Recording
<1>2. SavedMail' = SavedMail /\ Dates' = Dates
    BY <1>1 DEF SavedMail, Saved, Dates, DateOf, mailVars
<1>3. CASE file' = Stamp(latest)
  <2>1. Frontier' = latest
      BY <1>3 DEF Frontier, ReadFound, Stamp
  <2>2. latest > Frontier
      BY <1>1, RecordIsSafe, FrontierFacts
      DEF FullInv, StepInv, Complete, TypeInv, TypeOK, RunTypeOK, Unattended
  <2>3. Promise!Behind(latest) \subseteq SavedMail
      BY <1>1, RecordIsSafe DEF Promise!Behind, SavedMail, LiveMail, Settled, FullInv, StepInv, Unattended
  <2> QED
      BY <1>2, <2>1, <2>2, <2>3 DEF Dates, DateOf, SavedMail, Promise!Next, Promise!Advance
<1>4. CASE file' \in {file, File("garbage")}
  <2>1. Frontier' = 0
      BY <1>1, <1>4, FrontierFacts DEF Frontier, ReadFound, File
  <2> QED
      BY <1>2, <2>1 DEF Dates, DateOf, SavedMail, Promise!Next, Promise!Forget
<1> QED
    BY <1>3, <1>4 DEF Recording

\* KeepsPromise, for any amount of mail and any failures: repeated runs with no
\* flags implement IncrementalBackup (Backup, fetchRequest, Pipeline.Run).
THEOREM PromiseAlwaysKept ==
    ASSUME Unattended
    PROVE  Spec => KeepsPromise
<1>1. Init => Promise!Init
  <2> SUFFICES ASSUME Init PROVE Promise!Init
      OBVIOUS
  <2>1. Frontier = 0
      BY DEF Init, WatermarkInit, File, Frontier, ReadFound
  <2>2. \A m \in Messages : ~Saved(m) /\ mail[m].state # "live"
    <3>1. \A m \in Messages : 1 \in 1 .. ArtifactsOf[m]
        BY BackupAssumption
    <3>2. Destinations # {}
        BY SinkFacts
    <3> QED
        BY <3>1, <3>2 DEF Init, MailInit, StorageInit, Saved
  <2> QED
      BY <2>1, <2>2 DEF Promise!Init
<1>2. FullInv /\ [Next]_vars => [Promise!Next]_Promise!promiseVars
    BY StepClasses, NoFlags, WorldKept, FallBackKept, QuietKept, StoringKept, RecordingKept
    DEF FullInv, Unattended, StartResume
<1> QED
    BY <1>1, <1>2, AlwaysFull, PTL DEF Spec, KeepsPromise, Promise!Spec
-----------------------------------------------------------------------------
(* A run beside another process that shares the account, the timestamp file *)
(* and one bucket: what the other does to them, and what this run keeps.    *)

ownVars == <<pc, exit, req, resumed, walkVars, emitVars, resultVars, historyVars>>

Interference ==
    /\ UNCHANGED mailVars
    /\ WatermarkTypeOK' /\ StorageTypeOK' /\ faults' \in Nat
    /\ \A s \in Destinations : stored[s] \subseteq stored'[s]
    /\ forgone \subseteq forgone' /\ forgone' \subseteq forgone \cup LiveMail

\* All that a run needs of the timestamp file.
FileSafe == NothingSkipped /\ (file.kind = "stamp" => Known(file.stamp))

\* Every step of a process is such an interference for the other.
LEMMA OwnSteps ==
    ASSUME BucketOnly, TypeInv, Start \/ Run \/ Failure
    PROVE  Interference
<1>t. TypeInv'
    BY TypeNext DEF Next
<1>1. UNCHANGED mailVars /\ (Start \/ forgone' = forgone)
  <2>1. CASE \E m \in Messages : ReceiveMessage(m) \/ PassOver(m) \/ SkipBodyless(m)
      BY <2>1 DEF ReceiveMessage, PassOver, SkipBodyless, Step
  <2>2. CASE Start
      BY <2>2 DEF Start, StartAll, StartDuration, StartResume, StartFromFile, FallBack,
        StartRefused, Begin
  <2>3. CASE Failure
      BY <2>3 DEF Failure, Fault, ConnectFails, PrepareFails, FetchFails, TransformFails, StoreFails,
                  CloseFails, WriteFails, Crash
  <2> QED
      BY <2>1, <2>2, <2>3
      DEF Run, Step, Connect, PrepareSink, ListMailboxes, SelectMailbox, SearchMailbox, FetchBatch,
          MailboxDone, FetchDone, BatchDone, Transform, StoreNextSink, StoreNextArtifact,
          StoreLastArtifact, CloseSink, AfterClose, ReturnError, ReturnNothing, ReturnLatest,
          TruncateWatermark, WriteWatermark
<1>2. \A s \in Destinations : stored[s] \subseteq stored'[s]
  <2> USE DEF storageVars
  <2>t. StorageTypeOK /\ "tar" \notin Destinations /\ "local" \notin Destinations
      BY DEF TypeInv, TypeOK, BucketOnly
  <2>k. pc \in {"sinks", "store"} => k \in 1 .. Len(Sinks) /\ Sinks[k] \in Destinations
      BY SinkFacts DEF TypeInv, Control
  <2>1. CASE PrepareSink
      BY <2>1, <2>t, <2>k DEF PrepareSink, Step, Prepare
  <2>2. CASE StoreNextSink \/ StoreNextArtifact \/ StoreLastArtifact
      BY <2>2, <2>t, <2>k, PutAdds DEF StoreNextSink, StoreNextArtifact, StoreLastArtifact, Step
  <2>3. ASSUME NEW s \in Destinations, NEW a, Spoil(s, a)
        PROVE  \A d \in Destinations : stored[d] \subseteq stored'[d]
      BY <2>3, <2>t DEF Spoil, StorageTypeOK
  <2>4. CASE Failure
      BY <2>4, <2>3, <2>k
      DEF Failure, ConnectFails, PrepareFails, FetchFails, TransformFails, StoreFails, CloseFails,
          WriteFails, Crash
  <2>5. CASE Start
      BY <2>5 DEF Start, StartAll, StartDuration, StartResume, StartFromFile, FallBack,
        StartRefused, Begin
  <2>6. CASE \E m \in Messages : ReceiveMessage(m) \/ PassOver(m) \/ SkipBodyless(m)
      BY <2>6 DEF ReceiveMessage, PassOver, SkipBodyless
  <2> QED
      BY <2>1, <2>2, <2>4, <2>5, <2>6
      DEF Run, Connect, ListMailboxes, SelectMailbox, SearchMailbox, FetchBatch, MailboxDone,
          FetchDone, BatchDone, Transform, CloseSink, Finish, ReturnError, ReturnNothing,
          ReturnLatest, TruncateWatermark, WriteWatermark
<1>3. forgone \subseteq forgone' /\ forgone' \subseteq forgone \cup LiveMail
    BY <1>1 DEF Start, StartAll, StartDuration, StartResume, StartFromFile, FallBack, StartRefused,
                GiveUpBefore, LiveMail
<1> QED
    BY <1>1, <1>2, <1>3, <1>t DEF Interference, TypeInv, TypeOK, RunTypeOK

\* What is saved stays saved.
LEMMA InterferenceSaves == Interference => SavedMail \subseteq SavedMail'
BY DEF Interference, SavedMail, Saved

LEMMA NextSaves ==
    ASSUME BucketOnly, Complete, [Next]_vars
    PROVE  SavedMail \subseteq SavedMail'
<1>1. CASE Start \/ Run \/ Failure
    BY <1>1, OwnSteps, InterferenceSaves DEF Complete
<1>2. CASE World \/ UNCHANGED vars
  <2>1. stored' = stored
      BY <1>2 DEF World, TimePasses, MailArrives, MailDeleted, Environment, vars, storageVars
  <2> QED
      BY <2>1 DEF SavedMail, Saved
<1> QED
    BY <1>1, <1>2 DEF Next, World

\* A run's account of its window stands whatever the other process does.
LEMMA CompleteBeside ==
    ASSUME BucketOnly, Complete, UNCHANGED ownVars, Interference
    PROVE  Complete'
<1> USE DEF ownVars, walkVars, emitVars, resultVars, historyVars, mailVars, Interference
<1>1. TypeInv'
    BY DEF Complete, TypeInv, TypeOK, MailTypeOK, RunTypeOK, Control, LiveMail
<1>2. SavedMail \subseteq SavedMail'
    BY InterferenceSaves
<1>3. WalkInv' /\ Covered' /\ MarkInv'
    BY <1>2, SetsStable DEF Complete, WalkInv, Covered, MarkInv, Walking, Pending
<1>4. StoreInv'
  <2>1. pc = "store" => k \in 1 .. Len(Sinks)
      BY DEF Complete, TypeInv, Control
  <2>2. pc = "store" => \A j \in 1 .. k - 1 : Sinks[j] \in Destinations
      BY <2>1, SinkFacts
  <2> QED
      BY <2>2 DEF Complete, StoreInv, Keeps
<1>5. SealInv'
  <2>1. pc = "close" => \A j \in 1 .. k - 1 : Sinks[j] # "tar"
      BY SinkFacts DEF Complete, TypeInv, Control, BucketOnly
  <2> QED
      BY <2>1 DEF Complete, SealInv, BucketOnly
<1> QED
    BY <1>1, <1>3, <1>4, <1>5 DEF Complete

\* So does what it relies on, if the other leaves a timestamp only ahead of
\* saved mail.
LEMMA SafeBeside ==
    ASSUME SafeInv, UNCHANGED ownVars, Interference, FileSafe'
    PROVE  SafeInv'
<1> USE DEF ownVars, walkVars, emitVars, resultVars, historyVars, Interference, FileSafe
<1>1. DateInv' /\ BoundInv'
    BY KnownStable DEF SafeInv, DateInv, BoundInv, LiveMail, Delivered, mailVars
<1>2. BehindInv'
    BY InterferenceSaves DEF SafeInv, BehindInv, LiveMail, Settled, SavedMail, mailVars
<1> QED
    BY <1>1, <1>2 DEF SafeInv
-----------------------------------------------------------------------------
(* Flags *)

\* NothingSkipped again, when runs with --all or any --duration come between: such
\* a run may leave an older timestamp than it found, because the newest mail is
\* gone by then, but never one with mail behind it that the bucket lacks and no
\* window of the clock left out (fetchRequest, WriteWatermark).
THEOREM FlagsSkipNothing ==
    ASSUME Attended
    PROVE  Spec => []NothingSkipped
<1>1. Init => Complete /\ SafeInv
    BY CompleteInit, StepInit DEF StepInv, Attended
<1>2. Complete /\ SafeInv /\ [Next]_vars => (Complete /\ SafeInv)'
  <2> SUFFICES ASSUME Complete, SafeInv, [Next]_vars PROVE Complete' /\ SafeInv'
      OBVIOUS
  <2>1. SavedMail \subseteq SavedMail'
      BY NextSaves DEF Attended
  <2> QED
      BY <2>1, CompleteNext, SafeNext DEF Attended, Circumstances
<1>3. SafeInv => NothingSkipped
    BY DEF SafeInv, BehindInv
<1> QED
    BY <1>1, <1>2, <1>3, PTL DEF Spec
=============================================================================
