------------------------------- MODULE Backup -------------------------------
(***************************************************************************)
(* The `backup` command: Backup and fetchRequest (cmd/backup.go), the three *)
(* builders (cmd/build_stages.go), Pipeline.Run (stages/pipeline.go) and    *)
(* the IMAP walk it drives (stages/fetch/imap.go), beside a live mail       *)
(* account (MailServer), a timestamp file (Watermark) and the destinations  *)
(* (Storage).  Runs follow one another; a run may fail at any call that     *)
(* returns an error, and may be killed between any two steps.              *)
(***************************************************************************)
EXTENDS MailServer, Watermark, Storage

CONSTANTS
    ArtifactsOf,    \* how many artifacts Message.Artifacts makes of a message
    BatchSize,      \* fetchBatchSize
    Lookback,       \* DefaultLookback
    Durations,      \* values of an explicit --duration
    Modes,          \* how runs are started: "resume", "duration", "all"
    OnlyBoxes,      \* values of --mailbox; NoBox when it is not given
    MayLackBody,    \* TRUE: the server may return a message without a body
    Faults,         \* which kinds of call may fail
    MaxFaults       \* bound: failures and kills in one history

FaultKinds == {"connect", "sinks", "fetch", "transform", "store", "close",
               "write", "crash"}

ASSUME BackupAssumption ==
    /\ ArtifactsOf \in [Messages -> Nat \ {0}]
    /\ \A m \in Messages : \A i \in 1 .. ArtifactsOf[m] : <<m, i>> \in Artifact
    /\ BatchSize \in Nat \ {0}
    /\ Lookback \in Nat /\ Durations \subseteq Nat
    /\ \A d \in Durations \cup {Lookback} : d < StartClock
    /\ Modes \subseteq {"resume", "duration", "all"}
    /\ OnlyBoxes \subseteq Mailboxes \cup {NoBox}
    /\ MayLackBody \in BOOLEAN
    /\ Faults \subseteq FaultKinds
    /\ MaxFaults \in Nat

VARIABLES
    pc,        \* where the run is; "idle" between runs
    exit,      \* how the last run ended
    req,       \* the FetchRequest: since (0 asks for everything), mailbox
    resumed,   \* since was read from the timestamp file
    boxes,     \* mailboxes still to be walked
    box,       \* the selected mailbox
    rest,      \* UIDs found by the search, not yet asked for
    batch,     \* UIDs of the current FETCH command, not yet received
    cur,       \* the message being emitted, 0 if none
    art,       \* which of its artifacts is being processed
    k,         \* which of the Sinks is being built, written to or closed
    latest,    \* Result.Latest
    fetchErr,  \* Fetch returned an error
    closeErr,  \* Close of some destination returned an error
    faults,    \* failures so far
    forgone,   \* history: unsaved mail older than the window a run was started with
    seen,      \* history: what was in each mailbox when this run searched it
    bodyless   \* history: what this run received without a body

walkVars    == <<boxes, box, rest, batch>>
emitVars    == <<cur, art, k>>
resultVars  == <<latest, fetchErr, closeErr>>
historyVars == <<seen, bodyless>>
vars == <<mailVars, file, storageVars, pc, exit, req, resumed, walkVars,
          emitVars, resultVars, faults, forgone, historyVars>>

FetchPcs == {"list", "select", "search", "batch", "receive", "transform", "store"}
Pcs == {"idle", "connect", "sinks", "close", "return", "record", "write"} \cup FetchPcs

RunTypeOK ==
    /\ pc \in Pcs
    /\ exit \in {"none", "ok", "error", "killed"}
    /\ req \in [since : Nat, mailbox : Mailboxes \cup {NoBox}]
    /\ resumed \in BOOLEAN
    /\ boxes \subseteq Mailboxes /\ box \in Mailboxes \cup {NoBox}
    /\ rest \subseteq Messages /\ batch \subseteq Messages
    /\ cur \in Messages \cup {0} /\ art \in Nat /\ k \in Nat
    /\ latest \in Nat /\ fetchErr \in BOOLEAN /\ closeErr \in BOOLEAN
    /\ faults \in Nat
    /\ seen \subseteq Messages /\ bodyless \subseteq Messages /\ forgone \subseteq Messages

TypeOK == MailTypeOK /\ WatermarkTypeOK /\ StorageTypeOK /\ RunTypeOK

Init ==
    /\ MailInit /\ WatermarkInit /\ StorageInit
    /\ pc = "idle" /\ exit = "none"
    /\ req = [since |-> 0, mailbox |-> NoBox] /\ resumed = FALSE
    /\ boxes = {} /\ box = NoBox /\ rest = {} /\ batch = {}
    /\ cur = 0 /\ art = 0 /\ k = 0
    /\ latest = 0 /\ fetchErr = FALSE /\ closeErr = FALSE
    /\ faults = 0 /\ seen = {} /\ bodyless = {} /\ forgone = {}

-----------------------------------------------------------------------------
(* Frames shared by the actions below. *)

\* The run goes on.
Step(from, to) ==
    /\ pc = from /\ pc' = to
    /\ UNCHANGED <<mailVars, exit, req, resumed, faults, forgone>>

\* A call fails.
Fault(kind) ==
    /\ kind \in Faults /\ faults < MaxFaults
    /\ faults' = faults + 1
    /\ UNCHANGED <<mailVars, req, resumed, forgone>>

\* The process ends, and its memory with it.
Exit(code) ==
    /\ pc' = "idle" /\ exit' = code
    /\ boxes' = {} /\ box' = NoBox /\ rest' = {} /\ batch' = {}
    /\ cur' = 0 /\ art' = 0 /\ k' = 0
    /\ latest' = 0 /\ fetchErr' = FALSE /\ closeErr' = FALSE
    /\ seen' = {} /\ bodyless' = {}

\* Fetch returns to Run, which goes on to close the destinations.
LeaveFetch(failed) ==
    /\ fetchErr' = failed /\ UNCHANGED <<latest, closeErr>>
    /\ boxes' = {} /\ box' = NoBox /\ rest' = {} /\ batch' = {}
    /\ cur' = 0 /\ art' = 0 /\ k' = 1
    /\ UNCHANGED historyVars

\* A step of Fetch fails, or an emit callback inside it does.
FailFetch == pc' = "close" /\ LeaveFetch(TRUE) /\ UNCHANGED exit

-----------------------------------------------------------------------------
(* Between runs: cron, a user, other mail clients. *)

Environment(action) ==
    /\ action
    /\ UNCHANGED <<file, storageVars, pc, exit, req, resumed, walkVars,
                   emitVars, resultVars, faults, forgone, historyVars>>

TimePasses  == Environment(Tick)
MailArrives == \E m \in Messages : Environment(Deliver(m))
MailDeleted == \E m \in Messages : Environment(Expunge(m))

-----------------------------------------------------------------------------
(* fetchRequest: which messages does this run ask for? *)

\* Every destination has every artifact of the message.
Saved(m) == \A i \in 1 .. ArtifactsOf[m] : \A s \in Destinations : <<m, i>> \in stored[s]

Begin(mode, since, fromFile) ==
    /\ pc = "idle" /\ mode \in Modes
    /\ \E only \in OnlyBoxes : req' = [since |-> since, mailbox |-> only]
    /\ resumed' = fromFile
    /\ pc' = "connect"
    /\ UNCHANGED <<mailVars, file, storageVars, exit, walkVars, emitVars,
                   resultVars, faults, historyVars>>

\* What a run limited to the last d seconds leaves for no later run to find.
GiveUpBefore(d) ==
    forgone' = forgone \cup {m \in Messages : /\ mail[m].state = "live" /\ ~Saved(m)
                                              /\ mail[m].date \in 1 .. clock - d}

\* --all
StartAll == Begin("all", 0, FALSE) /\ UNCHANGED forgone

\* --duration given explicitly
StartDuration ==
    \E d \in Durations : Begin("duration", clock - d, FALSE) /\ GiveUpBefore(d)

\* Neither: resume from the timestamp file ...
StartFromFile ==
    ReadFound /\ Begin("resume", file.stamp, TRUE) /\ UNCHANGED forgone

\* Seeded bug: with no timestamp file, start from this instant.
FallBackToNow ==
    /\ ~ReadFound /\ ~ReadFails
    /\ Begin("resume", clock, FALSE) /\ GiveUpBefore(Lookback)

\* ... or, when there is none, fall back to the default window.
FallBack ==
    /\ ~ReadFound /\ ~ReadFails
    /\ Begin("resume", clock - Lookback, FALSE) /\ GiveUpBefore(Lookback)

StartResume == StartFromFile \/ FallBack

\* ReadWatermark reported an error: the command stops before doing anything.
StartRefused ==
    /\ pc = "idle" /\ "resume" \in Modes
    /\ ReadFails
    /\ exit' = "error"
    /\ UNCHANGED <<mailVars, file, storageVars, pc, req, resumed, walkVars,
                   emitVars, resultVars, faults, forgone, historyVars>>

-----------------------------------------------------------------------------
(* buildFetcher, buildTransformer, buildSink *)

Connect ==
    /\ Step("connect", "sinks")
    /\ k' = 1
    /\ UNCHANGED <<file, storageVars, walkVars, cur, art, resultVars, historyVars>>

ConnectFails ==
    /\ pc = "connect" /\ Fault("connect") /\ Exit("error")
    /\ UNCHANGED <<file, storageVars>>

\* Seeded bug: the destinations are built in the opposite order.
PrepareSinkReversed ==
    /\ IF k < Len(Sinks) THEN Step("sinks", "sinks") /\ k' = k + 1
                         ELSE Step("sinks", "list")  /\ k' = 0
    /\ Prepare(Sinks[Len(Sinks) + 1 - k])
    /\ UNCHANGED <<file, walkVars, cur, art, resultVars, historyVars>>

\* The destinations are built one after another, in their order.
PrepareSink ==
    /\ IF k < Len(Sinks) THEN Step("sinks", "sinks") /\ k' = k + 1
                         ELSE Step("sinks", "list")  /\ k' = 0
    /\ Prepare(Sinks[k])
    /\ UNCHANGED <<file, walkVars, cur, art, resultVars, historyVars>>

\* NewTar's own failure comes before it truncates the archive.
PrepareFails ==
    /\ pc = "sinks" /\ Fault("sinks") /\ Exit("error")
    /\ UNCHANGED <<file, storageVars>>

-----------------------------------------------------------------------------
(* Fetch: the walk over the mailboxes *)

ListMailboxes ==
    /\ Step("list", "select")
    /\ boxes' = IF req.mailbox = NoBox THEN Mailboxes ELSE {req.mailbox}
    /\ UNCHANGED <<file, storageVars, box, rest, batch, emitVars, resultVars, historyVars>>

\* Seeded bug: a walked mailbox stays on the list.
SelectMailboxAgain ==
    /\ \E b \in boxes :
          IF Live(b) = {} THEN Step("select", "select") /\ box' = NoBox
                          ELSE Step("select", "search") /\ box' = b
    /\ UNCHANGED <<file, storageVars, boxes, rest, batch, emitVars, resultVars, historyVars>>

SelectMailbox ==
    /\ \E b \in boxes :
          /\ boxes' = boxes \ {b}
          /\ IF Live(b) = {} THEN Step("select", "select") /\ box' = NoBox
                             ELSE Step("select", "search") /\ box' = b
    /\ UNCHANGED <<file, storageVars, rest, batch, emitVars, resultVars, historyVars>>

\* The zone the bound is in: WriteWatermark records UTC, time.Now() is local.
SinceZone == IF resumed THEN 0 ELSE ClientZone

SearchMailbox ==
    /\ Step("search", "batch")
    /\ rest' \in SearchHits(box, req.since, SinceZone)
    /\ seen' = seen \cup Live(box)
    /\ UNCHANGED <<file, storageVars, boxes, box, batch, emitVars, resultVars, bodyless>>

\* The next fetchBatchSize UIDs, in ascending order.
FirstOf(uids) == {m \in uids : Cardinality({n \in uids : n < m}) < BatchSize}

\* Seeded bug: only the first batch of a mailbox is fetched.
FetchFirstBatch ==
    /\ rest # {}
    /\ Step("batch", "receive")
    /\ batch' = FirstOf(rest)
    /\ rest' = {}
    /\ UNCHANGED <<file, storageVars, boxes, box, emitVars, resultVars, historyVars>>

FetchBatch ==
    /\ rest # {}
    /\ Step("batch", "receive")
    /\ batch' = FirstOf(rest)
    /\ rest' = rest \ FirstOf(rest)
    /\ UNCHANGED <<file, storageVars, boxes, box, emitVars, resultVars, historyVars>>

MailboxDone ==
    /\ rest = {}
    /\ Step("batch", "select")
    /\ box' = NoBox
    /\ UNCHANGED <<file, storageVars, boxes, rest, batch, emitVars, resultVars, historyVars>>

\* Seeded bug: the bound is not strict.
KeepsBoundary(m) == \/ req.since = 0
                    \/ mail[m].date = 0
                    \/ mail[m].date >= req.since

\* message(): the exact time bound.  An undated message always passes it.
Keeps(m) == \/ req.since = 0
            \/ mail[m].date = 0
            \/ mail[m].date > req.since

\* The server answers for one UID of the batch, in an order of its own.
ReceiveMessage(m) ==
    /\ m \in batch
    /\ mail[m].state = "live" /\ Keeps(m)
    /\ Step("receive", "transform")
    /\ batch' = batch \ {m}
    /\ cur' = m /\ art' = 1
    /\ UNCHANGED <<file, storageVars, boxes, box, rest, k, resultVars, historyVars>>

\* Deleted since the search (no answer for that UID), or outside the window.
PassOver(m) ==
    /\ m \in batch
    /\ ~(mail[m].state = "live" /\ Keeps(m))
    /\ Step("receive", "receive")
    /\ batch' = batch \ {m}
    /\ UNCHANGED <<file, storageVars, boxes, box, rest, emitVars, resultVars, historyVars>>

\* Inside the window but without a body: skipped with a warning.
SkipBodyless(m) ==
    /\ MayLackBody
    /\ m \in batch
    /\ mail[m].state = "live" /\ Keeps(m)
    /\ Step("receive", "receive")
    /\ batch' = batch \ {m}
    /\ bodyless' = bodyless \cup {m}
    /\ UNCHANGED <<file, storageVars, boxes, box, rest, emitVars, resultVars, seen>>

BatchDone ==
    /\ batch = {}
    /\ Step("receive", "batch")
    /\ UNCHANGED <<file, storageVars, walkVars, emitVars, resultVars, historyVars>>

\* LIST, SELECT, UID SEARCH or UID FETCH fails, or its connection does.
FetchFails ==
    /\ \/ pc = "list" /\ req.mailbox = NoBox
       \/ pc = "select" /\ boxes # {}
       \/ pc \in {"search", "receive"}
    /\ Fault("fetch") /\ FailFetch
    /\ UNCHANGED <<file, storageVars>>

FetchDone ==
    /\ boxes = {}
    /\ Step("select", "close")
    /\ LeaveFetch(FALSE)
    /\ UNCHANGED <<file, storageVars>>

-----------------------------------------------------------------------------
(* The emit callback of Run: stage 2, then stage 3, for every artifact *)

Transform ==
    /\ Step("transform", "store")
    /\ k' = 1
    /\ UNCHANGED <<file, storageVars, walkVars, cur, art, resultVars, historyVars>>

TransformFails ==
    /\ pc = "transform" /\ Fault("transform") /\ FailFetch
    /\ UNCHANGED <<file, storageVars>>

\* One destination has the artifact; the next one is due.
StoreNextSink ==
    /\ Step("store", "store")
    /\ k < Len(Sinks)
    /\ Put(Sinks[k], <<cur, art>>)
    /\ k' = k + 1
    /\ UNCHANGED <<file, walkVars, cur, art, resultVars, historyVars>>

\* Every destination has the artifact; the message has another one.
StoreNextArtifact ==
    /\ Step("store", "transform")
    /\ k = Len(Sinks) /\ art < ArtifactsOf[cur]
    /\ Put(Sinks[k], <<cur, art>>)
    /\ art' = art + 1 /\ k' = 0
    /\ UNCHANGED <<file, walkVars, cur, resultVars, historyVars>>

\* Seeded bug: the last message wins, not the newest.
LastSeen(date, than) == IF date > 0 THEN date ELSE than

\* if msg.Date.After(result.Latest) { result.Latest = msg.Date }
Newer(date, than) == IF date > than THEN date ELSE than

\* That was the message's last artifact.
StoreLastArtifact ==
    /\ Step("store", "receive")
    /\ k = Len(Sinks) /\ art = ArtifactsOf[cur]
    /\ Put(Sinks[k], <<cur, art>>)
    /\ latest' = Newer(mail[cur].date, latest)
    /\ cur' = 0 /\ art' = 0 /\ k' = 0
    /\ UNCHANGED <<file, walkVars, fetchErr, closeErr, historyVars>>

\* The first destination to fail ends the fan-out and the fetch.
StoreFails ==
    /\ pc = "store" /\ Fault("store") /\ FailFetch
    /\ Spoil(Sinks[k], <<cur, art>>)
    /\ UNCHANGED file

-----------------------------------------------------------------------------
(* The end of Run: every destination is closed, even after a failure *)

AfterClose == IF k < Len(Sinks) THEN Step("close", "close") ELSE Step("close", "return")

CloseSink ==
    /\ AfterClose
    /\ Finish(Sinks[k])
    /\ k' = k + 1
    /\ UNCHANGED <<file, walkVars, cur, art, resultVars, historyVars>>

\* Seeded bug: a failing Close is only logged.
CloseFailsLogged ==
    /\ pc = "close" /\ Sinks[k] = "tar" /\ Fault("close")
    /\ pc' = IF k < Len(Sinks) THEN "close" ELSE "return"
    /\ k' = k + 1
    /\ UNCHANGED <<exit, file, storageVars, walkVars, cur, art, resultVars, historyVars>>

CloseFails ==
    /\ pc = "close" /\ Sinks[k] = "tar" /\ Fault("close")
    /\ pc' = IF k < Len(Sinks) THEN "close" ELSE "return"
    /\ k' = k + 1
    /\ closeErr' = TRUE
    /\ UNCHANGED <<exit, file, storageVars, walkVars, cur, art, latest, fetchErr, historyVars>>

\* Run returned an error: the timestamp file is left alone.
ReturnError ==
    /\ pc = "return" /\ (fetchErr \/ closeErr)
    /\ Exit("error")
    /\ UNCHANGED <<mailVars, file, storageVars, req, resumed, faults, forgone>>

\* No new messages: the timestamp file is left alone too.
ReturnNothing ==
    /\ pc = "return" /\ ~fetchErr /\ ~closeErr
    /\ latest = 0
    /\ Exit("ok")
    /\ UNCHANGED <<mailVars, file, storageVars, req, resumed, faults, forgone>>

\* Seeded bugs: the timestamp is recorded although Fetch failed ...
ReturnLatestDespiteError ==
    /\ latest # 0
    /\ Step("return", "record")
    /\ UNCHANGED <<file, storageVars, walkVars, emitVars, resultVars, historyVars>>

\* ... or although there is none.
ReturnZero ==
    /\ ~fetchErr /\ ~closeErr
    /\ Step("return", "record")
    /\ UNCHANGED <<file, storageVars, walkVars, emitVars, resultVars, historyVars>>

ReturnLatest ==
    /\ ~fetchErr /\ ~closeErr
    /\ latest # 0
    /\ Step("return", "record")
    /\ UNCHANGED <<file, storageVars, walkVars, emitVars, resultVars, historyVars>>

-----------------------------------------------------------------------------
(* WriteWatermark *)

TruncateWatermark ==
    /\ Step("record", "write")
    /\ OpenWatermark
    /\ UNCHANGED <<storageVars, walkVars, emitVars, resultVars, historyVars>>

\* Seeded bug: the time of the run is recorded, not that of the newest message.
WriteNow ==
    /\ pc = "write"
    /\ FillWatermark(clock)
    /\ Exit("ok")
    /\ UNCHANGED <<mailVars, storageVars, req, resumed, faults, forgone>>

WriteWatermark ==
    /\ pc = "write"
    /\ FillWatermark(latest)
    /\ Exit("ok")
    /\ UNCHANGED <<mailVars, storageVars, req, resumed, faults, forgone>>

\* The file cannot be opened, or the write stops part way.
WriteFails ==
    /\ \/ pc = "record" /\ UNCHANGED file
       \/ pc = "write" /\ TearWatermark(latest)
    /\ Fault("write") /\ Exit("error")
    /\ UNCHANGED storageVars

-----------------------------------------------------------------------------
\* The process is killed: there is no signal handler, no recovery, and only
\* what is on disk is left.  Inside a Store or a write, that may be half of it.
Crash ==
    /\ pc # "idle"
    /\ Fault("crash") /\ Exit("killed")
    /\ IF pc = "store" THEN Spoil(Sinks[k], <<cur, art>>) ELSE UNCHANGED storageVars
    /\ IF pc = "write" THEN TearWatermark(latest) ELSE UNCHANGED file

-----------------------------------------------------------------------------
Start == StartAll \/ StartDuration \/ StartResume \/ StartRefused

Run ==
    \/ Connect \/ PrepareSink \/ ListMailboxes \/ SelectMailbox \/ SearchMailbox
    \/ FetchBatch \/ MailboxDone \/ FetchDone \/ BatchDone
    \/ \E m \in Messages : ReceiveMessage(m) \/ PassOver(m) \/ SkipBodyless(m)
    \/ Transform \/ StoreNextSink \/ StoreNextArtifact \/ StoreLastArtifact
    \/ CloseSink \/ ReturnError \/ ReturnNothing \/ ReturnLatest
    \/ TruncateWatermark \/ WriteWatermark

Failure ==
    \/ ConnectFails \/ PrepareFails \/ FetchFails \/ TransformFails \/ StoreFails
    \/ CloseFails \/ WriteFails \/ Crash

Next == TimePasses \/ MailArrives \/ MailDeleted \/ Start \/ Run \/ Failure

Spec == Init /\ [][Next]_vars

\* A started run is executed: no step of it waits for anything but an answer
\* of the server or the disk.  Cron starts runs again and again.
Fairness == WF_vars(Run) /\ WF_vars(StartResume)

FairSpec == Spec /\ Fairness

-----------------------------------------------------------------------------
(* What the command promises. *)

Excused(m)  == m \in bodyless \/ mail[m].state = "expunged"
InWindow(m) == req.since = 0 \/ mail[m].date > req.since

\* Everything of the requested window that was in a mailbox when the run
\* searched it is in every destination, deleted, or came without a body.
WindowSaved == \A m \in seen : InWindow(m) => Saved(m) \/ Excused(m)

\* Run returned nil only after storing its whole window everywhere, batch by
\* batch and mailbox by mailbox, and sealing the archive (Pipeline.Run,
\* fetchMailbox, Multi).
RunComplete ==
    pc \in {"return", "record", "write"} /\ ~fetchErr /\ ~closeErr =>
        /\ WindowSaved
        /\ "tar" \in Destinations => sealed

\* A timestamp is only ever recorded for a window saved whole; it is the date
\* of a message this run saved, and no message it saved is newer (Backup's
\* "only advanced on a fully successful run").
MarkIsEarned ==
    [][file' # file /\ file'.kind = "stamp" =>
          /\ WindowSaved
          /\ \E m \in seen : Saved(m) /\ mail[m].date = file'.stamp
          /\ \A m \in seen : Excused(m) \/ mail[m].date <= file'.stamp]_vars

\* A run that resumed from the timestamp file moves it forward or not at all
\* (message()'s strict bound with Run's maximum).
ResumeAdvances ==
    [][resumed /\ file' # file /\ file'.kind = "stamp" => file'.stamp > req.since]_vars

\* The archive of the previous run is given up only once every destination of
\* this one has been built (buildSink builds the tar sink last).
ArchiveSurvivesFailedBuild ==
    [][ /\ "tar" \in Destinations
        /\ ~(stored["tar"] \subseteq stored'["tar"]) \/ (sealed /\ ~sealed')
        => pc' = "list"]_vars

\* The day-granular search returns every dated message of the window, for
\* message() to narrow down (search()'s "superset").
SearchIsSuperset ==
    [][pc = "search" /\ pc' = "batch" =>
          {m \in Live(box) : mail[m].date # 0 /\ InWindow(m)} \subseteq rest']_vars

\* No live message is dated at or before the recorded timestamp without being
\* in every destination: what the next run will not ask for is already safe, or
\* was older than the window of a run that had only the clock to go by.
NothingSkipped ==
    file.kind = "stamp" =>
        \A m \in Messages : mail[m].state = "live" /\ mail[m].date <= file.stamp
                            => Saved(m) \/ m \in forgone

\* Every run ends: the walk over mailboxes, batches, artifacts and destinations
\* is finite whatever arrives meanwhile.
RunEnds == (pc # "idle") ~> (pc = "idle")

\* Delivered mail is saved by some run, as long as it stays in the mailbox, is
\* within the window whenever a run has no timestamp to go by, and the timestamp
\* file is not one ReadWatermark refuses.
EventuallySaved ==
    \A m \in Messages : (mail[m].state = "live") ~>
        (Saved(m) \/ mail[m].state = "expunged" \/ ReadFails \/ m \in forgone)

-----------------------------------------------------------------------------
(* Runs with no flags, seen from outside: an incremental backup. *)

\* While a resumed run rewrites the file, its old bound still stands.
Frontier ==
    IF ReadFound THEN file.stamp
    ELSE IF pc = "write" /\ resumed THEN req.since
    ELSE 0

Promise == INSTANCE IncrementalBackup WITH
    Mail     <- Messages,
    date     <- [m \in Messages |-> IF mail[m].state = "live" /\ m \notin forgone
                                    THEN mail[m].date ELSE 0],
    saved    <- {m \in Messages : Saved(m)},
    frontier <- Frontier

\* Backup's repeated runs keep that promise: saved mail stays saved, and the
\* bound of the next run moves forward over saved mail only, or is lost.
KeepsPromise == Promise!Spec
=============================================================================
