# email-backup-tool: TLA+ models, checks and proofs

`email-backup-tool` is a command-line program in Go that copies the mail of an
IMAP account to a local directory, an S3 bucket and/or a tar archive,
optionally encrypted. It keeps one piece of state between runs, a timestamp
file, and is meant to be run again and again by cron. This directory models
the parts of it whose correctness depends on order, failure and what an earlier
run left behind.

## 1. The system

| Part | Code | State it keeps | Operations | What makes it correct |
|---|---|---|---|---|
| backup command | `cmd/backup.go` | none of its own | compute the window, build the stages, run, record the timestamp | records only what a whole, successful run earned |
| timestamp file | `stages/watermark.go` | one JSON file | read (missing, blank, found, error), truncate-then-write | a run starts where the last good one ended |
| pipeline | `stages/pipeline.go` | `Result` of the run | fetch → transform → store per artifact; always close | returns nil only when everything was stored and closed |
| IMAP fetcher | `stages/fetch/imap.go` | connection, selected mailbox, UIDs to fetch | list, select, search, fetch in batches, emit | every message of the window that was there is emitted |
| attachments | `stages/fetch/attachments.go` | none | walk MIME parts | nesting bounded, an unreadable part costs only itself |
| artifact names | `stages/stages.go`, `stages/paths.go` | none | message → names | distinct artifacts get distinct, safe names |
| encryption | `stages/transform/{transform,age,pgp}.go` | parsed keys | choose scheme, encrypt, decrypt | key decides scheme; wrong key is refused |
| keyserver | `stages/transform/keyserver.go` | none | one lookup | only a full fingerprint is looked up |
| destinations | `stages/store/{local,s3,tar,multi}.go` | files, objects, one open archive | construct, `Store`, `Close` | nil means stored; the archive is sealed or the run fails |
| wiring | `cmd/build_stages.go` | none | build fetcher, transformer, sink, in that order | a failed build costs nothing stored |
| config | `cmd/config*.go`, `cmd/flags.go` | parsed file, once per process | Before hook, lookups | an unusable file is an error, for every command |
| init, generate-key | `cmd/init.go`, `cmd/generate-key.go` | a config file, two key files | check, truncate, write | without `--force` nothing is replaced; halves match |
| decrypt | `cmd/decrypt.go` | output files | per argument: read, open, check target, write | each argument's plaintext, nothing else touched |
| login, schema, app | `cmd/imap.go`, `cmd/schema.go`, `internal/gen-schema`, `cmd/app.go`, `main.go` | none | one connection, a developer's generator, start-up | — |

How they interact: `Backup` builds the three stages and calls `Pipeline.Run`,
which calls `Fetch` with a callback; the callback, inside the fetch of a batch,
transforms and stores one artifact after another in every destination in turn,
and its error ends the fetch. `Run` then closes all destinations; `Backup`
writes the timestamp file only after `Run` returned nil. Everything inside a
run is sequential. What is concurrent is around it: mail arrives and is
deleted by other clients between any two commands to the server, the process
may be killed at any instant (there is no signal handler), and each call to
the server, the disk or S3 may fail. Runs share the timestamp file, the
destinations, the config and the keys.

Hard behaviours: mail that comes and goes between search and fetch and between
mailboxes; one timestamp for many mailboxes; second resolution with a strict
bound; day-granular search; partial fan-out; a failing `Close`; torn writes of
the timestamp file, the archive, keys, config and decrypted files; commands
that must pass a check of the very files they are to create; two processes
started by cron over the same files; settings from three sources of which each
may mask another; names made of what senders and owners write. `PROJECT.json`
lists each at its line under `hazards`.

## 2. Modules

| Module | Models | Correspondence |
|---|---|---|
| `MailServer` | the account, as the client uses it (external) | `mail[m]`: state, mailbox, internal date; `Deliver`, `Expunge` by others; `SearchHits` is `UID SEARCH SINCE`, in the server's zone (`ZoneOffset`) with a bound in UTC or the client's (`ClientZone`) |
| `Watermark` | `stages/watermark.go` | `file` is missing, blank, garbage or a stamp; `OpenWatermark`/`FillWatermark`/`TearWatermark` are `os.WriteFile`'s truncation, write and partial write |
| `Storage` | what a destination holds, at the level `Backup` needs | `Prepare` = `NewTar`…, `Put`/`Spoil` = `Store` that returned nil / failed or was killed, `Finish` = `Close` |
| `Backup` | `cmd/backup.go`, `stages/pipeline.go`, `stages/fetch/imap.go`, order of `cmd/build_stages.go`, `multi.go` | composes the three above (EXTENDS); `pc` is the place in the run, one action per call that changes state, `Crash` anywhere |
| `IncrementalBackup` | what repeated runs with no flags promise (`fetch.md`, `README.md`) | abstract: dates of the mail, the set of what is saved, and a frontier that moves over saved mail only, or gives the oldest up; refined by `Backup` (`Promise == INSTANCE … WITH`) |
| `Overlap` | two `backup` processes at once | a second instance of `Backup` over the same account, timestamp file and destinations, with a memory of its own |
| `Archive` | `stages/store/tar.go` over archive/tar and gzip | `gzip` whether this run's archive is compressed, `stream` the units handed on, `onDisk` how many the file has, `tarErr` the writer's sticky error; the three nested `Close` calls are one action each |
| `ArchiveContract` | what `stages.Sink` promises for a destination that buffers | refined by `Archive` (`Contract == INSTANCE … WITH`) |
| `Paths` | `stages/paths.go` | `Slug`, `SafePath`, `SafeFilename` as operators on texts over one character per class the code tells apart |
| `Filing` | `Artifacts` and `basePath` of `stages/stages.go`, `SafeFilename` on attachments, `Local.resolve` | messages are written one character at a time, arrive with ascending UIDs and are backed up in any order; `files` is the directory, from targets to what they hold; extends `Paths` |
| `Extraction` | `stages/fetch/attachments.go` | a message is what a reader of it meets in turn (leaf, start or end of a multipart, error), composed one at a time and then fetched; one action per turn of the walk, `depth` counts the `walkParts` calls it is in |
| `Options` | `cmd/config.go`, `Validate` and the blocks of `cmd/configfile.go`, `cmd/config_keys.go`, `cmd/flags.go`, the choices of `cmd/build_stages.go`, `NewIMAP` and `NewS3` | three sources are functions from flags to values; `InForce` is the chain of sources, one action per builder and outcome: built, refused for its settings whatever the world does (`FetcherRefuses`…), or failed at a server, a key, AWS or the disk (`FetcherFails`…); `blame` remembers which |
| `Setup` | `cmd/init.go`, `cmd/generate-key.go`, the Before hook (`cmd/config.go`, `LoadConfigFile`, the key check of `Validate`), the use of the key by `backup` | `config`, `private`, `public` are the files; `pc` steps through check, truncate, fill |
| `Decrypt` | `cmd/decrypt.go` with scheme detection of `transform.go` | `disk` maps paths to contents, `DecryptedPath` is `decryptedPath` on structured paths |
| `MCBackup`, `MCOverlap`, `MCArchive`, `MCSetup`, `MCDecrypt`, `MCFiling` | instances for TLC | |
| `Backup_proofs`, `Overlap_proofs`, `Archive_proofs`, `Setup_proofs`, `Decrypt_proofs`, `Options_proofs`, `Filing_proofs`, `Extraction_proofs` | theorems | |

Abstractions that matter: an instant is a natural number of seconds, 0 Go's
zero time. A message is its UID, UIDs are given out in order of delivery. In
`Backup` an artifact is `<<message, index>>` and a destination is the set of
artifacts it can give back whole, so two artifacts never share a name there:
which names artifacts get, and which do collide, is the subject of `Filing`.
In `Filing` a month and a second are one number, and numbers are printed by a
one-to-one `Decimal`. What `Extraction` finds is, for `Filing`, a list of names. A message that was received
without a body is skipped by the code with a warning, and the properties excuse
it (`bodyless`); so they do one deleted before it could be fetched. `forgone`
remembers what was older than the window of a run that had only the clock to go
by, `--duration` or the fallback, and not yet saved when it began. A zone is a
constant: the change to and from summer time is left out. `Options`
has one well-formed and one or two useless values for most settings; a key is a
key, something else, or missing. Definitions whose comment starts with "Seeded
bug" are not part of the model: each is a plausible mistake in the definition
that follows it, used to confirm that a property notices it.

## 3. Runs

Passing:

| Run | Question | Bounds, and why they suffice |
|---|---|---|
| `backup_walk` | does a run that reports success have its whole window saved, and record the right timestamp, while mail of any date comes and goes? | 2 mailboxes, 2 messages, batch of 1 (so a mailbox can need two batches), days of 2 s, one fetch failure or kill, `--all` and resume, with and without `--mailbox`, client and server half a day ahead of UTC, so that the fallback's bound is sent as another day than a resumed one; mailboxes are interchangeable (SYMMETRY) |
| `backup_fanout` | the same across destinations, and the fate of the previous archive | S3 and tar, a message with two artifacts, every kind of failure, two of them, so that a failure can follow a failed run; a client behind UTC and a server in it |
| `backup_incremental` | is nothing behind the timestamp file unsaved, do repeated runs implement `IncrementalBackup`, do runs end, and is mail eventually saved? | one mailbox, 2 messages at distinct seconds, one with two artifacts, batch of 1, resumed runs only, local and S3, one failure or kill at any step; a default window of 2 s in a history of 4, so that a retry of a failed first run, or the run after a blanked timestamp file, comes too late for the oldest mail; section 5 proves the safety part for any size and any history |
| `backup_overlap` | two processes at once: does each report truly, and does the file they overwrite in turn ever pass over unsaved mail? | one mailbox, 3 messages, batch of 1, one bucket, seconds 4 to 6, one write of the timestamp file that stops part way; a process killed anywhere else is, to the other, one that takes no further step; three messages are what it takes for the two runs to see different newest ones and a third to arrive between them |
| `archive` | does nil from `Close` mean a whole archive although gzip holds data back? can a half-written entry be inside an archive that looks finished? does the tar destination keep its contract? | 3 entries, 2 failures or kills, any number of runs, each with or without compression |
| `setup` | until somebody forces, can a backup be encrypted to a key nobody has? with `--force` at will, is what was reported there, and are unforced commands harmless? | 3 key pairs, every interruption, edited and deleted configs |
| `decrypt` | are unforced outputs whole and existing files intact? is an input ever overwritten by its own plaintext? | 2 runs, up to 2 of 6 files each, all three kinds of output directory, with and without `--force`; the second run meets what a torn or killed first one left |
| `filing` | under which names do the artifacts of messages land, which can displace one another, and what does backing one up again change? Beside it, `Extraction`: which attachments of a message are extracted, whatever its structure? | 2 messages and 2 backups, in any order; 2 attachments; mailbox names, subjects or attachment names, one of the three per history (a fourth kind of history is about a structure), of up to 3 characters over one per class; a slug cap of 3 bytes with a letter of 2, so that the cap is met inside a letter; structures of up to 5 parts and starts of multiparts, 3 of them around one another with a depth bound of 1, so that it is met and passed; section 5 proves all of its properties for any size |
| `options` | which key, connection and destinations does a command end up with, and for which settings does it give up? | every config file of one group of settings (connection, encryption, storage), at most one flag and one environment variable of that group, a key file that changes at any step; two settings of different groups are never read together by the code |

Messages, mailboxes and entries are compared only by identity and order, and
every property concerns one message, one artifact or one pair of them, so two
or three are enough to separate "this one" from "another one before/after it".
Every bound on failures (`MaxFaults`), time (`MaxClock`), key pairs
(`MaxKeys`), runs (`MaxRuns`, `MaxBackups`) and sizes (`MaxText`, `MaxNames`,
`MaxMail`, `MaxNumber`, `MaxLength`, `MaxNesting`, `MaxGiven`) only limits how
often or how much, and appears in the guards or the initial states under that
name. `MaxSlug` and `MaxDepth` are limits of the code, made small. `decrypt`,
`filing` and `options` switch deadlock checking off: the first two stop after
the last run or fetch, and a command of the third ends.

Findings, each a run that ends in the counterexample described in
`PROJECT.json`:

| Run | The code | against |
|---|---|---|
| `late_arrival` | one timestamp for all mailboxes passes over mail that reached a walked mailbox | `fetch.md:52-55` |
| `server_zone` | a server west of UTC, here with its client in the same zone, leaves newer mail out of `SINCE` | `imap.go:213-215` |
| `blank_config` | a blank config (an interrupted `init`) makes every command panic | `config.go:47-48` |

Other differences between the code and what is written about it, without a run
of their own.  In the models:

- Mail dated in the second of the newest saved message but delivered after the
  search is never fetched: the bound is strict and dates have whole seconds
  (`imap.go:277`; `fetch.md:15-17`). This is why `backup_incremental` sets
  `DistinctInstants`; with `FALSE` it ends in that counterexample.
- Only the recorded timestamp is in UTC (`watermark.go:47`, `watermark.go:55`).
  The bounds of `--duration` and of the fallback are local time (`backup.go:132`,
  `backup.go:153`) and are sent as the day of the client's zone (`imap.go:219`;
  `imap.go:213-215`). A client ahead of its server can so ask for the day after
  the one the server files the mail of the window under, and the run returns nil
  without it: a client in Tokyo that falls back to the last 24 hours at 1 in the
  morning asks a server in UTC for mail since the day before, which begins there
  8 hours later, and does without the first 8 hours of its window. `SinceZone` is
  the zone of the bound. With `ZonesInOrder`, a server behind neither UTC nor the
  client, the search covers the window; the passing runs keep to it, the theorems
  that need it assume it (section 5), and `server_zone` shows the resumed case;
  `backup_walk` with `DayLength = 3`, `ZoneOffset = 0` and `ClientZone = 2` ends
  in the local one.
- Without a timestamp file the window of a retry has moved on
  (`backup.go:153`; the comment at `backup.go:93-95`): mail that a failed first
  run did not save, or that came before a blanked file was noticed, is lost once
  it is older than the window. `FallBack` subtracts `Lookback` from the clock of
  the retry, `forgone` keeps what that leaves out, and `NothingSkipped`,
  `EventuallySaved` and `KeepsPromise` (`GiveUp`) excuse that and no more.
- `--all`, or any run that asks again for what is saved, overwrites the files of
  a local directory in place (`local.go:51`): killed in the middle it leaves one
  cut short behind a timestamp that still covers it. `NothingEverSkipped` is
  about resumed runs, which do not ask again, and `FlagsSkipNothing` about buckets.
- A timestamp file torn to nothing reads as an absent one (`watermark.go:63`;
  `watermark_test.go:56`): `KeepsPromise` allows for it as `Forget`, and for what
  the window of the next run leaves out as `GiveUp`.
- A part whose charset or encoding go-message does not know ends the walk over
  the attachments, although one unreadable part should not (`attachments.go:55`;
  the comment at `attachments.go:24-26`): a `Failure` of `Extraction`. The
  message itself is saved whole.
- After a failed write the archive gets no trailer (`tar.go:94`;
  `store.md:8-10`): `Archive`'s `CloseBroken`.
- `Run` returns a timestamp with its error (`pipeline.go:87`;
  `pipeline_test.go:166`); `Backup` ignores it, as `ReturnError` does.
- `generate-key --force` stopped between its two files leaves the new private
  key with the old public one, to which backups go on being encrypted
  (`generate-key.go:98`). `BackupsCanBeRead` is stated until the first `--force`.
- `init` refuses to create the config named by `--config`, because the Before
  hook wants it to exist (`config.go:58`; `init.md:14`), and a config that names
  the key to be created blocks `generate-key` (`configfile.go:281`;
  `init.md:19-22`): both are `RefuseConfig`.
- `decrypt -o --force` on two files of one name reports both and leaves one
  (`decrypt.go:118`; `decrypt.md:3`). `OutputIsWhole` speaks of unforced runs.
- Of two attachments of one name the second replaces the first, and so does an
  unnamed second one the first that a sender called `attachment-2`, or the
  other way round (`stages.go:124-131`). `ArtifactsAreKept` excuses them as
  `SameFilename`, but not two unnamed ones, which are numbered apart.
- Mailbox names that differ only in the delimiter, or in what is removed from
  them, share a directory (`paths.go:47`), where two messages of one UID,
  second and slug replace each other: `SameDirectory` excuses them, and
  `MailboxTreeIsKept` says that names of one delimiter do not collide.
- A message without a date is filed under the time of
  the run and so again by every run (`stages.go:143`): `RetryAddsNothing` is
  about dated ones.
- The slug's cap counts bytes and is checked after a letter is added, so a slug
  can be longer by one letter's bytes (`paths.go:27`): `SlugIsCapped` says
  by how much.
- A key on the command line cannot replace one of another kind in the config
  file: the command stops (`build_stages.go:53`; the comment at
  `config.go:107-109`). `CommandLineKeyIsUsed` holds because of it.
- Three settings pass `Validate` and are refused by a builder later, whatever
  the server and the machine do: half a pair of S3 credentials (`s3.go:72`), a
  keyserver that makes no URL (`keyserver.go:91`), and no port: the default 993
  of the schema (`configfile.go:191`) is never applied, the address is a bare
  host (`config_keys.go:80`), which no dialler takes. `AcceptedConfigBuilds`
  names them and shows that there are no others.
- An empty environment variable switches a configured key off (`config.go:109`),
  with the warning of `build_stages.go`; `PlainIsDeliberate` takes it for
  somebody's choice.

Outside the models:

- `EMAIL_BACKUP_DURATION` counts as an explicit `--duration` (`backup.go:35`,
  `backup.go:131`), so that the timestamp file is written and never read.
- The config file is looked for under `IMAP_BACKUP_TOOL_CONFIG`
  (`config.go:20`), the flag's own variable is `EMAIL_BACKUP_TOOL_CONFIG`
  (`app.go:50`), which the comment at `config.go:18-19` wants to be the same.
- `buildSink` reads a flag `s3-profile` (`build_stages.go:119`) that
  `flags.go` does not define, so it is always empty; a profile named by
  `AWS_PROFILE` that does not exist is one way for `LoadDefaultConfig` to fail
  (`s3.go:84-87`), which is part of `SinkFails`.
- An attachment's name has no length limit (`paths.go:66`): one the file system
  refuses fails the run, and every run after it.

## 4. Fairness

`FairSpec` of `Backup` has `WF(Run)` and `WF(StartResume)`; the run
`backup_incremental` uses it. A run is one goroutine that never waits for
anything but an answer of the server or the disk, so it keeps taking steps as
long as these answer; the client sets no timeouts of its own, and a server
that neither answers nor drops the connection is outside this assumption.
`WF(StartResume)` is cron: as long as no run is active and the timestamp file
is not one that `ReadWatermark` refuses, another run starts. Nothing is assumed of mail, of time or of
failures; failures are finite in number (`MaxFaults`), without which no mail
need ever be saved. No other run assumes fairness.

## 5. Proofs

tlapm checks every leaf of the eight `_proofs` modules for all values of the
constants that satisfy the named assumptions (`MailAssumption`,
`SinkAssumption`, `BackupAssumption`, `ArchiveAssumption`, `SetupAssumption`,
`DecryptAssumption`, `OptionsAssumption`, `PathsAssumption`,
`FilingAssumption`), which TLC evaluates in the runs of those modules.

`Backup_proofs`:

- `TypeCorrect`: `TypeOK`, made inductive by `Control`, which says what `pc`
  implies of the artifact, destination and timestamp at hand.
- `RunsAreComplete` (`RunComplete`), `MarkAlwaysEarned` (`MarkIsEarned`) and
  `ResumeAlwaysAdvances` (`ResumeAdvances`) rest on one invariant, `Complete`.
  `RunComplete` says something only at the end of a run; what makes it true is
  that at every place of the walk each message seen by the search and inside
  the window is saved, excused, or still on the way: in `rest`, in `batch` or
  `cur`. `Covered` says that; `WalkInv` ties `rest`, `batch` and `cur` to
  what was seen and to the selected mailbox; `StoreInv` says which artifacts of
  `cur` which destinations already have; `MarkInv` that `latest` is the date
  of a saved message and not below that of any other; `SealInv` that closing
  has reached the archive. Two of the theorems assume `ZonesInOrder`, a server
  whose zone is behind neither UTC, the zone of a recorded bound, nor the
  client's, the zone of the others: the search is not a superset otherwise
  (section 3), and `Covered` starts from the search. `ResumeAlwaysAdvances` does
  without it: whatever the search leaves out, what is saved is newer than the
  bound.
- `SearchAlwaysCovers` (`SearchIsSuperset`), under `ZonesInOrder`, from
  the monotonicity of division (`DayMonotone`), and `ArchiveAlwaysSurvives`
  (`ArchiveSurvivesFailedBuild`), which needs `buildSink`'s order of
  destinations, a part of `SinkAssumption`.
- `NothingEverSkipped` (`NothingSkipped`) and `PromiseAlwaysKept`
  (`KeepsPromise`, the refinement of `IncrementalBackup`) for any number of
  messages, artifacts, failures and destinations, under `Unattended`:
  `Circumstances`, which are one mailbox (`late_arrival` shows why), mail dated
  on arrival, one message a second, no message without a body, zones in order, no
  archive that each run truncates, windows of at least a second, and runs
  without flags. Each of these is an exception listed in section 3 or in
  `PROJECT.json`. Nothing bounds the length of the history: runs follow one
  another for as long as they like, and may fall back to the default window at
  any time. The invariant is `Complete` with `StepInv`: the bound of a run and
  the recorded timestamp are `Known`, dates of delivered mail or instants that
  have passed (`BoundInv`), so that whatever is delivered later is newer; live
  mail at or before either of them is `Settled`, saved or `forgone`, since a
  window of the clock gives up what it leaves out at the moment it is drawn;
  and what a run has not seen is newer than all it has (`BehindInv`). The newest
  message of a run is therefore older than everything it missed. The steps fall
  into seven classes (`StepClasses`, with `StartClasses` and `FallBackKept` for
  the starts), and the invariant and the simulation are proved once per class.
- `FlagsSkipNothing`: the same of `NothingSkipped` under `Attended`, where runs
  with `--all`, or with a `--duration` of any length, come in between, as long as
  every destination is a bucket. Such a
  run may move the timestamp back, over mail that is gone by then. It needs
  only the part of `StepInv` called `SafeInv`; the rest, `AloneInv`, ties a run
  to the file it read, which is how a directory comes to no harm and how the
  refinement is shown.

`Overlap_proofs`:

- `BothAlwaysComplete` (`BothComplete`), under `ZonesInOrder` and a destination
  that is not an archive, and `OverlapNeverSkips` (`OverlapSkipsNothing`) under
  `Attended`, so with flags given to either process, for any amount of mail. The argument is rely and guarantee. Each
  process relies on `Interference`: a step of the other leaves the mail alone,
  takes nothing out of the bucket or out of `forgone` and leaves a file that is
  one. Under it each
  keeps `Complete`, every conjunct of which speaks of its own memory and of what
  is saved. `AloneInv` fails as soon as somebody else writes the file, and
  `SafeInv` is enough here too. It needs one thing more of the other process, and
  each guarantees it: `FileSafe`, that a timestamp it leaves is a date the
  account knows, with no live mail behind it that is not settled. The steps of
  the second process are those of the first with other variables (`SameRun`
  and the lemmas beside it), so each lemma about one is used for both.

`Archive_proofs`:

- `ArchiveTypeCorrect`, `SealedAlwaysWhole` (`SealedIsWhole`), `NilAlwaysSeals`
  (`NilCloseSeals`) and `TarKeepsContract` (`KeepsContract`, the refinement of
  `ArchiveContract`). `StreamInv` says that the stream alternates headers and
  bodies but for a last header whose body is missing, `EndInv` where the
  closing units may be, and `AckedInv` that the bodies in it are those whose
  `Store` returned nil.

`Decrypt_proofs`:

- `DecryptTypeCorrect`, `OutputAlwaysWhole` (`OutputIsWhole`),
  `UnforcedAlwaysKeeps` (`UnforcedKeepsFiles`), `OwnInputAlwaysSurvives`
  (`OwnInputSurvives`) for any files and invocations. `DoneInv` says that an
  unforced run that has not failed still has every plaintext it has written,
  because a later one of the same name stopped at it; `OwnInputSurvives`
  follows from `TargetIsElsewhere`: a target has one suffix more or one less
  than its input, which no relocation changes.

`Setup_proofs`:

- `SetupTypeCorrect`, `GeneratedAlwaysAPair` (`GeneratedIsAPair`),
  `BackupsAlwaysReadable` (`BackupsCanBeRead`), `UnforcedAlwaysKeeps`
  (`UnforcedKeepsFiles`). `TypeOK` alone is not inductive: that `sealedTo`
  holds keys only needs `ConfigInv` (what the Before hook accepted is still
  there when the command acts). `PairInv` follows `generate-key` from its check
  to its last write, `CarefulInv` says that until a command is given `--force`
  the public half appears once, after the private one, and neither changes
  again, and `UnforcedInv` that an unforced `generate-key` finds both places
  free up to the moment it writes there.

`Options_proofs`:

- `AlwaysTypeOK`, `PlainAlwaysDeliberate` (`PlainIsDeliberate`),
  `CommandLineKeyAlwaysUsed` (`CommandLineKeyIsUsed`), `ConfigAlwaysFollowed`
  (`ConfigIsFollowed`), `NoTLSAlwaysAsked` (`NoTLSOnlyWhenAsked`) and
  `AcceptedConfigAlwaysBuilds` (`AcceptedConfigBuilds`), for any number of
  flags and variables given together, where the run has one of each
  (`MaxGiven`). `InputsInv` says what the three sources can hold: a missing
  value only where a block of the config may be absent, and a TLS mode only of
  the spellings there are. `AcceptedInv` is what `Validate` found and what
  holds of the file from then on, whatever becomes of the key file it looked
  at. `CryptInv`, `SinksInv` and `DialInv` say of each thing built that it is
  what the values in force ask for, which is what the properties need after
  the command has gone on to its next step. `AcceptedConfigBuilds` is about a
  command that gave up for its settings; `FetcherAlone`, `TransformerAlone` and
  `SinkAlone` show of each builder what it can refuse of a config that `Validate`
  accepted and nothing overrides, by computing the values in force from it.

`Filing_proofs`:

- `TypeCorrect` (`TypeOK`), `NothingEscapes` (`PathsMeanThemselves`),
  `SlugAlwaysCapped` (`SlugIsCapped`), `SlugAlwaysItsWords`
  (`SlugIsItsWords`), `TreesAreKept` (`MailboxTreeIsKept`),
  `EveryArtifactKept` (`ArtifactsAreKept`) and `RetryIsIdempotent`
  (`RetryAddsNothing`), for texts, messages and attachments of any number and
  length and any cap. What the loops over a text return is a matter of
  induction over its length. The library's induction theorem takes an operator,
  so `Induction` is stated with a set of numbers instead, and `LoopInvariant`
  follows from it: a set of values that the loop starts in and that its body
  does not leave holds what it returns. From it come the lemmas about
  `SafePath`, `SafeFilename` and `Slug` (`SafePathIs`, `SafeFilenameIs`,
  `SlugIs`): what they return is `Plain`, without a separator and neither `.`
  nor `..`, and what is plain `Resolve` takes as it is (`ResolveIs`).
- `SlugIsItsWords` relates a slug to its subject place by place: the slug is a
  word character for each one of the subject up to the cap, and a dash where
  others lie between two of them. `RoundsAreMarks` follows the loop of `Slug`
  by `LoopInvariant`, and `MarksTrimmed` is the trim after it: the first
  character is always of a word, and at most one dash follows the last.
- `ArtifactsAreKept` is not inductive: it says nothing of a file that no saved
  message claims, which the next backup may claim. The invariant adds
  `FilesOfMail` (each file was written for an artifact of a message that has
  arrived, under that artifact's path), `UidsApart` (one mailbox gives a UID
  once) and `Held` (a path of a saved message holds the last of its artifacts
  placed there, `LastAt`, unless another mailbox took it). With them it is
  enough that two paths are equal only if the messages have one UID, one
  directory and, for attachments, one name (`PathApart`, from `StemApart`: the
  timestamp and the UID end at the first dash, since they are digits).

`Extraction_proofs`:

- `WalkAlwaysFaithful` (`WalkIsFaithful`) for messages of any length, nesting
  and parts and any bound on the depth, with no assumption at all. What makes
  it true is `WalkingInv`: at every place of the walk the depth it counts is
  the number of multiparts around that place (`Level`), no place where it
  should have stopped lies behind it, and it has found what there was to find
  up to there. That the walk ends at the end of the message, and not at an
  earlier one of its multiparts, needs `NestedInv`: only the last thing of a
  message can end its outermost part.

Only model-checked: liveness (`RunEnds`, `EventuallySaved`), which is out of
the prover's reach.

## 6. Not modelled

Certificates and the rest of a connection beyond its mode and its success or
failure; cryptography; S3 object attributes, prefixes and endpoints;
the limits of a lookup; logging; the build
information; dispatch on the config's version, of which there is one; the
schema generator; completion scripts. MIME decoding, IMAP, the archive formats
and command-line parsing are libraries, of which only what the code relies on
is there.

Of two backups at once, the cases where they share a tar archive (each
truncates it) or a local directory (a kill of one may cut short what the other
has recorded as saved) are left out of `backup_overlap`: nothing in the code
protects them, and no document says that it does. Two `decrypt` processes over
one directory are left out for the same reason.

## 7. What could follow

- A second `backup` or `decrypt` process over local files, should the program
  get a lock.
