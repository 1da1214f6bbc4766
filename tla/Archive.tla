------------------------------- MODULE Archive -------------------------------
(***************************************************************************)
(* The tar destination (stages/store/tar.go) over archive/tar and gzip: how *)
(* entries reach the file, what a failed write leaves behind, and what the *)
(* three nested Close calls do to each other.  Runs follow one another and *)
(* may be killed; each one truncates its archive, compressed or not.       *)
(*                                                                         *)
(* The archive is a sequence of units, each written by one call.  Without  *)
(* gzip a unit is on disk when the call returns; with gzip it may stay in  *)
(* the compressor's buffer until gzip.Close.                               *)
(***************************************************************************)
EXTENDS Naturals, Sequences

CONSTANTS
    Entries,     \* the artifacts a run may store
    NoEntry,
    MaxFaults    \* bound: failures and kills in one history

ASSUME ArchiveAssumption == /\ NoEntry \notin Entries
                            /\ MaxFaults \in Nat

VARIABLES
    gzip,    \* the path of this run's archive ends in .gz or .tgz
    pc,      \* "none", "ready", "entry", then "gzip", "file", "done" in Close
    stream,  \* the units the tar writer and its Close have handed on
    onDisk,  \* how many of them are in the file
    cur,     \* the entry whose header is written and whose data is not
    tarErr,  \* the tar writer's sticky error
    acked,   \* entries whose Store returned nil
    result,  \* what Close returned
    faults   \* failures so far

vars == <<gzip, pc, stream, onDisk, cur, tarErr, acked, result, faults>>

Parts == {"header", "body", "torn", "trailer", "footer"}

TypeOK ==
    /\ gzip \in BOOLEAN
    /\ pc \in {"none", "ready", "entry", "gzip", "file", "done"}
    /\ stream \in Seq((Entries \cup {NoEntry}) \X Parts)
    /\ onDisk \in 0 .. Len(stream)
    /\ cur \in Entries \cup {NoEntry}
    /\ tarErr \in BOOLEAN
    /\ acked \subseteq Entries
    /\ result \in {"none", "nil", "error"}
    /\ faults \in 0 .. MaxFaults

Init ==
    /\ gzip \in BOOLEAN
    /\ pc = "none" /\ stream = <<>> /\ onDisk = 0 /\ cur = NoEntry
    /\ tarErr = FALSE /\ acked = {} /\ result = "none" /\ faults = 0

\* How much of the stream is in the file after a write.
Flushed(s) == IF gzip THEN onDisk .. Len(s) ELSE {Len(s)}

\* A write that succeeds, and one that stops part way or before it began.
Write(unit) ==
    /\ stream' = Append(stream, unit)
    /\ onDisk' \in Flushed(stream')
    /\ UNCHANGED faults

Tear ==
    /\ faults < MaxFaults /\ faults' = faults + 1
    /\ stream' \in {stream, Append(stream, <<cur, "torn">>)}
    /\ onDisk' \in Flushed(stream')

\* NewTar: open the file with O_TRUNC, stack gzip and tar on it.
NewTar ==
    /\ pc \in {"none", "done"}
    /\ pc' = "ready" /\ gzip' \in BOOLEAN
    /\ stream' = <<>> /\ onDisk' = 0 /\ cur' = NoEntry
    /\ tarErr' = FALSE /\ acked' = {} /\ result' = "none"
    /\ UNCHANGED faults

\* Store, first half.  After a failed write WriteHeader only repeats its error,
\* and a header that cannot be encoded is refused before anything is written:
\* either way Store fails and nothing changes.
WriteHeader(e) ==
    /\ pc = "ready" /\ ~tarErr
    /\ e \notin acked
    /\ Write(<<e, "header">>)
    /\ pc' = "entry" /\ cur' = e
    /\ UNCHANGED <<gzip, tarErr, acked, result>>

\* Seeded bug: the entry is recorded after it was cleared.
WriteBodyLate ==
    /\ pc = "entry"
    /\ Write(<<cur, "body">>)
    /\ pc' = "ready" /\ cur' = NoEntry
    /\ acked' = acked \cup {cur'}
    /\ UNCHANGED <<gzip, tarErr, result>>

\* Store, second half.
WriteBody ==
    /\ pc = "entry"
    /\ Write(<<cur, "body">>)
    /\ pc' = "ready" /\ cur' = NoEntry
    /\ acked' = acked \cup {cur}
    /\ UNCHANGED <<gzip, tarErr, result>>

\* Seeded bug: the writer forgets that it failed.
StoreFailsOnce ==
    /\ pc \in {"ready", "entry"} /\ ~tarErr
    /\ Tear
    /\ pc' = "ready" /\ cur' = NoEntry
    /\ UNCHANGED <<gzip, tarErr, acked, result>>

\* Either half fails; Store returns the error, the tar writer remembers it.
StoreFails ==
    /\ pc \in {"ready", "entry"} /\ ~tarErr
    /\ Tear
    /\ tarErr' = TRUE
    /\ pc' = "ready" /\ cur' = NoEntry
    /\ UNCHANGED <<gzip, acked, result>>

\* Close: tar.Close returns the sticky error.  The file is closed, gzip is not.
CloseBroken ==
    /\ pc = "ready" /\ tarErr
    /\ pc' = "done" /\ result' = "error"
    /\ UNCHANGED <<gzip, stream, onDisk, cur, tarErr, acked, faults>>

\* Seeded bugs: the trailer is written after an error as well ...
CloseTarRegardless ==
    /\ pc = "ready"
    /\ Write(<<NoEntry, "trailer">>)
    /\ pc' = IF gzip THEN "gzip" ELSE "file"
    /\ UNCHANGED <<gzip, cur, tarErr, acked, result>>

\* ... or gzip is never closed.
CloseTarOnly ==
    /\ pc = "ready" /\ ~tarErr
    /\ Write(<<NoEntry, "trailer">>)
    /\ pc' = "file"
    /\ UNCHANGED <<gzip, cur, tarErr, acked, result>>

\* tar.Close writes the trailer.
CloseTar ==
    /\ pc = "ready" /\ ~tarErr
    /\ Write(<<NoEntry, "trailer">>)
    /\ pc' = IF gzip THEN "gzip" ELSE "file"
    /\ UNCHANGED <<gzip, cur, tarErr, acked, result>>

\* gzip.Close flushes the compressor and writes its footer.
CloseGzip ==
    /\ pc = "gzip"
    /\ stream' = Append(stream, <<NoEntry, "footer">>)
    /\ onDisk' = Len(stream')
    /\ pc' = "file"
    /\ UNCHANGED <<gzip, cur, tarErr, acked, result, faults>>

CloseFile ==
    /\ pc = "file"
    /\ pc' = "done" /\ result' = "nil"
    /\ UNCHANGED <<gzip, stream, onDisk, cur, tarErr, acked, faults>>

\* Writing the trailer or the footer fails, or closing the file does.
CloseFails ==
    /\ \/ pc = "ready" /\ ~tarErr /\ Tear
       \/ pc = "gzip" /\ Tear
       \/ /\ pc = "file" /\ faults < MaxFaults /\ faults' = faults + 1
          /\ UNCHANGED <<stream, onDisk>>
    /\ pc' = "done" /\ result' = "error"
    /\ UNCHANGED <<gzip, cur, tarErr, acked>>

\* The process is killed: what was still in a buffer is gone.
Crash ==
    /\ pc \in {"ready", "entry", "gzip", "file"}
    /\ faults < MaxFaults /\ faults' = faults + 1
    /\ pc' = "none" /\ cur' = NoEntry
    /\ stream' = SubSeq(stream, 1, onDisk)
    /\ UNCHANGED <<gzip, onDisk, tarErr, acked, result>>

Next ==
    \/ NewTar \/ WriteBody \/ StoreFails
    \/ \E e \in Entries : WriteHeader(e)
    \/ CloseBroken \/ CloseTar \/ CloseGzip \/ CloseFile \/ CloseFails
    \/ Crash

Spec == Init /\ [][Next]_vars

-----------------------------------------------------------------------------
(* What a reader finds in the file. *)

Disk == SubSeq(stream, 1, onDisk)

\* The last unit a complete archive has.
Ending == <<NoEntry, IF gzip THEN "footer" ELSE "trailer">>

Sealed == onDisk > 0 /\ stream[onDisk] = Ending

\* Up to i every header is followed by all its data.  Past a header that is not,
\* a reader takes the units that follow for the missing data and is lost.
Aligned(i) ==
    \A j \in 1 .. i :
        /\ stream[j][2] # "torn"
        /\ stream[j][2] = "header" => j < onDisk /\ stream[j + 1] = <<stream[j][1], "body">>

WholeEntries == {e \in Entries : \E i \in 1 .. onDisk : stream[i] = <<e, "header">> /\ Aligned(i)}

\* Close returns nil only when the file holds every entry Store accepted, whole,
\* and ends as an archive should (Tar.Close's chain of three Close calls).
NilCloseSeals == result = "nil" => Sealed /\ WholeEntries = acked

\* An archive that ends well has nothing half-written in the middle: no entry
\* was written past a failed one (the sticky error Tar relies on).
SealedIsWhole == Sealed => Aligned(onDisk)

Phase ==
    IF pc \in {"none", "done"} THEN "closed"
    ELSE IF Sealed THEN "sealed"
    ELSE IF tarErr THEN "broken"
    ELSE "open"

Content == IF Sealed THEN WholeEntries ELSE {}

\* The tar destination keeps the contract, in which validity cannot be had
\* after a failed Store and shows exactly what was accepted.
Contract == INSTANCE ArchiveContract WITH
    phase   <- Phase,
    held    <- acked,
    content <- Content

KeepsContract == Contract!Spec
=============================================================================
