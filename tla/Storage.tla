------------------------------- MODULE Storage -------------------------------
(***************************************************************************)
(* Stage 3: the destinations a backup writes to (stages/store).  buildSink *)
(* always lists them in the order local, s3, tar, and Multi visits them in *)
(* that order for Store and for Close.                                     *)
(*                                                                         *)
(* An artifact is a pair <<message, index>>: its index 1 is the .eml, the  *)
(* others are extracted attachments.  A destination holds the artifacts it *)
(* could give back whole.                                                  *)
(***************************************************************************)
EXTENDS Naturals, Sequences

CONSTANTS
    Sinks,       \* the configured destinations, in buildSink's order
    Artifact     \* every artifact there may be

SinkKinds == {"local", "s3", "tar"}

ASSUME SinkAssumption ==
    /\ Sinks \in Seq(SinkKinds)
    /\ Len(Sinks) >= 1
    /\ \A i, j \in 1 .. Len(Sinks) : Sinks[i] = Sinks[j] => i = j
    /\ \A i \in 1 .. Len(Sinks) : Sinks[i] = "tar" => i = Len(Sinks)

VARIABLES
    stored,  \* stored[s]: the artifacts destination s holds
    sealed   \* the tar archive on disk ends with a valid trailer

storageVars == <<stored, sealed>>

Destinations == {Sinks[i] : i \in 1 .. Len(Sinks)}

StorageTypeOK ==
    /\ stored \in [Destinations -> SUBSET Artifact]
    /\ sealed \in BOOLEAN

StorageInit ==
    /\ stored = [s \in Destinations |-> {}]
    /\ sealed = FALSE

\* NewTar opens the archive with O_TRUNC; NewLocal makes a directory and NewS3
\* a client, and neither disturbs what is stored.
Prepare(s) ==
    IF s = "tar"
    THEN /\ stored' = [stored EXCEPT !["tar"] = {}]
         /\ sealed' = FALSE
    ELSE UNCHANGED storageVars

\* Store returned nil: the destination holds the artifact.
Put(s, a) ==
    /\ stored' = [stored EXCEPT ![s] = @ \cup {a}]
    /\ UNCHANGED sealed

\* Store failed, or the process died inside it.  Local overwrites in place, so
\* an earlier copy is cut short; PutObject replaces an object whole or not at
\* all, whatever the client hears of it; a torn tar entry was never in the
\* archive.
Spoil(s, a) ==
    /\ \/ UNCHANGED stored
       \/ s = "local" /\ stored' = [stored EXCEPT ![s] = @ \ {a}]
       \/ s = "s3"    /\ stored' = [stored EXCEPT ![s] = @ \cup {a}]
    /\ UNCHANGED sealed

\* Close returned nil.  Only the tar archive has something to finalise.
Finish(s) ==
    /\ sealed' = IF s = "tar" THEN TRUE ELSE sealed
    /\ UNCHANGED stored
=============================================================================
