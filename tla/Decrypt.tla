------------------------------- MODULE Decrypt -------------------------------
(***************************************************************************)
(* The decrypt command (cmd/decrypt.go): it turns each of its arguments    *)
(* into a plaintext file beside it or in an output directory, one after    *)
(* the other, stopping at the first that fails.  Runs follow one another   *)
(* over the same files, with or without --force, and may be killed.        *)
(*                                                                         *)
(* A path is <<directory, stem, suffixes>>; a file holds the ciphertext of *)
(* an artifact in one of the schemes, its plaintext, or a plaintext cut    *)
(* short.                                                                  *)
(***************************************************************************)
EXTENDS Naturals, Sequences, SequencesExt

CONSTANTS
    Artifacts,
    Readable,      \* those encrypted to the key at hand
    KeyScheme,     \* the scheme of that key
    NoDirectory,   \* no --output
    Directories,   \* the other values of --output
    InitialDisk,   \* the files there are: path -> contents
    Invocations,   \* what users run: [args, output, force]
    MaxRuns        \* bound: runs in one history

Schemes == {"age", "pgp"}
Endings == Schemes \cup {"decrypted"}
Contents == (Schemes \cup {"plain", "torn"}) \X Artifacts

ASSUME DecryptAssumption ==
    /\ Readable \subseteq Artifacts
    /\ KeyScheme \in Schemes
    /\ NoDirectory \notin Directories
    /\ \A p \in DOMAIN InitialDisk : InitialDisk[p] \in Contents
    /\ \A r \in Invocations :
          /\ r.output \in Directories \cup {NoDirectory}
          /\ r.force \in BOOLEAN
          /\ Len(r.args) \in Nat
          /\ \A i \in 1 .. Len(r.args) :
                DOMAIN r.args[i] = 1 .. 3 /\ r.args[i][3] \in Seq(Endings)
    /\ MaxRuns \in Nat

VARIABLES
    disk,    \* path -> contents, for the files that exist
    run,     \* the invocation that runs or ran last
    pc,      \* "idle", "read", "write"
    texts,   \* the artifacts its arguments turned out to be, so far
    result,  \* "none", "nil", "error", "killed"
    runs     \* runs so far

vars == <<disk, run, pc, texts, result, runs>>

TypeOK ==
    /\ \A p \in DOMAIN disk : disk[p] \in Contents
    /\ run \in Invocations
    /\ pc \in {"idle", "read", "write"}
    /\ texts \in Seq(Readable)
    /\ Len(texts) <= Len(run.args)
    /\ result \in {"none", "nil", "error", "killed"}
    /\ runs \in 0 .. MaxRuns

Init ==
    /\ disk = InitialDisk
    /\ run \in Invocations
    /\ pc = "idle" /\ texts = <<>> /\ result = "none" /\ runs = 0

-----------------------------------------------------------------------------
(* Where a decrypted file goes. *)

Relocate(path, output) ==
    IF output = NoDirectory THEN path ELSE [path EXCEPT ![1] = output]

\* Seeded bug: a file without the scheme's suffix keeps its name.
DecryptedPathSameName(path, output) ==
    Relocate(IF path[3] # <<>> /\ Last(path[3]) = KeyScheme
             THEN [path EXCEPT ![3] = Front(@)]
             ELSE path,
             output)

\* The scheme's suffix comes off; a file without it gets one more.
DecryptedPath(path, output) ==
    Relocate(IF path[3] # <<>> /\ Last(path[3]) = KeyScheme
             THEN [path EXCEPT ![3] = Front(@)]
             ELSE [path EXCEPT ![3] = Append(@, "decrypted")],
             output)

Argument == run.args[Len(texts) + 1]   \* the one to be read next
Target(i) == DecryptedPath(run.args[i], run.output)

Exists(path) == path \in DOMAIN disk

\* The file at path created or replaced.
Written(path, contents) ==
    [p \in DOMAIN disk \cup {path} |-> IF p = path THEN contents ELSE disk[p]]

-----------------------------------------------------------------------------
(* The command. *)

\* Seeded bug: what the run before decrypted is kept.
StartAgain(r) ==
    /\ pc = "idle" /\ runs < MaxRuns
    /\ run' = r /\ pc' = "read" /\ result' = "none"
    /\ runs' = runs + 1
    /\ UNCHANGED <<disk, texts>>

Start(r) ==
    /\ pc = "idle" /\ runs < MaxRuns
    /\ run' = r /\ pc' = "read" /\ texts' = <<>> /\ result' = "none"
    /\ runs' = runs + 1
    /\ UNCHANGED disk

\* Only a file in the key's scheme and encrypted to the key decrypts.
Opens(contents) == contents[1] = KeyScheme /\ contents[2] \in Readable

\* Read one argument and decrypt it in memory.
Open ==
    /\ pc = "read" /\ Len(texts) < Len(run.args)
    /\ Exists(Argument) /\ Opens(disk[Argument])
    /\ texts' = Append(texts, disk[Argument][2])
    /\ pc' = "write"
    /\ UNCHANGED <<disk, run, result, runs>>

\* It is not there, its scheme is not the key's, or Open rejects it.
OpenFails ==
    /\ pc = "read" /\ Len(texts) < Len(run.args)
    /\ ~(Exists(Argument) /\ Opens(disk[Argument]))
    /\ pc' = "idle" /\ result' = "error"
    /\ UNCHANGED <<disk, run, texts, runs>>

\* Without --force the target must not exist.
TargetExists ==
    /\ pc = "write"
    /\ ~run.force /\ Exists(Target(Len(texts)))
    /\ pc' = "idle" /\ result' = "error"
    /\ UNCHANGED <<disk, run, texts, runs>>

\* Seeded bug: only a file in the input's own directory is looked for.
MayWriteElsewhere == run.force \/ run.output # NoDirectory \/ ~Exists(Target(Len(texts)))

MayWrite == run.force \/ ~Exists(Target(Len(texts)))

WriteTarget ==
    /\ pc = "write" /\ MayWrite
    /\ disk' = Written(Target(Len(texts)), <<"plain", Last(texts)>>)
    /\ pc' = "read"
    /\ UNCHANGED <<run, texts, result, runs>>

\* Seeded bug: a failed write is only logged.
WriteBreaksLogged ==
    /\ pc = "write" /\ MayWrite
    /\ disk' \in {disk, Written(Target(Len(texts)), <<"torn", Last(texts)>>)}
    /\ pc' = "read"
    /\ UNCHANGED <<run, texts, result, runs>>

\* The write fails or the process dies in it, at the latest after truncation;
\* or it fails before that and changes nothing.
WriteBreaks ==
    /\ pc = "write" /\ MayWrite
    /\ disk' \in {disk, Written(Target(Len(texts)), <<"torn", Last(texts)>>)}
    /\ pc' = "idle" /\ result' \in {"error", "killed"}
    /\ UNCHANGED <<run, texts, runs>>

Return ==
    /\ pc = "read" /\ run.args # <<>> /\ Len(texts) = Len(run.args)
    /\ pc' = "idle" /\ result' = "nil"
    /\ UNCHANGED <<disk, run, texts, runs>>

\* Killed, or failed before the first argument (no arguments, no key, no output
\* directory).
Stop ==
    /\ pc = "read"
    /\ pc' = "idle" /\ result' \in IF texts = <<>> THEN {"error", "killed"} ELSE {"killed"}
    /\ UNCHANGED <<disk, run, texts, runs>>

Next ==
    \/ \E r \in Invocations : Start(r)
    \/ Open \/ OpenFails \/ TargetExists \/ WriteTarget \/ WriteBreaks
    \/ Return \/ Stop

Spec == Init /\ [][Next]_vars

-----------------------------------------------------------------------------
(* Properties *)

\* A run that returns nil without --force leaves the plaintext of every one of
\* its arguments where it said it would, whatever earlier runs left there and
\* however the names collide in the output directory.
OutputIsWhole ==
    result = "nil" /\ ~run.force =>
        \A i \in 1 .. Len(run.args) :
            /\ Exists(Target(i))
            /\ disk[Target(i)] = <<"plain", texts[i]>>

\* A run without --force changes no file that exists, be it the user's own, a
\* ciphertext in the target's place, what a failed or forced run left there or
\* what this run has just written under the same name.
UnforcedKeepsFiles ==
    [][~run.force => \A p \in DOMAIN disk : Exists(p)' /\ disk'[p] = disk[p]]_vars

\* No write hits the ciphertext it was made from, not with --force and not with
\* --output naming the inputs' own directory (decryptedPath's fallback suffix).
OwnInputSurvives ==
    [][pc = "write" => disk'[run.args[Len(texts)]] = disk[run.args[Len(texts)]]]_vars
=============================================================================
