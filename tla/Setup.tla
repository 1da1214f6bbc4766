-------------------------------- MODULE Setup --------------------------------
(***************************************************************************)
(* The files a user prepares before a backup and the commands that write   *)
(* them: init (cmd/init.go) the config file, generate-key                  *)
(* (cmd/generate-key.go) the two halves of a key pair.  Every command,     *)
(* these two included, first passes the root Before hook, which loads and  *)
(* validates the config and, with it, the public key file it names.        *)
(* Commands run one at a time and may fail or be killed in any write.      *)
(***************************************************************************)
EXTENDS Naturals

CONSTANTS
    NoFile,       \* what is where no file is
    Torn,         \* what a write that did not end leaves in a key file
    MaxKeys       \* bound: key pairs generated in one history

ASSUME SetupAssumption == /\ MaxKeys \in Nat
                          /\ {NoFile, Torn} \cap Nat = {} /\ NoFile # Torn
                          /\ NoFile \notin {"blank", "cut", "template", "keyed"}

\* Key pairs, age or OpenPGP, numbered in the order they are made.
Keys == 1 .. MaxKeys

\* The config file.  "keyed" names PREFIX.pub in encrypt.public_key_file, the
\* template does not; "blank" has at most comments in it, "cut" is a part of the
\* template that does not decode or validate.
Configs == {NoFile, "blank", "cut", "template", "keyed"}

Commands == [name: {"init", "generate-key", "backup"},
             force: BOOLEAN,
             named: BOOLEAN]  \* --config or its environment variable is given

VARIABLES
    config, private, public,  \* the files
    command,                  \* the command that runs or ran last
    pc,                       \* where it is
    result,                   \* how the last command ended
    generated,                \* key pairs generated so far
    forced,                   \* some command had --force (history)
    sealedTo                  \* keys some backup was encrypted to (history)

vars == <<config, private, public, command, pc, result, generated, forced, sealedTo>>
files == <<config, private, public>>

TypeOK ==
    /\ config \in Configs
    /\ {private, public} \subseteq Keys \cup {NoFile, Torn}
    /\ command \in Commands
    /\ pc \in {"idle", "before", "action", "fill config", "write private",
               "fill private", "write public", "fill public"}
    /\ result \in {"none", "nil", "refused", "exists", "error", "killed", "panic"}
    /\ generated \in 0 .. MaxKeys
    /\ forced \in BOOLEAN
    /\ sealedTo \subseteq Keys

Init ==
    /\ config = NoFile /\ private = NoFile /\ public = NoFile
    /\ command \in Commands
    /\ pc = "idle" /\ result = "none"
    /\ generated = 0 /\ forced = FALSE /\ sealedTo = {}

Return(how) == pc' = "idle" /\ result' = how

-----------------------------------------------------------------------------
(* The user, between commands. *)

Invoke(c) ==
    /\ pc = "idle"
    /\ pc' = "before" /\ command' = c /\ result' = "none"
    /\ forced' = (forced \/ c.force)
    /\ UNCHANGED <<files, generated, sealedTo>>

\* Fill in the template, with or without the key.
EditConfig ==
    /\ pc = "idle" /\ config \in {"template", "keyed"}
    /\ config' \in {"template", "keyed"}
    /\ result' = "none"
    /\ UNCHANGED <<private, public, command, pc, generated, sealedTo, forced>>

DeleteConfig ==
    /\ pc = "idle" /\ config # NoFile
    /\ config' = NoFile
    /\ result' = "none"
    /\ UNCHANGED <<private, public, command, pc, generated, sealedTo, forced>>

-----------------------------------------------------------------------------
(* checkConfig. *)

\* Seeded bug: whatever is in the file passes for a key.
AnyPublicKey(file) == file # NoFile

\* validatePublicKey, which is NewEncryptor, on the contents of a key file.
UsablePublicKey(file) == file \in Keys

ConfigLoads ==
    \/ config = NoFile /\ ~command.named
    \/ config = "template"
    \/ config = "keyed" /\ UsablePublicKey(public)

Continue ==
    /\ pc = "before" /\ ConfigLoads
    /\ pc' = "action"
    /\ UNCHANGED <<files, command, result, generated, sealedTo, forced>>

RefuseConfig ==
    /\ pc = "before"
    /\ \/ config = NoFile /\ command.named
       \/ config = "cut"
       \/ config = "keyed" /\ ~UsablePublicKey(public)
    /\ Return("refused")
    /\ UNCHANGED <<files, command, generated, sealedTo, forced>>

\* yaml.Unmarshal finds no document and leaves ConfigFile.Config nil, on which
\* LoadConfigFile calls Validate.
PanicOnBlankConfig ==
    /\ pc = "before" /\ config = "blank"
    /\ Return("panic")
    /\ UNCHANGED <<files, command, generated, sealedTo, forced>>

-----------------------------------------------------------------------------
(* init *)

InitExists ==
    /\ pc = "action" /\ command.name = "init"
    /\ config # NoFile /\ ~command.force
    /\ Return("exists")
    /\ UNCHANGED <<files, command, generated, sealedTo, forced>>

\* os.WriteFile truncates, then writes.
TruncateConfig ==
    /\ pc = "action" /\ command.name = "init"
    /\ config = NoFile \/ command.force
    /\ config' = "blank" /\ pc' = "fill config"
    /\ UNCHANGED <<private, public, command, result, generated, sealedTo, forced>>

FillConfig ==
    /\ pc = "fill config"
    /\ config' = "template" /\ Return("nil")
    /\ UNCHANGED <<private, public, command, generated, sealedTo, forced>>

TearConfig ==
    /\ pc = "fill config"
    /\ config' \in {"blank", "cut", "template"}
    /\ \E how \in {"error", "killed"} : Return(how)
    /\ UNCHANGED <<private, public, command, generated, sealedTo, forced>>

-----------------------------------------------------------------------------
(* generate-key *)

KeyExists ==
    /\ pc = "action" /\ command.name = "generate-key"
    /\ ~command.force
    /\ private # NoFile \/ public # NoFile
    /\ Return("exists")
    /\ UNCHANGED <<files, command, generated, sealedTo, forced>>

\* Seeded bug: only the public half is looked for.
MayGenerateUnlessPublic ==
    /\ pc = "action" /\ command.name = "generate-key"
    /\ generated < MaxKeys
    /\ command.force \/ public = NoFile

MayGenerate ==
    /\ pc = "action" /\ command.name = "generate-key"
    /\ generated < MaxKeys
    /\ command.force \/ (private = NoFile /\ public = NoFile)

\* Seeded bug: the public half is written first.
GeneratePublicFirst ==
    /\ MayGenerate
    /\ generated' = generated + 1
    /\ public' = generated'
    /\ pc' = "write private"
    /\ UNCHANGED <<config, private, command, result, sealedTo, forced>>

\* Both halves are made in memory before anything is written.
Generate ==
    /\ MayGenerate
    /\ generated' = generated + 1
    /\ pc' = "write private"
    /\ UNCHANGED <<files, command, result, sealedTo, forced>>

\* writeKeyFile truncates, then writes.
TruncatePrivate ==
    /\ pc = "write private"
    /\ private' = Torn /\ pc' = "fill private"
    /\ UNCHANGED <<config, public, command, result, generated, sealedTo, forced>>

FillPrivate ==
    /\ pc = "fill private"
    /\ private' = generated /\ pc' = "write public"
    /\ UNCHANGED <<config, public, command, result, generated, sealedTo, forced>>

TruncatePublic ==
    /\ pc = "write public"
    /\ public' = Torn /\ pc' = "fill public"
    /\ UNCHANGED <<config, private, command, result, generated, sealedTo, forced>>

FillPublic ==
    /\ pc = "fill public"
    /\ public' = generated /\ Return("nil")
    /\ UNCHANGED <<config, private, command, generated, sealedTo, forced>>

\* Seeded bug: a failed write is only logged.
LoseWriteError ==
    /\ pc \in {"fill private", "fill public"}
    /\ pc' = (IF pc = "fill private" THEN "write public" ELSE "idle")
    /\ result' = (IF pc = "fill private" THEN result ELSE "nil")
    /\ UNCHANGED <<files, command, generated, sealedTo, forced>>

\* Creating or writing either file fails.
WriteFails ==
    /\ pc \in {"write private", "fill private", "write public", "fill public"}
    /\ Return("error")
    /\ UNCHANGED <<files, command, generated, sealedTo, forced>>

-----------------------------------------------------------------------------
(* backup, as far as it uses these files, and how any command can end. *)

Backup ==
    /\ pc = "action" /\ command.name = "backup"
    /\ sealedTo' = IF config = "keyed" THEN sealedTo \cup {public} ELSE sealedTo
    /\ Return("nil")
    /\ UNCHANGED <<files, command, generated, forced>>

\* The command gives up before it changes a file: a file that cannot be looked at,
\* an unknown key type, a directory that cannot be made, a backup that fails.
CommandFails ==
    /\ pc = "action"
    /\ Return("error")
    /\ UNCHANGED <<files, command, generated, sealedTo, forced>>

Kill ==
    /\ pc # "idle"
    /\ Return("killed")
    /\ UNCHANGED <<files, command, generated, sealedTo, forced>>

Next ==
    \/ \E c \in Commands : Invoke(c)
    \/ EditConfig \/ DeleteConfig
    \/ Continue \/ RefuseConfig \/ PanicOnBlankConfig
    \/ InitExists \/ TruncateConfig \/ FillConfig \/ TearConfig
    \/ KeyExists \/ Generate
    \/ TruncatePrivate \/ FillPrivate \/ TruncatePublic \/ FillPublic \/ WriteFails
    \/ Backup \/ CommandFails \/ Kill

Spec == Init /\ [][Next]_vars

-----------------------------------------------------------------------------
(* Properties *)

\* generate-key returns nil only with both halves of the pair it made on disk,
\* whatever was there before and whatever failed on the way.
GeneratedIsAPair ==
    command.name = "generate-key" /\ result = "nil" =>
        private = generated /\ public = generated

\* Until a command is given --force, everything ever encrypted to a public key
\* can be read with the private key on disk: the order in which generate-key
\* checks and writes the halves never leaves a public key without its private one.
BackupsCanBeRead == ~forced => sealedTo \subseteq {private}

\* A command without --force replaces neither a config nor a key that an earlier
\* one left, whole or not, even when others force (init.go, generate-key.go).
UnforcedKeepsFiles ==
    [][~command.force /\ pc # "idle" =>
        /\ config' # config => config = NoFile \/ pc = "fill config"
        /\ private' # private => private = NoFile \/ pc = "fill private"
        /\ public' # public => public = NoFile \/ pc = "fill public"]_vars

\* "A file that exists but cannot be read, parsed, version-dispatched or
\* validated returns an error" (LoadedConfig, cmd/config.go).
UnusableConfigIsAnError == result # "panic"
=============================================================================
