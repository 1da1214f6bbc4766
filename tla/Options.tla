------------------------------- MODULE Options -------------------------------
(***************************************************************************)
(* From a command line, an environment and a config file to the three      *)
(* stages of one `backup`, or the first stage of a `login`: the Before hook *)
(* (cmd/config.go, Validate in cmd/configfile.go), the value sources       *)
(* (cmd/flags.go, cmd/config_keys.go), and the builders                    *)
(* (cmd/build_stages.go with NewIMAP, FetchPublicKey and NewS3).  The owner *)
(* may replace the public key file while the command runs.                 *)
(*                                                                         *)
(* A source gives flags values: it is a function on the flags it sets, and *)
(* an empty value is a value.  urfave/cli, which consults the sources, is  *)
(* not part of the repository.                                             *)
(***************************************************************************)
EXTENDS Naturals, FiniteSets

CONSTANTS
    Groups,     \* which flags the histories are about; those of one group vary
    MaxGiven    \* bound: flags given on the command line, and in the environment

\* What an owner may write for each flag of a group.
Values ==
    [connection |-> [server   |-> {"host:143"},
                     username |-> {"me"},
                     tls      |-> {"none", "starttls", "ssl", "bogus"}],
     encryption |-> [public_key_file        |-> {"key.pub"},
                     public_key_string      |-> {"age1", "pem"},
                     public_key_fingerprint |-> {"full", "short"},
                     public_key_server      |-> {"keys.example", "keys example"}],
     storage    |-> [directory  |-> {"mail"},
                     bucket     |-> {"bucket"},
                     access_key |-> {"id"},
                     secret_key |-> {"secret"},
                     tar        |-> {"mail.tar"}]]

ASSUME OptionsAssumption == Groups \subseteq DOMAIN Values /\ MaxGiven \in Nat

Flags    == UNION {DOMAIN Values[g] : g \in DOMAIN Values}
KeyFlags == {"public_key_file", "public_key_string", "public_key_fingerprint"}
Sinks    == {"directory", "bucket", "tar"}

VARIABLES
    command,   \* "backup" or "login"
    args, env, \* the command line and the environment
    config,    \* the config file's fields; NoConfig when there is none
    keyFile,   \* what is at key.pub: "key", "junk" or "missing"
    pc,
    dialled,   \* how the server was reached: TLS mode and address
    crypt,     \* what the messages will be encrypted with
    sinks,     \* the destinations built
    blame      \* history: what a failed start was refused for

vars == <<command, args, env, config, keyFile, pc, dialled, crypt, sinks, blame>>
inputs == <<command, args, env, config>>

\* One source consulted before another.
Over(first, second) ==
    [f \in DOMAIN first \cup DOMAIN second |->
        IF f \in DOMAIN first THEN first[f] ELSE second[f]]

NoConfig == <<>>
Nil      == "nil"    \* a block of the config that is not there

Written(f) == UNION {Values[g][f] : g \in {h \in DOMAIN Values : f \in DOMAIN Values[h]}}

\* A field of a config file may also be empty or blank, a block may be missing.
FieldValues(f) ==
    Written(f) \cup {""} \cup (IF f = "tls" THEN {" "} ELSE {})
               \cup (IF f \in Sinks THEN {Nil} ELSE {})

\* host and port stand for the server; every other field is named as its flag.
UsualAddress == [host |-> "host", port |-> 993]

UsualConfig == Over(UsualAddress, [f \in Flags \ {"server"} |->
    CASE f = "username" -> "owner" [] f = "directory" -> "mail"
      [] f \in {"bucket", "tar"} -> Nil [] OTHER -> ""])

FieldsOf(g) == DOMAIN Values[g] \ {"server"}

FieldsIn(g) == {c \in [FieldsOf(g) -> UNION {FieldValues(f) : f \in FieldsOf(g)}] :
                   \A f \in FieldsOf(g) : c[f] \in FieldValues(f)}

Hosts == {"", "host"}
Ports == {0, 993, 65536}

Addresses(g) == IF g = "connection" THEN [host : Hosts, port : Ports] ELSE {UsualAddress}

ConfigsOf(g) == {Over(fields, Over(address, UsualConfig)) :
                     fields \in FieldsIn(g), address \in Addresses(g)}

GivenIn(g) ==
    UNION {{c \in [fs -> UNION {Values[g][f] \cup {""} : f \in fs}] :
                \A f \in fs : c[f] \in Values[g][f] \cup {""}} :
           fs \in {fs \in SUBSET DOMAIN Values[g] : Cardinality(fs) <= MaxGiven}}

TypeOK ==
    /\ command \in {"backup", "login"}
    /\ DOMAIN args \subseteq Flags /\ DOMAIN env \subseteq Flags
    /\ config # NoConfig => DOMAIN config = DOMAIN UsualConfig
    /\ keyFile \in {"key", "junk", "missing"}
    /\ pc \in {"before", "fetcher", "transformer", "sink", "ready", "failed"}
    /\ sinks \subseteq Sinks
    /\ blame \in {"none", "config", "settings", "world"}

Init ==
    /\ command \in {"backup", "login"}
    /\ \E g \in Groups : args \in GivenIn(g) /\ env \in GivenIn(g)
                         /\ config \in ConfigsOf(g) \cup {NoConfig}
    /\ keyFile = "key"
    /\ pc = "before"
    /\ dialled = <<>> /\ crypt = "nothing" /\ sinks = {} /\ blame = "none"

-----------------------------------------------------------------------------
(* The config file. *)

\* tlsAliases, after trimming and upper-casing.
TLSAliases == [mode \in {"none", "NONE", "starttls", "STARTTLS", "ssl", "SSL", "", " "} |->
    CASE mode \in {"none", "NONE"} -> "NONE" [] mode \in {"starttls", "STARTTLS"} -> "STARTTLS"
      [] mode \in {"ssl", "SSL"} -> "SSL" [] OTHER -> ""]

ValidTLS(value) == value \in DOMAIN TLSAliases

\* validatePublicKey: an age or OpenPGP public key; NewEncryptor refuses others.
UsableKey(material) == material \in {"key", "age1"}

KeysIn(source) == {f \in KeyFlags \cap DOMAIN source : source[f] # ""}

ValidEncrypt(c) ==
    /\ Cardinality(KeysIn(c)) <= 1
    /\ c.public_key_server # "" => c.public_key_fingerprint # ""
    /\ c.public_key_file # "" => UsableKey(keyFile)
    /\ c.public_key_string # "" => UsableKey(c.public_key_string)
    /\ c.public_key_fingerprint # "short"

\* Seeded bug: the empty path of a block is accepted.
ValidSaveAny(c) == \E s \in Sinks : c[s] # Nil

ValidSave(c) == /\ \E s \in Sinks : c[s] # Nil
                /\ \A s \in Sinks : c[s] # ""

ValidPort(n) == n \in 0 .. 65535

Validate(c) ==
    /\ c.host # "" /\ ValidPort(c.port)
    /\ c.username # "" /\ ValidTLS(c.tls)
    /\ ValidEncrypt(c)
    /\ ValidSave(c)

\* An error, for what it is about: the config file as checkConfig finds it, the
\* settings in force, or what they name (a server, a key, AWS, the disk).
Fail(cause) ==
    /\ pc' = "failed" /\ blame' = cause
    /\ UNCHANGED <<inputs, keyFile, dialled, crypt, sinks>>

\* checkConfig: an absent file is no error, and leaves every lookup a miss.
AcceptConfig ==
    /\ pc = "before"
    /\ config # NoConfig => Validate(config)
    /\ pc' = "fetcher"
    /\ UNCHANGED <<inputs, keyFile, dialled, crypt, sinks, blame>>

RejectConfig == pc = "before" /\ config # NoConfig /\ ~Validate(config) /\ Fail("config")

ReplaceKeyFile ==
    /\ pc \notin {"ready", "failed"}
    /\ keyFile' \in {"key", "junk", "missing"}
    /\ UNCHANGED <<inputs, pc, dialled, crypt, sinks, blame>>

-----------------------------------------------------------------------------
(* Where a flag's value comes from. *)

\* What the config file says of a flag: host and port together, a TLS mode in
\* its canonical spelling, nothing from a block that is not there.
FieldFor(f) ==
    CASE f = "server" -> IF config.port = 0 \/ config.host = "" THEN config.host
                         ELSE "host:993"
      [] f \in {"access_key", "secret_key"} /\ config.bucket = Nil -> ""
      [] OTHER -> config[f]

\* ConfigV1.Lookup, in which an empty field is a miss.
Lookup ==
    IF config = NoConfig THEN <<>>
    ELSE [f \in {g \in Flags : FieldFor(g) \notin {"", Nil}} |->
             IF f = "tls" /\ ValidTLS(FieldFor(f)) THEN TLSAliases[FieldFor(f)]
             ELSE FieldFor(f)]

Defaults == [f \in Flags |->
    CASE f = "tls" -> "SSL" [] f = "public_key_server" -> "keys.openpgp.org" [] OTHER -> ""]

\* Seeded bug: the config file is consulted before the environment.
InForceConfigFirst == Over(args, Over(Lookup, Over(env, Defaults)))

\* flagSources: the command line, then the environment, then the config file.
InForce == Over(args, Over(env, Over(Lookup, Defaults)))

-----------------------------------------------------------------------------
(* The builders. *)

\* NewIMAP: any mode but the two others is implicit TLS.
DialMode(mode) == IF mode \in {"STARTTLS", "NONE"} THEN mode ELSE "SSL"

FetcherSettings ==
    ValidTLS(InForce.tls) /\ InForce.server # "" /\ InForce.username # ""

\* The dialler wants host:port; a config's port 0 leaves a bare host.
HasPort == InForce.server # "host"

BuildFetcher ==
    /\ pc = "fetcher" /\ FetcherSettings /\ HasPort
    /\ dialled' = <<DialMode(TLSAliases[InForce.tls]), InForce.server>>
    /\ pc' = IF command = "login" THEN "ready" ELSE "transformer"
    /\ UNCHANGED <<inputs, keyFile, crypt, sinks, blame>>

FetcherRefuses == pc = "fetcher" /\ ~(FetcherSettings /\ HasPort) /\ Fail("settings")

\* A CA file that cannot be used, or a server that will not have us.
FetcherFails == pc = "fetcher" /\ FetcherSettings /\ Fail("world")

\* keyserverLookupURL: a host that makes no URL is refused, none is the default.
ValidKeyServer == InForce.public_key_server # "keys example"

\* What a key flag stands for when the transformer is built.  A keyserver may
\* answer with the key, with another document or not at all.
Material(f) ==
    CASE f = "public_key_file"   -> {keyFile}
      [] f = "public_key_string" -> {InForce[f]}
      [] f = "public_key_fingerprint" ->
             IF InForce[f] # "short" /\ ValidKeyServer
             THEN {"key", "junk", "missing"} ELSE {"missing"}

\* A key no file and no keyserver can make good.
Hopeless(f) == f # "public_key_file" /\ \A m \in Material(f) : ~UsableKey(m)

\* Seeded bug: with several keys the first one is taken.
EncryptWithFirst ==
    /\ pc = "transformer"
    /\ \E f \in KeysIn(InForce) : /\ crypt' = f
                                  /\ \E m \in Material(f) : UsableKey(m)
    /\ pc' = "sink"
    /\ UNCHANGED <<inputs, keyFile, dialled, sinks, blame>>

Encrypt ==
    /\ pc = "transformer" /\ Cardinality(KeysIn(InForce)) = 1
    /\ \E f \in KeysIn(InForce) : /\ crypt' = f
                                  /\ \E m \in Material(f) : UsableKey(m)
    /\ pc' = "sink"
    /\ UNCHANGED <<inputs, keyFile, dialled, sinks, blame>>

\* Seeded bug: a key that cannot be used is taken for no key.
PassThroughUnusable ==
    /\ pc = "transformer"
    /\ \A f \in KeysIn(InForce) : \E m \in Material(f) : ~UsableKey(m)
    /\ crypt' = "plain"
    /\ pc' = "sink"
    /\ UNCHANGED <<inputs, keyFile, dialled, sinks, blame>>

PassThrough ==
    /\ pc = "transformer" /\ KeysIn(InForce) = {}
    /\ crypt' = "plain"
    /\ pc' = "sink"
    /\ UNCHANGED <<inputs, keyFile, dialled, sinks, blame>>

TransformerRefuses ==
    /\ pc = "transformer"
    /\ Cardinality(KeysIn(InForce)) > 1 \/ \E f \in KeysIn(InForce) : Hopeless(f)
    /\ Fail("settings")

\* The key cannot be read or fetched, or is none.
TransformerFails ==
    /\ pc = "transformer" /\ Cardinality(KeysIn(InForce)) = 1
    /\ \E f \in KeysIn(InForce) : ~Hopeless(f) /\ \E m \in Material(f) : ~UsableKey(m)
    /\ Fail("world")

\* NewS3 wants both halves of static credentials, or neither.
WholeCredentials == (InForce.access_key = "") <=> (InForce.secret_key = "")

\* Seeded bug: credentials alone count as a destination.
WantedWithKeys == {f \in DOMAIN Values.storage : InForce[f] # ""}

Wanted == {s \in Sinks : InForce[s] # ""}

SinkSettings == Wanted # {} /\ ("bucket" \in Wanted => WholeCredentials)

\* Seeded bug: the first destination found is the only one built.
BuildOneSink ==
    /\ pc = "sink" /\ SinkSettings
    /\ \E s \in Wanted : sinks' = {s}
    /\ pc' = "ready"
    /\ UNCHANGED <<inputs, keyFile, dialled, crypt, blame>>

BuildSink ==
    /\ pc = "sink" /\ SinkSettings
    /\ sinks' = Wanted
    /\ pc' = "ready"
    /\ UNCHANGED <<inputs, keyFile, dialled, crypt, blame>>

\* Nothing to store to, or half a pair of credentials.
SinkRefuses == pc = "sink" /\ ~SinkSettings /\ Fail("settings")

\* The directory or the archive cannot be made, or the AWS configuration of the
\* machine cannot be loaded.  The directory comes before the credentials.
SinkFails ==
    /\ pc = "sink" /\ ("directory" \in Wanted \/ SinkSettings)
    /\ Fail("world")

Next ==
    \/ AcceptConfig \/ RejectConfig \/ ReplaceKeyFile
    \/ BuildFetcher \/ FetcherRefuses \/ FetcherFails
    \/ Encrypt \/ PassThrough \/ TransformerRefuses \/ TransformerFails
    \/ BuildSink \/ SinkRefuses \/ SinkFails

Spec == Init /\ [][Next]_vars

-----------------------------------------------------------------------------
\* Left to the config file: no flag and no environment variable says otherwise.
Untouched(f) == f \notin DOMAIN args \cup DOMAIN env

\* A backup is stored in the clear only if nobody named a key, or somebody
\* emptied, on the command line or in the environment, the setting that did
\* ("storing mail unencrypted should always be a deliberate choice",
\* documentation/docs/stages/encrypt.md; buildTransformer).
PlainIsDeliberate ==
    crypt = "plain" =>
        \A f \in KeyFlags :
            /\ f \in DOMAIN args => args[f] = ""
            /\ f \in KeysIn(env) => f \in DOMAIN args
            /\ config # NoConfig /\ config[f] # "" => ~Untouched(f)

\* A key given on the command line is the one used, if the backup gets that
\* far: the environment and the config file never replace it (flagSources).
CommandLineKeyIsUsed ==
    crypt # "nothing" =>
        /\ \A f \in KeysIn(args) : crypt = f
        /\ \A f \in KeysIn(env) : f \in DOMAIN args \/ crypt = f

\* What a config file asks for and nobody overrides is what happens: its key
\* and every one of its destinations (Lookup against Validate and the builders).
ConfigIsFollowed ==
    pc = "ready" /\ command = "backup" /\ config # NoConfig =>
        /\ \A f \in KeysIn(config) : Untouched(f) => crypt = f
        /\ \A s \in Sinks : config[s] # Nil /\ Untouched(s) => s \in sinks

\* The command runs on the config file alone.
Alone == config # NoConfig /\ DOMAIN args = {} /\ DOMAIN env = {}

\* A config file that was accepted is not refused for its settings afterwards,
\* once the server, the keyserver and the disk have been waited for: with no
\* flags and no environment only three things Validate lets through stop a
\* builder whatever the server, the key and the machine do: no port, a
\* keyserver that makes no URL, and half a pair of credentials (Validate against
\* buildFetcher, buildTransformer and buildSink).
AcceptedConfigBuilds ==
    blame = "settings" /\ Alone =>
        \/ config.port = 0
        \/ config.public_key_server = "keys example"
        \/ config.bucket # Nil /\ (config.access_key = "") # (config.secret_key = "")

\* The connection goes unencrypted only if the source that decides says so: no
\* blank, alias or empty value ends up as no TLS (NormalizeTLS, NewIMAP).
NoTLSOnlyWhenAsked ==
    dialled # <<>> /\ dialled[1] = "NONE" =>
        \/ "tls" \in DOMAIN args /\ args.tls = "none"
        \/ "tls" \notin DOMAIN args /\ "tls" \in DOMAIN env /\ env.tls = "none"
        \/ Untouched("tls") /\ config # NoConfig /\ config.tls = "none"
=============================================================================
