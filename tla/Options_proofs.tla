---------------------------- MODULE Options_proofs ----------------------------
(***************************************************************************)
(* What the run of Options shows for one flag at a time on the command line *)
(* and in the environment, for any number of them.                         *)
(***************************************************************************)
EXTENDS Options, FiniteSetTheorems, TLAPS

LEMMA OverIs ==
    ASSUME NEW first, NEW second
    PROVE  /\ DOMAIN Over(first, second) = DOMAIN first \cup DOMAIN second
           /\ \A x \in DOMAIN first : Over(first, second)[x] = first[x]
           /\ \A x \in DOMAIN second \ DOMAIN first : Over(first, second)[x] = second[x]
BY DEF Over

LEMMA ValuesAre ==
    /\ DOMAIN Values = {"connection", "encryption", "storage"}
    /\ DOMAIN Values["connection"] = {"server", "username", "tls"}
    /\ DOMAIN Values["encryption"] = KeyFlags \cup {"public_key_server"}
    /\ DOMAIN Values["storage"] = Sinks \cup {"access_key", "secret_key"}
    /\ Values["connection"]["tls"] = {"none", "starttls", "ssl", "bogus"}
    /\ \A g \in DOMAIN Values : \A f \in DOMAIN Values[g] : Nil \notin Values[g][f]
<1>1. /\ DOMAIN Values = {"connection", "encryption", "storage"}
      /\ DOMAIN Values["connection"] = {"server", "username", "tls"}
      /\ DOMAIN Values["encryption"] = KeyFlags \cup {"public_key_server"}
      /\ DOMAIN Values["storage"] = Sinks \cup {"access_key", "secret_key"}
      /\ Values["connection"]["tls"] = {"none", "starttls", "ssl", "bogus"}
    BY DEF Values, KeyFlags, Sinks
<1>2. \A f \in DOMAIN Values["connection"] : Nil \notin Values["connection"][f]
    BY DEF Values, Nil
<1>3. \A f \in DOMAIN Values["encryption"] : Nil \notin Values["encryption"][f]
  <2>1. /\ Values["encryption"]["public_key_file"] = {"key.pub"}
        /\ Values["encryption"]["public_key_string"] = {"age1", "pem"}
        /\ Values["encryption"]["public_key_fingerprint"] = {"full", "short"}
        /\ Values["encryption"]["public_key_server"] = {"keys.example", "keys example"}
      BY DEF Values
  <2>2. Nil \notin {"key.pub", "age1", "pem", "full", "short", "keys.example", "keys example"}
      BY DEF Nil
  <2>3. ASSUME NEW f \in {"public_key_file", "public_key_string", "public_key_fingerprint",
                          "public_key_server"}
        PROVE  Nil \notin Values["encryption"][f]
      BY <2>1, <2>2, <2>3
  <2> QED
      BY <1>1, <2>3 DEF KeyFlags
<1>4. \A f \in DOMAIN Values["storage"] : Nil \notin Values["storage"][f]
    BY DEF Values, Nil
<1> QED
    BY <1>1, <1>2, <1>3, <1>4

LEMMA FlagsAre ==
    Flags = {"server", "username", "tls", "public_key_server", "access_key", "secret_key"}
            \cup KeyFlags \cup Sinks
BY ValuesAre DEF Flags

\* No field but those of the three destinations can be a missing block.
LEMMA FieldValuesAre ==
    /\ FieldValues("tls") = {"", " ", "none", "starttls", "ssl", "bogus"}
    /\ \A f \in Flags \ (Sinks \cup {"server"}) : Nil \notin FieldValues(f)
<1>1. FieldValues("tls") = {"", " ", "none", "starttls", "ssl", "bogus"}
  <2>1. Written("tls") = Values["connection"]["tls"]
    <3>1. \A g \in DOMAIN Values : "tls" \in DOMAIN Values[g] <=> g = "connection"
        BY ValuesAre DEF KeyFlags, Sinks
    <3>2. "connection" \in DOMAIN Values
        BY ValuesAre
    <3> QED
        BY <3>1, <3>2 DEF Written
  <2>2. FieldValues("tls") = Written("tls") \cup {""} \cup {" "} \cup {}
      BY DEF FieldValues, Sinks
  <2> QED
      BY <2>1, <2>2, ValuesAre
<1>2. ASSUME NEW f \in Flags \ (Sinks \cup {"server", "tls"})
      PROVE  Nil \notin FieldValues(f)
  <2>1. Nil \notin Written(f)
      BY ValuesAre DEF Written
  <2> QED
      BY <1>2, <2>1 DEF FieldValues, Nil
<1> QED
    BY <1>1, <1>2, FlagsAre DEF Nil

\* The config most flags are left to.
LEMMA UsualConfigIs ==
    /\ DOMAIN UsualConfig = {"host", "port"} \cup (Flags \ {"server"})
    /\ UsualConfig["tls"] = ""
    /\ \A f \in Flags \ (Sinks \cup {"server"}) : UsualConfig[f] # Nil
<1> DEFINE usual == [f \in Flags \ {"server"} |->
                       CASE f = "username" -> "owner" [] f = "directory" -> "mail"
                         [] f \in {"bucket", "tar"} -> Nil [] OTHER -> ""]
<1>1. UsualConfig = Over(UsualAddress, usual)
    BY DEF UsualConfig
<1>2. DOMAIN usual = Flags \ {"server"}
    OBVIOUS
<1>3. DOMAIN UsualAddress = {"host", "port"}
    BY DEF UsualAddress
<1>4. Flags \cap {"host", "port"} = {} /\ "tls" \in Flags
    BY FlagsAre DEF KeyFlags, Sinks
<1>5. usual["tls"] = ""
    BY <1>4
<1>6. \A f \in Flags \ (Sinks \cup {"server"}) : usual[f] # Nil
    BY DEF Nil, Sinks
<1> HIDE DEF usual
<1>7. DOMAIN UsualConfig = {"host", "port"} \cup (Flags \ {"server"})
    BY <1>1, <1>2, <1>3, OverIs
<1>8. \A f \in Flags \ {"server"} : UsualConfig[f] = usual[f]
  <2>1. \A f \in DOMAIN usual \ DOMAIN UsualAddress : Over(UsualAddress, usual)[f] = usual[f]
      BY OverIs
  <2> QED
      BY <1>1, <1>2, <1>3, <1>4, <2>1
<1> QED
    BY <1>4, <1>5, <1>6, <1>7, <1>8

LEMMA AddressesAre == \A g : \A address \in Addresses(g) : DOMAIN address = {"host", "port"}
<1>1. ASSUME NEW g
      PROVE  Addresses(g) \in {{UsualAddress}, [host : Hosts, port : Ports]}
    BY DEF Addresses
<1>2. DOMAIN UsualAddress = {"host", "port"}
    BY DEF UsualAddress
<1>3. \A address \in [host : Hosts, port : Ports] : DOMAIN address = {"host", "port"}
    OBVIOUS
<1> QED
    BY <1>1, <1>2, <1>3

LEMMA ConfigIsNoNil ==
    ASSUME NEW g \in DOMAIN Values, NEW c \in ConfigsOf(g)
    PROVE  /\ DOMAIN c = DOMAIN UsualConfig
           /\ c["tls"] \in FieldValues("tls")
           /\ \A f \in Flags \ (Sinks \cup {"server"}) : c[f] # Nil
<1>1. PICK fields, address :
        /\ c = Over(fields, Over(address, UsualConfig))
        /\ DOMAIN fields = FieldsOf(g) /\ \A f \in FieldsOf(g) : fields[f] \in FieldValues(f)
        /\ DOMAIN address = {"host", "port"}
  <2>1. PICK fields \in FieldsIn(g), address \in Addresses(g) :
          c = Over(fields, Over(address, UsualConfig))
      BY DEF ConfigsOf
  <2>2. DOMAIN fields = FieldsOf(g)
    <3> DEFINE values == UNION {FieldValues(f) : f \in FieldsOf(g)}
    <3>1. fields \in [FieldsOf(g) -> values]
        BY DEF FieldsIn
    <3> HIDE DEF values
    <3> QED
        BY <3>1
  <2>3. \A f \in FieldsOf(g) : fields[f] \in FieldValues(f)
      BY DEF FieldsIn
  <2>4. DOMAIN address = {"host", "port"}
      BY AddressesAre
  <2> QED
      BY <2>1, <2>2, <2>3, <2>4
<1>2. FieldsOf(g) \subseteq Flags \ {"server"}
    BY DEF FieldsOf, Flags
<1>3. Flags \cap {"host", "port"} = {} /\ "tls" \in Flags \ {"server"}
    BY FlagsAre DEF KeyFlags, Sinks
<1>4. /\ DOMAIN Over(address, UsualConfig) = DOMAIN UsualConfig
      /\ \A f \in Flags \ {"server"} : Over(address, UsualConfig)[f] = UsualConfig[f]
  <2>1. DOMAIN Over(address, UsualConfig) = DOMAIN address \cup DOMAIN UsualConfig
      BY OverIs
  <2>2. \A f \in DOMAIN UsualConfig \ DOMAIN address : Over(address, UsualConfig)[f] = UsualConfig[f]
      BY OverIs
  <2> QED
      BY <1>1, <1>3, <2>1, <2>2, UsualConfigIs
<1> DEFINE rest == Over(address, UsualConfig)
<1>5. /\ DOMAIN c = DOMAIN UsualConfig
      /\ \A f \in FieldsOf(g) : c[f] = fields[f]
      /\ \A f \in Flags \ (FieldsOf(g) \cup {"server"}) : c[f] = UsualConfig[f]
  <2> HIDE DEF rest
  <2>1. /\ DOMAIN Over(fields, rest) = DOMAIN fields \cup DOMAIN rest
        /\ \A f \in DOMAIN fields : Over(fields, rest)[f] = fields[f]
        /\ \A f \in DOMAIN rest \ DOMAIN fields : Over(fields, rest)[f] = rest[f]
      BY OverIs
  <2>2. /\ c = Over(fields, rest) /\ DOMAIN rest = DOMAIN UsualConfig
        /\ \A f \in Flags \ {"server"} : rest[f] = UsualConfig[f]
      BY <1>1, <1>4 DEF rest
  <2> QED
      BY <1>1, <1>2, <2>1, <2>2, UsualConfigIs
<1>6. CASE "tls" \in FieldsOf(g)
    BY <1>1, <1>5, <1>6, FieldValuesAre, UsualConfigIs
<1>7. CASE "tls" \notin FieldsOf(g)
    BY <1>1, <1>3, <1>5, <1>7, FieldValuesAre, UsualConfigIs
<1> QED
    BY <1>6, <1>7

LEMMA GivenAre ==
    ASSUME NEW g \in DOMAIN Values, NEW c \in GivenIn(g)
    PROVE  /\ DOMAIN c \subseteq Flags
           /\ "tls" \in DOMAIN c => c["tls"] \in {"", "none", "starttls", "ssl", "bogus"}
<1>1. DOMAIN c \subseteq DOMAIN Values[g] /\ \A f \in DOMAIN c : c[f] \in Values[g][f] \cup {""}
  <2>1. PICK fs \in SUBSET DOMAIN Values[g] :
          /\ c \in [fs -> UNION {Values[g][f] \cup {""} : f \in fs}]
          /\ \A f \in fs : c[f] \in Values[g][f] \cup {""}
      BY DEF GivenIn
  <2> QED
      BY <2>1
<1>2. DOMAIN c \subseteq Flags
    BY <1>1 DEF Flags
<1>3. "tls" \in DOMAIN c => g = "connection"
    BY <1>1, ValuesAre DEF KeyFlags, Sinks
<1> QED
    BY <1>1, <1>2, <1>3, ValuesAre

-----------------------------------------------------------------------------
(* The inductive invariant: what a history may say, what a config that was  *)
(* accepted is known to hold whatever becomes of the key file, and what was *)
(* built so far, said of the values in force.                               *)

Modes == {"", "none", "starttls", "ssl", "bogus"}

InputsInv ==
    /\ DOMAIN args \subseteq Flags /\ ("tls" \in DOMAIN args => args["tls"] \in Modes)
    /\ DOMAIN env \subseteq Flags /\ ("tls" \in DOMAIN env => env["tls"] \in Modes)
    /\ config # NoConfig =>
          /\ DOMAIN config = DOMAIN UsualConfig
          /\ config["tls"] \in Modes \cup {" "}
          /\ \A f \in Flags \ (Sinks \cup {"server"}) : config[f] # Nil

AcceptedInv ==
    config # NoConfig /\ pc \notin {"before", "failed"} =>
        /\ config["host"] # "" /\ config["username"] # "" /\ ValidTLS(config["tls"])
        /\ Cardinality(KeysIn(config)) <= 1
        /\ config["public_key_string"] # "" => UsableKey(config["public_key_string"])
        /\ config["public_key_fingerprint"] # "short"
        /\ ValidSave(config)

CryptInv ==
    /\ crypt \in {"nothing", "plain"} \cup KeyFlags
    /\ pc \in {"before", "fetcher", "transformer"} => crypt = "nothing"
    /\ pc = "sink" => crypt # "nothing"
    /\ crypt = "plain" => KeysIn(InForce) = {}
    /\ crypt \in KeyFlags => KeysIn(InForce) = {crypt}

SinksInv ==
    /\ pc # "ready" => sinks = {}
    /\ pc = "ready" /\ command = "backup" => crypt # "nothing" /\ sinks = Wanted

DialInv ==
    dialled # <<>> =>
        ValidTLS(InForce["tls"]) /\ dialled[1] = DialMode(TLSAliases[InForce["tls"]])

\* A builder that refused the settings of an accepted config alone.
BlameInv == (blame = "settings" => pc = "failed") /\ AcceptedConfigBuilds

Inv == TypeOK /\ InputsInv /\ AcceptedInv /\ CryptInv /\ SinksInv /\ DialInv /\ BlameInv

-----------------------------------------------------------------------------
(* The value in force. *)

LEMMA LookupIs ==
    /\ DOMAIN Lookup \subseteq Flags
    /\ \A f \in Flags : f \in DOMAIN Lookup <=> config # NoConfig /\ FieldFor(f) \notin {"", Nil}
    /\ \A f \in DOMAIN Lookup \ {"tls"} : Lookup[f] = FieldFor(f)
    /\ "tls" \in DOMAIN Lookup =>
          Lookup["tls"] = IF ValidTLS(FieldFor("tls")) THEN TLSAliases[FieldFor("tls")]
                          ELSE FieldFor("tls")
<1>1. CASE config = NoConfig
    BY <1>1 DEF Lookup
<1>2. CASE config # NoConfig
    BY <1>2 DEF Lookup
<1> QED
    BY <1>1, <1>2

LEMMA DefaultsAre ==
    /\ DOMAIN Defaults = Flags
    /\ \A f \in Flags \ {"tls", "public_key_server"} : Defaults[f] = ""
    /\ Defaults["tls"] = "SSL"
BY FlagsAre DEF Defaults

\* Where the value in force comes from.
LEMMA InForceIs ==
    ASSUME InputsInv
    PROVE  /\ DOMAIN InForce = Flags
           /\ \A f \in DOMAIN args : InForce[f] = args[f]
           /\ \A f \in DOMAIN env \ DOMAIN args : InForce[f] = env[f]
           /\ \A f \in Flags : Untouched(f) =>
                 InForce[f] = IF f \in DOMAIN Lookup THEN Lookup[f] ELSE Defaults[f]
<1> DEFINE low == Over(Lookup, Defaults)
           mid == Over(env, low)
<1>1. /\ DOMAIN low = Flags
      /\ \A f \in Flags : low[f] = IF f \in DOMAIN Lookup THEN Lookup[f] ELSE Defaults[f]
  <2>1. /\ DOMAIN low = DOMAIN Lookup \cup DOMAIN Defaults
        /\ \A f \in DOMAIN Lookup : low[f] = Lookup[f]
        /\ \A f \in DOMAIN Defaults \ DOMAIN Lookup : low[f] = Defaults[f]
      BY OverIs
  <2> HIDE DEF low
  <2> QED
      BY <2>1, LookupIs, DefaultsAre
<1>2. /\ DOMAIN mid = Flags
      /\ \A f \in Flags : mid[f] = IF f \in DOMAIN env THEN env[f] ELSE low[f]
  <2> HIDE DEF low
  <2>1. /\ DOMAIN mid = DOMAIN env \cup DOMAIN low
        /\ \A f \in DOMAIN env : mid[f] = env[f]
        /\ \A f \in DOMAIN low \ DOMAIN env : mid[f] = low[f]
      BY OverIs
  <2> HIDE DEF mid
  <2> QED
      BY <1>1, <2>1 DEF InputsInv
<1> HIDE DEF low
<1>3. /\ DOMAIN InForce = DOMAIN args \cup DOMAIN mid
      /\ \A f \in DOMAIN args : InForce[f] = args[f]
      /\ \A f \in DOMAIN mid \ DOMAIN args : InForce[f] = mid[f]
  <2>1. InForce = Over(args, mid)
      BY DEF InForce, low
  <2>2. /\ DOMAIN Over(args, mid) = DOMAIN args \cup DOMAIN mid
        /\ \A f \in DOMAIN args : Over(args, mid)[f] = args[f]
        /\ \A f \in DOMAIN mid \ DOMAIN args : Over(args, mid)[f] = mid[f]
      BY OverIs
  <2> HIDE DEF mid
  <2> QED
      BY <2>1, <2>2
<1> HIDE DEF mid
<1> QED
    BY <1>1, <1>2, <1>3 DEF InputsInv, Untouched

\* A field that is empty by default: what the config file leaves of it.
LEMMA LeftToConfig ==
    ASSUME InputsInv, NEW f \in Flags \ {"tls", "server", "public_key_server"}, Untouched(f)
    PROVE  /\ config = NoConfig => InForce[f] = ""
           /\ config # NoConfig =>
                 InForce[f] = IF FieldFor(f) = Nil THEN "" ELSE FieldFor(f)
BY InForceIs, LookupIs, DefaultsAre

\* A step leaves the values in force alone.
LEMMA InForceStable ==
    UNCHANGED inputs => /\ InForce' = InForce /\ KeysIn(InForce)' = KeysIn(InForce)
                        /\ Wanted' = Wanted /\ (InputsInv => InputsInv')
BY DEF inputs, InForce, Lookup, FieldFor, KeysIn, Wanted, InputsInv

-----------------------------------------------------------------------------
(* The invariant holds. *)

LEMMA InitInv == Init => Inv
<1> SUFFICES ASSUME Init PROVE Inv
    OBVIOUS
<1>1. PICK g \in Groups : args \in GivenIn(g) /\ env \in GivenIn(g)
                         /\ config \in ConfigsOf(g) \cup {NoConfig}
    BY DEF Init
<1>2. g \in DOMAIN Values
    BY OptionsAssumption
<1>3. InputsInv
  <2>1. config # NoConfig => config \in ConfigsOf(g)
      BY <1>1
  <2> QED
      BY <1>1, <1>2, <2>1, GivenAre, ConfigIsNoNil, FieldValuesAre DEF InputsInv, Modes
<1>4. /\ pc = "before" /\ dialled = <<>> /\ crypt = "nothing" /\ sinks = {}
      /\ command \in {"backup", "login"} /\ keyFile = "key" /\ blame = "none"
    BY DEF Init
<1> QED
    BY <1>3, <1>4
    DEF Inv, TypeOK, InputsInv, AcceptedInv, CryptInv, SinksInv, DialInv, BlameInv,
        AcceptedConfigBuilds, KeyFlags

LEMMA NextInputs ==
    Next \/ UNCHANGED vars => UNCHANGED inputs
BY DEF Next, vars, inputs, AcceptConfig, RejectConfig, ReplaceKeyFile, BuildFetcher,
       FetcherRefuses, FetcherFails, Encrypt, PassThrough, TransformerRefuses, TransformerFails,
       BuildSink, SinkRefuses, SinkFails, Fail

\* The steps on which the command gives up.
Stops == RejectConfig \/ FetcherRefuses \/ FetcherFails \/ TransformerRefuses \/ TransformerFails
         \/ SinkRefuses \/ SinkFails

LEMMA StopsFail ==
    Stops => pc # "ready" /\ \E cause \in {"config", "settings", "world"} : Fail(cause)
BY DEF Stops, RejectConfig, FetcherRefuses, FetcherFails, TransformerRefuses, TransformerFails,
       SinkRefuses, SinkFails

LEMMA NextIs ==
    ASSUME [Next]_vars
    PROVE  \/ AcceptConfig \/ ReplaceKeyFile \/ BuildFetcher \/ Encrypt \/ PassThrough \/ BuildSink
           \/ Stops \/ UNCHANGED vars
BY DEF Next, Stops

LEMMA NextType ==
    ASSUME Inv, [Next]_vars
    PROVE  TypeOK'
<1> USE DEF Inv, TypeOK, inputs
<1>1. CASE AcceptConfig
    BY <1>1 DEF AcceptConfig
<1>2. CASE Stops
    BY <1>2, StopsFail DEF Fail
<1>3. CASE ReplaceKeyFile
    BY <1>3 DEF ReplaceKeyFile
<1>4. CASE BuildFetcher
    BY <1>4 DEF BuildFetcher
<1>5. CASE Encrypt \/ PassThrough
    BY <1>5 DEF Encrypt, PassThrough
<1>6. CASE BuildSink
    BY <1>6 DEF BuildSink, Wanted
<1>7. CASE UNCHANGED vars
    BY <1>7 DEF vars
<1> QED
    BY <1>1, <1>2, <1>3, <1>4, <1>5, <1>6, <1>7, NextIs

\* What Validate found stays true: it is said of the config file alone.
LEMMA NextAccepted ==
    ASSUME Inv, [Next]_vars
    PROVE  AcceptedInv'
<1>1. config' = config
    BY NextInputs DEF inputs
<1>2. CASE AcceptConfig
  <2>1. config # NoConfig =>
          /\ config["host"] # "" /\ config["username"] # "" /\ ValidTLS(config["tls"])
          /\ ValidEncrypt(config) /\ ValidSave(config)
      BY <1>2 DEF AcceptConfig, Validate
  <2> QED
      BY <1>1, <2>1 DEF AcceptedInv, ValidEncrypt, KeysIn, ValidSave
<1>3. CASE ~AcceptConfig
  <2>1. pc' \notin {"before", "failed"} => pc \notin {"before", "failed"}
      BY <1>3, NextIs, StopsFail
      DEF vars, ReplaceKeyFile, BuildFetcher, Encrypt, PassThrough, BuildSink, Fail
  <2> QED
      BY <1>1, <2>1 DEF Inv, AcceptedInv, KeysIn, ValidSave
<1> QED
    BY <1>2, <1>3

LEMMA KeyFlagsFinite == IsFiniteSet(KeyFlags)
<1>1. KeyFlags = (({} \cup {"public_key_file"}) \cup {"public_key_string"})
                 \cup {"public_key_fingerprint"}
    BY DEF KeyFlags
<1> QED
    BY <1>1, FS_EmptySet, FS_AddElement

\* Encrypt finds exactly one key, and uses it.
LEMMA OneKey ==
    ASSUME NEW source, Cardinality(KeysIn(source)) = 1
    PROVE  \A f \in KeysIn(source) : KeysIn(source) = {f}
<1>1. IsFiniteSet(KeyFlags)
    BY KeyFlagsFinite
<1>2. IsFiniteSet(KeysIn(source))
    BY <1>1, FS_Subset DEF KeysIn
<1>3. PICK x : KeysIn(source) = {x}
    BY <1>2, FS_Singleton
<1> QED
    BY <1>3

LEMMA NextCrypt ==
    ASSUME Inv, [Next]_vars
    PROVE  CryptInv'
<1> USE NextInputs, InForceStable DEF Inv, CryptInv
<1>1. CASE AcceptConfig \/ BuildFetcher
    BY <1>1 DEF AcceptConfig, BuildFetcher
<1>2. CASE Stops
    BY <1>2, StopsFail DEF Fail
<1>3. CASE ReplaceKeyFile
    BY <1>3 DEF ReplaceKeyFile
<1>4. CASE Encrypt
  <2>1. pc' = "sink" /\ crypt' \in KeysIn(InForce)
      BY <1>4 DEF Encrypt
  <2>2. KeysIn(InForce) = {crypt'}
      BY <1>4, <2>1, OneKey DEF Encrypt
  <2>3. crypt' \in KeyFlags /\ crypt' \notin {"nothing", "plain"}
      BY <2>1 DEF KeysIn, KeyFlags
  <2> QED
      BY <2>1, <2>2, <2>3, <1>4
<1>5. CASE PassThrough
    BY <1>5 DEF PassThrough, KeyFlags
<1>6. CASE BuildSink
    BY <1>6 DEF BuildSink
<1>7. CASE UNCHANGED vars
    BY <1>7 DEF vars
<1> QED
    BY <1>1, <1>2, <1>3, <1>4, <1>5, <1>6, <1>7, NextIs

LEMMA NextSinks ==
    ASSUME Inv, [Next]_vars
    PROVE  SinksInv'
<1> USE NextInputs, InForceStable DEF Inv, SinksInv, inputs
<1>1. CASE AcceptConfig \/ BuildFetcher
    BY <1>1 DEF AcceptConfig, BuildFetcher, TypeOK
<1>2. CASE Stops
    BY <1>2, StopsFail DEF Fail
<1>3. CASE ReplaceKeyFile
    BY <1>3 DEF ReplaceKeyFile
<1>4. CASE Encrypt \/ PassThrough
    BY <1>4 DEF Encrypt, PassThrough
<1>5. CASE BuildSink
    BY <1>5 DEF BuildSink, CryptInv
<1>6. CASE UNCHANGED vars
    BY <1>6 DEF vars
<1> QED
    BY <1>1, <1>2, <1>3, <1>4, <1>5, <1>6, NextIs

LEMMA NextDial ==
    ASSUME Inv, [Next]_vars
    PROVE  DialInv'
<1>1. UNCHANGED inputs /\ InForce' = InForce
    BY NextInputs, InForceStable
<1>2. CASE BuildFetcher
    BY <1>1, <1>2 DEF BuildFetcher, FetcherSettings, DialInv
<1>3. CASE ~BuildFetcher
  <2>1. dialled' = dialled
      BY <1>3, NextIs, StopsFail
      DEF vars, AcceptConfig, ReplaceKeyFile, Encrypt, PassThrough, BuildSink, Fail
  <2> QED
      BY <1>1, <2>1 DEF Inv, DialInv
<1> QED
    BY <1>2, <1>3

\* A key flag that is given, here or there, is in force.
LEMMA KeyInForce ==
    ASSUME InputsInv
    PROVE  /\ KeysIn(args) \subseteq KeysIn(InForce)
           /\ KeysIn(env) \ DOMAIN args \subseteq KeysIn(InForce)
           /\ \A f \in KeyFlags :
                 config # NoConfig /\ config[f] # "" /\ Untouched(f) => f \in KeysIn(InForce)
<1>1. KeyFlags \subseteq Flags \ ({"tls", "server", "public_key_server"} \cup Sinks)
    BY FlagsAre DEF KeyFlags, Sinks
<1>2. KeysIn(args) \subseteq KeysIn(InForce)
    BY <1>1, InForceIs DEF KeysIn
<1>3. KeysIn(env) \ DOMAIN args \subseteq KeysIn(InForce)
    BY <1>1, InForceIs DEF KeysIn
<1>4. ASSUME NEW f \in KeyFlags, config # NoConfig, config[f] # "", Untouched(f)
      PROVE  f \in KeysIn(InForce)
  <2>1. FieldFor(f) = config[f] /\ config[f] # Nil
      BY <1>1, <1>4 DEF FieldFor, KeyFlags, InputsInv
  <2>2. InForce[f] = config[f]
      BY <1>1, <1>4, <2>1, LeftToConfig
  <2> QED
      BY <1>1, <1>4, <2>2, InForceIs DEF KeysIn
<1> QED
    BY <1>2, <1>3, <1>4

-----------------------------------------------------------------------------
(* A config file on its own: what the builders see of it, and refuse. *)

\* What is left of a destination's field: Nil and the empty value are misses.
LEMMA SinkLeftToConfig ==
    ASSUME InputsInv, config # NoConfig, NEW s \in Sinks, Untouched(s)
    PROVE  s \in Wanted <=> config[s] \notin {"", Nil}
<1>1. s \in Flags \ {"tls", "server", "public_key_server"}
    BY FlagsAre DEF Sinks
<1>2. FieldFor(s) = config[s]
    BY DEF FieldFor, Sinks
<1> QED
    BY <1>1, <1>2, LeftToConfig DEF Wanted, Nil

LEMMA KeysAlone ==
    ASSUME InputsInv, Alone
    PROVE  /\ KeysIn(InForce) = KeysIn(config)
           /\ \A f \in KeysIn(config) : InForce[f] = config[f]
<1>1. /\ KeyFlags \subseteq Flags \ ({"tls", "server", "public_key_server"} \cup Sinks)
      /\ KeyFlags \subseteq DOMAIN config
    BY FlagsAre, UsualConfigIs DEF KeyFlags, Sinks, InputsInv, Alone
<1>2. \A f \in KeyFlags : InForce[f] = config[f]
  <2> SUFFICES ASSUME NEW f \in KeyFlags PROVE InForce[f] = config[f]
      OBVIOUS
  <2>1. FieldFor(f) = config[f] /\ config[f] # Nil
      BY <1>1 DEF FieldFor, KeyFlags, InputsInv, Alone
  <2> QED
      BY <1>1, <2>1, LeftToConfig DEF Alone, Untouched
<1> QED
    BY <1>1, <1>2, InForceIs DEF KeysIn

\* The fetcher of an accepted config refuses a missing port and nothing else.
LEMMA FetcherAlone ==
    ASSUME InputsInv, AcceptedInv, Alone, FetcherRefuses
    PROVE  config["port"] = 0
<1> SUFFICES ASSUME config["port"] # 0 PROVE FALSE
    OBVIOUS
<1>1. config["host"] # "" /\ config["username"] # "" /\ ValidTLS(config["tls"])
    BY DEF AcceptedInv, FetcherRefuses, Alone
<1>2. \A f \in Flags : InForce[f] = IF f \in DOMAIN Lookup THEN Lookup[f] ELSE Defaults[f]
    BY InForceIs DEF Alone, Untouched
<1>3. {"server", "username", "tls"} \subseteq Flags
    BY FlagsAre
<1>4. InForce["server"] = "host:993"
  <2>1. FieldFor("server") = "host:993"
      BY <1>1 DEF FieldFor
  <2> QED
      BY <1>2, <1>3, <2>1, LookupIs DEF Alone, Nil
<1>5. InForce["username"] # ""
  <2>1. FieldFor("username") = config["username"] /\ config["username"] # Nil
      BY <1>3 DEF FieldFor, InputsInv, Alone, Sinks
  <2> QED
      BY <1>1, <1>2, <1>3, <2>1, LookupIs DEF Alone
<1>6. ValidTLS(InForce["tls"])
  <2>1. FieldFor("tls") = config["tls"]
      BY DEF FieldFor
  <2>2. ValidTLS("SSL") /\ \A value : ValidTLS(value) => ValidTLS(TLSAliases[value])
      BY DEF ValidTLS, TLSAliases
  <2> QED
      BY <1>1, <1>2, <1>3, <2>1, <2>2, LookupIs, DefaultsAre
<1> QED
    BY <1>4, <1>5, <1>6 DEF FetcherRefuses, FetcherSettings, HasPort

\* Its transformer refuses a keyserver it can make no URL of.
LEMMA TransformerAlone ==
    ASSUME InputsInv, AcceptedInv, Alone, TransformerRefuses
    PROVE  config["public_key_server"] = "keys example"
<1>1. /\ Cardinality(KeysIn(config)) <= 1
      /\ config["public_key_string"] # "" => UsableKey(config["public_key_string"])
      /\ config["public_key_fingerprint"] # "short"
    BY DEF AcceptedInv, Alone, TransformerRefuses
<1>2. Cardinality(KeysIn(config)) \in Nat
  <2>1. IsFiniteSet(KeyFlags)
      BY KeyFlagsFinite
  <2> QED
      BY <2>1, FS_Subset, FS_CardinalityType DEF KeysIn
<1>3. PICK f \in KeysIn(config) : Hopeless(f)
  <2>1. KeysIn(InForce) = KeysIn(config)
      BY KeysAlone
  <2>2. ~(Cardinality(KeysIn(InForce)) > 1)
    <3> DEFINE n == Cardinality(KeysIn(InForce))
    <3>1. n <= 1 /\ n \in Nat
        BY <1>1, <1>2, <2>1, Zenon
    <3> HIDE DEF n
    <3>2. ~(n > 1)
        BY <3>1
    <3> QED
        BY <3>2 DEF n
  <2>3. \E f \in KeysIn(InForce) : Hopeless(f)
      BY <2>2 DEF TransformerRefuses
  <2> QED
      BY <2>1, <2>3
<1>4. f \in KeyFlags /\ config[f] # "" /\ InForce[f] = config[f]
    BY <1>3, KeysAlone DEF KeysIn
<1>5. f # "public_key_file" /\ \A m \in Material(f) : ~UsableKey(m)
    BY <1>3 DEF Hopeless
<1>6. f # "public_key_string"
    BY <1>1, <1>4, <1>5 DEF Material
<1>7. CASE f = "public_key_fingerprint"
  <2>1. InForce["public_key_server"] = "keys example"
      BY <1>1, <1>4, <1>5, <1>7 DEF Material, UsableKey, ValidKeyServer
  <2>2. "public_key_server" \in Flags /\ FieldFor("public_key_server") = config["public_key_server"]
      BY FlagsAre DEF FieldFor
  <2>3. Defaults["public_key_server"] # "keys example"
      BY <2>2 DEF Defaults
  <2>4. "public_key_server" \in DOMAIN Lookup
      BY <2>1, <2>2, <2>3, InForceIs DEF Alone, Untouched
  <2> QED
      BY <2>1, <2>2, <2>4, InForceIs, LookupIs DEF Alone, Untouched
<1> QED
    BY <1>4, <1>5, <1>6, <1>7 DEF KeyFlags

\* Its sink refuses half a pair of credentials.
LEMMA SinkAlone ==
    ASSUME InputsInv, AcceptedInv, Alone, SinkRefuses
    PROVE  config["bucket"] # Nil /\ (config["access_key"] = "") # (config["secret_key"] = "")
<1>1. ValidSave(config)
    BY DEF AcceptedInv, SinkRefuses, Alone
<1>2. Wanted = {s \in Sinks : config[s] # Nil}
  <2>1. \A s \in Sinks : s \in Wanted <=> config[s] \notin {"", Nil}
      BY SinkLeftToConfig DEF Alone, Untouched
  <2> QED
      BY <1>1, <2>1 DEF Wanted, ValidSave
<1>3. Wanted # {}
    BY <1>1, <1>2 DEF ValidSave
<1>4. "bucket" \in Wanted /\ ~WholeCredentials
    BY <1>3 DEF SinkRefuses, SinkSettings
<1>5. config["bucket"] # Nil
    BY <1>2, <1>4
<1>6. ASSUME NEW f \in {"access_key", "secret_key"}
      PROVE  InForce[f] = config[f]
  <2>1. f \in Flags \ ({"tls", "server", "public_key_server"} \cup Sinks)
      BY FlagsAre DEF Sinks, KeyFlags
  <2>2. FieldFor(f) = config[f] /\ config[f] # Nil
      BY <1>5, <2>1 DEF FieldFor, InputsInv, Alone
  <2> QED
      BY <2>1, <2>2, LeftToConfig DEF Alone, Untouched
<1> QED
    BY <1>4, <1>5, <1>6 DEF WholeCredentials

LEMMA NextBlame ==
    ASSUME Inv, [Next]_vars
    PROVE  BlameInv'
<1>1. UNCHANGED inputs /\ InputsInv /\ AcceptedInv /\ BlameInv
    BY NextInputs DEF Inv
<1>2. CASE ~Stops
  <2>1. blame' = blame /\ (pc = "failed" => pc' = "failed")
      BY <1>2, NextIs DEF vars, AcceptConfig, ReplaceKeyFile, BuildFetcher, Encrypt, PassThrough,
                          BuildSink
  <2> QED
      BY <1>1, <2>1 DEF BlameInv, AcceptedConfigBuilds, Alone, inputs
<1>3. CASE Stops
  <2>1. pc' = "failed"
      BY <1>3, StopsFail DEF Fail
  <2>2. ASSUME Alone, blame' = "settings"
        PROVE  \/ config["port"] = 0
               \/ config["public_key_server"] = "keys example"
               \/ config["bucket"] # Nil
                  /\ (config["access_key"] = "") # (config["secret_key"] = "")
    <3>1. FetcherRefuses \/ TransformerRefuses \/ SinkRefuses
        BY <1>3, <2>2 DEF Stops, RejectConfig, FetcherFails, TransformerFails, SinkFails, Fail
    <3> QED
        BY <1>1, <2>2, <3>1, FetcherAlone, TransformerAlone, SinkAlone
  <2> QED
      BY <1>1, <2>1, <2>2 DEF BlameInv, AcceptedConfigBuilds, Alone, inputs
<1> QED
    BY <1>2, <1>3

LEMMA NextInv == Inv /\ [Next]_vars => Inv'
BY NextType, NextAccepted, NextCrypt, NextSinks, NextDial, NextBlame, NextInputs, InForceStable DEF Inv

LEMMA AlwaysInv == Spec => []Inv
BY InitInv, NextInv, PTL DEF Spec

-----------------------------------------------------------------------------
(* What follows from it. *)

\* TypeOK, for any number of flags and variables: only the three destinations
\* are ever built (buildSink).
THEOREM AlwaysTypeOK == Spec => []TypeOK
<1>1. Inv => TypeOK
    BY DEF Inv
<1> QED
    BY <1>1, AlwaysInv, PTL

\* PlainIsDeliberate, for any number of flags and variables: mail is stored in
\* the clear only if every key there was has been overridden (buildTransformer).
THEOREM PlainAlwaysDeliberate == Spec => []PlainIsDeliberate
<1>1. ASSUME Inv PROVE PlainIsDeliberate
  <2> SUFFICES ASSUME crypt = "plain", NEW f \in KeyFlags
               PROVE  /\ f \in DOMAIN args => args[f] = ""
                      /\ f \in KeysIn(env) => f \in DOMAIN args
                      /\ config # NoConfig /\ config[f] # "" => ~Untouched(f)
      BY DEF PlainIsDeliberate
  <2>1. KeysIn(InForce) = {} /\ InputsInv
      BY <1>1 DEF Inv, CryptInv
  <2>2. f \notin KeysIn(args)
      BY <2>1, KeyInForce
  <2> QED
      BY <2>1, <2>2, KeyInForce DEF KeysIn
<1> QED
    BY <1>1, AlwaysInv, PTL

\* CommandLineKeyIsUsed, for any number of flags and variables: the key of the
\* strongest source is the one the encryptor is built from (flagSources).
THEOREM CommandLineKeyAlwaysUsed == Spec => []CommandLineKeyIsUsed
<1>1. ASSUME Inv PROVE CommandLineKeyIsUsed
  <2> SUFFICES ASSUME crypt # "nothing"
               PROVE  /\ \A f \in KeysIn(args) : crypt = f
                      /\ \A f \in KeysIn(env) : f \in DOMAIN args \/ crypt = f
      BY DEF CommandLineKeyIsUsed
  <2>1. \A f \in KeysIn(InForce) : crypt = f
      BY <1>1 DEF Inv, CryptInv
  <2> QED
      BY <1>1, <2>1, KeyInForce DEF Inv
<1> QED
    BY <1>1, AlwaysInv, PTL

\* ConfigIsFollowed, for any number of flags and variables: the key and every
\* destination of a config that was accepted (Lookup, Validate, the builders).
THEOREM ConfigAlwaysFollowed == Spec => []ConfigIsFollowed
<1>1. ASSUME Inv PROVE ConfigIsFollowed
  <2> SUFFICES ASSUME pc = "ready", command = "backup", config # NoConfig
               PROVE  /\ \A f \in KeysIn(config) : Untouched(f) => crypt = f
                      /\ \A s \in Sinks : config[s] # Nil /\ Untouched(s) => s \in sinks
      BY DEF ConfigIsFollowed
  <2>1. crypt # "nothing" /\ sinks = Wanted /\ ValidSave(config) /\ InputsInv
      BY <1>1 DEF Inv, SinksInv, AcceptedInv
  <2>2. \A f \in KeysIn(InForce) : crypt = f
      BY <1>1, <2>1 DEF Inv, CryptInv
  <2>3. \A f \in KeysIn(config) : Untouched(f) => f \in KeysIn(InForce)
      BY <2>1, KeyInForce DEF KeysIn
  <2> QED
      BY <2>1, <2>2, <2>3, SinkLeftToConfig DEF ValidSave
<1> QED
    BY <1>1, AlwaysInv, PTL

\* NoTLSOnlyWhenAsked, for any number of flags and variables (NormalizeTLS,
\* NewIMAP): only "none" is dialled without TLS.
THEOREM NoTLSAlwaysAsked == Spec => []NoTLSOnlyWhenAsked
<1>1. ASSUME Inv PROVE NoTLSOnlyWhenAsked
  <2> SUFFICES ASSUME dialled # <<>>, dialled[1] = "NONE"
               PROVE  \/ "tls" \in DOMAIN args /\ args["tls"] = "none"
                      \/ "tls" \notin DOMAIN args /\ "tls" \in DOMAIN env /\ env["tls"] = "none"
                      \/ Untouched("tls") /\ config # NoConfig /\ config["tls"] = "none"
      BY DEF NoTLSOnlyWhenAsked
  <2>1. InForce["tls"] \in {"none", "NONE"}
      BY <1>1 DEF Inv, DialInv, DialMode, TLSAliases, ValidTLS
  <2>2. InputsInv /\ "tls" \in Flags
      BY <1>1, FlagsAre DEF Inv
  <2>3. CASE ~Untouched("tls")
      BY <2>1, <2>2, <2>3, InForceIs DEF Untouched, InputsInv, Modes
  <2>4. CASE Untouched("tls")
    <3>1. config # NoConfig /\ "tls" \in DOMAIN Lookup
        BY <2>1, <2>2, <2>4, InForceIs, LookupIs, DefaultsAre
    <3>2. FieldFor("tls") = config["tls"] /\ config["tls"] \in Modes \cup {" "}
        BY <2>2, <3>1 DEF FieldFor, InputsInv
    <3>3. Lookup["tls"] \in {"none", "NONE"}
        BY <2>1, <2>2, <2>4, <3>1, InForceIs
    <3> QED
        BY <2>4, <3>1, <3>2, <3>3, LookupIs DEF Modes, ValidTLS, TLSAliases
  <2> QED
      BY <2>3, <2>4
<1> QED
    BY <1>1, AlwaysInv, PTL

\* AcceptedConfigBuilds, for any number of flags: whatever config file Validate
\* accepts, the builders refuse only for the three settings it lets through
\* (Validate against buildFetcher, buildTransformer and buildSink).
THEOREM AcceptedConfigAlwaysBuilds == Spec => []AcceptedConfigBuilds
<1>1. Inv => AcceptedConfigBuilds
    BY DEF Inv, BlameInv
<1> QED
    BY <1>1, AlwaysInv, PTL
=============================================================================
