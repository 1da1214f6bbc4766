---------------------------- MODULE Setup_proofs ----------------------------
(***************************************************************************)
(* What Setup's runs show for a few key pairs, for any number of them.     *)
(***************************************************************************)
EXTENDS Setup, TLAPS

Making == {"write private", "fill private", "write public", "fill public"}

\* generate-key works on a pair of its own, and its private half stays as it was
\* written until the public one is.
PairInv ==
    /\ pc \in Making => generated \in Keys /\ command.name = "generate-key"
    /\ pc \in {"write public", "fill public"} => private = generated
    /\ pc # "idle" => result = "none"
    /\ pc = "fill config" => command.name = "init"
    /\ GeneratedIsAPair

\* The config that let a command pass still holds when it acts.
ConfigInv == pc = "action" /\ config = "keyed" => public \in Keys

\* Until a command is given --force a public key appears once, after its private
\* half, and neither changes again.
CarefulInv ==
    ~forced =>
        /\ pc # "idle" => ~command.force
        /\ pc = "write private" => private = NoFile
        /\ pc \in {"write private", "fill private", "write public"} => public = NoFile
        /\ pc = "fill public" => public = Torn
        /\ public \in Keys => private = public
        /\ sealedTo # {} => public \in Keys
        /\ sealedTo \subseteq {public}

\* Without --force generate-key has checked both places, and writes in order.
UnforcedInv ==
    ~command.force =>
        /\ pc = "write private" => private = NoFile
        /\ pc \in {"write private", "fill private", "write public"} => public = NoFile

Inv == TypeOK /\ PairInv /\ ConfigInv /\ CarefulInv /\ UnforcedInv

LEMMA KeyIsNoMark == NoFile \notin Keys /\ Torn \notin Keys /\ Keys \subseteq Nat
  BY SetupAssumption DEF Keys

\* The number of a new pair is a key's.
LEMMA FreshKey ==
  ASSUME generated \in 0 .. MaxKeys, generated < MaxKeys
  PROVE  generated + 1 \in Keys /\ generated + 1 \in 0 .. MaxKeys
  BY SetupAssumption DEF Keys

LEMMA InitInv == Init => Inv
<1> SUFFICES ASSUME Init PROVE Inv
  OBVIOUS
<1> USE SetupAssumption DEF Init
<1>1. TypeOK
  <2>1. forced \in BOOLEAN
    BY Zenon
  <2> QED
    BY <2>1 DEF TypeOK, Configs
<1>2. PairInv /\ ConfigInv
  BY DEF PairInv, ConfigInv, GeneratedIsAPair, Making
<1>3. CarefulInv /\ UnforcedInv
  BY KeyIsNoMark DEF CarefulInv, UnforcedInv
<1> QED
  BY <1>1, <1>2, <1>3 DEF Inv

\* Every step but the ones of the two commands leaves the parts it could
\* disturb alone; the rest is one case per action.
LEMMA NextInv == Inv /\ [Next]_vars => Inv'
<1> SUFFICES ASSUME Inv, [Next]_vars PROVE Inv'
  OBVIOUS
<1> USE KeyIsNoMark DEF Inv, TypeOK, PairInv, ConfigInv, CarefulInv, UnforcedInv,
                        GeneratedIsAPair, Making, Return, files
<1>1. ASSUME NEW c \in Commands, Invoke(c) PROVE Inv'
  BY <1>1 DEF Invoke, Commands
<1>2. CASE EditConfig
  BY <1>2 DEF EditConfig, Configs
<1>3. CASE DeleteConfig
  BY <1>3 DEF DeleteConfig, Configs
<1>4. CASE Continue
  BY <1>4, SetupAssumption DEF Continue, ConfigLoads, UsablePublicKey
<1>5. CASE RefuseConfig
  BY <1>5 DEF RefuseConfig
<1>6. CASE PanicOnBlankConfig
  BY <1>6 DEF PanicOnBlankConfig
<1>7. CASE InitExists
  BY <1>7 DEF InitExists
<1>8. CASE TruncateConfig
  BY <1>8 DEF TruncateConfig, Configs
<1>9. CASE FillConfig
  BY <1>9 DEF FillConfig, Configs
<1>10. CASE TearConfig
  BY <1>10 DEF TearConfig, Configs
<1>11. CASE KeyExists
  BY <1>11 DEF KeyExists
<1>12. CASE Generate
  <2>1. generated' \in Keys /\ generated' \in 0 .. MaxKeys
    BY <1>12, FreshKey DEF Generate, MayGenerate
  <2>2. /\ pc = "action" /\ pc' = "write private" /\ command.name = "generate-key"
        /\ UNCHANGED <<config, private, public, command, result, sealedTo, forced>>
        /\ command.force \/ (private = NoFile /\ public = NoFile)
    BY <1>12 DEF Generate, MayGenerate
  <2> QED
    BY <2>1, <2>2
<1>13. CASE TruncatePrivate
  BY <1>13 DEF TruncatePrivate
<1>14. CASE FillPrivate
  BY <1>14 DEF FillPrivate
<1>15. CASE TruncatePublic
  BY <1>15 DEF TruncatePublic
<1>16. CASE FillPublic
  BY <1>16 DEF FillPublic
<1>17. CASE WriteFails
  BY <1>17 DEF WriteFails
<1>18. CASE Backup
  BY <1>18 DEF Backup
<1>19. CASE CommandFails
  BY <1>19 DEF CommandFails
<1>20. CASE Kill
  BY <1>20 DEF Kill
<1>21. CASE UNCHANGED vars
  BY <1>21 DEF vars
<1> QED
  BY <1>1, <1>2, <1>3, <1>4, <1>5, <1>6, <1>7, <1>8, <1>9, <1>10, <1>11, <1>12, <1>13,
     <1>14, <1>15, <1>16, <1>17, <1>18, <1>19, <1>20, <1>21 DEF Next

LEMMA AlwaysInv == Spec => []Inv
  BY InitInv, NextInv, PTL DEF Spec

\* Setup is well typed; in particular a backup never encrypts to anything but a
\* key (the Before hook and buildTransformer read the same file).
THEOREM SetupTypeCorrect == Spec => []TypeOK
  BY AlwaysInv, PTL DEF Inv

\* For any number of pairs: what generate-key reports as written is on disk.
THEOREM GeneratedAlwaysAPair == Spec => []GeneratedIsAPair
<1>1. Inv => GeneratedIsAPair
  BY DEF Inv, PairInv
<1> QED
  BY AlwaysInv, <1>1, PTL

\* For any number of pairs and any interruptions: until a command is given --force no backup is
\* encrypted to a key whose private half is not on disk.
THEOREM BackupsAlwaysReadable == Spec => []BackupsCanBeRead
<1>1. Inv => BackupsCanBeRead
  BY DEF Inv, CarefulInv, BackupsCanBeRead
<1> QED
  BY AlwaysInv, <1>1, PTL

\* For any number of pairs, whatever other commands forced or left half-written: a
\* command without --force replaces no config and no key there is (init, generate-key).
THEOREM UnforcedAlwaysKeeps == Spec => UnforcedKeepsFiles
<1> DEFINE Keeps ==
      ~command.force /\ pc # "idle" =>
        /\ config' # config => config = NoFile \/ pc = "fill config"
        /\ private' # private => private = NoFile \/ pc = "fill private"
        /\ public' # public => public = NoFile \/ pc = "fill public"
<1>1. ASSUME Inv, Next PROVE Keeps
  <2>1. CASE UNCHANGED files
    BY <2>1 DEF files
  <2>2. CASE TruncateConfig \/ FillConfig \/ TearConfig \/ EditConfig \/ DeleteConfig
    BY <2>2 DEF TruncateConfig, FillConfig, TearConfig, EditConfig, DeleteConfig
  <2>3. CASE TruncatePrivate \/ FillPrivate \/ TruncatePublic \/ FillPublic
    BY <1>1, <2>3 DEF TruncatePrivate, FillPrivate, TruncatePublic, FillPublic, Inv, UnforcedInv
  <2> QED
    BY <1>1, <2>1, <2>2, <2>3 DEF Next, files, Invoke, Continue, RefuseConfig,
       PanicOnBlankConfig, InitExists, KeyExists, Generate, WriteFails, Backup, CommandFails, Kill
<1>2. Inv /\ [Next]_vars => [Keeps]_vars
  BY <1>1
<1> QED
  BY <1>2, AlwaysInv, PTL DEF Spec, UnforcedKeepsFiles
=============================================================================
