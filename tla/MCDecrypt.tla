------------------------------ MODULE MCDecrypt ------------------------------
(* Small instances of Decrypt for TLC: two mailboxes that hold attachments of  *)
(* the same name, one of them renamed without its suffix, an OpenPGP file, one *)
(* encrypted to another key, and a note of the user's where a target would be. *)
EXTENDS Decrypt, FiniteSets
CONSTANTS inbox, sent, out, report, minutes, letter, foreign, note

FourArtifacts == {report, minutes, letter, foreign, note}
OursOnly == FourArtifacts \ {foreign}
TwoDirectories == {out, inbox}

Disk ==
    LET files == {<<<<inbox, "r", <<"age">>>>, <<"age", report>>>>,
                  <<<<inbox, "r", <<>>>>,      <<"age", letter>>>>,
                  <<<<sent, "r", <<"age">>>>,  <<"age", minutes>>>>,
                  <<<<inbox, "n", <<"age">>>>, <<"age", foreign>>>>,
                  <<<<sent, "p", <<"pgp">>>>,  <<"pgp", letter>>>>,
                  <<<<sent, "r", <<>>>>,       <<"plain", note>>>>}
    IN  [p \in {f[1] : f \in files} |-> (CHOOSE f \in files : f[1] = p)[2]]

AnyRuns ==
    [args: {<<>>} \cup {<<p>> : p \in DOMAIN Disk} \cup {<<p, q>> : p, q \in DOMAIN Disk},
     output: TwoDirectories \cup {NoDirectory}, force: BOOLEAN]
=============================================================================
