------------------------------ MODULE MCArchive ------------------------------
(* Small instances of Archive for TLC. *)
EXTENDS Archive
CONSTANTS e1, e2, e3
ThreeEntries == {e1, e2, e3}
=============================================================================
