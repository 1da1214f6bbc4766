------------------------------ MODULE MCOverlap ------------------------------
(* A small instance of Overlap for TLC. *)
EXTENDS Overlap, MCBackup

S3Only == <<"s3">>
=============================================================================
