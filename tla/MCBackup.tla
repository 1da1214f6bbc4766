------------------------------ MODULE MCBackup ------------------------------
(* Small instances of Backup for TLC. *)
EXTENDS Backup, TLC

CONSTANT b1, b2

TwoBoxes  == {b1, b2}
OneBox    == {b1}
TwoMails  == {1, 2}
ThreeMails == {1, 2, 3}

AllArtifacts == {1, 2, 3} \X {1, 2}

\* The first message has an attachment.
Attachments == [m \in Messages |-> IF m = 1 THEN 2 ELSE 1]
Plain       == [m \in Messages |-> 1]

LocalOnly   == <<"local">>
LocalAndS3  == <<"local", "s3">>
LocalAndTar == <<"local", "tar">>
S3AndTar    == <<"s3", "tar">>

WestOfUTC   == -2
BehindUTC   == -1

AnyMailbox  == {NoBox}
AnyOrOne    == {NoBox} \cup TwoBoxes

\* Nothing tells the mailboxes apart but what they hold.
BoxSymmetry == Permutations(TwoBoxes)
=============================================================================
