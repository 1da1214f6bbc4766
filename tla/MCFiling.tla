------------------------------- MODULE MCFiling -------------------------------
(***************************************************************************)
(* A small instance of Filing for TLC, and beside it one of Extraction: a   *)
(* history is about how a message's attachments are found or about what     *)
(* becomes of their names, since the code hands on no more than the names.  *)
(***************************************************************************)
EXTENDS Filing, Extraction

\* One character for each class that what reads the name tells apart.
InMailboxes == {"a", "/", "\\", ".", " ", "^", "unknown"}
InSubjects  == {"a", "e", "A", "-"}
InFilenames == {"1", "/", ".", " ", "^", "?", "attachment-"}

\* The first numbers of a notation with two digits and no zero.
Numerals == << <<"1">>, <<"2">>, <<"1", "1">>, <<"1", "2">>, <<"2", "1">> >>

\* One part for each way that IsAttachment and TakeLeaf tell them apart.
VaryingLeaves ==
    {Leaf("attachment", FALSE, TRUE), Leaf("attachment", TRUE, FALSE),
     Leaf("inline", TRUE, TRUE), Leaf("inline", FALSE, TRUE),
     Leaf("unparsable", TRUE, TRUE)}

AboutStructure == varies = "structure"

MCInit ==
    /\ Init /\ WalkInit
    /\ IF AboutStructure THEN draft.date = 0
       ELSE message = <<>>

MCNext ==
    \/ ~AboutStructure /\ Next /\ UNCHANGED walkVars
    \/ AboutStructure /\ WalkNext /\ UNCHANGED vars

MCSpec == MCInit /\ [][MCNext]_<<vars, walkVars>>
=============================================================================
