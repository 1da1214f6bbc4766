----------------------------- MODULE Extraction -----------------------------
(***************************************************************************)
(* The attachments of a message (stages/fetch/attachments.go): the walk    *)
(* over its MIME structure, which a sender composes one part at a time.     *)
(*                                                                         *)
(* A message is what a reader of it meets in turn: a leaf, the start of a   *)
(* multipart, the end of the innermost one (io.EOF), or an error in place   *)
(* of the next part, be it that the structure is broken or that go-message  *)
(* does not know the part's charset or encoding.  go-message, which parses  *)
(* it, is not part of the repository.  What an attachment is called is the  *)
(* subject of Filing.                                                      *)
(***************************************************************************)
EXTENDS SequencesExt

CONSTANTS
    Leaves,         \* parts that are not multiparts
    MaxLength,      \* bound: what a message consists of, but for the ends
    MaxNesting,     \* bound: multiparts around one another
    MaxDepth        \* maxAttachmentDepth

VARIABLES
    message,   \* what there is to meet; <<>>: nothing, it cannot be read at all
    at,        \* where the walk is
    depth,     \* the depth of the walkParts call there: multiparts around it
    found,     \* which parts were extracted
    pc         \* "sent", "walking" or "fetched"

walkVars == <<message, at, depth, found, pc>>

\* disposition: "attachment", "inline", or "unparsable".
Leaf(disposition, named, readable) ==
    [kind |-> "leaf", disposition |-> disposition, named |-> named, readable |-> readable]

Multi   == [kind |-> "multi"]
End     == [kind |-> "end"]
Failure == [kind |-> "failure"]

\* How many multiparts are around what is at k.
Level(k) == LET Before(kind) == {j \in DOMAIN message : j < k /\ message[j].kind = kind}
            IN  Cardinality(Before("multi")) - Cardinality(Before("end"))

Open == Level(Len(message) + 1)

WalkInit ==
    /\ message \in {<<>>} \cup {<<part>> : part \in Leaves \cup {Multi}}
    /\ at = 1 /\ depth = 0 /\ found = <<>> /\ pc = "sent"

-----------------------------------------------------------------------------
Compose(next) ==
    /\ pc = "sent" /\ Open > 0
    /\ message' = Append(message, next)
    /\ UNCHANGED <<at, depth, found, pc>>

AddLeaf  == Len(message) < MaxLength /\ \E leaf \in Leaves : Compose(leaf)
Nest     == Len(message) < MaxLength /\ Open < MaxNesting /\ Compose(Multi)
BreakOff == Len(message) < MaxLength /\ Compose(Failure)
Close    == Compose(End)

-----------------------------------------------------------------------------
\* A part is an attachment when it is dispositioned as one or has a name.
IsAttachment(leaf) ==
    /\ leaf.disposition # "unparsable"
    /\ leaf.disposition = "attachment" \/ leaf.named

ReadFails ==
    /\ pc = "sent" /\ message = <<>> /\ pc' = "fetched"
    /\ UNCHANGED <<message, at, depth, found>>

\* The walk begins with the outermost part; whatever it returns, message()
\* keeps what was found and only logs the error.
Fetch ==
    /\ pc = "sent" /\ message # <<>> /\ Open = 0 /\ pc' = "walking"
    /\ UNCHANGED <<message, at, depth, found>>

Meets(kind) == pc = "walking" /\ message[at].kind = kind

TooDeep(level) == level > MaxDepth

\* On to the next part, or the outermost call returns.
Step(level) ==
    /\ at' = at + 1 /\ depth' = level
    /\ pc' = IF level = 0 THEN "fetched" ELSE pc

EnterMultipart ==
    /\ Meets("multi") /\ ~TooDeep(depth)
    /\ Step(depth + 1)
    /\ UNCHANGED <<message, found>>

\* Seeded bug: a part that will not decode ends the walk.
TakeLeafOrFail ==
    /\ Meets("leaf") /\ ~TooDeep(depth)
    /\ IF IsAttachment(message[at]) /\ ~message[at].readable
       THEN pc' = "fetched" /\ UNCHANGED <<at, depth, found>>
       ELSE /\ found' = IF IsAttachment(message[at]) THEN Append(found, at) ELSE found
            /\ Step(depth)
    /\ UNCHANGED message

\* A part that will not decode is left out, and the walk goes on.
TakeLeaf ==
    /\ Meets("leaf") /\ ~TooDeep(depth)
    /\ found' = IF IsAttachment(message[at]) /\ message[at].readable
                THEN Append(found, at) ELSE found
    /\ Step(depth)
    /\ UNCHANGED message

LeaveMultipart ==
    /\ Meets("end")
    /\ Step(depth - 1)
    /\ UNCHANGED <<message, found>>

\* An error ends the walk of all that is around it.
GiveUp ==
    /\ Meets("failure") \/ (TooDeep(depth) /\ (Meets("leaf") \/ Meets("multi")))
    /\ pc' = "fetched"
    /\ UNCHANGED <<message, at, depth, found>>

WalkNext ==
    \/ AddLeaf \/ Nest \/ BreakOff \/ Close
    \/ ReadFails \/ Fetch
    \/ EnterMultipart \/ TakeLeaf \/ LeaveMultipart \/ GiveUp

WalkSpec == WalkInit /\ [][WalkNext]_walkVars

-----------------------------------------------------------------------------
\* Where the structure is broken or too deep.
Stops ==
    {k \in DOMAIN message :
        \/ message[k].kind = "failure"
        \/ message[k].kind \in {"leaf", "multi"} /\ TooDeep(Level(k))}

Wanted ==
    {k \in DOMAIN message :
        /\ message[k].kind = "leaf" /\ IsAttachment(message[k]) /\ message[k].readable
        /\ \A j \in Stops : k < j}

\* Every attachment that can be decoded is extracted, in the order of the
\* message, up to the first place where the structure is broken or too deep;
\* nothing after it is, and nothing before it is lost (ExtractAttachments,
\* walkParts, IMAP.message).
WalkIsFaithful ==
    pc = "fetched" =>
        /\ Range(found) = Wanted
        /\ \A i, j \in DOMAIN found : i < j => found[i] < found[j]
=============================================================================
