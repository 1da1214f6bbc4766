--------------------------- MODULE ArchiveContract ---------------------------
(***************************************************************************)
(* What a destination that buffers promises through the Sink interface     *)
(* (stages/stages.go): after a Close that succeeded it can give back       *)
(* exactly what Store accepted; after anything else it promises nothing,   *)
(* and it never passes off half an archive as a whole one.                 *)
(***************************************************************************)
CONSTANT Entries

VARIABLES
    phase,    \* "closed", "open", "broken" (a Store failed), "sealed"
    held,     \* what Store accepted since the archive was created
    content   \* what a reader finds in a valid archive; {} if it is not valid

contractVars == <<phase, held, content>>

Init == phase = "closed" /\ held = {} /\ content = {}

\* Creating an archive discards the one that was there.
Create == /\ phase = "closed"
          /\ phase' = "open" /\ held' = {} /\ content' = {}

Accept(e) == /\ phase = "open"
             /\ held' = held \cup {e}
             /\ UNCHANGED <<phase, content>>

Break == /\ phase = "open" /\ phase' = "broken"
         /\ UNCHANGED <<held, content>>

\* Only an archive none of whose writes failed becomes valid.
Seal == /\ phase = "open" /\ phase' = "sealed"
        /\ content' = held
        /\ UNCHANGED held

\* Close returns, or the process dies.
Leave == /\ phase # "closed" /\ phase' = "closed"
         /\ UNCHANGED <<held, content>>

Next == Create \/ (\E e \in Entries : Accept(e)) \/ Break \/ Seal \/ Leave

Spec == Init /\ [][Next]_contractVars
=============================================================================
