-------------------------- MODULE IncrementalBackup --------------------------
(***************************************************************************)
(* What repeated runs with no flags promise the owner of a mailbox         *)
(* (documentation/docs/stages/fetch.md, README.md): mail is saved, and a   *)
(* frontier moves forward in time, only ever over mail that is saved.      *)
(* Backup implements this for one mailbox of mail dated on arrival.        *)
(***************************************************************************)
EXTENDS Naturals

CONSTANT Mail

VARIABLES
    date,      \* when each message in the mailbox arrived; 0: not in it, or given up
    saved,     \* the messages every destination can give back
    frontier   \* no run will ask again for mail up to here; 0: nothing given up

promiseVars == <<date, saved, frontier>>

Behind(t) == {m \in Mail : date[m] \in 1 .. t}

Init ==
    /\ date = [m \in Mail |-> 0]
    /\ saved = {}
    /\ frontier = 0

\* Mail is dated on arrival, ahead of the frontier.
Arrive(m) ==
    /\ date[m] = 0
    /\ date'[m] > frontier
    /\ date' = [date EXCEPT ![m] = date'[m]]
    /\ UNCHANGED <<saved, frontier>>

Withdraw(m) ==
    /\ date[m] # 0
    /\ date' = [date EXCEPT ![m] = 0]
    /\ UNCHANGED <<saved, frontier>>

\* Without a frontier a run may be limited to recent mail: older mail that is
\* not saved is given up, and none that is newer than what it keeps.
GiveUp ==
    /\ frontier = 0
    /\ date' = [m \in Mail |-> date'[m]]
    /\ \A m \in Mail : date'[m] # date[m] =>
          /\ date'[m] = 0 /\ m \notin saved
          /\ \A n \in Mail \ saved : date[n] <= date[m] => date'[n] = 0
    /\ UNCHANGED <<saved, frontier>>

Save(m) ==
    /\ saved' = saved \cup {m}
    /\ UNCHANGED <<date, frontier>>

\* A failed write may cut short what a run is saving again, but only mail a
\* later run will ask for anyway.
Lose(m) ==
    /\ m \notin Behind(frontier)
    /\ saved' = saved \ {m}
    /\ UNCHANGED <<date, frontier>>

Advance ==
    /\ frontier' > frontier
    /\ Behind(frontier') \subseteq saved
    /\ UNCHANGED <<date, saved>>

\* The record of the frontier is lost: mail is repeated, none is skipped.
Forget ==
    /\ frontier' = 0
    /\ UNCHANGED <<date, saved>>

Next ==
    \/ \E m \in Mail : Arrive(m) \/ Withdraw(m) \/ Save(m) \/ Lose(m)
    \/ GiveUp
    \/ Advance
    \/ Forget

Spec == Init /\ [][Next]_promiseVars
=============================================================================
