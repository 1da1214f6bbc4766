------------------------------- MODULE Overlap -------------------------------
(***************************************************************************)
(* Two backup processes at once: cron starts a run while the previous one  *)
(* is still going.  Nothing in cmd/backup.go keeps them apart; they share  *)
(* the account, the timestamp file and the destinations, and each has a    *)
(* memory of its own.  The first process is Backup itself, the second an   *)
(* instance of it over the same files.                                     *)
(***************************************************************************)
EXTENDS Backup

VARIABLES pcB, exitB, reqB, resumedB, boxesB, boxB, restB, batchB, curB, artB,
          kB, latestB, fetchErrB, closeErrB, seenB, bodylessB

Second == INSTANCE Backup WITH
    pc <- pcB, exit <- exitB, req <- reqB, resumed <- resumedB,
    boxes <- boxesB, box <- boxB, rest <- restB, batch <- batchB,
    cur <- curB, art <- artB, k <- kB, latest <- latestB,
    fetchErr <- fetchErrB, closeErr <- closeErrB,
    seen <- seenB, bodyless <- bodylessB

firstVars  == <<pc, exit, req, resumed, walkVars, emitVars, resultVars, historyVars>>
secondVars == <<pcB, exitB, reqB, resumedB, boxesB, boxB, restB, batchB, curB,
                artB, kB, latestB, fetchErrB, closeErrB, seenB, bodylessB>>

OverlapInit == Init /\ Second!Init

Account    == (TimePasses \/ MailArrives \/ MailDeleted) /\ UNCHANGED secondVars
FirstSteps == (Start \/ Run \/ Failure) /\ UNCHANGED secondVars
OtherSteps == (Second!Start \/ Second!Run \/ Second!Failure) /\ UNCHANGED firstVars

OverlapNext == Account \/ FirstSteps \/ OtherSteps

OverlapSpec == OverlapInit /\ [][OverlapNext]_<<vars, secondVars>>

-----------------------------------------------------------------------------
\* Whatever the other process does meanwhile, a run that is about to report
\* success has its whole window in every destination (Pipeline.Run).
BothComplete == RunComplete /\ Second!RunComplete

\* Two runs that interleave in any way, each recording its own newest message
\* over the other's, never leave a timestamp with unsaved mail behind it: the
\* file may move back, which repeats mail, but it skips none (Backup).
OverlapSkipsNothing == NothingSkipped
=============================================================================
