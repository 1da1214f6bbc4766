----------------------------- MODULE MailServer -----------------------------
(***************************************************************************)
(* The IMAP account that stage 1 reads, as the client in                   *)
(* stages/fetch/imap.go uses it: mailboxes that receive and lose mail while *)
(* a backup runs, and the UID SEARCH SINCE command.  The server is not part *)
(* of the repository; only what the client relies on is here.              *)
(*                                                                         *)
(* An instant is a natural number, 0 being Go's zero time.  One unit is    *)
(* one second, the resolution of INTERNALDATE.                             *)
(***************************************************************************)
EXTENDS Integers, FiniteSets

CONSTANTS
    Mailboxes,      \* the selectable mailboxes of the account
    NoBox,          \* "no mailbox"
    Messages,       \* UIDs, given out in the order messages are delivered
    DayLength,      \* seconds in a day
    ZoneOffset,     \* the server's zone: its local time minus UTC
    ClientZone,     \* the client's zone (time.Local), likewise
    MaxClock,       \* bound: no instant after this one is modelled
    StartClock,     \* the instant at which the modelled history begins
    ArrivalDates,   \* TRUE: INTERNALDATE is the instant of delivery (SMTP);
                    \* FALSE: any date, as APPEND, COPY and MOVE may give it
    DistinctInstants, \* TRUE: at most one delivery per second
    MayExpunge      \* TRUE: other clients delete mail

ASSUME MailAssumption ==
    /\ Messages \subseteq Nat \ {0}
    /\ NoBox \notin Mailboxes
    /\ DayLength \in Nat \ {0}
    /\ ZoneOffset \in Int /\ ClientZone \in Int
    /\ MaxClock \in Nat /\ StartClock \in Nat \ {0}
    /\ {ArrivalDates, DistinctInstants, MayExpunge} \subseteq BOOLEAN

VARIABLES
    clock,  \* now
    mail    \* what became of each message

mailVars == <<clock, mail>>

MailStates == {"unsent", "live", "expunged"}

MailTypeOK ==
    /\ clock \in Nat /\ clock >= StartClock
    /\ mail \in [Messages -> [state : MailStates,
                              box   : Mailboxes \cup {NoBox},
                              date  : Nat]]

MailInit ==
    /\ clock = StartClock
    /\ mail = [m \in Messages |-> [state |-> "unsent", box |-> NoBox, date |-> 0]]

Delivered == {m \in Messages : mail[m].state # "unsent"}
Live(b)   == {m \in Messages : mail[m].state = "live" /\ mail[m].box = b}

Tick ==
    /\ clock < MaxClock
    /\ clock' = clock + 1
    /\ UNCHANGED mail

\* The dates a message delivered now may carry; 0 is a message the client
\* cannot date (no INTERNALDATE and no usable Date header).
DeliveryDates == IF ArrivalDates THEN {clock} ELSE 0 .. MaxClock

\* A message arrives with the next UID.
Deliver(m) ==
    /\ mail[m].state = "unsent"
    /\ \A n \in Messages : n < m => mail[n].state # "unsent"
    /\ DistinctInstants => \A n \in Delivered : mail[n].date < clock
    /\ \E b \in Mailboxes, d \in DeliveryDates :
          mail' = [mail EXCEPT ![m] = [state |-> "live", box |-> b, date |-> d]]
    /\ UNCHANGED clock

\* Another client deletes a message.
Expunge(m) ==
    /\ MayExpunge
    /\ mail[m].state = "live"
    /\ mail' = [mail EXCEPT ![m].state = "expunged"]
    /\ UNCHANGED clock

\* SINCE compares calendar days: the day the client writes, of the bound in the
\* zone the bound is in, with the day of the internal date in the server's own
\* zone (RFC 3501 6.4.4, "disregarding time and timezone").
BoundDay(t, zone) == (t + zone) \div DayLength
ServerDay(t)      == (t + ZoneOffset) \div DayLength

\* Seeded bug: the day of the bound itself is left out.
SearchHitsLater(b, since, zone) ==
    IF since = 0
    THEN {Live(b)}
    ELSE {{m \in Live(b) : \/ mail[m].date = 0
                            \/ ServerDay(mail[m].date) > BoundDay(since, zone)}}

\* What UID SEARCH may answer in mailbox b.  The client sends no criterion at
\* all for the zero instant.  Where an undated message falls is not known.
SearchHits(b, since, zone) ==
    IF since = 0
    THEN {Live(b)}
    ELSE LET hits    == {m \in Live(b) : /\ mail[m].date # 0
                                         /\ ServerDay(mail[m].date) >= BoundDay(since, zone)}
             undated == {m \in Live(b) : mail[m].date = 0}
         IN  {hits \cup extra : extra \in SUBSET undated}
=============================================================================
