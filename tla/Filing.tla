------------------------------- MODULE Filing -------------------------------
(***************************************************************************)
(* From messages on the server to files in a directory: Message.Artifacts  *)
(* and basePath (stages/stages.go), SafeFilename on attachments            *)
(* (stages/fetch/attachments.go) and Local.resolve (stages/store/local.go). *)
(* Senders and the owner of the account choose what names are made of; a    *)
(* message is written one character at a time, and those that arrive are    *)
(* backed up, in any order and as often as the bounds allow.                *)
(***************************************************************************)
EXTENDS Paths

CONSTANTS
    Varying,        \* what a history is about: "mailbox", "subject" or "names"
    MailboxChars, SubjectChars, FilenameChars,   \* what names are written with
    Dates,          \* of messages, 0 being none
    Decimal,        \* numbers as fmt prints them
    MaxNumber,      \* bound: the largest of them
    MaxText,        \* bound: what is written in one history, in characters
    MaxNames,       \* bound: attachments of a message
    MaxMail,        \* bound: messages, and their UIDs
    MaxBackups      \* bound: how often one is backed up

ASSUME FilingAssumption ==
    /\ MailboxChars \cup SubjectChars \cup FilenameChars \subseteq Chars
    /\ {MaxNumber, MaxText, MaxNames, MaxMail, MaxBackups} \subseteq Nat
    /\ MaxNames <= MaxNumber /\ MaxMail \in 1 .. MaxNumber /\ MaxBackups < MaxNumber
    /\ Dates \subseteq 0 .. MaxNumber
    /\ Decimal \in [1 .. MaxNumber -> Seq(Digits) \ {<<>>}]
    /\ \A m, n \in 1 .. MaxNumber : Decimal[m] = Decimal[n] => m = n

VARIABLES
    varies,    \* what this history is about
    draft,     \* the message being written
    mail,      \* the messages that have arrived
    saved,     \* those that have been backed up
    files,     \* the directory: a function from targets to what is in them
    now        \* how many backups there have been

vars == <<varies, draft, mail, saved, files, now>>

Messages == [mailbox : Text, uid : 1 .. MaxMail, date : Dates, subject : Text, names : Seq(Text)]

Artifacts(m) == 0 .. Len(m.names)

\* What a file holds: an artifact, 0 the message itself, of one of the messages.
Contents == [message : 1 .. MaxMail, artifact : 0 .. MaxNames]

TypeOK ==
    /\ varies \in Varying
    /\ draft \in Messages /\ Len(draft.names) <= MaxNames
    /\ mail \in Seq(Messages) /\ Len(mail) <= MaxMail
    /\ \A i \in DOMAIN mail : Len(mail[i].names) <= MaxNames
    /\ saved \subseteq DOMAIN mail
    /\ \A path \in DOMAIN files : path \in Seq(Text) /\ files[path] \in Contents
    /\ now \in 0 .. MaxBackups

Init ==
    /\ varies \in Varying
    /\ \E date \in Dates : draft = [mailbox |-> <<>>, uid |-> 1, date |-> date,
                                    subject |-> <<>>, names |-> <<>>]
    /\ mail = <<>> /\ saved = {} /\ files = <<>> /\ now = 0

-----------------------------------------------------------------------------
(* Writing messages. *)

Written(m) == Len(m.mailbox) + Len(m.subject) + Len(FlattenSeq(m.names))

Write(element, m) ==
    /\ varies = element /\ now = 0 /\ Len(mail) < MaxMail
    /\ draft' = m
    /\ UNCHANGED <<varies, mail, saved, files, now>>

NameMailbox ==
    /\ Written(draft) < MaxText
    /\ \E c \in MailboxChars : Write("mailbox", [draft EXCEPT !.mailbox = Append(@, c)])

WriteSubject ==
    /\ Written(draft) < MaxText
    /\ \E c \in SubjectChars : Write("subject", [draft EXCEPT !.subject = Append(@, c)])

Attach ==
    /\ Len(draft.names) < MaxNames
    /\ Write("names", [draft EXCEPT !.names = Append(@, <<>>)])

\* The last attachment's name gets another character.
NameAttachment ==
    /\ draft.names # <<>> /\ Written(draft) < MaxText
    /\ \E c \in FilenameChars :
          Write("names", [draft EXCEPT !.names[Len(draft.names)] = Append(@, c)])

\* The UIDs of a mailbox ascend. What is written next is a copy of what has
\* arrived, or something longer.
Arrive ==
    /\ Len(mail) < MaxMail
    /\ \E uid \in 1 .. MaxMail :
          /\ \A i \in DOMAIN mail : mail[i].mailbox = draft.mailbox => mail[i].uid < uid
          /\ mail' = Append(mail, [draft EXCEPT !.uid = uid])
    /\ UNCHANGED <<varies, draft, saved, files, now>>

-----------------------------------------------------------------------------
(* Artifacts and where they go *)

\* Seeded bug: every message is filed under the time of the run.
FiledUnderRun(m) == now + 1

\* Seconds and months are one number: the date, or else the time of the run.
FiledUnder(m) == IF m.date = 0 THEN now + 1 ELSE m.date

\* Seeded bug: the UID is left out.
StemWithoutUID(m, date) == Decimal[date] \o <<"-">> \o Slug(m.subject)

\* <timestamp>-<uid>-<slug>, in <mailbox>/<year>/<month>
Stem(m, date) == Decimal[date] \o <<"-">> \o (Decimal[m.uid] \o <<"-">> \o Slug(m.subject))
Directory(m, date) == Append(SafePath(m.mailbox), Decimal[date])

\* Seeded bug: an unnamed attachment is not numbered.
FilenameUnnumbered(m, n) ==
    LET safe == SafeFilename(m.names[n])
    IN  IF safe = <<>> THEN <<"attachment-">> ELSE safe

Filename(m, n) ==
    LET safe == SafeFilename(m.names[n])
    IN  IF safe = <<>> THEN <<"attachment-">> \o Decimal[n] ELSE safe

EmlPath(m, date) == Append(Directory(m, date), Append(Stem(m, date), ".eml"))

AttachmentPath(m, date, n) ==
    Append(Append(Directory(m, date), Append(Stem(m, date), ".attachments")), Filename(m, n))

Path(m, date, n) == IF n = 0 THEN EmlPath(m, date) ELSE AttachmentPath(m, date, n)

-----------------------------------------------------------------------------
(* Local *)

\* The destination. Its parent can be named, as in "../a".
Root == << <<"a">> >>

\* filepath.Join takes "." and ".." for what they mean.
Enter == [e \in Text |-> [at \in Seq(Text) |->
    IF e \in {<<>>, <<".">>} THEN at
    ELSE IF e # <<".", ".">> THEN Append(at, e)
    ELSE IF at = <<>> THEN at ELSE Front(at)]]

Walk == [element \in Text |-> [at \in Seq(Text) |-> Loop(Enter, at, Split(element, {"/"}))]]

\* What lies outside the destination is refused: there is no target.
Resolve(path) ==
    LET target == Loop(Walk, Root, path)
    IN  IF IsPrefix(Root, target) THEN target ELSE <<>>

Target(m, n) == Resolve(Path(m, FiledUnder(m), n))

Placed(m) == {[artifact |-> n, target |-> Target(m, n)] : n \in Artifacts(m)}

\* The artifacts are written in order, until one is refused.
Stored(m) ==
    LET placed == Placed(m)
    IN  {p \in placed : \A q \in placed : q.artifact <= p.artifact => q.target # <<>>}

\* Seeded bug: what a file holds is numbered from one.
FiledFromOne(i, stored) ==
    [path \in DOMAIN files \cup {p.target : p \in stored} |->
        IF \E p \in stored : p.target = path
        THEN [message |-> i,
              artifact |-> Max({p.artifact : p \in {q \in stored : q.target = path}}) + 1]
        ELSE files[path]]

\* A file is replaced, so that the last artifact of a target stays.
Filed(i, stored) ==
    LET targets == {p.target : p \in stored}
        last(path) == Max({p.artifact : p \in {q \in stored : q.target = path}})
    IN  [path \in DOMAIN files \cup targets |->
            IF path \in targets THEN [message |-> i, artifact |-> last(path)] ELSE files[path]]

Backup(i) ==
    /\ now < MaxBackups
    /\ LET stored == Stored(mail[i])
       IN  /\ files' = Filed(i, stored)
           /\ saved' = IF {p.artifact : p \in stored} = Artifacts(mail[i])
                       THEN saved \cup {i} ELSE saved
    /\ now' = now + 1
    /\ UNCHANGED <<varies, draft, mail>>

Next == NameMailbox \/ WriteSubject \/ Attach \/ NameAttachment \/ Arrive
        \/ \E i \in DOMAIN mail : Backup(i)

Spec == Init /\ [][Next]_vars

-----------------------------------------------------------------------------
\* Of any subject the slug keeps below the cap, but for the bytes of the letter
\* that meets it, and has a dash at neither end: cutting it leaves none (Slug).
SlugIsCapped ==
    \A i \in DOMAIN mail :
        LET slug == Slug(mail[i].subject)
        IN  /\ slug # <<>> /\ slug[1] # "-" /\ slug[Len(slug)] # "-"
            /\ Bytes(slug) <= MaxSlug + 1

\* Where the first n characters of a text are in a word, and where one of them
\* separates two words: the first of those between them.
InWords(text, n) == {k \in 1 .. n : text[k] \in Letters \cup Digits}
Between(text, n) ==
    {k \in 2 .. n : /\ {k - 1, k} \cap InWords(text, n) = {k - 1}
                    /\ \E j \in InWords(text, n) : j > k}

\* A subject's slug is its words in lower case, joined by single dashes, as far
\* as the cap lets it: nothing else ends it (Slug).
SlugIsItsWords ==
    \A i \in DOMAIN mail :
        LET text == [k \in DOMAIN mail[i].subject |-> ToLower(mail[i].subject[k])]
            slug == Slug(mail[i].subject)
        IN  IF InWords(text, Len(text)) = {} THEN slug = NoSubject
            ELSE \E n \in 1 .. Len(text) : \E at \in [DOMAIN slug -> 1 .. n] :
                     /\ \A j, k \in DOMAIN slug : j < k => at[j] < at[k]
                     /\ Range(at) = InWords(text, n) \cup Between(text, n)
                     /\ \A k \in DOMAIN slug :
                           slug[k] = IF at[k] \in InWords(text, n) THEN text[at[k]] ELSE "-"
                     /\ n < Len(text) => Bytes(slug) >= MaxSlug - 1

\* A mailbox name that uses one delimiter keeps its tree, so that no two
\* mailboxes of one server share a directory (SafePath).
MailboxTreeIsKept ==
    \A i \in DOMAIN mail : \A delimiter \in {"/", ".", "\\"} :
        LET parts == Split(mail[i].mailbox, {delimiter})
        IN  (\A k \in DOMAIN parts : parts[k] # <<>> /\ Range(parts[k]) \subseteq Letters)
            => SafePath(mail[i].mailbox) = parts

\* No subject, mailbox or file name a sender or an owner chooses means anything
\* to the file system: each artifact lands exactly where its path says, in the
\* directory of its own message (SafeFilename, SafePath, Local.resolve).
PathsMeanThemselves ==
    \A i \in DOMAIN mail : \A n \in Artifacts(mail[i]) :
        Target(mail[i], n) = Root \o Path(mail[i], FiledUnder(mail[i]), n)

\* Two messages of two mailboxes whose names are one directory, with one UID.
SameDirectory(i, j) ==
    /\ mail[i].mailbox # mail[j].mailbox /\ mail[i].uid = mail[j].uid
    /\ SafePath(mail[i].mailbox) = SafePath(mail[j].mailbox)

\* Two attachments end up under one name, which a sender chose for one of them.
SameFilename(m, n, k) ==
    /\ n # k /\ 0 \notin {n, k} /\ Filename(m, n) = Filename(m, k)
    /\ SafeFilename(m.names[n]) # <<>> \/ SafeFilename(m.names[k]) # <<>>

\* Each artifact of a dated message that was backed up is in its file, whatever
\* was backed up since, of any subject, date or mailbox: only an attachment can
\* be displaced, by another of its message under the same name, and a message
\* only by one with its UID in a mailbox that shares its directory (Artifacts,
\* basePath).
ArtifactsAreKept ==
    \A i \in saved : mail[i].date # 0 =>
        \A n \in Artifacts(mail[i]) :
            LET path == Root \o Path(mail[i], mail[i].date, n)
            IN  /\ path \in DOMAIN files
                /\ \/ files[path] = [message |-> i, artifact |-> n]
                   \/ /\ files[path].message = i
                      /\ SameFilename(mail[i], n, files[path].artifact)
                   \/ SameDirectory(i, files[path].message)

\* Backing a dated message up again writes the same files and no others: a
\* retry fills gaps and adds nothing (basePath; an undated message is filed
\* under the time of the run, and so again and again). It changes what a file
\* holds only where messages displace each other.
RetryAddsNothing ==
    [][\A i \in saved : now' > now /\ mail[i].date # 0 /\ Backup(i) =>
          /\ DOMAIN files' = DOMAIN files
          /\ \A path \in DOMAIN files : files'[path] = files[path]
                                        \/ SameDirectory(i, files[path].message)]_vars
=============================================================================
