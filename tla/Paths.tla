-------------------------------- MODULE Paths --------------------------------
(***************************************************************************)
(* The names a backup gives to files (stages/paths.go): operators on texts, *)
(* which are sequences of characters.  One character stands for each class *)
(* the code tells apart; a word that the program writes is one character.   *)
(***************************************************************************)
EXTENDS SequencesExt

CONSTANT MaxSlug   \* maxSlugLength, in bytes

ASSUME PathsAssumption == MaxSlug \in Nat \ {0}

Letters    == {"a", "b", "e"}        \* "e" stands for a letter of two bytes
Digits     == {"1", "2"}
Upper      == [A |-> "a"]            \* what strings.ToLower changes
Separators == {"/", "\\"}
Reserved   == {"?"}                  \* < > : " | ? *
Control    == {"^"}                  \* dropped
Alphabet   == Letters \cup Digits \cup DOMAIN Upper \cup Separators \cup Reserved
                      \cup Control \cup {".", " ", "-"}
Words      == {"_", "unknown", "no-subject", "attachment-", ".eml", ".attachments"}
Chars      == Alphabet \cup Words
Text       == Seq(Chars)

\* A loop over s that turns what it has, acc, into step[c][acc] at the element c.
Loop(step, base, s) ==
    LET after[i \in 0 .. Len(s)] ==
            IF i = 0 THEN base ELSE step[s[i]][after[i - 1]]
    IN  after[Len(s)]

ToLower(c) == IF c \in DOMAIN Upper THEN Upper[c] ELSE c
Bytes(s)   == Len(s) + Cardinality({i \in DOMAIN s : s[i] = "e"})

\* strings.Trim: the text without the characters of C at its two ends.
Trim(s, C) ==
    LET kept == {i \in DOMAIN s : s[i] \notin C}
    IN  IF kept = {} THEN <<>> ELSE SubSeq(s, Min(kept), Max(kept))

\* strings.Split at every character of C.
Cut(C) == [c \in Chars |-> [parts \in Seq(Text) |->
              IF c \in C THEN Append(parts, <<>>)
              ELSE Append(Front(parts), Append(Last(parts), c))]]

Split(s, C) == Loop(Cut(C), << <<>> >>, s)

-----------------------------------------------------------------------------
NoSubject == <<"no-subject">>

\* Seeded bug: the cap is applied to characters that follow a dash only.
SlugRuneUncapped == [c \in Chars |-> [acc \in [slug : Text, dash : BOOLEAN, full : BOOLEAN] |->
    [slug |-> IF c \in Letters \cup Digits THEN Append(acc.slug, c)
              ELSE IF acc.dash THEN acc.slug ELSE Append(acc.slug, "-"),
     dash |-> c \notin Letters \cup Digits,
     full |-> FALSE]]]

\* Seeded bug: a letter does not end a run of other characters.
SlugRuneStuck == [c \in Chars |-> [acc \in [slug : Text, dash : BOOLEAN, full : BOOLEAN] |->
    LET slug == IF c \in Letters \cup Digits THEN Append(acc.slug, c)
                ELSE IF acc.dash THEN acc.slug ELSE Append(acc.slug, "-")
    IN  IF acc.full THEN acc
        ELSE [slug |-> slug, dash |-> acc.dash \/ c \notin Letters \cup Digits,
              full |-> Bytes(slug) >= MaxSlug]]]

\* One round of Slug's loop: a letter is kept, a run of anything else becomes
\* one dash, a leading one is dropped, and the loop ends at the cap.
SlugRune == [c \in Chars |-> [acc \in [slug : Text, dash : BOOLEAN, full : BOOLEAN] |->
    IF acc.full THEN acc
    ELSE LET slug == IF c \in Letters \cup Digits THEN Append(acc.slug, c)
                     ELSE IF acc.dash THEN acc.slug ELSE Append(acc.slug, "-")
         IN  [slug |-> slug, dash |-> c \notin Letters \cup Digits,
              full |-> Bytes(slug) >= MaxSlug]]]

Slug(text) ==
    LET lower == [i \in DOMAIN text |-> ToLower(text[i])]
        end   == Loop(SlugRune, [slug |-> <<>>, dash |-> TRUE, full |-> FALSE], lower)
        slug  == Trim(end.slug, {"-"})
    IN  IF slug = <<>> THEN NoSubject ELSE slug

-----------------------------------------------------------------------------
\* What follows the last separator.
BaseRune == [c \in Chars |-> [acc \in Text |->
                IF c \in Separators THEN <<>> ELSE Append(acc, c)]]

BaseName(text) == Loop(BaseRune, <<>>, text)

\* Without control characters, and without those some file systems refuse.
CleanRune == [c \in Chars |-> [acc \in Text |->
                 IF c \in Control THEN acc
                 ELSE Append(acc, IF c \in Reserved THEN "_" ELSE c)]]

Clean(text) == Loop(CleanRune, <<>>, text)

\* Seeded bug: blanks are trimmed last, and dots behind them stay.
SafeFilenameDots(text) == Trim(Trim(Clean(BaseName(text)), {"."}), {" "})

\* One path element: the base name, cleaned, without blanks around it or dots
\* around what is left.
SafeFilename(text) == Trim(Trim(Clean(BaseName(text)), {" "}), {"."})

Unknown == <<"unknown">>

KeepPart == [part \in Text |-> [acc \in Seq(Text) |->
    LET safe == SafeFilename(part)
    IN  IF safe \in {<<>>, <<".">>, <<".", ".">>} THEN acc ELSE Append(acc, safe)]]

\* Seeded bug: only the slash separates two directories.
SafePathAtSlash(name) ==
    LET clean == Loop(KeepPart, <<>>, Split(name, {"/"}))
    IN  IF clean = <<>> THEN <<Unknown>> ELSE clean

\* A mailbox name as directories: each of the delimiters separates two of them.
SafePath(name) ==
    LET clean == Loop(KeepPart, <<>>, Split(name, Separators \cup {"."}))
    IN  IF clean = <<>> THEN <<Unknown>> ELSE clean
=============================================================================
