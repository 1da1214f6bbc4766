----------------------------- MODULE Filing_proofs -----------------------------
(***************************************************************************)
(* Where files land, whatever senders and owners write: no text is too     *)
(* long and no message one too many.  The first part is about loops over   *)
(* texts, the second about the names made of them, the third about the     *)
(* directory.                                                              *)
(***************************************************************************)
EXTENDS Filing, SequenceTheorems, FiniteSetTheorems, WellFoundedInduction, TLAPS

LEMMA Induction ==
    ASSUME NEW S, 0 \in S, \A n \in Nat : n \in S => n + 1 \in S
    PROVE  Nat \subseteq S
<1> DEFINE T == {n \in Nat : n \notin S}
<1> SUFFICES ASSUME T # {} PROVE FALSE
    OBVIOUS
<1>1. IsWellFoundedOn(OpToRel(<, Nat), Nat)
    BY NatLessThanWellFounded
<1>2. PICK x \in T : \A y \in T : ~(<<y, x>> \in OpToRel(<, Nat))
    BY <1>1, WFMin
<1>3. x - 1 \in T
    OBVIOUS
<1>4. <<x - 1, x>> \in OpToRel(<, Nat)
    BY <1>3 DEF OpToRel
<1> QED
    BY <1>2, <1>3, <1>4

LEMMA MinIs ==
    ASSUME NEW S \in SUBSET Nat, S # {}
    PROVE  Min(S) \in S /\ \A x \in S : Min(S) <= x
<1>1. PICK x \in S : \A y \in S : ~(<<y, x>> \in OpToRel(<, Nat))
    BY NatLessThanWellFounded, WFMin
<1>2. ASSUME NEW y \in S
      PROVE  x <= y
  <2> SUFFICES ASSUME y < x PROVE FALSE
      OBVIOUS
  <2>1. <<y, x>> \in OpToRel(<, Nat)
      BY DEF OpToRel
  <2> QED
      BY <1>1, <2>1
<1> QED
    BY <1>2 DEF Min

LEMMA MaxIs ==
    ASSUME NEW n \in Nat, NEW S \in SUBSET (0 .. n), S # {}
    PROVE  Max(S) \in S /\ \A x \in S : x <= Max(S)
<1> DEFINE Below == {n - x : x \in S}
<1>1. Below \in SUBSET Nat /\ Below # {}
  <2>1. \A x \in S : x \in 0 .. n /\ n - x \in Nat
      OBVIOUS
  <2> QED
      BY <2>1
<1>2. PICK y \in Below : \A z \in Below : y <= z
    BY <1>1, MinIs
<1>3. PICK x \in S : y = n - x
    OBVIOUS
<1>4. \A z \in S : z <= x
    BY <1>2, <1>3
<1> QED
    BY <1>4 DEF Max

-----------------------------------------------------------------------------
(* Loops *)

\* What Loop computes: a value before the first element and one after each.
LEMMA LoopIs ==
    ASSUME NEW D, NEW s \in Seq(D), NEW step, NEW base
    PROVE  \E after : /\ DOMAIN after = 0 .. Len(s) /\ after[0] = base
                      /\ \A i \in 1 .. Len(s) : after[i] = step[s[i]][after[i - 1]]
                      /\ Loop(step, base, s) = after[Len(s)]
<1> DEFINE Runs(g, n) == /\ DOMAIN g = 0 .. n /\ g[0] = base
                         /\ \A i \in 1 .. n : g[i] = step[s[i]][g[i - 1]]
           Reached == {n \in Nat : \E g : Runs(g, n)}
<1>1. 0 \in Reached
  <2>1. Runs([i \in 0 .. 0 |-> base], 0)
      OBVIOUS
  <2> QED
      BY <2>1
<1>2. ASSUME NEW n \in Nat, n \in Reached
      PROVE  n + 1 \in Reached
  <2>1. PICK g : Runs(g, n)
      BY <1>2
  <2> DEFINE h == [i \in 0 .. n + 1 |-> IF i = n + 1 THEN step[s[n + 1]][g[n]] ELSE g[i]]
  <2>2. DOMAIN h = 0 .. n + 1 /\ h[0] = base
      BY <2>1
  <2>3. ASSUME NEW i \in 1 .. n + 1
        PROVE  h[i] = step[s[i]][h[i - 1]]
    <3>1. CASE i = n + 1
      <4>1. h[i] = step[s[n + 1]][g[n]] /\ h[i - 1] = g[n]
          BY <3>1
      <4> QED
          BY <3>1, <4>1
    <3>2. CASE i # n + 1
      <4>1. h[i] = g[i] /\ h[i - 1] = g[i - 1] /\ i \in 1 .. n
          BY <3>2
      <4>2. g[i] = step[s[i]][g[i - 1]]
          BY <2>1, <4>1
      <4> QED
          BY <4>1, <4>2
    <3> QED
        BY <3>1, <3>2
  <2> HIDE DEF h
  <2>4. Runs(h, n + 1)
      BY <2>2, <2>3
  <2> HIDE DEF Runs
  <2> QED
      BY <2>4
<1> HIDE DEF Reached
<1>3. Nat \subseteq Reached
    BY <1>1, <1>2, Induction
<1>4. Len(s) \in Reached
    BY <1>3
<1>5. PICK g : Runs(g, Len(s))
    BY <1>4 DEF Reached
<1> DEFINE Eq(a) == a = [i \in 0 .. Len(s) |-> IF i = 0 THEN base ELSE step[s[i]][a[i - 1]]]
           e     == [i \in 0 .. Len(s) |-> IF i = 0 THEN base ELSE step[s[i]][g[i - 1]]]
<1>6. g = e
  <2>1. \A i \in DOMAIN g : g[i] = e[i]
      BY <1>5
  <2>2. g = [i \in 0 .. Len(s) |-> g[i]]
      BY <1>5
  <2> QED
      BY <1>5, <2>1, <2>2
<1>7. Eq(CHOOSE a : Eq(a))
    BY <1>6
<1> DEFINE after == CHOOSE a : Eq(a)
<1>8. Loop(step, base, s) = after[Len(s)]
    BY DEF Loop
<1>9. /\ DOMAIN after = 0 .. Len(s) /\ after[0] = base
      /\ \A i \in 1 .. Len(s) : after[i] = step[s[i]][after[i - 1]]
  <2> HIDE DEF after
  <2>1. Eq(after)
      BY <1>7 DEF after
  <2>2. Len(s) \in Nat
      OBVIOUS
  <2>3. DOMAIN after = 0 .. Len(s)
      BY <2>1
  <2>4. \A i \in 0 .. Len(s) : after[i] = IF i = 0 THEN base ELSE step[s[i]][after[i - 1]]
      BY <2>1, Zenon
  <2> QED
      BY <2>2, <2>3, <2>4
<1> QED
    BY <1>8, <1>9

\* inv[i] holds what a loop may have after i elements.
LEMMA LoopInvariant ==
    ASSUME NEW D, NEW s \in Seq(D), NEW step, NEW base, NEW inv, base \in inv[0],
           \A i \in 1 .. Len(s) : \A acc \in inv[i - 1] : step[s[i]][acc] \in inv[i]
    PROVE  Loop(step, base, s) \in inv[Len(s)]
<1>1. PICK after : /\ DOMAIN after = 0 .. Len(s) /\ after[0] = base
                   /\ \A i \in 1 .. Len(s) : after[i] = step[s[i]][after[i - 1]]
                   /\ Loop(step, base, s) = after[Len(s)]
    BY LoopIs
<1> DEFINE Holds == {n \in Nat : n <= Len(s) => after[n] \in inv[n]}
<1>2. 0 \in Holds
    BY <1>1
<1>3. ASSUME NEW n \in Nat, n \in Holds
      PROVE  n + 1 \in Holds
  <2> SUFFICES ASSUME n + 1 <= Len(s) PROVE after[n + 1] \in inv[n + 1]
      OBVIOUS
  <2>1. n + 1 \in 1 .. Len(s) /\ (n + 1) - 1 = n /\ after[n] \in inv[n]
      BY <1>3
  <2> QED
      BY <1>1, <2>1
<1> HIDE DEF Holds
<1>4. Len(s) \in Holds
    BY <1>2, <1>3, Induction
<1> QED
    BY <1>1, <1>4 DEF Holds

\* Two loops that treat each element alike.
LEMMA LoopSame ==
    ASSUME NEW D, NEW s \in Seq(D), NEW step, NEW other, NEW base, NEW A, base \in A,
           \A i \in 1 .. Len(s) : \A acc \in A :
               step[s[i]][acc] \in A /\ step[s[i]][acc] = other[s[i]][acc]
    PROVE  Loop(step, base, s) = Loop(other, base, s)
<1>1. PICK f : /\ DOMAIN f = 0 .. Len(s) /\ f[0] = base
               /\ \A i \in 1 .. Len(s) : f[i] = step[s[i]][f[i - 1]]
               /\ Loop(step, base, s) = f[Len(s)]
    BY LoopIs
<1>2. PICK g : /\ DOMAIN g = 0 .. Len(s) /\ g[0] = base
               /\ \A i \in 1 .. Len(s) : g[i] = other[s[i]][g[i - 1]]
               /\ Loop(other, base, s) = g[Len(s)]
    BY LoopIs
<1> DEFINE Agree == {n \in Nat : n <= Len(s) => f[n] \in A /\ f[n] = g[n]}
<1>3. 0 \in Agree
    BY <1>1, <1>2
<1>4. ASSUME NEW n \in Nat, n \in Agree
      PROVE  n + 1 \in Agree
  <2> SUFFICES ASSUME n + 1 <= Len(s) PROVE f[n + 1] \in A /\ f[n + 1] = g[n + 1]
      OBVIOUS
  <2>1. n + 1 \in 1 .. Len(s) /\ (n + 1) - 1 = n /\ f[n] \in A /\ f[n] = g[n]
      BY <1>4
  <2>2. f[n + 1] = step[s[n + 1]][f[n]] /\ g[n + 1] = other[s[n + 1]][f[n]]
      BY <1>1, <1>2, <2>1
  <2> QED
      BY <2>1, <2>2
<1> HIDE DEF Agree
<1>5. Len(s) \in Agree
    BY <1>3, <1>4, Induction
<1> QED
    BY <1>1, <1>2, <1>5 DEF Agree

LEMMA LoopIn ==
    ASSUME NEW D, NEW s \in Seq(D), NEW step, NEW base, NEW A, base \in A,
           \A i \in 1 .. Len(s) : \A acc \in A : step[s[i]][acc] \in A
    PROVE  Loop(step, base, s) \in A
<1> DEFINE inv == [i \in 0 .. Len(s) |-> A]
<1>1. \A i \in 0 .. Len(s) : inv[i] = A
    OBVIOUS
<1>2. base \in inv[0]
    BY <1>1
<1>3. \A i \in 1 .. Len(s) : \A acc \in inv[i - 1] : step[s[i]][acc] \in inv[i]
    BY <1>1
<1> HIDE DEF inv
<1>4. Loop(step, base, s) \in inv[Len(s)]
    BY <1>2, <1>3, LoopInvariant
<1> QED
    BY <1>1, <1>4

-----------------------------------------------------------------------------
(* Texts and what is made of them *)

\* A text that names one element of a path, and one that also means itself there.
Element == {t \in Text : \A i \in 1 .. Len(t) : t[i] \notin Separators}
Plain   == {t \in Element : t # <<>> /\ t[1] # "."}

LEMMA CharFacts ==
    /\ Digits \cup Letters \cup Separators \cup Words \cup {".", "-", " "} \subseteq Chars
    /\ Separators \cap (Digits \cup Letters \cup Words \cup {".", "-"}) = {}
    /\ {"-", "."} \cap Digits = {}
    /\ "/" \in Separators
BY DEF Chars, Alphabet, Digits, Letters, Separators, Words

LEMMA TrimIs ==
    ASSUME NEW s \in Text, NEW C
    PROVE  /\ Trim(s, C) \in Text
           /\ \A i \in 1 .. Len(Trim(s, C)) : \E j \in 1 .. Len(s) : Trim(s, C)[i] = s[j]
           /\ Trim(s, C) # <<>> => /\ Trim(s, C)[1] \notin C
                                   /\ Trim(s, C)[Len(Trim(s, C))] \notin C
           /\ (\A i \in 1 .. Len(s) : s[i] \notin C) => Trim(s, C) = s
           /\ Trim(s, C) # <<>> =>
                  \E a, b \in 1 .. Len(s) : a <= b /\ Trim(s, C) = SubSeq(s, a, b)
<1> DEFINE kept == {i \in DOMAIN s : s[i] \notin C}
<1>0. Len(s) \in Nat /\ DOMAIN s = 1 .. Len(s) /\ \A i \in 1 .. Len(s) : s[i] \in Chars
    BY DEF Text
<1>1. CASE kept = {}
  <2>1. Trim(s, C) = <<>>
      BY <1>1 DEF Trim
  <2>2. (\A i \in 1 .. Len(s) : s[i] \notin C) => s = <<>>
      BY <1>0, <1>1 DEF Text
  <2> QED
      BY <2>1, <2>2 DEF Text
<1>2. CASE kept # {}
  <2> DEFINE a == Min(kept)
             b == Max(kept)
  <2>t. kept \in SUBSET Nat /\ kept \in SUBSET (0 .. Len(s))
      BY <1>0
  <2>3. Trim(s, C) = SubSeq(s, a, b)
      BY <1>2 DEF Trim
  <2> HIDE DEF kept
  <2>1. a \in kept /\ \A i \in kept : a <= i
      BY <1>2, <2>t, MinIs
  <2>2. b \in kept /\ \A i \in kept : i <= b
      BY <1>0, <1>2, <2>t, MaxIs
  <2>4. a \in 1 .. Len(s) /\ b \in 1 .. Len(s) /\ a <= b /\ s[a] \notin C /\ s[b] \notin C
      BY <1>0, <2>1, <2>2 DEF kept
  <2> HIDE DEF a, b
  <2>5. /\ Trim(s, C) \in Seq(Chars) /\ Len(Trim(s, C)) = b - a + 1
        /\ \A i \in 1 .. b - a + 1 : Trim(s, C)[i] = s[a + i - 1]
      BY <1>0, <2>3, <2>4, SubSeqProperties DEF Text
  <2>6. \A i \in 1 .. Len(Trim(s, C)) : a + i - 1 \in 1 .. Len(s)
      BY <1>0, <2>4, <2>5
  <2>7. (\A i \in 1 .. Len(s) : s[i] \notin C) => a = 1 /\ b = Len(s)
      BY <1>0, <2>1, <2>2, <2>4 DEF kept
  <2>8. SubSeq(s, 1, Len(s)) = s
      BY SubSeqFull DEF Text
  <2>9. /\ 1 \in 1 .. b - a + 1 /\ a + 1 - 1 = a
        /\ b - a + 1 \in 1 .. b - a + 1 /\ a + (b - a + 1) - 1 = b
      BY <1>0, <2>4
  <2>10. Trim(s, C)[1] \notin C /\ Trim(s, C)[Len(Trim(s, C))] \notin C
      BY <2>4, <2>5, <2>9
  <2>11. \A i \in 1 .. Len(Trim(s, C)) : \E j \in 1 .. Len(s) : Trim(s, C)[i] = s[j]
      BY <2>5, <2>6
  <2>12. (\A i \in 1 .. Len(s) : s[i] \notin C) => Trim(s, C) = s
      BY <2>3, <2>7, <2>8
  <2>13. \E x, y \in 1 .. Len(s) : x <= y /\ Trim(s, C) = SubSeq(s, x, y)
      BY <2>3, <2>4
  <2> QED
      BY <2>5, <2>10, <2>11, <2>12, <2>13 DEF Text
<1> QED
    BY <1>1, <1>2

\* What Bytes counts twice.
Wide(s) == {i \in DOMAIN s : s[i] = "e"}

LEMMA BytesIs ==
    ASSUME NEW s \in Text
    PROVE  /\ IsFiniteSet(Wide(s)) /\ Bytes(s) = Len(s) + Cardinality(Wide(s))
           /\ Cardinality(Wide(s)) \in Nat /\ Len(s) \in Nat
<1>1. Len(s) \in Nat /\ DOMAIN s = 1 .. Len(s)
    BY DEF Text
<1>2. IsFiniteSet(1 .. Len(s)) /\ Wide(s) \in SUBSET (1 .. Len(s))
    BY <1>1, FS_Interval DEF Wide
<1>3. IsFiniteSet(Wide(s))
    BY <1>2, FS_Subset
<1> QED
    BY <1>1, <1>3, FS_CardinalityType DEF Bytes, Wide

LEMMA BytesAppend ==
    ASSUME NEW s \in Text, NEW c \in Chars
    PROVE  Bytes(Append(s, c)) <= Bytes(s) + 2
<1> DEFINE n == Len(s) + 1
           more == Append(s, c)
<1>1. more \in Text /\ Len(more) = n /\ Len(s) \in Nat /\ \A i \in 1 .. Len(s) : more[i] = s[i]
    BY AppendProperties DEF Text
<1> HIDE DEF more
<1>2. Wide(more) \in SUBSET (Wide(s) \cup {n})
  <2>1. DOMAIN more = 1 .. n /\ DOMAIN s = 1 .. Len(s)
      BY <1>1 DEF Text
  <2> QED
      BY <1>1, <2>1 DEF Wide
<1>3. /\ IsFiniteSet(Wide(s)) /\ Cardinality(Wide(s)) \in Nat
      /\ Bytes(s) = Len(s) + Cardinality(Wide(s))
    BY BytesIs
<1>4. /\ IsFiniteSet(Wide(s) \cup {n})
      /\ Cardinality(Wide(s) \cup {n}) \in {Cardinality(Wide(s)), Cardinality(Wide(s)) + 1}
    BY <1>3, FS_AddElement
<1>5. Cardinality(Wide(more)) <= Cardinality(Wide(s) \cup {n})
    BY <1>2, <1>4, FS_Subset
<1>6. Bytes(more) = n + Cardinality(Wide(more)) /\ Cardinality(Wide(more)) \in Nat
    BY <1>1, BytesIs
<1>7. Bytes(more) <= Bytes(s) + 2
    BY <1>1, <1>3, <1>4, <1>5, <1>6
<1> QED
    BY <1>7 DEF more

LEMMA BytesTrim ==
    ASSUME NEW s \in Text, NEW C
    PROVE  Bytes(Trim(s, C)) <= Bytes(s)
<1> DEFINE t == Trim(s, C)
<1>0. t \in Text /\ (t # <<>> => \E a, b \in 1 .. Len(s) : a <= b /\ t = SubSeq(s, a, b))
    BY TrimIs
<1> HIDE DEF t
<1>1. /\ IsFiniteSet(Wide(s)) /\ Cardinality(Wide(s)) \in Nat /\ Len(s) \in Nat
      /\ Bytes(s) = Len(s) + Cardinality(Wide(s))
    BY BytesIs
<1>2. Bytes(t) = Len(t) + Cardinality(Wide(t)) /\ Cardinality(Wide(t)) \in Nat /\ Len(t) \in Nat
    BY <1>0, BytesIs
<1>3. CASE t = <<>>
  <2>1. Wide(t) = {} /\ Len(t) = 0
      BY <1>3 DEF Wide
  <2> QED
      BY <1>1, <1>2, <2>1, FS_EmptySet DEF t
<1>4. CASE t # <<>>
  <2>1. PICK a \in 1 .. Len(s), b \in 1 .. Len(s) : a <= b /\ t = SubSeq(s, a, b)
      BY <1>0, <1>4
  <2>2. Len(t) = b - a + 1 /\ \A i \in 1 .. b - a + 1 : t[i] = s[a + i - 1]
    <3>1. \A i \in a .. b : s[i] \in Chars
        BY <1>1 DEF Text
    <3> QED
        BY <1>1, <2>1, <3>1, SubSeqProperties
  <2> DEFINE f == [i \in Wide(t) |-> a + i - 1]
  <2>3. DOMAIN t = 1 .. Len(t) /\ DOMAIN s = 1 .. Len(s)
      BY <1>0 DEF Text
  <2>4. \A i \in Wide(t) : i \in Nat /\ a + i - 1 \in Wide(s)
      BY <1>1, <2>1, <2>2, <2>3 DEF Wide
  <2>5. f \in Injection(Wide(t), Wide(s))
    <3>1. f \in [Wide(t) -> Wide(s)]
        BY <2>4
    <3>2. \A i, j \in Wide(t) : f[i] = f[j] => i = j
        BY <2>4
    <3> HIDE DEF f
    <3> QED
        BY <3>1, <3>2 DEF Injection, IsInjective
  <2> HIDE DEF f
  <2>6. Cardinality(Wide(t)) <= Cardinality(Wide(s))
      BY <1>1, <2>5, FS_Injection
  <2> QED
      BY <1>1, <1>2, <2>1, <2>2, <2>6 DEF t
<1> QED
    BY <1>3, <1>4

LEMMA AppendElement ==
    ASSUME NEW acc \in Element, NEW c \in Chars, c \notin Separators
    PROVE  Append(acc, c) \in Element
<1>1. acc \in Seq(Chars) /\ Len(acc) \in Nat
    BY DEF Element, Text
<1>2. /\ Append(acc, c) \in Seq(Chars) /\ Len(Append(acc, c)) = Len(acc) + 1
      /\ \A i \in 1 .. Len(acc) : Append(acc, c)[i] = acc[i]
      /\ Append(acc, c)[Len(acc) + 1] = c
    BY <1>1, AppendProperties
<1>3. ASSUME NEW i \in 1 .. Len(Append(acc, c))
      PROVE  Append(acc, c)[i] \notin Separators
    BY <1>1, <1>2 DEF Element
<1> QED
    BY <1>2, <1>3 DEF Element, Text

LEMMA BaseNameIs ==
    ASSUME NEW text \in Text
    PROVE  BaseName(text) \in Element
<1>1. <<>> \in Element
    BY DEF Element, Text
<1>2. ASSUME NEW i \in 1 .. Len(text), NEW acc \in Element
      PROVE  BaseRune[text[i]][acc] \in Element
  <2>1. text[i] \in Chars /\ acc \in Text
      BY DEF Text, Element
  <2>2. BaseRune[text[i]][acc] = IF text[i] \in Separators THEN <<>> ELSE Append(acc, text[i])
      BY <2>1 DEF BaseRune
  <2>3. text[i] \notin Separators => Append(acc, text[i]) \in Element
      BY <2>1, AppendElement
  <2> QED
      BY <1>1, <2>2, <2>3
<1> QED
    BY <1>1, <1>2, LoopIn DEF BaseName, Text

LEMMA CleanIs ==
    ASSUME NEW text \in Element
    PROVE  Clean(text) \in Element
<1>1. <<>> \in Element
    BY DEF Element, Text
<1>2. ASSUME NEW i \in 1 .. Len(text), NEW acc \in Element
      PROVE  CleanRune[text[i]][acc] \in Element
  <2>1. text[i] \in Chars /\ acc \in Text /\ text[i] \notin Separators
      BY DEF Text, Element
  <2> DEFINE c == IF text[i] \in Reserved THEN "_" ELSE text[i]
  <2>2. c \in Chars /\ c \notin Separators
      BY <2>1, CharFacts DEF Words
  <2>3. CleanRune[text[i]][acc] = IF text[i] \in Control THEN acc ELSE Append(acc, c)
      BY <2>1 DEF CleanRune
  <2> HIDE DEF c
  <2>4. Append(acc, c) \in Element
      BY <2>2, AppendElement
  <2> QED
      BY <2>3, <2>4
<1> QED
    BY <1>1, <1>2, LoopIn DEF Clean, Element, Text

LEMMA TrimElement ==
    ASSUME NEW s \in Element, NEW C
    PROVE  Trim(s, C) \in Element
BY TrimIs DEF Element

LEMMA SafeFilenameIs ==
    ASSUME NEW text \in Text
    PROVE  /\ SafeFilename(text) \in Element
           /\ SafeFilename(text) # <<>> => SafeFilename(text) \in Plain
<1> DEFINE inner == Trim(Clean(BaseName(text)), {" "})
<1>1. inner \in Element
    BY BaseNameIs, CleanIs, TrimElement
<1>2. SafeFilename(text) = Trim(inner, {"."})
    BY DEF SafeFilename
<1> HIDE DEF inner
<1>3. Trim(inner, {"."}) \in Element
    BY <1>1, TrimElement
<1>4. Trim(inner, {"."}) # <<>> => Trim(inner, {"."})[1] \notin {"."}
    BY <1>1, TrimIs DEF Element
<1> QED
    BY <1>2, <1>3, <1>4 DEF Plain

\* Splitting gives at least one text.
Parts == {parts \in Seq(Text) : parts # <<>>}

LEMMA CutIs ==
    ASSUME NEW C, NEW c \in Chars, NEW parts \in Parts
    PROVE  /\ Cut(C)[c][parts] = IF c \in C THEN Append(parts, <<>>)
                                 ELSE Append(Front(parts), Append(Last(parts), c))
           /\ Cut(C)[c][parts] \in Parts
           /\ Front(parts) \in Seq(Text) /\ Last(parts) \in Text
<1>1. parts \in Seq(Text) /\ parts # <<>> /\ <<>> \in Text
    BY DEF Parts, Text
<1>2. Cut(C)[c][parts] = IF c \in C THEN Append(parts, <<>>)
                         ELSE Append(Front(parts), Append(Last(parts), c))
    BY <1>1 DEF Cut
<1>3. Front(parts) \in Seq(Text) /\ Last(parts) \in Text
    BY <1>1 DEF Front, Last
<1>4. Append(Last(parts), c) \in Text
    BY <1>3, AppendProperties DEF Text
<1>5. \A ps \in Seq(Text), t \in Text : Append(ps, t) \in Parts
    BY AppendProperties DEF Parts
<1> QED
    BY <1>1, <1>2, <1>3, <1>4, <1>5

LEMMA SplitIs ==
    ASSUME NEW s \in Text, NEW C
    PROVE  Split(s, C) \in Parts
<1>1. << <<>> >> \in Parts
    BY DEF Parts, Text
<1>2. \A i \in 1 .. Len(s) : \A parts \in Parts : Cut(C)[s[i]][parts] \in Parts
    BY CutIs DEF Text
<1> QED
    BY <1>1, <1>2, LoopIn DEF Split, Text

LEMMA PrefixAppend ==
    ASSUME NEW S, NEW s \in Seq(S), NEW i \in 1 .. Len(s)
    PROVE  /\ SubSeq(s, 1, i - 1) \in Seq(S)
           /\ Append(SubSeq(s, 1, i - 1), s[i]) = SubSeq(s, 1, i)
<1>1. Len(s) \in Nat /\ \A j \in 1 .. Len(s) : s[j] \in S
    OBVIOUS
<1>2. /\ SubSeq(s, 1, i - 1) \in Seq(S) /\ Len(SubSeq(s, 1, i - 1)) = i - 1
      /\ \A j \in 1 .. i - 1 : SubSeq(s, 1, i - 1)[j] = s[j]
    BY <1>1, SubSeqProperties
<1>3. /\ SubSeq(s, 1, i) \in Seq(S) /\ Len(SubSeq(s, 1, i)) = i
      /\ \A j \in 1 .. i : SubSeq(s, 1, i)[j] = s[j]
    BY <1>1, SubSeqProperties
<1> DEFINE t == SubSeq(s, 1, i - 1)
           u == SubSeq(s, 1, i)
<1>4. t \in Seq(S) /\ u \in Seq(S) /\ Len(t) = i - 1 /\ Len(u) = i
    BY <1>2, <1>3
<1>5. \A j \in 1 .. i - 1 : t[j] = s[j] /\ u[j] = s[j]
    BY <1>2, <1>3
<1>6. u[i] = s[i]
    BY <1>3
<1> HIDE DEF t, u
<1>7. /\ Append(t, s[i]) \in Seq(S) /\ Len(Append(t, s[i])) = i
      /\ \A j \in 1 .. i - 1 : Append(t, s[i])[j] = t[j]
      /\ Append(t, s[i])[i] = s[i]
    BY <1>1, <1>4, AppendProperties
<1>8. Append(t, s[i]) = u
    BY <1>4, <1>5, <1>6, <1>7, SeqEqual
<1> QED
    BY <1>4, <1>8 DEF t, u

LEMMA LoopOne ==
    ASSUME NEW step, NEW base, NEW x
    PROVE  Loop(step, base, <<x>>) = step[x][base]
<1>1. <<x>> \in Seq({x}) /\ Len(<<x>>) = 1 /\ <<x>>[1] = x
    OBVIOUS
<1> DEFINE s == <<x>>
<1> HIDE DEF s
<1>2. Len(s) = 1 /\ s[1] = x
    BY <1>1 DEF s
<1> DEFINE D == {x}
<1>d. s \in Seq(D)
    BY <1>1 DEF s
<1> HIDE DEF D
<1>3. PICK after : /\ DOMAIN after = 0 .. Len(s) /\ after[0] = base
                   /\ \A i \in 1 .. Len(s) : after[i] = step[s[i]][after[i - 1]]
                   /\ Loop(step, base, s) = after[Len(s)]
    BY <1>d, LoopIs
<1>4. Loop(step, base, s) = step[x][base]
    BY <1>2, <1>3
<1> QED
    BY <1>4 DEF s

\* A text without separators is all there is to split.
LEMMA SplitWhole ==
    ASSUME NEW s \in Text, NEW C, \A i \in 1 .. Len(s) : s[i] \notin C
    PROVE  Split(s, C) = <<s>>
<1> DEFINE inv == [i \in 0 .. Len(s) |-> {<<SubSeq(s, 1, i)>>}]
<1>0. Len(s) \in Nat
    BY DEF Text
<1>1. \A i \in 0 .. Len(s) : inv[i] = {<<SubSeq(s, 1, i)>>}
    OBVIOUS
<1>2. << <<>> >> \in inv[0]
  <2>1. SubSeq(s, 1, 0) = <<>>
      BY SubSeqEmpty
  <2> QED
      BY <1>0, <1>1, <2>1
<1> HIDE DEF inv
<1>3. ASSUME NEW i \in 1 .. Len(s), NEW acc \in inv[i - 1]
      PROVE  Cut(C)[s[i]][acc] \in inv[i]
  <2> DEFINE t == SubSeq(s, 1, i - 1)
  <2>1. acc = <<t>>
      BY <1>0, <1>1
  <2>2. t \in Text /\ Append(t, s[i]) = SubSeq(s, 1, i)
      BY PrefixAppend DEF Text
  <2> HIDE DEF t
  <2>3. <<t>> \in Seq(Text) /\ Front(<<t>>) = <<>> /\ Last(<<t>>) = t
      BY <2>2 DEF Front, Last
  <2>4. s[i] \in Chars
      BY DEF Text
  <2>5. Cut(C)[s[i]][<<t>>] = Append(<<>>, Append(t, s[i]))
      BY <2>3, <2>4 DEF Cut
  <2>6. Append(<<>>, Append(t, s[i])) = <<Append(t, s[i])>>
      OBVIOUS
  <2> QED
      BY <1>0, <1>1, <2>1, <2>2, <2>5, <2>6
<1>4. Split(s, C) \in inv[Len(s)]
    BY <1>2, <1>3, LoopInvariant DEF Split, Text
<1>5. SubSeq(s, 1, Len(s)) = s
    BY SubSeqFull DEF Text
<1> QED
    BY <1>0, <1>1, <1>4, <1>5

\* A path of plain elements is where it says.
LEMMA ResolveIs ==
    ASSUME NEW path \in Seq(Plain)
    PROVE  Resolve(path) = Root \o path
<1>0. path \in Seq(Text) /\ Len(path) \in Nat
  <2>1. Plain \subseteq Text
      BY DEF Plain, Element
  <2> QED
      BY <2>1, SeqMonotonic
<1>r. Root \in Seq(Text) /\ Len(Root) \in Nat
  <2>1. "a" \in Chars
      BY DEF Chars, Alphabet, Letters
  <2>2. <<"a">> \in Text
      BY <2>1 DEF Text
  <2> QED
      BY <2>2 DEF Root
<1>1. ASSUME NEW e \in Plain, NEW at \in Seq(Text)
      PROVE  Walk[e][at] = Append(at, e)
  <2>1. e \in Text /\ e # <<>> /\ e[1] # "." /\ \A i \in 1 .. Len(e) : e[i] \notin {"/"}
      BY CharFacts DEF Plain, Element
  <2>2. e \notin {<<>>, <<".">>, <<".", ".">>}
      BY <2>1
  <2>3. Enter[e][at] = Append(at, e)
      BY <2>1, <2>2 DEF Enter
  <2>4. Walk[e][at] = Loop(Enter, at, <<e>>)
      BY <2>1, SplitWhole DEF Walk
  <2> QED
      BY <2>3, <2>4, LoopOne
<1> DEFINE reached(i) == Root \o SubSeq(path, 1, i)
           inv == [i \in 0 .. Len(path) |-> {reached(i)}]
<1>2. reached(0) = Root /\ reached(Len(path)) = Root \o path
  <2>1. SubSeq(path, 1, 0) = <<>> /\ SubSeq(path, 1, Len(path)) = path
      BY <1>0, SubSeqEmpty, SubSeqFull
  <2>2. Root \o <<>> = Root
      BY <1>r, ConcatEmptySeq
  <2> QED
      BY <2>1, <2>2
<1>3. ASSUME NEW i \in 1 .. Len(path)
      PROVE  reached(i - 1) \in Seq(Text) /\ Append(reached(i - 1), path[i]) = reached(i)
  <2> DEFINE t == SubSeq(path, 1, i - 1)
  <2>1. t \in Seq(Text) /\ Append(t, path[i]) = SubSeq(path, 1, i) /\ path[i] \in Text
      BY <1>0, PrefixAppend
  <2> HIDE DEF t
  <2>2. Root \o t \in Seq(Text)
      BY <1>r, <2>1, ConcatProperties
  <2>3. Append(Root \o t, path[i]) = (Root \o t) \o <<path[i]>>
      BY <2>1, <2>2, AppendIsConcat
  <2>4. Append(t, path[i]) = t \o <<path[i]>>
      BY <2>1, AppendIsConcat
  <2>5. <<path[i]>> \in Seq(Text)
      BY <2>1
  <2>6. (Root \o t) \o <<path[i]>> = Root \o (t \o <<path[i]>>)
      BY <1>r, <2>1, <2>5, ConcatAssociative
  <2>7. reached(i - 1) = Root \o t /\ reached(i) = Root \o Append(t, path[i])
      BY <2>1 DEF t
  <2> QED
      BY <2>2, <2>3, <2>4, <2>6, <2>7
<1> HIDE DEF reached
<1>4. \A i \in 0 .. Len(path) : inv[i] = {reached(i)}
    OBVIOUS
<1> HIDE DEF inv
<1>5. ASSUME NEW i \in 1 .. Len(path), NEW at \in inv[i - 1]
      PROVE  Walk[path[i]][at] \in inv[i]
  <2>1. at = reached(i - 1) /\ path[i] \in Plain
      BY <1>0, <1>4
  <2>2. Walk[path[i]][at] = Append(at, path[i])
      BY <1>1, <1>3, <2>1
  <2>3. Append(at, path[i]) = reached(i)
      BY <1>3, <2>1
  <2>4. inv[i] = {reached(i)}
      BY <1>0, <1>4
  <2> QED
      BY <2>2, <2>3, <2>4
<1>6. Loop(Walk, Root, path) = Root \o path
  <2>1. Root \in inv[0]
      BY <1>0, <1>2, <1>4
  <2>2. Loop(Walk, Root, path) \in inv[Len(path)]
      BY <1>0, <1>5, <2>1, LoopInvariant
  <2> QED
      BY <1>0, <1>2, <1>4, <2>2
<1>7. IsPrefix(Root, Root \o path)
  <2>1. Len(Root \o path) = Len(Root) + Len(path)
      BY <1>0, <1>r, ConcatProperties
  <2>2. Len(Root) = 1
      BY DEF Root
  <2>3. SubSeq(Root \o path, 1, Len(Root)) = SubSeq(Root, 1, Len(Root))
    <3>1. 1 \in 1 .. Len(Root) /\ Len(Root) \in 1 .. Len(Root)
        BY <2>2
    <3> QED
        BY <1>0, <1>r, <3>1, SubSeqOfConcat1
  <2> QED
      BY <1>0, <1>r, <2>1, <2>3 DEF IsPrefix
<1> QED
    BY <1>6, <1>7 DEF Resolve

LEMMA PlainConcat ==
    ASSUME NEW s \in Plain, NEW t \in Element
    PROVE  s \o t \in Plain
<1>1. /\ s \in Seq(Chars) /\ t \in Seq(Chars) /\ Len(s) \in Nat /\ Len(t) \in Nat
      /\ s # <<>> /\ s[1] # "."
    BY DEF Plain, Element, Text
<1>2. /\ \A i \in 1 .. Len(s) : s[i] \notin Separators
      /\ \A i \in 1 .. Len(t) : t[i] \notin Separators
    BY DEF Plain, Element
<1>3. /\ s \o t \in Seq(Chars) /\ Len(s \o t) = Len(s) + Len(t)
      /\ \A i \in 1 .. Len(s) : (s \o t)[i] = s[i]
      /\ \A i \in 1 .. Len(t) : (s \o t)[Len(s) + i] = t[i]
    BY <1>1
<1>4. ASSUME NEW i \in 1 .. Len(s \o t)
      PROVE  (s \o t)[i] \notin Separators
  <2>1. CASE i <= Len(s)
      BY <1>1, <1>2, <1>3, <2>1
  <2>2. CASE i > Len(s)
    <3>1. i - Len(s) \in 1 .. Len(t) /\ Len(s) + (i - Len(s)) = i
        BY <1>1, <1>3, <2>2
    <3> QED
        BY <1>2, <1>3, <3>1
  <2> QED
      BY <1>1, <1>3, <2>1, <2>2
<1>5. Len(s) # 0 /\ 1 \in 1 .. Len(s)
    BY <1>1
<1>6. s \o t # <<>> /\ (s \o t)[1] # "."
    BY <1>1, <1>3, <1>5
<1> QED
    BY <1>3, <1>4, <1>6 DEF Plain, Element, Text

\* A text that starts so can go on as it likes.
LEMMA PlainAppend ==
    ASSUME NEW s \in Plain, NEW c \in Chars, c \notin Separators
    PROVE  Append(s, c) \in Plain
<1>1. s \in Seq(Chars) /\ s \in Element /\ s # <<>> /\ s[1] # "."
    BY DEF Plain, Element, Text
<1>2. Append(s, c) \in Element
    BY <1>1, AppendElement
<1>3. Len(s) \in Nat \ {0}
    BY <1>1
<1>4. Append(s, c)[1] = s[1] /\ Append(s, c) # <<>>
    BY <1>1, <1>3, AppendProperties
<1> QED
    BY <1>1, <1>2, <1>4 DEF Plain

\* Mailbox names become plain directories.
LEMMA SafePathIs ==
    ASSUME NEW name \in Text
    PROVE  SafePath(name) \in Seq(Plain)
<1> DEFINE parts == Split(name, Separators \cup {"."})
           clean == Loop(KeepPart, <<>>, parts)
<1>1. parts \in Seq(Text)
    BY SplitIs DEF Parts
<1>2. Plain \subseteq Text
    BY DEF Plain, Element
<1> HIDE DEF parts
<1>3. ASSUME NEW i \in 1 .. Len(parts), NEW acc \in Seq(Plain)
      PROVE  KeepPart[parts[i]][acc] \in Seq(Plain)
  <2>1. parts[i] \in Text /\ acc \in Seq(Text)
      BY <1>1, <1>2, SeqMonotonic
  <2> DEFINE safe == SafeFilename(parts[i])
  <2>2. KeepPart[parts[i]][acc] = IF safe \in {<<>>, <<".">>, <<".", ".">>} THEN acc
                                  ELSE Append(acc, safe)
      BY <2>1 DEF KeepPart
  <2>3. safe # <<>> => safe \in Plain
      BY <2>1, SafeFilenameIs
  <2> HIDE DEF safe
  <2> QED
      BY <2>2, <2>3
<1> DEFINE Paths == Seq(Plain)
<1>p. /\ <<>> \in Paths
      /\ \A i \in 1 .. Len(parts) : \A acc \in Paths : KeepPart[parts[i]][acc] \in Paths
    BY <1>3
<1> HIDE DEF Paths
<1>q. clean \in Paths
    BY <1>1, <1>p, LoopIn
<1>4. clean \in Seq(Plain)
    BY <1>q DEF Paths
<1>5. <<Unknown>> \in Seq(Plain)
  <2>1. "unknown" \in Chars /\ "unknown" \notin Separators
      BY CharFacts DEF Words
  <2>2. Unknown \in Plain
      BY <2>1 DEF Unknown, Plain, Element, Text
  <2> QED
      BY <2>2
<1> QED
    BY <1>4, <1>5 DEF SafePath, parts

SlugChars == Letters \cup Digits \cup {"-", "no-subject"}

LEMMA SlugCharFacts == SlugChars \subseteq Chars /\ SlugChars \cap Separators = {}
BY CharFacts DEF SlugChars, Words

LEMMA LowerIs ==
    ASSUME NEW text \in Text
    PROVE  [i \in DOMAIN text |-> ToLower(text[i])] \in Seq(Chars)
<1>1. /\ Len(text) \in Nat /\ DOMAIN text = 1 .. Len(text)
      /\ \A i \in 1 .. Len(text) : text[i] \in Chars
    BY DEF Text
<1>2. \A c \in Chars : ToLower(c) \in Chars
  <2>1. DOMAIN Upper = {"A"} /\ Upper["A"] = "a"
      BY DEF Upper
  <2>2. "a" \in Chars
      BY CharFacts DEF Letters
  <2> QED
      BY <2>1, <2>2 DEF ToLower
<1>3. [i \in DOMAIN text |-> ToLower(text[i])] \in [1 .. Len(text) -> Chars]
    BY <1>1, <1>2
<1> QED
    BY <1>1, <1>3, SeqDef

\* A slug is made of what Slug writes, and below the cap but for the letter that
\* meets it.
LEMMA SlugIs ==
    ASSUME NEW text \in Text
    PROVE  /\ Slug(text) \in Seq(SlugChars) /\ Slug(text) \in Element
           /\ Slug(text) # <<>> /\ Slug(text)[1] # "-" /\ Slug(text)[Len(Slug(text))] # "-"
           /\ Bytes(Slug(text)) <= MaxSlug + 1
<1> DEFINE lower == [i \in DOMAIN text |-> ToLower(text[i])]
           start == [slug |-> <<>>, dash |-> TRUE, full |-> FALSE]
           Some  == {acc \in [slug : Seq(SlugChars), dash : BOOLEAN, full : BOOLEAN] :
                        /\ Bytes(acc.slug) <= MaxSlug + 1
                        /\ ~acc.full => Bytes(acc.slug) < MaxSlug}
           end   == Loop(SlugRune, start, lower)
<1>1. lower \in Seq(Chars)
    BY LowerIs
<1> HIDE DEF lower
<1>b. \A t \in Seq(SlugChars) : t \in Text /\ Bytes(t) \in Nat
  <2>1. \A t \in Seq(SlugChars) : t \in Text
      BY SlugCharFacts, SeqMonotonic DEF Text
  <2> QED
      BY <2>1, BytesIs
<1>2. start \in Some
  <2>1. Bytes(<<>>) = 0
    <3>1. Wide(<<>>) = {} /\ Len(<<>>) = 0 /\ <<>> \in Text
        BY DEF Wide, Text
    <3> QED
        BY <3>1, BytesIs, FS_EmptySet
  <2> QED
      BY <2>1, PathsAssumption
<1>3. ASSUME NEW i \in 1 .. Len(lower), NEW acc \in Some
      PROVE  SlugRune[lower[i]][acc] \in Some
  <2>1. Seq(SlugChars) \subseteq Text
      BY SlugCharFacts, SeqMonotonic DEF Text
  <2>2. lower[i] \in Chars /\ acc \in [slug : Text, dash : BOOLEAN, full : BOOLEAN]
      BY <1>1, <2>1
  <2> DEFINE slug == IF lower[i] \in Letters \cup Digits THEN Append(acc.slug, lower[i])
                     ELSE IF acc.dash THEN acc.slug ELSE Append(acc.slug, "-")
  <2>3. SlugRune[lower[i]][acc] =
            IF acc.full THEN acc
            ELSE [slug |-> slug, dash |-> lower[i] \notin Letters \cup Digits,
                  full |-> Bytes(slug) >= MaxSlug]
      BY <2>2 DEF SlugRune
  <2>4. slug \in Seq(SlugChars) /\ Bytes(slug) <= Bytes(acc.slug) + 2
    <3>1. acc.slug \in Seq(SlugChars) /\ acc.slug \in Text /\ Bytes(acc.slug) \in Nat
        BY <1>b
    <3>2. \A c \in SlugChars : /\ Append(acc.slug, c) \in Seq(SlugChars)
                               /\ Bytes(Append(acc.slug, c)) <= Bytes(acc.slug) + 2
        BY <3>1, SlugCharFacts, BytesAppend
    <3>3. "-" \in SlugChars /\ Letters \cup Digits \subseteq SlugChars
        BY DEF SlugChars
    <3> DEFINE whole == acc.slug
    <3> HIDE DEF whole
    <3>4. slug = whole \/ \E c \in SlugChars : slug = Append(whole, c)
        BY <3>3 DEF whole
    <3> HIDE DEF slug
    <3>5. whole \in Seq(SlugChars) /\ Bytes(whole) \in Nat
        BY <3>1 DEF whole
    <3>6. \A c \in SlugChars : /\ Append(whole, c) \in Seq(SlugChars)
                               /\ Bytes(Append(whole, c)) <= Bytes(whole) + 2
        BY <3>2 DEF whole
    <3>7. slug \in Seq(SlugChars) /\ Bytes(slug) <= Bytes(whole) + 2
      <4>1. CASE slug = whole
          BY <3>5, <4>1
      <4>2. CASE slug # whole
          BY <3>4, <3>6, <4>2
      <4> QED
          BY <4>1, <4>2
    <3> QED
        BY <3>7 DEF whole
  <2> HIDE DEF slug
  <2>5. Bytes(slug) \in Nat /\ Bytes(acc.slug) \in Nat
      BY <1>b, <2>4
  <2>6. CASE acc.full
      BY <2>3, <2>6
  <2>7. CASE ~acc.full
    <3> DEFINE dash == lower[i] \notin Letters \cup Digits
               full == Bytes(slug) >= MaxSlug
               next == [slug |-> slug, dash |-> dash, full |-> full]
    <3>1. Bytes(slug) <= MaxSlug + 1
        BY <2>4, <2>5, <2>7, PathsAssumption
    <3>2. dash \in BOOLEAN /\ full \in BOOLEAN /\ (~full => Bytes(slug) < MaxSlug)
        BY <2>5, PathsAssumption
    <3>3. next \in Some
      <4> HIDE DEF dash, full
      <4> QED
          BY <2>4, <3>1, <3>2
    <3> QED
        BY <2>3, <2>7, <3>3
  <2> QED
      BY <2>6, <2>7
<1> HIDE DEF Some, start
<1>4. end \in Some
    BY <1>1, <1>2, <1>3, LoopIn
<1> DEFINE slug == Trim(end.slug, {"-"})
<1>5. /\ slug \in Seq(SlugChars) /\ Bytes(slug) <= MaxSlug + 1
      /\ slug # <<>> => slug[1] # "-" /\ slug[Len(slug)] # "-"
  <2> DEFINE whole == end.slug
             trimmed == Trim(whole, {"-"})
  <2>1. whole \in Seq(SlugChars) /\ Bytes(whole) <= MaxSlug + 1
      BY <1>4 DEF Some
  <2> HIDE DEF whole, end
  <2>2. whole \in Text /\ Bytes(whole) \in Nat
      BY <1>b, <2>1
  <2>3. /\ trimmed \in Text
        /\ \A i \in 1 .. Len(trimmed) : \E j \in 1 .. Len(whole) : trimmed[i] = whole[j]
        /\ trimmed # <<>> => trimmed[1] \notin {"-"} /\ trimmed[Len(trimmed)] \notin {"-"}
      BY <2>2, TrimIs
  <2>4. Bytes(trimmed) <= Bytes(whole)
      BY <2>2, BytesTrim
  <2> HIDE DEF trimmed
  <2>5. trimmed \in Seq(SlugChars)
    <3>1. \A i \in 1 .. Len(trimmed) : trimmed[i] \in SlugChars
        BY <2>1, <2>3
    <3> QED
        BY <2>3, <3>1, SeqDef DEF Text
  <2>6. Bytes(trimmed) \in Nat
      BY <1>b, <2>5
  <2>7. Bytes(trimmed) <= MaxSlug + 1
      BY <2>1, <2>2, <2>4, <2>6, PathsAssumption
  <2> QED
      BY <2>3, <2>5, <2>7 DEF trimmed, whole
<1>6. /\ NoSubject \in Seq(SlugChars) /\ Bytes(NoSubject) <= MaxSlug + 1
      /\ NoSubject # <<>> /\ NoSubject[1] # "-" /\ NoSubject[Len(NoSubject)] # "-"
  <2>1. NoSubject \in Seq(SlugChars) /\ Len(NoSubject) = 1 /\ NoSubject[1] = "no-subject"
      BY DEF NoSubject, SlugChars
  <2>2. Wide(NoSubject) = {}
      BY <2>1 DEF Wide
  <2>3. Bytes(NoSubject) = 1
    <3>1. NoSubject \in Text
        BY <1>b, <2>1
    <3>2. Bytes(NoSubject) = Len(NoSubject) + Cardinality(Wide(NoSubject))
        BY <3>1, BytesIs
    <3> QED
        BY <2>1, <2>2, <3>2, FS_EmptySet
  <2> QED
      BY <2>1, <2>3, PathsAssumption
<1>7. Slug(text) = IF slug = <<>> THEN NoSubject ELSE slug
    BY DEF Slug, lower, start
<1> HIDE DEF slug
<1>8. /\ Slug(text) \in Seq(SlugChars) /\ Bytes(Slug(text)) <= MaxSlug + 1
      /\ Slug(text) # <<>> /\ Slug(text)[1] # "-" /\ Slug(text)[Len(Slug(text))] # "-"
    BY <1>5, <1>6, <1>7
<1>9. \A t \in Seq(SlugChars) : t \in Element
  <2>1. \A t \in Seq(SlugChars) : t \in Text
      BY SlugCharFacts, SeqMonotonic DEF Text
  <2> QED
      BY <2>1, SlugCharFacts DEF Element
<1> QED
    BY <1>8, <1>9

\* Where s has a character of a word, or the first one after a word, and what
\* the slug has for it.
Marked(s)     == {k \in 1 .. Len(s) : \/ s[k] \in Letters \cup Digits
                                      \/ k > 1 /\ s[k - 1] \in Letters \cup Digits}
Mark(s, k)    == IF s[k] \in Letters \cup Digits THEN s[k] ELSE "-"

\* t has what is marked in the first n characters of s, at these places.
Follows(at, t, s, n) ==
    /\ at \in [1 .. Len(t) -> 1 .. n]
    /\ \A j, k \in 1 .. Len(t) : j < k => at[j] < at[k]
    /\ \A k \in 1 .. Len(t) : at[k] \in Marked(s) /\ t[k] = Mark(s, at[k])
    /\ \A p \in Marked(s) : p <= n => \E k \in 1 .. Len(t) : at[k] = p

LEMMA MarkIs ==
    ASSUME NEW s \in Seq(Chars), NEW k \in 1 .. Len(s)
    PROVE  Mark(s, k) \in SlugChars /\ (Mark(s, k) = "-" <=> s[k] \notin Letters \cup Digits)
BY DEF Mark, SlugChars, Letters, Digits

\* Nothing marked is missed, whether the next character is or not.
LEMMA FollowsOn ==
    ASSUME NEW s \in Seq(Chars), NEW t \in Seq(SlugChars), NEW at, NEW n \in Nat,
           n < Len(s), Follows(at, t, s, n)
    PROVE  /\ n + 1 \notin Marked(s) => Follows(at, t, s, n + 1)
           /\ n + 1 \in Marked(s) =>
                  \E b : Follows(b, Append(t, Mark(s, n + 1)), s, n + 1)
<1>0. /\ Len(s) \in Nat /\ Len(t) \in Nat
      /\ at \in [1 .. Len(t) -> 1 .. n]
      /\ \A j, k \in 1 .. Len(t) : j < k => at[j] < at[k]
      /\ \A k \in 1 .. Len(t) : at[k] \in Marked(s) /\ t[k] = Mark(s, at[k])
      /\ \A p \in Marked(s) : p <= n => \E k \in 1 .. Len(t) : at[k] = p
    BY DEF Follows
<1>1. ASSUME n + 1 \notin Marked(s)
      PROVE  Follows(at, t, s, n + 1)
  <2>1. at \in [1 .. Len(t) -> 1 .. n + 1]
    <3>1. \A k \in 1 .. Len(t) : at[k] \in 1 .. n + 1
        BY <1>0
    <3> QED
        BY <1>0, <3>1
  <2>2. \A p \in Marked(s) : p <= n + 1 => p <= n
      BY <1>1 DEF Marked
  <2> QED
      BY <1>0, <2>1, <2>2 DEF Follows
<1>2. ASSUME n + 1 \in Marked(s)
      PROVE  \E b : Follows(b, Append(t, Mark(s, n + 1)), s, n + 1)
  <2> DEFINE m == Len(t) + 1
             u == Append(t, Mark(s, n + 1))
             b == [k \in 1 .. m |-> IF k = m THEN n + 1 ELSE at[k]]
  <2>1. /\ Len(u) = m /\ u[m] = Mark(s, n + 1)
        /\ \A k \in 1 .. Len(t) : u[k] = t[k]
    <3>1. Mark(s, n + 1) \in SlugChars
      <4>1. n + 1 \in 1 .. Len(s)
          BY <1>0
      <4> QED
          BY <4>1, MarkIs
    <3> HIDE DEF m
    <3> QED
        BY <3>1, AppendProperties DEF m
  <2>2. /\ \A k \in 1 .. m : k # m => k \in 1 .. Len(t)
        /\ b[m] = n + 1 /\ \A k \in 1 .. Len(t) : b[k] = at[k]
      BY <1>0
  <2>3. DOMAIN b = 1 .. m
      OBVIOUS
  <2>4. \A k \in 1 .. m : b[k] \in 1 .. n + 1
      BY <1>0
  <2>5. b \in [1 .. m -> 1 .. n + 1]
      BY <2>4
  <2> HIDE DEF u, b
  <2>6. \A j, k \in 1 .. m : j < k => b[j] < b[k]
    <3> TAKE j, k \in 1 .. m
    <3> HAVE j < k
    <3>1. j \in 1 .. Len(t) /\ at[j] \in 1 .. n
        BY <1>0
    <3>2. CASE k = m
        BY <1>0, <2>2, <3>1, <3>2
    <3>3. CASE k # m
        BY <1>0, <2>2, <3>1, <3>3
    <3> QED
        BY <3>2, <3>3
  <2>7. \A k \in 1 .. m : b[k] \in Marked(s) /\ u[k] = Mark(s, b[k])
    <3> TAKE k \in 1 .. m
    <3>1. CASE k = m
        BY <1>2, <2>1, <2>2, <3>1
    <3>2. CASE k # m
        BY <1>0, <2>1, <2>2, <3>2
    <3> QED
        BY <3>1, <3>2
  <2>8. \A p \in Marked(s) : p <= n + 1 => \E k \in 1 .. m : b[k] = p
    <3> TAKE p \in Marked(s)
    <3> HAVE p <= n + 1
    <3>1. m \in 1 .. m /\ \A k \in 1 .. Len(t) : k \in 1 .. m
        BY <1>0
    <3>2. CASE p = n + 1
        BY <2>2, <3>1, <3>2
    <3>3. CASE p # n + 1
      <4>1. p <= n
          BY <3>3 DEF Marked
      <4> QED
          BY <1>0, <2>2, <3>1, <4>1
    <3> QED
        BY <3>2, <3>3
  <2> HIDE DEF m
  <2>9. Follows(b, u, s, n + 1)
      BY <2>1, <2>5, <2>6, <2>7, <2>8 DEF Follows
  <2> QED
      BY <2>9 DEF u
<1> QED
    BY <1>1, <1>2

\* The loop of Slug marks what it reads, and only a full slug ends it early.
LEMMA RoundsAreMarks ==
    ASSUME NEW s \in Seq(Chars)
    PROVE  LET end == Loop(SlugRune, [slug |-> <<>>, dash |-> TRUE, full |-> FALSE], s)
           IN  /\ end.slug \in Seq(SlugChars)
               /\ \E n \in 0 .. Len(s) : /\ \E at : Follows(at, end.slug, s, n)
                                         /\ n < Len(s) => Bytes(end.slug) >= MaxSlug
<1> DEFINE start == [slug |-> <<>>, dash |-> TRUE, full |-> FALSE]
           Accs  == [slug : Seq(SlugChars), dash : BOOLEAN, full : BOOLEAN]
           Good(acc, i) == \E n \in 0 .. i : /\ \E at : Follows(at, acc.slug, s, n)
                                             /\ acc.full \/ n = i
                                             /\ acc.full => Bytes(acc.slug) >= MaxSlug
                                             /\ acc.dash <=> n = 0 \/ s[n] \notin Letters \cup Digits
           inv   == [i \in 0 .. Len(s) |-> {acc \in Accs : Good(acc, i)}]
<1>0. Len(s) \in Nat /\ \A i \in 1 .. Len(s) : s[i] \in Chars
    OBVIOUS
<1>1. \A i \in 0 .. Len(s) : inv[i] = {acc \in Accs : Good(acc, i)}
    OBVIOUS
<1>2. start \in inv[0]
  <2>1. Follows(<<>>, <<>>, s, 0)
    <3>1. <<>> \in [1 .. Len(<<>>) -> 1 .. 0] /\ Len(<<>>) = 0
        OBVIOUS
    <3>2. \A p \in Marked(s) : ~(p <= 0)
        BY DEF Marked
    <3> QED
        BY <3>1, <3>2 DEF Follows
  <2>2. Good(start, 0)
      BY <2>1
  <2> QED
      BY <1>0, <2>2
<1>3. ASSUME NEW i \in 1 .. Len(s), NEW acc \in inv[i - 1]
      PROVE  SlugRune[s[i]][acc] \in inv[i]
  <2>0. acc \in Accs /\ Good(acc, i - 1) /\ i \in 0 .. Len(s)
      BY <1>0
  <2>1. PICK n \in 0 .. i - 1 : /\ \E at : Follows(at, acc.slug, s, n)
                                /\ acc.full \/ n = i - 1
                                /\ acc.full => Bytes(acc.slug) >= MaxSlug
                                /\ acc.dash <=> n = 0 \/ s[n] \notin Letters \cup Digits
      BY <2>0
  <2>2. PICK at : Follows(at, acc.slug, s, n)
      BY <2>1
  <2>3. Seq(SlugChars) \subseteq Text
      BY SlugCharFacts, SeqMonotonic DEF Text
  <2>4. s[i] \in Chars /\ acc \in [slug : Text, dash : BOOLEAN, full : BOOLEAN]
      BY <1>0, <2>0, <2>3
  <2> DEFINE slug == IF s[i] \in Letters \cup Digits THEN Append(acc.slug, s[i])
                     ELSE IF acc.dash THEN acc.slug ELSE Append(acc.slug, "-")
             next == [slug |-> slug, dash |-> s[i] \notin Letters \cup Digits,
                      full |-> Bytes(slug) >= MaxSlug]
  <2>5. SlugRune[s[i]][acc] = IF acc.full THEN acc ELSE next
      BY <2>4 DEF SlugRune
  <2>6. CASE acc.full
    <3>1. n \in 0 .. i
        OBVIOUS
    <3>2. Good(acc, i)
        BY <2>1, <2>6, <3>1
    <3> QED
        BY <2>0, <2>5, <2>6, <3>2
  <2>7. CASE ~acc.full
    <3>1. n = i - 1 /\ n < Len(s) /\ n \in Nat /\ n + 1 = i
        BY <1>0, <2>1, <2>7
    <3>2. /\ i \notin Marked(s) => Follows(at, acc.slug, s, i)
          /\ i \in Marked(s) => \E b : Follows(b, Append(acc.slug, Mark(s, i)), s, i)
        BY <2>0, <2>2, <3>1, FollowsOn
    <3>3. /\ i \in Marked(s) <=> s[i] \in Letters \cup Digits \/ ~acc.dash
          /\ s[i] \in Letters \cup Digits => Mark(s, i) = s[i]
          /\ s[i] \notin Letters \cup Digits => Mark(s, i) = "-"
        BY <2>1, <3>1 DEF Marked, Mark
    <3>4. slug = IF i \in Marked(s) THEN Append(acc.slug, Mark(s, i)) ELSE acc.slug
        BY <3>3
    <3>5. slug \in Seq(SlugChars)
      <4> DEFINE whole == acc.slug
                 mark  == Mark(s, i)
      <4>1. mark \in SlugChars /\ whole \in Seq(SlugChars)
          BY <2>0, MarkIs
      <4> HIDE DEF slug, mark, whole
      <4>2. Append(whole, mark) \in Seq(SlugChars)
          BY <4>1
      <4>3. slug = IF i \in Marked(s) THEN Append(whole, mark) ELSE whole
          BY <3>4 DEF whole, mark
      <4> QED
          BY <4>1, <4>2, <4>3
    <3> HIDE DEF slug
    <3>6. \E b : Follows(b, slug, s, i)
        BY <3>2, <3>4
    <3>7. next \in Accs
      <4> DEFINE full == Bytes(slug) >= MaxSlug
                 dash == s[i] \notin Letters \cup Digits
      <4>1. full \in BOOLEAN /\ dash \in BOOLEAN
        <5>1. slug \in Text
            BY <2>3, <3>5
        <5> QED
            BY <5>1, BytesIs, PathsAssumption
      <4> HIDE DEF full, dash
      <4> QED
          BY <3>5, <4>1
    <3>8. Good(next, i)
      <4>1. /\ next.slug = slug /\ (next.full <=> Bytes(slug) >= MaxSlug)
            /\ (next.dash <=> s[i] \notin Letters \cup Digits)
          OBVIOUS
      <4> HIDE DEF next
      <4>2. i \in 0 .. i /\ i # 0
          OBVIOUS
      <4> QED
          BY <3>6, <4>1, <4>2
    <3> QED
        BY <2>0, <2>5, <2>7, <3>7, <3>8
  <2> QED
      BY <2>6, <2>7
<1> HIDE DEF inv, start, Good
<1>4. Loop(SlugRune, start, s) \in inv[Len(s)]
    BY <1>2, <1>3, LoopInvariant
<1>5. Loop(SlugRune, start, s) \in Accs /\ Good(Loop(SlugRune, start, s), Len(s))
    BY <1>0, <1>1, <1>4
<1> DEFINE end == Loop(SlugRune, start, s)
<1> HIDE DEF end
<1>6. end.slug \in Seq(SlugChars)
    BY <1>5 DEF end
<1>7. \E n \in 0 .. Len(s) : /\ \E at : Follows(at, end.slug, s, n)
                             /\ n < Len(s) => Bytes(end.slug) >= MaxSlug
    BY <1>0, <1>5 DEF Good, end
<1> QED
    BY <1>6, <1>7 DEF end, start

\* Of what is marked a dash is left at the end, and only when no word follows.
LEMMA MarksTrimmed ==
    ASSUME NEW s \in Seq(Chars), NEW t \in Seq(SlugChars), NEW at, NEW n \in 0 .. Len(s),
           Follows(at, t, s, n), t # <<>>
    PROVE  \E m \in {Len(t) - 1, Len(t)} :
              /\ m \in 1 .. Len(t) /\ Trim(t, {"-"}) = SubSeq(t, 1, m)
              /\ s[at[m]] \in Letters \cup Digits
              /\ m # Len(t) => s[at[Len(t)]] \notin Letters \cup Digits /\ t[Len(t)] = "-"
<1> DEFINE e == Len(t)
           LD == Letters \cup Digits
<1>0. /\ Len(s) \in Nat /\ e \in Nat \ {0} /\ DOMAIN t = 1 .. e
      /\ at \in [1 .. e -> 1 .. n]
      /\ \A j, k \in 1 .. e : j < k => at[j] < at[k]
      /\ \A k \in 1 .. e : at[k] \in Marked(s) /\ t[k] = Mark(s, at[k])
      /\ \A p \in Marked(s) : p <= n => \E k \in 1 .. e : at[k] = p
    BY DEF Follows
<1> HIDE DEF e, LD
<1>1. \A k \in 1 .. e : at[k] \in 1 .. Len(s) /\ at[k] \in 1 .. n /\ (t[k] = "-" <=> s[at[k]] \notin LD)
  <2> TAKE k \in 1 .. e
  <2>1. at[k] \in 1 .. n /\ at[k] \in 1 .. Len(s)
      BY <1>0
  <2>2. t[k] = Mark(s, at[k])
      BY <1>0
  <2> QED
      BY <2>1, <2>2, MarkIs DEF LD
\* Before a dash there is the character that it follows.
<1>2. ASSUME NEW k \in 1 .. e, s[at[k]] \notin LD
      PROVE  k # 1 /\ k - 1 \in 1 .. e /\ s[at[k - 1]] \in LD
  <2> DEFINE p == at[k] - 1
  <2>1. at[k] \in Marked(s) /\ at[k] \in 1 .. n
      BY <1>0, <1>1
  <2>2. p \in 1 .. Len(s) /\ s[p] \in LD /\ p <= n
      BY <1>0, <1>2, <2>1 DEF Marked, LD
  <2>3. p \in Marked(s)
      BY <2>2 DEF Marked, LD
  <2>4. PICK j \in 1 .. e : at[j] = p
      BY <1>0, <2>2, <2>3
  <2>5. ~(k < j) /\ k # j
    <3>1. at[k] \in Nat /\ at[j] < at[k]
        BY <2>1, <2>4
    <3> HIDE DEF p
    <3> QED
        BY <1>0, <3>1, <1>1
  <2>6. k \in 2 .. e /\ k - 1 \in 1 .. e /\ j <= k - 1
      BY <1>0, <2>5
  <2>7. at[k - 1] < at[k] /\ at[k - 1] \in Nat /\ (j < k - 1 => at[j] < at[k - 1])
      BY <1>0, <1>1, <2>6
  <2>8. j = k - 1
      BY <2>1, <2>4, <2>6, <2>7
  <2> QED
      BY <2>2, <2>4, <2>6, <2>8
<1>3. 1 \in 1 .. e /\ e \in 1 .. e /\ s[at[1]] \in LD /\ t[1] # "-"
    BY <1>0, <1>1, <1>2
<1> DEFINE m == IF s[at[e]] \in LD THEN e ELSE e - 1
<1>4. /\ m \in {e - 1, e} /\ m \in 1 .. e /\ s[at[m]] \in LD
      /\ m # e => s[at[e]] \notin LD /\ t[e] = "-"
    BY <1>0, <1>1, <1>2, <1>3
<1>5. t[m] # "-"
    BY <1>1, <1>4
<1> HIDE DEF m
<1> DEFINE kept == {i \in DOMAIN t : t[i] \notin {"-"}}
<1>6. 1 \in kept /\ m \in kept /\ \A i \in kept : 1 <= i /\ i <= m
    BY <1>0, <1>3, <1>4, <1>5
<1>7. Min(kept) = 1 /\ Max(kept) = m
  <2>1. kept \in SUBSET Nat /\ kept \in SUBSET (0 .. e) /\ kept # {}
      BY <1>0, <1>6
  <2>2. e \in Nat /\ m \in Nat
      BY <1>0, <1>4
  <2> HIDE DEF kept
  <2>3. Min(kept) \in kept /\ \A x \in kept : Min(kept) <= x
      BY <2>1, MinIs
  <2>4. Max(kept) \in kept /\ \A x \in kept : x <= Max(kept)
      BY <2>1, <2>2, MaxIs
  <2> DEFINE low  == Min(kept)
             high == Max(kept)
  <2>5. low \in kept /\ low <= 1 /\ high \in kept /\ m <= high
      BY <1>6, <2>3, <2>4
  <2> HIDE DEF low, high
  <2>6. low \in Nat /\ high \in Nat /\ 1 <= low /\ high <= m
      BY <1>6, <2>1, <2>5
  <2> QED
      BY <2>2, <2>5, <2>6 DEF low, high
<1>8. Trim(t, {"-"}) = SubSeq(t, 1, m)
    BY <1>6, <1>7 DEF Trim
<1> QED
    BY <1>4, <1>8 DEF e, LD

\* A dash counts as one byte.
LEMMA BytesDash ==
    ASSUME NEW t \in Text, t # <<>>, t[Len(t)] = "-"
    PROVE  Bytes(SubSeq(t, 1, Len(t) - 1)) = Bytes(t) - 1
<1> DEFINE m == Len(t) - 1
           u == SubSeq(t, 1, m)
<1>1. t \in Seq(Chars) /\ Len(t) \in Nat \ {0} /\ m \in Nat /\ DOMAIN t = 1 .. m + 1
    BY DEF Text
<1>2. u \in Text /\ Len(u) = m /\ \A i \in 1 .. m : u[i] = t[i]
  <2>1. \A i \in 1 .. m : t[i] \in Chars
      BY <1>1
  <2> QED
      BY <1>1, <2>1, SubSeqProperties DEF Text
<1>3. t[m + 1] = "-"
    BY <1>1
<1> HIDE DEF u
<1>4. DOMAIN u = 1 .. m
    BY <1>2 DEF Text
<1> HIDE DEF m
<1>5. Wide(u) = Wide(t)
    BY <1>1, <1>2, <1>3, <1>4 DEF Wide
<1>6. Bytes(u) = m + Cardinality(Wide(u)) /\ Bytes(t) = Len(t) + Cardinality(Wide(t))
      /\ Cardinality(Wide(t)) \in Nat
    BY <1>2, BytesIs
<1>7. Bytes(u) = Bytes(t) - 1
    BY <1>1, <1>5, <1>6 DEF m
<1> QED
    BY <1>7 DEF u, m

\* What is left of the marks has the words and the dashes between them.
LEMMA MarksBetween ==
    ASSUME NEW s \in Seq(Chars), NEW t \in Seq(SlugChars), NEW at, NEW n \in 0 .. Len(s),
           Follows(at, t, s, n), NEW m \in 1 .. Len(t), s[at[m]] \in Letters \cup Digits,
           m = Len(t) \/ (m = Len(t) - 1 /\ s[at[Len(t)]] \notin Letters \cup Digits)
    PROVE  LET b == [k \in 1 .. m |-> at[k]]
               u == SubSeq(t, 1, m)
           IN  /\ u \in Text /\ Len(u) = m /\ DOMAIN u = 1 .. m /\ n \in 1 .. Len(s)
               /\ b \in [1 .. m -> 1 .. n]
               /\ \A j, k \in 1 .. m : j < k => b[j] < b[k]
               /\ Range(b) = InWords(s, n) \cup Between(s, n)
               /\ \A k \in 1 .. m : u[k] = IF b[k] \in InWords(s, n) THEN s[b[k]] ELSE "-"
<1> DEFINE LD == Letters \cup Digits
           e  == Len(t)
           u  == SubSeq(t, 1, m)
           b  == [k \in 1 .. m |-> at[k]]
<1>1. /\ Len(s) \in Nat /\ n \in 0 .. Len(s) /\ e \in Nat /\ m \in 1 .. e
      /\ at \in [1 .. e -> 1 .. n]
      /\ \A j, k \in 1 .. e : j < k => at[j] < at[k]
      /\ \A k \in 1 .. e : at[k] \in Marked(s) /\ t[k] = Mark(s, at[k])
      /\ \A p \in Marked(s) : p <= n => \E k \in 1 .. e : at[k] = p
    BY DEF Follows
<1>2. \A i \in 1 .. e : t[i] \in Chars
    BY SlugCharFacts
<1>3. s[at[m]] \in LD /\ (m = e \/ (m = e - 1 /\ s[at[e]] \notin LD))
    OBVIOUS
<1>4. InWords(s, n) = {k \in 1 .. n : s[k] \in LD}
    BY DEF InWords
<1> HIDE DEF e, LD
<1>5. \A k \in 1 .. e : at[k] \in 1 .. n /\ at[k] \in Nat
    BY <1>1
<1>6. m \in Nat /\ m <= e /\ (\A k \in 1 .. m : k \in 1 .. e) /\ n \in 1 .. Len(s)
  <2>1. at[m] \in 1 .. n
      BY <1>1, <1>5
  <2> QED
      BY <1>1, <2>1
<1>7. u \in Text /\ Len(u) = m /\ \A i \in 1 .. m : u[i] = t[i]
  <2>1. \A i \in 1 .. m : t[i] \in Chars
      BY <1>2, <1>6
  <2> QED
      BY <1>6, <2>1, SubSeqProperties DEF Text
<1> HIDE DEF u
<1>8. DOMAIN u = 1 .. m
    BY <1>7 DEF Text
<1>9. b \in [1 .. m -> 1 .. n] /\ \A k \in 1 .. m : b[k] = at[k]
    BY <1>5, <1>6
<1>10. \A j, k \in 1 .. m : j < k => b[j] < b[k]
    BY <1>1, <1>6, <1>9
<1>11. \A k \in 1 .. m : u[k] = IF b[k] \in InWords(s, n) THEN s[b[k]] ELSE "-"
  <2> TAKE k \in 1 .. m
  <2>1. u[k] = Mark(s, at[k]) /\ b[k] = at[k] /\ at[k] \in 1 .. n
      BY <1>1, <1>5, <1>6, <1>7, <1>9
  <2> QED
      BY <1>4, <2>1 DEF Mark, LD
<1>12. ASSUME NEW k \in 1 .. m
       PROVE  at[k] \in InWords(s, n) \/ at[k] \in Between(s, n)
  <2> SUFFICES ASSUME at[k] \notin InWords(s, n)
               PROVE  at[k] \in Between(s, n)
      OBVIOUS
  <2>1. at[k] \in Marked(s) /\ at[k] \in 1 .. n /\ s[at[k]] \notin LD
      BY <1>1, <1>4, <1>5, <1>6
  <2>2. at[k] \in 2 .. n /\ at[k] - 1 \in InWords(s, n)
      BY <1>4, <2>1 DEF Marked, LD
  <2>3. at[m] \in InWords(s, n) /\ at[m] > at[k]
    <3>1. k # m /\ k < m
        BY <1>3, <1>6, <2>1
    <3>2. at[m] \in 1 .. n /\ at[k] < at[m]
        BY <1>1, <1>5, <1>6, <3>1
    <3> QED
        BY <1>3, <1>4, <2>1, <3>2
  <2> QED
      BY <2>1, <2>2, <2>3 DEF Between
<1>13. ASSUME NEW p \in InWords(s, n) \cup Between(s, n)
       PROVE  \E k \in 1 .. m : at[k] = p
  <2>1. p \in Marked(s) /\ p \in 1 .. n
    <3>1. CASE p \in InWords(s, n)
        BY <1>4, <1>6, <3>1 DEF Marked, LD
    <3>2. CASE p \in Between(s, n)
        BY <1>4, <1>6, <3>2 DEF Marked, Between, LD
    <3> QED
        BY <3>1, <3>2
  <2>2. PICK k \in 1 .. e : at[k] = p
      BY <1>1, <2>1
  <2>3. PICK j \in InWords(s, n) : j >= p
    <3>1. CASE p \in InWords(s, n)
        BY <1>4, <3>1
    <3>2. CASE p \in Between(s, n)
        BY <1>4, <2>1, <3>2 DEF Between
    <3> QED
        BY <3>1, <3>2
  <2>4. j \in Marked(s) /\ j \in 1 .. n /\ s[j] \in LD
      BY <1>4, <1>6, <2>3 DEF Marked, LD
  <2>5. PICK l \in 1 .. e : at[l] = j
      BY <1>1, <2>4
  <2>6. k <= l
    <3>1. ~(l < k)
        BY <1>1, <2>1, <2>2, <2>3, <2>4, <2>5
    <3> QED
        BY <1>1, <3>1
  <2>7. m # e => l # e
      BY <1>3, <2>4, <2>5
  <2>8. k \in 1 .. m
      BY <1>1, <1>3, <2>2, <2>6, <2>7
  <2> QED
      BY <2>2, <2>8
<1>14. Range(b) = InWords(s, n) \cup Between(s, n)
  <2>1. Range(b) = {b[k] : k \in 1 .. m}
      BY DEF Range
  <2> HIDE DEF b
  <2>2. \A p \in Range(b) : p \in InWords(s, n) \cup Between(s, n)
    <3> TAKE p \in Range(b)
    <3>1. PICK k \in 1 .. m : p = b[k]
        BY <2>1
    <3>2. p = at[k]
        BY <1>9, <3>1
    <3> QED
        BY <1>12, <3>2
  <2>3. \A p \in InWords(s, n) \cup Between(s, n) : p \in Range(b)
    <3> TAKE p \in InWords(s, n) \cup Between(s, n)
    <3>1. PICK k \in 1 .. m : at[k] = p
        BY <1>13
    <3> QED
        BY <1>9, <2>1, <3>1
  <2> QED
      BY <2>2, <2>3
<1> HIDE DEF b
<1> QED
    BY <1>6, <1>7, <1>8, <1>9, <1>10, <1>11, <1>14 DEF b, u

\* What SlugIsItsWords says of one subject.
LEMMA SlugIsWords ==
    ASSUME NEW subject \in Text
    PROVE  LET text == [k \in DOMAIN subject |-> ToLower(subject[k])]
               slug == Slug(subject)
           IN  IF InWords(text, Len(text)) = {} THEN slug = NoSubject
               ELSE \E n \in 1 .. Len(text) : \E at \in [DOMAIN slug -> 1 .. n] :
                        /\ \A j, k \in DOMAIN slug : j < k => at[j] < at[k]
                        /\ Range(at) = InWords(text, n) \cup Between(text, n)
                        /\ \A k \in DOMAIN slug :
                              slug[k] = IF at[k] \in InWords(text, n) THEN text[at[k]] ELSE "-"
                        /\ n < Len(text) => Bytes(slug) >= MaxSlug - 1
<1> DEFINE s     == [k \in DOMAIN subject |-> ToLower(subject[k])]
           LD    == Letters \cup Digits
           t     == Loop(SlugRune, [slug |-> <<>>, dash |-> TRUE, full |-> FALSE], s).slug
           slug  == Slug(subject)
           Words_(n, at, z) ==
               /\ \A j, k \in DOMAIN z : j < k => at[j] < at[k]
               /\ Range(at) = InWords(s, n) \cup Between(s, n)
               /\ \A k \in DOMAIN z : z[k] = IF at[k] \in InWords(s, n) THEN s[at[k]] ELSE "-"
               /\ n < Len(s) => Bytes(z) >= MaxSlug - 1
<1>0. slug = IF Trim(t, {"-"}) = <<>> THEN NoSubject ELSE Trim(t, {"-"})
    BY DEF Slug
<1>1. s \in Seq(Chars) /\ Len(s) \in Nat
    BY LowerIs
<1> HIDE DEF s, slug
<1>2. PICK n \in 0 .. Len(s) : /\ t \in Seq(SlugChars) /\ \E at : Follows(at, t, s, n)
                               /\ n < Len(s) => Bytes(t) >= MaxSlug
    BY <1>1, RoundsAreMarks
<1> HIDE DEF t
<1>3. PICK at : Follows(at, t, s, n)
    BY <1>2
<1>4. /\ t \in Text /\ Len(t) \in Nat /\ DOMAIN t = 1 .. Len(t)
      /\ at \in [1 .. Len(t) -> 1 .. n]
      /\ \A j, k \in 1 .. Len(t) : j < k => at[j] < at[k]
      /\ \A k \in 1 .. Len(t) : at[k] \in Marked(s) /\ t[k] = Mark(s, at[k])
      /\ \A p \in Marked(s) : p <= n => \E k \in 1 .. Len(t) : at[k] = p
  <2>1. t \in Text
      BY <1>2, SlugCharFacts, SeqMonotonic DEF Text
  <2> QED
      BY <1>2, <1>3, <2>1 DEF Follows
<1>5. InWords(s, Len(s)) = {k \in 1 .. Len(s) : s[k] \in LD} /\ InWords(s, n) = {k \in 1 .. n : s[k] \in LD}
    BY DEF InWords
<1>6. CASE InWords(s, Len(s)) = {}
  <2>1. Marked(s) = {}
      BY <1>1, <1>5, <1>6 DEF Marked
  <2>2. Len(t) = 0
      BY <1>4, <2>1
  <2>3. Trim(t, {"-"}) = <<>>
      BY <1>4, <2>2 DEF Trim
  <2> QED
      BY <1>0, <1>6, <2>3 DEF s, slug
<1>7. CASE InWords(s, Len(s)) # {}
  <2>1. t # <<>>
    <3> SUFFICES ASSUME t = <<>> PROVE FALSE
        OBVIOUS
    <3>1. Len(t) = 0
        OBVIOUS
    <3>2. CASE n = Len(s)
      <4>1. PICK p \in InWords(s, Len(s)) : TRUE
          BY <1>7
      <4>2. p \in Marked(s) /\ p <= n
          BY <1>1, <1>5, <3>2, <4>1 DEF Marked
      <4> QED
          BY <1>4, <3>1, <4>2
    <3>3. CASE n # Len(s)
      <4>1. Bytes(t) >= MaxSlug
          BY <1>1, <1>2, <3>3
      <4>2. Bytes(t) = 0
        <5>1. Wide(t) = {}
            BY <1>4, <3>1 DEF Wide
        <5> QED
            BY <1>4, <3>1, <5>1, BytesIs, FS_EmptySet
      <4> QED
          BY <4>1, <4>2, PathsAssumption
    <3> QED
        BY <3>2, <3>3
  <2>2. PICK m \in {Len(t) - 1, Len(t)} :
           /\ m \in 1 .. Len(t) /\ Trim(t, {"-"}) = SubSeq(t, 1, m)
           /\ s[at[m]] \in LD
           /\ m # Len(t) => s[at[Len(t)]] \notin LD /\ t[Len(t)] = "-"
      BY <1>1, <1>2, <1>3, <2>1, MarksTrimmed
  <2> DEFINE u == SubSeq(t, 1, m)
             b == [k \in 1 .. m |-> at[k]]
  <2>3. /\ u \in Text /\ Len(u) = m /\ DOMAIN u = 1 .. m /\ n \in 1 .. Len(s)
        /\ b \in [1 .. m -> 1 .. n]
        /\ \A j, k \in 1 .. m : j < k => b[j] < b[k]
        /\ Range(b) = InWords(s, n) \cup Between(s, n)
        /\ \A k \in 1 .. m : u[k] = IF b[k] \in InWords(s, n) THEN s[b[k]] ELSE "-"
    <3>1. /\ m \in 1 .. Len(t) /\ s[at[m]] \in Letters \cup Digits
          /\ m = Len(t) \/ (m = Len(t) - 1 /\ s[at[Len(t)]] \notin Letters \cup Digits)
        BY <2>2
    <3> HIDE DEF LD, u, b
    <3>2. t \in Seq(SlugChars)
        BY <1>2
    <3> QED
        BY <1>1, <1>3, <3>1, <3>2, MarksBetween DEF u, b
  <2>4. slug = u
    <3>1. u # <<>>
      <4> HIDE DEF u
      <4> QED
          BY <2>2, <2>3
    <3> QED
        BY <1>0, <2>2, <3>1
  <2> HIDE DEF u, slug
  <2>5. n < Len(s) => Bytes(u) >= MaxSlug - 1
    <3>1. Bytes(t) \in Nat
      <4>1. t \in Text
          BY <1>4
      <4> QED
          BY <4>1, BytesIs
    <3>2. CASE m = Len(t)
      <4>1. u = t
          BY <1>2, <3>2, SubSeqFull DEF u
      <4> QED
          BY <1>2, <3>1, <4>1, PathsAssumption
    <3>3. CASE m # Len(t)
      <4>1. Bytes(u) = Bytes(t) - 1
          BY <1>4, <2>1, <2>2, <3>3, BytesDash DEF u
      <4> QED
          BY <1>2, <3>1, <4>1, PathsAssumption
    <3> QED
        BY <3>2, <3>3
  <2> HIDE DEF b
  <2>6. Words_(n, b, u)
      BY <2>3, <2>5
  <2> HIDE DEF Words_
  <2>7. \E x \in 1 .. Len(s) : \E y \in [DOMAIN slug -> 1 .. x] : Words_(x, y, slug)
      BY <2>3, <2>4, <2>6
  <2> QED
      BY <1>7, <2>7 DEF s, slug, Words_
<1> QED
    BY <1>6, <1>7 DEF s, slug

-----------------------------------------------------------------------------
(* Paths of artifacts *)

Numbers == 1 .. MaxNumber
Mail    == {m \in Messages : Len(m.names) <= MaxNames}

LEMMA OneCharacter ==
    ASSUME NEW c \in Chars, c \notin Separators
    PROVE  <<c>> \in Text /\ <<c>> \in Element /\ (c # "." => <<c>> \in Plain)
<1>1. <<c>> \in Seq(Chars) /\ <<c>> # <<>> /\ <<c>>[1] = c
    OBVIOUS
<1>2. \A i \in 1 .. Len(<<c>>) : <<c>>[i] = c
    OBVIOUS
<1> DEFINE t == <<c>>
<1>3. t \in Seq(Chars) /\ t # <<>> /\ t[1] = c /\ \A i \in 1 .. Len(t) : t[i] = c
    BY <1>1, <1>2
<1> HIDE DEF t
<1>4. t \in Text /\ t \in Element /\ (c # "." => t \in Plain)
    BY <1>3 DEF Plain, Element, Text
<1> QED
    BY <1>4 DEF t

LEMMA DecimalIs ==
    ASSUME NEW n \in Numbers
    PROVE  Decimal[n] \in Seq(Digits) /\ Decimal[n] \in Plain
<1>1. Decimal[n] \in Seq(Digits) /\ Decimal[n] # <<>>
    BY FilingAssumption DEF Numbers
<1>2. Decimal[n] \in Text
    BY <1>1, CharFacts, SeqMonotonic DEF Text
<1>3. \A i \in 1 .. Len(Decimal[n]) : Decimal[n][i] \in Digits
    BY <1>1
<1>4. Len(Decimal[n]) \in Nat \ {0}
    BY <1>1
<1>5. Decimal[n] \in Element
    BY <1>2, <1>3, CharFacts DEF Element
<1>6. Decimal[n][1] # "."
  <2>1. Decimal[n][1] \in Digits
      BY <1>3, <1>4
  <2> QED
      BY <2>1 DEF Digits
<1> QED
    BY <1>1, <1>5, <1>6 DEF Plain

LEMMA BoundFacts ==
    /\ MaxNumber \in Nat /\ MaxText \in Nat /\ MaxNames \in Nat /\ MaxMail \in Nat
    /\ MaxBackups \in Nat
    /\ MaxNames <= MaxNumber /\ MaxMail \in 1 .. MaxNumber /\ MaxBackups < MaxNumber
BY FilingAssumption

LEMMA MailFacts ==
    ASSUME NEW m \in Mail
    PROVE  /\ m.mailbox \in Text /\ m.subject \in Text /\ m.names \in Seq(Text)
           /\ m.uid \in Numbers /\ m.date \in 0 .. MaxNumber
           /\ \A n \in Artifacts(m) : n # 0 => n \in Numbers /\ n \in 1 .. Len(m.names)
<1>1. m \in Messages /\ Len(m.names) <= MaxNames
    BY DEF Mail
<1>2. Dates \subseteq 0 .. MaxNumber
    BY FilingAssumption
<1>3. /\ m.mailbox \in Text /\ m.subject \in Text /\ m.names \in Seq(Text)
      /\ m.uid \in 1 .. MaxMail /\ m.date \in Dates
    BY <1>1 DEF Messages
<1> DEFINE names == m.names
<1>4. names \in Seq(Text) /\ Len(names) <= MaxNames
    BY <1>1, <1>3
<1> HIDE DEF names
<1>5. \A n \in 0 .. Len(names) : n # 0 => n \in Numbers /\ n \in 1 .. Len(names)
    BY <1>4, BoundFacts DEF Numbers
<1>6. \A n \in Artifacts(m) : n # 0 => n \in Numbers /\ n \in 1 .. Len(m.names)
    BY <1>5 DEF Artifacts, names
<1>7. m.uid \in Numbers /\ m.date \in 0 .. MaxNumber
  <2>1. 1 .. MaxMail \subseteq Numbers
      BY BoundFacts DEF Numbers
  <2> QED
      BY <1>2, <1>3, <2>1
<1> QED
    BY <1>3, <1>6, <1>7

LEMMA FiledUnderIs ==
    ASSUME NEW m \in Mail, now \in 0 .. MaxBackups
    PROVE  FiledUnder(m) \in Numbers
BY MailFacts, BoundFacts DEF FiledUnder, Numbers

LEMMA StemIs ==
    ASSUME NEW m \in Mail, NEW date \in Numbers
    PROVE  Stem(m, date) \in Plain
<1>1. Decimal[date] \in Plain /\ Decimal[m.uid] \in Plain /\ Slug(m.subject) \in Element
    BY MailFacts, DecimalIs, SlugIs
<1>2. <<"-">> \in Element
  <2>1. "-" \in Chars /\ "-" \notin Separators
      BY CharFacts
  <2> QED
      BY <2>1, OneCharacter
<1>3. Decimal[m.uid] \o <<"-">> \in Plain
    BY <1>1, <1>2, PlainConcat
<1>4. Decimal[m.uid] \o <<"-">> \o Slug(m.subject) \in Element
    BY <1>1, <1>3, PlainConcat DEF Plain
<1>5. Decimal[date] \o <<"-">> \in Plain
    BY <1>1, <1>2, PlainConcat
<1> QED
    BY <1>4, <1>5, PlainConcat DEF Stem

LEMMA FilenameIs ==
    ASSUME NEW m \in Mail, NEW n \in Artifacts(m), n # 0
    PROVE  Filename(m, n) \in Plain
<1>1. n \in Numbers /\ m.names[n] \in Text
    BY MailFacts
<1>2. <<"attachment-">> \in Plain
  <2>1. "attachment-" \in Chars /\ "attachment-" \notin Separators
      BY CharFacts DEF Words
  <2> QED
      BY <2>1, OneCharacter
<1>3. <<"attachment-">> \o Decimal[n] \in Plain
    BY <1>1, <1>2, DecimalIs, PlainConcat DEF Plain
<1> QED
    BY <1>1, <1>3, SafeFilenameIs DEF Filename

LEMMA DirectoryIs ==
    ASSUME NEW m \in Mail, NEW date \in Numbers
    PROVE  /\ Directory(m, date) \in Seq(Plain)
           /\ Append(Stem(m, date), ".eml") \in Plain
           /\ Append(Stem(m, date), ".attachments") \in Plain
<1>1. SafePath(m.mailbox) \in Seq(Plain) /\ Decimal[date] \in Plain
    BY MailFacts, SafePathIs, DecimalIs
<1>2. {".eml", ".attachments"} \subseteq Chars \ Separators
    BY CharFacts DEF Words
<1> QED
    BY <1>1, <1>2, StemIs, PlainAppend DEF Directory

LEMMA PathIs ==
    ASSUME NEW m \in Mail, NEW date \in Numbers, NEW n \in Artifacts(m)
    PROVE  Path(m, date, n) \in Seq(Plain)
<1>1. EmlPath(m, date) \in Seq(Plain)
    BY DirectoryIs DEF EmlPath
<1>2. n # 0 => AttachmentPath(m, date, n) \in Seq(Plain)
  <2>1. Append(Directory(m, date), Append(Stem(m, date), ".attachments")) \in Seq(Plain)
      BY DirectoryIs
  <2> QED
      BY <2>1, FilenameIs DEF AttachmentPath
<1> QED
    BY <1>1, <1>2 DEF Path

\* An artifact's target is its path, and so never refused.
LEMMA TargetIs ==
    ASSUME NEW m \in Mail, NEW n \in Artifacts(m), now \in 0 .. MaxBackups
    PROVE  /\ Target(m, n) = Root \o Path(m, FiledUnder(m), n)
           /\ Target(m, n) \in Seq(Text) /\ Target(m, n) # <<>>
<1>1. Path(m, FiledUnder(m), n) \in Seq(Plain)
    BY FiledUnderIs, PathIs
<1>2. Target(m, n) = Root \o Path(m, FiledUnder(m), n)
    BY <1>1, ResolveIs DEF Target
<1>3. Path(m, FiledUnder(m), n) \in Seq(Text)
  <2>1. Plain \subseteq Text
      BY DEF Plain, Element
  <2> QED
      BY <1>1, <2>1, SeqMonotonic
<1>4. Root \in Seq(Text) /\ Root # <<>>
  <2>1. <<"a">> \in Text
    <3>1. "a" \in Chars /\ "a" \notin Separators
        BY CharFacts DEF Letters
    <3> QED
        BY <3>1, OneCharacter
  <2> QED
      BY <2>1 DEF Root
<1> DEFINE p == Path(m, FiledUnder(m), n)
<1>5. p \in Seq(Text)
    BY <1>3
<1> HIDE DEF p
<1>6. Root \o p \in Seq(Text) /\ Root \o p # <<>>
    BY <1>4, <1>5
<1> QED
    BY <1>2, <1>6 DEF p

-----------------------------------------------------------------------------
(* Paths that are the same *)

LEMMA AppendApart ==
    ASSUME NEW S, NEW s \in Seq(S), NEW t \in Seq(S), NEW c \in S, NEW d \in S,
           Append(s, c) = Append(t, d)
    PROVE  s = t /\ c = d
<1>1. /\ Len(Append(s, c)) = Len(s) + 1 /\ Append(s, c)[Len(s) + 1] = c
      /\ \A i \in 1 .. Len(s) : Append(s, c)[i] = s[i]
    BY AppendProperties
<1>2. /\ Len(Append(t, d)) = Len(t) + 1 /\ Append(t, d)[Len(t) + 1] = d
      /\ \A i \in 1 .. Len(t) : Append(t, d)[i] = t[i]
    BY AppendProperties
<1>3. Len(s) = Len(t) /\ Len(s) \in Nat
    BY <1>1, <1>2
<1>4. \A i \in 1 .. Len(s) : s[i] = t[i]
    BY <1>1, <1>2, <1>3
<1> QED
    BY <1>1, <1>2, <1>3, <1>4, SeqEqual

LEMMA ConcatIs ==
    ASSUME NEW S, NEW s \in Seq(S), NEW t \in Seq(S)
    PROVE  /\ s \o t \in Seq(S) /\ Len(s \o t) = Len(s) + Len(t)
           /\ Len(s) \in Nat /\ Len(t) \in Nat
           /\ \A i \in 1 .. Len(s) : (s \o t)[i] = s[i]
           /\ \A i \in 1 .. Len(t) : (s \o t)[Len(s) + i] = t[i]
OBVIOUS

LEMMA ConcatApart ==
    ASSUME NEW S, NEW a \in Seq(S), NEW b \in Seq(S), NEW s \in Seq(S), NEW t \in Seq(S),
           Len(a) = Len(b), a \o s = b \o t
    PROVE  a = b /\ s = t
<1>1. /\ Len(a \o s) = Len(a) + Len(s) /\ Len(a) \in Nat /\ Len(s) \in Nat
      /\ \A i \in 1 .. Len(a) : (a \o s)[i] = a[i]
      /\ \A i \in 1 .. Len(s) : (a \o s)[Len(a) + i] = s[i]
  <2>1. Len(a \o s) = Len(a) + Len(s) /\ Len(a) \in Nat /\ Len(s) \in Nat
      BY ConcatIs
  <2>2. \A i \in 1 .. Len(a) : (a \o s)[i] = a[i]
      BY ConcatIs
  <2>3. \A i \in 1 .. Len(s) : (a \o s)[Len(a) + i] = s[i]
      BY ConcatIs
  <2> QED
      BY <2>1, <2>2, <2>3
<1>2. /\ Len(b \o t) = Len(b) + Len(t) /\ Len(t) \in Nat
      /\ \A i \in 1 .. Len(b) : (b \o t)[i] = b[i]
      /\ \A i \in 1 .. Len(t) : (b \o t)[Len(b) + i] = t[i]
    BY ConcatIs
<1>3. Len(s) = Len(t)
    BY <1>1, <1>2
<1>4. \A i \in 1 .. Len(a) : a[i] = b[i]
    BY <1>1, <1>2
<1>5. \A i \in 1 .. Len(s) : s[i] = t[i]
    BY <1>1, <1>2, <1>3
<1> QED
    BY <1>3, <1>4, <1>5, SeqEqual

\* Of two texts in which a number comes before a dash, neither number is longer.
LEMMA NoLongerNumber ==
    ASSUME NEW x \in Seq(Digits), NEW y \in Seq(Digits), NEW s \in Text, NEW t \in Text,
           x \o <<"-">> \o s = y \o <<"-">> \o t
    PROVE  Len(y) <= Len(x)
<1> SUFFICES ASSUME Len(x) < Len(y) PROVE FALSE
    OBVIOUS
<1> DEFINE dash == <<"-">>
           n == Len(x) + 1
<1>1. x \in Seq(Chars) /\ y \in Seq(Chars) /\ s \in Seq(Chars) /\ t \in Seq(Chars)
    BY CharFacts, SeqMonotonic DEF Text
<1>2. dash \in Seq(Chars) /\ Len(dash) = 1 /\ dash[1] = "-"
  <2>1. "-" \in Chars
      BY CharFacts
  <2> QED
      BY <2>1
<1>3. x \o dash \o s = y \o dash \o t
    OBVIOUS
<1> HIDE DEF dash
<1>4. /\ x \o dash \in Seq(Chars) /\ Len(x \o dash) = Len(x) + 1
      /\ (x \o dash)[Len(x) + 1] = "-" /\ Len(x) \in Nat
  <2>1. "-" \in Chars /\ Append(x, "-") = x \o dash
      BY <1>1, CharFacts, AppendIsConcat DEF dash
  <2>2. Append(x, "-")[Len(x) + 1] = "-"
      BY <1>1, <2>1, AppendProperties
  <2>3. /\ x \o dash \in Seq(Chars) /\ Len(x \o dash) = Len(x) + Len(dash)
        /\ Len(x) \in Nat
      BY <1>1, <1>2, ConcatIs
  <2> QED
      BY <1>2, <2>1, <2>2, <2>3
<1>5. /\ y \o dash \in Seq(Chars) /\ Len(y \o dash) = Len(y) + 1 /\ Len(y) \in Nat
      /\ \A i \in 1 .. Len(y) : (y \o dash)[i] = y[i]
  <2>1. /\ y \o dash \in Seq(Chars) /\ Len(y \o dash) = Len(y) + Len(dash)
        /\ Len(y) \in Nat /\ \A i \in 1 .. Len(y) : (y \o dash)[i] = y[i]
      BY <1>1, <1>2, ConcatIs, Zenon
  <2> QED
      BY <1>2, <2>1
<1>6. (x \o dash \o s)[n] = (x \o dash)[n]
  <2>1. n \in 1 .. Len(x \o dash)
      BY <1>4
  <2> QED
      BY <1>1, <1>4, <2>1, ConcatIs
<1>7. (y \o dash \o t)[n] = (y \o dash)[n]
  <2>1. n \in 1 .. Len(y \o dash)
      BY <1>4, <1>5
  <2> QED
      BY <1>1, <1>5, <2>1, ConcatIs
<1>8. y[n] \in Digits /\ (y \o dash)[n] = y[n]
    BY <1>4, <1>5
<1>9. "-" \in Digits
    BY <1>3, <1>4, <1>6, <1>7, <1>8
<1> QED
    BY <1>9 DEF Digits

Numbered(x, s) == x \o <<"-">> \o s

LEMMA HeadDigits ==
    ASSUME NEW x \in Seq(Digits), NEW y \in Seq(Digits), NEW s \in Text, NEW t \in Text,
           Numbered(x, s) = Numbered(y, t)
    PROVE  x = y /\ s = t
<1>1. Len(x) = Len(y)
  <2>1. x \o <<"-">> \o s = y \o <<"-">> \o t
      BY DEF Numbered
  <2>2. Len(x) <= Len(y) /\ Len(y) <= Len(x)
      BY <2>1, NoLongerNumber
  <2> QED
      BY <2>2
<1> DEFINE dash == <<"-">>
<1>2. x \in Seq(Chars) /\ y \in Seq(Chars) /\ s \in Seq(Chars) /\ t \in Seq(Chars)
    BY CharFacts, SeqMonotonic DEF Text
<1>3. dash \in Seq(Chars)
  <2>1. "-" \in Chars
      BY CharFacts
  <2> QED
      BY <2>1
<1>4. x \o dash \o s = y \o dash \o t
    BY DEF Numbered
<1> HIDE DEF dash
<1> DEFINE a == x \o dash
           b == y \o dash
<1>5. a \in Seq(Chars) /\ b \in Seq(Chars) /\ Len(a) = Len(b)
  <2>1. a \in Seq(Chars) /\ Len(a) = Len(x) + Len(dash)
      BY <1>2, <1>3, ConcatIs
  <2>2. b \in Seq(Chars) /\ Len(b) = Len(y) + Len(dash)
      BY <1>2, <1>3, ConcatIs
  <2> QED
      BY <1>1, <2>1, <2>2
<1>6. a \o s = b \o t
    BY <1>4
<1> HIDE DEF a, b
<1>7. a = b /\ s = t
    BY <1>2, <1>5, <1>6, ConcatApart
<1>8. x = y
    BY <1>1, <1>2, <1>3, <1>7, ConcatApart DEF a, b
<1> QED
    BY <1>7, <1>8

\* The stem tells the UID.
LEMMA StemApart ==
    ASSUME NEW m \in Mail, NEW k \in Mail, NEW d \in Numbers, NEW e \in Numbers,
           Stem(m, d) = Stem(k, e)
    PROVE  m.uid = k.uid
<1>1. /\ Decimal[d] \in Seq(Digits) /\ Decimal[e] \in Seq(Digits)
      /\ m.uid \in Numbers /\ k.uid \in Numbers
      /\ Decimal[m.uid] \in Seq(Digits) /\ Decimal[k.uid] \in Seq(Digits)
    BY DecimalIs, MailFacts
<1>2. Slug(m.subject) \in Text /\ Slug(k.subject) \in Text
    BY MailFacts, SlugIs DEF Element
<1> DEFINE s == Decimal[m.uid] \o <<"-">> \o Slug(m.subject)
           t == Decimal[k.uid] \o <<"-">> \o Slug(k.subject)
<1>3. s \in Text /\ t \in Text
  <2>1. \A x \in Seq(Digits), z \in Text : x \o <<"-">> \o z \in Text
    <3>1. <<"-">> \in Text
        BY CharFacts, OneCharacter
    <3>2. \A x \in Seq(Digits) : x \in Text
        BY CharFacts, SeqMonotonic DEF Text
    <3> QED
        BY <3>1, <3>2 DEF Text
  <2> QED
      BY <1>1, <1>2, <2>1
<1>4. Numbered(Decimal[d], s) = Numbered(Decimal[e], t)
    BY DEF Stem, Numbered
<1> HIDE DEF s, t
<1>5. s = t
    BY <1>1, <1>3, <1>4, HeadDigits
<1>6. Decimal[m.uid] = Decimal[k.uid]
  <2>1. Numbered(Decimal[m.uid], Slug(m.subject)) = Numbered(Decimal[k.uid], Slug(k.subject))
      BY <1>5 DEF s, t, Numbered
  <2> QED
      BY <1>1, <1>2, <2>1, HeadDigits
<1> QED
    BY <1>1, <1>6, FilingAssumption DEF Numbers

\* The directory and the stem of a path tell the mailbox, but for mailboxes
\* that share a directory, and the UID.
LEMMA DirectoryApart ==
    ASSUME NEW m \in Mail, NEW k \in Mail, NEW d \in Numbers, NEW e \in Numbers,
           NEW c \in {".eml", ".attachments"},
           Append(Directory(m, d), Append(Stem(m, d), c)) =
               Append(Directory(k, e), Append(Stem(k, e), c))
    PROVE  SafePath(m.mailbox) = SafePath(k.mailbox) /\ m.uid = k.uid
<1>1. /\ Directory(m, d) \in Seq(Plain) /\ Directory(k, e) \in Seq(Plain)
      /\ Append(Stem(m, d), c) \in Plain /\ Append(Stem(k, e), c) \in Plain
    BY DirectoryIs
<1>2. Directory(m, d) = Directory(k, e) /\ Append(Stem(m, d), c) = Append(Stem(k, e), c)
    BY <1>1, AppendApart
<1>3. Stem(m, d) \in Seq(Chars) /\ Stem(k, e) \in Seq(Chars) /\ c \in Chars
    BY StemIs, CharFacts DEF Plain, Element, Text, Words
<1>4. Stem(m, d) = Stem(k, e)
    BY <1>2, <1>3, AppendApart
<1>5. /\ SafePath(m.mailbox) \in Seq(Plain) /\ SafePath(k.mailbox) \in Seq(Plain)
      /\ Decimal[d] \in Plain /\ Decimal[e] \in Plain
    BY MailFacts, SafePathIs, DecimalIs
<1>6. SafePath(m.mailbox) = SafePath(k.mailbox)
    BY <1>2, <1>5, AppendApart DEF Directory
<1> QED
    BY <1>4, <1>6, StemApart

\* No message lies in what is the directory of the attachments of another.
LEMMA EmlIsNoAttachment ==
    ASSUME NEW m \in Mail, NEW k \in Mail, NEW d \in Numbers, NEW e \in Numbers,
           NEW j \in Artifacts(k), j # 0
    PROVE  EmlPath(m, d) # AttachmentPath(k, e, j)
<1> SUFFICES ASSUME EmlPath(m, d) = AttachmentPath(k, e, j) PROVE FALSE
    OBVIOUS
<1> DEFINE inner == Append(Directory(k, e), Append(Stem(k, e), ".attachments"))
<1>1. /\ Directory(m, d) \in Seq(Plain) /\ Append(Stem(m, d), ".eml") \in Plain
      /\ Directory(k, e) \in Seq(Plain) /\ Append(Stem(k, e), ".attachments") \in Plain
      /\ Filename(k, j) \in Plain
    BY DirectoryIs, FilenameIs
<1>2. inner \in Seq(Plain)
    BY <1>1
<1>3. Directory(m, d) = inner
  <2> HIDE DEF inner
  <2>1. Append(Directory(m, d), Append(Stem(m, d), ".eml")) = Append(inner, Filename(k, j))
      BY DEF EmlPath, AttachmentPath, inner
  <2> QED
      BY <1>1, <1>2, <2>1, AppendApart
<1>4. SafePath(m.mailbox) \in Seq(Plain) /\ Decimal[d] \in Plain /\ Decimal[d] \in Seq(Digits)
    BY MailFacts, SafePathIs, DecimalIs
<1>5. Decimal[d] = Append(Stem(k, e), ".attachments")
    BY <1>1, <1>3, <1>4, AppendApart DEF Directory
<1> DEFINE s == Stem(k, e)
<1>6. s \in Seq(Chars) /\ ".attachments" \in Chars
    BY StemIs, CharFacts DEF Plain, Element, Text, Words
<1> HIDE DEF s
<1>7. Append(s, ".attachments") \in Seq(Chars) /\ Len(s) \in Nat
      /\ Len(Append(s, ".attachments")) = Len(s) + 1
      /\ Append(s, ".attachments")[Len(s) + 1] = ".attachments"
    BY <1>6, AppendProperties
<1>8. ".attachments" \in Digits
    BY <1>4, <1>5, <1>7 DEF s
<1> QED
    BY <1>8 DEF Digits

\* What two artifacts of one path have in common.
LEMMA PathApart ==
    ASSUME NEW m \in Mail, NEW k \in Mail, NEW d \in Numbers, NEW e \in Numbers,
           NEW n \in Artifacts(m), NEW j \in Artifacts(k), Path(m, d, n) = Path(k, e, j)
    PROVE  /\ SafePath(m.mailbox) = SafePath(k.mailbox) /\ m.uid = k.uid
           /\ n = 0 <=> j = 0
           /\ n # 0 => Filename(m, n) = Filename(k, j)
<1>1. n = 0 <=> j = 0
    BY EmlIsNoAttachment DEF Path
<1>2. CASE n = 0
  <2>1. EmlPath(m, d) = EmlPath(k, e)
      BY <1>1, <1>2 DEF Path
  <2>2. SafePath(m.mailbox) = SafePath(k.mailbox) /\ m.uid = k.uid
      BY <2>1, DirectoryApart DEF EmlPath
  <2> QED
      BY <1>1, <1>2, <2>2
<1>3. CASE n # 0
  <2> DEFINE a == Append(Directory(m, d), Append(Stem(m, d), ".attachments"))
             b == Append(Directory(k, e), Append(Stem(k, e), ".attachments"))
  <2>1. Append(a, Filename(m, n)) = Append(b, Filename(k, j))
      BY <1>1, <1>3 DEF Path, AttachmentPath
  <2>2. a \in Seq(Plain) /\ b \in Seq(Plain)
      BY DirectoryIs
  <2>3. Filename(m, n) \in Plain /\ Filename(k, j) \in Plain
      BY <1>1, <1>3, FilenameIs
  <2> HIDE DEF a, b
  <2>4. a = b /\ Filename(m, n) = Filename(k, j)
      BY <2>1, <2>2, <2>3, AppendApart
  <2>5. SafePath(m.mailbox) = SafePath(k.mailbox) /\ m.uid = k.uid
      BY <2>4, DirectoryApart DEF a, b
  <2> QED
      BY <1>1, <2>4, <2>5
<1> QED
    BY <1>2, <1>3

\* Two unnamed attachments have two names.
LEMMA FilenameApart ==
    ASSUME NEW m \in Mail, NEW n \in Artifacts(m), NEW k \in Artifacts(m),
           n # 0, k # 0, n # k, Filename(m, n) = Filename(m, k)
    PROVE  SameFilename(m, n, k)
<1> SUFFICES ASSUME SafeFilename(m.names[n]) = <<>>, SafeFilename(m.names[k]) = <<>>
             PROVE  FALSE
    BY DEF SameFilename
<1>1. n \in Numbers /\ k \in Numbers
    BY MailFacts
<1>2. <<"attachment-">> \o Decimal[n] = <<"attachment-">> \o Decimal[k]
    BY DEF Filename
<1>3. Decimal[n] \in Seq(Chars) /\ Decimal[k] \in Seq(Chars)
    BY <1>1, DecimalIs DEF Plain, Element, Text
<1> DEFINE a == <<"attachment-">>
           s == Decimal[n]
           t == Decimal[k]
<1>4. a \in Seq(Chars)
  <2>1. "attachment-" \in Chars
      BY CharFacts DEF Words
  <2> QED
      BY <2>1
<1>5. s = t
  <2>1. s \in Seq(Chars) /\ t \in Seq(Chars) /\ a \o s = a \o t
      BY <1>2, <1>3
  <2> HIDE DEF a, s, t
  <2> QED
      BY <1>4, <2>1, ConcatApart
<1> QED
    BY <1>1, <1>5, FilingAssumption DEF Numbers, s, t

-----------------------------------------------------------------------------
(* The directory *)

LEMMA MailIs ==
    ASSUME TypeOK, NEW i \in DOMAIN mail
    PROVE  mail[i] \in Mail /\ i \in 1 .. MaxMail /\ now \in 0 .. MaxBackups
<1>1. mail \in Seq(Messages) /\ Len(mail) <= MaxMail /\ now \in 0 .. MaxBackups
    BY DEF TypeOK
<1>2. i \in 1 .. Len(mail) /\ Len(mail[i].names) <= MaxNames
    BY DEF TypeOK
<1> QED
    BY <1>1, <1>2, BoundFacts DEF Mail

\* The last artifact of a path.
LastAt(m, date, path) == Max({n \in Artifacts(m) : Root \o Path(m, date, n) = path})

LEMMA LastAtIs ==
    ASSUME NEW m \in Mail, NEW date, NEW path, NEW n \in Artifacts(m),
           Root \o Path(m, date, n) = path
    PROVE  /\ LastAt(m, date, path) \in Artifacts(m)
           /\ Root \o Path(m, date, LastAt(m, date, path)) = path
<1> DEFINE S == {k \in Artifacts(m) : Root \o Path(m, date, k) = path}
<1>1. Len(m.names) \in Nat
    BY MailFacts
<1>2. S \in SUBSET (0 .. Len(m.names)) /\ S # {}
    BY DEF Artifacts
<1>3. LastAt(m, date, path) = Max(S)
    BY DEF LastAt
<1> HIDE DEF S
<1>4. Max(S) \in S
    BY <1>1, <1>2, MaxIs
<1> QED
    BY <1>3, <1>4 DEF S

\* What a backup makes of the directory.
LEMMA FiledIs ==
    ASSUME TypeOK, NEW i \in DOMAIN mail
    PROVE  LET m == mail[i]
               filed == Filed(i, Stored(m))
               At(n) == Root \o Path(m, FiledUnder(m), n)
           IN  /\ {p.artifact : p \in Stored(m)} = Artifacts(m)
               /\ filed = [path \in DOMAIN filed |-> filed[path]]
               /\ DOMAIN filed = DOMAIN files \cup {At(n) : n \in Artifacts(m)}
               /\ \A n \in Artifacts(m) : filed[At(n)] =
                      [message |-> i, artifact |-> LastAt(m, FiledUnder(m), At(n))]
               /\ \A path \in DOMAIN files :
                      (\A n \in Artifacts(m) : path # At(n)) => filed[path] = files[path]
<1> DEFINE m == mail[i]
           At(n) == Root \o Path(m, FiledUnder(m), n)
           placed == {[artifact |-> n, target |-> At(n)] : n \in Artifacts(m)}
           stored == Stored(m)
           filed == Filed(i, stored)
<1>1. m \in Mail /\ now \in 0 .. MaxBackups
    BY MailIs
<1>2. \A n \in Artifacts(m) : Target(m, n) = At(n) /\ Target(m, n) # <<>>
    BY <1>1, TargetIs
<1> HIDE DEF m, At
<1>3. Placed(m) = placed
    BY <1>2 DEF Placed
<1>4. \A q \in placed : q.target # <<>>
    BY <1>2
<1>5. stored = placed
    BY <1>3, <1>4 DEF Stored
<1> HIDE DEF stored
<1> DEFINE one(n) == [artifact |-> n, target |-> At(n)]
<1>a. \A n \in Artifacts(m) : one(n) \in placed /\ one(n).artifact = n /\ one(n).target = At(n)
    OBVIOUS
<1>b. \A p \in placed : p.artifact \in Artifacts(m) /\ p.target = At(p.artifact)
    OBVIOUS
<1> HIDE DEF one, placed
<1>6. {p.artifact : p \in placed} = Artifacts(m)
    BY <1>a, <1>b
<1>7. {p.target : p \in placed} = {At(n) : n \in Artifacts(m)}
  <2>1. \A p \in placed : p.target \in {At(n) : n \in Artifacts(m)}
      BY <1>b
  <2>2. \A n \in Artifacts(m) : At(n) \in {p.target : p \in placed}
      BY <1>a
  <2> QED
      BY <2>1, <2>2
<1>8. ASSUME NEW path
      PROVE  {p.artifact : p \in {q \in placed : q.target = path}} =
                 {n \in Artifacts(m) : At(n) = path}
    BY <1>a, <1>b
<1> DEFINE targets == {At(n) : n \in Artifacts(m)}
           last(path) == Max({n \in Artifacts(m) : At(n) = path})
<1>9. filed = [path \in DOMAIN files \cup targets |->
                  IF path \in targets THEN [message |-> i, artifact |-> last(path)]
                  ELSE files[path]]
    BY <1>5, <1>7, <1>8 DEF Filed
<1>10. \A path : last(path) = LastAt(m, FiledUnder(m), path)
    BY DEF LastAt, At
<1> HIDE DEF last, filed
<1>11. \A n \in Artifacts(m) : At(n) \in targets
    OBVIOUS
<1>12. \A path : (\A n \in Artifacts(m) : path # At(n)) => path \notin targets
    OBVIOUS
<1> HIDE DEF targets
<1>13. DOMAIN filed = DOMAIN files \cup targets /\ filed = [path \in DOMAIN filed |-> filed[path]]
    BY <1>9
<1>14. \A n \in Artifacts(m) :
           filed[At(n)] = [message |-> i, artifact |-> LastAt(m, FiledUnder(m), At(n))]
    BY <1>9, <1>10, <1>11
<1>15. \A path \in DOMAIN files :
           (\A n \in Artifacts(m) : path # At(n)) => filed[path] = files[path]
    BY <1>9, <1>12
<1> QED
    BY <1>5, <1>6, <1>13, <1>14, <1>15 DEF m, At, targets, filed, stored

LEMMA ArriveKeeps ==
    ASSUME TypeOK, Arrive
    PROVE  /\ \A i \in DOMAIN mail : i \in DOMAIN mail' /\ mail'[i] = mail[i]
           /\ mail' \in Seq(Messages) /\ Len(mail') <= MaxMail
           /\ \A i \in DOMAIN mail' :
                  mail'[i].names \in {draft.names} \cup {mail[j].names : j \in DOMAIN mail}
           /\ \A i \in DOMAIN mail' : i \notin DOMAIN mail =>
                  \A j \in DOMAIN mail :
                      mail[j].mailbox = mail'[i].mailbox => mail[j].uid < mail'[i].uid
           /\ \A i, j \in DOMAIN mail' : i \notin DOMAIN mail /\ j \notin DOMAIN mail => i = j
<1>1. PICK uid \in 1 .. MaxMail :
          /\ \A i \in DOMAIN mail : mail[i].mailbox = draft.mailbox => mail[i].uid < uid
          /\ mail' = Append(mail, [draft EXCEPT !.uid = uid])
    BY DEF Arrive
<1> DEFINE m == [draft EXCEPT !.uid = uid]
<1>2. mail \in Seq(Messages) /\ draft \in Messages /\ Len(mail) < MaxMail /\ Len(mail) \in Nat
    BY DEF TypeOK, Arrive
<1>3. m \in Messages /\ m.uid = uid /\ m.mailbox = draft.mailbox /\ m.names = draft.names
    BY <1>2 DEF Messages
<1> HIDE DEF m
<1>4. /\ mail' = Append(mail, m) /\ mail' \in Seq(Messages) /\ Len(mail') = Len(mail) + 1
      /\ DOMAIN mail = 1 .. Len(mail) /\ DOMAIN mail' = 1 .. Len(mail) + 1
      /\ \A i \in 1 .. Len(mail) : mail'[i] = mail[i]
      /\ mail'[Len(mail) + 1] = m
    BY <1>1, <1>2, <1>3 DEF m
<1>5. Len(mail') <= MaxMail
    BY <1>2, <1>4, BoundFacts
<1>6. \A i \in DOMAIN mail' : i \in DOMAIN mail \/ i = Len(mail) + 1
    BY <1>2, <1>4
<1>7. \A i \in DOMAIN mail : i \in DOMAIN mail' /\ mail'[i] = mail[i]
    BY <1>2, <1>4
<1>8. \A i \in DOMAIN mail' :
          mail'[i].names \in {draft.names} \cup {mail[j].names : j \in DOMAIN mail}
    BY <1>3, <1>4, <1>6, <1>7
<1>9. \A i \in DOMAIN mail' : i \notin DOMAIN mail =>
          \A j \in DOMAIN mail : mail[j].mailbox = mail'[i].mailbox => mail[j].uid < mail'[i].uid
    BY <1>1, <1>3, <1>4, <1>6
<1> QED
    BY <1>4, <1>5, <1>6, <1>7, <1>8, <1>9

LEMMA WriteKeepsTypes ==
    ASSUME TypeOK, NameMailbox \/ WriteSubject \/ Attach \/ NameAttachment
    PROVE  TypeOK'
<1>1. /\ draft \in Messages /\ Len(draft.names) <= MaxNames
      /\ draft.mailbox \in Text /\ draft.subject \in Text /\ draft.names \in Seq(Text)
    BY DEF TypeOK, Messages
<1>2. MailboxChars \subseteq Chars /\ SubjectChars \subseteq Chars /\ FilenameChars \subseteq Chars
    BY FilingAssumption
<1>3. \A t \in Text, c \in Chars : Append(t, c) \in Text
    BY DEF Text
<1>4. SUFFICES ASSUME NEW element, NEW m, Write(element, m),
                      m \in Messages /\ Len(m.names) <= MaxNames
               PROVE  TypeOK'
  <2>1. CASE NameMailbox
    <3>1. PICK c \in MailboxChars : Write("mailbox", [draft EXCEPT !.mailbox = Append(@, c)])
        BY <2>1 DEF NameMailbox
    <3> DEFINE m == [draft EXCEPT !.mailbox = Append(@, c)]
    <3>2. Append(draft.mailbox, c) \in Text
        BY <1>1, <1>2, <1>3
    <3>3. m \in Messages /\ m.names = draft.names
        BY <1>1, <3>2 DEF Messages
    <3> QED
        BY <1>1, <1>4, <3>1, <3>3
  <2>2. CASE WriteSubject
    <3>1. PICK c \in SubjectChars : Write("subject", [draft EXCEPT !.subject = Append(@, c)])
        BY <2>2 DEF WriteSubject
    <3> DEFINE m == [draft EXCEPT !.subject = Append(@, c)]
    <3>2. Append(draft.subject, c) \in Text
        BY <1>1, <1>2, <1>3
    <3>3. m \in Messages /\ m.names = draft.names
        BY <1>1, <3>2 DEF Messages
    <3> QED
        BY <1>1, <1>4, <3>1, <3>3
  <2>3. CASE Attach
    <3> DEFINE names == Append(draft.names, <<>>)
               m == [draft EXCEPT !.names = names]
    <3>1. names \in Seq(Text) /\ Len(names) = Len(draft.names) + 1 /\ Len(draft.names) \in Nat
        BY <1>1 DEF Text
    <3>2. Write("names", m) /\ Len(draft.names) < MaxNames
        BY <2>3 DEF Attach
    <3> HIDE DEF names
    <3>3. m \in Messages /\ m.names = names
        BY <1>1, <3>1 DEF Messages
    <3>4. Len(m.names) <= MaxNames
        BY <3>1, <3>2, <3>3, BoundFacts
    <3> QED
        BY <1>4, <3>2, <3>3, <3>4
  <2>4. CASE NameAttachment
    <3>1. PICK c \in FilenameChars :
              Write("names", [draft EXCEPT !.names[Len(draft.names)] = Append(@, c)])
        BY <2>4 DEF NameAttachment
    <3> DEFINE m == [draft EXCEPT !.names[Len(draft.names)] = Append(@, c)]
               names == draft.names
               n == Len(names)
               longer == [names EXCEPT ![n] = Append(@, c)]
    <3>2. names \in Seq(Text) /\ n \in 1 .. Len(names) /\ n <= MaxNames
        BY <1>1, <2>4 DEF NameAttachment
    <3>3. m = [draft EXCEPT !.names = longer]
        OBVIOUS
    <3> HIDE DEF names, m
    <3>4. longer \in Seq(Text) /\ Len(longer) = n
        BY <1>2, <1>3, <3>2
    <3> HIDE DEF longer
    <3>5. m \in Messages /\ m.names = longer
        BY <1>1, <3>3, <3>4 DEF Messages
    <3> QED
        BY <1>4, <3>1, <3>2, <3>4, <3>5 DEF m
  <2> QED
      BY <2>1, <2>2, <2>3, <2>4
<1>5. draft' = m /\ UNCHANGED <<varies, mail, saved, files, now>>
    BY <1>4 DEF Write
<1> QED
    BY <1>4, <1>5 DEF TypeOK

LEMMA BackupKeepsTypes ==
    ASSUME TypeOK, NEW i \in DOMAIN mail, Backup(i)
    PROVE  TypeOK'
<1> DEFINE m == mail[i]
           filed == Filed(i, Stored(m))
           At(n) == Root \o Path(m, FiledUnder(m), n)
<1>1. m \in Mail /\ i \in 1 .. MaxMail /\ now \in 0 .. MaxBackups
    BY MailIs
<1>2. files' = filed
    BY DEF Backup
<1>3. /\ filed = [path \in DOMAIN filed |-> filed[path]]
      /\ DOMAIN filed = DOMAIN files \cup {At(n) : n \in Artifacts(m)}
      /\ \A n \in Artifacts(m) : filed[At(n)] =
             [message |-> i, artifact |-> LastAt(m, FiledUnder(m), At(n))]
      /\ \A path \in DOMAIN files :
             (\A n \in Artifacts(m) : path # At(n)) => filed[path] = files[path]
    BY FiledIs
<1> HIDE DEF filed
<1>4. ASSUME NEW n \in Artifacts(m)
      PROVE  At(n) \in Seq(Text) /\ filed[At(n)] \in Contents
  <2>1. At(n) \in Seq(Text)
      BY <1>1, TargetIs
  <2>2. LastAt(m, FiledUnder(m), At(n)) \in Artifacts(m)
      BY <1>1, LastAtIs
  <2>3. Artifacts(m) \subseteq 0 .. MaxNames
    <3> DEFINE names == m.names
    <3>1. names \in Seq(Text) /\ Len(names) <= MaxNames
        BY <1>1, MailFacts DEF Mail
    <3> HIDE DEF names
    <3>2. 0 .. Len(names) \subseteq 0 .. MaxNames
        BY <3>1, BoundFacts
    <3> QED
        BY <3>2 DEF Artifacts, names
  <2> DEFINE last == LastAt(m, FiledUnder(m), At(n))
  <2>4. last \in 0 .. MaxNames /\ filed[At(n)] = [message |-> i, artifact |-> last]
      BY <1>3, <2>2, <2>3
  <2> HIDE DEF last, At, m
  <2> QED
      BY <1>1, <2>1, <2>4 DEF Contents
<1>5. \A path \in DOMAIN files : path \in Seq(Text) /\ files[path] \in Contents
    BY DEF TypeOK
<1>6. \A path \in DOMAIN filed : path \in Seq(Text) /\ filed[path] \in Contents
  <2> TAKE path \in DOMAIN filed
  <2>1. CASE \E n \in Artifacts(m) : path = At(n)
      BY <1>4, <2>1
  <2>2. CASE ~ \E n \in Artifacts(m) : path = At(n)
    <3>1. path \in DOMAIN files
        BY <1>3, <2>2
    <3>2. filed[path] = files[path]
        BY <1>3, <2>2, <3>1
    <3> QED
        BY <1>5, <3>1, <3>2
  <2> QED
      BY <2>1, <2>2
<1>7. now' \in 0 .. MaxBackups
    BY <1>1, BoundFacts DEF Backup
<1>8. saved' \subseteq DOMAIN mail
    BY DEF Backup, TypeOK
<1>9. UNCHANGED <<varies, draft, mail>>
    BY DEF Backup
<1> QED
    BY <1>2, <1>6, <1>7, <1>8, <1>9 DEF TypeOK

LEMMA InitTypes == Init => TypeOK
<1> SUFFICES ASSUME Init PROVE TypeOK
    OBVIOUS
<1>1. PICK date \in Dates : draft = [mailbox |-> <<>>, uid |-> 1, date |-> date,
                                     subject |-> <<>>, names |-> <<>>]
    BY DEF Init
<1>2. <<>> \in Text /\ <<>> \in Seq(Text) /\ 1 \in 1 .. MaxMail /\ Len(<<>>) = 0
    BY BoundFacts DEF Text
<1>3. draft \in Messages /\ Len(draft.names) <= MaxNames
    BY <1>1, <1>2, BoundFacts DEF Messages
<1>4. /\ varies \in Varying /\ mail = <<>> /\ saved = {} /\ files = <<>> /\ now = 0
    BY DEF Init
<1>5. DOMAIN mail = {} /\ DOMAIN files = {} /\ mail \in Seq(Messages) /\ Len(mail) <= MaxMail
    BY <1>4, BoundFacts
<1> QED
    BY <1>3, <1>4, <1>5, BoundFacts DEF TypeOK

LEMMA NextTypes == TypeOK /\ [Next]_vars => TypeOK'
<1> SUFFICES ASSUME TypeOK, [Next]_vars PROVE TypeOK'
    OBVIOUS
<1>1. CASE NameMailbox \/ WriteSubject \/ Attach \/ NameAttachment
    BY <1>1, WriteKeepsTypes
<1>2. CASE Arrive
  <2>1. /\ \A i \in DOMAIN mail : i \in DOMAIN mail' /\ mail'[i] = mail[i]
        /\ mail' \in Seq(Messages) /\ Len(mail') <= MaxMail
        /\ \A i \in DOMAIN mail' :
               mail'[i].names \in {draft.names} \cup {mail[j].names : j \in DOMAIN mail}
      BY <1>2, ArriveKeeps
  <2>2. \A i \in DOMAIN mail' : Len(mail'[i].names) <= MaxNames
      BY <2>1 DEF TypeOK
  <2>3. saved' \subseteq DOMAIN mail'
      BY <1>2, <2>1 DEF TypeOK, Arrive
  <2>4. UNCHANGED <<varies, draft, saved, files, now>>
      BY <1>2 DEF Arrive
  <2> QED
      BY <2>1, <2>2, <2>3, <2>4 DEF TypeOK
<1>3. CASE \E i \in DOMAIN mail : Backup(i)
    BY <1>3, BackupKeepsTypes
<1>4. CASE UNCHANGED vars
    BY <1>4 DEF vars, TypeOK
<1> QED
    BY <1>1, <1>2, <1>3, <1>4 DEF Next

\* Filing never leaves its types: drafts, messages and files are what they should be.
THEOREM TypeCorrect == Spec => []TypeOK
<1>1. Init => TypeOK
    BY InitTypes
<1>2. TypeOK /\ [Next]_vars => TypeOK'
    BY NextTypes
<1> QED
    BY <1>1, <1>2, PTL DEF Spec

-----------------------------------------------------------------------------
(* Nothing means anything to the file system *)

\* Whatever senders and owners write, and however much of it, an artifact lands
\* where its path says, in the directory of its own message.
THEOREM NothingEscapes == Spec => []PathsMeanThemselves
<1>1. TypeOK => PathsMeanThemselves
    BY MailIs, TargetIs DEF PathsMeanThemselves
<1> QED
    BY <1>1, TypeCorrect, PTL

\* However long a subject is, its slug is below the cap.
THEOREM SlugAlwaysCapped == Spec => []SlugIsCapped
<1>1. TypeOK => SlugIsCapped
  <2> SUFFICES ASSUME TypeOK, NEW i \in DOMAIN mail
               PROVE  LET slug == Slug(mail[i].subject)
                      IN  /\ slug # <<>> /\ slug[1] # "-" /\ slug[Len(slug)] # "-"
                          /\ Bytes(slug) <= MaxSlug + 1
      BY DEF SlugIsCapped
  <2>1. mail[i].subject \in Text
      BY MailIs, MailFacts
  <2> QED
      BY <2>1, SlugIs
<1> QED
    BY <1>1, TypeCorrect, PTL

\* Of any subject, however long, the slug is its words: nothing else ends it
\* before the cap, and no word of it is lost, split or made of two.
THEOREM SlugAlwaysItsWords == Spec => []SlugIsItsWords
<1>1. TypeOK => SlugIsItsWords
  <2> SUFFICES ASSUME TypeOK, NEW i \in DOMAIN mail
               PROVE  LET text == [k \in DOMAIN mail[i].subject |-> ToLower(mail[i].subject[k])]
                          slug == Slug(mail[i].subject)
                      IN  IF InWords(text, Len(text)) = {} THEN slug = NoSubject
                          ELSE \E n \in 1 .. Len(text) : \E at \in [DOMAIN slug -> 1 .. n] :
                                   /\ \A j, k \in DOMAIN slug : j < k => at[j] < at[k]
                                   /\ Range(at) = InWords(text, n) \cup Between(text, n)
                                   /\ \A k \in DOMAIN slug :
                                         slug[k] = IF at[k] \in InWords(text, n)
                                                   THEN text[at[k]] ELSE "-"
                                   /\ n < Len(text) => Bytes(slug) >= MaxSlug - 1
      BY DEF SlugIsItsWords
  <2>1. mail[i].subject \in Text
      BY MailIs, MailFacts
  <2> QED
      BY <2>1, SlugIsWords
<1> QED
    BY <1>1, TypeCorrect, PTL

-----------------------------------------------------------------------------
(* Mailboxes keep their tree *)

LEMMA LetterFacts ==
    /\ Letters \subseteq Chars
    /\ Letters \cap (Separators \cup Reserved \cup Control \cup {".", " "}) = {}
BY CharFacts DEF Letters, Separators, Reserved, Control

\* A loop that appends what it meets has met all of it.
LEMMA LoopAppends ==
    ASSUME NEW D, NEW s \in Seq(D), NEW step,
           \A i \in 1 .. Len(s) : \A acc \in Seq(D) : step[s[i]][acc] = Append(acc, s[i])
    PROVE  Loop(step, <<>>, s) = s
<1> DEFINE inv == [i \in 0 .. Len(s) |-> {SubSeq(s, 1, i)}]
<1>0. Len(s) \in Nat
    OBVIOUS
<1>1. \A i \in 0 .. Len(s) : inv[i] = {SubSeq(s, 1, i)}
    OBVIOUS
<1> HIDE DEF inv
<1>2. <<>> \in inv[0]
  <2>1. SubSeq(s, 1, 0) = <<>>
      BY SubSeqEmpty
  <2>2. inv[0] = {SubSeq(s, 1, 0)}
      BY <1>0, <1>1
  <2> QED
      BY <2>1, <2>2
<1>3. ASSUME NEW i \in 1 .. Len(s), NEW acc \in inv[i - 1]
      PROVE  step[s[i]][acc] \in inv[i]
  <2>1. acc = SubSeq(s, 1, i - 1)
      BY <1>0, <1>1
  <2>2. acc \in Seq(D) /\ Append(acc, s[i]) = SubSeq(s, 1, i)
      BY <2>1, PrefixAppend
  <2>3. step[s[i]][acc] = SubSeq(s, 1, i)
      BY <2>2
  <2>4. inv[i] = {SubSeq(s, 1, i)}
      BY <1>0, <1>1
  <2> QED
      BY <2>3, <2>4
<1>4. Loop(step, <<>>, s) \in inv[Len(s)]
    BY <1>2, <1>3, LoopInvariant
<1>5. SubSeq(s, 1, Len(s)) = s
    BY SubSeqFull
<1> QED
    BY <1>0, <1>1, <1>4, <1>5

\* A name of letters is safe as it is.
LEMMA LettersAreSafe ==
    ASSUME NEW t \in Seq(Letters)
    PROVE  SafeFilename(t) = t
<1>1. Seq(Letters) \subseteq Text
    BY LetterFacts, SeqMonotonic DEF Text
<1>2. \A i \in 1 .. Len(t) : t[i] \in Letters
    OBVIOUS
<1>3. BaseName(t) = t
  <2>1. ASSUME NEW i \in 1 .. Len(t), NEW acc \in Seq(Letters)
        PROVE  BaseRune[t[i]][acc] = Append(acc, t[i])
      BY <1>1, <1>2, LetterFacts DEF BaseRune
  <2> QED
      BY <2>1, LoopAppends DEF BaseName
<1>4. Clean(t) = t
  <2>1. ASSUME NEW i \in 1 .. Len(t), NEW acc \in Seq(Letters)
        PROVE  CleanRune[t[i]][acc] = Append(acc, t[i])
      BY <1>1, <1>2, LetterFacts DEF CleanRune
  <2> QED
      BY <2>1, LoopAppends DEF Clean
<1>5. \A c \in {" ", "."} : Trim(t, {c}) = t
  <2> TAKE c \in {" ", "."}
  <2>1. \A i \in 1 .. Len(t) : t[i] \notin {c}
      BY <1>2, LetterFacts
  <2> QED
      BY <1>1, <2>1, TrimIs
<1> QED
    BY <1>3, <1>4, <1>5 DEF SafeFilename

\* Splitting loses no character but those of C.
LEMMA SplitCovers ==
    ASSUME NEW s \in Text, NEW C
    PROVE  \A i \in 1 .. Len(s) : s[i] \notin C =>
               \E k \in 1 .. Len(Split(s, C)) : \E l \in 1 .. Len(Split(s, C)[k]) :
                   Split(s, C)[k][l] = s[i]
<1> DEFINE In(c, ps) == \E k \in 1 .. Len(ps) : \E l \in 1 .. Len(ps[k]) : ps[k][l] = c
           inv == [i \in 0 .. Len(s) |->
                      {ps \in Parts : \A j \in 1 .. i : s[j] \notin C => In(s[j], ps)}]
<1>0. Len(s) \in Nat /\ s \in Seq(Chars)
    BY DEF Text
<1>1. ASSUME NEW ps \in Parts, NEW c \in Chars
      PROVE  /\ \A d : In(d, ps) => In(d, Cut(C)[c][ps])
             /\ c \notin C => In(c, Cut(C)[c][ps])
  <2> DEFINE n == Len(ps)
             last == Last(ps)
             cut == Cut(C)[c][ps]
  <2>1. ps \in Seq(Text) /\ n \in Nat \ {0} /\ last = ps[n] /\ last \in Text /\ Len(last) \in Nat
      BY CutIs DEF Parts, Last, Text
  <2>2. /\ Front(ps) \in Seq(Text) /\ Len(Front(ps)) = n - 1
        /\ \A k \in 1 .. n - 1 : Front(ps)[k] = ps[k]
    <3>1. Front(ps) = SubSeq(ps, 1, n - 1)
        BY DEF Front
    <3> HIDE DEF n, last, cut
    <3>2. /\ SubSeq(ps, 1, n - 1) \in Seq(Text) /\ Len(SubSeq(ps, 1, n - 1)) = n - 1
          /\ \A k \in 1 .. n - 1 : SubSeq(ps, 1, n - 1)[k] = ps[k]
      <4>1. n = Len(ps) /\ \A k \in 1 .. Len(ps) : ps[k] \in Text
          BY <2>1 DEF n
      <4> QED
          BY <2>1, <4>1, SubSeqProperties
    <3> QED
        BY <3>1, <3>2
  <2>3. CASE c \in C
    <3>1. cut = Append(ps, <<>>) /\ <<>> \in Text
      <4>1. cut = Append(ps, <<>>)
          BY <2>3, CutIs
      <4> QED
          BY <4>1 DEF Text
    <3> HIDE DEF cut
    <3>2. Len(cut) = n + 1 /\ \A k \in 1 .. n : cut[k] = ps[k]
        BY <2>1, <3>1, AppendProperties
    <3>3. \A d : In(d, ps) => In(d, cut)
        BY <2>1, <3>2
    <3> QED
        BY <2>3, <3>3 DEF cut
  <2>4. CASE c \notin C
    <3> DEFINE longer == Append(last, c)
    <3>1. cut = Append(Front(ps), longer)
        BY <2>4, CutIs
    <3>2. /\ longer \in Text /\ Len(longer) = Len(last) + 1 /\ longer[Len(last) + 1] = c
          /\ \A l \in 1 .. Len(last) : longer[l] = last[l]
        BY <2>1, AppendProperties DEF Text
    <3> HIDE DEF cut, longer, last
    <3>3. Len(cut) = n /\ cut[n] = longer /\ \A k \in 1 .. n - 1 : cut[k] = ps[k]
        BY <2>1, <2>2, <3>1, <3>2, AppendProperties
    <3>4. In(c, cut)
      <4>1. n \in 1 .. Len(cut) /\ Len(last) + 1 \in 1 .. Len(cut[n])
          BY <2>1, <3>2, <3>3
      <4> QED
          BY <3>2, <3>3, <4>1
    <3>5. ASSUME NEW d, In(d, ps)
          PROVE  In(d, cut)
      <4>1. PICK k \in 1 .. n : \E l \in 1 .. Len(ps[k]) : ps[k][l] = d
          BY <3>5
      <4>2. CASE k = n
        <5>1. PICK l \in 1 .. Len(last) : last[l] = d
            BY <2>1, <4>1, <4>2
        <5>2. n \in 1 .. Len(cut) /\ l \in 1 .. Len(cut[n]) /\ cut[n][l] = d
            BY <2>1, <3>2, <3>3, <5>1
        <5> QED
            BY <5>2
      <4>3. CASE k # n
        <5>1. k \in 1 .. n - 1 /\ k \in 1 .. Len(cut) /\ cut[k] = ps[k]
            BY <2>1, <3>3, <4>3
        <5> QED
            BY <4>1, <5>1
      <4> QED
          BY <4>2, <4>3
    <3> QED
        BY <3>4, <3>5 DEF cut
  <2> QED
      BY <2>3, <2>4
<1> HIDE DEF In
<1>2. \A i \in 0 .. Len(s) :
          inv[i] = {ps \in Parts : \A j \in 1 .. i : s[j] \notin C => In(s[j], ps)}
    OBVIOUS
<1> HIDE DEF inv
<1>3. << <<>> >> \in inv[0]
  <2>1. << <<>> >> \in Parts
      BY DEF Parts, Text
  <2> QED
      BY <1>0, <1>2, <2>1
<1>4. ASSUME NEW i \in 1 .. Len(s), NEW ps \in inv[i - 1]
      PROVE  Cut(C)[s[i]][ps] \in inv[i]
  <2>1. i - 1 \in 0 .. Len(s) /\ i \in 0 .. Len(s) /\ s[i] \in Chars
      BY <1>0
  <2>2. ps \in Parts /\ \A j \in 1 .. i - 1 : s[j] \notin C => In(s[j], ps)
      BY <1>2, <2>1
  <2>3. Cut(C)[s[i]][ps] \in Parts
      BY <2>1, <2>2, CutIs
  <2>4. \A j \in 1 .. i : s[j] \notin C => In(s[j], Cut(C)[s[i]][ps])
    <3> TAKE j \in 1 .. i
    <3>1. CASE j = i
        BY <1>1, <2>1, <2>2, <3>1
    <3>2. CASE j # i
      <4>1. j \in 1 .. i - 1
          BY <3>2
      <4> QED
          BY <1>1, <2>1, <2>2, <4>1
    <3> QED
        BY <3>1, <3>2
  <2> QED
      BY <1>2, <2>1, <2>3, <2>4
<1>5. Split(s, C) \in inv[Len(s)]
    BY <1>0, <1>3, <1>4, LoopInvariant DEF Split
<1>6. Len(s) \in 0 .. Len(s)
    BY <1>0
<1> QED
    BY <1>2, <1>5, <1>6 DEF In

\* One delimiter among letters is as good as all of them.
LEMMA SplitAlike ==
    ASSUME NEW s \in Text, NEW C, NEW D,
           \A i \in 1 .. Len(s) : s[i] \in C <=> s[i] \in D
    PROVE  Split(s, C) = Split(s, D)
<1>1. << <<>> >> \in Parts
    BY DEF Parts, Text
<1>2. ASSUME NEW i \in 1 .. Len(s), NEW parts \in Parts
      PROVE  Cut(C)[s[i]][parts] \in Parts /\ Cut(C)[s[i]][parts] = Cut(D)[s[i]][parts]
  <2>1. s[i] \in Chars
      BY DEF Text
  <2> QED
      BY <2>1, CutIs
<1> QED
    BY <1>1, <1>2, LoopSame DEF Split, Text

LEMMA TreeIsKept ==
    ASSUME NEW name \in Text, NEW delimiter \in {"/", ".", "\\"},
           \A k \in DOMAIN Split(name, {delimiter}) :
               /\ Split(name, {delimiter})[k] # <<>>
               /\ Range(Split(name, {delimiter})[k]) \subseteq Letters
    PROVE  SafePath(name) = Split(name, {delimiter})
<1> DEFINE parts == Split(name, {delimiter})
           All == Separators \cup {"."}
           Names == Seq(Letters) \ {<<>>}
<1>1. parts \in Parts
    BY SplitIs
<1>h. \A k \in DOMAIN parts : parts[k] # <<>> /\ Range(parts[k]) \subseteq Letters
    OBVIOUS
<1>2. delimiter \in All
    BY DEF Separators
<1> HIDE DEF parts
<1>3. parts \in Seq(Text) /\ parts # <<>> /\ Len(parts) \in Nat /\ DOMAIN parts = 1 .. Len(parts)
    BY <1>1 DEF Parts
<1>4. \A k \in 1 .. Len(parts) : parts[k] \in Names
  <2> TAKE k \in 1 .. Len(parts)
  <2>1. parts[k] \in Seq(Chars) /\ parts[k] # <<>> /\ Range(parts[k]) \subseteq Letters
    <3>1. k \in DOMAIN parts /\ parts[k] \in Text
        BY <1>3
    <3> QED
        BY <1>h, <3>1 DEF Text
  <2> DEFINE t == parts[k]
  <2>2. t \in Seq(Chars) /\ \A l \in 1 .. Len(t) : t[l] \in Letters
      BY <2>1 DEF Range
  <2> HIDE DEF t
  <2>3. t \in Seq(Letters)
      BY <2>2, SeqDef
  <2> QED
      BY <2>1, <2>3 DEF t
<1>5. ASSUME NEW i \in 1 .. Len(name)
      PROVE  name[i] \in {delimiter} <=> name[i] \in All
  <2>1. CASE name[i] \in {delimiter}
      BY <1>2, <2>1
  <2>2. CASE name[i] \notin {delimiter}
    <3>1. \E k \in 1 .. Len(parts) : \E l \in 1 .. Len(parts[k]) : parts[k][l] = name[i]
      <4> DEFINE one == {delimiter}
      <4>1. name[i] \notin one /\ parts = Split(name, one)
          BY <2>2 DEF parts
      <4> HIDE DEF one
      <4>2. \E k \in 1 .. Len(Split(name, one)) : \E l \in 1 .. Len(Split(name, one)[k]) :
                Split(name, one)[k][l] = name[i]
          BY <4>1, SplitCovers
      <4> QED
          BY <4>1, <4>2
    <3>2. name[i] \in Letters
        BY <1>4, <3>1
    <3> QED
        BY <2>2, <3>2, LetterFacts
  <2> QED
      BY <2>1, <2>2
<1>6. Split(name, All) = parts
    BY <1>5, SplitAlike DEF parts
<1>7. parts \in Seq(Names)
    BY <1>3, <1>4, SeqDef
<1>8. ASSUME NEW i \in 1 .. Len(parts), NEW acc \in Seq(Names)
      PROVE  KeepPart[parts[i]][acc] = Append(acc, parts[i])
  <2>1. Names \subseteq Text
      BY LetterFacts, SeqMonotonic DEF Text
  <2>2. parts[i] \in Text /\ parts[i] \in Names /\ acc \in Seq(Text)
      BY <1>4, <2>1, SeqMonotonic
  <2>3. SafeFilename(parts[i]) = parts[i]
      BY <2>2, LettersAreSafe
  <2>4. parts[i] # <<>> /\ parts[i][1] \in Letters
      BY <2>2
  <2>5. parts[i] \notin {<<>>, <<".">>, <<".", ".">>}
    <3>1. parts[i][1] # "."
        BY <2>4, LetterFacts
    <3>2. <<".">>[1] = "." /\ <<".", ".">>[1] = "."
        OBVIOUS
    <3> QED
        BY <2>4, <3>1, <3>2
  <2> QED
      BY <2>2, <2>3, <2>5 DEF KeepPart
<1> HIDE DEF Names
<1>9. Loop(KeepPart, <<>>, parts) = parts
    BY <1>7, <1>8, LoopAppends
<1> QED
    BY <1>3, <1>6, <1>9 DEF SafePath, parts

\* A mailbox whose name uses one delimiter between names of letters is filed
\* under those names, however long they are.
THEOREM TreesAreKept == Spec => []MailboxTreeIsKept
<1>1. TypeOK => MailboxTreeIsKept
  <2> SUFFICES ASSUME TypeOK, NEW i \in DOMAIN mail, NEW delimiter \in {"/", ".", "\\"},
                      \A k \in DOMAIN Split(mail[i].mailbox, {delimiter}) :
                          /\ Split(mail[i].mailbox, {delimiter})[k] # <<>>
                          /\ Range(Split(mail[i].mailbox, {delimiter})[k]) \subseteq Letters
               PROVE  SafePath(mail[i].mailbox) = Split(mail[i].mailbox, {delimiter})
      BY DEF MailboxTreeIsKept
  <2>1. mail[i].mailbox \in Text
      BY MailIs, MailFacts
  <2> QED
      BY <2>1, TreeIsKept
<1> QED
    BY <1>1, TypeCorrect, PTL

-----------------------------------------------------------------------------
(* Nothing displaces anything else *)

UidsApart ==
    \A i, j \in DOMAIN mail :
        mail[i].mailbox = mail[j].mailbox /\ mail[i].uid = mail[j].uid => i = j

FilesOfMail == \A path \in DOMAIN files : files[path].message \in DOMAIN mail

\* More than ArtifactsAreKept says: which artifact a path ends up with.
HeldAt(i, path) ==
    /\ path \in DOMAIN files
    /\ \/ files[path] = [message |-> i, artifact |-> LastAt(mail[i], mail[i].date, path)]
       \/ SameDirectory(i, files[path].message)

Held ==
    \A i \in saved : mail[i].date # 0 => \A n \in Artifacts(mail[i]) :
        HeldAt(i, Root \o Path(mail[i], mail[i].date, n))

Inv == TypeOK /\ UidsApart /\ FilesOfMail /\ Held

LEMMA RootApart ==
    ASSUME NEW m \in Mail, NEW k \in Mail, NEW d \in Numbers, NEW e \in Numbers,
           NEW n \in Artifacts(m), NEW j \in Artifacts(k),
           Root \o Path(m, d, n) = Root \o Path(k, e, j)
    PROVE  Path(m, d, n) = Path(k, e, j)
<1>1. Seq(Plain) \subseteq Seq(Text)
    BY SeqMonotonic DEF Plain, Element
<1>2. Root \in Seq(Text)
  <2>1. "a" \in Chars /\ "a" \notin Separators
      BY CharFacts DEF Letters
  <2>2. <<"a">> \in Text
      BY <2>1, OneCharacter
  <2> QED
      BY <2>2 DEF Root
<1> DEFINE p == Path(m, d, n)
           q == Path(k, e, j)
<1>3. p \in Seq(Text) /\ q \in Seq(Text) /\ Root \o p = Root \o q
    BY <1>1, PathIs
<1> HIDE DEF p, q
<1>4. p = q
    BY <1>2, <1>3, ConcatApart
<1> QED
    BY <1>4 DEF p, q

\* The artifacts of two messages with one target: the messages are one, or of
\* two mailboxes with one directory.
LEMMA TargetApart ==
    ASSUME TypeOK, UidsApart, NEW i \in DOMAIN mail, NEW j \in DOMAIN mail, i # j,
           NEW d \in Numbers, NEW e \in Numbers,
           NEW n \in Artifacts(mail[i]), NEW k \in Artifacts(mail[j]),
           Root \o Path(mail[i], d, n) = Root \o Path(mail[j], e, k)
    PROVE  SameDirectory(i, j)
<1>1. mail[i] \in Mail /\ mail[j] \in Mail
    BY MailIs
<1>3. Path(mail[i], d, n) = Path(mail[j], e, k)
    BY <1>1, RootApart
<1>4. SafePath(mail[i].mailbox) = SafePath(mail[j].mailbox) /\ mail[i].uid = mail[j].uid
    BY <1>1, <1>3, PathApart
<1> QED
    BY <1>4 DEF SameDirectory, UidsApart

LEMMA InitHolds == Init => Inv
<1> SUFFICES ASSUME Init PROVE Inv
    OBVIOUS
<1>1. TypeOK
    BY InitTypes
<1>2. DOMAIN mail = {} /\ DOMAIN files = {} /\ saved = {}
    BY DEF Init
<1> QED
    BY <1>1, <1>2 DEF Inv, UidsApart, FilesOfMail, Held

LEMMA WriteKeeps ==
    ASSUME Inv, UNCHANGED <<mail, saved, files>>
    PROVE  UidsApart' /\ FilesOfMail' /\ Held'
BY DEF Inv, UidsApart, FilesOfMail, Held, HeldAt, SameDirectory

LEMMA ArriveKeepsInv ==
    ASSUME Inv, Arrive
    PROVE  UidsApart' /\ FilesOfMail' /\ Held'
<1>1. /\ \A i \in DOMAIN mail : i \in DOMAIN mail' /\ mail'[i] = mail[i]
      /\ mail' \in Seq(Messages)
      /\ \A i \in DOMAIN mail' : i \notin DOMAIN mail =>
             \A j \in DOMAIN mail : mail[j].mailbox = mail'[i].mailbox => mail[j].uid < mail'[i].uid
      /\ \A i, j \in DOMAIN mail' : i \notin DOMAIN mail /\ j \notin DOMAIN mail => i = j
    BY ArriveKeeps DEF Inv
<1>2. UNCHANGED <<saved, files>>
    BY DEF Arrive
<1>3. \A i \in DOMAIN mail : mail[i].uid \in Nat
  <2>1. \A i \in DOMAIN mail : mail[i] \in Mail
      BY MailIs DEF Inv
  <2>2. Numbers \subseteq Nat
      BY BoundFacts DEF Numbers
  <2> QED
      BY <2>1, <2>2, MailFacts
<1>4. UidsApart'
  <2> SUFFICES ASSUME NEW i \in DOMAIN mail', NEW j \in DOMAIN mail',
                      mail'[i].mailbox = mail'[j].mailbox, mail'[i].uid = mail'[j].uid
               PROVE  i = j
      BY DEF UidsApart
  <2>1. CASE i \in DOMAIN mail /\ j \in DOMAIN mail
      BY <1>1, <2>1 DEF Inv, UidsApart
  <2>2. CASE i \in DOMAIN mail /\ j \notin DOMAIN mail
      BY <1>1, <1>3, <2>2
  <2>3. CASE i \notin DOMAIN mail /\ j \in DOMAIN mail
      BY <1>1, <1>3, <2>3
  <2>4. CASE i \notin DOMAIN mail /\ j \notin DOMAIN mail
      BY <1>1, <2>4
  <2> QED
      BY <2>1, <2>2, <2>3, <2>4
<1>5. FilesOfMail'
    BY <1>1, <1>2 DEF Inv, FilesOfMail
<1>6. Held'
  <2>1. \A i \in saved : i \in DOMAIN mail /\ mail'[i] = mail[i]
      BY <1>1 DEF Inv, TypeOK
  <2>2. ASSUME NEW i \in saved, NEW path, HeldAt(i, path)
        PROVE  HeldAt(i, path)'
    <3>1. path \in DOMAIN files /\ files[path].message \in DOMAIN mail /\ files' = files
        BY <1>2, <2>2 DEF Inv, FilesOfMail, HeldAt
    <3>2. mail'[files[path].message] = mail[files[path].message]
        BY <1>1, <3>1
    <3> QED
        BY <2>1, <2>2, <3>1, <3>2 DEF HeldAt, SameDirectory
  <2> SUFFICES ASSUME NEW i \in saved, mail'[i].date # 0, NEW n \in Artifacts(mail'[i])
               PROVE  HeldAt(i, Root \o Path(mail[i], mail[i].date, n))'
      BY <1>2 DEF Held
  <2>3. PICK path : path = Root \o Path(mail[i], mail[i].date, n)
      OBVIOUS
  <2>4. HeldAt(i, path)
      BY <2>1, <2>3 DEF Inv, Held
  <2>5. HeldAt(i, path)'
      BY <2>2, <2>4
  <2>6. path = (Root \o Path(mail[i], mail[i].date, n))'
      BY <2>1, <2>3
  <2> QED
      BY <2>5, <2>6 DEF HeldAt
<1> QED
    BY <1>4, <1>5, <1>6

LEMMA BackupKeepsInv ==
    ASSUME Inv, NEW j \in DOMAIN mail, Backup(j)
    PROVE  UidsApart' /\ FilesOfMail' /\ Held'
<1> DEFINE filed == Filed(j, Stored(mail[j]))
           At(n) == Root \o Path(mail[j], FiledUnder(mail[j]), n)
<1>1. TypeOK /\ UidsApart /\ FilesOfMail /\ Held
    BY DEF Inv
<1>2. /\ DOMAIN filed = DOMAIN files \cup {At(n) : n \in Artifacts(mail[j])}
      /\ \A n \in Artifacts(mail[j]) : filed[At(n)] =
             [message |-> j, artifact |-> LastAt(mail[j], FiledUnder(mail[j]), At(n))]
      /\ \A path \in DOMAIN files :
             (\A n \in Artifacts(mail[j]) : path # At(n)) => filed[path] = files[path]
    BY <1>1, FiledIs
<1>m. \A n \in Artifacts(mail[j]) : filed[At(n)].message = j
  <2> TAKE n \in Artifacts(mail[j])
  <2> DEFINE last == LastAt(mail[j], FiledUnder(mail[j]), At(n))
  <2>1. filed[At(n)] = [message |-> j, artifact |-> last]
      BY <1>2
  <2> HIDE DEF filed, At, last
  <2> QED
      BY <2>1
<1>3. files' = filed /\ mail' = mail /\ saved' \subseteq saved \cup {j}
    BY DEF Backup
<1> HIDE DEF filed, At
<1>4. UidsApart'
    BY <1>1, <1>3 DEF UidsApart
<1>5. FilesOfMail'
  <2> SUFFICES ASSUME NEW path \in DOMAIN filed
               PROVE  filed[path].message \in DOMAIN mail
      BY <1>3 DEF FilesOfMail
  <2>1. CASE \E n \in Artifacts(mail[j]) : path = At(n)
      BY <1>m, <2>1
  <2>2. CASE ~ \E n \in Artifacts(mail[j]) : path = At(n)
    <3>1. path \in DOMAIN files /\ filed[path] = files[path]
        BY <1>2, <2>2
    <3> QED
        BY <1>1, <3>1 DEF FilesOfMail
  <2> QED
      BY <2>1, <2>2
<1>6. Held'
  <2>s. SUFFICES ASSUME NEW i \in saved', mail[i].date # 0, NEW n \in Artifacts(mail[i]),
                        NEW path, path = Root \o Path(mail[i], mail[i].date, n)
                 PROVE  HeldAt(i, path)'
    <3>1. ASSUME NEW i \in saved', mail'[i].date # 0, NEW n \in Artifacts(mail'[i])
          PROVE  HeldAt(i, Root \o Path(mail[i], mail[i].date, n))'
      <4>1. PICK path : path = Root \o Path(mail[i], mail[i].date, n)
          OBVIOUS
      <4>2. HeldAt(i, path)'
          BY <1>3, <2>s, <3>1, <4>1
      <4>3. path = (Root \o Path(mail[i], mail[i].date, n))'
          BY <1>3, <4>1
      <4> QED
          BY <4>2, <4>3 DEF HeldAt
    <3> QED
        BY <3>1 DEF Held
  <2> SUFFICES /\ path \in DOMAIN filed
               /\ \/ filed[path] = [message |-> i,
                                    artifact |-> LastAt(mail[i], mail[i].date, path)]
                  \/ SameDirectory(i, filed[path].message)
      BY <1>3 DEF HeldAt, SameDirectory
  <2>1. i \in DOMAIN mail
      BY <1>1, <1>3, <2>s DEF TypeOK
  <2>2. CASE i = j
    <3>1. path = At(n) /\ FiledUnder(mail[j]) = mail[i].date
        BY <2>2, <2>s DEF FiledUnder, At
    <3> QED
        BY <1>2, <2>2, <2>s, <3>1
  <2>3. CASE i # j
    <3>1. i \in saved
        BY <1>3, <2>3, <2>s
    <3>2. HeldAt(i, path)
        BY <1>1, <2>s, <3>1 DEF Held
    <3>3. path \in DOMAIN filed
        BY <1>2, <3>2 DEF HeldAt
    <3>4. CASE \E k \in Artifacts(mail[j]) : path = At(k)
      <4>1. PICK k \in Artifacts(mail[j]) : path = At(k)
          BY <3>4
      <4>2. mail[i].date \in Numbers /\ FiledUnder(mail[j]) \in Numbers
        <5>1. mail[i] \in Mail /\ mail[j] \in Mail /\ now \in 0 .. MaxBackups
            BY <1>1, <2>1, MailIs
        <5>2. mail[i].date \in 0 .. MaxNumber
            BY <5>1, MailFacts
        <5> QED
            BY <2>s, <5>1, <5>2, FiledUnderIs, BoundFacts DEF Numbers
      <4>3. SameDirectory(i, j)
        <5>1. Root \o Path(mail[i], mail[i].date, n) =
                  Root \o Path(mail[j], FiledUnder(mail[j]), k)
            BY <2>s, <4>1 DEF At
        <5> QED
            BY <1>1, <2>1, <2>3, <2>s, <4>2, <5>1, TargetApart
      <4>4. filed[path].message = j
          BY <1>m, <4>1
      <4> QED
          BY <3>3, <4>3, <4>4
    <3>5. CASE ~ \E k \in Artifacts(mail[j]) : path = At(k)
      <4>1. filed[path] = files[path]
          BY <1>2, <3>2, <3>5 DEF HeldAt
      <4> QED
          BY <3>2, <3>3, <4>1 DEF HeldAt
    <3> QED
        BY <3>4, <3>5
  <2> QED
      BY <2>2, <2>3
<1> QED
    BY <1>4, <1>5, <1>6

LEMMA Inductive == Spec => []Inv
<1>1. Inv /\ [Next]_vars => Inv'
  <2> SUFFICES ASSUME Inv, [Next]_vars PROVE Inv'
      OBVIOUS
  <2>1. TypeOK'
    <3>1. TypeOK
        BY DEF Inv
    <3> QED
        BY <3>1, NextTypes
  <2>2. CASE NameMailbox \/ WriteSubject \/ Attach \/ NameAttachment
    <3>1. UNCHANGED <<mail, saved, files>>
        BY <2>2 DEF NameMailbox, WriteSubject, Attach, NameAttachment, Write
    <3> QED
        BY <2>1, <3>1, WriteKeeps DEF Inv
  <2>3. CASE Arrive
      BY <2>1, <2>3, ArriveKeepsInv DEF Inv
  <2>4. CASE \E i \in DOMAIN mail : Backup(i)
      BY <2>1, <2>4, BackupKeepsInv DEF Inv
  <2>5. CASE UNCHANGED vars
    <3>1. UNCHANGED <<mail, saved, files>>
        BY <2>5 DEF vars
    <3> QED
        BY <2>1, <3>1, WriteKeeps DEF Inv
  <2> QED
      BY <2>2, <2>3, <2>4, <2>5 DEF Next
<1> QED
    BY <1>1, InitHolds, PTL DEF Spec

LEMMA HeldIsKept == Inv => ArtifactsAreKept
<1> SUFFICES ASSUME Inv, NEW i \in saved, mail[i].date # 0, NEW n \in Artifacts(mail[i]),
                    NEW path, path = Root \o Path(mail[i], mail[i].date, n)
             PROVE  /\ path \in DOMAIN files
                    /\ \/ files[path] = [message |-> i, artifact |-> n]
                       \/ /\ files[path].message = i
                          /\ SameFilename(mail[i], n, files[path].artifact)
                       \/ SameDirectory(i, files[path].message)
    BY DEF ArtifactsAreKept
<1>1. HeldAt(i, path)
    BY DEF Inv, Held
<1>2. mail[i] \in Mail
    BY MailIs DEF Inv, TypeOK
<1>3. mail[i].date \in Numbers
  <2>1. mail[i].date \in 0 .. MaxNumber
      BY <1>2, MailFacts
  <2> QED
      BY <2>1, BoundFacts DEF Numbers
<1> DEFINE last == LastAt(mail[i], mail[i].date, path)
<1>4. last \in Artifacts(mail[i]) /\ Root \o Path(mail[i], mail[i].date, last) = path
    BY <1>2, LastAtIs
<1> HIDE DEF last
<1>5. last = n \/ SameFilename(mail[i], n, last)
  <2>1. Path(mail[i], mail[i].date, n) = Path(mail[i], mail[i].date, last)
      BY <1>2, <1>3, <1>4, RootApart
  <2>2. (n = 0 <=> last = 0) /\ (n # 0 => Filename(mail[i], n) = Filename(mail[i], last))
      BY <1>2, <1>3, <1>4, <2>1, PathApart
  <2> QED
      BY <1>2, <1>4, <2>2, FilenameApart
<1> QED
    BY <1>1, <1>5 DEF HeldAt, last

\* No message takes the files of another, however many arrive and whatever their
\* names: only a mailbox that shares a directory, or a name of an attachment
\* that a sender chose, can displace an artifact.
THEOREM EveryArtifactKept == Spec => []ArtifactsAreKept
BY Inductive, HeldIsKept, PTL

\* A retry rewrites what it wrote.
THEOREM RetryIsIdempotent == Spec => RetryAddsNothing
<1> DEFINE Same == \A i \in saved : now' > now /\ mail[i].date # 0 /\ Backup(i) =>
                      /\ DOMAIN files' = DOMAIN files
                      /\ \A path \in DOMAIN files : files'[path] = files[path]
                                                    \/ SameDirectory(i, files[path].message)
<1>1. Inv => Same
  <2> SUFFICES ASSUME Inv, NEW i \in saved, mail[i].date # 0, Backup(i)
               PROVE  /\ DOMAIN files' = DOMAIN files
                      /\ \A path \in DOMAIN files : files'[path] = files[path]
                                                    \/ SameDirectory(i, files[path].message)
      OBVIOUS
  <2> DEFINE filed == Filed(i, Stored(mail[i]))
             At(n) == Root \o Path(mail[i], FiledUnder(mail[i]), n)
  <2>1. i \in DOMAIN mail /\ FiledUnder(mail[i]) = mail[i].date
      BY DEF Inv, TypeOK, FiledUnder
  <2>2. /\ DOMAIN filed = DOMAIN files \cup {At(n) : n \in Artifacts(mail[i])}
        /\ \A n \in Artifacts(mail[i]) : filed[At(n)] =
               [message |-> i, artifact |-> LastAt(mail[i], FiledUnder(mail[i]), At(n))]
        /\ \A path \in DOMAIN files :
               (\A n \in Artifacts(mail[i]) : path # At(n)) => filed[path] = files[path]
      BY <2>1, FiledIs DEF Inv
  <2>3. files' = filed
      BY DEF Backup
  <2>4. \A n \in Artifacts(mail[i]) : HeldAt(i, At(n))
      BY <2>1 DEF Inv, Held
  <2> HIDE DEF filed, At
  <2>5. DOMAIN filed = DOMAIN files
      BY <2>2, <2>4 DEF HeldAt
  <2>6. ASSUME NEW path \in DOMAIN files
        PROVE  filed[path] = files[path] \/ SameDirectory(i, files[path].message)
    <3>1. CASE \E n \in Artifacts(mail[i]) : path = At(n)
        BY <2>1, <2>2, <2>4, <3>1 DEF HeldAt
    <3>2. CASE ~ \E n \in Artifacts(mail[i]) : path = At(n)
        BY <2>2, <3>2
    <3> QED
        BY <3>1, <3>2
  <2> QED
      BY <2>3, <2>5, <2>6
<1>2. Inv => [Same]_vars
    BY <1>1
<1> HIDE DEF Same
<1>3. Spec => [][Same]_vars
    BY <1>2, Inductive, PTL
<1> QED
    BY <1>3 DEF RetryAddsNothing, Same
===============================================================================
