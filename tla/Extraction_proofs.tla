--------------------------- MODULE Extraction_proofs ---------------------------
(***************************************************************************)
(* Why the walk finds what there is to find: for messages of any length     *)
(* and nesting, of any parts, and for any bound on the depth.               *)
(***************************************************************************)
EXTENDS Extraction, SequenceTheorems, FiniteSetTheorems, TLAPS

Parts == Leaves \cup {Multi, End, Failure}

TypeOK ==
    /\ message \in Seq(Parts) /\ at \in Nat \ {0} /\ depth \in Int
    /\ found \in Seq(Nat) /\ pc \in {"sent", "walking", "fetched"}

\* Only the last thing of a message can end its outermost part.
NestedInv == \A k \in 2 .. Len(message) : Level(k) > 0

\* Before it starts, the walk has found nothing.
SentInv == pc = "sent" => at = 1 /\ depth = 0 /\ found = <<>>

\* While it goes on it counts its calls right, has passed no place where it
\* should have stopped, and has found what there was to find before this one.
WalkingInv ==
    pc = "walking" =>
        /\ at \in DOMAIN message /\ depth = Level(at) /\ Open = 0
        /\ \A k \in Stops : at <= k
        /\ Range(found) = {k \in Wanted : k < at}
        /\ \A i, j \in DOMAIN found : i < j => found[i] < found[j]

IInv == TypeOK /\ NestedInv /\ SentInv /\ WalkingInv /\ WalkIsFaithful

-----------------------------------------------------------------------------
(* Levels *)

Before(m, k, kind) == {j \in DOMAIN m : j < k /\ m[j].kind = kind}
Count(m, k, kind)  == Cardinality(Before(m, k, kind))

LEMMA LevelIs == \A k : Level(k) = Count(message, k, "multi") - Count(message, k, "end")
BY DEF Level, Count, Before

LEMMA CountIs ==
    ASSUME NEW m \in Seq(Parts), NEW kind
    PROVE  /\ \A k \in Nat : Count(m, k, kind) \in Nat
           /\ Count(m, 1, kind) = 0
           /\ \A k \in DOMAIN m : Count(m, k + 1, kind) = IF m[k].kind = kind
                                                          THEN Count(m, k, kind) + 1
                                                          ELSE Count(m, k, kind)
<1>0. Len(m) \in Nat /\ DOMAIN m = 1 .. Len(m)
    OBVIOUS
<1>1. \A k : IsFiniteSet(Before(m, k, kind))
  <2> TAKE k
  <2>1. IsFiniteSet(1 .. Len(m)) /\ Before(m, k, kind) \in SUBSET (1 .. Len(m))
      BY <1>0, FS_Interval DEF Before
  <2> QED
      BY <2>1, FS_Subset
<1>2. \A k : Count(m, k, kind) \in Nat
    BY <1>1, FS_CardinalityType DEF Count
<1>3. Count(m, 1, kind) = 0
  <2>1. Before(m, 1, kind) = {}
      BY <1>0 DEF Before
  <2> QED
      BY <2>1, FS_EmptySet DEF Count
<1>4. ASSUME NEW k \in DOMAIN m
      PROVE  Count(m, k + 1, kind) = IF m[k].kind = kind THEN Count(m, k, kind) + 1
                                     ELSE Count(m, k, kind)
  <2>1. CASE m[k].kind = kind
    <3>1. Before(m, k + 1, kind) = Before(m, k, kind) \cup {k} /\ k \notin Before(m, k, kind)
        BY <1>0, <2>1 DEF Before
    <3> QED
        BY <1>1, <2>1, <3>1, FS_AddElement DEF Count
  <2>2. CASE m[k].kind # kind
    <3>1. Before(m, k + 1, kind) = Before(m, k, kind)
        BY <1>0, <2>2 DEF Before
    <3> QED
        BY <2>2, <3>1 DEF Count
  <2> QED
      BY <2>1, <2>2
<1> QED
    BY <1>2, <1>3, <1>4

\* What comes later does not change the level of what is there.
LEMMA CountAppend ==
    ASSUME NEW m \in Seq(Parts), NEW part \in Parts, NEW kind, NEW k \in 1 .. Len(m) + 1
    PROVE  Count(Append(m, part), k, kind) = Count(m, k, kind)
<1> DEFINE n == Append(m, part)
<1>1. /\ Len(m) \in Nat /\ DOMAIN m = 1 .. Len(m) /\ DOMAIN n = 1 .. Len(m) + 1
      /\ \A j \in 1 .. Len(m) : n[j] = m[j]
    BY AppendProperties
<1> HIDE DEF n
<1>2. Before(n, k, kind) = Before(m, k, kind)
    BY <1>1 DEF Before
<1> QED
    BY <1>2 DEF Count, n

LEMMA LevelFacts ==
    ASSUME TypeOK
    PROVE  /\ \A k \in Nat : Level(k) \in Int
           /\ Level(1) = 0
           /\ \A k \in DOMAIN message :
                 /\ message[k].kind = "multi" => Level(k + 1) = Level(k) + 1
                 /\ message[k].kind = "end" => Level(k + 1) = Level(k) - 1
                 /\ message[k].kind \notin {"multi", "end"} => Level(k + 1) = Level(k)
<1>1. message \in Seq(Parts) /\ DOMAIN message = 1 .. Len(message) /\ Len(message) \in Nat
    BY DEF TypeOK
<1>2. \A kind \in {"multi", "end"} :
         /\ \A k \in Nat : Count(message, k, kind) \in Nat
         /\ Count(message, 1, kind) = 0
         /\ \A k \in DOMAIN message :
               Count(message, k + 1, kind) = IF message[k].kind = kind
                                             THEN Count(message, k, kind) + 1
                                             ELSE Count(message, k, kind)
    BY <1>1, CountIs
<1>3. \A k \in DOMAIN message : k \in Nat
    BY <1>1
<1> QED
    BY <1>2, <1>3, LevelIs

-----------------------------------------------------------------------------
(* A sender composes *)

LEMMA ComposeKeeps ==
    ASSUME IInv, NEW part \in Parts, Compose(part)
    PROVE  IInv'
<1>1. /\ message' = Append(message, part) /\ Open > 0 /\ pc = "sent"
      /\ UNCHANGED <<at, depth, found, pc>>
    BY DEF Compose
<1>2. /\ message \in Seq(Parts) /\ message' \in Seq(Parts)
      /\ Len(message) \in Nat /\ Len(message') = Len(message) + 1
    BY <1>1, AppendProperties DEF IInv, TypeOK
<1>3. \A k \in 1 .. Len(message) + 1 : Level(k)' = Level(k)
  <2> TAKE k \in 1 .. Len(message) + 1
  <2>1. /\ Count(message', k, "multi") = Count(message, k, "multi")
        /\ Count(message', k, "end") = Count(message, k, "end")
      BY <1>1, <1>2, CountAppend
  <2>2. Level(k)' = Count(message', k, "multi") - Count(message', k, "end")
      BY DEF Level, Count, Before
  <2> QED
      BY <2>1, <2>2, LevelIs
<1>4. NestedInv'
  <2>1. Level(Len(message) + 1) > 0
      BY <1>1 DEF Open
  <2>2. ASSUME NEW k \in 2 .. Len(message) + 1
        PROVE  Level(k)' > 0
    <3>1. Level(k)' = Level(k)
        BY <1>2, <1>3
    <3>2. k = Len(message) + 1 \/ k \in 2 .. Len(message)
        BY <1>2
    <3> QED
        BY <2>1, <3>1, <3>2 DEF IInv, NestedInv
  <2> QED
      BY <1>2, <2>2 DEF NestedInv
<1>5. TypeOK' /\ SentInv' /\ WalkingInv' /\ WalkIsFaithful'
    BY <1>1, <1>2 DEF IInv, TypeOK, SentInv, WalkingInv, WalkIsFaithful
<1> QED
    BY <1>4, <1>5 DEF IInv

-----------------------------------------------------------------------------
(* The walk *)

LEMMA SameMessage ==
    ASSUME message' = message
    PROVE  /\ Stops' = Stops /\ Wanted' = Wanted /\ Open' = Open
           /\ \A k : Level(k)' = Level(k)
<1>1. \A k : Level(k)' = Level(k)
    BY DEF Level
<1>2. Stops' = Stops /\ Open' = Open
    BY <1>1 DEF Stops, Open, TooDeep
<1> QED
    BY <1>1, <1>2 DEF Wanted, IsAttachment

LEMMA FetchKeeps ==
    ASSUME IInv, ReadFails \/ Fetch
    PROVE  IInv'
<1>1. /\ pc = "sent" /\ (message # <<>> => Open = 0)
      /\ pc' = IF message = <<>> THEN "fetched" ELSE "walking"
      /\ UNCHANGED <<message, at, depth, found>>
    BY DEF ReadFails, Fetch
<1>2. /\ TypeOK /\ at = 1 /\ depth = 0 /\ found = <<>>
      /\ message \in Seq(Parts) /\ Len(message) \in Nat /\ DOMAIN message = 1 .. Len(message)
    BY <1>1 DEF IInv, TypeOK, SentInv
<1>3. TypeOK' /\ SentInv' /\ NestedInv'
  <2>1. TypeOK' /\ SentInv'
      BY <1>1, <1>2 DEF TypeOK, SentInv
  <2>2. NestedInv'
      BY <1>1, SameMessage DEF IInv, NestedInv
  <2> QED
      BY <2>1, <2>2
<1>4. /\ Range(found) = {} /\ DOMAIN found = {}
    BY <1>2 DEF Range
<1>5. \A k \in Wanted \cup Stops : k \in DOMAIN message /\ k >= 1
    BY <1>2 DEF Wanted, Stops
<1>6. WalkIsFaithful'
  <2> SUFFICES ASSUME message = <<>> PROVE WalkIsFaithful'
      BY <1>1 DEF WalkIsFaithful
  <2>1. Wanted = {}
      BY <1>2, <1>5
  <2> QED
      BY <1>1, <1>4, <2>1, SameMessage DEF WalkIsFaithful
<1>7. WalkingInv'
  <2> SUFFICES ASSUME message # <<>> PROVE WalkingInv'
      BY <1>1 DEF WalkingInv
  <2>1. at \in DOMAIN message
      BY <1>2
  <2>2. depth = Level(at)
      BY <1>2, LevelFacts
  <2>3. (\A k \in Stops : at <= k) /\ {k \in Wanted : k < at} = {}
      BY <1>2, <1>5
  <2> QED
      BY <1>1, <1>4, <2>1, <2>2, <2>3, SameMessage DEF WalkingInv
<1> QED
    BY <1>3, <1>6, <1>7 DEF IInv

\* Where the walk is and what it has found there, in one place.
LEMMA WalkingIs ==
    ASSUME IInv, pc = "walking"
    PROVE  /\ message \in Seq(Parts) /\ Len(message) \in Nat /\ DOMAIN message = 1 .. Len(message)
           /\ at \in 1 .. Len(message) /\ at \in Nat /\ depth = Level(at) /\ depth \in Int
           /\ Level(Len(message) + 1) = 0
           /\ found \in Seq(Nat) /\ DOMAIN found = 1 .. Len(found) /\ Len(found) \in Nat
           /\ \A k \in Stops : at <= k
           /\ Range(found) = {k \in Wanted : k < at}
           /\ \A i, j \in DOMAIN found : i < j => found[i] < found[j]
           /\ \A k \in Wanted \cup Stops : k \in 1 .. Len(message)
<1>1. message \in Seq(Parts) /\ Len(message) \in Nat /\ DOMAIN message = 1 .. Len(message)
    BY DEF IInv, TypeOK
<1> QED
    BY <1>1 DEF IInv, TypeOK, WalkingInv, Open, Wanted, Stops

\* A step over a part where the walk need not stop.
LEMMA StepKeeps ==
    ASSUME IInv, pc = "walking", NEW level \in Int, level = Level(at + 1), Step(level),
           UNCHANGED message, at \notin Stops,
           found' = IF at \in Wanted THEN Append(found, at) ELSE found
    PROVE  IInv'
<1> DEFINE n == Len(message)
<1>1. /\ n \in Nat /\ DOMAIN message = 1 .. n /\ at \in 1 .. n /\ at \in Nat
      /\ Level(n + 1) = 0
      /\ found \in Seq(Nat) /\ DOMAIN found = 1 .. Len(found) /\ Len(found) \in Nat
      /\ \A k \in Stops : at <= k
      /\ Range(found) = {k \in Wanted : k < at}
      /\ \A i, j \in DOMAIN found : i < j => found[i] < found[j]
      /\ \A k \in Wanted \cup Stops : k \in 1 .. n
    BY WalkingIs
<1> HIDE DEF n
<1>2. at' = at + 1 /\ depth' = level /\ pc' = IF level = 0 THEN "fetched" ELSE "walking"
    BY DEF Step
<1>3. \A k \in Stops : at + 1 <= k
    BY <1>1
<1>4. /\ found' \in Seq(Nat)
      /\ Range(found') = {k \in Wanted : k < at + 1}
      /\ \A i, j \in DOMAIN found' : i < j => found'[i] < found'[j]
  <2>1. CASE at \notin Wanted
    <3>1. {k \in Wanted : k < at + 1} = {k \in Wanted : k < at}
        BY <1>1, <2>1
    <3> QED
        BY <1>1, <2>1, <3>1
  <2>2. CASE at \in Wanted
    <3> DEFINE more == Append(found, at)
               m    == Len(found) + 1
    <3>1. /\ more \in Seq(Nat) /\ DOMAIN more = 1 .. m /\ more[m] = at
          /\ \A i \in 1 .. Len(found) : more[i] = found[i]
        BY <1>1, AppendProperties
    <3> HIDE DEF more
    <3>2. \A i \in 1 .. Len(found) : found[i] \in Range(found)
        BY <1>1 DEF Range
    <3>3. \A i \in 1 .. Len(found) : found[i] < at
        BY <1>1, <3>2
    <3>4. \A i, j \in 1 .. m : i < j => more[i] < more[j]
      <4> TAKE i, j \in 1 .. m
      <4> HAVE i < j
      <4>1. i \in 1 .. Len(found)
          BY <1>1
      <4>2. CASE j = m
          BY <3>1, <3>3, <4>1, <4>2
      <4>3. CASE j # m
        <5>1. j \in 1 .. Len(found)
          <6> DEFINE l == Len(found)
          <6>1. l \in Nat /\ j \in 1 .. l + 1 /\ j # l + 1
              BY <1>1, <4>3
          <6> HIDE DEF l
          <6>2. j \in 1 .. l
              BY <6>1
          <6> QED
              BY <6>2 DEF l
        <5> QED
            BY <1>1, <3>1, <4>1, <5>1
      <4> QED
          BY <4>2, <4>3
    <3>5. Range(more) = Range(found) \cup {at}
      <4>1. Range(more) = {more[i] : i \in 1 .. m} /\ Range(found) = {found[i] : i \in 1 .. Len(found)}
          BY <1>1, <3>1 DEF Range
      <4>2. (\A i \in 1 .. m : i = m \/ i \in 1 .. Len(found))
            /\ m \in 1 .. m /\ \A i \in 1 .. Len(found) : i \in 1 .. m
          BY <1>1
      <4> HIDE DEF m
      <4>3. \A x \in Range(more) : x \in Range(found) \cup {at}
          BY <3>1, <4>1, <4>2
      <4>4. \A x \in Range(found) \cup {at} : x \in Range(more)
          BY <3>1, <4>1, <4>2
      <4> QED
          BY <4>3, <4>4
    <3>6. {k \in Wanted : k < at + 1} = {k \in Wanted : k < at} \cup {at}
      <4>1. \A k \in Wanted : k < at + 1 <=> k < at \/ k = at
          BY <1>1
      <4> QED
          BY <2>2, <4>1
    <3> QED
        BY <1>1, <2>2, <3>1, <3>4, <3>5, <3>6 DEF more
  <2> QED
      BY <2>1, <2>2
<1>5. TypeOK' /\ SentInv' /\ NestedInv'
  <2>1. TypeOK'
      BY <1>1, <1>2, <1>4 DEF IInv, TypeOK
  <2>2. SentInv'
      BY <1>2 DEF SentInv
  <2>3. NestedInv'
      BY SameMessage DEF IInv, NestedInv
  <2> QED
      BY <2>1, <2>2, <2>3
<1>6. WalkingInv'
  <2> SUFFICES ASSUME level # 0 PROVE WalkingInv'
      BY <1>2 DEF WalkingInv
  <2>1. at # n
      BY <1>1
  <2>2. at + 1 \in DOMAIN message
      BY <1>1, <2>1
  <2>3. Open = 0
      BY <1>1 DEF Open, n
  <2>4. /\ at' \in DOMAIN message' /\ depth' = Level(at + 1) /\ Open' = 0
        /\ \A k \in Stops' : at' <= k
        /\ Range(found') = {k \in Wanted' : k < at'}
      BY <1>2, <1>3, <1>4, <2>2, <2>3, SameMessage
  <2>5. Level(at)' = Level(at + 1)
      BY <1>2 DEF Level
  <2> QED
      BY <1>4, <2>4, <2>5 DEF WalkingInv
<1>7. WalkIsFaithful'
  <2> SUFFICES ASSUME level = 0 PROVE WalkIsFaithful'
      BY <1>2 DEF WalkIsFaithful
  <2>1. at = n
    <3>1. at + 1 \notin 2 .. n
        BY <1>1 DEF IInv, NestedInv, n
    <3> QED
        BY <1>1, <3>1
  <2>2. {k \in Wanted : k < at + 1} = Wanted
      BY <1>1, <2>1
  <2> QED
      BY <1>4, <2>2, SameMessage DEF WalkIsFaithful
<1> QED
    BY <1>5, <1>6, <1>7 DEF IInv

LEMMA EnterKeeps ==
    ASSUME IInv, EnterMultipart
    PROVE  IInv'
<1>1. /\ pc = "walking" /\ message[at].kind = "multi" /\ ~TooDeep(depth)
      /\ Step(depth + 1) /\ UNCHANGED <<message, found>>
    BY DEF EnterMultipart, Meets
<1>2. at \in DOMAIN message /\ depth = Level(at) /\ depth \in Int
    BY <1>1, WalkingIs
<1>3. depth + 1 = Level(at + 1) /\ depth + 1 \in Int
    BY <1>1, <1>2, LevelFacts DEF IInv
<1>4. at \notin Stops /\ at \notin Wanted
    BY <1>1, <1>2 DEF Stops, Wanted
<1> QED
    BY <1>1, <1>3, <1>4, StepKeeps

LEMMA TakeKeeps ==
    ASSUME IInv, TakeLeaf
    PROVE  IInv'
<1>1. /\ pc = "walking" /\ message[at].kind = "leaf" /\ ~TooDeep(depth)
      /\ found' = IF IsAttachment(message[at]) /\ message[at].readable
                  THEN Append(found, at) ELSE found
      /\ Step(depth) /\ UNCHANGED message
    BY DEF TakeLeaf, Meets
<1>2. /\ at \in DOMAIN message /\ at \in Nat /\ depth = Level(at) /\ depth \in Int
      /\ \A k \in Stops : at <= k /\ k \in Nat
    BY <1>1, WalkingIs
<1>3. depth = Level(at + 1)
    BY <1>1, <1>2, LevelFacts DEF IInv
<1>4. at \notin Stops
    BY <1>1, <1>2 DEF Stops
<1>5. at \in Wanted <=> IsAttachment(message[at]) /\ message[at].readable
  <2>1. \A j \in Stops : at < j
      BY <1>2, <1>4
  <2> QED
      BY <1>1, <1>2, <2>1 DEF Wanted
<1> QED
    BY <1>1, <1>2, <1>3, <1>4, <1>5, StepKeeps

LEMMA LeaveKeeps ==
    ASSUME IInv, LeaveMultipart
    PROVE  IInv'
<1>1. /\ pc = "walking" /\ message[at].kind = "end"
      /\ Step(depth - 1) /\ UNCHANGED <<message, found>>
    BY DEF LeaveMultipart, Meets
<1>2. at \in DOMAIN message /\ depth = Level(at) /\ depth \in Int
    BY <1>1, WalkingIs
<1>3. depth - 1 = Level(at + 1) /\ depth - 1 \in Int
    BY <1>1, <1>2, LevelFacts DEF IInv
<1>4. at \notin Stops /\ at \notin Wanted
    BY <1>1, <1>2 DEF Stops, Wanted
<1> QED
    BY <1>1, <1>3, <1>4, StepKeeps

LEMMA GiveUpKeeps ==
    ASSUME IInv, GiveUp
    PROVE  IInv'
<1>1. /\ pc = "walking"
      /\ \/ message[at].kind = "failure"
         \/ TooDeep(depth) /\ message[at].kind \in {"leaf", "multi"}
      /\ pc' = "fetched" /\ UNCHANGED <<message, at, depth, found>>
    BY DEF GiveUp, Meets
<1>2. /\ at \in DOMAIN message /\ depth = Level(at)
      /\ Range(found) = {k \in Wanted : k < at}
      /\ \A i, j \in DOMAIN found : i < j => found[i] < found[j]
    BY <1>1, WalkingIs
<1>3. at \in Stops
    BY <1>1, <1>2 DEF Stops
<1>4. \A k \in Wanted : k < at
    BY <1>3 DEF Wanted
<1>5. WalkIsFaithful'
    BY <1>1, <1>2, <1>4, SameMessage DEF WalkIsFaithful
<1>6. NestedInv'
    BY <1>1, SameMessage DEF IInv, NestedInv
<1>7. TypeOK' /\ SentInv' /\ WalkingInv'
    BY <1>1 DEF IInv, TypeOK, SentInv, WalkingInv
<1> QED
    BY <1>5, <1>6, <1>7 DEF IInv

-----------------------------------------------------------------------------
LEMMA InitIInv == WalkInit => IInv
<1> SUFFICES ASSUME WalkInit PROVE IInv
    OBVIOUS
<1>1. /\ message \in {<<>>} \cup {<<part>> : part \in Leaves \cup {Multi}}
      /\ at = 1 /\ depth = 0 /\ found = <<>> /\ pc = "sent"
    BY DEF WalkInit
<1>2. message \in Seq(Parts) /\ Len(message) \in Nat /\ Len(message) <= 1
  <2>1. CASE message = <<>>
      BY <2>1
  <2>2. CASE message # <<>>
    <3>1. PICK part \in Leaves \cup {Multi} : message = <<part>>
        BY <1>1, <2>2
    <3>2. part \in Parts
        BY DEF Parts
    <3> QED
        BY <3>1, <3>2
  <2> QED
      BY <2>1, <2>2
<1>3. \A k \in 2 .. Len(message) : FALSE
  <2> TAKE k \in 2 .. Len(message)
  <2>1. k \in Int /\ 2 <= k /\ k <= Len(message)
      BY <1>2
  <2> QED
      BY <1>2, <2>1
<1> QED
    BY <1>1, <1>2, <1>3 DEF IInv, TypeOK, NestedInv, SentInv, WalkingInv, WalkIsFaithful

LEMMA NextIInv == IInv /\ [WalkNext]_walkVars => IInv'
<1> SUFFICES ASSUME IInv, [WalkNext]_walkVars PROVE IInv'
    OBVIOUS
<1>1. CASE AddLeaf
    BY <1>1, ComposeKeeps DEF AddLeaf, Parts
<1>2. CASE Nest
    BY <1>2, ComposeKeeps DEF Nest, Parts
<1>3. CASE BreakOff
    BY <1>3, ComposeKeeps DEF BreakOff, Parts
<1>4. CASE Close
    BY <1>4, ComposeKeeps DEF Close, Parts
<1>5. CASE UNCHANGED walkVars
  <2>1. UNCHANGED <<message, at, depth, found, pc>>
      BY <1>5 DEF walkVars
  <2> QED
      BY <2>1, SameMessage DEF IInv, TypeOK, NestedInv, SentInv, WalkingInv, WalkIsFaithful
<1> QED
    BY <1>1, <1>2, <1>3, <1>4, <1>5, FetchKeeps, EnterKeeps, TakeKeeps, LeaveKeeps, GiveUpKeeps
    DEF WalkNext

\* A walk extracts, in the order of the message, exactly the attachments that
\* can be decoded before the first place where it must stop: of any message.
THEOREM WalkAlwaysFaithful == WalkSpec => []WalkIsFaithful
<1>1. IInv => WalkIsFaithful
    BY DEF IInv
<1> QED
    BY <1>1, InitIInv, NextIInv, PTL DEF WalkSpec
=============================================================================
