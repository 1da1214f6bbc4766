---------------------------- MODULE Decrypt_proofs ----------------------------
(***************************************************************************)
(* What the run of Decrypt shows for two invocations over a few files, for *)
(* any number of them.                                                     *)
(***************************************************************************)
EXTENDS Decrypt, TLAPS

\* How many arguments have been written.
Done == IF pc = "write" THEN Len(texts) - 1 ELSE Len(texts)

\* Where the loop is, and which argument is in memory.
LoopInv ==
    /\ pc = "write" => Len(texts) > 0 /\ Exists(run.args[Len(texts)])
    /\ result = "nil" => pc = "idle" /\ Len(texts) = Len(run.args)

\* A run without --force that has not failed left every plaintext so far, and
\* a later one of the same name stopped at it.
DoneInv ==
    ~run.force /\ (pc # "idle" \/ result = "nil") =>
        \A i \in 1 .. Done : Exists(Target(i)) /\ disk[Target(i)] = <<"plain", texts[i]>>

Inv == TypeOK /\ LoopInv /\ DoneInv

LEMMA InitInv == Init => Inv
BY DecryptAssumption DEF Init, Inv, TypeOK, LoopInv, DoneInv

\* Creating or replacing one file leaves the others.
LEMMA WrittenKeeps ==
  ASSUME NEW path, NEW contents \in Contents, \A p \in DOMAIN disk : disk[p] \in Contents,
         disk' = Written(path, contents)
  PROVE  /\ DOMAIN disk' = DOMAIN disk \cup {path}
         /\ disk'[path] = contents
         /\ \A p \in DOMAIN disk : p # path => disk'[p] = disk[p]
         /\ \A p \in DOMAIN disk' : disk'[p] \in Contents
BY DEF Written

LEMMA LastText ==
  ASSUME Inv, pc = "write"
  PROVE  Last(texts) = texts[Len(texts)] /\ Last(texts) \in Artifacts
         /\ Len(texts) \in Nat
BY DecryptAssumption DEF Inv, TypeOK, LoopInv, Last

LEMMA StartInv == Inv /\ (\E r \in Invocations : Start(r)) => Inv'
<1> SUFFICES ASSUME Inv, NEW r \in Invocations, Start(r) PROVE Inv'
  OBVIOUS
<1> USE DecryptAssumption DEF Start, Inv
<1>1. TypeOK'
  BY DEF TypeOK
<1>2. LoopInv' /\ DoneInv'
  BY DEF LoopInv, DoneInv, Done
<1> QED
  BY <1>1, <1>2

LEMMA OpenInv == Inv /\ Open => Inv'
<1> SUFFICES ASSUME Inv, Open PROVE Inv'
  OBVIOUS
<1>1. /\ texts \in Seq(Readable) /\ disk[Argument][2] \in Readable
      /\ Len(texts) \in Nat /\ Len(run.args) \in Nat
  BY DecryptAssumption DEF Inv, TypeOK, Open, Opens
<1>2. /\ texts' \in Seq(Readable) /\ Len(texts') = Len(texts) + 1
      /\ \A i \in 1 .. Len(texts) : texts'[i] = texts[i]
  BY <1>1 DEF Open
<1>3. TypeOK'
  BY <1>1, <1>2 DEF Inv, TypeOK, Open
<1>4. LoopInv'
  BY <1>1, <1>2 DEF Inv, LoopInv, Open, Argument, Exists
<1>5. DoneInv'
  <2>1. Done' = Len(texts) /\ Done = Len(texts) /\ pc # "idle"
    BY <1>2 DEF Done, Open
  <2>2. \A i \in 1 .. Len(texts) : Target(i)' = Target(i) /\ Exists(Target(i))' = Exists(Target(i))
    BY DEF Open, Target, Exists
  <2> QED
    BY <1>2, <2>1, <2>2 DEF Inv, DoneInv, Open
<1> QED
  BY <1>3, <1>4, <1>5 DEF Inv

LEMMA WriteTargetInv == Inv /\ WriteTarget => Inv'
<1> SUFFICES ASSUME Inv, WriteTarget PROVE Inv'
  OBVIOUS
<1> DEFINE target == Target(Len(texts))
<1>1. /\ Last(texts) = texts[Len(texts)] /\ Last(texts) \in Artifacts
      /\ Len(texts) \in Nat
  BY LastText DEF WriteTarget
<1>2. /\ DOMAIN disk' = DOMAIN disk \cup {target}
      /\ disk'[target] = <<"plain", Last(texts)>>
      /\ \A p \in DOMAIN disk : p # target => disk'[p] = disk[p]
      /\ \A p \in DOMAIN disk' : disk'[p] \in Contents
  BY <1>1, WrittenKeeps DEF WriteTarget, Inv, TypeOK, Contents
<1>3. TypeOK'
  BY <1>2 DEF Inv, TypeOK, WriteTarget
<1>4. LoopInv'
  BY DEF Inv, LoopInv, WriteTarget
<1>5. DoneInv'
  <2> SUFFICES ASSUME ~run.force, NEW i \in 1 .. Len(texts)
               PROVE  Target(i) \in DOMAIN disk' /\ disk'[Target(i)] = <<"plain", texts[i]>>
    BY DEF DoneInv, Done, Exists, Target, WriteTarget
  <2>1. target \notin DOMAIN disk
    BY DEF WriteTarget, MayWrite, Exists
  <2>2. CASE i = Len(texts)
    BY <1>1, <1>2, <2>2
  <2>3. CASE i < Len(texts)
    <3>1. Target(i) \in DOMAIN disk /\ disk[Target(i)] = <<"plain", texts[i]>>
      BY <1>1, <2>3 DEF Inv, DoneInv, Done, Exists, WriteTarget
    <3> QED
      BY <1>2, <2>1, <3>1
  <2> QED
    BY <1>1, <2>2, <2>3
<1> QED
  BY <1>3, <1>4, <1>5 DEF Inv

LEMMA WriteBreaksInv == Inv /\ WriteBreaks => Inv'
<1> SUFFICES ASSUME Inv, WriteBreaks PROVE Inv'
  OBVIOUS
<1>1. \A p \in DOMAIN disk' : disk'[p] \in Contents
  <2>1. CASE disk' = disk
    BY <2>1 DEF Inv, TypeOK
  <2>2. CASE disk' = Written(Target(Len(texts)), <<"torn", Last(texts)>>)
    BY <2>2, LastText, WrittenKeeps DEF WriteBreaks, Inv, TypeOK, Contents
  <2> QED
    BY <2>1, <2>2 DEF WriteBreaks
<1>2. TypeOK'
  BY <1>1 DEF Inv, TypeOK, WriteBreaks
<1>3. LoopInv' /\ DoneInv'
  BY DEF LoopInv, DoneInv, WriteBreaks
<1> QED
  BY <1>2, <1>3 DEF Inv

LEMMA ReturnInv == Inv /\ Return => Inv'
<1> SUFFICES ASSUME Inv, Return PROVE Inv'
  OBVIOUS
<1>1. TypeOK' /\ LoopInv'
  BY DEF Inv, TypeOK, LoopInv, Return
<1>2. DoneInv'
  BY DEF Inv, DoneInv, Done, Return, Exists, Target
<1> QED
  BY <1>1, <1>2 DEF Inv

LEMMA NextInv == Inv /\ [Next]_vars => Inv'
<1> SUFFICES ASSUME Inv, [Next]_vars PROVE Inv'
  OBVIOUS
<1>1. ASSUME OpenFails \/ TargetExists \/ Stop PROVE Inv'
  BY <1>1 DEF OpenFails, TargetExists, Stop, Inv, TypeOK, LoopInv, DoneInv
<1>2. ASSUME UNCHANGED vars PROVE Inv'
  BY <1>2 DEF vars, Inv, TypeOK, LoopInv, DoneInv, Done, Exists, Target
<1> QED
  BY <1>1, <1>2, StartInv, OpenInv, WriteTargetInv, WriteBreaksInv, ReturnInv DEF Next

LEMMA AlwaysInv == Spec => []Inv
  BY InitInv, NextInv, PTL DEF Spec

-----------------------------------------------------------------------------
\* Decrypt is well typed for any files and invocations.
THEOREM DecryptTypeCorrect == Spec => []TypeOK
<1>1. Inv => TypeOK
  BY DEF Inv
<1> QED
  BY <1>1, AlwaysInv, PTL

\* A run that returned nil without --force left every argument's plaintext where
\* it said, however many names collide and whatever earlier runs left (decrypt).
THEOREM OutputAlwaysWhole == Spec => []OutputIsWhole
<1>1. Inv => OutputIsWhole
  BY DEF Inv, LoopInv, DoneInv, Done, OutputIsWhole
<1> QED
  BY <1>1, AlwaysInv, PTL

\* A run without --force changes no file there is (decrypt's check of the target).
THEOREM UnforcedAlwaysKeeps == Spec => UnforcedKeepsFiles
<1>1. ASSUME Inv, [Next]_vars, ~run.force, NEW p \in DOMAIN disk
      PROVE  Exists(p)' /\ disk'[p] = disk[p]
  <2>1. CASE disk' = disk
    BY <2>1 DEF Exists
  <2>2. CASE WriteTarget \/ WriteBreaks
    <3>1. /\ pc = "write" /\ Target(Len(texts)) \notin DOMAIN disk
          /\ \E c : disk' = Written(Target(Len(texts)), c) \/ disk' = disk
      BY <1>1, <2>2 DEF WriteTarget, WriteBreaks, MayWrite, Exists
    <3> QED
      BY <3>1 DEF Written, Exists
  <2> QED
    BY <1>1, <2>1, <2>2 DEF Next, vars, Start, Open, OpenFails, TargetExists, Return, Stop
<1>2. Inv /\ [Next]_vars =>
         [~run.force => \A p \in DOMAIN disk : Exists(p)' /\ disk'[p] = disk[p]]_vars
  BY <1>1
<1> QED
  BY <1>2, AlwaysInv, PTL DEF Spec, UnforcedKeepsFiles

-----------------------------------------------------------------------------
\* A target differs from its input in the suffixes, which no relocation changes.
LEMMA TargetIsElsewhere ==
  ASSUME Inv, NEW i \in 1 .. Len(run.args)
  PROVE  Target(i) # run.args[i]
<1> DEFINE path == run.args[i]
           suffixes == path[3]
<1>1. DOMAIN path = 1 .. 3 /\ suffixes \in Seq(Endings)
  BY DecryptAssumption DEF Inv, TypeOK
<1>2. ASSUME NEW changed, changed = Front(suffixes) \/ changed = Append(suffixes, "decrypted"),
             NEW renamed, renamed = [path EXCEPT ![3] = changed]
      PROVE  Relocate(renamed, run.output)[3] = changed
  <2>1. DOMAIN renamed = 1 .. 3 /\ renamed[3] = changed
    BY <1>1, <1>2
  <2> QED
    BY <2>1 DEF Relocate
<1>3. CASE suffixes # <<>> /\ Last(suffixes) = KeyScheme
  <2>1. Target(i) = Relocate([path EXCEPT ![3] = Front(suffixes)], run.output)
    BY <1>3 DEF Target, DecryptedPath
  <2>2. Target(i)[3] = Front(suffixes)
    BY <1>2, <2>1
  <2>3. Len(Front(suffixes)) # Len(suffixes)
    BY <1>1, <1>3 DEF Front
  <2> QED
    BY <2>2, <2>3
<1>4. CASE ~(suffixes # <<>> /\ Last(suffixes) = KeyScheme)
  <2>1. Target(i) = Relocate([path EXCEPT ![3] = Append(suffixes, "decrypted")], run.output)
    BY <1>4 DEF Target, DecryptedPath
  <2>2. Target(i)[3] = Append(suffixes, "decrypted")
    BY <1>2, <2>1
  <2>3. Len(Append(suffixes, "decrypted")) # Len(suffixes)
    BY <1>1
  <2> QED
    BY <2>2, <2>3
<1> QED
  BY <1>3, <1>4

\* No plaintext is written over the ciphertext it comes from, with --force or
\* without and wherever --output points (decryptedPath).
THEOREM OwnInputAlwaysSurvives == Spec => OwnInputSurvives
<1>1. ASSUME Inv, [Next]_vars, pc = "write"
      PROVE  disk'[run.args[Len(texts)]] = disk[run.args[Len(texts)]]
  <2>1. Len(texts) \in 1 .. Len(run.args) /\ Exists(run.args[Len(texts)])
    BY <1>1, DecryptAssumption DEF Inv, TypeOK, LoopInv
  <2>2. Target(Len(texts)) # run.args[Len(texts)]
    BY <1>1, <2>1, TargetIsElsewhere
  <2>3. CASE disk' = disk
    BY <2>3
  <2>4. CASE WriteTarget \/ WriteBreaks
    BY <2>1, <2>2, <2>3, <2>4 DEF WriteTarget, WriteBreaks, Written, Exists
  <2> QED
    BY <1>1, <2>3, <2>4 DEF Next, vars, Start, Open, OpenFails, TargetExists, Return, Stop
<1>2. Inv /\ [Next]_vars =>
         [pc = "write" => disk'[run.args[Len(texts)]] = disk[run.args[Len(texts)]]]_vars
  BY <1>1
<1> QED
  BY <1>2, AlwaysInv, PTL DEF Spec, OwnInputSurvives
=============================================================================
