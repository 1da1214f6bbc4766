---------------------------- MODULE Archive_proofs ----------------------------
(***************************************************************************)
(* What the run of Archive shows for three entries and two failures, for   *)
(* any number of them.                                                     *)
(***************************************************************************)
EXTENDS Archive, TLAPS

Units == (Entries \cup {NoEntry}) \X Parts

\* A unit that leaves a reader in step: not torn, and no header without its data.
Good(s, j) ==
    /\ s[j][2] # "torn"
    /\ s[j][2] = "header" => j < Len(s) /\ s[j + 1] = <<s[j][1], "body">>

Headers(s, n) == {e \in Entries : \E j \in 1 .. n : s[j] = <<e, "header">>}

\* What is between the two ends of an archive, by the place in the code.
StreamInv ==
    /\ pc \in {"ready", "entry"} =>
          \A j \in 1 .. Len(stream) : stream[j][2] \notin {"trailer", "footer"}
    /\ pc = "ready" /\ ~tarErr => \A j \in 1 .. Len(stream) : Good(stream, j)
    /\ pc = "entry" =>
          /\ ~tarErr /\ cur \in Entries /\ Len(stream) > 0
          /\ stream[Len(stream)] = <<cur, "header">>
          /\ \A j \in 1 .. Len(stream) - 1 : Good(stream, j)
    /\ pc = "gzip" =>
          /\ ~tarErr /\ gzip
          /\ \A j \in 1 .. Len(stream) : Good(stream, j) /\ stream[j][2] # "footer"

\* An ending is the last unit, everything before it is in step, and Close gets
\* to closing the file only once the ending is in it.
EndInv ==
    /\ \A i \in 1 .. Len(stream) : stream[i] = Ending =>
          /\ i = Len(stream)
          /\ \A j \in 1 .. Len(stream) : Good(stream, j)
    /\ pc = "file" => /\ ~tarErr /\ Len(stream) > 0 /\ onDisk = Len(stream)
                      /\ stream[Len(stream)] = Ending

\* Store returned nil for the entries whose data followed their header.
AckedInv ==
    /\ pc = "entry" => acked = Headers(stream, Len(stream) - 1)
    /\ pc \in {"ready", "gzip", "file"} /\ ~tarErr => acked = Headers(stream, Len(stream))
    /\ pc # "done" => result = "none"
    /\ result = "nil" => /\ Len(stream) > 0 /\ onDisk = Len(stream)
                         /\ stream[Len(stream)] = Ending
                         /\ acked = Headers(stream, Len(stream))

Inv == TypeOK /\ StreamInv /\ EndInv /\ AckedInv

-----------------------------------------------------------------------------
LEMMA InitInv == Init => Inv
<1> SUFFICES ASSUME Init PROVE Inv
  OBVIOUS
<1> USE ArchiveAssumption DEF Init
<1>1. tarErr \in BOOLEAN
  BY Zenon
<1>2. stream \in Seq((Entries \cup {NoEntry}) \X Parts) /\ Len(stream) = 0
  OBVIOUS
<1>3. TypeOK
  BY <1>1, <1>2 DEF TypeOK
<1>4. StreamInv /\ EndInv /\ AckedInv
  BY DEF StreamInv, EndInv, AckedInv
<1> QED
  BY <1>3, <1>4 DEF Inv

\* Appending a unit keeps the units before it.
LEMMA AppendKeeps ==
  ASSUME NEW s \in Seq(Units), NEW u \in Units
  PROVE  /\ Append(s, u) \in Seq(Units)
         /\ Len(Append(s, u)) = Len(s) + 1
         /\ Append(s, u)[Len(s) + 1] = u
         /\ \A j \in 1 .. Len(s) : Append(s, u)[j] = s[j]
  OBVIOUS

\* Reading back what is on disk keeps the units up to there.
LEMMA DiskKeeps ==
  ASSUME NEW s \in Seq(Units), NEW n \in 0 .. Len(s)
  PROVE  /\ SubSeq(s, 1, n) \in Seq(Units)
         /\ Len(SubSeq(s, 1, n)) = n
         /\ \A j \in 1 .. n : SubSeq(s, 1, n)[j] = s[j]
  OBVIOUS

\* An archive's ending is a trailer or a footer, and neither is a part of an
\* entry.
LEMMA EndingIsNoEntry == Ending[2] \in {"trailer", "footer"} /\ Ending \in Units
  BY DEF Ending, Units, Parts

-----------------------------------------------------------------------------
(* Every step keeps the invariant. *)

LEMMA NewTarInv == Inv /\ NewTar => Inv'
<1> SUFFICES ASSUME Inv, NewTar PROVE Inv'
  OBVIOUS
<1> USE ArchiveAssumption DEF NewTar
<1>1. tarErr' \in BOOLEAN
  BY Zenon
<1>2. stream' \in Seq((Entries \cup {NoEntry}) \X Parts) /\ Len(stream') = 0
  OBVIOUS
<1>3. TypeOK'
  BY <1>1, <1>2 DEF TypeOK, Inv
<1>4. StreamInv' /\ EndInv'
  BY <1>2 DEF StreamInv, EndInv
<1>5. AckedInv'
  BY <1>2 DEF AckedInv, Headers
<1> QED
  BY <1>3, <1>4, <1>5 DEF Inv

LEMMA WriteHeaderInv == Inv /\ (\E e \in Entries : WriteHeader(e)) => Inv'
<1> SUFFICES ASSUME Inv, NEW e \in Entries, WriteHeader(e) PROVE Inv'
  OBVIOUS
<1> USE DEF WriteHeader, Write
<1>1. stream \in Seq(Units) /\ <<e, "header">> \in Units
  BY DEF Inv, TypeOK, Units, Parts
<1>2. /\ stream' \in Seq(Units) /\ Len(stream') = Len(stream) + 1
      /\ stream'[Len(stream')] = <<e, "header">>
      /\ \A j \in 1 .. Len(stream) : stream'[j] = stream[j]
  BY <1>1, AppendKeeps
<1>3. Len(stream) \in Nat /\ onDisk \in 0 .. Len(stream)
  BY <1>1 DEF Inv, TypeOK
<1>4. onDisk' \in 0 .. Len(stream')
  BY <1>2, <1>3 DEF Flushed
<1>5. TypeOK'
  BY <1>2, <1>4 DEF TypeOK, Inv, Units
<1>6. \A j \in 1 .. Len(stream) : stream[j][2] \notin {"trailer", "footer"}
                                  /\ Good(stream, j)
  BY DEF Inv, StreamInv
<1>7. \A j \in 1 .. Len(stream') - 1 : Good(stream', j)
  BY <1>2, <1>3, <1>6 DEF Good
<1>8. \A j \in 1 .. Len(stream') : stream'[j][2] \notin {"trailer", "footer"}
  BY <1>2, <1>3, <1>6
<1>9. StreamInv'
  BY <1>2, <1>3, <1>7, <1>8 DEF StreamInv, Inv, Good
<1>10. \A j \in 1 .. Len(stream') : stream'[j] # Ending'
  BY <1>2, <1>3, <1>6, EndingIsNoEntry DEF Ending
<1>11. EndInv'
  BY <1>10 DEF EndInv
<1>12. Headers(stream', Len(stream') - 1) = Headers(stream, Len(stream))
  <2>1. Len(stream') - 1 = Len(stream)
    BY <1>2, <1>3
  <2>2. \A x \in Entries : (\E j \in 1 .. Len(stream) : stream'[j] = <<x, "header">>)
                            <=> (\E j \in 1 .. Len(stream) : stream[j] = <<x, "header">>)
    BY <1>2
  <2> QED
    BY <2>1, <2>2, Zenon DEF Headers
<1>13. AckedInv'
  BY <1>12 DEF AckedInv, Inv
<1> QED
  BY <1>5, <1>9, <1>11, <1>13 DEF Inv

LEMMA WriteBodyInv == Inv /\ WriteBody => Inv'
<1> SUFFICES ASSUME Inv, WriteBody PROVE Inv'
  OBVIOUS
<1> USE DEF WriteBody, Write
<1>1. /\ stream \in Seq(Units) /\ <<cur, "body">> \in Units
      /\ cur \in Entries /\ Len(stream) > 0 /\ ~tarErr
      /\ stream[Len(stream)] = <<cur, "header">>
  BY DEF Inv, TypeOK, Units, Parts, StreamInv
<1>2. /\ stream' \in Seq(Units) /\ Len(stream') = Len(stream) + 1
      /\ stream'[Len(stream')] = <<cur, "body">>
      /\ \A j \in 1 .. Len(stream) : stream'[j] = stream[j]
  BY <1>1, AppendKeeps
<1>3. Len(stream) \in Nat /\ onDisk \in 0 .. Len(stream)
  BY <1>1 DEF Inv, TypeOK
<1>4. onDisk' \in 0 .. Len(stream')
  BY <1>2, <1>3 DEF Flushed
<1>5. TypeOK'
  BY <1>1, <1>2, <1>4 DEF TypeOK, Inv, Units
<1>6. /\ \A j \in 1 .. Len(stream) : stream[j][2] \notin {"trailer", "footer"}
      /\ \A j \in 1 .. Len(stream) - 1 : Good(stream, j)
  BY DEF Inv, StreamInv
<1>7. \A j \in 1 .. Len(stream') : Good(stream', j)
  <2> SUFFICES ASSUME NEW j \in 1 .. Len(stream') PROVE Good(stream', j)
    OBVIOUS
  <2>1. CASE j < Len(stream)
    BY <1>2, <1>3, <1>6, <2>1 DEF Good
  <2>2. CASE j = Len(stream)
    BY <1>1, <1>2, <1>3, <2>2 DEF Good
  <2>3. CASE j = Len(stream')
    BY <1>2, <1>3, <2>3 DEF Good
  <2> QED
    BY <1>2, <1>3, <2>1, <2>2, <2>3
<1>8. \A j \in 1 .. Len(stream') : stream'[j][2] \notin {"trailer", "footer"}
  BY <1>1, <1>2, <1>3, <1>6
<1>9. StreamInv'
  BY <1>1, <1>7, <1>8 DEF StreamInv, Inv, Good
<1>10. \A j \in 1 .. Len(stream') : stream'[j] # Ending'
  BY <1>2, <1>3, <1>6, EndingIsNoEntry DEF Ending
<1>11. EndInv'
  BY <1>10 DEF EndInv
<1>12. Headers(stream', Len(stream')) = Headers(stream, Len(stream) - 1) \cup {cur}
  <2> SUFFICES ASSUME NEW e \in Entries
               PROVE  (\E j \in 1 .. Len(stream') : stream'[j] = <<e, "header">>)
                      <=> (\E j \in 1 .. Len(stream) - 1 : stream[j] = <<e, "header">>)
                          \/ e = cur
    BY <1>1 DEF Headers
  <2>1. ASSUME NEW j \in 1 .. Len(stream'), stream'[j] = <<e, "header">>
        PROVE  (j \in 1 .. Len(stream) - 1 /\ stream[j] = <<e, "header">>) \/ e = cur
    BY <1>1, <1>2, <1>3, <2>1
  <2>2. \A j \in 1 .. Len(stream) : j \in 1 .. Len(stream') /\ stream'[j] = stream[j]
    BY <1>2, <1>3
  <2>3. Len(stream) \in 1 .. Len(stream) /\ 1 .. Len(stream) - 1 \subseteq 1 .. Len(stream)
    BY <1>1, <1>3
  <2> QED
    BY <1>1, <2>1, <2>2, <2>3
<1>13. AckedInv'
  BY <1>1, <1>12 DEF AckedInv, Inv
<1> QED
  BY <1>5, <1>9, <1>11, <1>13 DEF Inv

\* A write that fails leaves what was written, and perhaps one torn unit.
LEMMA TearKeeps ==
  ASSUME Inv, Tear
  PROVE  /\ stream' \in Seq(Units)
         /\ Len(stream') \in Nat /\ Len(stream) \in Nat
         /\ onDisk' \in 0 .. Len(stream')
         /\ faults' \in 0 .. MaxFaults
         /\ Len(stream') \in {Len(stream), Len(stream) + 1}
         /\ \A j \in 1 .. Len(stream) : stream'[j] = stream[j]
         /\ \A j \in 1 .. Len(stream') : j > Len(stream) => stream'[j][2] = "torn"
<1> USE DEF Tear
<1>1. stream \in Seq(Units) /\ <<cur, "torn">> \in Units
  BY DEF Inv, TypeOK, Units, Parts
<1>2. Len(stream) \in Nat /\ onDisk \in 0 .. Len(stream)
  BY <1>1 DEF Inv, TypeOK
<1>3. faults' \in 0 .. MaxFaults
  BY ArchiveAssumption DEF Inv, TypeOK
<1>4. CASE stream' = stream
  BY <1>1, <1>2, <1>3, <1>4 DEF Flushed
<1>5. CASE stream' = Append(stream, <<cur, "torn">>)
  <2>1. /\ stream' \in Seq(Units) /\ Len(stream') = Len(stream) + 1
        /\ stream'[Len(stream) + 1] = <<cur, "torn">>
        /\ \A j \in 1 .. Len(stream) : stream'[j] = stream[j]
    BY <1>1, <1>5, AppendKeeps
  <2>2. onDisk' \in 0 .. Len(stream')
    BY <1>2, <2>1 DEF Flushed
  <2> QED
    BY <1>2, <1>3, <2>1, <2>2
<1> QED
  BY <1>4, <1>5

LEMMA StoreFailsInv == Inv /\ StoreFails => Inv'
<1> SUFFICES ASSUME Inv, StoreFails PROVE Inv'
  OBVIOUS
<1> USE DEF StoreFails
<1>1. tarErr' \in BOOLEAN
  BY Zenon
<1>2. TypeOK'
  BY <1>1, TearKeeps DEF TypeOK, Inv, Units
<1>3. \A j \in 1 .. Len(stream') : stream'[j][2] \notin {"trailer", "footer"}
  BY TearKeeps DEF Inv, StreamInv
<1>4. StreamInv'
  BY <1>3 DEF StreamInv
<1>5. EndInv'
  BY <1>3, EndingIsNoEntry DEF EndInv, Ending
<1>6. AckedInv'
  BY DEF AckedInv, Inv
<1> QED
  BY <1>2, <1>4, <1>5, <1>6 DEF Inv

LEMMA CloseBrokenInv == Inv /\ CloseBroken => Inv'
<1> SUFFICES ASSUME Inv, CloseBroken PROVE Inv'
  OBVIOUS
<1> USE DEF CloseBroken
<1>1. TypeOK'
  BY DEF TypeOK, Inv
<1>2. StreamInv'
  BY DEF StreamInv
<1>3. EndInv'
  BY DEF EndInv, Inv, Ending, Good
<1>4. AckedInv'
  BY DEF AckedInv
<1> QED
  BY <1>1, <1>2, <1>3, <1>4 DEF Inv

LEMMA CloseTarInv == Inv /\ CloseTar => Inv'
<1> SUFFICES ASSUME Inv, CloseTar PROVE Inv'
  OBVIOUS
<1> USE DEF CloseTar, Write
<1>1. stream \in Seq(Units) /\ <<NoEntry, "trailer">> \in Units
  BY DEF Inv, TypeOK, Units, Parts
<1>2. /\ stream' \in Seq(Units) /\ Len(stream') = Len(stream) + 1
      /\ stream'[Len(stream')] = <<NoEntry, "trailer">>
      /\ \A j \in 1 .. Len(stream) : stream'[j] = stream[j]
  BY <1>1, AppendKeeps
<1>3. Len(stream) \in Nat /\ onDisk \in 0 .. Len(stream)
  BY <1>1 DEF Inv, TypeOK
<1>4. /\ onDisk' \in 0 .. Len(stream')
      /\ ~gzip => onDisk' = Len(stream')
  BY <1>2, <1>3 DEF Flushed
<1>5. TypeOK'
  BY <1>2, <1>4 DEF TypeOK, Inv, Units
<1>6. \A j \in 1 .. Len(stream) : stream[j][2] \notin {"trailer", "footer"}
                                  /\ Good(stream, j)
  BY DEF Inv, StreamInv
<1>7. \A j \in 1 .. Len(stream') : Good(stream', j) /\ stream'[j][2] # "footer"
  BY <1>2, <1>3, <1>6 DEF Good
<1>8. StreamInv'
  BY <1>7 DEF StreamInv, Inv, TypeOK
<1>9. \A j \in 1 .. Len(stream') : stream'[j] = Ending' => j = Len(stream')
  BY <1>2, <1>3, <1>6, EndingIsNoEntry DEF Ending
<1>10. pc' = "file" => /\ ~tarErr' /\ Len(stream') > 0 /\ onDisk' = Len(stream')
                       /\ stream'[Len(stream')] = Ending'
  BY <1>2, <1>3, <1>4 DEF Ending
<1>11. EndInv'
  BY <1>7, <1>9, <1>10 DEF EndInv, Good
<1>12. Headers(stream', Len(stream')) = Headers(stream, Len(stream))
  BY <1>2, <1>3 DEF Headers
<1>13. AckedInv'
  BY <1>12 DEF AckedInv, Inv
<1> QED
  BY <1>5, <1>8, <1>11, <1>13 DEF Inv

LEMMA CloseGzipInv == Inv /\ CloseGzip => Inv'
<1> SUFFICES ASSUME Inv, CloseGzip PROVE Inv'
  OBVIOUS
<1> USE DEF CloseGzip
<1>1. stream \in Seq(Units) /\ <<NoEntry, "footer">> \in Units
  BY DEF Inv, TypeOK, Units, Parts
<1>2. /\ stream' \in Seq(Units) /\ Len(stream') = Len(stream) + 1
      /\ stream'[Len(stream')] = <<NoEntry, "footer">>
      /\ \A j \in 1 .. Len(stream) : stream'[j] = stream[j]
  BY <1>1, AppendKeeps
<1>3. Len(stream) \in Nat
  BY <1>1
<1>4. TypeOK'
  BY <1>2, <1>3 DEF TypeOK, Inv, Units
<1>5. /\ ~tarErr /\ gzip
      /\ \A j \in 1 .. Len(stream) : Good(stream, j) /\ stream[j][2] # "footer"
  BY DEF Inv, StreamInv
<1>6. \A j \in 1 .. Len(stream') : Good(stream', j)
  BY <1>2, <1>3, <1>5 DEF Good
<1>7. StreamInv'
  BY DEF StreamInv
<1>8. Ending' = <<NoEntry, "footer">>
  BY <1>5 DEF Ending
<1>9. \A j \in 1 .. Len(stream') : stream'[j] = Ending' => j = Len(stream')
  BY <1>2, <1>3, <1>5, <1>8
<1>10. EndInv'
  BY <1>2, <1>3, <1>5, <1>6, <1>8, <1>9 DEF EndInv, Good
<1>11. Headers(stream', Len(stream')) = Headers(stream, Len(stream))
  BY <1>2, <1>3 DEF Headers
<1>12. AckedInv'
  BY <1>5, <1>11 DEF AckedInv, Inv
<1> QED
  BY <1>4, <1>7, <1>10, <1>12 DEF Inv

LEMMA CloseFileInv == Inv /\ CloseFile => Inv'
<1> SUFFICES ASSUME Inv, CloseFile PROVE Inv'
  OBVIOUS
<1> USE DEF CloseFile
<1>1. TypeOK'
  BY DEF TypeOK, Inv
<1>2. StreamInv'
  BY DEF StreamInv
<1>3. EndInv'
  BY DEF EndInv, Inv, Ending, Good
<1>4. AckedInv'
  BY DEF AckedInv, EndInv, Inv, Ending, Headers
<1> QED
  BY <1>1, <1>2, <1>3, <1>4 DEF Inv

LEMMA CloseFailsInv == Inv /\ CloseFails => Inv'
<1> SUFFICES ASSUME Inv, CloseFails PROVE Inv'
  OBVIOUS
<1> USE DEF CloseFails
<1>1. StreamInv' /\ AckedInv'
  BY DEF StreamInv, AckedInv
<1>2. CASE pc = "file"
  <2>1. TypeOK'
    BY <1>2, ArchiveAssumption DEF TypeOK, Inv
  <2>2. EndInv'
    BY <1>2 DEF EndInv, Inv, Ending, Good
  <2> QED
    BY <1>1, <2>1, <2>2 DEF Inv
<1>3. CASE pc \in {"ready", "gzip"} /\ Tear
  <2>1. TypeOK'
    BY <1>3, TearKeeps DEF TypeOK, Inv, Units
  <2>2. \A j \in 1 .. Len(stream') : stream'[j] # Ending'
    <3>1. \A j \in 1 .. Len(stream) : stream[j] # Ending
      BY <1>3 DEF Inv, StreamInv, Ending
    <3> QED
      BY <1>3, <3>1, TearKeeps, EndingIsNoEntry DEF Ending
  <2>3. EndInv'
    BY <2>2 DEF EndInv
  <2> QED
    BY <1>1, <2>1, <2>3 DEF Inv
<1> QED
  BY <1>2, <1>3

LEMMA CrashInv == Inv /\ Crash => Inv'
<1> SUFFICES ASSUME Inv, Crash PROVE Inv'
  OBVIOUS
<1> USE DEF Crash
<1>1. stream \in Seq(Units) /\ onDisk \in 0 .. Len(stream) /\ Len(stream) \in Nat
  BY DEF Inv, TypeOK, Units
<1>2. /\ stream' \in Seq(Units) /\ Len(stream') = onDisk
      /\ \A j \in 1 .. onDisk : stream'[j] = stream[j]
  BY <1>1, DiskKeeps
<1>3. TypeOK'
  BY <1>1, <1>2, ArchiveAssumption DEF TypeOK, Inv, Units
<1>4. StreamInv'
  BY DEF StreamInv
<1>5. EndInv'
  BY <1>1, <1>2 DEF EndInv, Inv, Ending, Good
<1>6. AckedInv'
  BY DEF AckedInv, Inv
<1> QED
  BY <1>3, <1>4, <1>5, <1>6 DEF Inv

LEMMA NextInv == Inv /\ [Next]_vars => Inv'
<1>1. Inv /\ UNCHANGED vars => Inv'
  <2> SUFFICES ASSUME Inv, UNCHANGED vars PROVE Inv'
    OBVIOUS
  <2>1. TypeOK'
    BY DEF vars, Inv, TypeOK
  <2>2. StreamInv'
    BY DEF vars, Inv, StreamInv, Good
  <2>3. EndInv'
    BY DEF vars, Inv, EndInv, Good, Ending
  <2>4. AckedInv'
    BY DEF vars, Inv, AckedInv, Headers, Ending
  <2> QED
    BY <2>1, <2>2, <2>3, <2>4 DEF Inv
<1> QED
  BY <1>1, NewTarInv, WriteHeaderInv, WriteBodyInv, StoreFailsInv, CloseBrokenInv,
     CloseTarInv, CloseGzipInv, CloseFileInv, CloseFailsInv, CrashInv DEF Next

LEMMA AlwaysInv == Spec => []Inv
  BY InitInv, NextInv, PTL DEF Spec

\* Archive is well typed whatever fails, for any number of entries.
THEOREM ArchiveTypeCorrect == Spec => []TypeOK
<1>1. Inv => TypeOK
  BY DEF Inv
<1> QED
  BY <1>1, AlwaysInv, PTL

-----------------------------------------------------------------------------
(* What the invariant says of the file on disk. *)

\* A file that ends well holds everything that was written, all in step.
LEMMA SealedFile ==
  ASSUME Inv, Sealed
  PROVE  /\ onDisk = Len(stream) /\ stream[Len(stream)] = Ending
         /\ Aligned(onDisk)
         /\ WholeEntries = Headers(stream, Len(stream))
<1>1. onDisk \in 1 .. Len(stream) /\ stream[onDisk] = Ending
  BY DEF Inv, TypeOK, Sealed
<1>2. onDisk = Len(stream) /\ \A j \in 1 .. Len(stream) : Good(stream, j)
  BY <1>1 DEF Inv, EndInv
<1>3. \A i \in 1 .. onDisk : Aligned(i)
  BY <1>2 DEF Aligned, Good
<1>4. WholeEntries = Headers(stream, Len(stream))
  BY <1>2, <1>3 DEF WholeEntries, Headers
<1> QED
  BY <1>1, <1>2, <1>3, <1>4

\* An archive whose end is in the file holds no half-written entry, whatever
\* failed before (the sticky error of the tar writer, Tar.Close).
THEOREM SealedAlwaysWhole == Spec => []SealedIsWhole
<1>1. Inv => SealedIsWhole
  BY SealedFile DEF SealedIsWhole
<1> QED
  BY <1>1, AlwaysInv, PTL

LEMMA EndIsSealed ==
  ASSUME Inv, Len(stream) > 0, onDisk = Len(stream), stream[Len(stream)] = Ending
  PROVE  Sealed
BY DEF Sealed

\* A Close that returned nil left a file that ends well and gives back exactly
\* the entries whose Store returned nil, with compression or without (Tar.Close).
THEOREM NilAlwaysSeals == Spec => []NilCloseSeals
<1>1. Inv => NilCloseSeals
  <2> SUFFICES ASSUME Inv, result = "nil" PROVE Sealed /\ WholeEntries = acked
    BY DEF NilCloseSeals
  <2>1. /\ Len(stream) > 0 /\ onDisk = Len(stream) /\ stream[Len(stream)] = Ending
        /\ acked = Headers(stream, Len(stream))
    BY DEF Inv, AckedInv
  <2> QED
    BY <2>1, EndIsSealed, SealedFile
<1> QED
  BY <1>1, AlwaysInv, PTL

-----------------------------------------------------------------------------
(* The contract: what a reader sees changes only as the contract allows. *)

\* Until Close has written the ending, the file does not look finished.
LEMMA NotSealedYet == Inv /\ pc \in {"ready", "entry", "gzip"} => ~Sealed
<1> SUFFICES ASSUME Inv, pc \in {"ready", "entry", "gzip"} PROVE ~Sealed
  OBVIOUS
<1>1. onDisk \in 0 .. Len(stream)
  BY DEF Inv, TypeOK
<1>2. \A j \in 1 .. Len(stream) : stream[j] # Ending
  BY DEF Inv, StreamInv, Ending
<1> QED
  BY <1>1, <1>2 DEF Sealed

LEMMA NotSealedNext == Inv' /\ pc' \in {"ready", "entry", "gzip"} => ~Sealed'
<1>1. (Inv /\ pc \in {"ready", "entry", "gzip"} => ~Sealed)'
  BY NotSealedYet, PTL
<1> QED
  BY <1>1

LEMMA FileSealed == Inv /\ pc = "file" => Sealed /\ WholeEntries = acked
<1> SUFFICES ASSUME Inv, pc = "file" PROVE Sealed /\ WholeEntries = acked
  OBVIOUS
<1>1. Sealed
  BY EndIsSealed DEF Inv, EndInv
<1> QED
  BY <1>1, SealedFile DEF Inv, EndInv, AckedInv

LEMMA FileSealedNext == Inv' /\ pc' = "file" => Sealed' /\ WholeEntries' = acked'
<1>1. (Inv /\ pc = "file" => Sealed /\ WholeEntries = acked)'
  BY FileSealed, PTL
<1> QED
  BY <1>1

LEMMA SameFile ==
  ASSUME UNCHANGED <<gzip, stream, onDisk>>
  PROVE  Sealed' = Sealed /\ WholeEntries' = WholeEntries /\ Content' = Content
<1>1. Sealed' = Sealed
  BY DEF Sealed, Ending
<1>2. \A i : Aligned(i)' = Aligned(i)
  BY DEF Aligned
<1>3. WholeEntries' = WholeEntries
  BY <1>2 DEF WholeEntries
<1> QED
  BY <1>1, <1>3 DEF Content

LEMMA NewTarKept == Inv /\ Inv' /\ NewTar => Contract!Create
<1> SUFFICES ASSUME Inv, Inv', NewTar PROVE Contract!Create
  OBVIOUS
<1>1. Phase = "closed"
  BY DEF NewTar, Phase
<1>2. ~Sealed'
  BY DEF NewTar, Sealed
<1>3. Phase' = "open" /\ Content' = {}
  BY <1>2 DEF NewTar, Phase, Content
<1> QED
  BY <1>1, <1>3 DEF NewTar, Contract!Create

LEMMA WriteHeaderKept ==
  Inv /\ Inv' /\ (\E e \in Entries : WriteHeader(e)) => UNCHANGED Contract!contractVars
<1> SUFFICES ASSUME Inv, Inv', NEW e \in Entries, WriteHeader(e)
             PROVE  UNCHANGED Contract!contractVars
  OBVIOUS
<1>1. ~Sealed /\ ~Sealed'
  BY NotSealedYet, NotSealedNext DEF WriteHeader
<1> QED
  BY <1>1 DEF WriteHeader, Phase, Content, Contract!contractVars

LEMMA WriteBodyKept ==
  Inv /\ Inv' /\ WriteBody => \E e \in Entries : Contract!Accept(e)
<1> SUFFICES ASSUME Inv, Inv', WriteBody PROVE Contract!Accept(cur)
  BY DEF WriteBody, Inv, StreamInv
<1>1. ~Sealed /\ ~Sealed' /\ ~tarErr
  BY NotSealedYet, NotSealedNext DEF WriteBody, Inv, StreamInv
<1> QED
  BY <1>1 DEF WriteBody, Phase, Content, Contract!Accept

LEMMA StoreFailsKept == Inv /\ Inv' /\ StoreFails => Contract!Break
<1> SUFFICES ASSUME Inv, Inv', StoreFails PROVE Contract!Break
  OBVIOUS
<1>1. ~Sealed /\ ~Sealed'
  BY NotSealedYet, NotSealedNext DEF StoreFails
<1> QED
  BY <1>1 DEF StoreFails, Phase, Content, Contract!Break

LEMMA CloseBrokenKept == Inv /\ Inv' /\ CloseBroken => Contract!Leave
<1> SUFFICES ASSUME Inv, Inv', CloseBroken PROVE Contract!Leave
  OBVIOUS
<1>1. Content' = Content
  BY SameFile DEF CloseBroken
<1>2. Phase # "closed" /\ Phase' = "closed"
  BY DEF CloseBroken, Phase
<1> QED
  BY <1>1, <1>2 DEF CloseBroken, Contract!Leave

\* Writing the end of the archive makes it valid: the trailer, or with
\* compression the footer behind it.
LEMMA EndKept ==
  ASSUME Inv, Inv', pc \in {"ready", "gzip"}, ~tarErr, pc' = "file", acked' = acked
  PROVE  Contract!Seal
<1>1. ~Sealed
  BY NotSealedYet
<1>2. Sealed' /\ WholeEntries' = acked'
  BY FileSealedNext
<1>3. Phase = "open" /\ Phase' = "sealed" /\ Content' = acked
  BY <1>1, <1>2 DEF Phase, Content
<1> QED
  BY <1>3 DEF Contract!Seal

LEMMA CloseTarKept ==
  Inv /\ Inv' /\ CloseTar => Contract!Seal \/ UNCHANGED Contract!contractVars
<1> SUFFICES ASSUME Inv, Inv', CloseTar
             PROVE  Contract!Seal \/ UNCHANGED Contract!contractVars
  OBVIOUS
<1>1. CASE pc' = "file"
  BY <1>1, EndKept DEF CloseTar
<1>2. CASE pc' = "gzip"
  <2>1. ~Sealed /\ ~Sealed'
    BY <1>2, NotSealedYet, NotSealedNext DEF CloseTar
  <2> QED
    BY <1>2, <2>1 DEF CloseTar, Phase, Content, Contract!contractVars
<1> QED
  BY <1>1, <1>2 DEF CloseTar

LEMMA CloseGzipKept == Inv /\ Inv' /\ CloseGzip => Contract!Seal
BY EndKept DEF CloseGzip, Inv, StreamInv

LEMMA CloseFileKept == Inv /\ Inv' /\ CloseFile => Contract!Leave
<1> SUFFICES ASSUME Inv, Inv', CloseFile PROVE Contract!Leave
  OBVIOUS
<1>1. Content' = Content
  BY SameFile DEF CloseFile
<1>2. Phase # "closed" /\ Phase' = "closed"
  BY DEF CloseFile, Phase
<1> QED
  BY <1>1, <1>2 DEF CloseFile, Contract!Leave

LEMMA CloseFailsKept == Inv /\ Inv' /\ CloseFails => Contract!Leave
<1> SUFFICES ASSUME Inv, Inv', CloseFails PROVE Contract!Leave
  OBVIOUS
<1>1. Phase # "closed" /\ Phase' = "closed"
  BY DEF CloseFails, Phase
<1>2. Content' = Content
  <2>1. CASE pc = "file"
    BY <2>1, SameFile DEF CloseFails
  <2>2. CASE pc \in {"ready", "gzip"} /\ Tear
    <3>1. ~Sealed
      BY <2>2, NotSealedYet
    <3>2. \A j \in 1 .. Len(stream') : stream'[j] # Ending'
      <4>1. \A j \in 1 .. Len(stream) : stream[j] # Ending
        BY <2>2 DEF Inv, StreamInv, Ending
      <4> QED
        BY <2>2, <4>1, TearKeeps, EndingIsNoEntry DEF Ending, CloseFails
    <3>3. ~Sealed'
      BY <2>2, <3>2, TearKeeps DEF Sealed
    <3> QED
      BY <3>1, <3>3 DEF Content
  <2> QED
    BY <2>1, <2>2 DEF CloseFails
<1> QED
  BY <1>1, <1>2 DEF CloseFails, Contract!Leave

\* What a killed process leaves on disk is what was there.
LEMMA CrashKept == Inv /\ Inv' /\ Crash => Contract!Leave
<1> SUFFICES ASSUME Inv, Inv', Crash PROVE Contract!Leave
  OBVIOUS
<1>1. Phase # "closed" /\ Phase' = "closed"
  BY DEF Crash, Phase
<1>2. stream \in Seq(Units) /\ onDisk \in 0 .. Len(stream) /\ Len(stream) \in Nat
  BY DEF Inv, TypeOK, Units
<1>3. Len(stream') = onDisk /\ \A j \in 1 .. onDisk : stream'[j] = stream[j]
  BY <1>2, DiskKeeps DEF Crash
<1>4. Sealed' = Sealed
  BY <1>2, <1>3 DEF Crash, Sealed, Ending
<1>5. CASE Sealed
  <2>1. onDisk = Len(stream)
    BY <1>5, SealedFile
  <2>2. stream' = stream
    BY <1>2, <2>1 DEF Crash
  <2> QED
    BY <1>1, <2>2, SameFile DEF Crash, Contract!Leave
<1>6. CASE ~Sealed
  BY <1>1, <1>4, <1>6 DEF Crash, Content, Contract!Leave
<1> QED
  BY <1>5, <1>6

\* The tar destination implements the contract of a destination that buffers:
\* after a Close that succeeded it gives back exactly what Store accepted, and
\* an archive with a failed write is never passed off as whole (Tar).
THEOREM TarKeepsContract == Spec => KeepsContract
<1>1. Init => Contract!Init
  <2> SUFFICES ASSUME Init PROVE Contract!Init
    OBVIOUS
  <2>1. ~Sealed
    BY DEF Init, Sealed
  <2> QED
    BY <2>1 DEF Init, Contract!Init, Phase, Content
<1>2. Inv /\ Inv' /\ [Next]_vars => [Contract!Next]_Contract!contractVars
  <2>1. Inv /\ UNCHANGED vars => UNCHANGED Contract!contractVars
    <3> SUFFICES ASSUME UNCHANGED vars PROVE UNCHANGED Contract!contractVars
      OBVIOUS
    <3>1. Sealed' = Sealed /\ Content' = Content
      BY SameFile DEF vars
    <3> QED
      BY <3>1 DEF vars, Phase, Contract!contractVars
  <2> QED
    BY <2>1, NewTarKept, WriteHeaderKept, WriteBodyKept, StoreFailsKept, CloseBrokenKept,
       CloseTarKept, CloseGzipKept, CloseFileKept, CloseFailsKept, CrashKept
       DEF Next, Contract!Next
<1> QED
  BY <1>1, <1>2, AlwaysInv, PTL DEF Spec, KeepsContract, Contract!Spec
=============================================================================
