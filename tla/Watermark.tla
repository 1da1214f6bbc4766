------------------------------ MODULE Watermark ------------------------------
(***************************************************************************)
(* The timestamp file (stages/watermark.go): the only state one run leaves *)
(* to the next.  os.WriteFile truncates the file and then writes it, so a  *)
(* write is two steps, and a crash or a full disk between them leaves what *)
(* ReadWatermark finds blank or cannot parse.                              *)
(***************************************************************************)
EXTENDS Naturals

VARIABLE file

FileKinds == {"missing", "blank", "garbage", "stamp"}

\* stamp is 0 except in a file of kind "stamp".
File(kind)  == [kind |-> kind, stamp |-> 0]
Stamp(t)    == [kind |-> "stamp", stamp |-> t]

WatermarkTypeOK ==
    /\ file \in [kind : FileKinds, stamp : Nat]
    /\ file.kind = "stamp" <=> file.stamp # 0

\* The path may hold nothing, or something another program left there.
WatermarkInit == file \in {File("missing"), File("blank"), File("garbage")}

\* ReadWatermark's three outcomes.  A blank file is treated as a missing one;
\* text that does not parse, or has no timestamp, is an error.
ReadFails == file.kind = "garbage"
ReadFound == file.kind = "stamp"

\* os.WriteFile(path, data, 0o600): open with O_TRUNC ...
OpenWatermark == file' = File("blank")

\* ... then write, which may stop after any prefix of the data: nothing (the
\* file stays as it is: blank), some of the JSON, or all but its newline.
FillWatermark(t) == file' = Stamp(t)
TearWatermark(t) == file' \in {file, File("garbage"), Stamp(t)}
=============================================================================
