--------------------------- MODULE MCSnapshotFuzz ---------------------------
(* SnapshotFuzz with packets of no and two bytes, read byte by byte. *)
EXTENDS SnapshotFuzz

ShortPackets == {<<>>, <<1, 2>>}
EmptyPacket  == {<<>>}
OneByte      == [ch \in Chan |-> 1]
NoPackets    == {}
=============================================================================
