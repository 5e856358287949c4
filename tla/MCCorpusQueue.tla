--------------------------- MODULE MCCorpusQueue ----------------------------
(***************************************************************************)
(* Targets for the corpus: each packet is a bit of the coverage map.       *)
(***************************************************************************)
EXTENDS CorpusQueue

Covered(d) == ToSet(d) \cap Bits

\* <<2>> alone times out, 2, 2 writes to the payload, 2, 2, 2 is reported by asan,
\* 2 followed by 1 crashes; nothing is read behind 1, 1.
ExitOf(d) == CASE d = <<2>>       -> "timeout"
               [] d = <<2, 2>>    -> "write"
               [] d = <<2, 2, 2>> -> "asan"
               [] OTHER -> IF \E i \in DOMAIN d : i > 1 /\ d[i] = 1 /\ d[i - 1] = 2
                           THEN "crash" ELSE "normal"

Used(d) == IF Len(d) > 2 /\ d[1] = 1 /\ d[2] = 1 THEN 2 ELSE Len(d)

Det(d) == {[bits |-> Covered(SubSeq(d, 1, Used(d))), max |-> [s \in Slots |-> Used(d)],
            exit |-> ExitOf(d), used |-> Used(d)]}

\* The same, but whatever does not time out ends normally.
Quiet(d) == {[out EXCEPT !.exit = IF @ = "timeout" THEN @ ELSE "normal"] : out \in Det(d)}

\* The same, and the last packet's bit may or may not be covered.
Nondet(d) == Quiet(d) \cup {[out EXCEPT !.bits = Covered(Front(d))] :
                                out \in IF d = <<>> THEN {} ELSE Quiet(d)}

NoFiles == [d \in {"seeds", "imports"} |-> 0]
OneSeed == [NoFiles EXCEPT !["seeds"] = 1]
OneImport == [NoFiles EXCEPT !["imports"] = 1]
=============================================================================
