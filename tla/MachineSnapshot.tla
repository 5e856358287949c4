-------------------------- MODULE MachineSnapshot ---------------------------
(***************************************************************************)
(* What the fuzzer relies on when it runs a virtual machine on snapshots.  *)
(* The root snapshot is taken once; a temporary one may be taken behind a  *)
(* prefix of an input and be discarded on request.  Every execution ends   *)
(* with the machine back in the temporary snapshot if there is one, and in *)
(* the root snapshot otherwise - the whole machine, whatever it did.       *)
(*                                                                         *)
(* FastReload (dirty pages, copy-on-write disk, device state) implements   *)
(* this specification, and SnapshotFuzz, which fuzzes on top of it, obeys  *)
(* it too.                                                                 *)
(***************************************************************************)
CONSTANT NoSnapshot

VARIABLES
    machine,   \* the state of the machine
    root,      \* the root snapshot
    tmp,       \* the temporary snapshot
    discard,   \* the next end of an execution discards tmp
    phase      \* "boot", "ready" (just reloaded), "run" or "aborted"

vars == <<machine, root, tmp, discard, phase>>

\* The state an execution starts from.
Snapshot(r, t) == IF t = NoSnapshot THEN r ELSE t

\* A machine boots, or starts from a root snapshot that was taken elsewhere.
Init == /\ \/ root = NoSnapshot /\ phase = "boot"
           \/ root = machine /\ phase \in {"boot", "ready"}
        /\ tmp = NoSnapshot /\ discard = FALSE

Boot == /\ root = NoSnapshot
        /\ phase = "boot" /\ phase' = "boot"
        /\ UNCHANGED <<root, tmp, discard>>

\* The first request for a payload.
SaveRoot == /\ phase = "boot" /\ phase' = "ready"
            /\ root' = IF root = NoSnapshot THEN machine ELSE root
            /\ machine' = root'
            /\ UNCHANGED <<tmp, discard>>

Fuzzing == phase \in {"ready", "run"}

Run == /\ Fuzzing /\ phase' = "run"
       /\ UNCHANGED <<root, tmp, discard>>

\* The host sends a payload, and may ask for the snapshot to be discarded.
Request == /\ Fuzzing /\ phase' \in {phase, "run"}
           /\ discard' \in BOOLEAN
           /\ UNCHANGED <<machine, root, tmp>>

\* The end of an execution that leaves temporary snapshot t.
Reload(t) == /\ Fuzzing /\ phase' = "ready"
             /\ tmp' = t
             /\ machine' = Snapshot(root, t)
             /\ discard' = FALSE
             /\ UNCHANGED root

SaveTmp == tmp = NoSnapshot /\ Reload(IF discard THEN NoSnapshot ELSE machine)

End == Reload(IF discard THEN NoSnapshot ELSE tmp)

\* The end of an execution that is told not to reload.
Continue == /\ Fuzzing /\ tmp = NoSnapshot
            /\ discard' = FALSE
            /\ UNCHANGED <<machine, root, tmp, phase>>

Abort == phase' = "aborted" /\ UNCHANGED <<root, tmp, discard>>

Next == Boot \/ SaveRoot \/ Run \/ Request \/ SaveTmp \/ End \/ Continue \/ Abort

Spec == Init /\ [][Next]_vars

=============================================================================
