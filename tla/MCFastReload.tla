---------------------------- MODULE MCFastReload ----------------------------
EXTENDS FastReload

\* Sectors are 0..5 in chunks of two; page p holds the units 2p and 2p + 1.
MCPages   == 0..2
MCSectors == 0..5

ZeroMemory == [p \in MCPages |-> 0]
ZeroDisk   == [s \in MCSectors |-> 0]

Chunk(i) == [off |-> 2 * i, len |-> 2]

Plain == [mode |-> "DEBUG", pages |-> {}, dma |-> {}, io |-> {}, devs |-> {}, blocks |-> {},
          persist |-> {}]

\* Memory written by the guest and by devices, one or two pages at a time.
MemorySetup(mode) ==
    [Plain EXCEPT !.mode = mode, !.pages = {0, 1}, !.persist = {1},
                  !.dma = {[addr |-> 0, len |-> 1], [addr |-> 0, len |-> 4]}]

\* Device writes that the user FDL does not record: one crosses into page 1,
\* the other is to page 2, whose bit may be set from the start.
MissedSetup == [Plain EXCEPT !.mode = "FDL", !.pages = {0},
                             !.dma = {[addr |-> 1, len |-> 2], [addr |-> 4, len |-> 1]}]

\* A disk of three chunks behind layers of two.
DiskSetup == [Plain EXCEPT !.io = {Chunk(0), Chunk(1), Chunk(2), [off |-> 0, len |-> 4]}]

\* Devices beside the disk, and a trace of the guest's path.
DeviceSetup == [Plain EXCEPT !.io = {Chunk(0)}, !.devs = {0, 1}]
TraceSetup  == [Plain EXCEPT !.blocks = {"a", "b"}]

PassSetups == {MemorySetup(m) : m \in Modes} \cup {MissedSetup, DiskSetup, DeviceSetup, TraceSetup}

\* The host either fuzzes with reloads, or (libnyx) turns them off and then
\* uses no temporary snapshots.
PassConfigs == {[reload_mode |-> TRUE, discard |-> FALSE], [reload_mode |-> TRUE, discard |-> TRUE],
                [reload_mode |-> FALSE, discard |-> FALSE]}

PassFolders == {[ram |-> [ZeroMemory EXCEPT ![0] = 1], primary |-> [k \in {2} |-> 1], dev |-> 1,
                 blocklist |-> {1}]}

\* A device write of two units that starts in the middle of page 0.
CrossSetup == {[Plain EXCEPT !.mode = "FDL", !.pages = {0},
                             !.dma = {[addr |-> 1, len |-> 2], [addr |-> 0, len |-> 2]}]}

=============================================================================
