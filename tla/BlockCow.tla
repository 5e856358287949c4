------------------------------ MODULE BlockCow ------------------------------
(***************************************************************************)
(* The copy-on-write cache in front of a disk image, which is never        *)
(* written.  Until the root snapshot, writes go to the primary layer;      *)
(* after it to the secondary layer, and while there is a temporary         *)
(* snapshot to a third one.  Going back to a snapshot empties the last     *)
(* layer.  A layer is a table from the offset of a chunk to its data.      *)
(*                                                                         *)
(* The two hash tables and buffers of a layer are one partial function;    *)
(* a request writes one value to all its sectors.                          *)
(***************************************************************************)
EXTENDS Integers, FiniteSets

CONSTANTS
    Sectors,        \* 0 .. n
    DiskValues,     \* contents of a sector
    ChunkSectors,   \* CHUNK_SIZE
    CowSize,        \* chunks in COW_CACHE_SECONDARY_SIZE
    PrimarySize     \* chunks in cow_primary_size

ASSUME BlockCowAssumption ==
    /\ Sectors \subseteq Nat
    /\ ChunkSectors \in Nat \ {0}
    /\ CowSize \in Nat
    /\ PrimarySize \in Nat

Layers == UNION {[D -> DiskValues] : D \in SUBSET Sectors}

CowCache == [base : [Sectors -> DiskValues], primary : Layers, secondary : Layers,
             secondary_tmp : Layers, enabled_fuzz : BOOLEAN, enabled_fuzz_tmp : BOOLEAN]

NoChunks == <<>>

cow_cache_new(image) ==
    [base |-> image, primary |-> NoChunks, secondary |-> NoChunks,
     secondary_tmp |-> NoChunks, enabled_fuzz |-> FALSE, enabled_fuzz_tmp |-> FALSE]

----------------------------------------------------------------------------

RequestSectors(r) == r.off .. r.off + r.len - 1

Whole(r) == r.len % ChunkSectors = 0

\* The offset of the chunk in which request r has sector s.
ChunkOf(r, s) == s - ((s - r.off) % ChunkSectors)

ChunkOffsets(r) == {ChunkOf(r, s) : s \in RequestSectors(r)}

\* The layers in which a chunk is looked up, the last one first.
read_from_buffers(d, k, old) ==
    IF d.enabled_fuzz /\ d.enabled_fuzz_tmp /\ k \in DOMAIN d.secondary_tmp
    THEN d.secondary_tmp[k]
    ELSE IF d.enabled_fuzz /\ k \in DOMAIN d.secondary THEN d.secondary[k]
    ELSE IF k \in DOMAIN d.primary THEN d.primary[k]
    ELSE old

\* A request that is not made of whole chunks is answered from the image.
cow_cache_read(d, r) ==
    [s \in RequestSectors(r) |->
        IF Whole(r) THEN read_from_buffers(d, ChunkOf(r, s), d.base[s]) ELSE d.base[s]]

\* The chunks of r, written to a layer.
Written(layer, r, v) ==
    [k \in ChunkOffsets(r) \cup DOMAIN layer |-> IF k \in ChunkOffsets(r) THEN v ELSE layer[k]]

\* Chunks in use before chunk k of r is written.
UsedBefore(layer, r, k) ==
    Cardinality(DOMAIN layer \cup {j \in ChunkOffsets(r) : j < k})

\* abort(): the buffer of a secondary layer is full, even for a chunk it has.
SecondaryFull(layer, r) ==
    \E k \in ChunkOffsets(r) : UsedBefore(layer, r, k) >= CowSize

\* The assertion behind the allocation of a chunk in the primary buffer.
PrimaryFull(layer, r) ==
    \E k \in ChunkOffsets(r) \ DOMAIN layer : UsedBefore(layer, r, k) + 1 >= PrimarySize

cow_cache_aborts(d, r) ==
    Whole(r) /\ IF ~ d.enabled_fuzz THEN PrimaryFull(d.primary, r)
                ELSE SecondaryFull(IF d.enabled_fuzz_tmp THEN d.secondary_tmp ELSE d.secondary, r)

\* A request that is not made of whole chunks is dropped.
cow_cache_write(d, r, v) ==
    IF ~ Whole(r) THEN d
    ELSE IF ~ d.enabled_fuzz THEN [d EXCEPT !.primary = Written(@, r, v)]
    ELSE IF d.enabled_fuzz_tmp THEN [d EXCEPT !.secondary_tmp = Written(@, r, v)]
    ELSE [d EXCEPT !.secondary = Written(@, r, v)]

\* A disk with the chunks of a layer, and no cache.
DiskContents(image, layer) ==
    [s \in Sectors |-> IF \E k \in DOMAIN layer : s \in k .. k + ChunkSectors - 1
                       THEN layer[CHOOSE k \in DOMAIN layer : s \in k .. k + ChunkSectors - 1]
                       ELSE image[s]]

----------------------------------------------------------------------------

switch_to_fuzz_mode(d) == [d EXCEPT !.enabled_fuzz = TRUE]

\* read_primary_buffer with switch_mode set.
read_primary_buffer(d, layer) == switch_to_fuzz_mode([d EXCEPT !.primary = layer])

\* Mutant: the layer of the temporary snapshot survives a reset.
ResetSecondaryOnly(d) ==
    IF d.enabled_fuzz /\ ~ d.enabled_fuzz_tmp THEN [d EXCEPT !.secondary = NoChunks] ELSE d

cow_cache_reset(d) ==
    IF ~ d.enabled_fuzz THEN d
    ELSE IF d.enabled_fuzz_tmp THEN [d EXCEPT !.secondary_tmp = NoChunks]
    ELSE [d EXCEPT !.secondary = NoChunks]

cow_cache_enable_tmp_mode(d) == [d EXCEPT !.enabled_fuzz_tmp = TRUE]

cow_cache_disable_tmp_mode(d) == [cow_cache_reset(d) EXCEPT !.enabled_fuzz_tmp = FALSE]

=============================================================================
