----------------------------- MODULE Fingerprints -----------------------------
(***************************************************************************)
(* Fingerprints of chunks: crates/pithos-analysis/src/fingerprint.rs.      *)
(*                                                                         *)
(* A behaviour is one call: compute (bytes in memory), reader (one chunk   *)
(* from a stream, in whatever pieces the reader returns), escalate (keep   *)
(* the full hash of a chunk fingerprinted before) or batch (a pool of      *)
(* workers fills one slot per chunk, in any order).                        *)
(*                                                                         *)
(* Bytes are 0 and 1 and machine words have WordBits bits, so rolling      *)
(* hashes wrap.  The hash functions are external: the full BLAKE3 value    *)
(* stands for the bytes themselves, while XXH3, CRC32C and the first half  *)
(* of BLAKE3 are short enough that different chunks collide.               *)
(***************************************************************************)
EXTENDS Integers, Sequences, FiniteSets, SequencesExt, Outcomes

CONSTANTS
    WordBits, RollingBase,      \* u64 and ROLLING_BASE, an odd number
    BlockBytes,                 \* READ_BUFFER_BYTES
    SubchunkCounts, SuperfeatureCounts, RollingWindows, Parallelisms,
    LargestChunk,               \* the greatest max_chunk_bytes, 4 MiB
    PerChunkBytes, RegionBytes, WorkerBytes, FixedBytes,    \* sizes of structures
    FingerprintCalls            \* the calls that are made

ASSUME FingerprintsAssumption ==
    /\ WordBits \in Nat \ {0} /\ RollingBase \in Nat /\ RollingBase % 2 = 1
    /\ BlockBytes \in Nat \ {0} /\ LargestChunk \in Nat \ {0}
    /\ \A n \in {PerChunkBytes, RegionBytes, WorkerBytes, FixedBytes} : n \in Nat \ {0}
    /\ \A k \in FingerprintCalls :
          k.kind \in {"compute", "reader", "escalate", "batch"} /\ Len(k.inputs) \in Nat

VARIABLES
    job,        \* the call's arguments
    jobPc,      \* where it is
    taken,      \* reader: bytes returned so far
    acc,        \* reader: its accumulator
    ordered,    \* batch: the inputs by chunk id
    running,    \* batch: slots a worker is on
    slots,      \* batch: the results so far
    result      \* the call's result

jobVars == <<job, jobPc, taken, acc, ordered, running, slots, result>>

Pending == Err("pending")

-----------------------------------------------------------------------------
(* Hashes (external)                                                       *)

Ones(data) == Cardinality({i \in DOMAIN data : data[i] = 1})
Xxh3(data) == Ones(data) % 4
Blake3Half(data) == IF data = <<>> THEN 2 ELSE data[1]
Crc32c(data) == Ones(SubSeq(data, 2, Len(data))) % 2

-----------------------------------------------------------------------------
(* Limits                                                                  *)

FpConfigValid(c) ==
    /\ c.sub \in SubchunkCounts /\ c.super \in SuperfeatureCounts
    /\ c.sub % c.super = 0
    /\ c.window \in RollingWindows
    /\ 0 \notin {c.chunk, c.chunks, c.total, c.meta, c.work} /\ c.chunk <= LargestChunk
    /\ c.par \in Parallelisms

WorkerScratch(len, c) == Min({c.sub * c.window, len}) + c.sub * RegionBytes + WorkerBytes

WorkingBytes(count, largest, c) ==
    count * PerChunkBytes + Min({count, c.par}) * WorkerScratch(largest, c) + FixedBytes

\* ensure_batch_memory_limits; one fingerprint's size is the unit of c.meta.
MemoryChecks(count, largest, c) ==
    <<<<count = 0 \/ count <= c.meta, "metadata bytes">>,
      <<count = 0 \/ WorkingBytes(count, largest, c) <= c.work, "working bytes">>>>

ChunkSizeCheck(len, c) == <<len <= c.chunk, "chunk bytes">>

\* ensure_single_request_limits, after the configuration
SingleChecks(len, c) ==
    <<<<FpConfigValid(c), "config">>, ChunkSizeCheck(len, c),
      <<len <= c.total, "total bytes">>>> \o MemoryChecks(1, len, c)

-----------------------------------------------------------------------------
(* RollingRegion: the greatest rolling hash over the windows of a region   *)

Word(n) == n % 2 ^ WordBits

\* Mutant: the power of the oldest byte's position, one too small.
RegionNewShortPower(expected, window) ==
    LET w == Min({expected, window})
    IN  [window |-> w, ring |-> <<>>, cursor |-> 0, hash |-> 0,
         power |-> Word(RollingBase ^ Max({0, w - 1})), maximum |-> 0, seen |-> 0,
         expected |-> expected]

RegionNew(expected, window) ==
    LET w == Min({expected, window})
    IN  [window |-> w, ring |-> <<>>, cursor |-> 0, hash |-> 0,
         power |-> Word(RollingBase ^ w), maximum |-> 0, seen |-> 0, expected |-> expected]

RegionPush(r, byte) ==
    LET value == byte + 1
        grown == Word(r.hash * RollingBase + value)
        rolled == Word(grown - (r.ring[r.cursor + 1] + 1) * r.power)
    IN  IF r.seen >= r.expected \/ r.window = 0 THEN Err("region length")
        ELSE IF Len(r.ring) < r.window
        THEN Ok([r EXCEPT !.ring = Append(@, byte), !.hash = grown, !.seen = @ + 1,
                          !.maximum = IF Len(r.ring) + 1 = r.window THEN grown ELSE @])
        ELSE Ok([r EXCEPT !.ring[r.cursor + 1] = byte, !.cursor = (@ + 1) % r.window,
                          !.hash = rolled, !.seen = @ + 1,
                          !.maximum = Max({@, rolled})])

-----------------------------------------------------------------------------
(* FingerprintAccumulator with its SuperfeatureAccumulator.  The hashers   *)
(* are external: `bytes` is what has been fed to them.                     *)

RegionEnd(total, i, c) == (total * i) \div c.sub

AccNew(total, c) ==
    [total |-> total, position |-> 0, current |-> 1, bytes |-> <<>>,
     ends |-> [i \in 1 .. c.sub |-> RegionEnd(total, i, c)],
     regions |-> [i \in 1 .. c.sub |->
                    RegionNew(RegionEnd(total, i, c) - RegionEnd(total, i - 1, c), c.window)]]

\* The region the next byte belongs to: the exhausted ones are passed over.
CurrentRegion(a) ==
    LET left == {i \in a.current .. Len(a.ends) : a.position < a.ends[i]}
    IN  IF left = {} THEN Len(a.ends) + 1 ELSE Min(left)

AccPush(a, byte) ==
    LET at == CurrentRegion(a)
    IN  IF at > Len(a.regions) THEN Err("superfeature byte count")
        ELSE AndThen(RegionPush(a.regions[at], byte), LAMBDA r :
                Ok([a EXCEPT !.current = at, !.regions[at] = r, !.position = @ + 1,
                             !.bytes = Append(@, byte)]))

AccUpdate(a, bytes) ==
    FoldLeft(LAMBDA r, byte : AndThen(r, LAMBDA x : AccPush(x, byte)), Ok(a), bytes)

\* One superfeature per group of regions: the digest of their maxima, external
\* and taken to be injective.
Superfeatures(a, c) ==
    IF a.total = 0 THEN <<>>
    ELSE [g \in 1 .. c.super |->
            LET start == ((g - 1) * c.sub) \div c.super
                end == (g * c.sub) \div c.super
            IN  [i \in 1 .. end - start |-> a.regions[start + i].maximum]]

NoHash == <<2>>

AccFinish(a, id, c) ==
    Checked(<<<<Len(a.bytes) = a.total, "byte count">>,
              <<a.position = a.total, "superfeature byte count">>>>,
            [id |-> id, len |-> Len(a.bytes), xxh3 |-> Xxh3(a.bytes),
             half |-> Blake3Half(a.bytes), crc |-> Crc32c(a.bytes),
             full |-> IF c.policy = "Paranoid" THEN a.bytes ELSE NoHash,
             features |-> Superfeatures(a, c)])

Blocks(data) ==
    [b \in 1 .. (Len(data) + BlockBytes - 1) \div BlockBytes |->
        SubSeq(data, (b - 1) * BlockBytes + 1, Min({b * BlockBytes, Len(data)}))]

FingerprintBytes(id, data, c) ==
    AndThen(Checked(<<ChunkSizeCheck(Len(data), c)>>, AccNew(Len(data), c)), LAMBDA fresh :
    AndThen(FoldLeft(LAMBDA r, block : AndThen(r, LAMBDA a : AccUpdate(a, block)),
                     Ok(fresh), Blocks(data)), LAMBDA a :
        AccFinish(a, id, c)))

ComputeWithConfig(id, data, c) ==
    AndThen(Checked(SingleChecks(Len(data), c), data), LAMBDA d : FingerprintBytes(id, d, c))

-----------------------------------------------------------------------------
(* Full hashes                                                             *)

EscalateFull(f, data, c) ==
    Checked(<<<<FpConfigValid(c), "config">>, <<Len(data) = f.len, "chunk length">>>>
                \o SingleChecks(Len(data), c) \o
            <<<<Blake3Half(data) = f.half /\ Xxh3(data) = f.xxh3 /\ Crc32c(data) = f.crc,
                "hash mismatch">>>>,
            [f EXCEPT !.full = data])

CompactKey(f) == <<f.xxh3, f.len, f.half>>

\* Mutant: the first chunk of a run of equal keys is not marked.
MarkedAfterFirst(list) ==
    LET candidates == SortBy([i \in 1 .. Len(list) |-> CompactKey(list[i]) \o <<i>>], LexLess)
        Key(k) == SubSeq(candidates[k], 1, 3)
    IN  {candidates[k][4] : k \in {n \in 2 .. Len(candidates) : Key(n) = Key(n - 1)}}

\* Runs of equal keys in the sorted candidates are marked.
MarkedForEscalation(list) ==
    LET candidates == SortBy([i \in 1 .. Len(list) |-> CompactKey(list[i]) \o <<i>>], LexLess)
        Key(k) == SubSeq(candidates[k], 1, 3)
        SameAs(k, n) == n \in DOMAIN candidates /\ Key(n) = Key(k)
    IN  {candidates[k][4] : k \in {n \in DOMAIN candidates : SameAs(n, n - 1) \/ SameAs(n, n + 1)}}

EscalateCollisions(list, inputs, c) ==
    FoldLeftDomain(LAMBDA r, i : AndThen(r, LAMBDA done :
            IF i \in MarkedForEscalation(list)
            THEN AndThen(EscalateFull(list[i], inputs[i].data, c), LAMBDA f :
                    Ok([done EXCEPT ![i] = f]))
            ELSE Ok(done)),
        Ok(list), list)

-----------------------------------------------------------------------------
(* Calls                                                                   *)

Answer(r) == jobPc' = "done" /\ result' = r

Compute ==
    LET in == job.inputs[1]
    IN  /\ jobPc = "called" /\ job.kind = "compute"
        /\ Answer(ComputeWithConfig(in.id, in.data, job.cfg))
        /\ UNCHANGED <<job, taken, acc, ordered, running, slots>>

\* The chunk was fingerprinted before, under the same configuration; the bytes
\* offered now are job.again.
Escalate ==
    LET in == job.inputs[1]
    IN  /\ jobPc = "called" /\ job.kind = "escalate"
        /\ Answer(AndThen(ComputeWithConfig(in.id, in.data, job.cfg), LAMBDA f :
                    EscalateFull(f, job.again, job.cfg)))
        /\ UNCHANGED <<job, taken, acc, ordered, running, slots>>

OpenReader ==
    LET in == job.inputs[1]
        opened == Checked(SingleChecks(in.len, job.cfg), <<>>)
    IN  /\ jobPc = "called" /\ job.kind = "reader"
        /\ IF opened.ok
           THEN /\ jobPc' = "reading" /\ acc' = AccNew(in.len, job.cfg)
                /\ UNCHANGED result
           ELSE Answer(opened) /\ UNCHANGED acc
        /\ UNCHANGED <<job, taken, ordered, running, slots>>

\* An interrupted read is repeated and changes nothing.
ReadBlock ==
    LET in == job.inputs[1]
        most == Min({in.len - taken, BlockBytes, Len(in.data) - taken})
    IN  /\ jobPc = "reading" /\ taken < in.len
        /\ \/ /\ most = 0
              /\ Answer(Err("short stream"))
              /\ UNCHANGED <<taken, acc>>
           \/ \E n \in 1 .. most :
                LET fed == AccUpdate(acc, SubSeq(in.data, taken + 1, taken + n))
                IN  /\ taken' = taken + n
                    /\ acc' = IF fed.ok THEN fed.val ELSE acc
                    /\ IF fed.ok THEN UNCHANGED <<jobPc, result>> ELSE Answer(fed)
        /\ UNCHANGED <<job, ordered, running, slots>>

ReadPastEnd ==
    LET in == job.inputs[1]
    IN  /\ jobPc = "reading" /\ taken = in.len
        /\ Answer(IF Len(in.data) > taken THEN Err("trailing data")
                  ELSE AccFinish(acc, in.id, job.cfg))
        /\ UNCHANGED <<job, taken, acc, ordered, running, slots>>

ReaderFails ==
    /\ jobPc = "reading"
    /\ Answer(Err("io"))
    /\ UNCHANGED <<job, taken, acc, ordered, running, slots>>

BatchChecks(inputs, c) ==
    LET total == FoldLeft(LAMBDA sums, in : Append(sums, sums[Len(sums)] + Len(in.data)),
                          <<0>>, inputs)
        OfInput(i) == <<<<Len(inputs[i].data) = inputs[i].len, "chunk length">>,
                        ChunkSizeCheck(inputs[i].len, c),
                        <<total[i + 1] <= c.total, "total bytes">>>>
        largest == Max({0} \cup {Len(in.data) : in \in ToSet(inputs)})
    IN  <<<<FpConfigValid(c), "config">>, <<Len(inputs) <= c.chunks, "chunk count">>>>
            \o FlattenSeq([i \in 1 .. Len(inputs) |-> OfInput(i)])
            \o MemoryChecks(Len(inputs), largest, c)

ById(inputs) == SortBy(inputs, LAMBDA a, b : a.id < b.id)

BeginBatch ==
    LET sorted == ById(job.inputs)
        admitted == Checked(BatchChecks(job.inputs, job.cfg) \o
                        <<<<\A i \in 1 .. Len(sorted) - 1 : sorted[i].id # sorted[i + 1].id,
                            "duplicate chunk id">>>>, sorted)
    IN  /\ jobPc = "called" /\ job.kind = "batch"
        /\ \/ /\ admitted.ok /\ sorted # <<>>
              /\ jobPc' = "workers" /\ ordered' = sorted
              /\ slots' = [i \in 1 .. Len(sorted) |-> Pending]
              /\ UNCHANGED result
           \/ /\ ~(admitted.ok /\ sorted # <<>>)
              /\ Answer(admitted)
              /\ UNCHANGED <<ordered, slots>>
        /\ UNCHANGED <<job, taken, acc, running>>

Workers == Min({job.cfg.par, Len(ordered)})

WorkerTakes(i) ==
    /\ jobPc = "workers" /\ slots[i] = Pending /\ i \notin running
    /\ Cardinality(running) < Workers
    /\ running' = running \cup {i}
    /\ UNCHANGED <<job, jobPc, taken, acc, ordered, slots, result>>

\* A checkpoint that refuses a worker leaves its error in the slot; the others
\* go on.
WorkerSets(i) ==
    /\ jobPc = "workers" /\ i \in running
    /\ \E r \in {FingerprintBytes(ordered[i].id, ordered[i].data, job.cfg), Err("cancelled")} :
          slots' = [slots EXCEPT ![i] = r]
    /\ running' = running \ {i}
    /\ UNCHANGED <<job, jobPc, taken, acc, ordered, result>>

Collected == FoldLeft(LAMBDA r, s : AndThen(r, LAMBDA done :
                            AndThen(s, LAMBDA f : Ok(Append(done, f)))), Ok(<<>>), slots)

CollectBatch ==
    /\ jobPc = "workers" /\ \A i \in DOMAIN slots : slots[i] # Pending
    /\ Answer(AndThen(Collected, LAMBDA list :
                IF job.cfg.policy = "Standard"
                THEN EscalateCollisions(list, ordered, job.cfg) ELSE Ok(list)))
    /\ UNCHANGED <<job, taken, acc, ordered, running, slots>>

\* The checkpoint refuses outside the workers.
CheckpointRefuses ==
    /\ \/ jobPc \in {"called", "reading"}
       \/ jobPc = "workers" /\ \A i \in DOMAIN slots : slots[i] # Pending
    /\ Answer(Err("cancelled"))
    /\ UNCHANGED <<job, taken, acc, ordered, running, slots>>

-----------------------------------------------------------------------------
FpInitWith(k) ==
    /\ job = k
    /\ jobPc = StartOf(k)
    /\ taken = 0 /\ acc = <<>> /\ ordered = <<>> /\ running = {} /\ slots = <<>>
    /\ result = Pending

FpNext ==
    \/ Compute \/ Escalate
    \/ OpenReader \/ ReadBlock \/ ReadPastEnd \/ ReaderFails
    \/ BeginBatch \/ (\E i \in DOMAIN slots : WorkerTakes(i) \/ WorkerSets(i)) \/ CollectBatch
    \/ CheckpointRefuses

-----------------------------------------------------------------------------
(* Properties                                                              *)

\* The polynomial hash of one window, and the superfeatures by definition: for
\* every region the greatest hash of its full windows.
WindowHash(bytes) ==
    Word(FoldLeftDomain(LAMBDA sum, i :
            sum + (bytes[i] + 1) * RollingBase ^ (Len(bytes) - i), 0, bytes))

ReferenceMaximum(data, i, c) ==
    LET from == RegionEnd(Len(data), i - 1, c)
        to == RegionEnd(Len(data), i, c)
        w == Min({to - from, c.window})
    IN  IF w = 0 THEN 0
        ELSE Max({WindowHash(SubSeq(data, s + 1, s + w)) : s \in from .. to - w})

ReferenceFeatures(data, c) ==
    IF data = <<>> THEN <<>>
    ELSE LET per == c.sub \div c.super
         IN  [g \in 1 .. c.super |->
                [i \in 1 .. per |-> ReferenceMaximum(data, (g - 1) * per + i, c)]]

Describes(f, in) ==
    /\ f.id = in.id /\ f.len = Len(in.data)
    /\ f.xxh3 = Xxh3(in.data) /\ f.half = Blake3Half(in.data) /\ f.crc = Crc32c(in.data)
    /\ f.features = ReferenceFeatures(in.data, job.cfg)
    /\ f.full \in {NoHash, in.data}

\* A fingerprint describes exactly the bytes of its chunk: the superfeatures
\* rolled through the ring buffers equal the ones defined window by window,
\* however the reader split the bytes; a stream of another length is refused;
\* a full hash is kept only for bytes whose compact identity agrees.
FingerprintIsReference ==
    jobPc = "done" /\ job.kind # "batch" =>
        LET in == job.inputs[1]
        IN  /\ result.ok =>
                  IF job.kind = "escalate"
                  THEN /\ result.val.full = job.again /\ Len(job.again) = Len(in.data)
                       /\ Blake3Half(job.again) = Blake3Half(in.data)
                       /\ Xxh3(job.again) = Xxh3(in.data)
                  ELSE /\ Len(in.data) = in.len /\ Describes(result.val, in)
                       /\ (result.val.full = in.data) = (job.cfg.policy = "Paranoid")
            /\ ~result.ok /\ result.val \notin {"io", "cancelled"} =>
                  \/ Len(in.data) # in.len
                  \/ job.kind = "escalate" /\ job.again # in.data
                  \/ ~Checked(SingleChecks(in.len, job.cfg), <<>>).ok

\* A batch answers one fingerprint per input in the order of the ids, whatever
\* order the workers ran in, and keeps the full hash of exactly the chunks whose
\* compact identity another chunk shares; if a worker was refused the batch has
\* no result.
CollisionsKeepFullHash ==
    jobPc = "done" /\ job.kind = "batch" /\ result.ok =>
        LET list == result.val
            Twin(f) == {g \in ToSet(list) : g # f /\ CompactKey(g) = CompactKey(f)}
        IN  /\ Len(list) = Len(job.inputs)
            /\ \A i \in 1 .. Len(list) - 1 : list[i].id < list[i + 1].id
            /\ \A f \in ToSet(list) : \E in \in ToSet(job.inputs) :
                  /\ Describes(f, in)
                  /\ (f.full = in.data) = (job.cfg.policy = "Paranoid" \/ Twin(f) # {})
            /\ \A i \in DOMAIN slots : slots[i].ok

=============================================================================
