--------------------------- MODULE LogicalChunking ---------------------------
(***************************************************************************)
(* Logical chunking: crates/pithos-analysis/src/chunking.rs.               *)
(*                                                                         *)
(* A behaviour is one call of the crate: in memory (FastCDC, fixed blocks, *)
(* structural regions) or over a reader (FastCDC, structural), followed by *)
(* the assignment of chunk ids to the drafts, which arrive in any order.   *)
(* The in-memory calls are operators.  A call over a reader takes one step *)
(* per read: the reader returns any part of what was asked for, it may     *)
(* fail, and the checkpoint may refuse.                                    *)
(*                                                                         *)
(* A byte is 0 or 1, and FastCDC (external) cuts after a 1, or at its      *)
(* maximum: content decides, from the start of the object on.  Sizes are   *)
(* scaled down: the ranges ChunkingConfig::validate allows are constants.  *)
(* Conversions between integer types that cannot fail at these sizes and   *)
(* reservations of memory are left out.                                    *)
(***************************************************************************)
EXTENDS Integers, Sequences, FiniteSets, SequencesExt, Outcomes

CONSTANTS
    MinimumSizes, AverageSizes, MaximumSizes,   \* what FastCDC accepts
    FixedSizes, MicroFileSizes, PackTargets,    \* what the format accepts
    OffsetMax,      \* the greatest logical offset, u64::MAX
    ReadBuffer,     \* the scratch buffer of consume_exact_region
    ChunkCalls      \* the calls that are made

Kinds == {"fastcdc", "fixed", "structural", "fastcdc_reader", "structural_reader"}
Methods == {"FastCdc", "Fixed", "Structural", "MicroFile"}
Drafts == [entry : Nat, object : Nat, offset : Nat, len : Nat, method : Methods]

\* Sizes and offsets are unsigned; the drafts of other objects are drafts that the
\* crate's calls return.
ASSUME LogicalChunkingAssumption ==
    /\ OffsetMax \in Nat
    /\ ReadBuffer \in Nat \ {0}
    /\ FixedSizes \subseteq Nat \ {0}
    /\ \A k \in ChunkCalls :
          /\ {"kind", "data", "ends", "origin", "cfg", "others"} \subseteq DOMAIN k
          /\ k.kind \in Kinds
          /\ k.others \in Seq(Drafts)
          /\ \A i \in 1 .. Len(k.others) :
                /\ k.others[i].len # 0 \/ k.others[i].method = "MicroFile"
                /\ k.others[i].offset + k.others[i].len <= OffsetMax
          /\ k.data \in Seq(Nat) /\ k.ends \in Seq(Nat)
          /\ k.origin \in [entry : Nat, object : Nat, base : Nat]
          /\ k.cfg \in [min : Nat, avg : Nat, max : Nat, fixed : Nat, micro : Nat,
                        target : Nat, chunks : Nat, bytes : Nat, meta : Nat, path : Nat]

VARIABLES
    call,       \* the call's arguments
    chunkPc,    \* where it is
    pos,        \* bytes the reader has returned
    cdc,        \* the FastCDC call in progress
    region,     \* structural regions completed
    need,       \* bytes of the region consume_exact_region still wants
    chunks,     \* descriptors so far
    outcome,    \* the call's result
    ids         \* the result of assign_chunk_ids

chunkVars == <<call, chunkPc, pos, cdc, region, need, chunks, outcome, ids>>

Readers == {"fastcdc_reader", "structural_reader"}
NoResult == Err("none")
Marker == 1
Unlimited == OffsetMax + 1

-----------------------------------------------------------------------------
(* Configuration and descriptors                                           *)

ConfigValid(c) ==
    /\ c.min \in MinimumSizes /\ c.avg \in AverageSizes /\ c.max \in MaximumSizes
    /\ c.min < c.avg /\ c.avg < c.max
    /\ c.fixed \in FixedSizes
    /\ c.micro \in MicroFileSizes
    /\ c.target \in PackTargets /\ c.target >= c.micro
    /\ 0 \notin {c.chunks, c.bytes, c.meta, c.path}

Draft(origin, rel, len, method) ==
    [entry |-> origin.entry, object |-> origin.object,
     offset |-> origin.base + rel, len |-> len, method |-> method]

\* ensure_chunk_count and ensure_logical_size
CountCheck(count, limit) == <<count <= limit, "chunk count">>
SizeCheck(size, c) == <<size <= c.bytes, "logical bytes">>
OffsetCheck(offset) == <<offset <= OffsetMax, "overflow">>

\* What every call checks first.
EntryChecks(size, origin, c) ==
    <<<<ConfigValid(c), "config">>, SizeCheck(size, c), OffsetCheck(origin.base + size)>>

PushRelativeChunk(list, origin, rel, len, method, limit) ==
    Checked(<<CountCheck(Len(list) + 1, limit),
              <<len # 0, "zero-length chunk">>,
              OffsetCheck(origin.base + rel + len)>>,
            Append(list, Draft(origin, rel, len, method)))

\* The loops that push one chunk after the other.
PushAll(lengths, origin, method, limit) ==
    FoldLeft(LAMBDA acc, len :
                [rel |-> acc.rel + len,
                 out |-> AndThen(acc.out, LAMBDA list :
                            PushRelativeChunk(list, origin, acc.rel, len, method, limit))],
             [rel |-> 0, out |-> Ok(<<>>)], lengths).out

CoverageValid(list, origin, size) ==
    LET cursor[i \in 0 .. Len(list)] ==
            IF i = 0 THEN origin.base ELSE cursor[i - 1] + list[i].len
    IN  IF size = 0
        THEN list \in {<<>>, <<Draft(origin, 0, 0, "MicroFile")>>}
        ELSE /\ \A i \in 1 .. Len(list) :
                    /\ list[i].entry = origin.entry /\ list[i].object = origin.object
                    /\ list[i].offset = cursor[i - 1] /\ list[i].len # 0
             /\ cursor[Len(list)] = origin.base + size

ValidateChunkCoverage(list, origin, size) ==
    Checked(<<OffsetCheck(origin.base + size),
              <<CoverageValid(list, origin, size), "chunk coverage">>>>, list)

-----------------------------------------------------------------------------
(* In-memory calls                                                         *)

\* The length of FastCDC's next chunk of data, from an offset on.
Cut(data, from, c) ==
    LET rest == Len(data) - from
        end == Min({rest, c.max})
        marks == {k \in c.min + 1 .. end : data[from + k] = Marker}
    IN  IF rest <= c.min THEN rest ELSE IF marks = {} THEN end ELSE Min(marks)

CdcLengths(data, c) ==
    LET from[o \in 0 .. Len(data)] ==
            IF o = Len(data) THEN <<>> ELSE <<Cut(data, o, c)>> \o from[o + Cut(data, o, c)]
    IN  from[0]

ChunkFastCdc(data, origin, c) ==
    AndThen(Checked(EntryChecks(Len(data), origin, c), CdcLengths(data, c)), LAMBDA lengths :
    AndThen(PushAll(lengths, origin, "FastCdc", c.chunks), LAMBDA list :
        ValidateChunkCoverage(list, origin, Len(data))))

FixedCount(size, c) == (size - 1) \div c.fixed + 1

FixedLengths(size, c) ==
    [i \in 1 .. FixedCount(size, c) |-> Min({size - (i - 1) * c.fixed, c.fixed})]

ChunkFixedHighEntropy(size, origin, c) ==
    AndThen(Checked(EntryChecks(size, origin, c), size), LAMBDA n :
        IF n = 0 THEN Ok(<<>>)
        ELSE AndThen(Checked(<<CountCheck(FixedCount(n, c), c.chunks)>>, FixedLengths(n, c)),
             LAMBDA lengths :
             AndThen(PushAll(lengths, origin, "Fixed", c.chunks), LAMBDA list :
                ValidateChunkCoverage(list, origin, n))))

BoundaryEndsValid(ends, size) ==
    /\ ends # <<>> /\ ends[Len(ends)] = size
    /\ \A i \in 1 .. Len(ends) :
          ends[i] > (IF i = 1 THEN 0 ELSE ends[i - 1]) /\ ends[i] <= size

RegionStart(ends, i) == IF i = 1 THEN 0 ELSE ends[i - 1]

\* Mutant: a region may use the whole limit on chunks again.
SubConfigWhole(c, used, len) == [c EXCEPT !.bytes = len]

\* A region above FastCDC's maximum is a call of its own, with what is left of
\* the limit on chunks.
SubOrigin(origin, start) == [origin EXCEPT !.base = @ + start]
SubConfig(c, used, len) == [c EXCEPT !.chunks = @ - used, !.bytes = len]
Structural(list) == [i \in 1 .. Len(list) |-> [list[i] EXCEPT !.method = "Structural"]]

WholeRegion(len, c) == len <= c.max

StructuralRegion(list, data, start, end, origin, c) ==
    IF WholeRegion(end - start, c)
    THEN PushRelativeChunk(list, origin, start, end - start, "Structural", c.chunks)
    ELSE AndThen(Checked(<<CountCheck(Len(list) + 1, c.chunks)>>, start), LAMBDA s :
         AndThen(ChunkFastCdc(SubSeq(data, s + 1, end), SubOrigin(origin, s),
                              SubConfig(c, Len(list), end - s)), LAMBDA sub :
            Ok(list \o Structural(sub))))

ChunkStructural(data, ends, origin, c) ==
    AndThen(Checked(EntryChecks(Len(data), origin, c), data), LAMBDA d :
        IF d = <<>>
        THEN Checked(<<<<ends = <<>>, "structural boundaries">>>>, <<>>)
        ELSE AndThen(Checked(<<CountCheck(Len(ends), c.chunks),
                               <<BoundaryEndsValid(ends, Len(d)), "structural boundaries">>>>,
                             <<>>), LAMBDA none :
             AndThen(FoldLeftDomain(LAMBDA acc, i : AndThen(acc, LAMBDA list :
                        StructuralRegion(list, d, RegionStart(ends, i), ends[i], origin, c)),
                        Ok(none), ends), LAMBDA list :
                ValidateChunkCoverage(list, origin, Len(d)))))

InMemory(k) ==
    CASE k.kind \in {"fastcdc", "fastcdc_reader"} -> ChunkFastCdc(k.data, k.origin, k.cfg)
      [] k.kind = "fixed" -> ChunkFixedHighEntropy(Len(k.data), k.origin, k.cfg)
      [] OTHER -> ChunkStructural(k.data, k.ends, k.origin, k.cfg)
-----------------------------------------------------------------------------
(* Calls over a reader                                                     *)

Return(r) == chunkPc' = "returned" /\ outcome' = r

\* Mutant: no byte more than the limit.
ReaderBoundAtLimit(c) == c.bytes

\* BoundedCheckpointReader lets one byte more than the limit through, so that a
\* stream that is too long is noticed and not cut off.
ReaderBound(c) == c.bytes + 1

OpenCdc(origin, c, take) ==
    [origin |-> origin, cfg |-> c, take |-> take, left |-> ReaderBound(c),
     buf |-> 0, eof |-> FALSE, size |-> 0, chunks |-> <<>>]
NoCdc == [take |-> 0]

\* What read may return when at most `want` bytes are asked for; 0 is the end.
Returned(want) ==
    LET most == Min({want, Len(call.data) - pos})
    IN  IF most = 0 THEN {0} ELSE 1 .. most

LastEnd(ends) == IF ends = <<>> THEN 0 ELSE ends[Len(ends)]

BeginMemory ==
    /\ chunkPc = "called" /\ call.kind \notin Readers
    /\ Return(InMemory(call))
    /\ UNCHANGED <<call, pos, cdc, region, need, chunks, ids>>

BeginFastCdcReader ==
    /\ chunkPc = "called" /\ call.kind = "fastcdc_reader"
    /\ IF ConfigValid(call.cfg)
       THEN /\ chunkPc' = "fill"
            /\ cdc' = OpenCdc(call.origin, call.cfg, Unlimited)
            /\ UNCHANGED outcome
       ELSE Return(Err("config")) /\ UNCHANGED cdc
    /\ UNCHANGED <<call, pos, region, need, chunks, ids>>

BeginStructuralReader ==
    LET size == LastEnd(call.ends)
        checks == EntryChecks(size, call.origin, call.cfg) \o
                    IF size = 0
                    THEN <<<<call.ends = <<>>, "structural boundaries">>>>
                    ELSE <<CountCheck(Len(call.ends), call.cfg.chunks),
                           <<BoundaryEndsValid(call.ends, size), "structural boundaries">>>>
        admitted == Checked(checks, <<>>)
    IN  /\ chunkPc = "called" /\ call.kind = "structural_reader"
        /\ IF admitted.ok THEN chunkPc' = "region" /\ UNCHANGED outcome ELSE Return(admitted)
        /\ UNCHANGED <<call, pos, cdc, region, need, chunks, ids>>

\* StreamCDC fills its buffer, of the size of the greatest chunk, through
\* BoundedCheckpointReader and, for a region, Take.
Filling == chunkPc = "fill" /\ ~cdc.eof /\ cdc.buf < cdc.cfg.max

FillBuffer ==
    /\ Filling
    /\ \E n \in Returned(Min({cdc.left, cdc.cfg.max - cdc.buf, cdc.take})) :
          /\ pos' = pos + n
          /\ cdc' = [cdc EXCEPT !.buf = @ + n, !.left = @ - n, !.take = @ - n, !.eof = (n = 0)]
    /\ UNCHANGED <<call, chunkPc, region, need, chunks, outcome, ids>>

\* The buffer is full or holds the end: the next chunk is cut off it.
NextChunk ==
    LET len == Cut(SubSeq(call.data, pos - cdc.buf + 1, pos), 0, cdc.cfg)
        pushed == AndThen(Checked(<<SizeCheck(cdc.size + len, cdc.cfg)>>, len), LAMBDA n :
                    PushRelativeChunk(cdc.chunks, cdc.origin, cdc.size, n, "FastCdc",
                                      cdc.cfg.chunks))
    IN  /\ chunkPc = "fill" /\ ~Filling /\ cdc.buf > 0
        /\ IF pushed.ok
           THEN /\ cdc' = [cdc EXCEPT !.buf = @ - len, !.size = @ + len, !.chunks = pushed.val]
                /\ UNCHANGED <<chunkPc, outcome>>
           ELSE Return(pushed) /\ UNCHANGED cdc
        /\ UNCHANGED <<call, pos, region, need, chunks, ids>>

\* The reader's own call ends.  For a region, the caller goes on: what Take has
\* left over is a short stream.
EndCdc ==
    LET whole == ValidateChunkCoverage(cdc.chunks, cdc.origin, cdc.size)
        wanted == call.ends[region + 1] - RegionStart(call.ends, region + 1)
        ofRegion == AndThen(whole, LAMBDA sub :
                    AndThen(Checked(<<<<cdc.take = 0, "short structural stream">>>>, sub),
                        LAMBDA list : ValidateChunkCoverage(list, cdc.origin, wanted)))
    IN  /\ chunkPc = "fill" /\ cdc.eof /\ cdc.buf = 0
        /\ IF call.kind = "fastcdc_reader"
           THEN Return(whole) /\ UNCHANGED <<chunks, region>>
           ELSE IF ofRegion.ok
           THEN /\ chunks' = chunks \o Structural(ofRegion.val)
                /\ region' = region + 1
                /\ chunkPc' = "region"
                /\ UNCHANGED outcome
           ELSE Return(ofRegion) /\ UNCHANGED <<chunks, region>>
        /\ cdc' = NoCdc
        /\ UNCHANGED <<call, pos, need, ids>>

BeginRegion ==
    LET start == RegionStart(call.ends, region + 1)
        len == call.ends[region + 1] - start
    IN  /\ chunkPc = "region" /\ region < Len(call.ends)
        /\ \/ /\ WholeRegion(len, call.cfg)
              /\ chunkPc' = "consume" /\ need' = len
              /\ UNCHANGED <<cdc, outcome>>
           \/ /\ ~WholeRegion(len, call.cfg) /\ Len(chunks) < call.cfg.chunks
              /\ chunkPc' = "fill"
              /\ cdc' = OpenCdc(SubOrigin(call.origin, start),
                                SubConfig(call.cfg, Len(chunks), len), len)
              /\ UNCHANGED <<need, outcome>>
           \/ /\ ~WholeRegion(len, call.cfg) /\ Len(chunks) >= call.cfg.chunks
              /\ Return(Err("chunk count"))
              /\ UNCHANGED <<cdc, need>>
        /\ UNCHANGED <<call, pos, region, chunks, ids>>

\* consume_exact_region reads on after an interrupted read, which changes nothing.
ConsumeExactRegion ==
    LET start == RegionStart(call.ends, region + 1)
        pushed == PushRelativeChunk(chunks, call.origin, start, call.ends[region + 1] - start,
                                    "Structural", call.cfg.chunks)
    IN  /\ chunkPc = "consume"
        /\ \E n \in Returned(Min({need, ReadBuffer})) :
              /\ pos' = pos + n /\ need' = need - n
              /\ \/ /\ n = 0
                    /\ Return(Err("short structural stream"))
                    /\ UNCHANGED <<chunks, region>>
                 \/ /\ n > 0 /\ n < need
                    /\ UNCHANGED <<chunkPc, outcome, chunks, region>>
                 \/ /\ n > 0 /\ n = need /\ pushed.ok
                    /\ chunks' = pushed.val /\ region' = region + 1
                    /\ chunkPc' = "region"
                    /\ UNCHANGED outcome
                 \/ /\ n > 0 /\ n = need /\ ~pushed.ok
                    /\ Return(pushed)
                    /\ UNCHANGED <<chunks, region>>
        /\ UNCHANGED <<call, cdc, ids>>

ReadTrailing ==
    /\ chunkPc = "region" /\ region = Len(call.ends)
    /\ \E n \in Returned(1) :
          /\ pos' = pos + n
          /\ Return(IF n # 0 THEN Err("trailing structural data")
                    ELSE ValidateChunkCoverage(chunks, call.origin, LastEnd(call.ends)))
    /\ UNCHANGED <<call, cdc, region, need, chunks, ids>>

\* A read fails.  StreamCDC and the trailing read also give up on an
\* interrupted one.
ReadFails ==
    /\ \/ Filling /\ Min({cdc.left, cdc.take}) > 0
       \/ chunkPc = "consume"
       \/ chunkPc = "region" /\ region = Len(call.ends)
    /\ Return(Err("io"))
    /\ UNCHANGED <<call, pos, cdc, region, need, chunks, ids>>

\* The caller's checkpoint refuses, in any of the loops.
CheckpointFails ==
    /\ chunkPc \in {"called", "fill", "region", "consume"}
    /\ Return(Err("cancelled"))
    /\ UNCHANGED <<call, pos, cdc, region, need, chunks, ids>>

-----------------------------------------------------------------------------
(* Chunk ids                                                               *)

DraftKey(d) == <<d.entry, d.object, d.offset>>
DraftLess(a, b) == LexLess(DraftKey(a), DraftKey(b))

\* Mutant: the order of delivery.
CanonicalDraftsAsDelivered(list) == list

CanonicalDrafts(list) == SortBy(list, DraftLess)

AssignChunkIds(drafts, limit) ==
    LET sorted == CanonicalDrafts(drafts)
        checks == <<<<limit # 0, "chunk count limit">>,
                    CountCheck(Len(drafts), limit),
                    <<\A i \in 1 .. Len(sorted) - 1 :
                         DraftKey(sorted[i]) # DraftKey(sorted[i + 1]), "duplicate chunk position">>,
                    <<\A i \in 1 .. Len(sorted) :
                         sorted[i].len # 0 \/ sorted[i].method = "MicroFile", "zero-length chunk">>,
                    <<\A i \in 1 .. Len(sorted) :
                         sorted[i].offset + sorted[i].len <= OffsetMax, "overflow">>>>
    IN  Checked(checks, [i \in 1 .. Len(sorted) |-> [id |-> i - 1, draft |-> sorted[i]]])

Permuted(s, p) == [i \in 1 .. Len(s) |-> s[p[i]]]
Orders(n) == {p \in [1 .. n -> 1 .. n] : \A i, j \in 1 .. n : i # j => p[i] # p[j]}

\* The drafts of this object and of others, in the order the workers deliver.
AllDrafts == outcome.val \o call.others

AssignIds ==
    /\ chunkPc = "returned" /\ outcome.ok
    /\ \E p \in Orders(Len(AllDrafts)) :
          ids' = AssignChunkIds(Permuted(AllDrafts, p), call.cfg.chunks)
    /\ chunkPc' = "assigned"
    /\ UNCHANGED <<call, pos, cdc, region, need, chunks, outcome>>

-----------------------------------------------------------------------------
ChunkInitWith(k) ==
    /\ call = k
    /\ chunkPc = StartOf(k)
    /\ pos = 0 /\ region = 0 /\ need = 0
    /\ cdc = NoCdc
    /\ chunks = <<>>
    /\ outcome = NoResult
    /\ ids = NoResult

ChunkNext ==
    \/ BeginMemory \/ BeginFastCdcReader \/ BeginStructuralReader
    \/ FillBuffer \/ NextChunk \/ EndCdc
    \/ BeginRegion \/ ConsumeExactRegion \/ ReadTrailing
    \/ ReadFails \/ CheckpointFails
    \/ AssignIds

-----------------------------------------------------------------------------
(* Properties                                                              *)

Ended == chunkPc \in {"returned", "assigned"}
Faults == {"io", "cancelled"}

\* However a reader splits its bytes, a streaming call that met no fault
\* answers what the in-memory call answers for all the bytes of the stream: it
\* never ends early, never cuts a stream off at a limit, and never refuses what
\* the other accepts.
StreamMatchesMemory ==
    Ended /\ call.kind \in Readers /\ (~outcome.ok => outcome.val \notin Faults) =>
        LET memory == InMemory(call)
        IN  outcome.ok = memory.ok /\ (outcome.ok => outcome.val = memory.val)

\* Where a chunk of the object [0, n) may end: at a structural end; for FastCDC
\* after the first marker beyond the minimum, or at the maximum; or, for fixed
\* blocks, at their size.
CutIsDue(start, end, stop) ==
    LET c == call.cfg
        len == end - start
        marked(k) == k > c.min /\ call.data[start + k] = Marker
    IN  IF call.kind = "fixed" THEN len = c.fixed \/ end = stop
        ELSE /\ len <= c.max
             /\ (end = stop) \/ marked(len) \/ len = c.max
             /\ \A k \in 1 .. len - 1 : ~marked(k)

\* The call with room for more chunks than its object has bytes.
Roomy(k) == InMemory([k EXCEPT !.cfg.chunks = Len(k.data) + 1])

\* A successful call tiles its object from the base offset to the end, without
\* gap, overlap or empty chunk; no chunk crosses a structural end or exceeds its
\* maximum, and each ends where the content says and not later.  A call within
\* all other limits is refused only when its object has more chunks than the
\* limit on them: one with exactly that many chunks succeeds.
ChunksTile ==
    Ended =>
        LET n == Len(call.data)
            o == call.origin
            c == call.cfg
            ends == IF call.kind \in {"structural", "structural_reader"}
                    THEN ToSet(call.ends) ELSE {n}
            wholeRegions == call.kind \in {"structural", "structural_reader"}
            stop(start) == Min({e \in ends : e > start})
            list == outcome.val
            From(i) == list[i].offset - o.base
            To(i) == From(i) + list[i].len
            fits == /\ ConfigValid(c) /\ n <= c.bytes /\ o.base + n <= OffsetMax
                    /\ wholeRegions => (IF n = 0 THEN call.ends = <<>>
                                        ELSE BoundaryEndsValid(call.ends, n))
        IN  IF outcome.ok
            THEN /\ n = 0 <=> list = <<>>
                 /\ \A i \in 1 .. Len(list) :
                       /\ list[i].entry = o.entry /\ list[i].object = o.object
                       /\ From(i) = IF i = 1 THEN 0 ELSE To(i - 1)
                       /\ list[i].len > 0 /\ To(i) <= stop(From(i))
                       /\ i = Len(list) => To(i) = n
                       /\ LET at == stop(From(i))
                              first == Max({e \in ends \cup {0} : e <= From(i)})
                          IN  IF wholeRegions /\ at - first <= c.max
                              THEN From(i) = first /\ To(i) = at
                              ELSE CutIsDue(From(i), To(i), at)
                 /\ Len(list) <= c.chunks
            ELSE \/ outcome.val \in Faults
                 \/ ~fits
                 \/ Roomy(call).ok /\ Len(Roomy(call).val) > c.chunks

\* Ids number the drafts of all objects from 0 in the order of entry, object and
\* offset, whatever order the workers delivered them in; two drafts of one
\* position are refused.
IdsAreCanonical ==
    chunkPc = "assigned" =>
        LET distinct == \A i, j \in 1 .. Len(AllDrafts) :
                            i # j => DraftKey(AllDrafts[i]) # DraftKey(AllDrafts[j])
        IN  /\ ids.ok <=> distinct /\ Len(AllDrafts) <= call.cfg.chunks
            /\ ids.ok =>
                  /\ {x.draft : x \in ToSet(ids.val)} = ToSet(AllDrafts)
                  /\ Len(ids.val) = Len(AllDrafts)
                  /\ \A i \in 1 .. Len(ids.val) :
                        ids.val[i].id =
                            Cardinality({d \in ToSet(AllDrafts) : DraftLess(d, ids.val[i].draft)})

\* The chunks of an object are exact and their ids canonical.
ChunksAreExact == ChunksTile /\ IdsAreCanonical
=============================================================================
