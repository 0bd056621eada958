---------------------------- MODULE MicroFilePack ----------------------------
(***************************************************************************)
(* Packs of micro files: crates/pithos-analysis/src/micro_file.rs.         *)
(*                                                                         *)
(* A behaviour plans packs for a list of inputs, may meet damage to the    *)
(* plan's compact metadata, and turns the plan into logical chunks, which  *)
(* validates it.  Paths and grouping keys are sequences of small numbers,  *)
(* sizes and times are small, and a file hash is a model value.  The 72,   *)
(* 76 and 4 bytes that a record and a mode are charged are the code's.     *)
(* Which of several errors is found first is not kept.                     *)
(***************************************************************************)
EXTENDS LogicalChunking

CONSTANTS
    MicroCalls,     \* the calls that are made: inputs, configuration, damages to come
    MtimeMax,       \* i64::MAX
    MicroObject     \* the object id the chunks of micro files get

ASSUME MicroFilePackAssumption ==
    /\ MtimeMax \in Nat
    /\ \A k \in MicroCalls : {"inputs", "cfg", "damages"} \subseteq DOMAIN k

VARIABLES
    micro,      \* the call's arguments
    microPc,    \* "idle", "called", "planned", "used"
    plan,       \* the result of plan_micro_file_packs
    damaged,    \* how often the plan was damaged since
    drafts      \* the result of micro_file_logical_chunks

microVars == <<micro, microPc, plan, damaged, drafts>>

RecordBytes == 72
ModeBytes == 4
MetaCheck(size, c) == <<size <= c.meta, "metadata bytes">>

SumOf(s, f(_)) == FoldLeft(LAMBDA sum, x : sum + f(x), 0, s)
Distinct(s) == \A i, j \in 1 .. Len(s) : i # j => s[i] # s[j]
Mapped(s, f(_)) == [i \in 1 .. Len(s) |-> f(s[i])]

-----------------------------------------------------------------------------
(* Planning                                                                *)

InputsChecks(inputs, c) ==
    LET bytes == (RecordBytes + ModeBytes) * Len(inputs)
        names == SumOf(inputs, LAMBDA x : Len(x.path) + Len(x.prefix) + Len(x.ext))
    IN  <<<<ConfigValid(c), "config">>,
          CountCheck(Len(inputs), c.chunks),
          <<\A i \in 1 .. Len(inputs) : inputs[i].path # <<>>, "empty microfile path">>,
          <<\A i \in 1 .. Len(inputs) :
               {Len(inputs[i].path), Len(inputs[i].prefix), Len(inputs[i].ext)}
                    \subseteq 0 .. c.path, "path bytes">>,
          MetaCheck(bytes + names, c),
          <<Distinct(Mapped(inputs, LAMBDA x : x.id)), "duplicate microfile entry id">>,
          <<Distinct(Mapped(inputs, LAMBDA x : x.path)), "duplicate microfile path">>>>

CanonicalKey(x) ==
    <<<<x.family>>, x.prefix, x.ext, <<x.mode>>, <<x.similarity>>, x.path, <<x.id>>>>
Canonical(inputs) == SortBy(inputs, LAMBDA a, b : KeyLess(CanonicalKey(a), CanonicalKey(b)))

ExclusionReason(x, c) ==
    IF x.isolated THEN "isolated" ELSE IF x.size > c.micro THEN "too large" ELSE "none"

RequiredPackCount(eligible, target) ==
    LET walk == FoldLeft(LAMBDA acc, x :
                    IF acc.members /\ acc.len + x.size > target
                    THEN [count |-> acc.count + 1, len |-> x.size, members |-> TRUE]
                    ELSE [count |-> acc.count, len |-> acc.len + x.size, members |-> TRUE],
                    [count |-> 0, len |-> 0, members |-> FALSE], eligible)
    IN  walk.count + IF walk.members THEN 1 ELSE 0

\* Mutant: a pack is closed when it would reach the target.
SlicesBelow(eligible, target) ==
    FoldLeft(LAMBDA slices, x :
                IF slices = <<>> \/ SumOf(Last(slices), LAMBDA y : y.size) + x.size >= target
                THEN Append(slices, <<x>>)
                ELSE Append(Front(slices), Append(Last(slices), x)),
             <<>>, eligible)

\* Where the packs begin: before a file that would lift its pack over the target.
Slices(eligible, target) ==
    FoldLeft(LAMBDA slices, x :
                IF slices = <<>> \/ SumOf(Last(slices), LAMBDA y : y.size) + x.size > target
                THEN Append(slices, <<x>>)
                ELSE Append(Front(slices), Append(Last(slices), x)),
             <<>>, eligible)

CommonPrefixLen(a, b) ==
    Max({n \in 0 .. Min({Len(a), Len(b)}) : SubSeq(a, 1, n) = SubSeq(b, 1, n)})

\* Mutant: coded against the pack's first path.
FrontCodedOnFirst(members, i) ==
    LET previous == IF i = 1 THEN <<>> ELSE members[1].path
        shared == CommonPrefixLen(previous, members[i].path)
    IN  [shared |-> shared, suffix |-> SubSeq(members[i].path, shared + 1, Len(members[i].path))]

\* The path is kept as what it does not share with the member before it.
FrontCoded(members, i) ==
    LET previous == IF i = 1 THEN <<>> ELSE members[i - 1].path
        shared == CommonPrefixLen(previous, members[i].path)
    IN  [shared |-> shared, suffix |-> SubSeq(members[i].path, shared + 1, Len(members[i].path))]

\* Sorted, then each mode kept once.
DedupSorted(s) ==
    FoldLeft(LAMBDA kept, x : IF kept # <<>> /\ Last(kept) = x THEN kept ELSE Append(kept, x),
             <<>>, s)
ModeDictionary(members) ==
    DedupSorted(SortBy(Mapped(members, LAMBDA x : x.mode), LAMBDA a, b : a < b))

ContentOffset(members, i) == SumOf(SubSeq(members, 1, i - 1), LAMBDA x : x.size)

BuildPack(packId, members) ==
    LET n == Len(members)
        base == Min({members[i].mtime : i \in 1 .. n})
        modes == ModeDictionary(members)
    IN  [id |-> packId,
         members |-> [i \in 1 .. n |-> [id |-> members[i].id,
                        offset |-> ContentOffset(members, i), len |-> members[i].size]],
         len |-> ContentOffset(members, n + 1),
         paths |-> [i \in 1 .. n |-> FrontCoded(members, i)],
         base |-> base,
         deltas |-> [i \in 1 .. n |-> members[i].mtime - base],
         modes |-> modes,
         records |-> [i \in 1 .. n |-> [id |-> members[i].id,
                        mode |-> (CHOOSE m \in 1 .. Len(modes) : modes[m] = members[i].mode) - 1,
                        offset |-> ContentOffset(members, i), len |-> members[i].size,
                        hash |-> members[i].hash]]]

-----------------------------------------------------------------------------
(* Validation of a plan and its metadata                                   *)

\* One record of expanded_paths: acc holds the paths decoded so far.
ExpandRecord(acc, pack, i, column, c) ==
    LET coded == pack.paths[i]
        previous == IF acc.paths = <<>> THEN <<>> ELSE Last(acc.paths)
        length == coded.shared + Len(coded.suffix)
        path == SubSeq(previous, 1, Min({coded.shared, Len(previous)})) \o coded.suffix
        record == pack.records[i]
    IN  Checked(<<<<coded.shared <= Len(previous), "front-coded microfile path">>,
                  <<length <= c.path, "path bytes">>,
                  MetaCheck(column + acc.bytes + length, c),
                  <<path # <<>>, "empty microfile path">>,
                  <<pack.base + pack.deltas[i] <= MtimeMax, "overflow">>,
                  <<record.mode < Len(pack.modes) /\ record.offset = acc.offset,
                        "microfile metadata record">>>>,
                [paths |-> Append(acc.paths, path), bytes |-> acc.bytes + length,
                 offset |-> acc.offset + record.len])

ExpandedPaths(pack, c) ==
    LET n == Len(pack.records)
        column == RecordBytes * n + ModeBytes * Len(pack.modes)
                    + SumOf(pack.paths, LAMBDA p : Len(p.suffix))
        checks == <<<<ConfigValid(c), "config">>,
                    CountCheck(n, c.chunks),
                    <<Len(pack.paths) = n /\ Len(pack.deltas) = n, "microfile metadata columns">>,
                    <<Len(pack.modes) \in (IF n = 0 THEN 0 ELSE 1) .. n
                        /\ \A i \in 1 .. Len(pack.modes) - 1 : pack.modes[i] < pack.modes[i + 1],
                        "microfile mode dictionary">>,
                    MetaCheck(column, c)>>
    IN  AndThen(Checked(checks, [paths |-> <<>>, bytes |-> 0, offset |-> 0]), LAMBDA start :
        AndThen(FoldLeftDomain(LAMBDA acc, i : AndThen(acc, LAMBDA a :
                    ExpandRecord(a, pack, i, column, c)), Ok(start), pack.records), LAMBDA end :
            Checked(<<<<Distinct(Mapped(pack.records, LAMBDA r : r.id)),
                            "duplicate microfile entry id">>,
                      <<Distinct(end.paths), "duplicate microfile path">>>>, end.paths)))

\* Mutant: only entry ids are compared.
MemberMatchesIds(pack, i, c) == pack.members[i].id = pack.records[i].id

MemberMatches(pack, i, c) ==
    LET m == pack.members[i]
        r == pack.records[i]
    IN  /\ m.id = r.id /\ m.offset = r.offset /\ m.len = r.len
        /\ m.offset = SumOf(SubSeq(pack.members, 1, i - 1), LAMBDA x : x.len)
        /\ m.len <= c.micro

PackValidate(pack, c) ==
    AndThen(Checked(<<CountCheck(Len(pack.members), c.chunks),
                      <<pack.members # <<>> /\ Len(pack.members) = Len(pack.records)
                            /\ pack.len <= c.target /\ pack.len <= c.bytes,
                            "microfile pack layout">>>>, pack), LAMBDA p :
    AndThen(ExpandedPaths(p, c), LAMBDA paths :
        Checked(<<<<\A i \in 1 .. Len(p.members) : MemberMatches(p, i, c),
                        "microfile member mapping">>,
                  <<SumOf(p.members, LAMBDA x : x.len) = p.len, "microfile pack length">>>>,
                paths)))

PlanValidate(pl, c) ==
    LET members == SumOf(pl.packs, LAMBDA p : Len(p.members))
        entryIds == FlattenSeq(Mapped(pl.packs, LAMBDA p : Mapped(p.members, LAMBDA x : x.id)))
                        \o Mapped(pl.excluded, LAMBDA x : x.id)
        checks == <<<<ConfigValid(c), "config">>,
                    CountCheck(Len(pl.packs), c.chunks),
                    CountCheck(members + Len(pl.excluded), c.chunks),
                    SizeCheck(SumOf(pl.packs, LAMBDA p : p.len), c)>>
    IN  AndThen(Checked(checks, pl), LAMBDA p :
        AndThen(FoldLeftDomain(LAMBDA acc, i : AndThen(acc, LAMBDA before :
                    AndThen(Checked(<<<<p.packs[i].id = i - 1, "microfile pack ID">>>>, i),
                            LAMBDA at : PackValidate(p.packs[at], c))), Ok(<<>>), p.packs),
                LAMBDA last :
            Checked(<<<<Distinct(entryIds), "duplicate microfile entry id">>>>, p)))

PlanMicroFilePacks(inputs, c) ==
    LET ordered == Canonical(inputs)
        eligible == SelectSeq(ordered, LAMBDA x : ExclusionReason(x, c) = "none")
        refused == SelectSeq(ordered, LAMBDA x : ExclusionReason(x, c) # "none")
        slices == Slices(eligible, c.target)
    IN  AndThen(Checked(InputsChecks(inputs, c), inputs), LAMBDA in :
        AndThen(Checked(<<SizeCheck(SumOf(eligible, LAMBDA x : x.size), c),
                          CountCheck(RequiredPackCount(eligible, c.target), c.chunks)>>, in),
                LAMBDA admitted :
            PlanValidate(
                [packs |-> [i \in 1 .. Len(slices) |-> BuildPack(i - 1, slices[i])],
                 excluded |-> Mapped(refused, LAMBDA x :
                                [id |-> x.id, reason |-> ExclusionReason(x, c)])], c)))

MicroFileLogicalChunks(pl, object, c) ==
    AndThen(PlanValidate(pl, c), LAMBDA valid :
        Ok(FlattenSeq(Mapped(valid.packs, LAMBDA p : Mapped(p.members, LAMBDA x :
            [entry |-> x.id, object |-> object, offset |-> 0, len |-> x.len,
             method |-> "MicroFile"])))))
-----------------------------------------------------------------------------
(* One call of each kind                                                   *)

PlanPacks ==
    /\ microPc = "called"
    /\ \E r \in {PlanMicroFilePacks(micro.inputs, micro.cfg), Err("cancelled")} :
          /\ plan' = r
          /\ microPc' = IF r.ok THEN "planned" ELSE "used"
    /\ UNCHANGED <<micro, damaged, drafts>>

\* The fields of a pack are public: a caller may hand in metadata that differs
\* from what the planner made.  One number, suffix or column is changed.
DamageValues == 0 .. 2
Damaged(pack) ==
    LET rows == 1 .. Len(pack.members)
    IN  UNION {
          {[pack EXCEPT !.members[i].offset = v] : i \in rows, v \in DamageValues},
          {[pack EXCEPT !.members[i].len = v] : i \in rows, v \in DamageValues},
          {[pack EXCEPT !.members[i].id = v] : i \in rows, v \in DamageValues},
          {[pack EXCEPT !.records[i].offset = v] : i \in rows, v \in DamageValues},
          {[pack EXCEPT !.records[i].len = v] : i \in rows, v \in DamageValues},
          {[pack EXCEPT !.records[i].id = v] : i \in rows, v \in DamageValues},
          {[pack EXCEPT !.records[i].mode = v] : i \in rows, v \in DamageValues},
          {[pack EXCEPT !.paths[i].shared = v] : i \in rows, v \in DamageValues},
          {[pack EXCEPT !.paths[i].suffix = v] : i \in rows, v \in {<<>>, <<1>>, <<1, 2>>}},
          {[pack EXCEPT !.deltas[i] = MtimeMax] : i \in rows},
          {[pack EXCEPT !.len = v] : v \in DamageValues},
          {[pack EXCEPT !.id = v] : v \in DamageValues},
          {[pack EXCEPT !.modes = v] : v \in {<<>>, <<1, 1>>, <<2, 1>>}},
          {[pack EXCEPT !.paths = Front(@)], [pack EXCEPT !.deltas = Front(@)],
           [pack EXCEPT !.records = Front(@)], [pack EXCEPT !.members = Front(@)]}}

DamagePlan ==
    /\ microPc = "planned" /\ damaged < micro.damages
    /\ \E p \in 1 .. Len(plan.val.packs) :
          /\ Len(plan.val.packs[p].paths) = Len(plan.val.packs[p].members)
          /\ Len(plan.val.packs[p].deltas) = Len(plan.val.packs[p].members)
          /\ Len(plan.val.packs[p].records) = Len(plan.val.packs[p].members)
          /\ plan.val.packs[p].members # <<>>
          /\ \E pack \in Damaged(plan.val.packs[p]) \ {plan.val.packs[p]} :
                plan' = [plan EXCEPT !.val.packs[p] = pack]
    /\ damaged' = damaged + 1
    /\ UNCHANGED <<micro, microPc, drafts>>

UsePlan ==
    /\ microPc = "planned"
    /\ \E r \in {MicroFileLogicalChunks(plan.val, MicroObject, micro.cfg), Err("cancelled")} :
          drafts' = r
    /\ microPc' = "used"
    /\ UNCHANGED <<micro, plan, damaged>>

MicroInitWith(k) ==
    /\ micro = k
    /\ microPc = StartOf(k)
    /\ plan = NoResult /\ drafts = NoResult
    /\ damaged = 0

MicroNext == PlanPacks \/ DamagePlan \/ UsePlan

-----------------------------------------------------------------------------
(* Properties                                                              *)

Refused(r) == ~r.ok /\ r.val = "cancelled"

\* What a reader of the pack's metadata gets back for its i-th file, decoded
\* from the first path on.
Restored(pack) ==
    LET path[i \in 0 .. Len(pack.paths)] ==
            IF i = 0 THEN <<>>
            ELSE SubSeq(path[i - 1], 1, pack.paths[i].shared) \o pack.paths[i].suffix
    IN  [i \in 1 .. Len(pack.records) |->
            [id |-> pack.records[i].id, path |-> path[i], size |-> pack.records[i].len,
             mtime |-> pack.base + pack.deltas[i],
             mode |-> pack.modes[pack.records[i].mode + 1],
             hash |-> pack.records[i].hash]]
Described(x) ==
    [id |-> x.id, path |-> x.path, size |-> x.size, mtime |-> x.mtime, mode |-> x.mode,
     hash |-> x.hash]

\* A plan accounts for every input exactly once: those left out are the isolated
\* and the large ones, the others are restored from the front-coded paths, the
\* time deltas and the mode dictionary as they were given, at offsets that tile
\* their pack.
PlanIsComplete ==
    microPc = "planned" /\ damaged = 0 =>
        LET restored == FlattenSeq(Mapped(plan.val.packs, Restored))
            inputs == ToSet(micro.inputs)
            packed == {x \in inputs : ~x.isolated /\ x.size <= micro.cfg.micro}
        IN  /\ ToSet(restored) = {Described(x) : x \in packed}
            /\ ToSet(plan.val.excluded) =
                  {[id |-> x.id, reason |-> IF x.isolated THEN "isolated" ELSE "too large"] :
                        x \in inputs \ packed}
            /\ Len(restored) + Len(plan.val.excluded) = Len(micro.inputs)
            /\ \A p \in ToSet(plan.val.packs) : \A i \in 1 .. Len(p.members) :
                  p.members[i].offset + p.members[i].len =
                        IF i = Len(p.members) THEN p.len ELSE p.members[i + 1].offset

\* The plan depends on the inputs and not on the order they come in: members
\* follow the canonical key within and across packs, no pack exceeds the target,
\* a pack ends only where its next file would, and the packs are as many as were
\* counted before they were built.
PlanIsCanonical ==
    microPc = "planned" /\ damaged = 0 =>
        LET packs == plan.val.packs
            members == FlattenSeq(Mapped(packs, LAMBDA p : Mapped(p.members, LAMBDA x : x.id)))
            Input(id) == CHOOSE x \in ToSet(micro.inputs) : x.id = id
        IN  /\ \A i \in 1 .. Len(members) - 1 :
                  KeyLess(CanonicalKey(Input(members[i])), CanonicalKey(Input(members[i + 1])))
            /\ \A p \in 1 .. Len(packs) :
                  /\ packs[p].len <= micro.cfg.target
                  /\ p < Len(packs) =>
                        packs[p].len + packs[p + 1].members[1].len > micro.cfg.target
            /\ Len(packs) = RequiredPackCount(Mapped(members, Input), micro.cfg.target)

\* A plan restores its inputs, and is the same for every order of them.
PlanRestoresInputs == PlanIsComplete /\ PlanIsCanonical

\* Metadata that validation accepts is safe to use, damaged or not: shared
\* prefixes exist, modes resolve, paths of a pack are nonempty and distinct,
\* members tile their pack within its limits, and every entry of the plan gets
\* exactly one chunk.  A plan nobody touched is accepted.
ValidatedIsSound ==
    microPc = "used" /\ plan.ok /\ ~Refused(drafts) =>
        IF drafts.ok
        THEN /\ \A p \in ToSet(plan.val.packs) :
                  LET rows == 1 .. Len(p.members)
                      files == Restored(p)
                  IN  /\ \A i \in rows : p.records[i].mode \in 0 .. Len(p.modes) - 1
                      /\ \A i \in rows :
                            p.paths[i].shared <= IF i = 1 THEN 0 ELSE Len(files[i - 1].path)
                      /\ Cardinality({files[i].path : i \in rows} \ {<<>>}) = Len(p.members)
                      /\ \A i \in rows :
                            /\ p.members[i].len <= micro.cfg.micro
                            /\ files[i].mtime <= MtimeMax
                            /\ files[i].size = p.members[i].len
                            /\ p.members[i].offset + p.members[i].len =
                                  IF i = Len(p.members) THEN p.len ELSE p.members[i + 1].offset
                      /\ p.members[1].offset = 0 /\ p.len <= micro.cfg.target
             /\ Cardinality({DraftKey(d) : d \in ToSet(drafts.val)}) = Len(drafts.val)
             /\ {d.entry : d \in ToSet(drafts.val)} \cap {x.id : x \in ToSet(plan.val.excluded)} = {}
             /\ AssignChunkIds(drafts.val, micro.cfg.chunks).ok
        ELSE damaged > 0
=============================================================================
