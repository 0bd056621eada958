--------------------------- MODULE ArchiveCatalog ---------------------------
(***************************************************************************)
(* The tables of a PAF archive as crates/pithos-engine/src/lib.rs builds   *)
(* and checks them, and the planner's solid groups.                        *)
(*                                                                         *)
(* A file's bytes are a sequence of units, a unit being what one read      *)
(* returns.  BLAKE3 is taken to be collision free: a hash is the bytes it  *)
(* was computed from.  CRC32C is not: see CrcPasses in ArchiveEngine.      *)
(* Entry and group ids are positions, from 1 on.  A group's stored bytes   *)
(* are kept decoded, with their encoded length beside them.  The central   *)
(* index and the integrity table repeat the entry table and are left out,  *)
(* as are the header's counts, the byte layout of the sections, the limits *)
(* on paths and the size of a symbolic link.                               *)
(***************************************************************************)
EXTENDS Integers, Sequences, FiniteSets, SequencesExt

CONSTANTS
    GroupTarget,    \* solid_group_target of the compressed profile
    MaxGroup,       \* max_group_output
    MaxOriginal,    \* max_original_bytes
    MaxExpansion    \* max_expansion_ratio

ASSUME ArchiveCatalogAssumption ==
    {GroupTarget, MaxGroup, MaxOriginal, MaxExpansion} \subseteq Nat

NoId == 0
Profiles == {"raw", "compressed"}

SumSeq(w) == FoldLeft(LAMBDA sum, x : sum + x, 0, w)

\* The sum of f(s[i]) over a sequence.
Total(s, f(_)) == SumSeq([i \in 1 .. Len(s) |-> f(s[i])])

\* The elements of s at the positions in `keep`, in their order.
Kept(s, keep) ==
    FoldLeftDomain(LAMBDA out, i : IF i \in keep THEN Append(out, s[i]) ELSE out, <<>>, s)

-----------------------------------------------------------------------------
(* plan_solid_groups: consecutive items share a group up to the target.    *)

Placed(plans, i, length) ==
    IF plans # <<>> /\ Last(plans).len + length <= GroupTarget
    THEN [plans EXCEPT ![Len(plans)] =
            [first |-> @.first, count |-> @.count + 1, len |-> @.len + length]]
    ELSE Append(plans, [first |-> i, count |-> 1, len |-> length])

PlanSolidGroups(profile, lengths) ==
    IF profile = "raw"
    THEN [i \in 1 .. Len(lengths) |-> [first |-> i, count |-> 1, len |-> lengths[i]]]
    ELSE FoldLeftDomain(LAMBDA plans, i : Placed(plans, i, lengths[i]), <<>>, lengths)

-----------------------------------------------------------------------------
(* Encoding a group.  STORE keeps the length.  The other codecs hand the   *)
(* bytes to a library, taken to shrink repetitive bytes to one unit and to *)
(* add one to anything else.                                               *)

Repetitive(bytes) == Len(bytes) > 1 /\ \A i \in 1 .. Len(bytes) : bytes[i] = bytes[1]
CodecLength(codec, bytes) ==
    IF codec = "store" THEN Len(bytes) ELSE IF Repetitive(bytes) THEN 1 ELSE Len(bytes) + 1

\* encode_solid_group keeps the cheapest candidate and, of two as cheap, the
\* one with the lower id, which is STORE.
EncodeSolidGroup(profile, bytes) ==
    IF profile = "compressed" /\ CodecLength("other", bytes) < CodecLength("store", bytes)
    THEN [codec |-> "other", packed |-> CodecLength("other", bytes)]
    ELSE [codec |-> "store", packed |-> CodecLength("store", bytes)]

-----------------------------------------------------------------------------
(* The catalog of a pack.  `files` is what the scan found, in path order;  *)
(* `got` the bytes read of each source.                                    *)

\* The first entry with the identity of entry k: k itself unless it is a hard
\* link to a file met before.
SourceOf(files, k) ==
    CHOOSE j \in 1 .. k :
        /\ files[j].kind = "file" /\ files[j].ino = files[k].ino
        /\ \A i \in 1 .. (j - 1) : ~(files[i].kind = "file" /\ files[i].ino = files[k].ino)
IsSource(files, k) == files[k].kind = "file" /\ SourceOf(files, k) = k
Sources(files) ==
    Kept([k \in 1 .. Len(files) |-> k], {k \in 1 .. Len(files) : IsSource(files, k)})

\* The bytes of the members of a plan, one after the other.
GroupBytes(sources, got, plan) ==
    FlattenSeq([i \in 1 .. plan.count |-> got[sources[plan.first + i - 1]]])

\* Mutant: the offset is advanced before it is recorded.
OffsetAfterMember(sources, got, plan, i) ==
    Total(SubSeq(sources, plan.first, i), LAMBDA k : Len(got[k]))

\* group_offset of source i of a plan.
OffsetInGroup(sources, got, plan, i) ==
    Total(SubSeq(sources, plan.first, i - 1), LAMBDA k : Len(got[k]))

\* The record of entry k; `group` is that of a source.
EntryRecord(files, hashed, k, group) ==
    CASE files[k].kind # "file" ->
            [path |-> files[k].path, kind |-> files[k].kind, size |-> 0,
             hash |-> <<>>, group |-> NoId, target |-> NoId]
      [] IsSource(files, k) ->
            [path |-> files[k].path, kind |-> "file", size |-> Len(hashed[k]),
             hash |-> hashed[k], group |-> group, target |-> NoId]
      [] OTHER ->
            LET source == SourceOf(files, k)
            IN  [path |-> files[k].path, kind |-> "hardlink", size |-> Len(hashed[source]),
                 hash |-> hashed[source], group |-> NoId, target |-> source]

\* What pack writes to the spool once every input has been read.  The hashes
\* are of the first read, the payload of the last.
Build(profile, files, hashed, got) ==
    LET sources == Sources(files)
        plans == PlanSolidGroups(profile, [i \in 1 .. Len(sources) |-> Len(hashed[sources[i]])])
        PlanOf(i) == CHOOSE g \in 1 .. Len(plans) :
                        plans[g].first <= i /\ i < plans[g].first + plans[g].count
        data == [g \in 1 .. Len(plans) |-> GroupBytes(sources, got, plans[g])]
        code == [g \in 1 .. Len(plans) |-> EncodeSolidGroup(profile, data[g])]
        GroupOf(k) == PlanOf(CHOOSE i \in 1 .. Len(sources) : sources[i] = k)
    IN  [registry |-> IF profile = "compressed" THEN "codecs" ELSE "absent",
         total |-> Total(files, LAMBDA f : IF f.kind = "file" THEN f.len ELSE 0),
         entries |-> [k \in 1 .. Len(files) |-> EntryRecord(files, hashed, k, GroupOf(k))],
         groups |-> [g \in 1 .. Len(plans) |->
            [len |-> plans[g].len, count |-> plans[g].count, crc |-> data[g],
             codec |-> code[g].codec, packed |-> code[g].packed,
             offset |-> Total(SubSeq(code, 1, g - 1), LAMBDA c : c.packed)]],
         restore |-> [i \in 1 .. Len(sources) |->
            [entry |-> sources[i], len |-> Len(hashed[sources[i]]), group |-> PlanOf(i),
             at |-> OffsetInGroup(sources, got, plans[PlanOf(i)], i)]],
         payload |-> Total(code, LAMBDA c : c.packed),
         root |-> data,
         data |-> data]

-----------------------------------------------------------------------------
(* read_catalog: the checks of the tables.                                 *)

\* Entries: distinct paths, files that name a group, hard links to an earlier
\* file with their size and hash, and the declared total.
EntriesValid(a) ==
    /\ \A i, k \in 1 .. Len(a.entries) : a.entries[i].path = a.entries[k].path => i = k
    /\ \A k \in 1 .. Len(a.entries) :
        LET e == a.entries[k]
        IN  CASE e.kind = "file" -> e.group \in 1 .. Len(a.groups)
              [] e.kind = "hardlink" ->
                    /\ e.target < k /\ e.target \in 1 .. Len(a.entries)
                    /\ a.entries[e.target].kind = "file"
                    /\ a.entries[e.target].size = e.size /\ a.entries[e.target].hash = e.hash
              [] e.kind = "dir" -> e.size = 0
              [] OTHER -> e.kind = "symlink"
    /\ a.total = Total(a.entries, LAMBDA e : IF e.kind \in {"file", "hardlink"} THEN e.size ELSE 0)

\* The restore map names every file once, with its size and group.
RestoreValid(a) ==
    /\ \A i \in 1 .. Len(a.restore) :
        LET r == a.restore[i]
        IN  /\ r.entry \in 1 .. Len(a.entries) /\ a.entries[r.entry].kind = "file"
            /\ r.len = a.entries[r.entry].size /\ r.group = a.entries[r.entry].group
            /\ \A k \in 1 .. Len(a.restore) : a.restore[k].entry = r.entry => k = i
    /\ Len(a.restore) = Cardinality({k \in 1 .. Len(a.entries) : a.entries[k].kind = "file"})

\* Groups lie one after the other in the payload, and their members one after
\* the other in the group.
GroupsValid(a) ==
    /\ \A g \in 1 .. Len(a.groups) :
        LET group == a.groups[g]
            mappings == Kept(a.restore, {i \in 1 .. Len(a.restore) : a.restore[i].group = g})
        IN  /\ group.codec # "store" => a.registry = "codecs"
            /\ a.registry = "absent" => group.count = 1 /\ group.len = group.packed
            /\ group.offset = Total(SubSeq(a.groups, 1, g - 1), LAMBDA x : x.packed)
            /\ Len(mappings) = group.count /\ mappings # <<>>
            /\ \A i \in 1 .. Len(mappings) :
                    mappings[i].at = Total(SubSeq(mappings, 1, i - 1), LAMBDA r : r.len)
            /\ group.len = Total(mappings, LAMBDA r : r.len)
    /\ a.payload = Total(a.groups, LAMBDA x : x.packed)

CatalogValid(a) == EntriesValid(a) /\ RestoreValid(a) /\ GroupsValid(a)

\* What a group may decode to, in all and for what it takes in the payload.
GroupWithinLimits(group) ==
    /\ group.len <= MaxGroup
    /\ group.packed # 0 => group.len <= group.packed * MaxExpansion

\* The limits read_catalog enforces on a catalog, whoever wrote it.  Those on how many
\* sections, entries, groups and chunks there are go with the header's counts.
WithinLimits(a) ==
    /\ a.total <= MaxOriginal
    /\ \A g \in 1 .. Len(a.groups) : GroupWithinLimits(a.groups[g])

-----------------------------------------------------------------------------
(* Decoding.                                                               *)

\* restore_for_entry
RestoreFor(a, k) == a.restore[CHOOSE i \in 1 .. Len(a.restore) : a.restore[i].entry = k]

\* restored_slice: `length` units from `offset` of an entry of the decoded group.
RestoredSlice(decoded, r, offset, length) ==
    SubSeq(decoded, r.at + offset + 1, r.at + offset + length)

\* file_source_entry: the entry whose group holds the bytes of entry k.
FileSourceEntry(a, k) == IF a.entries[k].kind = "hardlink" THEN a.entries[k].target ELSE k

\* The bytes that entry k, a file, decodes to when its group holds `decoded`.
EntryBytes(a, k, decoded) ==
    RestoredSlice(decoded, RestoreFor(a, k), 0, RestoreFor(a, k).len)

\* The payload checks of verify_open_file: every entry has its hash, and the
\* root covers every byte.
PayloadValid(a, data) ==
    /\ \A i \in 1 .. Len(a.restore) :
        LET r == a.restore[i]
        IN  RestoredSlice(data[r.group], r, 0, r.len) = a.entries[r.entry].hash
    /\ data = a.root

\* verify_open_file
Verifies(a) == CatalogValid(a) /\ WithinLimits(a) /\ PayloadValid(a, a.data)
=============================================================================
