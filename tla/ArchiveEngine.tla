--------------------------- MODULE ArchiveEngine ---------------------------
(***************************************************************************)
(* unpack, extract, extract_to_writer ("stream") and read_range ("range")  *)
(* of crates/pithos-engine/src/lib.rs on the archive that ArchivePack      *)
(* leaves behind.  Other programs overwrite its payload between two reads  *)
(* and take the path of the output.  One call is made once pack is over.   *)
(*                                                                         *)
(* Damage to the tables is left out: read_catalog sees each section once   *)
(* and checks its CRC before it is used.  The payload is read two or three *)
(* times by unpack, and what was verified may not be what is then decoded. *)
(***************************************************************************)
EXTENDS ArchivePack

CONSTANTS
    Units,          \* what a damaged unit may become
    MaxDamage       \* bound on the damage done to the archive

VARIABLES
    output,     \* what is at the output path of the call
    damage,     \* damage done to the archive so far
    rd          \* the call

vars == <<packVars, output, damage, rd>>

Operations == {"unpack", "extract", "stream", "range"}

\* Pack is over.  A bound: what a reader does depends on the archive alone, and the
\* archive of inputs that changed is that of other inputs, so readers run on the
\* archives of inputs left alone.
PackOver == pk.pc = "done" /\ changes = 0

\* The archive's tables and payload, once there is one.
Arc == archive.arc
EntryIds == 1 .. Len(Arc.entries)

Init ==
    /\ PackInit
    /\ output = Nothing /\ damage = 0
    /\ rd = [pc |-> "start", result |-> "none", op |-> "none", entry |-> NoId, from |-> 0,
             len |-> 0, at |-> 1, buf |-> <<>>, staging |-> <<>>, emitted |-> Nothing,
             cancelled |-> FALSE]

-----------------------------------------------------------------------------
(* Other programs.                                                         *)

\* A unit of the payload is overwritten in the published archive.
DamageArchive(g, i, u) ==
    /\ PackOver /\ rd.pc # "done" /\ damage < MaxDamage
    /\ archive.by = "pack" /\ g <= Len(Arc.data) /\ i <= Len(Arc.data[g])
    /\ Arc.data[g][i] # u
    /\ archive' = [archive EXCEPT !.arc.data[g][i] = u]
    /\ damage' = damage + 1
    /\ UNCHANGED <<inputVars, pk, output, rd>>

\* Another program creates what the call is about to create: an empty
\* directory or anything else.
TakeOutput ==
    /\ PackOver /\ output = Nothing
    /\ \E empty \in BOOLEAN : output' = [by |-> "other", empty |-> empty]
    /\ UNCHANGED <<packVars, damage, rd>>

CancelRead ==
    /\ PackOver /\ rd.pc # "done" /\ ~rd.cancelled
    /\ rd' = [rd EXCEPT !.cancelled = TRUE]
    /\ UNCHANGED <<packVars, output, damage>>

-----------------------------------------------------------------------------
(* What the calls have in common.                                          *)

\* The call returns; its spool or staging directory is removed.
ReadEnds(result) ==
    [rd EXCEPT !.pc = "done", !.result = result, !.at = 1, !.buf = <<>>, !.staging = <<>>]

ReadCheckpoint(next) == IF rd.cancelled THEN ReadEnds("cancelled") ELSE next

ReadStep(from, next) ==
    /\ PackOver /\ rd.pc = from
    /\ rd' = next
    /\ UNCHANGED <<packVars, output, damage>>

\* Whether the CRC32C of `bytes` agrees with that of the bytes it was computed
\* from: always when they are the same, and perhaps when they are not.
CrcPasses(bytes, original) == IF bytes = original THEN {TRUE} ELSE {TRUE, FALSE}

\* The request and the archive are opened, after the token was looked at.
ReadStart(op, entry, from, len) ==
    ReadStep("start",
        LET call == [rd EXCEPT !.op = op, !.entry = entry, !.from = from, !.len = len]
        IN  ReadCheckpoint(
                IF op = "range" /\ len > MaxGroup THEN ReadEnds("limit")
                ELSE IF op = "unpack" /\ output # Nothing THEN ReadEnds("exists")
                ELSE IF archive = Nothing THEN ReadEnds("io")
                ELSE [call EXCEPT !.pc = "catalog"]))

\* read_catalog, and what each call decides from the tables alone.
AfterCatalog ==
    LET entry == Arc.entries[rd.entry]
        isFile == entry.kind \in {"file", "hardlink"}
    IN  IF archive.by # "pack" THEN ReadEnds("invalid")
        ELSE IF ~CatalogValid(Arc) \/ ~WithinLimits(Arc) THEN ReadEnds("invalid")
        ELSE IF rd.op = "unpack" THEN [rd EXCEPT !.pc = "payload"]
        ELSE IF rd.entry \notin EntryIds THEN ReadEnds("not found")
        ELSE IF rd.op = "extract" /\ output # Nothing THEN ReadEnds("exists")
        ELSE IF rd.op = "extract" THEN [rd EXCEPT !.pc = IF isFile THEN "decode" ELSE "create"]
        ELSE IF ~isFile THEN ReadEnds("invalid")
        ELSE IF rd.op = "range" /\ rd.from + rd.len > entry.size THEN ReadEnds("range")
        ELSE [rd EXCEPT !.pc = "decode"]

ReadCatalog == ReadStep("catalog", ReadCheckpoint(AfterCatalog))

\* An I/O error or a budget of the caller; what has been renamed to its place stays there.
ReadFails ==
    /\ rd.pc \notin {"start", "done"}
    /\ ReadStep(rd.pc, ReadEnds("io"))

-----------------------------------------------------------------------------
(* extract, extract_to_writer and read_range: one entry.                   *)

Source == FileSourceEntry(Arc, rd.entry)

\* decode_group of the entry's group.
DecodeEntry ==
    LET g == Arc.entries[Source].group
    IN  /\ rd.pc = "decode"
        /\ \E passes \in CrcPasses(Arc.data[g], Arc.groups[g].crc) :
            ReadStep("decode", ReadCheckpoint(
                IF ~passes THEN ReadEnds("crc")
                ELSE [rd EXCEPT !.buf = EntryBytes(Arc, Source, Arc.data[g]),
                        !.pc = IF rd.op = "stream" THEN "emit" ELSE "hash"]))

\* Mutant: the bytes are handed on whatever they are.
HashMatchesSkipped(bytes, k) == TRUE

\* The BLAKE3 of the bytes against the entry table.
HashMatches(bytes, k) == bytes = Arc.entries[k].hash

\* extract goes on to its last checkpoint, read_range to its writer; the
\* stream has been written already.
CheckHash ==
    ReadStep("hash",
        IF ~HashMatches(rd.buf, Source) THEN ReadEnds("hash")
        ELSE IF rd.op = "range" THEN [rd EXCEPT !.pc = "emit"]
        ELSE IF rd.op = "stream" THEN ReadEnds("ok")
        ELSE ReadCheckpoint([rd EXCEPT !.pc = "commit"]))

\* output.write_all: of a range, or of the whole entry.
Emit ==
    \/ rd.op = "range"
       /\ ReadStep("emit", [ReadEnds("ok") EXCEPT
            !.emitted = [by |-> "range", bytes |-> SubSeq(rd.buf, rd.from + 1, rd.from + rd.len)]])
    \/ rd.op = "stream"
       /\ ReadStep("emit", [rd EXCEPT
            !.pc = "hash", !.emitted = [by |-> "stream", bytes |-> rd.buf]])

\* atomic_commit of the spool of extract; its mode is set afterwards.
ExtractCommit ==
    LET mine == [by |-> "extract", bytes |-> rd.buf]
    IN  /\ rd.op = "extract" /\ rd.pc = "commit"
        /\ output' = PersistNoclobber(output, mine)
        /\ rd' = IF output' = mine THEN [rd EXCEPT !.pc = "after"] ELSE ReadEnds("exists")
        /\ UNCHANGED <<packVars, damage>>

\* A directory or a symbolic link is created in place: create_dir_all does not
\* mind a directory that is there, symlink does.
ExtractCreate ==
    /\ rd.pc = "create"
    /\ \/ /\ output = Nothing
          /\ output' = [by |-> "extract", bytes |-> <<>>]
          /\ rd' = ReadEnds("ok")
       \/ /\ output # Nothing
          /\ output' = output
          /\ rd' \in {ReadEnds("ok"), ReadEnds("io")}
    /\ UNCHANGED <<packVars, damage>>

-----------------------------------------------------------------------------
(* unpack.                                                                 *)

\* verify_open_file: the CRC of the payload, each group, the root.
VerifyPayload ==
    /\ rd.pc = "payload"
    /\ \E passes \in CrcPasses(Arc.data, Arc.root) :
        ReadStep("payload", ReadCheckpoint(
            IF passes THEN [rd EXCEPT !.pc = "groups", !.at = 1] ELSE ReadEnds("crc")))

MembersMatch(g, decoded) ==
    \A i \in 1 .. Len(Arc.restore) :
        Arc.restore[i].group = g =>
            HashMatches(RestoredSlice(decoded, Arc.restore[i], 0, Arc.restore[i].len),
                        Arc.restore[i].entry)

VerifyGroup ==
    /\ rd.pc = "groups" /\ rd.at <= Len(Arc.groups)
    /\ \E passes \in CrcPasses(Arc.data[rd.at], Arc.groups[rd.at].crc) :
        ReadStep("groups", ReadCheckpoint(
            IF ~passes THEN ReadEnds("crc")
            ELSE IF ~MembersMatch(rd.at, Arc.data[rd.at]) THEN ReadEnds("hash")
            ELSE [rd EXCEPT !.at = @ + 1]))

VerifyRoot ==
    /\ rd.pc = "groups" /\ rd.at > Len(Arc.groups)
    /\ ReadStep("groups", ReadCheckpoint(
            IF Arc.data = Arc.root
            THEN [rd EXCEPT !.pc = "stage", !.at = 1, !.staging = [k \in {} |-> <<>>]]
            ELSE ReadEnds("hash")))

\* The four loops over the entry table, and the next entry they create: of the
\* entries not yet in staging, the first of those whose loop comes first.
StageRank == [dir |-> 1, file |-> 2, hardlink |-> 3, symlink |-> 4]
Unstaged == EntryIds \ DOMAIN rd.staging
CreatedBefore(j, k) ==
    LET loop(i) == StageRank[Arc.entries[i].kind]
    IN  loop(j) < loop(k) \/ (loop(j) = loop(k) /\ j < k)
IsNext(k) == k \in Unstaged /\ \A j \in Unstaged \ {k} : CreatedBefore(k, j)

\* Staging after entry k was created with these bytes.
Staged(k, bytes) ==
    [rd EXCEPT !.staging = [j \in DOMAIN @ \cup {k} |-> IF j = k THEN bytes ELSE @[j]]]

\* A file is decoded from the payload once more.
StageFile(k) ==
    LET g == Arc.entries[k].group
        bytes == EntryBytes(Arc, k, Arc.data[g])
    IN  \E passes \in CrcPasses(Arc.data[g], Arc.groups[g].crc) :
            ReadStep("stage", ReadCheckpoint(
                IF ~passes THEN ReadEnds("crc")
                ELSE IF ~HashMatches(bytes, k) THEN ReadEnds("hash")
                ELSE Staged(k, bytes)))

\* A directory, a hard link to a file in staging or a symbolic link.
StageLink(k) ==
    ReadStep("stage", ReadCheckpoint(
        Staged(k, IF Arc.entries[k].kind = "hardlink"
                  THEN rd.staging[Arc.entries[k].target] ELSE <<>>)))

StageEntry ==
    /\ rd.pc = "stage"
    /\ \E k \in EntryIds :
        /\ IsNext(k)
        /\ IF Arc.entries[k].kind = "file" THEN StageFile(k) ELSE StageLink(k)

\* The last checkpoint of unpack.
UnpackLast ==
    /\ rd.pc = "stage" /\ Unstaged = {}
    /\ ReadStep("stage", ReadCheckpoint([rd EXCEPT !.pc = "commit"]))

\* rename of a directory succeeds on nothing and on an empty directory.
RenameSucceeds(there) == there = Nothing \/ (there.by = "other" /\ there.empty)

UnpackCommit ==
    /\ rd.op = "unpack" /\ rd.pc = "commit"
    /\ IF RenameSucceeds(output)
       THEN output' = [by |-> "unpack", tree |-> rd.staging] /\ rd' = [rd EXCEPT !.pc = "after"]
       ELSE output' = output /\ rd' = ReadEnds("io")
    /\ UNCHANGED <<packVars, damage>>

\* Mutant: the token is looked at once more.
ReturnWithCheckpoint == ReadStep("after", ReadCheckpoint(ReadEnds("ok")))

\* sync_parent or apply_file_mode, and the return.
ReadReturn == ReadStep("after", ReadEnds("ok"))

-----------------------------------------------------------------------------
Read ==
    \/ \E op \in Operations, entry \in {NoId} \cup 1 .. Len(paths), from \in 0 .. 1, len \in 1 .. 2 :
        /\ op = "unpack" => entry = NoId
        /\ op # "range" => from = 0 /\ len = 1
        /\ ReadStart(op, entry, from, len)
    \/ ReadCatalog \/ ReadFails \/ DecodeEntry \/ CheckHash \/ Emit \/ ExtractCommit
    \/ ExtractCreate \/ VerifyPayload \/ VerifyGroup \/ VerifyRoot \/ StageEntry \/ UnpackLast
    \/ UnpackCommit \/ ReadReturn

Next ==
    \/ (Pack \/ Others) /\ UNCHANGED <<output, damage, rd>>
    \/ \E g \in 1 .. Len(paths), i \in 1 .. 2, u \in Units : DamageArchive(g, i, u)
    \/ TakeOutput \/ CancelRead
    \/ Read

Spec == Init /\ [][Next]_vars

-----------------------------------------------------------------------------
(* Properties.                                                             *)

\* Every link of a file was met with the length that was then read of it.
LinksAgree ==
    \A k \in 1 .. Len(pk.files) :
        pk.files[k].kind = "file" =>
            pk.files[k].len = Len(pk.hashed[SourceOf(pk.files, k)])

\* What pack writes, the reader accepts: the tables and the payload of a spool pass
\* every check of verify_open_file but the limits, unless a file changed its length
\* between the scans of two of its links.
SpoolIsAccepted ==
    pk.pc = "verify" /\ LinksAgree => CatalogValid(pk.arc) /\ PayloadValid(pk.arc, pk.arc.data)

\* An archive that pack published passes verify, the limits included, as long as
\* nobody has damaged it.  A call that reports a refusal (cancelled, output
\* exists, input changed, a limit, a bad checksum) has published nothing; a pack
\* that succeeds has.
PublishedVerifies ==
    /\ archive.by = "pack" /\ damage = 0 => Verifies(Arc)
    /\ pk.result \notin {"none", "ok", "io"} => archive.by # "pack"
    /\ pk.result = "ok" => archive.by = "pack"
    /\ rd.result \notin {"none", "ok", "io"} => output.by \notin {"unpack", "extract"}

\* The path that was met as the j-th held `hash` at one instant, or it is a link that
\* was met before the entry `target` it is packed as a link to.
HeldOrEarly(j, e, target) ==
    \/ e.hash \in held[j]
    \/ e.kind = "hardlink" /\ \E i \in (j + 1) .. Len(paths) : paths[i].path = target.path

Snapshots(a) ==
    \A k \in 1 .. Len(a.entries) :
        LET e == a.entries[k]
        IN  \/ e.kind \notin {"file", "hardlink"}
            \/ silent > (IF a.registry = "codecs" /\ e.kind = "file" THEN 1 ELSE 0)
            \/ \E j \in 1 .. Len(paths) :
                paths[j].path = e.path /\ HeldOrEarly(j, e, a.entries[e.target])

\* A packed file holds what its path held at one instant, however its inputs are
\* written to or replaced while they are scanned and read: never the beginning
\* of one version with the end of another.  Two things escape the checks, which
\* look at the path, the length and the mtime: a write that leaves the mtime alone,
\* and another file at the path, read while it is written, before the file that was
\* scanned comes back.  One of them deceives the raw profile; the compressed
\* profile, which reads twice, needs two.  A hard link is not read: it holds what
\* its path held if it was met after the file it shares; one met before may have been
\* replaced since.
PackedIsSnapshot == archive.by = "pack" => Snapshots(Arc)

\* What entry k was when it was packed.
Original(k) ==
    IF Arc.entries[k].kind \in {"file", "hardlink"} THEN Arc.entries[k].hash ELSE <<>>

\* What is restored is what was packed.  A tree that unpack publishes has every
\* entry of the archive, even when the payload is overwritten after it was
\* verified; extract never publishes, read_range never writes and
\* extract_to_writer never reports as good any other bytes.  It has handed them to
\* its writer by then, although the format's document has the BLAKE3 validated first.
RestoredIsPacked ==
    /\ output.by = "unpack" => output.tree = [k \in EntryIds |-> Original(k)]
    /\ output.by = "extract" => output.bytes = Original(rd.entry)
    /\ rd.emitted.by = "range" =>
        rd.emitted.bytes = SubSeq(Original(rd.entry), rd.from + 1, rd.from + rd.len)
    /\ rd.emitted.by = "stream" /\ rd.result = "ok" => rd.emitted.bytes = Original(rd.entry)

\* Whatever another program puts at an output path after it was found free stays
\* there, and so does a published result; only an empty directory gives way to
\* unpack's rename.  This is what the calls do.  The documents say otherwise both ways:
\* the comment on atomic_commit, that the commit replaces its target; the repository's
\* README, that no destination is overwritten, not even that directory.
NothingReplaced ==
    [][/\ archive = Foreign => archive' = Foreign
       /\ archive.by = "pack" => archive'.by = "pack"
       /\ (output # Nothing /\ ~(output.by = "other" /\ output.empty)) => output' = output
      ]_vars
=============================================================================
