------------------------ MODULE ArchiveEngineProofs ------------------------
(***************************************************************************)
(* Proofs about ArchiveEngine, for every tree, every content, every limit  *)
(* and any amount of changes and damage: what pack publishes was verified, *)
(* what a reading call restores is what was packed, nothing that exists at *)
(* an output path is replaced, a packed file is one version of its input,  *)
(* and the reader accepts what pack writes.                                *)
(*                                                                         *)
(* The first four rest on the order of the steps: the spool is verified    *)
(* before it is published, every byte that leaves a reading call has been  *)
(* compared with the hash in the entry table, and the identity and the     *)
(* mtime of an input are compared before and after it is read.  The last   *)
(* is about what Build computes: the planner cuts the sources into groups  *)
(* without a gap (Cuts), so the offsets, the lengths and the payload of    *)
(* the groups agree with the tables that the reader checks them against.   *)
(* Its inductions are over sets of numbers (UpTo), and a fold is known by  *)
(* the equation that defines it.                                           *)
(***************************************************************************)
EXTENDS ArchiveEngine, WellFoundedInduction, FiniteSetTheorems, SequenceTheorems, TLAPS

PkFields == {"pc", "result", "profile", "pass", "at", "files", "fd", "buf", "hashed", "got",
             "arc", "cancelled"}
RdFields == {"pc", "result", "op", "entry", "from", "len", "at", "buf", "staging", "emitted",
             "cancelled"}
ArcFields == {"registry", "total", "entries", "groups", "restore", "payload", "root", "data"}

\* The results with which a call says that it published nothing.
Refused(result) == result \notin {"none", "ok", "io"}

\* What the records of the state look like.
Shapes ==
    /\ DOMAIN pk = PkFields
    /\ DOMAIN rd = RdFields
    /\ damage \in Nat
    /\ \/ archive = Nothing
       \/ archive = Foreign
       \/ /\ archive.by = "pack" /\ archive = [by |-> "pack", arc |-> archive.arc]
          /\ DOMAIN archive.arc = ArcFields
    /\ \/ output = Nothing
       \/ output.by = "other" /\ output = [by |-> "other", empty |-> output.empty]
       \/ output.by = "extract" /\ output = [by |-> "extract", bytes |-> output.bytes]
       \/ output.by = "unpack" /\ output = [by |-> "unpack", tree |-> output.tree]

\* pack: the spool is verified before it is published, and the reading call,
\* the damage and the output come after pack.
PackInv ==
    /\ pk.pc # "done" => pk.result = "none"
    /\ pk.pc \in {"verify", "last", "commit"} => DOMAIN pk.arc = ArcFields
    /\ pk.pc \in {"last", "commit"} => Verifies(pk.arc)
    /\ pk.pc = "sync" => archive.by = "pack"
    /\ archive.by = "pack" => pk.pc \in {"sync", "done"}
    /\ (archive.by = "pack" /\ damage = 0) => Verifies(Arc)
    /\ Refused(pk.result) => archive.by # "pack"
    /\ pk.result = "ok" => archive.by = "pack"
    /\ (rd.pc # "start" \/ output # Nothing \/ damage # 0) => PackOver

\* The reading call: which operation is where, and when its output is there.
CallInv ==
    /\ rd.pc # "done" => rd.result = "none"
    /\ rd.pc = "catalog" => rd.op \in Operations
    /\ rd.pc \in {"payload", "groups", "stage"} => rd.op = "unpack"
    /\ rd.pc \in {"decode", "hash", "emit"} => rd.op \in {"extract", "stream", "range"}
    /\ rd.pc = "create" => rd.op = "extract"
    /\ rd.pc = "commit" => rd.op \in {"unpack", "extract"}
    /\ rd.pc = "after" => output.by \in {"unpack", "extract"}
    /\ output.by \in {"unpack", "extract"} => (rd.pc \in {"after", "done"} /\ rd.op = output.by)
    /\ Refused(rd.result) => output.by \notin {"unpack", "extract"}
    /\ \/ rd.emitted = Nothing
       \/ /\ rd.emitted.by = "range" /\ rd.emitted = [by |-> "range", bytes |-> rd.emitted.bytes]
          /\ rd.op = "range" /\ rd.pc = "done"
       \/ /\ rd.emitted.by = "stream" /\ rd.emitted = [by |-> "stream", bytes |-> rd.emitted.bytes]
          /\ rd.op = "stream" /\ rd.pc \in {"hash", "done"}

\* The entry table is one that read_catalog accepted: a hard link leads to an
\* earlier file with the same hash.
Linked ==
    \A k \in EntryIds :
        /\ Arc.entries[k].kind \in {"dir", "file", "hardlink", "symlink"}
        /\ Arc.entries[k].kind = "hardlink" =>
            /\ Arc.entries[k].target \in EntryIds
            /\ Arc.entries[Arc.entries[k].target].kind = "file"
            /\ Arc.entries[Arc.entries[k].target].hash = Arc.entries[k].hash

IsFile(k) == Arc.entries[k].kind \in {"file", "hardlink"}

\* The data on its way: what is in staging, in the buffer and with the writer.
DataInv ==
    /\ rd.pc \in {"payload", "groups", "stage", "decode", "hash", "emit"} => Linked
    /\ rd.pc \in {"decode", "hash", "emit", "create"} => rd.entry \in EntryIds
    /\ rd.pc \in {"decode", "hash", "emit"} => IsFile(rd.entry)
    /\ rd.pc = "create" => ~IsFile(rd.entry)
    /\ ((rd.pc = "emit" /\ rd.op = "range") \/ (rd.pc = "commit" /\ rd.op = "extract")) =>
            rd.buf = Original(rd.entry)
    /\ (rd.pc = "hash" /\ rd.op = "stream") => rd.emitted = [by |-> "stream", bytes |-> rd.buf]
    /\ (rd.pc = "stage" \/ (rd.pc = "commit" /\ rd.op = "unpack")) =>
            /\ DOMAIN rd.staging \subseteq EntryIds
            /\ rd.staging = [j \in DOMAIN rd.staging |-> Original(j)]
    /\ (rd.pc = "commit" /\ rd.op = "unpack") => DOMAIN rd.staging = EntryIds
    /\ RestoredIsPacked

EngineInv == Shapes /\ PackInv /\ CallInv /\ DataInv

-----------------------------------------------------------------------------
(* pack and the programs beside it.                                        *)

PackFrame == UNCHANGED <<output, damage, rd>>

\* Nothing that has to do with pack happens once it is over.
LEMMA PackIsBusy == ASSUME Pack \/ Others PROVE pk.pc # "done"
<1>1. ASSUME Pack PROVE pk.pc # "done"
  BY <1>1 DEF Pack, PackStep, PackStart, ScanNode, ScanLimit, ScanDone, PassEntry, CheckInput,
     OpenInput, ReadInput, CloseInput, EndPass, BuildArchive, BuildLimit, VerifySpool, PackLast,
     PackCommit, PackReturn, PackFails
<1>2. ASSUME Others PROVE pk.pc # "done"
  BY <1>2 DEF Others, WriteInput, ReplaceInput, ReturnInput, Reading, TakeArchive, CancelPack
<1>. QED BY <1>1, <1>2, SMTT(40)

\* Where a step of pack may lead when it does not publish.
PackGoesOn ==
    /\ archive' = archive
    /\ DOMAIN pk' = PkFields
    /\ pk'.result = "none"
    /\ pk'.pc \in {"scan", "check", "open", "read", "recheck", "build", "verify", "last", "commit"}
    /\ pk'.pc \in {"verify", "last", "commit"} => DOMAIN pk'.arc = ArcFields
    /\ pk'.pc \in {"last", "commit"} => Verifies(pk'.arc)

PackStops ==
    /\ archive' = archive
    /\ \E r : pk' = PackEnds(r) /\ (r = "ok" => pk.pc = "sync") /\ (pk.pc = "sync" => r \in {"ok", "io"})
              /\ r # "none"

LEMMA GoesOnKeeps ==
    ASSUME Shapes, PackInv, PackFrame, PackGoesOn, pk.pc \notin {"sync", "done"}
    PROVE  Shapes' /\ PackInv'
<1>1. archive.by # "pack" /\ rd.pc = "start" /\ output = Nothing /\ damage = 0
  BY DEF PackInv, PackOver
<1>2. Shapes'
  BY DEF Shapes, PackGoesOn, PackFrame
<1>3. PackInv'
  BY <1>1 DEF PackInv, PackGoesOn, PackFrame, Refused, PackOver, Nothing, Arc
<1>. QED BY <1>2, <1>3

LEMMA StopsKeeps ==
    ASSUME Shapes, PackInv, PackFrame, PackStops, pk.pc # "done"
    PROVE  Shapes' /\ PackInv'
<1>1. rd.pc = "start" /\ output = Nothing /\ damage = 0
  BY DEF PackInv, PackOver
<1>2. PICK r : /\ pk' = PackEnds(r) /\ (r = "ok" => pk.pc = "sync")
               /\ (pk.pc = "sync" => r \in {"ok", "io"}) /\ r # "none"
  BY DEF PackStops
<1>3. DOMAIN pk' = PkFields /\ pk'.pc = "done" /\ pk'.result = r
  BY <1>2 DEF PackEnds, Shapes, PkFields
<1>4. archive' = archive BY DEF PackStops
<1>5. Shapes'
  BY <1>3, <1>4 DEF Shapes, PackFrame
<1>6. PackInv'
  BY <1>1, <1>2, <1>3, <1>4 DEF PackInv, PackFrame, Refused, PackOver, Nothing, Arc
<1>. QED BY <1>5, <1>6

LEMMA BuildFields ==
    ASSUME NEW p, NEW f, NEW h, NEW g PROVE DOMAIN Build(p, f, h, g) = ArcFields
BY DEF Build, ArcFields

\* The steps of pack that do not publish.
LEMMA PackStepsMove ==
    ASSUME Shapes, PackInv,
           \/ PackStart \/ ScanNode \/ ScanLimit \/ ScanDone \/ PassEntry \/ CheckInput
           \/ OpenInput \/ ReadInput \/ CloseInput \/ EndPass \/ BuildArchive \/ BuildLimit
           \/ VerifySpool \/ PackLast \/ PackReturn \/ PackFails
    PROVE  PackStops \/ (PackGoesOn /\ pk.pc # "sync")
<1>. USE DEF PackStep, PackCheckpoint
<1>1. ASSUME NEW r, r # "none", r # "ok", pk.pc # "sync", archive' = archive, pk' = PackEnds(r)
      PROVE  PackStops
  BY <1>1 DEF PackStops
<1>2. ASSUME PackStart PROVE PackStops \/ (PackGoesOn /\ pk.pc # "sync")
  BY <1>1, <1>2 DEF PackStart, PackGoesOn, Shapes, PackInv, PkFields
<1>3. ASSUME ScanNode PROVE PackStops \/ (PackGoesOn /\ pk.pc # "sync")
  BY <1>1, <1>3 DEF ScanNode, PackGoesOn, Shapes, PackInv, PkFields
<1>4. ASSUME ScanLimit PROVE PackStops
  BY <1>1, <1>4 DEF ScanLimit
<1>5. ASSUME ScanDone PROVE PackStops \/ (PackGoesOn /\ pk.pc # "sync")
  BY <1>1, <1>5 DEF ScanDone, PackGoesOn, Shapes, PackInv, PkFields
<1>6. ASSUME PassEntry PROVE PackStops \/ (PackGoesOn /\ pk.pc # "sync")
  BY <1>1, <1>6 DEF PassEntry, PackGoesOn, Shapes, PackInv, PkFields
<1>7. ASSUME CheckInput PROVE PackStops \/ (PackGoesOn /\ pk.pc # "sync")
  BY <1>1, <1>7 DEF CheckInput, PackGoesOn, Shapes, PackInv, PkFields
<1>8. ASSUME OpenInput PROVE PackStops \/ (PackGoesOn /\ pk.pc # "sync")
  BY <1>8 DEF OpenInput, PackGoesOn, Shapes, PackInv, PkFields
<1>9. ASSUME ReadInput PROVE PackStops \/ (PackGoesOn /\ pk.pc # "sync")
  BY <1>1, <1>9 DEF ReadInput, PackGoesOn, Shapes, PackInv, PkFields
<1>10. ASSUME CloseInput PROVE PackStops \/ (PackGoesOn /\ pk.pc # "sync")
  BY <1>1, <1>10 DEF CloseInput, PackGoesOn, Shapes, PackInv, PkFields
<1>11. ASSUME EndPass PROVE PackStops \/ (PackGoesOn /\ pk.pc # "sync")
  BY <1>11 DEF EndPass, PackGoesOn, Shapes, PackInv, PkFields
<1>12. ASSUME BuildArchive PROVE PackStops \/ (PackGoesOn /\ pk.pc # "sync")
  BY <1>1, <1>12, BuildFields DEF BuildArchive, PackGoesOn, Shapes, PackInv, PkFields
<1>13. ASSUME BuildLimit PROVE PackStops
  BY <1>1, <1>13 DEF BuildLimit
<1>14. ASSUME VerifySpool PROVE PackStops \/ (PackGoesOn /\ pk.pc # "sync")
  BY <1>1, <1>14 DEF VerifySpool, SpoolVerifies, PackGoesOn, Shapes, PackInv, PkFields
<1>15. ASSUME PackLast PROVE PackStops \/ (PackGoesOn /\ pk.pc # "sync")
  BY <1>1, <1>15 DEF PackLast, PackGoesOn, Shapes, PackInv, PkFields
<1>16. ASSUME PackReturn PROVE PackStops
  BY <1>16 DEF PackReturn, PackStops
<1>17. ASSUME PackFails PROVE PackStops
  BY <1>17 DEF PackFails, PackStops
<1>. QED BY <1>2, <1>3, <1>4, <1>5, <1>6, <1>7, <1>8, <1>9, <1>10, <1>11, <1>12, <1>13, <1>14,
            <1>15, <1>16, <1>17

\* The rename: what appears under the name is the spool that was verified.
LEMMA CommitKeeps ==
    ASSUME Shapes, PackInv, PackFrame, PackCommit
    PROVE  Shapes' /\ PackInv'
<1>. DEFINE mine == [by |-> "pack", arc |-> pk.arc]
<1>1. /\ pk.pc = "commit" /\ DOMAIN pk.arc = ArcFields /\ Verifies(pk.arc) /\ pk.result = "none"
      /\ archive.by # "pack" /\ rd.pc = "start" /\ output = Nothing /\ damage = 0
  BY DEF PackCommit, PackInv, PackOver
<1>2. CASE archive = Nothing
  <2>1. archive' = mine /\ pk' = [pk EXCEPT !.pc = "sync"]
    BY <1>2 DEF PackCommit, PersistNoclobber
  <2>2. archive'.by = "pack" /\ archive'.arc = pk.arc
    BY <2>1
  <2>3. DOMAIN pk' = PkFields /\ pk'.pc = "sync" /\ pk'.result = "none"
    BY <1>1, <2>1 DEF Shapes, PkFields
  <2>4. Shapes'
    <3>1. archive' = [by |-> "pack", arc |-> archive'.arc] /\ DOMAIN archive'.arc = ArcFields
      BY <1>1, <2>1, <2>2
    <3>. QED BY <3>1, <2>2, <2>3 DEF Shapes, PackFrame
  <2>5. PackInv'
    BY <1>1, <2>2, <2>3 DEF PackInv, PackFrame, Refused, PackOver, Arc
  <2>. QED BY <2>4, <2>5
<1>3. CASE archive # Nothing
  <2>1. archive' = archive /\ pk' = PackEnds("exists")
    BY <1>1, <1>3 DEF PackCommit, PersistNoclobber
  <2>2. PackStops
    BY <1>1, <2>1 DEF PackStops
  <2>. QED BY <1>1, <2>2, StopsKeeps
<1>. QED BY <1>2, <1>3

LEMMA OthersKeep ==
    ASSUME Shapes, PackInv, PackFrame, Others
    PROVE  Shapes' /\ PackInv'
<1>1. rd.pc = "start" /\ output = Nothing /\ damage = 0 /\ pk.pc # "done"
  BY PackIsBusy DEF PackInv, PackOver
<1>2. CASE UNCHANGED <<archive, pk>>
  BY <1>1, <1>2 DEF Shapes, PackInv, PackFrame, PackOver, Arc
<1>3. CASE TakeArchive
  BY <1>1, <1>3 DEF TakeArchive, Shapes, PackInv, PackFrame, PackOver, Foreign, Nothing, Refused
<1>4. CASE CancelPack
  <2>1. /\ DOMAIN pk' = PkFields /\ pk'.pc = pk.pc /\ pk'.result = pk.result /\ pk'.arc = pk.arc
        /\ archive' = archive
    BY <1>4 DEF CancelPack, Shapes, PkFields
  <2>. QED BY <1>1, <2>1 DEF Shapes, PackInv, PackFrame, PackOver, Arc
<1>. QED BY <1>2, <1>3, <1>4 DEF Others, WriteInput, ReplaceInput, ReturnInput

LEMMA PackKeeps ==
    ASSUME Shapes, PackInv, PackFrame, Pack \/ Others
    PROVE  Shapes' /\ PackInv' /\ rd.pc = "start" /\ output = Nothing
<1>1. pk.pc # "done" /\ rd.pc = "start" /\ output = Nothing
  BY PackIsBusy DEF PackInv, PackOver
<1>2. CASE PackCommit
  BY <1>1, <1>2, CommitKeeps
<1>3. CASE Others
  BY <1>1, <1>3, OthersKeep
<1>4. CASE Pack /\ ~PackCommit
  <2>1. PackStops \/ (PackGoesOn /\ pk.pc # "sync")
    BY <1>4, PackStepsMove DEF Pack
  <2>. QED BY <1>1, <2>1, StopsKeeps, GoesOnKeeps
<1>. QED BY <1>2, <1>3, <1>4

-----------------------------------------------------------------------------
(* The reading call: what its steps have in common.                        *)

\* The entry table stays as it is.
SameTable == archive'.arc.entries = archive.arc.entries

LEMMA TableKept ==
    ASSUME SameTable
    PROVE  /\ EntryIds' = EntryIds
           /\ Linked <=> Linked'
           /\ \A k : Original(k)' = Original(k)
           /\ \A k : IsFile(k)' <=> IsFile(k)
<1>1. EntryIds' = EntryIds
  BY DEF SameTable, EntryIds, Arc
<1>2. Linked <=> Linked'
  BY <1>1 DEF SameTable, Linked, Arc
<1>3. \A k : Original(k)' = Original(k)
  BY DEF SameTable, Original, Arc
<1>4. \A k : IsFile(k)' <=> IsFile(k)
  BY DEF SameTable, IsFile, Arc
<1>. QED BY <1>1, <1>2, <1>3, <1>4

\* A step of the call that publishes nothing: pack, the archive and the output
\* are left alone.
ReadFrame == PackOver /\ UNCHANGED <<packVars, output, damage>>

\* What a reading call leaves alone of pack's invariant.
LEMMA PackInvKept ==
    ASSUME PackInv, PackOver, UNCHANGED <<packVars, damage>>
    PROVE  PackInv'
BY DEF PackInv, PackOver, packVars, inputVars, Refused, Arc

\* The call returns, and its result is a true one.
LEMMA EndsKeep ==
    ASSUME EngineInv, ReadFrame, NEW r, rd' = ReadEnds(r), rd.pc # "done", r # "none",
           Refused(r) => rd.pc # "after",
           (r = "ok" /\ rd.emitted.by = "stream") => rd.emitted.bytes = Original(rd.entry)
    PROVE  EngineInv'
<1>1. /\ DOMAIN rd' = RdFields /\ rd'.pc = "done" /\ rd'.result = r /\ rd'.op = rd.op
      /\ rd'.entry = rd.entry /\ rd'.from = rd.from /\ rd'.len = rd.len
      /\ rd'.emitted = rd.emitted
  BY DEF EngineInv, Shapes, ReadEnds, RdFields
<1>2. archive' = archive /\ output' = output /\ damage' = damage /\ pk' = pk
  BY DEF ReadFrame, packVars
<1>3. SameTable
  BY <1>2 DEF SameTable
<1>4. Shapes'
  BY <1>1, <1>2 DEF EngineInv, Shapes
<1>5. PackInv'
  BY PackInvKept DEF EngineInv, ReadFrame
<1>6. CallInv'
  BY <1>1, <1>2 DEF EngineInv, CallInv, Refused
<1>7. RestoredIsPacked'
  BY <1>1, <1>2, <1>3, TableKept DEF EngineInv, DataInv, RestoredIsPacked
<1>8. DataInv'
  BY <1>1, <1>7 DEF DataInv
<1>. QED BY <1>4, <1>5, <1>6, <1>8 DEF EngineInv

\* The call goes on, and nothing has been published yet.
GoesOn ==
    /\ DOMAIN rd' = RdFields
    /\ rd'.result = "none" /\ rd'.op = rd.op /\ rd'.entry = rd.entry
    /\ rd'.from = rd.from /\ rd'.len = rd.len

LEMMA GoesOnShape ==
    ASSUME EngineInv, ReadFrame, GoesOn
    PROVE  Shapes' /\ PackInv' /\ SameTable /\ output' = output
<1>1. archive' = archive /\ output' = output /\ damage' = damage /\ pk' = pk
  BY DEF ReadFrame, packVars
<1>2. Shapes'
  BY <1>1 DEF EngineInv, Shapes, GoesOn
<1>3. PackInv'
  BY PackInvKept DEF EngineInv, ReadFrame
<1>. QED BY <1>1, <1>2, <1>3 DEF SameTable

\* A step from a place where nothing was published or written to such a place.
LEMMA BetweenKeeps ==
    ASSUME EngineInv, ReadFrame, GoesOn, rd.pc \notin {"after", "done"},
           rd'.emitted = Nothing,
           rd'.pc \notin {"start", "catalog", "after", "done"},
           rd'.pc \in {"payload", "groups", "stage"} => rd.op = "unpack",
           rd'.pc \in {"decode", "hash", "emit"} => rd.op \in {"extract", "stream", "range"},
           rd'.pc = "create" => rd.op = "extract",
           rd'.pc = "commit" => rd.op \in {"unpack", "extract"}
    PROVE  CallInv' /\ RestoredIsPacked'
<1>1. output.by \notin {"unpack", "extract"} /\ output' = output
  BY GoesOnShape DEF EngineInv, CallInv
<1>2. CallInv'
  BY <1>1 DEF CallInv, GoesOn, Refused
<1>3. RestoredIsPacked'
  BY <1>1 DEF RestoredIsPacked, Nothing
<1>. QED BY <1>2, <1>3

LEMMA StartKeeps ==
    ASSUME EngineInv, NEW op \in Operations, NEW entry, NEW from, NEW len,
           ReadStart(op, entry, from, len)
    PROVE  EngineInv'
<1>. DEFINE call == [rd EXCEPT !.op = op, !.entry = entry, !.from = from, !.len = len]
<1>1. ReadFrame /\ rd.pc = "start"
  BY DEF ReadStart, ReadStep, ReadFrame
<1>2. CASE \E r \in {"cancelled", "limit", "exists", "io"} : rd' = ReadEnds(r)
  BY <1>1, <1>2, EndsKeep
<1>3. CASE rd' = [call EXCEPT !.pc = "catalog"]
  <2>1. /\ DOMAIN rd' = RdFields /\ rd'.pc = "catalog" /\ rd'.op = op
        /\ rd'.result = rd.result /\ rd'.emitted = rd.emitted
    BY <1>3 DEF EngineInv, Shapes, RdFields
  <2>2. archive' = archive /\ output' = output /\ damage' = damage /\ pk' = pk
    BY <1>1 DEF ReadFrame, packVars
  <2>3. /\ rd.result = "none" /\ rd.emitted = Nothing /\ output.by \notin {"unpack", "extract"}
    BY <1>1 DEF EngineInv, CallInv
  <2>4. Shapes'
    BY <2>1, <2>2 DEF EngineInv, Shapes
  <2>5. PackInv'
    BY <1>1, PackInvKept DEF EngineInv, ReadFrame
  <2>6. CallInv'
    BY <2>1, <2>2, <2>3 DEF CallInv, Refused
  <2>7. RestoredIsPacked'
    BY <2>1, <2>2, <2>3 DEF RestoredIsPacked, Nothing
  <2>8. DataInv'
    BY <2>1, <2>7 DEF DataInv
  <2>. QED BY <2>4, <2>5, <2>6, <2>8 DEF EngineInv
<1>. QED BY <1>2, <1>3 DEF ReadStart, ReadStep, ReadCheckpoint

\* What read_catalog accepts has its hard links in order.
LEMMA AcceptedIsLinked == ASSUME CatalogValid(Arc) PROVE Linked
BY DEF CatalogValid, EntriesValid, EntryIds, Linked

LEMMA CatalogKeeps == ASSUME EngineInv, ReadCatalog PROVE EngineInv'
<1>1. ReadFrame /\ rd.pc = "catalog"
  BY DEF ReadCatalog, ReadStep, ReadFrame
<1>2. /\ rd.result = "none" /\ rd.emitted = Nothing
  BY <1>1 DEF EngineInv, CallInv
<1>3. CASE \E r \in {"cancelled", "invalid", "not found", "exists", "range"} : rd' = ReadEnds(r)
  BY <1>1, <1>2, <1>3, EndsKeep
<1>4. CASE ~\E r \in {"cancelled", "invalid", "not found", "exists", "range"} : rd' = ReadEnds(r)
  <2>. DEFINE places == {"payload", "decode", "create"}
  <2>1. /\ CatalogValid(Arc)
        /\ \E p \in places : /\ rd' = [rd EXCEPT !.pc = p]
                             /\ p = "payload" => rd.op = "unpack"
                             /\ p # "payload" => (rd.op # "unpack" /\ rd.entry \in EntryIds)
                             /\ p = "create" => (rd.op = "extract" /\ ~IsFile(rd.entry))
                             /\ p = "decode" => IsFile(rd.entry)
    <3>1. rd' = AfterCatalog
      BY <1>4 DEF ReadCatalog, ReadStep, ReadCheckpoint
    <3>2. archive.by = "pack" /\ CatalogValid(Arc) /\ WithinLimits(Arc)
      BY <1>4, <3>1 DEF AfterCatalog
    <3>3. CASE rd.op = "unpack"
      <4>1. rd' = [rd EXCEPT !.pc = "payload"]
        BY <3>1, <3>2, <3>3 DEF AfterCatalog
      <4>. QED BY <3>2, <3>3, <4>1
    <3>4. CASE rd.op # "unpack"
      <4>1. rd.entry \in EntryIds
        BY <1>4, <3>1, <3>2, <3>4 DEF AfterCatalog
      <4>2. CASE rd.op = "extract"
        <5>1. /\ IsFile(rd.entry) => rd' = [rd EXCEPT !.pc = "decode"]
              /\ ~IsFile(rd.entry) => rd' = [rd EXCEPT !.pc = "create"]
          BY <1>4, <3>1, <3>2, <3>4, <4>1, <4>2 DEF AfterCatalog, IsFile
        <5>. QED BY <3>2, <3>4, <4>1, <4>2, <5>1
      <4>3. CASE rd.op # "extract"
        <5>1. IsFile(rd.entry) /\ rd' = [rd EXCEPT !.pc = "decode"]
          BY <1>4, <3>1, <3>2, <3>4, <4>1, <4>3 DEF AfterCatalog, IsFile
        <5>. QED BY <3>2, <3>4, <4>1, <5>1
      <4>. QED BY <4>2, <4>3
    <3>. QED BY <3>3, <3>4
  <2>2. PICK p \in places : /\ rd' = [rd EXCEPT !.pc = p]
                            /\ p = "payload" => rd.op = "unpack"
                            /\ p # "payload" => (rd.op # "unpack" /\ rd.entry \in EntryIds)
                            /\ p = "create" => (rd.op = "extract" /\ ~IsFile(rd.entry))
                            /\ p = "decode" => IsFile(rd.entry)
    BY <2>1
  <2>3. GoesOn /\ rd'.pc = p /\ rd'.emitted = Nothing
    BY <1>2, <2>2 DEF GoesOn, EngineInv, Shapes, RdFields
  <2>4. SameTable /\ Shapes' /\ PackInv'
    BY <1>1, <2>3, GoesOnShape

  <2>5. Linked'
    BY <2>1, <2>4, AcceptedIsLinked, TableKept
  <2>6. rd.op \in Operations
    BY <1>1 DEF EngineInv, CallInv
  <2>7. CallInv' /\ RestoredIsPacked'
    BY <1>1, <2>2, <2>3, <2>6, BetweenKeeps DEF Operations
  <2>8. /\ rd'.op = rd.op
        /\ rd'.pc \in {"decode", "create"} => rd'.entry \in EntryIds'
        /\ rd'.pc = "decode" => IsFile(rd.entry)'
        /\ rd'.pc = "create" => ~IsFile(rd.entry)'
    BY <2>2, <2>3, <2>4, TableKept DEF GoesOn
  <2>9. DataInv'
    BY <2>3, <2>5, <2>7, <2>8 DEF DataInv
  <2>. QED BY <2>4, <2>7, <2>9 DEF EngineInv
<1>. QED BY <1>3, <1>4

\* An I/O error ends the call.
LEMMA FailsKeeps == ASSUME EngineInv, ReadFails PROVE EngineInv'
<1>1. ReadFrame /\ rd.pc # "done" /\ rd' = ReadEnds("io")
  BY DEF ReadFails, ReadStep, ReadFrame
<1>. QED BY <1>1, EndsKeep DEF Refused

-----------------------------------------------------------------------------
(* extract, extract_to_writer and read_range.                              *)

\* A hard link and the file it leads to have one hash.
LEMMA SourceHash ==
    ASSUME Linked, rd.entry \in EntryIds, IsFile(rd.entry)
    PROVE  Arc.entries[Source].hash = Original(rd.entry)
BY DEF Linked, IsFile, Source, FileSourceEntry, Original

LEMMA DecodeKeeps == ASSUME EngineInv, DecodeEntry PROVE EngineInv'
<1>1. ReadFrame /\ rd.pc = "decode"
  BY DEF DecodeEntry, ReadStep, ReadFrame
<1>2. rd.emitted = Nothing /\ rd.result = "none" /\ rd.op \in {"extract", "stream", "range"}
  BY <1>1 DEF EngineInv, CallInv
<1>3. CASE \E r \in {"cancelled", "crc"} : rd' = ReadEnds(r)
  BY <1>1, <1>2, <1>3, EndsKeep
<1>4. CASE ~\E r \in {"cancelled", "crc"} : rd' = ReadEnds(r)
  <2>1. PICK b, p : /\ rd' = [rd EXCEPT !.buf = b, !.pc = p]
                    /\ p = IF rd.op = "stream" THEN "emit" ELSE "hash"
    BY <1>4 DEF DecodeEntry, ReadStep, ReadCheckpoint
  <2>2. GoesOn /\ rd'.pc = p /\ rd'.emitted = Nothing
    BY <1>2, <2>1 DEF GoesOn, EngineInv, Shapes, RdFields
  <2>3. SameTable /\ Shapes' /\ PackInv'
    BY <1>1, <2>2, GoesOnShape
  <2>4. CallInv' /\ RestoredIsPacked'
    BY <1>1, <1>2, <2>1, <2>2, BetweenKeeps
  <2>5. Linked' /\ rd'.entry \in EntryIds' /\ IsFile(rd.entry)' /\ rd'.op = rd.op
    BY <1>1, <2>2, <2>3, TableKept DEF EngineInv, DataInv, GoesOn
  <2>6. DataInv'
    BY <2>1, <2>2, <2>4, <2>5 DEF DataInv
  <2>. QED BY <2>3, <2>4, <2>6 DEF EngineInv
<1>. QED BY <1>3, <1>4

LEMMA HashKeeps == ASSUME EngineInv, CheckHash PROVE EngineInv'
<1>1. ReadFrame /\ rd.pc = "hash"
  BY DEF CheckHash, ReadStep, ReadFrame
<1>2. /\ rd.result = "none" /\ rd.op \in {"extract", "stream", "range"}
      /\ rd.op = "stream" => rd.emitted = [by |-> "stream", bytes |-> rd.buf]
      /\ rd.op # "stream" => rd.emitted = Nothing
  BY <1>1 DEF EngineInv, CallInv, DataInv
<1>3. Linked /\ rd.entry \in EntryIds /\ IsFile(rd.entry)
  BY <1>1 DEF EngineInv, DataInv
<1>4. CASE \E r \in {"cancelled", "hash"} : rd' = ReadEnds(r)
  BY <1>1, <1>4, EndsKeep
<1>5. CASE ~\E r \in {"cancelled", "hash"} : rd' = ReadEnds(r)
  <2>1. rd.buf = Original(rd.entry)
    <3>1. HashMatches(rd.buf, Source)
      BY <1>5 DEF CheckHash, ReadStep
    <3>. QED BY <1>3, <3>1, SourceHash DEF HashMatches
  <2>2. CASE rd.op = "stream"
    <3>1. rd' = ReadEnds("ok")
      BY <1>5, <2>2 DEF CheckHash, ReadStep
    <3>2. rd.emitted.bytes = Original(rd.entry)
      BY <1>2, <2>1, <2>2
    <3>. QED BY <1>1, <3>1, <3>2, EndsKeep DEF Refused
  <2>3. CASE rd.op # "stream"
    <3>1. PICK p : /\ rd' = [rd EXCEPT !.pc = p]
                   /\ p = IF rd.op = "range" THEN "emit" ELSE "commit"
      BY <1>5, <2>3 DEF CheckHash, ReadStep, ReadCheckpoint
    <3>2. GoesOn /\ rd'.pc = p /\ rd'.emitted = Nothing /\ rd'.buf = rd.buf
      BY <1>2, <2>3, <3>1 DEF GoesOn, EngineInv, Shapes, RdFields
    <3>3. SameTable /\ Shapes' /\ PackInv'
      BY <1>1, <3>2, GoesOnShape
    <3>4. CallInv' /\ RestoredIsPacked'
      BY <1>1, <1>2, <2>3, <3>1, <3>2, BetweenKeeps
    <3>5. /\ Linked' /\ rd'.entry \in EntryIds' /\ IsFile(rd.entry)' /\ rd'.op = rd.op
          /\ rd'.entry = rd.entry /\ Original(rd.entry)' = Original(rd.entry)
      BY <1>3, <3>2, <3>3, TableKept DEF GoesOn
    <3>6. rd'.buf = Original(rd.entry)'
      BY <2>1, <3>2, <3>5
    <3>7. DataInv'
      BY <1>2, <2>3, <3>1, <3>2, <3>4, <3>5, <3>6 DEF DataInv
    <3>. QED BY <3>3, <3>4, <3>7 DEF EngineInv
  <2>. QED BY <2>2, <2>3
<1>. QED BY <1>4, <1>5

\* read_range writes what it has compared; extract_to_writer writes first.
LEMMA EmitKeeps == ASSUME EngineInv, Emit PROVE EngineInv'
<1>1. ReadFrame /\ rd.pc = "emit" /\ rd.op \in {"range", "stream"}
  BY DEF Emit, ReadStep, ReadFrame
<1>2. /\ rd.emitted = Nothing /\ rd.result = "none"
      /\ output.by \notin {"unpack", "extract"} /\ output' = output /\ archive' = archive
      /\ damage' = damage /\ pk' = pk
  BY <1>1 DEF EngineInv, CallInv, ReadFrame, packVars
<1>3. SameTable /\ PackInv'
  BY <1>1, <1>2, PackInvKept DEF SameTable, EngineInv, ReadFrame
<1>4. CASE rd.op = "range"
  <2>0. PICK bytes : bytes = SubSeq(rd.buf, rd.from + 1, rd.from + rd.len)
    OBVIOUS
  <2>1. rd' = [ReadEnds("ok") EXCEPT !.emitted = [by |-> "range", bytes |-> bytes]]
    BY <1>4, <2>0 DEF Emit, ReadStep
  <2>2. /\ DOMAIN rd' = RdFields /\ rd'.pc = "done" /\ rd'.result = "ok" /\ rd'.op = "range"
        /\ rd'.entry = rd.entry /\ rd'.from = rd.from /\ rd'.len = rd.len
        /\ rd'.emitted = [by |-> "range", bytes |-> bytes]
    BY <1>4, <2>1 DEF ReadEnds, EngineInv, Shapes, RdFields
  <2>3. rd.buf = Original(rd.entry)
    BY <1>1, <1>4 DEF EngineInv, DataInv
  <2>4. Original(rd.entry)' = Original(rd.entry)
    BY <1>3, <2>2, TableKept
  <2>5. rd'.emitted.by = "range" /\ rd'.emitted.bytes = bytes
    BY <2>2
  <2>6. Shapes'
    BY <1>2, <2>2 DEF EngineInv, Shapes
  <2>7. CallInv'
    <3>1. rd'.emitted = [by |-> "range", bytes |-> rd'.emitted.bytes]
      BY <2>2, <2>5
    <3>. QED BY <1>2, <2>2, <2>5, <3>1 DEF CallInv, Refused
  <2>8. RestoredIsPacked'
    <3>1. rd'.emitted.bytes = SubSeq(Original(rd.entry)', rd'.from + 1, rd'.from + rd'.len)
      BY <2>0, <2>2, <2>3, <2>4, <2>5
    <3>. QED BY <1>2, <2>5, <3>1 DEF RestoredIsPacked
  <2>9. DataInv'
    BY <2>2, <2>8 DEF DataInv
  <2>. QED BY <1>3, <2>6, <2>7, <2>9 DEF EngineInv
<1>5. CASE rd.op = "stream"
  <2>1. rd' = [rd EXCEPT !.pc = "hash", !.emitted = [by |-> "stream", bytes |-> rd.buf]]
    BY <1>5 DEF Emit, ReadStep
  <2>2. /\ GoesOn /\ rd'.pc = "hash" /\ rd'.buf = rd.buf
        /\ rd'.emitted = [by |-> "stream", bytes |-> rd.buf]
    BY <1>2, <2>1 DEF GoesOn, EngineInv, Shapes, RdFields
  <2>3. Shapes'
    BY <1>1, <2>2, GoesOnShape
  <2>4. rd'.emitted.by = "stream" /\ rd'.emitted = [by |-> "stream", bytes |-> rd'.emitted.bytes]
    BY <2>2
  <2>5. rd'.op = "stream" /\ rd'.entry = rd.entry /\ rd'.result = "none"
    BY <1>5, <2>2 DEF GoesOn
  <2>6. CallInv'
    BY <1>2, <2>2, <2>4, <2>5 DEF CallInv, Refused
  <2>7. RestoredIsPacked'
    BY <1>2, <2>4, <2>5 DEF RestoredIsPacked
  <2>8. Linked' /\ rd'.entry \in EntryIds' /\ IsFile(rd.entry)'
    BY <1>1, <1>3, <2>5, TableKept DEF EngineInv, DataInv
  <2>9. DataInv'
    BY <2>2, <2>5, <2>7, <2>8 DEF DataInv
  <2>. QED BY <1>3, <2>3, <2>6, <2>9 DEF EngineInv
<1>. QED BY <1>1, <1>4, <1>5

\* The output appears: with it the invariant about the rest of the state.
LEMMA PublishKeeps ==
    ASSUME EngineInv, PackOver, UNCHANGED <<packVars, damage>>,
           rd.pc \notin {"after", "done"}, rd.emitted = Nothing,
           DOMAIN rd' = RdFields, rd'.emitted = Nothing, rd'.op = rd.op, rd'.entry = rd.entry,
           \/ rd'.pc = "after" /\ rd'.result = "none"
           \/ rd'.pc = "done" /\ rd'.result = "ok",
           \/ /\ rd.op = "extract"
              /\ output' = [by |-> "extract", bytes |-> Original(rd.entry)]
           \/ /\ rd.op = "unpack"
              /\ output' = [by |-> "unpack", tree |-> [k \in EntryIds |-> Original(k)]]
    PROVE  EngineInv'
<1>1. archive' = archive /\ damage' = damage /\ pk' = pk /\ SameTable
  BY DEF packVars, SameTable
<1>2. /\ output'.by = rd.op /\ output'.by \in {"unpack", "extract"}
      /\ output'.by = "extract" => (/\ output'.bytes = Original(rd.entry)
                                    /\ output' = [by |-> "extract", bytes |-> output'.bytes])
      /\ output'.by = "unpack" => (/\ output'.tree = [k \in EntryIds |-> Original(k)]
                                   /\ output' = [by |-> "unpack", tree |-> output'.tree])
  OBVIOUS
<1>3. Shapes'
  BY <1>1, <1>2 DEF EngineInv, Shapes
<1>4. PackInv'
  BY PackInvKept DEF EngineInv
<1>5. CallInv'
  BY <1>2 DEF CallInv, Refused
<1>6. RestoredIsPacked'
  <2>1. EntryIds' = EntryIds /\ \A k : Original(k)' = Original(k)
    BY <1>1, TableKept
  <2>2. output'.by = "unpack" => output'.tree = [k \in EntryIds' |-> Original(k)']
    BY <1>2, <2>1
  <2>3. output'.by = "extract" => output'.bytes = Original(rd.entry)'
    BY <1>2, <2>1
  <2>. QED BY <2>2, <2>3 DEF RestoredIsPacked, Nothing
<1>7. DataInv'
  BY <1>6 DEF DataInv
<1>. QED BY <1>3, <1>4, <1>5, <1>7 DEF EngineInv

\* extract: the spool appears under its name, or what is there stays.
LEMMA ExtractCommitKeeps == ASSUME EngineInv, ExtractCommit PROVE EngineInv'
<1>1. /\ rd.op = "extract" /\ rd.pc = "commit" /\ UNCHANGED <<packVars, damage>>
  BY DEF ExtractCommit
<1>2. /\ rd.emitted = Nothing /\ rd.result = "none" /\ PackOver
      /\ output.by \notin {"unpack", "extract"} /\ rd.buf = Original(rd.entry)
  BY <1>1 DEF EngineInv, CallInv, PackInv, DataInv
<1>3. CASE output = Nothing
  <2>1. /\ output' = [by |-> "extract", bytes |-> Original(rd.entry)]
        /\ rd' = [rd EXCEPT !.pc = "after"]
    BY <1>2, <1>3 DEF ExtractCommit, PersistNoclobber
  <2>2. /\ DOMAIN rd' = RdFields /\ rd'.pc = "after" /\ rd'.result = "none"
        /\ rd'.op = rd.op /\ rd'.entry = rd.entry /\ rd'.emitted = Nothing
    BY <1>2, <2>1 DEF EngineInv, Shapes, RdFields
  <2>. QED BY <1>1, <1>2, <2>1, <2>2, PublishKeeps
<1>4. CASE output # Nothing
  <2>1. output' = output
    BY <1>4 DEF ExtractCommit, PersistNoclobber
  <2>2. rd' = ReadEnds("exists")
    BY <1>2, <2>1 DEF ExtractCommit
  <2>. QED BY <1>1, <1>2, <2>1, <2>2, EndsKeep DEF ReadFrame
<1>. QED BY <1>3, <1>4

\* extract of a directory or of a symbolic link.
LEMMA ExtractCreateKeeps == ASSUME EngineInv, ExtractCreate PROVE EngineInv'
<1>1. rd.pc = "create" /\ UNCHANGED <<packVars, damage>>
  BY DEF ExtractCreate
<1>2. /\ rd.emitted = Nothing /\ rd.result = "none" /\ PackOver /\ rd.op = "extract"
      /\ ~IsFile(rd.entry)
  BY <1>1 DEF EngineInv, CallInv, PackInv, DataInv
<1>3. Original(rd.entry) = <<>>
  BY <1>2 DEF Original, IsFile
<1>4. CASE output = Nothing
  <2>1. output' = [by |-> "extract", bytes |-> Original(rd.entry)] /\ rd' = ReadEnds("ok")
    BY <1>3, <1>4 DEF ExtractCreate
  <2>2. /\ DOMAIN rd' = RdFields /\ rd'.pc = "done" /\ rd'.result = "ok"
        /\ rd'.op = rd.op /\ rd'.entry = rd.entry /\ rd'.emitted = Nothing
    BY <1>2, <2>1 DEF EngineInv, Shapes, RdFields, ReadEnds
  <2>. QED BY <1>1, <1>2, <2>1, <2>2, PublishKeeps
<1>5. CASE output # Nothing
  <2>1. output' = output /\ \E r \in {"ok", "io"} : rd' = ReadEnds(r)
    BY <1>5 DEF ExtractCreate
  <2>. QED BY <1>1, <1>2, <2>1, EndsKeep DEF ReadFrame, Nothing, Refused
<1>. QED BY <1>4, <1>5

LEMMA ReturnKeeps == ASSUME EngineInv, ReadReturn PROVE EngineInv'
<1>1. ReadFrame /\ rd.pc = "after" /\ rd' = ReadEnds("ok")
  BY DEF ReadReturn, ReadStep, ReadFrame
<1>2. rd.emitted.by # "stream"
  BY <1>1 DEF EngineInv, CallInv, Nothing
<1>. QED BY <1>1, <1>2, EndsKeep DEF Refused

-----------------------------------------------------------------------------
(* unpack.                                                                 *)

LEMMA VerifyKeeps ==
    ASSUME EngineInv, VerifyPayload \/ VerifyGroup \/ VerifyRoot
    PROVE  EngineInv'
<1>1. ReadFrame /\ rd.pc \in {"payload", "groups"}
  BY DEF VerifyPayload, VerifyGroup, VerifyRoot, ReadStep, ReadFrame
<1>2. rd.emitted = Nothing /\ rd.result = "none" /\ rd.op = "unpack"
  BY <1>1 DEF EngineInv, CallInv
<1>3. CASE \E r \in {"cancelled", "crc", "hash"} : rd' = ReadEnds(r)
  BY <1>1, <1>2, <1>3, EndsKeep
<1>4. CASE ~\E r \in {"cancelled", "crc", "hash"} : rd' = ReadEnds(r)
  <2>1. /\ GoesOn /\ rd'.pc \in {"groups", "stage"} /\ rd'.emitted = Nothing
        /\ rd'.pc = "stage" => rd'.staging = [k \in {} |-> <<>>]
    <3>1. CASE VerifyPayload
      <4>1. rd' = [rd EXCEPT !.pc = "groups", !.at = 1]
        BY <1>4, <3>1 DEF VerifyPayload, ReadStep, ReadCheckpoint
      <4>. QED BY <1>2, <4>1 DEF GoesOn, EngineInv, Shapes, RdFields
    <3>2. CASE VerifyGroup
      <4>1. rd' = [rd EXCEPT !.at = rd.at + 1] /\ rd.pc = "groups"
        BY <1>4, <3>2 DEF VerifyGroup, ReadStep, ReadCheckpoint
      <4>. QED BY <1>2, <4>1 DEF GoesOn, EngineInv, Shapes, RdFields
    <3>3. CASE VerifyRoot
      <4>1. rd' = [rd EXCEPT !.pc = "stage", !.at = 1, !.staging = [k \in {} |-> <<>>]]
        BY <1>4, <3>3 DEF VerifyRoot, ReadStep, ReadCheckpoint
      <4>. QED BY <1>2, <4>1 DEF GoesOn, EngineInv, Shapes, RdFields
    <3>. QED BY <3>1, <3>2, <3>3
  <2>2. SameTable /\ Shapes' /\ PackInv'
    BY <1>1, <2>1, GoesOnShape
  <2>3. CallInv' /\ RestoredIsPacked'
    BY <1>1, <1>2, <2>1, BetweenKeeps
  <2>4. Linked'
    BY <1>1, <2>2, TableKept DEF EngineInv, DataInv
  <2>5. rd'.pc = "stage" => /\ DOMAIN rd'.staging \subseteq EntryIds'
                            /\ rd'.staging = [j \in DOMAIN rd'.staging |-> Original(j)']
    BY <2>1
  <2>6. DataInv'
    BY <2>1, <2>3, <2>4, <2>5 DEF DataInv
  <2>. QED BY <2>2, <2>3, <2>6 DEF EngineInv
<1>. QED BY <1>3, <1>4

\* Staging gains entry k.
LEMMA StagedKeeps ==
    ASSUME EngineInv, ReadFrame, rd.pc = "stage", NEW k \in EntryIds,
           rd' = Staged(k, Original(k))
    PROVE  EngineInv'
<1>1. rd.emitted = Nothing /\ rd.result = "none" /\ rd.op = "unpack"
  BY DEF EngineInv, CallInv
<1>2. /\ Linked /\ DOMAIN rd.staging \subseteq EntryIds
      /\ rd.staging = [j \in DOMAIN rd.staging |-> Original(j)]
  BY DEF EngineInv, DataInv
<1>3. /\ GoesOn /\ rd'.pc = "stage" /\ rd'.emitted = Nothing
      /\ rd'.staging = [j \in DOMAIN rd.staging \cup {k} |->
                            IF j = k THEN Original(k) ELSE rd.staging[j]]
  BY <1>1 DEF Staged, GoesOn, EngineInv, Shapes, RdFields
<1>4. SameTable /\ Shapes' /\ PackInv'
  BY <1>3, GoesOnShape
<1>5. CallInv' /\ RestoredIsPacked'
  BY <1>1, <1>3, BetweenKeeps
<1>6. EntryIds' = EntryIds /\ Linked' /\ \A j : Original(j)' = Original(j)
  BY <1>2, <1>4, TableKept
<1>7. /\ DOMAIN rd'.staging \subseteq EntryIds'
      /\ rd'.staging = [j \in DOMAIN rd'.staging |-> Original(j)']
  <2>1. DOMAIN rd'.staging = DOMAIN rd.staging \cup {k}
    BY <1>3
  <2>2. \A j \in DOMAIN rd'.staging : rd'.staging[j] = Original(j)
    BY <1>2, <1>3, <2>1
  <2>3. rd'.staging = [j \in DOMAIN rd'.staging |-> Original(j)]
    BY <1>3, <2>1, <2>2
  <2>. QED BY <1>2, <1>6, <2>1, <2>3
<1>8. DataInv'
  BY <1>3, <1>5, <1>6, <1>7 DEF DataInv
<1>. QED BY <1>4, <1>5, <1>8 DEF EngineInv

\* When the loop over the hard links creates one, its target is in staging.
LEMMA TargetIsStaged ==
    ASSUME Linked, NEW k \in EntryIds, IsNext(k), Arc.entries[k].kind = "hardlink"
    PROVE  Arc.entries[k].target \in DOMAIN rd.staging
<1>. DEFINE t == Arc.entries[k].target
<1>1. t \in EntryIds /\ Arc.entries[t].kind = "file"
  BY DEF Linked
<1>2. t # k
  BY <1>1
<1>3. ~CreatedBefore(k, t)
  BY <1>1 DEF CreatedBefore, StageRank
<1>. QED BY <1>1, <1>2, <1>3 DEF IsNext, Unstaged

LEMMA StageKeeps == ASSUME EngineInv, StageEntry PROVE EngineInv'
<1>1. PICK k \in EntryIds :
        IsNext(k) /\ IF Arc.entries[k].kind = "file" THEN StageFile(k) ELSE StageLink(k)
  BY DEF StageEntry
<1>2. ReadFrame /\ rd.pc = "stage"
  BY <1>1 DEF StageFile, StageLink, ReadStep, ReadFrame
<1>3. /\ Linked /\ rd.emitted = Nothing
      /\ rd.staging = [j \in DOMAIN rd.staging |-> Original(j)]
  BY <1>2 DEF EngineInv, DataInv, CallInv
<1>4. CASE \E r \in {"cancelled", "crc", "hash"} : rd' = ReadEnds(r)
  BY <1>2, <1>3, <1>4, EndsKeep
<1>5. CASE ~\E r \in {"cancelled", "crc", "hash"} : rd' = ReadEnds(r)
  <2>1. CASE Arc.entries[k].kind = "file"
    <3>1. PICK bytes : HashMatches(bytes, k) /\ rd' = Staged(k, bytes)
      BY <1>1, <1>5, <2>1 DEF StageFile, ReadStep, ReadCheckpoint
    <3>2. bytes = Original(k)
      BY <2>1, <3>1 DEF HashMatches, Original
    <3>. QED BY <1>2, <3>1, <3>2, StagedKeeps
  <2>2. CASE Arc.entries[k].kind = "hardlink"
    <3>. DEFINE t == Arc.entries[k].target
    <3>1. rd' = Staged(k, rd.staging[t])
      BY <1>1, <1>5, <2>2 DEF StageLink, ReadStep, ReadCheckpoint
    <3>2. rd.staging[t] = Original(t)
      BY <1>1, <1>3, <2>2, TargetIsStaged
    <3>3. Original(t) = Original(k)
      BY <1>3, <2>2 DEF Linked, Original
    <3>. QED BY <1>2, <3>1, <3>2, <3>3, StagedKeeps
  <2>3. CASE Arc.entries[k].kind \notin {"file", "hardlink"}
    <3>1. rd' = Staged(k, <<>>)
      BY <1>1, <1>5, <2>3 DEF StageLink, ReadStep, ReadCheckpoint
    <3>2. Original(k) = <<>>
      BY <2>3 DEF Original
    <3>. QED BY <1>2, <3>1, <3>2, StagedKeeps
  <2>. QED BY <2>1, <2>2, <2>3
<1>. QED BY <1>4, <1>5

LEMMA LastKeeps == ASSUME EngineInv, UnpackLast PROVE EngineInv'
<1>1. ReadFrame /\ rd.pc = "stage" /\ Unstaged = {}
  BY DEF UnpackLast, ReadStep, ReadFrame
<1>2. /\ rd.emitted = Nothing /\ rd.result = "none" /\ rd.op = "unpack"
      /\ DOMAIN rd.staging = EntryIds
      /\ rd.staging = [j \in DOMAIN rd.staging |-> Original(j)]
  BY <1>1 DEF EngineInv, CallInv, DataInv, Unstaged
<1>3. CASE rd' = ReadEnds("cancelled")
  BY <1>1, <1>2, <1>3, EndsKeep
<1>4. CASE rd' = [rd EXCEPT !.pc = "commit"]
  <2>1. GoesOn /\ rd'.pc = "commit" /\ rd'.emitted = Nothing /\ rd'.staging = rd.staging
    BY <1>2, <1>4 DEF GoesOn, EngineInv, Shapes, RdFields
  <2>2. SameTable /\ Shapes' /\ PackInv'
    BY <1>1, <2>1, GoesOnShape
  <2>3. CallInv' /\ RestoredIsPacked' /\ rd'.op = "unpack"
    BY <1>1, <1>2, <2>1, BetweenKeeps DEF GoesOn
  <2>4. EntryIds' = EntryIds /\ \A j : Original(j)' = Original(j)
    BY <2>2, TableKept
  <2>5. /\ DOMAIN rd'.staging = EntryIds'
        /\ rd'.staging = [j \in DOMAIN rd'.staging |-> Original(j)']
    BY <1>2, <2>1, <2>4
  <2>6. DataInv'
    BY <2>1, <2>3, <2>5 DEF DataInv
  <2>. QED BY <2>2, <2>3, <2>6 DEF EngineInv
<1>. QED BY <1>3, <1>4 DEF UnpackLast, ReadStep, ReadCheckpoint

\* unpack: the staging directory is renamed, onto nothing or an empty directory.
LEMMA UnpackCommitKeeps == ASSUME EngineInv, UnpackCommit PROVE EngineInv'
<1>1. rd.op = "unpack" /\ rd.pc = "commit" /\ UNCHANGED <<packVars, damage>>
  BY DEF UnpackCommit
<1>2. /\ rd.emitted = Nothing /\ rd.result = "none" /\ PackOver
      /\ rd.staging = [j \in EntryIds |-> Original(j)]
  BY <1>1 DEF EngineInv, CallInv, PackInv, DataInv
<1>3. CASE RenameSucceeds(output)
  <2>1. /\ output' = [by |-> "unpack", tree |-> [j \in EntryIds |-> Original(j)]]
        /\ rd' = [rd EXCEPT !.pc = "after"]
    BY <1>2, <1>3 DEF UnpackCommit
  <2>2. /\ DOMAIN rd' = RdFields /\ rd'.pc = "after" /\ rd'.result = "none"
        /\ rd'.op = rd.op /\ rd'.entry = rd.entry /\ rd'.emitted = Nothing
    BY <1>2, <2>1 DEF EngineInv, Shapes, RdFields
  <2>. QED BY <1>1, <1>2, <2>1, <2>2, PublishKeeps
<1>4. CASE ~RenameSucceeds(output)
  <2>1. output' = output /\ rd' = ReadEnds("io")
    BY <1>4 DEF UnpackCommit
  <2>. QED BY <1>1, <1>2, <2>1, EndsKeep DEF ReadFrame
<1>. QED BY <1>3, <1>4

-----------------------------------------------------------------------------
(* Other programs beside the reading call.                                 *)

\* Damage to the payload leaves the tables alone.
LEMMA DamageKeeps ==
    ASSUME EngineInv, NEW g, NEW i, NEW u, DamageArchive(g, i, u)
    PROVE  EngineInv' /\ archive'.by = archive.by
<1>1. /\ PackOver /\ archive.by = "pack" /\ damage' = damage + 1
      /\ UNCHANGED <<inputVars, pk, output, rd>>
  BY DEF DamageArchive
<1>2. archive = [by |-> "pack", arc |-> archive.arc] /\ DOMAIN archive.arc = ArcFields
  BY <1>1 DEF EngineInv, Shapes, Nothing, Foreign
<1>3. /\ archive'.by = "pack" /\ archive' = [by |-> "pack", arc |-> archive'.arc]
      /\ DOMAIN archive'.arc = ArcFields /\ SameTable
  BY <1>2 DEF DamageArchive, SameTable, ArcFields
<1>4. damage \in Nat /\ damage' \in Nat /\ damage' # 0
  BY <1>1 DEF EngineInv, Shapes
<1>5. Shapes'
  BY <1>1, <1>3, <1>4 DEF EngineInv, Shapes
<1>6. PackInv'
  BY <1>1, <1>3, <1>4 DEF EngineInv, PackInv, PackOver, inputVars, Refused
<1>7. CallInv'
  BY <1>1 DEF EngineInv, CallInv, Refused
<1>8. /\ EntryIds' = EntryIds /\ (Linked <=> Linked')
      /\ \A k : Original(k)' = Original(k) /\ (IsFile(k)' <=> IsFile(k))
  BY <1>3, TableKept
<1>9. RestoredIsPacked'
  BY <1>1, <1>8 DEF EngineInv, DataInv, RestoredIsPacked
<1>10. DataInv'
  BY <1>1, <1>8, <1>9 DEF EngineInv, DataInv
<1>. QED BY <1>1, <1>3, <1>5, <1>6, <1>7, <1>10 DEF EngineInv

LEMMA TakeKeeps == ASSUME EngineInv, TakeOutput PROVE EngineInv'
<1>1. PackOver /\ output = Nothing /\ UNCHANGED <<packVars, damage, rd>>
  BY DEF TakeOutput
<1>2. output'.by = "other" /\ output' = [by |-> "other", empty |-> output'.empty]
  BY DEF TakeOutput
<1>3. archive' = archive /\ pk' = pk /\ SameTable
  BY <1>1 DEF packVars, SameTable
<1>4. Shapes'
  BY <1>1, <1>2, <1>3 DEF EngineInv, Shapes
<1>5. PackInv'
  BY <1>1, PackInvKept DEF EngineInv
<1>6. CallInv'
  BY <1>1, <1>2 DEF EngineInv, CallInv, Refused, Nothing
<1>7. /\ EntryIds' = EntryIds /\ (Linked <=> Linked')
      /\ \A k : Original(k)' = Original(k) /\ (IsFile(k)' <=> IsFile(k))
  BY <1>3, TableKept
<1>8. RestoredIsPacked'
  BY <1>1, <1>2, <1>7 DEF EngineInv, DataInv, RestoredIsPacked
<1>9. DataInv'
  BY <1>1, <1>7, <1>8 DEF EngineInv, DataInv
<1>. QED BY <1>4, <1>5, <1>6, <1>9 DEF EngineInv

LEMMA CancelKeeps == ASSUME EngineInv, CancelRead PROVE EngineInv'
<1>1. PackOver /\ rd' = [rd EXCEPT !.cancelled = TRUE] /\ UNCHANGED <<packVars, output, damage>>
  BY DEF CancelRead
<1>2. /\ DOMAIN rd' = RdFields /\ rd'.pc = rd.pc /\ rd'.result = rd.result /\ rd'.op = rd.op
      /\ rd'.entry = rd.entry /\ rd'.from = rd.from /\ rd'.len = rd.len /\ rd'.buf = rd.buf
      /\ rd'.staging = rd.staging /\ rd'.emitted = rd.emitted
  BY <1>1 DEF EngineInv, Shapes, RdFields
<1>3. archive' = archive /\ pk' = pk /\ output' = output /\ damage' = damage /\ SameTable
  BY <1>1 DEF packVars, SameTable
<1>4. Shapes'
  BY <1>2, <1>3 DEF EngineInv, Shapes
<1>5. PackInv'
  BY <1>1, PackInvKept DEF EngineInv
<1>6. CallInv'
  BY <1>2, <1>3 DEF EngineInv, CallInv, Refused
<1>7. /\ EntryIds' = EntryIds /\ (Linked <=> Linked')
      /\ \A k : Original(k)' = Original(k) /\ (IsFile(k)' <=> IsFile(k))
  BY <1>3, TableKept
<1>8. RestoredIsPacked'
  BY <1>2, <1>3, <1>7 DEF EngineInv, DataInv, RestoredIsPacked
<1>9. DataInv'
  BY <1>2, <1>3, <1>7, <1>8 DEF EngineInv, DataInv
<1>. QED BY <1>4, <1>5, <1>6, <1>9 DEF EngineInv

-----------------------------------------------------------------------------
(* The theorems.                                                           *)

LEMMA InitHolds == ASSUME Init PROVE EngineInv
<1>1. /\ DOMAIN pk = PkFields /\ pk.pc = "start" /\ pk.result = "none" /\ archive = Nothing
  BY DEF Init, PackInit, PkFields
<1>2. /\ DOMAIN rd = RdFields /\ rd.pc = "start" /\ rd.result = "none" /\ rd.emitted = Nothing
      /\ output = Nothing /\ damage = 0
  BY DEF Init, RdFields
<1>3. archive.by = "nobody" /\ output.by = "nobody" /\ rd.emitted.by = "nobody"
  BY <1>1, <1>2 DEF Nothing
<1>4. RestoredIsPacked
  BY <1>3 DEF RestoredIsPacked
<1>. QED BY <1>1, <1>2, <1>3, <1>4 DEF EngineInv, Shapes, PackInv, CallInv, DataInv, Refused

\* Pack runs before the call: what the invariant says of the call stays true.
LEMMA PackStepKeeps ==
    ASSUME EngineInv, Pack \/ Others, PackFrame
    PROVE  EngineInv'
<1>1. Shapes' /\ PackInv' /\ rd.pc = "start" /\ output = Nothing
  BY PackKeeps DEF EngineInv
<1>2. rd' = rd /\ output' = output
  BY DEF PackFrame
<1>3. rd.emitted = Nothing
  BY <1>1 DEF EngineInv, CallInv
<1>4. CallInv'
  BY <1>2 DEF EngineInv, CallInv, Refused
<1>5. RestoredIsPacked'
  BY <1>1, <1>2, <1>3 DEF RestoredIsPacked, Nothing
<1>6. DataInv'
  BY <1>1, <1>2, <1>5 DEF DataInv
<1>. QED BY <1>1, <1>4, <1>6 DEF EngineInv

LEMMA ReadKeeps == ASSUME EngineInv, Read PROVE EngineInv'
BY StartKeeps, CatalogKeeps, FailsKeeps, DecodeKeeps, HashKeeps, EmitKeeps, ExtractCommitKeeps,
   ExtractCreateKeeps, VerifyKeeps, StageKeeps, LastKeeps, UnpackCommitKeeps, ReturnKeeps
   DEF Read

LEMMA StepKeeps == ASSUME EngineInv, [Next]_vars PROVE EngineInv'
<1>1. CASE (Pack \/ Others) /\ UNCHANGED <<output, damage, rd>>
  BY <1>1, PackStepKeeps DEF PackFrame
<1>2. CASE \E g \in 1 .. Len(paths), i \in 1 .. 2, u \in Units : DamageArchive(g, i, u)
  BY <1>2, DamageKeeps
<1>3. CASE TakeOutput
  BY <1>3, TakeKeeps
<1>4. CASE CancelRead
  BY <1>4, CancelKeeps
<1>5. CASE Read
  BY <1>5, ReadKeeps
<1>6. CASE UNCHANGED vars
  <2>1. UNCHANGED <<archive, pk, changes, output, damage, rd>> /\ SameTable
    BY <1>6 DEF vars, packVars, inputVars, SameTable
  <2>2. /\ EntryIds' = EntryIds /\ (Linked <=> Linked')
        /\ \A k : Original(k)' = Original(k) /\ (IsFile(k)' <=> IsFile(k))
    BY <2>1, TableKept
  <2>3. RestoredIsPacked'
    BY <2>1, <2>2 DEF EngineInv, DataInv, RestoredIsPacked
  <2>4. DataInv'
    BY <2>1, <2>2, <2>3 DEF EngineInv, DataInv
  <2>5. Shapes' /\ CallInv'
    BY <2>1 DEF EngineInv, Shapes, CallInv, Refused
  <2>6. PackInv'
    BY <2>1 DEF EngineInv, PackInv, Refused, PackOver, Arc
  <2>. QED BY <2>4, <2>5, <2>6 DEF EngineInv
<1>. QED BY <1>1, <1>2, <1>3, <1>4, <1>5, <1>6 DEF Next

\* The engine's invariant holds in every state, whatever others do.
THEOREM EngineInvariant == Spec => []EngineInv
<1>1. Init => EngineInv BY InitHolds
<1>2. EngineInv /\ [Next]_vars => EngineInv' BY StepKeeps
<1>. QED BY <1>1, <1>2, PTL DEF Spec

\* What pack publishes has passed verify_open_file, a refused call has published
\* nothing and a successful pack has published.
THEOREM PublishedIsVerified == Spec => []PublishedVerifies
<1>1. EngineInv => PublishedVerifies
  BY DEF EngineInv, PackInv, CallInv, PublishedVerifies, Refused
<1>. QED BY <1>1, EngineInvariant, PTL

\* unpack, extract, extract_to_writer and read_range give back what was packed,
\* whenever and however often the payload is overwritten.
THEOREM RestoresWhatWasPacked == Spec => []RestoredIsPacked
<1>1. EngineInv => RestoredIsPacked
  BY DEF EngineInv, DataInv
<1>. QED BY <1>1, EngineInvariant, PTL

\* What a single step may do to the two output paths.
Preserved ==
    /\ archive = Foreign => archive' = Foreign
    /\ archive.by = "pack" => archive'.by = "pack"
    /\ (output # Nothing /\ ~(output.by = "other" /\ output.empty)) => output' = output

LEMMA StepPreserves == ASSUME EngineInv, [Next]_vars PROVE Preserved
<1>1. ASSUME UNCHANGED <<archive, output>> PROVE Preserved
  BY <1>1 DEF Preserved
<1>2. CASE (Pack \/ Others) /\ UNCHANGED <<output, damage, rd>>
  <2>1. CASE PackCommit
    <3>1. archive # Nothing => archive' = archive
      BY <2>1 DEF PackCommit, PersistNoclobber
    <3>. QED BY <1>2, <3>1 DEF Preserved, Nothing, Foreign
  <2>2. CASE TakeArchive
    BY <1>2, <2>2 DEF TakeArchive, Preserved, Nothing, Foreign
  <2>3. CASE ~PackCommit /\ ~TakeArchive
    <3>1. archive' = archive
      <4>1. CASE Others
        BY <2>3, <4>1 DEF Others, WriteInput, ReplaceInput, ReturnInput, CancelPack
      <4>2. CASE Pack
        BY <2>3, <4>2, PackStepsMove DEF Pack, PackStops, PackGoesOn, EngineInv
      <4>. QED BY <1>2, <4>1, <4>2
    <3>. QED BY <1>1, <1>2, <3>1
  <2>. QED BY <2>1, <2>2, <2>3
<1>3. CASE \E g \in 1 .. Len(paths), i \in 1 .. 2, u \in Units : DamageArchive(g, i, u)
  <2>1. PICK g, i, u : DamageArchive(g, i, u)
    BY <1>3
  <2>2. archive.by = "pack" /\ archive'.by = "pack" /\ output' = output
    BY <2>1, DamageKeeps DEF DamageArchive
  <2>. QED BY <2>2 DEF Preserved, Foreign
<1>4. CASE TakeOutput
  BY <1>4 DEF TakeOutput, packVars, Preserved
<1>5. CASE CancelRead
  BY <1>1, <1>5 DEF CancelRead, packVars
<1>6. CASE Read
  <2>1. archive' = archive
    BY <1>6 DEF Read, ReadStart, ReadCatalog, ReadFails, DecodeEntry, CheckHash, Emit,
       ExtractCommit, ExtractCreate, VerifyPayload, VerifyGroup, VerifyRoot, StageEntry, StageFile,
       StageLink, UnpackLast, UnpackCommit, ReadReturn, ReadStep, packVars
  <2>2. CASE ExtractCommit
    <3>1. output # Nothing => output' = output
      BY <2>2 DEF ExtractCommit, PersistNoclobber
    <3>. QED BY <2>1, <3>1 DEF Preserved
  <2>3. CASE ExtractCreate
    BY <2>1, <2>3 DEF ExtractCreate, Preserved
  <2>4. CASE UnpackCommit
    <3>1. ~RenameSucceeds(output) => output' = output
      BY <2>4 DEF UnpackCommit
    <3>. QED BY <2>1, <3>1 DEF Preserved, RenameSucceeds
  <2>5. CASE ~ExtractCommit /\ ~ExtractCreate /\ ~UnpackCommit
    <3>1. output' = output
      BY <1>6, <2>5 DEF Read, ReadStart, ReadCatalog, ReadFails, DecodeEntry, CheckHash, Emit,
         VerifyPayload, VerifyGroup, VerifyRoot, StageEntry, StageFile, StageLink, UnpackLast,
         ReadReturn, ReadStep
    <3>. QED BY <1>1, <2>1, <3>1, SMTT(40)
  <2>. QED BY <2>2, <2>3, <2>4, <2>5, SMTT(40)
<1>7. CASE UNCHANGED vars
  BY <1>1, <1>7 DEF vars, packVars
<1>. QED BY <1>2, <1>3, <1>4, <1>5, <1>6, <1>7 DEF Next

\* Whatever is at an output path stays there: neither pack nor a reading call
\* replaces what another program put there after the path was found free.
THEOREM NothingIsReplaced == Spec => NothingReplaced
<1>1. EngineInv /\ [Next]_vars => [Preserved]_vars
  BY StepPreserves
<1>2. EngineInv /\ [Next]_vars =>
        [/\ archive = Foreign => archive' = Foreign
         /\ archive.by = "pack" => archive'.by = "pack"
         /\ (output # Nothing /\ ~(output.by = "other" /\ output.empty)) => output' = output]_vars
  BY <1>1 DEF Preserved
<1>. QED BY <1>2, EngineInvariant, PTL DEF Spec, NothingReplaced

-----------------------------------------------------------------------------
(* Snapshots: what pack reads while its inputs change.                     *)

\* The inputs: a path that leads to a file has held what the file holds.
InputInv ==
    /\ paths \in Seq(InputPath) /\ nodes \in Seq(FileNode) /\ silent \in Nat
    /\ \A j \in 1 .. Len(paths) : paths[j].kind = "file" =>
        /\ paths[j].ino \in 1 .. Len(nodes)
        /\ nodes[paths[j].ino].bytes \in held[j]

ScannedFile ==
    [src : Nat, path : Nat, kind : {"file", "dir", "symlink", "unsafe"}, ino : Nat, len : Nat,
     mtime : Nat]

\* An entry of the scan: its path may lead to another file by now, and its file
\* may have been written to, but its mtime does not go back.
ScannedOk(f) ==
    /\ f.src \in 1 .. Len(paths)
    /\ f.path = paths[f.src].path /\ f.kind = paths[f.src].kind
    /\ f.kind = "file" =>
        f.ino \in 1 .. Len(nodes) /\ f.mtime <= nodes[f.ino].mtime

\* The path of g held what the file f holds while the mtime of f is that of the scan.
SharedOk(f, g) ==
    (/\ f.kind = "file" /\ g.kind = "file" /\ f.ino = g.ino /\ f.src < g.src
     /\ silent = 0 /\ nodes[f.ino].mtime = f.mtime) => nodes[f.ino].bytes \in held[g.src]

InScan == pk.pc \in {"check", "open", "read", "recheck", "build"}

ScanInv ==
    /\ pk.files \in Seq(ScannedFile) /\ pk.at \in Nat \ {0}
    /\ \A k \in 1 .. Len(pk.files) : ScannedOk(pk.files[k])
    /\ \A i, k \in 1 .. Len(pk.files) : SharedOk(pk.files[i], pk.files[k])
    /\ pk.pc = "start" => pk.files = <<>>
    /\ pk.pc = "scan" => \A k \in 1 .. Len(pk.files) : pk.files[k].src < pk.at
    /\ InScan => \A i, k \in 1 .. Len(pk.files) : i < k => pk.files[i].path < pk.files[k].path

\* The first read of source k gave what its path held.
HashHeld(k) == pk.hashed[k] \in held[pk.files[k].src]

\* So many steps that no look at the path can see spoil the first read, or both.
Excused(k) == IF pk.pass = 1 THEN silent >= 1 ELSE silent >= 2 \/ HashHeld(k)

\* What has been read of the file so far is the beginning of what it holds.
Clean(f) ==
    \/ /\ Len(pk.buf) <= Len(nodes[pk.fd].bytes)
       /\ \A i \in 1 .. Len(pk.buf) : pk.buf[i] = nodes[pk.fd].bytes[i]
    \/ nodes[pk.fd].mtime # f.mtime

\* What was opened is not the file scanned: then the path does not lead to that file
\* now, unless it was put back.
Away(f) == paths[f.src].ino # f.ino \/ Excused(pk.at)

ReadingInv ==
    /\ pk.pc \in {"open", "read", "recheck"} =>
        pk.at \in 1 .. Len(pk.files) /\ IsSource(pk.files, pk.at)
    /\ pk.pc \in {"start", "scan", "check", "open"} => pk.buf = <<>>
    /\ pk.pc \in {"read", "recheck"} =>
        LET f == pk.files[pk.at]
        IN  /\ pk.buf \in Seq(Nat) /\ pk.fd \in 1 .. Len(nodes)
            /\ pk.fd # f.ino => Away(f)
            /\ pk.fd = f.ino => (Clean(f) \/ Excused(pk.at))

\* The sources that were read, once or twice.
HashedInv ==
    /\ pk.pc \in {"start", "scan"} => pk.pass = 1
    /\ InScan =>
        /\ DOMAIN pk.hashed = 1 .. Len(pk.files) /\ pk.pass \in {1, 2}
        /\ \A k \in 1 .. Len(pk.files) :
            (IsSource(pk.files, k) /\ (pk.pass = 2 \/ k < pk.at)) =>
                /\ silent >= 1 \/ HashHeld(k)
                /\ (pk.pass = 2 /\ k < pk.at) => (silent >= 2 \/ HashHeld(k))
                /\ \A i \in 1 .. Len(pk.files) :
                    (/\ pk.files[i].kind = "file" /\ pk.files[i].ino = pk.files[k].ino
                     /\ pk.files[k].src < pk.files[i].src /\ silent = 0) =>
                        pk.hashed[k] \in held[pk.files[i].src]
    /\ pk.pc = "build" => (pk.at > Len(pk.files) /\ (pk.profile = "compressed" => pk.pass = 2))

\* The call of pack, and the spool it wrote.
PackSnap ==
    /\ ScanInv /\ ReadingInv /\ HashedInv
    /\ pk.pc \in {"verify", "last", "commit"} => Snapshots(pk.arc)

SnapInv == InputInv /\ PackSnap /\ PackedIsSnapshot

\* A nonempty set of natural numbers has a least element.
LEMMA LeastNatural ==
    ASSUME NEW T, T \subseteq Nat, T # {}
    PROVE  \E x \in T : \A y \in T : x <= y
<1>1. IsWellFoundedOn(OpToRel(<, Nat), Nat)
  BY NatLessThanWellFounded
<1>2. \A S \in SUBSET Nat : S # {} => \E x \in S : \A y \in S : ~(<<y, x>> \in OpToRel(<, Nat))
  BY <1>1, WFMin, Zenon
<1>3. PICK x \in T : \A y \in T : ~(<<y, x>> \in OpToRel(<, Nat))
  BY <1>2
<1>4. \A y \in T : ~(y < x)
  BY <1>3 DEF OpToRel
<1>. QED BY <1>4

\* Every file has a first entry with its identity, and that one is a source.
LEMMA SourceFacts ==
    ASSUME NEW files, NEW k \in Nat \ {0}, files[k].kind = "file"
    PROVE  /\ SourceOf(files, k) \in 1 .. k
           /\ files[SourceOf(files, k)].kind = "file"
           /\ files[SourceOf(files, k)].ino = files[k].ino
           /\ IsSource(files, SourceOf(files, k))
<1>. DEFINE Same(n) == {j \in 1 .. n : files[j].kind = "file" /\ files[j].ino = files[k].ino}
            IsFirst(n, j) == /\ j \in 1 .. n /\ files[j].kind = "file" /\ files[j].ino = files[k].ino
                             /\ \A i \in 1 .. (j - 1) :
                                    ~(files[i].kind = "file" /\ files[i].ino = files[k].ino)
<1>1. \E j : IsFirst(k, j)
  <2>1. Same(k) \subseteq Nat /\ k \in Same(k)
    OBVIOUS
  <2>2. PICK j \in Same(k) : \A i \in Same(k) : j <= i
    BY <2>1, LeastNatural
  <2>3. \A i \in 1 .. (j - 1) : i \in 1 .. k /\ ~(j <= i)
    BY <2>2
  <2>. QED BY <2>2, <2>3
<1>2. \A n, i, j : (n \in Nat /\ IsFirst(n, i) /\ IsFirst(n, j)) => i = j
  <2>. SUFFICES ASSUME NEW n \in Nat, NEW i, NEW j, IsFirst(n, i), IsFirst(n, j), i # j
                PROVE  FALSE
    OBVIOUS
  <2>1. i \in 1 .. (j - 1) \/ j \in 1 .. (i - 1)
    OBVIOUS
  <2>. QED BY <2>1
<1>3. IsFirst(k, SourceOf(files, k))
  BY <1>1 DEF SourceOf
<1>. DEFINE s == SourceOf(files, k)
<1>4. IsFirst(s, s) /\ s \in Nat
  BY <1>3
<1>5. SourceOf(files, s) = CHOOSE j \in 1 .. s : IsFirst(s, j)
  <2>1. files[s].ino = files[k].ino
    BY <1>3
  <2>. QED BY <2>1 DEF SourceOf
<1>6. SourceOf(files, s) = s
  <2>. HIDE DEF IsFirst, s
  <2>1. s \in 1 .. s
    BY <1>4 DEF IsFirst
  <2>2. IsFirst(s, SourceOf(files, s))
    BY <1>4, <1>5, <2>1
  <2>. QED BY <1>2, <1>4, <2>2
<1>. QED BY <1>3, <1>6 DEF IsSource

\* The entries of the table that pack writes.
LEMMA BuildEntries ==
    ASSUME NEW p, NEW files, NEW h, NEW g, Len(files) \in Nat
    PROVE  /\ Build(p, files, h, g).registry = (IF p = "compressed" THEN "codecs" ELSE "absent")
           /\ Len(Build(p, files, h, g).entries) = Len(files)
           /\ \A k \in 1 .. Len(files) :
                LET e == Build(p, files, h, g).entries[k]
                IN  /\ e.path = files[k].path
                    /\ files[k].kind # "file" => e.kind = files[k].kind
                    /\ IsSource(files, k) => (e.kind = "file" /\ e.hash = h[k])
                    /\ (files[k].kind = "file" /\ ~IsSource(files, k)) =>
                        /\ e.kind = "hardlink" /\ e.target = SourceOf(files, k)
                        /\ e.hash = h[SourceOf(files, k)]
<1>1. \A k \in 1 .. Len(files) :
        \E group : Build(p, files, h, g).entries[k] = EntryRecord(files, h, k, group)
  BY DEF Build
<1>2. \A k, group :
        LET e == EntryRecord(files, h, k, group)
        IN  /\ e.path = files[k].path
            /\ files[k].kind # "file" => e.kind = files[k].kind
            /\ IsSource(files, k) => (e.kind = "file" /\ e.hash = h[k])
            /\ (files[k].kind = "file" /\ ~IsSource(files, k)) =>
                /\ e.kind = "hardlink" /\ e.target = SourceOf(files, k)
                /\ e.hash = h[SourceOf(files, k)]
  BY DEF EntryRecord, IsSource
<1>3. Build(p, files, h, g).registry = (IF p = "compressed" THEN "codecs" ELSE "absent")
  BY DEF Build
<1>4. Len(Build(p, files, h, g).entries) = Len(files)
  <2>. DEFINE n == Len(files)
              es == Build(p, files, h, g).entries
              S == {es[k] : k \in 1 .. n}
  <2>2. es \in [1 .. n -> S]
    BY Zenon DEF Build
  <2>. HIDE DEF S
  <2>3. n \in Nat
    OBVIOUS
  <2>. HIDE DEF n
  <2>4. es \in Seq(S) /\ Len(es) = n
    BY <2>2, <2>3
  <2>. QED BY <2>4 DEF es, n
<1>. QED BY <1>1, <1>2, <1>3, <1>4

-----------------------------------------------------------------------------
(* Other programs on the inputs.                                           *)

\* A path that comes to lead to the file scanned for it was led back there unseen.
Returns ==
    \A k \in 1 .. Len(pk.files) :
        LET f == pk.files[k]
        IN  (f.kind = "file" /\ paths[f.src].ino # f.ino /\ paths'[f.src].ino = f.ino) =>
                silent' >= silent + 1

\* What a step on the inputs may do: a path keeps its place and may lead to another
\* file; a file is left alone, gets a newer mtime, or is written to silently.
InputChange ==
    /\ InputInv'
    /\ Len(paths') = Len(paths) /\ Len(nodes) <= Len(nodes') /\ silent <= silent'
    /\ \A j \in 1 .. Len(paths) :
        /\ paths'[j].path = paths[j].path /\ paths'[j].kind = paths[j].kind
        /\ held[j] \subseteq held'[j]
    /\ Returns
    /\ \A i \in 1 .. Len(nodes) :
        \/ nodes'[i] = nodes[i]
        \/ nodes'[i].mtime > nodes[i].mtime
        \/ nodes'[i].mtime = nodes[i].mtime /\ silent' >= silent + 1

\* The fields of a file, of a path and of an entry of the scan.
LEMMA NodeFields ==
    ASSUME NEW ns \in Seq(FileNode), NEW i \in 1 .. Len(ns)
    PROVE  ns[i] \in FileNode /\ ns[i].mtime \in Nat /\ ns[i].bytes \in Seq(Nat)
<1>1. ns[i] \in FileNode
  OBVIOUS
<1>. QED BY <1>1 DEF FileNode

LEMMA PathFields ==
    ASSUME NEW ps \in Seq(InputPath), NEW j \in 1 .. Len(ps)
    PROVE  ps[j] \in InputPath /\ ps[j].ino \in Nat /\ ps[j].path \in Nat
<1>1. ps[j] \in InputPath
  OBVIOUS
<1>. QED BY <1>1 DEF InputPath

LEMMA ScannedFields ==
    ASSUME NEW fs \in Seq(ScannedFile), NEW k \in 1 .. Len(fs)
    PROVE  /\ fs[k] \in ScannedFile /\ fs[k].mtime \in Nat /\ fs[k].ino \in Nat
           /\ fs[k].len \in Nat /\ fs[k].path \in Nat /\ fs[k].src \in Nat
<1>1. fs[k] \in ScannedFile
  OBVIOUS
<1>. QED BY <1>1 DEF ScannedFile

LEMMA WriteIsChange ==
    ASSUME InputInv, NEW i \in 1 .. Len(nodes), NEW b \in Contents, NEW q \in BOOLEAN,
           WriteInput(i, b, q)
    PROVE  InputChange
<1>. DEFINE new == [bytes |-> b, mtime |-> IF q THEN nodes[i].mtime ELSE nodes[i].mtime + 1]
<1>1. b \in Seq(Nat)
  BY ArchivePackAssumption
<1>2. nodes[i] \in FileNode /\ nodes[i].mtime \in Nat
  BY NodeFields DEF InputInv
<1>21. new \in FileNode
  BY <1>1, <1>2 DEF FileNode
<1>3. nodes' = [nodes EXCEPT ![i] = new]
  BY DEF WriteInput
<1>4. nodes' \in Seq(FileNode) /\ Len(nodes') = Len(nodes)
      /\ \A n \in 1 .. Len(nodes) : nodes'[n] = (IF n = i THEN new ELSE nodes[n])
  BY <1>21, <1>3 DEF InputInv
<1>5. silent' \in Nat /\ silent <= silent' /\ (q => silent' = silent + 1)
  BY DEF WriteInput, InputInv
<1>6. /\ paths' = paths
      /\ \A j \in 1 .. Len(paths) : held'[j] = held[j] \cup BytesAt(paths, nodes', j)
  BY DEF WriteInput, Seen
<1>7. InputInv'
  BY <1>4, <1>5, <1>6 DEF InputInv, BytesAt
<1>8. \A n \in 1 .. Len(nodes) :
        \/ nodes'[n] = nodes[n]
        \/ nodes'[n].mtime > nodes[n].mtime
        \/ nodes'[n].mtime = nodes[n].mtime /\ silent' >= silent + 1
  <2>1. nodes[i].mtime \in Nat /\ silent \in Nat
    BY <1>2 DEF InputInv
  <2>2. CASE q
    BY <1>4, <1>5, <2>1, <2>2
  <2>3. CASE ~q
    BY <1>4, <1>5, <2>1, <2>3
  <2>. QED BY <2>2, <2>3
<1>9. Returns
  BY <1>6 DEF Returns
<1>. QED BY <1>4, <1>5, <1>6, <1>7, <1>8, <1>9 DEF InputChange

LEMMA ReplaceIsChange ==
    ASSUME InputInv, ScanInv, NEW k \in 1 .. Len(paths), NEW b \in Contents, ReplaceInput(k, b)
    PROVE  InputChange
<1>. DEFINE new == [bytes |-> b, mtime |-> nodes[paths[k].ino].mtime]
<1>1. b \in Seq(Nat)
  BY ArchivePackAssumption
<1>2. paths[k] \in InputPath /\ paths[k].ino \in 1 .. Len(nodes) /\ new \in FileNode
  <2>1. paths[k] \in InputPath /\ paths[k].ino \in 1 .. Len(nodes)
    BY PathFields DEF InputInv, ReplaceInput
  <2>2. nodes[paths[k].ino].mtime \in Nat
    BY <2>1, NodeFields DEF InputInv
  <2>. QED BY <1>1, <2>1, <2>2 DEF FileNode
<1>3. nodes' = Append(nodes, new)
  BY DEF ReplaceInput
<1>4. /\ nodes' \in Seq(FileNode) /\ Len(nodes') = Len(nodes) + 1 /\ Len(nodes) \in Nat
      /\ \A n \in 1 .. Len(nodes) : nodes'[n] = nodes[n]
  BY <1>2, <1>3 DEF InputInv
<1>5. /\ paths' = [paths EXCEPT ![k].ino = Len(nodes')]
      /\ silent' = silent
      /\ held' = Seen(paths', nodes')
  BY DEF ReplaceInput
<1>6. [paths[k] EXCEPT !.ino = Len(nodes')] \in InputPath
  BY <1>2, <1>4 DEF InputPath
<1>7. /\ paths' \in Seq(InputPath) /\ Len(paths') = Len(paths)
      /\ \A j \in 1 .. Len(paths) :
            paths'[j] = (IF j = k THEN [paths[k] EXCEPT !.ino = Len(nodes')] ELSE paths[j])
  BY <1>5, <1>6 DEF InputInv
<1>8. \A j \in 1 .. Len(paths) :
        /\ paths'[j].path = paths[j].path /\ paths'[j].kind = paths[j].kind
        /\ paths'[j].ino = (IF j = k THEN Len(nodes') ELSE paths[j].ino)
  BY <1>2, <1>7 DEF InputPath
<1>9. \A j \in 1 .. Len(paths) : held'[j] = held[j] \cup BytesAt(paths', nodes', j)
  BY <1>5, <1>7 DEF Seen
<1>10. InputInv'
  <2>1. ASSUME NEW j \in 1 .. Len(paths), paths[j].kind = "file"
        PROVE  paths'[j].ino \in 1 .. Len(nodes')
    BY <1>4, <1>8, <2>1 DEF InputInv
  <2>2. ASSUME NEW j \in 1 .. Len(paths), paths[j].kind = "file"
        PROVE  nodes'[paths'[j].ino].bytes \in held'[j]
    BY <1>8, <1>9, <2>2 DEF BytesAt
  <2>. QED BY <1>4, <1>5, <1>7, <1>8, <2>1, <2>2 DEF InputInv
<1>11. Returns
  <2>1. \A m \in 1 .. Len(pk.files) :
            /\ pk.files[m].src \in 1 .. Len(paths)
            /\ pk.files[m].kind = "file" => pk.files[m].ino \in 1 .. Len(nodes)
    BY DEF ScanInv, ScannedOk
  <2>. QED BY <1>4, <1>8, <2>1, SMTT(40) DEF Returns
<1>12. silent <= silent' /\ Len(nodes) <= Len(nodes')
  BY <1>4, <1>5 DEF InputInv
<1>. QED BY <1>4, <1>7, <1>8, <1>9, <1>10, <1>11, <1>12 DEF InputChange

LEMMA ReturnIsChange ==
    ASSUME InputInv, ScanInv, NEW k \in 1 .. Len(paths), NEW i \in 1 .. Len(nodes),
           ReturnInput(k, i)
    PROVE  InputChange
<1>1. nodes' = nodes /\ paths' = [paths EXCEPT ![k].ino = i] /\ held' = Seen(paths', nodes)
  BY DEF ReturnInput
<1>2. paths[k] \in InputPath /\ i \in Nat
  BY PathFields DEF InputInv
<1>3. [paths[k] EXCEPT !.ino = i] \in InputPath
  BY <1>2 DEF InputPath
<1>4. /\ paths' \in Seq(InputPath) /\ Len(paths') = Len(paths)
      /\ \A j \in 1 .. Len(paths) :
            paths'[j] = (IF j = k THEN [paths[k] EXCEPT !.ino = i] ELSE paths[j])
  BY <1>1, <1>3 DEF InputInv
<1>5. \A j \in 1 .. Len(paths) :
        /\ paths'[j].path = paths[j].path /\ paths'[j].kind = paths[j].kind
        /\ paths'[j].ino = (IF j = k THEN i ELSE paths[j].ino)
  BY <1>2, <1>4 DEF InputPath
<1>6. \A j \in 1 .. Len(paths) : held'[j] = held[j] \cup BytesAt(paths', nodes, j)
  BY <1>1, <1>4 DEF Seen
<1>7. silent' \in Nat /\ silent <= silent'
  BY DEF ReturnInput, InputInv
<1>8. InputInv'
  <2>1. ASSUME NEW j \in 1 .. Len(paths), paths[j].kind = "file"
        PROVE  paths'[j].ino \in 1 .. Len(nodes)
    BY <1>5, <2>1 DEF InputInv
  <2>2. ASSUME NEW j \in 1 .. Len(paths), paths[j].kind = "file"
        PROVE  nodes[paths'[j].ino].bytes \in held'[j]
    BY <1>5, <1>6, <2>2 DEF BytesAt
  <2>. QED BY <1>1, <1>4, <1>5, <1>7, <2>1, <2>2 DEF InputInv
<1>9. Returns
  <2>. SUFFICES ASSUME NEW m \in 1 .. Len(pk.files),
                       paths[pk.files[m].src].ino # pk.files[m].ino,
                       paths'[pk.files[m].src].ino = pk.files[m].ino
                PROVE  silent' >= silent + 1
    BY DEF Returns
  <2>1. pk.files[m].src \in 1 .. Len(paths) /\ pk.files[m] \in ToSet(pk.files)
    BY DEF ScanInv, ScannedOk, ToSet
  <2>2. pk.files[m].src = k /\ pk.files[m].ino = i
    BY <1>5, <2>1
  <2>3. silent' = silent + 1
    BY <2>1, <2>2 DEF ReturnInput
  <2>. QED BY <2>3 DEF InputInv
<1>10. Len(nodes) \in Nat /\ Len(nodes) <= Len(nodes')
  BY <1>1 DEF InputInv
<1>11. \A j \in 1 .. Len(paths) : held[j] \subseteq held'[j]
  BY <1>6
<1>. QED BY <1>1, <1>4, <1>5, <1>7, <1>8, <1>9, <1>10, <1>11 DEF InputChange

\* No step on the inputs spoils what pack knows of them.
LEMMA ChangeKeepsScan ==
    ASSUME InputInv, ScanInv, InputChange, UNCHANGED pk
    PROVE  ScanInv'
<1>1. ASSUME NEW k \in 1 .. Len(pk.files) PROVE ScannedOk(pk.files[k])'
  <2>. DEFINE f == pk.files[k]
  <2>1. ScannedOk(f) /\ f \in ScannedFile
    BY DEF ScanInv
  <2>2. f.src \in 1 .. Len(paths) /\ f.path = paths'[f.src].path /\ f.kind = paths'[f.src].kind
    BY <2>1 DEF ScannedOk, InputChange
  <2>3. ASSUME f.kind = "file"
        PROVE  f.ino \in 1 .. Len(nodes') /\ f.mtime <= nodes'[f.ino].mtime
    <3>2. f.ino \in 1 .. Len(nodes) /\ f.mtime <= nodes[f.ino].mtime
      BY <2>1, <2>3 DEF ScannedOk
    <3>3. f.ino \in 1 .. Len(nodes')
      BY <3>2 DEF InputChange, InputInv
    <3>4. nodes[f.ino].mtime \in Nat /\ nodes'[f.ino].mtime \in Nat /\ f.mtime \in Nat
      BY <3>2, <3>3, NodeFields, ScannedFields DEF InputInv, InputChange, ScanInv
    <3>5. nodes[f.ino].mtime <= nodes'[f.ino].mtime
      <4>1. \/ nodes'[f.ino] = nodes[f.ino]
            \/ nodes'[f.ino].mtime > nodes[f.ino].mtime
            \/ nodes'[f.ino].mtime = nodes[f.ino].mtime
        BY <3>2 DEF InputChange
      <4>. HIDE DEF f
      <4>2. nodes'[f.ino].mtime = nodes[f.ino].mtime \/ nodes'[f.ino].mtime > nodes[f.ino].mtime
        BY <4>1
      <4>. QED BY <3>4, <4>2
    <3>6. f.mtime <= nodes'[f.ino].mtime
      BY <3>2, <3>4, <3>5
    <3>. QED BY <3>3, <3>6
  <2>. QED BY <2>2, <2>3 DEF ScannedOk, InputChange
<1>2. ASSUME NEW i \in 1 .. Len(pk.files), NEW k \in 1 .. Len(pk.files)
      PROVE  SharedOk(pk.files[i], pk.files[k])'
  <2>. DEFINE f == pk.files[i]
              g == pk.files[k]
  <2>. SUFFICES ASSUME f.kind = "file", g.kind = "file", f.ino = g.ino, f.src < g.src,
                       silent' = 0, nodes'[f.ino].mtime = f.mtime
                PROVE  nodes'[f.ino].bytes \in held'[g.src]
    BY DEF SharedOk
  <2>1. ScannedOk(f) /\ f \in ScannedFile /\ ScannedOk(g) /\ SharedOk(f, g)
    BY DEF ScanInv
  <2>2. f.ino \in 1 .. Len(nodes) /\ f.mtime <= nodes[f.ino].mtime /\ g.src \in 1 .. Len(paths)
    BY <2>1 DEF ScannedOk
  <2>3. nodes[f.ino].mtime \in Nat /\ f.mtime \in Nat /\ silent \in Nat
    BY <2>2, NodeFields, ScannedFields DEF InputInv, ScanInv
  <2>4. silent = 0
    BY <2>3 DEF InputChange
  <2>5. nodes'[f.ino] = nodes[f.ino]
    <3>1. \/ nodes'[f.ino] = nodes[f.ino]
          \/ nodes'[f.ino].mtime > nodes[f.ino].mtime
          \/ silent' >= silent + 1
      BY <2>2 DEF InputChange
    <3>. QED BY <2>2, <2>3, <2>4, <3>1
  <2>6. nodes[f.ino].bytes \in held[g.src]
    BY <2>1, <2>4, <2>5 DEF SharedOk
  <2>. QED BY <2>2, <2>5, <2>6 DEF InputChange
<1>. QED BY <1>1, <1>2 DEF ScanInv, InScan

LEMMA ChangeKeepsReading ==
    ASSUME InputInv, ScanInv, ReadingInv, HashedInv, InputChange, UNCHANGED pk
    PROVE  ReadingInv'
<1>1. ASSUME pk.pc \in {"read", "recheck"}
      PROVE  LET f == pk.files[pk.at]
             IN  /\ pk.fd \in 1 .. Len(nodes')
                 /\ pk.fd # f.ino => Away(f)'
                 /\ pk.fd = f.ino => (Clean(f)' \/ Excused(pk.at)')
  <2>. DEFINE f == pk.files[pk.at]
  <2>1. pk.at \in 1 .. Len(pk.files) /\ IsSource(pk.files, pk.at)
    BY <1>1 DEF ReadingInv
  <2>2. ScannedOk(f) /\ f \in ScannedFile /\ f.kind = "file"
    BY <2>1 DEF ScanInv, IsSource
  <2>3. pk.fd \in 1 .. Len(nodes) /\ (pk.fd # f.ino => Away(f))
        /\ (pk.fd = f.ino => (Clean(f) \/ Excused(pk.at)))
    BY <1>1 DEF ReadingInv
  <2>4. pk.fd \in 1 .. Len(nodes')
    BY <2>3 DEF InputChange, InputInv
  <2>5. silent \in Nat /\ silent' \in Nat /\ silent <= silent'
    BY DEF InputChange, InputInv
  <2>6. HashHeld(pk.at) => HashHeld(pk.at)'
    <3>1. f.src \in 1 .. Len(paths) /\ held[f.src] \subseteq held'[f.src]
      BY <2>2 DEF ScannedOk, InputChange
    <3>. QED BY <3>1 DEF HashHeld
  <2>7. Excused(pk.at) => Excused(pk.at)'
    BY <2>5, <2>6 DEF Excused
  <2>8. ASSUME silent' >= silent + 1 PROVE Excused(pk.at)'
    <3>1. (pk.pass = 1 \/ pk.pass = 2) /\ (pk.pass = 2 => (silent >= 1 \/ HashHeld(pk.at)))
      BY <1>1, <2>1 DEF HashedInv, InScan
    <3>2. CASE pk.pass = 1
      BY <2>5, <2>8, <3>2 DEF Excused
    <3>3. CASE pk.pass = 2
      BY <2>5, <2>6, <2>8, <3>1, <3>3 DEF Excused
    <3>. QED BY <3>1, <3>2, <3>3
  <2>9. ASSUME pk.fd # f.ino PROVE Away(f)'
    <3>1. CASE paths'[f.src].ino # f.ino
      BY <3>1 DEF Away
    <3>2. CASE paths'[f.src].ino = f.ino /\ paths[f.src].ino # f.ino
      <4>1. silent' >= silent + 1
        BY <2>1, <2>2, <3>2 DEF InputChange, Returns
      <4>. QED BY <2>8, <4>1 DEF Away
    <3>3. CASE paths[f.src].ino = f.ino
      BY <2>3, <2>7, <2>9, <3>3 DEF Away
    <3>. QED BY <3>1, <3>2, <3>3
  <2>10. ASSUME pk.fd = f.ino PROVE Clean(f)' \/ Excused(pk.at)'
    <3>0. nodes \in Seq(FileNode) /\ nodes' \in Seq(FileNode) /\ pk.files \in Seq(ScannedFile)
      BY DEF InputInv, InputChange, ScanInv
    <3>1. nodes[pk.fd].mtime \in Nat /\ nodes'[pk.fd].mtime \in Nat /\ f.mtime \in Nat
          /\ f.mtime <= nodes[pk.fd].mtime
      <4>1. f.mtime <= nodes[pk.fd].mtime
        BY <2>2, <2>10 DEF ScannedOk
      <4>. QED BY <2>1, <2>3, <2>4, <3>0, <4>1, NodeFields, ScannedFields
    <3>2. CASE nodes'[pk.fd] = nodes[pk.fd]
      BY <2>3, <2>7, <2>10, <3>2 DEF Clean
    <3>3. CASE nodes'[pk.fd].mtime > nodes[pk.fd].mtime
      BY <3>1, <3>3 DEF Clean
    <3>. QED BY <2>3, <2>8, <3>2, <3>3 DEF InputChange
  <2>. QED BY <2>4, <2>9, <2>10
<1>. QED BY <1>1 DEF ReadingInv

LEMMA ChangeKeepsHashed ==
    ASSUME InputInv, ScanInv, HashedInv, InputChange, UNCHANGED pk
    PROVE  HashedInv'
<1>1. silent \in Nat /\ silent' \in Nat /\ silent <= silent'
  BY DEF InputChange, InputInv
<1>2. \A k \in 1 .. Len(pk.files) : held[pk.files[k].src] \subseteq held'[pk.files[k].src]
  BY DEF ScanInv, ScannedOk, InputChange
<1>3. \A k \in 1 .. Len(pk.files) : HashHeld(k) => HashHeld(k)'
  BY <1>2 DEF HashHeld
<1>. QED BY <1>1, <1>2, <1>3 DEF HashedInv, InScan

-----------------------------------------------------------------------------
(* pack on inputs that do not change meanwhile.                            *)

InputsStay == UNCHANGED <<paths, nodes, held, silent>>

\* When the call returns nothing is left of what it read.
LEMMA EndsKeepSnap ==
    ASSUME Shapes, InputsStay, NEW r, pk' = PackEnds(r)
    PROVE  PackSnap'
<1>1. /\ pk'.pc = "done" /\ pk'.files = <<>> /\ pk'.at = 1
  BY DEF Shapes, PkFields, PackEnds
<1>2. Len(pk'.files) = 0 /\ pk'.files \in Seq(ScannedFile)
  BY <1>1
<1>3. ScanInv'
  BY <1>1, <1>2 DEF ScanInv, InScan
<1>4. ReadingInv'
  BY <1>1 DEF ReadingInv
<1>5. HashedInv'
  BY <1>1 DEF HashedInv, InScan
<1>. QED BY <1>1, <1>3, <1>4, <1>5 DEF PackSnap

\* The entries of the scan stay what they are while the inputs stay.
LEMMA SameFilesKeep ==
    ASSUME ScanInv, InputsStay, pk'.files = pk.files, pk'.at \in Nat \ {0},
           pk'.pc \notin {"start", "scan"}, InScan' => InScan
    PROVE  ScanInv'
<1>1. ASSUME NEW k \in 1 .. Len(pk.files) PROVE ScannedOk(pk.files[k])'
  BY DEF ScanInv, ScannedOk, InputsStay
<1>2. ASSUME NEW i \in 1 .. Len(pk.files), NEW k \in 1 .. Len(pk.files)
      PROVE  SharedOk(pk.files[i], pk.files[k])'
  BY DEF ScanInv, SharedOk, InputsStay
<1>. QED BY <1>1, <1>2 DEF ScanInv

LEMMA StartKeepsSnap ==
    ASSUME Shapes, PackSnap, InputsStay, PackStart
    PROVE  PackSnap'
<1>1. CASE \E r : pk' = PackEnds(r)
  BY <1>1, EndsKeepSnap
<1>2. CASE pk' = [pk EXCEPT !.pc = "scan"] /\ pk.pc = "start"
  <2>1. /\ pk'.pc = "scan" /\ pk'.files = pk.files /\ pk'.at = pk.at /\ pk'.buf = pk.buf
        /\ pk'.pass = pk.pass
    BY <1>2 DEF Shapes, PkFields
  <2>2. pk.files = <<>> /\ Len(pk.files) = 0
    BY <1>2 DEF PackSnap, ScanInv
  <2>3. ScanInv'
    BY <2>1, <2>2 DEF PackSnap, ScanInv, InScan
  <2>4. ReadingInv'
    BY <1>2, <2>1 DEF PackSnap, ReadingInv
  <2>5. HashedInv'
    BY <1>2, <2>1 DEF PackSnap, HashedInv, InScan
  <2>. QED BY <2>1, <2>3, <2>4, <2>5 DEF PackSnap
<1>. QED BY <1>1, <1>2 DEF PackStart, PackStep, PackCheckpoint

\* The next path: a link to a file met before leads to that file now.
LEMMA ScanNodeKeepsSnap ==
    ASSUME Shapes, InputInv, PackSnap, InputsStay, ScanNode
    PROVE  PackSnap'
<1>1. CASE \E r : pk' = PackEnds(r)
  BY <1>1, EndsKeepSnap
<1>2. CASE pk' = [pk EXCEPT !.files = Append(@, Scanned(pk.at)), !.at = @ + 1]
  <2>. DEFINE new == Scanned(pk.at)
              n == Len(pk.files)
  <2>1. /\ pk'.pc = pk.pc /\ pk'.files = Append(pk.files, new) /\ pk'.at = pk.at + 1
        /\ pk'.buf = pk.buf /\ pk'.pass = pk.pass
    BY <1>2 DEF Shapes, PkFields
  <2>2. pk.pc = "scan" /\ pk.at \in 1 .. Len(paths)
    BY DEF ScanNode, PackStep, PackSnap, ScanInv, InputInv
  <2>3. /\ paths[pk.at] \in InputPath
        /\ paths[pk.at].kind = "file" =>
            /\ paths[pk.at].ino \in 1 .. Len(nodes)
            /\ nodes[paths[pk.at].ino].mtime \in Nat /\ nodes[paths[pk.at].ino].bytes \in Seq(Nat)
    <3>1. paths[pk.at] \in InputPath
          /\ (paths[pk.at].kind = "file" => paths[pk.at].ino \in 1 .. Len(nodes))
      BY <2>2, PathFields DEF InputInv
    <3>. QED BY <3>1, NodeFields DEF InputInv
  <2>4. new \in ScannedFile
    BY <2>2, <2>3 DEF Scanned, ScannedFile, InputPath, NoFile
  <2>5. ScannedOk(new) /\ new.src = pk.at /\ (new.kind = "file" => new.ino = paths[pk.at].ino)
        /\ (new.kind = "file" => paths[pk.at].kind = "file")
    BY <2>2, <2>3 DEF Scanned, ScannedOk
  <2>. HIDE DEF new
  <2>6. /\ pk'.files \in Seq(ScannedFile) /\ Len(pk'.files) = n + 1 /\ n \in Nat
        /\ \A k \in 1 .. n : pk'.files[k] = pk.files[k]
        /\ pk'.files[n + 1] = new
    BY <2>1, <2>4 DEF PackSnap, ScanInv
  <2>7. \A k \in 1 .. n : pk.files[k].src < pk.at /\ pk.files[k].src \in Nat
    BY <2>2, ScannedFields DEF PackSnap, ScanInv
  <2>8. ASSUME NEW k \in 1 .. (n + 1) PROVE ScannedOk(pk.files[k])'
    <3>1. ScannedOk(pk'.files[k])
      BY <2>5, <2>6, <2>8 DEF PackSnap, ScanInv
    <3>. QED BY <3>1 DEF ScannedOk, InputsStay
  <2>9. ASSUME NEW i \in 1 .. (n + 1), NEW k \in 1 .. (n + 1)
        PROVE  SharedOk(pk.files[i], pk.files[k])'
    <3>1. CASE i \in 1 .. n /\ k \in 1 .. n
      <4>1. SharedOk(pk.files[i], pk.files[k])
        BY <3>1 DEF PackSnap, ScanInv
      <4>. QED BY <2>6, <3>1, <4>1 DEF SharedOk, InputsStay
    <3>2. CASE i \in 1 .. n /\ k = n + 1
      <4>1. ASSUME new.kind = "file" PROVE nodes[new.ino].bytes \in held[new.src]
        BY <2>2, <2>5, <4>1 DEF InputInv
      <4>. QED BY <2>6, <3>2, <4>1 DEF SharedOk, InputsStay
    <3>3. CASE i = n + 1 /\ k \in 1 .. n
      <4>1. pk'.files[i].src = pk.at /\ pk.at \in Nat
        BY <2>2, <2>5, <2>6, <3>3
      <4>2. pk'.files[k].src < pk.at /\ pk'.files[k].src \in Nat
        BY <2>6, <2>7, <3>3
      <4>3. ~(pk'.files[i].src < pk'.files[k].src)
        BY <4>1, <4>2
      <4>. QED BY <4>3 DEF SharedOk
    <3>4. CASE i = n + 1 /\ k = n + 1
      <4>1. ~(pk'.files[i].src < pk'.files[k].src)
        BY <2>2, <2>5, <2>6, <3>4
      <4>. QED BY <4>1 DEF SharedOk
    <3>. QED BY <2>6, <3>1, <3>2, <3>3, <3>4
  <2>10. \A k \in 1 .. (n + 1) : pk'.files[k].src < pk'.at
    BY <2>1, <2>2, <2>5, <2>6, <2>7
  <2>11. pk'.at \in Nat \ {0}
    BY <2>1, <2>2
  <2>12. ScanInv'
    BY <2>1, <2>2, <2>6, <2>8, <2>9, <2>10, <2>11 DEF ScanInv, InScan
  <2>13. ReadingInv'
    BY <2>1, <2>2 DEF PackSnap, ReadingInv
  <2>14. HashedInv'
    BY <2>1, <2>2 DEF PackSnap, HashedInv, InScan
  <2>. QED BY <2>1, <2>2, <2>12, <2>13, <2>14 DEF PackSnap
<1>. QED BY <1>1, <1>2 DEF ScanNode, PackStep, PackCheckpoint

\* Sorting moves the entries about and changes none.
LEMMA ScanDoneKeepsSnap ==
    ASSUME Shapes, PackSnap, InputsStay, ScanDone
    PROVE  PackSnap'
<1>1. CASE \E r : pk' = PackEnds(r)
  BY <1>1, EndsKeepSnap
<1>. DEFINE n == Len(pk.files)
            unread == [k \in 1 .. n |-> <<>>]
            Next1(s) == [pk EXCEPT !.pc = "check", !.at = 1, !.files = s, !.hashed = unread,
                            !.got = unread]
<1>2. CASE pk.pc = "scan" /\ \E s \in SortedByPath(pk.files) : pk' = Next1(s)
  <2>1. PICK s \in SortedByPath(pk.files) : pk' = Next1(s)
    BY <1>2
  <2>2. /\ pk'.pc = "check" /\ pk'.at = 1 /\ pk'.files = s /\ pk'.hashed = unread
        /\ pk'.buf = pk.buf /\ pk'.pass = pk.pass
    BY <2>1 DEF Shapes, PkFields
  <2>3. /\ s \in [1 .. n -> ToSet(pk.files)] /\ n \in Nat
        /\ \A i, k \in 1 .. n : i < k => s[i].path < s[k].path
    BY DEF SortedByPath, PackSnap, ScanInv
  <2>4. /\ ToSet(pk.files) \subseteq ScannedFile
        /\ \A f \in ToSet(pk.files) : \E k \in 1 .. n : f = pk.files[k]
    BY DEF ToSet, PackSnap, ScanInv
  <2>5. s \in Seq(ScannedFile) /\ Len(s) = n
    BY <2>3, <2>4
  <2>6. \A k \in 1 .. n : \E m \in 1 .. n : s[k] = pk.files[m]
    BY <2>3, <2>4
  <2>7. ASSUME NEW k \in 1 .. n PROVE ScannedOk(s[k])'
    <3>1. ScannedOk(s[k])
      BY <2>6 DEF PackSnap, ScanInv
    <3>2. s' = s
      OBVIOUS
    <3>. QED BY <3>1 DEF ScannedOk, InputsStay
  <2>8. ASSUME NEW i \in 1 .. n, NEW k \in 1 .. n PROVE SharedOk(s[i], s[k])'
    <3>1. SharedOk(s[i], s[k])
      <4>1. PICK mi \in 1 .. n : s[i] = pk.files[mi]
        BY <2>6
      <4>2. PICK mk \in 1 .. n : s[k] = pk.files[mk]
        BY <2>6
      <4>. QED BY <4>1, <4>2 DEF PackSnap, ScanInv
    <3>. QED BY <3>1 DEF SharedOk, InputsStay
  <2>9. ScanInv'
    BY <2>2, <2>3, <2>5, <2>7, <2>8 DEF ScanInv, InScan
  <2>10. ReadingInv'
    BY <1>2, <2>2 DEF PackSnap, ReadingInv
  <2>11. HashedInv'
    <3>1. pk'.pass = 1 /\ DOMAIN pk'.hashed = 1 .. Len(pk'.files)
      BY <1>2, <2>2, <2>5 DEF PackSnap, HashedInv
    <3>2. \A k \in 1 .. Len(pk'.files) : ~(k < pk'.at)
      BY <2>2
    <3>. QED BY <2>2, <3>1, <3>2 DEF HashedInv, InScan
  <2>. QED BY <2>2, <2>9, <2>10, <2>11 DEF PackSnap
<1>. QED BY <1>1, <1>2 DEF ScanDone, PackStep

\* The steps that only move on leave what is known of the sources alone.
LEMMA HashedStays ==
    ASSUME HashedInv, InputsStay, InScan, InScan', pk'.pc # "build",
           pk'.files = pk.files, pk'.hashed = pk.hashed, pk'.pass = pk.pass, pk'.at = pk.at
    PROVE  HashedInv'
<1>1. InScan /\ pk'.pc \notin {"start", "scan", "build"}
  BY DEF InScan
<1>. QED BY <1>1 DEF HashedInv, HashHeld, InputsStay

LEMMA PassKeepsSnap ==
    ASSUME Shapes, InputInv, PackSnap, InputsStay, PassEntry
    PROVE  PackSnap'
<1>1. CASE \E r : pk' = PackEnds(r)
  BY <1>1, EndsKeepSnap
<1>2. CASE pk' = [pk EXCEPT !.at = @ + 1]
  <2>1. /\ pk.pc = "check" /\ pk'.pc = "check" /\ pk'.files = pk.files /\ pk'.at = pk.at + 1
        /\ pk'.buf = pk.buf /\ pk'.pass = pk.pass /\ pk'.hashed = pk.hashed
    BY <1>2 DEF PassEntry, PackStep, Shapes, PkFields
  <2>2. pk.at \in Nat \ {0} /\ ~IsSource(pk.files, pk.at)
    BY DEF PassEntry, PackSnap, ScanInv
  <2>3. ScanInv'
    BY <2>1, <2>2, SameFilesKeep DEF PackSnap, InScan
  <2>4. ReadingInv'
    BY <2>1 DEF PackSnap, ReadingInv
  <2>5. \A k \in 1 .. Len(pk.files) :
            (IsSource(pk.files, k) /\ k < pk.at + 1) => k < pk.at
    BY <2>2
  <2>6. HashedInv'
    BY <2>1, <2>5 DEF PackSnap, HashedInv, InScan, HashHeld, InputsStay
  <2>. QED BY <2>1, <2>3, <2>4, <2>6 DEF PackSnap
<1>. QED BY <1>1, <1>2 DEF PassEntry, PackStep, PackCheckpoint

LEMMA CheckKeepsSnap ==
    ASSUME Shapes, InputInv, PackSnap, InputsStay, CheckInput
    PROVE  PackSnap'
<1>1. CASE \E r : pk' = PackEnds(r)
  BY <1>1, EndsKeepSnap
<1>2. CASE pk' = [pk EXCEPT !.pc = "open"]
  <2>1. /\ pk.pc = "check" /\ pk'.pc = "open" /\ pk'.files = pk.files /\ pk'.at = pk.at
        /\ pk'.buf = pk.buf /\ pk'.pass = pk.pass /\ pk'.hashed = pk.hashed
    BY <1>2 DEF CheckInput, PackStep, Shapes, PkFields
  <2>2. pk.at \in Nat \ {0} /\ pk.at \in 1 .. Len(pk.files) /\ IsSource(pk.files, pk.at)
    BY DEF CheckInput, PackSnap, ScanInv
  <2>3. ScanInv'
    BY <2>1, <2>2, SameFilesKeep DEF PackSnap, InScan
  <2>4. ReadingInv'
    BY <2>1, <2>2 DEF PackSnap, ReadingInv
  <2>5. HashedInv'
    BY <2>1, HashedStays DEF PackSnap, InScan
  <2>. QED BY <2>1, <2>3, <2>4, <2>5 DEF PackSnap
<1>. QED BY <1>1, <1>2 DEF CheckInput, PackStep, PackCheckpoint

\* The file opened is the one the path leads to now, which may not be the one scanned.
LEMMA OpenKeepsSnap ==
    ASSUME Shapes, InputInv, PackSnap, InputsStay, OpenInput
    PROVE  PackSnap'
<1>. DEFINE f == pk.files[pk.at]
<1>1. /\ pk.pc = "open" /\ pk'.pc = "read" /\ pk'.files = pk.files /\ pk'.at = pk.at
      /\ pk'.buf = pk.buf /\ pk'.pass = pk.pass /\ pk'.hashed = pk.hashed
      /\ pk'.fd = paths[f.src].ino
  BY DEF OpenInput, PackStep, Shapes, PkFields
<1>2. /\ pk.at \in Nat \ {0} /\ pk.at \in 1 .. Len(pk.files) /\ IsSource(pk.files, pk.at)
      /\ pk.buf = <<>>
  BY <1>1 DEF PackSnap, ReadingInv, ScanInv
<1>3. ScanInv'
  BY <1>1, <1>2, SameFilesKeep DEF PackSnap, InScan
<1>4. ScannedOk(f) /\ f.kind = "file"
  BY <1>2 DEF PackSnap, ScanInv, IsSource
<1>5. f.src \in 1 .. Len(paths) /\ paths[f.src].kind = "file"
  BY <1>4 DEF ScannedOk
<1>6. paths[f.src].ino \in 1 .. Len(nodes) /\ paths[f.src].ino \in Nat
  BY <1>5, PathFields DEF InputInv
<1>7. Clean(f)'
  <2>1. nodes[pk'.fd].bytes \in Seq(Nat)
    BY <1>1, <1>6, NodeFields DEF InputInv
  <2>2. pk'.buf = <<>> /\ Len(pk'.buf) = 0
    BY <1>1, <1>2
  <2>3. Len(pk'.buf) <= Len(nodes[pk'.fd].bytes)
    BY <2>1, <2>2
  <2>4. \A i \in 1 .. Len(pk'.buf) : pk'.buf[i] = nodes[pk'.fd].bytes[i]
    BY <2>2
  <2>. QED BY <2>3, <2>4 DEF Clean, InputsStay
<1>8. ReadingInv'
  <2>1. pk'.buf \in Seq(Nat) /\ pk'.fd \in 1 .. Len(nodes)
    BY <1>1, <1>2, <1>6
  <2>2. pk'.fd # f.ino => Away(f)'
    BY <1>1 DEF Away, InputsStay
  <2>. QED BY <1>1, <1>2, <1>7, <2>1, <2>2 DEF ReadingInv, InputsStay
<1>9. HashedInv'
  BY <1>1, HashedStays DEF PackSnap, InScan
<1>. QED BY <1>1, <1>3, <1>8, <1>9 DEF PackSnap

\* One more unit of the file: what was read is still the beginning of it.
LEMMA ReadKeepsSnap ==
    ASSUME Shapes, InputInv, PackSnap, InputsStay, ReadInput
    PROVE  PackSnap'
<1>. DEFINE f == pk.files[pk.at]
            bytes == nodes[pk.fd].bytes
<1>1. CASE \E r : pk' = PackEnds(r)
  BY <1>1, EndsKeepSnap
<1>2. /\ pk.pc = "read" /\ pk.at \in Nat \ {0} /\ pk.at \in 1 .. Len(pk.files)
      /\ IsSource(pk.files, pk.at) /\ pk.buf \in Seq(Nat) /\ pk.fd \in 1 .. Len(nodes)
      /\ pk.fd # f.ino => Away(f)
      /\ pk.fd = f.ino => (Clean(f) \/ Excused(pk.at))
  BY DEF ReadInput, PackSnap, ReadingInv, ScanInv
<1>3. bytes \in Seq(Nat)
  BY <1>2, NodeFields DEF InputInv
<1>4. ASSUME pk'.pc \in {"read", "recheck"}, pk'.files = pk.files, pk'.at = pk.at,
             pk'.fd = pk.fd, pk'.pass = pk.pass, pk'.hashed = pk.hashed,
             pk'.buf \in Seq(Nat), Clean(f) => Clean(f)'
      PROVE  PackSnap'
  <2>1. ScanInv'
    BY <1>2, <1>4, SameFilesKeep DEF PackSnap, InScan
  <2>2. HashedInv'
    BY <1>2, <1>4, HashedStays DEF PackSnap, InScan
  <2>3. Excused(pk.at) => Excused(pk.at)'
    BY <1>4 DEF Excused, HashHeld, InputsStay
  <2>4. ReadingInv'
    <3>1. Away(f) => Away(f)'
      BY <1>4, <2>3 DEF Away, InputsStay
    <3>. QED BY <1>2, <1>4, <2>3, <3>1 DEF ReadingInv, InputsStay
  <2>. QED BY <1>4, <2>1, <2>2, <2>4 DEF PackSnap
<1>5. CASE pk' = [pk EXCEPT !.pc = "recheck"]
  <2>1. /\ pk'.pc = "recheck" /\ pk'.files = pk.files /\ pk'.at = pk.at /\ pk'.fd = pk.fd
        /\ pk'.pass = pk.pass /\ pk'.hashed = pk.hashed /\ pk'.buf = pk.buf
    BY <1>5 DEF Shapes, PkFields
  <2>2. Clean(f) => Clean(f)'
    BY <2>1 DEF Clean, InputsStay
  <2>. QED BY <1>2, <1>4, <2>1, <2>2
<1>6. CASE pk' = [pk EXCEPT !.buf = Append(@, bytes[Len(@) + 1])] /\ ~(Len(pk.buf) >= Len(bytes))
  <2>1. /\ pk'.pc = pk.pc /\ pk'.files = pk.files /\ pk'.at = pk.at /\ pk'.fd = pk.fd
        /\ pk'.pass = pk.pass /\ pk'.hashed = pk.hashed
        /\ pk'.buf = Append(pk.buf, bytes[Len(pk.buf) + 1])
    BY <1>6 DEF Shapes, PkFields
  <2>0. ~(Len(pk.buf) >= Len(bytes)) /\ Len(pk.buf) \in Nat /\ Len(bytes) \in Nat
    BY <1>2, <1>3, <1>6
  <2>2. Len(pk.buf) + 1 \in 1 .. Len(bytes) /\ Len(pk.buf) \in Nat
    BY <2>0
  <2>3. bytes[Len(pk.buf) + 1] \in Nat
    <3>. HIDE DEF bytes
    <3>. QED BY <1>3, <2>2
  <2>4. /\ pk'.buf \in Seq(Nat) /\ Len(pk'.buf) = Len(pk.buf) + 1
        /\ \A i \in 1 .. Len(pk.buf) : pk'.buf[i] = pk.buf[i]
        /\ pk'.buf[Len(pk.buf) + 1] = bytes[Len(pk.buf) + 1]
    BY <1>2, <2>1, <2>3
  <2>5. ASSUME Clean(f) PROVE Clean(f)'
    <3>1. CASE nodes[pk.fd].mtime # f.mtime
      BY <2>1, <3>1 DEF Clean, InputsStay
    <3>2. CASE \A i \in 1 .. Len(pk.buf) : pk.buf[i] = bytes[i]
      <4>1. Len(pk'.buf) <= Len(bytes)
        BY <1>3, <2>2, <2>4
      <4>2. \A i \in 1 .. Len(pk'.buf) : pk'.buf[i] = bytes[i]
        BY <2>2, <2>4, <3>2, SMTT(40)
      <4>. QED BY <2>1, <4>1, <4>2 DEF Clean, InputsStay
    <3>. QED BY <2>5, <3>1, <3>2 DEF Clean
  <2>. QED BY <1>2, <1>4, <2>1, <2>4, <2>5
<1>. QED BY <1>1, <1>5, <1>6 DEF ReadInput, PackStep, PackCheckpoint

\* Two sequences with the same elements are one.
LEMMA SameSequence ==
    ASSUME NEW s \in Seq(Nat), NEW t \in Seq(Nat), Len(s) = Len(t),
           \A i \in 1 .. Len(s) : s[i] = t[i]
    PROVE  s = t
<1>. DEFINE n == Len(s)
<1>1. n \in Nat /\ s \in [1 .. n -> Nat] /\ t \in [1 .. n -> Nat]
  OBVIOUS
<1>2. \A i \in 1 .. n : s[i] = t[i]
  OBVIOUS
<1>. HIDE DEF n
<1>. QED BY <1>1, <1>2

\* What passed the checks after the last read is what the path held: the path leads
\* to the file scanned, so that is the file that was opened unless it was put back since,
\* and its mtime is the one scanned, so nothing but a silent write came between two reads.
LEMMA RecheckedIsHeld ==
    ASSUME InputInv, PackSnap, pk.pc = "recheck", Rechecked(pk.at)
    PROVE  LET f == pk.files[pk.at]
           IN  /\ pk.at \in 1 .. Len(pk.files) /\ IsSource(pk.files, pk.at) /\ f.kind = "file"
               /\ nodes[f.ino].mtime = f.mtime
               /\ \/ Excused(pk.at)
                  \/ pk.buf = nodes[f.ino].bytes /\ pk.buf \in held[f.src]
<1>. DEFINE f == pk.files[pk.at]
<1>1. /\ pk.at \in 1 .. Len(pk.files) /\ IsSource(pk.files, pk.at)
      /\ pk.buf \in Seq(Nat) /\ pk.fd \in 1 .. Len(nodes)
      /\ pk.fd # f.ino => Away(f)
      /\ pk.fd = f.ino => (Clean(f) \/ Excused(pk.at))
  BY DEF PackSnap, ReadingInv, ScanInv
<1>2. ScannedOk(f) /\ f.kind = "file" /\ f.ino \in Nat
  BY <1>1, ScannedFields DEF PackSnap, ScanInv, IsSource
<1>3. f.src \in 1 .. Len(paths) /\ paths[f.src].kind = "file"
  BY <1>2 DEF ScannedOk
<1>4. /\ paths[f.src].ino = f.ino /\ nodes[f.ino].mtime = f.mtime
      /\ Len(nodes[f.ino].bytes) = f.len /\ Len(pk.buf) = f.len
  BY DEF Rechecked, Unchanged
<1>5. pk.fd = f.ino \/ Excused(pk.at)
  BY <1>1, <1>4 DEF Away
<1>6. nodes[f.ino].bytes \in Seq(Nat) /\ nodes[f.ino].bytes \in held[f.src]
  <2>1. f.ino \in 1 .. Len(nodes)
    BY <1>2 DEF ScannedOk
  <2>. QED BY <1>3, <1>4, <2>1, NodeFields DEF InputInv
<1>7. ASSUME Clean(f), pk.fd = f.ino PROVE pk.buf = nodes[f.ino].bytes
  <2>1. \A i \in 1 .. Len(pk.buf) : pk.buf[i] = nodes[f.ino].bytes[i]
    BY <1>4, <1>7, SMTT(40) DEF Clean
  <2>. DEFINE bytes == nodes[f.ino].bytes
  <2>2. bytes \in Seq(Nat) /\ pk.buf \in Seq(Nat) /\ Len(bytes) = Len(pk.buf)
        /\ \A i \in 1 .. Len(pk.buf) : pk.buf[i] = bytes[i]
    BY <1>1, <1>4, <1>6, <2>1
  <2>. HIDE DEF bytes
  <2>3. pk.buf = bytes
    BY <2>2, SameSequence
  <2>. QED BY <2>3 DEF bytes
<1>. QED BY <1>1, <1>2, <1>4, <1>5, <1>6, <1>7

LEMMA CloseKeepsSnap ==
    ASSUME Shapes, InputInv, PackSnap, InputsStay, CloseInput
    PROVE  PackSnap'
<1>. DEFINE f == pk.files[pk.at]
            h == pk'.hashed
<1>1. CASE \E r : pk' = PackEnds(r)
  BY <1>1, EndsKeepSnap
<1>2. CASE /\ Rechecked(pk.at)
           /\ pk' = [pk EXCEPT !.pc = "check", !.at = @ + 1, !.fd = NoFile, !.buf = <<>>,
                        !.hashed[pk.at] = IF pk.pass = 1 THEN pk.buf ELSE @,
                        !.got[pk.at] = pk.buf]
  <2>1. /\ pk.pc = "recheck" /\ pk'.pc = "check" /\ pk'.files = pk.files /\ pk'.at = pk.at + 1
        /\ pk'.buf = <<>> /\ pk'.pass = pk.pass
        /\ h = [pk.hashed EXCEPT ![pk.at] = IF pk.pass = 1 THEN pk.buf ELSE @]
    BY <1>2 DEF CloseInput, PackStep, Shapes, PkFields
  <2>2. /\ pk.at \in 1 .. Len(pk.files) /\ IsSource(pk.files, pk.at) /\ f.kind = "file"
        /\ nodes[f.ino].mtime = f.mtime
        /\ \/ Excused(pk.at)
           \/ pk.buf = nodes[f.ino].bytes /\ pk.buf \in held[f.src]
    BY <1>2, <2>1, RecheckedIsHeld
  <2>3. pk.at \in Nat \ {0} /\ silent \in Nat
    BY DEF PackSnap, ScanInv, InputInv
  <2>4. /\ DOMAIN pk.hashed = 1 .. Len(pk.files) /\ (pk.pass = 1 \/ pk.pass = 2)
        /\ \A k \in 1 .. Len(pk.files) :
            (IsSource(pk.files, k) /\ (pk.pass = 2 \/ k < pk.at)) =>
                /\ silent >= 1 \/ HashHeld(k)
                /\ (pk.pass = 2 /\ k < pk.at) => (silent >= 2 \/ HashHeld(k))
                /\ \A i \in 1 .. Len(pk.files) :
                    (/\ pk.files[i].kind = "file" /\ pk.files[i].ino = pk.files[k].ino
                     /\ pk.files[k].src < pk.files[i].src /\ silent = 0) =>
                        pk.hashed[k] \in held[pk.files[i].src]
    BY <2>1 DEF PackSnap, HashedInv, InScan
  <2>5. /\ DOMAIN h = 1 .. Len(pk.files)
        /\ h[pk.at] = (IF pk.pass = 1 THEN pk.buf ELSE pk.hashed[pk.at])
        /\ \A k \in 1 .. Len(pk.files) : k # pk.at => h[k] = pk.hashed[k]
    BY <2>1, <2>2, <2>4
  <2>6. h[pk.at] = pk.buf
    BY <1>2, <2>4, <2>5 DEF Rechecked, SameAsHashed
  <2>7. ASSUME NEW i \in 1 .. Len(pk.files), pk.files[i].kind = "file", pk.files[i].ino = f.ino,
               f.src < pk.files[i].src, silent = 0
        PROVE  nodes[f.ino].bytes \in held[pk.files[i].src]
    <3>1. SharedOk(f, pk.files[i])
      BY <2>2 DEF PackSnap, ScanInv
    <3>. QED BY <2>2, <2>7, <3>1 DEF SharedOk
  <2>8. ASSUME pk.pass = 1
        PROVE  /\ silent >= 1 \/ h[pk.at] \in held[f.src]
               /\ \A i \in 1 .. Len(pk.files) :
                    (/\ pk.files[i].kind = "file" /\ pk.files[i].ino = f.ino
                     /\ f.src < pk.files[i].src /\ silent = 0) =>
                        h[pk.at] \in held[pk.files[i].src]
    BY <2>2, <2>3, <2>6, <2>7, <2>8 DEF Excused
  <2>9. ASSUME pk.pass = 2 PROVE silent >= 2 \/ h[pk.at] \in held[f.src]
    BY <2>2, <2>5, <2>6, <2>9 DEF Excused, HashHeld
  <2>10. ASSUME NEW k \in 1 .. Len(pk.files), IsSource(pk.files, k), pk.pass = 2 \/ k < pk.at + 1
         PROVE  /\ silent >= 1 \/ h[k] \in held[pk.files[k].src]
                /\ (pk.pass = 2 /\ k < pk.at + 1) => (silent >= 2 \/ h[k] \in held[pk.files[k].src])
                /\ \A i \in 1 .. Len(pk.files) :
                    (/\ pk.files[i].kind = "file" /\ pk.files[i].ino = pk.files[k].ino
                     /\ pk.files[k].src < pk.files[i].src /\ silent = 0) =>
                        h[k] \in held[pk.files[i].src]
    <3>. HIDE DEF h
    <3>1. CASE k = pk.at /\ pk.pass = 1
      BY <2>8, <3>1
    <3>2. CASE pk.pass = 2 /\ k = pk.at
      <4>1. h[k] = pk.hashed[k]
        BY <2>5, <3>2
      <4>. QED BY <2>2, <2>4, <2>9, <3>2, <4>1 DEF HashHeld
    <3>3. CASE k # pk.at
      <4>1. (pk.pass = 2 \/ k < pk.at) /\ (k < pk.at + 1 => k < pk.at) /\ h[k] = pk.hashed[k]
        BY <2>3, <2>5, <2>10, <3>3
      <4>. QED BY <2>4, <2>10, <4>1 DEF HashHeld
    <3>. QED BY <2>4, <3>1, <3>2, <3>3
  <2>11. HashedInv'
    BY <2>1, <2>4, <2>5, <2>10 DEF HashedInv, HashHeld, InScan, InputsStay
  <2>12. pk'.at \in Nat \ {0}
    BY <2>1, <2>3
  <2>13. ScanInv'
    BY <2>1, <2>12, SameFilesKeep DEF PackSnap, InScan
  <2>14. ReadingInv'
    BY <2>1 DEF ReadingInv
  <2>. QED BY <2>1, <2>11, <2>13, <2>14 DEF PackSnap
<1>. QED BY <1>1, <1>2 DEF CloseInput, PackStep

LEMMA EndPassKeepsSnap ==
    ASSUME Shapes, InputInv, PackSnap, InputsStay, EndPass
    PROVE  PackSnap'
<1>0. /\ pk.pc = "check" /\ pk.at > Len(pk.files) /\ pk.at \in Nat \ {0} /\ Len(pk.files) \in Nat
      /\ pk.buf = <<>>
  BY DEF EndPass, PackStep, PackSnap, ScanInv, ReadingInv
<1>1. CASE pk' = [pk EXCEPT !.pass = 2, !.at = 1] /\ pk.pass = 1
  <2>1. /\ pk'.pc = "check" /\ pk'.files = pk.files /\ pk'.at = 1
        /\ pk'.buf = pk.buf /\ pk'.pass = 2 /\ pk'.hashed = pk.hashed
    BY <1>0, <1>1 DEF Shapes, PkFields
  <2>2. ScanInv'
    BY <1>0, <2>1, SameFilesKeep DEF PackSnap, InScan
  <2>3. ReadingInv'
    BY <1>0, <2>1 DEF ReadingInv
  <2>4. \A k \in 1 .. Len(pk.files) : k < pk.at /\ ~(k < 1)
    BY <1>0
  <2>5. HashedInv'
    BY <1>0, <1>1, <2>1, <2>4 DEF PackSnap, HashedInv, HashHeld, InScan, InputsStay
  <2>. QED BY <2>1, <2>2, <2>3, <2>5 DEF PackSnap
<1>2. CASE pk' = [pk EXCEPT !.pc = "build"] /\ ~(pk.profile = "compressed" /\ pk.pass = 1)
  <2>1. /\ pk'.pc = "build" /\ pk'.files = pk.files /\ pk'.at = pk.at /\ pk'.profile = pk.profile
        /\ pk'.pass = pk.pass /\ pk'.hashed = pk.hashed
    BY <1>2 DEF Shapes, PkFields
  <2>2. ScanInv'
    BY <1>0, <2>1, SameFilesKeep DEF PackSnap, InScan
  <2>3. ReadingInv'
    BY <2>1 DEF ReadingInv
  <2>4. pk.pass \in {1, 2}
    BY <1>0 DEF PackSnap, HashedInv, InScan
  <2>5. HashedInv'
    BY <1>0, <1>2, <2>1, <2>4 DEF PackSnap, HashedInv, HashHeld, InScan, InputsStay
  <2>. QED BY <2>1, <2>2, <2>3, <2>5 DEF PackSnap
<1>. QED BY <1>1, <1>2 DEF EndPass, PackStep

\* The entry table that pack writes: each file with what was read of its source.
LEMMA BuiltIsSnapshot ==
    ASSUME InputInv, PackSnap, pk.pc = "build"
    PROVE  Snapshots(Build(pk.profile, pk.files, pk.hashed, pk.got))
<1>. DEFINE a == Build(pk.profile, pk.files, pk.hashed, pk.got)
            fs == pk.files
<1>1. /\ fs \in Seq(ScannedFile) /\ Len(fs) \in Nat /\ pk.at > Len(fs) /\ pk.at \in Nat
      /\ pk.profile = "compressed" => pk.pass = 2
      /\ \A i, k \in 1 .. Len(fs) : i < k => fs[i].path < fs[k].path
      /\ \A k \in 1 .. Len(fs) : ScannedOk(fs[k])
      /\ silent \in Nat /\ Len(paths) \in Nat
  <2>1. /\ fs \in Seq(ScannedFile) /\ pk.at \in Nat
        /\ \A i, k \in 1 .. Len(fs) : i < k => fs[i].path < fs[k].path
        /\ \A k \in 1 .. Len(fs) : ScannedOk(fs[k])
    BY DEF PackSnap, ScanInv, InScan
  <2>2. pk.at > Len(fs) /\ (pk.profile = "compressed" => pk.pass = 2)
    BY DEF PackSnap, HashedInv
  <2>3. silent \in Nat /\ Len(paths) \in Nat
    BY DEF InputInv
  <2>4. Len(fs) \in Nat
    BY <2>1
  <2>. QED BY <2>1, <2>2, <2>3, <2>4
<1>2. /\ a.registry = (IF pk.profile = "compressed" THEN "codecs" ELSE "absent")
      /\ Len(a.entries) = Len(fs)
      /\ \A k \in 1 .. Len(fs) :
            LET e == a.entries[k]
            IN  /\ e.path = fs[k].path
                /\ fs[k].kind # "file" => e.kind = fs[k].kind
                /\ IsSource(fs, k) => (e.kind = "file" /\ e.hash = pk.hashed[k])
                /\ (fs[k].kind = "file" /\ ~IsSource(fs, k)) =>
                    /\ e.kind = "hardlink" /\ e.target = SourceOf(fs, k)
                    /\ e.hash = pk.hashed[SourceOf(fs, k)]
  BY <1>1, BuildEntries
<1>. HIDE DEF a
<1>3. \A k \in 1 .. Len(fs) : IsSource(fs, k) =>
        /\ silent >= 1 \/ HashHeld(k)
        /\ pk.pass = 2 => (silent >= 2 \/ HashHeld(k))
        /\ \A i \in 1 .. Len(fs) :
            (/\ fs[i].kind = "file" /\ fs[i].ino = fs[k].ino
             /\ fs[k].src < fs[i].src /\ silent = 0) => pk.hashed[k] \in held[fs[i].src]
  <2>1. \A k \in 1 .. Len(fs) : k < pk.at
    BY <1>1
  <2>. QED BY <2>1 DEF PackSnap, HashedInv, InScan
<1>4. ASSUME NEW k \in 1 .. Len(fs)
      PROVE  LET e == a.entries[k]
             IN  \/ e.kind \notin {"file", "hardlink"}
                 \/ silent > (IF a.registry = "codecs" /\ e.kind = "file" THEN 1 ELSE 0)
                 \/ \E j \in 1 .. Len(paths) :
                     paths[j].path = e.path /\ HeldOrEarly(j, e, a.entries[e.target])
  <2>. DEFINE e == a.entries[k]
              j == fs[k].src
  <2>1. /\ fs[k] \in ScannedFile /\ j \in 1 .. Len(paths) /\ paths[j].path = fs[k].path
    BY <1>1 DEF ScannedOk
  <2>2. CASE fs[k].kind # "file"
    <3>1. fs[k].kind \in {"dir", "symlink", "unsafe"}
      BY <2>1, <2>2 DEF ScannedFile
    <3>. QED BY <1>2, <2>2, <3>1
  <2>3. CASE IsSource(fs, k)
    <3>1. e.path = fs[k].path /\ e.kind = "file" /\ e.hash = pk.hashed[k]
      BY <1>2, <2>3
    <3>2. CASE HashHeld(k)
      BY <2>1, <3>1, <3>2 DEF HashHeld, HeldOrEarly
    <3>3. CASE ~HashHeld(k)
      <4>1. silent >= 1 /\ (pk.pass = 2 => silent >= 2)
        BY <1>3, <2>3, <3>3
      <4>2. a.registry = "codecs" => pk.pass = 2
        BY <1>1, <1>2
      <4>. QED BY <1>1, <3>1, <4>1, <4>2
    <3>. QED BY <3>2, <3>3
  <2>4. CASE fs[k].kind = "file" /\ ~IsSource(fs, k)
    <3>. DEFINE s == SourceOf(fs, k)
                i == fs[s].src
    <3>1. e.path = fs[k].path /\ e.kind = "hardlink" /\ e.target = s /\ e.hash = pk.hashed[s]
      BY <1>2, <2>4
    <3>2. s \in 1 .. k /\ fs[s].ino = fs[k].ino /\ IsSource(fs, s) /\ s # k
      <4>1. k \in Nat \ {0}
        OBVIOUS
      <4>2. s \in 1 .. k /\ fs[s].ino = fs[k].ino /\ IsSource(fs, s)
        BY <2>4, <4>1, SourceFacts
      <4>. QED BY <2>4, <4>2 DEF IsSource
    <3>. HIDE DEF s
    <3>3. s \in 1 .. Len(fs) /\ s < k
      BY <1>1, <3>2
    <3>4. i \in 1 .. Len(paths) /\ paths[i].path = fs[s].path /\ a.entries[s].path = fs[s].path
      BY <1>1, <1>2, <3>3 DEF ScannedOk
    <3>5. i # j
      <4>1. fs[s].path < fs[k].path /\ fs[s].path \in Nat /\ fs[k].path \in Nat
        BY <1>1, <3>3, ScannedFields
      <4>. QED BY <2>1, <3>4, <4>1
    <3>6. CASE silent # 0
      <4>1. silent > 0
        BY <1>1, <3>6
      <4>. QED BY <3>1, <4>1
    <3>7. CASE silent = 0 /\ i < j
      <4>1. pk.hashed[s] \in held[j]
        BY <1>3, <2>4, <3>2, <3>3, <3>7
      <4>. QED BY <2>1, <3>1, <4>1 DEF HeldOrEarly
    <3>8. CASE j < i
      <4>1. i \in (j + 1) .. Len(paths)
        BY <1>1, <2>1, <3>4, <3>8
      <4>2. HeldOrEarly(j, e, a.entries[e.target])
        BY <3>1, <3>4, <4>1 DEF HeldOrEarly
      <4>. QED BY <2>1, <3>1, <4>2
    <3>9. i < j \/ j < i
      BY <2>1, <3>4, <3>5
    <3>. QED BY <3>6, <3>7, <3>8, <3>9
  <2>. QED BY <2>2, <2>3, <2>4 DEF IsSource
<1>5. Snapshots(a)
  BY <1>2, <1>4 DEF Snapshots
<1>. QED BY <1>5 DEF a

\* What is true of the spool, or of the archive, is true after a step that leaves
\* the inputs alone.
LEMMA SpoolStays ==
    ASSUME InputsStay, Snapshots(pk'.arc)
    PROVE  Snapshots(pk.arc)'
BY DEF Snapshots, HeldOrEarly, InputsStay

LEMMA ArchiveStays ==
    ASSUME InputsStay, Snapshots(archive'.arc)
    PROVE  Snapshots(Arc)'
BY DEF Snapshots, HeldOrEarly, InputsStay, Arc

LEMMA BuildKeepsSnap ==
    ASSUME Shapes, InputInv, PackSnap, InputsStay, BuildArchive
    PROVE  PackSnap'
<1>1. CASE \E r : pk' = PackEnds(r)
  BY <1>1, EndsKeepSnap
<1>2. CASE pk' = [pk EXCEPT !.pc = "verify",
                    !.arc = Build(pk.profile, pk.files, pk.hashed, pk.got)]
  <2>1. /\ pk.pc = "build" /\ pk'.pc = "verify" /\ pk'.files = pk.files /\ pk'.at = pk.at
        /\ pk'.arc = Build(pk.profile, pk.files, pk.hashed, pk.got)
    BY <1>2 DEF BuildArchive, PackStep, Shapes, PkFields
  <2>2. pk.at \in Nat \ {0}
    BY DEF PackSnap, ScanInv
  <2>3. ScanInv'
    BY <2>1, <2>2, SameFilesKeep DEF PackSnap, InScan
  <2>4. ReadingInv'
    BY <2>1 DEF ReadingInv
  <2>5. HashedInv'
    BY <2>1 DEF HashedInv, InScan
  <2>6. Snapshots(pk'.arc)
    BY <2>1, BuiltIsSnapshot
  <2>7. Snapshots(pk.arc)'
    BY <2>6, SpoolStays
  <2>. QED BY <2>3, <2>4, <2>5, <2>7 DEF PackSnap
<1>. QED BY <1>1, <1>2 DEF BuildArchive, PackStep, PackCheckpoint

\* The spool is not touched on its way to the output path.
LEMMA SpoolKeepsSnap ==
    ASSUME Shapes, InputInv, PackSnap, InputsStay,
           pk.pc \in {"verify", "last", "commit"}, NEW pc \in {"last", "commit", "sync"},
           pk' = [pk EXCEPT !.pc = pc]
    PROVE  PackSnap'
<1>1. pk'.pc = pc /\ pk'.files = pk.files /\ pk'.at = pk.at /\ pk'.arc = pk.arc
  BY DEF Shapes, PkFields
<1>2. pk.at \in Nat \ {0}
  BY DEF PackSnap, ScanInv
<1>3. ScanInv'
  BY <1>1, <1>2, SameFilesKeep DEF PackSnap, InScan
<1>4. ReadingInv' /\ HashedInv'
  BY <1>1 DEF ReadingInv, HashedInv, InScan
<1>5. Snapshots(pk'.arc)
  BY <1>1 DEF PackSnap
<1>6. Snapshots(pk.arc)'
  BY <1>5, SpoolStays
<1>. QED BY <1>3, <1>4, <1>6 DEF PackSnap

\* A step that changes neither the inputs nor what the call has read.
LEMMA SameKeepsSnap ==
    ASSUME PackSnap, InputsStay, pk'.pc = pk.pc, pk'.files = pk.files, pk'.at = pk.at,
           pk'.buf = pk.buf, pk'.fd = pk.fd, pk'.hashed = pk.hashed, pk'.pass = pk.pass,
           pk'.profile = pk.profile, pk'.arc = pk.arc
    PROVE  PackSnap'
<1>1. ScanInv'
  BY ZenonT(60) DEF PackSnap, ScanInv, ScannedOk, SharedOk, InScan, InputsStay
<1>2. ReadingInv'
  BY DEF PackSnap, ReadingInv, Clean, Away, Excused, HashHeld, InputsStay
<1>3. HashedInv'
  BY DEF PackSnap, HashedInv, HashHeld, InScan, InputsStay
<1>4. pk'.pc \in {"verify", "last", "commit"} => Snapshots(pk.arc)'
  BY SpoolStays DEF PackSnap
<1>. QED BY <1>1, <1>2, <1>3, <1>4 DEF PackSnap

\* Every step of pack but the one that publishes leaves the inputs and the output
\* path alone.
LEMMA PackLeavesInputs ==
    ASSUME Pack
    PROVE  InputsStay /\ (archive' = archive \/ PackCommit)
BY DEF Pack, PackStep, PackStart, ScanNode, ScanLimit, ScanDone, PassEntry, CheckInput,
   OpenInput, ReadInput, CloseInput, EndPass, BuildArchive, BuildLimit, VerifySpool, PackLast,
   PackCommit, PackReturn, PackFails, InputsStay, inputVars

LEMMA PackKeepsSnap ==
    ASSUME Shapes, PackInv, SnapInv, Pack
    PROVE  SnapInv'
<1>1. InputsStay /\ InputInv /\ PackSnap
  BY PackLeavesInputs DEF SnapInv
<1>2. InputInv'
  BY <1>1 DEF InputInv, InputsStay
<1>3. ASSUME ~PackCommit PROVE PackSnap'
  <2>1. CASE ScanLimit \/ BuildLimit \/ PackReturn \/ PackFails
    <3>1. \E r : pk' = PackEnds(r)
      BY <2>1 DEF ScanLimit, BuildLimit, PackReturn, PackFails, PackStep
    <3>. QED BY <1>1, <3>1, EndsKeepSnap
  <2>2. CASE VerifySpool
    <3>1. CASE \E r : pk' = PackEnds(r)
      BY <1>1, <3>1, EndsKeepSnap
    <3>2. CASE pk' = [pk EXCEPT !.pc = "last"]
      BY <1>1, <2>2, <3>2, SpoolKeepsSnap DEF VerifySpool, PackStep
    <3>. QED BY <2>2, <3>1, <3>2 DEF VerifySpool, PackStep, PackCheckpoint
  <2>3. CASE PackLast
    <3>1. CASE \E r : pk' = PackEnds(r)
      BY <1>1, <3>1, EndsKeepSnap
    <3>2. CASE pk' = [pk EXCEPT !.pc = "commit"]
      BY <1>1, <2>3, <3>2, SpoolKeepsSnap DEF PackLast, PackStep
    <3>. QED BY <2>3, <3>1, <3>2 DEF PackLast, PackStep, PackCheckpoint
  <2>. QED BY <1>1, <1>3, <2>1, <2>2, <2>3, StartKeepsSnap, ScanNodeKeepsSnap, ScanDoneKeepsSnap,
            PassKeepsSnap, CheckKeepsSnap, OpenKeepsSnap, ReadKeepsSnap, CloseKeepsSnap,
            EndPassKeepsSnap, BuildKeepsSnap DEF Pack
<1>4. ASSUME PackCommit PROVE PackSnap'
  <2>1. CASE \E r : pk' = PackEnds(r)
    BY <1>1, <2>1, EndsKeepSnap
  <2>2. CASE pk' = [pk EXCEPT !.pc = "sync"]
    BY <1>1, <1>4, <2>2, SpoolKeepsSnap DEF PackCommit
  <2>. QED BY <1>4, <2>1, <2>2 DEF PackCommit
<1>5. ASSUME archive' = archive PROVE PackedIsSnapshot'
  <2>1. archive.by = "pack" => Snapshots(archive'.arc)
    BY <1>5 DEF SnapInv, PackedIsSnapshot, Arc
  <2>2. archive.by = "pack" => Snapshots(Arc)'
    BY <1>1, <2>1, ArchiveStays
  <2>. QED BY <1>5, <2>2 DEF PackedIsSnapshot
<1>6. ASSUME PackCommit, archive' # archive PROVE PackedIsSnapshot'
  <2>1. archive' = [by |-> "pack", arc |-> pk.arc] /\ pk.pc = "commit"
    BY <1>6 DEF PackCommit, PersistNoclobber
  <2>2. Snapshots(archive'.arc)
    BY <1>1, <2>1 DEF PackSnap
  <2>. QED BY <1>1, <2>2, ArchiveStays DEF PackedIsSnapshot
<1>. QED BY <1>2, <1>3, <1>4, <1>5, <1>6, PackLeavesInputs DEF SnapInv

LEMMA OthersKeepSnap ==
    ASSUME Shapes, PackInv, SnapInv, Others
    PROVE  SnapInv'
<1>1. CASE InputChange /\ Reading /\ UNCHANGED <<archive, pk>>
  <2>1. InputInv' /\ ScanInv' /\ ReadingInv' /\ HashedInv'
    BY <1>1, ChangeKeepsScan, ChangeKeepsReading, ChangeKeepsHashed DEF SnapInv, PackSnap, InputChange
  <2>2. pk'.pc \notin {"verify", "last", "commit"} /\ archive'.by # "pack"
    BY <1>1 DEF Reading, PackInv
  <2>. QED BY <2>1, <2>2 DEF SnapInv, PackSnap, PackedIsSnapshot
<1>2. CASE \E i \in 1 .. Len(nodes), b \in Contents, q \in BOOLEAN : WriteInput(i, b, q)
  <2>1. Reading /\ UNCHANGED <<archive, pk>>
    BY <1>2 DEF WriteInput
  <2>. QED BY <1>1, <1>2, <2>1, WriteIsChange DEF SnapInv
<1>3. CASE \E k \in 1 .. Len(paths), b \in Contents : ReplaceInput(k, b)
  <2>1. Reading /\ UNCHANGED <<archive, pk>>
    BY <1>3 DEF ReplaceInput
  <2>. QED BY <1>1, <1>3, <2>1, ReplaceIsChange DEF SnapInv, PackSnap
<1>6. CASE \E k \in 1 .. Len(paths), i \in 1 .. Len(nodes) : ReturnInput(k, i)
  <2>1. Reading /\ UNCHANGED <<archive, pk>>
    BY <1>6 DEF ReturnInput
  <2>. QED BY <1>1, <1>6, <2>1, ReturnIsChange DEF SnapInv, PackSnap
<1>4. CASE TakeArchive
  <2>1. InputsStay /\ pk' = pk /\ archive' = Foreign
    BY <1>4 DEF TakeArchive, inputVars, InputsStay
  <2>2. InputInv' /\ PackSnap'
    BY <2>1, SameKeepsSnap DEF SnapInv, InputInv, InputsStay
  <2>3. PackedIsSnapshot'
    BY <2>1 DEF PackedIsSnapshot, Foreign
  <2>. QED BY <2>2, <2>3 DEF SnapInv
<1>5. CASE CancelPack
  <2>1. InputsStay /\ archive' = archive /\ pk.pc # "done"
    BY <1>5 DEF CancelPack, inputVars, InputsStay
  <2>2. /\ pk'.pc = pk.pc /\ pk'.files = pk.files /\ pk'.at = pk.at
        /\ pk'.buf = pk.buf /\ pk'.fd = pk.fd /\ pk'.hashed = pk.hashed /\ pk'.pass = pk.pass
        /\ pk'.profile = pk.profile /\ pk'.arc = pk.arc
    BY <1>5 DEF CancelPack, Shapes, PkFields
  <2>3. InputInv' /\ PackSnap'
    BY <2>1, <2>2, SameKeepsSnap DEF SnapInv, InputInv, InputsStay
  <2>4. archive.by = "pack" => Snapshots(archive'.arc)
    BY <2>1 DEF SnapInv, PackedIsSnapshot, Arc
  <2>5. PackedIsSnapshot'
    BY <2>1, <2>4, ArchiveStays DEF PackedIsSnapshot
  <2>. QED BY <2>3, <2>5 DEF SnapInv
<1>. QED BY <1>2, <1>3, <1>4, <1>5, <1>6 DEF Others

\* Damage reaches the payload only: the entry table stays.
LEMMA DamageKeepsSnap ==
    ASSUME EngineInv, SnapInv, NEW g, NEW i, NEW u, DamageArchive(g, i, u)
    PROVE  SnapInv'
<1>1. InputsStay /\ pk' = pk /\ archive.by = "pack"
  BY DEF DamageArchive, inputVars, InputsStay
<1>2. InputInv' /\ PackSnap'
  BY <1>1, SameKeepsSnap DEF SnapInv, InputInv, InputsStay
<1>3. archive = [by |-> "pack", arc |-> archive.arc] /\ DOMAIN archive.arc = ArcFields
  BY <1>1 DEF EngineInv, Shapes, Nothing, Foreign
<1>4. archive'.arc.entries = archive.arc.entries /\ archive'.arc.registry = archive.arc.registry
  BY <1>3 DEF DamageArchive, ArcFields
<1>5. Snapshots(archive.arc)
  BY <1>1 DEF SnapInv, PackedIsSnapshot, Arc
<1>6. Snapshots(archive'.arc)
  BY <1>4, <1>5 DEF Snapshots
<1>. QED BY <1>1, <1>2, <1>6, ArchiveStays DEF SnapInv, PackedIsSnapshot

\* A reading call touches neither the inputs nor the archive.
LEMMA ReadLeavesPack == ASSUME Read PROVE UNCHANGED packVars
<1>1. ASSUME NEW op, NEW entry, NEW from, NEW len, ReadStart(op, entry, from, len)
      PROVE  UNCHANGED packVars
  BY <1>1 DEF ReadStart, ReadStep
<1>2. CASE ReadCatalog \/ ReadFails \/ DecodeEntry \/ CheckHash
  BY <1>2 DEF ReadCatalog, ReadFails, DecodeEntry, CheckHash, ReadStep
<1>3. CASE Emit \/ ExtractCommit \/ ExtractCreate
  BY <1>3 DEF Emit, ExtractCommit, ExtractCreate, ReadStep
<1>4. CASE VerifyPayload \/ VerifyGroup \/ VerifyRoot
  BY <1>4 DEF VerifyPayload, VerifyGroup, VerifyRoot, ReadStep
<1>5. CASE StageEntry
  BY <1>5 DEF StageEntry, StageFile, StageLink, ReadStep
<1>6. CASE UnpackLast \/ UnpackCommit \/ ReadReturn
  BY <1>6 DEF UnpackLast, UnpackCommit, ReadReturn, ReadStep
<1>. QED BY <1>1, <1>2, <1>3, <1>4, <1>5, <1>6 DEF Read

LEMMA StepKeepsSnap ==
    ASSUME EngineInv, SnapInv, [Next]_vars
    PROVE  SnapInv'
<1>1. CASE Pack \/ Others
  BY <1>1, PackKeepsSnap, OthersKeepSnap DEF EngineInv
<1>2. CASE \E g \in 1 .. Len(paths), i \in 1 .. 2, u \in Units : DamageArchive(g, i, u)
  BY <1>2, DamageKeepsSnap
<1>3. CASE UNCHANGED packVars
  <2>1. InputsStay /\ pk' = pk /\ archive' = archive
    BY <1>3 DEF packVars, inputVars, InputsStay
  <2>2. InputInv' /\ PackSnap'
    BY <2>1, SameKeepsSnap DEF SnapInv, InputInv, InputsStay
  <2>3. archive.by = "pack" => Snapshots(archive'.arc)
    BY <2>1 DEF SnapInv, PackedIsSnapshot, Arc
  <2>4. PackedIsSnapshot'
    BY <2>1, <2>3, ArchiveStays DEF PackedIsSnapshot
  <2>. QED BY <2>2, <2>4 DEF SnapInv
<1>. QED BY <1>1, <1>2, <1>3, ReadLeavesPack DEF Next, TakeOutput, CancelRead, vars

LEMMA SnapInit == ASSUME Init PROVE SnapInv
<1>. PICK t \in Trees :
        /\ paths = t.paths /\ nodes = t.nodes
        /\ held = [k \in 1 .. Len(t.paths) |-> BytesAt(t.paths, t.nodes, k)]
  BY DEF Init, PackInit
<1>1. /\ silent = 0 /\ archive = Nothing /\ pk.pc = "start" /\ pk.at = 1 /\ pk.files = <<>>
      /\ pk.buf = <<>> /\ pk.pass = 1
  BY DEF Init, PackInit
<1>2. InputInv
  <2>1. paths \in Seq(InputPath) /\ nodes \in Seq(FileNode)
        /\ \A j \in 1 .. Len(paths) : paths[j].kind = "file" => paths[j].ino \in 1 .. Len(nodes)
    BY ArchivePackAssumption
  <2>2. \A j \in 1 .. Len(paths) : paths[j].kind = "file" => nodes[paths[j].ino].bytes \in held[j]
    BY DEF BytesAt
  <2>. QED BY <1>1, <2>1, <2>2 DEF InputInv
<1>3. Len(pk.files) = 0 /\ pk.files \in Seq(ScannedFile)
  BY <1>1
<1>4. ScanInv
  BY <1>1, <1>3 DEF ScanInv, InScan
<1>5. ReadingInv /\ HashedInv
  BY <1>1 DEF ReadingInv, HashedInv, InScan
<1>. QED BY <1>1, <1>2, <1>4, <1>5 DEF SnapInv, PackSnap, PackedIsSnapshot, Nothing

\* A packed file holds what its path held at one instant, however its inputs are
\* written to or replaced while they are scanned and read, unless something happened
\* that no look at a path can see: a write left the mtime alone, or the file scanned
\* was away and put back. One such step spoils the raw profile, two the compressed one.
THEOREM PackedAreSnapshots == Spec => []PackedIsSnapshot
<1>1. Init => SnapInv BY SnapInit
<1>2. EngineInv /\ SnapInv /\ [Next]_vars => SnapInv' BY StepKeepsSnap
<1>3. SnapInv => PackedIsSnapshot BY DEF SnapInv
<1>. QED BY <1>1, <1>2, <1>3, EngineInvariant, PTL DEF Spec

-----------------------------------------------------------------------------
(* Sums: induction over numbers, and what a fold over positions computes.  *)

\* Induction up to n, on a set: what holds at 0 and at the successor of each of its
\* numbers holds everywhere.
LEMMA UpTo ==
    ASSUME NEW n \in Nat, NEW S, 0 \in S, \A i \in 1 .. n : i - 1 \in S => i \in S
    PROVE  0 .. n \subseteq S
<1>. DEFINE Bad == {i \in 0 .. n : i \notin S}
<1>. SUFFICES ASSUME Bad # {} PROVE FALSE
  OBVIOUS
<1>1. Bad \subseteq Nat
  OBVIOUS
<1>2. PICK i \in Bad : \A j \in Bad : i <= j
  <2>. HIDE DEF Bad
  <2>. QED BY <1>1, LeastNatural
<1>3. i # 0 /\ i \in 1 .. n /\ i - 1 \in 0 .. n /\ i - 1 < i
  BY <1>2
<1>. QED BY <1>2, <1>3

\* The greatest member of a set of positions.
LEMMA MaxIsLast ==
    ASSUME NEW n \in Nat, NEW t \in SUBSET (1 .. n), n \in t
    PROVE  Max(t) = n
<1>1. \A y \in t : n >= y
  OBVIOUS
<1>2. /\ Max(t) \in t
      /\ \A y \in t : Max(t) >= y
  BY <1>1 DEF Max
<1>3. Max(t) \in 1 .. n /\ Max(t) >= n
  BY <1>2
<1>. QED BY <1>3

\* A nonempty set of positions has a greatest member.
LEMMA MaxMember ==
    ASSUME NEW n \in Nat, NEW t \in SUBSET (1 .. n), t # {}
    PROVE  Max(t) \in t
<1>. DEFINE S == {m \in 0 .. n : \A u \in SUBSET (1 .. m) : u # {} => Max(u) \in u}
<1>1. 0 \in S
  <2>1. \A u \in SUBSET (1 .. 0) : u = {}
    OBVIOUS
  <2>2. 0 \in 0 .. n
    OBVIOUS
  <2>. QED BY <2>1, <2>2, Zenon
<1>2. ASSUME NEW m \in 1 .. n, m - 1 \in S PROVE m \in S
  <2>1. ASSUME NEW u \in SUBSET (1 .. m), u # {} PROVE Max(u) \in u
    <3>1. CASE m \in u
      BY <3>1, MaxIsLast
    <3>2. CASE m \notin u
      <4>1. u \in SUBSET (1 .. (m - 1))
        BY <3>2
      <4>. QED BY <1>2, <2>1, <4>1
    <3>. QED BY <3>1, <3>2
  <2>. QED BY <2>1
<1>3. 0 .. n \subseteq S
  <2>. HIDE DEF S
  <2>. QED BY <1>1, <1>2, UpTo
<1>. QED BY <1>3

\* The equation a fold over the positions 1 .. n is defined by.
FoldEq(n, base, step, h) ==
    h = [t \in SUBSET (1 .. n) |->
            IF t = {} THEN base ELSE step[<<h[t \ {Max(t)}], Max(t)>>]]

\* There is a function that satisfies the equation: it is built set by set, by the
\* greatest position they have.
LEMMA FoldExists ==
    ASSUME NEW n \in Nat, NEW A, NEW base \in A, NEW step \in [A \X (1 .. n) -> A]
    PROVE  \E h \in [SUBSET (1 .. n) -> A] : FoldEq(n, base, step, h)
<1>. DEFINE Good == {m \in 0 .. n : \E h \in [SUBSET (1 .. m) -> A] : FoldEq(m, base, step, h)}
<1>1. 0 \in Good
  <2>. DEFINE h == [t \in SUBSET (1 .. 0) |-> base]
  <2>1. \A t \in SUBSET (1 .. 0) : t = {}
    OBVIOUS
  <2>2. h \in [SUBSET (1 .. 0) -> A]
    OBVIOUS
  <2>3. FoldEq(0, base, step, h)
    BY <2>1 DEF FoldEq
  <2>. QED BY <2>2, <2>3
<1>2. ASSUME NEW m \in 1 .. n, m - 1 \in Good PROVE m \in Good
  <2>1. PICK g \in [SUBSET (1 .. (m - 1)) -> A] : FoldEq(m - 1, base, step, g)
    BY <1>2
  <2>. DEFINE h == [t \in SUBSET (1 .. m) |->
                      IF m \in t THEN step[<<g[t \ {m}], m>>] ELSE g[t]]
              body(t) == IF t = {} THEN base ELSE step[<<h[t \ {Max(t)}], Max(t)>>]
  <2>2. ASSUME NEW t \in SUBSET (1 .. m)
        PROVE  /\ m \notin t => t \in SUBSET (1 .. (m - 1))
               /\ t \ {m} \in SUBSET (1 .. (m - 1)) /\ t \ {m} \in SUBSET (1 .. m)
    OBVIOUS
  <2>3. h \in [SUBSET (1 .. m) -> A]
    BY <2>2
  <2>4. ASSUME NEW t \in SUBSET (1 .. m) PROVE h[t] = body(t)
    <3>1. CASE m \in t
      <4>1. Max(t) = m
        BY <3>1, MaxIsLast
      <4>2. h[t \ {m}] = g[t \ {m}]
        BY <2>2
      <4>3. h[t] = step[<<g[t \ {m}], m>>] /\ t # {}
        BY <3>1
      <4>. QED BY <4>1, <4>2, <4>3
    <3>2. CASE m \notin t /\ t # {}
      <4>1. t \in SUBSET (1 .. (m - 1))
        BY <2>2, <3>2
      <4>2. h[t] = g[t] /\ g[t] = step[<<g[t \ {Max(t)}], Max(t)>>]
        BY <2>1, <3>2, <4>1 DEF FoldEq
      <4>3. h[t \ {Max(t)}] = g[t \ {Max(t)}]
        BY <3>2, <4>1
      <4>. QED BY <3>2, <4>2, <4>3
    <3>3. CASE t = {}
      <4>1. {} \in SUBSET (1 .. (m - 1))
        OBVIOUS
      <4>2. g[{}] = base
        BY <2>1, <4>1 DEF FoldEq
      <4>. QED BY <3>3, <4>2
    <3>. QED BY <3>1, <3>2, <3>3
  <2>5. h = [t \in SUBSET (1 .. m) |-> body(t)]
    <3>. HIDE DEF body
    <3>. QED BY <2>4
  <2>6. FoldEq(m, base, step, h)
    BY <2>5, Zenon DEF FoldEq
  <2>. HIDE DEF h
  <2>. QED BY <2>3, <2>6
<1>3. 0 .. n \subseteq Good
  <2>. HIDE DEF Good
  <2>. QED BY <1>1, <1>2, UpTo
<1>4. n \in Good
  <2>. HIDE DEF Good
  <2>. QED BY <1>3
<1>. QED BY <1>4, Zenon

(* Sums. *)
\* The equation of the sum.
SumEq(w, h) ==
    h = [t \in SUBSET DOMAIN w |-> IF t = {} THEN 0 ELSE h[t \ {Max(t)}] + w[Max(t)]]

\* A sum is reached one number after the other.
LEMMA SumSteps ==
    ASSUME NEW w \in Seq(Nat)
    PROVE  \E g \in [0 .. Len(w) -> Nat] :
              /\ g[0] = 0 /\ g[Len(w)] = SumSeq(w)
              /\ \A i \in 1 .. Len(w) : g[i] = g[i - 1] + w[i]
<1>. DEFINE n == Len(w)
            step == [p \in Nat \X (1 .. n) |-> p[1] + w[p[2]]]
            F == CHOOSE h : SumEq(w, h)
<1>1. DOMAIN w = 1 .. n /\ n \in Nat /\ w \in [1 .. n -> Nat]
  OBVIOUS
<1>2. SumSeq(w) = F[DOMAIN w]
  BY DEF SumSeq, FoldLeft, MapThenFoldSet, SumEq
<1>3. step \in [Nat \X (1 .. n) -> Nat]
  BY <1>1
<1>. HIDE DEF n
<1>4. PICK h \in [SUBSET (1 .. n) -> Nat] : FoldEq(n, 0, step, h)
  <2>. HIDE DEF step
  <2>. QED BY <1>1, <1>3, FoldExists
<1>. DEFINE body(h1, t) == IF t = {} THEN 0 ELSE h1[t \ {Max(t)}] + w[Max(t)]
<1>5. ASSUME NEW t \in SUBSET (1 .. n) PROVE h[t] = body(h, t)
  <2>1. CASE t = {}
    BY <1>4, <2>1 DEF FoldEq
  <2>2. CASE t # {}
    <3>1. Max(t) \in 1 .. n /\ t \ {Max(t)} \in SUBSET (1 .. n)
      BY <1>1, <2>2, MaxMember
    <3>2. h[t] = step[<<h[t \ {Max(t)}], Max(t)>>]
      <4>. HIDE DEF step
      <4>. QED BY <1>4, <2>2 DEF FoldEq
    <3>3. <<h[t \ {Max(t)}], Max(t)>> \in Nat \X (1 .. n)
      BY <3>1
    <3>. QED BY <2>2, <3>2, <3>3
  <2>. QED BY <2>1, <2>2
<1>6. SumEq(w, h)
  <2>1. h = [t \in SUBSET (1 .. n) |-> body(h, t)]
    <3>. HIDE DEF body
    <3>. QED BY <1>5
  <2>. QED BY <1>1, <2>1 DEF SumEq
<1>7. SumEq(w, F)
  <2>. HIDE DEF SumEq
  <2>. QED BY <1>6
<1>. HIDE DEF F
<1>8. ASSUME NEW t \in SUBSET (1 .. n) PROVE F[t] = body(F, t)
  <2>1. F = [u \in SUBSET (1 .. n) |-> body(F, u)]
    BY <1>1, <1>7 DEF SumEq
  <2>. HIDE DEF body
  <2>. QED BY <2>1
<1>. DEFINE g == [i \in 0 .. n |-> F[1 .. i]]
<1>9. F[1 .. 0] = 0
  <2>1. 1 .. 0 = {} /\ {} \in SUBSET (1 .. n)
    OBVIOUS
  <2>. QED BY <1>8, <2>1
<1>10. ASSUME NEW i \in 1 .. n PROVE F[1 .. i] = F[1 .. (i - 1)] + w[i]
  <2>1. i \in 1 .. i /\ 1 .. i \in SUBSET (1 .. n) /\ (1 .. i) \ {i} = 1 .. (i - 1)
    BY <1>1
  <2>2. Max(1 .. i) = i
    BY <2>1, MaxIsLast, <1>1
  <2>. QED BY <1>8, <2>1, <2>2
<1>. DEFINE S == {i \in 0 .. n : F[1 .. i] \in Nat}
<1>11. 0 .. n \subseteq S
  <2>1. 0 \in S
    BY <1>1, <1>9
  <2>2. ASSUME NEW i \in 1 .. n, i - 1 \in S PROVE i \in S
    BY <1>1, <1>10, <2>2
  <2>. HIDE DEF S
  <2>. QED BY <1>1, <2>1, <2>2, UpTo
<1>12. g \in [0 .. n -> Nat]
  BY <1>11
<1>13. /\ g[0] = 0 /\ g[n] = SumSeq(w)
       /\ \A i \in 1 .. n : g[i] = g[i - 1] + w[i]
  <2>1. 0 \in 0 .. n /\ n \in 0 .. n /\ \A i \in 1 .. n : i \in 0 .. n /\ i - 1 \in 0 .. n
    BY <1>1
  <2>. QED BY <1>1, <1>2, <1>9, <1>10, <2>1
<1>. HIDE DEF g
<1>. QED BY <1>12, <1>13 DEF n

\* Whatever adds the numbers one after the other ends at the sum.
LEMMA SumIs ==
    ASSUME NEW w \in Seq(Nat), NEW g, g[0] = 0, \A i \in 1 .. Len(w) : g[i] = g[i - 1] + w[i]
    PROVE  SumSeq(w) = g[Len(w)] /\ SumSeq(w) \in Nat
<1>. DEFINE n == Len(w)
<1>1. n \in Nat
  OBVIOUS
<1>2. PICK f \in [0 .. n -> Nat] :
        /\ f[0] = 0 /\ f[n] = SumSeq(w)
        /\ \A i \in 1 .. n : f[i] = f[i - 1] + w[i]
  BY SumSteps
<1>. DEFINE S == {i \in 0 .. n : f[i] = g[i]}
<1>3. 0 .. n \subseteq S
  <2>1. 0 \in S
    BY <1>1, <1>2
  <2>2. ASSUME NEW i \in 1 .. n, i - 1 \in S PROVE i \in S
    BY <1>1, <1>2, <2>2
  <2>. HIDE DEF S
  <2>. QED BY <1>1, <2>1, <2>2, UpTo
<1>4. n \in S
  BY <1>1, <1>3
<1>. QED BY <1>1, <1>2, <1>4

\* The sum of the first i numbers of v.
Upto(v, i) == SumSeq([j \in 1 .. i |-> v[j]])

\* Each number adds itself to the sum of those before it.
LEMMA UptoSteps ==
    ASSUME NEW n \in Nat, NEW v, \A i \in 1 .. n : v[i] \in Nat
    PROVE  /\ Upto(v, 0) = 0
           /\ \A i \in 0 .. n : Upto(v, i) \in Nat
           /\ \A i \in 1 .. n : Upto(v, i) = Upto(v, i - 1) + v[i]
<1>. DEFINE w(i) == [j \in 1 .. i |-> v[j]]
<1>1. \A i \in 0 .. n : w(i) \in Seq(Nat) /\ Len(w(i)) = i /\ \A j \in 1 .. i : w(i)[j] = v[j]
  OBVIOUS
<1>2. \A i \in 0 .. n : \E g \in [0 .. i -> Nat] :
        /\ g[0] = 0 /\ g[i] = SumSeq(w(i)) /\ \A j \in 1 .. i : g[j] = g[j - 1] + w(i)[j]
  <2>. TAKE i \in 0 .. n
  <2>1. w(i) \in Seq(Nat) /\ Len(w(i)) = i
    BY <1>1
  <2>. HIDE DEF w
  <2>. QED BY <2>1, SumSteps
<1>3. \A i \in 0 .. n : SumSeq(w(i)) \in Nat
  <2>. HIDE DEF w
  <2>. QED BY <1>2
<1>4. SumSeq(w(0)) = 0
  <2>. HIDE DEF w
  <2>1. 0 \in 0 .. n
    OBVIOUS
  <2>. QED BY <1>2, <2>1
<1>5. ASSUME NEW i \in 1 .. n PROVE SumSeq(w(i)) = SumSeq(w(i - 1)) + v[i]
  <2>. DEFINE k == i - 1
  <2>1. /\ w(i)[i] = v[i] /\ w(k) \in Seq(Nat) /\ Len(w(k)) = k
        /\ \A j \in 1 .. k : w(i)[j] = w(k)[j]
    <3>1. i \in 0 .. n /\ k \in 0 .. n /\ i \in 1 .. i /\ \A j \in 1 .. k : j \in 1 .. i
      OBVIOUS
    <3>. QED BY <1>1, <3>1
  <2>2. PICK g \in [0 .. i -> Nat] :
        /\ g[0] = 0 /\ g[i] = SumSeq(w(i)) /\ \A j \in 1 .. i : g[j] = g[j - 1] + w(i)[j]
    <3>1. i \in 0 .. n
      OBVIOUS
    <3>. QED BY <1>2, <3>1, Zenon
  <2>. HIDE DEF w
  <2>3. \A j \in 1 .. k : g[j] = g[j - 1] + w(k)[j]
    BY <2>1, <2>2
  <2>4. SumSeq(w(k)) = g[k]
    BY <2>1, <2>2, <2>3, SumIs
  <2>5. g[i] = g[k] + w(i)[i]
    BY <2>2
  <2>. QED BY <2>1, <2>2, <2>4, <2>5
<1>. QED BY <1>3, <1>4, <1>5 DEF Upto
-----------------------------------------------------------------------------
(* Kept: some elements of a sequence, in their order.                      *)

\* One position, and the equation of Kept.
KeptStep(s, keep, out, i) == IF i \in keep THEN Append(out, s[i]) ELSE out

KeptEq(s, keep, h) ==
    h = [t \in SUBSET DOMAIN [i \in DOMAIN s |-> i] |->
            IF t = {} THEN <<>>
            ELSE KeptStep(s, keep, h[t \ {Max(t)}], [i \in DOMAIN s |-> i][Max(t)])]

\* g is what Kept has after each position.
KeptChain(A, s, keep, g) ==
    /\ g \in [0 .. Len(s) -> Seq(A)] /\ g[0] = <<>> /\ g[Len(s)] = Kept(s, keep)
    /\ \A i \in 1 .. Len(s) : g[i] = KeptStep(s, keep, g[i - 1], i)

\* Kept goes over the positions one after the other.
LEMMA KeptSteps ==
    ASSUME NEW A, NEW s \in Seq(A), NEW keep
    PROVE  \E g : KeptChain(A, s, keep, g)
<1>. DEFINE n == Len(s)
            step == [p \in Seq(A) \X (1 .. n) |-> KeptStep(s, keep, p[1], p[2])]
            F == CHOOSE h : KeptEq(s, keep, h)
<1>1. /\ DOMAIN s = 1 .. n /\ n \in Nat /\ s \in [1 .. n -> A]
      /\ DOMAIN [i \in DOMAIN s |-> i] = 1 .. n
  OBVIOUS
<1>2. Kept(s, keep) = F[1 .. n]
  <2>1. Kept(s, keep) = F[DOMAIN [i \in DOMAIN s |-> i]]
    BY DEF Kept, FoldLeftDomain, FoldLeft, MapThenFoldSet, KeptEq, KeptStep
  <2>. QED BY <1>1, <2>1
<1>3. \A out \in Seq(A), i \in 1 .. n : KeptStep(s, keep, out, i) \in Seq(A)
  BY <1>1 DEF KeptStep
<1>4. step \in [Seq(A) \X (1 .. n) -> Seq(A)]
  BY <1>3
<1>. HIDE DEF n
<1>5. PICK h \in [SUBSET (1 .. n) -> Seq(A)] : FoldEq(n, <<>>, step, h)
  <2>1. <<>> \in Seq(A)
    OBVIOUS
  <2>. HIDE DEF step
  <2>. QED BY <1>1, <1>4, <2>1, FoldExists
<1>. DEFINE body(f, t) == IF t = {} THEN <<>>
                          ELSE KeptStep(s, keep, f[t \ {Max(t)}], [i \in DOMAIN s |-> i][Max(t)])
<1>6. ASSUME NEW t \in SUBSET (1 .. n) PROVE h[t] = body(h, t)
  <2>1. CASE t = {}
    BY <1>5, <2>1 DEF FoldEq
  <2>2. CASE t # {}
    <3>1. Max(t) \in 1 .. n /\ t \ {Max(t)} \in SUBSET (1 .. n)
      BY <1>1, <2>2, MaxMember
    <3>2. h[t] = step[<<h[t \ {Max(t)}], Max(t)>>]
      <4>. HIDE DEF step
      <4>. QED BY <1>5, <2>2 DEF FoldEq
    <3>3. <<h[t \ {Max(t)}], Max(t)>> \in Seq(A) \X (1 .. n)
      BY <3>1
    <3>4. [i \in DOMAIN s |-> i][Max(t)] = Max(t)
      BY <1>1, <3>1
    <3>. QED BY <2>2, <3>2, <3>3, <3>4
  <2>. QED BY <2>1, <2>2
<1>7. KeptEq(s, keep, h)
  <2>1. h = [t \in SUBSET (1 .. n) |-> body(h, t)]
    <3>. HIDE DEF body
    <3>. QED BY <1>6
  <2>. QED BY <1>1, <2>1 DEF KeptEq
<1>8. KeptEq(s, keep, F)
  <2>. HIDE DEF KeptEq
  <2>. QED BY <1>7
<1>. HIDE DEF F
<1>9. ASSUME NEW t \in SUBSET (1 .. n) PROVE F[t] = body(F, t)
  <2>1. F = [u \in SUBSET (1 .. n) |-> body(F, u)]
    BY <1>1, <1>8 DEF KeptEq
  <2>. HIDE DEF body
  <2>. QED BY <2>1
<1>10. F[1 .. 0] = <<>>
  <2>1. 1 .. 0 = {} /\ {} \in SUBSET (1 .. n)
    OBVIOUS
  <2>. QED BY <1>9, <2>1
<1>11. ASSUME NEW i \in 1 .. n PROVE F[1 .. i] = KeptStep(s, keep, F[1 .. (i - 1)], i)
  <2>1. i \in 1 .. i /\ 1 .. i \in SUBSET (1 .. n) /\ (1 .. i) \ {i} = 1 .. (i - 1)
    BY <1>1
  <2>2. Max(1 .. i) = i /\ [j \in DOMAIN s |-> j][i] = i
    BY <2>1, MaxIsLast, <1>1
  <2>. QED BY <1>9, <2>1, <2>2
<1>. DEFINE S == {i \in 0 .. n : F[1 .. i] \in Seq(A)}
<1>12. 0 .. n \subseteq S
  <2>1. 0 \in S
    <3>1. 0 \in 0 .. n /\ <<>> \in Seq(A)
      BY <1>1
    <3>. QED BY <1>10, <3>1
  <2>2. ASSUME NEW i \in 1 .. n, i - 1 \in S PROVE i \in S
    <3>1. F[1 .. (i - 1)] \in Seq(A) /\ i \in 0 .. n
      BY <1>1, <2>2
    <3>2. F[1 .. i] \in Seq(A)
      BY <1>3, <1>11, <3>1
    <3>. QED BY <3>1, <3>2
  <2>. HIDE DEF S
  <2>. QED BY <1>1, <2>1, <2>2, UpTo
<1>. DEFINE g == [i \in 0 .. n |-> F[1 .. i]]
<1>13. g \in [0 .. n -> Seq(A)]
  BY <1>12
<1>14. /\ g[0] = <<>> /\ g[n] = Kept(s, keep)
       /\ \A i \in 1 .. n : g[i] = KeptStep(s, keep, g[i - 1], i)
  <2>1. 0 \in 0 .. n /\ n \in 0 .. n /\ \A i \in 1 .. n : i \in 0 .. n /\ i - 1 \in 0 .. n
    BY <1>1
  <2>. QED BY <1>1, <1>2, <1>10, <1>11, <2>1
<1>15. KeptChain(A, s, keep, g)
  <2>. HIDE DEF g
  <2>. QED BY <1>13, <1>14 DEF n, KeptChain
<1>. QED BY <1>15, Zenon

\* p lists the members of K, a set of positions, in their order.
Lists(p, m, K) ==
    /\ m \in Nat /\ p \in [1 .. m -> K]
    /\ \A j, k \in 1 .. m : j < k => p[j] < p[k]
    /\ \A x \in K : \E j \in 1 .. m : p[j] = x

\* Kept has the elements at the kept positions, in their order.
LEMMA KeptLists ==
    ASSUME NEW A, NEW s \in Seq(A), NEW keep \in SUBSET (1 .. Len(s))
    PROVE  \E m \in Nat : \E p \in [1 .. m -> keep] :
              /\ Lists(p, m, keep)
              /\ Kept(s, keep) \in Seq(A) /\ Len(Kept(s, keep)) = m
              /\ \A j \in 1 .. m : Kept(s, keep)[j] = s[p[j]]
<1>. DEFINE n == Len(s)
<1>1. n \in Nat /\ s \in [1 .. n -> A]
  OBVIOUS
<1>0. PICK g : KeptChain(A, s, keep, g)
  BY KeptSteps, Zenon
<1>2. /\ g \in [0 .. n -> Seq(A)] /\ g[0] = <<>> /\ g[n] = Kept(s, keep)
      /\ \A i \in 1 .. n : g[i] = KeptStep(s, keep, g[i - 1], i)
  BY <1>0, Zenon DEF KeptChain
<1>. HIDE DEF n
<1>. DEFINE to(i) == keep \cap (1 .. i)
            Shown(i, m, p) == /\ Lists(p, m, to(i))
                              /\ Len(g[i]) = m /\ \A j \in 1 .. m : g[i][j] = s[p[j]]
            S == {i \in 0 .. n : \E m \in Nat : \E p \in [1 .. m -> to(i)] : Shown(i, m, p)}
<1>3. 0 \in S
  <2>. DEFINE p == [j \in 1 .. 0 |-> 0]
  <2>1. to(0) = {} /\ p \in [1 .. 0 -> to(0)] /\ 0 \in 0 .. n
    BY <1>1
  <2>2. Shown(0, 0, p)
    BY <1>2, <2>1 DEF Lists
  <2>. QED BY <2>1, <2>2
<1>4. ASSUME NEW i \in 1 .. n, i - 1 \in S PROVE i \in S
  <2>. DEFINE k == i - 1
  <2>1. PICK m \in Nat : \E p \in [1 .. m -> to(k)] : Shown(k, m, p)
    BY <1>4
  <2>2. PICK p \in [1 .. m -> to(k)] : Shown(k, m, p)
    BY <2>1
  <2>3. i \in 0 .. n /\ k \in 0 .. n /\ g[k] \in Seq(A) /\ g[i] \in Seq(A) /\ s[i] \in A
    <3>1. i \in 0 .. n /\ k \in 0 .. n
      BY <1>1
    <3>. HIDE DEF k
    <3>2. g[k] \in Seq(A) /\ g[i] \in Seq(A)
      BY <1>2, <3>1, Zenon
    <3>. QED BY <1>1, <3>1, <3>2, Zenon
  <2>4. CASE i \notin keep
    <3>1. to(i) = to(k)
      BY <1>1, <2>4
    <3>2. g[i] = g[k]
      BY <1>2, <2>4 DEF KeptStep
    <3>3. Shown(i, m, p)
      BY <2>2, <3>1, <3>2
    <3>4. p \in [1 .. m -> to(i)]
      BY <3>1
    <3>. HIDE DEF Shown, to
    <3>. QED BY <2>3, <3>3, <3>4
  <2>5. CASE i \in keep
    <3>. DEFINE q == [j \in 1 .. (m + 1) |-> IF j = m + 1 THEN i ELSE p[j]]
    <3>1. to(i) = to(k) \cup {i} /\ \A x \in to(k) : x < i /\ x \in Nat
      BY <1>1, <2>5
    <3>2. g[i] = Append(g[k], s[i])
      BY <1>2, <2>5 DEF KeptStep
    <3>3. /\ m + 1 \in Nat /\ q[m + 1] = i
          /\ \A j \in 1 .. (m + 1) : j # m + 1 => j \in 1 .. m
          /\ \A j \in 1 .. m : q[j] = p[j] /\ p[j] \in to(k) /\ j \in 1 .. (m + 1) /\ j # m + 1
      OBVIOUS
    <3>4. q \in [1 .. (m + 1) -> to(i)]
      BY <3>1, <3>3
    <3>. HIDE DEF q
    <3>5. \A j1, j2 \in 1 .. (m + 1) : j1 < j2 => q[j1] < q[j2]
      <4>. SUFFICES ASSUME NEW j1 \in 1 .. (m + 1), NEW j2 \in 1 .. (m + 1), j1 < j2
                    PROVE  q[j1] < q[j2]
        OBVIOUS
      <4>1. j1 \in 1 .. m /\ (j2 = m + 1 \/ j2 \in 1 .. m)
        OBVIOUS
      <4>. QED BY <2>2, <3>1, <3>3, <4>1 DEF Lists
    <3>6. \A x \in to(i) : \E j \in 1 .. (m + 1) : q[j] = x
      <4>. SUFFICES ASSUME NEW x \in to(i) PROVE \E j \in 1 .. (m + 1) : q[j] = x
        OBVIOUS
      <4>1. CASE x = i
        <5>1. m + 1 \in 1 .. (m + 1)
          OBVIOUS
        <5>. QED BY <3>3, <4>1, <5>1
      <4>2. CASE x \in to(k)
        <5>1. PICK j \in 1 .. m : p[j] = x
          BY <2>2, <4>2 DEF Lists
        <5>. QED BY <3>3, <5>1
      <4>. HIDE DEF to
      <4>. QED BY <3>1, <4>1, <4>2
    <3>7. Lists(q, m + 1, to(i))
      <4>. HIDE DEF to
      <4>. QED BY <3>3, <3>4, <3>5, <3>6 DEF Lists
    <3>8. Len(g[i]) = m + 1 /\ \A j \in 1 .. (m + 1) : g[i][j] = s[q[j]]
      <4>1. Len(g[k]) = m /\ \A j \in 1 .. m : g[k][j] = s[p[j]]
        BY <2>2
      <4>2. Len(g[i]) = m + 1 /\ g[i][m + 1] = s[i] /\ \A j \in 1 .. m : g[i][j] = g[k][j]
        BY <2>3, <3>2, <4>1
      <4>. QED BY <3>3, <4>1, <4>2
    <3>9. Shown(i, m + 1, q)
      BY <3>7, <3>8
    <3>. HIDE DEF Shown, to
    <3>. QED BY <2>3, <3>3, <3>4, <3>9
  <2>. QED BY <2>4, <2>5
<1>5. n \in S
  <2>. HIDE DEF S
  <2>1. 0 .. n \subseteq S
    BY <1>1, <1>3, <1>4, UpTo
  <2>. QED BY <1>1, <2>1
<1>6. to(n) = keep
  BY <1>1 DEF n
<1>7. PICK m \in Nat : \E p \in [1 .. m -> to(n)] : Shown(n, m, p)
  BY <1>5
<1>9. PICK p \in [1 .. m -> to(n)] : Shown(n, m, p)
  BY <1>7
<1>. HIDE DEF to
<1>10. g[n] \in Seq(A)
  BY <1>1, <1>2
<1>. QED BY <1>2, <1>6, <1>9, <1>10

\* The same, of a list k that is Kept.
KeptAs(A, s, keep, k) ==
    \E m \in Nat : \E p \in [1 .. m -> keep] :
        /\ Lists(p, m, keep)
        /\ k \in Seq(A) /\ Len(k) = m
        /\ \A j \in 1 .. m : k[j] = s[p[j]]

\* A lemma to cite where the list has a name.
LEMMA KeptNamed ==
    ASSUME NEW A, NEW s \in Seq(A), NEW keep \in SUBSET (1 .. Len(s)), NEW k, k = Kept(s, keep)
    PROVE  KeptAs(A, s, keep, k)
BY KeptLists DEF KeptAs

\* A listing of an interval starts at its beginning and leaves nothing out.
LEMMA ListsInterval ==
    ASSUME NEW a \in Nat, NEW b \in Nat, a <= b + 1, NEW m, NEW p, Lists(p, m, a .. b)
    PROVE  m = b + 1 - a /\ \A j \in 1 .. m : p[j] = a + j - 1
<1>1. m \in Nat /\ p \in [1 .. m -> a .. b]
  BY DEF Lists
<1>. DEFINE S == {j \in 0 .. m : j = 0 \/ p[j] = a + j - 1}
<1>2. ASSUME NEW j \in 1 .. m, j - 1 \in S PROVE j \in S
  <2>1. p[j] \in a .. b /\ p[j] \in Int
    BY <1>1
  <2>2. j # 1 => j - 1 \in 1 .. m /\ p[j - 1] = a + j - 2 /\ p[j - 1] < p[j]
    BY <1>1, <1>2 DEF Lists
  <2>3. p[j] >= a + j - 1
    BY <1>1, <2>1, <2>2
  <2>4. ASSUME p[j] > a + j - 1 PROVE FALSE
    <3>1. a + j - 1 \in a .. b
      BY <1>1, <2>1, <2>4
    <3>2. PICK i \in 1 .. m : p[i] = a + j - 1
      BY <3>1 DEF Lists
    <3>3. i < j
      <4>. SUFFICES ASSUME j < i \/ i = j PROVE FALSE
        BY <1>1
      <4>1. j < i => p[j] < p[i]
        BY DEF Lists
      <4>. QED BY <1>1, <2>1, <2>4, <3>2, <4>1
    <3>4. j # 1 /\ (i = j - 1 \/ i < j - 1)
      BY <1>1, <3>3
    <3>5. i < j - 1 => p[i] < p[j - 1]
      BY <2>2, <3>4 DEF Lists
    <3>. QED BY <1>1, <2>2, <3>2, <3>4, <3>5
  <2>5. p[j] = a + j - 1
    <3>. DEFINE v == p[j]
    <3>1. v \in Int /\ v >= a + j - 1 /\ ~(v > a + j - 1) /\ j \in Int
      BY <2>1, <2>3, <2>4
    <3>. HIDE DEF v
    <3>2. v = a + j - 1
      BY <3>1
    <3>. QED BY <3>2 DEF v
  <2>. QED BY <1>1, <2>5
<1>3. 0 .. m \subseteq S
  <2>1. 0 \in S
    BY <1>1
  <2>. HIDE DEF S
  <2>. QED BY <1>1, <1>2, <2>1, UpTo
<1>4. \A j \in 1 .. m : p[j] = a + j - 1
  BY <1>1, <1>3
<1>5. m = b + 1 - a
  <2>1. m <= b + 1 - a
    <3>1. CASE m = 0
      BY <3>1
    <3>2. CASE m # 0
      <4>1. m \in 1 .. m /\ p[m] \in a .. b
        BY <1>1, <3>2
      <4>. QED BY <1>1, <1>4, <4>1
    <3>. QED BY <3>1, <3>2
  <2>2. m >= b + 1 - a
    <3>1. CASE a = b + 1
      BY <1>1, <3>1
    <3>2. CASE a <= b
      <4>1. b \in a .. b
        BY <3>2
      <4>2. PICK j \in 1 .. m : p[j] = b
        BY <4>1 DEF Lists
      <4>. QED BY <1>1, <1>4, <4>2
    <3>. QED BY <3>1, <3>2
  <2>. QED BY <1>1, <2>1, <2>2
<1>. QED BY <1>4, <1>5
-----------------------------------------------------------------------------
(* The solid-group planner.                                                *)

\* A plan, and the equation of the planner.
PlanRecord == [first : Nat, count : Nat, len : Nat]

PlanEq(lengths, h) ==
    h = [t \in SUBSET DOMAIN [i \in DOMAIN lengths |-> i] |->
            IF t = {} THEN <<>>
            ELSE Placed(h[t \ {Max(t)}], [i \in DOMAIN lengths |-> i][Max(t)],
                        lengths[[i \in DOMAIN lengths |-> i][Max(t)]])]

\* g is what the planner has after each item.
PlanChain(lengths, plans, g) ==
    /\ g \in [0 .. Len(lengths) -> Seq(PlanRecord)] /\ g[0] = <<>> /\ g[Len(lengths)] = plans
    /\ \A i \in 1 .. Len(lengths) : g[i] = Placed(g[i - 1], i, lengths[i])

\* An item joins the last plan or begins the next.
LEMMA PlacedType ==
    ASSUME NEW plans \in Seq(PlanRecord), NEW i \in Nat, NEW length \in Nat
    PROVE  Placed(plans, i, length) \in Seq(PlanRecord)
<1>1. CASE plans # <<>> /\ Last(plans).len + length <= GroupTarget
  <2>. DEFINE m == Len(plans)
              r == [first |-> plans[m].first, count |-> plans[m].count + 1,
                    len |-> plans[m].len + length]
  <2>1. m \in 1 .. m /\ m \in Nat /\ plans \in [1 .. m -> PlanRecord]
    BY <1>1
  <2>2. r \in PlanRecord
    <3>1. plans[m] \in PlanRecord
      BY <2>1
    <3>. QED BY <3>1 DEF PlanRecord
  <2>3. Placed(plans, i, length) = [plans EXCEPT ![m] = r]
    BY <1>1 DEF Placed
  <2>. HIDE DEF r
  <2>4. [plans EXCEPT ![m] = r] \in [1 .. m -> PlanRecord]
    BY <2>1, <2>2
  <2>. QED BY <2>1, <2>3, <2>4
<1>2. CASE ~(plans # <<>> /\ Last(plans).len + length <= GroupTarget)
  <2>1. [first |-> i, count |-> 1, len |-> length] \in PlanRecord
    BY DEF PlanRecord
  <2>. QED BY <1>2, <2>1 DEF Placed
<1>. QED BY <1>1, <1>2

\* plan_solid_groups goes over the items one after the other.
LEMMA PlanSteps ==
    ASSUME NEW lengths \in Seq(Nat), NEW profile, profile # "raw"
    PROVE  \E g : PlanChain(lengths, PlanSolidGroups(profile, lengths), g)
<1>. DEFINE n == Len(lengths)
            A == PlanRecord
            step == [p \in Seq(A) \X (1 .. n) |-> Placed(p[1], p[2], lengths[p[2]])]
            F == CHOOSE h : PlanEq(lengths, h)
            plans == PlanSolidGroups(profile, lengths)
<1>1. /\ DOMAIN lengths = 1 .. n /\ n \in Nat /\ lengths \in [1 .. n -> Nat]
      /\ DOMAIN [i \in DOMAIN lengths |-> i] = 1 .. n
  OBVIOUS
<1>2. plans = F[1 .. n]
  <2>1. plans = F[DOMAIN [i \in DOMAIN lengths |-> i]]
    BY DEF PlanSolidGroups, FoldLeftDomain, FoldLeft, MapThenFoldSet, PlanEq
  <2>. QED BY <1>1, <2>1
<1>3. \A out \in Seq(A), i \in 1 .. n : Placed(out, i, lengths[i]) \in Seq(A)
  <2>. TAKE out \in Seq(A), i \in 1 .. n
  <2>1. i \in Nat /\ lengths[i] \in Nat
    BY <1>1
  <2>. QED BY <2>1, PlacedType
<1>. HIDE DEF n, plans, A
<1>4. step \in [Seq(A) \X (1 .. n) -> Seq(A)]
  BY <1>3
<1>5. PICK h \in [SUBSET (1 .. n) -> Seq(A)] : FoldEq(n, <<>>, step, h)
  <2>1. <<>> \in Seq(A)
    OBVIOUS
  <2>. HIDE DEF step
  <2>. QED BY <1>1, <1>4, <2>1, FoldExists
<1>. DEFINE body(f, t) == IF t = {} THEN <<>>
                          ELSE Placed(f[t \ {Max(t)}], [i \in DOMAIN lengths |-> i][Max(t)],
                                      lengths[[i \in DOMAIN lengths |-> i][Max(t)]])
<1>6. ASSUME NEW t \in SUBSET (1 .. n) PROVE h[t] = body(h, t)
  <2>1. CASE t = {}
    BY <1>5, <2>1 DEF FoldEq
  <2>2. CASE t # {}
    <3>1. Max(t) \in 1 .. n /\ t \ {Max(t)} \in SUBSET (1 .. n)
      BY <1>1, <2>2, MaxMember
    <3>2. h[t] = step[<<h[t \ {Max(t)}], Max(t)>>]
      <4>. HIDE DEF step
      <4>. QED BY <1>5, <2>2 DEF FoldEq
    <3>3. <<h[t \ {Max(t)}], Max(t)>> \in Seq(A) \X (1 .. n)
      BY <3>1
    <3>4. [i \in DOMAIN lengths |-> i][Max(t)] = Max(t)
      BY <1>1, <3>1
    <3>. QED BY <2>2, <3>2, <3>3, <3>4
  <2>. QED BY <2>1, <2>2
<1>7. PlanEq(lengths, h)
  <2>1. h = [t \in SUBSET (1 .. n) |-> body(h, t)]
    <3>. HIDE DEF body
    <3>. QED BY <1>6
  <2>. QED BY <1>1, <2>1 DEF PlanEq
<1>8. PlanEq(lengths, F)
  <2>. HIDE DEF PlanEq
  <2>. QED BY <1>7
<1>. HIDE DEF F
<1>9. ASSUME NEW t \in SUBSET (1 .. n) PROVE F[t] = body(F, t)
  <2>1. F = [u \in SUBSET (1 .. n) |-> body(F, u)]
    BY <1>1, <1>8 DEF PlanEq
  <2>. HIDE DEF body
  <2>. QED BY <2>1
<1>10. F[1 .. 0] = <<>>
  <2>1. 1 .. 0 = {} /\ {} \in SUBSET (1 .. n)
    OBVIOUS
  <2>. QED BY <1>9, <2>1
<1>11. ASSUME NEW i \in 1 .. n PROVE F[1 .. i] = Placed(F[1 .. (i - 1)], i, lengths[i])
  <2>1. i \in 1 .. i /\ 1 .. i \in SUBSET (1 .. n) /\ (1 .. i) \ {i} = 1 .. (i - 1)
    BY <1>1
  <2>2. Max(1 .. i) = i
    <3>1. i \in Nat
      BY <1>1
    <3>. QED BY <2>1, <3>1, MaxIsLast
  <2>3. [j \in DOMAIN lengths |-> j][i] = i /\ 1 .. i # {}
    BY <1>1, <2>1
  <2>. QED BY <1>9, <2>1, <2>2, <2>3
<1>. DEFINE S == {i \in 0 .. n : F[1 .. i] \in Seq(A)}
<1>12. 0 .. n \subseteq S
  <2>1. 0 \in S
    <3>1. 0 \in 0 .. n /\ <<>> \in Seq(A)
      BY <1>1
    <3>. QED BY <1>10, <3>1
  <2>2. ASSUME NEW i \in 1 .. n, i - 1 \in S PROVE i \in S
    <3>1. F[1 .. (i - 1)] \in Seq(A) /\ i \in 0 .. n
      BY <1>1, <2>2
    <3>2. F[1 .. i] \in Seq(A)
      BY <1>3, <1>11, <3>1
    <3>. QED BY <3>1, <3>2
  <2>. HIDE DEF S
  <2>. QED BY <1>1, <2>1, <2>2, UpTo
<1>. DEFINE g == [i \in 0 .. n |-> F[1 .. i]]
<1>13. g \in [0 .. n -> Seq(A)]
  BY <1>12
<1>14. /\ g[0] = <<>> /\ g[n] = plans
       /\ \A i \in 1 .. n : g[i] = Placed(g[i - 1], i, lengths[i])
  <2>1. 0 \in 0 .. n /\ n \in 0 .. n /\ \A i \in 1 .. n : i \in 0 .. n /\ i - 1 \in 0 .. n
    BY <1>1
  <2>. QED BY <1>1, <1>2, <1>10, <1>11, <2>1
<1>15. PlanChain(lengths, plans, g)
  <2>. HIDE DEF g
  <2>. QED BY <1>13, <1>14 DEF n, A, PlanChain
<1>. QED BY <1>15, Zenon DEF plans

\* e cuts the items 1 .. n into the plans: plan number g has the items after e[g - 1] up to
\* e[g], at least one, and the sum of their lengths.
Cuts(e, plans, lengths, n) ==
    /\ e \in [0 .. Len(plans) -> 0 .. n] /\ e[0] = 0 /\ e[Len(plans)] = n
    /\ \A g \in 1 .. Len(plans) :
        /\ plans[g] \in PlanRecord
        /\ e[g - 1] < e[g]
        /\ plans[g].first = e[g - 1] + 1 /\ plans[g].count = e[g] - e[g - 1]
        /\ Upto(lengths, e[g]) = Upto(lengths, e[g - 1]) + plans[g].len

\* The next item moves the last cut or makes a new one.
LEMMA PlacedCuts ==
    ASSUME NEW lengths \in Seq(Nat), NEW i \in 1 .. Len(lengths), NEW plans \in Seq(PlanRecord),
           NEW e, Cuts(e, plans, lengths, i - 1)
    PROVE  \E f : Cuts(f, Placed(plans, i, lengths[i]), lengths, i)
<1>. DEFINE m == Len(plans)
            U(j) == Upto(lengths, j)
            length == lengths[i]
            next == Placed(plans, i, length)
<1>1. /\ m \in Nat /\ i \in Nat /\ i - 1 \in Nat /\ i >= 1
      /\ length \in Nat /\ plans \in [1 .. m -> PlanRecord] /\ 0 \in 0 .. m /\ m \in 0 .. m
  OBVIOUS
<1>2. /\ e \in [0 .. m -> 0 .. (i - 1)] /\ e[0] = 0 /\ e[m] = i - 1
      /\ \A g \in 1 .. m :
            /\ e[g - 1] < e[g]
            /\ plans[g].first = e[g - 1] + 1 /\ plans[g].count = e[g] - e[g - 1]
            /\ U(e[g]) = U(e[g - 1]) + plans[g].len
  BY DEF Cuts
<1>3. U(i) = U(i - 1) + length /\ \A j \in 0 .. i : U(j) \in Nat
  <2>1. \A j \in 1 .. Len(lengths) : lengths[j] \in Nat
    OBVIOUS
  <2>2. Len(lengths) \in Nat
    OBVIOUS
  <2>3. \A j \in 0 .. i : j \in 0 .. Len(lengths)
    BY <2>2
  <2>. QED BY <2>1, <2>2, <2>3, UptoSteps
<1>. HIDE DEF U
<1>4. CASE plans # <<>> /\ Last(plans).len + length <= GroupTarget
  <2>. DEFINE r == [first |-> plans[m].first, count |-> plans[m].count + 1,
                    len |-> plans[m].len + length]
              f == [e EXCEPT ![m] = i]
  <2>1. next = [plans EXCEPT ![m] = r]
    BY <1>4 DEF Placed
  <2>2. m \in 1 .. m /\ plans[m] \in PlanRecord
    BY <1>1, <1>4
  <2>3. next \in [1 .. m -> PlanRecord] /\ Len(next) = m
    <3>1. next \in Seq(PlanRecord)
      BY <1>1, PlacedType
    <3>. QED BY <1>1, <2>1, <3>1
  <2>4. /\ f \in [0 .. m -> 0 .. i] /\ f[m] = i /\ f[0] = 0
        /\ \A g \in 0 .. m : g # m => f[g] = e[g]
    BY <1>1, <1>2, <2>2
  <2>. HIDE DEF f, next
  <2>5. ASSUME NEW g \in 1 .. m
        PROVE  /\ next[g] \in PlanRecord
               /\ f[g - 1] < f[g]
               /\ next[g].first = f[g - 1] + 1 /\ next[g].count = f[g] - f[g - 1]
               /\ U(f[g]) = U(f[g - 1]) + next[g].len
    <3>1. g \in 0 .. m /\ g - 1 \in 0 .. m /\ g - 1 # m
      BY <1>1
    <3>2. f[g - 1] = e[g - 1] /\ e[g - 1] \in 0 .. (i - 1) /\ e[g] \in 0 .. (i - 1)
      BY <1>2, <2>4, <3>1
    <3>3. CASE g # m
      <4>1. next[g] = plans[g] /\ f[g] = e[g]
        BY <1>1, <2>1, <2>4, <3>1, <3>3
      <4>. QED BY <1>2, <2>3, <3>2, <4>1
    <3>4. CASE g = m
      <4>1. next[g] = r /\ f[g] = i
        BY <1>1, <2>1, <2>2, <2>4, <3>4
      <4>2. r.first = plans[m].first /\ r.count = plans[m].count + 1 /\ r.len = plans[m].len + length
        OBVIOUS
      <4>. HIDE DEF r
      <4>3. plans[m].len \in Nat /\ plans[m].count \in Nat
        BY <2>2 DEF PlanRecord
      <4>4. /\ e[g - 1] < i - 1 /\ plans[m].first = e[g - 1] + 1
            /\ plans[m].count = (i - 1) - e[g - 1]
            /\ U(i - 1) = U(e[g - 1]) + plans[m].len
        BY <1>2, <3>4
      <4>5. U(e[g - 1]) \in Nat
        BY <1>1, <1>3, <3>2, SMTT(40)
      <4>. DEFINE c == e[g - 1]
                  ln == plans[m].len
                  ct == plans[m].count
                  fs == plans[m].first
                  u == U(c)
                  v == U(i - 1)
                  w == U(i)
                  x == lengths[i]
      <4>6. /\ c \in Int /\ ln \in Int /\ ct \in Int /\ u \in Int /\ v \in Int /\ w \in Int /\ x \in Int
            /\ i \in Int /\ c < i - 1 /\ fs = c + 1 /\ ct = (i - 1) - c /\ v = u + ln /\ w = v + x
        <5>1. i \in 0 .. i /\ i - 1 \in 0 .. i
          BY <1>1
        <5>2. w \in Nat /\ v \in Nat
          BY <1>3, <5>1
        <5>3. c \in Int /\ u \in Int /\ v \in Int /\ w \in Int
          <6>1. c \in Int
            BY <3>2
          <6>2. u \in Int /\ v \in Int /\ w \in Int
            <7>. HIDE DEF c
            <7>. QED BY <4>5, <5>2 DEF c
          <6>. QED BY <6>1, <6>2
        <5>4. x \in Int /\ ln \in Int /\ ct \in Int /\ i \in Int
          BY <1>1, <4>3
        <5>5. c < i - 1 /\ fs = c + 1 /\ ct = (i - 1) - c /\ v = u + ln /\ w = v + x
          BY <1>3, <4>4, Zenon
        <5>. QED BY <5>3, <5>4, <5>5, Zenon
      <4>7. r.first = fs /\ r.count = ct + 1 /\ r.len = ln + x
        BY <4>2
      <4>. HIDE DEF c, ln, ct, fs, u, v, w, x
      <4>8. w = u + r.len /\ c < i /\ r.first = c + 1 /\ r.count = i - c
        BY <4>6, <4>7
      <4>9. next[g] \in PlanRecord /\ f[g - 1] = c
        BY <2>3, <3>2, SMTT(40) DEF c
      <4>. QED BY <4>1, <4>8, <4>9, Zenon DEF u, w
    <3>. QED BY <3>3, <3>4
  <2>6. Cuts(f, next, lengths, i)
    BY <2>3, <2>4, <2>5 DEF Cuts, U
  <2>. QED BY <2>6 DEF next
<1>5. CASE ~(plans # <<>> /\ Last(plans).len + length <= GroupTarget)
  <2>. DEFINE r == [first |-> i, count |-> 1, len |-> length]
              f == [g \in 0 .. (m + 1) |-> IF g = m + 1 THEN i ELSE e[g]]
  <2>1. next = Append(plans, r)
    BY <1>5 DEF Placed
  <2>2. r \in PlanRecord /\ r.first = i /\ r.count = 1 /\ r.len = length
    BY <1>1 DEF PlanRecord
  <2>. HIDE DEF r, next
  <2>3. /\ Len(next) = m + 1 /\ next[m + 1] = r
        /\ \A g \in 1 .. m : next[g] = plans[g]
    BY <2>1, <2>2
  <2>4. /\ f \in [0 .. (m + 1) -> 0 .. i] /\ f[m + 1] = i /\ f[0] = 0
        /\ \A g \in 0 .. m : f[g] = e[g]
    <3>0. 0 .. (i - 1) \subseteq 0 .. i
      BY <1>1
    <3>1. \A g \in 0 .. m : e[g] \in 0 .. i
      BY <1>2, <3>0, Zenon
    <3>2. \A g \in 0 .. (m + 1) : g # m + 1 => g \in 0 .. m
      BY <1>1
    <3>3. m + 1 \in 0 .. (m + 1) /\ 0 \in 0 .. (m + 1) /\ i \in 0 .. i /\ 0 # m + 1
      BY <1>1
    <3>4. \A g \in 0 .. m : g \in 0 .. (m + 1) /\ g # m + 1
      BY <1>1
    <3>. QED BY <1>2, <3>1, <3>2, <3>3, <3>4
  <2>. HIDE DEF f
  <2>5. ASSUME NEW g \in 1 .. (m + 1)
        PROVE  /\ next[g] \in PlanRecord
               /\ f[g - 1] < f[g]
               /\ next[g].first = f[g - 1] + 1 /\ next[g].count = f[g] - f[g - 1]
               /\ U(f[g]) = U(f[g - 1]) + next[g].len
    <3>1. g - 1 \in 0 .. m /\ (g # m + 1 => g \in 0 .. m /\ g \in 1 .. m)
      BY <1>1
    <3>2. CASE g # m + 1
      <4>1. next[g] = plans[g] /\ f[g] = e[g] /\ f[g - 1] = e[g - 1] /\ plans[g] \in PlanRecord
        BY <1>1, <2>3, <2>4, <3>1, <3>2
      <4>. QED BY <1>2, <3>1, <3>2, <4>1
    <3>3. CASE g = m + 1
      <4>1. next[g] = r /\ f[g] = i /\ g - 1 = m /\ f[g - 1] = i - 1
        BY <1>1, <1>2, <2>3, <2>4, <3>1, <3>3
      <4>. QED BY <1>1, <1>3, <2>2, <4>1
    <3>. QED BY <3>2, <3>3
  <2>6. Cuts(f, next, lengths, i)
    BY <2>3, <2>4, <2>5 DEF Cuts, U
  <2>. QED BY <2>6 DEF next
<1>. QED BY <1>4, <1>5

\* The plans of either profile are made of all items, in their order.
LEMMA PlanCuts ==
    ASSUME NEW lengths \in Seq(Nat), NEW profile
    PROVE  /\ PlanSolidGroups(profile, lengths) \in Seq(PlanRecord)
           /\ \E e : Cuts(e, PlanSolidGroups(profile, lengths), lengths, Len(lengths))
<1>. DEFINE n == Len(lengths)
            plans == PlanSolidGroups(profile, lengths)
<1>1. n \in Nat /\ \A i \in 1 .. n : lengths[i] \in Nat
  OBVIOUS
<1>2. CASE profile = "raw"
  <2>1. plans = [i \in 1 .. n |-> [first |-> i, count |-> 1, len |-> lengths[i]]]
    BY <1>2 DEF PlanSolidGroups
  <2>2. \A i \in 1 .. n : [first |-> i, count |-> 1, len |-> lengths[i]] \in PlanRecord
    BY <1>1 DEF PlanRecord
  <2>3. plans \in Seq(PlanRecord) /\ Len(plans) = n
    BY <1>1, <2>1, <2>2
  <2>4. \A i \in 1 .. n : plans[i].first = i /\ plans[i].count = 1 /\ plans[i].len = lengths[i]
    BY <2>1
  <2>5. \A i \in 1 .. n : Upto(lengths, i) = Upto(lengths, i - 1) + lengths[i]
    BY <1>1, UptoSteps
  <2>. HIDE DEF plans
  <2>. DEFINE e == [i \in 0 .. n |-> i]
  <2>6. /\ e \in [0 .. n -> 0 .. n] /\ e[0] = 0 /\ e[n] = n
        /\ \A i \in 1 .. n : e[i] = i /\ e[i - 1] = i - 1
    BY <1>1
  <2>. HIDE DEF e
  <2>7. ASSUME NEW g \in 1 .. n
        PROVE  /\ plans[g] \in PlanRecord
               /\ e[g - 1] < e[g]
               /\ plans[g].first = e[g - 1] + 1 /\ plans[g].count = e[g] - e[g - 1]
               /\ Upto(lengths, e[g]) = Upto(lengths, e[g - 1]) + plans[g].len
    <3>1. plans[g] \in PlanRecord
      BY <2>3
    <3>. QED BY <2>4, <2>5, <2>6, <3>1
  <2>8. Cuts(e, plans, lengths, n)
    BY <2>3, <2>6, <2>7 DEF Cuts
  <2>. QED BY <2>3, <2>8 DEF plans
<1>3. CASE profile # "raw"
  <2>1. PICK g : PlanChain(lengths, plans, g)
    BY <1>3, PlanSteps
  <2>2. /\ g \in [0 .. n -> Seq(PlanRecord)] /\ g[0] = <<>> /\ g[n] = plans
        /\ \A i \in 1 .. n : g[i] = Placed(g[i - 1], i, lengths[i])
    BY <2>1, Zenon DEF PlanChain
  <2>. HIDE DEF plans, n
  <2>. DEFINE S == {i \in 0 .. n : \E e : Cuts(e, g[i], lengths, i)}
  <2>3. 0 \in S
    <3>. DEFINE e == [i \in 0 .. 0 |-> 0]
    <3>1. Cuts(e, <<>>, lengths, 0)
      <4>1. Len(<<>>) = 0
        OBVIOUS
      <4>2. e \in [0 .. 0 -> 0 .. 0] /\ e[0] = 0 /\ 1 .. 0 = {}
        OBVIOUS
      <4>. HIDE DEF e
      <4>. QED BY <4>1, <4>2 DEF Cuts
    <3>2. 0 \in 0 .. n
      BY <1>1
    <3>. HIDE DEF e
    <3>. QED BY <2>2, <3>1, <3>2
  <2>4. ASSUME NEW i \in 1 .. n, i - 1 \in S PROVE i \in S
    <3>1. i - 1 \in 0 .. n /\ i \in 0 .. n
      BY <1>1
    <3>2. g[i - 1] \in Seq(PlanRecord)
      BY <2>2, <3>1
    <3>3. PICK e : Cuts(e, g[i - 1], lengths, i - 1)
      BY <2>4, Zenon
    <3>4. \E f : Cuts(f, Placed(g[i - 1], i, lengths[i]), lengths, i)
      <4>1. i \in 1 .. Len(lengths)
        BY DEF n
      <4>. QED BY <3>2, <3>3, <4>1, PlacedCuts
    <3>5. \E f : Cuts(f, g[i], lengths, i)
      BY <2>2, <3>4
    <3>. QED BY <3>1, <3>5, Zenon
  <2>5. n \in S
    <3>. HIDE DEF S
    <3>1. 0 .. n \subseteq S
      BY <1>1, <2>3, <2>4, UpTo
    <3>. QED BY <1>1, <3>1
  <2>6. n \in 0 .. n
    BY <1>1
  <2>. QED BY <2>2, <2>5, <2>6, Zenon DEF plans, n
<1>. QED BY <1>2, <1>3

\* The cuts are in order, so every item is in one plan and in no other.
LEMMA CutsOrder ==
    ASSUME NEW m \in Nat, NEW n \in Nat, NEW e \in [0 .. m -> 0 .. n], e[0] = 0, e[m] = n,
           \A g \in 1 .. m : e[g - 1] < e[g]
    PROVE  /\ \A g, h \in 0 .. m : g < h => e[g] < e[h]
           /\ \A i \in 1 .. n : \E g \in 1 .. m : e[g - 1] < i /\ i <= e[g]
           /\ \A g, h \in 1 .. m, i \in 1 .. n :
                (e[g - 1] < i /\ i <= e[g] /\ e[h - 1] < i /\ i <= e[h]) => g = h
<1>1. \A g \in 0 .. m : e[g] \in 0 .. n
  OBVIOUS
<1>. DEFINE S == {h \in 0 .. m : \A g \in 0 .. m : g < h => e[g] < e[h]}
<1>2. 0 .. m \subseteq S
  <2>1. 0 \in S
    OBVIOUS
  <2>2. ASSUME NEW h \in 1 .. m, h - 1 \in S PROVE h \in S
    <3>1. h \in 0 .. m /\ h - 1 \in 0 .. m /\ e[h - 1] < e[h] /\ e[h - 1] \in 0 .. n /\ e[h] \in 0 .. n
      BY <1>1
    <3>2. ASSUME NEW g \in 0 .. m, g < h PROVE e[g] < e[h]
      <4>1. g = h - 1 \/ g < h - 1
        BY <3>2
      <4>2. g < h - 1 => e[g] < e[h - 1]
        BY <2>2
      <4>3. e[g] \in 0 .. n
        BY <1>1
      <4>. QED BY <3>1, <4>1, <4>2, <4>3
    <3>. QED BY <3>1, <3>2
  <2>. HIDE DEF S
  <2>. QED BY <2>1, <2>2, UpTo
<1>3. \A g, h \in 0 .. m : g < h => e[g] < e[h]
  BY <1>2
<1>4. ASSUME NEW i \in 1 .. n PROVE \E g \in 1 .. m : e[g - 1] < i /\ i <= e[g]
  <2>. DEFINE T == {g \in 0 .. m : i <= e[g]}
  <2>1. m \in T /\ T \subseteq Nat
    OBVIOUS
  <2>2. PICK g \in T : \A h \in T : g <= h
    <3>. HIDE DEF T
    <3>. QED BY <2>1, LeastNatural
  <2>3. g \in 0 .. m /\ g # 0 /\ i <= e[g]
    BY <2>2
  <2>4. g \in 1 .. m /\ g - 1 \in 0 .. m /\ ~(g <= g - 1)
    BY <2>3
  <2>5. g - 1 \notin T
    BY <2>2, <2>4
  <2>6. e[g - 1] < i
    <3>1. e[g - 1] \in 0 .. n /\ ~(i <= e[g - 1])
      BY <1>1, <2>4, <2>5
    <3>. QED BY <3>1
  <2>. QED BY <2>3, <2>4, <2>6
<1>5. ASSUME NEW g \in 1 .. m, NEW h \in 1 .. m, NEW i \in 1 .. n,
             e[g - 1] < i, i <= e[g], e[h - 1] < i, i <= e[h]
      PROVE  g = h
  <2>1. /\ g \in 0 .. m /\ h \in 0 .. m /\ g - 1 \in 0 .. m /\ h - 1 \in 0 .. m
        /\ (g < h \/ h < g \/ g = h)
    OBVIOUS
  <2>2. ASSUME g < h PROVE FALSE
    <3>1. g = h - 1 \/ g < h - 1
      BY <2>2
    <3>. DEFINE x == e[g]
                y == e[h - 1]
    <3>2. x \in Int /\ y \in Int
      BY <1>1, <2>1
    <3>3. x = y \/ x < y
      BY <1>3, <2>1, <3>1
    <3>4. y < i /\ i <= x
      BY <1>5
    <3>. HIDE DEF x, y
    <3>. QED BY <3>2, <3>3, <3>4
  <2>3. ASSUME h < g PROVE FALSE
    <3>1. h = g - 1 \/ h < g - 1
      BY <2>3
    <3>. DEFINE x == e[h]
                y == e[g - 1]
    <3>2. x \in Int /\ y \in Int
      BY <1>1, <2>1
    <3>3. x = y \/ x < y
      BY <1>3, <2>1, <3>1
    <3>4. y < i /\ i <= x
      BY <1>5
    <3>. HIDE DEF x, y
    <3>. QED BY <3>2, <3>3, <3>4
  <2>. QED BY <2>1, <2>2, <2>3
<1>. QED BY <1>3, <1>4, <1>5
-----------------------------------------------------------------------------
(* What lies where in a payload.                                           *)

\* The sum of more numbers is not smaller.
LEMMA UptoGrows ==
    ASSUME NEW n \in Nat, NEW v, \A i \in 1 .. n : v[i] \in Nat, NEW k \in 0 .. n
    PROVE  \A i \in k .. n : Upto(v, k) <= Upto(v, i)
<1>1. /\ \A i \in 0 .. n : Upto(v, i) \in Nat
      /\ \A i \in 1 .. n : Upto(v, i) = Upto(v, i - 1) + v[i]
  BY UptoSteps
<1>. DEFINE S == {i \in 0 .. n : i >= k => Upto(v, k) <= Upto(v, i)}
<1>2. 0 \in S
  <2>1. 0 >= k => k = 0
    OBVIOUS
  <2>2. Upto(v, k) \in Nat /\ 0 \in 0 .. n
    BY <1>1
  <2>3. 0 >= k => Upto(v, k) <= Upto(v, 0)
    BY <2>1, <2>2
  <2>. QED BY <2>2, <2>3
<1>3. ASSUME NEW i \in 1 .. n, i - 1 \in S PROVE i \in S
  <2>1. i \in 0 .. n /\ i - 1 \in 0 .. n
    OBVIOUS
  <2>2. /\ Upto(v, i) \in Nat /\ Upto(v, i - 1) \in Nat /\ Upto(v, k) \in Nat /\ v[i] \in Nat
        /\ Upto(v, i) = Upto(v, i - 1) + v[i]
    BY <1>1, <2>1
  <2>3. CASE i - 1 >= k
    <3>1. Upto(v, k) <= Upto(v, i - 1)
      BY <1>3, <2>3
    <3>2. Upto(v, k) <= Upto(v, i)
      BY <2>2, <3>1
    <3>. QED BY <2>1, <3>2
  <2>4. CASE ~(i - 1 >= k)
    <3>1. i >= k => i = k
      BY <2>4
    <3>2. i >= k => Upto(v, k) <= Upto(v, i)
      BY <2>2, <3>1
    <3>. QED BY <2>1, <3>2
  <2>. QED BY <2>3, <2>4
<1>4. 0 .. n \subseteq S
  <2>. HIDE DEF S
  <2>. QED BY <1>2, <1>3, UpTo
<1>5. \A i \in k .. n : i \in 0 .. n /\ i >= k
  OBVIOUS
<1>. QED BY <1>4, <1>5

\* The equation of FlattenSeq.
FlatBody(seqs, f, i) == IF i = 1 THEN seqs[i] ELSE f[i - 1] \o seqs[i]
FlatEq(seqs, n, f) == f = [i \in 1 .. n |-> FlatBody(seqs, f, i)]

\* There is a function that satisfies it.
LEMMA FlatExists ==
    ASSUME NEW B, NEW seqs \in Seq(Seq(B))
    PROVE  \E f : FlatEq(seqs, Len(seqs), f)
<1>. DEFINE n == Len(seqs)
            S == {m \in 0 .. n : \E f : FlatEq(seqs, m, f)}
<1>1. n \in Nat
  OBVIOUS
<1>2. 0 \in S
  <2>. DEFINE f == [i \in 1 .. 0 |-> 0]
  <2>1. FlatEq(seqs, 0, f)
    BY DEF FlatEq
  <2>2. 0 \in 0 .. n
    BY <1>1
  <2>. HIDE DEF f
  <2>. QED BY <2>1, <2>2, Zenon
<1>. HIDE DEF n
<1>3. ASSUME NEW m \in 1 .. n, m - 1 \in S PROVE m \in S
  <2>1. PICK h : FlatEq(seqs, m - 1, h)
    BY <1>3, Zenon
  <2>. DEFINE f == [i \in 1 .. m |-> IF i = m THEN FlatBody(seqs, h, m) ELSE h[i]]
  <2>2. ASSUME NEW i \in 1 .. m PROVE f[i] = FlatBody(seqs, f, i)
    <3>1. i # 1 => i - 1 \in 1 .. m /\ i - 1 # m
      BY <1>1
    <3>2. i # 1 => f[i - 1] = h[i - 1]
      BY <3>1
    <3>3. FlatBody(seqs, f, i) = FlatBody(seqs, h, i)
      <4>. HIDE DEF f
      <4>. QED BY <3>2 DEF FlatBody
    <3>4. CASE i = m
      BY <3>3, <3>4
    <3>5. CASE i # m
      <4>1. i \in 1 .. (m - 1)
        BY <1>1, <3>5
      <4>2. h[i] = FlatBody(seqs, h, i)
        <5>1. h = [j \in 1 .. (m - 1) |-> FlatBody(seqs, h, j)]
          BY <2>1 DEF FlatEq
        <5>. QED BY <4>1, <5>1
      <4>3. f[i] = h[i]
        BY <3>5
      <4>. QED BY <3>3, <4>2, <4>3
    <3>. QED BY <3>4, <3>5
  <2>3. FlatEq(seqs, m, f)
    <3>1. f = [i \in 1 .. m |-> f[i]]
      OBVIOUS
    <3>. HIDE DEF f
    <3>. QED BY <2>2, <3>1 DEF FlatEq
  <2>4. m \in 0 .. n
    BY <1>1
  <2>. HIDE DEF f
  <2>. QED BY <2>3, <2>4, Zenon
<1>4. n \in S
  <2>. HIDE DEF S
  <2>1. 0 .. n \subseteq S
    BY <1>1, <1>2, <1>3, UpTo
  <2>. QED BY <1>1, <2>1
<1>. QED BY <1>4, Zenon DEF n

\* The sequences lie in `flat` one after the other; lens[i] is the length of number i.
LensOf(seqs, lens) == \A i \in 1 .. Len(seqs) : lens[i] = Len(seqs[i])
LaidOut(flat, seqs, lens) ==
    /\ Len(flat) = Upto(lens, Len(seqs))
    /\ \A i \in 1 .. Len(seqs) : \A j \in 1 .. lens[i] : flat[Upto(lens, i - 1) + j] = seqs[i][j]

\* FlattenSeq lays the sequences out one after the other.
LEMMA Flattened ==
    ASSUME NEW B, NEW seqs \in Seq(Seq(B)), NEW lens, LensOf(seqs, lens)
    PROVE  FlattenSeq(seqs) \in Seq(B) /\ LaidOut(FlattenSeq(seqs), seqs, lens)
<1>. DEFINE n == Len(seqs)
            U(i) == Upto(lens, i)
            F == CHOOSE f : FlatEq(seqs, n, f)
            flat == FlattenSeq(seqs)
<1>1. n \in Nat /\ \A i \in 1 .. n : seqs[i] \in Seq(B) /\ lens[i] \in Nat /\ Len(seqs[i]) = lens[i]
  BY DEF LensOf
<1>2. /\ U(0) = 0
      /\ \A i \in 0 .. n : U(i) \in Nat
      /\ \A i \in 1 .. n : U(i) = U(i - 1) + lens[i]
  <2>1. \A i \in 1 .. n : lens[i] \in Nat
    BY <1>1
  <2>. HIDE DEF n
  <2>. QED BY <1>1, <2>1, UptoSteps
<1>. HIDE DEF U
<1>3. CASE n = 0
  <2>1. flat = seqs /\ seqs = <<>>
    BY <1>3 DEF FlattenSeq
  <2>2. <<>> \in Seq(B) /\ Len(<<>>) = 0 /\ 1 .. 0 = {}
    OBVIOUS
  <2>. QED BY <1>2, <1>3, <2>1, <2>2 DEF U, LaidOut
<1>4. CASE n # 0
  <2>1. flat = F[n]
    BY <1>4 DEF FlattenSeq, FlatEq, FlatBody
  <2>2. FlatEq(seqs, n, F)
    <3>1. \E f : FlatEq(seqs, n, f)
      BY FlatExists
    <3>. QED BY <3>1, Zenon
  <2>. HIDE DEF F, flat, n
  <2>3. ASSUME NEW i \in 1 .. n PROVE F[i] = FlatBody(seqs, F, i)
    <3>1. F = [j \in 1 .. n |-> FlatBody(seqs, F, j)]
      BY <2>2 DEF FlatEq
    <3>. QED BY <3>1
  <2>. DEFINE Laid(i) == /\ F[i] \in Seq(B) /\ Len(F[i]) = U(i)
                         /\ \A k \in 1 .. i : \A j \in 1 .. lens[k] : F[i][U(k - 1) + j] = seqs[k][j]
              S == {i \in 0 .. n : i # 0 => Laid(i)}
  <2>4. 0 \in S
    BY <1>1
  <2>5. ASSUME NEW i \in 1 .. n, i - 1 \in S PROVE i \in S
    <3>0. i \in 0 .. n /\ i - 1 \in 0 .. n /\ i \in Nat
      BY <1>1
    <3>1. CASE i = 1
      <4>1. F[i] = seqs[i]
        BY <2>3, <3>1 DEF FlatBody
      <4>2. F[i] \in Seq(B) /\ Len(F[i]) = lens[i] /\ lens[i] \in Nat
        BY <1>1, <4>1
      <4>3. U(i) = lens[i] /\ U(i - 1) = 0
        BY <1>2, <3>1, <4>2
      <4>4. ASSUME NEW k \in 1 .. i, NEW j \in 1 .. lens[k] PROVE F[i][U(k - 1) + j] = seqs[k][j]
        <5>1. k = i /\ U(k - 1) = 0 /\ 0 + j = j
          BY <3>1, <4>2, <4>3
        <5>. QED BY <4>1, <5>1
      <4>. QED BY <3>0, <4>2, <4>3, <4>4
    <3>2. CASE i # 1
      <4>. DEFINE a == F[i - 1]
                  b == seqs[i]
      <4>1. /\ a \in Seq(B) /\ Len(a) = U(i - 1)
            /\ \A k \in 1 .. (i - 1) : \A j \in 1 .. lens[k] : a[U(k - 1) + j] = seqs[k][j]
        BY <2>5, <3>0, <3>2
      <4>2. F[i] = a \o b
        BY <2>3, <3>2 DEF FlatBody
      <4>3. b \in Seq(B) /\ Len(b) = lens[i] /\ lens[i] \in Nat
        BY <1>1
      <4>4. U(i - 1) \in Nat /\ U(i) = U(i - 1) + lens[i]
        BY <1>2, <3>0
      <4>. DEFINE c == F[i]
      <4>. HIDE DEF a, b
      <4>5. /\ c \in Seq(B) /\ Len(c) = U(i)
            /\ \A x \in 1 .. U(i - 1) : c[x] = a[x]
            /\ \A x \in 1 .. lens[i] : c[U(i - 1) + x] = b[x]
        <5>. DEFINE p == U(i - 1)
                    q == lens[i]
        <5>. HIDE DEF c
        <5>1. c = a \o b /\ Len(a) = p /\ Len(b) = q /\ p \in Nat /\ q \in Nat
          BY <4>1, <4>2, <4>3, <4>4 DEF c
        <5>. HIDE DEF p, q
        <5>2. /\ c \in Seq(B) /\ Len(c) = p + q
              /\ \A x \in 1 .. p : c[x] = a[x]
              /\ \A x \in 1 .. q : c[p + x] = b[x]
          <6>1. a \in Seq(B) /\ b \in Seq(B)
            BY <4>1, <4>3
          <6>2. c \in Seq(B) /\ Len(c) = p + q
            <7>1. a \o b \in Seq(B)
              BY <6>1
            <7>2. Len(a \o b) = Len(a) + Len(b)
              BY <6>1
            <7>. QED BY <5>1, <7>1, <7>2, Zenon
          <6>3. ASSUME NEW x \in 1 .. p PROVE c[x] = a[x]
            BY <5>1, <6>1
          <6>4. ASSUME NEW x \in 1 .. q PROVE c[p + x] = b[x]
            BY <5>1, <6>1
          <6>. QED BY <6>2, <6>3, <6>4
        <5>3. U(i) = p + q
          BY <4>4, Zenon DEF p, q
        <5>. QED BY <5>2, <5>3, Zenon DEF p, q
      <4>6. ASSUME NEW k \in 1 .. i, NEW j \in 1 .. lens[k] PROVE c[U(k - 1) + j] = seqs[k][j]
        <5>1. CASE k = i
          BY <4>5, <5>1 DEF b
        <5>2. CASE k # i
          <6>1. k \in 1 .. (i - 1)
            BY <3>0, <5>2
          <6>2. a[U(k - 1) + j] = seqs[k][j]
            BY <4>1, <6>1
          <6>3. U(k - 1) + j \in 1 .. U(i - 1)
            <7>1. U(k) <= U(i - 1)
              <8>1. k \in 0 .. n /\ i - 1 \in k .. n
                BY <1>1, <3>0, <6>1
              <8>2. \A x \in 1 .. n : lens[x] \in Nat
                BY <1>1
              <8>. QED BY <1>1, <8>1, <8>2, UptoGrows DEF U
            <7>2. U(k) = U(k - 1) + lens[k] /\ lens[k] \in Nat /\ U(k - 1) \in Nat /\ U(i - 1) \in Nat
              <8>1. k \in 1 .. n /\ k - 1 \in 0 .. n
                BY <1>1, <3>0, <6>1
              <8>. QED BY <1>1, <1>2, <3>0, <8>1
            <7>. DEFINE p == U(k - 1)
                        q == U(i - 1)
                        r == lens[k]
            <7>3. p \in Nat /\ q \in Nat /\ r \in Nat /\ p + r <= q /\ j \in 1 .. r
              BY <7>1, <7>2
            <7>. HIDE DEF p, q, r
            <7>4. p + j \in 1 .. q
              BY <7>3
            <7>. QED BY <7>4 DEF p, q
          <6>. QED BY <4>5, <6>2, <6>3
        <5>. QED BY <5>1, <5>2
      <4>. QED BY <3>0, <4>5, <4>6
    <3>. QED BY <3>1, <3>2
  <2>6. 0 .. n \subseteq S
    <3>. HIDE DEF S
    <3>. QED BY <1>1, <2>4, <2>5, UpTo
  <2>7. Laid(n)
    <3>1. n \in 0 .. n
      BY <1>1
    <3>. QED BY <1>4, <2>6, <3>1, Zenon
  <2>. QED BY <2>1, <2>7 DEF U, flat, n, LaidOut
<1>. QED BY <1>3, <1>4

\* The sums of a part of v: those of v, less what comes before.
IsPart(w, c, v, a, n) ==
    /\ n \in Nat /\ a \in 0 .. n /\ c \in Nat /\ a + c <= n
    /\ \A i \in 1 .. n : v[i] \in Nat
    /\ \A i \in 1 .. c : w[i] = v[a + i]

\* The sums of a part, from the sums of the whole.
LEMMA UptoPart ==
    ASSUME NEW w, NEW c, NEW v, NEW a, NEW n, IsPart(w, c, v, a, n)
    PROVE  \A i \in 0 .. c : Upto(w, i) \in Nat /\ Upto(w, i) + Upto(v, a) = Upto(v, a + i)
<1>0. /\ n \in Nat /\ a \in 0 .. n /\ c \in Nat /\ a + c <= n
      /\ \A i \in 1 .. n : v[i] \in Nat
      /\ \A i \in 1 .. c : w[i] = v[a + i]
  BY DEF IsPart
<1>1. \A i \in 1 .. c : a + i \in 1 .. n /\ w[i] \in Nat
  BY <1>0
<1>2. /\ Upto(v, 0) = 0
      /\ \A i \in 0 .. n : Upto(v, i) \in Nat
      /\ \A i \in 1 .. n : Upto(v, i) = Upto(v, i - 1) + v[i]
  BY <1>0, UptoSteps
<1>3. /\ Upto(w, 0) = 0
      /\ \A i \in 0 .. c : Upto(w, i) \in Nat
      /\ \A i \in 1 .. c : Upto(w, i) = Upto(w, i - 1) + w[i]
  <2>1. \A i \in 1 .. c : w[i] \in Nat
    BY <1>1
  <2>. QED BY <1>0, <2>1, UptoSteps
<1>. DEFINE S == {i \in 0 .. c : Upto(w, i) + Upto(v, a) = Upto(v, a + i)}
<1>4. 0 \in S
  <2>1. Upto(v, a) \in Nat /\ a + 0 = a /\ 0 \in 0 .. c
    BY <1>0, <1>2
  <2>. QED BY <1>3, <2>1
<1>5. ASSUME NEW i \in 1 .. c, i - 1 \in S PROVE i \in S
  <2>. DEFINE x == Upto(w, i)
              y == Upto(w, i - 1)
              z == Upto(v, a)
              r == Upto(v, a + i)
              t == Upto(v, a + (i - 1))
              u == v[a + i]
  <2>1. /\ i \in 0 .. c /\ i - 1 \in 0 .. c /\ a + i \in 1 .. n /\ a + i \in 0 .. n
        /\ a + (i - 1) = (a + i) - 1 /\ a + (i - 1) \in 0 .. n
    BY <1>0, <1>1
  <2>2. x = y + u /\ w[i] = u
    BY <1>0, <1>3
  <2>3. r = t + u
    BY <1>2, <2>1
  <2>4. y + z = t
    BY <1>5
  <2>5. y \in Nat /\ z \in Nat /\ t \in Nat /\ u \in Nat
    BY <1>0, <1>2, <1>3, <2>1
  <2>. HIDE DEF x, y, z, r, t, u
  <2>6. x + z = r
    BY <2>2, <2>3, <2>4, <2>5
  <2>. QED BY <2>1, <2>6 DEF x, z, r
<1>6. 0 .. c \subseteq S
  <2>. HIDE DEF S
  <2>. QED BY <1>0, <1>4, <1>5, UpTo
<1>. QED BY <1>3, <1>6
-----------------------------------------------------------------------------
(* The sources of a pack and their groups.                                 *)
\* A function on 1 .. m is a sequence of length m.
LEMMA LenOfFunction ==
    ASSUME NEW m \in Nat, NEW f, f = [i \in 1 .. m |-> f[i]]
    PROVE  Len(f) = m /\ \A T : (\A i \in 1 .. m : f[i] \in T) => f \in Seq(T)
<1>. DEFINE T == {f[i] : i \in 1 .. m}
<1>1. f \in [1 .. m -> T]
  BY Zenon
<1>. HIDE DEF T
<1>2. Len(f) = m
  BY <1>1
<1>3. ASSUME NEW R, \A i \in 1 .. m : f[i] \in R PROVE f \in Seq(R)
  <2>1. f \in [1 .. m -> R]
    BY <1>3, Zenon
  <2>. QED BY <2>1
<1>. QED BY <1>2, <1>3

\* The entries that are read: the first of each file.
SourceSet(files) == {k \in 1 .. Len(files) : IsSource(files, k)}

\* The sources, in the order of the entries.
LEMMA SourcesListed ==
    ASSUME NEW files, Len(files) \in Nat
    PROVE  /\ Sources(files) \in Seq(1 .. Len(files))
           /\ Lists(Sources(files), Len(Sources(files)), SourceSet(files))
<1>. DEFINE n == Len(files)
            K == SourceSet(files)
            id == [k \in 1 .. n |-> k]
<1>1. n \in Nat /\ K \in SUBSET (1 .. n)
  BY DEF SourceSet
<1>2. Sources(files) = Kept(id, K)
  BY DEF Sources, SourceSet
<1>. HIDE DEF n, K
<1>3. id \in Seq(1 .. n) /\ Len(id) = n /\ \A k \in 1 .. n : id[k] = k
  BY <1>1
<1>. HIDE DEF id
<1>. DEFINE s == Kept(id, K)
<1>4. PICK m \in Nat : \E p \in [1 .. m -> K] :
        /\ Lists(p, m, K)
        /\ s \in Seq(1 .. n) /\ Len(s) = m
        /\ \A j \in 1 .. m : s[j] = id[p[j]]
  <2>1. K \in SUBSET (1 .. Len(id))
    BY <1>1, <1>3
  <2>. QED BY <1>3, <2>1, KeptLists, SMTT(40)
<1>5. PICK p \in [1 .. m -> K] :
        /\ Lists(p, m, K)
        /\ s \in Seq(1 .. n) /\ Len(s) = m
        /\ \A j \in 1 .. m : s[j] = id[p[j]]
  BY <1>4
<1>6. \A j \in 1 .. m : s[j] = p[j]
  <2>. TAKE j \in 1 .. m
  <2>1. p[j] \in 1 .. n
    BY <1>1
  <2>. QED BY <1>3, <1>5, <2>1
<1>. HIDE DEF s
<1>7. s \in [1 .. m -> K]
  <2>0. s \in Seq(1 .. n) /\ Len(s) = m
    BY <1>5, Zenon
  <2>1. s \in [1 .. m -> 1 .. n]
    <3>. DEFINE T == 1 .. n
    <3>1. s \in Seq(T)
      BY <2>0
    <3>. HIDE DEF T
    <3>2. s \in [1 .. Len(s) -> T]
      BY <3>1
    <3>. QED BY <2>0, <3>2 DEF T
  <2>2. \A j \in 1 .. m : s[j] \in K
    BY <1>6
  <2>3. s = [j \in 1 .. m |-> s[j]]
    BY <2>1
  <2>. QED BY <2>2, <2>3, Zenon
<1>8. Lists(s, m, K)
  BY <1>5, <1>6, <1>7 DEF Lists
<1>. QED BY <1>2, <1>5, <1>8 DEF n, K, s

\* What pack knows once every input has been read.
Ready(profile, files, hashed, got) ==
    /\ profile \in Profiles
    /\ files \in Seq(ScannedFile)
    /\ \A k \in 1 .. Len(files) : files[k].kind # "unsafe"
    /\ \A i, k \in 1 .. Len(files) : i < k => files[i].path < files[k].path
    /\ \A k \in 1 .. Len(files) : IsSource(files, k) => (hashed[k] \in Seq(Nat) /\ got[k] = hashed[k])

\* The lengths of the sources, and the plans they are given.
Lens(files, hashed) == [i \in 1 .. Len(Sources(files)) |-> Len(hashed[Sources(files)[i]])]
Plans(profile, files, hashed) == PlanSolidGroups(profile, Lens(files, hashed))
PlanOf(plans, i) ==
    CHOOSE g \in 1 .. Len(plans) : plans[g].first <= i /\ i < plans[g].first + plans[g].count

\* The sources, with what was read of them.
SourcesRead(files, h, got) ==
    /\ Len(Sources(files)) \in Nat
    /\ Lens(files, h) \in Seq(Nat) /\ Len(Lens(files, h)) = Len(Sources(files))
    /\ \A i \in 1 .. Len(Sources(files)) :
        /\ Sources(files)[i] \in 1 .. Len(files) /\ IsSource(files, Sources(files)[i])
        /\ h[Sources(files)[i]] \in Seq(Nat) /\ got[Sources(files)[i]] = h[Sources(files)[i]]
        /\ Lens(files, h)[i] \in Nat /\ Lens(files, h)[i] = Len(h[Sources(files)[i]])

\* Every source was read, and read the same twice.
LEMMA SourceBytes ==
    ASSUME NEW p, NEW files, NEW h, NEW got, Ready(p, files, h, got)
    PROVE  SourcesRead(files, h, got)
<1>. DEFINE s == Sources(files)
            m == Len(s)
<1>1. Len(files) \in Nat
  BY DEF Ready
<1>2. s \in [1 .. m -> SourceSet(files)] /\ m \in Nat
  BY <1>1, SourcesListed DEF Lists
<1>. HIDE DEF s, m
<1>3. ASSUME NEW i \in 1 .. m
      PROVE  s[i] \in 1 .. Len(files) /\ IsSource(files, s[i])
  BY <1>2 DEF SourceSet
<1>4. ASSUME NEW i \in 1 .. m
      PROVE  h[s[i]] \in Seq(Nat) /\ got[s[i]] = h[s[i]] /\ Len(h[s[i]]) \in Nat
  <2>1. h[s[i]] \in Seq(Nat) /\ got[s[i]] = h[s[i]]
    BY <1>3 DEF Ready
  <2>. QED BY <2>1
<1>5. Lens(files, h) = [i \in 1 .. m |-> Len(h[s[i]])]
  BY DEF Lens, s, m
<1>6. Lens(files, h) \in Seq(Nat) /\ Len(Lens(files, h)) = m
  BY <1>2, <1>4, <1>5
<1>7. \A i \in 1 .. m : Lens(files, h)[i] = Len(h[s[i]])
  BY <1>5
<1>. QED BY <1>2, <1>3, <1>4, <1>6, <1>7 DEF s, m, SourcesRead

\* Every source is in one plan.
LEMMA PlanOfSource ==
    ASSUME NEW p, NEW files, NEW h, NEW got, Ready(p, files, h, got),
           NEW e, Cuts(e, Plans(p, files, h), Lens(files, h), Len(Sources(files)))
    PROVE  /\ Len(Plans(p, files, h)) \in Nat
           /\ \A i \in 1 .. Len(Sources(files)) :
                /\ PlanOf(Plans(p, files, h), i) \in 1 .. Len(Plans(p, files, h))
                /\ e[PlanOf(Plans(p, files, h), i) - 1] < i /\ i <= e[PlanOf(Plans(p, files, h), i)]
                /\ \A g \in 1 .. Len(Plans(p, files, h)) :
                    (e[g - 1] < i /\ i <= e[g]) => g = PlanOf(Plans(p, files, h), i)
<1>. DEFINE plans == Plans(p, files, h)
            n == Len(Sources(files))
            m == Len(plans)
            In(g, i) == e[g - 1] < i /\ i <= e[g]
<1>1. n \in Nat /\ plans \in Seq(PlanRecord)
  BY SourceBytes, PlanCuts DEF Plans, SourcesRead
<1>2. m \in Nat
  BY <1>1
<1>. HIDE DEF n, plans
<1>3. /\ e \in [0 .. m -> 0 .. n] /\ e[0] = 0 /\ e[m] = n
      /\ \A g \in 1 .. m : /\ e[g - 1] < e[g]
                           /\ plans[g].first = e[g - 1] + 1 /\ plans[g].count = e[g] - e[g - 1]
  BY DEF Cuts, n, plans
<1>. HIDE DEF m
<1>4. /\ \A i \in 1 .. n : \E g \in 1 .. m : In(g, i)
      /\ \A g, k \in 1 .. m, i \in 1 .. n : (In(g, i) /\ In(k, i)) => g = k
  BY <1>1, <1>2, <1>3, CutsOrder, ZenonT(60)
<1>5. ASSUME NEW i \in 1 .. n, NEW g \in 1 .. m
      PROVE  (plans[g].first <= i /\ i < plans[g].first + plans[g].count) <=> In(g, i)
  <2>1. g \in 0 .. m /\ g - 1 \in 0 .. m /\ i \in Int
    BY <1>1, <1>2
  <2>2. e[g] \in Int /\ e[g - 1] \in Int
    BY <1>3, <2>1
  <2>3. plans[g].first = e[g - 1] + 1 /\ plans[g].count = e[g] - e[g - 1]
    BY <1>3
  <2>. QED BY <2>1, <2>2, <2>3
<1>6. ASSUME NEW i \in 1 .. n
      PROVE  PlanOf(plans, i) \in 1 .. m /\ In(PlanOf(plans, i), i)
  <2>. DEFINE Is(g) == plans[g].first <= i /\ i < plans[g].first + plans[g].count
  <2>1. PICK g \in 1 .. m : In(g, i)
    BY <1>4
  <2>2. \E k \in 1 .. m : Is(k)
    BY <1>5, <2>1
  <2>3. PlanOf(plans, i) = CHOOSE k \in 1 .. m : Is(k)
    BY DEF PlanOf, m
  <2>. HIDE DEF Is
  <2>4. PlanOf(plans, i) \in 1 .. m /\ Is(PlanOf(plans, i))
    BY <2>2, <2>3
  <2>. QED BY <1>5, <2>4 DEF Is
<1>. QED BY <1>2, <1>4, <1>6 DEF plans, m, n

\* group_offset of a source: what the sources before it in its plan add up to.
LEMMA OffsetIs ==
    ASSUME NEW p, NEW files, NEW h, NEW got, Ready(p, files, h, got),
           NEW e, Cuts(e, Plans(p, files, h), Lens(files, h), Len(Sources(files))),
           NEW g \in 1 .. Len(Plans(p, files, h)), NEW i \in 1 .. Len(Sources(files)),
           e[g - 1] < i, i <= e[g]
    PROVE  LET at == OffsetInGroup(Sources(files), got, Plans(p, files, h)[g], i)
           IN  /\ at \in Nat
               /\ at + Upto(Lens(files, h), e[g - 1]) = Upto(Lens(files, h), i - 1)
<1>. DEFINE s == Sources(files)
            n == Len(s)
            v == Lens(files, h)
            plan == Plans(p, files, h)[g]
            a == e[g - 1]
            c == i - 1 - a
            w == [j \in 1 .. c |-> v[a + j]]
            part == SubSeq(s, plan.first, i - 1)
<1>1. /\ n \in Nat /\ s \in Seq(1 .. Len(files))
      /\ \A j \in 1 .. n : v[j] \in Nat /\ v[j] = Len(got[s[j]])
  <2>1. Len(files) \in Nat
    BY DEF Ready
  <2>2. s \in Seq(1 .. Len(files))
    BY <2>1, SourcesListed
  <2>3. n \in Nat /\ \A j \in 1 .. n : got[s[j]] = h[s[j]] /\ v[j] \in Nat /\ v[j] = Len(h[s[j]])
    <3>1. SourcesRead(files, h, got)
      BY SourceBytes
    <3>. QED BY <3>1, Zenon DEF SourcesRead
  <2>4. \A j \in 1 .. n : v[j] = Len(got[s[j]])
    BY <2>3, Zenon
  <2>. QED BY <2>2, <2>3, <2>4
<1>2. a \in 0 .. n /\ plan.first = a + 1
  <2>1. Len(Plans(p, files, h)) \in Nat
    BY PlanOfSource
  <2>2. g - 1 \in 0 .. Len(Plans(p, files, h))
    BY <2>1
  <2>. QED BY <2>2 DEF Cuts
<1>. HIDE DEF a, plan, n, s, v
<1>3. c \in Nat /\ a + c <= n /\ i - 1 = a + c /\ \A j \in 1 .. c : a + j \in 1 .. n
  <2>1. i \in 1 .. n /\ a < i
    BY Zenon DEF a, n, s
  <2>2. i \in Int /\ a \in Int
    BY <1>1, <1>2, <2>1
  <2>. QED BY <1>1, <1>2, <2>1, <2>2
<1>4. Len(part) = c /\ \A j \in 1 .. c : part[j] = s[a + j]
  <2>1. a + 1 \in 1 .. (n + 1) /\ a + c \in Nat /\ Len(s) = n
    BY <1>1, <1>2, <1>3 DEF n
  <2>2. part = SubSeq(s, a + 1, a + c)
    BY <1>2, <1>3
  <2>. HIDE DEF part, c
  <2>. QED BY <1>1, <1>2, <1>3, <2>1, <2>2
<1>5. OffsetInGroup(s, got, plan, i) = SumSeq(w)
  <2>1. OffsetInGroup(s, got, plan, i) = SumSeq([j \in 1 .. Len(part) |-> Len(got[part[j]])])
    BY DEF OffsetInGroup, Total
  <2>2. [j \in 1 .. Len(part) |-> Len(got[part[j]])] = w
    <3>. HIDE DEF part, c
    <3>. QED BY <1>1, <1>3, <1>4
  <2>. QED BY <2>1, <2>2
<1>6. Upto(w, c) = SumSeq(w)
  <2>1. [j \in 1 .. c |-> w[j]] = w
    OBVIOUS
  <2>. QED BY <2>1 DEF Upto
<1>7. \A j \in 1 .. c : w[j] = v[a + j]
  OBVIOUS
<1>. HIDE DEF w, c
<1>8. IsPart(w, c, v, a, n)
  BY <1>1, <1>2, <1>3, <1>7 DEF IsPart
<1>9. c \in 0 .. c
  BY <1>3
<1>10. Upto(w, c) \in Nat /\ Upto(w, c) + Upto(v, a) = Upto(v, a + c)
  BY <1>8, <1>9, UptoPart
<1>. QED BY <1>3, <1>5, <1>6, <1>10 DEF s, v, plan, a
\* Two sequences of the same length with the same elements.
LEMMA EqualSequences ==
    ASSUME NEW T, NEW s \in Seq(T), NEW t \in Seq(T), Len(s) = Len(t),
           \A i \in 1 .. Len(s) : s[i] = t[i]
    PROVE  s = t
  OBVIOUS

\* A part of a sequence, element by element.
LEMMA PartOfSeq ==
    ASSUME NEW T, NEW s \in Seq(T), NEW a \in Nat, NEW l \in Nat, a + l <= Len(s)
    PROVE  /\ SubSeq(s, a + 1, a + l) \in Seq(T)
           /\ Len(SubSeq(s, a + 1, a + l)) = l
           /\ \A x \in 1 .. l : SubSeq(s, a + 1, a + l)[x] = s[a + x]
<1>1. \A x \in (a + 1) .. (a + l) : s[x] \in T
  OBVIOUS
<1>2. a + 1 \in Int /\ a + l \in Int
  OBVIOUS
<1>3. /\ SubSeq(s, a + 1, a + l) \in Seq(T)
      /\ Len(SubSeq(s, a + 1, a + l)) = IF a + 1 <= a + l THEN (a + l) - (a + 1) + 1 ELSE 0
      /\ \A x \in 1 .. ((a + l) - (a + 1) + 1) : SubSeq(s, a + 1, a + l)[x] = s[(a + 1) + x - 1]
  BY <1>1, <1>2, SubSeqProperties, SMTT(40)
<1>4. (IF a + 1 <= a + l THEN (a + l) - (a + 1) + 1 ELSE 0) = l /\ (a + l) - (a + 1) + 1 = l
  OBVIOUS
<1>5. \A x \in 1 .. l : (a + 1) + x - 1 = a + x
  OBVIOUS
<1>. QED BY <1>3, <1>4, <1>5

\* The payload of a group has the length that was planned, and holds every member where
\* its offset says.
Members(files, h, got, e, g, plan) ==
    LET s == Sources(files)
        bytes == GroupBytes(s, got, plan)
    IN  /\ bytes \in Seq(Nat) /\ Len(bytes) = plan.len
        /\ \A i \in 1 .. Len(s) : (e[g - 1] < i /\ i <= e[g]) =>
            LET at == OffsetInGroup(s, got, plan, i)
            IN  SubSeq(bytes, at + 0 + 1, at + 0 + Len(h[s[i]])) = h[s[i]]

\* So it does for every plan.
LEMMA GroupHolds ==
    ASSUME NEW p, NEW files, NEW h, NEW got, Ready(p, files, h, got),
           NEW e, Cuts(e, Plans(p, files, h), Lens(files, h), Len(Sources(files))),
           NEW g \in 1 .. Len(Plans(p, files, h))
    PROVE  Members(files, h, got, e, g, Plans(p, files, h)[g])
<1>. DEFINE s == Sources(files)
            n == Len(s)
            v == Lens(files, h)
            plan == Plans(p, files, h)[g]
            a == e[g - 1]
            c == e[g] - a
            w == [j \in 1 .. c |-> v[a + j]]
            seqs == [j \in 1 .. c |-> got[s[a + j]]]
            bytes == GroupBytes(s, got, plan)
<1>1. n \in Nat /\ \A j \in 1 .. n : /\ got[s[j]] = h[s[j]] /\ h[s[j]] \in Seq(Nat)
                                    /\ v[j] \in Nat /\ v[j] = Len(h[s[j]])
  <2>1. SourcesRead(files, h, got)
    BY SourceBytes
  <2>. QED BY <2>1, Zenon DEF SourcesRead
<1>2. Len(Plans(p, files, h)) \in Nat
  BY PlanOfSource
<1>3. g - 1 \in 0 .. Len(Plans(p, files, h)) /\ g \in 0 .. Len(Plans(p, files, h))
  BY <1>2
<1>4. /\ a \in 0 .. n /\ e[g] \in 0 .. n /\ a < e[g] /\ plan.first = a + 1 /\ plan.count = c
      /\ plan \in PlanRecord /\ Upto(v, e[g]) = Upto(v, a) + plan.len
  BY <1>3 DEF Cuts
<1>5. c \in Nat /\ a + c = e[g] /\ a + c <= n /\ c \in 0 .. c /\ \A j \in 1 .. c : a + j \in 1 .. n
  <2>. DEFINE b == e[g]
  <2>1. a \in 0 .. n /\ b \in 0 .. n /\ a < b /\ c = b - a
    BY <1>4
  <2>0. n \in Nat
    BY <1>1
  <2>. HIDE DEF a, b, c, n
  <2>2. c \in Nat /\ a + c = b /\ a + c <= n /\ c \in 0 .. c /\ \A j \in 1 .. c : a + j \in 1 .. n
    BY <2>0, <2>1
  <2>. QED BY <2>2, Zenon DEF b
<1>6. bytes = FlattenSeq(seqs)
  <2>1. \A j \in 1 .. c : plan.first + j - 1 = a + j
    <3>. HIDE DEF a, c
    <3>. QED BY <1>4, <1>5
  <2>2. [j \in 1 .. plan.count |-> got[s[plan.first + j - 1]]] = seqs
    <3>. HIDE DEF plan, a, c, s
    <3>. QED BY <1>4, <2>1
  <2>. QED BY <2>2 DEF GroupBytes
<1>. HIDE DEF s, n, v, plan, a, c, bytes
<1>7. seqs \in Seq(Seq(Nat)) /\ Len(seqs) = c /\ \A j \in 1 .. c : seqs[j] = h[s[a + j]]
  <2>1. \A j \in 1 .. c : seqs[j] = h[s[a + j]] /\ seqs[j] \in Seq(Nat)
    BY <1>1, <1>5
  <2>2. seqs \in [1 .. c -> Seq(Nat)]
    BY <2>1
  <2>. HIDE DEF seqs
  <2>. DEFINE T == Seq(Nat)
  <2>3. seqs \in [1 .. c -> T] /\ c \in Nat
    BY <1>5, <2>2
  <2>. HIDE DEF T
  <2>4. seqs \in Seq(T) /\ Len(seqs) = c
    BY <2>3
  <2>. QED BY <2>1, <2>4 DEF T
<1>8. \A j \in 1 .. c : w[j] = v[a + j] /\ w[j] = Len(h[s[a + j]]) /\ w[j] \in Nat
  BY <1>1, <1>5
<1>. HIDE DEF seqs, w
<1>9. IsPart(w, c, v, a, n)
  BY <1>1, <1>4, <1>5, <1>8 DEF IsPart
<1>10. \A j \in 0 .. c : Upto(w, j) \in Nat /\ Upto(w, j) + Upto(v, a) = Upto(v, a + j)
  BY <1>9, UptoPart
<1>11. /\ bytes \in Seq(Nat) /\ Len(bytes) = Upto(w, c)
       /\ \A j \in 1 .. c : \A x \in 1 .. w[j] : bytes[Upto(w, j - 1) + x] = h[s[a + j]][x]
  <2>1. LensOf(seqs, w)
    BY <1>7, <1>8 DEF LensOf
  <2>2. bytes \in Seq(Nat) /\ LaidOut(bytes, seqs, w)
    BY <1>6, <1>7, <2>1, Flattened
  <2>. QED BY <1>7, <2>2 DEF LaidOut
<1>12. Upto(v, a) \in Nat
  <2>1. \A j \in 1 .. n : v[j] \in Nat
    BY <1>1
  <2>. QED BY <1>1, <1>4, <2>1, UptoSteps
<1>13. Len(bytes) = plan.len
  <2>. DEFINE x == Upto(w, c)
              y == Upto(v, a)
              z == plan.len
  <2>1. x \in Nat /\ y \in Nat /\ x + y = y + z
    BY <1>4, <1>5, <1>10, <1>12
  <2>2. z \in Nat
    BY <1>4 DEF PlanRecord
  <2>. HIDE DEF x, y, z
  <2>3. x = z
    BY <2>1, <2>2
  <2>. QED BY <1>11, <2>3 DEF x, z
<1>14. ASSUME NEW i \in 1 .. n, a < i, i <= e[g]
       PROVE  LET at == OffsetInGroup(s, got, plan, i)
              IN  SubSeq(bytes, at + 0 + 1, at + 0 + Len(h[s[i]])) = h[s[i]]
  <2>. DEFINE at == OffsetInGroup(s, got, plan, i)
              j == i - a
              k == j - 1
              b == h[s[i]]
  <2>1. at \in Nat /\ at + Upto(v, a) = Upto(v, i - 1)
    <3>1. i \in 1 .. Len(Sources(files)) /\ e[g - 1] < i /\ i <= e[g]
      BY <1>14 DEF n, s, a
    <3>. QED BY <3>1, OffsetIs DEF s, v, plan, a
  <2>2. /\ j \in 1 .. c /\ k \in 0 .. c /\ j \in 0 .. c /\ a + j = i /\ a + k = i - 1 /\ j \in j .. c
        /\ c \in j .. c /\ k = j - 1
    <3>1. i \in Int /\ a \in Int /\ c \in Nat /\ a < i /\ i <= a + c
      BY <1>1, <1>4, <1>5, <1>14
    <3>. QED BY <3>1
  <2>. HIDE DEF j, k, at
  <2>3. at = Upto(w, k)
    <3>. DEFINE x == Upto(w, k)
                y == Upto(v, a)
    <3>1. x \in Nat /\ x + y = Upto(v, i - 1)
      BY <1>10, <2>2
    <3>2. y \in Nat /\ at + y = x + y /\ at \in Nat
      BY <1>12, <2>1, <3>1
    <3>. HIDE DEF x, y
    <3>3. at = x
      BY <3>1, <3>2
    <3>. QED BY <3>3 DEF x
  <2>4. b \in Seq(Nat) /\ Len(b) = w[j] /\ w[j] \in Nat
    BY <1>1, <1>8, <2>2
  <2>5. \A x \in 1 .. w[j] : bytes[at + x] = b[x]
    BY <1>11, <2>2, <2>3
  <2>6. at + w[j] <= Len(bytes)
    <3>1. \A x \in 1 .. c : w[x] \in Nat
      BY <1>8
    <3>2. Upto(w, j) = Upto(w, j - 1) + w[j]
      BY <1>5, <2>2, <3>1, UptoSteps
    <3>3. Upto(w, j) <= Upto(w, c)
      BY <1>5, <2>2, <3>1, UptoGrows
    <3>. QED BY <1>11, <2>2, <2>3, <3>2, <3>3
  <2>. DEFINE ln == Len(b)
              r == SubSeq(bytes, at + 0 + 1, at + 0 + ln)
  <2>7. at + 0 + 1 = at + 1 /\ at + 0 + ln = at + ln /\ ln \in Nat /\ ln = w[j]
    BY <2>1, <2>4
  <2>8. at + ln <= Len(bytes) /\ \A x \in 1 .. ln : bytes[at + x] = b[x]
    BY <2>5, <2>6, <2>7
  <2>. HIDE DEF ln, b
  <2>9. /\ SubSeq(bytes, at + 1, at + ln) \in Seq(Nat)
        /\ Len(SubSeq(bytes, at + 1, at + ln)) = ln
        /\ \A x \in 1 .. ln : SubSeq(bytes, at + 1, at + ln)[x] = bytes[at + x]
    <3>1. bytes \in Seq(Nat) /\ at \in Nat /\ ln \in Nat /\ at + ln <= Len(bytes)
      BY <1>11, <2>1, <2>7, <2>8
    <3>. QED BY <3>1, PartOfSeq
  <2>10. \A x \in 1 .. ln : SubSeq(bytes, at + 1, at + ln)[x] = b[x]
    BY <2>8, <2>9
  <2>11. SubSeq(bytes, at + 1, at + ln) = b
    <3>1. Len(b) = ln /\ b \in Seq(Nat)
      BY <2>4 DEF ln
    <3>. QED BY <2>9, <2>10, <3>1, EqualSequences
  <2>12. r = b
    BY <2>7, <2>11
  <2>. QED BY <2>12 DEF ln, b, at
<1>. QED BY <1>11, <1>13, <1>14 DEF s, n, plan, a, bytes, Members
-----------------------------------------------------------------------------
(* The tables that Build writes.                                           *)

\* A beginning of a function on 1 .. m, as a sequence.
LEMMA Beginning ==
    ASSUME NEW m \in Nat, NEW f, f = [i \in 1 .. m |-> f[i]], NEW l \in 0 .. m
    PROVE  Len(SubSeq(f, 1, l)) = l /\ \A x \in 1 .. l : SubSeq(f, 1, l)[x] = f[x]
<1>. DEFINE T == {f[i] : i \in 1 .. m}
<1>1. Len(f) = m /\ \A i \in 1 .. m : f[i] \in T
  <2>1. Len(f) = m
    BY LenOfFunction
  <2>. QED BY <2>1
<1>. HIDE DEF T
<1>2. f \in Seq(T)
  BY <1>1, LenOfFunction
<1>3. l \in Nat /\ 0 \in Nat /\ 0 + l <= Len(f) /\ 0 + 1 = 1 /\ 0 + l = l /\ \A x \in 1 .. l : 0 + x = x
  BY <1>1
<1>4. /\ Len(SubSeq(f, 0 + 1, 0 + l)) = l
      /\ \A x \in 1 .. l : SubSeq(f, 0 + 1, 0 + l)[x] = f[0 + x]
  <2>1. l \in Nat /\ 0 \in Nat /\ 0 + l <= Len(f)
    BY <1>3
  <2>. QED BY <1>2, <2>1, PartOfSeq
<1>. QED BY <1>3, <1>4

\* What the tables of an archive say, in terms of its sources and plans.
Written(a, p, files, h, got) ==
    LET s == Sources(files)
        plans == Plans(p, files, h)
    IN  /\ Len(a.entries) = Len(files) /\ Len(a.groups) = Len(plans) /\ Len(a.restore) = Len(s)
        /\ a.groups = [g \in 1 .. Len(plans) |-> a.groups[g]]
        /\ a.restore = [i \in 1 .. Len(s) |-> a.restore[i]]
        /\ a.registry = (IF p = "compressed" THEN "codecs" ELSE "absent")
        /\ a.total = SumSeq([k \in 1 .. Len(files) |-> IF files[k].kind = "file" THEN files[k].len ELSE 0])
        /\ a.root = a.data
        /\ a.payload = SumSeq([j \in 1 .. Len(plans) |-> a.groups[j].packed])
        /\ \A g \in 1 .. Len(plans) :
            /\ a.data[g] = GroupBytes(s, got, plans[g])
            /\ a.groups[g].len = plans[g].len /\ a.groups[g].count = plans[g].count
            /\ a.groups[g].codec = EncodeSolidGroup(p, a.data[g]).codec
            /\ a.groups[g].packed = EncodeSolidGroup(p, a.data[g]).packed
            /\ a.groups[g].offset = SumSeq([j \in 1 .. (g - 1) |-> a.groups[j].packed])
        /\ \A i \in 1 .. Len(s) :
            a.restore[i] = [entry |-> s[i], len |-> Len(h[s[i]]), group |-> PlanOf(plans, i),
                            at |-> OffsetInGroup(s, got, plans[PlanOf(plans, i)], i)]
        /\ \A k \in 1 .. Len(files) :
            a.entries[k] = EntryRecord(files, h, k, PlanOf(plans, CHOOSE i \in 1 .. Len(s) : s[i] = k))

\* That is what Build writes.
LEMMA BuildWrites ==
    ASSUME NEW p, NEW files, NEW h, NEW got, Ready(p, files, h, got)
    PROVE  Written(Build(p, files, h, got), p, files, h, got)
<1>. DEFINE s == Sources(files)
            plans == Plans(p, files, h)
            m == Len(plans)
            a == Build(p, files, h, got)
            data == [g \in 1 .. m |-> GroupBytes(s, got, plans[g])]
            code == [g \in 1 .. m |-> EncodeSolidGroup(p, data[g])]
            packed == [j \in 1 .. m |-> code[j].packed]
<1>1. Len(s) \in Nat /\ m \in Nat /\ Len(files) \in Nat
  <2>1. SourcesRead(files, h, got)
    BY SourceBytes
  <2>2. Len(s) \in Nat /\ Lens(files, h) \in Seq(Nat)
    BY <2>1 DEF SourcesRead
  <2>3. plans \in Seq(PlanRecord)
    <3>. HIDE DEF plans
    <3>. QED BY <2>2, PlanCuts DEF Plans, plans
  <2>4. Len(files) \in Nat
    BY DEF Ready
  <2>. HIDE DEF s, plans
  <2>5. m \in Nat
    BY <2>3
  <2>. QED BY <2>2, <2>4, <2>5
<1>2. /\ a.data = data /\ a.root = data
      /\ a.registry = (IF p = "compressed" THEN "codecs" ELSE "absent")
      /\ a.total = SumSeq([k \in 1 .. Len(files) |-> IF files[k].kind = "file" THEN files[k].len ELSE 0])
  BY DEF Build, Plans, Lens, Total
<1>3. a.groups = [g \in 1 .. m |->
            [len |-> plans[g].len, count |-> plans[g].count, crc |-> data[g],
             codec |-> code[g].codec, packed |-> code[g].packed,
             offset |-> Total(SubSeq(code, 1, g - 1), LAMBDA c : c.packed)]]
  BY DEF Build, Plans, Lens
<1>4. a.restore = [i \in 1 .. Len(s) |->
            [entry |-> s[i], len |-> Len(h[s[i]]), group |-> PlanOf(plans, i),
             at |-> OffsetInGroup(s, got, plans[PlanOf(plans, i)], i)]]
  BY DEF Build, Plans, Lens, PlanOf
<1>5. a.entries = [k \in 1 .. Len(files) |->
            EntryRecord(files, h, k, PlanOf(plans, CHOOSE i \in 1 .. Len(s) : s[i] = k))]
  BY DEF Build, Plans, Lens, PlanOf
<1>6. a.payload = SumSeq([i \in 1 .. Len(code) |-> code[i].packed])
  BY DEF Build, Plans, Lens, Total
<1>. HIDE DEF a, s, plans, m
<1>7. /\ data = [g \in 1 .. m |-> data[g]] /\ \A g \in 1 .. m : data[g] = GroupBytes(s, got, plans[g])
      /\ code = [g \in 1 .. m |-> code[g]] /\ \A g \in 1 .. m : code[g] = EncodeSolidGroup(p, data[g])
  OBVIOUS
<1>. HIDE DEF data, code
<1>8. Len(a.entries) = Len(files) /\ Len(a.groups) = m /\ Len(a.restore) = Len(s) /\ Len(code) = m
  <2>1. a.entries = [k \in 1 .. Len(files) |-> a.entries[k]]
    BY <1>5
  <2>2. a.groups = [g \in 1 .. m |-> a.groups[g]]
    BY <1>3
  <2>3. a.restore = [i \in 1 .. Len(s) |-> a.restore[i]]
    BY <1>4
  <2>. QED BY <1>1, <1>7, <2>1, <2>2, <2>3, LenOfFunction
<1>9. ASSUME NEW g \in 1 .. m
      PROVE  /\ a.groups[g].len = plans[g].len /\ a.groups[g].count = plans[g].count
             /\ a.groups[g].codec = code[g].codec /\ a.groups[g].packed = code[g].packed
             /\ a.groups[g].offset = Total(SubSeq(code, 1, g - 1), LAMBDA c : c.packed)
  BY <1>3
<1>10. ASSUME NEW g \in 1 .. m
       PROVE  a.groups[g].offset = SumSeq([j \in 1 .. (g - 1) |-> a.groups[j].packed])
  <2>. DEFINE first == SubSeq(code, 1, g - 1)
  <2>1. g - 1 \in 0 .. m /\ \A j \in 1 .. (g - 1) : j \in 1 .. m
    BY <1>1
  <2>2. Len(first) = g - 1 /\ \A j \in 1 .. (g - 1) : first[j] = code[j]
    BY <1>1, <1>7, <2>1, Beginning
  <2>3. a.groups[g].offset = SumSeq([j \in 1 .. Len(first) |-> first[j].packed])
    BY <1>9 DEF Total
  <2>4. [j \in 1 .. Len(first) |-> first[j].packed] = [j \in 1 .. (g - 1) |-> a.groups[j].packed]
    <3>. HIDE DEF first
    <3>. QED BY <1>9, <2>1, <2>2
  <2>. QED BY <2>3, <2>4
<1>11. a.payload = SumSeq([j \in 1 .. m |-> a.groups[j].packed])
  <2>1. [j \in 1 .. Len(code) |-> code[j].packed] = [j \in 1 .. m |-> a.groups[j].packed]
    BY <1>8, <1>9
  <2>. QED BY <1>6, <2>1
<1>12. /\ a.groups = [g \in 1 .. m |-> a.groups[g]]
       /\ a.restore = [i \in 1 .. Len(s) |-> a.restore[i]]
  BY <1>3, <1>4
<1>13. \A i \in 1 .. Len(s) :
            a.restore[i] = [entry |-> s[i], len |-> Len(h[s[i]]), group |-> PlanOf(plans, i),
                            at |-> OffsetInGroup(s, got, plans[PlanOf(plans, i)], i)]
  BY <1>4
<1>14. \A k \in 1 .. Len(files) :
            a.entries[k] = EntryRecord(files, h, k, PlanOf(plans, CHOOSE i \in 1 .. Len(s) : s[i] = k))
  BY <1>5
<1>15. \A g \in 1 .. m :
            /\ a.data[g] = GroupBytes(s, got, plans[g])
            /\ a.groups[g].len = plans[g].len /\ a.groups[g].count = plans[g].count
            /\ a.groups[g].codec = EncodeSolidGroup(p, a.data[g]).codec
            /\ a.groups[g].packed = EncodeSolidGroup(p, a.data[g]).packed
            /\ a.groups[g].offset = SumSeq([j \in 1 .. (g - 1) |-> a.groups[j].packed])
  <2>. TAKE g \in 1 .. m
  <2>1. a.data[g] = data[g] /\ data[g] = GroupBytes(s, got, plans[g])
    BY <1>2, <1>7
  <2>2. code[g] = EncodeSolidGroup(p, a.data[g])
    BY <1>7, <2>1
  <2>. QED BY <1>9, <1>10, <2>1, <2>2, Zenon
<1>16. a.root = a.data
  BY <1>2
<1>. QED BY <1>2, <1>8, <1>11, <1>12, <1>13, <1>14, <1>15, <1>16, Zenon DEF Written, a, s, plans, m
\* The position of a source among the sources.
SourceIndex(files, k) == CHOOSE i \in 1 .. Len(Sources(files)) : Sources(files)[i] = k

\* Every source has one position, and every position is that of its source.
LEMMA SourceIndexIs ==
    ASSUME NEW files, Len(files) \in Nat
    PROVE  /\ \A k \in 1 .. Len(files) : IsSource(files, k) =>
                /\ SourceIndex(files, k) \in 1 .. Len(Sources(files))
                /\ Sources(files)[SourceIndex(files, k)] = k
           /\ \A i, j \in 1 .. Len(Sources(files)) : Sources(files)[i] = Sources(files)[j] => i = j
           /\ \A i \in 1 .. Len(Sources(files)) : SourceIndex(files, Sources(files)[i]) = i
<1>. DEFINE s == Sources(files)
            m == Len(s)
<1>1. Lists(s, m, SourceSet(files))
  BY SourcesListed
<1>2. m \in Nat /\ s \in [1 .. m -> SourceSet(files)]
  BY <1>1 DEF Lists
<1>3. ASSUME NEW k \in 1 .. Len(files), IsSource(files, k) PROVE \E i \in 1 .. m : s[i] = k
  BY <1>1, <1>3 DEF Lists, SourceSet
<1>. HIDE DEF s, m
<1>4. \A k : SourceIndex(files, k) = CHOOSE i \in 1 .. m : s[i] = k
  BY DEF SourceIndex, s, m
<1>5. ASSUME NEW i \in 1 .. m, NEW j \in 1 .. m, s[i] = s[j] PROVE i = j
  <2>1. s[i] \in 1 .. Len(files) /\ s[j] \in 1 .. Len(files)
    BY <1>2 DEF SourceSet
  <2>2. i < j => s[i] < s[j]
    BY <1>1 DEF Lists
  <2>3. j < i => s[j] < s[i]
    BY <1>1 DEF Lists
  <2>4. s[i] \in Int /\ ~(s[i] < s[j]) /\ ~(s[j] < s[i])
    BY <1>5, <2>1
  <2>5. ~(i < j) /\ ~(j < i)
    BY <2>2, <2>3, <2>4
  <2>. QED BY <1>2, <2>5
<1>6. ASSUME NEW k, \E i \in 1 .. m : s[i] = k
      PROVE  SourceIndex(files, k) \in 1 .. m /\ s[SourceIndex(files, k)] = k
  BY <1>4, <1>6
<1>7. ASSUME NEW k \in 1 .. Len(files), IsSource(files, k)
      PROVE  SourceIndex(files, k) \in 1 .. m /\ s[SourceIndex(files, k)] = k
  BY <1>3, <1>6, <1>7
<1>8. ASSUME NEW i \in 1 .. m PROVE SourceIndex(files, s[i]) = i
  <2>1. SourceIndex(files, s[i]) \in 1 .. m /\ s[SourceIndex(files, s[i])] = s[i]
    BY <1>6
  <2>. QED BY <1>5, <2>1
<1>. QED BY <1>5, <1>7, <1>8 DEF s, m

\* The three kinds of entry.
EntryIs(a, p, files, h, k) ==
    LET entry == a.entries[k]
    IN  /\ entry.path = files[k].path
        /\ files[k].kind # "file" => entry.kind = files[k].kind /\ entry.size = 0
        /\ IsSource(files, k) =>
            /\ entry.kind = "file" /\ entry.size = Len(h[k]) /\ entry.hash = h[k]
            /\ entry.group = PlanOf(Plans(p, files, h), SourceIndex(files, k))
        /\ (files[k].kind = "file" /\ ~IsSource(files, k)) =>
            /\ entry.kind = "hardlink" /\ entry.target = SourceOf(files, k)
            /\ entry.size = Len(h[SourceOf(files, k)]) /\ entry.hash = h[SourceOf(files, k)]

\* Every entry of the table is of one of them.
LEMMA EntriesAre ==
    ASSUME NEW a, NEW p, NEW files, NEW h, NEW got, Written(a, p, files, h, got)
    PROVE  \A k \in 1 .. Len(files) : EntryIs(a, p, files, h, k)
<1>. TAKE k \in 1 .. Len(files)
<1>. DEFINE group == PlanOf(Plans(p, files, h), SourceIndex(files, k))
<1>1. a.entries[k] = EntryRecord(files, h, k, group)
  BY DEF Written, SourceIndex
<1>2. CASE files[k].kind # "file"
  <2>1. a.entries[k] = [path |-> files[k].path, kind |-> files[k].kind, size |-> 0,
             hash |-> <<>>, group |-> NoId, target |-> NoId]
    BY <1>1, <1>2 DEF EntryRecord, IsSource
  <2>. QED BY <1>2, <2>1 DEF EntryIs, IsSource
<1>3. CASE IsSource(files, k)
  <2>1. a.entries[k] = [path |-> files[k].path, kind |-> "file", size |-> Len(h[k]),
             hash |-> h[k], group |-> group, target |-> NoId]
    BY <1>1, <1>3 DEF EntryRecord, IsSource
  <2>2. files[k].kind = "file"
    BY <1>3 DEF IsSource
  <2>. HIDE DEF group
  <2>. QED BY <1>3, <2>1, <2>2 DEF EntryIs, group
<1>4. CASE files[k].kind = "file" /\ ~IsSource(files, k)
  <2>1. a.entries[k] = [path |-> files[k].path, kind |-> "hardlink",
             size |-> Len(h[SourceOf(files, k)]), hash |-> h[SourceOf(files, k)],
             group |-> NoId, target |-> SourceOf(files, k)]
    BY <1>1, <1>4 DEF EntryRecord, IsSource
  <2>. QED BY <1>4, <2>1 DEF EntryIs
<1>. QED BY <1>2, <1>3, <1>4

\* Every link of a file was met with the length that was read of it.
Agreed(files, h) ==
    \A k \in 1 .. Len(files) : files[k].kind = "file" => files[k].len = Len(h[SourceOf(files, k)])

\* The checks of the entry table: paths in order, links to files before them, the
\* total, and for each file a group and a length.
LEMMA EntriesAccepted ==
    ASSUME NEW p, NEW files, NEW h, NEW got, Ready(p, files, h, got), Agreed(files, h),
           NEW e, Cuts(e, Plans(p, files, h), Lens(files, h), Len(Sources(files))),
           NEW a, Written(a, p, files, h, got)
    PROVE  EntriesValid(a)
<1>. DEFINE n == Len(files)
            Es(k) == a.entries[k]
<1>1. /\ n \in Nat /\ Len(a.entries) = n /\ Len(a.groups) = Len(Plans(p, files, h))
      /\ files \in Seq(ScannedFile)
  BY DEF Ready, Written
<1>2. ASSUME NEW k \in 1 .. n
      PROVE  /\ files[k] \in ScannedFile /\ files[k].path \in Nat
             /\ files[k].kind \in {"file", "dir", "symlink"}
             /\ k \in Nat \ {0}
  <2>1. files[k] \in ScannedFile /\ files[k].kind # "unsafe"
    BY DEF Ready
  <2>2. files[k].path \in Nat
    BY <2>1 DEF ScannedFile
  <2>3. files[k].kind \in {"file", "dir", "symlink"}
    BY <2>1 DEF ScannedFile
  <2>4. k \in Nat \ {0}
    BY <1>1
  <2>. QED BY <2>1, <2>2, <2>3, <2>4
<1>3. ASSUME NEW k \in 1 .. n PROVE EntryIs(a, p, files, h, k)
  BY EntriesAre
<1>4. ASSUME NEW i \in 1 .. n, NEW k \in 1 .. n, a.entries[i].path = a.entries[k].path PROVE i = k
  <2>1. files[i].path = files[k].path
    BY <1>3, <1>4 DEF EntryIs
  <2>2. i < k => files[i].path < files[k].path
    BY DEF Ready
  <2>3. k < i => files[k].path < files[i].path
    BY DEF Ready
  <2>4. files[i].path \in Nat
    BY <1>2
  <2>5. ~(files[i].path < files[k].path) /\ ~(files[k].path < files[i].path)
    BY <2>1, <2>4
  <2>6. ~(i < k) /\ ~(k < i)
    BY <2>2, <2>3, <2>5
  <2>. QED BY <1>1, <2>6
<1>5. ASSUME NEW k \in 1 .. n
      PROVE  LET entry == a.entries[k]
             IN  CASE entry.kind = "file" -> entry.group \in 1 .. Len(a.groups)
                   [] entry.kind = "hardlink" ->
                        /\ entry.target < k /\ entry.target \in 1 .. Len(a.entries)
                        /\ a.entries[entry.target].kind = "file"
                        /\ a.entries[entry.target].size = entry.size
                        /\ a.entries[entry.target].hash = entry.hash
                   [] entry.kind = "dir" -> entry.size = 0
                   [] OTHER -> entry.kind = "symlink"
  <2>1. CASE files[k].kind # "file"
    <3>1. a.entries[k].kind \in {"dir", "symlink"} /\ a.entries[k].size = 0
      BY <1>2, <1>3, <2>1 DEF EntryIs
    <3>. QED BY <3>1
  <2>2. CASE IsSource(files, k)
    <3>1. a.entries[k].kind = "file" /\ a.entries[k].group = PlanOf(Plans(p, files, h), SourceIndex(files, k))
      BY <1>3, <2>2 DEF EntryIs
    <3>2. SourceIndex(files, k) \in 1 .. Len(Sources(files))
      BY <1>1, <2>2, SourceIndexIs
    <3>3. PlanOf(Plans(p, files, h), SourceIndex(files, k)) \in 1 .. Len(Plans(p, files, h))
      BY <3>2, PlanOfSource
    <3>. QED BY <1>1, <3>1, <3>3
  <2>3. CASE files[k].kind = "file" /\ ~IsSource(files, k)
    <3>. DEFINE t == SourceOf(files, k)
    <3>1. /\ a.entries[k].kind = "hardlink" /\ a.entries[k].target = t
          /\ a.entries[k].size = Len(h[t]) /\ a.entries[k].hash = h[t]
      BY <1>3, <2>3 DEF EntryIs
    <3>2. t \in 1 .. k /\ IsSource(files, t)
      BY <1>2, <2>3, SourceFacts
    <3>3. t # k
      BY <2>3, <3>2
    <3>4. t < k /\ t \in 1 .. n
      BY <1>1, <3>2, <3>3
    <3>5. a.entries[t].kind = "file" /\ a.entries[t].size = Len(h[t]) /\ a.entries[t].hash = h[t]
      BY <1>3, <3>2, <3>4 DEF EntryIs
    <3>. HIDE DEF t
    <3>. QED BY <1>1, <3>1, <3>4, <3>5
  <2>. QED BY <2>1, <2>2, <2>3
<1>6. a.total = Total(a.entries, LAMBDA x : IF x.kind \in {"file", "hardlink"} THEN x.size ELSE 0)
  <2>1. ASSUME NEW k \in 1 .. n
        PROVE  (IF a.entries[k].kind \in {"file", "hardlink"} THEN a.entries[k].size ELSE 0)
                 = (IF files[k].kind = "file" THEN files[k].len ELSE 0)
    <3>1. CASE files[k].kind # "file"
      <4>1. a.entries[k].kind = files[k].kind /\ files[k].kind \in {"dir", "symlink"}
        BY <1>2, <1>3, <3>1 DEF EntryIs
      <4>. QED BY <3>1, <4>1
    <3>2. CASE files[k].kind = "file"
      <4>1. files[k].len = Len(h[SourceOf(files, k)])
        BY <3>2 DEF Agreed
      <4>2. a.entries[k].kind \in {"file", "hardlink"} /\ a.entries[k].size = Len(h[SourceOf(files, k)])
        <5>1. CASE IsSource(files, k)
          BY <1>3, <5>1 DEF EntryIs, IsSource
        <5>2. CASE ~IsSource(files, k)
          BY <1>3, <3>2, <5>2 DEF EntryIs
        <5>. QED BY <5>1, <5>2
      <4>. QED BY <3>2, <4>1, <4>2
    <3>. QED BY <3>1, <3>2
  <2>2. Total(a.entries, LAMBDA x : IF x.kind \in {"file", "hardlink"} THEN x.size ELSE 0)
          = SumSeq([k \in 1 .. n |-> IF a.entries[k].kind \in {"file", "hardlink"}
                                     THEN a.entries[k].size ELSE 0])
    BY <1>1 DEF Total
  <2>3. [k \in 1 .. n |-> IF a.entries[k].kind \in {"file", "hardlink"} THEN a.entries[k].size ELSE 0]
          = [k \in 1 .. n |-> IF files[k].kind = "file" THEN files[k].len ELSE 0]
    BY <2>1, Zenon
  <2>4. a.total = SumSeq([k \in 1 .. n |-> IF files[k].kind = "file" THEN files[k].len ELSE 0])
    BY DEF Written
  <2>. QED BY <2>2, <2>3, <2>4
<1>. QED BY <1>1, <1>4, <1>5, <1>6 DEF EntriesValid

\* The checks of the restore table: one mapping for each file.
LEMMA RestoreAccepted ==
    ASSUME NEW p, NEW files, NEW h, NEW got, Ready(p, files, h, got),
           NEW a, Written(a, p, files, h, got)
    PROVE  RestoreValid(a)
<1>. DEFINE s == Sources(files)
            m == Len(s)
            n == Len(files)
<1>1. n \in Nat /\ Len(a.entries) = n /\ Len(a.restore) = m
  BY DEF Ready, Written
<1>2. m \in Nat /\ \A i \in 1 .. m : s[i] \in 1 .. n /\ IsSource(files, s[i])
  <2>1. SourcesRead(files, h, got)
    BY SourceBytes
  <2>. QED BY <2>1, Zenon DEF SourcesRead
<1>3. \A k \in 1 .. n : EntryIs(a, p, files, h, k)
  BY EntriesAre
<1>4. /\ \A i, j \in 1 .. m : s[i] = s[j] => i = j
      /\ \A i \in 1 .. m : SourceIndex(files, s[i]) = i
  BY <1>1, SourceIndexIs
<1>5. ASSUME NEW i \in 1 .. m
      PROVE  /\ a.restore[i].entry = s[i] /\ a.restore[i].len = Len(h[s[i]])
             /\ a.restore[i].group = PlanOf(Plans(p, files, h), i)
  <2>1. a.restore[i] = [entry |-> s[i], len |-> Len(h[s[i]]), group |-> PlanOf(Plans(p, files, h), i),
                        at |-> OffsetInGroup(s, got, Plans(p, files, h)[PlanOf(Plans(p, files, h), i)], i)]
    BY DEF Written
  <2>. QED BY <2>1
<1>6. SourceSet(files) = {k \in 1 .. n : a.entries[k].kind = "file"}
  <2>1. ASSUME NEW k \in 1 .. n PROVE IsSource(files, k) <=> a.entries[k].kind = "file"
    <3>1. EntryIs(a, p, files, h, k)
      BY <1>3
    <3>. QED BY <3>1 DEF EntryIs
  <2>. QED BY <2>1 DEF SourceSet
<1>7. m = Cardinality(SourceSet(files))
  <2>1. s \in [1 .. m -> SourceSet(files)] /\ \A x \in SourceSet(files) : \E j \in 1 .. m : s[j] = x
    BY <1>1, SourcesListed DEF Lists
  <2>. HIDE DEF s, m
  <2>2. s \in Bijection(1 .. m, SourceSet(files))
    BY <1>4, <2>1 DEF Bijection, Injection, Surjection, IsInjective
  <2>3. ExistsBijection(1 .. m, SourceSet(files))
    BY <2>2 DEF ExistsBijection
  <2>. QED BY <1>2, <2>3, FS_CountingElements
<1>. HIDE DEF s, m, n
<1>8. ASSUME NEW i \in 1 .. m
      PROVE  LET r == a.restore[i]
             IN  /\ r.entry \in 1 .. n /\ a.entries[r.entry].kind = "file"
                 /\ r.len = a.entries[r.entry].size /\ r.group = a.entries[r.entry].group
                 /\ \A k \in 1 .. m : a.restore[k].entry = r.entry => k = i
  <2>1. EntryIs(a, p, files, h, s[i]) /\ IsSource(files, s[i]) /\ s[i] \in 1 .. n
    BY <1>2, <1>3
  <2>2. /\ a.entries[s[i]].kind = "file" /\ a.entries[s[i]].size = Len(h[s[i]])
        /\ a.entries[s[i]].group = PlanOf(Plans(p, files, h), i)
    BY <1>4, <2>1 DEF EntryIs
  <2>3. \A k \in 1 .. m : a.restore[k].entry = s[i] => k = i
    BY <1>4, <1>5
  <2>. QED BY <1>5, <2>1, <2>2, <2>3
<1>. QED BY <1>1, <1>6, <1>7, <1>8 DEF RestoreValid

\* The checks of the group table: the groups lie one after the other, and the members
\* of each add up to its length without a gap.
LEMMA GroupsAccepted ==
    ASSUME NEW p, NEW files, NEW h, NEW got, Ready(p, files, h, got),
           NEW e, Cuts(e, Plans(p, files, h), Lens(files, h), Len(Sources(files))),
           NEW a, Written(a, p, files, h, got)
    PROVE  GroupsValid(a)
<1>. DEFINE s == Sources(files)
            n == Len(s)
            v == Lens(files, h)
            plans == Plans(p, files, h)
            m == Len(plans)
            Of(i) == PlanOf(plans, i)
<1>1. /\ Len(a.groups) = m /\ Len(a.restore) = n
      /\ a.groups = [g \in 1 .. m |-> a.groups[g]]
      /\ a.restore = [i \in 1 .. n |-> a.restore[i]]
      /\ a.registry = (IF p = "compressed" THEN "codecs" ELSE "absent")
      /\ a.payload = SumSeq([j \in 1 .. m |-> a.groups[j].packed])
  BY DEF Written
<1>2. ASSUME NEW g \in 1 .. m
      PROVE  /\ a.data[g] = GroupBytes(s, got, plans[g])
             /\ a.groups[g].len = plans[g].len /\ a.groups[g].count = plans[g].count
             /\ a.groups[g].codec = EncodeSolidGroup(p, a.data[g]).codec
             /\ a.groups[g].packed = EncodeSolidGroup(p, a.data[g]).packed
             /\ a.groups[g].offset = SumSeq([j \in 1 .. (g - 1) |-> a.groups[j].packed])
  BY DEF Written
<1>3. ASSUME NEW i \in 1 .. n
      PROVE  /\ a.restore[i].len = Len(h[s[i]]) /\ a.restore[i].group = Of(i)
             /\ a.restore[i].at = OffsetInGroup(s, got, plans[Of(i)], i)
  <2>1. a.restore[i] = [entry |-> s[i], len |-> Len(h[s[i]]), group |-> Of(i),
                        at |-> OffsetInGroup(s, got, plans[Of(i)], i)]
    BY DEF Written
  <2>. QED BY <2>1
<1>4. n \in Nat /\ \A i \in 1 .. n : v[i] \in Nat /\ v[i] = Len(h[s[i]])
  <2>1. SourcesRead(files, h, got)
    BY SourceBytes
  <2>. QED BY <2>1, Zenon DEF SourcesRead
<1>5. /\ m \in Nat
      /\ \A i \in 1 .. n :
            /\ Of(i) \in 1 .. m /\ e[Of(i) - 1] < i /\ i <= e[Of(i)]
            /\ \A g \in 1 .. m : (e[g - 1] < i /\ i <= e[g]) => g = Of(i)
  BY PlanOfSource
<1>6. ASSUME NEW g \in 1 .. m
      PROVE  /\ e[g - 1] \in 0 .. n /\ e[g] \in 0 .. n /\ e[g - 1] < e[g]
             /\ plans[g] \in PlanRecord
             /\ plans[g].count = e[g] - e[g - 1] /\ plans[g].len \in Nat
             /\ Upto(v, e[g]) = Upto(v, e[g - 1]) + plans[g].len
  <2>1. g \in 0 .. m /\ g - 1 \in 0 .. m
    BY <1>5
  <2>2. /\ e[g - 1] \in 0 .. n /\ e[g] \in 0 .. n /\ e[g - 1] < e[g]
        /\ plans[g] \in PlanRecord /\ plans[g].count = e[g] - e[g - 1]
        /\ Upto(v, e[g]) = Upto(v, e[g - 1]) + plans[g].len
    BY <2>1 DEF Cuts
  <2>3. plans[g].len \in Nat
    BY <2>2 DEF PlanRecord
  <2>. QED BY <2>2, <2>3
<1>7. ASSUME NEW g \in 1 .. m
      PROVE  a.groups[g].offset = Total(SubSeq(a.groups, 1, g - 1), LAMBDA x : x.packed)
  <2>. DEFINE first == SubSeq(a.groups, 1, g - 1)
  <2>1. g - 1 \in 0 .. m
    BY <1>5
  <2>2. Len(first) = g - 1 /\ \A j \in 1 .. (g - 1) : first[j] = a.groups[j]
    <3>. HIDE DEF m
    <3>. QED BY <1>1, <1>5, <2>1, Beginning
  <2>3. [j \in 1 .. Len(first) |-> first[j].packed] = [j \in 1 .. (g - 1) |-> a.groups[j].packed]
    <3>. HIDE DEF first
    <3>. QED BY <2>2
  <2>. QED BY <1>2, <2>3 DEF Total
<1>8. a.payload = Total(a.groups, LAMBDA x : x.packed)
  BY <1>1 DEF Total
<1>9. ASSUME NEW g \in 1 .. m
      PROVE  /\ a.groups[g].codec # "store" => a.registry = "codecs"
             /\ a.registry = "absent" => (a.groups[g].count = 1 /\ a.groups[g].len = a.groups[g].packed)
  <2>1. p = "raw" \/ p = "compressed"
    BY DEF Ready, Profiles
  <2>2. CASE p = "compressed"
    BY <1>1, <2>2
  <2>3. CASE p = "raw"
    <3>1. EncodeSolidGroup(p, a.data[g]) = [codec |-> "store", packed |-> Len(a.data[g])]
      BY <2>3 DEF EncodeSolidGroup, CodecLength
    <3>2. a.groups[g].codec = "store" /\ a.groups[g].packed = Len(a.data[g])
      <4>. DEFINE code == EncodeSolidGroup(p, a.data[g])
      <4>1. code.codec = "store" /\ code.packed = Len(a.data[g])
        BY <3>1
      <4>2. a.groups[g].codec = code.codec /\ a.groups[g].packed = code.packed
        BY <1>2
      <4>. QED BY <4>1, <4>2, Zenon
    <3>3. Len(a.data[g]) = plans[g].len
      <4>1. Len(GroupBytes(s, got, plans[g])) = plans[g].len
        BY GroupHolds DEF Members
      <4>. QED BY <1>2, <4>1
    <3>4. plans[g].count = 1
      <4>1. plans = [i \in 1 .. Len(v) |-> [first |-> i, count |-> 1, len |-> v[i]]]
        BY <2>3 DEF Plans, PlanSolidGroups
      <4>2. Len(v) \in Nat
        <5>1. SourcesRead(files, h, got)
          BY SourceBytes
        <5>. QED BY <5>1 DEF SourcesRead
      <4>3. m = Len(v)
        <5>. HIDE DEF v, plans
        <5>1. plans = [i \in 1 .. Len(v) |-> plans[i]]
          BY <4>1
        <5>. QED BY <4>2, <5>1, LenOfFunction
      <4>. QED BY <4>1, <4>3
    <3>. QED BY <1>2, <3>2, <3>3, <3>4
  <2>. QED BY <2>1, <2>2, <2>3
<1>10. ASSUME NEW g \in 1 .. m
       PROVE  LET mappings == Kept(a.restore, {i \in 1 .. Len(a.restore) : a.restore[i].group = g})
              IN  /\ Len(mappings) = a.groups[g].count /\ mappings # <<>>
                  /\ \A i \in 1 .. Len(mappings) :
                        mappings[i].at = Total(SubSeq(mappings, 1, i - 1), LAMBDA r : r.len)
                  /\ a.groups[g].len = Total(mappings, LAMBDA r : r.len)
  <2>. DEFINE K == {i \in 1 .. Len(a.restore) : a.restore[i].group = g}
              mp == Kept(a.restore, K)
              b == e[g - 1]
              d == e[g]
              c == d - b
              w == [j \in 1 .. c |-> v[b + j]]
  <2>1. /\ b \in 0 .. n /\ d \in 0 .. n /\ b < d /\ plans[g].count = c /\ plans[g].len \in Nat
        /\ Upto(v, d) = Upto(v, b) + plans[g].len
    BY <1>6
  <2>2. ASSUME NEW i \in 1 .. n PROVE a.restore[i].group = g <=> (b < i /\ i <= d)
    BY <1>3, <1>5
  <2>. HIDE DEF b, d, n, s, v, m, plans
  <2>3. /\ b \in Nat /\ d \in Nat /\ b + 1 \in Nat /\ c \in Nat /\ c > 0 /\ b + c = d /\ b + c <= n
        /\ b + 1 <= d + 1 /\ d + 1 - (b + 1) = c
        /\ \A j \in 1 .. c : b + j \in 1 .. n /\ b < b + j /\ b + j <= d /\ (b + 1) + j - 1 = b + j
    <3>1. n \in Nat
      BY <1>4
    <3>2. b \in 0 .. n /\ d \in 0 .. n /\ b < d
      BY <2>1
    <3>. QED BY <3>1, <3>2
  <2>4. K = (b + 1) .. d
    <3>1. K = {i \in 1 .. n : b < i /\ i <= d}
      BY <1>1, <2>2
    <3>2. {i \in 1 .. n : b < i /\ i <= d} = (b + 1) .. d
      BY <1>4, <2>1, <2>3
    <3>. QED BY <3>1, <3>2
  <2>5. Len(mp) = c /\ (\A j \in 1 .. c : mp[j] = a.restore[b + j]) /\ mp = [j \in 1 .. c |-> mp[j]]
    <3>. DEFINE T == {a.restore[i] : i \in 1 .. n}
    <3>1. a.restore \in Seq(T)
      <4>1. \A i \in 1 .. n : a.restore[i] \in T
        OBVIOUS
      <4>. HIDE DEF T
      <4>. QED BY <1>1, <1>4, <4>1, LenOfFunction
    <3>2. K \in SUBSET (1 .. Len(a.restore))
      OBVIOUS
    <3>. HIDE DEF T, K
    <3>3. PICK l \in Nat : \E q \in [1 .. l -> K] :
              /\ Lists(q, l, K)
              /\ mp \in Seq(T) /\ Len(mp) = l
              /\ \A j \in 1 .. l : mp[j] = a.restore[q[j]]
      <4>1. mp = Kept(a.restore, K)
        OBVIOUS
      <4>. HIDE DEF mp
      <4>2. KeptAs(T, a.restore, K, mp)
        BY <3>1, <3>2, <4>1, KeptNamed
      <4>. QED BY <4>2 DEF KeptAs
    <3>4. PICK q \in [1 .. l -> K] :
              /\ Lists(q, l, K)
              /\ mp \in Seq(T) /\ Len(mp) = l
              /\ \A j \in 1 .. l : mp[j] = a.restore[q[j]]
      BY <3>3
    <3>5. l = d + 1 - (b + 1) /\ \A j \in 1 .. l : q[j] = (b + 1) + j - 1
      <4>1. Lists(q, l, (b + 1) .. d)
        BY <2>4, <3>4
      <4>. HIDE DEF c
      <4>. QED BY <2>3, <4>1, ListsInterval
    <3>. HIDE DEF mp, c
    <3>6. l = c
      BY <2>3, <3>5
    <3>7. \A j \in 1 .. c : mp[j] = a.restore[b + j]
      BY <2>3, <3>4, <3>5, <3>6
    <3>8. mp = [j \in 1 .. Len(mp) |-> mp[j]]
      BY <3>4
    <3>. QED BY <3>4, <3>6, <3>7, <3>8
  <2>. HIDE DEF mp, K, c
  <2>6. ASSUME NEW j \in 1 .. c PROVE mp[j].len = v[b + j] /\ b + j \in 1 .. n
    BY <1>3, <1>4, <2>3, <2>5
  <2>7. \A j \in 1 .. c : w[j] = v[b + j]
    OBVIOUS
  <2>8. \A j \in 0 .. c : SumSeq([x \in 1 .. j |-> mp[x].len]) = Upto(w, j)
    <3>. TAKE j \in 0 .. c
    <3>1. \A x \in 1 .. j : x \in 1 .. c
      BY <2>3
    <3>2. [x \in 1 .. j |-> mp[x].len] = [x \in 1 .. j |-> w[x]]
      BY <2>6, <2>7, <3>1
    <3>. QED BY <3>2 DEF Upto
  <2>. HIDE DEF w
  <2>9. \A j \in 0 .. c : Upto(w, j) \in Nat /\ Upto(w, j) + Upto(v, b) = Upto(v, b + j)
    <3>1. IsPart(w, c, v, b, n)
      BY <1>4, <2>1, <2>3, <2>7 DEF IsPart
    <3>. QED BY <3>1, UptoPart
  <2>10. Upto(v, b) \in Nat
    <3>1. \A i \in 1 .. n : v[i] \in Nat
      BY <1>4
    <3>. QED BY <1>4, <2>1, <3>1, UptoSteps
  <2>11. a.groups[g].len = Total(mp, LAMBDA r : r.len)
    <3>. DEFINE x == Upto(w, c)
                y == Upto(v, b)
                z == plans[g].len
    <3>0. c \in 0 .. c
      BY <2>3
    <3>1. x \in Nat /\ x + y = Upto(v, d)
      BY <2>3, <2>9, <3>0
    <3>2. y \in Nat /\ z \in Nat /\ x + y = y + z
      BY <2>1, <2>10, <3>1
    <3>3. Total(mp, LAMBDA r : r.len) = x
      BY <2>5, <2>8, <3>0 DEF Total
    <3>. HIDE DEF x, y, z
    <3>4. x = z
      BY <3>1, <3>2
    <3>. QED BY <1>2, <3>3, <3>4 DEF z
  <2>12. ASSUME NEW j \in 1 .. c
         PROVE  mp[j].at = Total(SubSeq(mp, 1, j - 1), LAMBDA r : r.len)
    <3>. DEFINE k == j - 1
                i == b + j
                first == SubSeq(mp, 1, k)
                at == a.restore[i].at
    <3>1. k \in 0 .. c /\ i \in 1 .. n /\ b < i /\ i <= d /\ i - 1 = b + k
      BY <2>3
    <3>. HIDE DEF k, i
    <3>2. Of(i) = g
      BY <1>5, <3>1 DEF b, d
    <3>3. at = OffsetInGroup(s, got, plans[g], i)
      BY <1>3, <3>1, <3>2
    <3>4. at \in Nat /\ at + Upto(v, b) = Upto(v, i - 1)
      <4>1. /\ i \in 1 .. Len(Sources(files)) /\ g \in 1 .. Len(Plans(p, files, h))
            /\ e[g - 1] < i /\ i <= e[g]
        BY <3>1 DEF n, s, m, plans, b, d
      <4>2. /\ OffsetInGroup(s, got, plans[g], i) \in Nat
            /\ OffsetInGroup(s, got, plans[g], i) + Upto(v, b) = Upto(v, i - 1)
        BY <4>1, OffsetIs DEF s, v, plans, b
      <4>. QED BY <3>3, <4>2
    <3>5. at = Upto(w, k)
      <4>. DEFINE x == Upto(w, k)
                  y == Upto(v, b)
      <4>1. x \in Nat /\ x + y = Upto(v, i - 1)
        BY <2>9, <3>1
      <4>2. y \in Nat /\ at \in Nat /\ at + y = x + y
        BY <2>10, <3>4, <4>1
      <4>. HIDE DEF x, y, at
      <4>3. at = x
        BY <4>1, <4>2
      <4>. QED BY <4>3 DEF x
    <3>6. Len(first) = k /\ \A x \in 1 .. k : first[x] = mp[x]
      <4>1. c \in Nat /\ k \in 0 .. c
        BY <2>3, <3>1
      <4>2. mp = [x \in 1 .. c |-> mp[x]]
        BY <2>5
      <4>. QED BY <4>1, <4>2, Beginning
    <3>7. [x \in 1 .. Len(first) |-> first[x].len] = [x \in 1 .. k |-> mp[x].len]
      <4>. HIDE DEF first
      <4>. QED BY <3>6
    <3>8. Total(first, LAMBDA r : r.len) = Upto(w, k)
      <4>1. Total(first, LAMBDA r : r.len) = SumSeq([x \in 1 .. Len(first) |-> first[x].len])
        BY DEF Total
      <4>. QED BY <2>8, <3>1, <3>7, <4>1
    <3>9. mp[j].at = at
      BY <2>5 DEF i
    <3>. QED BY <3>5, <3>8, <3>9 DEF k
  <2>13. Len(mp) = a.groups[g].count /\ mp # <<>>
    <3>1. a.groups[g].count = c
      BY <1>2, <2>1
    <3>2. Len(<<>>) = 0
      OBVIOUS
    <3>3. Len(mp) = c /\ c # 0
      BY <2>3, <2>5
    <3>. QED BY <3>1, <3>2, <3>3, Zenon
  <2>14. \A j \in 1 .. Len(mp) : mp[j].at = Total(SubSeq(mp, 1, j - 1), LAMBDA r : r.len)
    BY <2>5, <2>12
  <2>. QED BY <2>11, <2>13, <2>14 DEF mp, K
<1>. QED BY <1>1, <1>7, <1>8, <1>9, <1>10 DEF GroupsValid

\* The checks of the payload: each member of each group has the hash of its entry.
LEMMA PayloadAccepted ==
    ASSUME NEW p, NEW files, NEW h, NEW got, Ready(p, files, h, got),
           NEW e, Cuts(e, Plans(p, files, h), Lens(files, h), Len(Sources(files))),
           NEW a, Written(a, p, files, h, got)
    PROVE  PayloadValid(a, a.data)
<1>. DEFINE s == Sources(files)
            plans == Plans(p, files, h)
<1>1. Len(a.restore) = Len(s) /\ a.root = a.data
  BY DEF Written
<1>2. ASSUME NEW i \in 1 .. Len(s)
      PROVE  LET r == a.restore[i]
             IN  RestoredSlice(a.data[r.group], r, 0, r.len) = a.entries[r.entry].hash
  <2>. DEFINE r == a.restore[i]
              g == PlanOf(plans, i)
  <2>1. r = [entry |-> s[i], len |-> Len(h[s[i]]), group |-> g,
             at |-> OffsetInGroup(s, got, plans[g], i)]
    BY DEF Written
  <2>2. /\ r.entry = s[i] /\ r.len = Len(h[s[i]]) /\ r.group = g
        /\ r.at = OffsetInGroup(s, got, plans[g], i)
    BY <2>1
  <2>3. g \in 1 .. Len(plans) /\ e[g - 1] < i /\ i <= e[g]
    BY PlanOfSource
  <2>. HIDE DEF r, g
  <2>4. a.data[g] = GroupBytes(s, got, plans[g])
    BY <2>3 DEF Written
  <2>5. LET at == OffsetInGroup(s, got, plans[g], i)
        IN  SubSeq(GroupBytes(s, got, plans[g]), at + 0 + 1, at + 0 + Len(h[s[i]])) = h[s[i]]
    <3>0. Members(files, h, got, e, g, plans[g])
      BY <2>3, GroupHolds
    <3>1. \A k \in 1 .. Len(s) : (e[g - 1] < k /\ k <= e[g]) =>
            LET at == OffsetInGroup(s, got, plans[g], k)
            IN  SubSeq(GroupBytes(s, got, plans[g]), at + 0 + 1, at + 0 + Len(h[s[k]])) = h[s[k]]
      BY <3>0, Zenon DEF Members
    <3>. QED BY <2>3, <3>1
  <2>6. RestoredSlice(a.data[g], r, 0, r.len) = h[s[i]]
    BY <2>2, <2>4, <2>5 DEF RestoredSlice
  <2>7. a.entries[s[i]].hash = h[s[i]]
    <3>1. SourcesRead(files, h, got)
      BY SourceBytes
    <3>2. s[i] \in 1 .. Len(files) /\ IsSource(files, s[i])
      BY <3>1 DEF SourcesRead
    <3>3. EntryIs(a, p, files, h, s[i])
      BY <3>2, EntriesAre
    <3>. QED BY <3>2, <3>3 DEF EntryIs
  <2>. QED BY <2>2, <2>6, <2>7 DEF r
<1>. QED BY <1>1, <1>2 DEF PayloadValid

\* The tables and the payload that pack builds pass the checks of the reader.
LEMMA BuildAccepted ==
    ASSUME NEW p, NEW files, NEW h, NEW got, Ready(p, files, h, got), Agreed(files, h)
    PROVE  LET a == Build(p, files, h, got) IN CatalogValid(a) /\ PayloadValid(a, a.data)
<1>1. Written(Build(p, files, h, got), p, files, h, got)
  BY BuildWrites
<1>2. Lens(files, h) \in Seq(Nat) /\ Len(Lens(files, h)) = Len(Sources(files))
  BY SourceBytes DEF SourcesRead
<1>3. PICK e : Cuts(e, Plans(p, files, h), Lens(files, h), Len(Sources(files)))
  <2>1. \E e : Cuts(e, PlanSolidGroups(p, Lens(files, h)), Lens(files, h), Len(Lens(files, h)))
    BY <1>2, PlanCuts
  <2>. QED BY <1>2, <2>1 DEF Plans
<1>. DEFINE a == Build(p, files, h, got)
<1>. HIDE DEF a
<1>4. Written(a, p, files, h, got)
  BY <1>1 DEF a
<1>5. EntriesValid(a)
  BY <1>3, <1>4, EntriesAccepted
<1>6. RestoreValid(a)
  BY <1>4, RestoreAccepted
<1>7. GroupsValid(a)
  BY <1>3, <1>4, GroupsAccepted
<1>8. PayloadValid(a, a.data)
  BY <1>3, <1>4, PayloadAccepted
<1>. QED BY <1>5, <1>6, <1>7, <1>8 DEF CatalogValid, a

-----------------------------------------------------------------------------
(* What pack builds, the reader accepts.                                   *)

\* The sources that were read, and the spool that was made of them.
SpoolInv ==
    /\ pk.profile \in Profiles
    /\ \A k \in 1 .. Len(pk.files) : pk.files[k].kind # "unsafe"
    /\ InScan =>
        /\ DOMAIN pk.got = 1 .. Len(pk.files)
        /\ \A k \in 1 .. Len(pk.files) :
            (IsSource(pk.files, k) /\ (pk.pass = 2 \/ k < pk.at)) =>
                (pk.hashed[k] \in Seq(Nat) /\ pk.got[k] = pk.hashed[k])
    /\ pk.pc = "verify" =>
        /\ Ready(pk.profile, pk.files, pk.hashed, pk.got)
        /\ pk.arc = Build(pk.profile, pk.files, pk.hashed, pk.got)

\* When the call returns nothing is left of what it read.
LEMMA EndsKeepSpool ==
    ASSUME Shapes, SpoolInv, NEW r, pk' = PackEnds(r)
    PROVE  SpoolInv'
<1>1. pk'.pc = "done" /\ pk'.files = <<>> /\ pk'.profile = pk.profile
  BY DEF Shapes, PkFields, PackEnds
<1>2. Len(pk'.files) = 0
  BY <1>1
<1>. QED BY <1>1, <1>2 DEF SpoolInv, InScan

\* A step that goes on with what was read so far.
LEMMA GoingOnKeepsSpool ==
    ASSUME SpoolInv, InScan' => InScan, pk'.pc # "verify", pk'.profile = pk.profile,
           pk'.files = pk.files, pk'.hashed = pk.hashed, pk'.got = pk.got,
           InScan' => (pk'.pass = pk.pass /\ \A k \in 1 .. Len(pk.files) :
                        (IsSource(pk.files, k) /\ k < pk'.at) => k < pk.at)
    PROVE  SpoolInv'
<1>1. \A k \in 1 .. Len(pk'.files) : pk'.files[k].kind # "unsafe"
  BY DEF SpoolInv
<1>2. ASSUME InScan' PROVE DOMAIN pk'.got = 1 .. Len(pk'.files)
  BY <1>2 DEF SpoolInv
<1>3. ASSUME InScan', NEW k \in 1 .. Len(pk'.files), IsSource(pk'.files, k),
             pk'.pass = 2 \/ k < pk'.at
      PROVE  pk'.hashed[k] \in Seq(Nat) /\ pk'.got[k] = pk'.hashed[k]
  <2>1. InScan /\ k \in 1 .. Len(pk.files) /\ IsSource(pk.files, k) /\ (pk.pass = 2 \/ k < pk.at)
    BY <1>3
  <2>2. pk.hashed[k] \in Seq(Nat) /\ pk.got[k] = pk.hashed[k]
    BY <2>1 DEF SpoolInv
  <2>. QED BY <2>2
<1>. QED BY <1>1, <1>2, <1>3 DEF SpoolInv

LEMMA ScanNodeKeepsSpool ==
    ASSUME Shapes, PackSnap, SpoolInv, ScanNode
    PROVE  SpoolInv'
<1>1. CASE \E r : pk' = PackEnds(r)
  BY <1>1, EndsKeepSpool
<1>2. CASE paths[pk.at].kind # "unsafe"
           /\ pk' = [pk EXCEPT !.files = Append(@, Scanned(pk.at)), !.at = @ + 1]
  <2>1. /\ pk.pc = "scan" /\ pk'.pc = "scan" /\ pk'.profile = pk.profile
        /\ pk'.files = Append(pk.files, Scanned(pk.at))
    BY <1>2 DEF ScanNode, PackStep, Shapes, PkFields
  <2>2. Scanned(pk.at).kind # "unsafe"
    BY <1>2 DEF Scanned
  <2>3. pk.files \in Seq(ScannedFile)
    BY DEF PackSnap, ScanInv
  <2>4. \A k \in 1 .. Len(pk'.files) : pk'.files[k] = IF k <= Len(pk.files) THEN pk.files[k]
                                                      ELSE Scanned(pk.at)
    BY <2>1, <2>3
  <2>5. \A k \in 1 .. Len(pk'.files) : pk'.files[k].kind # "unsafe"
    BY <2>2, <2>3, <2>4 DEF SpoolInv
  <2>. QED BY <2>1, <2>5 DEF SpoolInv, InScan
<1>. QED BY <1>1, <1>2 DEF ScanNode, PackStep, PackCheckpoint

\* The entries are sorted and none has been read yet.
LEMMA ScanDoneKeepsSpool ==
    ASSUME Shapes, PackSnap, SpoolInv, ScanDone
    PROVE  SpoolInv'
<1>1. CASE \E r : pk' = PackEnds(r)
  BY <1>1, EndsKeepSpool
<1>. DEFINE n == Len(pk.files)
            unread == [k \in 1 .. n |-> <<>>]
            Next1(s) == [pk EXCEPT !.pc = "check", !.at = 1, !.files = s, !.hashed = unread,
                            !.got = unread]
<1>2. CASE pk.pc = "scan" /\ \E s \in SortedByPath(pk.files) : pk' = Next1(s)
  <2>1. PICK s \in SortedByPath(pk.files) : pk' = Next1(s)
    BY <1>2
  <2>2. /\ pk'.pc = "check" /\ pk'.at = 1 /\ pk'.files = s /\ pk'.got = unread
        /\ pk'.pass = pk.pass /\ pk'.profile = pk.profile
    BY <2>1 DEF Shapes, PkFields
  <2>3. s \in [1 .. n -> ToSet(pk.files)] /\ n \in Nat
    BY DEF SortedByPath, PackSnap, ScanInv
  <2>4. \A f \in ToSet(pk.files) : f.kind # "unsafe"
    BY DEF ToSet, SpoolInv, PackSnap, ScanInv
  <2>5. Len(s) = n /\ \A k \in 1 .. n : s[k].kind # "unsafe"
    BY <2>3, <2>4
  <2>6. pk'.pass = 1 /\ \A k \in 1 .. n : ~(k < pk'.at)
    BY <1>2, <2>2, <2>3 DEF PackSnap, HashedInv
  <2>. QED BY <2>2, <2>5, <2>6 DEF SpoolInv
<1>. QED BY <1>1, <1>2 DEF ScanDone, PackStep

LEMMA PassKeepsSpool ==
    ASSUME Shapes, PackSnap, SpoolInv, PassEntry
    PROVE  SpoolInv'
<1>1. CASE \E r : pk' = PackEnds(r)
  BY <1>1, EndsKeepSpool
<1>2. CASE pk' = [pk EXCEPT !.at = @ + 1]
  <2>1. /\ pk.pc = "check" /\ pk'.pc = "check" /\ pk'.files = pk.files /\ pk'.at = pk.at + 1
        /\ pk'.got = pk.got /\ pk'.pass = pk.pass /\ pk'.hashed = pk.hashed
        /\ pk'.profile = pk.profile
    BY <1>2 DEF PassEntry, PackStep, Shapes, PkFields
  <2>2. pk.at \in Nat \ {0} /\ ~IsSource(pk.files, pk.at)
    BY DEF PassEntry, PackSnap, ScanInv
  <2>3. \A k \in 1 .. Len(pk.files) :
            (IsSource(pk.files, k) /\ k < pk'.at) => k < pk.at
    BY <2>1, <2>2
  <2>. QED BY <2>1, <2>3, GoingOnKeepsSpool DEF InScan
<1>. QED BY <1>1, <1>2 DEF PassEntry, PackStep, PackCheckpoint

\* The steps between two sources, and those after the spool was verified.
LEMMA MovesKeepSpool ==
    ASSUME Shapes, PackSnap, SpoolInv, PackStart \/ CheckInput \/ OpenInput \/ ReadInput \/ VerifySpool \/ PackLast
    PROVE  SpoolInv'
<1>1. CASE \E r : pk' = PackEnds(r)
  BY <1>1, EndsKeepSpool
<1>2. CASE /\ pk'.pc # "verify" /\ (InScan' => InScan) /\ pk'.profile = pk.profile
           /\ pk'.files = pk.files /\ pk'.hashed = pk.hashed /\ pk'.got = pk.got
           /\ pk'.pass = pk.pass /\ pk'.at = pk.at
  BY <1>2, GoingOnKeepsSpool
<1>. DEFINE Moves(pc) == pk' = [pk EXCEPT !.pc = pc]
<1>3. CASE PackStart
  <2>1. ASSUME Moves("scan") PROVE SpoolInv'
    BY <1>2, <2>1 DEF Shapes, PkFields, InScan
  <2>. QED BY <1>1, <1>3, <2>1 DEF PackStart, PackStep, PackCheckpoint
<1>4. CASE CheckInput
  <2>1. ASSUME Moves("open") PROVE SpoolInv'
    BY <1>2, <1>4, <2>1 DEF Shapes, PkFields, InScan, CheckInput, PackStep
  <2>. QED BY <1>1, <1>4, <2>1 DEF CheckInput, PackStep, PackCheckpoint
<1>5. CASE OpenInput
  BY <1>2, <1>5 DEF Shapes, PkFields, InScan, OpenInput, PackStep
<1>6. CASE ReadInput
  <2>1. ASSUME Moves("recheck") PROVE SpoolInv'
    BY <1>2, <1>6, <2>1 DEF Shapes, PkFields, InScan, ReadInput, PackStep
  <2>2. ASSUME NEW b, pk' = [pk EXCEPT !.buf = b] PROVE SpoolInv'
    BY <1>2, <1>6, <2>2 DEF Shapes, PkFields, InScan, ReadInput, PackStep
  <2>. QED BY <1>1, <1>6, <2>1, <2>2 DEF ReadInput, PackStep, PackCheckpoint
<1>7. CASE VerifySpool
  <2>1. ASSUME Moves("last") PROVE SpoolInv'
    BY <1>2, <2>1 DEF Shapes, PkFields, InScan
  <2>. QED BY <1>1, <1>7, <2>1 DEF VerifySpool, PackStep, PackCheckpoint
<1>8. CASE PackLast
  <2>1. ASSUME Moves("commit") PROVE SpoolInv'
    BY <1>2, <2>1 DEF Shapes, PkFields, InScan
  <2>. QED BY <1>1, <1>8, <2>1 DEF PackLast, PackStep, PackCheckpoint
<1>. QED BY <1>3, <1>4, <1>5, <1>6, <1>7, <1>8

\* A source was read to its end; a second time, it was what it was the first time.
LEMMA CloseKeepsSpool ==
    ASSUME Shapes, PackSnap, SpoolInv, CloseInput
    PROVE  SpoolInv'
<1>. DEFINE h == pk'.hashed
            g == pk'.got
<1>1. CASE \E r : pk' = PackEnds(r)
  BY <1>1, EndsKeepSpool
<1>2. CASE /\ Rechecked(pk.at)
           /\ pk' = [pk EXCEPT !.pc = "check", !.at = @ + 1, !.fd = NoFile, !.buf = <<>>,
                        !.hashed[pk.at] = IF pk.pass = 1 THEN pk.buf ELSE @,
                        !.got[pk.at] = pk.buf]
  <2>1. /\ pk.pc = "recheck" /\ pk'.pc = "check" /\ pk'.files = pk.files /\ pk'.at = pk.at + 1
        /\ pk'.pass = pk.pass /\ pk'.profile = pk.profile
        /\ h = [pk.hashed EXCEPT ![pk.at] = IF pk.pass = 1 THEN pk.buf ELSE @]
        /\ g = [pk.got EXCEPT ![pk.at] = pk.buf]
    BY <1>2 DEF CloseInput, PackStep, Shapes, PkFields
  <2>2. /\ pk.at \in 1 .. Len(pk.files) /\ pk.buf \in Seq(Nat) /\ pk.at \in Nat
        /\ DOMAIN pk.hashed = 1 .. Len(pk.files) /\ (pk.pass = 1 \/ pk.pass = 2)
        /\ DOMAIN pk.got = 1 .. Len(pk.files)
    BY <2>1 DEF PackSnap, ScanInv, ReadingInv, HashedInv, InScan, SpoolInv
  <2>3. /\ DOMAIN g = 1 .. Len(pk.files)
        /\ g[pk.at] = pk.buf
        /\ h[pk.at] = (IF pk.pass = 1 THEN pk.buf ELSE pk.hashed[pk.at])
        /\ \A k \in 1 .. Len(pk.files) : k # pk.at => (h[k] = pk.hashed[k] /\ g[k] = pk.got[k])
    BY <2>1, <2>2
  <2>4. h[pk.at] = pk.buf
    BY <1>2, <2>2, <2>3 DEF Rechecked, SameAsHashed
  <2>5. ASSUME NEW k \in 1 .. Len(pk.files), IsSource(pk.files, k), pk.pass = 2 \/ k < pk.at + 1
        PROVE  h[k] \in Seq(Nat) /\ g[k] = h[k]
    <3>. HIDE DEF h, g
    <3>1. CASE k = pk.at
      BY <2>2, <2>3, <2>4, <3>1
    <3>2. CASE k # pk.at
      <4>1. (pk.pass = 2 \/ k < pk.at) /\ h[k] = pk.hashed[k] /\ g[k] = pk.got[k]
        BY <2>2, <2>3, <2>5, <3>2
      <4>2. pk.hashed[k] \in Seq(Nat) /\ pk.got[k] = pk.hashed[k]
        BY <2>1, <2>5, <4>1 DEF SpoolInv, InScan
      <4>. QED BY <4>1, <4>2
    <3>. QED BY <3>1, <3>2
  <2>. QED BY <2>1, <2>3, <2>5 DEF SpoolInv
<1>. QED BY <1>1, <1>2 DEF CloseInput, PackStep

\* At the end of a pass every source has been read.
LEMMA EndPassKeepsSpool ==
    ASSUME Shapes, PackSnap, SpoolInv, EndPass
    PROVE  SpoolInv'
<1>0. pk.pc = "check" /\ pk.at > Len(pk.files) /\ pk.at \in Nat \ {0} /\ Len(pk.files) \in Nat
  BY DEF EndPass, PackStep, PackSnap, ScanInv
<1>1. CASE pk' = [pk EXCEPT !.pass = 2, !.at = 1]
  <2>1. /\ pk'.pc = "check" /\ pk'.files = pk.files /\ pk'.got = pk.got
        /\ pk'.hashed = pk.hashed /\ pk'.profile = pk.profile
    BY <1>0, <1>1 DEF Shapes, PkFields
  <2>2. \A k \in 1 .. Len(pk.files) : k < pk.at
    BY <1>0
  <2>. QED BY <1>0, <2>1, <2>2 DEF SpoolInv, InScan
<1>2. CASE pk' = [pk EXCEPT !.pc = "build"]
  <2>1. /\ pk'.pc = "build" /\ pk'.files = pk.files /\ pk'.at = pk.at /\ pk'.profile = pk.profile
        /\ pk'.pass = pk.pass /\ pk'.hashed = pk.hashed /\ pk'.got = pk.got
    BY <1>2 DEF Shapes, PkFields
  <2>. QED BY <1>0, <2>1, GoingOnKeepsSpool DEF InScan
<1>. QED BY <1>1, <1>2 DEF EndPass, PackStep

\* The spool is made once every source has been read.
LEMMA BuildKeepsSpool ==
    ASSUME Shapes, PackSnap, SpoolInv, BuildArchive
    PROVE  SpoolInv'
<1>1. CASE \E r : pk' = PackEnds(r)
  BY <1>1, EndsKeepSpool
<1>2. CASE pk' = [pk EXCEPT !.pc = "verify",
                    !.arc = Build(pk.profile, pk.files, pk.hashed, pk.got)]
  <2>1. /\ pk.pc = "build" /\ pk'.pc = "verify" /\ pk'.files = pk.files /\ pk'.profile = pk.profile
        /\ pk'.hashed = pk.hashed /\ pk'.got = pk.got
        /\ pk'.arc = Build(pk.profile, pk.files, pk.hashed, pk.got)
    BY <1>2 DEF BuildArchive, PackStep, Shapes, PkFields
  <2>2. \A k \in 1 .. Len(pk.files) : k < pk.at
    BY <2>1 DEF PackSnap, ScanInv, HashedInv
  <2>3. Ready(pk.profile, pk.files, pk.hashed, pk.got)
    BY <2>1, <2>2 DEF Ready, SpoolInv, InScan, PackSnap, ScanInv
  <2>. QED BY <2>1, <2>3 DEF SpoolInv, InScan
<1>. QED BY <1>1, <1>2 DEF BuildArchive, PackStep, PackCheckpoint

LEMMA PackKeepsSpool ==
    ASSUME Shapes, PackSnap, SpoolInv, Pack
    PROVE  SpoolInv'
<1>1. CASE ScanLimit \/ BuildLimit \/ PackReturn \/ PackFails
  <2>1. \E r : pk' = PackEnds(r)
    BY <1>1 DEF ScanLimit, BuildLimit, PackReturn, PackFails, PackStep
  <2>. QED BY <2>1, EndsKeepSpool
<1>2. CASE PackCommit
  <2>1. CASE \E r : pk' = PackEnds(r)
    BY <2>1, EndsKeepSpool
  <2>2. CASE pk' = [pk EXCEPT !.pc = "sync"]
    <3>1. /\ pk'.pc = "sync" /\ pk'.files = pk.files /\ pk'.profile = pk.profile
          /\ pk'.hashed = pk.hashed /\ pk'.got = pk.got
      BY <2>2 DEF Shapes, PkFields
    <3>. QED BY <3>1, GoingOnKeepsSpool DEF InScan
  <2>. QED BY <1>2, <2>1, <2>2 DEF PackCommit
<1>. QED BY <1>1, <1>2, ScanNodeKeepsSpool, ScanDoneKeepsSpool, PassKeepsSpool, MovesKeepSpool,
          CloseKeepsSpool, EndPassKeepsSpool, BuildKeepsSpool DEF Pack

\* A step of someone else changes no more of the call than its token.
LEMMA SameKeepsSpool ==
    ASSUME SpoolInv, pk'.pc = pk.pc, pk'.files = pk.files, pk'.at = pk.at,
           pk'.hashed = pk.hashed, pk'.got = pk.got, pk'.pass = pk.pass,
           pk'.profile = pk.profile, pk'.arc = pk.arc
    PROVE  SpoolInv'
BY DEF SpoolInv, InScan

LEMMA StepKeepsSpool ==
    ASSUME EngineInv, SnapInv, SpoolInv, [Next]_vars
    PROVE  SpoolInv'
<1>1. CASE Pack
  BY <1>1, PackKeepsSpool DEF EngineInv, SnapInv
<1>2. CASE pk' = pk
  BY <1>2, SameKeepsSpool
<1>3. CASE CancelPack
  <2>1. /\ pk'.pc = pk.pc /\ pk'.files = pk.files /\ pk'.at = pk.at
        /\ pk'.hashed = pk.hashed /\ pk'.got = pk.got /\ pk'.pass = pk.pass
        /\ pk'.profile = pk.profile /\ pk'.arc = pk.arc
    BY <1>3 DEF CancelPack, EngineInv, Shapes, PkFields
  <2>. QED BY <2>1, SameKeepsSpool
<1>4. Others => (CancelPack \/ pk' = pk)
  BY DEF Others, WriteInput, ReplaceInput, ReturnInput, TakeArchive
<1>5. ASSUME NEW g, NEW i, NEW u, DamageArchive(g, i, u) PROVE pk' = pk
  BY <1>5 DEF DamageArchive
<1>6. TakeOutput \/ CancelRead \/ Read \/ UNCHANGED vars => pk' = pk
  BY ReadLeavesPack DEF TakeOutput, CancelRead, vars, packVars
<1>. QED BY <1>1, <1>2, <1>3, <1>4, <1>5, <1>6 DEF Next

LEMMA SpoolInit == ASSUME Init PROVE SpoolInv
<1>1. pk.pc = "start" /\ pk.files = <<>> /\ pk.profile \in Profiles
  BY DEF Init, PackInit
<1>2. Len(pk.files) = 0
  BY <1>1
<1>. QED BY <1>1, <1>2 DEF SpoolInv, InScan

\* What pack writes, the reader accepts: the tables and the payload of a spool pass
\* every check of verify_open_file but the limits, whatever the inputs are and however
\* they change while they are scanned and read, unless a file changed its length
\* between the scans of two of its links.
THEOREM SpoolsAreAccepted == Spec => []SpoolIsAccepted
<1>1. Init => SnapInv /\ SpoolInv BY SnapInit, SpoolInit
<1>2. EngineInv /\ SnapInv /\ SpoolInv /\ [Next]_vars => SnapInv' /\ SpoolInv'
  BY StepKeepsSnap, StepKeepsSpool
<1>3. SpoolInv => SpoolIsAccepted
  <2>. SUFFICES ASSUME SpoolInv, pk.pc = "verify", LinksAgree
                PROVE  CatalogValid(pk.arc) /\ PayloadValid(pk.arc, pk.arc.data)
    BY DEF SpoolIsAccepted
  <2>1. Agreed(pk.files, pk.hashed)
    BY DEF LinksAgree, Agreed
  <2>. QED BY <2>1, BuildAccepted DEF SpoolInv
<1>. QED BY <1>1, <1>2, <1>3, EngineInvariant, PTL DEF Spec
============================================================================
