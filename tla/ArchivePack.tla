---------------------------- MODULE ArchivePack ----------------------------
(***************************************************************************)
(* pack of crates/pithos-engine/src/lib.rs, raw and compressed, over a     *)
(* file system that other programs use at the same time: they write to the *)
(* inputs, replace them, put files back and may take the path of the       *)
(* output.  A step is what pack does between two points where another      *)
(* program can step in.                                                    *)
(*                                                                         *)
(* The compressed profile reads its groups in parallel; here sources are   *)
(* read one after the other, which is all that another program can tell of *)
(* a single source.  An I/O error may end pack at any step; a limit on     *)
(* metadata, memory or space may end it once its inputs are read.          *)
(***************************************************************************)
EXTENDS ArchiveCatalog, FiniteSets

CONSTANTS
    Trees,          \* initial inputs: [paths: a sequence of directory entries, nodes: files]
    Contents,       \* what another program may put into a file
    MaxChanges      \* bound on the steps of other programs on the inputs, by their number

\* A directory entry, and a file by its inode number.
InputPath == [path : Nat, kind : {"file", "dir", "symlink", "unsafe"}, ino : Nat]
FileNode == [bytes : Seq(Nat), mtime : Nat]

ASSUME ArchivePackAssumption ==
    /\ \A t \in Trees :
        /\ t.paths \in Seq(InputPath) /\ t.nodes \in Seq(FileNode)
        /\ \A k \in 1 .. Len(t.paths) :
            t.paths[k].kind = "file" => t.paths[k].ino \in 1 .. Len(t.nodes)
    /\ Contents \subseteq Seq(Nat)

VARIABLES
    paths,      \* the inputs in the order they are met: [path, kind, ino]
    nodes,      \* files by inode number: [bytes, mtime]
    held,       \* history: the contents each path has had since pack began
    silent,     \* history: steps that no look at a path can see: writes that left a
                \* file's mtime alone, and returns of the file that was scanned
    changes,    \* steps of other programs on the inputs
    archive,    \* what is at the output path of pack
    pk          \* the call

inputVars == <<paths, nodes, held, silent, changes>>
packVars == <<inputVars, archive, pk>>

Nothing == [by |-> "nobody"]
Foreign == [by |-> "other"]
NoFile == 0

\* What a path holds: a file's bytes.
BytesAt(ps, ns, k) == IF ps[k].kind = "file" THEN {ns[ps[k].ino].bytes} ELSE {}

PackInit ==
    /\ \E t \in Trees :
        /\ paths = t.paths /\ nodes = t.nodes
        /\ held = [k \in 1 .. Len(t.paths) |-> BytesAt(t.paths, t.nodes, k)]
    /\ silent = 0 /\ changes = 0
    /\ archive = Nothing
    /\ \E p \in Profiles :
        pk = [pc |-> "start", result |-> "none", profile |-> p, pass |-> 1, at |-> 1,
              files |-> <<>>, fd |-> NoFile, buf |-> <<>>, hashed |-> <<>>, got |-> <<>>,
              arc |-> Nothing, cancelled |-> FALSE]

\* The call returns and its locals, the spool with them, are gone.
PackEnds(result) ==
    [pk EXCEPT !.pc = "done", !.result = result, !.pass = 1, !.at = 1, !.files = <<>>,
        !.fd = NoFile, !.buf = <<>>, !.hashed = <<>>, !.got = <<>>, !.arc = Nothing]

\* CancellationToken::checkpoint: goes on as `next`, or ends the call.
PackCheckpoint(next) == IF pk.cancelled THEN PackEnds("cancelled") ELSE next

-----------------------------------------------------------------------------
(* Other programs.                                                         *)

\* Pack looks at its inputs; what happens to them before and after is no concern
\* of it.
Reading == pk.pc \in {"scan", "check", "open", "read", "recheck"}

\* What the paths have held so far.
Seen(ps, ns) == [k \in 1 .. Len(ps) |-> held[k] \cup BytesAt(ps, ns, k)]

\* A write to a file; within the granularity of the clock its mtime stays.
WriteInput(i, bytes, quiet) ==
    /\ Reading /\ changes < MaxChanges[Len(paths)]
    /\ bytes # nodes[i].bytes
    /\ nodes' = [nodes EXCEPT ![i] = [bytes |-> bytes, mtime |-> IF quiet THEN @.mtime ELSE @.mtime + 1]]
    /\ silent' = IF quiet THEN silent + 1 ELSE silent
    /\ held' = Seen(paths, nodes')
    /\ changes' = changes + 1
    /\ UNCHANGED <<paths, archive, pk>>

\* Another file is renamed over an input, with the same mtime as the worst case.
\* It has an identity of its own: the scan keeps the file it replaces open.
ReplaceInput(k, bytes) ==
    /\ Reading /\ changes < MaxChanges[Len(paths)]
    /\ paths[k].kind = "file"
    /\ nodes' = Append(nodes, [bytes |-> bytes, mtime |-> nodes[paths[k].ino].mtime])
    /\ paths' = [paths EXCEPT ![k].ino = Len(nodes')]
    /\ held' = Seen(paths', nodes')
    /\ changes' = changes + 1
    /\ UNCHANGED <<silent, archive, pk>>

\* A file that is still around is renamed over an input, or back to it: pack looks at
\* paths, and cannot see that the file it scanned was away.
ReturnInput(k, i) ==
    /\ Reading /\ changes < MaxChanges[Len(paths)]
    /\ paths[k].kind = "file" /\ paths[k].ino # i
    /\ paths' = [paths EXCEPT ![k].ino = i]
    /\ silent' = IF \E f \in ToSet(pk.files) : f.src = k /\ f.ino = i THEN silent + 1 ELSE silent
    /\ held' = Seen(paths', nodes)
    /\ changes' = changes + 1
    /\ UNCHANGED <<nodes, archive, pk>>

\* Another program creates the file pack is about to create, by one of the two
\* moments at which pack looks.
TakeArchive ==
    /\ pk.pc \in {"start", "commit"} /\ archive = Nothing /\ archive' = Foreign
    /\ UNCHANGED <<inputVars, pk>>

\* The caller sets the token of the call.
CancelPack ==
    /\ pk.pc # "done" /\ ~pk.cancelled
    /\ pk' = [pk EXCEPT !.cancelled = TRUE]
    /\ UNCHANGED <<inputVars, archive>>

Others ==
    \/ \E i \in 1 .. Len(nodes), b \in Contents, q \in BOOLEAN : WriteInput(i, b, q)
    \/ \E k \in 1 .. Len(paths), b \in Contents : ReplaceInput(k, b)
    \/ \E k \in 1 .. Len(paths), i \in 1 .. Len(nodes) : ReturnInput(k, i)
    \/ TakeArchive
    \/ CancelPack

-----------------------------------------------------------------------------
(* pack.                                                                   *)

PackStep(from, next) ==
    /\ pk.pc = from
    /\ pk' = next
    /\ UNCHANGED <<inputVars, archive>>

\* The token and the output path are looked at before anything is read.
PackStart ==
    PackStep("start", PackCheckpoint(
            IF archive # Nothing THEN PackEnds("exists") ELSE [pk EXCEPT !.pc = "scan"]))

\* scan_node: the kind, identity, length and mtime of the next path.
Scanned(k) ==
    IF paths[k].kind = "file"
    THEN [src |-> k, path |-> paths[k].path, kind |-> "file", ino |-> paths[k].ino,
          len |-> Len(nodes[paths[k].ino].bytes), mtime |-> nodes[paths[k].ino].mtime]
    ELSE [src |-> k, path |-> paths[k].path, kind |-> paths[k].kind, ino |-> NoFile,
          len |-> 0, mtime |-> 0]

ScanNode ==
    /\ pk.at <= Len(paths)
    /\ PackStep("scan", PackCheckpoint(
            IF paths[pk.at].kind = "unsafe" THEN PackEnds("unsafe")
            ELSE [pk EXCEPT !.files = Append(@, Scanned(pk.at)), !.at = @ + 1]))

\* ScanBudget: the next entry would exceed the number of entries or the memory the
\* scan may use; how much there is of either is left out.
ScanLimit == pk.at <= Len(paths) /\ PackStep("scan", PackEnds("limit"))

\* The sequences with the elements of `files` in path order: one, if the paths differ.
SortedByPath(files) ==
    {s \in [1 .. Len(files) -> ToSet(files)] :
        \A i, k \in 1 .. Len(files) : i < k => s[i].path < s[k].path}

\* scan_inputs sorts what it found by path and refuses a path met twice.
ScanDone ==
    LET unread == [k \in 1 .. Len(pk.files) |-> <<>>]
    IN  /\ pk.at > Len(paths)
        /\ \/ /\ \E i, k \in 1 .. Len(pk.files) : i # k /\ pk.files[i].path = pk.files[k].path
              /\ PackStep("scan", PackEnds("duplicate"))
           \/ \E sorted \in SortedByPath(pk.files) :
                PackStep("scan", [pk EXCEPT !.pc = "check", !.at = 1, !.files = sorted,
                                    !.hashed = unread, !.got = unread])

\* Mutant: the identity of the file is not compared.
UnchangedMetadata(f) ==
    LET node == nodes[paths[f.src].ino]
    IN  Len(node.bytes) = f.len /\ node.mtime = f.mtime

\* same_file_metadata and file_identity: the path still leads to the file scanned.
Unchanged(f) ==
    LET node == nodes[paths[f.src].ino]
    IN  Len(node.bytes) = f.len /\ node.mtime = f.mtime /\ paths[f.src].ino = f.ino

\* What the entries up to k hold, hard links included.
OriginalTotal(k) == Total(SubSeq(pk.files, 1, k), LAMBDA f : f.len)

\* An entry without bytes of its own.
PassEntry ==
    /\ pk.at <= Len(pk.files) /\ ~IsSource(pk.files, pk.at)
    /\ PackStep("check", PackCheckpoint(
            IF OriginalTotal(pk.at) > MaxOriginal THEN PackEnds("limit")
            ELSE [pk EXCEPT !.at = @ + 1]))

CheckInput ==
    /\ pk.at <= Len(pk.files) /\ IsSource(pk.files, pk.at)
    /\ PackStep("check", PackCheckpoint(
            IF OriginalTotal(pk.at) > MaxOriginal \/ pk.files[pk.at].len > MaxGroup
            THEN PackEnds("limit")
            ELSE IF ~Unchanged(pk.files[pk.at]) THEN PackEnds("changed")
            ELSE [pk EXCEPT !.pc = "open"]))

OpenInput ==
    PackStep("open", [pk EXCEPT !.pc = "read", !.fd = paths[pk.files[pk.at].src].ino])

\* One read of the file that was opened; too much of it means it changed.
ReadInput ==
    LET bytes == nodes[pk.fd].bytes
    IN  /\ pk.pc = "read"
        /\ PackStep("read", PackCheckpoint(
                IF Len(pk.buf) >= Len(bytes) THEN [pk EXCEPT !.pc = "recheck"]
                ELSE IF Len(pk.buf) + 1 > pk.files[pk.at].len THEN PackEnds("changed")
                ELSE [pk EXCEPT !.buf = Append(@, bytes[Len(@) + 1])]))

\* read_verified_source: the second read must have the hash of the first.
SameAsHashed == pk.pass = 2 => pk.buf = pk.hashed[pk.at]

\* The checks after the last read.
Rechecked(k) == Len(pk.buf) = pk.files[k].len /\ Unchanged(pk.files[k]) /\ SameAsHashed

\* The raw profile keeps the bytes it reads; the compressed one reads them again.
CloseInput ==
    PackStep("recheck",
            IF ~Rechecked(pk.at) THEN PackEnds("changed")
            ELSE [pk EXCEPT !.pc = "check", !.at = @ + 1, !.fd = NoFile, !.buf = <<>>,
                    !.hashed[pk.at] = IF pk.pass = 1 THEN pk.buf ELSE @,
                    !.got[pk.at] = pk.buf])

EndPass ==
    /\ pk.at > Len(pk.files)
    /\ PackStep("check",
            IF pk.profile = "compressed" /\ pk.pass = 1 THEN [pk EXCEPT !.pass = 2, !.at = 1]
            ELSE [pk EXCEPT !.pc = "build"])

\* Payload, tables, header and footer are written to the spool.
BuildArchive ==
    PackStep("build", PackCheckpoint([pk EXCEPT
        !.pc = "verify", !.arc = Build(pk.profile, pk.files, pk.hashed, pk.got)]))

\* The tables, the archive or the temporary files exceed a budget.
BuildLimit == PackStep("build", PackEnds("limit"))

\* Mutant: the spool is not verified.
SpoolVerifiesSkipped == TRUE

\* verify_open_file on the spool.
SpoolVerifies == Verifies(pk.arc)

VerifySpool ==
    PackStep("verify", PackCheckpoint(
            IF SpoolVerifies THEN [pk EXCEPT !.pc = "last"] ELSE PackEnds("invalid")))

\* The last checkpoint: from here on a cancellation comes too late.
PackLast ==
    PackStep("last", PackCheckpoint([pk EXCEPT !.pc = "commit"]))

\* Mutant: replaces what is there.
PersistClobbering(there, mine) == mine

\* persist_noclobber: the file appears under its name unless the name is taken.
PersistNoclobber(there, mine) == IF there = Nothing THEN mine ELSE there

PackCommit ==
    LET mine == [by |-> "pack", arc |-> pk.arc]
    IN  /\ pk.pc = "commit"
        /\ archive' = PersistNoclobber(archive, mine)
        /\ pk' = IF archive' = mine THEN [pk EXCEPT !.pc = "sync"] ELSE PackEnds("exists")
        /\ UNCHANGED inputVars

PackReturn ==
    PackStep("sync", PackEnds("ok"))

\* An I/O error; after the rename the archive stays where it is.
PackFails ==
    /\ pk.pc \in {"start", "scan", "check", "open", "read", "recheck", "build", "verify", "commit", "sync"}
    /\ PackStep(pk.pc, PackEnds("io"))

Pack ==
    \/ PackStart \/ ScanNode \/ ScanLimit \/ ScanDone \/ PassEntry \/ CheckInput \/ OpenInput
    \/ ReadInput \/ CloseInput \/ EndPass \/ BuildArchive \/ BuildLimit \/ VerifySpool \/ PackLast \/ PackCommit
    \/ PackReturn \/ PackFails
=============================================================================
