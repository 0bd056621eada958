-------------------------- MODULE MCArchiveEngine --------------------------
\* Trees: a link met before the file it is packed as a link to; a file of two units; two
\* files and a second link to one of them, out of path order; a directory, a symbolic
\* link and a file that compresses well; files beyond a limit; a path met twice; a file
\* that is neither a file, a directory nor a link.  What other programs write has the
\* length of a file or another; they take three steps on the small trees.
EXTENDS ArchiveEngine

File(path, ino) == [path |-> path, kind |-> "file", ino |-> ino]
Other(path, kind) == [path |-> path, kind |-> kind, ino |-> NoFile]
Node(bytes) == [bytes |-> bytes, mtime |-> 1]

MCTrees == {
    [paths |-> <<File(2, 1), File(1, 1)>>, nodes |-> <<Node(<<0, 1>>)>>],
    [paths |-> <<File(1, 1)>>, nodes |-> <<Node(<<0, 1>>)>>],
    [paths |-> <<File(2, 1), File(1, 2), File(3, 1)>>, nodes |-> <<Node(<<0, 1>>), Node(<<0>>)>>],
    [paths |-> <<Other(1, "dir"), File(2, 1), Other(3, "symlink")>>, nodes |-> <<Node(<<0, 0>>)>>],
    [paths |-> <<File(1, 1)>>, nodes |-> <<Node(<<0, 0, 0>>)>>],
    [paths |-> <<File(1, 1), File(2, 1)>>, nodes |-> <<Node(<<0, 0, 0>>)>>],
    [paths |-> <<File(1, 1), File(1, 2)>>, nodes |-> <<Node(<<0>>), Node(<<1>>)>>],
    [paths |-> <<Other(1, "unsafe")>>, nodes |-> <<>>]}
MCContents == {<<0, 1>>, <<1, 0>>, <<1>>}
MCMaxChanges == <<3, 3, 1>>
=============================================================================
