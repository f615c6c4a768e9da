------------------------------ MODULE MCAgent ------------------------------
(* A tree of a file, a symlink and two nested directories, of which either *)
(* may be the command's directory or an output.                            *)
EXTENDS Agent

CONSTANTS x, y

\* Names, in their order; 0 is one that checkName refuses.
stderr == 1
stdout == 2
a == 3
d == 4
MCNames == {stderr, stdout, a, d}
MCPaths == {<<>>, <<stderr>>, <<stdout>>, <<a>>, <<d>>, <<d, a>>, <<d, d>>, <<d, d, a>>}

MCEmpty == <<>>
MCData == {x, y, MCEmpty}

Dir(m) == Node("dir", Marshal(m), FALSE)
File(data, exec) == Node("file", data, exec)

Inner == [n \in {a} |-> File(x, TRUE)]
Outer == [n \in {a, d} |-> IF n = a THEN File(Empty, FALSE) ELSE Dir(Inner)]
Tree == [n \in {a, d} |-> IF n = a THEN Node("link", y, FALSE) ELSE Dir(Outer)]
Invalid == [n \in {0, a} |-> File(x, FALSE)]
MCInputs == {x, Inner, Outer, Tree, Invalid}
MCRoots == {Tree, Invalid}

Command(dir, paths, files, directories) ==
  [arguments |-> TRUE, dir |-> dir, output_paths |-> paths, output_files |-> files,
   output_directories |-> directories]
MCCommands == {Command(<<>>, <<<<d>>, <<a>>>>, <<>>, <<>>),
               Command(<<d>>, <<>>, <<<<d, a>>>>, <<<<d>>>>),
               [Command(<<>>, <<>>, <<>>, <<>>) EXCEPT !.arguments = FALSE]}

MCChanges == {[path |-> <<a>>, node |-> File(x, FALSE)],
              [path |-> <<d, a>>, node |-> File(y, TRUE)],
              [path |-> <<d, a>>, node |-> Nothing],
              [path |-> <<d, d, a>>, node |-> Nothing],
              [path |-> <<d, d>>, node |-> File(x, FALSE)],
              [path |-> <<stdout>>, node |-> File(y, FALSE)],
              [path |-> <<stderr>>, node |-> Nothing]}

=============================================================================
