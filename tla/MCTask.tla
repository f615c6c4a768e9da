------------------------------- MODULE MCTask --------------------------------
(* One Run, and its agent with a directory of one file, which is both an   *)
(* input and an output. What the agent makes of larger trees, the run      *)
(* agent looks at.                                                         *)
EXTENDS Task, Integers

CONSTANTS x, y

stderr == 1
stdout == 2
f == 3
d == 4
MCNames == {stderr, stdout, f, d}
MCPaths == {<<>>, <<stderr>>, <<stdout>>, <<d>>, <<d, f>>}
MCEmpty == <<>>
MCData == {x, y, MCEmpty}

\* As in Agent, whose constants are made of them.
Node(is, data, exec) == [is |-> is, data |-> data, exec |-> exec]
Inner == [n \in {f} |-> Node("file", x, FALSE)]
Tree == [n \in {d} |-> Node("dir", Inner, FALSE)]
MCInputs == {x, Inner, Tree}
MCRoots == {Tree}
MCCommands == {[arguments |-> TRUE, dir |-> <<>>, output_paths |-> <<<<d>>>>,
                output_files |-> <<>>, output_directories |-> <<>>]}
MCChanges == {[path |-> <<d, f>>, node |-> Node("file", y, FALSE)]}

=============================================================================
