-------------------------- MODULE MCDaemonInstances --------------------------
(* Values for TLC: the directory a shell stands in, run_dir and the database. *)
(* The configuration is a function: it is compared with its references once,  *)
(* in one of the initial states.                                              *)
EXTENDS DaemonInstances, Configuration, TLC

CONSTANTS shell, rundir, data,
          MaxArgs, MaxPath     \* bounds: numbers of arguments, lengths of paths

ASSUME BoundsAssumption == MaxArgs \in Nat /\ MaxPath \in Nat

ThreeDirs == {shell, rundir, data}
AllTo(x) == [y \in ThreeDirs |-> x]
\* relative paths: ../pack of aiqbd.ini, and one to a directory below
Sibling == shell :> data @@ rundir :> NULL @@ data :> data
Below == shell :> data @@ rundir :> NULL @@ data :> NULL
DatabaseWays == {AllTo(data), Sibling, Below}
RunDirWays == {AllTo(rundir), AllTo(NULL)}

Symmetry == Permutations(Daemons)

-----------------------------------------------------------------------------
Once == Init /\ way = AllTo(data) /\ run = AllTo(rundir) /\ cwd = [d \in Daemons |-> shell]

UpTo(n, S) == UNION {[1 .. k -> S] : k \in 0 .. n}
Either(x, y) == {<<>>, <<x>>, <<y>>, <<x, y>>}
\* Lines with both kinds of blanks and quotes, commented out, ended by a carriage
\* return and a newline or by the end of the file, and longer than the buffer.
Layouts ==
  [lead : Either("sp", "tab"), gap : Either("tab", "sp"),
   space : Either("sp", "tab"), trail : Either("tab", "sp"),
   open : Either("double", "single"), close : Either("single", "double"),
   key : {<<"k">>, <<";", "k">>, <<"k", "sp", "k">>},
   value : {<<"k">>, <<"k", "=", "k">>, <<"k", "cr">>, <<"sp", "k", "tab">>},
   end : {<<"nl">>, <<>>}]

FileNames == {<<"aiqbd.ini", Empty>>, <<"one.ini", Empty>>}
FileLines == {<<"database_dir", "there">>, <<"database_dir", Empty>>,
              <<"no_daemon", "0">>, <<"config_file", "other">>}
Files == {file \in [FileNames -> UpTo(2, FileLines)] : Len(file[<<"one.ini", Empty>>]) <= 1}
Heaps == [args : {[i \in 1 .. MaxArgs |-> Empty], [i \in 1 .. MaxArgs |-> "old"]},
             lines : {[i \in 1 .. 2 |-> Empty], [i \in 1 .. 2 |-> "old"]}]

\* _parse_file takes from a line the key and the value that are written there,
\* without the blanks and quotes around them, and nothing from comments and sections.
LinesTaken == Once => \A p \in Layouts : LineTaken(p)

\* _parse_args and _parse_file take every option that is given with a value.
OptionsTaken ==
  Once => \A args \in UpTo(MaxArgs, Flags \cup Values), file \in Files, heap \in Heaps :
            Followed(args, file, heap)

\* _concat_path names a file in the directory it is given.
NamesInDirectory ==
  Once => \A prefix \in UpTo(MaxPath, {"/", ".", "a"}) :
            LedInto(prefix, <<"f">>)
=============================================================================
