----------------------------- MODULE MCArchives -----------------------------
(* Instances of Archives: a folder of two files, and four archives: one that
   is fine, whose folder comes after what is in it, one with two entries of
   one name, one whose data is longer than its header says.                   *)
EXTENDS Archives

TwoFiles == <<"a", "b">>
Entry(path, kind, size, actual) ==
    [path |-> path, kind |-> kind, size |-> size, actual |-> actual, valid |-> TRUE]
Given ==
    {<<Entry(<<"x", "y">>, "file", 1, 1), Entry(<<"x">>, "directory", 0, 0)>>,
     <<Entry(<<>>, "directory", 0, 0), Entry(<<"x">>, "file", 1, 1), Entry(<<"x">>, "file", 1, 1)>>,
     <<Entry(<<"x">>, "file", 1, 2)>>}
One == {CHOOSE j \in Jobs : TRUE}
Mix(jobs, kinds, changes, cancels, faults, retained) ==
    [jobs |-> jobs, kinds |-> kinds, changes |-> changes, cancels |-> cancels,
     faults |-> faults, retained |-> retained]
Workloads ==
    {Mix(One, {"stream"}, 3, 1, 0, 0), Mix(Jobs, {"compress", "extract"}, 1, 1, 0, 0),
     Mix(Jobs, {"extract"}, 0, 1, 1, 0), Mix(One, {"compress", "extract"}, 1, 1, 1, 0),
     Mix(One, {"compress", "extract"}, 0, 1, 2, 0), Mix(One, {"extract"}, 0, 0, 2, 1)}

=============================================================================
