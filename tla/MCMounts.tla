------------------------------ MODULE MCMounts ------------------------------
(* Three devices: one with a directory and a symbolic link to it, one with *)
(* a directory, one empty.  They may be mounted upon the root, upon a      *)
(* directory of it, upon a directory within that, and upon one another.    *)
EXTENDS Mounts

Absolute(names) == [absolute |-> TRUE, names |-> names, slash |-> FALSE]
Directory(names) == [kind |-> "directory", names |-> names, up |-> RootInode, target |-> None]
LinkToA ==
    [kind |-> "link", names |-> <<>>, up |-> None,
     target |-> [absolute |-> FALSE, names |-> <<"a">>, slash |-> FALSE]]

ThreeVolumes ==
    << <<Directory([a |-> 2, l |-> 3]), Directory(<<>>), LinkToA>>,
       <<Directory([b |-> 2]), Directory(<<>>)>>,
       <<Directory(<<>>)>> >>

SomePoints == {Absolute(<<>>), Absolute(<<"a">>), Absolute(<<"a", "b">>)}
SomePaths == SomePoints \cup {Absolute(<<"l">>), [Absolute(<<"l", "b">>) EXCEPT !.slash = TRUE]}
SomeLinks == {<<Absolute(<<"a", "b">>), Absolute(<<"l">>)>>}
=============================================================================
