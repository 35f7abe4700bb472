-------------------------------- MODULE MCFs --------------------------------
(***************************************************************************)
(* Instances of Fs: programs that make, link, open and remove files in the *)
(* root and in one directory under it, and one program that removes the    *)
(* directories above its current directory.                                *)
(***************************************************************************)
EXTENDS Fs

CONSTANTS p1, p2

Abs(s) == [abs |-> TRUE, elems |-> s]
Rel(s) == [abs |-> FALSE, elems |-> s]
Call(o, path) == [op |-> o, path |-> path, write |-> FALSE]

Blank == [i \in Inums |-> Free]

\* Two programs in a file, f, and a directory, d, that both make and remove.
MCCalls ==
    [p \in Procs |->
        {Call("creat", Abs(<<"d", "f">>)), Call("unlink", Abs(<<"d">>))} \cup
        IF p = p1
        THEN {Call("mkdir", Abs(<<"d">>)), Call("mknod", Abs(<<"d">>)),
              Call("chdir", Abs(<<"d">>)), Call("open", Rel(<<"f">>))}
        ELSE {Call("unlink", Abs(<<"f">>)), Call("unlink", Abs(<<"d", "f">>)),
              Call("exec", Rel(<<"..", "f">>)),
              [op |-> "open", path |-> Abs(<<"d">>), write |-> TRUE],
              [op |-> "link", path |-> Abs(<<"f">>), new |-> Abs(<<"d", "f">>)],
              [op |-> "link", path |-> Abs(<<"d">>), new |-> Abs(<<"g">>)]}]

\* A file f and a directory d in the root.
MCDisk ==
    [Blank EXCEPT
        ![1] = [RootDir EXCEPT !.nlink = 2, !.ents = @ \o <<Ent("f", 2), Ent("d", 3)>>],
        ![2] = [Free EXCEPT !.type = "file", !.nlink = 1],
        ![3] = [type |-> "dir", nlink |-> 1, ents |-> <<Ent(".", 3), Ent("..", 1)>>]]

\* mkdir a; mkdir a/b; cd a/b; rm /a/b; rm /a; then the parent directory.
MCOrphanCalls == [p \in Procs |->
    {Call("mkdir", Abs(<<"a">>)), Call("mkdir", Abs(<<"a", "b">>)),
     Call("chdir", Abs(<<"a", "b">>)), Call("unlink", Abs(<<"a", "b">>)),
     Call("unlink", Abs(<<"a">>)), Call("open", Rel(<<"..">>))}]

MCOrphanDisk == [Blank EXCEPT ![1] = RootDir]
=============================================================================
