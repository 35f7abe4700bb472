------------------------------ MODULE NameSpace ------------------------------
(***************************************************************************)
(* What the file system calls promise together: a set of inodes, names in  *)
(* directories, and inodes in use (open files and current directories).    *)
(* A name belongs to one inode, changes only by being made or removed, and *)
(* an inode is freed only when it has no name and is not in use.           *)
(***************************************************************************)
EXTENDS Naturals

CONSTANTS Inums, Root

VARIABLES
    alloc,    \* the type of every inode, "none" when it is free
    names,    \* entries other than "." and "..": records with dir, name, inum
    inuse     \* inodes of open files and current directories

absVars == <<alloc, names, inuse>>

Allocated == {i \in Inums : alloc[i] # "none"}
NamesOf(i) == {n \in names : n.inum = i}

AbsInit ==
    /\ alloc \in [Inums -> {"none", "file", "dir", "dev"}] /\ alloc[Root] = "dir"
    /\ \A n \in names : alloc[n.dir] = "dir" /\ n.inum \in Allocated
    /\ \A i \in Allocated \ {Root} : NamesOf(i) # {}
    /\ inuse = {Root}

\* ialloc()
Alloc(i, t) ==
    /\ alloc[i] = "none" /\ t # "none"
    /\ alloc' = [alloc EXCEPT ![i] = t]
    /\ UNCHANGED <<names, inuse>>

\* create() and link(): a directory has one name.
Name(d, n, i) ==
    /\ alloc[d] = "dir" /\ alloc[i] # "none"
    /\ \A m \in names : ~(m.dir = d /\ m.name = n)
    /\ alloc[i] = "dir" => NamesOf(i) = {}
    /\ names' = names \cup {[dir |-> d, name |-> n, inum |-> i]}
    /\ UNCHANGED <<alloc, inuse>>

\* unlink(): a directory goes only when it is empty.
Unname(m) ==
    /\ m \in names
    /\ \A n \in names : n.dir # m.inum
    /\ names' = names \ {m}
    /\ UNCHANGED <<alloc, inuse>>

\* iput(): a removed directory takes names made in it meanwhile with it.
Release(i) ==
    /\ i \in Allocated \ inuse
    /\ NamesOf(i) = {}
    /\ alloc' = [alloc EXCEPT ![i] = "none"]
    /\ names' = {n \in names : n.dir # i}
    /\ UNCHANGED inuse

\* open(), close() and chdir(): what comes into use exists.
Use ==
    /\ inuse' \subseteq Allocated
    /\ \E i, j \in Inums : inuse' \cup {i} = inuse \cup {j}
    /\ UNCHANGED <<alloc, names>>

\* A crash closes everything and loses no name.
Restart == inuse' = {Root} /\ UNCHANGED <<alloc, names>>

AbsNext ==
    \/ \E i \in Inums : Release(i) \/ \E t \in {"file", "dir", "dev"} : Alloc(i, t)
    \/ \E m \in names' \ names : Name(m.dir, m.name, m.inum)
    \/ \E m \in names : Unname(m)
    \/ Use \/ Restart

AbsSpec == AbsInit /\ [][AbsNext]_absVars
=============================================================================
