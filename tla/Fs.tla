--------------------------------- MODULE Fs ---------------------------------
(***************************************************************************)
(* Inodes, directories, path lookup and the file system calls (fs.c,       *)
(* sysfile.c, file.c): the inode cache with its references and locks, link *)
(* counts and names, for several processes at once.                        *)
(*                                                                         *)
(* A step is what a process does between two points where another one can  *)
(* interfere: a wait for an inode lock, or a release of icache.lock.  A    *)
(* directory is the sequence of its entries, an entry with inum 0 is a     *)
(* hole; the contents of files are in FileData.  The buffer cache and the  *)
(* log make an update of an inode or a directory one step, and make the    *)
(* calls that are under way together one transaction: the disk found after *)
(* a crash is that of the last moment without a call, so Crash happens at  *)
(* such moments.                                                           *)
(*                                                                         *)
(* An operator named like the one after it, with a suffix, is that         *)
(* operator with a plausible mistake; the properties are tested on them.   *)
(***************************************************************************)
EXTENDS Integers, FiniteSets, FiniteSetsExt, Sequences, SequencesExt

CONSTANTS
    Procs,
    NINODE,      \* entries of the inode cache
    NInodes,     \* inodes on the disk, number 0 is not used
    NFILE,       \* open files of the system
    NOFILE,      \* open files of a process
    Calls,       \* calls of each process: records with op, path and, for link, new
    InitDisk,    \* the inodes that mkfs and earlier programs have left
    MaxOps,      \* bound of the model: calls with a path, and dup(), in a behaviour
    MaxCrashes   \* bound of the model: crashes in a behaviour

Inums == 1 .. NInodes - 1
ROOTINO == 1
Entries == 1 .. NINODE
Files == 1 .. NFILE
Fds == 0 .. NOFILE - 1
Nil == 0

ASSUME FsAssumption ==
    /\ NINODE \in Nat \ {0} /\ NInodes \in Nat \ {0, 1}
    /\ NFILE \in Nat /\ NOFILE \in Nat \ {0}
    /\ MaxOps \in Nat /\ MaxCrashes \in Nat
    /\ DOMAIN InitDisk = Inums /\ InitDisk[ROOTINO].type = "dir"

VARIABLES
    di,        \* dinodes on the disk: type, nlink, and the entries of a directory
    ic,        \* icache.inode: inum, ref, the flags, and the copies of type and nlink
    file,      \* ftable.file: ref and ip
    ofile,     \* proc->ofile
    cwd,       \* proc->cwd
    pr,        \* where a process is, and its locals, see Idle
    panic,     \* the panic() that has stopped the machine, a set of at most a few
    nops, ncrash

files == <<file, ofile>>
bounds == <<nops, ncrash>>
vars == <<di, ic, file, ofile, cwd, pr, panic, nops, ncrash>>

(* The locals of a process.  wp, ip, dp and put are inode pointers with a  *)
(* reference of their own: ip of namex(), ip and dp of the system call,    *)
(* and the argument of an iput() in progress, after which it goes on at k. *)
Idle == [pc |-> "idle", call |-> [op |-> "none"], parent |-> FALSE, walk |-> <<>>,
         name |-> "", wp |-> Nil, ip |-> Nil, dp |-> Nil, put |-> Nil, k |-> "idle"]

PCs == {"idle", "namex", "iput", "itrunc", "iput2",
        "open", "opened", "exec", "chdir", "create", "exists", "create2", "created",
        "unlink", "unlink2", "notempty", "unlink3",
        "link", "linkname", "link2", "linkfails", "linkbad", "linked"}

Free == [type |-> "none", nlink |-> 0, ents |-> <<>>]
Ent(n, i) == [name |-> n, inum |-> i]

\* The root that mkfs makes; userinit() opens it for init, whose children
\* inherit it.
RootDir == [type |-> "dir", nlink |-> 1, ents |-> <<Ent(".", ROOTINO), Ent("..", ROOTINO)>>]
BootCache ==
    [e \in Entries |-> [inum |-> IF e = 1 THEN ROOTINO ELSE 0,
                        ref |-> IF e = 1 THEN Cardinality(Procs) ELSE 0,
                        busy |-> FALSE, valid |-> FALSE, type |-> "none", nlink |-> 0]]
Init ==
    /\ di = InitDisk
    /\ ic = BootCache
    /\ file = [f \in Files |-> [ref |-> 0, ip |-> Nil]]
    /\ ofile = [p \in Procs |-> [d \in Fds |-> Nil]]
    /\ cwd = [p \in Procs |-> 1]
    /\ pr = [p \in Procs |-> Idle]
    /\ panic = {}
    /\ nops = 0 /\ ncrash = 0

-----------------------------------------------------------------------------
(* The inode cache.  Operators take and return a cache, c, so that a step   *)
(* can make several calls.                                                  *)

\* The entry iget() finds, or the first unused one.
Cached(c, i) == {e \in Entries : c[e].ref > 0 /\ c[e].inum = i}
Unused(c) == {e \in Entries : c[e].ref = 0}
EntryOf(c, i) ==
    CASE Cached(c, i) # {} -> Min(Cached(c, i))
      [] Cached(c, i) = {} /\ Unused(c) # {} -> Min(Unused(c))
      [] OTHER -> Nil
GetPanic(c, i) == IF EntryOf(c, i) = Nil THEN {"iget: no inodes"} ELSE {}

iget(c, i) ==
    [e \in Entries |->
        CASE e # EntryOf(c, i) -> c[e]
          [] e \in Cached(c, i) -> [c[e] EXCEPT !.ref = @ + 1]
          [] OTHER -> [c[e] EXCEPT !.inum = i, !.ref = 1, !.busy = FALSE, !.valid = FALSE]]

idup(c, e) == [c EXCEPT ![e].ref = @ + 1]

\* ilock() once the entry is not busy: the copies are read if they are not
\* valid.  A free inode is a panic.
Load(c, e) ==
    IF c[e].valid THEN c
    ELSE [c EXCEPT ![e].valid = TRUE, ![e].type = di[c[e].inum].type,
                   ![e].nlink = di[c[e].inum].nlink]
CanLock(e) == ~ic[e].busy
ilock(c, e) == [Load(c, e) EXCEPT ![e].busy = TRUE]
LockPanic(e) ==
    IF ~ic[e].valid /\ di[ic[e].inum].type = "none" THEN {"ilock: no type"} ELSE {}

iunlock(c, e) == [c EXCEPT ![e].busy = FALSE]

\* iupdate(): the copies go to the disk.
iupdate(d, c, e) ==
    [d EXCEPT ![c[e].inum].type = c[e].type, ![c[e].inum].nlink = c[e].nlink]

\* Go on at label l, with the reference in local x handed to iput() first.
Put(L, x, l) == [L EXCEPT !.pc = "iput", !.put = L[x], ![x] = Nil, !.k = l]
Goto(L, l) == IF l = "idle" THEN Idle ELSE [L EXCEPT !.pc = l, !.put = Nil]

\* iput() under icache.lock: the last reference to an inode without links.
LastUnlinkedAny(e) == ic[e].valid /\ ic[e].nlink = 0
LastUnlinkedKept(e) == FALSE
LastUnlinked(e) == ic[e].ref = 1 /\ ic[e].valid /\ ic[e].nlink = 0

iput(p) ==
    LET e == pr[p].put
    IN  /\ pr[p].pc = "iput"
        /\ \/ /\ LastUnlinked(e)
              /\ panic' = IF ic[e].busy THEN {"iput busy"} ELSE {}
              /\ ic' = [ic EXCEPT ![e].busy = TRUE]
              /\ pr' = [pr EXCEPT ![p].pc = "itrunc"]
           \/ /\ ~LastUnlinked(e)
              /\ ic' = [ic EXCEPT ![e].ref = @ - 1]
              /\ pr' = [pr EXCEPT ![p] = Goto(@, @.k)]
              /\ UNCHANGED panic
        /\ UNCHANGED <<di, files, cwd, bounds>>

\* iput(), without icache.lock: itrunc(), type = 0, iupdate().
itrunc(p) ==
    LET e == pr[p].put
    IN  /\ pr[p].pc = "itrunc"
        /\ di' = [di EXCEPT ![ic[e].inum] = Free]
        /\ ic' = [ic EXCEPT ![e].type = "none"]
        /\ pr' = [pr EXCEPT ![p].pc = "iput2"]
        /\ UNCHANGED <<files, cwd, panic, bounds>>

\* iput(), with icache.lock again: flags = 0, which also forgets the copies.
FreedFlagsValid == TRUE
FreedFlags == FALSE
iput2(p) ==
    LET e == pr[p].put
    IN  /\ pr[p].pc = "iput2"
        /\ ic' = [ic EXCEPT ![e].busy = FALSE, ![e].valid = FreedFlags, ![e].ref = @ - 1]
        /\ pr' = [pr EXCEPT ![p] = Goto(@, @.k)]
        /\ UNCHANGED <<di, files, cwd, panic, bounds>>

-----------------------------------------------------------------------------
(* Directories and paths *)

Lookup(ents, n) == {o \in DOMAIN ents : ents[o].inum # 0 /\ ents[o].name = n}
dirlookup(d, n) ==
    LET os == Lookup(d.ents, n) IN IF os = {} THEN 0 ELSE d.ents[Min(os)].inum

\* dirlink() after its test: the first hole, or the end of the directory.
dirlink(ents, n, i) ==
    LET holes == {o \in DOMAIN ents : ents[o].inum = 0}
    IN  IF holes = {} THEN Append(ents, Ent(n, i))
        ELSE [ents EXCEPT ![Min(holes)] = Ent(n, i)]

isdirempty(ents) == \A o \in DOMAIN ents : o > 2 => ents[o].inum = 0

\* The directory of an entry of the cache.
Dir(e) == di[ic[e].inum]

\* namex() begins at the root or at the current directory.
Start(p, L, path, parent) ==
    LET c == IF path.abs THEN iget(ic, ROOTINO) ELSE idup(ic, cwd[p])
        e == IF path.abs THEN EntryOf(ic, ROOTINO) ELSE cwd[p]
    IN  /\ ic' = c
        /\ pr' = [pr EXCEPT ![p] = [L EXCEPT !.pc = "namex", !.wp = e,
                                             !.walk = path.elems, !.parent = parent]]

\* Calls that look up the parent of their last name.
ParentCalls == {"creat", "mkdir", "mknod", "unlink"}

\* Where a call goes on with the result of namex(), and in which local.
After(L) ==
    CASE L.call.op = "link" -> IF L.parent THEN "link2" ELSE "link"
      [] L.call.op \in {"creat", "mkdir", "mknod"} -> "create"
      [] OTHER -> L.call.op
Found(L) ==
    IF L.parent THEN [L EXCEPT !.pc = After(L), !.dp = L.wp, !.wp = Nil]
                ELSE [L EXCEPT !.pc = After(L), !.ip = L.wp, !.wp = Nil]

\* Where it goes on when namex() returns 0.
Failed(L) == IF L.call.op = "link" /\ L.parent THEN "linkbad" ELSE "idle"

\* A call with a path: begin_op() and the start of namei() or nameiparent().
Begin(p, call) ==
    /\ pr[p].pc = "idle"
    /\ nops < MaxOps
    /\ nops' = nops + 1
    /\ Start(p, [Idle EXCEPT !.call = call], call.path, call.op \in ParentCalls)
    /\ UNCHANGED <<di, files, cwd, panic, ncrash>>

\* One turn of namex()'s loop: lock, look the next name up, unlock, put.
namex(p) ==
    LET L == pr[p]
        e == L.wp
        c == Load(ic, e)
        i == dirlookup(Dir(e), Head(L.walk))
    IN  /\ L.pc = "namex" /\ L.walk # <<>>
        /\ CanLock(e)
        /\ \/ /\ c[e].type # "dir" \/ (i = 0 /\ ~(L.parent /\ Len(L.walk) = 1))
              /\ panic' = LockPanic(e)
              /\ ic' = c
              /\ pr' = [pr EXCEPT ![p] = Put(L, "wp", Failed(L))]
           \/ /\ c[e].type = "dir" /\ L.parent /\ Len(L.walk) = 1
              /\ panic' = LockPanic(e)
              /\ ic' = c
              /\ pr' = [pr EXCEPT ![p] = Found([L EXCEPT !.name = Head(L.walk),
                                                         !.walk = <<>>])]
           \/ /\ c[e].type = "dir" /\ i # 0 /\ ~(L.parent /\ Len(L.walk) = 1)
              /\ panic' = LockPanic(e) \cup GetPanic(c, i)
              /\ ic' = iget(c, i)
              /\ pr' = [pr EXCEPT ![p] = [Put(L, "wp", "namex") EXCEPT
                                             !.wp = EntryOf(c, i), !.walk = Tail(L.walk)]]
        /\ UNCHANGED <<di, files, cwd, bounds>>

\* The end of the path: nameiparent() of a path without a name fails.
namexEnd(p) ==
    LET L == pr[p]
    IN  /\ L.pc = "namex" /\ L.walk = <<>>
        /\ pr' = [pr EXCEPT ![p] = IF L.parent THEN Put(L, "wp", Failed(L)) ELSE Found(L)]
        /\ UNCHANGED <<di, ic, files, cwd, panic, bounds>>

-----------------------------------------------------------------------------
(* open(), exec(), chdir() *)

\* sys_open(), the inode locked (or about to be, c): take a file and a
\* descriptor, or give the inode back.
OpenFile(p, c) ==
    LET L == pr[p]
        free == {f \in Files : file[f].ref = 0}
        fds == {d \in Fds : ofile[p][d] = Nil}
    IN  /\ ic' = iunlock(c, L.ip)
        /\ \/ /\ free # {} /\ fds # {}
              /\ file' = [file EXCEPT ![Min(free)] = [ref |-> 1, ip |-> L.ip]]
              /\ ofile' = [ofile EXCEPT ![p][Min(fds)] = Min(free)]
              /\ pr' = [pr EXCEPT ![p] = Idle]
           \/ /\ free = {} \/ fds = {}
              /\ pr' = [pr EXCEPT ![p] = Put(L, "ip", "idle")]
              /\ UNCHANGED files

\* open() without O_CREATE; a directory is not opened for writing.
open(p) ==
    LET L == pr[p]
        c == Load(ic, L.ip)
    IN  /\ L.pc = "open" /\ CanLock(L.ip)
        /\ panic' = LockPanic(L.ip)
        /\ \/ /\ c[L.ip].type = "dir" /\ L.call.write
              /\ ic' = c
              /\ pr' = [pr EXCEPT ![p] = Put(L, "ip", "idle")]
              /\ UNCHANGED files
           \/ /\ ~(c[L.ip].type = "dir" /\ L.call.write)
              /\ OpenFile(p, c)
        /\ UNCHANGED <<di, cwd, bounds>>

\* exec() reads the program with the inode locked, whatever it finds.
exec(p) ==
    LET L == pr[p]
    IN  /\ L.pc = "exec" /\ CanLock(L.ip)
        /\ panic' = LockPanic(L.ip)
        /\ ic' = Load(ic, L.ip)
        /\ pr' = [pr EXCEPT ![p] = Put(L, "ip", "idle")]
        /\ UNCHANGED <<di, files, cwd, bounds>>

\* chdir(): the old directory is put before proc->cwd, which nobody else
\* reads, is set.
chdir(p) ==
    LET L == pr[p]
        c == Load(ic, L.ip)
    IN  /\ L.pc = "chdir" /\ CanLock(L.ip)
        /\ panic' = LockPanic(L.ip)
        /\ ic' = c
        /\ \/ /\ c[L.ip].type = "dir"
              /\ cwd' = [cwd EXCEPT ![p] = L.ip]
              /\ pr' = [pr EXCEPT ![p] = Put([L EXCEPT !.ip = cwd[p]], "ip", "idle")]
           \/ /\ c[L.ip].type # "dir"
              /\ pr' = [pr EXCEPT ![p] = Put(L, "ip", "idle")]
              /\ UNCHANGED cwd
        /\ UNCHANGED <<di, files, bounds>>

-----------------------------------------------------------------------------
(* create(), for open(O_CREATE), mkdir() and mknod() *)

NewType(L) == CASE L.call.op = "creat" -> "file" [] L.call.op = "mkdir" -> "dir"
                [] L.call.op = "mknod" -> "dev"

\* ialloc() takes the first inode that is free on the disk.
FreeInodes == {i \in Inums : di[i].type = "none"}

\* create() with dp locked: the name exists and dp is unlocked, or ialloc()
\* takes an inode and dp stays locked.
create(p) ==
    LET L == pr[p]
        c == Load(ic, L.dp)
        old == dirlookup(Dir(L.dp), L.name)
        new == Min(FreeInodes)
    IN  /\ L.pc = "create" /\ CanLock(L.dp)
        /\ \/ /\ old # 0
              /\ panic' = LockPanic(L.dp) \cup GetPanic(c, old)
              /\ ic' = iget(c, old)
              /\ pr' = [pr EXCEPT ![p] = [Put(L, "dp", "exists") EXCEPT !.ip = EntryOf(c, old)]]
              /\ UNCHANGED di
           \/ /\ old = 0 /\ FreeInodes # {}
              /\ panic' = LockPanic(L.dp) \cup GetPanic(c, new)
              /\ di' = [di EXCEPT ![new] = [Free EXCEPT !.type = NewType(L)]]
              /\ ic' = iget(ilock(ic, L.dp), new)
              /\ pr' = [pr EXCEPT ![p] = [L EXCEPT !.pc = "create2", !.ip = EntryOf(c, new)]]
           \/ /\ old = 0 /\ FreeInodes = {}
              /\ panic' = {"ialloc: no inodes"}
              /\ UNCHANGED <<di, ic, pr>>
        /\ UNCHANGED <<files, cwd, bounds>>

\* The name exists: open() takes a file, everything else fails.
exists(p) ==
    LET L == pr[p]
        c == Load(ic, L.ip)
    IN  /\ L.pc = "exists" /\ CanLock(L.ip)
        /\ panic' = LockPanic(L.ip)
        /\ \/ /\ NewType(L) = "file" /\ c[L.ip].type = "file"
              /\ OpenFile(p, c)
           \/ /\ ~(NewType(L) = "file" /\ c[L.ip].type = "file")
              /\ ic' = c
              /\ pr' = [pr EXCEPT ![p] = Put(L, "ip", "idle")]
              /\ UNCHANGED files
        /\ UNCHANGED <<di, cwd, bounds>>

\* A new inode: nlink = 1, the entries "." and ".." of a directory with the
\* link they add to dp, the entry in dp; dp is unlocked, ip stays locked.
create2(p) ==
    LET L == pr[p]
        i == ic[L.ip].inum
        dir == NewType(L) = "dir"
        c1 == [ilock(ic, L.ip) EXCEPT ![L.ip].nlink = 1]
        c2 == IF dir THEN [c1 EXCEPT ![L.dp].nlink = @ + 1] ELSE c1
        d1 == iupdate(iupdate(di, c2, L.ip), c2, L.dp)
        dots == IF dir THEN <<Ent(".", i), Ent("..", ic[L.dp].inum)>> ELSE <<>>
    IN  /\ L.pc = "create2" /\ CanLock(L.ip)
        /\ panic' = LockPanic(L.ip) \cup
                        IF dirlookup(Dir(L.dp), L.name) # 0 THEN {"create: dirlink"} ELSE {}
        /\ di' = [d1 EXCEPT ![i].ents = dots,
                            ![ic[L.dp].inum].ents = dirlink(@, L.name, i)]
        /\ ic' = iunlock(c2, L.dp)
        /\ pr' = [pr EXCEPT ![p] = Put(L, "dp", "created")]
        /\ UNCHANGED <<files, cwd, bounds>>

\* create() has returned ip locked.
created(p) ==
    LET L == pr[p]
    IN  /\ L.pc = "created"
        /\ \/ /\ L.call.op = "creat"
              /\ OpenFile(p, ic)
           \/ /\ L.call.op # "creat"
              /\ ic' = iunlock(ic, L.ip)
              /\ pr' = [pr EXCEPT ![p] = Put(L, "ip", "idle")]
              /\ UNCHANGED files
        /\ UNCHANGED <<di, cwd, panic, bounds>>

-----------------------------------------------------------------------------
(* unlink() *)

\* With dp locked: find the entry; dp stays locked.
unlink(p) ==
    LET L == pr[p]
        c == ilock(ic, L.dp)
        i == dirlookup(Dir(L.dp), L.name)
    IN  /\ L.pc = "unlink" /\ CanLock(L.dp)
        /\ \/ /\ L.name \in {".", ".."} \/ i = 0
              /\ panic' = LockPanic(L.dp)
              /\ ic' = iunlock(c, L.dp)
              /\ pr' = [pr EXCEPT ![p] = Put(L, "dp", "idle")]
           \/ /\ L.name \notin {".", ".."} /\ i # 0
              /\ panic' = LockPanic(L.dp) \cup GetPanic(c, i)
              /\ ic' = iget(c, i)
              /\ pr' = [pr EXCEPT ![p] = [L EXCEPT !.pc = "unlink2", !.ip = EntryOf(c, i)]]
        /\ UNCHANGED <<di, files, cwd, bounds>>

\* Only an empty directory is removed.
RemovableAny(i) == TRUE
Removable(i) == di[i].type = "dir" => isdirempty(di[i].ents)

\* With ip locked too: erase the entry, unlock dp.
unlink2(p) ==
    LET L == pr[p]
        c == ilock(ic, L.ip)
        i == ic[L.ip].inum
        d == ic[L.dp].inum
        off == Min(Lookup(di[d].ents, L.name))
        c1 == IF c[L.ip].type = "dir" THEN [c EXCEPT ![L.dp].nlink = @ - 1] ELSE c
    IN  /\ L.pc = "unlink2" /\ CanLock(L.ip)
        /\ panic' = LockPanic(L.ip) \cup
                        IF c[L.ip].nlink < 1 THEN {"unlink: nlink < 1"} ELSE {}
        /\ \/ /\ ~Removable(i)
              /\ ic' = iunlock(c, L.ip)
              /\ pr' = [pr EXCEPT ![p] = Put(L, "ip", "notempty")]
              /\ UNCHANGED di
           \/ /\ Removable(i)
              /\ di' = [iupdate(di, c1, L.dp) EXCEPT ![d].ents[off].inum = 0]
              /\ ic' = iunlock(c1, L.dp)
              /\ pr' = [pr EXCEPT ![p] = Put(L, "dp", "unlink3")]
        /\ UNCHANGED <<files, cwd, bounds>>

notempty(p) ==
    LET L == pr[p]
    IN  /\ L.pc = "notempty"
        /\ ic' = iunlock(ic, L.dp)
        /\ pr' = [pr EXCEPT ![p] = Put(L, "dp", "idle")]
        /\ UNCHANGED <<di, files, cwd, panic, bounds>>

\* The link is gone.
unlink3(p) ==
    LET L == pr[p]
        c == [ic EXCEPT ![L.ip].nlink = @ - 1]
    IN  /\ L.pc = "unlink3"
        /\ di' = iupdate(di, c, L.ip)
        /\ ic' = iunlock(c, L.ip)
        /\ pr' = [pr EXCEPT ![p] = Put(L, "ip", "idle")]
        /\ UNCHANGED <<files, cwd, panic, bounds>>

-----------------------------------------------------------------------------
(* link() *)

\* The link is counted before there is a name.
link(p) ==
    LET L == pr[p]
        c == Load(ic, L.ip)
        c1 == [c EXCEPT ![L.ip].nlink = @ + 1]
    IN  /\ L.pc = "link" /\ CanLock(L.ip)
        /\ panic' = LockPanic(L.ip)
        /\ \/ /\ c[L.ip].type = "dir"
              /\ ic' = c
              /\ pr' = [pr EXCEPT ![p] = Put(L, "ip", "idle")]
              /\ UNCHANGED di
           \/ /\ c[L.ip].type # "dir"
              /\ di' = iupdate(di, c1, L.ip)
              /\ ic' = c1
              /\ pr' = [pr EXCEPT ![p].pc = "linkname"]
        /\ UNCHANGED <<files, cwd, bounds>>

\* nameiparent(new)
linkname(p) ==
    /\ pr[p].pc = "linkname"
    /\ Start(p, pr[p], pr[p].call.new, TRUE)
    /\ UNCHANGED <<di, files, cwd, panic, bounds>>

\* dirlink() with dp locked; an entry that exists is looked up and put.
link2(p) ==
    LET L == pr[p]
        c == ilock(ic, L.dp)
        i == dirlookup(Dir(L.dp), L.name)
    IN  /\ L.pc = "link2" /\ CanLock(L.dp)
        /\ \/ /\ i # 0
              /\ panic' = LockPanic(L.dp) \cup GetPanic(c, i)
              /\ ic' = iget(c, i)
              /\ pr' = [pr EXCEPT ![p] = Put([L EXCEPT !.wp = EntryOf(c, i)], "wp", "linkfails")]
              /\ UNCHANGED di
           \/ /\ i = 0
              /\ panic' = LockPanic(L.dp)
              /\ di' = [di EXCEPT ![ic[L.dp].inum].ents = dirlink(@, L.name, ic[L.ip].inum)]
              /\ ic' = iunlock(c, L.dp)
              /\ pr' = [pr EXCEPT ![p] = Put(L, "dp", "linked")]
        /\ UNCHANGED <<files, cwd, bounds>>

linkfailsLocked(p) ==
    /\ pr[p].pc = "linkfails"
    /\ pr' = [pr EXCEPT ![p] = Put(pr[p], "dp", "linkbad")]
    /\ UNCHANGED <<di, ic, files, cwd, panic, bounds>>
linkfails(p) ==
    LET L == pr[p]
    IN  /\ L.pc = "linkfails"
        /\ ic' = iunlock(ic, L.dp)
        /\ pr' = [pr EXCEPT ![p] = Put(L, "dp", "linkbad")]
        /\ UNCHANGED <<di, files, cwd, panic, bounds>>

\* bad: the link is not counted any more.
UncountedTwice(c, e) == [c EXCEPT ![e].nlink = @ - 2]
Uncounted(c, e) == [c EXCEPT ![e].nlink = @ - 1]
linkbad(p) ==
    LET L == pr[p]
        c == Uncounted(Load(ic, L.ip), L.ip)
    IN  /\ L.pc = "linkbad" /\ CanLock(L.ip)
        /\ panic' = LockPanic(L.ip)
        /\ di' = iupdate(di, c, L.ip)
        /\ ic' = c
        /\ pr' = [pr EXCEPT ![p] = Put(L, "ip", "idle")]
        /\ UNCHANGED <<files, cwd, bounds>>

linked(p) ==
    /\ pr[p].pc = "linked"
    /\ pr' = [pr EXCEPT ![p] = Put(pr[p], "ip", "idle")]
    /\ UNCHANGED <<di, ic, files, cwd, panic, bounds>>

-----------------------------------------------------------------------------
(* Descriptors *)

filedup(f) == [file EXCEPT ![f].ref = @ + 1]

dup(p, d) ==
    LET f == ofile[p][d]
        fds == {x \in Fds : ofile[p][x] = Nil}
    IN  /\ pr[p].pc = "idle" /\ f # Nil /\ fds # {}
        /\ nops < MaxOps
        /\ nops' = nops + 1
        /\ ofile' = [ofile EXCEPT ![p][Min(fds)] = f]
        /\ file' = filedup(f)
        /\ UNCHANGED <<di, ic, cwd, pr, panic, ncrash>>

\* The last descriptor of a file puts its inode.
LastClose(f) == file[f].ref = 1
fileclose(p, d) ==
    LET f == ofile[p][d]
    IN  /\ pr[p].pc = "idle" /\ f # Nil
        /\ panic' = IF file[f].ref < 1 THEN {"fileclose"} ELSE {}
        /\ ofile' = [ofile EXCEPT ![p][d] = Nil]
        /\ \/ /\ LastClose(f)
              /\ file' = [file EXCEPT ![f] = [ref |-> 0, ip |-> Nil]]
              /\ pr' = [pr EXCEPT ![p] = Put([Idle EXCEPT !.ip = file[f].ip], "ip", "idle")]
           \/ /\ ~LastClose(f)
              /\ file' = [file EXCEPT ![f].ref = @ - 1]
              /\ UNCHANGED pr
        /\ UNCHANGED <<di, ic, cwd, bounds>>

\* fileread(), filewrite() and filestat() lock the inode of the file.
fileio(p, d) ==
    LET e == file[ofile[p][d]].ip
    IN  /\ pr[p].pc = "idle" /\ ofile[p][d] # Nil
        /\ CanLock(e)
        /\ panic' = LockPanic(e)
        /\ ic' = Load(ic, e)
        /\ UNCHANGED <<di, files, cwd, pr, bounds>>

\* The machine stops and starts again; see the head of the module.
Crash ==
    /\ ncrash < MaxCrashes
    /\ \A p \in Procs : pr[p].pc = "idle"
    /\ ncrash' = ncrash + 1
    /\ ic' = BootCache
    /\ file' = [f \in Files |-> [ref |-> 0, ip |-> Nil]]
    /\ ofile' = [p \in Procs |-> [d \in Fds |-> Nil]]
    /\ cwd' = [p \in Procs |-> 1]
    /\ panic = {}
    /\ UNCHANGED <<di, pr, panic, nops>>

-----------------------------------------------------------------------------
\* The steps of a process inside a call.
Step(p) ==
    \/ namex(p) \/ namexEnd(p) \/ iput(p) \/ itrunc(p) \/ iput2(p)
    \/ open(p) \/ exec(p) \/ chdir(p)
    \/ create(p) \/ exists(p) \/ create2(p) \/ created(p)
    \/ unlink(p) \/ unlink2(p) \/ notempty(p) \/ unlink3(p)
    \/ link(p) \/ linkname(p) \/ link2(p) \/ linkfails(p) \/ linkbad(p) \/ linked(p)

Next ==
    \/ /\ panic = {}
       /\ \E p \in Procs :
            \/ \E call \in Calls[p] : Begin(p, call)
            \/ \E d \in Fds : dup(p, d) \/ fileclose(p, d) \/ fileio(p, d)
            \/ Step(p)
    \/ Crash

Spec == Init /\ [][Next]_vars

\* The inode that a process is about to lock.
Wanted(L) ==
    CASE L.pc = "namex" /\ L.walk # <<>> -> L.wp
      [] L.pc \in {"create", "unlink", "link2"} -> L.dp
      [] L.pc \in {"open", "exec", "chdir", "exists", "create2", "unlink2", "link", "linkbad"}
           -> L.ip
      [] OTHER -> Nil
Going(p) == pr[p].pc # "idle" /\ panic = {} /\ (Wanted(pr[p]) # Nil => CanLock(Wanted(pr[p])))

\* A process inside the kernel keeps going when its lock is free: this is
\* WF_vars(panic = {} /\ Step(p)), with ENABLED spelled out and with Step(p)
\* known by the change of pr[p] (the step that only panics ends Going(p)).
FairSpec == Spec /\ \A p \in Procs : []<>~Going(p) \/ []<><<pr[p]' # pr[p]>>_vars

-----------------------------------------------------------------------------
(* Properties *)

InodeTypes == {"none", "file", "dir", "dev"}
Pointers == Entries \cup {Nil}

\* Every variable has its type; links are never negative.
TypeOK ==
    /\ \A i \in Inums : di[i].type \in InodeTypes /\ di[i].nlink \in Nat
    /\ \A e \in Entries : ic[e].inum \in Inums \cup {0} /\ ic[e].ref \in Nat
                       /\ ic[e].type \in InodeTypes /\ ic[e].nlink \in Nat
    /\ \A f \in Files : file[f].ref \in Nat /\ file[f].ip \in Pointers
    /\ ofile \in [Procs -> [Fds -> Files \cup {Nil}]]
    /\ cwd \in [Procs -> Entries]
    /\ \A p \in Procs : pr[p].pc \in PCs /\ pr[p].k \in PCs
                     /\ {pr[p].wp, pr[p].ip, pr[p].dp, pr[p].put} \subseteq Pointers

Pointing(e) ==
    Cardinality({<<p, x>> \in Procs \X {"wp", "ip", "dp", "put"} : pr[p][x] = e})
      + Cardinality({p \in Procs : cwd[p] = e}) + Cardinality({f \in Files : file[f].ip = e})

\* ref of an inode counts the pointers to it, of open files, current
\* directories and calls under way, and ref of a file its descriptors (the
\* comments of fs.c:112 and file.h), through every error path of every call.
RefsCounted ==
    panic = {} =>
    /\ \A e \in Entries : ic[e].ref = Pointing(e)
    /\ \A f \in Files :
         file[f].ref = Cardinality({<<p, d>> \in Procs \X Fds : ofile[p][d] = f})

\* One entry per inode, and what a valid entry says of it is what the disk
\* says whenever nobody has it locked, though ialloc() may take an inode again
\* while iput() is still freeing it.
CacheCoherent ==
    \A e \in Entries : ic[e].ref > 0 =>
        /\ \A f \in Entries \ {e} : ic[f].ref > 0 => ic[f].inum # ic[e].inum
        /\ ic[e].valid /\ ~ic[e].busy => /\ ic[e].type = di[ic[e].inum].type
                                       /\ ic[e].nlink = di[ic[e].inum].nlink

\* The inode cache and the file table are sound on every path of every call:
\* the fields have their types, the counts are those of the pointers, and a
\* valid entry agrees with the disk.
CacheSound == TypeOK /\ RefsCounted /\ CacheCoherent

\* No call, in any order of the steps of several, meets a free inode, an inode
\* without links that has a name, a name twice or a locked inode to be freed:
\* the only panics are the full inode cache and the full disk.
OnlyExhaustionPanics == panic \subseteq {"iget: no inodes", "ialloc: no inodes"}

NamedIn(d) == {o \in DOMAIN di[d].ents : di[d].ents[o].inum # 0
                                      /\ di[d].ents[o].name \notin {".", ".."}}

\* A directory never has a name twice.
UniqueNames ==
    \A d \in Inums : \A o1, o2 \in NamedIn(d) :
        di[d].ents[o1].name = di[d].ents[o2].name => o1 = o2

NameCount(i) == Cardinality({<<d, o>> \in UNION {{d} \X NamedIn(d) : d \in Inums} :
                                 di[d].ents[o].inum = i})
SubdirCount(i) == Cardinality({o \in NamedIn(i) : di[di[i].ents[o].inum].type = "dir"})

\* At every moment, and so on the disk after a crash, the link count of an
\* inode covers its names and, for a directory, the ".." of the directories in
\* it: nothing that has a name is freed.
LinksCoverNames ==
    \A i \in Inums : NameCount(i) + SubdirCount(i) <= di[i].nlink

\* The directories on the disk are sound between any two steps of create(),
\* link() and unlink(): no name is there twice, and no inode has more names
\* than its link count.
TreeSound == UniqueNames /\ LinksCoverNames

Unreachable(i) ==
    /\ di[i].type # "none" /\ di[i].nlink = 0
    /\ \A e \in Entries : ~(ic[e].ref > 0 /\ ic[e].inum = i)

\* An inode without links is freed by whoever drops the last reference, on
\* every path: only a crash leaves one behind.
OnlyCrashLeaks ==
    [][\A i \in Inums : Unreachable(i)' /\ ~Unreachable(i) => ncrash' > ncrash]_vars

\* Every call returns: no two calls wait for each other's inodes and none
\* keeps a lock, whatever fails.
CallReturns == \A p \in Procs : pr[p].pc # "idle" ~> pr[p].pc = "idle" \/ panic # {}

InUse == {ic[e].inum : e \in {cwd[p] : p \in Procs}
                             \cup {file[f].ip : f \in {g \in Files : file[g].ref > 0}}}

NS == INSTANCE NameSpace WITH
          Root <- ROOTINO,
          alloc <- [i \in Inums |-> di[i].type],
          names <- UNION {{[dir |-> d, name |-> di[d].ents[o].name, inum |-> di[d].ents[o].inum] :
                              o \in NamedIn(d)} : d \in Inums},
          inuse <- InUse

\* The calls implement a name space: names change one at a time, and an inode
\* is freed only without a name and with nobody using it.
ImplementsNameSpace == NS!AbsSpec
=============================================================================
