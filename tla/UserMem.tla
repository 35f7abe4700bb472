------------------------------- MODULE UserMem -------------------------------
(***************************************************************************)
(* User memory (vm.c, growproc(), fork(), clone() and exec()): page tables *)
(* that are changed one page at a time by processes that compete for the   *)
(* last free pages and by threads that share a table without a lock, sizes *)
(* that each process and thread keeps for itself, and what the checks of   *)
(* system call arguments (syscall.c) rest on.                              *)
(*                                                                         *)
(* Addresses are scaled: PGSIZE bytes in a page, NPTENTRIES pages under a  *)
(* page-table page, user memory below KERNBASE.  kalloc() takes the least  *)
(* free page: which one it is makes no difference.  Threads can meet in    *)
(* growproc(), so allocuvm() and deallocuvm() are split wherever they test *)
(* an entry and change it later.  What works on a table that nobody else   *)
(* has (freevm(), setupkvm(), the copy that fork() makes) is not split.    *)
(*                                                                         *)
(* An operator named like the one after it, with a suffix, is that         *)
(* operator with a plausible mistake; the properties are tested on them.   *)
(***************************************************************************)
EXTENDS Integers, Sequences, FiniteSets, FiniteSetsExt, Functions

CONSTANTS
    Procs,
    NPages,       \* physical pages: 1 .. NPages
    PGSIZE, NPTENTRIES,
    KERNBASE,     \* in bytes, a multiple of NPTENTRIES * PGSIZE
    KTables,      \* page-table pages of the kernel part of a page table
    UintMod,      \* 2^32 of a uint
    Increments,   \* arguments of sbrk()
    Buffers,      \* arguments of read(), write(), open()...: the address and the bytes
    Stacks,       \* arguments of clone()
    Images,       \* exec(): the segments of the file and the bytes of the arguments
    First,        \* the process that userinit() makes
    MaxCalls      \* bound of the model: calls in a behaviour

Pages == 1 .. NPages
Vpns == 0 .. (KERNBASE \div PGSIZE) - 1
Tables == 0 .. (KERNBASE \div (PGSIZE * NPTENTRIES)) - 1
Nil == 0

ASSUME UserMemAssumption ==
    /\ NPages \in Nat /\ KTables \in Nat /\ MaxCalls \in Nat /\ First \in Procs
    /\ PGSIZE \in Nat \ {0} /\ NPTENTRIES \in Nat \ {0}
    /\ KERNBASE % (PGSIZE * NPTENTRIES) = 0 /\ UintMod >= 2 * KERNBASE
    /\ NPages >= KTables + 3

VARIABLES
    free,     \* kmem.freelist
    dirs,     \* page directories, by their page
    tabs,     \* page-table pages of user memory, by their page
    proc,     \* state, pgdir and sz of a process
    pr,       \* a call under way: see Idle
    stop,     \* the panic() or trap that has stopped the machine
    raced,    \* two threads have been in growproc() on one table at one time
    ncalls

vars == <<free, dirs, tabs, proc, pr, stop, raced, ncalls>>
mem == <<free, dirs, tabs>>

\* kern: page-table pages of the kernel part; tbl: of the user part.  odd is not
\* in the code: it records that mappages() failed inside allocuvm() ("hole"),
\* that sbrk() gave all the memory back ("emptied"), and that sbrk() was called
\* while threads shared the table, so that their sizes differ ("split").
NoDir == [kern |-> {}, tbl |-> [t \in Tables |-> Nil], odd |-> {}]

\* A page-table entry: the page, and PTE_U.
NoPte == [page |-> Nil, user |-> FALSE]
Pte(f) == [page |-> f, user |-> TRUE]
NoTab == [i \in 0 .. NPTENTRIES - 1 |-> NoPte]

Unused == [state |-> "unused", thread |-> FALSE, dir |-> Nil, sz |-> 0, stack |-> 0, sp |-> 0]

\* d, a, old and new are the page table, the next page and the sizes in
\* allocuvm(), deallocuvm() or copyuvm(), k is who called it; mem and pgtab are
\* the page to be mapped and the page-table page that was found for it; child is
\* the process fork() makes; segs and args are what exec() still has to load.
Idle == [pc |-> "idle", d |-> Nil, a |-> 0, old |-> 0, new |-> 0, k |-> "",
         mem |-> Nil, pgtab |-> Nil, child |-> First, segs |-> <<>>, args |-> 0]

Up(sz) == (sz + PGSIZE - 1) \div PGSIZE      \* PGROUNDUP, as a page number
Uint(x) == x % UintMod

\* userinit(): inituvm() maps one page.
Init ==
    /\ dirs = [f \in Pages |->
                 IF f = 1 THEN [NoDir EXCEPT !.kern = 2 .. 1 + KTables, !.tbl[0] = KTables + 2]
                 ELSE NoDir]
    /\ tabs = [f \in Pages |-> IF f = KTables + 2 THEN [NoTab EXCEPT ![0] = Pte(KTables + 3)]
                               ELSE NoTab]
    /\ free = (KTables + 4) .. NPages
    /\ proc = [p \in Procs |-> IF p # First THEN Unused
                               ELSE [Unused EXCEPT !.state = "live", !.dir = 1, !.sz = PGSIZE]]
    /\ pr = [p \in Procs |-> Idle]
    /\ stop = {} /\ raced = FALSE /\ ncalls = 0

-----------------------------------------------------------------------------
(* Page tables *)

Live(p) == proc[p].state = "live"
Ready(p) == Live(p) /\ pr[p] = Idle
Returns(p) == pr' = [pr EXCEPT ![p] = Idle]
Stops(what, p, d) == stop' = {[what |-> what, by |-> p, dir |-> d]}

\* The live processes that share the page table of p.
Sharing(p) == {q \in Procs \ {p} : Live(q) /\ proc[q].dir = proc[p].dir}

TableOf(v) == v \div NPTENTRIES
Ptx(v) == v % NPTENTRIES
Pgtab(d, v) == dirs[d].tbl[TableOf(v)]

\* walkpgdir() without alloc: the entry of page v, none if there is no table.
Entry(d, v) == IF Pgtab(d, v) = Nil THEN NoPte ELSE tabs[Pgtab(d, v)][Ptx(v)]
Mapped(d, v) == v \in Vpns /\ Entry(d, v).page # Nil

UserPages(d) == {Entry(d, v).page : v \in Vpns} \ {Nil}

\* freevm(): the pages, the page-table pages, the page directory itself.  fs and
\* ts are the free list and the page-table pages before.
TablePagesKern(d) == dirs[d].kern
TablePages(d) == dirs[d].kern \cup (Range(dirs[d].tbl) \ {Nil})
freevm(d, fs, ts) ==
    /\ free' = fs \cup UserPages(d) \cup TablePages(d) \cup {d}
    /\ dirs' = [dirs EXCEPT ![d] = NoDir]
    /\ tabs' = [f \in Pages |-> IF f \in Range(dirs[d].tbl) THEN NoTab ELSE ts[f]]

\* setupkvm(): a table that cannot be completed is never freed.
NewDir == Min(free)
SetUp == Cardinality(free) > KTables
setupkvm ==
    LET ks == {f \in free \ {NewDir} : Cardinality({g \in free : g < f}) <= KTables}
    IN  /\ IF SetUp THEN /\ free' = free \ (ks \cup {NewDir})
                         /\ dirs' = [dirs EXCEPT ![NewDir] = [NoDir EXCEPT !.kern = ks]]
                    ELSE free' = {} /\ UNCHANGED dirs
        /\ UNCHANGED tabs

-----------------------------------------------------------------------------
(* sbrk(): growproc() *)

\* A call of sbrk() that goes on to change the table: what it means for the
\* threads that share it.
Enters(p) ==
    /\ raced' = (raced \/ \E q \in Sharing(p) : pr[q].k \in {"sbrk", "shrink"})
    /\ dirs' = IF Sharing(p) = {} THEN dirs
               ELSE [dirs EXCEPT ![proc[p].dir].odd = @ \cup {"split"}]

\* n < 0: deallocuvm().
FirstFreedDown(newsz) == newsz \div PGSIZE
FirstFreed(newsz) == Up(newsz)
shrink(p, n) ==
    LET old == proc[p].sz
        new == Uint(old + n)
    IN  /\ Ready(p) /\ n < 0 /\ new < old
        /\ Enters(p)
        /\ pr' = [pr EXCEPT ![p] = [Idle EXCEPT !.pc = "free", !.d = proc[p].dir, !.k = "shrink",
                                                !.a = FirstFreed(new), !.old = old, !.new = new]]
        /\ UNCHANGED <<free, tabs, proc, stop>>

\* n > 0: allocuvm(), whose early returns change nothing.
Fits(new, old) == new < KERNBASE /\ new >= old
grow(p, n) ==
    LET old == proc[p].sz
        new == Uint(old + n)
    IN  /\ Ready(p) /\ n > 0 /\ Fits(new, old)
        /\ Enters(p)
        /\ pr' = [pr EXCEPT ![p] = [Idle EXCEPT !.pc = "alloc", !.d = proc[p].dir, !.k = "sbrk",
                                                !.a = Up(old), !.old = old, !.new = new]]
        /\ UNCHANGED <<free, tabs, proc, stop>>

-----------------------------------------------------------------------------
(* allocuvm() *)

Looping(p) == pr[p].pc = "alloc" /\ pr[p].a * PGSIZE < pr[p].new
Allocated(p) == pr[p].pc = "alloc" /\ ~(pr[p].a * PGSIZE < pr[p].new)

\* kalloc(), and the first half of walkpgdir(): the page-table page, or a new
\* one.  With no page for it mappages() fails, allocuvm() does not look at the
\* result, and nothing points to the page it was to map.
allocuvm(p) ==
    LET L == pr[p]
        page == Min(free)
        rest == free \ {page}
    IN  /\ Looping(p) /\ free # {}
        /\ \/ /\ Pgtab(L.d, L.a) # Nil
              /\ free' = rest
              /\ pr' = [pr EXCEPT ![p].pc = "map", ![p].mem = page, ![p].pgtab = Pgtab(L.d, L.a)]
              /\ UNCHANGED <<dirs, tabs>>
           \/ /\ Pgtab(L.d, L.a) = Nil /\ rest # {}
              /\ free' = rest \ {Min(rest)}
              /\ pr' = [pr EXCEPT ![p].pc = "pde", ![p].mem = page, ![p].pgtab = Min(rest)]
              /\ tabs' = [tabs EXCEPT ![Min(rest)] = NoTab]
              /\ UNCHANGED dirs
           \/ /\ Pgtab(L.d, L.a) = Nil /\ rest = {}
              /\ free' = rest
              /\ dirs' = [dirs EXCEPT ![L.d].odd = @ \cup {"hole"}]
              /\ pr' = [pr EXCEPT ![p].a = @ + 1]
              /\ UNCHANGED tabs
        /\ UNCHANGED <<proc, stop, raced>>

\* The second half of walkpgdir(): the new page-table page is entered.
walkpgdir(p) ==
    LET L == pr[p]
    IN  /\ L.pc = "pde"
        /\ dirs' = [dirs EXCEPT ![L.d].tbl[TableOf(L.a)] = L.pgtab]
        /\ pr' = [pr EXCEPT ![p].pc = "map"]
        /\ UNCHANGED <<free, tabs, proc, stop, raced>>

\* mappages(): the entry is tested...
mappages(p) ==
    LET L == pr[p]
    IN  /\ L.pc = "map"
        /\ \/ /\ tabs[L.pgtab][Ptx(L.a)] = NoPte
              /\ pr' = [pr EXCEPT ![p].pc = "pte"]
              /\ UNCHANGED stop
           \/ /\ tabs[L.pgtab][Ptx(L.a)] # NoPte
              /\ Stops("remap", p, L.d)
              /\ UNCHANGED pr
        /\ UNCHANGED <<mem, proc, raced>>

\* ...and set.
setpte(p) ==
    LET L == pr[p]
    IN  /\ L.pc = "pte"
        /\ tabs' = [tabs EXCEPT ![L.pgtab][Ptx(L.a)] = Pte(L.mem)]
        /\ pr' = [pr EXCEPT ![p].pc = "alloc", ![p].a = @ + 1, ![p].mem = Nil, ![p].pgtab = Nil]
        /\ UNCHANGED <<free, dirs, proc, stop, raced>>

UndoFrom(L) == Up(L.old)
outOfMemory(p) ==
    /\ Looping(p) /\ free = {}
    /\ pr' = [pr EXCEPT ![p].pc = "free", ![p].a = UndoFrom(pr[p])]
    /\ UNCHANGED <<mem, proc, stop, raced>>

\* growproc(): the new size is set at the end.
grown(p) ==
    /\ Allocated(p) /\ pr[p].k = "sbrk"
    /\ proc' = [proc EXCEPT ![p].sz = pr[p].new]
    /\ Returns(p)
    /\ UNCHANGED <<mem, stop, raced>>

-----------------------------------------------------------------------------
(* deallocuvm(), called by growproc() or, to give back, by allocuvm() *)

Freeing(p) == pr[p].pc = "free" /\ pr[p].a * PGSIZE < Max({pr[p].old, pr[p].new})
Freed(p) == pr[p].pc = "free" /\ ~(pr[p].a * PGSIZE < Max({pr[p].old, pr[p].new}))

\* One turn up to kfree().  Where there is no page-table page it goes NPTENTRIES
\* pages on.
deallocuvm(p) ==
    LET L == pr[p]
        f == Entry(L.d, L.a).page
    IN  /\ Freeing(p)
        /\ \/ /\ f = Nil
              /\ pr' = [pr EXCEPT ![p].a = @ + (IF Pgtab(L.d, L.a) = Nil THEN NPTENTRIES ELSE 1)]
              /\ UNCHANGED <<free, stop>>
           \/ /\ f # Nil /\ f \notin free
              /\ free' = free \cup {f}
              /\ pr' = [pr EXCEPT ![p].pc = "clear", ![p].pgtab = Pgtab(L.d, L.a)]
              /\ UNCHANGED stop
           \/ /\ f \in free      \* the free list becomes a cycle
              /\ Stops("freed twice", p, L.d)
              /\ UNCHANGED <<free, pr>>
        /\ UNCHANGED <<dirs, tabs, proc, raced>>

\* The entry is cleared.
clearpte(p) ==
    LET L == pr[p]
    IN  /\ L.pc = "clear"
        /\ tabs' = [tabs EXCEPT ![L.pgtab][Ptx(L.a)] = NoPte]
        /\ pr' = [pr EXCEPT ![p].pc = "free", ![p].a = @ + 1, ![p].pgtab = Nil]
        /\ UNCHANGED <<free, dirs, proc, stop, raced>>

\* growproc(): a result of 0 is taken for a failure, the pages are gone and sz
\* stays.  After a failure of allocuvm() sz stays too; exec() frees the table.
shrunk(p) ==
    LET L == pr[p]
    IN  /\ Freed(p) /\ L.k \in {"shrink", "sbrk"}
        /\ \/ /\ L.k = "shrink" /\ L.new = 0
              /\ dirs' = [dirs EXCEPT ![L.d].odd = @ \cup {"emptied"}]
              /\ UNCHANGED proc
           \/ /\ L.k = "shrink" /\ L.new # 0
              /\ proc' = [proc EXCEPT ![p].sz = L.new]
              /\ UNCHANGED dirs
           \/ L.k = "sbrk" /\ UNCHANGED <<dirs, proc>>
        /\ Returns(p)
        /\ UNCHANGED <<free, tabs, stop, raced>>

-----------------------------------------------------------------------------
(* fork(), clone(), and the end of a process *)

fork(p, q) ==
    /\ Ready(p) /\ proc[q] = Unused
    /\ setupkvm
    /\ \/ /\ SetUp
          /\ proc' = [proc EXCEPT ![q].state = "embryo"]
          /\ pr' = [pr EXCEPT ![p] = [Idle EXCEPT !.pc = "copy", !.d = NewDir, !.new = proc[p].sz,
                                                  !.child = q]]
       \/ ~SetUp /\ UNCHANGED <<proc, pr>>
    /\ UNCHANGED <<stop, raced>>

Copying(p) == pr[p].pc = "copy" /\ pr[p].a * PGSIZE < pr[p].new

\* One turn of copyuvm(): a page, and a page-table page where there is none.
\* Without it the page is lost.  A page the parent does not have is a panic.
copyuvm(p) ==
    LET L == pr[p]
        from == Entry(proc[p].dir, L.a)
        page == Min(free)
        rest == free \ {page}
        t == IF Pgtab(L.d, L.a) # Nil THEN Pgtab(L.d, L.a) ELSE Min(rest)
        full == free = {} \/ (Pgtab(L.d, L.a) = Nil /\ Cardinality(free) = 1)
    IN  /\ Copying(p)
        /\ \/ /\ from = NoPte
              /\ Stops("copyuvm", p, proc[p].dir)
              /\ UNCHANGED <<mem, pr, proc>>
           \/ /\ from # NoPte /\ full
              /\ freevm(L.d, {}, tabs)
              /\ proc' = [proc EXCEPT ![L.child] = Unused]
              /\ Returns(p)
              /\ UNCHANGED stop
           \/ /\ from # NoPte /\ ~full
              /\ free' = rest \ {t}
              /\ dirs' = [dirs EXCEPT ![L.d].tbl[TableOf(L.a)] = t]
              /\ tabs' = [tabs EXCEPT ![t][Ptx(L.a)] = [from EXCEPT !.page = page]]
              /\ pr' = [pr EXCEPT ![p].a = @ + 1]
              /\ UNCHANGED <<proc, stop>>
        /\ UNCHANGED raced

forked(p) ==
    LET L == pr[p]
    IN  /\ L.pc = "copy" /\ ~Copying(p)
        /\ proc' = [proc EXCEPT ![L.child] = [proc[p] EXCEPT !.dir = L.d, !.sz = L.new,
                                                             !.thread = FALSE]]
        /\ Returns(p)
        /\ UNCHANGED <<mem, stop, raced>>

\* The kernel reads or writes n bytes at a of the memory of p: a page that is
\* not there is a trap in the kernel.
Touches(p, a, n) == \A v \in (a \div PGSIZE) .. Up(a + n) - 1 : Mapped(proc[p].dir, v)

\* sys_clone() checks that the first word at stack is below sz.
sys_clone(p, stack) ==
    /\ Ready(p)
    /\ stack < proc[p].sz /\ Uint(stack + 1) <= proc[p].sz
    /\ pr' = [pr EXCEPT ![p] = [Idle EXCEPT !.pc = "clone", !.a = stack]]
    /\ UNCHANGED <<mem, proc, stop, raced>>

\* clone() writes the argument and the return address at the end of the page
\* that starts at stack, and copies that page to itself.
clone(p, q) ==
    /\ pr[p].pc = "clone" /\ proc[q] = Unused
    /\ \/ /\ Touches(p, pr[p].a, PGSIZE)
          /\ proc' = [proc EXCEPT ![q] = [proc[p] EXCEPT !.thread = TRUE]]
          /\ Returns(p)
          /\ UNCHANGED stop
       \/ /\ ~Touches(p, pr[p].a, PGSIZE)
          /\ Stops("clone", p, proc[p].dir)
          /\ UNCHANGED <<proc, pr>>
    /\ UNCHANGED <<mem, raced>>

\* clone() finds no slot.
noSlot(p) ==
    /\ pr[p].pc = "clone" /\ \A q \in Procs : proc[q] # Unused
    /\ Returns(p)
    /\ UNCHANGED <<mem, proc, stop, raced>>

\* exit(), and join() of a thread, or wait() for a process, which frees the
\* page table.  The threads of a process are joined first; Proc has the other
\* order.
leave(p) ==
    LET d == proc[p].dir
    IN  /\ Ready(p) /\ p # First
        /\ proc' = [proc EXCEPT ![p] = Unused]
        /\ \/ proc[p].thread /\ UNCHANGED mem
           \/ ~proc[p].thread /\ Sharing(p) = {} /\ freevm(d, free, tabs)
        /\ UNCHANGED <<pr, stop, raced>>

-----------------------------------------------------------------------------
(* exec(), in a process without threads.  The new table is its own.          *)

exec(p, im) ==
    /\ Ready(p) /\ Sharing(p) = {}
    /\ setupkvm
    /\ \/ /\ SetUp
          /\ pr' = [pr EXCEPT ![p] = [Idle EXCEPT !.pc = "segment", !.d = NewDir,
                                                  !.segs = im.segs, !.args = im.args]]
       \/ ~SetUp /\ UNCHANGED pr
    /\ UNCHANGED <<proc, stop, raced>>

\* goto bad
execBad(p) == freevm(pr[p].d, free, tabs) /\ Returns(p) /\ UNCHANGED stop

\* The next segment: allocuvm() up to its end, which is a uint.
segmentBad(L) ==
    LET s == Head(L.segs)
    IN  s.memsz < s.filesz \/ Uint(s.vaddr + s.memsz) >= KERNBASE
execSegment(p) ==
    LET L == pr[p]
        end == Uint(Head(L.segs).vaddr + Head(L.segs).memsz)
    IN  /\ L.pc = "segment" /\ L.segs # <<>>
        /\ \/ segmentBad(L) /\ execBad(p)
           \/ /\ ~segmentBad(L)
              /\ pr' = [pr EXCEPT ![p].pc = "alloc", ![p].k = "image", ![p].a = Up(L.new),
                                  ![p].old = L.new, ![p].new = Max({end, L.new})]
              /\ UNCHANGED <<mem, stop>>
        /\ UNCHANGED <<proc, raced>>

\* loaduvm(): the pages must start at a page boundary and have a page-table
\* page; where there is one but no page, or in the kernel, the file is read
\* over other memory.  readi() may find the file too short.
Unaligned(s) == s.vaddr % PGSIZE # 0
LoadPages(s) == {(s.vaddr \div PGSIZE) + i : i \in 0 .. Up(s.filesz) - 1}
execLoad(p) ==
    LET L == pr[p]
        s == Head(L.segs)
        panics == Unaligned(s) \/ \E v \in LoadPages(s) \cap Vpns : Pgtab(L.d, v) = Nil
    IN  /\ Allocated(p) /\ L.k = "image"
        /\ \/ L.new = 0 /\ execBad(p)
           \/ /\ L.new # 0 /\ panics
              /\ Stops("loaduvm", p, L.d)
              /\ UNCHANGED <<mem, pr>>
           \/ /\ L.new # 0 /\ ~panics /\ \E v \in LoadPages(s) : ~Mapped(L.d, v)
              /\ Stops("overwritten", p, L.d)
              /\ UNCHANGED <<mem, pr>>
           \/ /\ L.new # 0 /\ ~panics /\ \A v \in LoadPages(s) : Mapped(L.d, v)
              /\ \/ s.filesz # 0 /\ execBad(p)
                 \/ /\ pr' = [pr EXCEPT ![p].pc = "segment", ![p].segs = Tail(@)]
                    /\ UNCHANGED <<mem, stop>>
        /\ UNCHANGED <<proc, raced>>

\* Two pages for the stack.
execStack(p) ==
    LET L == pr[p]
        sz == Up(L.new) * PGSIZE
    IN  /\ L.pc = "segment" /\ L.segs = <<>>
        /\ \/ sz + 2 * PGSIZE >= KERNBASE /\ execBad(p)
           \/ /\ sz + 2 * PGSIZE < KERNBASE
              /\ pr' = [pr EXCEPT ![p].pc = "alloc", ![p].k = "stack", ![p].a = Up(L.new),
                                  ![p].old = sz, ![p].new = sz + 2 * PGSIZE]
              /\ UNCHANGED <<mem, stop>>
        /\ UNCHANGED <<proc, raced>>

\* deallocuvm() inside allocuvm() is done.
execUndone(p) ==
    /\ Freed(p) /\ pr[p].k \in {"image", "stack"}
    /\ execBad(p)
    /\ UNCHANGED <<proc, raced>>

\* clearpteu(): the page under the stack is not the user's.  copyout() of the
\* arguments below the end of the stack needs pages of the user; without a
\* page-table page uva2ka() reads no entry at all.  Then the new page table
\* replaces the old one.
copyout(d, guard, va, len) ==
    \A v \in (va \div PGSIZE) .. Up(va + len) - 1 : Entry(d, v).user /\ v # guard
execDone(p) ==
    LET L == pr[p]
        d == L.d
        old == proc[p].dir
        guard == (L.new \div PGSIZE) - 2
        t == Pgtab(d, guard)
        ok == L.args <= L.new /\ copyout(d, guard, L.new - L.args, L.args)
        missing == t = Nil \/ Pgtab(d, guard + 1) = Nil
    IN  /\ Allocated(p) /\ L.k = "stack"
        /\ \/ /\ missing
              /\ Stops("clearpteu", p, d)
              /\ UNCHANGED <<mem, pr, proc>>
           \/ /\ ~missing /\ ok
              /\ freevm(old, free, [tabs EXCEPT ![t][Ptx(guard)].user = FALSE])
              /\ proc' = [proc EXCEPT ![p].dir = d, ![p].sz = L.new,
                                      ![p].stack = L.new - PGSIZE, ![p].sp = L.new - L.args]
              /\ Returns(p)
              /\ UNCHANGED stop
           \/ ~missing /\ ~ok /\ execBad(p) /\ UNCHANGED proc
        /\ UNCHANGED raced

-----------------------------------------------------------------------------
(* Arguments in user memory: checked by argint(), argptr() and argstr(), used *)
(* by the rest of the call, which other processes may run in between.         *)

argptr(p, b) ==
    LET sz == proc[p].sz
    IN  /\ Ready(p)
        /\ b.addr < sz /\ Uint(b.addr + b.n) <= sz
        /\ pr' = [pr EXCEPT ![p] = [Idle EXCEPT !.pc = "use", !.a = b.addr, !.new = b.n]]
        /\ UNCHANGED <<mem, proc, stop, raced>>

\* fetchstr() reads up to the end of the string, or up to sz if that comes
\* first, and the call fails.
argstr(p, b) ==
    LET sz == proc[p].sz
        ends == b.addr + b.n <= sz
        there == Touches(p, b.addr, IF ends THEN b.n ELSE sz - b.addr)
    IN  /\ Ready(p)
        /\ b.addr < sz
        /\ \/ ~there /\ Stops("trap", p, proc[p].dir) /\ UNCHANGED pr
           \/ /\ there /\ ends
              /\ pr' = [pr EXCEPT ![p] = [Idle EXCEPT !.pc = "use", !.a = b.addr, !.new = b.n]]
              /\ UNCHANGED stop
           \/ there /\ ~ends /\ UNCHANGED <<pr, stop>>
        /\ UNCHANGED <<mem, proc, raced>>

use(p) ==
    LET there == Touches(p, pr[p].a, pr[p].new)
    IN  /\ pr[p].pc = "use"
        /\ \/ there /\ Returns(p) /\ UNCHANGED stop
           \/ ~there /\ Stops("trap", p, proc[p].dir) /\ UNCHANGED pr
        /\ UNCHANGED <<mem, proc, raced>>

-----------------------------------------------------------------------------
\* The calls, and what they go on with.
Call(p) ==
    \/ \E n \in Increments : shrink(p, n) \/ grow(p, n)
    \/ \E q \in Procs : fork(p, q)
    \/ \E a \in Stacks : sys_clone(p, a)
    \/ \E im \in Images : exec(p, im)
    \/ \E b \in Buffers : argptr(p, b) \/ argstr(p, b)
    \/ leave(p)
Step(p) ==
    \/ allocuvm(p) \/ walkpgdir(p) \/ mappages(p) \/ setpte(p) \/ outOfMemory(p) \/ grown(p)
    \/ deallocuvm(p) \/ clearpte(p) \/ shrunk(p)
    \/ copyuvm(p) \/ forked(p)
    \/ (\E q \in Procs : clone(p, q)) \/ noSlot(p)
    \/ execSegment(p) \/ execLoad(p) \/ execStack(p) \/ execUndone(p) \/ execDone(p)
    \/ use(p)

Next ==
    /\ stop = {}
    /\ \E p \in Procs :
         \/ ncalls < MaxCalls /\ ncalls' = ncalls + 1 /\ Call(p)
         \/ Step(p) /\ UNCHANGED ncalls

Spec == Init /\ [][Next]_vars

-----------------------------------------------------------------------------
(* Properties *)

\* Every variable has its type.
TypeOK ==
    /\ free \subseteq Pages /\ raced \in BOOLEAN
    /\ \A f \in Pages : /\ Range(dirs[f].tbl) \cup dirs[f].kern \subseteq Pages \cup {Nil}
                        /\ \A e \in Range(tabs[f]) : e.page \in Pages \cup {Nil}
    /\ \A p \in Procs : /\ proc[p].state \in {"unused", "embryo", "live"}
                        /\ proc[p].sz \in 0 .. KERNBASE - 1
                        /\ Live(p) => proc[p].dir \in Pages

\* Page tables in use: of processes, and those that fork() and exec() build.
\* What points to a page: an entry that deallocuvm() is about to clear does not
\* count any more, a page that allocuvm() holds does.
InUse == ({proc[p].dir : p \in Procs} \cup {pr[p].d : p \in Procs}) \ {Nil}
Clearing(d, v) == \E p \in Procs : pr[p].pc = "clear" /\ pr[p].d = d /\ pr[p].a = v
Owners ==
    {<<"dir", d, d>> : d \in InUse}
    \cup UNION {{<<"kern", d, f>> : f \in dirs[d].kern} : d \in InUse}
    \cup {<<"tbl", x, dirs[x[1]].tbl[x[2]]>> : x \in InUse \X Tables}
    \cup {<<"pte", x, Entry(x[1], x[2]).page>> :
              x \in {y \in InUse \X Vpns : ~Clearing(y[1], y[2])}}
    \cup {<<"mem", p, pr[p].mem>> : p \in Procs}
    \cup {<<"new", p, pr[p].pgtab>> : p \in {q \in Procs : pr[q].pc = "pde"}}
Owned == {x \in Owners : x[3] # Nil}

\* A page is in one place: free, a page directory, a page-table page or one page
\* of one process, through every failure half-way of fork(), exec() and sbrk();
\* no two processes have a page in common.  Two threads that are in growproc()
\* on one table at one time end this: both can free a page, or enter one over
\* the other's.
PagesOwnedOnce ==
    raced \/ (/\ Cardinality({x[3] : x \in Owned}) = Cardinality(Owned)
              /\ \A x \in Owned : x[3] \notin free)

\* Exactly the pages below sz are mapped, in a process and its threads, unless
\* sbrk() was called with threads there, allocuvm() failed to map or the memory
\* shrank to 0: then a pointer that argptr() or argstr() accept, and a page that
\* fork() copies, is there.
BelowSzMapped ==
    raced \/ \A p \in Procs : Live(p) /\ pr[p].k \notin {"sbrk", "shrink"} /\ dirs[proc[p].dir].odd = {} =>
        \A v \in Vpns : v * PGSIZE < proc[p].sz <=> Mapped(proc[p].dir, v)

\* The arguments of a program are in its stack page, above the guard page:
\* exec() fails when they do not fit.
ArgsAboveGuard == \A p \in Procs : Live(p) => proc[p].sp >= proc[p].stack

\* Memory is sound whatever call fails and where: pages have one owner, the
\* pages below sz are there, and arguments stay above the guard page.
MemorySound == TypeOK /\ PagesOwnedOnce /\ BelowSzMapped /\ ArgsAboveGuard

\* What stops the machine in vm.c, in clone() or on a system call argument has
\* one of these reasons: threads that called sbrk() while they shared the table
\* (so that a size is stale), a hole that allocuvm() left, a memory that shrank
\* to 0; a segment that does not start at a page or whose end wraps; a thread
\* stack whose page is not all below sz, of which sys_clone() checks one word;
\* two threads that free a page at one time.  Sharing alone is no reason.
WrapsOrUnaligned(s) == Unaligned(s) \/ s.vaddr + s.memsz >= UintMod

\* A page that nothing points to any more was lost for want of memory, or by
\* two threads that were in growproc() on one table at one time.
Lost == Pages \ (free \cup {x[3] : x \in Owned})
LostOnlyWhenFull == [][raced' \/ Cardinality(free) <= KTables + 1 \/ Lost' \subseteq Lost]_vars
=============================================================================
