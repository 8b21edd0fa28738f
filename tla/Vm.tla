--------------------------------- MODULE Vm ---------------------------------
(***************************************************************************)
(* Physical pages and page tables: kernel/kalloc.c, kernel/vm.c, and their *)
(* users fork(), exec(), growproc() and freeproc().  A process's page      *)
(* table is its own, so processes meet only in kalloc() and kfree(): each  *)
(* kalloc() is a step, which fails if the others have taken the last page. *)
(* Pages that are freed together are freed in one step.  Physical pages    *)
(* differ only in what they hold: the free list is a number, and a page    *)
(* in use is known by the place that refers to it.                         *)
(***************************************************************************)
EXTENDS Integers, Sequences, FiniteSets, Functions

CONSTANTS NPROC, NPAGE, PGSIZE,
          PTES,    \* entries of a last-level page-table page
          MAXARG,
          Images,  \* programs: for each segment, the address where it ends
          Deltas,  \* arguments of sbrk()
          Stored,  \* the pages that programs and copyout() store to
          None

ASSUME VmAssumption ==
  /\ NPROC \in Nat \ {0} /\ NPAGE \in Nat /\ NPAGE > 6 /\ PGSIZE \in Nat \ {0}
  /\ PTES \in Nat \ {0} /\ MAXARG \in Nat \ {0}
  /\ Images \subseteq Seq(Nat) /\ Deltas \subseteq Int \ {0}
  /\ Stored \subseteq Nat

Slot == 1 .. NPROC
VPage == 0 .. NPAGE - 5
Byte == {"zero", "a", "b"}

\* The page tables: that of each process, and the one that its exec() builds.
Space == Slot \X {"pagetable", "exec"}

\* Page-table pages: the root, and one per table of the two levels below, for
\* low addresses and for the trampoline and trapframe pages at the top
Root == <<"L2", 0>>
Low(v) == <<<<"L1", 0>>, <<"L0", v \div PTES>>>>
High == <<<<"L1", 1>>, <<"L0", -1>>>>
Node == {Root, <<"L1", 0>>, <<"L1", 1>>} \cup {<<"L0", i>> : i \in -1 .. (NPAGE - 5) \div PTES}

VARIABLES
  nfree,            \* the length of kmem.freelist
  node, leaf,       \* the page-table pages of each page table, and what each of
                    \* its user pages holds, "none" if there is no page
  guard, fixed,     \* pages without PTE_U; trampoline and trapframe are mapped
  state, tf, sz,    \* of each process: state, trapframe and sz
  pc, job, child,   \* what it does: which call, and fork()'s np
  argv,             \* sys_exec(): how many argument pages it has
  seg, esz,         \* exec(): segments still to load, and its sz
  from, a, end, mem,  \* locals of uvmalloc() and uvmcopy()
  panicked

tables == <<node, leaf, guard, fixed>>
procs == <<state, tf, sz>>
locals == <<pc, job, child, argv, seg, esz, from, a, end, mem>>
vars == <<nfree, tables, procs, locals, panicked>>

Pages(n) == (n + PGSIZE - 1) \div PGSIZE   \* PGROUNDUP(n) / PGSIZE
NoLeaves == [v \in VPage |-> "none"]

-----------------------------------------------------------------------------
(* kalloc() and kfree()                                                    *)

kalloc == nfree > 0 /\ nfree' = nfree - 1
kfree(n) == nfree' = nfree + n

At(p, l) == panicked = "no" /\ pc[p] = l
Goto(p, l) == pc' = [pc EXCEPT ![p] = l]

\* The page table that p's call is filling
Target(p) ==
  CASE job[p] = "fork" -> <<child[p], "pagetable">> [] job[p] = "exec" -> <<p, "exec">>
    [] OTHER -> <<p, "pagetable">>

\* p's call returns; its locals are gone.  The arguments of exec() are left.
Return(p) ==
  /\ Goto(p, IF argv[p] > 0 THEN "bad" ELSE "idle") /\ UNCHANGED argv
  /\ job' = [job EXCEPT ![p] = "none"]
  /\ child' = [child EXCEPT ![p] = 0]
  /\ seg' = [seg EXCEPT ![p] = <<>>] /\ esz' = [esz EXCEPT ![p] = 0]
  /\ from' = [from EXCEPT ![p] = 0] /\ a' = [a EXCEPT ![p] = 0]
  /\ end' = [end EXCEPT ![p] = 0] /\ mem' = [mem EXCEPT ![p] = "none"]

-----------------------------------------------------------------------------
(* uvmunmap(), freewalk(), uvmfree(), proc_freepagetable()                 *)

Mapped(L, lo, hi) == {v \in VPage \cap (lo .. hi - 1) : L[v] # "none"}
Unmapped(L, lo, hi) == [v \in VPage |-> IF v \in lo .. hi - 1 THEN "none" ELSE L[v]]
UnmapPanics(L, lo, hi) == \E v \in lo .. hi - 1 : L[v] = "none"

\* uvmfree(s, n), where s has the leaves L
UvmfreePages(s, L, n) == Cardinality(Mapped(L, 0, Pages(n))) + Cardinality(node[s])
UvmfreePanics(L, n) == UnmapPanics(L, 0, Pages(n)) \/ Unmapped(L, 0, Pages(n)) # NoLeaves

\* Page table s is gone.
Clear(s) ==
  /\ node' = [node EXCEPT ![s] = {}] /\ leaf' = [leaf EXCEPT ![s] = NoLeaves]
  /\ guard' = [guard EXCEPT ![s] = {}] /\ fixed' = [fixed EXCEPT ![s] = FALSE]

\* freeproc(q) when q's page table has the leaves L; with n pages freed before
Freeproc(q, L, n) ==
  LET s == <<q, "pagetable">> IN
  /\ kfree(n + (IF tf[q] THEN 1 ELSE 0) + UvmfreePages(s, L, sz[q]))
  /\ panicked' = IF Root \in node[s] /\ (~fixed[s] \/ UvmfreePanics(L, sz[q]))
                 THEN "freeproc" ELSE "no"
  /\ Clear(s)
  /\ state' = [state EXCEPT ![q] = "UNUSED"] /\ tf' = [tf EXCEPT ![q] = FALSE]
  /\ sz' = [sz EXCEPT ![q] = 0]

\* Parent's wait() for q, which has exited
freeproc(q) ==
  /\ At(q, "idle") /\ state[q] = "RUNNABLE" /\ q # 1
  /\ Freeproc(q, leaf[<<q, "pagetable">>], 0)
  /\ UNCHANGED locals

-----------------------------------------------------------------------------
(* What becomes of a call when kalloc() fails, or exec() finds a bad file. *)

\* uvmalloc() and uvmcopy() undo what they have mapped and free mem; then the
\* caller gives up its page table (fork, exec) or keeps it (growproc).
Leaves(p) == leaf[Target(p)]
Undone(p) == Unmapped(Leaves(p), from[p], a[p])

UndonePages(p) ==
  Cardinality(Mapped(Leaves(p), from[p], a[p])) + (IF mem[p] = "none" THEN 0 ELSE 1)

growproc_fails(p) ==
  /\ job[p] = "sbrk" /\ kfree(UndonePages(p))
  /\ leaf' = [leaf EXCEPT ![Target(p)] = Undone(p)]
  /\ UNCHANGED <<node, guard, fixed, procs, panicked>>

fork_fails(p) ==
  /\ job[p] = "fork" /\ Freeproc(child[p], Undone(p), UndonePages(p))

MutantExecFails(p) ==               \* sz is set before uvmalloc() has succeeded
  /\ job[p] = "exec" /\ kfree(UndonePages(p) + UvmfreePages(Target(p), Undone(p), end[p]))
  /\ panicked' = IF fixed[Target(p)] /\ ~UvmfreePanics(Undone(p), end[p])
                 THEN "no" ELSE "exec"
  /\ Clear(Target(p)) /\ UNCHANGED procs

\* bad: in exec(): proc_freepagetable(pagetable, sz)
exec_fails(p) ==
  /\ job[p] = "exec" /\ kfree(UndonePages(p) + UvmfreePages(Target(p), Undone(p), esz[p]))
  /\ panicked' = IF fixed[Target(p)] /\ ~UvmfreePanics(Undone(p), esz[p])
                 THEN "no" ELSE "exec"
  /\ Clear(Target(p)) /\ UNCHANGED procs

\* proc_pagetable() gives its page table up and returns 0.
proc_pagetable_fails(p) ==
  /\ kfree(Cardinality(node[Target(p)]) + (IF job[p] = "fork" THEN 1 ELSE 0))
  /\ Clear(Target(p))
  /\ state' = IF job[p] = "fork" THEN [state EXCEPT ![child[p]] = "UNUSED"] ELSE state
  /\ tf' = IF job[p] = "fork" THEN [tf EXCEPT ![child[p]] = FALSE] ELSE tf
  /\ UNCHANGED <<sz, panicked>>

Fails(p) ==
  /\ \/ pc[p] \in {"uvmcreate", "map_tramp"} /\ proc_pagetable_fails(p)
     \/ /\ pc[p] \notin {"uvmcreate", "map_tramp"}
        /\ growproc_fails(p) \/ fork_fails(p) \/ exec_fails(p)
  /\ Return(p)

\* The loop of uvmalloc() and uvmcopy(), for addresses lo to hi
Loop(p, lo, hi) ==
  /\ from' = [from EXCEPT ![p] = Pages(lo)] /\ a' = [a EXCEPT ![p] = Pages(lo)]
  /\ end' = [end EXCEPT ![p] = hi] /\ Goto(p, "alloc")

-----------------------------------------------------------------------------
(* The start of a call                                                     *)

Idle(p) == At(p, "idle") /\ state[p] = "RUNNABLE"

fork(p) ==
  LET unused == {q \in Slot : state[q] = "UNUSED"} IN
  /\ Idle(p) /\ unused # {}
  /\ LET q == CHOOSE q \in unused : \A r \in unused : q <= r IN
     /\ child' = [child EXCEPT ![p] = q] /\ state' = [state EXCEPT ![q] = "USED"]
  /\ job' = [job EXCEPT ![p] = "fork"] /\ Goto(p, "trapframe")
  /\ UNCHANGED <<nfree, tables, tf, sz, argv, seg, esz, from, a, end, mem, panicked>>

\* sys_exec(): a page for each argument, which may be anywhere the process can
\* read; copyinstr() may find no end to it, fetchaddr() no argument, or exec()
\* no program.
sys_exec(p, img) ==
  /\ Idle(p)
  /\ job' = [job EXCEPT ![p] = "exec"] /\ seg' = [seg EXCEPT ![p] = img]
  /\ Goto(p, "argv")
  /\ UNCHANGED <<nfree, tables, procs, child, argv, esz, from, a, end, mem, panicked>>

walkaddr(s, v) == leaf[s][v] # "none" /\ v \notin guard[s]
copyinstr(s) == \E v \in VPage : walkaddr(s, v)

sys_exec_arg(p) ==
  /\ At(p, "argv") /\ argv[p] < MAXARG /\ copyinstr(<<p, "pagetable">>)
  /\ kalloc /\ argv' = [argv EXCEPT ![p] = @ + 1]
  /\ UNCHANGED <<tables, procs, pc, job, child, seg, esz, from, a, end, mem, panicked>>
sys_exec_bad(p) ==
  /\ At(p, "argv") /\ Return(p) /\ UNCHANGED <<nfree, tables, procs, panicked>>

exec(p) ==
  /\ At(p, "argv") /\ argv[p] < MAXARG /\ Goto(p, "uvmcreate")
  /\ UNCHANGED <<nfree, tables, procs, job, child, argv, seg, esz, from, a, end, mem, panicked>>

\* After exec(), or at bad:
sys_exec_end(p) ==
  /\ At(p, "bad") /\ kfree(argv[p]) /\ argv' = [argv EXCEPT ![p] = 0] /\ Goto(p, "idle")
  /\ UNCHANGED <<tables, procs, job, child, seg, esz, from, a, end, mem, panicked>>

growproc(p, n) ==
  /\ Idle(p) /\ n > 0
  /\ job' = [job EXCEPT ![p] = "sbrk"] /\ Loop(p, sz[p], sz[p] + n)
  /\ UNCHANGED <<nfree, tables, procs, child, argv, seg, esz, mem, panicked>>

\* sz + n is a uint64: below zero it is a large number, and nothing is freed.
uvmdealloc(p, n) ==
  LET s == <<p, "pagetable">>  lo == Pages(sz[p] + n)  hi == Pages(sz[p]) IN
  /\ Idle(p) /\ n < 0 /\ sz[p] + n >= 0
  /\ kfree(Cardinality(Mapped(leaf[s], lo, hi)))
  /\ panicked' = IF UnmapPanics(leaf[s], lo, hi) THEN "uvmunmap" ELSE "no"
  /\ leaf' = [leaf EXCEPT ![s] = Unmapped(@, lo, hi)]
  /\ guard' = [guard EXCEPT ![s] = @ \ (lo .. hi - 1)]
  /\ sz' = [sz EXCEPT ![p] = @ + n]
  /\ UNCHANGED <<node, fixed, state, tf, locals>>

-----------------------------------------------------------------------------
(* A new page table                                                        *)

trapframe(p) ==
  /\ At(p, "trapframe")
  /\ IF nfree = 0
     THEN /\ state' = [state EXCEPT ![child[p]] = "UNUSED"] /\ Return(p)
          /\ UNCHANGED <<nfree, tf>>
     ELSE /\ kalloc /\ tf' = [tf EXCEPT ![child[p]] = TRUE]
          /\ Goto(p, "uvmcreate")
          /\ UNCHANGED <<state, job, child, argv, seg, esz, from, a, end, mem>>
  /\ UNCHANGED <<tables, sz, panicked>>

uvmcreate(p) ==
  /\ At(p, "uvmcreate")
  /\ IF nfree = 0 THEN Fails(p)
     ELSE /\ kalloc /\ node' = [node EXCEPT ![Target(p)] = {Root}]
          /\ Goto(p, "map_tramp")
          /\ UNCHANGED <<leaf, guard, fixed, procs, job, child, argv, seg, esz, from, a, end, mem, panicked>>

\* walk(): the next page-table page on the way is missing.
Way(p) == IF pc[p] = "map_tramp" THEN High ELSE Low(a[p])
Missing(p) == {i \in 1 .. 2 : Way(p)[i] \notin node[Target(p)]}

walk(p) ==
  /\ panicked = "no" /\ pc[p] \in {"map_tramp", "mappages"} /\ Missing(p) # {}
  /\ IF nfree = 0 THEN Fails(p)
     ELSE LET i == CHOOSE i \in Missing(p) : \A j \in Missing(p) : i <= j IN
          /\ kalloc /\ node' = [node EXCEPT ![Target(p)] = @ \cup {Way(p)[i]}]
          /\ UNCHANGED <<leaf, guard, fixed, procs, locals, panicked>>

\* The trampoline and trapframe pages share their page-table pages.
proc_pagetable(p) ==
  /\ At(p, "map_tramp") /\ Missing(p) = {}
  /\ fixed' = [fixed EXCEPT ![Target(p)] = TRUE]
  /\ IF job[p] = "fork" THEN Loop(p, 0, sz[p]) ELSE Goto(p, "load") /\ UNCHANGED <<from, a, end>>
  /\ UNCHANGED <<nfree, node, leaf, guard, procs, job, child, argv, seg, esz, mem, panicked>>

-----------------------------------------------------------------------------
(* uvmalloc() and uvmcopy()                                                *)

More(p) == a[p] * PGSIZE < end[p]

uvmalloc(p) ==
  /\ At(p, "alloc") /\ More(p) /\ job[p] # "fork"
  /\ IF nfree = 0 THEN Fails(p)
     ELSE /\ kalloc /\ mem' = [mem EXCEPT ![p] = "zero"] /\ Goto(p, "mappages")
          /\ UNCHANGED <<tables, procs, job, child, argv, seg, esz, from, a, end, panicked>>

MutantUvmcopy(p) ==                 \* no memmove()
  /\ At(p, "alloc") /\ More(p) /\ job[p] = "fork"
  /\ IF nfree = 0 THEN Fails(p)
     ELSE /\ kalloc /\ mem' = [mem EXCEPT ![p] = "junk"] /\ Goto(p, "mappages")
          /\ UNCHANGED <<tables, procs, job, child, argv, seg, esz, from, a, end, panicked>>

uvmcopy(p) ==
  LET pa == leaf[<<p, "pagetable">>][a[p]] IN
  /\ At(p, "alloc") /\ More(p) /\ job[p] = "fork"
  /\ IF nfree = 0 THEN Fails(p)
     ELSE /\ kalloc /\ mem' = [mem EXCEPT ![p] = pa] /\ Goto(p, "mappages")
          /\ panicked' = IF pa = "none" THEN "uvmcopy" ELSE "no"
          /\ UNCHANGED <<tables, procs, job, child, argv, seg, esz, from, a, end>>

mappages(p) ==
  LET s == Target(p) IN
  /\ At(p, "mappages") /\ Missing(p) = {}
  /\ panicked' = IF leaf[s][a[p]] = "none" THEN "no" ELSE "remap"
  /\ leaf' = [leaf EXCEPT ![s][a[p]] = mem[p]]
  /\ guard' = IF job[p] = "fork" /\ a[p] \in guard[<<p, "pagetable">>]
              THEN [guard EXCEPT ![s] = @ \cup {a[p]}] ELSE guard
  /\ mem' = [mem EXCEPT ![p] = "none"] /\ a' = [a EXCEPT ![p] = @ + 1]
  /\ Goto(p, "alloc")
  /\ UNCHANGED <<nfree, node, fixed, procs, job, child, argv, seg, esz, from, end>>

Done(p, j) == At(p, "alloc") /\ ~More(p) /\ job[p] = j

growproc_end(p) ==
  /\ Done(p, "sbrk") /\ sz' = [sz EXCEPT ![p] = end[p]]
  /\ Return(p) /\ UNCHANGED <<nfree, tables, state, tf, panicked>>

fork_end(p) ==
  /\ Done(p, "fork") /\ sz' = [sz EXCEPT ![child[p]] = sz[p]]
  /\ state' = [state EXCEPT ![child[p]] = "RUNNABLE"]
  /\ Return(p) /\ UNCHANGED <<nfree, tables, tf, panicked>>

-----------------------------------------------------------------------------
(* exec()                                                                  *)

\* uvmalloc() for the next segment; a smaller size leaves sz as it is, and a
\* size of zero looks like a failure.
exec_segment(p) ==
  /\ At(p, "load") /\ seg[p] # <<>>
  /\ IF Head(seg[p]) < esz[p] THEN Loop(p, esz[p], esz[p]) ELSE Loop(p, esz[p], Head(seg[p]))
  /\ UNCHANGED <<nfree, tables, procs, job, child, argv, seg, esz, mem, panicked>>

\* loadseg() reads the file into the segment's pages.
loadseg(p) ==
  /\ Done(p, "exec") /\ seg[p] # <<>> /\ end[p] # 0
  /\ leaf' = [leaf EXCEPT ![Target(p)] = [v \in VPage |-> IF v \in from[p] .. a[p] - 1 THEN "a" ELSE @[v]]]
  /\ seg' = [seg EXCEPT ![p] = Tail(@)] /\ esz' = [esz EXCEPT ![p] = end[p]]
  /\ from' = [from EXCEPT ![p] = a[p]]
  /\ Goto(p, "load")
  /\ UNCHANGED <<nfree, node, guard, fixed, procs, job, child, argv, a, end, mem, panicked>>

\* The guard page and the stack: sz is now a multiple of PGSIZE.
exec_stack(p) ==
  LET n == Pages(esz[p]) * PGSIZE IN
  /\ At(p, "load") /\ seg[p] = <<>>
  /\ esz' = [esz EXCEPT ![p] = n] /\ Loop(p, n, n + 2 * PGSIZE)
  /\ UNCHANGED <<nfree, tables, procs, job, child, argv, seg, mem, panicked>>

uvmclear(p) ==
  LET s == Target(p)  top == Pages(end[p]) - 1 IN
  /\ Done(p, "exec") /\ seg[p] = <<>>
  /\ esz' = [esz EXCEPT ![p] = end[p]] /\ from' = [from EXCEPT ![p] = a[p]]
  /\ guard' = [guard EXCEPT ![s] = @ \cup {top - 1}]
  /\ leaf' = [leaf EXCEPT ![s][top] = "a"]
  /\ Goto(p, "commit")
  /\ UNCHANGED <<nfree, node, fixed, procs, job, child, argv, seg, a, end, mem, panicked>>

\* The file cannot be read or is no program, or the arguments do not fit.
exec_bad(p) ==
  /\ \/ panicked = "no" /\ pc[p] \in {"load", "commit"}
     \/ Done(p, "exec") /\ seg[p] # <<>> /\ end[p] = 0
  /\ Fails(p)

exec_commit(p) ==
  LET old == <<p, "pagetable">>  s == <<p, "exec">> IN
  /\ At(p, "commit")
  /\ kfree(UvmfreePages(old, leaf[old], sz[p]))
  /\ panicked' = IF fixed[old] /\ ~UvmfreePanics(leaf[old], sz[p]) THEN "no" ELSE "exec"
  /\ node' = [node EXCEPT ![old] = node[s], ![s] = {}]
  /\ leaf' = [leaf EXCEPT ![old] = leaf[s], ![s] = NoLeaves]
  /\ guard' = [guard EXCEPT ![old] = guard[s], ![s] = {}]
  /\ fixed' = [fixed EXCEPT ![old] = TRUE, ![s] = FALSE]
  /\ sz' = [sz EXCEPT ![p] = esz[p]]
  /\ Return(p) /\ UNCHANGED <<state, tf>>

-----------------------------------------------------------------------------
\* A user program stores to its memory.
Store(p, v, c) ==
  /\ Idle(p) /\ v < Pages(sz[p]) /\ v \notin guard[<<p, "pagetable">>]
  /\ leaf' = [leaf EXCEPT ![<<p, "pagetable">>][v] = c]
  /\ UNCHANGED <<nfree, node, guard, fixed, procs, locals, panicked>>

\* The kernel stores to n pages (all of them writable, as programs' data is) from v on, up to the first that is not the
\* process's to write.
copyout(p, v, n, c) ==
  LET s == <<p, "pagetable">>
      Ok(w) == \A x \in v .. w : x \in VPage /\ walkaddr(s, x) IN
  /\ Idle(p)
  /\ leaf' = [leaf EXCEPT ![s] = [w \in VPage |-> IF w \in v .. v + n - 1 /\ Ok(w) THEN c ELSE @[w]]]
  /\ UNCHANGED <<nfree, node, guard, fixed, procs, locals, panicked>>

\* userinit() has made the first process, with a page for initcode.
Init ==
  /\ nfree = NPAGE - 7
  /\ node = [s \in Space |-> IF s = <<1, "pagetable">>
                             THEN {Root, High[1], High[2], Low(0)[1], Low(0)[2]} ELSE {}]
  /\ leaf = [s \in Space |-> IF s = <<1, "pagetable">>
                             THEN [NoLeaves EXCEPT ![0] = "a"] ELSE NoLeaves]
  /\ guard = [s \in Space |-> {}] /\ fixed = [s \in Space |-> s = <<1, "pagetable">>]
  /\ state = [p \in Slot |-> IF p = 1 THEN "RUNNABLE" ELSE "UNUSED"]
  /\ tf = [p \in Slot |-> p = 1]
  /\ sz = [p \in Slot |-> IF p = 1 THEN PGSIZE ELSE 0]
  /\ pc = [p \in Slot |-> "idle"] /\ job = [p \in Slot |-> "none"]
  /\ child = [p \in Slot |-> 0] /\ seg = [p \in Slot |-> <<>>]
  /\ argv = [p \in Slot |-> 0]
  /\ esz = [p \in Slot |-> 0] /\ from = [p \in Slot |-> 0] /\ a = [p \in Slot |-> 0]
  /\ end = [p \in Slot |-> 0] /\ mem = [p \in Slot |-> "none"]
  /\ panicked = "no"

Next ==
  \E p \in Slot :
    \/ fork(p) \/ trapframe(p) \/ uvmcreate(p) \/ walk(p) \/ proc_pagetable(p)
    \/ uvmalloc(p) \/ uvmcopy(p) \/ mappages(p) \/ growproc_end(p) \/ fork_end(p)
    \/ exec_segment(p) \/ loadseg(p) \/ exec_stack(p) \/ uvmclear(p) \/ exec_bad(p)
    \/ exec_commit(p) \/ freeproc(p)
    \/ \E img \in Images : sys_exec(p, img)
    \/ sys_exec_arg(p) \/ sys_exec_bad(p) \/ exec(p) \/ sys_exec_end(p)
    \/ \E n \in Deltas : growproc(p, n) \/ uvmdealloc(p, n)
    \/ \E v \in Stored : Store(p, v, "b") \/ copyout(p, v, 2, "b")

Spec == Init /\ [][Next]_vars

-----------------------------------------------------------------------------
TypeOK ==
  /\ nfree \in Nat /\ node \in [Space -> SUBSET Node]
  /\ leaf \in [Space -> [VPage -> Byte \cup {"none", "junk"}]]
  /\ guard \in [Space -> SUBSET VPage] /\ fixed \in [Space -> BOOLEAN]
  /\ state \in [Slot -> {"UNUSED", "USED", "RUNNABLE"}]
  /\ tf \in [Slot -> BOOLEAN] /\ sz \in [Slot -> Nat]
  /\ pc \in [Slot -> {"idle", "trapframe", "uvmcreate", "map_tramp", "alloc", "mappages",
                      "load", "commit", "argv", "bad"}]
  /\ argv \in [Slot -> 0 .. MAXARG]
  /\ job \in [Slot -> {"none", "fork", "exec", "sbrk"}] /\ child \in [Slot -> Slot \cup {0}]
  /\ \A p \in Slot : seg[p] \in Seq(Nat)
  /\ esz \in [Slot -> Nat] /\ from \in [Slot -> Nat] /\ a \in [Slot -> Nat]
  /\ end \in [Slot -> Nat] /\ mem \in [Slot -> Byte \cup {"none", "junk"}]

\* No page is lost and none is freed twice, whichever kalloc() fails: those on
\* the free list, the trapframes, those in page tables and those in the hands
\* of a call, the arguments of exec() among them, add up to all pages.
PagesAddUp ==
  nfree + FoldFunction(+, 0, argv) + Cardinality({p \in Slot : tf[p]})
    + Cardinality({p \in Slot : mem[p] # "none"})
    + Cardinality({x \in Space \X Node : x[2] \in node[x[1]]})
    + Cardinality({x \in Space \X VPage : leaf[x[1]][x[2]] # "none"}) = NPAGE

\* Types, the number of pages, and no panic(): no page is mapped over another,
\* unmapped twice, or left in a page table that is freed, since sz always says
\* which pages are there, also after a failure.
VmInv == TypeOK /\ PagesAddUp /\ panicked = "no"

\* The memory that a process sees: what its page table says up to sz
Seen(p, v) ==
  LET s == <<p, "pagetable">> IN
  IF v \in guard[s] /\ leaf[s][v] # "none" THEN "guard" ELSE leaf[s][v]
image ==
  [p \in Slot |-> IF state[p] # "RUNNABLE" THEN None
                  ELSE [sz |-> sz[p], page |-> [v \in 0 .. Pages(sz[p]) - 1 |-> Seen(p, v)]]]

\* fork(), exec() and sbrk() happen at once or not at all, and no process ever
\* sees the memory of another or what was left in a page by its last owner.
AS == INSTANCE AddrSpace
ImplementsAddrSpace == AS!Spec
=============================================================================
