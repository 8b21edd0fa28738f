-------------------------------- MODULE File --------------------------------
(***************************************************************************)
(* Open files and what they contain: kernel/file.c and the descriptor      *)
(* calls of kernel/sysfile.c over the block layer of kernel/fs.c, on a     *)
(* disk made by mkfs/mkfs.c.  Names are left to module Fs: file i is       *)
(* inode i for as long as it has a link.  An address on disk and a byte    *)
(* are numbers, and a block is BSIZE of them.                              *)
(***************************************************************************)
EXTENDS Integers, Sequences, FiniteSets, FiniteSetsExt, SequencesExt

CONSTANTS NPROC, NOFILE, NFILE, NPIPE,
          NINODES, NBLOCK,        \* files and data blocks of the disk
          BSIZE, NDIRECT, NINDIRECT,
          MAXOPBLOCKS,
          Image,                  \* sizes of the files that mkfs is given
          Modes,                  \* arguments of open()
          Writes, Reads,          \* arguments n of write() and read()
          Menus,                  \* sets of calls (open() by its mode), one of which
          None

Proc == 1 .. NPROC
Fd == 0 .. NOFILE - 1
FileP == 1 .. NFILE
Inum == 1 .. NINODES
Block == 1 .. NBLOCK
Cell == 0 .. BSIZE - 1
MAXFILE == NDIRECT + NINDIRECT
Original == NPROC + 1             \* the byte that mkfs's files consist of

ASSUME FileAssumption ==
  /\ {NPROC, NOFILE, NFILE, NINODES, BSIZE, NDIRECT, NINDIRECT} \subseteq Nat \ {0}
  /\ {NBLOCK, NPIPE} \subseteq Nat /\ NINDIRECT <= BSIZE
  /\ MAXOPBLOCKS \in Nat /\ MAXOPBLOCKS >= 6
  /\ Image \in Seq(0 .. MAXFILE * BSIZE) /\ Len(Image) <= NINODES
  /\ Modes \subseteq {"rdonly", "rdwr", "trunc"}
  /\ Writes \subseteq Nat \ {0} /\ Reads \subseteq Nat \ {0}

VARIABLES
  used, block,         \* the bitmap; what the blocks hold
  inode, lock,         \* nlink, size and addrs of an inode; holder of ip->lock
  file, pipe,          \* ftable; which ends of a pipe are open
  ofile, alive,        \* descriptors of each process
  pc, f, g,            \* what it does, with which open file (and sys_pipe()'s wf)
  n, tot,              \* filewrite(): bytes to write; writei(): bytes written
  closing, ff,         \* fileclose(): what is yet to be closed; its local ff
  logged,              \* blocks that the current transaction has written
  panicked,
  menu                 \* the calls that programs make: never changes

disk == <<used, block, inode>>
tables == <<lock, file, pipe, ofile, alive>>
locals == <<pc, f, g, n, tot, closing, ff, logged>>
vars == <<disk, tables, locals, panicked, menu>>

NoFile == [ref |-> 0, type |-> "none", ip |-> 0, off |-> 0, readable |-> FALSE, writable |-> FALSE]
NoInode == [nlink |-> 0, size |-> 0, addrs |-> [k \in 0 .. NDIRECT |-> 0]]
Zero == [c \in Cell |-> 0]
Junk == [c \in Cell |-> -1]       \* what a free block holds

-----------------------------------------------------------------------------
(* The block layer: operators on a disk s with the blocks logged so far    *)
(* and the address found last                                              *)

State(p) == [used |-> used, block |-> block, inode |-> inode, log |-> logged[p], addr |-> 0]

\* The first free block, zeroed; address 0 if there is none.  FSSIZE is less
\* than BPB: there is one bitmap block.
balloc(s) ==
  IF Block \subseteq s.used THEN [s EXCEPT !.addr = 0]
  ELSE LET b == Min(Block \ s.used) IN
       [s EXCEPT !.used = @ \cup {b}, !.block[b] = Zero, !.addr = b,
                 !.log = @ \cup {<<"bitmap", 0>>, <<"block", b>>}]

\* The block at addrs[k], allocated if need be
Direct(s, i, k) ==
  IF s.inode[i].addrs[k] # 0 THEN [s EXCEPT !.addr = s.inode[i].addrs[k]]
  ELSE LET t == balloc(s) IN [t EXCEPT !.inode[i].addrs[k] = t.addr]

Indirect(s, k) ==
  LET b == s.addr IN
  IF s.block[b][k] # 0 THEN [s EXCEPT !.addr = s.block[b][k]]
  ELSE LET t == balloc(s) IN
       IF t.addr = 0 THEN t
       ELSE [t EXCEPT !.block[b][k] = t.addr, !.log = @ \cup {<<"block", b>>}]

bmap(s, i, bn) ==
  IF bn < NDIRECT THEN Direct(s, i, bn)
  ELSE LET t == Direct(s, i, NDIRECT) IN
       IF t.addr = 0 THEN t ELSE Indirect(t, bn - NDIRECT)

\* The blocks that i refers to, and the order in which itrunc() frees them
Listed(s, i) ==
  LET a == s.inode[i].addrs IN
  [k \in 1 .. NDIRECT |-> a[k - 1]]
    \o (IF a[NDIRECT] = 0 THEN <<>> ELSE [k \in 1 .. NINDIRECT |-> s.block[a[NDIRECT]][k - 1]])
    \o <<a[NDIRECT]>>
Freed(s, i) == SelectSeq(Listed(s, i), LAMBDA b : b # 0)

bfree(s, b) == [s EXCEPT !.used = @ \ {b}, !.block[b] = Junk]
MutantItrunc(s, i) ==             \* the indirect block stays allocated
  [FoldLeft(bfree, s, SelectSeq(Freed(s, i), LAMBDA b : b # s.inode[i].addrs[NDIRECT]))
     EXCEPT !.inode[i].addrs = NoInode.addrs, !.inode[i].size = 0]

itrunc(s, i) ==
  [FoldLeft(bfree, s, Freed(s, i)) EXCEPT !.inode[i].addrs = NoInode.addrs, !.inode[i].size = 0]
\* "freeing free block"
ItruncPanics(s, i) ==
  \/ ToSet(Freed(s, i)) \ s.used # {}
  \/ Cardinality(ToSet(Freed(s, i))) < Len(Freed(s, i))

Write(p, s) ==
  /\ used' = s.used /\ block' = s.block /\ inode' = s.inode
  /\ logged' = [logged EXCEPT ![p] = s.log]

-----------------------------------------------------------------------------
(* ftable and descriptors                                                  *)

Goto(p, l) == pc' = [pc EXCEPT ![p] = l]
At(p, l) == panicked = "no" /\ alive[p] /\ pc[p] = l /\ closing[p] = <<>> /\ ff[p] = None

Call(p, c) == At(p, "idle") /\ c \in menu

FreeFiles == {x \in FileP : file[x].ref = 0}
FreeFds(p) == {d \in Fd : ofile[p][d] = 0}
filealloc == [file EXCEPT ![Min(FreeFiles)].ref = 1]

\* p calls fileclose() for each of q, and then returns to its program.
CloseAll(p, q) ==
  /\ closing' = [closing EXCEPT ![p] = q] /\ Goto(p, "idle")
  /\ f' = [f EXCEPT ![p] = 0] /\ g' = [g EXCEPT ![p] = 0]

\* Under ftable.lock: the slot is free before its pipe or inode is.  What else
\* is left in it is set again before it is used.
fileclose(p) ==
  LET x == Head(closing[p]) IN
  /\ panicked = "no" /\ closing[p] # <<>> /\ ff[p] = None
  /\ panicked' = IF file[x].ref < 1 THEN "fileclose" ELSE "no"
  /\ closing' = [closing EXCEPT ![p] = Tail(@)]
  /\ IF file[x].ref > 1
     THEN file' = [file EXCEPT ![x].ref = @ - 1] /\ UNCHANGED ff
     ELSE /\ file' = [file EXCEPT ![x] = NoFile]
          /\ ff' = [ff EXCEPT ![p] = IF file[x].type = "none" THEN None ELSE file[x]]
  /\ UNCHANGED <<disk, lock, pipe, ofile, alive, pc, f, g, n, tot, logged, menu>>

\* ip->ref: open files, and files being closed or opened
Iref(i) == Cardinality({x \in FileP : file[x].type = "inode" /\ file[x].ip = i})
             + Cardinality({p \in Proc : ff[p] # None /\ ff[p].type = "inode" /\ ff[p].ip = i})
             + Cardinality({p \in Proc : pc[p] \in Modes \cup {"open_bad"} /\ g[p] = i})

pipeclose(p) ==
  LET k == ff[p].ip IN
  /\ panicked = "no" /\ ff[p] # None /\ ff[p].type = "pipe"
  /\ pipe' = IF ff[p].writable THEN [pipe EXCEPT ![k].writeopen = FALSE]
             ELSE [pipe EXCEPT ![k].readopen = FALSE]
  /\ ff' = [ff EXCEPT ![p] = None]
  /\ UNCHANGED <<disk, lock, file, ofile, alive, pc, f, g, n, tot, closing, logged, panicked, menu>>

\* The last reference to an inode without links: itrunc()
iput(p) ==
  LET i == ff[p].ip  last == Iref(i) = 1 /\ inode[i].nlink = 0 IN
  /\ panicked = "no" /\ ff[p] # None /\ ff[p].type = "inode"
  /\ IF last
     THEN /\ Write(p, [itrunc(State(p), i) EXCEPT !.log = {}])
          /\ panicked' = IF ItruncPanics(State(p), i) THEN "freeing free block" ELSE "no"
     ELSE UNCHANGED <<disk, logged, panicked>>
  /\ ff' = [ff EXCEPT ![p] = None]
  /\ UNCHANGED <<tables, pc, f, g, n, tot, closing, menu>>

-----------------------------------------------------------------------------
(* sys_open(), on an inode that namei() found or create() made.  The name  *)
(* may be gone by the time the inode is locked: see module Fs.             *)

\* m is "rdonly", "rdwr" or "trunc": O_WRONLY|O_CREATE|O_TRUNC.  A file that
\* create() has made stays when filealloc() fails.
open(p, i, m) ==
  /\ Call(p, m) /\ lock[i] = None
  /\ \/ inode[i].nlink > 0 /\ UNCHANGED inode
     \/ m = "trunc" /\ inode[i].nlink = 0 /\ Iref(i) = 0
          /\ inode' = [inode EXCEPT ![i].nlink = 1]
  /\ lock' = [lock EXCEPT ![i] = p] /\ g' = [g EXCEPT ![p] = i]
  /\ IF FreeFiles = {}
     THEN Goto(p, "open_bad") /\ UNCHANGED <<file, f>>
     ELSE file' = filealloc /\ f' = [f EXCEPT ![p] = Min(FreeFiles)] /\ Goto(p, m)
  /\ UNCHANGED <<used, block, pipe, ofile, alive, n, tot, closing, ff, logged, panicked, menu>>

open_fd(p) ==
  LET i == g[p]  m == pc[p] IN
  /\ m \in Modes /\ At(p, m) /\ FreeFds(p) # {}
  /\ ofile' = [ofile EXCEPT ![p][Min(FreeFds(p))] = f[p]]
  /\ file' = [file EXCEPT ![f[p]] = [ref |-> @.ref, type |-> "inode", ip |-> i, off |-> 0,
                                     readable |-> m # "trunc", writable |-> m # "rdonly"]]
  /\ IF m = "trunc"
     THEN /\ Write(p, [itrunc(State(p), i) EXCEPT !.log = {}])
          /\ panicked' = IF ItruncPanics(State(p), i) THEN "freeing free block" ELSE "no"
     ELSE UNCHANGED <<disk, logged, panicked>>
  /\ lock' = [lock EXCEPT ![i] = None]
  /\ CloseAll(p, <<>>)
  /\ UNCHANGED <<pipe, alive, n, tot, ff, menu>>

\* fdalloc() fails: fileclose(), with the inode locked
open_nofd(p) ==
  /\ pc[p] \in Modes /\ At(p, pc[p]) /\ FreeFds(p) = {}
  /\ closing' = [closing EXCEPT ![p] = <<f[p]>>] /\ f' = [f EXCEPT ![p] = 0]
  /\ Goto(p, "open_bad")
  /\ UNCHANGED <<disk, tables, g, n, tot, ff, logged, panicked, menu>>

\* iunlock(); the iput() is still to come.
open_bad(p) ==
  /\ At(p, "open_bad")
  /\ lock' = [lock EXCEPT ![g[p]] = None]
  /\ ff' = [ff EXCEPT ![p] = [NoFile EXCEPT !.type = "inode", !.ip = g[p]]]
  /\ CloseAll(p, <<>>)
  /\ UNCHANGED <<disk, file, pipe, ofile, alive, n, tot, logged, panicked, menu>>

-----------------------------------------------------------------------------
(* sys_dup(), sys_close(), fork(), exit()                                  *)

Dup(S) == [x \in FileP |-> [file[x] EXCEPT !.ref = @ + Cardinality({d \in S : d[2] = x})]]

dup(p, d) ==
  /\ Call(p, "dup") /\ ofile[p][d] # 0 /\ FreeFds(p) # {}
  /\ ofile' = [ofile EXCEPT ![p][Min(FreeFds(p))] = ofile[p][d]]
  /\ file' = Dup({<<d, ofile[p][d]>>})
  /\ UNCHANGED <<disk, lock, pipe, alive, locals, panicked, menu>>

close(p, d) ==
  /\ Call(p, "close") /\ ofile[p][d] # 0
  /\ ofile' = [ofile EXCEPT ![p][d] = 0]
  /\ CloseAll(p, <<ofile[p][d]>>)
  /\ UNCHANGED <<disk, lock, file, pipe, alive, n, tot, ff, logged, panicked, menu>>

MutantFork(p, q) ==               \* one reference for all descriptors of a file
  /\ Call(p, "fork") /\ ~alive[q] /\ closing[q] = <<>> /\ ff[q] = None
  /\ alive' = [alive EXCEPT ![q] = TRUE]
  /\ ofile' = [ofile EXCEPT ![q] = ofile[p]]
  /\ file' = [x \in FileP |-> IF \E d \in Fd : ofile[p][d] = x
                              THEN [file[x] EXCEPT !.ref = @ + 1] ELSE file[x]]
  /\ UNCHANGED <<disk, lock, pipe, locals, panicked, menu>>

fork(p, q) ==
  /\ Call(p, "fork") /\ ~alive[q] /\ closing[q] = <<>> /\ ff[q] = None
  /\ alive' = [alive EXCEPT ![q] = TRUE]
  /\ ofile' = [ofile EXCEPT ![q] = ofile[p]]
  /\ file' = Dup({<<d, ofile[p][d]>> : d \in Fd})
  /\ UNCHANGED <<disk, lock, pipe, locals, panicked, menu>>

exit(p) ==
  /\ Call(p, "exit") /\ \E q \in Proc \ {p} : alive[q]
  /\ alive' = [alive EXCEPT ![p] = FALSE]
  /\ ofile' = [ofile EXCEPT ![p] = [d \in Fd |-> 0]]
  /\ CloseAll(p, SelectSeq([d \in 1 .. NOFILE |-> ofile[p][d - 1]], LAMBDA x : x # 0))
  /\ UNCHANGED <<disk, lock, file, pipe, n, tot, ff, logged, panicked, menu>>

-----------------------------------------------------------------------------
(* sys_pipe() and pipealloc()                                              *)

pipe_rf(p) ==
  /\ Call(p, "pipe") /\ FreeFiles # {}
  /\ file' = filealloc /\ f' = [f EXCEPT ![p] = Min(FreeFiles)]
  /\ Goto(p, "pipe_wf")
  /\ UNCHANGED <<disk, lock, pipe, ofile, alive, g, n, tot, closing, ff, logged, panicked, menu>>

\* The second filealloc(), and kalloc(); goto bad if one of them fails.
FreePipes == {k \in 1 .. NPIPE : ~pipe[k].readopen /\ ~pipe[k].writeopen}

pipe_wf(p) ==
  LET k == Min(FreePipes)  wf == Min(FreeFiles)
      End(w) == [ref |-> 1, type |-> "pipe", ip |-> k, off |-> 0, readable |-> ~w, writable |-> w] IN
  /\ At(p, "pipe_wf") /\ FreeFiles # {} /\ FreePipes # {}
  /\ file' = [file EXCEPT ![f[p]] = End(FALSE), ![wf] = End(TRUE)]
  /\ pipe' = [pipe EXCEPT ![k] = [readopen |-> TRUE, writeopen |-> TRUE]]
  /\ g' = [g EXCEPT ![p] = wf] /\ Goto(p, "pipe_fd")
  /\ UNCHANGED <<disk, lock, ofile, alive, f, n, tot, closing, ff, logged, panicked, menu>>

pipe_bad(p) ==
  /\ At(p, "pipe_wf")
  /\ \/ FreeFiles = {} /\ CloseAll(p, <<f[p]>>) /\ UNCHANGED file
     \/ FreeFiles # {} /\ FreePipes = {} /\ file' = filealloc
          /\ CloseAll(p, <<f[p], Min(FreeFiles)>>)
  /\ UNCHANGED <<disk, lock, pipe, ofile, alive, n, tot, ff, logged, panicked, menu>>

\* Two descriptors, unless there are not two or copyout() fails
pipe_fd(p) ==
  LET d == Min(FreeFds(p)) IN
  /\ At(p, "pipe_fd") /\ Cardinality(FreeFds(p)) >= 2
  /\ ofile' = [ofile EXCEPT ![p][d] = f[p], ![p][Min(FreeFds(p) \ {d})] = g[p]]
  /\ CloseAll(p, <<>>)
  /\ UNCHANGED <<disk, lock, file, pipe, alive, n, tot, ff, logged, panicked, menu>>

pipe_nofd(p) ==
  /\ At(p, "pipe_fd")
  /\ CloseAll(p, <<f[p], g[p]>>)
  /\ UNCHANGED <<disk, lock, file, pipe, ofile, alive, n, tot, ff, logged, panicked, menu>>

-----------------------------------------------------------------------------
(* fileread() and filewrite() of a file; modules Pipe and Console say what *)
(* they do with a pipe or the console.                                     *)

\* How many of k bytes at off there are; bmap() finds a block for each.
readi(i, off, k) == IF off > inode[i].size THEN 0 ELSE Min({k, inode[i].size - off})

read(p, d, k) ==
  LET x == ofile[p][d]  r == readi(file[x].ip, file[x].off, k) IN
  /\ Call(p, "read") /\ x # 0 /\ file[x].type = "inode" /\ file[x].readable
  /\ lock[file[x].ip] = None /\ r > 0
  /\ file' = [file EXCEPT ![x].off = @ + r]
  /\ UNCHANGED <<disk, lock, pipe, ofile, alive, locals, panicked, menu>>

write(p, d, k) ==
  LET x == ofile[p][d] IN
  /\ Call(p, "write") /\ x # 0 /\ file[x].type = "inode" /\ file[x].writable
  /\ f' = [f EXCEPT ![p] = x] /\ n' = [n EXCEPT ![p] = k] /\ Goto(p, "chunk")
  /\ UNCHANGED <<disk, tables, g, tot, closing, ff, logged, panicked, menu>>

MutantMax1 == ((MAXOPBLOCKS - 1 - 1) \div 2) * BSIZE   \* no slop

\* At most this many bytes in a transaction
Max1 == ((MAXOPBLOCKS - 1 - 1 - 2) \div 2) * BSIZE
N1(p) == Min({n[p], Max1})
Ip(p) == file[f[p]].ip
Off(p) == file[f[p]].off + tot[p]         \* writei()'s off
M(p) == Min({N1(p) - tot[p], BSIZE - (Off(p) % BSIZE)})
Mapped(p) == bmap(State(p), Ip(p), Off(p) \div BSIZE)

TooFar(p) == \/ file[f[p]].off > inode[Ip(p)].size
             \/ file[f[p]].off + N1(p) > MAXFILE * BSIZE

Done(p) ==
  /\ Goto(p, "idle") /\ f' = [f EXCEPT ![p] = 0] /\ n' = [n EXCEPT ![p] = 0]

\* begin_op(), ilock(), and writei()'s tests
writei(p) ==
  /\ At(p, "chunk") /\ lock[Ip(p)] = None /\ ~TooFar(p)
  /\ lock' = [lock EXCEPT ![Ip(p)] = p] /\ Goto(p, "block")
  /\ UNCHANGED <<disk, file, pipe, ofile, alive, f, g, n, tot, closing, ff, logged, panicked, menu>>

writei_fails(p) ==
  /\ At(p, "chunk") /\ lock[Ip(p)] = None /\ TooFar(p)
  /\ Done(p) /\ UNCHANGED <<disk, tables, g, tot, closing, ff, logged, panicked, menu>>

\* One block: bmap(), bread(), either_copyin(), log_write()
Copied(p, s, k) ==
  LET from == Off(p) % BSIZE IN
  [s EXCEPT !.block[s.addr] = [c \in Cell |-> IF c >= from /\ c < from + k THEN p ELSE @[c]]]
Block1(p) == At(p, "block") /\ tot[p] < N1(p)

writei_block(p) ==
  LET s == Mapped(p) IN
  /\ Block1(p) /\ s.addr # 0
  /\ Write(p, [Copied(p, s, M(p)) EXCEPT !.log = @ \cup {<<"block", s.addr>>}])
  /\ tot' = [tot EXCEPT ![p] = @ + M(p)]
  /\ UNCHANGED <<tables, pc, f, g, n, closing, ff, panicked, menu>>

writei_full(p) ==
  /\ Block1(p) /\ Mapped(p).addr = 0
  /\ Write(p, Mapped(p)) /\ Goto(p, "short")
  /\ UNCHANGED <<tables, f, g, n, tot, closing, ff, panicked, menu>>

\* either_copyin() fails, perhaps after some bytes; no log_write().
writei_fault(p) ==
  /\ Block1(p) /\ "fault" \in menu /\ Mapped(p).addr # 0
  /\ \E k \in 0 .. M(p) - 1 : Write(p, Copied(p, Mapped(p), k))
  /\ Goto(p, "short")
  /\ UNCHANGED <<tables, f, g, n, tot, closing, ff, panicked, menu>>

MutantWriteiEnd(p) ==             \* the size shrinks
  LET i == Ip(p) IN
  /\ (At(p, "block") /\ tot[p] = N1(p)) \/ At(p, "short")
  /\ inode' = [inode EXCEPT ![i].size = Off(p)]
  /\ file' = [file EXCEPT ![f[p]].off = Off(p)]
  /\ lock' = [lock EXCEPT ![i] = None]
  /\ tot' = [tot EXCEPT ![p] = 0] /\ logged' = [logged EXCEPT ![p] = {}]
  /\ IF tot[p] = N1(p) /\ n[p] > N1(p)
     THEN Goto(p, "chunk") /\ n' = [n EXCEPT ![p] = @ - N1(p)] /\ UNCHANGED f
     ELSE Done(p)
  /\ UNCHANGED <<used, block, pipe, ofile, alive, g, closing, ff, panicked, menu>>

\* The new size, iupdate(), f->off, iunlock() and end_op(); the next chunk
writei_end(p) ==
  LET i == Ip(p) IN
  /\ (At(p, "block") /\ tot[p] = N1(p)) \/ At(p, "short")
  /\ inode' = [inode EXCEPT ![i].size = Max({@, Off(p)})]
  /\ file' = [file EXCEPT ![f[p]].off = Off(p)]
  /\ lock' = [lock EXCEPT ![i] = None]
  /\ tot' = [tot EXCEPT ![p] = 0] /\ logged' = [logged EXCEPT ![p] = {}]
  /\ IF tot[p] = N1(p) /\ n[p] > N1(p)
     THEN Goto(p, "chunk") /\ n' = [n EXCEPT ![p] = @ - N1(p)] /\ UNCHANGED f
     ELSE Done(p)
  /\ UNCHANGED <<used, block, pipe, ofile, alive, g, closing, ff, panicked, menu>>

-----------------------------------------------------------------------------
\* sys_unlink() of the last name, see module Fs
unlink(p, i) ==
  /\ Call(p, "unlink") /\ lock[i] = None /\ inode[i].nlink = 1
  /\ IF Iref(i) = 0
     THEN Write(p, [itrunc([State(p) EXCEPT !.inode[i].nlink = 0], i) EXCEPT !.log = {}])
     ELSE inode' = [inode EXCEPT ![i].nlink = 0] /\ UNCHANGED <<used, block, logged>>
  /\ panicked' = IF Iref(i) = 0 /\ ItruncPanics(State(p), i) THEN "freeing free block" ELSE "no"
  /\ UNCHANGED <<tables, pc, f, g, n, tot, closing, ff, menu>>

-----------------------------------------------------------------------------
(* mkfs: m is the image, with the next block to allocate.                  *)

\* One turn of the loop, for at most a block at a multiple of BSIZE
iappend(m, i, k) ==
  LET bn == m.inode[i].size \div BSIZE
      Alloc(x) == IF x = 0 THEN m.freeblock ELSE x
      a == IF bn < NDIRECT THEN bn ELSE NDIRECT
      b == Alloc(m.inode[i].addrs[a])
      free1 == Max({m.freeblock, b + 1})
      data == IF bn < NDIRECT THEN b ELSE free1
      put == [m.block EXCEPT ![data] = [c \in Cell |-> IF c < k THEN Original ELSE 0]]
  IN [inode |-> [m.inode EXCEPT ![i].addrs[a] = b, ![i].size = @ + k],
      freeblock |-> Max({free1, data + 1}),
      block |-> IF bn < NDIRECT THEN put ELSE [put EXCEPT ![b][bn - NDIRECT] = data]]

\* ialloc(), and read() of a file into buf[BSIZE]
addfile(m, i) ==
  LET z == Image[i]
      pieces == [k \in 1 .. (z + BSIZE - 1) \div BSIZE |-> Min({BSIZE, z - (k - 1) * BSIZE})]
  IN FoldLeft(LAMBDA s, k : iappend(s, i, k), [m EXCEPT !.inode[i].nlink = 1], pieces)

mkfs == FoldLeft(addfile,
                 [inode |-> [i \in Inum |-> NoInode], block |-> [b \in Block |-> Zero], freeblock |-> 1],
                 [i \in 1 .. Len(Image) |-> i])

Init ==
  /\ used = 1 .. mkfs.freeblock - 1 /\ inode = mkfs.inode
  /\ block = [b \in Block |-> IF b < mkfs.freeblock THEN mkfs.block[b] ELSE Junk]
  /\ lock = [i \in Inum |-> None] /\ file = [x \in FileP |-> NoFile]
  /\ pipe = [k \in 1 .. NPIPE |-> [readopen |-> FALSE, writeopen |-> FALSE]]
  /\ ofile = [p \in Proc |-> [d \in Fd |-> 0]] /\ alive = [p \in Proc |-> p = 1]
  /\ pc = [p \in Proc |-> "idle"] /\ f = [p \in Proc |-> 0] /\ g = f /\ n = f /\ tot = f
  /\ closing = [p \in Proc |-> <<>>] /\ ff = [p \in Proc |-> None]
  /\ logged = [p \in Proc |-> {}] /\ panicked = "no" /\ menu \in Menus

Next ==
  \E p \in Proc :
    \/ fileclose(p) \/ pipeclose(p) \/ iput(p)
    \/ \E i \in Inum : unlink(p, i) \/ \E m \in Modes : open(p, i, m)
    \/ open_fd(p) \/ open_nofd(p) \/ open_bad(p)
    \/ \E d \in Fd : \/ dup(p, d) \/ close(p, d)
                     \/ \E k \in Reads : read(p, d, k)
                     \/ \E k \in Writes : write(p, d, k)
    \/ \E q \in Proc : fork(p, q)
    \/ exit(p)
    \/ pipe_rf(p) \/ pipe_wf(p) \/ pipe_bad(p) \/ pipe_fd(p) \/ pipe_nofd(p)
    \/ writei(p) \/ writei_fails(p)
    \/ writei_block(p) \/ writei_full(p) \/ writei_fault(p) \/ writei_end(p)

Spec == Init /\ [][Next]_vars

-----------------------------------------------------------------------------
InFlight(p) ==
  (IF pc[p] \in Modes \cup {"pipe_wf", "pipe_fd"} THEN <<f[p]>> ELSE <<>>)
    \o (IF pc[p] = "pipe_fd" THEN <<g[p]>> ELSE <<>>)

Holders(x) ==
  Cardinality({<<p, d>> \in Proc \X Fd : ofile[p][d] = x})
    + Cardinality({<<p, k>> \in Proc \X (1 .. NOFILE + 1) :
                     k \in DOMAIN (closing[p] \o InFlight(p)) /\ (closing[p] \o InFlight(p))[k] = x})

Type ==
  /\ used \subseteq Block /\ lock \in [Inum -> Proc \cup {None}]
  /\ inode \in [Inum -> [nlink : 0 .. 1, size : 0 .. MAXFILE * BSIZE, addrs : [0 .. NDIRECT -> 0 .. NBLOCK]]]
  /\ block \in [Block -> [Cell -> -1 .. Max({NBLOCK, Original})]]
  /\ file \in [FileP -> [ref : Nat, type : {"none", "pipe", "inode"}, ip : Nat, off : Nat,
                         readable : BOOLEAN, writable : BOOLEAN]]
  /\ ofile \in [Proc -> [Fd -> 0 .. NFILE]] /\ panicked \in {"no", "fileclose", "freeing free block"}

\* However opens, dups, forks, exits, closes and the failures of pipe() and
\* open() interleave, the count of an open file is the number of descriptors
\* and of calls in progress that hold it, a free slot is FD_NONE, an end of a
\* pipe is open exactly while an open file or a close in progress stands for
\* it, and fileclose() never panics.
FileInv ==
  /\ Type /\ panicked # "fileclose"
  /\ \A x \in FileP : file[x].ref = Holders(x) /\ (file[x].ref = 0 => file[x].type = "none")
  /\ \A k \in 1 .. NPIPE, w \in BOOLEAN :
       LET End(h) == h.type = "pipe" /\ h.ip = k /\ h.writable = w IN
       (IF w THEN pipe[k].writeopen ELSE pipe[k].readopen)
         <=> (\E x \in FileP : End(file[x])) \/ (\E p \in Proc : ff[p] # None /\ End(ff[p]))

\* The bitmap marks exactly the blocks that some inode refers to, none is
\* referred to twice, and every byte of a file is in a block, even after a
\* write that stopped midway for lack of a block or of readable memory; so
\* bfree() never finds a block free already.
BlocksInv ==
  LET all == FlattenSeq([i \in Inum |-> Freed(State(1), i)]) IN
  /\ panicked # "freeing free block"
  /\ ToSet(all) = used /\ Cardinality(used) = Len(all)
  /\ \A i \in Inum : \A k \in 1 .. (inode[i].size + BSIZE - 1) \div BSIZE :
       bmap(State(1), i, k - 1).log = logged[1] /\ bmap(State(1), i, k - 1).addr # 0

\* One chunk of filewrite(), with the bitmap blocks, the indirect block, the
\* blocks at both ends of an unaligned write and the inode, stays two blocks
\* below MAXOPBLOCKS: the number for which log_write() never runs out of log
\* (module Log).
OpFits ==
  \A p \in Proc : pc[p] \in {"block", "short"} =>
    Cardinality(logged[p] \cup {<<"inode", Ip(p)>>}) <= MAXOPBLOCKS - 2

\* Through bmap(), the blocks give every file the contents that module Files
\* says, whatever writes, truncations and closes interleave.
Where(i, bn) == LET a == inode[i].addrs IN
                IF bn < NDIRECT THEN a[bn] ELSE block[a[NDIRECT]][bn - NDIRECT]
Byte(i, k) == block[Where(i, (k - 1) \div BSIZE)][(k - 1) % BSIZE]
Writer(p) == pc[p] \in {"block", "short"}
Length(i) == Max({inode[i].size} \cup {Off(p) : p \in {q \in Proc : Writer(q) /\ Ip(q) = i}})
IsInode(x) == file[x].type = "inode"
Abstract ==
  INSTANCE Files WITH
    File <- FileP, MAX <- MAXFILE * BSIZE,
    content <- [i \in Inum |-> [k \in 1 .. Length(i) |-> Byte(i, k)]],
    ip <- [x \in FileP |-> IF IsInode(x) THEN file[x].ip ELSE 0],
    off <- [x \in FileP |-> IF IsInode(x) THEN file[x].off ELSE 0],
    busy <- [p \in Proc |-> IF Writer(p) THEN [f |-> f[p], done |-> tot[p]] ELSE None]
ImplementsFiles == Abstract!Spec
=============================================================================
