--------------------------------- MODULE Fs ---------------------------------
(***************************************************************************)
(* Inodes, directories and the calls that create, link, open and remove    *)
(* files: the inode table and directory layers of kernel/fs.c under the    *)
(* system calls of kernel/sysfile.c.  Processes interleave wherever the    *)
(* code takes or releases an inode's sleep-lock or itable.lock.  What a    *)
(* file contains is left out; so is the log, which makes each call atomic  *)
(* for crashes (module Log) but not for other processes.                   *)
(***************************************************************************)
EXTENDS Integers, Sequences, FiniteSets

CONSTANTS Proc, NINODES,  \* processes; inodes on disk, 1 .. NINODES
          NINODE,         \* entries of the inode table
          Name,           \* ordinary names
          Menus,          \* system calls to choose from, by process: which call,
                          \* its path and, for link, the new name
          None

ROOTINO == 1
Inum == 1 .. NINODES
Elem == Name \cup {".", "..", "/"}

ASSUME FsAssumption ==
  /\ NINODES \in Nat \ {0} /\ NINODE \in Nat \ {0} /\ None \notin Proc
  /\ Name \cap {".", "..", "/"} = {} /\ \A m \in Menus : DOMAIN m = Proc
  /\ \A m \in Menus, p \in Proc : \A c \in m[p] :
       /\ c.call \in {"open", "creat", "mkdir", "mknod", "unlink", "link", "chdir"}
       /\ c.path \in Seq(Elem) /\ c.new \in Seq(Elem)

VARIABLES
  dinode,       \* the inodes on disk: type and nlink
  ent,          \* directory contents: the inode that each name stands for, or 0
  inode,        \* the copies in the inode table
  ref, valid,   \* ip->ref and ip->valid of an inode's table entry
  lock,         \* holder of ip->lock
  ofile, cwd,   \* a process's open file and current directory
  menu,         \* the system calls that each process makes
  pc, call, path, new,  \* its system call and arguments
  w, ip, dp,    \* the pointers it holds: namex()'s ip, and the call's ip and dp
  inum,         \* how far ialloc() has looked
  puts, freeing,  \* inodes it has yet to iput(), and how far iput() has got
  panicked,
  stray         \* auxiliary: where ".." of a directory without a name has led it

disk == <<dinode, ent>>
table == <<inode, ref, valid, lock>>
args == <<menu, call, path, new>>
ptrs == <<w, ip, dp, inum>>
putting == <<puts, freeing>>
locals == <<pc, args, ptrs, putting>>
vars == <<disk, table, ofile, cwd, locals, panicked, stray>>

Free == [type |-> "none", nlink |-> 0]
NoEntries == [n \in Name \cup {".."} |-> 0]

-----------------------------------------------------------------------------
(* Steps of a process                                                      *)

\* p is at l, with no iput() under way.
At(p, l) == panicked = "no" /\ pc[p] = l /\ puts[p] = <<>>
Goto(p, l) == pc' = [pc EXCEPT ![p] = l]

\* p releases the pointers q, one after the other.
Put(p, q) == puts' = [puts EXCEPT ![p] = q] /\ UNCHANGED freeing

\* p returns from its call after that; its locals are gone.
Return(p, q) ==
  /\ Goto(p, "idle") /\ Put(p, q)
  /\ call' = [call EXCEPT ![p] = "none"]
  /\ path' = [path EXCEPT ![p] = <<>>] /\ new' = [new EXCEPT ![p] = <<>>]
  /\ w' = [w EXCEPT ![p] = 0] /\ ip' = [ip EXCEPT ![p] = 0] /\ dp' = [dp EXCEPT ![p] = 0]
  /\ inum' = [inum EXCEPT ![p] = 1] /\ stray' = [stray EXCEPT ![p] = 0] /\ UNCHANGED menu

\* dirlookup(): the inode that n stands for in directory d, or 0
Entry(d, n) == IF n = "." THEN d ELSE ent[d][n]

\* The entries, other than "." and "..", that stand for inode i
Naming(i) == {x \in Inum \X Name : ent[x[1]][x[2]] = i}

\* p goes from directory d to entry n: has unlink() removed d, so that
\* nothing keeps ".." from being freed?
Follow(p, d, n) ==
  stray' = [stray EXCEPT ![p] = IF n = ".." /\ d # ROOTINO /\ Naming(d) = {}
                                THEN ent[d][n] ELSE 0]

InUse == {i \in Inum : ref[i] > 0}

\* iget(): one more reference; an entry without one is recycled.
iget(i) ==
  /\ ref' = [ref EXCEPT ![i] = @ + 1]
  /\ valid' = [valid EXCEPT ![i] = @ /\ ref[i] > 0]
  /\ panicked' = IF ref[i] = 0 /\ Cardinality(InUse) >= NINODE
                 THEN "iget: no inodes" ELSE panicked

\* Who waits for, and then holds, which inode's lock
LockOf(p) ==
  CASE pc[p] = "namex" /\ path[p] # <<>> -> w[p]
    [] pc[p] \in {"create", "unlink", "link_dp"} -> dp[p]
    [] pc[p] \in {"open", "create_old", "create_new", "unlink_ip", "link_ip",
                  "link_bad", "chdir"} -> ip[p]
    [] OTHER -> 0

\* ilock(): reads the inode from disk if this was not done yet.
ilock(p) ==
  LET i == LockOf(p) IN
  /\ panicked = "no" /\ puts[p] = <<>> /\ i # 0
  /\ lock[i] = None
  /\ lock' = [lock EXCEPT ![i] = p]
  /\ inode' = IF valid[i] THEN inode ELSE [inode EXCEPT ![i] = dinode[i]]
  /\ valid' = [valid EXCEPT ![i] = TRUE]
  /\ panicked' = IF ~valid[i] /\ dinode[i].type = "none" THEN "ilock: no type" ELSE "no"
  /\ UNCHANGED <<disk, ref, ofile, cwd, locals, stray>>

Holding(p, l) == At(p, l) /\ LockOf(p) # 0 /\ lock[LockOf(p)] = p
Unlock(i) == lock' = [lock EXCEPT ![i] = None]

\* An inode of the table changed, with iupdate()
Update(i, rec) ==
  /\ inode' = [inode EXCEPT ![i] = rec]
  /\ dinode' = [dinode EXCEPT ![i] = rec]
Nlink(i, k) == [inode[i] EXCEPT !.nlink = @ + k]

-----------------------------------------------------------------------------
(* iput()                                                                  *)

Putting(p, f) == panicked = "no" /\ puts[p] # <<>> /\ freeing[p] = f

MutantIput(p) ==                    \* frees although others hold a pointer
  LET i == Head(puts[p]) IN
  /\ Putting(p, "no")
  /\ IF valid[i] /\ inode[i].nlink = 0
     THEN /\ freeing' = [freeing EXCEPT ![p] = "free"]
          /\ lock' = IF lock[i] = None THEN [lock EXCEPT ![i] = p] ELSE lock
          /\ panicked' = IF lock[i] = None THEN "no" ELSE "sched locks"
          /\ UNCHANGED <<ref, puts>>
     ELSE /\ ref' = [ref EXCEPT ![i] = @ - 1]
          /\ puts' = [puts EXCEPT ![p] = Tail(@)]
          /\ UNCHANGED <<lock, freeing, panicked>>
  /\ UNCHANGED <<disk, inode, valid, ofile, cwd, pc, args, ptrs, stray>>

iput(p) ==
  LET i == Head(puts[p]) IN
  /\ Putting(p, "no")
  /\ IF ref[i] = 1 /\ valid[i] /\ inode[i].nlink = 0
     THEN /\ freeing' = [freeing EXCEPT ![p] = "free"]
          /\ lock' = IF lock[i] = None THEN [lock EXCEPT ![i] = p] ELSE lock
          /\ panicked' = IF lock[i] = None THEN "no" ELSE "sched locks"
          /\ UNCHANGED <<ref, puts>>
     ELSE /\ ref' = [ref EXCEPT ![i] = @ - 1]
          /\ puts' = [puts EXCEPT ![p] = Tail(@)]
          /\ UNCHANGED <<lock, freeing, panicked>>
  /\ UNCHANGED <<disk, inode, valid, ofile, cwd, pc, args, ptrs, stray>>

\* itrunc(ip), ip->type = 0, iupdate(ip)
iput_free(p) ==
  LET i == Head(puts[p]) IN
  /\ Putting(p, "free")
  /\ ent' = [ent EXCEPT ![i] = NoEntries]
  /\ Update(i, [inode[i] EXCEPT !.type = "none"])
  /\ freeing' = [freeing EXCEPT ![p] = "invalid"]
  /\ UNCHANGED <<ref, valid, lock, ofile, cwd, pc, args, ptrs, puts, panicked, stray>>

MutantIputInvalid(p) ==             \* ip->valid stays set
  LET i == Head(puts[p]) IN
  /\ Putting(p, "invalid")
  /\ Unlock(i)
  /\ freeing' = [freeing EXCEPT ![p] = "drop"]
  /\ UNCHANGED <<disk, inode, ref, valid, ofile, cwd, pc, args, ptrs, puts, panicked, stray>>

\* ip->valid = 0, releasesleep(&ip->lock)
iput_invalid(p) ==
  LET i == Head(puts[p]) IN
  /\ Putting(p, "invalid")
  /\ valid' = [valid EXCEPT ![i] = FALSE]
  /\ Unlock(i)
  /\ freeing' = [freeing EXCEPT ![p] = "drop"]
  /\ UNCHANGED <<disk, inode, ref, ofile, cwd, pc, args, ptrs, puts, panicked, stray>>

\* Under itable.lock again: ip->ref--
iput_drop(p) ==
  /\ Putting(p, "drop")
  /\ ref' = [ref EXCEPT ![Head(puts[p])] = @ - 1]
  /\ puts' = [puts EXCEPT ![p] = Tail(@)]
  /\ freeing' = [freeing EXCEPT ![p] = "no"]
  /\ UNCHANGED <<disk, inode, valid, lock, ofile, cwd, pc, args, ptrs, panicked, stray>>

-----------------------------------------------------------------------------
(* namex(): pointer w moves along the path, one directory at a time.  A    *)
(* call that wants the parent of its path is left with <<name>>.           *)

WalkFrom(p, a) ==
  LET abs == a # <<>> /\ Head(a) = "/" IN
  LET i == IF abs THEN ROOTINO ELSE cwd[p] IN
  /\ iget(i)
  /\ w' = [w EXCEPT ![p] = i]
  /\ path' = [path EXCEPT ![p] = IF abs THEN Tail(a) ELSE a]
  /\ Goto(p, "namex")

\* A system call begins; link has a second path.
begin(p, c) ==
  /\ At(p, "idle")
  /\ call' = [call EXCEPT ![p] = c.call] /\ new' = [new EXCEPT ![p] = c.new]
  /\ WalkFrom(p, c.path)
  /\ UNCHANGED <<menu, disk, inode, lock, ofile, cwd, ip, dp, inum, putting, stray>>

nameiparent(p) == call[p] \in {"creat", "mkdir", "mknod", "unlink"} \/ ip[p] # 0

\* namex() returns 0.
WalkFails(p) ==
  IF call[p] = "link" /\ ip[p] # 0
  THEN /\ Goto(p, "link_bad") /\ Put(p, <<w[p]>>) /\ w' = [w EXCEPT ![p] = 0]
       /\ UNCHANGED <<args, ip, dp, inum, stray>>
  ELSE Return(p, <<w[p]>>)

namex_fails(p) ==
  /\ Holding(p, "namex")
  /\ \/ inode[w[p]].type # "dir"
     \/ ~(nameiparent(p) /\ Len(path[p]) = 1) /\ Entry(w[p], Head(path[p])) = 0
  /\ Unlock(w[p]) /\ WalkFails(p)
  /\ UNCHANGED <<disk, inode, ref, valid, ofile, cwd, panicked>>

namex_parent(p) ==
  /\ Holding(p, "namex") /\ nameiparent(p) /\ Len(path[p]) = 1
  /\ inode[w[p]].type = "dir"
  /\ Unlock(w[p])
  /\ dp' = [dp EXCEPT ![p] = w[p]] /\ w' = [w EXCEPT ![p] = 0]
  /\ Goto(p, CASE call[p] = "unlink" -> "unlink" [] call[p] = "link" -> "link_dp"
               [] OTHER -> "create")
  /\ UNCHANGED <<disk, inode, ref, valid, ofile, cwd, args, ip, inum, putting, panicked, stray>>

namex_next(p) ==
  LET next == Entry(w[p], Head(path[p])) IN
  /\ Holding(p, "namex") /\ inode[w[p]].type = "dir"
  /\ ~(nameiparent(p) /\ Len(path[p]) = 1) /\ next # 0
  /\ iget(next) /\ Unlock(w[p]) /\ Put(p, <<w[p]>>)
  /\ path' = [path EXCEPT ![p] = Tail(@)]
  /\ IF Len(path[p]) > 1
     THEN w' = [w EXCEPT ![p] = next] /\ UNCHANGED <<pc, ip>>
     ELSE /\ ip' = [ip EXCEPT ![p] = next] /\ w' = [w EXCEPT ![p] = 0]
          /\ Goto(p, IF call[p] = "link" THEN "link_ip" ELSE call[p])
  /\ Follow(p, w[p], Head(path[p]))
  /\ UNCHANGED <<disk, inode, ofile, cwd, menu, call, new, dp, inum>>

\* No path element left at the start: "/", or "" for the current directory
namex_end(p) ==
  /\ At(p, "namex") /\ path[p] = <<>>
  /\ IF nameiparent(p) THEN WalkFails(p)
     ELSE /\ ip' = [ip EXCEPT ![p] = w[p]] /\ w' = [w EXCEPT ![p] = 0]
          /\ Goto(p, IF call[p] = "link" THEN "link_ip" ELSE call[p])
          /\ UNCHANGED <<args, dp, inum, putting, stray>>
  /\ UNCHANGED <<disk, table, ofile, cwd, panicked>>

-----------------------------------------------------------------------------
(* sys_open() on the locked inode, sys_close(), sys_chdir()                *)

\* A directory opened for writing, or no file structure or descriptor left
open_fails(p) ==
  /\ Holding(p, "open")
  /\ Unlock(ip[p]) /\ Return(p, <<ip[p]>>)
  /\ UNCHANGED <<disk, inode, ref, valid, ofile, cwd, panicked>>

open(p) ==
  /\ Holding(p, "open") /\ ofile[p] = 0
  /\ ofile' = [ofile EXCEPT ![p] = ip[p]]
  /\ Unlock(ip[p]) /\ Return(p, <<>>)
  /\ UNCHANGED <<disk, inode, ref, valid, cwd, panicked>>

close(p) ==
  /\ At(p, "idle") /\ ofile[p] # 0
  /\ ofile' = [ofile EXCEPT ![p] = 0]
  /\ Put(p, <<ofile[p]>>)
  /\ UNCHANGED <<disk, table, cwd, pc, args, ptrs, panicked, stray>>

chdir(p) ==
  /\ Holding(p, "chdir")
  /\ IF inode[ip[p]].type = "dir"
     THEN cwd' = [cwd EXCEPT ![p] = ip[p]] /\ Return(p, <<cwd[p]>>)
     ELSE Return(p, <<ip[p]>>) /\ UNCHANGED cwd
  /\ Unlock(ip[p])
  /\ UNCHANGED <<disk, inode, ref, valid, ofile, panicked>>

-----------------------------------------------------------------------------
(* create(), for open(O_CREATE), mkdir and mknod; dp is locked.  dirlookup() *)
(* panics on anything but a directory: PanicHasReason says that it is one.   *)

InDir(p, l) == Holding(p, l) /\ inode[dp[p]].type = "dir"
Found(p) == Entry(dp[p], Head(path[p]))
NewType(p) == CASE call[p] = "mkdir" -> "dir" [] call[p] = "mknod" -> "device"
                [] OTHER -> "file"

create_found(p) ==
  /\ InDir(p, "create") /\ Found(p) # 0
  /\ iget(Found(p))
  /\ ip' = [ip EXCEPT ![p] = Found(p)]
  /\ Unlock(dp[p]) /\ Put(p, <<dp[p]>>) /\ dp' = [dp EXCEPT ![p] = 0]
  /\ Goto(p, "create_old")
  /\ Follow(p, dp[p], Head(path[p]))
  /\ UNCHANGED <<disk, inode, ofile, cwd, args, w, inum>>

MutantCreateOld(p) ==               \* iunlock() for iunlockput()
  /\ Holding(p, "create_old")
  /\ IF call[p] = "creat" /\ inode[ip[p]].type \in {"file", "device"}
     THEN Goto(p, "open") /\ UNCHANGED <<lock, args, ptrs, putting, stray>>
     ELSE Unlock(ip[p]) /\ Return(p, <<>>)
  /\ UNCHANGED <<disk, inode, ref, valid, ofile, cwd, panicked>>

create_old(p) ==
  /\ Holding(p, "create_old")
  /\ IF call[p] = "creat" /\ inode[ip[p]].type \in {"file", "device"}
     THEN Goto(p, "open") /\ UNCHANGED <<lock, args, ptrs, putting, stray>>
     ELSE Unlock(ip[p]) /\ Return(p, <<ip[p]>>)
  /\ UNCHANGED <<disk, inode, ref, valid, ofile, cwd, panicked>>

\* ialloc() looks at one inode after the other and takes the first free one;
\* others may meanwhile free an inode that it has passed.
ialloc_next(p) ==
  /\ InDir(p, "create") /\ Found(p) = 0
  /\ inum[p] \in Inum /\ dinode[inum[p]].type # "none"
  /\ inum' = [inum EXCEPT ![p] = @ + 1]
  /\ UNCHANGED <<disk, table, ofile, cwd, pc, args, w, ip, dp, putting, panicked, stray>>

ialloc(p) ==
  LET i == inum[p] IN
  /\ InDir(p, "create") /\ Found(p) = 0
  /\ i \in Inum /\ dinode[i].type = "none"
  /\ dinode' = [dinode EXCEPT ![i] = [type |-> NewType(p), nlink |-> 0]]
  /\ iget(i)
  /\ ip' = [ip EXCEPT ![p] = i] /\ inum' = [inum EXCEPT ![p] = 1]
  /\ Goto(p, "create_new")
  /\ UNCHANGED <<ent, inode, lock, ofile, cwd, args, w, dp, putting, stray>>

create_full(p) ==
  /\ InDir(p, "create") /\ Found(p) = 0 /\ inum[p] \notin Inum
  /\ Unlock(dp[p]) /\ Return(p, <<dp[p]>>)
  /\ UNCHANGED <<disk, inode, ref, valid, ofile, cwd, panicked>>

\* The links: "." is not counted, ".." counts as a link to dp.
create_new(p) ==
  LET i == ip[p]  d == dp[p]  sub == call[p] = "mkdir" IN
  /\ Holding(p, "create_new")
  /\ inode' = [inode EXCEPT ![i].nlink = 1, ![d].nlink = IF sub THEN @ + 1 ELSE @]
  /\ dinode' = [dinode EXCEPT ![i] = inode'[i], ![d] = inode'[d]]
  /\ ent' = [ent EXCEPT ![d][Head(path[p])] = i, ![i][".."] = IF sub THEN d ELSE 0]
  /\ Unlock(d) /\ Put(p, <<d>>) /\ dp' = [dp EXCEPT ![p] = 0]
  /\ Goto(p, IF call[p] = "creat" THEN "open" ELSE "mk_end")
  /\ UNCHANGED <<ref, valid, ofile, cwd, args, w, ip, inum, panicked, stray>>

\* dirlink() finds no disk block: ip->nlink = 0, and ip and dp are put back.
create_undo(p) ==
  /\ Holding(p, "create_new")
  /\ Update(ip[p], [inode[ip[p]] EXCEPT !.nlink = 0])
  /\ Unlock(ip[p]) /\ Put(p, <<ip[p]>>) /\ ip' = [ip EXCEPT ![p] = 0]
  /\ Goto(p, "put_dp")
  /\ UNCHANGED <<ent, ref, valid, ofile, cwd, args, w, dp, inum, panicked, stray>>

\* iunlockput(dp), the end of a failed call
put_dp(p) ==
  /\ At(p, "put_dp")
  /\ Unlock(dp[p]) /\ Return(p, <<dp[p]>>)
  /\ UNCHANGED <<disk, inode, ref, valid, ofile, cwd, panicked>>

mk_end(p) ==
  /\ At(p, "mk_end")
  /\ Unlock(ip[p]) /\ Return(p, <<ip[p]>>)
  /\ UNCHANGED <<disk, inode, ref, valid, ofile, cwd, panicked>>

-----------------------------------------------------------------------------
(* sys_unlink(); dp is locked                                              *)

unlink_bad(p) ==
  /\ InDir(p, "unlink")
  /\ Head(path[p]) \in {".", ".."} \/ Found(p) = 0
  /\ Unlock(dp[p]) /\ Return(p, <<dp[p]>>)
  /\ UNCHANGED <<disk, inode, ref, valid, ofile, cwd, panicked>>

unlink_found(p) ==
  /\ InDir(p, "unlink")
  /\ Head(path[p]) \in Name /\ Found(p) # 0
  /\ iget(Found(p))
  /\ ip' = [ip EXCEPT ![p] = Found(p)]
  /\ Goto(p, "unlink_ip")
  /\ UNCHANGED <<disk, inode, lock, ofile, cwd, args, w, dp, inum, putting, stray>>

isdirempty(d) == \A n \in Name : ent[d][n] = 0

unlink_notempty(p) ==
  /\ Holding(p, "unlink_ip") /\ inode[ip[p]].nlink >= 1
  /\ inode[ip[p]].type = "dir" /\ ~isdirempty(ip[p])
  /\ Unlock(ip[p]) /\ Put(p, <<ip[p]>>) /\ ip' = [ip EXCEPT ![p] = 0]
  /\ Goto(p, "put_dp")
  /\ UNCHANGED <<disk, inode, ref, valid, ofile, cwd, args, w, dp, inum, panicked, stray>>

\* The entry is cleared and dp released; ip stays locked.
unlink_entry(p) ==
  LET sub == inode[ip[p]].type = "dir" IN
  /\ Holding(p, "unlink_ip")
  /\ sub /\ inode[ip[p]].nlink >= 1 => isdirempty(ip[p])
  /\ panicked' = IF inode[ip[p]].nlink < 1 THEN "unlink: nlink < 1" ELSE "no"
  /\ ent' = [ent EXCEPT ![dp[p]][Head(path[p])] = 0]
  /\ Update(dp[p], Nlink(dp[p], IF sub THEN -1 ELSE 0))
  /\ Unlock(dp[p]) /\ Put(p, <<dp[p]>>) /\ dp' = [dp EXCEPT ![p] = 0]
  /\ Goto(p, "unlink_end")
  /\ UNCHANGED <<ref, valid, ofile, cwd, args, w, ip, inum, stray>>

unlink_end(p) ==
  /\ At(p, "unlink_end")
  /\ Update(ip[p], Nlink(ip[p], -1))
  /\ Unlock(ip[p]) /\ Return(p, <<ip[p]>>)
  /\ UNCHANGED <<ent, ref, valid, ofile, cwd, panicked>>

-----------------------------------------------------------------------------
(* sys_link(): ip is counted first, then found its new name.               *)

link_isdir(p) ==
  /\ Holding(p, "link_ip") /\ inode[ip[p]].type = "dir"
  /\ Unlock(ip[p]) /\ Return(p, <<ip[p]>>)
  /\ UNCHANGED <<disk, inode, ref, valid, ofile, cwd, panicked>>

MutantLinkInc(p) ==                 \* no ip->nlink++
  /\ Holding(p, "link_ip") /\ inode[ip[p]].type # "dir"
  /\ Unlock(ip[p])
  /\ WalkFrom(p, new[p])
  /\ UNCHANGED <<disk, inode, ofile, cwd, menu, call, new, ip, dp, inum, putting, stray>>

link_inc(p) ==
  /\ Holding(p, "link_ip") /\ inode[ip[p]].type # "dir"
  /\ Update(ip[p], Nlink(ip[p], 1))
  /\ Unlock(ip[p])
  /\ WalkFrom(p, new[p])
  /\ UNCHANGED <<ent, ofile, cwd, menu, call, new, ip, dp, inum, putting, stray>>

\* dirlink() fails: the name exists, or there is no disk block.
link_exists(p) ==
  /\ InDir(p, "link_dp") /\ Found(p) # 0
  /\ iget(Found(p)) /\ Put(p, <<Found(p)>>)
  /\ Goto(p, "link_dpbad")
  /\ UNCHANGED <<disk, inode, lock, ofile, cwd, args, ptrs, stray>>

link_full(p) ==
  /\ InDir(p, "link_dp") /\ Found(p) = 0
  /\ Goto(p, "link_dpbad")
  /\ UNCHANGED <<disk, table, ofile, cwd, args, ptrs, putting, panicked, stray>>

link(p) ==
  /\ InDir(p, "link_dp") /\ Found(p) = 0
  /\ ent' = [ent EXCEPT ![dp[p]][Head(path[p])] = ip[p]]
  /\ Unlock(dp[p]) /\ Return(p, <<dp[p], ip[p]>>)
  /\ UNCHANGED <<dinode, inode, ref, valid, ofile, cwd, panicked>>

link_dpbad(p) ==
  /\ At(p, "link_dpbad")
  /\ Unlock(dp[p]) /\ Put(p, <<dp[p]>>) /\ dp' = [dp EXCEPT ![p] = 0]
  /\ Goto(p, "link_bad")
  /\ UNCHANGED <<disk, inode, ref, valid, ofile, cwd, args, w, ip, inum, panicked, stray>>

link_bad(p) ==
  /\ Holding(p, "link_bad")
  /\ Update(ip[p], Nlink(ip[p], -1))
  /\ Unlock(ip[p]) /\ Return(p, <<ip[p]>>)
  /\ UNCHANGED <<ent, ref, valid, ofile, cwd, panicked>>

-----------------------------------------------------------------------------
\* A disk made by mkfs, whose root directory is everybody's current one
Init ==
  /\ dinode = [i \in Inum |-> IF i = ROOTINO THEN [type |-> "dir", nlink |-> 1] ELSE Free]
  /\ ent = [i \in Inum |-> IF i = ROOTINO THEN [NoEntries EXCEPT ![".."] = ROOTINO]
                           ELSE NoEntries]
  /\ inode = [i \in Inum |-> Free]
  /\ ref = [i \in Inum |-> IF i = ROOTINO THEN Cardinality(Proc) ELSE 0]
  /\ valid = [i \in Inum |-> FALSE] /\ lock = [i \in Inum |-> None]
  /\ ofile = [p \in Proc |-> 0] /\ cwd = [p \in Proc |-> ROOTINO]
  /\ menu \in Menus
  /\ pc = [p \in Proc |-> "idle"] /\ call = [p \in Proc |-> "none"]
  /\ path = [p \in Proc |-> <<>>] /\ new = [p \in Proc |-> <<>>]
  /\ w = [p \in Proc |-> 0] /\ ip = [p \in Proc |-> 0] /\ dp = [p \in Proc |-> 0]
  /\ inum = [p \in Proc |-> 1]
  /\ puts = [p \in Proc |-> <<>>] /\ freeing = [p \in Proc |-> "no"]
  /\ panicked = "no" /\ stray = [p \in Proc |-> 0]

\* panic() does not return.
panic == panicked # "no" /\ UNCHANGED vars

Iput(p) == iput(p) \/ iput_free(p) \/ iput_invalid(p) \/ iput_drop(p)
namex(p) == namex_fails(p) \/ namex_parent(p) \/ namex_next(p) \/ namex_end(p)
create(p) ==
  \/ create_found(p) \/ create_old(p) \/ create_full(p) \/ ialloc_next(p) \/ ialloc(p)
  \/ create_new(p) \/ create_undo(p) \/ put_dp(p) \/ mk_end(p)
unlink(p) ==
  unlink_bad(p) \/ unlink_found(p) \/ unlink_notempty(p) \/ unlink_entry(p) \/ unlink_end(p)
Link(p) ==
  \/ link_isdir(p) \/ link_inc(p) \/ link_exists(p) \/ link_full(p) \/ link(p)
  \/ link_dpbad(p) \/ link_bad(p)

Next ==
  \/ \E p \in Proc :
       \/ \E c \in menu[p] : begin(p, c)
       \/ ilock(p) \/ Iput(p) \/ namex(p) \/ open_fails(p) \/ open(p) \/ close(p) \/ chdir(p)
       \/ create(p) \/ unlink(p) \/ Link(p)
  \/ panic

Spec == Init /\ [][Next]_vars

-----------------------------------------------------------------------------
Record == [type : {"none", "dir", "file", "device"}, nlink : Nat]
Ptr == Inum \cup {0}
PC == {"idle", "namex", "open", "chdir", "create", "create_old", "create_new", "put_dp",
       "mk_end", "unlink", "unlink_ip", "unlink_end", "link_ip", "link_dp",
       "link_dpbad", "link_bad"}

TypeOK ==
  /\ dinode \in [Inum -> Record] /\ inode \in [Inum -> Record]
  /\ ent \in [Inum -> [Name \cup {".."} -> Ptr]]
  /\ ref \in [Inum -> Nat] /\ valid \in [Inum -> BOOLEAN]
  /\ lock \in [Inum -> Proc \cup {None}]
  /\ ofile \in [Proc -> Ptr] /\ cwd \in [Proc -> Inum]
  /\ menu \in Menus /\ pc \in [Proc -> PC] /\ DOMAIN call = Proc
  /\ path \in [Proc -> Seq(Elem)] /\ new \in [Proc -> Seq(Elem)]
  /\ w \in [Proc -> Ptr] /\ ip \in [Proc -> Ptr] /\ dp \in [Proc -> Ptr]
  /\ inum \in [Proc -> 1 .. NINODES + 1]
  /\ puts \in [Proc -> Seq(Inum)]
  /\ freeing \in [Proc -> {"no", "free", "invalid", "drop"}]
  /\ stray \in [Proc -> Ptr]

\* A copy in the inode table that nobody holds locked is what is on disk,
\* although ialloc() and iput() write inodes that others refer to.
CopiesCurrent ==
  \A i \in Inum : ref[i] > 0 /\ valid[i] /\ lock[i] = None => inode[i] = dinode[i]

\* Types, and the inode table's copies.
FsInv == TypeOK /\ CopiesCurrent

\* ip->ref counts the pointers: those of open files and current directories
\* and those of calls in progress, on error paths too.
Count(f, i) == Cardinality({p \in DOMAIN f : f[p] = i})
Pointers(i) ==
  Count(w, i) + Count(ip, i) + Count(dp, i) + Count(ofile, i) + Count(cwd, i)
    + Cardinality({x \in Proc \X (1 .. 2) :
                     x[2] <= Len(puts[x[1]]) /\ puts[x[1]][x[2]] = i})
RefsCounted == \A i \in Inum : ref[i] = Pointers(i)

\* fs.c panics for two reasons only.  More than NINODE inodes are needed at
\* once, none of them by a reference that was lost.  Or a process has gone up
\* from a directory that was removed, as its current one may be, to a parent
\* that was removed after it and freed.  Otherwise an inode that somebody locks
\* is allocated, a name that is removed was counted, iput(), which takes
\* ip->lock with itable.lock held, never has to wait for it, and the parent
\* found by nameiparent() still is a directory when it has been locked again.
PanicHasReason ==
  /\ \/ panicked = "no"
     \/ panicked = "iget: no inodes" /\ Cardinality({i \in Inum : Pointers(i) > 0}) > NINODE
     \/ panicked = "ilock: no type" /\ \E p \in Proc : stray[p] # 0 /\ lock[stray[p]] = p
  /\ \A p \in Proc : pc[p] \in {"create", "unlink", "link_dp"} /\ lock[dp[p]] = p
                       => inode[dp[p]].type = "dir" \/ panicked # "no"

\* Nothing that can be reached from the root dangles: an open file, a current
\* directory and an entry other than ".." stand for an allocated inode, and a
\* directory with a name has only that one, in the directory that its ".."
\* stands for.  nlink counts these entries, ".." of directories with a name
\* included; unlink() discounts that of the directory that it removes, whose
\* ".." may dangle from then on.
Parents(i) == {d \in Inum \ {ROOTINO} : Naming(d) # {} /\ ent[d][".."] = i}
NothingDangles ==
  /\ \A p \in Proc : ofile[p] # 0 => dinode[ofile[p]].type # "none"
  /\ \A p \in Proc : dinode[cwd[p]].type = "dir"
  /\ \A i \in Inum : dinode[i].nlink >= Cardinality(Naming(i)) + Cardinality(Parents(i))
  /\ \A i \in Inum : Naming(i) # {} => dinode[i].type # "none"
  /\ \A d \in Inum : dinode[d].type = "dir" =>
       \A x \in Naming(d) : x[1] = ent[d][".."] /\ dinode[x[1]].type = "dir" /\ Naming(d) = {x}
=============================================================================
