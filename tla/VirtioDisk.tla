----------------------------- MODULE VirtioDisk ----------------------------
(***************************************************************************)
(* kernel/virtio_disk.c: the driver's rings, its descriptors and its       *)
(* interrupt handler, with a device that fetches requests, serves them in  *)
(* any order and raises interrupts concurrently with the CPUs.             *)
(*                                                                         *)
(* Each process has one buffer, which it locks and passes to               *)
(* virtio_disk_rw.  What is done under vdisk_lock between two sleeps is    *)
(* one step, except that the handler's loop takes a step per entry, since  *)
(* the device can add entries meanwhile.                                   *)
(***************************************************************************)
EXTENDS Integers, Sequences, FiniteSets

CONSTANTS Proc,
          NUM,      \* descriptors, and entries of each ring
          U16,      \* modulus of the ring indices (2^16 in C)
          None

ASSUME VirtioAssumption ==
  /\ IsFiniteSet(Proc) /\ None \notin Proc
  /\ NUM \in Nat /\ NUM >= 3 /\ U16 \in Nat \ {0} /\ U16 % NUM = 0

Desc == 0 .. NUM - 1

VARIABLES
  free,          \* disk.free: descriptors not in use
  desc,          \* disk.desc: the buffer pointed to, F_NEXT, next
  info,          \* disk.info[i].b
  avail, aidx,   \* disk.avail->ring and ->idx, written by the driver
  used, uidx,    \* disk.used->ring and ->idx, written by the device
  used_idx,      \* disk.used_idx
  disk,          \* b->disk, per process: its buffer is the device's
  pc, idx,       \* where each process stands, and its idx[0]
  handler,       \* virtio_disk_intr() is in its loop, with vdisk_lock held
  fetched, last, \* device: requests it works on, how far it has read avail
  raise, isr,    \* device: an interrupt it is about to raise; it has raised
  served,        \* the device has done the transfer for the process's request
  panicked

driver == <<free, desc, info, avail, aidx, used_idx, disk, pc, idx, handler, panicked>>
device == <<used, uidx, fetched, last, raise, isr, served>>
vars == <<driver, device>>

Unused == [buf |-> None, more |-> FALSE, next |-> 0]

\* vdisk_lock is free, for a process.
Unlocked == ~handler /\ panicked = "no"

\* pc after wakeup(), for the processes of S that sleep at l
Wake(S, l, f) == [q \in Proc |-> IF q \in S /\ f[q] = l
                                 THEN IF l = "nodesc" THEN "alloc" ELSE "done"
                                 ELSE f[q]]

-----------------------------------------------------------------------------
(* virtio_disk_rw()                                                        *)

\* alloc_desc(), three times: the free descriptors with the smallest numbers
FirstFree(i0, i1, i2) == i0 < i1 /\ i1 < i2 /\ \A j \in free : j \in {i0, i1} \/ i2 <= j

Start(p) ==
  /\ Unlocked /\ pc[p] = "idle"
  /\ pc' = [pc EXCEPT ![p] = "alloc"]
  /\ UNCHANGED <<free, desc, info, avail, aidx, used_idx, disk, idx, handler, panicked, device>>

MutantAlloc3(p) ==                  \* keeps the descriptors it got
  /\ Unlocked /\ pc[p] = "alloc" /\ Cardinality(free) < 3
  /\ free' = {}
  /\ pc' = [pc EXCEPT ![p] = "nodesc"]
  /\ UNCHANGED <<desc, info, avail, aidx, used_idx, disk, idx, handler, panicked, device>>

\* alloc3_desc() fails and gives back what it got; each free_desc() wakes
\* whoever waits for descriptors.  Then sleep(&disk.free[0]).
alloc3_fails(p) ==
  /\ Unlocked /\ pc[p] = "alloc" /\ Cardinality(free) < 3
  /\ desc' = [i \in Desc |-> IF i \in free THEN Unused ELSE desc[i]]
  /\ pc' = [(IF free = {} THEN pc ELSE Wake(Proc, "nodesc", pc)) EXCEPT ![p] = "nodesc"]
  /\ UNCHANGED <<free, info, avail, aidx, used_idx, disk, idx, handler, panicked, device>>

\* Three descriptors: format them, publish the request, notify the device,
\* and sleep on b.
submit(p) ==
  /\ Unlocked /\ pc[p] = "alloc"
  /\ \E i0, i1, i2 \in free :
       /\ FirstFree(i0, i1, i2)
       /\ free' = free \ {i0, i1, i2}
       /\ desc' = [desc EXCEPT ![i0] = [buf |-> None, more |-> TRUE, next |-> i1],
                               ![i1] = [buf |-> p, more |-> TRUE, next |-> i2],
                               ![i2] = [buf |-> None, more |-> FALSE, next |-> 0]]
       /\ info' = [info EXCEPT ![i0] = p]
       /\ avail' = [avail EXCEPT ![aidx % NUM] = i0]
       /\ idx' = [idx EXCEPT ![p] = i0]
  /\ aidx' = (aidx + 1) % U16
  /\ disk' = [disk EXCEPT ![p] = TRUE]
  /\ pc' = [pc EXCEPT ![p] = "wait"]
  /\ served' = [served EXCEPT ![p] = FALSE]
  /\ UNCHANGED <<used_idx, handler, panicked, used, uidx, fetched, last, raise, isr>>

\* What free_chain(i) frees, following F_NEXT and next.
Chain(i) ==
  LET j == desc[i].next  k == desc[j].next IN
  {i} \cup (IF desc[i].more THEN {j} ELSE {})
      \cup (IF desc[i].more /\ desc[j].more THEN {k} ELSE {})

\* Woken with b->disk = 0: free_chain(idx[0]), whose free_desc() calls wake
\* those who wait for descriptors.
finish(p) ==
  /\ Unlocked /\ pc[p] = "done" /\ ~disk[p]
  /\ LET C == Chain(idx[p]) IN
       /\ panicked' = IF C \cap free = {} THEN "no" ELSE "free_desc 2"
       /\ free' = free \cup C
       /\ desc' = [i \in Desc |-> IF i \in C THEN Unused ELSE desc[i]]
  /\ info' = [info EXCEPT ![idx[p]] = None]
  /\ pc' = [Wake(Proc, "nodesc", pc) EXCEPT ![p] = "idle"]
  /\ idx' = [idx EXCEPT ![p] = 0]
  /\ served' = [served EXCEPT ![p] = FALSE]
  /\ UNCHANGED <<avail, aidx, used_idx, disk, handler, used, uidx, fetched, last, raise, isr>>

-----------------------------------------------------------------------------
(* virtio_disk_intr(), entered when the device has raised an interrupt     *)

intr_ack ==
  /\ Unlocked /\ isr
  /\ handler' = TRUE /\ isr' = FALSE
  /\ UNCHANGED <<free, desc, info, avail, aidx, used_idx, disk, pc, idx, panicked,
                 used, uidx, fetched, last, raise, served>>

MutantIntrEntry ==                  \* reads one entry ahead
  LET b == info[used[(used_idx + 1) % NUM]] IN
  /\ handler /\ panicked = "no" /\ used_idx # uidx
  /\ panicked' = IF b = None THEN "null buf" ELSE "no"
  /\ IF b = None THEN UNCHANGED <<disk, pc, used_idx>>
     ELSE /\ disk' = [disk EXCEPT ![b] = FALSE]
          /\ pc' = Wake({b}, "wait", pc)
          /\ used_idx' = (used_idx + 1) % U16
  /\ UNCHANGED <<free, desc, info, avail, aidx, idx, handler, device>>

\* while(disk.used_idx != disk.used->idx): mark the buffer done, wakeup(b).
intr_entry ==
  LET b == info[used[used_idx % NUM]] IN
  /\ handler /\ panicked = "no" /\ used_idx # uidx
  /\ panicked' = IF b = None THEN "null buf" ELSE "no"
  /\ IF b = None THEN UNCHANGED <<disk, pc, used_idx>>
     ELSE /\ disk' = [disk EXCEPT ![b] = FALSE]
          /\ pc' = Wake({b}, "wait", pc)
          /\ used_idx' = (used_idx + 1) % U16
  /\ UNCHANGED <<free, desc, info, avail, aidx, idx, handler, device>>

MutantIntrReturn ==                 \* acknowledges after its last look at used->idx
  /\ handler /\ panicked = "no"
  /\ handler' = FALSE /\ isr' = FALSE
  /\ UNCHANGED <<free, desc, info, avail, aidx, used_idx, disk, pc, idx, panicked,
                 used, uidx, fetched, last, raise, served>>

intr_return ==
  /\ handler /\ panicked = "no" /\ used_idx = uidx
  /\ handler' = FALSE
  /\ UNCHANGED <<free, desc, info, avail, aidx, used_idx, disk, pc, idx, panicked, device>>

-----------------------------------------------------------------------------
(* The device                                                              *)

DevFetch ==
  /\ last # aidx
  /\ fetched' = fetched \cup {avail[last % NUM]}
  /\ last' = (last + 1) % U16
  /\ UNCHANGED <<driver, used, uidx, raise, isr, served>>

\* Serve any request it has: transfer the data, write status 0 and a used
\* entry; the interrupt comes later.
DevServe ==
  \E i \in fetched :
    LET b == desc[desc[i].next].buf IN
    /\ fetched' = fetched \ {i}
    /\ served' = IF b = None THEN served ELSE [served EXCEPT ![b] = TRUE]
    /\ used' = [used EXCEPT ![uidx % NUM] = i]
    /\ uidx' = (uidx + 1) % U16
    /\ raise' = TRUE
    /\ UNCHANGED <<driver, last, isr>>

\* It sets its interrupt status, which may be set already: no other interrupt
\* comes then for what it has served since.
DevInterrupt ==
  /\ raise
  /\ raise' = FALSE /\ isr' = TRUE
  /\ UNCHANGED <<driver, used, uidx, fetched, last, served>>

-----------------------------------------------------------------------------
\* virtio_disk_init()
Init ==
  /\ free = Desc /\ desc = [i \in Desc |-> Unused] /\ info = [i \in Desc |-> None]
  /\ avail = [i \in Desc |-> 0] /\ aidx = 0 /\ used = [i \in Desc |-> 0] /\ uidx = 0
  /\ used_idx = 0 /\ disk = [p \in Proc |-> FALSE]
  /\ pc = [p \in Proc |-> "idle"] /\ idx = [p \in Proc |-> 0] /\ handler = FALSE
  /\ fetched = {} /\ last = 0 /\ raise = FALSE /\ isr = FALSE
  /\ served = [p \in Proc |-> FALSE] /\ panicked = "no"

rw(p) == alloc3_fails(p) \/ submit(p) \/ finish(p)
virtio_disk_intr == intr_ack \/ intr_entry \/ intr_return
Device == DevFetch \/ DevServe \/ DevInterrupt
Next == (\E p \in Proc : Start(p) \/ rw(p)) \/ virtio_disk_intr \/ Device

Spec == Init /\ [][Next]_vars

-----------------------------------------------------------------------------
TypeOK ==
  /\ free \subseteq Desc /\ info \in [Desc -> Proc \cup {None}]
  /\ desc \in [Desc -> [buf : Proc \cup {None}, more : BOOLEAN, next : Desc]]
  /\ avail \in [Desc -> Desc] /\ used \in [Desc -> Desc]
  /\ {aidx, uidx, used_idx, last} \subseteq 0 .. U16 - 1
  /\ disk \in [Proc -> BOOLEAN] /\ served \in [Proc -> BOOLEAN]
  /\ pc \in [Proc -> {"idle", "alloc", "nodesc", "wait", "done"}]
  /\ idx \in [Proc -> Desc] /\ handler \in BOOLEAN
  /\ fetched \subseteq Desc /\ raise \in BOOLEAN /\ isr \in BOOLEAN
  /\ panicked \in {"no", "free_desc 2", "null buf"}

\* Requests in the avail ring that the device has not fetched yet
Pending == {avail[(last + n) % NUM] : n \in 0 .. ((aidx - last) % U16) - 1}

\* The device works only on buffers whose process is still waiting for it: no
\* transfer goes to a buffer after virtio_disk_rw() has returned, which it does
\* only when it was served, and no descriptor of a request in flight is reused.
NoStrayTransfer ==
  /\ \A i \in Pending \cup fetched :
       LET b == desc[desc[i].next].buf IN
       b # None /\ disk[b] /\ ~served[b] /\ Chain(i) \cap free = {} /\ idx[b] = i
  /\ \A p \in Proc : pc[p] = "done" => served[p]

\* Every descriptor is free or in the chain of exactly one waiting process.
Busy == {p \in Proc : pc[p] \in {"wait", "done"}}
NoDescriptorLeaks ==
  /\ Cardinality(free) + 3 * Cardinality(Busy) = NUM
  /\ \A p, q \in Busy : p # q => Chain(idx[p]) \cap Chain(idx[q]) = {}

\* Types, the descriptors, and no panic(): neither free_desc() nor the handler
\* meets a descriptor or a buffer that is not in the state it asserts, in
\* whatever order requests complete.
RingInv == TypeOK /\ NoDescriptorLeaks /\ panicked = "no"

\* Nobody sleeps for ever: a completion is never left in the used ring with no
\* interrupt to come, although the handler acknowledges before it reads the
\* ring; and whoever sleeps for descriptors sleeps because there are too few,
\* though the descriptors are freed, and the sleepers woken, one by one.
SleepersHaveReason ==
  /\ used_idx # uidx => raise \/ isr \/ handler
  /\ \A p \in Proc : pc[p] = "nodesc" => Cardinality(free) < 3
=============================================================================
