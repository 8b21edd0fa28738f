------------------------------ MODULE AddrSpace ------------------------------
(***************************************************************************)
(* What virtual memory promises to processes: each has a memory of its     *)
(* own, of sz bytes; fork() copies it, exec() replaces it, sbrk() extends  *)
(* it by zeroes or cuts it, all at once or not at all, and a store is seen *)
(* by nobody else.                                                         *)
(***************************************************************************)
EXTENDS Integers

CONSTANTS Slot, PGSIZE, Byte,  \* what a page may hold (one value per page)
          None

VARIABLE image  \* the memory of each process: its size and its pages

Pages(n) == (n + PGSIZE - 1) \div PGSIZE
Content == Byte \cup {"guard"}

Fork(p, q) ==
  /\ image[p] # None /\ image[q] = None
  /\ image' = [image EXCEPT ![q] = image[p]]

\* A new program has a stack page at its end, and a guard page below that.
Exec(p) ==
  /\ image[p] # None /\ image'[p] # None
  /\ LET n == Pages(image'[p].sz) IN
     /\ image'[p].page \in [0 .. n - 1 -> Content]
     /\ \A v \in 0 .. n - 1 : image'[p].page[v] = "guard" <=> v = n - 2
  /\ \A q \in Slot \ {p} : image'[q] = image[q]

Grow(p) ==
  /\ image[p] # None /\ image'[p] # None
  /\ image'[p].sz >= image[p].sz
  /\ image' = [image EXCEPT ![p] = [sz |-> image'[p].sz,
                                    page |-> [v \in 0 .. Pages(image'[p].sz) - 1 |->
                                                IF v < Pages(image[p].sz)
                                                THEN image[p].page[v] ELSE "zero"]]]

Shrink(p) ==
  /\ image[p] # None /\ image'[p] # None
  /\ image'[p].sz <= image[p].sz
  /\ image' = [image EXCEPT ![p] = [sz |-> image'[p].sz,
                                    page |-> [v \in 0 .. Pages(image'[p].sz) - 1 |->
                                                image[p].page[v]]]]

\* By a program, or by copyout() for it
Store(p) ==
  /\ image[p] # None
  /\ \E lo, hi \in DOMAIN image[p].page, c \in Byte :
       /\ \A v \in lo .. hi : image[p].page[v] # "guard"
       /\ image' = [image EXCEPT ![p].page = [v \in DOMAIN @ |-> IF v \in lo .. hi THEN c ELSE @[v]]]

Exit(p) == image[p] # None /\ image' = [image EXCEPT ![p] = None]

Init ==
  \E p \in Slot :
    /\ image[p] # None /\ image[p].sz = PGSIZE /\ image[p].page \in [{0} -> Byte]
    /\ image = [q \in Slot |-> IF q = p THEN image[p] ELSE None]

Next ==
  \E p \in Slot :
    \/ \E q \in Slot : Fork(p, q)
    \/ Exec(p) \/ Grow(p) \/ Shrink(p) \/ Store(p) \/ Exit(p)

Spec == Init /\ [][Next]_image
=============================================================================
