-------------------------------- MODULE Files --------------------------------
(***************************************************************************)
(* What the file calls promise: a file is a sequence of bytes, an open     *)
(* file has an offset that everybody who shares it uses, and a write() is  *)
(* a number of pieces, each of which goes where the offset was when the    *)
(* piece began, with nobody else reading or writing the file meanwhile.    *)
(***************************************************************************)
EXTENDS Integers, Sequences

CONSTANTS Proc, File, Inum, MAX,  \* MAX: the length of the largest file
          None

VARIABLES content,   \* of every file
          ip, off,   \* of every open file: which one, 0 if it is not open; offset
          busy       \* who writes a piece: to which open file, and how much of it
                     \* is done
vars == <<content, ip, off, busy>>

Unused(i) == \A p \in Proc : busy[p] # None => ip[busy[p].f] # i

\* b's from position at on
Overlay(s, at, n, b) ==
  [k \in 1 .. (IF at + n > Len(s) THEN at + n ELSE Len(s)) |->
     IF k > at /\ k <= at + n THEN b ELSE s[k]]

Open(f, i) ==
  /\ ip[f] = 0 /\ ip' = [ip EXCEPT ![f] = i] /\ off' = [off EXCEPT ![f] = 0]
  /\ UNCHANGED busy
OpenKeeping(f, i) == Open(f, i) /\ UNCHANGED content
OpenTruncating(f, i) == Open(f, i) /\ Unused(i) /\ content' = [content EXCEPT ![i] = <<>>]

\* The last close() of a file that has no name any more discards it.
Close(f) ==
  /\ ip' = [ip EXCEPT ![f] = 0] /\ off' = [off EXCEPT ![f] = 0]
  /\ \A p \in Proc : busy[p] # None => busy[p].f # f
  /\ UNCHANGED <<content, busy>>
Discard(i) ==
  /\ \A f \in File : ip[f] # i
  /\ content' = [content EXCEPT ![i] = <<>>] /\ UNCHANGED <<ip, off, busy>>

Read(f) ==
  /\ ip[f] # 0 /\ Unused(ip[f])
  /\ \E n \in 1 .. Len(content[ip[f]]) - off[f] : off' = [off EXCEPT ![f] = @ + n]
  /\ UNCHANGED <<content, ip, busy>>

Start(p, f) ==
  /\ ip[f] # 0 /\ Unused(ip[f]) /\ off[f] <= Len(content[ip[f]])
  /\ busy[p] = None /\ busy' = [busy EXCEPT ![p] = [f |-> f, done |-> 0]]
  /\ UNCHANGED <<content, ip, off>>

Writing(p, f) == busy[p] # None /\ busy[p].f = f

Put(p, f, n) ==
  /\ off[f] + busy[p].done + n <= MAX
  /\ content' = [content EXCEPT ![ip[f]] = Overlay(@, off[f] + busy[p].done, n, p)]
  /\ busy' = [busy EXCEPT ![p].done = @ + n] /\ UNCHANGED <<ip, off>>

\* Memory that cannot be read leaves a mess, within the file and of what was
\* to be written.
Fault(p, f, n) ==
  /\ off[f] + busy[p].done + n <= Len(content[ip[f]])
  /\ content' = [content EXCEPT ![ip[f]] = Overlay(@, off[f] + busy[p].done, n, p)]
  /\ UNCHANGED <<ip, off, busy>>

Finish(p, f) ==
  /\ Writing(p, f) /\ off' = [off EXCEPT ![f] = @ + busy[p].done]
  /\ busy' = [busy EXCEPT ![p] = None] /\ UNCHANGED <<content, ip>>

Init ==
  /\ DOMAIN content = Inum /\ \A i \in Inum : Len(content[i]) <= MAX
  /\ ip = [f \in File |-> 0] /\ off = [f \in File |-> 0] /\ busy = [p \in Proc |-> None]
Next ==
  \/ \E f \in File, i \in Inum : OpenKeeping(f, i) \/ OpenTruncating(f, i)
  \/ \E f \in File : Close(f) \/ Read(f)
  \/ \E i \in Inum : Discard(i)
  \/ \E p \in Proc, f \in File :
       \/ Start(p, f) \/ Finish(p, f)
       \/ Writing(p, f) /\ \E n \in 1 .. MAX : Put(p, f, n) \/ Fault(p, f, n)

Spec == Init /\ [][Next]_vars
=============================================================================
