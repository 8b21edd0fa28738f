--------------------------------- MODULE Tty ---------------------------------
(***************************************************************************)
(* What the console promises to the programs that use it.  A line can be   *)
(* edited until it is complete; then its characters reach the reads in     *)
(* progress in the order typed, each of them one read.  No read goes past  *)
(* the end of a line or past an end-of-file mark: a mark ends the read     *)
(* that comes to it and, when that had got something, another one too.     *)
(* What programs write is sent in order.                                   *)
(***************************************************************************)
EXTENDS Naturals, Sequences

CONSTANTS Reader, Lengths,      \* programs; how much a read may ask for
          Char, OutChar, SIZE   \* SIZE: the characters that can wait

VARIABLES edit, ready,  \* the line being typed; the characters to be read
          want, got,    \* what each read in progress asks for and has got
          killed,       \* who has been killed, and will not read again
          out           \* what was written and is not yet sent

vars == <<edit, ready, want, got, killed, out>>

Init ==
  /\ edit = <<>> /\ ready = <<>> /\ out = <<>>
  /\ want = [p \in Reader |-> 0] /\ got = [p \in Reader |-> <<>>]
  /\ killed = [p \in Reader |-> FALSE]

\* A line is complete at its end, at end-of-file, or when there is no more room.
Type(c) ==
  /\ Len(ready) + Len(edit) < SIZE
  /\ IF c \in {"nl", "eof"} \/ Len(ready) + Len(edit) = SIZE - 1
     THEN ready' = ready \o Append(edit, c) /\ edit' = <<>>
     ELSE edit' = Append(edit, c) /\ UNCHANGED ready
  /\ UNCHANGED <<want, got, killed, out>>

Erase ==
  /\ edit # <<>> /\ edit' = SubSeq(edit, 1, Len(edit) - 1)
  /\ UNCHANGED <<ready, want, got, killed, out>>

Read(p, k) ==
  /\ want[p] = 0 /\ want' = [want EXCEPT ![p] = k]
  /\ UNCHANGED <<edit, ready, got, killed, out>>

Finished(p) == Len(got[p]) = want[p] \/ (got[p] # <<>> /\ got[p][Len(got[p])] = "nl")
Comes(p, c) == ~Finished(p) /\ ready # <<>> /\ Head(ready) = c

Get(p) ==
  /\ \E c \in Char \ {"eof"} : Comes(p, c)
  /\ got' = [got EXCEPT ![p] = Append(@, Head(ready))]
  /\ ready' = Tail(ready) /\ UNCHANGED <<edit, want, killed, out>>

\* p's read ends; a program that was killed is gone then, and another takes its place.
End(p) ==
  /\ want' = [want EXCEPT ![p] = 0] /\ got' = [got EXCEPT ![p] = <<>>]
  /\ killed' = [killed EXCEPT ![p] = FALSE] /\ UNCHANGED <<edit, out>>

Return(p) ==
  /\ \/ Finished(p)
     \/ Comes(p, "eof") /\ got[p] # <<>>
     \/ killed[p] /\ ready = <<>>
  /\ End(p) /\ UNCHANGED ready

\* A read that has got nothing takes the mark away; a read into memory that is
\* not there loses a character.
GetEof(p) == Comes(p, "eof") /\ got[p] = <<>> /\ End(p) /\ ready' = Tail(ready)
Fault(p) == (\E c \in Char \ {"eof"} : Comes(p, c)) /\ End(p) /\ ready' = Tail(ready)

Kill(p) ==
  /\ killed' = [killed EXCEPT ![p] = TRUE]
  /\ UNCHANGED <<edit, ready, want, got, out>>

Write(c) == out' = Append(out, c) /\ UNCHANGED <<edit, ready, want, got, killed>>
Send == out # <<>> /\ out' = Tail(out) /\ UNCHANGED <<edit, ready, want, got, killed>>

Next ==
  \/ \E c \in Char : Type(c)
  \/ Erase \/ Send \/ \E c \in OutChar : Write(c)
  \/ \E p \in Reader :
       Get(p) \/ GetEof(p) \/ Fault(p) \/ Return(p) \/ Kill(p) \/ \E k \in Lengths : Read(p, k)

Spec == Init /\ [][Next]_vars
=============================================================================
