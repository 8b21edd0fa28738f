-------------------------------- MODULE MCFs --------------------------------
(* Fs on small instances.                                                  *)
EXTENDS Fs, TLC
CONSTANTS p1, p2

Call(c, a) == [call |-> c, path |-> a, new |-> <<>>]
LinkTo(a, b) == [call |-> "link", path |-> a, new |-> b]

\* In each menu one process makes files and directories in the root directory
\* and below it.  The other links and removes them; or enters a directory that
\* is removed, and opens a file that was in it; or goes up from a directory two
\* levels down, when both levels may have been removed under it.
MCMenus ==
  {p1 :> {Call("mknod", <<"b">>), Call("unlink", <<"b">>), Call("mkdir", <<"a">>)} @@
   p2 :> {Call("unlink", <<"a">>), Call("unlink", <<"a", "b">>),
          LinkTo(<<"b">>, <<"a", "b">>), LinkTo(<<"a">>, <<"b">>)},
   p1 :> {Call("mkdir", <<"a">>), Call("creat", <<"a", "b">>)} @@
   p2 :> {Call("unlink", <<"/", "a">>), Call("unlink", <<"b">>), Call("open", <<"b">>),
          Call("chdir", <<"a">>)},
   p1 :> {Call("mkdir", <<"/", "a">>), Call("mkdir", <<"/", "a", "b">>),
          Call("unlink", <<"/", "a", "b">>), Call("unlink", <<"/", "a">>)} @@
   p2 :> {Call("chdir", <<"a", "b">>), Call("chdir", <<"..">>), Call("chdir", <<"/">>)}}
=============================================================================
