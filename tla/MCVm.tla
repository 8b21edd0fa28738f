-------------------------------- MODULE MCVm --------------------------------
(* Vm on a small instance: pages of two bytes, twenty of them.           *)
EXTENDS Vm

\* A program whose second segment lies inside the first, and one whose only
\* segment is empty
MCImages == {<<2, 1>>, <<0>>}
MCDeltas == {3, -3}
=============================================================================
