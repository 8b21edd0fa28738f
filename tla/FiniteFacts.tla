---------------------------- MODULE FiniteFacts ----------------------------
(***************************************************************************)
(* What the proofs use of finite sets.  The step lemmas of LogProofs,      *)
(* BcacheProofs and VirtioProofs take Counting as a hypothesis; each of    *)
(* these modules proves it from the library's FiniteSetTheorems before its *)
(* theorems, so that the steps are proved without those in their context.  *)
(***************************************************************************)
EXTENDS Integers, FiniteSets

Counting ==
  /\ IsFiniteSet({}) /\ Cardinality({}) = 0
  /\ \A S : IsFiniteSet(S) => Cardinality(S) \in Nat /\ (Cardinality(S) = 0 => S = {})
  /\ \A S, T : IsFiniteSet(S) /\ T \subseteq S => IsFiniteSet(T) /\ Cardinality(T) <= Cardinality(S)
  /\ \A S, x : IsFiniteSet(S) /\ x \notin S
                 => IsFiniteSet(S \cup {x}) /\ Cardinality(S \cup {x}) = Cardinality(S) + 1
  /\ \A S, x : IsFiniteSet(S) /\ x \in S
                 => IsFiniteSet(S \ {x}) /\ Cardinality(S \ {x}) = Cardinality(S) - 1
=============================================================================
