---------------------------- MODULE FiniteFacts -----------------------------
(***************************************************************************)
(* The facts about finite sets that the proofs about Log, Bcache and Files *)
(* use.  The lemmas that count something take FiniteSetFacts as a          *)
(* hypothesis; each of these developments derives it once, at its end,     *)
(* from the library's theorems.                                            *)
(***************************************************************************)
EXTENDS Integers, FiniteSets

EmptyFact == Cardinality({}) = 0 /\ IsFiniteSet({})

CountFact ==
  \A S : IsFiniteSet(S) => Cardinality(S) \in Nat /\ (Cardinality(S) = 0 <=> S = {})

SubsetFact ==
  \A S, T : IsFiniteSet(S) /\ T \subseteq S =>
              IsFiniteSet(T) /\ Cardinality(T) <= Cardinality(S)

AddFact ==
  \A S, x : IsFiniteSet(S) =>
    /\ IsFiniteSet(S \cup {x})
    /\ x \notin S => Cardinality(S \cup {x}) = Cardinality(S) + 1

RemoveFact ==
  \A S, x : IsFiniteSet(S) =>
    /\ IsFiniteSet(S \ {x})
    /\ x \in S => Cardinality(S \ {x}) = Cardinality(S) - 1

IntervalFact ==
  \A n \in Nat : IsFiniteSet(0..n) /\ IsFiniteSet(1..n) /\ Cardinality(1..n) = n

ProductFact ==
  \A S, T : IsFiniteSet(S) /\ IsFiniteSet(T) =>
    IsFiniteSet(S \X T) /\ Cardinality(S \X T) = Cardinality(S) * Cardinality(T)

UnionFact ==
  \A S, T : IsFiniteSet(S) /\ IsFiniteSet(T) =>
    Cardinality(S \cup T) = Cardinality(S) + Cardinality(T) - Cardinality(S \cap T)

\* f takes different elements of S to different elements of T.
OneToOne(f, S, T) == f \in [S -> T] /\ \A a, b \in S : f[a] = f[b] => a = b

InjectionFact ==
  \A f, S, T : OneToOne(f, S, T) /\ IsFiniteSet(T) =>
    IsFiniteSet(S) /\ Cardinality(S) <= Cardinality(T)

LeastFact == \A S \in SUBSET Nat : S # {} => \E x \in S : \A y \in S : x <= y

FiniteSetFacts ==
  /\ EmptyFact /\ CountFact /\ SubsetFact /\ AddFact /\ RemoveFact /\ IntervalFact
  /\ ProductFact /\ UnionFact /\ InjectionFact /\ LeastFact
=============================================================================
