----------------------------- MODULE IndexLemmas -----------------------------
(***************************************************************************)
(* Facts about the index searches the models are built from.  SelectInSeq *)
(* of the community modules returns Min of the set of matching indices,    *)
(* and Min is a CHOOSE: it names the least index only once the set is      *)
(* known to have a least element, which the well-foundedness of < on Nat   *)
(* provides.                                                               *)
(***************************************************************************)
EXTENDS Integers, SequencesExt, WellFoundedInduction, TLAPS

\* Every non-empty set of naturals has a least element.
LEMMA NatMin ==
    ASSUME NEW I \in SUBSET Nat, I # {}
    PROVE  \E k \in I : \A j \in I : k <= j
<1>1. PICK x \in I : \A y \in I : ~(<<y, x>> \in OpToRel(<, Nat))
  BY NatLessThanWellFounded, WFMin
<1>2. ASSUME NEW y \in I PROVE x <= y
  <2>1. ~(<<y, x>> \in OpToRel(<, Nat))
    BY <1>1
  <2>2. <<y, x>> \in Nat \X Nat
    OBVIOUS
  <2>3. ~(y < x)
    BY <2>1, <2>2 DEF OpToRel
  <2>4. QED
    BY <2>3
<1>3. QED
  BY <1>2

\* Min of a non-empty set of naturals is its least element.
LEMMA MinIsLeast ==
    ASSUME NEW I \in SUBSET Nat, I # {}
    PROVE  Min(I) \in I /\ \A j \in I : Min(I) <= j
BY NatMin DEF Min
=============================================================================
