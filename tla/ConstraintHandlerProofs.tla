------------------------ MODULE ConstraintHandlerProofs ------------------------
(***************************************************************************)
(* Proofs about the ConstraintHandler for every set of configurations,     *)
(* constraints and step bound: CheckStateConstraintsAcrossSegment returns  *)
(* the longest valid prefix, and CheckSegmentAndStateValidity never        *)
(* accepts a segment, or returns a prefix, that violates a constraint.     *)
(* Both rest on what SelectInSeq returns for the first failing state.      *)
(***************************************************************************)
EXTENDS ConstraintHandler, IndexLemmas, SequenceTheorems, TLAPS

\* The index of the first interpolated state that fails a state constraint.
FirstBad(path) == SelectInSeq(path, LAMBDA x : ~AllStatesPass(x))

\* An interpolation path is a sequence of at least two configurations.
LEMMA PathIsSeq ==
    ASSUME NEW seg, NEW path \in Paths(seg)
    PROVE  path \in Seq(Configs) /\ Len(path) >= 2 /\ Len(path) <= MaxSteps + 1
<1>1. PICK n \in 2..MaxSteps + 1 : path \in [1..n -> Configs]
  BY DEF Paths
<1>2. path \in Seq(Configs)
  BY <1>1, MaxStepsAssumption, SeqDef
<1>3. Len(path) = n
  BY <1>1, <1>2, LenProperties, MaxStepsAssumption
<1>4. QED
  BY <1>2, <1>3, MaxStepsAssumption

(***************************************************************************)
(* FirstBad is 0 when every state passes, and otherwise the index of a     *)
(* failing state before which every state passes.                          *)
(***************************************************************************)
LEMMA FirstBadFacts ==
    ASSUME NEW path \in Seq(Configs)
    PROVE  /\ FirstBad(path) = 0 => \A j \in 1..Len(path) : AllStatesPass(path[j])
           /\ FirstBad(path) # 0 =>
                /\ FirstBad(path) \in 1..Len(path)
                /\ ~AllStatesPass(path[FirstBad(path)])
                /\ \A j \in 1..(FirstBad(path) - 1) : AllStatesPass(path[j])
<1> DEFINE I == {i \in 1..Len(path) : ~AllStatesPass(path[i])}
<1>1. FirstBad(path) = IF I # {} THEN Min(I) ELSE 0
  BY DEF FirstBad, SelectInSeq
<1>2. CASE I = {}
  BY <1>1, <1>2
<1>3. CASE I # {}
  <2>1. I \in SUBSET Nat
    BY LenProperties
  <2>2. Min(I) \in I /\ \A j \in I : Min(I) <= j
    BY <1>3, <2>1, MinIsLeast
  <2>3. FirstBad(path) = Min(I)
    BY <1>1, <1>3
  <2>4. Min(I) \in 1..Len(path) /\ ~AllStatesPass(path[Min(I)])
    BY <2>2
  <2>5. ASSUME NEW j \in 1..(Min(I) - 1) PROVE AllStatesPass(path[j])
    <3>1. j \in 1..Len(path) /\ j < Min(I)
      BY <2>4, LenProperties
    <3>2. j \notin I
      BY <2>2, <3>1
    <3>3. QED
      BY <3>1, <3>2
  <2>6. QED
    BY <2>3, <2>4, <2>5
<1>4. QED
  BY <1>2, <1>3

\* The longest valid prefix ends just before the first failing state.
LEMMA PrefixLength ==
    ASSUME NEW path \in Seq(Configs)
    PROVE  ValidPrefixLength(path) =
               IF FirstBad(path) = 0 THEN Len(path) ELSE FirstBad(path) - 1
<1> DEFINE P(k) == /\ \A j \in 1..k : AllStatesPass(path[j])
                   /\ k < Len(path) => ~AllStatesPass(path[k + 1])
           k0 == IF FirstBad(path) = 0 THEN Len(path) ELSE FirstBad(path) - 1
<1>0. Len(path) \in Nat
  BY LenProperties
<1>1. k0 \in 0..Len(path) /\ P(k0)
  <2>1. CASE FirstBad(path) = 0
    BY <1>0, <2>1, FirstBadFacts
  <2>2. CASE FirstBad(path) # 0
    BY <1>0, <2>2, FirstBadFacts
  <2>3. QED
    BY <2>1, <2>2
<1>2. ASSUME NEW k \in 0..Len(path), P(k) PROVE k = k0
  <2>1. CASE FirstBad(path) = 0
    BY <1>0, <1>2, <2>1, FirstBadFacts
  <2>2. CASE FirstBad(path) # 0
    <3>1. /\ FirstBad(path) \in 1..Len(path)
          /\ ~AllStatesPass(path[FirstBad(path)])
          /\ \A j \in 1..(FirstBad(path) - 1) : AllStatesPass(path[j])
      BY <2>2, FirstBadFacts
    <3>2. ~(k >= FirstBad(path))
      BY <1>2, <3>1
    <3>3. ~(k < FirstBad(path) - 1)
      BY <1>0, <1>2, <3>1
    <3>4. QED
      BY <1>0, <2>2, <3>1, <3>2, <3>3
  <2>3. QED
    BY <2>1, <2>2
<1>3. QED
  BY <1>1, <1>2 DEF ValidPrefixLength

(***************************************************************************)
(* What CheckStateConstraintsAcrossSegment returns for a segment whose     *)
(* Frame is known, by the index of the first failing state.                *)
(***************************************************************************)
LEMMA AcrossCases ==
    ASSUME NEW seg \in SegmentInputs, NEW path \in Seq(Configs), seg.frame
    PROVE  /\ FirstBad(path) = 0 => AcrossSegment(seg, path) = [ok |-> TRUE, sub |-> NoSub]
           /\ FirstBad(path) = 1 => AcrossSegment(seg, path) = [ok |-> FALSE, sub |-> NoSub]
           /\ FirstBad(path) \notin {0, 1} =>
                AcrossSegment(seg, path) =
                  [ok |-> FALSE,
                   sub |-> <<[start |-> seg.start, end |-> path[FirstBad(path) - 1],
                              frame |-> FALSE, poses |-> FALSE]>>]
BY DEF AcrossSegment, FirstBad, SegmentResolves

(***************************************************************************)
(* CheckStateConstraintsAcrossSegment, for a segment whose Frame is known: *)
(* true exactly when every state passes, and a sub-segment exactly when    *)
(* the first failure is neither the start nor absent, ending on the last   *)
(* state before it.                                                        *)
(***************************************************************************)
LEMMA AcrossCorrect ==
    ASSUME NEW seg \in SegmentInputs, NEW path \in Paths(seg), seg.frame
    PROVE  LET r == AcrossSegment(seg, path)
               k == ValidPrefixLength(path)
           IN  /\ r.ok <=> k = Len(path)
               /\ r.sub # NoSub <=> 0 < k /\ k < Len(path)
               /\ r.sub # NoSub => r.sub[1].end = path[k]
<1>1. path \in Seq(Configs) /\ Len(path) >= 2
  BY PathIsSeq
<1>2. ValidPrefixLength(path) =
          IF FirstBad(path) = 0 THEN Len(path) ELSE FirstBad(path) - 1
  BY <1>1, PrefixLength
<1>3. FirstBad(path) = 0 \/ FirstBad(path) \in 1..Len(path)
  BY <1>1, FirstBadFacts
<1>4. CASE FirstBad(path) = 0
  BY <1>1, <1>2, <1>4, AcrossCases DEF NoSub
<1>5. CASE FirstBad(path) = 1
  BY <1>1, <1>2, <1>5, AcrossCases DEF NoSub
<1>6. CASE FirstBad(path) \in 2..Len(path)
  <2> DEFINE b == FirstBad(path)
             sub1 == [start |-> seg.start, end |-> path[b - 1], frame |-> FALSE,
                      poses |-> FALSE]
  <2>1. AcrossSegment(seg, path) = [ok |-> FALSE, sub |-> <<sub1>>]
    BY <1>1, <1>6, AcrossCases
  <2>2. ValidPrefixLength(path) = b - 1 /\ 0 < b - 1 /\ b - 1 < Len(path)
    BY <1>2, <1>6
  <2>3. <<sub1>> # NoSub /\ <<sub1>>[1].end = path[b - 1]
    BY DEF NoSub
  <2>4. QED
    BY <2>1, <2>2, <2>3
<1>7. QED
  BY <1>1, <1>3, <1>4, <1>5, <1>6


\* Whatever the Frame: an accepted segment has no failing state, and a
\* sub-segment ends just before the first failing state, which is not the
\* start.
LEMMA AcrossFacts ==
    ASSUME NEW seg \in SegmentInputs, NEW path \in Seq(Configs)
    PROVE  /\ AcrossSegment(seg, path).ok => FirstBad(path) = 0
           /\ AcrossSegment(seg, path).sub # NoSub =>
                /\ FirstBad(path) \notin {0, 1}
                /\ AcrossSegment(seg, path).sub[1].end = path[FirstBad(path) - 1]
BY DEF AcrossSegment, FirstBad, NoSub

(***************************************************************************)
(* CheckSegmentAndStateValidity: an accepted segment passes every segment  *)
(* constraint and all its states pass; a returned prefix passes the        *)
(* segment constraints and ends on a state that passes.                    *)
(***************************************************************************)
LEMMA ValidityCorrect ==
    ASSUME NEW seg \in SegmentInputs, NEW path \in Paths(seg)
    PROVE  LET r == SegmentAndStateValidity(seg, path) IN
           /\ r.ok => /\ FailingSegment(seg) = {}
                      /\ \A j \in 1..Len(path) : AllStatesPass(path[j])
           /\ r.sub # NoSub => /\ FailingSegment(r.sub[1]) = {}
                               /\ AllStatesPass(r.sub[1].end)
<1> DEFINE across == AcrossSegment(seg, path)
           r == SegmentAndStateValidity(seg, path)
<1>1. path \in Seq(Configs)
  BY PathIsSeq
<1>2. CASE FailingSegment(seg) # {}
  <2>1. r = [ok |-> FALSE, sub |-> NoSub]
    BY <1>2 DEF SegmentAndStateValidity
  <2>2. QED
    BY <2>1
<1>3. CASE FailingSegment(seg) = {} /\ across.ok
  <2>1. r = [ok |-> TRUE, sub |-> NoSub]
    BY <1>3 DEF SegmentAndStateValidity
  <2>2. FirstBad(path) = 0
    BY <1>1, <1>3, AcrossFacts
  <2>3. \A j \in 1..Len(path) : AllStatesPass(path[j])
    BY <1>1, <2>2, FirstBadFacts
  <2>4. QED
    BY <1>3, <2>1, <2>3
<1>4. CASE /\ FailingSegment(seg) = {} /\ ~across.ok
           /\ across.sub # NoSub /\ FailingSegment(across.sub[1]) = {}
  <2>1. r = across
    BY <1>4 DEF SegmentAndStateValidity
  <2>2. FirstBad(path) \notin {0, 1} /\ across.sub[1].end = path[FirstBad(path) - 1]
    BY <1>1, <1>4, AcrossFacts
  <2>3. FirstBad(path) \in 1..Len(path)
        /\ \A j \in 1..(FirstBad(path) - 1) : AllStatesPass(path[j])
    BY <1>1, <2>2, FirstBadFacts
  <2>4. AllStatesPass(path[FirstBad(path) - 1])
    BY <2>2, <2>3
  <2>5. QED
    BY <1>4, <2>1, <2>2, <2>4
<1>5. CASE /\ FailingSegment(seg) = {} /\ ~across.ok
           /\ ~(across.sub # NoSub /\ FailingSegment(across.sub[1]) = {})
  <2>1. r = [ok |-> FALSE, sub |-> NoSub]
    BY <1>5 DEF SegmentAndStateValidity
  <2>2. QED
    BY <2>1
<1>6. QED
  BY <1>2, <1>3, <1>4, <1>5


(***************************************************************************)
(* The inductive invariant: the last check's result is what the check     *)
(* computes on its arguments, a segment and one of its interpolations,     *)
(* for the constraints registered now.  Registering or removing a          *)
(* constraint is itself a call, so it replaces the last check.             *)
\* The checks read the registered constraints only.
LEMMA ChecksUnchanged ==
    ASSUME NEW seg, NEW path,
           stateConstraints' = stateConstraints,
           segmentConstraints' = segmentConstraints
    PROVE  /\ AcrossSegment(seg, path)' = AcrossSegment(seg, path)
           /\ SegmentAndStateValidity(seg, path)' = SegmentAndStateValidity(seg, path)
<1>1. \A x : AllStatesPass(x)' = AllStatesPass(x)
  BY DEF AllStatesPass, FailingState, StatePasses
<1>2. \A s : FailingSegment(s)' = FailingSegment(s)
  BY DEF FailingSegment, SegmentPasses, SegmentResolves
<1>3. FirstBad(path)' = FirstBad(path)
  <2> DEFINE I == {i \in 1..Len(path) : ~AllStatesPass(path[i])}
  <2>1. I' = I
    BY <1>1
  <2>2. FirstBad(path) = IF I # {} THEN Min(I) ELSE 0
    BY DEF FirstBad, SelectInSeq
  <2>3. FirstBad(path)' = IF I' # {} THEN Min(I') ELSE 0
    BY DEF FirstBad, SelectInSeq
  <2>4. QED
    BY <2>1, <2>2, <2>3
<1>4. AcrossSegment(seg, path)' = AcrossSegment(seg, path)
  BY <1>3 DEF AcrossSegment, FirstBad
<1>5. QED
  BY <1>2, <1>4 DEF SegmentAndStateValidity

(***************************************************************************)
CheckInv ==
    /\ op = "across" =>
         \E seg \in SegmentInputs : \E path \in Paths(seg) :
            args = <<seg, path>> /\ ret = AcrossSegment(seg, path)
    /\ op = "validity" =>
         \E seg \in SegmentInputs : \E path \in Paths(seg) :
            args = <<seg, path>> /\ ret = SegmentAndStateValidity(seg, path)

\* CheckInv holds initially.
LEMMA InitCheckInv == Init => CheckInv
BY DEF Init, CheckInv

\* Every step preserves CheckInv.
LEMMA NextCheckInv == CheckInv /\ [Next]_vars => CheckInv'
<1> SUFFICES ASSUME CheckInv, [Next]_vars PROVE CheckInv'
  OBVIOUS
<1>1. ASSUME NEW n \in Names,
             \/ \E fn \in StateFns : AddStateConstraint(n, fn)
             \/ RemoveStateConstraint(n)
             \/ \E fn \in SegmentFns : AddSegmentConstraint(n, fn)
             \/ RemoveSegmentConstraint(n)
      PROVE  CheckInv'
  <2>1. op' \in {"addState", "removeState", "addSegment", "removeSegment"}
    BY <1>1 DEF AddStateConstraint, RemoveStateConstraint, AddSegmentConstraint,
                RemoveSegmentConstraint
  <2>2. QED
    BY <2>1 DEF CheckInv
<1>2. ASSUME NEW x \in Configs, CheckStateConstraints(x) PROVE CheckInv'
  BY <1>2 DEF CheckStateConstraints, CheckInv
<1>3. ASSUME NEW seg \in SegmentInputs, CheckSegmentConstraints(seg) PROVE CheckInv'
  BY <1>3 DEF CheckSegmentConstraints, CheckInv
<1>4. ASSUME NEW seg \in SegmentInputs, NEW path \in Paths(seg),
             CheckStateConstraintsAcrossSegment(seg, path)
      PROVE  CheckInv'
  <2>1. op' = "across" /\ args' = <<seg, path>>
        /\ UNCHANGED <<stateConstraints, segmentConstraints>>
        /\ ret' = AcrossSegment(seg, path)
    BY <1>4 DEF CheckStateConstraintsAcrossSegment
  <2>2. AcrossSegment(seg, path)' = AcrossSegment(seg, path)
    BY <2>1, ChecksUnchanged
  <2>3. QED
    BY <2>1, <2>2 DEF CheckInv
<1>5. ASSUME NEW seg \in SegmentInputs, NEW path \in Paths(seg),
             CheckSegmentAndStateValidity(seg, path)
      PROVE  CheckInv'
  <2>1. op' = "validity" /\ args' = <<seg, path>>
        /\ UNCHANGED <<stateConstraints, segmentConstraints>>
        /\ ret' = SegmentAndStateValidity(seg, path)
    BY <1>5 DEF CheckSegmentAndStateValidity
  <2>2. SegmentAndStateValidity(seg, path)' = SegmentAndStateValidity(seg, path)
    BY <2>1, ChecksUnchanged
  <2>3. QED
    BY <2>1, <2>2 DEF CheckInv
<1>6. CASE UNCHANGED vars
  <2>1. /\ AcrossSegment(args[1], args[2])' = AcrossSegment(args[1], args[2])
        /\ SegmentAndStateValidity(args[1], args[2])' =
             SegmentAndStateValidity(args[1], args[2])
    BY <1>6, ChecksUnchanged DEF vars
  <2>2. QED
    BY <1>6, <2>1 DEF vars, CheckInv
<1>7. QED
  BY <1>1, <1>2, <1>3, <1>4, <1>5, <1>6 DEF Next

(***************************************************************************)
(* Spec section 4.2, for every set of configurations, state constraints   *)
(* and step bound: CheckStateConstraintsAcrossSegment, on a segment whose  *)
(* Frame is known, returns true exactly when every interpolated state      *)
(* passes, and otherwise the sub-segment up to the last valid state before *)
(* the first violation, or none when the start fails.                      *)
(***************************************************************************)
THEOREM AcrossPrefixSafety == Spec => []AcrossIsLongestValidPrefix
<1>1. CheckInv => AcrossIsLongestValidPrefix
  <2> SUFFICES ASSUME CheckInv, op = "across", args[1].frame
               PROVE  LET k == ValidPrefixLength(args[2]) IN
                      /\ ret.ok <=> k = Len(args[2])
                      /\ ret.sub # NoSub <=> 0 < k /\ k < Len(args[2])
                      /\ ret.sub # NoSub => ret.sub[1].end = args[2][k]
    BY DEF AcrossIsLongestValidPrefix
  <2>1. PICK seg \in SegmentInputs :
          \E path \in Paths(seg) : args = <<seg, path>> /\ ret = AcrossSegment(seg, path)
    BY DEF CheckInv
  <2>2. PICK path \in Paths(seg) : args = <<seg, path>> /\ ret = AcrossSegment(seg, path)
    BY <2>1
  <2>3. QED
    BY <2>2, AcrossCorrect
<1>2. QED
  BY <1>1, InitCheckInv, NextCheckInv, PTL DEF Spec

(***************************************************************************)
(* Spec section 4.4, for every set of constraints: a segment               *)
(* CheckSegmentAndStateValidity accepts passes every registered segment    *)
(* constraint and has no failing state, and a shortened segment it         *)
(* returns passes the segment constraints and ends on a passing state.     *)
(***************************************************************************)
THEOREM ValidityVerdictSafety == Spec => []ValidityVerdictSound
<1>1. CheckInv => ValidityVerdictSound
  <2> SUFFICES ASSUME CheckInv, op = "validity"
               PROVE  /\ ret.ok => /\ FailingSegment(args[1]) = {}
                                   /\ \A j \in 1..Len(args[2]) : AllStatesPass(args[2][j])
                      /\ ret.sub # NoSub => /\ FailingSegment(ret.sub[1]) = {}
                                            /\ AllStatesPass(ret.sub[1].end)
    BY DEF ValidityVerdictSound
  <2>1. PICK seg \in SegmentInputs :
          \E path \in Paths(seg) : args = <<seg, path>> /\ ret = SegmentAndStateValidity(seg, path)
    BY DEF CheckInv
  <2>2. PICK path \in Paths(seg) : args = <<seg, path>> /\ ret = SegmentAndStateValidity(seg, path)
    BY <2>1
  <2>3. QED
    BY <2>2, ValidityCorrect
<1>2. QED
  BY <1>1, InitCheckInv, NextCheckInv, PTL DEF Spec

=============================================================================
