--------------------------- MODULE ConstraintHandler ---------------------------
(***************************************************************************)
(* The ConstraintHandler of motionplan (src/unnamed/part_005): a registry  *)
(* of named state constraints and named segment constraints, and the       *)
(* checks the planner runs against it.  One call runs at a time; op, args  *)
(* and ret record the last call and what it returned.                      *)
(*                                                                         *)
(* A configuration is an element of Configs.  A state constraint is the    *)
(* set of configurations it rejects.  A segment constraint rejects a set   *)
(* of (start, end) pairs, and may need the segment's poses: such a one     *)
(* calls resolveInputsToPositions and fails when they cannot be resolved.  *)
(* The interpolation of a segment (PathStepCount and InterpolateInputs,    *)
(* which are not in this file) is an input: the sequence of configurations *)
(* visited from the start to the end.                                      *)
(***************************************************************************)
EXTENDS Naturals, Sequences, SequencesExt

CONSTANTS
    Names,        \* constraint names
    Configs,      \* robot configurations
    StateFns,     \* the state constraints a caller may register
    SegmentFns,   \* the segment constraints a caller may register
    MaxSteps      \* bound on the steps of an interpolated segment

ASSUME StateFnsAssumption == StateFns \subseteq SUBSET Configs
ASSUME SegmentFnsAssumption ==
    SegmentFns \subseteq [bad : SUBSET (Configs \X Configs), needsPose : BOOLEAN]
ASSUME MaxStepsAssumption == MaxSteps \in Nat \ {0}

VARIABLES
    stateConstraints,    \* c.stateConstraints: name -> state constraint
    segmentConstraints,  \* c.segmentConstraints: name -> segment constraint
    op,                  \* the last call
    args,                \* its arguments
    ret                  \* what it returned

vars == <<stateConstraints, segmentConstraints, op, args, ret>>

(***************************************************************************)
(* Inputs.  A SegmentInput has its configurations and, possibly, a Frame   *)
(* and poses already filled in.  A returned *SegmentInput is <<seg>>, or   *)
(* NoSub for nil.                                                          *)
(***************************************************************************)
SegmentInputs ==
    [start : Configs, end : Configs, frame : BOOLEAN, poses : BOOLEAN]
NoSub == <<>>

\* The interpolated configurations of a segment: steps + 1 of them, from the
\* start to the end.
Paths(seg) ==
    {p \in UNION {[1..n -> Configs] : n \in 2..MaxSteps + 1} :
        p[1] = seg.start /\ p[Len(p)] = seg.end}

Ops == {"none", "addState", "removeState", "addSegment", "removeSegment",
        "checkState", "checkSegment", "across", "validity"}

-----------------------------------------------------------------------------
(***************************************************************************)
(* Evaluating constraints.                                                 *)
(***************************************************************************)
\* SegmentInput.resolveInputsToPositions: a missing pose is computed by
\* Frame.Transform, which needs the Frame (the configurations are set).
SegmentResolves(seg) == seg.poses \/ seg.frame

StatePasses(fn, x) == x \notin fn

SegmentPasses(fn, seg) ==
    /\ fn.needsPose => SegmentResolves(seg)
    /\ <<seg.start, seg.end>> \notin fn.bad

\* The names of the registered constraints a state or a segment fails.
FailingState(x) ==
    {n \in DOMAIN stateConstraints : ~StatePasses(stateConstraints[n], x)}
FailingSegment(seg) ==
    {n \in DOMAIN segmentConstraints : ~SegmentPasses(segmentConstraints[n], seg)}

\* CheckStateConstraints / CheckSegmentConstraints: the loop returns the
\* first failing constraint in Go's map order, which is random; any failing
\* one can be first.  "" when all pass.
CheckResults(failing) ==
    IF failing = {} THEN {[ok |-> TRUE, name |-> ""]}
    ELSE {[ok |-> FALSE, name |-> n] : n \in failing}

AllStatesPass(x) == FailingState(x) = {}

\* Mutant: lastGood taken as the failing configuration itself.
AcrossSegmentKeepsFailing(seg, path) ==
    LET bad == SelectInSeq(path, LAMBDA x : ~AllStatesPass(x))
    IN  IF ~SegmentResolves(seg) \/ ~seg.frame THEN [ok |-> FALSE, sub |-> NoSub]
        ELSE IF bad = 0 THEN [ok |-> TRUE, sub |-> NoSub]
        ELSE IF bad = 1 THEN [ok |-> FALSE, sub |-> NoSub]
        ELSE [ok |-> FALSE,
              sub |-> <<[start |-> seg.start, end |-> path[bad],
                         frame |-> FALSE, poses |-> FALSE]>>]

\* CheckStateConstraintsAcrossSegment(ci, resolution) over the interpolation
\* path.  The resolution of the segment's poses (line 140) and of every
\* interpolated state (line 152, whose StateInput carries ci.Frame) come
\* first; then the loop stops at the first failing step i and returns the
\* segment from the start to the last good configuration, nil at i = 0.
AcrossSegment(seg, path) ==
    LET bad == SelectInSeq(path, LAMBDA x : ~AllStatesPass(x))
    IN  IF ~SegmentResolves(seg) \/ ~seg.frame THEN [ok |-> FALSE, sub |-> NoSub]
        ELSE IF bad = 0 THEN [ok |-> TRUE, sub |-> NoSub]
        ELSE IF bad = 1 THEN [ok |-> FALSE, sub |-> NoSub]
        ELSE [ok |-> FALSE,
              sub |-> <<[start |-> seg.start, end |-> path[bad - 1],
                         frame |-> FALSE, poses |-> FALSE]>>]

\* Mutant: the valid prefix returned without checking the segment
\* constraints on it.
SegmentAndStateValidityUnchecked(seg, path) ==
    LET across == AcrossSegment(seg, path)
    IN  IF FailingSegment(seg) # {} THEN [ok |-> FALSE, sub |-> NoSub] ELSE across

\* CheckSegmentAndStateValidity: the segment constraints on the whole
\* segment, then the states across it; a valid prefix is returned only if it
\* passes the segment constraints itself.
SegmentAndStateValidity(seg, path) ==
    LET across == AcrossSegment(seg, path)
    IN  IF FailingSegment(seg) # {} THEN [ok |-> FALSE, sub |-> NoSub]
        ELSE IF across.ok THEN [ok |-> TRUE, sub |-> NoSub]
        ELSE IF across.sub # NoSub /\ FailingSegment(across.sub[1]) = {} THEN across
        ELSE [ok |-> FALSE, sub |-> NoSub]

-----------------------------------------------------------------------------
Init ==
    /\ stateConstraints = [n \in {} |-> {}]
    /\ segmentConstraints = [n \in {} |-> {}]
    /\ op = "none"
    /\ args = <<>>
    /\ ret = <<>>

\* The map after name is set to fn: added, or overwritten.
Put(map, name, fn) ==
    [n \in DOMAIN map \cup {name} |-> IF n = name THEN fn ELSE map[n]]

\* delete(map, name); nothing happens when it is absent.
Delete(map, name) == [n \in DOMAIN map \ {name} |-> map[n]]

AddStateConstraint(name, fn) ==
    /\ stateConstraints' = Put(stateConstraints, name, fn)
    /\ op' = "addState" /\ args' = <<name, fn>> /\ ret' = <<>>
    /\ UNCHANGED segmentConstraints

RemoveStateConstraint(name) ==
    /\ stateConstraints' = Delete(stateConstraints, name)
    /\ op' = "removeState" /\ args' = <<name>> /\ ret' = <<>>
    /\ UNCHANGED segmentConstraints

AddSegmentConstraint(name, fn) ==
    /\ segmentConstraints' = Put(segmentConstraints, name, fn)
    /\ op' = "addSegment" /\ args' = <<name, fn>> /\ ret' = <<>>
    /\ UNCHANGED stateConstraints

RemoveSegmentConstraint(name) ==
    /\ segmentConstraints' = Delete(segmentConstraints, name)
    /\ op' = "removeSegment" /\ args' = <<name>> /\ ret' = <<>>
    /\ UNCHANGED stateConstraints

CheckStateConstraints(x) ==
    /\ \E r \in CheckResults(FailingState(x)) : ret' = r
    /\ op' = "checkState" /\ args' = <<x>>
    /\ UNCHANGED <<stateConstraints, segmentConstraints>>

CheckSegmentConstraints(seg) ==
    /\ \E r \in CheckResults(FailingSegment(seg)) : ret' = r
    /\ op' = "checkSegment" /\ args' = <<seg>>
    /\ UNCHANGED <<stateConstraints, segmentConstraints>>

CheckStateConstraintsAcrossSegment(seg, path) ==
    /\ ret' = AcrossSegment(seg, path)
    /\ op' = "across" /\ args' = <<seg, path>>
    /\ UNCHANGED <<stateConstraints, segmentConstraints>>

CheckSegmentAndStateValidity(seg, path) ==
    /\ ret' = SegmentAndStateValidity(seg, path)
    /\ op' = "validity" /\ args' = <<seg, path>>
    /\ UNCHANGED <<stateConstraints, segmentConstraints>>

Next ==
    \/ \E n \in Names :
          \/ \E fn \in StateFns : AddStateConstraint(n, fn)
          \/ RemoveStateConstraint(n)
          \/ \E fn \in SegmentFns : AddSegmentConstraint(n, fn)
          \/ RemoveSegmentConstraint(n)
    \/ \E x \in Configs : CheckStateConstraints(x)
    \/ \E seg \in SegmentInputs :
          \/ CheckSegmentConstraints(seg)
          \/ \E path \in Paths(seg) :
                \/ CheckStateConstraintsAcrossSegment(seg, path)
                \/ CheckSegmentAndStateValidity(seg, path)

Spec == Init /\ [][Next]_vars

-----------------------------------------------------------------------------
TypeOK ==
    /\ DOMAIN stateConstraints \subseteq Names
    /\ \A n \in DOMAIN stateConstraints : stateConstraints[n] \in StateFns
    /\ DOMAIN segmentConstraints \subseteq Names
    /\ \A n \in DOMAIN segmentConstraints : segmentConstraints[n] \in SegmentFns
    /\ op \in Ops

(***************************************************************************)
(* The longest valid prefix, as spec section 4.2 and the example of        *)
(* section 8 state it: the largest k such that the first k interpolated    *)
(* states all pass.                                                        *)
(***************************************************************************)
ValidPrefixLength(path) ==
    CHOOSE k \in 0..Len(path) :
        /\ \A j \in 1..k : AllStatesPass(path[j])
        /\ k < Len(path) => ~AllStatesPass(path[k + 1])

(***************************************************************************)
(* CheckStateConstraintsAcrossSegment returns true exactly when every      *)
(* interpolated state passes; otherwise its sub-segment ends at the last   *)
(* valid state before the first violation, and there is none when the     *)
(* start itself fails (for a segment whose Frame is known).                *)
(***************************************************************************)
AcrossIsLongestValidPrefix ==
    op = "across" /\ args[1].frame =>
        LET k == ValidPrefixLength(args[2]) IN
        /\ ret.ok <=> k = Len(args[2])
        /\ ret.sub # NoSub <=> 0 < k /\ k < Len(args[2])
        /\ ret.sub # NoSub => ret.sub[1].end = args[2][k]

(***************************************************************************)
(* What the planner relies on (spec 4.4): CheckSegmentAndStateValidity     *)
(* accepts a segment only if it passes every registered segment            *)
(* constraint and every interpolated state passes every registered state   *)
(* constraint, and a shortened segment it returns passes the segment       *)
(* constraints and ends on a state that passes.                            *)
(***************************************************************************)
ValidityVerdictSound ==
    op = "validity" =>
        /\ ret.ok => /\ FailingSegment(args[1]) = {}
                     /\ \A j \in 1..Len(args[2]) : AllStatesPass(args[2][j])
        /\ ret.sub # NoSub => /\ FailingSegment(ret.sub[1]) = {}
                              /\ AllStatesPass(ret.sub[1].end)

(***************************************************************************)
(* Spec section 4.2: when an intermediate state fails, the engine returns  *)
(* the longest valid prefix so that callers can shrink the segment to its  *)
(* last known-good state.  The comment of CheckSegmentAndStateValidity     *)
(* adds: provided that segment also meets the segment constraints.  So     *)
(* when the prefix of a segment, with the segment's Frame, meets them,     *)
(* CheckSegmentAndStateValidity returns it.                                *)
(***************************************************************************)
ShrinksToValidPrefix ==
    op = "validity" =>
        LET seg == args[1]
            path == args[2]
            k == ValidPrefixLength(path)
            prefix == [start |-> seg.start, end |-> path[k], frame |-> seg.frame,
                       poses |-> FALSE]
        IN  /\ FailingSegment(seg) = {} /\ seg.frame /\ 0 < k /\ k < Len(path)
            /\ FailingSegment(prefix) = {}
            => ret.sub = <<[prefix EXCEPT !.frame = FALSE]>>
=============================================================================
