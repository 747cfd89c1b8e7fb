------------------------------- MODULE FakeArm -------------------------------
(***************************************************************************)
(* The fake arm (components/arm/fake, part_004): the actuator the motion   *)
(* service drives in tests and simulation.  NewArm loads a kinematic model *)
(* of Dof joints but always stores six joint values; MoveToJointPositions  *)
(* (and GoToInputs) checks a command with the model's Transform and copies *)
(* it into that storage; JointPositions (and CurrentInputs) returns the    *)
(* storage itself, not a copy.  Nothing is locked: several callers may   *)
(* move the arm at once.                                                   *)
(*                                                                         *)
(* The copy is modelled element by element: a read, or another copy,      *)
(* racing with it may see or leave any mix of old and new values, the     *)
(* outcomes the data race can produce.                                     *)
(***************************************************************************)
EXTENDS Integers, Sequences

CONSTANTS
    Dof,          \* the degrees of freedom of the model NewArm loaded
    Limit,        \* the joint values the model's limits accept
    Commands,     \* joint vectors a caller may command
    Callers,      \* goroutines that call the arm concurrently
    MaxClose      \* bound on the number of Close calls

\* Joint values are abstracted to naturals; 0, NewArm's value, is in limits.
ASSUME FakeArmAssumption ==
    /\ Dof \in Nat \ {0}
    /\ 0 \in Limit /\ Limit \subseteq Nat
    /\ Commands \subseteq Seq(Nat)
    /\ MaxClose \in Nat

VARIABLES
    joints,       \* a.joints.Values
    writer,       \* writer[c]: caller c's MoveToJointPositions: pc, src, i
    moveRet,      \* moveRet[c]: what c's last MoveToJointPositions returned
    seen,         \* the vector the last JointPositions caller read
    closeCount    \* a.CloseCount

vars == <<joints, writer, moveRet, seen, closeCount>>

NoVector == <<>>
Initial == [i \in 1..6 |-> 0]
Idle == [pc |-> "idle", src |-> NoVector, i |-> 0]

\* model.Transform: the configuration has one value per DOF, each within
\* its limits.
TransformOk(v) == Len(v) = Dof /\ \A i \in 1..Len(v) : v[i] \in Limit

\* copy(dst, src) copies min(len(dst), len(src)) elements.
CopyLen(src) == IF Len(joints) <= Len(src) THEN Len(joints) ELSE Len(src)

-----------------------------------------------------------------------------
\* NewArm: whatever the model, six joint values, all 0.
Init ==
    /\ joints = Initial
    /\ writer = [c \in Callers |-> Idle]
    /\ moveRet = [c \in Callers |-> "none"]
    /\ seen = NoVector
    /\ closeCount = 0

\* Mutant: the command stored without the Transform check.
MoveToJointPositionsUnchecked(c) ==
    /\ writer[c].pc = "idle"
    /\ \E v \in Commands :
         /\ writer' = [writer EXCEPT ![c] = [pc |-> "copy", src |-> v, i |-> 1]]
         /\ UNCHANGED moveRet
    /\ UNCHANGED <<joints, seen, closeCount>>

(***************************************************************************)
(* Caller c calls MoveToJointPositions, or GoToInputs with the goal        *)
(* converted: a command Transform rejects returns its error; otherwise the *)
(* copy starts.  No lock is taken, so other callers' copies may be under   *)
(* way on the same storage.                                                *)
(***************************************************************************)
MoveToJointPositions(c) ==
    /\ writer[c].pc = "idle"
    /\ \E v \in Commands :
         IF TransformOk(v)
         THEN writer' = [writer EXCEPT ![c] = [pc |-> "copy", src |-> v, i |-> 1]]
              /\ UNCHANGED moveRet
         ELSE moveRet' = [moveRet EXCEPT ![c] = "err"] /\ UNCHANGED writer
    /\ UNCHANGED <<joints, seen, closeCount>>

\* One element of caller c's copy(a.joints.Values, joints.Values), or its
\* end, after which the call returns nil.
CopyStep(c) ==
    /\ writer[c].pc = "copy"
    /\ IF writer[c].i <= CopyLen(writer[c].src)
       THEN /\ joints' = [joints EXCEPT ![writer[c].i] = writer[c].src[writer[c].i]]
            /\ writer' = [writer EXCEPT
                             ![c] = [pc |-> "copy", src |-> @.src, i |-> @.i + 1]]
            /\ UNCHANGED moveRet
       ELSE /\ writer' = [writer EXCEPT ![c] = Idle]
            /\ moveRet' = [moveRet EXCEPT ![c] = "ok"]
            /\ UNCHANGED joints
    /\ UNCHANGED <<seen, closeCount>>

\* JointPositions, or CurrentInputs: the caller reads the shared storage.
JointPositions ==
    /\ seen' = joints
    /\ UNCHANGED <<joints, writer, moveRet, closeCount>>

\* Close counts its calls.
Close ==
    /\ closeCount < MaxClose
    /\ closeCount' = closeCount + 1
    /\ UNCHANGED <<joints, writer, moveRet, seen>>

Next ==
    \/ \E c \in Callers : MoveToJointPositions(c) \/ CopyStep(c)
    \/ JointPositions
    \/ Close

Spec == Init /\ [][Next]_vars

-----------------------------------------------------------------------------
(***************************************************************************)
(* Spec section 3 (Transform's errors) with MoveToJointPositions' check:   *)
(* the arm's joints are always a configuration its model accepts, one     *)
(* value per DOF within the limits, so CurrentInputs can be transformed,   *)
(* even while several unsynchronised moves copy into the storage at once.  *)
(***************************************************************************)
JointsValid == TransformOk(joints)
=============================================================================
