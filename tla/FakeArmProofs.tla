---------------------------- MODULE FakeArmProofs ----------------------------
(***************************************************************************)
(* Proofs about the fake arm for every six-joint model, every set of       *)
(* limits, every set of commands and any number of concurrent callers:    *)
(* the stored joints stay a configuration the model accepts, even in the   *)
(* middle of several racing copies.                                        *)
(***************************************************************************)
EXTENDS FakeArm, SequenceTheorems, TLAPS

\* The state of one caller's MoveToJointPositions.
WriterType == [pc : {"idle", "copy"}, src : Seq(Nat), i : Nat]

(***************************************************************************)
(* The inductive invariant: the storage is a sequence of values within     *)
(* the limits, one per DOF, and every copy under way copies a command      *)
(* that passed Transform, from an index at least 1.                        *)
(***************************************************************************)
ArmInv ==
    /\ joints \in Seq(Limit) /\ Len(joints) = Dof
    /\ writer \in [Callers -> WriterType]
    /\ \A c \in Callers :
           writer[c].pc = "copy" => TransformOk(writer[c].src) /\ writer[c].i # 0

\* ArmInv holds once NewArm has built a six-joint arm.
LEMMA InitArmInv == Dof = 6 /\ Init => ArmInv
<1> SUFFICES ASSUME Dof = 6, Init PROVE ArmInv
  OBVIOUS
<1>1. Initial \in [1..6 -> Limit]
  BY FakeArmAssumption DEF Initial
<1>2. Initial \in Seq(Limit) /\ Len(Initial) = 6
  BY <1>1, SeqDef DEF Initial
<1>3. Idle \in WriterType
  BY EmptySeq DEF Idle, NoVector, WriterType
<1>4. QED
  BY <1>2, <1>3 DEF Init, ArmInv, Idle

\* A command that passed Transform holds values within the limits.
LEMMA TransformOkValues ==
    ASSUME NEW v \in Seq(Nat), TransformOk(v), NEW k \in 1..Len(v)
    PROVE  v[k] \in Limit
BY DEF TransformOk

\* Caller c's MoveToJointPositions preserves ArmInv.
LEMMA MoveArmInv ==
    ASSUME ArmInv, NEW c \in Callers, MoveToJointPositions(c)
    PROVE  ArmInv'
<1>1. PICK v \in Commands :
        IF TransformOk(v)
        THEN writer' = [writer EXCEPT ![c] = [pc |-> "copy", src |-> v, i |-> 1]]
             /\ UNCHANGED moveRet
        ELSE moveRet' = [moveRet EXCEPT ![c] = "err"] /\ UNCHANGED writer
  BY DEF MoveToJointPositions
<1>2. UNCHANGED joints
  BY DEF MoveToJointPositions
<1>3. v \in Seq(Nat)
  BY FakeArmAssumption
<1>4. CASE TransformOk(v)
  <2>1. [pc |-> "copy", src |-> v, i |-> 1] \in WriterType
    BY <1>3 DEF WriterType
  <2>2. writer' \in [Callers -> WriterType]
    BY <1>1, <1>4, <2>1 DEF ArmInv
  <2>3. ASSUME NEW d \in Callers, writer'[d].pc = "copy"
        PROVE  TransformOk(writer'[d].src) /\ writer'[d].i # 0
    <3>1. CASE d = c
      BY <1>1, <1>4, <3>1 DEF ArmInv
    <3>2. CASE d # c
      BY <1>1, <1>4, <2>3, <3>2 DEF ArmInv
    <3>3. QED
      BY <3>1, <3>2
  <2>4. QED
    BY <1>2, <2>2, <2>3 DEF ArmInv
<1>5. CASE ~TransformOk(v)
  BY <1>1, <1>2, <1>5 DEF ArmInv
<1>6. QED
  BY <1>4, <1>5

\* One step of caller c's copy preserves ArmInv, whatever the other
\* callers' copies have written.
LEMMA CopyArmInv ==
    ASSUME ArmInv, NEW c \in Callers, CopyStep(c)
    PROVE  ArmInv'
<1> DEFINE w == writer[c]
<1>1. /\ w.pc = "copy" /\ w.src \in Seq(Nat) /\ TransformOk(w.src)
      /\ w.i \in Nat \ {0}
  BY DEF CopyStep, ArmInv, WriterType
<1>2. CopyLen(w.src) = Dof
  BY <1>1 DEF CopyLen, TransformOk, ArmInv
<1>3. CASE w.i <= CopyLen(w.src)
  \* One element is copied: a value of the command, within the limits.
  <2>1. joints' = [joints EXCEPT ![w.i] = w.src[w.i]]
        /\ writer' = [writer EXCEPT ![c] = [pc |-> "copy", src |-> @.src, i |-> @.i + 1]]
    BY <1>3 DEF CopyStep
  <2>2. w.i \in 1..Len(joints) /\ w.i \in 1..Len(w.src)
    BY <1>1, <1>2, <1>3 DEF ArmInv, TransformOk
  <2>3. w.src[w.i] \in Limit
    BY <1>1, <2>2, TransformOkValues
  <2>4. joints' \in Seq(Limit) /\ Len(joints') = Dof
    <3>1. joints \in Seq(Limit) /\ Len(joints) = Dof
      BY DEF ArmInv
    <3>2. /\ [joints EXCEPT ![w.i] = w.src[w.i]] \in Seq(Limit)
          /\ Len([joints EXCEPT ![w.i] = w.src[w.i]]) = Len(joints)
      BY <3>1, <2>2, <2>3, ExceptSeq
    <3>3. QED
      BY <2>1, <3>1, <3>2
  <2>5. writer'[c] = [pc |-> "copy", src |-> w.src, i |-> w.i + 1]
    BY <2>1 DEF ArmInv
  <2>6. [pc |-> "copy", src |-> w.src, i |-> w.i + 1] \in WriterType
    BY <1>1 DEF ArmInv, WriterType
  <2>7. writer' \in [Callers -> WriterType]
    BY <2>1, <2>6 DEF ArmInv
  <2>8. ASSUME NEW d \in Callers, writer'[d].pc = "copy"
        PROVE  TransformOk(writer'[d].src) /\ writer'[d].i # 0
    <3>1. CASE d = c
      BY <1>1, <2>5, <3>1 DEF ArmInv, WriterType
    <3>2. CASE d # c
      BY <2>1, <2>8, <3>2 DEF ArmInv
    <3>3. QED
      BY <3>1, <3>2
  <2>9. QED
    BY <2>4, <2>7, <2>8 DEF ArmInv
<1>4. CASE ~(w.i <= CopyLen(w.src))
  <2>1. writer' = [writer EXCEPT ![c] = Idle] /\ UNCHANGED joints
    BY <1>4 DEF CopyStep
  <2>2. Idle \in WriterType
    BY EmptySeq DEF Idle, NoVector, WriterType
  <2>3. writer' \in [Callers -> WriterType]
    BY <2>1, <2>2 DEF ArmInv
  <2>4. ASSUME NEW d \in Callers, writer'[d].pc = "copy"
        PROVE  TransformOk(writer'[d].src) /\ writer'[d].i # 0
    <3>1. d # c
      BY <2>1, <2>4 DEF Idle, ArmInv
    <3>2. QED
      BY <2>1, <2>4, <3>1 DEF ArmInv
  <2>5. QED
    BY <2>1, <2>3, <2>4 DEF ArmInv
<1>5. QED
  BY <1>3, <1>4

\* Every step preserves ArmInv.
LEMMA NextArmInv == ArmInv /\ [Next]_vars => ArmInv'
<1> SUFFICES ASSUME ArmInv, [Next]_vars PROVE ArmInv'
  OBVIOUS
<1>1. ASSUME NEW c \in Callers, MoveToJointPositions(c) PROVE ArmInv'
  BY <1>1, MoveArmInv
<1>2. ASSUME NEW c \in Callers, CopyStep(c) PROVE ArmInv'
  BY <1>2, CopyArmInv
<1>3. CASE JointPositions
  BY <1>3 DEF JointPositions, ArmInv
<1>4. CASE Close
  BY <1>4 DEF Close, ArmInv
<1>5. CASE UNCHANGED vars
  BY <1>5 DEF vars, ArmInv
<1>6. QED
  BY <1>1, <1>2, <1>3, <1>4, <1>5 DEF Next

(***************************************************************************)
(* For a six-joint model (the fake model, xArm6, UR5e, eva), whatever the  *)
(* limits, the commands and the number of callers moving the arm at once,  *)
(* and with reads at any point of any copy: the stored joints are always a *)
(* configuration the model's Transform accepts, because every copy, torn   *)
(* or not, writes only elements of commands that passed Transform.         *)
(***************************************************************************)
THEOREM JointsValidSafety == Dof = 6 => (Spec => []JointsValid)
<1>1. ArmInv => JointsValid
  BY DEF ArmInv, JointsValid, TransformOk
<1>2. QED
  BY <1>1, InitArmInv, NextArmInv, PTL DEF Spec

=============================================================================
