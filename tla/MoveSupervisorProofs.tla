------------------------- MODULE MoveSupervisorProofs -------------------------
(***************************************************************************)
(* Proofs about the replanning supervisor for every saturation bound and  *)
(* every set of requests: a non-negative maxReplans bounds the number of   *)
(* executions.  The argument rests on newMoveOn*Request's budget check,    *)
(* the second step of both constructions, and on BudgetInv.                *)
(***************************************************************************)
EXTENDS MoveSupervisor, IndexLemmas, TLAPS

\* The budget check is the second step of both constructions.
LEMMA BudgetIsSecondStep ==
    /\ Len(GlobeSteps) = 19 /\ GlobeSteps[2] = "budget"
    /\ Len(MapSteps) = 18 /\ MapSteps[2] = "budget"
BY DEF GlobeSteps, MapSteps, RelativeSteps

\* No step of either construction is named "none".
LEMMA StepsNamed ==
    /\ \A i \in 1..Len(GlobeSteps) : GlobeSteps[i] # "none"
    /\ \A i \in 1..Len(MapSteps) : MapSteps[i] # "none"
BY DEF GlobeSteps, MapSteps, RelativeSteps

\* The budget step fails exactly when the budget is exceeded.
LEMMA BudgetStepFails ==
    ASSUME NEW r, NEW count, NEW fail
    PROVE  Fails("budget", r, count, fail) = BudgetExceeded(r, count)
BY DEF Fails, Lookups

(***************************************************************************)
(* A construction past the budget returns an error: some step fails, and   *)
(* the first failing one (which is then at index 1 or 2) names a step.     *)
(***************************************************************************)
LEMMA BudgetStopsConstruction ==
    ASSUME NEW r, NEW count, NEW fail, BudgetExceeded(r, count)
    PROVE  FirstFailure(r, count, fail) # "none"
<1> DEFINE I == {i \in 1..Len(Steps(r)) : Fails(Steps(r)[i], r, count, fail)}
<1>1. /\ Len(Steps(r)) >= 2 /\ Steps(r)[2] = "budget"
      /\ \A i \in 1..Len(Steps(r)) : Steps(r)[i] # "none"
  <2>1. CASE r.type = "globe"
    <3>1. Steps(r) = GlobeSteps
      BY <2>1 DEF Steps
    <3>2. Len(Steps(r)) >= 2 /\ Steps(r)[2] = "budget"
      BY <3>1, BudgetIsSecondStep
    <3>3. \A i \in 1..Len(Steps(r)) : Steps(r)[i] # "none"
      BY <3>1, StepsNamed
    <3>4. QED
      BY <3>2, <3>3
  <2>2. CASE r.type # "globe"
    <3>1. Steps(r) = MapSteps
      BY <2>2 DEF Steps
    <3>2. Len(Steps(r)) >= 2 /\ Steps(r)[2] = "budget"
      BY <3>1, BudgetIsSecondStep
    <3>3. \A i \in 1..Len(Steps(r)) : Steps(r)[i] # "none"
      BY <3>1, StepsNamed
    <3>4. QED
      BY <3>2, <3>3
  <2>3. QED
    BY <2>1, <2>2
<1>2. 2 \in I
  BY <1>1, BudgetStepFails
<1>3. \E k \in I : \A j \in I : k <= j
  <2>1. CASE 1 \in I
    BY <2>1
  <2>2. CASE 1 \notin I
    BY <1>2, <2>2
  <2>3. QED
    BY <2>1, <2>2
<1>4. Min(I) \in I
  BY <1>3 DEF Min
<1>5. SelectInSeq(Steps(r), LAMBDA s : Fails(s, r, count, fail)) = Min(I)
  BY <1>2 DEF SelectInSeq
<1>6. QED
  BY <1>1, <1>4, <1>5 DEF FirstFailure

\* BudgetInv holds initially.
LEMMA InitBudgetInv == Init => BudgetInv
BY RequestsAssumption DEF Init, BudgetInv, Terminal

\* Every step preserves BudgetInv.
LEMMA NextBudgetInv == BudgetInv /\ [Next]_vars => BudgetInv'
<1> SUFFICES ASSUME BudgetInv, [Next]_vars PROVE BudgetInv'
  OBVIOUS
<1>0. req.extra.maxReplans \in Int /\ req.extra.maxReplans < ReplanCap
  BY RequestsAssumption DEF BudgetInv
<1> USE <1>0, ReplanCapAssumption DEF BudgetInv, Terminal
<1>1. CASE Construct
  <2>1. PICK fail \in Calls \cup {"none"} :
          IF FirstFailure(req, replanCount, fail) = "none"
          THEN mr' = NewRequest(req) /\ phase' = "plan" /\ UNCHANGED err
          ELSE err' = FirstFailure(req, replanCount, fail) /\ phase' = "failed"
               /\ UNCHANGED mr
    BY <1>1 DEF Construct
  <2>2. phase = "construct" /\ UNCHANGED <<req, replanCount, executions>>
    BY <1>1 DEF Construct
  <2>3. CASE FirstFailure(req, replanCount, fail) = "none"
    \* The budget check let the round through.
    <3>1. ~BudgetExceeded(req, replanCount)
      BY <2>3, BudgetStopsConstruction
    <3>2. phase' = "plan"
      BY <2>1, <2>3
    <3>3. QED
      BY <2>2, <3>1, <3>2 DEF BudgetExceeded
  <2>4. CASE FirstFailure(req, replanCount, fail) # "none"
    <3>1. phase' = "failed"
      BY <2>1, <2>4
    <3>2. QED
      BY <2>2, <3>1
  <2>5. QED
    BY <2>3, <2>4
<1>2. CASE Plan
  <2>1. phase = "plan" /\ phase' \in {"execute", "failed"}
        /\ UNCHANGED <<req, replanCount, executions>>
    BY <1>2 DEF Plan
  <2>2. QED
    BY <2>1
<1>3. CASE Execute
  <2>1. /\ phase = "execute" /\ UNCHANGED req
        /\ executions' \in Nat /\ executions' <= executions + 1
    BY <1>3 DEF Execute
  <2>2. PICK o \in ExecOutcomes(mr) :
          CASE o = "success" -> phase' = "succeeded" /\ UNCHANGED <<replanCount, err>>
            [] o = "cancel"  -> phase' = "cancelled" /\ UNCHANGED <<replanCount, err>>
            [] o = "error"   -> phase' = "failed" /\ err' = "execute"
                                /\ UNCHANGED replanCount
            [] o = "replan"  ->
                 /\ phase' = "construct"
                 /\ replanCount' = IF replanCount < ReplanCap THEN replanCount + 1
                                   ELSE replanCount
                 /\ UNCHANGED err
    BY <1>3 DEF Execute
  <2>3. o \in {"success", "cancel", "error", "replan"}
    BY DEF ExecOutcomes
  <2>4. CASE o \in {"success", "cancel", "error"}
    <3>1. phase' \in Terminal /\ UNCHANGED replanCount
      BY <2>2, <2>4
    <3>2. QED
      BY <2>1, <3>1
  <2>5. CASE o = "replan"
    \* A replan is executed only below the budget, so below the bound.
    <3>1. phase' = "construct"
          /\ replanCount' = IF replanCount < ReplanCap THEN replanCount + 1
                            ELSE replanCount
      BY <2>2, <2>5
    <3>2. QED
      BY <2>1, <3>1
  <2>6. QED
    BY <2>3, <2>4, <2>5
<1>4. CASE Done
  BY <1>4 DEF Done, vars
<1>5. CASE UNCHANGED vars
  BY <1>5 DEF vars
<1>6. QED
  BY <1>1, <1>2, <1>3, <1>4, <1>5 DEF Next

(***************************************************************************)
(* Spec sections 4.5 and 7, for every set of requests and every bound      *)
(* above their maxima: with a non-negative maxReplans, the supervisor      *)
(* executes the plan at most maxReplans + 1 times, because                 *)
(* newMoveOn*Request refuses a replan count past the budget.               *)
(***************************************************************************)
THEOREM ReplanBudgetSafety == Spec => []ReplanBudget
<1>1. BudgetInv => ReplanBudget
  BY RequestsAssumption DEF BudgetInv, ReplanBudget, Terminal
<1>2. QED
  BY <1>1, InitBudgetInv, NextBudgetInv, PTL DEF Spec

(***************************************************************************)
(* An invalid request fails construction: one of the validation steps     *)
(* (extra at 1, cfg at 3, destNil at 4, and for a globe destination        *)
(* destNaN at 5 and far at 12) fails, so the first failing step exists and *)
(* names a step, whichever collaborator call fails.                        *)
(***************************************************************************)
LEMMA InvalidStopsConstruction ==
    ASSUME NEW r, NEW count, NEW fail, ~RequestValid(r)
    PROVE  FirstFailure(r, count, fail) # "none"
<1> DEFINE I == {i \in 1..Len(Steps(r)) : Fails(Steps(r)[i], r, count, fail)}
<1>1. \E w \in I : w <= 12
  <2>1. CASE r.type = "globe"
    <3>1. Steps(r) = GlobeSteps
      BY <2>1 DEF Steps
    <3>2. /\ Len(Steps(r)) = 19
          /\ Steps(r)[1] = "extra" /\ Steps(r)[3] = "cfg" /\ Steps(r)[4] = "destNil"
          /\ Steps(r)[5] = "destNaN" /\ Steps(r)[12] = "far"
      BY <3>1 DEF GlobeSteps, RelativeSteps
    <3>3. \/ Fails("extra", r, count, fail) \/ Fails("cfg", r, count, fail)
          \/ Fails("destNil", r, count, fail) \/ Fails("destNaN", r, count, fail)
          \/ Fails("far", r, count, fail)
      BY <2>1 DEF RequestValid, Fails, Lookups
    <3>4. QED
      BY <3>2, <3>3
  <2>2. CASE r.type # "globe"
    <3>1. Steps(r) = MapSteps
      BY <2>2 DEF Steps
    <3>2. /\ Len(Steps(r)) = 18
          /\ Steps(r)[1] = "extra" /\ Steps(r)[3] = "cfg" /\ Steps(r)[4] = "destNil"
      BY <3>1 DEF MapSteps, RelativeSteps
    <3>3. \/ Fails("extra", r, count, fail) \/ Fails("cfg", r, count, fail)
          \/ Fails("destNil", r, count, fail)
      BY <2>2 DEF RequestValid, Fails, Lookups
    <3>4. QED
      BY <3>2, <3>3
  <2>3. QED
    BY <2>1, <2>2
<1>2. \A i \in 1..Len(Steps(r)) : Steps(r)[i] # "none"
  BY StepsNamed DEF Steps
<1>3. I # {} /\ Min(I) \in I
  <2>1. Len(Steps(r)) \in Nat
    BY BudgetIsSecondStep DEF Steps
  <2>2. I \in SUBSET Nat /\ I # {}
    BY <1>1, <2>1
  <2>3. QED
    BY <2>2, MinIsLeast
<1>4. SelectInSeq(Steps(r), LAMBDA s : Fails(s, r, count, fail)) = Min(I)
  BY <1>3 DEF SelectInSeq
<1>5. QED
  BY <1>2, <1>3, <1>4 DEF FirstFailure

(***************************************************************************)
(* The inductive invariant behind InvalidNeverExecutes: a move whose       *)
(* request is invalid never leaves construction except to a terminal       *)
(* phase, so Execute never runs.                                           *)
(***************************************************************************)
ValidInv ==
    ~RequestValid(req) =>
        executions = 0 /\ phase \in {"construct"} \cup Terminal

\* ValidInv holds initially.
LEMMA InitValidInv == Init => ValidInv
BY DEF Init, ValidInv

\* Every step preserves ValidInv.
LEMMA NextValidInv == ValidInv /\ [Next]_vars => ValidInv'
<1> SUFFICES ASSUME ValidInv, [Next]_vars, ~RequestValid(req)'
             PROVE  (executions = 0 /\ phase \in {"construct"} \cup Terminal)'
  BY DEF ValidInv
<1>0. ~RequestValid(req) /\ executions = 0 /\ phase \in {"construct"} \cup Terminal
  <2>1. UNCHANGED req
    BY DEF Next, Construct, Plan, Execute, Done, vars
  <2>2. QED
    BY <2>1 DEF ValidInv
<1>1. CASE Construct
  <2>1. PICK fail \in Calls \cup {"none"} :
          IF FirstFailure(req, replanCount, fail) = "none"
          THEN mr' = NewRequest(req) /\ phase' = "plan" /\ UNCHANGED err
          ELSE err' = FirstFailure(req, replanCount, fail) /\ phase' = "failed"
               /\ UNCHANGED mr
    BY <1>1 DEF Construct
  <2>2. FirstFailure(req, replanCount, fail) # "none"
    BY <1>0, InvalidStopsConstruction
  <2>3. QED
    BY <1>0, <1>1, <2>1, <2>2 DEF Construct, Terminal
<1>2. CASE Plan
  BY <1>0, <1>2 DEF Plan, Terminal
<1>3. CASE Execute
  BY <1>0, <1>3 DEF Execute, Terminal
<1>4. CASE Done
  BY <1>0, <1>4 DEF Done, vars
<1>5. CASE UNCHANGED vars
  BY <1>0, <1>5 DEF vars
<1>6. QED
  BY <1>1, <1>2, <1>3, <1>4, <1>5 DEF Next

(***************************************************************************)
(* Spec section 7, for every set of requests: a move whose extra, motion   *)
(* configuration or globe destination is invalid is never executed,        *)
(* because newMoveOn*Request returns the validation error before any      *)
(* request reaches Plan or Execute, whichever collaborator fails.          *)
(***************************************************************************)
THEOREM InvalidNeverExecutesSafety == Spec => []InvalidNeverExecutes
<1>1. ValidInv => InvalidNeverExecutes
  BY DEF ValidInv, InvalidNeverExecutes
<1>2. QED
  BY <1>1, InitValidInv, NextValidInv, PTL DEF Spec

=============================================================================
