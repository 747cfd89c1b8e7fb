---------------------------- MODULE MoveSupervisor ----------------------------
(***************************************************************************)
(* The replanning supervisor around moveRequest: each round builds a       *)
(* request with newMoveOnGlobeRequest or newMoveOnMapRequest for the       *)
(* current replan count, plans it (moveRequest.Plan) and executes it       *)
(* (moveRequest.Execute); a replan response starts the next round with the *)
(* count incremented.                                                      *)
(*                                                                         *)
(* Request construction is a chain of checks and collaborator calls, each  *)
(* an early return; a check depends on the request, a collaborator call   *)
(* (sensor, frame system, kinematic base, SLAM) may fail on any call.      *)
(* Floats are abstracted to their class: "nan", "neg", "zero", "pos".      *)
(* A nil *MotionConfiguration is a configuration with given = FALSE.       *)
(* Execute's outcome is that of MoveRequest: success, a replan (only from  *)
(* a polling replanner), an error, or the context's cancellation.          *)
(***************************************************************************)
EXTENDS Integers, Sequences, SequencesExt

CONSTANTS
    Requests,     \* the move requests a caller may issue
    ReplanCap     \* the replan count is saturated at this bound

ASSUME ReplanCapAssumption == ReplanCap \in Nat \ {0}

\* maxReplans is an int; the saturation bound lies above every finite maximum.
ASSUME RequestsAssumption ==
    \A r \in Requests : r.extra.maxReplans \in Int /\ r.extra.maxReplans < ReplanCap

VARIABLES
    req,          \* the move request, fixed for the whole move
    phase,        \* "construct", "plan", "execute", "succeeded", "failed", "cancelled"
    replanCount,  \* the replan count passed to newMoveOn*Request
    executions,   \* how many times Execute has been called
    mr,           \* the request built in this round
    err           \* the failing step, "none" while none failed

vars == <<req, phase, replanCount, executions, mr, err>>

Terminal == {"succeeded", "failed", "cancelled"}
Pollers == {"position", "obstacle"}
Speeds == {"linear", "angular", "deviation"}
CfgFloats == Speeds \cup Pollers
NoRequest == [polling |-> {}, options |-> [s \in Speeds |-> "default"],
              positionOnly |-> "default"]

-----------------------------------------------------------------------------
(***************************************************************************)
(* newValidatedMotionCfg: every float of a non-nil configuration must be  *)
(* neither NaN nor negative; a zero float takes the default (all defaults *)
(* are positive), nil obstacle detectors become none.                      *)
(***************************************************************************)
CfgValid(cfg) ==
    ~cfg.given \/ \A f \in CfgFloats : cfg[f] \notin {"nan", "neg"}

Validated(cfg) ==
    IF ~cfg.given
    THEN [f \in CfgFloats |-> "pos"] @@ [detectors |-> "none"]
    ELSE [f \in CfgFloats |-> IF cfg[f] # "zero" THEN cfg[f] ELSE "pos"]
           @@ [detectors |-> IF cfg.detectors = "nil" THEN "none" ELSE cfg.detectors]

\* kbOptionsFromCfg: a positive speed or deviation overrides the kinematic
\* base's default; a motion profile sets PositionOnlyMode.
KbOptions(vcfg, profile) ==
    [options |-> [s \in Speeds |-> IF vcfg[s] = "pos" THEN "cfg" ELSE "default"],
     positionOnly |-> IF profile = "" THEN "default" ELSE profile = "position_only"]

\* relativeMoveRequestFromAbsolute: a replanner polls when its validated
\* frequency is above zero, and otherwise at an infinite period.
Polling(vcfg) == {p \in Pollers : vcfg[p] = "pos"}

NewRequest(r) ==
    LET vcfg == Validated(r.cfg) IN
    [polling |-> Polling(vcfg)] @@ KbOptions(vcfg, r.extra.profile)

(***************************************************************************)
(* The steps of request construction in the order the code takes them.     *)
(* Collaborator calls that may fail: Position, CompassHeading,             *)
(* FrameSystem, WrapWithKinematics (globe); slam.Limits, FrameSystem,      *)
(* WrapWithKinematics, PointCloudMapFull, ReadPCDToBasicOctree (map); and  *)
(* in relativeMoveRequestFromAbsolute ReplaceFrame then AddFrame,          *)
(* FrameSystemSubset, CurrentPosition, NewWorldState, CurrentInputs.       *)
(* TransformPose failing is not a step: the sensor is then assumed at the  *)
(* base.                                                                   *)
(***************************************************************************)
RelativeSteps ==
    <<"addFrame", "subset", "currentPosition", "worldState", "vision", "currentInputs">>
\* Mutant: the globe request's NaN check on the destination left out.
GlobeStepsNoNaN ==
    <<"extra", "budget", "cfg", "destNil", "sensor", "position",
      "heading", "component", "isBase", "frameSystem", "far", "wrap">> \o RelativeSteps

GlobeSteps ==
    <<"extra", "budget", "cfg", "destNil", "destNaN", "sensor", "position",
      "heading", "component", "isBase", "frameSystem", "far", "wrap">> \o RelativeSteps
MapSteps ==
    <<"extra", "budget", "cfg", "destNil", "slam", "limits", "component",
      "isBase", "frameSystem", "wrap", "pointCloud", "octree">> \o RelativeSteps
Lookups == {"sensor", "component", "isBase", "slam"}
Calls ==
    {"position", "heading", "frameSystem", "wrap", "limits", "pointCloud",
     "octree", "addFrame", "subset", "currentPosition", "worldState", "currentInputs"}

\* Mutant: the budget applied only for a positive maximum.
BudgetExceededPositiveOnly(r, count) ==
    r.extra.maxReplans > 0 /\ count > r.extra.maxReplans

\* newMoveOn*Request: a non-negative maxReplans bounds the replan count.
BudgetExceeded(r, count) ==
    r.extra.maxReplans >= 0 /\ count > r.extra.maxReplans

\* Whether step s returns an error, for request r at count, when the
\* collaborator call `fail` is the one that fails.
Fails(s, r, count, fail) ==
    CASE s = "extra"   -> ~r.extra.valid
      [] s = "budget"  -> BudgetExceeded(r, count)
      [] s = "cfg"     -> ~CfgValid(r.cfg)
      [] s = "destNil" -> r.dest = "nil"
      [] s = "destNaN" -> r.dest = "nan"
      [] s = "far"     -> r.dest = "far"
      [] s = "vision"  -> Validated(r.cfg).detectors = "unknown"
      [] s \in Lookups -> s \in r.missing
      [] OTHER         -> s = fail

\* The step at which construction returns an error, "none" if it returns
\* a request.
Steps(r) == IF r.type = "globe" THEN GlobeSteps ELSE MapSteps

FirstFailure(r, count, fail) ==
    LET k == SelectInSeq(Steps(r), LAMBDA s : Fails(s, r, count, fail))
    IN  IF k = 0 THEN "none" ELSE Steps(r)[k]

-----------------------------------------------------------------------------
Init ==
    /\ req \in Requests
    /\ phase = "construct"
    /\ replanCount = 0
    /\ executions = 0
    /\ mr = NoRequest
    /\ err = "none"

\* A round begins: newMoveOnGlobeRequest / newMoveOnMapRequest.
Construct ==
    /\ phase = "construct"
    /\ \E fail \in Calls \cup {"none"} :
         LET e == FirstFailure(req, replanCount, fail) IN
         IF e = "none"
         THEN /\ mr' = NewRequest(req) /\ phase' = "plan"
              /\ UNCHANGED err
         ELSE /\ err' = e /\ phase' = "failed"
              /\ UNCHANGED mr
    /\ UNCHANGED <<req, replanCount, executions>>

\* Mutant: a failed plan retried in a new round at the same count.
PlanRetryUncounted ==
    /\ phase = "plan"
    /\ \/ phase' = "execute" /\ UNCHANGED err
       \/ phase' = "construct" /\ UNCHANGED err
    /\ UNCHANGED <<req, replanCount, executions, mr>>

\* moveRequest.Plan: CurrentInputs and motionplan.Replan may fail.
Plan ==
    /\ phase = "plan"
    /\ \/ phase' = "execute" /\ UNCHANGED err
       \/ phase' = "failed" /\ err' = "plan"
    /\ UNCHANGED <<req, replanCount, executions, mr>>

\* What Execute may return for a request: a replan only from a replanner
\* that polls.
ExecOutcomes(m) ==
    {"success", "error", "cancel"} \cup (IF m.polling # {} THEN {"replan"} ELSE {})

\* moveRequest.Execute, and the supervisor's reaction to its response.
Execute ==
    /\ phase = "execute"
    /\ executions' = IF executions < ReplanCap + 1 THEN executions + 1 ELSE executions
    /\ \E o \in ExecOutcomes(mr) :
         CASE o = "success" -> phase' = "succeeded" /\ UNCHANGED <<replanCount, err>>
           [] o = "cancel"  -> phase' = "cancelled" /\ UNCHANGED <<replanCount, err>>
           [] o = "error"   -> phase' = "failed" /\ err' = "execute"
                               /\ UNCHANGED replanCount
           [] o = "replan"  ->
                /\ phase' = "construct"
                /\ replanCount' = IF replanCount < ReplanCap THEN replanCount + 1
                                  ELSE replanCount
                /\ UNCHANGED err
    /\ UNCHANGED <<req, mr>>

\* The move has ended; the caller has its answer.
Done ==
    /\ phase \in Terminal
    /\ UNCHANGED vars

Next == Construct \/ Plan \/ Execute \/ Done

\* The supervisor's calls are sequential and each returns: collaborators
\* return or fail, and Execute returns (MoveRequest's ExecuteReturns).
Spec == Init /\ [][Next]_vars
        /\ WF_vars(Construct) /\ WF_vars(Plan) /\ WF_vars(Execute)

-----------------------------------------------------------------------------
TypeOK ==
    /\ req \in Requests
    /\ phase \in {"construct", "plan", "execute"} \cup Terminal
    /\ replanCount \in 0..ReplanCap
    /\ executions \in 0..ReplanCap + 1
    /\ mr.polling \subseteq Pollers
    /\ err \in {"none", "plan", "execute"} \cup ToSet(GlobeSteps) \cup ToSet(MapSteps)

(***************************************************************************)
(* Spec sections 4.5 and 7: a non-negative configured maximum of replans   *)
(* always bounds the retries; the plan is executed at most maxReplans + 1  *)
(* times (the first execution and one per replan).                         *)
(***************************************************************************)
ReplanBudget ==
    req.extra.maxReplans >= 0 => executions <= req.extra.maxReplans + 1

(***************************************************************************)
(* The inductive invariant behind ReplanBudget: with m = maxReplans >= 0,  *)
(* the execution count never passes the replan count; a round is planned  *)
(* and executed only at a count the budget check let through (<= m), and   *)
(* a replan raises the count by one, to at most m + 1, where the next      *)
(* construction fails.                                                     *)
(***************************************************************************)
BudgetInv ==
    /\ req \in Requests
    /\ phase \in {"construct", "plan", "execute"} \cup Terminal
    /\ replanCount \in Nat /\ executions \in Nat
    /\ req.extra.maxReplans >= 0 =>
         /\ phase = "construct" =>
              executions <= replanCount /\ replanCount <= req.extra.maxReplans + 1
         /\ phase \in {"plan", "execute"} =>
              executions <= replanCount /\ replanCount <= req.extra.maxReplans
         /\ phase \in Terminal => executions <= req.extra.maxReplans + 1

(***************************************************************************)
(* Spec section 7: beyond the configured maximum the supervisor fails      *)
(* terminally rather than looping; with a non-negative maxReplans every    *)
(* move ends, whatever the replanners report.                              *)
(***************************************************************************)
Terminates ==
    req.extra.maxReplans >= 0 => <>(phase \in Terminal)

(***************************************************************************)
(* Spec section 7: validation errors fail fast at construction, never      *)
(* partially apply.  A move whose extra, motion configuration or globe     *)
(* destination (nil, NaN, farther than maxTravelDistanceMM) is invalid     *)
(* never reaches Execute, so the base never moves.                         *)
(***************************************************************************)
RequestValid(r) ==
    /\ r.extra.valid /\ CfgValid(r.cfg) /\ r.dest # "nil"
    /\ r.type = "globe" => r.dest \notin {"nan", "far"}

InvalidNeverExecutes ==
    ~RequestValid(req) => executions = 0

(***************************************************************************)
(* The comment of relativeMoveRequestFromAbsolute (line 660): the position *)
(* replanner does not poll when PositionPollingFreqHz is not provided.     *)
(***************************************************************************)
PositionPollingOffWhenUnset ==
    mr # NoRequest /\ (~req.cfg.given \/ req.cfg.position = "zero") =>
        "position" \notin mr.polling
=============================================================================
