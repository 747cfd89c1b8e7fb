-------------------------- MODULE MoveRequestProofs --------------------------
(***************************************************************************)
(* Proofs about one moveRequest.Execute, for every plan length and every   *)
(* choice of polling replanners: the state stays well typed, and the       *)
(* shared waypointIndex follows the execute() goroutine and never leaves   *)
(* the plan.  Both rest on the inductive invariant IInv below.             *)
(***************************************************************************)
EXTENDS MoveRequest, TLAPS

USE NumWaypointsAssumption, PollingAssumption

\* Responses built by the model are Responses.
LEMMA RespType ==
    ASSUME NEW s \in Sources, NEW rp \in BOOLEAN, NEW e \in SUBSET ErrTags,
           NEW k \in 0..NumWaypoints - 1
    PROVE  Resp(s, rp, e, k) \in Response
BY DEF Resp, Response

LEMMA CheckOutcomesType ==
    ASSUME NEW s \in Sources, NEW k \in 0..NumWaypoints - 1
    PROVE  CheckOutcomes(s, k) \subseteq Response
BY RespType DEF CheckOutcomes, ErrTags

\* Updating one point of a function keeps it in its function set.
LEMMA ExceptType ==
    ASSUME NEW S, NEW T, NEW f \in [S -> T], NEW x, NEW v \in T
    PROVE  [f EXCEPT ![x] = v] \in [S -> T]
OBVIOUS

(***************************************************************************)
(* The inductive invariant behind TypeOK and IndexTracksExecution: the     *)
(* loop index of execute() stays within the plan from the select to the    *)
(* end of GoToInputs, which is what bounds the index it publishes.         *)
(***************************************************************************)
IInv ==
    /\ TypeOK
    /\ IndexTracksExecution
    /\ pc["exec"] \in {"goto", "moving"} => i < NumWaypoints
    /\ pc["exec"] = "loop" => i <= NumWaypoints

\* IInv holds initially.
LEMMA InitIInv == Init => IInv
<1> SUFFICES ASSUME Init PROVE IInv
  OBVIOUS
<1>1. NoResponse \in Response
  BY DEF NoResponse, Resp, Response, Sources, Workers, ErrTags
<1>2. out \in [Workers -> Response] /\ chan \in [Workers -> Seq(Response)]
  BY <1>1 DEF Init
<1>3. \A w \in Workers : Len(chan[w]) <= ChanCap
  BY DEF Init, ChanCap
<1>4. pc \in [Workers -> ExecPCs \cup PollPCs] /\ pc["exec"] \in ExecPCs
      /\ \A p \in Pollers : pc[p] \in PollPCs
  BY DEF Init, Workers, Pollers, ExecPCs, PollPCs
<1>5. idx \in [Pollers -> 0..NumWaypoints]
  BY DEF Init
<1>9. result \in Response
  BY <1>1 DEF Init
<1>6. main \in {"start", "listen", "wait", "done"}
      /\ cause \in {"ctx", "goto"} /\ base \in {"idle", "moving"}
  BY DEF Init
<1>10. i \in 0..NumWaypoints /\ waypointIndex \in 1..NumWaypoints
  BY DEF Init
<1>11. parentCancelled \in BOOLEAN /\ cancelled \in BOOLEAN
       /\ stopFailed \in BOOLEAN
  BY DEF Init
<1>8. TypeOK
  BY <1>2, <1>3, <1>4, <1>5, <1>6, <1>9, <1>10, <1>11 DEF TypeOK
<1>7. QED
  BY <1>8 DEF Init, IInv, IndexTracksExecution, Workers

\* Every step of Execute preserves IInv.
LEMMA NextIInv == IInv /\ [Next]_vars => IInv'
<1> SUFFICES ASSUME IInv, [Next]_vars PROVE IInv'
  OBVIOUS
<1> USE DEF IInv, TypeOK, IndexTracksExecution, execVars, ctxVars, ExecPCs, PollPCs, Workers, Pollers
<1>1. CASE Start
  BY <1>1 DEF Start, Pollers
<1>2. CASE ListenCtx
  <2>1. Resp("ctx", FALSE, {"ctx"}, 0) \in Response
    BY DEF Resp, Response, Sources, Workers, ErrTags
  <2>2. QED
    BY <1>2, <2>1 DEF ListenCtx, DeferredCancel
<1>3. ASSUME NEW w \in Workers, ListenChan(w)
      PROVE IInv'
  <2>1. chan[w] \in Seq(Response) /\ chan[w] # <<>>
    BY <1>3 DEF ListenChan
  <2>2. Head(chan[w]) \in Response /\ Tail(chan[w]) \in Seq(Response)
        /\ Len(Tail(chan[w])) <= Len(chan[w])
    BY <2>1
  <2>6. chan' \in [Workers -> Seq(Response)]
    BY <1>3, <2>2 DEF ListenChan
  <2>7. ASSUME NEW v \in Workers PROVE Len(chan'[v]) <= ChanCap
    <3>1. CASE v = w
      <4>1. chan'[v] = Tail(chan[w])
        BY <1>3, <3>1 DEF ListenChan
      <4>2. Len(chan[w]) <= ChanCap
        OBVIOUS
      <4>3. QED
        BY <2>2, <4>1, <4>2 DEF ChanCap
    <3>2. CASE v # w
      BY <1>3, <3>2 DEF ListenChan
    <3>3. QED
      BY <3>1, <3>2
  <2>3. chan' \in [Workers -> Seq(Response)]
        /\ \A v \in Workers : Len(chan'[v]) <= ChanCap
    BY <2>6, <2>7
  <2>4. result' \in Response
    BY <1>3, <2>2 DEF ListenChan
  <2>5. QED
    BY <1>3, <2>3, <2>4 DEF ListenChan, DeferredCancel
<1>4. CASE Join
  BY <1>4 DEF Join
<1>5. CASE ParentCancel
  BY <1>5 DEF ParentCancel
<1>6. CASE ExecInit
  <2>1. Resp("exec", FALSE, {"frame"}, 0) \in Response
    BY DEF Resp, Response, Sources, Workers, ErrTags
  <2>2. CASE pc' = [pc EXCEPT !["exec"] = "loop"] /\ i' = waypointIndex
             /\ UNCHANGED out
    BY <1>6, <2>2 DEF ExecInit
  <2>3. CASE pc' = [pc EXCEPT !["exec"] = "send"]
             /\ out' = [out EXCEPT !["exec"] = Resp("exec", FALSE, {"frame"}, 0)]
             /\ UNCHANGED i
    <3>1. out' \in [Workers -> Response]
      BY <2>1, <2>3
    <3>2. QED
      BY <1>6, <2>3, <3>1 DEF ExecInit
  <2>4. QED
    BY <1>6, <2>2, <2>3 DEF ExecInit
<1>7. CASE ExecLoop
  BY <1>7 DEF ExecLoop
<1>16. CASE ExecGoTo
  BY <1>16 DEF ExecGoTo
<1>8. CASE ExecReached
  BY <1>8 DEF ExecReached, AdvanceIndex
<1>9. CASE ExecMoveFailed
  BY <1>9 DEF ExecMoveFailed
<1>10. CASE ExecStop
  <2>1. Resp("exec", FALSE, IF cause = "goto" THEN {"goto"} ELSE {}, 0) \in Response
    BY DEF Resp, Response, Sources, Workers, ErrTags
  <2>2. Resp("exec", FALSE, {cause, "stop"}, 0) \in Response
    BY DEF Resp, Response, Sources, Workers, ErrTags
  <2>3. out' \in [Workers -> Response]
    <3>1. CASE out' = [out EXCEPT !["exec"] =
                 Resp("exec", FALSE, IF cause = "goto" THEN {"goto"} ELSE {}, 0)]
      BY <2>1, <3>1, ExceptType
    <3>2. CASE out' = [out EXCEPT !["exec"] = Resp("exec", FALSE, {cause, "stop"}, 0)]
      BY <2>2, <3>2, ExceptType
    <3>3. QED
      BY <1>10, <3>1, <3>2 DEF ExecStop
  <2>4. QED
    BY <1>10, <2>3 DEF ExecStop
<1>11. CASE ExecFinal
  <2>1. CheckOutcomes("exec", NumWaypoints - 1) \subseteq Response
    BY CheckOutcomesType DEF Sources, Workers
  <2>2. QED
    BY <1>11, <2>1 DEF ExecFinal
<1>12. ASSUME NEW w \in Workers, Send(w)
       PROVE IInv'
  BY <1>12 DEF Send, ChanCap, Workers
<1>13. ASSUME NEW p \in Pollers, PollTick(p)
       PROVE IInv'
  BY <1>13 DEF PollTick
<1>14. ASSUME NEW p \in Pollers, PollExit(p)
       PROVE IInv'
  BY <1>14 DEF PollExit
<1>15. ASSUME NEW p \in Pollers, PollResult(p)
       PROVE IInv'
  <2>0. idx[p] \in 0..NumWaypoints - 1
    BY <1>15 DEF PollResult
  <2>1. CheckOutcomes(p, idx[p]) \subseteq Response
    BY <2>0, CheckOutcomesType DEF Sources, Workers, Pollers
  <2>2. QED
    BY <1>15, <2>1 DEF PollResult
<1>17. CASE UNCHANGED vars
  BY <1>17 DEF vars
<1>19. CASE Returned
  BY <1>19 DEF Returned, vars
<1>18. QED
  BY <1>1, <1>2, <1>3, <1>4, <1>5, <1>6, <1>7, <1>8, <1>9, <1>10, <1>11,
     <1>12, <1>13, <1>14, <1>15, <1>16, <1>17, <1>19
  DEF Next, ListenStep, ExecStep, PollStep

(***************************************************************************)
(* Type correctness of Execute's state: responses, channels bounded by     *)
(* their buffer of one, the waypoint index within the plan.                *)
(***************************************************************************)
THEOREM TypeCorrect == Spec => []TypeOK
<1>1. IInv => TypeOK
  BY DEF IInv
<1>2. QED
  BY <1>1, InitIInv, NextIInv, PTL DEF Spec

(***************************************************************************)
(* The single-writer discipline of waypointIndex: execute() publishes the  *)
(* waypoint it is on, never one past the last, so every replanner check    *)
(* (deviatedFromPlan / obstaclesIntersectPlan) runs at a waypoint of the   *)
(* plan.                                                                   *)
(***************************************************************************)
THEOREM IndexSafety == Spec => []IndexTracksExecution
<1>1. IInv => IndexTracksExecution
  BY DEF IInv
<1>2. QED
  BY <1>1, InitIInv, NextIInv, PTL DEF Spec

(***************************************************************************)
(* The invariant behind BaseHaltedOnReturn: once Execute has returned      *)
(* every goroutine is done, and the base is moving only while execute()    *)
(* is in a GoToInputs or about to call mr.stop(), or after a Stop failed.  *)
(* Before start() no goroutine exists and the base is at rest.             *)
(***************************************************************************)
HaltInv ==
    /\ IInv
    /\ main = "start" => base = "idle" /\ \A w \in Workers : pc[w] = "none"
    /\ main = "done" => \A w \in Workers : Finished(w)
    /\ base = "moving" => pc["exec"] \in {"moving", "stopping"} \/ stopFailed

\* HaltInv holds initially.
LEMMA InitHaltInv == Init => HaltInv
BY InitIInv DEF Init, HaltInv, Workers

\* Every step of Execute preserves HaltInv.
LEMMA NextHaltInv == HaltInv /\ [Next]_vars => HaltInv'
<1> SUFFICES ASSUME HaltInv, [Next]_vars PROVE HaltInv'
  OBVIOUS
<1>0. IInv'
  BY NextIInv DEF HaltInv
<1> USE DEF HaltInv, IInv, TypeOK, Finished, Workers, Pollers, execVars, ctxVars
<1>1. CASE Start
  <2>1. CASE ctxDone
    BY <1>0, <1>1, <2>1 DEF Start
  <2>2. CASE ~ctxDone
    \* The goroutines are spawned with the base at rest.
    BY <1>0, <1>1, <2>2 DEF Start
  <2>3. QED
    BY <2>1, <2>2
<1>2. CASE ListenStep
  BY <1>0, <1>2 DEF ListenStep, ListenCtx, ListenChan, DeferredCancel
<1>3. CASE Join
  BY <1>0, <1>3 DEF Join
<1>4. CASE ParentCancel
  BY <1>0, <1>4 DEF ParentCancel
<1>5. CASE ExecInit
  BY <1>0, <1>5 DEF ExecInit
<1>6. CASE ExecLoop
  BY <1>0, <1>6 DEF ExecLoop
<1>15. CASE ExecGoTo
  \* Entering GoToInputs puts the base in motion with pc at "moving".
  BY <1>0, <1>15 DEF ExecGoTo
<1>7. CASE ExecReached
  BY <1>0, <1>7 DEF ExecReached
<1>8. CASE ExecMoveFailed
  \* A failed GoToInputs may leave the base moving, and goes to mr.stop().
  BY <1>0, <1>8 DEF ExecMoveFailed
<1>9. CASE ExecStop
  \* Stop either halts the base or records its failure.
  BY <1>0, <1>9 DEF ExecStop
<1>10. CASE ExecFinal
  BY <1>0, <1>10 DEF ExecFinal
<1>11. ASSUME NEW w \in Workers, Send(w) PROVE HaltInv'
  BY <1>0, <1>11 DEF Send
<1>12. ASSUME NEW p \in Pollers, PollStep(p) PROVE HaltInv'
  BY <1>0, <1>12 DEF PollStep, PollTick, PollExit, PollResult, Send
<1>13. CASE Returned \/ UNCHANGED vars
  BY <1>0, <1>13 DEF Returned, vars
<1>14. QED
  BY <1>1, <1>2, <1>3, <1>4, <1>5, <1>6, <1>7, <1>8, <1>9, <1>10, <1>11,
     <1>12, <1>13, <1>15 DEF Next, ExecStep

(***************************************************************************)
(* For every plan length and every choice of polling replanners: when      *)
(* Execute returns, Wait() has joined every goroutine and the base is not  *)
(* left moving unless a Stop call failed, because every path of execute()  *)
(* out of a GoToInputs goes through reaching the waypoint or mr.stop().    *)
(***************************************************************************)
THEOREM BaseHaltedSafety == Spec => []BaseHaltedOnReturn
<1>1. HaltInv => BaseHaltedOnReturn
  BY DEF HaltInv, IInv, TypeOK, BaseHaltedOnReturn, Finished, Workers
<1>2. QED
  BY <1>1, InitHaltInv, NextHaltInv, PTL DEF Spec

=============================================================================
