----------------------------- MODULE MoveRequest -----------------------------
(***************************************************************************)
(* One call of moveRequest.Execute (services/motion/builtin/               *)
(* move_request.go): the caller's goroutine runs start() and listen() and  *)
(* then its deferred cancelFn() and executeBackgroundWorkers.Wait(); start *)
(* spawns three goroutines that share the cancellable context and the      *)
(* atomic waypointIndex:                                                   *)
(*   "exec"      execute(): GoToInputs on each waypoint, Stop on failure   *)
(*               or cancellation, a final deviatedFromPlan check;          *)
(*   "position"  the position replanner polling deviatedFromPlan;          *)
(*   "obstacle"  the obstacle replanner polling obstaclesIntersectPlan.    *)
(* Each goroutine sends at most one response on its own buffered channel   *)
(* and listen() returns the first one it selects.  The parent context may  *)
(* be cancelled by the caller at any time.  The kinematic base is reduced  *)
(* to whether it is moving; the outcome of a GoToInputs, Stop, ErrorState  *)
(* or CheckPlan call is a nondeterministic choice.                         *)
(***************************************************************************)
EXTENDS Naturals, Sequences, FiniteSets

CONSTANTS
    NumWaypoints,   \* len(waypoints) of the plan being executed
    Polling         \* the replanners whose polling frequency is > 0

Pollers == {"position", "obstacle"}
Workers == {"exec"} \cup Pollers

ASSUME NumWaypointsAssumption == NumWaypoints \in Nat /\ NumWaypoints >= 2
ASSUME PollingAssumption == Polling \subseteq Pollers

VARIABLES
    main,             \* where the caller of Execute is
    result,           \* the response listen() returned
    pc,               \* pc[w]: where goroutine w is
    out,              \* out[w]: the response goroutine w is about to send
    i,                \* the loop index of execute()
    cause,            \* why execute() is stopping the base: "ctx" or "goto"
    idx,              \* idx[p]: the waypointIndex replanner p loaded
    chan,             \* chan[w]: the buffered response channel of worker w
    waypointIndex,    \* mr.waypointIndex (atomic.Int32)
    base,             \* "moving" or "idle": the kinematic base
    parentCancelled,  \* the caller's ctx was cancelled
    cancelled,        \* Execute's cancelFn was called
    stopFailed        \* some mr.stop() in this Execute returned an error

ctxVars == <<parentCancelled, cancelled>>
execVars == <<i, cause, stopFailed>>
vars == <<main, result, pc, out, i, cause, idx, chan, waypointIndex, base,
          parentCancelled, cancelled, stopFailed>>

(***************************************************************************)
(* Responses.  src names the channel (or "ctx" for ctx.Done()), err the    *)
(* errors wrapped into the returned error, idx the waypoint index the      *)
(* response was computed at.                                               *)
(***************************************************************************)
ErrTags == {"frame", "goto", "ctx", "stop", "check"}
Sources == Workers \cup {"ctx", "none"}
Response == [src : Sources, replan : BOOLEAN, err : SUBSET ErrTags,
             idx : 0..NumWaypoints - 1]

Resp(s, rp, e, k) == [src |-> s, replan |-> rp, err |-> e, idx |-> k]
NoResponse == Resp("none", FALSE, {}, 0)
Success(r) == ~r.replan /\ r.err = {}

\* responseChan: make(chan moveResponse, 1); the replanners' channels alike.
ChanCap == 1

\* The cancellable context passed to the goroutines and to listen().
ctxDone == parentCancelled \/ cancelled

\* The three outcomes of deviatedFromPlan / obstaclesIntersectPlan at
\* waypoint k: no replan, Replan: true with a reason, or an error.
CheckOutcomes(s, k) ==
    {Resp(s, FALSE, {}, k), Resp(s, TRUE, {}, k), Resp(s, FALSE, {"check"}, k)}

Finished(w) == pc[w] \in {"none", "exited"}

-----------------------------------------------------------------------------
Init ==
    /\ main = "start"
    /\ result = NoResponse
    /\ pc = [w \in Workers |-> "none"]
    /\ out = [w \in Workers |-> NoResponse]
    /\ i = 0
    /\ cause = "ctx"
    /\ idx = [p \in Pollers |-> 0]
    /\ chan = [w \in Workers |-> <<>>]
    /\ waypointIndex = 1
    /\ base = "idle"
    /\ parentCancelled = FALSE
    /\ cancelled = FALSE
    /\ stopFailed = FALSE

(***************************************************************************)
(* The caller's goroutine.                                                 *)
(***************************************************************************)
\* start(): nothing is spawned when the context is already done.
Start ==
    /\ main = "start"
    /\ main' = "listen"
    /\ pc' = IF ctxDone THEN pc
             ELSE [w \in Workers |-> IF w = "exec" THEN "init" ELSE "wait"]
    /\ UNCHANGED <<result, out, execVars, idx, chan, waypointIndex, base, ctxVars>>

\* Mutant: the defers in the other order, cancelFn only after Wait().
DeferredCancelAfterWait == UNCHANGED cancelled

\* Execute's deferred cancelFn(), run as listen() returns and before Wait().
DeferredCancel == cancelled' = TRUE

\* listen(): select over ctx.Done() and the three response channels.
ListenCtx ==
    /\ main = "listen"
    /\ ctxDone
    /\ result' = Resp("ctx", FALSE, {"ctx"}, 0)
    /\ main' = "wait"
    /\ DeferredCancel
    /\ UNCHANGED <<pc, out, execVars, idx, chan, waypointIndex, base,
                   parentCancelled>>

ListenChan(w) ==
    /\ main = "listen"
    /\ chan[w] # <<>>
    /\ result' = Head(chan[w])
    /\ chan' = [chan EXCEPT ![w] = Tail(@)]
    /\ main' = "wait"
    /\ DeferredCancel
    /\ UNCHANGED <<pc, out, execVars, idx, waypointIndex, base, parentCancelled>>

\* executeBackgroundWorkers.Wait() returns once every goroutine is done.
Join ==
    /\ main = "wait"
    /\ \A w \in Workers : Finished(w)
    /\ main' = "done"
    /\ cancelled' = TRUE
    /\ UNCHANGED <<result, pc, out, execVars, idx, chan, waypointIndex, base,
                   parentCancelled>>

\* The caller cancels the context passed to Execute.
ParentCancel ==
    /\ main # "done"
    /\ ~parentCancelled
    /\ parentCancelled' = TRUE
    /\ UNCHANGED <<main, result, pc, out, execVars, idx, chan, waypointIndex,
                   base, cancelled>>

(***************************************************************************)
(* The execute() goroutine.                                                *)
(***************************************************************************)
\* plan.Trajectory().GetFrameInputs, then i := waypointIndex.Load().
ExecInit ==
    /\ pc["exec"] = "init"
    /\ \/ /\ pc' = [pc EXCEPT !["exec"] = "loop"]
          /\ i' = waypointIndex
          /\ UNCHANGED out
       \/ /\ pc' = [pc EXCEPT !["exec"] = "send"]
          /\ out' = [out EXCEPT !["exec"] = Resp("exec", FALSE, {"frame"}, 0)]
          /\ UNCHANGED i
    /\ UNCHANGED <<main, result, cause, stopFailed, idx, chan, waypointIndex,
                   base, ctxVars>>

\* The loop head: past the last waypoint, check the final deviation; else
\* select { case <-ctx.Done(): stop; default: ... }.  Taking the default
\* branch does not yet move the base: the context may be cancelled before
\* GoToInputs is entered.
ExecLoop ==
    /\ pc["exec"] = "loop"
    /\ \/ i >= NumWaypoints /\ pc' = [pc EXCEPT !["exec"] = "final"]
          /\ UNCHANGED cause
       \/ i < NumWaypoints /\ ctxDone /\ pc' = [pc EXCEPT !["exec"] = "stopping"]
          /\ cause' = "ctx"
       \/ i < NumWaypoints /\ ~ctxDone /\ pc' = [pc EXCEPT !["exec"] = "goto"]
          /\ UNCHANGED cause
    /\ UNCHANGED <<main, result, out, i, stopFailed, idx, chan, waypointIndex,
                   base, ctxVars>>

\* The default branch: kinematicBase.GoToInputs(ctx, waypoints[i]) is
\* entered and the base set in motion, whatever the context is by now.
ExecGoTo ==
    /\ pc["exec"] = "goto"
    /\ pc' = [pc EXCEPT !["exec"] = "moving"]
    /\ base' = "moving"
    /\ UNCHANGED <<main, result, out, execVars, idx, chan, waypointIndex,
                   ctxVars>>

\* Mutant: the index advanced after every waypoint, the last one included.
AdvanceIndexUnguarded(k) == waypointIndex' = waypointIndex + 1

\* The index is advanced only after a successful GoToInputs and never past
\* the last waypoint: if i < len(waypoints)-1 { waypointIndex.Add(1) }.
AdvanceIndex(k) ==
    waypointIndex' = IF k < NumWaypoints - 1 THEN waypointIndex + 1 ELSE waypointIndex

\* GoToInputs returns nil: the base has reached waypoint i.
ExecReached ==
    /\ pc["exec"] = "moving"
    /\ base' = "idle"
    /\ AdvanceIndex(i)
    /\ pc' = [pc EXCEPT !["exec"] = "loop"]
    /\ i' = i + 1
    /\ UNCHANGED <<main, result, out, cause, stopFailed, idx, chan, ctxVars>>

\* Mutant: a GoToInputs error returned without calling mr.stop().
ExecMoveFailedNoStop ==
    /\ pc["exec"] = "moving"
    /\ base' \in {"idle", "moving"}
    /\ pc' = [pc EXCEPT !["exec"] = "send"]
    /\ out' = [out EXCEPT !["exec"] = Resp("exec", FALSE, {"goto"}, 0)]
    /\ UNCHANGED <<main, result, execVars, idx, chan, waypointIndex, ctxVars>>

\* GoToInputs returns an error (a fault, or the context cancelled under it);
\* the base may still be moving.  The code then calls mr.stop().
ExecMoveFailed ==
    /\ pc["exec"] = "moving"
    /\ base' \in {"idle", "moving"}
    /\ pc' = [pc EXCEPT !["exec"] = "stopping"]
    /\ cause' = "goto"
    /\ UNCHANGED <<main, result, out, i, stopFailed, idx, chan, waypointIndex,
                   ctxVars>>

\* mr.stop(): kinematicBase.Stop under a baseStopTimeout context.  On
\* success the cause is returned alone (nil for a cancellation), on failure
\* wrapped with the stop error.
ExecStop ==
    /\ pc["exec"] = "stopping"
    /\ pc' = [pc EXCEPT !["exec"] = "send"]
    /\ \/ /\ base' = "idle"
          /\ out' = [out EXCEPT !["exec"] =
                       Resp("exec", FALSE, IF cause = "goto" THEN {"goto"} ELSE {}, 0)]
          /\ UNCHANGED stopFailed
       \/ /\ UNCHANGED base
          /\ stopFailed' = TRUE
          /\ out' = [out EXCEPT !["exec"] = Resp("exec", FALSE, {cause, "stop"}, 0)]
    /\ UNCHANGED <<main, result, i, cause, idx, chan, waypointIndex, ctxVars>>

\* Mutant: the final check at len(waypoints), one past the last waypoint.
ExecFinalPastEnd ==
    /\ pc["exec"] = "final"
    /\ pc' = [pc EXCEPT !["exec"] = "send"]
    /\ \E r \in CheckOutcomes("exec", NumWaypoints) :
          out' = [out EXCEPT !["exec"] = r]
    /\ UNCHANGED <<main, result, execVars, idx, chan, waypointIndex, base,
                   ctxVars>>

\* The plan has been run: deviatedFromPlan(ctx, plan, len(waypoints)-1).
ExecFinal ==
    /\ pc["exec"] = "final"
    /\ pc' = [pc EXCEPT !["exec"] = "send"]
    /\ \E r \in CheckOutcomes("exec", NumWaypoints - 1) :
          out' = [out EXCEPT !["exec"] = r]
    /\ UNCHANGED <<main, result, execVars, idx, chan, waypointIndex, base,
                   ctxVars>>

\* A goroutine's send on its response channel, after which ManagedGo calls
\* executeBackgroundWorkers.Done.
Send(w) ==
    /\ pc[w] = "send"
    /\ Len(chan[w]) < ChanCap
    /\ chan' = [chan EXCEPT ![w] = Append(@, out[w])]
    /\ pc' = [pc EXCEPT ![w] = "exited"]
    /\ UNCHANGED <<main, result, out, execVars, idx, waypointIndex, base,
                   ctxVars>>

(***************************************************************************)
(* The replanners' startPolling goroutines.                                *)
(***************************************************************************)
\* The ticker fires (never, for a replanner whose frequency is 0): the
\* check runs at int(waypointIndex.Load()).  Go's select may take the tick
\* even when ctx.Done() is also ready.
PollTick(p) ==
    /\ p \in Polling
    /\ pc[p] = "wait"
    /\ pc' = [pc EXCEPT ![p] = "check"]
    /\ idx' = [idx EXCEPT ![p] = waypointIndex]
    /\ UNCHANGED <<main, result, out, execVars, chan, waypointIndex, base,
                   ctxVars>>

\* case <-ctx.Done(): return.
PollExit(p) ==
    /\ pc[p] = "wait"
    /\ ctxDone
    /\ pc' = [pc EXCEPT ![p] = "exited"]
    /\ UNCHANGED <<main, result, out, execVars, idx, chan, waypointIndex, base,
                   ctxVars>>

\* needReplan returns: no replan keeps polling; a replan or an error is sent.
PollResult(p) ==
    /\ pc[p] = "check"
    /\ \E r \in CheckOutcomes(p, idx[p]) :
          /\ pc' = [pc EXCEPT ![p] = IF Success(r) THEN "wait" ELSE "send"]
          /\ out' = [out EXCEPT ![p] = r]
    /\ UNCHANGED <<main, result, execVars, idx, chan, waypointIndex, base,
                   ctxVars>>

\* Execute has returned.
Returned == main = "done" /\ UNCHANGED vars

ExecStep == ExecInit \/ ExecLoop \/ ExecGoTo \/ ExecReached \/ ExecMoveFailed \/ ExecStop
              \/ ExecFinal \/ Send("exec")
PollStep(p) == PollTick(p) \/ PollExit(p) \/ PollResult(p) \/ Send(p)
ListenStep == ListenCtx \/ \E w \in Workers : ListenChan(w)

Next ==
    \/ Start \/ ListenStep \/ Join \/ ParentCancel
    \/ ExecStep
    \/ \E p \in Pollers : PollStep(p)
    \/ Returned

(***************************************************************************)
(* Fairness: the Go scheduler runs every runnable goroutine; GoToInputs,   *)
(* Stop (bounded by baseStopTimeout) and the checks return.  A poller's    *)
(* select picks uniformly among ready cases, so one that keeps finding     *)
(* ctx.Done() ready eventually takes it (strong fairness of PollExit).     *)
(* The caller's cancellation is not assumed to happen.                     *)
(***************************************************************************)
Fairness ==
    /\ WF_vars(Start) /\ WF_vars(ListenStep) /\ WF_vars(Join)
    /\ WF_vars(ExecStep)
    /\ \A p \in Pollers : WF_vars(PollTick(p) \/ PollResult(p) \/ Send(p))
    /\ \A p \in Pollers : SF_vars(PollExit(p))

Spec == Init /\ [][Next]_vars /\ Fairness

-----------------------------------------------------------------------------
ExecPCs == {"none", "init", "loop", "goto", "moving", "stopping", "final", "send", "exited"}
PollPCs == {"none", "wait", "check", "send", "exited"}

TypeOK ==
    /\ main \in {"start", "listen", "wait", "done"}
    /\ result \in Response
    /\ pc \in [Workers -> ExecPCs \cup PollPCs]
    /\ pc["exec"] \in ExecPCs
    /\ \A p \in Pollers : pc[p] \in PollPCs
    /\ out \in [Workers -> Response]
    /\ i \in 0..NumWaypoints
    /\ cause \in {"ctx", "goto"}
    /\ idx \in [Pollers -> 0..NumWaypoints]
    /\ chan \in [Workers -> Seq(Response)]
    /\ \A w \in Workers : Len(chan[w]) <= ChanCap
    /\ waypointIndex \in 1..NumWaypoints
    /\ base \in {"idle", "moving"}
    /\ parentCancelled \in BOOLEAN
    /\ cancelled \in BOOLEAN
    /\ stopFailed \in BOOLEAN

(***************************************************************************)
(* Single writer, many readers (execute() and the replanners): while       *)
(* execute() works on waypoint i the shared waypointIndex is exactly i, it *)
(* never passes the last waypoint, and every check a replanner runs is at  *)
(* a waypoint of the plan.                                                 *)
(***************************************************************************)
IndexTracksExecution ==
    /\ waypointIndex <= NumWaypoints - 1
    /\ pc["exec"] \in {"loop", "goto", "moving"} /\ i <= NumWaypoints - 1
          => waypointIndex = i
    /\ \A p \in Pollers : pc[p] = "check" => idx[p] \in 1..NumWaypoints - 1

(***************************************************************************)
(* When Execute returns, every goroutine has been joined and the base is   *)
(* not left moving unless a Stop call failed: a GoToInputs error or a      *)
(* cancellation mid-move is always followed by mr.stop().                  *)
(***************************************************************************)
BaseHaltedOnReturn ==
    main = "done" =>
        /\ \A w \in Workers : Finished(w)
        /\ (base = "idle" \/ stopFailed)

(***************************************************************************)
(* Execute always returns: whichever response listen() takes, the deferred *)
(* cancelFn makes the pollers exit, execute() finishes, and every send     *)
(* finds room in its buffered channel, so Wait() does not block forever.   *)
(***************************************************************************)
ExecuteReturns == <>(main = "done")

(***************************************************************************)
(* Spec section 7: if a stop fails, the stop error is surfaced, never      *)
(* swallowed.  Execute returns the stop error whenever a stop failed.      *)
(***************************************************************************)
StopErrorSurfaced ==
    main = "done" /\ stopFailed => "stop" \in result.err

(***************************************************************************)
(* Spec section 4.5: a cancelled run ends Cancelled, a succeeded one has   *)
(* executed the whole plan.  Execute reports success (no replan, no error) *)
(* only after execute() has gone through every waypoint.                   *)
(***************************************************************************)
NoSilentSuccess ==
    main = "done" /\ Success(result) => i = NumWaypoints

(***************************************************************************)
(* Spec section 8: when a replan is signalled for an obstacle found at     *)
(* waypoint k, the waypoint index has not advanced past k at the moment    *)
(* listen() observes the signal.                                           *)
(***************************************************************************)
ReplanAtObservedWaypoint ==
    [][ (ListenChan("obstacle") /\ result'.replan) => waypointIndex <= result'.idx ]_vars
=============================================================================
