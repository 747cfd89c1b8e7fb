# Formal models of the motion-execution core

This directory holds TLA+ models of parts of this repository. It also holds
the TLC configurations that model-check them, and TLAPS proofs of their main
invariants. Every definition is translated from the Go source. `PROJECT.json`
maps each definition to the lines it models, with one exception:
the code that is not in this source tree (`replanner.startPolling`, and the
replanning loop and its choice between the globe and map constructors) is
modelled from `spec.md` and marked `spec_modelled`.

## The system and its parts

`spec.md` describes a motion-planning engine. It has a frame system, an IK
solver, a constraint and collision engine, a planner and an execution
supervisor. The source tree holds these parts of it:

| Part | Source | Status |
|---|---|---|
| Execution supervisor: one `moveRequest.Execute` | `services/motion/builtin/move_request.go` 103-264, 703-772 | modelled: `MoveRequest` |
| Request construction and validation, and the replanning loop around it | `move_request.go` 37-101, 266-701; the loop is not in this tree (spec §4.5) | modelled: `MoveSupervisor` |
| Constraint & collision engine: `ConstraintHandler` | `unnamed/part_005` 13-226 | partly: `ConstraintHandler` (the geometry of each constraint is abstracted) |
| Frame configuration (`FrameConfig`, `ToFrame`, `ToDHFrames`) | `unnamed/part_002` 1-115 | partly: `FrameConfig` (`ToFrame`, `ToDHFrames` not modelled) |
| NTRIP connection and sourcetable parsing | `components/movementsensor/rtkutils/ntrip.go` | modelled: `Ntrip`, refining `NtripConnect` for non-negative attempt settings |
| Fake arm, the actuator of tests and simulation | `unnamed/part_004` | partly: `FakeArm` (`MoveToPosition` not modelled) |
| ORB-SLAM YAML writer, camera transform pipeline, registration, examples | `unnamed/part_003`, `part_000`, `part_001`, `transform.go`, `register.go`, `cmd.go` | not modelled (see below) |

### How the supervisor's goroutines interact

`Execute(ctx, plan)` derives `cancelCtx` from the caller's `ctx`. It then
calls `start` and `listen`, and its two defers run in LIFO order: first
`cancelFn()`, then `executeBackgroundWorkers.Wait()`. Unless the context is
already done, `start` spawns three goroutines. All of them share `cancelCtx`
and the atomic `waypointIndex`, which starts at 1.

* **execute()** loads the index and goes through the waypoints. Before each
  one it checks `ctx.Done()`; a cancellation there stops the base and returns.
  A `GoToInputs` error also stops the base and returns. After each waypoint
  it calls `waypointIndex.Add(1)`, except after the last. At the end it runs
  the final `deviatedFromPlan`. Its result is sent on `responseChan`, which
  has a buffer of one.
* **The position poller and the obstacle poller** (`replanner.startPolling`)
  tick at their frequency. A poller whose frequency is 0 never ticks. On each
  tick a poller runs its check at `int(waypointIndex.Load())`. It keeps
  polling on "no replan", and sends on its own channel and returns on a
  replan or an error. It returns on `ctx.Done()`.
* **listen()** selects over `ctx.Done()` and the three channels, and returns
  the first response it takes.

Whatever `listen` takes, the deferred `cancelFn` makes the pollers exit.
`execute()` finishes its current step and sends into its buffer, so `Wait`
returns.

## The module `MoveRequest`

State (`VARIABLES`) and where it lives in the code:

| Variable | Code |
|---|---|
| `main` | the caller's position in `Execute`: start, listen, wait, done |
| `pc[w]`, `out[w]` | where goroutine `w` is, and the response it will send |
| `i`, `cause` | `execute()`'s loop index; whether it is stopping for `ctx` or for a `GoToInputs` error |
| `idx[p]` | the `waypointIndex.Load()` of poller `p`'s current check |
| `chan[w]` | `responseChan`, `position.responseChan`, `obstacle.responseChan` |
| `waypointIndex` | `mr.waypointIndex` |
| `base` | whether the kinematic base is moving |
| `parentCancelled`, `cancelled` | the caller's `ctx` and Execute's `cancelFn` |
| `stopFailed` | some `mr.stop()` returned an error |
| `result` | the value `listen()` returned |

Actions: `Start` (start), `ListenCtx` and `ListenChan(w)` (the select
cases of listen, each with the deferred `DeferredCancel`), `Join` (Wait),
`ParentCancel` (the caller), `ExecInit`, `ExecLoop` (the loop test and
the `select`), `ExecGoTo` (entering `GoToInputs` from the `default`
branch), `ExecReached` with `AdvanceIndex`, `ExecMoveFailed`, `ExecStop`, `ExecFinal` and `Send(w)`
(execute and the goroutine's send), and `PollTick`, `PollExit`,
`PollResult` and `Send(p)` (startPolling).

What is abstracted:

* The base is either moving or idle.
* Each of `GoToInputs`, `Stop`, `GetFrameInputs` and the two checks
  (`deviatedFromPlan`, `obstaclesIntersectPlan`) has a nondeterministic
  outcome. `CheckOutcomes` gives a check's three outcomes: no replan, replan,
  or error.
* A response is a record: its source, whether it asks for a replan, the set
  of errors it wraps, and the waypoint index it was computed at.

Constants: `NumWaypoints`, the length of the plan, assumed to be at least 2;
and `Polling`, the replanners whose frequency is above zero.

### Fairness

* Weak fairness on each goroutine. The Go scheduler runs every runnable
  goroutine, `Stop` is bounded by `baseStopTimeout`, and the actuator and
  sensor calls return.
* Strong fairness on a poller's `ctx.Done()` case. Go picks uniformly among
  the ready cases of a `select`, so a poller that keeps finding the tick and
  `ctx.Done()` both ready takes `ctx.Done()` eventually.
* No fairness on `ParentCancel`: the caller need not cancel.

## Runs

All runs use `MC_MoveRequest`: three waypoints and both replanners polling.
This instance has 44,185 distinct states and depth 21. Three waypoints are
the fewest for which execute() reaches a middle waypoint, advances the index
twice, and stops advancing at the last one. With both pollers active, all
three channels can be filled in any order.

| Run | Expect | What it checks |
|---|---|---|
| `move_request` | pass | `TypeOK`; `IndexTracksExecution`; `BaseHaltedOnReturn`; `ExecuteReturns` (liveness) |
| `stop_error_surfaced` | violation | `StopErrorSurfaced` (spec §7) |
| `no_silent_success` | violation | `NoSilentSuccess` (spec §4.5) |
| `replan_at_observed_waypoint` | violation | `ReplanAtObservedWaypoint` (spec §8) |

The passing run shows the following:

* **IndexTracksExecution.** `waypointIndex` equals `execute()`'s loop index
  while it moves and never passes the last waypoint. Every poller check is at
  a waypoint of the plan.
* **BaseHaltedOnReturn.** When `Execute` returns, all three goroutines have
  been joined, and the base is idle unless a `Stop` failed.
  This includes a cancellation that lands between the `select` at line 111
  and `GoToInputs` at line 120. The context may be cancelled there by the
  caller, or by `Execute`'s deferred `cancelFn` once `listen` has taken a
  replanner's response. The `select` has already taken its `default`
  branch, so the next waypoint still starts. `ExecLoop` and `ExecGoTo` are
  separate steps so that the run reaches this window. The motion started
  there is stopped by the `GoToInputs` error path, or its stop failure is
  recorded.
* **ExecuteReturns.** `Execute` always returns. This depends on the order of
  the defers and on the one-slot buffers.

Each property has a mutant in `PROJECT.json` that TLC catches:

| Mutant | Property it breaks |
|---|---|
| final check one past the end | `TypeOK` |
| index advanced after the last waypoint | `IndexTracksExecution` |
| `GoToInputs` error returned without `stop()` | `BaseHaltedOnReturn` |
| `cancelFn` deferred after `Wait` | `ExecuteReturns` |

### Findings

The three violation runs show where the code and `spec.md` disagree:

1. **The stop error can be swallowed.** Suppose the caller cancels, and
   `listen` takes `ctx.Done()` while `execute()` is still in `mr.stop()`. If
   that `Stop` fails, the wrapped error (`move_request.go:115`) goes into a
   buffer nobody reads, and `Execute` returns only `context.Canceled`.
2. **A cancelled execution can look like success.** After a cancellation
   with a successful `Stop`, `execute()` returns `(ExecuteResponse{}, nil)`
   (`move_request.go:117`), the same value as a completed plan. If `listen`
   selects `responseChan` instead of `ctx.Done()`, `Execute` reports success
   with waypoints left.
3. **The index can run ahead of an obstacle replan.** Here the obstacle
   poller computed its replan at index k. `execute()` reaches the next
   waypoint and increments the index (`move_request.go:129`) before `listen`
   receives the replan.

## The module `ConstraintHandler`

`ConstraintHandler` (`part_005`) has two registries, each a map from a name
to a constraint function. A planner adds and removes constraints by name
and asks four questions. In the model each registry is a function whose
domain is the set of registered names. A call is recorded as `op`, `args`
and `ret`, the operation, its inputs and its result.

| Definition | Code |
|---|---|
| `AddStateConstraint`, `RemoveStateConstraint`, `AddSegmentConstraint`, `RemoveSegmentConstraint` | the map writes at lines 191-226 (`Put`, `Delete`) |
| `CheckStateConstraints`, `CheckSegmentConstraints` | lines 106-132. The loop over a Go map returns the first failing name in random order, so `CheckResults` allows any failing name |
| `CheckStateConstraintsAcrossSegment` (`AcrossSegment`) | lines 134-168: pose resolution, then the first failing interpolated state, found with `SelectInSeq`, then the frameless prefix up to the last good configuration |
| `CheckSegmentAndStateValidity` (`SegmentAndStateValidity`) | lines 170-189 |

Data abstraction:

* A configuration is a member of `Configs`.
* A state constraint is the set of configurations it rejects (`StateFns`).
* A segment constraint is a set of rejected `<<start, end>>` pairs, plus
  whether it needs poses (`SegmentFns`). A collision or orientation check
  needs poses, and then `resolveInputsToPositions` needs the Frame.
* `PathStepCount` and `InterpolateInputs` are replaced by an input path of
  2 to `MaxSteps + 1` configurations from the start to the end.

`MC_ConstraintHandler` uses two names and three configurations. It has two
state constraints: one rejects 0, the other rejects 1. It has two segment
constraints: one needs poses, the other rejects the pair `<<0, 2>>`. Paths
have up to three states, so a failure can come at the start, in the middle
or at the end, and a prefix can be one or two states long. The run reaches
26,965 distinct states.

| Run | Expect | What it checks |
|---|---|---|
| `constraint_handler` | pass | `AcrossIsLongestValidPrefix`, `ValidityVerdictSound` |
| `shrinks_to_valid_prefix` | violation | `ShrinksToValidPrefix` (spec §4.2, comment at line 171) |

* **AcrossIsLongestValidPrefix.** The result is checked against a
  reference definition, `ValidPrefixLength`, the largest `k` whose first `k`
  states pass. Mutant: the prefix ends at the failing configuration
  instead of `lastGood`.
* **ValidityVerdictSound.** The combined check accepts only segments whose
  every state and segment constraint passes. A prefix it returns passes the
  segment constraints and ends on a good state. Mutant: the prefix is
  returned without re-checking the segment constraints.
* **Finding.** The prefix is built at line 162 without a `Frame`. A
  registered segment constraint that needs poses therefore rejects it at
  line 181, even though the same prefix with its segment's `Frame` passes.
  The planner is told `false, nil` and cannot shrink the segment.

## The module `Ntrip`

`ntrip.go` is the client of an NTRIP caster, which sends RTK corrections.
It is used in four calls, in this order:

* `NewNtripInfo` checks the configuration. It replaces a zero
  `ntrip_connect_attempts` by 10.
* `Connect` calls `ntrip.NewClient` up to `MaxConnectAttempts` times. It
  checks `ctx.Done()` before each attempt.
* `ParseSourcetable` scans the caster's table line by line.
* `HasStream` looks a mountpoint up in the parsed streams.

| Definition | Code |
|---|---|
| `NewNtripInfo` | lines 93-122; the empty-URL error and the default for 0 |
| `ConnectCall`, `ConnectStep` | lines 226-247. One step is one iteration of the `for` loop, or its exit |
| `Cancel` | the caller cancelling `ctx`, seen by the `select` at 232-234 |
| `ParseCall` | lines 125-138. A nil `Client` is dereferenced (`parseRet = "panic"`), or `GetSourcetable` fails, or the scan starts |
| `ScanNext` with `ScanLine` | one iteration of the scan loop, lines 140-165 |
| `ScanStop` | `scanner.Scan()` returning false at EOF or on a read error. `scanner.Err()` is never consulted |
| `parseStream`, `StreamParses` | lines 171-221 |
| `HasStream` (`FindStream`) | lines 250-259 |

A line is a record of its first field. For an STR line it also holds:

* the mountpoint;
* the number of fields;
* whether the numeric fields parse;
* whether the bitrate parses, and its value;
* the fee flag.

`MC_Ntrip` has attempt settings −1, 0 and 2, and two mountpoints. Its four
tables between them hold every kind of line, a duplicate mountpoint, a line
after `ENDSOURCETABLE`, an STR line with 18 fields, one with a bad number
and one with a bad bitrate. The run has 1,308 distinct states. The client is
used once, so the runs do not check for deadlock.

| Run | Expect | What it checks |
|---|---|---|
| `ntrip` | pass | `ConnectFailureIsLastError`, `SourcetableFaithful`, `MountpointLookup` |
| `connected_on_success` | violation | `ConnectedOnSuccess` |

* **ConnectFailureIsLastError.** A dial error is returned only after
  exactly `MaxConnectAttempts` failed attempts, and a context error only
  after a cancellation, in both cases without a `Client`. Mutant: a loop
  bound of `<=`.
* **SourcetableFaithful.** This compares the line-by-line loop with a
  whole-table reference. `Body` is the lines read before the first
  `ENDSOURCETABLE`, and `StrIdx` holds the indices of its STR lines. The
  parse succeeds exactly when every line of `Body` is legal. Its streams
  are then the parsed STR lines in order. The order is stated by an
  increasing map `pos` from stream positions onto `StrIdx` (`StrOrder`):
  the j-th stream is parsed from the j-th STR line. Mutant: no `break`
  at `ENDSOURCETABLE`.
* **MountpointLookup.** After a successful parse, `HasStream` finds a
  mountpoint exactly when an STR line of `Body` names it, and returns the
  stream of the least such index. Mutant: the last match.
`NtripConnect` states the contract of `Connect`'s comment ("if we're
unable to connect after multiple attempts, we return the last error"),
with the retry loop hidden. `Connect` returns in one step: nil with a
Client, the last dial error, or the context's error once the context is
done. `Ntrip` maps onto it through `AbstractConnect` (`ConnectRefinement`).
No run checks the refinement, because it does not hold on `MC_Ntrip`: the
setting −1 returns nil without a Client, the defect that
`connected_on_success` shows. With the settings {0, 2}, TLC finds that
the refinement holds, and that dropping the 0→10 default breaks it.
`ConnectRefines` proves it for every set of non-negative settings.

* **Finding.** A negative `ntrip_connect_attempts` is kept by
  `NewNtripInfo`. `Connect` then makes no attempt and returns nil with no
  `Client`, and `ParseSourcetable` dereferences nil.

No fairness is assumed. Fairness on `ConnectStep` would force a dial to
succeed eventually, which the network does not promise. That `Connect`
returns needs no fairness argument: its loop is bounded.

## The module `MoveSupervisor`

A move runs in rounds. Each round:

1. builds a `moveRequest` with `newMoveOnGlobeRequest` or
   `newMoveOnMapRequest`, passing the current replan count;
2. plans it (`moveRequest.Plan`);
3. executes it (`Execute`, modelled in detail by `MoveRequest`).

A replan response starts the next round with the count incremented. The
loop that does this is not under `src/`, so `Init`, `Execute`, `Done`,
`Terminal` and `Steps` are modelled from spec §4.5 and marked
`spec_modelled`. Every other definition is translated from
`move_request.go`.

* **Construction** (`Construct`, `FirstFailure`) follows `GlobeSteps` or
  `MapSteps`, the code's sequence of early returns in the two
  constructors (lines 373-583).
  * *Checks on the request:* the extra, the replan budget (lines 384-388),
    the motion configuration, a nil, NaN or too-distant destination,
    missing dependencies, and unknown vision services.
  * *Collaborator calls:* position, heading, frame system, kinematic base,
    SLAM limits and point cloud, `ReplaceFrame`/`AddFrame`, subset,
    current position, world state and current inputs. Each may fail.
  * A failed `TransformPose` is not an error: the code falls back to the
    base origin.
* `Validated` is `newValidatedMotionCfg`:
  * NaN and negative values are rejected;
  * zero takes the positive default;
  * nil detectors become none.
* `KbOptions` is `kbOptionsFromCfg`. `Polling` is the choice of polling
  period at lines 660-670.
* `ExecOutcomes` abstracts `Execute` to the results `MoveRequest` can
  return. A replan can come only from a polling replanner.

Bounds: the replan count saturates at `ReplanCap = 3`. This is above
every `maxReplans + 1` of the instance, so the budget check at a saturated
count gives the same answer it would give at the real count. The instance
covers:

* globe and map moves;
* maxima −1, 0 and 1, and an invalid extra;
* five motion configurations: nil, zeros, a negative field, NaN, and
  unknown detectors;
* four kinds of destination;
* missing sensor or SLAM service.

That is 480 requests, and the run has 3,288 distinct states.

Fairness: weak fairness on `Construct`, `Plan` and `Execute`. The
supervisor's calls are sequential, and each returns. For `Execute` this is
`ExecuteReturns` of `MoveRequest`. The fairness does not choose outcomes:
every round may end in a replan.

| Run | Expect | What it checks |
|---|---|---|
| `move_supervisor` | pass | `ReplanBudget`, `InvalidNeverExecutes`, `Terminates` |
| `position_polling_off_when_unset` | violation | `PositionPollingOffWhenUnset` (comment at line 660) |

* **ReplanBudget.** With `maxReplans >= 0`, `Execute` runs at most
  `maxReplans + 1` times. Mutant: the budget applies only to positive
  maxima, so `maxReplans = 0` becomes unbounded.
* **Terminates.** With `maxReplans >= 0`, every move ends. Mutant: a
  failed plan is retried without counting.
* **InvalidNeverExecutes.** An invalid extra, configuration or destination
  never reaches `Execute`. Mutant: the globe NaN check is dropped.
* **Finding.** A zero or unset polling frequency is replaced by the
  positive default (lines 322 and 366). The comment's "don't poll if not
  provided" branch is therefore unreachable: position and obstacle polling
  cannot be turned off.

## The module `FrameConfig`

`FrameConfig` models how a frame system serialises a static frame
(`NewFrameConfig`) and converts a config back (`FrameConfig.ParseConfig`,
through `FrameConfig.Pose`). Data is abstracted to what the control flow
reads:

* A frame has a name, an orientation that may fail to convert, and a
  geometry that is nil, convertible, or failing.
* A link is present or nil.
* A geometry config is nil, a box, or failing.
* A result has status `ok`, `err` or `panic` (a nil pointer dereference).

The state is the frame given (`frame`), the config at hand (`cfg`) and
`ParseConfig`'s result (`ret`). The actions are:

* `NewFrameConfig`: converts a frame. An error is the caller's answer.
* `ReadJson`: reads a config from JSON.
* `ParseConfig`: converts the config back.

The run `frame_round_trip` checks `RoundTrip`: a config built from a frame
converts back into a frame of the same name. TLC finds it violated in
three steps. `Pose` tests `link != nil` where it means `link == nil`
(line 102). A config with a link fails with ErrNilPose, and a config
without one dereferences nil at line 105.

The geometry loop is modelled but unreachable while `Pose` fails. It hides
a second failure: `NewFrameConfig` stores a nil geometry config for a frame
without geometry (line 73), which the loop would dereference.

## The module `FakeArm`

The fake arm is the actuator that the motion service drives in tests and
in simulation. `NewArm` loads a kinematic model with `Dof` joints, but it
always stores six joint values, all 0 (line 92). The operations are:

* `MoveToJointPositions`, and `GoToInputs`, which calls it. It checks the
  command with the model's `Transform`, then `copy`s it into that storage.
  The model's `MoveToJointPositions` action covers the check. `CopyStep`
  is one element of the `copy`, or its end.
* `JointPositions`, and `CurrentInputs`, which calls it. It returns the
  storage itself, not a copy. The model's `JointPositions` action is the
  caller reading it.
* `Close` counts its calls.

Nothing is locked. The constant `Callers` is the set of goroutines that
call the arm. Each has its own call in progress (`writer[c]`), and any
number of them may be copying into the storage at once. The
element-by-element copy stands for the outcomes of that data race: two
copies may interleave element by element, and a read may land anywhere
in either.

The run `fake_arm` (`Dof = 6`, two callers) checks one property:

* **JointsValid.** The stored joints are always a configuration that
  `Transform` accepts, including every torn mix of two racing copies.
  Mutant: the `Transform` check dropped.

The instance has joint values 0 and 1 within the limits and 2 outside
them, and commands of every kind: in limits, out of limits, and the wrong
length. It has 248,866 distinct states.

Two defects are recorded as hazards in `PROJECT.json`. Neither has a run,
because spec.md puts arm drivers out of its scope:

* With `Dof = 7` (a fake xArm7), TLC finds `JointsValid` violated in the
  initial state: six stored values cannot be transformed by a seven-joint
  model (line 92).
* Two racing moves, or a read racing one move, can leave or return a mix
  of two configurations, a position the arm never took (line 149). No
  property claims otherwise, because the code makes no such promise.

## Proofs (`MoveRequestProofs`)

The proofs are checked by TLAPS for every `NumWaypoints >= 2` and every
`Polling \subseteq {"position", "obstacle"}`. These are the assumptions
`NumWaypointsAssumption` and `PollingAssumption`.

* `TypeCorrect`: `Spec => []TypeOK`.
* `IndexSafety`: `Spec => []IndexTracksExecution`.
* `BaseHaltedSafety`: `Spec => []BaseHaltedOnReturn`.

`IndexTracksExecution` is not inductive by itself. For example, a step from
a state where `execute()` is moving at `i = NumWaypoints` would publish an
index past the plan. `IInv` adds `TypeOK` and the two bounds on `i` in the
`loop` state and from the `select` to the end of `GoToInputs` (`goto`,
`moving`). With those, the argument goes as follows:

* `ExecReached` advances the index exactly when `i < NumWaypoints - 1`, so
  the index and `i` move together.
* Past the last waypoint, `ExecLoop` leaves the loop.
* `PollTick` copies an index that is already within the plan.

`InitIInv` and `NextIInv` prove the two inductive facts. `NextIInv` has one
step per action, and the type of each response built is its own step. The
helper lemmas are `RespType`, `CheckOutcomesType` and `ExceptType`.

`BaseHaltedOnReturn` is not inductive either. Its inductive strengthening
is `HaltInv`, which TLC checked on the `move_request` instance before it
was proved. `HaltInv` is `IInv` plus three facts, which give
`BaseHaltedOnReturn`:

* Before `start()`, no goroutine exists and the base is idle.
* Once `main = "done"`, every goroutine is finished. `Join` requires this,
  and no finished goroutine takes another step.
* The base is `moving` only in three cases: `execute()` is in
  `GoToInputs` (`moving`), it is about to call `mr.stop()` (`stopping`),
  or a stop has failed.

The third fact is the one the code has to get right. Only `ExecGoTo` sets
the base moving, and it enters `moving`, whatever the context has become
since the `select`. `ExecMoveFailed` may leave the
base moving, but it always goes to `stopping`. `ExecStop` either idles the
base or sets `stopFailed`, which is never reset.

The following are checked only by TLC:

* The liveness property `ExecuteReturns`. TLAPS cannot reason about
  fairness or `ENABLED`.
* The three violations.

## Proofs (`NtripProofs`)

`ConnectErrorSafety` proves `Spec => []ConnectFailureIsLastError`. It holds
for every set `AttemptInputs \subseteq Int` of `ntrip_connect_attempts`
values, negative values included. It also holds for every mountpoint set and
every set of sourcetables.

`ConnectFailureIsLastError` is not inductive by itself. A state inside the
loop with `err = "dial"` and `attempts > maxAttempts` would return a dial
error with the wrong count. The strengthening `ConnInv` adds the following:

* Inside the loop, `err` is a dial error exactly when an attempt has failed.
* Once an attempt is made, `attempts` never exceeds `maxAttempts`. Hence,
  when the loop exits on `attempts >= maxAttempts` with a dial error, the
  two are equal.
* There is no Client before Connect returns, and there is a result once it
  has returned.
* Connect runs only on an info that `NewNtripInfo` accepted. This is the
  only action that changes `maxAttempts`, and it does so only while
  Connect is idle.

`InitConnInv` and `NextConnInv` prove that `ConnInv` is inductive.
`ConnInv` also records that an accepted info never has 0 attempts.
`NextConnInv` has one case per action. `ConnectStepConnInv` splits the loop
step three ways: the exit, the context error, and dial success or failure.

`ConnectRefines` proves `AttemptInputs \subseteq Nat => (Spec =>
ConnectRefinement)`: when no setting is negative, the client implements
`NtripConnect`, the contract of `Connect`'s comment. The hypothesis is
needed, because a negative setting returns nil without a Client (the run
`connected_on_success`). The proof has three parts:

* `PosInv` is `ConnInv` plus "an accepted info has a positive count".
  Under the hypothesis, `NewNtripInfo` either keeps a positive setting or
  replaces 0 by 10 (`NextPosInv`).
* `InitRefines` maps the initial state.
* `NextRefines` maps each step, under `PosInv`, to a step of
  `NtripConnect` or a stutter. Inside the loop there is no Client and no
  result yet, and `err` is nil exactly when no attempt was made. An exit
  past the last attempt has made at least one, so it returns a dial error,
  never nil. A context error comes with the context done, and nil comes
  with a Client.

## Proofs (`NtripParserProofs`)

Two theorems hold for every set of sourcetables and mountpoints:

* `SourcetableSafety`: `Spec => []SourcetableFaithful`.
* `MountpointLookupSafety`: `Spec => []MountpointLookup`.

They rely on one assumption, `TablesAssumption` in `Ntrip`: every table
is a sequence of `Line` records.

Neither property is inductive. Each compares the state at the end of the
scan with a reading of the whole table. The inductive invariant `PInv`
describes the scan at every step. TLC checked `PInv` on the `ntrip`
instance, with an empty table added, before it was proved. `PInv` says:

* While scanning, each of the `read` lines read is legal and none is
  `ENDSOURCETABLE` (`Clean`).
* The streams are the STR lines among the lines read, parsed, in order
  (`Enum`). This is the same increasing-map statement as `StrOrder`, but
  over a prefix of the table.
* A successful parse ended in one of two ways. Either every line read
  satisfies `Clean` and `Enum`, or all lines but the last do and the last
  is `ENDSOURCETABLE`.
* A failed scan read `Clean` lines and then one illegal line that is not
  `ENDSOURCETABLE`.
* `HasStream` runs only after a successful parse, and no later step
  changes the streams. `hasRet` is then the first stream for `hasArg`
  (`Lookup`).

The proof has three parts:

* Per action. `ScanNextPInv` splits on `ScanLine`'s four outcomes
  (`ScanLineCases`). `EnumSkip` covers a line that adds no stream, and
  `EnumAppend` an STR line that extends the map with the new index.
  `FindStreamFacts` uses `MinIsLeast` of `IndexLemmas` to show that
  `SelectInSeq` returns the first stream for the mountpoint.
* From the prefix to `Body`. `BodyNoEnd` shows that without
  `ENDSOURCETABLE`, `Body` is all the lines read. `BodyEnd` shows that
  with `ENDSOURCETABLE` last, `Body` stops before it.
* The properties. `OkBody` and `ErrBody` give `SourcetableFaithful`. In
  `PInvLookup`, the increasing map carries the least matching stream to
  the least matching STR line.

The properties used to be stated with `SelectSeq`. That is a recursive
function with an operator parameter, about which the provers can derive
nothing. The increasing map states the same thing, and TLC still checks
them on the `ntrip` run against the same two mutants.

## Proofs (`MoveSupervisorProofs`)

`ReplanBudgetSafety` proves `Spec => []ReplanBudget`: with a non-negative
`maxReplans`, the plan is executed at most `maxReplans + 1` times. It
relies on two assumptions:

* `ReplanCapAssumption`: the saturation bound `ReplanCap` is positive.
* `RequestsAssumption`: every `maxReplans` is an integer below
  `ReplanCap`, so the bound never cuts a count the budget check reads.

The argument has two parts:

* `BudgetStopsConstruction`: past the budget, `FirstFailure` names a step.
  The budget check is the second step of both constructions
  (`BudgetIsSecondStep`), so the set of failing indices contains 2. Its
  least element is 1 or 2, which gives `SelectInSeq` a minimum to return.
  No step is called `"none"` (`StepsNamed`).
* `BudgetInv`, which TLC also checks on the instance of the run. With
  `m = maxReplans >= 0`, `executions <= replanCount` outside terminal
  phases, `replanCount <= m` while a round is planned or executed, and
  `replanCount <= m + 1` while one is constructed. A round that constructs
  successfully therefore runs at a count `<= m`. Its Execute raises
  `executions` by one, and a replan raises `replanCount` by one.

`InitBudgetInv` and `NextBudgetInv` prove the two inductive facts.
`NextBudgetInv` has one case per action, and the Execute case has one case
per outcome.

`InvalidNeverExecutesSafety` proves `Spec => []InvalidNeverExecutes`: a
move whose request is invalid is never executed. The argument:

* `InvalidStopsConstruction`: an invalid request fails construction. One of
  the validation steps fails. These are `extra` (index 1), `cfg` (3) and
  `destNil` (4), and for a globe destination also `destNaN` (5) and `far`
  (12). The set of failing indices is therefore a non-empty set of
  naturals. `MinIsLeast` (module `IndexLemmas`) gives it a least element,
  so `SelectInSeq` returns a real step whichever collaborator call fails.
* `ValidInv`: with an invalid request, the phase is construction or
  terminal and `executions = 0`. It is inductive because Construct then
  always goes to `"failed"`. TLC also checks it on the run's instance.

`Terminates` (liveness) is checked only by TLC.

## The module `IndexLemmas`

Several models find "the first element that ..." with `SelectInSeq`,
which returns `Min` of the set of matching indices. `Min` is a `CHOOSE`: it
names the least index only if one exists. `NatMin` proves that every
non-empty set of naturals has a least element. It uses the
well-foundedness of `<` on `Nat` from the library's
`WellFoundedInduction` (`NatLessThanWellFounded`, `WFMin`). `MinIsLeast`
states the consequence for `Min`. This is the only induction the proofs
need, and it comes from the library's own proof.

## Proofs (`ConstraintHandlerProofs`)

Two theorems, for every set of configurations, constraints and step
bound:

* `AcrossPrefixSafety`: `Spec => []AcrossIsLongestValidPrefix`.
* `ValidityVerdictSafety`: `Spec => []ValidityVerdictSound`.

The lemmas:

* `FirstBadFacts`: `FirstBad`, the index `SelectInSeq` returns, is 0 when
  every state passes. Otherwise it is the index of a failing state, and
  every state before it passes. This uses `MinIsLeast`.
* `PrefixLength`: the reference `ValidPrefixLength` (a `CHOOSE`) equals
  `Len(path)` or `FirstBad - 1`. The proof shows that this value satisfies
  the defining predicate and is the only one that does.
* `AcrossCorrect` and `ValidityCorrect` prove the two properties for a
  single call, by cases on `FirstBad` and on the early returns.
* `CheckInv` is the inductive invariant: the last check's `ret` is what the
  check computes on its `args` for the constraints registered now.
  Registering or removing a constraint is a call of its own, so it
  replaces `op`. `ChecksUnchanged` shows that a check's value depends only
  on the registries.

Writing these proofs exposed one modelling issue. The early returns of
`CheckStateConstraintsAcrossSegment` and `CheckSegmentAndStateValidity`
were first written as `CASE` arms with overlapping guards. TLC takes the
first true arm, but in TLA+ such a `CASE` may take the value of any true
arm, so the definition did not say what the code does. They are now
`IF ... ELSE IF` chains, in the code's order. `NewFrameConfigOf` and
`ParseConfigOf` in `FrameConfig` got the same change. The runs give the
same results as before.

## Proofs (`FakeArmProofs`)

`JointsValidSafety` proves `Dof = 6 => (Spec => []JointsValid)`. It holds
for every limit set `Limit`, every command set `Commands` allowed by
`FakeArmAssumption` (limits and commands are naturals, and 0 is within
limits), and every set `Callers` of concurrent callers. `Dof = 6` is a
hypothesis because `NewArm` always stores six values. When the model has
another DOF, the very first state already fails `JointsValid`, and no
proof can change that.

`JointsValid` alone is not inductive. A `CopyStep(c)` writes
`writer[c].src[writer[c].i]`. That value is within limits only because
`MoveToJointPositions(c)` checked `writer[c].src` when the copy started.
Other callers' copies may have overwritten any element since then. The
strengthening `ArmInv` adds:

* the types of `joints` and of every caller's `writer[c]` (`WriterType`);
* `Len(joints) = Dof`;
* for every caller with a copy in progress, `TransformOk(writer[c].src)`
  holds and `writer[c].i` is positive.

Each element write keeps the length (`ExceptSeq` of `SequenceTheorems`)
and keeps every value in `Limit`, whichever caller writes it. TLC checked
`ArmInv` on the instance of `FakeArm.cfg`.

`InitArmInv` and `NextArmInv` prove the two inductive facts. `MoveArmInv`
and `CopyArmInv` handle one caller's step, with one case for that caller
and one for every other.

## Not modelled, and why

* **Geometry of the constraints** (`part_005` 237-437): the collision
  graphs and the plane, line and slerp tolerances are floating-point
  geometry. `ConstraintHandler` keeps only which states and segments each
  constraint rejects.
* **Frame configuration, joints** (`part_002` 116-159): `ToFrame` and
  `ToDHFrames` are single calls to frame constructors outside `src/`. They
  hold no state.
* **Fake arm, `MoveToPosition`** (`part_004` 124-140): it calls the CBiRRT
  planner and `arm.GoToWaypoints`, which are outside `src/`.
* **SLAM YAML writer** (`part_003`): file I/O.
* **Camera pipeline, registration and examples:** dispatch and mains with no
  state of their own, outside the spec's core.

The hazards of all these parts are listed in `PROJECT.json`, with the line
where each one bites.
