# TLA+ models of the HUniversal equiplet coordinator

This directory holds TLA+ models of the equiplet coordinator in
`src/ros/equipletNode/src/EquipletNode.cpp`, the TLC configurations that check
them, and `PROJECT.json`. That file lists the components, runs, mutants,
source map, findings and hazards.

## 1. Inventory

### Parts of the system

| Part | Source | State | Operations |
|---|---|---|---|
| Module registry | `EquipletNode.cpp` 37-59, 202-306, 338-405 | `moduleTable` (a `std::vector<HardwareModuleProperties>` of id, type, currentState, actor, needed, error, package, executable), `nextModuleID` | `registerModule`, `deregisterModule` and `getAllModules` services. Helpers: `addHardwareModule`, `removeHardwareModule`, `getModuleState`, `updateModuleState` |
| State aggregator | 157-193 | `safetyState`, `operationState` | `updateSafetyState` (max state of actors, starting at `safe`) and `updateOperationState` (min state of actors that are needed, starting at `normal`, and `safe` if there are none). Every mutation calls both |
| Notification router | 104-152 | none of its own | `StateUpdate_<eq>` service (`stateChanged`), `ModuleError_<eq>` service (`moduleError`, which answers `currentState - 3`), and `sendStateChangeRequest` (an outbound call; nothing in `src/` calls it) |
| Blackboard client and matcher | `BasicOperationSubscription.h` (header only), callback at 75-95 | oplog position, subscriptions (in the client library, which is not in `src/`) | `subscribe("instruction")`, then `blackboardReadCallback` on a client thread. The callback parses the message and calls `removeOldestMessage` |
| Module bootstrap | 211-229 | child processes | `fork` plus `execl("rosrun <pkg> <exe> <eq> <id>")`. Only runs when `autoStart` is true, and every caller passes false |
| Lookup handler call | 315-329 | none | An outbound call whose answer is dropped. Nothing calls it |
| Entry point | 410-443 | none | Parses the equiplet id, then runs `ros::spinOnce()` at 10 Hz |
| Hardware modules (DeltaRobotNode, deltarobot) | headers only | their own state machine | Outside the coordinator. They are the callers of its services |

### How the parts interact

Hardware-module processes call the coordinator's ROS services. They register,
report state changes and errors, list the table and deregister. The
coordinator's main thread runs one service callback at a time, inside
`ros::spinOnce()`. That makes each handler, together with its trailing
`updateSafetyState(); updateOperationState();`, atomic with respect to every
other handler. The blackboard client delivers oplog entries on a thread of its
own. Its callback, `blackboardReadCallback`, touches only the blackboard
client and never the module table.

### What is hard

The coordinator itself is sequential. The hard behaviour comes from three
sources:

- **Its callers interleave.** Several module processes call it in any order.
  They can die and restart without deregistering, so ids, records and the
  derived cell states must stay consistent across any sequence of calls.
- **Numeric edges.** The error recovery state is computed arithmetically,
  `nextModuleID` is an int, and incoming states are never validated.
- **The outbound paths and the feed.** These are unreliable: the reply of the
  state-change call is ignored, the endpoint name is built with pointer
  arithmetic, `fork`/`execl` can fail in a half-done way, and "remove oldest"
  acknowledgement can race with other subscribers.

### Properties that make each part correct

- **Registry:**
  - An id is never answered to two processes.
  - The record under a process's id is that process's own record and shows
    the state that process last reported.
  - Listings come back in registration order.
  - A refused add leaves the table unchanged.
- **Aggregator:** after every call, the safety and operation states equal the
  max and min aggregates of the current table (spec 4.2). No value is carried
  over from an earlier table.
- **Router:**
  - A recovery state is a valid state, clamped at `safe` (spec 4.3).
  - A state-change request reaches `RequestStateChange_<eq>_<id>`.
  - A failed request leaves the registry untouched.
- **Matcher** (spec 4.4):
  - Each subscription receives exactly the matching entries, in feed order.
  - A match fault on one (subscription, entry) pair affects no other pair.
  - The acknowledged entry is the one that was processed.
- **Bootstrap:** the registry holds only modules whose process started
  (spec 9).

## 2. Plan

The modules are listed in order of importance. Items 1-5 are done.

1. **`EquipletNode`** (done): the registry, the aggregator, and the
   `stateChanged` and `moduleError` services, with the module processes as
   callers that may restart. `MCEquipletNode` instantiates it.
2. **`StateChangeRequest`** (done): `sendStateChangeRequest`. It builds the
   endpoint name as the code does (int + `char*`, so equiplet 0 gives `"_"`,
   equiplet 1 gives `""`, and any other id is undefined behaviour, modelled as
   a nondeterministic suffix), with module processes that start and exit.
   Left: composing it with `EquipletNode` through the state the module
   reports after handling a request.
3. **`BlackboardClient`** (done, without subscription cancellation): the
   tailing thread and the per-subscription match, with match faults, and
   `blackboardReadCallback`'s `removeOldestMessage` acknowledgement. The
   thread is library code that is not in `src/`, so only what the callback
   removes is checked.
4. **`Bootstrap`** (done): `addHardwareModule` with `autoStart`. It covers `fork`
   failure, `execl` failure with the fall-through into `case -1` in the child,
   and the parent recording the module before the process is known to start.
   It also covers the child going on with `main` when `execl` fails.
5. **Numeric runs on `EquipletNode`** (done): ids taken modulo `2^w` for a small `w`
   (wrap of `nextModuleID`), and processes reporting out-of-range states
   (line 106).
6. **`Registry`** (done): the abstract registry of spec 4.1/4.2/8.
   `EquipletNode` is checked to refine it.
7. **Left:**
   - **Composing `StateChangeRequest` with `EquipletNode`** through the state
     a module reports after a request. While no request reaches a module,
     this composition adds no behaviour.

## 3. What is modelled now

### `EquipletNode.tla`

**Variables and the code they model:**

- `moduleTable` is the vector, in order. Each record keeps `id`,
  `currentState`, `actor` and `needed`. It drops `type`, `error` (never
  written), `modulePackage` and `moduleExecutable`, because nothing the
  coordinator decides depends on them.
- `nextModuleID`, `safetyState` and `operationState` are the members of the
  same name. `nextModuleID` is an int of `IntWidth` bits. `++` wraps it from
  `IntMax` to `IntMin` (`Wrap`), which is what the build's add instruction
  does on signed overflow. Ids are `IntMin..IntMax`, and `NoId` lies outside
  that range.

**Ghost variables** (written only for the properties):

- `registeredBy[id]`: which process's registration created the record with
  this id (a refused add leaves it unchanged), and the `isNeeded` flag the
  process would ask for under spec section 6. The request has no such field.
- `registrations`: how many `registerModule` calls there have been. It is
  bounded by `MaxRegistrations`.
- `myId[c]`: the id answered to process `c`.
- `reported[c]`: the last state `c` reported.
- `errorReply`: the last `moduleError` answer.
- `snapshot`: the ids of the last `getAllModules` answer.

**Actions, one per service handler:**

| Action | Handler |
|---|---|
| `RegisterHardwareModule` | `registerHardwareModule` together with `addHardwareModule(module, false)` |
| `DeregisterHardwareModule` | `removeHardwareModule` |
| `StateChanged` | `updateModuleState` |
| `ModuleError` | `getModuleState(id) - 3` |
| `GetAllRegisteredHardwareModule` | the listing service |

The recomputation of both cell states is part of every mutating helper
(`SetTable`). It is never a separate step. `ClientRestart` is the environment:
a module process dies and starts again without deregistering.

**What the code does that the model keeps:**

- The id is answered even when the add is refused.
- `nextModuleID` is incremented in both cases.
- `needed` is always false.
- The reply's `succeeded` flag (lines 340 and 345) is left out. A process
  keeps the id it was answered, as a module that ignores the flag would.
  `id_wrap` relies on this.
- `updateSafetyState` starts from `safe`.

`StateType` uses rosMast's values (`nostate = -1`, `safe = 0`, ..., `normal = 6`).
The rosMast package is not in `src/`, so this enum is modelled from the spec.

### Runs

| Run | Config | Expect | What it shows |
|---|---|---|---|
| `registry` | `MCEquipletNode.cfg` | pass | Two processes, reported states `{standby, normal}`, at most 3 registrations. See below |
| `recovery_clamp` | `MCEquipletNode_RecoveryStateClamped.cfg` | violation | See below |
| `needed_flag` | `MCEquipletNode_OperationStateAsRequested.cfg` | violation | See below |
| `orphan_record` | `MCEquipletNode_NoOrphanRecords.cfg` | violation | See below |
| `id_wrap` | `MCEquipletNode_IdWrap.cfg` | violation | See below |
| `unnamed_state` | `MCEquipletNode_CellStatesNamed.cfg` | violation | See below |

**`registry`** checks five properties:

- `TypeOK`.
- `AggregatesCurrent`: both cell states equal the spec's max and min
  definitions of the current table.
- `RecordsTrackOwners`: no process ever holds an id whose record belongs to
  another process, and the record under a process's id shows the state that
  process last reported.
- `SnapshotsInRegistrationOrder`.
- `ImplementsRegistry`: the coordinator refines `Registry` (see below).

The run explores 750,761 distinct states in about a minute. The refinement check takes most of that time.

**`recovery_clamp`**: a module registers in `safe` and raises an error. The
answer is `-3`.

**`needed_flag`**: a process asks to be a needed actor and reports `standby`.
The spec's operation state would be `standby`, but the code's stays `safe`.

**`orphan_record`**: a process registers and then dies. Its record stays.

**`id_wrap`**: `nextModuleID` is 2 bits wide (`-2..1`) and five registrations
are allowed. A process registers with id 1 and dies, leaving its record. Four
more registrations take `nextModuleID` through `-2, -1, 0` and back to 1. The
add of the fifth is refused, but the new process is still answered id 1, and
the record under that id is not its own (`RecordsTrackOwners`). With a 32-bit
int the same happens after 2^32 registrations.

**`unnamed_state`**: a process reports 7. `rosMast::StateType(7)` has no
enumerator but fits the enum's 4-bit range (`StateTypeRange`, `-8..7`). It is
stored, and the cell safety state becomes 7 (`CellStatesNamed`).

Every property of the passing run has a mutant in `PROJECT.json`, and each
mutant breaks it under the run's own configuration:

| Mutant | Code change | Property it breaks |
|---|---|---|
| `SafetyOfAccumulated` | the safety loop starts from the old `safetyState` instead of `safe` | `AggregatesCurrent` |
| `RegisterAnswerAfterIncrement` | the id is answered after `++nextModuleID` | `RecordsTrackOwners` and `TypeOK` |
| `RemoveBySwapWithBack` | `erase` is replaced by swap-with-last | `SnapshotsInRegistrationOrder` and `ImplementsRegistry` |

### Bounds and why they are enough

- **Two processes.** With restarts, two processes reach tables of three records
  with orphans between live records.
- **Ids of 3 bits (`-4..3`).** The third registration takes `nextModuleID` to
  the wrap at `IntMin`, and no fourth one follows. The passing run therefore
  sees every id below the wrap, and `id_wrap` sees the wrap itself.
- **Three registrations.** This is the smallest bound at which a removal from
  the front of a three-record table happens: register, register, restart,
  register, then deregister the first. That is the case an order-breaking erase
  needs.
- **Two reported states besides the initial `safe`.** They make max and min
  differ, and let a state move both up and down.

Symmetry over the processes is sound, because they are model values that
nothing orders.

### Fairness of `EquipletNode`

None is assumed. Every service is invoked by an external caller, and the
coordinator owes nothing to a caller that never calls. No liveness property is
stated for `EquipletNode`.

### `Registry.tla`: the registry's promise, and the refinement

`Registry` is written from spec 4.1, 4.2 and 8. It is not translated from
code.

**State:**
- `records`: a function from id to `[state, actor, needed]`.
- `order`: the ids in registration order.
- `lastId`: the highest id ever assigned.
- The two cell states.

**Actions:** there are three, and each applies its mutation together with
both recomputations (`Mutate`):
- `Register`: the next sequential id, in state `Safe`.
- `Deregister(id)` of a registered id.
- `UpdateState(id, s)` of a registered id.

`EquipletNode` instantiates it as `RegistryAbs`. Its refinement mapping:
- `records` is the table seen as a function of id (`TableRecords`).
- `order` is the table's ids in order (`TableOrder`).
- `lastId` is the number of registrations (`registrations`).
- The cell states are `safetyState` and `operationState`.

`ImplementsRegistry`, checked in the `registry` run, says that every handler
step is one of these steps or leaves the registry unchanged. That is, it is a
stutter of the registry: `moduleError`, `getAllModules`, a restart, or a
state report by a process whose record is gone.

The refinement holds only while `nextModuleID` does not wrap: `lastId` maps to
the number of registrations, and that equals the last id only before a wrap.
After a wrap, `id_wrap` shows a registration that answers an id already in
use. The abstract `needed` flag is free, and the code always stores `false`,
which is one of its allowed values. `needed_flag` shows the divergence from
what a process asks for.

### `StateChangeRequest.tla`

**State:** `up`, the module processes (pairs `<<equipletId, moduleID>>`) that
currently advertise `RequestStateChange_<eq>_<id>`; `moduleState`, the state
each process is in; the ghost `lastCall`, the last request and the process it
reached.

**Actions:** `SendStateChangeRequest(e, mod, newState)` is lines 141-152: the
name is `"RequestStateChange_"` followed by the C string at `equipletId + "_"`
(`PointerSuffixes`) and the decimal digits of `moduleID` (`Dec`, a RECURSIVE
operator); `ServiceClient::call` reaches the process advertising that name, if
any, and the result is ignored. `ModuleStart` and `ModuleExit` are the module
processes (modelled from spec section 6).

| Run | Config | Expect | What it shows |
|---|---|---|---|
| `request_endpoint` | `MCStateChangeRequest_RequestReachesModule.cfg` | violation | A request for module 1 of equiplet 0, whose process is up, looks up `RequestStateChange__1` and reaches nobody: the equiplet id is never written |

Bounds: equiplets `{0, 1, 2}` (the two defined pointer offsets and one
undefined one), module ids `{1, 2, 12}` and states `{0, 6}`. The undefined
read yields one of two strings, empty or a non-digit. That is enough to show
that no request reaches its module. It is too few to ask whether a request
can reach another module's process: that would need reads such as `"1_"`,
which the build may or may not produce. So no property about misdirected
requests is checked. No fairness is assumed, because requests are issued by a
caller that may never issue them.

### `BlackboardClient.tla`

`BlackboardClient` is the client's tailing thread and the EquipletNode's use of
it:
- `oplog` is the store's oplog.
- `collection` is the blackboard collection, oldest first.
- `pos`, `inEntry` and `pending` are the thread's place. It takes one entry
  (`StartEntry`), evaluates the subscriptions one at a time (`Evaluate`), then
  moves on (`FinishEntry`).
- `Matches` is the rule of spec 4.4: the same operation, and a document that
  satisfies the field predicate. `BasicOperationSubscription.h` declares
  `matchesWithEntry` but has no body.

A match on an EquipletNode subscription runs `BlackboardReadCallback`
(lines 75-95) on the thread. Parsing has no state. `removeOldestMessage()`
removes the head of the collection, which appends a `remove` entry to the
oplog the thread is tailing. `Insert` is a writer.

The thread is modelled from spec 4.4, because the client library is not in
`src/`. Properties about the thread alone (delivery order, fairness) would
check the spec against itself, so none are stated. The one run checks what
the code's callback removes:

| Run | Config | Expect | What it shows |
|---|---|---|---|
| `ack_oldest` | `MCBlackboardClient_RemovedWereProcessed.cfg` | violation | `m1` and `m2` are inserted. The EquipletNode subscription faults on `m1` and matches `m2`. The callback for `m2` removes `m1`, which was never processed, and `m2` stays |

Bounds: two subscriptions and three messages, each inserted once. The
EquipletNode's subscription matches inserts of `m1`, `m2` and `m3`. A monitor
matches removals of `m1` and `m2`, so a callback's own write is matched by
another subscription.

### `Bootstrap.tla`

`addHardwareModule(module, true)`, lines 202-237, is modelled as `main` would
run it with its two calls restored (lines 430-431, commented out in this
revision: deltaRobot with id 1, then gripper with id 2). Nothing else passes
`autoStart = true`.

**State:**
- `role[p]`: what each process slot runs: free, coordinator, a child between
  `fork` and `execl` (forked), or a module's shell.
- `table[p]`: the ids in each coordinator's `moduleTable`. All records enter
  in state `safe`, so the cell states are those of `EquipletNode` and are not
  repeated here.
- `pc[p]`: the next call of `main`.
- `forkedFor[ch]`: the module a child was forked for.
- The ghost `forkedBy[ch]`: the process that forked `ch`.
- The ghost `notStarted`: the pairs `<<p, id>>` where the child that `p`
  forked for `id` failed `execl`.

**Actions:**
- `AddHardwareModule(p)` is one call. It is refused if the id is in the table.
  Otherwise `fork` fails (`case -1`), which always happens when no slot is
  free, or it creates the child at the same point of `main`, with a copy of
  the table from before the push (`ChildTable`, `ChildPc`), and the parent
  pushes the record.
- `ChildExec(ch)`: either `execl` succeeds, or it returns. In that case control
  falls into `case -1`, the call returns false, and the child goes on with
  `main` as a coordinator.
- `ModuleExit(ch)`: the module's process dies, and nobody tells the
  coordinator.

| Run | Config | Expect | What it shows |
|---|---|---|---|
| `bootstrap` | `MCBootstrap.cfg` | pass | `TypeOK` across fork failures, exec failures and module deaths. The run fires every action and disjunct of the module |
| `bootstrap_rollback` | `MCBootstrap_RecordsOnlyStartedModules.cfg` | violation | The root forks a child for id 1 and pushes the record (line 232). The child's `execl` fails, so the root's table holds id 1 although its process never started. Spec 4.1/6 says a bootstrap failure rolls the registration back (`RecordsOnlyStartedModules`) |
| `second_coordinator` | `MCBootstrap_SingleCoordinator.cfg` | violation | The child forked for id 1 fails `execl` and continues `main` as a second coordinator (`SingleCoordinator`, spec 5). It then forks a second process for id 2 |

A module process that starts and later dies also leaves its record. That is
not a rollback case, because the process did start. It is the divergence
`orphan_record` shows for registered processes.

**Bounds:** the root plus three slots. That is the most processes the two
calls can create: the root forks two children, and a child that fails
`execl` forks one more. The passing run is checked without symmetry (341
states). The violation run uses symmetry over the three non-root slots, which
is sound because nothing distinguishes them.

**Mutant:** `ChildPcAfterCall`, where the child resumes after the call. It
breaks `TypeOK`.

`CHECK_DEADLOCK FALSE`: once every process has run `main`'s calls, each
coordinator sits in its spin loop, which is the program's idle state.

## 4. Not modelled, and why

- **Lookup handler call:** dead code with no state.
- **CLI parsing:** I/O. The `const char* equipletName = ss.str().c_str()`
  pointer (line 421) dangles by the time `ros::init` reads it, which is
  undefined behaviour. What the freed buffer holds is allocator state, not
  program state, so it is listed as a hazard without a property.
- **Hardware-module internals** (kinematics, Modbus): headers only, and outside
  the coordinator's contract.
- **`EquipletStep` data class:** no behaviour to check.
- **Type, package, executable and error fields:** carried through the table
  but never read by any decision.
- **Subscription cancellation** (`Active -> Cancelled`): nothing in `src/`
  cancels a subscription, and the client library that would do it is not in
  `src/`. The coordinator's one subscription stays active for the life of
  the process.
- **The re-entrant deadlock of `sendStateChangeRequest`** (line 151): no
  request reaches a module while the endpoint name is built as at line 147,
  so the blocking call never waits on a module. The module's side, which
  would call back, is in rosMast and not in `src/`. This code cannot reach
  it, so it is not listed as a hazard.
- **The instruction callback throwing** (line 77): the parse steps run before
  `removeOldestMessage`. What `libjson` raises on a malformed message, and
  what the client library does with an exception from a callback, are both
  outside `src/`. It is listed as a hazard.
- **Shutdown** (line 64): `~EquipletNode` deletes the blackboard client while
  its thread may be in the callback. Whether the client joins its thread is
  library code, so this is listed as a hazard.
- **Registration after `main`'s bootstrapped modules** (line 351 with lines
  430-431): `main`'s calls are commented out in this revision, so the
  registry starts empty and `nextModuleID`'s first value is free. The path
  does not exist in this code.
- **Termination of `main`'s calls under fairness:** every Bootstrap step
  advances a bounded counter or moves a child on from `fork`, so termination
  holds by the model's shape. No code change could break it, so it is not
  stated as a property.
