---------------------------- MODULE EquipletNode ----------------------------
(***************************************************************************)
(* The equiplet coordinator of src/ros/equipletNode/src/EquipletNode.cpp: *)
(* the module table, the two derived cell states, and the ROS services    *)
(* registerModule, deregisterModule, StateUpdate_<eq>, ModuleError_<eq>    *)
(* and getAllModules, called by hardware-module processes (Clients).       *)
(*                                                                         *)
(* ros::spinOnce() in main runs one service callback at a time on the      *)
(* main thread, so every handler is one atomic step.  A ROS service call  *)
(* is synchronous for its caller, so each call is modelled as one step    *)
(* that also delivers the response to the calling process.                *)
(*                                                                         *)
(* Ghost state (not in the code, used only by properties): what each      *)
(* process holds (myId, reported), the last answers of moduleError and    *)
(* getAllModules (errorReply, snapshot), and for every                    *)
(* id which process's registration created it (registeredBy).             *)
(***************************************************************************)
EXTENDS Integers, Sequences, SequencesExt, FiniteSets

CONSTANTS
  Clients,          \* hardware-module processes calling the services
  ReportableStates, \* values a module process reports in StateUpdate
  MaxRegistrations, \* bound: the number of registerModule calls
  IntWidth          \* bits of the int nextModuleID and the ids

(* rosMast::StateType (the rosMast package is not part of src/).           *)
nostate  == -1
safe     == 0
setup    == 1
shutdown == 2
standby  == 3
start    == 4
stop     == 5
normal   == 6
StateType == {nostate, safe, setup, shutdown, standby, start, stop, normal}

(* The values a StateType object holds: the enumerators -1..6 fit a      *)
(* 4-bit two's-complement field, so rosMast::StateType(n) keeps any n in  *)
(* -8..7, named or not.                                                    *)
StateTypeRange == -8..7

ASSUME ReportableStates \subseteq StateTypeRange
ASSUME MaxRegistrations \in Nat \ {0}
ASSUME IntWidth \in Nat \ {0, 1}

IntMin == -(2^(IntWidth - 1))
IntMax == 2^(IntWidth - 1) - 1

(* ++ on an int at IntMax is signed overflow; the build's add instruction *)
(* wraps it to IntMin (two's complement).                                  *)
Wrap(n) == ((n - IntMin) % 2^IntWidth) + IntMin

NoId == IntMin - 1   \* a process that holds no module id

VARIABLES
  moduleTable,     \* std::vector<HardwareModuleProperties>, in table order
  nextModuleID,
  safetyState,
  operationState,
  registeredBy,    \* ghost: id -> [by, needed asked] of the registration whose add created its record
  registrations,   \* ghost: registerModule calls so far
  myId,            \* ghost: the moduleID each process was answered
  reported,        \* ghost: the state each process last reported
  errorReply,      \* ghost: <<newState>> of the last ModuleError answer
  snapshot         \* ghost: ids in the last getAllModules answer

vars == <<moduleTable, nextModuleID, safetyState, operationState,
          registeredBy, registrations, myId, reported, errorReply, snapshot>>

Ids == IntMin..IntMax

Module == [id : Ids, currentState : StateType, actor : BOOLEAN, needed : BOOLEAN]

TableIds(tbl) == {tbl[i].id : i \in DOMAIN tbl}

-----------------------------------------------------------------------------
(* The aggregation loops (updateSafetyState, updateOperationState).        *)

(* Fault-injected variant of SafetyOf: the loop starts from the previous  *)
(* safetyState instead of safe (a hidden accumulator).                     *)
SafetyOfAccumulated(tbl) ==
  FoldLeft(LAMBDA s, m : IF m.actor /\ m.currentState > s THEN m.currentState ELSE s,
           safetyState, tbl)

SafetyOf(tbl) ==
  FoldLeft(LAMBDA s, m : IF m.actor /\ m.currentState > s THEN m.currentState ELSE s,
           safe, tbl)

OperationOf(tbl) ==
  LET relevant == SelectSeq(tbl, LAMBDA m : m.actor /\ m.needed)
  IN  IF relevant = <<>>
        THEN safe
        ELSE FoldLeft(LAMBDA s, m : IF m.currentState < s THEN m.currentState ELSE s,
                      normal, relevant)

(* Every mutating helper ends with both recomputations.                    *)
SetTable(tbl) ==
  /\ moduleTable'    = tbl
  /\ safetyState'    = SafetyOf(tbl)
  /\ operationState' = OperationOf(tbl)

(* getModuleState: the state of the record with this id, else nostate.     *)
GetModuleState(id) ==
  IF \E i \in DOMAIN moduleTable : moduleTable[i].id = id
    THEN moduleTable[CHOOSE i \in DOMAIN moduleTable : moduleTable[i].id = id].currentState
    ELSE nostate

(* Fault-injected variant of RemoveById: erase by moving the last record *)
(* into the freed slot (the usual O(1) vector removal).                    *)
RemoveBySwapWithBack(tbl, id) ==
  IF \E i \in DOMAIN tbl : tbl[i].id = id
    THEN LET k == CHOOSE i \in DOMAIN tbl : tbl[i].id = id
         IN  SubSeq([tbl EXCEPT ![k] = tbl[Len(tbl)]], 1, Len(tbl) - 1)
    ELSE tbl

(* removeHardwareModule: vector::erase keeps the order of the rest.         *)
RemoveById(tbl, id) == SelectSeq(tbl, LAMBDA m : m.id # id)

(* updateModuleState's write into the found record.                        *)
WithState(tbl, id, s) ==
  [i \in DOMAIN tbl |-> IF tbl[i].id = id THEN [tbl[i] EXCEPT !.currentState = s]
                                          ELSE tbl[i]]

(* addHardwareModule(module, false): refused if the id is in the table,   *)
(* else push_back and recompute (the autoStart branch is not taken).      *)
AddHardwareModule(module) ==
  IF module.id \in TableIds(moduleTable)
    THEN UNCHANGED <<moduleTable, safetyState, operationState>>
    ELSE SetTable(Append(moduleTable, module))

(* Fault-injected variant of RegisterAnswer: the id is answered after   *)
(* ++nextModuleID instead of before it (and computed without the wrap).  *)
RegisterAnswerAfterIncrement == nextModuleID + 1

(* res.moduleID = nextModuleID, read before ++nextModuleID.               *)
RegisterAnswer == nextModuleID

-----------------------------------------------------------------------------
(* registerHardwareModule: a record with id nextModuleID, state safe,     *)
(* actor = isActuator and needed = false goes to addHardwareModule; the    *)
(* answer is nextModuleID whether  *)
(* or not the add succeeded, and nextModuleID is incremented either way.   *)
(* isNeeded is what the process would ask for under spec section 6; the   *)
(* request has no such field and the code never reads it.                 *)
RegisterHardwareModule(c) ==
  /\ myId[c] = NoId
  /\ registrations < MaxRegistrations
  /\ \E isActuator, isNeeded \in BOOLEAN :
       LET module == [id |-> nextModuleID, currentState |-> safe,
                      actor |-> isActuator, needed |-> FALSE]
       IN  /\ AddHardwareModule(module)
           /\ registeredBy' =
                IF module.id \in TableIds(moduleTable) THEN registeredBy
                ELSE (module.id :> [by |-> c, needed |-> isNeeded]) @@ registeredBy
  /\ myId'          = [myId EXCEPT ![c] = RegisterAnswer]
  /\ nextModuleID'  = Wrap(nextModuleID + 1)
  /\ registrations' = registrations + 1
  /\ reported'     = [reported EXCEPT ![c] = safe]
  /\ UNCHANGED <<errorReply, snapshot>>

(* deregisterHardwareModule -> removeHardwareModule(req.moduleID).        *)
DeregisterHardwareModule(c) ==
  /\ myId[c] # NoId
  /\ IF myId[c] \in TableIds(moduleTable)
       THEN SetTable(RemoveById(moduleTable, myId[c]))
       ELSE UNCHANGED <<moduleTable, safetyState, operationState>>
  /\ myId' = [myId EXCEPT ![c] = NoId]
  /\ UNCHANGED <<nextModuleID, registeredBy, registrations, reported, errorReply, snapshot>>

(* stateChanged -> updateModuleState(moduleID, newState): the process has *)
(* moved to newState and reports it under the id it was given.            *)
StateChanged(c) ==
  /\ myId[c] # NoId
  /\ \E newState \in ReportableStates :
       /\ IF myId[c] \in TableIds(moduleTable)
            THEN SetTable(WithState(moduleTable, myId[c], newState))
            ELSE UNCHANGED <<moduleTable, safetyState, operationState>>
       /\ reported' = [reported EXCEPT ![c] = newState]
  /\ UNCHANGED <<nextModuleID, registeredBy, registrations, myId, errorReply, snapshot>>

(* moduleError: the answer is getModuleState(moduleID) - 3; no table     *)
(* change.                                                                *)
ModuleError(c) ==
  /\ myId[c] # NoId
  /\ errorReply' = <<GetModuleState(myId[c]) - 3>>
  /\ UNCHANGED <<moduleTable, nextModuleID, safetyState, operationState,
                 registeredBy, registrations, myId, reported, snapshot>>

(* getAllRegisteredHardwareModule: a copy of the table in table order.    *)
GetAllRegisteredHardwareModule(c) ==
  /\ snapshot' = [i \in DOMAIN moduleTable |-> moduleTable[i].id]
  /\ UNCHANGED <<moduleTable, nextModuleID, safetyState, operationState,
                 registeredBy, registrations, myId, reported, errorReply>>

(* A module process dies and is started again without deregistering: its *)
(* record stays in the table, the new process holds no id.                *)
ClientRestart(c) ==
  /\ myId[c] # NoId
  /\ myId'     = [myId EXCEPT ![c] = NoId]
  /\ reported' = [reported EXCEPT ![c] = safe]
  /\ UNCHANGED <<moduleTable, nextModuleID, safetyState, operationState,
                 registeredBy, registrations, errorReply, snapshot>>

-----------------------------------------------------------------------------
(* EquipletNode constructor: empty table, nextModuleID(1), both states    *)
(* value-initialised to 0 = safe.                                          *)
Init ==
  /\ moduleTable    = <<>>
  /\ nextModuleID   = 1
  /\ safetyState    = safe
  /\ operationState = safe
  /\ registeredBy   = <<>>
  /\ registrations  = 0
  /\ myId           = [c \in Clients |-> NoId]
  /\ reported       = [c \in Clients |-> safe]
  /\ errorReply     = <<>>
  /\ snapshot       = <<>>

Next ==
  \E c \in Clients :
    \/ RegisterHardwareModule(c)
    \/ DeregisterHardwareModule(c)
    \/ StateChanged(c)
    \/ ModuleError(c)
    \/ GetAllRegisteredHardwareModule(c)
    \/ ClientRestart(c)

Spec == Init /\ [][Next]_vars

-----------------------------------------------------------------------------
(* Reference definitions of the two cell states (spec section 4.2).        *)
SafetyReference(tbl) ==
  LET actorStates == {tbl[i].currentState : i \in {j \in DOMAIN tbl : tbl[j].actor}}
  IN  IF actorStates = {} THEN safe ELSE Max(actorStates)

OperationReference(tbl) ==
  LET states == {tbl[i].currentState : i \in {j \in DOMAIN tbl : tbl[j].actor /\ tbl[j].needed}}
  IN  IF states = {} THEN safe ELSE Min(states)

(* The abstract registry seen in the table: each record by its id, the    *)
(* ids in table order, and the number of ids handed out.                  *)
TableRecords ==
  [id \in TableIds(moduleTable) |->
     LET m == moduleTable[CHOOSE i \in DOMAIN moduleTable : moduleTable[i].id = id]
     IN  [state |-> m.currentState, actor |-> m.actor, needed |-> m.needed]]

TableOrder == [i \in DOMAIN moduleTable |-> moduleTable[i].id]

RegistryAbs == INSTANCE Registry
                 WITH States <- ReportableStates, Safe <- safe, MaxId <- MaxRegistrations,
                      records <- TableRecords, order <- TableOrder,
                      lastId <- registrations, cellSafety <- safetyState,
                      cellOperation <- operationState

TypeOK ==
  /\ moduleTable \in Seq(Module)
  /\ nextModuleID \in Ids
  /\ safetyState \in StateType
  /\ operationState \in StateType
  /\ DOMAIN registeredBy \subseteq Ids
  /\ \A id \in DOMAIN registeredBy : registeredBy[id] \in [by : Clients, needed : BOOLEAN]
  /\ registrations \in 0..MaxRegistrations
  /\ myId \in [Clients -> {NoId} \cup Ids]
  /\ reported \in [Clients -> StateType]
  /\ errorReply \in Seq(Int)
  /\ snapshot \in Seq(Ids)

(* After every service call safetyState and operationState equal the     *)
(* worst actor state and the least-progressed needed-actor state of the   *)
(* table as it is now: register, deregister and stateChanged each         *)
(* recompute both, with no value carried over from earlier tables.        *)
AggregatesCurrent ==
  /\ safetyState = SafetyReference(moduleTable)
  /\ operationState = OperationReference(moduleTable)

(* The record under the id a module process was answered by              *)
(* registerModule (if it is still in the table) was created by that       *)
(* process's own registration and shows the state that process last       *)
(* reported: ids answered are never answered to anyone else, so a         *)
(* StateUpdate never lands on another module's record.                    *)
RecordsTrackOwners ==
  \A c \in Clients :
    myId[c] \in DOMAIN registeredBy =>
      \A i \in DOMAIN moduleTable :
        moduleTable[i].id = myId[c] =>
          /\ registeredBy[myId[c]].by = c
          /\ moduleTable[i].currentState = reported[c]

(* Every getAllModules answer lists the modules in the order they were   *)
(* registered (spec 4.1: list() is an insertion-ordered snapshot), after  *)
(* any mix of registrations, deregistrations and process restarts.        *)
SnapshotsInRegistrationOrder ==
  IsSorted(snapshot, LAMBDA a, b : a < b)

(* Spec 4.3: the recovery state answered by ModuleError drops a fixed     *)
(* number of levels but is clamped at the safest state; moduleError        *)
(* answers getModuleState(id) - 3 with no clamp.                           *)
RecoveryStateClamped ==
  errorReply # <<>> => Head(errorReply) \in StateType \ {nostate}

(* Spec 4.1/6: a module registers with its isNeeded flag, and the         *)
(* operation state is the least state of actor modules that are needed.   *)
(* registerHardwareModule always stores needed = false.                    *)
OperationStateAsRequested ==
  LET asRequested == [i \in DOMAIN moduleTable |->
                        [moduleTable[i] EXCEPT !.needed = registeredBy[moduleTable[i].id].needed]]
  IN  operationState = OperationReference(asRequested)

(* Spec 9: the registry holds only modules whose process is running. A    *)
(* record is removed only by deregisterModule, so the record of a module  *)
(* process that died without deregistering stays, and its last state      *)
(* keeps counting in safetyState.                                          *)
NoOrphanRecords ==
  \A i \in DOMAIN moduleTable : \E c \in Clients : myId[c] = moduleTable[i].id

(* The coordinator implements the registry of spec 4.1/4.2/8: every       *)
(* service call is a register of the next sequential id, a deregister or  *)
(* a state update of a registered id, with both cell states re-derived,   *)
(* or changes nothing the registry shows; list order is registration      *)
(* order.  This holds while nextModuleID does not wrap (IntWidth bounds).  *)
ImplementsRegistry == RegistryAbs!RegSpec

(* Spec 3/4.2: a module's state, and so the cell safety and operation     *)
(* states, are named states of the ordered enum.  stateChanged casts the   *)
(* reported int to StateType without checking it, and the value then      *)
(* takes part in the max and min of every later aggregation.              *)
CellStatesNamed ==
  /\ safetyState \in StateType
  /\ operationState \in StateType
=============================================================================
