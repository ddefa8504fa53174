------------------------------ MODULE Bootstrap ------------------------------
(***************************************************************************)
(* addHardwareModule(module, true) of EquipletNode.cpp (202-237): the      *)
(* autoStart branch that launches the module's process with fork() and    *)
(* execl("/bin/sh", "-c", "rosrun <pkg> <exe> <eq> <id>").                 *)
(*                                                                         *)
(* The only calls with autoStart = true are main's two calls (430-431,     *)
(* commented out in this revision); the model runs main with them, each    *)
(* coordinator process working through Calls in order and then spinning.  *)
(*                                                                         *)
(* fork() copies the whole process: the child has the parent's module     *)
(* table and is at the same point of main.  In the child, case 0 closes   *)
(* stdio and calls execl; if execl returns, control falls through into    *)
(* case -1, addHardwareModule returns false, and the child goes on with   *)
(* main as a coordinator of its own.  The table is abstracted to ids: all *)
(* records enter in state safe, so the cell states the trailing updates   *)
(* compute are those of EquipletNode and are not repeated here.           *)
(***************************************************************************)
EXTENDS Integers, Sequences, SequencesExt, FiniteSets

CONSTANTS
  Pids,        \* process slots of the machine
  Root,        \* the coordinator process started by rosrun
  Calls,       \* module ids of main's addHardwareModule(_, true) calls, in order
  NoModule     \* forkedFor of a process that is no module's child

ASSUME Root \in Pids

Roles == {"free", "coordinator", "forked", "module"}

VARIABLES
  role,        \* what each process slot is running
  table,       \* the moduleTable of each coordinator process (ids)
  pc,          \* the index of main's next addHardwareModule call
  forkedFor,   \* the module id a child was forked for
  forkedBy,    \* ghost: the process that forked each child
  notStarted   \* ghost: <<p, id>> whose child, forked by p, failed execl

vars == <<role, table, pc, forkedFor, forkedBy, notStarted>>

Coordinators == {p \in Pids : role[p] = "coordinator"}

-----------------------------------------------------------------------------
(* The child's copy of the table: fork() comes before push_back.          *)
ChildTable(p, id) == table[p]

(* Fault-injected variant of ChildPc: the child resumes after the call.   *)
ChildPcAfterCall(p) == pc[p] + 1

(* The child returns from fork() inside the same call of main.           *)
ChildPc(p) == pc[p]

(* main's next addHardwareModule(module, true) in coordinator p: refused *)
(* if the id is in the table; otherwise fork() either fails (-1: return   *)
(* false, nothing recorded) or creates the child, and the parent         *)
(* (default: break) pushes the record.                                    *)
AddHardwareModule(p) ==
  /\ role[p] = "coordinator"
  /\ pc[p] <= Len(Calls)
  /\ LET id == Calls[pc[p]] IN
       \/ /\ id \in ToSet(table[p])
          /\ pc' = [pc EXCEPT ![p] = @ + 1]
          /\ UNCHANGED <<role, table, forkedFor, forkedBy, notStarted>>
       \/ /\ id \notin ToSet(table[p])
          /\ pc' = [pc EXCEPT ![p] = @ + 1]
          /\ UNCHANGED <<role, table, forkedFor, forkedBy, notStarted>>
       \/ /\ id \notin ToSet(table[p])
          /\ \E ch \in Pids :
               /\ role[ch] = "free"
               /\ role' = [role EXCEPT ![ch] = "forked"]
               /\ table' = [table EXCEPT ![p] = Append(@, id), ![ch] = ChildTable(p, id)]
               /\ pc' = [pc EXCEPT ![p] = @ + 1, ![ch] = ChildPc(p)]
               /\ forkedFor' = [forkedFor EXCEPT ![ch] = id]
               /\ forkedBy' = [forkedBy EXCEPT ![ch] = p]
               /\ UNCHANGED notStarted

(* The child after fork(): execl replaces it with the module's shell, or  *)
(* execl returns and the child falls through into case -1: it returns    *)
(* false to main and carries on with main's next call.                    *)
ChildExec(ch) ==
  /\ role[ch] = "forked"
  /\ \/ /\ role' = [role EXCEPT ![ch] = "module"]
        /\ UNCHANGED <<table, pc, forkedFor, forkedBy, notStarted>>
     \/ /\ role' = [role EXCEPT ![ch] = "coordinator"]
        /\ pc' = [pc EXCEPT ![ch] = @ + 1]
        /\ forkedFor' = [forkedFor EXCEPT ![ch] = NoModule]
        /\ notStarted' = notStarted \cup {<<forkedBy[ch], forkedFor[ch]>>}
        /\ UNCHANGED <<table, forkedBy>>

(* The module's process ends (rosrun cannot start the node, or it dies); *)
(* no one tells the coordinator.                                          *)
ModuleExit(ch) ==
  /\ role[ch] = "module"
  /\ role' = [role EXCEPT ![ch] = "free"]
  /\ forkedFor' = [forkedFor EXCEPT ![ch] = NoModule]
  /\ UNCHANGED <<table, pc, forkedBy, notStarted>>

(* main: the EquipletNode is constructed with an empty table, then the   *)
(* addHardwareModule calls.                                               *)
Init ==
  /\ role = [p \in Pids |-> IF p = Root THEN "coordinator" ELSE "free"]
  /\ table = [p \in Pids |-> <<>>]
  /\ pc = [p \in Pids |-> 1]
  /\ forkedFor = [p \in Pids |-> NoModule]
  /\ forkedBy = [p \in Pids |-> Root]
  /\ notStarted = {}

Next ==
  \E p \in Pids :
    \/ AddHardwareModule(p)
    \/ ChildExec(p)
    \/ ModuleExit(p)

Spec == Init /\ [][Next]_vars

-----------------------------------------------------------------------------
TypeOK ==
  /\ role \in [Pids -> Roles]
  /\ \A p \in Pids : table[p] \in Seq(ToSet(Calls))
  /\ pc \in [Pids -> 1..Len(Calls) + 1]
  /\ forkedFor \in [Pids -> ToSet(Calls) \cup {NoModule}]
  /\ forkedBy \in [Pids -> Pids]
  /\ notStarted \subseteq Pids \X ToSet(Calls)

(* Spec 4.1/9: a bootstrap failure rolls the registration back, so no    *)
(* coordinator's table holds a module whose process did not start.  The  *)
(* parent pushes the record whenever fork() returns a pid (232), whether  *)
(* or not the child's execl succeeds.                                     *)
RecordsOnlyStartedModules ==
  \A p \in Coordinators : \A id \in ToSet(table[p]) : <<p, id>> \notin notStarted

(* Spec 5: the coordinator is the sole authority over its cell: one       *)
(* coordinator process serves the equiplet's services.                    *)
SingleCoordinator ==
  \A p, q \in Coordinators : p = q
=============================================================================
