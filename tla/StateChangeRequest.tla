------------------------- MODULE StateChangeRequest -------------------------
(***************************************************************************)
(* EquipletNode::sendStateChangeRequest (EquipletNode.cpp 141-152) sent   *)
(* by the coordinators of several equiplets sharing one ROS master, and   *)
(* the module processes that advertise RequestStateChange endpoints.      *)
(*                                                                         *)
(* The service name is "RequestStateChange_" followed by whatever         *)
(* stringStream << equipletId + "_" << moduleID writes.  equipletId + "_" *)
(* is int + const char*: the C string starting equipletId bytes into the  *)
(* literal "_" (bytes '_', NUL).  Offset 0 is "_", offset 1 is "", and any *)
(* other offset reads outside the literal (undefined behaviour), modelled *)
(* as any string of UBSuffixes.  Names are sequences of one-character     *)
(* strings after the common prefix "RequestStateChange_".                  *)
(*                                                                         *)
(* ServiceClient::call looks the name up: if a process advertises it, the *)
(* request is handled there (the module moves to the desired state);      *)
(* otherwise the call returns false.  The result is ignored either way.   *)
(***************************************************************************)
EXTENDS Integers, Sequences, SequencesExt

CONSTANTS
  Equiplets,    \* equiplet ids of the coordinators on the ROS master
  ModuleIds,    \* module ids used within each equiplet
  States,       \* states a request may ask for
  UBSuffixes    \* strings an out-of-literal char* may point at

ASSUME Equiplets \subseteq Nat /\ ModuleIds \subseteq Nat \ {0}

Modules == Equiplets \X ModuleIds     \* <<equipletId, moduleID>>
NoModule == <<-1, -1>>
NoCall == [eq |-> -1, mod |-> -1, state |-> -1, name |-> <<>>,
           up |-> FALSE, to |-> NoModule]

VARIABLES
  up,           \* module processes currently advertising their endpoint
  moduleState,  \* the state each module process is in
  lastCall      \* ghost: the last request sent and the process it reached

vars == <<up, moduleState, lastCall>>

-----------------------------------------------------------------------------
DigitChar(d) == <<"0", "1", "2", "3", "4", "5", "6", "7", "8", "9">>[d + 1]

(* operator<<(int) on a stringstream: the decimal digits of n >= 0.        *)
RECURSIVE Dec(_)
Dec(n) ==
  IF n < 10 THEN <<DigitChar(n)>>
            ELSE Dec(n \div 10) \o <<DigitChar(n % 10)>>

(* The C string at equipletId + "_".                                       *)
PointerSuffixes(e) ==
  CASE e = 0 -> {<<"_">>}
    [] e = 1 -> {<<>>}
    [] OTHER -> UBSuffixes

(* The names sendStateChangeRequest(mod, _) of equiplet e may look up.     *)
CodeNames(e, mod) == {s \o Dec(mod) : s \in PointerSuffixes(e)}

(* The endpoint a module process advertises (spec section 6:              *)
(* RequestStateChange_<equipletId>_<moduleId>).                           *)
Endpoint(m) == Dec(m[1]) \o <<"_">> \o Dec(m[2])

-----------------------------------------------------------------------------
(* sendStateChangeRequest(moduleID, newState) on equiplet e.              *)
SendStateChangeRequest(e, mod, newState) ==
  \E name \in CodeNames(e, mod) :
    LET targets == {m \in up : Endpoint(m) = name}
        to      == IF targets = {} THEN NoModule ELSE CHOOSE m \in targets : TRUE
    IN  /\ moduleState' = IF to = NoModule THEN moduleState
                                          ELSE [moduleState EXCEPT ![to] = newState]
        /\ lastCall' = [eq |-> e, mod |-> mod, state |-> newState, name |-> name,
                        up |-> <<e, mod>> \in up, to |-> to]
        /\ UNCHANGED up

(* A module process starts (advertising its endpoint) or exits.           *)
ModuleStart(m) ==
  /\ m \notin up
  /\ up' = up \cup {m}
  /\ UNCHANGED <<moduleState, lastCall>>

ModuleExit(m) ==
  /\ m \in up
  /\ up' = up \ {m}
  /\ UNCHANGED <<moduleState, lastCall>>

Init ==
  /\ up = {}
  /\ moduleState = [m \in Modules |-> CHOOSE s \in States : TRUE]
  /\ lastCall = NoCall

Next ==
  \/ \E e \in Equiplets, mod \in ModuleIds, s \in States :
       SendStateChangeRequest(e, mod, s)
  \/ \E m \in Modules : ModuleStart(m) \/ ModuleExit(m)

Spec == Init /\ [][Next]_vars

-----------------------------------------------------------------------------
(* Spec section 6: RequestStateChange goes to the endpoint of the module, *)
(* so a request for a module whose process is running reaches it.        *)
RequestReachesModule ==
  lastCall.up => lastCall.to = <<lastCall.eq, lastCall.mod>>
=============================================================================
