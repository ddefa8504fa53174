--------------------------- MODULE MCEquipletNode ---------------------------
(* Model-checking instance of EquipletNode: two module processes,        *)
(* reported states standby < normal, three registrations.                    *)
EXTENDS EquipletNode

CONSTANTS c1, c2

MCClients == {c1, c2}
MCReportableStates == {standby, normal}
MCMaxRegistrations == 3
MCIntWidth == 3          \* ids -4..3: the three registrations stay below the wrap

(* nextModuleID wrapping: 2-bit ints (-2..1), five registrations, so the  *)
(* fifth answer is 1 again.                                                *)
MCWrapWidth == 2
MCWrapRegistrations == 5

(* A process reporting 7, a StateType value with no enumerator.           *)
MCOutOfRangeStates == {normal, 7}

MCSymmetry == Permutations(MCClients)
=============================================================================
