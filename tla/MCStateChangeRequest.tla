------------------------ MODULE MCStateChangeRequest ------------------------
(* Equiplets 0, 1 and 2 (the three cases of the pointer arithmetic),    *)
(* modules 1, 2 and 12; an out-of-literal read yields "" or "x".        *)
EXTENDS StateChangeRequest

MCEquiplets == {0, 1, 2}
MCModuleIds == {1, 2, 12}
MCStates == {0, 6}
MCUBSuffixes == {<<>>, <<"x">>}
=============================================================================
