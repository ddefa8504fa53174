------------------------- MODULE MCBlackboardClient -------------------------
(* The EquipletNode's subscription (every inserted message) and a second *)
(* client's subscription to removals of m1 and m2; three messages.        *)
EXTENDS BlackboardClient

CONSTANTS node, monitor, m1, m2, m3

MCSubs == {node, monitor}
MCNodeSubs == {node}
MCSubOp == node :> "insert" @@ monitor :> "remove"
MCSubDocs == node :> {m1, m2, m3} @@ monitor :> {m1, m2}
MCMsgs == {m1, m2, m3}
=============================================================================
