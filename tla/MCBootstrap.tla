----------------------------- MODULE MCBootstrap -----------------------------
(* Model-checking instance of Bootstrap: main's two calls of this         *)
(* revision (deltaRobot id 1, gripper id 2), the root coordinator and     *)
(* three more process slots.                                               *)
EXTENDS Bootstrap

CONSTANTS p0, p1, p2, p3, none

MCPids == {p0, p1, p2, p3}
MCCalls == <<1, 2>>

(* The non-root slots are interchangeable.                                *)
MCSymmetry == Permutations({p1, p2, p3})
=============================================================================
