---------------------------- MODULE InspectNodes ----------------------------
(***************************************************************************)
(* The nodes of an inspection tree.  A node says where its value lies.     *)
(***************************************************************************)
EXTENDS Integers

InspectNode(off, size, kids) == [off |-> off, size |-> size, kids |-> kids]
EndOf(N) == N.off + N.size
=============================================================================
