---------------------------- MODULE DataObjectsMC ----------------------------
(* Two objects with one content: the first for everybody, the second uploaded *)
(* in parts, restricted, and with rights that two users change.               *)
EXTENDS DataObjects

CONSTANTS o1, o2, c1, u1, u2, s1

MCContentOf == [o \in Object |-> c1]
MCOwnerOf == [o \in Object |-> u1]
MCParts == [o \in Object |-> IF o = o2 THEN 2 ELSE 1]
=============================================================================
