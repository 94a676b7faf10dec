------------------------------- MODULE MCBridge -------------------------------
(***************************************************************************)
(* Instances of Bridge for TLC: devices a, b and c, each with a directory  *)
(* and a process of the same name.                                         *)
(***************************************************************************)
EXTENDS Bridge

CONSTANTS a, b, c,     \* devices
          ka, kb, kc  \* keys

Own == [p \in Process |-> p]
Once == [p \in Process |-> 1]

\* Nobody has run before, but a; everybody has, and knows the others.
OneSettled == [d \in Dir |-> IF d = a THEN ka ELSE None]
AllSettled == [d \in Dir |-> CASE d = a -> ka [] d = b -> kb [] OTHER -> kc]
SharedDir == [p \in Process |-> IF p = c THEN b ELSE p]
Everybody == Dir \X Dir
=============================================================================
