----------------------------- MODULE MCSessions -----------------------------
(* Instances of Sessions for TLC. *)
EXTENDS Sessions

CONSTANTS w1, w2, s1, s2, name, root

One == Created(EmptyList, w1, s1, name, root)
Two == Created(One, w2, s2, name, root)

\* Connections are alike: nothing chooses among them.
Alike == Permutations(Sockets)
=============================================================================
