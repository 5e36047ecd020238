----------------------------- MODULE MCBackend -----------------------------
(***************************************************************************)
(* Instances of Backend for TLC: one user, whose connect requests come     *)
(* either each from a device of its own or all from one device.            *)
(***************************************************************************)
EXTENDS Backend, TLC

CONSTANT u1

OneUser == [s \in Session |-> u1]
OwnDevice == [s \in Session |-> s]
OneDevice == [s \in Session |-> u1]

\* Ids of rows, nodes and instances are interchangeable; liveness runs do not use this.
Symmetry == Permutations(Session) \cup Permutations(Grant) \cup Permutations(Txn)
            \cup Permutations(Worker)
=============================================================================
