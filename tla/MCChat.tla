------------------------------- MODULE MCChat -------------------------------
(* Clients are interchangeable: the server tells them apart only by their  *)
(* place in the table, which is part of the state.                         *)
EXTENDS ChatServer

Interchangeable == Permutations(Clients)
=============================================================================
