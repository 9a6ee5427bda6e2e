----------------------------- MODULE MCSessions -----------------------------
(* Model-checking instances of Sessions. *)
EXTENDS Sessions, TLC

\* Sockets, ids and tokens are interchangeable.
Symmetry == Permutations(Conns) \cup Permutations(Ids) \cup Permutations(Tokens)
=============================================================================
