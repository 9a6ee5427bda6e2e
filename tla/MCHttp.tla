------------------------------- MODULE MCHttp -------------------------------
(* Model-checking instances of HttpTransports: the channels are numbers, so  *)
(* that a new one is always the least that is free.                          *)
EXTENDS HttpTransports, TLC

MCChans == 1 .. 7

\* Requests and tokens are interchangeable.
Symmetry == Permutations(Requests) \cup Permutations(Tokens)
=============================================================================
