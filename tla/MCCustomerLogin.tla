-------------------------- MODULE MCCustomerLogin --------------------------
(* Model-checking instance of CustomerLogin. *)
EXTENDS CustomerLogin
=============================================================================
