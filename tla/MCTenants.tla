----------------------------- MODULE MCTenants -----------------------------
(* Model-checking instances of Tenants. *)
EXTENDS Tenants, TLC

\* Ids, keys, requests and connects are interchangeable.
Symmetry ==
    Permutations(TenantIds) \cup Permutations(Keys) \cup Permutations(Handlers)
        \cup Permutations(Resolvers)
=============================================================================
