---------------------------- MODULE MCProxyCache ----------------------------
(* Model checking of ProxyCache: workers, keys and addresses are alike. *)
EXTENDS ProxyCache, TLC

Symmetry == Permutations(Workers) \cup Permutations(Keys) \cup Permutations(Lines)
=============================================================================
