------------------------- MODULE MCIdentityRegistry -------------------------
(* IdentityRegistry for TLC: ids, keys, fingerprints and handlers are        *)
(* interchangeable.                                                          *)
EXTENDS IdentityRegistry, TLC

Symmetry == Permutations(Keys) \cup Permutations(Ids)
            \cup Permutations(Certs) \cup Permutations(Workers)
=============================================================================
