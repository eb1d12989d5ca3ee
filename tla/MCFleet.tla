------------------------------ MODULE MCFleet ------------------------------
(* An instance of Fleet for TLC: two members, which are interchangeable,    *)
(* and three releases, of which the first two pin the same K3s.             *)
EXTENDS Fleet, TLC

CONSTANTS w1, w2, k1, k2
MCName == {w1, w2}
MCSymmetry == Permutations(MCName)
MCK3sOf == <<k1, k1, k2>>

=============================================================================
