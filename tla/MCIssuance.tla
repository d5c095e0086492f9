----------------------------- MODULE MCIssuance -----------------------------
(***************************************************************************)
(* Instances of Issuance for TLC: the keys of the usernames' branches.     *)
(***************************************************************************)
EXTENDS Issuance, TLC

CONSTANTS k0, k1, n1, h1, h2, a, b, x, y, p1, p2, l1, l2

\* Two branches with the keys of one wallet, in either order.
CrossedKeys == [c \in {x, y} |-> [i \in Indices |-> IF (i = 0) = (c = x) THEN k0 ELSE k1]]

Symmetric == Permutations(Payers) \cup Permutations(Lookups)
=============================================================================
