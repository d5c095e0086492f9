------------------------------ MODULE MCValue ------------------------------
(***************************************************************************)
(* Settings of a mint for TLC.                                             *)
(***************************************************************************)
EXTENDS Value, TLC

CONSTANTS i1, i2, o1, o2, o3, q1, q2

Mint(base, ppm, sunset) ==
  [base_fee_msat |-> base, fee_percent_ppm |-> ppm, min_sendable_msat |-> 1000,
   max_sendable_msat |-> 20000, min_mint_msat |-> 2000, sunset_mint |-> sunset]

\* The operator drops the fees while notes are out and requests under way.
DroppedFees == {Mint(1000, 100000, FALSE), Mint(0, 0, FALSE)}

\* The base fee stays what it is.
SteadyBaseFee == {Mint(1000, 0, FALSE)}

Interchangeable ==
  Permutations({i1, i2}) \cup Permutations({o1, o2, o3}) \cup Permutations({q1, q2})
=============================================================================
