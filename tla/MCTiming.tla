------------------------------ MODULE MCTiming ------------------------------
(***************************************************************************)
(* Notes, leaves and spends of the timing instance for TLC.                 *)
(***************************************************************************)
EXTENDS Timing

CONSTANTS z1, z2, m1, o1, home, away

MintOf == [z \in Invoices |-> m1]

Leaf(needs, cltv, locked, units) ==
  [needs |-> needs, upgradable |-> FALSE, cltv |-> cltv, locked |-> locked,
   csv |-> [timed |-> TRUE, value |-> units]]

\* z1's note has a leaf for the time 2 and one for a unit of two seconds after
\* it was credited, z2's opens by its key, and what they are rotated or merged
\* into stays with its holder.
AtTwo == Leaf("preimage", 2, FALSE, 0)
AfterUnit == Leaf("signature", 0, TRUE, 1)

Sequence(final, disabled, timed, value) ==
  [final |-> final, disabled |-> disabled, timed |-> timed, value |-> value]

By(n, path, leaf, witness, host, locktime, sequence) ==
  [opens |-> n, path |-> path, leaf |-> leaf, locktime |-> locktime,
   sequence |-> sequence, witness |-> witness, signedFor |-> host]

\* Claims about time by the right witness, wrong witnesses, and a wrong host.
SomeSpends ==
  LET final == Sequence(TRUE, TRUE, TRUE, 1)
      open == Sequence(FALSE, TRUE, TRUE, 1)
      relative == {Sequence(FALSE, FALSE, timed, units) : timed \in BOOLEAN, units \in 0..1}
  IN  {By(z1, "script", AfterUnit, "signature", host, 0, sequence) :
         host \in {home, away}, sequence \in {final, open} \cup relative}
      \cup {By(z1, "script", AtTwo, witness, home, locktime, sequence) :
              witness \in {"preimage", "nothing"}, locktime \in 0..2,
              sequence \in {final, open}}
      \cup {By(z2, "key", AtTwo, "signature", host, locktime, sequence) :
              host \in {home, away}, locktime \in {0, 2}, sequence \in {final, open}}
=============================================================================
