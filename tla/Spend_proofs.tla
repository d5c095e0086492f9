---------------------------- MODULE Spend_proofs ----------------------------
(***************************************************************************)
(* What verify_spend guarantees for every note, spend, host and time.      *)
(***************************************************************************)
EXTENDS Spend, TLAPS

\* A longer relative lock takes more seconds.
LEMMA UnitsMonotone ==
  ASSUME NEW x \in Nat, NEW y \in Nat, x <= y
  PROVE  x * Unit <= y * Unit
<1>1. Unit \in Nat
  BY SpendAssumption
<1>2. \E d \in Nat : y = x + d
  <2>1. y - x \in Nat /\ y = x + (y - x)
    BY SMT
  <2> QED BY <2>1
<1>3. PICK d \in Nat : y = x + d
  BY <1>2
<1>4. y * Unit = x * Unit + d * Unit /\ d * Unit \in Nat /\ x * Unit \in Nat
  BY <1>1, <1>3, SMT
<1> QED BY <1>4, SMT

\* A script path opens a note only when the locks of its leaf are met: the
\* interpreter holds the claim against the leaf, check_time_claim holds it
\* against the clock, and together they hold the leaf against the clock.
THEOREM OpenedOnTime ==
  ASSUME NEW note, NEW s \in SpendsOf(note), NEW host,
         NEW now \in Nat, NEW lockedAt \in Nat, NEW kernel \in BOOLEAN,
         VerifySpend(s, note, host, now, lockedAt, kernel), s.path = "script"
  PROVE  LocksMet(s.leaf, now, lockedAt)
<1>1. /\ s.leaf \in Leaves
      /\ s.sequence \in Sequences
      /\ s.locktime \in Nat
  BY DEF SpendsOf
<1>2. /\ s.leaf.cltv \in Nat
      /\ s.leaf.csv.value \in Nat
      /\ s.leaf.csv.timed \in BOOLEAN
      /\ s.sequence.value \in Nat
      /\ s.sequence.timed \in BOOLEAN
      /\ s.sequence.final => s.sequence.disabled
  BY <1>1 DEF Leaves, Sequences
<1>3. /\ AbsoluteAccepted(s.locktime, now)
      /\ RelativeAccepted(s.sequence, now, lockedAt)
      /\ ~s.leaf.upgradable
      /\ IF kernel THEN KernelAccepts(s, host) ELSE VerifyPreimageLeaf(s)
  BY DEF VerifySpend, CheckLeaf, CheckTimeClaim, VerifyWitness
<1>4. CASE ~kernel
  BY <1>3, <1>4 DEF VerifyPreimageLeaf, BearerLeaf, LocksMet
<1>5. CASE kernel
  <2>1. CltvPasses(s.leaf, s) /\ CsvPasses(s.leaf, s)
    BY <1>3, <1>5 DEF KernelAccepts
  <2>2. ASSUME s.leaf.cltv # 0
        PROVE  s.leaf.cltv >= LocktimeThreshold /\ s.leaf.cltv <= now
    BY <1>1, <1>2, <1>3, <2>1, <2>2, SpendAssumption
       DEF CltvPasses, IsHeight, AbsoluteAccepted
  <2>3. ASSUME s.leaf.locked
        PROVE  s.leaf.csv.timed /\ lockedAt + s.leaf.csv.value * Unit <= now
    <3>1. /\ s.sequence.timed
          /\ s.leaf.csv.timed
          /\ now - lockedAt >= s.sequence.value * Unit
          /\ s.leaf.csv.value <= s.sequence.value
      BY <1>2, <1>3, <2>1, <2>3 DEF CsvPasses, RelativeAccepted
    <3>2. s.leaf.csv.value * Unit <= s.sequence.value * Unit
      BY <1>2, <3>1, UnitsMonotone
    <3>3. /\ s.leaf.csv.value * Unit \in Nat
          /\ s.sequence.value * Unit \in Nat
      BY <1>2, SpendAssumption
    <3> QED BY <3>1, <3>2, <3>3
  <2> QED BY <2>2, <2>3 DEF LocksMet
<1> QED BY <1>4, <1>5

\* A spend the mint accepted once it accepts ever after: between the check and
\* the burn, and when the request is retried, the clock can only help.
THEOREM StillAccepted ==
  ASSUME NEW note, NEW s \in SpendsOf(note), NEW host,
         NEW now \in Nat, NEW later \in Nat, now <= later,
         NEW lockedAt \in Nat, NEW kernel \in BOOLEAN,
         VerifySpend(s, note, host, now, lockedAt, kernel)
  PROVE  VerifySpend(s, note, host, later, lockedAt, kernel)
<1>1. /\ s.locktime \in Nat
      /\ s.sequence.value \in Nat
  BY DEF SpendsOf, Sequences
<1>2. s.sequence.value * Unit \in Nat
  BY <1>1, SpendAssumption
<1>3. AbsoluteAccepted(s.locktime, now) => AbsoluteAccepted(s.locktime, later)
  BY <1>1, SpendAssumption DEF AbsoluteAccepted
<1>4. RelativeAccepted(s.sequence, now, lockedAt)
        => RelativeAccepted(s.sequence, later, lockedAt)
  BY <1>2 DEF RelativeAccepted
<1> QED BY <1>3, <1>4 DEF VerifySpend, CheckTimeClaim

\* Without the interpreter the mint accepts nothing it would refuse with it.
THEOREM KernelAgrees ==
  ASSUME NEW note, NEW s \in SpendsOf(note), NEW host,
         NEW now, NEW lockedAt, VerifySpend(s, note, host, now, lockedAt, FALSE)
  PROVE  VerifySpend(s, note, host, now, lockedAt, TRUE)
<1>1. VerifyWitness(s, host, FALSE) => VerifyWitness(s, host, TRUE)
  BY DEF VerifyWitness, VerifyPreimageLeaf, BearerLeaf, KernelAccepts, WitnessShows,
         CltvPasses, CsvPasses
<1> QED BY <1>1 DEF VerifySpend
=============================================================================
