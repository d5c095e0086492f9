-------------------------------- MODULE Spend --------------------------------
(***************************************************************************)
(* What opens a note (spend.py): a key path signature, the preimage of a   *)
(* bearer note, or a script leaf, with the time the redeemer claims.       *)
(*                                                                         *)
(* A spend says which note it opens, by which leaf, what time it claims    *)
(* and what its witness shows; keys, hashes, scripts and their encodings   *)
(* are behind these.  The note is recomputed from what the spend discloses *)
(* (Spend.output_key), so a leaf belongs to the note it opens.  What       *)
(* Bitcoin Core's interpreter makes of a leaf is external.                 *)
(***************************************************************************)
EXTENDS Integers

CONSTANTS
  LocktimeThreshold,  \* an nLockTime below it is a block height
  Unit,               \* seconds in a unit of a relative lock
  Domains             \* hosts a wallet may bind its signature to

ASSUME SpendAssumption ==
  /\ LocktimeThreshold \in Nat \ {0}
  /\ Unit \in Nat \ {0}

\* The bits of an nSequence that matter: whether it is 0xffffffff, its flags
\* "no relative lock" and "in units of time", and the low 16 bits.
Sequences ==
  {s \in [final : BOOLEAN, disabled : BOOLEAN, timed : BOOLEAN, value : Nat] :
     s.final => s.disabled}

\* A leaf wants a signature or a preimage, and may use an upgrade hook (an
\* OP_SUCCESS or an unknown version).  It may want an nLockTime of at least
\* cltv (0: any), and a relative lock of at least csv when locked is set.
Leaves ==
  [needs : {"signature", "preimage"}, upgradable : BOOLEAN, cltv : Nat,
   locked : BOOLEAN, csv : [timed : BOOLEAN, value : Nat]]

\* A signature commits to the host, the note, the leaf and the claimed time: a
\* tampered one, or none, is the witness "nothing".
SpendsOf(note) ==
  [opens : {note}, path : {"key", "script"}, leaf : Leaves, locktime : Nat,
   sequence : Sequences, witness : {"signature", "preimage", "nothing"},
   signedFor : Domains]

(***************************************************************************)
(* The redeemer's claims about time.                                       *)
(***************************************************************************)

\* Faults: a locktime counts one second early; a relative lock is counted in
\* seconds.
AbsoluteEarly(locktime, now) ==
  locktime = 0 \/ (locktime >= LocktimeThreshold /\ locktime - 1 <= now)
RelativeInSeconds(s, now, lockedAt) ==
  s.disabled \/ (s.timed /\ now - lockedAt >= s.value)

AbsoluteAccepted(locktime, now) ==
  locktime = 0 \/ (locktime >= LocktimeThreshold /\ locktime <= now)

RelativeAccepted(s, now, lockedAt) ==
  s.disabled \/ (s.timed /\ now - lockedAt >= s.value * Unit)

CheckTimeClaim(locktime, sequence, now, lockedAt) ==
  AbsoluteAccepted(locktime, now) /\ RelativeAccepted(sequence, now, lockedAt)

(***************************************************************************)
(* Witnesses.                                                              *)
(***************************************************************************)
CheckLeaf(leaf) == ~leaf.upgradable

WitnessShows(s, needs, domain) ==
  /\ s.witness = needs
  /\ needs = "signature" => s.signedFor = domain

\* OP_CHECKLOCKTIMEVERIFY and OP_CHECKSEQUENCEVERIFY compare the leaf with the
\* claim, and do not know the time.
IsHeight(locktime) == locktime < LocktimeThreshold

CltvPasses(leaf, s) ==
  leaf.cltv # 0 =>
    /\ ~s.sequence.final
    /\ IsHeight(leaf.cltv) <=> IsHeight(s.locktime)
    /\ leaf.cltv <= s.locktime

CsvPasses(leaf, s) ==
  leaf.locked =>
    /\ ~s.sequence.disabled
    /\ leaf.csv.timed = s.sequence.timed
    /\ leaf.csv.value <= s.sequence.value

KernelAccepts(s, domain) ==
  \/ s.leaf.upgradable
  \/ /\ WitnessShows(s, s.leaf.needs, domain)
     /\ CltvPasses(s.leaf, s)
     /\ CsvPasses(s.leaf, s)

\* The bearer note's leaf, the one script the mint can check by itself.
BearerLeaf(leaf) ==
  leaf.needs = "preimage" /\ ~leaf.upgradable /\ leaf.cltv = 0 /\ ~leaf.locked

VerifyPreimageLeaf(s) == BearerLeaf(s.leaf) /\ s.witness = "preimage"

\* kernel: is the interpreter (lnurlcashkernel) installed.
VerifyWitness(s, domain, kernel) ==
  IF s.path = "key" THEN WitnessShows(s, "signature", domain)
  ELSE IF kernel THEN KernelAccepts(s, domain) ELSE VerifyPreimageLeaf(s)

(***************************************************************************)
(* The decision about a spend.                                             *)
(***************************************************************************)

\* A ck1 is decoded with locktime 0 and a final sequence.
NoTimeClaim(s) == s.locktime = 0 /\ s.sequence.final

VerifySpend(s, note, domain, now, lockedAt, kernel) ==
  /\ s.opens = note
  /\ IF s.path = "key"
     THEN NoTimeClaim(s)
     ELSE CheckLeaf(s.leaf) /\ CheckTimeClaim(s.locktime, s.sequence, now, lockedAt)
  /\ VerifyWitness(s, domain, kernel)

\* A signature for any of the hosts the mint answers on is good.
Verify(s, note, domains, now, lockedAt, kernel) ==
  \E domain \in domains : VerifySpend(s, note, domain, now, lockedAt, kernel)

-----------------------------------------------------------------------------
\* What whoever locked the note meant by the leaf, by the mint's clock: the
\* time has come, and that many units have passed since the note was credited.
LocksMet(leaf, now, lockedAt) ==
  /\ leaf.cltv # 0 => leaf.cltv >= LocktimeThreshold /\ leaf.cltv <= now
  /\ leaf.locked => leaf.csv.timed /\ lockedAt + leaf.csv.value * Unit <= now
=============================================================================
