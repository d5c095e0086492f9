------------------------------- MODULE Timing -------------------------------
(***************************************************************************)
(* Notes and time.  A note's relative lock counts from notes.locked_at,     *)
(* which settle_mint and swap set to the mint's clock; a spend is verified  *)
(* against it by one step of a request and burns its note in a later one,   *)
(* and a wallet that lost the answer presents the spend again.              *)
(*                                                                         *)
(* Zaps has the clock and the settling of zap invoices, Spend what opens a  *)
(* note.  Values are in module Value; a melt burns its note in one step     *)
(* here, and in several in Melt.                                            *)
(***************************************************************************)
EXTENDS Zaps, Spend

CONSTANTS
  Outputs,  \* notes a swap may make
  Hosts,    \* spend_domains
  Spends,   \* the spends wallets present
  Kernel,   \* kernel_available()
  MaxOpen   \* bound on opened

Notes == Invoices \cup Outputs

ASSUME TimingAssumption ==
  /\ Outputs \cap Invoices = {}
  /\ Kernel \in BOOLEAN
  /\ \A s \in Spends : s.opens \in Notes /\ s \in SpendsOf(s.opens)
  /\ MaxOpen \in Nat

VARIABLES
  status,    \* notes: no row, or its spent column
  lockedAt,  \* notes.locked_at
  opened     \* the spends verified that may still burn, or be retried

notes == <<status, lockedAt>>
vars == <<zapVars, notes, opened>>

Init ==
  /\ ZapsInit
  /\ status = [n \in Notes |-> "absent"]
  /\ lockedAt = [n \in Notes |-> 0]
  /\ opened = {}

\* INSERT INTO notes, with locked_at the clock's time.
Insert(made, burned) ==
  /\ status' = [n \in Notes |-> IF n \in made THEN "live"
                                ELSE IF n \in burned THEN "spent" ELSE status[n]]
  /\ lockedAt' = [n \in Notes |-> IF n \in made THEN clock ELSE lockedAt[n]]

SettleMint(z) ==
  /\ LookupSettles(z) \/ PollSettles(z)
  /\ Insert({z}, {})
  /\ UNCHANGED opened

Opens(s) == Verify(s, s.opens, Hosts, clock, lockedAt[s.opens], Kernel)

\* _verified_note: spent notes included.
Present(s) ==
  /\ Cardinality(opened) < MaxOpen
  /\ status[s.opens] # "absent"
  /\ Opens(s)
  /\ opened' = opened \cup {s}
  /\ UNCHANGED <<zapVars, notes>>

\* swap looks at the spent column again.
Burnable(burned) == \A n \in burned : status[n] = "live"

\* The wallet has its answer, or gives up.
Forget(s) ==
  /\ s \in opened
  /\ opened' = opened \ {s}
  /\ UNCHANGED <<zapVars, notes>>

\* A melt, rotate, split or merge, by spends verified earlier.
Redeem(burned, made) ==
  /\ burned # {}
  /\ Burnable(burned)
  /\ \A n \in made : status[n] = "absent"
  /\ Cardinality(made) <= 2
  /\ made = {} => Cardinality(burned) = 1
  /\ Insert(made, burned)
  /\ UNCHANGED <<zapVars, opened>>

Next ==
  \/ ZapsStep /\ UNCHANGED <<notes, opened>>
  \/ \E z \in Invoices : SettleMint(z)
  \/ \E s \in Spends : Present(s) \/ Forget(s)
  \/ \E burned \in SUBSET {s.opens : s \in opened}, made \in SUBSET Outputs :
       Redeem(burned, made)

Spec == Init /\ [][Next]_vars /\ ZapsFairness

-----------------------------------------------------------------------------
(***************************************************************************)
(* Properties.                                                             *)
(***************************************************************************)

\* The columns hold what the code can put there, a zap's note is on file
\* exactly when its record says minted, and no note is from the future.
TypeOK ==
  /\ ZapsTypeOK
  /\ status \in [Notes -> {"absent", "live", "spent"}]
  /\ \A z \in Invoices : status[z] # "absent" <=> record[z] = "minted"
  /\ lockedAt \in [Notes -> 0..MaxClock]
  /\ \A n \in Notes : lockedAt[n] <= clock
  /\ opened \subseteq Spends
  /\ \A s \in opened : status[s.opens] # "absent"

\* A note is burned by its key, or by a leaf whose locks are met by the mint's
\* clock: a claim about time gets nobody past what the leaf asks for.
LocksHonoured ==
  [][\A n \in Notes : status[n] = "live" /\ status'[n] = "spent" =>
       \E s \in opened :
         /\ s.opens = n
         /\ s.path = "key" \/ LocksMet(s.leaf, clock, lockedAt[n])]_vars

\* A spend that opened its note once still does: its note can be burned when
\* the swap gets to it, and a retry is recognised.
StillOpens == \A s \in opened : Opens(s)
=============================================================================
