------------------------------- MODULE Value -------------------------------
(***************************************************************************)
(* The value of notes: what a payer gets for an invoice net of the mint    *)
(* fee, what split and merge charge and refund, and what a melt pays out,  *)
(* while the operator changes the settings.                                *)
(*                                                                         *)
(* A mint invoice names the note it credits, so the note carries the       *)
(* invoice's name here; Issuance is about who gets which note id.  What a  *)
(* melt does to a note is what NotePayout says of it, which Melt           *)
(* implements.  Amounts are in msat.                                       *)
(***************************************************************************)
EXTENDS Integers, Sequences, FiniteSets, Functions, FiniteSetsExt

CONSTANTS
  Invoices,      \* mint invoices, each with the note it credits
  Outputs,       \* note ids wallets name as p1 and p2
  Requests,      \* rotate, split and merge requests being handled at once
  Settings,      \* settings the operator may give the mint
  PayAmounts,    \* amounts payers ask an invoice for
  SplitAmounts,  \* amounts wallets split off
  MaxInputs,     \* _MAX_K1S, 100 in the code
  WalkLimit      \* iterations of the minSendable walk, 100_000 in the code

Million == 1000000
MaxPpm == 100000

MintSettings ==
  [base_fee_msat : Nat, fee_percent_ppm : 0..MaxPpm,
   min_sendable_msat : Nat \ {0}, max_sendable_msat : Nat \ {0},
   min_mint_msat : Nat, sunset_mint : BOOLEAN]

ASSUME ValueAssumption ==
  /\ Invoices \cap Outputs = {}
  /\ Settings \subseteq MintSettings
  /\ PayAmounts \subseteq Nat
  /\ SplitAmounts \subseteq Int
  /\ MaxInputs \in Nat \ {0}
  /\ WalkLimit \in Nat

VARIABLES
  mint,     \* the settings of the mint
  record,   \* mints_records: the state of each mint invoice
  asked,    \* the amount each payer asked an invoice for
  fate,     \* notes: what became of each note
  value,    \* notes.amount_msat, before that mints_records.amount_msat
  request   \* what each rotate, split or merge request has read so far

vars == <<mint, record, asked, fate, value, request>>

Notes == Invoices \cup Outputs
Fates == {"absent", "live", "committed", "paid", "swapped"}

\* A request that read the settings s and no note yet.
Begun(s) == [mint |-> s, inputs |-> <<>>]

Init ==
  /\ mint \in Settings
  /\ record = [i \in Invoices |-> "none"]
  /\ asked = [i \in Invoices |-> 0]
  /\ fate = [n \in Notes |-> "absent"]
  /\ value = [n \in Notes |-> 0]
  /\ request = [q \in Requests |-> Begun(mint)]

(***************************************************************************)
(* Fees.                                                                   *)
(***************************************************************************)

\* Rounded up to a whole sat.
CeilSat(msat) == -((-msat) \div 1000) * 1000

MintFee(s, amount) ==
  CeilSat(s.base_fee_msat + (amount * s.fee_percent_ppm) \div Million)

Net(s, amount) == amount - MintFee(s, amount)

\* Fault: the fee is left out of the advertised minimum.
MinSendableGross(s) ==
  IF s.min_sendable_msat > s.min_mint_msat THEN s.min_sendable_msat ELSE s.min_mint_msat

\* The first amount of the walk that leaves min_mint_msat, 0 if none does.
MinSendable(s) ==
  LET start == IF s.min_sendable_msat > s.min_mint_msat
               THEN s.min_sendable_msat ELSE s.min_mint_msat
      enough == {k \in 0..(WalkLimit - 1) :
                   Net(s, start + k * 1000) >= s.min_mint_msat}
  IN  IF enough = {} THEN 0 ELSE start + Min(enough) * 1000

\* Fault: what is left after the fee is not looked at.
AcceptsInRange(s, amount) ==
  ~s.sunset_mint /\ amount \in s.min_sendable_msat..s.max_sendable_msat

\* What the pay callback accepts an amount on.
Accepts(s, amount) ==
  /\ ~s.sunset_mint
  /\ amount \in s.min_sendable_msat..s.max_sendable_msat
  /\ Net(s, amount) >= s.min_mint_msat

(***************************************************************************)
(* Minting.                                                                *)
(***************************************************************************)

\* The note is worth the amount net of the fee, to the msat; what is promised
\* here is credited whatever becomes of the settings.  The settings are read
\* once, first; nothing acts on the record before the invoice is paid.
PayCallback(i, amount) ==
  /\ record[i] = "none"
  /\ Accepts(mint, amount)
  /\ record' = [record EXCEPT ![i] = "unpaid"]
  /\ asked' = [asked EXCEPT ![i] = amount]
  /\ value' = [value EXCEPT ![i] = Net(mint, amount)]
  /\ UNCHANGED <<mint, fate, request>>

\* The invoice for an amount is for whole sats.
Invoiced(amount) == (amount \div 1000) * 1000

InvoicePaid(i) ==
  /\ record[i] = "unpaid"
  /\ record' = [record EXCEPT ![i] = "paid"]
  /\ UNCHANGED <<mint, asked, fate, value, request>>

SettleMint(i) ==
  /\ record[i] = "paid"
  /\ record' = [record EXCEPT ![i] = "minted"]
  /\ fate' = [fate EXCEPT ![i] = "live"]
  /\ UNCHANGED <<mint, asked, value, request>>

(***************************************************************************)
(* Rotate, split, merge: the handler reads the settings, then the notes    *)
(* one at a time, works out the values under the settings it read, and     *)
(* swaps in a database block.  Settings, notes and other requests go on    *)
(* meanwhile.                                                              *)
(***************************************************************************)

\* A request reads the settings of the mint; the one before it was answered,
\* raised, or was given up wherever it was.
Begin(q) ==
  /\ request' = [request EXCEPT ![q] = Begun(mint)]
  /\ UNCHANGED <<mint, record, asked, fate, value>>

\* The note is on file and unspent when it is read; pending ones, ones whose
\* payment went through and is not booked yet, and one note named twice pass.
ReadNote(q, n) ==
  /\ Len(request[q].inputs) < MaxInputs
  /\ fate[n] \in {"live", "committed", "paid"}
  /\ request' = [request EXCEPT ![q].inputs = Append(@, n)]
  /\ UNCHANGED <<mint, record, asked, fate, value>>

\* The amount of a note on file never changes, so it is not read again here.
Total(inputs) == SumFunction([k \in DOMAIN inputs |-> value[inputs[k]]])

\* Fault: one note named twice counts twice.
EachLive(inputs) == \A k \in DOMAIN inputs : fate[inputs[k]] = "live"

\* swap() looks again: no note twice, none spent or pending meanwhile.
Burnable(inputs) ==
  /\ IsInjective(inputs)
  /\ \A k \in DOMAIN inputs : fate[inputs[k]] = "live"

\* The value the note under output n is inserted with.
OutputValue(values, outputs, n) == values[CHOOSE k \in DOMAIN outputs : outputs[k] = n]

Swap(q, values, outputs) ==
  LET burned == Range(request[q].inputs)
  IN  /\ request[q].inputs # <<>>
      /\ Burnable(request[q].inputs)
      /\ IsInjective(outputs)
      /\ \A k \in DOMAIN outputs : fate[outputs[k]] = "absent"
      /\ fate' = [n \in Notes |-> IF n \in burned THEN "swapped"
                                  ELSE IF n \in Range(outputs) THEN "live"
                                  ELSE fate[n]]
      /\ value' = [n \in Notes |-> IF n \in Range(outputs)
                                   THEN OutputValue(values, outputs, n)
                                   ELSE value[n]]
      /\ request' = [request EXCEPT ![q] = Begun(mint)]
      /\ UNCHANGED <<mint, record, asked>>

\* Fault: a note worth nothing may be left.
ChangeMayBeNothing(s, total, amount) ==
  0 < amount /\ amount < total /\ total - amount >= s.base_fee_msat

\* The base fee comes out of the change.
Splittable(s, total, amount) ==
  /\ 0 < amount
  /\ amount < total
  /\ total - amount >= s.base_fee_msat
  /\ total - amount - s.base_fee_msat >= 1

SplitValues(r, amount) == <<amount, Total(r.inputs) - amount - r.mint.base_fee_msat>>

Split(q, amount, outputs) ==
  /\ ~request[q].mint.sunset_mint
  /\ Splittable(request[q].mint, Total(request[q].inputs), amount)
  /\ Swap(q, SplitValues(request[q], amount), outputs)

\* A merge of n notes hands back all base fees but one; a rotate is a merge
\* of one.
Refund(s, n) == (n - 1) * s.base_fee_msat

MergeValues(r) == <<Total(r.inputs) + Refund(r.mint, Len(r.inputs))>>

Merge(q, outputs) == Swap(q, MergeValues(request[q]), outputs)

(***************************************************************************)
(* Melting, as NotePayout has it; the invoice is for the value of the note *)
(* exactly.                                                                *)
(***************************************************************************)
Move(n, from, to) ==
  /\ fate[n] = from
  /\ fate' = [fate EXCEPT ![n] = to]
  /\ UNCHANGED <<mint, record, asked, value, request>>

Commit(n) == Move(n, "live", "committed")
Release(n) == Move(n, "committed", "live")
PayOut(n) == Move(n, "committed", "paid")

UpdateMint(s) ==
  /\ mint' = s
  /\ UNCHANGED <<record, asked, fate, value, request>>

-----------------------------------------------------------------------------
OnFile == {n \in Notes : fate[n] # "absent"}

Next ==
  \/ \E i \in Invoices, amount \in PayAmounts : PayCallback(i, amount)
  \/ \E i \in Invoices : InvoicePaid(i) \/ SettleMint(i)
  \/ \E q \in Requests :
       \/ Begin(q)
       \/ \E n \in Notes : ReadNote(q, n)
       \/ \E amount \in SplitAmounts, outputs \in [1..2 -> Outputs] : Split(q, amount, outputs)
       \/ \E outputs \in [1..1 -> Outputs] : Merge(q, outputs)
  \/ \E n \in Notes : Commit(n) \/ Release(n) \/ PayOut(n)
  \/ \E s \in Settings : UpdateMint(s)

Spec == Init /\ [][Next]_vars

\* The operator may lower the base fee, and changes the rest as it likes.
BaseFeeNotRaised == mint'.base_fee_msat <= mint.base_fee_msat

\* No request that read a higher base fee reads a note under the lower one.
ReadsAreCurrent ==
  \A q \in Requests, n \in Notes :
    ReadNote(q, n) => request[q].mint.base_fee_msat <= mint.base_fee_msat

\* The operator does not raise the base fee, and lowers it while no request is
\* between its settings and its notes.
SpecNotRaised == Init /\ [][Next /\ BaseFeeNotRaised /\ ReadsAreCurrent]_vars

-----------------------------------------------------------------------------
(***************************************************************************)
(* Properties.                                                             *)
(***************************************************************************)

\* The columns hold what the code can put there; no note and no note promised
\* by an invoice has a negative value.
TypeOK ==
  /\ mint \in Settings
  /\ record \in [Invoices -> {"none", "unpaid", "paid", "minted"}]
  /\ asked \in [Invoices -> Nat]
  /\ fate \in [Notes -> Fates]
  /\ value \in [Notes -> Nat]
  /\ request \in [Requests -> [mint : Settings, inputs : Seq(Notes)]]

ValueOf(ns) == SumFunctionOnSet(value, ns)

Paying == {i \in Invoices : record[i] \in {"paid", "minted"}}
Received == SumFunctionOnSet([i \in Invoices |-> Invoiced(asked[i])], Paying)
Fraction(amount) == amount % 1000
Fractions == SumFunctionOnSet([i \in Invoices |-> Fraction(asked[i])], Paying)
Owed == {i \in Invoices : record[i] = "paid"}
Outstanding == {n \in Notes : fate[n] \in {"live", "committed"}}
PaidOut == {n \in Notes : fate[n] = "paid"}

\* What was paid in covers every outstanding note, every paid note not on
\* file yet and everything paid out: no sequence of mints, splits, merges and
\* melts makes value ("the mint is never shorted a sat").
Solvent == ValueOf(Owed \cup Outstanding \cup PaidOut) <= Received

\* Each of these notes has left a base fee with the mint as well: it cannot
\* be dodged by splitting, nor had back twice by merging.  All the mint is
\* ever short of is the fraction of a sat each payer was credited and not
\* charged, once per invoice however its note is split, merged or paid out.
BaseFeePerNote ==
  LET notes == Owed \cup Outstanding \cup PaidOut
  IN  ValueOf(notes) + Cardinality(notes) * mint.base_fee_msat <= Received + Fractions

\* The advertised minimum can be paid: the callback accepts it, unless the
\* mint is sunsetting or its maximum is lower still.
AdvertisedMinimumAccepted ==
  LET amount == MinSendable(mint)
  IN  amount # 0 /\ amount <= mint.max_sendable_msat /\ ~mint.sunset_mint
        => Accepts(mint, amount)

\* No note is worth nothing, as long as minting leaves it something.
NotesAreWorthSomething ==
  (\A s \in Settings : s.min_mint_msat > 0) =>
    \A n \in OnFile : value[n] > 0
=============================================================================
