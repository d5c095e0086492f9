# Verification of lnurlmint

TLA+ models of the lnurlmint extension of LNbits: a mint of Lightning bearer
notes (LUD-25). A payer pays an invoice and a note appears under an output key
its wallet chose; whoever can open the note may rotate, split or merge it into
fresh notes, or melt it into a Lightning payment. The models are checked with
TLC on small instances and the results that matter most are proved with TLAPS
for instances of any size. Paths below are relative to the repository.

    tlc -config MCMelt_payout.cfg MCMelt      # any run of PROJECT.json
    tlapm Melt_proofs.tla                     # any *_proofs module

## The system

| Component | State | Operations | Where |
|---|---|---|---|
| Melt | `notes.spent/pending/pending_payment_hash`, `melts`, the in-process registry `_in_flight_melts` | melt branch of `/w/cb`, background task `_melt_pay` | `views_lnurl.py`, `services.py`, `crud.py` |
| Reconciliation | the same | `reconcile_pending_melts`, at boot and every 60 s | `services.py`, `tasks.py`, `__init__.py` |
| Rotate, split, merge | `notes`, `burns` | `swap`, `find_burn` | `crud.py`, `views_lnurl.py` |
| Minting | `mints_records`, `notes` | `_pay_callback`, `record_mint_record`, `_try_settle_mint`, `settle_mint` | same |
| Usernames | `usernames` (branch, next index, npub) | register, replace, delete, `claim_next_index`, NIP-05 | same |
| Mint configuration | `mints` | create, update, delete | `views_api.py`, `models.py`, `crud.py` |
| Fees and limits | none | `_mint_fee_msat`, `_min_sendable_msat`, base fee of split and merge | `services.py`, `views_lnurl.py` |
| Verify (LUD-21) | none | settlement status, gated preimage | `services.py` |
| Zaps (NIP-57) | `mints_records.zap_request/zap_receipt` | settlement poll, receipt publishing | `services.py`, `nostr.py` |
| Spend verification | none | parse and verify a `k1` | `spend.py`, `signing.py`, `taproot.py`, `bech32m.py` |
| Derivation | none | branch keys | `derivation.py` |
| Management reads, pages, migrations | none of their own | | `views_api.py`, `views.py`, `static/`, `migrations.py` |

**How they interact.** One asyncio process serves the requests and runs the
background tasks; they meet in the database and in `_in_flight_melts`. The
funding source (LNbits and the Lightning node behind it) is asked to pay, to
invoice and for the status of a payment hash. Every `await` lets the others
run. A `db.connect()` block is serialised by a lock in LNbits, so between live
tasks it is one step; it is not a transaction, since each `conn.execute`
commits on its own (comment at `crud.py:632`).

**What is hard.**
- *Interleaving and stale state*: a handler checks, awaits and writes;
  reconcile works from a snapshot and an answer that are both awaits old.
- *Uncertain answers*: a payment call may raise or time out while the payment
  is on its way; a status may be paid, failed or unknown.
- *Time*: a spend's locks are held against a clock that moves between its
  verification, its burn and its retry; receipts have a polling window.
- *Crashes*: the registry is lost, the database and the node keep what they
  have; blocks may be cut in two.
- *Shared names*: note ids are global over all mints and are chosen by
  wallets, derived for usernames, and claimed in advance by pending invoices.
- *Numbers*: fee rounding, sat and msat, refunds at the fee of the moment.

**What makes each part correct.**
- *Melt and reconciliation*: the value of a note leaves once; a note is held
  exactly while its payment may move funds, burned only on a settled payment
  and released only on a failed one; a resolved payment is booked in the end.
- *Rotate, split, merge*: a note is burned once, its outputs never collide with
  a note or a promised one, a retry is answered with its own result.
- *Minting*: a paid invoice credits its note exactly once, on its mint, under
  an id nobody can take meanwhile; deleting a mint orphans nothing.
- *Usernames*: an index is not credited twice, a name changes hands only with
  its branch's proof.
- *Fees*: what is outstanding and melted never exceeds what was paid in.
- *Zaps*: every settled zap that has a relay to go to gets its receipt, and only
  a paid one does.
- *Spends*: no note is burned before its locks are met, and a spend that was
  good stays good for the retry.
- *Verify*: a melt is reported settled only when it was paid.

PROJECT.json lists the components with their status and the hazards line by
line, with the properties that watch them.

## Modules

**`Melt`**: melting, reconciliation, swaps and crashes. `status`, `reserved`,
`burns` and `melts` are the columns; `inFlight` is the registry; `node` and
`payer` are the funding source's payment of each hash and the note it was made
for; `pc` is each request and the task it spawns; `rpc`, `snap`, `cur` are each
reconcile pass. A step is a database block or the stretch between two awaits.

| Code | Action |
|---|---|
| checks of the melt branch, `mark_pending`, `_track_melt_start`, `record_melt` | `CheckMelt`, `MarkPending`/`RefuseMelt`, `TrackStart`, `RecordMelt`/`RecordFails` |
| `_melt_pay`: `pay_invoice` sends, refuses, succeeds, raises or times out | `PayInvoice`, `PayRefused`, `PaySucceeds`, `PayUnclear` |
| `_confirm_payment`, then finalize, mark settled, restore, `finally` | `ConfirmMelt`, `FinalizeNote`, `SettleMelt`, `RestoreNote`, `TrackEnd` |
| `reconcile_pending_melts` | `RecSnapshot`, `RecSkip`, `RecVisit`, `RecAnswered`, `RecUnclear`, `RecFinalize`, `RecSettle`, `RecRestore`, `RecDone` |
| `swap` | `Swap` |
| the node (external) | `NodeRegisters`, `NodeSettles`, `NodeFails` |
| process death and restart | `Crash` |

**`NotePayout`**: the abstract promise, one variable `fate`: a note is
exchanged for fresh notes or committed to a payment that pays it out or lets go
of it. `Melt!Ledger` maps the tables and the node to it.

**`Issuance`**: minting, lazy settlement, auto-mint on the branch a name is
registered with, swaps over shared note ids, deletion of a mint. `status` and
`owner` are `notes`; `credit`, `mintOf`, `minted` are `mints_records`; `branch`
and `nextIndex` are `usernames`, one name a mint; `invoice` is the incoming
payment at the funding source; `pc`, `at`, `on`, `pick`, `inv` are the pay
requests; `lpc`, `asked` are the lookups of `/w`, `/w/cb`, `/verify` and the
zap poll, which all run `_try_settle_mint`.

| Code | Action |
|---|---|
| `_pay_callback` accepts; `claim_next_index`; invoice; record | `AcceptPay`, `ClaimIndex`/`UnknownUser`, `CreateInvoice`/`InvoiceFails`, `RecordMint`/`RecordRefused` |
| `_try_settle_mint`: reads the record, asks, `settle_mint` | `LookUp`, `SeenPaid`/`NotSettled`, `SettleMint` |
| `swap`, `delete_mint`, `upsert_username`, `delete_username` | `Swap`, `DeleteMint`, `UpsertUsername`, `DeleteUsername` |
| the payer; process death, between blocks or inside one | `InvoicePaid`; `Crash`, `CrashInSettle`, `CrashInSwap` |

`Spec` has the crashes between blocks; `SpecMidBlock` adds those inside one.

**`Value`**: what notes are worth while the operator changes the settings.
`mint` is the row of `mints` with the fees and limits; `record` and `asked` are
the mint invoices and the msat a payer asked for; `value` is `amount_msat` of a note or of the record that
will become it; `fate` is the abstract state of `NotePayout`, which `Melt`
implements; `request` is what a split or merge has read so far, the settings
first and then its notes one after the other. A note minted by an invoice carries the invoice's name: who gets which id is the
subject of `Issuance`.

| Code | Action or operator |
|---|---|
| `_mint_fee_msat`, `_min_sendable_msat`, the limits of `_pay_callback` | `MintFee`, `MinSendable`, `Accepts` |
| `_pay_callback`, the payer, `settle_mint` | `PayCallback`, `InvoicePaid`, `SettleMint` |
| `amount // 1000`, what the invoice is for | `Invoiced`, and `Fractions` of what it drops |
| `/w/cb` without `pr`: `get_mint_by_id`; `_verified_note` for each `k1`, awaits in between | `Begin`; `ReadNote` |
| the values of a split or merge, by the settings read, and `swap`; anything else ends the request, and the next one begins | `Split`, `Merge`, both by `Swap`; `Begin` |
| a melt, as `NotePayout` has it; `update_mint` | `Commit`, `Release`, `PayOut`; `UpdateMint` |

The walk of `_min_sendable_msat` is the least step that leaves enough, which is
where a walk upwards stops. A melt takes exactly the value of its note out of
the mint; routing fees are not counted, nor does the code limit them.
`SpecNotRaised` is `Spec` for an operator who never raises the base fee
(`BaseFeeNotRaised`), and under whom no request that read a higher base fee
reads a note under a lower one (`ReadsAreCurrent`).

**`Usernames`**: registering and freeing a name. A request reads the mint
(`Accept`), reads the branch on file and checks the ownership proof against it
(`Look`), and writes (`Write`), with an await before each; a signature is who
made it, for which action and name. Once past `Look` a request writes whatever
is on file by then. `SerialSpec` is `Spec` with the look and the write of a
request as one critical section per name, which the code does not have.

**`Spend`**: pure operators, what `spend.verify` decides. A spend says which
note it opens, by its key or by a leaf, which time it claims and what its
witness shows; a leaf says what it asks for. `CheckTimeClaim` holds the claim
against the clock as the code does, `CltvPasses` and `CsvPasses` hold the leaf
against the claim as Bitcoin Core's interpreter does (external), and `LocksMet`
says what the leaf means by the clock. Keys, hashes, taproot commitments and
encodings are behind the fields: a note is recomputed from what the spend
discloses, so a leaf belongs to the note it opens.

**`Zaps`**: zap invoices and the periodic task (`publish_all_zap_receipts`).
`clock`, `offers` and `relays` (`mints.zaps_enabled`, and whether
`mints.zap_relays` names any), `record`, `created` and `receipt`
(`mints_records`), `paid` at the funding source, `taken` at the relays, and the
task's `tpc`, `round`, `cur`, `extra`, `todo`, `at`. A zap request may name no
relay (`Relayless`): its receipt then goes to the mint's relays of when the
turn began (`extra`), or to nobody and is tried again next round.

| Code | Action |
|---|---|
| `zaps_enabled_mints`, the loop over mints | `RoundStarts`, `NextMint`, `RoundEnds` |
| poll: `pending_zap_mints` (window, limit), `_try_settle_mint` | `NextMint`, `PollSettles`, `PollPasses` |
| `unpublished_zaps`; build, `relays_of`, `publish`, `mark_zap_published` | `PollEnds`; `HasRelay`, `RelayConfirms`, `RelayUnheard`, `RelaysRefuse`; `MarkPublished` |
| the end of a mint's turn, and the exception that ends it early | `MintEnds`, `ReceiptRaises` |
| zap branch of `_pay_callback`; payer; a lookup | `ZapInvoice`; `InvoicePaid`; `LookupSettles` |
| the clock, the operator, process death | `Tick`, `UpdateMint`, `Crash` |

**`Timing`** composes `Zaps` and `Spend` with the table of notes: `lockedAt` is
`notes.locked_at`, written by `settle_mint` and `swap`; `opened` holds the
spends a request has verified (`Present`) and may burn by (`Redeem`) later, or
a wallet may present again. A zap is settled and its note inserted in one step
(`SettleMint`).

`MCMelt`, `MCIssuance`, `MCValue` and `MCTiming` give the instances. Operators marked *Fault* in the
modules are not part of the system: each is a plausible slip of the definition
after it, used to see that a property notices.

## Runs

| Run | Bounds | Shows |
|---|---|---|
| `melt_payout` | one note, melted up to three times, twice into one invoice and once into another, or rotated into a second; periodic reconcile, 2 crashes, unregistered payments may be reported failed; `FairUndisturbedSpec` | `NoDoublePayout`, `HeldWhileUnresolved`, `ReleaseOnlyAfterFailure`, and the refinement `ImplementsLedger`, hold through all interleavings that do not disturb a reconcile pass; `RegistryExact`: the registry counts the live melts of a shared invoice; `SettledHonest`: a melt on record as settled was paid; `FundedBurn` and `SpentIsForever`; `ResolvedIsBooked`: a note whose payment was resolved does not stay pending |
| `melt_stale` | one note melted twice; `Spec` | **violated**: reconcile restores a note from a stale snapshot, and it is paid out twice |
| `melt_gap` | one melt, unregistered payments reported failed; `Spec` | **violated**: reconcile slips between `mark_pending` and `_track_melt_start` and releases a note whose payment then goes out |
| `melt_two_notes` | two notes into one invoice; `Spec` | **violated**: both pass the duplicate check, one is burned unpaid |
| `issuance_outputs` | 2 mints, 4 note ids (two keys that both branches have in either order, a note on file, an id equal to a payment hash), a name on one mint whose branch is replaced or freed, 2 invoices, 2 pay requests, 2 lookups, 1 crash | ids promised to pending mints stay free, notes are made once and paid for, lookups are unambiguous, retries answered, notes kept |
| `issuance_orphan` | as above | **violated**: a mint is deleted while `settle_mint` is about to add a note to it |
| `issuance_midblock` | as above, `SpecMidBlock` | **violated**: a crash inside `settle_mint` loses a paid note |
| `value_fees` | 2 mint invoices of 1000 or 5999 msat, 3 output ids, 2 requests at once over up to 2 notes each, rate 10% and base fee 1000 msat, both of which the operator may drop to 0 at any time a request is not between its settings and its notes (`SpecNotRaised`) | `BaseFeePerNote`: every note left its base fee with the mint, so what is outstanding, owed and paid out is covered but for the fractions of a sat the invoices drop; `AdvertisedMinimumAccepted`; `NotesAreWorthSomething` |
| `value_fractions` | 2 mint invoices of 5999 msat, rate 0, base fee 1000 for good (`Spec`) | **violated** (`Solvent`): each payer pays 5 sat and is credited 4999 msat, and the two notes merged are worth 10998 msat |
| `timing` | 2 zaps of one mint, one that names no relay and one with a receipt that cannot be built, poll limit 1, window 1, clock up to 2, 1 crash; 22 spends with claims at, before and after an absolute time and a lock of a unit, right and wrong witness and host; 1 note to swap into | `LocksHonoured`, `StillOpens`; `ReceiptMeansPaid`, `NoSecondReceipt`; `ZapsReceipted` |
| `zap_late` | 1 zap, window 0 | **violated** (`LateZapsUnreceipted`): a zap paid after its window is settled by a lookup, and its receipt goes out |
| `name_race` | one name to claim, 2 branches, 2 requests | **violated** (`OverwriteProved`): two first claims both look before either writes, and the second replaces the first's branch without its proof |

**Why the bounds suffice.** A race over a note or an invoice needs two
requests, one reconcile pass and, at most, one crash between them; the third
request of `melt_payout` melts the note again into an invoice that may still be
on its way, and the second crash hits what the first one left behind. The boot
pass beside the periodic one, and two notes into one invoice with more than
`melt_two_notes` asks of them, are beyond it; the theorems hold there too.
In `Issuance` a collision needs two
parties that want one id, through any two of the comment, the output and the
branch; two mints show that the ids are global; two lookups race to settle.
Two pay requests and two lookups are interchangeable, and so are the requests,
outputs and invoices of `Value`: hence `SYMMETRY` there (no liveness is checked
with it). In `timing` a lock of two seconds and a clock up to
2 put `now` before, at and after both boundaries, two zaps exceed the poll's
limit and outlive its window, and one of them shows what a receipt that raises
does to the other; two spends held at once may name one note. `MaxOpen`,
`MaxClock` and `LocktimeThreshold = 2`, `Unit = 2` (500000000 and 512 in the
code) are bounds of that instance. In `Value` three outputs
let a split be merged again, two requests read the same notes and race to swap
them, also after the fees they read were dropped, and the amounts put the
change of a split exactly on its limit (3999 - 2999 is a base fee, and leaves
nothing). Neither setting is sunset there; `TypeCorrect` and `ValueIsNotMade`
cover that, and a base fee lowered in steps.
`MaxCrashes`, `MaxIndex`, and the `MaxInputs` and `WalkLimit` given in
`MCValue_fees.cfg` (100 and 100000 in the code) are bounds of the model.
`CHECK_DEADLOCK FALSE` stands in the `Issuance` configurations because requests
are finite there and everything may be done.

**Fairness** (`Melt!Fairness`, liveness only). The event loop runs a task that
can go on: weak fairness of each accepted request with its background task and
of each reconcile task. `pay_invoice` returns in bounded time, and the node
registers what it was sent. A reconcile pass that asks about a resolved payment
again and again is answered in the end: strong fairness, since each pass may be
told nothing; the periodic task (`tasks.py`) asks every 60 seconds. In `Zaps`
(`ZapsFairness`) the zap task goes on (weak fairness, it runs every 5 seconds),
and relays that are sent a receipt again and again confirm it in the end (strong
fairness: each round may find them down). Neither the clock, nor payers, nor
lookups are asked to do anything; that a mint goes on offering zaps, and that no
receipt that cannot be built stands before it, are assumptions of the property,
and so is, for a zap that names no relay, that the mint has some: a receipt with
nowhere to go is never confirmed, and no fairness is asked for it. Nobody has to
send a request, and the node may leave a payment in flight for ever.
`melt_payout` takes `Fairness` with `UndisturbedSpec`.

## Proofs

For any sets of notes, invoices, requests, reconcile tasks, mints, zaps and
lookups, and any number of crashes:

- `Melt_proofs`: `TypeCorrect`, `SpentNotesStaySpent`, and `BurnsAreFunded`:
  when no two notes are melted into one invoice (`OneNotePerInvoice`, which
  `melt_two_notes` shows to be needed), a spent note was swapped or paid out.
  The invariant says what each program point knows: a task about to finalize
  a note has seen its payment settle, and every payment, reservation and
  snapshot entry goes back to a request for that note and invoice.
  `SettledReportsAreHonest` assumes nothing: whoever is about to mark a melt
  settled has seen its payment settle and its note burned, and a reconcile
  task settles no hash that had no note in its snapshot. `RegistryIsExact`
  assumes finitely many requests: the registry of an invoice is the
  cardinality of the set of live melts that name it, which one start adds to
  and one end takes from.
- `MeltPayout_proofs`: `NoteValueLeavesOnce`, `NotesAreHeld` and
  `ReleasedOnFailureOnly` from the invariant `PayoutInv`, for `UndisturbedSpec`:
  a note may be melted again and again, swapped after a restore, invoices may be
  shared, and the node may report a payment it has not registered as failed. What
  is assumed is that no step disturbs a reconcile pass (`Undisturbed`), in two
  parts: no note is reserved anew while a pass still has it in its snapshot
  (`melt_stale` shows that it is needed), and no pass takes up a melt between
  `mark_pending` and `_track_melt_start` (`melt_gap` does). The code guarantees
  neither; the theorems say that nothing else goes wrong. `NoDoublePayout` alone
  says nothing of a task about to act, so the invariant adds that a melt from
  its reservation on has its note to itself (`HoldsAlone`), that what a pass has
  still to visit is reserved as it read it or not at all (`SnapshotsCurrent`)
  and no request is at work on what it visits (`ReconcileAlone`, which rests on
  `RegistryExact`), that whoever is about to restore a note has seen its payment
  fail (`RestoresConfirmed`), and that a note has one payment that can move
  funds, and a swapped one none (`OnePayment`).
  `MeltsImplementLedger`, in the same module: with `OneNotePerInvoice` as well,
  each step of `Melt` maps to a step or a stutter of `NotePayout`.
- `Issuance_proofs`: `TypeCorrect`; `CreditsAreExclusive`,
  `PaymentsAreCredited`, `RetriesAreAnswered` and `LookupsAreUnambiguous` from
  the invariant `IssuanceInv`; `NotesAreKept`; `NotesAreMadeOnce`. The invariant
  adds what the properties do not say of work in progress: an invoice about to
  be recorded is held by one request and has no record, a lookup about to settle
  holds a paid and recorded invoice, a payment hash named as an output is on
  record, and burned notes are spent. `NotesAreMadeOnce` adds that an id without
  a row has no origin yet. They hold whatever happens to the names, and are
  theorems of `Spec`: crashes between blocks. `OnlyLookupsOrphanNotes`
  is `OutstandingHasMint` for behaviours in which no mint is deleted while a
  lookup of one of its records is under way (`NoDeleteDuringLookup`), the race
  `issuance_orphan` shows: a swap cannot orphan a note, for it burns one that
  `delete_mint` would have seen.
- `Value_proofs`, for any number of invoices, outputs, requests and inputs:
  - `MintFeeIsCovering` (rounding up shorts the mint of nothing and costs the
    payer less than a sat) and `MinimumIsAccepted`, whose least element comes
    from the well-foundedness of `<` on the naturals.
  - `TypeCorrect`, which says that nothing gets a negative value: neither the
    change of a split nor what `_pay_callback` promises. `NotesKeepWorth` adds
    that a promise once made is of worth.
  - `ValueIsNotMade`: `BaseFeePerNote` for every behaviour in which the base fee
    is never raised, nor lowered while a request is between the settings and the
    notes it reads (`SpecNotRaised`); the other fee, the limits and the sunset
    may change at any time, and the base fee may be lowered before the swap of
    what was read. The sums of `BaseFeePerNote` say nothing of work in
    progress, and not at which fee a note was made. So the invariant, `Covered`,
    says that there is a `cover`: a part of what was paid in that stands
    behind each note, fixed when the note is made, which covers its value and a
    base fee (`NotesCovered`, `PromisesCovered`), and for each note a request
    has read covers its value and the base fee the request read, which is at
    least the current one (`RequestsCovered`): what the request will refund was
    paid. No column holds the cover, hence
    the existential: a mint puts the amount asked for behind its note, and a
    swap shares what stood behind the notes it burns among those it makes.
    A raise breaks it, and so does a note minted under a lower base fee than the
    request that reads it (see Assumptions). Notes keep their rows; that each
    is burned once is what `swap()` looks at again. The theorem assumes finitely
    many invoices and outputs, without which the sums mean nothing.
    `SteadyFeeMakesNoValue` is the case of one base fee, for `Spec`.
  - `MintIsNeverShort`: `Solvent`, under the same assumptions, when payers ask
    for whole sats, which `value_fractions` shows to be needed.
  - `NotesFollowPayout`, for any settings: each step takes notes along the way
    of `NotePayout`, which `Melt` implements, or credits the note of a paid
    invoice that was not on file. So `Value` and `Melt` speak of one life of
    a note.
- `SumTheorems`, what the last ones rest on: `SumFunctionOnSet` of the community
  modules adds up a finite set, whatever order it picks the elements in, so a
  sum takes one element more, splits over two disjoint sets, follows an
  injective sequence, and grows with its terms, by a constant more per element too. Induction over finite sets is done by a least
  counterexample: if some subset of a finite set fails, one fails of which no
  proper subset does (`LeastCounterexample`), since strict inclusion is well
  founded there.
- `Spend_proofs`, about the operators, for every note, spend, host and time:
  `OpenedOnTime` (an accepted script path meets every lock of its leaf, with the
  interpreter and without), `StillAccepted` (what is accepted now is accepted
  later) and `KernelAgrees` (what is accepted without the interpreter is
  accepted with it).
- `Timing_proofs`: `TypeCorrect`; `ReceiptsMeanPaid` and `NoReceiptSentTwice`
  from `ZapsInv`, which says what the task holds: the zap it is publishing is
  minted and was unpublished when it was listed. `SpendsStayGood` and
  `LocksAreHonoured` from the lemmas of `Spend_proofs`: the clock does not go
  back, and a row keeps its `locked_at`.
- `Usernames_proofs`: `SerialRequestsAreProved`: however many requests claim,
  overwrite and free names at once, as long as none looks at a name that another
  is about to write (`SerialSpec`), a name changes hands or is freed only by a
  proof of the branch on file: the invariant keeps, for each request about to
  write, its proof good against what is on file. `name_race` shows that the
  assumption is needed.

Every invariant and every action property the passing runs check is stated by
one of these theorems. Only model-checked: liveness (`ResolvedIsBooked`,
`ZapsReceipted`), which the prover does not do under fairness.

## Assumptions

- A `db.connect()` block is not interleaved with another (the lock of LNbits),
  and a database statement that is reached does not fail, except where an
  action says so.
- The funding source pays a hash at most once, and reports a resolved payment
  as it is or not at all. `UnregisteredIsFailed` says whether it may report a
  payment it does not know yet as failed; the runs have both.
- The base fee is not raised while notes are out, and not lowered while a request
  is between the settings and the notes it reads (`SpecNotRaised`). A merge refunds at the base
  fee of the settings read at `views_lnurl.py:702`, whatever its notes paid:
  after a raise it hands back more than was paid in, which the tests know as an
  operator footgun (`tests/test_poc_fee_conservation.py:490-511`). The other way
  round takes a race no test has: a merge reads a base fee of 1000, the operator
  drops it, two notes are minted without it and read by the merge (lines
  736-740), and it refunds a fee they never paid (line 858). `TLC` finds it in the
  instance of `value_fees` when `ReadsAreCurrent` is left out.
- A restart takes longer than the node takes to register, or lose, what it was
  handed (`Crash`).
- Payment hashes are random: no key or note id equals one before the invoice is
  disclosed (`Nameable`, `branchKey`). The keys of a branch do not repeat.
- Melt invoices carry a payment hash, as BOLT-11 requires; the branches of
  `_melt_pay` for one without are left out. Melts into an invoice of the same
  mint are refused by `CheckMelt`; the instances have none.
- Reconcile always finds the mint of a pending note: `delete_mint` refuses
  while one is unspent.
- The wall clock does not go back (`Timing`), and there is one zap task.
  `int(time.time())` is read once per check.
- A mint has one registered name in `Issuance`; names are taken apart from each
  other by their keys, which the instance lets collide all the same.

## Not modelled

- `max_mintable_msat` and `_melt_fee_limit_msat`, which are advertised and
  logged but decide nothing. A maximum below the advertised minimum
  (`max_sendable_msat` under `min_mint_msat` plus fee, which `CreateMint` allows)
  is excepted in `AdvertisedMinimumAccepted`, as is a walk that finds no amount
  and raises.
- Keys, hashes, signatures, taproot commitments, branch derivation, bech32m and
  JSON: pure functions. `Spend` has what they decide; a request whose spend does
  not parse, or does not open its note, changes nothing.
- The preimage gate of `/verify` and NIP-05: they read and answer. The read of
  `next_index` by the pay page is a hint, re-read by `claim_next_index`.
- Expiry of invoices, rate limits, pages, read-only queries. A database that
  fails between statements other than by a crash.
- Migrations, which run before the program serves. `m004` has no test for a
  restart half way: it rewrites note ids row by row (`migrations.py:226`), and
  where each statement commits, a process that dies before the version is
  stored runs it again and rewrites ids it has already rewritten, which no
  spend opens. It is listed as a hazard without a property.

Read on the way, and not a state change of any model: the pay callback of a
mint's own name is called without the username and branch `_pay_callback`
requires (`views_lnurl.py:488`), so it raises before it does anything; a zap
request with an empty tag is accepted, and building its receipt raises, which
ends its mint's turn in every round (`Zaps`: `Blocked`, `ReceiptRaises`, and the
condition of `ZapsReceipted`); and a receipt for which neither the zap request
nor the mint names a relay is built and published to nobody in every round
(`services.py:604-611`).

## Plan

Done: `Melt`, `NotePayout`, `Issuance` with changing branches, `Value` with
sub-sat amounts, `Usernames`, `Spend`, `Zaps`, `Timing`, and their proofs. What
is left, in this order:

1. **`Value` refined**: the mint and swap steps of `Issuance` and the melts of
   `Melt` shown to be the steps `Value` abstracts (`NotesFollowPayout` does it
   for what becomes of a note).
2. **`m004` and a restart**: rows rewritten one by one, a crash between two, and
   what a rewritten id is worth.
3. **The preimage gate** of `/verify`, composed with `Issuance`: no preimage is
   shown while it opens an unspent note.
