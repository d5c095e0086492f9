-------------------------------- MODULE Melt --------------------------------
(***************************************************************************)
(* Paying a note out over Lightning ("melt") in the lnurlmint extension:   *)
(* the /w/cb handler that reserves the note, the background task that pays *)
(* the invoice and settles the note on a three-valued outcome, the boot    *)
(* and periodic reconcile tasks, the rotate/split/merge handler that       *)
(* competes for the same notes, and process crashes.                       *)
(*                                                                         *)
(* A step of this module is one uninterrupted stretch between two awaits:  *)
(* one database block, one use of the in-flight registry's lock, or one    *)
(* call to the Lightning node.  Everything else interleaves.               *)
(***************************************************************************)
EXTENDS Naturals, FiniteSets

CONSTANTS
  NoteIds,              \* note ids, hex(Q)
  IssuedNotes,          \* the notes already on file at the start
  Hashes,               \* payment hashes of the invoices melts name
  OwnInvoices,          \* the hashes of invoices this mint issued itself
  Melts,                \* melt requests, each handled at most once
  noteOf,               \* the note a request spends
  hashOf,               \* the payment hash of the invoice a request names
  Recs,                 \* reconcile tasks: a subset of {"boot", "periodic"}
  UnregisteredIsFailed, \* does the node report a payment it does not know
                        \* (yet) as failed (lnd 404), or as pending
  MaxCrashes,           \* bound on crashes of the process
  NoHash, NoNote        \* SQL NULL

ASSUME ConstantsAssumption ==
  /\ IssuedNotes \subseteq NoteIds
  /\ OwnInvoices \subseteq Hashes
  /\ noteOf \in [Melts -> NoteIds]
  /\ hashOf \in [Melts -> Hashes]
  /\ Recs \subseteq {"boot", "periodic"}
  /\ UnregisteredIsFailed \in BOOLEAN
  /\ MaxCrashes \in Nat
  /\ NoHash \notin Hashes
  /\ NoNote \notin NoteIds

VARIABLES
  status,    \* notes: no row, or its spent column
  reserved,  \* notes.pending_payment_hash, NoHash when pending = 0
  burns,     \* burns.burn_key: the sets of notes swapped away together
  melts,     \* melts: no row, or its settled column
  inFlight,  \* _in_flight_melts: the refcount of each payment hash
  node,      \* the outgoing payment of each hash, as the node has it
  payer,     \* the note on whose behalf that payment is made
  pc,        \* where each melt request is
  rpc,       \* where each reconcile task is
  snap,      \* the pending melts a reconcile pass read and has not visited
  cur,       \* the payment hash a reconcile task is working on
  crashes    \* crashes so far

database == <<status, reserved, burns, melts>>
lightning == <<node, payer>>
reconcile == <<rpc, snap, cur>>
vars == <<database, inFlight, lightning, pc, reconcile, crashes>>

NodeStates == {"none", "sending", "inflight", "settled", "failed"}
Answers == {"paid", "failed", "unclear"}

\* A request between _track_melt_start and the end of _melt_pay.
TrackedSteps == {"tracked", "scheduled", "paying", "confirming",
                 "finalizing", "settling", "restoring", "ending"}
Steps == {"idle", "checked", "reserved", "refused", "done", "crashed"}
           \cup TrackedSteps
RecSteps == {"idle", "scanning", "confirming", "finalizing", "settling",
             "restoring", "ended"}

EmptySnapshot == [h \in Hashes |-> {}]

Init ==
  /\ status = [n \in NoteIds |-> IF n \in IssuedNotes THEN "live" ELSE "absent"]
  /\ reserved = [n \in NoteIds |-> NoHash]
  /\ burns = {}
  /\ melts = [h \in Hashes |-> "none"]
  /\ inFlight = [h \in Hashes |-> 0]
  /\ node = [h \in Hashes |-> "none"]
  /\ payer = [h \in Hashes |-> NoNote]
  /\ pc = [m \in Melts |-> "idle"]
  /\ rpc = [r \in Recs |-> "idle"]
  /\ snap = [r \in Recs |-> EmptySnapshot]
  /\ cur = [r \in Recs |-> NoHash]
  /\ crashes = 0

(***************************************************************************)
(* The statements of crud.py that settle a melt.  Neither checks why the   *)
(* note is pending: both work by note id alone.                            *)
(***************************************************************************)
Unreserve(ns) ==
  reserved' = [n \in NoteIds |-> IF n \in ns THEN NoHash ELSE reserved[n]]

\* Fault: the reservation is dropped, spent is not set.
FinalizeWithoutBurn(ns) == Unreserve(ns) /\ UNCHANGED status

\* Fault: spent is set, the reservation stays.
FinalizeKeepsPending(ns) ==
  /\ status' = [n \in NoteIds |-> IF n \in ns THEN "spent" ELSE status[n]]
  /\ UNCHANGED reserved

FinalizeMelt(ns) ==
  /\ status' = [n \in NoteIds |-> IF n \in ns THEN "spent" ELSE status[n]]
  /\ Unreserve(ns)

\* Fault: restore also clears the spent column.
RestoreUnspends(ns) ==
  /\ Unreserve(ns)
  /\ status' = [n \in NoteIds |-> IF n \in ns THEN "live" ELSE status[n]]

Restore(ns) ==
  /\ Unreserve(ns)
  /\ UNCHANGED status

MarkMeltSettled(h) ==
  melts' = [melts EXCEPT ![h] = IF @ = "none" THEN @ ELSE "settled"]

\* Fault: the entry is kept.
TrackEndLeaks(h) == inFlight' = [inFlight EXCEPT ![h] = @]

\* Fault: the first end drops the entry, whoever else is on the hash.
TrackEndDrops(h) == inFlight' = [inFlight EXCEPT ![h] = 0]

MeltTrackEnd(h) ==
  inFlight' = [inFlight EXCEPT ![h] = IF @ > 1 THEN @ - 1 ELSE 0]

\* What check_transaction_status may answer about a payment: a resolved one
\* is reported as it is or not at all, one the node has not registered may be
\* taken for a failed one.
Reports(h, answer) ==
  \/ answer = "unclear"
  \/ answer = "paid" /\ node[h] = "settled"
  \/ answer = "failed" /\ node[h] = "failed"
  \/ /\ answer = "failed"
     /\ UnregisteredIsFailed
     /\ node[h] \in {"none", "sending"}

Goto(m, from, to) ==
  /\ pc[m] = from
  /\ pc' = [pc EXCEPT ![m] = to]

(***************************************************************************)
(* The melt branch of get_withdraw_callback.                               *)
(***************************************************************************)

\* The note is on file and unspent, the invoice is not the mint's own and no
\* earlier melt is on record for its hash.  A request refused here leaves no
\* trace.
CheckMelt(m) ==
  /\ Goto(m, "idle", "checked")
  /\ status[noteOf[m]] = "live"
  /\ hashOf[m] \notin OwnInvoices
  /\ melts[hashOf[m]] = "none"
  /\ UNCHANGED <<database, inFlight, lightning, reconcile, crashes>>

\* Fault: a pending note may be swapped or melted again.
UnspentIsEnough(n) == status[n] = "live"

Reservable(n) == status[n] = "live" /\ reserved[n] = NoHash

MarkPending(m) ==
  /\ Goto(m, "checked", "reserved")
  /\ Reservable(noteOf[m])
  /\ reserved' = [reserved EXCEPT ![noteOf[m]] = hashOf[m]]
  /\ UNCHANGED <<status, burns, melts, inFlight, lightning, reconcile, crashes>>

RefuseMelt(m) ==
  /\ Goto(m, "checked", "refused")
  /\ ~Reservable(noteOf[m])
  /\ UNCHANGED <<database, inFlight, lightning, reconcile, crashes>>

TrackStart(m) ==
  /\ Goto(m, "reserved", "tracked")
  /\ inFlight' = [inFlight EXCEPT ![hashOf[m]] = @ + 1]
  /\ UNCHANGED <<database, lightning, reconcile, crashes>>

RecordMelt(m) ==
  /\ Goto(m, "tracked", "scheduled")
  /\ melts' = [melts EXCEPT ![hashOf[m]] = IF @ = "none" THEN "unsettled" ELSE @]
  /\ UNCHANGED <<status, reserved, burns, inFlight, lightning, reconcile, crashes>>

\* record_melt raises: the registry entry goes, the reservation stays.
RecordFails(m) ==
  /\ Goto(m, "tracked", "ending")
  /\ UNCHANGED <<database, inFlight, lightning, reconcile, crashes>>

(***************************************************************************)
(* _melt_pay, the background task of an accepted melt.                     *)
(***************************************************************************)

\* pay_invoice sends the payment out, unless one for this hash is on its way
\* or was made: the funding source pays a hash once.
PayInvoice(m) ==
  /\ Goto(m, "scheduled", "paying")
  /\ node[hashOf[m]] \in {"none", "failed"}
  /\ node' = [node EXCEPT ![hashOf[m]] = "sending"]
  /\ payer' = [payer EXCEPT ![hashOf[m]] = noteOf[m]]
  /\ UNCHANGED <<database, inFlight, reconcile, crashes>>

\* pay_invoice raises without sending anything: the hash is taken, or the
\* payment was refused up front (no balance, no route), which leaves a failed
\* payment on file or none.
PayRefused(m) ==
  /\ Goto(m, "scheduled", "confirming")
  /\ \E s \in {node[hashOf[m]], "failed"} :
       /\ node[hashOf[m]] # "none" => s = node[hashOf[m]]
       /\ node' = [node EXCEPT ![hashOf[m]] = s]
  /\ UNCHANGED <<database, inFlight, payer, reconcile, crashes>>

\* Fault: a pending payment returned by pay_invoice counts as a success.
PayReturnsIsSuccess(m) ==
  /\ Goto(m, "paying", "finalizing")
  /\ node[hashOf[m]] # "sending"
  /\ UNCHANGED <<database, inFlight, lightning, reconcile, crashes>>

PaySucceeds(m) ==
  /\ Goto(m, "paying", "finalizing")
  /\ node[hashOf[m]] = "settled"
  /\ UNCHANGED <<database, inFlight, lightning, reconcile, crashes>>

\* Fault: the note is restored on a raise alone.
RaiseRestores(m) ==
  /\ Goto(m, "paying", "restoring")
  /\ node[hashOf[m]] # "sending"
  /\ UNCHANGED <<database, inFlight, lightning, reconcile, crashes>>

\* pay_invoice raises, or returns a payment that is still pending.
PayUnclear(m) ==
  /\ Goto(m, "paying", "confirming")
  /\ node[hashOf[m]] # "sending"
  /\ UNCHANGED <<database, inFlight, lightning, reconcile, crashes>>

\* Fault: no answer is taken for a failure.
UnclearIsFailed(answer) == IF answer = "paid" THEN "finalizing" ELSE "restoring"

\* Where an answer of _confirm_payment takes the task.
AfterAnswer(answer) ==
  IF answer = "paid" THEN "finalizing"
  ELSE IF answer = "failed" THEN "restoring" ELSE "ending"

ConfirmMelt(m, answer) ==
  /\ Reports(hashOf[m], answer)
  /\ Goto(m, "confirming", AfterAnswer(answer))
  /\ UNCHANGED <<database, inFlight, lightning, reconcile, crashes>>

FinalizeNote(m) ==
  /\ Goto(m, "finalizing", "settling")
  /\ FinalizeMelt({noteOf[m]})
  /\ UNCHANGED <<burns, melts, inFlight, lightning, reconcile, crashes>>

SettleMelt(m) ==
  /\ Goto(m, "settling", "ending")
  /\ MarkMeltSettled(hashOf[m])
  /\ UNCHANGED <<status, reserved, burns, inFlight, lightning, reconcile, crashes>>

RestoreNote(m) ==
  /\ Goto(m, "restoring", "ending")
  /\ Restore({noteOf[m]})
  /\ UNCHANGED <<burns, melts, inFlight, lightning, reconcile, crashes>>

TrackEnd(m) ==
  /\ Goto(m, "ending", "done")
  /\ MeltTrackEnd(hashOf[m])
  /\ UNCHANGED <<database, lightning, reconcile, crashes>>

(***************************************************************************)
(* The Lightning node.  A payment it was handed is unknown to it until it  *)
(* is registered, and may then stay in flight for as long as it likes.     *)
(***************************************************************************)
NodeStep(h, from, to) ==
  /\ node[h] \in from
  /\ node' = [node EXCEPT ![h] = to]
  /\ UNCHANGED <<database, inFlight, payer, pc, reconcile, crashes>>

NodeRegisters(h) == NodeStep(h, {"sending"}, "inflight")
NodeSettles(h) == NodeStep(h, {"inflight"}, "settled")
NodeFails(h) == NodeStep(h, {"sending", "inflight"}, "failed")

(***************************************************************************)
(* reconcile_pending_melts, run once at boot and then by a periodic task,  *)
(* side by side.                                                           *)
(***************************************************************************)
RecGoto(r, from, to) ==
  /\ rpc[r] = from
  /\ rpc' = [rpc EXCEPT ![r] = to]

PendingMelts == [h \in Hashes |-> {n \in NoteIds : status[n] = "live" /\ reserved[n] = h}]

RecSnapshot(r) ==
  /\ RecGoto(r, "idle", "scanning")
  /\ snap' = [snap EXCEPT ![r] = PendingMelts]
  /\ UNCHANGED <<database, inFlight, lightning, pc, cur, crashes>>

RecSkip(r, h) ==
  /\ rpc[r] = "scanning"
  /\ snap[r][h] # {}
  /\ inFlight[h] > 0
  /\ snap' = [snap EXCEPT ![r][h] = {}]
  /\ UNCHANGED <<database, inFlight, lightning, pc, rpc, cur, crashes>>

RecVisit(r, h) ==
  /\ RecGoto(r, "scanning", "confirming")
  /\ snap[r][h] # {}
  /\ inFlight[h] = 0
  /\ cur' = [cur EXCEPT ![r] = h]
  /\ UNCHANGED <<database, inFlight, lightning, pc, snap, crashes>>

\* The pass is done with the hash it was working on.
NextMelt(r) ==
  /\ snap' = [snap EXCEPT ![r][cur[r]] = {}]
  /\ cur' = [cur EXCEPT ![r] = NoHash]

RecAnswered(r, answer) ==
  /\ RecGoto(r, "confirming", AfterAnswer(answer))
  /\ answer # "unclear"
  /\ Reports(cur[r], answer)
  /\ UNCHANGED <<database, inFlight, lightning, pc, snap, cur, crashes>>

RecUnclear(r) ==
  /\ RecGoto(r, "confirming", "scanning")
  /\ NextMelt(r)
  /\ UNCHANGED <<database, inFlight, lightning, pc, crashes>>

RecFinalize(r) ==
  /\ RecGoto(r, "finalizing", "settling")
  /\ FinalizeMelt(snap[r][cur[r]])
  /\ UNCHANGED <<burns, melts, inFlight, lightning, pc, snap, cur, crashes>>

RecSettle(r) ==
  /\ RecGoto(r, "settling", "scanning")
  /\ MarkMeltSettled(cur[r])
  /\ NextMelt(r)
  /\ UNCHANGED <<status, reserved, burns, inFlight, lightning, pc, crashes>>

RecRestore(r) ==
  /\ RecGoto(r, "restoring", "scanning")
  /\ Restore(snap[r][cur[r]])
  /\ NextMelt(r)
  /\ UNCHANGED <<burns, melts, inFlight, lightning, pc, crashes>>

\* boot_reconcile makes one pass, the periodic task starts over.
RecDone(r) ==
  /\ RecGoto(r, "scanning", IF r = "boot" THEN "ended" ELSE "idle")
  /\ snap[r] = EmptySnapshot
  /\ UNCHANGED <<database, inFlight, lightning, pc, snap, cur, crashes>>

(***************************************************************************)
(* A rotate, split or merge: swap() checks and burns in one database       *)
(* block.  A retry of one already done (find_burn) changes nothing.        *)
(***************************************************************************)
Swap(burned, minted) ==
  /\ burned # {}
  /\ \A n \in burned : Reservable(n)
  /\ Cardinality(minted) \in 1..2
  /\ \A n \in minted : status[n] = "absent"
  /\ status' = [n \in NoteIds |-> IF n \in burned THEN "spent"
                                  ELSE IF n \in minted THEN "live"
                                  ELSE status[n]]
  /\ burns' = burns \cup {burned}
  /\ UNCHANGED <<reserved, melts, inFlight, lightning, pc, reconcile, crashes>>

(***************************************************************************)
(* The process dies and restarts.  The database and the node keep what     *)
(* they have; requests, tasks and the registry are gone.  A payment on its *)
(* way to the node arrives or is lost before the restart is over.          *)
(***************************************************************************)
Running(m) == pc[m] \notin {"idle", "refused", "done", "crashed"}

Crash ==
  /\ crashes < MaxCrashes
  /\ crashes' = crashes + 1
  /\ \E lost \in SUBSET {h \in Hashes : node[h] = "sending"} :
       node' = [h \in Hashes |-> IF node[h] # "sending" THEN node[h]
                                 ELSE IF h \in lost THEN "failed" ELSE "inflight"]
  /\ inFlight' = [h \in Hashes |-> 0]
  /\ pc' = [m \in Melts |-> IF Running(m) THEN "crashed" ELSE pc[m]]
  /\ rpc' = [r \in Recs |-> "idle"]
  /\ snap' = [r \in Recs |-> EmptySnapshot]
  /\ cur' = [r \in Recs |-> NoHash]
  /\ UNCHANGED <<database, payer>>

-----------------------------------------------------------------------------
MeltStep(m) ==
  \/ CheckMelt(m) \/ MarkPending(m) \/ RefuseMelt(m)
  \/ TrackStart(m) \/ RecordMelt(m) \/ RecordFails(m)
  \/ PayInvoice(m) \/ PayRefused(m) \/ PaySucceeds(m) \/ PayUnclear(m)
  \/ \E answer \in Answers : ConfirmMelt(m, answer)
  \/ FinalizeNote(m) \/ SettleMelt(m) \/ RestoreNote(m) \/ TrackEnd(m)

NodeMoves(h) == NodeRegisters(h) \/ NodeSettles(h) \/ NodeFails(h)

RecStep(r) ==
  \/ RecSnapshot(r)
  \/ \E h \in Hashes : RecSkip(r, h) \/ RecVisit(r, h)
  \/ \E answer \in Answers : RecAnswered(r, answer)
  \/ RecUnclear(r) \/ RecFinalize(r) \/ RecSettle(r) \/ RecRestore(r) \/ RecDone(r)

Next ==
  \/ \E m \in Melts : MeltStep(m)
  \/ \E h \in Hashes : NodeMoves(h)
  \/ \E r \in Recs : RecStep(r)
  \/ \E burned \in SUBSET {n \in NoteIds : Reservable(n)},
        minted \in SUBSET {n \in NoteIds : status[n] = "absent"} : Swap(burned, minted)
  \/ Crash

Spec == Init /\ [][Next]_vars

(***************************************************************************)
(* What neither the database blocks nor the registry rule out, and the     *)
(* code therefore relies on: no note is reserved anew while a reconcile    *)
(* pass still has it in its snapshot, and no pass takes up a melt that is  *)
(* reserved and not registered yet.                                        *)
(***************************************************************************)
InSnapshot(n) == \E r \in Recs, h \in Hashes : n \in snap[r][h]

Undisturbed ==
  /\ \A m \in Melts : InSnapshot(noteOf[m]) => ~MarkPending(m)
  /\ \A m \in Melts, r \in Recs :
       pc[m] = "reserved" /\ noteOf[m] \in snap[r][hashOf[m]] => ~RecVisit(r, hashOf[m])

(***************************************************************************)
(* The event loop runs every task that can go on: a request once accepted, *)
(* its background task, and the reconcile tasks.  pay_invoice returns in   *)
(* bounded time.  The node registers what it was sent, and a reconcile     *)
(* task that keeps asking about a resolved payment is told in the end.     *)
(* No request has to arrive and the node need not resolve any payment.     *)
(***************************************************************************)
Fairness ==
  /\ \A m \in Melts : WF_vars(MeltStep(m) /\ pc[m] # "idle")
  /\ \A h \in Hashes : WF_vars(NodeRegisters(h))
  /\ \A r \in Recs : WF_vars(RecStep(r))
  /\ \A r \in Recs, h \in Hashes :
       SF_vars(cur[r] = h /\ \E answer \in Answers : RecAnswered(r, answer))

UndisturbedSpec == Init /\ [][Next /\ Undisturbed]_vars
FairUndisturbedSpec == UndisturbedSpec /\ Fairness

-----------------------------------------------------------------------------
(***************************************************************************)
(* Properties.                                                             *)
(***************************************************************************)
RecBusy(r) == rpc[r] \in {"confirming", "finalizing", "settling", "restoring"}

\* The columns, the registry and the tasks hold what the code can put there.
\* Only a note on file and unspent is reserved: mark_pending, finalize_melt and
\* swap keep the pending and spent columns apart.
TypeOK ==
  /\ status \in [NoteIds -> {"absent", "live", "spent"}]
  /\ reserved \in [NoteIds -> Hashes \cup {NoHash}]
  /\ \A n \in NoteIds : reserved[n] # NoHash => status[n] = "live"
  /\ burns \subseteq SUBSET NoteIds
  /\ melts \in [Hashes -> {"none", "unsettled", "settled"}]
  /\ inFlight \in [Hashes -> Nat]
  /\ node \in [Hashes -> NodeStates]
  /\ payer \in [Hashes -> NoteIds \cup {NoNote}]
  /\ pc \in [Melts -> Steps]
  /\ rpc \in [Recs -> RecSteps]
  /\ snap \in [Recs -> [Hashes -> SUBSET NoteIds]]
  /\ cur \in [Recs -> Hashes \cup {NoHash}]
  /\ \A r \in Recs : RecBusy(r) <=> cur[r] # NoHash
  /\ crashes \in 0..MaxCrashes

\* No two notes are melted into the same invoice.
OneNotePerInvoice ==
  \A m1, m2 \in Melts : hashOf[m1] = hashOf[m2] => noteOf[m1] = noteOf[m2]

\* A payment made for the note can still take funds out, or has.
Unresolved(h, n) == payer[h] = n /\ node[h] \in {"sending", "inflight", "settled"}

Swapped(n) == n \in UNION burns
PaysOut(h, n) == node[h] = "settled" /\ payer[h] = n
PaidOut(n) == \E h \in Hashes : PaysOut(h, n)

\* The value of a note leaves the mint once: no note is both swapped for
\* another and paid out, none is paid out to two invoices.
NoDoublePayout ==
  \A n \in NoteIds :
    /\ ~(Swapped(n) /\ PaidOut(n))
    /\ \A h1, h2 \in Hashes : PaysOut(h1, n) /\ PaysOut(h2, n) => h1 = h2

\* A note is burned only for value: it was swapped, or a payment made on its
\* own behalf went through ("confirm before burn").
FundedBurn ==
  \A n \in NoteIds : status[n] = "spent" => Swapped(n) \/ PaidOut(n)

\* While a payment made for a note can still take funds out, or has, the note
\* is reserved for exactly that payment or burned.
HeldWhileUnresolved ==
  \A h \in Hashes, n \in NoteIds :
    Unresolved(h, n) =>
      reserved[n] = h \/ (status[n] = "spent" /\ node[h] = "settled")

\* The registry counts the melts being handled, so reconcile skips exactly
\* those: no entry leaks and none is missing.
RegistryExact ==
  \A h \in Hashes :
    inFlight[h] = Cardinality({m \in Melts : hashOf[m] = h /\ pc[m] \in TrackedSteps})

\* A melt is reported settled only when its payment went through and the note
\* on record for it is burned.
SettledHonest ==
  \A h \in Hashes : melts[h] = "settled" =>
    /\ node[h] = "settled"
    /\ \E m \in Melts : hashOf[m] = h /\ status[noteOf[m]] = "spent"

\* A spent note stays spent, a note on file stays on file.
SpentIsForever ==
  [][\A n \in NoteIds : /\ status[n] = "spent" => status'[n] = "spent"
                        /\ status[n] # "absent" => status'[n] # "absent"]_vars

\* A reservation is released unburned only once the payment made for it has
\* failed, or when none was made.
ReleaseOnlyAfterFailure ==
  [][\A n \in NoteIds, h \in Hashes :
       reserved[n] = h /\ reserved'[n] # h /\ status'[n] = "live"
         => ~Unresolved(h, n)]_vars

\* A note does not stay held for a payment that was settled or failed: it is
\* booked, unless its invoice is paid anew first.
HeldResolved(n, h) == reserved[n] = h /\ node[h] \in {"settled", "failed"}
ResolvedIsBooked ==
  \A n \in NoteIds, h \in Hashes : HeldResolved(n, h) ~> ~HeldResolved(n, h)

\* The abstract ledger, read off the tables and the node.
FateOf(n) ==
  IF status[n] = "absent" THEN "absent"
  ELSE IF PaidOut(n) THEN "paid"
  ELSE IF Swapped(n) THEN "swapped"
  ELSE IF Reservable(n) THEN "live"
  ELSE "committed"

Ledger == INSTANCE NotePayout WITH fate <- [n \in NoteIds |-> FateOf(n)]

\* Melts, reconcile, swaps and crashes implement the abstract ledger.
ImplementsLedger == Ledger!Spec
=============================================================================
