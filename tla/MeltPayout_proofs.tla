-------------------------- MODULE MeltPayout_proofs --------------------------
(***************************************************************************)
(* The value of a note leaves the mint once, a note is held while a        *)
(* payment for it is unresolved, and Melt implements the abstract ledger   *)
(* NotePayout: for any number of melts of a note, again and again after a  *)
(* restore, any number of melts into one invoice, whatever the node says   *)
(* of a payment it has not registered, and through crashes, as long as no  *)
(* step disturbs a reconcile pass (Undisturbed).                           *)
(***************************************************************************)
EXTENDS Melt_proofs

\* From mark_pending until the melt is settled, restored or given up.
Holding == {"reserved", "tracked", "scheduled", "paying", "confirming",
            "finalizing", "restoring"}
HoldsNote(m, n) == pc[m] \in Holding /\ noteOf[m] = n

\* The note of a melt under way is reserved for it, and no other melt has it.
HoldsAlone ==
  /\ \A m \in Melts : pc[m] \in Holding =>
       status[noteOf[m]] = "live" /\ reserved[noteOf[m]] = hashOf[m]
  /\ \A m, q \in Melts : pc[m] \in Holding /\ HoldsNote(q, noteOf[m]) => m = q

\* pay_invoice is under way for a payment the node has not registered.
SendingIsPaying ==
  \A h \in Hashes : node[h] = "sending" =>
    \E m \in Melts : pc[m] = "paying" /\ hashOf[m] = h /\ noteOf[m] = payer[h]

\* A note a pass still has to visit is reserved as the pass read it, or not at
\* all; nobody else is at work on the notes it is visiting.
SnapshotsCurrent ==
  \A r \in Recs, h \in Hashes : \A n \in snap[r][h] : reserved[n] \in {h, NoHash}
ReconcileAlone ==
  \A r \in Recs : RecBusy(r) =>
    \A n \in snap[r][cur[r]], m \in Melts : ~HoldsNote(m, n)

\* Whoever is about to restore a note has seen its payment fail.
RestoresConfirmed ==
  /\ \A m \in Melts : pc[m] = "restoring" => ~Unresolved(hashOf[m], noteOf[m])
  /\ \A r \in Recs : rpc[r] = "restoring" =>
       \A n \in snap[r][cur[r]] : ~Unresolved(cur[r], n)

\* One payment per note, none for a note that was swapped.
OnePayment ==
  \A n \in NoteIds :
    /\ Swapped(n) => status[n] = "spent" /\ \A h \in Hashes : ~Unresolved(h, n)
    /\ \A h, g \in Hashes : Unresolved(h, n) /\ Unresolved(g, n) => h = g

PayoutInv ==
  /\ TraceInv
  /\ RegistryExact
  /\ HoldsAlone
  /\ SendingIsPaying
  /\ SnapshotsCurrent
  /\ ReconcileAlone
  /\ RestoresConfirmed
  /\ OnePayment
  /\ HeldWhileUnresolved

LEMMA InitRegistry == Init => RegistryExact
<1> SUFFICES ASSUME Init, NEW h \in Hashes
             PROVE  inFlight[h] = Cardinality(Handled(h))
  BY DEF RegistryExact, Handled
<1>1. Handled(h) = {} /\ inFlight[h] = 0
  BY DEF Init, Handled, TrackedSteps
<1>2. QED
  BY <1>1, FS_EmptySet

LEMMA InitPayout == Init => PayoutInv
<1>1. Init => TraceInv /\ RegistryExact
  BY InitFunded, InitRegistry DEF FundedInv
<1>2. QED
  BY <1>1, ConstantsAssumption
     DEF Init, PayoutInv, Holding, HoldsNote, HoldsAlone, SendingIsPaying, SnapshotsCurrent,
         ReconcileAlone, RestoresConfirmed, OnePayment, HeldWhileUnresolved, Unresolved,
         Swapped, EmptySnapshot, RecBusy

-----------------------------------------------------------------------------
(***************************************************************************)
(* What a step can do to the payments, to a request and to the snapshots.  *)
(***************************************************************************)
\* The payments a step can touch: a request starts or refuses only its own,
\* and only from "scheduled".
LEMMA NodeChanges ==
  ASSUME TypeOK, [Next]_vars, NEW h \in Hashes
  PROVE  \/ node'[h] = node[h] /\ payer'[h] = payer[h]
         \/ /\ node[h] \in {"sending", "inflight"}
            /\ node'[h] \in {"inflight", "settled", "failed"}
            /\ payer'[h] = payer[h]
            /\ UNCHANGED <<status, reserved, burns>>
            /\ node'[h] = "settled" => node[h] = "inflight"
         \/ \E m \in Melts :
              /\ hashOf[m] = h
              /\ pc[m] = "scheduled"
              /\ pc'[m] \in {"paying", "confirming"}
              /\ UNCHANGED <<status, reserved, burns, rpc, cur>>
              /\ \/ node'[h] = "sending" /\ payer'[h] = noteOf[m]
                 \/ node'[h] \in {node[h], "failed"} /\ payer'[h] = payer[h]
<1> USE DEF TypeOK
<1>1. ASSUME NEW m \in Melts, MeltStep(m), hashOf[m] = h, PayInvoice(m) \/ PayRefused(m)
      PROVE  /\ pc[m] = "scheduled"
             /\ pc'[m] \in {"paying", "confirming"}
             /\ UNCHANGED <<status, reserved, burns, rpc, cur>>
             /\ \/ node'[h] = "sending" /\ payer'[h] = noteOf[m]
                \/ node'[h] \in {node[h], "failed"} /\ payer'[h] = payer[h]
  BY <1>1 DEF Goto, PayInvoice, PayRefused, database, reconcile
<1>2. ASSUME NEW m \in Melts, MeltStep(m),
             hashOf[m] # h \/ ~(PayInvoice(m) \/ PayRefused(m))
      PROVE  node'[h] = node[h] /\ payer'[h] = payer[h]
  BY <1>2, ConstantsAssumption DEF MeltStep, CheckMelt, MarkPending, RefuseMelt, TrackStart,
     RecordMelt, RecordFails, PayInvoice, PayRefused, PaySucceeds, PayUnclear,
     ConfirmMelt, FinalizeNote, SettleMelt, RestoreNote, TrackEnd, lightning
<1>3. ASSUME NEW h0 \in Hashes, NodeMoves(h0)
      PROVE  \/ node'[h] = node[h] /\ payer'[h] = payer[h]
             \/ /\ node[h] \in {"sending", "inflight"}
                /\ node'[h] \in {"inflight", "settled", "failed"}
                /\ payer'[h] = payer[h]
                /\ UNCHANGED <<status, reserved, burns>>
                /\ node'[h] = "settled" => node[h] = "inflight"
  BY <1>3 DEF NodeMoves, NodeRegisters, NodeSettles, NodeFails, NodeStep, database
<1>4. ASSUME NEW r \in Recs, RecStep(r)
      PROVE  UNCHANGED <<node, payer>>
  BY <1>4 DEF RecStep, RecSnapshot, RecSkip, RecVisit, RecAnswered, RecUnclear,
     RecFinalize, RecSettle, RecRestore, RecDone, lightning
<1>5. ASSUME NEW burned \in SUBSET NoteIds, NEW minted \in SUBSET NoteIds,
             Swap(burned, minted)
      PROVE  UNCHANGED <<node, payer>>
  BY <1>5 DEF Swap, lightning
<1>6. CASE Crash
  BY <1>6 DEF Crash, database
<1>7. CASE UNCHANGED vars
  BY <1>7 DEF vars, lightning
<1>8. QED
  BY <1>1, <1>2, <1>3, <1>4, <1>5, <1>6, <1>7 DEF Next

\* A payment for a note becomes unresolved only by pay_invoice.
LEMMA UnresolvedChanges ==
  ASSUME TypeOK, [Next]_vars, NEW h \in Hashes, NEW n \in NoteIds, Unresolved(h, n)'
  PROVE  \/ Unresolved(h, n)
         \/ \E m \in Melts : /\ hashOf[m] = h /\ noteOf[m] = n
                            /\ pc[m] = "scheduled" /\ pc'[m] \in {"paying", "confirming"}
                            /\ UNCHANGED <<status, reserved, burns, rpc, cur>>
BY NodeChanges DEF Unresolved

\* A request holds its note from mark_pending on.
LEMMA HoldingChanges ==
  ASSUME TypeOK, [Next]_vars, NEW m \in Melts, pc'[m] \in Holding
  PROVE  pc[m] \in Holding \/ MarkPending(m)
<1> USE DEF TypeOK, Holding
<1>1. ASSUME NEW q \in Melts, MeltStep(q)
      PROVE  pc[m] \in Holding \/ MarkPending(m)
  BY <1>1 DEF MeltStep, Goto, CheckMelt, MarkPending, RefuseMelt, TrackStart,
     RecordMelt, RecordFails, PayInvoice, PayRefused, PaySucceeds, PayUnclear,
     ConfirmMelt, AfterAnswer, FinalizeNote, SettleMelt, RestoreNote, TrackEnd
<1>2. ASSUME NEW h0 \in Hashes, NodeMoves(h0)
      PROVE  pc[m] \in Holding
  BY <1>2 DEF NodeMoves, NodeRegisters, NodeSettles, NodeFails, NodeStep
<1>3. ASSUME NEW r \in Recs, RecStep(r)
      PROVE  pc[m] \in Holding
  BY <1>3 DEF RecStep, RecSnapshot, RecSkip, RecVisit, RecAnswered, RecUnclear,
     RecFinalize, RecSettle, RecRestore, RecDone
<1>4. CASE Crash
  BY <1>4 DEF Crash, Running
<1>5. QED
  BY <1>1, <1>2, <1>3, <1>4 DEF Next, Swap, vars

\* A snapshot grows only when a pass reads the pending notes.
LEMMA SnapshotChanges ==
  ASSUME TypeOK, [Next]_vars, NEW r \in Recs, NEW h \in Hashes
  PROVE  snap'[r][h] \subseteq snap[r][h] \/ RecSnapshot(r)
<1> USE DEF TypeOK
<1>1. ASSUME NEW q \in Recs, RecStep(q)
      PROVE  snap'[r][h] \subseteq snap[r][h] \/ RecSnapshot(r)
  BY <1>1 DEF RecStep, RecSnapshot, RecSkip, RecVisit, RecAnswered, RecUnclear,
     RecFinalize, RecSettle, RecRestore, RecDone, NextMelt
<1>2. ASSUME NEW m \in Melts, MeltStep(m)
      PROVE  UNCHANGED snap
  BY <1>2 DEF MeltStep, CheckMelt, MarkPending, RefuseMelt, TrackStart, RecordMelt,
     RecordFails, PayInvoice, PayRefused, PaySucceeds, PayUnclear, ConfirmMelt,
     FinalizeNote, SettleMelt, RestoreNote, TrackEnd, reconcile
<1>3. ASSUME NEW h0 \in Hashes, NodeMoves(h0)
      PROVE  UNCHANGED snap
  BY <1>3 DEF NodeMoves, NodeRegisters, NodeSettles, NodeFails, NodeStep, reconcile
<1>4. CASE Crash
  BY <1>4 DEF Crash, EmptySnapshot
<1>5. QED
  BY <1>1, <1>2, <1>3, <1>4 DEF Next, Swap, vars, reconcile

\* A pass is busy with a melt it visits now or visited before.
LEMMA BusyChanges ==
  ASSUME TypeOK, [Next]_vars, NEW r \in Recs, RecBusy(r)'
  PROVE  \/ RecBusy(r) /\ cur'[r] = cur[r] /\ snap'[r] = snap[r]
         \/ \E h \in Hashes : RecVisit(r, h) /\ cur'[r] = h
<1> USE DEF TypeOK, RecBusy
<1>1. ASSUME NEW q \in Recs, RecStep(q)
      PROVE  \/ RecBusy(r) /\ cur'[r] = cur[r] /\ snap'[r] = snap[r]
             \/ \E h \in Hashes : RecVisit(r, h) /\ cur'[r] = h
  BY <1>1 DEF RecStep, RecGoto, RecSnapshot, RecSkip, RecVisit, RecAnswered, RecUnclear,
     RecFinalize, RecSettle, RecRestore, RecDone, NextMelt
<1>2. ASSUME NEW m \in Melts, MeltStep(m)
      PROVE  UNCHANGED reconcile
  BY <1>2 DEF MeltStep, CheckMelt, MarkPending, RefuseMelt, TrackStart, RecordMelt,
     RecordFails, PayInvoice, PayRefused, PaySucceeds, PayUnclear, ConfirmMelt,
     FinalizeNote, SettleMelt, RestoreNote, TrackEnd
<1>3. ASSUME NEW h0 \in Hashes, NodeMoves(h0)
      PROVE  UNCHANGED reconcile
  BY <1>3 DEF NodeMoves, NodeRegisters, NodeSettles, NodeFails, NodeStep
<1>4. ~Crash
  BY DEF Crash
<1>5. QED
  BY <1>1, <1>2, <1>3, <1>4 DEF Next, Swap, vars, reconcile

-----------------------------------------------------------------------------
(***************************************************************************)
(* What can happen to the columns of a note.                               *)
(***************************************************************************)
Reserves(n) ==
  \E m \in Melts : MarkPending(m) /\ noteOf[m] = n /\ reserved'[n] = hashOf[m]

FinalizedBy(n) ==
  \/ \E m \in Melts : pc[m] = "finalizing" /\ pc'[m] = "settling" /\ noteOf[m] = n
  \/ \E r \in Recs : rpc[r] = "finalizing" /\ n \in snap[r][cur[r]]

RestoredBy(n) ==
  \/ \E m \in Melts : pc[m] = "restoring" /\ pc'[m] = "ending" /\ noteOf[m] = n
  \/ \E r \in Recs : rpc[r] = "restoring" /\ n \in snap[r][cur[r]]

NoteChange(n) ==
  \/ UNCHANGED burns /\ Reservable(n) /\ Reserves(n) /\ status'[n] = status[n]
  \/ UNCHANGED burns /\ FinalizedBy(n) /\ status'[n] = "spent" /\ reserved'[n] = NoHash
  \/ UNCHANGED burns /\ RestoredBy(n) /\ status'[n] = status[n] /\ reserved'[n] = NoHash
  \/ /\ Reservable(n) /\ status'[n] = "spent" /\ reserved'[n] = NoHash
     /\ Swapped(n)'
  \/ /\ status[n] = "absent" /\ status'[n] = "live" /\ reserved'[n] = reserved[n]
     /\ Swapped(n)' => Swapped(n)

LEMMA NoteChanges ==
  ASSUME TypeOK, [Next]_vars, NEW n \in NoteIds
  PROVE  \/ status'[n] = status[n] /\ reserved'[n] = reserved[n] /\ (Swapped(n)' => Swapped(n))
         \/ NoteChange(n) /\ UNCHANGED <<node, payer>>
<1> USE DEF TypeOK
<1> DEFINE Goal == \/ /\ status'[n] = status[n] /\ reserved'[n] = reserved[n]
                      /\ Swapped(n)' => Swapped(n)
                   \/ NoteChange(n) /\ UNCHANGED <<node, payer>>
<1>1. ASSUME NEW m \in Melts, MeltStep(m)
      PROVE  Goal
  <2>1. CASE MarkPending(m)
    BY <2>1, ConstantsAssumption DEF MarkPending, Goto, NoteChange, Reserves, Swapped, lightning
  <2>2. CASE FinalizeNote(m)
    BY <2>2, ConstantsAssumption DEF FinalizeNote, FinalizeMelt, Unreserve, Goto, NoteChange,
       FinalizedBy, Swapped, lightning
  <2>3. CASE RestoreNote(m)
    BY <2>3, ConstantsAssumption DEF RestoreNote, Restore, Unreserve, Goto, NoteChange,
       RestoredBy, Swapped, lightning
  <2>4. CASE ~MarkPending(m) /\ ~FinalizeNote(m) /\ ~RestoreNote(m)
    <3>1. UNCHANGED <<status, reserved, burns>>
      BY <1>1, <2>4 DEF MeltStep, CheckMelt, RefuseMelt, TrackStart, RecordMelt,
         RecordFails, PayInvoice, PayRefused, PaySucceeds, PayUnclear, ConfirmMelt,
         SettleMelt, TrackEnd, database
    <3>2. QED
      BY <3>1 DEF Swapped
  <2>5. QED
    BY <2>1, <2>2, <2>3, <2>4
<1>2. ASSUME NEW h0 \in Hashes, NodeMoves(h0)
      PROVE  Goal
  BY <1>2 DEF NodeMoves, NodeRegisters, NodeSettles, NodeFails, NodeStep, database, Swapped
<1>3. ASSUME NEW r \in Recs, RecStep(r)
      PROVE  Goal
  <2>1. CASE RecFinalize(r)
    BY <2>1 DEF RecFinalize, FinalizeMelt, Unreserve, RecGoto, NoteChange, FinalizedBy,
       Swapped, lightning
  <2>2. CASE RecRestore(r)
    BY <2>2 DEF RecRestore, Restore, Unreserve, RecGoto, NoteChange, RestoredBy,
       Swapped, lightning
  <2>3. CASE ~RecFinalize(r) /\ ~RecRestore(r)
    <3>1. UNCHANGED <<status, reserved, burns>>
      BY <1>3, <2>3 DEF RecStep, RecSnapshot, RecSkip, RecVisit, RecAnswered, RecUnclear,
         RecSettle, RecDone, database
    <3>2. QED
      BY <3>1 DEF Swapped
  <2>4. QED
    BY <2>1, <2>2, <2>3
<1>4. ASSUME NEW burned \in SUBSET NoteIds, NEW minted \in SUBSET NoteIds,
             Swap(burned, minted)
      PROVE  Goal
  <2>1. /\ UNCHANGED <<reserved, node, payer>>
        /\ burns' = burns \cup {burned}
    BY <1>4 DEF Swap, lightning
  <2>2. CASE n \in burned
    <3>1. Reservable(n) /\ status'[n] = "spent" /\ reserved'[n] = NoHash
      BY <1>4, <2>1, <2>2 DEF Swap, Reservable
    <3>2. Swapped(n)'
      BY <2>1, <2>2 DEF Swapped
    <3>3. QED
      BY <2>1, <3>1, <3>2 DEF NoteChange
  <2>3. CASE n \notin burned
    <3>1. Swapped(n)' => Swapped(n)
      BY <2>1, <2>3 DEF Swapped
    <3>2. \/ status'[n] = status[n]
          \/ status[n] = "absent" /\ status'[n] = "live"
      BY <1>4, <2>3 DEF Swap
    <3>3. QED
      BY <2>1, <3>1, <3>2 DEF NoteChange
  <2>4. QED
    BY <2>2, <2>3
<1>5. CASE Crash
  BY <1>5 DEF Crash, database, Swapped
<1>6. CASE UNCHANGED vars
  BY <1>6 DEF vars, database, Swapped
<1>7. QED
  BY <1>1, <1>2, <1>3, <1>4, <1>5, <1>6 DEF Next


-----------------------------------------------------------------------------
(***************************************************************************)
(* Whoever works on a note works on it alone, for the payment it is        *)
(* reserved for.                                                           *)
(***************************************************************************)
LEMMA InvTypes ==
  ASSUME PayoutInv
  PROVE  /\ TypeOK
         /\ \A h \in Hashes : h # NoHash
         /\ \A m \in Melts : noteOf[m] \in NoteIds /\ hashOf[m] \in Hashes
         /\ \A r \in Recs : RecBusy(r) => cur[r] \in Hashes /\ snap[r][cur[r]] \subseteq NoteIds
BY ConstantsAssumption DEF PayoutInv, TraceInv, TypeOK

LEMMA NobodyElse ==
  ASSUME PayoutInv, NEW m \in Melts, pc[m] \in Holding, pc'[m] \in Holding
  PROVE  ~FinalizedBy(noteOf[m]) /\ ~RestoredBy(noteOf[m])
BY DEF PayoutInv, HoldsAlone, ReconcileAlone, RecBusy, HoldsNote, Holding, FinalizedBy, RestoredBy

LEMMA AskedAboutItsPayment ==
  ASSUME PayoutInv, NEW n \in NoteIds, NEW h \in Hashes, reserved[n] = h
  PROVE  /\ FinalizedBy(n) => node[h] = "settled"
         /\ RestoredBy(n) => ~Unresolved(h, n)
<1>1. ASSUME NEW m \in Melts, noteOf[m] = n, pc[m] \in Holding
      PROVE  hashOf[m] = h
  BY <1>1 DEF PayoutInv, HoldsAlone
<1>2. ASSUME NEW r \in Recs, RecBusy(r), n \in snap[r][cur[r]]
      PROVE  cur[r] = h
  BY <1>2, InvTypes DEF PayoutInv, SnapshotsCurrent
<1>3. QED
  BY <1>1, <1>2 DEF PayoutInv, TraceInv, BurnsConfirmed, RestoresConfirmed,
     FinalizedBy, RestoredBy, RecBusy, Holding

LEMMA HoldsAloneStep ==
  ASSUME PayoutInv, [Next]_vars
  PROVE  HoldsAlone'
<1>1. ASSUME NEW m \in Melts, pc[m] \in Holding, pc'[m] \in Holding
      PROVE  status'[noteOf[m]] = "live" /\ reserved'[noteOf[m]] = hashOf[m]
  <2>1. status[noteOf[m]] = "live" /\ reserved[noteOf[m]] = hashOf[m]
    BY <1>1 DEF PayoutInv, HoldsAlone
  <2>2. ~NoteChange(noteOf[m])
    BY <1>1, <2>1, NobodyElse, InvTypes DEF NoteChange, Reservable
  <2>3. QED
    BY <2>1, <2>2, NoteChanges, InvTypes
<1>2. ASSUME NEW m \in Melts, MarkPending(m)
      PROVE  /\ pc[m] = "checked" /\ reserved[noteOf[m]] = NoHash
             /\ status'[noteOf[m]] = "live" /\ reserved'[noteOf[m]] = hashOf[m]
             /\ \A q \in Melts : q # m => pc'[q] = pc[q]
  BY <1>2, InvTypes DEF TypeOK, MarkPending, Goto, Reservable
<1>3. ASSUME NEW m \in Melts, NEW q \in Melts, pc'[m] \in Holding, pc'[q] \in Holding,
             noteOf[m] = noteOf[q]
      PROVE  m = q
  <2>1. pc[m] \in Holding /\ pc[q] \in Holding => m = q
    BY <1>3 DEF PayoutInv, HoldsAlone, HoldsNote
  <2>2. ASSUME NEW a \in Melts, NEW b \in Melts, MarkPending(a), pc'[b] \in Holding,
               noteOf[a] = noteOf[b]
        PROVE  a = b
    <3>1. pc[b] \in Holding => reserved[noteOf[b]] = hashOf[b]
      BY DEF PayoutInv, HoldsAlone
    <3>2. pc[b] \notin Holding
      BY <1>2, <2>2, <3>1, InvTypes
    <3>3. QED
      BY <1>2, <2>2, <3>2
  <2>3. QED
    BY <1>3, <2>1, <2>2, HoldingChanges, InvTypes
<1>4. QED
  BY <1>1, <1>2, <1>3, HoldingChanges, InvTypes DEF HoldsAlone, HoldsNote

LEMMA SendingIsPayingStep ==
  ASSUME PayoutInv, [Next]_vars
  PROVE  SendingIsPaying'
<1> DEFINE Paying(h) == \E m \in Melts : pc[m] = "paying" /\ hashOf[m] = h /\ noteOf[m] = payer[h]
<1> SUFFICES ASSUME NEW h \in Hashes, node'[h] = "sending"
             PROVE  Paying(h)'
  BY DEF SendingIsPaying
<1> USE InvTypes DEF TypeOK
<1>1. node[h] = "sending" => Paying(h)
  BY DEF PayoutInv, SendingIsPaying
<1>2. ASSUME NEW q \in Melts, MeltStep(q)
      PROVE  Paying(h)'
  <2>1. CASE PayInvoice(q) /\ hashOf[q] = h
    BY <2>1 DEF PayInvoice, Goto
  <2>2. CASE ~(PayInvoice(q) /\ hashOf[q] = h)
    <3>1. node[h] = "sending" /\ payer'[h] = payer[h]
      BY <1>2, <2>2 DEF MeltStep, CheckMelt, MarkPending, RefuseMelt, TrackStart, RecordMelt,
         RecordFails, PayInvoice, PayRefused, PaySucceeds, PayUnclear, ConfirmMelt,
         FinalizeNote, SettleMelt, RestoreNote, TrackEnd, lightning
    <3>2. \A m \in Melts : pc[m] = "paying" /\ hashOf[m] = h => pc'[m] = "paying"
      BY <1>2, <3>1 DEF MeltStep, Goto, CheckMelt, MarkPending, RefuseMelt, TrackStart,
         RecordMelt, RecordFails, PayInvoice, PayRefused, PaySucceeds, PayUnclear,
         ConfirmMelt, FinalizeNote, SettleMelt, RestoreNote, TrackEnd
    <3>3. QED
      BY <1>1, <3>1, <3>2
  <2>3. QED
    BY <2>1, <2>2
<1>3. ASSUME NEW g \in Hashes, NodeMoves(g)
      PROVE  Paying(h)'
  BY <1>1, <1>3 DEF NodeMoves, NodeRegisters, NodeSettles, NodeFails, NodeStep
<1>4. CASE UNCHANGED <<node, payer, pc>>
  BY <1>1, <1>4
<1>5. ASSUME NEW r \in Recs, RecStep(r)
      PROVE  UNCHANGED <<node, payer, pc>>
  BY <1>5 DEF RecStep, RecSnapshot, RecSkip, RecVisit, RecAnswered, RecUnclear,
     RecFinalize, RecSettle, RecRestore, RecDone, lightning
<1>6. CASE Crash
  <2>1. PICK lost \in SUBSET {g \in Hashes : node[g] = "sending"} :
          node' = [g \in Hashes |-> IF node[g] # "sending" THEN node[g]
                                   ELSE IF g \in lost THEN "failed" ELSE "inflight"]
    BY <1>6 DEF Crash
  <2>2. QED
    BY <2>1
<1>7. QED
  BY <1>2, <1>3, <1>4, <1>5, <1>6 DEF Next, Swap, vars, lightning

\* No request is handled for a hash the registry does not have.
LEMMA NotHandled ==
  ASSUME IsFiniteSet(Melts), RegistryExact, NEW h \in Hashes, inFlight[h] = 0
  PROVE  Handled(h) = {}
BY HandledFinite, FS_EmptySet DEF RegistryExact, Handled

LEMMA SnapshotsCurrentStep ==
  ASSUME PayoutInv, [Next]_vars, [Undisturbed]_vars
  PROVE  SnapshotsCurrent'
<1> SUFFICES ASSUME NEW r \in Recs, NEW h \in Hashes, NEW n \in snap'[r][h]
             PROVE  reserved'[n] \in {h, NoHash}
  BY DEF SnapshotsCurrent
<1>1. CASE RecSnapshot(r)
  BY <1>1, InvTypes DEF TypeOK, RecSnapshot, PendingMelts, database
<1>2. CASE ~RecSnapshot(r)
  <2>1. n \in snap[r][h] /\ n \in NoteIds
    BY <1>2, SnapshotChanges, InvTypes DEF TypeOK
  <2>2. reserved[n] \in {h, NoHash}
    BY <2>1 DEF PayoutInv, SnapshotsCurrent
  <2>3. ~Reserves(n)
    <3>1. UNCHANGED vars => ~Reserves(n)
      BY InvTypes DEF TypeOK, Reserves, MarkPending, Goto, vars
    <3>2. Undisturbed => ~Reserves(n)
      BY <2>1 DEF Undisturbed, InSnapshot, Reserves
    <3>3. QED
      BY <3>1, <3>2
  <2>4. QED
    BY <2>1, <2>2, <2>3, NoteChanges, InvTypes DEF NoteChange
<1>3. QED
  BY <1>1, <1>2

\* A pass takes up no melt that is under way: a registered one is skipped, and
\* one that is reserved only is left alone by assumption.
LEMMA ReconcileAloneStep ==
  ASSUME IsFiniteSet(Melts), PayoutInv, [Next]_vars, [Undisturbed]_vars
  PROVE  ReconcileAlone'
<1> SUFFICES ASSUME NEW r \in Recs, RecBusy(r)', NEW n \in snap'[r][cur'[r]],
                    NEW m \in Melts, pc'[m] \in Holding, noteOf[m] = n
             PROVE  FALSE
  BY DEF ReconcileAlone, HoldsNote
<1>1. CASE RecBusy(r) /\ cur'[r] = cur[r] /\ snap'[r] = snap[r]
  <2>1. MarkPending(m) /\ InSnapshot(n)
    BY <1>1, HoldingChanges, InvTypes DEF PayoutInv, ReconcileAlone, HoldsNote, InSnapshot
  <2>2. ~UNCHANGED vars
    BY <2>1, InvTypes DEF TypeOK, MarkPending, Goto, vars
  <2>3. QED
    BY <2>1, <2>2 DEF Undisturbed
<1>2. ASSUME NEW h \in Hashes, RecVisit(r, h), cur'[r] = h
      PROVE  FALSE
  <2>1. UNCHANGED <<pc, snap>> /\ inFlight[h] = 0
    BY <1>2 DEF RecVisit
  <2>2. reserved[n] \in {h, NoHash} /\ reserved[n] = hashOf[m]
    BY <1>2, <2>1 DEF PayoutInv, SnapshotsCurrent, HoldsAlone
  <2>3. hashOf[m] = h
    BY <2>2, InvTypes
  <2>4. pc[m] \notin TrackedSteps
    BY <2>1, <2>3, NotHandled DEF PayoutInv, Handled
  <2>5. pc[m] = "reserved"
    BY <2>1, <2>4 DEF Holding, TrackedSteps
  <2>6. ~UNCHANGED vars
    BY <1>2, InvTypes DEF TypeOK, RecVisit, RecGoto, vars, reconcile
  <2>7. QED
    BY <1>2, <2>1, <2>3, <2>5, <2>6 DEF Undisturbed
<1>3. QED
  BY <1>1, <1>2, BusyChanges, InvTypes

-----------------------------------------------------------------------------
(***************************************************************************)
(* Nothing is sent for a note that is about to be restored.                *)
(***************************************************************************)

\* A failure reported for a note's payment is one, even if the node takes an
\* unregistered payment for a failed one: that payment has its request waiting.
LEMMA FailureMeansResolved ==
  ASSUME PayoutInv, NEW h \in Hashes, NEW n \in NoteIds, Reports(h, "failed"),
         Unresolved(h, n)
  PROVE  \E m \in Melts : pc[m] = "paying" /\ noteOf[m] = n
BY DEF PayoutInv, SendingIsPaying, Reports, Unresolved

\* Two requests at work on one note are one.
LEMMA OneRequest ==
  ASSUME PayoutInv, NEW m \in Melts, NEW q \in Melts, pc[m] \in Holding, pc[q] \in Holding,
         noteOf[m] = noteOf[q]
  PROVE  m = q
BY DEF PayoutInv, HoldsAlone, HoldsNote

LEMMA RestoresConfirmedStep ==
  ASSUME PayoutInv, [Next]_vars
  PROVE  RestoresConfirmed'
<1> USE InvTypes
<1>1. ASSUME NEW m \in Melts, pc'[m] = "restoring"
      PROVE  ~Unresolved(hashOf[m], noteOf[m])'
  <2>1. pc[m] = "restoring" \/ (pc[m] = "confirming" /\ Reports(hashOf[m], "failed"))
    <3>1. ASSUME NEW q \in Melts, MeltStep(q)
          PROVE  pc[m] = "restoring" \/ (pc[m] = "confirming" /\ Reports(hashOf[m], "failed"))
      <4>1. ASSUME NEW answer \in Answers, ConfirmMelt(q, answer)
            PROVE  pc[m] = "restoring" \/ (pc[m] = "confirming" /\ Reports(hashOf[m], "failed"))
        BY <1>1, <4>1 DEF TypeOK, ConfirmMelt, Goto, AfterAnswer, Answers
      <4>2. CASE ~\E answer \in Answers : ConfirmMelt(q, answer)
        BY <1>1, <3>1, <4>2 DEF TypeOK, MeltStep, Goto, CheckMelt, MarkPending, RefuseMelt,
           TrackStart, RecordMelt, RecordFails, PayInvoice, PayRefused, PaySucceeds,
           PayUnclear, FinalizeNote, SettleMelt, RestoreNote, TrackEnd
      <4>3. QED
        BY <4>1, <4>2
    <3>2. CASE Crash
      BY <1>1, <3>2 DEF TypeOK, Crash
    <3>3. CASE UNCHANGED pc
      BY <1>1, <3>3
    <3>4. QED
      BY <3>1, <3>2, <3>3 DEF Next, NodeMoves, NodeRegisters, NodeSettles, NodeFails,
         NodeStep, RecStep, RecSnapshot, RecSkip, RecVisit, RecAnswered, RecUnclear,
         RecFinalize, RecSettle, RecRestore, RecDone, Swap, vars
  <2>2. ~Unresolved(hashOf[m], noteOf[m])
    BY <2>1, FailureMeansResolved, OneRequest DEF PayoutInv, RestoresConfirmed, Holding
  <2>3. \A q \in Melts : noteOf[q] = noteOf[m] => pc[q] # "scheduled"
    BY <2>1, OneRequest DEF Holding
  <2>4. QED
    BY <2>2, <2>3, UnresolvedChanges
<1>2. ASSUME NEW r \in Recs, rpc'[r] = "restoring", NEW n \in snap'[r][cur'[r]]
      PROVE  ~Unresolved(cur[r], n)'
  <2>1. /\ cur'[r] = cur[r] /\ snap'[r] = snap[r]
        /\ rpc[r] = "restoring" \/ (rpc[r] = "confirming" /\ Reports(cur[r], "failed"))
    <3>1. ASSUME NEW q \in Recs, RecStep(q)
          PROVE  /\ cur'[r] = cur[r] /\ snap'[r] = snap[r]
                 /\ rpc[r] = "restoring" \/ (rpc[r] = "confirming" /\ Reports(cur[r], "failed"))
      <4>1. ASSUME NEW answer \in Answers, RecAnswered(q, answer)
            PROVE  /\ cur'[r] = cur[r] /\ snap'[r] = snap[r]
                   /\ rpc[r] = "restoring" \/ (rpc[r] = "confirming" /\ Reports(cur[r], "failed"))
        BY <1>2, <4>1 DEF TypeOK, RecAnswered, RecGoto, AfterAnswer, Answers
      <4>2. CASE ~\E answer \in Answers : RecAnswered(q, answer)
        BY <1>2, <3>1, <4>2 DEF TypeOK, RecStep, RecGoto, RecSnapshot, RecSkip, RecVisit,
           RecUnclear, RecFinalize, RecSettle, RecRestore, RecDone, NextMelt
      <4>3. QED
        BY <4>1, <4>2
    <3>2. CASE Crash
      BY <1>2, <3>2 DEF TypeOK, Crash
    <3>3. CASE UNCHANGED reconcile
      BY <1>2, <3>3 DEF reconcile
    <3>4. ASSUME NEW m \in Melts, MeltStep(m)
          PROVE  UNCHANGED reconcile
      BY <3>4 DEF MeltStep, CheckMelt, MarkPending, RefuseMelt, TrackStart, RecordMelt,
         RecordFails, PayInvoice, PayRefused, PaySucceeds, PayUnclear, ConfirmMelt,
         FinalizeNote, SettleMelt, RestoreNote, TrackEnd
    <3>5. QED
      BY <3>1, <3>2, <3>3, <3>4 DEF Next, NodeMoves, NodeRegisters, NodeSettles, NodeFails,
         NodeStep, Swap, vars, reconcile
  <2>2. RecBusy(r) /\ n \in snap[r][cur[r]] /\ n \in NoteIds /\ cur[r] \in Hashes
    BY <1>2, <2>1 DEF RecBusy
  <2>3. \A q \in Melts : noteOf[q] = n => pc[q] \notin Holding
    BY <2>2 DEF PayoutInv, ReconcileAlone, HoldsNote
  <2>4. ~Unresolved(cur[r], n)
    BY <2>1, <2>2, <2>3, FailureMeansResolved DEF PayoutInv, RestoresConfirmed, Holding
  <2>5. ASSUME NEW h \in Hashes, h = cur[r]
        PROVE  ~Unresolved(h, n)'
    BY <2>2, <2>3, <2>4, <2>5, UnresolvedChanges DEF Holding
  <2>6. QED
    BY <2>1, <2>2, <2>5 DEF Unresolved
<1>3. QED
  BY <1>1, <1>2 DEF RestoresConfirmed, Unresolved

-----------------------------------------------------------------------------
(***************************************************************************)
(* The invariant and the properties it carries.                            *)
(***************************************************************************)

\* A note at large has no unresolved payment, a reserved one at most the one
\* it is reserved for.
LEMMA UnresolvedIsHeld ==
  ASSUME PayoutInv, NEW h \in Hashes, NEW n \in NoteIds, Unresolved(h, n)
  PROVE  /\ status[n] # "absent" /\ ~Reservable(n)
         /\ status[n] = "live" => reserved[n] = h
         /\ status[n] = "spent" => node[h] = "settled"
BY InvTypes DEF PayoutInv, HeldWhileUnresolved, Reservable, TypeOK

\* A payment is sent only for the note reserved for it.
LEMMA SentWhenReserved ==
  ASSUME PayoutInv, [Next]_vars, NEW h \in Hashes, NEW n \in NoteIds,
         Unresolved(h, n)', ~Unresolved(h, n)
  PROVE  /\ status[n] = "live" /\ reserved[n] = h
         /\ UNCHANGED <<status, reserved, burns>>
BY InvTypes, UnresolvedChanges DEF PayoutInv, HoldsAlone, Holding

LEMMA HeldStep ==
  ASSUME PayoutInv, [Next]_vars
  PROVE  HeldWhileUnresolved'
<1> SUFFICES ASSUME NEW h \in Hashes, NEW n \in NoteIds, Unresolved(h, n)'
             PROVE  reserved'[n] = h \/ (status'[n] = "spent" /\ node'[h] = "settled")
  BY DEF HeldWhileUnresolved
<1>1. CASE ~Unresolved(h, n)
  BY <1>1, SentWhenReserved
<1>2. CASE Unresolved(h, n)
  <2>1. /\ reserved[n] = h \/ (status[n] = "spent" /\ node[h] = "settled")
        /\ node[h] = "settled" => node'[h] = "settled"
    BY <1>2, ValueStaysOut, InvTypes DEF PayoutInv, HeldWhileUnresolved
  <2>2. NoteChange(n) /\ UNCHANGED node => status'[n] = "spent" /\ node'[h] = "settled"
    BY <1>2, <2>1, UnresolvedIsHeld, AskedAboutItsPayment, StepKeepsSpent, InvTypes
       DEF NoteChange
  <2>3. QED
    BY <2>1, <2>2, NoteChanges, InvTypes
<1>3. QED
  BY <1>1, <1>2

LEMMA OnePaymentStep ==
  ASSUME PayoutInv, [Next]_vars
  PROVE  OnePayment'
<1>1. ASSUME NEW n \in NoteIds, Swapped(n)'
      PROVE  status'[n] = "spent" /\ \A h \in Hashes : ~Unresolved(h, n)'
  <2>1. CASE Swapped(n)
    <3>1. status[n] = "spent" /\ \A h \in Hashes : ~Unresolved(h, n)
      BY <2>1 DEF PayoutInv, OnePayment
    <3>2. QED
      BY <3>1, StepKeepsSpent, SentWhenReserved, InvTypes
  <2>2. CASE ~Swapped(n)
    <3>1. Reservable(n) /\ status'[n] = "spent" /\ UNCHANGED <<node, payer>>
      BY <1>1, <2>2, NoteChanges, InvTypes DEF NoteChange, Swapped
    <3>2. QED
      BY <3>1, UnresolvedIsHeld DEF Unresolved
  <2>3. QED
    BY <2>1, <2>2
<1>2. ASSUME NEW n \in NoteIds, NEW h \in Hashes, NEW g \in Hashes,
             Unresolved(h, n)', Unresolved(g, n)'
      PROVE  h = g
  <2>1. Unresolved(h, n) /\ Unresolved(g, n) => h = g
    BY DEF PayoutInv, OnePayment
  <2>2. ~Unresolved(h, n) => status[n] = "live" /\ reserved[n] = h
    BY <1>2, SentWhenReserved
  <2>3. ~Unresolved(g, n) => status[n] = "live" /\ reserved[n] = g
    BY <1>2, SentWhenReserved
  <2>4. QED
    BY <2>1, <2>2, <2>3, UnresolvedIsHeld
<1>3. QED
  BY <1>1, <1>2 DEF OnePayment

LEMMA PayoutStep ==
  ASSUME IsFiniteSet(Melts), PayoutInv, [Next /\ Undisturbed]_vars
  PROVE  PayoutInv'
<1>1. [Next]_vars /\ [Undisturbed]_vars
  OBVIOUS
<1>2. TraceInv' /\ RegistryExact'
  BY <1>1, TraceStep, RegistryStep, InvTypes DEF PayoutInv
<1>3. QED
  BY <1>1, <1>2, HoldsAloneStep, SendingIsPayingStep, SnapshotsCurrentStep,
     ReconcileAloneStep, RestoresConfirmedStep, OnePaymentStep, HeldStep DEF PayoutInv

LEMMA OnePaymentEach == PayoutInv => NoDoublePayout
BY DEF PayoutInv, OnePayment, NoDoublePayout, PaidOut, PaysOut, Unresolved

LEMMA ReleaseStep ==
  ASSUME PayoutInv, [Next]_vars, NEW n \in NoteIds, NEW h \in Hashes,
         reserved[n] = h, reserved'[n] # h, status'[n] = "live"
  PROVE  ~Unresolved(h, n)
<1>1. h # NoHash /\ ~Reservable(n) /\ status[n] # "absent"
  BY InvTypes DEF TypeOK, Reservable
<1>2. RestoredBy(n)
  BY <1>1, NoteChanges, InvTypes DEF NoteChange
<1>3. QED
  BY <1>2, AskedAboutItsPayment

-----------------------------------------------------------------------------
(***************************************************************************)
(* The theorems.                                                           *)
(***************************************************************************)

\* The value of a note leaves the mint once: whatever the requests, the
\* reconcile passes, the swaps, the crashes and the node do, however often a
\* note is melted again after a restore, no note is swapped and paid out, or
\* paid out twice, unless a reconcile pass is disturbed.
THEOREM NoteValueLeavesOnce ==
  IsFiniteSet(Melts) => (UndisturbedSpec => []NoDoublePayout)
<1> SUFFICES ASSUME IsFiniteSet(Melts)
             PROVE  UndisturbedSpec => []NoDoublePayout
  OBVIOUS
<1>1. PayoutInv /\ [Next /\ Undisturbed]_vars => PayoutInv'
  BY PayoutStep
<1>2. QED
  BY InitPayout, OnePaymentEach, <1>1, PTL DEF UndisturbedSpec

\* A note is reserved for the payment made on its behalf for as long as that
\* payment may take funds out, and after it did until it is burned.
THEOREM NotesAreHeld ==
  IsFiniteSet(Melts) => (UndisturbedSpec => []HeldWhileUnresolved)
<1> SUFFICES ASSUME IsFiniteSet(Melts)
             PROVE  UndisturbedSpec => []HeldWhileUnresolved
  OBVIOUS
<1>1. PayoutInv /\ [Next /\ Undisturbed]_vars => PayoutInv'
  BY PayoutStep
<1>2. PayoutInv => HeldWhileUnresolved
  BY DEF PayoutInv
<1>3. QED
  BY InitPayout, <1>1, <1>2, PTL DEF UndisturbedSpec

\* A held note goes back to its owner only once the payment made for it has
\* failed for good, or when none was made: also if the node reports a payment
\* it has not registered as failed, and if the note was reserved before.
THEOREM ReleasedOnFailureOnly ==
  IsFiniteSet(Melts) => (UndisturbedSpec => ReleaseOnlyAfterFailure)
<1> SUFFICES ASSUME IsFiniteSet(Melts)
             PROVE  UndisturbedSpec => ReleaseOnlyAfterFailure
  OBVIOUS
<1> DEFINE Release == \A n \in NoteIds, h \in Hashes :
                        reserved[n] = h /\ reserved'[n] # h /\ status'[n] = "live"
                          => ~Unresolved(h, n)
<1>1. PayoutInv /\ [Next /\ Undisturbed]_vars => PayoutInv'
  BY PayoutStep
<1>2. PayoutInv /\ [Next /\ Undisturbed]_vars => Release
  BY ReleaseStep
<1>3. QED
  BY InitPayout, <1>1, <1>2, PTL DEF UndisturbedSpec, ReleaseOnlyAfterFailure

-----------------------------------------------------------------------------
(***************************************************************************)
(* The abstract ledger: every step of Melt moves one note along its only   *)
(* path, exchanges notes, or changes no note's fate.                       *)
(***************************************************************************)
FateMap == [n \in NoteIds |-> FateOf(n)]

LEMMA SameFate ==
  ASSUME NEW n \in NoteIds, status'[n] = status[n], reserved'[n] = reserved[n],
         Swapped(n)' <=> Swapped(n), PaidOut(n)' <=> PaidOut(n)
  PROVE  FateOf(n)' = FateOf(n)
BY DEF FateOf, Reservable

\* One move of one note is a step of the ledger, as long as it is allowed.
LEMMA OneNoteMoves ==
  ASSUME NEW n \in NoteIds,
         \/ FateOf(n)' = FateOf(n)
         \/ FateOf(n) = "live" /\ FateOf(n)' = "committed"
         \/ FateOf(n) = "committed" /\ FateOf(n)' \in {"live", "paid"},
         \A q \in NoteIds \ {n} : FateOf(q)' = FateOf(q)
  PROVE  Ledger!Next \/ FateMap' = FateMap
<1>1. CASE FateOf(n)' = FateOf(n)
  BY <1>1 DEF FateMap
<1>2. CASE FateOf(n)' # FateOf(n)
  <2>1. FateMap' = [FateMap EXCEPT ![n] = FateOf(n)']
    BY DEF FateMap
  <2>2. Ledger!Commit(n) \/ Ledger!Release(n) \/ Ledger!PayOut(n)
    BY <1>2, <2>1 DEF FateMap, Ledger!Commit, Ledger!Release, Ledger!PayOut, Ledger!Move
  <2>3. QED
    BY <2>2 DEF Ledger!Next
<1>3. QED
  BY <1>1, <1>2

LEMMA PaidIsUnresolved ==
  ASSUME NEW n \in NoteIds, PaidOut(n)
  PROVE  \E h \in Hashes : Unresolved(h, n) /\ node[h] = "settled"
BY DEF PaidOut, PaysOut, Unresolved

\* A note that was paid out is spent or still reserved.
LEMMA PaidIsHeld ==
  ASSUME PayoutInv, NEW n \in NoteIds, PaidOut(n)
  PROVE  /\ status[n] # "absent"
         /\ ~Reservable(n)
         /\ ~Swapped(n)
BY PaidIsUnresolved, UnresolvedIsHeld DEF PayoutInv, OnePayment

LEMMA InitLedger == Init => Ledger!Init
BY ConstantsAssumption
   DEF Init, Ledger!Init, FateOf, PaidOut, PaysOut, Swapped, Reservable

LEMMA SettlesMove ==
  ASSUME PayoutInv, NEW h \in Hashes, NodeSettles(h)
  PROVE  Ledger!Next \/ FateMap' = FateMap
<1>1. /\ node[h] = "inflight"
      /\ node' = [node EXCEPT ![h] = "settled"]
      /\ UNCHANGED <<status, reserved, burns, payer>>
  BY DEF NodeSettles, NodeStep, database
<1>2. PICK n \in NoteIds : n = payer[h] /\ Unresolved(h, n) /\ h # NoHash
  BY <1>1, ConstantsAssumption DEF PayoutInv, TraceInv, PaymentsRequested, TypeOK, Unresolved
<1>3. /\ reserved[n] = h /\ status[n] = "live"
      /\ ~Swapped(n)
  BY <1>1, <1>2, InvTypes DEF PayoutInv, HeldWhileUnresolved, OnePayment, TypeOK
<1>4. FateOf(n) = "committed"
  <2>1. ~PaidOut(n)
    BY <1>1, <1>2, PaidIsUnresolved DEF PayoutInv, OnePayment
  <2>2. QED
    BY <1>2, <1>3, <2>1 DEF FateOf, Reservable
<1>5. FateOf(n)' = "paid"
  <2>1. PaidOut(n)'
    BY <1>1, <1>2 DEF PaidOut, PaysOut, PayoutInv, TraceInv, TypeOK
  <2>2. status'[n] = "live"
    BY <1>1, <1>3
  <2>3. QED
    BY <1>1, <2>1, <2>2 DEF FateOf
<1>6. ASSUME NEW q \in NoteIds \ {n}
      PROVE  FateOf(q)' = FateOf(q)
  <2>1. \A g \in Hashes : PaysOut(g, q)' <=> PaysOut(g, q)
    BY <1>1, <1>2 DEF PaysOut, PayoutInv, TraceInv, TypeOK
  <2>2. /\ PaidOut(q)' <=> PaidOut(q)
        /\ Swapped(q)' <=> Swapped(q)
    BY <1>1, <2>1 DEF PaidOut, Swapped
  <2>3. QED
    BY <1>1, <2>2, SameFate
<1>7. QED
  BY <1>2, <1>4, <1>5, <1>6, OneNoteMoves

LEMMA PendingMoves ==
  ASSUME PayoutInv, NEW m \in Melts, MarkPending(m)
  PROVE  Ledger!Next \/ FateMap' = FateMap
<1> DEFINE n == noteOf[m]
<1>1. n \in NoteIds /\ hashOf[m] # NoHash
  BY ConstantsAssumption
<1>2. /\ Reservable(n)
      /\ reserved' = [reserved EXCEPT ![n] = hashOf[m]]
      /\ UNCHANGED <<status, burns, node, payer>>
  BY DEF MarkPending, lightning
<1>3. ~PaidOut(n) /\ ~Swapped(n)
  BY <1>1, <1>2, PaidIsHeld DEF PayoutInv, OnePayment, Reservable
<1>4. FateOf(n) = "live"
  BY <1>2, <1>3 DEF FateOf, Reservable
<1>5. FateOf(n)' = "committed"
  BY <1>1, <1>2, <1>3 DEF FateOf, Reservable, PaidOut, PaysOut, Swapped, PayoutInv, TraceInv, TypeOK
<1>6. ASSUME NEW q \in NoteIds \ {n}
      PROVE  FateOf(q)' = FateOf(q)
  BY <1>1, <1>2, SameFate DEF Swapped, PaidOut, PaysOut, PayoutInv, TraceInv, TypeOK
<1>7. QED
  BY <1>1, <1>4, <1>5, <1>6, OneNoteMoves

\* restore of one note: back to its owner, or nothing if it was not reserved.
LEMMA RestoreMoves ==
  ASSUME PayoutInv, NEW ns \in SUBSET NoteIds, Restore(ns),
         UNCHANGED <<burns, node, payer>>,
         \A n \in ns : RestoredBy(n),
         \A n1, n2 \in ns : n1 = n2
  PROVE  Ledger!Next \/ FateMap' = FateMap
<1>1. /\ reserved' = [n \in NoteIds |-> IF n \in ns THEN NoHash ELSE reserved[n]]
      /\ UNCHANGED status
  BY DEF Restore, Unreserve
<1>2. ASSUME NEW q \in NoteIds, q \notin ns \/ reserved[q] = NoHash
      PROVE  FateOf(q)' = FateOf(q)
  BY <1>1, <1>2, SameFate DEF Swapped, PaidOut, PaysOut
<1>3. ASSUME NEW n \in ns, reserved[n] # NoHash
      PROVE  FateOf(n) = "committed" /\ FateOf(n)' = "live"
  <2>1. /\ reserved[n] \in Hashes
        /\ status[n] = "live"
    BY <1>3 DEF PayoutInv, TraceInv, TypeOK
  <2>2. ~PaidOut(n)
    BY <2>1, AskedAboutItsPayment, PaidIsUnresolved, UnresolvedIsHeld
  <2>3. QED
    BY <1>1, <1>3, <2>1, <2>2
       DEF PayoutInv, OnePayment, FateOf, Reservable, PaidOut, PaysOut, Swapped
<1>4. CASE \E n \in ns : reserved[n] # NoHash
  BY <1>2, <1>3, <1>4, OneNoteMoves
<1>5. CASE ~\E n \in ns : reserved[n] # NoHash
  BY <1>2, <1>5 DEF FateMap
<1>6. QED
  BY <1>4, <1>5

\* With one note per invoice, whoever burns a note has seen the payment made
\* for it settle.
LEMMA BurnedIsPaid ==
  ASSUME PayoutInv, OneNotePerInvoice, NEW n \in NoteIds, FinalizedBy(n)
  PROVE  PaidOut(n)
<1>1. PICK h \in Hashes : Requested(n, h) /\ node[h] = "settled"
  BY InvTypes DEF PayoutInv, TraceInv, BurnsConfirmed, SnapshotsRequested, FinalizedBy,
     Requested, RecBusy
<1>2. QED
  BY <1>1, SettledPaysItsNote DEF PayoutInv, PaidOut

\* finalize_melt burns notes that were paid out already.
LEMMA FinalizeMoves ==
  ASSUME PayoutInv, OneNotePerInvoice, NEW ns \in SUBSET NoteIds, FinalizeMelt(ns),
         UNCHANGED <<burns, node, payer>>,
         \A n \in ns : FinalizedBy(n)
  PROVE  FateMap' = FateMap
<1>1. /\ reserved' = [n \in NoteIds |-> IF n \in ns THEN NoHash ELSE reserved[n]]
      /\ status' = [n \in NoteIds |-> IF n \in ns THEN "spent" ELSE status[n]]
  BY DEF FinalizeMelt, Unreserve
<1>2. ASSUME NEW q \in NoteIds, q \notin ns
      PROVE  FateOf(q)' = FateOf(q)
  BY <1>1, <1>2, SameFate DEF Swapped, PaidOut, PaysOut
<1>3. ASSUME NEW n \in ns
      PROVE  FateOf(n) = "paid" /\ FateOf(n)' = "paid"
  <2>1. PaidOut(n)
    BY <1>3, BurnedIsPaid
  <2>2. status[n] # "absent" /\ status'[n] # "absent"
    BY <1>1, <2>1, PaidIsHeld
  <2>3. QED
    BY <2>1, <2>2 DEF FateOf, PaidOut, PaysOut
<1>4. QED
  BY <1>2, <1>3 DEF FateMap

LEMMA SwapMoves ==
  ASSUME PayoutInv, NEW burned \in SUBSET NoteIds, NEW minted \in SUBSET NoteIds,
         Swap(burned, minted)
  PROVE  Ledger!Next
<1>1. /\ burned # {}
      /\ \A n \in burned : Reservable(n)
      /\ \A n \in minted : status[n] = "absent"
      /\ status' = [n \in NoteIds |-> IF n \in burned THEN "spent"
                                      ELSE IF n \in minted THEN "live" ELSE status[n]]
      /\ burns' = burns \cup {burned}
      /\ UNCHANGED <<reserved, node, payer>>
  BY DEF Swap, lightning
<1>2. minted # {}
  <2>1. Cardinality(minted) # 0
    BY DEF Swap
  <2>2. QED
    BY <2>1, FS_EmptySet
<1>3. \A n \in NoteIds : PaidOut(n)' <=> PaidOut(n)
  BY <1>1 DEF PaidOut, PaysOut
<1>4. \A n \in NoteIds : Swapped(n)' <=> Swapped(n) \/ n \in burned
  BY <1>1 DEF Swapped
<1>5. ASSUME NEW n \in burned
      PROVE  FateOf(n) = "live" /\ FateOf(n)' = "swapped"
  <2>1. ~PaidOut(n) /\ ~Swapped(n) /\ Reservable(n) /\ status[n] = "live"
    BY <1>1, PaidIsHeld, InvTypes DEF PayoutInv, OnePayment, Reservable, TypeOK
  <2>2. QED
    BY <1>1, <1>3, <1>4, <2>1 DEF FateOf
<1>6. ASSUME NEW n \in minted
      PROVE  FateOf(n) = "absent" /\ FateOf(n)' = "live"
  <2>1. ~PaidOut(n) /\ ~Swapped(n) /\ n \notin burned /\ status[n] = "absent" /\ reserved[n] = NoHash
    BY <1>1, PaidIsHeld, InvTypes DEF PayoutInv, OnePayment, Reservable, TypeOK
  <2>2. QED
    BY <1>1, <1>3, <1>4, <2>1 DEF FateOf, Reservable
<1>7. ASSUME NEW n \in NoteIds, n \notin burned, n \notin minted
      PROVE  FateOf(n)' = FateOf(n)
  BY <1>1, <1>3, <1>4, <1>7, SameFate
<1>8. Ledger!Exchange(burned, minted)
  BY <1>1, <1>2, <1>5, <1>6, <1>7 DEF Ledger!Exchange
<1>9. QED
  BY <1>5, <1>6, <1>8 DEF Ledger!Next

\* Every other step leaves the columns alone and settles no payment.
LEMMA QuietStep ==
  ASSUME PayoutInv, UNCHANGED <<status, reserved, burns>>,
         \A n \in NoteIds : PaidOut(n)' <=> PaidOut(n)
  PROVE  FateMap' = FateMap
BY SameFate DEF FateMap, Swapped

LEMMA RequestMoves ==
  ASSUME PayoutInv, OneNotePerInvoice, NEW m \in Melts, MeltStep(m)
  PROVE  Ledger!Next \/ FateMap' = FateMap
<1>1. noteOf[m] \in NoteIds /\ hashOf[m] \in Hashes /\ Requested(noteOf[m], hashOf[m])
  BY ConstantsAssumption DEF Requested
<1>2. CASE MarkPending(m)
  BY <1>2, PendingMoves
<1>3. CASE FinalizeNote(m)
  <2>1. FinalizedBy(noteOf[m])
    BY <1>3, InvTypes DEF FinalizeNote, Goto, FinalizedBy, TypeOK
  <2>2. FinalizeMelt({noteOf[m]}) /\ UNCHANGED <<burns, node, payer>>
    BY <1>3 DEF FinalizeNote, lightning
  <2>3. QED
    BY <1>1, <2>1, <2>2, FinalizeMoves
<1>4. CASE RestoreNote(m)
  <2>1. RestoredBy(noteOf[m])
    BY <1>4, InvTypes DEF RestoreNote, Goto, RestoredBy, TypeOK
  <2>2. Restore({noteOf[m]}) /\ UNCHANGED <<burns, node, payer>>
    BY <1>4 DEF RestoreNote, lightning
  <2>3. QED
    BY <1>1, <2>1, <2>2, RestoreMoves
<1>5. CASE ~MarkPending(m) /\ ~FinalizeNote(m) /\ ~RestoreNote(m)
  <2>1. UNCHANGED <<status, reserved, burns>>
    BY <1>5 DEF MeltStep, CheckMelt, RefuseMelt, TrackStart, RecordMelt, RecordFails,
       PayInvoice, PayRefused, PaySucceeds, PayUnclear, ConfirmMelt, SettleMelt, TrackEnd,
       database
  <2>2. \A h \in Hashes, n \in NoteIds : PaysOut(h, n)' <=> PaysOut(h, n)
    BY <1>1, <1>5 DEF MeltStep, CheckMelt, RefuseMelt, TrackStart, RecordMelt, RecordFails,
       PayInvoice, PayRefused, PaySucceeds, PayUnclear, ConfirmMelt, SettleMelt, TrackEnd,
       lightning, PaysOut, PayoutInv, TraceInv, TypeOK
  <2>3. QED
    BY <2>1, <2>2, QuietStep DEF PaidOut
<1>6. QED
  BY <1>2, <1>3, <1>4, <1>5

LEMMA ReconcileMoves ==
  ASSUME PayoutInv, OneNotePerInvoice, NEW r \in Recs, RecStep(r)
  PROVE  Ledger!Next \/ FateMap' = FateMap
<1>1. UNCHANGED <<burns, node, payer>>
  BY DEF RecStep, RecSnapshot, RecSkip, RecVisit, RecAnswered, RecUnclear,
     RecFinalize, RecSettle, RecRestore, RecDone, lightning, database
<1> DEFINE ns == snap[r][cur[r]]
<1>2. RecBusy(r) => /\ cur[r] \in Hashes
                    /\ ns \in SUBSET NoteIds
                    /\ \A n \in ns : Requested(n, cur[r])
  BY InvTypes DEF PayoutInv, TraceInv, SnapshotsRequested
<1>3. CASE RecFinalize(r)
  <2>1. /\ RecBusy(r)
        /\ \A n \in ns : FinalizedBy(n)
        /\ FinalizeMelt(ns)
    BY <1>3 DEF RecFinalize, RecGoto, RecBusy, FinalizedBy
  <2>2. QED
    BY <1>1, <1>2, <2>1, FinalizeMoves
<1>4. CASE RecRestore(r)
  <2>1. /\ RecBusy(r)
        /\ \A n \in ns : RestoredBy(n)
        /\ Restore(ns)
    BY <1>4 DEF RecRestore, RecGoto, RecBusy, RestoredBy
  <2>2. \A n1, n2 \in ns : n1 = n2
    BY <1>2, <2>1 DEF OneNotePerInvoice, Requested
  <2>3. QED
    BY <1>1, <1>2, <2>1, <2>2, RestoreMoves
<1>5. CASE ~RecFinalize(r) /\ ~RecRestore(r)
  <2>1. UNCHANGED <<status, reserved>>
    BY <1>5 DEF RecStep, RecSnapshot, RecSkip, RecVisit, RecAnswered, RecUnclear,
       RecSettle, RecDone, database
  <2>2. QED
    BY <1>1, <2>1, QuietStep DEF PaidOut, PaysOut
<1>6. QED
  BY <1>3, <1>4, <1>5

LEMMA LedgerStep ==
  ASSUME PayoutInv, OneNotePerInvoice, [Next]_vars
  PROVE  Ledger!Next \/ FateMap' = FateMap
<1>1. ASSUME NEW h \in Hashes, NodeMoves(h)
      PROVE  Ledger!Next \/ FateMap' = FateMap
  <2>1. CASE NodeSettles(h)
    BY <2>1, SettlesMove
  <2>2. CASE NodeRegisters(h) \/ NodeFails(h)
    <3>1. UNCHANGED <<status, reserved, burns>>
      BY <2>2 DEF NodeRegisters, NodeFails, NodeStep, database
    <3>2. \A g \in Hashes, n \in NoteIds : PaysOut(g, n)' <=> PaysOut(g, n)
      BY <2>2 DEF NodeRegisters, NodeFails, NodeStep, PaysOut, PayoutInv, TraceInv, TypeOK
    <3>3. QED
      BY <3>1, <3>2, QuietStep DEF PaidOut
  <2>3. QED
    BY <1>1, <2>1, <2>2 DEF NodeMoves
<1>2. CASE Crash
  <2>1. UNCHANGED <<status, reserved, burns>>
    BY <1>2 DEF Crash, database
  <2>2. \A g \in Hashes, n \in NoteIds : PaysOut(g, n)' <=> PaysOut(g, n)
    BY <1>2 DEF Crash, PaysOut
  <2>3. QED
    BY <2>1, <2>2, QuietStep DEF PaidOut
<1>3. CASE UNCHANGED vars
  BY <1>3, QuietStep DEF vars, database, lightning, PaidOut, PaysOut
<1>4. ASSUME NEW burned \in SUBSET NoteIds, NEW minted \in SUBSET NoteIds,
             Swap(burned, minted)
      PROVE  Ledger!Next
  BY <1>4, SwapMoves
<1>5. QED
  BY <1>1, <1>2, <1>3, <1>4, RequestMoves, ReconcileMoves DEF Next

\* With one note per invoice, the melt path, reconcile, swaps and crashes
\* implement the abstract ledger: a note is exchanged or paid out once and a
\* committed one is released or paid, never anything else.
THEOREM MeltsImplementLedger ==
  IsFiniteSet(Melts) /\ OneNotePerInvoice => (UndisturbedSpec => ImplementsLedger)
<1> SUFFICES ASSUME IsFiniteSet(Melts), OneNotePerInvoice
             PROVE  UndisturbedSpec => ImplementsLedger
  OBVIOUS
<1>1. PayoutInv /\ [Next /\ Undisturbed]_vars => PayoutInv'
  BY PayoutStep
<1>2. PayoutInv /\ [Next /\ Undisturbed]_vars => [Ledger!Next]_[n \in NoteIds |-> FateOf(n)]
  BY LedgerStep DEF FateMap
<1>3. QED
  BY InitPayout, InitLedger, <1>1, <1>2, PTL DEF UndisturbedSpec, ImplementsLedger, Ledger!Spec
=============================================================================
