----------------------------- MODULE Melt_proofs -----------------------------
(***************************************************************************)
(* Proofs about Melt, for every set of notes, invoices and requests.       *)
(***************************************************************************)
EXTENDS Melt, FiniteSetTheorems, TLAPS

-----------------------------------------------------------------------------
(***************************************************************************)
(* Type correctness.                                                       *)
(***************************************************************************)
LEMMA InitType == Init => TypeOK
BY ConstantsAssumption
   DEF Init, TypeOK, EmptySnapshot, Steps, RecSteps, NodeStates, RecBusy

LEMMA RequestType ==
  ASSUME TypeOK, NEW m \in Melts, MeltStep(m)
  PROVE  TypeOK'
<1> USE ConstantsAssumption DEF TypeOK, Goto, RecBusy, database, lightning, reconcile
<1>1. CASE CheckMelt(m)
  BY <1>1 DEF CheckMelt, Steps
<1>2. CASE MarkPending(m)
  BY <1>2 DEF MarkPending, Reservable, Steps
<1>3. CASE RefuseMelt(m)
  BY <1>3 DEF RefuseMelt, Steps
<1>4. CASE TrackStart(m)
  BY <1>4 DEF TrackStart, Steps, TrackedSteps
<1>5. CASE RecordMelt(m)
  BY <1>5 DEF RecordMelt, Steps, TrackedSteps
<1>6. CASE RecordFails(m)
  BY <1>6 DEF RecordFails, Steps, TrackedSteps
<1>7. CASE PayInvoice(m)
  BY <1>7 DEF PayInvoice, Steps, TrackedSteps, NodeStates
<1>8. CASE PayRefused(m)
  BY <1>8 DEF PayRefused, Steps, TrackedSteps, NodeStates
<1>9. CASE PaySucceeds(m)
  BY <1>9 DEF PaySucceeds, Steps, TrackedSteps
<1>10. CASE PayUnclear(m)
  BY <1>10 DEF PayUnclear, Steps, TrackedSteps
<1>11. ASSUME NEW answer \in Answers, ConfirmMelt(m, answer)
       PROVE  TypeOK'
  BY <1>11 DEF ConfirmMelt, AfterAnswer, Answers, Steps, TrackedSteps
<1>12. CASE FinalizeNote(m)
  BY <1>12 DEF FinalizeNote, FinalizeMelt, Unreserve, Steps, TrackedSteps
<1>13. CASE SettleMelt(m)
  BY <1>13 DEF SettleMelt, MarkMeltSettled, Steps, TrackedSteps
<1>14. CASE RestoreNote(m)
  BY <1>14 DEF RestoreNote, Restore, Unreserve, Steps, TrackedSteps
<1>15. CASE TrackEnd(m)
  BY <1>15 DEF TrackEnd, MeltTrackEnd, Steps
<1>16. QED
  BY <1>1, <1>2, <1>3, <1>4, <1>5, <1>6, <1>7, <1>8, <1>9, <1>10, <1>11,
     <1>12, <1>13, <1>14, <1>15 DEF MeltStep

LEMMA NodeType ==
  ASSUME TypeOK, NEW h \in Hashes, NodeMoves(h)
  PROVE  TypeOK'
BY DEF TypeOK, NodeMoves, NodeRegisters, NodeSettles, NodeFails, NodeStep,
       NodeStates, RecBusy, database, reconcile

LEMMA ReconcileType ==
  ASSUME TypeOK, NEW r \in Recs, RecStep(r)
  PROVE  TypeOK'
<1> USE ConstantsAssumption DEF TypeOK, RecGoto, RecBusy, RecSteps, database, lightning
<1>1. CASE RecSnapshot(r)
  BY <1>1 DEF RecSnapshot, PendingMelts
<1>2. ASSUME NEW h \in Hashes, RecSkip(r, h)
      PROVE  TypeOK'
  BY <1>2 DEF RecSkip
<1>3. ASSUME NEW h \in Hashes, RecVisit(r, h)
      PROVE  TypeOK'
  BY <1>3 DEF RecVisit
<1>4. ASSUME NEW answer \in Answers, RecAnswered(r, answer)
      PROVE  TypeOK'
  BY <1>4 DEF RecAnswered, AfterAnswer, Answers
<1>5. CASE RecUnclear(r)
  BY <1>5 DEF RecUnclear, NextMelt
<1>6. CASE RecFinalize(r)
  BY <1>6 DEF RecFinalize, FinalizeMelt, Unreserve
<1>7. CASE RecSettle(r)
  BY <1>7 DEF RecSettle, MarkMeltSettled, NextMelt
<1>8. CASE RecRestore(r)
  BY <1>8 DEF RecRestore, Restore, Unreserve, NextMelt
<1>9. CASE RecDone(r)
  BY <1>9 DEF RecDone
<1>10. QED
  BY <1>1, <1>2, <1>3, <1>4, <1>5, <1>6, <1>7, <1>8, <1>9 DEF RecStep

LEMMA SwapType ==
  ASSUME TypeOK, NEW burned \in SUBSET NoteIds, NEW minted \in SUBSET NoteIds,
         Swap(burned, minted)
  PROVE  TypeOK'
BY DEF TypeOK, Swap, Reservable, RecBusy, lightning, reconcile

LEMMA CrashType == TypeOK /\ Crash => TypeOK'
BY ConstantsAssumption
   DEF TypeOK, Crash, RecBusy, RecSteps, Steps, NodeStates, EmptySnapshot, database

LEMMA StutterType == TypeOK /\ UNCHANGED vars => TypeOK'
BY DEF TypeOK, RecBusy, vars, database, lightning, reconcile

LEMMA TypeStep == TypeOK /\ [Next]_vars => TypeOK'
BY RequestType, NodeType, ReconcileType, SwapType, CrashType, StutterType DEF Next

\* Every variable keeps its type, and a reconcile task has a payment hash in
\* hand exactly while it settles one.
THEOREM TypeCorrect == Spec => []TypeOK
BY InitType, TypeStep, PTL DEF Spec

-----------------------------------------------------------------------------
(***************************************************************************)
(* A spent note stays spent.  Only finalize_melt and swap write the spent  *)
(* column, and restore leaves it alone.                                    *)
(***************************************************************************)
LEMMA RequestKeepsSpent ==
  ASSUME TypeOK, NEW m \in Melts, MeltStep(m), NEW n \in NoteIds
  PROVE  status'[n] = status[n] \/ status'[n] = "spent"
BY DEF TypeOK, MeltStep, CheckMelt, MarkPending, RefuseMelt, TrackStart, RecordMelt,
       RecordFails, PayInvoice, PayRefused, PaySucceeds, PayUnclear, ConfirmMelt,
       FinalizeNote, SettleMelt, RestoreNote, TrackEnd, FinalizeMelt, Restore, database

LEMMA ReconcileKeepsSpent ==
  ASSUME TypeOK, NEW r \in Recs, RecStep(r), NEW n \in NoteIds
  PROVE  status'[n] = status[n] \/ status'[n] = "spent"
BY DEF TypeOK, RecStep, RecSnapshot, RecSkip, RecVisit, RecAnswered, RecUnclear,
       RecFinalize, RecSettle, RecRestore, RecDone, FinalizeMelt, Restore, database

LEMMA StepKeepsSpent ==
  ASSUME TypeOK, [Next]_vars, NEW n \in NoteIds
  PROVE  /\ status[n] = "spent" => status'[n] = "spent"
         /\ status[n] # "absent" => status'[n] # "absent"
<1>1. ASSUME NEW m \in Melts, MeltStep(m)
      PROVE  status'[n] = status[n] \/ status'[n] = "spent"
  BY <1>1, RequestKeepsSpent
<1>2. ASSUME NEW h \in Hashes, NodeMoves(h)
      PROVE  status'[n] = status[n]
  BY <1>2 DEF NodeMoves, NodeRegisters, NodeSettles, NodeFails, NodeStep, database
<1>3. ASSUME NEW r \in Recs, RecStep(r)
      PROVE  status'[n] = status[n] \/ status'[n] = "spent"
  BY <1>3, ReconcileKeepsSpent
<1>4. ASSUME NEW burned \in SUBSET NoteIds, NEW minted \in SUBSET NoteIds,
             Swap(burned, minted)
      PROVE  \/ status'[n] = status[n]
             \/ status'[n] = "spent"
             \/ status[n] = "absent" /\ status'[n] = "live"
  BY <1>4 DEF Swap
<1>5. CASE Crash
  BY <1>5 DEF Crash, database
<1>6. CASE UNCHANGED vars
  BY <1>6 DEF vars, database
<1>7. QED
  BY <1>1, <1>2, <1>3, <1>4, <1>5, <1>6 DEF Next

\* No step clears the spent column or deletes a note.
THEOREM SpentNotesStaySpent == Spec => SpentIsForever
<1>1. TypeOK /\ [Next]_vars
        => [\A n \in NoteIds : /\ status[n] = "spent" => status'[n] = "spent"
                               /\ status[n] # "absent" => status'[n] # "absent"]_vars
  BY StepKeepsSpent
<1>2. QED
  BY <1>1, TypeCorrect, PTL DEF Spec, SpentIsForever

-----------------------------------------------------------------------------
(***************************************************************************)
(* A note is burned only for value, as long as no two notes are melted     *)
(* into the same invoice.  What carries it: every trace of a melt          *)
(* (the payment, the reservation, a reconcile snapshot) leads back to a    *)
(* request for that note and that invoice, and whoever is about to burn    *)
(* has seen the payment settled.                                           *)
(***************************************************************************)
Requested(n, h) == \E m \in Melts : noteOf[m] = n /\ hashOf[m] = h

PaymentsRequested ==
  \A h \in Hashes :
    /\ payer[h] # NoNote => Requested(payer[h], h)
    /\ node[h] \in {"sending", "inflight", "settled"} => payer[h] # NoNote

ReservationsRequested ==
  \A n \in NoteIds : reserved[n] # NoHash => Requested(n, reserved[n])

SnapshotsRequested ==
  \A r \in Recs, h \in Hashes : \A n \in snap[r][h] : Requested(n, h)

BurnsConfirmed ==
  /\ \A m \in Melts : pc[m] = "finalizing" => node[hashOf[m]] = "settled"
  /\ \A r \in Recs : rpc[r] = "finalizing" => node[cur[r]] = "settled"

TraceInv ==
  /\ TypeOK
  /\ PaymentsRequested
  /\ ReservationsRequested
  /\ SnapshotsRequested
  /\ BurnsConfirmed

FundedInv == TraceInv /\ FundedBurn

\* A settled payment stays settled, and on behalf of the same note; a burn on
\* record stays on record.
LEMMA ValueStaysOut ==
  ASSUME TypeOK, [Next]_vars
  PROVE  /\ \A h \in Hashes : node[h] = "settled" =>
                node'[h] = "settled" /\ payer'[h] = payer[h]
         /\ burns \subseteq burns'
<1> USE DEF TypeOK
<1>1. ASSUME NEW m \in Melts, MeltStep(m)
      PROVE  /\ \A h \in Hashes : node[h] = "settled" => node'[h] = "settled" /\ payer'[h] = payer[h]
             /\ burns' = burns
  BY <1>1 DEF MeltStep, Goto, CheckMelt, MarkPending, RefuseMelt, TrackStart,
     RecordMelt, RecordFails, PayInvoice, PayRefused, PaySucceeds, PayUnclear,
     ConfirmMelt, FinalizeNote, SettleMelt, RestoreNote, TrackEnd, database, lightning
<1>2. ASSUME NEW h0 \in Hashes, NodeMoves(h0)
      PROVE  /\ \A h \in Hashes : node[h] = "settled" => node'[h] = "settled" /\ payer'[h] = payer[h]
             /\ burns' = burns
  BY <1>2 DEF NodeMoves, NodeRegisters, NodeSettles, NodeFails, NodeStep, database
<1>3. ASSUME NEW r \in Recs, RecStep(r)
      PROVE  UNCHANGED <<node, payer, burns>>
  BY <1>3 DEF RecStep, RecSnapshot, RecSkip, RecVisit, RecAnswered, RecUnclear,
     RecFinalize, RecSettle, RecRestore, RecDone, database, lightning
<1>4. ASSUME NEW burned \in SUBSET NoteIds, NEW minted \in SUBSET NoteIds,
             Swap(burned, minted)
      PROVE  UNCHANGED <<node, payer>> /\ burns \subseteq burns'
  BY <1>4 DEF Swap, lightning
<1>5. CASE Crash
  BY <1>5 DEF Crash, database
<1>6. CASE UNCHANGED vars
  BY <1>6 DEF vars, database, lightning
<1>7. QED
  BY <1>1, <1>2, <1>3, <1>4, <1>5, <1>6 DEF Next, Crash, database, vars, lightning

LEMMA InitFunded == Init => FundedInv
BY InitType, ConstantsAssumption
   DEF Init, FundedInv, TraceInv, PaymentsRequested, ReservationsRequested, SnapshotsRequested,
       BurnsConfirmed, FundedBurn, EmptySnapshot

\* A payment in flight was asked for by the request of its note.
LEMMA PaymentsRequestedStep ==
  ASSUME TraceInv, [Next]_vars
  PROVE  PaymentsRequested'
<1> USE ConstantsAssumption DEF TraceInv, TypeOK, PaymentsRequested, Requested
<1>1. ASSUME NEW m \in Melts, MeltStep(m)
      PROVE  PaymentsRequested'
  BY <1>1 DEF MeltStep, Goto, CheckMelt, MarkPending, RefuseMelt, TrackStart,
     RecordMelt, RecordFails, PayInvoice, PayRefused, PaySucceeds, PayUnclear,
     ConfirmMelt, FinalizeNote, SettleMelt, RestoreNote, TrackEnd, lightning
<1>2. ASSUME NEW h0 \in Hashes, NodeMoves(h0)
      PROVE  PaymentsRequested'
  BY <1>2 DEF NodeMoves, NodeRegisters, NodeSettles, NodeFails, NodeStep
<1>3. ASSUME NEW r \in Recs, RecStep(r)
      PROVE  PaymentsRequested'
  BY <1>3 DEF RecStep, RecSnapshot, RecSkip, RecVisit, RecAnswered, RecUnclear,
     RecFinalize, RecSettle, RecRestore, RecDone, lightning
<1>4. ASSUME NEW burned \in SUBSET NoteIds, NEW minted \in SUBSET NoteIds,
             Swap(burned, minted)
      PROVE  PaymentsRequested'
  BY <1>4 DEF Swap, lightning
<1>5. CASE Crash
  BY <1>5 DEF Crash
<1>6. CASE UNCHANGED vars
  BY <1>6 DEF vars, lightning
<1>7. QED
  BY <1>1, <1>2, <1>3, <1>4, <1>5, <1>6 DEF Next

\* A reservation was made by the request that names its note and its invoice,
\* and so was every entry of a reconcile snapshot.
LEMMA ReservationsRequestedStep ==
  ASSUME TraceInv, [Next]_vars
  PROVE  ReservationsRequested' /\ SnapshotsRequested'
<1> USE ConstantsAssumption
    DEF TraceInv, TypeOK, ReservationsRequested, SnapshotsRequested, Requested
<1>1. ASSUME NEW m \in Melts, MeltStep(m)
      PROVE  ReservationsRequested' /\ SnapshotsRequested'
  BY <1>1 DEF MeltStep, Goto, CheckMelt, MarkPending, RefuseMelt, TrackStart,
     RecordMelt, RecordFails, PayInvoice, PayRefused, PaySucceeds, PayUnclear,
     ConfirmMelt, FinalizeNote, SettleMelt, RestoreNote, TrackEnd, FinalizeMelt,
     Restore, Unreserve, database, reconcile
<1>2. ASSUME NEW h0 \in Hashes, NodeMoves(h0)
      PROVE  ReservationsRequested' /\ SnapshotsRequested'
  BY <1>2 DEF NodeMoves, NodeRegisters, NodeSettles, NodeFails, NodeStep, database, reconcile
<1>3. ASSUME NEW r \in Recs, RecStep(r)
      PROVE  ReservationsRequested' /\ SnapshotsRequested'
  <2>1. ReservationsRequested'
    BY <1>3 DEF RecStep, RecSnapshot, RecSkip, RecVisit, RecAnswered, RecUnclear,
       RecFinalize, RecSettle, RecRestore, RecDone, FinalizeMelt, Restore, Unreserve, database
  <2>2. CASE RecSnapshot(r)
    <3>1. \A q \in Recs, h \in Hashes : \A n \in snap'[q][h] :
            n \in snap[q][h] \/ (reserved[n] = h /\ n \in NoteIds)
      BY <2>2 DEF RecSnapshot, PendingMelts
    <3>2. ReservationsRequested /\ SnapshotsRequested
      OBVIOUS
    <3> HIDE DEF TraceInv, TypeOK, Requested
    <3>3. ASSUME NEW q \in Recs, NEW h \in Hashes, NEW n \in snap'[q][h]
          PROVE  Requested(n, h)
      <4>1. CASE n \in snap[q][h]
        BY <3>2, <4>1
      <4>2. CASE reserved[n] = h /\ n \in NoteIds
        BY <3>2, <4>2
      <4>3. QED
        BY <3>1, <4>1, <4>2
    <3>4. QED
      BY <2>1, <3>3
  <2>3. CASE ~RecSnapshot(r)
    <3>1. \A q \in Recs, h \in Hashes : snap'[q][h] \subseteq snap[q][h]
      BY <1>3, <2>3 DEF RecStep, RecSkip, RecVisit, RecAnswered, RecUnclear,
         RecFinalize, RecSettle, RecRestore, RecDone, NextMelt
    <3>2. QED
      BY <2>1, <3>1
  <2>4. QED
    BY <2>1, <2>2, <2>3
<1>4. ASSUME NEW burned \in SUBSET NoteIds, NEW minted \in SUBSET NoteIds,
             Swap(burned, minted)
      PROVE  ReservationsRequested' /\ SnapshotsRequested'
  BY <1>4 DEF Swap, reconcile
<1>5. CASE Crash
  BY <1>5 DEF Crash, EmptySnapshot, database
<1>6. CASE UNCHANGED vars
  BY <1>6 DEF vars, database, reconcile
<1>7. QED
  BY <1>1, <1>2, <1>3, <1>4, <1>5, <1>6 DEF Next

\* Whoever is about to burn a note has seen its payment settled.
LEMMA BurnsConfirmedStep ==
  ASSUME TraceInv, [Next]_vars
  PROVE  BurnsConfirmed'
<1> USE ConstantsAssumption DEF TraceInv, TypeOK, BurnsConfirmed
<1>0. \A h \in Hashes : node[h] = "settled" => node'[h] = "settled"
  BY ValueStaysOut
<1>1. ASSUME NEW m \in Melts, MeltStep(m)
      PROVE  BurnsConfirmed'
  <2>1. UNCHANGED <<rpc, cur>>
    BY <1>1 DEF MeltStep, CheckMelt, MarkPending, RefuseMelt, TrackStart,
       RecordMelt, RecordFails, PayInvoice, PayRefused, PaySucceeds, PayUnclear,
       ConfirmMelt, FinalizeNote, SettleMelt, RestoreNote, TrackEnd, reconcile
  <2>2. \A q \in Melts : pc'[q] = "finalizing" =>
          pc[q] = "finalizing" \/ node[hashOf[q]] = "settled"
    <3>1. CASE PaySucceeds(m)
      BY <3>1 DEF PaySucceeds, Goto
    <3>2. ASSUME NEW answer \in Answers, ConfirmMelt(m, answer)
          PROVE  \A q \in Melts : pc'[q] = "finalizing" =>
                   pc[q] = "finalizing" \/ node[hashOf[q]] = "settled"
      BY <3>2 DEF ConfirmMelt, Goto, AfterAnswer, Answers, Reports
    <3>3. CASE /\ ~PaySucceeds(m)
               /\ ~\E answer \in Answers : ConfirmMelt(m, answer)
      BY <1>1, <3>3 DEF MeltStep, Goto, CheckMelt, MarkPending, RefuseMelt, TrackStart,
         RecordMelt, RecordFails, PayInvoice, PayRefused, PayUnclear, FinalizeNote,
         SettleMelt, RestoreNote, TrackEnd
    <3>4. QED
      BY <3>1, <3>2, <3>3
  <2>3. \A q \in Recs : rpc[q] = "finalizing" => cur[q] \in Hashes
    BY DEF RecBusy
  <2>4. QED
    BY <1>0, <2>1, <2>2, <2>3
<1>2. ASSUME NEW h0 \in Hashes, NodeMoves(h0)
      PROVE  BurnsConfirmed'
  BY <1>0, <1>2 DEF NodeMoves, NodeRegisters, NodeSettles, NodeFails, NodeStep,
     reconcile, RecBusy
<1>3. ASSUME NEW r \in Recs, RecStep(r)
      PROVE  BurnsConfirmed'
  <2>1. UNCHANGED <<pc, node>>
    BY <1>3 DEF RecStep, RecSnapshot, RecSkip, RecVisit, RecAnswered, RecUnclear,
       RecFinalize, RecSettle, RecRestore, RecDone, lightning
  <2>2. \A q \in Recs : rpc'[q] = "finalizing" =>
          cur'[q] = cur[q] /\ (rpc[q] = "finalizing" \/ node[cur[q]] = "settled")
    BY <1>3 DEF RecStep, RecGoto, RecSnapshot, RecSkip, RecVisit, RecAnswered,
       RecUnclear, RecFinalize, RecSettle, RecRestore, RecDone, NextMelt,
       AfterAnswer, Answers, Reports
  <2>3. QED
    BY <2>1, <2>2
<1>4. ASSUME NEW burned \in SUBSET NoteIds, NEW minted \in SUBSET NoteIds,
             Swap(burned, minted)
      PROVE  BurnsConfirmed'
  BY <1>4 DEF Swap, lightning, reconcile
<1>5. CASE Crash
  BY <1>5 DEF Crash, Running
<1>6. CASE UNCHANGED vars
  BY <1>6 DEF vars, lightning, reconcile
<1>7. QED
  BY <1>1, <1>2, <1>3, <1>4, <1>5, <1>6 DEF Next

LEMMA TraceStep == TraceInv /\ [Next]_vars => TraceInv'
BY TypeStep, PaymentsRequestedStep, ReservationsRequestedStep, BurnsConfirmedStep
   DEF TraceInv

\* With one note per invoice, a settled payment is the payment of the note
\* whose request named it.
LEMMA SettledPaysItsNote ==
  ASSUME TraceInv, OneNotePerInvoice, NEW n \in NoteIds, NEW h \in Hashes,
         Requested(n, h), node[h] = "settled"
  PROVE  PaysOut(h, n)
<1>1. PICK m \in Melts : noteOf[m] = n /\ hashOf[m] = h
  BY DEF Requested
<1>2. PICK q \in Melts : noteOf[q] = payer[h] /\ hashOf[q] = h
  BY DEF TraceInv, PaymentsRequested, Requested
<1>3. noteOf[m] = noteOf[q]
  BY <1>1, <1>2 DEF OneNotePerInvoice
<1>4. QED
  BY <1>1, <1>2, <1>3 DEF PaysOut

\* The only steps that burn a note: finalize_melt by its request or by a
\* reconcile task, and swap.
LEMMA WhoBurns ==
  ASSUME TypeOK, [Next]_vars, NEW n \in NoteIds, status[n] # "spent", status'[n] = "spent"
  PROVE  \/ \E m \in Melts : pc[m] = "finalizing" /\ noteOf[m] = n
         \/ \E r \in Recs : rpc[r] = "finalizing" /\ n \in snap[r][cur[r]]
         \/ Swapped(n)'
<1> USE DEF TypeOK
<1>1. ASSUME NEW m \in Melts, MeltStep(m)
      PROVE  pc[m] = "finalizing" /\ noteOf[m] = n
  BY <1>1 DEF MeltStep, Goto, CheckMelt, MarkPending, RefuseMelt, TrackStart,
     RecordMelt, RecordFails, PayInvoice, PayRefused, PaySucceeds, PayUnclear,
     ConfirmMelt, FinalizeNote, SettleMelt, RestoreNote, TrackEnd, FinalizeMelt,
     Restore, database
<1>2. ASSUME NEW h0 \in Hashes, NodeMoves(h0)
      PROVE  FALSE
  BY <1>2 DEF NodeMoves, NodeRegisters, NodeSettles, NodeFails, NodeStep, database
<1>3. ASSUME NEW r \in Recs, RecStep(r)
      PROVE  rpc[r] = "finalizing" /\ n \in snap[r][cur[r]]
  BY <1>3 DEF RecStep, RecGoto, RecSnapshot, RecSkip, RecVisit, RecAnswered,
     RecUnclear, RecFinalize, RecSettle, RecRestore, RecDone, FinalizeMelt,
     Restore, database
<1>4. ASSUME NEW burned \in SUBSET NoteIds, NEW minted \in SUBSET NoteIds,
             Swap(burned, minted)
      PROVE  Swapped(n)'
  <2>1. n \in burned /\ burns' = burns \cup {burned}
    BY <1>4 DEF Swap
  <2>2. QED
    BY <2>1 DEF Swapped
<1>5. ~Crash /\ ~UNCHANGED vars
  BY DEF Crash, database, vars
<1>6. QED
  BY <1>1, <1>2, <1>3, <1>4, <1>5 DEF Next

LEMMA FundedBurnStep ==
  ASSUME FundedInv, OneNotePerInvoice, [Next]_vars
  PROVE  FundedBurn'
<1> SUFFICES ASSUME NEW n \in NoteIds, status'[n] = "spent"
             PROVE  Swapped(n)' \/ PaidOut(n)'
  BY DEF FundedBurn
<1>1. TypeOK /\ TraceInv
  BY DEF FundedInv, TraceInv
<1>2. ASSUME NEW h \in Hashes, PaysOut(h, n)
      PROVE  PaidOut(n)'
  BY <1>1, <1>2, ValueStaysOut DEF PaysOut, PaidOut
<1>3. CASE status[n] = "spent"
  <2>1. Swapped(n) \/ PaidOut(n)
    BY <1>3 DEF FundedInv, FundedBurn
  <2>2. Swapped(n) => Swapped(n)'
    BY <1>1, ValueStaysOut DEF Swapped
  <2>3. QED
    BY <1>2, <2>1, <2>2 DEF PaidOut
<1>4. ASSUME NEW m \in Melts, pc[m] = "finalizing", noteOf[m] = n
      PROVE  PaidOut(n)'
  <2>1. /\ hashOf[m] \in Hashes
        /\ Requested(n, hashOf[m])
        /\ node[hashOf[m]] = "settled"
    BY <1>1, <1>4, ConstantsAssumption DEF TraceInv, BurnsConfirmed, Requested
  <2>2. QED
    BY <1>1, <1>2, <2>1, SettledPaysItsNote
<1>5. ASSUME NEW r \in Recs, rpc[r] = "finalizing", n \in snap[r][cur[r]]
      PROVE  PaidOut(n)'
  <2>1. cur[r] \in Hashes
    BY <1>1, <1>5 DEF TypeOK, RecBusy
  <2>2. Requested(n, cur[r]) /\ node[cur[r]] = "settled"
    BY <1>1, <1>5, <2>1 DEF TraceInv, BurnsConfirmed, SnapshotsRequested
  <2>3. QED
    BY <1>1, <1>2, <2>1, <2>2, SettledPaysItsNote
<1>6. QED
  BY <1>1, <1>3, <1>4, <1>5, WhoBurns

\* As long as no two notes are melted into the same invoice, every burned note was
\* swapped or paid out on its own behalf: through any interleaving of
\* requests and reconcile passes, any crash, whatever the node answers.
THEOREM BurnsAreFunded == OneNotePerInvoice => (Spec => []FundedBurn)
<1> SUFFICES ASSUME OneNotePerInvoice
             PROVE  Spec => []FundedBurn
  OBVIOUS
<1>1. FundedInv /\ [Next]_vars => FundedInv'
  BY TraceStep, FundedBurnStep DEF FundedInv
<1>2. FundedInv => FundedBurn
  BY DEF FundedInv
<1>3. QED
  BY InitFunded, <1>1, <1>2, PTL DEF Spec

-----------------------------------------------------------------------------
(***************************************************************************)
(* A melt reported settled was paid, and a note on record for it is        *)
(* burned.  Whoever is about to report it has the payment settled and the  *)
(* note burned already; a reconcile task settles no hash without a note.   *)
(***************************************************************************)
BusyOnNotes == \A r \in Recs : RecBusy(r) => snap[r][cur[r]] # {}

BurnedBeforeReport ==
  /\ \A m \in Melts : pc[m] = "settling" =>
       node[hashOf[m]] = "settled" /\ status[noteOf[m]] = "spent"
  /\ \A r \in Recs : rpc[r] = "settling" =>
       /\ node[cur[r]] = "settled"
       /\ \A n \in snap[r][cur[r]] : status[n] = "spent"

SettledInv == TraceInv /\ BusyOnNotes /\ BurnedBeforeReport /\ SettledHonest

LEMMA InitSettled == Init => SettledInv
<1>1. Init => TraceInv
  BY InitFunded DEF FundedInv
<1>2. QED
  BY <1>1 DEF Init, SettledInv, BusyOnNotes, RecBusy, BurnedBeforeReport, SettledHonest

LEMMA BusyOnNotesStep ==
  ASSUME TypeOK, BusyOnNotes, [Next]_vars
  PROVE  BusyOnNotes'
<1> USE DEF TypeOK, BusyOnNotes, RecBusy
<1>1. ASSUME NEW r \in Recs, RecStep(r)
      PROVE  BusyOnNotes'
  <2>1. \A q \in Recs \ {r} : UNCHANGED <<rpc[q], cur[q], snap[q]>>
    BY <1>1 DEF RecStep, RecGoto, RecSnapshot, RecSkip, RecVisit, RecAnswered,
       RecUnclear, RecFinalize, RecSettle, RecRestore, RecDone, NextMelt
  <2>2. RecBusy(r)' => snap'[r][cur'[r]] # {}
    BY <1>1 DEF RecStep, RecGoto, RecSnapshot, RecSkip, RecVisit, RecAnswered,
       RecUnclear, RecFinalize, RecSettle, RecRestore, RecDone, NextMelt
  <2>3. QED
    BY <2>1, <2>2
<1>2. CASE UNCHANGED reconcile
  BY <1>2 DEF reconcile
<1>3. CASE Crash
  BY <1>3 DEF Crash
<1>4. ASSUME NEW m \in Melts, MeltStep(m)
      PROVE  UNCHANGED reconcile
  BY <1>4 DEF MeltStep, CheckMelt, MarkPending, RefuseMelt, TrackStart, RecordMelt,
     RecordFails, PayInvoice, PayRefused, PaySucceeds, PayUnclear, ConfirmMelt,
     FinalizeNote, SettleMelt, RestoreNote, TrackEnd
<1>5. ASSUME NEW h \in Hashes, NodeMoves(h)
      PROVE  UNCHANGED reconcile
  BY <1>5 DEF NodeMoves, NodeRegisters, NodeSettles, NodeFails, NodeStep
<1>6. QED
  BY <1>1, <1>2, <1>3, <1>4, <1>5 DEF Next, Swap, vars

LEMMA BurnedBeforeReportStep ==
  ASSUME SettledInv, [Next]_vars
  PROVE  BurnedBeforeReport'
<1> USE ConstantsAssumption DEF TypeOK, BurnedBeforeReport
<1>0. TypeOK /\ BurnsConfirmed /\ BurnedBeforeReport
  BY DEF SettledInv, TraceInv
<1>1. \A h \in Hashes : node[h] = "settled" => node'[h] = "settled"
  BY <1>0, ValueStaysOut
<1>2. \A n \in NoteIds : status[n] = "spent" => status'[n] = "spent"
  BY <1>0, StepKeepsSpent
<1>3. \A q \in Recs : rpc[q] = "settling" =>
        cur[q] \in Hashes /\ snap[q][cur[q]] \subseteq NoteIds
  BY <1>0 DEF RecBusy
<1>4. ASSUME NEW m \in Melts, MeltStep(m)
      PROVE  BurnedBeforeReport'
  <2>1. UNCHANGED <<rpc, cur, snap>>
    BY <1>4 DEF MeltStep, CheckMelt, MarkPending, RefuseMelt, TrackStart,
       RecordMelt, RecordFails, PayInvoice, PayRefused, PaySucceeds, PayUnclear,
       ConfirmMelt, FinalizeNote, SettleMelt, RestoreNote, TrackEnd, reconcile
  <2>2. ASSUME NEW q \in Melts, pc'[q] = "settling", pc[q] # "settling"
        PROVE  node[hashOf[q]] = "settled" /\ status'[noteOf[q]] = "spent"
    <3>1. CASE FinalizeNote(m)
      BY <1>0, <2>2, <3>1 DEF FinalizeNote, FinalizeMelt, Goto, BurnsConfirmed
    <3>2. CASE ~FinalizeNote(m)
      BY <1>0, <1>4, <2>2, <3>2 DEF MeltStep, Goto, CheckMelt, MarkPending, RefuseMelt,
         TrackStart, RecordMelt, RecordFails, PayInvoice, PayRefused, PaySucceeds,
         PayUnclear, ConfirmMelt, AfterAnswer, SettleMelt, RestoreNote, TrackEnd
    <3>3. QED
      BY <3>1, <3>2
  <2>3. QED
    BY <1>0, <1>1, <1>2, <1>3, <2>1, <2>2
<1>5. ASSUME NEW r \in Recs, RecStep(r)
      PROVE  BurnedBeforeReport'
  <2>1. UNCHANGED <<pc, node>>
    BY <1>5 DEF RecStep, RecSnapshot, RecSkip, RecVisit, RecAnswered, RecUnclear,
       RecFinalize, RecSettle, RecRestore, RecDone, lightning
  <2>2. \A q \in Recs : rpc'[q] = "settling" =>
          /\ UNCHANGED <<cur[q], snap[q]>>
          /\ \/ rpc[q] = "settling"
             \/ /\ rpc[q] = "finalizing"
                /\ \A n \in NoteIds : n \in snap[q][cur[q]] => status'[n] = "spent"
    <3>1. CASE RecFinalize(r)
      BY <1>0, <3>1 DEF RecFinalize, RecGoto, FinalizeMelt
    <3>2. CASE ~RecFinalize(r)
      BY <1>0, <1>5, <3>2 DEF RecStep, RecGoto, RecSnapshot, RecSkip, RecVisit,
         RecAnswered, AfterAnswer, RecUnclear, RecSettle, RecRestore, RecDone, NextMelt
    <3>3. QED
      BY <3>1, <3>2
  <2>3. \A q \in Recs : rpc[q] = "finalizing" =>
          /\ cur[q] \in Hashes
          /\ snap[q][cur[q]] \subseteq NoteIds
          /\ node[cur[q]] = "settled"
    BY <1>0 DEF RecBusy, BurnsConfirmed
  <2>4. ASSUME NEW m \in Melts, pc'[m] = "settling"
        PROVE  node'[hashOf[m]] = "settled" /\ status'[noteOf[m]] = "spent"
    BY <1>0, <1>2, <2>1, <2>4
  <2>5. ASSUME NEW q \in Recs, rpc'[q] = "settling"
        PROVE  /\ node'[cur'[q]] = "settled"
               /\ \A n \in snap'[q][cur'[q]] : status'[n] = "spent"
    BY <1>0, <1>1, <1>2, <1>3, <2>2, <2>3, <2>5
  <2>6. QED
    BY <2>4, <2>5
<1>6. CASE UNCHANGED <<pc, reconcile>>
  BY <1>0, <1>1, <1>2, <1>3, <1>6 DEF reconcile
<1>7. CASE Crash
  BY <1>0, <1>1, <1>2, <1>7 DEF Crash, Running
<1>8. ASSUME NEW h \in Hashes, NodeMoves(h)
      PROVE  UNCHANGED <<pc, reconcile>>
  BY <1>8 DEF NodeMoves, NodeRegisters, NodeSettles, NodeFails, NodeStep
<1>9. QED
  BY <1>4, <1>5, <1>6, <1>7, <1>8 DEF Next, Swap, vars

\* The only steps that report a melt settled.
LEMMA WhoReports ==
  ASSUME TypeOK, [Next]_vars, NEW h \in Hashes, melts[h] # "settled", melts'[h] = "settled"
  PROVE  \/ \E m \in Melts : pc[m] = "settling" /\ hashOf[m] = h
         \/ \E r \in Recs : rpc[r] = "settling" /\ cur[r] = h
<1> USE DEF TypeOK
<1>1. ASSUME NEW m \in Melts, MeltStep(m)
      PROVE  pc[m] = "settling" /\ hashOf[m] = h
  BY <1>1 DEF MeltStep, Goto, CheckMelt, MarkPending, RefuseMelt, TrackStart,
     RecordMelt, RecordFails, PayInvoice, PayRefused, PaySucceeds, PayUnclear,
     ConfirmMelt, FinalizeNote, SettleMelt, RestoreNote, TrackEnd, MarkMeltSettled, database
<1>2. ASSUME NEW r \in Recs, RecStep(r)
      PROVE  rpc[r] = "settling" /\ cur[r] = h
  BY <1>2 DEF RecStep, RecGoto, RecSnapshot, RecSkip, RecVisit, RecAnswered,
     RecUnclear, RecFinalize, RecSettle, RecRestore, RecDone, MarkMeltSettled, database
<1>3. ASSUME NEW g \in Hashes, NodeMoves(g)
      PROVE  UNCHANGED melts
  BY <1>3 DEF NodeMoves, NodeRegisters, NodeSettles, NodeFails, NodeStep, database
<1>4. QED
  BY <1>1, <1>2, <1>3 DEF Next, Swap, Crash, database, vars

LEMMA SettledHonestStep ==
  ASSUME SettledInv, [Next]_vars
  PROVE  SettledHonest'
<1>0. TypeOK /\ SnapshotsRequested /\ BusyOnNotes /\ BurnedBeforeReport /\ SettledHonest
  BY DEF SettledInv, TraceInv
<1>1. \A h \in Hashes : node[h] = "settled" => node'[h] = "settled"
  BY <1>0, ValueStaysOut
<1>2. \A n \in NoteIds : status[n] = "spent" => status'[n] = "spent"
  BY <1>0, StepKeepsSpent
<1>3. ASSUME NEW h \in Hashes, node[h] = "settled",
             \E m \in Melts : hashOf[m] = h /\ status[noteOf[m]] = "spent"
      PROVE  /\ node'[h] = "settled"
             /\ \E m \in Melts : hashOf[m] = h /\ status'[noteOf[m]] = "spent"
  BY <1>1, <1>2, <1>3, ConstantsAssumption
<1>4. ASSUME NEW h \in Hashes, melts[h] # "settled", melts'[h] = "settled"
      PROVE  /\ node[h] = "settled"
             /\ \E m \in Melts : hashOf[m] = h /\ status[noteOf[m]] = "spent"
  <2>1. CASE \E m \in Melts : pc[m] = "settling" /\ hashOf[m] = h
    BY <1>0, <2>1 DEF BurnedBeforeReport
  <2>2. ASSUME NEW r \in Recs, rpc[r] = "settling", cur[r] = h
        PROVE  /\ node[h] = "settled"
               /\ \E m \in Melts : hashOf[m] = h /\ status[noteOf[m]] = "spent"
    <3>1. PICK n \in snap[r][h] : TRUE
      BY <1>0, <2>2 DEF BusyOnNotes, RecBusy
    <3>2. status[n] = "spent" /\ node[h] = "settled" /\ Requested(n, h)
      BY <1>0, <2>2, <3>1 DEF BurnedBeforeReport, SnapshotsRequested
    <3>3. QED
      BY <3>2 DEF Requested
  <2>3. QED
    BY <1>0, <1>4, <2>1, <2>2, WhoReports
<1>5. QED
  BY <1>0, <1>3, <1>4 DEF SettledHonest

\* Whatever the requests and their invoices: a melt is reported settled only
\* once its payment went through and a note that named it is burned.
THEOREM SettledReportsAreHonest == Spec => []SettledHonest
<1>1. SettledInv /\ [Next]_vars => SettledInv'
  BY TraceStep, BusyOnNotesStep, BurnedBeforeReportStep, SettledHonestStep
     DEF SettledInv, TraceInv
<1>2. SettledInv => SettledHonest
  BY DEF SettledInv
<1>3. QED
  BY InitSettled, <1>1, <1>2, PTL DEF Spec

-----------------------------------------------------------------------------
(***************************************************************************)
(* The in-flight registry counts exactly the melts being handled.          *)
(***************************************************************************)
Handled(h) == {m \in Melts : hashOf[m] = h /\ pc[m] \in TrackedSteps}

LEMMA HandledFinite ==
  ASSUME IsFiniteSet(Melts), NEW h \in Hashes
  PROVE  IsFiniteSet(Handled(h)) /\ Cardinality(Handled(h)) \in Nat
BY FS_Subset, FS_CardinalityType DEF Handled

\* A request that is neither taken up nor finished leaves the count alone.
LEMMA HandledKept ==
  ASSUME TypeOK, NEW m \in Melts, MeltStep(m), ~TrackStart(m), ~TrackEnd(m)
  PROVE  inFlight' = inFlight /\ \A h \in Hashes : Handled(h)' = Handled(h)
<1>1. inFlight' = inFlight
  BY DEF MeltStep, CheckMelt, MarkPending, RefuseMelt, RecordMelt, RecordFails,
     PayInvoice, PayRefused, PaySucceeds, PayUnclear, ConfirmMelt, FinalizeNote,
     SettleMelt, RestoreNote
<1>2. \A q \in Melts : pc'[q] \in TrackedSteps <=> pc[q] \in TrackedSteps
  BY DEF TypeOK, TrackedSteps, MeltStep, Goto, CheckMelt, MarkPending, RefuseMelt,
     RecordMelt, RecordFails, PayInvoice, PayRefused, PaySucceeds, PayUnclear,
     ConfirmMelt, AfterAnswer, FinalizeNote, SettleMelt, RestoreNote
<1>3. QED
  BY <1>1, <1>2 DEF Handled

LEMMA RegistryStep ==
  ASSUME IsFiniteSet(Melts), TypeOK, RegistryExact, [Next]_vars
  PROVE  RegistryExact'
<1> SUFFICES ASSUME NEW h \in Hashes
             PROVE  inFlight'[h] = Cardinality(Handled(h)')
  BY DEF RegistryExact, Handled
<1>0. /\ inFlight[h] = Cardinality(Handled(h))
      /\ IsFiniteSet(Handled(h))
      /\ Cardinality(Handled(h)) \in Nat
  BY HandledFinite DEF RegistryExact, Handled
<1>1. ASSUME NEW m \in Melts, TrackStart(m)
      PROVE  inFlight'[h] = Cardinality(Handled(h)')
  <2>1. m \notin Handled(h)
    BY <1>1 DEF TrackStart, Goto, Handled, TrackedSteps
  <2>2. CASE hashOf[m] = h
    <3>1. Handled(h)' = Handled(h) \cup {m}
      BY <1>1, <2>2 DEF TypeOK, TrackStart, Goto, Handled, TrackedSteps
    <3>2. inFlight'[h] = inFlight[h] + 1
      BY <1>1, <2>2 DEF TypeOK, TrackStart
    <3>3. QED
      BY <1>0, <2>1, <3>1, <3>2, FS_AddElement
  <2>3. CASE hashOf[m] # h
    <3>1. Handled(h)' = Handled(h)
      BY <1>1, <2>3 DEF TypeOK, TrackStart, Goto, Handled
    <3>2. QED
      BY <1>0, <1>1, <2>3, <3>1 DEF TypeOK, TrackStart
  <2>4. QED
    BY <2>2, <2>3
<1>2. ASSUME NEW m \in Melts, TrackEnd(m)
      PROVE  inFlight'[h] = Cardinality(Handled(h)')
  <2>1. CASE hashOf[m] = h
    <3>1. m \in Handled(h)
      BY <1>2, <2>1 DEF TrackEnd, Goto, Handled, TrackedSteps
    <3>2. Handled(h)' = Handled(h) \ {m}
      BY <1>2, <2>1 DEF TypeOK, TrackEnd, Goto, Handled, TrackedSteps
    <3>3. Cardinality(Handled(h)') = Cardinality(Handled(h)) - 1
      BY <1>0, <3>1, <3>2, FS_RemoveElement
    <3>4. Cardinality(Handled(h)) # 0
      BY <1>0, <3>1, FS_EmptySet
    <3>5. inFlight'[h] = IF inFlight[h] > 1 THEN inFlight[h] - 1 ELSE 0
      BY <1>2, <2>1 DEF TypeOK, TrackEnd, MeltTrackEnd
    <3>6. QED
      BY <1>0, <3>3, <3>4, <3>5
  <2>2. CASE hashOf[m] # h
    <3>1. Handled(h)' = Handled(h)
      BY <1>2, <2>2 DEF TypeOK, TrackEnd, Goto, Handled
    <3>2. QED
      BY <1>0, <1>2, <2>2, <3>1 DEF TypeOK, TrackEnd, MeltTrackEnd
  <2>3. QED
    BY <2>1, <2>2
<1>3. ASSUME NEW m \in Melts, MeltStep(m), ~TrackStart(m), ~TrackEnd(m)
      PROVE  inFlight'[h] = Cardinality(Handled(h)')
  BY <1>0, <1>3, HandledKept
<1>4. CASE UNCHANGED <<inFlight, pc>>
  BY <1>0, <1>4 DEF Handled
<1>5. CASE Crash
  <2>1. Handled(h)' = {}
    BY <1>5 DEF TypeOK, Crash, Running, Steps, Handled, TrackedSteps
  <2>2. QED
    BY <1>5, <2>1, FS_EmptySet DEF Crash
<1>6. ASSUME NEW g \in Hashes, NodeMoves(g)
      PROVE  UNCHANGED <<inFlight, pc>>
  BY <1>6 DEF NodeMoves, NodeRegisters, NodeSettles, NodeFails, NodeStep
<1>7. ASSUME NEW r \in Recs, RecStep(r)
      PROVE  UNCHANGED <<inFlight, pc>>
  BY <1>7 DEF RecStep, RecSnapshot, RecSkip, RecVisit, RecAnswered, RecUnclear,
     RecFinalize, RecSettle, RecRestore, RecDone
<1>8. QED
  BY <1>1, <1>2, <1>3, <1>4, <1>5, <1>6, <1>7 DEF Next, Swap, vars

\* For any finite set of requests, however many of them share an invoice: the
\* count of a hash is the number of melts for it under way, so reconcile never
\* skips a hash nobody handles nor takes up one somebody does.
THEOREM RegistryIsExact == IsFiniteSet(Melts) => (Spec => []RegistryExact)
<1> SUFFICES ASSUME IsFiniteSet(Melts)
             PROVE  Spec => []RegistryExact
  OBVIOUS
<1>1. Init => RegistryExact
  <2> SUFFICES ASSUME Init, NEW h \in Hashes
               PROVE  inFlight[h] = Cardinality(Handled(h))
    BY DEF RegistryExact, Handled
  <2>1. Handled(h) = {} /\ inFlight[h] = 0
    BY DEF Init, Handled, TrackedSteps
  <2>2. QED
    BY <2>1, FS_EmptySet
<1>2. TypeOK /\ RegistryExact /\ [Next]_vars => RegistryExact'
  BY RegistryStep
<1>3. QED
  BY <1>1, <1>2, TypeCorrect, PTL DEF Spec
=============================================================================
