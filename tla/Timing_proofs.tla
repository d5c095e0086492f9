---------------------------- MODULE Timing_proofs ----------------------------
(***************************************************************************)
(* What holds of notes, time and zap receipts for any mints, invoices,      *)
(* spends and clocks.                                                      *)
(***************************************************************************)
EXTENDS Timing, Spend_proofs

\* What the task knows at each step, and what a settled record stands for.
ZapsInv ==
  /\ ReceiptMeansPaid
  /\ \A z \in Invoices : record[z] = "minted" => paid[z]
  /\ tpc \in {"publishing", "marking"} =>
       \A z \in todo : record[z] = "minted" /\ ~receipt[z]
  /\ tpc = "marking" => taken[at] /\ ~receipt[at] /\ at \notin todo

(***************************************************************************)
(* Types.                                                                  *)
(***************************************************************************)
LEMMA InitTyped == Init => TypeOK
<1> SUFFICES ASSUME Init PROVE TypeOK
  OBVIOUS
<1>1. ZapsTypeOK
  <2>1. ~extra /\ extra \in BOOLEAN
    BY DEF Init, ZapsInit, Asleep
  <2>2. /\ offers \in [Mints -> BOOLEAN] /\ relays \in [Mints -> BOOLEAN]
    BY DEF Init, ZapsInit
  <2> QED BY <2>1, <2>2, ZapsAssumption DEF Init, ZapsInit, Asleep, ZapsTypeOK, TaskSteps
<1>2. /\ status \in [Notes -> {"absent", "live", "spent"}]
      /\ lockedAt \in [Notes -> 0..MaxClock]
      /\ \A n \in Notes : lockedAt[n] <= clock
      /\ \A z \in Invoices : status[z] # "absent" <=> record[z] = "minted"
  BY ZapsAssumption DEF Init, ZapsInit, Notes
<1> QED BY <1>1, <1>2 DEF Init, TypeOK

LEMMA ZapsStepTyped ==
  ASSUME ZapsTypeOK, ZapsStep
  PROVE  ZapsTypeOK'
<1> USE ZapsAssumption DEF ZapsTypeOK, TaskSteps, records, settings, task
<1>1. CASE RoundStarts
  BY <1>1 DEF RoundStarts
<1>2. CASE RoundEnds
  BY <1>2 DEF RoundEnds
<1>3. CASE PollEnds
  BY <1>3 DEF PollEnds, Unpublished
<1>4. CASE MarkPublished
  BY <1>4 DEF MarkPublished
<1>5. CASE MintEnds
  BY <1>5 DEF MintEnds, LeaveMint
<1>6. ASSUME NEW m \in Mints, NEW picked \in SUBSET Invoices, NextMint(m, picked)
      PROVE  ZapsTypeOK'
  BY <1>6 DEF NextMint
<1>7. ASSUME NEW z \in Invoices, PollPasses(z)
      PROVE  ZapsTypeOK'
  BY <1>7 DEF PollPasses
<1>8. ASSUME NEW z \in Invoices, RelayConfirms(z)
      PROVE  ZapsTypeOK'
  BY <1>8 DEF RelayConfirms, Send
<1>9. ASSUME NEW z \in Invoices, RelayUnheard(z)
      PROVE  ZapsTypeOK'
  BY <1>9 DEF RelayUnheard, Send
<1>10. ASSUME NEW z \in Invoices, RelaysRefuse(z)
       PROVE  ZapsTypeOK'
  BY <1>10 DEF RelaysRefuse, Send
<1>11. ASSUME NEW z \in Invoices, ReceiptRaises(z)
       PROVE  ZapsTypeOK'
  BY <1>11 DEF ReceiptRaises, LeaveMint
<1>12. CASE Tick
  BY <1>12 DEF Tick
<1>13. CASE Crash
  <2>1. extra' \in BOOLEAN /\ ~extra'
    BY <1>13 DEF Crash
  <2>2. /\ crashes' \in 0..MaxCrashes /\ tpc' = "asleep" /\ round' = {}
        /\ cur' = NoMint /\ todo' = {} /\ at' = NoInvoice
        /\ UNCHANGED <<clock, offers, relays, record, created, receipt, paid, taken>>
    BY <1>13 DEF Crash
  <2> QED BY <2>1, <2>2
<1>14. ASSUME NEW m \in Mints, UpdateMint(m)
       PROVE  ZapsTypeOK'
  <2>1. PICK zaps \in BOOLEAN, some \in BOOLEAN :
          /\ offers' = [offers EXCEPT ![m] = zaps]
          /\ relays' = [relays EXCEPT ![m] = some]
    BY <1>14 DEF UpdateMint
  <2>2. offers' \in [Mints -> BOOLEAN] /\ relays' \in [Mints -> BOOLEAN]
    BY <2>1
  <2>3. UNCHANGED <<clock, records, paid, taken, task, crashes>>
    BY <1>14 DEF UpdateMint
  <2> QED BY <2>2, <2>3
<1>15. ASSUME NEW z \in Invoices, ZapInvoice(z)
       PROVE  ZapsTypeOK'
  BY <1>15 DEF ZapInvoice
<1>16. ASSUME NEW z \in Invoices, InvoicePaid(z)
       PROVE  ZapsTypeOK'
  BY <1>16 DEF InvoicePaid
<1> QED
  BY <1>1, <1>2, <1>3, <1>4, <1>5, <1>6, <1>7, <1>8, <1>9, <1>10, <1>11, <1>12,
     <1>13, <1>14, <1>15, <1>16 DEF ZapsStep, TaskStep

\* No step of the zaps but settling makes a record minted or unmakes it, and
\* the clock only goes on.
LEMMA ZapsStepKeeps ==
  ASSUME ZapsTypeOK, ZapsStep
  PROVE  /\ clock <= clock'
         /\ \A z \in Invoices : record'[z] = "minted" <=> record[z] = "minted"
<1>1. CASE Tick
  BY <1>1 DEF Tick, ZapsTypeOK, records, settings
<1>2. ASSUME NEW z \in Invoices, ZapInvoice(z)
      PROVE  clock' = clock /\ \A y \in Invoices : record'[y] = "minted" <=> record[y] = "minted"
  BY <1>2 DEF ZapInvoice, ZapsTypeOK
<1>3. CASE TaskStep \/ Crash \/ (\E m \in Mints : UpdateMint(m)) \/ \E z \in Invoices : InvoicePaid(z)
  BY <1>3 DEF TaskStep, RoundStarts, RoundEnds, PollEnds, MarkPublished, MintEnds, LeaveMint,
     NextMint, PollPasses, RelayConfirms, RelayUnheard, RelaysRefuse, Send, ReceiptRaises,
     Crash, UpdateMint, InvoicePaid, ZapsTypeOK, records, settings
<1> QED BY <1>1, <1>2, <1>3 DEF ZapsStep, ZapsTypeOK

\* What the two ways to settle have in common.
LEMMA Settles ==
  ASSUME TypeOK, NEW z \in Invoices, SettleMint(z)
  PROVE  /\ Settle(z)
         /\ ZapsTypeOK'
         /\ status[z] = "absent"
         /\ Insert({z}, {})
         /\ opened' = opened
         /\ UNCHANGED <<tpc, at>>
         /\ todo' \subseteq todo
<1>1. Settle(z) /\ (UNCHANGED task \/ PollSettles(z)) /\ Insert({z}, {}) /\ opened' = opened
  BY DEF SettleMint, LookupSettles, PollSettles
<1>2. UNCHANGED <<tpc, round, cur, extra, at>> /\ todo' \subseteq todo
  BY <1>1 DEF PollSettles, task
<1>3. tpc \in {"asleep", "choosing"} => todo = {}
  BY DEF TypeOK, ZapsTypeOK
<1>4. ZapsTypeOK'
  BY <1>1, <1>2, <1>3 DEF Settle, TypeOK, ZapsTypeOK, TaskSteps, settings
<1>5. status[z] = "absent"
  BY <1>1 DEF Settle, TypeOK, Notes
<1> QED BY <1>1, <1>2, <1>4, <1>5

\* A row that is inserted is locked at the clock.
LEMMA InsertTyped ==
  ASSUME TypeOK, NEW made \in SUBSET Notes, NEW burned \in SUBSET Notes, Insert(made, burned)
  PROVE  /\ status' \in [Notes -> {"absent", "live", "spent"}]
         /\ lockedAt' \in [Notes -> 0..MaxClock]
         /\ \A n \in Notes : lockedAt'[n] <= clock
         /\ \A n \in Notes : status[n] # "absent" => status'[n] # "absent"
         /\ \A n \in Notes \ made : lockedAt'[n] = lockedAt[n]
BY ZapsAssumption DEF TypeOK, ZapsTypeOK, Insert, settings

\* Every step keeps the types.
LEMMA StepTyped ==
  ASSUME TypeOK, [Next]_vars
  PROVE  TypeOK'
<1> SUFFICES ASSUME Next PROVE TypeOK'
  BY DEF vars, zapVars, records, settings, task, notes, TypeOK, ZapsTypeOK
<1>1. CASE ZapsStep /\ UNCHANGED <<notes, opened>>
  <2>1. ZapsTypeOK' /\ clock <= clock'
    BY <1>1, ZapsStepTyped, ZapsStepKeeps DEF TypeOK
  <2>2. \A z \in Invoices : record'[z] = "minted" <=> record[z] = "minted"
    BY <1>1, ZapsStepKeeps DEF TypeOK
  <2>3. \A n \in Notes : lockedAt[n] \in Nat /\ clock \in Nat /\ clock' \in Nat
    BY <2>1, ZapsAssumption DEF TypeOK, ZapsTypeOK
  <2> QED BY <1>1, <2>1, <2>2, <2>3 DEF TypeOK, notes
<1>2. ASSUME NEW z \in Invoices, SettleMint(z)
      PROVE  TypeOK'
  <2>1. {z} \in SUBSET Notes /\ {} \in SUBSET Notes
    BY DEF Notes
  <2>2. /\ status' \in [Notes -> {"absent", "live", "spent"}]
        /\ lockedAt' \in [Notes -> 0..MaxClock]
        /\ \A n \in Notes : lockedAt'[n] <= clock
        /\ \A n \in Notes : status[n] # "absent" => status'[n] # "absent"
    BY <1>2, <2>1, Settles, InsertTyped
  <2>3. clock' = clock /\ opened' = opened /\ ZapsTypeOK'
    BY <1>2, Settles DEF Settle
  <2>4. \A y \in Invoices : status'[y] # "absent" <=> record'[y] = "minted"
    BY <1>2, Settles DEF Settle, Insert, TypeOK, ZapsTypeOK, Notes
  <2> QED BY <2>2, <2>3, <2>4, TimingAssumption DEF TypeOK
<1>3. ASSUME NEW s \in Spends, Present(s) \/ Forget(s)
      PROVE  TypeOK'
  BY <1>3 DEF Present, Forget, zapVars, records, settings, task, notes, TypeOK, ZapsTypeOK
<1>4. ASSUME NEW burned \in SUBSET {s.opens : s \in opened}, NEW made \in SUBSET Outputs,
             Redeem(burned, made)
      PROVE  TypeOK'
  <2>1. made \in SUBSET Notes /\ burned \in SUBSET Notes
    BY TimingAssumption DEF Notes, TypeOK
  <2>2. /\ status' \in [Notes -> {"absent", "live", "spent"}]
        /\ lockedAt' \in [Notes -> 0..MaxClock]
        /\ \A n \in Notes : lockedAt'[n] <= clock
        /\ \A n \in Notes : status[n] # "absent" => status'[n] # "absent"
    BY <1>4, <2>1, InsertTyped DEF Redeem
  <2>3. ZapsTypeOK' /\ clock' = clock /\ opened' = opened /\ record' = record
    BY <1>4 DEF Redeem, zapVars, records, settings, task, TypeOK, ZapsTypeOK
  <2>4. \A z \in Invoices : status'[z] # "absent" <=> status[z] # "absent"
    BY <1>4, <2>1, TimingAssumption DEF Redeem, Burnable, Insert, TypeOK, Notes
  <2> QED BY <2>2, <2>3, <2>4, TimingAssumption DEF TypeOK
<1> QED BY <1>1, <1>2, <1>3, <1>4 DEF Next

\* Every variable keeps its type, and a zap's note is on file exactly when its
\* record says minted.
THEOREM TypeCorrect == Spec => []TypeOK
<1>1. Init => TypeOK
  BY InitTyped
<1>2. TypeOK /\ [Next]_vars => TypeOK'
  BY StepTyped
<1> QED BY <1>1, <1>2, PTL DEF Spec

(***************************************************************************)
(* Zap receipts.                                                           *)
(***************************************************************************)
LEMMA ZapsStepInv ==
  ASSUME ZapsTypeOK, ZapsInv, ZapsStep
  PROVE  ZapsInv'
<1> USE ZapsAssumption DEF ZapsTypeOK, TaskSteps, records, settings, task, ZapsInv, ReceiptMeansPaid
<1>1. CASE RoundStarts
  BY <1>1 DEF RoundStarts
<1>2. CASE RoundEnds
  BY <1>2 DEF RoundEnds
<1>3. CASE PollEnds
  BY <1>3 DEF PollEnds, Unpublished
<1>4. CASE MarkPublished
  BY <1>4 DEF MarkPublished
<1>5. CASE MintEnds
  BY <1>5 DEF MintEnds, LeaveMint
<1>6. ASSUME NEW m \in Mints, NEW picked \in SUBSET Invoices, NextMint(m, picked)
      PROVE  ZapsInv'
  BY <1>6 DEF NextMint
<1>7. ASSUME NEW z \in Invoices, PollPasses(z)
      PROVE  ZapsInv'
  BY <1>7 DEF PollPasses
<1>8. ASSUME NEW z \in Invoices, RelayConfirms(z)
      PROVE  ZapsInv'
  BY <1>8 DEF RelayConfirms, Send
<1>9. ASSUME NEW z \in Invoices, RelayUnheard(z)
      PROVE  ZapsInv'
  BY <1>9 DEF RelayUnheard, Send
<1>10. ASSUME NEW z \in Invoices, RelaysRefuse(z)
       PROVE  ZapsInv'
  BY <1>10 DEF RelaysRefuse, Send
<1>11. ASSUME NEW z \in Invoices, ReceiptRaises(z)
       PROVE  ZapsInv'
  BY <1>11 DEF ReceiptRaises, LeaveMint
<1>12. CASE Tick
  BY <1>12 DEF Tick
<1>13. CASE Crash
  <2>1. extra' \in BOOLEAN /\ ~extra'
    BY <1>13 DEF Crash
  <2>2. /\ crashes' \in 0..MaxCrashes /\ tpc' = "asleep" /\ round' = {}
        /\ cur' = NoMint /\ todo' = {} /\ at' = NoInvoice
        /\ UNCHANGED <<clock, offers, relays, record, created, receipt, paid, taken>>
    BY <1>13 DEF Crash
  <2> QED BY <2>1, <2>2
<1>14. ASSUME NEW m \in Mints, UpdateMint(m)
       PROVE  ZapsInv'
  BY <1>14 DEF UpdateMint
<1>15. ASSUME NEW z \in Invoices, ZapInvoice(z)
       PROVE  ZapsInv'
  BY <1>15 DEF ZapInvoice
<1>16. ASSUME NEW z \in Invoices, InvoicePaid(z)
       PROVE  ZapsInv'
  BY <1>16 DEF InvoicePaid
<1> QED
  BY <1>1, <1>2, <1>3, <1>4, <1>5, <1>6, <1>7, <1>8, <1>9, <1>10, <1>11, <1>12,
     <1>13, <1>14, <1>15, <1>16 DEF ZapsStep, TaskStep

LEMMA ZapsInvariant == Spec => [](TypeOK /\ ZapsInv)
<1>1. Init => ZapsInv
  BY DEF Init, ZapsInit, Asleep, ZapsInv, ReceiptMeansPaid
<1>2. ASSUME TypeOK, ZapsInv, [Next]_vars
      PROVE  ZapsInv'
  <2>1. CASE ZapsStep
    BY <1>2, <2>1, ZapsStepInv DEF TypeOK
  <2>2. ASSUME NEW z \in Invoices, SettleMint(z)
        PROVE  ZapsInv'
    <3>1. Settle(z) /\ UNCHANGED <<tpc, at>> /\ todo' \subseteq todo
      BY <1>2, <2>2, Settles
    <3> QED BY <1>2, <3>1 DEF Settle, ZapsInv, ReceiptMeansPaid, TypeOK, ZapsTypeOK
  <2>3. CASE UNCHANGED zapVars
    BY <1>2, <2>3 DEF zapVars, records, settings, task, ZapsInv, ReceiptMeansPaid
  <2> QED BY <1>2, <2>1, <2>2, <2>3 DEF Next, Present, Forget, Redeem, vars
<1> QED BY InitTyped, StepTyped, <1>1, <1>2, PTL DEF Spec

\* A receipt on file was taken by a relay, and relays only have receipts of
\* zaps that were paid and credited.
THEOREM ReceiptsMeanPaid == Spec => []ReceiptMeansPaid
<1>1. ZapsInv => ReceiptMeansPaid
  BY DEF ZapsInv
<1> QED BY <1>1, ZapsInvariant, PTL

\* The task sends no receipt that is on file as published.
THEOREM NoReceiptSentTwice == Spec => []NoSecondReceipt
<1>1. TypeOK /\ ZapsInv => NoSecondReceipt
  BY DEF ZapsInv, NoSecondReceipt, TypeOK, ZapsTypeOK
<1> QED BY <1>1, ZapsInvariant, PTL

(***************************************************************************)
(* Locks.                                                                  *)
(***************************************************************************)

\* Time only helps a spend, as long as its note keeps its lock.
LEMMA OpensStays ==
  ASSUME TypeOK, TypeOK', NEW s \in opened, Opens(s), clock <= clock',
         lockedAt'[s.opens] = lockedAt[s.opens]
  PROVE  Opens(s)'
<1>1. s \in Spends /\ s.opens \in Notes /\ s \in SpendsOf(s.opens)
  BY TimingAssumption DEF TypeOK
<1>2. clock \in Nat /\ clock' \in Nat /\ lockedAt[s.opens] \in Nat
  BY <1>1, ZapsAssumption DEF TypeOK, ZapsTypeOK
<1>3. PICK host \in Hosts :
        VerifySpend(s, s.opens, host, clock, lockedAt[s.opens], Kernel)
  BY DEF Opens, Verify
<1>4. VerifySpend(s, s.opens, host, clock', lockedAt[s.opens], Kernel)
  BY <1>1, <1>2, <1>3, StillAccepted, TimingAssumption
<1> QED BY <1>3, <1>4 DEF Opens, Verify

LEMMA StepStillOpens ==
  ASSUME TypeOK, StillOpens, [Next]_vars
  PROVE  StillOpens'
<1>1. TypeOK'
  BY StepTyped
<1>2. \A s \in opened : s.opens \in Notes /\ status[s.opens] # "absent"
  BY TimingAssumption DEF TypeOK
<1>3. clock \in Nat
  BY ZapsAssumption DEF TypeOK, ZapsTypeOK
<1>4. CASE ZapsStep /\ UNCHANGED <<notes, opened>>
  BY <1>1, <1>4, ZapsStepKeeps, OpensStays DEF TypeOK, StillOpens, notes
<1>5. ASSUME NEW z \in Invoices, SettleMint(z)
      PROVE  StillOpens'
  <2>1. clock' = clock /\ opened' = opened
    BY <1>5, Settles DEF Settle
  <2>2. \A s \in opened : lockedAt'[s.opens] = lockedAt[s.opens]
    BY <1>2, <1>5, Settles DEF Insert
  <2> QED BY <1>1, <1>3, <2>1, <2>2, OpensStays DEF StillOpens
<1>6. ASSUME NEW s \in Spends, Present(s) \/ Forget(s)
      PROVE  StillOpens'
  <2>1. UNCHANGED <<clock, lockedAt>> /\ \A r \in opened' : r \in opened \/ Opens(r)
    BY <1>6 DEF Present, Forget, zapVars, notes
  <2> QED BY <2>1 DEF StillOpens, Opens
<1>7. ASSUME NEW burned \in SUBSET {s.opens : s \in opened}, NEW made \in SUBSET Outputs,
             Redeem(burned, made)
      PROVE  StillOpens'
  <2>1. clock' = clock /\ opened' = opened
    BY <1>7 DEF Redeem, zapVars
  <2>2. \A s \in opened : lockedAt'[s.opens] = lockedAt[s.opens]
    BY <1>2, <1>7 DEF Redeem, Insert
  <2> QED BY <1>1, <1>3, <2>1, <2>2, OpensStays DEF StillOpens
<1>8. CASE UNCHANGED vars
  BY <1>8 DEF vars, zapVars, notes, StillOpens, Opens
<1> QED BY <1>4, <1>5, <1>6, <1>7, <1>8 DEF Next

LEMMA OpensInvariant == Spec => [](TypeOK /\ StillOpens)
<1>1. Init => StillOpens
  BY DEF Init, StillOpens
<1>2. TypeOK /\ StillOpens /\ [Next]_vars => StillOpens'
  BY StepStillOpens
<1> QED BY InitTyped, StepTyped, <1>1, <1>2, PTL DEF Spec

\* A spend that was verified verifies for as long as it is held: no step sets
\* a lock of a note on file anew.
THEOREM SpendsStayGood == Spec => []StillOpens
BY OpensInvariant, PTL

\* A note is burned by its key or by a leaf whose locks the clock meets.
THEOREM LocksAreHonoured == Spec => LocksHonoured
<1> DEFINE Burned(n) == status[n] = "live" /\ status'[n] = "spent"
           OnTime(n) == \E s \in opened :
                          /\ s.opens = n
                          /\ s.path = "key" \/ LocksMet(s.leaf, clock, lockedAt[n])
<1>1. ASSUME TypeOK, StillOpens, [Next]_vars, NEW n \in Notes, Burned(n)
      PROVE  OnTime(n)
  <2>1. PICK burned \in SUBSET {s.opens : s \in opened}, made \in SUBSET Outputs :
          Redeem(burned, made)
    <3>1. ~UNCHANGED notes
      BY <1>1 DEF notes
    <3>2. \A z \in Invoices : ~SettleMint(z)
      BY <1>1, Settles DEF Insert
    <3> QED BY <1>1, <3>1, <3>2 DEF Next, Present, Forget, vars
  <2>2. n \in burned
    BY <1>1, <2>1 DEF Redeem, Insert
  <2>3. PICK s \in opened : s.opens = n
    BY <2>1, <2>2
  <2>4. PICK host \in Hosts :
          VerifySpend(s, n, host, clock, lockedAt[n], Kernel)
    BY <1>1, <2>3 DEF StillOpens, Opens, Verify
  <2>5. s \in SpendsOf(n) /\ s.path \in {"key", "script"}
    BY <1>1, <2>3, TimingAssumption DEF TypeOK, SpendsOf
  <2>6. clock \in Nat /\ lockedAt[n] \in Nat
    BY <1>1, ZapsAssumption DEF TypeOK, ZapsTypeOK
  <2>7. s.path = "script" => LocksMet(s.leaf, clock, lockedAt[n])
    BY <2>4, <2>5, <2>6, OpenedOnTime, TimingAssumption
  <2> QED BY <2>3, <2>5, <2>7
<1>2. ASSUME TypeOK, StillOpens, [Next]_vars
      PROVE  [\A n \in Notes : status[n] = "live" /\ status'[n] = "spent" =>
                \E s \in opened :
                  /\ s.opens = n
                  /\ s.path = "key" \/ LocksMet(s.leaf, clock, lockedAt[n])]_vars
  BY <1>1, <1>2
<1> QED BY <1>2, OpensInvariant, PTL DEF Spec, LocksHonoured
=============================================================================
