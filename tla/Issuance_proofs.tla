--------------------------- MODULE Issuance_proofs ---------------------------
(***************************************************************************)
(* Proofs about Issuance, for every set of mints, notes, invoices,         *)
(* requests and lookups, and every number of crashes between blocks.       *)
(***************************************************************************)
EXTENDS Issuance, FiniteSetTheorems, TLAPS

-----------------------------------------------------------------------------
(***************************************************************************)
(* Type correctness.                                                       *)
(***************************************************************************)
LEMMA InitType == Init => TypeOK
BY IssuanceAssumption DEF Init, TypeOK, Recorded, PaySteps, LookupSteps

LEMMA PayType ==
  ASSUME TypeOK, NEW p \in Payers, PayStep(p)
  PROVE  TypeOK'
<1> USE IssuanceAssumption
    DEF TypeOK, Goto, Recorded, PaySteps, database, noteRows, records, lookup, names
<1>1. ASSUME NEW mt \in Mints, NEW comment \in NoteIds \cup {NoNote},
             AcceptPay(p, mt, comment)
      PROVE  TypeOK'
  BY <1>1 DEF AcceptPay
<1>2. ASSUME NEW i \in Indices, ClaimIndex(p, i)
      PROVE  TypeOK'
  BY <1>2 DEF ClaimIndex, Indices
<1>3. ASSUME NEW h \in Hashes, CreateInvoice(p, h)
      PROVE  TypeOK'
  BY <1>3 DEF CreateInvoice
<1>4. ASSUME NEW from \in {"picked", "invoiced"}, Goto(p, from, "refused"),
             UNCHANGED <<database, invoice, at, on, pick, inv, lookup, crashes>>
      PROVE  TypeOK'
  BY <1>4
<1>7. CASE UnknownUser(p)
  BY <1>7 DEF UnknownUser
<1>5. CASE RecordMint(p)
  BY <1>5 DEF RecordMint
<1>6. CASE InvoicePaid(p)
  BY <1>6 DEF InvoicePaid, payer
<1>8. QED
  BY <1>1, <1>2, <1>3, <1>4, <1>5, <1>6, <1>7
     DEF PayStep, InvoiceFails, RecordRefused

NotesTyped ==
  /\ status \in [NoteIds -> {"absent", "live", "spent"}]
  /\ owner \in [NoteIds -> Mints \cup {NoMint}]
  /\ \A m \in NoteIds : owner[m] = NoMint <=> status[m] = "absent"

LEMMA InsertType ==
  ASSUME NotesTyped, NEW n \in NoteIds, NEW mt \in Mints, InsertNote(n, mt)
  PROVE  NotesTyped'
BY IssuanceAssumption DEF NotesTyped, InsertNote, noteRows

LEMMA LookupType ==
  ASSUME TypeOK, NEW l \in Lookups, LookupStep(l)
  PROVE  TypeOK'
<1> USE IssuanceAssumption
    DEF TypeOK, Recorded, LookupSteps, database, noteRows, records, payer, names
<1>1. ASSUME NEW id \in NoteIds \cup Hashes, NEW mt \in Mints, NEW h \in Hashes,
             LookUp(l, id, mt, h)
      PROVE  TypeOK'
  BY <1>1 DEF LookUp
<1>2. CASE NotSettled(l)
  BY <1>2 DEF NotSettled, LeaveLookup
<1>3. CASE SeenPaid(l)
  BY <1>3 DEF SeenPaid
<1>4. CASE SettleMint(l)
  <2>1. asked[l] \in Hashes
    BY <1>4 DEF SettleMint
  <2>2. CASE Pending(asked[l])
    <3>1. PICK n \in NoteIds, mt \in Mints : n = credit[asked[l]] /\ mt = mintOf[asked[l]]
      BY <2>1, <2>2 DEF Pending
    <3>2. InsertNote(n, mt)
      BY <1>4, <2>2, <3>1 DEF SettleMint
    <3>3. NotesTyped'
      BY <3>2, InsertType DEF NotesTyped
    <3>4. /\ minted' \in [Hashes -> BOOLEAN]
          /\ \A h \in Hashes : minted'[h] => Recorded(h)
      BY <1>4, <2>1, <2>2 DEF SettleMint, MarkMinted, Pending
    <3>5. QED
      BY <1>4, <3>3, <3>4 DEF SettleMint, LeaveLookup, NotesTyped
  <2>3. CASE ~Pending(asked[l])
    BY <1>4, <2>3 DEF SettleMint, LeaveLookup
  <2>4. QED
    BY <2>2, <2>3
<1>5. QED
  BY <1>1, <1>2, <1>3, <1>4 DEF LookupStep

LEMMA SwapType ==
  ASSUME TypeOK, NEW mt \in Mints, NEW burned \in SUBSET Burnable(mt),
         NEW outputs \in SUBSET FreeOutputs, Swap(mt, burned, outputs)
  PROVE  TypeOK'
BY IssuanceAssumption
   DEF TypeOK, Swap, BurnAndMake, Burnable, FreeOutputs, Recorded, records, names, payer, lookup

LEMMA OwnerType ==
  ASSUME TypeOK, NEW mt \in Mints, MintStep(mt)
  PROVE  TypeOK'
<1> USE IssuanceAssumption DEF TypeOK, Recorded, noteRows, records, names, payer, lookup
<1>1. CASE DeleteMint(mt)
  BY <1>1 DEF DeleteMint
<1>2. ASSUME NEW b \in Branches \cup {NoBranch}, UpsertUsername(mt, b)
      PROVE  TypeOK'
  <2>1. /\ branch' \in [Mints -> Branches \cup {NoBranch}]
        /\ nextIndex' \in [Mints -> 0..(MaxIndex + 1)]
        /\ \A m \in Mints : branch'[m] = NoBranch => nextIndex'[m] = 0
    BY <1>2 DEF UpsertUsername
  <2>2. QED
    BY <1>2, <2>1 DEF UpsertUsername
<1>3. QED
  BY <1>1, <1>2 DEF MintStep, DeleteUsername

LEMMA CrashType == TypeOK /\ Crash => TypeOK'
BY IssuanceAssumption
   DEF TypeOK, Crash, ProcessDies, Recorded, PaySteps, LookupSteps, database, noteRows,
       records, names

LEMMA StutterType == TypeOK /\ UNCHANGED vars => TypeOK'
BY DEF TypeOK, Recorded, vars, database, noteRows, records, names, payer, lookup

LEMMA TypeStep == TypeOK /\ [Next]_vars => TypeOK'
BY PayType, LookupType, SwapType, OwnerType, CrashType, StutterType DEF Next

\* Every variable keeps its type; a note has an owner, and a record a mint,
\* exactly when its row is there.
THEOREM TypeCorrect == Spec => []TypeOK
BY InitType, TypeStep, PTL DEF Spec

-----------------------------------------------------------------------------
(***************************************************************************)
(* The inductive invariant.  OutputsExclusive and MintedIsCredited are not *)
(* inductive alone: a request about to record must hold an invoice nobody  *)
(* has recorded, a lookup about to settle a recorded and paid one, and a   *)
(* payment hash that serves as an output must have its record before.      *)
(***************************************************************************)
RequestsHoldFreshInvoices ==
  /\ \A h \in Hashes : Recorded(h) => invoice[h] # "none"
  /\ \A p \in Payers : pc[p] = "invoiced" =>
       /\ ~Recorded(inv[p])
       /\ invoice[inv[p]] # "none"
       /\ \A q \in Payers : pc[q] = "invoiced" /\ inv[q] = inv[p] => q = p

LookupsHoldRecords ==
  \A l \in Lookups :
    /\ lpc[l] # "idle" => Recorded(asked[l])
    /\ lpc[l] = "settling" => invoice[asked[l]] = "paid"

CreditsAreNoHashes ==
  /\ \A p \in Payers : pick[p] \in Hashes => Recorded(pick[p])
  /\ \A h \in Hashes : credit[h] \notin Hashes

BurnsSpent ==
  /\ RetryAnswered
  /\ \A b \in burns : \A n \in b.burned : status[n] = "spent"

IssuanceInv ==
  /\ RequestsHoldFreshInvoices
  /\ LookupsHoldRecords
  /\ CreditsAreNoHashes
  /\ OutputsExclusive
  /\ MintedIsCredited
  /\ BurnsSpent

LEMMA InitInv == Init => IssuanceInv
BY IssuanceAssumption
   DEF Init, IssuanceInv, RequestsHoldFreshInvoices, LookupsHoldRecords, CreditsAreNoHashes,
       OutputsExclusive, MintedIsCredited, BurnsSpent, RetryAnswered, Recorded, Pending

LEMMA PayInv ==
  ASSUME TypeOK, IssuanceInv, NEW p \in Payers, PayStep(p)
  PROVE  IssuanceInv'
<1> USE IssuanceAssumption
    DEF TypeOK, Goto, Recorded, Pending, IssuanceInv, RequestsHoldFreshInvoices,
        LookupsHoldRecords, CreditsAreNoHashes, OutputsExclusive, MintedIsCredited,
        BurnsSpent, RetryAnswered, database, noteRows, records, lookup, names
<1>1. ASSUME NEW mt \in Mints, NEW comment \in NoteIds \cup {NoNote},
             AcceptPay(p, mt, comment)
      PROVE  IssuanceInv'
  BY <1>1 DEF AcceptPay, Nameable
<1>2. ASSUME NEW i \in Indices, ClaimIndex(p, i)
      PROVE  IssuanceInv'
  BY <1>2 DEF ClaimIndex
<1>3. ASSUME NEW h \in Hashes, CreateInvoice(p, h)
      PROVE  IssuanceInv'
  BY <1>3 DEF CreateInvoice
<1>4. ASSUME NEW from \in PaySteps, Goto(p, from, "refused"),
             UNCHANGED <<database, invoice, at, pick, inv, lookup, crashes>>
      PROVE  IssuanceInv'
  BY <1>4
<1>5. CASE RecordMint(p)
  BY <1>5 DEF RecordMint, InUse, Taken, NotesTaken, CreditsTaken
<1>6. CASE InvoicePaid(p)
  BY <1>6 DEF InvoicePaid, payer
<1>7. QED
  BY <1>1, <1>2, <1>3, <1>4, <1>5, <1>6
     DEF PayStep, UnknownUser, InvoiceFails, RecordRefused, PaySteps

LEMMA BurnsKept ==
  ASSUME BurnsSpent, burns' = burns,
         \A b \in burns : b.burned \subseteq NoteIds /\ b.made \subseteq NoteIds,
         \A m \in NoteIds : /\ status'[m] = "spent" <=> status[m] = "spent"
                            /\ status[m] # "absent" => status'[m] # "absent"
  PROVE  BurnsSpent'
BY DEF BurnsSpent, RetryAnswered

LEMMA LookupInv ==
  ASSUME TypeOK, IssuanceInv, NEW l \in Lookups, LookupStep(l)
  PROVE  IssuanceInv'
<1> USE IssuanceAssumption
    DEF TypeOK, Recorded, Pending, IssuanceInv, RequestsHoldFreshInvoices,
        LookupsHoldRecords, CreditsAreNoHashes, OutputsExclusive, MintedIsCredited,
        BurnsSpent, RetryAnswered, database, noteRows, records, payer
<1>1. ASSUME NEW id \in NoteIds \cup Hashes, NEW mt \in Mints, NEW h \in Hashes,
             LookUp(l, id, mt, h)
      PROVE  IssuanceInv'
  BY <1>1 DEF LookUp, PendingRecords
<1>2. CASE NotSettled(l)
  BY <1>2 DEF NotSettled, LeaveLookup
<1>3. CASE SeenPaid(l)
  BY <1>3 DEF SeenPaid
<1>4. CASE SettleMint(l)
  <2>1. PICK h \in Hashes : h = asked[l] /\ invoice[h] = "paid" /\ Recorded(h)
    BY <1>4 DEF SettleMint
  <2>2. CASE Pending(h)
    <3>1. PICK n \in NoteIds, mt \in Mints :
            n = credit[h] /\ mt = mintOf[h] /\ status[n] = "absent"
      BY <2>1, <2>2
    <3>2. /\ status' = [status EXCEPT ![n] = "live"]
          /\ owner' = [owner EXCEPT ![n] = mt]
          /\ minted' = [minted EXCEPT ![h] = TRUE]
      BY <1>4, <2>1, <2>2, <3>1 DEF SettleMint, MarkMinted, InsertNote
    <3>3. UNCHANGED <<mints, credit, mintOf, burns, invoice, pc, at, pick, inv>>
      BY <1>4 DEF SettleMint
    <3>4. RequestsHoldFreshInvoices' /\ CreditsAreNoHashes'
      BY <3>3
    <3>5. LookupsHoldRecords'
      BY <1>4, <3>3 DEF SettleMint, LeaveLookup
    <3>6. OutputsExclusive'
      BY <3>1, <3>2, <3>3
    <3>7. MintedIsCredited'
      BY <2>1, <3>1, <3>2, <3>3
    <3>8. BurnsSpent'
      <4>1. \A m \in NoteIds : /\ status'[m] = "spent" <=> status[m] = "spent"
                               /\ status[m] # "absent" => status'[m] # "absent"
        BY <3>1, <3>2
      <4>2. \A b \in burns : b.burned \subseteq NoteIds /\ b.made \subseteq NoteIds
        OBVIOUS
      <4>3. BurnsSpent /\ burns' = burns
        BY <3>3
      <4>4. QED
        BY <4>1, <4>2, <4>3, BurnsKept
    <3>9. QED
      BY <3>4, <3>5, <3>6, <3>7, <3>8
  <2>3. CASE ~Pending(h)
    <3>1. UNCHANGED <<database, invoice, payer>>
      BY <1>4, <2>1, <2>3 DEF SettleMint
    <3>2. LookupsHoldRecords'
      BY <1>4, <3>1 DEF SettleMint, LeaveLookup
    <3>3. QED
      BY <3>1, <3>2
  <2>4. QED
    BY <2>2, <2>3
<1>5. QED
  BY <1>1, <1>2, <1>3, <1>4 DEF LookupStep

LEMMA SwapInv ==
  ASSUME TypeOK, IssuanceInv, NEW mt \in Mints, NEW burned \in SUBSET Burnable(mt),
         NEW outputs \in SUBSET FreeOutputs, Swap(mt, burned, outputs)
  PROVE  IssuanceInv'
<1> USE IssuanceAssumption
    DEF TypeOK, Recorded, Pending, Swap, BurnAndMake, Burnable, FreeOutputs, Taken,
        NotesTaken, CreditsTaken, records, payer, lookup
<1>1. RequestsHoldFreshInvoices' /\ LookupsHoldRecords' /\ CreditsAreNoHashes'
  BY DEF IssuanceInv, RequestsHoldFreshInvoices, LookupsHoldRecords, CreditsAreNoHashes
<1>2. OutputsExclusive'
  BY DEF IssuanceInv, OutputsExclusive
<1>3. MintedIsCredited'
  BY DEF IssuanceInv, MintedIsCredited
<1>4. BurnsSpent'
  <2>1. PICK new : new = [burned |-> burned, made |-> outputs]
    OBVIOUS
  <2>2. \A m \in burned : status[m] = "live" /\ status'[m] = "spent"
    OBVIOUS
  <2>3. \A m \in NoteIds \ burned : /\ status'[m] = "spent" <=> status[m] = "spent"
                                    /\ status[m] # "absent" => status'[m] # "absent"
    OBVIOUS
  <2>4. \A m \in outputs : status'[m] # "absent"
    OBVIOUS
  <2>5. \A b \in burns : b.burned \cap burned = {}
    BY <2>2 DEF IssuanceInv, BurnsSpent
  <2>6. \A b \in burns' : \A m \in b.burned : status'[m] = "spent"
    BY <2>2, <2>3, <2>5 DEF IssuanceInv, BurnsSpent
  <2>7. ASSUME NEW m \in NoteIds, status'[m] = "spent"
        PROVE  \E b \in burns' :
                 /\ m \in b.burned
                 /\ \A o \in b.made : status'[o] # "absent"
                 /\ \A c \in burns' : m \in c.burned => c = b
    <3>1. CASE m \in burned
      BY <2>1, <2>2, <2>4, <2>5, <3>1
    <3>2. CASE m \notin burned
      <4>1. PICK b \in burns : /\ m \in b.burned
                               /\ \A o \in b.made : status[o] # "absent"
                               /\ \A c \in burns : m \in c.burned => c = b
        BY <2>3, <2>7, <3>2 DEF IssuanceInv, BurnsSpent, RetryAnswered
      <4>2. \A o \in b.made : status'[o] # "absent"
        BY <2>2, <2>3, <4>1
      <4>3. QED
        BY <3>2, <4>1, <4>2
    <3>3. QED
      BY <3>1, <3>2
  <2>8. QED
    BY <2>6, <2>7 DEF BurnsSpent, RetryAnswered
<1>5. QED
  BY <1>1, <1>2, <1>3, <1>4 DEF IssuanceInv

LEMMA OwnerInv ==
  ASSUME IssuanceInv, NEW mt \in Mints, MintStep(mt)
  PROVE  IssuanceInv'
BY DEF MintStep, DeleteMint, DeleteUsername, UpsertUsername, Recorded, Pending,
       IssuanceInv, LookupsHoldRecords, RequestsHoldFreshInvoices, CreditsAreNoHashes, OutputsExclusive, MintedIsCredited,
       BurnsSpent, RetryAnswered, noteRows, records, payer, lookup

LEMMA CrashInv ==
  ASSUME TypeOK, IssuanceInv, Crash
  PROVE  IssuanceInv'
BY DEF TypeOK, Crash, ProcessDies, Recorded, Pending, IssuanceInv, LookupsHoldRecords,
       RequestsHoldFreshInvoices, CreditsAreNoHashes, OutputsExclusive, MintedIsCredited,
       BurnsSpent, RetryAnswered, database, noteRows, records

LEMMA StutterInv ==
  ASSUME IssuanceInv, UNCHANGED vars
  PROVE  IssuanceInv'
BY DEF Recorded, Pending, IssuanceInv, LookupsHoldRecords, RequestsHoldFreshInvoices,
       CreditsAreNoHashes, OutputsExclusive, MintedIsCredited, BurnsSpent, RetryAnswered,
       vars, database, noteRows, records, payer, lookup

LEMMA InvStep == TypeOK /\ IssuanceInv /\ [Next]_vars => IssuanceInv'
BY PayInv, LookupInv, SwapInv, OwnerInv, CrashInv, StutterInv DEF Next

LEMMA InvHolds == Spec => []IssuanceInv
BY InitInv, InvStep, TypeCorrect, PTL DEF Spec

\* The note a pending mint will credit is nobody else's, whatever pay requests,
\* swaps, auto-mints and crashes interleave: settle_mint's INSERT always finds
\* the id free.
THEOREM CreditsAreExclusive == Spec => []OutputsExclusive
<1>1. IssuanceInv => OutputsExclusive
  BY DEF IssuanceInv
<1>2. QED
  BY <1>1, InvHolds, PTL

\* A record marked minted was paid, and its note is on file on its mint: no
\* payment is taken without its note being credited.
THEOREM PaymentsAreCredited == Spec => []MintedIsCredited
<1>1. IssuanceInv => MintedIsCredited
  BY DEF IssuanceInv
<1>2. QED
  BY <1>1, InvHolds, PTL

\* A retried rotate, split or merge finds the one record of its burn, with all
\* outputs on file.
THEOREM RetriesAreAnswered == Spec => []RetryAnswered
<1>1. IssuanceInv => RetryAnswered
  BY DEF IssuanceInv, BurnsSpent
<1>2. QED
  BY <1>1, InvHolds, PTL

\* An id names at most one pending record of a mint: a note id is credited by
\* one record, and no record credits a payment hash.
THEOREM LookupsAreUnambiguous == Spec => []LookupUnambiguous
<1>1. TypeOK /\ IssuanceInv => LookupUnambiguous
  BY DEF TypeOK, IssuanceInv, LookupUnambiguous, PendingRecords, Pending, Recorded,
         OutputsExclusive, CreditsAreNoHashes
<1>2. QED
  BY <1>1, TypeCorrect, InvHolds, PTL

-----------------------------------------------------------------------------
(***************************************************************************)
(* Notes are kept.  Only settle_mint and swap write the table of notes,    *)
(* and neither touches a row on file but to mark it spent.                 *)
(***************************************************************************)
LEMMA StepKeepsNotes ==
  ASSUME TypeOK, [Next]_vars, NEW n \in NoteIds, status[n] # "absent"
  PROVE  /\ owner'[n] = owner[n]
         /\ status'[n] # "absent"
         /\ status[n] = "spent" => status'[n] = "spent"
<1>1. CASE UNCHANGED noteRows
  BY <1>1 DEF noteRows
<1>2. ASSUME NEW p \in Payers, PayStep(p)
      PROVE  UNCHANGED noteRows
  BY <1>2 DEF PayStep, AcceptPay, ClaimIndex, UnknownUser, CreateInvoice, InvoiceFails,
              RecordMint, RecordRefused, InvoicePaid, database
<1>3. ASSUME NEW l \in Lookups, SettleMint(l), ~UNCHANGED noteRows
      PROVE  \E m \in NoteIds, mt \in Mints \cup {NoMint} : InsertNote(m, mt)
  <2>1. asked[l] \in Hashes /\ Pending(asked[l])
    BY <1>3 DEF SettleMint, TypeOK, noteRows
  <2>2. credit[asked[l]] \in NoteIds /\ mintOf[asked[l]] \in Mints \cup {NoMint}
    BY <2>1 DEF TypeOK, Pending, Recorded
  <2>3. QED
    BY <1>3, <2>1, <2>2 DEF SettleMint
<1>4. ASSUME NEW m \in NoteIds, NEW mt \in Mints \cup {NoMint}, InsertNote(m, mt)
      PROVE  owner'[n] = owner[n] /\ status'[n] = status[n]
  BY <1>4 DEF InsertNote, TypeOK, noteRows
<1>5. ASSUME NEW l \in Lookups, LookupStep(l), ~UNCHANGED noteRows
      PROVE  SettleMint(l)
  BY <1>5 DEF LookupStep, LookUp, NotSettled, SeenPaid, database
<1>6. ASSUME NEW mt \in Mints, NEW burned \in SUBSET Burnable(mt),
             NEW outputs \in SUBSET FreeOutputs, Swap(mt, burned, outputs)
      PROVE  /\ owner'[n] = owner[n]
             /\ status'[n] \in {status[n], "spent"}
  BY <1>6 DEF Swap, BurnAndMake, Burnable, FreeOutputs, Taken, NotesTaken, TypeOK
<1>7. ASSUME NEW mt \in Mints, MintStep(mt)
      PROVE  UNCHANGED noteRows
  BY <1>7 DEF MintStep, DeleteMint, DeleteUsername, UpsertUsername
<1>8. Crash => UNCHANGED noteRows
  BY DEF Crash, database
<1>9. UNCHANGED vars => UNCHANGED noteRows
  BY DEF vars, database
<1>10. QED
  BY <1>1, <1>2, <1>3, <1>4, <1>5, <1>6, <1>7, <1>8, <1>9 DEF Next

\* No note on file is ever lost, changes its mint or is unspent again.
THEOREM NotesAreKept == Spec => NotesKept
<1>1. TypeOK /\ [Next]_vars =>
        [\A n \in NoteIds : status[n] # "absent" =>
           /\ owner'[n] = owner[n]
           /\ status'[n] # "absent"
           /\ status[n] = "spent" => status'[n] = "spent"]_vars
  BY StepKeepsNotes
<1>2. QED
  BY <1>1, TypeCorrect, PTL DEF Spec, NotesKept

-----------------------------------------------------------------------------
(***************************************************************************)
(* A note is made once.  An id without a row has no origin yet, so the     *)
(* swap or the settlement that inserts its row is the only one; nothing    *)
(* else adds an origin.                                                    *)
(***************************************************************************)
OneOrigin(n) ==
  \/ n \in IssuedNotes /\ MadeBySwap(n) = {} /\ CreditedBy(n) = {}
  \/ n \notin IssuedNotes /\ (\E b \in burns : MadeBySwap(n) = {b}) /\ CreditedBy(n) = {}
  \/ n \notin IssuedNotes /\ MadeBySwap(n) = {} /\ \E h \in Hashes : CreditedBy(n) = {h}

NoOrigin(n) == n \notin IssuedNotes /\ MadeBySwap(n) = {} /\ CreditedBy(n) = {}

Origins == \A n \in NoteIds : IF status[n] = "absent" THEN NoOrigin(n) ELSE OneOrigin(n)

LEMMA InitOrigins == Init => Origins
BY DEF Init, Origins, NoOrigin, OneOrigin, MadeBySwap, CreditedBy

LEMMA OriginsKept ==
  ASSUME Origins, burns' = burns,
         \A n \in NoteIds : /\ status'[n] = "absent" <=> status[n] = "absent"
                            /\ CreditedBy(n)' = CreditedBy(n)
  PROVE  Origins'
BY DEF Origins, NoOrigin, OneOrigin, MadeBySwap

\* A pay request mints nothing: its record is not minted yet, and the invoice
\* it has paid is credited to a note only later.
LEMMA PayOrigins ==
  ASSUME TypeOK, IssuanceInv, Origins, NEW p \in Payers, PayStep(p)
  PROVE  Origins'
<1>1. UNCHANGED <<burns, status, minted>>
  BY DEF PayStep, AcceptPay, ClaimIndex, UnknownUser, CreateInvoice, InvoiceFails,
         RecordMint, RecordRefused, InvoicePaid, database, noteRows, records
<1>2. \A h \in Hashes : minted[h] => UNCHANGED <<credit[h], invoice[h]>>
  BY IssuanceAssumption
     DEF TypeOK, IssuanceInv, RequestsHoldFreshInvoices, MintedIsCredited, Recorded, PayStep, Goto,
         AcceptPay, ClaimIndex, UnknownUser, CreateInvoice, InvoiceFails, RecordMint,
         RecordRefused, InvoicePaid, database, records, payer
<1>3. \A n \in NoteIds : CreditedBy(n)' = CreditedBy(n)
  BY <1>1, <1>2 DEF CreditedBy
<1>4. QED
  BY <1>1, <1>3, OriginsKept

LEMMA LookupOrigins ==
  ASSUME TypeOK, IssuanceInv, Origins, NEW l \in Lookups, LookupStep(l)
  PROVE  Origins'
<1>1. CASE UNCHANGED <<database, invoice>>
  <2>1. \A n \in NoteIds : CreditedBy(n)' = CreditedBy(n)
    BY <1>1 DEF CreditedBy, database, records
  <2>2. QED
    BY <1>1, <2>1, OriginsKept DEF database, noteRows
<1>2. CASE SettleMint(l) /\ Pending(asked[l])
  <2>1. PICK h \in Hashes : h = asked[l] /\ invoice[h] = "paid" /\ Recorded(h) /\ ~minted[h]
    BY <1>2 DEF SettleMint, TypeOK, IssuanceInv, LookupsHoldRecords, Pending
  <2>2. PICK n \in NoteIds : n = credit[h] /\ status[n] = "absent"
    BY <2>1 DEF TypeOK, IssuanceInv, OutputsExclusive, Recorded, Pending
  <2>3. /\ status' = [status EXCEPT ![n] = "live"]
        /\ minted' = [minted EXCEPT ![h] = TRUE]
        /\ UNCHANGED <<burns, credit, invoice>>
    BY <1>2, <2>1, <2>2 DEF SettleMint, MarkMinted, InsertNote
  <2>4. NoOrigin(n)
    BY <2>2 DEF Origins
  <2>5. OneOrigin(n)' /\ status'[n] # "absent"
    <3>1. CreditedBy(n)' = {h}
      BY <2>1, <2>2, <2>3, <2>4 DEF TypeOK, CreditedBy, NoOrigin
    <3>2. QED
      BY <2>2, <2>3, <2>4, <3>1 DEF TypeOK, OneOrigin, NoOrigin, MadeBySwap
  <2>6. ASSUME NEW m \in NoteIds, m # n
        PROVE  status'[m] = status[m] /\ CreditedBy(m)' = CreditedBy(m)
    BY <2>2, <2>3, <2>6 DEF TypeOK, CreditedBy
  <2>7. QED
    BY <2>3, <2>5, <2>6 DEF Origins, OneOrigin, NoOrigin, MadeBySwap
<1>3. QED
  BY <1>1, <1>2 DEF LookupStep, LookUp, NotSettled, SeenPaid, SettleMint, database,
     noteRows, records

LEMMA SwapOrigins ==
  ASSUME TypeOK, Origins, NEW mt \in Mints, NEW burned \in SUBSET Burnable(mt),
         NEW outputs \in SUBSET FreeOutputs, Swap(mt, burned, outputs)
  PROVE  Origins'
<1>1. PICK b : b = [burned |-> burned, made |-> outputs]
  OBVIOUS
<1>2. burns' = burns \cup {b} /\ b.made = outputs
  BY <1>1 DEF Swap
<1>3. \A n \in NoteIds : CreditedBy(n)' = CreditedBy(n)
  BY DEF Swap, CreditedBy, records
<1>4. ASSUME NEW n \in NoteIds, n \in outputs
      PROVE  OneOrigin(n)' /\ status'[n] # "absent"
  <2>1. status[n] = "absent" /\ status'[n] = "live"
    BY <1>4 DEF TypeOK, Swap, BurnAndMake, Burnable, FreeOutputs, Taken, NotesTaken
  <2>2. NoOrigin(n)
    BY <2>1 DEF Origins
  <2>3. MadeBySwap(n)' = {b}
    BY <1>2, <1>4, <2>2 DEF MadeBySwap, NoOrigin
  <2>4. QED
    BY <1>2, <1>3, <2>1, <2>2, <2>3 DEF OneOrigin, NoOrigin
<1>5. ASSUME NEW n \in NoteIds, n \notin outputs
      PROVE  /\ status'[n] = "absent" <=> status[n] = "absent"
             /\ MadeBySwap(n)' = MadeBySwap(n)
  <2>1. status'[n] = "absent" <=> status[n] = "absent"
    BY <1>5 DEF TypeOK, Swap, BurnAndMake, Burnable
  <2>2. QED
    BY <1>2, <1>5, <2>1 DEF MadeBySwap
<1>6. ASSUME NEW n \in NoteIds, n \notin outputs
      PROVE  IF status'[n] = "absent" THEN NoOrigin(n)' ELSE OneOrigin(n)'
  BY <1>2, <1>3, <1>5, <1>6 DEF Origins, OneOrigin, NoOrigin
<1>7. QED
  BY <1>4, <1>6 DEF Origins

LEMMA OriginsStep == TypeOK /\ IssuanceInv /\ Origins /\ [Next]_vars => Origins'
<1> SUFFICES ASSUME TypeOK, IssuanceInv, Origins, [Next]_vars
             PROVE  Origins'
  OBVIOUS
<1>1. CASE UNCHANGED <<status, burns, records, invoice>>
  <2>1. \A n \in NoteIds : CreditedBy(n)' = CreditedBy(n)
    BY <1>1 DEF CreditedBy, records
  <2>2. QED
    BY <1>1, <2>1, OriginsKept
<1>2. ASSUME NEW mt \in Mints, MintStep(mt)
      PROVE  UNCHANGED <<status, burns, records, invoice>>
  BY <1>2 DEF MintStep, DeleteMint, DeleteUsername, UpsertUsername, noteRows
<1>3. Crash \/ UNCHANGED vars => UNCHANGED <<status, burns, records, invoice>>
  BY DEF Crash, ProcessDies, vars, database, noteRows
<1>4. QED
  BY <1>1, <1>2, <1>3, PayOrigins, LookupOrigins, SwapOrigins DEF Next

\* Every note on file was made exactly once: it was there at the start, one
\* paid invoice credited it or one swap made it, however pay requests, lookups
\* that race to settle, swaps and crashes interleave.
THEOREM NotesAreMadeOnce == Spec => []MadeOnce
<1>1. ASSUME Origins
      PROVE  MadeOnce
  <2> SUFFICES ASSUME NEW n \in NoteIds, status[n] # "absent"
               PROVE  Cardinality(MadeBySwap(n)) + Cardinality(CreditedBy(n))
                        + (IF n \in IssuedNotes THEN 1 ELSE 0) = 1
    BY DEF MadeOnce
  <2>1. Cardinality({}) = 0 /\ \A x : Cardinality({x}) = 1
    BY FS_EmptySet, FS_Singleton, Zenon
  <2>2. OneOrigin(n)
    BY <1>1 DEF Origins
  <2> DEFINE swaps == Cardinality(MadeBySwap(n))
             credits == Cardinality(CreditedBy(n))
  <2>3. \/ n \in IssuedNotes /\ swaps = 0 /\ credits = 0
        \/ n \notin IssuedNotes /\ swaps = 1 /\ credits = 0
        \/ n \notin IssuedNotes /\ swaps = 0 /\ credits = 1
    BY <2>1, <2>2, Zenon DEF OneOrigin
  <2> HIDE DEF swaps, credits
  <2>4. swaps + credits + (IF n \in IssuedNotes THEN 1 ELSE 0) = 1
    BY <2>3
  <2>5. QED
    BY <2>4 DEF swaps, credits
<1>2. QED
  BY <1>1, InitOrigins, OriginsStep, TypeCorrect, InvHolds, PTL DEF Spec
-----------------------------------------------------------------------------
(***************************************************************************)
(* Outstanding notes and their mints.  A lookup in flight is the only one  *)
(* that can make a note on a mint that is gone: a swap burns a note of its *)
(* mint, which delete_mint would have seen.                                *)
(***************************************************************************)

\* No mint is deleted while a lookup of one of its records is under way.
NoDeleteDuringLookup ==
  [][\A mt \in mints \ mints', l \in Lookups : lpc[l] # "idle" => mintOf[asked[l]] # mt]_vars

LookupsHaveMint ==
  \A l \in Lookups : lpc[l] # "idle" => mintOf[asked[l]] \in mints

MintsInv == OutstandingHasMint /\ LookupsHaveMint

LEMMA InitMints == Init => MintsInv
BY IssuanceAssumption DEF Init, MintsInv, OutstandingHasMint, LookupsHaveMint

LEMMA PayMints ==
  ASSUME TypeOK, IssuanceInv, MintsInv, NEW p \in Payers, PayStep(p)
  PROVE  MintsInv'
<1>1. UNCHANGED <<mints, noteRows, lookup>>
  BY DEF PayStep, AcceptPay, ClaimIndex, UnknownUser, CreateInvoice, InvoiceFails,
         RecordMint, RecordRefused, InvoicePaid, database
<1>2. ASSUME NEW l \in Lookups, lpc[l] # "idle"
      PROVE  mintOf'[asked[l]] = mintOf[asked[l]]
  <2>1. asked[l] \in Hashes /\ Recorded(asked[l])
    BY <1>2 DEF IssuanceInv, LookupsHoldRecords, TypeOK
  <2>2. CASE RecordMint(p)
    <3>1. ~Recorded(inv[p])
      BY <2>2 DEF RecordMint, Goto, IssuanceInv, RequestsHoldFreshInvoices
    <3> QED BY <2>1, <2>2, <3>1 DEF RecordMint, TypeOK
  <2>3. CASE UNCHANGED mintOf
    BY <2>3
  <2> QED BY <2>2, <2>3 DEF PayStep, AcceptPay, ClaimIndex, UnknownUser, CreateInvoice,
            InvoiceFails, RecordRefused, InvoicePaid, database, records
<1> QED BY <1>1, <1>2 DEF MintsInv, OutstandingHasMint, LookupsHaveMint, noteRows, lookup

LEMMA LookupMints ==
  ASSUME TypeOK, IssuanceInv, MintsInv, NEW l \in Lookups, LookupStep(l)
  PROVE  MintsInv'
<1> USE DEF MintsInv, OutstandingHasMint, LookupsHaveMint
<1>1. ASSUME NEW id \in NoteIds \cup Hashes, NEW mt \in Mints, NEW h \in Hashes,
             LookUp(l, id, mt, h)
      PROVE  MintsInv'
  BY <1>1 DEF LookUp, PendingRecords, TypeOK, database, noteRows, records
<1>2. CASE NotSettled(l) \/ SeenPaid(l)
  BY <1>2 DEF NotSettled, SeenPaid, LeaveLookup, TypeOK, database, noteRows, records
<1>3. CASE SettleMint(l)
  <2>1. LookupsHaveMint'
    BY <1>3 DEF SettleMint, LeaveLookup, TypeOK
  <2>2. CASE Pending(asked[l])
    <3>1. mintOf[asked[l]] \in mints /\ mints' = mints
      BY <1>3 DEF SettleMint
    <3>2. credit[asked[l]] \in NoteIds
      BY <1>3, <2>2 DEF SettleMint, TypeOK, Pending, Recorded
    <3> QED BY <1>3, <2>1, <2>2, <3>1, <3>2 DEF SettleMint, InsertNote, TypeOK, noteRows
  <2>3. CASE ~Pending(asked[l])
    BY <1>3, <2>1, <2>3 DEF SettleMint, noteRows
  <2> QED BY <2>2, <2>3
<1> QED BY <1>1, <1>2, <1>3 DEF LookupStep

LEMMA SwapMints ==
  ASSUME TypeOK, MintsInv, NEW mt \in Mints, NEW burned \in SUBSET Burnable(mt),
         NEW outputs \in SUBSET FreeOutputs, Swap(mt, burned, outputs)
  PROVE  MintsInv'
<1>1. mt \in mints
  BY DEF Swap, Burnable, MintsInv, OutstandingHasMint
<1>2. /\ \A n \in NoteIds : status'[n] = "live" =>
            owner'[n] = mt \/ (status[n] = "live" /\ owner'[n] = owner[n])
      /\ UNCHANGED <<mints, records, lookup>>
  BY DEF Swap, BurnAndMake, TypeOK
<1> QED BY <1>1, <1>2 DEF MintsInv, OutstandingHasMint, LookupsHaveMint, records, lookup

LEMMA OwnerMints ==
  ASSUME TypeOK, MintsInv, NEW mt \in Mints, MintStep(mt),
         \A l \in Lookups : mt \in mints \ mints' /\ lpc[l] # "idle" => mintOf[asked[l]] # mt
  PROVE  MintsInv'
<1>1. UNCHANGED <<noteRows, records, lookup>>
  BY DEF MintStep, DeleteMint, DeleteUsername, UpsertUsername
<1>2. CASE DeleteMint(mt)
  <2>1. \A n \in NoteIds : status[n] = "live" => owner[n] # mt
    BY <1>2 DEF DeleteMint, Burnable
  <2> QED BY <1>1, <1>2, <2>1
          DEF DeleteMint, MintsInv, OutstandingHasMint, LookupsHaveMint, noteRows, records, lookup
<1>3. CASE UNCHANGED mints
  BY <1>1, <1>3 DEF MintsInv, OutstandingHasMint, LookupsHaveMint, noteRows, records, lookup
<1> QED BY <1>2, <1>3 DEF MintStep, DeleteUsername, UpsertUsername

LEMMA MintsStep ==
  ASSUME TypeOK, IssuanceInv, MintsInv, [Next]_vars,
         [\A mt \in mints \ mints', l \in Lookups : lpc[l] # "idle" => mintOf[asked[l]] # mt]_vars
  PROVE  MintsInv'
<1>1. ASSUME NEW mt \in Mints, MintStep(mt)
      PROVE  MintsInv'
  <2>1. CASE UNCHANGED vars
    BY <2>1 DEF vars, database, noteRows, records, lookup, MintsInv, OutstandingHasMint,
                LookupsHaveMint
  <2>2. CASE \A m \in mints \ mints', l \in Lookups : lpc[l] # "idle" => mintOf[asked[l]] # m
    BY <1>1, <2>2, OwnerMints
  <2> QED BY <2>1, <2>2
<1>2. CASE Crash
  BY <1>2 DEF Crash, ProcessDies, database, noteRows, records, MintsInv, OutstandingHasMint,
              LookupsHaveMint
<1>3. CASE UNCHANGED vars
  BY <1>3 DEF vars, database, noteRows, records, lookup, MintsInv, OutstandingHasMint,
              LookupsHaveMint
<1> QED BY <1>1, <1>2, <1>3, PayMints, LookupMints, SwapMints DEF Next

\* While no mint is deleted under a lookup of one of its records, whatever pay
\* requests, swaps, deletions, settlements and crashes do, an outstanding note
\* belongs to a mint that exists.
THEOREM OnlyLookupsOrphanNotes == Spec /\ NoDeleteDuringLookup => []OutstandingHasMint
<1>1. MintsInv => OutstandingHasMint
  BY DEF MintsInv
<1> QED BY <1>1, InitMints, MintsStep, TypeCorrect, InvHolds, PTL
        DEF Spec, NoDeleteDuringLookup
=============================================================================
