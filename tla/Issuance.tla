------------------------------ MODULE Issuance ------------------------------
(***************************************************************************)
(* How notes come to exist in the lnurlmint extension: the payRequest      *)
(* callback that turns a payment into a pending mint record, the lazy      *)
(* settlement that turns a paid record into a note on somebody's first     *)
(* look, rotate/split/merge putting notes under outputs of the wallet's    *)
(* choosing, and the owner deleting a mint.                                *)
(*                                                                         *)
(* Note ids are shared by all of them and by all mints: notes.id is one    *)
(* primary key.  A step is one database block, which LNbits runs under a   *)
(* lock, or a stretch between two awaits.  Amounts, fees and the spend     *)
(* check are not modelled here, a request they refuse leaves no trace; nor *)
(* are melts, whose notes swap refuses (module Melt).                      *)
(***************************************************************************)
EXTENDS Naturals, FiniteSets

CONSTANTS
  Mints,           \* mint ids
  NoteIds,         \* note ids, hex(Q); a wallet may choose one that is the
                   \* hex of a payment hash it has seen
  IssuedNotes,     \* notes already on file, all on mint Home
  Home,
  Hashes,          \* payment hashes of the invoices this mint creates
  Payers,          \* requests to the payRequest callback
  Lookups,         \* tasks that may settle: /w, /w/cb, /verify, zap poll
  Registering,     \* mints with registration enabled
  Branches,        \* branches a username may be registered with
  branchKey,       \* the key of each index of a branch
  MaxIndex,        \* bound on branch indices
  MaxCrashes,      \* bound on crashes of the process
  NoNote, NoHash, NoMint, NoBranch

Indices == 0..MaxIndex

ASSUME IssuanceAssumption ==
  /\ IssuedNotes \subseteq NoteIds
  /\ Home \in Mints
  /\ Registering \subseteq Mints
  /\ branchKey \in [Branches -> [Indices -> NoteIds \ Hashes]]
  /\ MaxIndex \in Nat
  /\ MaxCrashes \in Nat
  /\ NoNote \notin NoteIds \cup Hashes
  /\ NoHash \notin Hashes
  /\ NoMint \notin Mints
  /\ NoBranch \notin Branches

VARIABLES
  mints,      \* the rows of mints
  status,     \* notes: no row, or its spent column
  owner,      \* notes.mint_id, NoMint when there is no row
  credit,     \* mints_records.note_id of each hash, NoNote without a row
  mintOf,     \* mints_records.mint_id
  minted,     \* mints_records.minted
  burns,      \* burns: the notes of each burn and the notes it made
  branch,     \* usernames.cx1 of the one name each mint has, or no row
  nextIndex,  \* usernames.next_index
  invoice,    \* the incoming payment of each hash, as the node has it
  pc, at, on, pick, inv,  \* each pay request: its step, mint, the branch it derives
                          \* on, note id and payment hash
  lpc, asked, \* each lookup: its step and the payment hash it asks about
  crashes

noteRows == <<status, owner>>
records == <<credit, mintOf, minted>>
names == <<branch, nextIndex>>
database == <<mints, noteRows, records, burns, names>>
payer == <<pc, at, on, pick, inv>>
lookup == <<lpc, asked>>
vars == <<database, invoice, payer, lookup, crashes>>

PaySteps == {"idle", "deriving", "picked", "invoiced", "offered", "refused", "crashed"}
LookupSteps == {"idle", "asking", "settling"}

Init ==
  /\ mints = Mints
  /\ status = [n \in NoteIds |-> IF n \in IssuedNotes THEN "live" ELSE "absent"]
  /\ owner = [n \in NoteIds |-> IF n \in IssuedNotes THEN Home ELSE NoMint]
  /\ credit = [h \in Hashes |-> NoNote]
  /\ mintOf = [h \in Hashes |-> NoMint]
  /\ minted = [h \in Hashes |-> FALSE]
  /\ burns = {}
  /\ branch = [mt \in Mints |-> NoBranch]
  /\ nextIndex = [mt \in Mints |-> 0]
  /\ invoice = [h \in Hashes |-> "none"]
  /\ pc = [p \in Payers |-> "idle"]
  /\ at = [p \in Payers |-> NoMint]
  /\ on = [p \in Payers |-> NoBranch]
  /\ pick = [p \in Payers |-> NoNote]
  /\ inv = [p \in Payers |-> NoHash]
  /\ lpc = [l \in Lookups |-> "idle"]
  /\ asked = [l \in Lookups |-> NoHash]
  /\ crashes = 0

Recorded(h) == credit[h] # NoNote
Pending(h) == Recorded(h) /\ ~minted[h]

\* The node draws payment hashes at random: a wallet can name one as a note id
\* once the answer to a pay request has shown it, which is after its record.
Nameable(n) == n \in Hashes => Recorded(n)

\* Faults: only notes on file count as taken; only mint records do.
NotesTaken == {n \in NoteIds : status[n] # "absent"}
CreditsTaken == {n \in NoteIds : \E h \in Hashes : credit[h] = n}

\* The ids that name a note, on any mint, or the note some invoice will credit.
Taken == NotesTaken \cup CreditsTaken

(***************************************************************************)
(* _pay_callback.                                                          *)
(***************************************************************************)
Goto(p, from, to) ==
  /\ pc[p] = from
  /\ pc' = [pc EXCEPT ![p] = to]

\* The request is accepted on an existing mint, with the output its comment
\* names or, at a username's address, for the branch on file.
AcceptPay(p, mt, comment) ==
  /\ mt \in mints
  /\ IF comment = NoNote THEN branch[mt] # NoBranch ELSE Nameable(comment)
  /\ Goto(p, "idle", IF comment = NoNote THEN "deriving" ELSE "picked")
  /\ at' = [at EXCEPT ![p] = mt]
  /\ on' = [on EXCEPT ![p] = IF comment = NoNote THEN branch[mt] ELSE NoBranch]
  /\ pick' = [pick EXCEPT ![p] = comment]
  /\ UNCHANGED <<database, invoice, inv, lookup, crashes>>

\* The indices claim_next_index tries and finds free: it starts at the name's
\* next index, with the keys of the branch the request read.
FreeIndices(p) == {i \in Indices : i >= nextIndex[at[p]] /\ branchKey[on[p]][i] \notin Taken}

\* Fault: the index after the next is kept.
ClaimSkips(p, i) ==
  /\ Goto(p, "deriving", "picked")
  /\ branch[at[p]] # NoBranch
  /\ i \in FreeIndices(p)
  /\ \A j \in FreeIndices(p) : i <= j
  /\ nextIndex' = [nextIndex EXCEPT ![at[p]] = i + 2]
  /\ pick' = [pick EXCEPT ![p] = branchKey[on[p]][i]]
  /\ on' = [on EXCEPT ![p] = NoBranch]
  /\ UNCHANGED <<mints, noteRows, records, burns, branch, invoice, at, inv, lookup, crashes>>

ClaimIndex(p, i) ==
  /\ Goto(p, "deriving", "picked")
  /\ branch[at[p]] # NoBranch
  /\ i \in FreeIndices(p)
  /\ \A j \in FreeIndices(p) : i <= j
  /\ nextIndex' = [nextIndex EXCEPT ![at[p]] = i + 1]
  /\ pick' = [pick EXCEPT ![p] = branchKey[on[p]][i]]
  /\ on' = [on EXCEPT ![p] = NoBranch]
  /\ UNCHANGED <<mints, noteRows, records, burns, branch, invoice, at, inv, lookup, crashes>>

\* The name was freed while the request was on its way.
UnknownUser(p) ==
  /\ Goto(p, "deriving", "refused")
  /\ branch[at[p]] = NoBranch
  /\ on' = [on EXCEPT ![p] = NoBranch]
  /\ UNCHANGED <<database, invoice, at, pick, inv, lookup, crashes>>

CreateInvoice(p, h) ==
  /\ Goto(p, "picked", "invoiced")
  /\ invoice[h] = "none"
  /\ invoice' = [invoice EXCEPT ![h] = "open"]
  /\ inv' = [inv EXCEPT ![p] = h]
  /\ UNCHANGED <<database, at, on, pick, lookup, crashes>>

InvoiceFails(p) ==
  /\ Goto(p, "picked", "refused")
  /\ UNCHANGED <<database, invoice, at, on, pick, inv, lookup, crashes>>

\* Faults: the check leaves out the notes on file, or the payment hashes.
OnlyCredits(n) == n \in CreditsTaken \/ (n \in Hashes /\ Recorded(n))
NoHashCheck(n) == n \in Taken

\* record_mint_record's collision query.
InUse(n) == n \in Taken \/ (n \in Hashes /\ Recorded(n))

RecordMint(p) ==
  /\ Goto(p, "invoiced", "offered")
  /\ ~InUse(pick[p])
  /\ credit' = [credit EXCEPT ![inv[p]] = pick[p]]
  /\ mintOf' = [mintOf EXCEPT ![inv[p]] = at[p]]
  /\ UNCHANGED <<mints, noteRows, minted, burns, names, invoice, at, on, pick, inv,
                 lookup, crashes>>

RecordRefused(p) ==
  /\ Goto(p, "invoiced", "refused")
  /\ InUse(pick[p])
  /\ UNCHANGED <<database, invoice, at, on, pick, inv, lookup, crashes>>

\* The payer pays the invoice it was handed.
InvoicePaid(p) ==
  /\ pc[p] = "offered"
  /\ invoice[inv[p]] = "open"
  /\ invoice' = [invoice EXCEPT ![inv[p]] = "paid"]
  /\ UNCHANGED <<database, payer, lookup, crashes>>

(***************************************************************************)
(* _try_settle_mint: the record is read, the node is asked, the record is  *)
(* settled, each across an await.                                          *)
(***************************************************************************)

\* get_pending_mint_record(id, mt): the id is a payment hash or a note id.
PendingRecords(id, mt) ==
  {h \in Hashes : Pending(h) /\ mintOf[h] = mt /\ (h = id \/ credit[h] = id)}

LookUp(l, id, mt, h) ==
  /\ lpc[l] = "idle"
  /\ mt \in mints
  /\ h \in PendingRecords(id, mt)
  /\ lpc' = [lpc EXCEPT ![l] = "asking"]
  /\ asked' = [asked EXCEPT ![l] = h]
  /\ UNCHANGED <<database, invoice, payer, crashes>>

LeaveLookup(l) ==
  /\ lpc' = [lpc EXCEPT ![l] = "idle"]
  /\ asked' = [asked EXCEPT ![l] = NoHash]

\* The invoice is unpaid, or the funding source does not answer.
NotSettled(l) ==
  /\ lpc[l] = "asking"
  /\ LeaveLookup(l)
  /\ UNCHANGED <<database, invoice, payer, crashes>>

SeenPaid(l) ==
  /\ lpc[l] = "asking"
  /\ invoice[asked[l]] = "paid"
  /\ lpc' = [lpc EXCEPT ![l] = "settling"]
  /\ UNCHANGED <<database, invoice, payer, asked, crashes>>

MarkMinted(h) == minted' = [minted EXCEPT ![h] = TRUE]

\* INSERT INTO notes, which raises when the id has a row.
InsertNote(n, mt) ==
  IF status[n] = "absent"
  THEN /\ status' = [status EXCEPT ![n] = "live"]
       /\ owner' = [owner EXCEPT ![n] = mt]
  ELSE UNCHANGED noteRows

\* Fault: the row is inserted whoever set minted.
SettleAnyway(l) ==
  /\ lpc[l] = "settling"
  /\ LeaveLookup(l)
  /\ MarkMinted(asked[l])
  /\ status' = [status EXCEPT ![credit[asked[l]]] = "live"]
  /\ owner' = [owner EXCEPT ![credit[asked[l]]] = mintOf[asked[l]]]
  /\ UNCHANGED <<mints, credit, mintOf, burns, names, invoice, payer, crashes>>

\* settle_mint: the compare-and-set on minted picks one winner.
SettleMint(l) ==
  /\ lpc[l] = "settling"
  /\ LeaveLookup(l)
  /\ IF Pending(asked[l])
     THEN MarkMinted(asked[l]) /\ InsertNote(credit[asked[l]], mintOf[asked[l]])
     ELSE UNCHANGED <<minted, noteRows>>
  /\ UNCHANGED <<mints, credit, mintOf, burns, names, invoice, payer, crashes>>

(***************************************************************************)
(* The swap block of a rotate, split or merge on mint mt.                  *)
(***************************************************************************)

\* Fault: spent notes can be burned again.
OwnedNotes(mt) == {n \in NoteIds : status[n] # "absent" /\ owner[n] = mt}

\* The notes of the mint that swap burns: unspent and not held for a melt.
Burnable(mt) == {n \in NoteIds : status[n] = "live" /\ owner[n] = mt}

\* Fault: outputs are checked against the notes on file only.
OutputsOnFileOnly == {n \in NoteIds : Nameable(n) /\ n \notin NotesTaken}

\* The outputs swap accepts: not on file, not credited by a mint record.
FreeOutputs == {n \in NoteIds : Nameable(n) /\ n \notin Taken}

BurnAndMake(mt, burned, outputs) ==
  /\ status' = [n \in NoteIds |-> IF n \in burned THEN "spent"
                                  ELSE IF n \in outputs THEN "live" ELSE status[n]]
  /\ owner' = [n \in NoteIds |-> IF n \in outputs THEN mt ELSE owner[n]]

\* The request read the mint's row an await earlier: it may be gone by now.
Swap(mt, burned, outputs) ==
  /\ burned # {}
  /\ Cardinality(outputs) \in 1..2
  /\ BurnAndMake(mt, burned, outputs)
  /\ burns' = burns \cup {[burned |-> burned, made |-> outputs]}
  /\ UNCHANGED <<mints, records, names, invoice, payer, lookup, crashes>>

(***************************************************************************)
(* The owner and the wallets.                                              *)
(***************************************************************************)

\* Fault: the mint goes whatever notes it has outstanding.
DeleteUnchecked(mt) ==
  /\ mt \in mints
  /\ mints' = mints \ {mt}
  /\ UNCHANGED <<noteRows, records, burns, names, invoice, payer, lookup, crashes>>

\* delete_mint refuses while a note of the mint is unspent.
DeleteMint(mt) ==
  /\ mt \in mints
  /\ Burnable(mt) = {}
  /\ mints' = mints \ {mt}
  /\ UNCHANGED <<noteRows, records, burns, names, invoice, payer, lookup, crashes>>

\* A name is claimed, or its branch replaced, and freed; who may is the subject
\* of module Usernames.  The request read the mint earlier.
UpsertUsername(mt, b) ==
  /\ mt \in Registering
  /\ branch' = [branch EXCEPT ![mt] = b]
  /\ nextIndex' = [nextIndex EXCEPT ![mt] = 0]
  /\ UNCHANGED <<mints, noteRows, records, burns, invoice, payer, lookup, crashes>>

DeleteUsername(mt) == UpsertUsername(mt, NoBranch)

(***************************************************************************)
(* The process dies and restarts.  Every statement of a block commits on   *)
(* its own, so a crash may leave settle_mint's UPDATE without its INSERT,  *)
(* or swap's burns and some of its outputs without the rest.               *)
(***************************************************************************)
ProcessDies ==
  /\ crashes < MaxCrashes
  /\ crashes' = crashes + 1
  /\ pc' = [p \in Payers |-> IF pc[p] \in {"deriving", "picked", "invoiced"}
                             THEN "crashed" ELSE pc[p]]
  /\ lpc' = [l \in Lookups |-> "idle"]
  /\ on' = [p \in Payers |-> NoBranch]
  /\ asked' = [l \in Lookups |-> NoHash]
  /\ UNCHANGED <<invoice, at, pick, inv>>

Crash == ProcessDies /\ UNCHANGED database

CrashInSettle(l) ==
  /\ lpc[l] = "settling"
  /\ Pending(asked[l])
  /\ MarkMinted(asked[l])
  /\ ProcessDies
  /\ UNCHANGED <<mints, noteRows, credit, mintOf, burns, names>>

CrashInSwap(mt, burned, outputs) ==
  /\ burned # {}
  /\ Cardinality(outputs) <= 2
  /\ BurnAndMake(mt, burned, outputs)
  /\ ProcessDies
  /\ UNCHANGED <<mints, records, burns, names>>

-----------------------------------------------------------------------------
PayStep(p) ==
  \/ \E mt \in Mints, comment \in NoteIds \cup {NoNote} : AcceptPay(p, mt, comment)
  \/ \E i \in Indices : ClaimIndex(p, i)
  \/ \E h \in Hashes : CreateInvoice(p, h)
  \/ UnknownUser(p) \/ InvoiceFails(p) \/ RecordMint(p) \/ RecordRefused(p) \/ InvoicePaid(p)

LookupStep(l) ==
  \/ \E id \in NoteIds \cup Hashes, mt \in Mints, h \in Hashes : LookUp(l, id, mt, h)
  \/ NotSettled(l) \/ SeenPaid(l) \/ SettleMint(l)

MintStep(mt) ==
  \/ DeleteMint(mt) \/ DeleteUsername(mt)
  \/ \E b \in Branches : UpsertUsername(mt, b)

Next ==
  \/ \E p \in Payers : PayStep(p)
  \/ \E l \in Lookups : LookupStep(l)
  \/ \E mt \in Mints : \E burned \in SUBSET Burnable(mt), outputs \in SUBSET FreeOutputs :
       Swap(mt, burned, outputs)
  \/ \E mt \in Mints : MintStep(mt)
  \/ Crash

Spec == Init /\ [][Next]_vars

\* Crashes may also fall between two statements of a block.
CrashMidBlock ==
  \/ \E l \in Lookups : CrashInSettle(l)
  \/ \E mt \in Mints : \E burned \in SUBSET Burnable(mt), outputs \in SUBSET FreeOutputs :
       CrashInSwap(mt, burned, outputs)

SpecMidBlock == Init /\ [][Next \/ CrashMidBlock]_vars

-----------------------------------------------------------------------------
(***************************************************************************)
(* Properties.                                                             *)
(***************************************************************************)

\* The columns hold what the code can put there; a note has an owner exactly
\* when it has a row, a record a mint exactly when it has a note.
TypeOK ==
  /\ mints \subseteq Mints
  /\ status \in [NoteIds -> {"absent", "live", "spent"}]
  /\ owner \in [NoteIds -> Mints \cup {NoMint}]
  /\ \A n \in NoteIds : owner[n] = NoMint <=> status[n] = "absent"
  /\ credit \in [Hashes -> NoteIds \cup {NoNote}]
  /\ mintOf \in [Hashes -> Mints \cup {NoMint}]
  /\ minted \in [Hashes -> BOOLEAN]
  /\ \A h \in Hashes : /\ mintOf[h] = NoMint <=> ~Recorded(h)
                       /\ minted[h] => Recorded(h)
  /\ burns \subseteq [burned : SUBSET NoteIds, made : SUBSET NoteIds]
  /\ branch \in [Mints -> Branches \cup {NoBranch}]
  /\ nextIndex \in [Mints -> 0..(MaxIndex + 1)]
  /\ \A mt \in Mints : branch[mt] = NoBranch => nextIndex[mt] = 0
  /\ invoice \in [Hashes -> {"none", "open", "paid"}]
  /\ pc \in [Payers -> PaySteps]
  /\ at \in [Payers -> Mints \cup {NoMint}]
  /\ on \in [Payers -> Branches \cup {NoBranch}]
  /\ pick \in [Payers -> NoteIds \cup {NoNote}]
  /\ inv \in [Payers -> Hashes \cup {NoHash}]
  /\ \A p \in Payers :
       /\ pc[p] \in {"deriving", "picked", "invoiced", "offered"} => at[p] # NoMint
       /\ pc[p] = "deriving" <=> on[p] # NoBranch
       /\ pc[p] \in {"picked", "invoiced", "offered"} => pick[p] # NoNote
       /\ pc[p] \in {"invoiced", "offered"} => inv[p] # NoHash
  /\ lpc \in [Lookups -> LookupSteps]
  /\ asked \in [Lookups -> Hashes \cup {NoHash}]
  /\ \A l \in Lookups : lpc[l] # "idle" <=> asked[l] # NoHash
  /\ crashes \in 0..MaxCrashes

\* The note a pending mint will credit is nobody else's: no note is on file
\* under its id and no other record credits it, whatever mints, swaps and
\* auto-minted branch keys were requested in between.  Otherwise the INSERT of
\* settle_mint could never succeed.
OutputsExclusive ==
  \A h \in Hashes :
    /\ Pending(h) => status[credit[h]] = "absent"
    /\ \A g \in Hashes : Recorded(h) /\ credit[g] = credit[h] => g = h

\* An id given to /w, /w/cb or /verify names at most one pending record, be it
\* the record's note or its payment hash, so the query's first row is the row.
LookupUnambiguous ==
  \A id \in NoteIds \cup Hashes, mt \in Mints :
    \A g, h \in PendingRecords(id, mt) : g = h

\* A record is marked minted only for a paid invoice, and then its note is on
\* file, on the record's mint.
MintedIsCredited ==
  \A h \in Hashes : minted[h] =>
    /\ invoice[h] = "paid"
    /\ status[credit[h]] # "absent"
    /\ owner[credit[h]] = mintOf[h]

\* A note on file was made once: it was there at the start, or one paid
\* invoice credited it, or one swap made it.
MadeBySwap(n) == {b \in burns : n \in b.made}
CreditedBy(n) == {h \in Hashes : credit[h] = n /\ minted[h] /\ invoice[h] = "paid"}

MadeOnce ==
  \A n \in NoteIds : status[n] # "absent" =>
    Cardinality(MadeBySwap(n)) + Cardinality(CreditedBy(n))
      + (IF n \in IssuedNotes THEN 1 ELSE 0) = 1

\* A wallet that retries a rotate, split or merge is answered with what it
\* made: a spent note is in the record of one burn, whose outputs are on file.
RetryAnswered ==
  \A n \in NoteIds : status[n] = "spent" =>
    \E b \in burns :
      /\ n \in b.burned
      /\ \A m \in b.made : status[m] # "absent"
      /\ \A c \in burns : n \in c.burned => c = b

\* An outstanding note belongs to a mint that exists.
OutstandingHasMint ==
  \A n \in NoteIds : status[n] = "live" => owner[n] \in mints

\* A note never loses its row, its owner or its spent mark.
NotesKept ==
  [][\A n \in NoteIds : status[n] # "absent" =>
       /\ owner'[n] = owner[n]
       /\ status'[n] # "absent"
       /\ status[n] = "spent" => status'[n] = "spent"]_vars
=============================================================================
