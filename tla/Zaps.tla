-------------------------------- MODULE Zaps --------------------------------
(***************************************************************************)
(* Zaps (NIP-57) and the mint's clock: invoices bound to a zap request, and *)
(* the periodic task that settles the recent ones and publishes a receipt   *)
(* for each settled one.                                                    *)
(*                                                                         *)
(* The funding source and the relays are external: an invoice may be paid   *)
(* at any time, a lookup may go unanswered, and a relay may take a receipt  *)
(* without its OK being heard.  What settling does to the table of notes is *)
(* in module Timing; how lookups race to settle, in Issuance.               *)
(***************************************************************************)
EXTENDS Integers, FiniteSets

CONSTANTS
  Mints,
  Invoices,     \* invoices of zap requests, each with the note it credits
  mintOf,       \* the mint of each invoice
  Unbuildable,  \* zap requests with an empty tag, which are validated but
                \* make zap_receipt raise
  Relayless,    \* zap requests that name no wss:// relay
  PollWindow,   \* _ZAP_POLL_WINDOW_SECONDS, 3600 in the code
  PollLimit,    \* _ZAP_POLL_LIMIT, 100 in the code
  MaxClock,     \* bound on the clock
  MaxCrashes,   \* bound on crashes of the process
  NoMint, NoInvoice

ASSUME ZapsAssumption ==
  /\ mintOf \in [Invoices -> Mints]
  /\ Unbuildable \subseteq Invoices /\ Relayless \subseteq Invoices
  /\ PollWindow \in Nat /\ PollLimit \in Nat
  /\ MaxClock \in Nat /\ MaxCrashes \in Nat
  /\ NoMint \notin Mints
  /\ NoInvoice \notin Invoices

VARIABLES
  clock,    \* int(time.time())
  offers,   \* mints.zaps_enabled
  relays,   \* mints.zap_relays names a relay
  record,   \* mints_records.minted of each zap invoice, or no row
  created,  \* mints_records.created_at
  receipt,  \* mints_records.zap_receipt is set
  paid,     \* the funding source has the payment
  taken,    \* some relay has the receipt
  tpc,      \* the task: its step
  round,    \* the mints it still goes to this round
  cur,      \* the mint it is at
  extra,    \* that mint had zap_relays when its turn began
  todo,     \* the invoices it still polls, or publishes
  at,       \* the invoice it marks published
  crashes

records == <<record, created, receipt>>
settings == <<offers, relays>>
task == <<tpc, round, cur, extra, todo, at>>
zapVars == <<clock, settings, records, paid, taken, task, crashes>>

TaskSteps == {"asleep", "choosing", "polling", "publishing", "marking"}

Asleep ==
  /\ tpc = "asleep"
  /\ round = {}
  /\ cur = NoMint
  /\ extra = FALSE
  /\ todo = {}
  /\ at = NoInvoice

ZapsInit ==
  /\ clock = 0
  /\ offers \in [Mints -> BOOLEAN]
  /\ relays \in [Mints -> BOOLEAN]
  /\ record = [z \in Invoices |-> "none"]
  /\ created = [z \in Invoices |-> 0]
  /\ receipt = [z \in Invoices |-> FALSE]
  /\ paid = [z \in Invoices |-> FALSE]
  /\ taken = [z \in Invoices |-> FALSE]
  /\ Asleep
  /\ crashes = 0

(***************************************************************************)
(* The clock, the operator, the payer and the requests.                    *)
(***************************************************************************)
Tick ==
  /\ clock < MaxClock
  /\ clock' = clock + 1
  /\ UNCHANGED <<settings, records, paid, taken, task, crashes>>

\* update_mint.
UpdateMint(m) ==
  /\ \E zaps \in BOOLEAN : offers' = [offers EXCEPT ![m] = zaps]
  /\ \E some \in BOOLEAN : relays' = [relays EXCEPT ![m] = some]
  /\ UNCHANGED <<clock, records, paid, taken, task, crashes>>

\* The pay callback of a registered username, with a valid zap request.
ZapInvoice(z) ==
  /\ record[z] = "none"
  /\ offers[mintOf[z]]
  /\ record' = [record EXCEPT ![z] = "pending"]
  /\ created' = [created EXCEPT ![z] = clock]
  /\ UNCHANGED <<clock, settings, receipt, paid, taken, task, crashes>>

InvoicePaid(z) ==
  /\ record[z] = "pending"
  /\ paid' = [paid EXCEPT ![z] = TRUE]
  /\ UNCHANGED <<clock, settings, records, taken, task, crashes>>

\* Fault: without the compare-and-set a record settles again.
SettleAgain(z) ==
  /\ record[z] # "none"
  /\ paid[z]
  /\ record' = [record EXCEPT ![z] = "minted"]
  /\ UNCHANGED <<clock, settings, created, receipt, paid, taken, crashes>>

\* _try_settle_mint finds the invoice paid and settle_mint wins.
Settle(z) ==
  /\ record[z] = "pending"
  /\ paid[z]
  /\ record' = [record EXCEPT ![z] = "minted"]
  /\ UNCHANGED <<clock, settings, created, receipt, paid, taken, crashes>>

\* The note is looked up by /w, /w/cb or /verify, however old the invoice is.
LookupSettles(z) == Settle(z) /\ UNCHANGED task

(***************************************************************************)
(* publish_all_zap_receipts, run every five seconds.                       *)
(***************************************************************************)
RoundStarts ==
  /\ tpc = "asleep"
  /\ tpc' = "choosing"
  /\ round' = {m \in Mints : offers[m]}
  /\ UNCHANGED <<clock, settings, records, paid, taken, cur, extra, todo, at, crashes>>

RoundEnds ==
  /\ tpc = "choosing"
  /\ round = {}
  /\ tpc' = "asleep"
  /\ UNCHANGED <<clock, settings, records, paid, taken, round, cur, extra, todo, at, crashes>>

\* The unpaid zap invoices of the window.
Recent(m) ==
  {z \in Invoices : /\ mintOf[z] = m
                    /\ record[z] = "pending"
                    /\ created[z] >= clock - PollWindow}

\* What pending_zap_mints may return: as many of the newest as the limit lets.
Newest(zs) ==
  {picked \in SUBSET zs :
     /\ Cardinality(picked) <= PollLimit
     /\ picked # zs => Cardinality(picked) = PollLimit
     /\ \A z \in picked, y \in zs \ picked : created[z] >= created[y]}

NextMint(m, picked) ==
  /\ tpc = "choosing"
  /\ m \in round
  /\ picked \in Newest(Recent(m))
  /\ tpc' = "polling"
  /\ round' = round \ {m}
  /\ cur' = m
  /\ extra' = relays[m]
  /\ todo' = picked
  /\ UNCHANGED <<clock, settings, records, paid, taken, at, crashes>>

PollSettles(z) ==
  /\ tpc = "polling"
  /\ z \in todo
  /\ Settle(z)
  /\ todo' = todo \ {z}
  /\ UNCHANGED <<tpc, round, cur, extra, at>>

\* It is not paid, settled meanwhile, or the funding source does not answer.
PollPasses(z) ==
  /\ tpc = "polling"
  /\ z \in todo
  /\ todo' = todo \ {z}
  /\ UNCHANGED <<clock, settings, records, paid, taken, tpc, round, cur, extra, at, crashes>>

\* Faults: the query forgets that the invoice must be settled, that the
\* receipt must be missing, or keeps to the window of the poll.
UnpublishedUnsettled(m) ==
  {z \in Invoices : mintOf[z] = m /\ record[z] # "none" /\ ~receipt[z]}
UnpublishedOrNot(m) == {z \in Invoices : mintOf[z] = m /\ record[z] = "minted"}
UnpublishedRecent(m) ==
  {z \in Invoices : /\ mintOf[z] = m /\ record[z] = "minted" /\ ~receipt[z]
                    /\ created[z] >= clock - PollWindow}

\* unpublished_zaps: however old they are.
Unpublished(m) ==
  {z \in Invoices : mintOf[z] = m /\ record[z] = "minted" /\ ~receipt[z]}

PollEnds ==
  /\ tpc = "polling"
  /\ todo = {}
  /\ tpc' = "publishing"
  /\ todo' = Unpublished(cur)
  /\ UNCHANGED <<clock, settings, records, paid, taken, round, cur, extra, at, crashes>>

\* relays_of(request) + zap_relays; publish reaches nobody if there is none.
HasRelay(z) == z \notin Relayless \/ extra

\* A receipt is built and sent to its relays, if any; its turn is over.
Send(z) ==
  /\ tpc = "publishing"
  /\ z \in todo \ Unbuildable
  /\ todo' = todo \ {z}
  /\ UNCHANGED <<clock, settings, records, paid, round, cur, extra, crashes>>

RelayConfirms(z) ==
  /\ Send(z)
  /\ HasRelay(z)
  /\ taken' = [taken EXCEPT ![z] = TRUE]
  /\ tpc' = "marking"
  /\ at' = z

RelayUnheard(z) ==
  /\ Send(z)
  /\ HasRelay(z)
  /\ taken' = [taken EXCEPT ![z] = TRUE]
  /\ UNCHANGED <<tpc, at>>

RelaysRefuse(z) == Send(z) /\ UNCHANGED <<taken, tpc, at>>

\* Fault: the zap is forgotten whether or not the statement ran.
MarkForgotten ==
  /\ tpc = "marking"
  /\ tpc' = "publishing"
  /\ UNCHANGED <<clock, settings, records, paid, taken, round, cur, extra, todo, at, crashes>>

MarkPublished ==
  /\ tpc = "marking"
  /\ receipt' = [receipt EXCEPT ![at] = TRUE]
  /\ tpc' = "publishing"
  /\ at' = NoInvoice
  /\ UNCHANGED <<clock, settings, record, created, paid, taken, round, cur, extra, todo, crashes>>

LeaveMint ==
  /\ tpc' = "choosing"
  /\ cur' = NoMint
  /\ extra' = FALSE
  /\ todo' = {}
  /\ UNCHANGED <<clock, settings, records, paid, taken, round, at, crashes>>

MintEnds ==
  /\ tpc = "publishing"
  /\ todo = {}
  /\ LeaveMint

\* The exception ends the mint's turn, the zaps after it included.
ReceiptRaises(z) ==
  /\ tpc = "publishing"
  /\ z \in todo \cap Unbuildable
  /\ LeaveMint

\* The process dies and restarts.
Crash ==
  /\ crashes < MaxCrashes
  /\ crashes' = crashes + 1
  /\ tpc' = "asleep"
  /\ round' = {}
  /\ cur' = NoMint
  /\ extra' = FALSE
  /\ todo' = {}
  /\ at' = NoInvoice
  /\ UNCHANGED <<clock, settings, records, paid, taken>>

-----------------------------------------------------------------------------
\* The task's steps, and all steps, that settle nothing.
TaskStep ==
  \/ RoundStarts \/ RoundEnds \/ PollEnds \/ MarkPublished \/ MintEnds
  \/ \E m \in Mints, picked \in SUBSET Invoices : NextMint(m, picked)
  \/ \E z \in Invoices :
       PollPasses(z) \/ RelayConfirms(z) \/ RelayUnheard(z) \/ RelaysRefuse(z)
         \/ ReceiptRaises(z)

ZapsStep ==
  \/ TaskStep \/ Tick \/ Crash
  \/ \E m \in Mints : UpdateMint(m)
  \/ \E z \in Invoices : ZapInvoice(z) \/ InvoicePaid(z)

\* The task goes on, and relays that are sent a receipt over and over confirm
\* it in the end.
ZapsFairness ==
  /\ WF_zapVars(TaskStep)
  /\ \A z \in Invoices : SF_zapVars(RelayConfirms(z))

ZapsTypeOK ==
  /\ clock \in 0..MaxClock
  /\ offers \in [Mints -> BOOLEAN]
  /\ relays \in [Mints -> BOOLEAN]
  /\ record \in [Invoices -> {"none", "pending", "minted"}]
  /\ created \in [Invoices -> 0..MaxClock]
  /\ receipt \in [Invoices -> BOOLEAN]
  /\ paid \in [Invoices -> BOOLEAN]
  /\ taken \in [Invoices -> BOOLEAN]
  /\ tpc \in TaskSteps
  /\ round \subseteq Mints
  /\ cur \in Mints \cup {NoMint}
  /\ todo \subseteq Invoices
  /\ at \in Invoices \cup {NoInvoice}
  /\ extra \in BOOLEAN
  /\ tpc \in {"asleep", "choosing"} => todo = {} /\ cur = NoMint /\ ~extra
  /\ at = NoInvoice <=> tpc # "marking"
  /\ crashes \in 0..MaxCrashes

\* A receipt on file was taken by a relay, and a relay only has receipts of
\* zaps that were paid and whose note was credited.
ReceiptMeansPaid ==
  \A z \in Invoices : /\ receipt[z] => taken[z]
                      /\ taken[z] => paid[z] /\ record[z] = "minted"

\* A receipt that is on file as published is not sent again; one that a relay
\* has but that is not on file may be.
NoSecondReceipt ==
  tpc \in {"publishing", "marking"} => \A z \in todo \cup ({at} \ {NoInvoice}) : ~receipt[z]

\* A settled zap gets its receipt marked in the end, whenever it was settled
\* and whatever crashed, on a mint that goes on offering zaps, if it names a
\* relay or the mint comes to have some for good, and as long as no zap whose
\* receipt cannot be built is settled there.
Blocked(m) == \E z \in Unbuildable : mintOf[z] = m /\ record[z] = "minted"

ZapsReceipted ==
  \A z \in Invoices \ Unbuildable :
    LET m == mintOf[z]
    IN  <>[](offers[m] /\ (z \in Relayless => relays[m])) /\ []~Blocked(m)
          => (record[z] = "minted" ~> receipt[z])

\* What the comment above _ZAP_POLL_WINDOW_SECONDS says: a zap paid outside
\* the window gets no receipt.
UnpaidInWindow(z) ==
  record[z] = "pending" /\ ~paid[z] /\ created[z] < clock - PollWindow

LateZapsUnreceipted ==
  \A z \in Invoices : [](UnpaidInWindow(z) => []~receipt[z])
=============================================================================
