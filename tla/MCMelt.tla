------------------------------- MODULE MCMelt -------------------------------
(***************************************************************************)
(* Instances of Melt for TLC: which note a request spends and which        *)
(* invoice it names.                                                       *)
(***************************************************************************)
EXTENDS Melt, TLC

CONSTANTS n1, n2, h1, h2, m1, m2, m3

\* Each request has a note of its own, or all spend n1.
DistinctNotes == [m \in Melts |-> IF m = m1 THEN n1 ELSE n2]
SameNote == [m \in Melts |-> n1]

\* Each request has an invoice of its own, all name h1, or all but m2 do.
DistinctInvoices == [m \in Melts |-> IF m = m1 THEN h1 ELSE h2]
SameInvoice == [m \in Melts |-> h1]
SharedInvoice == [m \in Melts |-> IF m = m2 THEN h2 ELSE h1]
=============================================================================
