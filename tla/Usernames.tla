------------------------------ MODULE Usernames ------------------------------
(***************************************************************************)
(* Registering and freeing the names of a mint (POST and DELETE of          *)
(* /p/{mint_id}/{username}).  A request reads the mint, then the branch on   *)
(* file, checks the ownership proof against it, and writes, each a database *)
(* call of its own with an await before it.                                *)
(*                                                                         *)
(* A signature is who made it, for which action and name; the npub follows  *)
(* the branch.  What is paid to a name is in module Issuance.               *)
(***************************************************************************)
CONSTANTS
  Names,
  Reserved,  \* the mint's own username and "_"
  Branches,  \* cx1 branches, each with the key that proves it
  Requests,  \* requests handled at once
  NoBranch, NoAsk

VARIABLES
  enabled,   \* mints.registration_enabled
  branch,    \* usernames.cx1 of each name
  ask,       \* what each request asks for, and its proof
  pc

vars == <<enabled, branch, ask, pc>>

Proofs == [action : {"register", "unregister"}, name : Names, by : Branches]

\* cx1 is NoBranch in a request that frees the name.
Asks ==
  [action : {"register"}, name : Names, cx1 : Branches, proof : Proofs]
    \cup [action : {"unregister"}, name : Names, cx1 : {NoBranch}, proof : Proofs]

Init ==
  /\ enabled \in BOOLEAN
  /\ branch = [n \in Names |-> NoBranch]
  /\ ask = [r \in Requests |-> NoAsk]
  /\ pc = [r \in Requests |-> "idle"]

Goto(r, from, to) ==
  /\ pc[r] = from
  /\ pc' = [pc EXCEPT ![r] = to]

\* update_mint.
SetRegistration ==
  /\ enabled' = ~enabled
  /\ UNCHANGED <<branch, ask, pc>>

Registrable(n) == n \notin Reserved

\* The mint is read; what is refused here leaves no trace.
Accept(r, a) ==
  /\ enabled
  /\ a.action = "register" => Registrable(a.name)
  /\ Goto(r, "idle", "looking")
  /\ ask' = [ask EXCEPT ![r] = a]
  /\ UNCHANGED <<enabled, branch>>

OwnsBranch(b, a) == a.proof = [action |-> a.action, name |-> a.name, by |-> b]

\* A fresh claim proves the new branch, anything else the one on file; a name
\* nobody has cannot be freed.
Proved(a) ==
  IF branch[a.name] # NoBranch THEN OwnsBranch(branch[a.name], a)
  ELSE a.action = "register" /\ OwnsBranch(a.cx1, a)

\* username_branch, and the proof against what it returned.
Look(r) ==
  /\ Goto(r, "looking", IF Proved(ask[r]) THEN "writing" ELSE "refused")
  /\ UNCHANGED <<enabled, branch, ask>>

\* upsert_username or delete_username, whatever is on file.
Write(r) ==
  /\ Goto(r, "writing", "done")
  /\ branch' = [branch EXCEPT ![ask[r].name] = ask[r].cx1]
  /\ UNCHANGED <<enabled, ask>>

\* The client is gone or the process dies.
Drop(r) ==
  /\ pc[r] \in {"looking", "writing"}
  /\ pc' = [pc EXCEPT ![r] = "dropped"]
  /\ UNCHANGED <<enabled, branch, ask>>

Next ==
  \/ SetRegistration
  \/ \E r \in Requests : (\E a \in Asks : Accept(r, a)) \/ Look(r) \/ Write(r) \/ Drop(r)

Spec == Init /\ [][Next]_vars

\* No request is found to be proved while another one is about to write the
\* same name.
LooksAlone ==
  \A q, r \in Requests :
    q # r /\ pc[q] = "writing" /\ pc[r] # "writing" /\ pc'[r] = "writing" =>
      ask[q].name # ask[r].name

\* The look and the write of a request as one critical section per name.
SerialSpec == Init /\ [][Next /\ LooksAlone]_vars

-----------------------------------------------------------------------------
\* A name that is on file changes its branch, or is freed, only by a request
\* proved by the branch on file at that moment.
OverwriteProved ==
  [][\A n \in Names : branch[n] # NoBranch /\ branch'[n] # branch[n] =>
       \E r \in Requests :
         /\ pc[r] = "writing" /\ pc'[r] = "done"
         /\ ask[r].name = n
         /\ ask[r].proof.by = branch[n]]_vars
=============================================================================
