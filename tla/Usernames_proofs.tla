-------------------------- MODULE Usernames_proofs --------------------------
(***************************************************************************)
(* The race of two requests is the only way a name is overwritten without   *)
(* the proof of the branch on file.                                        *)
(***************************************************************************)
EXTENDS Usernames, TLAPS

\* What a request about to write has proved still holds, and no other one is
\* about to write the same name.
ProofCurrent ==
  /\ branch \in [Names -> Branches \cup {NoBranch}]
  /\ ask \in [Requests -> Asks \cup {NoAsk}]
  /\ pc \in [Requests -> {"idle", "looking", "writing", "refused", "done", "dropped"}]
  /\ \A r \in Requests : pc[r] \in {"looking", "writing"} => ask[r] \in Asks
  /\ \A r \in Requests : pc[r] = "writing" => Proved(ask[r])
  /\ \A q, r \in Requests :
       q # r /\ pc[q] = "writing" /\ pc[r] = "writing" => ask[q].name # ask[r].name

LEMMA AskTyped ==
  ASSUME NEW a \in Asks
  PROVE  a.name \in Names /\ a.cx1 \in Branches \cup {NoBranch}
BY DEF Asks

LEMMA StepProved ==
  ASSUME ProofCurrent, [Next /\ LooksAlone]_vars
  PROVE  ProofCurrent'
<1> USE DEF ProofCurrent, Goto
<1>1. CASE SetRegistration
  BY <1>1 DEF SetRegistration, Proved, OwnsBranch
<1>2. ASSUME NEW r \in Requests, NEW a \in Asks, Accept(r, a)
      PROVE  ProofCurrent'
  BY <1>2 DEF Accept, Proved, OwnsBranch
<1>3. ASSUME NEW r \in Requests, Look(r), LooksAlone
      PROVE  ProofCurrent'
  <2>1. /\ pc[r] = "looking" /\ pc'[r] \in {"writing", "refused"}
        /\ \A q \in Requests \ {r} : pc'[q] = pc[q]
        /\ pc'[r] = "writing" => Proved(ask[r])
        /\ UNCHANGED <<branch, ask>>
    BY <1>3 DEF Look
  <2>2. \A q \in Requests : pc'[q] = "writing" => Proved(ask[q])'
    BY <2>1 DEF Proved, OwnsBranch
  <2>3. \A q \in Requests :
          q # r /\ pc[q] = "writing" /\ pc'[r] = "writing" => ask[q].name # ask[r].name
    BY <1>3, <2>1 DEF LooksAlone
  <2>4. pc' \in [Requests -> {"idle", "looking", "writing", "refused", "done", "dropped"}]
    BY <1>3 DEF Look
  <2> QED BY <2>1, <2>2, <2>3, <2>4
<1>4. ASSUME NEW r \in Requests, Write(r)
      PROVE  ProofCurrent'
  <2>1. /\ pc[r] = "writing" /\ pc' = [pc EXCEPT ![r] = "done"] /\ ask' = ask
        /\ branch' = [branch EXCEPT ![ask[r].name] = ask[r].cx1]
    BY <1>4 DEF Write
  <2>2. ask[r].name \in Names /\ ask[r].cx1 \in Branches \cup {NoBranch}
    BY <2>1, AskTyped
  <2>3. ASSUME NEW q \in Requests, pc'[q] = "writing"
        PROVE  Proved(ask[q])'
    <3>1. q # r /\ pc[q] = "writing"
      BY <2>1, <2>3
    <3>2. ask[q].name \in Names /\ ask[q].name # ask[r].name
      BY <2>1, <3>1, AskTyped
    <3>3. branch'[ask[q].name] = branch[ask[q].name]
      BY <2>1, <3>2
    <3> QED BY <2>1, <3>1, <3>3 DEF Proved, OwnsBranch
  <2> QED BY <2>1, <2>2, <2>3
<1>5. ASSUME NEW r \in Requests, Drop(r)
      PROVE  ProofCurrent'
  BY <1>5 DEF Drop, Proved, OwnsBranch
<1>6. CASE UNCHANGED vars
  BY <1>6 DEF vars, Proved, OwnsBranch
<1> QED BY <1>1, <1>2, <1>3, <1>4, <1>5, <1>6 DEF Next

\* Any number of requests, each doing its look and its write for a name as one
\* critical section, change a name on file only by a proof of the branch on
\* file.  name_race shows that the code, which has no such section, does not.
THEOREM SerialRequestsAreProved == SerialSpec => OverwriteProved
<1>1. Init => ProofCurrent
  BY DEF Init, ProofCurrent
<1>2. ASSUME ProofCurrent, [Next]_vars, NEW n \in Names,
             branch[n] # NoBranch, branch'[n] # branch[n]
      PROVE  \E r \in Requests :
               /\ pc[r] = "writing" /\ pc'[r] = "done"
               /\ ask[r].name = n
               /\ ask[r].proof.by = branch[n]
  <2>1. PICK r \in Requests : Write(r)
    BY <1>2 DEF Next, SetRegistration, Accept, Look, Drop, vars
  <2>2. pc[r] = "writing" /\ pc'[r] = "done"
    BY <1>2, <2>1 DEF Write, Goto, ProofCurrent
  <2>3. ask[r].name = n
    BY <1>2, <2>1 DEF Write, ProofCurrent
  <2>4. OwnsBranch(branch[n], ask[r])
    BY <1>2, <2>2, <2>3 DEF ProofCurrent, Proved
  <2> QED BY <2>2, <2>3, <2>4 DEF OwnsBranch
<1>3. ASSUME ProofCurrent, [Next /\ LooksAlone]_vars
      PROVE  [\A n \in Names : branch[n] # NoBranch /\ branch'[n] # branch[n] =>
                \E r \in Requests :
                  /\ pc[r] = "writing" /\ pc'[r] = "done"
                  /\ ask[r].name = n
                  /\ ask[r].proof.by = branch[n]]_vars
  BY <1>2, <1>3
<1> QED BY <1>1, <1>3, StepProved, PTL DEF SerialSpec, OverwriteProved
=============================================================================
