---------------------------- MODULE Value_proofs ----------------------------
(***************************************************************************)
(* The fee of a mint and the minimum it advertises, for every setting and  *)
(* every amount; and what the notes are worth together, for any number of  *)
(* invoices, notes and requests.                                           *)
(***************************************************************************)
EXTENDS Value, SumTheorems

\* Rounding up reaches a whole sat, loses nothing and adds less than a sat.
LEMMA CeilSatBounds ==
  ASSUME NEW msat \in Nat
  PROVE  /\ CeilSat(msat) \in Nat
         /\ CeilSat(msat) % 1000 = 0
         /\ msat <= CeilSat(msat)
         /\ CeilSat(msat) < msat + 1000
BY DEF CeilSat

LEMMA MillionthBound ==
  ASSUME NEW part \in Nat, NEW whole \in Nat, part <= whole * Million
  PROVE  part \div Million \in Nat /\ part \div Million <= whole
BY SMT DEF Million

LEMMA PpmIsAFraction == MaxPpm \in Nat /\ Million \in Nat /\ MaxPpm <= Million
BY SMT DEF MaxPpm, Million

LEMMA SettingsFields ==
  ASSUME NEW s \in MintSettings
  PROVE  /\ s.base_fee_msat \in Nat
         /\ s.fee_percent_ppm \in 0..MaxPpm
         /\ s.min_sendable_msat \in Nat
         /\ s.max_sendable_msat \in Nat
         /\ s.min_mint_msat \in Nat
BY DEF MintSettings

\* The proportional part of the fee is a part of the amount.
LEMMA ProportionalFee ==
  ASSUME NEW amount \in Nat, NEW ppm \in 0..MaxPpm
  PROVE  /\ (amount * ppm) \div Million \in Nat
         /\ (amount * ppm) \div Million <= amount
<1>1. ppm \in Nat /\ ppm <= Million
  BY PpmIsAFraction, SMT
<1>2. amount * ppm \in Nat
  BY <1>1, SMT
<1>3. amount * ppm <= amount * Million
  BY <1>1, SMTT(30) DEF Million
<1>4. QED
  BY <1>2, <1>3, MillionthBound, Zenon

\* _mint_fee_msat: the mint is never shorted. The fee covers the base fee and
\* the proportional fee, is a whole number of sats, and is less than a sat
\* above the exact fee.
THEOREM MintFeeIsCovering ==
  ASSUME NEW s \in MintSettings, NEW amount \in Nat
  PROVE  LET exact == s.base_fee_msat + (amount * s.fee_percent_ppm) \div Million
         IN  /\ MintFee(s, amount) \in Nat
             /\ MintFee(s, amount) % 1000 = 0
             /\ s.base_fee_msat <= MintFee(s, amount)
             /\ exact <= MintFee(s, amount)
             /\ MintFee(s, amount) < exact + 1000
<1>1. s.base_fee_msat \in Nat /\ s.fee_percent_ppm \in 0..MaxPpm
  BY SettingsFields
<1>2. (amount * s.fee_percent_ppm) \div Million \in Nat
  BY <1>1, ProportionalFee
<1> DEFINE part == (amount * s.fee_percent_ppm) \div Million
           exact == s.base_fee_msat + part
<1>3. part \in Nat
  BY <1>2
<1> HIDE DEF part
<1>4. exact \in Nat /\ s.base_fee_msat <= exact
  BY <1>1, <1>3
<1>5. MintFee(s, amount) = CeilSat(exact)
  BY DEF MintFee, part
<1> HIDE DEF exact
<1>6. /\ CeilSat(exact) \in Nat
      /\ CeilSat(exact) % 1000 = 0
      /\ exact <= CeilSat(exact)
      /\ CeilSat(exact) < exact + 1000
  BY <1>4, CeilSatBounds
<1>7. s.base_fee_msat <= CeilSat(exact)
  BY <1>1, <1>4, <1>6
<1>8. QED
  BY <1>5, <1>6, <1>7 DEF exact, part

\* A set of natural numbers that is not empty has a least one.
LEMMA LeastExists ==
  ASSUME NEW S, S \subseteq Nat, S # {}
  PROVE  \E least \in S : \A k \in S : least <= k
<1> DEFINE Less == {pair \in Nat \X Nat : pair[1] < pair[2]}
<1>1. IsWellFoundedOn(Less, Nat)
  BY NatLessThanWellFounded, Zenon DEF OpToRel
<1>2. \E least \in S : \A k \in S : <<k, least>> \notin Less
  <2> HIDE DEF Less
  <2>1. QED
    BY <1>1, WFMin
<1>3. \A j, k \in Nat : j < k => <<j, k>> \in Less
  OBVIOUS
<1>4. QED
  <2> HIDE DEF Less
  <2>1. PICK least \in S : \A k \in S : <<k, least>> \notin Less
    BY <1>2
  <2>2. \A k \in S : ~(k < least)
    BY <1>3, <2>1
  <2>3. QED
    BY <2>1, <2>2

\* The walk ends at an amount that leaves the minimum note, and not below
\* either of the amounts it starts from.
LEMMA WalkEndsAtEnough ==
  ASSUME NEW s \in MintSettings, MinSendable(s) # 0
  PROVE  /\ MinSendable(s) \in Nat
         /\ MinSendable(s) >= s.min_sendable_msat
         /\ Net(s, MinSendable(s)) >= s.min_mint_msat
<1> DEFINE start == IF s.min_sendable_msat > s.min_mint_msat
                    THEN s.min_sendable_msat ELSE s.min_mint_msat
           enough == {k \in 0..(WalkLimit - 1) :
                        Net(s, start + k * 1000) >= s.min_mint_msat}
<1>1. start \in Nat /\ start >= s.min_sendable_msat
  BY SettingsFields
<1>2. MinSendable(s) = IF enough = {} THEN 0 ELSE start + Min(enough) * 1000
  BY DEF MinSendable
<1>3. enough # {} /\ enough \subseteq Nat
  BY <1>2, ValueAssumption
<1>4. Min(enough) \in enough
  <2> HIDE DEF enough
  <2>1. PICK k \in enough : \A j \in enough : k <= j
    BY <1>3, LeastExists
  <2>2. QED
    BY <2>1 DEF Min
<1>5. Min(enough) \in Nat /\ Net(s, start + Min(enough) * 1000) >= s.min_mint_msat
  BY <1>3, <1>4
<1>6. QED
  <2> DEFINE least == Min(enough)
  <2>1. /\ least \in Nat
        /\ Net(s, start + least * 1000) >= s.min_mint_msat
        /\ MinSendable(s) = start + least * 1000
    BY <1>2, <1>3, <1>5
  <2> HIDE DEF least, start
  <2>2. s.min_sendable_msat \in Nat
    BY SettingsFields
  <2>3. QED
    BY <1>1, <2>1, <2>2

(***************************************************************************)
(* Types.                                                                  *)
(***************************************************************************)
LEMMA RequestTyped ==
  ASSUME TypeOK, NEW q \in Requests
  PROVE  /\ request[q].inputs \in Seq(Notes)
         /\ Len(request[q].inputs) \in Nat
         /\ DOMAIN request[q].inputs = 1..Len(request[q].inputs)
         /\ request[q].mint \in MintSettings
         /\ request[q].mint.base_fee_msat \in Nat
         /\ request[q].inputs # <<>> => Len(request[q].inputs) \in Nat \ {0}
<1>1. request[q].inputs \in Seq(Notes) /\ request[q].mint \in MintSettings
  BY ValueAssumption DEF TypeOK
<1>2. request[q].mint.base_fee_msat \in Nat
  BY <1>1, SettingsFields
<1> DEFINE inputs == request[q].inputs
<1>3. inputs \in Seq(Notes)
  BY <1>1
<1> HIDE DEF inputs
<1>4. /\ Len(inputs) \in Nat /\ DOMAIN inputs = 1..Len(inputs)
      /\ inputs # <<>> => Len(inputs) # 0
  BY <1>3
<1> QED BY <1>1, <1>2, <1>4 DEF inputs

\* What the notes of a request are worth together.
LEMMA TotalTyped ==
  ASSUME TypeOK, NEW inputs \in Seq(Notes)
  PROVE  /\ Total(inputs) \in Nat
         /\ \A k \in DOMAIN inputs : value[inputs[k]] <= Total(inputs)
<1> DEFINE worth == [k \in DOMAIN inputs |-> value[inputs[k]]]
<1>1. worth \in Seq(Nat)
  <2>1. DOMAIN inputs = 1..Len(inputs) /\ Len(inputs) \in Nat
    OBVIOUS
  <2>2. \A k \in 1..Len(inputs) : value[inputs[k]] \in Nat
    BY DEF TypeOK
  <2> QED BY <2>1, <2>2
<1>2. DOMAIN worth = DOMAIN inputs /\ \A k \in DOMAIN inputs : worth[k] = value[inputs[k]]
  OBVIOUS
<1>3. Total(inputs) = SumFunction(worth)
  BY DEF Total
<1> HIDE DEF worth
<1> QED BY <1>1, <1>2, <1>3, SumOfNats

LEMMA InitTyped == Init => TypeOK
BY DEF Init, TypeOK, Begun, Fates

\* The note of an accepted amount is worth what the fee leaves of it, which is
\* a base fee less at least, and no less than the mint's minimum.
LEMMA AcceptedAmount ==
  ASSUME TypeOK, NEW amount \in PayAmounts, Accepts(mint, amount)
  PROVE  /\ Net(mint, amount) \in Nat
         /\ mint.min_mint_msat \in Nat
         /\ mint.min_mint_msat <= Net(mint, amount)
         /\ mint.base_fee_msat \in Nat
         /\ Net(mint, amount) + mint.base_fee_msat <= amount
<1>1. mint \in MintSettings /\ amount \in Nat
  BY ValueAssumption DEF TypeOK
<1>2. mint.min_mint_msat \in Nat /\ mint.base_fee_msat \in Nat
  BY <1>1, SettingsFields
<1>3. Net(mint, amount) >= mint.min_mint_msat
  BY DEF Accepts
<1>4. /\ MintFee(mint, amount) \in Nat
      /\ mint.base_fee_msat <= MintFee(mint, amount)
  BY <1>1, MintFeeIsCovering
<1>5. Net(mint, amount) = amount - MintFee(mint, amount)
  BY DEF Net
<1> QED BY <1>1, <1>2, <1>3, <1>4, <1>5

\* The values a split works out: with a base fee for each they take no more than
\* the notes and their base fees, and neither note is worth nothing.
LEMMA SplitWorks ==
  ASSUME TypeOK, NEW q \in Requests, request[q].inputs # <<>>, NEW amount \in SplitAmounts,
         Splittable(request[q].mint, Total(request[q].inputs), amount)
  PROVE  LET r == request[q]
             values == SplitValues(r, amount)
             fee == r.mint.base_fee_msat
         IN  /\ values \in Seq(Nat) /\ DOMAIN values = 1..2
             /\ \A k \in DOMAIN values : values[k] > 0
             /\ SumFunction(values) + Len(values) * fee
                  <= Total(r.inputs) + Len(r.inputs) * fee
<1> DEFINE total == Total(request[q].inputs)
           fee == request[q].mint.base_fee_msat
           n == Len(request[q].inputs)
           values == <<amount, total - amount - fee>>
<1>1. fee \in Nat /\ total \in Nat /\ n \in Nat \ {0} /\ amount \in Int
  BY RequestTyped, TotalTyped, ValueAssumption
<1>2. amount \in Nat \ {0} /\ total - amount - fee \in Nat \ {0}
  BY <1>1 DEF Splittable
<1>3. values = SplitValues(request[q], amount)
  BY DEF SplitValues
<1> HIDE DEF total, fee, n
<1>4. /\ values \in Seq(Nat) /\ DOMAIN values = 1..2 /\ Len(values) = 2
      /\ \A k \in DOMAIN values : values[k] > 0
  BY <1>2
<1>5. SumFunction(values) = amount + (total - amount - fee)
  BY <1>2, SumOfPair
<1>6. n * fee \in Nat /\ n * fee >= fee
  <2>1. PICK more \in Nat : n = more + 1
    <3>1. n - 1 \in Nat /\ n = (n - 1) + 1
      BY <1>1
    <3> QED BY <3>1
  <2>2. (more + 1) * fee = more * fee + fee /\ more * fee \in Nat
    BY <1>1
  <2> QED BY <1>1, <2>1, <2>2
<1> HIDE DEF values
<1>7. SumFunction(values) + Len(values) * fee <= total + n * fee
  BY <1>1, <1>2, <1>4, <1>5, <1>6
<1> QED BY <1>3, <1>4, <1>7 DEF total, fee, n

\* What a merge hands back are the base fees of the notes it takes, but one.
LEMMA MergeWorks ==
  ASSUME TypeOK, NEW q \in Requests, request[q].inputs # <<>>
  PROVE  LET r == request[q]
             values == MergeValues(r)
             fee == r.mint.base_fee_msat
         IN  /\ values \in Seq(Nat) /\ DOMAIN values = 1..1
             /\ \A k \in DOMAIN values : Total(r.inputs) <= values[k]
             /\ SumFunction(values) + Len(values) * fee
                  <= Total(r.inputs) + Len(r.inputs) * fee
<1> DEFINE total == Total(request[q].inputs)
           fee == request[q].mint.base_fee_msat
           n == Len(request[q].inputs)
           values == <<total + (n - 1) * fee>>
<1>1. fee \in Nat /\ total \in Nat /\ n \in Nat \ {0}
  BY RequestTyped, TotalTyped
<1>2. values = MergeValues(request[q])
  BY DEF MergeValues, Refund
<1> HIDE DEF total, fee, n
<1>3. (n - 1) * fee \in Nat /\ (n - 1) * fee + fee = n * fee
  <2>1. PICK more \in Nat : n = more + 1
    <3>1. n - 1 \in Nat /\ n = (n - 1) + 1
      BY <1>1
    <3> QED BY <3>1
  <2>2. (more + 1) * fee = more * fee + fee /\ more * fee \in Nat /\ n - 1 = more
    BY <1>1, <2>1
  <2> QED BY <2>1, <2>2
<1>4. /\ values \in Seq(Nat) /\ DOMAIN values = 1..1 /\ Len(values) = 1
      /\ \A k \in DOMAIN values : total <= values[k]
  BY <1>1, <1>3
<1>5. SumFunction(values) = total + (n - 1) * fee
  BY <1>1, <1>3, SumOfSingle
<1> HIDE DEF values
<1>6. SumFunction(values) + Len(values) * fee <= total + n * fee
  <2> DEFINE back == (n - 1) * fee
  <2>1. back \in Nat /\ back + fee = n * fee /\ SumFunction(values) = total + back
    BY <1>3, <1>5
  <2> HIDE DEF back
  <2> QED BY <1>1, <1>4, <2>1
<1> QED BY <1>2, <1>4, <1>6 DEF total, fee, n

\* What a split or a merge swaps its notes for.
SwapStep(q) ==
  \/ \E amount \in SplitAmounts, outputs \in [1..2 -> Outputs] : Split(q, amount, outputs)
  \/ \E outputs \in [1..1 -> Outputs] : Merge(q, outputs)

Works(q, values) ==
  LET r == request[q]
      fee == r.mint.base_fee_msat
  IN  /\ DOMAIN values # {}
      /\ (\A k \in DOMAIN r.inputs : value[r.inputs[k]] > 0)
           => \A k \in DOMAIN values : values[k] > 0
      /\ SumFunction(values) + Len(values) * fee <= Total(r.inputs) + Len(r.inputs) * fee

LEMMA SwapsWork ==
  ASSUME TypeOK, NEW q \in Requests, SwapStep(q)
  PROVE  \E values \in Seq(Nat) : \E outputs \in [DOMAIN values -> Outputs] :
           Swap(q, values, outputs) /\ Works(q, values)
<1>1. ASSUME NEW amount \in SplitAmounts, NEW outputs \in [1..2 -> Outputs],
             Split(q, amount, outputs)
      PROVE  \E values \in Seq(Nat) : \E outs \in [DOMAIN values -> Outputs] :
               Swap(q, values, outs) /\ Works(q, values)
  <2> DEFINE values == SplitValues(request[q], amount)
  <2>1. request[q].inputs # <<>> /\ Swap(q, values, outputs)
    BY <1>1 DEF Split, Swap
  <2>2. /\ values \in Seq(Nat) /\ DOMAIN values = 1..2
        /\ \A k \in DOMAIN values : values[k] > 0
        /\ SumFunction(values) + Len(values) * request[q].mint.base_fee_msat
             <= Total(request[q].inputs)
                  + Len(request[q].inputs) * request[q].mint.base_fee_msat
    BY <1>1, <2>1, SplitWorks DEF Split
  <2> HIDE DEF values
  <2>3. DOMAIN values # {}
    BY <2>2
  <2>4. Works(q, values)
    BY <2>2, <2>3 DEF Works
  <2> QED BY <2>1, <2>2, <2>4
<1>2. ASSUME NEW outputs \in [1..1 -> Outputs], Merge(q, outputs)
      PROVE  \E values \in Seq(Nat) : \E outs \in [DOMAIN values -> Outputs] :
               Swap(q, values, outs) /\ Works(q, values)
  <2> DEFINE values == MergeValues(request[q])
             r == request[q]
  <2>1. r.inputs # <<>> /\ Swap(q, values, outputs)
    BY <1>2 DEF Merge, Swap
  <2>2. /\ values \in Seq(Nat) /\ DOMAIN values = 1..1
        /\ \A k \in DOMAIN values : Total(r.inputs) <= values[k]
        /\ SumFunction(values) + Len(values) * r.mint.base_fee_msat
             <= Total(r.inputs) + Len(r.inputs) * r.mint.base_fee_msat
    BY <2>1, MergeWorks
  <2>3. (\A k \in DOMAIN r.inputs : value[r.inputs[k]] > 0) => Total(r.inputs) > 0
    <3> SUFFICES ASSUME \A k \in DOMAIN r.inputs : value[r.inputs[k]] > 0
                 PROVE  Total(r.inputs) > 0
      OBVIOUS
    <3>1. 1 \in DOMAIN r.inputs /\ r.inputs \in Seq(Notes) /\ r.inputs[1] \in Notes
      BY <2>1, RequestTyped
    <3>2. value[r.inputs[1]] > 0 /\ value[r.inputs[1]] \in Nat
      BY <3>1 DEF TypeOK
    <3>3. value[r.inputs[1]] <= Total(r.inputs) /\ Total(r.inputs) \in Nat
      BY <3>1, TotalTyped
    <3> HIDE DEF r
    <3> QED BY <3>2, <3>3
  <2>4. Total(r.inputs) \in Nat /\ \A k \in DOMAIN values : values[k] \in Nat
    BY <2>2, RequestTyped, TotalTyped
  <2> HIDE DEF values, r
  <2>5. /\ DOMAIN values # {}
        /\ Total(r.inputs) > 0 => \A k \in DOMAIN values : values[k] > 0
    BY <2>2, <2>4
  <2>6. Works(q, values)
    BY <2>2, <2>3, <2>5 DEF Works, r
  <2> QED BY <2>1, <2>2, <2>6
<1> QED BY <1>1, <1>2 DEF SwapStep

\* Each output of a swap gets the value worked out for it.
LEMMA OutputValues ==
  ASSUME NEW values \in Seq(Nat), NEW outputs \in [DOMAIN values -> Outputs],
         IsInjective(outputs)
  PROVE  /\ \A k \in DOMAIN values : OutputValue(values, outputs, outputs[k]) = values[k]
         /\ \A n \in Range(outputs) : n \in Outputs /\ OutputValue(values, outputs, n) \in Nat
<1>1. \A k \in DOMAIN values : values[k] \in Nat
  OBVIOUS
<1>2. ASSUME NEW k \in DOMAIN values
      PROVE  (CHOOSE j \in DOMAIN outputs : outputs[j] = outputs[k]) = k
  BY DEF IsInjective
<1>3. ASSUME NEW k \in DOMAIN values
      PROVE  OutputValue(values, outputs, outputs[k]) = values[k]
  BY <1>2 DEF OutputValue
<1>4. ASSUME NEW n \in Range(outputs)
      PROVE  n \in Outputs /\ OutputValue(values, outputs, n) \in Nat
  <2>1. PICK k \in DOMAIN values : outputs[k] = n
    BY DEF Range
  <2> QED BY <1>1, <1>3, <2>1
<1> QED BY <1>3, <1>4

LEMMA StepTyped ==
  ASSUME TypeOK, [Next]_vars
  PROVE  TypeOK'
<1> USE DEF TypeOK
<1>1. ASSUME NEW i \in Invoices, NEW amount \in PayAmounts, PayCallback(i, amount)
      PROVE  TypeOK'
  <2>1. Net(mint, amount) \in Nat /\ amount \in Nat
    BY <1>1, AcceptedAmount, ValueAssumption DEF PayCallback
  <2> QED BY <1>1, <2>1 DEF PayCallback
<1>2. ASSUME NEW i \in Invoices, InvoicePaid(i) \/ SettleMint(i)
      PROVE  TypeOK'
  BY <1>2 DEF InvoicePaid, SettleMint, Fates
<1>3. ASSUME NEW q \in Requests, Begin(q)
      PROVE  TypeOK'
  BY <1>3 DEF Begin, Begun
<1>4. ASSUME NEW q \in Requests, NEW n \in Notes, ReadNote(q, n)
      PROVE  TypeOK'
  <2> DEFINE r == request[q]
  <2>1. r \in [mint : Settings, inputs : Seq(Notes)]
    OBVIOUS
  <2>2. request' = [request EXCEPT ![q] = [r EXCEPT !.inputs = Append(r.inputs, n)]]
    BY <1>4 DEF ReadNote
  <2> HIDE DEF r
  <2>3. Append(r.inputs, n) \in Seq(Notes)
    BY <2>1
  <2>4. [r EXCEPT !.inputs = Append(r.inputs, n)] \in [mint : Settings, inputs : Seq(Notes)]
    BY <2>1, <2>3
  <2>5. request' \in [Requests -> [mint : Settings, inputs : Seq(Notes)]]
    BY <2>2, <2>4
  <2> QED BY <1>4, <2>5 DEF ReadNote
<1>5. ASSUME NEW q \in Requests, SwapStep(q)
      PROVE  TypeOK'
  <2>1. PICK values, outputs :
          /\ values \in Seq(Nat) /\ outputs \in [DOMAIN values -> Outputs]
          /\ Swap(q, values, outputs)
    BY <1>5, SwapsWork
  <2>2. \A n \in Range(outputs) : OutputValue(values, outputs, n) \in Nat
    BY <2>1, OutputValues DEF Swap
  <2>3. value' \in [Notes -> Nat] /\ fate' \in [Notes -> Fates]
    BY <2>1, <2>2 DEF Swap, Fates
  <2> QED BY <2>1, <2>3 DEF Swap, Begun
<1>6. ASSUME NEW n \in Notes, Commit(n) \/ Release(n) \/ PayOut(n)
      PROVE  TypeOK'
  BY <1>6 DEF Commit, Release, PayOut, Move, Fates
<1>7. ASSUME NEW s \in Settings, UpdateMint(s)
      PROVE  TypeOK'
  BY <1>7 DEF UpdateMint
<1>8. CASE UNCHANGED vars
  BY <1>8 DEF vars
<1> QED BY <1>1, <1>2, <1>3, <1>4, <1>5, <1>6, <1>7, <1>8 DEF Next, SwapStep

\* Every variable keeps its type: no note and no note promised is worth less
\* than nothing.
THEOREM TypeCorrect == Spec => []TypeOK
<1>1. TypeOK /\ [Next]_vars => TypeOK'
  BY StepTyped
<1> QED BY <1>1, InitTyped, PTL DEF Spec

\* get_payrequest and _pay_callback agree: whatever the settings, a payer who
\* sends the advertised minimum is not told the amount is too low, unless the
\* mint's maximum is lower still or it is sunsetting.
THEOREM MinimumIsAccepted == Spec => []AdvertisedMinimumAccepted
<1>1. TypeOK => AdvertisedMinimumAccepted
  <2> SUFFICES ASSUME TypeOK,
                      MinSendable(mint) # 0,
                      MinSendable(mint) <= mint.max_sendable_msat,
                      ~mint.sunset_mint
               PROVE  Accepts(mint, MinSendable(mint))
    BY DEF AdvertisedMinimumAccepted
  <2>1. mint \in MintSettings
    BY ValueAssumption DEF TypeOK
  <2>2. /\ MinSendable(mint) \in Nat
        /\ MinSendable(mint) >= mint.min_sendable_msat
        /\ Net(mint, MinSendable(mint)) >= mint.min_mint_msat
    BY <2>1, WalkEndsAtEnough
  <2>3. mint.min_sendable_msat \in Nat /\ mint.max_sendable_msat \in Nat
    BY <2>1, SettingsFields
  <2>4. QED
    BY <2>2, <2>3 DEF Accepts
<1>2. QED
  BY <1>1, TypeCorrect, PTL

(***************************************************************************)
(* Every note is worth something.                                          *)
(***************************************************************************)
Generous == \A s \in Settings : s.min_mint_msat > 0

\* What is on file or promised is worth something.
WorthInv ==
  /\ TypeOK
  /\ \A i \in Invoices : record[i] # "none" => value[i] > 0
  /\ \A n \in Notes : fate[n] # "absent" => value[n] > 0

LEMMA InitWorth == Init => WorthInv
BY InitTyped DEF Init, WorthInv

LEMMA StepWorth ==
  ASSUME Generous, WorthInv, [Next]_vars
  PROVE  WorthInv'
<1>0. TypeOK /\ TypeOK'
  BY StepTyped DEF WorthInv
<1>1. ASSUME NEW i \in Invoices, NEW amount \in PayAmounts, PayCallback(i, amount)
      PROVE  WorthInv'
  <2>1. Net(mint, amount) > 0
    <3>1. mint.min_mint_msat > 0
      BY <1>0 DEF Generous, TypeOK
    <3> QED BY <1>0, <1>1, <3>1, AcceptedAmount DEF PayCallback
  <2> QED BY <1>0, <1>1, <2>1 DEF PayCallback, WorthInv, TypeOK
<1>2. ASSUME NEW i \in Invoices, InvoicePaid(i) \/ SettleMint(i)
      PROVE  WorthInv'
  BY <1>0, <1>2 DEF InvoicePaid, SettleMint, WorthInv, TypeOK, Notes
<1>3. ASSUME NEW q \in Requests, Begin(q) \/ \E n \in Notes : ReadNote(q, n)
      PROVE  WorthInv'
  BY <1>0, <1>3 DEF Begin, ReadNote, WorthInv
<1>4. ASSUME NEW q \in Requests, SwapStep(q)
      PROVE  WorthInv'
  <2>1. PICK values, outputs :
          /\ values \in Seq(Nat) /\ outputs \in [DOMAIN values -> Outputs]
          /\ Swap(q, values, outputs)
          /\ Works(q, values)
    BY <1>0, <1>4, SwapsWork
  <2>2. \A k \in DOMAIN request[q].inputs :
          /\ request[q].inputs[k] \in Notes
          /\ fate[request[q].inputs[k]] = "live"
    BY <1>0, <2>1, RequestTyped DEF Swap, Burnable
  <2>3. \A k \in DOMAIN values : values[k] > 0
    BY <2>1, <2>2 DEF Works, WorthInv
  <2>4. \A n \in Range(outputs) : n \in Outputs /\ OutputValue(values, outputs, n) > 0
    <3>1. ASSUME NEW n \in Range(outputs)
          PROVE  \E k \in DOMAIN values : outputs[k] = n
      BY <2>1 DEF Range
    <3>2. IsInjective(outputs)
      BY <2>1 DEF Swap
    <3> QED BY <2>1, <2>3, <3>1, <3>2, OutputValues
  <2>5. \A n \in Notes : fate'[n] # "absent" => value'[n] > 0
    <3> SUFFICES ASSUME NEW n \in Notes, fate'[n] # "absent"
                 PROVE  value'[n] > 0
      OBVIOUS
    <3>1. CASE n \in Range(outputs)
      BY <2>1, <2>4, <3>1 DEF Swap
    <3>2. CASE n \notin Range(outputs)
      <4>1. value'[n] = value[n] /\ (fate[n] # "absent" \/ n \in Range(request[q].inputs))
        BY <2>1, <3>2 DEF Swap
      <4>2. n \in Range(request[q].inputs) => fate[n] = "live"
        BY <2>2 DEF Range
      <4> QED BY <4>1, <4>2 DEF WorthInv
    <3> QED BY <3>1, <3>2
  <2>6. \A i \in Invoices : value'[i] = value[i]
    BY <2>1, <2>4, ValueAssumption DEF Swap, Notes
  <2>7. record' = record
    BY <2>1 DEF Swap
  <2> QED BY <1>0, <2>5, <2>6, <2>7 DEF WorthInv
<1>5. ASSUME NEW n \in Notes, Commit(n) \/ Release(n) \/ PayOut(n)
      PROVE  WorthInv'
  BY <1>0, <1>5 DEF Commit, Release, PayOut, Move, WorthInv, TypeOK
<1>6. ASSUME NEW s \in Settings, UpdateMint(s)
      PROVE  WorthInv'
  BY <1>0, <1>6 DEF UpdateMint, WorthInv
<1>7. CASE UNCHANGED vars
  BY <1>0, <1>7 DEF vars, WorthInv
<1> QED BY <1>1, <1>2, <1>3, <1>4, <1>5, <1>6, <1>7 DEF Next, SwapStep

\* A note on file is worth something, as long as the operator never lets
\* minting leave nothing: no split, merge or race of the two makes one that
\* is worth nothing.
THEOREM NotesKeepWorth == Spec => []NotesAreWorthSomething
<1>1. CASE Generous
  <2>1. WorthInv => NotesAreWorthSomething
    BY DEF WorthInv, NotesAreWorthSomething, OnFile
  <2>2. WorthInv /\ [Next]_vars => WorthInv'
    BY <1>1, StepWorth
  <2> QED BY <2>1, <2>2, InitWorth, PTL DEF Spec
<1>2. CASE ~Generous
  <2>1. NotesAreWorthSomething
    BY <1>2 DEF Generous, NotesAreWorthSomething
  <2> QED BY <2>1, PTL
<1> QED BY <1>1, <1>2

-----------------------------------------------------------------------------
(***************************************************************************)
(* What becomes of notes.  Whatever the settings and however requests      *)
(* race, a note goes the way NotePayout has it go, or is one a paid        *)
(* invoice credits.                                                        *)
(***************************************************************************)
Payout == INSTANCE NotePayout WITH NoteIds <- Notes, IssuedNotes <- {}

\* The note of a paid invoice comes on file.
Credit(i) ==
  /\ record[i] = "paid"
  /\ fate[i] = "absent"
  /\ fate' = [fate EXCEPT ![i] = "live"]

\* A note an invoice credits is on file once the invoice is minted.
MintedIsOnFile == \A i \in Invoices : fate[i] # "absent" <=> record[i] = "minted"

FatesInv == TypeOK /\ MintedIsOnFile

LEMMA InitFates == Init => FatesInv
BY InitTyped DEF Init, FatesInv, MintedIsOnFile, Notes

LEMMA SequenceHasDomain ==
  ASSUME NEW S, NEW s \in Seq(S), s # <<>>
  PROVE  DOMAIN s # {}
<1>1. DOMAIN s = 1..Len(s) /\ Len(s) \in Nat /\ Len(s) # 0
  OBVIOUS
<1>2. \A n \in Nat : n # 0 => 1 \in 1..n
  OBVIOUS
<1>3. 1 \in DOMAIN s
  BY <1>1, <1>2
<1> QED BY <1>3

LEMMA SwapFates ==
  ASSUME FatesInv, TypeOK', NEW q \in Requests, SwapStep(q)
  PROVE  FatesInv' /\ Payout!Next
<1>1. /\ request[q].inputs \in Seq(Notes)
      /\ DOMAIN request[q].inputs = 1..Len(request[q].inputs)
  BY RequestTyped DEF FatesInv
<1>2. PICK values, outputs :
        /\ values \in Seq(Nat) /\ outputs \in [DOMAIN values -> Outputs]
        /\ Swap(q, values, outputs)
        /\ DOMAIN values # {}
  BY SwapsWork DEF FatesInv, Works
<1> DEFINE burned == Range(request[q].inputs)
           made == Range(outputs)
<1>3. /\ burned \subseteq Notes /\ burned # {}
      /\ \A n \in burned : fate[n] = "live"
  <2>1. \A k \in DOMAIN request[q].inputs : /\ request[q].inputs[k] \in Notes
                                            /\ fate[request[q].inputs[k]] = "live"
    BY <1>1, <1>2 DEF Swap, Burnable
  <2>2. DOMAIN request[q].inputs # {}
    BY <1>1, <1>2, SequenceHasDomain DEF Swap
  <2> QED BY <2>1, <2>2 DEF Range
<1>4. /\ made \subseteq Outputs /\ made # {}
      /\ \A n \in made : fate[n] = "absent"
  BY <1>2 DEF Swap, Range
<1>5. /\ fate' = [n \in Notes |-> IF n \in burned THEN "swapped"
                                  ELSE IF n \in made THEN "live"
                                  ELSE fate[n]]
      /\ UNCHANGED record
  BY <1>2 DEF Swap
<1> HIDE DEF burned, made
<1>6. Payout!Exchange(burned, made)
  BY <1>3, <1>4, <1>5 DEF Payout!Exchange
<1>7. Payout!Next
  BY <1>3, <1>4, <1>6 DEF Payout!Next, Notes
<1>8. MintedIsOnFile'
  <2>1. \A i \in Invoices : i \in Notes /\ i \notin made
    BY <1>4, ValueAssumption DEF Notes
  <2> QED BY <1>3, <1>5, <2>1 DEF FatesInv, MintedIsOnFile
<1> QED BY <1>7, <1>8 DEF FatesInv

LEMMA StepFates ==
  ASSUME FatesInv, [Next]_vars
  PROVE  FatesInv' /\ (Payout!Next \/ (\E i \in Invoices : Credit(i)) \/ UNCHANGED fate)
<1>1. TypeOK'
  BY StepTyped DEF FatesInv
<1>2. ASSUME UNCHANGED fate,
             \A i \in Invoices : record'[i] = "minted" <=> record[i] = "minted"
      PROVE  FatesInv'
  BY <1>1, <1>2 DEF FatesInv, MintedIsOnFile
<1>3. ASSUME NEW i \in Invoices, NEW amount \in PayAmounts, PayCallback(i, amount)
      PROVE  FatesInv' /\ UNCHANGED fate
  BY <1>2, <1>3 DEF PayCallback, FatesInv, TypeOK
<1>4. ASSUME NEW i \in Invoices, InvoicePaid(i)
      PROVE  FatesInv' /\ UNCHANGED fate
  BY <1>2, <1>4 DEF InvoicePaid, FatesInv, TypeOK
<1>5. ASSUME NEW i \in Invoices, SettleMint(i)
      PROVE  FatesInv' /\ Credit(i)
  BY <1>1, <1>5 DEF SettleMint, Credit, FatesInv, MintedIsOnFile, TypeOK, Notes
<1>6. ASSUME NEW q \in Requests, Begin(q) \/ \E n \in Notes : ReadNote(q, n)
      PROVE  FatesInv' /\ UNCHANGED fate
  BY <1>2, <1>6 DEF Begin, ReadNote
<1>7. ASSUME NEW n \in Notes, Commit(n) \/ Release(n) \/ PayOut(n)
      PROVE  FatesInv' /\ Payout!Next
  <2>1. Payout!Commit(n) \/ Payout!Release(n) \/ Payout!PayOut(n)
    BY <1>7 DEF Commit, Release, PayOut, Move, Payout!Commit, Payout!Release, Payout!PayOut,
                Payout!Move
  <2>2. FatesInv'
    BY <1>1, <1>7 DEF Commit, Release, PayOut, Move, FatesInv, MintedIsOnFile, TypeOK, Notes
  <2> QED BY <2>1, <2>2 DEF Payout!Next
<1>8. ASSUME NEW s \in Settings, UpdateMint(s)
      PROVE  FatesInv' /\ UNCHANGED fate
  BY <1>2, <1>8 DEF UpdateMint
<1>9. CASE UNCHANGED vars
  BY <1>2, <1>9 DEF vars
<1> QED BY <1>1, <1>3, <1>4, <1>5, <1>6, <1>7, <1>8, <1>9, SwapFates DEF Next, SwapStep

\* Every step takes a note along the way NotePayout has it go, or credits the
\* note of a paid invoice that was not on file; settings play no part in it.
THEOREM NotesFollowPayout ==
  Spec => [][Payout!Next \/ \E i \in Invoices : Credit(i)]_fate
<1>1. FatesInv /\ [Next]_vars => FatesInv'
  BY StepFates
<1>2. FatesInv /\ [Next]_vars => [Payout!Next \/ \E i \in Invoices : Credit(i)]_fate
  BY StepFates
<1> QED BY <1>1, <1>2, InitFates, PTL DEF Spec

-----------------------------------------------------------------------------
(***************************************************************************)
(* Value is not made.                                                      *)
(***************************************************************************)
\* The notes the mint answers for: promised and paid for, on file and unspent,
\* or paid out.
Held == Owed \cup Outstanding \cup PaidOut

Bounded == IsFiniteSet(Invoices) /\ IsFiniteSet(Outputs)

HeldNote(n) ==
  \/ fate[n] \in {"live", "committed", "paid"}
  \/ n \in Invoices /\ record[n] = "paid"

LEMMA HeldNotes ==
  ASSUME TypeOK, Bounded
  PROVE  /\ IsFiniteSet(Notes)
         /\ IsFiniteSet(Held)
         /\ Held = {n \in Notes : HeldNote(n)}
<1>1. IsFiniteSet(Notes)
  BY FS_Union DEF Notes, Bounded
<1>2. Held = {n \in Notes : HeldNote(n)}
  BY DEF Held, HeldNote, Owed, Outstanding, PaidOut, Notes
<1>3. IsFiniteSet(Held)
  <2>1. Held \subseteq Notes
    BY <1>2
  <2> QED BY <1>1, <2>1, FS_Subset
<1> QED BY <1>1, <1>2, <1>3

LEMMA Charged ==
  ASSUME NEW amount \in Nat
  PROVE  /\ Invoiced(amount) \in Nat
         /\ Fraction(amount) \in Nat
         /\ Invoiced(amount) + Fraction(amount) = amount
<1>1. amount \div 1000 \in Nat /\ amount % 1000 \in Nat
  BY SMT
<1>2. amount = 1000 * (amount \div 1000) + (amount % 1000)
  BY SMT
<1> QED BY <1>1, <1>2 DEF Invoiced, Fraction

LEMMA PaidInTyped ==
  ASSUME TypeOK, Bounded
  PROVE  /\ Received \in Nat
         /\ Fractions \in Nat
<1>1. IsFiniteSet(Paying)
  BY FS_Subset DEF Bounded, Paying
<1> DEFINE whole == [i \in Invoices |-> Invoiced(asked[i])]
           part == [i \in Invoices |-> Fraction(asked[i])]
<1>2. \A i \in Paying : whole[i] \in Nat /\ part[i] \in Nat
  BY Charged DEF Paying, TypeOK
<1>3. Received = SumFunctionOnSet(whole, Paying) /\ Fractions = SumFunctionOnSet(part, Paying)
  BY DEF Received, Fractions
<1> HIDE DEF whole, part
<1> QED BY <1>1, <1>2, <1>3, SumInNat

\* As long as the invoices that were paid are the same, so is what came in.
LEMMA PaidInSame ==
  ASSUME TypeOK, TypeOK', Bounded, Paying' = Paying, \A i \in Paying : asked'[i] = asked[i]
  PROVE  Received' = Received /\ Fractions' = Fractions
<1>1. IsFiniteSet(Paying) /\ Paying \subseteq Invoices
  BY FS_Subset DEF Bounded, Paying
<1> DEFINE whole == [i \in Invoices |-> Invoiced(asked[i])]
           part == [i \in Invoices |-> Fraction(asked[i])]
           wholeNext == [i \in Invoices |-> Invoiced(asked'[i])]
           partNext == [i \in Invoices |-> Fraction(asked'[i])]
<1>2. \A i \in Paying : wholeNext[i] = whole[i] /\ partNext[i] = part[i]
  BY <1>1
<1>3. /\ Received = SumFunctionOnSet(whole, Paying)
      /\ Fractions = SumFunctionOnSet(part, Paying)
      /\ Received' = SumFunctionOnSet(wholeNext, Paying')
      /\ Fractions' = SumFunctionOnSet(partNext, Paying')
  BY DEF Received, Fractions
<1> HIDE DEF whole, part, wholeNext, partNext
<1> QED BY <1>1, <1>2, <1>3, SumSame

\* A payment brings in the amount asked for, in sats and the fraction of one.
LEMMA PaidInMore ==
  ASSUME TypeOK, TypeOK', Bounded, NEW i \in Invoices, i \notin Paying,
         Paying' = Paying \cup {i}, asked' = asked
  PROVE  Received' + Fractions' = Received + Fractions + asked[i]
<1>1. IsFiniteSet(Paying) /\ Paying \subseteq Invoices
  BY FS_Subset DEF Bounded, Paying
<1> DEFINE whole == [j \in Invoices |-> Invoiced(asked[j])]
           part == [j \in Invoices |-> Fraction(asked[j])]
<1>2. \A j \in Paying \cup {i} : whole[j] \in Int /\ part[j] \in Int
  <2>1. \A j \in Invoices : whole[j] \in Nat /\ part[j] \in Nat
    BY Charged DEF TypeOK
  <2>2. Paying \cup {i} \subseteq Invoices
    BY <1>1
  <2> HIDE DEF whole, part
  <2> QED BY <2>1, <2>2
<1>3. whole[i] + part[i] = asked[i] /\ whole[i] \in Nat /\ part[i] \in Nat
  BY Charged DEF TypeOK
<1>4. /\ Received = SumFunctionOnSet(whole, Paying)
      /\ Fractions = SumFunctionOnSet(part, Paying)
      /\ Received' = SumFunctionOnSet(whole, Paying')
      /\ Fractions' = SumFunctionOnSet(part, Paying')
  BY DEF Received, Fractions
<1> HIDE DEF whole, part
<1>5. /\ Received' = whole[i] + Received
      /\ Fractions' = part[i] + Fractions
  BY <1>1, <1>2, <1>4, SumAddsElement
<1> QED BY <1>3, <1>5, PaidInTyped

(***************************************************************************)
(* What stands behind each note: a part of what was paid in, which covers  *)
(* what the note is worth and a base fee.  It is fixed when the note is    *)
(* made, and no column holds it.                                           *)
(***************************************************************************)
Behind(inputs, cover) == SumFunction([k \in DOMAIN inputs |-> cover[inputs[k]]])

PromisesCovered(cover) ==
  \A i \in Invoices : record[i] # "none" =>
    cover[i] <= asked[i] /\ value[i] + mint.base_fee_msat <= cover[i]

NotesCovered(cover) ==
  \A n \in OnFile : value[n] + mint.base_fee_msat <= cover[n]

\* Behind each note a request read stands a base fee as the request read it;
\* no note leaves the file or changes its worth, so it stays so.
RequestCovered(r, cover) ==
  /\ mint.base_fee_msat <= r.mint.base_fee_msat
  /\ \A k \in DOMAIN r.inputs :
       LET n == r.inputs[k]
       IN  fate[n] # "absent" /\ value[n] + r.mint.base_fee_msat <= cover[n]

RequestsCovered(cover) == \A q \in Requests : RequestCovered(request[q], cover)

PaidIn == Received + Fractions

AllCovered(cover) == SumFunctionOnSet(cover, Held) <= PaidIn

Covers(cover) ==
  /\ PromisesCovered(cover)
  /\ NotesCovered(cover)
  /\ RequestsCovered(cover)
  /\ AllCovered(cover)

Covered == \E cover \in [Notes -> Nat] : Covers(cover)

\* Notes that are covered are worth no more than what was paid in.
LEMMA CoveredNotes ==
  ASSUME TypeOK, MintedIsOnFile, Bounded, Covered
  PROVE  BaseFeePerNote
<1>1. PICK cover \in [Notes -> Nat] : Covers(cover)
  BY DEF Covered
<1> DEFINE fee == mint.base_fee_msat
<1>2. fee \in Nat
  BY ValueAssumption, SettingsFields DEF TypeOK
<1>3. \A n \in Held : value[n] \in Nat /\ cover[n] \in Nat /\ value[n] + fee <= cover[n]
  <2>1. \A n \in Held : n \in OnFile \/ (n \in Invoices /\ record[n] # "none")
    BY HeldNotes DEF HeldNote, OnFile
  <2>2. Held \subseteq Notes
    BY HeldNotes
  <2> QED BY <1>1, <2>1, <2>2 DEF Covers, PromisesCovered, NotesCovered, TypeOK
<1>4. IsFiniteSet(Held)
  BY HeldNotes
<1> HIDE DEF fee
<1>5. SumFunctionOnSet(value, Held) + Cardinality(Held) * fee <= SumFunctionOnSet(cover, Held)
  BY <1>2, <1>3, <1>4, SumBelow
<1>6. /\ SumFunctionOnSet(value, Held) \in Nat
      /\ SumFunctionOnSet(cover, Held) \in Nat
      /\ Cardinality(Held) \in Nat
  BY <1>3, <1>4, SumInNat, FS_CardinalityType
<1>7. Cardinality(Held) * fee \in Nat
  BY <1>2, <1>6
<1>8. SumFunctionOnSet(cover, Held) <= Received + Fractions
  BY <1>1 DEF Covers, AllCovered, PaidIn
<1>9. SumFunctionOnSet(value, Held) + Cardinality(Held) * fee <= Received + Fractions
  BY <1>5, <1>6, <1>7, <1>8, PaidInTyped
<1> QED BY <1>9 DEF BaseFeePerNote, ValueOf, Held, fee

LEMMA FeeStep ==
  ASSUME TypeOK, TypeOK', BaseFeeNotRaised
  PROVE  /\ mint.base_fee_msat \in Nat /\ mint'.base_fee_msat \in Nat
         /\ mint'.base_fee_msat <= mint.base_fee_msat
BY ValueAssumption, SettingsFields DEF TypeOK, BaseFeeNotRaised

LEMMA BehindTyped ==
  ASSUME NEW inputs \in Seq(Notes), NEW cover \in [Notes -> Nat]
  PROVE  Behind(inputs, cover) \in Nat
<1>1. DOMAIN inputs = 1..Len(inputs) /\ Len(inputs) \in Nat
  OBVIOUS
<1>2. \A k \in DOMAIN inputs : cover[inputs[k]] \in Nat
  OBVIOUS
<1>3. IsFiniteSet(DOMAIN inputs)
  BY <1>1, IntervalSize
<1> DEFINE covers == [k \in DOMAIN inputs |-> cover[inputs[k]]]
<1>4. DOMAIN covers = DOMAIN inputs /\ \A k \in DOMAIN inputs : covers[k] \in Nat
  BY <1>2
<1> HIDE DEF covers
<1>5. SumFunctionOnSet(covers, DOMAIN inputs) \in Nat
  BY <1>3, <1>4, SumInNat
<1> QED BY <1>4, <1>5 DEF Behind, SumFunction, covers

\* Requests that go on, and ones that begin, are covered.
LEMMA RequestsKept ==
  ASSUME TypeOK, TypeOK', BaseFeeNotRaised,
         NEW cover \in [Notes -> Nat], NEW next \in [Notes -> Nat], RequestsCovered(cover),
         \A n \in OnFile : fate'[n] # "absent" /\ next[n] = cover[n] /\ value'[n] = value[n],
         \A q \in Requests : request'[q] \in {request[q], Begun(mint)}
  PROVE  RequestsCovered(next)'
<1> SUFFICES ASSUME NEW q \in Requests
             PROVE  RequestCovered(request[q], next)'
  BY DEF RequestsCovered
<1>1. /\ mint.base_fee_msat \in Nat /\ mint'.base_fee_msat \in Nat
      /\ mint'.base_fee_msat <= mint.base_fee_msat
  BY FeeStep
<1>2. CASE request'[q] = Begun(mint)
  <2>1. request'[q].mint = mint /\ DOMAIN request'[q].inputs = {}
    BY <1>2 DEF Begun
  <2> QED BY <1>1, <2>1 DEF RequestCovered
<1>3. CASE request'[q] = request[q]
  <2>1. RequestCovered(request[q], cover)
    BY DEF RequestsCovered
  <2>2. \A k \in DOMAIN request[q].inputs : request[q].inputs[k] \in OnFile
    BY <2>1, RequestTyped DEF RequestCovered, OnFile
  <2>3. request[q].mint.base_fee_msat \in Nat
    BY RequestTyped
  <2>4. mint'.base_fee_msat <= request[q].mint.base_fee_msat
    BY <1>1, <2>1, <2>3 DEF RequestCovered
  <2> QED BY <1>3, <2>1, <2>2, <2>4 DEF RequestCovered
<1> QED BY <1>2, <1>3

\* A step that makes no note and takes no payment leaves all covered.
LEMMA StillCovered ==
  ASSUME Bounded, TypeOK, TypeOK', BaseFeeNotRaised, NEW cover \in [Notes -> Nat], Covers(cover),
         Held' = Held, Paying' = Paying,
         UNCHANGED <<asked, value>>,
         \A n \in Notes : fate'[n] # "absent" <=>
           fate[n] # "absent" \/ (n \in Invoices /\ fate'[n] # "absent" /\ record[n] # "none"),
         \A i \in Invoices : record'[i] # "none" <=> record[i] # "none",
         \A q \in Requests : request'[q] \in {request[q], Begun(mint)}
  PROVE  Covered'
<1>1. /\ mint.base_fee_msat \in Nat /\ mint'.base_fee_msat \in Nat
      /\ mint'.base_fee_msat <= mint.base_fee_msat
  BY FeeStep
<1>2. PromisesCovered(cover)'
  BY <1>1 DEF Covers, PromisesCovered, TypeOK, Notes
<1>3. NotesCovered(cover)'
  <2> SUFFICES ASSUME NEW n \in Notes, fate'[n] # "absent"
               PROVE  value'[n] + mint'.base_fee_msat <= cover[n]
    BY DEF NotesCovered, OnFile
  <2>1. value[n] + mint.base_fee_msat <= cover[n]
    BY DEF Covers, NotesCovered, PromisesCovered, OnFile
  <2> QED BY <1>1, <2>1 DEF TypeOK
<1>4. RequestsCovered(cover)'
  <2>1. \A n \in OnFile : fate'[n] # "absent" /\ cover[n] = cover[n] /\ value'[n] = value[n]
    BY DEF OnFile
  <2> QED BY <2>1, RequestsKept DEF Covers
<1>5. AllCovered(cover)'
  <2>1. Received' = Received /\ Fractions' = Fractions
    BY PaidInSame
  <2> QED BY <2>1 DEF Covers, AllCovered, PaidIn
<1> QED BY <1>2, <1>3, <1>4, <1>5 DEF Covered, Covers

LEMMA InitCovered == ASSUME Bounded PROVE Init => Covered
<1> SUFFICES ASSUME Init PROVE Covered
  OBVIOUS
<1>1. TypeOK
  BY InitTyped
<1>2. Held = {} /\ OnFile = {}
  BY <1>1, HeldNotes DEF Init, HeldNote, OnFile
<1> DEFINE cover == [n \in Notes |-> 0]
<1>3. SumFunctionOnSet(cover, {}) = 0
  BY SumOfNothing
<1>4. AllCovered(cover)
  BY <1>1, <1>2, <1>3, PaidInTyped DEF AllCovered, PaidIn
<1>5. PromisesCovered(cover) /\ NotesCovered(cover) /\ RequestsCovered(cover)
  <2>1. \A q \in Requests : request[q].mint = mint /\ DOMAIN request[q].inputs = {}
    BY DEF Init, Begun
  <2>2. mint.base_fee_msat \in Nat
    BY <1>1, SettingsFields, ValueAssumption DEF TypeOK
  <2> QED BY <1>2, <2>1, <2>2 DEF Init, PromisesCovered, NotesCovered, RequestsCovered,
                                RequestCovered
<1>6. cover \in [Notes -> Nat]
  OBVIOUS
<1> HIDE DEF cover
<1> QED BY <1>4, <1>5, <1>6 DEF Covered, Covers

(***************************************************************************)
(* The steps.                                                              *)
(***************************************************************************)

\* What the payer is asked for stands behind the note it is promised.
LEMMA PayCallbackCovered ==
  ASSUME Bounded, FatesInv, TypeOK', BaseFeeNotRaised, Covered,
         NEW i \in Invoices, NEW amount \in PayAmounts, PayCallback(i, amount)
  PROVE  Covered'
<1> USE DEF FatesInv
<1>1. /\ record[i] = "none" /\ fate[i] = "absent" /\ i \in Notes /\ amount \in Nat
      /\ record' = [record EXCEPT ![i] = "unpaid"]
      /\ asked' = [asked EXCEPT ![i] = amount]
      /\ value' = [value EXCEPT ![i] = Net(mint, amount)]
      /\ mint' = mint /\ fate' = fate /\ request' = request
  BY ValueAssumption DEF PayCallback, MintedIsOnFile, TypeOK, Notes
<1>2. PICK cover \in [Notes -> Nat] : Covers(cover)
  BY DEF Covered
<1>3. PICK next \in [Notes -> Nat] : next = [cover EXCEPT ![i] = amount]
  BY <1>1
<1>4. next[i] = amount /\ \A n \in Notes \ {i} : next[n] = cover[n] /\ value'[n] = value[n]
  BY <1>1, <1>3 DEF TypeOK
<1>5. Held' = Held /\ i \notin Held
  <2>1. \A n \in Notes : HeldNote(n)' <=> HeldNote(n)
    BY <1>1 DEF HeldNote, TypeOK
  <2>2. Held' = {n \in Notes : HeldNote(n)'}
    BY <1>1 DEF Held, HeldNote, Owed, Outstanding, PaidOut, Notes
  <2>3. ~HeldNote(i)
    BY <1>1 DEF HeldNote
  <2> QED BY <2>1, <2>2, <2>3, HeldNotes
<1>6. Paying' = Paying /\ i \notin Paying
  BY <1>1 DEF Paying, TypeOK
<1>7. PromisesCovered(next)'
  <2>1. Net(mint, amount) + mint.base_fee_msat <= amount
    BY AcceptedAmount DEF PayCallback
  <2>2. PromisesCovered(cover)
    BY <1>2 DEF Covers
  <2>3. \A j \in Invoices \ {i} : /\ record'[j] = record[j] /\ asked'[j] = asked[j]
                                  /\ value'[j] = value[j] /\ next[j] = cover[j]
    BY <1>1, <1>4 DEF TypeOK, Notes
  <2>4. asked'[i] = amount /\ value'[i] = Net(mint, amount)
    BY <1>1 DEF TypeOK
  <2> QED BY <1>1, <1>4, <2>1, <2>2, <2>3, <2>4 DEF PromisesCovered
<1>8. \A n \in OnFile : n \in Notes \ {i}
  BY <1>1 DEF OnFile
<1>9. NotesCovered(next)'
  <2>1. OnFile' = OnFile /\ NotesCovered(cover)
    BY <1>1, <1>2 DEF OnFile, Covers
  <2> QED BY <1>1, <1>4, <1>8, <2>1 DEF NotesCovered
<1>10. RequestsCovered(next)'
  <2>1. \A n \in OnFile : fate'[n] # "absent" /\ next[n] = cover[n] /\ value'[n] = value[n]
    BY <1>1, <1>4, <1>8 DEF OnFile
  <2> QED BY <1>1, <1>2, <2>1, RequestsKept DEF Covers
<1>11. AllCovered(next)'
  <2>1. \A j \in Paying : asked'[j] = asked[j]
    BY <1>1, <1>6 DEF Paying, TypeOK
  <2>2. Received' = Received /\ Fractions' = Fractions
    BY <1>6, <2>1, PaidInSame
  <2>3. IsFiniteSet(Held) /\ \A n \in Held : next[n] = cover[n]
    BY <1>4, <1>5, HeldNotes
  <2>4. SumFunctionOnSet(next, Held) = SumFunctionOnSet(cover, Held)
    BY <2>3, SumSame
  <2> QED BY <1>2, <1>5, <2>2, <2>4 DEF Covers, AllCovered, PaidIn
<1> QED BY <1>7, <1>9, <1>10, <1>11 DEF Covered, Covers

LEMMA InvoicePaidCovered ==
  ASSUME Bounded, FatesInv, TypeOK', BaseFeeNotRaised, Covered, NEW i \in Invoices, InvoicePaid(i)
  PROVE  Covered'
<1> USE DEF FatesInv
<1>1. /\ record[i] = "unpaid" /\ fate[i] = "absent" /\ i \in Notes
      /\ record' = [record EXCEPT ![i] = "paid"]
      /\ UNCHANGED <<mint, asked, fate, value, request>>
  BY DEF InvoicePaid, MintedIsOnFile, TypeOK, Notes
<1>2. PICK cover \in [Notes -> Nat] : Covers(cover)
  BY DEF Covered
<1>3. Held' = Held \cup {i} /\ i \notin Held
  <2>1. \A n \in Notes : HeldNote(n)' <=> HeldNote(n) \/ n = i
    BY <1>1 DEF HeldNote, TypeOK
  <2>2. Held' = {n \in Notes : HeldNote(n)'}
    BY DEF Held, HeldNote, Owed, Outstanding, PaidOut, Notes
  <2>3. ~HeldNote(i)
    BY <1>1 DEF HeldNote
  <2> QED BY <1>1, <2>1, <2>2, <2>3, HeldNotes
<1>4. Paying' = Paying \cup {i} /\ i \notin Paying
  BY <1>1 DEF Paying, TypeOK
<1>5. PromisesCovered(cover)' /\ NotesCovered(cover)'
  BY <1>1, <1>2 DEF Covers, PromisesCovered, NotesCovered, OnFile, TypeOK
<1>6. RequestsCovered(cover)'
  <2>1. \A n \in OnFile : fate'[n] # "absent" /\ cover[n] = cover[n] /\ value'[n] = value[n]
    BY <1>1 DEF OnFile
  <2> QED BY <1>1, <1>2, <2>1, RequestsKept DEF Covers
<1>7. AllCovered(cover)'
  <2>1. IsFiniteSet(Held) /\ Held \subseteq Notes
    BY HeldNotes
  <2>2. \A n \in Held \cup {i} : cover[n] \in Nat
    BY <1>1, <2>1
  <2>3. SumFunctionOnSet(cover, Held \cup {i}) = cover[i] + SumFunctionOnSet(cover, Held)
    <3>1. \A n \in Held \cup {i} : cover[n] \in Int
      BY <2>2
    <3> QED BY <1>3, <2>1, <3>1, SumAddsElement
  <2>4. SumFunctionOnSet(cover, Held) \in Nat
    BY <2>1, <2>2, SumInNat
  <2>5. Received' + Fractions' = Received + Fractions + asked[i]
    BY <1>1, <1>4, PaidInMore
  <2>6. cover[i] <= asked[i] /\ asked[i] \in Nat /\ cover[i] \in Nat
    BY <1>1, <1>2 DEF Covers, PromisesCovered, TypeOK
  <2>7. SumFunctionOnSet(cover, Held) <= Received + Fractions
    BY <1>2 DEF Covers, AllCovered, PaidIn
  <2>8. SumFunctionOnSet(cover, Held') <= Received' + Fractions'
    BY <1>3, <2>3, <2>4, <2>5, <2>6, <2>7, PaidInTyped
  <2> QED BY <2>8 DEF AllCovered, PaidIn
<1> QED BY <1>5, <1>6, <1>7 DEF Covered, Covers

LEMMA SettleMintCovered ==
  ASSUME Bounded, FatesInv, TypeOK', BaseFeeNotRaised, Covered, NEW i \in Invoices, SettleMint(i)
  PROVE  Covered'
<1> USE DEF FatesInv
<1>1. /\ record[i] = "paid" /\ i \in Notes
      /\ record' = [record EXCEPT ![i] = "minted"]
      /\ fate' = [fate EXCEPT ![i] = "live"]
      /\ UNCHANGED <<mint, asked, value, request>>
  BY DEF SettleMint, Notes
<1>2. Held' = Held
  <2>1. \A n \in Notes : HeldNote(n)' <=> HeldNote(n)
    BY <1>1 DEF HeldNote, TypeOK
  <2>2. Held' = {n \in Notes : HeldNote(n)'}
    BY DEF Held, HeldNote, Owed, Outstanding, PaidOut, Notes
  <2> QED BY <2>1, <2>2, HeldNotes
<1>3. Paying' = Paying
  BY <1>1 DEF Paying, TypeOK
<1>4. /\ \A n \in Notes : fate'[n] # "absent" <=>
           fate[n] # "absent" \/ (n \in Invoices /\ fate'[n] # "absent" /\ record[n] # "none")
      /\ \A j \in Invoices : record'[j] # "none" <=> record[j] # "none"
  BY <1>1 DEF TypeOK
<1> QED BY <1>1, <1>2, <1>3, <1>4, StillCovered DEF Covered

\* The base fees of the notes a request read are there.
LEMMA InputsCovered ==
  ASSUME TypeOK, NEW cover \in [Notes -> Nat], NEW q \in Requests,
         RequestCovered(request[q], cover)
  PROVE  Total(request[q].inputs) + Len(request[q].inputs) * request[q].mint.base_fee_msat
           <= Behind(request[q].inputs, cover)
<1> DEFINE inputs == request[q].inputs
           fee == request[q].mint.base_fee_msat
           worth == [k \in DOMAIN inputs |-> value[inputs[k]]]
           stands == [k \in DOMAIN inputs |-> cover[inputs[k]]]
           S == DOMAIN inputs
<1>1. fee \in Nat
  BY RequestTyped
<1>2. IsFiniteSet(S) /\ Cardinality(S) = Len(inputs)
  BY RequestTyped, IntervalSize
<1>3. \A k \in S : /\ worth[k] \in Nat /\ stands[k] \in Nat
                   /\ worth[k] + fee <= stands[k]
  <2>1. \A k \in S : inputs[k] \in Notes
    BY RequestTyped
  <2> QED BY <2>1 DEF RequestCovered, TypeOK
<1>4. /\ Total(inputs) = SumFunctionOnSet(worth, S)
      /\ Behind(inputs, cover) = SumFunctionOnSet(stands, S)
  BY DEF Total, Behind, SumFunction
<1> HIDE DEF fee, worth, stands, S, inputs
<1>5. SumFunctionOnSet(worth, S) + Cardinality(S) * fee <= SumFunctionOnSet(stands, S)
  BY <1>1, <1>2, <1>3, SumBelow
<1> QED BY <1>2, <1>4, <1>5 DEF fee, inputs

LEMMA FeesTyped ==
  ASSUME NEW worth \in Nat, NEW n \in Nat, NEW fee \in Nat
  PROVE  worth + n * fee \in Nat
<1>1. n * fee \in Nat
  OBVIOUS
<1> QED BY <1>1

\* A note is read under the base fee the request read, or a higher one.
LEMMA ReadNoteCovered ==
  ASSUME Bounded, FatesInv, TypeOK', BaseFeeNotRaised, ReadsAreCurrent, Covered,
         NEW q \in Requests, NEW n \in Notes, ReadNote(q, n)
  PROVE  Covered'
<1> USE DEF FatesInv
<1>1. PICK cover \in [Notes -> Nat] : Covers(cover)
  BY DEF Covered
<1>2. /\ request' = [request EXCEPT ![q].inputs = Append(@, n)]
      /\ fate[n] \in {"live", "committed", "paid"}
      /\ UNCHANGED <<mint, record, asked, fate, value>>
  BY DEF ReadNote
<1>3. request[q].mint.base_fee_msat <= mint.base_fee_msat
  BY DEF ReadsAreCurrent
<1>4. Held' = Held /\ Paying' = Paying
  BY <1>2 DEF Held, Owed, Outstanding, PaidOut, Paying
<1>5. PromisesCovered(cover)' /\ NotesCovered(cover)'
  BY <1>1, <1>2 DEF Covers, PromisesCovered, NotesCovered, OnFile
<1>6. RequestsCovered(cover)'
  <2> SUFFICES ASSUME NEW r \in Requests
               PROVE  RequestCovered(request[r], cover)'
    BY DEF RequestsCovered
  <2>1. RequestCovered(request[r], cover)
    BY <1>1 DEF Covers, RequestsCovered
  <2>2. CASE r # q
    <3>1. request'[r] = request[r]
      BY <1>2, <2>2 DEF TypeOK
    <3> QED BY <1>2, <2>1, <3>1 DEF RequestCovered
  <2>3. CASE r = q
    <3> DEFINE before == request[q].inputs
               fee == request[q].mint.base_fee_msat
    <3>1. /\ request'[q].inputs = Append(before, n)
          /\ request'[q].mint = request[q].mint
      BY <1>2 DEF TypeOK
    <3>2. before \in Seq(Notes) /\ fee \in Nat
      BY RequestTyped
    <3>3. \A k \in DOMAIN Append(before, n) :
            \/ k \in DOMAIN before /\ Append(before, n)[k] = before[k]
            \/ Append(before, n)[k] = n
      <4> HIDE DEF before
      <4> QED BY <3>2
    <3>4. fate[n] # "absent" /\ value[n] + fee <= cover[n]
      <4>1. value[n] + mint.base_fee_msat <= cover[n] /\ n \in OnFile
        BY <1>1, <1>2 DEF Covers, NotesCovered, OnFile
      <4>2. value[n] \in Nat /\ cover[n] \in Nat /\ mint.base_fee_msat \in Nat
        BY FeeStep DEF TypeOK
      <4> QED BY <1>2, <1>3, <3>2, <4>1, <4>2
    <3>5. \A k \in DOMAIN before : /\ fate[before[k]] # "absent"
                                   /\ value[before[k]] + fee <= cover[before[k]]
      BY <2>1, <2>3 DEF RequestCovered
    <3>6. mint.base_fee_msat <= fee
      BY <2>1, <2>3 DEF RequestCovered
    <3> HIDE DEF before
    <3> QED BY <1>2, <2>3, <3>1, <3>3, <3>4, <3>5, <3>6 DEF RequestCovered
  <2> QED BY <2>2, <2>3
<1>7. AllCovered(cover)'
  <2>1. Received' = Received /\ Fractions' = Fractions
    BY <1>2, <1>4, PaidInSame
  <2> QED BY <1>1, <1>4, <2>1 DEF Covers, AllCovered, PaidIn
<1> QED BY <1>5, <1>6, <1>7 DEF Covered, Covers

\* The notes a swap burns and the ones it makes.
LEMMA SwapNotes ==
  ASSUME TypeOK, MintedIsOnFile, Bounded,
         NEW q \in Requests, NEW values \in Seq(Nat),
         NEW outputs \in [DOMAIN values -> Outputs], Swap(q, values, outputs)
  PROVE  LET burned == Range(request[q].inputs)
             made == Range(outputs)
         IN  /\ burned \subseteq Held
             /\ made \cap Held = {} /\ made \subseteq Outputs
             /\ \A n \in burned : n \in Notes /\ fate[n] = "live"
             /\ \A n \in made : n \in Notes /\ fate[n] = "absent"
             /\ Held' = (Held \ burned) \cup made
<1> DEFINE burned == Range(request[q].inputs)
           made == Range(outputs)
<1>1. request[q].inputs \in Seq(Notes)
  BY DEF TypeOK
<1>2. \A n \in burned : n \in Notes /\ fate[n] = "live"
  BY <1>1 DEF Swap, Burnable, Range
<1>3. \A n \in made : n \in Outputs /\ n \in Notes /\ fate[n] = "absent"
  BY DEF Swap, Range, Notes
<1>4. fate' = [n \in Notes |-> IF n \in burned THEN "swapped"
                               ELSE IF n \in made THEN "live" ELSE fate[n]]
  BY DEF Swap
<1>5. record' = record
  BY DEF Swap
<1> HIDE DEF burned, made
<1>6. \A n \in burned : n \in Held
  BY <1>2, HeldNotes DEF HeldNote
<1>7. \A n \in made : n \notin Held
  BY <1>3, HeldNotes, ValueAssumption DEF HeldNote
<1>8. Held' = {n \in Notes : HeldNote(n)'}
  BY DEF Held, HeldNote, Owed, Outstanding, PaidOut, Notes
<1>9. ASSUME NEW n \in Notes
      PROVE  HeldNote(n)' <=> n \in (Held \ burned) \cup made
  <2>1. CASE n \in burned
    <3>1. fate'[n] = "swapped" /\ n \notin made /\ (n \in Invoices => record[n] # "paid")
      BY <1>2, <1>3, <1>4, <2>1 DEF MintedIsOnFile
    <3> QED BY <1>5, <2>1, <3>1 DEF HeldNote
  <2>2. CASE n \in made /\ n \notin burned
    BY <1>4, <2>2 DEF HeldNote
  <2>3. CASE n \notin made /\ n \notin burned
    BY <1>4, <1>5, <2>3, HeldNotes DEF HeldNote
  <2> QED BY <2>1, <2>2, <2>3
<1>10. \A n \in (Held \ burned) \cup made : n \in Notes
  BY <1>3, HeldNotes
<1>11. Held' = (Held \ burned) \cup made
  BY <1>8, <1>9, <1>10
<1>12. /\ burned \subseteq Held
       /\ made \cap Held = {} /\ made \subseteq Outputs
  BY <1>3, <1>6, <1>7
<1> QED BY <1>2, <1>3, <1>11, <1>12 DEF burned, made

\* Every value of a sequence and a fee on it.
LEMMA SequencePlus ==
  ASSUME NEW values \in Seq(Nat), NEW fee \in Nat, NEW stands, DOMAIN stands = DOMAIN values,
         \A k \in DOMAIN values : stands[k] = values[k] + fee
  PROVE  SumFunction(stands) = SumFunction(values) + Len(values) * fee
<1> DEFINE S == DOMAIN values
<1>1. S = 1..Len(values) /\ Len(values) \in Nat
  OBVIOUS
<1>2. \A k \in S : values[k] \in Nat /\ stands[k] = values[k] + fee
  OBVIOUS
<1>3. IsFiniteSet(S) /\ Cardinality(S) = Len(values)
  BY <1>1, IntervalSize
<1>4. /\ SumFunction(stands) = SumFunctionOnSet(stands, S)
      /\ SumFunction(values) = SumFunctionOnSet(values, S)
  BY DEF SumFunction
<1> HIDE DEF S
<1>5. SumFunctionOnSet(stands, S) = SumFunctionOnSet(values, S) + Cardinality(S) * fee
  BY <1>2, <1>3, SumPlus
<1> QED BY <1>3, <1>4, <1>5

\* What stood behind the notes a swap burns is shared among those it makes.
LEMMA SwapCovered ==
  ASSUME Bounded, FatesInv, TypeOK', BaseFeeNotRaised, Covered,
         NEW q \in Requests, NEW values \in Seq(Nat),
         NEW outputs \in [DOMAIN values -> Outputs], Swap(q, values, outputs),
         Works(q, values)
  PROVE  Covered'
<1> USE DEF FatesInv
<1> DEFINE inputs == request[q].inputs
           burned == Range(inputs)
           made == Range(outputs)
           left == Held \ burned
           fee == request[q].mint.base_fee_msat
<1>1. /\ inputs \in Seq(Notes) /\ IsInjective(inputs)
      /\ values \in Seq(Nat) /\ IsInjective(outputs)
  BY DEF Swap, Burnable, TypeOK
<1>2. /\ burned \subseteq Held
      /\ made \cap Held = {} /\ made \subseteq Outputs
      /\ \A n \in burned : n \in Notes /\ fate[n] = "live"
      /\ \A n \in made : n \in Notes /\ fate[n] = "absent"
      /\ Held' = left \cup made
  BY SwapNotes
<1>3. /\ \A n \in made : value'[n] = OutputValue(values, outputs, n)
      /\ \A n \in Notes \ made : value'[n] = value[n]
      /\ \A n \in Notes : fate[n] # "absent" => fate'[n] # "absent"
      /\ \A n \in Notes : fate'[n] # "absent" => fate[n] # "absent" \/ n \in made
      /\ request' = [request EXCEPT ![q] = Begun(mint)]
      /\ UNCHANGED <<mint, record, asked>>
  BY <1>2 DEF Swap
<1>5. PICK cover \in [Notes -> Nat] : Covers(cover)
  BY DEF Covered
<1>4. /\ fee \in Nat /\ mint.base_fee_msat \in Nat
      /\ mint' = mint /\ mint.base_fee_msat <= fee
  BY <1>3, <1>5, FeeStep, RequestTyped DEF Covers, RequestsCovered, RequestCovered
<1>6. PICK next \in [Notes -> Nat] :
        next = [n \in Notes |-> IF n \in made THEN value'[n] + fee ELSE cover[n]]
  <2>1. \A n \in made : value'[n] \in Nat
    BY <1>2 DEF TypeOK
  <2> HIDE DEF made, fee
  <2>2. [n \in Notes |-> IF n \in made THEN value'[n] + fee ELSE cover[n]] \in [Notes -> Nat]
    BY <1>4, <2>1
  <2> QED BY <2>2
<1>7. /\ \A n \in made : next[n] = value'[n] + fee
      /\ \A n \in Notes \ made : next[n] = cover[n]
  BY <1>2, <1>6
\* What stood behind the notes that are burned.
<1>8. /\ IsFiniteSet(burned)
      /\ SumFunctionOnSet(cover, burned) = Behind(inputs, cover)
  <2>1. DOMAIN inputs = 1..Len(inputs) /\ Len(inputs) \in Nat
    BY <1>1
  <2>2. \A k \in DOMAIN inputs : cover[inputs[k]] \in Nat
    BY <1>1
  <2> HIDE DEF inputs
  <2> QED BY <1>1, <2>1, <2>2, SumOfSequence DEF Behind
\* What stands behind the notes that are made.
<1>9. /\ IsFiniteSet(made)
      /\ SumFunctionOnSet(next, made) = SumFunction(values) + Len(values) * fee
  <2>1. DOMAIN values = 1..Len(values) /\ Len(values) \in Nat
    BY <1>1
  <2>2. DOMAIN outputs = DOMAIN values
    OBVIOUS
  <2>3. \A k \in DOMAIN values : OutputValue(values, outputs, outputs[k]) = values[k]
    BY <1>1, <2>2, OutputValues
  <2>4. \A k \in DOMAIN values : outputs[k] \in made
    BY <2>2 DEF Range
  <2>5. \A k \in DOMAIN values : values[k] \in Nat /\ next[outputs[k]] = values[k] + fee
    <3>1. \A k \in DOMAIN values : values[k] \in Nat
      BY <1>1
    <3>2. \A k \in DOMAIN values : value'[outputs[k]] = values[k]
      <4> HIDE DEF made
      <4> QED BY <1>3, <2>3, <2>4
    <3> HIDE DEF made, fee
    <3> QED BY <1>7, <2>4, <3>1, <3>2
  <2> DEFINE stands == [k \in DOMAIN outputs |-> next[outputs[k]]]
  <2>6. DOMAIN stands = DOMAIN values /\ \A k \in DOMAIN values : stands[k] = values[k] + fee
    BY <2>2, <2>5
  <2>7. \A k \in DOMAIN outputs : next[outputs[k]] \in Nat
    BY <1>4, <2>2, <2>5
  <2>8. IsFiniteSet(Range(outputs)) /\ SumFunctionOnSet(next, Range(outputs)) = SumFunction(stands)
    BY <1>1, <2>1, <2>2, <2>7, SumOfSequence
  <2> HIDE DEF fee, stands
  <2>9. SumFunction(stands) = SumFunction(values) + Len(values) * fee
    BY <1>1, <1>4, <2>6, SequencePlus
  <2> QED BY <2>8, <2>9
\* What is left alone.
<1>10. /\ IsFiniteSet(left)
       /\ left \cap burned = {} /\ left \cap made = {} /\ Held = left \cup burned
       /\ left \subseteq Notes
  BY <1>2, HeldNotes, FS_Difference
<1>11. SumFunctionOnSet(next, left) = SumFunctionOnSet(cover, left)
  <2>1. \A n \in left : next[n] = cover[n]
    BY <1>7, <1>10
  <2> HIDE DEF left, made
  <2> QED BY <1>10, <2>1, SumSame
<1>12. SumFunctionOnSet(cover, Held)
         = SumFunctionOnSet(cover, left) + SumFunctionOnSet(cover, burned)
  <2>1. \A n \in left \cup burned : cover[n] \in Int
    BY <1>2, <1>10
  <2> HIDE DEF left, burned
  <2> QED BY <1>8, <1>10, <2>1, SumOfUnion
<1>13. SumFunctionOnSet(next, Held')
         = SumFunctionOnSet(next, left) + SumFunctionOnSet(next, made)
  <2>1. \A n \in left \cup made : next[n] \in Int
    BY <1>2, <1>10
  <2> HIDE DEF left, made
  <2> QED BY <1>2, <1>9, <1>10, <2>1, SumOfUnion
<1>14. SumFunction(values) + Len(values) * fee <= Behind(inputs, cover)
  <2> DEFINE takes == SumFunction(values) + Len(values) * fee
             gives == Total(inputs) + Len(inputs) * fee
             stands == Behind(inputs, cover)
  <2>1. takes <= gives
    BY DEF Works
  <2>2. gives <= stands
    BY <1>5, InputsCovered DEF Covers, RequestsCovered
  <2>3. takes \in Nat /\ gives \in Nat /\ stands \in Nat
    <3>1. SumFunction(values) \in Nat /\ Len(values) \in Nat
      BY <1>1, SumOfNats
    <3>2. Total(inputs) \in Nat /\ Len(inputs) \in Nat
      BY <1>1, TotalTyped
    <3> HIDE DEF inputs, fee
    <3> QED BY <1>1, <1>4, <3>1, <3>2, FeesTyped, BehindTyped
  <2> HIDE DEF takes, gives, stands
  <2>4. takes <= stands
    BY <2>1, <2>2, <2>3
  <2> QED BY <2>4 DEF takes, stands
<1>15. AllCovered(next)'
  <2>1. /\ SumFunctionOnSet(cover, left) \in Nat
        /\ SumFunctionOnSet(cover, burned) \in Nat
        /\ SumFunctionOnSet(next, made) \in Nat
    <3>1. /\ \A n \in left : cover[n] \in Nat
          /\ \A n \in burned : cover[n] \in Nat
          /\ \A n \in made : next[n] \in Nat
      BY <1>2, <1>10
    <3> HIDE DEF left, burned, made
    <3> QED BY <1>8, <1>9, <1>10, <3>1, SumInNat
  <2>2. Received' = Received /\ Fractions' = Fractions
    <3>1. Paying' = Paying
      BY <1>3 DEF Paying
    <3> QED BY <1>3, <3>1, PaidInSame
  <2> DEFINE l == SumFunctionOnSet(cover, left)
             b == SumFunctionOnSet(cover, burned)
             m == SumFunctionOnSet(next, made)
  <2>3. m <= b
    BY <1>8, <1>9, <1>14
  <2>4. l + b <= PaidIn
    BY <1>5, <1>12 DEF Covers, AllCovered
  <2>5. PaidIn \in Nat /\ PaidIn' = PaidIn
    BY <2>2, PaidInTyped DEF PaidIn
  <2>6. SumFunctionOnSet(next, Held') = l + m
    BY <1>11, <1>13
  <2>7. l \in Nat /\ b \in Nat /\ m \in Nat
    BY <2>1
  <2> HIDE DEF l, b, m
  <2>8. l + m <= PaidIn
    BY <2>3, <2>4, <2>5, <2>7
  <2> QED BY <2>5, <2>6, <2>8 DEF AllCovered
<1>16. \A i \in Invoices : i \in Notes /\ i \notin made
  BY <1>2, ValueAssumption DEF Notes
<1>17. PromisesCovered(next)'
  <2>1. \A i \in Invoices : next[i] = cover[i] /\ value'[i] = value[i]
    BY <1>3, <1>7, <1>16
  <2> QED BY <1>3, <1>4, <1>5, <2>1 DEF Covers, PromisesCovered
<1>18. NotesCovered(next)'
  <2> SUFFICES ASSUME NEW n \in Notes, fate'[n] # "absent"
               PROVE  value'[n] + mint'.base_fee_msat <= next[n]
    BY DEF NotesCovered, OnFile
  <2>1. CASE n \in made
    <3>1. next[n] = value'[n] + fee /\ value'[n] \in Nat
      BY <1>7, <2>1 DEF TypeOK
    <3> QED BY <1>4, <3>1
  <2>2. CASE n \notin made
    <3>1. n \in OnFile /\ value'[n] = value[n] /\ next[n] = cover[n]
      BY <1>3, <1>7, <2>2 DEF OnFile
    <3> QED BY <1>4, <1>5, <3>1 DEF Covers, NotesCovered
  <2> QED BY <2>1, <2>2
<1>19. RequestsCovered(next)'
  <2>1. \A n \in OnFile : fate'[n] # "absent" /\ next[n] = cover[n] /\ value'[n] = value[n]
    <3>1. \A n \in OnFile : n \in Notes /\ fate[n] # "absent" /\ n \notin made
      BY <1>2 DEF OnFile
    <3> QED BY <1>3, <1>7, <3>1
  <2>2. \A r \in Requests : request'[r] \in {request[r], Begun(mint)}
    BY <1>3 DEF TypeOK
  <2>3. RequestsCovered(cover)
    BY <1>5 DEF Covers
  <2> QED BY <2>1, <2>2, <2>3, RequestsKept
<1> QED BY <1>15, <1>17, <1>18, <1>19 DEF Covered, Covers

LEMMA MeltCovered ==
  ASSUME Bounded, FatesInv, TypeOK', BaseFeeNotRaised, Covered,
         NEW n \in Notes, Commit(n) \/ Release(n) \/ PayOut(n)
  PROVE  Covered'
<1> USE DEF FatesInv
<1>1. PICK to \in {"live", "committed", "paid"} :
        /\ fate[n] \in {"live", "committed"}
        /\ fate' = [fate EXCEPT ![n] = to]
        /\ UNCHANGED <<mint, record, asked, value, request>>
  BY DEF Commit, Release, PayOut, Move
<1>2. Held' = Held
  <2>1. \A m \in Notes : HeldNote(m)' <=> HeldNote(m)
    BY <1>1 DEF HeldNote, TypeOK
  <2>2. Held' = {m \in Notes : HeldNote(m)'}
    BY DEF Held, HeldNote, Owed, Outstanding, PaidOut, Notes
  <2> QED BY <2>1, <2>2, HeldNotes
<1>3. Paying' = Paying
  BY <1>1 DEF Paying
<1>4. \A m \in Notes : fate'[m] # "absent" <=> fate[m] # "absent"
  BY <1>1 DEF TypeOK
<1> QED BY <1>1, <1>2, <1>3, <1>4, StillCovered DEF Covered

\* A request that ends, new settings, or nothing at all.
LEMMA NotesUntouched ==
  ASSUME Bounded, FatesInv, TypeOK', BaseFeeNotRaised, Covered,
         UNCHANGED <<record, asked, fate, value>>,
         \A q \in Requests : request'[q] \in {request[q], Begun(mint)}
  PROVE  Covered'
<1>1. Held' = Held /\ Paying' = Paying
  BY DEF Held, Owed, Outstanding, PaidOut, Paying
<1> QED BY <1>1, StillCovered DEF FatesInv, Covered

CurrentNext == Next /\ BaseFeeNotRaised /\ ReadsAreCurrent

LEMMA StepCovered ==
  ASSUME Bounded, FatesInv, Covered, [CurrentNext]_vars
  PROVE  Covered'
<1>1. TypeOK'
  BY StepTyped DEF FatesInv, CurrentNext
<1>2. BaseFeeNotRaised
  BY ValueAssumption, SettingsFields DEF FatesInv, TypeOK, BaseFeeNotRaised, CurrentNext, vars
<1>3. ASSUME NEW q \in Requests, Begin(q)
      PROVE  Covered'
  <2>1. \A r \in Requests : request'[r] \in {request[r], Begun(mint)}
    BY <1>3 DEF Begin, FatesInv, TypeOK
  <2> QED BY <1>1, <1>2, <1>3, <2>1, NotesUntouched DEF Begin
<1>4. ASSUME NEW s \in Settings, UpdateMint(s)
      PROVE  Covered'
  BY <1>1, <1>2, <1>4, NotesUntouched DEF UpdateMint
<1>5. CASE UNCHANGED vars
  BY <1>1, <1>2, <1>5, NotesUntouched DEF vars
<1>6. ASSUME NEW q \in Requests, SwapStep(q)
      PROVE  Covered'
  <2>1. PICK values, outputs :
          /\ values \in Seq(Nat) /\ outputs \in [DOMAIN values -> Outputs]
          /\ Swap(q, values, outputs)
          /\ Works(q, values)
    BY <1>6, SwapsWork DEF FatesInv
  <2> QED BY <1>1, <1>2, <2>1, SwapCovered
<1>7. CASE CurrentNext
  BY <1>1, <1>2, <1>3, <1>4, <1>6, <1>7, PayCallbackCovered, InvoicePaidCovered,
     SettleMintCovered, ReadNoteCovered, MeltCovered DEF CurrentNext, Next, SwapStep
<1> QED BY <1>5, <1>7

LEMMA NotRaisedRefines == SpecNotRaised => Spec /\ [][CurrentNext]_vars
<1>1. [CurrentNext]_vars => [Next]_vars
  BY DEF CurrentNext
<1> QED BY <1>1, PTL DEF Spec, SpecNotRaised, CurrentNext

\* As long as the operator never raises the base fee, and lowers it while no
\* request is between its settings and its notes, no sequence of mints, splits,
\* merges, races of them and melts makes value: every note outstanding, owed or
\* paid out has left a base fee with the mint besides what it is worth.
THEOREM ValueIsNotMade ==
  IsFiniteSet(Invoices) /\ IsFiniteSet(Outputs) => (SpecNotRaised => []BaseFeePerNote)
<1> SUFFICES ASSUME Bounded
             PROVE  SpecNotRaised => []BaseFeePerNote
  BY DEF Bounded
<1> DEFINE Inv == FatesInv /\ Covered
<1>1. Init => Inv
  BY InitFates, InitCovered
<1>2. Inv /\ [CurrentNext]_vars => Inv'
  BY StepFates, StepCovered DEF CurrentNext
<1>3. Inv => BaseFeePerNote
  BY CoveredNotes DEF FatesInv
<1> QED BY <1>1, <1>2, <1>3, NotRaisedRefines, PTL DEF Spec

\* Where no setting has another base fee, no behaviour at all makes value.
THEOREM SteadyFeeMakesNoValue ==
  /\ \A s, t \in Settings : s.base_fee_msat = t.base_fee_msat
  /\ IsFiniteSet(Invoices)
  /\ IsFiniteSet(Outputs)
  => (Spec => []BaseFeePerNote)
<1> SUFFICES ASSUME \A s, t \in Settings : s.base_fee_msat = t.base_fee_msat,
                    IsFiniteSet(Invoices) /\ IsFiniteSet(Outputs)
             PROVE  Spec => []BaseFeePerNote
  OBVIOUS
<1>1. TypeOK /\ TypeOK' /\ [Next]_vars => [CurrentNext]_vars
  <2> SUFFICES ASSUME TypeOK, TypeOK', Next
               PROVE  BaseFeeNotRaised /\ ReadsAreCurrent
    BY DEF CurrentNext
  <2>1. mint \in Settings /\ mint' \in Settings /\ mint.base_fee_msat \in Nat
    BY ValueAssumption, SettingsFields DEF TypeOK
  <2>2. \A q \in Requests : request[q].mint \in Settings
    BY DEF TypeOK
  <2> QED BY <2>1, <2>2 DEF BaseFeeNotRaised, ReadsAreCurrent
<1>2. SpecNotRaised => []BaseFeePerNote
  BY ValueIsNotMade
<1> QED BY <1>1, <1>2, TypeCorrect, PTL DEF Spec, SpecNotRaised, CurrentNext

(***************************************************************************)
(* Solvency outright, where no payer is credited a fraction of a sat.      *)
(***************************************************************************)
WholeSats == \A amount \in PayAmounts : Fraction(amount) = 0

\* What a payer asked for is what some payer may ask for.
AskedIsPayable == \A i \in Invoices : asked[i] \in PayAmounts \cup {0}

LEMMA InitPayable ==
  ASSUME Init
  PROVE  AskedIsPayable
BY DEF Init, AskedIsPayable

LEMMA StepPayable ==
  ASSUME TypeOK, AskedIsPayable, [Next]_vars
  PROVE  AskedIsPayable'
<1>1. ASSUME NEW i \in Invoices, NEW amount \in PayAmounts, PayCallback(i, amount)
      PROVE  AskedIsPayable'
  BY <1>1 DEF AskedIsPayable, PayCallback, TypeOK
<1>2. CASE UNCHANGED asked
  BY <1>2 DEF AskedIsPayable
<1> QED BY <1>1, <1>2 DEF Next, vars, InvoicePaid, SettleMint, Begin, ReadNote, Split,
          Merge, Swap, Commit, Release, PayOut, Move, UpdateMint

LEMMA NoFractions ==
  ASSUME TypeOK, Bounded, WholeSats, AskedIsPayable
  PROVE  Fractions = 0
<1> DEFINE part == [i \in Invoices |-> Fraction(asked[i])]
           nothing == [i \in Invoices |-> 0]
<1>1. IsFiniteSet(Paying) /\ Paying \subseteq Invoices
  BY FS_Subset DEF Bounded, Paying
<1>2. \A i \in Paying : part[i] = 0
  BY <1>1 DEF WholeSats, AskedIsPayable, Fraction
<1>3. Fractions = SumFunctionOnSet(part, Paying)
  BY DEF Fractions
<1> HIDE DEF part
<1> QED BY <1>1, <1>2, <1>3, SumOfZeros

LEMMA CoveredIsSolvent ==
  ASSUME TypeOK, BaseFeePerNote, Bounded, WholeSats, AskedIsPayable
  PROVE  Solvent
<1>1. /\ IsFiniteSet(Held)
      /\ \A n \in Held : value[n] \in Nat
  BY HeldNotes DEF TypeOK
<1>2. ValueOf(Held) \in Nat /\ Cardinality(Held) \in Nat
  BY <1>1, SumInNat, FS_CardinalityType DEF ValueOf
<1>3. mint.base_fee_msat \in Nat
  BY ValueAssumption, SettingsFields DEF TypeOK
<1>4. Cardinality(Held) * mint.base_fee_msat \in Nat
  BY <1>2, <1>3
<1>5. Received \in Nat /\ Fractions = 0
  BY PaidInTyped, NoFractions
<1>6. ValueOf(Held) + Cardinality(Held) * mint.base_fee_msat <= Received + Fractions
  BY DEF BaseFeePerNote, Held
<1>7. ValueOf(Held) <= Received
  <2> DEFINE fees == Cardinality(Held) * mint.base_fee_msat
  <2>1. fees \in Nat /\ ValueOf(Held) + fees <= Received
    BY <1>4, <1>5, <1>6
  <2> HIDE DEF fees
  <2> QED BY <1>2, <1>5, <2>1
<1> QED BY <1>7 DEF Solvent, Held

\* With whole-sat amounts and a base fee that is never raised, nor lowered
\* under a request that is reading notes, the mint is never short: what was paid
\* in covers every note it owes, holds open or has paid out, whatever is split,
\* merged, raced and melted in between.
THEOREM MintIsNeverShort ==
  /\ WholeSats
  /\ IsFiniteSet(Invoices)
  /\ IsFiniteSet(Outputs)
  => (SpecNotRaised => []Solvent)
<1> SUFFICES ASSUME WholeSats, IsFiniteSet(Invoices) /\ IsFiniteSet(Outputs)
             PROVE  SpecNotRaised => []Solvent
  OBVIOUS
<1>1. TypeOK /\ BaseFeePerNote /\ AskedIsPayable => Solvent
  BY CoveredIsSolvent DEF Bounded
<1>2. SpecNotRaised => []BaseFeePerNote
  BY ValueIsNotMade
<1>3. TypeOK /\ AskedIsPayable /\ [Next]_vars => AskedIsPayable'
  BY StepPayable
<1> QED BY <1>1, <1>2, <1>3, InitPayable, TypeCorrect, NotRaisedRefines, PTL DEF Spec
=============================================================================
