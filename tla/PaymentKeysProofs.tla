-------------------------- MODULE PaymentKeysProofs --------------------------
(***************************************************************************)
(* Proofs about the nonces of a worker's calls to the chain (ChainCalls)   *)
(* and about payment keys (PaymentKeys).                                   *)
(***************************************************************************)
EXTENDS PaymentKeys, ChainCalls, TLAPS

-----------------------------------------------------------------------------
\* Calls to the chain.

CallRecord == [call: Nat \ {0}, step: {"idle", "send", "look"}, nonce: Nat, sends: Nat,
               nonce_refusals: Nat, refused: {"no", "other", "nonce"}]
InABlock(c) == place[c].at \in {"block", "executed"}

ChainTypeOK ==
    /\ key_nonce \in Nat /\ final_nonce \in Nat
    /\ sent \in [ChainLoops -> CallRecord]
    /\ \A l \in ChainLoops : sent[l].step # "idle" => sent[l].call <= CallsOf[l]
    /\ ended \in [ChainCallIds -> {"no", "executed", "other", "nonce", "window"}]
    /\ place \in [ChainCallIds -> [at: {"nowhere", "pool", "block", "executed"}, nonce: Nat]]
    /\ unseen \in [ChainCallIds -> 0..NodeLag]

\* A call that is still to come, or under way, has not ended, and one that is still to
\* come is nowhere on the chain.
CallsInOrder ==
    \A c \in ChainCallIds :
       /\ sent[c[1]].call <= c[2] => ended[c] = "no"
       /\ (sent[c[1]].call < c[2] \/ (sent[c[1]].call = c[2] /\ sent[c[1]].step = "idle")) => place[c].at = "nowhere"

\* A refusal for the nonce says that the key has moved on; of a transaction that is in
\* a block, refusals are counted only with looks that missed it.
Explained(l) ==
    /\ sent[l].step = "idle" => sent[l].refused = "no" /\ sent[l].nonce_refusals = 0
    /\ sent[l].step # "idle" =>
          /\ sent[l].nonce = place[InFlight(l)].nonce
          /\ sent[l].refused = "nonce" \/ sent[l].nonce_refusals > 0 => sent[l].nonce <= key_nonce
          /\ InABlock(InFlight(l)) => sent[l].nonce_refusals <= unseen[InFlight(l)]
RefusalsExplained == \A l \in ChainLoops : Explained(l)

ChainInv == ChainTypeOK /\ CallsInOrder /\ RefusalsExplained /\ NonceRefusalIsFinal

\* The call a loop has in hand is one of its calls.
LEMMA InFlightIsACall ==
    ASSUME ChainTypeOK, NEW l \in ChainLoops, sent[l].call <= CallsOf[l]
    PROVE  InFlight(l) \in ChainCallIds /\ InFlight(l)[1] = l /\ InFlight(l)[2] = sent[l].call
<1>1. sent[l].call \in 1..CallsOf[l]
  BY ChainCallsAssumption DEF ChainTypeOK, CallRecord
<1>2. InFlight(l) \in {<<l, n>> : n \in 1..CallsOf[l]}
  BY <1>1, Zenon DEF InFlight
<1> QED  BY <1>2, Zenon DEF ChainCallIds, InFlight

\* A call names its loop and its number.
LEMMA CallParts ==
    ASSUME NEW c \in ChainCallIds
    PROVE  c[1] \in ChainLoops /\ c[2] \in 1..CallsOf[c[1]] /\ c = <<c[1], c[2]>>
  BY DEF ChainCallIds

\* Before the first call nothing has been refused.
LEMMA ChainInitially == ChainInit => ChainInv
<1> SUFFICES ASSUME ChainInit PROVE ChainInv  OBVIOUS
<1>1. ChainTypeOK  BY ChainCallsAssumption DEF ChainInit, ChainTypeOK, CallRecord, NoChainCall
<1>2. CallsInOrder  BY Zenon DEF ChainInit, CallsInOrder
<1>3. RefusalsExplained  BY Zenon DEF ChainInit, RefusalsExplained, Explained, NoChainCall
<1>4. NonceRefusalIsFinal  BY Zenon DEF ChainInit, NonceRefusalIsFinal
<1> QED  BY <1>1, <1>2, <1>3, <1>4, Zenon DEF ChainInv

Places == [at: {"nowhere", "pool", "block", "executed"}, nonce: Nat]

\* A loop's step is about its call in hand; the calls of the other loops stand as they did.
LEMMA OthersStand ==
    ASSUME ChainInv, NEW l \in ChainLoops, UNCHANGED <<key_nonce, final_nonce>>,
           \A m \in ChainLoops \ {l} : sent'[m] = sent[m],
           \A d \in ChainCallIds \ {InFlight(l)} : place'[d] = place[d] /\ unseen'[d] = unseen[d],
           NEW m \in ChainLoops, m # l
    PROVE  Explained(m)'
<1>1. InFlight(m)' = InFlight(m) /\ InFlight(m) # InFlight(l)  BY Zenon DEF InFlight
<1>2. sent[m].step # "idle" => InFlight(m) \in ChainCallIds  BY InFlightIsACall, Zenon DEF ChainInv, ChainTypeOK
<1> QED  BY <1>1, <1>2 DEF ChainInv, Explained, RefusalsExplained, InABlock

\* Signing touches only the call in hand, which has not been sent.
LEMMA SignKeeps ==
    ASSUME ChainInv, NEW l \in ChainLoops, SignCall(l)
    PROVE  ChainInv'
<1> USE DEF ChainInv
<1> DEFINE c == InFlight(l)
<1>1. c \in ChainCallIds /\ c[1] = l /\ c[2] = sent[l].call  BY InFlightIsACall, Zenon DEF SignCall
<1>2. /\ sent' = [sent EXCEPT ![l].step = "send", ![l].nonce = final_nonce + 1]
      /\ place' = [place EXCEPT ![c].nonce = final_nonce + 1]
  BY Zenon DEF SignCall
<1>3. UNCHANGED <<key_nonce, final_nonce, ended, unseen>> /\ sent[l].step = "idle" /\ sent[l].call <= CallsOf[l]
  BY Zenon DEF SignCall
<1>4. sent[l] \in CallRecord /\ place[c] \in Places /\ final_nonce + 1 \in Nat
  BY <1>1 DEF ChainTypeOK, Places
<1>5. /\ \A m \in ChainLoops : sent'[m].call = sent[m].call /\ (m # l => sent'[m] = sent[m])
      /\ sent'[l].nonce = place'[c].nonce /\ sent'[l].step = "send"
      /\ sent'[l].refused = sent[l].refused /\ sent'[l].nonce_refusals = sent[l].nonce_refusals
      /\ \A d \in ChainCallIds : place'[d].at = place[d].at /\ (d # c => place'[d] = place[d])
      /\ InFlight(l)' = c
  BY <1>1, <1>2, <1>4, Zenon DEF ChainTypeOK, CallRecord, Places, InFlight
<1>6. ChainTypeOK'
  <2>1. sent' \in [ChainLoops -> CallRecord]  BY <1>2, <1>4, Zenon DEF ChainTypeOK, CallRecord
  <2>2. place' \in [ChainCallIds -> Places]  BY <1>1, <1>2, <1>4, Zenon DEF ChainTypeOK, Places
  <2> QED  BY <1>3, <1>5, <2>1, <2>2, Zenon DEF ChainTypeOK, Places
<1> HIDE DEF c
<1>7. place[c].at = "nowhere" /\ ended[c] = "no"
  BY <1>1, <1>3, <1>4 DEF CallsInOrder, CallRecord
<1>8. CallsInOrder'
  BY <1>1, <1>3, <1>4, <1>5, <1>7, CallParts DEF CallsInOrder
<1>9. Explained(l)'
  BY <1>1, <1>3, <1>5, <1>7 DEF InABlock, Explained, RefusalsExplained
<1>10. RefusalsExplained'
  BY <1>3, <1>5, <1>9, OthersStand, Zenon DEF RefusalsExplained, c
<1>11. NonceRefusalIsFinal'
  BY <1>3, <1>5, <1>7, Zenon DEF NonceRefusalIsFinal
<1> QED  BY <1>6, <1>8, <1>10, <1>11, Zenon

\* Sending: a refusal for the nonce is true of the key, and a transaction reaches the
\* pool but no block.
LEMMA SendKeeps ==
    ASSUME ChainInv, NEW l \in ChainLoops, SendRound(l)
    PROVE  ChainInv'
<1> USE DEF ChainInv
<1> DEFINE c == InFlight(l)
<1>1. c \in ChainCallIds /\ c[1] = l /\ c[2] = sent[l].call
  BY InFlightIsACall, Zenon DEF SendRound, ChainTypeOK
<1>2. PICK answer \in SendAnswers(l) :
         /\ sent' = [sent EXCEPT ![l].step = "look", ![l].sends = @ + 1, ![l].refused = answer]
         /\ \/ UNCHANGED place
            \/ /\ answer = "no" /\ place[c].at = "nowhere"
               /\ place' = [place EXCEPT ![c].at = "pool"]
  BY Zenon DEF SendRound
<1>3. UNCHANGED <<key_nonce, final_nonce, ended, unseen>> /\ sent[l].step = "send"
  BY Zenon DEF SendRound
<1>4. sent[l] \in CallRecord /\ place[c] \in Places
  BY <1>1, Zenon DEF ChainTypeOK, Places
<1>5. answer \in {"no", "other", "nonce"} /\ (answer = "nonce" => sent[l].nonce <= key_nonce)
  BY Zenon DEF SendAnswers
<1>6. /\ \A m \in ChainLoops : sent'[m].call = sent[m].call /\ (m # l => sent'[m] = sent[m])
      /\ sent'[l].nonce = sent[l].nonce /\ sent'[l].step = "look"
      /\ sent'[l].refused = answer /\ sent'[l].nonce_refusals = sent[l].nonce_refusals
      /\ InFlight(l)' = c
  BY <1>1, <1>2, <1>4, Zenon DEF ChainTypeOK, CallRecord, InFlight
<1>7. \A d \in ChainCallIds : place'[d].nonce = place[d].nonce /\ (InABlock(d)' <=> InABlock(d)) /\ (d # c => place'[d] = place[d])
  BY <1>1, <1>2, <1>4 DEF ChainTypeOK, Places, InABlock
<1>8. ChainTypeOK'
  <2>1. sent' \in [ChainLoops -> CallRecord]  BY <1>2, <1>4, <1>5 DEF ChainTypeOK, CallRecord
  <2>2. place' \in [ChainCallIds -> Places]  BY <1>1, <1>2, <1>4 DEF ChainTypeOK, Places
  <2> QED  BY <1>3, <1>6, <2>1, <2>2, Zenon DEF ChainTypeOK, Places
<1> HIDE DEF c
<1>9. ended[c] = "no"
  BY <1>1, <1>4 DEF CallsInOrder, CallRecord
<1>10. CallsInOrder'
  BY <1>1, <1>3, <1>4, <1>6, <1>7, CallParts DEF CallsInOrder, CallRecord
<1>11. Explained(l)'
  BY <1>1, <1>3, <1>4, <1>5, <1>6, <1>7 DEF Explained, RefusalsExplained, CallRecord, c
<1>12. RefusalsExplained'
  BY <1>3, <1>6, <1>7, <1>11, OthersStand, Zenon DEF RefusalsExplained, c
<1>13. NonceRefusalIsFinal'
  BY <1>3, <1>7, <1>9, Zenon DEF NonceRefusalIsFinal, InABlock
<1> QED  BY <1>8, <1>10, <1>12, <1>13, Zenon

\* Looking: a transaction in a block is missed fewer times than refusals are counted,
\* so a call that is given up for its nonce is in none.
LEMMA LookKeeps ==
    ASSUME ChainInv, NEW l \in ChainLoops, LookRound(l)
    PROVE  ChainInv'
<1> USE DEF ChainInv
<1> DEFINE c == InFlight(l)
<1>1. c \in ChainCallIds /\ c[1] = l /\ c[2] = sent[l].call
  BY InFlightIsACall, Zenon DEF LookRound, ChainTypeOK
<1>2. PICK answer \in LookAnswers(c) :
         /\ IF answer = "executed" THEN EndCall(l, "executed")
            ELSE IF GiveUp(l, answer = "unknown") THEN EndCall(l, sent[l].refused)
            ELSE IF sent[l].sends = FollowRounds THEN EndCall(l, "window")
            ELSE /\ sent' = [sent EXCEPT ![l].step = "send",
                                         ![l].nonce_refusals = NonceRefusals(l, answer = "unknown")]
                 /\ UNCHANGED ended
         /\ unseen' = IF answer = "unknown" /\ place[c].at \in {"block", "executed"}
                      THEN [unseen EXCEPT ![c] = @ + 1] ELSE unseen
  BY Zenon DEF LookRound
<1>3. UNCHANGED <<key_nonce, final_nonce, place>> /\ sent[l].step = "look"
  BY Zenon DEF LookRound
<1>4. sent[l] \in CallRecord /\ place[c] \in Places /\ unseen[c] \in 0..NodeLag /\ key_nonce \in Nat
  BY <1>1, Zenon DEF ChainTypeOK, Places
<1> DEFINE counted == NonceRefusals(l, answer = "unknown")
<1>5. /\ unseen' \in [ChainCallIds -> 0..NodeLag]
      /\ \A d \in ChainCallIds \ {c} : unseen'[d] = unseen[d]
      /\ IF answer = "unknown" /\ InABlock(c) THEN unseen'[c] = unseen[c] + 1 ELSE unseen'[c] = unseen[c]
  <2>1. answer = "unknown" /\ InABlock(c) => unseen[c] < NodeLag
    BY <1>2, Zenon DEF LookAnswers, InABlock
  <2> QED  BY <1>1, <1>2, <1>4, <2>1, ChainCallsAssumption DEF ChainTypeOK, InABlock
<1>6. Explained(l)  BY Zenon DEF RefusalsExplained
<1>7. /\ counted \in Nat /\ (counted > 0 => sent[l].refused = "nonce" /\ sent[l].nonce <= key_nonce)
      /\ InABlock(c) => counted <= unseen'[c]
  BY <1>1, <1>3, <1>4, <1>5, <1>6 DEF NonceRefusals, Explained, CallRecord
<1>8. ASSUME NEW how \in {"executed", "other", "nonce", "window"}, EndCall(l, how),
             how = "nonce" => ~InABlock(c) /\ place[c].nonce <= key_nonce
      PROVE  ChainInv'
  <2>1. /\ \A m \in ChainLoops \ {l} : sent'[m] = sent[m]
        /\ sent'[l] = NoChainCall(sent[l].call + 1)
    BY <1>8, Zenon DEF EndCall, ChainTypeOK
  <2>2. ended' = [ended EXCEPT ![c] = how]  BY <1>8, Zenon DEF EndCall
  <2>3. sent'[l] \in CallRecord /\ sent'[l].call = sent[l].call + 1 /\ sent'[l].step = "idle" /\ sent[l].call \in Nat
        /\ sent'[l].refused = "no" /\ sent'[l].nonce_refusals = 0
    BY <1>4, <2>1 DEF NoChainCall, CallRecord
  <2>4. ChainTypeOK'
    <3>1. sent' \in [ChainLoops -> CallRecord]
      <4>1. sent' = [m \in ChainLoops |-> sent'[m]]  BY <1>8, Zenon DEF EndCall, ChainTypeOK
      <4> QED  BY <4>1, <2>1, <2>3, Zenon DEF ChainTypeOK
    <3>2. ended' \in [ChainCallIds -> {"no", "executed", "other", "nonce", "window"}]
      BY <1>1, <2>2, Zenon DEF ChainTypeOK
    <3> QED  BY <1>3, <1>5, <2>1, <2>3, <3>1, <3>2, Zenon DEF ChainTypeOK, Places
  <2> HIDE DEF c
  <2>5. CallsInOrder'
    <3> SUFFICES ASSUME NEW d \in ChainCallIds
                 PROVE  /\ sent'[d[1]].call <= d[2] => ended'[d] = "no"
                        /\ (sent'[d[1]].call < d[2] \/ (sent'[d[1]].call = d[2] /\ sent'[d[1]].step = "idle")) => place'[d].at = "nowhere"
      BY Zenon DEF CallsInOrder
    <3>1. d[1] \in ChainLoops /\ d[2] \in Nat  BY CallParts, ChainCallsAssumption
    <3>2. CASE d[1] # l
      BY <3>1, <3>2, <1>1, <1>3, <2>1, <2>2 DEF CallsInOrder, ChainTypeOK
    <3>3. CASE d[1] = l
      BY <3>1, <3>3, <1>1, <1>3, <2>2, <2>3 DEF CallsInOrder, ChainTypeOK
    <3> QED  BY <3>2, <3>3, Zenon
  <2>6. RefusalsExplained'
    <3>1. Explained(l)'  BY <2>3, Zenon DEF Explained
    <3>2. \A m \in ChainLoops \ {l} : Explained(m)'
      BY OthersStand, <1>3, <1>5, <2>1, Zenon DEF c
    <3> QED  BY <3>1, <3>2, Zenon DEF RefusalsExplained
  <2>7. NonceRefusalIsFinal'
    BY <1>1, <1>3, <1>8, <2>2, Zenon DEF NonceRefusalIsFinal, InABlock, ChainTypeOK
  <2> QED  BY <2>4, <2>5, <2>6, <2>7, Zenon
<1>9. CASE GiveUp(l, answer = "unknown") /\ EndCall(l, sent[l].refused)
  <2>1. sent[l].refused = "other" \/ counted >= NonceRefusalRounds
    BY <1>9, Zenon DEF GiveUp
  <2>2. CASE sent[l].refused = "other"  BY <1>8, <1>9, <2>2, Zenon
  <2>3. CASE counted >= NonceRefusalRounds
    <3>1. counted > 0 /\ counted > NodeLag  BY <2>3, <1>7, ChainCallsAssumption
    <3>2. ~InABlock(c)  BY <3>1, <1>1, <1>5, <1>7, ChainCallsAssumption
    <3>3. sent[l].refused = "nonce" /\ place[c].nonce <= key_nonce
      BY <3>1, <1>3, <1>6, <1>7, Zenon DEF Explained
    <3> QED  BY <1>8, <1>9, <3>2, <3>3, Zenon
  <2> QED  BY <2>1, <2>2, <2>3, Zenon
<1>10. CASE /\ sent' = [sent EXCEPT ![l].step = "send", ![l].nonce_refusals = counted]
            /\ UNCHANGED ended
  <2> HIDE DEF counted
  <2>1. /\ \A m \in ChainLoops : sent'[m].call = sent[m].call /\ (m # l => sent'[m] = sent[m])
        /\ sent'[l].nonce = sent[l].nonce /\ sent'[l].step = "send"
        /\ sent'[l].refused = sent[l].refused /\ sent'[l].nonce_refusals = counted
        /\ InFlight(l)' = c
    BY <1>1, <1>4, <1>10, Zenon DEF ChainTypeOK, CallRecord, InFlight
  <2>2. sent' \in [ChainLoops -> CallRecord]  BY <1>4, <1>7, <1>10, Zenon DEF ChainTypeOK, CallRecord
  <2>3. UNCHANGED ended  BY <1>10, Zenon
  <2>4. ChainTypeOK'  BY <1>3, <1>5, <2>1, <2>2, <2>3, Zenon DEF ChainTypeOK, Places
  <2> HIDE DEF c
  <2>5. CallsInOrder'
    BY <1>3, <1>4, <2>1, <2>3, CallParts, Zenon DEF CallsInOrder
  <2>6. Explained(l)'
    BY <1>3, <1>4, <1>6, <1>7, <2>1, Zenon DEF Explained, InABlock, c
  <2>7. RefusalsExplained'
    BY <1>3, <1>5, <2>1, <2>6, OthersStand, Zenon DEF RefusalsExplained, c
  <2>8. NonceRefusalIsFinal'  BY <1>3, <2>3, Zenon DEF NonceRefusalIsFinal
  <2> QED  BY <2>4, <2>5, <2>7, <2>8, Zenon
<1>11. CASE EndCall(l, "executed") \/ EndCall(l, "window")
  BY <1>8, <1>11, Zenon
<1> QED  BY <1>2, <1>9, <1>10, <1>11, Zenon

\* What the chain does by itself: the key's nonce only grows, and a transaction enters a
\* block only above it.
LEMMA ChainMovesKeep ==
    ASSUME ChainInv,
           FinalBlock \/ \E c \in ChainCallIds : IncludeTx(c) \/ DropTx(c) \/ ExecuteTx(c)
    PROVE  ChainInv'
<1> USE DEF ChainInv
<1>1. CASE FinalBlock
  BY <1>1, Zenon DEF FinalBlock, ChainTypeOK, CallsInOrder, RefusalsExplained, Explained, InFlight, InABlock, NonceRefusalIsFinal
<1>2. ASSUME NEW c \in ChainCallIds, IncludeTx(c) \/ DropTx(c) \/ ExecuteTx(c)
      PROVE  ChainInv'
  <2>1. UNCHANGED <<final_nonce, sent, ended, unseen>> /\ key_nonce' \in Nat /\ key_nonce' >= key_nonce
    BY <1>2 DEF IncludeTx, DropTx, ExecuteTx, ChainTypeOK
  <2>2. place[c] \in Places  BY Zenon DEF ChainTypeOK, Places
  <2>3. /\ place' \in [ChainCallIds -> Places]
        /\ \A d \in ChainCallIds : place'[d].nonce = place[d].nonce /\ (d # c => place'[d] = place[d])
        /\ place[c].at # "nowhere"
        /\ InABlock(c)' => InABlock(c) \/ place[c].nonce > key_nonce
    BY <1>2, <2>2 DEF IncludeTx, DropTx, ExecuteTx, ChainTypeOK, Places, InABlock
  <2>4. ChainTypeOK'  BY <2>1, <2>3, Zenon DEF ChainTypeOK, Places
  <2>5. CallsInOrder'  BY <2>1, <2>3 DEF CallsInOrder
  <2>6. RefusalsExplained'
    <3> SUFFICES ASSUME NEW m \in ChainLoops PROVE Explained(m)'  BY Zenon DEF RefusalsExplained
    <3>1. InFlight(m)' = InFlight(m)  BY <2>1, Zenon DEF InFlight
    <3>2. sent[m].step # "idle" => InFlight(m) \in ChainCallIds  BY InFlightIsACall, Zenon DEF ChainTypeOK
    <3>3. Explained(m) /\ sent[m] \in CallRecord  BY Zenon DEF RefusalsExplained, ChainTypeOK
    <3>4. sent[m].step # "idle" =>
             /\ place[InFlight(m)].nonce \in Nat /\ unseen[InFlight(m)] \in 0..NodeLag
             /\ InABlock(InFlight(m))' => InABlock(InFlight(m)) \/ place[InFlight(m)].nonce > key_nonce
      <4>1. \A d \in ChainCallIds : InABlock(d)' => InABlock(d) \/ place[d].nonce > key_nonce
        BY <2>3, Zenon DEF InABlock
      <4> QED  BY <3>1, <3>2, <4>1, Zenon DEF ChainTypeOK, InABlock
    <3> QED  BY <2>1, <2>3, <3>1, <3>2, <3>3, <3>4, ChainCallsAssumption DEF Explained, CallRecord, ChainTypeOK
  <2>7. NonceRefusalIsFinal'
    BY <2>1, <2>2, <2>3 DEF NonceRefusalIsFinal, InABlock, ChainTypeOK, Places
  <2> QED  BY <2>4, <2>5, <2>6, <2>7, Zenon
<1> QED  BY <1>1, <1>2, Zenon

\* A call that the worker gives up for its nonce (send_and_follow_within) is not in a block
\* and can enter none, whatever the other loop sends and however the nodes lag, as long
\* as they lag fewer rounds than a refusal is looked at.
THEOREM NonceRefusalIsAlwaysFinal == ChainSpec => []NonceRefusalIsFinal
<1>1. ChainInv /\ [ChainNext]_chainVars => ChainInv'
  <2> SUFFICES ASSUME ChainInv, [ChainNext]_chainVars PROVE ChainInv'  OBVIOUS
  <2>1. CASE UNCHANGED chainVars
    BY <2>1, Zenon DEF chainVars, ChainInv, ChainTypeOK, CallsInOrder, RefusalsExplained, Explained, InFlight, InABlock, NonceRefusalIsFinal
  <2> QED  BY <2>1, SignKeeps, SendKeeps, LookKeeps, ChainMovesKeep, Zenon DEF ChainNext
<1> QED  BY <1>1, ChainInitially, PTL DEF ChainSpec, ChainInv

-----------------------------------------------------------------------------
\* Payment keys.

\* The key string of a blob is the one its nonce was created with.  A key older than the
\* nonce floor is left out: after delete_secrets its nonce is free again.
Genuine(n, blob) ==
    /\ blob \in Blobs /\ n \in DOMAIN minted
    /\ n \notin Legacy => blob.secret = minted[n]

MintedUnderFloor == \A n \in DOMAIN minted \ Legacy : n <= floor
KeysGenuine == \A n \in DOMAIN keys : Genuine(n, keys[n])

\* A task is about the yield it was announced with, for as long as there is one.
TaskFits(t) ==
    /\ t.id < next_id
    /\ t.kind = "topup" => Genuine(t.nonce, t.blob)
    /\ t.kind = "delete" => t.id # 0
    /\ t.id \in DOMAIN yields => yields[t.id].kind = t.kind /\ yields[t.id].nonce = t.nonce
TasksFit ==
    /\ \A t \in tasks : TaskFits(t)
    /\ \A w \in Workers : workers[w].task # None => TaskFits(workers[w].task)
    /\ \A w \in Workers : workers[w].tx # "none" =>
          workers[w].task # None /\ workers[w].task.kind = "topup" /\ workers[w].task.id # 0

\* So is an answer that was given, or is on its way.
AnswerFits(id, a) ==
    /\ id < next_id
    /\ id \in DOMAIN yields /\ yields[id].kind = "topup" /\ a.tag = "success" => Genuine(yields[id].nonce, a.blob)
AnswersFit ==
    /\ \A x \in loose : AnswerFits(x.id, x.answer) /\ x.answer.tag # "waiting"
    /\ \A id \in DOMAIN yields :
          /\ AnswerFits(id, yields[id].answer)
          /\ yields[id].answer.tag = "waiting" => yields[id].answer = Waiting

\* A yield whose success was taken or credited can end in nothing else.
Decided(id) ==
    /\ id < next_id
    /\ id \in DOMAIN yields => yields[id].answer.tag = "success"
    /\ id \in DOMAIN settled => settled[id] \notin {"error", "timeout"}
Taken(w) == workers[w].tx = "taken"
TakenOnce ==
    /\ \A id \in DOMAIN yields : id \notin DOMAIN settled
    /\ \A w \in Workers : Taken(w) => Decided(workers[w].task.id) /\ workers[w].task.id \notin DOMAIN credited
    /\ \A v, w \in Workers : Taken(v) /\ Taken(w) /\ workers[v].task.id = workers[w].task.id => v = w
    /\ \A id \in DOMAIN credited : credited[id] = 1 /\ Decided(id)

PaymentInv == TypeOK /\ MintedUnderFloor /\ KeysGenuine /\ TasksFit /\ AnswersFit /\ TakenOnce

YieldRecord == [kind: {"topup", "delete"}, nonce: Nonces, amount: Nat, answer: Answers]
WorkerRecord == [task: Tasks \cup {None}, tx: {"none", "sent", "taken", "refused"}]

\* What an insertion leaves of a map.
LEMMA PutFacts ==
    ASSUME NEW f, NEW k, NEW v
    PROVE  /\ DOMAIN Put(f, k, v) = DOMAIN f \cup {k}
           /\ Put(f, k, v)[k] = v
           /\ \A x \in DOMAIN f : x # k => Put(f, k, v)[x] = f[x]
  BY Zenon DEF Put

\* Writing a row keeps a table a table of its rows.
LEMMA PutType ==
    ASSUME NEW f, NEW S, f \in [DOMAIN f -> S], NEW k, NEW v \in S
    PROVE  Put(f, k, v) \in [DOMAIN Put(f, k, v) -> S]
  BY Zenon DEF Put

\* What a removal leaves of a map.
LEMMA DropFacts ==
    ASSUME NEW f, NEW k
    PROVE  /\ DOMAIN Drop(f, k) = DOMAIN f \ {k}
           /\ \A x \in DOMAIN f : x # k => Drop(f, k)[x] = f[x]
  BY Zenon DEF Drop

\* So does removing one.
LEMMA DropType ==
    ASSUME NEW f, NEW S, f \in [DOMAIN f -> S], NEW k
    PROVE  Drop(f, k) \in [DOMAIN Drop(f, k) -> S]
  BY Zenon DEF Drop

\* The empty tables satisfy the invariant.
LEMMA PaymentInitially == Init => PaymentInv
<1> SUFFICES ASSUME Init PROVE PaymentInv  OBVIOUS
<1>1. keys \in [Legacy -> Blobs] /\ DOMAIN keys = Legacy /\ Legacy \subseteq Nonces
  BY PaymentKeysAssumption DEF Init, Blobs
<1>2. TypeOK
  BY <1>1, PaymentKeysAssumption DEF Init, TypeOK, EmptyMap, Idle, Blobs
<1>3. KeysGenuine /\ MintedUnderFloor
  BY <1>1, Zenon DEF Init, KeysGenuine, MintedUnderFloor, Genuine
<1>4. TasksFit /\ AnswersFit /\ TakenOnce
  BY Zenon DEF Init, TasksFit, AnswersFit, TakenOnce, Taken, Idle, EmptyMap
<1> QED  BY <1>2, <1>3, <1>4, Zenon DEF PaymentInv

\* A new key's nonce lies above the floor, so no blob of another key of that nonce is
\* anywhere.
LEMMA StoreKeeps ==
    ASSUME PaymentInv, NEW n \in Nonces, NEW s \in Secrets, StoreSecrets(n, s)
    PROVE  PaymentInv'
<1> USE DEF PaymentInv
<1> DEFINE blob == [secret |-> s, balance |-> 0]
           task == [kind |-> "topup", id |-> 0, nonce |-> n, amount |-> 0, blob |-> blob]
<1>1. /\ keys' = Put(keys, n, blob) /\ minted' = Put(minted, n, s) /\ floor' = RaisedTo(n)
      /\ tasks' = tasks \cup {task} /\ NonceFree(n)
      /\ UNCHANGED <<yields, next_id, workers, loose, rows, settled, credited>>
  <2>1. keys' = Put(keys, n, blob) /\ Put(keys, n, blob)[n] = blob  BY Zenon DEF StoreSecrets, Put
  <2> QED  BY <2>1, Zenon DEF StoreSecrets, history
<1>2. blob \in Blobs /\ task \in Tasks /\ n \in Nat /\ floor \in Nat
  BY PaymentKeysAssumption DEF Blobs, Tasks, TypeOK, Nonces
<1> HIDE DEF blob
<1>3. /\ DOMAIN keys' = DOMAIN keys \cup {n} /\ keys'[n] = blob
      /\ \A m \in DOMAIN keys : m # n => keys'[m] = keys[m]
      /\ DOMAIN minted' = DOMAIN minted \cup {n} /\ minted'[n] = s
      /\ \A m \in DOMAIN minted : m # n => minted'[m] = minted[m]
  BY <1>1, Zenon DEF Put
<1>4. TypeOK'
  <2>1. keys' \in [DOMAIN keys' -> Blobs] /\ minted' \in [DOMAIN minted' -> Secrets]
    BY <1>1, <1>2, PutType, Zenon DEF TypeOK
  <2>2. floor' \in Nat  BY <1>1, <1>2, Zenon DEF RaisedTo
  <2> QED  BY <1>1, <1>2, <1>3, <2>1, <2>2, Zenon DEF TypeOK
<1>5. \A m \in DOMAIN minted \ Legacy : m # n
  BY <1>1, <1>2 DEF NonceFree, MintedUnderFloor, TypeOK, Nonces
<1>6. \A m, b : Genuine(m, b) => Genuine(m, b)'
  BY <1>3, <1>5, Zenon DEF Genuine
<1>7. MintedUnderFloor'
  BY <1>1, <1>2, <1>3, PaymentKeysAssumption DEF MintedUnderFloor, RaisedTo, TypeOK, Nonces
<1>8. Genuine(n, blob)'
  BY <1>2, <1>3, Zenon DEF Genuine, blob
<1>9. KeysGenuine'
  BY <1>3, <1>6, <1>8, Zenon DEF KeysGenuine
<1>10. \A t : TaskFits(t) => TaskFits(t)'
  BY <1>1, <1>6, Zenon DEF TaskFits
<1>11. TaskFits(task)'
  BY <1>1, <1>8 DEF TaskFits, TypeOK
<1>12. TasksFit'
  BY <1>1, <1>10, <1>11, Zenon DEF TasksFit
<1>13. AnswersFit'
  BY <1>1, <1>6, Zenon DEF AnswersFit, AnswerFits
<1>14. TakenOnce'
  BY <1>1, Zenon DEF TakenOnce, Decided, Taken
<1> QED  BY <1>4, <1>7, <1>9, <1>12, <1>13, <1>14, Zenon

\* delete_secrets of a payment key: the row goes, the floor stays as it is.
LEMMA DeleteKeeps ==
    ASSUME PaymentInv, NEW n \in Nonces, DeleteSecrets(n)
    PROVE  PaymentInv'
<1> USE DEF PaymentInv
<1>1. keys' = Drop(keys, n) /\ UNCHANGED <<floor, minted, yields, next_id, tasks, workers, loose, rows, settled, credited>>
  BY Zenon DEF DeleteSecrets, history
<1>2. DOMAIN keys' = DOMAIN keys \ {n} /\ \A m \in DOMAIN keys' : keys'[m] = keys[m]
  BY <1>1, Zenon DEF Drop
<1>3. TypeOK'  BY <1>1, <1>2, DropType, Zenon DEF TypeOK
<1>4. KeysGenuine'  BY <1>1, <1>2, Zenon DEF KeysGenuine, Genuine
<1> QED  BY <1>1, <1>3, <1>4, Zenon DEF MintedUnderFloor, TasksFit, TaskFits, AnswersFit, AnswerFits, Genuine, TakenOnce, Decided, Taken

\* A new yield has a number of its own, so nothing that is under way is about it.
LEMMA AnnounceKeeps ==
    ASSUME PaymentInv, NEW kind \in {"topup", "delete"}, NEW n \in Nonces, NEW amount \in Nat, NEW blob \in Blobs \cup {None},
           kind = "topup" => Genuine(n, blob), Announce(kind, n, amount, blob)
    PROVE  PaymentInv'
<1> USE DEF PaymentInv
<1> DEFINE yield == [kind |-> kind, nonce |-> n, amount |-> amount, answer |-> Waiting]
           task == [kind |-> kind, id |-> next_id, nonce |-> n, amount |-> amount, blob |-> blob]
<1>1. /\ yields' = Put(yields, next_id, yield) /\ next_id' = next_id + 1 /\ tasks' = tasks \cup {task}
      /\ UNCHANGED <<keys, floor, minted, workers, loose, rows, settled, credited>>
  BY Zenon DEF Announce, contract, history
<1>2. yield \in YieldRecord /\ task \in Tasks /\ next_id \in Nat \ {0}
  BY Zenon DEF YieldRecord, Tasks, TypeOK, Waiting, Answer, Answers
<1>3. yield.kind = kind /\ yield.nonce = n /\ yield.answer = Waiting /\ Waiting.tag = "waiting"
      /\ task.id = next_id /\ task.kind = kind /\ task.nonce = n /\ task.blob = blob
  BY Zenon DEF Waiting, Answer
<1> HIDE DEF yield, task
<1>4. /\ DOMAIN yields' = DOMAIN yields \cup {next_id} /\ yields'[next_id] = yield
      /\ \A i \in DOMAIN yields : i # next_id => yields'[i] = yields[i]
  BY <1>1, Zenon DEF Put
<1>5. next_id \notin DOMAIN yields /\ next_id \notin DOMAIN settled /\ next_id \notin DOMAIN credited
  BY <1>2 DEF TypeOK
<1>6. TypeOK'
  <2>1. yields' \in [DOMAIN yields' -> YieldRecord]
    BY <1>1, <1>2, PutType, Zenon DEF TypeOK, YieldRecord
  <2> QED  BY <1>1, <1>2, <1>4, <2>1 DEF TypeOK, YieldRecord
<1>7. \A m, b : Genuine(m, b)' <=> Genuine(m, b)  BY <1>1, Zenon DEF Genuine
<1>8. TasksFit'
  <2>1. \A t \in Tasks : TaskFits(t) => TaskFits(t)'
    BY <1>1, <1>2, <1>4, <1>7 DEF TaskFits, Tasks
  <2>2. ASSUME NEW t, t = task  PROVE TaskFits(t)'
    BY <1>1, <1>2, <1>3, <1>4, <1>7, <2>2 DEF TaskFits
  <2> QED  BY <1>1, <2>1, <2>2, Zenon DEF TasksFit, TypeOK
<1>9. AnswersFit'
  <2>1. \A i \in Nat : \A a : AnswerFits(i, a) => AnswerFits(i, a)'
    BY <1>1, <1>2, <1>4, <1>7 DEF AnswerFits
  <2>2. ASSUME NEW i, i = next_id  PROVE AnswerFits(i, Waiting)'
    BY <1>1, <1>2, <1>3, <2>2 DEF AnswerFits, Waiting, Answer
  <2>3. \A x \in loose : x.id \in Nat  BY Zenon DEF TypeOK
  <2>4. \A i \in DOMAIN yields : i \in Nat /\ i # next_id  BY <1>5 DEF TypeOK
  <2>5. \A x \in loose' : AnswerFits(x.id, x.answer)' /\ x.answer.tag # "waiting"
    BY <1>1, <2>1, <2>3, Zenon DEF AnswersFit
  <2>6. ASSUME NEW i \in DOMAIN yields', NEW a, a = yields'[i].answer
        PROVE  AnswerFits(i, a)' /\ (a.tag = "waiting" => a = Waiting)
    <3>1. CASE i = next_id  BY <1>3, <1>4, <2>2, <2>6, <3>1, Zenon
    <3>2. CASE i \in DOMAIN yields  BY <1>4, <2>1, <2>4, <2>6, <3>2, Zenon DEF AnswersFit
    <3> QED  BY <1>4, <3>1, <3>2, Zenon
  <2> QED  BY <2>5, <2>6, Zenon DEF AnswersFit, Waiting, Answer
<1>10. TakenOnce'
  <2>1. \A i \in Nat : Decided(i) => Decided(i)'
    BY <1>1, <1>2, <1>4 DEF Decided
  <2>2. \A w \in Workers : Taken(w) => workers[w].task.id \in Nat
    BY Zenon DEF TypeOK, TasksFit, Tasks, Taken
  <2> QED  BY <1>1, <1>4, <1>5, <2>1, <2>2 DEF TakenOnce, Taken, TypeOK
<1> QED  BY <1>1, <1>6, <1>7, <1>8, <1>9, <1>10, Zenon DEF MintedUnderFloor, KeysGenuine

\* A callback ends its yield.
LEMMA YieldGone ==
    ASSUME PaymentInv, NEW id \in DOMAIN yields, yields' = Drop(yields, id), UNCHANGED <<minted, next_id, tasks, workers, loose>>
    PROVE  /\ DOMAIN yields' = DOMAIN yields \ {id}
           /\ yields' \in [DOMAIN yields' -> YieldRecord]
           /\ TasksFit' /\ AnswersFit'
<1> USE DEF PaymentInv
<1>1. DOMAIN yields' = DOMAIN yields \ {id} /\ \A i \in DOMAIN yields' : yields'[i] = yields[i]
  BY Zenon DEF Drop
<1>2. yields' \in [DOMAIN yields' -> YieldRecord]  BY DropType, Zenon DEF TypeOK, YieldRecord
<1>3. \A m, b : Genuine(m, b)' <=> Genuine(m, b)  BY Zenon DEF Genuine
<1>4. \A t : TaskFits(t) => TaskFits(t)'  BY <1>1, <1>3, Zenon DEF TaskFits
<1>5. \A i, a : AnswerFits(i, a) => AnswerFits(i, a)'  BY <1>1, <1>3, Zenon DEF AnswerFits
<1>6. TasksFit'  BY <1>4, Zenon DEF TasksFit
<1>7. AnswersFit'  BY <1>1, <1>5, Zenon DEF AnswersFit
<1> QED  BY <1>1, <1>2, <1>6, <1>7, Zenon

\* on_top_up_response writes the blob of the answer, which is the key's own.
LEMMA TopUpSettles ==
    ASSUME PaymentInv, NEW id \in DOMAIN yields, OnTopUpResponse(id)
    PROVE  PaymentInv'
<1> USE DEF PaymentInv
<1> DEFINE y == yields[id]
<1>1. /\ y.answer # Waiting /\ y.kind = "topup"
      /\ keys' = IF TopUpOutcome(y) = "accepted" THEN Put(keys, y.nonce, y.answer.blob) ELSE keys
      /\ settled' = Put(settled, id, TopUpOutcome(y)) /\ yields' = Drop(yields, id)
      /\ UNCHANGED <<floor, minted, next_id, tasks, workers, loose, rows, credited>>
  BY Zenon DEF OnTopUpResponse, Answered
<1>2. y \in YieldRecord /\ y.answer \in Answers /\ y.nonce \in Nonces /\ id \in Nat \ {0} /\ id < next_id /\ next_id \in Nat
  BY DEF TypeOK, YieldRecord
<1>3. AnswerFits(id, y.answer) /\ y.answer.tag # "waiting" /\ id \notin DOMAIN settled
  BY <1>1, Zenon DEF AnswersFit, TakenOnce
<1>4. /\ TopUpOutcome(y) \in {"accepted", "missing", "error", "timeout"}
      /\ TopUpOutcome(y) = "accepted" => y.nonce \in DOMAIN keys /\ y.answer.tag = "success"
      /\ y.answer.tag = "success" => TopUpOutcome(y) \notin {"error", "timeout"}
  BY <1>2, <1>3, Zenon DEF TopUpOutcome, Answers
<1>5. TopUpOutcome(y) = "accepted" => Genuine(y.nonce, y.answer.blob)
  BY <1>1, <1>3, <1>4, Zenon DEF AnswerFits
<1> HIDE DEF y
<1>6. \A m, b : Genuine(m, b)' <=> Genuine(m, b)  BY <1>1, Zenon DEF Genuine
<1>7. /\ DOMAIN keys' = DOMAIN keys /\ keys' \in [DOMAIN keys' -> Blobs]
      /\ \A m \in DOMAIN keys : Genuine(m, keys'[m])
  BY <1>1, <1>4, <1>5, PutType DEF Genuine, KeysGenuine, TypeOK, Put
<1>8. /\ DOMAIN settled' = DOMAIN settled \cup {id} /\ settled'[id] = TopUpOutcome(y)
      /\ \A i \in DOMAIN settled : settled'[i] = settled[i]
      /\ settled' \in [DOMAIN settled' -> {"accepted", "missing", "error", "timeout"}]
  BY <1>1, <1>3, <1>4, PutType, Zenon DEF TypeOK, Put
<1>9. DOMAIN yields' = DOMAIN yields \ {id} /\ yields' \in [DOMAIN yields' -> YieldRecord] /\ TasksFit' /\ AnswersFit'
  BY <1>1, YieldGone, Zenon
<1>10. TypeOK'  BY <1>1, <1>2, <1>7, <1>8, <1>9, Zenon DEF TypeOK, YieldRecord
<1>11. KeysGenuine'  BY <1>6, <1>7, Zenon DEF KeysGenuine
<1>12. MintedUnderFloor'  BY <1>1, Zenon DEF MintedUnderFloor
<1>13. TakenOnce'
  <2>1. \A i \in DOMAIN yields' : yields'[i] = yields[i]  BY <1>1, Zenon DEF Drop
  <2>2. \A i : Decided(i) => Decided(i)'
    BY <1>1, <1>4, <1>8, <1>9, <2>1, Zenon DEF Decided, y
  <2> QED  BY <1>1, <1>8, <1>9, <2>2, Zenon DEF TakenOnce, Taken
<1> QED  BY <1>9, <1>10, <1>11, <1>12, <1>13, Zenon

\* delete_payment_key once the coordinator has answered.
LEMMA DeletionSettles ==
    ASSUME PaymentInv, NEW id \in DOMAIN yields, OnDeletePaymentKeyResponse(id)
    PROVE  PaymentInv'
<1> USE DEF PaymentInv
<1> DEFINE n == yields[id].nonce
<1>1. /\ \/ keys' = Drop(keys, n) /\ floor' = RaisedTo(n)
         \/ UNCHANGED <<keys, floor>>
      /\ yields' = Drop(yields, id)
      /\ UNCHANGED <<minted, next_id, tasks, workers, loose, rows, settled, credited>>
  BY Zenon DEF OnDeletePaymentKeyResponse, history
<1>2. n \in Nonces /\ n \in Nat /\ floor \in Nat  BY DEF TypeOK, Nonces
<1> HIDE DEF n
<1>3. DOMAIN keys' \subseteq DOMAIN keys /\ \A m \in DOMAIN keys' : keys'[m] = keys[m]
  BY <1>1, Zenon DEF Drop
<1>4. keys' \in [DOMAIN keys' -> Blobs]
  <2>1. CASE UNCHANGED keys  BY <2>1, Zenon DEF TypeOK
  <2>2. CASE keys' = Drop(keys, n)  BY <2>2, DropType, Zenon DEF TypeOK
  <2> QED  BY <1>1, <2>1, <2>2, Zenon
<1>5. floor' \in Nat /\ floor' >= floor  BY <1>1, <1>2 DEF RaisedTo
<1>6. DOMAIN yields' = DOMAIN yields \ {id} /\ yields' \in [DOMAIN yields' -> YieldRecord] /\ TasksFit' /\ AnswersFit'
  BY <1>1, YieldGone, Zenon
<1>7. TypeOK'  BY <1>1, <1>3, <1>4, <1>5, <1>6, Zenon DEF TypeOK, YieldRecord
<1>8. KeysGenuine'  BY <1>1, <1>3, Zenon DEF KeysGenuine, Genuine
<1>9. MintedUnderFloor'  BY <1>1, <1>2, <1>5 DEF MintedUnderFloor, TypeOK, Nonces
<1>10. TakenOnce'
  <2>1. \A i \in DOMAIN yields' : yields'[i] = yields[i]  BY <1>1, Zenon DEF Drop
  <2>2. \A i : Decided(i) => Decided(i)'  BY <1>1, <1>6, <2>1, Zenon DEF Decided
  <2> QED  BY <1>1, <1>6, <2>2, Zenon DEF TakenOnce, Taken
<1> QED  BY <1>6, <1>7, <1>8, <1>9, <1>10, Zenon

\* Only a yield that waits is answered, so what was decided stays decided.
LEMMA AnswerKeeps ==
    ASSUME PaymentInv, NEW id \in Nat, NEW a \in Answers, AnswerFits(id, a), a.tag # "waiting",
           yields' = Resumed(id, a), UNCHANGED <<minted, next_id, settled>>
    PROVE  /\ DOMAIN yields' = DOMAIN yields /\ yields' \in [DOMAIN yields -> YieldRecord]
           /\ \A t : TaskFits(t) => TaskFits(t)'
           /\ \A i, b : AnswerFits(i, b) => AnswerFits(i, b)'
           /\ \A i \in DOMAIN yields : \A b : b = yields'[i].answer => (AnswerFits(i, b)' /\ b.tag # "waiting") \/ b = yields[i].answer
           /\ \A i : Decided(i) => Decided(i)'
           /\ Resumes(id) => yields'[id].answer = a
<1> USE DEF PaymentInv
<1>1. CASE ~Resumes(id)
  <2>1. yields' = yields  BY <1>1, Zenon DEF Resumed
  <2> QED  BY <2>1, <1>1, Zenon DEF TypeOK, YieldRecord, TaskFits, AnswerFits, Genuine, Decided
<1>2. CASE Resumes(id)
  <2>1. yields' = [yields EXCEPT ![id].answer = a] /\ id \in DOMAIN yields /\ yields[id].answer = Waiting
    BY <1>2, Zenon DEF Resumed, Resumes
  <2>2. yields[id] \in YieldRecord  BY <2>1, Zenon DEF TypeOK, YieldRecord
  <2>3. /\ DOMAIN yields' = DOMAIN yields /\ yields' \in [DOMAIN yields -> YieldRecord]
        /\ \A i \in DOMAIN yields : yields'[i].kind = yields[i].kind /\ yields'[i].nonce = yields[i].nonce /\ (i # id => yields'[i] = yields[i])
        /\ yields'[id].answer = a
    BY <2>1, <2>2 DEF TypeOK, YieldRecord
  <2>4. \A m, b : Genuine(m, b)' <=> Genuine(m, b)  BY Zenon DEF Genuine
  <2>5. \A t : TaskFits(t) => TaskFits(t)'  BY <2>3, <2>4, Zenon DEF TaskFits
  <2>6. \A i, b : AnswerFits(i, b) => AnswerFits(i, b)'  BY <2>3, <2>4, Zenon DEF AnswerFits
  <2>7. Waiting.tag = "waiting"  BY Zenon DEF Waiting, Answer
  <2>8. \A i : Decided(i) => Decided(i)'  BY <2>1, <2>3, <2>7, Zenon DEF Decided
  <2>9. \A i \in DOMAIN yields : \A b : b = yields'[i].answer => (AnswerFits(i, b)' /\ b.tag # "waiting") \/ b = yields[i].answer
    BY <2>3, <2>6, Zenon
  <2> QED  BY <2>3, <2>5, <2>6, <2>8, <2>9, Zenon
<1> QED  BY <1>1, <1>2, Zenon

\* The same for the yields of a whole step.
LEMMA AnswersStillFit ==
    ASSUME PaymentInv, NEW id \in Nat, NEW a \in Answers, AnswerFits(id, a), a.tag # "waiting",
           yields' = Resumed(id, a), UNCHANGED <<minted, next_id, settled>>, loose' \subseteq loose
    PROVE  AnswersFit'
<1> USE DEF PaymentInv
<1>1. \A x \in loose' : AnswerFits(x.id, x.answer)' /\ x.answer.tag # "waiting"
  BY AnswerKeeps, Zenon DEF AnswersFit
<1>2. ASSUME NEW i \in DOMAIN yields', NEW b, b = yields'[i].answer
      PROVE  AnswerFits(i, b)' /\ (b.tag = "waiting" => b = Waiting)
  <2>1. i \in DOMAIN yields  BY <1>2, AnswerKeeps, Zenon
  <2>2. (AnswerFits(i, b)' /\ b.tag # "waiting") \/ b = yields[i].answer  BY <1>2, <2>1, AnswerKeeps, Zenon
  <2>3. CASE b = yields[i].answer  BY <2>1, <2>3, AnswerKeeps, Zenon DEF AnswersFit
  <2> QED  BY <2>2, <2>3, Zenon
<1> QED  BY <1>1, <1>2, Zenon DEF AnswersFit, Waiting, Answer

\* An answer on its way to a yield lands, if the yield is still waiting.
LEMMA LooseKeeps ==
    ASSUME PaymentInv, NEW x \in loose, LooseRuns(x)
    PROVE  PaymentInv'
<1> USE DEF PaymentInv
<1>1. yields' = Resumed(x.id, x.answer) /\ loose' = loose \ {x}
      /\ UNCHANGED <<keys, floor, minted, next_id, tasks, workers, rows, settled, credited>>
  BY Zenon DEF LooseRuns, contract, history
<1>2. x.id \in Nat /\ x.answer \in Answers /\ AnswerFits(x.id, x.answer) /\ x.answer.tag # "waiting"
  BY Zenon DEF TypeOK, AnswersFit
<1>3. AnswersFit'  BY <1>1, <1>2, AnswersStillFit, Zenon
<1>4. /\ DOMAIN yields' = DOMAIN yields /\ yields' \in [DOMAIN yields -> YieldRecord]
      /\ \A t : TaskFits(t) => TaskFits(t)'
      /\ \A i : Decided(i) => Decided(i)'
  BY <1>1, <1>2, AnswerKeeps, Zenon
<1>5. TypeOK'  BY <1>1, <1>4, Zenon DEF TypeOK, YieldRecord
<1>6. TasksFit'  BY <1>1, <1>4, Zenon DEF TasksFit
<1>7. TakenOnce'  BY <1>1, <1>4, Zenon DEF TakenOnce, Taken
<1> QED  BY <1>1, <1>3, <1>5, <1>6, <1>7, Zenon DEF MintedUnderFloor, KeysGenuine, Genuine

\* A yield that runs out is answered as a failure.
LEMMA TimeoutKeeps ==
    ASSUME PaymentInv, NEW id \in DOMAIN yields, YieldTimeout(id)
    PROVE  PaymentInv'
<1> USE DEF PaymentInv
<1>1. yields' = Resumed(id, Timeout) /\ UNCHANGED <<keys, floor, minted, next_id, tasks, workers, loose, rows, settled, credited>>
  BY Zenon DEF YieldTimeout, Resumed, Resumes, contract, history
<1>2. id \in Nat /\ Timeout \in Answers /\ AnswerFits(id, Timeout) /\ Timeout.tag # "waiting"
  BY DEF TypeOK, Timeout, Answer, Answers, AnswerFits
<1>3. AnswersFit'  BY <1>1, <1>2, AnswersStillFit, Zenon
<1>4. /\ DOMAIN yields' = DOMAIN yields /\ yields' \in [DOMAIN yields -> YieldRecord]
      /\ \A t : TaskFits(t) => TaskFits(t)'
      /\ \A i : Decided(i) => Decided(i)'
  BY <1>1, <1>2, AnswerKeeps, Zenon
<1>5. TypeOK'  BY <1>1, <1>4, Zenon DEF TypeOK, YieldRecord
<1>6. TasksFit'  BY <1>1, <1>4, Zenon DEF TasksFit
<1>7. TakenOnce'  BY <1>1, <1>4, Zenon DEF TakenOnce, Taken
<1> QED  BY <1>1, <1>3, <1>5, <1>6, <1>7, Zenon DEF MintedUnderFloor, KeysGenuine, Genuine

\* The answer a task stands for fits its yield.
LEMMA SuccessFits ==
    ASSUME PaymentInv, NEW t \in Tasks, TaskFits(t), t.kind = "topup"
    PROVE  /\ SuccessOf(t) \in Answers /\ SuccessOf(t).tag = "success" /\ AnswerFits(t.id, SuccessOf(t))
           /\ Error \in Answers /\ Error.tag = "error" /\ AnswerFits(t.id, Error)
<1> USE DEF PaymentInv
<1>1. t.blob \in Blobs /\ t.amount \in Nat /\ t.id \in Nat /\ Genuine(t.nonce, t.blob)
  BY Zenon DEF TaskFits, Genuine, Tasks
<1>2. ToppedUp(t) \in Blobs /\ ToppedUp(t).secret = t.blob.secret
  BY <1>1 DEF ToppedUp, Blobs
<1>3. Genuine(t.nonce, ToppedUp(t))  BY <1>1, <1>2, Zenon DEF Genuine
<1>4. SuccessOf(t) = [tag |-> "success", blob |-> ToppedUp(t)]  BY Zenon DEF SuccessOf, Answer
<1>5. t.id \in DOMAIN yields => yields[t.id].nonce = t.nonce  BY Zenon DEF TaskFits
<1>6. AnswerFits(t.id, SuccessOf(t))
  BY <1>3, <1>4, <1>5 DEF AnswerFits, TaskFits
<1> QED  BY <1>2, <1>4, <1>6 DEF Answers, Error, Answer, AnswerFits, TaskFits

\* A worker that lets go of its task leaves at most answers behind that fit.
LEMMA WorkerRests ==
    ASSUME PaymentInv, NEW w \in Workers, Done(w), UNCHANGED <<keys, floor, minted, yields, next_id, tasks, settled, credited>>,
           DOMAIN rows' \subseteq Nonces, rows' \in [DOMAIN rows' -> {"live", "deleted"}],
           \A x \in loose' \ loose : x \in [id: Nat \ {0}, answer: Answers] /\ AnswerFits(x.id, x.answer) /\ x.answer.tag # "waiting"
    PROVE  PaymentInv'
<1> USE DEF PaymentInv
<1>1. /\ workers' \in [Workers -> WorkerRecord] /\ \A v \in Workers : v # w => workers'[v] = workers[v]
      /\ workers'[w].task = None /\ workers'[w].tx = "none"
  BY Zenon DEF Done, Idle, TypeOK, WorkerRecord
<1>2. TypeOK'  BY <1>1, Zenon DEF TypeOK, WorkerRecord
<1>3. \A m, b : Genuine(m, b)' <=> Genuine(m, b)  BY Zenon DEF Genuine
<1>4. \A t : TaskFits(t) => TaskFits(t)'  BY <1>3, Zenon DEF TaskFits
<1>5. TasksFit'  BY <1>1, <1>4, Zenon DEF TasksFit
<1>6. AnswersFit'  BY <1>3, Zenon DEF AnswersFit, AnswerFits
<1>7. TakenOnce'  BY <1>1 DEF TakenOnce, Taken, Decided
<1> QED  BY <1>2, <1>3, <1>5, <1>6, <1>7, Zenon DEF MintedUnderFloor, KeysGenuine

\* Bringing a row to life keeps the coordinator's rows well typed.
LEMMA RowLiveType ==
    ASSUME PaymentInv, NEW n \in Nonces
    PROVE  DOMAIN RowLive(n) \subseteq Nonces /\ RowLive(n) \in [DOMAIN RowLive(n) -> {"live", "deleted"}]
  BY Zenon DEF PaymentInv, TypeOK, RowLive, Put

\* The steps after which a worker is idle again, but for the credit.
LEMMA RestingStepsKeep ==
    ASSUME PaymentInv, NEW w \in Workers,
           \/ \E registered \in BOOLEAN : InitPaymentKey(w, registered)
           \/ ProcessTopUpFails(w) \/ CompleteTopUp(w, FALSE) \/ TopUpRefused(w) \/ TopUpUnseen(w) \/ WorkerCrash(w)
           \/ \E deleted \in BOOLEAN, heard \in BOOLEAN : ProcessDelete(w, deleted, heard)
    PROVE  PaymentInv'
<1> DEFINE t == workers[w].task
<1>1. /\ t # None => t \in Tasks /\ TaskFits(t) /\ t.nonce \in Nonces /\ t.id \in Nat
      /\ workers[w].tx # "none" => t # None /\ t.kind = "topup" /\ t.id # 0
      /\ DOMAIN rows \subseteq Nonces /\ rows \in [DOMAIN rows -> {"live", "deleted"}]
  BY Zenon DEF PaymentInv, TypeOK, TasksFit, Tasks
<1> HIDE DEF t
<1>2. ASSUME NEW registered \in BOOLEAN, InitPaymentKey(w, registered)  PROVE PaymentInv'
  <2>1. rows' = rows \/ rows' = RowLive(t.nonce)  BY <1>2, Zenon DEF InitPaymentKey, t
  <2>2. t # None  BY <1>2, Zenon DEF InitPaymentKey, Holds, t
  <2>3. DOMAIN rows' \subseteq Nonces /\ rows' \in [DOMAIN rows' -> {"live", "deleted"}]
    BY <1>1, <2>1, <2>2, RowLiveType, Zenon
  <2>4. UNCHANGED <<keys, floor, minted, yields, next_id, tasks, loose, settled, credited>> /\ Done(w)
    BY <1>2, Zenon DEF InitPaymentKey, contract, history
  <2> QED  BY <2>3, <2>4, WorkerRests, Zenon
<1>3. ASSUME ProcessTopUpFails(w)  PROVE PaymentInv'
  <2>1. t # None /\ t.kind = "topup" /\ t.id # 0  BY <1>3, Zenon DEF ProcessTopUpFails, Holds, t
  <2>2. loose' = loose \cup {[id |-> t.id, answer |-> Error]}  BY <1>3, Zenon DEF ProcessTopUpFails, Send, t
  <2>3. UNCHANGED <<keys, floor, minted, yields, next_id, tasks, rows, settled, credited>> /\ Done(w)
    BY <1>3, Zenon DEF ProcessTopUpFails, contract, history
  <2>4. Error \in Answers /\ Error.tag = "error" /\ AnswerFits(t.id, Error)  BY <1>1, <2>1, SuccessFits, Zenon
  <2>5. \A x \in loose' \ loose : x \in [id: Nat \ {0}, answer: Answers] /\ AnswerFits(x.id, x.answer) /\ x.answer.tag # "waiting"
    BY <1>1, <2>1, <2>2, <2>4
  <2> QED  BY <1>1, <2>3, <2>5, WorkerRests, Zenon
<1>4. ASSUME CompleteTopUp(w, FALSE) \/ TopUpRefused(w)  PROVE PaymentInv'
  <2>1. UNCHANGED <<keys, floor, minted, yields, next_id, tasks, loose, rows, settled, credited>> /\ Done(w)
    BY <1>4, Zenon DEF CompleteTopUp, TopUpRefused, contract, history
  <2> QED  BY <1>1, <2>1, WorkerRests, Zenon
<1>5. ASSUME TopUpUnseen(w) \/ WorkerCrash(w)  PROVE PaymentInv'
  <2>1. UNCHANGED <<keys, floor, minted, yields, next_id, tasks, rows, settled, credited>> /\ Done(w)
    BY <1>5, Zenon DEF TopUpUnseen, WorkerCrash, contract, history
  <2>2. loose' \ loose \subseteq {[id |-> t.id, answer |-> SuccessOf(t)], [id |-> t.id, answer |-> Error]}
    BY <1>5, Zenon DEF TopUpUnseen, WorkerCrash, LeftBehind, t
  <2>3. workers[w].tx = "none" => loose' = loose
    BY <1>5, Zenon DEF TopUpUnseen, WorkerCrash, LeftBehind
  <2>4. workers[w].tx # "none" => /\ SuccessOf(t) \in Answers /\ SuccessOf(t).tag = "success" /\ AnswerFits(t.id, SuccessOf(t))
                                  /\ Error \in Answers /\ Error.tag = "error" /\ AnswerFits(t.id, Error)
    BY <1>1, SuccessFits, Zenon
  <2>5. \A x \in loose' \ loose : x \in [id: Nat \ {0}, answer: Answers] /\ AnswerFits(x.id, x.answer) /\ x.answer.tag # "waiting"
    BY <1>1, <2>2, <2>3, <2>4
  <2> QED  BY <1>1, <2>1, <2>5, WorkerRests, Zenon
<1>6. ASSUME NEW deleted \in BOOLEAN, NEW heard \in BOOLEAN, ProcessDelete(w, deleted, heard)  PROVE PaymentInv'
  <2> DEFINE a == DeleteAnswer(deleted /\ heard)
  <2>1. t # None /\ t.kind = "delete"  BY <1>6, Zenon DEF ProcessDelete, Holds, t
  <2>2. rows' = rows \/ rows' = [rows EXCEPT ![t.nonce] = "deleted"]  BY <1>6, Zenon DEF ProcessDelete, t
  <2>3. UNCHANGED <<keys, floor, minted, yields, next_id, tasks, settled, credited>> /\ Done(w)
        /\ loose' = loose \cup {[id |-> t.id, answer |-> a]}
    BY <1>6, Zenon DEF ProcessDelete, Send, contract, t
  <2>4. a \in Answers /\ a.tag # "waiting"  BY Zenon DEF DeleteAnswer, Error, Answer, Answers
  <2>5. t.id # 0 /\ AnswerFits(t.id, a)  BY <1>1, <2>1, Zenon DEF TaskFits, AnswerFits
  <2> HIDE DEF a
  <2>6. \A x \in loose' \ loose : x \in [id: Nat \ {0}, answer: Answers] /\ AnswerFits(x.id, x.answer) /\ x.answer.tag # "waiting"
    BY <1>1, <2>1, <2>3, <2>4, <2>5
  <2>7. DOMAIN rows' \subseteq Nonces /\ rows' \in [DOMAIN rows' -> {"live", "deleted"}]
    BY <1>1, <2>2, Zenon
  <2> QED  BY <2>3, <2>6, <2>7, WorkerRests, Zenon
<1> QED  BY <1>2, <1>3, <1>4, <1>5, <1>6, Zenon

\* The monitor takes a yield once.
LEMMA TakeKeeps ==
    ASSUME PaymentInv, NEW w \in Workers, NEW t \in tasks, NEW again \in BOOLEAN, TakeTask(w, t, again)
    PROVE  PaymentInv'
<1> USE DEF PaymentInv
<1>1. UNCHANGED <<keys, floor, minted, yields, next_id, loose, rows, settled, credited>> /\ tasks' \subseteq tasks
      /\ workers[w] = Idle /\ workers' = [workers EXCEPT ![w].task = t]
  BY Zenon DEF TakeTask, contract, history
<1>2. t \in Tasks /\ workers[w] \in WorkerRecord  BY Zenon DEF TypeOK, WorkerRecord
<1>3. /\ workers' \in [Workers -> WorkerRecord] /\ \A v \in Workers : v # w => workers'[v] = workers[v]
      /\ workers'[w].task = t /\ workers'[w].tx = "none"
  BY <1>1, <1>2 DEF Idle, TypeOK, WorkerRecord
<1>4. UNCHANGED <<keys, floor, minted, yields, next_id, loose, rows, settled, credited>> /\ tasks' \subseteq tasks
  BY <1>1, Zenon
<1>5. TypeOK'  BY <1>3, <1>4, Zenon DEF TypeOK, WorkerRecord
<1>6. \A m, b : Genuine(m, b)' <=> Genuine(m, b)  BY <1>4, Zenon DEF Genuine
<1>7. \A u : TaskFits(u) => TaskFits(u)'  BY <1>4, <1>6, Zenon DEF TaskFits
<1>8. TasksFit'  BY <1>3, <1>4, <1>7, Zenon DEF TasksFit
<1>9. AnswersFit'  BY <1>4, <1>6, Zenon DEF AnswersFit, AnswerFits
<1>10. TakenOnce'  BY <1>3, <1>4 DEF TakenOnce, Taken, Decided
<1> QED  BY <1>4, <1>5, <1>6, <1>8, <1>9, <1>10, Zenon DEF MintedUnderFloor, KeysGenuine

\* The worker answers a taken yield with what the task asked for.
LEMMA ProcessKeeps ==
    ASSUME PaymentInv, NEW w \in Workers, ProcessTopUp(w)
    PROVE  PaymentInv'
<1> USE DEF PaymentInv
<1>1. UNCHANGED <<keys, floor, minted, yields, next_id, tasks, loose, rows, settled, credited>>
      /\ workers[w].task # None /\ workers[w].task.kind = "topup" /\ workers[w].task.id # 0
  BY Zenon DEF ProcessTopUp, Holds, contract, history
<1>2. workers[w] \in WorkerRecord /\ workers' = [workers EXCEPT ![w].tx = "sent"]
  BY Zenon DEF ProcessTopUp, TypeOK, WorkerRecord
<1>3. /\ workers' \in [Workers -> WorkerRecord] /\ \A v \in Workers : v # w => workers'[v] = workers[v]
      /\ workers'[w].task = workers[w].task /\ workers'[w].tx = "sent"
  BY <1>2, Zenon DEF TypeOK, WorkerRecord
<1>4. TypeOK'  BY <1>1, <1>3, Zenon DEF TypeOK, WorkerRecord
<1>5. \A m, b : Genuine(m, b)' <=> Genuine(m, b)  BY <1>1, Zenon DEF Genuine
<1>6. \A u : TaskFits(u) => TaskFits(u)'  BY <1>1, <1>5, Zenon DEF TaskFits
<1>7. TasksFit'  BY <1>1, <1>3, <1>6, Zenon DEF TasksFit
<1>8. AnswersFit'  BY <1>1, <1>5, Zenon DEF AnswersFit, AnswerFits
<1>9. TakenOnce'  BY <1>1, <1>3 DEF TakenOnce, Taken, Decided
<1> QED  BY <1>1, <1>4, <1>5, <1>7, <1>8, <1>9, Zenon DEF MintedUnderFloor, KeysGenuine

\* A resume that is taken finds its yield waiting: nobody else has it, and nothing of it
\* was credited.
LEMMA FollowedKeeps ==
    ASSUME PaymentInv, NEW w \in Workers, FollowedRuns(w)
    PROVE  PaymentInv'
<1> USE DEF PaymentInv
<1> DEFINE t == workers[w].task
<1>1. /\ UNCHANGED <<keys, floor, minted, next_id, tasks, loose, rows, settled, credited>>
      /\ yields' = Resumed(t.id, SuccessOf(t)) /\ workers[w].tx = "sent"
  BY Zenon DEF FollowedRuns, contract, history
<1>2. t \in Tasks /\ TaskFits(t) /\ t.kind = "topup" /\ t.id # 0 /\ t.id \in Nat
  BY <1>1, Zenon DEF TypeOK, TasksFit, Tasks
<1>3. workers[w] \in WorkerRecord /\ workers' = [workers EXCEPT ![w].tx = Outcome(t.id)] /\ Outcome(t.id) \in {"taken", "refused"}
  BY Zenon DEF FollowedRuns, Outcome, TypeOK, WorkerRecord
<1>4. /\ workers' \in [Workers -> WorkerRecord] /\ \A v \in Workers : v # w => workers'[v] = workers[v]
      /\ workers'[w].task = t /\ workers'[w].tx = Outcome(t.id)
  BY <1>3, Zenon DEF TypeOK, WorkerRecord
<1> HIDE DEF t
<1>5. SuccessOf(t) \in Answers /\ SuccessOf(t).tag = "success" /\ AnswerFits(t.id, SuccessOf(t))
  BY <1>2, SuccessFits, Zenon
<1>6. AnswersFit'  BY <1>1, <1>2, <1>5, AnswersStillFit, Zenon
<1>7. /\ DOMAIN yields' = DOMAIN yields /\ yields' \in [DOMAIN yields -> YieldRecord]
      /\ \A u : TaskFits(u) => TaskFits(u)'
      /\ \A i : Decided(i) => Decided(i)'
      /\ Resumes(t.id) => yields'[t.id].answer = SuccessOf(t)
  BY <1>1, <1>2, <1>5, AnswerKeeps, Zenon
<1>8. TypeOK'  BY <1>1, <1>4, <1>7, Zenon DEF TypeOK, YieldRecord, WorkerRecord
<1>9. TasksFit'
  <2>1. \A v \in Workers : workers'[v].task = workers[v].task  BY <1>4, Zenon DEF t
  <2>2. \A v \in Workers : workers'[v].tx # "none" => workers[v].tx # "none"  BY <1>1, <1>4, Zenon
  <2> QED  BY <1>1, <1>7, <2>1, <2>2, Zenon DEF TasksFit
<1>10. TakenOnce'
  <2>1. CASE ~Resumes(t.id)
    <3>1. ~Taken(w)' /\ \A v \in Workers : v # w => (Taken(v)' <=> Taken(v)) /\ workers'[v] = workers[v]
      BY <2>1, <1>4, Zenon DEF Taken, Outcome
    <3> QED  BY <3>1, <1>1, <1>7, Zenon DEF TakenOnce
  <2>2. CASE Resumes(t.id)
    <3>1. t.id \in DOMAIN yields /\ yields[t.id].answer.tag = "waiting"
      BY <2>2 DEF Resumes, Waiting, Answer
    <3>2. ~Decided(t.id) /\ t.id \notin DOMAIN settled /\ t.id < next_id
      BY <3>1, <1>2, Zenon DEF Decided, TakenOnce, TaskFits
    <3>3. t.id \notin DOMAIN credited /\ \A v \in Workers : Taken(v) => workers[v].task.id # t.id
      BY <3>2, Zenon DEF TakenOnce
    <3>4. \A i : i = t.id => Decided(i)'
      BY <3>1, <3>2, <1>1, <1>5, <1>7, <2>2, Zenon DEF Decided
    <3>5. \A v \in Workers : v # w => (Taken(v)' <=> Taken(v)) /\ workers'[v] = workers[v]
      BY <1>4, Zenon DEF Taken
    <3>6. \A v \in Workers : (Taken(v) => Decided(workers[v].task.id) /\ workers[v].task.id \notin DOMAIN credited)'
      BY <3>3, <3>4, <3>5, <1>1, <1>4, <1>7, Zenon DEF TakenOnce
    <3>7. \A u, v \in Workers :
            Taken(u)' /\ Taken(v)' /\ workers'[u].task.id = workers'[v].task.id => u = v
      BY <3>3, <3>5, <1>4 DEF TakenOnce
    <3> QED  BY <3>6, <3>7, <1>1, <1>7, Zenon DEF TakenOnce
  <2> QED  BY <2>1, <2>2, Zenon
<1> QED  BY <1>1, <1>6, <1>8, <1>9, <1>10, Zenon DEF MintedUnderFloor, KeysGenuine, Genuine

\* The credit is reported by the one worker whose resume was taken.
LEMMA CreditKeeps ==
    ASSUME PaymentInv, NEW w \in Workers, CompleteTopUp(w, TRUE)
    PROVE  PaymentInv'
<1> USE DEF PaymentInv
<1> DEFINE t == workers[w].task
<1>1. /\ UNCHANGED <<keys, floor, minted, yields, next_id, tasks, loose, settled>> /\ Done(w) /\ Taken(w)
      /\ rows' = RowLive(t.nonce) /\ credited' = Put(credited, t.id, GetOr(credited, t.id, 0) + 1)
  BY Zenon DEF CompleteTopUp, contract, Taken
<1>2. t \in Tasks /\ TaskFits(t) /\ t.id \in Nat \ {0} /\ t.nonce \in Nonces /\ Decided(t.id) /\ t.id \notin DOMAIN credited
  BY <1>1, Zenon DEF TypeOK, TasksFit, Tasks, TakenOnce, Taken
<1>3. credited' = Put(credited, t.id, 1)  BY <1>1, <1>2 DEF GetOr
<1>4. /\ workers' \in [Workers -> WorkerRecord] /\ \A v \in Workers : v # w => workers'[v] = workers[v]
      /\ workers'[w].task = None /\ workers'[w].tx = "none"
  BY <1>1, Zenon DEF Done, Idle, TypeOK, WorkerRecord
<1>5. /\ DOMAIN credited' = DOMAIN credited \cup {t.id} /\ credited'[t.id] = 1
      /\ \A i \in DOMAIN credited : credited'[i] = credited[i]
      /\ credited' \in [DOMAIN credited' -> Nat]
  BY <1>2, <1>3, Zenon DEF Put, TypeOK
<1>6. DOMAIN rows' \subseteq Nonces /\ rows' \in [DOMAIN rows' -> {"live", "deleted"}]
  BY <1>1, <1>2, RowLiveType, Zenon
<1>7. TypeOK'  BY <1>1, <1>2, <1>4, <1>5, <1>6 DEF TypeOK, WorkerRecord, TaskFits
<1>8. \A m, b : Genuine(m, b)' <=> Genuine(m, b)  BY <1>1, Zenon DEF Genuine
<1>9. \A u : TaskFits(u) => TaskFits(u)'  BY <1>1, <1>8, Zenon DEF TaskFits
<1>10. TasksFit'  BY <1>1, <1>4, <1>9, Zenon DEF TasksFit
<1>11. AnswersFit'  BY <1>1, <1>8, Zenon DEF AnswersFit, AnswerFits
<1>12. \A i : Decided(i) => Decided(i)'  BY <1>1, Zenon DEF Decided
<1>13. \A v \in Workers : Taken(v)' => v # w /\ Taken(v) /\ workers'[v] = workers[v] /\ workers[v].task.id # t.id
  BY <1>1, <1>4, Zenon DEF Taken, TakenOnce
<1> HIDE DEF t
<1>14. TakenOnce'
  BY <1>1, <1>2, <1>5, <1>12, <1>13, Zenon DEF TakenOnce
<1> QED  BY <1>1, <1>7, <1>8, <1>10, <1>11, <1>14, Zenon DEF MintedUnderFloor, KeysGenuine

\* Every step keeps the invariant, one action at a time.
LEMMA PaymentStepKeeps == PaymentInv /\ [Next]_vars => PaymentInv'
<1> SUFFICES ASSUME PaymentInv, [Next]_vars PROVE PaymentInv'  OBVIOUS
<1>1. CASE UNCHANGED vars
  <2>1. UNCHANGED <<keys, floor, minted, yields, next_id, tasks, workers, loose, rows, settled, credited>>
    BY <1>1, Zenon DEF vars, contract, history
  <2>2. TypeOK' /\ MintedUnderFloor' /\ KeysGenuine'
    BY <2>1, Zenon DEF PaymentInv, TypeOK, MintedUnderFloor, KeysGenuine, Genuine
  <2>3. TasksFit' /\ AnswersFit'
    BY <2>1, Zenon DEF PaymentInv, TasksFit, TaskFits, AnswersFit, AnswerFits, Genuine
  <2>4. TakenOnce'
    BY <2>1, Zenon DEF PaymentInv, TakenOnce, Taken, Decided
  <2> QED  BY <2>2, <2>3, <2>4, Zenon DEF PaymentInv
<1>2. ASSUME NEW n \in Nonces, NEW amount \in Amounts, HandleTopUp(n, amount)  PROVE PaymentInv'
  <2>1. amount \in Nat /\ keys[n] \in Blobs \cup {None} /\ Genuine(n, keys[n]) /\ Announce("topup", n, amount, keys[n])
    BY <1>2, PaymentKeysAssumption, Zenon DEF HandleTopUp, PaymentInv, KeysGenuine, Genuine
  <2> QED  BY <2>1, AnnounceKeeps, Zenon
<1>3. ASSUME NEW n \in Nonces, DeletePaymentKey(n)  PROVE PaymentInv'
  BY <1>3, AnnounceKeeps, Zenon DEF DeletePaymentKey
<1>4. CASE ContractStep
  BY <1>2, <1>3, <1>4, StoreKeeps, DeleteKeeps, TopUpSettles, DeletionSettles, TimeoutKeeps, Zenon DEF ContractStep
<1>5. ASSUME NEW w \in Workers, WorkerStep(w)  PROVE PaymentInv'
  <2>1. ASSUME NEW t \in tasks, NEW again \in Redelivery, TakeTask(w, t, again)  PROVE PaymentInv'
    BY <2>1, TakeKeeps, PaymentKeysAssumption, Zenon
  <2>2. ASSUME NEW reported \in BOOLEAN, CompleteTopUp(w, reported)  PROVE PaymentInv'
    BY <2>2, CreditKeeps, RestingStepsKeep, Zenon
  <2> QED  BY <1>5, <2>1, <2>2, RestingStepsKeep, ProcessKeeps, FollowedKeeps, Zenon DEF WorkerStep
<1> QED  BY <1>1, <1>4, <1>5, LooseKeeps, Zenon DEF Next

\* The state of the contract, its yields, the queue and the workers is well formed, and
\* they agree: what a task, a resume or an answer says is of the yield and the key it names.
THEOREM PaymentInvAlways == Spec => []PaymentInv
  BY PaymentInitially, PaymentStepKeeps, PTL DEF Spec

\* A top-up (ft_on_transfer, resume_topup, complete_topup) is credited at most once and
\* never when its tokens went back, however often its task is handed out, workers crash
\* and transactions are lost sight of.
THEOREM CreditedAlwaysAsSettled == Spec => []CreditedAsSettled
<1>1. PaymentInv => CreditedAsSettled
  BY DEF PaymentInv, TakenOnce, Decided, CreditedAsSettled
<1> QED  BY <1>1, PaymentInvAlways, PTL

\* A key stored since the nonce floor exists keeps the key string it was created with.
THEOREM NewKeysKeepTheirSecret ==
    Spec => [](\A n \in DOMAIN keys \ Legacy : keys[n].secret = minted[n])
<1>1. PaymentInv => \A n \in DOMAIN keys \ Legacy : keys[n].secret = minted[n]
  BY Zenon DEF PaymentInv, KeysGenuine, Genuine
<1> QED  BY <1>1, PaymentInvAlways, PTL

\* So where no key is older than the floor (store_secrets, payment_key_nonce_floors), no
\* late top-up ever writes one key's blob over another or brings a deleted key back.
THEOREM SecretAlwaysKept == ASSUME Legacy = {} PROVE Spec => []SecretKept
<1>1. PaymentInv => SecretKept
  BY Zenon DEF PaymentInv, KeysGenuine, Genuine, SecretKept
<1> QED  BY <1>1, PaymentInvAlways, PTL
=============================================================================
