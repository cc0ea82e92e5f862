----------------------------- MODULE VaultProofs -----------------------------
(***************************************************************************)
(* Proofs about the vault, for any set of keys, any windows and delays and *)
(* any number of receipts in flight: the cap on TEE keys, the wait before  *)
(* a recovery hands the account over, and that an unlocked vault is the    *)
(* customer's.                                                             *)
(***************************************************************************)
EXTENDS Vault, FiniteSetTheorems, TLAPS

\* The type invariant by the variables it is about.
ContractType ==
    /\ initial_tee_key \in TeeKeys \cup {None}
    /\ registered_tee_keys \subseteq TeeKeys
    /\ exit_window \in Windows
RecoveryType == recovery \in Recoveries \cup {None} /\ first_after \in Nat \cup {None}
KeysType == DOMAIN access_keys \subseteq Keys /\ access_keys \in [DOMAIN access_keys -> Roles]
ReceiptsType == DOMAIN receipts \subseteq Slots /\ receipts \in [DOMAIN receipts -> Receipts]

\* The type invariant is the conjunction of its parts, one per group of variables.
LEMMA TypeParts ==
    /\ TypeOK <=> /\ ContractType /\ RecoveryType /\ KeysType /\ ReceiptsType
                  /\ unlocked \in BOOLEAN /\ now \in Nat /\ batches \in Seq(Batches)
    /\ TypeOK' <=> /\ ContractType' /\ RecoveryType' /\ KeysType' /\ ReceiptsType'
                   /\ unlocked' \in BOOLEAN /\ now' \in Nat /\ batches' \in Seq(Batches)
BY DEF TypeOK, ContractType, RecoveryType, KeysType, ReceiptsType

\* Only the customer's keys have full access, on the account and in the batches,
\* and a swap brings one.
FullIsParents ==
    /\ \A k \in DOMAIN access_keys : access_keys[k] = "full" => k \in ParentKeys
    /\ \A i \in 1..Len(batches) :
          /\ batches[i].role = "full" => batches[i].add \in ParentKeys
          /\ batches[i].swap => batches[i].role = "full"

\* A swap that has landed left the customer's key on the account.
HandedOver ==
    (unlocked \/ \E s \in DOMAIN receipts : receipts[s].kind = "swapped") =>
        \E k \in ParentKeys \cap DOMAIN access_keys : access_keys[k] = "full"

\* The running recovery ends its delay no earlier than the first one, and a
\* recovery is over only after the first delay.
Timer ==
    /\ recovery # None => first_after # None /\ first_after <= recovery.finalize_after
    /\ (recovery = None /\ first_after # None) => now >= first_after

\* The inductive invariant.
Inv == TypeOK /\ CapHolds /\ FullIsParents /\ HandedOver /\ Timer /\ ParentKeyWaits

\* A fresh vault satisfies the invariant.
LEMMA InitInv == ASSUME Init PROVE Inv
<1> USE VaultAssumption
<1>1. PICK d \in Deploys : /\ initial_tee_key = d[1]
                           /\ access_keys = [k \in {d[2]} \ {None} |-> "tee"]
    BY DEF Init
<1>2. ContractType /\ RecoveryType BY <1>1 DEF Init, ContractType, RecoveryType
<1>3. KeysType /\ \A k \in DOMAIN access_keys : access_keys[k] = "tee"
    BY <1>1 DEF KeysType, Keys, Roles
<1>4. ReceiptsType /\ DOMAIN receipts = {} BY DEF Init, ReceiptsType, EmptyMap
<1>5. now \in Nat /\ batches \in Seq(Batches) /\ Len(batches) = 0 BY DEF Init
<1>6. unlocked \in BOOLEAN /\ ~unlocked
    <2>1. unlocked = FALSE BY DEF Init
    <2>2. QED BY ONLY <2>1, Zenon
<1>7. TypeOK BY <1>2, <1>3, <1>4, <1>5, <1>6, TypeParts
<1>8. CapHolds BY FS_EmptySet DEF Init, CapHolds
<1>9. FullIsParents BY <1>3, <1>5 DEF FullIsParents
<1>10. HandedOver BY <1>4, <1>6 DEF HandedOver
<1>11. Timer BY DEF Init, Timer
<1>12. ParentKeyWaits BY <1>3, <1>4, <1>5, <1>6 DEF ParentKeyWaits
<1>13. QED BY <1>7, <1>8, <1>9, <1>10, <1>11, <1>12 DEF Inv

-----------------------------------------------------------------------------
\* What sending, receiving and issuing do to the chain's queues.

\* Sending a cross-contract call adds one receipt and changes no other.
LEMMA SendFacts ==
    ASSUME ReceiptsType, NEW kind, NEW key, [kind |-> kind, key |-> key] \in Receipts,
           Send(kind, key)
    PROVE  /\ ReceiptsType'
           /\ \A s \in DOMAIN receipts' :
                 \/ receipts'[s].kind = kind
                 \/ s \in DOMAIN receipts /\ receipts'[s] = receipts[s]
<1> DEFINE r == [kind |-> kind, key |-> key]
<1>1. r \in Receipts /\ r.kind = kind OBVIOUS
<1>2. PICK s \in Slots \ DOMAIN receipts : receipts' = Put(receipts, s, r) BY DEF Send
<1> HIDE DEF r
<1>3. QED BY <1>1, <1>2 DEF ReceiptsType, Put

\* A callback uses up its receipt and no other.
LEMMA ReceiveFacts ==
    ASSUME ReceiptsType, NEW s, NEW kind, Receive(s, kind)
    PROVE  /\ s \in DOMAIN receipts /\ receipts[s] \in Receipts /\ receipts[s].kind = kind
           /\ ReceiptsType'
           /\ \A t \in DOMAIN receipts' : t \in DOMAIN receipts /\ receipts'[t] = receipts[t]
BY DEF Receive, ReceiptsType, Drop

\* A batch goes to the end of the queue.
LEMMA IssueFacts ==
    ASSUME batches \in Seq(Batches), NEW delete \in SUBSET TeeKeys,
           NEW add \in Keys \cup {None}, NEW role \in Roles, NEW swap \in BOOLEAN,
           Issue(delete, add, role, swap)
    PROVE  /\ batches' \in Seq(Batches)
           /\ \A i \in 1..Len(batches') :
                 \/ i \in 1..Len(batches) /\ batches'[i] = batches[i]
                 \/ batches'[i] = [delete |-> delete, add |-> add, role |-> role, swap |-> swap]
<1> DEFINE b == [delete |-> delete, add |-> add, role |-> role, swap |-> swap]
<1>1. b \in Batches BY DEF Batches
<1>2. batches' = Append(batches, b) BY DEF Issue
<1> HIDE DEF b
<1>3. batches' \in Seq(Batches) BY <1>1, <1>2
<1>4. \A i \in 1..Len(batches') :
         (i \in 1..Len(batches) /\ batches'[i] = batches[i]) \/ batches'[i] = b
    BY <1>2
<1>5. QED BY <1>3, <1>4 DEF b

-----------------------------------------------------------------------------
\* A delay has run out.
Matured == first_after # None /\ now >= first_after

\* The receipts and batches after a step that matter to the hand-over were
\* there before it, or the delay has run out.
ReceiptsJustified ==
    \A s \in DOMAIN receipts' :
       receipts'[s].kind \in {"finalize", "swapped"} =>
          \/ s \in DOMAIN receipts /\ receipts'[s] = receipts[s]
          \/ receipts'[s].kind = "finalize" /\ Matured
BatchesJustified ==
    \A i \in 1..Len(batches') :
       \/ i \in 1..Len(batches) /\ batches'[i] = batches[i]
       \/ batches'[i].role # "full" /\ ~batches'[i].swap
       \/ batches'[i].role = "full" /\ batches'[i].add \in ParentKeys /\ Matured

\* A step that leaves the account's keys alone and whose receipts and batches
\* are justified keeps the hand-over safe.
LEMMA HandOverKept ==
    ASSUME Inv, UNCHANGED access_keys, now' \in Nat, now' >= now,
           unlocked' => unlocked \/ \E s \in DOMAIN receipts : receipts[s].kind = "swapped",
           ReceiptsJustified, BatchesJustified,
           first_after = None \/ first_after' = first_after
    PROVE  FullIsParents' /\ HandedOver' /\ ParentKeyWaits'
<1>1. FullIsParents' BY DEF Inv, FullIsParents, BatchesJustified
<1>2. HandedOver' BY DEF Inv, HandedOver, ReceiptsJustified
<1>3. Matured => first_after' # None /\ now' >= first_after'
    BY VaultAssumption DEF Matured, Inv, TypeOK
<1>4. ASSUME unlocked' PROVE Matured BY <1>4 DEF Inv, ParentKeyWaits, Matured
<1>5. ASSUME NEW k \in DOMAIN access_keys', access_keys'[k] = "full" PROVE Matured
    BY <1>5 DEF Inv, ParentKeyWaits, Matured
<1>6. ASSUME NEW i \in 1..Len(batches'), batches'[i].role = "full" PROVE Matured
    BY <1>6 DEF Inv, ParentKeyWaits, Matured, BatchesJustified
<1>7. ASSUME NEW s \in DOMAIN receipts', receipts'[s].kind \in {"finalize", "swapped"}
      PROVE  Matured
    BY <1>7 DEF Inv, ParentKeyWaits, Matured, ReceiptsJustified
<1>8. QED BY <1>1, <1>2, <1>3, <1>4, <1>5, <1>6, <1>7 DEF ParentKeyWaits

-----------------------------------------------------------------------------
\* The steps about keys.

\* propose_tee_key only sends the question to the DAO.
LEMMA ProposeInv == ASSUME Inv, NEW k \in TeeKeys, ProposeTeeKey(k) PROVE Inv'
<1>1. /\ Send("add", k)
      /\ UNCHANGED <<initial_tee_key, registered_tee_keys, recovery, unlocked, exit_window, now,
                     access_keys, batches, first_after>>
    BY DEF ProposeTeeKey, contract
<1>2. /\ ReceiptsType'
      /\ \A s \in DOMAIN receipts' : \/ receipts'[s].kind = "add"
                                     \/ s \in DOMAIN receipts /\ receipts'[s] = receipts[s]
    <2>1. [kind |-> "add", key |-> k] \in Receipts BY DEF Receipts
    <2>2. QED BY <1>1, <2>1, SendFacts, TypeParts DEF Inv
<1>3. TypeOK'
    BY <1>1, <1>2, TypeParts DEF Inv, ContractType, RecoveryType, KeysType
<1>4. CapHolds' /\ Timer' BY <1>1 DEF Inv, CapHolds, Timer
<1>5. ReceiptsJustified BY <1>2 DEF ReceiptsJustified
<1>6. BatchesJustified BY <1>1 DEF BatchesJustified
<1>7. QED BY <1>1, <1>3, <1>4, <1>5, <1>6, HandOverKept DEF Inv, TypeOK

\* callback_add_tee_key counts before it registers.
LEMMA AddTeeKeyInv ==
    ASSUME Inv, NEW s, NEW answer, CallbackAddTeeKey(s, answer)
    PROVE  Inv'
<1> DEFINE k == receipts[s].key
<1>1. /\ Receive(s, "add")
      /\ UNCHANGED <<initial_tee_key, recovery, unlocked, exit_window, now, access_keys,
                     first_after>>
      /\ \/ /\ MayRegister(k) /\ registered_tee_keys' = registered_tee_keys \cup {k}
            /\ Issue({}, k, "tee", FALSE)
         \/ UNCHANGED <<registered_tee_keys, batches>>
    BY DEF CallbackAddTeeKey
<1>2. /\ k \in TeeKeys /\ ReceiptsType'
      /\ \A t \in DOMAIN receipts' : t \in DOMAIN receipts /\ receipts'[t] = receipts[t]
    BY <1>1, ReceiveFacts, TypeParts DEF Inv, Receipts
<1> HIDE DEF k
<1>3. CapHolds' /\ ContractType'
    <2>1. CASE UNCHANGED registered_tee_keys
        BY <1>1, <2>1, TypeParts DEF Inv, CapHolds, ContractType
    <2>2. CASE MayRegister(k) /\ registered_tee_keys' = registered_tee_keys \cup {k}
        <3>1. /\ IsFiniteSet(registered_tee_keys')
              /\ Cardinality(registered_tee_keys') = Cardinality(registered_tee_keys) + 1
              /\ Cardinality(registered_tee_keys) \in Nat
            BY <2>2, FS_AddElement, FS_CardinalityType DEF Inv, CapHolds, MayRegister
        <3>2. CapHolds' BY <2>2, <3>1, VaultAssumption DEF CapHolds, MayRegister
        <3>3. ContractType' BY <1>1, <1>2, <2>2, TypeParts DEF Inv, ContractType
        <3>4. QED BY <3>2, <3>3
    <2>3. QED BY <1>1, <2>1, <2>2
<1>4. batches' \in Seq(Batches) /\ BatchesJustified
    <2>1. CASE UNCHANGED batches BY <2>1, TypeParts DEF Inv, BatchesJustified
    <2>2. CASE Issue({}, k, "tee", FALSE)
        <3> DEFINE b == [delete |-> {}, add |-> k, role |-> "tee", swap |-> FALSE]
        <3>1. /\ batches' \in Seq(Batches)
              /\ \A i \in 1..Len(batches') :
                    (i \in 1..Len(batches) /\ batches'[i] = batches[i]) \/ batches'[i] = b
            BY <1>2, <2>2, IssueFacts, TypeParts DEF Inv, Keys, Roles
        <3>2. b.role # "full" /\ ~b.swap OBVIOUS
        <3> HIDE DEF b
        <3>3. QED BY <3>1, <3>2 DEF BatchesJustified
    <2>3. QED BY <1>1, <2>1, <2>2
<1>5. TypeOK' BY <1>1, <1>2, <1>3, <1>4, TypeParts DEF Inv, RecoveryType, KeysType
<1>6. Timer' BY <1>1 DEF Inv, Timer
<1>7. ReceiptsJustified BY <1>2 DEF ReceiptsJustified
<1>8. QED BY <1>1, <1>3, <1>4, <1>5, <1>6, <1>7, HandOverKept DEF Inv, TypeOK

\* clear_unused_tee_keys only takes keys away.
LEMMA ClearInv ==
    ASSUME Inv, NEW removed \in SUBSET registered_tee_keys, ClearUnusedTeeKeys(removed)
    PROVE  Inv'
<1> DEFINE b == [delete |-> removed, add |-> None, role |-> "tee", swap |-> FALSE]
<1>1. /\ registered_tee_keys' = registered_tee_keys \ removed
      /\ Issue(removed, None, "tee", FALSE)
      /\ UNCHANGED <<initial_tee_key, recovery, unlocked, exit_window, now, access_keys,
                     receipts, first_after>>
    BY DEF ClearUnusedTeeKeys, RecordWithout
<1>2. CapHolds'
    <2>1. /\ IsFiniteSet(registered_tee_keys)
          /\ Cardinality(registered_tee_keys) \in Nat /\ Cardinality(registered_tee_keys) <= MaxTeeKeys
        BY FS_CardinalityType DEF Inv, CapHolds
    <2>2. /\ IsFiniteSet(registered_tee_keys')
          /\ Cardinality(registered_tee_keys') <= Cardinality(registered_tee_keys)
        BY <1>1, <2>1, FS_Subset
    <2>3. Cardinality(registered_tee_keys') \in Nat BY <2>2, FS_CardinalityType
    <2>4. QED BY <2>1, <2>2, <2>3, VaultAssumption DEF CapHolds
<1>3. removed \in SUBSET TeeKeys BY TypeParts DEF Inv, ContractType
<1>4. /\ batches' \in Seq(Batches)
      /\ \A i \in 1..Len(batches') :
            (i \in 1..Len(batches) /\ batches'[i] = batches[i]) \/ batches'[i] = b
    BY <1>1, <1>3, IssueFacts, TypeParts DEF Inv, Roles
<1>5. b.role # "full" /\ ~b.swap OBVIOUS
<1> HIDE DEF b
<1>6. BatchesJustified BY <1>4, <1>5 DEF BatchesJustified
<1>7. ContractType' BY <1>1, TypeParts DEF Inv, ContractType
<1>8. TypeOK' BY <1>1, <1>4, <1>7, TypeParts DEF Inv, RecoveryType, KeysType, ReceiptsType
<1>9. Timer' BY <1>1 DEF Inv, Timer
<1>10. ReceiptsJustified BY <1>1 DEF ReceiptsJustified
<1>11. QED BY <1>1, <1>2, <1>6, <1>8, <1>9, <1>10, HandOverKept DEF Inv, TypeOK

\* A batch that brings the customer a key when the delay has run out.
LEMMA ParentBatch ==
    ASSUME Inv, NEW delete \in SUBSET TeeKeys, NEW p \in ParentKeys,
           NEW role \in {"call", "full"}, NEW swap \in BOOLEAN, swap => role = "full",
           Issue(delete, p, role, swap), Matured
    PROVE  batches' \in Seq(Batches) /\ BatchesJustified
<1> DEFINE b == [delete |-> delete, add |-> p, role |-> role, swap |-> swap]
<1>1. /\ batches' \in Seq(Batches)
      /\ \A i \in 1..Len(batches') :
            (i \in 1..Len(batches) /\ batches'[i] = batches[i]) \/ batches'[i] = b
    <2>1. p \in Keys \cup {None} /\ role \in Roles /\ batches \in Seq(Batches)
        BY TypeParts DEF Inv, Keys, Roles
    <2>2. QED BY <2>1, IssueFacts
<1>2. (b.role # "full" /\ ~b.swap) \/ (b.role = "full" /\ b.add \in ParentKeys) OBVIOUS
<1> HIDE DEF b
<1>3. QED BY <1>1, <1>2 DEF BatchesJustified

\* unlocked_add_key issues a batch for an unlocked vault.
LEMMA UnlockedAddInv ==
    ASSUME Inv, NEW p \in ParentKeys, NEW full_access \in BOOLEAN, UnlockedAddKey(p, full_access)
    PROVE  Inv'
<1> DEFINE role == IF full_access THEN "full" ELSE "call"
<1>1. /\ Issue({}, p, role, FALSE) /\ unlocked
      /\ UNCHANGED <<initial_tee_key, registered_tee_keys, recovery, unlocked, exit_window, now,
                     access_keys, receipts, first_after>>
    BY DEF UnlockedAddKey, contract
<1>2. Matured BY <1>1 DEF Inv, ParentKeyWaits, Matured
<1>3. role \in {"call", "full"} OBVIOUS
<1> HIDE DEF role
<1>4. batches' \in Seq(Batches) /\ BatchesJustified BY <1>1, <1>2, <1>3, ParentBatch
<1>5. TypeOK'
    BY <1>1, <1>4, TypeParts DEF Inv, ContractType, RecoveryType, KeysType, ReceiptsType
<1>6. CapHolds' /\ Timer' BY <1>1 DEF Inv, CapHolds, Timer
<1>7. ReceiptsJustified BY <1>1 DEF ReceiptsJustified
<1>8. QED BY <1>1, <1>4, <1>5, <1>6, <1>7, HandOverKept DEF Inv, TypeOK

\* The steps about keys keep the invariant.
LEMMA KeyStepInv == ASSUME Inv, KeyStep PROVE Inv'
BY ProposeInv, AddTeeKeyInv, ClearInv, UnlockedAddInv DEF KeyStep

-----------------------------------------------------------------------------
\* The steps of a recovery.

\* A recovery that begins when none is running.
LEMMA BeginFacts ==
    ASSUME Inv, NEW delay \in Nat, NEW trigger \in {"cessation", "unilateral"},
           recovery = None, BeginRecovery(delay, trigger), UNCHANGED now
    PROVE  RecoveryType' /\ Timer' /\ (first_after = None \/ first_after' = first_after)
<1> DEFINE r == [finalize_after |-> now + delay,
                 finalize_before |-> now + delay + FinalizeWindow, trigger |-> trigger]
<1>1. now \in Nat /\ first_after \in Nat \cup {None} BY TypeParts DEF Inv, RecoveryType
<1>2. r \in Recoveries /\ r # None /\ r.finalize_after = now + delay
    <2>1. r \in Recoveries BY <1>1, VaultAssumption DEF Recoveries
    <2>2. r # None BY <2>1, VaultAssumption
    <2>3. QED BY <2>1, <2>2
<1>3. recovery' = r /\ first_after' = IF first_after = None THEN now + delay ELSE first_after
    BY DEF BeginRecovery
<1> HIDE DEF r
<1>4. first_after # None => first_after <= now BY DEF Inv, Timer
<1>5. first_after' \in Nat /\ first_after' <= now + delay BY <1>1, <1>3, <1>4
<1>6. RecoveryType' BY <1>2, <1>3, <1>5 DEF RecoveryType
<1>7. Timer' BY <1>2, <1>3, <1>5, VaultAssumption DEF Timer
<1>8. QED BY <1>3, <1>6, <1>7

\* The permissionless initiate call only asks the DAO.
LEMMA InitiateInv == ASSUME Inv, InitiateRecovery PROVE Inv'
<1>1. /\ Send("initiate", None)
      /\ UNCHANGED <<initial_tee_key, registered_tee_keys, recovery, unlocked, exit_window, now,
                     access_keys, batches, first_after>>
    BY DEF InitiateRecovery, contract
<1>2. /\ ReceiptsType'
      /\ \A s \in DOMAIN receipts' : \/ receipts'[s].kind = "initiate"
                                     \/ s \in DOMAIN receipts /\ receipts'[s] = receipts[s]
    <2>1. [kind |-> "initiate", key |-> None] \in Receipts BY DEF Receipts
    <2>2. QED BY <1>1, <2>1, SendFacts, TypeParts DEF Inv
<1>3. TypeOK'
    BY <1>1, <1>2, TypeParts DEF Inv, ContractType, RecoveryType, KeysType
<1>4. CapHolds' /\ Timer' BY <1>1 DEF Inv, CapHolds, Timer
<1>5. ReceiptsJustified BY <1>2 DEF ReceiptsJustified
<1>6. BatchesJustified BY <1>1 DEF BatchesJustified
<1>7. QED BY <1>1, <1>3, <1>4, <1>5, <1>6, HandOverKept DEF Inv, TypeOK

\* A recovery begins from the callback or from the parent's call.
LEMMA BeginInv ==
    ASSUME Inv,
           \/ \E s, answer : CallbackInitiate(s, answer)
           \/ UnilateralInitiateRecovery
    PROVE  Inv'
<1>1. UNCHANGED <<initial_tee_key, registered_tee_keys, unlocked, exit_window, now,
                  access_keys, batches>>
    BY DEF CallbackInitiate, UnilateralInitiateRecovery, chain
<1>2. /\ ReceiptsType'
      /\ \A t \in DOMAIN receipts' : t \in DOMAIN receipts /\ receipts'[t] = receipts[t]
    <2>1. CASE UNCHANGED receipts BY <2>1, TypeParts DEF Inv, ReceiptsType
    <2>2. ASSUME NEW s, Receive(s, "initiate") PROVE <1>2!1 /\ <1>2!2
        BY <2>2, ReceiveFacts, TypeParts DEF Inv
    <2>3. QED BY <2>1, <2>2 DEF CallbackInitiate, UnilateralInitiateRecovery, chain
<1>3. RecoveryType' /\ Timer' /\ (first_after = None \/ first_after' = first_after)
    <2>1. CASE UNCHANGED <<recovery, first_after>>
        BY <1>1, <2>1, TypeParts DEF Inv, RecoveryType, Timer
    <2>2. CASE recovery = None /\ BeginRecovery(CessationDelay, "cessation")
        BY <1>1, <2>2, BeginFacts, VaultAssumption
    <2>3. CASE recovery = None /\ BeginRecovery(exit_window, "unilateral")
        <3>1. exit_window \in Nat BY TypeParts, VaultAssumption DEF Inv, ContractType
        <3>2. QED BY <1>1, <2>3, <3>1, BeginFacts
    <2>4. QED
        BY <2>1, <2>2, <2>3 DEF CallbackInitiate, MayBegin, UnilateralInitiateRecovery
<1>4. TypeOK' BY <1>1, <1>2, <1>3, TypeParts DEF Inv, ContractType, KeysType
<1>5. CapHolds' BY <1>1 DEF Inv, CapHolds
<1>6. ReceiptsJustified BY <1>2 DEF ReceiptsJustified
<1>7. BatchesJustified BY <1>1 DEF BatchesJustified
<1>8. QED BY <1>1, <1>3, <1>4, <1>5, <1>6, <1>7, HandOverKept DEF Inv, TypeOK

\* set_exit_window touches nothing else.
LEMMA SetExitWindowInv == ASSUME Inv, NEW w \in Windows, SetExitWindow(w) PROVE Inv'
<1>1. /\ exit_window' = w
      /\ UNCHANGED <<initial_tee_key, registered_tee_keys, recovery, unlocked, now, access_keys,
                     batches, receipts, first_after>>
    BY DEF SetExitWindow, chain
<1>2. TypeOK'
    BY <1>1, TypeParts DEF Inv, ContractType, RecoveryType, KeysType, ReceiptsType
<1>3. CapHolds' /\ Timer' BY <1>1 DEF Inv, CapHolds, Timer
<1>4. ReceiptsJustified /\ BatchesJustified BY <1>1 DEF ReceiptsJustified, BatchesJustified
<1>5. QED BY <1>1, <1>2, <1>3, <1>4, HandOverKept DEF Inv, TypeOK

\* Clearing a recovery is safe once the delay has run out.
LEMMA ClearRecovery ==
    ASSUME Inv, Matured, recovery' \in {recovery, None}, UNCHANGED <<first_after, now>>
    PROVE  RecoveryType' /\ Timer'
<1>1. RecoveryType' BY TypeParts DEF Inv, RecoveryType
<1>2. Timer' BY DEF Inv, Timer, Matured
<1>3. QED BY <1>1, <1>2

\* finalize_recovery acts only when the delay has run out.
LEMMA FinalizeInv == ASSUME Inv, NEW p \in ParentKeys, FinalizeRecovery(p) PROVE Inv'
<1>1. /\ recovery # None /\ now >= recovery.finalize_after
      /\ recovery' \in {recovery, None}
      /\ Send("finalize", p) \/ UNCHANGED receipts
      /\ DispatchSwap(p) \/ UNCHANGED batches
      /\ UNCHANGED <<initial_tee_key, registered_tee_keys, unlocked, exit_window, now,
                     access_keys, first_after>>
    BY DEF FinalizeRecovery, DelayElapsed
<1>2. Matured
    <2>1. first_after # None /\ first_after <= recovery.finalize_after BY <1>1 DEF Inv, Timer
    <2>2. first_after \in Nat /\ recovery.finalize_after \in Nat /\ now \in Nat
        BY <1>1, <2>1 DEF Inv, TypeOK, Recoveries
    <2>3. now >= recovery.finalize_after BY <1>1
    <2>4. first_after # None /\ first_after <= now BY ONLY <2>1, <2>2, <2>3
    <2>5. QED BY ONLY <2>4 DEF Matured
<1>3. ReceiptsType' /\ ReceiptsJustified
    <2>1. CASE UNCHANGED receipts BY <2>1, TypeParts DEF Inv, ReceiptsType, ReceiptsJustified
    <2>2. CASE Send("finalize", p)
        <3>1. [kind |-> "finalize", key |-> p] \in Receipts BY DEF Receipts
        <3>2. /\ ReceiptsType'
              /\ \A s \in DOMAIN receipts' :
                    \/ receipts'[s].kind = "finalize"
                    \/ s \in DOMAIN receipts /\ receipts'[s] = receipts[s]
            BY <2>2, <3>1, SendFacts, TypeParts DEF Inv
        <3>3. QED BY <1>2, <3>2 DEF ReceiptsJustified
    <2>3. QED BY <1>1, <2>1, <2>2
<1>4. batches' \in Seq(Batches) /\ BatchesJustified
    <2>1. CASE UNCHANGED batches BY <2>1, TypeParts DEF Inv, BatchesJustified
    <2>2. CASE DispatchSwap(p)
        <3>1. KnownTeeKeys \in SUBSET TeeKeys BY TypeParts DEF Inv, ContractType, KnownTeeKeys
        <3>2. QED BY <1>2, <2>2, <3>1, ParentBatch DEF DispatchSwap
    <2>3. QED BY <1>1, <2>1, <2>2
<1>5. RecoveryType' /\ Timer' BY <1>1, <1>2, ClearRecovery
<1>6. TypeOK' BY <1>1, <1>3, <1>4, <1>5, TypeParts DEF Inv, ContractType, KeysType
<1>7. CapHolds' BY <1>1 DEF Inv, CapHolds
<1>8. QED BY <1>1, <1>3, <1>4, <1>5, <1>6, <1>7, HandOverKept DEF Inv, TypeOK

\* callback_finalize runs only for a finalize_recovery whose delay had run out.
LEMMA CallbackFinalizeInv == ASSUME Inv, NEW s, NEW answer, CallbackFinalize(s, answer) PROVE Inv'
<1> DEFINE p == receipts[s].key
<1>1. /\ Receive(s, "finalize")
      /\ recovery' \in {recovery, None}
      /\ DispatchSwap(p) \/ UNCHANGED batches
      /\ UNCHANGED <<initial_tee_key, registered_tee_keys, unlocked, exit_window, now,
                     access_keys, first_after>>
    BY DEF CallbackFinalize
<1>2. /\ p \in ParentKeys /\ ReceiptsType'
      /\ s \in DOMAIN receipts /\ receipts[s].kind = "finalize"
      /\ \A t \in DOMAIN receipts' : t \in DOMAIN receipts /\ receipts'[t] = receipts[t]
    <2>1. ReceiptsType BY TypeParts DEF Inv
    <2>2. /\ ReceiptsType'
          /\ s \in DOMAIN receipts /\ receipts[s].kind = "finalize"
          /\ \A t \in DOMAIN receipts' : t \in DOMAIN receipts /\ receipts'[t] = receipts[t]
        BY ONLY <1>1, <2>1, ReceiveFacts
    <2>3. receipts[s] \in Receipts BY ONLY <2>1, <2>2 DEF ReceiptsType
    <2>4. p \in ParentKeys BY ONLY <2>2, <2>3 DEF Receipts
    <2>5. QED BY ONLY <2>2, <2>4
<1> HIDE DEF p
<1>3. Matured BY <1>2 DEF Inv, ParentKeyWaits, Matured
<1>4. ReceiptsJustified BY <1>2 DEF ReceiptsJustified
<1>5. batches' \in Seq(Batches) /\ BatchesJustified
    <2>1. CASE UNCHANGED batches BY <2>1, TypeParts DEF Inv, BatchesJustified
    <2>2. CASE DispatchSwap(p)
        <3>1. KnownTeeKeys \in SUBSET TeeKeys BY TypeParts DEF Inv, ContractType, KnownTeeKeys
        <3>2. QED BY <1>2, <1>3, <2>2, <3>1, ParentBatch DEF DispatchSwap
    <2>3. QED BY <1>1, <2>1, <2>2
<1>6. RecoveryType' /\ Timer' BY <1>1, <1>3, ClearRecovery
<1>7. TypeOK' BY <1>1, <1>2, <1>5, <1>6, TypeParts DEF Inv, ContractType, KeysType
<1>8. CapHolds' BY <1>1 DEF Inv, CapHolds
<1>9. QED BY <1>1, <1>4, <1>5, <1>6, <1>7, <1>8, HandOverKept DEF Inv, TypeOK

\* callback_after_swap unlocks only after a swap that succeeded.
LEMMA AfterSwapInv == ASSUME Inv, NEW s, CallbackAfterSwap(s) PROVE Inv'
<1>1. PICK kind \in {"swapped", "swap_failed"} :
        /\ Receive(s, kind)
        /\ IF SwapSucceeded(kind)
           THEN unlocked' = TRUE /\ recovery' = None /\ initial_tee_key' = None
                /\ registered_tee_keys' = {}
           ELSE UNCHANGED <<unlocked, recovery, initial_tee_key, registered_tee_keys>>
    BY DEF CallbackAfterSwap
<1>2. UNCHANGED <<exit_window, now, access_keys, batches, first_after>> BY DEF CallbackAfterSwap
<1>3. /\ ReceiptsType' /\ s \in DOMAIN receipts /\ receipts[s].kind = kind
      /\ \A t \in DOMAIN receipts' : t \in DOMAIN receipts /\ receipts'[t] = receipts[t]
    BY <1>1, ReceiveFacts, TypeParts DEF Inv
<1>4. ReceiptsJustified /\ BatchesJustified
    BY <1>2, <1>3 DEF ReceiptsJustified, BatchesJustified
<1>5. CASE kind = "swapped"
    <2>1. unlocked' = TRUE /\ recovery' = None /\ initial_tee_key' = None /\ registered_tee_keys' = {}
        BY <1>1, <1>5 DEF SwapSucceeded
    <2>2. unlocked' \in BOOLEAN BY ONLY <2>1, Zenon
    <2>3. Matured BY <1>3, <1>5 DEF Inv, ParentKeyWaits, Matured
    <2>4. RecoveryType' /\ Timer' BY <1>2, <2>1, <2>3, ClearRecovery
    <2>5. ContractType' BY <1>2, <2>1, TypeParts DEF Inv, ContractType
    <2>6. TypeOK' BY <1>2, <1>3, <2>2, <2>4, <2>5, TypeParts DEF Inv, KeysType
    <2>7. CapHolds'
        <3>1. IsFiniteSet({}) /\ Cardinality({}) = 0 BY FS_EmptySet
        <3>2. QED BY <2>1, <3>1, VaultAssumption DEF CapHolds
    <2>8. QED BY <1>2, <1>3, <1>4, <1>5, <2>4, <2>6, <2>7, HandOverKept DEF Inv, TypeOK
<1>6. CASE kind = "swap_failed"
    <2>1. UNCHANGED <<unlocked, recovery, initial_tee_key, registered_tee_keys>>
        BY <1>1, <1>6 DEF SwapSucceeded
    <2>2. TypeOK'
        BY <1>2, <1>3, <2>1, TypeParts DEF Inv, ContractType, RecoveryType, KeysType
    <2>3. CapHolds' /\ Timer' BY <1>2, <2>1 DEF Inv, CapHolds, Timer
    <2>4. QED BY <1>2, <1>4, <2>1, <2>2, <2>3, HandOverKept DEF Inv, TypeOK
<1>7. QED BY <1>1, <1>5, <1>6

\* The steps of a recovery keep the invariant.
LEMMA RecoveryStepInv == ASSUME Inv, RecoveryStep PROVE Inv'
BY InitiateInv, BeginInv, SetExitWindowInv, FinalizeInv, CallbackFinalizeInv, AfterSwapInv
   DEF RecoveryStep

-----------------------------------------------------------------------------
\* The chain's steps.

\* What a batch that succeeds makes of the account's keys.
LEMMA AfterFacts ==
    ASSUME KeysType, NEW b \in Batches, Succeeds(b, access_keys),
           NEW keys, keys = After(b, access_keys)
    PROVE  /\ DOMAIN keys \subseteq Keys /\ keys \in [DOMAIN keys -> Roles]
           /\ \A k \in DOMAIN keys :
                 \/ k \in DOMAIN access_keys /\ keys[k] = access_keys[k]
                 \/ k = b.add /\ keys[k] = b.role
           /\ \A k \in DOMAIN access_keys \ b.delete :
                 k \in DOMAIN keys /\ keys[k] = access_keys[k]
           /\ b.add # None => b.add \in DOMAIN keys /\ keys[b.add] = b.role
<1> DEFINE rest == DropAll(access_keys, b.delete)
<1>1. /\ b.delete \subseteq TeeKeys /\ b.add \in Keys \cup {None} /\ b.role \in Roles
    BY DEF Batches
<1>2. /\ DOMAIN rest = DOMAIN access_keys \ b.delete
      /\ \A k \in DOMAIN rest : rest[k] = access_keys[k]
    BY DEF DropAll
<1>3. b.add \notin DOMAIN rest BY <1>2 DEF Succeeds
<1> HIDE DEF rest
<1>4. CASE b.add = None
    <2>1. keys = rest BY <1>4 DEF After, rest
    <2>2. rest \in [DOMAIN rest -> Roles] BY <1>2 DEF KeysType, rest, DropAll
    <2>3. DOMAIN keys \subseteq Keys BY <1>2, <2>1 DEF KeysType
    <2>4. \A k \in DOMAIN keys : k \in DOMAIN access_keys /\ keys[k] = access_keys[k]
        BY <1>2, <2>1
    <2>5. \A k \in DOMAIN access_keys \ b.delete : k \in DOMAIN keys /\ keys[k] = access_keys[k]
        BY <1>2, <2>1
    <2>6. keys \in [DOMAIN keys -> Roles] BY <2>1, <2>2
    <2>7. QED BY <1>4, <2>3, <2>4, <2>5, <2>6
<1>5. CASE b.add # None
    <2>1. keys = Put(rest, b.add, b.role) BY <1>5 DEF After, rest
    <2>2. /\ DOMAIN keys = DOMAIN rest \cup {b.add} /\ keys[b.add] = b.role
          /\ \A k \in DOMAIN rest : keys[k] = rest[k]
          /\ keys \in [DOMAIN keys -> Roles]
        BY <1>1, <1>2, <1>3, <2>1 DEF KeysType, Put
    <2>3. DOMAIN keys \subseteq Keys BY <1>1, <1>2, <1>5, <2>2 DEF KeysType
    <2>4. \A k \in DOMAIN keys :
             \/ k \in DOMAIN access_keys /\ keys[k] = access_keys[k]
             \/ k = b.add /\ keys[k] = b.role
        BY <1>2, <2>2
    <2>5. \A k \in DOMAIN access_keys \ b.delete : k \in DOMAIN keys /\ keys[k] = access_keys[k]
        BY <1>2, <2>2
    <2>6. b.add \in DOMAIN keys /\ keys[b.add] = b.role /\ keys \in [DOMAIN keys -> Roles] BY <2>2
    <2>7. QED BY <2>3, <2>4, <2>5, <2>6
<1>6. QED BY <1>4, <1>5

\* A batch that runs changes the keys as issued, or not at all.
LEMMA RunBatchInv == ASSUME Inv, RunBatch PROVE Inv'
<1> DEFINE b == Head(batches)
           done == Succeeds(b, access_keys)
           kind == IF done THEN "swapped" ELSE "swap_failed"
<1>1. /\ batches # <<>> /\ batches' = Tail(batches)
      /\ access_keys' = IF done THEN After(b, access_keys) ELSE access_keys
      /\ IF b.swap THEN Send(kind, None) ELSE UNCHANGED receipts
      /\ UNCHANGED <<initial_tee_key, registered_tee_keys, recovery, unlocked, exit_window, now,
                     first_after>>
    BY DEF RunBatch, contract
<1>2. batches \in Seq(Batches) BY TypeParts DEF Inv
<1>3. /\ b \in Batches /\ Len(batches) >= 1 /\ b = batches[1] BY <1>1, <1>2
<1>4. /\ batches' \in Seq(Batches)
      /\ \A i \in 1..Len(batches') : i + 1 \in 1..Len(batches) /\ batches'[i] = batches[i + 1]
    BY <1>1, <1>2
<1>5. /\ b.role = "full" => b.add \in ParentKeys /\ Matured
      /\ b.swap => b.role = "full"
      /\ b.delete \subseteq TeeKeys
    <2>1. 1 \in 1..Len(batches) BY <1>2, <1>3
    <2>2. b.delete \subseteq TeeKeys BY <1>3 DEF Batches
    <2>3. QED BY <1>3, <2>1, <2>2 DEF Inv, FullIsParents, ParentKeyWaits, Matured
<1>6. KeysType BY TypeParts DEF Inv
<1>7. /\ KeysType'
      /\ \A k \in DOMAIN access_keys' :
            \/ k \in DOMAIN access_keys /\ access_keys'[k] = access_keys[k]
            \/ k = b.add /\ access_keys'[k] = b.role
      /\ \A k \in DOMAIN access_keys \ b.delete :
            k \in DOMAIN access_keys' /\ access_keys'[k] = access_keys[k]
      /\ (done /\ b.add # None) => b.add \in DOMAIN access_keys' /\ access_keys'[b.add] = b.role
    <2> HIDE DEF b
    <2>1. CASE ~done BY <1>1, <1>6, <2>1 DEF KeysType
    <2>2. CASE done
        <3>1. access_keys' = After(b, access_keys) BY <1>1, <2>2
        <3>2. QED BY <1>3, <1>6, <2>2, <3>1, AfterFacts DEF KeysType
    <2>3. QED BY <2>1, <2>2
<1>8. /\ ReceiptsType'
      /\ \A s \in DOMAIN receipts' :
            \/ s \in DOMAIN receipts /\ receipts'[s] = receipts[s]
            \/ receipts'[s].kind = "swap_failed"
            \/ receipts'[s].kind = "swapped" /\ done /\ b.swap
    <2> HIDE DEF b, done
    <2>1. CASE ~b.swap BY <1>1, <2>1, TypeParts DEF Inv, ReceiptsType
    <2>2. CASE b.swap
        <3>1. Send(kind, None) BY <1>1, <2>2
        <3>2. [kind |-> kind, key |-> None] \in Receipts BY DEF Receipts
        <3>3. /\ ReceiptsType'
              /\ \A s \in DOMAIN receipts' :
                    \/ receipts'[s].kind = kind
                    \/ s \in DOMAIN receipts /\ receipts'[s] = receipts[s]
            BY <3>1, <3>2, SendFacts, TypeParts DEF Inv
        <3>4. QED BY <2>2, <3>3
    <2>3. QED BY <2>1, <2>2
<1> HIDE DEF b, done, kind
<1>9. FullIsParents'
    <2>1. \A k \in DOMAIN access_keys' : access_keys'[k] = "full" => k \in ParentKeys
        BY <1>5, <1>7 DEF Inv, FullIsParents
    <2>2. QED BY <1>4, <2>1 DEF Inv, FullIsParents
<1>10. HandedOver'
    <2>1. ASSUME NEW k \in ParentKeys \cap DOMAIN access_keys, access_keys[k] = "full"
          PROVE  k \in ParentKeys \cap DOMAIN access_keys' /\ access_keys'[k] = "full"
        BY <1>5, <1>7, <2>1, VaultAssumption
    <2>2. CASE unlocked' BY <1>1, <2>1, <2>2 DEF Inv, HandedOver
    <2>3. ASSUME NEW s \in DOMAIN receipts', receipts'[s].kind = "swapped"
          PROVE  \E k \in ParentKeys \cap DOMAIN access_keys' : access_keys'[k] = "full"
        <3>1. CASE s \in DOMAIN receipts /\ receipts'[s] = receipts[s]
            BY <2>1, <2>3, <3>1 DEF Inv, HandedOver
        <3>2. CASE done /\ b.swap
            <4>1. b.add \in ParentKeys /\ b.add # None BY <1>5, <3>2, VaultAssumption DEF Keys
            <4>2. QED BY <1>5, <1>7, <3>2, <4>1
        <3>3. QED BY <1>8, <2>3, <3>1, <3>2
    <2>4. QED BY <2>2, <2>3 DEF HandedOver
<1>11. ParentKeyWaits'
    <2>1. Matured => first_after' # None /\ now' >= first_after' BY <1>1 DEF Matured
    <2>2. ASSUME unlocked' PROVE Matured BY <1>1, <2>2 DEF Inv, ParentKeyWaits, Matured
    <2>3. ASSUME NEW k \in DOMAIN access_keys', access_keys'[k] = "full" PROVE Matured
        BY <1>5, <1>7, <2>3 DEF Inv, ParentKeyWaits, Matured
    <2>4. ASSUME NEW i \in 1..Len(batches'), batches'[i].role = "full" PROVE Matured
        BY <1>4, <2>4 DEF Inv, ParentKeyWaits, Matured
    <2>5. ASSUME NEW s \in DOMAIN receipts', receipts'[s].kind \in {"finalize", "swapped"}
          PROVE  Matured
        BY <1>5, <1>8, <2>5 DEF Inv, ParentKeyWaits, Matured
    <2>6. QED BY <2>1, <2>2, <2>3, <2>4, <2>5 DEF ParentKeyWaits
<1>12. TypeOK'
    BY <1>1, <1>4, <1>7, <1>8, TypeParts DEF Inv, ContractType, RecoveryType
<1>13. CapHolds' /\ Timer' BY <1>1 DEF Inv, CapHolds, Timer
<1>14. QED BY <1>9, <1>10, <1>11, <1>12, <1>13 DEF Inv

\* Time only moves forward.
LEMMA TickInv == ASSUME Inv, Tick PROVE Inv'
<1>1. /\ now' = now + 1
      /\ UNCHANGED <<initial_tee_key, registered_tee_keys, recovery, unlocked, exit_window,
                     access_keys, batches, receipts, first_after>>
    BY DEF Tick, contract
<1>2. now \in Nat /\ now' \in Nat /\ now' >= now BY <1>1, TypeParts DEF Inv
<1>3. TypeOK'
    BY <1>1, <1>2, TypeParts DEF Inv, ContractType, RecoveryType, KeysType, ReceiptsType
<1>4. CapHolds' BY <1>1 DEF Inv, CapHolds
<1>5. Timer'
    <2>1. first_after \in Nat \cup {None} BY TypeParts DEF Inv, RecoveryType
    <2>2. QED BY <1>1, <1>2, <2>1 DEF Inv, Timer
<1>6. ReceiptsJustified /\ BatchesJustified BY <1>1 DEF ReceiptsJustified, BatchesJustified
<1>7. QED BY <1>1, <1>2, <1>3, <1>4, <1>5, <1>6, HandOverKept DEF Inv

\* The invariant holds in every reachable state.
THEOREM InvAlways == Spec => []Inv
<1>1. ASSUME Inv, [Next]_vars PROVE Inv'
    <2>1. CASE UNCHANGED vars
        <3>1. UNCHANGED <<initial_tee_key, registered_tee_keys, recovery, unlocked, exit_window,
                          now, access_keys, batches, receipts, first_after>>
            BY <2>1 DEF vars, contract, chain
        <3>2. TypeOK' BY <1>1, <3>1 DEF Inv, TypeOK
        <3>3. CapHolds' /\ Timer' BY <1>1, <3>1 DEF Inv, CapHolds, Timer
        <3>4. ReceiptsJustified /\ BatchesJustified
            BY <3>1 DEF ReceiptsJustified, BatchesJustified
        <3>5. QED BY <1>1, <3>1, <3>2, <3>3, <3>4, HandOverKept DEF Inv, TypeOK
    <2>2. QED BY <1>1, <2>1, KeyStepInv, RecoveryStepInv, RunBatchInv, TickInv DEF Next
<1>2. QED BY <1>1, InitInv, PTL DEF Spec

\* Every field of the vault keeps its type.
THEOREM VaultTypeCorrect == Spec => []TypeOK
BY InvAlways, PTL DEF Inv

\* The cap on registered TEE keys holds however many proposals race.
THEOREM CapAlwaysHolds == Spec => []CapHolds
BY InvAlways, PTL DEF Inv

\* An unlocked vault has the customer's full-access key on its account.
THEOREM UnlockedIsTheParents == Spec => []UnlockedHasParentKey
<1>1. Inv => UnlockedHasParentKey BY DEF Inv, HandedOver, UnlockedHasParentKey
<1>2. QED BY <1>1, InvAlways, PTL

\* Nothing is handed over before the delay of a recovery has run out.
THEOREM ParentKeyAlwaysWaits == Spec => []ParentKeyWaits
BY InvAlways, PTL DEF Inv

\* A recovery in progress is never re-timed.
THEOREM RecoveryAlwaysKept == Spec => RecoveryKept
<1>1. ASSUME [Next]_vars, recovery # None PROVE recovery' \in {recovery, None}
    <2>1. ASSUME KeyStep PROVE recovery' = recovery
        BY <2>1 DEF KeyStep, ProposeTeeKey, CallbackAddTeeKey, ClearUnusedTeeKeys, UnlockedAddKey,
                    contract
    <2>2. ASSUME RecoveryStep PROVE recovery' \in {recovery, None}
        <3>1. ASSUME NEW s, NEW answer, CallbackInitiate(s, answer) PROVE recovery' = recovery
            BY <1>1, <3>1 DEF CallbackInitiate, MayBegin
        <3>2. ASSUME NEW p, FinalizeRecovery(p) PROVE recovery' \in {recovery, None}
            BY <3>2 DEF FinalizeRecovery
        <3>3. ASSUME NEW s, NEW answer, CallbackFinalize(s, answer)
              PROVE  recovery' \in {recovery, None}
            BY <3>3 DEF CallbackFinalize
        <3>4. ASSUME NEW s, CallbackAfterSwap(s) PROVE recovery' \in {recovery, None}
            BY <3>4 DEF CallbackAfterSwap
        <3>5. ASSUME NEW w, SetExitWindow(w) PROVE recovery' = recovery
            BY <3>5 DEF SetExitWindow
        <3>6. CASE InitiateRecovery BY <3>6 DEF InitiateRecovery, contract
        <3>7. CASE UnilateralInitiateRecovery BY <1>1, <3>7 DEF UnilateralInitiateRecovery
        <3>8. QED BY <2>2, <3>1, <3>2, <3>3, <3>4, <3>5, <3>6, <3>7 DEF RecoveryStep
    <2>3. ASSUME RunBatch \/ Tick \/ UNCHANGED vars PROVE recovery' = recovery
        BY <2>3 DEF RunBatch, Tick, contract, vars
    <2>4. QED BY <1>1, <2>1, <2>2, <2>3 DEF Next
<1>2. [Next]_vars => [recovery # None => recovery' \in {recovery, None}]_vars BY <1>1
<1>3. QED BY <1>2, PTL DEF Spec, RecoveryKept
=============================================================================
