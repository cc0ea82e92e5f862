---------------------------- MODULE TableProofs -----------------------------
(***************************************************************************)
(* Proofs about wallets and secrets: what an edit of a locked policy needs,*)
(* what the keystore signs with a wallet's keys, what becomes of a secret  *)
(* on its way to its row, and the rows themselves; for any accounts,       *)
(* wallets, policies, requests, names and rows from before.                *)
(***************************************************************************)
EXTENDS Secrets, WalletSigning, SecretUpdates, FiniteSetTheorems, TLAPS

-----------------------------------------------------------------------------
\* Wallet policies.

WalletTypes ==
    /\ DOMAIN wallet_policies \subseteq Wallets
    /\ wallet_policies \in [DOMAIN wallet_policies -> Entries]
    /\ policy_meta \in [DOMAIN policy_meta -> Metas]
    /\ now \in Nat
    /\ signatures \subseteq Signatures
    /\ filed \subseteq signatures
    /\ job \in Jobs \cup {None}
    /\ life \in [Wallets -> Nat]

\* A version and a lock are stored only beside a policy.
MetaInPlace == DOMAIN policy_meta \subseteq DOMAIN wallet_policies

\* What the handler read is still what the chain says while the version it will sign
\* for is the next one, unless the policy was deleted in between.
JobFits ==
    job # None =>
        /\ job.life <= life[job.wallet]
        /\ job.life = life[job.wallet] =>
             /\ job.version <= Meta(job.wallet).version + 1
             /\ job.version = Meta(job.wallet).version + 1 =>
                  job.locked = Meta(job.wallet).locked /\ job.base = PolicyOf(job.wallet)

\* A signature that may still be filed over a locked policy carries the votes of that
\* policy's approvers.
SignatureFits(s) ==
    /\ s.life <= life[s.wallet]
    /\ s.life = life[s.wallet] =>
         /\ s.version <= Meta(s.wallet).version + 1
         /\ (s.version = Meta(s.wallet).version + 1 /\ Meta(s.wallet).locked) =>
               Approved(PolicyOf(s.wallet), s.approved_by)
SignaturesFit == \A s \in signatures : SignatureFits(s)

\* A filed signature is for a version that has been reached.
FiledReached == \A s \in filed : s.life = life[s.wallet] => s.version <= Meta(s.wallet).version

\* A wallet its controller froze is frozen on chain.
StoppedIsFrozen == \A w \in stopped : w \in DOMAIN wallet_policies /\ wallet_policies[w].frozen = TRUE

WalletInv ==
    WalletTypes /\ MetaInPlace /\ JobFits /\ SignaturesFit /\ FiledReached /\ StoppedIsFrozen

\* What a step does to versions, locks and policies decides the rest: a step that leaves
\* them alone, for every wallet, keeps what rests on them.
Same(w) == Meta(w)' = Meta(w) /\ PolicyOf(w)' = PolicyOf(w)

\* A fresh contract, with any rows from before versions.
LEMMA WalletInitially == WalletInit => WalletInv
<1> SUFFICES ASSUME WalletInit PROVE WalletInv  OBVIOUS
<1>1. WalletTypes
    <2>1. DOMAIN wallet_policies \subseteq Wallets /\ wallet_policies \in [DOMAIN wallet_policies -> Entries]
        BY WalletAssumption, Zenon DEF WalletInit
    <2>2. policy_meta \in [DOMAIN policy_meta -> Metas]  BY Zenon DEF WalletInit, EmptyMap
    <2> QED BY <2>1, <2>2, Zenon DEF WalletInit, WalletTypes
<1>2. MetaInPlace  BY Zenon DEF WalletInit, MetaInPlace, EmptyMap
<1>3. JobFits /\ SignaturesFit /\ FiledReached  BY Zenon DEF WalletInit, JobFits, SignaturesFit, FiledReached
<1>4. StoppedIsFrozen  BY <1>1, Zenon DEF WalletInit, StoppedIsFrozen, WalletTypes, Entries
<1> QED BY <1>1, <1>2, <1>3, <1>4, Zenon DEF WalletInv

\* Steps that leave the rows, and so every version and policy, alone.
LEMMA RowsAlone ==
    ASSUME UNCHANGED <<wallet_policies, policy_meta>> PROVE \A w : Same(w)
BY Zenon DEF Same, Meta, PolicyOf, GetOr

\* Freezing and thawing change the flag of one row.
LEMMA FreezeFacts ==
    ASSUME WalletInv, NEW w \in DOMAIN wallet_policies, NEW b \in BOOLEAN,
           wallet_policies' = [wallet_policies EXCEPT ![w].frozen = b], UNCHANGED policy_meta
    PROVE  /\ DOMAIN wallet_policies' = DOMAIN wallet_policies
           /\ wallet_policies' \in [DOMAIN wallet_policies' -> Entries]
           /\ wallet_policies'[w].frozen = b
           /\ \A v \in DOMAIN wallet_policies : v # w => wallet_policies'[v] = wallet_policies[v]
           /\ \A v : Same(v)
<1>0. \A v \in DOMAIN wallet_policies : wallet_policies[v] \in Entries  BY Zenon DEF WalletInv, WalletTypes
<1>1. wallet_policies[w] \in Entries  BY <1>0, Zenon
<1> DEFINE new == [wallet_policies[w] EXCEPT !.frozen = b]
<1>2. new \in Entries /\ new.frozen = b /\ new.policy = wallet_policies[w].policy  BY <1>1, Zenon DEF Entries
<1>3. wallet_policies' = [wallet_policies EXCEPT ![w] = new]  BY Zenon
<1> HIDE DEF new
<1>4. /\ DOMAIN wallet_policies' = DOMAIN wallet_policies /\ wallet_policies'[w] = new
      /\ \A v \in DOMAIN wallet_policies : v # w => wallet_policies'[v] = wallet_policies[v]
    BY <1>3, Zenon
<1>5. wallet_policies' \in [DOMAIN wallet_policies' -> Entries]  BY <1>0, <1>2, <1>3, Zenon DEF WalletInv, WalletTypes
<1>6. \A v : PolicyOf(v)' = PolicyOf(v)  BY <1>2, <1>4, Zenon DEF PolicyOf
<1>7. \A v : Meta(v)' = Meta(v)  BY Zenon DEF Meta, GetOr
<1> QED BY <1>2, <1>4, <1>5, <1>6, <1>7, Zenon DEF Same

\* As long as versions, policies and lives stay, so does what rests on them.
LEMMA SameKeeps ==
    ASSUME WalletInv, \A w : Same(w), UNCHANGED life
    PROVE  /\ \A s \in signatures : SignatureFits(s)'
           /\ UNCHANGED job => JobFits'
           /\ UNCHANGED filed => FiledReached'
<1>1. ASSUME NEW s \in signatures PROVE SignatureFits(s)'
    <2>1. SignatureFits(s) /\ Same(s.wallet)  BY Zenon DEF WalletInv, SignaturesFit
    <2> QED BY <2>1, Zenon DEF SignatureFits, Same
<1>2. ASSUME UNCHANGED job PROVE JobFits'
    BY <1>2, Zenon DEF WalletInv, JobFits, Same
<1>3. ASSUME UNCHANGED filed PROVE FiledReached'
    BY <1>3, Zenon DEF WalletInv, FiledReached, Same
<1> QED BY <1>1, <1>2, <1>3, Zenon

\* store_wallet_policy: the one step that moves a version on.
LEMMA StoreFacts ==
    ASSUME WalletInv, NEW s \in signatures, NEW to \in Accounts \cup {None}, StoreWalletPolicy(s, to)
    PROVE  /\ s.wallet \in Wallets
           /\ s.version = Meta(s.wallet).version + 1
           /\ wallet_policies' \in [DOMAIN wallet_policies' -> Entries]
           /\ policy_meta' \in [DOMAIN policy_meta' -> Metas]
           /\ DOMAIN wallet_policies' = DOMAIN wallet_policies \cup {s.wallet}
           /\ DOMAIN policy_meta' = DOMAIN policy_meta \cup {s.wallet}
           /\ Meta(s.wallet)' = [version |-> s.version, locked |-> s.policy.locked]
           /\ PolicyOf(s.wallet)' = s.policy
           /\ \A w : w # s.wallet => Same(w)
           /\ \A w \in DOMAIN wallet_policies : w # s.wallet => wallet_policies'[w] = wallet_policies[w]
           /\ s.wallet \in DOMAIN wallet_policies => wallet_policies'[s.wallet].frozen = wallet_policies[s.wallet].frozen
           /\ filed' = filed \cup {s}
           /\ UNCHANGED <<now, signatures, job, life, stopped>>
<1> DEFINE w == s.wallet
           beneficiary == IF w \notin DOMAIN wallet_policies THEN to ELSE GetOr(storage_refund_to, w, None)
           required == StorageCost(s.policy, beneficiary # None)
           entry == [owner |-> s.caller, policy |-> s.policy, frozen |-> FrozenAfterEdit(w), deposit |-> required]
           meta == [version |-> s.version, locked |-> s.policy.locked]
<1>1. /\ Filable(s)
      /\ wallet_policies' = Put(wallet_policies, w, entry)
      /\ policy_meta' = Put(policy_meta, w, meta)
      /\ filed' = filed \cup {s}
      /\ UNCHANGED <<now, signatures, job, life, stopped>>
    BY Zenon DEF StoreWalletPolicy
<1>2. s \in Signatures  BY Zenon DEF WalletInv, WalletTypes
<1>3. w \in Wallets /\ s.policy \in Policies /\ s.caller \in Accounts /\ s.version \in Nat  BY <1>2, Zenon DEF Signatures
<1>4. required \in Nat
    <2>1. PolicyCost[s.policy] \in Nat /\ RefundCost \in Nat  BY <1>3, WalletAssumption, Zenon
    <2> QED BY <2>1 DEF StorageCost
<1>5. FrozenAfterEdit(w) \in BOOLEAN  BY Zenon DEF FrozenAfterEdit, WalletInv, WalletTypes, Entries
<1>6. w \in DOMAIN wallet_policies => FrozenAfterEdit(w) = wallet_policies[w].frozen
    BY Zenon DEF FrozenAfterEdit, WalletInv, WalletTypes, Entries
<1>7. s.policy.locked \in BOOLEAN  BY <1>3, WalletAssumption, Zenon
<1>8. entry \in Entries /\ entry.policy = s.policy /\ entry.frozen = FrozenAfterEdit(w)
    <2> HIDE DEF required
    <2> QED BY <1>3, <1>4, <1>5, Zenon DEF Entries
<1>9. meta \in Metas  BY <1>3, <1>7, Zenon DEF Metas
<1> HIDE DEF entry, meta, w
<1>10. /\ DOMAIN wallet_policies' = DOMAIN wallet_policies \cup {w} /\ wallet_policies'[w] = entry
       /\ \A v \in DOMAIN wallet_policies : v # w => wallet_policies'[v] = wallet_policies[v]
    BY <1>1, Zenon DEF Put
<1>11. /\ DOMAIN policy_meta' = DOMAIN policy_meta \cup {w} /\ policy_meta'[w] = meta
       /\ \A v \in DOMAIN policy_meta : v # w => policy_meta'[v] = policy_meta[v]
    BY <1>1, Zenon DEF Put
<1>12. wallet_policies' \in [DOMAIN wallet_policies' -> Entries]
    BY <1>1, <1>8, Zenon DEF Put, WalletInv, WalletTypes
<1>13. policy_meta' \in [DOMAIN policy_meta' -> Metas]
    BY <1>1, <1>9, Zenon DEF Put, WalletInv, WalletTypes
<1>14. Meta(w)' = meta /\ PolicyOf(w)' = s.policy  BY <1>8, <1>10, <1>11, Zenon DEF Meta, PolicyOf, GetOr, w
<1>15. \A v : v # w => Same(v)  BY <1>10, <1>11, Zenon DEF Same, Meta, PolicyOf, GetOr
<1>16. s.version = Meta(w).version + 1  BY <1>1, Zenon DEF Filable, w
<1> QED BY <1>1, <1>3, <1>6, <1>8, <1>10, <1>11, <1>12, <1>13, <1>14, <1>15, <1>16, Zenon DEF w, meta

\* The version and lock of any wallet, stored or not.
LEMMA MetaType == ASSUME WalletInv PROVE \A w : Meta(w) \in Metas
<1>1. [version |-> 0, locked |-> FALSE] \in Metas  BY Zenon DEF Metas
<1> QED BY <1>1, Zenon DEF Meta, GetOr, WalletInv, WalletTypes

\* store_wallet_policy keeps the invariant: the version it reaches is the signature's, so
\* that every other signature and job for that version is spent.
LEMMA StoreKeeps ==
    ASSUME WalletInv, NEW s \in signatures, NEW to \in Accounts \cup {None}, StoreWalletPolicy(s, to)
    PROVE  WalletInv'
<1> DEFINE w == s.wallet
<1>0. /\ w \in Wallets /\ s.version = Meta(w).version + 1
      /\ Meta(w)' = [version |-> s.version, locked |-> s.policy.locked]
      /\ \A v : v # w => Same(v)
      /\ filed' = filed \cup {s}
      /\ UNCHANGED <<now, signatures, job, life, stopped>>
    BY StoreFacts, Zenon
<1>a. /\ wallet_policies' \in [DOMAIN wallet_policies' -> Entries]
      /\ policy_meta' \in [DOMAIN policy_meta' -> Metas]
      /\ DOMAIN wallet_policies' = DOMAIN wallet_policies \cup {w}
      /\ DOMAIN policy_meta' = DOMAIN policy_meta \cup {w}
      /\ \A v \in DOMAIN wallet_policies : v # w => wallet_policies'[v] = wallet_policies[v]
      /\ w \in DOMAIN wallet_policies => wallet_policies'[w].frozen = wallet_policies[w].frozen
    BY StoreFacts, Zenon
<1>b. Meta(w)'.version = Meta(w).version + 1  BY <1>0
<1>c. Meta(w).version \in Nat  BY MetaType, Zenon DEF Metas
<1> HIDE DEF w
<1>1. WalletTypes'  BY <1>0, <1>a, Zenon DEF WalletInv, WalletTypes
<1>2. MetaInPlace'  BY <1>a, Zenon DEF WalletInv, MetaInPlace
<1>3. JobFits'
    <2> SUFFICES ASSUME job' # None PROVE JobFits'  BY Zenon DEF JobFits
    <2>1. job' = job /\ life' = life /\ job # None  BY <1>0, Zenon
    <2>2. job \in Jobs  BY <2>1, Zenon DEF WalletInv, WalletTypes
    <2>3. job.version \in Nat  BY <2>2, Zenon DEF Jobs
    <2>4. CASE job.wallet = w
        <3>1. job.life = life[w] => job.version <= Meta(w).version + 1  BY <2>1, <2>4, Zenon DEF WalletInv, JobFits
        <3>2. job.life <= life[w]  BY <2>1, <2>4, Zenon DEF WalletInv, JobFits
        <3>3. job.life = life[w] => job.version < Meta(w)'.version + 1  BY <1>b, <1>c, <2>3, <3>1
        <3> QED BY <1>b, <1>c, <2>1, <2>3, <2>4, <3>2, <3>3 DEF JobFits
    <2>5. CASE job.wallet # w  BY <1>0, <2>1, <2>5, Zenon DEF WalletInv, JobFits, Same
    <2> QED BY <2>4, <2>5, Zenon
<1>4. SignaturesFit'
    <2> SUFFICES ASSUME NEW t \in signatures PROVE SignatureFits(t)'  BY <1>0, Zenon DEF SignaturesFit
    <2>1. SignatureFits(t) /\ t.version \in Nat /\ life' = life  BY <1>0, Zenon DEF WalletInv, SignaturesFit, WalletTypes, Signatures
    <2>2. CASE t.wallet = w  BY <1>b, <1>c, <2>1, <2>2 DEF SignatureFits
    <2>3. CASE t.wallet # w  BY <1>0, <2>1, <2>3, Zenon DEF SignatureFits, Same
    <2> QED BY <2>2, <2>3, Zenon
<1>5. FiledReached'
    <2> SUFFICES ASSUME NEW t \in filed', t.life = life[t.wallet] PROVE t.version <= Meta(t.wallet)'.version
        BY <1>0, Zenon DEF FiledReached
    <2>1. CASE t = s  BY <1>0, <1>b, <1>c, <2>1 DEF w
    <2>2. CASE t \in filed
        <3>1. t.version <= Meta(t.wallet).version /\ t.version \in Nat
            BY <2>2, Zenon DEF WalletInv, FiledReached, WalletTypes, Signatures
        <3>2. CASE t.wallet = w  BY <1>b, <1>c, <3>1, <3>2
        <3>3. CASE t.wallet # w  BY <1>0, <3>1, <3>3, Zenon DEF Same
        <3> QED BY <3>2, <3>3, Zenon
    <2> QED BY <1>0, <2>1, <2>2, Zenon
<1>6. StoppedIsFrozen'  BY <1>0, <1>a, Zenon DEF WalletInv, StoppedIsFrozen
<1> QED BY <1>1, <1>2, <1>3, <1>4, <1>5, <1>6, Zenon DEF WalletInv

\* delete_wallet_policy ends a life: no signature or job from before is of the new one.
LEMMA DeletePolicyKeeps ==
    ASSUME WalletInv, NEW a \in Accounts, NEW w \in Wallets, DeleteWalletPolicy(a, w)
    PROVE  WalletInv'
<1>0. /\ wallet_policies' = Drop(wallet_policies, w) /\ policy_meta' = Drop(policy_meta, w)
      /\ life' = [life EXCEPT ![w] = @ + 1] /\ stopped' = stopped \ {w}
      /\ UNCHANGED <<now, signatures, job, filed>>
    BY Zenon DEF DeleteWalletPolicy
<1>1. /\ DOMAIN wallet_policies' = DOMAIN wallet_policies \ {w} /\ DOMAIN policy_meta' = DOMAIN policy_meta \ {w}
      /\ \A v \in DOMAIN wallet_policies' : wallet_policies'[v] = wallet_policies[v]
      /\ \A v \in DOMAIN policy_meta' : policy_meta'[v] = policy_meta[v]
    BY <1>0, Zenon DEF Drop
<1>2. life \in [Wallets -> Nat] /\ life' \in [Wallets -> Nat] /\ life'[w] = life[w] + 1 /\ \A v \in Wallets : v # w => life'[v] = life[v]
    BY <1>0 DEF WalletInv, WalletTypes
<1>3. \A v : v # w => Same(v)  BY <1>1, Zenon DEF Same, Meta, PolicyOf, GetOr
<1>4. WalletTypes'
    <2>1. wallet_policies' \in [DOMAIN wallet_policies' -> Entries] /\ policy_meta' \in [DOMAIN policy_meta' -> Metas]
        BY <1>0, Zenon DEF Drop, WalletInv, WalletTypes
    <2> QED BY <1>0, <1>1, <1>2, <2>1, Zenon DEF WalletInv, WalletTypes
<1>5. MetaInPlace'  BY <1>1, Zenon DEF WalletInv, MetaInPlace
<1>6. JobFits'
    <2> SUFFICES ASSUME job' # None PROVE JobFits'  BY Zenon DEF JobFits
    <2>1. job' = job /\ job # None  BY <1>0, Zenon
    <2>2. job \in Jobs  BY <2>1, Zenon DEF WalletInv, WalletTypes
    <2>3. job.wallet \in Wallets /\ job.life \in Nat /\ job.life <= life[job.wallet]  BY <2>1, <2>2, Zenon DEF WalletInv, JobFits, Jobs
    <2>4. CASE job.wallet = w  BY <1>2, <2>1, <2>3, <2>4 DEF JobFits
    <2>5. CASE job.wallet # w  BY <1>2, <1>3, <2>1, <2>3, <2>5, Zenon DEF WalletInv, JobFits, Same
    <2> QED BY <2>4, <2>5, Zenon
<1>7. SignaturesFit'
    <2> SUFFICES ASSUME NEW t \in signatures PROVE SignatureFits(t)'  BY <1>0, Zenon DEF SignaturesFit
    <2>1. SignatureFits(t) /\ t.wallet \in Wallets /\ t.life \in Nat  BY Zenon DEF WalletInv, SignaturesFit, WalletTypes, Signatures
    <2>2. CASE t.wallet = w  BY <1>2, <2>1, <2>2 DEF SignatureFits
    <2>3. CASE t.wallet # w  BY <1>2, <1>3, <2>1, <2>3, Zenon DEF SignatureFits, Same
    <2> QED BY <2>2, <2>3, Zenon
<1>8. FiledReached'
    <2> SUFFICES ASSUME NEW t \in filed, t.life = life'[t.wallet] PROVE t.version <= Meta(t.wallet)'.version
        BY <1>0, Zenon DEF FiledReached
    <2>1. SignatureFits(t) /\ t.wallet \in Wallets /\ t.life \in Nat  BY Zenon DEF WalletInv, SignaturesFit, WalletTypes, Signatures
    <2>2. t.wallet # w  BY <1>2, <2>1 DEF SignatureFits
    <2> QED BY <1>2, <1>3, <2>1, <2>2, Zenon DEF WalletInv, FiledReached, Same
<1>9. StoppedIsFrozen'  BY <1>0, <1>1, Zenon DEF WalletInv, StoppedIsFrozen
<1> QED BY <1>4, <1>5, <1>6, <1>7, <1>8, <1>9, Zenon DEF WalletInv

\* The keystore's own steps: what it reads it reads now, and under a lock it signs what
\* the approvers of the policy it read agreed to.
LEMMA SignPolicyKeeps ==
    ASSUME WalletInv, KeystoreStep
    PROVE  WalletInv'
<1>0. UNCHANGED <<wallet_policies, policy_meta, now, life, stopped, filed>> /\ \A w : Same(w)
    BY RowsAlone, Zenon DEF KeystoreStep, BeginSignPolicy, FinishSignPolicy, Refuse, rows, history
<1>1. MetaInPlace' /\ StoppedIsFrozen' /\ FiledReached' /\ \A s \in signatures : SignatureFits(s)'
    BY <1>0, SameKeeps, Zenon DEF WalletInv, MetaInPlace, StoppedIsFrozen
<1>2. ASSUME NEW w \in Wallets, NEW p \in Policies, NEW a \in Accounts, BeginSignPolicy(w, p, a)
      PROVE  WalletInv'
    <2>1. /\ job' = [wallet |-> w, policy |-> p, caller |-> a, version |-> Meta(w).version + 1,
                     locked |-> Meta(w).locked, base |-> PolicyOf(w), life |-> life[w]]
          /\ UNCHANGED signatures
        BY <1>2, Zenon DEF BeginSignPolicy
    <2>2. Meta(w).version \in Nat /\ Meta(w).locked \in BOOLEAN  BY MetaType, Zenon DEF Metas
    <2>3. PolicyOf(w) \in Policies \cup {None}  BY Zenon DEF PolicyOf, WalletInv, WalletTypes, Entries
    <2>4. life[w] \in Nat  BY Zenon DEF WalletInv, WalletTypes
    <2>5. job' \in Jobs  BY <2>1, <2>2, <2>3, <2>4 DEF Jobs
    <2>6. WalletTypes'  BY <1>0, <2>1, <2>5, Zenon DEF WalletInv, WalletTypes
    <2>7. /\ job'.wallet = w /\ job'.version = Meta(w).version + 1 /\ job'.locked = Meta(w).locked
          /\ job'.base = PolicyOf(w) /\ job'.life = life[w]
        BY <2>1, Zenon
    <2>8. JobFits'  BY <1>0, <2>2, <2>4, <2>7 DEF JobFits, Same
    <2> QED BY <1>1, <2>1, <2>6, <2>8, Zenon DEF WalletInv, SignaturesFit
<1>3. ASSUME NEW v \in SUBSET Approvers, FinishSignPolicy(v)
      PROVE  WalletInv'
    <2> DEFINE new == [wallet |-> job.wallet, policy |-> job.policy, version |-> job.version,
                       valid_until |-> now + TTL, caller |-> job.caller, base |-> job.base,
                       life |-> job.life, approved_by |-> IF job.locked THEN v ELSE {}]
    <2>1. /\ job # None /\ (job.locked => job.base # None /\ Approved(job.base, v))
          /\ signatures' = signatures \cup {new} /\ job' = None
        BY <1>3, Zenon DEF FinishSignPolicy
    <2>2. job \in Jobs  BY <2>1, Zenon DEF WalletInv, WalletTypes
    <2>3. /\ job.wallet \in Wallets /\ job.policy \in Policies /\ job.version \in Nat /\ job.caller \in Accounts
          /\ job.base \in Policies \cup {None} /\ job.life \in Nat /\ job.locked \in BOOLEAN
        BY <2>2, Zenon DEF Jobs
    <2>4. now + TTL \in Nat  BY WalletAssumption DEF WalletInv, WalletTypes
    <2>5. new \in Signatures  BY <2>3, <2>4, Zenon DEF Signatures
    <2>6. /\ new.wallet = job.wallet /\ new.version = job.version /\ new.life = job.life
          /\ job.locked => new.approved_by = v
        BY Zenon
    <2> HIDE DEF new
    <2>7. WalletTypes'  BY <1>0, <2>1, <2>5, Zenon DEF WalletInv, WalletTypes
    <2>8. SignatureFits(new)
        <3>1. JobFits  BY Zenon DEF WalletInv
        <3> QED BY <2>1, <2>6, <3>1, Zenon DEF JobFits, SignatureFits
    <2>9. ASSUME NEW t, SignatureFits(t) PROVE SignatureFits(t)'
        BY <1>0, <2>9, Zenon DEF SignatureFits, Same
    <2>10. SignaturesFit'  BY <1>1, <2>1, <2>8, <2>9, Zenon DEF SignaturesFit
    <2> QED BY <1>1, <2>1, <2>7, <2>10, Zenon DEF WalletInv, SignaturesFit, JobFits
<1>4. CASE Refuse
    <2>1. job' = None /\ UNCHANGED signatures  BY <1>4, Zenon DEF Refuse
    <2>2. WalletTypes'  BY <1>0, <2>1, Zenon DEF WalletInv, WalletTypes
    <2> QED BY <1>1, <2>1, <2>2, Zenon DEF WalletInv, SignaturesFit, JobFits
<1> QED BY <1>2, <1>3, <1>4, Zenon DEF KeystoreStep

\* Freezing and thawing by the controller.
LEMMA FreezeKeeps ==
    ASSUME WalletInv, NEW a \in Accounts, NEW w \in Wallets, FreezeWallet(a, w) \/ UnfreezeWallet(a, w)
    PROVE  WalletInv'
<1>1. PICK b \in BOOLEAN : wallet_policies' = [wallet_policies EXCEPT ![w].frozen = b]
    BY Zenon DEF FreezeWallet, UnfreezeWallet
<1>2. w \in DOMAIN wallet_policies /\ UNCHANGED <<policy_meta, now, signatures, job, life, filed>>
    BY Zenon DEF FreezeWallet, UnfreezeWallet, Controls
<1>3. /\ DOMAIN wallet_policies' = DOMAIN wallet_policies
      /\ wallet_policies' \in [DOMAIN wallet_policies' -> Entries]
      /\ \A v \in DOMAIN wallet_policies : v # w => wallet_policies'[v] = wallet_policies[v]
      /\ \A v : Same(v)
    BY <1>1, <1>2, FreezeFacts, Zenon
<1>5. WalletTypes' /\ MetaInPlace'  BY <1>2, <1>3, Zenon DEF WalletInv, WalletTypes, MetaInPlace
<1>6. JobFits' /\ SignaturesFit' /\ FiledReached'  BY <1>2, <1>3, SameKeeps, Zenon DEF SignaturesFit
<1>7. StoppedIsFrozen'
    <2>1. CASE FreezeWallet(a, w)
        <3>1. wallet_policies' = [wallet_policies EXCEPT ![w].frozen = TRUE] /\ stopped' = stopped \cup {w}
            BY <2>1, Zenon DEF FreezeWallet
        <3>2. wallet_policies'[w].frozen = TRUE  BY <1>2, <3>1, FreezeFacts, Zenon
        <3>3. stopped' = stopped \cup {w}  BY <3>1, Zenon
        <3>4. ASSUME NEW v \in stopped, v # w PROVE v \in DOMAIN wallet_policies' /\ wallet_policies'[v].frozen = TRUE
            BY <1>3, <3>4, Zenon DEF WalletInv, StoppedIsFrozen
        <3>5. w \in DOMAIN wallet_policies'  BY <1>2, <1>3, Zenon
        <3> QED BY <3>2, <3>3, <3>4, <3>5, Zenon DEF StoppedIsFrozen
    <2>2. CASE UnfreezeWallet(a, w)
        <3>1. stopped' = stopped \ {w}  BY <2>2, Zenon DEF UnfreezeWallet
        <3> QED BY <1>3, <3>1, Zenon DEF WalletInv, StoppedIsFrozen
    <2> QED BY <2>1, <2>2, Zenon
<1> QED BY <1>5, <1>6, <1>7, Zenon DEF WalletInv

\* Every step of the policies keeps the invariant.
LEMMA WalletStepKeeps == ASSUME WalletInv, [WalletNext]_walletVars PROVE WalletInv'
<1>1. ASSUME UNCHANGED <<wallet_policies, policy_meta, signatures, job, life, stopped, filed>>, now' \in Nat
      PROVE  WalletInv'
    <2>1. \A w : Same(w)  BY <1>1, RowsAlone, Zenon
    <2>2. WalletTypes' /\ MetaInPlace' /\ StoppedIsFrozen'
        BY <1>1, Zenon DEF WalletInv, WalletTypes, MetaInPlace, StoppedIsFrozen
    <2> QED BY <1>1, <2>1, <2>2, SameKeeps, Zenon DEF WalletInv, SignaturesFit
<1>2. CASE UNCHANGED walletVars
    BY <1>1, <1>2, Zenon DEF walletVars, rows, history, WalletInv, WalletTypes
<1>3. CASE Tick  BY <1>1, <1>3 DEF Tick, rows, history, WalletInv, WalletTypes
<1>4. ASSUME NEW a, NEW w, NEW to, SetStorageRefundTo(a, w, to) PROVE WalletInv'
    BY <1>1, <1>4, Zenon DEF SetStorageRefundTo, history, WalletInv, WalletTypes
<1>5. CASE ContractStep  BY <1>4, <1>5, StoreKeeps, FreezeKeeps, DeletePolicyKeeps, Zenon DEF ContractStep
<1>6. CASE KeystoreStep  BY <1>6, SignPolicyKeeps, Zenon
<1> QED BY <1>2, <1>3, <1>5, <1>6, Zenon DEF WalletNext

\* The policies beside the registry whose pause switch they share.
WalletStep ==
    \/ WalletNext /\ UNCHANGED projectVars
    \/ ProjectsNext /\ UNCHANGED walletVars

\* Versions, locks, policies, jobs and signatures fit together in every reachable state.
THEOREM WalletInvAlways == WalletSpec => []WalletInv
<1>1. ProjectsInit /\ WalletInit => WalletInv  BY WalletInitially, Zenon
<1>2. WalletInv /\ [WalletStep]_<<projectVars, walletVars>> => WalletInv'
    BY WalletStepKeeps, Zenon DEF WalletStep
<1> QED BY <1>1, <1>2, PTL DEF WalletSpec, WalletStep

\* A locked policy is replaced only with the votes of its own approvers, as many as it
\* asks for, by a signature that was not filed before, and it leaves the chain in no other
\* way: however long store_wallet_policy is under way and whatever is written meanwhile.
THEOREM LockedAlwaysNeedsQuorum == WalletSpec => LockedNeedsQuorum
<1> DEFINE Locked == /\ \A s \in signatures : (Files(s) /\ s.life = life[s.wallet]) =>
                            /\ s \notin filed
                            /\ Meta(s.wallet).locked => Approved(PolicyOf(s.wallet), s.approved_by)
                     /\ \A w \in Wallets : Meta(w).locked => w \in DOMAIN wallet_policies'
<1>1. ASSUME WalletInv, NEW s \in signatures, Files(s), s.life = life[s.wallet]
      PROVE  s \notin filed /\ (Meta(s.wallet).locked => Approved(PolicyOf(s.wallet), s.approved_by))
    <2>1. s.version = Meta(s.wallet).version + 1  BY <1>1, StoreFacts, Zenon DEF Files
    <2>2. Meta(s.wallet).version \in Nat  BY <1>1, MetaType, Zenon DEF Metas
    <2>3. SignatureFits(s)  BY <1>1, Zenon DEF WalletInv, SignaturesFit
    <2>4. s \notin filed  BY <1>1, <2>1, <2>2 DEF WalletInv, FiledReached
    <2> QED BY <1>1, <2>1, <2>3, <2>4, Zenon DEF SignatureFits
<1>2. ASSUME WalletInv, NEW w \in Wallets, Meta(w).locked, [WalletNext]_walletVars
      PROVE  w \in DOMAIN wallet_policies'
    <2>1. w \in DOMAIN policy_meta  BY <1>2, Zenon DEF Meta, GetOr
    <2>2. w \in DOMAIN wallet_policies  BY <1>2, <2>1, Zenon DEF WalletInv, MetaInPlace
    <2>3. ASSUME NEW s \in signatures, NEW to \in Accounts \cup {None}, StoreWalletPolicy(s, to)
          PROVE  w \in DOMAIN wallet_policies'
        BY <1>2, <2>2, <2>3, StoreFacts, Zenon
    <2>4. ASSUME NEW a \in Accounts, NEW v \in Wallets, FreezeWallet(a, v) \/ UnfreezeWallet(a, v)
          PROVE  w \in DOMAIN wallet_policies'
        BY <2>2, <2>4, Zenon DEF FreezeWallet, UnfreezeWallet
    <2>5. ASSUME NEW a \in Accounts, NEW v \in Wallets, DeleteWalletPolicy(a, v)
          PROVE  w \in DOMAIN wallet_policies'
        <3>1. ~Meta(v).locked /\ wallet_policies' = Drop(wallet_policies, v)  BY <2>5, Zenon DEF DeleteWalletPolicy, Deletable
        <3>2. v # w  BY <1>2, <3>1, Zenon
        <3> QED BY <2>2, <3>1, <3>2, Zenon DEF Drop
    <2>6. ASSUME NEW a, NEW v, NEW to, SetStorageRefundTo(a, v, to) PROVE w \in DOMAIN wallet_policies'
        BY <2>2, <2>6, Zenon DEF SetStorageRefundTo
    <2>7. CASE KeystoreStep \/ Tick \/ UNCHANGED walletVars
        BY <2>2, <2>7, Zenon DEF KeystoreStep, BeginSignPolicy, FinishSignPolicy, Refuse, Tick, rows, walletVars
    <2> QED BY <1>2, <2>3, <2>4, <2>5, <2>6, <2>7, Zenon DEF WalletNext, ContractStep
<1>3. WalletInv /\ [WalletStep]_<<projectVars, walletVars>> => [Locked]_walletVars
    BY <1>1, <1>2, Zenon DEF WalletStep
<1> QED BY <1>3, WalletInvAlways, PTL DEF WalletSpec, WalletStep, LockedNeedsQuorum

-----------------------------------------------------------------------------
\* Signing with a wallet's keys.

\* A request that is being served was admitted and judged, by a policy that was on chain
\* and of a wallet that its controller had not frozen.
SigningFits ==
    signing # None =>
        /\ signing.req \in Requests /\ signing.req.what \in {"sign", "evm", "solana"}
        /\ Admissible(signing.req)
        /\ signing.stated \in Policies \cup {None}
        /\ Judged(signing.req, signing.stated)
        /\ signing.stopped = FALSE

\* The seeds that are handed out have a path after the chain; those that sign have none, or
\* a root of their own.
OwnSeed(s) == Len(s) = 3 \/ s[1] = "subkey"
ExportSeed(s) == Len(s) >= 4 /\ s[1] = "wallet"
SeedsApart ==
    /\ \A s \in exported : ExportSeed(s)
    /\ (Signed \/ (given # None /\ given.form = "address")) => OwnSeed(given.seed)

\* The key that signs for an EVM chain is the one whose address the caller was shown.
KeyShown == Signed => (given.form = "evm" => given.seed = KeyFor(given.req.id, <<"evm">>, given.req.path))

SigningInv ==
    WalletInv /\ SigningFits /\ SeedsApart /\ KeyShown /\ FreezeStopsSigning /\ SignedWithinPolicy

\* What is joined is as long as its parts.
LEMMA Joined ==
    ASSUME NEW S, NEW a \in Seq(S), NEW b \in Seq(S)
    PROVE  /\ a \o b \in Seq(S) /\ Len(a \o b) = Len(a) + Len(b)
           /\ Len(b) = 1 => (a \o b)[Len(a) + 1] = b[1]
OBVIOUS

\* Three segments in a row.
LEMMA ThreeSegments ==
    ASSUME NEW S, NEW a \in Seq(S), NEW b \in Seq(S), NEW c \in Seq(S), Len(a) = 1, Len(b) = 1, Len(c) = 1
    PROVE  Len(a \o b \o c) = 3 /\ (a \o b \o c)[3] = c[1]
<1>1. a \o b \in Seq(S) /\ Len(a \o b) = Len(a) + Len(b)  BY Joined, Zenon
<1>2. 1 + 1 = 2 /\ 2 + 1 = 3  OBVIOUS
<1>3. Len(a \o b) = 2  BY <1>1, <1>2, Zenon
<1>4. ASSUME NEW d \in Seq(S), Len(d) = 2 PROVE Len(d \o c) = 3 /\ (d \o c)[3] = c[1]
    <2>1. Len(d \o c) = Len(d) + Len(c) /\ (d \o c)[Len(d) + 1] = c[1]  BY Joined, Zenon
    <2> QED BY <1>2, <1>4, <2>1, Zenon
<1> QED BY <1>1, <1>3, <1>4, Zenon

\* What a seed is made of.
LEMMA SeedFacts ==
    ASSUME NEW id \in Seq(Segments), Len(id) = 1
    PROVE  /\ OwnSeed(WalletSeed(id, <<"near">>)) /\ WalletSeed(id, <<"near">>)[3] = "near"
           /\ \A chain \in Seq(Segments) : IsSolanaChain(chain) =>
                 OwnSeed(WalletSeed(id, chain)) /\ WalletSeed(id, chain)[3] = "solana"
           /\ \A chain \in Seq(Segments) : IsEvmChain(chain) =>
                 OwnSeed(WalletSeed(id, chain)) /\ WalletSeed(id, chain) = WalletSeed(id, <<"evm">>)
           /\ \A path \in SubPaths : OwnSeed(SubkeySeed(id, path))
<1>1. {"wallet", "subkey", "evm", "solana", "near"} \cup SubPaths \subseteq Segments  BY SigningAssumption, Zenon
<1>2. ASSUME NEW tail \in Seq(Segments), Len(tail) = 1, NEW chain,
             WalletSeed(id, chain) = <<"wallet">> \o id \o tail
      PROVE  OwnSeed(WalletSeed(id, chain)) /\ WalletSeed(id, chain)[3] = tail[1]
    <2> DEFINE root == <<"wallet">>
    <2>1. root \in Seq(Segments) /\ Len(root) = 1 /\ WalletSeed(id, chain) = root \o id \o tail  BY <1>1, <1>2
    <2> HIDE DEF root
    <2>2. Len(root \o id \o tail) = 3 /\ (root \o id \o tail)[3] = tail[1]  BY <1>2, <2>1, ThreeSegments
    <2> QED BY <2>1, <2>2, Zenon DEF OwnSeed
<1>3. WalletSeed(id, <<"near">>) = <<"wallet">> \o id \o <<"near">>
    BY Zenon DEF WalletSeed, IsEvmChain, IsSolanaChain, EvmChains, SolanaChains
<1>4. \A chain \in Seq(Segments) : IsEvmChain(chain) => WalletSeed(id, chain) = <<"wallet">> \o id \o <<"evm">>
    BY Zenon DEF WalletSeed, IsEvmChain, IsSolanaChain, EvmChains, SolanaChains
<1>5. \A chain \in Seq(Segments) : IsSolanaChain(chain) => WalletSeed(id, chain) = <<"wallet">> \o id \o <<"solana">>
    BY Zenon DEF WalletSeed, IsEvmChain, IsSolanaChain, EvmChains, SolanaChains
<1>6. WalletSeed(id, <<"evm">>) = <<"wallet">> \o id \o <<"evm">>
    BY Zenon DEF WalletSeed, IsEvmChain, IsSolanaChain, EvmChains, SolanaChains
<1>7. /\ <<"near">> \in Seq(Segments) /\ Len(<<"near">>) = 1 /\ <<"near">>[1] = "near"
      /\ <<"evm">> \in Seq(Segments) /\ Len(<<"evm">>) = 1 /\ <<"evm">>[1] = "evm"
      /\ <<"solana">> \in Seq(Segments) /\ Len(<<"solana">>) = 1 /\ <<"solana">>[1] = "solana"
    BY <1>1
<1>8. ASSUME NEW path \in SubPaths PROVE OwnSeed(SubkeySeed(id, path))
    BY <1>1 DEF OwnSeed, SubkeySeed
<1>9. OwnSeed(WalletSeed(id, <<"near">>)) /\ WalletSeed(id, <<"near">>)[3] = "near"
    BY <1>2, <1>3, <1>7, Zenon
<1>10. \A chain \in Seq(Segments) : IsSolanaChain(chain) =>
          OwnSeed(WalletSeed(id, chain)) /\ WalletSeed(id, chain)[3] = "solana"
    BY <1>2, <1>5, <1>7, Zenon
<1>11. \A chain \in Seq(Segments) : IsEvmChain(chain) => OwnSeed(WalletSeed(id, chain))
    BY <1>2, <1>4, <1>7, Zenon
<1> QED BY <1>4, <1>6, <1>8, <1>9, <1>10, <1>11, Zenon

\* An exported seed is longer than any that signs.
LEMMA ExportFacts ==
    ASSUME NEW id \in Seq(Segments), Len(id) = 1, NEW chain \in Seq(Segments) \ {<<>>},
           NEW path \in Seq(Segments) \ {<<>>}
    PROVE  ExportSeed(<<"wallet">> \o id \o chain \o path)
<1>1. "wallet" \in Segments  BY SigningAssumption, Zenon
<1>2. Len(chain) >= 1 /\ Len(path) >= 1  OBVIOUS
<1> QED BY <1>1, <1>2 DEF ExportSeed

\* verify_approvals counts votes of the policy's approvers for this operation only.
LEMMA EnoughVotes ==
    ASSUME NEW p \in Policies, NEW r \in Requests, NEW owned, VerifyApprovals(p, r, owned)
    PROVE  Cardinality(Backing(p, r)) >= p.threshold
<1> DEFINE votes == KeyVotes(p, r, r.bundle.approvals) \cup ContractVotes(p, r, r.bundle.contract_approvals)
<1>1. Cardinality(votes) >= Max({p.threshold, 1})  BY Zenon DEF VerifyApprovals
<1>2. p.threshold \in Nat /\ p.approvers \subseteq Approvers  BY WalletAssumption, Zenon
<1>3. Max({p.threshold, 1}) >= p.threshold /\ Max({p.threshold, 1}) \in Nat
    <2>1. \E x \in {p.threshold, 1} : \A y \in {p.threshold, 1} : x >= y  BY <1>2
    <2> QED BY <1>2, <2>1 DEF Max
<1>4. KeyVotes(p, r, r.bundle.approvals) \subseteq Backing(p, r)
    BY Zenon DEF KeyVotes, Standing, AdmitsKey, ForThis, Backing, Range
<1>5. ContractVotes(p, r, r.bundle.contract_approvals) \subseteq Backing(p, r)
    BY Zenon DEF ContractVotes, AdmitsContractVote, ForThis, Backing
<1>6. IsFiniteSet(Backing(p, r)) /\ IsFiniteSet(votes)
    <2>1. Backing(p, r) \subseteq Approvers  BY <1>2, Zenon DEF Backing
    <2>2. votes \subseteq Approvers  BY <1>4, <1>5, <2>1, Zenon
    <2> QED BY <2>1, <2>2, SigningAssumption, FS_Subset, Zenon
<1>7. votes \subseteq Backing(p, r)  BY <1>4, <1>5, Zenon
<1> HIDE DEF votes
<1>8. Cardinality(votes) <= Cardinality(Backing(p, r))  BY <1>6, <1>7, FS_Subset, Zenon
<1>9. Cardinality(votes) \in Nat /\ Cardinality(Backing(p, r)) \in Nat  BY <1>6, FS_CardinalityType, Zenon
<1> QED BY <1>1, <1>2, <1>3, <1>8, <1>9

\* An artifact the policy it was judged by allows.
Within(g) ==
    g.stated # None =>
        /\ Opens(g) # {} => Opens(g) \cap g.stated.may # {}
        /\ g.form = "nep413" /\ g.to \notin Verifiers => g.to \in g.stated.recipients
        /\ (g.req.what = "sign" /\ g.req.op.kind \in g.stated.asks) =>
              Cardinality(Backing(g.stated, g.req)) >= g.stated.threshold

\* A judged request needs nothing the policy does not open, and one the policy asks
\* approval for has it once the votes are counted.
LEMMA JudgedFacts ==
    ASSUME NEW r \in Requests, NEW p \in Policies, r.what = "sign", Judged(r, p), NEW owned,
           Decision(PolicyToJudgeBy(p), r.op) = "RequiresApproval" => VerifyApprovals(PolicyToJudgeBy(p), r, owned)
    PROVE  /\ Needs(r.op) \subseteq p.may
           /\ r.op.kind \in p.asks => Cardinality(Backing(p, r)) >= p.threshold
<1>1. PolicyToJudgeBy(p) = p  BY WalletAssumption, Zenon DEF PolicyToJudgeBy
<1>2. Decision(p, r.op) # "Deny"  BY <1>1, Zenon DEF Judged
<1>3. Needs(r.op) \subseteq p.may  BY <1>2, Zenon DEF Decision
<1>4. r.op.kind \in p.asks => VerifyApprovals(p, r, owned)  BY <1>1, <1>3, Zenon DEF Decision
<1> QED BY <1>3, <1>4, EnoughVotes, Zenon

\* What a served request is answered with keeps the invariant when its key is one of the
\* wallet's own and the policy allows it.
LEMMA ArtifactKeeps ==
    ASSUME SigningInv, signing # None, NEW seed, NEW form, NEW to, NEW moves,
           form \notin {"address", "key", "verdict"}, OwnSeed(seed),
           form = "evm" => seed = KeyFor(signing.req.id, <<"evm">>, signing.req.path),
           given' = Artifact(signing.req, seed, form, to, moves),
           Within(given'), signing' = None, UNCHANGED exported, WalletInv'
    PROVE  SigningInv'
<1>1. /\ given'.form = form /\ given'.seed = seed /\ given'.req = signing.req
      /\ given'.stopped = signing.stopped
    BY Zenon DEF Artifact
<1>2. given'.stopped = FALSE  BY <1>1, Zenon DEF SigningInv, SigningFits
<1>3. FreezeStopsSigning'  BY <1>2, Zenon DEF FreezeStopsSigning
<1>4. SignedWithinPolicy'  BY Zenon DEF SignedWithinPolicy, Within
<1>5. SeedsApart'  BY <1>1, Zenon DEF SigningInv, SeedsApart
<1>6. KeyShown'  BY <1>1, Zenon DEF KeyShown
<1> QED BY <1>3, <1>4, <1>5, <1>6, Zenon DEF SigningInv, SigningFits

\* The wallet's NEAR key, and what is asked of the request that is served.
LEMMA ServedFacts ==
    ASSUME SigningInv, signing # None
    PROVE  /\ signing.req \in Requests /\ signing.req.id \in Seq(Segments) /\ Len(signing.req.id) = 1
           /\ OwnSeed(WalletSeed(signing.req.id, <<"near">>))
           /\ WalletSeed(signing.req.id, <<"near">>)[3] = "near"
<1>1. signing.req \in Requests /\ Admissible(signing.req)  BY Zenon DEF SigningInv, SigningFits
<1>2. signing.req.id \in Seq(Segments)  BY <1>1, SigningAssumption, Zenon
<1>3. Len(signing.req.id) = 1  BY <1>1, Zenon DEF Admissible, ValidWalletId
<1> QED BY <1>1, <1>2, <1>3, SeedFacts, Zenon

\* What a signature of each form can be used for.
LEMMA OpensFacts ==
    ASSUME NEW g
    PROVE  /\ g.form = "near_tx" => Opens(g) = IF g.req.op.kind = "call" /\ g.to \in Verifiers
                                               THEN {"intents_call", "raw_sign_near"} ELSE {}
           /\ g.form = "raw" => Opens(g) = IF g.seed[3] = "near" THEN {"raw_sign_near"} ELSE {"raw_sign"}
           /\ g.form = "nep413" => Opens(g) = IF g.to \in Verifiers /\ g.moves /\ g.req.op.kind \notin BuiltKinds
                                              THEN {"trusted"} ELSE {}
           /\ g.form = "auth" => Opens(g) = {}
           /\ g.form = "evm" => Opens(g) = {IF g.req.form = "transaction" THEN "evm_raw_tx" ELSE "evm_sign"}
           /\ g.form = "solana" => Opens(g) = {IF g.req.bytes = "transaction" THEN "solana_raw_tx" ELSE "solana_sign"}
<1>1. CASE g.form = "near_tx"  BY <1>1, Zenon DEF Opens
<1>2. CASE g.form = "raw"  BY <1>2, Zenon DEF Opens
<1>3. CASE g.form = "nep413"  BY <1>3, Zenon DEF Opens
<1>4. CASE g.form = "auth"  BY <1>4, Zenon DEF Opens
<1>5. CASE g.form = "evm"  BY <1>5, Zenon DEF Opens
<1>6. CASE g.form = "solana"  BY <1>6, Zenon DEF Opens
<1>7. CASE g.form \notin {"near_tx", "raw", "nep413", "auth", "evm", "solana"}  BY <1>7, Zenon
<1> QED BY <1>1, <1>2, <1>3, <1>4, <1>5, <1>6, <1>7, Zenon

\* sign_wallet_operation: whichever way the artifact is produced, the judgement covers what
\* it can be used for.
LEMMA FinishSignKeeps ==
    ASSUME SigningInv, NEW owned, NEW view, FinishSign(owned, view), WalletInv'
    PROVE  SigningInv'
<1> DEFINE r == signing.req
           p == signing.stated
<1>1. /\ signing # None /\ r.what = "sign" /\ signing' = None /\ UNCHANGED exported
      /\ Decision(PolicyToJudgeBy(p), r.op) = "RequiresApproval" => VerifyApprovals(PolicyToJudgeBy(p), r, owned)
      /\ SignBuilt(r, view) \/ SignHashPinned(r) \/ SignTrusted(r)
    BY Zenon DEF FinishSign
<1>2. r \in Requests /\ p \in Policies \cup {None} /\ Judged(r, p)  BY <1>1, Zenon DEF SigningInv, SigningFits
<1>3. p # None => /\ Needs(r.op) \subseteq p.may
                  /\ r.op.kind \in p.asks => Cardinality(Backing(p, r)) >= p.threshold
    BY <1>1, <1>2, JudgedFacts, Zenon
<1>4. /\ r.id \in Seq(Segments) /\ Len(r.id) = 1
      /\ OwnSeed(WalletSeed(r.id, <<"near">>)) /\ WalletSeed(r.id, <<"near">>)[3] = "near"
    BY <1>1, ServedFacts, Zenon
<1>5. ASSUME NEW seed, NEW form, NEW to, NEW moves, given' = Artifact(r, seed, form, to, moves),
             form \in {"near_tx", "nep413", "auth", "raw"}, OwnSeed(seed),
             p # None => /\ Opens(given') # {} => Opens(given') \cap p.may # {}
                         /\ form = "nep413" /\ to \notin Verifiers => to \in p.recipients
      PROVE  SigningInv'
    <2>1. given'.form = form /\ given'.to = to /\ given'.req = r /\ given'.stated = p  BY <1>5, Zenon DEF Artifact
    <2>2. Within(given')  BY <1>3, <1>5, <2>1, Zenon DEF Within
    <2> QED BY <1>1, <1>5, <2>2, ArtifactKeeps, Zenon
<1>6. ASSUME NEW seed, NEW form, NEW to, NEW moves, given' = Artifact(r, seed, form, to, moves)
      PROVE  given'.form = form /\ given'.to = to /\ given'.req = r /\ given'.moves = moves /\ given'.seed = seed
    BY <1>6, Zenon DEF Artifact
<1> HIDE DEF r, p
<1>7. CASE NearTransaction(r)
    <2> DEFINE to == IF r.op.kind = "delete" THEN None ELSE r.op.to
    <2>1. given' = Artifact(r, WalletSeed(r.id, <<"near">>), "near_tx", to, TRUE)  BY <1>7, Zenon DEF NearTransaction
    <2>2. given'.form = "near_tx" /\ given'.to = to /\ given'.req = r  BY <1>6, <2>1, Zenon
    <2>3. r.op.kind = "call" => to = r.op.to  BY Zenon
    <2> HIDE DEF to
    <2>4. Opens(given') = IF r.op.kind = "call" /\ to \in Verifiers THEN {"intents_call", "raw_sign_near"} ELSE {}
        BY <2>2, OpensFacts, Zenon
    <2>5. r.op.kind = "call" /\ to \in Verifiers => Needs(r.op) = {"intents_call"}  BY <2>3, Zenon DEF Needs, TrustedKinds
    <2>6. p # None => (Opens(given') # {} => Opens(given') \cap p.may # {})  BY <1>3, <2>4, <2>5, Zenon
    <2> QED BY <1>4, <1>5, <2>1, <2>6, Zenon
<1>8. ASSUME NEW moves, given' = Artifact(r, WalletSeed(r.id, <<"near">>), "nep413", "intents.near", moves),
             r.op.kind \in BuiltKinds
      PROVE  SigningInv'
    <2>1. given'.form = "nep413" /\ given'.req = r  BY <1>6, <1>8, Zenon
    <2>2. Opens(given') = {}  BY <1>8, <2>1, OpensFacts, Zenon
    <2>3. "intents.near" \in Verifiers  BY Zenon DEF Verifiers
    <2> QED BY <1>4, <1>5, <1>8, <2>2, <2>3, Zenon
<1>9. CASE BuiltIntent(r, view)  BY <1>8, <1>9, Zenon DEF BuiltIntent, BuiltKinds
<1>10. CASE JwtChallenge(r)  BY <1>8, <1>10, Zenon DEF JwtChallenge, BuiltKinds
<1>11. CASE AuthText(r)
    <2>1. given' = Artifact(r, WalletSeed(r.id, <<"near">>), "auth", None, FALSE)  BY <1>11, Zenon DEF AuthText
    <2>2. Opens(given') = {}  BY <1>6, <2>1, OpensFacts
    <2> QED BY <1>4, <1>5, <2>1, <2>2, Zenon
<1>12. CASE SignHashPinned(r)
    <2>1. ASSUME r.op.kind = "raw", RawChain(r.op.chain),
                 given' = Artifact(r, WalletSeed(r.id, r.op.chain), "raw", None, TRUE)
          PROVE  SigningInv'
        <3>1. given'.form = "raw" /\ given'.seed = WalletSeed(r.id, r.op.chain)  BY <1>6, <2>1, Zenon
        <3>2. r.op.chain \in Seq(Segments)  BY <1>1, <1>2, SigningAssumption, Zenon DEF r
        <3>3. CASE r.op.chain = <<"near">>
            <4>1. Opens(given') = {"raw_sign_near"}  BY <1>4, <3>1, <3>3, OpensFacts
            <4>2. Needs(r.op) = {"raw_sign_near"}  BY <2>1, <3>3, Zenon DEF Needs, TrustedKinds
            <4>3. p # None => Opens(given') \cap p.may # {}  BY <1>3, <4>1, <4>2, Zenon
            <4> QED BY <1>4, <1>5, <2>1, <3>3, <4>3, Zenon
        <3>4. CASE IsSolanaChain(r.op.chain)
            <4>1. OwnSeed(WalletSeed(r.id, r.op.chain)) /\ WalletSeed(r.id, r.op.chain)[3] = "solana"
                BY <1>4, <3>2, <3>4, SeedFacts, Zenon
            <4>2. Opens(given') = {"raw_sign"}  BY <3>1, <4>1, OpensFacts, Zenon
            <4>3. r.op.chain # <<"near">>  BY <3>4 DEF IsSolanaChain, SolanaChains
            <4>4. Needs(r.op) = {"raw_sign"}  BY <2>1, <4>3, Zenon DEF Needs, TrustedKinds
            <4>5. p # None => Opens(given') \cap p.may # {}  BY <1>3, <4>2, <4>4, Zenon
            <4> QED BY <1>5, <2>1, <4>1, <4>5, Zenon
        <3> QED BY <2>1, <3>3, <3>4, Zenon DEF RawChain
    <2>2. ASSUME MessageRecipient(p, r.op.to),
                 given' = Artifact(r, WalletSeed(r.id, <<"near">>), "nep413", r.op.to, TRUE)
          PROVE  SigningInv'
        <3>1. r.op.to \notin Verifiers /\ (p # None => r.op.to \in p.recipients)  BY <2>2, Zenon DEF MessageRecipient
        <3>2. given'.form = "nep413" /\ given'.to = r.op.to  BY <1>6, <2>2, Zenon
        <3>3. Opens(given') = {}  BY <3>1, <3>2, OpensFacts, Zenon
        <3> QED BY <1>4, <1>5, <2>2, <3>1, <3>3, Zenon
    <2> QED BY <1>12, <2>1, <2>2, Zenon DEF SignHashPinned, p
<1>13. CASE SignTrusted(r)
    <2>1. /\ r.op.kind \in TrustedKinds /\ r.artifact.to \in Verifiers
          /\ given' = Artifact(r, WalletSeed(r.id, <<"near">>), "nep413", r.artifact.to, TRUE)
        BY <1>13, Zenon DEF SignTrusted
    <2>2. given'.form = "nep413" /\ given'.to = r.artifact.to /\ given'.req = r /\ given'.moves = TRUE  BY <1>6, <2>1, Zenon
    <2>3. r.op.kind \notin BuiltKinds  BY <2>1, Zenon DEF TrustedKinds, BuiltKinds
    <2>6. Opens(given') = {"trusted"}  BY <2>1, <2>2, <2>3, OpensFacts
    <2>4. Needs(r.op) = {"trusted"}  BY <2>1, Zenon DEF Needs, TrustedKinds
    <2>5. p # None => Opens(given') \cap p.may # {}  BY <1>3, <2>4, <2>6, Zenon
    <2> QED BY <1>4, <1>5, <2>1, <2>5, Zenon
<1> QED BY <1>1, <1>7, <1>9, <1>10, <1>11, <1>12, <1>13, Zenon DEF SignBuilt

\* The EVM and Solana doors: a message that is a transaction was not let in as one.
LEMMA FinishChainKeeps ==
    ASSUME SigningInv, FinishChainSign, WalletInv'
    PROVE  SigningInv'
<1> DEFINE r == signing.req
           p == signing.stated
           seed == IF r.what = "evm" THEN KeyFor(r.id, r.chain, r.path) ELSE WalletSeed(r.id, r.chain)
<1>1. /\ signing # None /\ r.what \in {"evm", "solana"} /\ signing' = None /\ UNCHANGED exported
      /\ given' = Artifact(r, seed, r.what, None, TRUE)
    BY Zenon DEF FinishChainSign
<1>2. r \in Requests /\ p \in Policies \cup {None} /\ Judged(r, p) /\ Admissible(r)
    BY <1>1, Zenon DEF SigningInv, SigningFits
<1>3. r.id \in Seq(Segments) /\ Len(r.id) = 1  BY <1>1, ServedFacts, Zenon
<1>4. r.chain \in Seq(Segments)  BY <1>1, <1>2, SigningAssumption, Zenon
<1>5. given'.form = r.what /\ given'.req = r /\ given'.stated = p  BY <1>1, Zenon DEF Artifact
<1>6. CASE r.what = "evm"
    <2>1. ValidSubPath(r.path) /\ IsEvmChain(r.chain)  BY <1>2, <1>6, Zenon DEF Admissible
    <2>2. seed = KeyFor(r.id, <<"evm">>, r.path) /\ OwnSeed(seed)
        <3>1. seed = KeyFor(r.id, r.chain, r.path)  BY <1>6, Zenon
        <3>2. WalletSeed(r.id, r.chain) = WalletSeed(r.id, <<"evm">>) /\ OwnSeed(WalletSeed(r.id, r.chain))
            BY <1>3, <1>4, <2>1, SeedFacts, Zenon
        <3>3. r.path # None => OwnSeed(SubkeySeed(r.id, r.path))  BY <1>3, <2>1, SeedFacts, Zenon DEF ValidSubPath
        <3> QED BY <3>1, <3>2, <3>3, Zenon DEF KeyFor
    <2>3. Opens(given') = {IF r.form = "transaction" THEN "evm_raw_tx" ELSE "evm_sign"}
        BY <1>5, <1>6, OpensFacts, Zenon
    <2>4. p # None => "evm_sign" \in p.may /\ (r.form = "transaction" => "evm_raw_tx" \in p.may)
        BY <1>2, <1>6, Zenon DEF Judged, ChainDecision
    <2>5. Within(given')  BY <1>5, <1>6, <2>3, <2>4, Zenon DEF Within
    <2> HIDE DEF seed
    <2> QED BY <1>1, <1>6, <2>2, <2>5, ArtifactKeeps, Zenon
<1>7. CASE r.what = "solana"
    <2>1. IsSolanaChain(r.chain) /\ (r.form = "message" => r.bytes # "transaction")
        BY <1>2, <1>7, Zenon DEF Admissible, NotATransaction
    <2>2. seed = WalletSeed(r.id, r.chain) /\ OwnSeed(seed)  BY <1>3, <1>4, <1>7, <2>1, SeedFacts, Zenon
    <2>3. Opens(given') = {IF r.bytes = "transaction" THEN "solana_raw_tx" ELSE "solana_sign"}
        BY <1>5, <1>7, OpensFacts
    <2>4. p # None => "solana_sign" \in p.may /\ (r.form = "transaction" => "solana_raw_tx" \in p.may)
        BY <1>2, <1>7, Zenon DEF Judged, ChainDecision
    <2>5. r.bytes = "transaction" => r.form = "transaction"  BY <1>2, <1>7, <2>1, SigningAssumption, Zenon
    <2>6. Within(given')  BY <1>5, <1>7, <2>3, <2>4, <2>5, Zenon DEF Within
    <2> HIDE DEF seed
    <2> QED BY <1>1, <1>7, <2>2, <2>6, ArtifactKeeps, Zenon
<1> QED BY <1>1, <1>6, <1>7, Zenon

\* The chain's freeze is read with the policy, before anything is judged.
LEMMA BeginKeeps ==
    ASSUME SigningInv, NEW r \in Requests, BeginRequest(r), WalletInv'
    PROVE  SigningInv'
<1>1. /\ r.what \in {"sign", "evm", "solana"} /\ Admissible(r) /\ NotFrozen(r.id[1])
      /\ Judged(r, PolicyOf(r.id[1])) /\ given' = None /\ UNCHANGED exported
      /\ signing' = [req |-> r, stated |-> PolicyOf(r.id[1]), stopped |-> r.id[1] \in stopped]
    BY Zenon DEF BeginRequest
<1>2. PolicyOf(r.id[1]) \in Policies \cup {None}
    BY Zenon DEF PolicyOf, SigningInv, WalletInv, WalletTypes, Entries
<1>3. r.id[1] \notin stopped  BY <1>1, Zenon DEF NotFrozen, SigningInv, WalletInv, StoppedIsFrozen
<1>4. signing'.req = r /\ signing'.stated = PolicyOf(r.id[1]) /\ signing'.stopped = FALSE
    <2>1. (r.id[1] \in stopped) = FALSE  BY <1>3
    <2>2. signing'.stopped = (r.id[1] \in stopped)  BY <1>1, Zenon
    <2> QED BY <1>1, <2>1, <2>2, Zenon
<1>5. SigningFits'  BY <1>1, <1>2, <1>4, Zenon DEF SigningFits
<1>6. SeedsApart' /\ KeyShown' /\ FreezeStopsSigning' /\ SignedWithinPolicy'
    BY <1>1, Zenon DEF SigningInv, SeedsApart, KeyShown, FreezeStopsSigning, SignedWithinPolicy, Signed
<1> QED BY <1>5, <1>6, Zenon DEF SigningInv

\* Nothing is signed by a verdict, an address or an exported key.
LEMMA ShownKeeps ==
    ASSUME SigningInv, NEW r \in Requests, CheckPolicy(r) \/ DeriveAddress(r) \/ DeriveEphemeralKey(r), WalletInv'
    PROVE  SigningInv'
<1>1. r.id \in Seq(Segments) /\ Len(r.id) = 1 /\ signing' = None
    BY SigningAssumption, Zenon DEF CheckPolicy, DeriveAddress, DeriveEphemeralKey, ValidWalletId
<1>2. ASSUME given'.form \in {"address", "key", "verdict"}, \A s \in exported' : ExportSeed(s),
             given'.form = "address" => OwnSeed(given'.seed)
      PROVE  SigningInv'
    <2>1. ~Signed'  BY <1>2, Zenon DEF Signed
    <2>2. SeedsApart'  BY <1>2, <2>1, Zenon DEF SeedsApart
    <2> QED BY <1>1, <2>1, <2>2, Zenon DEF SigningInv, SigningFits, KeyShown, FreezeStopsSigning, SignedWithinPolicy
<1>3. \A s \in exported : ExportSeed(s)  BY Zenon DEF SigningInv, SeedsApart
<1>4. CASE CheckPolicy(r)
    <2>1. given'.form = "verdict" /\ exported' = exported  BY <1>4, Zenon DEF CheckPolicy
    <2> QED BY <1>2, <1>3, <2>1, Zenon
<1>5. CASE DeriveAddress(r)
    <2>1. /\ r.what = "derive" /\ exported' = exported /\ ValidSubPath(r.path)
          /\ r.path # None => IsEvmChain(r.chain)
          /\ IsEvmChain(r.chain) \/ IsSolanaChain(r.chain) \/ r.chain = <<"near">>
          /\ given'.form = "address" /\ given'.seed = KeyFor(r.id, r.chain, r.path)
        BY <1>5, Zenon DEF DeriveAddress
    <2>2. r.chain \in Seq(Segments)  BY <2>1, SigningAssumption, Zenon
    <2>3. OwnSeed(WalletSeed(r.id, r.chain))  BY <1>1, <2>1, <2>2, SeedFacts, Zenon
    <2>4. r.path # None => OwnSeed(SubkeySeed(r.id, r.path))  BY <1>1, <2>1, SeedFacts, Zenon DEF ValidSubPath
    <2>5. OwnSeed(given'.seed)  BY <2>1, <2>3, <2>4, Zenon DEF KeyFor
    <2> QED BY <1>2, <1>3, <2>1, <2>5, Zenon
<1>6. CASE DeriveEphemeralKey(r)
    <2> DEFINE seed == <<"wallet">> \o r.id \o r.chain \o r.path
    <2>1. r.what = "export" /\ r.path # <<>> /\ given'.form = "key" /\ exported' = exported \cup {seed}
        BY <1>6, Zenon DEF DeriveEphemeralKey
    <2>2. r.chain \in Seq(Segments) \ {<<>>} /\ r.path \in Seq(Segments) \ {<<>>}  BY <2>1, SigningAssumption, Zenon
    <2>3. ExportSeed(seed)  BY <1>1, <2>2, ExportFacts, Zenon
    <2> HIDE DEF seed
    <2> QED BY <1>2, <1>3, <2>1, <2>3, Zenon
<1> QED BY <1>4, <1>5, <1>6, Zenon

\* A step of the policies, or a request refused, leaves what was given as it is.
LEMMA GivenStays ==
    ASSUME SigningInv, UNCHANGED <<given, exported>>, signing' = signing \/ signing' = None, WalletInv'
    PROVE  SigningInv'
<1>1. Signed' <=> Signed  BY Zenon DEF Signed
<1>2. SeedsApart' /\ KeyShown' /\ FreezeStopsSigning' /\ SignedWithinPolicy'
    BY <1>1, Zenon DEF SigningInv, SeedsApart, KeyShown, FreezeStopsSigning, SignedWithinPolicy
<1>3. SigningFits'  BY Zenon DEF SigningInv, SigningFits
<1> QED BY <1>2, <1>3, Zenon DEF SigningInv

\* The keystore beside the contract whose policies it reads.
SigningStep ==
    \/ SigningNext /\ UNCHANGED projectVars
    \/ WalletNext /\ UNCHANGED <<projectVars, signingVars>>
    \/ ProjectsNext /\ UNCHANGED <<walletVars, signingVars>>
tableVars == <<projectVars, walletVars, signingVars>>

\* A request that is served was judged by a policy that stood on chain, and what was signed
\* is what that policy opens, with a key that is never handed out.
THEOREM SigningInvAlways == SigningSpec => []SigningInv
<1>1. ProjectsInit /\ WalletInit /\ SigningInit => SigningInv
    BY WalletInitially, Zenon DEF SigningInit, SigningInv, SigningFits, SeedsApart, KeyShown, FreezeStopsSigning,
                           SignedWithinPolicy, Signed
<1>2. SigningInv /\ [SigningStep]_tableVars => SigningInv'
    <2> SUFFICES ASSUME SigningInv, [SigningStep]_tableVars PROVE SigningInv'  OBVIOUS
    <2>1. WalletInv'
        <3>1. [WalletNext]_walletVars  BY Zenon DEF SigningStep, SigningNext, tableVars
        <3> QED BY <3>1, WalletStepKeeps, Zenon DEF SigningInv
    <2>2. CASE SigningNext
        <3>1. CASE RefuseRequest  BY <2>1, <3>1, GivenStays, Zenon DEF RefuseRequest
        <3> QED BY <2>1, <2>2, <3>1, BeginKeeps, ShownKeeps, FinishSignKeeps, FinishChainKeeps, Zenon DEF SigningNext
    <2>3. CASE UNCHANGED signingVars  BY <2>1, <2>3, GivenStays, Zenon DEF signingVars
    <2> QED BY <2>2, <2>3, Zenon DEF SigningStep, tableVars
<1> QED BY <1>1, <1>2, PTL DEF SigningSpec, SigningStep, tableVars

\* A wallet its controller froze signs no request that came after (load_wallet_policy),
\* whatever is edited, filed or thawed and frozen again while requests are under way.
THEOREM FreezeAlwaysStopsSigning == SigningSpec => []FreezeStopsSigning
<1>1. SigningInv => FreezeStopsSigning  BY Zenon DEF SigningInv
<1> QED BY <1>1, SigningInvAlways, PTL

\* Whatever door a request took, its signature can be used only for what the policy that was
\* read opens, with the votes that policy asks for, under a key that was never handed out and
\* whose address the caller was shown.
THEOREM AlwaysSignsAsAllowed == SigningSpec => []SignsAsAllowed
<1>1. ASSUME NEW s, OwnSeed(s) PROVE ~ExportSeed(s)  BY <1>1 DEF OwnSeed, ExportSeed
<1>2. SigningInv => SignsAsAllowed
    BY <1>1, Zenon DEF SigningInv, SeedsApart, KeyShown, SignsAsAllowed, KeysApart
<1> QED BY <1>2, SigningInvAlways, PTL

-----------------------------------------------------------------------------
\* Secrets on their way to the contract.

SecretsIn(row) == IF row = NoRow THEN EmptyMap ELSE row.blob.secrets

\* A name with the PROTECTED_ prefix has a value that was generated.
OnlyGenerated(secrets) == \A k \in DOMAIN secrets \cap ProtectedKeys : secrets[k] # Written

\* An update carries names it may write, and a row that was read, or not seen, at one moment.
UpdateFits ==
    updating # NoRow =>
        /\ updating.req \in UpdateRequests
        /\ updating.req.keys \cap (ReservedKeys \cup ProtectedKeys) = {}
        /\ updating.row = updating.on \/ updating.row = NoRow
        /\ OnlyGenerated(SecretsIn(updating.row))

UpdatesInv ==
    /\ generated \in Nat
    /\ \A a \in DOMAIN shelf : OnlyGenerated(shelf[a].blob.secrets)
    /\ UpdateFits
    /\ FiledWithoutLoss

\* What the keystore gives out, by the fields that matter for filing it.
Fileable(h) ==
    /\ OpensWith(h.blob, h.vault, SeedOf(h.at))
    /\ h.mode = "append" => DOMAIN SecretsIn(h.on) \subseteq DOMAIN h.blob.secrets
    /\ SameUnder(ProtectedKeys, h.blob.secrets, SecretsIn(h.read))
    /\ OnlyGenerated(h.blob.secrets)
    /\ DOMAIN h.blob.secrets \cap ReservedKeys \subseteq DOMAIN SecretsIn(h.read)

\* The property, in those words.
LEMMA FiledIsFileable == FiledWithoutLoss <=> (handed # NoRow => Fileable(handed))
BY Zenon DEF FiledWithoutLoss, Fileable, OnlyGenerated, SecretsIn

\* The seed of an accessor is the seed of the key the contract files it under.
LEMMA SeedOfCanonical == ASSUME NEW a, IsAccessor(a) PROVE SeedOf(Canonical(a)) = SeedOf(a)
<1>1. CASE a.kind = "repo"
    <2>1. a.name \in DOMAIN Normalised  BY <1>1, Zenon DEF IsAccessor
    <2>2. Normalised[Normalised[a.name]] = Normalised[a.name]  BY <2>1, SecretUpdatesAssumption, Zenon
    <2>3. Canonical(a) = [a EXCEPT !.name = Normalised[a.name]]  BY <1>1, Zenon DEF Canonical
    <2>4. Canonical(a).kind = "repo" /\ Canonical(a).branch = a.branch /\ Canonical(a).name = Normalised[a.name]
        BY <1>1, <2>3, Zenon DEF IsAccessor
    <2> QED BY <1>1, <2>2, <2>4 DEF SeedOf
<1>2. CASE a.kind # "repo"  BY <1>2, Zenon DEF Canonical
<1> QED BY <1>1, <1>2, Zenon

\* What a generation adds: names that were not there, with values nobody wrote.
LEMMA GeneratedFacts ==
    ASSUME generated \in Nat, NEW secrets, NEW names, \A i \in DOMAIN names : names[i] \in ProtectedKeys,
           OnlyGenerated(secrets)
    PROVE  LET all == WithGenerated(secrets, names)
           IN /\ DOMAIN secrets \subseteq DOMAIN all /\ \A k \in DOMAIN secrets : all[k] = secrets[k]
              /\ DOMAIN all \cap ReservedKeys \subseteq DOMAIN secrets
              /\ OnlyGenerated(all)
<1> DEFINE all == WithGenerated(secrets, names)
<1>1. /\ DOMAIN all = DOMAIN secrets \cup {names[i] : i \in DOMAIN names}
      /\ \A k \in DOMAIN all : all[k] = IF k \in DOMAIN secrets THEN secrets[k] ELSE generated + 1
    BY Zenon DEF WithGenerated
<1>2. generated + 1 # Written  BY SecretUpdatesAssumption
<1> HIDE DEF all
<1>3. DOMAIN all \cap ReservedKeys \subseteq DOMAIN secrets  BY <1>1, SecretUpdatesAssumption
<1>4. OnlyGenerated(all)  BY <1>1, <1>2, Zenon DEF OnlyGenerated
<1> QED BY <1>1, <1>3, <1>4, Zenon DEF all

\* What is sealed for an accessor opens for a reader of the row it is filed in.
LEMMA SealedOpens ==
    ASSUME NEW a, IsAccessor(a), NEW v, NEW secrets, NEW h, h.blob = SealedUnder(v, SeedOf(a), secrets),
           h.vault = v, h.at = Canonical(a)
    PROVE  OpensWith(h.blob, h.vault, SeedOf(h.at)) /\ h.blob.secrets = secrets
BY SeedOfCanonical DEF SealedUnder, OpensWith

\* A ciphertext for a new row holds nothing that was there before.
LEMMA NewFileable ==
    ASSUME NEW h, h.mode = "new", h.read = NoRow, OpensWith(h.blob, h.vault, SeedOf(h.at)),
           OnlyGenerated(h.blob.secrets), DOMAIN h.blob.secrets \cap ReservedKeys = {}
    PROVE  Fileable(h)
BY Zenon DEF Fileable, SameUnder, SecretsIn, EmptyMap

\* The merge of an update keeps what the row had.
LEMMA MergeKeeps ==
    ASSUME UpdatesInv, MergeUpdate
    PROVE  UpdatesInv'
<1> DEFINE req == updating.req
           row == updating.row
           old == SecretsIn(row)
           merged == [k \in req.keys \cup KeptBy(req.mode, old) |-> IF k \in req.keys THEN Written ELSE old[k]]
           all == WithGenerated(merged, req.names)
<1>1. /\ updating # NoRow /\ updating' = NoRow /\ shelf' = shelf
      /\ MayMerge(req.mode, row) /\ Generable(req.names, DOMAIN merged)
      /\ handed' = [blob |-> SealedUnder(req.vault, SeedOf(MovesTo(req)), all),
                    at |-> Canonical(MovesTo(req)), vault |-> req.vault,
                    mode |-> req.mode, read |-> row, on |-> updating.on]
      /\ generated' = GeneratedBy(req.names)
    BY Zenon DEF MergeUpdate, SecretsIn
<1>2. /\ req \in UpdateRequests /\ req.keys \cap (ReservedKeys \cup ProtectedKeys) = {}
      /\ row = updating.on \/ row = NoRow
      /\ OnlyGenerated(old)
    BY <1>1, Zenon DEF UpdatesInv, UpdateFits
<1>3. IsAccessor(MovesTo(req)) /\ req.mode \in {"append", "reset"}
    BY <1>2, SecretUpdatesAssumption, Zenon DEF MovesTo
<1>4. /\ handed'.blob = SealedUnder(req.vault, SeedOf(MovesTo(req)), all) /\ handed'.at = Canonical(MovesTo(req))
      /\ handed'.vault = req.vault /\ handed'.mode = req.mode /\ handed'.read = row /\ handed'.on = updating.on
    BY <1>1, Zenon
<1>5. KeptBy(req.mode, old) \subseteq DOMAIN old /\ DOMAIN old \cap ProtectedKeys \subseteq KeptBy(req.mode, old)
    BY Zenon DEF KeptBy
<1>6. DOMAIN merged = req.keys \cup KeptBy(req.mode, old)
      /\ \A k \in DOMAIN merged : merged[k] = IF k \in req.keys THEN Written ELSE old[k]
    BY Zenon
<1> HIDE DEF merged
<1>7. OnlyGenerated(merged)  BY <1>2, <1>5, <1>6, Zenon DEF OnlyGenerated
<1>8. /\ generated \in Nat /\ \A i \in DOMAIN req.names : req.names[i] \in ProtectedKeys
    BY <1>1, Zenon DEF UpdatesInv, Generable
<1>9. /\ DOMAIN merged \subseteq DOMAIN all /\ \A k \in DOMAIN merged : all[k] = merged[k]
      /\ DOMAIN all \cap ReservedKeys \subseteq DOMAIN merged
      /\ OnlyGenerated(all)
    BY <1>7, <1>8, GeneratedFacts, Zenon
<1> HIDE DEF all
<1>10. OpensWith(handed'.blob, handed'.vault, SeedOf(handed'.at)) /\ handed'.blob.secrets = all
    BY <1>3, <1>4, SealedOpens
<1>11. req.mode = "append" => DOMAIN SecretsIn(updating.on) \subseteq DOMAIN all
    BY <1>1, <1>2, <1>6, <1>9, Zenon DEF MayMerge, KeptBy
<1>12. SameUnder(ProtectedKeys, all, old)  BY <1>2, <1>5, <1>6, <1>9, Zenon DEF SameUnder
<1>13. DOMAIN all \cap ReservedKeys \subseteq DOMAIN old  BY <1>2, <1>5, <1>6, <1>9, Zenon
<1>14. Fileable(handed')  BY <1>4, <1>9, <1>10, <1>11, <1>12, <1>13, Zenon DEF Fileable
<1>15. generated' \in Nat  BY <1>1, <1>8 DEF GeneratedBy
<1>16. FiledWithoutLoss'  BY <1>14, Zenon DEF FiledWithoutLoss, Fileable, OnlyGenerated, SecretsIn
<1> QED BY <1>1, <1>15, <1>16, Zenon DEF UpdatesInv, UpdateFits

\* The two doors for a new row.
LEMMA NewRowKeeps ==
    ASSUME UpdatesInv,
           \/ \E a \in Accessors, keys \in SUBSET SecretNames, v \in Scopes, auth \in BOOLEAN :
                 EncryptByHand(a, keys, v, auth)
           \/ \E r \in GeneratedRequests : AddGenerated(r)
    PROVE  UpdatesInv'
<1>1. ASSUME NEW a, IsAccessor(a), NEW v, NEW secrets, OnlyGenerated(secrets), DOMAIN secrets \cap ReservedKeys = {},
             handed' = [blob |-> SealedUnder(v, SeedOf(a), secrets), at |-> Canonical(a), vault |-> v,
                        mode |-> "new", read |-> NoRow, on |-> NoRow],
             UNCHANGED <<shelf, updating>>, generated' \in Nat
      PROVE  UpdatesInv'
    <2>1. /\ handed'.blob = SealedUnder(v, SeedOf(a), secrets) /\ handed'.at = Canonical(a) /\ handed'.vault = v
          /\ handed'.mode = "new" /\ handed'.read = NoRow
        BY <1>1, Zenon
    <2>2. OpensWith(handed'.blob, handed'.vault, SeedOf(handed'.at)) /\ handed'.blob.secrets = secrets
        BY <1>1, <2>1, SealedOpens
    <2>3. Fileable(handed')  BY <1>1, <2>1, <2>2, NewFileable, Zenon
    <2>4. FiledWithoutLoss'  BY <2>3, Zenon DEF FiledWithoutLoss, Fileable, OnlyGenerated, SecretsIn
    <2> QED BY <1>1, <2>4, Zenon DEF UpdatesInv, UpdateFits
<1>2. ASSUME NEW a \in Accessors, NEW keys \in SUBSET SecretNames, NEW v \in Scopes, NEW auth \in BOOLEAN,
             EncryptByHand(a, keys, v, auth)
      PROVE  UpdatesInv'
    <2> DEFINE secrets == [k \in keys |-> Written]
    <2>1. /\ keys \cap (ReservedKeys \cup ProtectedKeys) = {} /\ UNCHANGED <<shelf, updating, generated>>
          /\ handed' = [blob |-> SealedUnder(v, SeedOf(a), secrets), at |-> Canonical(a), vault |-> v,
                        mode |-> "new", read |-> NoRow, on |-> NoRow]
        BY <1>2, Zenon DEF EncryptByHand, PubkeyFor
    <2>2. OnlyGenerated(secrets) /\ DOMAIN secrets \cap ReservedKeys = {}  BY <2>1, Zenon DEF OnlyGenerated
    <2>3. IsAccessor(a) /\ generated' \in Nat  BY <2>1, SecretUpdatesAssumption, Zenon DEF UpdatesInv
    <2> HIDE DEF secrets
    <2> QED BY <1>1, <2>1, <2>2, <2>3, Zenon
<1>3. ASSUME NEW r \in GeneratedRequests, AddGenerated(r) PROVE UpdatesInv'
    <2> DEFINE old == IF r.sent THEN handed.blob.secrets ELSE EmptyMap
               all == WithGenerated(old, r.names)
    <2>1. /\ DOMAIN old \cap ProtectedKeys = {} /\ DOMAIN all \cap ReservedKeys = {}
          /\ \A i \in DOMAIN r.names : r.names[i] \in ProtectedKeys
          /\ generated' = GeneratedBy(r.names) /\ UNCHANGED <<shelf, updating>>
          /\ handed' = [blob |-> SealedUnder(r.vault, SeedOf(r.accessor), all), at |-> Canonical(r.accessor),
                        vault |-> r.vault, mode |-> "new", read |-> NoRow, on |-> NoRow]
        BY <1>3, Zenon DEF AddGenerated
    <2>2. generated \in Nat /\ generated' \in Nat  BY <2>1 DEF UpdatesInv, GeneratedBy
    <2> HIDE DEF old
    <2>3. OnlyGenerated(old)  BY <2>1, Zenon DEF OnlyGenerated
    <2>4. OnlyGenerated(all)  BY <2>1, <2>2, <2>3, GeneratedFacts, Zenon
    <2>5. IsAccessor(r.accessor)  BY SecretUpdatesAssumption, Zenon
    <2> HIDE DEF all
    <2> QED BY <1>1, <2>1, <2>2, <2>4, <2>5, Zenon
<1> QED BY <1>2, <1>3, Zenon

\* Every step keeps the invariant; a row that is filed was fileable when it was given out.
LEMMA UpdatesStepKeeps == ASSUME UpdatesInv, [UpdatesNext]_updateVars PROVE UpdatesInv'
<1>1. ASSUME NEW r \in UpdateRequests, BeginUpdate(r) PROVE UpdatesInv'
    <2>1. /\ updating' = [req |-> r, row |-> NoRow, on |-> NoRow, pc |-> "read"] /\ handed' = NoRow
          /\ UNCHANGED <<shelf, generated>> /\ r.keys \cap (ReservedKeys \cup ProtectedKeys) = {}
        BY <1>1, Zenon DEF BeginUpdate
    <2>2. updating'.req = r /\ updating'.row = NoRow /\ updating'.on = NoRow  BY <2>1, Zenon
    <2>3. OnlyGenerated(SecretsIn(NoRow))  BY Zenon DEF OnlyGenerated, SecretsIn, EmptyMap
    <2>4. UpdateFits'  BY <2>1, <2>2, <2>3, Zenon DEF UpdateFits
    <2> QED BY <2>1, <2>4, Zenon DEF UpdatesInv, FiledWithoutLoss
<1>2. ASSUME NEW visible \in BOOLEAN, ReadFiled(visible) PROVE UpdatesInv'
    <2> DEFINE there == GetOr(shelf, Canonical(updating.req.accessor), NoRow)
               seen == IF visible THEN there ELSE NoRow
    <2>1. /\ updating # NoRow /\ UNCHANGED <<shelf, handed, generated>>
          /\ updating' = [req |-> updating.req, row |-> seen, on |-> there, pc |-> "merge"]
        BY <1>2, Zenon DEF ReadFiled
    <2>3. updating'.req = updating.req /\ updating'.row = seen /\ updating'.on = there  BY <2>1, Zenon
    <2>4. OnlyGenerated(SecretsIn(there))
        BY Zenon DEF GetOr, SecretsIn, OnlyGenerated, EmptyMap, UpdatesInv
    <2>5. OnlyGenerated(SecretsIn(NoRow))  BY Zenon DEF OnlyGenerated, SecretsIn, EmptyMap
    <2> HIDE DEF there
    <2>6. UpdateFits'  BY <2>1, <2>3, <2>4, <2>5, Zenon DEF UpdatesInv, UpdateFits
    <2> QED BY <2>1, <2>6, Zenon DEF UpdatesInv, FiledWithoutLoss
<1>3. CASE RefuseUpdate  BY <1>3, Zenon DEF RefuseUpdate, UpdatesInv, UpdateFits, FiledWithoutLoss
<1>4. CASE FileReturned
    <2>1. /\ handed # NoRow /\ handed' = NoRow /\ UNCHANGED <<updating, generated>>
          /\ shelf' = Put(shelf, handed.at, [blob |-> handed.blob, vault |-> handed.vault])
        BY <1>4, Zenon DEF FileReturned
    <2>2. OnlyGenerated(handed.blob.secrets)  BY <2>1, FiledIsFileable, Zenon DEF UpdatesInv, Fileable
    <2>3. \A a \in DOMAIN shelf' : shelf'[a].blob = handed.blob \/ (a \in DOMAIN shelf /\ shelf'[a] = shelf[a])
        BY <2>1, Zenon DEF Put
    <2>4. \A a \in DOMAIN shelf' : OnlyGenerated(shelf'[a].blob.secrets)  BY <2>2, <2>3, Zenon DEF UpdatesInv
    <2> QED BY <2>1, <2>4, Zenon DEF UpdatesInv, UpdateFits, FiledWithoutLoss
<1>5. CASE UNCHANGED updateVars  BY <1>5, Zenon DEF updateVars, UpdatesInv, UpdateFits, FiledWithoutLoss
<1> QED BY <1>1, <1>2, <1>3, <1>4, <1>5, MergeKeeps, NewRowKeeps, Zenon DEF UpdatesNext

\* Rows, updates under way and what was given out fit together in every reachable state.
THEOREM UpdatesInvAlways == UpdatesSpec => []UpdatesInv
<1>1. UpdatesInit => UpdatesInv
    BY SecretUpdatesAssumption DEF UpdatesInit, UpdatesInv, UpdateFits, FiledWithoutLoss, OnlyGenerated
<1>2. UpdatesInv /\ [UpdatesNext]_updateVars => UpdatesInv'  BY UpdatesStepKeeps, Zenon
<1> QED BY <1>1, <1>2, PTL DEF UpdatesSpec

\* What /pubkey, /add_generated_secret and /update_user_secrets give out opens for a reader
\* of the row it is filed in, loses no key and no generated value it should carry, and brings
\* no protected or reserved name in.
THEOREM AlwaysFiledWithoutLoss == UpdatesSpec => []FiledWithoutLoss
<1>1. UpdatesInv => FiledWithoutLoss  BY Zenon DEF UpdatesInv
<1> QED BY <1>1, UpdatesInvAlways, PTL

-----------------------------------------------------------------------------
\* The rows of secrets.

SecretTypes ==
    /\ DOMAIN secrets_storage \subseteq Keys
    /\ secrets_storage \in [DOMAIN secrets_storage -> Rows]
    /\ secret_vault_bindings \in [DOMAIN secret_vault_bindings -> Vaults]
    /\ consents \subseteq StoreConsents \cup DeleteConsents

SecretsInv == SecretTypes /\ RowsInPlace

\* A deposit that pays for what a row is.
Funded(r, bound) == r.deposit \in {SecretCost(r.text, r.access, b) : b \in {bound, TRUE}}
\* The index of an owner's rows.
Listed(index, storage, a) == GetOr(index, a, {}) = {k \in DOMAIN storage : k.owner = a}

\* A price is a number.
LEMMA CostType ==
    ASSUME NEW t \in Texts, NEW a \in Conditions, NEW b PROVE SecretCost(t, a, b) \in Nat
BY SecretsAssumption DEF SecretCost

\* What the conjuncts of RowsInPlace come to after a step.
LEMMA RowsPut ==
    ASSUME DOMAIN secret_vault_bindings' \subseteq DOMAIN secrets_storage',
           \A k \in DOMAIN secrets_storage' : Funded(secrets_storage'[k], Bound(k)'),
           \A a \in DOMAIN user_secrets_index' : user_secrets_index'[a] # {},
           \A a \in Callers : Listed(user_secrets_index', secrets_storage', a)
    PROVE  RowsInPlace'
BY Zenon DEF RowsInPlace, Funded, Listed

\* store_secrets_internal: None leaves a binding where it is, and the price counts it.
LEMMA StoreRowKeeps ==
    ASSUME SecretsInv, NEW payer, NEW k \in Keys, NEW t \in Texts, NEW a \in Conditions, NEW v \in VaultArg,
           StoreRow(payer, k, t, a, v)
    PROVE  SecretsInv'
<1> DEFINE row == [text |-> t, access |-> a, deposit |-> SecretCost(t, a, BoundAfterCall(k, v))]
<1>1. /\ secrets_storage' = Put(secrets_storage, k, row)
      /\ secret_vault_bindings' = IF v = None THEN secret_vault_bindings ELSE Put(secret_vault_bindings, k, v)
      /\ user_secrets_index' = IF k \in DOMAIN secrets_storage THEN user_secrets_index
                               ELSE Put(user_secrets_index, k.owner,
                                        GetOr(user_secrets_index, k.owner, {}) \cup {k})
      /\ consents' = consents
    BY Zenon DEF StoreRow
<1>2. row \in Rows  BY CostType, Zenon DEF Rows
<1>3. row.text = t /\ row.access = a /\ row.deposit = SecretCost(t, a, BoundAfterCall(k, v))  BY Zenon
<1> HIDE DEF row
<1>4. /\ DOMAIN secrets_storage' = DOMAIN secrets_storage \cup {k} /\ secrets_storage'[k] = row
      /\ \A j \in DOMAIN secrets_storage : j # k => secrets_storage'[j] = secrets_storage[j]
      /\ secrets_storage' \in [DOMAIN secrets_storage' -> Rows]
    BY <1>1, <1>2, Zenon DEF Put, SecretsInv, SecretTypes
<1>5. /\ DOMAIN secret_vault_bindings' = DOMAIN secret_vault_bindings \cup IF v = None THEN {} ELSE {k}
      /\ secret_vault_bindings' \in [DOMAIN secret_vault_bindings' -> Vaults]
    BY <1>1, Zenon DEF Put, SecretsInv, SecretTypes, VaultArg
<1>6. SecretTypes'  BY <1>1, <1>4, <1>5, Zenon DEF SecretsInv, SecretTypes
<1>7. Bound(k)' <=> BoundAfterCall(k, v)  BY <1>5, Zenon DEF Bound, BoundAfterCall
<1>8. Funded(secrets_storage'[k], Bound(k)')
    <2>1. CASE BoundAfterCall(k, v)
        <3>1. SecretCost(t, a, BoundAfterCall(k, v)) = SecretCost(t, a, TRUE)  BY <2>1, Zenon DEF SecretCost
        <3> QED BY <1>3, <1>4, <3>1, Zenon DEF Funded
    <2>2. CASE ~BoundAfterCall(k, v)
        <3>1. SecretCost(t, a, BoundAfterCall(k, v)) = SecretCost(t, a, Bound(k)')  BY <1>7, <2>2, Zenon DEF SecretCost
        <3> QED BY <1>3, <1>4, <3>1, Zenon DEF Funded
    <2> QED BY <2>1, <2>2, Zenon
<1>9. ASSUME NEW j \in DOMAIN secrets_storage, j # k PROVE Funded(secrets_storage'[j], Bound(j)')
    <2>1. secrets_storage'[j] = secrets_storage[j]  BY <1>4, <1>9, Zenon
    <2>2. Bound(j)' = Bound(j)  BY <1>5, <1>9 DEF Bound
    <2>3. Funded(secrets_storage[j], Bound(j))  BY Zenon DEF SecretsInv, RowsInPlace, Funded
    <2> QED BY <2>1, <2>2, <2>3, Zenon
<1>10. ASSUME NEW b \in Callers PROVE Listed(user_secrets_index', secrets_storage', b)
    <2>1. Listed(user_secrets_index, secrets_storage, b)  BY Zenon DEF SecretsInv, RowsInPlace, Listed
    <2>2. CASE k \in DOMAIN secrets_storage
        <3>1. DOMAIN secrets_storage' = DOMAIN secrets_storage /\ user_secrets_index' = user_secrets_index
            BY <1>1, <1>4, <2>2, Zenon
        <3> QED BY <2>1, <3>1, Zenon DEF Listed
    <2>3. CASE k \notin DOMAIN secrets_storage
        <3>1. GetOr(user_secrets_index', b, {}) =
                 GetOr(user_secrets_index, b, {}) \cup IF k.owner = b THEN {k} ELSE {}
            BY <1>1, <2>3, Zenon DEF Put, GetOr
        <3> QED BY <1>4, <2>1, <3>1, Zenon DEF Listed
    <2> QED BY <2>2, <2>3, Zenon
<1>11. \A b \in DOMAIN user_secrets_index' : user_secrets_index'[b] # {}
    BY <1>1, Zenon DEF SecretsInv, RowsInPlace, Put
<1>12. DOMAIN secret_vault_bindings' \subseteq DOMAIN secrets_storage'
    BY <1>4, <1>5, Zenon DEF SecretsInv, RowsInPlace
<1>13. RowsInPlace'  BY <1>4, <1>8, <1>9, <1>10, <1>11, <1>12, RowsPut, Zenon
<1> QED BY <1>6, <1>13, Zenon DEF SecretsInv

\* delete_secrets_internal: the binding and the owner's index entry go with the row.
LEMMA DeleteRowKeeps ==
    ASSUME SecretsInv, NEW payer, NEW k \in Keys, DeleteRow(payer, k)
    PROVE  SecretsInv'
<1> DEFINE left == GetOr(user_secrets_index, k.owner, {}) \ {k}
<1>1. /\ k \in DOMAIN secrets_storage /\ secrets_storage' = Drop(secrets_storage, k)
      /\ secret_vault_bindings' = Drop(secret_vault_bindings, k)
      /\ user_secrets_index' = IF left = {} THEN Drop(user_secrets_index, k.owner)
                               ELSE Put(user_secrets_index, k.owner, left)
      /\ consents' = consents
    BY Zenon DEF DeleteRow
<1>2. /\ DOMAIN secrets_storage' = DOMAIN secrets_storage \ {k}
      /\ \A j \in DOMAIN secrets_storage' : secrets_storage'[j] = secrets_storage[j]
      /\ secrets_storage' \in [DOMAIN secrets_storage' -> Rows]
    BY <1>1, Zenon DEF Drop, SecretsInv, SecretTypes
<1>3. /\ DOMAIN secret_vault_bindings' = DOMAIN secret_vault_bindings \ {k}
      /\ secret_vault_bindings' \in [DOMAIN secret_vault_bindings' -> Vaults]
    BY <1>1, Zenon DEF Drop, SecretsInv, SecretTypes
<1>4. SecretTypes'  BY <1>1, <1>2, <1>3, Zenon DEF SecretsInv, SecretTypes
<1>5. ASSUME NEW j \in DOMAIN secrets_storage' PROVE Funded(secrets_storage'[j], Bound(j)')
    <2>1. secrets_storage'[j] = secrets_storage[j] /\ j \in DOMAIN secrets_storage /\ j # k  BY <1>2, Zenon
    <2>2. Bound(j)' = Bound(j)  BY <1>3, <2>1 DEF Bound
    <2>3. Funded(secrets_storage[j], Bound(j))  BY <2>1, Zenon DEF SecretsInv, RowsInPlace, Funded
    <2> QED BY <2>1, <2>2, <2>3, Zenon
<1>6. ASSUME NEW b \in Callers PROVE Listed(user_secrets_index', secrets_storage', b)
    <2>1. Listed(user_secrets_index, secrets_storage, b)  BY Zenon DEF SecretsInv, RowsInPlace, Listed
    <2>2. CASE b = k.owner
        <3>1. GetOr(user_secrets_index', b, {}) = left  BY <1>1, <2>2, Zenon DEF Put, Drop, GetOr
        <3> QED BY <1>2, <2>1, <2>2, <3>1, Zenon DEF Listed
    <2>3. CASE b # k.owner
        <3>1. GetOr(user_secrets_index', b, {}) = GetOr(user_secrets_index, b, {})  BY <1>1, <2>3, Zenon DEF Put, Drop, GetOr
        <3> QED BY <1>2, <2>1, <2>3, <3>1, Zenon DEF Listed
    <2> QED BY <2>2, <2>3, Zenon
<1>7. \A b \in DOMAIN user_secrets_index' : user_secrets_index'[b] # {}
    BY <1>1, Zenon DEF SecretsInv, RowsInPlace, Put, Drop
<1>8. DOMAIN secret_vault_bindings' \subseteq DOMAIN secrets_storage'
    BY <1>2, <1>3, Zenon DEF SecretsInv, RowsInPlace
<1>9. RowsInPlace'  BY <1>5, <1>6, <1>7, <1>8, RowsPut, Zenon
<1> QED BY <1>4, <1>9, Zenon DEF SecretsInv

\* unbind_secret_vault takes no money back: the deposit still pays for a binding.
LEMMA UnbindKeeps ==
    ASSUME SecretsInv, NEW k \in Keys, UnbindSecretVault(k)
    PROVE  SecretsInv'
<1>1. /\ secret_vault_bindings' = Drop(secret_vault_bindings, k)
      /\ UNCHANGED <<secrets_storage, user_secrets_index, consents>>
    BY Zenon DEF UnbindSecretVault
<1>2. /\ DOMAIN secret_vault_bindings' = DOMAIN secret_vault_bindings \ {k}
      /\ secret_vault_bindings' \in [DOMAIN secret_vault_bindings' -> Vaults]
    BY <1>1, Zenon DEF Drop, SecretsInv, SecretTypes
<1>3. ASSUME NEW j \in DOMAIN secrets_storage' PROVE Funded(secrets_storage'[j], Bound(j)')
    <2>1. Funded(secrets_storage[j], Bound(j))  BY <1>1, Zenon DEF SecretsInv, RowsInPlace, Funded
    <2>2. CASE j = k
        <3>1. Funded(secrets_storage[j], TRUE) \/ ~Bound(j)
            BY <2>1, Zenon DEF Funded, Bound, SecretCost
        <3>2. ~Bound(j)'  BY <1>2, <2>2, Zenon DEF Bound
        <3>3. Funded(secrets_storage[j], TRUE) => Funded(secrets_storage[j], Bound(j)')  BY Zenon DEF Funded
        <3>4. ~Bound(j) => Bound(j)' = Bound(j)  BY <3>2 DEF Bound
        <3> QED BY <1>1, <2>1, <3>1, <3>3, <3>4, Zenon
    <2>3. CASE j # k
        <3>1. Bound(j)' = Bound(j)  BY <1>2, <2>3 DEF Bound
        <3> QED BY <1>1, <2>1, <3>1, Zenon
    <2> QED BY <2>2, <2>3, Zenon
<1>4. /\ DOMAIN secret_vault_bindings' \subseteq DOMAIN secrets_storage'
      /\ \A b \in DOMAIN user_secrets_index' : user_secrets_index'[b] # {}
      /\ \A b \in Callers : Listed(user_secrets_index', secrets_storage', b)
    BY <1>1, <1>2, Zenon DEF SecretsInv, RowsInPlace, Listed
<1>5. RowsInPlace'  BY <1>3, <1>4, RowsPut, Zenon
<1>6. SecretTypes'  BY <1>1, <1>2, Zenon DEF SecretsInv, SecretTypes
<1> QED BY <1>5, <1>6, Zenon DEF SecretsInv

\* update_access prices the row anew, with the binding it has.
LEMMA UpdateAccessKeeps ==
    ASSUME SecretsInv, NEW k \in Keys, NEW a \in Conditions, UpdateAccess(k, a)
    PROVE  SecretsInv'
<1> DEFINE old == secrets_storage[k]
           cost == SecretCost(old.text, a, Bound(k))
<1>1. /\ k \in DOMAIN secrets_storage
      /\ secrets_storage' = [secrets_storage EXCEPT ![k].access = a, ![k].deposit = cost]
      /\ UNCHANGED <<secret_vault_bindings, user_secrets_index, consents>>
    BY Zenon DEF UpdateAccess
<1>2. old \in Rows /\ cost \in Nat  BY <1>1, CostType, Zenon DEF SecretsInv, SecretTypes, Rows
<1> HIDE DEF cost
<1>3. /\ DOMAIN secrets_storage' = DOMAIN secrets_storage
      /\ secrets_storage'[k] = [old EXCEPT !.access = a, !.deposit = cost]
      /\ \A j \in DOMAIN secrets_storage : j # k => secrets_storage'[j] = secrets_storage[j]
    BY <1>1, <1>2, Zenon DEF SecretsInv, SecretTypes, Rows
<1>4. /\ secrets_storage'[k] \in Rows /\ secrets_storage'[k].text = old.text /\ secrets_storage'[k].access = a
      /\ secrets_storage'[k].deposit = cost
    BY <1>2, <1>3, Zenon DEF Rows
<1>5. SecretTypes'
    <2>1. secrets_storage' \in [DOMAIN secrets_storage' -> Rows]
        BY <1>1, <1>2, Zenon DEF SecretsInv, SecretTypes, Rows
    <2> QED BY <1>1, <1>3, <2>1, Zenon DEF SecretsInv, SecretTypes
<1>6. \A j : Bound(j)' = Bound(j)  BY <1>1, Zenon DEF Bound
<1>7. ASSUME NEW j \in DOMAIN secrets_storage' PROVE Funded(secrets_storage'[j], Bound(j)')
    <2>1. CASE j = k
        <3>1. Funded(secrets_storage'[k], Bound(k))  BY <1>4, Zenon DEF Funded, cost
        <3> QED BY <1>6, <2>1, <3>1, Zenon
    <2>2. CASE j # k
        <3>1. Funded(secrets_storage[j], Bound(j))  BY <1>3, Zenon DEF SecretsInv, RowsInPlace, Funded
        <3> QED BY <1>3, <1>6, <2>2, <3>1, Zenon
    <2> QED BY <2>1, <2>2, Zenon
<1>8. /\ DOMAIN secret_vault_bindings' \subseteq DOMAIN secrets_storage'
      /\ \A b \in DOMAIN user_secrets_index' : user_secrets_index'[b] # {}
      /\ \A b \in Callers : Listed(user_secrets_index', secrets_storage', b)
    BY <1>1, <1>3, Zenon DEF SecretsInv, RowsInPlace, Listed
<1>9. RowsInPlace'  BY <1>7, <1>8, RowsPut, Zenon
<1> QED BY <1>5, <1>9, Zenon DEF SecretsInv

\* Every step keeps rows, bindings, deposits and index in agreement; a signature given out
\* changes none of them until it is used.
LEMMA SecretsStepKeeps == ASSUME SecretsInv, [SecretsNext]_secretVars PROVE SecretsInv'
<1>1. ASSUME UNCHANGED secretRows, consents' \subseteq StoreConsents \cup DeleteConsents PROVE SecretsInv'
    BY <1>1, Zenon DEF secretRows, SecretsInv, SecretTypes, RowsInPlace, Bound
<1>2. CASE UNCHANGED secretVars  BY <1>1, <1>2, Zenon DEF secretVars, SecretsInv, SecretTypes
<1>3. ASSUME NEW k \in Keys, NEW p \in Accounts, NEW t \in Texts, NEW a \in Conditions, NEW v \in VaultArg,
             SignSecretStore(k, p, t, a, v)
      PROVE  SecretsInv'
    BY <1>1, <1>3 DEF SignSecretStore, StoreConsents, Callers, SecretsInv, SecretTypes
<1>4. ASSUME NEW k \in Keys, NEW p \in Accounts, SignSecretDelete(k, p) PROVE SecretsInv'
    BY <1>1, <1>4 DEF SignSecretDelete, DeleteConsents, Callers, SecretsInv, SecretTypes
<1>5. ASSUME NEW c \in consents, StoreAgentSecret(c) PROVE SecretsInv'
    <2>1. c \in StoreConsents  BY <1>5, Zenon DEF StoreAgentSecret, SecretsInv, SecretTypes, DeleteConsents
    <2> QED BY <1>5, <2>1, StoreRowKeeps, Zenon DEF StoreAgentSecret, StoreConsents
<1>6. ASSUME NEW c \in consents, DeleteAgentSecret(c) PROVE SecretsInv'
    <2>1. c \in DeleteConsents  BY <1>6, Zenon DEF DeleteAgentSecret, SecretsInv, SecretTypes, StoreConsents
    <2> QED BY <1>6, <2>1, DeleteRowKeeps, Zenon DEF DeleteAgentSecret, DeleteConsents
<1>7. ASSUME NEW k \in Keys, NEW t \in Texts, NEW a \in Conditions, NEW v \in VaultArg, StoreSecrets(k, t, a, v)
      PROVE  SecretsInv'
    BY <1>7, StoreRowKeeps, Zenon DEF StoreSecrets
<1>8. ASSUME NEW k \in Keys, DeleteSecrets(k) PROVE SecretsInv'  BY <1>8, DeleteRowKeeps, Zenon DEF DeleteSecrets
<1> QED BY <1>2, <1>3, <1>4, <1>5, <1>6, <1>7, <1>8, UnbindKeeps, UpdateAccessKeeps, Zenon DEF SecretsNext

\* The rows of secrets beside the registry whose projects they name.
SecretsStep ==
    \/ SecretsNext /\ UNCHANGED projectVars
    \/ ProjectsNext /\ UNCHANGED secretVars

\* A binding exists only beside its row, a row's deposit pays for the row and its binding,
\* and the index lists exactly an owner's rows, through either door and in any order of
\* stores, edits, unbindings and deletions.
THEOREM RowsAlwaysInPlace == SecretsSpec => []RowsInPlace
<1>1. SecretsInit => SecretsInv
    BY Zenon DEF SecretsInit, SecretsInv, SecretTypes, RowsInPlace, EmptyMap, GetOr
<1>2. SecretsInv /\ [SecretsStep]_<<projectVars, secretVars>> => SecretsInv'
    BY SecretsStepKeeps, Zenon DEF SecretsStep
<1>3. SecretsInv => RowsInPlace  BY Zenon DEF SecretsInv
<1> QED BY <1>1, <1>2, <1>3, PTL DEF SecretsSpec, SecretsStep

=============================================================================
