---------------------------- MODULE WalletPolicy ----------------------------
(***************************************************************************)
(* Wallet policies: the rows of the OutLayer contract                      *)
(* (contract/src/wallet.rs) and the handler of the keystore that stands    *)
(* before them, sign-policy (keystore-worker/src/api.rs).                  *)
(*                                                                         *)
(* A policy is what its owner wrote, with the approvers it names.  The     *)
(* contract stores it encrypted and learns of it only what the keystore    *)
(* signed: its version and its lock.  The handler reads the chain, waits   *)
(* for the approvers' keys to be looked up, and signs later; the contract  *)
(* may change in between.  A call that panics changes nothing and is not a *)
(* step.  Excess deposits come back inside the call, to the beneficiary if *)
(* there is one.                                                           *)
(***************************************************************************)
EXTENDS Projects

CONSTANTS
    Wallets,      \* wallet public keys, in their canonical spelling
    Approvers,    \* accounts a policy may name as approvers
    Policies,     \* policies that may be written
    Legacy,       \* rows from before versions: maps from wallets to entries
    PolicyCost,   \* storage price of an entry and its PolicyMeta, by policy
    RefundCost,   \* storage price of a beneficiary's record
    TTL,          \* POLICY_SIGNATURE_TTL_SECS
    MaxNow,       \* bound on the clock
    MaxVersion,   \* bound on the versions signed for
    MaxSignatures,\* bound on the signatures given out
    MaxLives      \* bound on the deletions of a wallet's policy

Entries == [owner: Accounts, policy: Policies, frozen: BOOLEAN, deposit: Nat]

ASSUME WalletAssumption ==
    /\ TTL \in Nat /\ MaxNow \in Nat /\ MaxVersion \in Nat /\ MaxSignatures \in Nat
    /\ MaxLives \in Nat
    /\ PolicyCost \in [Policies -> Nat]
    /\ RefundCost \in Nat
    /\ None \notin Policies \cup Accounts
    \* lock_is_satisfiable: sign-policy refuses any other policy
    /\ \A p \in Policies : /\ p.approvers \subseteq Approvers
                           /\ p.threshold \in Nat /\ p.locked \in BOOLEAN
                           /\ p.locked => p.threshold \in 1..Cardinality(p.approvers)
    /\ \A old \in Legacy : DOMAIN old \subseteq Wallets /\ old \in [DOMAIN old -> Entries]

Metas == [version: Nat, locked: BOOLEAN]

\* What sign-policy holds between reading the chain and signing.
Jobs ==
    [wallet: Wallets, policy: Policies, caller: Accounts, version: Nat, locked: BOOLEAN,
     base: Policies \cup {None}, life: Nat]

\* The message store_wallet_policy rebuilds and checks the signature over; `base`
\* and `life` record what the keystore had read when it made the signature, and
\* `approved_by` whose votes it had counted.
Signatures ==
    [wallet: Wallets, policy: Policies, version: Nat, valid_until: Nat, caller: Accounts,
     base: Policies \cup {None}, life: Nat, approved_by: SUBSET Approvers]

VARIABLES
    wallet_policies,     \* wallet -> WalletPolicyEntry
    policy_meta,         \* wallet -> PolicyMeta
    storage_refund_to,   \* wallet -> the beneficiary of its deposit
    wallet_owner_index,  \* account -> the wallets it controls; no row when empty
    policy_deposits,     \* NEAR taken for these rows and not paid back
    now,                 \* block_timestamp in seconds, and the keystore's clock
    signatures,          \* policy signatures the keystore has given out
    job,                 \* the policy sign-policy is serving
    life,                \* history: how often the wallet's policy was deleted
    stopped,             \* history: wallets their controller froze and did not thaw
    filed                \* history: signatures the contract has accepted

rows == <<wallet_policies, policy_meta, storage_refund_to, wallet_owner_index, policy_deposits>>
history == <<life, stopped, filed>>
walletVars == <<rows, now, signatures, job, history>>

\* policy_meta.get(..).unwrap_or_default()
Meta(w) == GetOr(policy_meta, w, [version |-> 0, locked |-> FALSE])

\* The policy on chain, None when there is none.
PolicyOf(w) == IF w \in DOMAIN wallet_policies THEN wallet_policies[w].policy ELSE None

WalletInit ==
    /\ wallet_policies \in Legacy
    /\ policy_meta = EmptyMap
    /\ storage_refund_to = EmptyMap
    /\ wallet_owner_index = [a \in {wallet_policies[w].owner : w \in DOMAIN wallet_policies} |->
                                {w \in DOMAIN wallet_policies : wallet_policies[w].owner = a}]
    /\ policy_deposits = MapThenSumSet(LAMBDA w : wallet_policies[w].deposit, DOMAIN wallet_policies)
    /\ now = 0
    /\ signatures = {}
    /\ job = None
    /\ life = [w \in Wallets |-> 0]
    /\ stopped = {w \in DOMAIN wallet_policies : wallet_policies[w].frozen}
    /\ filed = {}

-----------------------------------------------------------------------------
\* The contract.

\* calculate_wallet_policy_storage_size, priced.
StorageCost(policy, with_beneficiary) ==
    PolicyCost[policy] + IF with_beneficiary THEN RefundCost ELSE 0

\* The signature is for the next version and its deadline has not passed.
FilableAnyVersion(s) == now <= s.valid_until
Filable(s) == s.version = Meta(s.wallet).version + 1 /\ now <= s.valid_until

\* "A FREEZE SURVIVES AN EDIT."
FrozenAfterEditNever(w) == FALSE
FrozenAfterEdit(w) == w \in DOMAIN wallet_policies /\ wallet_policies[w].frozen

\* `refund_to` is None or the beneficiary named by the call that creates the row.
StoreWalletPolicy(s, refund_to) ==
    LET w == s.wallet
        new == w \notin DOMAIN wallet_policies
        beneficiary == IF new THEN refund_to ELSE GetOr(storage_refund_to, w, None)
        required == StorageCost(s.policy, beneficiary # None)
    IN /\ ~paused
       /\ Filable(s)
       /\ ~new => refund_to = None /\ wallet_policies[w].owner = s.caller
       /\ storage_refund_to' = IF new /\ refund_to # None
                               THEN Put(storage_refund_to, w, refund_to)
                               ELSE storage_refund_to
       /\ policy_deposits' = policy_deposits + required - (IF new THEN 0 ELSE wallet_policies[w].deposit)
       /\ wallet_policies' = Put(wallet_policies, w,
              [owner |-> s.caller, policy |-> s.policy, frozen |-> FrozenAfterEdit(w),
               deposit |-> required])
       /\ policy_meta' = Put(policy_meta, w, [version |-> s.version, locked |-> s.policy.locked])
       /\ wallet_owner_index' = IF new THEN IndexAdd(wallet_owner_index, s.caller, w)
                                ELSE wallet_owner_index
       /\ filed' = filed \cup {s}
       /\ UNCHANGED <<now, signatures, job, life, stopped>>

Controls(caller, w) == w \in DOMAIN wallet_policies /\ wallet_policies[w].owner = caller

FreezeWallet(caller, w) ==
    /\ ~paused
    /\ Controls(caller, w)
    /\ ~wallet_policies[w].frozen
    /\ wallet_policies' = [wallet_policies EXCEPT ![w].frozen = TRUE]
    /\ stopped' = stopped \cup {w}
    /\ UNCHANGED <<policy_meta, storage_refund_to, wallet_owner_index, policy_deposits, now,
                   signatures, job, life, filed>>

UnfreezeWallet(caller, w) ==
    /\ ~paused
    /\ Controls(caller, w)
    /\ wallet_policies[w].frozen
    /\ wallet_policies' = [wallet_policies EXCEPT ![w].frozen = FALSE]
    /\ stopped' = stopped \ {w}
    /\ UNCHANGED <<policy_meta, storage_refund_to, wallet_owner_index, policy_deposits, now,
                   signatures, job, life, filed>>

\* The beneficiary's record goes with the row.
RefundRecordsWithout(w) == Drop(storage_refund_to, w)

\* "policy is locked: store an unlocked policy with the approvers' quorum first"
Deletable(w) == ~Meta(w).locked

DeleteWalletPolicy(caller, w) ==
    /\ Controls(caller, w)
    /\ Deletable(w)
    /\ life[w] < MaxLives
    /\ wallet_policies' = Drop(wallet_policies, w)
    /\ policy_meta' = Drop(policy_meta, w)
    /\ wallet_owner_index' = IndexRemove(wallet_owner_index, caller, w)
    /\ storage_refund_to' = RefundRecordsWithout(w)
    /\ policy_deposits' = policy_deposits - wallet_policies[w].deposit
    /\ life' = [life EXCEPT ![w] = @ + 1]
    /\ stopped' = stopped \ {w}
    /\ UNCHANGED <<now, signatures, job, filed>>

SetStorageRefundTo(caller, w, to) ==
    /\ ~paused
    /\ w \in DOMAIN storage_refund_to
    /\ storage_refund_to[w] = caller
    /\ storage_refund_to' = [storage_refund_to EXCEPT ![w] = to]
    /\ UNCHANGED <<wallet_policies, policy_meta, wallet_owner_index, policy_deposits, now,
                   signatures, job, history>>

-----------------------------------------------------------------------------
\* The keystore.

\* verify_approvals: the votes that count are those of approvers the policy names,
\* each once; a request that carries a counted rejection never comes this far.
Approved(policy, approved_by) ==
    Cardinality(approved_by \cap policy.approvers) >= policy.threshold

\* wallet_sign_policy_handler up to load_wallet_policy_for_update: the blob decrypts
\* to `policy`; version, lock and the policy in force are read from the chain.
BeginSignPolicy(w, policy, caller) ==
    /\ job = None
    /\ Meta(w).version < MaxVersion
    /\ Cardinality(signatures) < MaxSignatures
    /\ job' = [wallet |-> w, policy |-> policy, caller |-> caller,
               version |-> Meta(w).version + 1, locked |-> Meta(w).locked,
               base |-> PolicyOf(w), life |-> life[w]]
    /\ UNCHANGED <<rows, now, signatures, history>>

\* The rest of it: under a lock the quorum of the policy that was read, then the
\* signature, good for TTL seconds from now.
FinishSignPolicy(approved_by) ==
    /\ job # None
    /\ job.locked => job.base # None /\ Approved(job.base, approved_by)
    /\ signatures' = signatures \cup
          {[wallet |-> job.wallet, policy |-> job.policy, version |-> job.version,
            valid_until |-> now + TTL, caller |-> job.caller, base |-> job.base,
            life |-> job.life, approved_by |-> IF job.locked THEN approved_by ELSE {}]}
    /\ job' = None
    /\ UNCHANGED <<rows, now, history>>

\* The handler gives up: a veto, too few votes, a read of the chain that failed.
Refuse ==
    /\ job # None
    /\ job' = None
    /\ UNCHANGED <<rows, now, signatures, history>>

Tick ==
    /\ now < MaxNow
    /\ now' = now + 1
    /\ UNCHANGED <<rows, signatures, job, history>>

-----------------------------------------------------------------------------
ContractStep ==
    \/ \E s \in signatures, to \in Accounts \cup {None} : StoreWalletPolicy(s, to)
    \/ \E a \in Accounts, w \in Wallets :
          \/ FreezeWallet(a, w)
          \/ UnfreezeWallet(a, w)
          \/ DeleteWalletPolicy(a, w)
          \/ \E to \in Accounts : SetStorageRefundTo(a, w, to)

KeystoreStep ==
    \/ \E w \in Wallets, p \in Policies, a \in Accounts : BeginSignPolicy(w, p, a)
    \/ \E v \in SUBSET Approvers : FinishSignPolicy(v)
    \/ Refuse

WalletNext == ContractStep \/ KeystoreStep \/ Tick

WalletSpec ==
    /\ ProjectsInit /\ WalletInit
    /\ [][\/ WalletNext /\ UNCHANGED projectVars
          \/ ProjectsNext /\ UNCHANGED walletVars]_<<projectVars, walletVars>>

-----------------------------------------------------------------------------
WalletTypeOK ==
    /\ DOMAIN wallet_policies \subseteq Wallets
    /\ wallet_policies \in [DOMAIN wallet_policies -> Entries]
    /\ policy_meta \in [DOMAIN policy_meta -> Metas]
    /\ storage_refund_to \in [DOMAIN storage_refund_to -> Accounts]
    /\ policy_deposits \in Nat /\ now \in Nat
    /\ signatures \subseteq Signatures
    /\ job \in Jobs \cup {None}
    /\ life \in [Wallets -> Nat]

\* The call that files the signature s.
Files(s) == \E to \in Accounts \cup {None} : StoreWalletPolicy(s, to)

\* A locked policy is replaced only with the votes of its own approvers, as many as it
\* asks for, and a signature is filed once, however long it was under way and whatever
\* was written in the meantime; it leaves the chain in no other way.  Signatures from
\* before the wallet's policy was last deleted are left out: the version starts again
\* from none with the entry, so that one of them may be filed a second time.
LockedNeedsQuorum ==
    [][/\ \A s \in signatures : (Files(s) /\ s.life = life[s.wallet]) =>
             /\ s \notin filed
             /\ Meta(s.wallet).locked => Approved(PolicyOf(s.wallet), s.approved_by)
       /\ \A w \in Wallets : Meta(w).locked => w \in DOMAIN wallet_policies']_walletVars

=============================================================================
