-------------------------------- MODULE Vault --------------------------------
(***************************************************************************)
(* A customer's vault (vault-contract/src/lib.rs): the TEE keys of the     *)
(* keystore workers on its account, and the two recoveries that hand the   *)
(* account to the customer's own key.                                      *)
(*                                                                         *)
(* The calls that ask the keystore DAO, and the swap of keys, continue in  *)
(* a callback: a receipt in flight that runs later, with any other call in *)
(* between.  The DAO is external here: a view answers yes, no, or fails.   *)
(* Batches of access-key actions go from the account to itself, so the     *)
(* chain runs them in the order they were issued; a batch does all of its  *)
(* actions or none.  A call that panics changes nothing and is not a step; *)
(* a callback that panics only uses up its receipt.                        *)
(***************************************************************************)
EXTENDS Integers, Sequences, SequencesExt, FiniteSets, Maps

CONSTANTS
    TeeKeys,         \* public keys of keystore workers
    ParentKeys,      \* public keys the customer generates
    None,            \* Option::None
    Deploys,         \* <<initial_tee_pubkey, key the deploying transaction adds>>
    Windows,         \* exit windows in range of MIN..MAX_UNILATERAL_EXIT_WINDOW_SECS
    CessationDelay,  \* CESSATION_DELAY_NS
    FinalizeWindow,  \* FINALIZE_WINDOW_NS
    MaxTeeKeys,      \* MAX_REGISTERED_TEE_KEYS
    Slots,           \* receipts in flight: at most this many callbacks
    MaxBatches,      \* bound on the queue of access-key batches
    MaxTime          \* bound on the block timestamp

Keys == TeeKeys \cup ParentKeys
Recoveries == [finalize_after: Nat, finalize_before: Nat,
               trigger: {"cessation", "unilateral"}]

ASSUME VaultAssumption ==
    /\ TeeKeys \cap ParentKeys = {} /\ None \notin Keys \cup Nat \cup Recoveries
    /\ Deploys \subseteq (TeeKeys \cup {None}) \X (TeeKeys \cup {None})
    /\ Windows \subseteq Nat \ {0} /\ CessationDelay \in Nat \ {0}
    /\ FinalizeWindow \in Nat /\ MaxTeeKeys \in Nat
    /\ MaxBatches \in Nat /\ MaxTime \in Nat

VARIABLES
    initial_tee_key, registered_tee_keys, recovery, unlocked,
    exit_window,   \* unilateral_exit_window_secs
    now,           \* block timestamp
    access_keys,   \* external: the account's keys and what each may do
    batches,       \* external: access-key batches issued and not yet run
    receipts,      \* external: callbacks not yet run, with their arguments
    first_after    \* history: finalize_after of the first recovery

contract == <<initial_tee_key, registered_tee_keys, recovery, unlocked, exit_window>>
chain == <<now, access_keys, batches, receipts>>
vars == <<contract, chain, first_after>>

\* "tee": may call request_master; "call": any method; "full": anything.
Roles == {"tee", "call", "full"}
\* A batch deletes keys, then adds one in a role; `swap` has a callback.
Batches == [delete: SUBSET TeeKeys, add: Keys \cup {None}, role: Roles, swap: BOOLEAN]
\* callback_add_tee_key, callback_initiate, callback_finalize and, with the
\* batch's outcome, callback_after_swap.
Receipts == [kind: {"add"}, key: TeeKeys] \cup [kind: {"finalize"}, key: ParentKeys]
              \cup [kind: {"initiate", "swapped", "swap_failed"}, key: {None}]
Answers == {"yes", "no", "failed"}

Init ==
    /\ registered_tee_keys = {}
    /\ recovery = None
    /\ unlocked = FALSE
    /\ exit_window \in Windows
    /\ now = 0
    /\ \E d \in Deploys : /\ initial_tee_key = d[1]
                         /\ access_keys = [k \in {d[2]} \ {None} |-> "tee"]
    /\ batches = <<>>
    /\ receipts = EmptyMap
    /\ first_after = None

-----------------------------------------------------------------------------
\* A promise with a callback, and the callback that uses it up.
Send(kind, key) ==
    \E s \in Slots \ DOMAIN receipts :
       receipts' = Put(receipts, s, [kind |-> kind, key |-> key])

Receive(s, kind) ==
    /\ s \in DOMAIN receipts
    /\ receipts[s].kind = kind
    /\ receipts' = Drop(receipts, s)

\* A batch of access-key actions on the vault's own account.
Issue(delete, add, role, swap) ==
    /\ Len(batches) < MaxBatches
    /\ batches' = Append(batches, [delete |-> delete, add |-> add, role |-> role, swap |-> swap])

\* What callback_add_tee_key checks again: another call may have come first.
MayRegister(k) ==
    /\ k # initial_tee_key
    /\ k \notin registered_tee_keys
    /\ Cardinality(registered_tee_keys) < MaxTeeKeys

ProposeTeeKey(k) ==
    /\ ~unlocked
    /\ k # initial_tee_key /\ k \notin registered_tee_keys
    /\ Cardinality(registered_tee_keys) < MaxTeeKeys
    /\ Send("add", k)
    /\ UNCHANGED <<contract, now, access_keys, batches, first_after>>

\* Registers the key and adds it to the account; else panics.
CallbackAddTeeKey(s, answer) ==
    /\ Receive(s, "add")
    /\ LET k == receipts[s].key
       IN IF answer = "yes" /\ MayRegister(k)
          THEN /\ registered_tee_keys' = registered_tee_keys \cup {k}
               /\ Issue({}, k, "tee", FALSE)
          ELSE UNCHANGED <<registered_tee_keys, batches>>
    /\ UNCHANGED <<initial_tee_key, recovery, unlocked, exit_window, now, access_keys,
                   first_after>>

\* The parent frees slots; while locked not all registered keys may go.
MayClear(removed) ==
    unlocked \/ Cardinality(removed) < Cardinality(registered_tee_keys)

\* The record without the keys whose deletion is issued.
RecordKept(removed) == registered_tee_keys
RecordWithout(removed) == registered_tee_keys \ removed

ClearUnusedTeeKeys(removed) ==
    /\ removed # {} /\ removed \subseteq registered_tee_keys
    /\ MayClear(removed)
    /\ registered_tee_keys' = RecordWithout(removed)
    /\ Issue(removed, None, "tee", FALSE)
    /\ UNCHANGED <<initial_tee_key, recovery, unlocked, exit_window, now, access_keys,
                   receipts, first_after>>

-----------------------------------------------------------------------------
\* Recovery.

BeginRecovery(delay, trigger) ==
    /\ recovery' = [finalize_after |-> now + delay,
                    finalize_before |-> now + delay + FinalizeWindow,
                    trigger |-> trigger]
    /\ first_after' = IF first_after = None THEN now + delay ELSE first_after

InitiateRecovery ==
    /\ ~unlocked
    /\ recovery = None
    /\ Send("initiate", None)
    /\ UNCHANGED <<contract, now, access_keys, batches, first_after>>

\* The re-check of callback_initiate: no recovery began since the call.
MayBegin == recovery = None

CallbackInitiate(s, answer) ==
    /\ Receive(s, "initiate")
    /\ IF answer = "yes" /\ MayBegin
       THEN BeginRecovery(CessationDelay, "cessation")
       ELSE UNCHANGED <<recovery, first_after>>
    /\ UNCHANGED <<initial_tee_key, registered_tee_keys, unlocked, exit_window, now,
                   access_keys, batches>>

UnilateralInitiateRecovery ==
    /\ ~unlocked
    /\ recovery = None
    /\ BeginRecovery(exit_window, "unilateral")
    /\ UNCHANGED <<initial_tee_key, registered_tee_keys, unlocked, exit_window, chain>>

SetExitWindow(w) ==
    /\ exit_window' = w
    /\ UNCHANGED <<initial_tee_key, registered_tee_keys, recovery, unlocked, chain, first_after>>

\* dispatch_swap: every TEE key the contract knows goes, the customer's key
\* comes with full access.  The state is left to callback_after_swap.
KnownTeeKeys == registered_tee_keys \cup ({initial_tee_key} \ {None})
DispatchSwap(p) == Issue(KnownTeeKeys, p, "full", TRUE)

\* The delay is over (else finalize_recovery panics).
DelayIgnored == TRUE
DelayElapsed == now >= recovery.finalize_after

\* Too late: the recovery is cleared.  In time: the DAO is asked again for a
\* cessation, the keys are swapped for a unilateral exit.
FinalizeRecovery(p) ==
    /\ ~unlocked
    /\ recovery # None
    /\ DelayElapsed
    /\ IF now > recovery.finalize_before
       THEN recovery' = None /\ UNCHANGED <<receipts, batches>>
       ELSE /\ IF recovery.trigger = "cessation"
               THEN Send("finalize", p) /\ UNCHANGED batches
               ELSE DispatchSwap(p) /\ UNCHANGED receipts
            /\ UNCHANGED recovery
    /\ UNCHANGED <<initial_tee_key, registered_tee_keys, unlocked, exit_window, now,
                   access_keys, first_after>>

\* Expired or revoked: the recovery is cleared.  The DAO call failed: nothing.
CallbackFinalize(s, answer) ==
    /\ Receive(s, "finalize")
    /\ \/ /\ recovery = None
          /\ UNCHANGED <<recovery, batches>>
       \/ /\ recovery # None
          /\ now > recovery.finalize_before
          /\ recovery' = None /\ UNCHANGED batches
       \/ /\ recovery # None
          /\ now <= recovery.finalize_before
          /\ \/ answer = "failed" /\ UNCHANGED <<recovery, batches>>
             \/ answer = "no" /\ recovery' = None /\ UNCHANGED batches
             \/ answer = "yes" /\ DispatchSwap(receipts[s].key) /\ UNCHANGED recovery
    /\ UNCHANGED <<initial_tee_key, registered_tee_keys, unlocked, exit_window, now,
                   access_keys, first_after>>

\* What callback_after_swap acts on: the batch's own outcome.
SwapAssumed(kind) == kind \in {"swapped", "swap_failed"}
SwapSucceeded(kind) == kind = "swapped"

CallbackAfterSwap(s) ==
    /\ \E kind \in {"swapped", "swap_failed"} :
          /\ Receive(s, kind)
          /\ IF SwapSucceeded(kind)
             THEN /\ unlocked' = TRUE
                  /\ recovery' = None
                  /\ initial_tee_key' = None
                  /\ registered_tee_keys' = {}
             ELSE UNCHANGED <<unlocked, recovery, initial_tee_key, registered_tee_keys>>
    /\ UNCHANGED <<exit_window, now, access_keys, batches, first_after>>

UnlockedAddKey(p, full_access) ==
    /\ unlocked
    /\ Issue({}, p, IF full_access THEN "full" ELSE "call", FALSE)
    /\ UNCHANGED <<contract, now, access_keys, receipts, first_after>>

-----------------------------------------------------------------------------
\* The chain.

\* AccessKeyNotFound and AccessKeyAlreadyExists fail the whole batch.
Succeeds(b, keys) ==
    /\ b.delete \subseteq DOMAIN keys
    /\ b.add \notin DOMAIN keys \ b.delete
After(b, keys) ==
    LET rest == DropAll(keys, b.delete)
    IN IF b.add = None THEN rest ELSE Put(rest, b.add, b.role)

RunBatch ==
    /\ batches # <<>>
    /\ LET b == Head(batches)
           done == Succeeds(b, access_keys)
       IN /\ access_keys' = IF done THEN After(b, access_keys) ELSE access_keys
          /\ IF b.swap THEN Send(IF done THEN "swapped" ELSE "swap_failed", None)
                       ELSE UNCHANGED receipts
    /\ batches' = Tail(batches)
    /\ UNCHANGED <<contract, now, first_after>>

Tick ==
    /\ now < MaxTime
    /\ now' = now + 1
    /\ UNCHANGED <<contract, access_keys, batches, receipts, first_after>>

KeyStep ==
    \/ \E k \in TeeKeys : ProposeTeeKey(k)
    \/ \E s \in DOMAIN receipts, answer \in Answers : CallbackAddTeeKey(s, answer)
    \/ \E removed \in SUBSET registered_tee_keys : ClearUnusedTeeKeys(removed)
    \/ \E p \in ParentKeys, full_access \in BOOLEAN : UnlockedAddKey(p, full_access)

RecoveryStep ==
    \/ InitiateRecovery
    \/ \E s \in DOMAIN receipts, answer \in Answers : CallbackInitiate(s, answer)
    \/ UnilateralInitiateRecovery
    \/ \E w \in Windows : SetExitWindow(w)
    \/ \E p \in ParentKeys : FinalizeRecovery(p)
    \/ \E s \in DOMAIN receipts, answer \in Answers : CallbackFinalize(s, answer)
    \/ \E s \in DOMAIN receipts : CallbackAfterSwap(s)

Next == KeyStep \/ RecoveryStep \/ RunBatch \/ Tick

Spec == Init /\ [][Next]_vars

-----------------------------------------------------------------------------
\* Every variable has the type of the field it models.
TypeOK ==
    /\ initial_tee_key \in TeeKeys \cup {None}
    /\ registered_tee_keys \subseteq TeeKeys
    /\ recovery \in Recoveries \cup {None}
    /\ unlocked \in BOOLEAN
    /\ exit_window \in Windows
    /\ now \in Nat
    /\ DOMAIN access_keys \subseteq Keys /\ access_keys \in [DOMAIN access_keys -> Roles]
    /\ batches \in Seq(Batches)
    /\ DOMAIN receipts \subseteq Slots /\ receipts \in [DOMAIN receipts -> Receipts]
    /\ first_after \in Nat \cup {None}

\* However many proposals are in flight at once, the vault registers at most
\* MAX_REGISTERED_TEE_KEYS keys (callback_add_tee_key counts again).
CapHolds == IsFiniteSet(registered_tee_keys) /\ Cardinality(registered_tee_keys) <= MaxTeeKeys

\* A swap of keys has been issued and its outcome is not yet in the state.
Swapping ==
    \/ \E i \in 1..Len(batches) : batches[i].swap
    \/ \E s \in DOMAIN receipts : receipts[s].kind = "swapped"

\* The account's keys once every batch issued so far has run.
KeysToBe ==
    FoldLeft(LAMBDA keys, b : IF Succeeds(b, keys) THEN After(b, keys) ELSE keys,
             access_keys, batches)

\* Until a swap begins, the keys of a locked vault are in place.  Every TEE key it
\* registered, which a swap or a clear_unused_tee_keys would delete, is on the
\* account, or will be once the batches issued so far have run: such a deletion
\* cannot fail on a missing key and leave the customer without a way out, which
\* only a recorded initial key that was never installed can cause.  And some TEE
\* key is there, or on its way (clear_unused_tee_keys leaves the last ones).
LockedVaultKeysInPlace ==
    (~unlocked /\ ~Swapping) =>
       /\ registered_tee_keys \subseteq DOMAIN KeysToBe
       /\ \E k \in DOMAIN KeysToBe : KeysToBe[k] = "tee"

\* The vault is flagged unlocked only with the customer's full-access key on the
\* account, whatever the swap's outcome and however often it is retried: never
\* an unlocked vault nobody can sign for (callback_after_swap).
UnlockedHasParentKey ==
    unlocked => \E k \in ParentKeys \cap DOMAIN access_keys : access_keys[k] = "full"

\* No full-access key reaches the account, no swap is issued and nothing is
\* unlocked before the delay of a recovery has run out: with the first recovery
\* at the earliest, through any race of callbacks and re-initiations.
ParentKeyWaits ==
    (\/ unlocked
     \/ \E k \in DOMAIN access_keys : access_keys[k] = "full"
     \/ \E i \in 1..Len(batches) : batches[i].role = "full"
     \/ \E s \in DOMAIN receipts : receipts[s].kind \in {"finalize", "swapped"})
       => first_after # None /\ now >= first_after

\* A recovery in progress is never re-timed: neither a later initiate call, nor
\* its callback, nor set_exit_window changes the window of the recovery that is
\* running; it ends before another begins.
RecoveryKept == [][recovery # None => recovery' \in {recovery, None}]_vars
=============================================================================
