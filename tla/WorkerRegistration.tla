------------------------- MODULE WorkerRegistration -------------------------
(***************************************************************************)
(* The register contract (register-contract/src/lib.rs), deployed to the   *)
(* operator's account, and a worker that registers its key there when it   *)
(* starts (worker/src/registration.rs, main.rs).  The contract puts a key  *)
(* on its own account for a quote of approved measurements; the account's  *)
(* keys change when the receipts it sends itself are executed, in order.   *)
(***************************************************************************)
EXTENDS Maps, Integers, Sequences, FiniteSets

CONSTANTS
    Accounts,        \* the owner and those who may become it
    Builds,          \* measurements the owner may approve
    Collaterals,     \* [fmspc, current]: the platform, and whether it is up to date
    WorkerKeys,      \* the keys the worker generates, in order, with their types: [name, type]
    WorkerImage,     \* external: what the worker's quotes carry, [fmspc, measurements]
    MaxPlatforms,    \* MAX_COLLATERALS
    MaxAttempts,     \* MAX_ATTEMPTS of wait_for_measurements_approval
    MaxStarts,       \* bound: starts of the worker
    MaxReceipts      \* bound: receipts under way when the owner removes a key

ASSUME RegistrationAssumption ==
    Len(WorkerKeys) \in Nat \ {0} /\ DOMAIN WorkerKeys = 1..Len(WorkerKeys)

VARIABLES
    owner_id, approved_builds, platform_collaterals, \* RegisterContract
    operator_keys, receipts,                  \* external: the account's keys, its receipts to itself
    keypair, key_type,                        \* worker-keypair.json, the number of the key or 0; WORKER_KEY_TYPE
    generated, startup, attempts, starts,     \* how many keys were generated; the worker's start
    called,                                   \* external: the transaction register_worker_key it follows
    removed                                   \* history: the keys the owner had removed

contractVars == <<owner_id, approved_builds, platform_collaterals>>
accountVars == <<operator_keys, receipts, removed>>
startVars == <<keypair, key_type, generated, startup, attempts, starts, called>>
registrationVars == <<contractVars, accountVars, startVars>>

RegistrationInit ==
    /\ owner_id \in Accounts /\ approved_builds = {} /\ platform_collaterals = <<>>
    /\ operator_keys = {} /\ receipts = <<>> /\ removed = {}
    /\ keypair = 0 /\ key_type = WorkerKeys[1].type /\ generated = 0
    /\ startup = "down" /\ attempts = 0 /\ starts = 0 /\ called = "no"

worker_key == WorkerKeys[keypair].name

-----------------------------------------------------------------------------
\* The owner's calls: assert_owner, and the change.
update_collateral(who, collateral, index) ==
    /\ who = owner_id /\ index < MaxPlatforms /\ index <= Len(platform_collaterals)
    /\ platform_collaterals' = IF index < Len(platform_collaterals) THEN [platform_collaterals EXCEPT ![index + 1] = collateral]
                      ELSE Append(platform_collaterals, collateral)
    /\ UNCHANGED <<owner_id, approved_builds, accountVars, startVars>>

add_approved_measurements(who, build, clear_others) ==
    /\ who = owner_id
    /\ approved_builds' = (IF clear_others THEN {} ELSE approved_builds) \cup {build}
    /\ UNCHANGED <<owner_id, platform_collaterals, accountVars, startVars>>

remove_approved_measurements(who, builds) ==
    /\ who = owner_id
    /\ approved_builds' = approved_builds \ builds
    /\ UNCHANGED <<owner_id, platform_collaterals, accountVars, startVars>>

\* One independent promise per key.
remove_worker_keys(who, keys) ==
    /\ who = owner_id
    /\ receipts' = receipts \o [n \in DOMAIN keys |-> [op |-> "delete", key |-> keys[n], start |-> 0]]
    /\ UNCHANGED <<contractVars, operator_keys, removed, startVars>>

transfer_ownership(who, new_owner) ==
    /\ who = owner_id /\ owner_id' = new_owner
    /\ UNCHANGED <<approved_builds, platform_collaterals, accountVars, startVars>>

\* register_worker_key takes a quote: the collateral is the first of the quote's
\* platform, verify_worker_registration passes if that is up to date, and the
\* measurements are approved.  The quote carries the key it is called with.
TakesQuote ==
    /\ WorkerImage.measurements \in approved_builds
    /\ LET ours == SelectSeq(platform_collaterals, LAMBDA c : c.fmspc = WorkerImage.fmspc)
       IN ours # <<>> /\ Head(ours).current

\* A receipt of the account's to itself is executed: adding a key that is there
\* and deleting one that is not fail.  The transaction of the
\* start that sent it waits for the former.
Granted(key) == key \notin operator_keys
ExecuteReceipt ==
    /\ receipts # <<>> /\ receipts' = Tail(receipts)
    /\ LET r == Head(receipts) IN
       IF r.op = "add"
       THEN /\ operator_keys' = operator_keys \cup {r.key}
            /\ called' = IF r.start # starts THEN called ELSE IF Granted(r.key) THEN "done" ELSE "failed"
            /\ UNCHANGED removed
       ELSE /\ operator_keys' = operator_keys \ {r.key}
            /\ removed' = removed \cup ({r.key} \cap operator_keys)
            /\ UNCHANGED called
    /\ UNCHANGED <<contractVars, keypair, key_type, generated, startup, attempts, starts>>

-----------------------------------------------------------------------------
\* The worker starts, or is restarted whatever it did: load_or_generate_keypair
\* keeps the key on file unless its type is not the configured one.
StartUp(type) ==
    /\ starts < MaxStarts /\ starts' = starts + 1
    /\ startup' = "checks" /\ attempts' = 0 /\ called' = "no" /\ key_type' = type
    /\ IF keypair # 0 /\ WorkerKeys[keypair].type = type THEN UNCHANGED <<keypair, generated>>
       ELSE \E n \in (generated + 1)..Len(WorkerKeys) :
               /\ WorkerKeys[n].type = type
               /\ keypair' = n /\ generated' = n
    /\ UNCHANGED <<contractVars, accountVars>>

Continue(s) ==
    /\ startup' = s
    /\ UNCHANGED <<contractVars, accountVars, keypair, key_type, generated, attempts, starts, called>>

\* check_access_key_exists: a registered key needs no second registration.
CheckKey ==
    /\ startup = "checks"
    /\ Continue(IF worker_key \in operator_keys THEN "attests" ELSE "waits")

\* wait_for_measurements_approval: no answer is taken for a yes, the last no
\* ends the process.
WaitForApproval(answered) ==
    /\ startup = "waits"
    /\ IF ~answered \/ WorkerImage.measurements \in approved_builds
       THEN startup' = "registers" /\ UNCHANGED attempts
       ELSE IF attempts + 1 = MaxAttempts THEN startup' = "down" /\ UNCHANGED attempts
       ELSE attempts' = attempts + 1 /\ UNCHANGED startup
    /\ UNCHANGED <<contractVars, accountVars, keypair, key_type, generated, starts, called>>

\* register_worker_key, the transaction: refused, or the key is on its way.
SendRegistration ==
    /\ startup = "registers" /\ called = "no"
    /\ IF TakesQuote
       THEN /\ receipts' = Append(receipts, [op |-> "add", key |-> worker_key, start |-> starts]) /\ called' = "waits"
       ELSE called' = "failed" /\ UNCHANGED receipts
    /\ UNCHANGED <<contractVars, operator_keys, removed, keypair, key_type, generated, startup, attempts, starts>>

\* The outcome decides: fail fast, or go on.
OutcomeRead == IF called = "done" THEN "attests" ELSE "down"
AnyOutcome == "attests"
AfterOutcome == OutcomeRead

ReadOutcome ==
    /\ startup = "registers" /\ called \in {"done", "failed"}
    /\ Continue(AfterOutcome)

\* send_startup_attestation_with_quote, once; then the worker goes on to its
\* sessions.
Attest ==
    /\ startup = "attests" /\ Continue("serves")

\* A call fails: any of them ends the process, whatever became of the
\* transaction.
StartFails ==
    /\ startup \in {"checks", "waits", "registers", "attests"} /\ Continue("down")

-----------------------------------------------------------------------------
RegistrationNext ==
    \/ \E who \in Accounts :
          \/ \E c \in Collaterals, i \in 0..MaxPlatforms : update_collateral(who, c, i)
          \/ \E b \in Builds, others \in BOOLEAN : add_approved_measurements(who, b, others)
          \/ \E bs \in SUBSET Builds : remove_approved_measurements(who, bs)
          \/ \E n \in DOMAIN WorkerKeys : Len(receipts) < MaxReceipts /\ remove_worker_keys(who, <<WorkerKeys[n].name>>)
          \/ \E new \in Accounts : transfer_ownership(who, new)
    \/ ExecuteReceipt
    \/ \E n \in DOMAIN WorkerKeys : StartUp(WorkerKeys[n].type)
    \/ CheckKey \/ \E answered \in BOOLEAN : WaitForApproval(answered)
    \/ SendRegistration \/ ReadOutcome \/ Attest \/ StartFails

RegistrationSpec == RegistrationInit /\ [][RegistrationNext]_registrationVars

-----------------------------------------------------------------------------
\* A worker serves with a key that was put on the operator's account, and that
\* is still there unless the owner had it removed: not with one whose
\* registration was refused, failed or is under way, however restarts, changes
\* of the key's type and removals fall.
ServesWithItsKey ==
    startup \in {"attests", "serves"} => worker_key \in operator_keys \cup removed
=============================================================================
