--------------------------- MODULE KeystoreWorker ---------------------------
(***************************************************************************)
(* The keystore worker's handlers around the masters of the customers'     *)
(* vaults (keystore-worker/src): a request that names a vault passes the   *)
(* on-chain gate, loads the vault's master through MPC when it is not in   *)
(* memory, at the vault's expense, and derives a key; the operator evicts  *)
(* and bans vaults, and vaults are checked and marked verified.            *)
(*                                                                         *)
(* Handlers run concurrently.  A step ends where the code awaits, or lets  *)
(* go of a lock.  What the chain says is external and changes at any time; *)
(* a view may fail, and a transaction that was reported as failed may land *)
(* all the same, at once or later.                                         *)
(***************************************************************************)
EXTENDS Maps, Integers, SequencesExt

CONSTANTS
    Tasks,       \* handlers that run at the same time
    Customers,   \* vault accounts
    Seeds,       \* what a key is derived for
    Default,     \* customer = None: the default master, always there
    MaxUpsets    \* bound: changes of the chain that others make, and restarts

VARIABLES
    registry,        \* external: what the DAO says of each vault
    vault,           \* external: each vault's own state
    pending,         \* external: transactions reported as failed that may still land
    serving,         \* the listener is bound: registration is done
    masters,         \* vaults whose master is in memory
    keypair_cache,   \* <<customer, seed>> -> whose master the key is derived from
    guards,          \* tasks holding the read guard of `masters`
    load_lock,       \* vault_load_locks: vault -> the task loading it
    nonce_lock,      \* signer_nonce_lock: the task submitting a transaction
    task,            \* what each handler is doing
    upsets           \* how many of MaxUpsets happened

chainVars == <<registry, vault, pending>>
memory == <<serving, masters, keypair_cache, guards>>
locks == <<load_lock, nonce_lock>>
workerVars == <<chainVars, memory, locks, task, upsets>>

VaultStates == {"locked", "recovering", "unlocked", "gone"}
Nobody == Default
Idle == [step |-> "idle"]
Evicting(c) == [step |-> "evict", customer |-> c]

\* What the reads of the chain can tell of a vault: is_vault_verified and the
\* checks of verify_vault_for_signing, made one after the other.  "sealed": the
\* customer has no key of their own on the account, which is not unlocked.
Facts(standing, state) ==
    {f \in {"verified", "unbanned", "code", "sealed", "quiet"} :
        CASE f = "verified" -> standing.verified /\ ~standing.banned
          [] f = "unbanned" -> ~standing.banned
          [] f = "code" -> standing.code
          [] f = "sealed" -> state \in {"locked", "recovering"}
          [] f = "quiet" -> state = "locked"}
Gated == {"verified", "sealed"}
Checks == <<"unbanned", "code", "sealed", "quiet">>

WorkerInit ==
    /\ registry = [c \in Customers |-> [verified |-> TRUE, banned |-> FALSE, code |-> TRUE]]
    /\ vault = [c \in Customers |-> "locked"]
    /\ pending = {} /\ serving = FALSE
    /\ masters = {} /\ keypair_cache = EmptyMap /\ guards = {}
    /\ load_lock = [c \in Customers |-> Nobody] /\ nonce_lock = Nobody
    /\ task = [t \in Tasks |-> Idle]
    /\ upsets = 0

-----------------------------------------------------------------------------
\* Task t goes on to `step`, with everything else it knows.
Goto(t, step) == task' = [task EXCEPT ![t].step = step]
End(t) == task' = [task EXCEPT ![t] = Idle]
At(t, step) == task[t].step = step
Of(t) == task[t].customer

\* main: the listener opens once registration is through, the default master
\* installed.  A registration that fails leaves the port closed.
Serve ==
    /\ ~serving /\ serving' = TRUE
    /\ UNCHANGED <<chainVars, masters, keypair_cache, guards, locks, task, upsets>>

\* A restart forgets everything but the chain.
KeystoreRestart ==
    /\ serving /\ serving' = FALSE
    /\ masters' = {} /\ keypair_cache' = EmptyMap /\ guards' = {}
    /\ load_lock' = [c \in Customers |-> Nobody] /\ nonce_lock' = Nobody
    /\ task' = [t \in Tasks |-> Idle]
    /\ upsets < MaxUpsets /\ upsets' = upsets + 1
    /\ UNCHANGED chainVars

\* A handler starts.  Without a vault the default master serves at once; with
\* one the gate comes first, on every call, and both of its reads go out
\* together if the master is in memory.
Ungated(c) == c = Default

BeginRequest(t, c, seed) ==
    /\ serving /\ At(t, "idle")
    /\ task' = [task EXCEPT ![t] =
         [step |-> IF Ungated(c) THEN "derive" ELSE "gate",
          customer |-> c, seed |-> seed, key |-> "none",
          together |-> c \in masters, verified |-> "unread", state |-> "unread",
          fit |-> IF c = Default THEN {} ELSE Facts(registry[c], vault[c]) \cap Gated]]
    /\ UNCHANGED <<chainVars, memory, locks, upsets>>

\* assert_serving_allowed reads is_vault_verified and get_state.  The state is
\* asked for with the first read, or once that one said yes.
ReadVerified(t) ==
    /\ At(t, "gate") /\ task[t].verified = "unread"
    /\ \E answer \in {"error",
                      IF "verified" \in Facts(registry[Of(t)], vault[Of(t)]) THEN "yes" ELSE "no"} :
          task' = [task EXCEPT ![t].verified = answer]
    /\ UNCHANGED <<chainVars, memory, locks, upsets>>

AsksState(t) == task[t].together \/ task[t].verified = "yes"

ReadState(t) ==
    /\ At(t, "gate") /\ task[t].state = "unread"
    /\ AsksState(t)
    /\ \E answer \in {"error", vault[Of(t)]} : task' = [task EXCEPT ![t].state = answer]
    /\ UNCHANGED <<chainVars, memory, locks, upsets>>

\* The verdict: a vault not verified, unlocked or gone is evicted, a read that
\* failed or was malformed refuses the request and keeps the master.
VerdictOf(t) ==
    CASE task[t].verified = "error" -> "refuse"
      [] task[t].verified = "no" -> "evict"
      [] task[t].verified = "yes" ->
           CASE task[t].state = "error" -> "refuse"
             [] task[t].state \in {"unlocked", "gone"} -> "evict"
             [] OTHER -> "load"

Judge(t) ==
    /\ At(t, "gate") /\ task[t].verified # "unread"
    /\ AsksState(t) => task[t].state # "unread"
    /\ task' = [task EXCEPT ![t] =
         CASE VerdictOf(t) = "refuse" -> Idle
           [] VerdictOf(t) = "evict" -> Evicting(Of(t))
           [] VerdictOf(t) = "load" -> [@ EXCEPT !.step = "load", !.together = FALSE,
                                                 !.verified = "unread", !.state = "unread"]]
    /\ UNCHANGED <<chainVars, memory, locks, upsets>>

-----------------------------------------------------------------------------
\* ensure_customer_loaded: a master in memory is used, another one loaded.
Load(t) ==
    /\ At(t, "load")
    /\ Goto(t, IF Of(t) \in masters THEN "derive" ELSE "lock")
    /\ UNCHANGED <<chainVars, memory, locks, upsets>>

\* add_customer, with the vault's load lock: who waited for it looks again.
LoadedMeanwhile(t) == Of(t) \in masters

TakeLoadLock(t) ==
    /\ At(t, "lock") /\ load_lock[Of(t)] = Nobody
    /\ IF LoadedMeanwhile(t)
       THEN Goto(t, "derive") /\ UNCHANGED load_lock
       ELSE /\ load_lock' = [load_lock EXCEPT ![Of(t)] = t]
            /\ Goto(t, "mpc")
    /\ UNCHANGED <<chainVars, memory, nonce_lock, upsets>>

\* The vault pays for the request; MPC answers it, or the request fails.
LockKept(t) == load_lock
LockFreed(t) == [load_lock EXCEPT ![Of(t)] = Nobody]

MpcFails(t) ==
    /\ At(t, "mpc") /\ End(t)
    /\ load_lock' = LockFreed(t)
    /\ UNCHANGED <<chainVars, memory, nonce_lock, upsets>>

\* Keystore::add_customer: the master goes in, then cached keys go out.
InsertMaster(t) ==
    /\ At(t, "mpc") /\ guards = {}
    /\ masters' = masters \cup {Of(t)}
    /\ Goto(t, "inserted")
    /\ UNCHANGED <<chainVars, serving, keypair_cache, guards, locks, upsets>>

\* evict_customer_cache
CacheWithout(c) == DropAll(keypair_cache, {c} \X Seeds)

PurgeInserted(t) ==
    /\ At(t, "inserted")
    /\ keypair_cache' = CacheWithout(Of(t))
    /\ load_lock' = LockFreed(t)
    /\ Goto(t, "derive")
    /\ UNCHANGED <<chainVars, serving, masters, guards, nonce_lock, upsets>>

-----------------------------------------------------------------------------
\* derive_keypair: a cached key is returned as it is.  Otherwise the master is
\* looked up, and its read guard kept until the new key is cached.  The other
\* derivations (X25519, secp256k1, signing keys) look the master up and cache
\* nothing.
Entry(t) == <<Of(t), task[t].seed>>
Loaded(c) == c = Default \/ c \in masters

\* master_from_loaded: never the default master in a vault's place.
MasterFor(c) == IF Loaded(c) THEN c ELSE "missing"

Answer(t, key) == task' = [task EXCEPT ![t].step = "answered", ![t].key = key]

DeriveCached(t) ==
    /\ At(t, "derive") /\ Entry(t) \in DOMAIN keypair_cache
    /\ Answer(t, keypair_cache[Entry(t)])
    /\ UNCHANGED <<chainVars, memory, locks, upsets>>

DeriveMiss(t) ==
    /\ At(t, "derive") /\ Entry(t) \notin DOMAIN keypair_cache
    /\ Goto(t, "lookup")
    /\ UNCHANGED <<chainVars, memory, locks, upsets>>

GuardDropped(t) == guards
GuardKept(t) == guards \cup {t}

LookUp(t) ==
    /\ At(t, "lookup")
    /\ IF MasterFor(Of(t)) = "missing"
       THEN End(t) /\ UNCHANGED guards
       ELSE /\ guards' = GuardKept(t)
            /\ task' = [task EXCEPT ![t].step = "derived", ![t].key = MasterFor(Of(t))]
    /\ UNCHANGED <<chainVars, serving, masters, keypair_cache, locks, upsets>>

CacheKey(t) ==
    /\ At(t, "derived")
    /\ keypair_cache' = Put(keypair_cache, Entry(t), task[t].key)
    /\ guards' = guards \ {t}
    /\ Goto(t, "answered")
    /\ UNCHANGED <<chainVars, serving, masters, locks, upsets>>

DeriveUncached(t) ==
    /\ At(t, "derive")
    /\ IF MasterFor(Of(t)) = "missing" THEN End(t) ELSE Answer(t, MasterFor(Of(t)))
    /\ UNCHANGED <<chainVars, memory, locks, upsets>>

Return(t) ==
    /\ At(t, "answered") /\ End(t)
    /\ UNCHANGED <<chainVars, memory, locks, upsets>>

-----------------------------------------------------------------------------
\* Keystore::evict_customer: the master goes, then the cached keys, each under
\* a lock of its own.  The write lock waits for the readers.
EvictMaster(t) ==
    /\ At(t, "evict") /\ guards = {}
    /\ masters' = masters \ {Of(t)}
    /\ Goto(t, "purge")
    /\ UNCHANGED <<chainVars, serving, keypair_cache, guards, locks, upsets>>

PurgeEvicted(t) ==
    /\ At(t, "purge")
    /\ keypair_cache' = CacheWithout(Of(t))
    /\ End(t)
    /\ UNCHANGED <<chainVars, serving, masters, guards, locks, upsets>>

\* /admin/evict-customer, /admin/ban-vault and /sign-vault-verification.
BeginAdmin(t, c) ==
    /\ serving /\ At(t, "idle")
    /\ task' \in {[task EXCEPT ![t] = start] : start \in
         {Evicting(c), [step |-> "ban", customer |-> c],
          [step |-> "verify", customer |-> c, check |-> 0,
           fit |-> Facts(registry[c], vault[c]) \cap Range(Checks)]}}
    /\ UNCHANGED <<chainVars, memory, locks, upsets>>

\* admin_ban_vault_handler: banned already, the master goes all the same.
ReadBanned(t) ==
    /\ At(t, "ban")
    /\ \/ End(t)
       \/ task' = [task EXCEPT ![t] = IF registry[Of(t)].banned THEN Evicting(Of(t))
                                      ELSE [step |-> "queue", customer |-> Of(t), tx |-> "ban"]]
    /\ UNCHANGED <<chainVars, memory, locks, upsets>>

\* sign_vault_verification_handler: nothing to do for a verified vault; then
\* verify_vault_for_signing, one read at a time, and its first failure ends it.
Passed(t) ==
    IF task[t].check = 0 THEN "verified" \notin Facts(registry[Of(t)], vault[Of(t)])
    ELSE Checks[task[t].check] \in Facts(registry[Of(t)], vault[Of(t)])

ReadCheck(t) ==
    /\ At(t, "verify")
    /\ \/ End(t)
       \/ /\ Passed(t)
          /\ task' = [task EXCEPT ![t] =
               IF @.check < Len(Checks) THEN [@ EXCEPT !.check = @ + 1]
               ELSE [step |-> "queue", customer |-> @.customer, tx |-> "mark", fit |-> @.fit]]
    /\ UNCHANGED <<chainVars, memory, locks, upsets>>

\* submit_function_call, one at a time per signer.
TakeNonceLock(t) ==
    /\ At(t, "queue") /\ nonce_lock = Nobody
    /\ nonce_lock' = t
    /\ Goto(t, "submit")
    /\ UNCHANGED <<chainVars, memory, load_lock, upsets>>

\* External: what the DAO's ban_vault and mark_vault_verified do.
Accepted(tx, c) == tx = "ban" \/ ~registry[c].banned
RegistryAfter(tx, c) ==
    IF tx = "ban" THEN [registry EXCEPT ![c].banned = TRUE]
                  ELSE [registry EXCEPT ![c].verified = TRUE]

\* History: a handler that runs while the chain changes sees both sides.
SeenBy(tasks) ==
    [t \in Tasks |-> IF "fit" \in DOMAIN tasks[t] /\ tasks[t].customer \in Customers
        THEN [tasks[t] EXCEPT !.fit = @ \cup
                (Facts(registry'[tasks[t].customer], vault'[tasks[t].customer])
                   \cap (IF "seed" \in DOMAIN tasks[t] THEN Gated ELSE Range(Checks)))]
        ELSE tasks[t]]

SubmitLands(t) ==
    /\ At(t, "submit") /\ Accepted(task[t].tx, Of(t))
    /\ registry' = RegistryAfter(task[t].tx, Of(t))
    /\ nonce_lock' = Nobody
    /\ UNCHANGED <<vault, pending, memory, load_lock, upsets>>
    /\ task' = SeenBy([task EXCEPT ![t] = IF @.tx = "ban" THEN Evicting(Of(t)) ELSE Idle])

SubmitFails(t) ==
    /\ At(t, "submit")
    /\ nonce_lock' = Nobody /\ End(t)
    /\ pending' \in {pending, pending \cup {<<task[t].tx, Of(t)>>}}
    /\ UNCHANGED <<registry, vault, memory, load_lock, upsets>>

LandsLate(tx, c) ==
    /\ <<tx, c>> \in pending /\ pending' = pending \ {<<tx, c>>}
    /\ registry' = IF Accepted(tx, c) THEN RegistryAfter(tx, c) ELSE registry
    /\ UNCHANGED <<vault, memory, locks, upsets>>
    /\ task' = SeenBy(task)

\* External: the DAO's members ban and unban, vote a vault's code in and out;
\* the vault's owner starts, ends or finishes a recovery, and may then delete
\* the account.
VaultMoves == {<<"locked", "recovering">>, <<"recovering", "locked">>,
               <<"recovering", "unlocked">>, <<"unlocked", "gone">>}

ChainMoves(c) ==
    /\ upsets < MaxUpsets /\ upsets' = upsets + 1
    /\ \/ /\ \/ registry' = [registry EXCEPT ![c].banned = ~@]
             \/ registry' = [registry EXCEPT ![c].code = ~@]
          /\ UNCHANGED vault
       \/ /\ \E to \in VaultStates : <<vault[c], to>> \in VaultMoves
                                      /\ vault' = [vault EXCEPT ![c] = to]
          /\ UNCHANGED registry
    /\ task' = SeenBy(task)
    /\ UNCHANGED <<pending, memory, locks>>

Handle(t) ==
    \/ ReadVerified(t) \/ ReadState(t) \/ Judge(t)
    \/ Load(t) \/ TakeLoadLock(t) \/ MpcFails(t) \/ InsertMaster(t) \/ PurgeInserted(t)
    \/ DeriveCached(t) \/ DeriveMiss(t) \/ LookUp(t) \/ CacheKey(t) \/ DeriveUncached(t)
    \/ Return(t)
    \/ EvictMaster(t) \/ PurgeEvicted(t)
    \/ ReadBanned(t) \/ ReadCheck(t) \/ TakeNonceLock(t) \/ SubmitLands(t) \/ SubmitFails(t)

Begin(t) ==
    \/ \E c \in Customers \cup {Default}, seed \in Seeds : BeginRequest(t, c, seed)
    \/ \E c \in Customers : BeginAdmin(t, c)

Environment ==
    \/ Serve \/ KeystoreRestart
    \/ \E c \in Customers : ChainMoves(c) \/ LandsLate("ban", c) \/ LandsLate("mark", c)

WorkerNext == Environment \/ \E t \in Tasks : Begin(t) \/ Handle(t)

WorkerSpec == WorkerInit /\ [][WorkerNext]_workerVars

-----------------------------------------------------------------------------
\* What a handler gives out or vouches for was in order while it ran: a key of
\* a vault is returned only if the vault was verified and not banned at some
\* moment since the request came in, and still sealed at some moment, whatever
\* was in memory or in the cache (assert_serving_allowed runs on every call);
\* a vault is submitted as verified only if it passed every check meanwhile.
FitWhenUsed ==
    \A t \in Tasks :
       /\ At(t, "answered") /\ Of(t) # Default => Gated \subseteq task[t].fit
       /\ At(t, "submit") /\ task[t].tx = "mark"
            => Range(Checks) \subseteq task[t].fit

\* A key is derived from the master of the vault it was asked for, and stays
\* cached only while that master is in memory: once an eviction is through,
\* no derivation in flight puts a key of the vault back (the lock discipline
\* of derive_keypair).
CachedUnderMaster ==
    /\ \A e \in DOMAIN keypair_cache :
          /\ keypair_cache[e] = e[1]
          /\ Loaded(e[1]) \/ \E t \in Tasks : At(t, "purge") /\ Of(t) = e[1]
    /\ \A t \in Tasks : At(t, "answered") => task[t].key = Of(t)

\* Handlers never wait for each other in a circle: while some run, one of them
\* can go on, whatever locks and guards the others hold.
HandlersGoOn ==
    (\E t \in Tasks : ~At(t, "idle")) => \E t \in Tasks : ENABLED Handle(t)

\* The masters of vaults are used and kept only in order: through loads, evictions, bans
\* and derivations under way at once, both of the above.
MastersGuarded == FitWhenUsed /\ CachedUnderMaster
=============================================================================
