----------------------------- MODULE PaymentKeys -----------------------------
(***************************************************************************)
(* The payment keys of one owner: the contract (contract/src/payment.rs,   *)
(* secrets.rs), the workers that settle its top-ups and deletions          *)
(* (worker/src/main.rs, near_client.rs), and the coordinator's rows.       *)
(*                                                                         *)
(* A top-up or a deletion is a yield: the contract announces it in an      *)
(* event, a worker acts on the event and resumes the yield in a            *)
(* transaction of its own, and the contract's callback settles it; or the  *)
(* yield times out.  A top-up's event carries the key's blob as it was     *)
(* when the tokens arrived.  Between an event and the end of its handling  *)
(* anything may happen: other calls, other workers, a crash, a transaction *)
(* whose outcome the worker never sees.  External: the coordinator, whose  *)
(* queue may hand a task out again, and the chain.                         *)
(***************************************************************************)
EXTENDS Integers, Maps

CONSTANTS
    MaxNonce,     \* bound on the nonces the owner tries
    Secrets,      \* key strings an owner generates
    Amounts,      \* top-up amounts, at least MIN_TOP_UP_AMOUNT
    Legacy,       \* nonces of keys older than the nonce floor
    Workers,
    Redelivery,   \* whether the queue may keep a task it hands out: a set of BOOLEANs
    MaxRequests,  \* bound on the yields ever created
    None

Nonces == 1..MaxNonce
Blobs == [secret: Secrets, balance: Nat]

ASSUME PaymentKeysAssumption ==
    /\ MaxNonce \in Nat /\ MaxRequests \in Nat
    /\ Amounts \subseteq Nat \ {0}
    /\ Legacy \subseteq Nonces
    /\ Secrets # {} /\ Redelivery \subseteq BOOLEAN

VARIABLES
    keys,       \* secrets_storage: nonce -> blob of the key stored there
    floor,      \* payment_key_nonce_floors
    yields,     \* external: id -> what was announced, and the answer so far
    next_id,    \* external: ids of yields, in order
    tasks,      \* external: the coordinator's queue of system callbacks
    workers,    \* each worker's task and the transaction it follows
    loose,      \* transactions sent that no worker follows
    rows,       \* external: payment_keys rows, nonce -> "live" or "deleted"
    minted,     \* history: nonce -> secret of every key ever created
    settled,    \* history: id -> how its callback settled a top-up
    credited    \* history: id -> how often its amount was added to a row

contract == <<keys, floor, minted>>
history == <<settled, credited>>
vars == <<contract, yields, next_id, tasks, workers, loose, rows, history>>

\* id 0: the creation of a key, announced as a top-up of nothing.
Tasks == [kind: {"topup", "delete"}, id: Nat, nonce: Nonces, amount: Nat,
          blob: Blobs \cup {None}]
Answer(tag, blob) == [tag |-> tag, blob |-> blob]
Waiting == Answer("waiting", None)
Error == Answer("error", None)
Timeout == Answer("timeout", None)
Answers == [tag: {"waiting", "success", "error", "timeout"}, blob: Blobs \cup {None}]
Idle == [task |-> None, tx |-> "none"]

Init ==
    /\ keys \in [Legacy -> [secret: Secrets, balance: {0}]]
    /\ minted = [n \in Legacy |-> keys[n].secret]
    /\ floor = 0
    /\ yields = EmptyMap /\ next_id = 1
    /\ tasks = {}
    /\ workers = [w \in Workers |-> Idle]
    /\ loose = {}
    /\ rows = [n \in Legacy |-> "live"]
    /\ settled = EmptyMap /\ credited = EmptyMap

-----------------------------------------------------------------------------
\* The contract.

\* store_secrets: a payment key is written once and its nonce lies above the
\* owner's floor.
NonceFreeAtFloor(n) == n \notin DOMAIN keys /\ n >= floor
NonceFree(n) == n \notin DOMAIN keys /\ n > floor
RaisedTo(n) == IF floor < n THEN n ELSE floor

StoreSecrets(n, s) ==
    /\ NonceFree(n)
    /\ keys' = Put(keys, n, [secret |-> s, balance |-> 0])
    /\ minted' = Put(minted, n, s)
    /\ floor' = RaisedTo(n)
    /\ tasks' = tasks \cup {[kind |-> "topup", id |-> 0, nonce |-> n, amount |-> 0,
                             blob |-> keys'[n]]}
    /\ UNCHANGED <<yields, next_id, workers, loose, rows, history>>

\* delete_secrets, the door of every secret, payment keys included.
DeleteSecrets(n) ==
    /\ n \in DOMAIN keys
    /\ keys' = Drop(keys, n)
    /\ UNCHANGED <<floor, minted, yields, next_id, tasks, workers, loose, rows, history>>

\* A yield and the event that announces it.
Announce(kind, n, amount, blob) ==
    /\ next_id <= MaxRequests
    /\ yields' = Put(yields, next_id, [kind |-> kind, nonce |-> n, amount |-> amount,
                                       answer |-> Waiting])
    /\ next_id' = next_id + 1
    /\ tasks' = tasks \cup {[kind |-> kind, id |-> next_id, nonce |-> n, amount |-> amount,
                             blob |-> blob]}
    /\ UNCHANGED <<contract, workers, loose, rows, history>>

\* ft_on_transfer with a top-up.
HandleTopUp(n, amount) ==
    /\ n \in DOMAIN keys
    /\ Announce("topup", n, amount, keys[n])

DeletePaymentKey(n) ==
    /\ n \in DOMAIN keys
    /\ Announce("delete", n, 0, None)

Answered(id) == id \in DOMAIN yields /\ yields[id].answer # Waiting

\* How on_top_up_response ends: the tokens are kept, or go back.
TopUpOutcome(y) ==
    IF y.answer.tag = "success"
    THEN IF y.nonce \in DOMAIN keys THEN "accepted" ELSE "missing"
    ELSE y.answer.tag

OnTopUpResponse(id) ==
    /\ Answered(id) /\ yields[id].kind = "topup"
    /\ LET y == yields[id]
       IN /\ keys' = IF TopUpOutcome(y) = "accepted" THEN Put(keys, y.nonce, y.answer.blob) ELSE keys
          /\ settled' = Put(settled, id, TopUpOutcome(y))
    /\ yields' = Drop(yields, id)
    /\ UNCHANGED <<floor, minted, next_id, tasks, workers, loose, rows, credited>>

\* Success deletes the key and raises the floor; it panics when the key is gone.
OnDeletePaymentKeyResponse(id) ==
    /\ Answered(id) /\ yields[id].kind = "delete"
    /\ LET y == yields[id]
       IN IF y.answer.tag = "success" /\ y.nonce \in DOMAIN keys
          THEN keys' = Drop(keys, y.nonce) /\ floor' = RaisedTo(y.nonce)
          ELSE UNCHANGED <<keys, floor>>
    /\ yields' = Drop(yields, id)
    /\ UNCHANGED <<minted, next_id, tasks, workers, loose, rows, history>>

\* The chain's timeout of a yield nobody resumed.
YieldTimeout(id) ==
    /\ id \in DOMAIN yields /\ yields[id].answer = Waiting
    /\ yields' = [yields EXCEPT ![id].answer = Timeout]
    /\ UNCHANGED <<contract, next_id, tasks, workers, loose, rows, history>>

\* resume_topup, resume_delete_payment_key: no yield to resume, and they panic.
Resumes(id) == id \in DOMAIN yields /\ yields[id].answer = Waiting
Resumed(id, answer) ==
    IF Resumes(id) THEN [yields EXCEPT ![id].answer = answer] ELSE yields

-----------------------------------------------------------------------------
\* The workers.

TakeTask(w, t, again) ==
    /\ workers[w] = Idle
    /\ tasks' = IF again THEN tasks ELSE tasks \ {t}
    /\ workers' = [workers EXCEPT ![w].task = t]
    /\ UNCHANGED <<contract, yields, next_id, loose, rows, history>>

Holds(w, kind) == workers[w].task # None /\ workers[w].task.kind = kind /\ workers[w].tx = "none"
Done(w) == workers' = [workers EXCEPT ![w] = Idle]

\* process_topup_task: the blob of the event with the amount added.
ToppedUp(t) == [t.blob EXCEPT !.balance = @ + t.amount]
SuccessOf(t) == Answer("success", IF t.kind = "topup" THEN ToppedUp(t) ELSE None)

Send(id, answer) == loose' = loose \cup {[id |-> id, answer |-> answer]}

\* complete_topup and init_payment_key: the coordinator makes the row when there
\* is none, and brings a deleted one back.
RowLive(n) == Put(rows, n, "live")

\* Creation: the row is registered, unless the keystore or the coordinator fails.
InitPaymentKey(w, registered) ==
    /\ Holds(w, "topup") /\ workers[w].task.id = 0
    /\ rows' = IF registered THEN RowLive(workers[w].task.nonce) ELSE rows
    /\ Done(w)
    /\ UNCHANGED <<contract, yields, next_id, tasks, loose, history>>

\* Decrypted, topped up, encrypted: the resume is sent and followed.
ProcessTopUp(w) ==
    /\ Holds(w, "topup") /\ workers[w].task.id # 0
    /\ workers' = [workers EXCEPT ![w].tx = "sent"]
    /\ UNCHANGED <<contract, yields, next_id, tasks, loose, rows, history>>

\* A step before the resume failed: the yield is resumed with an error.
ProcessTopUpFails(w) ==
    /\ Holds(w, "topup") /\ workers[w].task.id # 0
    /\ Send(workers[w].task.id, Error)
    /\ Done(w)
    /\ UNCHANGED <<contract, yields, next_id, tasks, rows, history>>

\* The transaction a worker follows executes.  require_taken tells a resume
\* the contract took from one it refused.
OutcomeIgnored(id) == "taken"
Outcome(id) == IF Resumes(id) THEN "taken" ELSE "refused"

FollowedRuns(w) ==
    /\ workers[w].tx = "sent"
    /\ LET t == workers[w].task
       IN /\ yields' = Resumed(t.id, SuccessOf(t))
          /\ workers' = [workers EXCEPT ![w].tx = Outcome(t.id)]
    /\ UNCHANGED <<contract, next_id, tasks, loose, rows, history>>

\* Taken: the credit is reported, once, and not repeated when it fails.
CompleteTopUp(w, reported) ==
    /\ workers[w].tx = "taken"
    /\ LET t == workers[w].task
       IN IF reported
          THEN /\ rows' = RowLive(t.nonce)
               /\ credited' = Put(credited, t.id, GetOr(credited, t.id, 0) + 1)
          ELSE UNCHANGED <<rows, credited>>
    /\ Done(w)
    /\ UNCHANGED <<contract, yields, next_id, tasks, loose, settled>>

\* Refused: the yield is gone, nothing is credited.
TopUpRefused(w) ==
    /\ workers[w].tx = "refused"
    /\ Done(w)
    /\ UNCHANGED <<contract, yields, next_id, tasks, loose, rows, history>>

\* What a worker leaves behind: a transaction sent may still execute.
LeftBehind(w) ==
    IF workers[w].tx = "sent"
    THEN {[id |-> workers[w].task.id, answer |-> SuccessOf(workers[w].task)]} ELSE {}

\* Not seen executed within TX_FOLLOW: resumed with an error, whatever the
\* first transaction did or may still do.
TopUpUnseen(w) ==
    /\ workers[w].tx # "none"
    /\ loose' = loose \cup LeftBehind(w) \cup {[id |-> workers[w].task.id, answer |-> Error]}
    /\ Done(w)
    /\ UNCHANGED <<contract, yields, next_id, tasks, rows, history>>

\* Deletion: the coordinator first, then the contract, which hears of a failure
\* of the first.  The row may be gone and the answer lost.
DeleteAnswer(done) == IF done THEN Answer("success", None) ELSE Error

ProcessDelete(w, deleted, heard) ==
    /\ Holds(w, "delete")
    /\ LET t == workers[w].task
       IN /\ rows' = IF deleted /\ t.nonce \in DOMAIN rows THEN [rows EXCEPT ![t.nonce] = "deleted"]
                                                          ELSE rows
          /\ Send(t.id, DeleteAnswer(deleted /\ heard))
    /\ Done(w)
    /\ UNCHANGED <<contract, yields, next_id, tasks, settled, credited>>

\* A transaction nobody follows executes.
LooseRuns(x) ==
    /\ yields' = Resumed(x.id, x.answer)
    /\ loose' = loose \ {x}
    /\ UNCHANGED <<contract, next_id, tasks, workers, rows, history>>

WorkerCrash(w) ==
    /\ workers[w] # Idle
    /\ loose' = loose \cup LeftBehind(w)
    /\ Done(w)
    /\ UNCHANGED <<contract, yields, next_id, tasks, rows, history>>

ContractStep ==
    \/ \E n \in Nonces : \/ \E s \in Secrets : StoreSecrets(n, s)
                         \/ DeleteSecrets(n)
                         \/ \E amount \in Amounts : HandleTopUp(n, amount)
                         \/ DeletePaymentKey(n)
    \/ \E id \in DOMAIN yields : \/ OnTopUpResponse(id) \/ OnDeletePaymentKeyResponse(id)
                                 \/ YieldTimeout(id)

WorkerStep(w) ==
    \/ \E t \in tasks, again \in Redelivery : TakeTask(w, t, again)
    \/ \E registered \in BOOLEAN : InitPaymentKey(w, registered)
    \/ ProcessTopUp(w) \/ ProcessTopUpFails(w) \/ FollowedRuns(w)
    \/ \E reported \in BOOLEAN : CompleteTopUp(w, reported)
    \/ TopUpRefused(w) \/ TopUpUnseen(w) \/ WorkerCrash(w)
    \/ \E deleted \in BOOLEAN, heard \in BOOLEAN : ProcessDelete(w, deleted, heard)

Next == ContractStep \/ (\E w \in Workers : WorkerStep(w)) \/ (\E x \in loose : LooseRuns(x))

Spec == Init /\ [][Next]_vars

-----------------------------------------------------------------------------
\* Every variable has the type of what it models.
TypeOK ==
    /\ DOMAIN keys \subseteq Nonces /\ keys \in [DOMAIN keys -> Blobs]
    /\ floor \in Nat
    /\ DOMAIN yields \subseteq 1..(next_id - 1)
    /\ yields \in [DOMAIN yields -> [kind: {"topup", "delete"}, nonce: Nonces, amount: Nat,
                                     answer: Answers]]
    /\ next_id \in Nat \ {0}
    /\ tasks \subseteq Tasks
    /\ workers \in [Workers -> [task: Tasks \cup {None},
                                tx: {"none", "sent", "taken", "refused"}]]
    /\ loose \subseteq [id: Nat \ {0}, answer: Answers]
    /\ DOMAIN rows \subseteq Nonces
    /\ rows \in [DOMAIN rows -> {"live", "deleted"}]
    /\ DOMAIN minted \subseteq Nonces /\ minted \in [DOMAIN minted -> Secrets]
    /\ DOMAIN settled \subseteq 1..(next_id - 1)
    /\ settled \in [DOMAIN settled -> {"accepted", "missing", "error", "timeout"}]
    /\ DOMAIN credited \subseteq 1..(next_id - 1) /\ credited \in [DOMAIN credited -> Nat]

\* A transfer is credited at most once, however often its task is handed out,
\* a worker crashes or a transaction's outcome is missed: a second resume of
\* its yield is refused, and the credit is not repeated.  One that timed out or
\* was resumed with an error, and so went back to the payer, is not credited as
\* well (require_taken), and a credit is never followed by such a refund.
CreditedAsSettled ==
    \A id \in DOMAIN credited :
       /\ credited[id] <= 1
       /\ id \in DOMAIN settled => settled[id] \notin {"error", "timeout"}

\* A key once created keeps its key string: a nonce is not handed out again
\* (payment_key_nonce_floor), no late top-up writes the blob of an earlier key of
\* the nonce over it, and none brings a deleted key back.
SecretKept == \A n \in DOMAIN keys : n \in DOMAIN minted /\ keys[n].secret = minted[n]

\* The comment of resume_topup (payment.rs): the worker reports no credit the
\* chain did not take.
CreditedIsTaken ==
    \A id \in DOMAIN credited \cap DOMAIN settled : settled[id] = "accepted"
=============================================================================
