---------------------------- MODULE WorkerProofs ----------------------------
(***************************************************************************)
(* Proofs about what a worker does between others' decisions: that it      *)
(* serves only with a key that came to the operator's account, and that    *)
(* tasks go from the agent to the owner and back as the owner approved.    *)
(***************************************************************************)
EXTENDS WorkerRegistration, Tasks, TLAPS

\* The receipts under way, and the keys that ever came to the account: those there and
\* those the owner had removed.
KeyNames == {WorkerKeys[n].name : n \in DOMAIN WorkerKeys}
Receipt == [op: {"add", "delete"}, key: KeyNames, start: Nat]
CameToAccount == operator_keys \cup removed

RegistrationType ==
    /\ receipts \in Seq(Receipt) /\ starts \in Nat /\ keypair \in Nat
    /\ keypair # 0 \/ startup # "down" => keypair \in DOMAIN WorkerKeys
    /\ generated \in Nat

\* A receipt that adds a key is of a start that was; that of this start adds this key.
ReceiptsOfStarts ==
    \A i \in DOMAIN receipts : receipts[i].op = "add" =>
       receipts[i].start <= starts /\ (receipts[i].start = starts => receipts[i].key = worker_key)
\* What the transaction of this start answered, and what the worker goes on with.
CallTold ==
    called = "done" \/ startup \in {"attests", "serves"} => worker_key \in CameToAccount
RegistrationInv == RegistrationType /\ ReceiptsOfStarts /\ CallTold

\* The entries of a sequence with one more, of one less, and of its set.
LEMMA SequenceFacts ==
    ASSUME NEW S, NEW q \in Seq(S)
    PROVE  /\ \A i \in DOMAIN q : q[i] \in S
           /\ \A e \in S : /\ Append(q, e) \in Seq(S)
                           /\ DOMAIN Append(q, e) = DOMAIN q \cup {Len(q) + 1}
                           /\ Append(q, e)[Len(q) + 1] = e
                           /\ \A i \in DOMAIN q : Append(q, e)[i] = q[i]
           /\ q # <<>> => /\ Head(q) \in S /\ Head(q) = q[1] /\ 1 \in DOMAIN q
                          /\ Tail(q) \in Seq(S)
                          /\ \A i \in DOMAIN Tail(q) : i + 1 \in DOMAIN q /\ Tail(q)[i] = q[i + 1]
<1>1. \A i \in DOMAIN q : q[i] \in S  OBVIOUS
<1>2. ASSUME NEW e \in S
      PROVE  /\ Append(q, e) \in Seq(S) /\ DOMAIN Append(q, e) = DOMAIN q \cup {Len(q) + 1}
             /\ Append(q, e)[Len(q) + 1] = e /\ \A i \in DOMAIN q : Append(q, e)[i] = q[i]
  OBVIOUS
<1>3. ASSUME q # <<>>
      PROVE  /\ Head(q) \in S /\ Head(q) = q[1] /\ 1 \in DOMAIN q /\ Tail(q) \in Seq(S)
             /\ \A i \in DOMAIN Tail(q) : i + 1 \in DOMAIN q /\ Tail(q)[i] = q[i + 1]
  BY <1>3
<1> QED  BY <1>1, <1>2, <1>3, Zenon

\* A step that leaves the account, the receipts, the key and the start alone, and tells the
\* worker to go on only with a key that came.
LEMMA StartGoesOn ==
    ASSUME RegistrationInv, UNCHANGED <<operator_keys, receipts, removed, keypair, generated, starts, called>>,
           startup # "down",
           startup' \in {"attests", "serves"} => worker_key \in CameToAccount
    PROVE  RegistrationInv'
<1>1. worker_key' = worker_key  BY Zenon DEF worker_key
<1>2. RegistrationType'  BY Zenon DEF RegistrationInv, RegistrationType
<1>3. ReceiptsOfStarts'  BY <1>1, Zenon DEF RegistrationInv, ReceiptsOfStarts
<1>4. CallTold'  BY <1>1, Zenon DEF RegistrationInv, CallTold, CameToAccount
<1> QED  BY <1>2, <1>3, <1>4, Zenon DEF RegistrationInv

\* What the owner sets on the contract concerns no key.
LEMMA SettingsKeep ==
    ASSUME RegistrationInv, UNCHANGED <<accountVars, startVars>>
    PROVE  RegistrationInv'
<1>1. UNCHANGED <<operator_keys, receipts, removed, keypair, generated, startup, starts, called>>
  BY Zenon DEF accountVars, startVars
<1>2. worker_key' = worker_key  BY <1>1, Zenon DEF worker_key
<1> QED  BY <1>1, <1>2, Zenon DEF RegistrationInv, RegistrationType, ReceiptsOfStarts, CallTold, CameToAccount

\* The owner has a key removed: one more receipt, and it adds nothing.
LEMMA RemovalKeeps ==
    ASSUME RegistrationInv, NEW who, NEW n \in DOMAIN WorkerKeys, remove_worker_keys(who, <<WorkerKeys[n].name>>)
    PROVE  RegistrationInv'
<1> DEFINE r == [op |-> "delete", key |-> WorkerKeys[n].name, start |-> 0]
           one == [i \in DOMAIN <<WorkerKeys[n].name>> |->
                     [op |-> "delete", key |-> <<WorkerKeys[n].name>>[i], start |-> 0]]
<1>1. receipts' = receipts \o one /\ UNCHANGED <<operator_keys, removed, startVars>>
  BY Zenon DEF remove_worker_keys
<1>2. r \in Receipt /\ r.op = "delete"  BY Zenon DEF Receipt, KeyNames
<1>3. receipts \in Seq(Receipt)  BY Zenon DEF RegistrationInv, RegistrationType
<1>4. one = <<r>>  OBVIOUS
<1> HIDE DEF one, r
<1>5. receipts' = Append(receipts, r)  BY <1>1, <1>2, <1>3, <1>4
<1>6. UNCHANGED <<keypair, generated, startup, starts, called>>  BY <1>1, Zenon DEF startVars
<1>7. worker_key' = worker_key  BY <1>6, Zenon DEF worker_key
<1>8. /\ receipts' \in Seq(Receipt) /\ DOMAIN receipts' = DOMAIN receipts \cup {Len(receipts) + 1}
      /\ receipts'[Len(receipts) + 1] = r /\ \A i \in DOMAIN receipts : receipts'[i] = receipts[i]
  BY <1>2, <1>3, <1>5
<1>9. RegistrationType'  BY <1>6, <1>8, Zenon DEF RegistrationInv, RegistrationType
<1>10. ReceiptsOfStarts'  BY <1>2, <1>6, <1>7, <1>8, Zenon DEF RegistrationInv, ReceiptsOfStarts
<1>11. CallTold'  BY <1>1, <1>6, <1>7, Zenon DEF RegistrationInv, CallTold, CameToAccount
<1> QED  BY <1>9, <1>10, <1>11, Zenon DEF RegistrationInv

\* A receipt is executed: a key that leaves the account is one the owner had removed, and
\* the transaction that is told "done" is this start's.
LEMMA ExecutionKeeps == ASSUME RegistrationInv, ExecuteReceipt PROVE RegistrationInv'
<1> DEFINE r == Head(receipts)
<1>1. /\ receipts # <<>> /\ receipts' = Tail(receipts) /\ UNCHANGED <<keypair, generated, startup, starts>>
      /\ \/ /\ r.op = "add" /\ operator_keys' = operator_keys \cup {r.key} /\ removed' = removed
            /\ called' = "done" => called = "done" \/ r.start = starts
         \/ /\ operator_keys' = operator_keys \ {r.key} /\ called' = called
            /\ removed' = removed \cup ({r.key} \cap operator_keys)
  BY Zenon DEF ExecuteReceipt
<1>2. worker_key' = worker_key  BY <1>1, Zenon DEF worker_key
<1>3. receipts \in Seq(Receipt)  BY Zenon DEF RegistrationInv, RegistrationType
<1>4. /\ r = receipts[1] /\ 1 \in DOMAIN receipts /\ receipts' \in Seq(Receipt)
      /\ \A i \in DOMAIN receipts' : i + 1 \in DOMAIN receipts /\ receipts'[i] = receipts[i + 1]
  BY <1>1, <1>3
<1> HIDE DEF r
<1>5. RegistrationType'  BY <1>1, <1>4, Zenon DEF RegistrationInv, RegistrationType
<1>6. ReceiptsOfStarts'  BY <1>1, <1>2, <1>4, Zenon DEF RegistrationInv, ReceiptsOfStarts
<1>7. \A k : k \in CameToAccount => k \in CameToAccount'  BY <1>1, Zenon DEF CameToAccount
<1>8. r.op = "add" /\ r.start = starts => r.key = worker_key
  BY <1>4, Zenon DEF RegistrationInv, ReceiptsOfStarts
<1>9. r.op = "add" /\ operator_keys' = operator_keys \cup {r.key} => r.key \in CameToAccount'
  BY Zenon DEF CameToAccount
<1>10. CallTold'
  <2>1. ASSUME called' = "done" \/ startup' \in {"attests", "serves"}
        PROVE  worker_key \in CameToAccount'
    BY <1>1, <1>7, <1>8, <1>9, <2>1, Zenon DEF RegistrationInv, CallTold
  <2> QED  BY <1>2, <2>1, Zenon DEF CallTold
<1> QED  BY <1>5, <1>6, <1>10, Zenon DEF RegistrationInv

\* A start takes the key on file or makes one: no receipt under way is of this start.
LEMMA StartUpKeeps == ASSUME RegistrationInv, NEW type, StartUp(type) PROVE RegistrationInv'
<1>1. /\ starts' = starts + 1 /\ startup' = "checks" /\ called' = "no"
      /\ UNCHANGED <<operator_keys, receipts, removed>>
  BY Zenon DEF StartUp, accountVars
<1>2. keypair' \in DOMAIN WorkerKeys /\ keypair' \in Nat /\ generated' \in Nat
  <2>1. CASE keypair # 0 /\ UNCHANGED <<keypair, generated>>
    BY <2>1, Zenon DEF RegistrationInv, RegistrationType
  <2>2. CASE \E n \in (generated + 1)..Len(WorkerKeys) : keypair' = n /\ generated' = n
    <3>1. generated \in Nat  BY Zenon DEF RegistrationInv, RegistrationType
    <3> QED  BY <2>2, <3>1, RegistrationAssumption
  <2> QED  BY <2>1, <2>2, Zenon DEF StartUp
<1>3. starts \in Nat /\ receipts \in Seq(Receipt)  BY Zenon DEF RegistrationInv, RegistrationType
<1>4. RegistrationType'  BY <1>1, <1>2, <1>3 DEF RegistrationType
<1>5. ReceiptsOfStarts'
  <2>1. ASSUME NEW i \in DOMAIN receipts, receipts[i].op = "add"
        PROVE  receipts[i].start <= starts + 1 /\ receipts[i].start # starts + 1
    <3>1. receipts[i] \in Receipt  BY <1>3, SequenceFacts, Zenon
    <3>2. receipts[i].start \in Nat  BY <3>1, Zenon DEF Receipt
    <3>3. receipts[i].start <= starts  BY <2>1, Zenon DEF RegistrationInv, ReceiptsOfStarts
    <3> QED  BY <1>3, <3>2, <3>3
  <2> QED  BY <1>1, <2>1, Zenon DEF ReceiptsOfStarts
<1>6. CallTold'  BY <1>1, Zenon DEF CallTold
<1> QED  BY <1>4, <1>5, <1>6, Zenon DEF RegistrationInv

\* The transaction is refused, or its receipt is under way with this start's key.
LEMMA SendKeeps == ASSUME RegistrationInv, SendRegistration PROVE RegistrationInv'
<1> DEFINE r == [op |-> "add", key |-> worker_key, start |-> starts]
<1>1. /\ startup = "registers" /\ called' \in {"waits", "failed"}
      /\ receipts' = Append(receipts, r) \/ receipts' = receipts
      /\ UNCHANGED <<operator_keys, removed, keypair, generated, startup, starts>>
  BY Zenon DEF SendRegistration
<1>2. worker_key' = worker_key  BY <1>1, Zenon DEF worker_key
<1>3. receipts \in Seq(Receipt) /\ starts \in Nat /\ keypair \in DOMAIN WorkerKeys
  BY <1>1, Zenon DEF RegistrationInv, RegistrationType
<1>4. r \in Receipt /\ r.start = starts /\ r.key = worker_key /\ starts <= starts
  BY <1>3 DEF Receipt, KeyNames, worker_key
<1> HIDE DEF r
<1>5. CASE receipts' = Append(receipts, r)
  <2>1. /\ receipts' \in Seq(Receipt) /\ DOMAIN receipts' = DOMAIN receipts \cup {Len(receipts) + 1}
        /\ receipts'[Len(receipts) + 1] = r /\ \A i \in DOMAIN receipts : receipts'[i] = receipts[i]
    BY <1>3, <1>4, <1>5
  <2>2. RegistrationType'  BY <1>1, <2>1, Zenon DEF RegistrationInv, RegistrationType
  <2>3. ReceiptsOfStarts'  BY <1>1, <1>2, <1>4, <2>1, Zenon DEF RegistrationInv, ReceiptsOfStarts
  <2> QED  BY <1>1, <2>2, <2>3, Zenon DEF CallTold, RegistrationInv
<1>6. CASE receipts' = receipts
  <2>1. RegistrationType' /\ ReceiptsOfStarts'
    BY <1>1, <1>2, <1>6, Zenon DEF RegistrationInv, RegistrationType, ReceiptsOfStarts
  <2> QED  BY <1>1, <2>1, Zenon DEF CallTold, RegistrationInv
<1> QED  BY <1>1, <1>5, <1>6, Zenon

\* Every step of the owner, of the chain and of the worker.
LEMMA RegistrationStepKeeps == ASSUME RegistrationInv, [RegistrationNext]_registrationVars PROVE RegistrationInv'
<1>1. CASE UNCHANGED registrationVars  BY <1>1, SettingsKeep, Zenon DEF registrationVars
<1>2. ASSUME NEW who,
             \/ \E c, i : update_collateral(who, c, i)
             \/ \E b, others : add_approved_measurements(who, b, others)
             \/ \E bs : remove_approved_measurements(who, bs)
             \/ \E new : transfer_ownership(who, new)
      PROVE  RegistrationInv'
  BY <1>2, SettingsKeep, Zenon DEF update_collateral, add_approved_measurements, remove_approved_measurements,
                                   transfer_ownership
<1>3. CASE CheckKey \/ (\E answered \in BOOLEAN : WaitForApproval(answered)) \/ ReadOutcome \/ Attest \/ StartFails
  <2>1. UNCHANGED <<operator_keys, receipts, removed, keypair, generated, starts, called>>
    BY <1>3, Zenon DEF CheckKey, WaitForApproval, ReadOutcome, Attest, StartFails, Continue, accountVars
  <2>2. startup # "down"  BY <1>3, Zenon DEF CheckKey, WaitForApproval, ReadOutcome, Attest, StartFails
  <2>3. startup' \in {"attests", "serves"} =>
           called = "done" \/ startup \in {"attests", "serves"} \/ worker_key \in operator_keys
    BY <1>3, Zenon DEF CheckKey, WaitForApproval, ReadOutcome, Attest, StartFails, Continue, AfterOutcome, OutcomeRead
  <2>4. startup' \in {"attests", "serves"} => worker_key \in CameToAccount
    BY <2>3, Zenon DEF RegistrationInv, CallTold, CameToAccount
  <2> QED  BY <2>1, <2>2, <2>4, StartGoesOn, Zenon
<1> QED
  BY <1>1, <1>2, <1>3, RemovalKeeps, ExecutionKeeps, StartUpKeeps, SendKeeps, Zenon DEF RegistrationNext

\* The receipts under way are of the starts that sent them, and a key a start goes on with
\* came to the account.
THEOREM RegistrationInvAlways == RegistrationSpec => []RegistrationInv
<1>1. ASSUME RegistrationInit PROVE RegistrationInv
  <2>1. RegistrationType /\ ReceiptsOfStarts  BY <1>1 DEF RegistrationInit, RegistrationType, ReceiptsOfStarts
  <2> QED  BY <1>1, <2>1, Zenon DEF RegistrationInit, RegistrationInv, CallTold
<1> QED  BY <1>1, RegistrationStepKeeps, PTL DEF RegistrationSpec

\* A worker (registration.rs, main.rs) serves only with a key that was put on the operator's
\* account, whatever restarts, changes of the key's type and removals do.
THEOREM AlwaysServesWithItsKey == RegistrationSpec => []ServesWithItsKey
<1>1. RegistrationInv => ServesWithItsKey
  BY Zenon DEF RegistrationInv, CallTold, CameToAccount, ServesWithItsKey
<1> QED  BY <1>1, RegistrationInvAlways, PTL

-----------------------------------------------------------------------------
\* Tasks.

HostFields == {"facts", "ready", "calls", "opened", "devices", "conversation", "answered", "refused",
               "doing", "ended"}
TaskFields == {"owner", "profile", "preparer", "thread", "kind", "consent", "build", "policy",
               "expires_at", "copies"}
Untaken == {"open", "approved", "rejected", "cancelled", "expired", "void"}

\* The run `facts` is the one a task's consent, build and policy are of, and the approval
\* is recent at `at`, within the task's life.
Agreed(facts, id, at) ==
    /\ facts.caller = sealed[id].preparer /\ facts.build = sealed[id].build /\ facts.policy = sealed[id].policy
    /\ facts.key # NoKey /\ facts.key.nonce = sealed[id].consent.nonce
    /\ facts.key.compute <= sealed[id].consent.compute
    /\ approval[id].at >= at - ApprovalAge
    /\ at < sealed[id].expires_at

\* What a run holds: the devices of its first row's owner; a conversation of that owner's
\* and its agent's; words it said; a task that was approved, and before the store is asked
\* to move it, one it agrees with.
HostShape(r) == DOMAIN task_runs[r] = HostFields /\ task_runs[r].opened \in Nat
OwnDevices(r) ==
    task_runs[r].devices # Unset => \A d \in task_runs[r].devices : d.owner = FirstRow(r).owner
OwnThread(r) ==
    task_runs[r].conversation \notin {Unset, Several} =>
       \E x \in DOMAIN sealed : /\ sealed[x].thread = task_runs[r].conversation
                                /\ sealed[x].owner = FirstRow(r).owner
                                /\ sealed[x].preparer = task_runs[r].facts.caller
SaidSo(r) ==
    \A id \in DOMAIN task_runs[r].answered : task_runs[r].answered[id] = "carried_out" =>
       <<r, id>> \in DOMAIN said /\ said[<<r, id>>] = "carried_out"
Underway(r) ==
    task_runs[r].doing # Unset =>
       /\ task_runs[r].doing.id \in DOMAIN stored /\ stored[task_runs[r].doing.id].state # "open"
       /\ task_runs[r].doing.id \in DOMAIN approval
       /\ sealed[task_runs[r].doing.id].owner = FirstRow(r).owner
       /\ task_runs[r].doing.step = "move" =>
             Agreed(task_runs[r].facts, task_runs[r].doing.id, task_runs[r].doing.judged)
RunFits(r) == HostShape(r) /\ OwnDevices(r) /\ OwnThread(r) /\ SaidSo(r) /\ Underway(r)
RunsAreSeq == task_runs \in Seq({task_runs[r] : r \in DOMAIN task_runs})
RunsInv == RunsAreSeq /\ \A r \in DOMAIN task_runs : RunFits(r)

\* What is sealed and stored: ids are of runs and their numbers; a thread is a task's id; an
\* approved task has its approval.
StoreShape ==
    /\ DOMAIN stored = DOMAIN sealed
    /\ \A id \in DOMAIN sealed : DOMAIN sealed[id] = TaskFields /\ DOMAIN stored[id] = {"state", "run"}
    /\ \A id \in DOMAIN stored : stored[id].state = "approved" => id \in DOMAIN approval
IdFits(id) ==
    /\ id = <<id[1], id[2]>> /\ id[1] \in DOMAIN task_runs /\ id[2] \in Nat
    /\ task_runs[id[1]].ended = Unset => id[2] < task_runs[id[1]].opened
IdsFit == \A id \in DOMAIN sealed : IdFits(id)
ThreadsAreIds == \A id \in DOMAIN sealed : sealed[id].thread \in DOMAIN sealed
HandedFits ==
    \A h \in handed :
       /\ h.task \in DOMAIN stored /\ h.run \in DOMAIN task_runs /\ h.task \in DOMAIN approval
       /\ Agreed(task_runs[h.run].facts, h.task, h.at)
       /\ stored[h.task].state \notin Untaken /\ stored[h.task].run = h.run
       /\ \A other \in handed : other.task = h.task => other = h
TasksInv ==
    RunsInv /\ StoreShape /\ IdsFit /\ ThreadsAreIds /\ OwnersApart /\ HandedFits /\ DoneAsReported

\* What no step does: change a sealed task but for its copies, or take a task back that was
\* approved or taken; an approval stands once it is given.
SealedGoesOn ==
    \A id \in DOMAIN sealed :
       /\ id \in DOMAIN sealed'
       /\ \A f \in TaskFields \ {"copies"} : sealed'[id][f] = sealed[id][f]
StoreGoesOn ==
    \A id \in DOMAIN stored :
       /\ id \in DOMAIN stored'
       /\ stored[id].state # "open" =>
             /\ stored'[id].state # "open"
             /\ id \in DOMAIN approval => id \in DOMAIN approval' /\ approval'[id] = approval[id]
       /\ stored[id].state \notin Untaken => stored'[id].state \notin Untaken /\ stored'[id].run = stored[id].run
RunsGoOn ==
    \A r \in DOMAIN task_runs : r \in DOMAIN task_runs' /\ task_runs'[r].facts = task_runs[r].facts

\* The fields of a sealed task that stand.
LEMMA SealedFields ==
    ASSUME SealedGoesOn, NEW id \in DOMAIN sealed
    PROVE  /\ id \in DOMAIN sealed'
           /\ sealed'[id].owner = sealed[id].owner /\ sealed'[id].preparer = sealed[id].preparer
           /\ sealed'[id].thread = sealed[id].thread /\ sealed'[id].kind = sealed[id].kind
           /\ sealed'[id].consent = sealed[id].consent /\ sealed'[id].build = sealed[id].build
           /\ sealed'[id].policy = sealed[id].policy /\ sealed'[id].expires_at = sealed[id].expires_at
BY Zenon DEF SealedGoesOn, TaskFields

\* An agreement stands.
LEMMA AgreedStands ==
    ASSUME SealedGoesOn, StoreGoesOn, StoreShape, NEW id \in DOMAIN stored, stored[id].state # "open",
           id \in DOMAIN approval
    PROVE  \A facts, at : Agreed(facts, id, at) => Agreed(facts, id, at)'
<1>1. id \in DOMAIN sealed /\ approval'[id] = approval[id]  BY Zenon DEF StoreShape, StoreGoesOn
<1> QED  BY <1>1, SealedFields, Zenon DEF Agreed

\* A run that a step does not concern keeps what it holds.
LEMMA OtherRunFits ==
    ASSUME TasksInv, SealedGoesOn, StoreGoesOn, NEW v \in DOMAIN task_runs,
           v \in DOMAIN task_runs', task_runs'[v] = task_runs[v],
           \A id : <<v, id>> \in DOMAIN said => <<v, id>> \in DOMAIN said' /\ said'[<<v, id>>] = said[<<v, id>>]
    PROVE  RunFits(v)'
<1>1. RunFits(v) /\ StoreShape  BY Zenon DEF TasksInv, RunsInv
<1>2. FirstRow(v)' = FirstRow(v)  BY Zenon DEF FirstRow
<1>3. HostShape(v)' /\ OwnDevices(v)'  BY <1>1, <1>2, Zenon DEF RunFits, HostShape, OwnDevices
<1>4. OwnThread(v)'  BY <1>1, <1>2, SealedFields, Zenon DEF RunFits, OwnThread
<1>5. SaidSo(v)'  BY <1>1, Zenon DEF RunFits, SaidSo
<1>6. Underway(v)'
  <2>1. SUFFICES ASSUME task_runs[v].doing # Unset, NEW id, id = task_runs[v].doing.id
                 PROVE  /\ id \in DOMAIN stored' /\ stored'[id].state # "open" /\ id \in DOMAIN approval'
                        /\ sealed'[id].owner = FirstRow(v).owner
                        /\ task_runs[v].doing.step = "move" =>
                              Agreed(task_runs[v].facts, id, task_runs[v].doing.judged)'
    BY <1>2, Zenon DEF Underway, Agreed
  <2>2. /\ id \in DOMAIN stored /\ stored[id].state # "open" /\ id \in DOMAIN approval
        /\ sealed[id].owner = FirstRow(v).owner
        /\ task_runs[v].doing.step = "move" => Agreed(task_runs[v].facts, id, task_runs[v].doing.judged)
    BY <1>1, <2>1, Zenon DEF RunFits, Underway
  <2>3. id \in DOMAIN sealed  BY <1>1, <2>2, Zenon DEF StoreShape
  <2>4. id \in DOMAIN stored' /\ stored'[id].state # "open" /\ id \in DOMAIN approval'
    BY <2>2, Zenon DEF StoreGoesOn
  <2>5. sealed'[id].owner = FirstRow(v).owner  BY <2>2, <2>3, SealedFields, Zenon
  <2>6. \A facts, at : Agreed(facts, id, at) => Agreed(facts, id, at)'  BY <1>1, <2>2, AgreedStands, Zenon
  <2>7. task_runs[v].doing.step = "move" => Agreed(task_runs[v].facts, id, task_runs[v].doing.judged)'
    BY <2>2, <2>6, Zenon DEF Agreed
  <2> QED  BY <2>4, <2>5, <2>7, Zenon
<1> QED  BY <1>3, <1>4, <1>5, <1>6, Zenon DEF RunFits

\* A function on 1..n is a sequence.
LEMMA FunctionIsSeq == ASSUME NEW T, NEW n \in Nat, NEW f \in [1..n -> T] PROVE f \in Seq(T)
OBVIOUS

\* One run changes.
LEMMA OneRun ==
    ASSUME RunsAreSeq, NEW r \in DOMAIN task_runs, NEW h, task_runs' = [task_runs EXCEPT ![r] = h]
    PROVE  /\ RunsAreSeq' /\ DOMAIN task_runs' = DOMAIN task_runs /\ task_runs'[r] = h
           /\ \A v \in DOMAIN task_runs : v # r => task_runs'[v] = task_runs[v]
<1> DEFINE S == {task_runs[v] : v \in DOMAIN task_runs}
           T == {task_runs'[v] : v \in DOMAIN task_runs'}
<1>1. task_runs \in Seq(S)  BY Zenon DEF RunsAreSeq
<1>2. /\ DOMAIN task_runs' = DOMAIN task_runs /\ task_runs'[r] = h
      /\ \A v \in DOMAIN task_runs : v # r => task_runs'[v] = task_runs[v]
  BY Zenon
<1>3. Len(task_runs) \in Nat /\ DOMAIN task_runs' = 1..Len(task_runs)  BY <1>1, <1>2
<1>4. \A v \in DOMAIN task_runs' : task_runs'[v] \in T  BY Zenon
<1> HIDE DEF S, T
<1>5. task_runs' \in [1..Len(task_runs) -> T]  BY <1>3, <1>4, Zenon
<1>6. task_runs' \in Seq(T)  BY <1>3, <1>5, FunctionIsSeq, Zenon
<1> QED  BY <1>2, <1>6, Zenon DEF RunsAreSeq, T

\* A step of run r: it suffices to look at r.
LEMMA RunStep ==
    ASSUME TasksInv, SealedGoesOn, StoreGoesOn, NEW r \in DOMAIN task_runs, NEW h,
           task_runs' = [task_runs EXCEPT ![r] = h], h.facts = task_runs[r].facts, RunFits(r)',
           \A v, id : v # r /\ <<v, id>> \in DOMAIN said =>
                         <<v, id>> \in DOMAIN said' /\ said'[<<v, id>>] = said[<<v, id>>]
    PROVE  RunsInv' /\ RunsGoOn
<1>1. RunsAreSeq  BY Zenon DEF TasksInv, RunsInv
<1>2. /\ RunsAreSeq' /\ DOMAIN task_runs' = DOMAIN task_runs /\ task_runs'[r] = h
      /\ \A v \in DOMAIN task_runs : v # r => task_runs'[v] = task_runs[v]
  BY <1>1, OneRun, Zenon
<1>3. ASSUME NEW v \in DOMAIN task_runs, v # r PROVE RunFits(v)'  BY <1>2, <1>3, OtherRunFits, Zenon
<1>4. RunsGoOn  BY <1>2, Zenon DEF RunsGoOn
<1> QED  BY <1>2, <1>3, <1>4, Zenon DEF RunsInv

\* What was handed stays as it was.
LEMMA HandedStands ==
    ASSUME TasksInv, SealedGoesOn, StoreGoesOn, RunsGoOn, handed' = handed
    PROVE  HandedFits'
<1>1. HandedFits /\ StoreShape  BY Zenon DEF TasksInv
<1>2. SUFFICES ASSUME NEW h \in handed
               PROVE  /\ h.task \in DOMAIN stored' /\ h.run \in DOMAIN task_runs' /\ h.task \in DOMAIN approval'
                      /\ Agreed(task_runs[h.run].facts, h.task, h.at)'
                      /\ stored'[h.task].state \notin Untaken /\ stored'[h.task].run = h.run
                      /\ \A other \in handed : other.task = h.task => other = h
  BY Zenon DEF HandedFits
<1>3. /\ h.task \in DOMAIN stored /\ h.run \in DOMAIN task_runs /\ h.task \in DOMAIN approval
      /\ Agreed(task_runs[h.run].facts, h.task, h.at)
      /\ stored[h.task].state \notin Untaken /\ stored[h.task].run = h.run
      /\ \A other \in handed : other.task = h.task => other = h
  BY <1>1, Zenon DEF HandedFits
<1>4. stored[h.task].state # "open"  BY <1>3, Zenon DEF Untaken
<1>5. \A facts, at : Agreed(facts, h.task, at) => Agreed(facts, h.task, at)'
  BY <1>1, <1>3, <1>4, AgreedStands, Zenon
<1>6. Agreed(task_runs[h.run].facts, h.task, h.at)'  BY <1>3, <1>5, Zenon DEF Agreed, RunsGoOn
<1> QED  BY <1>3, <1>4, <1>6, Zenon DEF StoreGoesOn, RunsGoOn

\* The ids of sealed tasks stay those of runs and their numbers.
LEMMA IdsStand ==
    ASSUME TasksInv, RunsGoOn,
           \A r \in DOMAIN task_runs : task_runs'[r].ended = Unset =>
              task_runs[r].ended = Unset /\ task_runs'[r].opened \in {task_runs[r].opened, task_runs[r].opened + 1}
    PROVE  \A id \in DOMAIN sealed : IdFits(id)'
<1>1. ASSUME NEW id \in DOMAIN sealed
      PROVE  /\ id = <<id[1], id[2]>> /\ id[1] \in DOMAIN task_runs' /\ id[2] \in Nat
             /\ task_runs'[id[1]].ended = Unset => id[2] < task_runs'[id[1]].opened
  <2>1. /\ id = <<id[1], id[2]>> /\ id[1] \in DOMAIN task_runs /\ id[2] \in Nat
        /\ task_runs[id[1]].ended = Unset => id[2] < task_runs[id[1]].opened
    BY Zenon DEF TasksInv, IdsFit, IdFits
  <2>2. task_runs[id[1]].opened \in Nat  BY <2>1, Zenon DEF TasksInv, RunsInv, RunFits, HostShape
  <2>3. ASSUME task_runs'[id[1]].ended = Unset PROVE id[2] < task_runs'[id[1]].opened
    <3>1. /\ id[2] < task_runs[id[1]].opened
          /\ task_runs'[id[1]].opened = task_runs[id[1]].opened \/ task_runs'[id[1]].opened = task_runs[id[1]].opened + 1
      BY <2>1, <2>3, Zenon
    <3> QED  BY <2>1, <2>2, <3>1
  <2> QED  BY <2>1, <2>3, Zenon DEF RunsGoOn
<1> QED  BY <1>1, Zenon DEF IdFits

\* No task comes to be done.
LEMMA DoneStands ==
    ASSUME TasksInv, SealedGoesOn, DOMAIN stored \subseteq DOMAIN stored',
           \A id \in DOMAIN stored' : stored'[id].state = "done" =>
              /\ id \in DOMAIN stored
              /\ sealed[id].kind # "notice" => stored[id].state = "done" /\ stored'[id].run = stored[id].run,
           \A r \in DOMAIN task_runs : task_runs[r].ended = "well" =>
              r \in DOMAIN task_runs' /\ task_runs'[r].ended = "well",
           \A r \in DOMAIN task_runs : \A id : task_runs[r].ended = "well" /\ <<r, id>> \in DOMAIN said =>
              <<r, id>> \in DOMAIN said' /\ said'[<<r, id>>] = said[<<r, id>>]
    PROVE  DoneAsReported'
<1>1. DoneAsReported /\ DOMAIN stored = DOMAIN sealed  BY Zenon DEF TasksInv, StoreShape
<1>2. SUFFICES ASSUME NEW id \in DOMAIN stored', stored'[id].state = "done", sealed'[id].kind # "notice"
               PROVE  LET r == stored'[id].run
                      IN /\ r \in DOMAIN task_runs' /\ task_runs'[r].ended = "well"
                         /\ <<r, id>> \in DOMAIN said' /\ said'[<<r, id>>] = "carried_out"
  BY Zenon DEF DoneAsReported
<1>3. id \in DOMAIN stored /\ id \in DOMAIN sealed  BY <1>1, <1>2, Zenon
<1>4. sealed[id].kind # "notice"  BY <1>2, <1>3, SealedFields, Zenon
<1>5. stored[id].state = "done" /\ stored'[id].run = stored[id].run  BY <1>2, <1>4, Zenon
<1>6. LET r == stored[id].run
      IN /\ r \in DOMAIN task_runs /\ task_runs[r].ended = "well"
         /\ <<r, id>> \in DOMAIN said /\ said[<<r, id>>] = "carried_out"
  BY <1>1, <1>3, <1>4, <1>5, Zenon DEF DoneAsReported
<1> QED  BY <1>5, <1>6, Zenon

\* A step of the store's or outside: no run changes, and no task comes to be done but a notice.
LEMMA StoreStep ==
    ASSUME TasksInv, UNCHANGED <<task_runs, sealed, handed, said>>, StoreGoesOn, StoreShape',
           \A id \in DOMAIN stored : stored'[id].state = "done" /\ sealed[id].kind # "notice" =>
              stored[id].state = "done" /\ stored'[id].run = stored[id].run
    PROVE  TasksInv'
<1>1. SealedGoesOn /\ RunsGoOn  BY Zenon DEF SealedGoesOn, RunsGoOn
<1>2. RunsInv'
  <2>1. ASSUME NEW v \in DOMAIN task_runs PROVE RunFits(v)'  BY <1>1, OtherRunFits, Zenon
  <2> QED  BY <2>1, Zenon DEF TasksInv, RunsInv, RunsAreSeq
<1>3. HandedFits'  BY <1>1, HandedStands, Zenon
<1>4. DOMAIN stored' = DOMAIN stored  BY Zenon DEF TasksInv, StoreShape
<1>5. DoneAsReported'  BY <1>1, <1>4, DoneStands, Zenon
<1>6. IdsFit'  BY Zenon DEF TasksInv, IdsFit, IdFits
<1>7. ThreadsAreIds' /\ OwnersApart'  BY Zenon DEF TasksInv, ThreadsAreIds, OwnersApart
<1> QED  BY <1>2, <1>3, <1>5, <1>6, <1>7, Zenon DEF TasksInv

\* What a run holds when a step leaves its devices, its conversation and its answers.
LEMMA SameHeld ==
    ASSUME TasksInv, SealedGoesOn, NEW r \in DOMAIN task_runs, DOMAIN task_runs'[r] = HostFields,
           task_runs'[r].opened \in Nat, task_runs'[r].facts = task_runs[r].facts
    PROVE  /\ HostShape(r)' /\ FirstRow(r)' = FirstRow(r)
           /\ task_runs'[r].devices = task_runs[r].devices => OwnDevices(r)'
           /\ task_runs'[r].conversation = task_runs[r].conversation => OwnThread(r)'
           /\ task_runs'[r].answered = task_runs[r].answered /\ said' = said => SaidSo(r)'
<1>1. RunFits(r)  BY Zenon DEF TasksInv, RunsInv
<1>2. HostShape(r)' /\ FirstRow(r)' = FirstRow(r)  BY Zenon DEF HostShape, FirstRow
<1>3. ASSUME task_runs'[r].devices = task_runs[r].devices PROVE OwnDevices(r)'
  BY <1>1, <1>2, <1>3, Zenon DEF RunFits, OwnDevices
<1>4. ASSUME task_runs'[r].conversation = task_runs[r].conversation PROVE OwnThread(r)'
  BY <1>1, <1>2, <1>4, SealedFields, Zenon DEF RunFits, OwnThread
<1>5. ASSUME task_runs'[r].answered = task_runs[r].answered, said' = said PROVE SaidSo(r)'
  BY <1>1, <1>5, Zenon DEF RunFits, SaidSo
<1> QED  BY <1>2, <1>3, <1>4, <1>5, Zenon

\* A step of a run that goes on, in which no task is sealed.
LEMMA RunGoesOn ==
    ASSUME TasksInv, sealed' = sealed, StoreGoesOn, StoreShape', HandedFits' \/ handed' = handed,
           NEW r \in DOMAIN task_runs, NEW h, task_runs' = [task_runs EXCEPT ![r] = h],
           task_runs[r].ended = Unset, h.facts = task_runs[r].facts, RunFits(r)',
           h.ended = Unset => h.opened \in {task_runs[r].opened, task_runs[r].opened + 1},
           \A v, id : v # r /\ <<v, id>> \in DOMAIN said =>
                         <<v, id>> \in DOMAIN said' /\ said'[<<v, id>>] = said[<<v, id>>],
           \/ DoneAsReported'
           \/ \A id \in DOMAIN stored : stored'[id].state = "done" =>
                 stored[id].state = "done" /\ stored'[id].run = stored[id].run
    PROVE  TasksInv'
<1>1. SealedGoesOn /\ DOMAIN stored' = DOMAIN stored
  BY Zenon DEF TasksInv, SealedGoesOn, StoreShape
<1>2. RunsInv' /\ RunsGoOn  BY <1>1, RunStep, Zenon
<1>3. /\ task_runs'[r] = h
      /\ \A v \in DOMAIN task_runs : v # r => task_runs'[v] = task_runs[v]
  BY OneRun, Zenon DEF TasksInv, RunsInv
<1>4. IdsFit'
  <2>1. \A v \in DOMAIN task_runs : task_runs'[v].ended = Unset =>
           task_runs[v].ended = Unset /\ task_runs'[v].opened \in {task_runs[v].opened, task_runs[v].opened + 1}
    BY <1>3, Zenon
  <2> QED  BY <1>2, <2>1, IdsStand, Zenon DEF IdsFit
<1>5. HandedFits'  BY <1>1, <1>2, HandedStands, Zenon
<1>6. DoneAsReported'
  <2>1. \A v \in DOMAIN task_runs : task_runs[v].ended = "well" => v # r  BY TasksAssumption, Zenon
  <2>2. \A v \in DOMAIN task_runs : task_runs[v].ended = "well" =>
           v \in DOMAIN task_runs' /\ task_runs'[v].ended = "well"
    BY <1>2, <1>3, <2>1, Zenon DEF RunsGoOn
  <2>3. \A v \in DOMAIN task_runs : \A id : task_runs[v].ended = "well" /\ <<v, id>> \in DOMAIN said =>
           <<v, id>> \in DOMAIN said' /\ said'[<<v, id>>] = said[<<v, id>>]
    BY <2>1, Zenon
  <2> QED  BY <1>1, <2>2, <2>3, DoneStands, Zenon
<1>7. ThreadsAreIds' /\ OwnersApart'  BY Zenon DEF TasksInv, ThreadsAreIds, OwnersApart
<1> QED  BY <1>2, <1>4, <1>5, <1>6, <1>7, Zenon DEF TasksInv

\* The store is left alone.
LEMMA StoreAlone ==
    ASSUME TasksInv, UNCHANGED <<sealed, stored, approval>>
    PROVE  /\ SealedGoesOn /\ StoreGoesOn /\ StoreShape'
           /\ \A id \in DOMAIN stored : stored'[id].state = "done" =>
                 stored[id].state = "done" /\ stored'[id].run = stored[id].run
BY Zenon DEF TasksInv, SealedGoesOn, StoreGoesOn, StoreShape

\* The host h is `host` but for the count of calls.
SameButCalls(h, host) ==
    /\ DOMAIN h = HostFields
    /\ h.facts = host.facts /\ h.opened = host.opened /\ h.devices = host.devices
    /\ h.conversation = host.conversation /\ h.answered = host.answered /\ h.refused = host.refused
    /\ h.doing = host.doing /\ h.ended = host.ended

\* After a call the run is as the call left it, but for the count.
LEMMA CalledAs ==
    ASSUME NEW r, NEW host, DOMAIN host = HostFields, Called(r, host)
    PROVE  \E h : task_runs' = [task_runs EXCEPT ![r] = h] /\ SameButCalls(h, host)
<1> DEFINE h == [host EXCEPT !.calls = @ + 1]
<1>1. SameButCalls(h, host)  BY Zenon DEF SameButCalls, HostFields
<1> QED  BY <1>1, Zenon DEF Called

\* A call that is counted, and nothing else.
LEMMA ConsultKeeps == ASSUME TasksInv, NEW r \in DOMAIN task_runs, Consult(r) PROVE TasksInv'
<1>1. /\ Called(r, task_runs[r]) /\ task_runs[r].ended = Unset /\ task_runs[r].doing = Unset
      /\ UNCHANGED <<sealed, stored, approval, handed, said>>
  BY Zenon DEF Consult, Enters, storeVars, taskHistory
<1>2. RunFits(r) /\ RunsAreSeq  BY Zenon DEF TasksInv, RunsInv
<1>3. PICK h : task_runs' = [task_runs EXCEPT ![r] = h] /\ SameButCalls(h, task_runs[r])
  BY <1>1, <1>2, CalledAs, Zenon DEF RunFits, HostShape
<1>4. /\ DOMAIN h = HostFields /\ h.facts = task_runs[r].facts
      /\ h.opened = task_runs[r].opened
      /\ h.devices = task_runs[r].devices /\ h.conversation = task_runs[r].conversation
      /\ h.answered = task_runs[r].answered /\ h.ended = task_runs[r].ended /\ h.doing = Unset
  BY <1>1, <1>3, Zenon DEF SameButCalls
<1>5. task_runs'[r] = h  BY <1>2, <1>3, OneRun, Zenon
<1>6. SealedGoesOn /\ StoreGoesOn /\ StoreShape'  BY <1>1, StoreAlone, Zenon
<1>7. h.opened \in Nat  BY <1>2, <1>4, Zenon DEF RunFits, HostShape
<1>8. HostShape(r)' /\ OwnDevices(r)' /\ OwnThread(r)' /\ SaidSo(r)'
  BY <1>1, <1>3, <1>4, <1>5, <1>6, <1>7, SameHeld, Zenon
<1>9. RunFits(r)'  BY <1>4, <1>5, <1>8, Zenon DEF RunFits, Underway
<1> QED  BY <1>1, <1>3, <1>4, <1>6, <1>9, StoreAlone, RunGoesOn, Zenon

\* One task's state changes in the store.
LEMMA OneState ==
    ASSUME StoreShape, NEW id \in DOMAIN stored, NEW st, stored' = [stored EXCEPT ![id].state = st]
    PROVE  /\ DOMAIN stored' = DOMAIN stored /\ stored'[id].state = st /\ stored'[id].run = stored[id].run
           /\ DOMAIN stored'[id] = {"state", "run"}
           /\ \A x \in DOMAIN stored : x # id => stored'[x] = stored[x]
<1>1. DOMAIN stored[id] = {"state", "run"}  BY Zenon DEF StoreShape
<1> QED  BY <1>1, Zenon

\* A task is closed: whatever its state was, an approved one's approval stands.
LEMMA ClosingKeeps ==
    ASSUME StoreShape, NEW id \in DOMAIN stored, NEW st, stored' = [stored EXCEPT ![id].state = st],
           st \notin {"open", "approved"}, stored[id].state \in Untaken \/ st \notin Untaken,
           UNCHANGED <<sealed, approval>>
    PROVE  StoreGoesOn /\ StoreShape'
<1>1. /\ DOMAIN stored' = DOMAIN stored /\ stored'[id].state = st /\ stored'[id].run = stored[id].run
      /\ DOMAIN stored'[id] = {"state", "run"}
      /\ \A x \in DOMAIN stored : x # id => stored'[x] = stored[x]
  BY OneState, Zenon
<1>2. st # "open" /\ st # "approved"  BY Zenon
<1>3. StoreGoesOn
  <2>1. SUFFICES ASSUME NEW x \in DOMAIN stored
                 PROVE  /\ stored[x].state # "open" => stored'[x].state # "open"
                        /\ stored[x].state \notin Untaken => stored'[x].state \notin Untaken /\ stored'[x].run = stored[x].run
    BY <1>1, Zenon DEF StoreGoesOn
  <2>2. CASE x = id  BY <1>1, <1>2, <2>2, Zenon
  <2>3. CASE x # id  BY <1>1, <2>3, Zenon
  <2> QED  BY <2>2, <2>3, Zenon
<1>4. StoreShape'
  <2>1. \A x \in DOMAIN stored' : DOMAIN stored'[x] = {"state", "run"}  BY <1>1, Zenon DEF StoreShape
  <2>2. \A x \in DOMAIN stored' : stored'[x].state = "approved" => x \in DOMAIN approval'
    BY <1>1, <1>2, Zenon DEF StoreShape
  <2> QED  BY <1>1, <2>1, <2>2, Zenon DEF StoreShape
<1> QED  BY <1>3, <1>4, Zenon

\* The owner approves a task that was open.
LEMMA ApproveKeeps == ASSUME TasksInv, NEW id \in DOMAIN stored, ApproveTask(id) PROVE TasksInv'
<1>1. /\ UNCHANGED <<task_runs, sealed, handed, said>> /\ stored[id].state = "open"
      /\ stored' = [stored EXCEPT ![id].state = "approved"]
      /\ DOMAIN approval' = DOMAIN approval \cup {id}
      /\ \A x \in DOMAIN approval : x # id => approval'[x] = approval[x]
  BY Zenon DEF ApproveTask, taskHistory, Put
<1>2. StoreShape  BY Zenon DEF TasksInv
<1>3. /\ DOMAIN stored' = DOMAIN stored /\ stored'[id].state = "approved" /\ stored'[id].run = stored[id].run
      /\ DOMAIN stored'[id] = {"state", "run"}
      /\ \A x \in DOMAIN stored : x # id => stored'[x] = stored[x]
  BY <1>1, <1>2, OneState, Zenon
<1>4. "open" \in Untaken  BY Zenon DEF Untaken
<1>5. StoreGoesOn
  <2>1. SUFFICES ASSUME NEW x \in DOMAIN stored
                 PROVE  /\ stored[x].state # "open" =>
                              /\ stored'[x].state # "open"
                              /\ x \in DOMAIN approval => x \in DOMAIN approval' /\ approval'[x] = approval[x]
                        /\ stored[x].state \notin Untaken => stored'[x].state \notin Untaken /\ stored'[x].run = stored[x].run
    BY <1>3, Zenon DEF StoreGoesOn
  <2>2. CASE x = id  BY <1>1, <1>4, <2>2, Zenon
  <2>3. CASE x # id  BY <1>1, <1>3, <2>3, Zenon
  <2> QED  BY <2>2, <2>3, Zenon
<1>6. StoreShape'
  <2>1. \A x \in DOMAIN stored' : DOMAIN stored'[x] = {"state", "run"}  BY <1>2, <1>3, Zenon DEF StoreShape
  <2>2. \A x \in DOMAIN stored' : stored'[x].state = "approved" => x \in DOMAIN approval'
    BY <1>1, <1>2, <1>3, Zenon DEF StoreShape
  <2> QED  BY <1>1, <1>2, <1>3, <2>1, <2>2, Zenon DEF StoreShape
<1>7. \A x \in DOMAIN stored : stored'[x].state = "done" => stored[x].state = "done" /\ stored'[x].run = stored[x].run
  BY <1>3, Zenon
<1> QED  BY <1>1, <1>5, <1>6, <1>7, StoreStep, Zenon

\* The owner rejects or reads a task, or the store ends it.
LEMMA CloseKeeps == ASSUME TasksInv, NEW id \in DOMAIN stored, CloseTask(id) PROVE TasksInv'
<1>1. UNCHANGED <<task_runs, sealed, approval, handed, said>>  BY Zenon DEF CloseTask, taskHistory
<1>2. PICK st \in {"done", "rejected", "expired", "failed"} :
         /\ stored' = [stored EXCEPT ![id].state = st]
         /\ st \in {"rejected", "expired"} => stored[id].state = "open"
         /\ st = "done" => stored[id].state = "open" /\ sealed[id].kind = "notice"
  BY Zenon DEF CloseTask
<1>3. st \notin {"open", "approved"} /\ (stored[id].state \in Untaken \/ st \notin Untaken)  BY <1>2, Zenon DEF Untaken
<1>4. StoreShape  BY Zenon DEF TasksInv
<1>5. StoreGoesOn /\ StoreShape'  BY <1>1, <1>2, <1>3, <1>4, ClosingKeeps, Zenon
<1>6. /\ stored'[id].state = st /\ \A x \in DOMAIN stored : x # id => stored'[x] = stored[x]
  BY <1>2, <1>4, OneState, Zenon
<1>7. \A x \in DOMAIN stored : stored'[x].state = "done" /\ sealed[x].kind # "notice" =>
         stored[x].state = "done" /\ stored'[x].run = stored[x].run
  BY <1>2, <1>6, Zenon
<1> QED  BY <1>1, <1>5, <1>7, StoreStep, Zenon

\* A run ends, or is lost: the host's state goes with it.
LEMMA OverKeeps ==
    ASSUME TasksInv, NEW r \in DOMAIN task_runs, task_runs[r].ended = Unset,
           NEW how \in {"well", "badly"}, RunOver(r, how),
           UNCHANGED <<sealed, approval, handed, said>>, StoreGoesOn, StoreShape',
           \/ DoneAsReported'
           \/ \A id \in DOMAIN stored : stored'[id].state = "done" =>
                 stored[id].state = "done" /\ stored'[id].run = stored[id].run
    PROVE  TasksInv' /\ task_runs'[r].ended = how
<1> DEFINE h == [NewHost(task_runs[r].facts) EXCEPT !.ended = how]
<1>1. task_runs' = [task_runs EXCEPT ![r] = h]  BY Zenon DEF RunOver
<1>2. /\ DOMAIN h = HostFields /\ h.facts = task_runs[r].facts /\ h.opened = 0 /\ h.devices = Unset
      /\ h.conversation = Unset /\ h.answered = EmptyMap /\ h.doing = Unset /\ h.ended = how
  BY Zenon DEF NewHost, HostFields
<1> HIDE DEF h
<1>3. task_runs'[r] = h /\ r \in DOMAIN task_runs'  BY <1>1, OneRun, Zenon DEF TasksInv, RunsInv
<1>4. HostShape(r)' /\ OwnDevices(r)' /\ OwnThread(r)' /\ Underway(r)'
  <2>1. 0 \in Nat  BY Zenon
  <2> QED  BY <1>2, <1>3, <2>1, Zenon DEF HostShape, OwnDevices, OwnThread, Underway
<1>5. SaidSo(r)'  BY <1>2, <1>3, Zenon DEF SaidSo, EmptyMap
<1>6. RunFits(r)'  BY <1>4, <1>5, Zenon DEF RunFits
<1>7. how # Unset  BY TasksAssumption, Zenon
<1>8. TasksInv'  BY <1>1, <1>2, <1>6, <1>7, RunGoesOn, Zenon
<1> QED  BY <1>2, <1>3, <1>8, Zenon

\* The worker is gone.
LEMMA LoseKeeps == ASSUME TasksInv, NEW r \in DOMAIN task_runs, LoseTaskRun(r) PROVE TasksInv'
<1>1. /\ task_runs[r].ended = Unset /\ RunOver(r, "badly")
      /\ UNCHANGED <<sealed, stored, approval, handed, said>>
  BY Zenon DEF LoseTaskRun, storeVars, taskHistory
<1> QED  BY <1>1, StoreAlone, OverKeeps, Zenon

\* The store's record `e` of a task after the report of run r.
RecordAfter(e, r, success, id) ==
    /\ DOMAIN e = {"state", "run"} /\ e.run = stored[id].run
    /\ e.state = "open" => stored[id].state = "open"
    /\ e.state = "approved" => stored[id].state = "approved"
    /\ stored[id].state \notin Untaken => e.state \notin Untaken
    /\ e.state = "done" => \/ stored[id].state = "done"
                           \/ stored[id].run = r /\ success /\ CarriedOut(task_runs[r], id)

\* A report ends the run's own tasks and those it refused, and leaves the others.
LEMMA AfterReport ==
    ASSUME TasksInv, NEW r \in DOMAIN task_runs, NEW success \in BOOLEAN, NEW id \in DOMAIN stored
    PROVE  \A e : e = [stored[id] EXCEPT !.state = Finished(r, success, id)] => RecordAfter(e, r, success, id)
<1> SUFFICES ASSUME NEW e, e = [stored[id] EXCEPT !.state = Finished(r, success, id)]
             PROVE  RecordAfter(e, r, success, id)
  BY Zenon
<1>1. DOMAIN stored[id] = {"state", "run"}  BY Zenon DEF TasksInv, StoreShape
<1>2. DOMAIN e = {"state", "run"} /\ e.run = stored[id].run /\ e.state = Finished(r, success, id)  BY <1>1, Zenon
<1>3. \/ e.state = stored[id].state \/ e.state = "failed"
      \/ e.state = "done" /\ stored[id].run = r /\ success /\ CarriedOut(task_runs[r], id)
  BY <1>2, Zenon DEF Finished
<1>4. "failed" \notin Untaken /\ "done" \notin Untaken  BY Zenon DEF Untaken
<1> QED  BY <1>2, <1>3, <1>4, Zenon DEF RecordAfter

\* A run ends, and the store may be told.
LEMMA EndKeeps ==
    ASSUME TasksInv, NEW r \in DOMAIN task_runs, NEW success \in BOOLEAN, NEW told \in BOOLEAN,
           EndTaskRun(r, success, told)
    PROVE  TasksInv'
<1> DEFINE how == IF success THEN "well" ELSE "badly"
<1>1. /\ task_runs[r].ended = Unset /\ RunOver(r, how) /\ how \in {"well", "badly"}
      /\ success => how = "well"
      /\ UNCHANGED <<sealed, approval, handed, said>>
  BY Zenon DEF EndTaskRun, taskHistory
<1> HIDE DEF how
<1>2. CASE stored' = stored  BY <1>1, <1>2, StoreAlone, OverKeeps, Zenon
<1>3. CASE stored' = [id \in DOMAIN stored |-> [stored[id] EXCEPT !.state = Finished(r, success, id)]]
  <2>1. DOMAIN stored' = DOMAIN stored  BY <1>3, Zenon
  <2>2. \A id \in DOMAIN stored : LET e == stored'[id] IN RecordAfter(e, r, success, id)
    <3>1. SUFFICES ASSUME NEW id \in DOMAIN stored, NEW e, e = stored'[id] PROVE RecordAfter(e, r, success, id)
      BY Zenon
    <3>2. e = [stored[id] EXCEPT !.state = Finished(r, success, id)]  BY <1>3, <3>1, Zenon
    <3> QED  BY <3>2, AfterReport, Zenon
  <2>3. StoreGoesOn  BY <1>1, <2>1, <2>2, Zenon DEF StoreGoesOn, RecordAfter
  <2>4. StoreShape'  BY <1>1, <2>1, <2>2, Zenon DEF TasksInv, StoreShape, RecordAfter
  <2>5. /\ RunsAreSeq /\ SaidSo(r)  BY Zenon DEF TasksInv, RunsInv, RunFits
  <2>6. /\ DOMAIN task_runs' = DOMAIN task_runs /\ task_runs'[r].ended = how
        /\ \A v \in DOMAIN task_runs : v # r => task_runs'[v] = task_runs[v]
    <3> DEFINE h == [NewHost(task_runs[r].facts) EXCEPT !.ended = how]
    <3>1. task_runs' = [task_runs EXCEPT ![r] = h] /\ h.ended = how  BY <1>1, Zenon DEF RunOver, NewHost
    <3> HIDE DEF h
    <3> QED  BY <2>5, <3>1, OneRun, Zenon
  <2>7. DoneAsReported'
    <3>1. SUFFICES ASSUME NEW id \in DOMAIN stored, stored'[id].state = "done", sealed[id].kind # "notice"
                   PROVE  LET v == stored[id].run
                          IN /\ v \in DOMAIN task_runs' /\ task_runs'[v].ended = "well"
                             /\ <<v, id>> \in DOMAIN said /\ said[<<v, id>>] = "carried_out"
      BY <1>1, <2>1, <2>2, Zenon DEF DoneAsReported, RecordAfter
    <3>2. CASE stored[id].state = "done"
      <4>1. LET v == stored[id].run
            IN /\ v \in DOMAIN task_runs /\ task_runs[v].ended = "well"
               /\ <<v, id>> \in DOMAIN said /\ said[<<v, id>>] = "carried_out"
        BY <3>1, <3>2, Zenon DEF TasksInv, DoneAsReported
      <4>2. stored[id].run # r  BY <1>1, <4>1, TasksAssumption, Zenon
      <4> QED  BY <2>6, <4>1, <4>2, Zenon
    <3>3. CASE stored[id].run = r /\ success /\ CarriedOut(task_runs[r], id)
      BY <1>1, <2>5, <2>6, <3>3, Zenon DEF CarriedOut, SaidSo
    <3> QED  BY <2>2, <3>1, <3>2, <3>3, Zenon DEF RecordAfter
  <2> QED  BY <1>1, <2>3, <2>4, <2>7, OverKeeps, Zenon
<1> QED  BY <1>2, <1>3, Zenon DEF EndTaskRun

\* An approved task is read.
LEMMA ReadKeeps ==
    ASSUME TasksInv, NEW r \in DOMAIN task_runs, NEW id \in DOMAIN stored, ReadApproved(r, id) PROVE TasksInv'
<1> DEFINE host == [task_runs[r] EXCEPT !.doing = [step |-> "judge", id |-> id]]
<1>1. /\ Called(r, host) /\ task_runs[r].ended = Unset
      /\ sealed[id].owner = FirstRow(r).owner /\ stored[id].state = "approved"
      /\ UNCHANGED <<sealed, stored, approval, handed, said>>
  BY Zenon DEF ReadApproved, Enters, storeVars, taskHistory
<1>2. RunFits(r) /\ RunsAreSeq /\ StoreShape  BY Zenon DEF TasksInv, RunsInv
<1>3. /\ DOMAIN host = HostFields /\ host.facts = task_runs[r].facts /\ host.opened = task_runs[r].opened
      /\ host.devices = task_runs[r].devices /\ host.conversation = task_runs[r].conversation
      /\ host.answered = task_runs[r].answered /\ host.ended = task_runs[r].ended
      /\ host.doing = [step |-> "judge", id |-> id]
  BY <1>2, Zenon DEF RunFits, HostShape, HostFields
<1> HIDE DEF host
<1>4. PICK h : task_runs' = [task_runs EXCEPT ![r] = h] /\ SameButCalls(h, host)
  BY <1>1, <1>3, CalledAs, Zenon
<1>5. /\ DOMAIN h = HostFields /\ h.facts = task_runs[r].facts
      /\ h.opened = task_runs[r].opened
      /\ h.devices = task_runs[r].devices /\ h.conversation = task_runs[r].conversation
      /\ h.answered = task_runs[r].answered /\ h.ended = task_runs[r].ended
      /\ h.doing.step = "judge" /\ h.doing.id = id
  <2>1. h.doing = [step |-> "judge", id |-> id]  BY <1>3, <1>4, Zenon DEF SameButCalls
  <2>2. h.doing.step = "judge" /\ h.doing.id = id  BY <2>1
  <2> QED  BY <1>3, <1>4, <2>2, Zenon DEF SameButCalls
<1>6. task_runs'[r] = h  BY <1>2, <1>4, OneRun, Zenon
<1>7. SealedGoesOn /\ StoreGoesOn /\ StoreShape'  BY <1>1, StoreAlone, Zenon
<1>8. h.opened \in Nat  BY <1>2, <1>5, Zenon DEF RunFits, HostShape
<1>9. HostShape(r)' /\ FirstRow(r)' = FirstRow(r) /\ OwnDevices(r)' /\ OwnThread(r)' /\ SaidSo(r)'
  BY <1>1, <1>4, <1>5, <1>6, <1>7, <1>8, SameHeld, Zenon
<1>10. Underway(r)'
  <2>1. stored[id].state # "open" /\ id \in DOMAIN approval /\ "judge" # "move"
    BY <1>1, <1>2, Zenon DEF StoreShape
  <2> QED  BY <1>1, <1>5, <1>6, <1>9, <2>1, Zenon DEF Underway
<1>11. RunFits(r)'  BY <1>9, <1>10, Zenon DEF RunFits
<1> QED  BY <1>1, <1>4, <1>5, <1>7, <1>11, StoreAlone, RunGoesOn, Zenon

\* An open task is withdrawn.
LEMMA CancelKeeps ==
    ASSUME TasksInv, NEW r \in DOMAIN task_runs, NEW id \in DOMAIN stored, CancelTask(r, id) PROVE TasksInv'
<1>1. /\ Called(r, task_runs[r]) /\ task_runs[r].ended = Unset /\ task_runs[r].doing = Unset
      /\ stored[id].state = "open" /\ stored' = [stored EXCEPT ![id].state = "cancelled"]
      /\ UNCHANGED <<sealed, approval, handed, said>>
  BY Zenon DEF CancelTask, Enters, taskHistory
<1>2. RunFits(r) /\ RunsAreSeq /\ StoreShape  BY Zenon DEF TasksInv, RunsInv
<1>3. PICK h : task_runs' = [task_runs EXCEPT ![r] = h] /\ SameButCalls(h, task_runs[r])
  BY <1>1, <1>2, CalledAs, Zenon DEF RunFits, HostShape
<1>4. /\ DOMAIN h = HostFields /\ h.facts = task_runs[r].facts
      /\ h.opened = task_runs[r].opened
      /\ h.devices = task_runs[r].devices /\ h.conversation = task_runs[r].conversation
      /\ h.answered = task_runs[r].answered /\ h.ended = task_runs[r].ended /\ h.doing = Unset
  BY <1>1, <1>3, Zenon DEF SameButCalls
<1>5. task_runs'[r] = h  BY <1>2, <1>3, OneRun, Zenon
<1>6. SealedGoesOn  BY <1>1, Zenon DEF SealedGoesOn
<1>7. StoreGoesOn /\ StoreShape'
  <2>1. "open" \in Untaken /\ "cancelled" \notin {"open", "approved"}  BY Zenon DEF Untaken
  <2> QED  BY <1>1, <1>2, <2>1, ClosingKeeps, Zenon
<1>8. h.opened \in Nat  BY <1>2, <1>4, Zenon DEF RunFits, HostShape
<1>9. HostShape(r)' /\ OwnDevices(r)' /\ OwnThread(r)' /\ SaidSo(r)'
  BY <1>1, <1>3, <1>4, <1>5, <1>6, <1>8, SameHeld, Zenon
<1>10. Underway(r)'  BY <1>4, <1>5, Zenon DEF Underway
<1>11. RunFits(r)'  BY <1>9, <1>10, Zenon DEF RunFits
<1>12. \A x \in DOMAIN stored : stored'[x].state = "done" => stored[x].state = "done" /\ stored'[x].run = stored[x].run
  <2>1. stored'[id].state = "cancelled" /\ \A x \in DOMAIN stored : x # id => stored'[x] = stored[x]
    BY <1>1, <1>2, OneState, Zenon
  <2> QED  BY <2>1, Zenon
<1> QED  BY <1>1, <1>3, <1>4, <1>7, <1>11, <1>12, RunGoesOn, Zenon

\* A run says what became of a task it answered.
LEMMA ReportKeeps ==
    ASSUME TasksInv, NEW r \in DOMAIN task_runs, NEW id, NEW word, ReportTask(r, id, word) PROVE TasksInv'
<1> DEFINE host == [task_runs[r] EXCEPT !.answered[id] = word]
<1>1. /\ Called(r, host) /\ task_runs[r].ended = Unset /\ task_runs[r].doing = Unset
      /\ id \in DOMAIN task_runs[r].answered /\ said' = Put(said, <<r, id>>, word)
      /\ UNCHANGED <<sealed, stored, approval, handed>>
  BY Zenon DEF ReportTask, Enters, storeVars
<1>2. RunFits(r) /\ RunsAreSeq  BY Zenon DEF TasksInv, RunsInv
<1>3. /\ DOMAIN host = HostFields /\ host.facts = task_runs[r].facts /\ host.opened = task_runs[r].opened
      /\ host.devices = task_runs[r].devices /\ host.conversation = task_runs[r].conversation
      /\ host.ended = task_runs[r].ended /\ host.doing = task_runs[r].doing
      /\ host.answered = [task_runs[r].answered EXCEPT ![id] = word]
  BY <1>2, Zenon DEF RunFits, HostShape, HostFields
<1> HIDE DEF host
<1>4. PICK h : task_runs' = [task_runs EXCEPT ![r] = h] /\ SameButCalls(h, host)
  BY <1>1, <1>3, CalledAs, Zenon
<1>5. /\ DOMAIN h = HostFields /\ h.facts = task_runs[r].facts /\ h.opened = task_runs[r].opened
      /\ h.devices = task_runs[r].devices /\ h.conversation = task_runs[r].conversation
      /\ h.ended = task_runs[r].ended /\ h.doing = Unset
      /\ h.answered = [task_runs[r].answered EXCEPT ![id] = word]
  BY <1>1, <1>3, <1>4, Zenon DEF SameButCalls
<1>6. task_runs'[r] = h  BY <1>2, <1>4, OneRun, Zenon
<1>7. SealedGoesOn /\ StoreGoesOn /\ StoreShape'  BY <1>1, StoreAlone, Zenon
<1>8. h.opened \in Nat  BY <1>2, <1>5, Zenon DEF RunFits, HostShape
<1>9. HostShape(r)' /\ OwnDevices(r)' /\ OwnThread(r)'
  BY <1>5, <1>6, <1>7, <1>8, SameHeld, Zenon
<1>10. /\ <<r, id>> \in DOMAIN said' /\ said'[<<r, id>>] = word
       /\ \A k \in DOMAIN said : k # <<r, id>> => k \in DOMAIN said' /\ said'[k] = said[k]
  BY <1>1, Zenon DEF Put
<1>11. \A v, x : v # r \/ x # id => <<v, x>> # <<r, id>>  BY Zenon
<1>12. SaidSo(r)'
  <2>1. SUFFICES ASSUME NEW x \in DOMAIN h.answered, h.answered[x] = "carried_out"
                 PROVE  <<r, x>> \in DOMAIN said' /\ said'[<<r, x>>] = "carried_out"
    BY <1>6, Zenon DEF SaidSo
  <2>2. CASE x = id  BY <1>1, <1>5, <1>10, <2>1, <2>2, Zenon
  <2>3. CASE x # id
    <3>1. x \in DOMAIN task_runs[r].answered /\ task_runs[r].answered[x] = "carried_out"
      BY <1>5, <2>1, <2>3, Zenon
    <3>2. <<r, x>> \in DOMAIN said /\ said[<<r, x>>] = "carried_out"  BY <1>2, <3>1, Zenon DEF RunFits, SaidSo
    <3> QED  BY <1>10, <1>11, <2>3, <3>2, Zenon
  <2> QED  BY <2>2, <2>3, Zenon
<1>13. RunFits(r)'  BY <1>5, <1>6, <1>9, <1>12, Zenon DEF RunFits, Underway
<1>14. \A v, x : v # r /\ <<v, x>> \in DOMAIN said => <<v, x>> \in DOMAIN said' /\ said'[<<v, x>>] = said[<<v, x>>]
  BY <1>10, <1>11, Zenon
<1> QED  BY <1>1, <1>4, <1>5, <1>7, <1>13, <1>14, StoreAlone, RunGoesOn, Zenon

\* A task that is taken is one the run agrees with, at the time it is judged.
LEMMA JudgedAgrees ==
    ASSUME NEW facts, NEW id, TheRunConsentedTo(facts, id), SamePolicyAndBuild(facts, id), ApprovalHolds(id)
    PROVE  Agreed(facts, id, clock)
BY Zenon DEF TheRunConsentedTo, SamePolicyAndBuild, ApprovalHolds, Consented, Agreed

\* A task is judged: refused, closed as void, or about to be moved.
LEMMA JudgeKeeps ==
    ASSUME TasksInv, NEW r \in DOMAIN task_runs, NEW id \in DOMAIN stored, NEW suits \in BOOLEAN,
           NEW opens \in BOOLEAN, NEW told \in BOOLEAN, JudgeTask(r, id, suits, opens, told)
    PROVE  TasksInv'
<1>1. /\ InStep(r, "judge", id) /\ task_runs[r].ended = Unset
      /\ UNCHANGED <<sealed, approval, handed, said>>
  BY Zenon DEF JudgeTask, InStep, taskHistory
<1>2. RunFits(r) /\ RunsAreSeq /\ StoreShape  BY Zenon DEF TasksInv, RunsInv
<1>3. /\ stored[id].state # "open" /\ id \in DOMAIN approval /\ sealed[id].owner = FirstRow(r).owner
  BY <1>1, <1>2, Zenon DEF InStep, RunFits, Underway
<1>4. SealedGoesOn  BY <1>1, Zenon DEF SealedGoesOn
<1>5. CASE /\ task_runs' = [task_runs EXCEPT ![r] = Answered(task_runs[r], id)] /\ stored' = stored
           /\ Agreed(task_runs[r].facts, id, clock)
  <2> DEFINE h == Answered(task_runs[r], id)
  <2>1. /\ DOMAIN h = HostFields /\ h.facts = task_runs[r].facts /\ h.opened = task_runs[r].opened
        /\ h.devices = task_runs[r].devices /\ h.conversation = task_runs[r].conversation
        /\ h.ended = task_runs[r].ended /\ h.doing = [step |-> "move", id |-> id, judged |-> clock]
        /\ h.answered = IF id \in DOMAIN task_runs[r].answered THEN task_runs[r].answered
                        ELSE Put(task_runs[r].answered, id, "unsaid")
    BY <1>2, Zenon DEF RunFits, HostShape, HostFields, Answered
  <2> HIDE DEF h
  <2>2. task_runs' = [task_runs EXCEPT ![r] = h] /\ task_runs'[r] = h  BY <1>2, <1>5, OneRun, Zenon DEF h
  <2>3. StoreGoesOn /\ StoreShape'  BY <1>1, <1>5, StoreAlone, Zenon
  <2>4. h.opened \in Nat  BY <1>2, <2>1, Zenon DEF RunFits, HostShape
  <2>5. HostShape(r)' /\ FirstRow(r)' = FirstRow(r) /\ OwnDevices(r)' /\ OwnThread(r)'
    BY <1>4, <2>1, <2>2, <2>4, SameHeld, Zenon
  <2>6. SaidSo(r)'
    <3>1. \A x \in DOMAIN h.answered : h.answered[x] = "carried_out" =>
             x \in DOMAIN task_runs[r].answered /\ task_runs[r].answered[x] = "carried_out"
      BY <2>1, Zenon DEF Put
    <3> QED  BY <1>1, <1>2, <2>2, <3>1, Zenon DEF RunFits, SaidSo
  <2>7. Underway(r)'
    <3>1. h.doing.id = id /\ h.doing.judged = clock
      <4>1. h.doing = [step |-> "move", id |-> id, judged |-> clock]  BY <2>1, Zenon
      <4> QED  BY <4>1
    <3>2. \A x, at : x = id /\ at = clock =>
             /\ x \in DOMAIN stored' /\ stored'[x].state # "open" /\ x \in DOMAIN approval'
             /\ sealed'[x].owner = FirstRow(r)'.owner /\ Agreed(task_runs[r].facts, x, at)'
      BY <1>1, <1>3, <1>5, <2>1, <2>2, <2>5, Zenon DEF Agreed
    <3> QED  BY <2>2, <3>1, <3>2, Zenon DEF Underway
  <2>8. RunFits(r)'  BY <2>5, <2>6, <2>7, Zenon DEF RunFits
  <2> QED  BY <1>1, <1>5, <2>1, <2>2, <2>3, <2>8, StoreAlone, RunGoesOn, Zenon
<1>6. CASE /\ task_runs' = [task_runs EXCEPT ![r] = Refused(task_runs[r], id)]
           /\ \/ stored' = stored
              \/ stored[id].state \in {"open", "approved"} /\ stored' = [stored EXCEPT ![id].state = "void"]
  <2> DEFINE h == Refused(task_runs[r], id)
  <2>1. /\ DOMAIN h = HostFields /\ h.facts = task_runs[r].facts /\ h.opened = task_runs[r].opened
        /\ h.devices = task_runs[r].devices /\ h.conversation = task_runs[r].conversation
        /\ h.ended = task_runs[r].ended /\ h.doing = Unset /\ h.answered = task_runs[r].answered
    BY <1>2, Zenon DEF RunFits, HostShape, HostFields, Refused
  <2> HIDE DEF h
  <2>2. task_runs' = [task_runs EXCEPT ![r] = h] /\ task_runs'[r] = h  BY <1>2, <1>6, OneRun, Zenon DEF h
  <2>3. /\ StoreGoesOn /\ StoreShape'
        /\ \A x \in DOMAIN stored : stored'[x].state = "done" => stored[x].state = "done" /\ stored'[x].run = stored[x].run
    <3>1. CASE stored' = stored  BY <1>1, <3>1, StoreAlone, Zenon
    <3>2. CASE stored[id].state \in {"open", "approved"} /\ stored' = [stored EXCEPT ![id].state = "void"]
      <4>1. stored[id].state \in Untaken /\ "void" \notin {"open", "approved"}  BY <3>2, Zenon DEF Untaken
      <4>2. StoreGoesOn /\ StoreShape'  BY <1>1, <1>2, <3>2, <4>1, ClosingKeeps, Zenon
      <4>3. stored'[id].state = "void" /\ \A x \in DOMAIN stored : x # id => stored'[x] = stored[x]
        BY <1>2, <3>2, OneState, Zenon
      <4> QED  BY <4>2, <4>3, Zenon
    <3> QED  BY <1>6, <3>1, <3>2, Zenon
  <2>4. h.opened \in Nat  BY <1>2, <2>1, Zenon DEF RunFits, HostShape
  <2>5. HostShape(r)' /\ OwnDevices(r)' /\ OwnThread(r)' /\ SaidSo(r)'
    BY <1>1, <1>4, <2>1, <2>2, <2>4, SameHeld, Zenon
  <2>6. RunFits(r)'  BY <2>1, <2>2, <2>5, Zenon DEF RunFits, Underway
  <2> QED  BY <1>1, <2>1, <2>2, <2>3, <2>6, RunGoesOn, Zenon
<1>7. \/ /\ task_runs' = [task_runs EXCEPT ![r] = Answered(task_runs[r], id)] /\ stored' = stored
         /\ TheRunConsentedTo(task_runs[r].facts, id) /\ SamePolicyAndBuild(task_runs[r].facts, id)
         /\ ApprovalHolds(id)
      \/ /\ task_runs' = [task_runs EXCEPT ![r] = Refused(task_runs[r], id)]
         /\ \/ stored' = stored
            \/ stored[id].state \in {"open", "approved"} /\ stored' = [stored EXCEPT ![id].state = "void"]
  BY Zenon DEF JudgeTask
<1> QED  BY <1>5, <1>6, <1>7, JudgedAgrees, Zenon

\* The store moves an approved task to a run.
LEMMA MovedOnce ==
    ASSUME StoreShape, NEW id \in DOMAIN stored, NEW r, stored[id].state = "approved",
           stored' = [stored EXCEPT ![id] = [state |-> "answering", run |-> r]], UNCHANGED <<sealed, approval>>
    PROVE  /\ StoreGoesOn /\ StoreShape' /\ stored'[id].state = "answering" /\ stored'[id].run = r
           /\ \A x \in DOMAIN stored : x # id => stored'[x] = stored[x]
<1> DEFINE e == [state |-> "answering", run |-> r]
<1>1. e.state = "answering" /\ e.run = r /\ DOMAIN e = {"state", "run"}  BY Zenon
<1> HIDE DEF e
<1>2. stored' = [stored EXCEPT ![id] = e]  BY Zenon DEF e
<1>3. /\ DOMAIN stored' = DOMAIN stored /\ stored'[id] = e
      /\ \A x \in DOMAIN stored : x # id => stored'[x] = stored[x]
  BY <1>2, Zenon
<1>4. "approved" \in Untaken /\ "answering" # "open" /\ "answering" # "approved"  BY Zenon DEF Untaken
<1>5. StoreGoesOn
  <2>1. SUFFICES ASSUME NEW x \in DOMAIN stored
                 PROVE  /\ stored[x].state # "open" => stored'[x].state # "open"
                        /\ stored[x].state \notin Untaken => stored'[x].state \notin Untaken /\ stored'[x].run = stored[x].run
    BY <1>3, Zenon DEF StoreGoesOn
  <2>2. CASE x = id  BY <1>1, <1>3, <1>4, <2>2, Zenon
  <2>3. CASE x # id  BY <1>3, <2>3, Zenon
  <2> QED  BY <2>2, <2>3, Zenon
<1>6. StoreShape'
  <2>1. \A x \in DOMAIN stored' : DOMAIN stored'[x] = {"state", "run"}  BY <1>1, <1>3, Zenon DEF StoreShape
  <2>2. \A x \in DOMAIN stored' : stored'[x].state = "approved" => x \in DOMAIN approval'
    BY <1>1, <1>3, <1>4, Zenon DEF StoreShape
  <2> QED  BY <1>3, <2>1, <2>2, Zenon DEF StoreShape
<1> QED  BY <1>1, <1>3, <1>5, <1>6, Zenon

\* The task a run is handed is the only one of its id that was ever handed.
LEMMA HandingFits ==
    ASSUME TasksInv, sealed' = sealed, approval' = approval, StoreGoesOn, RunsGoOn,
           NEW r \in DOMAIN task_runs, NEW id \in DOMAIN stored, stored[id].state = "approved",
           id \in DOMAIN approval, NEW at, Agreed(task_runs[r].facts, id, at),
           stored'[id].state = "answering", stored'[id].run = r,
           handed' = handed \cup {[task |-> id, run |-> r, at |-> at]}
    PROVE  HandedFits'
<1> DEFINE n == [task |-> id, run |-> r, at |-> at]
<1>1. n.task = id /\ n.run = r /\ n.at = at  BY Zenon
<1> HIDE DEF n
<1>2. handed' = handed \cup {n}  BY Zenon DEF n
<1>3. SealedGoesOn /\ HandedFits /\ StoreShape  BY Zenon DEF SealedGoesOn, TasksInv
<1>4. "approved" \in Untaken /\ "answering" \notin Untaken  BY Zenon DEF Untaken
<1>5. \A h \in handed : h.task # id  BY <1>3, <1>4, Zenon DEF HandedFits
<1>6. SUFFICES ASSUME NEW h \in handed'
               PROVE  /\ h.task \in DOMAIN stored' /\ h.run \in DOMAIN task_runs' /\ h.task \in DOMAIN approval'
                      /\ Agreed(task_runs[h.run].facts, h.task, h.at)'
                      /\ stored'[h.task].state \notin Untaken /\ stored'[h.task].run = h.run
                      /\ \A other \in handed' : other.task = h.task => other = h
  BY Zenon DEF HandedFits
<1>7. CASE h \in handed
  <2>1. /\ h.task \in DOMAIN stored /\ h.run \in DOMAIN task_runs /\ h.task \in DOMAIN approval
        /\ Agreed(task_runs[h.run].facts, h.task, h.at)
        /\ stored[h.task].state \notin Untaken /\ stored[h.task].run = h.run
        /\ \A other \in handed : other.task = h.task => other = h
    BY <1>3, <1>7, Zenon DEF HandedFits
  <2>2. stored[h.task].state # "open"  BY <2>1, Zenon DEF Untaken
  <2>3. \A facts, t : Agreed(facts, h.task, t) => Agreed(facts, h.task, t)'
    BY <1>3, <2>1, <2>2, AgreedStands, Zenon
  <2>4. Agreed(task_runs[h.run].facts, h.task, h.at)'  BY <2>1, <2>3, Zenon DEF Agreed, RunsGoOn
  <2>5. \A other \in handed' : other.task = h.task => other = h  BY <1>1, <1>2, <1>5, <1>7, <2>1, Zenon
  <2> QED  BY <2>1, <2>2, <2>4, <2>5, Zenon DEF StoreGoesOn, RunsGoOn
<1>8. CASE h = n
  <2>1. h.task = id /\ h.run = r /\ h.at = at  BY <1>1, <1>8, Zenon
  <2>2. Agreed(task_runs[h.run].facts, h.task, h.at)'
    <3>1. \A v, x, t : v = r /\ x = id /\ t = at => Agreed(task_runs[v].facts, x, t)'
      BY Zenon DEF Agreed, RunsGoOn
    <3> QED  BY <2>1, <3>1, Zenon
  <2>3. \A other \in handed' : other.task = h.task => other = h  BY <1>2, <1>5, <1>8, <2>1, Zenon
  <2> QED  BY <1>4, <2>1, <2>2, <2>3, Zenon DEF StoreGoesOn, RunsGoOn
<1> QED  BY <1>2, <1>6, <1>7, <1>8, Zenon

\* What a run holds after the store was asked to move a task to it.
AfterMove(h, r, id) ==
    /\ DOMAIN h = HostFields /\ h.facts = task_runs[r].facts /\ h.opened = task_runs[r].opened
    /\ h.devices = task_runs[r].devices /\ h.ended = task_runs[r].ended /\ h.doing = Unset
    /\ h.conversation \in {task_runs[r].conversation, sealed[id].thread, Several}
    /\ h.answered \in {task_runs[r].answered, Drop(task_runs[r].answered, id)}

\* The store was asked, whatever came of it.
LEMMA AskedKeeps ==
    ASSUME TasksInv, NEW r \in DOMAIN task_runs, NEW id \in DOMAIN stored, InStep(r, "move", id),
           UNCHANGED <<sealed, approval, said>>, StoreGoesOn, StoreShape', HandedFits' \/ handed' = handed,
           NEW h, AfterMove(h, r, id), task_runs' = [task_runs EXCEPT ![r] = h],
           \A x \in DOMAIN stored : stored'[x].state = "done" =>
              stored[x].state = "done" /\ stored'[x].run = stored[x].run
    PROVE  TasksInv'
<1>1. RunFits(r) /\ RunsAreSeq /\ StoreShape  BY Zenon DEF TasksInv, RunsInv
<1>2. /\ DOMAIN h = HostFields /\ h.facts = task_runs[r].facts /\ h.opened = task_runs[r].opened
      /\ h.devices = task_runs[r].devices /\ h.ended = task_runs[r].ended /\ h.doing = Unset
  BY Zenon DEF AfterMove
<1>3. /\ task_runs[r].ended = Unset /\ sealed[id].owner = FirstRow(r).owner
      /\ sealed[id].preparer = task_runs[r].facts.caller /\ id \in DOMAIN sealed
  BY <1>1, Zenon DEF InStep, RunFits, Underway, Agreed, StoreShape
<1>4. SealedGoesOn  BY Zenon DEF SealedGoesOn
<1>5. task_runs'[r] = h  BY <1>1, OneRun, Zenon
<1>6. h.opened \in Nat  BY <1>1, <1>2, Zenon DEF RunFits, HostShape
<1>7. HostShape(r)' /\ FirstRow(r)' = FirstRow(r) /\ OwnDevices(r)'
  BY <1>2, <1>4, <1>5, <1>6, SameHeld, Zenon
<1>8. OwnThread(r)'
  <2>1. h.conversation \notin {Unset, Several} =>
           \E x \in DOMAIN sealed : /\ sealed[x].thread = h.conversation /\ sealed[x].owner = FirstRow(r).owner
                                    /\ sealed[x].preparer = task_runs[r].facts.caller
    <3>1. CASE h.conversation = task_runs[r].conversation  BY <1>1, <3>1, Zenon DEF RunFits, OwnThread
    <3>2. CASE h.conversation = sealed[id].thread  BY <1>3, <3>2, Zenon
    <3>3. CASE h.conversation = Several  BY <3>3, Zenon
    <3> QED  BY <3>1, <3>2, <3>3, Zenon DEF AfterMove
  <2> QED  BY <1>2, <1>5, <1>7, <2>1, Zenon DEF OwnThread
<1>9. SaidSo(r)'
  <2>1. \A x \in DOMAIN h.answered : x \in DOMAIN task_runs[r].answered /\ h.answered[x] = task_runs[r].answered[x]
    BY Zenon DEF AfterMove, Drop
  <2> QED  BY <1>1, <1>5, <2>1, Zenon DEF RunFits, SaidSo
<1>10. RunFits(r)'  BY <1>2, <1>5, <1>7, <1>8, <1>9, Zenon DEF RunFits, Underway
<1> QED  BY <1>2, <1>3, <1>10, RunGoesOn, Zenon

\* The fields of the run that asked, whichever the answer.
LEMMA AfterMoveFields ==
    ASSUME TasksInv, NEW r \in DOMAIN task_runs, NEW id, NEW host, host = [task_runs[r] EXCEPT !.doing = Unset]
    PROVE  /\ AfterMove(host, r, id)
           /\ AfterMove([host EXCEPT !.answered = Drop(@, id)], r, id)
           /\ AfterMove([host EXCEPT !.conversation = ContinueThread(@, sealed[id].thread)], r, id)
<1>1. DOMAIN task_runs[r] = HostFields  BY Zenon DEF TasksInv, RunsInv, RunFits, HostShape
<1>2. /\ DOMAIN host = HostFields /\ host.facts = task_runs[r].facts /\ host.opened = task_runs[r].opened
      /\ host.devices = task_runs[r].devices /\ host.ended = task_runs[r].ended /\ host.doing = Unset
      /\ host.conversation = task_runs[r].conversation /\ host.answered = task_runs[r].answered
  BY <1>1, Zenon DEF HostFields
<1>3. AfterMove(host, r, id)  BY <1>2, Zenon DEF AfterMove
<1>4. AfterMove([host EXCEPT !.answered = Drop(@, id)], r, id)
  <2> DEFINE h == [host EXCEPT !.answered = Drop(@, id)]
  <2>1. /\ DOMAIN h = HostFields /\ h.facts = host.facts /\ h.opened = host.opened /\ h.devices = host.devices
        /\ h.ended = host.ended /\ h.doing = host.doing /\ h.conversation = host.conversation
        /\ h.answered = Drop(host.answered, id)
    BY <1>2, Zenon DEF HostFields
  <2> HIDE DEF h
  <2>2. AfterMove(h, r, id)  BY <1>2, <2>1, Zenon DEF AfterMove
  <2> QED  BY <2>2, Zenon DEF h
<1>5. AfterMove([host EXCEPT !.conversation = ContinueThread(@, sealed[id].thread)], r, id)
  <2> DEFINE h == [host EXCEPT !.conversation = ContinueThread(@, sealed[id].thread)]
  <2>1. /\ DOMAIN h = HostFields /\ h.facts = host.facts /\ h.opened = host.opened /\ h.devices = host.devices
        /\ h.ended = host.ended /\ h.doing = host.doing /\ h.answered = host.answered
        /\ h.conversation = ContinueThread(host.conversation, sealed[id].thread)
    BY <1>2, Zenon DEF HostFields
  <2> HIDE DEF h
  <2>2. h.conversation \in {sealed[id].thread, Several}  BY <2>1, Zenon DEF ContinueThread
  <2>3. AfterMove(h, r, id)  BY <1>2, <2>1, <2>2, Zenon DEF AfterMove
  <2> QED  BY <2>3, Zenon DEF h
<1> QED  BY <1>3, <1>4, <1>5, Zenon

\* A task is moved and handed over, or moved unheard of, or not moved.
LEMMA TakeKeeps ==
    ASSUME TasksInv, NEW r \in DOMAIN task_runs, NEW id \in DOMAIN stored, NEW how, TakeTask(r, id, how)
    PROVE  TasksInv'
<1> DEFINE host == [task_runs[r] EXCEPT !.doing = Unset]
           moved == [stored EXCEPT ![id] = [state |-> "answering", run |-> r]]
<1>1. InStep(r, "move", id) /\ UNCHANGED <<sealed, approval, said>>  BY Zenon DEF TakeTask
<1>2. PICK h : /\ task_runs' = [task_runs EXCEPT ![r] = h] /\ AfterMove(h, r, id)
               /\ \/ stored' = stored /\ handed' = handed
                  \/ stored[id].state = "approved" /\ stored' = moved /\ handed' = handed
                  \/ /\ stored[id].state = "approved" /\ stored' = moved
                     /\ handed' = handed \cup {[task |-> id, run |-> r, at |-> task_runs[r].doing.judged]}
  <2>1. /\ AfterMove(host, r, id) /\ AfterMove([host EXCEPT !.answered = Drop(@, id)], r, id)
        /\ AfterMove([host EXCEPT !.conversation = ContinueThread(@, sealed[id].thread)], r, id)
    BY AfterMoveFields, Zenon
  <2> DEFINE moves == stored[id].state = "approved" /\ how # "lost"
  <2>2. CASE moves /\ how = "replied"
    <3>1. /\ stored[id].state = "approved" /\ stored' = moved
          /\ task_runs' = [task_runs EXCEPT ![r] =
                              [host EXCEPT !.conversation = ContinueThread(@, sealed[id].thread)]]
          /\ handed' = handed \cup {[task |-> id, run |-> r, at |-> task_runs[r].doing.judged]}
      BY <2>2, Zenon DEF TakeTask
    <3> QED  BY <2>1, <3>1, Zenon
  <2>3. CASE moves /\ how # "replied"
    <3>1. /\ stored[id].state = "approved" /\ stored' = moved
          /\ task_runs' = [task_runs EXCEPT ![r] = host] /\ handed' = handed
      BY <2>3, Zenon DEF TakeTask
    <3> QED  BY <2>1, <3>1, Zenon
  <2>4. CASE ~moves
    <3>1. /\ stored' = stored /\ handed' = handed
          /\ \/ task_runs' = [task_runs EXCEPT ![r] = host]
             \/ task_runs' = [task_runs EXCEPT ![r] = [host EXCEPT !.answered = Drop(@, id)]]
      BY <2>4, Zenon DEF TakeTask
    <3> QED  BY <2>1, <3>1, Zenon
  <2> QED  BY <2>2, <2>3, <2>4, Zenon
<1>3. CASE stored' = stored /\ handed' = handed  BY <1>1, <1>2, <1>3, StoreAlone, AskedKeeps, Zenon
<1>4. CASE stored[id].state = "approved" /\ stored' = moved
  <2>1. StoreShape /\ RunFits(r) /\ RunsAreSeq  BY Zenon DEF TasksInv, RunsInv
  <2>2. /\ StoreGoesOn /\ StoreShape' /\ stored'[id].state = "answering" /\ stored'[id].run = r
        /\ \A x \in DOMAIN stored : x # id => stored'[x] = stored[x]
    BY <1>1, <1>4, <2>1, MovedOnce, Zenon
  <2>3. \A x \in DOMAIN stored : stored'[x].state = "done" => stored[x].state = "done" /\ stored'[x].run = stored[x].run
    BY <2>2, Zenon
  <2>4. RunsGoOn
    <3>1. h.facts = task_runs[r].facts  BY <1>2, Zenon DEF AfterMove
    <3>2. /\ DOMAIN task_runs' = DOMAIN task_runs /\ task_runs'[r] = h
          /\ \A v \in DOMAIN task_runs : v # r => task_runs'[v] = task_runs[v]
      BY <1>2, <2>1, OneRun, Zenon
    <3> QED  BY <3>1, <3>2, Zenon DEF RunsGoOn
  <2>5. HandedFits' \/ handed' = handed
    <3>1. id \in DOMAIN approval /\ Agreed(task_runs[r].facts, id, task_runs[r].doing.judged)
      BY <1>1, <2>1, Zenon DEF InStep, RunFits, Underway
    <3>2. CASE handed' = handed \cup {[task |-> id, run |-> r, at |-> task_runs[r].doing.judged]}
      BY <1>1, <1>4, <2>2, <2>4, <3>1, <3>2, HandingFits, Zenon
    <3> QED  BY <1>2, <3>2, Zenon
  <2> QED  BY <1>1, <1>2, <2>2, <2>3, <2>5, AskedKeeps, Zenon
<1> QED  BY <1>2, <1>3, <1>4, Zenon

\* The devices read under a row are its owner's.
LEMMA OwnersDevices ==
    ASSUME TasksInv, NEW r \in DOMAIN task_runs, NEW at
    PROVE  \A d \in DevicesRead(task_runs[r], at) : d.owner = task_runs[r].facts.rows[at].owner
<1>1. OwnDevices(r)  BY Zenon DEF TasksInv, RunsInv, RunFits
<1>2. CASE at = 1 /\ task_runs[r].devices # Unset  BY <1>1, <1>2, Zenon DEF DevicesRead, OwnDevices, FirstRow
<1>3. CASE ~(at = 1 /\ task_runs[r].devices # Unset)  BY <1>3, Zenon DEF DevicesRead, InForce
<1> QED  BY <1>2, <1>3, Zenon

\* What a run holds after a call that may have read its owner's devices and opened a task.
AfterReading(h, r, opened) ==
    /\ DOMAIN h = HostFields /\ h.facts = task_runs[r].facts /\ h.opened = opened
    /\ h.devices \in {task_runs[r].devices, DevicesRead(task_runs[r], 1)}
    /\ h.conversation = task_runs[r].conversation /\ h.answered = task_runs[r].answered
    /\ h.ended = task_runs[r].ended /\ h.doing = Unset

\* Such a run holds what it should.
LEMMA ReadingFits ==
    ASSUME TasksInv, SealedGoesOn, said' = said, NEW r \in DOMAIN task_runs, NEW opened \in Nat,
           NEW h, AfterReading(h, r, opened), task_runs'[r] = h
    PROVE  RunFits(r)'
<1>1. /\ DOMAIN h = HostFields /\ h.facts = task_runs[r].facts /\ h.opened = opened
      /\ h.conversation = task_runs[r].conversation /\ h.answered = task_runs[r].answered /\ h.doing = Unset
  BY Zenon DEF AfterReading
<1>2. HostShape(r)' /\ FirstRow(r)' = FirstRow(r) /\ OwnThread(r)' /\ SaidSo(r)'  BY <1>1, SameHeld, Zenon
<1>3. OwnDevices(r)'
  <2>1. CASE h.devices = task_runs[r].devices  BY <1>1, <2>1, SameHeld, Zenon
  <2>2. CASE h.devices = DevicesRead(task_runs[r], 1)
    <3>1. \A d \in h.devices : d.owner = FirstRow(r).owner  BY <2>2, OwnersDevices, Zenon DEF FirstRow
    <3> QED  BY <1>2, <3>1, Zenon DEF OwnDevices
  <2> QED  BY <2>1, <2>2, Zenon DEF AfterReading
<1> QED  BY <1>1, <1>2, <1>3, Zenon DEF RunFits, Underway

\* A call that reads devices leaves such a run.
LEMMA CalledReading ==
    ASSUME TasksInv, NEW r \in DOMAIN task_runs, task_runs[r].doing = Unset, NEW opened, NEW devices,
           devices \in {task_runs[r].devices, DevicesRead(task_runs[r], 1)},
           NEW host, DOMAIN host = HostFields, host.opened = opened, host.devices = devices,
           \A f \in HostFields \ {"opened", "devices"} : host[f] = task_runs[r][f], Called(r, host)
    PROVE  \E h : task_runs' = [task_runs EXCEPT ![r] = h] /\ AfterReading(h, r, opened)
<1>1. /\ host.facts = task_runs[r].facts /\ host.conversation = task_runs[r].conversation
      /\ host.answered = task_runs[r].answered /\ host.doing = Unset /\ host.ended = task_runs[r].ended
  BY Zenon DEF HostFields
<1>2. PICK h : task_runs' = [task_runs EXCEPT ![r] = h] /\ SameButCalls(h, host)  BY CalledAs, Zenon
<1>3. AfterReading(h, r, opened)  BY <1>1, <1>2, Zenon DEF AfterReading, SameButCalls
<1> QED  BY <1>2, <1>3, Zenon

\* An owner's run seals the waiting tasks to the owner's devices.
LEMMA UnlockKeeps == ASSUME TasksInv, NEW r \in DOMAIN task_runs, Unlock(r) PROVE TasksInv'
<1> DEFINE devices == DevicesRead(task_runs[r], 1)
           host == [task_runs[r] EXCEPT !.devices = devices]
           waiting == {id \in DOMAIN stored : /\ sealed[id].owner = FirstRow(r).owner
                                              /\ stored[id].state \in {"open", "approved"}
                                              /\ clock < sealed[id].expires_at}
<1>1. /\ task_runs[r].ended = Unset /\ task_runs[r].doing = Unset /\ Called(r, host)
      /\ sealed' = [id \in DOMAIN sealed |->
                      IF id \in waiting THEN [sealed[id] EXCEPT !.copies = @ \cup devices] ELSE sealed[id]]
      /\ UNCHANGED <<stored, approval, handed, said>>
  BY Zenon DEF Unlock, Enters, taskHistory
<1>2. RunFits(r) /\ RunsAreSeq /\ StoreShape  BY Zenon DEF TasksInv, RunsInv
<1>3. /\ DOMAIN host = HostFields /\ host.opened = task_runs[r].opened /\ host.devices = devices
      /\ \A f \in HostFields \ {"opened", "devices"} : host[f] = task_runs[r][f]
  BY <1>2, Zenon DEF RunFits, HostShape, HostFields
<1>4. \A id \in waiting : sealed[id].owner = FirstRow(r).owner  BY Zenon
<1>5. \A d \in devices : d.owner = FirstRow(r).owner  BY OwnersDevices, Zenon DEF FirstRow
<1> HIDE DEF host, waiting
<1>6. PICK h : task_runs' = [task_runs EXCEPT ![r] = h] /\ AfterReading(h, r, task_runs[r].opened)
  BY <1>1, <1>3, CalledReading, Zenon
<1> HIDE DEF devices
<1>7. /\ DOMAIN sealed' = DOMAIN sealed
      /\ \A id \in DOMAIN sealed :
            /\ DOMAIN sealed'[id] = TaskFields
            /\ \A f \in TaskFields \ {"copies"} : sealed'[id][f] = sealed[id][f]
            /\ \A d \in sealed'[id].copies : d \in sealed[id].copies \/ (id \in waiting /\ d \in devices)
  <2>1. ASSUME NEW id \in DOMAIN sealed
        PROVE  /\ DOMAIN sealed'[id] = TaskFields
               /\ \A f \in TaskFields \ {"copies"} : sealed'[id][f] = sealed[id][f]
               /\ \A d \in sealed'[id].copies : d \in sealed[id].copies \/ (id \in waiting /\ d \in devices)
    <3>1. DOMAIN sealed[id] = TaskFields /\ "copies" \in TaskFields  BY <1>2, Zenon DEF StoreShape, TaskFields
    <3>2. CASE id \in waiting
      <4>1. sealed'[id] = [sealed[id] EXCEPT !.copies = @ \cup devices]  BY <1>1, <3>2, Zenon
      <4>2. DOMAIN sealed'[id] = TaskFields /\ sealed'[id].copies = sealed[id].copies \cup devices
        BY <3>1, <4>1, Zenon
      <4>3. \A f \in TaskFields \ {"copies"} : sealed'[id][f] = sealed[id][f]  BY <3>1, <4>1, Zenon
      <4> QED  BY <3>2, <4>2, <4>3, Zenon
    <3>3. CASE id \notin waiting
      <4>1. sealed'[id] = sealed[id]  BY <1>1, <3>3, Zenon
      <4> QED  BY <3>1, <4>1, Zenon
    <3> QED  BY <3>2, <3>3, Zenon
  <2> QED  BY <1>1, <2>1, Zenon
<1>8. SealedGoesOn /\ StoreGoesOn /\ StoreShape'
  <2>1. SealedGoesOn  BY <1>7, Zenon DEF SealedGoesOn
  <2>2. StoreGoesOn  BY <1>1, Zenon DEF StoreGoesOn
  <2>3. StoreShape'  BY <1>1, <1>2, <1>7, Zenon DEF StoreShape
  <2> QED  BY <2>1, <2>2, <2>3, Zenon
<1>9. /\ DOMAIN task_runs' = DOMAIN task_runs /\ task_runs'[r] = h
      /\ \A v \in DOMAIN task_runs : v # r => task_runs'[v] = task_runs[v]
  BY <1>2, <1>6, OneRun, Zenon
<1>10. task_runs[r].opened \in Nat  BY <1>2, Zenon DEF RunFits, HostShape
<1>11. RunFits(r)'  BY <1>1, <1>6, <1>8, <1>9, <1>10, ReadingFits, Zenon
<1>12. h.facts = task_runs[r].facts /\ h.opened = task_runs[r].opened /\ h.ended = task_runs[r].ended
  BY <1>6, Zenon DEF AfterReading
<1>13. RunsInv' /\ RunsGoOn  BY <1>1, <1>6, <1>8, <1>11, <1>12, RunStep, Zenon
<1>14. HandedFits'  BY <1>1, <1>8, <1>13, HandedStands, Zenon
<1>15. IdsFit'
  <2>1. \A v \in DOMAIN task_runs : task_runs'[v].ended = Unset =>
           task_runs[v].ended = Unset /\ task_runs'[v].opened \in {task_runs[v].opened, task_runs[v].opened + 1}
    BY <1>9, <1>12, Zenon
  <2> QED  BY <1>7, <1>13, <2>1, IdsStand, Zenon DEF IdsFit
<1>16. DoneAsReported'
  <2>1. \A v \in DOMAIN task_runs : task_runs[v].ended = "well" =>
           v \in DOMAIN task_runs' /\ task_runs'[v].ended = "well"
    BY <1>9, <1>12, Zenon
  <2> QED  BY <1>1, <1>8, <2>1, DoneStands, Zenon
<1>17. ThreadsAreIds'  BY <1>7, <1>8, SealedFields, Zenon DEF TasksInv, ThreadsAreIds
<1>18. OwnersApart'
  <2>1. OwnersApart  BY Zenon DEF TasksInv
  <2>2. ASSUME NEW x \in DOMAIN sealed PROVE \A d \in sealed'[x].copies : d.owner = sealed'[x].owner
    <3>1. sealed'[x].owner = sealed[x].owner  BY <1>8, SealedFields, Zenon
    <3>2. ASSUME NEW d \in sealed'[x].copies PROVE d.owner = sealed[x].owner
      <4>1. CASE d \in sealed[x].copies  BY <2>1, <4>1, Zenon DEF OwnersApart
      <4>2. CASE x \in waiting /\ d \in devices  BY <1>4, <1>5, <4>2, Zenon
      <4> QED  BY <1>7, <3>2, <4>1, <4>2, Zenon
    <3> QED  BY <3>1, <3>2, Zenon
  <2>3. ASSUME NEW x \in DOMAIN sealed, NEW y \in DOMAIN sealed, sealed'[x].thread = sealed'[y].thread
        PROVE  sealed'[x].owner = sealed'[y].owner /\ sealed'[x].preparer = sealed'[y].preparer
    <3>1. \A z \in DOMAIN sealed : /\ sealed'[z].owner = sealed[z].owner /\ sealed'[z].thread = sealed[z].thread
                                   /\ sealed'[z].preparer = sealed[z].preparer
      BY <1>8, SealedFields, Zenon
    <3>2. sealed[x].thread = sealed[y].thread  BY <2>3, <3>1, Zenon
    <3>3. sealed[x].owner = sealed[y].owner /\ sealed[x].preparer = sealed[y].preparer
      BY <2>1, <3>2, Zenon DEF OwnersApart
    <3> QED  BY <3>1, <3>3, Zenon
  <2> QED  BY <1>7, <2>2, <2>3, Zenon DEF OwnersApart
<1> QED  BY <1>8, <1>13, <1>14, <1>15, <1>16, <1>17, <1>18, Zenon DEF TasksInv

\* The task a run seals: the next of its numbers, its owner's and its own conversation's.
Leaves(task, r, at, id) ==
    /\ DOMAIN task = TaskFields
    /\ task.owner = task_runs[r].facts.rows[at].owner /\ task.preparer = task_runs[r].facts.caller
    /\ task.thread = Thread(task_runs[r], at, id) /\ task.copies = DevicesRead(task_runs[r], at)

\* The number a run has reached is no sealed task's.
LEMMA NextIdFresh ==
    ASSUME TasksInv, NEW r \in DOMAIN task_runs, task_runs[r].ended = Unset
    PROVE  <<r, task_runs[r].opened>> \notin DOMAIN sealed
<1> SUFFICES ASSUME NEW id \in DOMAIN sealed, id = <<r, task_runs[r].opened>> PROVE FALSE
  BY Zenon
<1>1. id[1] = r /\ id[2] = task_runs[r].opened  BY Zenon
<1>2. task_runs[r].opened \in Nat  BY Zenon DEF TasksInv, RunsInv, RunFits, HostShape
<1>3. IdFits(id)  BY Zenon DEF TasksInv, IdsFit
<1>4. task_runs[r].opened < task_runs[r].opened  BY <1>1, <1>3, Zenon DEF IdFits
<1> QED  BY <1>2, <1>4

\* A task that is to be sealed as `id` is apart from those of other owners and agents.
KeptApart(task, id) ==
    /\ task.thread = id \/ task.thread \in DOMAIN sealed
    /\ \A d \in task.copies : d.owner = task.owner
    /\ \A y \in DOMAIN sealed : sealed[y].thread = task.thread =>
          sealed[y].owner = task.owner /\ sealed[y].preparer = task.preparer

\* A task of a thread held by a run is of the run's first row and agent.
LEMMA LeavesApart ==
    ASSUME TasksInv, NEW r \in DOMAIN task_runs, NEW id, id \notin DOMAIN sealed, NEW at, NEW task,
           Leaves(task, r, at, id), at # 1 \/ task_runs[r].conversation # Several
    PROVE  KeptApart(task, id)
<1>1. OwnThread(r) /\ ThreadsAreIds /\ OwnersApart  BY Zenon DEF TasksInv, RunsInv, RunFits
<1>2. \A d \in task.copies : d.owner = task.owner  BY OwnersDevices, Zenon DEF Leaves
<1>3. CASE at # 1 \/ task_runs[r].conversation = Unset
  <2>1. task.thread = id  BY <1>3, Zenon DEF Leaves, Thread
  <2> QED  BY <1>1, <1>2, <2>1, Zenon DEF ThreadsAreIds, KeptApart
<1>4. CASE at = 1 /\ task_runs[r].conversation # Unset
  <2>1. task.thread = task_runs[r].conversation /\ task.owner = FirstRow(r).owner
        /\ task.preparer = task_runs[r].facts.caller
    BY <1>4, Zenon DEF Leaves, Thread, FirstRow
  <2>2. PICK x \in DOMAIN sealed : /\ sealed[x].thread = task.thread /\ sealed[x].owner = task.owner
                                   /\ sealed[x].preparer = task.preparer
    BY <1>1, <1>4, <2>1, Zenon DEF OwnThread
  <2>3. task.thread \in DOMAIN sealed  BY <1>1, <2>2, Zenon DEF ThreadsAreIds
  <2>4. ASSUME NEW y \in DOMAIN sealed, sealed[y].thread = task.thread
        PROVE  sealed[y].owner = task.owner /\ sealed[y].preparer = task.preparer
    <3>1. sealed[y].thread = sealed[x].thread  BY <2>2, <2>4, Zenon
    <3>2. sealed[y].owner = sealed[x].owner /\ sealed[y].preparer = sealed[x].preparer
      BY <1>1, <3>1, Zenon DEF OwnersApart
    <3> QED  BY <2>2, <3>2, Zenon
  <2> QED  BY <1>2, <2>3, <2>4, Zenon DEF KeptApart
<1> QED  BY <1>3, <1>4, Zenon

\* A run leaves a task, and the store has it.
LEMMA LeaveKeeps ==
    ASSUME TasksInv, NEW r \in DOMAIN task_runs, task_runs[r].ended = Unset, NEW at,
           at # 1 \/ task_runs[r].conversation # Several, NEW id, id = <<r, task_runs[r].opened>>,
           NEW task, Leaves(task, r, at, id), sealed' = Put(sealed, id, task),
           NEW e, DOMAIN e = {"state", "run"}, e.state = "open", stored' = Put(stored, id, e),
           UNCHANGED <<approval, handed, said>>,
           NEW h, AfterReading(h, r, task_runs[r].opened + 1), task_runs' = [task_runs EXCEPT ![r] = h]
    PROVE  TasksInv'
<1>1. id \notin DOMAIN sealed  BY NextIdFresh, Zenon
<1>2. RunFits(r) /\ RunsAreSeq /\ StoreShape  BY Zenon DEF TasksInv, RunsInv
<1>3. /\ DOMAIN sealed' = DOMAIN sealed \cup {id} /\ sealed'[id] = task
      /\ \A x \in DOMAIN sealed : sealed'[x] = sealed[x]
  BY <1>1, Zenon DEF Put
<1>4. /\ DOMAIN stored' = DOMAIN stored \cup {id} /\ stored'[id] = e
      /\ \A x \in DOMAIN stored : stored'[x] = stored[x]
  BY <1>1, <1>2, Zenon DEF Put, StoreShape
<1>5. SealedGoesOn /\ StoreGoesOn
  <2>1. SealedGoesOn  BY <1>3, Zenon DEF SealedGoesOn
  <2>2. StoreGoesOn  BY <1>4, Zenon DEF StoreGoesOn
  <2> QED  BY <2>1, <2>2, Zenon
<1>6. StoreShape'
  <2>1. DOMAIN stored' = DOMAIN sealed'  BY <1>2, <1>3, <1>4, Zenon DEF StoreShape
  <2>2. \A x \in DOMAIN sealed' : DOMAIN sealed'[x] = TaskFields  BY <1>2, <1>3, Zenon DEF StoreShape, Leaves
  <2>3. \A x \in DOMAIN sealed' : DOMAIN stored'[x] = {"state", "run"}
    BY <1>2, <1>4, <2>1, Zenon DEF StoreShape
  <2>4. \A x \in DOMAIN stored' : stored'[x].state = "approved" => x \in DOMAIN approval'
    BY <1>2, <1>4, Zenon DEF StoreShape
  <2> QED  BY <2>1, <2>2, <2>3, <2>4, Zenon DEF StoreShape
<1>7. /\ DOMAIN task_runs' = DOMAIN task_runs /\ task_runs'[r] = h
      /\ \A v \in DOMAIN task_runs : v # r => task_runs'[v] = task_runs[v]
  BY <1>2, OneRun, Zenon
<1>8. task_runs[r].opened \in Nat /\ task_runs[r].opened + 1 \in Nat
  <2>1. task_runs[r].opened \in Nat  BY <1>2, Zenon DEF RunFits, HostShape
  <2> QED  BY <2>1
<1>9. RunFits(r)'  BY <1>5, <1>7, <1>8, ReadingFits, Zenon
<1>10. h.facts = task_runs[r].facts /\ h.opened = task_runs[r].opened + 1 /\ h.ended = task_runs[r].ended
  BY Zenon DEF AfterReading
<1>11. RunsInv' /\ RunsGoOn  BY <1>5, <1>9, <1>10, RunStep, Zenon
<1>12. HandedFits'  BY <1>5, <1>11, HandedStands, Zenon
<1>13. IdsFit'
  <2>1. \A v \in DOMAIN task_runs : task_runs'[v].ended = Unset =>
           task_runs[v].ended = Unset /\ task_runs'[v].opened \in {task_runs[v].opened, task_runs[v].opened + 1}
    BY <1>7, <1>10, Zenon
  <2>2. \A x \in DOMAIN sealed : IdFits(x)'  BY <1>11, <2>1, IdsStand, Zenon
  <2>3. IdFits(id)'
    <3>1. id[1] = r /\ id[2] = task_runs[r].opened /\ id = <<id[1], id[2]>>  BY Zenon
    <3>2. task_runs[r].opened < task_runs[r].opened + 1  BY <1>8
    <3> QED  BY <1>7, <1>8, <1>10, <3>1, <3>2, Zenon DEF IdFits
  <2> QED  BY <1>3, <2>2, <2>3, Zenon DEF IdsFit
<1>14. DoneAsReported'
  <2>1. \A v \in DOMAIN task_runs : task_runs[v].ended = "well" =>
           v \in DOMAIN task_runs' /\ task_runs'[v].ended = "well"
    BY <1>7, <1>10, Zenon
  <2>2. \A x \in DOMAIN stored' : stored'[x].state = "done" =>
           /\ x \in DOMAIN stored
           /\ sealed[x].kind # "notice" => stored[x].state = "done" /\ stored'[x].run = stored[x].run
    BY <1>4, Zenon
  <2> QED  BY <1>4, <1>5, <2>1, <2>2, DoneStands, Zenon
<1>15. /\ task.thread = id \/ task.thread \in DOMAIN sealed
       /\ \A d \in task.copies : d.owner = task.owner
       /\ \A y \in DOMAIN sealed : sealed[y].thread = task.thread =>
             sealed[y].owner = task.owner /\ sealed[y].preparer = task.preparer
  <2>1. KeptApart(task, id)  BY <1>1, LeavesApart, Zenon
  <2> QED  BY <2>1, Zenon DEF KeptApart
<1>16. ThreadsAreIds'  BY <1>3, <1>15, Zenon DEF TasksInv, ThreadsAreIds
<1>17. OwnersApart'
  <2>1. OwnersApart  BY Zenon DEF TasksInv
  <2>2. \A x \in DOMAIN sealed' : \A d \in sealed'[x].copies : d.owner = sealed'[x].owner
    <3>1. \A x \in DOMAIN sealed : \A d \in sealed[x].copies : d.owner = sealed[x].owner
      BY <2>1, Zenon DEF OwnersApart
    <3>2. ASSUME NEW x \in DOMAIN sealed', NEW d \in sealed'[x].copies PROVE d.owner = sealed'[x].owner
      <4>1. CASE x = id  BY <1>3, <1>15, <3>2, <4>1, Zenon
      <4>2. CASE x \in DOMAIN sealed  BY <1>3, <3>1, <3>2, <4>2, Zenon
      <4> QED  BY <1>3, <4>1, <4>2, Zenon
    <3> QED  BY <3>2, Zenon
  <2>3. ASSUME NEW x \in DOMAIN sealed', NEW y \in DOMAIN sealed', sealed'[x].thread = sealed'[y].thread
        PROVE  sealed'[x].owner = sealed'[y].owner /\ sealed'[x].preparer = sealed'[y].preparer
    <3>1. CASE x = id /\ y = id  BY <3>1, Zenon
    <3>2. CASE x = id /\ y \in DOMAIN sealed  BY <1>3, <1>15, <2>3, <3>2, Zenon
    <3>3. CASE x \in DOMAIN sealed /\ y = id  BY <1>3, <1>15, <2>3, <3>3, Zenon
    <3>4. CASE x \in DOMAIN sealed /\ y \in DOMAIN sealed
      <4>1. sealed[x].thread = sealed[y].thread  BY <1>3, <2>3, <3>4, Zenon
      <4>2. sealed[x].owner = sealed[y].owner /\ sealed[x].preparer = sealed[y].preparer
        BY <2>1, <3>4, <4>1, Zenon DEF OwnersApart
      <4> QED  BY <1>3, <3>4, <4>2, Zenon
    <3> QED  BY <1>3, <3>1, <3>2, <3>3, <3>4, Zenon
  <2> QED  BY <2>2, <2>3, Zenon DEF OwnersApart
<1> QED  BY <1>6, <1>11, <1>12, <1>13, <1>14, <1>16, <1>17, Zenon DEF TasksInv

\* A run opens a task, which may not arrive; the number is taken either way.
LEMMA OpenKeeps ==
    ASSUME TasksInv, NEW r \in DOMAIN task_runs, NEW at, NEW kind, NEW arrives \in BOOLEAN,
           OpenTask(r, at, kind, arrives)
    PROVE  TasksInv'
<1> DEFINE id == <<r, task_runs[r].opened>>
           devices == IF at = 1 THEN DevicesRead(task_runs[r], at) ELSE task_runs[r].devices
           host == [task_runs[r] EXCEPT !.opened = @ + 1,
                                        !.devices = IF at = 1 THEN DevicesRead(task_runs[r], at) ELSE @]
           task == [owner |-> task_runs[r].facts.rows[at].owner, profile |-> task_runs[r].facts.rows[at].profile,
                    preparer |-> task_runs[r].facts.caller, thread |-> Thread(task_runs[r], at, id),
                    kind |-> kind, consent |-> task_runs[r].facts.key, build |-> task_runs[r].facts.build,
                    policy |-> task_runs[r].facts.policy, expires_at |-> clock + Life,
                    copies |-> DevicesRead(task_runs[r], at)]
           e == [state |-> "open", run |-> Unset]
<1>1. /\ task_runs[r].ended = Unset /\ task_runs[r].doing = Unset /\ Called(r, host)
      /\ at # 1 \/ task_runs[r].conversation # Several
      /\ UNCHANGED <<approval, handed, said>>
      /\ \/ sealed' = Put(sealed, id, task) /\ stored' = Put(stored, id, e)
         \/ UNCHANGED <<sealed, stored>>
  BY Zenon DEF OpenTask, Enters, MayOpen, taskHistory
<1>2. RunFits(r) /\ RunsAreSeq /\ StoreShape  BY Zenon DEF TasksInv, RunsInv
<1>3. /\ DOMAIN host = HostFields /\ host.opened = task_runs[r].opened + 1 /\ host.devices = devices
      /\ \A f \in HostFields \ {"opened", "devices"} : host[f] = task_runs[r][f]
  BY <1>2, Zenon DEF RunFits, HostShape, HostFields
<1>4. devices \in {task_runs[r].devices, DevicesRead(task_runs[r], 1)}  BY Zenon
<1> HIDE DEF host, devices
<1>5. PICK h : task_runs' = [task_runs EXCEPT ![r] = h] /\ AfterReading(h, r, task_runs[r].opened + 1)
  BY <1>1, <1>3, <1>4, CalledReading, Zenon
<1>6. CASE sealed' = Put(sealed, id, task) /\ stored' = Put(stored, id, e)
  <2>1. Leaves(task, r, at, id)  BY Zenon DEF Leaves, TaskFields
  <2>2. DOMAIN e = {"state", "run"} /\ e.state = "open"  BY Zenon
  <2> HIDE DEF task, e, id
  <2>3. id = <<r, task_runs[r].opened>>  BY Zenon DEF id
  <2> QED  BY <1>1, <1>5, <1>6, <2>1, <2>2, <2>3, LeaveKeeps, Zenon
<1>7. CASE UNCHANGED <<sealed, stored>>
  <2>1. SealedGoesOn /\ StoreGoesOn /\ StoreShape'  BY <1>1, <1>7, StoreAlone, Zenon
  <2>2. task_runs'[r] = h  BY <1>2, <1>5, OneRun, Zenon
  <2>3. task_runs[r].opened + 1 \in Nat
    <3>1. task_runs[r].opened \in Nat  BY <1>2, Zenon DEF RunFits, HostShape
    <3> QED  BY <3>1
  <2>4. RunFits(r)'  BY <1>1, <1>5, <2>1, <2>2, <2>3, ReadingFits, Zenon
  <2>5. h.facts = task_runs[r].facts /\ h.opened = task_runs[r].opened + 1  BY <1>5, Zenon DEF AfterReading
  <2> QED  BY <1>1, <1>5, <1>7, <2>1, <2>4, <2>5, StoreAlone, RunGoesOn, Zenon
<1> QED  BY <1>1, <1>6, <1>7, Zenon

\* What Append gives is a function.
LEMMA AppendedFunction ==
    ASSUME NEW S, NEW s \in Seq(S), NEW h PROVE Append(s, h) \in [1..(Len(s) + 1) -> S \cup {h}]
<1> DEFINE T == S \cup {h}
<1>1. S \subseteq T /\ h \in T  BY Zenon
<1> HIDE DEF T
<1>2. Len(s) \in Nat /\ s \in [1..Len(s) -> S]  OBVIOUS
<1>3. s \in [1..Len(s) -> T]  BY <1>1, <1>2, Zenon
<1>4. s \in Seq(T)  BY <1>2, <1>3, FunctionIsSeq, Zenon
<1>5. Append(s, h) \in Seq(T) /\ Len(Append(s, h)) = Len(s) + 1
  <2> HIDE DEF T
  <2>1. h \in T  BY <1>1, Zenon
  <2> QED  BY <1>4, <2>1
<1>6. Append(s, h) \in [1..(Len(s) + 1) -> T]
  <2>1. \A t \in Seq(T) : t \in [1..Len(t) -> T]  OBVIOUS
  <2> QED  BY <1>5, <2>1, Zenon
<1> QED  BY <1>6, Zenon DEF T

\* A run is appended.
LEMMA OneMore ==
    ASSUME RunsAreSeq, NEW h, task_runs' = Append(task_runs, h)
    PROVE  LET n == Len(task_runs) + 1
           IN /\ RunsAreSeq' /\ n \notin DOMAIN task_runs /\ DOMAIN task_runs' = DOMAIN task_runs \cup {n}
              /\ task_runs'[n] = h /\ \A v \in DOMAIN task_runs : task_runs'[v] = task_runs[v]
<1> DEFINE S == {task_runs[v] : v \in DOMAIN task_runs}
           T == {task_runs'[v] : v \in DOMAIN task_runs'}
           n == Len(task_runs) + 1
<1>1. task_runs \in Seq(S)  BY Zenon DEF RunsAreSeq
<1> HIDE DEF S
<1>2. Len(task_runs) \in Nat /\ DOMAIN task_runs = 1..Len(task_runs)  BY <1>1
<1>3. /\ DOMAIN task_runs' = 1..n /\ task_runs'[n] = h
      /\ \A v \in DOMAIN task_runs : task_runs'[v] = task_runs[v]
  BY <1>1, <1>2
<1>4. n \notin DOMAIN task_runs /\ DOMAIN task_runs' = DOMAIN task_runs \cup {n} /\ n \in Nat  BY <1>2, <1>3
<1> HIDE DEF n
<1>5. \A v \in DOMAIN task_runs' : task_runs'[v] \in T  BY Zenon
<1> HIDE DEF T
<1>6. task_runs' = [v \in DOMAIN task_runs' |-> task_runs'[v]]
  <2>1. task_runs' \in [1..(Len(task_runs) + 1) -> S \cup {h}]  BY <1>1, AppendedFunction, Zenon
  <2> QED  BY <2>1, Zenon
<1>7. task_runs' \in [1..n -> T]  BY <1>3, <1>5, <1>6, Zenon
<1>8. task_runs' \in Seq(T)  BY <1>4, <1>7, FunctionIsSeq, Zenon
<1> QED  BY <1>3, <1>4, <1>8, Zenon DEF RunsAreSeq, T, n

\* A run starts, and holds nothing.
LEMMA StartKeeps == ASSUME TasksInv, NEW plan, StartTaskRun(plan) PROVE TasksInv'
<1> DEFINE h == NewHost(plan[Len(task_runs) + 1])
           n == Len(task_runs) + 1
<1>1. task_runs' = Append(task_runs, h) /\ UNCHANGED <<sealed, stored, approval, handed, said>>
  BY Zenon DEF StartTaskRun, storeVars, taskHistory
<1>2. /\ DOMAIN h = HostFields /\ h.opened = 0 /\ h.devices = Unset /\ h.conversation = Unset
      /\ h.answered = EmptyMap /\ h.doing = Unset
  BY Zenon DEF NewHost, HostFields
<1> HIDE DEF h
<1>3. /\ RunsAreSeq' /\ n \notin DOMAIN task_runs /\ DOMAIN task_runs' = DOMAIN task_runs \cup {n}
      /\ task_runs'[n] = h /\ \A v \in DOMAIN task_runs : task_runs'[v] = task_runs[v]
  BY <1>1, OneMore, Zenon DEF TasksInv, RunsInv
<1>4. SealedGoesOn /\ StoreGoesOn /\ StoreShape' /\ RunsGoOn
  <2>1. RunsGoOn  BY <1>3, Zenon DEF RunsGoOn
  <2> QED  BY <1>1, <2>1, StoreAlone, Zenon
<1>5. RunsInv'
  <2>1. ASSUME NEW v \in DOMAIN task_runs PROVE RunFits(v)'  BY <1>1, <1>3, <1>4, OtherRunFits, Zenon
  <2>2. \A v : v = n => RunFits(v)'
    <3>1. 0 \in Nat  BY Zenon
    <3> HIDE DEF n
    <3>2. SUFFICES ASSUME NEW v, v = n PROVE RunFits(v)'  BY Zenon
    <3>3. task_runs'[v] = h  BY <1>3, <3>2, Zenon
    <3>4. HostShape(v)' /\ OwnDevices(v)' /\ OwnThread(v)' /\ Underway(v)'
      BY <1>2, <3>1, <3>3, Zenon DEF HostShape, OwnDevices, OwnThread, Underway
    <3>5. SaidSo(v)'  BY <1>2, <3>3, Zenon DEF SaidSo, EmptyMap
    <3> QED  BY <3>4, <3>5, Zenon DEF RunFits
  <2> HIDE DEF n
  <2> QED  BY <1>3, <2>1, <2>2, Zenon DEF RunsInv
<1>6. HandedFits'  BY <1>1, <1>4, HandedStands, Zenon
<1>7. IdsFit'
  <2>1. \A v \in DOMAIN task_runs : task_runs'[v].ended = Unset =>
           task_runs[v].ended = Unset /\ task_runs'[v].opened \in {task_runs[v].opened, task_runs[v].opened + 1}
    BY <1>3, Zenon
  <2> QED  BY <1>1, <1>4, <2>1, IdsStand, Zenon DEF IdsFit
<1>8. DoneAsReported'  BY <1>1, <1>3, <1>4, DoneStands, Zenon
<1>9. ThreadsAreIds' /\ OwnersApart'  BY <1>1, Zenon DEF TasksInv, ThreadsAreIds, OwnersApart
<1> QED  BY <1>4, <1>5, <1>6, <1>7, <1>8, <1>9, Zenon DEF TasksInv

\* Before the first run there is nothing.
LEMMA TasksInitInv == TasksInit => TasksInv
<1> SUFFICES ASSUME TasksInit PROVE TasksInv  OBVIOUS
<1>1. /\ task_runs = <<>> /\ DOMAIN task_runs = {} /\ DOMAIN sealed = {} /\ DOMAIN stored = {} /\ handed = {}
  BY DEF TasksInit, EmptyMap
<1>2. RunsInv
  <2>1. task_runs \in Seq({task_runs[r] : r \in DOMAIN task_runs})
    <3> DEFINE T == {task_runs[r] : r \in DOMAIN task_runs}
    <3> HIDE DEF T
    <3>1. task_runs \in Seq(T)  BY <1>1
    <3> QED  BY <3>1, Zenon DEF T
  <2> QED  BY <1>1, <2>1, Zenon DEF RunsInv, RunsAreSeq
<1>3. StoreShape /\ IdsFit /\ ThreadsAreIds  BY <1>1, Zenon DEF StoreShape, IdsFit, ThreadsAreIds
<1>4. OwnersApart /\ HandedFits /\ DoneAsReported  BY <1>1, Zenon DEF OwnersApart, HandedFits, DoneAsReported
<1> QED  BY <1>2, <1>3, <1>4, Zenon DEF TasksInv

\* A step of a run keeps the invariant.
LEMMA RunStepsKeep ==
    ASSUME TasksInv, NEW r \in DOMAIN task_runs,
           \/ \E at \in DOMAIN task_runs[r].facts.rows, kind \in {"confirm", "notice"}, arrives \in BOOLEAN :
                 OpenTask(r, at, kind, arrives)
           \/ \E id \in DOMAIN stored :
                 \/ ReadApproved(r, id)
                 \/ \E suits, opens, told \in BOOLEAN : JudgeTask(r, id, suits, opens, told)
                 \/ \E how \in {"replied", "unheard", "lost"} : TakeTask(r, id, how)
                 \/ \E word \in {"carried_out", "not_carried_out"} : ReportTask(r, id, word)
                 \/ CancelTask(r, id)
           \/ \E success, told \in BOOLEAN : EndTaskRun(r, success, told)
           \/ LoseTaskRun(r) \/ Unlock(r) \/ Consult(r)
    PROVE  TasksInv'
<1>1. CASE \E at \in DOMAIN task_runs[r].facts.rows, kind \in {"confirm", "notice"}, arrives \in BOOLEAN :
              OpenTask(r, at, kind, arrives)
  BY <1>1, OpenKeeps, Zenon
<1>2. ASSUME NEW id \in DOMAIN stored, ReadApproved(r, id) PROVE TasksInv'  BY <1>2, ReadKeeps, Zenon
<1>3. ASSUME NEW id \in DOMAIN stored, \E suits, opens, told \in BOOLEAN : JudgeTask(r, id, suits, opens, told)
      PROVE  TasksInv'
  BY <1>3, JudgeKeeps, Zenon
<1>4. ASSUME NEW id \in DOMAIN stored, \E how \in {"replied", "unheard", "lost"} : TakeTask(r, id, how)
      PROVE  TasksInv'
  BY <1>4, TakeKeeps, Zenon
<1>5. ASSUME NEW id \in DOMAIN stored, \E word \in {"carried_out", "not_carried_out"} : ReportTask(r, id, word)
      PROVE  TasksInv'
  BY <1>5, ReportKeeps, Zenon
<1>6. ASSUME NEW id \in DOMAIN stored, CancelTask(r, id) PROVE TasksInv'  BY <1>6, CancelKeeps, Zenon
<1>7. CASE \E success, told \in BOOLEAN : EndTaskRun(r, success, told)  BY <1>7, EndKeeps, Zenon
<1>8. CASE LoseTaskRun(r) \/ Unlock(r) \/ Consult(r)  BY <1>8, LoseKeeps, UnlockKeeps, ConsultKeeps, Zenon
<1> QED  BY <1>1, <1>2, <1>3, <1>4, <1>5, <1>6, <1>7, <1>8, Zenon

\* The clock ticks, a key is rotated, or nothing happens.
LEMMA OutsideKeeps ==
    ASSUME TasksInv, UNCHANGED <<task_runs, sealed, stored, approval, handed, said>> PROVE TasksInv'
BY StoreAlone, StoreStep, Zenon

\* The invariant of tasks (worker/src/tasks) holds of every execution.
THEOREM TasksInvAlways == TasksSpec => []TasksInv
<1>1. ASSUME TasksInv, [TasksNext]_tasksVars PROVE TasksInv'
  <2>1. CASE \E plan \in TaskPlans : StartTaskRun(plan)  BY <1>1, <2>1, StartKeeps, Zenon
  <2>2. CASE \E id \in DOMAIN stored : ApproveTask(id) \/ CloseTask(id)
    BY <1>1, <2>2, ApproveKeeps, CloseKeeps, Zenon
  <2>3. CASE \E o \in TaskOwners : RotateOwnerKey(o)
    BY <1>1, <2>3, OutsideKeeps, Zenon DEF RotateOwnerKey, storeVars, taskHistory
  <2>4. CASE TaskTick  BY <1>1, <2>4, OutsideKeeps, Zenon DEF TaskTick, storeVars, taskHistory
  <2>5. CASE UNCHANGED tasksVars
    <3>1. UNCHANGED <<task_runs, sealed, stored, approval, handed, said>>  BY <2>5, Zenon DEF tasksVars
    <3> QED  BY <1>1, <3>1, OutsideKeeps, Zenon
  <2> QED  BY <1>1, <2>1, <2>2, <2>3, <2>4, <2>5, RunStepsKeep, Zenon DEF TasksNext
<1> QED  BY <1>1, TasksInitInv, PTL DEF TasksSpec

\* Tasks are handed, reported and kept apart as the owner approved them, whatever runs come
\* and whichever calls are lost (take_approved, open_as, finish).
THEOREM TasksAlwaysAsApproved == TasksSpec => []TasksAsApproved
<1>1. TasksInv => TasksAsApproved
  <2> SUFFICES ASSUME TasksInv PROVE TasksAsApproved  OBVIOUS
  <2>1. HandedFits /\ OwnersApart /\ DoneAsReported  BY Zenon DEF TasksInv
  <2>2. HandedAsApproved  BY <2>1, Zenon DEF HandedFits, Agreed, HandedAsApproved, Untaken
  <2> QED  BY <2>1, <2>2, Zenon DEF TasksAsApproved
<1> QED  BY <1>1, TasksInvAlways, PTL
=============================================================================
