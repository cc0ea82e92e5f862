------------------------------- MODULE Tasks -------------------------------
(***************************************************************************)
(* Tasks between an agent and an owner (worker/src/tasks): a run leaves a  *)
(* task for the owner of a secret row it named, the owner approves it, and *)
(* a run of the agent that prepared it takes it, acts and reports.         *)
(*                                                                         *)
(* The store is the coordinator's and is external: it moves a task's state *)
(* once, and a call of it may be lost on the way there or on the way back. *)
(* What is sealed in a task is the host's; only copies for devices join it.  *)
(***************************************************************************)
EXTENDS Maps, Integers, Sequences, FiniteSets

CONSTANTS
    TaskPlans,     \* external: the runs that come, in turn: for each what the job path
                   \* established of it, TasksRun
    Devices,       \* external: the statements of devices the store holds
    NoKey,         \* no payment key pays for the run
    Unset,         \* nothing held: devices, conversation, call in progress
    Several,       \* Conversation::Several
    MaxOpens,      \* MAX_OPENS_PER_RUN
    MaxCalls,      \* MAX_CALLS_PER_RUN
    ApprovalAge,   \* APPROVAL_AGE_SECS
    Life,          \* a task's life
    MaxRotations,  \* bound: changes of owners' keys
    MaxClock       \* bound: the clock

ASSUME TasksAssumption == Unset \notin {"well", "badly"}

VARIABLES
    task_runs,     \* TasksHostState and RunReport of each run, in order of their starts
    sealed,        \* the task as sealed, by id <<run, number>>
    stored,        \* external: the store's state of a task, and the run it moved it to
    approval,      \* external: the owner's approval of a task
    owner_key,     \* external: the owner's full-access key on chain
    clock,
    handed,        \* history: the tasks handed to runs, and when
    said           \* history: the last word of a run on a task

tasksVars == <<task_runs, sealed, stored, approval, owner_key, clock, handed, said>>
storeVars == <<sealed, stored, approval>>
taskOutside == <<owner_key, clock>>
taskHistory == <<handed, said>>

TaskOwners == UNION {{f.rows[i].owner : i \in DOMAIN f.rows} : f \in UNION {{p[r] : r \in DOMAIN p} : p \in TaskPlans}}

TasksInit ==
    /\ task_runs = <<>> /\ sealed = EmptyMap /\ stored = EmptyMap /\ approval = EmptyMap
    /\ owner_key = [o \in TaskOwners |-> 1] /\ clock = 0
    /\ handed = {} /\ said = EmptyMap

-----------------------------------------------------------------------------
\* TasksHostState::new and access_of: a run that named no row the keystore
\* opened, or that another account relayed, uses no task.
NewHost(facts) ==
    [facts |-> facts,
     ready |-> facts.rows # <<>> /\ facts.predecessor = facts.caller,
     calls |-> 0, opened |-> 0, devices |-> Unset, conversation |-> Unset,
     answered |-> EmptyMap, refused |-> {}, doing |-> Unset, ended |-> Unset]

StartTaskRun(plan) ==
    /\ Len(task_runs) < Len(plan)
    /\ \A r \in DOMAIN task_runs : task_runs[r].facts = plan[r]
    /\ task_runs' = Append(task_runs, NewHost(plan[Len(task_runs) + 1]))
    /\ UNCHANGED <<storeVars, taskOutside, taskHistory>>

\* enter: one call of the interface, counted, of a run that may use tasks and
\* waits for no other call.
Enters(r) ==
    /\ task_runs[r].ended = Unset /\ task_runs[r].doing = Unset
    /\ task_runs[r].ready /\ task_runs[r].calls < MaxCalls

\* The run after a call that left it as `host`.
Called(r, host) == task_runs' = [task_runs EXCEPT ![r] = [host EXCEPT !.calls = @ + 1]]

FirstRow(r) == task_runs[r].facts.rows[1]

-----------------------------------------------------------------------------
\* devices_in_force: of the owner's statements those within their time whose
\* signer is the account's key on chain.
InForce(owner) == {d \in Devices : /\ d.owner = owner /\ clock < d.valid_until
                                   /\ d.signer = owner_key[owner]}

\* with_row and devices_of_the_run: the first row's devices are read once and
\* held; another row's are read afresh, and the first row's put back after.
DevicesRead(host, at) ==
    IF at = 1 /\ host.devices # Unset THEN host.devices ELSE InForce(host.facts.rows[at].owner)

\* The conversation a task opened for the row `at` continues; a task for
\* another row's owner starts one of its own.
Thread(host, at, id) ==
    IF at # 1 \/ host.conversation = Unset THEN id ELSE host.conversation

\* open_as: who may leave a task, and with what.
MayOpen(host, at, kind) ==
    /\ host.facts.rows[at].by_name \/ host.facts.caller = host.facts.rows[at].owner
    /\ host.opened < MaxOpens
    /\ kind = "notice" \/ host.facts.key # NoKey
    /\ at # 1 \/ host.conversation # Several

\* The number is taken whether the store answered or not.
OpenTask(r, at, kind, arrives) ==
    LET host == task_runs[r]  id == <<r, host.opened>>
    IN /\ Enters(r) /\ MayOpen(host, at, kind)
       /\ Called(r, [host EXCEPT !.opened = @ + 1,
                                 !.devices = IF at = 1 THEN DevicesRead(host, at) ELSE @])
       /\ IF arrives
          THEN /\ sealed' = Put(sealed, id,
                    [owner |-> host.facts.rows[at].owner, profile |-> host.facts.rows[at].profile,
                     preparer |-> host.facts.caller, thread |-> Thread(host, at, id),
                     kind |-> kind, consent |-> host.facts.key, build |-> host.facts.build,
                     policy |-> host.facts.policy, expires_at |-> clock + Life,
                     copies |-> DevicesRead(host, at)])
               /\ stored' = Put(stored, id, [state |-> "open", run |-> Unset])
          ELSE UNCHANGED <<sealed, stored>>
       /\ UNCHANGED <<approval, taskOutside, taskHistory>>

-----------------------------------------------------------------------------
\* answered, as far as the store's first reply: the task read under the first
\* row's owner must be approved.
ReadApproved(r, id) ==
    /\ Enters(r) /\ id \in DOMAIN stored
    /\ sealed[id].owner = FirstRow(r).owner
    /\ sealed[id].kind # "notice" /\ stored[id].state = "approved"
    /\ Called(r, [task_runs[r] EXCEPT !.doing = [step |-> "judge", id |-> id]])
    /\ UNCHANGED <<storeVars, taskOutside, taskHistory>>

\* Consent::refuses: the same payment key, with its wallet and identity, and no
\* more compute than the preparing run allowed.
Consented(consented, key) == key.nonce = consented.nonce /\ key.compute <= consented.compute

\* The checks of take_approved before the policy's: the sealed life, the row,
\* and the run the consent names.  `suits` is what the guest brings: the hash,
\* the operation.
TheRunConsentedTo(facts, id) ==
    /\ clock < sealed[id].expires_at
    /\ sealed[id].profile = facts.rows[1].profile
    /\ facts.caller = sealed[id].preparer
    /\ facts.key # NoKey /\ Consented(sealed[id].consent, facts.key)

SamePolicy(facts, id) == facts.policy = sealed[id].policy
SamePolicyAndBuild(facts, id) ==
    facts.policy = sealed[id].policy /\ facts.build = sealed[id].build

\* approval_holds: dated within the age and before the end of the task's life,
\* by a key that is the owner's on chain now.
ApprovalHolds(id) ==
    /\ approval[id].at >= clock - ApprovalAge
    /\ approval[id].at < sealed[id].expires_at
    /\ approval[id].key = owner_key[sealed[id].owner]

\* RunReport: a refusal is recorded once per task; an answer once, before the
\* store is asked.
Refused(host, id) == [host EXCEPT !.refused = @ \cup {id}, !.doing = Unset]
Answered(host, id) ==
    [host EXCEPT !.answered = IF id \in DOMAIN @ THEN @ ELSE Put(@, id, "unsaid"),
                 !.doing = [step |-> "move", id |-> id, judged |-> clock]]

InStep(r, step, id) ==
    /\ task_runs[r].ended = Unset /\ task_runs[r].doing # Unset
    /\ task_runs[r].doing.step = step /\ task_runs[r].doing.id = id

\* take_approved, as far as the store's move.  A changed policy or build closes
\* the task in the store, if that can be told.  The chain may give no answer,
\* and the supplied, the note or a file may not open: a refusal like another.
JudgeTask(r, id, suits, opens, told) ==
    LET host == task_runs[r]
        run == suits /\ TheRunConsentedTo(host.facts, id)
        void == run /\ ~SamePolicyAndBuild(host.facts, id)
        takes == run /\ ~void /\ ApprovalHolds(id) /\ opens
    IN /\ InStep(r, "judge", id)
       /\ task_runs' = [task_runs EXCEPT ![r] = IF takes THEN Answered(host, id) ELSE Refused(host, id)]
       /\ stored' = IF void /\ told /\ stored[id].state \in {"open", "approved"}
                    THEN [stored EXCEPT ![id].state = "void"] ELSE stored
       /\ UNCHANGED <<sealed, approval, taskOutside, taskHistory>>

\* Conversation::answered
ContinueThread(held, thread) ==
    IF held \in {Unset, thread} THEN thread ELSE Several

\* The move to this run, and what becomes of it: the task handed over; an
\* answer that did not come, the task moved or not, of which the run reports
\* in case; a refusal by name, which is forgotten.
TakeTask(r, id, how) ==
    LET host == [task_runs[r] EXCEPT !.doing = Unset]
        moves == stored[id].state = "approved" /\ how # "lost"
    IN /\ InStep(r, "move", id)
       /\ stored' = IF moves THEN [stored EXCEPT ![id] = [state |-> "answering", run |-> r]] ELSE stored
       /\ IF moves /\ how = "replied"
          THEN /\ task_runs' = [task_runs EXCEPT ![r] =
                    [host EXCEPT !.conversation = ContinueThread(@, sealed[id].thread)]]
               /\ handed' = handed \cup {[task |-> id, run |-> r, at |-> task_runs[r].doing.judged]}
          ELSE /\ task_runs' = [task_runs EXCEPT ![r] =
                    IF ~moves /\ how = "replied" THEN [host EXCEPT !.answered = Drop(@, id)] ELSE host]
               /\ UNCHANGED handed
       /\ UNCHANGED <<sealed, approval, taskOutside, said>>

\* report and report_failure: of a task the run answered; the last word is kept.
ReportTask(r, id, word) ==
    /\ Enters(r) /\ id \in DOMAIN task_runs[r].answered
    /\ Called(r, [task_runs[r] EXCEPT !.answered[id] = word])
    /\ said' = Put(said, <<r, id>>, word)
    /\ UNCHANGED <<storeVars, taskOutside, handed>>

\* cancel, under whichever row the task is: the store withdraws an open task of
\* this preparer.
CancelTask(r, id) ==
    /\ Enters(r) /\ id \in DOMAIN stored /\ stored[id].state = "open"
    /\ sealed[id].preparer = task_runs[r].facts.caller
    /\ \E at \in DOMAIN task_runs[r].facts.rows : task_runs[r].facts.rows[at].owner = sealed[id].owner
    /\ Called(r, task_runs[r])
    /\ stored' = [stored EXCEPT ![id].state = "cancelled"]
    /\ UNCHANGED <<sealed, approval, taskOutside, taskHistory>>

\* unlock: a run of the owner's own seals the waiting tasks to the devices in
\* force; the store writes what is still waiting.
Unlock(r) ==
    LET host == task_runs[r]  devices == DevicesRead(host, 1)
        waiting == {id \in DOMAIN stored : /\ sealed[id].owner = FirstRow(r).owner
                                           /\ stored[id].state \in {"open", "approved"}
                                           /\ clock < sealed[id].expires_at}
    IN /\ Enters(r) /\ host.facts.caller = FirstRow(r).owner
       /\ Called(r, [host EXCEPT !.devices = devices])
       /\ sealed' = [id \in DOMAIN sealed |->
                       IF id \in waiting THEN [sealed[id] EXCEPT !.copies = @ \cup devices] ELSE sealed[id]]
       /\ UNCHANGED <<stored, approval, taskOutside, taskHistory>>

\* mine, status, and any call that is refused: counted, and nothing else.
Consult(r) ==
    /\ Enters(r) /\ Called(r, task_runs[r])
    /\ UNCHANGED <<storeVars, taskOutside, taskHistory>>

-----------------------------------------------------------------------------
\* finish: the tasks whose outcome the report gives as carried out.
CarriedOut(host, id) ==
    id \in DOMAIN host.answered /\ host.answered[id] = "carried_out"

\* External: what the store makes of the report of a run, and of no other run's
\* tasks.
Finished(r, success, id) ==
    LET host == task_runs[r]
    IN IF stored[id].state = "answering" /\ stored[id].run = r
       THEN IF CarriedOut(host, id) /\ success THEN "done" ELSE "failed"
       ELSE IF stored[id].state = "approved" /\ id \in host.refused THEN "failed"
       ELSE stored[id].state

\* The host's state goes with the run.
RunOver(r, how) == task_runs' = [task_runs EXCEPT ![r] = [NewHost(@.facts) EXCEPT !.ended = how]]

\* The job path after the guest exited: the report is sent once, when there is
\* anything to report, and may be lost.
EndTaskRun(r, success, told) ==
    /\ task_runs[r].ended = Unset /\ task_runs[r].doing = Unset
    /\ RunOver(r, IF success THEN "well" ELSE "badly")
    /\ stored' = IF told /\ (task_runs[r].answered # EmptyMap \/ task_runs[r].refused # {})
                 THEN [id \in DOMAIN stored |-> [stored[id] EXCEPT !.state = Finished(r, success, id)]]
                 ELSE stored
    /\ UNCHANGED <<sealed, approval, taskOutside, taskHistory>>

\* The worker is gone, in whatever call the run was.
LoseTaskRun(r) ==
    /\ task_runs[r].ended = Unset
    /\ RunOver(r, "badly")
    /\ UNCHANGED <<storeVars, taskOutside, taskHistory>>

\* External: the owner approves, rejects or reads a task; the store ends one
\* past its life, and one that no run took or finished in time.
ApproveTask(id) ==
    /\ stored[id].state = "open" /\ sealed[id].kind # "notice" /\ clock < sealed[id].expires_at
    /\ stored' = [stored EXCEPT ![id].state = "approved"]
    /\ approval' = Put(approval, id, [at |-> clock, key |-> owner_key[sealed[id].owner]])
    /\ UNCHANGED <<task_runs, sealed, taskOutside, taskHistory>>

CloseTask(id) ==
    /\ \/ /\ stored[id].state = "open"
          /\ stored' = [stored EXCEPT ![id].state = IF sealed[id].kind = "notice" THEN "done" ELSE "rejected"]
       \/ /\ stored[id].state = "open" /\ clock >= sealed[id].expires_at
          /\ stored' = [stored EXCEPT ![id].state = "expired"]
       \/ /\ stored[id].state \in {"approved", "answering"}
          /\ stored' = [stored EXCEPT ![id].state = "failed"]
    /\ UNCHANGED <<task_runs, sealed, approval, taskOutside, taskHistory>>

RotateOwnerKey(o) ==
    /\ Cardinality({p \in TaskOwners : owner_key[p] = 2}) < MaxRotations
    /\ owner_key[o] = 1 /\ owner_key' = [owner_key EXCEPT ![o] = 2]
    /\ UNCHANGED <<task_runs, storeVars, clock, taskHistory>>

TaskTick ==
    /\ clock < MaxClock /\ clock' = clock + 1
    /\ UNCHANGED <<task_runs, storeVars, owner_key, taskHistory>>

TasksNext ==
    \/ \E plan \in TaskPlans : StartTaskRun(plan)
    \/ \E r \in DOMAIN task_runs :
          \/ \E at \in DOMAIN task_runs[r].facts.rows, kind \in {"confirm", "notice"}, arrives \in BOOLEAN :
                OpenTask(r, at, kind, arrives)
          \/ \E id \in DOMAIN stored :
                \/ ReadApproved(r, id)
                \/ \E suits, opens, told \in BOOLEAN : JudgeTask(r, id, suits, opens, told)
                \/ \E how \in {"replied", "unheard", "lost"} : TakeTask(r, id, how)
                \/ \E word \in {"carried_out", "not_carried_out"} : ReportTask(r, id, word)
                \/ CancelTask(r, id)
          \/ \E success, told \in BOOLEAN : EndTaskRun(r, success, told)
          \/ LoseTaskRun(r) \/ Unlock(r) \/ Consult(r)
    \/ \E id \in DOMAIN stored : ApproveTask(id) \/ CloseTask(id)
    \/ \E o \in TaskOwners : RotateOwnerKey(o)
    \/ TaskTick

TasksSpec == TasksInit /\ [][TasksNext]_tasksVars

-----------------------------------------------------------------------------
\* Owners are kept apart, whatever rows a run names and whatever it answered
\* before: a conversation is one owner's and one agent's, and a task's content
\* is sealed to the devices of its own owner.
OwnersApart ==
    \A x \in DOMAIN sealed :
       /\ \A d \in sealed[x].copies : d.owner = sealed[x].owner
       /\ \A y \in DOMAIN sealed : sealed[x].thread = sealed[y].thread =>
             sealed[x].owner = sealed[y].owner /\ sealed[x].preparer = sealed[y].preparer

\* A task is handed to one run, of the agent that prepared it, within the means
\* it consented to, of the build and the policy the owner was shown, on an
\* approval the owner gave within the task's life, and before that life is over.
HandedAsApproved ==
    \A h \in handed :
       LET task == sealed[h.task]  facts == task_runs[h.run].facts
       IN /\ \A other \in handed : other.task = h.task => other = h
          /\ facts.caller = task.preparer /\ facts.build = task.build /\ facts.policy = task.policy
          /\ facts.key # NoKey /\ facts.key.nonce = task.consent.nonce
          /\ facts.key.compute <= task.consent.compute
          /\ h.task \in DOMAIN approval /\ approval[h.task].at >= h.at - ApprovalAge
          /\ h.at < task.expires_at
          /\ stored[h.task].state \notin {"open", "approved", "rejected", "cancelled", "expired", "void"}
          /\ stored[h.task].run = h.run

\* The owner reads `done` of a task a run took only if that run ended well and
\* its last word was that it carried the task out, through any lost reply, any
\* second word and the end of the run.
DoneAsReported ==
    \A id \in DOMAIN stored :
       (stored[id].state = "done" /\ sealed[id].kind # "notice") =>
          LET r == stored[id].run
          IN /\ r \in DOMAIN task_runs /\ task_runs[r].ended = "well"
             /\ <<r, id>> \in DOMAIN said /\ said[<<r, id>>] = "carried_out"

\* Between the owner's approval and the owner's reading of the outcome nothing is mixed
\* up, lost or repeated, with every call to the store lost or unanswered at some time.
TasksAsApproved == OwnersApart /\ HandedAsApproved /\ DoneAsReported
=============================================================================
