----------------------------- MODULE WorkerJobs -----------------------------
(***************************************************************************)
(* The worker's main loop (worker/src/main.rs): a task is polled, its code *)
(* resolved, its jobs claimed and handled, the party that waits answered   *)
(* and the coordinator told.  The party is the contract, which holds a     *)
(* yield open for a limited time, or an HTTPS caller.                      *)
(*                                                                         *)
(* Every await is a step of its own; at each the iteration may time out or *)
(* the process end.  The coordinator and the chain are external: they are  *)
(* modelled as the worker's calls and comments describe them.              *)
(***************************************************************************)
EXTENDS Integers, SequencesExt

CONSTANTS
    Requests,
    Machines,     \* the workers
    Can,          \* Can[i]: the capabilities of worker i
    MaxFaults     \* bound: lost reports, dropped sends, cut iterations, stops

VARIABLES
    kind,         \* kind[r]: its door, and whether it is compile_only
    task_queue,   \* external: the coordinator's queues
    job,          \* external: job[r][k], the coordinator's record of job k
    answer,       \* external: what the waiting party has got
    txs,          \* external: the results sent to the contract
    at,           \* at[i]: where worker i is, and with what
    stopping,     \* stopping[i]: Shutdown::requested
    ran,          \* history: the requests whose guest ran
    unfinished,   \* history: requests whose worker was cut off, or a report of them lost
    unbuilt,      \* history: requests whose execution came without an artefact
    faults

outside == <<kind, task_queue, job, answer, txs>>
jobsHistory == <<ran, unfinished, unbuilt>>
jobsVars == <<outside, at, stopping, jobsHistory, faults>>

Resting == [step |-> "idle"]
Req(i) == at[i].task.req
OnChain(r) == kind[r].door = "chain"

\* A queued task: for which capability, and what the compiler passed on.
Task(r, for, result, error) == [req |-> r, for |-> for, result |-> result, error |-> error]

JobsInit ==
    /\ kind \in [Requests -> [door : {"chain", "https"}, compile_only : BOOLEAN]]
    /\ task_queue = {Task(r, "compile", FALSE, FALSE) : r \in Requests}
    /\ job = [r \in Requests |-> [compile |-> "none", execute |-> "none"]]
    /\ answer = [r \in Requests |-> "open"]
    /\ txs = {} /\ at = [i \in Machines |-> Resting]
    /\ stopping = [i \in Machines |-> FALSE]
    /\ ran = {} /\ unfinished = {} /\ unbuilt = {} /\ faults = 0

\* The worker goes on; its iteration ends, with or without an error.
Go(i, step) == at' = [at EXCEPT ![i].step = step]
Leave(i) == at' = [at EXCEPT ![i] = Resting]
In(i, step) == at[i].step = step
Doing(i, k) == In(i, "job") /\ at[i].jobs # <<>> /\ Head(at[i].jobs) = k
Fault == faults < MaxFaults /\ faults' = faults + 1
Unfinished(i) == unfinished' = unfinished \cup {Req(i)}

-----------------------------------------------------------------------------
\* poll_task: the coordinator hands a task out once.
PollTask(i) ==
    /\ In(i, "idle") /\ ~stopping[i]
    /\ \E t \in task_queue :
         /\ t.for \in Can[i]
         /\ task_queue' = task_queue \ {t}
         /\ at' = [at EXCEPT ![i] = [step |-> "resolve", task |-> t]]
    /\ UNCHANGED <<kind, job, answer, txs, stopping, jobsHistory, faults>>

\* The call is answered, if it is still open.
CallAnswered(r, ok) ==
    IF answer[r] # "open" THEN answer
    ELSE [answer EXCEPT ![r] = IF ok THEN "ok" ELSE "failed"]

\* The source comes with a contract's request; for a call it is read from the
\* chain, and what cannot be read or is not what the chain names is refused on
\* the call.  Nobody is told of a contract's request that cannot be resolved.
ResolveSource(i) == In(i, "resolve") /\ Go(i, "claim") /\ UNCHANGED <<outside, stopping, jobsHistory, faults>>

RefuseSource(i) ==
    /\ In(i, "resolve") /\ Leave(i)
    /\ \/ OnChain(Req(i)) /\ UNCHANGED <<answer, faults>>
       \/ ~OnChain(Req(i)) /\ answer' = CallAnswered(Req(i), FALSE) /\ UNCHANGED faults
       \/ ~OnChain(Req(i)) /\ Fault /\ UNCHANGED answer
    /\ UNCHANGED <<kind, task_queue, job, txs, stopping, jobsHistory>>

\* claim_job: the coordinator gives the jobs of the request the worker can do
\* that nobody has; a build already in its cache needs no compile job.
Offered(i) ==
    LET free == {k \in {"compile", "execute"} \cap Can[i] : job[Req(i)][k] = "none"}
    IN {s \in {<<"compile", "execute">>, <<"compile">>, <<"execute">>} :
          /\ Range(s) \subseteq free
          /\ at[i].task.for = "execute" => s = <<"execute">>
          /\ ("compile" \in Range(s) /\ "execute" \in free) => Len(s) = 2}

ClaimJobs(i) ==
    /\ In(i, "claim")
    /\ \/ \E s \in Offered(i) :
            /\ job' = [job EXCEPT ![Req(i)] = [k \in DOMAIN @ |-> IF k \in Range(s) THEN "claimed" ELSE @[k]]]
            /\ at' = [at EXCEPT ![i] = [step |-> "bind", task |-> @.task, jobs |-> s, built |-> FALSE]]
       \/ Offered(i) = {} /\ Leave(i) /\ UNCHANGED job
    /\ UNCHANGED <<kind, task_queue, answer, txs, stopping, jobsHistory, faults>>

\* What the worker will tell the waiting party, and then the coordinator.
AnswerWith(i, ok) == at' = [at EXCEPT ![i] = [step |-> "answer", task |-> @.task, jobs |-> @.jobs, ok |-> ok]]

\* The identity a run claims is verified on the chain before anything else;
\* a claim that runs nothing is not checked.
VerifyBinding(i) ==
    /\ In(i, "bind")
    /\ \/ Go(i, "job")
       \/ "execute" \in Range(at[i].jobs) /\ AnswerWith(i, FALSE)
    /\ UNCHANGED <<outside, stopping, jobsHistory, faults>>

-----------------------------------------------------------------------------
\* External: on the completion of a compile job the coordinator queues the
\* execution, with the compiler's result or its error; a build that was all
\* that was asked for is followed up only when there is something to send.
FollowUp(i, ok, result) ==
    LET r == Req(i)
        here == ok /\ "execute" \in Range(at[i].jobs)
        task == Task(r, "execute", result, ~ok)
    IN /\ job' = [job EXCEPT ![r].compile = IF ok THEN "done" ELSE "failed",
                             ![r].execute = IF here \/ @ # "claimed" THEN @ ELSE "none"]
       /\ task_queue' = IF here \/ (ok /\ kind[r].compile_only /\ ~result) THEN task_queue ELSE task_queue \cup {task}

\* handle_compile_job: the build, or the download, then the report.  A report
\* that does not get through is only logged.
Built(i) == at' = [at EXCEPT ![i].step = "job", ![i].jobs = Tail(@), ![i].built = TRUE]

Compile(i) ==
    /\ Doing(i, "compile")
    /\ \/ \E result \in BOOLEAN : FollowUp(i, TRUE, result) /\ Built(i) /\ UNCHANGED <<unfinished, faults>>
       \/ Built(i) /\ Fault /\ Unfinished(i) /\ UNCHANGED <<task_queue, job>>
       \/ FollowUp(i, FALSE, FALSE) /\ Leave(i) /\ UNCHANGED <<unfinished, faults>>
       \/ Leave(i) /\ Fault /\ Unfinished(i) /\ UNCHANGED <<task_queue, job>>
    /\ UNCHANGED <<kind, answer, txs, stopping, ran, unbuilt>>

\* All jobs are handled.
EndIteration(i) ==
    /\ In(i, "job") /\ at[i].jobs = <<>> /\ Leave(i)
    /\ UNCHANGED <<outside, stopping, jobsHistory, faults>>

\* handle_execute_job: a build that was all that was asked for is the answer, a
\* failed one too; a job that lacks its artefact ends the iteration unanswered.
StartExecute(i) ==
    LET t == at[i].task IN
    /\ Doing(i, "execute")
    /\ IF kind[t.req].compile_only
       THEN IF t.result \/ at[i].built
            THEN AnswerWith(i, TRUE) /\ UNCHANGED unbuilt
            ELSE Leave(i) /\ unbuilt' = unbuilt \cup {t.req}
       ELSE (IF t.error THEN AnswerWith(i, FALSE) ELSE Go(i, "bytes")) /\ UNCHANGED unbuilt
    /\ UNCHANGED <<outside, stopping, ran, unfinished, faults>>

\* The checks before a run: each passes it on, or refuses it with an answer.
Check(i, here, next) ==
    /\ In(i, here)
    /\ Go(i, next) \/ AnswerWith(i, FALSE)
    /\ UNCHANGED <<outside, stopping, jobsHistory, faults>>

\* The bytes, fresh, cached or downloaded.
FetchBytes(i) == Check(i, "bytes", "admit")

\* The hash the project names, the manifest in the bytes, who may run it, and a
\* connector's operation.
AdmitCaller(i) == Check(i, "admit", "declared")

\* The keys the artefact declares, its storage cell, and whether the call may name
\* several rows: before anything is decrypted.
CheckDeclared(i) == Check(i, "declared", "open")

\* The keystore opens the rows the call names, with the declared keys.
OpenRows(i) == Check(i, "open", "join")

\* A row that is missing, and a name two rows set differently.
JoinRows(i) == Check(i, "join", "keys")

\* keys_for_run: the declared keys, when no row was opened with them.
KeysForRun(i) == Check(i, "keys", "author")

\* author_secrets_for_run
AuthorSecrets(i) == Check(i, "author", "run")

\* The guest runs, and succeeds or fails; its task reports, the audit and the
\* cache follow and decide nothing.
RunGuest(i) ==
    /\ In(i, "run")
    /\ \E ok \in BOOLEAN : AnswerWith(i, ok)
    /\ ran' = ran \cup {Req(i)}
    /\ UNCHANGED <<outside, stopping, unfinished, unbuilt, faults>>

-----------------------------------------------------------------------------
\* What the coordinator is told of the job once the answer is out.
Settled(i, done) == at' = [at EXCEPT ![i].step = "complete", ![i].ok = done]

\* complete_https_call: a call that was swept is answered no more, and the
\* report of it accepted all the same.
AnswerCall(i) ==
    /\ In(i, "answer") /\ ~OnChain(Req(i))
    /\ \/ answer' = CallAnswered(Req(i), at[i].ok) /\ Settled(i, at[i].ok) /\ UNCHANGED faults
       \/ answer' \in {answer, CallAnswered(Req(i), at[i].ok)} /\ Settled(i, FALSE) /\ Fault
    /\ UNCHANGED <<kind, task_queue, job, txs, stopping, jobsHistory>>

\* submit_execution_result: one signed transaction, sent until it is seen
\* executed.  It may not be sent at all.
Tx(i, state) == [by |-> i, req |-> Req(i), ok |-> at[i].ok, state |-> state]

SendResult(i) ==
    /\ In(i, "answer") /\ OnChain(Req(i))
    /\ \/ txs' = txs \cup {Tx(i, "sent")} /\ Go(i, "follow") /\ UNCHANGED faults
       \/ Settled(i, FALSE) /\ Fault /\ UNCHANGED txs
    /\ UNCHANGED <<kind, task_queue, job, answer, stopping, jobsHistory>>

\* require_taken: an executed transaction is a success only when the contract
\* took it.
TakenIfExecuted(i) == Tx(i, "taken") \in txs \/ Tx(i, "refused") \in txs
Taken(i) == Tx(i, "taken") \in txs

SeeExecuted(i) ==
    /\ In(i, "follow") /\ Tx(i, "sent") \notin txs
    /\ Settled(i, at[i].ok /\ Taken(i))
    /\ UNCHANGED <<outside, stopping, jobsHistory, faults>>

\* send_and_follow fails: the chain refuses the transaction, which is then never
\* executed; or it has not been seen executed for TX_FOLLOW, longer than the
\* contract keeps the yield open.
YieldIsOver(r) == answer[r] # "open"

SendFails(i) ==
    /\ In(i, "follow") /\ Tx(i, "sent") \in txs
    /\ \/ txs' = txs \ {Tx(i, "sent")} /\ Fault
       \/ YieldIsOver(Req(i)) /\ UNCHANGED <<txs, faults>>
    /\ Settled(i, FALSE)
    /\ UNCHANGED <<kind, task_queue, job, answer, stopping, jobsHistory>>

\* External: a transaction executes.  The contract takes the result of a request
\* it still holds.
Execute ==
    \E x \in {y \in txs : y.state = "sent"} :
      LET taken == answer[x.req] = "open" IN
      /\ txs' = (txs \ {x}) \cup {[x EXCEPT !.state = IF taken THEN "taken" ELSE "refused"]}
      /\ answer' = CallAnswered(x.req, x.ok)
      /\ UNCHANGED <<kind, task_queue, job, at, stopping, jobsHistory, faults>>

\* External: the yield times out, or the sweeper closes the call.
Sweep ==
    \E r \in Requests :
      /\ answer[r] = "open" /\ answer' = [answer EXCEPT ![r] = "swept"]
      /\ UNCHANGED <<kind, task_queue, job, txs, at, stopping, jobsHistory, faults>>

\* report_refusal and the reports after a run: the job is completed whether or
\* not the party could be answered.  A refused claim completes all its jobs.
CompleteJob(i) ==
    /\ In(i, "complete")
    /\ \/ /\ job' = [job EXCEPT ![Req(i)][Head(at[i].jobs)] = IF at[i].ok THEN "done" ELSE "failed"]
          /\ at' = [at EXCEPT ![i] = IF Len(@.jobs) = 1 THEN Resting ELSE [@ EXCEPT !.jobs = Tail(@)]]
          /\ UNCHANGED <<unfinished, faults>>
       \/ Leave(i) /\ Fault /\ Unfinished(i) /\ UNCHANGED job
    /\ UNCHANGED <<kind, task_queue, answer, txs, stopping, ran, unbuilt>>

-----------------------------------------------------------------------------
\* The iteration times out, or the process ends with a task in hand.
CutOff(i) ==
    /\ ~In(i, "idle") /\ Fault /\ Unfinished(i) /\ Leave(i)
    /\ UNCHANGED <<outside, stopping, ran, unbuilt>>

\* A soft stop, looked at only before a poll; a new process polls again.
SoftStop(i) ==
    /\ ~stopping[i] /\ Fault /\ stopping' = [stopping EXCEPT ![i] = TRUE]
    /\ UNCHANGED <<outside, at, jobsHistory>>
StartWorker(i) ==
    /\ stopping[i] /\ In(i, "idle") /\ stopping' = [stopping EXCEPT ![i] = FALSE]
    /\ UNCHANGED <<outside, at, jobsHistory, faults>>

Iterate(i) ==
    \/ PollTask(i) \/ ResolveSource(i) \/ RefuseSource(i) \/ ClaimJobs(i) \/ VerifyBinding(i)
    \/ Compile(i) \/ EndIteration(i) \/ StartExecute(i)
    \/ FetchBytes(i) \/ AdmitCaller(i) \/ CheckDeclared(i) \/ OpenRows(i) \/ JoinRows(i)
    \/ KeysForRun(i) \/ AuthorSecrets(i) \/ RunGuest(i)
    \/ AnswerCall(i) \/ SendResult(i) \/ SeeExecuted(i) \/ SendFails(i) \/ CompleteJob(i)

JobsNext ==
    \/ \E i \in Machines : Iterate(i) \/ CutOff(i) \/ SoftStop(i) \/ StartWorker(i)
    \/ Execute \/ Sweep

JobsSpec == JobsInit /\ [][JobsNext]_jobsVars

-----------------------------------------------------------------------------
\* The coordinator's record of an on-chain execution, which the author's
\* earnings are read from, is what the contract did: a job is recorded as done
\* exactly for a result the contract took, and a job recorded as failed is one
\* whose result the contract did not take and never will.
RecordedAsTaken ==
    \A r \in Requests :
       OnChain(r) => /\ job[r].execute = "done" => answer[r] = "ok"
                     /\ job[r].execute = "failed" => answer[r] \in {"failed", "swept", "open"}

\* A worker holds job k of request r.
InHand(r, k) ==
    \E i \in Machines : /\ at[i].step \notin {"idle", "resolve", "claim"}
                       /\ Req(i) = r /\ k \in Range(at[i].jobs)

\* No claimed job is left behind by a worker that goes on: a job still claimed
\* is in the hands of a worker, unless its worker was cut off, a report of it was
\* lost, or the coordinator gave it no artefact.
NoneLeftClaimed ==
    \A r \in Requests : \A k \in {"compile", "execute"} :
       job[r][k] = "claimed" => r \in unfinished \cup unbuilt \/ InHand(r, k)

\* A job that was claimed is accounted for, through cut-offs, stops, refusals and late
\* transactions.
JobsAccounted == RecordedAsTaken /\ NoneLeftClaimed

\* The comment at the failed compile job: the coordinator creates an execute
\* task with the error, for an executor to report.  So the execution of a failed
\* build is not left claimed with nobody at it, unless a fault came between.
FailedBuildsReported ==
    \A r \in Requests :
       (job[r].compile = "failed" /\ job[r].execute = "claimed")
          => r \in unfinished \/ InHand(r, "execute")
=============================================================================
