--------------------------- MODULE KeystoreClient ---------------------------
(***************************************************************************)
(* A worker's client of the keystore (worker/src/keystore_client.rs) and   *)
(* the sessions it holds there (keystore-worker/src/api_support.rs): it    *)
(* knows several instances, keeps to one while that answers, and makes a   *)
(* session on each by challenge and response.  Sessions live in the memory *)
(* of an instance, so a restart forgets them all at once.                  *)
(*                                                                         *)
(* Calls are made concurrently.  An instance handling a request and its    *)
(* reply reaching the worker are steps of their own; instances restart,    *)
(* vanish or go silent in between.                                         *)
(***************************************************************************)
EXTENDS Integers, Sequences, FiniteSets, FiniteSetsExt

CONSTANTS
    Instances,      \* the instances, 1 .. n in the order of preference
    Calls,          \* the calls that may be open at a time
    NoSession,
    MaxTeeRetries,  \* MAX_TEE_RETRIES
    MaxFaults       \* bound: restarts, changes of state, dropped connections, refusals

VARIABLES
    session, down, current,      \* the worker's: per instance, and the one it keeps to
    has_key,                     \* tee_signing_info is set
    worker, reg_tries,           \* the start: "starts", "serves" or "stopped"; its attempts
    net,                         \* external: each instance is "up", "gone" or "silent"
    tee_sessions, tee_challenges,\* the instances': what each remembers
    call,                        \* the calls in progress
    failed,                      \* history: the last call of each failed
    faults

clientVars == <<session, down, current, has_key, worker, reg_tries, net, tee_sessions, tee_challenges,
                call, failed, faults>>

Pending == "pending"
Idle == [at |-> "idle", todo |-> <<>>, again |-> FALSE, sent |-> NoSession, reply |-> Pending, made |-> NoSession]

\* A session: the instance that made it and a number.  One that nobody holds
\* cannot be told from one never made.
HeldNumbers ==
    {s[2] : s \in ({session[i] : i \in Instances} \cup {call[c].sent : c \in Calls}
                    \cup {call[c].made : c \in Calls}) \ {NoSession}}
NewSession(i) == <<i, Min((0..Cardinality(HeldNumbers)) \ HeldNumbers)>>

ClientInit ==
    /\ session = [i \in Instances |-> NoSession] /\ down = [i \in Instances |-> FALSE] /\ current = 1
    /\ has_key \in BOOLEAN
    /\ worker = "starts" /\ reg_tries = 0
    /\ net = [i \in Instances |-> "up"]
    /\ tee_sessions = [i \in Instances |-> {}] /\ tee_challenges = [i \in Instances |-> {}]
    /\ call = [c \in Calls |-> Idle] /\ failed = [c \in Calls |-> FALSE] /\ faults = 0

\* candidates: the current one first, then the rest in order, without those
\* marked down unless all are.
Candidates ==
    LET n == Cardinality(Instances)
        order == [k \in 1..n |-> ((current + k - 2) % n) + 1]
        up == SelectSeq(order, LAMBDA i : ~down[i])
    IN IF up = <<>> THEN order ELSE up

-----------------------------------------------------------------------------
\* The call goes on with the candidates `todo`: with a handshake where the
\* worker has a key and no session, with the request otherwise, and with none
\* left it fails.
Try(c, todo) ==
    IF todo = <<>> THEN
       /\ call' = [call EXCEPT ![c] = Idle]
       /\ failed' = [failed EXCEPT ![c] = TRUE]
    ELSE LET i == Head(todo)
             handshake == worker = "starts" \/ (has_key /\ session[i] = NoSession)
         IN /\ call' = [call EXCEPT ![c] = [Idle EXCEPT !.todo = todo,
                          !.at = IF handshake THEN "challenge" ELSE "post", !.sent = session[i]]]
            /\ UNCHANGED failed

Finish(c, how) ==
    /\ call' = [call EXCEPT ![c] = Idle] /\ failed' = [failed EXCEPT ![c] = how # "answered"]

\* The start of a worker with a key: register_tee_session, some times over;
\* without a key the worker serves at once.
StartClient(c) ==
    /\ worker = "starts" /\ \A d \in Calls : call[d] = Idle
    /\ IF has_key /\ reg_tries < MaxTeeRetries
       THEN Try(c, Candidates) /\ reg_tries' = reg_tries + 1 /\ UNCHANGED worker
       ELSE worker' = (IF has_key THEN "stopped" ELSE "serves") /\ UNCHANGED <<call, failed, reg_tries>>
    /\ UNCHANGED <<session, down, current, has_key, net, tee_sessions, tee_challenges, faults>>

\* post_json
BeginCall(c) ==
    /\ worker = "serves" /\ call[c] = Idle
    /\ Try(c, Candidates)
    /\ UNCHANGED <<session, down, current, has_key, worker, reg_tries, net, tee_sessions, tee_challenges, faults>>

At(c) == Head(call[c].todo)
Open(c) == call[c].at # "idle"

-----------------------------------------------------------------------------
\* tee_challenge_handler, register_tee_handler and validate_tee_session: the
\* challenge is used once, and the key has to be on the operator's account.  A
\* request let in may be refused for its own sake.
KnowsSession(i, s) == s \in tee_sessions[i]
Accepts(c, refuse) == c \in tee_challenges[At(c)] /\ ~refuse

Handle(c, refuse) ==
    /\ Open(c) /\ call[c].reply = Pending /\ net[At(c)] = "up"
    /\ refuse => call[c].at = "post" \/ (call[c].at = "register" /\ faults < MaxFaults)
    /\ faults' = IF refuse /\ call[c].at = "register" THEN faults + 1 ELSE faults
    /\ LET i == At(c)
           reply == CASE call[c].at = "challenge" -> "challenge"
                      [] call[c].at = "register" -> IF Accepts(c, refuse) THEN "made" ELSE "refused"
                      [] OTHER -> IF has_key /\ ~KnowsSession(i, call[c].sent) THEN "expired"
                                  ELSE IF refuse THEN "refusal" ELSE "answer"
       IN /\ call' = [call EXCEPT ![c].reply = reply,
                                   ![c].made = IF reply = "made" THEN NewSession(i) ELSE @]
          /\ tee_challenges' = [tee_challenges EXCEPT ![i] =
                IF call[c].at = "challenge" THEN @ \cup {c} ELSE @ \ {c}]
          /\ tee_sessions' = [tee_sessions EXCEPT ![i] =
                IF reply = "made" THEN {s \in @ : s[2] \in HeldNumbers} \cup {NewSession(i)} ELSE @]
    /\ UNCHANGED <<session, down, current, has_key, worker, reg_tries, net, failed>>

\* settle_on and leave
Settled(i) == current' = i /\ down' = [down EXCEPT ![i] = FALSE]
Left(i) == down' = [down EXCEPT ![i] = TRUE] /\ UNCHANGED current

\* The rest of a handshake that made a session: at the start
\* that is all; before a first request, or before repeating one, it follows.
Handshaken(c) ==
    LET i == At(c) IN
    /\ session' = [session EXCEPT ![i] = call[c].made]
    /\ IF worker = "starts"
       THEN /\ Finish(c, "answered") /\ Settled(i) /\ worker' = "serves"
       ELSE /\ call' = [call EXCEPT ![c].at = "post", ![c].sent = session'[i], ![c].reply = Pending,
                                   ![c].made = NoSession]
            /\ UNCHANGED <<failed, down, current, worker>>

\* A reply of 403 "session not found": whoever comes first makes a new session,
\* a call that finds another one than it sent repeats with that.
PlainRetry(c) == "post"
Renewal(c) == IF session[At(c)] = call[c].sent THEN "challenge" ELSE "post"

Expired(c) ==
    LET i == At(c) IN
    IF ~call[c].again /\ has_key
    THEN /\ call' = [call EXCEPT ![c].again = TRUE, ![c].reply = Pending,
                       ![c].at = Renewal(c),
                       ![c].sent = session[i]]
         /\ UNCHANGED <<failed, down, current, session, worker>>
    ELSE Finish(c, "failed") /\ UNCHANGED <<down, current, session, worker>>

\* The reply reaches the worker.  A refused handshake ends the call; a refused
\* request is an answer like any other, except to one repeated.
Receive(c) ==
    /\ Open(c) /\ call[c].reply # Pending
    /\ CASE call[c].reply = "refused" ->
               Finish(c, "failed") /\ UNCHANGED <<session, down, current, worker>>
         [] call[c].at = "challenge" ->
               /\ call' = [call EXCEPT ![c].at = "register", ![c].reply = Pending]
               /\ UNCHANGED <<failed, session, down, current, worker>>
         [] call[c].at = "register" -> Handshaken(c)
         [] call[c].at = "post" /\ call[c].reply = "expired" -> Expired(c)
         [] call[c].reply = "refusal" /\ call[c].again ->
               Finish(c, "failed") /\ UNCHANGED <<session, down, current, worker>>
         [] OTHER -> Finish(c, "answered") /\ Settled(At(c)) /\ UNCHANGED <<session, worker>>
    /\ UNCHANGED <<has_key, reg_tries, net, tee_sessions, tee_challenges, faults>>

\* Nothing is heard of the instance.  Unreachable, or dropped before the reply:
\* the call moves on.  Timed out after it was sent: a handshake moves on, a
\* request fails and leaves the instance to the next one.
MovesOn(c) ==
    /\ Left(At(c)) /\ Try(c, Tail(call[c].todo))
    /\ UNCHANGED <<session, has_key, worker, reg_tries, net, tee_sessions, tee_challenges>>

Unreachable(c) ==
    /\ Open(c) /\ net[At(c)] = "gone"
    /\ MovesOn(c) /\ UNCHANGED faults
Dropped(c) ==
    /\ Open(c) /\ faults < MaxFaults /\ faults' = faults + 1
    /\ MovesOn(c)
Stalls(c) ==
    /\ Open(c) /\ net[At(c)] = "silent"
    /\ IF call[c].at # "post" THEN MovesOn(c)
       ELSE /\ Left(At(c)) /\ Finish(c, "stalled")
            /\ UNCHANGED <<session, has_key, worker, reg_tries, net, tee_sessions, tee_challenges>>
    /\ UNCHANGED faults

\* is_down, DOWN_WINDOW later
MarkLapses(i) ==
    /\ down[i] /\ down' = [down EXCEPT ![i] = FALSE]
    /\ UNCHANGED <<session, current, has_key, worker, reg_tries, net, tee_sessions, tee_challenges, call, failed, faults>>

\* External: an instance restarts and remembers nothing, or changes how it answers.
Restarts(i) ==
    /\ faults < MaxFaults /\ faults' = faults + 1
    /\ tee_sessions' = [tee_sessions EXCEPT ![i] = {}] /\ tee_challenges' = [tee_challenges EXCEPT ![i] = {}]
    /\ net' = [net EXCEPT ![i] = "up"]
    /\ UNCHANGED <<session, down, current, has_key, worker, reg_tries, call, failed>>
Changes(i, how) ==
    /\ faults < MaxFaults /\ faults' = faults + 1
    /\ net[i] # how /\ net' = [net EXCEPT ![i] = how]
    /\ UNCHANGED <<session, down, current, has_key, worker, reg_tries, tee_sessions, tee_challenges, call, failed>>

-----------------------------------------------------------------------------
Proceed(c) ==
    \/ StartClient(c) \/ BeginCall(c) \/ Handle(c, FALSE) \/ Receive(c)
    \/ Unreachable(c) \/ Stalls(c)

ClientNext ==
    \/ \E c \in Calls : Proceed(c) \/ Dropped(c) \/ Handle(c, TRUE)
    \/ \E i \in Instances : MarkLapses(i) \/ Restarts(i) \/ \E how \in {"up", "gone", "silent"} : Changes(i, how)

\* Calls are made again and again and each makes progress; marks lapse.  An
\* instance handles what it is sent while it is up, and a call to one that is
\* not ends by its timeout.
ClientFairness ==
    /\ \A c \in Calls : WF_clientVars(Proceed(c))
    /\ \A i \in Instances : WF_clientVars(MarkLapses(i))

ClientSpec == ClientInit /\ [][ClientNext]_clientVars /\ ClientFairness

-----------------------------------------------------------------------------
\* Once the trouble is over, with an instance that answers and none that is
\* silent, the worker recovers by itself from restarts and moves: from some
\* time on no call fails, with marks, sessions and the instance it keeps to in
\* whatever state the trouble left them.
Recovered == \A c \in Calls : ~failed[c]
WorkerRecovers ==
    (<>[](\E i \in Instances : net[i] = "up") /\ <>[](\A i \in Instances : net[i] # "silent")
        /\ <>[](worker # "stopped"))
       => <>[]Recovered
=============================================================================
