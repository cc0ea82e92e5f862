-------------------------- MODULE KeystoreEnrolment --------------------------
(***************************************************************************)
(* A keystore worker enrols with the DAO before it serves (keystore-worker *)
(* main.rs perform_tee_registration, tee_registration.rs, mpc_ckd.rs): it  *)
(* makes a key, registers it with a quote, waits for the vote and has the  *)
(* MPC network derive the master, signing with that key as the DAO.  All   *)
(* of it runs before the listener is bound.                                *)
(*                                                                         *)
(* Each call the start awaits is a step; the DAO, the votes and the        *)
(* account's keys move in between.  A call may fail: a start that fails    *)
(* stays up without a listener, until it is restarted from outside.        *)
(***************************************************************************)
EXTENDS KeystoreDao

CONSTANTS
    Booted,        \* the keys of this instance's starts, in order, one each in a TEE
    Image,         \* external: platform and measurements this instance's quotes carry
    Master,        \* external: what CKD derives for the DAO's account
    NoMaster,      \* the temporary keystore of the start
    MaxPolls,      \* MAX_ATTEMPTS of wait_for_approval
    MaxKeyReads    \* max_retries of call_mpc_contract

\* A quote for one of this instance's keys is a quote of its image: the key is
\* made inside, and the report that is quoted names it.
ASSUME EnrolmentAssumption ==
    /\ Booted \in Seq(Keys)
    /\ Image \in [fmspc: Platforms, measurements: Measurements]
    /\ \A quote \in Quotes :
          quote.public_key \in Range(Booted) => quote.measurements = Image.measurements

VARIABLES
    boot,          \* which start this is
    is_tee_mode,   \* tee_mode = OutlayerTee; otherwise the key is kept in a file
    key_file,      \* external: the file, the number of the start that wrote it or 0
    step,          \* where perform_tee_registration is
    proposal_id, tries,
    master,        \* app_state's keystore
    submitted      \* history: the starts whose registrations the DAO took

enrolVars == <<boot, is_tee_mode, key_file, step, proposal_id, tries, master, submitted>>

\* load_or_generate_keypair: a key of this start alone in a TEE, else the one
\* on file.
public_key == Booted[IF is_tee_mode THEN boot ELSE key_file]
OwnQuote == [public_key |-> public_key, fmspc |-> Image.fmspc, measurements |-> Image.measurements]

EnrolInit ==
    /\ boot = 0 /\ is_tee_mode \in BOOLEAN /\ key_file = 0
    /\ step = "off" /\ proposal_id = 0 /\ tries = 0
    /\ master = NoMaster /\ submitted = <<>>

\* External: the instance is started, or restarted whether it serves or not; its
\* memory is gone.  Outside a TEE the key is loaded from the file, unless there
\* is none or it is of another type than KEYSTORE_KEY_TYPE.
Start(retyped) ==
    /\ boot < Len(Booted)
    /\ boot' = boot + 1 /\ step' = "asks" /\ proposal_id' = 0 /\ tries' = 0
    /\ key_file' = IF ~is_tee_mode /\ (retyped \/ key_file = 0) THEN boot + 1 ELSE key_file
    /\ master' = NoMaster
    /\ UNCHANGED <<is_tee_mode, submitted, daoVars>>

\* The start goes on to s.
GoTo(s) ==
    /\ step' = s /\ tries' = 0
    /\ UNCHANGED <<boot, is_tee_mode, key_file, proposal_id, master, submitted, daoVars>>

-----------------------------------------------------------------------------
\* check_keystore_approval
AskApproval ==
    /\ step = "asks"
    /\ GoTo(IF public_key \in approved_keystores THEN "checks_key" ELSE "quotes")

\* check_access_key_methods, of a key approved before: it is on the account.
\* The DAO grants every key the methods this build needs.
CheckAccessKey ==
    /\ step = "checks_key"
    /\ GoTo(IF public_key \in access_keys THEN "reads_key" ELSE "hangs")

\* The quote, and the free check of its measurements: no answer is a yes.
CheckMeasurements(answered) ==
    /\ step = "quotes"
    /\ GoTo(IF answered /\ Image.measurements \notin approved_measurements THEN "hangs" ELSE "submits")

\* submit_registration: the transaction lands, its answer heard or not.
SubmitRegistration(heard) ==
    /\ step = "submits"
    /\ SubmitKeystoreRegistration(OwnQuote)
    /\ submitted' = Append(submitted, [boot |-> boot, key |-> public_key])
    /\ proposal_id' = next_proposal_id
    /\ step' = (IF heard THEN "polls" ELSE "hangs") /\ tries' = 0
    /\ UNCHANGED <<boot, is_tee_mode, key_file, master>>

\* wait_for_approval, first the key, then the proposal's status: only a
\* rejection ends it, and the last attempt.
GoOnPolling == tries' = 0 /\ step' = "polls"
CountAndPoll ==
    IF tries + 1 >= MaxPolls THEN step' = "hangs" /\ tries' = 0
    ELSE step' = "polls" /\ tries' = tries + 1

PollApproval ==
    /\ step = "polls"
    /\ IF public_key \in approved_keystores THEN step' = "reads_key" /\ tries' = 0
       ELSE step' = "reads_proposal" /\ UNCHANGED tries
    /\ UNCHANGED <<boot, is_tee_mode, key_file, proposal_id, master, submitted, daoVars>>

PollProposal ==
    /\ step = "reads_proposal"
    /\ IF proposals[proposal_id].status = "Rejected" THEN step' = "hangs" /\ tries' = 0
       ELSE CountAndPoll
    /\ UNCHANGED <<boot, is_tee_mode, key_file, proposal_id, master, submitted, daoVars>>

-----------------------------------------------------------------------------
\* call_mpc_contract: the access key may not be there yet and is looked for
\* again; then the request is signed with it and sent.
ReadAccessKey ==
    /\ step = "reads_key"
    /\ IF public_key \in access_keys THEN step' = "derives" /\ tries' = 0
       ELSE IF tries + 1 < MaxKeyReads THEN step' = "reads_key" /\ tries' = tries + 1
       ELSE step' = "hangs" /\ tries' = 0
    /\ UNCHANGED <<boot, is_tee_mode, key_file, proposal_id, master, submitted, daoVars>>

\* request_key is taken from a key on the account only, and CKD answers with
\* the master of the account, whichever key asks; then replace_keystore,
\* set_mpc_context, mark_ready and the listener.
DeriveMaster ==
    /\ step = "derives" /\ public_key \in access_keys
    /\ step' = "serves" /\ master' = Master
    /\ UNCHANGED <<boot, is_tee_mode, key_file, proposal_id, tries, submitted, daoVars>>

\* Any call fails, or is refused: a view, the transaction, the derivation.
StartAgain == step \notin {"off", "serves"} /\ GoTo("asks")
CallFails ==
    /\ step \notin {"off", "serves", "hangs"}
    /\ GoTo("hangs")

EnrolStep ==
    \/ AskApproval \/ CheckAccessKey
    \/ \E answered \in BOOLEAN : CheckMeasurements(answered)
    \/ \E heard \in BOOLEAN : SubmitRegistration(heard)
    \/ PollApproval \/ PollProposal \/ ReadAccessKey \/ DeriveMaster
    \/ CallFails

EnrolNext == EnrolStep \/ (\E retyped \in BOOLEAN : Start(retyped)) \/ (DaoNext /\ UNCHANGED enrolVars)

EnrolSpec == DaoInit /\ EnrolInit /\ [][EnrolNext]_<<daoVars, enrolVars>>

-----------------------------------------------------------------------------
\* A keystore serves with the master of the DAO's account and with no other,
\* and only if the DAO let its key in: on a registration of that very key,
\* executed, which one of its own starts submitted from the image it runs.  And
\* a start submits at most once, whatever fails or goes unheard: a hung instance
\* opens no second proposal.
ServesWhenLetIn ==
    /\ step = "serves" =>
          /\ master = Master
          /\ \E id \in DOMAIN proposals :
                /\ proposals[id].public_key = public_key /\ proposals[id].status = "Executed"
                /\ proposals[id].measurements = Image.measurements
    /\ step # "serves" => master = NoMaster
    /\ \A i, j \in DOMAIN submitted : submitted[i].boot = submitted[j].boot => i = j

\* The start comes to an end: it serves or hangs, also when the vote never
\* comes and the key never appears on the account.
EnrolmentEnds == step \notin {"off", "serves", "hangs"} ~> step \in {"serves", "hangs"}
=============================================================================
