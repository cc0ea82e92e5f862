----------------------------- MODULE Execution ------------------------------
(***************************************************************************)
(* The life of an execution request in the OutLayer contract               *)
(* (contract/src/execution.rs, the cancelling calls of admin.rs, the       *)
(* stablecoin balances of payment.rs and lib.rs), on top of the project    *)
(* registry.                                                               *)
(*                                                                         *)
(* A request is admitted with a NEAR payment and, for a project, with a    *)
(* stablecoin amount taken from the caller's balance; the contract waits   *)
(* on a yield.  The operator resumes the yield with the result, or the     *)
(* chain times it out; either way the settlement callback runs in a later  *)
(* receipt, so every other call may land between the resume and the        *)
(* callback.  The sender and the owner may cancel what is pending.         *)
(*                                                                         *)
(* NEAR runtime and token contract are external: a yield is resumed or     *)
(* timed out once, its callback runs once and either commits or, out of    *)
(* gas, leaves no trace; an ft_transfer succeeds or fails.                 *)
(***************************************************************************)
EXTENDS Projects

CONSTANTS
    Users,          \* accounts that request executions
    Payers,         \* accounts named as payer_account_id
    Tokens,         \* token contracts
    OwnerTokens,    \* values set_payment_token_contract is called with
    Limits,         \* resource limits, in units of compute
    Usages,         \* [units, compile] a worker may report
    InputDeposits,  \* storage deposits of an input: 0 within the free bytes
    Payments,       \* NEAR attached to a request
    Attachments,    \* stablecoin attached to a request
    GuestRefunds,   \* refund_usd a guest may return
    Deposits,       \* stablecoin amounts deposited
    FeeSchedules,   \* [base, unit, compile] the owner may set
    InitialFees,    \* the schedule `new` installs
    MaxRequests,    \* bound on next_request_id
    MaxDeposited,   \* bound on the stablecoin deposited in all
    MaxWithdrawals  \* bound on withdrawals in flight at once

FeeRecords == [base: Nat, unit: Nat, compile: Nat]
UsageRecords == [units: Nat, compile: Nat]
ResponseRecords == [success: BOOLEAN, used: UsageRecords, refund_usd: Nat]
Responses == [success: BOOLEAN, used: Usages, refund_usd: GuestRefunds]

ASSUME ExecutionAssumption ==
    /\ Users \subseteq Accounts /\ Payers \subseteq Accounts
    /\ Limits \subseteq Nat /\ Payments \subseteq Nat /\ Attachments \subseteq Nat
    /\ InputDeposits \subseteq Nat /\ GuestRefunds \subseteq Nat
    /\ Deposits \subseteq Nat \ {0}
    /\ Usages \subseteq UsageRecords
    /\ FeeSchedules \subseteq FeeRecords /\ InitialFees \in FeeRecords
    /\ MaxRequests \in Nat /\ MaxDeposited \in Nat /\ MaxWithdrawals \in Nat
    /\ OwnerTokens \subseteq Tokens \cup {None}
    /\ None \notin Tokens /\ None \notin ResponseRecords

VARIABLES
    fees,             \* base_fee, per-unit fee, per_compile_ms_fee
    payment_token,    \* payment_token_contract
    next_request_id,
    pending,          \* pending_requests: id -> ExecutionRequest
    stale_before,     \* requests below this id are older than EXECUTION_TIMEOUT
    yields,           \* external: id -> the yield's state and its response
    balances,         \* user_stablecoin_balances
    earnings,         \* developer_earnings; no row reads as 0
    fees_collected,   \* total_fees_collected
    total_executions,
    withdrawals,      \* ft_transfers of earnings sent and not yet called back
    token_held,       \* external: the contract's balance at each token contract
    deposited,        \* history: stablecoin each account deposited
    book              \* history: what each request brought and what left for it

ledger == <<balances, earnings, withdrawals, token_held, deposited>>
requests == <<next_request_id, pending, stale_before, yields, fees_collected,
              total_executions, book>>
settings == <<fees, payment_token>>
executionVars == <<settings, requests, ledger>>
vars == <<projectVars, executionVars>>

RequestRecords ==
    [sender: Accounts, payer: Accounts, project: ProjectIds \cup {None},
     operation: Operations \cup {None}, limits: Nat, input_deposit: Nat,
     payment: Nat, attached_usd: Nat, output_submitted: BOOLEAN]
YieldRecords ==
    [state: {"waiting", "resumed", "timed_out", "done", "out_of_gas"},
     response: ResponseRecords \cup {None}]
WithdrawalRecords ==
    [developer: Accounts, amount: Nat, token: Tokens, state: {"sent", "paid", "failed"}]

\* What a request brought (payment, attached) and what left for it: NEAR sent
\* to the payer and NEAR booked as fees, stablecoin credited to the sender and
\* to developers; and how it ended.
Endings == {"open", "success", "failure", "promise_failed", "stale", "owner", "bulk"}
BookRecords ==
    [sender: Accounts, payment: Nat, attached: Nat, input_deposit: Nat, ending: Endings,
     refunded: Nat, kept: Nat, usd_back: Nat, usd_earned: Nat]

ExecutionInit ==
    /\ fees = InitialFees
    /\ payment_token = None
    /\ next_request_id = 0
    /\ pending = EmptyMap
    /\ stale_before = 0
    /\ yields = EmptyMap
    /\ balances = [a \in Accounts |-> 0]
    /\ earnings = [a \in Accounts |-> 0]
    /\ fees_collected = 0
    /\ total_executions = 0
    /\ withdrawals = EmptyMap
    /\ token_held = [t \in Tokens |-> 0]
    /\ deposited = [a \in Accounts |-> 0]
    /\ book = EmptyMap

Init == ProjectsInit /\ ExecutionInit

-----------------------------------------------------------------------------
\* u128::saturating_sub and min
Minus(a, b) == IF a >= b THEN a - b ELSE 0
Least(a, b) == IF a <= b THEN a ELSE b

\* Costs.  Instructions and execution milliseconds are one unit of compute.
CalculateCost(used) == fees.base + used.units * fees.unit + used.compile * fees.compile
EstimateCost(limits) == fees.base + limits * fees.unit

\* What a run is charged: its cost, capped at what was attached for compute.
\* The part of the payment that pays for a large input is held, not offered.
ChargeUpToPayment(q, used) == Least(CalculateCost(used), q.payment)
Charge(q, used) == Least(CalculateCost(used), Minus(q.payment, q.input_deposit))

\* settle_attached: what goes back to the caller and what is left to earn, out
\* of `attached` at `price`, when the guest hands `guest` back.
SettleAttachedTwice(attached, price, guest) ==
    [back |-> Minus(attached, price) + guest, earned |-> Least(attached, price)]
SettleAttached(attached, price, guest) ==
    LET overpaid == Minus(attached, price)
        chargeable == attached - overpaid
        guest_refund == Least(guest, chargeable)
    IN [back |-> overpaid + guest_refund, earned |-> chargeable - guest_refund]

\* split_payment: the author's cut, rounded down; the owner has the rest.
AuthorShare(paid, share_bp) == (paid * share_bp) \div 10000

\* The balance or earnings rows with `amount` more for `account`
\* (return_attached_usd and the credits of developer_earnings).
Credit(rows, account, amount) == [rows EXCEPT ![account] = @ + amount]

\* Always the account that was debited at admission.
RefundTo(q) == q.sender

\* pending_requests.remove: the one token every path that ends a request claims.
StillPending(r) == pending
Claimed(r) == Drop(pending, r)

\* The book once a call has ended request r and paid these amounts for it.
Closed(b, how, refunded, kept, back, earned) ==
    [sender |-> b.sender, payment |-> b.payment, attached |-> b.attached,
     input_deposit |-> b.input_deposit, ending |-> how,
     refunded |-> b.refunded + refunded, kept |-> b.kept + kept,
     usd_back |-> b.usd_back + back, usd_earned |-> b.usd_earned + earned]
Close(r, how, refunded, kept, back, earned) ==
    [book EXCEPT ![r] = Closed(@, how, refunded, kept, back, earned)]

-----------------------------------------------------------------------------
\* ft_on_transfer with the DepositBalance action: only the configured token.
DepositBalance(account, token, amount) ==
    /\ payment_token # None /\ token = payment_token
    /\ MapThenSumSet(LAMBDA a : deposited[a], Accounts) + amount <= MaxDeposited
    /\ balances' = Credit(balances, account, amount)
    /\ deposited' = Credit(deposited, account, amount)
    /\ token_held' = Credit(token_held, token, amount)
    /\ UNCHANGED <<projectVars, settings, requests, earnings, withdrawals>>

\* resolve_execution_source: the project exists and so does the version named,
\* or, with none named, its active one.
Resolves(project, version_key) ==
    /\ project \in DOMAIN projects
    /\ projects[project].uuid \in DOMAIN project_versions
    /\ (IF version_key = None THEN projects[project].active ELSE version_key)
          \in DOMAIN project_versions[projects[project].uuid]

\* The price list has a row for the operation the input names.
Sells(project, operation) ==
    /\ project \in DOMAIN project_pricing
    /\ operation \in DOMAIN project_pricing[project].rows
PriceRow(project, operation) == project_pricing[project].rows[operation]

\* A run of a priced project names an operation on sale and attaches at least
\* its price; a compile-only request and an unpriced project pass.
PaysThePrice(project, operation, attached, compile_only) ==
    (~compile_only /\ project \in DOMAIN project_pricing) =>
        Sells(project, operation) /\ attached >= PriceRow(project, operation).price

\* What must be attached in NEAR: the estimate (the base fee when the request
\* only compiles) and the deposit of a large input.
RequiredPayment(limits, input_deposit, compile_only) ==
    (IF compile_only THEN fees.base ELSE EstimateCost(limits)) + input_deposit

CanAfford(q) == balances[q.sender] >= q.attached_usd

\* `q` is the request as it will be stored; the yield is created with it.
RequestExecution(q, version_key, compile_only) ==
    LET r == next_request_id
    IN /\ ~paused
       /\ r < MaxRequests
       /\ q.project # None => Resolves(q.project, version_key)
       /\ compile_only => q.operation = None /\ q.input_deposit = 0
       /\ PaysThePrice(q.project, q.operation, q.attached_usd, compile_only)
       /\ q.attached_usd > 0 => q.project # None
       /\ CanAfford(q)
       /\ q.payment >= RequiredPayment(q.limits, q.input_deposit, compile_only)
       /\ next_request_id' = r + 1
       /\ balances' = [balances EXCEPT ![q.sender] = @ - q.attached_usd]
       /\ pending' = Put(pending, r, q)
       /\ yields' = Put(yields, r, [state |-> "waiting", response |-> None])
       /\ book' = Put(book, r,
              [sender |-> q.sender, payment |-> q.payment, attached |-> q.attached_usd,
               input_deposit |-> q.input_deposit, ending |-> "open",
               refunded |-> 0, kept |-> 0, usd_back |-> 0, usd_earned |-> 0])
       /\ UNCHANGED <<projectVars, settings, stale_before, fees_collected, total_executions,
                      earnings, withdrawals, token_held, deposited>>

\* The requests callers may make.
RequestInputs ==
    [sender: Users, payer: Payers, project: ProjectIds \cup {None},
     operation: Operations \cup {None}, limits: Limits, input_deposit: InputDeposits,
     payment: Payments, attached_usd: Attachments, output_submitted: {FALSE}]

-----------------------------------------------------------------------------
\* The operator's calls.  A resume is refused once the yield is gone.

OutputStored(r) == [pending EXCEPT ![r].output_submitted = TRUE]

SubmitExecutionOutput(r) ==
    /\ r \in DOMAIN pending
    /\ ~pending[r].output_submitted
    /\ pending' = OutputStored(r)
    /\ UNCHANGED <<projectVars, settings, ledger, next_request_id, stale_before, yields,
                   fees_collected, total_executions, book>>

\* promise_yield_resume: external, refused once the yield is gone.
Resume(r, response) ==
    /\ yields[r].state = "waiting"
    /\ yields' = [yields EXCEPT ![r] = [state |-> "resumed", response |-> response]]

ResolveExecution(r, response) ==
    /\ r \in DOMAIN pending
    /\ Resume(r, response)
    /\ UNCHANGED <<projectVars, settings, ledger, next_request_id, pending, stale_before,
                   fees_collected, total_executions, book>>

\* The combined call carries no guest refund.
SubmitExecutionOutputAndResolve(r, response) ==
    /\ r \in DOMAIN pending
    /\ ~pending[r].output_submitted
    /\ response.refund_usd = 0
    /\ pending' = OutputStored(r)
    /\ Resume(r, response)
    /\ UNCHANGED <<projectVars, settings, ledger, next_request_id, stale_before,
                   fees_collected, total_executions, book>>

\* The chain gives up on a yield nobody resumed: the callback gets an error.
YieldTimeout(r) ==
    /\ r \in DOMAIN yields
    /\ yields[r].state = "waiting"
    /\ yields' = [yields EXCEPT ![r].state = "timed_out"]
    /\ UNCHANGED <<projectVars, settings, ledger, next_request_id, pending, stale_before,
                   fees_collected, total_executions, book>>

-----------------------------------------------------------------------------
\* on_execution_response, the yield's callback: a receipt of its own, run once.

CallbackRuns(r) ==
    /\ r \in DOMAIN yields
    /\ yields[r].state \in {"resumed", "timed_out"}
    /\ yields' = [yields EXCEPT ![r] = [state |-> "done", response |-> None]]
    /\ UNCHANGED <<projectVars, settings, next_request_id, stale_before, withdrawals,
                   token_held, deposited>>

\* The price a settled request pays, as the table reads now: the operation's
\* row, or, for an unpriced project, all that was attached.
PriceNow(q) ==
    IF Sells(q.project, q.operation) THEN PriceRow(q.project, q.operation).price
                                     ELSE q.attached_usd

\* developer_earnings after `amount` was earned by q: the author's share of a
\* priced operation, and the rest to the project's owner.
Paid(q, amount) ==
    LET owner == projects[q.project].owner
        share == AuthorShare(amount, PriceRow(q.project, q.operation).share_bp)
    IN IF Sells(q.project, q.operation)
       THEN Credit(Credit(earnings, project_pricing[q.project].author, share),
                   owner, amount - share)
       ELSE Credit(earnings, owner, amount)

SettleSuccess(r) ==
    LET q == pending[r]
        response == yields[r].response
        cost == Charge(q, response.used)
        s == SettleAttached(q.attached_usd, PriceNow(q), response.refund_usd)
        gone == q.project \notin DOMAIN projects   \* nobody left to credit
        back == s.back + (IF gone THEN s.earned ELSE 0)
        earned == IF gone THEN 0 ELSE s.earned
    IN /\ CallbackRuns(r)
       /\ r \in DOMAIN pending
       /\ yields[r].state = "resumed" /\ response.success
       /\ pending' = Claimed(r)
       /\ total_executions' = total_executions + 1
       /\ fees_collected' = fees_collected + cost
       /\ balances' = Credit(balances, RefundTo(q), back)
       /\ earnings' = IF gone THEN earnings ELSE Paid(q, earned)
       /\ book' = Close(r, "success", Minus(q.payment, cost), cost, back, earned)

SettleFailure(r) ==
    LET q == pending[r]
        cost == Charge(q, yields[r].response.used)
    IN /\ CallbackRuns(r)
       /\ r \in DOMAIN pending
       /\ yields[r].state = "resumed" /\ ~yields[r].response.success
       /\ pending' = Claimed(r)
       /\ total_executions' = total_executions + 1
       /\ fees_collected' = fees_collected + cost
       /\ balances' = Credit(balances, RefundTo(q), q.attached_usd)
       /\ book' = Close(r, "failure", Minus(q.payment, cost), cost, q.attached_usd, 0)
       /\ UNCHANGED earnings

\* The yield timed out: the base fee is booked whatever the payment was.
SettlePromiseFailed(r) ==
    LET q == pending[r]
    IN /\ CallbackRuns(r)
       /\ r \in DOMAIN pending
       /\ yields[r].state = "timed_out"
       /\ pending' = Claimed(r)
       /\ total_executions' = total_executions + 1
       /\ fees_collected' = fees_collected + fees.base
       /\ balances' = Credit(balances, RefundTo(q), q.attached_usd)
       /\ book' = Close(r, "promise_failed", Minus(q.payment, fees.base), fees.base,
                        q.attached_usd, 0)
       /\ UNCHANGED earnings

\* The request was cancelled before its callback ran.
NothingToSettle(r) ==
    /\ CallbackRuns(r)
    /\ r \notin DOMAIN pending
    /\ UNCHANGED <<pending, fees_collected, total_executions, balances, earnings, book>>

OnExecutionResponse(r) ==
    SettleSuccess(r) \/ SettleFailure(r) \/ SettlePromiseFailed(r) \/ NothingToSettle(r)

\* The callback ran out of its gas: its receipt leaves no trace, the yield is
\* spent.  (With nothing pending there was nothing to leave out.)
CallbackOutOfGas(r) ==
    /\ r \in DOMAIN pending
    /\ yields[r].state \in {"resumed", "timed_out"}
    /\ yields' = [yields EXCEPT ![r] = [state |-> "out_of_gas", response |-> None]]
    /\ UNCHANGED <<projectVars, settings, ledger, next_request_id, pending, stale_before,
                   fees_collected, total_executions, book>>

-----------------------------------------------------------------------------
\* Cancelling.  The yield is not touched: its callback still runs, later.

ClockAdvances(before) ==
    /\ stale_before < before /\ before <= next_request_id
    /\ stale_before' = before
    /\ UNCHANGED <<projectVars, settings, ledger, next_request_id, pending, yields,
                   fees_collected, total_executions, book>>

EndRequest(r, how, kept, back) ==
    /\ pending' = Claimed(r)
    /\ fees_collected' = fees_collected + kept
    /\ balances' = Credit(balances, RefundTo(pending[r]), back)
    /\ book' = Close(r, how, pending[r].payment - kept, kept, back, 0)
    /\ UNCHANGED <<projectVars, settings, next_request_id, stale_before, yields,
                   total_executions, earnings, withdrawals, token_held, deposited>>

\* What a stale request is charged: the estimate once its output was delivered.
StaleCharge(q) ==
    Least(q.payment, IF q.output_submitted THEN EstimateCost(q.limits) ELSE fees.base)

MayCancelIfUnpaused(r) == r < stale_before /\ ~paused
MayCancel(r) == r < stale_before

CancelStaleExecution(caller, r) ==
    /\ r \in DOMAIN pending
    /\ caller = pending[r].sender
    /\ MayCancel(r)
    /\ EndRequest(r, "stale", StaleCharge(pending[r]), pending[r].attached_usd)

EmergencyCancelExecution(r) ==
    /\ r \in DOMAIN pending
    /\ EndRequest(r, "owner", 0, pending[r].attached_usd)

\* clear_all_pending_requests(limit: 1): the oldest pending request.  A larger
\* limit does the same to the next ones, in the same receipt.
ClearAllPendingRequests(r) ==
    /\ r \in DOMAIN pending
    /\ \A other \in DOMAIN pending : r <= other
    /\ EndRequest(r, "owner", 0, pending[r].attached_usd)

\* cancel_pending_requests of one id; a longer list does the same to each.
\* The NEAR goes back, the stablecoin does not.
CancelPendingRequests(r) ==
    /\ r \in DOMAIN pending
    /\ EndRequest(r, "bulk", 0, 0)

-----------------------------------------------------------------------------
\* The owner's settings.

SetPricing(schedule) ==
    /\ fees' = schedule
    /\ UNCHANGED <<projectVars, payment_token, requests, ledger>>

SetPaymentTokenContract(token) ==
    /\ payment_token' = token
    /\ UNCHANGED <<projectVars, fees, requests, ledger>>

-----------------------------------------------------------------------------
\* Developer earnings leave through ft_transfer and a callback.

WithdrawDeveloperEarnings(caller, w) ==
    /\ earnings[caller] > 0
    /\ payment_token # None
    /\ w \notin DOMAIN withdrawals
    /\ earnings' = [earnings EXCEPT ![caller] = 0]
    /\ withdrawals' = Put(withdrawals, w,
           [developer |-> caller, amount |-> earnings[caller], token |-> payment_token,
            state |-> "sent"])
    /\ UNCHANGED <<projectVars, settings, requests, balances, token_held, deposited>>

\* External: the token contract pays when it can, or fails.
FtTransfer(w, ok) ==
    LET t == withdrawals[w].token
    IN /\ w \in DOMAIN withdrawals
       /\ withdrawals[w].state = "sent"
       /\ ok => token_held[t] >= withdrawals[w].amount
       /\ withdrawals' = [withdrawals EXCEPT ![w].state = IF ok THEN "paid" ELSE "failed"]
       /\ token_held' = IF ok THEN [token_held EXCEPT ![t] = @ - withdrawals[w].amount]
                              ELSE token_held
       /\ UNCHANGED <<projectVars, settings, requests, balances, earnings, deposited>>

\* on_withdraw_developer_earnings, on an error: added to what was earned since.
RestoredOver(developer, amount) == [earnings EXCEPT ![developer] = amount]
Restored(developer, amount) == Credit(earnings, developer, amount)

OnWithdrawDeveloperEarnings(w) ==
    /\ w \in DOMAIN withdrawals
    /\ withdrawals[w].state # "sent"
    /\ earnings' = IF withdrawals[w].state = "failed"
                   THEN Restored(withdrawals[w].developer, withdrawals[w].amount)
                   ELSE earnings
    /\ withdrawals' = Drop(withdrawals, w)
    /\ UNCHANGED <<projectVars, settings, requests, balances, token_held, deposited>>

-----------------------------------------------------------------------------
OperatorStep(r) ==
    \/ SubmitExecutionOutput(r)
    \/ \E response \in Responses :
          ResolveExecution(r, response) \/ SubmitExecutionOutputAndResolve(r, response)

ChainStep(r) ==
    \/ YieldTimeout(r)
    \/ OnExecutionResponse(r)
    \/ CallbackOutOfGas(r)

CancelStep(r) ==
    \/ \E c \in Users : CancelStaleExecution(c, r)
    \/ EmergencyCancelExecution(r)
    \/ ClearAllPendingRequests(r)
    \/ CancelPendingRequests(r)

OwnerStep ==
    \/ \E schedule \in FeeSchedules : SetPricing(schedule)
    \/ \E t \in OwnerTokens : SetPaymentTokenContract(t)

WithdrawalStep(w) ==
    \/ \E c \in Accounts : WithdrawDeveloperEarnings(c, w)
    \/ \E ok \in BOOLEAN : FtTransfer(w, ok)
    \/ OnWithdrawDeveloperEarnings(w)

ExecutionStep ==
    \/ \E a \in Users, t \in Tokens, n \in Deposits : DepositBalance(a, t, n)
    \/ \E q \in RequestInputs, v \in Versions \cup {None}, b \in BOOLEAN :
          RequestExecution(q, v, b)
    \/ \E r \in DOMAIN yields : OperatorStep(r) \/ ChainStep(r) \/ CancelStep(r)
    \/ \E before \in 1..MaxRequests : ClockAdvances(before)
    \/ OwnerStep
    \/ \E w \in 1..MaxWithdrawals : WithdrawalStep(w)

Next ==
    \/ ProjectsNext /\ UNCHANGED executionVars
    \/ ExecutionStep

Spec == Init /\ [][Next]_vars

-----------------------------------------------------------------------------
\* Every variable has the type of the field it models, and a yield that carries
\* no response was never resumed.
TypeOK ==
    /\ fees \in FeeRecords
    /\ payment_token \in Tokens \cup {None}
    /\ next_request_id \in Nat
    /\ stale_before \in Nat
    /\ DOMAIN pending \subseteq Nat
    /\ pending \in [DOMAIN pending -> RequestRecords]
    /\ DOMAIN yields \subseteq Nat
    /\ yields \in [DOMAIN yields -> YieldRecords]
    /\ \A r \in DOMAIN yields : yields[r].state = "resumed" => yields[r].response # None
    /\ DOMAIN book \subseteq Nat
    /\ book \in [DOMAIN book -> BookRecords]
    /\ balances \in [Accounts -> Nat]
    /\ earnings \in [Accounts -> Nat]
    /\ deposited \in [Accounts -> Nat]
    /\ token_held \in [Tokens -> Nat]
    /\ fees_collected \in Nat
    /\ total_executions \in Nat
    /\ DOMAIN withdrawals \subseteq Nat
    /\ withdrawals \in [DOMAIN withdrawals -> WithdrawalRecords]

\* A request is pending exactly while it is open: nothing has been paid for a
\* pending request, and nothing that ended (by the callback, by the sender's
\* cancel, by the owner's) can be found in pending_requests and paid again.
\* What is stored about a pending request is what its caller brought.
PendingIsOpen ==
    /\ DOMAIN book = DOMAIN yields
    /\ \A r \in DOMAIN book : r < next_request_id
    /\ DOMAIN pending = {r \in DOMAIN book : book[r].ending = "open"}
    /\ \A r \in DOMAIN pending :
          /\ book[r].sender = pending[r].sender
          /\ book[r].payment = pending[r].payment
          /\ book[r].attached = pending[r].attached_usd
          /\ book[r].input_deposit = pending[r].input_deposit
          /\ pending[r].input_deposit <= pending[r].payment
          /\ book[r].refunded = 0 /\ book[r].kept = 0
          /\ book[r].usd_back = 0 /\ book[r].usd_earned = 0

\* A request whose callback ran is not left behind in pending_requests: only a
\* callback that ran out of gas leaves its request to be cancelled.
CallbackSettles == \A r \in DOMAIN pending : yields[r].state # "done"

\* The stablecoin side of one request.
UsdAccounted(b) ==
    /\ b.ending \notin {"open", "bulk"} => b.usd_back + b.usd_earned = b.attached
    /\ b.ending \in {"open", "bulk"} => b.usd_back = 0 /\ b.usd_earned = 0
    /\ b.usd_earned > 0 => b.ending = "success"

\* The stablecoin a caller attached is, when the request ends, the caller's
\* again or a developer's, to the last unit, and a developer earns only from a
\* success; cancel_pending_requests alone credits nobody (it returns the NEAR
\* and drops the attached amount).
AttachedUsdAccounted == \A r \in DOMAIN book : UsdAccounted(book[r])

\* The NEAR side of one request.
NearEntryAccounted(b) ==
    /\ b.refunded <= b.payment
    /\ b.ending \in {"success", "failure", "stale"} => b.refunded + b.kept = b.payment
    /\ b.ending = "promise_failed" => b.refunded + b.kept >= b.payment
    /\ b.ending \in {"owner", "bulk"} => b.refunded = b.payment /\ b.kept = 0

\* The NEAR a caller paid is, when the request ends, refunded or booked as a
\* fee, to the last yocto: no settlement pays out more than came in.  On a
\* promise failure the fee booked may exceed what was kept (a base fee raised
\* above the payment), the refund never does.
NearAccounted == \A r \in DOMAIN book : NearEntryAccounted(book[r])

\* The deposit for a large input comes back from every settlement by a worker's
\* answer, whatever the run burned and whatever the fees became meanwhile
\* (the cap at the compute part in on_execution_response).
InputDepositReturned ==
    \A r \in DOMAIN book :
       book[r].ending \in {"success", "failure"} => book[r].refunded >= book[r].input_deposit

\* A request is settled once: after it ended no call and no late callback moves
\* another yocto or unit for it ("a request is settled here or there, never in
\* both", cancel_stale_execution).
SettledOnce ==
    [][ \A r \in DOMAIN book :
          /\ r \in DOMAIN book'
          /\ book[r].ending # "open" => book'[r] = book[r] ]_vars

\* Sums over the rows of the ledger.
SumOver(f(_), S) == MapThenSumSet(f, S)
BulkCancelled == {r \in DOMAIN book : book[r].ending = "bulk"}
NotPaidOut == {w \in DOMAIN withdrawals : withdrawals[w].state # "paid"}

\* Every stablecoin unit the contract holds is somebody's: a caller's balance,
\* attached to a pending request, a developer's earnings or a withdrawal under
\* way; what cancel_pending_requests dropped is the only remainder.
TokensConserved ==
    SumOver(LAMBDA t : token_held[t], Tokens) =
        SumOver(LAMBDA a : balances[a] + earnings[a], Accounts)
        + SumOver(LAMBDA r : pending[r].attached_usd, DOMAIN pending)
        + SumOver(LAMBDA w : withdrawals[w].amount, NotPaidOut)
        + SumOver(LAMBDA r : book[r].attached, BulkCancelled)

\* Money earned by a run of account/name reaches that account or the author the
\* owner's price list names, although the project is looked up again at
\* settlement and may have been deleted, transferred or created anew since the
\* request was admitted; and earnings fall only when withdrawn, to zero.
EarningsGoToTheProject ==
    [][ \A a \in Accounts :
          /\ earnings'[a] < earnings[a] => earnings'[a] = 0 /\ withdrawals' # withdrawals
          /\ (earnings'[a] > earnings[a] /\ withdrawals' = withdrawals) =>
                \E r \in DOMAIN pending \ DOMAIN pending' :
                   LET id == pending[r].project
                   IN /\ id # None
                      /\ \/ a = id[1]
                         \/ id \in DOMAIN project_pricing /\ a = project_pricing[id].author
      ]_vars

-----------------------------------------------------------------------------
\* What the comments say, where the code does something else.

\* return_attached_usd's comment: a path that ends a request and forgets the
\* stablecoin leaves tokens "with no ledger row pointing at them".
AttachedUsdNeverDropped ==
    \A r \in DOMAIN book :
       book[r].ending # "open" => book[r].usd_back + book[r].usd_earned = book[r].attached

-----------------------------------------------------------------------------
\* Fairness: the chain times out a yield and runs the callback it owes, time
\* passes, and the sender of a stale request keeps asking for it back.
Fairness ==
    /\ \A r \in 0..(MaxRequests - 1) :
          /\ WF_vars(YieldTimeout(r))
          /\ WF_vars(OnExecutionResponse(r) \/ CallbackOutOfGas(r))
          /\ WF_vars(\E c \in Users : CancelStaleExecution(c, r))
    /\ WF_vars(\E before \in 1..MaxRequests : ClockAdvances(before))

FairSpec == Spec /\ Fairness

\* No request is stuck: whatever the operator, the owner and the gas do, a
\* request ends, by its callback or by the sender's cancel, and its yield is
\* spent; a pause, a deleted project or a price change cannot hold it back.
EveryRequestEnds ==
    \A r \in 0..(MaxRequests - 1) :
       r \in DOMAIN pending ~> /\ r \notin DOMAIN pending /\ r \in DOMAIN yields
                               /\ yields[r].state \in {"done", "out_of_gas"}
=============================================================================
