---------------------------- MODULE EscrowProofs ----------------------------
(***************************************************************************)
(* Proof that the execution requests of the contract implement the escrow, *)
(* for any number of requests, accounts, tokens, prices and fee schedules. *)
(* It rests on the inductive invariant of ExecutionProofs: an entry that a *)
(* step closes balances in the state after it.                             *)
(***************************************************************************)
EXTENDS ExecutionEscrow, ExecutionProofs

USE ExecutionAssumption

\* The escrow's maps are the contract's.
LEMMA SameMaps ==
    /\ \A f, k, x : E!Put(f, k, x) = Put(f, k, x)
    /\ \A f, k : E!Drop(f, k) = Drop(f, k)
    /\ E!EmptyMap = EmptyMap
BY DEF E!Put, E!Drop, E!EmptyMap, Put, Drop, EmptyMap

\* A receipt that takes a request out of pending_requests, closes its entry and
\* credits its sender and the fees accordingly is a release of the escrow.
LEMMA Released ==
    ASSUME Inv, Inv', NEW r \in DOMAIN pending, NEW how \in Endings \ {"open"},
           NEW refunded \in Nat, NEW kept \in Nat, NEW back \in Nat, NEW earned \in Nat,
           pending' = Drop(pending, r),
           book' = Close(r, how, refunded, kept, back, earned),
           balances' = Credit(balances, pending[r].sender, back),
           fees_collected' = fees_collected + kept,
           UNCHANGED next_request_id
    PROVE  E!Release
<1> DEFINE c == Closed(book[r], how, refunded, kept, back, earned)
           o == OutcomeOf(c)
           e == BroughtBy(pending[r])
<1>1. /\ r \in DOMAIN book /\ book[r] \in BookRecords /\ book[r].ending = "open"
      /\ book[r].payment = pending[r].payment /\ book[r].attached = pending[r].attached_usd
      /\ book[r].input_deposit = pending[r].input_deposit
      /\ book[r].refunded = 0 /\ book[r].kept = 0
      /\ book[r].usd_back = 0 /\ book[r].usd_earned = 0
      /\ DOMAIN pending \subseteq DOMAIN book
    BY DEF Inv, TypeOK, SettlementInv, PendingIsOpen
<1>2. /\ c \in BookRecords /\ c.ending = how
      /\ c.payment = pending[r].payment /\ c.attached = pending[r].attached_usd
      /\ c.input_deposit = pending[r].input_deposit
      /\ c.refunded = refunded /\ c.kept = kept /\ c.usd_back = back /\ c.usd_earned = earned
    <2>1. /\ c \in BookRecords /\ c.ending = how
          /\ c.payment = book[r].payment /\ c.attached = book[r].attached
          /\ c.input_deposit = book[r].input_deposit
          /\ c.refunded = book[r].refunded + refunded /\ c.kept = book[r].kept + kept
          /\ c.usd_back = book[r].usd_back + back /\ c.usd_earned = book[r].usd_earned + earned
        BY <1>1 DEF Closed, BookRecords
    <2> HIDE DEF c
    <2>2. QED BY ONLY <1>1, <2>1, refunded \in Nat, kept \in Nat, back \in Nat, earned \in Nat
<1>3. /\ DOMAIN book' = DOMAIN book /\ book'[r] = c
      /\ \A x \in DOMAIN book : x # r => book'[x] = book[x]
    <2>1. book' = [book EXCEPT ![r] = c] BY DEF Close
    <2> HIDE DEF c
    <2>2. QED BY ONLY <1>1, <2>1 DEF BookRecords
<1> HIDE DEF c
<1>4. /\ UsdAccounted(c) /\ NearEntryAccounted(c)
      /\ how \in {"success", "failure"} => c.refunded >= c.input_deposit
    <2>1. AttachedUsdAccounted' /\ NearAccounted' /\ InputDepositReturned'
        BY DEF Inv, SettlementInv
    <2>2. QED
        BY ONLY <1>1, <1>2, <1>3, <2>1
           DEF AttachedUsdAccounted, NearAccounted, InputDepositReturned
<1>5. DOMAIN pending' = DOMAIN pending \ {r} /\ \A x \in DOMAIN pending' : pending'[x] = pending[x]
    BY DEF Drop
<1>6. Held' = Drop(Held, r) BY ONLY <1>5 DEF Held, Drop
<1>7. Divided' = Put(Divided, r, o) /\ r \notin DOMAIN Divided
    <2>1. DOMAIN book' \ DOMAIN pending' = (DOMAIN book \ DOMAIN pending) \cup {r}
        BY ONLY <1>1, <1>3, <1>5, r \in DOMAIN pending
    <2>2. \A x \in DOMAIN book \ DOMAIN pending : x # r /\ book'[x] = book[x]
        BY ONLY <1>3, r \in DOMAIN pending
    <2>3. OutcomeOf(book'[r]) = o BY ONLY <1>3
    <2> HIDE DEF o
    <2>4. QED BY ONLY <2>1, <2>2, <2>3, r \in DOMAIN pending DEF Divided, Put
<1>8. /\ o.how = how /\ o.refunded = refunded /\ o.kept = kept /\ o.back = back
      /\ o.earned = earned /\ o \in E!Outcomes
    <2>1. how \in E!Endings BY DEF Endings, E!Endings
    <2>2. QED BY <1>2, <2>1 DEF OutcomeOf, E!Outcomes
<1>9. /\ e.sender = pending[r].sender /\ e.payment = pending[r].payment
      /\ e.attached = pending[r].attached_usd /\ e.input_deposit = pending[r].input_deposit
      /\ e.payment \in Nat /\ e.attached \in Nat
    <2>1. pending[r] \in RequestRecords BY DEF Inv, TypeOK
    <2>2. QED BY <2>1 DEF BroughtBy, RequestRecords
<1> HIDE DEF o, e
<1>10. E!Divides(e, o)
    <2>1. how \in Endings \ {"open"} OBVIOUS
    <2>2. QED
        BY ONLY <1>2, <1>4, <1>8, <1>9, <2>1, back \in Nat, earned \in Nat, refunded \in Nat, kept \in Nat
           DEF E!Divides, UsdAccounted, NearEntryAccounted, Endings
<1>11. Held[r] = e /\ r \in DOMAIN Held /\ Divided'[r] = o /\ r \in DOMAIN Divided'
    BY ONLY <1>7, r \in DOMAIN pending DEF Held, Put, e
<1>12. QED
    BY <1>6, <1>7, <1>8, <1>9, <1>10, <1>11, SameMaps DEF E!Release, Credit

\* Every cancel is a release.
LEMMA CancelReleases ==
    ASSUME Inv, Inv', NEW r \in DOMAIN yields, CancelStep(r)
    PROVE  E!Release
<1>1. r \in DOMAIN pending
    BY DEF CancelStep, CancelStaleExecution, EmergencyCancelExecution, ClearAllPendingRequests,
           CancelPendingRequests
<1>2. TypeOK /\ SettlementInv BY DEF Inv
<1>3. /\ pending[r].payment \in Nat /\ pending[r].attached_usd \in Nat
      /\ pending[r].limits \in Nat
    BY <1>1, <1>2 DEF TypeOK, RequestRecords
<1>4. StaleCharge(pending[r]) \in Nat /\ StaleCharge(pending[r]) <= pending[r].payment
    BY <1>2, <1>3 DEF StaleCharge, Least, EstimateCost, TypeOK, FeeRecords
<1>5. ASSUME NEW how \in {"stale", "owner", "bulk"}, NEW kept \in Nat, NEW back \in Nat,
             kept <= pending[r].payment, EndRequest(r, how, kept, back)
      PROVE  E!Release
    <2>1. /\ pending' = Drop(pending, r)
          /\ book' = Close(r, how, pending[r].payment - kept, kept, back, 0)
          /\ balances' = Credit(balances, pending[r].sender, back)
          /\ fees_collected' = fees_collected + kept /\ UNCHANGED next_request_id
        BY <1>5 DEF EndRequest, Claimed, RefundTo
    <2>2. pending[r].payment - kept \in Nat BY <1>3, <1>5
    <2>3. how \in Endings \ {"open"} BY DEF Endings
    <2> DEFINE refunded == pending[r].payment - kept
    <2> HIDE DEF refunded
    <2>4. refunded \in Nat /\ book' = Close(r, how, refunded, kept, back, 0)
        BY <2>1, <2>2 DEF refunded
    <2>5. QED BY <1>1, <2>1, <2>3, <2>4, Released
<1>6. \/ EndRequest(r, "stale", StaleCharge(pending[r]), pending[r].attached_usd)
      \/ EndRequest(r, "owner", 0, pending[r].attached_usd)
      \/ EndRequest(r, "bulk", 0, 0)
    BY DEF CancelStep, CancelStaleExecution, EmergencyCancelExecution, ClearAllPendingRequests,
           CancelPendingRequests
<1>7. QED BY <1>3, <1>4, <1>5, <1>6

\* A callback that finds its request is a release.
LEMMA CallbackReleases ==
    ASSUME Inv, Inv', NEW r, SettleSuccess(r) \/ SettleFailure(r) \/ SettlePromiseFailed(r)
    PROVE  E!Release
<1> DEFINE q == pending[r]
<1>1. TypeOK /\ SettlementInv /\ ProjectsTypeOK BY DEF Inv
<1>2. r \in DOMAIN pending /\ CallbackRuns(r) /\ pending' = Drop(pending, r)
    BY DEF SettleSuccess, SettleFailure, SettlePromiseFailed, Claimed
<1>3. UNCHANGED next_request_id /\ r \in DOMAIN yields BY <1>2 DEF CallbackRuns
<1>4. /\ q \in RequestRecords /\ q.payment \in Nat /\ q.attached_usd \in Nat
    BY <1>1, <1>2, SettledRequest
<1>5. CASE SettleSuccess(r)
    <2> DEFINE response == yields[r].response
               cost == Charge(q, response.used)
               s == SettleAttached(q.attached_usd, PriceNow(q), response.refund_usd)
               gone == q.project \notin DOMAIN projects
               back == s.back + (IF gone THEN s.earned ELSE 0)
               earned == IF gone THEN 0 ELSE s.earned
               refunded == Minus(q.payment, cost)
    <2>1. /\ yields[r].state = "resumed"
          /\ fees_collected' = fees_collected + cost
          /\ balances' = Credit(balances, q.sender, back)
          /\ book' = Close(r, "success", refunded, cost, back, earned)
        BY <1>5 DEF SettleSuccess, RefundTo
    <2>2. response \in ResponseRecords /\ cost \in Nat /\ refunded \in Nat
        BY <1>1, <1>2, <1>3, <2>1, ResponseCharge
    <2>3. s.back \in Nat /\ s.earned \in Nat
        <3>1. PriceNow(q) \in Nat BY ONLY <1>1, <1>4, PriceNowType
        <3>2. response.refund_usd \in Nat BY <2>2 DEF ResponseRecords
        <3> HIDE DEF q, response
        <3>3. QED BY <1>4, <3>1, <3>2, SettleAttachedExact
    <2> HIDE DEF s, response, cost, refunded, gone
    <2>4. back \in Nat /\ earned \in Nat BY ONLY <2>3
    <2> HIDE DEF back, earned
    <2>5. "success" \in Endings \ {"open"} BY DEF Endings
    <2>6. QED BY <1>2, <1>3, <2>1, <2>2, <2>4, <2>5, Released
<1>6. CASE SettleFailure(r)
    <2> DEFINE cost == Charge(q, yields[r].response.used)
               refunded == Minus(q.payment, cost)
    <2>1. /\ yields[r].state = "resumed"
          /\ fees_collected' = fees_collected + cost
          /\ balances' = Credit(balances, q.sender, q.attached_usd)
          /\ book' = Close(r, "failure", refunded, cost, q.attached_usd, 0)
        BY <1>6 DEF SettleFailure, RefundTo
    <2>2. cost \in Nat /\ refunded \in Nat BY <1>1, <1>2, <1>3, <2>1, ResponseCharge
    <2> HIDE DEF cost, refunded
    <2>3. "failure" \in Endings \ {"open"} BY DEF Endings
    <2>4. QED BY <1>2, <1>3, <1>4, <2>1, <2>2, <2>3, Released
<1>7. CASE SettlePromiseFailed(r)
    <2> DEFINE base == fees.base
               refunded == Minus(q.payment, base)
    <2>1. /\ fees_collected' = fees_collected + base
          /\ balances' = Credit(balances, q.sender, q.attached_usd)
          /\ book' = Close(r, "promise_failed", refunded, base, q.attached_usd, 0)
        BY <1>7 DEF SettlePromiseFailed, RefundTo
    <2>2. base \in Nat BY <1>1 DEF TypeOK, FeeRecords
    <2> HIDE DEF base
    <2>3. refunded \in Nat BY <1>4, <2>2, MinusLeast
    <2> HIDE DEF refunded
    <2>4. "promise_failed" \in Endings \ {"open"} BY DEF Endings
    <2>5. QED BY <1>2, <1>3, <1>4, <2>1, <2>2, <2>3, <2>4, Released
<1>8. QED BY <1>5, <1>6, <1>7

\* request_execution admits what its caller brought.
LEMMA RequestAdmits ==
    ASSUME Inv, Inv', NEW q \in RequestInputs, NEW v, NEW compile_only,
           RequestExecution(q, v, compile_only)
    PROVE  E!Admit
<1> DEFINE n == next_request_id
           e == BroughtBy(q)
<1>1. /\ next_request_id' = n + 1 /\ pending' = Put(pending, n, q)
      /\ \E b : book' = Put(book, n, b)
      /\ balances' = [balances EXCEPT ![q.sender] = @ - q.attached_usd]
      /\ balances[q.sender] >= q.attached_usd
      /\ UNCHANGED fees_collected
    BY DEF RequestExecution, CanAfford
<1>2. q \in RequestRecords BY DEF RequestInputs, RequestRecords
<1>3. /\ e.sender = q.sender /\ e.attached = q.attached_usd /\ e \in E!Brought
      /\ e.payment = q.payment /\ e.input_deposit = q.input_deposit
      /\ q.sender \in Accounts /\ q.attached_usd \in Nat
    BY <1>2 DEF RequestRecords, BroughtBy, E!Brought
<1>4. n \notin DOMAIN book /\ DOMAIN pending \subseteq DOMAIN book /\ n \in Nat
    <2>1. n \in Nat /\ PendingIsOpen BY DEF Inv, TypeOK, SettlementInv
    <2>2. QED BY ONLY <2>1 DEF PendingIsOpen
<1> HIDE DEF n
<1>5. /\ DOMAIN pending' = DOMAIN pending \cup {n} /\ pending'[n] = q
      /\ \A x \in DOMAIN pending : pending'[x] = pending[x]
    BY <1>1, <1>4 DEF Put
<1>6. e.input_deposit <= e.payment
    <2>1. PendingIsOpen' BY DEF Inv, SettlementInv
    <2>2. QED BY ONLY <1>3, <1>5, <2>1 DEF PendingIsOpen
<1>7. Held' = Put(Held, n, e) BY ONLY <1>5 DEF Held, Put
<1>8. Divided' = Divided
    <2>1. /\ DOMAIN book' \ DOMAIN pending' = DOMAIN book \ DOMAIN pending
          /\ \A x \in DOMAIN book : book'[x] = book[x]
        BY ONLY <1>1, <1>4, <1>5 DEF Put
    <2>2. QED BY ONLY <2>1 DEF Divided
<1>9. balances[q.sender] \in Nat BY <1>3 DEF Inv, TypeOK
<1>10. n \in DOMAIN Held' /\ Held'[n] = e BY ONLY <1>7 DEF Put
<1> HIDE DEF e
<1>11. QED
    BY <1>1, <1>3, <1>6, <1>7, <1>8, <1>9, <1>10, SameMaps DEF E!Admit, n

\* Steps that move nothing the escrow sees.
LEMMA Unseen ==
    ASSUME UNCHANGED <<next_request_id, book, balances, fees_collected>>,
           DOMAIN pending' = DOMAIN pending,
           \A x \in DOMAIN pending : BroughtBy(pending'[x]) = BroughtBy(pending[x])
    PROVE  UNCHANGED E!escrowVars
<1>1. Held' = Held BY DEF Held
<1>2. Divided' = Divided BY DEF Divided
<1>3. QED BY <1>1, <1>2 DEF E!escrowVars

\* Every step of the contract and of the chain is a step of the escrow, or
\* moves nothing it sees.
LEMMA EscrowStep ==
    ASSUME Inv, Inv', [Next]_vars
    PROVE  [E!EscrowNext]_(E!escrowVars)
<1>1. TypeOK /\ SettlementInv BY DEF Inv
<1>2. ASSUME UNCHANGED <<next_request_id, book, balances, fees_collected, pending>>
      PROVE  UNCHANGED E!escrowVars
    BY <1>2, Unseen
<1>3. ASSUME NEW r \in DOMAIN yields, OperatorStep(r)
      PROVE  UNCHANGED E!escrowVars
    <2>1. /\ UNCHANGED <<next_request_id, book, balances, fees_collected>>
          /\ UNCHANGED pending \/ (r \in DOMAIN pending /\ pending' = OutputStored(r))
        BY <1>3 DEF OperatorStep, SubmitExecutionOutput, ResolveExecution,
                    SubmitExecutionOutputAndResolve, ledger
    <2>2. CASE UNCHANGED pending BY <1>2, <2>1, <2>2
    <2>3. CASE r \in DOMAIN pending /\ pending' = OutputStored(r)
        <3> DEFINE q == [pending[r] EXCEPT !.output_submitted = TRUE]
        <3>1. pending[r] \in RequestRecords BY <1>1, <2>3 DEF TypeOK
        <3>2. BroughtBy(q) = BroughtBy(pending[r]) BY <3>1 DEF RequestRecords, BroughtBy
        <3>3. pending' = [pending EXCEPT ![r] = q] BY <2>3 DEF OutputStored
        <3> HIDE DEF q
        <3>4. /\ DOMAIN pending' = DOMAIN pending
              /\ \A x \in DOMAIN pending : BroughtBy(pending'[x]) = BroughtBy(pending[x])
            BY <2>3, <3>2, <3>3
        <3>5. QED BY <2>1, <3>4, Unseen
    <2>4. QED BY <2>1, <2>2, <2>3
<1>4. ASSUME NEW r \in DOMAIN yields, ChainStep(r)
      PROVE  E!Release \/ UNCHANGED E!escrowVars
    <2>1. CASE YieldTimeout(r) \/ CallbackOutOfGas(r) \/ NothingToSettle(r)
        <3>1. UNCHANGED <<next_request_id, book, balances, fees_collected, pending>>
            BY <2>1 DEF YieldTimeout, CallbackOutOfGas, NothingToSettle, CallbackRuns, ledger
        <3>2. QED BY <1>2, <3>1
    <2>2. CASE SettleSuccess(r) \/ SettleFailure(r) \/ SettlePromiseFailed(r)
        BY <2>2, CallbackReleases
    <2>3. QED BY <1>4, <2>1, <2>2 DEF ChainStep, OnExecutionResponse
<1>5. ASSUME NEW a \in Users, NEW t \in Tokens, NEW n \in Deposits, DepositBalance(a, t, n)
      PROVE  E!Receive
    <2>1. /\ balances' = Credit(balances, a, n)
          /\ UNCHANGED <<next_request_id, book, fees_collected, pending>>
        BY <1>5 DEF DepositBalance, requests
    <2>2. a \in Accounts /\ n \in Nat OBVIOUS
    <2>3. balances \in [Accounts -> Nat] BY <1>1 DEF TypeOK
    <2>4. /\ balances' = [balances EXCEPT ![a] = balances'[a]]
          /\ balances'[a] >= balances[a]
        BY ONLY <2>1, <2>2, <2>3 DEF Credit
    <2>5. Held' = Held /\ Divided' = Divided BY ONLY <2>1 DEF Held, Divided
    <2>6. QED BY <2>1, <2>2, <2>4, <2>5 DEF E!Receive
<1>6. ASSUME NEW w, WithdrawalStep(w) PROVE UNCHANGED E!escrowVars
    <2>1. UNCHANGED <<next_request_id, book, balances, fees_collected, pending>>
        BY <1>6 DEF WithdrawalStep, WithdrawDeveloperEarnings, FtTransfer,
                    OnWithdrawDeveloperEarnings, requests
    <2>2. QED BY <1>2, <2>1
<1>7. ASSUME OwnerStep \/ (\E before : ClockAdvances(before)) \/ UNCHANGED executionVars
      PROVE  UNCHANGED E!escrowVars
    <2>1. UNCHANGED <<next_request_id, book, balances, fees_collected, pending>>
        BY <1>7 DEF OwnerStep, SetPricing, SetPaymentTokenContract, ClockAdvances, executionVars,
                    requests, ledger
    <2>2. QED BY <1>2, <2>1
<1>8. CASE ExecutionStep
    <2>1. CASE \E r \in DOMAIN yields : OperatorStep(r) \/ ChainStep(r) \/ CancelStep(r)
        BY <1>3, <1>4, <2>1, CancelReleases DEF E!EscrowNext
    <2>2. CASE \E q \in RequestInputs, v \in Versions \cup {None}, b \in BOOLEAN :
                  RequestExecution(q, v, b)
        BY <2>2, RequestAdmits DEF E!EscrowNext
    <2>3. CASE \E a \in Users, t \in Tokens, n \in Deposits : DepositBalance(a, t, n)
        BY <1>5, <2>3 DEF E!EscrowNext
    <2>4. CASE \E w \in 1..MaxWithdrawals : WithdrawalStep(w) BY <1>6, <2>4
    <2>5. CASE OwnerStep \/ \E before \in 1..MaxRequests : ClockAdvances(before) BY <1>7, <2>5
    <2>6. QED BY <1>8, <2>1, <2>2, <2>3, <2>4, <2>5 DEF ExecutionStep
<1>9. QED BY <1>7, <1>8 DEF Next, vars

\* A contract fresh from `new` holds nothing.
LEMMA EscrowInitially == ASSUME Init PROVE E!EscrowInit
<1>1. /\ next_request_id = 0 /\ fees_collected = 0 /\ balances = [a \in Accounts |-> 0]
      /\ pending = EmptyMap /\ book = EmptyMap
    BY DEF Init, ExecutionInit
<1>2. DOMAIN pending = {} /\ DOMAIN book = {} BY <1>1 DEF EmptyMap
<1>3. Held = EmptyMap /\ Divided = EmptyMap BY ONLY <1>2 DEF Held, Divided, EmptyMap
<1>4. QED BY <1>1, <1>3, SameMaps DEF E!EscrowInit

\* The contract implements the escrow: whatever is called, answered, timed out
\* or cancelled and in whatever order, what a caller brought is held under its
\* own number and released once, in one receipt, divided exactly.
THEOREM ExecutionImplementsEscrow == Spec => ImplementsEscrow
<1>1. Init => E!EscrowInit BY EscrowInitially
<1>2. Inv /\ Inv' /\ [Next]_vars => [E!EscrowNext]_(E!escrowVars) BY EscrowStep
<1>3. QED BY <1>1, <1>2, InvAlways, PTL DEF Spec, ImplementsEscrow, E!EscrowSpec
=============================================================================
