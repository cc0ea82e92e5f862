-------------------------- MODULE ExecutionProofs ---------------------------
(***************************************************************************)
(* Proofs about execution requests, for any number of requests, accounts,  *)
(* tokens, prices and fee schedules: every field keeps its type, and every *)
(* request is settled once and to the last unit.                           *)
(***************************************************************************)
EXTENDS Execution, ProjectsProofs

USE ExecutionAssumption

-----------------------------------------------------------------------------
\* Lemmas about the arithmetic of a settlement.

\* saturating_sub and min stay in the naturals and below their arguments.
LEMMA MinusLeast ==
    ASSUME NEW a \in Nat, NEW b \in Nat
    PROVE  /\ Minus(a, b) \in Nat /\ Minus(a, b) <= a /\ Minus(a, b) + b >= a
           /\ b <= a => Minus(a, b) = a - b
           /\ Least(a, b) \in Nat /\ Least(a, b) <= a /\ Least(a, b) <= b
BY DEF Minus, Least

\* settle_attached gives back and hands on exactly what was attached, and the
\* guest cannot reach into what the caller attached over the price.
LEMMA SettleAttachedExact ==
    ASSUME NEW attached \in Nat, NEW price \in Nat, NEW guest \in Nat
    PROVE  LET s == SettleAttached(attached, price, guest)
           IN /\ s.back \in Nat /\ s.earned \in Nat
              /\ s.back + s.earned = attached
              /\ s.earned <= price
BY DEF SettleAttached, Minus, Least

\* split_payment never pays the author more than came in.
LEMMA AuthorShareBound ==
    ASSUME NEW paid \in Nat, NEW bp \in Nat, bp <= 10000
    PROVE  AuthorShare(paid, bp) \in Nat /\ AuthorShare(paid, bp) <= paid
BY DEF AuthorShare

\* The charge for a run is never more than was attached for compute.
LEMMA ChargeBound ==
    ASSUME TypeOK, NEW q \in RequestRecords, NEW used \in UsageRecords,
           q.input_deposit <= q.payment
    PROVE  /\ Charge(q, used) \in Nat
           /\ Charge(q, used) + q.input_deposit <= q.payment
<1>1. q.payment \in Nat /\ q.input_deposit \in Nat BY DEF RequestRecords
<1>2. CalculateCost(used) \in Nat
    BY DEF CalculateCost, TypeOK, FeeRecords, UsageRecords
<1>3. QED BY <1>1, <1>2 DEF Charge, Minus, Least

-----------------------------------------------------------------------------
\* Lemmas about the entry of a request in the book.

\* Closing a request's entry sets the outcome and keeps what was admitted.
LEMMA ClosedEntry ==
    ASSUME NEW b \in BookRecords, NEW how \in Endings, NEW refunded \in Nat, NEW kept \in Nat,
           NEW back \in Nat, NEW earned \in Nat
    PROVE  LET c == Closed(b, how, refunded, kept, back, earned)
           IN /\ c \in BookRecords
              /\ c.sender = b.sender /\ c.payment = b.payment /\ c.attached = b.attached
              /\ c.input_deposit = b.input_deposit /\ c.ending = how
              /\ c.refunded = b.refunded + refunded /\ c.kept = b.kept + kept
              /\ c.usd_back = b.usd_back + back /\ c.usd_earned = b.usd_earned + earned
BY DEF Closed, BookRecords

\* The type invariant by the variables it is about.
SettingsType == fees \in FeeRecords /\ payment_token \in Tokens \cup {None}
BookType ==
    /\ DOMAIN pending \subseteq Nat /\ pending \in [DOMAIN pending -> RequestRecords]
    /\ DOMAIN book \subseteq Nat /\ book \in [DOMAIN book -> BookRecords]
YieldsType ==
    /\ DOMAIN yields \subseteq Nat /\ yields \in [DOMAIN yields -> YieldRecords]
    /\ \A r \in DOMAIN yields : yields[r].state = "resumed" => yields[r].response # None
CountersType ==
    /\ next_request_id \in Nat /\ stale_before \in Nat
    /\ fees_collected \in Nat /\ total_executions \in Nat
BalancesType == balances \in [Accounts -> Nat] /\ earnings \in [Accounts -> Nat]
TokensType ==
    /\ deposited \in [Accounts -> Nat] /\ token_held \in [Tokens -> Nat]
    /\ DOMAIN withdrawals \subseteq Nat
    /\ withdrawals \in [DOMAIN withdrawals -> WithdrawalRecords]

\* The type invariant is the conjunction of its parts, one per group of
\* variables, so that a step need only look at the groups it changes.
LEMMA ExecTypeParts ==
    /\ TypeOK <=> /\ SettingsType /\ BookType /\ YieldsType /\ CountersType
                  /\ BalancesType /\ TokensType
    /\ TypeOK' <=> /\ SettingsType' /\ BookType' /\ YieldsType' /\ CountersType'
                   /\ BalancesType' /\ TokensType'
BY DEF TypeOK, SettingsType, BookType, YieldsType, CountersType, BalancesType, TokensType

\* The inductive invariant: types, and the book of every request.  The settlement
\* facts of a request follow from what is stored about it while it is pending,
\* which PendingIsOpen ties to what its caller brought.
SettlementInv ==
    /\ PendingIsOpen /\ CallbackSettles
    /\ AttachedUsdAccounted /\ NearAccounted /\ InputDepositReturned
Inv == ProjectsTypeOK /\ TypeOK /\ SettlementInv

\* A call that ends a pending request, and closes its entry with amounts that
\* balance, keeps the book right.
LEMMA EndsRequest ==
    ASSUME TypeOK, SettlementInv,
           NEW r \in DOMAIN pending, NEW how \in Endings \ {"open"},
           NEW refunded \in Nat, NEW kept \in Nat, NEW back \in Nat, NEW earned \in Nat,
           pending' = Drop(pending, r),
           book' = Close(r, how, refunded, kept, back, earned),
           UNCHANGED next_request_id,
           DOMAIN yields' = DOMAIN yields,
           \A x \in DOMAIN yields : x # r => yields'[x] = yields[x],
           UsdAccounted(Closed(book[r], how, refunded, kept, back, earned)),
           NearEntryAccounted(Closed(book[r], how, refunded, kept, back, earned)),
           how \in {"success", "failure"} => refunded >= pending[r].input_deposit
    PROVE  BookType' /\ SettlementInv'
<1> DEFINE c == Closed(book[r], how, refunded, kept, back, earned)
<1>1. r \in DOMAIN book /\ book[r] \in BookRecords
    BY DEF SettlementInv, PendingIsOpen, TypeOK
<1>2. /\ c \in BookRecords /\ c.ending = how
      /\ c.input_deposit = book[r].input_deposit
      /\ c.refunded = book[r].refunded + refunded
    BY <1>1, ClosedEntry
<1>3. /\ DOMAIN book' = DOMAIN book /\ book'[r] = c
      /\ \A x \in DOMAIN book : x # r => book'[x] = book[x]
      /\ book' \in [DOMAIN book -> BookRecords]
    <2> HIDE DEF c
    <2>1. book' = [book EXCEPT ![r] = c] BY DEF Close, c
    <2>2. QED BY <1>1, <1>2, <2>1 DEF TypeOK
<1> HIDE DEF c
<1>4. /\ DOMAIN pending' = DOMAIN pending \ {r}
      /\ \A x \in DOMAIN pending' : pending'[x] = pending[x]
      /\ pending' \in [DOMAIN pending' -> RequestRecords]
    BY DEF Drop, TypeOK
<1>5. BookType' BY <1>3, <1>4 DEF BookType, TypeOK
<1>6. PendingIsOpen'
    <2>1. DOMAIN pending' = {x \in DOMAIN book' : book'[x].ending = "open"}
        BY <1>2, <1>3, <1>4 DEF SettlementInv, PendingIsOpen
    <2>2. ASSUME NEW x \in DOMAIN pending'
          PROVE  x \in DOMAIN pending /\ x # r /\ pending'[x] = pending[x] /\ book'[x] = book[x]
        BY <1>3, <1>4 DEF SettlementInv, PendingIsOpen
    <2>3. \A x \in DOMAIN book' : x < next_request_id'
        BY <1>3 DEF SettlementInv, PendingIsOpen
    <2>4. DOMAIN book' = DOMAIN yields' BY <1>3 DEF SettlementInv, PendingIsOpen
    <2>5. QED BY <2>1, <2>2, <2>3, <2>4 DEF SettlementInv, PendingIsOpen
<1>7. CallbackSettles' BY <1>4 DEF SettlementInv, CallbackSettles, PendingIsOpen
<1>8. AttachedUsdAccounted' BY <1>3 DEF SettlementInv, AttachedUsdAccounted, c
<1>9. NearAccounted' BY <1>3 DEF SettlementInv, NearAccounted, c
<1>10. InputDepositReturned'
    BY <1>1, <1>2, <1>3 DEF SettlementInv, InputDepositReturned, PendingIsOpen
<1>11. QED BY <1>5, <1>6, <1>7, <1>8, <1>9, <1>10 DEF SettlementInv

\* A step that leaves the book alone, and what is stored about the money of each
\* pending request, keeps the book right.
LEMMA KeepsBook ==
    ASSUME SettlementInv,
           UNCHANGED <<next_request_id, book>>,
           DOMAIN pending' = DOMAIN pending, DOMAIN yields' = DOMAIN yields,
           \A x \in DOMAIN pending :
              /\ pending'[x].sender = pending[x].sender
              /\ pending'[x].payment = pending[x].payment
              /\ pending'[x].attached_usd = pending[x].attached_usd
              /\ pending'[x].input_deposit = pending[x].input_deposit
              /\ yields'[x].state # "done"
    PROVE  SettlementInv'
<1>1. PendingIsOpen' BY DEF SettlementInv, PendingIsOpen
<1>2. CallbackSettles' BY DEF CallbackSettles
<1>3. AttachedUsdAccounted' /\ NearAccounted' /\ InputDepositReturned'
    BY DEF SettlementInv, AttachedUsdAccounted, NearAccounted, InputDepositReturned
<1>4. QED BY <1>1, <1>2, <1>3 DEF SettlementInv

\* Crediting one row of a ledger leaves a ledger.
LEMMA CreditType ==
    ASSUME NEW S, NEW rows \in [S -> Nat], NEW a \in S, NEW n \in Nat
    PROVE  Credit(rows, a, n) \in [S -> Nat]
BY DEF Credit

-----------------------------------------------------------------------------
\* Cancelling.

\* Every cancel that returns at most the payment keeps the settlement invariant:
\* the request leaves the pending table and its entry is closed in one step.
LEMMA EndRequestKeeps ==
    ASSUME TypeOK, SettlementInv, NEW r \in DOMAIN pending,
           NEW how \in {"stale", "owner", "bulk"}, NEW kept \in Nat, NEW back \in Nat,
           kept <= pending[r].payment,
           how \in {"owner", "bulk"} => kept = 0,
           back = (IF how = "bulk" THEN 0 ELSE pending[r].attached_usd),
           EndRequest(r, how, kept, back)
    PROVE  TypeOK' /\ SettlementInv'
<1> DEFINE b == book[r]
           refunded == pending[r].payment - kept
           c == Closed(b, how, refunded, kept, back, 0)
<1>1. /\ pending[r] \in RequestRecords /\ b \in BookRecords
      /\ b.payment = pending[r].payment /\ b.attached = pending[r].attached_usd
      /\ b.refunded = 0 /\ b.kept = 0 /\ b.usd_back = 0 /\ b.usd_earned = 0
    BY DEF TypeOK, SettlementInv, PendingIsOpen
<1>2. pending[r].payment \in Nat /\ pending[r].sender \in Accounts BY <1>1 DEF RequestRecords
<1>3. refunded \in Nat BY <1>2
<1>4. how \in Endings \ {"open"} BY DEF Endings
<1>5. /\ c.payment = b.payment /\ c.attached = b.attached /\ c.ending = how
      /\ c.refunded = refunded /\ c.kept = kept /\ c.usd_back = back /\ c.usd_earned = 0
    <2> HIDE DEF b, refunded
    <2>1. refunded + 0 = refunded /\ kept + 0 = kept /\ 0 + back = back BY <1>3
    <2>2. QED BY <1>1, <1>3, <2>1 DEF Closed
<1>6. UsdAccounted(c) /\ NearEntryAccounted(c)
    <2> HIDE DEF c, b
    <2>1. UsdAccounted(c) BY <1>1, <1>5 DEF UsdAccounted, RequestRecords
    <2>2. NearEntryAccounted(c) BY <1>1, <1>2, <1>5 DEF NearEntryAccounted
    <2>3. QED BY <2>1, <2>2
<1>7. /\ pending' = Drop(pending, r) /\ book' = Close(r, how, refunded, kept, back, 0)
      /\ UNCHANGED <<next_request_id, yields>>
    BY DEF EndRequest, Claimed
<1>8. BookType' /\ SettlementInv'
    <2> HIDE DEF refunded
    <2>1. QED BY <1>3, <1>4, <1>6, <1>7, EndsRequest
<1>9. balances' \in [Accounts -> Nat]
    BY <1>2, CreditType DEF EndRequest, RefundTo, TypeOK
<1>10. fees_collected' \in Nat BY DEF EndRequest, TypeOK
<1>11. UNCHANGED <<settings, next_request_id, stale_before, yields, total_executions, earnings,
                   withdrawals, token_held, deposited>>
    BY DEF EndRequest
<1>12. QED
    BY <1>8, <1>9, <1>10, <1>11, ExecTypeParts
       DEF settings, SettingsType, YieldsType, CountersType, BalancesType, TokensType

\* The four cancelling calls (cancel_stale_execution, emergency_cancel_execution,
\* clear_all_pending_requests, cancel_pending_requests) keep the invariant.
LEMMA CancelKeeps ==
    ASSUME TypeOK, SettlementInv, NEW r \in DOMAIN yields, CancelStep(r)
    PROVE  TypeOK' /\ SettlementInv'
<1>1. r \in DOMAIN pending
    BY DEF CancelStep, CancelStaleExecution, EmergencyCancelExecution, ClearAllPendingRequests,
           CancelPendingRequests
<1>2. pending[r] \in RequestRecords BY <1>1 DEF TypeOK
<1>3. pending[r].payment \in Nat /\ pending[r].attached_usd \in Nat /\ pending[r].limits \in Nat
    BY <1>2 DEF RequestRecords
<1>4. StaleCharge(pending[r]) \in Nat /\ StaleCharge(pending[r]) <= pending[r].payment
    BY <1>3 DEF StaleCharge, Least, EstimateCost, TypeOK, FeeRecords
<1>5. \/ EndRequest(r, "stale", StaleCharge(pending[r]), pending[r].attached_usd)
      \/ EndRequest(r, "owner", 0, pending[r].attached_usd)
      \/ EndRequest(r, "bulk", 0, 0)
    BY DEF CancelStep, CancelStaleExecution, EmergencyCancelExecution, ClearAllPendingRequests,
           CancelPendingRequests
<1>6. CASE EndRequest(r, "stale", StaleCharge(pending[r]), pending[r].attached_usd)
    BY <1>1, <1>3, <1>4, <1>6, EndRequestKeeps
<1>7. CASE EndRequest(r, "owner", 0, pending[r].attached_usd)
    BY <1>1, <1>3, <1>7, EndRequestKeeps
<1>8. CASE EndRequest(r, "bulk", 0, 0)
    BY <1>1, <1>3, <1>8, EndRequestKeeps
<1>9. QED BY <1>5, <1>6, <1>7, <1>8

-----------------------------------------------------------------------------
\* The settlement callback.

\* A settlement closes its request when the refund and the fee make up the
\* payment (or, on a promise failure, at least make it up), and the stablecoin
\* returned and earned make up what was attached.
LEMMA SettleKeeps ==
    ASSUME TypeOK, SettlementInv, NEW r \in DOMAIN pending,
           NEW how \in {"success", "failure", "promise_failed"},
           NEW refunded \in Nat, NEW kept \in Nat, NEW back \in Nat, NEW earned \in Nat,
           CallbackRuns(r), pending' = Claimed(r),
           book' = Close(r, how, refunded, kept, back, earned),
           total_executions' = total_executions + 1,
           fees_collected' = fees_collected + kept,
           BalancesType',
           refunded <= pending[r].payment,
           how # "promise_failed" => refunded + kept = pending[r].payment,
           how = "promise_failed" => refunded + kept >= pending[r].payment,
           how # "promise_failed" => refunded >= pending[r].input_deposit,
           back + earned = pending[r].attached_usd,
           earned > 0 => how = "success"
    PROVE  TypeOK' /\ SettlementInv'
<1> DEFINE b == book[r]
           c == Closed(b, how, refunded, kept, back, earned)
<1>1. /\ b \in BookRecords
      /\ b.payment = pending[r].payment /\ b.attached = pending[r].attached_usd
      /\ b.refunded = 0 /\ b.kept = 0 /\ b.usd_back = 0 /\ b.usd_earned = 0
    BY DEF TypeOK, SettlementInv, PendingIsOpen
<1>2. how \in Endings \ {"open"} BY DEF Endings
<1>3. /\ c.payment = b.payment /\ c.attached = b.attached /\ c.ending = how
      /\ c.refunded = refunded /\ c.kept = kept /\ c.usd_back = back /\ c.usd_earned = earned
    <2> HIDE DEF b
    <2>1. c.payment = b.payment /\ c.attached = b.attached /\ c.ending = how BY DEF Closed
    <2>2. c.refunded = 0 + refunded /\ c.kept = 0 + kept BY <1>1 DEF Closed
    <2>3. c.usd_back = 0 + back /\ c.usd_earned = 0 + earned BY <1>1 DEF Closed
    <2> HIDE DEF c
    <2>4. QED BY <2>1, <2>2, <2>3
<1>4. UsdAccounted(c) /\ NearEntryAccounted(c)
    <2> HIDE DEF c, b
    <2>1. UsdAccounted(c) BY <1>1, <1>3 DEF UsdAccounted
    <2>2. NearEntryAccounted(c) BY <1>1, <1>3 DEF NearEntryAccounted
    <2>3. QED BY <2>1, <2>2
<1>5. r \in DOMAIN yields /\ yields' = [yields EXCEPT ![r] = [state |-> "done", response |-> None]]
    BY DEF CallbackRuns
<1>6. BookType' /\ SettlementInv'
    <2>1. pending' = Drop(pending, r) /\ UNCHANGED next_request_id BY DEF Claimed, CallbackRuns
    <2>2. DOMAIN yields' = DOMAIN yields /\ \A x \in DOMAIN yields : x # r => yields'[x] = yields[x]
        BY <1>5
    <2>3. QED BY <1>2, <1>4, <2>1, <2>2, EndsRequest
<1>7. YieldsType'
    BY <1>5 DEF TypeOK, YieldsType, YieldRecords
<1>8. CountersType' BY DEF TypeOK, CountersType, CallbackRuns
<1>9. SettingsType' /\ TokensType'
    BY DEF TypeOK, SettingsType, TokensType, CallbackRuns, settings
<1>10. QED BY <1>6, <1>7, <1>8, <1>9, ExecTypeParts

\* The price looked up at settlement is a natural number, its share at most 100 %.
LEMMA PriceNowType ==
    ASSUME ProjectsTypeOK, NEW q \in RequestRecords
    PROVE  /\ PriceNow(q) \in Nat
           /\ Sells(q.project, q.operation) =>
                 /\ project_pricing[q.project].author \in Accounts
                 /\ PriceRow(q.project, q.operation).share_bp \in Nat
                 /\ PriceRow(q.project, q.operation).share_bp <= 10000
<1>1. q.attached_usd \in Nat BY DEF RequestRecords
<1>2. ASSUME Sells(q.project, q.operation)
      PROVE  /\ project_pricing[q.project].author \in Accounts
             /\ PriceRow(q.project, q.operation).price \in Nat
             /\ PriceRow(q.project, q.operation).share_bp \in Nat
             /\ PriceRow(q.project, q.operation).share_bp <= 10000
    <2>1. project_pricing[q.project] \in Pricings
        BY <1>2 DEF Sells, ProjectsTypeOK
    <2>2. q.operation \in DOMAIN project_pricing[q.project].rows BY <1>2 DEF Sells
    <2>3. /\ project_pricing[q.project].author \in Accounts
          /\ \A op \in DOMAIN project_pricing[q.project].rows :
                /\ project_pricing[q.project].rows[op].price \in Nat
                /\ project_pricing[q.project].rows[op].share_bp \in Nat
                /\ project_pricing[q.project].rows[op].share_bp <= 10000
        BY ONLY <2>1, ProjectsAssumption
    <2>4. QED BY ONLY <2>2, <2>3 DEF PriceRow
<1>3. QED BY <1>1, <1>2 DEF PriceNow

\* The owner, and the author of a priced operation, are credited what was earned.
LEMMA PaidType ==
    ASSUME ProjectsTypeOK, TypeOK, NEW q \in RequestRecords, q.project \in DOMAIN projects,
           NEW amount \in Nat
    PROVE  Paid(q, amount) \in [Accounts -> Nat]
<1> DEFINE owner == projects[q.project].owner
           author == project_pricing[q.project].author
           bp == PriceRow(q.project, q.operation).share_bp
           share == AuthorShare(amount, bp)
<1>1. owner \in Accounts
    <2>1. projects[q.project] \in ProjectRecords BY DEF ProjectsTypeOK
    <2>2. QED BY <2>1 DEF ProjectRecords
<1>2. CASE ~Sells(q.project, q.operation)
    BY <1>1, <1>2, CreditType DEF Paid, TypeOK
<1>3. CASE Sells(q.project, q.operation)
    <2>1. share \in Nat /\ share <= amount /\ author \in Accounts
        <3>1. bp \in Nat /\ bp <= 10000 /\ author \in Accounts BY <1>3, PriceNowType
        <3> HIDE DEF bp
        <3>2. QED BY ONLY <3>1, amount \in Nat, AuthorShareBound
    <2>2. Paid(q, amount) = Credit(Credit(earnings, author, share), owner, amount - share)
        BY <1>3 DEF Paid
    <2> HIDE DEF owner, author, share
    <2>3. Credit(earnings, author, share) \in [Accounts -> Nat]
        BY <2>1, CreditType DEF TypeOK
    <2>4. amount - share \in Nat BY <2>1
    <2>5. QED BY <1>1, <2>2, <2>3, <2>4, CreditType
<1>4. QED BY <1>2, <1>3

\* What is known of the request a callback settles.
LEMMA SettledRequest ==
    ASSUME TypeOK, SettlementInv, NEW r \in DOMAIN pending
    PROVE  /\ pending[r] \in RequestRecords
           /\ pending[r].sender \in Accounts
           /\ pending[r].payment \in Nat /\ pending[r].attached_usd \in Nat
           /\ pending[r].input_deposit \in Nat
           /\ pending[r].input_deposit <= pending[r].payment
<1>1. pending[r] \in RequestRecords BY DEF TypeOK
<1>2. pending[r].input_deposit <= pending[r].payment BY DEF SettlementInv, PendingIsOpen
<1>3. QED BY <1>1, <1>2 DEF RequestRecords

\* A callback that carries a response charges at most the compute deposit.
LEMMA ResponseCharge ==
    ASSUME TypeOK, SettlementInv, NEW r \in DOMAIN pending, r \in DOMAIN yields,
           yields[r].state = "resumed"
    PROVE  LET cost == Charge(pending[r], yields[r].response.used)
           IN /\ yields[r].response \in ResponseRecords
              /\ cost \in Nat
              /\ Minus(pending[r].payment, cost) \in Nat
              /\ Minus(pending[r].payment, cost) + cost = pending[r].payment
              /\ Minus(pending[r].payment, cost) >= pending[r].input_deposit
<1> DEFINE used == yields[r].response.used
           cost == Charge(pending[r], used)
<1>1. yields[r].response \in ResponseRecords BY DEF TypeOK, YieldRecords
<1>2. used \in UsageRecords BY <1>1 DEF ResponseRecords
<1>3. cost \in Nat /\ cost + pending[r].input_deposit <= pending[r].payment
    BY <1>2, SettledRequest, ChargeBound
<1> HIDE DEF cost
<1>4. QED BY <1>1, <1>3, SettledRequest DEF Minus, cost

\* The callback's success branch keeps the invariant.
LEMMA SettleSuccessKeeps ==
    ASSUME Inv, NEW r, SettleSuccess(r)
    PROVE  TypeOK' /\ SettlementInv'
<1> DEFINE q == pending[r]
           response == yields[r].response
           cost == Charge(q, response.used)
           s == SettleAttached(q.attached_usd, PriceNow(q), response.refund_usd)
           gone == q.project \notin DOMAIN projects
           back == s.back + (IF gone THEN s.earned ELSE 0)
           earned == IF gone THEN 0 ELSE s.earned
           refunded == Minus(q.payment, cost)
<1>1. /\ r \in DOMAIN pending /\ r \in DOMAIN yields /\ yields[r].state = "resumed"
      /\ CallbackRuns(r) /\ pending' = Claimed(r)
      /\ total_executions' = total_executions + 1
      /\ fees_collected' = fees_collected + cost
      /\ balances' = Credit(balances, q.sender, back)
      /\ earnings' = IF gone THEN earnings ELSE Paid(q, earned)
      /\ book' = Close(r, "success", refunded, cost, back, earned)
    BY DEF SettleSuccess, CallbackRuns, RefundTo
<1>2. TypeOK /\ SettlementInv /\ ProjectsTypeOK BY DEF Inv
<1>3. /\ q \in RequestRecords /\ q.sender \in Accounts /\ q.attached_usd \in Nat
      /\ q.payment \in Nat
    BY <1>1, <1>2, SettledRequest, Zenon
<1>4. /\ response \in ResponseRecords /\ cost \in Nat /\ refunded \in Nat
      /\ refunded + cost = q.payment /\ refunded >= q.input_deposit
    BY <1>1, <1>2, ResponseCharge, Zenon
<1>5. s.back \in Nat /\ s.earned \in Nat /\ s.back + s.earned = q.attached_usd
    <2>1. PriceNow(q) \in Nat BY ONLY <1>2, <1>3, PriceNowType
    <2>2. response.refund_usd \in Nat BY <1>4 DEF ResponseRecords
    <2> HIDE DEF q, response
    <2>3. QED BY <1>3, <2>1, <2>2, SettleAttachedExact
<1> HIDE DEF s, q, response, cost, refunded
<1>6. back \in Nat /\ earned \in Nat /\ back + earned = q.attached_usd
    <2>1. CASE gone
        <3>1. back = s.back + s.earned /\ earned = 0 BY <2>1
        <3>2. QED BY ONLY <1>5, <3>1
    <2>2. CASE ~gone
        <3>1. back = s.back + 0 /\ earned = s.earned BY <2>2
        <3>2. QED BY ONLY <1>5, <3>1
    <2>3. QED BY <2>1, <2>2
<1>7. BalancesType'
    <2>1. balances' \in [Accounts -> Nat]
        <3> HIDE DEF back
        <3>1. QED BY <1>1, <1>2, <1>3, <1>6, CreditType DEF TypeOK
    <2>2. earnings' \in [Accounts -> Nat]
        BY <1>1, <1>2, <1>3, <1>6, PaidType DEF TypeOK
    <2>3. QED BY <2>1, <2>2 DEF BalancesType
<1> HIDE DEF back, earned
<1>8. refunded <= q.payment BY <1>3, <1>4
<1>9. QED BY <1>1, <1>2, <1>4, <1>6, <1>7, <1>8, SettleKeeps DEF q

\* The callback's branch for a failed run keeps the invariant.
LEMMA SettleFailureKeeps ==
    ASSUME Inv, NEW r, SettleFailure(r)
    PROVE  TypeOK' /\ SettlementInv'
<1> DEFINE q == pending[r]
           cost == Charge(q, yields[r].response.used)
           refunded == Minus(q.payment, cost)
<1>1. /\ r \in DOMAIN pending /\ r \in DOMAIN yields /\ yields[r].state = "resumed"
      /\ CallbackRuns(r) /\ pending' = Claimed(r)
      /\ total_executions' = total_executions + 1
      /\ fees_collected' = fees_collected + cost
      /\ balances' = Credit(balances, q.sender, q.attached_usd) /\ UNCHANGED earnings
      /\ book' = Close(r, "failure", refunded, cost, q.attached_usd, 0)
    BY DEF SettleFailure, CallbackRuns, RefundTo
<1>2. TypeOK /\ SettlementInv BY DEF Inv
<1>3. q.sender \in Accounts /\ q.attached_usd \in Nat /\ q.payment \in Nat
    BY <1>1, <1>2, SettledRequest
<1>4. /\ cost \in Nat /\ refunded \in Nat
      /\ refunded + cost = q.payment /\ refunded >= q.input_deposit
    BY <1>1, <1>2, ResponseCharge, Zenon
<1> HIDE DEF cost, refunded
<1>5. BalancesType' BY <1>1, <1>2, <1>3, CreditType DEF TypeOK, BalancesType
<1>6. refunded <= q.payment /\ q.attached_usd + 0 = q.attached_usd BY <1>3, <1>4
<1>7. /\ "failure" \in {"success", "failure", "promise_failed"} /\ 0 \in Nat
      /\ "failure" # "promise_failed" => refunded + cost = pending[r].payment
      /\ "failure" = "promise_failed" => refunded + cost >= pending[r].payment
      /\ "failure" # "promise_failed" => refunded >= pending[r].input_deposit
      /\ 0 > 0 => "failure" = "success"
    BY ONLY <1>4
<1>8. QED BY ONLY <1>1, <1>2, <1>3, <1>4, <1>5, <1>6, <1>7, SettleKeeps

\* The callback's branch for a dead promise keeps the invariant.
LEMMA SettlePromiseFailedKeeps ==
    ASSUME Inv, NEW r, SettlePromiseFailed(r)
    PROVE  TypeOK' /\ SettlementInv'
<1> DEFINE q == pending[r]
           refunded == Minus(q.payment, fees.base)
<1>1. /\ r \in DOMAIN pending
      /\ CallbackRuns(r) /\ pending' = Claimed(r)
      /\ total_executions' = total_executions + 1
      /\ fees_collected' = fees_collected + fees.base
      /\ balances' = Credit(balances, q.sender, q.attached_usd) /\ UNCHANGED earnings
      /\ book' = Close(r, "promise_failed", refunded, fees.base, q.attached_usd, 0)
    BY DEF SettlePromiseFailed, RefundTo
<1>2. TypeOK /\ SettlementInv BY DEF Inv
<1>3. q.sender \in Accounts /\ q.attached_usd \in Nat /\ q.payment \in Nat
    BY <1>1, <1>2, SettledRequest
<1>4. fees.base \in Nat BY <1>2 DEF TypeOK, FeeRecords
<1>5. refunded \in Nat /\ refunded <= q.payment /\ refunded + fees.base >= q.payment
    BY <1>3, <1>4, MinusLeast
<1> HIDE DEF refunded
<1>6. BalancesType' BY <1>1, <1>2, <1>3, CreditType DEF TypeOK, BalancesType
<1>7. q.attached_usd + 0 = q.attached_usd BY <1>3
<1>8. /\ "promise_failed" \in {"success", "failure", "promise_failed"} /\ 0 \in Nat
      /\ "promise_failed" # "promise_failed" => refunded + fees.base = pending[r].payment
      /\ "promise_failed" = "promise_failed" => refunded + fees.base >= pending[r].payment
      /\ "promise_failed" # "promise_failed" => refunded >= pending[r].input_deposit
      /\ 0 > 0 => "promise_failed" = "success"
    BY ONLY <1>5
<1>9. QED BY ONLY <1>1, <1>2, <1>3, <1>4, <1>5, <1>6, <1>7, <1>8, SettleKeeps

-----------------------------------------------------------------------------
\* The yield: the operator's calls, the timeout, a callback with no effect.

\* A yield that changes state, and no pending request is marked done.
LEMMA YieldStep ==
    ASSUME TypeOK, SettlementInv, NEW r \in DOMAIN yields, NEW y \in YieldRecords,
           y.state = "resumed" => y.response # None,
           y.state = "done" => r \notin DOMAIN pending,
           yields' = [yields EXCEPT ![r] = y],
           UNCHANGED <<next_request_id, book>>,
           \/ UNCHANGED pending
           \/ r \in DOMAIN pending /\ pending' = OutputStored(r)
    PROVE  YieldsType' /\ BookType' /\ SettlementInv'
<1>1. YieldsType' BY DEF TypeOK, YieldsType
<1>2. /\ BookType' /\ DOMAIN pending' = DOMAIN pending
      /\ \A x \in DOMAIN pending :
            /\ pending'[x].sender = pending[x].sender
            /\ pending'[x].payment = pending[x].payment
            /\ pending'[x].attached_usd = pending[x].attached_usd
            /\ pending'[x].input_deposit = pending[x].input_deposit
    <2>1. CASE UNCHANGED pending BY <2>1 DEF TypeOK, BookType
    <2>2. CASE r \in DOMAIN pending /\ pending' = OutputStored(r)
        <3> DEFINE q == [pending[r] EXCEPT !.output_submitted = TRUE]
        <3>1. pending[r] \in RequestRecords BY <2>2 DEF TypeOK
        <3>2. /\ q \in RequestRecords
              /\ q.sender = pending[r].sender /\ q.payment = pending[r].payment
              /\ q.attached_usd = pending[r].attached_usd
              /\ q.input_deposit = pending[r].input_deposit
            BY <3>1 DEF RequestRecords
        <3>3. pending' = [pending EXCEPT ![r] = q] BY <2>2 DEF OutputStored
        <3> HIDE DEF q
        <3>4. QED BY <2>2, <3>2, <3>3 DEF TypeOK, BookType
    <2>3. QED BY <2>1, <2>2
<1>3. \A x \in DOMAIN pending : yields'[x].state # "done"
    BY DEF SettlementInv, CallbackSettles, PendingIsOpen
<1>4. QED BY <1>1, <1>2, <1>3, KeepsBook

\* Storing an output and resuming the yield keep the invariant.
LEMMA OperatorKeeps ==
    ASSUME TypeOK, SettlementInv, NEW r \in DOMAIN yields, OperatorStep(r)
    PROVE  TypeOK' /\ SettlementInv'
<1> DEFINE Rest == <<settings, ledger, next_request_id, stale_before, fees_collected,
                     total_executions, book>>
<1>1. /\ UNCHANGED Rest
      /\ \/ r \in DOMAIN pending /\ pending' = OutputStored(r) /\ UNCHANGED yields
         \/ \E response \in Responses :
               /\ yields' = [yields EXCEPT ![r] = [state |-> "resumed", response |-> response]]
               /\ \/ UNCHANGED pending
                  \/ r \in DOMAIN pending /\ pending' = OutputStored(r)
    BY DEF OperatorStep, SubmitExecutionOutput, ResolveExecution,
           SubmitExecutionOutputAndResolve, Resume
<1>2. YieldsType' /\ BookType' /\ SettlementInv'
    <2>1. CASE r \in DOMAIN pending /\ pending' = OutputStored(r) /\ UNCHANGED yields
        <3>1. yields[r] \in YieldRecords /\ yields' = [yields EXCEPT ![r] = yields[r]]
            BY <2>1 DEF TypeOK
        <3>2. yields[r].state # "done" BY <2>1 DEF SettlementInv, CallbackSettles
        <3>3. yields[r].state = "resumed" => yields[r].response # None BY DEF TypeOK
        <3>4. QED BY <1>1, <2>1, <3>1, <3>2, <3>3, YieldStep
    <2>2. ASSUME NEW response \in Responses,
                 yields' = [yields EXCEPT ![r] = [state |-> "resumed", response |-> response]],
                 UNCHANGED pending \/ (r \in DOMAIN pending /\ pending' = OutputStored(r))
          PROVE  YieldsType' /\ BookType' /\ SettlementInv'
        <3> DEFINE y == [state |-> "resumed", response |-> response]
        <3>1. response \in ResponseRecords BY DEF Responses, ResponseRecords
        <3>2. y \in YieldRecords /\ y.state = "resumed" /\ y.response # None
            BY <3>1 DEF YieldRecords
        <3> HIDE DEF y
        <3>3. QED BY <1>1, <2>2, <3>2, YieldStep DEF y
    <2>3. QED BY <1>1, <2>1, <2>2
<1>3. QED
    BY <1>1, <1>2, ExecTypeParts
       DEF settings, ledger, SettingsType, CountersType, BalancesType, TokensType

\* What the chain does by itself (timeout, callback) keeps the invariant.
LEMMA ChainKeeps ==
    ASSUME Inv, NEW r \in DOMAIN yields, ChainStep(r)
    PROVE  TypeOK' /\ SettlementInv'
<1>1. TypeOK /\ SettlementInv BY DEF Inv
<1>2. ASSUME NEW y \in YieldRecords, y.state # "resumed",
             y.state = "done" => r \notin DOMAIN pending,
             yields' = [yields EXCEPT ![r] = y],
             UNCHANGED <<settings, ledger, next_request_id, pending, stale_before,
                         fees_collected, total_executions, book>>
      PROVE  TypeOK' /\ SettlementInv'
    <2>1. YieldsType' /\ BookType' /\ SettlementInv' BY <1>1, <1>2, YieldStep
    <2>2. QED
        BY <1>1, <1>2, <2>1, ExecTypeParts
           DEF settings, ledger, SettingsType, CountersType, BalancesType, TokensType
<1>3. CASE YieldTimeout(r)
    <2> DEFINE y == [yields[r] EXCEPT !.state = "timed_out"]
    <2>1. yields[r] \in YieldRecords BY <1>1 DEF TypeOK
    <2>2. y \in YieldRecords /\ y.state = "timed_out" BY <2>1 DEF YieldRecords
    <2>3. yields' = [yields EXCEPT ![r] = y] BY <1>3 DEF YieldTimeout
    <2> HIDE DEF y
    <2>4. QED BY <1>2, <1>3, <2>2, <2>3 DEF YieldTimeout
<1>4. CASE CallbackOutOfGas(r)
    <2> DEFINE y == [state |-> "out_of_gas", response |-> None]
    <2>1. y \in YieldRecords /\ y.state = "out_of_gas" BY DEF YieldRecords
    <2>2. yields' = [yields EXCEPT ![r] = y] BY <1>4 DEF CallbackOutOfGas
    <2> HIDE DEF y
    <2>3. QED BY <1>2, <1>4, <2>1, <2>2 DEF CallbackOutOfGas
<1>5. CASE NothingToSettle(r)
    <2> DEFINE y == [state |-> "done", response |-> None]
    <2>1. y \in YieldRecords /\ y.state = "done" BY DEF YieldRecords
    <2>2. yields' = [yields EXCEPT ![r] = y] /\ r \notin DOMAIN pending
        BY <1>5 DEF NothingToSettle, CallbackRuns
    <2>3. UNCHANGED <<settings, ledger, next_request_id, pending, stale_before,
                      fees_collected, total_executions, book>>
        BY <1>5 DEF NothingToSettle, CallbackRuns, ledger
    <2> HIDE DEF y
    <2>4. QED BY <1>2, <2>1, <2>2, <2>3
<1>6. QED
    BY <1>3, <1>4, <1>5, SettleSuccessKeeps, SettleFailureKeeps, SettlePromiseFailedKeeps
       DEF ChainStep, OnExecutionResponse

-----------------------------------------------------------------------------
\* Admission, the ledger and the owner's settings.

\* A pending request `q` and its entry `b` in the book, as PendingIsOpen has them.
BookEntryOpen(q, b) ==
    /\ b.sender = q.sender
    /\ b.payment = q.payment
    /\ b.attached = q.attached_usd
    /\ b.input_deposit = q.input_deposit
    /\ q.input_deposit <= q.payment
    /\ b.refunded = 0 /\ b.kept = 0
    /\ b.usd_back = 0 /\ b.usd_earned = 0

\* request_execution opens an entry for the request it stores.
LEMMA RequestKeeps ==
    ASSUME TypeOK, SettlementInv, NEW q \in RequestInputs, NEW v, NEW compile_only \in BOOLEAN,
           RequestExecution(q, v, compile_only)
    PROVE  TypeOK' /\ SettlementInv'
<1> DEFINE r == next_request_id
           y == [state |-> "waiting", response |-> None]
           b == [sender |-> q.sender, payment |-> q.payment, attached |-> q.attached_usd,
                 input_deposit |-> q.input_deposit, ending |-> "open",
                 refunded |-> 0, kept |-> 0, usd_back |-> 0, usd_earned |-> 0]
<1>1. /\ pending' = Put(pending, r, q) /\ yields' = Put(yields, r, y) /\ book' = Put(book, r, b)
      /\ next_request_id' = r + 1
      /\ balances' = [balances EXCEPT ![q.sender] = @ - q.attached_usd]
      /\ balances[q.sender] >= q.attached_usd
      /\ q.payment >= RequiredPayment(q.limits, q.input_deposit, compile_only)
      /\ UNCHANGED <<settings, stale_before, fees_collected, total_executions, earnings,
                     withdrawals, token_held, deposited>>
    BY Zenon DEF RequestExecution, CanAfford
<1>2. q \in RequestRecords BY DEF RequestInputs, RequestRecords
<1>3. /\ q.sender \in Accounts /\ q.payment \in Nat /\ q.attached_usd \in Nat
      /\ q.input_deposit \in Nat /\ q.limits \in Nat
    BY <1>2 DEF RequestRecords
<1>4. q.input_deposit <= q.payment
    <2>1. fees.base \in Nat /\ fees.unit \in Nat BY DEF TypeOK, FeeRecords
    <2>2. EstimateCost(q.limits) \in Nat BY <1>3, <2>1 DEF EstimateCost
    <2>3. RequiredPayment(q.limits, q.input_deposit, compile_only) >= q.input_deposit
        BY ONLY <1>3, <2>1, <2>2 DEF RequiredPayment
    <2>4. RequiredPayment(q.limits, q.input_deposit, compile_only) \in Nat
        BY ONLY <1>3, <2>1, <2>2 DEF RequiredPayment
    <2> DEFINE required == RequiredPayment(q.limits, q.input_deposit, compile_only)
    <2>5. q.payment >= required BY <1>1
    <2> HIDE DEF required
    <2>6. QED BY ONLY <1>3, <2>3, <2>4, <2>5 DEF required
<1>5. /\ b \in BookRecords /\ b.sender = q.sender /\ b.payment = q.payment
      /\ b.attached = q.attached_usd /\ b.input_deposit = q.input_deposit
      /\ b.ending = "open" /\ b.refunded = 0 /\ b.kept = 0 /\ b.usd_back = 0 /\ b.usd_earned = 0
    BY <1>3, Zenon DEF BookRecords, Endings
<1>6. y \in YieldRecords /\ y.state = "waiting" BY DEF YieldRecords
<1>7. r \in Nat /\ r \notin DOMAIN book /\ r \notin DOMAIN pending /\ r \notin DOMAIN yields
    <2>1. r \in Nat BY ONLY TypeOK, ExecTypeParts DEF CountersType
    <2>2. PendingIsOpen BY DEF SettlementInv
    <2>3. QED BY ONLY <2>1, <2>2 DEF PendingIsOpen
<1> HIDE DEF b, y, r
<1>8. /\ DOMAIN pending' = DOMAIN pending \cup {r} /\ pending'[r] = q
      /\ \A x \in DOMAIN pending : pending'[x] = pending[x]
      /\ DOMAIN book' = DOMAIN book \cup {r} /\ book'[r] = b
      /\ \A x \in DOMAIN book : book'[x] = book[x]
      /\ DOMAIN yields' = DOMAIN yields \cup {r} /\ yields'[r] = y
      /\ \A x \in DOMAIN yields : yields'[x] = yields[x]
    BY <1>1, <1>7 DEF Put
<1>9. BookType' BY <1>1, <1>2, <1>5, <1>7 DEF TypeOK, BookType, Put
<1>10. YieldsType'
    <2>1. yields' \in [DOMAIN yields' -> YieldRecords] BY <1>1, <1>6 DEF TypeOK, Put
    <2>2. QED BY <2>1, <1>6, <1>7, <1>8 DEF TypeOK, YieldsType
<1>11. PendingIsOpen'
    <2>1. DOMAIN pending' = {x \in DOMAIN book' : book'[x].ending = "open"}
        BY <1>5, <1>7, <1>8, Zenon DEF SettlementInv, PendingIsOpen
    <2>2. \A x \in DOMAIN book' : x < next_request_id'
        <3>1. \A x \in DOMAIN book : x \in Nat /\ x < r
            BY DEF SettlementInv, PendingIsOpen, TypeOK, r
        <3>2. next_request_id' = r + 1 /\ DOMAIN book' = DOMAIN book \cup {r} BY <1>1, <1>8, Zenon
        <3>3. QED BY ONLY <1>7, <3>1, <3>2
    <2>3. DOMAIN book' = DOMAIN yields' BY <1>8, Zenon DEF SettlementInv, PendingIsOpen
    <2>4. \A x \in DOMAIN pending : x \in DOMAIN book BY DEF SettlementInv, PendingIsOpen
    <2>5. ASSUME NEW x \in DOMAIN pending' PROVE BookEntryOpen(pending'[x], book'[x])
        <3>1. CASE x = r BY <1>4, <1>5, <1>8, <3>1 DEF BookEntryOpen
        <3>2. CASE x # r
            <4>1. x \in DOMAIN pending /\ pending'[x] = pending[x] /\ book'[x] = book[x]
                BY <1>8, <2>4, <3>2
            <4>2. BookEntryOpen(pending[x], book[x])
                BY <4>1 DEF SettlementInv, PendingIsOpen, BookEntryOpen
            <4>3. QED BY ONLY <4>1, <4>2
        <3>3. QED BY <3>1, <3>2
    <2>6. QED BY ONLY <2>1, <2>2, <2>3, <2>5 DEF PendingIsOpen, BookEntryOpen
<1>12. CallbackSettles'
    BY <1>6, <1>8 DEF SettlementInv, CallbackSettles, PendingIsOpen
<1>13. AttachedUsdAccounted' /\ NearAccounted' /\ InputDepositReturned'
    <2>1. UsdAccounted(b) BY ONLY <1>3, <1>5 DEF UsdAccounted
    <2>2. NearEntryAccounted(b) BY ONLY <1>3, <1>5 DEF NearEntryAccounted
    <2>3. QED
        BY <1>5, <1>8, <2>1, <2>2
           DEF SettlementInv, AttachedUsdAccounted, NearAccounted, InputDepositReturned
<1>14. BalancesType' /\ CountersType'
    <2>1. BalancesType /\ CountersType BY ONLY TypeOK, ExecTypeParts
    <2>2. balances' \in [Accounts -> Nat] BY ONLY <1>1, <1>3, <2>1 DEF BalancesType
    <2>3. QED BY ONLY <1>1, <1>7, <2>1, <2>2 DEF BalancesType, CountersType
<1>15. SettingsType' /\ TokensType'
    <2>1. SettingsType /\ TokensType BY ONLY TypeOK, ExecTypeParts
    <2>2. QED BY ONLY <1>1, <2>1 DEF SettingsType, TokensType, settings
<1>16. QED
    BY <1>9, <1>10, <1>11, <1>12, <1>13, <1>14, <1>15, ExecTypeParts DEF SettlementInv

\* A step that leaves the requests alone keeps the settlement invariant.
LEMMA SettlementFrame ==
    ASSUME SettlementInv, UNCHANGED <<next_request_id, pending, yields, book>>
    PROVE  SettlementInv'
BY DEF SettlementInv, PendingIsOpen, CallbackSettles, AttachedUsdAccounted, NearAccounted,
       InputDepositReturned

\* Deposits and withdrawals touch the ledgers only.
LEMMA LedgerKeeps ==
    ASSUME TypeOK,
           \/ \E a \in Users, t \in Tokens, n \in Deposits : DepositBalance(a, t, n)
           \/ \E w \in 1..MaxWithdrawals : WithdrawalStep(w)
    PROVE  TypeOK' /\ UNCHANGED <<next_request_id, pending, yields, book>>
<1>1. ASSUME NEW a \in Users, NEW t \in Tokens, NEW n \in Deposits, DepositBalance(a, t, n)
      PROVE  BalancesType' /\ TokensType' /\ UNCHANGED <<settings, requests>>
    <2>1. /\ balances' = Credit(balances, a, n) /\ deposited' = Credit(deposited, a, n)
          /\ token_held' = Credit(token_held, t, n)
          /\ UNCHANGED <<settings, requests, earnings, withdrawals>>
        BY <1>1 DEF DepositBalance
    <2>2. a \in Accounts /\ n \in Nat OBVIOUS
    <2>3. /\ balances' \in [Accounts -> Nat] /\ deposited' \in [Accounts -> Nat]
          /\ token_held' \in [Tokens -> Nat]
        BY <2>1, <2>2, CreditType DEF TypeOK
    <2>4. QED BY <2>1, <2>3 DEF TypeOK, BalancesType, TokensType
<1>2. ASSUME NEW w \in 1..MaxWithdrawals, NEW c \in Accounts, WithdrawDeveloperEarnings(c, w)
      PROVE  BalancesType' /\ TokensType' /\ UNCHANGED <<settings, requests>>
    <2> DEFINE new == [developer |-> c, amount |-> earnings[c], token |-> payment_token,
                       state |-> "sent"]
    <2>1. new \in WithdrawalRecords
        BY <1>2 DEF WithdrawDeveloperEarnings, TypeOK, WithdrawalRecords
    <2>2. /\ withdrawals' = Put(withdrawals, w, new)
          /\ earnings' = [earnings EXCEPT ![c] = 0]
          /\ UNCHANGED <<settings, requests, balances, token_held, deposited>>
        BY <1>2 DEF WithdrawDeveloperEarnings
    <2> HIDE DEF new
    <2>3. TokensType'
        <3>1. TokensType /\ w \in Nat BY TypeOK, ExecTypeParts
        <3>2. QED BY ONLY <2>1, <2>2, <3>1 DEF TokensType, Put
    <2>4. BalancesType'
        <3>1. BalancesType BY ONLY TypeOK, ExecTypeParts
        <3>2. QED BY ONLY <2>2, <3>1 DEF BalancesType
    <2>5. QED BY <2>2, <2>3, <2>4
<1>3. ASSUME NEW w \in 1..MaxWithdrawals, NEW ok \in BOOLEAN, FtTransfer(w, ok)
      PROVE  BalancesType' /\ TokensType' /\ UNCHANGED <<settings, requests>>
    <2> DEFINE t == withdrawals[w].token
               n == withdrawals[w].amount
    <2>1. w \in DOMAIN withdrawals /\ withdrawals[w] \in WithdrawalRecords
        BY <1>3 DEF FtTransfer, TypeOK
    <2>2. t \in Tokens /\ n \in Nat BY <2>1 DEF WithdrawalRecords
    <2>3. \E st \in {"paid", "failed"} : withdrawals' = [withdrawals EXCEPT ![w].state = st]
        BY <1>3 DEF FtTransfer
    <2>4. withdrawals' \in [DOMAIN withdrawals -> WithdrawalRecords]
        BY <2>1, <2>3 DEF TypeOK, WithdrawalRecords
    <2>5. \/ UNCHANGED token_held
          \/ token_held[t] >= n /\ token_held' = [token_held EXCEPT ![t] = @ - n]
        BY <1>3 DEF FtTransfer
    <2> HIDE DEF t, n
    <2>6. token_held' \in [Tokens -> Nat]
        <3>1. TokensType BY ONLY TypeOK, ExecTypeParts
        <3>2. QED BY ONLY <2>2, <2>5, <3>1 DEF TokensType
    <2>7. UNCHANGED <<settings, requests, balances, earnings, deposited>>
        BY <1>3 DEF FtTransfer
    <2>8. QED BY <2>4, <2>6, <2>7 DEF TypeOK, BalancesType, TokensType
<1>4. ASSUME NEW w \in 1..MaxWithdrawals, OnWithdrawDeveloperEarnings(w)
      PROVE  BalancesType' /\ TokensType' /\ UNCHANGED <<settings, requests>>
    <2> DEFINE d == withdrawals[w].developer
               n == withdrawals[w].amount
    <2>1. withdrawals[w] \in WithdrawalRecords
        BY <1>4 DEF OnWithdrawDeveloperEarnings, TypeOK
    <2>2. d \in Accounts /\ n \in Nat BY <2>1 DEF WithdrawalRecords
    <2>3. /\ earnings' = earnings \/ earnings' = Credit(earnings, d, n)
          /\ withdrawals' = Drop(withdrawals, w)
          /\ UNCHANGED <<settings, requests, balances, token_held, deposited>>
        BY <1>4 DEF OnWithdrawDeveloperEarnings, Restored
    <2> HIDE DEF d, n
    <2>4. BalancesType'
        <3>1. Credit(earnings, d, n) \in [Accounts -> Nat] BY <2>2, CreditType DEF TypeOK
        <3>2. QED BY <2>3, <3>1 DEF TypeOK, BalancesType
    <2>5. TokensType'
        <3>1. /\ DOMAIN withdrawals' \subseteq DOMAIN withdrawals
              /\ withdrawals' \in [DOMAIN withdrawals' -> WithdrawalRecords]
            BY <2>3 DEF TypeOK, Drop
        <3>2. QED BY <2>3, <3>1 DEF TypeOK, TokensType
    <2>6. QED BY <2>3, <2>4, <2>5
<1>5. BalancesType' /\ TokensType' /\ UNCHANGED <<settings, requests>>
    BY <1>1, <1>2, <1>3, <1>4 DEF WithdrawalStep
<1>6. QED
    BY <1>5, ExecTypeParts
       DEF settings, requests, SettingsType, BookType, YieldsType, CountersType

\* Settings and the clock touch no request.
LEMMA SettingsKeep ==
    ASSUME TypeOK, OwnerStep \/ \E before \in 1..MaxRequests : ClockAdvances(before)
    PROVE  TypeOK' /\ UNCHANGED <<next_request_id, pending, yields, book>>
<1>1. CASE OwnerStep
    <2>1. UNCHANGED <<requests, ledger>> BY <1>1 DEF OwnerStep, SetPricing, SetPaymentTokenContract
    <2>2. SettingsType'
        BY <1>1 DEF OwnerStep, SetPricing, SetPaymentTokenContract, TypeOK, SettingsType
    <2>3. BookType' /\ YieldsType' BY <2>1 DEF requests, TypeOK, BookType, YieldsType
    <2>4. CountersType' BY <2>1 DEF requests, TypeOK, CountersType
    <2>5. BalancesType' /\ TokensType' BY <2>1 DEF ledger, TypeOK, BalancesType, TokensType
    <2>6. QED BY <2>1, <2>2, <2>3, <2>4, <2>5, ExecTypeParts DEF requests
<1>2. ASSUME NEW before \in 1..MaxRequests, ClockAdvances(before)
      PROVE  TypeOK' /\ UNCHANGED <<next_request_id, pending, yields, book>>
    <2>1. /\ UNCHANGED <<settings, ledger, next_request_id, pending, yields, fees_collected,
                        total_executions, book>>
          /\ stale_before' = before
        BY <1>2 DEF ClockAdvances
    <2>2. SettingsType' BY <2>1 DEF settings, TypeOK, SettingsType
    <2>3. BookType' /\ YieldsType' BY <2>1 DEF TypeOK, BookType, YieldsType
    <2>4. CountersType' BY <2>1, ExecTypeParts DEF CountersType
    <2>5. BalancesType' /\ TokensType' BY <2>1, ExecTypeParts DEF ledger, BalancesType, TokensType
    <2>6. QED BY <2>1, <2>2, <2>3, <2>4, <2>5, ExecTypeParts
<1>3. QED BY <1>1, <1>2

\* No step of a request or of the ledger touches the registry.
LEMMA ExecutionFrame == ASSUME ExecutionStep PROVE UNCHANGED projectVars
<1>1. ASSUME NEW r, OperatorStep(r) PROVE UNCHANGED projectVars
    BY <1>1 DEF OperatorStep, SubmitExecutionOutput, ResolveExecution,
                SubmitExecutionOutputAndResolve
<1>2. ASSUME NEW r, ChainStep(r) PROVE UNCHANGED projectVars
    BY <1>2 DEF ChainStep, YieldTimeout, CallbackOutOfGas, OnExecutionResponse, SettleSuccess,
                SettleFailure, SettlePromiseFailed, NothingToSettle, CallbackRuns
<1>3. ASSUME NEW r, CancelStep(r) PROVE UNCHANGED projectVars
    BY <1>3, Zenon DEF CancelStep, CancelStaleExecution, EmergencyCancelExecution,
                ClearAllPendingRequests, CancelPendingRequests, EndRequest
<1>4. ASSUME NEW w, WithdrawalStep(w) PROVE UNCHANGED projectVars
    BY <1>4 DEF WithdrawalStep, WithdrawDeveloperEarnings, FtTransfer,
                OnWithdrawDeveloperEarnings
<1>5. ASSUME NEW a, NEW t, NEW n, DepositBalance(a, t, n) PROVE UNCHANGED projectVars
    BY <1>5 DEF DepositBalance
<1>6. ASSUME NEW q, NEW v, NEW b, RequestExecution(q, v, b) PROVE UNCHANGED projectVars
    BY <1>6, Zenon DEF RequestExecution
<1>7. ASSUME NEW before, ClockAdvances(before) PROVE UNCHANGED projectVars
    BY <1>7 DEF ClockAdvances
<1>8. CASE OwnerStep BY <1>8 DEF OwnerStep, SetPricing, SetPaymentTokenContract
<1>9. QED BY <1>1, <1>2, <1>3, <1>4, <1>5, <1>6, <1>7, <1>8 DEF ExecutionStep

\* Every step of the contract and of the chain keeps the inductive invariant.
LEMMA InvStep ==
    ASSUME Inv, [Next]_vars
    PROVE  Inv'
<1>1. TypeOK /\ SettlementInv /\ ProjectsTypeOK BY DEF Inv
<1>2. CASE UNCHANGED executionVars
    <2>1. TypeOK' BY <1>1, <1>2 DEF executionVars, settings, requests, ledger, TypeOK
    <2>2. UNCHANGED <<next_request_id, pending, yields, book>>
        BY <1>2 DEF executionVars, requests
    <2>3. SettlementInv' BY <1>1, <2>2, SettlementFrame
    <2>4. ProjectsTypeOK'
        <3>1. [ProjectsNext]_projectVars \/ ExecutionStep BY DEF Next, vars
        <3>2. CASE ExecutionStep /\ ~[ProjectsNext]_projectVars
            BY <3>2, ExecutionFrame
        <3>3. QED BY <1>1, <3>1, <3>2, ProjectsNextType
    <2>5. QED BY <2>1, <2>3, <2>4 DEF Inv
<1>3. CASE ExecutionStep
    <2>1. UNCHANGED projectVars BY <1>3, ExecutionFrame
    <2>2. ProjectsTypeOK' BY <1>1, <2>1, ProjectsNextType
    <2>3. TypeOK' /\ SettlementInv'
        <3>1. CASE \E r \in DOMAIN yields : OperatorStep(r) \/ ChainStep(r) \/ CancelStep(r)
            BY <1>1, <3>1, OperatorKeeps, ChainKeeps, CancelKeeps
        <3>2. CASE \E q \in RequestInputs, v \in Versions \cup {None}, b \in BOOLEAN :
                      RequestExecution(q, v, b)
            BY <1>1, <3>2, RequestKeeps
        <3>3. CASE \/ \E a \in Users, t \in Tokens, n \in Deposits : DepositBalance(a, t, n)
                   \/ \E w \in 1..MaxWithdrawals : WithdrawalStep(w)
            BY <1>1, <3>3, LedgerKeeps, SettlementFrame
        <3>4. CASE OwnerStep \/ \E before \in 1..MaxRequests : ClockAdvances(before)
            BY <1>1, <3>4, SettingsKeep, SettlementFrame
        <3>5. QED BY <1>3, <3>1, <3>2, <3>3, <3>4 DEF ExecutionStep
    <2>4. QED BY <2>2, <2>3 DEF Inv
<1>4. QED BY <1>2, <1>3 DEF Next, vars

\* The invariant holds of a contract fresh from `new`.
LEMMA InvInit == ASSUME Init PROVE Inv
<1>1. ProjectsTypeOK BY ProjectsInitType DEF Init
<1>2. SettingsType /\ CountersType BY DEF Init, ExecutionInit, SettingsType, CountersType
<1>3. BookType BY DEF Init, ExecutionInit, BookType, EmptyMap
<1>4. YieldsType BY DEF Init, ExecutionInit, YieldsType, EmptyMap
<1>5. BalancesType BY DEF Init, ExecutionInit, BalancesType
<1>6. TokensType
    <2>1. deposited \in [Accounts -> Nat] /\ token_held \in [Tokens -> Nat]
        BY DEF Init, ExecutionInit
    <2>2. DOMAIN withdrawals = {} /\ withdrawals \in [DOMAIN withdrawals -> WithdrawalRecords]
        BY DEF Init, ExecutionInit, EmptyMap
    <2>3. QED BY <2>1, <2>2 DEF TokensType
<1>7. TypeOK BY <1>2, <1>3, <1>4, <1>5, <1>6, ExecTypeParts
<1>8. DOMAIN book = {} /\ DOMAIN pending = {} /\ DOMAIN yields = {}
    BY DEF Init, ExecutionInit, EmptyMap
<1>9. SettlementInv
    BY <1>8, Zenon DEF SettlementInv, PendingIsOpen, CallbackSettles, AttachedUsdAccounted,
                NearAccounted, InputDepositReturned
<1>10. QED BY <1>1, <1>7, <1>9 DEF Inv

-----------------------------------------------------------------------------
\* The theorems.

\* The inductive invariant: types, the project registry's types, and the
\* settlement invariant that ties pending requests, yields and closed entries.
THEOREM InvAlways == Spec => []Inv
<1>1. Init => Inv BY InvInit
<1>2. Inv /\ [Next]_vars => Inv' BY InvStep
<1>3. QED BY <1>1, <1>2, PTL DEF Spec

\* Every field of the contract keeps its type: no balance, earnings row, fee or
\* refund underflows, whatever the calls, prices and fee changes.
THEOREM TypeCorrect == Spec => []TypeOK
BY InvAlways, PTL DEF Inv

\* Nothing that ended is pending, and nothing was paid for what is pending.
THEOREM PendingIsOpenAlways == Spec => []PendingIsOpen
BY InvAlways, PTL DEF Inv, SettlementInv

\* Every path that ends a request returns or hands on the whole stablecoin
\* amount, cancel_pending_requests excepted.
THEOREM AttachedUsdAlwaysAccounted == Spec => []AttachedUsdAccounted
BY InvAlways, PTL DEF Inv, SettlementInv

\* No settlement pays out more NEAR than the request brought, and what is not
\* refunded is booked as a fee.
THEOREM NearAlwaysAccounted == Spec => []NearAccounted
BY InvAlways, PTL DEF Inv, SettlementInv

\* A worker's answer never costs the caller the deposit of a large input.
THEOREM InputDepositAlwaysReturned == Spec => []InputDepositReturned
BY InvAlways, PTL DEF Inv, SettlementInv

\* A callback that ran leaves nothing pending.
THEOREM CallbackAlwaysSettles == Spec => []CallbackSettles
BY InvAlways, PTL DEF Inv, SettlementInv

\* The book changes only by a new entry or by closing the entry of a request
\* that is still pending.
LEMMA BookChanges ==
    ASSUME [Next]_vars
    PROVE  \/ UNCHANGED book
           \/ \E b : book' = Put(book, next_request_id, b)
           \/ \E r \in DOMAIN pending : \E c : book' = [book EXCEPT ![r] = c]
<1>1. ASSUME NEW r, OperatorStep(r) PROVE UNCHANGED book
    BY <1>1 DEF OperatorStep, SubmitExecutionOutput, ResolveExecution,
                SubmitExecutionOutputAndResolve
<1>2. ASSUME NEW r, ChainStep(r)
      PROVE  UNCHANGED book \/ \E x \in DOMAIN pending : \E c : book' = [book EXCEPT ![x] = c]
    <2>1. CASE YieldTimeout(r) \/ CallbackOutOfGas(r) \/ NothingToSettle(r)
        BY <2>1 DEF YieldTimeout, CallbackOutOfGas, NothingToSettle
    <2>2. CASE SettleSuccess(r) BY <2>2, Zenon DEF SettleSuccess, Close
    <2>3. CASE SettleFailure(r) BY <2>3, Zenon DEF SettleFailure, Close
    <2>4. CASE SettlePromiseFailed(r) BY <2>4, Zenon DEF SettlePromiseFailed, Close
    <2>5. QED BY <1>2, <2>1, <2>2, <2>3, <2>4 DEF ChainStep, OnExecutionResponse
<1>3. ASSUME NEW r, CancelStep(r)
      PROVE  \E x \in DOMAIN pending : \E c : book' = [book EXCEPT ![x] = c]
    BY <1>3, Zenon DEF CancelStep, CancelStaleExecution, EmergencyCancelExecution,
                ClearAllPendingRequests, CancelPendingRequests, EndRequest, Close
<1>4. ASSUME NEW q, NEW v, NEW b, RequestExecution(q, v, b)
      PROVE  \E e : book' = Put(book, next_request_id, e)
    BY <1>4, Zenon DEF RequestExecution
<1>5. ASSUME NEW w, WithdrawalStep(w) PROVE UNCHANGED book
    BY <1>5 DEF WithdrawalStep, WithdrawDeveloperEarnings, FtTransfer,
                OnWithdrawDeveloperEarnings, requests
<1>6. ASSUME NEW a, NEW t, NEW n, DepositBalance(a, t, n) PROVE UNCHANGED book
    BY <1>6 DEF DepositBalance, requests
<1>7. ASSUME NEW before, ClockAdvances(before) PROVE UNCHANGED book
    BY <1>7 DEF ClockAdvances
<1>8. CASE OwnerStep BY <1>8 DEF OwnerStep, SetPricing, SetPaymentTokenContract, requests
<1>9. CASE UNCHANGED executionVars BY <1>9 DEF executionVars, requests
<1>10. CASE ExecutionStep
    BY <1>1, <1>2, <1>3, <1>4, <1>5, <1>6, <1>7, <1>8, <1>10 DEF ExecutionStep
<1>11. QED BY <1>9, <1>10 DEF Next, vars

\* A request is settled once: no call and no late callback pays for it again.
THEOREM SettledOnceAlways == Spec => SettledOnce
<1>1. Inv /\ [Next]_vars =>
        [\A r \in DOMAIN book :
            /\ r \in DOMAIN book'
            /\ book[r].ending # "open" => book'[r] = book[r]]_vars
    <2> SUFFICES ASSUME Inv, [Next]_vars, NEW r \in DOMAIN book
                 PROVE  /\ r \in DOMAIN book'
                        /\ book[r].ending # "open" => book'[r] = book[r]
        OBVIOUS
    <2>1. PendingIsOpen /\ TypeOK BY DEF Inv, SettlementInv
    <2>2. CASE UNCHANGED book BY <2>2
    <2>3. ASSUME NEW b, book' = Put(book, next_request_id, b)
          PROVE  r \in DOMAIN book' /\ book'[r] = book[r]
        <3>1. r < next_request_id /\ next_request_id \in Nat /\ r \in Nat
            BY <2>1 DEF PendingIsOpen, TypeOK
        <3>2. r # next_request_id BY ONLY <3>1
        <3>3. QED BY ONLY <2>3, <3>2, r \in DOMAIN book DEF Put
    <2>4. ASSUME NEW x \in DOMAIN pending, NEW c, book' = [book EXCEPT ![x] = c]
          PROVE  r \in DOMAIN book' /\ (book[r].ending # "open" => book'[r] = book[r])
        BY <2>1, <2>4, Zenon DEF PendingIsOpen
    <2>5. QED BY <2>2, <2>3, <2>4, BookChanges
<1>2. QED BY <1>1, InvAlways, PTL DEF Spec, SettledOnce
=============================================================================
