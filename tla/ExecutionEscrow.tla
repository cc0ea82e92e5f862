-------------------------- MODULE ExecutionEscrow ---------------------------
(***************************************************************************)
(* The execution requests of the contract implement the escrow.  What is   *)
(* held is read off pending_requests, the number off next_request_id, the  *)
(* callers' stablecoin and the fees off their fields; how a request was    *)
(* divided is in the book.                                                 *)
(***************************************************************************)
EXTENDS Execution

BroughtBy(q) ==
    [sender |-> q.sender, payment |-> q.payment, attached |-> q.attached_usd,
     input_deposit |-> q.input_deposit]
OutcomeOf(b) ==
    [how |-> b.ending, refunded |-> b.refunded, kept |-> b.kept,
     back |-> b.usd_back, earned |-> b.usd_earned]

Held == [r \in DOMAIN pending |-> BroughtBy(pending[r])]
Divided == [r \in DOMAIN book \ DOMAIN pending |-> OutcomeOf(book[r])]

E == INSTANCE Escrow WITH
        taken <- next_request_id, open <- Held, closed <- Divided,
        collected <- fees_collected

\* Requests, answers, timeouts, callbacks, cancels, price and fee changes,
\* project deletions and withdrawals, in any order, do to callers' money what
\* the escrow does: each request is released once, in one receipt, and exactly
\* what it brought is divided.
ImplementsEscrow == E!EscrowSpec
=============================================================================
