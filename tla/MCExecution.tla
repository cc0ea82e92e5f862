---------------------------- MODULE MCExecution -----------------------------
(***************************************************************************)
(* Small instances of Execution: one developer with one project, one or    *)
(* two callers, two requests in flight.                                    *)
(***************************************************************************)
EXTENDS ExecutionEscrow

CONSTANTS dev, user, other, app, v1, send, usdc, usdt

MCProjectDeposit == [id \in ProjectIds |-> 1]
MCVersionDeposit == [v \in Versions |-> 1]

\* A price below, and one at, what callers attach; an uneven split.
Row(price) == [op \in {send} |-> [price |-> price, share_bp |-> 5000]]
MCPricings == {[author |-> user, rows |-> Row(1)]}
TwoPricings == {[author |-> a, rows |-> Row(1)] : a \in {dev, user}}

Fee(base, unit, compile) == [base |-> base, unit |-> unit, compile |-> compile]
MCInitialFees == Fee(1, 1, 1)
MCFeeSchedules == {Fee(3, 2, 1)}

\* Below what is paid for compute under the first fees, above it once raised.
OneUsage == {[units |-> 1, compile |-> 0]}
=============================================================================
