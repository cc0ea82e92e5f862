------------------------------- MODULE Escrow -------------------------------
(***************************************************************************)
(* What the contract promises the callers of executions, whoever answers,  *)
(* times out or cancels, and in whatever order: an escrow.                 *)
(*                                                                         *)
(* What a caller brings is held under a number of its own; it is released  *)
(* once, in one step, by a settlement that divides exactly what was        *)
(* brought; and nothing else moves a balance down or a fee.                *)
(***************************************************************************)
EXTENDS Maps, Naturals

CONSTANTS Accounts

VARIABLES
    taken,      \* how many requests were ever admitted
    open,       \* what is held: number -> what the caller brought
    closed,     \* number -> how it was divided
    balances,   \* the callers' stablecoin
    collected   \* NEAR booked as fees

escrowVars == <<taken, open, closed, balances, collected>>

Brought == [sender : Accounts, payment : Nat, attached : Nat, input_deposit : Nat]
Endings == {"success", "failure", "promise_failed", "stale", "owner", "bulk"}
Outcomes == [how : Endings, refunded : Nat, kept : Nat, back : Nat, earned : Nat]

EscrowInit ==
    /\ taken = 0
    /\ open = EmptyMap /\ closed = EmptyMap
    /\ balances = [a \in Accounts |-> 0]
    /\ collected = 0

\* How a settlement may divide what was brought.  A worker's answer is paid out
\* of the compute part alone; only a success earns; a request nobody answered
\* costs the base fee, which may have been raised above the payment since; the
\* owner's cancel returns everything, the owner's bulk cancel only the NEAR.
Divides(e, o) ==
    /\ o.refunded <= e.payment
    /\ o.earned > 0 => o.how = "success"
    /\ \/ /\ o.how \in {"success", "failure"}
          /\ o.refunded + o.kept = e.payment /\ o.refunded >= e.input_deposit
          /\ o.back + o.earned = e.attached
       \/ o.how = "promise_failed" /\ o.refunded + o.kept >= e.payment /\ o.back = e.attached
       \/ o.how = "stale" /\ o.refunded + o.kept = e.payment /\ o.back = e.attached
       \/ o.how = "owner" /\ o.refunded = e.payment /\ o.kept = 0 /\ o.back = e.attached
       \/ o.how = "bulk" /\ o.refunded = e.payment /\ o.kept = 0 /\ o.back = 0

\* Stablecoin arrives for an account.
Receive ==
    /\ \E a \in Accounts :
          /\ balances' = [balances EXCEPT ![a] = balances'[a]]
          /\ balances'[a] >= balances[a]
    /\ UNCHANGED <<taken, open, closed, collected>>

\* A request is admitted: its stablecoin leaves its sender's balance.
Admit ==
    /\ taken' = taken + 1
    /\ taken \in DOMAIN open'
    /\ LET e == open'[taken] IN
       /\ e \in Brought /\ e.input_deposit <= e.payment
       /\ open' = Put(open, taken, e)
       /\ e.attached <= balances[e.sender]
       /\ balances' = [balances EXCEPT ![e.sender] = @ - e.attached]
    /\ UNCHANGED <<closed, collected>>

\* A request that is held is released: to its sender, to those who earned, and
\* to the contract's fees.
Release ==
    /\ \E r \in DOMAIN open :
          /\ r \notin DOMAIN closed /\ r \in DOMAIN closed'
          /\ LET o == closed'[r] IN
             /\ o \in Outcomes /\ Divides(open[r], o)
             /\ closed' = Put(closed, r, o)
             /\ balances' = [balances EXCEPT ![open[r].sender] = @ + o.back]
             /\ collected' = collected + o.kept
          /\ open' = Drop(open, r)
    /\ UNCHANGED taken

EscrowNext == Receive \/ Admit \/ Release
EscrowSpec == EscrowInit /\ [][EscrowNext]_escrowVars
=============================================================================
