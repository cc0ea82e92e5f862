---------------------------- MODULE MCPaymentKeys ----------------------------
(***************************************************************************)
(* PaymentKeys for TLC, in two scopes that together would be too large:    *)
(* one nonce and every request, each task handed out once; or both nonces, *)
(* one request, and a queue that may hand a task out again.  Workers and   *)
(* key strings are interchangeable.  A third scope is how the calls of two *)
(* loops of a worker reach the chain.                                      *)
(***************************************************************************)
EXTENDS PaymentKeys, ChainCalls, TLC

CONSTANTS w1, w2, s1, s2, e1, e2

VARIABLE scope

Symmetry == Permutations(Workers) \cup Permutations(Secrets)

MCCallsOf == e1 :> 2 @@ e2 :> 1

\* A worker starts on a task that the queue keeps.
TakenAgain == \E w \in Workers : workers[w].task = None /\ workers'[w].task \in tasks'

PaymentStep ==
    /\ Next /\ UNCHANGED chainVars
    /\ scope = "requests" => DOMAIN minted' \subseteq {1} /\ ~TakenAgain
    /\ scope = "redelivery" => next_id' <= 2

MCVars == <<vars, chainVars, scope>>
MCInit == Init /\ ChainInit /\ scope \in {"requests", "redelivery", "chain"}
MCNext ==
    /\ UNCHANGED scope
    /\ \/ scope # "chain" /\ PaymentStep
       \/ scope = "chain" /\ ChainNext /\ UNCHANGED vars
MCSpec == MCInit /\ [][MCNext]_MCVars
=============================================================================
