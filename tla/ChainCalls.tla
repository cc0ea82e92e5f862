----------------------------- MODULE ChainCalls -----------------------------
(***************************************************************************)
(* How a worker's contract calls reach the chain (worker/src/near_client). *)
(* A call reads its access key's nonce at the final block, signs with the  *)
(* next one, sends the transaction and looks for it by hash, round after   *)
(* round, until it has executed, the chain refuses it or the follow window *)
(* ends.  The execution loop and the system-callbacks handler share one    *)
(* client, hence one key.                                                  *)
(***************************************************************************)
EXTENDS Integers, FiniteSets

CONSTANTS
    ChainLoops,          \* the loops that share the client
    CallsOf,             \* loop -> how many calls it makes, one after another
    NonceRefusalRounds,  \* NONCE_REFUSAL_ROUNDS
    FollowRounds,        \* bound: the rounds TX_FOLLOW has room for
    NodeLag              \* external: rounds by which a node may be behind the chain

\* A nonce refusal is looked at again because "the node asked for its status may
\* not have that block yet" (near_client.rs): by fewer rounds than it is looked at.
ASSUME ChainCallsAssumption ==
    /\ CallsOf \in [ChainLoops -> Nat]
    /\ NodeLag \in Nat /\ NonceRefusalRounds \in Nat /\ FollowRounds \in Nat
    /\ NodeLag < NonceRefusalRounds

VARIABLES
    key_nonce, final_nonce,  \* the access key's nonce in the latest and the final block
    sent,                    \* loop -> the call in hand: its step, nonce and counts
    ended,                   \* <<loop, call>> -> how the call ended
    place,                   \* <<loop, call>> -> where its transaction is on the chain
    unseen                   \* <<loop, call>> -> looks that missed it in a block

chainVars == <<key_nonce, final_nonce, sent, ended, place, unseen>>

ChainCallIds == UNION {{<<l, n>> : n \in 1..CallsOf[l]} : l \in ChainLoops}
InFlight(l) == <<l, sent[l].call>>
NoChainCall(n) == [call |-> n, step |-> "idle", nonce |-> 0, sends |-> 0, nonce_refusals |-> 0, refused |-> "no"]

ChainInit ==
    /\ key_nonce = 0 /\ final_nonce = 0
    /\ sent = [l \in ChainLoops |-> NoChainCall(1)]
    /\ ended = [c \in ChainCallIds |-> "no"]
    /\ place = [c \in ChainCallIds |-> [at |-> "nowhere", nonce |-> 0]]
    /\ unseen = [c \in ChainCallIds |-> 0]

-----------------------------------------------------------------------------
\* call_contract_method_internal: the nonce is the final block's, plus one.
\* Every later send of the call is of this one signed transaction.
SignCall(l) ==
    /\ sent[l].step = "idle" /\ sent[l].call <= CallsOf[l]
    /\ sent' = [sent EXCEPT ![l].step = "send", ![l].nonce = final_nonce + 1]
    /\ place' = [place EXCEPT ![InFlight(l)].nonce = final_nonce + 1]
    /\ UNCHANGED <<key_nonce, final_nonce, ended, unseen>>

\* What a node says of a transaction sent to it: one it cannot place above the
\* key's nonce is refused; a refusal for another reason may be the node's alone.
SendAnswers(l) ==
    {"no", "other"} \cup IF sent[l].nonce <= key_nonce THEN {"nonce"} ELSE {}

\* The send of a round: refused, taken or unheard.  A transaction that was not
\* refused may have reached the pool.
SendRound(l) ==
    /\ sent[l].step = "send"
    /\ \E answer \in SendAnswers(l) :
         /\ sent' = [sent EXCEPT ![l].step = "look", ![l].sends = @ + 1, ![l].refused = answer]
         /\ \/ UNCHANGED place
            \/ /\ answer = "no" /\ place[InFlight(l)].at = "nowhere"
               /\ place' = [place EXCEPT ![InFlight(l)].at = "pool"]
    /\ UNCHANGED <<key_nonce, final_nonce, ended, unseen>>

\* The answers a look by hash can get.  A node that lags behind the block does
\* not know the transaction yet.
LookAnswers(c) ==
    {"silent"}
      \cup (IF place[c].at = "executed" THEN {"executed"} ELSE {})
      \cup (IF place[c].at = "block" THEN {"unfinished"} ELSE {})
      \cup (IF place[c].at \in {"nowhere", "pool"} \/ unseen[c] < NodeLag THEN {"unknown"} ELSE {})

EndCall(l, how) ==
    /\ ended' = [ended EXCEPT ![InFlight(l)] = how]
    /\ sent' = [sent EXCEPT ![l] = NoChainCall(@.call + 1)]

\* The refusals in a row that met an unknown transaction, after this look.
NonceRefusals(l, unknown) ==
    IF unknown /\ sent[l].refused = "nonce" THEN sent[l].nonce_refusals + 1 ELSE 0

GiveUpAtOnce(l, unknown) == unknown /\ sent[l].refused # "no"
GiveUp(l, unknown) ==
    /\ unknown
    /\ \/ sent[l].refused = "other"
       \/ NonceRefusals(l, unknown) >= NonceRefusalRounds

\* The look of a round, and what it decides.
LookRound(l) ==
    /\ sent[l].step = "look"
    /\ \E answer \in LookAnswers(InFlight(l)) :
         LET unknown == answer = "unknown"
         IN /\ IF answer = "executed" THEN EndCall(l, "executed")
               ELSE IF GiveUp(l, unknown) THEN EndCall(l, sent[l].refused)
               ELSE IF sent[l].sends = FollowRounds THEN EndCall(l, "window")
               ELSE /\ sent' = [sent EXCEPT ![l].step = "send",
                                            ![l].nonce_refusals = NonceRefusals(l, unknown)]
                    /\ UNCHANGED ended
            /\ unseen' = IF unknown /\ place[InFlight(l)].at \in {"block", "executed"}
                         THEN [unseen EXCEPT ![InFlight(l)] = @ + 1] ELSE unseen
    /\ UNCHANGED <<key_nonce, final_nonce, place>>

-----------------------------------------------------------------------------
\* External: the chain.  A pooled transaction is included while its nonce is
\* above the key's, or dropped; an included one executes; blocks become final.
IncludeTx(c) ==
    /\ place[c].at = "pool" /\ place[c].nonce > key_nonce
    /\ key_nonce' = place[c].nonce
    /\ place' = [place EXCEPT ![c].at = "block"]
    /\ UNCHANGED <<final_nonce, sent, ended, unseen>>
DropTx(c) ==
    /\ place[c].at = "pool" /\ place' = [place EXCEPT ![c].at = "nowhere"]
    /\ UNCHANGED <<key_nonce, final_nonce, sent, ended, unseen>>
ExecuteTx(c) ==
    /\ place[c].at = "block" /\ place' = [place EXCEPT ![c].at = "executed"]
    /\ UNCHANGED <<key_nonce, final_nonce, sent, ended, unseen>>
FinalBlock ==
    /\ final_nonce # key_nonce /\ final_nonce' = key_nonce
    /\ UNCHANGED <<key_nonce, sent, ended, place, unseen>>

ChainNext ==
    \/ \E l \in ChainLoops : SignCall(l) \/ SendRound(l) \/ LookRound(l)
    \/ \E c \in ChainCallIds : IncludeTx(c) \/ DropTx(c) \/ ExecuteTx(c)
    \/ FinalBlock

ChainSpec == ChainInit /\ [][ChainNext]_chainVars

-----------------------------------------------------------------------------
\* A call given up for its nonce is lost for good: its transaction has not been
\* included, by any of its sends, and no later block can include it.  A resend
\* of an included transaction is refused for the same reason, so this rests on
\* the refusal being looked at more often than a node may lag.
NonceRefusalIsFinal ==
    \A c \in ChainCallIds :
       ended[c] = "nonce" => place[c].at \notin {"block", "executed"} /\ place[c].nonce <= key_nonce
=============================================================================
