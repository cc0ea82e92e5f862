-------------------------- MODULE AccessConditions --------------------------
(***************************************************************************)
(* The condition on a secret row (keystore-worker/src/types.rs,            *)
(* AccessCondition) and what the keystore concludes from it: the verdict,  *)
(* whether the caller was admitted by name, and whether a refusal is the   *)
(* running build's.                                                        *)
(*                                                                         *)
(* A verdict is "true", "false" or "unknown": the Err of evaluate, for a   *)
(* leaf that cannot be judged.  The world w a condition is judged in holds *)
(* what the chain answers about each account, the time, and the run's      *)
(* facts: the executing build and the calling account, either of which a   *)
(* request may leave out.                                                  *)
(***************************************************************************)
EXTENDS Integers, Sequences, SequencesExt

CONSTANTS
    Caller,        \* the account a row is judged for
    Missing        \* a fact the request or the chain does not give

Known(b) == IF b THEN "true" ELSE "false"
Negate(v) == CASE v = "true" -> "false" [] v = "false" -> "true" [] OTHER -> "unknown"

AllowAll == [t |-> "AllowAll"]
Whitelist(accounts) == [t |-> "Whitelist", accounts |-> accounts]
AccountPattern(matched) == [t |-> "AccountPattern", accounts |-> matched]
OnChain(leaf, operator, value) == [t |-> "OnChain", leaf |-> leaf, operator |-> operator, value |-> value]
ValidUntil(until) == [t |-> "ValidUntil", until |-> until]
WasmHash(hash) == [t |-> "WasmHash", hash |-> hash]
Not(c) == [t |-> "Not", condition |-> c]
Predecessor(c) == [t |-> "Predecessor", condition |-> c]
And(cs) == [t |-> "And", conditions |-> cs]
Or(cs) == [t |-> "Or", conditions |-> cs]

-----------------------------------------------------------------------------
compare_values(actual, operator, required) ==
    CASE operator = "Gte" -> actual >= required
      [] operator = "Lt" -> actual < required
      [] operator = "Eq" -> actual = required

\* The leaves.  A balance is compared, a token or a role held counts as 1; the
\* chain may not answer.
Judge(c, subject, w) ==
    CASE c.t = "AllowAll" -> "true"
      [] c.t \in {"Whitelist", "AccountPattern"} -> Known(subject \in c.accounts)
      [] c.t = "OnChain" ->
           LET actual == w.chain[<<c.leaf, subject>>]
           IN IF actual = Missing THEN "unknown"
              ELSE Known(compare_values(actual, c.operator, c.value))
      [] c.t = "ValidUntil" -> Known(w.now < c.until)
      [] c.t = "WasmHash" -> IF w.build = Missing THEN "unknown" ELSE Known(w.build = c.hash)

\* Logic::And and Logic::Or: one verdict more, on what the branches before it
\* gave.  A branch that settles the answer ends the loop; an unknown is carried.
AndThenStop(so_far, v) == IF so_far # "true" THEN so_far ELSE v
AndThen(so_far, v) ==
    IF so_far = "false" THEN "false" ELSE IF v = "true" THEN so_far ELSE v
OrElse(so_far, v) ==
    IF so_far = "true" THEN "true" ELSE IF v = "false" THEN so_far ELSE v

RECURSIVE evaluate(_, _, _)
evaluate(c, subject, w) ==
    CASE c.t = "And" ->
           FoldLeft(LAMBDA so_far, b : AndThen(so_far, evaluate(b, subject, w)), "true", c.conditions)
      [] c.t = "Or" ->
           FoldLeft(LAMBDA so_far, b : OrElse(so_far, evaluate(b, subject, w)), "false", c.conditions)
      [] c.t = "Not" -> Negate(evaluate(c.condition, subject, w))
      [] c.t = "Predecessor" ->
           IF w.predecessor = Missing THEN "unknown"
           ELSE evaluate(c.condition, w.predecessor, w)
      [] OTHER -> Judge(c, subject, w)

-----------------------------------------------------------------------------
\* holds_without_the_chain: the verdict as far as the request and the clock
\* give it.
RECURSIVE holds_without_the_chain(_, _, _)
holds_without_the_chain(c, subject, w) ==
    LET held == [i \in DOMAIN c.conditions |-> holds_without_the_chain(c.conditions[i], subject, w)]
    IN CASE c.t = "And" -> IF "false" \in Range(held) THEN "false"
                           ELSE IF "unknown" \in Range(held) THEN "unknown" ELSE "true"
         [] c.t = "Or" -> IF "true" \in Range(held) THEN "true"
                          ELSE IF "unknown" \in Range(held) THEN "unknown" ELSE "false"
         [] c.t = "Not" -> Negate(holds_without_the_chain(c.condition, subject, w))
         [] c.t \in {"OnChain", "Predecessor"} -> "unknown"
         [] OTHER -> Judge(c, subject, w)

\* names_on_an_admitting_path: under an Or nothing is known of one branch, so
\* what stands beside the name must hold by itself.
BesideTheName(cs, at, subject, w) ==
    \A other \in DOMAIN cs \ {at} : holds_without_the_chain(cs[other], subject, w) = "true"

RECURSIVE names_on_an_admitting_path(_, _, _, _)
names_on_an_admitting_path(c, subject, w, known_to_hold) ==
    CASE c.t = "Whitelist" -> subject \in c.accounts
      [] c.t = "And" -> \E at \in DOMAIN c.conditions :
             /\ names_on_an_admitting_path(c.conditions[at], subject, w, known_to_hold)
             /\ known_to_hold \/ BesideTheName(c.conditions, at, subject, w)
      [] c.t = "Or" -> \E at \in DOMAIN c.conditions :
             names_on_an_admitting_path(c.conditions[at], subject, w, FALSE)
      [] OTHER -> FALSE

admits_by_name(c, subject, w) == names_on_an_admitting_path(c, subject, w, TRUE)

\* build_refusal: what denial_message_in tells the owner of the row.
RECURSIVE build_refusal(_, _)
build_refusal(c, w) ==
    CASE w.build = Missing -> FALSE
      [] c.t = "WasmHash" -> w.build # c.hash
      [] c.t = "Not" -> c.condition.t = "WasmHash" /\ w.build = c.condition.hash
      [] c.t = "And" -> \E i \in DOMAIN c.conditions : build_refusal(c.conditions[i], w)
      [] c.t = "Or" -> c.conditions # <<>> /\ \A i \in DOMAIN c.conditions : build_refusal(c.conditions[i], w)
      [] OTHER -> FALSE

-----------------------------------------------------------------------------
\* The worlds w may be one of, once what it leaves out is filled in.
Answers == 0..2
FilledIn(w, builds, accounts) ==
    {[w EXCEPT !.chain = f, !.build = b, !.predecessor = p] :
        f \in {g \in [DOMAIN w.chain -> Answers] :
                 \A k \in DOMAIN w.chain : w.chain[k] # Missing => g[k] = w.chain[k]},
        b \in IF w.build = Missing THEN builds ELSE {w.build},
        p \in IF w.predecessor = Missing THEN accounts ELSE {w.predecessor}}

RECURSIVE Mirror(_)
Mirror(c) ==
    CASE c.t \in {"And", "Or"} ->
           [c EXCEPT !.conditions = Reverse([i \in DOMAIN c.conditions |-> Mirror(c.conditions[i])])]
      [] c.t \in {"Not", "Predecessor"} -> [c EXCEPT !.condition = Mirror(@)]
      [] OTHER -> c

\* A path of branches that all hold, with a whitelist naming the caller on it.
RECURSIVE NamedPath(_, _, _)
NamedPath(c, subject, w) ==
    /\ evaluate(c, subject, w) = "true"
    /\ CASE c.t = "Whitelist" -> TRUE
         [] c.t \in {"And", "Or"} -> \E i \in DOMAIN c.conditions : NamedPath(c.conditions[i], subject, w)
         [] OTHER -> FALSE
=============================================================================
