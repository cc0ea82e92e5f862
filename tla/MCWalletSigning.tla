-------------------------- MODULE MCWalletSigning ---------------------------
(***************************************************************************)
(* Requests to sign with one wallet's keys for TLC: its policy is open,    *)
(* locked to one approver, or asks a board of two, of whom one is pinned   *)
(* to a key; the requests are of every kind, and the bundles of votes are  *)
(* complete, short, doubled, for something else, or vetoed.                *)
(***************************************************************************)
EXTENDS WalletSigning, TLC

CONSTANTS alice, a1, a2, w1

Policy(approvers, pins, threshold, locked, may, asks, recipients) ==
    [approvers |-> approvers, pins |-> pins, threshold |-> threshold, locked |-> locked,
     may |-> may, asks |-> asks, recipients |-> recipients]
MCOpen == Policy({}, EmptyMap, 0, FALSE, {"evm_sign", "solana_sign"}, {}, {"intents.near", "app"})
MCLocked == Policy({a1}, EmptyMap, 1, TRUE, {"trusted"}, {}, {})
MCBoard == Policy({a1, a2}, (a2 :> "k1"), 2, FALSE, {"raw_sign", "solana_raw_tx"},
                  {"transfer", "swap"}, {})
MCPolicies == {MCOpen, MCLocked, MCBoard}
MCPolicyCost == [p \in MCPolicies |-> IF p.locked THEN 3 ELSE 2]
OldRow(p) == w1 :> [owner |-> alice, policy |-> p, frozen |-> FALSE, deposit |-> 1]
MCLegacy == {EmptyMap} \cup {OldRow(p) : p \in MCPolicies}

-----------------------------------------------------------------------------
SignOp(kind, to, chain) == [kind |-> kind, to |-> to, chain |-> chain, hash |-> "h", method |-> "m", pays |-> 1]
Transfer == SignOp("transfer", "bob", <<"near">>)
Vote(by, key, op) == [by |-> by, key |-> key, wallet |-> w1, op |-> op, answers |-> TRUE]
Bundle(approvals, rejections, contract_approvals) ==
    [approvals |-> approvals, rejections |-> rejections, contract_approvals |-> contract_approvals,
     contract_rejections |-> <<>>, here |-> TRUE]
Other == SignOp("transfer", "carol", <<"near">>)
Empty == Bundle(<<>>, <<>>, <<>>)
Bundles == {Empty,
    Bundle(<<Vote(a1, "k1", Transfer), Vote(a2, "k1", Transfer)>>, <<>>, <<>>),
    Bundle(<<Vote(a1, "k1", Transfer), Vote(a1, "k2", Transfer)>>, <<>>, <<>>),
    Bundle(<<Vote(a1, "k1", Transfer), Vote(a2, "k2", Transfer)>>, <<>>, <<Vote(a2, "k2", Transfer)>>),
    Bundle(<<Vote(a2, "k1", Transfer)>>, <<>>, <<Vote(a1, "k1", Transfer)>>),
    Bundle(<<Vote(a1, "k1", Other), Vote(a2, "k1", Other)>>, <<>>, <<>>),
    Bundle(<<Vote(a1, "k1", Transfer), Vote(a2, "k1", Transfer)>>, <<Vote(a1, "k2", Transfer)>>, <<>>)}
Ask(op) == [what |-> "sign", id |-> <<w1>>, op |-> op, known |-> TRUE,
            artifact |-> [hash |-> "h", to |-> "intents.near"], bundle |-> Empty]
Kinds == BuiltKinds \ {"transfer", "call"}
MCRequests ==
    {[Ask(Transfer) EXCEPT !.bundle = b] : b \in Bundles}
    \cup {Ask(SignOp(k, "bob", <<"near">>)) : k \in Kinds \cup {"swap", "policy_update"}}
    \cup {Ask(SignOp("call", to, <<"near">>)) : to \in {"bob", "intents.near"}}
    \cup {[Ask(SignOp("call", "bob", <<"near">>)) EXCEPT !.known = FALSE],
          [Ask(SignOp("swap", "bob", <<"near">>)) EXCEPT !.artifact.to = "app"]}
    \cup {Ask(SignOp("raw", None, c)) : c \in {<<"near">>, <<"sol">>, <<"evm">>, <<"near", "check">>}}
    \cup {Ask(SignOp("sign_message", to, <<"near">>)) : to \in {"app", "other", "intents.near"}}
    \cup {[what |-> "evm", id |-> <<w1>>, chain |-> c, path |-> p, form |-> f] :
             c \in {<<"base">>}, p \in {None, "perp", "UP"}, f \in {"message", "transaction"}}
    \cup {[what |-> "solana", id |-> <<w1>>, chain |-> <<"sol">>, form |-> f, bytes |-> b] :
             f \in {"message", "transaction"}, b \in {"text", "transaction"}}
    \cup {[what |-> "derive", id |-> i, chain |-> <<"near">>, path |-> None] : i \in {<<w1>>, <<w1, "evm">>}}
    \cup {[what |-> "derive", id |-> <<w1>>, chain |-> <<"base">>, path |-> "perp"]}
    \cup {[what |-> "export", id |-> <<w1>>, chain |-> <<"near">>, path |-> <<"check">>],
          [what |-> "export", id |-> <<w1>>, chain |-> <<"evm">>, path |-> <<"near">>],
          [what |-> "export", id |-> <<w1>>, chain |-> <<"evm">>, path |-> <<"perp">>]}
MCSegments == {w1, "wallet", "subkey", "evm", "base", "solana", "sol", "near", "check", "perp"}
MCKeyTables == {{<<a1, "k1">>, <<a1, "k2">>, <<a2, "k1">>}, {<<a2, "k1">>}}
MCDepositViews == {[min |-> 1, registered |-> FALSE], [min |-> 2, registered |-> FALSE], [min |-> 1, registered |-> TRUE]}


\* The signing part of a run: the policy is edited, to the open one, before the requests;
\* it is frozen and thawed at any time.
MCSigningNext ==
    \/ SigningNext
    \/ /\ given = None /\ UNCHANGED signingVars
       /\ \/ \E s \in signatures : StoreWalletPolicy(s, None)
          \/ signatures = {} /\ BeginSignPolicy(w1, MCOpen, alice)
          \/ FinishSignPolicy({})
    \/ /\ UNCHANGED signingVars
       /\ \E a \in Accounts, w \in Wallets : FreezeWallet(a, w) \/ UnfreezeWallet(a, w)
=============================================================================
