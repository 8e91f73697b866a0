-------------------------- MODULE WalletProperties --------------------------
(* What the wallet session promises the pages that use it.                    *)
EXTENDS WalletSession

Messages == [call : Nat, what : {"accounts", "chain"},
             value : Accounts \cup Chains \cup {Nobody, Failed}]

\* Every variable keeps its type; a request belongs to a call of this page.
TypeOK ==
    /\ selected \in Accounts \cup {Nobody} /\ network \in Chains
    /\ asked \subseteq (DOMAIN calls) \X {"accounts", "chain"}
    /\ inbox \in Seq(Messages)
    /\ status \in {"disconnected", "connecting", "connected", "wrong_network"}
    /\ address \in Accounts \cup {Nobody} /\ chainId \in Chains \cup {Unknown}
    /\ manuallyDisconnected \in BOOLEAN /\ mark \in BOOLEAN /\ overlapped \in BOOLEAN
    /\ \A i \in DOMAIN calls : calls[i].kind \in Kinds
    /\ changes \in 0 .. MaxChanges

\* The operations that need the wallet are offered on status alone
\* (canUseWalletTransactionRoute): "connected" always comes with an account and
\* the chain of the deployment, whatever reports and answers crossed.
ConnectedIsUsable == status = "connected" => address # Nobody /\ chainId = Target

\* A page is only kept "connecting", which disables every button, by a call
\* that is still open.
ConnectingEnds == status = "connecting" => OpenCalls({"connect", "switchAccount"}) # {}

\* A disconnect is retained. The preference is lifted by a connection the user
\* asks for and by nothing else, loading the page again included once it is
\* stored; while it holds no account appears, by a report or by a probe that
\* answers late, unless a call the user started brings it.
CallEnds(kinds) == \E i \in OpenCalls(kinds) : i \in DOMAIN calls' /\ ~calls'[i].open
DisconnectRetained ==
    [][/\ manuallyDisconnected /\ mark /\ ~manuallyDisconnected' => CallEnds({"connect"})
       /\ manuallyDisconnected /\ address = Nobody /\ address' # Nobody
            => CallEnds(Kinds \ {"probe"})]_vars

\* At rest the page shows the account the wallet exposes, unless a report
\* reached it while a call was open or it was disconnected during a change of
\* account: what such a call brings, or restores when it is declined, may be
\* older than what the page was told meanwhile.
AtRest == inbox = <<>> /\ OpenCalls(Kinds) = {}
ShowsWallet == AtRest /\ ~overlapped /\ status # "disconnected" => address = selected

=============================================================================
