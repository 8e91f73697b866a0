--------------------------- MODULE WalletSession ---------------------------
(* The wallet session of the web application: useWallet.ts, with the buttons  *)
(* of WalletButton.tsx and WalletModal.tsx that start its operations.         *)
(*                                                                            *)
(* The page and the injected wallet are two processes. The page posts         *)
(* requests (asked); the wallet answers each one when it, or its owner, gets  *)
(* to it, and reports the changes its owner makes on its own. Answers and     *)
(* reports reach the page in the order the wallet sent them (inbox). A call   *)
(* is a function of the page that waits for answers: the probe the effect     *)
(* starts, or an operation the user started.                                  *)
EXTENDS Naturals, Sequences

CONSTANTS Accounts, Chains, Target, Nobody, Unknown, Awaited, Failed,
          MaxCalls,    \* bound on the calls between two loads of the page
          MaxChanges   \* bound on the owner's own changes and page loads

ASSUME SessionAssumption ==
    /\ Target \in Chains
    /\ Nobody \notin Accounts
    /\ Unknown \notin Chains
    /\ {Awaited, Failed} \cap (Accounts \cup Chains \cup {Nobody, Unknown}) = {}
    /\ MaxCalls \in Nat /\ MaxChanges \in Nat

VARIABLES
    selected,   \* the account the wallet exposes to this site
    network,    \* the chain the wallet is on
    asked,      \* requests the wallet has not answered
    inbox,      \* answers and reports on their way to the page
    status, address, chainId,   \* what the page holds
    manuallyDisconnected,
    mark,       \* the preference kept in sessionStorage
    calls,      \* the calls made since the page was loaded
    overlapped, \* a report reached the page while a call was open, or the user
                \* disconnected during a change of account
    changes

vars == <<selected, network, asked, inbox, status, address, chainId,
          manuallyDisconnected, mark, calls, overlapped, changes>>
wallet == <<selected, network>>
shown == <<status, address, chainId>>

-----------------------------------------------------------------------------
(* Calls and the requests they make. *)

Kinds == {"probe", "connect", "switchAccount", "switchNetwork"}

\* A change of account keeps what to go back to.
Call(kind) == [kind |-> kind, open |-> TRUE, accounts |-> Awaited, chain |-> Awaited,
               address |-> IF kind = "switchAccount" THEN address ELSE Nobody,
               chainId |-> IF kind = "switchAccount" THEN chainId ELSE Unknown]

\* switchAccount asks for the chain when it has the accounts.
FirstRequests(kind) ==
    CASE kind \in {"probe", "connect"} -> {"accounts", "chain"}
      [] kind = "switchAccount" -> {"accounts"}
      [] kind = "switchNetwork" -> {"chain"}

Post(kind) ==
    /\ Len(calls) < MaxCalls
    /\ calls' = Append(calls, Call(kind))
    /\ asked' = asked \cup ({Len(calls) + 1} \X FirstRequests(kind))

\* What a call got is of no use once it is over.
Over(call) == [call EXCEPT !.open = FALSE, !.accounts = Awaited, !.chain = Awaited,
                           !.address = Nobody, !.chainId = Unknown]

OpenCalls(kinds) == {i \in DOMAIN calls : calls[i].open /\ calls[i].kind \in kinds}

-----------------------------------------------------------------------------
(* What the page holds. *)

StatusOf(account, chain) ==
    IF account = Nobody THEN "disconnected"
    ELSE IF chain = Target THEN "connected" ELSE "wrong_network"

Apply(account, chain) ==
    /\ address' = account
    /\ chainId' = chain
    /\ status' = StatusOf(account, chain)

\* readWalletDisconnectPreference.
DisconnectPreference == mark

\* A page that is being loaded: the effect probes the wallet, unless the user
\* disconnected in this session.
Loaded(disconnected) ==
    [calls |-> IF disconnected THEN <<>> ELSE << Call("probe") >>,
     asked |-> IF disconnected THEN {} ELSE {1} \X {"accounts", "chain"}]

Init ==
    /\ selected \in Accounts \cup {Nobody}
    /\ network \in Chains
    /\ inbox = <<>>
    /\ status = "disconnected" /\ address = Nobody /\ chainId = Unknown
    /\ manuallyDisconnected = FALSE /\ mark = FALSE
    /\ calls = Loaded(FALSE).calls /\ asked = Loaded(FALSE).asked
    /\ overlapped = FALSE
    /\ changes = 0

Reload ==
    /\ changes < MaxChanges
    /\ changes' = changes + 1
    /\ inbox' = <<>>
    /\ status' = "disconnected" /\ address' = Nobody /\ chainId' = Unknown
    /\ manuallyDisconnected' = DisconnectPreference
    /\ calls' = Loaded(DisconnectPreference).calls /\ asked' = Loaded(DisconnectPreference).asked
    /\ overlapped' = FALSE
    /\ UNCHANGED <<wallet, mark>>

-----------------------------------------------------------------------------
(* The wallet and its owner. *)

Report(what, value) == [call |-> 0, what |-> what, value |-> value]
Answered(i, what, value) == [call |-> i, what |-> what, value |-> value]

\* The messages that tell the page of a new account or chain.
AccountReport(account) == IF account = selected THEN <<>> ELSE <<Report("accounts", account)>>
ChainReport(chain) == IF chain = network THEN <<>> ELSE <<Report("chain", chain)>>

OwnerSelects(account) ==
    /\ changes < MaxChanges
    /\ account # selected
    /\ selected' = account
    /\ inbox' = inbox \o AccountReport(account)
    /\ changes' = changes + 1
    /\ UNCHANGED <<network, asked, shown, manuallyDisconnected, mark, calls, overlapped>>

OwnerChangesNetwork(chain) ==
    /\ changes < MaxChanges
    /\ chain # network
    /\ network' = chain
    /\ inbox' = inbox \o ChainReport(chain)
    /\ changes' = changes + 1
    /\ UNCHANGED <<selected, asked, shown, manuallyDisconnected, mark, calls, overlapped>>

\* A probe reads the exposed account, a connection asks the owner for one when
\* none is exposed, and a change of account always asks.
Offered(kind) ==
    CASE kind = "probe" -> {selected}
      [] kind = "connect" -> IF selected = Nobody THEN Accounts ELSE {selected}
      [] kind = "switchAccount" -> Accounts

AnswerAccounts(i) ==
    /\ <<i, "accounts">> \in asked
    /\ \E account \in Offered(calls[i].kind) :
          /\ selected' = account
          /\ inbox' = inbox \o AccountReport(account) \o <<Answered(i, "accounts", account)>>
    /\ asked' = asked \ {<<i, "accounts">>}
    /\ UNCHANGED <<network, shown, manuallyDisconnected, mark, calls, overlapped, changes>>

AnswerChain(i) ==
    /\ <<i, "chain">> \in asked
    /\ network' = IF calls[i].kind = "switchNetwork" THEN Target ELSE network
    /\ inbox' = inbox \o ChainReport(network') \o <<Answered(i, "chain", network')>>
    /\ asked' = asked \ {<<i, "chain">>}
    /\ UNCHANGED <<selected, shown, manuallyDisconnected, mark, calls, overlapped, changes>>

\* The owner declines, or the wallet fails.
Refuse(i, what) ==
    /\ <<i, what>> \in asked
    /\ inbox' = Append(inbox, Answered(i, what, Failed))
    /\ asked' = asked \ {<<i, what>>}
    /\ UNCHANGED <<wallet, shown, manuallyDisconnected, mark, calls, overlapped, changes>>

-----------------------------------------------------------------------------
(* The operations the page offers. *)

\* WalletButton shows the account menu: also while an operation is pending.
MenuShown == address # Nobody /\ status \notin {"disconnected", "wrong_network"} /\ chainId = Target

StartConnect ==
    /\ status = "disconnected"
    /\ Post("connect")
    /\ status' = "connecting"
    /\ UNCHANGED <<wallet, inbox, address, chainId, manuallyDisconnected, mark, overlapped, changes>>

StartSwitchAccount ==
    /\ MenuShown
    /\ OpenCalls({"switchAccount"}) = {}
    /\ Post("switchAccount")
    /\ status' = "connecting"
    /\ UNCHANGED <<wallet, inbox, address, chainId, manuallyDisconnected, mark, overlapped, changes>>

StartSwitchNetwork ==
    /\ status = "wrong_network"
    /\ Post("switchNetwork")
    /\ UNCHANGED <<wallet, inbox, shown, manuallyDisconnected, mark, overlapped, changes>>

\* FAULT: a probe that is still waiting is not abandoned.
ProbesLeftOpen == calls

\* The effect that listens and probes is cleaned up, so an open probe is closed.
ClosedProbes == [i \in DOMAIN calls |->
    IF calls[i].kind = "probe" THEN Over(calls[i]) ELSE calls[i]]

\* Storing the mark may fail.
Disconnect ==
    /\ MenuShown
    /\ manuallyDisconnected' = TRUE
    /\ mark' \in {mark, TRUE}
    /\ status' = "disconnected" /\ address' = Nobody /\ chainId' = Unknown
    /\ calls' = ClosedProbes
    /\ overlapped' = (overlapped \/ OpenCalls({"switchAccount"}) # {})
    /\ UNCHANGED <<wallet, asked, inbox, changes>>

-----------------------------------------------------------------------------
(* The page takes a message. *)

Take(message) == inbox' = Tail(inbox) /\ message = Head(inbox)

\* FAULT: reports are only followed while the page is connected.
TakeReportConnected(message) ==
    /\ Take(message)
    /\ message.call = 0
    /\ IF manuallyDisconnected \/ status # "connected" THEN UNCHANGED shown
       ELSE IF message.what = "accounts" THEN Apply(message.value, chainId)
       ELSE Apply(address, message.value)
    /\ overlapped' = (overlapped \/ OpenCalls(Kinds) # {})
    /\ UNCHANGED <<wallet, asked, manuallyDisconnected, mark, calls, changes>>

\* The listeners exist while the user has not disconnected.
TakeReport(message) ==
    /\ Take(message)
    /\ message.call = 0
    /\ IF manuallyDisconnected THEN UNCHANGED shown
       ELSE IF message.what = "accounts" THEN Apply(message.value, chainId)
       ELSE Apply(address, message.value)
    /\ overlapped' = (overlapped \/ OpenCalls(Kinds) # {})
    /\ UNCHANGED <<wallet, asked, manuallyDisconnected, mark, calls, changes>>

\* An answer the call goes on waiting after, or that comes when it is over.
TakeAnswer(message) ==
    LET i == message.call
        got == [calls EXCEPT ![i] = [@ EXCEPT ![message.what] = message.value]]
        wholly == got[i].accounts # Awaited /\ got[i].chain # Awaited
    IN  /\ Take(message)
        /\ i # 0
        /\ \/ /\ ~calls[i].open
              /\ UNCHANGED <<asked, calls>>
           \/ /\ calls[i].open /\ message.value # Failed
              /\ calls[i].kind # "switchNetwork" /\ ~wholly
              /\ calls' = got
              /\ asked' = IF calls[i].kind = "switchAccount" THEN asked \cup {<<i, "chain">>} ELSE asked
        /\ UNCHANGED <<wallet, shown, manuallyDisconnected, mark, overlapped, changes>>

\* The call has all it waited for: the account and the chain it got.
Completes(message, kind) ==
    LET call == calls[message.call] IN
    /\ Take(message)
    /\ message.call # 0
    /\ call.open /\ call.kind = kind
    /\ message.value # Failed
    /\ kind # "switchNetwork" => IF message.what = "accounts" THEN call.chain # Awaited
                                                              ELSE call.accounts # Awaited

Close(i) == calls' = [calls EXCEPT ![i] = Over(@)]
GotAccount(message) ==
    IF message.what = "accounts" THEN message.value ELSE calls[message.call].accounts

\* FAULT: the answer that comes last is taken for the chain.
GotChainLast(message) == message.value
GotChain(message) ==
    IF message.what = "chain" THEN message.value ELSE calls[message.call].chain

ProbeDone(message) ==
    /\ Completes(message, "probe")
    /\ Apply(GotAccount(message), GotChain(message))
    /\ Close(message.call)
    /\ UNCHANGED <<wallet, asked, manuallyDisconnected, mark, overlapped, changes>>

\* When the user had disconnected, the effect runs again and probes. Removing
\* the mark may fail.
ConnectDone(message) ==
    LET closed == [calls EXCEPT ![message.call] = Over(@)] IN
    /\ Completes(message, "connect")
    /\ Apply(GotAccount(message), GotChain(message))
    /\ manuallyDisconnected' = FALSE
    /\ mark' \in {mark, FALSE}
    /\ IF manuallyDisconnected
       THEN /\ calls' = Append(closed, Call("probe"))
            /\ asked' = asked \cup ({Len(calls) + 1} \X FirstRequests("probe"))
       ELSE calls' = closed /\ UNCHANGED asked
    /\ UNCHANGED <<wallet, overlapped, changes>>

SwitchAccountDone(message) ==
    /\ Completes(message, "switchAccount")
    /\ Apply(GotAccount(message), GotChain(message))
    /\ Close(message.call)
    /\ UNCHANGED <<wallet, asked, manuallyDisconnected, mark, overlapped, changes>>

\* FAULT: the status is set whether or not there is an account.
SwitchNetworkDoneConnected(message) ==
    /\ Completes(message, "switchNetwork")
    /\ chainId' = Target
    /\ status' = "connected"
    /\ Close(message.call)
    /\ UNCHANGED <<wallet, asked, address, manuallyDisconnected, mark, overlapped, changes>>

SwitchNetworkDone(message) ==
    /\ Completes(message, "switchNetwork")
    /\ chainId' = Target
    /\ status' = IF address = Nobody THEN "disconnected" ELSE "connected"
    /\ Close(message.call)
    /\ UNCHANGED <<wallet, asked, address, manuallyDisconnected, mark, overlapped, changes>>

\* FAULT: a declined change of account leaves the page as it is.
CallFailsQuietly(message) ==
    LET call == calls[message.call] IN
    /\ Take(message)
    /\ message.call # 0
    /\ call.open /\ message.value = Failed
    /\ CASE call.kind = "probe" -> Apply(Nobody, Unknown)
         [] call.kind = "connect" -> status' = "disconnected" /\ UNCHANGED <<address, chainId>>
         [] OTHER -> UNCHANGED shown
    /\ Close(message.call)
    /\ UNCHANGED <<wallet, asked, manuallyDisconnected, mark, overlapped, changes>>

CallFails(message) ==
    LET call == calls[message.call] IN
    /\ Take(message)
    /\ message.call # 0
    /\ call.open /\ message.value = Failed
    /\ CASE call.kind = "probe" -> Apply(Nobody, Unknown)
         [] call.kind = "connect" -> status' = "disconnected" /\ UNCHANGED <<address, chainId>>
         [] call.kind = "switchAccount" -> Apply(call.address, call.chainId)
         [] call.kind = "switchNetwork" -> UNCHANGED shown
    /\ Close(message.call)
    /\ UNCHANGED <<wallet, asked, manuallyDisconnected, mark, overlapped, changes>>

Deliver ==
    /\ inbox # <<>>
    /\ LET message == Head(inbox) IN
          \/ TakeReport(message)
          \/ TakeAnswer(message)
          \/ ProbeDone(message)
          \/ ConnectDone(message)
          \/ SwitchAccountDone(message)
          \/ SwitchNetworkDone(message)
          \/ CallFails(message)

Next ==
    \/ Reload
    \/ \E account \in Accounts \cup {Nobody} : OwnerSelects(account)
    \/ \E chain \in Chains : OwnerChangesNetwork(chain)
    \/ \E i \in DOMAIN calls : AnswerAccounts(i) \/ AnswerChain(i)
    \/ \E i \in DOMAIN calls, what \in {"accounts", "chain"} : Refuse(i, what)
    \/ StartConnect \/ StartSwitchAccount \/ StartSwitchNetwork \/ Disconnect
    \/ Deliver

Spec == Init /\ [][Next]_vars
=============================================================================
