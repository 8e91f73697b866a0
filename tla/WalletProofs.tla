---------------------------- MODULE WalletProofs -----------------------------
(***************************************************************************)
(* Theorems about the wallet session, for every number of accounts, chains *)
(* and calls, and any crossing of requests, answers and reports.           *)
(***************************************************************************)
EXTENDS WalletProperties, SequenceTheorems, TLAPS

-----------------------------------------------------------------------------
(* Types *)

CallTypes == [kind : Kinds, open : BOOLEAN, accounts : Accounts \cup {Nobody, Awaited},
              chain : Chains \cup {Awaited}, address : Accounts \cup {Nobody},
              chainId : Chains \cup {Unknown}]

\* A message is a report or answers a call of this page; an answer that is not
\* a refusal holds what was asked.
MessageTyped(m) ==
  /\ m.call \in 0 .. Len(calls)
  /\ m.what = "accounts" => m.value \in Accounts \cup {Nobody, Failed}
  /\ m.what = "chain" => m.value \in Chains \cup {Failed}
  /\ m.call = 0 => m.value # Failed

\* The strengthening of TypeOK.
SessionType ==
  /\ TypeOK
  /\ calls \in Seq(CallTypes)
  /\ \A j \in DOMAIN inbox : MessageTyped(inbox[j])
  /\ \A i \in DOMAIN calls : <<i, "accounts">> \in asked => calls[i].kind # "switchNetwork"

LEMMA OverType ==
  ASSUME NEW call \in CallTypes
  PROVE  Over(call) \in CallTypes /\ Over(call).kind = call.kind /\ Over(call).open = FALSE
BY DEF Over, CallTypes

LEMMA CallType ==
  ASSUME TypeOK, NEW kind \in Kinds
  PROVE  /\ Call(kind) \in CallTypes
         /\ Call(kind).kind = kind /\ Call(kind).open = TRUE /\ Call(kind).accounts = Awaited
         /\ kind = "switchAccount" => Call(kind).address = address
BY DEF Call, CallTypes, TypeOK

LEMMA FirstRequestsType ==
  /\ \A kind \in Kinds : FirstRequests(kind) \subseteq {"accounts", "chain"}
  /\ "accounts" \notin FirstRequests("switchNetwork")
BY DEF FirstRequests, Kinds

\* A call that ends.
LEMMA CallsClose ==
  ASSUME SessionType, NEW i \in DOMAIN calls
  PROVE  LET closed == [calls EXCEPT ![i] = Over(@)]
         IN  /\ closed \in Seq(CallTypes) /\ Len(closed) = Len(calls)
             /\ closed[i] = Over(calls[i])
             /\ \A j \in DOMAIN calls : j # i => closed[j] = calls[j]
             /\ \A j \in DOMAIN calls : closed[j].kind = calls[j].kind
             /\ closed[i].open = FALSE
<1>1. calls \in Seq(CallTypes) /\ calls[i] \in CallTypes
  BY DEF SessionType
<1>2. /\ Over(calls[i]) \in CallTypes
      /\ Over(calls[i]).kind = calls[i].kind /\ Over(calls[i]).open = FALSE
  BY <1>1, OverType
<1>3. QED
  BY <1>1, <1>2

\* A call that begins.
LEMMA CallsPost ==
  ASSUME SessionType, NEW kind \in Kinds, NEW before \in Seq(CallTypes),
         NEW after, after = Append(before, Call(kind))
  PROVE  /\ after \in Seq(CallTypes) /\ Len(after) = Len(before) + 1
         /\ \A j \in DOMAIN before : j \in DOMAIN after /\ after[j] = before[j]
         /\ after[Len(before) + 1] = Call(kind)
         /\ DOMAIN after = DOMAIN before \cup {Len(before) + 1}
<1>1. Call(kind) \in CallTypes
  BY CallType DEF SessionType
<1> DEFINE call == Call(kind)
<1> HIDE DEF call
<1>2. /\ Append(before, call) \in Seq(CallTypes) /\ Len(Append(before, call)) = Len(before) + 1
      /\ \A j \in 1 .. Len(before) : Append(before, call)[j] = before[j]
      /\ Append(before, call)[Len(before) + 1] = call
  BY <1>1 DEF call
<1>3. DOMAIN before = 1 .. Len(before) /\ DOMAIN after = 1 .. Len(before) + 1 /\ Len(before) \in Nat
  BY <1>2 DEF call
<1>4. QED
  BY <1>2, <1>3 DEF call

\* A message leaves the inbox.
LEMMA InboxPops ==
  ASSUME SessionType, inbox # <<>>, inbox' = Tail(inbox)
  PROVE  /\ inbox' \in Seq(Messages) /\ Len(inbox') = Len(inbox) - 1
         /\ 1 \in DOMAIN inbox /\ Head(inbox) = inbox[1]
         /\ \A j \in DOMAIN inbox' : j + 1 \in DOMAIN inbox /\ inbox'[j] = inbox[j + 1]
         /\ \A j \in DOMAIN inbox : j = 1 \/ (j - 1 \in DOMAIN inbox' /\ inbox'[j - 1] = inbox[j])
BY DEF SessionType, TypeOK

\* Messages enter it.
LEMMA InboxGrows ==
  ASSUME SessionType, NEW more \in Seq(Messages), inbox' = inbox \o more
  PROVE  /\ inbox' \in Seq(Messages) /\ Len(inbox') = Len(inbox) + Len(more)
         /\ \A j \in DOMAIN inbox : j \in DOMAIN inbox' /\ inbox'[j] = inbox[j]
         /\ \A j \in DOMAIN inbox' : j \in DOMAIN inbox
              \/ (j - Len(inbox) \in DOMAIN more /\ inbox'[j] = more[j - Len(inbox)])
         /\ \A j \in DOMAIN more : Len(inbox) + j \in DOMAIN inbox' /\ inbox'[Len(inbox) + j] = more[j]
BY DEF SessionType, TypeOK

\* Messages stay typed while the calls they answer stay.
LEMMA MessagesStay ==
  ASSUME SessionType, Len(calls') \in Nat, Len(calls') >= Len(calls), inbox' \in Seq(Messages),
         \A j \in DOMAIN inbox' : (\E k \in DOMAIN inbox : inbox'[j] = inbox[k])
                                    \/ MessageTyped(inbox'[j])
  PROVE  (\A j \in DOMAIN inbox : MessageTyped(inbox[j]))'
<1>1. Len(calls) \in Nat
  BY DEF SessionType
<1>2. ASSUME NEW j \in DOMAIN inbox' PROVE MessageTyped(inbox'[j])
  BY <1>2 DEF SessionType
<1>3. QED
  BY <1>1, <1>2 DEF MessageTyped

LEMMA ReportTypes ==
  ASSUME SessionType
  PROVE  /\ \A account \in Accounts \cup {Nobody} :
              /\ AccountReport(account) \in Seq(Messages) /\ Len(AccountReport(account)) \in {0, 1}
              /\ \A j \in DOMAIN AccountReport(account) : MessageTyped(AccountReport(account)[j])
         /\ \A chain \in Chains :
              /\ ChainReport(chain) \in Seq(Messages) /\ Len(ChainReport(chain)) \in {0, 1}
              /\ \A j \in DOMAIN ChainReport(chain) : MessageTyped(ChainReport(chain)[j])
<1>1. Len(calls) \in Nat
  BY DEF SessionType
<1>2. /\ \A account \in Accounts \cup {Nobody} :
           Report("accounts", account) \in Messages /\ MessageTyped(Report("accounts", account))
      /\ \A chain \in Chains :
           Report("chain", chain) \in Messages /\ MessageTyped(Report("chain", chain))
  BY <1>1, SessionAssumption DEF Report, Messages, MessageTyped
<1>3. ASSUME NEW m \in Messages, MessageTyped(m)
      PROVE  /\ <<m>> \in Seq(Messages) /\ Len(<<m>>) = 1
             /\ \A j \in DOMAIN <<m>> : MessageTyped(<<m>>[j])
  BY <1>3
<1>4. <<>> \in Seq(Messages) /\ Len(<<>>) = 0 /\ DOMAIN <<>> = {}
  OBVIOUS
<1>5. QED
  BY <1>2, <1>3, <1>4 DEF AccountReport, ChainReport

\* An answer enters the inbox behind the report of the change it made, if any.
LEMMA AnswerGrows ==
  ASSUME SessionType, NEW reports \in Seq(Messages), NEW answer \in Messages,
         inbox' = inbox \o reports \o <<answer>>
  PROVE  /\ inbox' \in Seq(Messages) /\ Len(inbox') = Len(inbox) + Len(reports) + 1
         /\ inbox'[Len(inbox')] = answer
         /\ \A j \in DOMAIN inbox : j \in DOMAIN inbox' /\ inbox'[j] = inbox[j]
         /\ \A j \in DOMAIN reports :
              Len(inbox) + j \in DOMAIN inbox' /\ inbox'[Len(inbox) + j] = reports[j]
         /\ \A j \in DOMAIN inbox' :
              \/ j \in DOMAIN inbox
              \/ j - Len(inbox) \in DOMAIN reports /\ inbox'[j] = reports[j - Len(inbox)]
              \/ j = Len(inbox') /\ inbox'[j] = answer
<1> DEFINE more == reports \o <<answer>>
<1>1. inbox \in Seq(Messages) /\ <<answer>> \in Seq(Messages)
  BY DEF SessionType, TypeOK
<1>2. inbox' = inbox \o more
  BY <1>1, ConcatAssociative
<1>3. /\ more \in Seq(Messages) /\ Len(more) = Len(reports) + 1
      /\ \A j \in DOMAIN reports : j \in DOMAIN more /\ more[j] = reports[j]
      /\ \A j \in DOMAIN more : j \in DOMAIN reports \/ j = Len(more)
      /\ more[Len(more)] = answer /\ Len(more) \in DOMAIN more
      /\ Len(reports) \in Nat /\ Len(inbox) \in Nat
  BY <1>1
<1> HIDE DEF more
<1>4. /\ inbox' \in Seq(Messages) /\ Len(inbox') = Len(inbox) + Len(more)
      /\ \A j \in DOMAIN inbox : j \in DOMAIN inbox' /\ inbox'[j] = inbox[j]
      /\ \A j \in DOMAIN inbox' : j \in DOMAIN inbox
           \/ (j - Len(inbox) \in DOMAIN more /\ inbox'[j] = more[j - Len(inbox)])
      /\ \A j \in DOMAIN more : Len(inbox) + j \in DOMAIN inbox' /\ inbox'[Len(inbox) + j] = more[j]
  BY <1>2, <1>3, InboxGrows
<1>5. inbox'[Len(inbox')] = answer
  BY <1>3, <1>4
<1>6. \A j \in DOMAIN reports :
        Len(inbox) + j \in DOMAIN inbox' /\ inbox'[Len(inbox) + j] = reports[j]
  BY <1>3, <1>4
<1>7. ASSUME NEW j \in DOMAIN inbox', j \notin DOMAIN inbox
      PROVE  \/ j - Len(inbox) \in DOMAIN reports /\ inbox'[j] = reports[j - Len(inbox)]
             \/ j = Len(inbox') /\ inbox'[j] = answer
  <2>1. j - Len(inbox) \in DOMAIN more /\ inbox'[j] = more[j - Len(inbox)] /\ j \in Int
    BY <1>4, <1>7
  <2>2. CASE j - Len(inbox) \in DOMAIN reports
    BY <1>3, <2>1, <2>2
  <2>3. CASE j - Len(inbox) = Len(more)
    BY <1>3, <1>4, <2>1, <2>3
  <2>4. QED
    BY <1>3, <2>1, <2>2, <2>3
<1>8. QED
  BY <1>3, <1>4, <1>5, <1>6, <1>7

LEMMA AnswersStay ==
  ASSUME SessionType, NEW reports \in Seq(Messages), NEW answer \in Messages,
         \A j \in DOMAIN reports : MessageTyped(reports[j]), MessageTyped(answer),
         inbox' = inbox \o reports \o <<answer>>, UNCHANGED calls
  PROVE  inbox' \in Seq(Messages) /\ (\A j \in DOMAIN inbox : MessageTyped(inbox[j]))'
<1>1. Len(calls') \in Nat /\ Len(calls') >= Len(calls)
  BY DEF SessionType
<1>2. inbox' \in Seq(Messages)
  BY AnswerGrows
<1>3. ASSUME NEW j \in DOMAIN inbox'
      PROVE  (\E k \in DOMAIN inbox : inbox'[j] = inbox[k]) \/ MessageTyped(inbox'[j])
  BY <1>3, AnswerGrows
<1>4. QED
  BY <1>1, <1>2, <1>3, MessagesStay

LEMMA ApplyType ==
  ASSUME NEW account \in Accounts \cup {Nobody}, NEW chain \in Chains \cup {Unknown},
         Apply(account, chain)
  PROVE  /\ status' \in {"disconnected", "connected", "wrong_network"}
         /\ address' = account /\ chainId' = chain
         /\ status' # "disconnected" => account # Nobody
         /\ status' = "connected" => account # Nobody /\ chain = Target
BY DEF Apply, StatusOf

LEMMA InitType == Init => SessionType
<1> SUFFICES ASSUME Init PROVE SessionType
  OBVIOUS
<1>1. calls = << Call("probe") >> /\ asked = {1} \X {"accounts", "chain"} /\ inbox = <<>>
  BY DEF Init, Loaded
<1>2. Call("probe") \in CallTypes /\ Call("probe").kind = "probe"
  BY DEF Call, CallTypes, Kinds
<1> DEFINE probe == Call("probe")
<1> HIDE DEF probe
<1>3. calls \in Seq(CallTypes) /\ DOMAIN calls = {1} /\ calls[1].kind = "probe"
  BY <1>1, <1>2 DEF probe
<1>4. TypeOK
  <2>1. asked \subseteq (DOMAIN calls) \X {"accounts", "chain"}
    BY <1>1, <1>3
  <2>2. inbox \in Seq(Messages) /\ \A i \in DOMAIN calls : calls[i].kind \in Kinds
    BY <1>1, <1>3 DEF Kinds
  <2>3. 0 \in 0 .. MaxChanges
    BY SessionAssumption
  <2>4. QED
    BY <2>1, <2>2, <2>3 DEF Init, TypeOK
<1>5. QED
  BY <1>1, <1>3, <1>4 DEF SessionType

LEMMA ReloadType ==
  ASSUME SessionType, Reload
  PROVE  SessionType'
<1>1. changes' \in 0 .. MaxChanges
  BY SessionAssumption DEF Reload, SessionType, TypeOK
<1>2. CASE DisconnectPreference
  <2>1. calls' = <<>> /\ asked' = {} /\ inbox' = <<>>
    BY <1>2 DEF Reload, Loaded
  <2>2. calls' \in Seq(CallTypes) /\ DOMAIN calls' = {}
    BY <2>1
  <2>3. TypeOK'
    <3>1. /\ asked' \subseteq (DOMAIN calls') \X {"accounts", "chain"}
          /\ inbox' \in Seq(Messages) /\ \A i \in DOMAIN calls' : calls'[i].kind \in Kinds
      BY <2>1, <2>2
    <3>2. QED
      BY <1>1, <3>1 DEF Reload, TypeOK, SessionType, wallet, DisconnectPreference
  <2>4. QED
    BY <2>1, <2>2, <2>3 DEF SessionType
<1>3. CASE ~DisconnectPreference
  <2> DEFINE probe == Call("probe")
  <2>1. calls' = << probe >> /\ asked' = {1} \X {"accounts", "chain"} /\ inbox' = <<>>
    BY <1>3 DEF Reload, Loaded
  <2>2. probe \in CallTypes /\ probe.kind = "probe"
    BY DEF Call, CallTypes, Kinds
  <2> HIDE DEF probe
  <2>3. calls' \in Seq(CallTypes) /\ DOMAIN calls' = {1} /\ calls'[1].kind = "probe"
    BY <2>1, <2>2
  <2>4. TypeOK'
    <3>1. /\ asked' \subseteq (DOMAIN calls') \X {"accounts", "chain"}
          /\ inbox' \in Seq(Messages) /\ \A i \in DOMAIN calls' : calls'[i].kind \in Kinds
      BY <2>1, <2>3 DEF Kinds
    <3>2. QED
      BY <1>1, <3>1 DEF Reload, TypeOK, SessionType, wallet, DisconnectPreference
  <2>5. QED
    BY <2>1, <2>3, <2>4 DEF SessionType
<1>4. QED
  BY <1>2, <1>3

LEMMA OwnerType ==
  ASSUME SessionType,
         \/ \E account \in Accounts \cup {Nobody} : OwnerSelects(account)
         \/ \E chain \in Chains : OwnerChangesNetwork(chain)
  PROVE  SessionType'
<1>1. /\ UNCHANGED <<asked, shown, manuallyDisconnected, mark, calls, overlapped>>
      /\ selected' \in Accounts \cup {Nobody} /\ network' \in Chains
      /\ changes' \in 0 .. MaxChanges
  BY SessionAssumption DEF OwnerSelects, OwnerChangesNetwork, SessionType, TypeOK
<1>2. PICK more \in Seq(Messages) :
        inbox' = inbox \o more /\ \A j \in DOMAIN more : MessageTyped(more[j])
  BY ReportTypes DEF OwnerSelects, OwnerChangesNetwork
<1>3. inbox' \in Seq(Messages)
  BY <1>2, InboxGrows
<1>4. (\A j \in DOMAIN inbox : MessageTyped(inbox[j]))'
  <2>1. \A j \in DOMAIN inbox' : (\E k \in DOMAIN inbox : inbox'[j] = inbox[k])
                                 \/ MessageTyped(inbox'[j])
    BY <1>2, InboxGrows
  <2>2. Len(calls') \in Nat /\ Len(calls') >= Len(calls)
    BY <1>1 DEF SessionType
  <2>3. QED
    BY <1>3, <2>1, <2>2, MessagesStay
<1>5. QED
  BY <1>1, <1>3, <1>4 DEF SessionType, TypeOK, shown

LEMMA AnswerType ==
  ASSUME SessionType, NEW i \in DOMAIN calls,
         \/ AnswerAccounts(i) \/ AnswerChain(i)
         \/ \E what \in {"accounts", "chain"} : Refuse(i, what)
  PROVE  SessionType'
<1>1. /\ UNCHANGED <<shown, manuallyDisconnected, mark, calls, overlapped, changes>>
      /\ asked' \subseteq asked
  BY DEF AnswerAccounts, AnswerChain, Refuse
<1>2. i \in 1 .. Len(calls) /\ i \in Nat /\ calls[i].kind \in Kinds
  BY DEF SessionType, TypeOK
<1>3. /\ selected' \in Accounts \cup {Nobody} /\ network' \in Chains
      /\ inbox' \in Seq(Messages) /\ (\A j \in DOMAIN inbox : MessageTyped(inbox[j]))'
  <2>1. CASE AnswerAccounts(i)
    <3>1. calls[i].kind \in {"probe", "connect", "switchAccount"}
      BY <1>2, <2>1 DEF AnswerAccounts, SessionType, Kinds
    <3>2. PICK account \in Offered(calls[i].kind) :
            /\ selected' = account
            /\ inbox' = inbox \o AccountReport(account) \o <<Answered(i, "accounts", account)>>
      BY <2>1 DEF AnswerAccounts
    <3>3. account \in Accounts \cup {Nobody}
      BY <3>1, <3>2 DEF Offered, SessionType, TypeOK
    <3>4. Answered(i, "accounts", account) \in Messages
            /\ MessageTyped(Answered(i, "accounts", account))
      BY <1>2, <3>3 DEF Answered, Messages, MessageTyped
    <3>5. network' \in Chains
      BY <2>1 DEF AnswerAccounts, SessionType, TypeOK
    <3>6. QED
      BY <1>1, <3>2, <3>3, <3>4, <3>5, ReportTypes, AnswersStay
  <2>2. CASE AnswerChain(i)
    <3>1. /\ network' \in Chains /\ selected' = selected
          /\ inbox' = inbox \o ChainReport(network') \o <<Answered(i, "chain", network')>>
      BY <2>2, SessionAssumption DEF AnswerChain, SessionType, TypeOK
    <3>2. Answered(i, "chain", network') \in Messages
            /\ MessageTyped(Answered(i, "chain", network'))
      BY <1>2, <3>1 DEF Answered, Messages, MessageTyped
    <3>3. PICK reports : reports = ChainReport(network')
      OBVIOUS
    <3>4. PICK answer : answer = Answered(i, "chain", network')
      OBVIOUS
    <3>5. reports \in Seq(Messages) /\ \A j \in DOMAIN reports : MessageTyped(reports[j])
      BY <3>1, <3>3, ReportTypes
    <3>6. QED
      BY <1>1, <3>1, <3>2, <3>3, <3>4, <3>5, AnswersStay DEF SessionType, TypeOK
  <2>3. CASE \E what \in {"accounts", "chain"} : Refuse(i, what)
    <3>1. PICK what \in {"accounts", "chain"} :
            /\ inbox' = Append(inbox, Answered(i, what, Failed))
            /\ UNCHANGED wallet
      BY <2>3 DEF Refuse
    <3>2. PICK answer : answer = Answered(i, what, Failed)
      OBVIOUS
    <3>3. answer \in Messages /\ MessageTyped(answer)
      BY <1>2, <3>2 DEF Answered, Messages, MessageTyped
    <3>4. inbox' = inbox \o <<>> \o <<answer>>
      BY <3>1, <3>2, <3>3 DEF SessionType, TypeOK
    <3>5. <<>> \in Seq(Messages) /\ DOMAIN <<>> = {}
      OBVIOUS
    <3>6. QED
      BY <1>1, <3>1, <3>3, <3>4, <3>5, AnswersStay DEF SessionType, TypeOK, wallet
  <2>4. QED
    BY <2>1, <2>2, <2>3
<1>4. QED
  BY <1>1, <1>3 DEF SessionType, TypeOK, shown

LEMMA PostType ==
  ASSUME SessionType, NEW kind \in Kinds, Post(kind), UNCHANGED inbox
  PROVE  /\ calls' \in Seq(CallTypes) /\ Len(calls') = Len(calls) + 1
         /\ DOMAIN calls' = DOMAIN calls \cup {Len(calls) + 1}
         /\ \A i \in DOMAIN calls : calls'[i] = calls[i]
         /\ calls'[Len(calls) + 1] = Call(kind)
         /\ asked' \subseteq (DOMAIN calls') \X {"accounts", "chain"}
         /\ \A i \in DOMAIN calls' : calls'[i].kind \in Kinds
         /\ \A i \in DOMAIN calls' : <<i, "accounts">> \in asked' => calls'[i].kind # "switchNetwork"
         /\ (\A j \in DOMAIN inbox : MessageTyped(inbox[j]))'
<1> DEFINE new == Len(calls) + 1
<1>1. calls' = Append(calls, Call(kind)) /\ asked' = asked \cup ({new} \X FirstRequests(kind))
  BY DEF Post
<1>2. /\ calls' \in Seq(CallTypes) /\ Len(calls') = Len(calls) + 1
      /\ DOMAIN calls' = DOMAIN calls \cup {new}
      /\ \A i \in DOMAIN calls : calls'[i] = calls[i]
      /\ calls'[new] = Call(kind)
  <2>1. calls \in Seq(CallTypes)
    BY DEF SessionType
  <2>2. QED
    BY <1>1, <2>1, CallsPost
<1>3. /\ asked \subseteq (DOMAIN calls) \X {"accounts", "chain"}
      /\ \A i \in DOMAIN calls : calls[i].kind \in Kinds
      /\ \A i \in DOMAIN calls : <<i, "accounts">> \in asked => calls[i].kind # "switchNetwork"
      /\ new \notin DOMAIN calls /\ Len(calls) \in Nat
  BY DEF SessionType, TypeOK
<1>4. Call(kind).kind = kind
  BY CallType DEF SessionType
<1>5. asked' \subseteq (DOMAIN calls') \X {"accounts", "chain"}
  BY <1>1, <1>2, <1>3, FirstRequestsType
<1>6. \A i \in DOMAIN calls' : calls'[i].kind \in Kinds
  BY <1>2, <1>3, <1>4
<1>7. ASSUME NEW i \in DOMAIN calls', <<i, "accounts">> \in asked'
      PROVE  calls'[i].kind # "switchNetwork"
  <2>1. CASE i \in DOMAIN calls
    <3>1. <<i, "accounts">> \in asked
      BY <1>1, <1>3, <1>7, <2>1
    <3>2. QED
      BY <1>2, <1>3, <2>1, <3>1
  <2>2. CASE i = new
    <3>1. <<i, "accounts">> \notin asked
      BY <1>3, <2>2
    <3>2. "accounts" \in FirstRequests(kind)
      BY <1>1, <1>7, <3>1
    <3>3. QED
      BY <1>2, <1>4, <2>2, <3>2, FirstRequestsType
  <2>3. QED
    BY <1>2, <2>1, <2>2
<1>8. (\A j \in DOMAIN inbox : MessageTyped(inbox[j]))'
  <2>1. inbox' \in Seq(Messages) /\ Len(calls') \in Nat /\ Len(calls') >= Len(calls)
    BY <1>2, <1>3 DEF SessionType, TypeOK
  <2>2. QED
    BY <2>1, MessagesStay
<1>9. QED
  BY <1>2, <1>5, <1>6, <1>7, <1>8

LEMMA StartType ==
  ASSUME SessionType, StartConnect \/ StartSwitchAccount \/ StartSwitchNetwork
  PROVE  SessionType'
<1>1. PICK kind \in Kinds : Post(kind)
  BY DEF StartConnect, StartSwitchAccount, StartSwitchNetwork, Kinds
<1>2. /\ UNCHANGED <<wallet, inbox, address, chainId, manuallyDisconnected, mark, overlapped, changes>>
      /\ status' \in {status, "connecting"}
  BY DEF StartConnect, StartSwitchAccount, StartSwitchNetwork, shown
<1>3. QED
  BY <1>1, <1>2, PostType DEF SessionType, TypeOK, wallet

LEMMA DisconnectType ==
  ASSUME SessionType, Disconnect
  PROVE  /\ SessionType'
         /\ DOMAIN calls' = DOMAIN calls
         /\ \A i \in DOMAIN calls :
              IF calls[i].kind = "probe" THEN ~calls'[i].open ELSE calls'[i] = calls[i]
<1>1. calls \in Seq(CallTypes) /\ DOMAIN calls = 1 .. Len(calls) /\ Len(calls) \in Nat
      /\ \A i \in DOMAIN calls : calls[i] \in CallTypes
  BY DEF SessionType
<1>2. calls' = [i \in DOMAIN calls |-> IF calls[i].kind = "probe" THEN Over(calls[i]) ELSE calls[i]]
  BY DEF Disconnect, ClosedProbes
<1>3. \A i \in DOMAIN calls :
        /\ calls'[i] \in CallTypes /\ calls'[i].kind = calls[i].kind
        /\ IF calls[i].kind = "probe" THEN ~calls'[i].open ELSE calls'[i] = calls[i]
  BY <1>1, <1>2, OverType
<1>4. calls' \in Seq(CallTypes) /\ DOMAIN calls' = DOMAIN calls /\ Len(calls') = Len(calls)
  BY <1>1, <1>2, <1>3
<1>5. UNCHANGED <<wallet, asked, inbox, changes>> /\ mark' \in {mark, TRUE}
  BY DEF Disconnect
<1>6. (\A j \in DOMAIN inbox : MessageTyped(inbox[j]))'
  <2>1. inbox' \in Seq(Messages) /\ Len(calls') \in Nat /\ Len(calls') >= Len(calls)
    BY <1>1, <1>4, <1>5 DEF SessionType, TypeOK
  <2>2. QED
    BY <1>5, <2>1, MessagesStay
<1>7. TypeOK'
  <2>1. /\ asked' \subseteq (DOMAIN calls') \X {"accounts", "chain"}
        /\ \A i \in DOMAIN calls' : calls'[i].kind \in Kinds
    BY <1>3, <1>4, <1>5 DEF SessionType, TypeOK
  <2>2. overlapped' \in BOOLEAN /\ mark' \in BOOLEAN
    BY <1>5 DEF Disconnect, SessionType, TypeOK
  <2>3. QED
    BY <1>5, <2>1, <2>2 DEF Disconnect, SessionType, TypeOK, wallet
<1>8. \A i \in DOMAIN calls' : <<i, "accounts">> \in asked' => calls'[i].kind # "switchNetwork"
  BY <1>3, <1>4, <1>5 DEF SessionType
<1>9. QED
  BY <1>3, <1>4, <1>6, <1>7, <1>8 DEF SessionType

\* The message at the head of the inbox.
LEMMA HeadType ==
  ASSUME SessionType, inbox # <<>>, NEW message, message = Head(inbox)
  PROVE  /\ 1 \in DOMAIN inbox /\ message = inbox[1]
         /\ message \in Messages /\ MessageTyped(message)
         /\ message.call # 0 => message.call \in DOMAIN calls
<1>1. inbox \in Seq(Messages) /\ \A j \in DOMAIN inbox : MessageTyped(inbox[j])
  BY DEF SessionType, TypeOK
<1>2. 1 \in DOMAIN inbox /\ message = inbox[1]
  BY <1>1
<1>3. message \in Messages /\ MessageTyped(message)
  BY <1>1, <1>2
<1>4. message.call \in 0 .. Len(calls) /\ DOMAIN calls = 1 .. Len(calls) /\ Len(calls) \in Nat
  BY <1>3 DEF MessageTyped, SessionType
<1>5. QED
  BY <1>2, <1>3, <1>4

LEMMA CompletesType ==
  ASSUME SessionType, inbox # <<>>, NEW message, NEW kind, Completes(message, kind)
  PROVE  /\ message = Head(inbox) /\ inbox' = Tail(inbox)
         /\ message.call # 0 /\ message.call \in DOMAIN calls
         /\ calls[message.call].open /\ calls[message.call].kind = kind
         /\ kind # "switchNetwork" =>
              /\ GotAccount(message) \in Accounts \cup {Nobody}
              /\ GotChain(message) \in Chains
<1>1. /\ message = Head(inbox) /\ inbox' = Tail(inbox) /\ message.call # 0
      /\ calls[message.call].open /\ calls[message.call].kind = kind
      /\ message.value # Failed
  BY DEF Completes, Take
<1>2. message \in Messages /\ MessageTyped(message) /\ message.call \in DOMAIN calls
  BY <1>1, HeadType
<1>3. calls[message.call] \in CallTypes
  BY <1>2 DEF SessionType
<1>4. message.what \in {"accounts", "chain"}
  BY <1>2 DEF Messages
<1>5. kind # "switchNetwork" => IF message.what = "accounts"
                                THEN calls[message.call].chain # Awaited
                                ELSE calls[message.call].accounts # Awaited
  BY DEF Completes
<1>6. CASE message.what = "accounts"
  <2>1. message.value \in Accounts \cup {Nobody}
    BY <1>1, <1>2, <1>6 DEF MessageTyped
  <2>2. kind # "switchNetwork" => calls[message.call].chain \in Chains
    BY <1>3, <1>5, <1>6 DEF CallTypes
  <2>3. QED
    BY <1>1, <1>2, <1>6, <2>1, <2>2 DEF GotAccount, GotChain
<1>7. CASE message.what = "chain"
  <2>1. message.value \in Chains
    BY <1>1, <1>2, <1>7 DEF MessageTyped
  <2>2. kind # "switchNetwork" => calls[message.call].accounts \in Accounts \cup {Nobody}
    BY <1>3, <1>5, <1>7 DEF CallTypes
  <2>3. QED
    BY <1>1, <1>2, <1>7, <2>1, <2>2 DEF GotAccount, GotChain
<1>8. QED
  BY <1>1, <1>2, <1>4, <1>6, <1>7

\* A message was taken and its call, if it had one, went on, ended or was over.
LEMMA TakenType ==
  ASSUME SessionType, inbox # <<>>, inbox' = Tail(inbox),
         calls' \in Seq(CallTypes), Len(calls') = Len(calls),
         \A i \in DOMAIN calls : calls'[i].kind = calls[i].kind,
         UNCHANGED <<wallet, changes>>,
         status' \in {"disconnected", "connecting", "connected", "wrong_network"},
         address' \in Accounts \cup {Nobody}, chainId' \in Chains \cup {Unknown},
         manuallyDisconnected' \in BOOLEAN, mark' \in BOOLEAN, overlapped' \in BOOLEAN,
         asked' \subseteq (DOMAIN calls) \X {"accounts", "chain"},
         \A i \in DOMAIN calls : <<i, "accounts">> \in asked' => <<i, "accounts">> \in asked
  PROVE  SessionType'
<1>1. /\ DOMAIN calls' = DOMAIN calls /\ Len(calls') \in Nat /\ Len(calls') >= Len(calls)
  BY DEF SessionType
<1>2. /\ inbox' \in Seq(Messages)
      /\ \A j \in DOMAIN inbox' : j + 1 \in DOMAIN inbox /\ inbox'[j] = inbox[j + 1]
  BY InboxPops
<1>3. (\A j \in DOMAIN inbox : MessageTyped(inbox[j]))'
  BY <1>1, <1>2, MessagesStay
<1>4. TypeOK'
  BY <1>1, <1>2 DEF SessionType, TypeOK, wallet
<1>5. QED
  BY <1>1, <1>3, <1>4 DEF SessionType

LEMMA CloseTaken ==
  ASSUME SessionType, NEW i \in DOMAIN calls, Close(i)
  PROVE  /\ calls' \in Seq(CallTypes) /\ Len(calls') = Len(calls) /\ DOMAIN calls' = DOMAIN calls
         /\ \A j \in DOMAIN calls : calls'[j].kind = calls[j].kind
         /\ \A j \in DOMAIN calls : j # i => calls'[j] = calls[j]
         /\ calls'[i].open = FALSE
<1>1. calls \in Seq(CallTypes) /\ DOMAIN calls = 1 .. Len(calls)
  BY DEF SessionType
<1>2. QED
  BY <1>1, CallsClose DEF Close

LEMMA TakeAnswerType ==
  ASSUME SessionType, inbox # <<>>, NEW message, TakeAnswer(message)
  PROVE  /\ SessionType'
         /\ DOMAIN calls' = DOMAIN calls
         /\ \A j \in DOMAIN calls :
              /\ calls'[j].open = calls[j].open /\ calls'[j].kind = calls[j].kind
              /\ calls'[j].address = calls[j].address
              /\ \/ calls'[j].accounts = calls[j].accounts
                 \/ /\ j = message.call /\ message.what = "accounts"
                    /\ calls'[j].accounts = message.value /\ message.value # Failed
<1> DEFINE i == message.call
           got == [calls EXCEPT ![i] = [@ EXCEPT ![message.what] = message.value]]
<1>1. message = Head(inbox) /\ inbox' = Tail(inbox) /\ i # 0
  BY DEF TakeAnswer, Take
<1>2. /\ message \in Messages /\ MessageTyped(message) /\ i \in DOMAIN calls
      /\ message.what \in {"accounts", "chain"}
  BY <1>1, HeadType DEF Messages
<1>3. UNCHANGED <<wallet, shown, manuallyDisconnected, mark, overlapped, changes>>
  BY DEF TakeAnswer
<1>4. /\ calls \in Seq(CallTypes) /\ DOMAIN calls = 1 .. Len(calls) /\ Len(calls) \in Nat
      /\ calls[i] \in CallTypes
  BY <1>2 DEF SessionType
<1>5. CASE UNCHANGED <<asked, calls>>
  BY <1>1, <1>3, <1>4, <1>5, TakenType DEF SessionType, TypeOK, shown
<1>6. CASE /\ message.value # Failed /\ calls' = got
           /\ asked' = IF calls[i].kind = "switchAccount" THEN asked \cup {<<i, "chain">>} ELSE asked
  <2> DEFINE call == [calls[i] EXCEPT ![message.what] = message.value]
  <2>1. /\ call \in CallTypes /\ call.open = calls[i].open /\ call.kind = calls[i].kind
        /\ call.address = calls[i].address
        /\ \/ call.accounts = calls[i].accounts
           \/ message.what = "accounts" /\ call.accounts = message.value
    <3>1. CASE message.what = "accounts"
      <4>1. message.value \in Accounts \cup {Nobody, Awaited}
        BY <1>2, <1>6, <3>1 DEF MessageTyped
      <4>2. QED
        BY <1>4, <3>1, <4>1 DEF CallTypes
    <3>2. CASE message.what = "chain"
      <4>1. message.value \in Chains \cup {Awaited}
        BY <1>2, <1>6, <3>2 DEF MessageTyped
      <4>2. QED
        BY <1>4, <3>2, <4>1 DEF CallTypes
    <3>3. QED
      BY <1>2, <3>1, <3>2
  <2>2. calls' = [calls EXCEPT ![i] = call]
    BY <1>6
  <2> HIDE DEF call
  <2>3. /\ calls' \in Seq(CallTypes) /\ Len(calls') = Len(calls) /\ DOMAIN calls' = DOMAIN calls
        /\ calls'[i] = call /\ \A j \in DOMAIN calls : j # i => calls'[j] = calls[j]
    BY <1>2, <1>4, <2>1, <2>2
  <2>4. \A j \in DOMAIN calls :
          /\ calls'[j].open = calls[j].open /\ calls'[j].kind = calls[j].kind
          /\ calls'[j].address = calls[j].address
          /\ \/ calls'[j].accounts = calls[j].accounts
             \/ /\ j = message.call /\ message.what = "accounts"
                /\ calls'[j].accounts = message.value /\ message.value # Failed
    BY <1>6, <2>1, <2>3
  <2>5. /\ asked' \subseteq (DOMAIN calls) \X {"accounts", "chain"}
        /\ \A j \in DOMAIN calls : <<j, "accounts">> \in asked' => <<j, "accounts">> \in asked
    <3>1. asked \subseteq (DOMAIN calls) \X {"accounts", "chain"} /\ asked' \subseteq asked \cup {<<i, "chain">>}
      BY <1>6 DEF SessionType, TypeOK
    <3>2. QED
      BY <1>2, <3>1
  <2>6. SessionType'
    BY <1>1, <1>3, <2>3, <2>4, <2>5, TakenType DEF SessionType, TypeOK, shown
  <2>7. QED
    BY <2>3, <2>4, <2>6
<1>7. QED
  BY <1>5, <1>6 DEF TakeAnswer

LEMMA TakeReportType ==
  ASSUME SessionType, inbox # <<>>, NEW message, TakeReport(message)
  PROVE  /\ SessionType'
         /\ message.call = 0 /\ message = Head(inbox) /\ inbox' = Tail(inbox)
         /\ message.what = "accounts" => message.value \in Accounts \cup {Nobody}
<1>1. message = Head(inbox) /\ inbox' = Tail(inbox) /\ message.call = 0
  BY DEF TakeReport, Take
<1>2. message \in Messages /\ MessageTyped(message) /\ message.what \in {"accounts", "chain"}
  BY <1>1, HeadType DEF Messages
<1>3. /\ message.what = "accounts" => message.value \in Accounts \cup {Nobody}
      /\ message.what = "chain" => message.value \in Chains
  BY <1>1, <1>2 DEF MessageTyped
<1>4. /\ status' \in {"disconnected", "connecting", "connected", "wrong_network"}
      /\ address' \in Accounts \cup {Nobody} /\ chainId' \in Chains \cup {Unknown}
  <2>1. address \in Accounts \cup {Nobody} /\ chainId \in Chains \cup {Unknown}
        /\ status \in {"disconnected", "connecting", "connected", "wrong_network"}
    BY DEF SessionType, TypeOK
  <2>2. CASE manuallyDisconnected
    BY <2>1, <2>2 DEF TakeReport, shown
  <2>3. CASE ~manuallyDisconnected /\ message.what = "accounts"
    BY <1>3, <2>1, <2>3, ApplyType DEF TakeReport
  <2>4. CASE ~manuallyDisconnected /\ message.what = "chain"
    BY <1>3, <2>1, <2>4, ApplyType DEF TakeReport
  <2>5. QED
    BY <1>2, <2>2, <2>3, <2>4
<1>5. /\ UNCHANGED <<wallet, asked, manuallyDisconnected, mark, calls, changes>>
      /\ overlapped' \in BOOLEAN
  BY DEF TakeReport, SessionType, TypeOK
<1>6. SessionType'
  BY <1>1, <1>4, <1>5, TakenType DEF SessionType, TypeOK
<1>7. QED
  BY <1>1, <1>3, <1>6

LEMMA DoneType ==
  ASSUME SessionType, inbox # <<>>, NEW message,
         ProbeDone(message) \/ SwitchAccountDone(message) \/ SwitchNetworkDone(message)
  PROVE  SessionType'
<1>1. message.call \in DOMAIN calls /\ inbox' = Tail(inbox) /\ Close(message.call)
  BY CompletesType DEF ProbeDone, SwitchAccountDone, SwitchNetworkDone
<1>2. UNCHANGED <<wallet, asked, manuallyDisconnected, mark, overlapped, changes>>
  BY DEF ProbeDone, SwitchAccountDone, SwitchNetworkDone
<1>3. /\ status' \in {"disconnected", "connected", "wrong_network"}
      /\ address' \in Accounts \cup {Nobody} /\ chainId' \in Chains \cup {Unknown}
  <2>1. CASE ProbeDone(message) \/ SwitchAccountDone(message)
    <3>1. GotAccount(message) \in Accounts \cup {Nobody} /\ GotChain(message) \in Chains
      BY <2>1, CompletesType DEF ProbeDone, SwitchAccountDone
    <3>2. Apply(GotAccount(message), GotChain(message))
      BY <2>1 DEF ProbeDone, SwitchAccountDone
    <3>3. QED
      BY <3>1, <3>2 DEF Apply, StatusOf
  <2>2. CASE SwitchNetworkDone(message)
    BY <2>2, SessionAssumption DEF SwitchNetworkDone, SessionType, TypeOK
  <2>3. QED
    BY <2>1, <2>2
<1>4. QED
  BY <1>1, <1>2, <1>3, CloseTaken, TakenType DEF SessionType, TypeOK

LEMMA CallFailsType ==
  ASSUME SessionType, inbox # <<>>, NEW message, CallFails(message)
  PROVE  /\ SessionType'
         /\ message.call \in DOMAIN calls /\ calls[message.call].open
         /\ Close(message.call) /\ inbox' = Tail(inbox)
<1>1. /\ inbox' = Tail(inbox) /\ message = Head(inbox) /\ message.call # 0 /\ Close(message.call)
      /\ calls[message.call].open
  BY DEF CallFails, Take
<1>2. message.call \in DOMAIN calls
  BY <1>1, HeadType
<1>3. calls[message.call] \in CallTypes
  BY <1>2 DEF SessionType
<1>4. /\ address \in Accounts \cup {Nobody} /\ chainId \in Chains \cup {Unknown}
      /\ status \in {"disconnected", "connecting", "connected", "wrong_network"}
  BY DEF SessionType, TypeOK
<1>5. /\ status' \in {"disconnected", "connecting", "connected", "wrong_network"}
      /\ address' \in Accounts \cup {Nobody} /\ chainId' \in Chains \cup {Unknown}
  BY <1>3, <1>4 DEF CallFails, Apply, StatusOf, shown, CallTypes, Kinds
<1>6. UNCHANGED <<wallet, asked, manuallyDisconnected, mark, overlapped, changes>>
  BY DEF CallFails
<1>7. SessionType'
  BY <1>1, <1>2, <1>5, <1>6, CloseTaken, TakenType DEF SessionType, TypeOK
<1>8. QED
  BY <1>1, <1>2, <1>7

\* A connection ends; when it lifts a disconnect, a probe begins.
LEMMA ConnectDoneType ==
  ASSUME SessionType, inbox # <<>>, NEW message, ConnectDone(message)
  PROVE  /\ SessionType'
         /\ message.call \in DOMAIN calls /\ calls[message.call].open
         /\ calls[message.call].kind = "connect"
         /\ message.call \in DOMAIN calls' /\ calls'[message.call].open = FALSE
         /\ \A j \in DOMAIN calls : j # message.call => j \in DOMAIN calls' /\ calls'[j] = calls[j]
         /\ \A j \in DOMAIN calls' : j \in DOMAIN calls
              \/ (j = Len(calls) + 1 /\ calls'[j] = Call("probe"))
<1> DEFINE i == message.call
           closed == [calls EXCEPT ![i] = Over(@)]
           new == Len(calls) + 1
<1>1. /\ message = Head(inbox) /\ inbox' = Tail(inbox) /\ i # 0 /\ i \in DOMAIN calls
      /\ calls[i].open /\ calls[i].kind = "connect"
      /\ GotAccount(message) \in Accounts \cup {Nobody} /\ GotChain(message) \in Chains
  BY CompletesType DEF ConnectDone
<1>2. /\ calls \in Seq(CallTypes) /\ DOMAIN calls = 1 .. Len(calls) /\ Len(calls) \in Nat
      /\ asked \subseteq (DOMAIN calls) \X {"accounts", "chain"}
      /\ \A j \in DOMAIN calls : calls[j].kind \in Kinds
      /\ \A j \in DOMAIN calls : <<j, "accounts">> \in asked => calls[j].kind # "switchNetwork"
  BY DEF SessionType, TypeOK
<1>3. /\ closed \in Seq(CallTypes) /\ Len(closed) = Len(calls) /\ DOMAIN closed = DOMAIN calls
      /\ \A j \in DOMAIN calls : j # i => closed[j] = calls[j]
      /\ \A j \in DOMAIN calls : closed[j].kind = calls[j].kind
      /\ closed[i].open = FALSE
  BY <1>1, <1>2, CallsClose
<1> HIDE DEF closed
<1>4. \/ calls' = closed /\ asked' = asked
      \/ /\ calls' = Append(closed, Call("probe"))
         /\ asked' = asked \cup ({new} \X {"accounts", "chain"})
  BY DEF ConnectDone, FirstRequests, closed
<1>5. /\ calls' \in Seq(CallTypes) /\ Len(calls') >= Len(calls) /\ Len(calls') \in Nat
      /\ \A j \in DOMAIN calls : j \in DOMAIN calls' /\ calls'[j] = closed[j]
      /\ \A j \in DOMAIN calls' : j \in DOMAIN calls \/ (j = new /\ calls'[j] = Call("probe"))
      /\ calls' = closed \/ new \in DOMAIN calls'
  <2>1. CASE calls' = closed
    BY <1>2, <1>3, <2>1
  <2>2. CASE calls' = Append(closed, Call("probe"))
    <3>1. "probe" \in Kinds
      BY DEF Kinds
    <3>2. /\ calls' \in Seq(CallTypes) /\ Len(calls') = Len(closed) + 1
          /\ \A j \in DOMAIN closed : j \in DOMAIN calls' /\ calls'[j] = closed[j]
          /\ calls'[Len(closed) + 1] = Call("probe")
          /\ DOMAIN calls' = DOMAIN closed \cup {Len(closed) + 1}
      BY <1>3, <2>2, <3>1, CallsPost
    <3>3. QED
      BY <1>2, <1>3, <3>2
  <2>3. QED
    BY <1>4, <2>1, <2>2
<1>6. Call("probe").kind = "probe"
  BY DEF Call
<1>7. /\ \A j \in DOMAIN calls' : calls'[j].kind \in Kinds
      /\ \A j \in DOMAIN calls' : <<j, "accounts">> \in asked' => calls'[j].kind # "switchNetwork"
  <2>1. ASSUME NEW j \in DOMAIN calls'
        PROVE  /\ calls'[j].kind \in Kinds
               /\ <<j, "accounts">> \in asked' => calls'[j].kind # "switchNetwork"
    <3>1. CASE j \in DOMAIN calls
      <4>1. calls'[j].kind = calls[j].kind
        BY <1>3, <1>5, <3>1
      <4>2. <<j, "accounts">> \in asked' => <<j, "accounts">> \in asked
        BY <1>2, <1>4, <3>1
      <4>3. QED
        BY <1>2, <3>1, <4>1, <4>2
    <3>2. CASE calls'[j] = Call("probe")
      BY <1>6, <3>2 DEF Kinds
    <3>3. QED
      BY <1>5, <2>1, <3>1, <3>2
  <2>2. QED
    BY <2>1
<1>8. asked' \subseteq (DOMAIN calls') \X {"accounts", "chain"}
  <2>1. CASE asked' = asked
    BY <1>2, <1>5, <2>1
  <2>2. CASE /\ calls' = Append(closed, Call("probe"))
             /\ asked' = asked \cup ({new} \X {"accounts", "chain"})
    <3>1. Len(calls') = Len(calls) + 1
      BY <1>3, <2>2
    <3>2. new \in DOMAIN calls'
      BY <1>2, <1>5, <3>1
    <3>3. QED
      BY <1>2, <1>5, <2>2, <3>2
  <2>3. QED
    BY <1>4, <2>1, <2>2
<1>9. /\ status' \in {"disconnected", "connected", "wrong_network"}
      /\ address' \in Accounts \cup {Nobody} /\ chainId' \in Chains \cup {Unknown}
  BY <1>1 DEF ConnectDone, Apply, StatusOf
<1>10. /\ UNCHANGED <<wallet, overlapped, changes>>
       /\ manuallyDisconnected' = FALSE /\ mark' \in BOOLEAN
  BY DEF ConnectDone, SessionType, TypeOK
<1>11. inbox' \in Seq(Messages) /\ (\A j \in DOMAIN inbox : MessageTyped(inbox[j]))'
  <2>1. /\ inbox' \in Seq(Messages)
        /\ \A j \in DOMAIN inbox' : j + 1 \in DOMAIN inbox /\ inbox'[j] = inbox[j + 1]
    BY <1>1, InboxPops
  <2>2. QED
    BY <1>5, <2>1, MessagesStay
<1>12. SessionType'
  BY <1>5, <1>7, <1>8, <1>9, <1>10, <1>11 DEF SessionType, TypeOK, wallet
<1>13. QED
  BY <1>1, <1>3, <1>5, <1>12

LEMMA DeliverType ==
  ASSUME SessionType, Deliver
  PROVE  SessionType'
<1>1. inbox # <<>>
  BY DEF Deliver
<1>2. PICK message :
        \/ TakeReport(message) \/ TakeAnswer(message) \/ ProbeDone(message)
        \/ ConnectDone(message) \/ SwitchAccountDone(message) \/ SwitchNetworkDone(message)
        \/ CallFails(message)
  BY DEF Deliver
<1>3. QED
  BY <1>1, <1>2, TakeReportType, TakeAnswerType, DoneType, ConnectDoneType, CallFailsType

LEMMA TypeStep == SessionType /\ [Next]_vars => SessionType'
<1> SUFFICES ASSUME SessionType, [Next]_vars PROVE SessionType'
  OBVIOUS
<1>1. CASE UNCHANGED vars
  BY <1>1 DEF vars, wallet, shown, SessionType, TypeOK, MessageTyped
<1>2. QED
  BY <1>1, ReloadType, OwnerType, AnswerType, StartType, DisconnectType, DeliverType DEF Next

\* Every variable of the page keeps its type, and an answer is always to a call
\* that the loaded page made, through any crossing of messages and page loads.
THEOREM SessionTypeCorrect == Spec => []TypeOK
<1>1. SessionType => TypeOK
  BY DEF SessionType
<1>2. QED
  BY <1>1, InitType, TypeStep, PTL DEF Spec

-----------------------------------------------------------------------------
(* What the page shows is usable *)

\* A status other than "disconnected" and "connecting" comes with an account.
StatusShown == status \in {"connected", "wrong_network"} => address # Nobody

\* How a step changes what the page shows.
LEMMA ShownSteps ==
  ASSUME SessionType, [Next]_vars
  PROVE  \/ UNCHANGED shown
         \/ status' = "disconnected"
         \/ status' = "connecting" /\ (StartConnect \/ StartSwitchAccount)
         \/ \E account, chain : Apply(account, chain)
         \/ /\ chainId' = Target /\ address' = address
            /\ status' = IF address = Nobody THEN "disconnected" ELSE "connected"
<1>1. CASE UNCHANGED vars
  BY <1>1 DEF vars, shown
<1>2. CASE Reload \/ StartConnect \/ StartSwitchAccount \/ StartSwitchNetwork \/ Disconnect
  BY <1>2 DEF Reload, StartConnect, StartSwitchAccount, StartSwitchNetwork, Disconnect
<1>3. CASE \/ \E account \in Accounts \cup {Nobody} : OwnerSelects(account)
           \/ \E chain \in Chains : OwnerChangesNetwork(chain)
  BY <1>3 DEF OwnerSelects, OwnerChangesNetwork
<1>4. CASE \/ \E i \in DOMAIN calls : AnswerAccounts(i) \/ AnswerChain(i)
           \/ \E i \in DOMAIN calls, what \in {"accounts", "chain"} : Refuse(i, what)
  BY <1>4 DEF AnswerAccounts, AnswerChain, Refuse
<1>5. CASE Deliver
  <2>1. PICK message :
          \/ TakeReport(message) \/ TakeAnswer(message) \/ ProbeDone(message)
          \/ ConnectDone(message) \/ SwitchAccountDone(message) \/ SwitchNetworkDone(message)
          \/ CallFails(message)
    BY <1>5 DEF Deliver
  <2>2. CASE TakeReport(message)
    BY <2>2 DEF TakeReport
  <2>3. CASE TakeAnswer(message)
    BY <2>3 DEF TakeAnswer
  <2>4. CASE ProbeDone(message) \/ ConnectDone(message) \/ SwitchAccountDone(message)
    BY <2>4 DEF ProbeDone, ConnectDone, SwitchAccountDone
  <2>5. CASE SwitchNetworkDone(message)
    BY <2>5 DEF SwitchNetworkDone
  <2>6. CASE CallFails(message)
    <3>1. CASE calls[message.call].kind = "probe"
      BY <2>6, <3>1 DEF CallFails
    <3>2. CASE calls[message.call].kind = "switchAccount"
      BY <2>6, <3>2 DEF CallFails
    <3>3. CASE status' = "disconnected" \/ UNCHANGED shown
      BY <3>3
    <3>4. message.call \in DOMAIN calls
      BY <2>6, CallFailsType, <1>5 DEF Deliver
    <3>5. calls[message.call].kind \in Kinds
      BY <3>4 DEF SessionType, TypeOK
    <3>6. QED
      BY <2>6, <3>1, <3>2, <3>3, <3>5 DEF CallFails, Kinds
  <2>7. QED
    BY <2>1, <2>2, <2>3, <2>4, <2>5, <2>6
<1>6. QED
  BY <1>1, <1>2, <1>3, <1>4, <1>5 DEF Next

LEMMA UsableStep ==
  SessionType /\ ConnectedIsUsable /\ StatusShown /\ [Next]_vars => ConnectedIsUsable' /\ StatusShown'
<1> SUFFICES ASSUME SessionType, ConnectedIsUsable, StatusShown, [Next]_vars
             PROVE  ConnectedIsUsable' /\ StatusShown'
  OBVIOUS
<1>1. CASE \E account, chain : Apply(account, chain)
  BY <1>1 DEF Apply, StatusOf, ConnectedIsUsable, StatusShown
<1>2. CASE \/ UNCHANGED shown
           \/ status' \in {"disconnected", "connecting"}
           \/ /\ chainId' = Target /\ address' = address
              /\ status' = IF address = Nobody THEN "disconnected" ELSE "connected"
  BY <1>2 DEF shown, ConnectedIsUsable, StatusShown
<1>3. QED
  BY <1>1, <1>2, ShownSteps

\* Whenever the page says "connected", it holds an account and the chain of the
\* deployment: whatever the order in which answers and reports reached it.
THEOREM ConnectedAlwaysUsable == Spec => []ConnectedIsUsable
<1>1. Init => ConnectedIsUsable /\ StatusShown
  BY DEF Init, ConnectedIsUsable, StatusShown
<1>2. QED
  BY <1>1, InitType, TypeStep, UsableStep, PTL DEF Spec

-----------------------------------------------------------------------------
(* Calls begin, go on and end *)

\* An open call keeps its kind and what it goes back to, and none opens again.
\* A call that begins knows no account; only a page that follows the wallet
\* probes.
LEMMA CallSteps ==
  ASSUME SessionType, [Next]_vars, ~Reload
  PROVE  /\ \A i \in DOMAIN calls :
              /\ i \in DOMAIN calls'
              /\ calls'[i].open => /\ calls[i].open /\ calls'[i].kind = calls[i].kind
                                   /\ calls'[i].address = calls[i].address
         /\ \A i \in DOMAIN calls' \ DOMAIN calls :
              /\ calls'[i].accounts = Awaited
              /\ calls'[i].kind = "probe" => ~manuallyDisconnected'
              /\ calls'[i].kind = "switchAccount" => StartSwitchAccount /\ calls'[i].address = address
<1>1. CASE UNCHANGED calls
  BY <1>1
<1>2. ASSUME NEW kind \in Kinds \ {"probe"}, Post(kind), UNCHANGED inbox,
             kind = "switchAccount" => StartSwitchAccount
      PROVE  /\ \A i \in DOMAIN calls : i \in DOMAIN calls' /\ calls'[i] = calls[i]
             /\ \A i \in DOMAIN calls' \ DOMAIN calls :
                  /\ calls'[i].accounts = Awaited /\ calls'[i].kind # "probe"
                  /\ calls'[i].kind = "switchAccount" => StartSwitchAccount /\ calls'[i].address = address
  <2>1. /\ Call(kind).kind = kind /\ Call(kind).accounts = Awaited
        /\ kind = "switchAccount" => Call(kind).address = address
    BY <1>2, CallType DEF SessionType
  <2>2. /\ DOMAIN calls' = DOMAIN calls \cup {Len(calls) + 1}
        /\ \A i \in DOMAIN calls : calls'[i] = calls[i]
        /\ calls'[Len(calls) + 1] = Call(kind)
    BY <1>2, PostType
  <2>3. QED
    BY <1>2, <2>1, <2>2
<1>3. CASE StartConnect \/ StartSwitchAccount \/ StartSwitchNetwork
  <2>1. PICK kind \in Kinds \ {"probe"} :
          Post(kind) /\ (kind = "switchAccount" => StartSwitchAccount)
    BY <1>3 DEF StartConnect, StartSwitchAccount, StartSwitchNetwork, Kinds
  <2>2. UNCHANGED inbox
    BY <1>3 DEF StartConnect, StartSwitchAccount, StartSwitchNetwork
  <2>3. QED
    BY <1>2, <2>1, <2>2
<1>4. CASE Disconnect
  BY <1>4, DisconnectType
<1>5. CASE Deliver
  <2>1. PICK message :
          \/ TakeReport(message) \/ TakeAnswer(message) \/ ProbeDone(message)
          \/ ConnectDone(message) \/ SwitchAccountDone(message) \/ SwitchNetworkDone(message)
          \/ CallFails(message)
    BY <1>5 DEF Deliver
  <2>2. inbox # <<>>
    BY <1>5 DEF Deliver
  <2>3. CASE TakeReport(message)
    BY <1>1, <2>3 DEF TakeReport
  <2>4. CASE TakeAnswer(message)
    BY <2>2, <2>4, TakeAnswerType
  <2>5. CASE ConnectDone(message)
    <3>1. ~manuallyDisconnected'
      BY <2>5 DEF ConnectDone
    <3>2. Call("probe").accounts = Awaited /\ Call("probe").kind = "probe"
      BY DEF Call
    <3>3. QED
      BY <2>2, <2>5, <3>1, <3>2, ConnectDoneType
  <2>6. CASE \/ ProbeDone(message) \/ SwitchAccountDone(message) \/ SwitchNetworkDone(message)
             \/ CallFails(message)
    <3>1. message.call \in DOMAIN calls /\ Close(message.call)
      BY <2>2, <2>6, CompletesType, CallFailsType DEF ProbeDone, SwitchAccountDone, SwitchNetworkDone
    <3>2. QED
      BY <3>1, CloseTaken
  <2>7. QED
    BY <2>1, <2>3, <2>4, <2>5, <2>6
<1>6. CASE \/ UNCHANGED vars
           \/ \E account \in Accounts \cup {Nobody} : OwnerSelects(account)
           \/ \E chain \in Chains : OwnerChangesNetwork(chain)
           \/ \E i \in DOMAIN calls : AnswerAccounts(i) \/ AnswerChain(i)
           \/ \E i \in DOMAIN calls, what \in {"accounts", "chain"} : Refuse(i, what)
  BY <1>1, <1>6 DEF vars, OwnerSelects, OwnerChangesNetwork, AnswerAccounts, AnswerChain, Refuse
<1>7. QED
  BY <1>3, <1>4, <1>5, <1>6 DEF Next

\* A page that keeps to a disconnect has no probe open.
NoProbe == manuallyDisconnected => OpenCalls({"probe"}) = {}

LEMMA NoProbeStep == SessionType /\ NoProbe /\ [Next]_vars => NoProbe'
<1> SUFFICES ASSUME SessionType, NoProbe, [Next]_vars, manuallyDisconnected'
             PROVE  OpenCalls({"probe"})' = {}
  BY DEF NoProbe
<1>1. CASE Reload
  BY <1>1 DEF Reload, Loaded, DisconnectPreference, OpenCalls
<1>2. CASE ~Reload
  <2>1. ASSUME NEW i \in DOMAIN calls', calls'[i].open, calls'[i].kind = "probe"
        PROVE  FALSE
    <3>1. i \in DOMAIN calls /\ calls[i].open /\ calls[i].kind = "probe"
      BY <1>2, <2>1, CallSteps
    <3>2. ~manuallyDisconnected
      BY <3>1 DEF NoProbe, OpenCalls
    <3>3. CASE Disconnect
      BY <2>1, <3>1, <3>3, DisconnectType
    <3>4. CASE ~Disconnect
      BY <1>2, <3>2, <3>4 DEF Next, vars, OwnerSelects, OwnerChangesNetwork, AnswerAccounts,
         AnswerChain, Refuse, StartConnect, StartSwitchAccount, StartSwitchNetwork, Deliver,
         TakeReport, TakeAnswer, ProbeDone, ConnectDone, SwitchAccountDone, SwitchNetworkDone,
         CallFails
    <3>5. QED
      BY <3>3, <3>4
  <2>2. QED
    BY <2>1 DEF OpenCalls
<1>3. QED
  BY <1>1, <1>2

LEMMA ConnectingStep == SessionType /\ ConnectingEnds /\ [Next]_vars => ConnectingEnds'
<1> SUFFICES ASSUME SessionType, ConnectingEnds, [Next]_vars, status' = "connecting"
             PROVE  \E i \in DOMAIN calls' :
                      calls'[i].open /\ calls'[i].kind \in {"connect", "switchAccount"}
  BY DEF ConnectingEnds, OpenCalls
<1>1. CASE StartConnect \/ StartSwitchAccount
  <2>1. PICK kind \in {"connect", "switchAccount"} : Post(kind)
    BY <1>1 DEF StartConnect, StartSwitchAccount
  <2>2. UNCHANGED inbox /\ kind \in Kinds
    BY <1>1 DEF StartConnect, StartSwitchAccount, Kinds
  <2>3. Len(calls) + 1 \in DOMAIN calls' /\ calls'[Len(calls) + 1] = Call(kind)
    BY <2>1, <2>2, PostType
  <2>4. Call(kind).open = TRUE /\ Call(kind).kind = kind
    BY <2>2, CallType DEF SessionType
  <2>5. QED
    BY <2>3, <2>4
<1>2. CASE ~(StartConnect \/ StartSwitchAccount)
  <2>1. UNCHANGED shown /\ status = "connecting"
    <3>1. ASSUME NEW account, NEW chain, Apply(account, chain) PROVE FALSE
      BY <3>1 DEF Apply, StatusOf
    <3>2. QED
      BY <1>2, <3>1, ShownSteps DEF shown
  <2>2. PICK i \in DOMAIN calls : calls[i].open /\ calls[i].kind \in {"connect", "switchAccount"}
    BY <2>1 DEF ConnectingEnds, OpenCalls
  <2>3. i \in DOMAIN calls' /\ calls'[i].open /\ calls'[i].kind = calls[i].kind
    <3>1. CASE UNCHANGED calls
      BY <2>2, <3>1
    <3>2. ~Reload /\ ~Disconnect /\ ~StartSwitchNetwork
      BY <2>1 DEF Reload, Disconnect, StartSwitchNetwork
    <3>3. CASE Deliver
      <4>1. inbox # <<>>
        BY <3>3 DEF Deliver
      <4>2. PICK message :
              \/ TakeReport(message) \/ TakeAnswer(message) \/ ProbeDone(message)
              \/ ConnectDone(message) \/ SwitchAccountDone(message) \/ SwitchNetworkDone(message)
              \/ CallFails(message)
        BY <3>3 DEF Deliver
      <4>3. ~(ProbeDone(message) \/ ConnectDone(message) \/ SwitchAccountDone(message))
        BY DEF ProbeDone, ConnectDone, SwitchAccountDone, Apply, StatusOf
      <4>4. ~SwitchNetworkDone(message)
        BY DEF SwitchNetworkDone
      <4>5. CASE TakeReport(message)
        BY <2>2, <4>5 DEF TakeReport
      <4>6. CASE TakeAnswer(message)
        BY <2>2, <4>1, <4>6, TakeAnswerType
      <4>7. CASE CallFails(message)
        <5>1. message.call \in DOMAIN calls /\ Close(message.call)
          BY <4>1, <4>7, CallFailsType
        <5>2. calls[message.call].kind \in Kinds
          BY <5>1 DEF SessionType, TypeOK
        <5>3. calls[message.call].kind = "switchNetwork"
          BY <4>7, <5>2 DEF CallFails, Kinds, Apply, StatusOf
        <5>4. QED
          BY <2>2, <5>1, <5>3, CloseTaken
      <4>8. QED
        BY <4>2, <4>3, <4>4, <4>5, <4>6, <4>7
    <3>4. CASE \/ UNCHANGED vars
               \/ \E account \in Accounts \cup {Nobody} : OwnerSelects(account)
               \/ \E chain \in Chains : OwnerChangesNetwork(chain)
               \/ \E j \in DOMAIN calls : AnswerAccounts(j) \/ AnswerChain(j)
               \/ \E j \in DOMAIN calls, what \in {"accounts", "chain"} : Refuse(j, what)
      BY <3>1, <3>4 DEF vars, OwnerSelects, OwnerChangesNetwork, AnswerAccounts, AnswerChain, Refuse
    <3>5. QED
      BY <1>2, <3>2, <3>3, <3>4 DEF Next
  <2>4. QED
    BY <2>2, <2>3
<1>3. QED
  BY <1>1, <1>2

\* A page says "connecting" only while a call that will end it is open.
THEOREM ConnectingAlwaysEnds == Spec => []ConnectingEnds
<1>1. Init => ConnectingEnds
  BY DEF Init, ConnectingEnds
<1>2. QED
  BY <1>1, InitType, TypeStep, ConnectingStep, PTL DEF Spec

\* What lifts a disconnect, and what shows an account while it holds, is an
\* answer to a call the user started.
LEMMA RetainedStep ==
  ASSUME SessionType, NoProbe, [Next]_vars, manuallyDisconnected
  PROVE  /\ mark /\ ~manuallyDisconnected' => CallEnds({"connect"})
         /\ address = Nobody /\ address' # Nobody => CallEnds(Kinds \ {"probe"})
<1>1. CASE Reload
  BY <1>1 DEF Reload, DisconnectPreference
<1>2. CASE Deliver
  <2>1. PICK message :
          \/ TakeReport(message) \/ TakeAnswer(message) \/ ProbeDone(message)
          \/ ConnectDone(message) \/ SwitchAccountDone(message) \/ SwitchNetworkDone(message)
          \/ CallFails(message)
    BY <1>2 DEF Deliver
  <2>2. inbox # <<>>
    BY <1>2 DEF Deliver
  <2>3. CASE TakeReport(message) \/ TakeAnswer(message) \/ SwitchNetworkDone(message)
    BY <2>3 DEF TakeReport, TakeAnswer, SwitchNetworkDone, shown
  <2>4. CASE ProbeDone(message)
    <3>1. message.call \in DOMAIN calls /\ calls[message.call].open /\ calls[message.call].kind = "probe"
      BY <2>2, <2>4, CompletesType DEF ProbeDone
    <3>2. QED
      BY <3>1 DEF NoProbe, OpenCalls
  <2>5. CASE ConnectDone(message)
    <3>1. /\ message.call \in DOMAIN calls /\ calls[message.call].open
          /\ calls[message.call].kind = "connect"
          /\ message.call \in DOMAIN calls' /\ calls'[message.call].open = FALSE
      BY <2>2, <2>5, ConnectDoneType
    <3>2. QED
      BY <3>1 DEF CallEnds, OpenCalls, Kinds
  <2>6. CASE SwitchAccountDone(message)
    <3>1. /\ message.call \in DOMAIN calls /\ calls[message.call].open
          /\ calls[message.call].kind = "switchAccount" /\ Close(message.call)
          /\ manuallyDisconnected'
      BY <2>2, <2>6, CompletesType DEF SwitchAccountDone
    <3>2. message.call \in DOMAIN calls' /\ calls'[message.call].open = FALSE
      BY <3>1, CloseTaken
    <3>3. QED
      BY <3>1, <3>2 DEF CallEnds, OpenCalls, Kinds
  <2>7. CASE CallFails(message)
    <3>1. /\ message.call \in DOMAIN calls /\ calls[message.call].open /\ Close(message.call)
          /\ manuallyDisconnected'
      BY <2>2, <2>7, CallFailsType DEF CallFails
    <3>2. message.call \in DOMAIN calls' /\ calls'[message.call].open = FALSE
      BY <3>1, CloseTaken
    <3>3. calls[message.call].kind \in Kinds \ {"probe"}
      BY <3>1 DEF NoProbe, OpenCalls, SessionType, TypeOK
    <3>4. QED
      BY <3>1, <3>2, <3>3 DEF CallEnds, OpenCalls
  <2>8. QED
    BY <2>1, <2>3, <2>4, <2>5, <2>6, <2>7
<1>3. CASE ~Reload /\ ~Deliver
  BY <1>3 DEF Next, vars, shown, OwnerSelects, OwnerChangesNetwork, AnswerAccounts, AnswerChain,
     Refuse, StartConnect, StartSwitchAccount, StartSwitchNetwork, Disconnect
<1>4. QED
  BY <1>1, <1>2, <1>3

\* A disconnect is lifted by a connection the user asks for and by nothing else,
\* and no report and no late probe shows an account meanwhile.
THEOREM DisconnectAlwaysRetained == Spec => DisconnectRetained
<1>1. Init => NoProbe
  BY DEF Init, NoProbe
<1>2. SessionType /\ NoProbe /\ [Next]_vars =>
        [/\ manuallyDisconnected /\ mark /\ ~manuallyDisconnected' => CallEnds({"connect"})
         /\ manuallyDisconnected /\ address = Nobody /\ address' # Nobody
              => CallEnds(Kinds \ {"probe"})]_vars
  BY RetainedStep
<1>3. QED
  BY <1>1, <1>2, InitType, TypeStep, NoProbeStep, PTL DEF Spec, DisconnectRetained

-----------------------------------------------------------------------------
(* What the page shows is current *)

\* A report of another account is on its way behind position k.
NewsAfter(k) == \E j \in DOMAIN inbox : j > k /\ inbox[j].call = 0 /\ inbox[j].what = "accounts"

\* The account is the one the wallet exposes, or the page is yet to be told.
Fresh(account, k) == account = selected \/ NewsAfter(k)

InboxFresh ==
  \A k \in DOMAIN inbox :
    inbox[k].what = "accounts" /\ inbox[k].value # Failed => Fresh(inbox[k].value, k)

\* What the page shows, what a call got and what a change of account goes back
\* to are current, and a page that keeps to a disconnect shows nothing and has
\* nothing to go back to.
CallFresh(call) ==
  /\ call.accounts # Awaited => Fresh(call.accounts, 0)
  /\ call.kind = "switchAccount" => Fresh(call.address, 0)
ShownFresh ==
  ~overlapped =>
    /\ address # Nobody => Fresh(address, 0)
    /\ manuallyDisconnected => address = Nobody /\ OpenCalls({"switchAccount"}) = {}
    /\ \A i \in DOMAIN calls : calls[i].open => CallFresh(calls[i])

\* The wallet sends: a change of the exposed account is reported.
LEMMA FreshSent ==
  ASSUME SessionType, InboxFresh, NEW more \in Seq(Messages), inbox' = inbox \o more,
         selected' # selected =>
           \E j \in DOMAIN more : more[j].call = 0 /\ more[j].what = "accounts",
         \A j \in DOMAIN more :
           more[j].what = "accounts" /\ more[j].value # Failed => more[j].value = selected'
  PROVE  /\ InboxFresh'
         /\ \A account : \A k \in 0 .. Len(inbox) : Fresh(account, k) => Fresh(account, k)'
<1>1. /\ Len(inbox) \in Nat /\ DOMAIN inbox = 1 .. Len(inbox)
      /\ \A j \in DOMAIN inbox : j \in DOMAIN inbox' /\ inbox'[j] = inbox[j]
      /\ \A j \in DOMAIN inbox' : j \in DOMAIN inbox
           \/ (j - Len(inbox) \in DOMAIN more /\ inbox'[j] = more[j - Len(inbox)])
      /\ \A j \in DOMAIN more : Len(inbox) + j \in DOMAIN inbox' /\ inbox'[Len(inbox) + j] = more[j]
      /\ \A j \in DOMAIN more : j \in Nat /\ j > 0
  BY InboxGrows DEF SessionType, TypeOK
<1>2. ASSUME NEW account, NEW k \in 0 .. Len(inbox), Fresh(account, k)
      PROVE  Fresh(account, k)'
  <2>1. CASE selected' # selected
    <3>1. PICK j \in DOMAIN more : more[j].call = 0 /\ more[j].what = "accounts"
      BY <2>1
    <3>2. /\ Len(inbox) + j \in DOMAIN inbox' /\ Len(inbox) + j > k
          /\ inbox'[Len(inbox) + j] = more[j]
      BY <1>1, <1>2
    <3>3. QED
      BY <3>1, <3>2 DEF Fresh, NewsAfter
  <2>2. CASE selected' = selected
    BY <1>1, <1>2, <2>2 DEF Fresh, NewsAfter
  <2>3. QED
    BY <2>1, <2>2
<1>3. ASSUME NEW k \in DOMAIN inbox', inbox'[k].what = "accounts", inbox'[k].value # Failed
      PROVE  inbox'[k].value = selected'
               \/ \E j \in DOMAIN inbox' : j > k /\ inbox'[j].call = 0 /\ inbox'[j].what = "accounts"
  <2>1. CASE k \in DOMAIN inbox
    <3>1. PICK account : account = inbox[k].value
      OBVIOUS
    <3>2. inbox'[k] = inbox[k] /\ k \in 0 .. Len(inbox)
      BY <1>1, <2>1
    <3>3. Fresh(account, k)
      BY <1>3, <2>1, <3>1, <3>2 DEF InboxFresh
    <3>4. Fresh(account, k)'
      BY <1>2, <3>2, <3>3
    <3>5. QED
      BY <3>1, <3>2, <3>4 DEF Fresh, NewsAfter
  <2>2. CASE k - Len(inbox) \in DOMAIN more /\ inbox'[k] = more[k - Len(inbox)]
    BY <1>3, <2>2
  <2>3. QED
    BY <1>1, <2>1, <2>2
<1>4. InboxFresh'
  BY <1>3 DEF InboxFresh, Fresh, NewsAfter
<1>5. QED
  BY <1>2, <1>4

\* The page takes a message: what was current stays so, unless the message is
\* the report of a new account; what the message holds is current.
LEMMA FreshTaken ==
  ASSUME SessionType, InboxFresh, inbox # <<>>, inbox' = Tail(inbox), UNCHANGED selected
  PROVE  /\ InboxFresh'
         /\ Head(inbox).what = "accounts" /\ Head(inbox).value # Failed =>
              \A account : account = Head(inbox).value => Fresh(account, 0)'
         /\ Head(inbox).call # 0 \/ Head(inbox).what # "accounts" =>
              \A account : Fresh(account, 0) => Fresh(account, 0)'
<1>1. /\ Len(inbox) \in Nat /\ DOMAIN inbox = 1 .. Len(inbox)
      /\ 1 \in DOMAIN inbox /\ Head(inbox) = inbox[1]
      /\ \A j \in DOMAIN inbox' : j + 1 \in DOMAIN inbox /\ inbox'[j] = inbox[j + 1]
      /\ \A j \in DOMAIN inbox : j = 1 \/ (j - 1 \in DOMAIN inbox' /\ inbox'[j - 1] = inbox[j])
      /\ \A j \in DOMAIN inbox' : j \in Nat
  BY InboxPops DEF SessionType, TypeOK
<1>2. ASSUME NEW account, NEW k \in Nat, Fresh(account, k + 1)
      PROVE  Fresh(account, k)'
  <2>1. CASE account = selected
    BY <2>1 DEF Fresh
  <2>2. CASE NewsAfter(k + 1)
    <3>1. PICK j \in DOMAIN inbox : j > k + 1 /\ inbox[j].call = 0 /\ inbox[j].what = "accounts"
      BY <2>2 DEF NewsAfter
    <3>2. j - 1 \in DOMAIN inbox' /\ inbox'[j - 1] = inbox[j] /\ j - 1 > k
      BY <1>1, <3>1
    <3>3. QED
      BY <3>1, <3>2 DEF Fresh, NewsAfter
  <2>3. QED
    BY <1>2, <2>1, <2>2 DEF Fresh
<1>3. ASSUME NEW k \in DOMAIN inbox', inbox'[k].what = "accounts", inbox'[k].value # Failed
      PROVE  inbox'[k].value = selected'
               \/ \E j \in DOMAIN inbox' : j > k /\ inbox'[j].call = 0 /\ inbox'[j].what = "accounts"
  <2>1. PICK account : account = inbox[k + 1].value
    OBVIOUS
  <2>2. k + 1 \in DOMAIN inbox /\ inbox'[k] = inbox[k + 1] /\ k \in Nat
    BY <1>1
  <2>3. Fresh(account, k + 1)
    BY <1>3, <2>1, <2>2 DEF InboxFresh
  <2>4. Fresh(account, k)'
    BY <1>2, <2>2, <2>3
  <2>5. QED
    BY <2>1, <2>2, <2>4 DEF Fresh, NewsAfter
<1>4. ASSUME Head(inbox).what = "accounts", Head(inbox).value # Failed,
             NEW account, account = Head(inbox).value
      PROVE  Fresh(account, 0)'
  <2>1. Fresh(account, 1)
    BY <1>1, <1>4 DEF InboxFresh
  <2>2. Fresh(account, 0 + 1)
    BY <2>1
  <2>3. QED
    BY <1>2, <2>2
<1>5. ASSUME Head(inbox).call # 0 \/ Head(inbox).what # "accounts", NEW account, Fresh(account, 0)
      PROVE  Fresh(account, 0)'
  <2>1. Fresh(account, 0 + 1)
    BY <1>1, <1>5 DEF Fresh, NewsAfter
  <2>2. QED
    BY <1>2, <2>1
<1>6. InboxFresh'
  BY <1>3 DEF InboxFresh, Fresh, NewsAfter
<1>7. QED
  BY <1>4, <1>5, <1>6

\* Calls go on with what they have, end, or begin with nothing.
LEMMA CallsKept ==
  ASSUME ShownFresh, ~overlapped, \A account : Fresh(account, 0) => Fresh(account, 0)',
         \A i \in DOMAIN calls' : calls'[i].open =>
           \/ /\ i \in DOMAIN calls /\ calls[i].open /\ calls'[i].kind = calls[i].kind
              /\ calls'[i].address = calls[i].address /\ calls'[i].accounts = calls[i].accounts
           \/ calls'[i].accounts = Awaited /\ calls'[i].kind # "switchAccount"
  PROVE  /\ (\A i \in DOMAIN calls : calls[i].open => CallFresh(calls[i]))'
         /\ OpenCalls({"switchAccount"}) = {} => OpenCalls({"switchAccount"})' = {}
<1>1. ASSUME NEW i \in DOMAIN calls', calls'[i].open
      PROVE  CallFresh(calls[i])'
  <2>1. PICK accounts, retained : accounts = calls'[i].accounts /\ retained = calls'[i].address
    OBVIOUS
  <2>2. CASE /\ i \in DOMAIN calls /\ calls[i].open /\ calls'[i].kind = calls[i].kind
             /\ calls'[i].address = calls[i].address /\ calls'[i].accounts = calls[i].accounts
    <3>1. CallFresh(calls[i])
      BY <2>2 DEF ShownFresh
    <3>2. /\ accounts # Awaited => Fresh(accounts, 0)
          /\ calls'[i].kind = "switchAccount" => Fresh(retained, 0)
      BY <2>1, <2>2, <3>1 DEF CallFresh
    <3>3. /\ accounts # Awaited => Fresh(accounts, 0)'
          /\ calls'[i].kind = "switchAccount" => Fresh(retained, 0)'
      BY <3>2
    <3>4. QED
      BY <2>1, <3>3 DEF CallFresh, Fresh, NewsAfter
  <2>3. CASE calls'[i].accounts = Awaited /\ calls'[i].kind # "switchAccount"
    BY <2>3 DEF CallFresh
  <2>4. QED
    BY <1>1, <2>2, <2>3
<1>2. QED
  BY <1>1 DEF OpenCalls

\* The page goes on showing what it shows.
LEMMA ShownKept ==
  ASSUME ShownFresh, \A account : Fresh(account, 0) => Fresh(account, 0)',
         UNCHANGED <<address, manuallyDisconnected, overlapped>>,
         \A i \in DOMAIN calls' : calls'[i].open =>
           \/ /\ i \in DOMAIN calls /\ calls[i].open /\ calls'[i].kind = calls[i].kind
              /\ calls'[i].address = calls[i].address /\ calls'[i].accounts = calls[i].accounts
           \/ calls'[i].accounts = Awaited /\ calls'[i].kind # "switchAccount"
  PROVE  ShownFresh'
<1> SUFFICES ASSUME ~overlapped PROVE ShownFresh'
  BY DEF ShownFresh
<1>1. /\ (\A i \in DOMAIN calls : calls[i].open => CallFresh(calls[i]))'
      /\ OpenCalls({"switchAccount"}) = {} => OpenCalls({"switchAccount"})' = {}
  BY CallsKept
<1>2. PICK account : account = address
  OBVIOUS
<1>3. account # Nobody => Fresh(account, 0)
  BY <1>2 DEF ShownFresh
<1>4. account # Nobody => Fresh(account, 0)'
  BY <1>3
<1>5. (address # Nobody => Fresh(address, 0))'
  BY <1>2, <1>4 DEF Fresh, NewsAfter
<1>6. QED
  BY <1>1, <1>5 DEF ShownFresh

\* What the wallet sends with an act of its owner or an answer.
Sent(more) ==
  /\ more \in Seq(Messages) /\ inbox' = inbox \o more
  /\ selected' # selected => \E j \in DOMAIN more : more[j].call = 0 /\ more[j].what = "accounts"
  /\ \A j \in DOMAIN more :
       more[j].what = "accounts" /\ more[j].value # Failed => more[j].value = selected'

LEMMA AccountSent ==
  ASSUME SessionType, NEW account \in Accounts \cup {Nobody}, selected' = account,
         NEW more, more = AccountReport(account)
  PROVE  /\ more \in Seq(Messages)
         /\ selected' # selected => \E j \in DOMAIN more : more[j].call = 0 /\ more[j].what = "accounts"
         /\ \A j \in DOMAIN more : more[j].value = selected'
<1>1. more \in Seq(Messages)
  BY ReportTypes
<1>2. CASE account = selected
  BY <1>1, <1>2 DEF AccountReport
<1>3. CASE account # selected
  <2>1. PICK message : message = Report("accounts", account)
    OBVIOUS
  <2>2. message.call = 0 /\ message.what = "accounts" /\ message.value = account
    BY <2>1 DEF Report
  <2>3. more = <<message>>
    BY <1>3, <2>1 DEF AccountReport
  <2>4. QED
    BY <1>1, <2>2, <2>3
<1>4. QED
  BY <1>2, <1>3

LEMMA ChainSent ==
  ASSUME SessionType, NEW chain \in Chains, NEW more, more = ChainReport(chain)
  PROVE  more \in Seq(Messages) /\ \A j \in DOMAIN more : more[j].what = "chain"
<1>1. more \in Seq(Messages)
  BY ReportTypes
<1>2. PICK message : message = Report("chain", chain)
  OBVIOUS
<1>3. message.what = "chain"
  BY <1>2 DEF Report
<1>4. more = <<>> \/ more = <<message>>
  BY <1>2 DEF ChainReport
<1>5. QED
  BY <1>1, <1>3, <1>4

\* An answer behind what was reported.
LEMMA AnswerSent ==
  ASSUME SessionType, NEW reports \in Seq(Messages), NEW answer \in Messages,
         inbox' = inbox \o reports \o <<answer>>,
         selected' # selected =>
           \E j \in DOMAIN reports : reports[j].call = 0 /\ reports[j].what = "accounts",
         \A j \in DOMAIN reports : reports[j].what = "accounts" => reports[j].value = selected',
         answer.what = "accounts" /\ answer.value # Failed => answer.value = selected'
  PROVE  \E more : Sent(more)
<1>1. PICK more : more = reports \o <<answer>>
  OBVIOUS
<1>2. inbox \in Seq(Messages) /\ <<answer>> \in Seq(Messages)
  BY DEF SessionType, TypeOK
<1>3. inbox' = inbox \o more
  BY <1>1, <1>2, ConcatAssociative
<1>4. /\ more \in Seq(Messages)
      /\ \A j \in DOMAIN reports : j \in DOMAIN more /\ more[j] = reports[j]
      /\ \A j \in DOMAIN more :
           more[j] = answer \/ (j \in DOMAIN reports /\ more[j] = reports[j])
  BY <1>1, <1>2
<1>5. selected' # selected => \E j \in DOMAIN more : more[j].call = 0 /\ more[j].what = "accounts"
  BY <1>4
<1>6. \A j \in DOMAIN more :
        more[j].what = "accounts" /\ more[j].value # Failed => more[j].value = selected'
  BY <1>4
<1>7. Sent(more)
  BY <1>3, <1>4, <1>5, <1>6 DEF Sent
<1>8. QED
  BY <1>7

LEMMA WalletSends ==
  ASSUME SessionType,
         \/ \E account \in Accounts \cup {Nobody} : OwnerSelects(account)
         \/ \E chain \in Chains : OwnerChangesNetwork(chain)
         \/ \E i \in DOMAIN calls : AnswerAccounts(i) \/ AnswerChain(i)
         \/ \E i \in DOMAIN calls, what \in {"accounts", "chain"} : Refuse(i, what)
  PROVE  \E more : Sent(more)
<1>1. ASSUME NEW account \in Accounts \cup {Nobody}, OwnerSelects(account)
      PROVE  \E more : Sent(more)
  <2>1. PICK more : more = AccountReport(account)
    OBVIOUS
  <2>2. selected' = account /\ inbox' = inbox \o more
    BY <1>1, <2>1 DEF OwnerSelects
  <2>3. Sent(more)
    BY <2>1, <2>2, AccountSent DEF Sent
  <2>4. QED
    BY <2>3
<1>2. ASSUME NEW chain \in Chains, OwnerChangesNetwork(chain)
      PROVE  \E more : Sent(more)
  <2>1. PICK more : more = ChainReport(chain)
    OBVIOUS
  <2>2. selected' = selected /\ inbox' = inbox \o more
    BY <1>2, <2>1 DEF OwnerChangesNetwork
  <2>3. Sent(more)
    BY <2>1, <2>2, ChainSent DEF Sent
  <2>4. QED
    BY <2>3
<1>3. ASSUME NEW i \in DOMAIN calls, AnswerAccounts(i)
      PROVE  \E more : Sent(more)
  <2>1. i \in Nat /\ calls[i].kind \in {"probe", "connect", "switchAccount"}
    BY <1>3 DEF AnswerAccounts, SessionType, TypeOK, Kinds
  <2>2. PICK account \in Offered(calls[i].kind) :
          /\ selected' = account
          /\ inbox' = inbox \o AccountReport(account) \o <<Answered(i, "accounts", account)>>
    BY <1>3 DEF AnswerAccounts
  <2>3. account \in Accounts \cup {Nobody}
    BY <2>1, <2>2 DEF Offered, SessionType, TypeOK
  <2>4. PICK reports, answer :
          reports = AccountReport(account) /\ answer = Answered(i, "accounts", account)
    OBVIOUS
  <2>5. answer \in Messages /\ answer.value = account
    BY <2>1, <2>3, <2>4 DEF Answered, Messages
  <2>6. QED
    BY <2>2, <2>3, <2>4, <2>5, AccountSent, AnswerSent
<1>4. ASSUME NEW i \in DOMAIN calls, AnswerChain(i)
      PROVE  \E more : Sent(more)
  <2>1. PICK reports, answer :
          reports = ChainReport(network') /\ answer = Answered(i, "chain", network')
    OBVIOUS
  <2>2. PICK chain : chain = network'
    OBVIOUS
  <2>3. /\ chain \in Chains /\ selected' = selected /\ reports = ChainReport(chain)
        /\ inbox' = inbox \o reports \o <<answer>>
    BY <1>4, <2>1, <2>2, SessionAssumption DEF AnswerChain, SessionType, TypeOK
  <2>4. answer \in Messages /\ answer.what = "chain"
    BY <2>1, <2>2, <2>3 DEF Answered, Messages, SessionType
  <2>5. QED
    BY <2>3, <2>4, ChainSent, AnswerSent
<1>5. ASSUME NEW i \in DOMAIN calls, NEW what \in {"accounts", "chain"}, Refuse(i, what)
      PROVE  \E more : Sent(more)
  <2>1. PICK answer : answer = Answered(i, what, Failed)
    OBVIOUS
  <2>2. answer \in Messages /\ answer.value = Failed
    BY <2>1 DEF Answered, Messages, SessionType
  <2>3. PICK reports : reports = <<>>
    OBVIOUS
  <2>4. reports \in Seq(Messages) /\ DOMAIN reports = {}
    BY <2>3
  <2>5. inbox' = inbox \o reports \o <<answer>> /\ selected' = selected
    BY <1>5, <2>1, <2>2, <2>3 DEF Refuse, SessionType, TypeOK, wallet
  <2>6. QED
    BY <2>2, <2>4, <2>5, AnswerSent
<1>6. QED
  BY <1>1, <1>2, <1>3, <1>4, <1>5

\* The owner acts, or the wallet answers.
LEMMA SentStep ==
  ASSUME SessionType, InboxFresh, ShownFresh,
         \/ \E account \in Accounts \cup {Nobody} : OwnerSelects(account)
         \/ \E chain \in Chains : OwnerChangesNetwork(chain)
         \/ \E i \in DOMAIN calls : AnswerAccounts(i) \/ AnswerChain(i)
         \/ \E i \in DOMAIN calls, what \in {"accounts", "chain"} : Refuse(i, what)
  PROVE  InboxFresh' /\ ShownFresh'
<1>1. PICK more : Sent(more)
  BY WalletSends
<1>2. 0 \in 0 .. Len(inbox)
  BY DEF SessionType, TypeOK
<1>3. InboxFresh' /\ \A account : Fresh(account, 0) => Fresh(account, 0)'
  BY <1>1, <1>2, FreshSent DEF Sent
<1>4. UNCHANGED <<address, manuallyDisconnected, overlapped, calls>>
  BY DEF OwnerSelects, OwnerChangesNetwork, AnswerAccounts, AnswerChain, Refuse, shown
<1>5. QED
  BY <1>3, <1>4, ShownKept

\* The page is loaded, or the user acts.
LEMMA PageStep ==
  ASSUME SessionType, InboxFresh, ShownFresh,
         Reload \/ StartConnect \/ StartSwitchAccount \/ StartSwitchNetwork \/ Disconnect
  PROVE  InboxFresh' /\ ShownFresh'
<1>1. CASE Reload
  <2>1. inbox' = <<>> /\ address' = Nobody /\ manuallyDisconnected' = mark
    BY <1>1 DEF Reload, DisconnectPreference
  <2>2. PICK probe : probe = Call("probe")
    OBVIOUS
  <2>3. probe.kind = "probe" /\ probe.accounts = Awaited
    BY <2>2 DEF Call
  <2>4. calls' = <<>> \/ calls' = <<probe>>
    BY <1>1, <2>2 DEF Reload, Loaded
  <2>5. \A i \in DOMAIN calls' : calls'[i].kind = "probe" /\ calls'[i].accounts = Awaited
    BY <2>3, <2>4
  <2>6. QED
    BY <2>1, <2>5 DEF InboxFresh, ShownFresh, CallFresh, OpenCalls
<1>2. CASE ~Reload
  <2>1. UNCHANGED <<inbox, selected>>
    BY <1>2 DEF StartConnect, StartSwitchAccount, StartSwitchNetwork, Disconnect, wallet
  <2>2. InboxFresh' /\ \A account : Fresh(account, 0) => Fresh(account, 0)'
    BY <2>1 DEF InboxFresh, Fresh, NewsAfter
  <2>3. /\ \A i \in DOMAIN calls :
             /\ i \in DOMAIN calls'
             /\ calls'[i].open => /\ calls[i].open /\ calls'[i].kind = calls[i].kind
                                  /\ calls'[i].address = calls[i].address
                                  /\ calls'[i].accounts = calls[i].accounts
        /\ \A i \in DOMAIN calls' \ DOMAIN calls :
             /\ calls'[i].accounts = Awaited
             /\ calls'[i].kind = "switchAccount" => StartSwitchAccount /\ calls'[i].address = address
    <3>1. /\ \A i \in DOMAIN calls :
               /\ i \in DOMAIN calls'
               /\ calls'[i].open => /\ calls[i].open /\ calls'[i].kind = calls[i].kind
                                    /\ calls'[i].address = calls[i].address
          /\ \A i \in DOMAIN calls' \ DOMAIN calls :
               /\ calls'[i].accounts = Awaited
               /\ calls'[i].kind = "switchAccount" => StartSwitchAccount /\ calls'[i].address = address
      BY <1>2, CallSteps DEF Next
    <3>2. CASE Disconnect
      BY <3>1, <3>2, DisconnectType
    <3>3. CASE StartConnect \/ StartSwitchAccount \/ StartSwitchNetwork
      <4>1. PICK kind \in Kinds : Post(kind)
        BY <3>3 DEF StartConnect, StartSwitchAccount, StartSwitchNetwork, Kinds
      <4>2. \A i \in DOMAIN calls : calls'[i] = calls[i]
        BY <2>1, <4>1, PostType
      <4>3. QED
        BY <3>1, <4>2
    <3>4. QED
      BY <1>2, <3>2, <3>3
  <2>4. CASE StartConnect \/ StartSwitchNetwork
    <3>1. UNCHANGED <<address, manuallyDisconnected, overlapped>>
      BY <2>4 DEF StartConnect, StartSwitchNetwork, shown
    <3>2. ~StartSwitchAccount
      BY <2>4 DEF StartConnect, StartSwitchNetwork, StartSwitchAccount, MenuShown
    <3>3. QED
      BY <2>2, <2>3, <3>1, <3>2, ShownKept
  <2>5. CASE StartSwitchAccount
    <3>1. UNCHANGED <<address, manuallyDisconnected, overlapped>> /\ address # Nobody
      BY <2>5 DEF StartSwitchAccount, MenuShown
    <3>2. SUFFICES ASSUME ~overlapped PROVE ShownFresh'
      BY <2>2, <3>1 DEF ShownFresh
    <3>3. PICK account : account = address
      OBVIOUS
    <3>4. Fresh(account, 0) /\ ~manuallyDisconnected
      BY <3>1, <3>2, <3>3 DEF ShownFresh
    <3>5. Fresh(account, 0)'
      BY <2>2, <3>4
    <3>6. ASSUME NEW i \in DOMAIN calls', calls'[i].open
          PROVE  CallFresh(calls[i])'
      <4>1. PICK accounts, retained : accounts = calls'[i].accounts /\ retained = calls'[i].address
        OBVIOUS
      <4>2. CASE i \in DOMAIN calls
        <5>1. CallFresh(calls[i])
          BY <2>3, <3>2, <3>6, <4>2 DEF ShownFresh
        <5>2. /\ accounts # Awaited => Fresh(accounts, 0)
              /\ calls'[i].kind = "switchAccount" => Fresh(retained, 0)
          BY <2>3, <3>6, <4>1, <4>2, <5>1 DEF CallFresh
        <5>3. /\ accounts # Awaited => Fresh(accounts, 0)'
              /\ calls'[i].kind = "switchAccount" => Fresh(retained, 0)'
          BY <2>2, <5>2
        <5>4. QED
          BY <4>1, <5>3 DEF CallFresh, Fresh, NewsAfter
      <4>3. CASE i \notin DOMAIN calls
        <5>1. calls'[i].accounts = Awaited /\ (calls'[i].kind = "switchAccount" => calls'[i].address = account)
          BY <2>3, <3>3, <4>3
        <5>2. QED
          BY <3>5, <5>1 DEF CallFresh, Fresh, NewsAfter
      <4>4. QED
        BY <4>2, <4>3
    <3>7. (address # Nobody => Fresh(address, 0))'
      BY <3>1, <3>3, <3>5 DEF Fresh, NewsAfter
    <3>8. QED
      BY <3>1, <3>4, <3>6, <3>7 DEF ShownFresh
  <2>6. CASE Disconnect
    <3>1. SUFFICES ASSUME ~overlapped' PROVE ShownFresh'
      BY <2>2 DEF ShownFresh
    <3>2. /\ address' = Nobody /\ ~overlapped /\ OpenCalls({"switchAccount"}) = {}
          /\ DOMAIN calls' = DOMAIN calls
      BY <2>6, <3>1, DisconnectType DEF Disconnect
    <3>3. /\ (\A i \in DOMAIN calls : calls[i].open => CallFresh(calls[i]))'
          /\ OpenCalls({"switchAccount"})' = {}
      BY <2>2, <2>3, <3>2, CallsKept
    <3>4. QED
      BY <3>2, <3>3 DEF ShownFresh
  <2>7. QED
    BY <1>2, <2>2, <2>4, <2>5, <2>6
<1>3. QED
  BY <1>1, <1>2

\* What a call that has all it waited for brings is current.
LEMMA CompletesFresh ==
  ASSUME SessionType, InboxFresh, ShownFresh, ~overlapped, inbox # <<>>, UNCHANGED selected,
         NEW message, NEW kind, Completes(message, kind), kind # "switchNetwork",
         NEW account, account = GotAccount(message)
  PROVE  Fresh(account, 0)'
<1>1. /\ message = Head(inbox) /\ inbox' = Tail(inbox) /\ message.call # 0
      /\ message.call \in DOMAIN calls /\ calls[message.call].open
      /\ message.value # Failed
      /\ account \in Accounts \cup {Nobody}
  BY CompletesType DEF Completes
<1>2. CASE message.what = "accounts"
  <2>1. account = Head(inbox).value
    BY <1>1, <1>2 DEF GotAccount
  <2>2. QED
    BY <1>1, <1>2, <2>1, FreshTaken
<1>3. CASE message.what # "accounts"
  <2>1. account = calls[message.call].accounts
    BY <1>3 DEF GotAccount
  <2>2. account # Awaited
    BY <1>1, SessionAssumption
  <2>3. Fresh(account, 0)
    BY <1>1, <2>1, <2>2 DEF ShownFresh, CallFresh
  <2>4. QED
    BY <1>1, <2>3, FreshTaken
<1>4. QED
  BY <1>2, <1>3

\* The page shows a current account, or none, while its calls go on.
LEMMA ShownAnew ==
  ASSUME ShownFresh, \A account : Fresh(account, 0) => Fresh(account, 0)',
         NEW account, address' = account,
         ~overlapped => account = Nobody \/ Fresh(account, 0)',
         UNCHANGED overlapped, ~overlapped => ~manuallyDisconnected',
         \A i \in DOMAIN calls' : calls'[i].open =>
           \/ /\ i \in DOMAIN calls /\ calls[i].open /\ calls'[i].kind = calls[i].kind
              /\ calls'[i].address = calls[i].address /\ calls'[i].accounts = calls[i].accounts
           \/ calls'[i].accounts = Awaited /\ calls'[i].kind # "switchAccount"
  PROVE  ShownFresh'
<1> SUFFICES ASSUME ~overlapped PROVE ShownFresh'
  BY DEF ShownFresh
<1>1. (\A i \in DOMAIN calls : calls[i].open => CallFresh(calls[i]))'
  BY CallsKept
<1>2. (address # Nobody => Fresh(address, 0))'
  BY DEF Fresh, NewsAfter
<1>3. QED
  BY <1>1, <1>2 DEF ShownFresh

LEMMA TakeReportFresh ==
  ASSUME SessionType, InboxFresh, ShownFresh, inbox # <<>>, NEW message, TakeReport(message)
  PROVE  InboxFresh' /\ ShownFresh'
<1>1. /\ message = Head(inbox) /\ inbox' = Tail(inbox) /\ message.call = 0
      /\ message.what = "accounts" => message.value \in Accounts \cup {Nobody}
      /\ UNCHANGED <<selected, calls, manuallyDisconnected>>
  BY TakeReportType DEF TakeReport, wallet
<1>2. InboxFresh'
  BY <1>1, FreshTaken
<1>3. SUFFICES ASSUME ~overlapped' PROVE ShownFresh'
  BY <1>2 DEF ShownFresh
<1>4. ~overlapped /\ OpenCalls(Kinds) = {}
  BY <1>3 DEF TakeReport
<1>5. \A i \in DOMAIN calls : ~calls[i].open
  BY <1>4 DEF OpenCalls, SessionType, TypeOK
<1>6. (manuallyDisconnected => address = Nobody /\ OpenCalls({"switchAccount"}) = {})'
  BY <1>1, <1>4, <1>5 DEF ShownFresh, OpenCalls, TakeReport, shown
<1>7. (address # Nobody => Fresh(address, 0))'
  <2>1. PICK account : account = address'
    OBVIOUS
  <2>2. CASE ~manuallyDisconnected /\ message.what = "accounts"
    <3>1. account = message.value /\ message.value # Failed
      BY <1>1, <2>1, <2>2, SessionAssumption DEF TakeReport, Apply
    <3>2. Fresh(account, 0)'
      BY <1>1, <2>2, <3>1, FreshTaken
    <3>3. QED
      BY <2>1, <3>2 DEF Fresh, NewsAfter
  <2>3. CASE ~manuallyDisconnected /\ message.what # "accounts"
    <3>1. account = address
      BY <2>1, <2>3 DEF TakeReport, Apply
    <3>2. account # Nobody => Fresh(account, 0)
      BY <1>4, <3>1 DEF ShownFresh
    <3>3. account # Nobody => Fresh(account, 0)'
      BY <1>1, <2>3, <3>2, FreshTaken
    <3>4. QED
      BY <2>1, <3>3 DEF Fresh, NewsAfter
  <2>4. CASE manuallyDisconnected
    BY <1>1, <1>6, <2>4
  <2>5. QED
    BY <2>2, <2>3, <2>4
<1>8. QED
  BY <1>1, <1>5, <1>6, <1>7 DEF ShownFresh

LEMMA TakeAnswerFresh ==
  ASSUME SessionType, InboxFresh, ShownFresh, inbox # <<>>, NEW message, TakeAnswer(message)
  PROVE  InboxFresh' /\ ShownFresh'
<1>1. /\ message = Head(inbox) /\ inbox' = Tail(inbox) /\ message.call # 0
      /\ UNCHANGED <<selected, address, manuallyDisconnected, overlapped>>
  BY DEF TakeAnswer, Take, wallet, shown
<1>2. InboxFresh' /\ \A account : Fresh(account, 0) => Fresh(account, 0)'
  BY <1>1, FreshTaken
<1>3. SUFFICES ASSUME ~overlapped PROVE ShownFresh'
  BY <1>1, <1>2 DEF ShownFresh
<1>4. /\ DOMAIN calls' = DOMAIN calls
      /\ \A j \in DOMAIN calls :
           /\ calls'[j].open = calls[j].open /\ calls'[j].kind = calls[j].kind
           /\ calls'[j].address = calls[j].address
           /\ \/ calls'[j].accounts = calls[j].accounts
              \/ /\ message.what = "accounts"
                 /\ calls'[j].accounts = message.value /\ message.value # Failed
  BY TakeAnswerType
<1>5. ASSUME NEW i \in DOMAIN calls', calls'[i].open
      PROVE  CallFresh(calls[i])'
  <2>1. PICK accounts, retained : accounts = calls'[i].accounts /\ retained = calls'[i].address
    OBVIOUS
  <2>2. CallFresh(calls[i]) /\ calls'[i].kind = calls[i].kind /\ retained = calls[i].address
    BY <1>3, <1>4, <1>5, <2>1 DEF ShownFresh
  <2>3. calls'[i].kind = "switchAccount" => Fresh(retained, 0)'
    <3>1. calls'[i].kind = "switchAccount" => Fresh(retained, 0)
      BY <2>2 DEF CallFresh
    <3>2. QED
      BY <1>2, <3>1
  <2>4. accounts # Awaited => Fresh(accounts, 0)'
    <3>1. CASE accounts = calls[i].accounts
      <4>1. accounts # Awaited => Fresh(accounts, 0)
        BY <2>2, <3>1 DEF CallFresh
      <4>2. QED
        BY <1>2, <4>1
    <3>2. CASE message.what = "accounts" /\ accounts = message.value /\ message.value # Failed
      BY <1>1, <3>2, FreshTaken
    <3>3. QED
      BY <1>4, <2>1, <3>1, <3>2
  <2>5. QED
    BY <2>1, <2>3, <2>4 DEF CallFresh, Fresh, NewsAfter
<1>6. (address # Nobody => Fresh(address, 0))'
  <2>1. PICK account : account = address
    OBVIOUS
  <2>2. account # Nobody => Fresh(account, 0)
    BY <1>3, <2>1 DEF ShownFresh
  <2>3. account # Nobody => Fresh(account, 0)'
    BY <1>2, <2>2
  <2>4. QED
    BY <1>1, <2>1, <2>3 DEF Fresh, NewsAfter
<1>7. (manuallyDisconnected => address = Nobody /\ OpenCalls({"switchAccount"}) = {})'
  BY <1>1, <1>3, <1>4 DEF ShownFresh, OpenCalls
<1>8. QED
  BY <1>5, <1>6, <1>7 DEF ShownFresh

\* A call is answered in full, or fails.
LEMMA CallEndsFresh ==
  ASSUME SessionType, InboxFresh, ShownFresh, NoProbe, inbox # <<>>, NEW message,
         \/ ProbeDone(message) \/ ConnectDone(message) \/ SwitchAccountDone(message)
         \/ SwitchNetworkDone(message) \/ CallFails(message)
  PROVE  InboxFresh' /\ ShownFresh'
<1>1. /\ message = Head(inbox) /\ inbox' = Tail(inbox) /\ message.call # 0
      /\ message.call \in DOMAIN calls /\ calls[message.call].open
      /\ UNCHANGED <<selected, overlapped>>
  BY CompletesType, CallFailsType
     DEF ProbeDone, ConnectDone, SwitchAccountDone, SwitchNetworkDone, CallFails, Take, wallet
<1>2. InboxFresh' /\ \A account : Fresh(account, 0) => Fresh(account, 0)'
  BY <1>1, FreshTaken
<1>3. \A i \in DOMAIN calls' : calls'[i].open =>
        \/ /\ i \in DOMAIN calls /\ calls[i].open /\ calls'[i].kind = calls[i].kind
           /\ calls'[i].address = calls[i].address /\ calls'[i].accounts = calls[i].accounts
        \/ calls'[i].accounts = Awaited /\ calls'[i].kind # "switchAccount"
  <2>1. CASE ConnectDone(message)
    <3>1. Call("probe").accounts = Awaited /\ Call("probe").kind = "probe"
      BY DEF Call
    <3>2. QED
      BY <2>1, <3>1, ConnectDoneType
  <2>2. CASE ~ConnectDone(message)
    <3>1. Close(message.call)
      BY <2>2 DEF ProbeDone, SwitchAccountDone, SwitchNetworkDone, CallFails
    <3>2. QED
      BY <1>1, <3>1, CloseTaken
  <2>3. QED
    BY <2>1, <2>2
<1>4. ~overlapped /\ calls[message.call].kind \in {"probe", "switchAccount"} => ~manuallyDisconnected
  BY <1>1 DEF ShownFresh, NoProbe, OpenCalls
<1>5. CASE ProbeDone(message) \/ ConnectDone(message) \/ SwitchAccountDone(message)
  <2>1. PICK account : account = GotAccount(message)
    OBVIOUS
  <2>2. address' = account
    BY <1>5, <2>1 DEF ProbeDone, ConnectDone, SwitchAccountDone, Apply
  <2>3. ~overlapped => Fresh(account, 0)'
    BY <1>1, <1>5, <2>1, CompletesFresh DEF ProbeDone, ConnectDone, SwitchAccountDone
  <2>4. ~overlapped => ~manuallyDisconnected'
    BY <1>4, <1>5 DEF ProbeDone, ConnectDone, SwitchAccountDone, Completes
  <2>5. QED
    BY <1>1, <1>2, <1>3, <2>2, <2>3, <2>4, ShownAnew
<1>6. CASE SwitchNetworkDone(message)
  <2>1. UNCHANGED <<address, manuallyDisconnected, overlapped>>
    BY <1>6 DEF SwitchNetworkDone
  <2>2. QED
    BY <1>2, <1>3, <2>1, ShownKept
<1>7. CASE CallFails(message)
  <2>1. calls[message.call].kind \in Kinds /\ UNCHANGED manuallyDisconnected
    BY <1>1, <1>7 DEF SessionType, TypeOK, CallFails
  <2>2. CASE calls[message.call].kind \in {"connect", "switchNetwork"}
    <3>1. UNCHANGED address
      BY <1>7, <2>2 DEF CallFails, shown
    <3>2. QED
      BY <1>1, <1>2, <1>3, <2>1, <3>1, ShownKept
  <2>3. CASE calls[message.call].kind \in {"probe", "switchAccount"}
    <3>1. PICK account : account = address'
      OBVIOUS
    <3>2. account = Nobody \/ (/\ calls[message.call].kind = "switchAccount"
                               /\ account = calls[message.call].address)
      BY <1>7, <2>3, <3>1 DEF CallFails, Apply
    <3>3. ~overlapped => account = Nobody \/ Fresh(account, 0)
      BY <1>1, <3>2 DEF ShownFresh, CallFresh
    <3>4. ~overlapped => account = Nobody \/ Fresh(account, 0)'
      BY <1>2, <3>3
    <3>5. ~overlapped => ~manuallyDisconnected'
      BY <1>4, <2>1, <2>3
    <3>6. QED
      BY <1>1, <1>2, <1>3, <3>1, <3>4, <3>5, ShownAnew
  <2>4. QED
    BY <2>1, <2>2, <2>3 DEF Kinds
<1>8. QED
  BY <1>2, <1>5, <1>6, <1>7

LEMMA FreshStep ==
  SessionType /\ NoProbe /\ InboxFresh /\ ShownFresh /\ [Next]_vars => InboxFresh' /\ ShownFresh'
<1> SUFFICES ASSUME SessionType, NoProbe, InboxFresh, ShownFresh, [Next]_vars
             PROVE  InboxFresh' /\ ShownFresh'
  OBVIOUS
<1>1. CASE UNCHANGED vars
  BY <1>1 DEF vars, InboxFresh, ShownFresh, Fresh, NewsAfter, CallFresh, OpenCalls
<1>2. CASE Deliver
  <2>1. inbox # <<>>
    BY <1>2 DEF Deliver
  <2>2. QED
    BY <1>2, <2>1, TakeReportFresh, TakeAnswerFresh, CallEndsFresh DEF Deliver
<1>3. QED
  BY <1>1, <1>2, SentStep, PageStep DEF Next

\* At rest the page shows the account the wallet exposes, whatever crossed on
\* the way, unless a report came while a call was open or the user disconnected
\* during a change of account.
THEOREM WalletAlwaysShown == Spec => []ShowsWallet
<1>1. Init => InboxFresh /\ ShownFresh /\ NoProbe /\ ConnectingEnds /\ ConnectedIsUsable /\ StatusShown
  <2> SUFFICES ASSUME Init
               PROVE  InboxFresh /\ ShownFresh /\ NoProbe /\ ConnectingEnds /\ ConnectedIsUsable /\ StatusShown
    OBVIOUS
  <2>1. PICK probe : probe = Call("probe")
    OBVIOUS
  <2>2. probe.kind = "probe" /\ probe.accounts = Awaited /\ calls = <<probe>>
    BY <2>1 DEF Init, Loaded, Call
  <2>3. \A i \in DOMAIN calls : calls[i].kind = "probe" /\ calls[i].accounts = Awaited
    BY <2>2
  <2>4. /\ inbox = <<>> /\ status = "disconnected" /\ address = Nobody
        /\ manuallyDisconnected = FALSE
    BY DEF Init
  <2>5. InboxFresh /\ NoProbe /\ ConnectingEnds /\ ConnectedIsUsable /\ StatusShown
    BY <2>4 DEF InboxFresh, NoProbe, ConnectingEnds, ConnectedIsUsable, StatusShown
  <2>6. ShownFresh
    BY <2>3, <2>4 DEF ShownFresh, CallFresh
  <2>7. QED
    BY <2>5, <2>6
<1>2. SessionType /\ ConnectingEnds /\ StatusShown /\ ShownFresh => ShowsWallet
  <2> SUFFICES ASSUME SessionType, ConnectingEnds, StatusShown, ShownFresh,
                      AtRest, ~overlapped, status # "disconnected"
               PROVE  address = selected
    BY DEF ShowsWallet
  <2>1. inbox = <<>> /\ \A i \in DOMAIN calls : ~calls[i].open
    BY DEF AtRest, OpenCalls, SessionType, TypeOK
  <2>2. status \in {"connected", "wrong_network"}
    BY <2>1 DEF ConnectingEnds, OpenCalls, SessionType, TypeOK
  <2>3. Fresh(address, 0)
    BY <2>2 DEF StatusShown, ShownFresh
  <2>4. QED
    BY <2>1, <2>3 DEF Fresh, NewsAfter
<1>3. QED
  BY <1>1, <1>2, InitType, TypeStep, NoProbeStep, ConnectingStep, UsableStep, FreshStep, PTL DEF Spec
=============================================================================
