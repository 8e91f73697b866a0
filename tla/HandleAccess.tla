---------------------------- MODULE HandleAccess -----------------------------
(***************************************************************************)
(* The access rights of the ciphertexts that ConfidentialPool.sol stores.  *)
(* The result of an encrypted operation is a new ciphertext that only the  *)
(* transaction that made it may read; FHE.allowThis and FHE.allow let the  *)
(* pool and a user read it later.  Each transaction of the pool carries    *)
(* here the stored ciphertexts it computes with and the rights of those it *)
(* stores.  One whose input the pool may not read reverts.                 *)
(*                                                                         *)
(* A slot that never held a ciphertext reads as an encrypted zero.         *)
(***************************************************************************)
EXTENDS ConfidentialPool

VARIABLE readers       \* of the ciphertext in each slot of storage

accessVars == <<vars, readers>>

Slots == ({"balances", "prizes", "drawWeights"} \X Users)
           \cup ({"accounted", "eligible", "reserve", "drawTotal"} \X {Pool})

Balances(users) == {"balances"} \X users
Prizes(users)   == {"prizes"} \X users
Weights(users)  == {"drawWeights"} \X users
Totals(names)   == names \X {Pool}

Empty(slots) == [s \in slots |-> {Pool}]
AllowThis(slots) == [s \in slots |-> {Pool}]
AllowPosition(users) == [s \in Balances(users) \cup Prizes(users) |-> {Pool, s[2]}]

\* The rights that are granted, and the others as they were.
granted ++ rights ==
  [s \in DOMAIN granted \cup DOMAIN rights |->
     IF s \in DOMAIN granted THEN granted[s] ELSE rights[s]]

Reads(slots) == \A s \in slots : Pool \in readers[s]
Stores(granted) == readers' = granted ++ readers

EligibleIfMember(user) == IF isParticipant[user] THEN Totals({"eligible"}) ELSE {}

\* FAULT: the eligible total is stored without rights.
CreditDepositAccessForgotten(user) ==
  /\ Reads(Balances({user}) \cup Totals({"accounted"}) \cup EligibleIfMember(user))
  /\ Stores(AllowPosition({user}) ++ AllowThis(Totals({"accounted"}))
              ++ [s \in EligibleIfMember(user) |-> {}])

CreditDepositAccess(user) ==
  /\ Reads(Balances({user}) \cup Totals({"accounted"}) \cup EligibleIfMember(user))
  /\ Stores(AllowPosition({user}) ++ AllowThis(Totals({"accounted"}) \cup EligibleIfMember(user)))

CreditPrizeReserveAccess ==
  /\ Reads(Totals({"reserve"}))
  /\ Stores(AllowThis(Totals({"reserve"})))

WithdrawAccess(user) ==
  /\ Reads(Balances({user}) \cup Prizes({user}) \cup Totals({"accounted"})
             \cup EligibleIfMember(user))
  /\ Stores(AllowPosition({user}) ++ AllowThis(Totals({"accounted"}) \cup EligibleIfMember(user)))

FinalizeParticipantActivationAccess(user) ==
  /\ Reads(Balances({user}) \cup Totals({"eligible"}))
  /\ Stores(AllowThis(Totals({"eligible"})))

\* The request keeps the balances and the total as they are, not copies.
RequestDrawAccess ==
  /\ Reads(Totals({"eligible", "reserve"}))
  /\ Stores([s \in Weights(Members) |-> readers[<<"balances", s[2]>>]]
              ++ [s \in Totals({"drawTotal"}) |-> readers[<<"eligible", Pool>>]])

ForgetRequestAccess == Stores(Empty(Totals({"drawTotal"})))

ExecuteDrawAccess ==
  LET totals == Totals({"reserve", "accounted", "eligible"})
  IN  /\ Reads(Balances(Members) \cup Prizes(Members) \cup Weights(Members)
                 \cup Totals({"drawTotal"}) \cup totals)
      /\ Stores(AllowPosition(Members) ++ AllowThis(totals)
                  ++ Empty(Weights(Members) \cup Totals({"drawTotal"})))

CompoundPrizesAccess(user) == Stores([s \in Prizes({user}) |-> {Pool, user}])
-----------------------------------------------------------------------------
UserAccessStep(user) ==
  \/ \E amount \in Amounts :
       \/ ConfidentialTransferAndCall(user, amount, "deposit") /\ CreditDepositAccess(user)
       \/ ConfidentialTransferAndCall(user, amount, "prizeReserve") /\ CreditPrizeReserveAccess
       \/ Withdraw(user, amount) /\ WithdrawAccess(user)
  \/ RequestDeactivation(user) /\ Reads(Balances({user})) /\ UNCHANGED readers
  \/ CompoundPrizes(user) /\ CompoundPrizesAccess(user)
  \/ /\ \E action \in {"deposit", "prizeReserve", "other"} : RefundedTransfer(user, action)
     /\ UNCHANGED readers

KeeperAccessStep(proof) ==
  \/ \E user \in Users :
       \/ FinalizeParticipantActivation(user, TRUE, proof)
            /\ FinalizeParticipantActivationAccess(user)
       \/ FinalizeParticipantActivation(user, FALSE, proof) /\ UNCHANGED readers
       \/ /\ \E bit \in BOOLEAN : FinalizeParticipantDeactivation(user, bit, proof)
          /\ UNCHANGED readers
  \/ SkipDraw(proof) /\ ForgetRequestAccess
  \/ (\E random \in Euint64s : ExecuteDraw(proof, random)) /\ ExecuteDrawAccess

AccessNext ==
  \/ \E user \in Users : UserAccessStep(user)
  \/ \E proof \in decryptable : KeeperAccessStep(proof)
  \/ RequestDraw /\ RequestDrawAccess
  \/ CancelDraw /\ ForgetRequestAccess
  \/ ((\E p \in BOOLEAN : SetPaused(p)) \/ Tick) /\ UNCHANGED readers

AccessSpec == Init /\ readers = Empty(Slots) /\ [][AccessNext]_accessVars
-----------------------------------------------------------------------------
\* No transaction leaves a ciphertext behind that a later one needs and may not
\* read, which would make every deposit, settlement or withdrawal that uses it
\* revert for good; and a saver can always decrypt the own balance and prizes,
\* whoever sent the transaction that changed them last.
NothingUnreadable ==
  /\ \A s \in Slots : Pool \in readers[s]
  /\ \A user \in Users : positionInitialized[user] =>
       \A s \in Balances({user}) \cup Prizes({user}) : user \in readers[s]
=============================================================================
