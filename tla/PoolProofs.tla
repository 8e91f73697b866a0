----------------------------- MODULE PoolProofs -----------------------------
(***************************************************************************)
(* Theorems about the pool for every number of users, every capacity,      *)
(* prize, cadence and integer width: its types, the array of participants, *)
(* the requests and their proofs, draws, the money (what backs the         *)
(* positions, what a draw pays, the promise of PrizeSavings) and the       *)
(* rights of the stored ciphertexts (HandleAccess does what the pool does, *)
(* and leaves none behind that a later transaction needs and may not read).*)
(***************************************************************************)
EXTENDS PoolProperties, HandleAccess, ArithmeticProofs, SequenceTheorems

-----------------------------------------------------------------------------
(* Types *)

LEMMA AmountTypes ==
  ASSUME NEW amount \in Amounts
  PROVE  amount \in Euint64s /\ amount \in Nat
BY PoolAssumption, ModulusAssumption DEF Euint64s

LEMMA EuintTypes ==
  /\ \A x \in Euint64s : x \in Nat /\ x \in Int
  /\ 0 \in Euint64s
BY ModulusAssumption DEF Euint64s

LEMMA NoDrawType == NoDraw \in Draws
BY EuintTypes DEF NoDraw, Draws, Nonces

LEMMA InitType == Init => TypeOK
<1> SUFFICES ASSUME Init PROVE TypeOK
  OBVIOUS
<1>1. participants \in Seq(Users)
  BY DEF Init
<1>2. pendingActivations \in [Users -> Requests] /\ pendingDeactivations \in [Users -> Requests]
  BY DEF Init, Requests
<1>3. QED
  BY <1>1, <1>2, NoDrawType, EuintTypes, PoolAssumption DEF Init, TypeOK, Nonces

LEMMA HandleTypes ==
  ASSUME NEW user \in Users, NEW nonce \in Nat
  PROVE  /\ EligibilityHandle(user, nonce) \in Handles
         /\ ZeroBalanceHandle(user, nonce) \in Handles
         /\ ReadinessHandle(nonce) \in Handles
BY DEF EligibilityHandle, ZeroBalanceHandle, ReadinessHandle, Handles, Nonces

Published == [handle : Handles, bit : BOOLEAN]

LEMMA PublishType ==
  ASSUME decryptable \subseteq Published, NEW handle \in Handles, NEW bit \in BOOLEAN,
         MakePubliclyDecryptable(handle, bit)
  PROVE  decryptable' \subseteq Published
BY DEF MakePubliclyDecryptable, Published

\* The request internals keep the types whatever balance the caller wrote.
LEMMA RequestTypes ==
  ASSUME TypeOK, NEW user \in Users
  PROVE  /\ RequestParticipantActivation(user) =>
              /\ participantActivationNonces' \in [Users -> Nonces]
              /\ pendingActivations' \in [Users -> Requests]
              /\ decryptable' \subseteq Published
         /\ RequestParticipantDeactivation(user) =>
              /\ participantDeactivationNonces' \in [Users -> Nonces]
              /\ pendingDeactivations' \in [Users -> Requests]
              /\ decryptable' \subseteq Published
<1>1. ASSUME RequestParticipantActivation(user)
      PROVE  /\ participantActivationNonces' \in [Users -> Nonces]
             /\ pendingActivations' \in [Users -> Requests]
             /\ decryptable' \subseteq Published
  <2> DEFINE nonce == participantActivationNonces[user]
  <2>1. nonce \in Nat
    BY DEF TypeOK, Nonces
  <2>2. (balances'[user] > 0) \in BOOLEAN
    OBVIOUS
  <2>3. decryptable' \subseteq Published
    BY <1>1, <2>1, <2>2, HandleTypes, PublishType
       DEF RequestParticipantActivation, TypeOK, Published
  <2>4. QED
    BY <1>1, <2>1, <2>3 DEF RequestParticipantActivation, TypeOK, Nonces, Requests
<1>2. ASSUME RequestParticipantDeactivation(user)
      PROVE  /\ participantDeactivationNonces' \in [Users -> Nonces]
             /\ pendingDeactivations' \in [Users -> Requests]
             /\ decryptable' \subseteq Published
  <2> DEFINE nonce == participantDeactivationNonces[user]
  <2>1. nonce \in Nat
    BY DEF TypeOK, Nonces
  <2>2. (balances'[user] = 0) \in BOOLEAN
    OBVIOUS
  <2>3. decryptable' \subseteq Published
    BY <1>2, <2>1, <2>2, HandleTypes, PublishType
       DEF RequestParticipantDeactivation, TypeOK, Published
  <2>4. QED
    BY <1>2, <2>1, <2>3 DEF RequestParticipantDeactivation, TypeOK, Nonces, Requests
<1>3. QED
  BY <1>1, <1>2

LEMMA DepositType ==
  ASSUME TypeOK, NEW user \in Users, NEW amount \in Amounts, NEW action,
         ConfidentialTransferAndCall(user, amount, action)
  PROVE  TypeOK'
<1> USE ModulusAssumption
<1>1. PICK moved \in {0, amount} :
        /\ moved <= wallet[user]
        /\ OnConfidentialTransferReceived(user, moved, action)
        /\ wallet' = [wallet EXCEPT ![user] = @ - moved]
        /\ custody' = custody + moved
  BY DEF ConfidentialTransferAndCall
<1>2. moved \in Nat
  BY AmountTypes
<1>3. wallet' \in [Users -> Nat] /\ custody' \in Nat
  BY <1>1, <1>2 DEF TypeOK
<1>4. CASE CreditDeposit(user, moved)
  <2>1. /\ balances' \in [Users -> Euint64s]
        /\ totalAccountedBalance' \in Euint64s
        /\ positionInitialized' \in [Users -> BOOLEAN]
        /\ userDepositNonces' \in [Users -> Nonces]
    <3>1. /\ Add(balances[user], moved) \in Euint64s
          /\ Add(totalAccountedBalance, moved) \in Euint64s
      <4>1. balances[user] \in Euint64s /\ totalAccountedBalance \in Euint64s
        BY DEF TypeOK
      <4>2. moved \in Int /\ balances[user] \in Int /\ totalAccountedBalance \in Int
        BY <1>2, <4>1, EuintTypes
      <4>3. QED
        BY <4>2, ArithmeticClosed
    <3>2. QED
      BY <1>4, <3>1 DEF CreditDeposit, TypeOK, Nonces
  <2>2. CASE isParticipant[user] /\ totalEligibleBalance' = Add(totalEligibleBalance, moved)
             /\ InvalidateParticipantDeactivations({user})
             /\ UNCHANGED <<activation, participantDeactivationNonces, decryptable>>
    <3>1. totalEligibleBalance' \in Euint64s
      BY <1>2, <2>2, ArithmeticClosed DEF TypeOK, Euint64s
    <3>2. pendingDeactivations' \in [Users -> Requests]
      BY <2>2 DEF InvalidateParticipantDeactivations, TypeOK, Requests
    <3>3. QED
      BY <1>1, <1>3, <1>4, <2>1, <2>2, <3>1, <3>2
         DEF OnConfidentialTransferReceived, CreditDeposit, TypeOK, activation,
             reserve, membership, drawing, outcome
  <2>3. CASE RequestParticipantActivation(user)
             /\ UNCHANGED <<totalEligibleBalance, deactivation>>
    <3>1. QED
      BY <1>1, <1>3, <1>4, <2>1, <2>3, RequestTypes
         DEF OnConfidentialTransferReceived, CreditDeposit, TypeOK, Published, deactivation,
             reserve, membership, drawing, outcome
  <2>4. QED
    BY <1>4, <2>2, <2>3 DEF CreditDeposit
<1>5. CASE CreditPrizeReserve(moved)
  <2>1. prizeReserve' \in Euint64s
    BY <1>2, <1>5, ArithmeticClosed DEF CreditPrizeReserve, TypeOK, Euint64s
  <2>2. QED
    BY <1>1, <1>3, <1>5, <2>1
       DEF OnConfidentialTransferReceived, CreditPrizeReserve, TypeOK, position, eligible,
           eventNonces, activation, deactivation, membership, drawing, outcome
<1>6. QED
  BY <1>1, <1>4, <1>5 DEF OnConfidentialTransferReceived

LEMMA ClosedOn ==
  ASSUME NEW a \in Euint64s, NEW b \in Euint64s
  PROVE  Add(a, b) \in Euint64s /\ Sub(a, b) \in Euint64s
<1>1. a \in Int /\ b \in Int
  BY EuintTypes
<1>2. QED
  BY <1>1, ArithmeticClosed

LEMMA WithdrawType ==
  ASSUME TypeOK, NEW user \in Users, NEW requested \in Euint64s, Withdraw(user, requested)
  PROVE  TypeOK'
<1>1. PICK transferred \in {0, Approved(user, requested)} :
        /\ ConfidentialTransfer(user, transferred)
        /\ balances' = [balances EXCEPT ![user] = Sub(@, transferred)]
        /\ prizes' = [prizes EXCEPT ![user] = Sub(@, Smaller(@, transferred))]
        /\ totalAccountedBalance' = Sub(totalAccountedBalance, transferred)
        /\ \/ /\ isParticipant[user]
              /\ totalEligibleBalance' = Sub(totalEligibleBalance, transferred)
              /\ RequestParticipantDeactivation(user)
              /\ UNCHANGED activation
           \/ /\ ~isParticipant[user]
              /\ RequestParticipantActivation(user)
              /\ UNCHANGED <<totalEligibleBalance, deactivation>>
  BY DEF Withdraw
<1>2. transferred \in Euint64s /\ transferred \in Nat
  BY EuintTypes DEF Approved
<1>3. wallet' \in [Users -> Nat] /\ custody' \in Nat
  BY <1>1, <1>2 DEF ConfidentialTransfer, TypeOK
<1>4. balances' \in [Users -> Euint64s]
  <2>1. Sub(balances[user], transferred) \in Euint64s
    BY <1>2, ClosedOn DEF TypeOK
  <2>2. QED
    BY <1>1, <2>1 DEF TypeOK
<1>5. prizes' \in [Users -> Euint64s]
  <2>1. prizes[user] \in Euint64s
    BY DEF TypeOK
  <2>2. Smaller(prizes[user], transferred) \in Euint64s
    BY <1>2, <2>1 DEF Smaller
  <2>3. Sub(prizes[user], Smaller(prizes[user], transferred)) \in Euint64s
    BY <2>1, <2>2, ClosedOn
  <2>4. QED
    BY <1>1, <2>3 DEF TypeOK
<1>6. totalAccountedBalance' \in Euint64s /\ totalEligibleBalance' \in Euint64s
  BY <1>1, <1>2, ClosedOn DEF TypeOK
<1>7. userWithdrawalNonces' \in [Users -> Nonces]
  BY DEF Withdraw, TypeOK, Nonces
<1>8. /\ participantActivationNonces' \in [Users -> Nonces]
      /\ participantDeactivationNonces' \in [Users -> Nonces]
      /\ pendingActivations' \in [Users -> Requests]
      /\ pendingDeactivations' \in [Users -> Requests]
      /\ decryptable' \subseteq Published
  BY <1>1, RequestTypes DEF TypeOK, activation, deactivation
<1>9. QED
  BY <1>3, <1>4, <1>5, <1>6, <1>7, <1>8
     DEF Withdraw, TypeOK, Published, reserve, membership, drawing, outcome

LEMMA UserStepsType ==
  ASSUME TypeOK, NEW user \in Users
  PROVE  /\ RequestDeactivation(user) => TypeOK'
         /\ CompoundPrizes(user) => TypeOK'
<1>1. ASSUME RequestDeactivation(user) PROVE TypeOK'
  BY <1>1, RequestTypes
     DEF RequestDeactivation, TypeOK, Published, token, position, eligible, reserve,
         membership, eventNonces, activation, drawing, outcome
<1>2. ASSUME CompoundPrizes(user) PROVE TypeOK'
  BY <1>2, EuintTypes
     DEF CompoundPrizes, TypeOK, token, eligible, reserve, membership, eventNonces,
         activation, deactivation, drawing, outcome
<1>3. QED
  BY <1>1, <1>2

LEMMA PoolStepsType ==
  ASSUME TypeOK
  PROVE  /\ CancelDraw => TypeOK'
         /\ Tick => TypeOK'
         /\ \A p \in BOOLEAN : SetPaused(p) => TypeOK'
<1>1. ASSUME CancelDraw PROVE TypeOK'
  BY <1>1, NoDrawType
     DEF CancelDraw, TypeOK, token, position, eligible, reserve, membership, eventNonces,
         activation, deactivation, outcome
<1>2. ASSUME Tick PROVE TypeOK'
  BY <1>2
     DEF Tick, TypeOK, token, position, eligible, reserve, membership, eventNonces,
         activation, deactivation, drawing, outcome
<1>3. ASSUME NEW p \in BOOLEAN, SetPaused(p) PROVE TypeOK'
  BY <1>3
     DEF SetPaused, TypeOK, token, position, eligible, reserve, membership, eventNonces,
         activation, deactivation, drawing, outcome
<1>4. QED
  BY <1>1, <1>2, <1>3

LEMMA RequestDrawType == TypeOK /\ RequestDraw => TypeOK'
<1> SUFFICES ASSUME TypeOK, RequestDraw PROVE TypeOK'
  OBVIOUS
<1>1. drawWeights' \in [Users -> Euint64s]
  BY DEF RequestDraw, TypeOK
<1>2. pendingDraw' \in Draws
  BY DEF RequestDraw, TypeOK, Draws
<1>3. decryptable' \subseteq Published
  <2>1. Ready \in BOOLEAN
    BY DEF Ready
  <2>2. drawRequestNonce \in Nat
    BY DEF TypeOK, Nonces
  <2>3. QED
    BY <2>1, <2>2, HandleTypes, PublishType, PoolAssumption DEF RequestDraw, TypeOK, Published
<1>4. drawRequestNonce' \in Nonces /\ nextDrawRequestTimestamp' \in Nat
  BY PoolAssumption DEF RequestDraw, TypeOK, Nonces
<1>5. QED
  BY <1>1, <1>2, <1>3, <1>4
     DEF RequestDraw, TypeOK, Published, token, position, eligible, reserve, membership,
         eventNonces, activation, deactivation, outcome

LEMMA SettleType ==
  ASSUME TypeOK, NEW proof
  PROVE  /\ SkipDraw(proof) => TypeOK'
         /\ \A random \in Euint64s : ExecuteDraw(proof, random) => TypeOK'
<1>1. ASSUME SkipDraw(proof) PROVE TypeOK'
  BY <1>1, NoDrawType
     DEF SkipDraw, SettleRequest, TypeOK, token, membership, eventNonces, activation
<1>2. ASSUME NEW random \in Euint64s, ExecuteDraw(proof, random) PROVE TypeOK'
  <2> DEFINE ticket  == SampleWeightedTicket(random, pendingDraw.total)
             weights == [i \in 1 .. Len(participants) |-> drawWeights[participants[i]]]
             winners == {participants[i] :
                           i \in {j \in 1 .. Len(participants) : IsWinner(weights, ticket, j)}}
             Award(u) == IF u \in winners THEN PrizeAmount ELSE 0
  <2>1. /\ SettleRequest(TRUE, proof)
        /\ InvalidateParticipantDeactivations(Members)
        /\ drawWeights' = [u \in Users |-> IF u \in Members THEN 0 ELSE drawWeights[u]]
        /\ balances' = [u \in Users |-> Add(balances[u], Award(u))]
        /\ prizes' = [u \in Users |-> Add(prizes[u], Award(u))]
        /\ prizeReserve' = Sub(prizeReserve, PrizeAmount)
        /\ totalAccountedBalance' = Add(totalAccountedBalance, PrizeAmount)
        /\ totalEligibleBalance' = Add(totalEligibleBalance, PrizeAmount)
        /\ currentDrawId' = currentDrawId + 1
    BY <1>2 DEF ExecuteDraw
  <2>2. \A u \in Users : Award(u) \in Euint64s
    BY EuintTypes, PoolAssumption
  <2> HIDE DEF Award
  <2>3. balances' \in [Users -> Euint64s] /\ prizes' \in [Users -> Euint64s]
    <3>1. \A u \in Users : balances[u] \in Euint64s /\ prizes[u] \in Euint64s
      BY DEF TypeOK
    <3>2. \A u \in Users : Add(balances[u], Award(u)) \in Euint64s
                           /\ Add(prizes[u], Award(u)) \in Euint64s
      BY <2>2, <3>1, ClosedOn
    <3>3. QED
      BY <2>1, <3>2
  <2>4. /\ prizeReserve' \in Euint64s
        /\ totalAccountedBalance' \in Euint64s
        /\ totalEligibleBalance' \in Euint64s
    BY <2>1, ClosedOn, PoolAssumption DEF TypeOK
  <2>5. /\ drawWeights' \in [Users -> Euint64s]
        /\ pendingDeactivations' \in [Users -> Requests]
    BY <2>1, EuintTypes DEF InvalidateParticipantDeactivations, TypeOK, Requests
  <2>6. QED
    BY <2>1, <2>3, <2>4, <2>5, NoDrawType
       DEF SettleRequest, TypeOK, token, membership, eventNonces, activation
<1>3. QED
  BY <1>1, <1>2

-----------------------------------------------------------------------------
(* Membership *)

\* Swap-and-pop reads the array at the stored index, so that the types are
\* inductive only together with the consistency of array, flag and index map.
Structure == TypeOK /\ MembershipConsistent

\* Swap-and-pop removes the user and leaves a consistent array and index map.
LEMMA SwapAndPop ==
  ASSUME Structure, NEW user \in Users, isParticipant[user], RemoveParticipant(user)
  PROVE  /\ participants' \in Seq(Users)
         /\ isParticipant' \in [Users -> BOOLEAN]
         /\ participantIndexPlusOne' \in [Users -> Nat]
         /\ MembershipConsistent'
<1> DEFINE n == Len(participants)
           index == participantIndexPlusOne[user]
           moved == participants[n]
           swapped == [participants EXCEPT ![index] = moved]
<1>1. /\ participants \in Seq(Users) /\ n \in Nat
      /\ isParticipant \in [Users -> BOOLEAN]
      /\ participantIndexPlusOne \in [Users -> Nat]
      /\ n <= MaxParticipants /\ MaxParticipants \in Nat
  BY PoolAssumption DEF Structure, TypeOK, MembershipConsistent
<1>2. \A i \in 1 .. n : participants[i] \in Users /\ participantIndexPlusOne[participants[i]] = i
  BY <1>1 DEF Structure, MembershipConsistent
<1>3. \A u \in Users :
        IF isParticipant[u]
        THEN participantIndexPlusOne[u] \in 1 .. n /\ participants[participantIndexPlusOne[u]] = u
        ELSE participantIndexPlusOne[u] = 0
  BY DEF Structure, MembershipConsistent
<1>4. index \in 1 .. n /\ participants[index] = user /\ n >= 1 /\ n \in 1 .. n
  BY <1>1, <1>3
<1>5. moved \in Users /\ participantIndexPlusOne[moved] = n
  BY <1>2, <1>4
<1>6. /\ swapped \in Seq(Users)
      /\ Len(swapped) = n
      /\ \A i \in 1 .. n : swapped[i] = IF i = index THEN moved ELSE participants[i]
  BY <1>1, <1>4, <1>5
<1>7. /\ participants' = SubSeq(swapped, 1, n - 1)
      /\ participantIndexPlusOne' =
           [participantIndexPlusOne EXCEPT ![moved] = index, ![user] = 0]
      /\ isParticipant' = [isParticipant EXCEPT ![user] = FALSE]
  BY DEF RemoveParticipant
<1> HIDE DEF swapped
<1>8. /\ participants' \in Seq(Users)
      /\ Len(participants') = n - 1
      /\ \A i \in 1 .. n - 1 : participants'[i] = swapped[i]
  BY <1>1, <1>4, <1>6, <1>7
<1>9. /\ isParticipant' \in [Users -> BOOLEAN]
      /\ participantIndexPlusOne' \in [Users -> Nat]
  BY <1>1, <1>4, <1>5, <1>7
<1>10. \A u \in Users : participantIndexPlusOne'[u] =
         IF u = user THEN 0 ELSE IF u = moved THEN index ELSE participantIndexPlusOne[u]
  BY <1>1, <1>5, <1>7
<1> HIDE DEF n, index, moved
<1>11. ASSUME NEW i \in 1 .. n - 1
       PROVE  participantIndexPlusOne'[participants'[i]] = i
  <2>1. i \in 1 .. n /\ i # n
    BY <1>1
  <2>2. CASE i = index
    <3>1. participants'[i] = moved
      BY <1>6, <1>8, <2>1, <2>2
    <3>2. moved # user
      BY <1>4, <1>5, <2>1, <2>2 DEF index
    <3>3. QED
      BY <1>5, <1>10, <2>2, <3>1, <3>2
  <2>3. CASE i # index
    <3>1. participants'[i] = participants[i] /\ participants[i] \in Users
      BY <1>2, <1>6, <1>8, <2>1, <2>3
    <3>2. participants[i] # user /\ participants[i] # moved
      BY <1>2, <1>5, <2>1, <2>3 DEF index
    <3>3. QED
      BY <1>2, <1>10, <2>1, <3>1, <3>2
  <2>4. QED
    BY <2>2, <2>3
<1>12. ASSUME NEW u \in Users
       PROVE  IF isParticipant'[u]
              THEN /\ participantIndexPlusOne'[u] \in 1 .. n - 1
                   /\ participants'[participantIndexPlusOne'[u]] = u
              ELSE participantIndexPlusOne'[u] = 0
  <2>1. CASE u = user
    BY <1>1, <1>7, <1>10, <2>1
  <2>2. CASE u # user /\ ~isParticipant[u]
    <3>1. u # moved
      BY <1>1, <1>3, <1>4, <1>5, <2>2
    <3>2. QED
      BY <1>1, <1>3, <1>7, <1>10, <2>2, <3>1
  <2>3. CASE u # user /\ isParticipant[u] /\ u = moved
    <3>1. index # n
      BY <1>4, <2>3 DEF moved
    <3>2. index \in 1 .. n - 1
      BY <1>1, <1>4, <3>1
    <3>3. participants'[index] = moved
      BY <1>4, <1>6, <1>8, <3>2
    <3>4. participantIndexPlusOne'[u] = index
      BY <1>10, <2>3
    <3>5. isParticipant'[u]
      BY <1>1, <1>7, <2>3
    <3>6. QED
      BY <2>3, <3>2, <3>3, <3>4, <3>5
  <2>4. CASE u # user /\ isParticipant[u] /\ u # moved
    <3>1. participantIndexPlusOne'[u] = participantIndexPlusOne[u]
      BY <1>10, <2>4
    <3>2. participantIndexPlusOne[u] \in 1 .. n /\ participants[participantIndexPlusOne[u]] = u
      BY <1>3, <2>4
    <3>3. participantIndexPlusOne[u] # n /\ participantIndexPlusOne[u] # index
      BY <1>4, <2>4, <3>2 DEF moved
    <3>4. participantIndexPlusOne[u] \in 1 .. n - 1
      BY <1>1, <3>2, <3>3
    <3>5. participants'[participantIndexPlusOne[u]] = u
      BY <1>6, <1>8, <3>2, <3>3, <3>4
    <3>6. isParticipant'[u]
      BY <1>1, <1>7, <2>4
    <3>7. QED
      BY <3>1, <3>4, <3>5, <3>6
  <2>5. QED
    BY <2>1, <2>2, <2>3, <2>4
<1>13. n - 1 <= MaxParticipants
  BY <1>1
<1>14. MembershipConsistent'
  BY <1>8, <1>11, <1>12, <1>13 DEF MembershipConsistent
<1>15. QED
  BY <1>8, <1>9, <1>14

LEMMA InitStructure == Init => Structure
<1> SUFFICES ASSUME Init PROVE MembershipConsistent
  BY InitType DEF Structure
<1>1. participants = << >> /\ Len(participants) = 0
  BY DEF Init
<1>2. QED
  BY <1>1, PoolAssumption DEF Init, MembershipConsistent

LEMMA MembershipFrame ==
  ASSUME Structure, UNCHANGED membership
  PROVE  MembershipConsistent'
BY DEF Structure, MembershipConsistent, membership

LEMMA ActivationStructure ==
  ASSUME Structure, NEW user \in Users, NEW bit \in BOOLEAN, NEW proof,
         FinalizeParticipantActivation(user, bit, proof)
  PROVE  Structure'
<1> DEFINE n == Len(participants)
<1>1. /\ participants \in Seq(Users) /\ n \in Nat
      /\ isParticipant \in [Users -> BOOLEAN]
      /\ participantIndexPlusOne \in [Users -> Nat]
      /\ ~isParticipant[user]
  BY DEF Structure, TypeOK, FinalizeParticipantActivation
<1>2. pendingActivations' \in [Users -> Requests]
  BY DEF FinalizeParticipantActivation, Structure, TypeOK, Requests
<1>3. CASE ~bit
  <2>1. UNCHANGED <<membership, eligible>>
    BY <1>3 DEF FinalizeParticipantActivation
  <2>2. MembershipConsistent'
    BY <2>1, MembershipFrame
  <2>3. QED
    BY <1>2, <2>1, <2>2
       DEF FinalizeParticipantActivation, Structure, TypeOK, token, position, reserve,
           eventNonces, deactivation, drawing, outcome, membership, eligible
<1>4. CASE bit
  <2>1. /\ n < MaxParticipants
        /\ isParticipant' = [isParticipant EXCEPT ![user] = TRUE]
        /\ participants' = Append(participants, user)
        /\ participantIndexPlusOne' = [participantIndexPlusOne EXCEPT ![user] = n + 1]
        /\ eligibleTotalInitialized' = TRUE
        /\ totalEligibleBalance' = Add(totalEligibleBalance, balances[user])
    BY <1>4 DEF FinalizeParticipantActivation
  <2>2. /\ participants' \in Seq(Users)
        /\ Len(participants') = n + 1
        /\ \A i \in 1 .. n : participants'[i] = participants[i]
        /\ participants'[n + 1] = user
    BY <1>1, <2>1
  <2>3. totalEligibleBalance' \in Euint64s
    <3>1. totalEligibleBalance \in Euint64s /\ balances[user] \in Euint64s
      BY DEF Structure, TypeOK
    <3>2. QED
      BY <2>1, <3>1, ClosedOn
  <2>4. TypeOK'
    BY <1>1, <1>2, <2>1, <2>2, <2>3
       DEF FinalizeParticipantActivation, Structure, TypeOK, token, position, reserve,
           eventNonces, deactivation, drawing, outcome
  <2>5. \A i \in 1 .. n : participants[i] \in Users /\ participants[i] # user
    BY <1>1 DEF Structure, MembershipConsistent
  <2>6. ASSUME NEW i \in 1 .. n + 1
        PROVE  participantIndexPlusOne'[participants'[i]] = i
    <3>1. CASE i = n + 1
      BY <1>1, <2>1, <2>2, <3>1
    <3>2. CASE i \in 1 .. n
      BY <1>1, <2>1, <2>2, <2>5, <3>2 DEF Structure, MembershipConsistent
    <3>3. QED
      BY <1>1, <3>1, <3>2
  <2>7. ASSUME NEW u \in Users
        PROVE  IF isParticipant'[u]
               THEN /\ participantIndexPlusOne'[u] \in 1 .. n + 1
                    /\ participants'[participantIndexPlusOne'[u]] = u
               ELSE participantIndexPlusOne'[u] = 0
    <3>1. CASE u = user
      BY <1>1, <2>1, <2>2, <3>1
    <3>2. CASE u # user
      BY <1>1, <2>1, <2>2, <3>2 DEF Structure, MembershipConsistent
    <3>3. QED
      BY <3>1, <3>2
  <2>8. MembershipConsistent'
    BY <1>1, <2>1, <2>2, <2>6, <2>7, PoolAssumption DEF MembershipConsistent
  <2>9. QED
    BY <2>4, <2>8 DEF Structure
<1>5. QED
  BY <1>3, <1>4

LEMMA DeactivationStructure ==
  ASSUME Structure, NEW user \in Users, NEW bit \in BOOLEAN, NEW proof,
         FinalizeParticipantDeactivation(user, bit, proof)
  PROVE  Structure'
<1>1. pendingDeactivations' \in [Users -> Requests]
  BY DEF FinalizeParticipantDeactivation, Structure, TypeOK, Requests
<1>2. CASE ~bit
  <2>1. UNCHANGED membership
    BY <1>2 DEF FinalizeParticipantDeactivation
  <2>2. MembershipConsistent'
    BY <2>1, MembershipFrame
  <2>3. QED
    BY <1>1, <2>1, <2>2
       DEF FinalizeParticipantDeactivation, Structure, TypeOK, token, position, eligible,
           reserve, eventNonces, activation, drawing, outcome, membership
<1>3. CASE bit
  <2>1. isParticipant[user] /\ RemoveParticipant(user)
    BY <1>3 DEF FinalizeParticipantDeactivation
  <2>2. /\ participants' \in Seq(Users)
        /\ isParticipant' \in [Users -> BOOLEAN]
        /\ participantIndexPlusOne' \in [Users -> Nat]
        /\ MembershipConsistent'
    BY <2>1, SwapAndPop
  <2>3. QED
    BY <1>1, <2>2
       DEF FinalizeParticipantDeactivation, Structure, TypeOK, token, position, eligible,
           reserve, eventNonces, activation, drawing, outcome
<1>4. QED
  BY <1>2, <1>3

LEMMA StructureStep == Structure /\ [Next]_vars => Structure'
<1> SUFFICES ASSUME Structure, [Next]_vars PROVE Structure'
  OBVIOUS
<1> USE DEF Structure
<1>1. CASE UNCHANGED vars
  BY <1>1 DEF TypeOK, MembershipConsistent, vars, token, position, eligible, reserve,
              membership, eventNonces, activation, deactivation, drawing, outcome
<1>2. ASSUME NEW user \in Users, UserStep(user) PROVE Structure'
  <2>1. ASSUME NEW amount \in Amounts, NEW action \in {"deposit", "prizeReserve"},
               ConfidentialTransferAndCall(user, amount, action)
        PROVE  Structure'
    <3>1. UNCHANGED membership
      BY <2>1 DEF ConfidentialTransferAndCall, OnConfidentialTransferReceived
    <3>2. QED
      BY <2>1, <3>1, DepositType, MembershipFrame
  <2>2. ASSUME NEW action \in {"deposit", "prizeReserve", "other"},
               RefundedTransfer(user, action)
        PROVE  Structure'
    BY <1>1, <2>2 DEF RefundedTransfer
  <2>3. ASSUME NEW requested \in Amounts, Withdraw(user, requested) PROVE Structure'
    <3>1. UNCHANGED membership
      BY <2>3 DEF Withdraw
    <3>2. QED
      BY <2>3, <3>1, AmountTypes, WithdrawType, MembershipFrame
  <2>4. ASSUME RequestDeactivation(user) \/ CompoundPrizes(user) PROVE Structure'
    <3>1. UNCHANGED membership
      BY <2>4 DEF RequestDeactivation, CompoundPrizes
    <3>2. QED
      BY <2>4, <3>1, UserStepsType, MembershipFrame
  <2>5. QED
    BY <1>2, <2>1, <2>2, <2>3, <2>4 DEF UserStep
<1>3. ASSUME NEW proof \in decryptable, KeeperStep(proof) PROVE Structure'
  <2>1. ASSUME NEW user \in Users, NEW bit \in BOOLEAN,
               \/ FinalizeParticipantActivation(user, bit, proof)
               \/ FinalizeParticipantDeactivation(user, bit, proof)
        PROVE  Structure'
    BY <2>1, ActivationStructure, DeactivationStructure
  <2>2. ASSUME NEW random \in Euint64s, SkipDraw(proof) \/ ExecuteDraw(proof, random)
        PROVE  Structure'
    <3>1. UNCHANGED membership
      BY <2>2 DEF SkipDraw, ExecuteDraw, SettleRequest
    <3>2. QED
      BY <2>2, <3>1, SettleType, MembershipFrame
  <2>3. QED
    BY <1>3, <2>1, <2>2, EuintTypes DEF KeeperStep
<1>4. ASSUME NEW p \in BOOLEAN, RequestDraw \/ CancelDraw \/ SetPaused(p) \/ Tick
      PROVE  Structure'
  <2>1. UNCHANGED membership
    BY <1>4 DEF RequestDraw, CancelDraw, SetPaused, Tick
  <2>2. TypeOK'
    BY <1>4, RequestDrawType, PoolStepsType
  <2>3. QED
    BY <2>1, <2>2, MembershipFrame
<1>5. QED
  BY <1>1, <1>2, <1>3, <1>4 DEF Next

THEOREM StructureAlways == Spec => []Structure
<1>1. Init => Structure
  BY InitStructure
<1>2. Structure /\ [Next]_vars => Structure'
  BY StructureStep
<1>3. QED
  BY <1>1, <1>2, PTL DEF Spec

\* No sequence of calls, of any length, puts a value of the wrong kind in a
\* storage slot: no negative token balance, no index or handle out of nothing.
THEOREM TypeCorrect == Spec => []TypeOK
<1>1. Structure => TypeOK
  BY DEF Structure
<1>2. QED
  BY <1>1, StructureAlways, PTL

\* The participant array, the flag and the index map agree after every
\* admission and every swap-and-pop removal, whatever the capacity.
THEOREM MembershipAlwaysConsistent == Spec => []MembershipConsistent
<1>1. Structure => MembershipConsistent
  BY DEF Structure
<1>2. QED
  BY <1>1, StructureAlways, PTL

-----------------------------------------------------------------------------
(* Requests and the proofs of the KMS *)

\* The strengthening of RequestsAreFresh: every handle in circulation, and
\* every pending request, was numbered by its counter, so that a new handle is
\* never one the KMS has already signed another bit for.
Numbered ==
  /\ \A u \in Users :
       /\ pendingActivations[u] < participantActivationNonces[u]
       /\ pendingDeactivations[u] < participantDeactivationNonces[u]
  /\ \A p \in decryptable : \A n \in Nat :
       /\ \A u \in Users :
            /\ p.handle = EligibilityHandle(u, n) => n < participantActivationNonces[u]
            /\ p.handle = ZeroBalanceHandle(u, n) => n < participantDeactivationNonces[u]
       /\ p.handle = ReadinessHandle(n) => n < drawRequestNonce

\* RequestsAreFresh and NoStrandedSavings, for one user.
Fresh(u) ==
  /\ pendingActivations[u] # None =>
       /\ ~isParticipant[u]
       /\ \A p \in decryptable :
            p.handle = EligibilityHandle(u, pendingActivations[u])
              => p.bit = (balances[u] > 0)
  /\ pendingDeactivations[u] # None =>
       /\ isParticipant[u]
       /\ \A p \in decryptable :
            p.handle = ZeroBalanceHandle(u, pendingDeactivations[u])
              => p.bit = (balances[u] = 0)
  /\ balances[u] > 0 /\ ~isParticipant[u] =>
       /\ pendingActivations[u] # None
       /\ \E p \in decryptable :
            CheckSignatures(EligibilityHandle(u, pendingActivations[u]), TRUE, p)

RequestInv == Structure /\ Numbered /\ \A u \in Users : Fresh(u)

LEMMA HandlesDistinct ==
  ASSUME NEW u \in Users, NEW v \in Users, NEW n, NEW m
  PROVE  /\ EligibilityHandle(u, n) = EligibilityHandle(v, m) <=> u = v /\ n = m
         /\ ZeroBalanceHandle(u, n) = ZeroBalanceHandle(v, m) <=> u = v /\ n = m
         /\ EligibilityHandle(u, n) # ZeroBalanceHandle(v, m)
         /\ ReadinessHandle(n) = ReadinessHandle(m) <=> n = m
         /\ ReadinessHandle(n) # EligibilityHandle(u, m)
         /\ ReadinessHandle(n) # ZeroBalanceHandle(u, m)
BY DEF EligibilityHandle, ZeroBalanceHandle, ReadinessHandle

LEMMA Publishing ==
  ASSUME NEW handle, NEW bit, MakePubliclyDecryptable(handle, bit)
  PROVE  /\ decryptable \subseteq decryptable'
         /\ [handle |-> handle, bit |-> bit] \in decryptable'
         /\ \A p \in decryptable' :
              p \in decryptable \/ (p.handle = handle /\ p.bit = bit)
BY DEF MakePubliclyDecryptable

LEMMA CounterTypes ==
  ASSUME Structure, NEW u \in Users
  PROVE  /\ participantActivationNonces[u] \in Nat
         /\ participantDeactivationNonces[u] \in Nat
         /\ pendingActivations[u] \in Int /\ pendingDeactivations[u] \in Int
         /\ pendingActivations[u] # None => pendingActivations[u] \in Nat
         /\ pendingDeactivations[u] # None => pendingDeactivations[u] \in Nat
         /\ balances[u] \in Nat /\ isParticipant[u] \in BOOLEAN
         /\ drawRequestNonce \in Nat
<1>1. /\ pendingActivations[u] \in Requests /\ pendingDeactivations[u] \in Requests
      /\ balances[u] \in Euint64s
  BY DEF Structure, TypeOK
<1>2. QED
  BY <1>1, EuintTypes DEF Structure, TypeOK, Requests, None, Nonces

-----------------------------------------------------------------------------
(* How one step treats one user.  Each action is an instance of these.      *)

\* Proofs that become available say nothing about what u has pending.
LEMMA Unaffected ==
  ASSUME RequestInv, NEW u \in Users,
         balances'[u] = balances[u],
         isParticipant'[u] = isParticipant[u],
         pendingActivations'[u] = pendingActivations[u],
         pendingDeactivations'[u] = pendingDeactivations[u],
         decryptable \subseteq decryptable',
         \A p \in decryptable' : p \in decryptable
           \/ \A n \in Nat : /\ p.handle # EligibilityHandle(u, n)
                             /\ p.handle # ZeroBalanceHandle(u, n)
  PROVE  Fresh(u)'
<1>1. /\ pendingActivations[u] # None => pendingActivations[u] \in Nat
      /\ pendingDeactivations[u] # None => pendingDeactivations[u] \in Nat
  BY CounterTypes DEF RequestInv
<1>2. QED
  BY <1>1 DEF RequestInv, Fresh, CheckSignatures

LEMMA ActivationRequested ==
  ASSUME RequestInv, NEW u \in Users,
         balances'[u] \in Nat,
         ~isParticipant[u], isParticipant' = isParticipant,
         pendingDeactivations' = pendingDeactivations,
         RequestParticipantActivation(u)
  PROVE  Fresh(u)'
<1> DEFINE nonce == participantActivationNonces[u]
<1>1. nonce \in Nat /\ nonce # None
  BY CounterTypes DEF RequestInv, None
<1>2. pendingActivations'[u] = nonce
  BY DEF RequestParticipantActivation, RequestInv, Structure, TypeOK
<1>3. /\ [handle |-> EligibilityHandle(u, nonce), bit |-> balances'[u] > 0] \in decryptable'
      /\ \A p \in decryptable' :
           p \in decryptable
             \/ (p.handle = EligibilityHandle(u, nonce) /\ p.bit = (balances'[u] > 0))
  BY Publishing DEF RequestParticipantActivation
<1>4. \A p \in decryptable : p.handle # EligibilityHandle(u, nonce)
  BY <1>1 DEF RequestInv, Numbered
<1>5. pendingDeactivations'[u] = None
  BY DEF RequestInv, Fresh
<1>6. \A p \in decryptable' :
        p.handle = EligibilityHandle(u, nonce) => p.bit = (balances'[u] > 0)
  BY <1>3, <1>4
<1>7. balances'[u] > 0 =>
        \E p \in decryptable' : CheckSignatures(EligibilityHandle(u, nonce), TRUE, p)
  BY <1>3 DEF CheckSignatures
<1>8. QED
  BY <1>1, <1>2, <1>5, <1>6, <1>7 DEF Fresh, CheckSignatures, EligibilityHandle

LEMMA DeactivationRequested ==
  ASSUME RequestInv, NEW u \in Users,
         isParticipant[u], isParticipant' = isParticipant,
         pendingActivations' = pendingActivations,
         RequestParticipantDeactivation(u)
  PROVE  Fresh(u)'
<1> DEFINE nonce == participantDeactivationNonces[u]
<1>1. nonce \in Nat /\ nonce # None
  BY CounterTypes DEF RequestInv, None
<1>2. pendingDeactivations'[u] = nonce
  BY DEF RequestParticipantDeactivation, RequestInv, Structure, TypeOK
<1>3. \A p \in decryptable' :
        p \in decryptable
          \/ (p.handle = ZeroBalanceHandle(u, nonce) /\ p.bit = (balances'[u] = 0))
  BY Publishing DEF RequestParticipantDeactivation
<1>4. \A p \in decryptable : p.handle # ZeroBalanceHandle(u, nonce)
  BY <1>1 DEF RequestInv, Numbered
<1>5. pendingActivations'[u] = None
  BY DEF RequestInv, Fresh
<1>6. QED
  BY <1>1, <1>2, <1>3, <1>4, <1>5 DEF Fresh

LEMMA NothingPending ==
  ASSUME NEW u \in Users,
         pendingActivations'[u] = None, pendingDeactivations'[u] = None,
         isParticipant'[u] \/ balances'[u] = 0
  PROVE  Fresh(u)'
BY DEF Fresh

-----------------------------------------------------------------------------
(* Numbering *)

LEMMA NumberedWithoutProofs ==
  ASSUME RequestInv, UNCHANGED decryptable,
         participantActivationNonces' = participantActivationNonces,
         participantDeactivationNonces' = participantDeactivationNonces,
         drawRequestNonce' = drawRequestNonce,
         \A u \in Users :
           /\ pendingActivations'[u] \in {None, pendingActivations[u]}
           /\ pendingDeactivations'[u] \in {None, pendingDeactivations[u]}
  PROVE  Numbered'
<1>1. \A u \in Users : None < participantActivationNonces[u]
                       /\ None < participantDeactivationNonces[u]
  BY CounterTypes DEF RequestInv, None
<1>2. QED
  BY <1>1 DEF RequestInv, Numbered

LEMMA NumberedActivation ==
  ASSUME RequestInv, NEW user \in Users, RequestParticipantActivation(user),
         UNCHANGED deactivation, drawRequestNonce' = drawRequestNonce
  PROVE  Numbered'
<1> DEFINE nonce == participantActivationNonces[user]
<1>1. \A u \in Users : participantActivationNonces[u] \in Nat
  BY CounterTypes DEF RequestInv
<1>2. \A u \in Users :
        /\ participantActivationNonces'[u] = IF u = user THEN nonce + 1
                                             ELSE participantActivationNonces[u]
        /\ pendingActivations'[u] = IF u = user THEN nonce ELSE pendingActivations[u]
  BY DEF RequestParticipantActivation, RequestInv, Structure, TypeOK
<1>3. \A p \in decryptable' : p \in decryptable \/ p.handle = EligibilityHandle(user, nonce)
  BY Publishing DEF RequestParticipantActivation
<1>4. \A u \in Users : /\ pendingActivations'[u] < participantActivationNonces'[u]
                       /\ pendingDeactivations'[u] < participantDeactivationNonces'[u]
  BY <1>1, <1>2 DEF RequestInv, Numbered, deactivation
<1>5. ASSUME NEW p \in decryptable', NEW n \in Nat
      PROVE  /\ \A u \in Users :
                  /\ p.handle = EligibilityHandle(u, n) => n < participantActivationNonces'[u]
                  /\ p.handle = ZeroBalanceHandle(u, n) => n < participantDeactivationNonces'[u]
             /\ p.handle = ReadinessHandle(n) => n < drawRequestNonce'
  <2>1. CASE p \in decryptable
    BY <1>1, <1>2, <2>1 DEF RequestInv, Numbered, deactivation
  <2>2. CASE p.handle = EligibilityHandle(user, nonce)
    BY <1>1, <1>2, <2>2, HandlesDistinct
  <2>3. QED
    BY <1>3, <2>1, <2>2
<1>6. QED
  BY <1>4, <1>5 DEF Numbered

LEMMA NumberedDeactivation ==
  ASSUME RequestInv, NEW user \in Users, RequestParticipantDeactivation(user),
         UNCHANGED activation, drawRequestNonce' = drawRequestNonce
  PROVE  Numbered'
<1> DEFINE nonce == participantDeactivationNonces[user]
<1>1. \A u \in Users : participantDeactivationNonces[u] \in Nat
  BY CounterTypes DEF RequestInv
<1>2. \A u \in Users :
        /\ participantDeactivationNonces'[u] = IF u = user THEN nonce + 1
                                               ELSE participantDeactivationNonces[u]
        /\ pendingDeactivations'[u] = IF u = user THEN nonce ELSE pendingDeactivations[u]
  BY DEF RequestParticipantDeactivation, RequestInv, Structure, TypeOK
<1>3. \A p \in decryptable' : p \in decryptable \/ p.handle = ZeroBalanceHandle(user, nonce)
  BY Publishing DEF RequestParticipantDeactivation
<1>4. \A u \in Users : /\ pendingActivations'[u] < participantActivationNonces'[u]
                       /\ pendingDeactivations'[u] < participantDeactivationNonces'[u]
  BY <1>1, <1>2 DEF RequestInv, Numbered, activation
<1>5. ASSUME NEW p \in decryptable', NEW n \in Nat
      PROVE  /\ \A u \in Users :
                  /\ p.handle = EligibilityHandle(u, n) => n < participantActivationNonces'[u]
                  /\ p.handle = ZeroBalanceHandle(u, n) => n < participantDeactivationNonces'[u]
             /\ p.handle = ReadinessHandle(n) => n < drawRequestNonce'
  <2>1. CASE p \in decryptable
    BY <1>1, <1>2, <2>1 DEF RequestInv, Numbered, activation
  <2>2. CASE p.handle = ZeroBalanceHandle(user, nonce)
    BY <1>1, <1>2, <2>2, HandlesDistinct
  <2>3. QED
    BY <1>3, <2>1, <2>2
<1>6. QED
  BY <1>4, <1>5 DEF Numbered

-----------------------------------------------------------------------------
(* The actions *)

LEMMA MembersAreParticipants ==
  ASSUME Structure
  PROVE  Members \subseteq Users /\ \A u \in Users : u \in Members <=> isParticipant[u]
<1>1. /\ participants \in Seq(Users)
      /\ DOMAIN participants = 1 .. Len(participants)
      /\ \A i \in 1 .. Len(participants) : participants[i] \in Users
  BY DEF Structure, TypeOK
<1>2. \A u \in Members : \E i \in 1 .. Len(participants) : participants[i] = u
  BY <1>1 DEF Members, Range
<1>3. ASSUME NEW u \in Users, isParticipant[u] PROVE u \in Members
  BY <1>1, <1>3 DEF Structure, MembershipConsistent, Members, Range
<1>4. ASSUME NEW u \in Members PROVE u \in Users /\ isParticipant[u]
  BY <1>1, <1>2 DEF Structure, MembershipConsistent
<1>5. QED
  BY <1>3, <1>4

\* A request for one user publishes nothing about another.
LEMMA OtherUsers ==
  ASSUME RequestInv, NEW user \in Users, NEW u \in Users, u # user,
         balances'[u] = balances[u], isParticipant' = isParticipant,
         \/ RequestParticipantActivation(user) /\ UNCHANGED deactivation
         \/ RequestParticipantDeactivation(user) /\ UNCHANGED activation
  PROVE  Fresh(u)'
<1>1. /\ pendingActivations'[u] = pendingActivations[u]
      /\ pendingDeactivations'[u] = pendingDeactivations[u]
  BY DEF RequestParticipantActivation, RequestParticipantDeactivation, activation,
         deactivation, RequestInv, Structure, TypeOK
<1>2. /\ decryptable \subseteq decryptable'
      /\ \A p \in decryptable' : p \in decryptable
           \/ \E n : \/ p.handle = EligibilityHandle(user, n)
                     \/ p.handle = ZeroBalanceHandle(user, n)
  <2>1. CASE RequestParticipantActivation(user)
    <3>1. MakePubliclyDecryptable(EligibilityHandle(user, participantActivationNonces[user]),
                                  balances'[user] > 0)
      BY <2>1 DEF RequestParticipantActivation
    <3>2. QED
      BY <3>1, Publishing
  <2>2. CASE RequestParticipantDeactivation(user)
    <3>1. MakePubliclyDecryptable(ZeroBalanceHandle(user, participantDeactivationNonces[user]),
                                  balances'[user] = 0)
      BY <2>2 DEF RequestParticipantDeactivation
    <3>2. QED
      BY <3>1, Publishing
  <2>3. QED
    BY <2>1, <2>2
<1>3. \A p \in decryptable' : p \in decryptable
        \/ \A n \in Nat : /\ p.handle # EligibilityHandle(u, n)
                          /\ p.handle # ZeroBalanceHandle(u, n)
  BY <1>2, HandlesDistinct
<1>4. QED
  BY <1>1, <1>2, <1>3, Unaffected

LEMMA SameForAll ==
  ASSUME RequestInv, UNCHANGED <<balances, isParticipant, activation, deactivation,
                                 decryptable, drawRequestNonce>>
  PROVE  Numbered' /\ \A u \in Users : Fresh(u)'
<1>1. Numbered'
  BY NumberedWithoutProofs DEF activation, deactivation
<1>2. QED
  BY <1>1, Unaffected DEF activation, deactivation

LEMMA DepositFresh ==
  ASSUME RequestInv, TypeOK', NEW user \in Users, NEW amount \in Amounts, NEW action,
         ConfidentialTransferAndCall(user, amount, action)
  PROVE  Numbered' /\ \A u \in Users : Fresh(u)'
<1>1. PICK moved \in {0, amount} : OnConfidentialTransferReceived(user, moved, action)
  BY DEF ConfidentialTransferAndCall
<1>2. UNCHANGED <<isParticipant, drawRequestNonce>>
  BY <1>1 DEF OnConfidentialTransferReceived, membership, drawing
<1>3. CASE CreditPrizeReserve(moved)
  BY <1>2, <1>3, SameForAll DEF CreditPrizeReserve, position
<1>4. CASE CreditDeposit(user, moved)
  <2>1. /\ balances' = [balances EXCEPT ![user] = Add(@, moved)]
        /\ balances'[user] \in Nat
        /\ \A u \in Users : u # user => balances'[u] = balances[u]
    BY <1>4, EuintTypes DEF CreditDeposit, RequestInv, Structure, TypeOK
  <2>2. CASE isParticipant[user]
    <3>1. /\ InvalidateParticipantDeactivations({user})
          /\ UNCHANGED <<activation, participantDeactivationNonces, decryptable>>
      BY <1>4, <2>2 DEF CreditDeposit
    <3>2. pendingDeactivations' =
            [u \in Users |-> IF u \in {user} THEN None ELSE pendingDeactivations[u]]
      BY <3>1 DEF InvalidateParticipantDeactivations
    <3>3. Numbered'
      BY <1>2, <3>1, <3>2, NumberedWithoutProofs DEF activation
    <3>4. Fresh(user)'
      <4>1. pendingActivations'[user] = None
        BY <2>2, <3>1 DEF RequestInv, Fresh, activation
      <4>2. QED
        BY <1>2, <2>2, <3>2, <4>1, NothingPending
    <3>5. ASSUME NEW u \in Users, u # user PROVE Fresh(u)'
      BY <1>2, <2>1, <3>1, <3>2, <3>5, Unaffected DEF activation
    <3>6. QED
      BY <3>3, <3>4, <3>5
  <2>3. CASE ~isParticipant[user]
    <3>1. RequestParticipantActivation(user) /\ UNCHANGED deactivation
      BY <1>4, <2>3 DEF CreditDeposit
    <3>2. Numbered'
      BY <1>2, <3>1, NumberedActivation
    <3>3. Fresh(user)'
      BY <1>2, <2>1, <2>3, <3>1, ActivationRequested DEF deactivation
    <3>4. ASSUME NEW u \in Users, u # user PROVE Fresh(u)'
      BY <1>2, <2>1, <3>1, <3>4, OtherUsers
    <3>5. QED
      BY <3>2, <3>3, <3>4
  <2>4. QED
    BY <2>2, <2>3
<1>5. QED
  BY <1>1, <1>3, <1>4 DEF OnConfidentialTransferReceived

LEMMA WithdrawFresh ==
  ASSUME RequestInv, TypeOK', NEW user \in Users, NEW requested \in Amounts,
         Withdraw(user, requested)
  PROVE  Numbered' /\ \A u \in Users : Fresh(u)'
<1>1. PICK transferred \in {0, Approved(user, requested)} :
        /\ balances' = [balances EXCEPT ![user] = Sub(@, transferred)]
        /\ \/ /\ isParticipant[user]
              /\ RequestParticipantDeactivation(user)
              /\ UNCHANGED activation
           \/ /\ ~isParticipant[user]
              /\ RequestParticipantActivation(user)
              /\ UNCHANGED deactivation
  BY DEF Withdraw
<1>2. UNCHANGED <<isParticipant, drawRequestNonce>>
  BY DEF Withdraw, membership, drawing
<1>3. /\ balances'[user] \in Nat
      /\ \A u \in Users : u # user => balances'[u] = balances[u]
  BY <1>1, EuintTypes DEF RequestInv, Structure, TypeOK
<1>4. Numbered'
  BY <1>1, <1>2, NumberedActivation, NumberedDeactivation
<1>5. Fresh(user)'
  BY <1>1, <1>2, <1>3, ActivationRequested, DeactivationRequested DEF activation, deactivation
<1>6. ASSUME NEW u \in Users, u # user PROVE Fresh(u)'
  BY <1>1, <1>2, <1>3, <1>6, OtherUsers
<1>7. QED
  BY <1>4, <1>5, <1>6

LEMMA RequestDeactivationFresh ==
  ASSUME RequestInv, NEW user \in Users, RequestDeactivation(user)
  PROVE  Numbered' /\ \A u \in Users : Fresh(u)'
<1>1. /\ isParticipant[user] /\ RequestParticipantDeactivation(user)
      /\ UNCHANGED <<activation, balances, isParticipant, drawRequestNonce>>
  BY DEF RequestDeactivation, position, membership, drawing
<1>2. Numbered'
  BY <1>1, NumberedDeactivation
<1>3. Fresh(user)'
  BY <1>1, DeactivationRequested DEF activation
<1>4. ASSUME NEW u \in Users, u # user PROVE Fresh(u)'
  BY <1>1, <1>4, OtherUsers
<1>5. QED
  BY <1>2, <1>3, <1>4

\* A proof that is accepted carries the bit of the balance the position has.
LEMMA ActivationFresh ==
  ASSUME RequestInv, NEW user \in Users, NEW bit \in BOOLEAN, NEW proof \in decryptable,
         FinalizeParticipantActivation(user, bit, proof)
  PROVE  /\ bit = (balances[user] > 0)
         /\ Numbered' /\ \A u \in Users : Fresh(u)'
<1>1. /\ ~isParticipant[user] /\ pendingActivations[user] # None
      /\ proof.handle = EligibilityHandle(user, pendingActivations[user])
      /\ proof.bit = bit
      /\ pendingActivations' = [pendingActivations EXCEPT ![user] = None]
      /\ UNCHANGED <<balances, decryptable, participantActivationNonces, deactivation,
                     drawRequestNonce>>
  BY DEF FinalizeParticipantActivation, CheckSignatures, position, drawing
<1>2. bit = (balances[user] > 0)
  BY <1>1 DEF RequestInv, Fresh
<1>3. \A u \in Users : pendingActivations'[u] = IF u = user THEN None ELSE pendingActivations[u]
  BY <1>1 DEF RequestInv, Structure, TypeOK
<1>4. Numbered'
  BY <1>1, <1>3, NumberedWithoutProofs DEF deactivation
<1>5. \A u \in Users : isParticipant'[u] = IF u = user /\ bit THEN TRUE ELSE isParticipant[u]
  BY DEF FinalizeParticipantActivation, membership, RequestInv, Structure, TypeOK
<1>6. Fresh(user)'
  <2>1. pendingDeactivations'[user] = None
    BY <1>1 DEF RequestInv, Fresh, deactivation
  <2>2. isParticipant'[user] \/ balances'[user] = 0
    <3>1. balances[user] \in Nat
      BY CounterTypes DEF RequestInv
    <3>2. CASE bit
      BY <1>5, <3>2
    <3>3. CASE ~bit
      <4>1. ~(balances[user] > 0)
        BY <1>2, <3>3
      <4>2. balances'[user] = balances[user]
        BY <1>1
      <4>3. QED
        BY <3>1, <4>1, <4>2
    <3>4. QED
      BY <3>2, <3>3
  <2>3. QED
    BY <1>3, <2>1, <2>2, NothingPending
<1>7. ASSUME NEW u \in Users, u # user PROVE Fresh(u)'
  BY <1>1, <1>3, <1>5, <1>7, Unaffected DEF deactivation
<1>8. QED
  BY <1>2, <1>4, <1>6, <1>7

LEMMA DeactivationFresh ==
  ASSUME RequestInv, NEW user \in Users, NEW bit \in BOOLEAN, NEW proof \in decryptable,
         FinalizeParticipantDeactivation(user, bit, proof)
  PROVE  /\ bit = (balances[user] = 0)
         /\ Numbered' /\ \A u \in Users : Fresh(u)'
<1>1. /\ isParticipant[user] /\ pendingDeactivations[user] # None
      /\ proof.handle = ZeroBalanceHandle(user, pendingDeactivations[user])
      /\ proof.bit = bit
      /\ pendingDeactivations' = [pendingDeactivations EXCEPT ![user] = None]
      /\ UNCHANGED <<balances, decryptable, participantDeactivationNonces, activation,
                     drawRequestNonce>>
  BY DEF FinalizeParticipantDeactivation, CheckSignatures, position, drawing
<1>2. bit = (balances[user] = 0)
  BY <1>1 DEF RequestInv, Fresh
<1>3. \A u \in Users :
        pendingDeactivations'[u] = IF u = user THEN None ELSE pendingDeactivations[u]
  BY <1>1 DEF RequestInv, Structure, TypeOK
<1>4. Numbered'
  BY <1>1, <1>3, NumberedWithoutProofs DEF activation
<1>5. \A u \in Users : isParticipant'[u] = IF u = user /\ bit THEN FALSE ELSE isParticipant[u]
  BY DEF FinalizeParticipantDeactivation, RemoveParticipant, membership, RequestInv,
         Structure, TypeOK
<1>6. Fresh(user)'
  <2>1. pendingActivations'[user] = None
    BY <1>1 DEF RequestInv, Fresh, activation
  <2>2. isParticipant'[user] \/ balances'[user] = 0
    BY <1>1, <1>2, <1>5
  <2>3. QED
    BY <1>3, <2>1, <2>2, NothingPending
<1>7. ASSUME NEW u \in Users, u # user PROVE Fresh(u)'
  BY <1>1, <1>3, <1>5, <1>7, Unaffected DEF activation
<1>8. QED
  BY <1>2, <1>4, <1>6, <1>7

LEMMA RequestDrawFresh ==
  ASSUME RequestInv, RequestDraw
  PROVE  Numbered' /\ \A u \in Users : Fresh(u)'
<1>1. /\ drawRequestNonce' = drawRequestNonce + 1
      /\ UNCHANGED <<activation, deactivation, balances, isParticipant>>
      /\ MakePubliclyDecryptable(ReadinessHandle(drawRequestNonce), Ready)
  BY DEF RequestDraw, position, membership
<1>2. drawRequestNonce \in Nat
  BY DEF RequestInv, Structure, TypeOK, Nonces
<1>3. /\ decryptable \subseteq decryptable'
      /\ \A p \in decryptable' :
           p \in decryptable \/ p.handle = ReadinessHandle(drawRequestNonce)
  BY <1>1, Publishing
<1>4. \A u \in Users : Fresh(u)'
  BY <1>1, <1>3, HandlesDistinct, Unaffected DEF activation, deactivation
<1>5. ASSUME NEW p \in decryptable', NEW n \in Nat
      PROVE  /\ \A u \in Users :
                  /\ p.handle = EligibilityHandle(u, n) => n < participantActivationNonces'[u]
                  /\ p.handle = ZeroBalanceHandle(u, n) => n < participantDeactivationNonces'[u]
             /\ p.handle = ReadinessHandle(n) => n < drawRequestNonce'
  <2>1. CASE p \in decryptable
    BY <1>1, <1>2, <2>1 DEF RequestInv, Numbered, activation, deactivation
  <2>2. CASE p.handle = ReadinessHandle(drawRequestNonce)
    <3>1. \A u \in Users : /\ p.handle # EligibilityHandle(u, n)
                           /\ p.handle # ZeroBalanceHandle(u, n)
      BY <2>2, HandlesDistinct
    <3>2. p.handle = ReadinessHandle(n) => n = drawRequestNonce
      BY <2>2 DEF ReadinessHandle
    <3>3. QED
      BY <1>1, <1>2, <3>1, <3>2
  <2>3. QED
    BY <1>3, <2>1, <2>2
<1>6. Numbered'
  BY <1>1, <1>5 DEF RequestInv, Numbered, activation, deactivation
<1>7. QED
  BY <1>4, <1>6

LEMMA ExecuteDrawFresh ==
  ASSUME RequestInv, NEW proof, NEW random \in Euint64s, ExecuteDraw(proof, random)
  PROVE  Numbered' /\ \A u \in Users : Fresh(u)'
<1> DEFINE ticket  == SampleWeightedTicket(random, pendingDraw.total)
           weights == [i \in 1 .. Len(participants) |-> drawWeights[participants[i]]]
           winners == {participants[i] :
                         i \in {j \in 1 .. Len(participants) : IsWinner(weights, ticket, j)}}
           Award(u) == IF u \in winners THEN PrizeAmount ELSE 0
<1>1. /\ InvalidateParticipantDeactivations(Members)
      /\ balances' = [u \in Users |-> Add(balances[u], Award(u))]
      /\ UNCHANGED <<isParticipant, activation, participantDeactivationNonces, decryptable,
                     drawRequestNonce>>
  BY DEF ExecuteDraw, SettleRequest, membership
<1>2. winners \subseteq Members
  <2>1. DOMAIN participants = 1 .. Len(participants)
    BY DEF RequestInv, Structure, TypeOK
  <2>2. QED
    BY <2>1 DEF Members, Range
<1>3. \A u \in Users : u \in Members <=> isParticipant[u]
  BY MembersAreParticipants DEF RequestInv
<1>4. \A u \in Users : u \notin Members => Award(u) = 0
  BY <1>2
<1> HIDE DEF Award
<1>5. ASSUME NEW u \in Users, u \notin Members PROVE balances'[u] = balances[u]
  <2>1. balances[u] \in Euint64s
    BY DEF RequestInv, Structure, TypeOK
  <2>2. balances[u] \in Int /\ balances[u] < Modulus
    BY <2>1, ModulusAssumption DEF Euint64s
  <2>3. Add(balances[u], 0) = balances[u]
    BY <2>1, <2>2, EuintTypes, ArithmeticExact
  <2>4. QED
    BY <1>1, <1>4, <1>5, <2>3
<1>6. \A u \in Users :
        pendingDeactivations'[u] = IF u \in Members THEN None ELSE pendingDeactivations[u]
  BY <1>1 DEF InvalidateParticipantDeactivations
<1>7. Numbered'
  BY <1>1, <1>6, NumberedWithoutProofs DEF activation
<1>8. ASSUME NEW u \in Users, u \in Members PROVE Fresh(u)'
  <2>1. isParticipant[u] /\ pendingActivations[u] = None
    BY <1>3, <1>8 DEF RequestInv, Fresh
  <2>2. QED
    BY <1>1, <1>6, <1>8, <2>1, NothingPending DEF activation
<1>9. ASSUME NEW u \in Users, u \notin Members PROVE Fresh(u)'
  BY <1>1, <1>5, <1>6, <1>9, Unaffected DEF activation
<1>10. QED
  BY <1>7, <1>8, <1>9

LEMMA InitRequests == Init => RequestInv
<1> SUFFICES ASSUME Init PROVE RequestInv
  OBVIOUS
<1>1. \A u \in Users : Fresh(u)
  BY DEF Init, Fresh
<1>2. Numbered
  BY DEF Init, Numbered, None
<1>3. QED
  BY <1>1, <1>2, InitStructure DEF RequestInv

LEMMA RequestStep == RequestInv /\ [Next]_vars => RequestInv'
<1> SUFFICES ASSUME RequestInv, [Next]_vars
             PROVE  Numbered' /\ \A u \in Users : Fresh(u)'
  BY StructureStep DEF RequestInv
<1>1. TypeOK'
  BY StructureStep DEF RequestInv, Structure
<1>2. CASE UNCHANGED vars
  BY <1>2, SameForAll DEF vars, position, membership, drawing
<1>3. ASSUME NEW user \in Users, UserStep(user)
      PROVE  Numbered' /\ \A u \in Users : Fresh(u)'
  <2>1. ASSUME NEW amount \in Amounts, NEW action \in {"deposit", "prizeReserve"},
               ConfidentialTransferAndCall(user, amount, action)
        PROVE  Numbered' /\ \A u \in Users : Fresh(u)'
    BY <1>1, <2>1, DepositFresh
  <2>2. ASSUME NEW action \in {"deposit", "prizeReserve", "other"},
               RefundedTransfer(user, action)
        PROVE  Numbered' /\ \A u \in Users : Fresh(u)'
    BY <1>2, <2>2 DEF RefundedTransfer
  <2>3. ASSUME NEW requested \in Amounts, Withdraw(user, requested)
        PROVE  Numbered' /\ \A u \in Users : Fresh(u)'
    BY <1>1, <2>3, WithdrawFresh
  <2>4. CASE RequestDeactivation(user)
    BY <2>4, RequestDeactivationFresh
  <2>5. CASE CompoundPrizes(user)
    BY <2>5, SameForAll DEF CompoundPrizes, membership, drawing
  <2>6. QED
    BY <1>3, <2>1, <2>2, <2>3, <2>4, <2>5 DEF UserStep
<1>4. ASSUME NEW proof \in decryptable, KeeperStep(proof)
      PROVE  Numbered' /\ \A u \in Users : Fresh(u)'
  <2>1. ASSUME NEW user \in Users, NEW bit \in BOOLEAN,
               \/ FinalizeParticipantActivation(user, bit, proof)
               \/ FinalizeParticipantDeactivation(user, bit, proof)
        PROVE  Numbered' /\ \A u \in Users : Fresh(u)'
    BY <2>1, ActivationFresh, DeactivationFresh
  <2>2. CASE SkipDraw(proof)
    BY <2>2, SameForAll DEF SkipDraw, SettleRequest, membership, deactivation
  <2>3. ASSUME NEW random \in Euint64s, ExecuteDraw(proof, random)
        PROVE  Numbered' /\ \A u \in Users : Fresh(u)'
    BY <2>3, ExecuteDrawFresh
  <2>4. QED
    BY <1>4, <2>1, <2>2, <2>3 DEF KeeperStep
<1>5. CASE RequestDraw
  BY <1>5, RequestDrawFresh
<1>6. ASSUME NEW p \in BOOLEAN, CancelDraw \/ SetPaused(p) \/ Tick
      PROVE  Numbered' /\ \A u \in Users : Fresh(u)'
  BY <1>6, SameForAll DEF CancelDraw, SetPaused, Tick, position, membership, drawing
<1>7. QED
  BY <1>2, <1>3, <1>4, <1>5, <1>6 DEF Next

THEOREM RequestsAlways == Spec => []RequestInv
<1>1. QED
  BY InitRequests, RequestStep, PTL DEF Spec

\* For any number of users, proofs and interleavings: the only proofs the pool
\* will still accept are about the balance the position has now.
THEOREM RequestsAlwaysFresh == Spec => []RequestsAreFresh
<1>1. RequestInv => RequestsAreFresh
  BY DEF RequestInv, Fresh, RequestsAreFresh
<1>2. QED
  BY <1>1, RequestsAlways, PTL

\* Savings outside the draw always have a request anyone can finalize.
THEOREM SavingsNeverStranded == Spec => []NoStrandedSavings
<1>1. RequestInv => NoStrandedSavings
  BY DEF RequestInv, Fresh, NoStrandedSavings
<1>2. QED
  BY <1>1, RequestsAlways, PTL

\* Admission only with savings, removal only without: the action property
\* follows from the freshness of the request that the accepted proof is for.
THEOREM MembershipAlwaysFollowsSavings == Spec => MembershipFollowsSavings
<1> DEFINE Follows ==
      \A u \in Users :
        /\ ~isParticipant[u] /\ isParticipant'[u] => balances[u] > 0
        /\ isParticipant[u] /\ ~isParticipant'[u] => balances[u] = 0
<1>1. RequestInv /\ [Next]_vars => [Follows]_vars
  <2> SUFFICES ASSUME RequestInv, Next PROVE Follows
    OBVIOUS
  <2>1. ASSUME NEW user \in Users, UserStep(user) PROVE Follows
    <3>1. UNCHANGED isParticipant
      BY <2>1 DEF UserStep, ConfidentialTransferAndCall, OnConfidentialTransferReceived,
                  RefundedTransfer, Withdraw, RequestDeactivation, CompoundPrizes,
                  membership, vars
    <3>2. QED
      BY <3>1
  <2>2. ASSUME NEW proof \in decryptable, KeeperStep(proof) PROVE Follows
    <3>1. ASSUME NEW user \in Users, NEW bit \in BOOLEAN,
                 FinalizeParticipantActivation(user, bit, proof)
          PROVE  Follows
      <4>1. bit = (balances[user] > 0)
        BY <3>1, ActivationFresh
      <4>2. \A u \in Users : isParticipant'[u] = IF u = user /\ bit THEN TRUE ELSE isParticipant[u]
        BY <3>1 DEF FinalizeParticipantActivation, membership, RequestInv, Structure, TypeOK
      <4>3. QED
        BY <4>1, <4>2
    <3>2. ASSUME NEW user \in Users, NEW bit \in BOOLEAN,
                 FinalizeParticipantDeactivation(user, bit, proof)
          PROVE  Follows
      <4>1. bit = (balances[user] = 0)
        BY <3>2, DeactivationFresh
      <4>2. \A u \in Users : isParticipant'[u] = IF u = user /\ bit THEN FALSE ELSE isParticipant[u]
        BY <3>2 DEF FinalizeParticipantDeactivation, RemoveParticipant, membership,
                    RequestInv, Structure, TypeOK
      <4>3. QED
        BY <4>1, <4>2
    <3>3. ASSUME NEW random \in Euint64s, SkipDraw(proof) \/ ExecuteDraw(proof, random)
          PROVE  Follows
      BY <3>3 DEF SkipDraw, ExecuteDraw, SettleRequest, membership
    <3>4. QED
      BY <2>2, <3>1, <3>2, <3>3, EuintTypes DEF KeeperStep
  <2>3. ASSUME NEW p \in BOOLEAN, RequestDraw \/ CancelDraw \/ SetPaused(p) \/ Tick
        PROVE  Follows
    BY <2>3 DEF RequestDraw, CancelDraw, SetPaused, Tick, membership
  <2>4. QED
    BY <2>1, <2>2, <2>3 DEF Next
<1>2. QED
  BY <1>1, RequestsAlways, PTL DEF Spec, MembershipFollowsSavings

-----------------------------------------------------------------------------
(* Draws *)

\* However requests are cancelled, skipped or settled, the pool has paid at
\* most one prize per interval since its deployment.
CadenceInv ==
  /\ Structure
  /\ currentDrawId <= drawRequestNonce
  /\ pendingDraw.active => currentDrawId + 1 <= drawRequestNonce
  /\ drawRequestNonce * DrawInterval <= nextDrawRequestTimestamp
  /\ nextDrawRequestTimestamp <= now + DrawInterval

LEMMA CadenceStep == CadenceInv /\ [Next]_vars => CadenceInv'
<1> SUFFICES ASSUME CadenceInv, [Next]_vars PROVE CadenceInv'
  OBVIOUS
<1> DEFINE kept == <<pendingDraw, currentDrawId, drawRequestNonce,
                     nextDrawRequestTimestamp, now>>
<1>1. Structure'
  BY StructureStep DEF CadenceInv
<1>2. /\ drawRequestNonce \in Nat /\ currentDrawId \in Nat /\ now \in Nat
      /\ nextDrawRequestTimestamp \in Nat /\ pendingDraw.active \in BOOLEAN
      /\ DrawInterval \in Nat
  BY PoolAssumption DEF CadenceInv, Structure, TypeOK, Nonces, Draws
<1>3. CASE UNCHANGED kept
  BY <1>1, <1>3 DEF CadenceInv
<1>4. CASE RequestDraw
  <2>1. /\ ~pendingDraw.active /\ pendingDraw'.active
        /\ now >= nextDrawRequestTimestamp
        /\ drawRequestNonce' = drawRequestNonce + 1
        /\ nextDrawRequestTimestamp' = now + DrawInterval
        /\ UNCHANGED <<currentDrawId, now>>
    BY <1>4 DEF RequestDraw, outcome
  <2>2. (drawRequestNonce + 1) * DrawInterval = drawRequestNonce * DrawInterval + DrawInterval
    BY <1>2
  <2>3. QED
    BY <1>1, <1>2, <2>1, <2>2 DEF CadenceInv
<1>5. ASSUME NEW proof, NEW random \in Euint64s, SkipDraw(proof) \/ ExecuteDraw(proof, random)
      PROVE  CadenceInv'
  <2>1. /\ pendingDraw.active /\ ~pendingDraw'.active
        /\ currentDrawId' \in {currentDrawId, currentDrawId + 1}
        /\ UNCHANGED <<drawRequestNonce, nextDrawRequestTimestamp, now>>
    <3>1. SettleRequest(FALSE, proof) \/ SettleRequest(TRUE, proof)
      BY <1>5 DEF SkipDraw, ExecuteDraw
    <3>2. /\ pendingDraw.active /\ pendingDraw' = NoDraw
          /\ UNCHANGED <<drawRequestNonce, nextDrawRequestTimestamp, now>>
      BY <3>1 DEF SettleRequest
    <3>3. currentDrawId' \in {currentDrawId, currentDrawId + 1}
      BY <1>5 DEF SkipDraw, ExecuteDraw
    <3>4. QED
      BY <3>2, <3>3 DEF NoDraw
  <2>2. currentDrawId' <= drawRequestNonce'
    BY <1>2, <2>1 DEF CadenceInv
  <2>3. QED
    BY <1>1, <2>1, <2>2 DEF CadenceInv
<1>6. CASE CancelDraw
  <2>1. /\ ~pendingDraw'.active
        /\ UNCHANGED <<currentDrawId, drawRequestNonce, nextDrawRequestTimestamp, now>>
    BY <1>6 DEF CancelDraw, NoDraw, outcome
  <2>2. QED
    BY <1>1, <1>2, <2>1 DEF CadenceInv
<1>7. CASE Tick
  <2>1. /\ now' = now + 1
        /\ UNCHANGED <<pendingDraw, currentDrawId, drawRequestNonce, nextDrawRequestTimestamp>>
    BY <1>7 DEF Tick, drawing, outcome
  <2>2. QED
    BY <1>1, <1>2, <2>1 DEF CadenceInv
<1>8. ASSUME NEW user \in Users, UserStep(user) PROVE CadenceInv'
  <2>1. UNCHANGED kept
    BY <1>8 DEF UserStep, ConfidentialTransferAndCall, OnConfidentialTransferReceived,
                RefundedTransfer, Withdraw, RequestDeactivation, CompoundPrizes,
                drawing, outcome, vars
  <2>2. QED
    BY <1>3, <2>1
<1>9. ASSUME NEW proof, NEW user \in Users, NEW bit \in BOOLEAN,
             \/ FinalizeParticipantActivation(user, bit, proof)
             \/ FinalizeParticipantDeactivation(user, bit, proof)
      PROVE  CadenceInv'
  <2>1. UNCHANGED kept
    BY <1>9 DEF FinalizeParticipantActivation, FinalizeParticipantDeactivation,
                drawing, outcome
  <2>2. QED
    BY <1>3, <2>1
<1>10. ASSUME NEW p \in BOOLEAN, SetPaused(p) PROVE CadenceInv'
  BY <1>3, <1>10 DEF SetPaused, drawing, outcome
<1>11. CASE UNCHANGED vars
  BY <1>3, <1>11 DEF vars, drawing, outcome
<1>12. QED
  BY <1>4, <1>5, <1>6, <1>7, <1>8, <1>9, <1>10, <1>11, EuintTypes DEF Next, KeeperStep

\* See EmissionCapped.
THEOREM EmissionAlwaysCapped == Spec => []EmissionCapped
<1>1. Init => CadenceInv
  <2>1. ASSUME Init PROVE CadenceInv
    BY <2>1, InitStructure, PoolAssumption DEF Init, CadenceInv, NoDraw
  <2>2. QED
    BY <2>1
<1>2. CadenceInv => EmissionCapped
  <2>1. ASSUME CadenceInv PROVE EmissionCapped
    <3>1. /\ drawRequestNonce \in Nat /\ now \in Nat /\ DrawInterval \in Nat
          /\ nextDrawRequestTimestamp \in Nat
      BY <2>1, PoolAssumption DEF CadenceInv, Structure, TypeOK, Nonces
    <3>2. QED
      BY <2>1, <3>1 DEF CadenceInv, EmissionCapped
  <2>2. QED
    BY <2>1
<1>3. QED
  BY <1>1, <1>2, CadenceStep, PTL DEF Spec

\* A withdrawal never takes more than the position holds, so it cannot wrap.
LEMMA WithdrawShrinks ==
  ASSUME TypeOK, NEW user \in Users, NEW requested \in Amounts, Withdraw(user, requested)
  PROVE  \A u \in Users : balances'[u] <= balances[u]
<1>1. PICK transferred \in {0, Approved(user, requested)} :
        balances' = [balances EXCEPT ![user] = Sub(@, transferred)]
  BY DEF Withdraw
<1>2. \A u \in Users : balances[u] \in Euint64s /\ balances[u] \in Nat
  BY EuintTypes DEF TypeOK
<1>3. transferred \in Euint64s /\ transferred \in Nat /\ transferred <= balances[user]
  BY <1>2, AmountTypes, EuintTypes DEF Approved
<1>4. Sub(balances[user], transferred) = balances[user] - transferred
  BY <1>2, <1>3, ArithmeticExact
<1>5. \A u \in Users : balances'[u] = IF u = user THEN balances[user] - transferred ELSE balances[u]
  BY <1>1, <1>4 DEF TypeOK
<1>6. QED
  BY <1>2, <1>3, <1>5

\* The draw lock holds whatever is called, and in whatever order, between a
\* request and its settlement or cancellation.
THEOREM DrawAlwaysFreezes == Spec => DrawFreezes
<1> DEFINE Frozen == /\ participants' = participants
                     /\ drawWeights' = drawWeights
                     /\ prizeReserve' = prizeReserve
                     /\ \A u \in Users : balances'[u] <= balances[u]
           Kept   == UNCHANGED <<participants, drawWeights, prizeReserve, balances>>
           Freezes == pendingDraw.active /\ pendingDraw' = pendingDraw => Frozen
<1>1. TypeOK /\ [Next]_vars => [Freezes]_vars
  <2> SUFFICES ASSUME TypeOK, Next, pendingDraw.active, pendingDraw' = pendingDraw
               PROVE  Frozen
    OBVIOUS
  <2>1. \A u \in Users : balances[u] \in Nat
    BY EuintTypes DEF TypeOK
  <2>2. Kept => Frozen
    BY <2>1
  <2>3. pendingDraw' # NoDraw
    BY DEF NoDraw
  <2>4. ASSUME NEW user \in Users, UserStep(user) PROVE Frozen
    <3>1. ASSUME NEW requested \in Amounts, Withdraw(user, requested) PROVE Frozen
      BY <3>1, WithdrawShrinks DEF Withdraw, membership, drawing, reserve
    <3>2. ASSUME NEW amount \in Amounts, NEW action \in {"deposit", "prizeReserve"},
                 ConfidentialTransferAndCall(user, amount, action)
          PROVE  FALSE
      BY <3>2 DEF ConfidentialTransferAndCall, OnConfidentialTransferReceived, Accepts
    <3>3. CASE \/ RequestDeactivation(user) \/ CompoundPrizes(user)
               \/ \E action \in {"deposit", "prizeReserve", "other"} :
                    RefundedTransfer(user, action)
      BY <2>2, <3>3 DEF RequestDeactivation, CompoundPrizes, RefundedTransfer, vars,
                        position, membership, drawing, reserve
    <3>4. QED
      BY <2>4, <3>1, <3>2, <3>3 DEF UserStep
  <2>5. ASSUME NEW proof \in decryptable, KeeperStep(proof) PROVE FALSE
    BY <2>3, <2>5, EuintTypes
       DEF KeeperStep, FinalizeParticipantActivation, FinalizeParticipantDeactivation,
           SkipDraw, ExecuteDraw, SettleRequest
  <2>6. ~RequestDraw /\ ~CancelDraw
    BY <2>3 DEF RequestDraw, CancelDraw
  <2>7. ASSUME NEW p \in BOOLEAN, SetPaused(p) \/ Tick PROVE Frozen
    BY <2>2, <2>7 DEF SetPaused, Tick, position, membership, drawing, reserve
  <2>8. QED
    BY <2>4, <2>5, <2>6, <2>7 DEF Next
<1>2. QED
  BY <1>1, TypeCorrect, PTL DEF Spec, DrawFreezes

-----------------------------------------------------------------------------
(* Accounting: the invariant *)

\* Tokens only move between the users and the pool.
Conserved == custody + SumOver(wallet, Users) = Cardinality(Users) * WalletGrant

\* Every token the pool holds belongs to a position or to the reserve.
Backed ==
  /\ custody = SumOver(balances, Users) + prizeReserve
  /\ totalAccountedBalance = SumOver(balances, Users)

\* The strengthening that makes the accounting inductive: the encrypted totals
\* are sums of amounts that exist as tokens, so that no addition wraps and no
\* subtraction goes below zero; and a draw is only pending with participants.
SavingsInv ==
  /\ RequestInv
  /\ Conserved
  /\ Backed
  /\ EligibleTotalExact
  /\ PrizesWithinBalance
  /\ SnapshotConsistent
  /\ pendingDraw.active => participants # << >>

-----------------------------------------------------------------------------
(* Accounting: what the invariant bounds *)

LEMMA AddFits ==
  ASSUME NEW a \in Nat, NEW b \in Nat, a + b < Modulus
  PROVE  Add(a, b) = a + b
BY ModulusAssumption, ArithmeticExact DEF Euint64s

LEMMA SubFits ==
  ASSUME NEW a \in Nat, NEW b \in Nat, a < Modulus, b <= a
  PROVE  Sub(a, b) = a - b
BY ModulusAssumption, ArithmeticExact DEF Euint64s

LEMMA AmountsAreNaturals ==
  ASSUME TypeOK
  PROVE  /\ custody \in Nat
         /\ prizeReserve \in Nat /\ prizeReserve < Modulus
         /\ totalAccountedBalance \in Nat /\ totalEligibleBalance \in Nat
         /\ pendingDraw.total \in Nat /\ pendingDraw.total < Modulus
         /\ pendingDraw.active \in BOOLEAN
         /\ \A u \in Users : /\ wallet[u] \in Nat
                             /\ balances[u] \in Nat /\ balances[u] < Modulus
                             /\ prizes[u] \in Nat /\ drawWeights[u] \in Nat
<1>1. \A x \in Euint64s : x \in Nat /\ x < Modulus
  BY ModulusAssumption DEF Euint64s
<1>2. pendingDraw.total \in Euint64s /\ pendingDraw.active \in BOOLEAN
  BY DEF TypeOK, Draws
<1>3. QED
  BY <1>1, <1>2 DEF TypeOK

\* The sums over the users and over the participants are numbers.
LEMMA SumsAreNaturals ==
  ASSUME Structure
  PROVE  /\ IsFiniteSet(Users) /\ IsFiniteSet(Members) /\ Members \subseteq Users
         /\ SumOver(wallet, Users) \in Nat
         /\ SumOver(balances, Users) \in Nat
         /\ SumOver(balances, Members) \in Nat
         /\ SumOver(balances, Members) <= SumOver(balances, Users)
         /\ \A u \in Users : /\ wallet[u] <= SumOver(wallet, Users)
                             /\ balances[u] <= SumOver(balances, Users)
         /\ \A u \in Members : balances[u] <= SumOver(balances, Members)
<1>1. IsFiniteSet(Users) /\ IsFiniteSet(Members) /\ Members \subseteq Users
  BY PoolAssumption, MembersAreParticipants, FS_Subset
<1>2. \A u \in Users : wallet[u] \in Nat /\ balances[u] \in Nat
  BY AmountsAreNaturals DEF Structure
<1>3. /\ SumOver(wallet, Users) \in Nat
      /\ SumOver(balances, Users) \in Nat
  BY <1>1, <1>2, SumType DEF SumOver
<1>4. SumOver(balances, Members) \in Nat
  BY <1>1, <1>2, SumType DEF SumOver
<1>5. SumOver(balances, Members) <= SumOver(balances, Users)
  BY <1>1, <1>2, SumPart DEF SumOver
<1>6. \A u \in Users : wallet[u] <= SumOver(wallet, Users)
  BY <1>1, <1>2, SummandBelow DEF SumOver
<1>7. \A u \in Users : balances[u] <= SumOver(balances, Users)
  BY <1>1, <1>2, SummandBelow DEF SumOver
<1>8. \A u \in Members : balances[u] <= SumOver(balances, Members)
  BY <1>1, <1>2, SummandBelow DEF SumOver
<1>9. QED
  BY <1>1, <1>3, <1>4, <1>5, <1>6, <1>7, <1>8

\* No amount of tokens, wherever it is, leaves the width of a euint64.
LEMMA SupplyFits ==
  ASSUME SavingsInv
  PROVE  /\ custody < Modulus
         /\ \A u \in Users : wallet[u] + custody < Modulus
         /\ totalAccountedBalance + prizeReserve = custody
         /\ totalEligibleBalance <= totalAccountedBalance
         /\ \A u \in Users : balances[u] <= totalAccountedBalance
         /\ \A u \in Members : balances[u] <= totalEligibleBalance
<1>1. Structure /\ TypeOK
  BY DEF SavingsInv, RequestInv, Structure
<1> DEFINE held == SumOver(wallet, Users)
           owed == SumOver(balances, Users)
           supply == Cardinality(Users) * WalletGrant
<1>2. custody + held = supply /\ supply < Modulus
  BY PoolAssumption DEF SavingsInv, Conserved
<1>3. /\ custody = owed + prizeReserve /\ totalAccountedBalance = owed
      /\ totalEligibleBalance = SumOver(balances, Members)
  BY DEF SavingsInv, Backed, EligibleTotalExact
<1>4. supply \in Nat /\ Modulus \in Nat
  BY <1>1, PoolAssumption, FS_CardinalityType, ModulusAssumption
<1>5. /\ held \in Nat /\ owed \in Nat /\ custody \in Nat /\ prizeReserve \in Nat
      /\ \A u \in Users : wallet[u] \in Nat /\ wallet[u] <= held
  BY <1>1, SumsAreNaturals, AmountsAreNaturals
<1> HIDE DEF held, supply
<1>6. /\ custody < Modulus
      /\ \A u \in Users : wallet[u] + custody < Modulus
  BY <1>2, <1>4, <1>5
<1>7. /\ SumOver(balances, Members) <= owed
      /\ \A u \in Users : balances[u] <= owed
      /\ \A u \in Members : balances[u] <= SumOver(balances, Members)
  BY <1>1, SumsAreNaturals
<1> HIDE DEF owed
<1>8. totalAccountedBalance + prizeReserve = custody
  BY <1>3
<1>9. QED
  BY <1>3, <1>6, <1>7, <1>8

-----------------------------------------------------------------------------
(* Accounting: what each movement does, in the arithmetic of the integers *)

\* A transfer into the pool is savings or reserve, of the amount that moved.
LEMMA DepositEffect ==
  ASSUME SavingsInv, NEW user \in Users, NEW amount \in Amounts, NEW action,
         ConfidentialTransferAndCall(user, amount, action)
  PROVE  \E moved \in Nat :
           /\ ~pendingDraw.active
           /\ moved <= wallet[user]
           /\ wallet' = [wallet EXCEPT ![user] = wallet[user] - moved]
           /\ custody' = custody + moved
           /\ UNCHANGED <<prizes, membership, drawing>>
           /\ \/ /\ balances' = [balances EXCEPT ![user] = balances[user] + moved]
                 /\ totalAccountedBalance' = totalAccountedBalance + moved
                 /\ totalEligibleBalance' = IF isParticipant[user]
                                            THEN totalEligibleBalance + moved
                                            ELSE totalEligibleBalance
                 /\ prizeReserve' = prizeReserve
              \/ /\ prizeReserve' = prizeReserve + moved
                 /\ UNCHANGED <<balances, totalAccountedBalance, totalEligibleBalance>>
<1>1. Structure /\ TypeOK
  BY DEF SavingsInv, RequestInv, Structure
<1>2. PICK moved \in {0, amount} :
        /\ moved <= wallet[user]
        /\ OnConfidentialTransferReceived(user, moved, action)
        /\ wallet' = [wallet EXCEPT ![user] = wallet[user] - moved]
        /\ custody' = custody + moved
  BY DEF ConfidentialTransferAndCall
<1>3. moved \in Nat
  BY AmountTypes
<1>4. /\ wallet[user] \in Nat /\ balances[user] \in Nat /\ custody \in Nat
      /\ prizeReserve \in Nat /\ totalAccountedBalance \in Nat /\ totalEligibleBalance \in Nat
  BY <1>1, AmountsAreNaturals
<1>5. /\ wallet[user] + custody < Modulus
      /\ totalAccountedBalance + prizeReserve = custody
      /\ totalEligibleBalance <= totalAccountedBalance
      /\ balances[user] <= totalAccountedBalance
  BY SupplyFits
<1>6. Modulus \in Nat
  BY ModulusAssumption
<1>7. /\ balances[user] + moved < Modulus
      /\ totalAccountedBalance + moved < Modulus
      /\ totalEligibleBalance + moved < Modulus
      /\ prizeReserve + moved < Modulus
  BY <1>2, <1>3, <1>4, <1>5, <1>6
<1>8. /\ Add(balances[user], moved) = balances[user] + moved
      /\ Add(totalAccountedBalance, moved) = totalAccountedBalance + moved
      /\ Add(totalEligibleBalance, moved) = totalEligibleBalance + moved
      /\ Add(prizeReserve, moved) = prizeReserve + moved
  BY <1>3, <1>4, <1>7, AddFits
<1>9. /\ ~pendingDraw.active
      /\ UNCHANGED <<membership, drawing>>
      /\ CreditDeposit(user, moved) \/ CreditPrizeReserve(moved)
  BY <1>2 DEF OnConfidentialTransferReceived, Accepts
<1>10. CASE CreditDeposit(user, moved)
  <2>1. /\ balances' = [balances EXCEPT ![user] = balances[user] + moved]
        /\ totalAccountedBalance' = totalAccountedBalance + moved
        /\ UNCHANGED <<prizes, prizeReserve>>
    BY <1>8, <1>10 DEF CreditDeposit, reserve
  <2>2. totalEligibleBalance' = IF isParticipant[user] THEN totalEligibleBalance + moved
                                                        ELSE totalEligibleBalance
    BY <1>8, <1>10 DEF CreditDeposit
  <2>3. QED
    BY <1>2, <1>3, <1>9, <2>1, <2>2
<1>11. CASE CreditPrizeReserve(moved)
  <2>1. /\ prizeReserve' = prizeReserve + moved
        /\ UNCHANGED <<prizes, balances, totalAccountedBalance, totalEligibleBalance>>
    BY <1>8, <1>11 DEF CreditPrizeReserve, position, eligible
  <2>2. QED
    BY <1>2, <1>3, <1>9, <2>1
<1>12. QED
  BY <1>9, <1>10, <1>11

\* A withdrawal moves no more than the position and the pool hold.
LEMMA WithdrawEffect ==
  ASSUME SavingsInv, NEW user \in Users, NEW requested \in Amounts, Withdraw(user, requested)
  PROVE  \E taken \in Nat :
           /\ taken <= balances[user] /\ taken <= custody
           /\ isParticipant[user] => taken <= totalEligibleBalance
           /\ wallet' = [wallet EXCEPT ![user] = wallet[user] + taken]
           /\ custody' = custody - taken
           /\ balances' = [balances EXCEPT ![user] = balances[user] - taken]
           /\ prizes' = [prizes EXCEPT ![user] =
                           prizes[user] - (IF prizes[user] <= taken THEN prizes[user] ELSE taken)]
           /\ totalAccountedBalance' = totalAccountedBalance - taken
           /\ totalEligibleBalance' = IF isParticipant[user]
                                      THEN totalEligibleBalance - taken
                                      ELSE totalEligibleBalance
           /\ UNCHANGED <<prizeReserve, membership, drawing>>
<1>1. Structure /\ TypeOK
  BY DEF SavingsInv, RequestInv, Structure
<1>2. PICK taken \in {0, Approved(user, requested)} :
        /\ ConfidentialTransfer(user, taken)
        /\ balances' = [balances EXCEPT ![user] = Sub(balances[user], taken)]
        /\ prizes' = [prizes EXCEPT ![user] =
                        Sub(prizes[user], Smaller(prizes[user], taken))]
        /\ totalAccountedBalance' = Sub(totalAccountedBalance, taken)
        /\ totalEligibleBalance' = IF isParticipant[user] THEN Sub(totalEligibleBalance, taken)
                                                          ELSE totalEligibleBalance
  BY DEF Withdraw
<1>3. /\ balances[user] \in Nat /\ prizes[user] \in Nat /\ prizes[user] <= balances[user]
      /\ custody \in Nat /\ totalAccountedBalance \in Nat /\ totalEligibleBalance \in Nat
      /\ balances[user] < Modulus
  BY <1>1, AmountsAreNaturals DEF SavingsInv, PrizesWithinBalance
<1>4. taken \in Nat /\ taken <= balances[user]
  BY <1>3, AmountTypes DEF Approved
<1>5. /\ totalAccountedBalance + prizeReserve = custody /\ prizeReserve \in Nat
      /\ custody < Modulus /\ Modulus \in Nat
      /\ balances[user] <= totalAccountedBalance
      /\ totalEligibleBalance <= totalAccountedBalance
  BY <1>1, SupplyFits, AmountsAreNaturals, ModulusAssumption
<1>6. isParticipant[user] => balances[user] <= totalEligibleBalance
  BY <1>1, MembersAreParticipants, SupplyFits
<1>7. /\ taken <= totalAccountedBalance /\ totalAccountedBalance < Modulus
      /\ taken <= custody /\ totalEligibleBalance < Modulus
      /\ isParticipant[user] => taken <= totalEligibleBalance
  BY <1>3, <1>4, <1>5, <1>6
<1>8. /\ Sub(balances[user], taken) = balances[user] - taken
      /\ Sub(totalAccountedBalance, taken) = totalAccountedBalance - taken
      /\ isParticipant[user] =>
           Sub(totalEligibleBalance, taken) = totalEligibleBalance - taken
  BY <1>3, <1>4, <1>7, SubFits
<1>9. Sub(prizes[user], Smaller(prizes[user], taken))
        = prizes[user] - (IF prizes[user] <= taken THEN prizes[user] ELSE taken)
  <2>1. prizes[user] < Modulus
    BY <1>3, <1>5
  <2>2. CASE prizes[user] <= taken
    <3>1. Smaller(prizes[user], taken) = prizes[user]
      BY <2>2 DEF Smaller
    <3>2. QED
      BY <1>3, <2>1, <2>2, <3>1, SubFits
  <2>3. CASE ~(prizes[user] <= taken)
    <3>1. Smaller(prizes[user], taken) = taken /\ taken <= prizes[user]
      BY <1>3, <1>4, <2>3 DEF Smaller
    <3>2. QED
      BY <1>3, <1>4, <2>1, <2>3, <3>1, SubFits
  <2>4. QED
    BY <2>2, <2>3
<1>10. /\ wallet' = [wallet EXCEPT ![user] = wallet[user] + taken]
       /\ custody' = custody - taken
  BY <1>2 DEF ConfidentialTransfer
<1>11. UNCHANGED <<prizeReserve, membership, drawing>>
  BY DEF Withdraw, reserve
<1>12. QED
  BY <1>2, <1>4, <1>7, <1>8, <1>9, <1>10, <1>11

\* The cumulative ends of the snapshot are the sums over its first participants.
LEMMA SnapshotEnds ==
  ASSUME Structure, NEW weights,
         weights = [i \in 1 .. Len(participants) |-> drawWeights[participants[i]]],
         SumOver(drawWeights, Members) < Modulus
  PROVE  /\ Len(weights) = Len(participants)
         /\ \A i \in 1 .. Len(weights) : weights[i] \in Nat
         /\ \A i \in 0 .. Len(weights) : CumulativeEnd(weights)[i] \in Nat
         /\ \A i \in 1 .. Len(weights) :
              CumulativeEnd(weights)[i] = CumulativeEnd(weights)[i - 1] + weights[i]
         /\ CumulativeEnd(weights)[Len(weights)] = SumOver(drawWeights, Members)
<1> DEFINE n == Len(participants)
           e == CumulativeEnd(weights)
           FirstMembers(i) == {participants[j] : j \in 1 .. i}
           Sum(i) == SumOver(drawWeights, FirstMembers(i))
<1>1. /\ n \in Nat /\ DOMAIN participants = 1 .. n
      /\ \A i \in 1 .. n : participants[i] \in Users /\ drawWeights[participants[i]] \in Nat
      /\ \A i \in 1 .. n : participantIndexPlusOne[participants[i]] = i
  <2>1. participants \in Seq(Users) /\ \A u \in Users : drawWeights[u] \in Nat
    BY AmountsAreNaturals DEF Structure, TypeOK
  <2>2. \A i \in 1 .. n : participantIndexPlusOne[participants[i]] = i
    BY DEF Structure, MembershipConsistent
  <2>3. QED
    BY <2>1, <2>2
<1>2. /\ Len(weights) = n
      /\ \A i \in 1 .. n : weights[i] = drawWeights[participants[i]] /\ weights[i] \in Nat
  <2> HIDE DEF n
  <2>1. weights = [i \in 1 .. n |-> drawWeights[participants[i]]]
    BY DEF n
  <2>2. QED
    BY <1>1, <2>1
<1>3. /\ FirstMembers(0) = {} /\ FirstMembers(n) = Members
      /\ \A i \in 0 .. n : FirstMembers(i) \subseteq Members
  BY <1>1 DEF Members, Range
<1>4. \A i \in 1 .. n : /\ FirstMembers(i) = FirstMembers(i - 1) \cup {participants[i]}
                        /\ participants[i] \notin FirstMembers(i - 1)
  <2> TAKE i \in 1 .. n
  <2>1. 1 .. i = (1 .. i - 1) \cup {i} /\ i \notin 1 .. i - 1 /\ 1 .. i - 1 \subseteq 1 .. n
    BY <1>1
  <2>2. QED
    BY <1>1, <2>1
<1> HIDE DEF FirstMembers
<1>5. IsFiniteSet(Members) /\ \A u \in Members : drawWeights[u] \in Nat
  BY SumsAreNaturals, AmountsAreNaturals DEF Structure
<1> DEFINE whole == SumOver(drawWeights, Members)
<1>13. whole \in Nat /\ whole < Modulus
  BY <1>5, SumType DEF SumOver
<1>6. \A i \in 0 .. n : Sum(i) \in Nat /\ Sum(i) <= whole
  <2> TAKE i \in 0 .. n
  <2>1. FirstMembers(i) \in SUBSET Members /\ IsFiniteSet(FirstMembers(i))
    BY <1>3, <1>5, FS_Subset
  <2>2. QED
    BY <1>5, <2>1, SumType, SumPart DEF SumOver
<1>7. \A i \in 1 .. n : Sum(i) = Sum(i - 1) + drawWeights[participants[i]]
  <2> TAKE i \in 1 .. n
  <2>1. i - 1 \in 0 .. n
    BY <1>1
  <2>2. IsFiniteSet(FirstMembers(i - 1)) /\ FirstMembers(i - 1) \subseteq Members
    BY <1>3, <1>5, <2>1, FS_Subset
  <2>3. /\ \A u \in FirstMembers(i - 1) : drawWeights[u] \in Nat
        /\ drawWeights[participants[i]] \in Nat
        /\ participants[i] \notin FirstMembers(i - 1)
    BY <1>1, <1>4, <1>5, <2>2
  <2>4. SumOver(drawWeights, FirstMembers(i - 1) \cup {participants[i]})
          = SumOver(drawWeights, FirstMembers(i - 1)) + drawWeights[participants[i]]
    <3> DEFINE before == FirstMembers(i - 1)
    <3> HIDE DEF before
    <3>1. QED
      BY <2>2, <2>3, SumAdd DEF SumOver, before
  <2>5. FirstMembers(i) = FirstMembers(i - 1) \cup {participants[i]}
    BY <1>4
  <2>6. QED
    BY <2>4, <2>5
<1>8. Sum(0) = 0
  BY <1>3, SumEmpty DEF SumOver
<1>14. Sum(n) = whole
  BY <1>3
<1> HIDE DEF Sum, whole
<1>9. /\ e[0] = 0
      /\ \A i \in 1 .. n : e[i] = Add(e[i - 1], weights[i])
  <2>1. \A i \in 0 .. n : e[i] = IF i = 0 THEN 0 ELSE Add(e[i - 1], weights[i])
    BY <1>1, <1>2, EndsUnfold
  <2> HIDE DEF e, n
  <2>2. 0 \in 0 .. n /\ \A i \in 1 .. n : i \in 0 .. n /\ i # 0
    BY <1>1
  <2>3. QED
    BY <2>1, <2>2
<1> HIDE DEF e, n
<1>10. \A i \in 0 .. n : e[i] = Sum(i)
  <2> DEFINE Bad == {i \in 0 .. n : e[i] # Sum(i)}
  <2>1. ASSUME Bad # {} PROVE FALSE
    <3>1. Bad \in SUBSET Nat
      BY <1>1
    <3>2. PICK i \in Bad : \A k \in Bad : i <= k
      <4> HIDE DEF Bad
      <4>1. QED
        BY <2>1, <3>1, LeastNatural
    <3>3. i \in 1 .. n
      BY <1>1, <1>8, <1>9, <3>2
    <3>4. i - 1 \in 0 .. n /\ e[i - 1] = Sum(i - 1)
      BY <1>1, <3>2, <3>3
    <3>5. /\ Sum(i) = Sum(i - 1) + weights[i]
          /\ Sum(i - 1) \in Nat /\ weights[i] \in Nat /\ Sum(i) < Modulus
      <4>1. i \in 0 .. n /\ Sum(i) \in Nat /\ Sum(i) <= whole
        BY <1>1, <1>6, <3>3
      <4>2. Sum(i) < Modulus
        BY <1>13, <4>1, ModulusAssumption
      <4>3. QED
        BY <1>2, <1>6, <1>7, <3>3, <3>4, <4>2
    <3>6. e[i] = Sum(i)
      BY <1>9, <3>3, <3>4, <3>5, AddFits
    <3>7. QED
      BY <3>2, <3>6
  <2>2. QED
    BY <2>1
<1>11. \A i \in 1 .. n : e[i] = e[i - 1] + weights[i]
  <2> TAKE i \in 1 .. n
  <2>1. i \in 0 .. n /\ i - 1 \in 0 .. n
    BY <1>1
  <2>2. QED
    BY <1>2, <1>7, <1>10, <2>1
<1>12. e[n] = whole
  BY <1>1, <1>10, <1>14
<1>16. \A i \in 0 .. n : e[i] \in Nat
  BY <1>6, <1>10
<1>15. QED
  BY <1>2, <1>11, <1>12, <1>16 DEF n, e, whole

\* A settled draw pays one participant, from the reserve.
LEMMA DrawEffect ==
  ASSUME SavingsInv, NEW proof \in decryptable, NEW random \in Euint64s,
         ExecuteDraw(proof, random)
  PROVE  \E w \in Members :
           /\ pendingDraw.active /\ drawWeights[w] > 0 /\ prizeReserve >= PrizeAmount
           /\ balances' = [balances EXCEPT ![w] = balances[w] + PrizeAmount]
           /\ prizes' = [prizes EXCEPT ![w] = prizes[w] + PrizeAmount]
           /\ prizeReserve' = prizeReserve - PrizeAmount
           /\ totalAccountedBalance' = totalAccountedBalance + PrizeAmount
           /\ totalEligibleBalance' = totalEligibleBalance + PrizeAmount
           /\ pendingDraw' = NoDraw
           /\ UNCHANGED <<token, membership>>
<1> DEFINE total   == pendingDraw.total
           ticket  == SampleWeightedTicket(random, total)
           weights == [i \in 1 .. Len(participants) |-> drawWeights[participants[i]]]
           winners == {participants[i] :
                         i \in {j \in 1 .. Len(participants) : IsWinner(weights, ticket, j)}}
           Award(u) == IF u \in winners THEN PrizeAmount ELSE 0
<1>1. Structure /\ TypeOK
  BY DEF SavingsInv, RequestInv, Structure
<1>2. /\ pendingDraw.active
      /\ CheckSignatures(ReadinessHandle(pendingDraw.nonce), TRUE, proof)
      /\ pendingDraw' = NoDraw
      /\ UNCHANGED <<token, membership>>
      /\ balances' = [u \in Users |-> Add(balances[u], Award(u))]
      /\ prizes' = [u \in Users |-> Add(prizes[u], Award(u))]
      /\ prizeReserve' = Sub(prizeReserve, PrizeAmount)
      /\ totalAccountedBalance' = Add(totalAccountedBalance, PrizeAmount)
      /\ totalEligibleBalance' = Add(totalEligibleBalance, PrizeAmount)
  BY DEF ExecuteDraw, SettleRequest
<1>3. /\ SumOver(drawWeights, Members) = total
      /\ total > 0 /\ prizeReserve >= PrizeAmount
  BY <1>2 DEF SavingsInv, SnapshotConsistent
<1>4. /\ total \in Nat /\ total < Modulus /\ total \in Euint64s \ {0}
  BY <1>1, <1>3, AmountsAreNaturals, ModulusAssumption DEF Euint64s
<1>5. ticket \in Nat /\ ticket < total
  <2> HIDE DEF total
  <2>1. ticket \in 0 .. (total - 1)
    BY <1>4, TicketBelowTotal
  <2> HIDE DEF ticket
  <2>2. QED
    BY <1>4, <2>1
<1> HIDE DEF ticket, total
<1>6. /\ Len(weights) = Len(participants)
      /\ \A i \in 1 .. Len(weights) : weights[i] \in Nat
      /\ \A i \in 0 .. Len(weights) : CumulativeEnd(weights)[i] \in Nat
      /\ \A i \in 1 .. Len(weights) :
           CumulativeEnd(weights)[i] = CumulativeEnd(weights)[i - 1] + weights[i]
      /\ CumulativeEnd(weights)[Len(weights)] = total
  <2>1. SumOver(drawWeights, Members) < Modulus
    BY <1>3, <1>4
  <2> DEFINE ws == weights
  <2>2. ws = [i \in 1 .. Len(participants) |-> drawWeights[participants[i]]]
    OBVIOUS
  <2> HIDE DEF ws
  <2>3. QED
    BY <1>1, <1>3, <2>1, <2>2, SnapshotEnds DEF ws
<1>7. PICK i \in 1 .. Len(participants) :
        /\ weights[i] > 0
        /\ {j \in 1 .. Len(participants) : IsWinner(weights, ticket, j)} = {i}
  <2> DEFINE ws == weights
  <2>1. Len(ws) \in Nat /\ Len(ws) = Len(participants) /\ ticket < CumulativeEnd(ws)[Len(ws)]
    BY <1>1, <1>5, <1>6 DEF TypeOK
  <2> HIDE DEF ws
  <2>2. \E i \in 1 .. Len(ws) :
          /\ ws[i] > 0
          /\ {j \in 1 .. Len(ws) : IsWinner(ws, ticket, j)} = {i}
    BY <1>5, <1>6, <2>1, OneInterval DEF ws
  <2>3. QED
    BY <2>1, <2>2 DEF ws
<1> DEFINE w == participants[i]
<1>8. /\ w \in Members /\ w \in Users
      /\ drawWeights[w] > 0 /\ winners = {w}
  <2>1. participants \in Seq(Users) /\ DOMAIN participants = 1 .. Len(participants)
    BY <1>1 DEF TypeOK
  <2>2. w \in Members /\ w \in Users
    BY <1>7, <2>1 DEF Members, Range
  <2>3. drawWeights[w] > 0
    BY <1>7
  <2>4. winners = {w}
    <3> DEFINE chosen == {j \in 1 .. Len(participants) : IsWinner(weights, ticket, j)}
    <3>1. winners = {participants[k] : k \in chosen} /\ chosen = {i}
      BY <1>7
    <3> HIDE DEF chosen, weights
    <3>2. QED
      BY <3>1
  <2>5. QED
    BY <2>2, <2>3, <2>4
<1>9. \A u \in Users : Award(u) = IF u = w THEN PrizeAmount ELSE 0
  BY <1>8
<1> HIDE DEF winners, Award, w
<1>10. PrizeAmount \in Nat /\ PrizeAmount > 0
  BY PoolAssumption, ModulusAssumption DEF Euint64s
<1>11. /\ custody \in Nat /\ custody < Modulus /\ prizeReserve \in Nat
       /\ totalAccountedBalance \in Nat /\ totalEligibleBalance \in Nat
       /\ totalAccountedBalance + prizeReserve = custody
       /\ totalEligibleBalance <= totalAccountedBalance
       /\ \A u \in Users : /\ balances[u] \in Nat /\ balances[u] <= totalAccountedBalance
                           /\ prizes[u] \in Nat /\ prizes[u] <= balances[u]
       /\ Modulus \in Nat
  BY <1>1, AmountsAreNaturals, SupplyFits, ModulusAssumption DEF SavingsInv, PrizesWithinBalance
<1>12. /\ totalAccountedBalance + PrizeAmount < Modulus
       /\ totalEligibleBalance + PrizeAmount < Modulus
       /\ prizeReserve < Modulus /\ PrizeAmount <= prizeReserve
       /\ \A u \in Users : /\ balances[u] + PrizeAmount < Modulus
                           /\ prizes[u] + PrizeAmount < Modulus
                           /\ balances[u] < Modulus /\ prizes[u] < Modulus
  BY <1>3, <1>10, <1>11
<1>13. /\ prizeReserve' = prizeReserve - PrizeAmount
       /\ totalAccountedBalance' = totalAccountedBalance + PrizeAmount
       /\ totalEligibleBalance' = totalEligibleBalance + PrizeAmount
  BY <1>2, <1>10, <1>11, <1>12, AddFits, SubFits
<1>14. \A u \in Users :
         /\ Add(balances[u], Award(u)) = IF u = w THEN balances[u] + PrizeAmount ELSE balances[u]
         /\ Add(prizes[u], Award(u)) = IF u = w THEN prizes[u] + PrizeAmount ELSE prizes[u]
  <2> TAKE u \in Users
  <2>1. CASE u = w
    BY <1>9, <1>10, <1>11, <1>12, <2>1, AddFits
  <2>2. CASE u # w
    <3>1. balances[u] + 0 < Modulus /\ prizes[u] + 0 < Modulus
      BY <1>11, <1>12
    <3>2. Add(balances[u], 0) = balances[u] + 0 /\ Add(prizes[u], 0) = prizes[u] + 0
      BY <1>11, <3>1, AddFits
    <3>3. QED
      BY <1>9, <1>11, <2>2, <3>2
  <2>3. QED
    BY <2>1, <2>2
<1>15. /\ balances' = [balances EXCEPT ![w] = balances[w] + PrizeAmount]
       /\ prizes' = [prizes EXCEPT ![w] = prizes[w] + PrizeAmount]
  <2>1. balances \in [Users -> Euint64s] /\ prizes \in [Users -> Euint64s]
    BY <1>1 DEF TypeOK
  <2>2. QED
    BY <1>2, <1>8, <1>14, <2>1
<1>16. QED
  BY <1>2, <1>3, <1>8, <1>13, <1>15

-----------------------------------------------------------------------------
(* Accounting: the invariant is inductive *)

Books == Conserved /\ Backed /\ EligibleTotalExact /\ PrizesWithinBalance

DrawBooks == SnapshotConsistent /\ (pendingDraw.active => participants # << >>)

\* The balance of one user changes: a sum that the user belongs to moves by
\* the difference.
LEMMA BalancesMove ==
  ASSUME Structure, NEW user \in Users, NEW v \in Nat,
         balances' = [balances EXCEPT ![user] = v]
  PROVE  /\ SumOver(balances', Users) = SumOver(balances, Users) - balances[user] + v
         /\ user \in Members =>
              SumOver(balances', Members) = SumOver(balances, Members) - balances[user] + v
         /\ user \notin Members =>
              SumOver(balances', Members) = SumOver(balances, Members)
<1> DEFINE new == [balances EXCEPT ![user] = v]
<1>1. IsFiniteSet(Users) /\ IsFiniteSet(Members) /\ Members \subseteq Users
  BY SumsAreNaturals
<1>2. \A u \in Users : balances[u] \in Nat
  BY AmountsAreNaturals DEF Structure
<1>3. new[user] = v /\ \A u \in Users : u # user => new[u] = balances[u]
  BY DEF Structure, TypeOK
<1>4. balances' = new
  OBVIOUS
<1> HIDE DEF new
<1>5. SumOver(new, Users) = SumOver(balances, Users) - balances[user] + new[user]
  BY <1>1, <1>2, <1>3, SumUpdate DEF SumOver
<1>6. ASSUME user \in Members
      PROVE  SumOver(new, Members) = SumOver(balances, Members) - balances[user] + new[user]
  <2>1. /\ \A u \in Members : balances[u] \in Nat
        /\ \A u \in Members : u # user => new[u] = balances[u]
    BY <1>1, <1>2, <1>3
  <2>2. QED
    <3> DEFINE S == Members
    <3>1. IsFiniteSet(S) /\ user \in S /\ new[user] \in Nat
      BY <1>1, <1>3, <1>6
    <3>2. \A u \in S : balances[u] \in Nat
      BY <2>1
    <3>3. \A u \in S : u # user => new[u] = balances[u]
      BY <2>1
    <3> HIDE DEF S
    <3>4. SumOver(new, S) = SumOver(balances, S) - balances[user] + new[user]
      BY <3>1, <3>2, <3>3, SumUpdate DEF SumOver
    <3>5. QED
      BY <3>4 DEF S
<1>7. ASSUME user \notin Members
      PROVE  SumOver(new, Members) = SumOver(balances, Members)
  <2>1. \A u \in Members : new[u] = balances[u]
    BY <1>1, <1>3, <1>7
  <2>2. QED
    BY <1>1, <2>1, SumSame DEF SumOver
<1>8. QED
  BY <1>3, <1>4, <1>5, <1>6, <1>7

LEMMA WalletMoves ==
  ASSUME Structure, NEW user \in Users, NEW v \in Nat,
         wallet' = [wallet EXCEPT ![user] = v]
  PROVE  SumOver(wallet', Users) = SumOver(wallet, Users) - wallet[user] + v
<1> DEFINE old == wallet
           new == [wallet EXCEPT ![user] = v]
<1>1. IsFiniteSet(Users)
  BY SumsAreNaturals
<1>2. \A u \in Users : old[u] \in Nat
  BY AmountsAreNaturals DEF Structure
<1>3. new[user] = v /\ new[user] \in Nat
  BY DEF Structure, TypeOK
<1>4. \A u \in Users : u # user => new[u] = old[u]
  BY DEF Structure, TypeOK
<1>5. wallet' = new
  OBVIOUS
<1> HIDE DEF old, new
<1>6. SumOver(new, Users) = SumOver(old, Users) - old[user] + new[user]
  BY <1>1, <1>2, <1>3, <1>4, SumUpdate DEF SumOver
<1>7. QED
  BY <1>3, <1>5, <1>6 DEF old

LEMMA BooksFrame ==
  ASSUME Books, UNCHANGED <<token, balances, totalAccountedBalance, totalEligibleBalance,
                            prizeReserve, participants>>,
         \A u \in Users : prizes'[u] <= balances[u]
  PROVE  Books'
BY DEF Books, Conserved, Backed, EligibleTotalExact, PrizesWithinBalance, Members, token

LEMMA SnapshotFrame ==
  ASSUME DrawBooks, TypeOK, UNCHANGED <<pendingDraw, drawWeights, participants>>,
         pendingDraw.active => prizeReserve' = prizeReserve,
         \A p \in decryptable' : p \in decryptable
           \/ \A n \in Nat : p.handle # ReadinessHandle(n)
  PROVE  DrawBooks'
<1>1. pendingDraw.nonce \in Nat
  BY DEF TypeOK, Draws, Nonces
<1>2. \A p \in decryptable' :
        CheckSignatures(ReadinessHandle(pendingDraw.nonce), TRUE, p) => p \in decryptable
  BY <1>1 DEF CheckSignatures
<1>3. QED
  BY <1>2 DEF DrawBooks, SnapshotConsistent, Members

LEMMA NoSnapshot ==
  ASSUME pendingDraw'.active = FALSE
  PROVE  DrawBooks'
BY DEF DrawBooks, SnapshotConsistent

\* What the requests of a user publish is not about a draw.
LEMMA RequestsPublish ==
  ASSUME NEW user \in Users,
         \/ RequestParticipantActivation(user)
         \/ RequestParticipantDeactivation(user)
         \/ UNCHANGED decryptable
  PROVE  \A p \in decryptable' : p \in decryptable
           \/ \A n \in Nat : p.handle # ReadinessHandle(n)
<1>1. CASE RequestParticipantActivation(user)
  <2>1. \A p \in decryptable' : p \in decryptable
          \/ p.handle = EligibilityHandle(user, participantActivationNonces[user])
    BY <1>1, Publishing DEF RequestParticipantActivation
  <2>2. QED
    BY <2>1 DEF EligibilityHandle, ReadinessHandle
<1>2. CASE RequestParticipantDeactivation(user)
  <2>1. \A p \in decryptable' : p \in decryptable
          \/ p.handle = ZeroBalanceHandle(user, participantDeactivationNonces[user])
    BY <1>2, Publishing DEF RequestParticipantDeactivation
  <2>2. QED
    BY <2>1 DEF ZeroBalanceHandle, ReadinessHandle
<1>3. QED
  BY <1>1, <1>2

LEMMA InvParts == SavingsInv <=> RequestInv /\ Books /\ DrawBooks
BY DEF SavingsInv, Books, DrawBooks

LEMMA DepositSavings ==
  ASSUME SavingsInv, NEW user \in Users, NEW amount \in Amounts, NEW action,
         ConfidentialTransferAndCall(user, amount, action)
  PROVE  Books' /\ DrawBooks'
<1>1. Structure /\ TypeOK /\ Books /\ DrawBooks
  BY InvParts DEF RequestInv, Structure
<1>2. PICK moved \in Nat :
        /\ ~pendingDraw.active
        /\ moved <= wallet[user]
        /\ wallet' = [wallet EXCEPT ![user] = wallet[user] - moved]
        /\ custody' = custody + moved
        /\ UNCHANGED <<prizes, membership, drawing>>
        /\ \/ /\ balances' = [balances EXCEPT ![user] = balances[user] + moved]
              /\ totalAccountedBalance' = totalAccountedBalance + moved
              /\ totalEligibleBalance' = IF isParticipant[user]
                                         THEN totalEligibleBalance + moved
                                         ELSE totalEligibleBalance
              /\ prizeReserve' = prizeReserve
           \/ /\ prizeReserve' = prizeReserve + moved
              /\ UNCHANGED <<balances, totalAccountedBalance, totalEligibleBalance>>
  BY DepositEffect
<1>3. /\ IsFiniteSet(Users) /\ IsFiniteSet(Members) /\ Members \subseteq Users
      /\ Members' = Members
      /\ user \in Members <=> isParticipant[user]
      /\ DOMAIN wallet = Users /\ DOMAIN balances = Users
      /\ \A u \in Users : /\ wallet[u] \in Nat /\ balances[u] \in Nat /\ prizes[u] \in Nat
                          /\ prizes[u] <= balances[u]
      /\ custody \in Nat /\ prizeReserve \in Nat
      /\ SumOver(wallet, Users) \in Nat
      /\ SumOver(balances, Users) \in Nat /\ SumOver(balances, Members) \in Nat
  BY <1>1, <1>2, SumsAreNaturals, AmountsAreNaturals, MembersAreParticipants
     DEF Books, PrizesWithinBalance, membership, Members, TypeOK
<1>4. SumOver(wallet', Users) = SumOver(wallet, Users) - moved
  <2> DEFINE left == wallet[user] - moved
  <2>1. left \in Nat /\ wallet' = [wallet EXCEPT ![user] = left]
    BY <1>2, <1>3
  <2> HIDE DEF left
  <2>2. SumOver(wallet', Users) = SumOver(wallet, Users) - wallet[user] + left
    BY <1>1, <2>1, WalletMoves
  <2>3. QED
    BY <1>2, <1>3, <2>2 DEF left
<1>5. Conserved'
  BY <1>1, <1>2, <1>3, <1>4 DEF Books, Conserved
<1>6. DrawBooks'
  <2>1. pendingDraw.active \in BOOLEAN
    BY <1>1, AmountsAreNaturals
  <2>2. pendingDraw'.active = FALSE
    BY <1>2, <2>1 DEF drawing
  <2>3. QED
    BY <2>2, NoSnapshot
<1>7. CASE /\ balances' = [balances EXCEPT ![user] = balances[user] + moved]
           /\ totalAccountedBalance' = totalAccountedBalance + moved
           /\ totalEligibleBalance' = IF isParticipant[user]
                                      THEN totalEligibleBalance + moved
                                      ELSE totalEligibleBalance
           /\ prizeReserve' = prizeReserve
  <2>2. /\ SumOver(balances', Users) = SumOver(balances, Users) + moved
        /\ SumOver(balances', Members) = IF user \in Members
                                         THEN SumOver(balances, Members) + moved
                                         ELSE SumOver(balances, Members)
    <3> DEFINE more == balances[user] + moved
    <3>1. more \in Nat /\ balances' = [balances EXCEPT ![user] = more]
      BY <1>3, <1>7
    <3> HIDE DEF more
    <3>2. /\ SumOver(balances', Users) = SumOver(balances, Users) - balances[user] + more
          /\ SumOver(balances', Members) =
               IF user \in Members THEN SumOver(balances, Members) - balances[user] + more
                                   ELSE SumOver(balances, Members)
      BY <1>1, <3>1, BalancesMove
    <3>3. QED
      BY <1>3, <3>2 DEF more
  <2>3. Backed'
    BY <1>1, <1>2, <1>3, <1>7, <2>2 DEF Books, Backed
  <2>4. EligibleTotalExact'
    BY <1>1, <1>2, <1>3, <1>7, <2>2 DEF Books, EligibleTotalExact
  <2>5. PrizesWithinBalance'
    <3>1. \A u \in Users :
            /\ prizes'[u] = prizes[u]
            /\ balances'[u] = IF u = user THEN balances[u] + moved ELSE balances[u]
      BY <1>2, <1>3, <1>7
    <3>2. QED
      BY <1>3, <3>1 DEF PrizesWithinBalance
  <2>6. QED
    BY <1>5, <1>6, <2>3, <2>4, <2>5 DEF Books
<1>8. CASE /\ prizeReserve' = prizeReserve + moved
           /\ UNCHANGED <<balances, totalAccountedBalance, totalEligibleBalance>>
  <2>1. Backed' /\ EligibleTotalExact' /\ PrizesWithinBalance'
    BY <1>1, <1>2, <1>3, <1>8 DEF Books, Backed, EligibleTotalExact, PrizesWithinBalance
  <2>2. QED
    BY <1>5, <1>6, <2>1 DEF Books
<1>9. QED
  BY <1>2, <1>7, <1>8

LEMMA WithdrawSavings ==
  ASSUME SavingsInv, NEW user \in Users, NEW requested \in Amounts, Withdraw(user, requested)
  PROVE  Books' /\ DrawBooks'
<1>1. Structure /\ TypeOK /\ Books /\ DrawBooks
  BY InvParts DEF RequestInv, Structure
<1>2. PICK taken \in Nat :
        /\ taken <= balances[user] /\ taken <= custody
        /\ isParticipant[user] => taken <= totalEligibleBalance
        /\ wallet' = [wallet EXCEPT ![user] = wallet[user] + taken]
        /\ custody' = custody - taken
        /\ balances' = [balances EXCEPT ![user] = balances[user] - taken]
        /\ prizes' = [prizes EXCEPT ![user] =
                        prizes[user] - (IF prizes[user] <= taken THEN prizes[user] ELSE taken)]
        /\ totalAccountedBalance' = totalAccountedBalance - taken
        /\ totalEligibleBalance' = IF isParticipant[user]
                                   THEN totalEligibleBalance - taken
                                   ELSE totalEligibleBalance
        /\ UNCHANGED <<prizeReserve, membership, drawing>>
  BY WithdrawEffect
<1>3. /\ IsFiniteSet(Users) /\ IsFiniteSet(Members) /\ Members \subseteq Users
      /\ Members' = Members
      /\ user \in Members <=> isParticipant[user]
      /\ DOMAIN wallet = Users /\ DOMAIN balances = Users /\ DOMAIN prizes = Users
      /\ \A u \in Users : /\ wallet[u] \in Nat /\ balances[u] \in Nat /\ prizes[u] \in Nat
                          /\ prizes[u] <= balances[u]
      /\ custody \in Nat /\ prizeReserve \in Nat
      /\ SumOver(wallet, Users) \in Nat
      /\ SumOver(balances, Users) \in Nat /\ SumOver(balances, Members) \in Nat
  BY <1>1, <1>2, SumsAreNaturals, AmountsAreNaturals, MembersAreParticipants
     DEF Books, PrizesWithinBalance, membership, Members, TypeOK
<1>4. SumOver(wallet', Users) = SumOver(wallet, Users) + taken
  <2> DEFINE more == wallet[user] + taken
  <2>1. more \in Nat /\ wallet' = [wallet EXCEPT ![user] = more]
    BY <1>2, <1>3
  <2> HIDE DEF more
  <2>2. SumOver(wallet', Users) = SumOver(wallet, Users) - wallet[user] + more
    BY <1>1, <2>1, WalletMoves
  <2>3. QED
    BY <1>2, <1>3, <2>2 DEF more
<1>5. Conserved'
  BY <1>1, <1>2, <1>3, <1>4 DEF Books, Conserved
<1>7. /\ SumOver(balances', Users) = SumOver(balances, Users) - taken
      /\ SumOver(balances', Members) = IF user \in Members
                                       THEN SumOver(balances, Members) - taken
                                       ELSE SumOver(balances, Members)
  <2> DEFINE left == balances[user] - taken
  <2>1. left \in Nat /\ balances' = [balances EXCEPT ![user] = left]
    BY <1>2, <1>3
  <2> HIDE DEF left
  <2>2. /\ SumOver(balances', Users) = SumOver(balances, Users) - balances[user] + left
        /\ SumOver(balances', Members) =
             IF user \in Members THEN SumOver(balances, Members) - balances[user] + left
                                 ELSE SumOver(balances, Members)
    BY <1>1, <2>1, BalancesMove
  <2>3. QED
    BY <1>3, <2>2 DEF left
<1>8. Backed'
  BY <1>1, <1>2, <1>3, <1>7 DEF Books, Backed
<1>9. EligibleTotalExact'
  BY <1>1, <1>2, <1>3, <1>7 DEF Books, EligibleTotalExact
<1>10. PrizesWithinBalance'
  <2>1. \A u \in Users :
          /\ balances'[u] = IF u = user THEN balances[u] - taken ELSE balances[u]
          /\ prizes'[u] = IF u = user
                          THEN prizes[u] - (IF prizes[u] <= taken THEN prizes[u] ELSE taken)
                          ELSE prizes[u]
    BY <1>2, <1>3
  <2>2. QED
    BY <1>2, <1>3, <2>1 DEF PrizesWithinBalance
<1>11. DrawBooks'
  <2>1. \/ RequestParticipantActivation(user)
        \/ RequestParticipantDeactivation(user)
    BY DEF Withdraw
  <2>2. \A p \in decryptable' : p \in decryptable
          \/ \A n \in Nat : p.handle # ReadinessHandle(n)
    BY <2>1, RequestsPublish
  <2>3. QED
    BY <1>1, <1>2, <2>2, SnapshotFrame DEF drawing, membership
<1>12. QED
  BY <1>5, <1>8, <1>9, <1>10, <1>11 DEF Books

\* The participants are the users the flag marks, also after a step.
LEMMA NextMembers ==
  Structure' => Members' \subseteq Users /\ \A u \in Users : u \in Members' <=> isParticipant'[u]
<1> DEFINE Marked == Members \subseteq Users /\ \A u \in Users : u \in Members <=> isParticipant[u]
<1>1. Structure => Marked
  BY MembersAreParticipants
<1>2. Structure' => Marked'
  BY <1>1, PTL
<1>3. QED
  BY <1>2

LEMMA ActivationSavings ==
  ASSUME SavingsInv, Structure',
         NEW user \in Users, NEW bit \in BOOLEAN, NEW proof \in decryptable,
         FinalizeParticipantActivation(user, bit, proof)
  PROVE  Books' /\ DrawBooks'
<1>1. Structure /\ TypeOK /\ Books /\ DrawBooks
  BY InvParts DEF RequestInv, Structure
<1>2. /\ pendingDraw.active = FALSE /\ ~isParticipant[user]
      /\ UNCHANGED <<token, position, totalAccountedBalance, prizeReserve, drawing, decryptable>>
  BY <1>1, AmountsAreNaturals DEF FinalizeParticipantActivation, reserve
<1>3. DrawBooks'
  BY <1>2, NoSnapshot DEF drawing
<1>4. Conserved' /\ Backed' /\ PrizesWithinBalance'
  BY <1>1, <1>2 DEF Books, Conserved, Backed, PrizesWithinBalance, token, position
<1>5. /\ IsFiniteSet(Members) /\ Members \subseteq Users /\ user \notin Members
      /\ \A u \in Members : balances[u] \in Nat
      /\ balances[user] \in Nat /\ balances[user] <= SumOver(balances, Users)
      /\ SumOver(balances, Members) \in Nat
  BY <1>1, <1>2, SumsAreNaturals, AmountsAreNaturals, MembersAreParticipants
<1>6. CASE bit
  <2>1. /\ isParticipant' = [isParticipant EXCEPT ![user] = TRUE]
        /\ totalEligibleBalance' = Add(totalEligibleBalance, balances[user])
    BY <1>6 DEF FinalizeParticipantActivation
  <2>2. Members' = Members \cup {user}
    <3>1. \A u \in Users : isParticipant'[u] <=> isParticipant[u] \/ u = user
      BY <1>1, <2>1 DEF TypeOK
    <3>2. QED
      BY <1>1, <3>1, NextMembers, MembersAreParticipants
  <2>3. SumOver(balances, Members \cup {user}) = SumOver(balances, Members) + balances[user]
    BY <1>5, SumAdd DEF SumOver
  <2>4. totalEligibleBalance = SumOver(balances, Members)
    BY <1>1 DEF Books, EligibleTotalExact
  <2>5. totalEligibleBalance + balances[user] < Modulus
    <3>1. Members \cup {user} \subseteq Users
      BY <1>5
    <3>2. SumOver(balances, Members \cup {user}) <= SumOver(balances, Users)
      <4> DEFINE part == Members \cup {user}
      <4> HIDE DEF part
      <4>1. IsFiniteSet(Users) /\ \A u \in Users : balances[u] \in Nat
        BY <1>1, SumsAreNaturals, AmountsAreNaturals
      <4>2. part \subseteq Users
        BY <3>1 DEF part
      <4>3. SumOver(balances, part) <= SumOver(balances, Users)
        BY <4>1, <4>2, SumPart DEF SumOver
      <4>4. QED
        BY <4>3 DEF part
    <3>3. SumOver(balances, Users) \in Nat /\ SumOver(balances, Users) < Modulus
      <4>1. totalAccountedBalance = SumOver(balances, Users)
        BY <1>1 DEF Books, Backed
      <4>2. QED
        BY <1>1, <4>1, SupplyFits, AmountsAreNaturals, ModulusAssumption
    <3>4. QED
      BY <1>5, <2>3, <2>4, <3>2, <3>3, ModulusAssumption
  <2>6. totalEligibleBalance' = totalEligibleBalance + balances[user]
    BY <1>5, <2>1, <2>4, <2>5, AddFits
  <2>7. EligibleTotalExact'
    BY <1>2, <2>2, <2>3, <2>4, <2>6 DEF EligibleTotalExact, position
  <2>8. QED
    BY <1>3, <1>4, <2>7 DEF Books
<1>7. CASE ~bit
  <2>1. UNCHANGED <<participants, totalEligibleBalance>>
    BY <1>7 DEF FinalizeParticipantActivation, membership, eligible
  <2>2. EligibleTotalExact'
    BY <1>1, <1>2, <2>1 DEF Books, EligibleTotalExact, position, Members
  <2>3. QED
    BY <1>3, <1>4, <2>2 DEF Books
<1>8. QED
  BY <1>6, <1>7

LEMMA DeactivationSavings ==
  ASSUME SavingsInv, Structure',
         NEW user \in Users, NEW bit \in BOOLEAN, NEW proof \in decryptable,
         FinalizeParticipantDeactivation(user, bit, proof)
  PROVE  Books' /\ DrawBooks'
<1>1. Structure /\ TypeOK /\ Books /\ DrawBooks
  BY InvParts DEF RequestInv, Structure
<1>2. /\ pendingDraw.active = FALSE /\ isParticipant[user]
      /\ UNCHANGED <<token, position, totalAccountedBalance, totalEligibleBalance, prizeReserve,
                     drawing, decryptable>>
  BY <1>1, AmountsAreNaturals DEF FinalizeParticipantDeactivation, reserve, eligible
<1>3. DrawBooks'
  BY <1>2, NoSnapshot DEF drawing
<1>4. Conserved' /\ Backed' /\ PrizesWithinBalance'
  BY <1>1, <1>2 DEF Books, Conserved, Backed, PrizesWithinBalance, token, position
<1>5. CASE bit
  <2>1. balances[user] = 0
    BY <1>5, DeactivationFresh DEF SavingsInv
  <2>2. isParticipant' = [isParticipant EXCEPT ![user] = FALSE]
    BY <1>5 DEF FinalizeParticipantDeactivation, RemoveParticipant
  <2>3. Members' = Members \ {user}
    <3>1. \A u \in Users : isParticipant'[u] <=> isParticipant[u] /\ u # user
      BY <1>1, <2>2 DEF TypeOK
    <3>2. QED
      BY <1>1, <3>1, NextMembers, MembersAreParticipants
  <2>4. /\ IsFiniteSet(Members) /\ user \in Members
        /\ \A u \in Members : balances[u] \in Nat
    BY <1>1, <1>2, SumsAreNaturals, AmountsAreNaturals, MembersAreParticipants
  <2>5. SumOver(balances, Members) = balances[user] + SumOver(balances, Members \ {user})
    BY <2>4, SumRemove DEF SumOver
  <2>6. SumOver(balances, Members \ {user}) \in Nat
    <3> DEFINE rest == Members \ {user}
    <3>1. IsFiniteSet(rest) /\ \A u \in rest : balances[u] \in Nat
      BY <2>4, FS_Subset
    <3> HIDE DEF rest
    <3>2. SumOver(balances, rest) \in Nat
      BY <3>1, SumType DEF SumOver
    <3>3. QED
      BY <3>2 DEF rest
  <2>7. EligibleTotalExact'
    BY <1>1, <1>2, <2>1, <2>3, <2>5, <2>6 DEF Books, EligibleTotalExact, position
  <2>8. QED
    BY <1>3, <1>4, <2>7 DEF Books
<1>6. CASE ~bit
  <2>1. UNCHANGED participants
    BY <1>6 DEF FinalizeParticipantDeactivation, membership
  <2>2. EligibleTotalExact'
    BY <1>1, <1>2, <2>1 DEF Books, EligibleTotalExact, position, Members
  <2>3. QED
    BY <1>3, <1>4, <2>2 DEF Books
<1>7. QED
  BY <1>5, <1>6

\* The weights that are stored are the balances, the totals are the ones of
\* that moment, and no older proof is about the new request.
LEMMA RequestDrawSavings ==
  ASSUME SavingsInv, RequestDraw
  PROVE  Books' /\ DrawBooks'
<1>1. Structure /\ TypeOK /\ Numbered /\ Books /\ DrawBooks
  BY InvParts DEF RequestInv, Structure
<1>2. /\ participants # << >>
      /\ UNCHANGED <<token, position, totalAccountedBalance, totalEligibleBalance, prizeReserve,
                     participants>>
      /\ pendingDraw' = [active |-> TRUE, nonce |-> drawRequestNonce, timestamp |-> now,
                         total |-> totalEligibleBalance, reserve |-> prizeReserve]
      /\ MakePubliclyDecryptable(ReadinessHandle(drawRequestNonce), Ready)
  BY DEF RequestDraw, eligible, reserve, membership
<1>3. Books'
  <2>1. \A u \in Users : prizes'[u] <= balances[u]
    BY <1>1, <1>2 DEF Books, PrizesWithinBalance, position
  <2>2. QED
    BY <1>1, <1>2, <2>1, BooksFrame DEF position
<1>4. SumOver(drawWeights', Members) = totalEligibleBalance
  <2> DEFINE old == balances
             new == [u \in Users |-> IF u \in Members THEN balances[u] ELSE drawWeights[u]]
  <2>1. IsFiniteSet(Members) /\ Members \subseteq Users
    BY <1>1, SumsAreNaturals
  <2>2. \A u \in Members : old[u] = new[u]
    BY <2>1
  <2>3. drawWeights' = new
    BY DEF RequestDraw
  <2>4. SumOver(old, Members) = totalEligibleBalance
    BY <1>1 DEF Books, EligibleTotalExact
  <2> HIDE DEF old, new
  <2>5. SumOver(old, Members) = SumOver(new, Members)
    BY <2>1, <2>2, SumSame DEF SumOver
  <2>6. QED
    BY <2>3, <2>4, <2>5
<1>5. ASSUME NEW p \in decryptable',
             CheckSignatures(ReadinessHandle(drawRequestNonce), TRUE, p)
      PROVE  totalEligibleBalance > 0 /\ prizeReserve >= PrizeAmount
  <2>1. drawRequestNonce \in Nat
    BY <1>1 DEF TypeOK, Nonces
  <2>2. p.handle = ReadinessHandle(drawRequestNonce) /\ p.bit = TRUE
    BY <1>5 DEF CheckSignatures
  <2>3. p \notin decryptable
    BY <1>1, <2>1, <2>2 DEF Numbered
  <2>4. p.bit = Ready
    BY <1>2, <2>3, Publishing
  <2>5. QED
    BY <2>2, <2>4 DEF Ready
<1>6. /\ pendingDraw'.nonce = drawRequestNonce /\ pendingDraw'.total = totalEligibleBalance
      /\ pendingDraw'.reserve = prizeReserve
      /\ Members' = Members /\ prizeReserve' = prizeReserve /\ participants' # << >>
  BY <1>2 DEF Members
<1>7. DrawBooks'
  BY <1>4, <1>5, <1>6 DEF DrawBooks, SnapshotConsistent
<1>8. QED
  BY <1>3, <1>7

LEMMA ExecuteDrawSavings ==
  ASSUME SavingsInv, NEW proof \in decryptable, NEW random \in Euint64s,
         ExecuteDraw(proof, random)
  PROVE  Books' /\ DrawBooks'
<1>1. Structure /\ TypeOK /\ Books /\ DrawBooks
  BY InvParts DEF RequestInv, Structure
<1>2. PICK w \in Members :
        /\ balances' = [balances EXCEPT ![w] = balances[w] + PrizeAmount]
        /\ prizes' = [prizes EXCEPT ![w] = prizes[w] + PrizeAmount]
        /\ prizeReserve' = prizeReserve - PrizeAmount
        /\ totalAccountedBalance' = totalAccountedBalance + PrizeAmount
        /\ totalEligibleBalance' = totalEligibleBalance + PrizeAmount
        /\ pendingDraw' = NoDraw
        /\ UNCHANGED <<token, membership>>
  BY DrawEffect
<1>3. DrawBooks'
  BY <1>2, NoSnapshot DEF NoDraw
<1>4. /\ Members' = Members /\ w \in Users
      /\ DOMAIN balances = Users /\ DOMAIN prizes = Users
      /\ \A u \in Users : /\ balances[u] \in Nat /\ prizes[u] \in Nat
                          /\ prizes[u] <= balances[u]
      /\ SumOver(balances, Users) \in Nat /\ SumOver(balances, Members) \in Nat
      /\ PrizeAmount \in Nat /\ prizeReserve \in Nat
  BY <1>1, <1>2, SumsAreNaturals, AmountsAreNaturals, MembersAreParticipants,
     PoolAssumption, ModulusAssumption
     DEF Books, PrizesWithinBalance, membership, Members, TypeOK, Euint64s
<1>5. Conserved'
  BY <1>1, <1>2 DEF Books, Conserved, token
<1>6. /\ SumOver(balances', Users) = SumOver(balances, Users) + PrizeAmount
      /\ SumOver(balances', Members) = SumOver(balances, Members) + PrizeAmount
  <2> DEFINE more == balances[w] + PrizeAmount
  <2>1. more \in Nat /\ balances' = [balances EXCEPT ![w] = more]
    BY <1>2, <1>4
  <2> HIDE DEF more
  <2>2. /\ SumOver(balances', Users) = SumOver(balances, Users) - balances[w] + more
        /\ SumOver(balances', Members) = SumOver(balances, Members) - balances[w] + more
    BY <1>1, <1>4, <2>1, BalancesMove
  <2>3. QED
    BY <1>4, <2>2 DEF more
<1>7. Backed' /\ EligibleTotalExact'
  BY <1>1, <1>2, <1>4, <1>6 DEF Books, Backed, EligibleTotalExact, token
<1>8. PrizesWithinBalance'
  <2>1. \A u \in Users :
          \/ prizes'[u] = prizes[u] /\ balances'[u] = balances[u]
          \/ prizes'[u] = prizes[u] + PrizeAmount /\ balances'[u] = balances[u] + PrizeAmount
    BY <1>2, <1>4
  <2>2. QED
    BY <1>4, <2>1 DEF PrizesWithinBalance
<1>9. QED
  BY <1>3, <1>5, <1>7, <1>8 DEF Books

\* The steps that move no tokens and change no balance.
LEMMA StillSavings ==
  ASSUME SavingsInv,
         \/ CancelDraw
         \/ \E proof \in decryptable : SkipDraw(proof)
         \/ \E user \in Users : RequestDeactivation(user)
         \/ \E user \in Users : CompoundPrizes(user)
         \/ \E p \in BOOLEAN : SetPaused(p)
         \/ Tick
         \/ UNCHANGED vars
  PROVE  Books' /\ DrawBooks'
<1>1. Structure /\ TypeOK /\ Books /\ DrawBooks
  BY InvParts DEF RequestInv, Structure
<1>2. UNCHANGED <<token, balances, totalAccountedBalance, totalEligibleBalance,
                  prizeReserve, participants>>
  BY DEF CancelDraw, SkipDraw, SettleRequest, RequestDeactivation, CompoundPrizes, SetPaused,
         Tick, vars, position, eligible, reserve, membership
<1>3. \A u \in Users : prizes'[u] <= balances[u]
  <2>1. \A u \in Users : prizes[u] <= balances[u] /\ balances[u] \in Nat
    BY <1>1, AmountsAreNaturals DEF Books, PrizesWithinBalance
  <2>2. ASSUME NEW user \in Users, CompoundPrizes(user)
        PROVE  \A u \in Users : prizes'[u] = 0 \/ prizes'[u] = prizes[u]
    BY <1>1, <2>2 DEF CompoundPrizes, TypeOK
  <2>3. \/ \E user \in Users : CompoundPrizes(user)
        \/ prizes' = prizes
    BY DEF CancelDraw, SkipDraw, RequestDeactivation, SetPaused, Tick, vars, position
  <2>4. QED
    BY <2>1, <2>2, <2>3
<1>4. Books'
  BY <1>1, <1>2, <1>3, BooksFrame
<1>5. CASE CancelDraw \/ \E proof \in decryptable : SkipDraw(proof)
  <2>1. pendingDraw' = NoDraw
    BY <1>5 DEF CancelDraw, SkipDraw, SettleRequest
  <2>2. QED
    BY <1>4, <2>1, NoSnapshot DEF NoDraw
<1>6. CASE ~(CancelDraw \/ \E proof \in decryptable : SkipDraw(proof))
  <2>1. UNCHANGED <<pendingDraw, drawWeights>>
    BY <1>6 DEF RequestDeactivation, CompoundPrizes, SetPaused, Tick, vars, drawing
  <2>2. \A p \in decryptable' : p \in decryptable
          \/ \A n \in Nat : p.handle # ReadinessHandle(n)
    <3>1. \/ \E user \in Users : RequestParticipantDeactivation(user)
          \/ UNCHANGED decryptable
      BY <1>6 DEF RequestDeactivation, CompoundPrizes, SetPaused, Tick, vars
    <3>2. QED
      BY <3>1, RequestsPublish
  <2>3. DrawBooks'
    BY <1>1, <1>2, <2>1, <2>2, SnapshotFrame
  <2>4. QED
    BY <1>4, <2>3
<1>7. QED
  BY <1>5, <1>6

LEMMA InitSavings == Init => SavingsInv
<1> SUFFICES ASSUME Init PROVE SavingsInv
  OBVIOUS
<1>1. RequestInv
  BY InitRequests
<1> DEFINE zero == [u \in Users |-> 0]
           full == [u \in Users |-> WalletGrant]
<1>2. /\ balances = zero /\ prizes = zero /\ wallet = full
      /\ custody = 0 /\ prizeReserve = 0
      /\ totalAccountedBalance = 0 /\ totalEligibleBalance = 0
      /\ pendingDraw.active = FALSE
  BY DEF Init, NoDraw
<1>3. IsFiniteSet(Users) /\ IsFiniteSet(Members) /\ Members \subseteq Users
  BY <1>1, SumsAreNaturals DEF RequestInv
<1>4. (\A u \in Users : zero[u] = 0 /\ full[u] = WalletGrant) /\ \A u \in Members : zero[u] = 0
  BY <1>3
<1>5. WalletGrant \in Nat /\ Cardinality(Users) \in Nat
  BY PoolAssumption, FS_CardinalityType
<1> HIDE DEF zero, full
<1>6. SumOver(zero, Users) = 0
  BY <1>3, <1>4, SumZero DEF SumOver
<1>7. SumOver(zero, Members) = 0
  BY <1>3, <1>4, SumZero DEF SumOver
<1>8. SumOver(full, Users) = Cardinality(Users) * WalletGrant
  BY <1>3, <1>4, <1>5, SumConstant DEF SumOver
<1>9. PrizesWithinBalance
  BY <1>2, <1>4 DEF PrizesWithinBalance
<1>10. Conserved /\ Backed /\ EligibleTotalExact
  BY <1>2, <1>5, <1>6, <1>7, <1>8 DEF Conserved, Backed, EligibleTotalExact
<1>11. QED
  BY <1>1, <1>2, <1>9, <1>10 DEF SavingsInv, SnapshotConsistent

LEMMA SavingsStep == SavingsInv /\ [Next]_vars => SavingsInv'
<1> SUFFICES ASSUME SavingsInv, [Next]_vars PROVE SavingsInv'
  OBVIOUS
<1>1. RequestInv' /\ Structure'
  BY RequestStep DEF SavingsInv, RequestInv
<1>2. Books' /\ DrawBooks'
  <2>1. ASSUME NEW user \in Users, UserStep(user) PROVE Books' /\ DrawBooks'
    <3>1. ASSUME NEW action \in {"deposit", "prizeReserve", "other"},
                 RefundedTransfer(user, action)
          PROVE  Books' /\ DrawBooks'
      BY <3>1, StillSavings DEF RefundedTransfer
    <3>2. QED
      BY <2>1, <3>1, DepositSavings, WithdrawSavings, StillSavings DEF UserStep
  <2>2. ASSUME NEW proof \in decryptable, KeeperStep(proof) PROVE Books' /\ DrawBooks'
    BY <1>1, <2>2, ActivationSavings, DeactivationSavings, ExecuteDrawSavings, StillSavings
       DEF KeeperStep
  <2>3. QED
    BY <2>1, <2>2, RequestDrawSavings, StillSavings DEF Next
<1>3. QED
  BY <1>1, <1>2 DEF SavingsInv, Books, DrawBooks

\* The invariant with its strengthening, from which the theorems below follow.
THEOREM SavingsAlways == Spec => []SavingsInv
<1>1. QED
  BY InitSavings, SavingsStep, PTL DEF Spec

-----------------------------------------------------------------------------
(* Accounting: what it guarantees for the books *)

\* Whatever is called, and in whatever order, by any number of users: every
\* position can be paid in full, and the reserve on top of them.
THEOREM AlwaysSolvent == Spec => []Solvent
<1>1. SavingsInv => Solvent
  <2>1. ASSUME SavingsInv PROVE Solvent
    <3>1. custody = SumOver(balances, Users) + prizeReserve
      BY <2>1 DEF SavingsInv, Backed
    <3>2. custody \in Nat
      BY <2>1 DEF SavingsInv, RequestInv, Structure, TypeOK
    <3>3. QED
      BY <2>1, <3>1, <3>2 DEF SavingsInv, Backed, Solvent
  <2>2. QED
    BY <2>1
<1>2. QED
  BY <1>1, SavingsAlways, PTL

\* No admission, removal, withdrawal or prize, during a draw or between two,
\* lets the aggregate drift from the balances of the participants.
THEOREM EligibleTotalAlwaysExact == Spec => []EligibleTotalExact
<1>1. SavingsInv => EligibleTotalExact
  BY DEF SavingsInv
<1>2. QED
  BY <1>1, SavingsAlways, PTL

\* The part of a position that is shown as prizes never exceeds the position.
THEOREM PrizesAlwaysWithinBalance == Spec => []PrizesWithinBalance
<1>1. SavingsInv => PrizesWithinBalance
  BY DEF SavingsInv
<1>2. QED
  BY <1>1, SavingsAlways, PTL

\* Withdrawals during a draw, and the proofs in circulation, never bring a
\* pending draw to a state in which its settlement could not be paid.
THEOREM SnapshotAlwaysConsistent == Spec => []SnapshotConsistent
<1>1. SavingsInv => SnapshotConsistent
  BY DEF SavingsInv
<1>2. QED
  BY <1>1, SavingsAlways, PTL

-----------------------------------------------------------------------------
(* Accounting: what it guarantees for a draw *)

\* Settling a request is the only step that counts a draw.
LEMMA OnlySettlementCounts ==
  ASSUME Next, currentDrawId' # currentDrawId
  PROVE  \E proof \in decryptable, random \in Euint64s : ExecuteDraw(proof, random)
<1>1. ASSUME NEW user \in Users, UserStep(user) PROVE UNCHANGED currentDrawId
  BY <1>1 DEF UserStep, ConfidentialTransferAndCall, OnConfidentialTransferReceived,
              RefundedTransfer, Withdraw, RequestDeactivation, CompoundPrizes,
              vars, drawing, outcome
<1>2. ASSUME NEW proof \in decryptable, KeeperStep(proof),
             ~\E random \in Euint64s : ExecuteDraw(proof, random)
      PROVE  UNCHANGED currentDrawId
  BY <1>2 DEF KeeperStep, FinalizeParticipantActivation, FinalizeParticipantDeactivation,
              SkipDraw, drawing, outcome
<1>3. CASE \/ RequestDraw \/ CancelDraw \/ Tick \/ \E p \in BOOLEAN : SetPaused(p)
  BY <1>3 DEF RequestDraw, CancelDraw, Tick, SetPaused, drawing, outcome
<1>4. QED
  BY <1>1, <1>2, <1>3 DEF Next

\* For any number of participants, any weights and any random value: the loop
\* of finalizeDraw credits exactly one of them, in full.
THEOREM DrawAlwaysPaysOne == Spec => OneWinner
<1> DEFINE Pays == currentDrawId' # currentDrawId =>
                     \E w \in Members :
                       /\ drawWeights[w] > 0
                       /\ balances' = [balances EXCEPT ![w] = @ + PrizeAmount]
                       /\ prizes' = [prizes EXCEPT ![w] = @ + PrizeAmount]
                       /\ prizeReserve' = prizeReserve - PrizeAmount
<1>1. SavingsInv /\ [Next]_vars => [Pays]_vars
  <2> SUFFICES ASSUME SavingsInv, Next, currentDrawId' # currentDrawId PROVE Pays
    OBVIOUS
  <2>1. PICK proof \in decryptable, random \in Euint64s : ExecuteDraw(proof, random)
    BY OnlySettlementCounts
  <2>2. QED
    BY <2>1, DrawEffect
<1>2. QED
  BY <1>1, SavingsAlways, PTL DEF Spec, OneWinner

-----------------------------------------------------------------------------
(* The promise: ConfidentialPool implements PrizeSavings *)

Entry == IF pendingDraw.active THEN [u \in Members |-> drawWeights[u]] ELSE [u \in {} |-> 0]

\* What a saver sees of the pool.
Visible == <<wallet, balances, prizeReserve, Entry>>

LEMMA EntrySame ==
  ASSUME UNCHANGED <<pendingDraw, drawWeights, participants>>
  PROVE  Entry' = Entry
BY DEF Entry, Members

LEMMA DepositPromise ==
  ASSUME SavingsInv, NEW user \in Users, NEW amount \in Amounts, NEW action,
         ConfidentialTransferAndCall(user, amount, action), Visible' # Visible
  PROVE  Promise!Moves
<1>1. TypeOK
  BY DEF SavingsInv, RequestInv, Structure
<1>2. PICK moved \in Nat :
        /\ ~pendingDraw.active
        /\ moved <= wallet[user]
        /\ wallet' = [wallet EXCEPT ![user] = wallet[user] - moved]
        /\ UNCHANGED <<membership, drawing>>
        /\ \/ /\ balances' = [balances EXCEPT ![user] = balances[user] + moved]
              /\ prizeReserve' = prizeReserve
           \/ /\ prizeReserve' = prizeReserve + moved
              /\ UNCHANGED balances
  BY DepositEffect
<1>3. Entry' = Entry
  BY <1>2, EntrySame DEF membership, drawing
<1>4. /\ wallet[user] \in Nat /\ balances[user] \in Nat /\ prizeReserve \in Nat
      /\ wallet = [wallet EXCEPT ![user] = wallet[user]]
      /\ balances = [balances EXCEPT ![user] = balances[user]]
  BY <1>1, AmountsAreNaturals DEF TypeOK
<1>5. moved # 0
  <2>1. ASSUME moved = 0 PROVE FALSE
    <3>1. wallet' = wallet /\ balances' = balances /\ prizeReserve' = prizeReserve
      BY <1>2, <1>4, <2>1
    <3>2. QED
      BY <1>3, <3>1 DEF Visible
  <2>2. QED
    BY <2>1
<1>6. moved \in 1 .. (wallet[user] + balances[user])
  BY <1>2, <1>4, <1>5
<1>7. ~Promise!DrawOpen
  BY <1>2 DEF Promise!DrawOpen, Promise!NoEntry
<1>8. Promise!Save(user, moved) \/ Promise!Sponsor(user, moved)
  BY <1>2, <1>3, <1>7 DEF Promise!Save, Promise!Sponsor, Entry
<1>9. QED
  BY <1>6, <1>8 DEF Promise!Moves

LEMMA WithdrawPromise ==
  ASSUME SavingsInv, NEW user \in Users, NEW requested \in Amounts,
         Withdraw(user, requested), Visible' # Visible
  PROVE  Promise!Moves
<1>1. TypeOK
  BY DEF SavingsInv, RequestInv, Structure
<1>2. PICK taken \in Nat :
        /\ taken <= balances[user]
        /\ wallet' = [wallet EXCEPT ![user] = wallet[user] + taken]
        /\ balances' = [balances EXCEPT ![user] = balances[user] - taken]
        /\ UNCHANGED <<prizeReserve, membership, drawing>>
  BY WithdrawEffect
<1>3. Entry' = Entry
  BY <1>2, EntrySame DEF membership, drawing
<1>4. /\ wallet[user] \in Nat /\ balances[user] \in Nat
      /\ wallet = [wallet EXCEPT ![user] = wallet[user]]
      /\ balances = [balances EXCEPT ![user] = balances[user]]
  BY <1>1, AmountsAreNaturals DEF TypeOK
<1>5. taken # 0
  <2>1. ASSUME taken = 0 PROVE FALSE
    <3>1. wallet' = wallet /\ balances' = balances
      BY <1>2, <1>4, <2>1
    <3>2. QED
      BY <1>2, <1>3, <3>1 DEF Visible
  <2>2. QED
    BY <2>1
<1>6. taken \in 1 .. (wallet[user] + balances[user])
  BY <1>2, <1>4, <1>5
<1>7. Promise!TakeOut(user, taken)
  BY <1>2, <1>3 DEF Promise!TakeOut, Entry
<1>8. QED
  BY <1>6, <1>7 DEF Promise!Moves

LEMMA RequestDrawPromise ==
  ASSUME SavingsInv, RequestDraw
  PROVE  Promise!Moves
<1>1. Structure /\ TypeOK
  BY DEF SavingsInv, RequestInv, Structure
<1>2. Members # {} /\ Members \in SUBSET Users
  <2>1. participants # << >> /\ participants \in Seq(Users)
    BY <1>1 DEF RequestDraw, TypeOK
  <2>2. 1 \in DOMAIN participants
    BY <2>1
  <2>3. QED
    BY <1>1, <2>2, MembersAreParticipants DEF Members, Range
<1>3. /\ ~pendingDraw.active /\ pendingDraw'.active = TRUE
      /\ UNCHANGED <<wallet, balances, prizeReserve>> /\ Members' = Members
      /\ drawWeights' = [u \in Users |-> IF u \in Members THEN balances[u] ELSE drawWeights[u]]
  BY DEF RequestDraw, token, position, reserve, membership, Members
<1>4. Entry' = [u \in Members |-> balances[u]]
  BY <1>2, <1>3 DEF Entry
<1>5. Promise!OpenDraw(Members)
  BY <1>2, <1>3, <1>4 DEF Promise!OpenDraw, Promise!DrawOpen, Promise!NoEntry, Entry
<1>6. \E entrants \in SUBSET Users : Promise!OpenDraw(entrants)
  BY <1>2, <1>5 DEF Promise!OpenDraw
<1>7. QED
  BY <1>6 DEF Promise!Moves

LEMMA ExecuteDrawPromise ==
  ASSUME SavingsInv, NEW proof \in decryptable, NEW random \in Euint64s,
         ExecuteDraw(proof, random)
  PROVE  Promise!Moves
<1>1. Structure /\ TypeOK
  BY DEF SavingsInv, RequestInv, Structure
<1>2. PICK w \in Members :
        /\ pendingDraw.active /\ drawWeights[w] > 0 /\ prizeReserve >= PrizeAmount
        /\ balances' = [balances EXCEPT ![w] = balances[w] + PrizeAmount]
        /\ prizeReserve' = prizeReserve - PrizeAmount
        /\ pendingDraw' = NoDraw
        /\ UNCHANGED token
  BY DrawEffect
<1>3. w \in Users
  BY <1>1, MembersAreParticipants
<1>4. pendingDraw'.active = FALSE
  BY <1>2 DEF NoDraw
<1>5. Promise!Award(w)
  BY <1>2, <1>4 DEF Promise!Award, Promise!NoEntry, token
<1>6. QED
  BY <1>3, <1>5 DEF Promise!Moves

LEMMA EndPromise ==
  ASSUME SavingsInv, CancelDraw \/ \E proof \in decryptable : SkipDraw(proof)
  PROVE  Promise!Moves
<1>1. Structure /\ TypeOK
  BY DEF SavingsInv, RequestInv, Structure
<1>2. /\ pendingDraw.active /\ pendingDraw' = NoDraw
      /\ UNCHANGED <<wallet, balances, prizeReserve>>
  BY DEF CancelDraw, SkipDraw, SettleRequest, token, position, reserve
<1>3. pendingDraw'.active = FALSE
  BY <1>2 DEF NoDraw
<1>4. Members # {}
  <2>1. participants # << >> /\ participants \in Seq(Users)
    BY <1>1, <1>2 DEF SavingsInv, TypeOK
  <2>2. 1 \in DOMAIN participants
    BY <2>1
  <2>3. QED
    BY <2>2 DEF Members, Range
<1>5. Promise!DrawOpen
  <2>1. DOMAIN [u \in Members |-> drawWeights[u]] # DOMAIN [u \in {} |-> 0]
    BY <1>4
  <2>2. [u \in Members |-> drawWeights[u]] # [u \in {} |-> 0]
    BY <2>1
  <2>3. QED
    BY <1>2, <2>2 DEF Promise!DrawOpen, Promise!NoEntry
<1>6. Promise!Release
  BY <1>2, <1>3, <1>5 DEF Promise!Release, Promise!NoEntry
<1>7. QED
  BY <1>6 DEF Promise!Moves

\* The other steps change nothing a saver sees.
LEMMA RestPromise ==
  ASSUME SavingsInv,
         \/ \E user \in Users : \/ RequestDeactivation(user)
                                \/ CompoundPrizes(user)
         \/ \E user \in Users, bit \in BOOLEAN, proof \in decryptable :
              \/ FinalizeParticipantActivation(user, bit, proof)
              \/ FinalizeParticipantDeactivation(user, bit, proof)
         \/ \E p \in BOOLEAN : SetPaused(p)
         \/ Tick
         \/ UNCHANGED vars
  PROVE  Visible' = Visible
<1>1. UNCHANGED <<wallet, balances, prizeReserve, pendingDraw, drawWeights>>
  BY DEF RequestDeactivation, CompoundPrizes, FinalizeParticipantActivation,
         FinalizeParticipantDeactivation, SetPaused, Tick, vars, token, position, reserve, drawing
<1>2. UNCHANGED participants \/ ~pendingDraw.active
  BY DEF RequestDeactivation, CompoundPrizes, FinalizeParticipantActivation,
         FinalizeParticipantDeactivation, SetPaused, Tick, vars, membership
<1>3. Entry' = Entry
  BY <1>1, <1>2 DEF Entry, Members
<1>4. QED
  BY <1>1, <1>3 DEF Visible

\* The pool keeps the promise: for all users and amounts, every transaction is
\* one abstract movement of integers, or changes nothing a saver owns.
THEOREM PromiseAlwaysKept == Spec => PromiseKept
<1>1. Init => Promise!Init
  BY DEF Init, NoDraw, Promise!Init, Promise!NoEntry
<1>2. SavingsInv /\ [Next]_vars => [Promise!Next]_(Promise!vars)
  <2> SUFFICES ASSUME SavingsInv, [Next]_vars, Visible' # Visible PROVE Promise!Moves
    BY DEF Promise!Next, Promise!vars, Visible, Entry
  <2>1. ASSUME NEW user \in Users, UserStep(user) PROVE Promise!Moves
    BY <2>1, DepositPromise, WithdrawPromise, RestPromise DEF UserStep, RefundedTransfer
  <2>2. ASSUME NEW proof \in decryptable, KeeperStep(proof) PROVE Promise!Moves
    BY <2>2, ExecuteDrawPromise, EndPromise, RestPromise DEF KeeperStep
  <2>3. QED
    BY <2>1, <2>2, RequestDrawPromise, EndPromise, RestPromise DEF Next
<1>3. QED
  BY <1>1, <1>2, SavingsAlways, PTL DEF Spec, PromiseKept, Promise!Spec

-----------------------------------------------------------------------------
(* Access rights: grants *)

\* Rights a transaction may leave behind: the pool can always go on computing,
\* and the owner of a position can decrypt it.
SoundGrant(granted) ==
  /\ DOMAIN granted \subseteq Slots
  /\ \A s \in DOMAIN granted :
       /\ Pool \in granted[s]
       /\ s[1] \in {"balances", "prizes"} => s[2] \in granted[s]

TotalNames == {"accounted", "eligible", "reserve", "drawTotal"}

LEMMA SlotForms ==
  /\ \A users \in SUBSET Users :
       /\ Balances(users) = {<<"balances", u>> : u \in users}
       /\ Prizes(users) = {<<"prizes", u>> : u \in users}
       /\ Weights(users) = {<<"drawWeights", u>> : u \in users}
  /\ \A names : Totals(names) = {<<n, Pool>> : n \in names}
  /\ Slots = {<<"balances", u>> : u \in Users} \cup {<<"prizes", u>> : u \in Users}
               \cup {<<"drawWeights", u>> : u \in Users} \cup {<<n, Pool>> : n \in TotalNames}
BY DEF Balances, Prizes, Weights, Totals, Slots, TotalNames

LEMMA GrantsCombine ==
  ASSUME NEW f, NEW g, SoundGrant(f), SoundGrant(g)
  PROVE  /\ SoundGrant(f ++ g)
         /\ DOMAIN (f ++ g) = DOMAIN f \cup DOMAIN g
BY DEF SoundGrant, ++

LEMMA PositionGrant ==
  ASSUME NEW users \in SUBSET Users
  PROVE  /\ SoundGrant(AllowPosition(users))
         /\ \A u \in users : /\ <<"balances", u>> \in DOMAIN AllowPosition(users)
                             /\ <<"prizes", u>> \in DOMAIN AllowPosition(users)
BY SlotForms DEF SoundGrant, AllowPosition

LEMMA TotalsGrant ==
  ASSUME NEW names \in SUBSET TotalNames
  PROVE  SoundGrant(AllowThis(Totals(names))) /\ SoundGrant(Empty(Totals(names)))
<1>1. Totals(names) = {<<n, Pool>> : n \in names} /\ Totals(names) \subseteq Slots
  BY SlotForms
<1>2. \A n \in names : n \notin {"balances", "prizes"}
  BY DEF TotalNames
<1>3. \A s \in Totals(names) : s[1] \notin {"balances", "prizes"}
  BY <1>1, <1>2
<1>4. QED
  BY <1>1, <1>3 DEF SoundGrant, AllowThis, Empty

LEMMA DepositGrant ==
  ASSUME NEW user \in Users
  PROVE  LET granted == AllowPosition({user})
                          ++ AllowThis(Totals({"accounted"}) \cup EligibleIfMember(user))
         IN  /\ SoundGrant(granted)
             /\ <<"balances", user>> \in DOMAIN granted /\ <<"prizes", user>> \in DOMAIN granted
<1>1. PICK names \in SUBSET TotalNames :
        Totals({"accounted"}) \cup EligibleIfMember(user) = Totals(names)
  <2>1. CASE isParticipant[user]
    <3>1. Totals({"accounted"}) \cup EligibleIfMember(user) = Totals({"accounted", "eligible"})
      BY <2>1, SlotForms DEF EligibleIfMember
    <3>2. QED
      BY <3>1 DEF TotalNames
  <2>2. CASE ~isParticipant[user]
    <3>1. Totals({"accounted"}) \cup EligibleIfMember(user) = Totals({"accounted"})
      BY <2>2 DEF EligibleIfMember
    <3>2. QED
      BY <3>1 DEF TotalNames
  <2>3. QED
    BY <2>1, <2>2
<1>2. SoundGrant(AllowThis(Totals(names)))
  BY TotalsGrant
<1>3. /\ SoundGrant(AllowPosition({user}))
      /\ <<"balances", user>> \in DOMAIN AllowPosition({user})
      /\ <<"prizes", user>> \in DOMAIN AllowPosition({user})
  BY PositionGrant
<1>4. QED
  BY <1>1, <1>2, <1>3, GrantsCombine

-----------------------------------------------------------------------------
(* Access rights: the invariant is inductive *)

\* The participants are users and every slot of storage has rights.
AccessInv == Structure /\ DOMAIN readers = Slots /\ NothingUnreadable

Readable == DOMAIN readers = Slots /\ NothingUnreadable

LEMMA GrantKeeps ==
  ASSUME AccessInv, NEW granted, SoundGrant(granted), Stores(granted),
         \A u \in Users : positionInitialized'[u] =>
           \/ positionInitialized[u]
           \/ <<"balances", u>> \in DOMAIN granted /\ <<"prizes", u>> \in DOMAIN granted
  PROVE  Readable'
<1>1. /\ DOMAIN readers' = DOMAIN granted \cup DOMAIN readers
      /\ \A s \in DOMAIN granted : readers'[s] = granted[s]
      /\ \A s \in DOMAIN readers \ DOMAIN granted : readers'[s] = readers[s]
  BY DEF Stores, ++
<1>2. DOMAIN readers' = Slots
  BY <1>1 DEF AccessInv, SoundGrant
<1>3. \A s \in Slots : Pool \in readers'[s]
  BY <1>1 DEF AccessInv, NothingUnreadable, SoundGrant
<1>4. ASSUME NEW user \in Users, positionInitialized'[user],
             NEW s \in Balances({user}) \cup Prizes({user})
      PROVE  user \in readers'[s]
  <2>1. s \in {<<"balances", user>>, <<"prizes", user>>} /\ s \in Slots
    BY <1>4, SlotForms
  <2>2. CASE s \in DOMAIN granted
    <3>1. s[1] \in {"balances", "prizes"} /\ s[2] = user
      BY <2>1
    <3>2. QED
      BY <1>1, <2>2, <3>1 DEF SoundGrant
  <2>3. CASE s \notin DOMAIN granted
    <3>1. positionInitialized[user]
      BY <1>4, <2>1, <2>3
    <3>2. user \in readers[s]
      BY <1>4, <3>1 DEF AccessInv, NothingUnreadable
    <3>3. QED
      BY <1>1, <2>1, <2>3, <3>2 DEF AccessInv
  <2>4. QED
    BY <2>2, <2>3
<1>5. QED
  BY <1>2, <1>3, <1>4 DEF Readable, NothingUnreadable

LEMMA UnchangedKeeps ==
  ASSUME AccessInv, UNCHANGED <<readers, positionInitialized>>
  PROVE  Readable'
BY DEF AccessInv, Readable, NothingUnreadable

\* A deposit opens the position of the depositor, and no other.
LEMMA DepositOpens ==
  ASSUME Structure, NEW user \in Users, NEW amount \in Amounts,
         ConfidentialTransferAndCall(user, amount, "deposit")
  PROVE  \A u \in Users : positionInitialized'[u] => positionInitialized[u] \/ u = user
<1>1. PICK moved : CreditDeposit(user, moved)
  BY DEF ConfidentialTransferAndCall, OnConfidentialTransferReceived
<1>2. QED
  BY <1>1 DEF CreditDeposit, Structure, TypeOK

\* The rights never decide more than whether a transaction reverts.
LEMMA AccessStepIsStep == AccessNext => Next
BY DEF AccessNext, UserAccessStep, KeeperAccessStep, Next, UserStep, KeeperStep

LEMMA DrawGrants ==
  ASSUME AccessInv
  PROVE  /\ SoundGrant([s \in Weights(Members) |-> readers[<<"balances", s[2]>>]]
                         ++ [s \in Totals({"drawTotal"}) |-> readers[<<"eligible", Pool>>]])
         /\ SoundGrant(Empty(Totals({"drawTotal"})))
         /\ SoundGrant(AllowPosition(Members) ++ AllowThis(Totals({"reserve", "accounted", "eligible"}))
                         ++ Empty(Weights(Members) \cup Totals({"drawTotal"})))
<1>1. Members \in SUBSET Users
  BY MembersAreParticipants DEF AccessInv
<1>2. Weights(Members) = {<<"drawWeights", u>> : u \in Members}
  BY <1>1, SlotForms
<1>3. Totals({"drawTotal"}) = {<<"drawTotal", Pool>>}
  BY SlotForms
<1>4. SoundGrant([s \in Weights(Members) |-> readers[<<"balances", s[2]>>]])
  <2> DEFINE copied == [s \in Weights(Members) |-> readers[<<"balances", s[2]>>]]
  <2>1. \A u \in Members : <<"drawWeights", u>> \in Slots /\ Pool \in readers[<<"balances", u>>]
    BY <1>1, SlotForms DEF AccessInv, NothingUnreadable
  <2>2. ASSUME NEW s \in DOMAIN copied
        PROVE  s \in Slots /\ Pool \in copied[s] /\ s[1] \notin {"balances", "prizes"}
    <3>1. PICK u \in Members : s = <<"drawWeights", u>>
      BY <1>2, <2>2
    <3>2. s[1] = "drawWeights" /\ s[2] = u
      BY <3>1
    <3>3. copied[s] = readers[<<"balances", u>>]
      BY <2>2, <3>2
    <3>4. QED
      BY <2>1, <3>1, <3>2, <3>3
  <2>3. QED
    BY <2>2 DEF SoundGrant
<1>5. SoundGrant([s \in Totals({"drawTotal"}) |-> readers[<<"eligible", Pool>>]])
  <2>1. <<"drawTotal", Pool>> \in Slots /\ Pool \in readers[<<"eligible", Pool>>]
    BY SlotForms DEF AccessInv, NothingUnreadable, TotalNames
  <2>2. QED
    BY <1>3, <2>1 DEF SoundGrant
<1>6. SoundGrant(Empty(Weights(Members) \cup Totals({"drawTotal"})))
  <2>1. <<"drawTotal", Pool>> \in Slots /\ \A u \in Members : <<"drawWeights", u>> \in Slots
    BY <1>1, SlotForms DEF TotalNames
  <2>2. QED
    BY <1>2, <1>3, <2>1 DEF SoundGrant, Empty
<1>7. /\ SoundGrant(Empty(Totals({"drawTotal"})))
      /\ SoundGrant(AllowThis(Totals({"reserve", "accounted", "eligible"})))
  BY TotalsGrant DEF TotalNames
<1>8. SoundGrant(AllowPosition(Members))
  BY <1>1, PositionGrant
<1>9. QED
  BY <1>4, <1>5, <1>6, <1>7, <1>8, GrantsCombine

LEMMA AccessStep == AccessInv /\ [AccessNext]_accessVars => AccessInv'
<1> SUFFICES ASSUME AccessInv, [AccessNext]_accessVars PROVE AccessInv'
  OBVIOUS
<1>1. Structure'
  BY AccessStepIsStep, StructureStep DEF AccessInv, accessVars
<1>2. ASSUME NEW granted, SoundGrant(granted), Stores(granted), UNCHANGED positionInitialized
      PROVE  Readable'
  BY <1>2, GrantKeeps
<1>3. /\ \A names \in SUBSET TotalNames : SoundGrant(AllowThis(Totals(names)))
      /\ {"reserve"} \in SUBSET TotalNames /\ {"eligible"} \in SUBSET TotalNames
  BY TotalsGrant DEF TotalNames
<1>4. ASSUME NEW user \in Users, UserAccessStep(user) PROVE Readable'
  <2>1. ASSUME NEW amount \in Amounts, ConfidentialTransferAndCall(user, amount, "deposit"),
               CreditDepositAccess(user)
        PROVE  Readable'
    <3> DEFINE granted == AllowPosition({user})
                            ++ AllowThis(Totals({"accounted"}) \cup EligibleIfMember(user))
    <3>1. /\ SoundGrant(granted) /\ Stores(granted)
          /\ <<"balances", user>> \in DOMAIN granted /\ <<"prizes", user>> \in DOMAIN granted
      BY <2>1, DepositGrant DEF CreditDepositAccess
    <3>2. \A u \in Users : positionInitialized'[u] => positionInitialized[u] \/ u = user
      BY <2>1, DepositOpens DEF AccessInv
    <3> HIDE DEF granted
    <3>3. QED
      BY <3>1, <3>2, GrantKeeps
  <2>2. ASSUME NEW amount \in Amounts, ConfidentialTransferAndCall(user, amount, "prizeReserve"),
               CreditPrizeReserveAccess
        PROVE  Readable'
    <3>1. UNCHANGED positionInitialized
      BY <2>2 DEF ConfidentialTransferAndCall, OnConfidentialTransferReceived,
                  CreditPrizeReserve, position
    <3>2. QED
      BY <1>2, <1>3, <2>2, <3>1 DEF CreditPrizeReserveAccess
  <2>3. ASSUME NEW amount \in Amounts, Withdraw(user, amount), WithdrawAccess(user)
        PROVE  Readable'
    BY <1>2, <2>3, DepositGrant DEF Withdraw, WithdrawAccess
  <2>4. ASSUME CompoundPrizes(user), CompoundPrizesAccess(user) PROVE Readable'
    <3>1. SoundGrant([s \in Prizes({user}) |-> {Pool, user}])
      BY SlotForms DEF SoundGrant
    <3>2. UNCHANGED positionInitialized
      BY <2>4 DEF CompoundPrizes
    <3>3. QED
      BY <1>2, <2>4, <3>1, <3>2 DEF CompoundPrizesAccess
  <2>5. CASE /\ \/ RequestDeactivation(user)
                \/ \E action \in {"deposit", "prizeReserve", "other"} :
                     RefundedTransfer(user, action)
             /\ UNCHANGED readers
    BY <2>5, UnchangedKeeps DEF RequestDeactivation, RefundedTransfer, vars, position
  <2>6. QED
    BY <1>4, <2>1, <2>2, <2>3, <2>4, <2>5 DEF UserAccessStep
<1>5. ASSUME NEW proof \in decryptable, KeeperAccessStep(proof) PROVE Readable'
  <2>1. UNCHANGED positionInitialized
    BY <1>5 DEF KeeperAccessStep, FinalizeParticipantActivation, FinalizeParticipantDeactivation,
                SkipDraw, ExecuteDraw, SettleRequest, position
  <2>2. ASSUME NEW user \in Users, FinalizeParticipantActivationAccess(user) PROVE Readable'
    BY <1>2, <1>3, <2>1, <2>2 DEF FinalizeParticipantActivationAccess
  <2>3. ASSUME ForgetRequestAccess \/ ExecuteDrawAccess PROVE Readable'
    BY <1>2, <2>1, <2>3, DrawGrants DEF ForgetRequestAccess, ExecuteDrawAccess
  <2>4. QED
    BY <1>5, <2>1, <2>2, <2>3, UnchangedKeeps DEF KeeperAccessStep
<1>6. ASSUME \/ RequestDraw /\ RequestDrawAccess
             \/ CancelDraw /\ ForgetRequestAccess
      PROVE  Readable'
  <2>1. UNCHANGED positionInitialized
    BY <1>6 DEF RequestDraw, CancelDraw, position
  <2>2. QED
    BY <1>2, <1>6, <2>1, DrawGrants DEF RequestDrawAccess, ForgetRequestAccess
<1>7. ASSUME \/ ((\E p \in BOOLEAN : SetPaused(p)) \/ Tick) /\ UNCHANGED readers
             \/ UNCHANGED accessVars
      PROVE  Readable'
  BY <1>7, UnchangedKeeps DEF SetPaused, Tick, vars, accessVars, position
<1>8. QED
  BY <1>1, <1>4, <1>5, <1>6, <1>7 DEF AccessNext, AccessInv, Readable

-----------------------------------------------------------------------------
(* Access rights: what they guarantee *)

\* Composing the transactions with their rights adds no behaviour: everything
\* proved of the pool holds of the pool with rights.
THEOREM AccessAddsNothing == AccessSpec => Spec
<1>1. [AccessNext]_accessVars => [Next]_vars
  BY AccessStepIsStep DEF accessVars
<1>2. QED
  BY <1>1, PTL DEF AccessSpec, Spec

\* For any number of users and any order of transactions: no stored ciphertext
\* is left without the rights that a later transaction, or its owner, needs.
THEOREM NothingEverUnreadable == AccessSpec => []NothingUnreadable
<1>1. Init /\ readers = Empty(Slots) => AccessInv
  <2> SUFFICES ASSUME Init, readers = Empty(Slots) PROVE AccessInv
    OBVIOUS
  <2>1. Structure /\ \A u \in Users : ~positionInitialized[u]
    BY InitStructure DEF Init
  <2>2. DOMAIN readers = Slots /\ \A s \in Slots : Pool \in readers[s]
    BY DEF Empty
  <2>3. QED
    BY <2>1, <2>2 DEF AccessInv, NothingUnreadable
<1>2. AccessInv => NothingUnreadable
  BY DEF AccessInv
<1>3. QED
  BY <1>1, <1>2, AccessStep, PTL DEF AccessSpec

-----------------------------------------------------------------------------
(* Clients: what the modules that drive the pool need to know of it *)

\* A transaction of a client.  A claim asks for an amount that was revealed,
\* which need not be one of the inputs that Next enumerates.
Transacts == Next \/ \E user \in Users, requested \in Euint64s : Withdraw(user, requested)

LEMMA TransactsIsNext == Amounts = Euint64s /\ [Transacts]_vars => [Next]_vars
BY DEF Transacts, Next, UserStep

LEMMA TransactsStructure == Structure /\ [Transacts]_vars => Structure'
<1> SUFFICES ASSUME Structure, NEW user \in Users, NEW requested \in Euint64s,
                    Withdraw(user, requested)
             PROVE  Structure'
  BY StructureStep DEF Transacts
<1>1. UNCHANGED membership
  BY DEF Withdraw
<1>2. QED
  BY <1>1, WithdrawType, MembershipFrame DEF Structure

\* What the KMS may sign, it may sign for good.
LEMMA SignedForGood == [Transacts]_vars => decryptable \subseteq decryptable'
<1> DEFINE Grows == decryptable \subseteq decryptable'
<1>1. ASSUME NEW user \in Users,
             \/ RequestParticipantActivation(user) \/ RequestParticipantDeactivation(user)
      PROVE  Grows
  BY <1>1 DEF RequestParticipantActivation, RequestParticipantDeactivation,
              MakePubliclyDecryptable
<1>2. ASSUME NEW user \in Users, NEW requested, Withdraw(user, requested) PROVE Grows
  BY <1>1, <1>2 DEF Withdraw
<1>3. ASSUME NEW user \in Users, UserStep(user) PROVE Grows
  <2>1. ASSUME NEW amount, NEW action, ConfidentialTransferAndCall(user, amount, action)
        PROVE  Grows
    BY <1>1, <2>1 DEF ConfidentialTransferAndCall, OnConfidentialTransferReceived,
                      CreditDeposit, CreditPrizeReserve
  <2>2. ASSUME NEW action, RefundedTransfer(user, action) PROVE Grows
    BY <2>2 DEF RefundedTransfer, vars
  <2>3. RequestDeactivation(user) \/ CompoundPrizes(user) => Grows
    BY <1>1 DEF RequestDeactivation, CompoundPrizes
  <2>4. QED
    BY <1>2, <1>3, <2>1, <2>2, <2>3 DEF UserStep
<1>4. ASSUME NEW proof \in decryptable, KeeperStep(proof) PROVE Grows
  BY <1>4 DEF KeeperStep, FinalizeParticipantActivation, FinalizeParticipantDeactivation,
              SkipDraw, ExecuteDraw, SettleRequest
<1>5. ASSUME NEW p, RequestDraw \/ CancelDraw \/ SetPaused(p) \/ Tick PROVE Grows
  BY <1>5 DEF RequestDraw, MakePubliclyDecryptable, CancelDraw, SetPaused, Tick
<1>6. UNCHANGED vars => Grows
  BY DEF vars
<1>7. QED
  BY <1>2, <1>3, <1>4, <1>5, <1>6 DEF Transacts, Next

\* Of what a client does, step after step: the next step, and the rest.
Stage(todo, next, rest) == todo # <<>> /\ Head(todo) = next /\ Tail(todo) = rest

\* Two sequences make a third when it has their elements, in this order.
LEMMA Joined ==
  ASSUME NEW S, NEW s \in Seq(S), NEW t \in Seq(S), NEW u \in Seq(S),
         Len(u) = Len(s) + Len(t),
         \A i \in 1 .. Len(s) : u[i] = s[i],
         \A i \in 1 .. Len(t) : u[Len(s) + i] = t[i]
  PROVE  s \o t = u
<1>1. /\ s \o t \in Seq(S) /\ Len(s \o t) = Len(u)
      /\ \A i \in 1 .. Len(u) : (s \o t)[i] = IF i <= Len(s) THEN s[i] ELSE t[i - Len(s)]
  BY ConcatProperties
<1>2. Len(s) \in Nat /\ Len(t) \in Nat
  OBVIOUS
<1>3. ASSUME NEW i \in 1 .. Len(u) PROVE (s \o t)[i] = u[i]
  <2>1. CASE i <= Len(s)
    BY <1>1, <1>2, <2>1
  <2>2. CASE i > Len(s)
    <3>1. i - Len(s) \in 1 .. Len(t) /\ Len(s) + (i - Len(s)) = i
      BY <1>2, <2>2
    <3>2. QED
      BY <1>1, <1>2, <2>2, <3>1
  <2>3. QED
    BY <1>2, <2>1, <2>2
<1>4. QED
  BY <1>1, <1>3, SeqEqual
=============================================================================
