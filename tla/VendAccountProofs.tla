--------------------------- MODULE VendAccountProofs ---------------------------
(***************************************************************************)
(* Proofs about VendAccount, for any numbers of runs, accounts, addresses  *)
(* and OUs: its invariants, from the inductive invariant IInv, and the     *)
(* action property that only named accounts move.                          *)
(***************************************************************************)
EXTENDS VendAccount, TLAPS

\* What recordAccountSteps produces are records, one for each applied action.
LEMMA RecordsTyped == \A S : AccountRecords(S) \subseteq Record
BY DEF AccountRecords, Record

LEMMA RecordsNonempty == \A S : S # {} => AccountRecords(S) # {}
<1> SUFFICES ASSUME NEW S, S # {} PROVE AccountRecords(S) # {}
  OBVIOUS
<1>1. PICK x \in S : TRUE
  OBVIOUS
<1>2. [op |-> IF x = "create" THEN "account-create" ELSE "account-move",
       outcome |-> "success"] \in AccountRecords(S)
  BY <1>1 DEF AccountRecords
<1> QED
  BY <1>2

\* A run past EnsureAccount holds an existing account and knows where to take it.
LEMMA HolderHolds ==
  ASSUME IInv, NEW r \in Runs, pc[r] \in HasAccount
  PROVE  /\ acct[r] \in Accounts
         /\ Exists(acct[r])
         /\ Named(r, acct[r])
         /\ input[r].dest \in OUs
BY NamesDistinct, ParametersTyped
   DEF IInv, TypeOK, InputsFixed, AccountsAreNamed, HasAccount, Input

\* The placement of an account survives a step that moves nothing and adds no
\* run to those whose placement succeeded.
LEMMA PlacedCarries ==
  ASSUME IInv, parent' = parent, input' = input,
         \A s \in Runs : acct[s] # None => acct'[s] = acct[s],
         \A s \in Runs : pc'[s] \in {"baseline", "policies"} \/ outcome'[s] = "ok"
                           => pc[s] \in {"baseline", "policies"} \/ outcome[s] = "ok"
  PROVE  PlacedStaysPlaced'
BY DEF IInv, PlacedStaysPlaced, AccountsAreNamed, HasAccount

\* Every step keeps the types.
LEMMA TypePreserved ==
  ASSUME IInv, Next
  PROVE  TypeOK'
<1> USE NamesDistinct, ParametersTyped DEF IInv, TypeOK, Steps, Ended, Goto, service
<1>1. ASSUME NEW r \in Runs, Step(r)
      PROVE  TypeOK'
  <2>1. CASE Plan(r)
    BY <2>1 DEF InputsFixed, Plan, Input
  <2>2. CASE ListDest(r)
    BY <2>2 DEF ListDest, List, Matches, AccountFails, Stop, Park, Record
  <2>3. CASE ListRoot(r)
    BY <2>3 DEF ListRoot, List, Matches, AccountFails, Stop, Park, Record
  <2>4. CASE CreateAccount(r)
    BY <2>4 DEF CreateAccount, AccountFails, Stop, Park, Record
  <2>5. CASE Poll(r)
    BY <2>5 DEF Poll, PollsLeft, AccountFails, Stop, Park, Record, Accounts
  <2>6. CASE PollsRunOut(r)
    BY <2>6 DEF PollsRunOut, AccountFails, Stop, Park, Record
  <2>7. CASE RelistDest(r)
    BY <2>7 DEF RelistDest, List, Matches, AccountFails, Stop, Park, Record
  <2>8. CASE RelistRoot(r)
    BY <2>8 DEF RelistRoot, List, Matches, AccountFails, Stop, Park, Record
  <2>9. CASE ReadBack(r)
    BY <2>9 DEF ReadBack, AccountFails, Stop, Park, Record
  <2>10. CASE Place(r)
    <3>1. ASSUME NEW S \in SUBSET {"create", "move", "baseline"}, Placed(r, S)
          PROVE  /\ records' \in [Runs -> SUBSET Record]
                 /\ applied' \in [Runs -> SUBSET {"create", "move", "baseline"}]
      <4>1. records[r] \cup AccountRecords(S) \in SUBSET Record
        BY RecordsTyped
      <4> QED
        BY <3>1, <4>1 DEF Placed
    <3>2. ASSUME Park(r, "account-move")
          PROVE  records' \in [Runs -> SUBSET Record]
      BY <3>2 DEF Park, Record
    <3>3. /\ records' \in [Runs -> SUBSET Record]
          /\ applied' \in [Runs -> SUBSET {"create", "move", "baseline"}]
      BY <2>10, <3>1, <3>2 DEF Place
    <3>4. acct[r] \in Accounts /\ input[r].dest \in OUs
      BY <2>10, HolderHolds DEF Place, HasAccount
    <3> QED
      BY <2>10, <3>3, <3>4 DEF Place, Placed, Park
  <2>11. CASE Move(r)
    <3>1. ASSUME NEW S \in SUBSET {"create", "move", "baseline"}, Placed(r, S)
          PROVE  /\ records' \in [Runs -> SUBSET Record]
                 /\ applied' \in [Runs -> SUBSET {"create", "move", "baseline"}]
      <4>1. records[r] \cup AccountRecords(S) \in SUBSET Record
        BY RecordsTyped
      <4> QED
        BY <3>1, <4>1 DEF Placed
    <3>2. ASSUME Park(r, "account-move")
          PROVE  records' \in [Runs -> SUBSET Record]
      BY <3>2 DEF Park, Record
    <3>3. /\ records' \in [Runs -> SUBSET Record]
          /\ applied' \in [Runs -> SUBSET {"create", "move", "baseline"}]
      BY <2>11, <3>1, <3>2 DEF Move
    <3>4. acct[r] \in Accounts /\ input[r].dest \in OUs
      BY <2>11, HolderHolds DEF Move, HasAccount
    <3> QED
      BY <2>11, <3>3, <3>4 DEF Move, Containers, Placed, Park
  <2>12. CASE Baseline(r)
    BY <2>12 DEF Baseline, Stop, Park, Record
  <2>13. CASE Policies(r)
    BY <2>13 DEF Policies, Stop, Park, LastRecords, Record
  <2>14. CASE Sign(r)
    BY <2>14 DEF Sign
  <2>15. CASE WriteEvidence(r)
    BY <2>15 DEF WriteEvidence, Recorded
  <2> QED
    BY <1>1, <2>1, <2>2, <2>3, <2>4, <2>5, <2>6, <2>7, <2>8, <2>9, <2>10,
       <2>11, <2>12, <2>13, <2>14, <2>15 DEF Step
<1>2. ASSUME NEW r \in Runs, Start(r)
      PROVE  TypeOK'
  BY <1>2 DEF Start
<1>3. ASSUME NEW r \in Runs, Kill(r)
      PROVE  TypeOK'
  BY <1>3 DEF Kill
<1>4. ASSUME NEW r \in Runs, Resolve(r)
      PROVE  TypeOK'
  <2>1. input[r] \in Input
    BY <1>4 DEF Resolve, InputsFixed, BeforeCreate, BeforePlace, BeforeAccount
  <2> QED
    BY <1>4, <2>1 DEF Resolve, Accounts, Containers, Input
<1>5. ASSUME NEW a \in Accounts, HumanMoves(a)
      PROVE  TypeOK'
  BY <1>5 DEF HumanMoves, Containers
<1> QED
  BY <1>1, <1>2, <1>3, <1>4, <1>5 DEF Next

\* A run's inputs and its own request id stay what they were.
LEMMA InputsPreserved ==
  ASSUME IInv, Next
  PROVE  InputsFixed'
<1> USE NamesDistinct, ParametersTyped DEF IInv, TypeOK, Steps, Ended, Goto, service,
      InputsFixed, BeforeCreate, BeforePlace, BeforeAccount, Resuming, Input
<1>1. ASSUME NEW r \in Runs, Step(r)
      PROVE  InputsFixed'
  <2>1. CASE Plan(r)
    BY <2>1 DEF Plan, PlanRefuses
  <2>2. CASE ListDest(r)
    BY <2>2 DEF ListDest, List, Matches, MayAdopt, AccountFails, Stop, Park
  <2>3. CASE ListRoot(r)
    BY <2>3 DEF ListRoot, List, Matches, MayAdopt, AccountFails, Stop, Park
  <2>4. CASE CreateAccount(r)
    BY <2>4 DEF CreateAccount, AccountFails, Stop, Park
  <2>5. CASE Poll(r)
    BY <2>5 DEF Poll, ResumedIsOurs, AccountFails, Stop, Park
  <2>6. CASE PollsRunOut(r)
    BY <2>6 DEF PollsRunOut, AccountFails, Stop, Park
  <2>7. CASE RelistDest(r)
    BY <2>7 DEF RelistDest, List, Matches, MayAdopt, AccountFails, Stop, Park
  <2>8. CASE RelistRoot(r)
    BY <2>8 DEF RelistRoot, List, Matches, MayAdopt, AccountFails, Stop, Park
  <2>9. CASE ReadBack(r)
    BY <2>9 DEF ReadBack, AccountFails, Stop, Park
  <2>10. CASE Place(r)
    BY <2>10 DEF Place, Placed, Park
  <2>11. CASE Move(r)
    BY <2>11 DEF Move, Placed, Park
  <2>12. CASE Baseline(r)
    BY <2>12 DEF Baseline, Stop, Park
  <2>13. CASE Policies(r)
    BY <2>13 DEF Policies, Stop, Park, LastRecords
  <2>14. CASE Sign(r)
    BY <2>14 DEF Sign
  <2>15. CASE WriteEvidence(r)
    BY <2>15 DEF WriteEvidence
  <2> QED
    BY <1>1, <2>1, <2>2, <2>3, <2>4, <2>5, <2>6, <2>7, <2>8, <2>9, <2>10,
       <2>11, <2>12, <2>13, <2>14, <2>15 DEF Step
<1>2. ASSUME NEW r \in Runs, Start(r)
      PROVE  InputsFixed'
  BY <1>2 DEF Start
<1>3. ASSUME NEW r \in Runs, Kill(r)
      PROVE  InputsFixed'
  BY <1>3 DEF Kill
<1>4. ASSUME NEW r \in Runs, Resolve(r)
      PROVE  InputsFixed'
  BY <1>4 DEF Resolve
<1>5. ASSUME NEW a \in Accounts, HumanMoves(a)
      PROVE  InputsFixed'
  BY <1>5 DEF HumanMoves
<1> QED
  BY <1>1, <1>2, <1>3, <1>4, <1>5 DEF Next

\* Accounts keep matching the requests that made them.
LEMMA RequestsPreserved ==
  ASSUME IInv, Next
  PROVE  AccountsMatchRequests'
<1> USE NamesDistinct, ParametersTyped DEF IInv, TypeOK, Steps, Ended, Goto, service,
      InputsFixed, BeforeCreate, BeforePlace, BeforeAccount, AccountsMatchRequests,
      Exists, Accounts, Containers, Input
<1>1. ASSUME NEW r \in Runs, Step(r)
      PROVE  AccountsMatchRequests'
  <2>1. CASE Plan(r)
    BY <2>1 DEF Plan, PlanRefuses
  <2>2. CASE ListDest(r)
    BY <2>2 DEF ListDest, List, Matches, MayAdopt, AccountFails, Stop, Park
  <2>3. CASE ListRoot(r)
    BY <2>3 DEF ListRoot, List, Matches, MayAdopt, AccountFails, Stop, Park
  <2>4. CASE CreateAccount(r)
    BY <2>4 DEF CreateAccount, AccountFails, Stop, Park
  <2>5. CASE Poll(r)
    BY <2>5 DEF Poll, ResumedIsOurs, AccountFails, Stop, Park
  <2>6. CASE PollsRunOut(r)
    BY <2>6 DEF PollsRunOut, AccountFails, Stop, Park
  <2>7. CASE RelistDest(r)
    BY <2>7 DEF RelistDest, List, Matches, MayAdopt, AccountFails, Stop, Park
  <2>8. CASE RelistRoot(r)
    BY <2>8 DEF RelistRoot, List, Matches, MayAdopt, AccountFails, Stop, Park
  <2>9. CASE ReadBack(r)
    BY <2>9 DEF ReadBack, AccountFails, Stop, Park
  <2>10. CASE Place(r)
    BY <2>10 DEF Place, Placed, Park
  <2>11. CASE Move(r)
    <3>1. acct[r] \in Accounts /\ Exists(acct[r]) /\ input[r].dest \in OUs
      BY <2>11, HolderHolds DEF Move, HasAccount
    <3> QED
      BY <2>11, <3>1 DEF Move, Placed, Park
  <2>12. CASE Baseline(r)
    BY <2>12 DEF Baseline, Stop, Park
  <2>13. CASE Policies(r)
    BY <2>13 DEF Policies, Stop, Park, LastRecords
  <2>14. CASE Sign(r)
    BY <2>14 DEF Sign
  <2>15. CASE WriteEvidence(r)
    BY <2>15 DEF WriteEvidence
  <2> QED
    BY <1>1, <2>1, <2>2, <2>3, <2>4, <2>5, <2>6, <2>7, <2>8, <2>9, <2>10,
       <2>11, <2>12, <2>13, <2>14, <2>15 DEF Step
<1>2. ASSUME NEW r \in Runs, Start(r)
      PROVE  AccountsMatchRequests'
  BY <1>2 DEF Start
<1>3. ASSUME NEW r \in Runs, Kill(r)
      PROVE  AccountsMatchRequests'
  BY <1>3 DEF Kill
<1>4. ASSUME NEW r \in Runs, Resolve(r)
      PROVE  AccountsMatchRequests'
  BY <1>4 DEF Resolve
<1>5. ASSUME NEW a \in Accounts, HumanMoves(a)
      PROVE  AccountsMatchRequests'
  BY <1>5 DEF HumanMoves
<1> QED
  BY <1>1, <1>2, <1>3, <1>4, <1>5 DEF Next

\* Addresses stay unique.
LEMMA UniquePreserved ==
  ASSUME IInv, Next
  PROVE  OneAddressOneAccount'
<1> USE NamesDistinct, ParametersTyped DEF IInv, TypeOK, Steps, Ended, Goto, service,
      InputsFixed, AccountsMatchRequests, OneAddressOneAccount, Exists, Accounts, Containers, Input
<1>1. ASSUME NEW r \in Runs, Step(r)
      PROVE  OneAddressOneAccount'
  <2>1. CASE Plan(r)
    BY <2>1 DEF Plan, PlanRefuses
  <2>2. CASE ListDest(r)
    BY <2>2 DEF ListDest, List, Matches, MayAdopt, AccountFails, Stop, Park
  <2>3. CASE ListRoot(r)
    BY <2>3 DEF ListRoot, List, Matches, MayAdopt, AccountFails, Stop, Park
  <2>4. CASE CreateAccount(r)
    BY <2>4 DEF CreateAccount, AccountFails, Stop, Park
  <2>5. CASE Poll(r)
    BY <2>5 DEF Poll, ResumedIsOurs, AccountFails, Stop, Park
  <2>6. CASE PollsRunOut(r)
    BY <2>6 DEF PollsRunOut, AccountFails, Stop, Park
  <2>7. CASE RelistDest(r)
    BY <2>7 DEF RelistDest, List, Matches, MayAdopt, AccountFails, Stop, Park
  <2>8. CASE RelistRoot(r)
    BY <2>8 DEF RelistRoot, List, Matches, MayAdopt, AccountFails, Stop, Park
  <2>9. CASE ReadBack(r)
    BY <2>9 DEF ReadBack, AccountFails, Stop, Park
  <2>10. CASE Place(r)
    BY <2>10 DEF Place, Placed, Park
  <2>11. CASE Move(r)
    <3>1. acct[r] \in Accounts /\ Exists(acct[r]) /\ input[r].dest \in OUs
      BY <2>11, HolderHolds DEF Move, HasAccount
    <3> QED
      BY <2>11, <3>1 DEF Move, Placed, Park
  <2>12. CASE Baseline(r)
    BY <2>12 DEF Baseline, Stop, Park
  <2>13. CASE Policies(r)
    BY <2>13 DEF Policies, Stop, Park, LastRecords
  <2>14. CASE Sign(r)
    BY <2>14 DEF Sign
  <2>15. CASE WriteEvidence(r)
    BY <2>15 DEF WriteEvidence
  <2> QED
    BY <1>1, <2>1, <2>2, <2>3, <2>4, <2>5, <2>6, <2>7, <2>8, <2>9, <2>10,
       <2>11, <2>12, <2>13, <2>14, <2>15 DEF Step
<1>2. ASSUME NEW r \in Runs, Start(r)
      PROVE  OneAddressOneAccount'
  BY <1>2 DEF Start
<1>3. ASSUME NEW r \in Runs, Kill(r)
      PROVE  OneAddressOneAccount'
  BY <1>3 DEF Kill
<1>4. ASSUME NEW r \in Runs, Resolve(r)
      PROVE  OneAddressOneAccount'
  BY <1>4 DEF Resolve
<1>5. ASSUME NEW a \in Accounts, HumanMoves(a)
      PROVE  OneAddressOneAccount'
  BY <1>5 DEF HumanMoves
<1> QED
  BY <1>1, <1>2, <1>3, <1>4, <1>5 DEF Next

\* A run only takes up an account the operator named.
LEMMA NamedPreserved ==
  ASSUME IInv, Next
  PROVE  AccountsAreNamed'
<1> USE NamesDistinct, ParametersTyped DEF IInv, TypeOK, Steps, Ended, Goto, service,
      InputsFixed, BeforeCreate, BeforePlace, BeforeAccount, HasAccount,
      AccountsMatchRequests, AccountsAreNamed,
      Named, Resuming, Exists, Accounts, Containers, Input
<1>1. ASSUME NEW r \in Runs, Step(r)
      PROVE  AccountsAreNamed'
  <2>1. CASE Plan(r)
    BY <2>1 DEF Plan, PlanRefuses
  <2>2. CASE ListDest(r)
    BY <2>2 DEF ListDest, List, Matches, MayAdopt, AccountFails, Stop, Park
  <2>3. CASE ListRoot(r)
    BY <2>3 DEF ListRoot, List, Matches, MayAdopt, AccountFails, Stop, Park
  <2>4. CASE CreateAccount(r)
    BY <2>4 DEF CreateAccount, AccountFails, Stop, Park
  <2>5. CASE Poll(r)
    BY <2>5 DEF Poll, ResumedIsOurs, AccountFails, Stop, Park
  <2>6. CASE PollsRunOut(r)
    BY <2>6 DEF PollsRunOut, AccountFails, Stop, Park
  <2>7. CASE RelistDest(r)
    BY <2>7 DEF RelistDest, List, Matches, MayAdopt, AccountFails, Stop, Park
  <2>8. CASE RelistRoot(r)
    BY <2>8 DEF RelistRoot, List, Matches, MayAdopt, AccountFails, Stop, Park
  <2>9. CASE ReadBack(r)
    BY <2>9 DEF ReadBack, AccountFails, Stop, Park
  <2>10. CASE Place(r)
    BY <2>10 DEF Place, Placed, Park
  <2>11. CASE Move(r)
    BY <2>11 DEF Move, Placed, Park
  <2>12. CASE Baseline(r)
    BY <2>12 DEF Baseline, Stop, Park
  <2>13. CASE Policies(r)
    BY <2>13 DEF Policies, Stop, Park, LastRecords
  <2>14. CASE Sign(r)
    BY <2>14 DEF Sign
  <2>15. CASE WriteEvidence(r)
    BY <2>15 DEF WriteEvidence
  <2> QED
    BY <1>1, <2>1, <2>2, <2>3, <2>4, <2>5, <2>6, <2>7, <2>8, <2>9, <2>10,
       <2>11, <2>12, <2>13, <2>14, <2>15 DEF Step
<1>2. ASSUME NEW r \in Runs, Start(r)
      PROVE  AccountsAreNamed'
  BY <1>2 DEF Start
<1>3. ASSUME NEW r \in Runs, Kill(r)
      PROVE  AccountsAreNamed'
  BY <1>3 DEF Kill
<1>4. ASSUME NEW r \in Runs, Resolve(r)
      PROVE  AccountsAreNamed'
  BY <1>4 DEF Resolve
<1>5. ASSUME NEW a \in Accounts, HumanMoves(a)
      PROVE  AccountsAreNamed'
  BY <1>5 DEF HumanMoves
<1> QED
  BY <1>1, <1>2, <1>3, <1>4, <1>5 DEF Next

\* Applied actions are turned into records before the run signs.
LEMMA HeldPreserved ==
  ASSUME IInv, Next
  PROVE  EffectsAreHeld'
<1> USE NamesDistinct, ParametersTyped DEF IInv, TypeOK, Steps, Ended, Goto, service,
      AccountEffects, InputsFixed, AccountsAreNamed, EffectsAreHeld,
      BeforeCreate, BeforePlace, BeforeAccount, HasAccount
<1>1. ASSUME NEW r \in Runs, Step(r)
      PROVE  EffectsAreHeld'
  <2>1. CASE Plan(r)
    BY <2>1 DEF Plan, PlanRefuses
  <2>2. CASE ListDest(r)
    BY <2>2 DEF ListDest, List, Matches, MayAdopt, AccountFails, Stop, Park
  <2>3. CASE ListRoot(r)
    BY <2>3 DEF ListRoot, List, Matches, MayAdopt, AccountFails, Stop, Park
  <2>4. CASE CreateAccount(r)
    BY <2>4 DEF CreateAccount, AccountFails, Stop, Park
  <2>5. CASE Poll(r)
    BY <2>5 DEF Poll, ResumedIsOurs, AccountFails, Stop, Park
  <2>6. CASE PollsRunOut(r)
    BY <2>6 DEF PollsRunOut, AccountFails, Stop, Park
  <2>7. CASE RelistDest(r)
    BY <2>7 DEF RelistDest, List, Matches, MayAdopt, AccountFails, Stop, Park
  <2>8. CASE RelistRoot(r)
    BY <2>8 DEF RelistRoot, List, Matches, MayAdopt, AccountFails, Stop, Park
  <2>9. CASE ReadBack(r)
    BY <2>9 DEF ReadBack, AccountFails, Stop, Park
  <2>10. CASE Place(r)
    <3>1. ASSUME NEW S, Placed(r, S), applied'[r] # {}
          PROVE  records'[r] # {}
      <4>1. S # {}
        BY <3>1 DEF Placed
      <4>2. AccountRecords(S) # {}
        BY <4>1, RecordsNonempty
      <4> QED
        BY <3>1, <4>2 DEF Placed
    <3>2. ASSUME Park(r, "account-move")
          PROVE  records'[r] # {}
      BY <3>2 DEF Park
    <3>3. applied'[r] # {} /\ pc'[r] # "move" => records'[r] # {}
      BY <2>10, <3>1, <3>2 DEF Place
    <3> QED
      BY <2>10, <3>3 DEF Place, Placed, Park
  <2>11. CASE Move(r)
    <3>1. ASSUME NEW S, Placed(r, S), applied'[r] # {}
          PROVE  records'[r] # {}
      <4>1. S # {}
        BY <3>1 DEF Placed
      <4>2. AccountRecords(S) # {}
        BY <4>1, RecordsNonempty
      <4> QED
        BY <3>1, <4>2 DEF Placed
    <3>2. ASSUME Park(r, "account-move")
          PROVE  records'[r] # {}
      BY <3>2 DEF Park
    <3>3. applied'[r] # {} /\ pc'[r] # "move" => records'[r] # {}
      BY <2>11, <3>1, <3>2 DEF Move
    <3> QED
      BY <2>11, <3>3 DEF Move, Placed, Park
  <2>12. CASE Baseline(r)
    BY <2>12 DEF Baseline, Stop, Park
  <2>13. CASE Policies(r)
    BY <2>13 DEF Policies, Stop, Park, LastRecords
  <2>14. CASE Sign(r)
    BY <2>14 DEF Sign
  <2>15. CASE WriteEvidence(r)
    BY <2>15 DEF WriteEvidence
  <2> QED
    BY <1>1, <2>1, <2>2, <2>3, <2>4, <2>5, <2>6, <2>7, <2>8, <2>9, <2>10,
       <2>11, <2>12, <2>13, <2>14, <2>15 DEF Step
<1>2. ASSUME NEW r \in Runs, Start(r)
      PROVE  EffectsAreHeld'
  BY <1>2 DEF Start
<1>3. ASSUME NEW r \in Runs, Kill(r)
      PROVE  EffectsAreHeld'
  BY <1>3 DEF Kill
<1>4. ASSUME NEW r \in Runs, Resolve(r)
      PROVE  EffectsAreHeld'
  BY <1>4 DEF Resolve
<1>5. ASSUME NEW a \in Accounts, HumanMoves(a)
      PROVE  EffectsAreHeld'
  BY <1>5 DEF HumanMoves
<1> QED
  BY <1>1, <1>2, <1>3, <1>4, <1>5 DEF Next

\* A placed account is moved again only by a run that named it, or by a human.
LEMMA PlacedPreserved ==
  ASSUME IInv, Next
  PROVE  PlacedStaysPlaced'
<1> USE NamesDistinct, ParametersTyped DEF IInv, TypeOK, Steps, Ended, Goto, service,
      InputsFixed, BeforeCreate, BeforePlace, BeforeAccount, HasAccount,
      AccountsMatchRequests, AccountsAreNamed,
      PlacedStaysPlaced, Exists, Accounts, Containers, Input
<1>1. ASSUME NEW r \in Runs, Step(r)
      PROVE  PlacedStaysPlaced'
  <2>1. CASE Plan(r)
    BY <2>1, PlacedCarries DEF Plan, PlanRefuses
  <2>2. CASE ListDest(r)
    BY <2>2, PlacedCarries DEF ListDest, List, Matches, MayAdopt, AccountFails, Stop, Park
  <2>3. CASE ListRoot(r)
    BY <2>3, PlacedCarries DEF ListRoot, List, Matches, MayAdopt, AccountFails, Stop, Park
  <2>4. CASE CreateAccount(r)
    BY <2>4, PlacedCarries DEF CreateAccount, AccountFails, Stop, Park
  <2>5. CASE Poll(r)
    BY <2>5, PlacedCarries DEF Poll, ResumedIsOurs, AccountFails, Stop, Park
  <2>6. CASE PollsRunOut(r)
    BY <2>6, PlacedCarries DEF PollsRunOut, AccountFails, Stop, Park
  <2>7. CASE RelistDest(r)
    BY <2>7, PlacedCarries DEF RelistDest, List, Matches, MayAdopt, AccountFails, Stop, Park
  <2>8. CASE RelistRoot(r)
    BY <2>8, PlacedCarries DEF RelistRoot, List, Matches, MayAdopt, AccountFails, Stop, Park
  <2>9. CASE ReadBack(r)
    BY <2>9, PlacedCarries DEF ReadBack, AccountFails, Stop, Park
  <2>10. CASE Place(r)
    BY <2>10 DEF Place, Placed, Park
  <2>11. CASE Move(r)
    <3> SUFFICES ASSUME NEW t \in Runs,
                        pc'[t] \in {"baseline", "policies"} \/ outcome'[t] = "ok"
                 PROVE  \/ parent'[acct[t]] = input[t].dest
                        \/ acct[t] \in Movable /\ parent'[acct[t]] = Outside
                        \/ \E s \in Runs \ {t} :
                              acct[s] = acct[t] /\ parent'[acct[t]] = input[s].dest
      BY <2>11 DEF Move
    <3>1. CASE parent' = [parent EXCEPT ![acct[r]] = input[r].dest]
      <4>1. acct[r] \in Accounts /\ acct[t] \in Accounts
        BY <2>11, HolderHolds DEF Move, HasAccount, Placed, Park
      <4>2. CASE acct[t] = acct[r]
        BY <3>1, <4>1, <4>2
      <4>3. CASE acct[t] # acct[r]
        BY <2>11, <3>1, <4>1, <4>3 DEF Move, Placed, Park
      <4> QED
        BY <4>2, <4>3
    <3>2. CASE UNCHANGED parent /\ t # r
      BY <2>11, <3>2 DEF Move, Placed, Park
    <3>3. CASE UNCHANGED parent /\ t = r
      BY <2>11, <3>3 DEF Move, Placed, Park
    <3> QED
      BY <2>11, <3>1, <3>2, <3>3 DEF Move
  <2>12. CASE Baseline(r)
    BY <2>12 DEF Baseline, Stop, Park
  <2>13. CASE Policies(r)
    BY <2>13 DEF Policies, Stop, Park, LastRecords
  <2>14. CASE Sign(r)
    BY <2>14, PlacedCarries DEF Sign
  <2>15. CASE WriteEvidence(r)
    BY <2>15, PlacedCarries DEF WriteEvidence
  <2> QED
    BY <1>1, <2>1, <2>2, <2>3, <2>4, <2>5, <2>6, <2>7, <2>8, <2>9, <2>10,
       <2>11, <2>12, <2>13, <2>14, <2>15 DEF Step
<1>2. ASSUME NEW r \in Runs, Start(r)
      PROVE  PlacedStaysPlaced'
  BY <1>2 DEF Start
<1>3. ASSUME NEW r \in Runs, Kill(r)
      PROVE  PlacedStaysPlaced'
  BY <1>3 DEF Kill
<1>4. ASSUME NEW r \in Runs, Resolve(r)
      PROVE  PlacedStaysPlaced'
  BY <1>4 DEF Resolve
<1>5. ASSUME NEW a \in Accounts, HumanMoves(a)
      PROVE  PlacedStaysPlaced'
  BY <1>5 DEF HumanMoves
<1> QED
  BY <1>1, <1>2, <1>3, <1>4, <1>5 DEF Next

\* A written record stays written.
LEMMA RecordPreserved ==
  ASSUME IInv, Next
  PROVE  EffectsLeaveARecord'
<1> USE NamesDistinct, ParametersTyped DEF IInv, TypeOK, Steps, Ended, Goto, service,
      AccountEffects, InputsFixed, EffectsAreHeld, EffectsLeaveARecord,
      BeforeCreate, BeforePlace, BeforeAccount, Accounts
<1>1. ASSUME NEW r \in Runs, Step(r)
      PROVE  EffectsLeaveARecord'
  <2>1. CASE Plan(r)
    BY <2>1 DEF Plan, PlanRefuses
  <2>2. CASE ListDest(r)
    BY <2>2 DEF ListDest, List, Matches, MayAdopt, AccountFails, Stop, Park
  <2>3. CASE ListRoot(r)
    BY <2>3 DEF ListRoot, List, Matches, MayAdopt, AccountFails, Stop, Park
  <2>4. CASE CreateAccount(r)
    BY <2>4 DEF CreateAccount, AccountFails, Stop, Park
  <2>5. CASE Poll(r)
    BY <2>5 DEF Poll, ResumedIsOurs, AccountFails, Stop, Park
  <2>6. CASE PollsRunOut(r)
    BY <2>6 DEF PollsRunOut, AccountFails, Stop, Park
  <2>7. CASE RelistDest(r)
    BY <2>7 DEF RelistDest, List, Matches, MayAdopt, AccountFails, Stop, Park
  <2>8. CASE RelistRoot(r)
    BY <2>8 DEF RelistRoot, List, Matches, MayAdopt, AccountFails, Stop, Park
  <2>9. CASE ReadBack(r)
    BY <2>9 DEF ReadBack, AccountFails, Stop, Park
  <2>10. CASE Place(r)
    BY <2>10 DEF Place, Placed, Park
  <2>11. CASE Move(r)
    BY <2>11 DEF Move, Placed, Park
  <2>12. CASE Baseline(r)
    BY <2>12 DEF Baseline, Stop, Park
  <2>13. CASE Policies(r)
    BY <2>13 DEF Policies, Stop, Park, LastRecords
  <2>14. CASE Sign(r)
    BY <2>14 DEF Sign
  <2>15. CASE WriteEvidence(r)
    <3> SUFFICES ASSUME NEW s \in Runs, pc'[s] = "done", AccountEffects(s)' # {}
                 PROVE  \E x \in manifest'[acct'[s]] : x.run = s
      OBVIOUS
    <3>1. CASE s = r
      <4>1. PICK x \in records[r] : TRUE
        BY <2>15, <3>1 DEF WriteEvidence
      <4>2. [run |-> r, request |-> req[r], what |-> x] \in manifest'[acct'[r]]
        BY <2>15, <3>1, <4>1 DEF WriteEvidence
      <4> QED
        BY <3>1, <4>2
    <3>2. CASE s # r
      BY <2>15, <3>2 DEF WriteEvidence
    <3> QED
      BY <3>1, <3>2
  <2> QED
    BY <1>1, <2>1, <2>2, <2>3, <2>4, <2>5, <2>6, <2>7, <2>8, <2>9, <2>10,
       <2>11, <2>12, <2>13, <2>14, <2>15 DEF Step
<1>2. ASSUME NEW r \in Runs, Start(r)
      PROVE  EffectsLeaveARecord'
  BY <1>2 DEF Start
<1>3. ASSUME NEW r \in Runs, Kill(r)
      PROVE  EffectsLeaveARecord'
  BY <1>3 DEF Kill
<1>4. ASSUME NEW r \in Runs, Resolve(r)
      PROVE  EffectsLeaveARecord'
  BY <1>4 DEF Resolve
<1>5. ASSUME NEW a \in Accounts, HumanMoves(a)
      PROVE  EffectsLeaveARecord'
  BY <1>5 DEF HumanMoves
<1> QED
  BY <1>1, <1>2, <1>3, <1>4, <1>5 DEF Next

--------------------------------------------------------------------------------
LEMMA InitInvariant == Init => IInv
<1> SUFFICES ASSUME Init PROVE IInv
  OBVIOUS
<1> USE NamesDistinct, ParametersTyped
<1>1. TypeOK
  BY DEF Init, TypeOK, Accounts
<1>2. InputsFixed /\ EffectsAreHeld /\ PlacedStaysPlaced /\ EffectsLeaveARecord
  BY DEF Init, AccountEffects, InputsFixed, EffectsAreHeld, PlacedStaysPlaced, EffectsLeaveARecord,
         BeforeCreate, BeforePlace, BeforeAccount
<1>3. AccountsMatchRequests
  <2>1. \A a \in Accounts : Exists(a) => a \in Foreign /\ email[a] # None
    BY DEF Init, Exists, Accounts
  <2>2. \A q \in Runs : request[q] = "none"
    BY DEF Init
  <2> QED
    BY <2>1, <2>2 DEF AccountsMatchRequests, Accounts
<1>4. OneAddressOneAccount
  BY DEF Init, OneAddressOneAccount, Exists, Accounts
<1>5. AccountsAreNamed
  BY DEF Init, AccountsAreNamed, HasAccount
<1> QED
  BY <1>1, <1>2, <1>3, <1>4, <1>5 DEF IInv

LEMMA StutterInvariant == IInv /\ UNCHANGED vars => IInv'
<1> SUFFICES ASSUME IInv, UNCHANGED vars PROVE IInv'
  OBVIOUS
<1> USE DEF IInv, vars
<1>1. TypeOK' /\ EffectsAreHeld' /\ EffectsLeaveARecord'
  BY DEF TypeOK, AccountEffects, EffectsAreHeld, EffectsLeaveARecord
<1>2. InputsFixed' /\ PlacedStaysPlaced'
  BY DEF InputsFixed, PlacedStaysPlaced, Resuming
<1>3. AccountsMatchRequests' /\ OneAddressOneAccount' /\ AccountsAreNamed'
  BY DEF AccountsMatchRequests, OneAddressOneAccount, AccountsAreNamed, Exists, Named, Resuming
<1> QED
  BY <1>1, <1>2, <1>3

\* Every invariant of the runs holds of every organization, every number of
\* concurrent invocations and every mixture of kills, denials and resumes.
THEOREM Invariance == Spec => []IInv
<1>1. IInv /\ [Next]_vars => IInv'
  <2> SUFFICES ASSUME IInv, Next PROVE IInv'
    BY StutterInvariant
  <2> QED
    BY TypePreserved, InputsPreserved, RequestsPreserved, UniquePreserved, NamedPreserved,
       HeldPreserved, PlacedPreserved, RecordPreserved DEF IInv
<1> QED
  BY InitInvariant, <1>1, PTL DEF Spec

\* The state stays well typed.
THEOREM TypeCorrect == Spec => []TypeOK
<1>1. IInv => TypeOK
  BY DEF IInv
<1> QED
  BY Invariance, <1>1, PTL

\* Runs given one address never work on two accounts: both hold accounts with
\* that address, and an address has one account.
THEOREM OneAccountPerAddress == Spec => []SameAddressSameAccount
<1>1. IInv => SameAddressSameAccount
  BY NamesDistinct DEF IInv, TypeOK, AccountsAreNamed, OneAddressOneAccount, Named,
     SameAddressSameAccount
<1> QED
  BY Invariance, <1>1, PTL

\* A placed account leaves its OU only at the hand of a human or of a run that
\* named it.
THEOREM Placement == Spec => []PlacedStaysPlaced
<1>1. IInv => PlacedStaysPlaced
  BY DEF IInv
<1> QED
  BY Invariance, <1>1, PTL

\* A run that created or moved an account and came to its end is in the manifest.
THEOREM Accountability == Spec => []EffectsLeaveARecord
<1>1. IInv => EffectsLeaveARecord
  BY DEF IInv
<1> QED
  BY Invariance, <1>1, PTL

\* No vend moves an account its operator did not name.
THEOREM NamedMoves == Spec => OnlyNamedAccountsMove
<1> DEFINE Good == \A a \in Accounts :
              Exists(a) /\ parent'[a] # parent[a] =>
                 \/ a \in Movable /\ parent'[a] = Outside
                 \/ \E r \in Runs : pc[r] = "move" /\ acct[r] = a /\ Named(r, a)
<1>1. IInv /\ [Next]_vars => [Good]_vars
  <2> SUFFICES ASSUME IInv, Next PROVE Good
    OBVIOUS
  <2> USE DEF IInv, TypeOK, service
  <2>1. ASSUME NEW r \in Runs, Step(r) PROVE Good
    <3>1. CASE Move(r)
      BY <3>1, HolderHolds DEF Move, HasAccount
    <3>2. CASE parent' = parent
      BY <3>2
    <3> QED
      BY <2>1, <3>1, <3>2 DEF Step, Plan, ListDest, ListRoot, CreateAccount, Poll, PollsRunOut,
         RelistDest, RelistRoot, List, ReadBack, Place, Baseline, Policies, Sign, WriteEvidence
  <2>2. ASSUME NEW r \in Runs, Start(r) \/ Kill(r) PROVE Good
    BY <2>2 DEF Start, Kill
  <2>3. ASSUME NEW r \in Runs, Resolve(r) PROVE Good
    BY <2>3 DEF Resolve, AccountsMatchRequests, Exists
  <2>4. ASSUME NEW a \in Accounts, HumanMoves(a) PROVE Good
    BY <2>4 DEF HumanMoves
  <2> QED
    BY <2>1, <2>2, <2>3, <2>4 DEF Next
<1> QED
  BY Invariance, <1>1, PTL DEF Spec, OnlyNamedAccountsMove

================================================================================
