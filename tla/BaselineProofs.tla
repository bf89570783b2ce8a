----------------------------- MODULE BaselineProofs -----------------------------
(***************************************************************************)
(* Proofs about Baseline, for any runs, pieces, regions, stubs and         *)
(* accounts: its types; that a vend that ends well left everything in      *)
(* force; and that the protective policy comes to a finished account only. *)
(* What a run has passed is in force, and a pack that is not deployed has  *)
(* its vend waiting or gone: that is the inductive invariant.              *)
(***************************************************************************)
EXTENDS Baseline, TLAPS

LEMMA Lists ==
  /\ Len(Enable) \in Nat /\ Len(Disable) \in Nat /\ Len(Stubs) \in Nat
  /\ Len(Work) = Len(Enable) + Len(Disable)
  /\ DOMAIN Work = 1..Len(Work) /\ DOMAIN Stubs = 1..Len(Stubs)
  /\ DOMAIN Enable = 1..Len(Enable) /\ DOMAIN Disable = 1..Len(Disable)
  /\ \A i \in 1..Len(Work) : Work[i] \in Regions
  /\ \A i \in 1..Len(Stubs) : Stubs[i] \in Files
  /\ \A i \in 1..Len(Enable) : Work[i] = Enable[i]
  /\ \A i \in 1..Len(Disable) : Work[Len(Enable) + i] = Disable[i]
  /\ \A i, j \in 1..Len(Work) : Work[i] = Work[j] => i = j
  /\ \A i, j \in 1..Len(Stubs) : Stubs[i] = Stubs[j] => i = j
<1>1. Enable \in Seq(Regions) /\ Disable \in Seq(Regions) /\ Stubs \in Seq(Files)
  BY Parameters
<1>2. Work \in Seq(Regions) /\ Len(Work) = Len(Enable) + Len(Disable)
  BY <1>1 DEF Work
<1>3. /\ \A i \in 1..Len(Enable) : Work[i] = Enable[i]
      /\ \A i \in 1..Len(Disable) : Work[Len(Enable) + i] = Disable[i]
  BY <1>1 DEF Work
<1>4. /\ Len(Enable) \in Nat /\ Len(Disable) \in Nat /\ Len(Stubs) \in Nat
      /\ DOMAIN Work = 1..Len(Work) /\ DOMAIN Stubs = 1..Len(Stubs)
      /\ DOMAIN Enable = 1..Len(Enable) /\ DOMAIN Disable = 1..Len(Disable)
  BY <1>1, <1>2
<1>5. /\ \A i \in 1..Len(Work) : Work[i] \in Regions
      /\ \A i \in 1..Len(Stubs) : Stubs[i] \in Files
  BY <1>4 DEF Regions, Files
<1>6. /\ \A i, j \in 1..Len(Work) : Work[i] = Work[j] => i = j
      /\ \A i, j \in 1..Len(Stubs) : Stubs[i] = Stubs[j] => i = j
  BY <1>4, Parameters
<1> QED
  BY <1>2, <1>3, <1>4, <1>5, <1>6

\* The first piece asked for.
LEMMA FirstAsked ==
  ASSUME NEW n \in 1..6
  PROVE  \E m \in n..6 : Pieces[m] \in Asked /\ \A k \in n..(m - 1) : Pieces[k] \notin Asked
<1> DEFINE P(i) == \E m \in i..6 : Pieces[m] \in Asked /\ \A k \in i..(m - 1) : Pieces[k] \notin Asked
<1>1. P(6)
  BY Parameters DEF Pieces
<1>2. ASSUME NEW i \in 1..5, P(i + 1) PROVE P(i)
  <2>1. CASE Pieces[i] \in Asked
    BY <2>1
  <2>2. CASE Pieces[i] \notin Asked
    <3>1. PICK m \in (i + 1)..6 :
            Pieces[m] \in Asked /\ \A k \in (i + 1)..(m - 1) : Pieces[k] \notin Asked
      BY <1>2
    <3>2. \A k \in i..(m - 1) : Pieces[k] \notin Asked
      BY <2>2, <3>1
    <3> QED
      BY <3>1, <3>2
  <2> QED
    BY <2>1, <2>2
<1>3. P(5)
  BY <1>1, <1>2
<1>4. P(4)
  BY <1>2, <1>3
<1>5. P(3)
  BY <1>2, <1>4
<1>6. P(2)
  BY <1>2, <1>5
<1>7. P(1)
  BY <1>2, <1>6
<1> QED
  BY <1>1, <1>3, <1>4, <1>5, <1>6, <1>7

LEMMA NextStep ==
  ASSUME NEW n \in 1..6
  PROVE  \E m \in n..6 : /\ Step(n) = Entry[Pieces[m]]
                         /\ \A k \in n..(m - 1) : Pieces[k] \notin Asked
<1> DEFINE P(m) == Pieces[m] \in Asked /\ \A k \in n..(m - 1) : Pieces[k] \notin Asked
<1>1. \E m \in n..6 : P(m)
  BY FirstAsked
<1>2. PICK m : m = CHOOSE i \in n..6 : P(i)
  OBVIOUS
<1>3. m \in n..6 /\ P(m)
  BY <1>1, <1>2
<1>4. Len(Pieces) = 6
  BY DEF Pieces
<1>5. Step(n) = Entry[Pieces[m]]
  BY <1>2, <1>4 DEF Step
<1> QED
  BY <1>3, <1>5

LEMMA Entries ==
  /\ Entry[Pieces[1]] = "getRole" /\ Entry[Pieces[2]] = "listRegions"
  /\ Entry[Pieces[3]] = "lookStub" /\ Entry[Pieces[4]] = "describePack"
  /\ Entry[Pieces[5]] = "describeRecorder" /\ Entry[Pieces[6]] = "attach"
  /\ \A m \in 1..6 : Entry[Pieces[m]] \in Steps
BY DEF Entry, Pieces, Steps

--------------------------------------------------------------------------------
(***************************************************************************)
(* The account.                                                            *)
(***************************************************************************)
RegionOK(i) == AsAsked(i, aws.region[Work[i]])

\* Nothing of what the profile asks for is taken back.
AwsKept ==
  /\ \A i \in 1..Len(Work) : RegionOK(i) => RegionOK(i)'
  /\ aws.role = "want" => aws'.role = "want"
  /\ aws.pack = "want" => aws'.pack = "want"
  /\ aws.recorder = "want" => aws'.recorder = "want"
  /\ aws.recording => aws'.recording
  /\ aws.channel = "want" => aws'.channel = "want"

LEMMA Still == ASSUME aws \in Account, aws' = aws PROVE aws' \in Account /\ AwsKept
BY DEF AwsKept, RegionOK

LEMMA WantedPut ==
  ASSUME aws \in Account,
         \/ ~RoleExists /\ aws' = RoleCreated
         \/ aws' \in {RoleTagged, RolePolicyPut, RecorderPut, RecorderStarted, ChannelPut}
         \/ \E r \in Runs : aws' = PackPut(r)
         \/ aws' = [aws EXCEPT !.protected = TRUE]
         \/ aws' = [aws EXCEPT !.protected = FALSE]
  PROVE  aws' \in Account /\ AwsKept
<1>1. aws'.region = aws.region
  BY DEF Account, RoleCreated, RoleTagged, RolePolicyPut, RecorderPut, RecorderStarted,
         ChannelPut, PackPut
<1>2. aws' \in Account
  <2>1. CASE \E r \in Runs : aws' = PackPut(r)
    <3>1. PICK r \in Runs : aws' = PackPut(r)
      BY <2>1
    <3>2. {r} \in SUBSET Runs
      OBVIOUS
    <3> QED
      BY <3>1, <3>2 DEF PackPut, Account
  <2>2. CASE ~ \E r \in Runs : aws' = PackPut(r)
    BY <2>2 DEF Account, RoleCreated, RoleTagged, RolePolicyPut, RecorderPut, RecorderStarted,
                ChannelPut
  <2> QED
    BY <2>1, <2>2
<1>3. aws.role = "want" => aws'.role = "want"
  BY DEF Account, RoleExists, RoleCreated, RoleTagged, RolePolicyPut, RecorderPut,
         RecorderStarted, ChannelPut, PackPut
<1>4. aws.pack = "want" => aws'.pack = "want"
  BY DEF Account, RoleExists, RoleCreated, RoleTagged, RolePolicyPut, RecorderPut,
         RecorderStarted, ChannelPut, PackPut
<1>5. aws.recorder = "want" => aws'.recorder = "want"
  BY DEF Account, RoleExists, RoleCreated, RoleTagged, RolePolicyPut, RecorderPut,
         RecorderStarted, ChannelPut, PackPut
<1>6. aws.recording => aws'.recording
  BY DEF Account, RoleExists, RoleCreated, RoleTagged, RolePolicyPut, RecorderPut,
         RecorderStarted, ChannelPut, PackPut
<1>7. aws.channel = "want" => aws'.channel = "want"
  BY DEF Account, RoleExists, RoleCreated, RoleTagged, RolePolicyPut, RecorderPut,
         RecorderStarted, ChannelPut, PackPut
<1>8. \A i \in 1..Len(Work) : RegionOK(i) => RegionOK(i)'
  BY <1>1 DEF RegionOK
<1> QED
  BY <1>2, <1>3, <1>4, <1>5, <1>6, <1>7, <1>8 DEF AwsKept

\* A call about one region goes the way the profile asks for that region.
LEMMA RegionMoves ==
  ASSUME aws \in Account, NEW j \in 1..Len(Work), NEW status \in OptIn,
         AsAsked(j, status), aws' = RegionGoing(Work[j], status)
  PROVE  aws' \in Account /\ AwsKept /\ RegionOK(j)'
<1>1. Work[j] \in Regions /\ aws.region \in [Regions -> OptIn]
  BY Lists DEF Account
<1>2. /\ aws' \in Account
      /\ aws'.region = [aws.region EXCEPT ![Work[j]] = status]
  BY <1>1 DEF Account, RegionGoing
<1>3. RegionOK(j)'
  BY <1>1, <1>2 DEF RegionOK
<1>4. ASSUME NEW i \in 1..Len(Work), i # j PROVE aws'.region[Work[i]] = aws.region[Work[i]]
  BY <1>1, <1>2, <1>4, Lists
<1>5. \A i \in 1..Len(Work) : RegionOK(i) => RegionOK(i)'
  BY <1>3, <1>4 DEF RegionOK
<1>6. /\ aws'.role = aws.role /\ aws'.pack = aws.pack /\ aws'.recorder = aws.recorder
      /\ aws'.recording = aws.recording /\ aws'.channel = aws.channel
  BY DEF Account, RegionGoing
<1> QED
  BY <1>2, <1>3, <1>5, <1>6 DEF AwsKept

LEMMA Arrives ==
  ASSUME aws \in Account, NEW name \in Regions, RegionArrives(name)
  PROVE  aws' \in Account /\ AwsKept
<1> DEFINE status == IF aws.region[name] = "enabling" THEN "enabled" ELSE "disabled"
<1>1. aws.region \in [Regions -> OptIn] /\ status \in OptIn
  BY DEF Account, OptIn
<1>2. aws' = RegionGoing(name, status) /\ aws.region[name] \in {"enabling", "disabling"}
  BY DEF RegionArrives
<1>3. aws' \in Account /\ aws'.region = [aws.region EXCEPT ![name] = status]
  BY <1>1, <1>2 DEF Account, RegionGoing
<1>4. ASSUME NEW i \in 1..Len(Work), RegionOK(i) PROVE RegionOK(i)'
  <2>1. CASE Work[i] = name
    BY <1>1, <1>2, <1>3, <1>4, <2>1 DEF RegionOK, AsAsked
  <2>2. CASE Work[i] # name
    BY <1>1, <1>3, <1>4, <2>2, Lists DEF RegionOK
  <2> QED
    BY <2>1, <2>2
<1>5. /\ aws'.role = aws.role /\ aws'.pack = aws.pack /\ aws'.recorder = aws.recorder
      /\ aws'.recording = aws.recording /\ aws'.channel = aws.channel
  BY <1>2 DEF Account, RegionGoing
<1> QED
  BY <1>3, <1>4, <1>5 DEF AwsKept

LEMMA Deployed ==
  ASSUME aws \in Account, PackDeployed PROVE aws' \in Account /\ AwsKept
<1>1. PICK end \in {"complete", "failed"} : aws' = [aws EXCEPT !.packState = end]
  BY DEF PackDeployed
<1>2. aws' \in Account /\ aws'.region = aws.region
  BY <1>1 DEF Account
<1> QED
  BY <1>1, <1>2 DEF AwsKept, RegionOK, Account

--------------------------------------------------------------------------------
(***************************************************************************)
(* The inductive invariant: what a run has passed is in force.             *)
(***************************************************************************)
InRole     == {"getRole", "createRole", "tagRole", "putFirstPolicy", "getPolicy", "putPolicy"}
InRegions  == {"listRegions", "region", "pollRegion"}
InStubs    == {"lookStub", "createStub", "writeStub"}
InPack     == {"describePack", "putPack", "pollPack"}
InRecorder == {"describeRecorder", "putRecorder", "recorderStatus", "startRecorder",
               "describeChannel", "putChannel"}

\* The piece a step belongs to.
Stage(step) ==
  CASE step \in InRole     -> 1
    [] step \in InRegions  -> 2
    [] step \in InStubs    -> 3
    [] step \in InPack     -> 4
    [] step \in InRecorder -> 5
    [] step = "attach"     -> 6
    [] step = "done"       -> 7
    [] OTHER               -> 0

\* The i-th stub has been emptied by s, which has not written it since.
Emptied(s, i) == pc[s] \in {"stopped", "killed"} \/ (pc[s] = "writeStub" /\ at[s] = i)

StubPassed(r, i) ==
  /\ stub[Stubs[i]] # "absent"
  /\ stub[Stubs[i]] = "empty" => \E s \in Runs \ {r} : Emptied(s, i)

Sound(r, piece) ==
  CASE piece = "regions" -> \A i \in 1..Len(Work) : RegionOK(i)
    [] piece = "stubs"   -> \A i \in 1..Len(Stubs) : StubPassed(r, i)
    [] piece = "pack"    -> aws.pack = "want"
    [] OTHER             -> InForce(piece)

Passed(r) ==
  \A k \in 1..6 : k < Stage(pc[r]) /\ Pieces[k] \in Asked => Sound(r, Pieces[k])

Position(r) ==
  /\ pc[r] \in {"idle"} \cup InRole => at[r] = 1
  /\ pc[r] = "region" => at[r] <= Len(Work) + 1
  /\ pc[r] = "pollRegion" => at[r] <= Len(Work)
  /\ pc[r] = "lookStub" => at[r] <= Len(Stubs) + 1
  /\ pc[r] \in {"createStub", "writeStub"} => at[r] <= Len(Stubs)

\* What a run has done of the piece it is at.
Within(r) ==
  /\ pc[r] \in {"region", "pollRegion"} =>
       \A i \in 1..Len(Work) : i < at[r] \/ AsAsked(i, seen[r][Work[i]]) => RegionOK(i)
  /\ pc[r] = "pollRegion" => RegionOK(at[r])
  /\ pc[r] \in InStubs => \A i \in 1..Len(Stubs) : i < at[r] => StubPassed(r, i)
  /\ pc[r] = "pollPack" => aws.pack = "want"
  /\ pc[r] \in {"recorderStatus", "startRecorder", "describeChannel", "putChannel"} =>
       aws.recorder = "want"
  /\ pc[r] \in {"describeChannel", "putChannel"} => aws.recording

Fine(r) == Position(r) /\ Passed(r) /\ Within(r)

IInv == TypeOK /\ \A r \in Runs : Fine(r)

StubsKept(r) == \A i \in 1..Len(Stubs) : StubPassed(r, i) => StubPassed(r, i)'

LEMMA SoundKept ==
  ASSUME AwsKept, NEW r \in Runs, StubsKept(r), NEW k \in 1..6, Sound(r, Pieces[k])
  PROVE  Sound(r, Pieces[k])'
<1>1. CASE k \in {2, 3}
  BY <1>1 DEF Sound, Pieces, AwsKept, StubsKept
<1>2. CASE k \in {1, 4, 5, 6}
  BY <1>2 DEF Sound, Pieces, AwsKept, InForce
<1> QED
  BY <1>1, <1>2

\* A run that does nothing loses nothing.
LEMMA Bystander ==
  ASSUME NEW r \in Runs, Fine(r), AwsKept, StubsKept(r),
         pc'[r] = pc[r], at'[r] = at[r], seen'[r] = seen[r],
         pc[r] = "pollRegion" => at[r] \in 1..Len(Work)
  PROVE  Fine(r)'
<1>1. Position(r)'
  BY DEF Fine, Position
<1>2. Passed(r)'
  BY SoundKept DEF Fine, Passed
<1>3. Within(r)'
  BY DEF Fine, Within, AwsKept, StubsKept
<1> QED
  BY <1>1, <1>2, <1>3 DEF Fine

\* A run that ends early claims nothing.
LEMMA GivesUp ==
  ASSUME NEW r \in Runs, pc'[r] \in {"parked", "stopped", "killed"}
  PROVE  Fine(r)'
<1>1. Stage(pc'[r]) = 0
  BY DEF Stage, InRole, InRegions, InStubs, InPack, InRecorder
<1> QED
  BY <1>1 DEF Fine, Position, Passed, Within, InRole, InStubs

LEMMA Stages ==
  /\ \A n \in 1..6 : Stage(Entry[Pieces[n]]) = n
  /\ \A step \in InRole : Stage(step) = 1
  /\ \A step \in InRegions : Stage(step) = 2
  /\ \A step \in InStubs : Stage(step) = 3
  /\ \A step \in InPack : Stage(step) = 4
  /\ \A step \in InRecorder : Stage(step) = 5
  /\ Stage("idle") = 0 /\ Stage("attach") = 6 /\ Stage("done") = 7
BY DEF Stage, Entry, Pieces, InRole, InRegions, InStubs, InPack, InRecorder

\* A run that goes on to another step of the same piece.
LEMMA SamePiece ==
  ASSUME NEW r \in Runs, Fine(r), AwsKept, StubsKept(r), Stage(pc'[r]) = Stage(pc[r])
  PROVE  Passed(r)'
BY SoundKept DEF Fine, Passed

\* A run that goes on to the n-th piece or, when that is not asked for, beyond it.
LEMMA NextPiece ==
  ASSUME NEW r \in Runs, Fine(r), AwsKept, StubsKept(r), NEW n \in 1..6,
         pc'[r] = Step(n), Stage(pc[r]) = n - 1, at'[r] = 1 \/ n > 3,
         n > 1 => Sound(r, Pieces[n - 1])'
  PROVE  Fine(r)'
<1>1. PICK m \in n..6 : /\ Step(n) = Entry[Pieces[m]]
                        /\ \A k \in n..(m - 1) : Pieces[k] \notin Asked
  BY NextStep
<1>2. Stage(pc'[r]) = m
  BY <1>1, Stages
<1>3. ASSUME NEW k \in 1..6, k < m, Pieces[k] \in Asked PROVE Sound(r, Pieces[k])'
  <2>1. CASE k < n - 1
    BY <1>3, <2>1, SoundKept DEF Fine, Passed
  <2>2. CASE k = n - 1
    BY <2>2
  <2>3. CASE k \in n..(m - 1)
    BY <1>1, <1>3, <2>3
  <2> QED
    BY <1>3, <2>1, <2>2, <2>3
<1>4. Passed(r)'
  BY <1>2, <1>3 DEF Passed
<1>5. Position(r)'
  <2>1. CASE at'[r] = 1
    BY <1>1, <2>1, Entries, Lists DEF Position, InRole
  <2>2. CASE n > 3
    <3>1. pc'[r] \in {"describePack", "describeRecorder", "attach"}
      BY <1>1, <2>2, Entries
    <3> QED
      BY <3>1 DEF Position, InRole
  <2> QED
    BY <2>1, <2>2
<1>6. Within(r)'
  BY <1>1, Entries DEF Within, InStubs
<1> QED
  BY <1>4, <1>5, <1>6 DEF Fine

--------------------------------------------------------------------------------
(***************************************************************************)
(* One lemma per action.                                                   *)
(***************************************************************************)
LEMMA StubsLeft ==
  ASSUME NEW r \in Runs, stub' = stub,
         pc[r] \notin {"writeStub", "stopped", "killed"} \/ pc'[r] \in {"stopped", "killed"},
         \A s \in Runs \ {r} : pc'[s] = pc[s] /\ at'[s] = at[s]
  PROVE  \A q \in Runs : StubsKept(q)
<1> SUFFICES ASSUME NEW q \in Runs, NEW i \in 1..Len(Stubs), StubPassed(q, i)
             PROVE  StubPassed(q, i)'
  BY DEF StubsKept
<1>1. \A s \in Runs : Emptied(s, i) => Emptied(s, i)'
  BY DEF Emptied
<1> QED
  BY <1>1 DEF StubPassed

\* The others are as they were.
LEMMA Settled ==
  ASSUME IInv, NEW r \in Runs, TypeOK', AwsKept, \A q \in Runs : StubsKept(q), Fine(r)',
         \A s \in Runs \ {r} : pc'[s] = pc[s] /\ at'[s] = at[s] /\ seen'[s] = seen[s]
  PROVE  IInv'
<1> SUFFICES ASSUME NEW q \in Runs, q # r PROVE Fine(q)'
  BY DEF IInv
<1>1. pc[q] = "pollRegion" => at[q] \in 1..Len(Work)
  BY Lists DEF IInv, Fine, Position, TypeOK
<1> QED
  BY <1>1, Bystander DEF IInv

\* A step that writes no stub and does not move along the lists.
LEMMA Called ==
  ASSUME IInv, NEW r \in Runs, pc[r] \in Steps \cup {"idle"}, pc[r] # "writeStub",
         NEW step \in Steps \cup Ended,
         pc' = [pc EXCEPT ![r] = step], UNCHANGED <<stub, at, seen>>,
         aws' \in Account, AwsKept, polls' \in [Runs -> 0..MaxPolls],
         StubsKept(r) => step = "parked" \/ Fine(r)'
  PROVE  IInv'
<1>1. pc[r] \notin {"writeStub", "stopped", "killed"}
  BY DEF Steps
<1>2. \A q \in Runs : StubsKept(q)
  BY <1>1, StubsLeft
<1>3. pc'[r] = step /\ TypeOK'
  BY DEF IInv, TypeOK
<1>4. Fine(r)'
  BY <1>2, <1>3, GivesUp
<1> QED
  BY <1>2, <1>3, <1>4, Settled

LEMMA GetRoleStep ==
  ASSUME IInv, NEW r \in Runs, GetRole(r) PROVE IInv' /\ AwsKept
<1>1. /\ pc[r] = "getRole" /\ aws' = aws /\ UNCHANGED <<stub, at, seen, polls>>
      /\ \E step \in {"createRole", "getPolicy", "parked"} : pc' = [pc EXCEPT ![r] = step]
  BY DEF GetRole, Read, Call, Goto
<1>2. PICK step \in {"createRole", "getPolicy", "parked"} : pc' = [pc EXCEPT ![r] = step]
  BY <1>1
<1>3. aws' \in Account /\ AwsKept /\ pc'[r] = step
  BY <1>1, <1>2, Still DEF IInv, TypeOK
<1>4. ASSUME StubsKept(r), step # "parked" PROVE Fine(r)'
  <2>1. Passed(r)'
    BY <1>1, <1>3, <1>4, SamePiece, Stages DEF InRole, IInv
  <2> QED
    BY <1>1, <1>3, <1>4, <2>1 DEF IInv, Fine, Position, Within, InRole, InStubs
<1> QED
  BY <1>1, <1>2, <1>3, <1>4, Called DEF IInv, TypeOK, Steps, Ended

LEMMA CreateRoleStep ==
  ASSUME IInv, NEW r \in Runs, CreateRole(r) PROVE IInv' /\ AwsKept
<1>1. /\ pc[r] = "createRole" /\ UNCHANGED <<stub, at, seen, polls>>
      /\ aws' = aws \/ (~RoleExists /\ aws' = RoleCreated)
      /\ \E step \in {"tagRole", "parked"} : pc' = [pc EXCEPT ![r] = step]
  BY DEF CreateRole, Call, Goto
<1>2. PICK step \in {"tagRole", "parked"} : pc' = [pc EXCEPT ![r] = step]
  BY <1>1
<1>3. aws' \in Account /\ AwsKept /\ pc'[r] = step
  BY <1>1, <1>2, Still, WantedPut DEF IInv, TypeOK
<1>4. ASSUME StubsKept(r), step # "parked" PROVE Fine(r)'
  <2>1. Passed(r)'
    BY <1>1, <1>3, <1>4, SamePiece, Stages DEF InRole, IInv
  <2> QED
    BY <1>1, <1>3, <1>4, <2>1 DEF IInv, Fine, Position, Within, InRole, InStubs
<1> QED
  BY <1>1, <1>2, <1>3, <1>4, Called DEF IInv, TypeOK, Steps, Ended

LEMMA TagRoleStep ==
  ASSUME IInv, NEW r \in Runs, TagRole(r) PROVE IInv' /\ AwsKept
<1>1. /\ pc[r] = "tagRole" /\ UNCHANGED <<stub, at, seen, polls>>
      /\ aws' = aws \/ aws' = RoleTagged
      /\ \E step \in {"putFirstPolicy", "parked"} : pc' = [pc EXCEPT ![r] = step]
  BY DEF TagRole, Call, Goto
<1>2. PICK step \in {"putFirstPolicy", "parked"} : pc' = [pc EXCEPT ![r] = step]
  BY <1>1
<1>3. aws' \in Account /\ AwsKept /\ pc'[r] = step
  BY <1>1, <1>2, Still, WantedPut DEF IInv, TypeOK
<1>4. ASSUME StubsKept(r), step # "parked" PROVE Fine(r)'
  <2>1. Passed(r)'
    BY <1>1, <1>3, <1>4, SamePiece, Stages DEF InRole, IInv
  <2> QED
    BY <1>1, <1>3, <1>4, <2>1 DEF IInv, Fine, Position, Within, InRole, InStubs
<1> QED
  BY <1>1, <1>2, <1>3, <1>4, Called DEF IInv, TypeOK, Steps, Ended

LEMMA NextSteps == \A n \in 1..6 : Step(n) \in Steps
  BY NextStep, Entries

LEMMA GetPolicyStep ==
  ASSUME IInv, NEW r \in Runs, GetPolicy(r) PROVE IInv' /\ AwsKept
<1>1. /\ pc[r] = "getPolicy" /\ aws' = aws /\ UNCHANGED <<stub, at, seen, polls>>
      /\ \E step \in {Step(2), "putPolicy", "parked"} :
            /\ pc' = [pc EXCEPT ![r] = step]
            /\ step = "putPolicy" \/ step = "parked" \/ (step = Step(2) /\ aws.role = "want")
  BY DEF GetPolicy, Read, Call, Goto, SamePolicy
<1>2. PICK step \in {Step(2), "putPolicy", "parked"} :
            /\ pc' = [pc EXCEPT ![r] = step]
            /\ step = "putPolicy" \/ step = "parked" \/ (step = Step(2) /\ aws.role = "want")
  BY <1>1
<1>3. aws' \in Account /\ AwsKept /\ pc'[r] = step /\ at'[r] = 1
  BY <1>1, <1>2, Still DEF IInv, TypeOK, Fine, Position, InRole
<1>4. ASSUME StubsKept(r), step # "parked" PROVE Fine(r)'
  <2>1. CASE step = "putPolicy"
    <3>1. Passed(r)'
      BY <1>1, <1>3, <1>4, <2>1, SamePiece, Stages DEF InRole, IInv
    <3> QED
      BY <1>1, <1>3, <2>1, <3>1 DEF IInv, Fine, Position, Within, InRole, InStubs
  <2>2. CASE step = Step(2) /\ aws.role = "want"
    <3>1. Sound(r, Pieces[1])'
      BY <1>1, <2>2 DEF Sound, Pieces, InForce
    <3>2. Stage(pc[r]) = 1
      BY <1>1, Stages DEF InRole
    <3> QED
      BY <1>3, <1>4, <2>2, <3>1, <3>2, NextPiece DEF IInv
  <2> QED
    BY <1>2, <1>4, <2>1, <2>2
<1>5. step \in Steps \cup Ended
  BY NextSteps DEF Steps, Ended
<1> QED
  BY <1>1, <1>2, <1>3, <1>4, <1>5, Called DEF IInv, TypeOK, Steps

LEMMA PutRolePolicyStep ==
  ASSUME IInv, NEW r \in Runs, PutRolePolicy(r) PROVE IInv' /\ AwsKept
<1>1. /\ pc[r] \in {"putFirstPolicy", "putPolicy"} /\ UNCHANGED <<stub, at, seen, polls>>
      /\ aws' = aws \/ aws' = RolePolicyPut
      /\ \E step \in {Step(2), "parked"} :
            /\ pc' = [pc EXCEPT ![r] = step]
            /\ step = "parked" \/ (step = Step(2) /\ aws' = RolePolicyPut)
  BY DEF PutRolePolicy, Call, Goto
<1>2. PICK step \in {Step(2), "parked"} :
            /\ pc' = [pc EXCEPT ![r] = step]
            /\ step = "parked" \/ (step = Step(2) /\ aws' = RolePolicyPut)
  BY <1>1
<1>3. aws' \in Account /\ AwsKept /\ pc'[r] = step /\ at'[r] = 1
  BY <1>1, <1>2, Still, WantedPut DEF IInv, TypeOK, Fine, Position, InRole
<1>4. ASSUME StubsKept(r), step # "parked" PROVE Fine(r)'
  <2>1. step = Step(2) /\ aws' = RolePolicyPut
    BY <1>2, <1>4
  <2>2. Sound(r, Pieces[1])'
    BY <2>1 DEF Sound, Pieces, InForce, RolePolicyPut, IInv, TypeOK, Account
  <2>3. Stage(pc[r]) = 1
    BY <1>1, Stages DEF InRole
  <2> QED
    BY <1>3, <1>4, <2>1, <2>2, <2>3, NextPiece DEF IInv
<1>5. step \in Steps \cup Ended
  BY NextSteps DEF Ended
<1> QED
  BY <1>1, <1>2, <1>3, <1>4, <1>5, Called DEF IInv, TypeOK, Steps

LEMMA ListRegionsStep ==
  ASSUME IInv, NEW r \in Runs, ListRegions(r) PROVE IInv' /\ AwsKept
<1>1. /\ pc[r] = "listRegions" /\ aws' = aws /\ stub' = stub /\ polls' = polls
      /\ seen' = [seen EXCEPT ![r] = aws.region] /\ at' = [at EXCEPT ![r] = 1]
      /\ \E step \in {"region", "parked"} : pc' = [pc EXCEPT ![r] = step]
  BY DEF ListRegions, Goto
<1>2. PICK step \in {"region", "parked"} : pc' = [pc EXCEPT ![r] = step]
  BY <1>1
<1>3. aws' \in Account /\ AwsKept
  BY <1>1, Still DEF IInv, TypeOK
<1>4. TypeOK'
  BY <1>1, <1>2, <1>3, Lists DEF IInv, TypeOK, Account, Steps, Ended
<1>5. pc'[r] = step /\ at'[r] = 1 /\ seen'[r] = aws.region
  BY <1>1, <1>2 DEF IInv, TypeOK
<1>6. /\ \A s \in Runs \ {r} : pc'[s] = pc[s] /\ at'[s] = at[s] /\ seen'[s] = seen[s]
      /\ \A q \in Runs : StubsKept(q)
  BY <1>1, <1>2, StubsLeft DEF IInv, TypeOK
<1>7. ASSUME step = "region" PROVE Fine(r)'
  <2>1. Passed(r)'
    BY <1>1, <1>3, <1>5, <1>6, <1>7, SamePiece, Stages DEF InRegions, IInv
  <2>2. Position(r)'
    BY <1>5, <1>7, Lists DEF Position, InRole
  <2>3. \A i \in 1..Len(Work) : i < at'[r] \/ AsAsked(i, seen'[r][Work[i]]) => RegionOK(i)'
    BY <1>1, <1>5 DEF RegionOK
  <2>4. Within(r)'
    BY <1>5, <1>7, <2>3 DEF Within, InStubs
  <2> QED
    BY <2>1, <2>2, <2>4 DEF Fine
<1>8. Fine(r)'
  BY <1>2, <1>5, <1>7, GivesUp
<1> QED
  BY <1>3, <1>4, <1>6, <1>8, Settled

\* Work is done: on to the stubs.
LEMMA RegionsDoneStep ==
  ASSUME IInv, NEW r \in Runs, pc[r] = "region", at[r] > Len(Work),
         at' = [at EXCEPT ![r] = 1], pc' = [pc EXCEPT ![r] = Step(3)],
         UNCHANGED <<aws, stub, seen, polls>>
  PROVE  IInv' /\ AwsKept
<1>1. aws' \in Account /\ AwsKept
  BY Still DEF IInv, TypeOK
<1>2. TypeOK'
  BY <1>1, Lists, NextSteps DEF IInv, TypeOK, Steps, Ended
<1>3. pc'[r] = Step(3) /\ at'[r] = 1 /\ at[r] \in Nat
  BY Lists DEF IInv, TypeOK
<1>4. /\ \A s \in Runs \ {r} : pc'[s] = pc[s] /\ at'[s] = at[s] /\ seen'[s] = seen[s]
      /\ \A q \in Runs : StubsKept(q)
  BY StubsLeft DEF IInv, TypeOK
<1>5. \A i \in 1..Len(Work) : RegionOK(i)
  BY <1>3, Lists DEF IInv, Fine, Within
<1>6. Sound(r, Pieces[2])'
  BY <1>1, <1>5 DEF Sound, Pieces, AwsKept
<1>7. Fine(r)'
  BY <1>1, <1>3, <1>4, <1>6, NextPiece, Stages DEF InRegions, IInv
<1> QED
  BY <1>1, <1>2, <1>4, <1>7, Settled

\* A region left alone was as asked in the snapshot, and still is.
LEMMA RegionSkippedStep ==
  ASSUME IInv, NEW r \in Runs, pc[r] = "region", at[r] <= Len(Work),
         AsAsked(at[r], seen[r][Work[at[r]]]),
         at' = [at EXCEPT ![r] = at[r] + 1], UNCHANGED <<aws, stub, pc, seen, polls>>
  PROVE  IInv' /\ AwsKept
<1>1. aws' \in Account /\ AwsKept
  BY Still DEF IInv, TypeOK
<1>2. at[r] \in 1..Len(Work) /\ at'[r] = at[r] + 1 /\ pc'[r] = "region" /\ seen'[r] = seen[r]
  BY Lists DEF IInv, TypeOK
<1>3. TypeOK'
  BY <1>1, <1>2, Lists DEF IInv, TypeOK
<1>4. /\ \A s \in Runs \ {r} : pc'[s] = pc[s] /\ at'[s] = at[s] /\ seen'[s] = seen[s]
      /\ \A q \in Runs : StubsKept(q)
  BY StubsLeft DEF IInv, TypeOK
<1>5. Passed(r)'
  BY <1>1, <1>2, <1>4, SamePiece DEF IInv
<1>6. Position(r)'
  BY <1>2, Lists DEF Position, InRole
<1>7. ASSUME NEW i \in 1..Len(Work), i < at'[r] \/ AsAsked(i, seen'[r][Work[i]])
      PROVE  RegionOK(i)'
  <2>1. i < at[r] \/ AsAsked(i, seen[r][Work[i]])
    BY <1>2, <1>7, Lists
  <2> QED
    BY <1>1, <2>1 DEF IInv, Fine, Within, AwsKept
<1>8. Within(r)'
  BY <1>2, <1>7 DEF Within, InStubs
<1> QED
  BY <1>1, <1>3, <1>4, <1>5, <1>6, <1>8, Settled DEF Fine

\* EnableRegion or DisableRegion.
LEMMA RegionCalledStep ==
  ASSUME IInv, NEW r \in Runs, pc[r] = "region", at[r] <= Len(Work),
         NEW status, AsAsked(at[r], status), status \in OptIn,
         NEW step \in {"pollRegion", "parked"}, pc' = [pc EXCEPT ![r] = step],
         step = "pollRegion" => aws' = RegionGoing(Work[at[r]], status),
         aws' = aws \/ aws' = RegionGoing(Work[at[r]], status),
         UNCHANGED <<stub, at, seen>>, polls' = [polls EXCEPT ![r] = 0]
  PROVE  IInv' /\ AwsKept
<1>1. at[r] \in 1..Len(Work) /\ aws \in Account
  BY Lists DEF IInv, TypeOK
<1>2. aws' \in Account /\ AwsKept /\ (step = "pollRegion" => RegionOK(at[r])')
  BY <1>1, Still, RegionMoves
<1>3. polls' \in [Runs -> 0..MaxPolls] /\ pc'[r] = step
  BY Parameters DEF IInv, TypeOK
<1>4. ASSUME StubsKept(r), step # "parked" PROVE Fine(r)'
  <2>1. step = "pollRegion" /\ at'[r] = at[r] /\ seen'[r] = seen[r]
    BY <1>4
  <2>2. Passed(r)'
    BY <1>2, <1>3, <1>4, <2>1, SamePiece, Stages DEF InRegions, IInv
  <2>3. Position(r)'
    BY <1>1, <1>3, <2>1, Lists DEF Position, InRole
  <2>4. Within(r)'
    BY <1>2, <1>3, <2>1 DEF IInv, Fine, Within, AwsKept, InStubs
  <2> QED
    BY <2>2, <2>3, <2>4 DEF Fine
<1> QED
  BY <1>2, <1>3, <1>4, Called DEF Steps, Ended

LEMMA RegionStep ==
  ASSUME IInv, NEW r \in Runs, Region(r) PROVE IInv' /\ AwsKept
<1>1. at[r] \in Nat /\ pc[r] = "region"
  BY DEF Region, IInv, TypeOK
<1>2. CASE at[r] > Len(Work)
  BY <1>1, <1>2, RegionsDoneStep, Lists DEF Region, Goto
<1>3. CASE at[r] <= Len(Work) /\ AsAsked(at[r], seen[r][Work[at[r]]])
  BY <1>1, <1>3, RegionSkippedStep, Lists DEF Region
<1>4. CASE at[r] <= Len(Work) /\ ~AsAsked(at[r], seen[r][Work[at[r]]])
  <2>1. polls' = [polls EXCEPT ![r] = 0] /\ UNCHANGED <<stub, at, seen>>
    BY <1>1, <1>4, Lists DEF Region, Call
  <2> DEFINE status == IF at[r] <= Len(Enable) THEN "enabling" ELSE "disabling"
  <2>2. status \in OptIn /\ AsAsked(at[r], status)
    BY DEF OptIn, AsAsked
  <2>3. /\ aws' = aws \/ aws' = RegionGoing(Work[at[r]], status)
        /\ \/ pc' = [pc EXCEPT ![r] = "pollRegion"] /\ aws' = RegionGoing(Work[at[r]], status)
           \/ pc' = [pc EXCEPT ![r] = "parked"]
    BY <1>1, <1>4, Lists DEF Region, Call, Goto
  <2> HIDE DEF status
  <2> QED
    BY <1>1, <1>4, <2>1, <2>2, <2>3, RegionCalledStep
<1> QED
  BY <1>1, <1>2, <1>3, <1>4, Lists

LEMMA Polled ==
  ASSUME NEW r \in Runs, polls \in [Runs -> 0..MaxPolls],
         polls' = polls \/ (polls[r] < MaxPolls /\ polls' = [polls EXCEPT ![r] = polls[r] + 1])
  PROVE  polls' \in [Runs -> 0..MaxPolls]
<1>1. CASE polls' = polls
  BY <1>1
<1>2. CASE polls[r] < MaxPolls /\ polls' = [polls EXCEPT ![r] = polls[r] + 1]
  <2>1. polls[r] + 1 \in 0..MaxPolls
    BY <1>2, Parameters
  <2> QED
    BY <1>2, <2>1
<1> QED
  BY <1>1, <1>2

LEMMA PollRegionStep ==
  ASSUME IInv, NEW r \in Runs, PollRegion(r) PROVE IInv' /\ AwsKept
<1>1. /\ pc[r] = "pollRegion" /\ UNCHANGED <<aws, stub, seen>>
      /\ at[r] \in 1..Len(Work)
  BY Lists DEF PollRegion, IInv, TypeOK, Fine, Position
<1>2. aws' \in Account /\ AwsKept /\ polls' \in [Runs -> 0..MaxPolls]
  <2>1. aws' \in Account /\ AwsKept
    BY <1>1, Still DEF IInv, TypeOK
  <2>2. polls' = polls \/ (polls[r] < MaxPolls /\ polls' = [polls EXCEPT ![r] = polls[r] + 1])
    BY DEF PollRegion, PollsLeft
  <2>3. polls' \in [Runs -> 0..MaxPolls]
    BY <2>2, Polled DEF IInv, TypeOK
  <2> QED
    BY <2>1, <2>3
<1>3. CASE at' = [at EXCEPT ![r] = @ + 1] /\ pc' = [pc EXCEPT ![r] = "region"]
  <2>1. pc'[r] = "region" /\ at'[r] = at[r] + 1 /\ seen'[r] = seen[r]
    BY <1>1, <1>3 DEF IInv, TypeOK
  <2>2. TypeOK'
    BY <1>1, <1>2, <1>3, Lists DEF IInv, TypeOK, Steps, Ended
  <2>3. /\ \A s \in Runs \ {r} : pc'[s] = pc[s] /\ at'[s] = at[s] /\ seen'[s] = seen[s]
        /\ \A q \in Runs : StubsKept(q)
    BY <1>1, <1>3, StubsLeft DEF IInv, TypeOK
  <2>4. Passed(r)'
    BY <1>1, <1>2, <2>1, <2>3, SamePiece, Stages DEF InRegions, IInv
  <2>5. Position(r)'
    BY <1>1, <2>1, Lists DEF Position, InRole
  <2>6. ASSUME NEW i \in 1..Len(Work), i < at'[r] \/ AsAsked(i, seen'[r][Work[i]])
        PROVE  RegionOK(i)'
    <3>1. i < at[r] \/ i = at[r] \/ AsAsked(i, seen[r][Work[i]])
      BY <1>1, <2>1, <2>6, Lists
    <3> QED
      BY <1>1, <1>2, <3>1 DEF IInv, Fine, Within, AwsKept
  <2>7. Within(r)'
    BY <2>1, <2>6 DEF Within, InStubs
  <2> QED
    BY <1>2, <2>2, <2>3, <2>4, <2>5, <2>7, Settled DEF Fine
<1>4. CASE at' = at /\ \E step \in {"pollRegion", "parked"} : pc' = [pc EXCEPT ![r] = step]
  <2>1. PICK step \in {"pollRegion", "parked"} : pc' = [pc EXCEPT ![r] = step]
    BY <1>4
  <2>2. ASSUME StubsKept(r), step # "parked" PROVE Fine(r)'
    <3>1. pc'[r] = pc[r] /\ at'[r] = at[r] /\ seen'[r] = seen[r]
      BY <1>1, <1>4, <2>1, <2>2 DEF IInv, TypeOK
    <3> QED
      BY <1>1, <1>2, <2>2, <3>1, Bystander DEF IInv
  <2> QED
    BY <1>1, <1>2, <1>4, <2>1, <2>2, Called DEF Steps, Ended
<1>5. \/ at' = [at EXCEPT ![r] = @ + 1] /\ pc' = [pc EXCEPT ![r] = "region"]
      \/ at' = at /\ \E step \in {"pollRegion", "parked"} : pc' = [pc EXCEPT ![r] = step]
  <2>1. pc' = pc => pc' = [pc EXCEPT ![r] = "pollRegion"]
    BY <1>1 DEF IInv, TypeOK
  <2> QED
    BY <2>1 DEF PollRegion, Goto
<1> QED
  BY <1>3, <1>4, <1>5

--------------------------------------------------------------------------------
\* The stubs: the run itself, then what the others see of it.
LEMMA StubTypes ==
  ASSUME IInv, NEW r \in Runs, pc[r] \in InStubs
  PROVE  /\ at[r] \in Nat /\ at[r] >= 1 /\ at[r] <= Len(Stubs) + 1
         /\ pc[r] # "lookStub" => at[r] \in 1..Len(Stubs)
         /\ at[r] \in 1..Len(Stubs) => Stubs[at[r]] \in Files
BY Lists DEF IInv, TypeOK, Fine, Position, InStubs

LEMMA LookStubStep ==
  ASSUME IInv, NEW r \in Runs, LookStub(r) PROVE IInv' /\ AwsKept
<1>1. pc[r] = "lookStub" /\ UNCHANGED <<aws, stub, seen, polls>>
  BY DEF LookStub
<1>2. aws' \in Account /\ AwsKept /\ polls' \in [Runs -> 0..MaxPolls]
  BY <1>1, Still DEF IInv, TypeOK
<1>3. CASE at' = at /\ at[r] > Len(Stubs) /\ pc' = [pc EXCEPT ![r] = Step(4)]
  <2>1. ASSUME StubsKept(r) PROVE Fine(r)'
    <3>1. pc'[r] = Step(4)
      BY <1>3 DEF IInv, TypeOK
    <3>2. \A i \in 1..Len(Stubs) : StubPassed(r, i)
      BY <1>1, <1>3, StubTypes, Lists DEF IInv, Fine, Within, InStubs
    <3>3. Sound(r, Pieces[3])'
      BY <2>1, <3>2 DEF Sound, Pieces, StubsKept
    <3>4. Stage(pc[r]) = 3
      BY <1>1, Stages DEF InStubs
    <3> QED
      BY <1>2, <2>1, <3>1, <3>3, <3>4, NextPiece DEF IInv
  <2>2. Step(4) \in Steps \cup Ended
    BY NextSteps
  <2> QED
    BY <1>1, <1>2, <1>3, <2>1, <2>2, Called DEF Steps
<1>4. CASE at' = at /\ at[r] <= Len(Stubs) /\ pc' = [pc EXCEPT ![r] = "createStub"]
  <2>1. ASSUME StubsKept(r) PROVE Fine(r)'
    <3>1. pc'[r] = "createStub"
      BY <1>4 DEF IInv, TypeOK
    <3>2. Passed(r)'
      BY <1>1, <1>2, <2>1, <3>1, SamePiece, Stages DEF InStubs, IInv
    <3>3. Position(r)'
      BY <1>4, <3>1 DEF Position, InRole
    <3>4. Within(r)'
      BY <1>1, <1>4, <2>1, <3>1 DEF IInv, Fine, Within, InStubs, StubsKept
    <3> QED
      BY <3>2, <3>3, <3>4 DEF Fine
  <2> QED
    BY <1>1, <1>2, <1>4, <2>1, Called DEF Steps, Ended
<1>5. CASE /\ at' = [at EXCEPT ![r] = @ + 1] /\ pc' = pc /\ at[r] <= Len(Stubs)
           /\ stub[Stubs[at[r]]] \notin {"absent", "empty"}
  <2>1. pc'[r] = "lookStub" /\ at'[r] = at[r] + 1 /\ at[r] \in 1..Len(Stubs)
    BY <1>1, <1>5, StubTypes, Lists DEF IInv, TypeOK, InStubs
  <2>2. TypeOK'
    BY <1>1, <1>2, <1>5, <2>1, Lists DEF IInv, TypeOK
  <2>3. /\ \A s \in Runs \ {r} : pc'[s] = pc[s] /\ at'[s] = at[s] /\ seen'[s] = seen[s]
        /\ \A q \in Runs : StubsKept(q)
    BY <1>1, <1>5, StubsLeft DEF IInv, TypeOK
  <2>4. Passed(r)'
    BY <1>1, <1>2, <2>1, <2>3, SamePiece DEF IInv
  <2>5. Position(r)'
    BY <2>1, Lists DEF Position, InRole
  <2>6. ASSUME NEW i \in 1..Len(Stubs), i < at'[r] PROVE StubPassed(r, i)'
    <3>1. CASE i = at[r]
      BY <1>1, <1>5, <3>1 DEF StubPassed
    <3>2. CASE i < at[r]
      BY <1>1, <2>3, <3>2 DEF IInv, Fine, Within, InStubs, StubsKept
    <3> QED
      BY <2>1, <2>6, <3>1, <3>2
  <2>7. Within(r)'
    BY <2>1, <2>6 DEF Within, InStubs
  <2> QED
    BY <1>2, <2>2, <2>3, <2>4, <2>5, <2>7, Settled DEF Fine
<1>6. CASE at' = at /\ pc' = [pc EXCEPT ![r] = "stopped"]
  <2>1. ASSUME StubsKept(r) PROVE Fine(r)'
    BY <1>6, GivesUp DEF IInv, TypeOK
  <2> QED
    BY <1>1, <1>2, <1>6, <2>1, Called DEF Steps, Ended
<1> QED
  BY <1>1, <1>3, <1>4, <1>5, <1>6, StubTypes, Lists DEF LookStub, Goto, InStubs

\* A stub is emptied: its writer answers for it.
LEMMA CreateStubStep ==
  ASSUME IInv, NEW r \in Runs, CreateStub(r) PROVE IInv' /\ AwsKept
<1>1. pc[r] = "createStub" /\ UNCHANGED <<aws, at, seen, polls>> /\ at[r] \in 1..Len(Stubs)
  BY StubTypes DEF CreateStub, InStubs
<1>2. aws' \in Account /\ AwsKept /\ polls' \in [Runs -> 0..MaxPolls]
  BY <1>1, Still DEF IInv, TypeOK
<1>3. CASE stub' = stub /\ pc' = [pc EXCEPT ![r] = "stopped"]
  <2>1. ASSUME StubsKept(r) PROVE Fine(r)'
    BY <1>3, GivesUp DEF IInv, TypeOK
  <2> QED
    BY <1>1, <1>2, <1>3, <2>1, Called DEF Steps, Ended
<1>4. CASE /\ stub' = [stub EXCEPT ![Stubs[at[r]]] = "empty"]
           /\ pc' = [pc EXCEPT ![r] = "writeStub"]
  <2>1. pc'[r] = "writeStub" /\ at'[r] = at[r] /\ TypeOK'
    BY <1>1, <1>2, <1>4, StubTypes DEF IInv, TypeOK, Steps, Ended, Content, InStubs
  <2>2. ASSUME NEW q \in Runs, NEW i \in 1..Len(Stubs), StubPassed(q, i), q # r \/ i # at[r]
        PROVE  StubPassed(q, i)'
    <3>1. \A s \in Runs : Emptied(s, i) => Emptied(s, i)'
      BY <1>1, <1>4 DEF Emptied, IInv, TypeOK
    <3>2. CASE i = at[r]
      <4>1. Emptied(r, i)' /\ r \in Runs \ {q}
        BY <2>1, <2>2, <3>2 DEF Emptied
      <4>2. stub'[Stubs[i]] = "empty"
        BY <1>1, <1>4, <3>2, Lists DEF IInv, TypeOK
      <4> QED
        BY <4>1, <4>2 DEF StubPassed
    <3>3. CASE i # at[r]
      <4>1. stub'[Stubs[i]] = stub[Stubs[i]]
        BY <1>1, <1>4, <3>3, Lists DEF IInv, TypeOK
      <4> QED
        BY <2>2, <3>1, <4>1 DEF StubPassed
    <3> QED
      BY <3>2, <3>3
  <2>3. \A q \in Runs \ {r} : StubsKept(q)
    BY <2>2 DEF StubsKept
  <2>4. \A s \in Runs \ {r} : pc'[s] = pc[s] /\ at'[s] = at[s] /\ seen'[s] = seen[s]
    BY <1>1, <1>4 DEF IInv, TypeOK
  <2>5. Passed(r)'
    <3>1. Stage(pc'[r]) = 3 /\ Stage(pc[r]) = 3
      BY <1>1, <2>1, Stages DEF InStubs
    <3> SUFFICES ASSUME NEW k \in 1..6, k < 3, Pieces[k] \in Asked PROVE Sound(r, Pieces[k])'
      BY <3>1 DEF Passed
    <3>2. Sound(r, Pieces[k])
      BY <3>1 DEF IInv, Fine, Passed
    <3> QED
      BY <1>2, <3>2 DEF Sound, Pieces, AwsKept, InForce
  <2>6. Position(r)' /\ Within(r)'
    BY <1>1, <2>1, <2>2 DEF IInv, Fine, Position, Within, InRole, InStubs
  <2>7. ASSUME NEW q \in Runs, q # r PROVE Fine(q)'
    <3>1. pc[q] = "pollRegion" => at[q] \in 1..Len(Work)
      BY Lists DEF IInv, Fine, Position, TypeOK
    <3> QED
      BY <1>2, <2>3, <2>4, <2>7, <3>1, Bystander DEF IInv
  <2> QED
    BY <1>2, <2>1, <2>5, <2>6, <2>7 DEF IInv, Fine
<1> QED
  BY <1>3, <1>4 DEF CreateStub, Goto

\* A stub is written, or in part when the write fails.
LEMMA WriteStubStep ==
  ASSUME IInv, NEW r \in Runs, WriteStub(r) PROVE IInv' /\ AwsKept
<1>1. pc[r] = "writeStub" /\ UNCHANGED <<aws, seen, polls>> /\ at[r] \in 1..Len(Stubs)
  BY StubTypes DEF WriteStub, InStubs
<1>2. aws' \in Account /\ AwsKept /\ polls' \in [Runs -> 0..MaxPolls]
  BY <1>1, Still DEF IInv, TypeOK
<1>3. CASE stub' = stub /\ at' = at /\ pc' = [pc EXCEPT ![r] = "stopped"]
  <2>1. \A q \in Runs : StubsKept(q)
    BY <1>1, <1>3, StubsLeft DEF IInv, TypeOK
  <2>2. TypeOK' /\ pc'[r] = "stopped"
    BY <1>1, <1>2, <1>3 DEF IInv, TypeOK, Ended
  <2>3. \A s \in Runs \ {r} : pc'[s] = pc[s] /\ at'[s] = at[s] /\ seen'[s] = seen[s]
    BY <1>1, <1>3 DEF IInv, TypeOK
  <2> QED
    BY <1>2, <2>1, <2>2, <2>3, GivesUp, Settled
<1>4. CASE \E text \in {"draft", "part"} : stub' = [stub EXCEPT ![Stubs[at[r]]] = text]
  <2>1. PICK text \in {"draft", "part"} : stub' = [stub EXCEPT ![Stubs[at[r]]] = text]
    BY <1>4
  <2>2. \/ at' = [at EXCEPT ![r] = @ + 1] /\ pc' = [pc EXCEPT ![r] = "lookStub"]
        \/ at' = at /\ pc' = [pc EXCEPT ![r] = "stopped"]
    BY DEF WriteStub, Goto
  <2>3. stub'[Stubs[at[r]]] = text /\ stub' \in [Files -> Content]
    BY <1>1, <2>1, Lists DEF IInv, TypeOK, Content
  <2>4. TypeOK'
    <3>1. at[r] + 1 \in 1..(Len(Work) + Len(Stubs) + 1)
      BY <1>1, Lists
    <3>2. at' \in [Runs -> 1..(Len(Work) + Len(Stubs) + 1)]
      BY <2>2, <3>1 DEF IInv, TypeOK
    <3>3. pc' \in [Runs -> {"idle"} \cup Steps \cup Ended]
      BY <2>2 DEF IInv, TypeOK, Steps, Ended
    <3> QED
      BY <1>1, <1>2, <2>3, <3>2, <3>3 DEF IInv, TypeOK
  <2>5. \A s \in Runs \ {r} : pc'[s] = pc[s] /\ at'[s] = at[s] /\ seen'[s] = seen[s]
    BY <1>1, <2>2 DEF IInv, TypeOK
  <2> DEFINE Passes(q, i) == StubPassed(q, i)'
  <2>6. \A q \in Runs : \A i \in 1..Len(Stubs) : i = at[r] => Passes(q, i)
    BY <2>1, <2>3 DEF StubPassed
  <2>7. ASSUME NEW q \in Runs, NEW i \in 1..Len(Stubs), StubPassed(q, i), i # at[r]
        PROVE  Passes(q, i)
    <3>1. stub'[Stubs[i]] = stub[Stubs[i]]
      BY <1>1, <2>1, <2>7, Lists DEF IInv, TypeOK
    <3>2. \A s \in Runs : Emptied(s, i) => Emptied(s, i)'
      BY <1>1, <2>5, <2>7 DEF Emptied
    <3> QED
      BY <2>7, <3>1, <3>2 DEF StubPassed
  <2>8. \A q \in Runs : StubsKept(q)
    BY <2>6, <2>7 DEF StubsKept
  <2>9. Fine(r)'
    <3>1. CASE at' = at /\ pc' = [pc EXCEPT ![r] = "stopped"]
      BY <3>1, GivesUp DEF IInv, TypeOK
    <3>2. CASE at' = [at EXCEPT ![r] = @ + 1] /\ pc' = [pc EXCEPT ![r] = "lookStub"]
      <4>1. pc'[r] = "lookStub" /\ at'[r] = at[r] + 1
        BY <1>1, <3>2 DEF IInv, TypeOK
      <4>2. Passed(r)'
        BY <1>1, <1>2, <2>8, <4>1, SamePiece, Stages DEF InStubs, IInv
      <4>3. Position(r)'
        BY <1>1, <4>1, Lists DEF Position, InRole
      <4>4. \A i \in 1..Len(Stubs) : i < at'[r] => i = at[r] \/ i < at[r]
        BY <1>1, <4>1, Lists
      <4>5. ASSUME NEW i \in 1..Len(Stubs), i < at'[r] PROVE StubPassed(r, i)'
        <5>1. CASE i = at[r]
          BY <2>6, <5>1
        <5>2. CASE i < at[r]
          BY <1>1, <2>8, <5>2 DEF IInv, Fine, Within, InStubs, StubsKept
        <5> QED
          BY <4>4, <4>5, <5>1, <5>2
      <4>6. Within(r)'
        BY <4>1, <4>5 DEF Within, InStubs
      <4> QED
        BY <4>2, <4>3, <4>6 DEF Fine
    <3> QED
      BY <2>2, <3>1, <3>2
  <2> QED
    BY <1>2, <2>4, <2>5, <2>8, <2>9, Settled
<1> QED
  BY <1>3, <1>4 DEF WriteStub, Goto

--------------------------------------------------------------------------------
LEMMA DescribePackStep ==
  ASSUME IInv, NEW r \in Runs, DescribePack(r) PROVE IInv' /\ AwsKept
<1>1. pc[r] = "describePack" /\ aws' = aws /\ UNCHANGED <<stub, at, seen, polls>>
  BY DEF DescribePack, Read, Call
<1>2. PICK step \in {Step(5), "putPack", "parked"} :
            /\ pc' = [pc EXCEPT ![r] = step]
            /\ step = "putPack" \/ step = "parked" \/ (step = Step(5) /\ aws.pack = "want")
  BY DEF DescribePack, Read, Call, Goto, SamePack
<1>3. aws' \in Account /\ AwsKept /\ pc'[r] = step
  BY <1>1, <1>2, Still DEF IInv, TypeOK
<1>4. Stage(pc[r]) = 4
  BY <1>1, Stages DEF InPack
<1>5. ASSUME StubsKept(r), step # "parked" PROVE Fine(r)'
  <2>1. CASE step = "putPack"
    <3>1. Passed(r)'
      BY <1>3, <1>4, <1>5, <2>1, SamePiece, Stages DEF InPack, IInv
    <3> QED
      BY <1>3, <2>1, <3>1 DEF Fine, Position, Within, InRole, InStubs
  <2>2. CASE step = Step(5) /\ aws.pack = "want"
    <3>1. Sound(r, Pieces[4])'
      BY <1>1, <2>2 DEF Sound, Pieces, InForce
    <3> QED
      BY <1>3, <1>4, <1>5, <2>2, <3>1, NextPiece DEF IInv
  <2> QED
    BY <1>2, <1>5, <2>1, <2>2
<1>6. step \in Steps \cup Ended
  BY NextSteps DEF Steps, Ended
<1> QED
  BY <1>1, <1>2, <1>3, <1>5, <1>6, Called DEF IInv, TypeOK, Steps

LEMMA PutPackStep ==
  ASSUME IInv, NEW r \in Runs, PutPack(r) PROVE IInv' /\ AwsKept
<1>1. /\ pc[r] = "putPack" /\ UNCHANGED <<stub, at, seen>>
      /\ polls' = [polls EXCEPT ![r] = 0] /\ (aws' = aws \/ aws' = PackPut(r))
  BY DEF PutPack, Call
<1>2. PICK step \in {"pollPack", "parked"} :
            /\ pc' = [pc EXCEPT ![r] = step]
            /\ step = "pollPack" => aws' = PackPut(r)
  BY DEF PutPack, Call, Goto
<1>3. aws' \in Account /\ AwsKept /\ pc'[r] = step
  BY <1>1, <1>2, Still, WantedPut DEF IInv, TypeOK
<1>4. ASSUME StubsKept(r), step # "parked" PROVE Fine(r)'
  <2>1. step = "pollPack" /\ aws'.pack = "want"
    BY <1>2, <1>4 DEF PackPut, IInv, TypeOK, Account
  <2>2. Passed(r)'
    BY <1>1, <1>3, <1>4, <2>1, SamePiece, Stages DEF InPack, IInv
  <2> QED
    BY <1>3, <2>1, <2>2 DEF Fine, Position, Within, InRole, InStubs
<1>5. polls' \in [Runs -> 0..MaxPolls]
  BY <1>1, Parameters DEF IInv, TypeOK
<1> QED
  BY <1>1, <1>2, <1>3, <1>4, <1>5, Called DEF Steps, Ended

LEMMA PollPackStep ==
  ASSUME IInv, NEW r \in Runs, PollPack(r) PROVE IInv' /\ AwsKept
<1>1. pc[r] = "pollPack" /\ aws' = aws /\ UNCHANGED <<stub, at, seen>>
  BY DEF PollPack
<1>2. polls' = polls \/ (polls[r] < MaxPolls /\ polls' = [polls EXCEPT ![r] = polls[r] + 1])
  BY DEF PollPack, PollsLeft
<1>3. polls' \in [Runs -> 0..MaxPolls]
  BY <1>2, Polled DEF IInv, TypeOK
<1>4. PICK step \in {Step(5), "pollPack", "parked"} : pc' = [pc EXCEPT ![r] = step]
  <2>1. pc' = pc => pc' = [pc EXCEPT ![r] = "pollPack"]
    BY <1>1 DEF IInv, TypeOK
  <2> QED
    BY <2>1 DEF PollPack, Goto
<1>5. aws' \in Account /\ AwsKept /\ pc'[r] = step
  BY <1>1, <1>4, Still DEF IInv, TypeOK
<1>6. Stage(pc[r]) = 4 /\ aws.pack = "want"
  BY <1>1, Stages DEF InPack, IInv, Fine, Within
<1>7. ASSUME StubsKept(r), step # "parked" PROVE Fine(r)'
  <2>1. CASE step = "pollPack"
    <3>1. Passed(r)'
      BY <1>5, <1>6, <1>7, <2>1, SamePiece, Stages DEF InPack, IInv
    <3> QED
      BY <1>1, <1>5, <1>6, <2>1, <3>1 DEF Fine, Position, Within, InRole, InStubs
  <2>2. CASE step = Step(5)
    <3>1. Sound(r, Pieces[4])'
      BY <1>1, <1>6 DEF Sound, Pieces, InForce
    <3> QED
      BY <1>5, <1>6, <1>7, <2>2, <3>1, NextPiece DEF IInv
  <2> QED
    BY <1>4, <1>7, <2>1, <2>2
<1>8. step \in Steps \cup Ended
  BY NextSteps DEF Steps, Ended
<1> QED
  BY <1>1, <1>3, <1>4, <1>5, <1>7, <1>8, Called DEF Steps

--------------------------------------------------------------------------------
LEMMA DescribeRecorderStep ==
  ASSUME IInv, NEW r \in Runs, DescribeRecorder(r) PROVE IInv' /\ AwsKept
<1>1. /\ pc[r] = "describeRecorder" /\ UNCHANGED <<stub, at, seen, polls>>
      /\ aws' = aws
  BY DEF DescribeRecorder, Read, Call
<1>2. PICK step \in {"recorderStatus", "putRecorder", "parked"} :
            /\ pc' = [pc EXCEPT ![r] = step]
            /\ step = "recorderStatus" => aws.recorder = "want"
  BY DEF DescribeRecorder, Read, Call, Goto, SameRecorder
<1>3. aws' \in Account /\ AwsKept /\ pc'[r] = step
  BY <1>1, <1>2, Still DEF IInv, TypeOK
<1>4. ASSUME StubsKept(r), step # "parked" PROVE Fine(r)'
  <2>1. step = "recorderStatus" => aws'.recorder = "want"
    BY <1>1, <1>2
  <2>2. Passed(r)'
    BY <1>1, <1>2, <1>3, <1>4, SamePiece, Stages DEF InRecorder, IInv
  <2> QED
    BY <1>2, <1>3, <1>4, <2>1, <2>2 DEF Fine, Position, Within, InRole, InStubs
<1> QED
  BY <1>1, <1>2, <1>3, <1>4, Called DEF IInv, TypeOK, Steps, Ended

LEMMA PutRecorderStep ==
  ASSUME IInv, NEW r \in Runs, PutRecorder(r) PROVE IInv' /\ AwsKept
<1>1. /\ pc[r] = "putRecorder" /\ UNCHANGED <<stub, at, seen, polls>>
      /\ aws' = aws \/ aws' = RecorderPut
  BY DEF PutRecorder, Call
<1>2. PICK step \in {"recorderStatus", "parked"} :
            /\ pc' = [pc EXCEPT ![r] = step]
            /\ step = "recorderStatus" => aws' = RecorderPut
  BY DEF PutRecorder, Call, Goto
<1>3. aws' \in Account /\ AwsKept /\ pc'[r] = step
  BY <1>1, <1>2, Still, WantedPut DEF IInv, TypeOK
<1>4. ASSUME StubsKept(r), step # "parked" PROVE Fine(r)'
  <2>1. aws'.recorder = "want"
    BY <1>2, <1>4 DEF RecorderPut, IInv, TypeOK, Account
  <2>2. Passed(r)'
    BY <1>1, <1>2, <1>3, <1>4, SamePiece, Stages DEF InRecorder, IInv
  <2> QED
    BY <1>2, <1>3, <1>4, <2>1, <2>2 DEF Fine, Position, Within, InRole, InStubs
<1> QED
  BY <1>1, <1>2, <1>3, <1>4, Called DEF IInv, TypeOK, Steps, Ended

LEMMA RecorderStatusStep ==
  ASSUME IInv, NEW r \in Runs, RecorderStatus(r) PROVE IInv' /\ AwsKept
<1>1. /\ pc[r] = "recorderStatus" /\ UNCHANGED <<stub, at, seen, polls>>
      /\ aws' = aws
  BY DEF RecorderStatus, Read, Call
<1>2. PICK step \in {"describeChannel", "startRecorder", "parked"} :
            /\ pc' = [pc EXCEPT ![r] = step]
            /\ step = "describeChannel" => aws.recording
  BY DEF RecorderStatus, Read, Call, Goto
<1>3. aws' \in Account /\ AwsKept /\ pc'[r] = step
  BY <1>1, <1>2, Still DEF IInv, TypeOK
<1>4. ASSUME StubsKept(r), step # "parked" PROVE Fine(r)'
  <2>1. aws'.recorder = "want" /\ (step = "describeChannel" => aws'.recording)
    BY <1>1, <1>2 DEF IInv, Fine, Within
  <2>2. Passed(r)'
    BY <1>1, <1>2, <1>3, <1>4, SamePiece, Stages DEF InRecorder, IInv
  <2> QED
    BY <1>2, <1>3, <1>4, <2>1, <2>2 DEF Fine, Position, Within, InRole, InStubs
<1> QED
  BY <1>1, <1>2, <1>3, <1>4, Called DEF IInv, TypeOK, Steps, Ended

LEMMA StartRecorderStep ==
  ASSUME IInv, NEW r \in Runs, StartRecorder(r) PROVE IInv' /\ AwsKept
<1>1. /\ pc[r] = "startRecorder" /\ UNCHANGED <<stub, at, seen, polls>>
      /\ aws' = aws \/ aws' = RecorderStarted
  BY DEF StartRecorder, Call
<1>2. PICK step \in {"describeChannel", "parked"} :
            /\ pc' = [pc EXCEPT ![r] = step]
            /\ step = "describeChannel" => aws' = RecorderStarted
  BY DEF StartRecorder, Call, Goto
<1>3. aws' \in Account /\ AwsKept /\ pc'[r] = step
  BY <1>1, <1>2, Still, WantedPut DEF IInv, TypeOK
<1>4. ASSUME StubsKept(r), step # "parked" PROVE Fine(r)'
  <2>1. aws'.recorder = "want" /\ aws'.recording
    BY <1>1, <1>2, <1>3, <1>4 DEF RecorderStarted, IInv, TypeOK, Account, Fine, Within, AwsKept
  <2>2. Passed(r)'
    BY <1>1, <1>2, <1>3, <1>4, SamePiece, Stages DEF InRecorder, IInv
  <2> QED
    BY <1>2, <1>3, <1>4, <2>1, <2>2 DEF Fine, Position, Within, InRole, InStubs
<1> QED
  BY <1>1, <1>2, <1>3, <1>4, Called DEF IInv, TypeOK, Steps, Ended

LEMMA DescribeChannelStep ==
  ASSUME IInv, NEW r \in Runs, DescribeChannel(r) PROVE IInv' /\ AwsKept
<1>1. /\ pc[r] = "describeChannel" /\ UNCHANGED <<stub, at, seen, polls>>
      /\ aws' = aws
  BY DEF DescribeChannel, Read, Call
<1>2. PICK step \in {"putChannel", "attach", "parked"} :
            /\ pc' = [pc EXCEPT ![r] = step]
            /\ step = "attach" => aws.channel = "want"
  BY DEF DescribeChannel, Read, Call, Goto, SameChannel
<1>3. aws' \in Account /\ AwsKept /\ pc'[r] = step
  BY <1>1, <1>2, Still DEF IInv, TypeOK
<1>4. ASSUME StubsKept(r), step = "attach" PROVE Fine(r)'
  <2>1. aws'.recorder = "want" /\ aws'.recording /\ aws'.channel = "want"
    BY <1>1, <1>2, <1>4 DEF IInv, Fine, Within
  <2>2. Passed(r)'
    <3> SUFFICES ASSUME NEW k \in 1..6, k < 6, Pieces[k] \in Asked PROVE Sound(r, Pieces[k])'
      BY <1>3, <1>4, Stages DEF Passed
    <3>1. CASE k < 5
      BY <1>1, <1>3, <1>4, <3>1, SoundKept, Stages DEF IInv, Fine, Passed, InRecorder
    <3>2. CASE k = 5
      BY <2>1, <3>2 DEF Sound, Pieces, InForce
    <3> QED
      BY <3>1, <3>2
  <2> QED
    BY <1>3, <1>4, <2>2 DEF Fine, Position, Within, InRole, InStubs
<1>5. ASSUME StubsKept(r), step = "putChannel" PROVE Fine(r)'
  <2>1. aws'.recorder = "want" /\ aws'.recording
    BY <1>1 DEF IInv, Fine, Within
  <2>2. Passed(r)'
    BY <1>1, <1>3, <1>5, SamePiece, Stages DEF InRecorder, IInv
  <2> QED
    BY <1>3, <1>5, <2>1, <2>2 DEF Fine, Position, Within, InRole, InStubs
<1> QED
  BY <1>1, <1>2, <1>3, <1>4, <1>5, Called DEF IInv, TypeOK, Steps, Ended

LEMMA PutChannelStep ==
  ASSUME IInv, NEW r \in Runs, PutChannel(r) PROVE IInv' /\ AwsKept
<1>1. /\ pc[r] = "putChannel" /\ UNCHANGED <<stub, at, seen, polls>>
      /\ aws' = aws \/ aws' = ChannelPut
  BY DEF PutChannel, Call
<1>2. PICK step \in {"attach", "parked"} :
            /\ pc' = [pc EXCEPT ![r] = step]
            /\ step = "attach" => aws' = ChannelPut
  BY DEF PutChannel, Call, Goto
<1>3. aws' \in Account /\ AwsKept /\ pc'[r] = step
  BY <1>1, <1>2, Still, WantedPut DEF IInv, TypeOK
<1>4. ASSUME StubsKept(r), step = "attach" PROVE Fine(r)'
  <2>1. aws'.recorder = "want" /\ aws'.recording /\ aws'.channel = "want"
    BY <1>1, <1>2, <1>3, <1>4 DEF ChannelPut, IInv, TypeOK, Account, Fine, Within, AwsKept
  <2>2. Passed(r)'
    <3> SUFFICES ASSUME NEW k \in 1..6, k < 6, Pieces[k] \in Asked PROVE Sound(r, Pieces[k])'
      BY <1>3, <1>4, Stages DEF Passed
    <3>1. CASE k < 5
      BY <1>1, <1>3, <1>4, <3>1, SoundKept, Stages DEF IInv, Fine, Passed, InRecorder
    <3>2. CASE k = 5
      BY <2>1, <3>2 DEF Sound, Pieces, InForce
    <3> QED
      BY <3>1, <3>2
  <2> QED
    BY <1>3, <1>4, <2>2 DEF Fine, Position, Within, InRole, InStubs
<1> QED
  BY <1>1, <1>2, <1>3, <1>4, Called DEF IInv, TypeOK, Steps, Ended

LEMMA AttachStep ==
  ASSUME IInv, NEW r \in Runs, Attach(r) PROVE IInv' /\ AwsKept
<1>1. /\ pc[r] = "attach" /\ UNCHANGED <<stub, at, seen, polls>>
      /\ aws' = aws \/ aws' = [aws EXCEPT !.protected = TRUE]
  BY DEF Attach, Call
<1>2. PICK step \in {"done", "parked"} : pc' = [pc EXCEPT ![r] = step]
  BY DEF Attach, Call, Goto
<1>3. aws' \in Account /\ AwsKept /\ pc'[r] = step
  BY <1>1, <1>2, Still, WantedPut DEF IInv, TypeOK
<1>4. ASSUME StubsKept(r), step = "done" PROVE Fine(r)'
  <2>1. Passed(r)'
    <3> SUFFICES ASSUME NEW k \in 1..6, Pieces[k] \in Asked PROVE Sound(r, Pieces[k])'
      BY DEF Passed
    <3>1. CASE k < 6
      BY <1>1, <1>3, <1>4, <3>1, SoundKept, Stages DEF IInv, Fine, Passed
    <3>2. CASE k = 6
      BY <3>2 DEF Sound, Pieces, InForce
    <3> QED
      BY <3>1, <3>2
  <2> QED
    BY <1>3, <1>4, <2>1 DEF Fine, Position, Within, InRole, InStubs
<1> QED
  BY <1>1, <1>2, <1>3, <1>4, Called DEF IInv, TypeOK, Steps, Ended

LEMMA BeginStep ==
  ASSUME IInv, NEW r \in Runs, Begin(r) PROVE IInv' /\ AwsKept
<1>1. /\ pc[r] = "idle" /\ UNCHANGED <<aws, stub, at, seen, polls>>
      /\ pc' = [pc EXCEPT ![r] = Step(1)]
  BY DEF Begin, Goto
<1>2. aws' \in Account /\ AwsKept /\ pc'[r] = Step(1) /\ at'[r] = 1
  BY <1>1, Still DEF IInv, TypeOK, Fine, Position
<1>3. ASSUME StubsKept(r) PROVE Fine(r)'
  BY <1>1, <1>2, <1>3, NextPiece, Stages DEF IInv
<1>4. Step(1) \in Steps \cup Ended
  BY NextSteps
<1> QED
  BY <1>1, <1>2, <1>3, <1>4, Called DEF IInv, TypeOK

LEMMA KillStep ==
  ASSUME IInv, NEW r \in Runs, Kill(r) PROVE IInv' /\ AwsKept
<1>1. /\ pc[r] \in Steps /\ UNCHANGED <<aws, stub, at, seen, polls>>
      /\ pc' = [pc EXCEPT ![r] = "killed"]
  BY DEF Kill, Goto
<1>2. aws' \in Account /\ AwsKept /\ pc'[r] = "killed" /\ TypeOK'
  BY <1>1, Still DEF IInv, TypeOK, Ended
<1>3. /\ \A s \in Runs \ {r} : pc'[s] = pc[s] /\ at'[s] = at[s] /\ seen'[s] = seen[s]
      /\ \A q \in Runs : StubsKept(q)
  BY <1>1, <1>2, StubsLeft DEF IInv, TypeOK
<1> QED
  BY <1>2, <1>3, GivesUp, Settled

\* What AWS and people do moves no run.
LEMMA Outside ==
  ASSUME IInv, aws' \in Account, AwsKept, UNCHANGED <<pc, at, seen, polls>>,
         stub' \in [Files -> Content],
         \A f \in Files : stub'[f] = stub[f] \/ stub'[f] = "edited"
  PROVE  IInv'
<1>1. TypeOK'
  BY DEF IInv, TypeOK
<1>2. ASSUME NEW q \in Runs PROVE Fine(q)'
  <2>1. StubsKept(q)
    <3> SUFFICES ASSUME NEW i \in 1..Len(Stubs), StubPassed(q, i) PROVE StubPassed(q, i)'
      BY DEF StubsKept
    <3>1. stub'[Stubs[i]] = stub[Stubs[i]] \/ stub'[Stubs[i]] = "edited"
      BY Lists
    <3> QED
      BY <3>1 DEF StubPassed, Emptied
  <2>2. pc[q] = "pollRegion" => at[q] \in 1..Len(Work)
    BY Lists DEF IInv, Fine, Position, TypeOK
  <2> QED
    BY <2>1, <2>2, Bystander DEF IInv
<1> QED
  BY <1>1, <1>2 DEF IInv

LEMMA SettleStep ==
  ASSUME IInv, Settle PROVE IInv' /\ AwsKept
<1>1. aws' \in Account /\ AwsKept
  BY Arrives, Deployed DEF Settle, IInv, TypeOK
<1> QED
  BY <1>1, Outside DEF Settle, IInv, TypeOK

LEMMA PeopleStep ==
  ASSUME IInv, People PROVE IInv' /\ AwsKept
<1>1. CASE /\ \E f \in Files : stub' = [stub EXCEPT ![f] = "edited"]
           /\ aws' = aws
  <2>1. PICK f \in Files : stub' = [stub EXCEPT ![f] = "edited"]
    BY <1>1
  <2>2. stub' \in [Files -> Content] /\ \A g \in Files : stub'[g] \in {stub[g], "edited"}
    BY <2>1 DEF IInv, TypeOK, Content
  <2> QED
    BY <1>1, <2>2, Still, Outside DEF People, IInv, TypeOK
<1>2. CASE aws' = [aws EXCEPT !.protected = FALSE] /\ stub' = stub
  BY <1>2, WantedPut, Outside DEF People, IInv, TypeOK
<1> QED
  BY <1>1, <1>2 DEF People

--------------------------------------------------------------------------------
(***************************************************************************)
(* The theorems.                                                           *)
(***************************************************************************)
LEMMA InitFine == Init => IInv
<1> SUFFICES ASSUME Init PROVE IInv
  OBVIOUS
<1>1. aws \in Account /\ stub \in [Files -> Content]
  BY Parameters DEF Init
<1>2. TypeOK
  BY <1>1, Lists, Parameters DEF Init, TypeOK, Account
<1>3. ASSUME NEW r \in Runs PROVE Fine(r)
  <2>1. pc[r] = "idle" /\ at[r] = 1
    BY DEF Init
  <2> QED
    BY <2>1, Stages DEF Fine, Position, Passed, Within, InRole, InStubs
<1> QED
  BY <1>2, <1>3 DEF IInv

LEMMA StepFine == IInv /\ [Next]_vars => IInv' /\ AwsKept
<1> SUFFICES ASSUME IInv, [Next]_vars PROVE IInv' /\ AwsKept
  OBVIOUS
<1>1. ASSUME NEW r \in Runs, Begin(r) \/ Kill(r) PROVE IInv' /\ AwsKept
  BY <1>1, BeginStep, KillStep
<1>2. ASSUME NEW r \in Runs, Advance(r) PROVE IInv' /\ AwsKept
  BY <1>2, GetRoleStep, CreateRoleStep, TagRoleStep, GetPolicyStep, PutRolePolicyStep,
     ListRegionsStep, RegionStep, PollRegionStep, LookStubStep, CreateStubStep, WriteStubStep,
     DescribePackStep, PutPackStep, PollPackStep, DescribeRecorderStep, PutRecorderStep,
     RecorderStatusStep, StartRecorderStep, DescribeChannelStep, PutChannelStep, AttachStep
  DEF Advance
<1>3. CASE UNCHANGED vars
  <2>1. aws' \in Account /\ AwsKept
    BY <1>3, Still DEF IInv, TypeOK, vars
  <2> QED
    BY <1>3, <2>1, Outside DEF vars, IInv, TypeOK
<1> QED
  BY <1>1, <1>2, <1>3, SettleStep, PeopleStep DEF Next

\* The region half of what the profile asks for, over one list or over two.
LEMMA RegionsInForce == InForce("regions") <=> \A i \in 1..Len(Work) : RegionOK(i)
<1>1. ASSUME \A i \in 1..Len(Work) : RegionOK(i) PROVE InForce("regions")
  <2>1. \A i \in 1..Len(Enable) : aws.region[Enable[i]] \in {"enabled", "enabling", "default"}
    BY <1>1, Lists DEF RegionOK, AsAsked
  <2>2. ASSUME NEW i \in 1..Len(Disable)
        PROVE  aws.region[Disable[i]] \in {"disabled", "disabling"}
    <3>1. Len(Enable) + i \in 1..Len(Work) /\ ~(Len(Enable) + i <= Len(Enable))
      BY Lists
    <3>2. Work[Len(Enable) + i] = Disable[i]
      BY Lists
    <3> QED
      BY <1>1, <3>1, <3>2 DEF RegionOK, AsAsked
  <2> QED
    BY <2>1, <2>2, Lists DEF InForce
<1>2. ASSUME InForce("regions"), NEW i \in 1..Len(Work) PROVE RegionOK(i)
  <2>1. CASE i <= Len(Enable)
    BY <1>2, <2>1, Lists DEF InForce, RegionOK, AsAsked
  <2>2. CASE i > Len(Enable)
    <3>1. i - Len(Enable) \in 1..Len(Disable) /\ Len(Enable) + (i - Len(Enable)) = i
      BY <2>2, Lists
    <3>2. Work[i] = Disable[i - Len(Enable)]
      BY <3>1, Lists
    <3> QED
      BY <1>2, <2>2, <3>1, <3>2, Lists DEF InForce, RegionOK, AsAsked
  <2> QED
    BY <2>1, <2>2, Lists
<1> QED
  BY <1>1, <1>2

--------------------------------------------------------------------------------
(***************************************************************************)
(* The conformance pack's deployment, and the freeze.                      *)
(***************************************************************************)
Waiting == {"pollPack", "parked", "killed"}

\* A pack that is not deployed has its vend waiting for it, parked or dead.
PackSettled == aws.packState = "complete" \/ \A s \in aws.packBy : pc[s] \in Waiting

\* A step of r that touches neither the pack nor the protective policy.
Aside(r) ==
  /\ aws'.packState = aws.packState /\ aws'.packBy = aws.packBy
  /\ aws'.protected = aws.protected
  /\ \A s \in Runs \ {r} : pc'[s] = pc[s]

LEMMA PiecesAside ==
  ASSUME aws \in Account, NEW name, NEW status
  PROVE  \A effect \in {aws, RoleCreated, RoleTagged, RolePolicyPut, RecorderPut,
                        RecorderStarted, ChannelPut, RegionGoing(name, status)} :
            /\ effect.packState = aws.packState /\ effect.packBy = aws.packBy
            /\ effect.protected = aws.protected
BY DEF Account, RoleCreated, RoleTagged, RolePolicyPut, RecorderPut, RecorderStarted,
       ChannelPut, RegionGoing

LEMMA CallAside ==
  ASSUME TypeOK, NEW r \in Runs, NEW refused, NEW next, NEW name, NEW status,
         NEW effect \in {aws, RoleCreated, RoleTagged, RolePolicyPut, RecorderPut,
                         RecorderStarted, ChannelPut, RegionGoing(name, status)},
         Call(r, refused, effect, next)
  PROVE  Aside(r)
<1>1. aws' = aws \/ aws' = effect
  BY DEF Call
<1>2. /\ aws'.packState = aws.packState /\ aws'.packBy = aws.packBy
      /\ aws'.protected = aws.protected
  BY <1>1, PiecesAside DEF TypeOK
<1>3. \A s \in Runs \ {r} : pc'[s] = pc[s]
  BY DEF Call, Goto, TypeOK
<1> QED
  BY <1>2, <1>3 DEF Aside

LEMMA OthersAside ==
  ASSUME TypeOK, NEW r \in Runs, Advance(r)
  PROVE  Aside(r) \/ PutPack(r) \/ Attach(r)
<1>1. CASE GetRole(r) \/ CreateRole(r) \/ TagRole(r) \/ GetPolicy(r) \/ PutRolePolicy(r)
  BY <1>1, CallAside DEF GetRole, CreateRole, TagRole, GetPolicy, PutRolePolicy, Read
<1>2. CASE DescribePack(r) \/ DescribeRecorder(r) \/ PutRecorder(r) \/ RecorderStatus(r)
           \/ StartRecorder(r) \/ DescribeChannel(r) \/ PutChannel(r)
  BY <1>2, CallAside DEF DescribePack, DescribeRecorder, PutRecorder, RecorderStatus,
                         StartRecorder, DescribeChannel, PutChannel, Read
<1>3. CASE Region(r)
  <2>1. CASE UNCHANGED aws
    BY <1>3, <2>1 DEF Region, Aside, Call, Goto, TypeOK
  <2>2. CASE aws' # aws
    BY <1>3, <2>2, CallAside DEF Region
  <2> QED
    BY <2>1, <2>2
<1>4. CASE ListRegions(r) \/ PollRegion(r) \/ PollPack(r)
           \/ LookStub(r) \/ CreateStub(r) \/ WriteStub(r)
  <2>1. aws' = aws
    BY <1>4 DEF ListRegions, PollRegion, PollPack, LookStub, CreateStub, WriteStub
  <2>2. \A s \in Runs \ {r} : pc'[s] = pc[s]
    BY <1>4 DEF ListRegions, PollRegion, PollPack, LookStub, CreateStub, WriteStub, Goto, TypeOK
  <2> QED
    BY <2>1, <2>2 DEF Aside
<1> QED
  BY <1>1, <1>2, <1>3, <1>4 DEF Advance

\* A vend whose pack failed does not go on, and the one that goes on saw it complete.
LEMMA PackKept ==
  ASSUME IInv, PackSettled, [Next]_vars PROVE PackSettled'
<1>1. TypeOK
  BY DEF IInv
<1>2. ASSUME NEW r \in Runs, Aside(r), pc'[r] = pc[r] \/ pc[r] \notin Waiting \/ pc'[r] \in Waiting
      PROVE  PackSettled'
  BY <1>1, <1>2 DEF PackSettled, Aside, TypeOK, Account
<1>3. ASSUME NEW r \in Runs, Advance(r) PROVE PackSettled'
  <2>1. CASE PollPack(r)
    <3>1. Aside(r)
      BY <1>1, <1>3, <2>1, OthersAside DEF PollPack, PutPack, Attach
    <3>2. CASE pc'[r] \in Waiting
      BY <1>2, <3>1, <3>2
    <3>3. CASE pc'[r] \notin Waiting
      <4>1. aws.packState = "complete"
        BY <1>1, <2>1, <3>3 DEF PollPack, Goto, Waiting, TypeOK
      <4> QED
        BY <3>1, <4>1 DEF Aside, PackSettled
    <3> QED
      BY <3>2, <3>3
  <2>2. CASE PutPack(r)
    <3>1. CASE aws' = PackPut(r)
      <4>1. pc'[r] \in Waiting
        BY <1>1, <2>2 DEF PutPack, Call, Goto, Waiting, TypeOK
      <4>2. aws'.packBy = {r}
        BY <1>1, <3>1 DEF PackPut, TypeOK, Account
      <4> QED
        BY <4>1, <4>2 DEF PackSettled
    <3>2. CASE aws' = aws
      <4>1. Aside(r) /\ pc[r] = "putPack"
        BY <1>1, <2>2, <3>2 DEF PutPack, Call, Goto, Aside, TypeOK
      <4> QED
        BY <1>2, <4>1 DEF Waiting
    <3> QED
      BY <2>2, <3>1, <3>2 DEF PutPack, Call
  <2>3. CASE Attach(r)
    <3>1. aws'.packState = aws.packState /\ aws'.packBy = aws.packBy
      BY <1>1, <2>3 DEF Attach, Call, TypeOK, Account
    <3>2. pc[r] = "attach" /\ \A s \in Runs \ {r} : pc'[s] = pc[s]
      BY <1>1, <2>3 DEF Attach, Call, Goto, TypeOK
    <3> QED
      BY <1>1, <3>1, <3>2 DEF PackSettled, Waiting, TypeOK, Account
  <2>4. CASE ~PollPack(r) /\ ~PutPack(r) /\ ~Attach(r)
    <3>1. Aside(r)
      BY <1>1, <1>3, <2>4, OthersAside
    <3>2. pc[r] \notin Waiting
      BY <1>3, <2>4 DEF Advance, Waiting, GetRole, CreateRole, TagRole, GetPolicy, PutRolePolicy,
         ListRegions, Region, PollRegion, LookStub, CreateStub, WriteStub, DescribePack,
         DescribeRecorder, PutRecorder, RecorderStatus, StartRecorder, DescribeChannel, PutChannel
    <3> QED
      BY <1>2, <3>1, <3>2
  <2> QED
    BY <2>1, <2>2, <2>3, <2>4
<1>4. ASSUME NEW r \in Runs, Begin(r) \/ Kill(r) PROVE PackSettled'
  <2>1. Aside(r) /\ (pc[r] = "idle" \/ pc'[r] = "killed")
    BY <1>1, <1>4 DEF Begin, Kill, Goto, Aside, TypeOK
  <2> QED
    BY <1>2, <2>1 DEF Waiting
<1>5. CASE Settle \/ People \/ UNCHANGED vars
  <2>1. aws'.packBy = aws.packBy /\ (aws'.packState = aws.packState \/ aws.packState = "inProgress")
    BY <1>1, <1>5 DEF Settle, People, vars, RegionArrives, RegionGoing, PackDeployed, TypeOK, Account
  <2>2. pc' = pc
    BY <1>5 DEF Settle, People, vars
  <2> QED
    BY <2>1, <2>2 DEF PackSettled
<1> QED
  BY <1>3, <1>4, <1>5 DEF Next

\* A run that is past the recorder finds every piece finished.
LEMMA PassedFinished ==
  ASSUME IInv, PackSettled, NEW r \in Runs, pc[r] \in {"attach", "done"} PROVE Finished
<1> SUFFICES ASSUME NEW piece \in Asked PROVE InForce(piece) \/ (piece = "pack" /\ Undeployed)
  BY DEF Finished
<1>1. PICK k \in 1..6 : Pieces[k] = piece
  BY Parameters DEF Pieces
<1>2. CASE k = 6
  BY <1>1, <1>2 DEF InForce, Pieces
<1>3. CASE k < 6
  <2>1. Sound(r, piece)
    BY <1>1, <1>3, Stages DEF IInv, Fine, Passed
  <2>2. CASE piece = "pack"
    BY <2>1, <2>2 DEF Sound, InForce, Undeployed, PackSettled, Waiting
  <2>3. CASE piece # "pack"
    BY <2>1, <2>3, RegionsInForce DEF Sound, InForce
  <2> QED
    BY <2>2, <2>3
<1> QED
  BY <1>2, <1>3

Whole == IInv /\ PackSettled

LEMMA InitWhole == Init => Whole
<1> SUFFICES ASSUME Init PROVE PackSettled
  BY InitFine DEF Whole
<1>1. aws.packBy = {}
  BY Parameters DEF Init
<1> QED
  BY <1>1 DEF PackSettled

LEMMA StepWhole == Whole /\ [Next]_vars => Whole'
BY StepFine, PackKept DEF Whole

\* Every variable keeps to its values.
THEOREM Types == Spec => []TypeOK
<1>1. IInv => TypeOK
  BY DEF IInv
<1> QED
  BY <1>1, InitFine, StepFine, PTL DEF Spec

\* A vend that ended well left every piece of the baseline in force; only a pack it
\* skipped may not be deployed (runVendSteps).
THEOREM DoneInForce == Spec => []DoneMeansInForce
<1>1. Whole => DoneMeansInForce
  <2> SUFFICES ASSUME IInv, PackSettled, NEW r \in Runs, pc[r] = "done"
               PROVE  /\ Finished
                      /\ "stubs" \in Asked => \A f \in Files :
                            \/ stub[f] \in {"part", "draft", "edited"}
                            \/ stub[f] = "empty" /\ \E s \in Runs \ {r} : pc[s] \notin {"idle", "done"}
    BY DEF DoneMeansInForce, Whole
  <2>1. Finished
    BY PassedFinished
  <2>2. ASSUME "stubs" \in Asked PROVE Sound(r, "stubs")
    BY <2>2, Stages DEF IInv, Fine, Passed, Pieces
  <2>3. ASSUME "stubs" \in Asked, NEW f \in Files
        PROVE  \/ stub[f] \in {"part", "draft", "edited"}
               \/ stub[f] = "empty" /\ \E s \in Runs \ {r} : pc[s] \notin {"idle", "done"}
    <3>1. PICK i \in 1..Len(Stubs) : f = Stubs[i]
      BY Lists DEF Files
    <3>2. StubPassed(r, i)
      BY <2>2, <2>3 DEF Sound
    <3>3. stub[f] \in Content
      BY DEF IInv, TypeOK
    <3> QED
      BY <3>1, <3>2, <3>3 DEF StubPassed, Emptied, Content
  <2> QED
    BY <2>1, <2>3
<1> QED
  BY <1>1, InitWhole, StepWhole, PTL DEF Spec

\* The protective policy comes to an account whose baseline is finished (runVendSteps).
THEOREM FrozenFinished == Spec => FreezesOnlyFinished
<1>1. Whole /\ [Next]_vars => [~aws.protected /\ aws'.protected => Finished]_vars
  <2> SUFFICES ASSUME IInv, PackSettled, Next, ~aws.protected, aws'.protected PROVE Finished
    BY DEF Whole
  <2>1. TypeOK
    BY DEF IInv
  <2>2. PICK r \in Runs : Attach(r)
    <3>1. ASSUME NEW r \in Runs, Begin(r) \/ Kill(r) PROVE FALSE
      BY <3>1 DEF Begin, Kill
    <3>2. ASSUME NEW r \in Runs, Advance(r), ~Attach(r) PROVE FALSE
      <4>1. ~Aside(r)
        BY DEF Aside
      <4>2. PutPack(r)
        BY <2>1, <3>2, <4>1, OthersAside
      <4> QED
        BY <2>1, <4>2 DEF PutPack, Call, PackPut, TypeOK, Account
    <3>3. ~Settle /\ ~People
      BY <2>1 DEF Settle, People, RegionArrives, RegionGoing, PackDeployed, TypeOK, Account
    <3> QED
      BY <3>1, <3>2, <3>3 DEF Next
  <2> QED
    BY <2>2, PassedFinished DEF Attach
<1> QED
  BY <1>1, InitWhole, StepWhole, PTL DEF Spec, FreezesOnlyFinished

================================================================================
