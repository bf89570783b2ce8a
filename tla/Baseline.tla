-------------------------------- MODULE Baseline --------------------------------
(***************************************************************************)
(* The in-account baseline: what `automat vend` does inside an account it  *)
(* has placed (cmd/automat/vend.go: runVendSteps; internal/baseline).      *)
(* Several vends of one profile apply to one account, one AWS call or one  *)
(* file operation per step, in the order of the command: automation role,  *)
(* regions, attestation stubs, conformance pack, Config recorder, delivery *)
(* channel, and last the policy set, whose protective policy freezes what  *)
(* the earlier steps made.  The account may be as any earlier release, a   *)
(* parked run or a person left it.                                         *)
(***************************************************************************)
EXTENDS Naturals, Sequences

CONSTANTS
    Runs,       \* invocations of the command that reached the baseline
    Unlucky,    \* runs that may be killed, be refused a call or lose an answer
    Asked,      \* the pieces the environment profile asks for
    Enable, Disable,    \* baseline.regions, in the profile's order
    Stubs,      \* the attestation stubs' file names, in the order of the groups
    Found,      \* what a run may find: a set of [aws: Account, stub: ...]
    MaxPolls    \* Ensurer.maxPolls

Work    == Enable \o Disable    \* every region the profile names, as EnsureRegions goes
Regions == {Work[i] : i \in DOMAIN Work}
Files   == {Stubs[i] : i \in DOMAIN Stubs}
Pieces  == <<"role", "regions", "stubs", "pack", "recorder", "policies">>
OptIn   == {"default", "enabled", "enabling", "disabled", "disabling"}

\* What AWS holds: "want" is what the profile asks for, "old" or "other" is not.
Account ==
    [role:      {"none", "bare", "old", "want"},    \* the role and its inline policy
     tagged:    BOOLEAN,                            \* it carries the owner tag
     region:    [Regions -> OptIn],
     pack:      {"none", "old", "want"},            \* its input parameters
     packState: {"none", "inProgress", "complete", "failed"},
     packBy:    SUBSET Runs,    \* the run that deployed it last, none if it was found so
     recorder:  {"none", "other", "want"},
     recording: BOOLEAN,
     channel:   {"none", "other", "want"},
     protected: BOOLEAN]    \* the protective policy is attached above the account
Content == {"absent", "empty", "part", "draft", "edited"}

ASSUME Parameters ==
    /\ Unlucky \subseteq Runs
    /\ Asked \subseteq {Pieces[i] : i \in DOMAIN Pieces} /\ "policies" \in Asked
    /\ Enable \in Seq(Regions) /\ Disable \in Seq(Regions)
    /\ \A i, j \in DOMAIN Work : Work[i] = Work[j] => i = j
    /\ Stubs \in Seq(Files) /\ \A i, j \in DOMAIN Stubs : Stubs[i] = Stubs[j] => i = j
    /\ Found \subseteq [aws: Account, stub: [Files -> Content]]
    /\ \A f \in Found : f.aws.packBy = {}
    /\ MaxPolls \in Nat \ {0}

VARIABLES
    aws,    \* the account
    stub,   \* the stub files in the operator's repository
    pc,     \* the next step of a run
    at,     \* its position in Work, then in Stubs
    seen,   \* the region states listRegionStatus returned
    polls   \* status reads of the present wait

vars == <<aws, stub, pc, at, seen, polls>>

Steps == {"getRole", "createRole", "tagRole", "putFirstPolicy", "getPolicy", "putPolicy",
          "listRegions", "region", "pollRegion", "lookStub", "createStub", "writeStub",
          "describePack", "putPack", "pollPack", "describeRecorder", "putRecorder",
          "recorderStatus", "startRecorder", "describeChannel", "putChannel", "attach"}
Ended == {"done", "parked", "stopped", "killed"}

TypeOK ==
    /\ aws   \in Account
    /\ stub  \in [Files -> Content]
    /\ pc    \in [Runs -> {"idle"} \cup Steps \cup Ended]
    /\ at    \in [Runs -> 1..(Len(Work) + Len(Stubs) + 1)]
    /\ seen  \in [Runs -> [Regions -> OptIn]]
    /\ polls \in [Runs -> 0..MaxPolls]

Init ==
    /\ \E f \in Found : aws = f.aws /\ stub = f.stub
    /\ pc    = [r \in Runs |-> "idle"]
    /\ at    = [r \in Runs |-> 1]
    /\ seen  = [r \in Runs |-> aws.region]
    /\ polls = [r \in Runs |-> 0]

--------------------------------------------------------------------------------
(***************************************************************************)
(* AWS: what each call does to the account, and when AWS refuses it.  The  *)
(* protective policy refuses every write of the automation role and of the *)
(* Config service by any principal but the automation role; these sessions *)
(* run as OrganizationAccountAccessRole, never as the automation role.     *)
(***************************************************************************)
Frozen == aws.protected

RoleExists      == aws.role # "none"
RoleCreated     == [aws EXCEPT !.role = "bare"]
RoleTagged      == [aws EXCEPT !.tagged = TRUE]
RolePolicyPut   == [aws EXCEPT !.role = "want"]
RecorderPut     == [aws EXCEPT !.recorder = "want"]
RecorderStarted == [aws EXCEPT !.recording = TRUE]
ChannelPut      == [aws EXCEPT !.channel = "want"]
PackPut(r)      == [aws EXCEPT !.pack = "want", !.packState = "inProgress", !.packBy = {r}]

\* AWS Config refuses to start a recorder that is not there, or that has no channel
\* to deliver to.
CannotStart == Frozen \/ aws.recorder = "none" \/ aws.channel = "none"

\* EnableRegion and DisableRegion answer with a conflict when the region is by now
\* where the call would take it, or is never off.
CannotEnable(name)  == aws.region[name] \in {"enabled", "default", "enabling"}
CannotDisable(name) == aws.region[name] \in {"disabled", "disabling", "default"}
RegionGoing(name, status) == [aws EXCEPT !.region[name] = status]

\* A region on its way arrives, and a pack's deployment ends, not always well.
RegionArrives(name) ==
    /\ aws.region[name] \in {"enabling", "disabling"}
    /\ aws' = RegionGoing(name, IF aws.region[name] = "enabling" THEN "enabled" ELSE "disabled")

PackDeployed ==
    /\ aws.packState = "inProgress"
    /\ \E end \in {"complete", "failed"} : aws' = [aws EXCEPT !.packState = end]

--------------------------------------------------------------------------------
\* The command's control: which step comes next, and how a run stops.

Goto(r, step) == pc' = [pc EXCEPT ![r] = step]

Entry == [role |-> "getRole", regions |-> "listRegions", stubs |-> "lookStub",
          pack |-> "describePack", recorder |-> "describeRecorder", policies |-> "attach"]

\* The first step of the first piece asked for, from the n-th on.
Step(n) ==
    LET next == CHOOSE m \in n..Len(Pieces) :
                   Pieces[m] \in Asked /\ \A k \in n..(m - 1) : Pieces[k] \notin Asked
    IN  Entry[Pieces[next]]

\* An AWS call that goes on to `next`.  A call that AWS refuses parks the run, as
\* does one that fails; a failing call may have taken effect at AWS.
Call(r, refused, effect, next) ==
    /\ \/ ~refused /\ aws' = effect /\ Goto(r, next)
       \/ refused /\ UNCHANGED aws /\ Goto(r, "parked")
       \/ r \in Unlucky /\ aws' \in {aws, IF refused THEN aws ELSE effect} /\ Goto(r, "parked")
    /\ UNCHANGED <<stub, at, seen>>

Read(r, next) == Call(r, FALSE, aws, next) /\ UNCHANGED polls

PollsLeft(r) == polls[r] < MaxPolls

--------------------------------------------------------------------------------
\* The automation role (EnsureAutomationRole).

GetRole(r) ==
    /\ pc[r] = "getRole"
    /\ Read(r, IF RoleExists THEN "getPolicy" ELSE "createRole")

CreateRole(r) ==
    /\ pc[r] = "createRole"
    /\ Call(r, Frozen \/ RoleExists, RoleCreated, "tagRole")
    /\ UNCHANGED polls

TagRole(r) ==
    /\ pc[r] = "tagRole"
    /\ Call(r, Frozen, RoleTagged, "putFirstPolicy") /\ UNCHANGED polls

\* SameDocument: a role with no inline policy, or with another, is not the same.
SamePolicy(held) == held = "want"

GetPolicy(r) ==
    /\ pc[r] = "getPolicy"
    /\ Read(r, IF SamePolicy(aws.role) THEN Step(2) ELSE "putPolicy")

PutRolePolicy(r) ==
    /\ pc[r] \in {"putFirstPolicy", "putPolicy"}
    /\ Call(r, Frozen, RolePolicyPut, Step(2)) /\ UNCHANGED polls

--------------------------------------------------------------------------------
\* Opt-in regions (EnsureRegions).

UndisableableIfEnabled(status) == status \in {"default", "enabled"} \* mutant

\* The one state of a region to be disabled that is refused before any call.
Undisableable(status) == status = "default"

ListRegions(r) ==
    /\ pc[r] = "listRegions"
    /\ seen' = [seen EXCEPT ![r] = aws.region]
    /\ \/ /\ \A i \in DOMAIN Disable : ~Undisableable(aws.region[Disable[i]])
          /\ Goto(r, "region")
       \/ /\ \/ \E i \in DOMAIN Disable : Undisableable(aws.region[Disable[i]])
             \/ r \in Unlucky
          /\ Goto(r, "parked")
    /\ at' = [at EXCEPT ![r] = 1]
    /\ UNCHANGED <<aws, stub, polls>>

\* A region the snapshot shows as asked for, or on its way there, is left alone.
AsAsked(i, status) ==
    IF i <= Len(Enable) THEN status \in {"enabled", "default", "enabling"}
                        ELSE status \in {"disabled", "disabling"}

\* EnableRegion or DisableRegion, decided on the snapshot.
Region(r) ==
    /\ pc[r] = "region"
    /\ LET i == at[r]
           name == Work[i]
       IN \/ /\ i > Len(Work)
             /\ at' = [at EXCEPT ![r] = 1]
             /\ Goto(r, Step(3))
             /\ UNCHANGED <<aws, stub, seen, polls>>
          \/ /\ i <= Len(Work) /\ AsAsked(i, seen[r][name])
             /\ at' = [at EXCEPT ![r] = i + 1]
             /\ UNCHANGED <<aws, stub, pc, seen, polls>>
          \/ /\ i <= Len(Work) /\ ~AsAsked(i, seen[r][name])
             /\ IF i <= Len(Enable)
                   THEN Call(r, CannotEnable(name), RegionGoing(name, "enabling"), "pollRegion")
                   ELSE Call(r, CannotDisable(name), RegionGoing(name, "disabling"), "pollRegion")
             /\ polls' = [polls EXCEPT ![r] = 0]

\* pollRegionOptStatus: either resting state ends the wait.
PollRegion(r) ==
    /\ pc[r] = "pollRegion"
    /\ \/ /\ PollsLeft(r)
          /\ polls' = [polls EXCEPT ![r] = @ + 1]
          /\ IF aws.region[Work[at[r]]] \in {"enabled", "disabled"}
                THEN Goto(r, "region") /\ at' = [at EXCEPT ![r] = @ + 1]
                ELSE UNCHANGED <<pc, at>>
       \/ /\ ~PollsLeft(r) \/ r \in Unlucky
          /\ Goto(r, "parked") /\ UNCHANGED <<at, polls>>
    /\ UNCHANGED <<aws, stub, seen>>

--------------------------------------------------------------------------------
\* Attestation stubs (ensureOneStub), in files beside the other runs.

LookStub(r) ==
    /\ pc[r] = "lookStub"
    /\ \/ /\ at[r] > Len(Stubs)
          /\ Goto(r, Step(4))
          /\ UNCHANGED at
       \/ /\ at[r] <= Len(Stubs)
          /\ IF stub[Stubs[at[r]]] \in {"absent", "empty"}
                THEN Goto(r, "createStub") /\ UNCHANGED at
                ELSE at' = [at EXCEPT ![r] = @ + 1] /\ UNCHANGED pc
       \/ r \in Unlucky /\ Goto(r, "stopped") /\ UNCHANGED at
    /\ UNCHANGED <<aws, stub, seen, polls>>

\* CreateChecked opens what is there by now, and Truncate empties it.
CreateStub(r) ==
    /\ pc[r] = "createStub"
    /\ \/ stub' = [stub EXCEPT ![Stubs[at[r]]] = "empty"] /\ Goto(r, "writeStub")
       \/ r \in Unlucky /\ Goto(r, "stopped") /\ UNCHANGED stub
    /\ UNCHANGED <<aws, at, seen, polls>>

\* A write that fails may have written a part.
WriteStub(r) ==
    /\ pc[r] = "writeStub"
    /\ \/ /\ stub' = [stub EXCEPT ![Stubs[at[r]]] = "draft"]
          /\ at' = [at EXCEPT ![r] = @ + 1]
          /\ Goto(r, "lookStub")
       \/ /\ r \in Unlucky
          /\ stub' \in {stub, [stub EXCEPT ![Stubs[at[r]]] = "part"]}
          /\ Goto(r, "stopped")
          /\ UNCHANGED at
    /\ UNCHANGED <<aws, seen, polls>>

--------------------------------------------------------------------------------
\* The conformance pack (EnsureConformancePack).

\* sameInputParameters decides, whatever the state of the deployment.
SamePack(held) == held = "want"

DescribePack(r) ==
    /\ pc[r] = "describePack"
    /\ Read(r, IF SamePack(aws.pack) THEN Step(5) ELSE "putPack")

PutPack(r) ==
    /\ pc[r] = "putPack"
    /\ Call(r, Frozen, PackPut(r), "pollPack")
    /\ polls' = [polls EXCEPT ![r] = 0]

PollPackAnyEnd(r) == \* mutant: any end of the deployment ends the wait well
    /\ pc[r] = "pollPack"
    /\ \/ /\ PollsLeft(r)
          /\ polls' = [polls EXCEPT ![r] = @ + 1]
          /\ IF aws.packState = "inProgress" THEN UNCHANGED pc ELSE Goto(r, Step(5))
       \/ /\ ~PollsLeft(r) \/ r \in Unlucky
          /\ Goto(r, "parked") /\ UNCHANGED polls
    /\ UNCHANGED <<aws, stub, at, seen>>

PollPack(r) ==
    /\ pc[r] = "pollPack"
    /\ \/ /\ PollsLeft(r)
          /\ polls' = [polls EXCEPT ![r] = @ + 1]
          /\ CASE aws.packState = "complete" -> Goto(r, Step(5))
               [] aws.packState = "failed"   -> Goto(r, "parked")
               [] OTHER                      -> UNCHANGED pc
       \/ /\ ~PollsLeft(r) \/ r \in Unlucky
          /\ Goto(r, "parked") /\ UNCHANGED polls
    /\ UNCHANGED <<aws, stub, at, seen>>

--------------------------------------------------------------------------------
\* The Config recorder and its delivery channel.

\* sameRecorderConfig: recording scope and role ARN.
SameRecorder(held) == held = "want"

\* ensureDeliveryChannelFound: the bucket.
SameChannel(held) == held = "want"

DescribeRecorder(r) ==
    /\ pc[r] = "describeRecorder"
    /\ Read(r, IF SameRecorder(aws.recorder) THEN "recorderStatus" ELSE "putRecorder")

PutRecorder(r) ==
    /\ pc[r] = "putRecorder"
    /\ Call(r, Frozen, RecorderPut, "recorderStatus") /\ UNCHANGED polls

RecorderRuns(r) == \* mutant: a recorder that runs needs no look at its channel
    /\ pc[r] = "recorderStatus"
    /\ Read(r, IF aws.recording THEN "attach" ELSE "startRecorder")

RecorderStatus(r) ==
    /\ pc[r] = "recorderStatus"
    /\ Read(r, IF aws.recording THEN "describeChannel" ELSE "startRecorder")

StartRecorder(r) ==
    /\ pc[r] = "startRecorder"
    /\ Call(r, CannotStart, RecorderStarted, "describeChannel") /\ UNCHANGED polls

DescribeChannel(r) ==
    /\ pc[r] = "describeChannel"
    /\ Read(r, IF SameChannel(aws.channel) THEN "attach" ELSE "putChannel")

PutChannel(r) ==
    /\ pc[r] = "putChannel"
    /\ Call(r, Frozen, ChannelPut, "attach") /\ UNCHANGED polls

\* The policy set comes last, its protective policies last of all.
Attach(r) ==
    /\ pc[r] = "attach"
    /\ Call(r, FALSE, [aws EXCEPT !.protected = TRUE], "done") /\ UNCHANGED polls

--------------------------------------------------------------------------------
Begin(r) ==
    /\ pc[r] = "idle"
    /\ Goto(r, Step(1))
    /\ UNCHANGED <<aws, stub, at, seen, polls>>

Kill(r) ==
    /\ r \in Unlucky /\ pc[r] \in Steps
    /\ Goto(r, "killed")
    /\ UNCHANGED <<aws, stub, at, seen, polls>>

\* AWS finishes what it accepted.
Settle ==
    /\ (\E name \in Regions : RegionArrives(name)) \/ PackDeployed
    /\ UNCHANGED <<stub, pc, at, seen, polls>>

\* Somebody fills in a stub, or detaches the protective policy to make a change.
People ==
    /\ \/ /\ \E f \in Files : stub[f] \in {"draft", "part"} /\ stub' = [stub EXCEPT ![f] = "edited"]
          /\ UNCHANGED aws
       \/ /\ aws.protected
          /\ aws' = [aws EXCEPT !.protected = FALSE]
          /\ UNCHANGED stub
    /\ UNCHANGED <<pc, at, seen, polls>>

Advance(r) ==
    \/ GetRole(r) \/ CreateRole(r) \/ TagRole(r) \/ GetPolicy(r) \/ PutRolePolicy(r)
    \/ ListRegions(r) \/ Region(r) \/ PollRegion(r)
    \/ LookStub(r) \/ CreateStub(r) \/ WriteStub(r)
    \/ DescribePack(r) \/ PutPack(r) \/ PollPack(r)
    \/ DescribeRecorder(r) \/ PutRecorder(r) \/ RecorderStatus(r) \/ StartRecorder(r)
    \/ DescribeChannel(r) \/ PutChannel(r) \/ Attach(r)

Next == (\E r \in Runs : Begin(r) \/ Advance(r) \/ Kill(r)) \/ Settle \/ People

Spec == Init /\ [][Next]_vars

\* A process that is not killed keeps executing; AWS owes nothing.
FairSpec == Spec /\ \A r \in Runs : WF_vars(Advance(r))

--------------------------------------------------------------------------------
(***************************************************************************)
(* Properties.                                                             *)
(***************************************************************************)

\* What the profile asks for, as AWS holds it.
InForce(piece) ==
    CASE piece = "role"     -> aws.role = "want"
      [] piece = "regions"  -> /\ \A i \in DOMAIN Enable :
                                     aws.region[Enable[i]] \in {"enabled", "enabling", "default"}
                               /\ \A i \in DOMAIN Disable :
                                     aws.region[Disable[i]] \in {"disabled", "disabling"}
      [] piece = "pack"     -> aws.pack = "want" /\ aws.packState = "complete"
      [] piece = "recorder" -> aws.recorder = "want" /\ aws.recording /\ aws.channel = "want"
      [] OTHER              -> TRUE

\* The pack has the parameters asked for and is not known to be deployed: it was found
\* so, or the vend that deployed it last is waiting for it or has given up.
Undeployed ==
    /\ aws.pack = "want"
    /\ \A s \in aws.packBy : pc[s] \in {"pollPack", "parked", "killed"}

Finished == \A piece \in Asked : InForce(piece) \/ (piece = "pack" /\ Undeployed)

Busy(r) == pc[r] \in Steps

\* A vend that ended well left every piece of the baseline in force, whatever it
\* found, shared with other vends and skipped as "unchanged"; a stub it reports
\* has content unless another vend, still at work or stopped, emptied it
\* (runVendSteps).  A pack it skipped need not be deployed, and only such a pack
\* (ensureConformancePackFound compares the parameters alone, against what
\* conformance.go:505-507 tells the operator of a re-run): the pack a vend
\* deployed itself is complete, or is being deployed again by another.
DoneMeansInForce ==
    \A r \in Runs : pc[r] = "done" =>
       /\ Finished
       /\ "stubs" \in Asked => \A f \in Files :
             \/ stub[f] \in {"part", "draft", "edited"}
             \/ stub[f] = "empty" /\ \E s \in Runs \ {r} : pc[s] \notin {"idle", "done"}

\* The protective policy, under which no vend can write the role, the recorder, the
\* channel or the pack again, comes to an account whose baseline is finished, also
\* when the vend that attaches it dies on the answer (the order of runVendSteps).
FreezesOnlyFinished == [][~aws.protected /\ aws'.protected => Finished]_vars

\* No other vend of the account is running.
Alone(r) == \A s \in Runs \ {r} : ~Busy(s)

\* AWS kept the run waiting past its bound, or failed the deployment the run asked for.
AWSFailed(r) == polls[r] = MaxPolls \/ (aws.packState = "failed" /\ r \in aws.packBy)

\* A parked vend can be completed by running it again: from whatever account an
\* earlier run or release left, a vend that runs alone before the protective
\* policy is attached gets to its end, unless AWS itself fails it or refuses the
\* profile (vend.go's "Every step is create-or-verify").  The account has a delivery
\* channel already, or a recorder that runs.
AloneCompletes ==
    \A r \in Runs \ Unlucky :
       /\ Busy(r) /\ Alone(r) /\ ~aws.protected
       /\ aws.channel # "none" \/ aws.recording \/ "recorder" \notin Asked
       /\ \A i \in DOMAIN Disable : aws.region[Disable[i]] # "default"
       /\ pc[r] = Step(1)
       ~> pc[r] = "done" \/ ~Alone(r) \/ AWSFailed(r)

\* AloneCompletes of every account, the new one included: vend.go:188 promises the Config
\* recorder and the delivery channel before the policies.
AnyAccountCompletes ==
    \A r \in Runs \ Unlucky :
       /\ Busy(r) /\ Alone(r) /\ ~aws.protected
       /\ \A i \in DOMAIN Disable : aws.region[Disable[i]] # "default"
       /\ pc[r] = Step(1)
       ~> pc[r] = "done" \/ ~Alone(r) \/ AWSFailed(r)

================================================================================
