-------------------------------- MODULE Verify --------------------------------
(***************************************************************************)
(* automat verify on one account (cmd/automat/verify.go, internal/verify),  *)
(* read by read, beside whoever changes the account meanwhile; the vends    *)
(* and assessments run in between, as far as a later verify sees them; and  *)
(* the account's evidence manifests with their mirrored copies.            *)
(*                                                                         *)
(* What a profile asks of an account is a set of facts, triples of a place, *)
(* a thing and what should be so of it, and the world is the facts that     *)
(* hold.  Commands run one at a time.  At any time people undo what is       *)
(* asked of the account, move it, or put back what was undone; they edit    *)
(* the active evidence file between commands, and any call may fail.  What  *)
(* goes wrong of all this goes wrong at most MaxFaults times.              *)
(***************************************************************************)
EXTENDS Manifests, Assess
LOCAL INSTANCE SequencesExt

CONSTANTS
    OUs, Policies,   \* where the account may be, and the policies of the compiled set
    Stubs, Dated,    \* the attestation stubs, and those with a frequency of days
    Buckets,         \* the buckets evidence is mirrored to, in order
    Profiles,        \* environment profiles: [recorder, pack: BOOLEAN, date]
    Obligation,      \* the obligation profile automat ships
    Files,           \* determination files an operator passes to assess
    Stores,          \* what a first run may find in the evidence directory
    Threshold,       \* records at which a manifest is rotated
    MaxKey,          \* bound: manifests of one account
    MaxCommands,     \* bound: commands run
    MaxFaults,       \* bound: failed calls, facts undone, moves and edits
    MaxLost          \* bound: facts that fail to hold at a time

ASSUME DatedAssumption == Dated \subseteq Stubs
ASSUME BucketsAssumption ==
    /\ Buckets # <<>> /\ Buckets \in Seq(ToSet(Buckets))
    /\ \A i, j \in DOMAIN Buckets : Buckets[i] = Buckets[j] => i = j
ASSUME ObligationAssumption == ValidProfile(Obligation)
ASSUME KeysAssumption == MaxKey \in Nat \ {0}

\* The word kept beside the names of policies and buckets is none of them.
ASSUME NamesAssumption == "others" \notin Policies \cup ToSet(Buckets)

\* A file is a list of determinations; a command without --determinations has none.
ASSUME FilesAssumption == \A f \in Files : Listed(f.list) /\ (f.given \/ f.list = <<>>)

\* The manifests of an evidence directory end at key a: each before it is closed onto the
\* next, it was never rotated itself, and there is none after it.
EndsAt(manifests, a) ==
    /\ \A k \in 1..(a - 1) : /\ Closed(manifests[k])
                             /\ Last(manifests[k].records).next = k + 1
    /\ \A i \in DOMAIN manifests[a].records : ~Terminal(manifests[a].records[i])
    /\ \A k \in (a + 1)..MaxKey : Missing(manifests[k])

\* What earlier runs, all before the first of these, left of the account's evidence.
ASSUME StoresAssumption ==
    \A s \in Stores :
       /\ DOMAIN s = 1..MaxKey /\ s = [k \in 1..MaxKey |-> s[k]]
       /\ \A k \in 1..MaxKey : Document(s[k]) /\ WrittenBy(s[k], 0)
       /\ \E a \in 1..MaxKey : EndsAt(s, a)

VARIABLES
    profile,    \* the environment profile the account was vended from
    home,       \* the account's OU
    holds,      \* the facts that hold
    local,      \* the manifests in the evidence directory, by key
    mirror,     \* the copies in each bucket
    standing,   \* what each bucket's copy of the active manifest is to it
    run,        \* the command that runs, or ran last
    clock,      \* commands begun
    faults      \* of MaxFaults, those that happened

vars == <<profile, home, holds, local, mirror, standing, run, clock, faults>>
world == <<profile, home, holds>>
evidence == <<local, mirror, standing>>

--------------------------------------------------------------------------------
\* What each layer asks for.  The policies are the organization's, attached to an OU.
AttachedTo(ou) == {<<ou, p, "attached">> : p \in Policies}
Documents == {"org"} \X Policies \X {"owned", "content"}
NoOrphan(ou) == <<ou, "others", "not ours">>

Preventive(ou) == AttachedTo(ou) \cup Documents \cup {NoOrphan(ou)}

Recorder == {<<"config", "recorder", w>> : w \in {"there", "recording", "settings"}}
Channel == {<<"config", "channel", w>> : w \in {"there", "bucket"}}
Pack == {<<"config", "pack", w>> : w \in {"there", "parameters"}}

Detective(p) == (IF p.recorder THEN Recorder \cup Channel ELSE {})
                \cup (IF p.pack THEN Pack ELSE {})

Written(s) == {<<"stub", s, "there">>, <<"stub", s, "filled">>}

\* Clean of one stub: there, filled in, and not older than its frequency allows.
Practised(s) == Written(s) \cup (IF s \in Dated THEN {<<"stub", s, "fresh">>} ELSE {})
Procedural == UNION {Practised(s) : s \in Stubs}

Facts == (UNION {Preventive(ou) : ou \in OUs}) \cup Detective(profile) \cup Procedural

--------------------------------------------------------------------------------
Keys == 1..MaxKey
Mirrors == ToSet(Buckets)

\* openActiveManifest: the manifest no rotation leads on from, or 0 when one on the way
\* cannot be read.
Active ==
    LET from[k \in Keys] ==
            IF ~Missing(local[k]) /\ ~Readable(local[k]) THEN 0
            ELSE IF Closed(local[k]) THEN from[Last(local[k].records).next] ELSE k
    IN  from[1]

\* LoadOrNewNamed: a file that is not there is a new manifest.
Opened(k) == IF Missing(local[k]) THEN NewManifest(clock) ELSE local[k]

\* nextRotationKey.
Unused(k) == CHOOSE n \in Keys \ {1, k} :
                /\ Missing(local[n])
                /\ \A o \in Keys \ {1, k} : Missing(local[o]) => n <= o

\* writeManifestWithRotation of a manifest just appended to: rotated when it is full.  The
\* last of the MaxKey manifests is not rotated: the bound leaves it no successor.
Rotating(k, m) ==
    IF Len(m.records) < Threshold \/ k = MaxKey THEN m ELSE Rotated(m, clock, Unused(k))

--------------------------------------------------------------------------------
Idle == run.pc = "done"
At(pc) == run.pc = pc

Ended(exit) == [run EXCEPT !.pc = "done", !.exit = exit]

\* A call that AWS denies or does not answer.
Fails == faults < MaxFaults /\ faults' = faults + 1

\* A command as it begins.  With it goes what the account is meanwhile: the facts that
\* held at some moment of the command and those that held throughout, the OUs it was in,
\* and what the mirrored copies were when it began.
Command(cmd, pc) ==
    [cmd |-> cmd, pc |-> pc, target |-> "none", seen |-> {}, found |-> {}, unknown |-> {},
     failed |-> {}, key |-> 0, at |-> 1, file |-> NoFile, summary |-> NoSummary,
     exit |-> 0, ever |-> holds, always |-> holds, homes |-> {home}, stood |-> standing]

Init ==
    /\ profile \in Profiles
    /\ home \in OUs
    /\ holds = Facts
    /\ local \in Stores
    /\ mirror = [b \in Mirrors |-> local]
    /\ standing = [b \in Mirrors |-> "current"]
    /\ clock = 0 /\ faults = 0
    /\ run = Command("none", "done")

\* A command begins; an assessment with a file of determinations, or none.
Begin(cmd, pc) ==
    /\ Idle /\ clock < MaxCommands
    /\ clock' = clock + 1
    /\ run' = Command(cmd, pc)
    /\ UNCHANGED <<world, evidence, faults>>

BeginVerify == Begin("verify", "parents")
BeginVend == Begin("vend", "apply")

BeginAssess ==
    /\ Idle /\ clock < MaxCommands
    /\ clock' = clock + 1
    /\ \E f \in Files : run' = [Command("assess", "summarize") EXCEPT !.file = f]
    /\ UNCHANGED <<world, evidence, faults>>

--------------------------------------------------------------------------------
\* verifyParentOf.
Parents ==
    /\ At("parents")
    /\ \/ run' = [run EXCEPT !.target = home, !.pc = "list"] /\ UNCHANGED faults
       \/ Fails /\ run' = Ended(1)
    /\ UNCHANGED <<world, evidence, clock>>

\* attachedPolicies: what is not there is found missing, the rest is read later.
List ==
    /\ At("list")
    /\ \/ /\ run' = [run EXCEPT
                       !.seen = {p \in Policies : <<run.target, p, "attached">> \in holds}
                                \cup (IF NoOrphan(run.target) \in holds THEN {} ELSE {"others"}),
                       !.found = IF AttachedTo(run.target) \subseteq holds THEN @
                                 ELSE @ \cup {"policy"},
                       !.pc = "describe"]
          /\ UNCHANGED faults
       \/ Fails /\ run' = Ended(1)
    /\ UNCHANGED <<world, evidence, clock>>

\* policyOwnershipAndContent of an expected policy: differs when it is not automat's, or
\* says something else.
Describe(p) ==
    /\ At("describe") /\ p \in run.seen
    /\ \/ /\ run' = [run EXCEPT
                       !.seen = @ \ {p},
                       !.found = IF {"org"} \X {p} \X {"owned", "content"} \subseteq holds THEN @
                                 ELSE @ \cup {"policy"}]
          /\ UNCHANGED faults
       \/ Fails /\ run' = Ended(1)
    /\ UNCHANGED <<world, evidence, clock>>

\* orphanedPolicies: a policy that cannot be read is no orphan.  The clients of the next
\* layer follow: what the profile does not configure is not read.
Others ==
    /\ At("describe") /\ run.seen \cap Policies = {}
    /\ LET next == IF profile.recorder THEN "recorder" ELSE IF profile.pack THEN "pack"
                   ELSE "stubs"
           ours == "others" \in run.seen /\ NoOrphan(run.target) \notin holds
       IN  \/ /\ run' = [run EXCEPT !.found = IF ours THEN @ \cup {"policy"} ELSE @,
                                    !.pc = next]
              /\ UNCHANGED faults
           \/ /\ "others" \in run.seen /\ Fails
              /\ run' = [run EXCEPT !.failed = @ \cup {"others"}, !.pc = next]
    /\ UNCHANGED <<world, evidence, clock>>

--------------------------------------------------------------------------------
\* runDetectiveCheck: one read of the layer; a read that fails makes all of it unknown,
\* whatever was found of it before.
Reads(facts, next) ==
    \/ /\ run' = [run EXCEPT !.found = IF facts \subseteq holds THEN @
                                       ELSE @ \cup {"detective"},
                             !.pc = next]
       /\ UNCHANGED faults
    \/ /\ Fails
       /\ run' = [run EXCEPT !.found = @ \ {"detective"}, !.unknown = @ \cup {"detective"},
                             !.pc = "stubs"]

\* Mutant of CheckRecorder: whether it records is never asked.
CheckRecorderIsThere ==
    /\ At("recorder")
    /\ Reads(Recorder \ {<<"config", "recorder", "recording">>}, "channel")
    /\ UNCHANGED <<world, evidence, clock>>

\* checkRecorder: its status is not asked for when it is not there.
CheckRecorder ==
    /\ At("recorder")
    /\ Reads(Recorder \ {<<"config", "recorder", "recording">>},
             IF <<"config", "recorder", "there">> \in holds THEN "status" ELSE "channel")
    /\ UNCHANGED <<world, evidence, clock>>

CheckStatus ==
    /\ At("status")
    /\ Reads({<<"config", "recorder", "recording">>}, "channel")
    /\ UNCHANGED <<world, evidence, clock>>

CheckDeliveryChannel ==
    /\ At("channel")
    /\ Reads(Channel, IF profile.pack THEN "pack" ELSE "stubs")
    /\ UNCHANGED <<world, evidence, clock>>

CheckConformancePack ==
    /\ At("pack")
    /\ Reads(Pack, "stubs")
    /\ UNCHANGED <<world, evidence, clock>>

\* CheckProcedural: the files of the directory, one after the other, which nobody else
\* holds up; a file of the wrong kind makes the layer unknown.
CheckStubs ==
    /\ At("stubs")
    /\ \/ /\ run' = [run EXCEPT !.found = IF Procedural \subseteq holds THEN @
                                          ELSE @ \cup {"procedural"},
                                !.pc = "fetch"]
          /\ UNCHANGED faults
       \/ /\ Fails
          /\ run' = [run EXCEPT !.unknown = @ \cup {"procedural"}, !.pc = "fetch"]
    /\ UNCHANGED <<world, evidence, clock>>

\* S3Mirror.Fetch of a key nothing was uploaded under.
Unreachable(b, key) == Missing(mirror[b][key])

\* MirrorDrift.
Differs(b, key) == Compare(Opened(key), mirror[b][key]) # "matches"

\* checkMirrorDrift: the local copy against each mirrored one; what cannot be fetched is
\* unknown; a client that cannot be built, or a local copy that cannot be opened, ends
\* the run.
Fetch ==
    /\ At("fetch")
    /\ LET key     == Active
           b       == Buckets[run.at]
           fetched == [run EXCEPT !.pc = IF run.at = Len(Buckets) THEN "sign" ELSE @,
                                  !.at = IF run.at = Len(Buckets) THEN 1 ELSE @ + 1]
       IN  IF key = 0 THEN run' = Ended(1) /\ UNCHANGED faults
           ELSE \/ /\ run' = [fetched EXCEPT
                                !.found = IF ~Unreachable(b, key) /\ Differs(b, key)
                                          THEN @ \cup {"mirror"} ELSE @,
                                !.unknown = IF Unreachable(b, key) THEN @ \cup {"mirror"} ELSE @]
                   /\ UNCHANGED faults
                \/ /\ Fails
                   /\ run' = [fetched EXCEPT !.unknown = @ \cup {"mirror"},
                                             !.failed = @ \cup {b}]
                \/ run.at = 1 /\ Fails /\ run' = Ended(1)
    /\ UNCHANGED <<world, evidence, clock>>

--------------------------------------------------------------------------------
\* evidenceSigner.
Sign ==
    /\ At("sign")
    /\ \/ run' = [run EXCEPT !.pc = "write"] /\ UNCHANGED faults
       \/ Fails /\ run' = Ended(1)
    /\ UNCHANGED <<world, evidence, clock>>

\* What the run records: a failure exactly when something was found, parked when the
\* vend was.
Outcome == IF run.found # {} THEN "failure" ELSE IF run.exit = 1 THEN "parked" ELSE "success"

\* writeVerifyEvidence, writeVendEvidence: one record, and a rotation when it fills the
\* manifest.  The mirrored copies fall behind.
Write ==
    /\ At("write") /\ run.cmd # "assess"
    /\ LET key == Active
           rec == Record(run.cmd, clock, Outcome, 0)
       IN  IF key = 0 \/ ~Appendable(Opened(key), rec)
           THEN run' = Ended(1) /\ UNCHANGED evidence
           ELSE /\ local' = [local EXCEPT ![key] = Rotating(key, Appended(Opened(key), rec))]
                /\ standing' = [b \in Mirrors |->
                                  IF standing[b] = "current" THEN "behind" ELSE standing[b]]
                /\ run' = [run EXCEPT !.key = key, !.pc = "upload"]
                /\ UNCHANGED mirror
    /\ UNCHANGED <<world, clock, faults>>

\* CheckFreshness: a review date that is none; one that has passed is only reported.
NoReviewDate == profile.date = "garbled"

\* The exit status of verify: what was found, then what could not be read.
Exit == IF run.cmd # "verify" THEN run.exit
        ELSE IF run.found # {} THEN 2
        ELSE IF run.unknown # {} \/ NoReviewDate THEN 3 ELSE 0

\* Mutant of Upload: under the account's id, whichever manifest was written.
UploadToAccountKey ==
    /\ At("upload")
    /\ LET b == Buckets[run.at]
       IN  \/ /\ mirror' = [mirror EXCEPT ![b][1] = local[run.key]]
              /\ standing' = [standing EXCEPT ![b] = "current"]
              /\ UNCHANGED faults
           \/ /\ Fails
              /\ standing' = [standing EXCEPT ![b] =
                                 IF Closed(local[run.key]) THEN "current" ELSE @]
              /\ UNCHANGED mirror
    /\ run' = IF run.at < Len(Buckets) THEN [run EXCEPT !.at = @ + 1] ELSE Ended(Exit)
    /\ UNCHANGED <<world, local, clock>>

\* S3Mirror.Upload: the whole manifest, over what was there.
Put(b, key) == mirror' = [mirror EXCEPT ![b][key] = local[key]]

\* uploadToMirrors, under the key that was written; a failure is a warning.  A closed
\* manifest is not the active one any more.
Upload ==
    /\ At("upload")
    /\ LET b == Buckets[run.at]
       IN  \/ /\ Put(b, run.key)
              /\ standing' = [standing EXCEPT ![b] = "current"]
              /\ UNCHANGED faults
           \/ /\ Fails
              /\ standing' = [standing EXCEPT ![b] =
                                 IF Closed(local[run.key]) THEN "current" ELSE @]
              /\ UNCHANGED mirror
    /\ run' = IF run.at < Len(Buckets) THEN [run EXCEPT !.at = @ + 1] ELSE Ended(Exit)
    /\ UNCHANGED <<world, local, clock>>

--------------------------------------------------------------------------------
\* What runVendSteps establishes, one step after the other: every stub that was missing or
\* never filled in, the pack, the recorder and its channel, the policies.  Orphans and
\* stale stubs it leaves alone.
Steps ==
    <<UNION {Practised(s) : s \in {u \in Stubs : ~(Written(u) \subseteq holds)}},
      IF profile.pack THEN Pack ELSE {},
      IF profile.recorder THEN Recorder \cup Channel ELSE {},
      AttachedTo(home) \cup Documents>>

Established == UNION {Steps[i] : i \in DOMAIN Steps}

\* What a run that parks has put in order: all of the steps before the one it parked in,
\* and some of that one.
Partly == {done \in SUBSET (Established \ holds) :
             \A i, j \in DOMAIN Steps :
                i < j /\ done \cap Steps[j] # {} => Steps[i] \subseteq holds \cup done}

\* A policy of another owner under a name of the set: its run parks there, at the last step.
Taken == {p \in Policies : <<"org", p, "owned">> \notin holds}

\* runVendSteps on the account, as a later verify sees it: all of it, or parked at a call,
\* or at a policy another owner has, which it does not touch.
ApplyPass ==
    /\ At("apply")
    /\ \/ /\ Taken = {}
          /\ holds' = holds \cup Established
          /\ run' = [run EXCEPT !.pc = "sign"]
          /\ UNCHANGED faults
       \/ /\ Fails \/ (Taken # {} /\ UNCHANGED faults)
          /\ \E done \in Partly :
                /\ done \cap ({"org"} \X Taken \X {"owned", "content"}) = {}
                /\ holds' = holds \cup done
          /\ run' = [run EXCEPT !.pc = "sign", !.exit = 1]
    /\ UNCHANGED <<profile, home, evidence, clock>>

\* newAssessCmd: the summary, which is written out before anything is recorded.
Summarize ==
    /\ At("summarize")
    /\ \/ /\ Accepts(run.file, Obligation)
          /\ run' = [run EXCEPT !.summary = Summary(run.file.list, Obligation), !.pc = "sign"]
          /\ UNCHANGED faults
       \/ ~Accepts(run.file, Obligation) /\ run' = Ended(1) /\ UNCHANGED faults
       \/ Fails /\ run' = Ended(1)
    /\ UNCHANGED <<world, evidence, clock>>

\* writeAssessEvidence: to the account's first manifest, and to no mirror.
WriteAssess ==
    /\ At("write") /\ run.cmd = "assess"
    /\ LET rec == Record("assess", clock, "success", 0)
       IN  IF (~Missing(local[1]) /\ ~Readable(local[1])) \/ ~Appendable(Opened(1), rec)
           THEN run' = Ended(1) /\ UNCHANGED <<local, standing>>
           ELSE /\ local' = [local EXCEPT ![1] = Appended(Opened(1), rec)]
                /\ standing' = [b \in Mirrors |->
                                  IF standing[b] = "current" THEN "behind" ELSE standing[b]]
                /\ run' = Ended(0)
    /\ UNCHANGED <<world, mirror, clock, faults>>

--------------------------------------------------------------------------------
\* Meanwhile, for a verify that runs.
Seen == run' = IF Idle \/ run.cmd # "verify" THEN run
               ELSE [run EXCEPT !.ever = @ \cup holds', !.always = @ \cap holds',
                                !.homes = @ \cup {home'}]

\* People, and time: something the profile asks for is no longer so, the account is moved,
\* or something that was undone is put back.  The last is free of MaxFaults: it happens at
\* most once for each time something was undone.
Drift ==
    /\ \/ /\ faults < MaxFaults /\ faults' = faults + 1
          /\ Cardinality(Facts \ holds) < MaxLost
          /\ \E f \in holds : holds' = holds \ {f}
          /\ UNCHANGED home
       \/ /\ faults < MaxFaults /\ faults' = faults + 1
          /\ home' \in OUs \ {home}
          /\ UNCHANGED holds
       \/ /\ \E f \in Facts \ holds : holds' = holds \cup {f}
          /\ UNCHANGED <<home, faults>>
    /\ Seen
    /\ UNCHANGED <<profile, evidence, clock>>

\* The active manifest's file is changed, or lost, outside automat.
Edit ==
    /\ Idle /\ clock < MaxCommands
    /\ faults < MaxFaults /\ faults' = faults + 1
    /\ Active # 0 /\ ~Missing(local[Active])
    /\ \E m \in Copies(local[Active]) : local' = [local EXCEPT ![Active] = m]
    /\ standing' = [b \in Mirrors |->
                      IF standing[b] = "current" THEN "witness" ELSE "unclear"]
    /\ UNCHANGED <<world, mirror, run, clock>>

AllDone == Idle /\ clock = MaxCommands /\ UNCHANGED vars

Next ==
    \/ BeginVerify \/ BeginVend \/ BeginAssess
    \/ Parents \/ List \/ (\E p \in Policies : Describe(p)) \/ Others
    \/ CheckRecorder \/ CheckStatus \/ CheckDeliveryChannel \/ CheckConformancePack
    \/ CheckStubs \/ Fetch
    \/ Sign \/ Write \/ Upload
    \/ ApplyPass \/ Summarize \/ WriteAssess
    \/ Drift \/ Edit \/ AllDone

Spec == Init /\ [][Next]_vars

--------------------------------------------------------------------------------
Verified == run.cmd = "verify" /\ Idle

\* What the layers of a run ask of the account.
Asked == [policy     |-> Preventive(run.target),
          detective  |-> Detective(profile),
          procedural |-> Procedural]

\* orphanedPolicies passes over a policy it could not read (policy.go:219-225), so that a
\* run which has met one says nothing of orphans, and may exit 0 with a check that was not
\* completed, against verify.go:105-106.
PassedOver == IF "others" \in run.failed THEN {NoOrphan(run.target)} ELSE {}

\* The exit status of verify says what was so while it ran, whatever was undone, put back
\* or moved between two of its reads and whichever calls failed (verify.go:244-250).  The
\* OU it checked was the account's.  What was wrong all the while is reported, at 3 unless
\* the layer could not be read: each thing asked for was so at some moment of a run that
\* passes it, though not all at the same one.  At 2 something was wrong at some moment, or
\* a mirrored copy was not the local one.  And an evidence file edited while a mirror held
\* the same is reported by every run that can read that mirror, whatever ran in between.
VerdictIsTrue ==
    Verified =>
      /\ run.exit # 1 => run.target \in run.homes
      /\ run.exit \in {0, 3} =>
            /\ \A l \in DOMAIN Asked : ~(Asked[l] \ PassedOver \subseteq run.ever)
                                        => run.exit = 3 /\ l \in run.unknown
            /\ \A b \in Mirrors \ run.failed : run.stood[b] # "witness"
      /\ run.exit = 2 => \/ \E l \in DOMAIN Asked : ~(Asked[l] \subseteq run.always)
                         \/ \E b \in Mirrors : run.stood[b] # "current"

\* A mirrored copy is only ever added to (mirror.go:138, verify.go:228-242), through
\* failed uploads, rotations and assessments that mirror nothing, unless somebody edited
\* the local file; and then a verify that replaces it has said so, or could not compare
\* another: only a vend, which compares nothing, replaces it unseen.
MirrorsOnlyGrow ==
    [][\A b \in Mirrors, k \in Keys :
          \/ Missing(mirror[b][k]) \/ Extends(mirror'[b][k], mirror[b][k])
          \/ /\ standing[b] \in {"witness", "unclear"}
             /\ run.cmd = "vend" \/ "mirror" \in run.found \cup run.unknown]_vars

\* A summary that an assessment wrote out claims no more than the file it was given
\* determines, whatever failed and whatever ran since (cmd/automat/assess.go, newAssessCmd;
\* assess/summary.go:37): it is earned by the determinations of that file.
NeverOverstates ==
    run.summary # NoSummary => Earned(run.summary, run.file.list, Obligation)
================================================================================
