# automat: TLA+ models, checks and proofs

`automat` vends AWS accounts into an organization: it creates an account, moves it into an OU,
applies an in-account baseline, attaches service control policies to the OU, and keeps a
hash-chained evidence manifest per account. Nothing holds a lock: any number of invocations, AWS's
own asynchronous work, other administrators and process deaths interleave at every AWS call and at
every file operation. That is what these modules are about.

## The system

| component | state it keeps | operations | interacts with |
|---|---|---|---|
| vend account and placement (`internal/org/account.go`) | none of its own; the accounts of the organization, create-account requests at AWS | `EnsureAccount` (search, create, poll, adopt), `resumeAccount`, `EnsurePlacement` | AWS Organizations; other vends; humans who move accounts |
| vend command (`cmd/automat/vend.go`) | `vendState` of one run: request id, account id, records | plan pass, apply pass, `park`, `writeVendEvidence` | the ensurers below, the evidence store |
| policy set (`internal/org/policy.go`, `set.go`) | policies, their tags and attachments at AWS | `EnsurePolicySet`, `EnsurePolicy`, `EnsurePolicyAttachment` | other vends of the same OU, central IT's own policies, the quota of five |
| OU path (`internal/org/ou.go`) | the OU tree at AWS | `EnsureOU`, `EnsureOUPath`, `depthOf` | other vends creating the same path; people who create, rename and delete OUs |
| account list (`internal/org/tree.go`, `cmd/automat/list.go`) | none; reads the tree and the accounts | `WalkTree` | whoever moves accounts and changes OUs meanwhile; the evidence directory |
| reclaim (`internal/org/reclaim.go`, `cmd/automat/reclaim.go`) | attachments, the account's status | `DetachOwnedPolicies`, `CloseAccount`, evidence | vends into the same OU, other reclaims |
| evidence store (`internal/evidence`, `cmd/automat/evidencerotate.go`) | manifest files and temporary copies in a directory | load, append, two-file write, rotation | every command that records; crashes |
| evidence document (`internal/evidence/types.go`, `chain.go`, `hash.go`, `validate.go`) | the records of one manifest and their chain | `Append`, `Rotate`, `Validate`, `VerifyChain` | the evidence store, the mirror |
| evidence mirror (`internal/evidence/mirror*.go`, `cmd/automat/evidencemirror.go`) | objects in S3 buckets | best-effort upload, fetch and comparison | the evidence store; vend and verify, which upload; verify, which compares |
| in-account baseline (`internal/baseline`) | a role, regions, a Config recorder and its channel, a conformance pack in the account; stub files | six ensure operations | vend; other vends of the account; the protective policy, which freezes what they made |
| init and setup (`internal/org/init.go`, `setup.go`) | organization features, the vendor role, the delegation | ensure steps | AWS |
| safe file access (`internal/safeio`) | none | checked create and read | the evidence store, config, login cache |
| login (`internal/login`), broker (`internal/broker`) | a token cache file; sessions | device polling; role assumption | AWS SSO, STS |
| documents (`internal/artifact`, `envprofile`, `catalog`) | none | decode, validate, canonicalize, hash, resolve | what vend and verify compile from |
| control set compiler (`internal/compilesets`) | none | merge with overrides, narrow, pack, group by crosswalk, read back | the policies and rules of vend and verify |
| verify (`internal/verify`, `cmd/automat/verify.go`) | a run's findings | policy, detective, procedural and mirror checks, an exit status | the organization, the account, the stubs; the evidence store and its mirrors |
| assess (`internal/assess`, `cmd/automat/assess.go`) | none | validate and combine a profile and determinations, summarize | the evidence store |
| classification profiles (`internal/classprofile`), configuration (`internal/config`), preflight (`internal/preflight`) | none | parse and validate; probe | the operator's screen |
| role bundle (`internal/bundle`), generator (`gen/catalog`) | none | render text | - |

What makes it hard: *no locks* (read-then-write against AWS everywhere), *asynchronous creation*
(a create is accepted, ends later, and may outlive the process), *retries by humans* (a resume
takes an id typed from a report), *crashes between an effect and its record*, *rotation of a
manifest while other writers hold the old one*, *shared OUs* whose policies several vends,
reclaims and central IT edit together, *documents that disagree* and are folded two at a time into
policies that must deny neither less nor more, and *a verdict read call by call* of a world that
changes meanwhile.

What makes each part correct, in the words of its properties: one account per address and what was
done is recorded (vend); one log that only grows and is never lost (evidence); an account that ended
well is governed and nobody else's policy is touched (policy set, reclaim); one path is one OU (OU
path); a vend that ends well left everything in force, and a re-run completes (baseline); policies deny
exactly what the attested content promises (compiler); a verdict says what was so while it read (verify);
a summary claims no more than was determined (assess).

## Modules

| module | what it is |
|---|---|
| `VendAccount` | concurrent `automat vend` runs, from the plan to the evidence record |
| `MCVendRace`, `MCVendIdentity` | its instances for TLC |
| `VendAccountProofs` | its invariants and its action property, proved for every instance |
| `EvidenceLog` | what an account's evidence promises its reader: one log that only grows |
| `EvidenceStore` | the manifest files of one account, at every file operation of every run; refines `EvidenceLog` |
| `MCEvidence` | its instances for TLC |
| `EvidenceStoreProofs` | pointers never form a cycle, no crash loses a manifest, a closed one stays as it is, the files implement `EvidenceLog` |
| `GovernedOU` | the policies of OUs under concurrent vends, reclaims and people |
| `MCGoverned` | its instances for TLC |
| `GovernedOUProofs` | ownership, convergence of documents, and what vends and reclaims beside each other guarantee |
| `OUTree` | the tree of OUs under concurrent vends that resolve paths, lists that walk it, and people |
| `MCOUTree` | its instance for TLC |
| `OUTreeProofs` | the tree stays legal, one path is one OU, no path is half made, an apply follows its plan, a list misses nobody |
| `Baseline` | the in-account baseline of one account, under concurrent vends of one profile |
| `MCBaseline` | its instance for TLC |
| `BaselineProofs` | a vend that ends well left everything in force, and only a finished account is frozen |
| `ControlSets` | the algebra of control sets: when a statement denies, how statements, bounds, exemptions and rule parameters combine, reading back |
| `Documents` | control artifacts, environment profiles and obligations: what makes each acceptable, their canonical forms and hashes |
| `Compile` | the command that loads documents, folds, narrows, packs and groups them |
| `CompileProofs` | merging denies the same, policies and parameters bind exactly as promised, conflicts are real, groups are components |
| `MCCompile` | a catalog of ten control sets, and profiles that choose among them |
| `Manifests` | the document of one evidence manifest: records, hashes, validity, appending, comparison |
| `Assess` | obligation profiles, determinations, and the Level 1 summary |
| `AssessProofs` | the lemmas about a summary that `VerifyProofs` cites |
| `Verify` | verify of one account, beside drift, vends, assessments, edits of the evidence, and mirrors |
| `MCVerify` | its instance for TLC |
| `VerifyProofs` | verdicts are true, summaries overstate nothing, mirrored copies only grow |

Several specifications and not one, because each interacts with the next in one place only. A vend
compiles its documents (`Compile`, on `ControlSets` and `Documents`) and writes no policy unless that
ends well. `OUTree` is `resolveDestination`, the first thing a vend does at AWS; the OU it
ends in is the destination that `VendAccount` and `GovernedOU` are given. `VendAccount`'s `Baseline`
step is taken apart by `Baseline`, its `Policies` step by `GovernedOU`, whose `Place` is in turn all
of `VendAccount` up to the placement, and whose documents are the ones `Compile` makes. A run ends in
`WriteEvidence`, one step that succeeds or fails, which `EvidenceStore` takes apart down to the file
operations and `Verify` down to the records (`Manifests`); `Verify` holds the facts of an account,
which is where the effects of all the others are looked at again. Nothing in the policy set reads a
manifest and nothing in a manifest decides a policy call (the evidence is written after the apply
pass, whatever that came to).

`map` in `PROJECT.json` names the lines a definition stands for: the declarations it translates, each
with its doc comment, including the messages and the text it leaves out.

### VendAccount

Each member of `Runs` is one invocation of the command. Every AWS call is one step, because that is
where other runs get in. A run makes at most one `CreateAccount` call, so the create request and the
account that comes out of it are named after the run; `Foreign` are accounts automat did not create.

| state | code |
|---|---|
| `parent`, `email`, `name` | the organization, as Organizations' reads return it |
| `request` | `DescribeCreateAccountStatus` of the request a run made (`duplicate` is FAILED with EMAIL_ALREADY_EXISTS) |
| `input` | what the operator typed: address, name, destination, `--resume` |
| `req`, `acct`, `records` | `vendState.RequestID`, `AccountID`, `Records` |
| `from` | the parent `EnsurePlacement` read and will name as the source |
| `polls` | iterations of `pollCreate` |
| `applied` | `Applied` actions of the org ensurer about the account, and of the baseline |
| `outcome`, `pc` | how `runVendSteps` ended, and where the run is |
| `manifest` | the records on disk, per account |

`Plan` is the whole plan pass: it is read-only, so only its refusal matters. `ListDest`,
`ListRoot` and their `Relist` twins are `findAccountByEmail`, one container per step in the order
`dedupe` sorts them in. `CreateAccount`, `Poll`, `PollsRunOut`, `ReadBack` are the rest of
`EnsureAccount`; `Place` and `Move` are `EnsurePlacement`; `Baseline` and `Policies` are the steps
after it, whose effects are outside this module and whose success, failure and records are in it;
`Sign` and `WriteEvidence` end the run. `Resolve` is AWS ending a create; `HumanMoves` is a person
with console access; `Kill` is the process dying between any two calls.

Runs in `Unlucky` may be killed or refused any call. The other runs are the ones liveness speaks of.

### EvidenceStore

A run here is the end of a `vend`, `verify`, `assess` or `reclaim`: it has done something to one
account and records it. Each step is one file operation, because a process can die between any two
and nothing locks the directory.

| state | code |
|---|---|
| `file`, `tmp` | manifest `<account>.json` (1) or `<account>-n.json` (n) and its temporary copy: absent, truncated, half overwritten, or a whole document |
| `pc`, `key` | where a run is, and the manifest it works on (`key` in `openActiveManifest`) |
| `mem` | the `Manifest` in memory: its records and, once closed, the successor named by its terminal rotate record |
| `lost` | the run's temporary copy was removed by another run, so what it writes into the open file goes nowhere |

`OpenNew`, `OpenRefused`, `OpenNext`, `OpenActive` are `LoadOrNewNamed`, inside the loop of
`openActiveManifest` for followers (`vend`, `verify`) and once for the commands that go to the
account's first manifest directly (`reclaim`, `assess`). `Append_` is `Manifest.Append` of every
record the run has. `OpenTmp`, `WriteTmp`, `OpenFile`, `WriteFile`, `RemoveTmp` are `writePair`;
`Rotate` and `RotateFails` are `writeManifestWithRotation` and `nextRotationKey`, after which the
pair is written a second time. `Stops` is a kill or an I/O error at any of these; `Recover` is the
operator doing what `writePair`'s error says. `Overlap` says whether runs may overlap: one
operator with one terminal does not overlap, a scheduled `verify` does.

Records are their run and their number. Hashes, signatures and the validation of a record are left
out: a document is read as it was written or is refused. A flushed write is on disk (no power loss).

### GovernedOU

Vends that have an account (`Place` is everything before the policy set), reclaims from the read of
their target, and people. One step is one AWS call, except that a policy's existence and owner tag,
which never change once they hold, are read together with the next thing that can change.

| state | code |
|---|---|
| `policy`, `attached` | the organization's service control policies (owner tag, document) and what each target carries beside `FullAWSAccess` |
| `parent`, `status` | where accounts are; `closing` is a close AWS has accepted and still reports as ACTIVE |
| `pc`, `i` | where a run is, and the entry of its set a vend's loop is at |
| `target`, `todo`, `shared` | a reclaim's target (read once), what it still has to detach, whether it saw a sibling |
| `holder` | history: the last run to take charge of an account |
| `late` | history: the accounts that came under a reclaim's target when it would not look at them any more |
| `put` | history: the names vends attached to a reclaim's target since it listed what is there |

`ReadPolicy`, `CreatePolicy`, `Adopt`, `UpdatePolicy` are `EnsurePolicy` and `createPolicy`;
`ReadAttached` and `AttachPolicy` are `EnsurePolicyAttachment`; `NextContent` and `NextAttachment`
are the two loops of `EnsurePolicySet`. `Target`, `List`, `Siblings`, `DetachPolicy`,
`CloseAccount` are the apply pass of `reclaim`. `Suspend` is AWS finishing a close; `HumanCreates`,
`HumanAttaches` and `HumanMoves` are central IT. A document is an abstract value: what matters is
whether two vends compile the same one. No action reads the history. Nothing keeps a vend from running
beside a reclaim, in the code or here; the history says which accounts a reclaim cannot have known of,
so that the properties promise exactly the rest.

### OUTree

Vends from the start of `resolveDestination` to its end, lists, and people. One step is one AWS call;
a list that AWS returns in pages is one call.

| state | code |
|---|---|
| `ou`, `parent` | the OUs of the organization, in the order AWS made them, and where accounts are |
| `input` | the parent OU and `placement.ou_path` of a vend; whether its `ListParents` may be answered with an error |
| `pc`, `pass` | where a command is, and whether a vend is in its plan or its apply pass |
| `climb` | `current` and `depth` of `depthOf` |
| `way` | the OUs `EnsureOUPath` has resolved in this pass, one per level |
| `seen` | history: OUs the plan found that nobody has touched since; no action reads it |
| `walk` | the level `WalkTree` is at (its queue, and the next one), the OU being read, the depth, what is listed; history: the accounts that have not moved |

`Climb` and `Depthless` are `depthOf` and the depth check; `Find`, `Create` and `Refind` are
`EnsureOU` for one level, `Descend` the loop of `EnsureOUPath` around it. A vend resolves its path
twice: `Applies` is `newVendCmd` calling `runVendSteps` again in apply mode, which starts from the
beginning and remembers nothing of the plan. A dry run is a vend that takes no step after its plan.
`ListOUs` and `ListAccounts` are the two calls `WalkTree` makes per container. `PeopleMove` is
anybody moving an account, for a list also a vend's own placement. AWS's side (unique names among
siblings, five levels, only empty OUs deleted) is `Grown`, `Named`, `Level` and the guards of people.

### Baseline

Vends of one profile that have reached the account, each from `GetRole` to `Attach`; one step is one
AWS call or one file operation. The account is what AWS holds of it: each piece is as the profile
asks, or is not, in the ways the code tells apart.

| state | code |
|---|---|
| `aws` | the automation role and its inline policy, its tag, the opt-in status of regions, the conformance pack's parameters, its deployment and (history) the run that asked for it, the Config recorder and whether it records, the delivery channel, whether the protective policy is attached above the account |
| `stub` | the attestation stubs in the operator's directory: absent, empty, cut short, as drafted, edited |
| `pc`, `at` | where a run is; its position in the profile's regions, then in its stubs |
| `seen` | the one snapshot `listRegionStatus` took, on which every region is decided |
| `polls` | reads of the wait a run is in |

`GetRole` to `PutRolePolicy` are `EnsureAutomationRole`, `ListRegions` to `PollRegion` `EnsureRegions`,
`LookStub` to `WriteStub` `ensureOneStub`, `DescribePack` to `PollPack` `EnsureConformancePack`,
`DescribeRecorder` to `StartRecorder` `EnsureConfigRecorder`, `DescribeChannel` and `PutChannel`
`EnsureDeliveryChannel`; `Step` is `runVendSteps` skipping what the profile does not ask for. AWS's
side are the effects (`RoleCreated` ... `PackDeployed`) and refusals (`CannotStart`, `CannotEnable`,
`CannotDisable`), read off the fakes of `internal/awsfake`. `Settle` is AWS arriving at what it
accepted, well or not; `Kill` a death between two calls; a failing call of an unlucky run may have
taken effect.

### ControlSets, Documents, Compile

`ControlSets` has no state. A statement is the actions it names, its condition and whom it exempts;
an allowlist is a statement that denies all but what it spares; `Denies` says of a request whether it
is refused, which is AWS's semantics of the policies automat writes. `NormalForm` is
`mergeStatements`, `Combine` one fold of `MergeWithOverrides`, `Resolve` and `Permits` the five
orders of rule parameters, `Settle` and `Override` the operator's override of a conflict, `ReSlot`
the port rule's slots, `Input` and `Undeployable` the conformance pack's template, `Renderable` and
`ReadAllowlists` the two allowlists as statements and back.

`Documents` says when `LoadFS`, `Decode`, `ResolveControlSets` and `CheckObligations` accept a
document. Of syntax it keeps only what decides something: duplicate keys, distinct members, an absent
bound against an empty one, the subject of an attestation.

`Compile` is one process: `Load`, a `Merge` of each control set, `SlotPorts`, `Narrow`, `Render`, `Fit`
(splitting a statement over the size limit), `Place` and `Pack` (first fit, the largest
statements first), `Union` of crosswalk pairs, `Group`, `RenderTemplate`. What is open
is what the documents say, which control set comes first, and the order of Go's maps. `vend` merges and narrows
before anything touches AWS, and groups, renders and packs inside `runVendSteps`, in the plan pass and
again in the apply pass, when the account may exist; here it is one run from documents to policies,
since all of it is a function of the documents and no property depends on that order. `Grouped` puts together what the code also keeps apart by the
reason text of an exemption: what the statements deny is the same.

### Manifests, Verify, Assess

A hash in `Manifests` is the sequence of contents it covers, so equal hashes are equal contents: that
is the one assumption about SHA-256. `Readable` is `Validate` and `VerifyChain` without a verifier,
which is how every command calls them. `Copies` is what may become of a file outside automat, among
it a history edited and re-hashed throughout, which no chain can show and only a mirror does.

`Verify` looks at an account as a set of facts: what each layer asks for, each true or not. One step
is one read (`CheckStubs` is one, for the files are local and nobody else works on them).

| state | code |
|---|---|
| `profile`, `home`, `holds` | the environment profile, the account's OU, the facts that hold of what was asked |
| `local`, `mirror` | the manifests in the evidence directory, and in each bucket, by key |
| `standing` | history: what each bucket's copy of the active manifest is to it (`current`, `behind`, a `witness` of what an edit changed, or `unclear`); no action reads it but to keep it |
| `run` | the command at work: what its layers found, could not read, where it is; its exit status; history: the facts that held at some moment of it (`ever`) and throughout (`always`), the OUs the account was in, the copies' standing when it began |

`Parents` to `CheckStubs` are `CheckPolicy`, `CheckDetective` and `CheckProcedural`, `Fetch`
`checkMirrorDrift`, `Write` and `Upload` `writeVerifyEvidence` and `uploadToMirrors`, `Exit` the
exit status. `ApplyPass` is a re-vend as a later verify sees it (one that parks keeps what the steps before
the failing one did, and any part of that one), `Summarize` and `WriteAssess` an
assessment; commands run one after another. `Drift` is people, between any two reads: something asked
for is undone, the account is moved, or something undone is put back. `Edit` is somebody changing or
losing the active evidence file between commands. `Assess` holds the operators of the assessment.

What a verdict can say of a world that changes under it is worth being exact about. Exit 0 says that
each thing asked for was so at some moment of the run; it does not say that they were so together: with one thing
put back and another undone between the two reads, a clean exit describes a state the account never was
in. Exit 2 says that something was not so at some moment; it may have been put back since. What was
wrong throughout the run is never passed over, unless it is an orphan the run could not read
(*Smaller disagreements*).

### Checks

| run | instance | what it shows |
|---|---|---|
| `vend_race` | 2 runs of one identity and one OU, each plain or resuming either request; `r1` unlucky; 2 polls | types, `PlacedStaysPlaced`, `EffectsLeaveARecord`; `EveryRunEnds`; `RerunCompletes` |
| `vend_identity` | 2 runs over 4 command lines mixing 2 addresses, 2 names, 2 OUs and a resume, beside a foreign account in any place under any identity; the foreign account and one vended account may be moved by a human; the profile leaves a baseline piece outstanding | `SameAddressSameAccount`, `OnlyNamedAccountsMove` |
| `evidence_serial` | 4 runs one after another, 3 of them mortal; batches of 1 or 2 records, rotation at 2, 3 names, limit of 4 records | types, `Recoverable`, `ClosedStaysClosed`, `KeepsTheLog` (refinement of `EvidenceLog`), `EveryRunEnds` |
| `evidence_overlap` | 3 runs overlapping at every file operation, one mortal | `PointersIncrease` |
| `evidence_direct_refused` | as `evidence_serial` | *violated*: `reclaim` and `assess` record nothing once the manifest has rotated |
| `ou_paths` | any 2 of 2 vends and a list, 2 levels, 3 paths of which one is too deep; people may create one of the path's OUs, rename and delete another, move an account; `v2` unlucky | types, `SamePathSameOU`, `NoHalfPath`, `NoFalseAlarm`, `PlanHolds`, `ListedOnce`, `CommandsEnd` |
| `governed_vends` | 3 vends of 2 accounts into one OU, sets of one agreed and one per-account document, quota 2; central IT may hold, create or attach names of the set; one account may be moved out | types, `CarriesWhatItCompiled`, `ForeignUntouched`, `VendsSucceed` |
| `governed_reclaims` | 3 reclaims of the 2 accounts, one of them mortal, beside a vend, interleaved at every call; policies of an earlier release in place or not, quota 2, of which central IT may take a place | `Governed`, `BareBeforeClose`, `OnlyLateSiblingsStripped`, `ReclaimsClose` |
| `account_baseline` | 2 vends, one unlucky, on an account that is new, hand-made, of an earlier release, parked half-way, frozen, or has a default region to disable; a region to enable and one to disable, one stub in three states, 2 polls | `DoneMeansInForce`, `FreezesOnlyFinished`, `AloneCompletes` |
| `baseline_channel_order` | as `account_baseline` | *violated*: a new account whose profile asks for the Config recorder is never completed |
| `compile` | over 100 profile files, signed or not, over 10 control sets (2 of them unacceptable), 5 override files, 2 port slots, statements at and over the size limit | `PoliciesDenyExactly`, `RulesPermitExactly`, `ConflictsAreReal`, `GroupsAreComponents`, `ReadBackIsWhatBinds`, `CompileEnds` |
| `verify_account` | 2 commands out of verify, vend and assess (9 determination files), 2 OUs, 2 stubs, 2 mirrors, the 2 profiles that ask for most and for least, a manifest about to rotate or rotated; 2 faults, one fact undone at a time | `VerdictIsTrue`, `NeverOverstates`, `MirrorsOnlyGrow` |

In the vends of `VendAccount`, two runs are enough for each interleaving of two actors on one account (each step reads and writes
one account of the service); the proofs lift the safety properties to any number.
In `EvidenceStore` two overlapping runs give every conflict on one file; the
serial instance has four so that a crash in a rotation is followed by a recovery, a run that
continues at the successor and a second rotation, up to the last name. In `GovernedOU` three vends
of two accounts give a re-vend beside another account's vend; three reclaims and a vend give a repeated
reclaim beside a sibling's, and a vend beside reclaims of its own account and of its sibling; one OU suffices since a policy is shared by every OU and attachments are not.
In `OUTree` two levels are the fewest that let a vend make one level and lose the race for the next,
and let a path fit under one parent and not under another; a level of a path is made by the other
vend or by people in every order; one account and two of its possible moves show every way a can meet a move.
In `Baseline` two vends meet at every call of every piece, and the accounts found have each piece in
each state the code tells apart; one region of each kind suffices since a region is decided by itself.
`MCCompile`'s control sets are chosen against each other: two that deny one action under one guard
with different exemptions, bounds that nest, overlap and exclude, parameters that agree, conflict, and
conflict only three at a time, texts and pairs that join practices in a chain, ids that collide in a
template, a statement one over the limit. In `Verify` two commands and two faults are the fewest in
which an upload fails or evidence is edited and a later run must notice; drift and a failed read are
two faults too, and so is undoing one thing, which is put back, and then another, between the reads of the
two: what is put back is free of the bound, and one thing at a time fails to hold. `MaxKey` bounds the manifests of an account (the code tries ten thousand names);
in `Verify` the last of them is not rotated.
`CHECK_DEADLOCK FALSE` where the system may stop, since runs end; `Compile` and `Verify` have an explicit
last step instead.

Fairness: `FairSpec` gives weak fairness to each run's `Step`. A live process executes its next
call; a call is always enabled in the model, whatever it answers. Nothing is assumed of AWS
(`Resolve`) or of humans, so `EveryRunEnds` rests on the polling bound alone, and `RerunCompletes`
excepts the run whose polls ran out. In the other modules
fairness is the same, per run (`Fairness` in the specifications of `MCGoverned` and `MCOUTree`): a live process goes on to its next file operation or call. `Begin` is
never fair (nobody has to run a command), nor are `Suspend`, `Recover` and people. `VendsSucceed`
and `ReclaimsClose` speak of runs that are not denied a call.
`AloneCompletes` speaks of a run that no other disturbs and that AWS does not keep waiting past the
bound of its polls: nothing is assumed of AWS, so it is a conclusion's exception and not a fairness.
`CompileEnds` needs only that the command keeps computing. `Verify` states no liveness: each command is
a fixed sequence of reads.
`CommandsEnd` promises success to a vend that is not denied a call, whose path fits and whose OUs
nobody may rename or delete, and an end to every list: people make boundedly many OUs, and each
level of a walk is finite.

### Proofs

The theorems hold for every value of the constants that satisfies the modules' named assumptions:
any number of runs, accounts, OUs, names and records.

`VendAccountProofs` proves `Spec => []IInv` and from it `TypeOK`, `SameAddressSameAccount`,
`PlacedStaysPlaced`, `EffectsLeaveARecord` and `OnlyNamedAccountsMove`, assuming of the constants
only `NamesDistinct` and `ParametersTyped`. None of the four properties is inductive:
that two runs of one address never hold two accounts needs that an account a run holds bears the
address it was given (`AccountsAreNamed`), which needs that an account made from a request has the
identity typed by the run that made it, fixed since before the request (`AccountsMatchRequests`,
`InputsFixed`), and that addresses are unique at AWS (`OneAddressOneAccount`); that a finished run
is in the manifest needs that applied actions become records before the run signs (`EffectsAreHeld`).

`EvidenceStoreProofs` has two arguments. For runs that overlap (`PointerInv`): a name is given to a
successor only when every smaller name has a file, files are never deleted, and a run that holds a
closed document has the file of that document on disk; so every pointer, on disk, in a copy or in
memory, leads to a higher number (`PointersLeadOn`). For runs one after another (`SerialInv`): what
the one run at work knows of its files at each step (`Holds`), with which a damaged manifest always
has its complete new document beside it (`CopyBesideDamage`) and nothing writes to a closed one
(`ClosedForGood`).

On these rests the refinement, `KeptAsLog`: every file operation of every run maps to a step of
`EvidenceLog` or to none. The log is read along the pointers by a recursive function (`Along`), so two
facts about it come first: records appended to the last manifest are appended to the log
(`AlongAppended`), and closing the last manifest onto a name that has no file changes nothing
(`AlongClosed`); both by the greatest manifest for which they fail. The invariant `LogInv` says that
the manifests in use are a chain 1 to a, closed each onto the next, with an open one at the end and no
file beyond (`EndsAt`), and that the step a run is at decides whether its records are in the log
(`Logged`), and what its document in memory is to the file: the same with its records appended, or
the same closed (`Appends`, `Closes`). Of all the operations only the truncation of a manifest
changes what is read (`ViewsStep`), for from then on the copy is what a reader is told to take;
that is where a batch gets into the log, all at once. A run reports only after it has been there.

`GovernedOUProofs` proves without any condition that what is not automat's is left alone
(`ForeignLeftAlone`), from the invariant that what a vend has seen to, and what a reclaim is about
to detach, is automat's (`OwnedInv`); and that documents converge where vends agree
(`DocumentsConverge`), for which a policy that appeared after a vend found none must already carry
the agreed document (`DocInv`) - the reason `Adopt` may leave out the comparison there, and only
there. What vends and reclaims do to each other is `BesideInv`, again without a condition on who runs
beside whom. Of a reclaim past its list, `ReclaimInv` says that what its target carries of automat's is
still to be detached or was attached by a vend since (`put`), and, once it has read the siblings, that the only
other active accounts at its target are those that came unseen (`late`): an account can become active
under an OU only by a vend, and a vend writes its account into `late`. Hence `DetachedBeforeClose` and
`SiblingsKeepTheirPolicies`. `GovernedBeside` needs two more facts of the vend: a reclaim of its own
account that is at work in the OU has it in `late` (`ChargeInv`), and the attachments it has been through are
still there as long as no reclaim overlooks its account (`VendInv`), for then a reclaim in the OU either
sees an active sibling and detaches nothing, or is not past its read of the siblings.

`OUTreeProofs` proves that AWS's tree stays legal under everything that happens (`TreeStaysLegal`:
parents outlive their children, siblings differ in name, no level is too deep), and on it, for every
vend, what its way and its depth count mean at each step (`VendInv`): the way is a chain of OUs that
were found or made under one another with the names asked for, and a vend that is told its depth has
counted the parent's true level, which no one can change because OUs do not move. Hence
`PathsAreWhole` and `RefusalsAreRight`. `OnePathOneOU` is not inductive: that two vends end in one OU
needs that their ways agree level by level as long as the OUs live (`Agreeing`), which holds because
a parent outlives its children. `AppliesFollowPlans` needs what the plan found to be still there
under its name (`SeenInv`).

`ListsShowAll` (`ListedOnce`) rests on what a list still owes: an account below its base that has not
moved since the list began is listed where it is, or is in the OU being read, or has a container above
it that the list has found and not read (`Due`, `Pending`, in `ListsOK`). A read of an OU's children
takes that OU out of what is pending and puts in exactly those children, one of which is above the
account; a deleted OU was empty of accounts and of OUs, so was above nobody; a created one houses nobody.
When nothing is pending, everybody is listed. What lies above a container is a recursive function, of
which two facts are needed: its recursion equation (`AboveIs`), and that it is the same in a tree that
agrees about what is older (`AboveSame`). Both are proved by taking the least container for which they
fail, with `WFMin` of the library over the order of the natural numbers, since a parent is older than
its children. `ListsOK` was itself checked by TLC on the instance of `ou_paths` before it was proved.

`BaselineProofs` proves `DoneInForce`, `FrozenFinished` and `Types`, for any runs, any selection of pieces,
any regions and stubs and any account found. `DoneMeansInForce` is not inductive: that a run which has
ended left a region enabled needs that it was so when the run left it, and has been since, whatever
other runs, AWS and people did. So the invariant (`IInv`) says of every run where it is (`Position`)
and that what it has passed is as asked (`Passed`); and that is kept because no step takes back what
is as asked (`AwsKept`): a role that exists is not created again, a call that AWS refuses
changes nothing, a region on its way only arrives. The deployment of the pack is the exception, since
another vend may start it anew: `PackSettled` says that it is complete, or found as it was, or that the
run which asked for it last waits for it, has parked on it or is dead (`Whole` is both invariants). A
stub is the other: another run may have emptied it between its look and its write, and then that run has
not ended (`Passed` names it as the one to answer for the file). A run that attaches the protective
policy has passed every piece, which is `FrozenFinished`.

`CompileProofs` starts with the algebra, for any sets of statements: a request is denied after
merging exactly when it was before (`MergingDeniesTheSame`, guard by guard: an action is exempt for
a principal only where every statement of its guard exempts it), merging at every fold comes to
the same as merging once (`FoldingDeniesTheSame`), a parameter merged permits exactly what both
permit (`ResolvedPermitsBoth`), and two comparable parameters which do not merge permit nothing in
common (`RefusedShareNothing`). From there it goes to the command, with an invariant in two parts,
`CompileInv`. `PolicyInv` says what is in hand at each phase: while control sets are folded, `acc`
denies what those folded promised, bounds what they bound and exempts what all of them exempt;
afterwards the queue, the half-split statements, the policies being packed and the policies done
together deny what `acc` and the profile's own bounds came to, so that no split, no placement and no
full policy loses a statement. `PoliciesHold` and `ReadBackHolds` read their properties off it.
`RulesOK` says of the parameters what `PolicyInv` says of statements: while control sets are folded,
`acc` permits exactly what every control set folded so far permits, but for the overridden ones, and
two folded control sets can always be compared. That is what makes a pairwise comparison enough
(`ConflictsHold`): values that agree two by two agree all together in every order there is except
for the port slots, whose union is measured by `SlotPorts` at the end. The grouping has its own
invariant, `GroupOK`: the parents form a forest (there is a rank that grows along every parent), every
set of controls closed under shared crosswalk entries is a union of whole trees, and the controls that
cite an entry are in one tree, or will be once the links that are left are followed. That `Find`, a recursive function that climbs as many times as
there are controls, arrives at a root is the pigeonhole principle: a climb that long without one would
meet a control twice, and the rank forbids it (`FindRoot`). A component is stated without a transitive
closure, as what no closed set separates.

The assumptions on documents (`Vocabulary`, `ArtifactsAssumption`, `FilesAssumption`) say of what
type they are, that a catalog is finite, that a list is never the marker of an absent list, that
statements name actions and not regions, that port slots have different names and that the value 0
is one a parameter may have; whether a document is acceptable is the code's to decide, and is not
assumed.

`VerifyProofs` proves one invariant of all commands, `IInv`. For the verdict, `VerifyOK` says at every
step what each layer has read by then (`PolicyRead`, `DetectiveRead`, `ProceduralRead`); that what of
it was not found wrong and not left unread was so at some moment of the run (`Complete`); and that of a layer
found wrong something was not so throughout (`Sound`). Both survive whatever people do between two reads, for
what was so once stays so of the history and what was not so throughout never becomes so; nothing is assumed of what
holds when the run ends. `VerdictHolds` reads the exit status off them. `SummaryHolds` needs what the rows of a
summary are (`SummaryOK` and the lemmas of `AssessProofs`: a control affirmed is named by one
determination, of the word shown, and the figures count different controls). `MirrorsHold` is an
action property, and has the longest argument: the evidence of the account ends at one manifest
(`ChainOK`: those before it are closed onto the next, those after it are missing in the directory and
in every bucket); what is uploaded is that manifest or the one just closed (`UploadOK`), and was written
by the command that uploads it (`DatesOK`); what a bucket's standing says of its copy is so
(`StandingOK`); and a verify that uploads has compared before, and either said that the copy differs or
could not be read, or the local file extends it (`FetchedOK`). Its assumptions are that names are
different (buckets, and the word kept beside them), that the obligation profile the binary ships is
valid, and that the evidence left by runs before the first one is such a chain (`StoresAssumption`).

Where a proof needs induction over the natural numbers (what a recursive function does for every
argument, how a chain of hashes is cut) it takes the least counterexample out of a set with `WFMin`:
the induction theorems of the library, which take a predicate as a parameter, are not available to
the provers used.

What is model-checked only: liveness in every module (`EveryRunEnds` of both, `RerunCompletes`,
`VendsSucceed`, `ReclaimsClose`, `CommandsEnd`, `AloneCompletes`, `CompileEnds`), for fairness and
ENABLED are out of reach of the provers, and the two claims that are violated. Each safety invariant
and each action property that a run checks is stated by a theorem.

## Smaller disagreements

The runs marked *violated* are the disagreements between the repository's words and its code that
seemed to matter most. Others showed up as counterexamples while the modules were written; the
models have the behaviour, and no run checks the claim:

- `internal/org/account.go:60-63` asks that the request id be in the evidence record before anything
  waits on it; `EnsureAccount` waits first, and the manifest is written after the whole apply pass.
- `vendResumeHint` (`cmd/automat/vend.go:1649`) can print the id of the run's own failed create,
  which a resume refuses for ever, when the account was adopted after EMAIL_ALREADY_EXISTS.
- `internal/org/account.go:141-149` says of an address that no search finds that no retry fixes it;
  a search that misses an account because it moves from one listed container to another says so too.
- `nextRotationKey` (`cmd/automat/evidencerotate.go:64-69`) is to keep two rotations from taking one
  name; a claimed successor has no file until its first record, so both take it.
- `docs/open-questions.md:1214-1215` says a write refuses a manifest over the size limit; only loads do.
- `internal/org/set.go:37-42` wants no target to carry half a set; attachments are made one by one
  and a full target keeps the ones that fitted.
- `internal/org/policy.go:37-38` says `EnsurePolicy` makes the policy carry the spec's document; after a
  duplicate it adopts the policy without comparing.
- `internal/org/reclaim.go:180-182` says to reclaim every other account under an OU first; a closed
  account reads ACTIVE for a while, so the last reclaim still sees a sibling and leaves the policies.
- `resolveDestination` (`cmd/automat/vend.go:1029-1043`) probes whether a path exists when the profile
  has `create_intermediate_ous: false`; `internal/envprofile/validate.go:431-438` refuses every such
  profile with an `ou_path` before, and the test of the refusal (`cmd/automat/vend_test.go:2104`)
  passes by it. The probe is never reached, and `OUTree` leaves it out.
- `EnsureOU` (`internal/org/ou.go:81-88`) says of a duplicate it then does not find that it cannot be
  listed or is elsewhere; it may as well have been renamed or deleted between the two calls.
- `docs/reclaim-design.md:67-76` refuses to detach a policy while another account of the target is ACTIVE;
  `internal/org/reclaim.go:168` looks once, before the first detach, and a vend that places an account in
  the OU after it may end well and is left without its policies.
- `DESIGN.md:238` has every mutating operation append a record; a re-vend that changes only the
  in-account baseline records nothing, for `recordSCPStep` (`cmd/automat/vend.go:1735`) asks whether the
  policies changed.
- `schema/CHANGELOG.md:330` calls `records[]` append-only; of two overlapping runs the later write
  (`internal/evidence/store.go:237`) drops the records of the earlier, which had reported them written.
- `docs/environment-profiles.md:173-175` has the automation role exempt from the policies that protect
  the baseline; two accounts of one profile under one OU share the policy, and the second vend
  (`cmd/automat/vend.go:1525`) puts its own account's role in the place of the first's. A later `verify`
  of the first account reports drift.

In the account:

- `internal/baseline/conformance.go:22-28` promises a plan-time refusal of too many parameters; the plan for
  a new account returns before it renders a template (`cmd/automat/vend.go:1298`), so the refusal comes
  after the account exists, and the run is not parked.
- `internal/baseline/attestations.go:86-89` calls stub names free of collision; two control sets may each
  have a control of that id, in different groups, and the second group's stub is never written.
- Every stub says that it "is never overwritten by a later vend" (`attestations.go:300`); between the look
  and `CreateChecked` (`attestations.go:254`), which opens what exists as readily as it creates, another
  vend may have written it and a person filled it in, and it is truncated. One cut short by a crash
  counts as content, and no re-run completes it.
- `conformance.go:505-507` tells the operator of a pack in flight to re-run to check its status;
  `ensureConformancePackFound` (`conformance.go:325`) skips a pack with the right parameters as unchanged
  without asking for it, so the re-run ends well over a deployment that failed. `DoneMeansInForce` holds a
  vend to the deployment it asked for itself, and says of a pack that was skipped only that it may not
  be deployed.
- `pollRegionOptStatus` takes either resting state for the end of its wait, also the one it started from.
- A role whose creator died before `TagRole` is never tagged; a role's trust policy is never compared.

Documents:

- `overrideWideningWarnings` (`compilesets/overrides.go:226`) warns of members that neither side permits;
  for a set of prohibited members those are the ones both prohibit, so a widening override is not warned
  about and a harmless one is.
- An override of a conflict between two control sets is applied at the fold in which it arises, so a third
  control set is compared with the override or with the conflict depending on the order of ids.
- `CheckObligations` compares a profile's hash only if the facts have one (`envprofile/obligations.go:128`);
  `obligationFacts` never sets it, so it never does.
- `len(scp.RegionAllowlist) > 0` (`compilesets/merge.go:384`) takes an empty list of a control for no list.
- `PermitsService` over more than one policy may permit what one of them denies, since exemptions and
  services are intersected apart; no command calls it yet. `ReadBackIsWhatBinds` holds where one merge
  made the policies.

Verify, mirrors and assess:

- `orphanedPolicies` (`verify/policy.go:219-225`) passes over a policy it may not read, so the run exits 0
  with a check that could not be completed, which `cmd/automat/verify.go:105-106` gives a 3: `VerdictIsTrue`
  fails without `PassedOver`, and holds the code to everything but that orphan.
- The record of a run that could not read a layer says success (`verify.go:915`); a procedural layer
  that could not be read is rendered as "no procedural control" (`verify.go:695`).
- `docs/vitrine-design.md:443` has a lapsed review date exit with 3; only an unparseable one does.
- A copy found different is uploaded over by the run that found it, and a vend replaces it
  without comparing (`docs/open-questions.md:1112-1127` has the mirror show an edit). A closed segment is
  never compared again, and its failed upload never repeated.
- A failed upload, or an assess or reclaim, which mirror nothing, makes the next `verify` report a truncated
  copy (exit 2); the first `verify` after a rotation finds no copy to fetch (exit 3).
- `verify` takes the partition to be `aws`, and a compile of the shared policy for its own account.
- `assess` writes its summary before its record: a refused append leaves a summary that nothing records.

## Not modelled

- *Power loss*: a flushed write is on disk. *Signatures*: an attestation's subject is compared and its
  signature is not verified, as in the code; no command verifies a record's.
- *What is read and only reported*: the plan pass (except its refusals), the birth certificate, tables,
  rendered reports, the buckets `verify` partitions controls into, the Level 2 results of an assessment.
- *People who work against automat's objects*, except in `Verify`, where anything may drift: nobody
  deletes a policy, changes its tags, or detaches one of automat's but the protective one; nobody
  changes a region, a role or a recorder while a vend is at it; a human moves an account only out to a
  container no run works on.
- *Two commands at once in `Verify`*: overlapping runs are in `EvidenceStore`, whose files they meet at;
  the version an object in a bucket had before is not modelled.
- *Several profiles in `Baseline`*: two vends of different profiles undo each other by design.
- *Text*: policy documents, templates, and error messages, except where a property is about which
  of them is given; the syntax of names, dates and hashes in documents.
- `classprofile` is loaded by no command, `bundle`, `preflight` and `config` have no control of their
  own, `broker` is one call; `gen` and `smoke` are not part of the running program; `safeio`'s checks
  are seen by their outcome. `EnsureSCPEnabled`, the evidence-directory scan of `list`, `init`, `setup`
  and `login` are next in the plan.

## Plan

In this order, the behaviour that matters most first.

1. `Setup`: `init` and `setup` (`internal/org/init.go`, `setup.go`, `EnsureSCPEnabled`): the order
   of organization, features, policy type, vendor role and delegation, resumed after a crash.
2. `Login`: the device-authorization loop with its expiry, slow-down and token cache.
3. A refinement of `GovernedOU`'s policy loops to one atomic ensure per name, as far as `Adopt` allows
   it, and of `Baseline` to one atomic ensure per piece.
4. Two commands at once in `Verify`, on the file operations of `EvidenceStore`.
