------------------------------ MODULE VendAccount ------------------------------
(***************************************************************************)
(* `automat vend` up to its evidence record: concurrent invocations of the *)
(* command against one AWS organization.  A run plans, makes an account    *)
(* with its root email exist (internal/org/account.go), moves it into the  *)
(* destination OU, drives the in-account baseline and the OU's policy set, *)
(* and writes what it did to the account's evidence manifest               *)
(* (cmd/automat/vend.go).  Runs may be killed, denied a call, or resumed   *)
(* by a create-account request id that somebody typed.                     *)
(*                                                                         *)
(* One run makes at most one CreateAccount call, so the request it makes   *)
(* and the account AWS makes from that request carry the name of the run.  *)
(* The documents behind the policy set and the baseline are not modelled   *)
(* here: their steps succeed or fail.                                      *)
(***************************************************************************)
EXTENDS Naturals

CONSTANTS
    Runs,       \* invocations of the command
    Foreign,    \* accounts of the organization that automat did not create
    Emails, Names,
    Root, OUs,  \* the containers a vend lists
    Outside,    \* every container no vend lists
    Inputs,     \* what an operator may type, a set of [email, name, dest, resume]
    Unlucky,    \* runs that may be killed or be refused a call
    Movable,    \* accounts a human may move to a container no vend lists
    Leftover,   \* the profile asks for the one baseline piece this build lacks
    MaxPolls,   \* Ensurer.maxPolls: reads of a create status before giving up
    None

Accounts   == Runs \cup Foreign
Containers == OUs \cup {Root, Outside}
Input      == [email: Emails, name: Names, dest: OUs, resume: Runs \cup {None}]

ASSUME NamesDistinct ==
    /\ None \notin Accounts \cup Containers \cup Emails \cup Names \cup Input
    /\ Runs \cap Foreign = {}
    /\ Root \notin OUs /\ Outside \notin OUs /\ Root # Outside

ASSUME ParametersTyped ==
    /\ Inputs \subseteq Input
    /\ Unlucky \subseteq Runs
    /\ Movable \subseteq Accounts
    /\ Leftover \in BOOLEAN
    /\ MaxPolls \in Nat \ {0}

VARIABLES
    parent,     \* the container an account sits in, None until it exists
    email,      \* its root email
    name,       \* its account name
    request,    \* the state of the create-account request a run made
    input,      \* what the operator typed
    pc,         \* the next step of a run
    req,        \* vendState.RequestID
    acct,       \* vendState.AccountID
    from,       \* the parent EnsurePlacement read
    polls,      \* status reads so far
    applied,    \* the Applied actions: the Ensurer's account ones and BaselineActions
    records,    \* vendState.Records
    outcome,    \* how the vend steps ended
    manifest    \* the records in an account's evidence manifest

service == <<parent, email, name, request>>
vars    == <<parent, email, name, request, input, pc, req, acct, from, polls,
             applied, records, outcome, manifest>>

Steps == {"plan", "listDest", "listRoot", "create", "poll", "relistDest", "relistRoot",
          "readBack", "place", "move", "baseline", "policies", "sign", "write"}
Ended == {"done", "refused", "unsigned", "killed"}

Record   == [op: {"account-create", "account-move", "baseline-apply", "scp-ensure"},
             outcome: {"success", "parked"}]
Recorded == [run: Runs, request: Runs \cup {None}, what: Record]

TypeOK ==
    /\ parent   \in [Accounts -> Containers \cup {None}]
    /\ email    \in [Accounts -> Emails \cup {None}]
    /\ name     \in [Accounts -> Names \cup {None}]
    /\ request  \in [Runs -> {"none", "inProgress", "succeeded", "duplicate", "failed"}]
    /\ input    \in [Runs -> Input \cup {None}]
    /\ pc       \in [Runs -> {"idle"} \cup Steps \cup Ended]
    /\ req      \in [Runs -> Runs \cup {None}]
    /\ acct     \in [Runs -> Accounts \cup {None}]
    /\ from     \in [Runs -> Containers \cup {None}]
    /\ polls    \in [Runs -> 0..MaxPolls]
    /\ applied  \in [Runs -> SUBSET {"create", "move", "baseline"}]
    /\ records  \in [Runs -> SUBSET Record]
    /\ outcome  \in [Runs -> {"none", "ok", "parked", "error"}]
    /\ manifest \in [Accounts -> SUBSET Recorded]

Exists(a) == parent[a] # None

\* Organizations that hold foreign accounts in any container, each with a root
\* email of its own; every foreign email and name is one a vend could name.
Init ==
    /\ \E place \in [Foreign -> Containers], address \in [Foreign -> Emails],
          title \in [Foreign -> Names] :
          /\ \A a, b \in Foreign : address[a] = address[b] => a = b
          /\ parent = [a \in Accounts |-> IF a \in Foreign THEN place[a] ELSE None]
          /\ email  = [a \in Accounts |-> IF a \in Foreign THEN address[a] ELSE None]
          /\ name   = [a \in Accounts |-> IF a \in Foreign THEN title[a] ELSE None]
    /\ request  = [r \in Runs |-> "none"]
    /\ input    = [r \in Runs |-> None]
    /\ pc       = [r \in Runs |-> "idle"]
    /\ req      = [r \in Runs |-> None]
    /\ acct     = [r \in Runs |-> None]
    /\ from     = [r \in Runs |-> None]
    /\ polls    = [r \in Runs |-> 0]
    /\ applied  = [r \in Runs |-> {}]
    /\ records  = [r \in Runs |-> {}]
    /\ outcome  = [r \in Runs |-> "none"]
    /\ manifest = [a \in Accounts |-> {}]

--------------------------------------------------------------------------------
\* Reads of the organization and the two ways a run stops.

Resuming(r) == input[r].resume # None

\* mutant: the name is the key
MatchesByName(r, container) ==
    {a \in Accounts : parent[a] = container /\ name[a] = input[r].name}

\* findAccountByEmail on one container: the accounts whose address matches.
Matches(r, container) ==
    {a \in Accounts : parent[a] = container /\ email[a] = input[r].email}

MayAdoptByAddress(r, a) == TRUE \* mutant: no corroboration

\* The name must corroborate the address before an account is adopted.
MayAdopt(r, a) == name[a] = input[r].name

\* checkResumedAccount: a typed request id is no evidence about whose account
\* it made, the root email is.
ResumedIsOurs(r, a) == email[a] = input[r].email

PollsLeftOffByOne(r) == polls[r] <= MaxPolls \* mutant: < became <=

\* The bound of pollCreate's loop.
PollsLeft(r) == polls[r] < MaxPolls

Goto(r, step) == pc' = [pc EXCEPT ![r] = step]

\* vendState.park followed by the end of the vend steps.
Park(r, op) ==
    /\ records' = [records EXCEPT ![r] = @ \cup {[op |-> op, outcome |-> "parked"]}]
    /\ outcome' = [outcome EXCEPT ![r] = "parked"]
    /\ Goto(r, "sign")

\* An error returned without parking.
Stop(r) ==
    /\ outcome' = [outcome EXCEPT ![r] = "error"]
    /\ Goto(r, "sign")
    /\ UNCHANGED records

\* EnsureAccount returned an error: parked when a request id is known, an
\* ordinary error otherwise.
AccountFails(r) ==
    \/ req[r] # None /\ Park(r, "account-create")
    \/ req[r] = None /\ Stop(r)

--------------------------------------------------------------------------------
\* The command, one AWS call per step.

Start(r) ==
    /\ pc[r] = "idle"
    /\ \E i \in Inputs :
          /\ i.resume # None => request[i.resume] # "none"
          /\ input' = [input EXCEPT ![r] = i]
    /\ Goto(r, "plan")
    /\ UNCHANGED <<service, req, acct, from, polls, applied, records, outcome, manifest>>

\* What makes the read-only plan pass return an error before anything is applied.
PlanRefuses(r) ==
    \/ ~Resuming(r) /\ \E c \in {Root, input[r].dest}, a \in Accounts :
                          a \in Matches(r, c) /\ ~MayAdopt(r, a)
    \/ Resuming(r)  /\ \/ request[input[r].resume] \in {"duplicate", "failed"}
                       \/ /\ request[input[r].resume] = "succeeded"
                          /\ ~ResumedIsOurs(r, input[r].resume)

Plan(r) ==
    /\ pc[r] = "plan"
    /\ \/ /\ ~PlanRefuses(r)
          /\ req' = [req EXCEPT ![r] = input[r].resume]
          /\ Goto(r, IF Resuming(r) THEN "poll" ELSE "listDest")
       \/ /\ PlanRefuses(r) \/ r \in Unlucky
          /\ Goto(r, "refused")
          /\ UNCHANGED req
    /\ UNCHANGED <<service, input, acct, from, polls, applied, records, outcome, manifest>>

\* One ListAccountsForParent of findAccountByEmail.  A match under another name
\* is refused; no match goes on to `next`.
List(r, container, next) ==
    /\ \/ \E a \in Matches(r, container) :
             /\ MayAdopt(r, a)
             /\ acct' = [acct EXCEPT ![r] = a]
             /\ Goto(r, "place")
             /\ UNCHANGED <<records, outcome>>
       \/ /\ \E a \in Matches(r, container) : ~MayAdopt(r, a)
          /\ AccountFails(r)
          /\ UNCHANGED acct
       \/ /\ Matches(r, container) = {}
          /\ Goto(r, next)
          /\ UNCHANGED <<acct, records, outcome>>
       \/ /\ r \in Unlucky
          /\ AccountFails(r)
          /\ UNCHANGED acct
    /\ UNCHANGED <<service, input, req, from, polls, applied, manifest>>

\* The search parents are sorted, and an OU id sorts before the root's.
ListDest(r)   == pc[r] = "listDest"   /\ List(r, input[r].dest, "listRoot")
ListRoot(r)   == pc[r] = "listRoot"   /\ List(r, Root, "create")

\* mutant: the second search asks only the root
RelistDestSkipped(r) ==
    /\ pc[r] = "relistDest"
    /\ Goto(r, "relistRoot")
    /\ UNCHANGED <<service, input, req, acct, from, polls, applied, records, outcome, manifest>>

RelistDest(r) == pc[r] = "relistDest" /\ List(r, input[r].dest, "relistRoot")

\* After EMAIL_ALREADY_EXISTS: nothing found anywhere is a hard error.
RelistRoot(r) ==
    /\ pc[r] = "relistRoot"
    /\ \/ Matches(r, Root) # {} /\ List(r, Root, "relistRoot")
       \/ /\ Matches(r, Root) = {}
          /\ AccountFails(r)
          /\ UNCHANGED <<service, input, req, acct, from, polls, applied, manifest>>

CreateAccount(r) ==
    /\ pc[r] = "create"
    /\ \/ /\ request' = [request EXCEPT ![r] = "inProgress"]
          /\ req' = [req EXCEPT ![r] = r]
          /\ Goto(r, "poll")
          /\ UNCHANGED <<records, outcome>>
       \/ /\ r \in Unlucky
          /\ AccountFails(r)
          /\ UNCHANGED <<request, req>>
    /\ UNCHANGED <<parent, email, name, input, acct, from, polls, applied, manifest>>

\* pollCreate, and pollCreateChecked for a resumed request.
Poll(r) ==
    /\ pc[r] = "poll"
    /\ PollsLeft(r)
    /\ polls' = [polls EXCEPT ![r] = @ + 1]
    /\ \/ /\ request[req[r]] = "inProgress"
          /\ UNCHANGED <<pc, acct, records, outcome>>
       \/ /\ request[req[r]] = "succeeded"
          /\ Resuming(r) => ResumedIsOurs(r, req[r])
          /\ acct' = [acct EXCEPT ![r] = req[r]]
          /\ Goto(r, "readBack")
          /\ UNCHANGED <<records, outcome>>
       \/ /\ request[req[r]] = "duplicate" /\ ~Resuming(r)
          /\ Goto(r, "relistDest")
          /\ UNCHANGED <<acct, records, outcome>>
       \/ /\ \/ request[req[r]] = "failed"
             \/ request[req[r]] = "duplicate" /\ Resuming(r)
             \/ request[req[r]] = "succeeded" /\ Resuming(r) /\ ~ResumedIsOurs(r, req[r])
             \/ r \in Unlucky
          /\ AccountFails(r)
          /\ UNCHANGED acct
    /\ UNCHANGED <<service, input, req, from, applied, manifest>>

\* mutant: waits again instead of giving up
PollsRunOutRetries(r) ==
    /\ pc[r] = "poll"
    /\ ~PollsLeft(r)
    /\ polls' = [polls EXCEPT ![r] = 0]
    /\ UNCHANGED <<service, input, pc, req, acct, from, applied, records, outcome, manifest>>

PollsRunOut(r) ==
    /\ pc[r] = "poll"
    /\ ~PollsLeft(r)
    /\ AccountFails(r)
    /\ UNCHANGED <<service, input, req, acct, from, polls, applied, manifest>>

\* EnsureAccount's last read.  Only a create of this run is an Applied action;
\* a failed read parks with the account id known.
ReadBack(r) ==
    /\ pc[r] = "readBack"
    /\ \/ /\ applied' = IF Resuming(r) THEN applied
                                       ELSE [applied EXCEPT ![r] = @ \cup {"create"}]
          /\ Goto(r, "place")
          /\ UNCHANGED <<records, outcome>>
       \/ /\ r \in Unlucky
          /\ AccountFails(r)
          /\ UNCHANGED applied
    /\ UNCHANGED <<service, input, req, acct, from, polls, manifest>>

\* recordAccountSteps: one success record per Applied action.
AccountRecords(actions) ==
    {[op |-> IF x = "create" THEN "account-create" ELSE "account-move",
      outcome |-> "success"] : x \in actions}

Placed(r, actions) ==
    /\ applied' = [applied EXCEPT ![r] = actions]
    /\ records' = [records EXCEPT ![r] = @ \cup AccountRecords(actions)]
    /\ Goto(r, "baseline")
    /\ UNCHANGED outcome

\* EnsurePlacement reads the parent first ...
Place(r) ==
    /\ pc[r] = "place"
    /\ \/ /\ parent[acct[r]] = input[r].dest
          /\ Placed(r, applied[r])
          /\ UNCHANGED from
       \/ /\ parent[acct[r]] # input[r].dest
          /\ from' = [from EXCEPT ![r] = parent[acct[r]]]
          /\ Goto(r, "move")
          /\ UNCHANGED <<applied, records, outcome>>
       \/ /\ r \in Unlucky
          /\ Park(r, "account-move")
          /\ UNCHANGED <<from, applied>>
    /\ UNCHANGED <<service, input, req, acct, polls, manifest>>

\* mutant: a refused MoveAccount passes for "already there"
MoveIgnoresErrors(r) ==
    /\ pc[r] = "move"
    /\ parent' \in {parent, [parent EXCEPT ![acct[r]] = input[r].dest]}
    /\ Placed(r, applied[r])
    /\ UNCHANGED <<email, name, request, input, req, acct, from, polls, manifest>>

\* ... and moves out of what it read.  An account that reached the destination
\* in between is a success either way, and whether AWS says so with an error is
\* not documented; one that went anywhere else fails the run.
Move(r) ==
    /\ pc[r] = "move"
    /\ \/ /\ parent[acct[r]] = from[r]
          /\ parent' = [parent EXCEPT ![acct[r]] = input[r].dest]
          /\ Placed(r, applied[r] \cup {"move"})
       \/ /\ parent[acct[r]] = input[r].dest
          /\ \E noticed \in BOOLEAN :
                Placed(r, IF noticed THEN applied[r] ELSE applied[r] \cup {"move"})
          /\ UNCHANGED parent
       \/ /\ parent[acct[r]] \notin {from[r], input[r].dest} \/ r \in Unlucky
          /\ Park(r, "account-move")
          /\ UNCHANGED <<parent, applied>>
    /\ UNCHANGED <<email, name, request, input, req, acct, from, polls, manifest>>

\* The in-account steps between the move and the policy set.  A step that fails
\* parks, or returns its error as it is (no session in the account, a stub that
\* could not be written); what the earlier ones changed stays changed.
Baseline(r) ==
    /\ pc[r] = "baseline"
    /\ \/ UNCHANGED applied
       \/ applied' = [applied EXCEPT ![r] = @ \cup {"baseline"}]
    /\ \/ Goto(r, "policies") /\ UNCHANGED <<records, outcome>>
       \/ r \in Unlucky /\ (Park(r, "baseline-apply") \/ Stop(r))
    /\ UNCHANGED <<service, input, req, acct, from, polls, manifest>>

\* What of the account's own steps was Applied.
AccountEffects(r) == applied[r] \cap {"create", "move"}

\* recordSCPStep looks at the Ensurer's actions only; recordBaselineIsMissing at
\* the baseline's too, when the profile asks for a piece that is not built.
LastRecords(r, policyChanged) ==
    (IF policyChanged \/ AccountEffects(r) # {}
        THEN {[op |-> "scp-ensure", outcome |-> "success"]} ELSE {})
    \cup
    (IF Leftover /\ (policyChanged \/ applied[r] # {})
        THEN {[op |-> "baseline-apply", outcome |-> "parked"]} ELSE {})

\* vendPolicySpecs, EnsurePolicySet and the records of the run's end.
Policies(r) ==
    /\ pc[r] = "policies"
    /\ \/ /\ \E policyChanged \in BOOLEAN :
                records' = [records EXCEPT ![r] = @ \cup LastRecords(r, policyChanged)]
          /\ outcome' = [outcome EXCEPT ![r] = "ok"]
          /\ Goto(r, "sign")
       \/ r \in Unlucky /\ (Park(r, "scp-ensure") \/ Stop(r))
    /\ UNCHANGED <<service, input, req, acct, from, polls, applied, manifest>>

\* The signer is built after the apply pass; when it cannot be, the command
\* returns without a manifest.
Sign(r) ==
    /\ pc[r] = "sign"
    /\ Goto(r, "write") \/ (r \in Unlucky /\ Goto(r, "unsigned"))
    /\ UNCHANGED <<service, input, req, acct, from, polls, applied, records, outcome, manifest>>

\* mutant: only a vend that succeeded writes
WriteEvidenceOnSuccess(r) ==
    /\ pc[r] = "write"
    /\ manifest' = IF acct[r] = None \/ outcome[r] # "ok" THEN manifest
                   ELSE [manifest EXCEPT ![acct[r]] = @ \cup
                           {[run |-> r, request |-> req[r], what |-> x] : x \in records[r]}]
    /\ Goto(r, "done")
    /\ UNCHANGED <<service, input, req, acct, from, polls, applied, records, outcome>>

\* writeVendEvidence, then vendFailure or the birth certificate.
WriteEvidence(r) ==
    /\ pc[r] = "write"
    /\ manifest' = IF acct[r] = None THEN manifest
                   ELSE [manifest EXCEPT ![acct[r]] = @ \cup
                           {[run |-> r, request |-> req[r], what |-> x] : x \in records[r]}]
    /\ Goto(r, "done")
    /\ UNCHANGED <<service, input, req, acct, from, polls, applied, records, outcome>>

Kill(r) ==
    /\ r \in Unlucky
    /\ pc[r] \in Steps
    /\ Goto(r, "killed")
    /\ UNCHANGED <<service, input, req, acct, from, polls, applied, records, outcome, manifest>>

--------------------------------------------------------------------------------
\* The service, and people.

\* An accepted create ends later.  One root email belongs to one account; the
\* account appears under the root.
Resolve(q) ==
    /\ request[q] = "inProgress"
    /\ \/ /\ \A a \in Accounts : Exists(a) => email[a] # input[q].email
          /\ request' = [request EXCEPT ![q] = "succeeded"]
          /\ parent'  = [parent EXCEPT ![q] = Root]
          /\ email'   = [email EXCEPT ![q] = input[q].email]
          /\ name'    = [name EXCEPT ![q] = input[q].name]
       \/ /\ \E a \in Accounts : Exists(a) /\ email[a] = input[q].email
          /\ request' = [request EXCEPT ![q] = "duplicate"]
          /\ UNCHANGED <<parent, email, name>>
       \/ /\ q \in Unlucky
          /\ request' = [request EXCEPT ![q] = "failed"]
          /\ UNCHANGED <<parent, email, name>>
    /\ UNCHANGED <<input, pc, req, acct, from, polls, applied, records, outcome, manifest>>

HumanMoves(a) ==
    /\ a \in Movable
    /\ Exists(a)
    /\ parent[a] # Outside
    /\ parent' = [parent EXCEPT ![a] = Outside]
    /\ UNCHANGED <<email, name, request, input, pc, req, acct, from, polls, applied,
                   records, outcome, manifest>>

--------------------------------------------------------------------------------
Step(r) ==
    \/ Plan(r) \/ ListDest(r) \/ ListRoot(r) \/ CreateAccount(r)
    \/ Poll(r) \/ PollsRunOut(r) \/ RelistDest(r) \/ RelistRoot(r) \/ ReadBack(r)
    \/ Place(r) \/ Move(r) \/ Baseline(r) \/ Policies(r) \/ Sign(r) \/ WriteEvidence(r)

Next ==
    \/ \E r \in Runs : Start(r) \/ Step(r) \/ Kill(r) \/ Resolve(r)
    \/ \E a \in Accounts : HumanMoves(a)

Spec == Init /\ [][Next]_vars

\* A process that is not killed keeps executing; AWS owes nothing.
FairSpec == Spec /\ \A r \in Runs : WF_vars(Step(r))

--------------------------------------------------------------------------------
(***************************************************************************)
(* Properties.                                                             *)
(***************************************************************************)

\* The account run r would move bears the address the operator typed, and the
\* name too when it was found rather than resumed.
Named(r, a) ==
    /\ email[a] = input[r].email
    /\ Resuming(r) \/ name[a] = input[r].name

\* A run moves an account only when the operator named that account: neither a
\* typed request id nor a matching address alone lets a vend take an account out
\* from under the policies that bind it (account.go: checkResumedAccount,
\* findAccountByEmail).
OnlyNamedAccountsMove ==
    [][\A a \in Accounts :
          Exists(a) /\ parent'[a] # parent[a] =>
             \/ a \in Movable /\ parent'[a] = Outside
             \/ \E r \in Runs : pc[r] = "move" /\ acct[r] = a /\ Named(r, a)]_vars

\* Two runs given the same address never work on two accounts, whatever was
\* created, resumed or adopted in between (account.go: "no path can create a
\* second account").
SameAddressSameAccount ==
    \A r, s \in Runs :
       acct[r] # None /\ acct[s] # None /\ input[r].email = input[s].email
          => acct[r] = acct[s]

\* Once placement succeeded the account is under the destination, unless a human
\* or another run that named the same account has taken it elsewhere: the policy
\* set attached to the OU governs the account the certificate is about.
PlacedStaysPlaced ==
    \A r \in Runs :
       pc[r] \in {"baseline", "policies"} \/ outcome[r] = "ok" =>
          \/ parent[acct[r]] = input[r].dest
          \/ acct[r] \in Movable /\ parent[acct[r]] = Outside
          \/ \E s \in Runs \ {r} : acct[s] = acct[r] /\ parent[acct[r]] = input[s].dest

\* A run that created or moved an account and came to its end, successful or not,
\* left a record of itself in the manifest of the account it changed (vend.go:
\* "the manifest is written whether or not the vend succeeded").
EffectsLeaveARecord ==
    \A r \in Runs :
       pc[r] = "done" /\ AccountEffects(r) # {} =>
          \E x \in manifest[acct[r]] : x.run = r

\* Every invocation ends, even when AWS never finishes a create (pollCreate's
\* bound on reads).
EveryRunEnds == \A r \in Runs : pc[r] \in Steps ~> pc[r] \in Ended

\* An account the vend may adopt, in a container it lists, that only other vends
\* of the same identity touch.
Waiting(r) ==
    \E a \in Accounts \ Movable :
       /\ parent[a] \in {Root, input[r].dest}
       /\ email[a] = input[r].email /\ name[a] = input[r].name
       /\ \A i \in Inputs : i.email = input[r].email => i.dest = input[r].dest

\* A plain re-run for an account that already exists completes the vend, however
\* it interleaves with other runs placing the same account: the search may miss
\* an account that moves while it is listed, and the duplicate AWS then reports
\* leads back to it (unless AWS does not report within the polling bound).
RerunCompletes ==
    \A r \in Runs \ Unlucky :
       pc[r] = "plan" /\ ~Resuming(r) /\ Waiting(r) ~>
          pc[r] = "done" /\ (outcome[r] = "ok" \/ polls[r] = MaxPolls)

--------------------------------------------------------------------------------
(***************************************************************************)
(* The inductive strengthening the proofs use, part by part.               *)
(***************************************************************************)

BeforeCreate  == {"idle", "plan", "listDest", "listRoot", "create"}
BeforePlace   == BeforeCreate \cup {"poll", "relistDest", "relistRoot", "readBack"}
BeforeAccount == BeforePlace \ {"readBack"}
HasAccount    == {"readBack", "place", "move", "baseline", "policies"}

\* A run's inputs are fixed once it starts, and its own request comes after its search.
InputsFixed ==
    \A r \in Runs :
       /\ pc[r] \in BeforeAccount => acct[r] = None
       /\ pc[r] # "idle" => input[r] \in Inputs
       /\ pc[r] \in BeforeCreate => request[r] = "none"
       /\ pc[r] = "poll" => req[r] \in Runs /\ (~Resuming(r) => req[r] = r)

\* An account automat made is the product of its request, and has its identity.
AccountsMatchRequests ==
    /\ \A a \in Accounts : Exists(a) => email[a] # None
    /\ \A q \in Runs :
          /\ Exists(q) <=> request[q] = "succeeded"
          /\ Exists(q) => email[q] = input[q].email /\ name[q] = input[q].name

OneAddressOneAccount ==
    \A a, b \in Accounts : Exists(a) /\ Exists(b) /\ email[a] = email[b] => a = b

\* The account a run works on exists and is the one the operator named.
AccountsAreNamed ==
    \A r \in Runs :
       /\ acct[r] # None => Exists(acct[r]) /\ Named(r, acct[r])
       /\ pc[r] \in HasAccount \/ outcome[r] = "ok" => acct[r] # None

\* Whatever a run applied is in its records when its steps are over.
EffectsAreHeld ==
    \A r \in Runs :
       /\ pc[r] \in BeforePlace => applied[r] = {}
       /\ applied[r] # {} => acct[r] # None
       /\ AccountEffects(r) # {} /\ pc[r] \in {"baseline", "policies", "sign", "write"}
             => records[r] # {}

IInv ==
    /\ TypeOK
    /\ InputsFixed
    /\ AccountsMatchRequests
    /\ OneAddressOneAccount
    /\ AccountsAreNamed
    /\ EffectsAreHeld
    /\ PlacedStaysPlaced
    /\ EffectsLeaveARecord

================================================================================
