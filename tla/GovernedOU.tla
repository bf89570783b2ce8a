----------------------------- MODULE GovernedOU -----------------------------
(***************************************************************************)
(* The service control policies of an OU and the accounts under it, while  *)
(* `automat vend` runs ensure the OU's policy set (internal/org/policy.go, *)
(* set.go), `automat reclaim` runs detach it and close accounts            *)
(* (internal/org/reclaim.go), and people work in the same organization.    *)
(*                                                                         *)
(* One step is one AWS call, with one reduction: a policy's owner tag and  *)
(* its existence never change once it exists (automat deletes no policy    *)
(* and tags none it did not create), so a read of them is part of the next *)
(* read or write that can come out differently.  A policy is its name:     *)
(* names are unique in an organization.                                    *)
(***************************************************************************)
EXTENDS Naturals, Sequences, FiniteSets

CONSTANTS
  Vends, Reclaims,   \* the runs
  Accounts,
  OUs, Root,
  Names,             \* names of service control policies
  Documents,
  NoRun,             \* the holder of an account no run has touched
  Of,                \* [run -> account]: the account a run vends or reclaims
  OUOf,              \* [vend -> OU]: vendState.Destination
  Specs,             \* [vend -> Seq(Names)]: the set, in EnsurePolicySet's order
  Compiled,          \* [vend -> [name -> document]]: PolicySpec.Document
  Institutional,     \* names central IT may create a policy under, or attach
  Movable,           \* accounts a human may move out to the root
  Unlucky,           \* runs whose calls may be denied, or whose process may die
  Quota              \* policies a target may carry beside FullAWSAccess

Runs == Vends \cup Reclaims
Targets == OUs \cup {Root}

ASSUME RunsDistinct ==
  Vends \cap Reclaims = {} /\ Root \notin OUs /\ NoRun \notin Runs
ASSUME ParametersTyped ==
  /\ Of \in [Runs -> Accounts]
  /\ OUOf \in [Vends -> OUs]
  /\ Specs \in [Vends -> Seq(Names)]
  /\ Compiled \in [Vends -> [Names -> Documents]]
  /\ Institutional \subseteq Names /\ Movable \subseteq Accounts /\ Unlucky \subseteq Runs
  /\ Quota \in Nat

VARIABLES
  policy,     \* [name -> {} or {the policy}]: the organization's policies
  attached,   \* [target -> set of names]
  parent,     \* [account -> target]
  status,     \* [account -> "active" | "closing" | "suspended"]
  pc, i,      \* where a run is; which entry of its set a vend works on
  target,     \* [reclaim -> target]: the parent it read, once
  todo,       \* [reclaim -> names it still has to detach]
  shared,     \* [reclaim -> whether it saw an ACTIVE sibling]
  holder,     \* history: the run that last took charge of an account
  late,       \* history: [reclaim -> accounts that came under its target unseen]
  put         \* history: [reclaim -> names vends attached there since it listed]

org == <<policy, attached, parent, status>>
vars == <<org, pc, i, target, todo, shared, holder, late, put>>

Policy == [owned : BOOLEAN, doc : Documents]
Absent(p) == policy[p] = {}
Owned(p) == \E q \in policy[p] : q.owned
Carries(p, d) == \E q \in policy[p] : q.doc = d

VendLive == {"content", "create", "adopt", "update", "attachments", "attach"}
ReclaimLive == {"list", "siblings", "detach", "close"}
Stopped == {"done", "failed", "full"}

Init ==
  /\ policy \in [Names -> {{}} \cup {{q} : q \in Policy}]
  /\ attached \in [Targets -> SUBSET Names]
  /\ \A t \in Targets :
       /\ Cardinality(attached[t]) <= Quota
       /\ \A p \in attached[t] : ~Absent(p) /\ (t = Root => ~Owned(p))
  /\ parent \in [Accounts -> Targets]
  /\ status = [a \in Accounts |-> "active"]
  /\ pc = [r \in Runs |-> "begin"]
  /\ i = [v \in Vends |-> 1]
  /\ target = [r \in Reclaims |-> Root]
  /\ todo = [r \in Reclaims |-> {}]
  /\ shared = [r \in Reclaims |-> FALSE]
  /\ holder = [a \in Accounts |-> NoRun]
  /\ late = [r \in Reclaims |-> {}]
  /\ put = [r \in Reclaims |-> {}]

Goto(r, l) == pc' = [pc EXCEPT ![r] = l]

-----------------------------------------------------------------------------
(* A vend, from the placement of its account *)

Name(v) == Specs[v][i[v]]
PolicySet(v) == {Specs[v][j] : j \in 1..Len(Specs[v])}

\* A reclaim at work on the OU a vend places its account under, which will not look
\* at the account: it has read the siblings, or the account is the one it closes.
Overlooks(r, v) ==
  /\ target[r] = OUOf[v]
  /\ \/ pc[r] = "detach"
     \/ pc[r] \in {"list", "siblings"} /\ Of[r] = Of[v]

\* What comes before the policy set: EnsurePlacement puts the account under the OU
\* (its races are VendAccount's), whatever its status, and the in-account baseline
\* follows, which a suspended account does not let in and a closing one may not.
Place(v) ==
  /\ pc[v] = "begin"
  /\ parent' = [parent EXCEPT ![Of[v]] = OUOf[v]]
  /\ holder' = [holder EXCEPT ![Of[v]] = v]
  /\ \/ status[Of[v]] # "suspended" /\ Goto(v, IF Specs[v] = <<>> THEN "done" ELSE "content")
     \/ status[Of[v]] # "active" /\ Goto(v, "failed")
  /\ late' = [r \in Reclaims |->
               IF Overlooks(r, v) THEN late[r] \cup {Of[v]} ELSE late[r] \ {Of[v]}]
  /\ UNCHANGED <<policy, attached, status, i, target, todo, shared, put>>

\* Mutant: the attachments start where the contents ended.
NextContentKeepsIndex(v) ==
  /\ i' = [i EXCEPT ![v] = i[v] + 1]
  /\ Goto(v, IF i[v] < Len(Specs[v]) THEN "content" ELSE "attachments")

\* The loop of EnsurePolicySet over contents, then the loop over attachments.
NextContent(v) ==
  IF i[v] < Len(Specs[v])
    THEN i' = [i EXCEPT ![v] = i[v] + 1] /\ Goto(v, "content")
    ELSE i' = [i EXCEPT ![v] = 1] /\ Goto(v, "attachments")

NextAttachment(v) ==
  IF i[v] < Len(Specs[v])
    THEN i' = [i EXCEPT ![v] = i[v] + 1] /\ Goto(v, "attachments")
    ELSE UNCHANGED i /\ Goto(v, "done")

\* Mutant: a policy of automat's under the right name is taken as it is.
ReadPolicyByName(v) ==
  /\ pc[v] = "content"
  /\ \/ Absent(Name(v)) /\ Goto(v, "create") /\ UNCHANGED i
     \/ ~Absent(Name(v)) /\ ~Owned(Name(v)) /\ Goto(v, "failed") /\ UNCHANGED i
     \/ Owned(Name(v)) /\ NextContent(v)
  /\ UNCHANGED <<org, target, todo, shared, holder, late, put>>

\* EnsurePolicy's reads: findPolicy, policyOwnership, policyDocument.
ReadPolicy(v) ==
  /\ pc[v] = "content"
  /\ \/ Absent(Name(v)) /\ Goto(v, "create") /\ UNCHANGED i
     \/ ~Absent(Name(v)) /\ ~Owned(Name(v)) /\ Goto(v, "failed") /\ UNCHANGED i
     \/ Owned(Name(v)) /\ Carries(Name(v), Compiled[v][Name(v)]) /\ NextContent(v)
     \/ /\ Owned(Name(v)) /\ ~Carries(Name(v), Compiled[v][Name(v)])
        /\ Goto(v, "update") /\ UNCHANGED i
  /\ UNCHANGED <<org, target, todo, shared, holder, late, put>>

Write(v) ==
  policy' = [policy EXCEPT ![Name(v)] = {[owned |-> TRUE, doc |-> Compiled[v][Name(v)]]}]

\* Mutant: a duplicate is an error like any other.
CreatePolicyOnce(v) ==
  /\ pc[v] = "create"
  /\ IF Absent(Name(v)) THEN Write(v) /\ NextContent(v)
     ELSE Goto(v, "failed") /\ UNCHANGED <<policy, i>>
  /\ UNCHANGED <<attached, parent, status, target, todo, shared, holder, late, put>>

\* The owner tag is part of the create; a name already taken is a duplicate.
CreatePolicy(v) ==
  /\ pc[v] = "create"
  /\ IF Absent(Name(v)) THEN Write(v) /\ NextContent(v)
     ELSE Goto(v, "adopt") /\ UNCHANGED <<policy, i>>
  /\ UNCHANGED <<attached, parent, status, target, todo, shared, holder, late, put>>

\* Mutant: whatever took the name is adopted.
AdoptAny(v) ==
  /\ pc[v] = "adopt"
  /\ NextContent(v)
  /\ UNCHANGED <<org, target, todo, shared, holder, late, put>>

\* After a duplicate: find the policy again and ask who owns it.
Adopt(v) ==
  /\ pc[v] = "adopt"
  /\ IF Owned(Name(v)) THEN NextContent(v) ELSE Goto(v, "failed") /\ UNCHANGED i
  /\ UNCHANGED <<org, target, todo, shared, holder, late, put>>

UpdatePolicy(v) ==
  /\ pc[v] = "update"
  /\ Write(v) /\ NextContent(v)
  /\ UNCHANGED <<attached, parent, status, target, todo, shared, holder, late, put>>

\* policyAttached
ReadAttached(v) ==
  /\ pc[v] = "attachments"
  /\ IF Name(v) \in attached[OUOf[v]] THEN NextAttachment(v)
     ELSE Goto(v, "attach") /\ UNCHANGED i
  /\ UNCHANGED <<org, target, todo, shared, holder, late, put>>

\* An attachment that exists by now is not an error; a full target is.
AttachPolicy(v) ==
  /\ pc[v] = "attach"
  /\ \/ /\ Name(v) \in attached[OUOf[v]]
        /\ NextAttachment(v) /\ UNCHANGED <<attached, put>>
     \/ /\ Name(v) \notin attached[OUOf[v]] /\ Cardinality(attached[OUOf[v]]) >= Quota
        /\ Goto(v, "full") /\ UNCHANGED <<attached, i, put>>
     \/ /\ Name(v) \notin attached[OUOf[v]] /\ Cardinality(attached[OUOf[v]]) < Quota
        /\ attached' = [attached EXCEPT ![OUOf[v]] = @ \cup {Name(v)}]
        /\ put' = [r \in Reclaims |->
                    IF target[r] = OUOf[v] /\ pc[r] \in {"siblings", "detach", "close"}
                      THEN put[r] \cup {Name(v)} ELSE put[r]]
        /\ NextAttachment(v)
  /\ UNCHANGED <<policy, parent, status, target, todo, shared, holder, late>>

-----------------------------------------------------------------------------
(* A reclaim *)

\* verifyParentOf, before the plan: the apply pass uses the same answer.
Target(r) ==
  /\ pc[r] = "begin"
  /\ target' = [target EXCEPT ![r] = parent[Of[r]]]
  /\ holder' = [holder EXCEPT ![Of[r]] = r]
  /\ Goto(r, "list")
  /\ UNCHANGED <<org, i, todo, shared, late, put>>

\* DetachOwnedPolicies: what is attached, and which of it is automat's.
OwnedAt(t) == {p \in attached[t] : Owned(p)}

List(r) ==
  /\ pc[r] = "list"
  /\ todo' = [todo EXCEPT ![r] = OwnedAt(target[r])]
  /\ Goto(r, IF OwnedAt(target[r]) = {} THEN "close" ELSE "siblings")
  /\ UNCHANGED <<org, i, target, shared, holder, late, put>>

\* AWS reports ACTIVE for a while after it has accepted the close.
ReadsActive(a) == status[a] \in {"active", "closing"}

\* Mutant: the OU is taken for the account's alone.
NoSiblings(r) == {}

ActiveSiblings(r) ==
  {a \in Accounts \ {Of[r]} : parent[a] = target[r] /\ ReadsActive(a)}

\* Mutant: the siblings are reported and the policies detached all the same.
SiblingsReported(r) ==
  /\ pc[r] = "siblings"
  /\ shared' = [shared EXCEPT ![r] = ActiveSiblings(r) # {}]
  /\ Goto(r, "detach")
  /\ UNCHANGED <<org, i, target, todo, holder, late, put>>

Siblings(r) ==
  /\ pc[r] = "siblings"
  /\ IF ActiveSiblings(r) # {}
       THEN /\ shared' = [shared EXCEPT ![r] = TRUE]
            /\ todo' = [todo EXCEPT ![r] = {}]
            /\ Goto(r, "close")
       ELSE Goto(r, "detach") /\ UNCHANGED <<shared, todo>>
  /\ UNCHANGED <<org, i, target, holder, late, put>>

\* Mutant: one policy is detached, whatever the set holds.
DetachOne(r) ==
  /\ pc[r] = "detach"
  /\ \E p \in todo[r] :
       /\ attached' = [attached EXCEPT ![target[r]] = @ \ {p}]
       /\ todo' = [todo EXCEPT ![r] = @ \ {p}]
       /\ put' = [put EXCEPT ![r] = @ \ {p}]
       /\ Goto(r, "close")
  /\ UNCHANGED <<policy, parent, status, i, target, shared, holder, late>>

\* A policy that is no longer attached is not an error.
DetachPolicy(r) ==
  /\ pc[r] = "detach"
  /\ \E p \in todo[r] :
       /\ attached' = [attached EXCEPT ![target[r]] = @ \ {p}]
       /\ todo' = [todo EXCEPT ![r] = @ \ {p}]
       /\ put' = [put EXCEPT ![r] = @ \ {p}]
       /\ Goto(r, IF todo[r] = {p} THEN "close" ELSE "detach")
  /\ UNCHANGED <<policy, parent, status, i, target, shared, holder, late>>

\* Mutant: closing a closed account is an error (AUDIT-6 M1).
CloseOnce(r) ==
  /\ pc[r] = "close"
  /\ IF status[Of[r]] = "active"
       THEN status' = [status EXCEPT ![Of[r]] = "closing"] /\ Goto(r, "done")
       ELSE Goto(r, "failed") /\ UNCHANGED status
  /\ UNCHANGED <<policy, attached, parent, i, target, todo, shared, holder, late, put>>

\* An account that is closed already is not an error.
CloseAccount(r) ==
  /\ pc[r] = "close"
  /\ status' = [status EXCEPT ![Of[r]] = IF @ = "active" THEN "closing" ELSE @]
  /\ Goto(r, "done")
  /\ UNCHANGED <<policy, attached, parent, i, target, todo, shared, holder, late, put>>

-----------------------------------------------------------------------------
(* The service, people, and failures *)

Suspend(a) ==
  /\ status[a] = "closing"
  /\ status' = [status EXCEPT ![a] = "suspended"]
  /\ UNCHANGED <<policy, attached, parent, pc, i, target, todo, shared, holder, late, put>>

HumanCreates(p) ==
  /\ Absent(p)
  /\ \E d \in Documents : policy' = [policy EXCEPT ![p] = {[owned |-> FALSE, doc |-> d]}]
  /\ UNCHANGED <<attached, parent, status, pc, i, target, todo, shared, holder, late, put>>

HumanAttaches(p, t) ==
  /\ ~Absent(p) /\ ~Owned(p)
  /\ p \notin attached[t] /\ Cardinality(attached[t]) < Quota
  /\ attached' = [attached EXCEPT ![t] = @ \cup {p}]
  /\ UNCHANGED <<policy, parent, status, pc, i, target, todo, shared, holder, late, put>>

HumanMoves(a) ==
  /\ parent' = [parent EXCEPT ![a] = Root]
  /\ UNCHANGED <<policy, attached, status, pc, i, target, todo, shared, holder, late, put>>

\* Any error the code has no branch for, the closure limit, and death, end a run.
Stop(r) ==
  /\ pc[r] \notin Stopped
  /\ Goto(r, "failed")
  /\ UNCHANGED <<org, i, target, todo, shared, holder, late, put>>

VendStep(v) ==
  \/ Place(v) \/ ReadPolicy(v) \/ CreatePolicy(v) \/ Adopt(v) \/ UpdatePolicy(v)
  \/ ReadAttached(v) \/ AttachPolicy(v)

ReclaimStep(r) ==
  \/ Target(r) \/ List(r) \/ Siblings(r) \/ DetachPolicy(r) \/ CloseAccount(r)

Next ==
  \/ \E v \in Vends : VendStep(v)
  \/ \E r \in Reclaims : ReclaimStep(r)
  \/ \E r \in Unlucky : Stop(r)
  \/ \E a \in Accounts : Suspend(a)
  \/ \E p \in Institutional : HumanCreates(p) \/ \E t \in Targets : HumanAttaches(p, t)
  \/ \E a \in Movable : HumanMoves(a)

Spec == Init /\ [][Next]_vars

\* A live command takes its next step; nobody else has to do anything.
Fairness ==
  /\ \A v \in Vends : WF_vars(VendStep(v))
  /\ \A r \in Reclaims : WF_vars(ReclaimStep(r))

-----------------------------------------------------------------------------
(* Properties *)

\* The type invariant.
TypeOK ==
  /\ policy \in [Names -> {{}} \cup {{q} : q \in Policy}]
  /\ attached \in [Targets -> SUBSET Names]
  /\ parent \in [Accounts -> Targets]
  /\ status \in [Accounts -> {"active", "closing", "suspended"}]
  /\ pc \in [Runs -> {"begin"} \cup VendLive \cup ReclaimLive \cup Stopped]
  /\ i \in [Vends -> Nat \ {0}]
  /\ \A v \in Vends : i[v] = 1 \/ i[v] <= Len(Specs[v])
  /\ target \in [Reclaims -> Targets]
  /\ todo \in [Reclaims -> SUBSET Names]
  /\ shared \in [Reclaims -> BOOLEAN]
  /\ holder \in [Accounts -> Runs \cup {NoRun}]
  /\ late \in [Reclaims -> SUBSET Accounts]
  /\ put \in [Reclaims -> SUBSET Names]

\* No run rewrites, attaches or detaches a policy it does not own, whoever creates
\* a policy under the name between the run's reads and its writes (the refusals
\* EnsurePolicy and DetachOwnedPolicies list).
ForeignUntouched ==
  [][\A p \in Names :
       ~Absent(p) /\ ~Owned(p) =>
         /\ policy'[p] = policy[p]
         /\ \A t \in Targets :
              /\ p \in attached[t] => p \in attached'[t]
              /\ p \in attached'[t] \ attached[t] => pc' = pc]_vars

\* An account whose last vend ended well is governed: as long as no other run has
\* taken charge of it, nobody has moved it away, and it did not come under the OU
\* unseen by a reclaim at work there, its OU carries every policy of the set,
\* whatever other vends and reclaims do in the OU, before, beside or after it.
Governed ==
  \A v \in Vends :
    /\ pc[v] = "done" /\ holder[Of[v]] = v
    /\ parent[Of[v]] = OUOf[v] /\ status[Of[v]] = "active"
    /\ \A r \in Reclaims : Of[v] \notin late[r]
    => PolicySet(v) \subseteq attached[OUOf[v]]

\* Every vend that can ensure a policy compiled the same document for its name.
Agreed(p) ==
  \A v, w \in Vends :
    p \in PolicySet(v) \cap PolicySet(w) => Compiled[v][p] = Compiled[w][p]

\* A vend that ended well leaves every policy of its set with the document it
\* compiled, where the vends agree on it: no race leaves an older document.
CarriesWhatItCompiled ==
  \A v \in Vends : pc[v] = "done" =>
    \A p \in PolicySet(v) : Agreed(p) => Owned(p) /\ Carries(p, Compiled[v][p])

\* The step detaches a policy for r from t.
Detaches(r, t) == attached'[t] # attached[t] /\ pc[r] = "detach" /\ todo'[r] # todo[r]

\* What the sibling check gives: the only active accounts a detach may strip are those
\* a vend brought under the target after the siblings were read, however many detaches
\* follow, and whoever moves, closes or dies meanwhile (reclaim.go:163-195).  That is
\* less than docs/reclaim-design.md:67-76 says, which excepts nobody.
OnlyLateSiblingsStripped ==
  [][\A r \in Reclaims, t \in Targets : Detaches(r, t) =>
       \A a \in Accounts \ {Of[r]} :
         parent[a] = t /\ status[a] = "active" => a \in late[r]]_vars

\* Detach before close: a reclaim that saw no sibling reaches the close only when all
\* of automat's that its target carries was attached by vends beside it, after it had
\* listed the policies and not detached again (docs/reclaim-design.md:55-65).
BareBeforeClose ==
  \A r \in Reclaims :
    pc[r] = "close" /\ ~shared[r] => OwnedAt(target[r]) \subseteq put[r]

\* A vend nothing hinders, once placed, ends well, or finds the target full, a name of its set
\* taken by a policy that is not automat's, or its account closed: no race with
\* another vend makes it fail (the Duplicate branches of createPolicy and
\* EnsurePolicyAttachment).
VendsSucceed ==
  \A v \in Vends \ Unlucky :
    <>(\/ pc[v] \in {"done", "full"}
       \/ pc[v] = "failed" /\ ( \/ \E p \in PolicySet(v) : ~Absent(p) /\ ~Owned(p)
                                \/ status[Of[v]] # "active" ))

\* A reclaim nothing hinders has its account closed, whoever else detaches its
\* policies or closes the account first.
ReclaimsClose ==
  \A r \in Reclaims \ Unlucky : <>(pc[r] = "done" /\ status[Of[r]] # "active")

=============================================================================
