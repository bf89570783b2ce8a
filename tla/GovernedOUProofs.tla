--------------------------- MODULE GovernedOUProofs ---------------------------
(***************************************************************************)
(* Proofs about GovernedOU, for any runs, accounts, OUs, sets of policies  *)
(* and documents: its types; that what is not automat's is left alone;     *)
(* what a vend that ended well leaves behind; and, with vends and reclaims *)
(* interleaved in every way, which accounts a reclaim can take policies    *)
(* away from, and what it leaves attached when it closes its own.          *)
(***************************************************************************)
EXTENDS GovernedOU, TLAPS

\* A vend at work is at an entry of its set.
InBounds == \A v \in Vends : pc[v] \in VendLive => i[v] \in 1..Len(Specs[v])

Typed == TypeOK /\ InBounds

\* The policy an entry names is one of the names, and of the vend's set.
LEMMA NameTyped ==
  ASSUME NEW v \in Vends, NEW j \in 1..Len(Specs[v])
  PROVE  Specs[v][j] \in Names /\ Specs[v][j] \in PolicySet(v)
BY ParametersTyped DEF PolicySet

Places == {"begin"} \cup VendLive \cup ReclaimLive \cup Stopped

\* The types of the variables that say where the runs are.
Moving ==
  /\ pc \in [Runs -> Places]
  /\ i \in [Vends -> Nat \ {0}]
  /\ \A v \in Vends : i[v] = 1 \/ i[v] <= Len(Specs[v])
  /\ InBounds

\* A run that moves to an entry of its set, or stays where it is in it.
LEMMA MoveTyped ==
  ASSUME Typed, NEW v \in Vends, NEW l \in Places, NEW j \in 1..Len(Specs[v]),
         pc' = [pc EXCEPT ![v] = l], i' = [i EXCEPT ![v] = j]
  PROVE  Moving' /\ pc'[v] = l /\ i'[v] = j
<1>1. v \in Runs /\ Len(Specs[v]) \in Nat
  BY ParametersTyped DEF Runs
<1>2. pc'[v] = l /\ i'[v] = j /\ \A w \in Vends \ {v} : pc'[w] = pc[w] /\ i'[w] = i[w]
  BY <1>1 DEF Typed, TypeOK, Runs
<1>3. pc' \in [Runs -> Places] /\ i' \in [Vends -> Nat \ {0}]
  BY <1>1 DEF Typed, TypeOK, Places
<1> QED
  BY <1>1, <1>2, <1>3 DEF Typed, TypeOK, InBounds, Moving

\* Moving on in the contents, or from the last of them to the attachments.
LEMMA NextContentTyped ==
  ASSUME Typed, NEW v \in Vends, pc[v] \in VendLive, NextContent(v)
  PROVE  \E l \in {"content", "attachments"}, j \in 1..Len(Specs[v]) :
           /\ pc' = [pc EXCEPT ![v] = l] /\ i' = [i EXCEPT ![v] = j]
           /\ \/ l = "content" /\ j = i[v] + 1
              \/ l = "attachments" /\ j = 1 /\ i[v] = Len(Specs[v])
<1>1. i[v] \in 1..Len(Specs[v]) /\ Len(Specs[v]) \in Nat
  BY ParametersTyped DEF Typed, InBounds
<1>2. CASE i[v] < Len(Specs[v])
  <2>1. i[v] + 1 \in 1..Len(Specs[v])
    BY <1>1, <1>2
  <2> QED
    BY <1>2, <2>1 DEF NextContent, Goto
<1>3. CASE ~(i[v] < Len(Specs[v]))
  <2>1. 1 \in 1..Len(Specs[v]) /\ i[v] = Len(Specs[v])
    BY <1>1, <1>3
  <2> QED
    BY <1>3, <2>1 DEF NextContent, Goto
<1> QED
  BY <1>2, <1>3

\* Moving on in the attachments, or from the last of them to the end.
LEMMA NextAttachmentTyped ==
  ASSUME Typed, NEW v \in Vends, pc[v] \in VendLive, NextAttachment(v)
  PROVE  \E l \in {"attachments", "done"}, j \in 1..Len(Specs[v]) :
           /\ pc' = [pc EXCEPT ![v] = l] /\ i' = [i EXCEPT ![v] = j]
           /\ \/ l = "attachments" /\ j = i[v] + 1
              \/ l = "done" /\ j = i[v] /\ i[v] = Len(Specs[v])
<1>1. i[v] \in 1..Len(Specs[v]) /\ Len(Specs[v]) \in Nat
  BY ParametersTyped DEF Typed, InBounds
<1>2. CASE i[v] < Len(Specs[v])
  <2>1. i[v] + 1 \in 1..Len(Specs[v])
    BY <1>1, <1>2
  <2> QED
    BY <1>2, <2>1 DEF NextAttachment, Goto
<1>3. CASE ~(i[v] < Len(Specs[v]))
  <2>1. i[v] = Len(Specs[v])
    BY <1>1, <1>3
  <2>2. i' = [i EXCEPT ![v] = i[v]]
    BY <1>3 DEF NextAttachment, Typed, TypeOK
  <2> QED
    BY <1>1, <1>3, <2>1, <2>2 DEF NextAttachment, Goto
<1> QED
  BY <1>2, <1>3

\* Either way the types are kept.
LEMMA NextTyped ==
  ASSUME Typed, NEW v \in Vends, pc[v] \in VendLive, NextContent(v) \/ NextAttachment(v)
  PROVE  Moving'
<1>1. PICK l \in Places, j \in 1..Len(Specs[v]) :
        pc' = [pc EXCEPT ![v] = l] /\ i' = [i EXCEPT ![v] = j]
  BY NextContentTyped, NextAttachmentTyped DEF Places, VendLive, Stopped
<1> QED
  BY <1>1, MoveTyped

\* A run that goes somewhere without touching its place in the set.
LEMMA GotoTyped ==
  ASSUME Typed, NEW r \in Runs, NEW l \in Places, Goto(r, l), UNCHANGED i,
         l \in VendLive => r \in Vends /\ i[r] \in 1..Len(Specs[r])
  PROVE  Moving'
<1>1. pc' \in [Runs -> Places] /\ pc'[r] = l /\ \A s \in Runs \ {r} : pc'[s] = pc[s]
  BY DEF Goto, Typed, TypeOK, Places
<1> QED
  BY <1>1 DEF Typed, TypeOK, InBounds, Moving, Runs

\* What a vend writes is a policy of automat's with the document it compiled.
LEMMA WriteTyped ==
  ASSUME Typed, NEW v \in Vends, pc[v] \in VendLive, Write(v)
  PROVE  /\ policy' \in [Names -> {{}} \cup {{q} : q \in Policy}]
         /\ Name(v) \in Names /\ Name(v) \in PolicySet(v)
         /\ policy' = [policy EXCEPT ![Name(v)] =
                         {[owned |-> TRUE, doc |-> Compiled[v][Name(v)]]}]
<1>1. Name(v) \in Names /\ Name(v) \in PolicySet(v)
  BY NameTyped DEF Typed, InBounds, Name
<1>2. [owned |-> TRUE, doc |-> Compiled[v][Name(v)]] \in Policy
  BY <1>1, ParametersTyped DEF Policy
<1> QED
  BY <1>1, <1>2 DEF Write, Typed, TypeOK

\* Every step keeps the types and the bounds.
LEMMA TypePreserved ==
  ASSUME Typed, [Next]_vars
  PROVE  Typed'
<1> USE RunsDistinct, ParametersTyped
<1> USE DEF Places
<1>0. /\ "content" \in Places /\ "create" \in Places /\ "adopt" \in Places /\ "update" \in Places
      /\ "attachments" \in Places /\ "attach" \in Places /\ "failed" \in Places
      /\ "full" \in Places /\ "done" \in Places /\ "begin" \in Places
      /\ "list" \in Places /\ "siblings" \in Places /\ "detach" \in Places /\ "close" \in Places
      /\ \A l \in {"failed", "full", "done", "begin"} \cup ReclaimLive : l \notin VendLive
      /\ \A v \in Vends : v \in Runs
      /\ \A r \in Reclaims : r \in Runs
  BY DEF VendLive, ReclaimLive, Stopped, Runs
<1>a. \A v \in Vends : pc[v] \in VendLive => i[v] \in 1..Len(Specs[v])
  BY DEF Typed, InBounds
<1>1. ASSUME NEW v \in Vends, Place(v)
      PROVE  Typed'
  <2>1. Moving'
    <3>1. CASE Goto(v, "failed")
      BY <1>0, <1>1, <3>1, GotoTyped DEF Place
    <3>2. CASE Goto(v, "done")
      BY <1>0, <1>1, <3>2, GotoTyped DEF Place
    <3>3. CASE Specs[v] # <<>> /\ Goto(v, "content")
      <4>1. Len(Specs[v]) \in Nat \ {0}
        BY <3>3
      <4>2. i[v] \in 1..Len(Specs[v])
        BY <4>1 DEF Typed, TypeOK
      <4> QED
        BY <1>0, <1>1, <3>3, <4>2, GotoTyped DEF Place
    <3> QED
      BY <1>1, <3>1, <3>2, <3>3 DEF Place
  <2>2. /\ parent' \in [Accounts -> Targets] /\ holder' \in [Accounts -> Runs \cup {NoRun}]
        /\ late' \in [Reclaims -> SUBSET Accounts]
    BY <1>0, <1>1 DEF Place, Typed, TypeOK, Targets
  <2> QED
    BY <1>1, <2>1, <2>2 DEF Place, Typed, TypeOK, Moving
<1>2. ASSUME NEW v \in Vends, ReadPolicy(v)
      PROVE  Typed'
  <2>1. Moving'
    <3>1. CASE NextContent(v)
      BY <1>2, <3>1, NextTyped DEF ReadPolicy, VendLive
    <3>2. ASSUME NEW l \in {"create", "failed", "update"}, Goto(v, l), UNCHANGED i
          PROVE  Moving'
      <4>1. pc[v] \in VendLive
        BY <1>2 DEF ReadPolicy, VendLive
      <4> QED
        BY <1>0, <1>a, <3>2, <4>1, GotoTyped
    <3> QED
      BY <1>2, <3>1, <3>2 DEF ReadPolicy
  <2> QED
    BY <1>2, <2>1 DEF ReadPolicy, Typed, TypeOK, Moving, org
<1>3. ASSUME NEW v \in Vends, CreatePolicy(v)
      PROVE  Typed'
  <2>0. pc[v] \in VendLive
    BY <1>3 DEF CreatePolicy, VendLive
  <2>1. CASE Write(v) /\ NextContent(v)
    BY <1>3, <2>0, <2>1, NextTyped, WriteTyped DEF CreatePolicy, Typed, TypeOK, Moving
  <2>2. CASE Goto(v, "adopt") /\ UNCHANGED <<policy, i>>
    <3>1. Moving'
      BY <1>0, <1>a, <2>0, <2>2, GotoTyped
    <3> QED
      BY <1>3, <2>2, <3>1 DEF CreatePolicy, Typed, TypeOK, Moving
  <2> QED
    BY <1>3, <2>1, <2>2 DEF CreatePolicy
<1>4. ASSUME NEW v \in Vends, Adopt(v)
      PROVE  Typed'
  <2>1. Moving'
    <3>1. CASE NextContent(v)
      BY <1>4, <3>1, NextTyped DEF Adopt, VendLive
    <3>2. CASE Goto(v, "failed") /\ UNCHANGED i
      BY <1>0, <3>2, GotoTyped
    <3> QED
      BY <1>4, <3>1, <3>2 DEF Adopt
  <2> QED
    BY <1>4, <2>1 DEF Adopt, Typed, TypeOK, Moving, org
<1>5. ASSUME NEW v \in Vends, UpdatePolicy(v)
      PROVE  Typed'
  <2>0. pc[v] \in VendLive
    BY <1>5 DEF UpdatePolicy, VendLive
  <2> QED
    BY <1>5, <2>0, NextTyped, WriteTyped DEF UpdatePolicy, Typed, TypeOK, Moving
<1>6. ASSUME NEW v \in Vends, ReadAttached(v)
      PROVE  Typed'
  <2>0. pc[v] \in VendLive
    BY <1>6 DEF ReadAttached, VendLive
  <2>1. Moving'
    <3>1. CASE NextAttachment(v)
      BY <2>0, <3>1, NextTyped
    <3>2. CASE Goto(v, "attach") /\ UNCHANGED i
      BY <1>0, <1>a, <2>0, <3>2, GotoTyped
    <3> QED
      BY <1>6, <3>1, <3>2 DEF ReadAttached
  <2> QED
    BY <1>6, <2>1 DEF ReadAttached, Typed, TypeOK, Moving, org
<1>7. ASSUME NEW v \in Vends, AttachPolicy(v)
      PROVE  Typed'
  <2>0. pc[v] \in VendLive
    BY <1>7 DEF AttachPolicy, VendLive
  <2>1. Name(v) \in Names
    BY <1>a, <2>0, NameTyped DEF Name
  <2>2. Moving'
    <3>1. CASE NextAttachment(v)
      BY <2>0, <3>1, NextTyped
    <3>2. CASE Goto(v, "full") /\ UNCHANGED i
      BY <1>0, <3>2, GotoTyped
    <3> QED
      BY <1>7, <3>1, <3>2 DEF AttachPolicy
  <2>3. attached' \in [Targets -> SUBSET Names]
    BY <1>7, <2>1 DEF AttachPolicy, Typed, TypeOK
  <2>4. put' \in [Reclaims -> SUBSET Names]
    BY <1>7, <2>1 DEF AttachPolicy, Typed, TypeOK
  <2> QED
    BY <1>7, <2>2, <2>3, <2>4 DEF AttachPolicy, Typed, TypeOK, Moving
<1>8. ASSUME NEW r \in Reclaims, Target(r)
      PROVE  Typed'
  <2>1. Moving'
    BY <1>0, <1>8, GotoTyped DEF Target, ReclaimLive
  <2> QED
    BY <1>0, <1>8, <2>1 DEF Target, Typed, TypeOK, Moving, org
<1>9. ASSUME NEW r \in Reclaims, List(r)
      PROVE  Typed'
  <2>1. Moving'
    BY <1>0, <1>9, GotoTyped DEF List, ReclaimLive
  <2>2. OwnedAt(target[r]) \in SUBSET Names
    BY DEF OwnedAt, Typed, TypeOK
  <2> QED
    BY <1>9, <2>1, <2>2 DEF List, Typed, TypeOK, Moving, org
<1>10. ASSUME NEW r \in Reclaims, Siblings(r)
       PROVE  Typed'
  <2>1. Moving'
    BY <1>0, <1>10, GotoTyped DEF Siblings, ReclaimLive
  <2> QED
    BY <1>10, <2>1 DEF Siblings, Typed, TypeOK, Moving, org
<1>11. ASSUME NEW r \in Reclaims, DetachPolicy(r)
       PROVE  Typed'
  <2>1. Moving'
    BY <1>0, <1>11, GotoTyped DEF DetachPolicy, ReclaimLive
  <2>2. PICK p \in todo[r] : /\ attached' = [attached EXCEPT ![target[r]] = @ \ {p}]
                            /\ todo' = [todo EXCEPT ![r] = @ \ {p}]
                            /\ put' = [put EXCEPT ![r] = @ \ {p}]
    BY <1>11 DEF DetachPolicy
  <2>3. /\ todo' \in [Reclaims -> SUBSET Names] /\ attached' \in [Targets -> SUBSET Names]
        /\ put' \in [Reclaims -> SUBSET Names]
    BY <2>2 DEF Typed, TypeOK
  <2> QED
    BY <1>11, <2>1, <2>3 DEF DetachPolicy, Typed, TypeOK, Moving
<1>12. ASSUME NEW r \in Reclaims, CloseAccount(r)
       PROVE  Typed'
  <2>1. Moving'
    BY <1>0, <1>12, GotoTyped DEF CloseAccount
  <2> QED
    BY <1>12, <2>1 DEF CloseAccount, Typed, TypeOK, Moving
<1>13. ASSUME NEW r \in Unlucky, Stop(r)
       PROVE  Typed'
  <2>1. Moving'
    BY <1>0, <1>13, GotoTyped DEF Stop
  <2> QED
    BY <1>13, <2>1 DEF Stop, Typed, TypeOK, Moving, org
<1>14. ASSUME NEW a \in Accounts, Suspend(a)
       PROVE  Typed'
  BY <1>14 DEF Suspend, Typed, TypeOK, InBounds
<1>15. ASSUME NEW p \in Institutional, HumanCreates(p)
       PROVE  Typed'
  <2>1. PICK d \in Documents : policy' = [policy EXCEPT ![p] = {[owned |-> FALSE, doc |-> d]}]
    BY <1>15 DEF HumanCreates
  <2>2. [owned |-> FALSE, doc |-> d] \in Policy
    BY DEF Policy
  <2> QED
    BY <1>15, <2>1, <2>2 DEF HumanCreates, Typed, TypeOK, InBounds
<1>16. ASSUME NEW p \in Institutional, NEW t \in Targets, HumanAttaches(p, t)
       PROVE  Typed'
  BY <1>16 DEF HumanAttaches, Typed, TypeOK, InBounds
<1>17. ASSUME NEW a \in Movable, HumanMoves(a)
       PROVE  Typed'
  BY <1>17 DEF HumanMoves, Typed, TypeOK, InBounds, Targets
<1>18. CASE UNCHANGED vars
  BY <1>18 DEF vars, org, Typed, TypeOK, InBounds
<1> QED
  BY <1>1, <1>2, <1>3, <1>4, <1>5, <1>6, <1>7, <1>8, <1>9, <1>10, <1>11, <1>12,
     <1>13, <1>14, <1>15, <1>16, <1>17, <1>18 DEF Next, VendStep, ReclaimStep

LEMMA InitTyped == Init => Typed
<1> SUFFICES ASSUME Init
             PROVE  Typed
  OBVIOUS
<1>1. InBounds
  BY DEF Init, InBounds, Runs, VendLive
<1>2. Root \in Targets
  BY DEF Targets
<1>3. pc \in [Runs -> {"begin"} \cup VendLive \cup ReclaimLive \cup Stopped]
  BY DEF Init
<1> QED
  BY <1>1, <1>2, <1>3 DEF Init, Typed, TypeOK

\* Every state of every instance is well typed, and a vend never runs past its set.
THEOREM Types == Spec => []Typed
<1>1. Typed /\ [Next]_vars => Typed'
  BY TypePreserved
<1> QED
  BY <1>1, InitTyped, PTL DEF Spec

\* The type invariant.
THEOREM TypeCorrect == Spec => []TypeOK
<1>1. Typed => TypeOK
  BY DEF Typed
<1> QED
  BY <1>1, Types, PTL

-------------------------------------------------------------------------------
(* Whose step it is *)

\* Where a vend is changes only by its own step, or its end.
LEMMA VendTurn ==
  ASSUME Typed, [Next]_vars, NEW v \in Vends
  PROVE  \/ VendStep(v)
         \/ Stop(v)
         \/ pc'[v] = pc[v] /\ i'[v] = i[v]
<1> USE RunsDistinct, ParametersTyped DEF Typed, TypeOK, Runs
<1>1. ASSUME NEW w \in Vends, w # v, VendStep(w)
      PROVE  pc'[v] = pc[v] /\ i'[v] = i[v]
  BY <1>1 DEF VendStep, Place, ReadPolicy, CreatePolicy, Adopt, UpdatePolicy, ReadAttached,
              AttachPolicy, NextContent, NextAttachment, Goto
<1>2. ASSUME NEW r \in Reclaims, ReclaimStep(r)
      PROVE  pc'[v] = pc[v] /\ i'[v] = i[v]
  BY <1>2 DEF ReclaimStep, Target, List, Siblings, DetachPolicy, CloseAccount, Goto
<1>3. ASSUME NEW r \in Unlucky, r # v, Stop(r)
      PROVE  pc'[v] = pc[v] /\ i'[v] = i[v]
  BY <1>3 DEF Stop, Goto
<1>4. ASSUME \/ \E a \in Accounts : Suspend(a)
             \/ \E p \in Institutional : HumanCreates(p) \/ \E t \in Targets : HumanAttaches(p, t)
             \/ \E a \in Movable : HumanMoves(a)
             \/ UNCHANGED vars
      PROVE  pc'[v] = pc[v] /\ i'[v] = i[v]
  BY <1>4 DEF Suspend, HumanCreates, HumanAttaches, HumanMoves, vars
<1> QED
  BY <1>1, <1>2, <1>3, <1>4 DEF Next

\* So does where a reclaim is, and what it has read.
LEMMA ReclaimTurn ==
  ASSUME Typed, [Next]_vars, NEW r \in Reclaims
  PROVE  \/ ReclaimStep(r)
         \/ Stop(r)
         \/ /\ pc'[r] = pc[r] /\ target'[r] = target[r]
            /\ todo'[r] = todo[r] /\ shared'[r] = shared[r]
<1> USE RunsDistinct, ParametersTyped DEF Typed, TypeOK, Runs
<1> DEFINE Same == /\ pc'[r] = pc[r] /\ target'[r] = target[r]
                   /\ todo'[r] = todo[r] /\ shared'[r] = shared[r]
<1>1. ASSUME NEW v \in Vends, VendStep(v)
      PROVE  Same
  BY <1>1 DEF VendStep, Place, ReadPolicy, CreatePolicy, Adopt, UpdatePolicy, ReadAttached,
              AttachPolicy, NextContent, NextAttachment, Goto
<1>2. ASSUME NEW s \in Reclaims, s # r, ReclaimStep(s)
      PROVE  Same
  BY <1>2 DEF ReclaimStep, Target, List, Siblings, DetachPolicy, CloseAccount, Goto
<1>3. ASSUME NEW s \in Unlucky, s # r, Stop(s)
      PROVE  Same
  BY <1>3 DEF Stop, Goto
<1>4. ASSUME \/ \E a \in Accounts : Suspend(a)
             \/ \E p \in Institutional : HumanCreates(p) \/ \E t \in Targets : HumanAttaches(p, t)
             \/ \E a \in Movable : HumanMoves(a)
             \/ UNCHANGED vars
      PROVE  Same
  BY <1>4 DEF Suspend, HumanCreates, HumanAttaches, HumanMoves, vars
<1> QED
  BY <1>1, <1>2, <1>3, <1>4 DEF Next

-------------------------------------------------------------------------------
(* Ownership *)

ContentPhase == {"content", "create", "adopt", "update"}

\* The policies of its set a vend has seen to.
Ensured(v) ==
  IF pc[v] \in ContentPhase THEN {Specs[v][j] : j \in 1..(i[v] - 1)}
  ELSE IF pc[v] \in {"attachments", "attach", "done"} THEN PolicySet(v) ELSE {}

\* What a vend has seen to, or is about to update, and what a reclaim is about to
\* detach, is automat's.
OwnedInv ==
  /\ \A v \in Vends :
       /\ pc[v] = "begin" => i[v] = 1
       /\ \A p \in Ensured(v) : Owned(p)
       /\ pc[v] = "update" => Owned(Name(v))
  /\ \A r \in Reclaims : \A p \in todo[r] : Owned(p)

\* The one way each policy may change.
Kept(p) ==
  /\ Owned(p) => Owned(p)'
  /\ ~Absent(p) => ~Absent(p)'
  /\ ~Absent(p) /\ ~Owned(p) => policy'[p] = policy[p]

\* A write by a vend puts one policy of automat's in place.
LEMMA Written ==
  ASSUME Typed, NEW v \in Vends, pc[v] \in VendLive, Write(v), NEW p \in Names
  PROVE  /\ p = Name(v) => Owned(p)' /\ ~Absent(p)' /\ Carries(p, Compiled[v][p])'
         /\ p # Name(v) => policy'[p] = policy[p]
<1>0. /\ policy' = [policy EXCEPT ![Name(v)] = {[owned |-> TRUE, doc |-> Compiled[v][Name(v)]]}]
      /\ DOMAIN policy = Names
  <2>1. policy \in [Names -> {{}} \cup {{q} : q \in Policy}]
    BY DEF Typed, TypeOK
  <2> QED
    BY <2>1, WriteTyped
<1>1. p = Name(v) => policy'[p] = {[owned |-> TRUE, doc |-> Compiled[v][p]]}
  BY <1>0
<1>2. p # Name(v) => policy'[p] = policy[p]
  BY <1>0
<1>3. ASSUME p = Name(v)
      PROVE  Owned(p)' /\ ~Absent(p)' /\ Carries(p, Compiled[v][p])'
  <2> DEFINE q == [owned |-> TRUE, doc |-> Compiled[v][p]]
  <2>1. q.owned /\ q.doc = Compiled[v][p]
    OBVIOUS
  <2>2. policy'[p] = {q}
    BY <1>1, <1>3
  <2> HIDE DEF q
  <2> QED
    BY <2>1, <2>2 DEF Owned, Absent, Carries
<1> QED
  BY <1>2, <1>3

\* What a step does to the organization's policies.
LEMMA PolicyStep ==
  ASSUME Typed, OwnedInv, [Next]_vars
  PROVE  \/ UNCHANGED policy
         \/ \E v \in Vends : /\ pc[v] \in {"create", "update"} /\ Write(v) /\ NextContent(v)
                             /\ Absent(Name(v)) \/ Owned(Name(v))
         \/ \E p \in Institutional : HumanCreates(p)
<1>1. ASSUME NEW v \in Vends, VendStep(v)
      PROVE  \/ UNCHANGED policy
             \/ /\ pc[v] \in {"create", "update"} /\ Write(v) /\ NextContent(v)
                /\ Absent(Name(v)) \/ Owned(Name(v))
  BY <1>1 DEF VendStep, Place, ReadPolicy, CreatePolicy, Adopt, UpdatePolicy, ReadAttached,
              AttachPolicy, org, OwnedInv
<1>2. ASSUME NEW r \in Reclaims, ReclaimStep(r)
      PROVE  UNCHANGED policy
  BY <1>2 DEF ReclaimStep, Target, List, Siblings, DetachPolicy, CloseAccount, org
<1>3. ASSUME NEW r \in Unlucky, Stop(r)
      PROVE  UNCHANGED policy
  BY <1>3 DEF Stop, org
<1>4. ASSUME \/ \E a \in Accounts : Suspend(a)
             \/ \E p \in Institutional : \E t \in Targets : HumanAttaches(p, t)
             \/ \E a \in Movable : HumanMoves(a)
             \/ UNCHANGED vars
      PROVE  UNCHANGED policy
  BY <1>4 DEF Suspend, HumanAttaches, HumanMoves, vars, org
<1> QED
  BY <1>1, <1>2, <1>3, <1>4 DEF Next

\* A policy of automat's stays one, and one that is not stays what it is.
LEMMA PoliciesKept ==
  ASSUME Typed, OwnedInv, [Next]_vars, NEW p \in Names
  PROVE  Kept(p)
<1>1. CASE UNCHANGED policy
  BY <1>1 DEF Kept, Owned, Absent
<1>2. ASSUME NEW v \in Vends, pc[v] \in {"create", "update"}, Write(v),
             Absent(Name(v)) \/ Owned(Name(v))
      PROVE  Kept(p)
  BY <1>2, Written DEF Kept, Owned, Absent, VendLive
<1>3. ASSUME NEW n \in Institutional, HumanCreates(n)
      PROVE  Kept(p)
  BY <1>3, ParametersTyped DEF HumanCreates, Kept, Owned, Absent, Typed, TypeOK
<1> QED
  BY <1>1, <1>2, <1>3, PolicyStep

\* What a vend does in its content phase, and to what it has seen to.
LEMMA ContentStep ==
  ASSUME Typed, NEW v \in Vends, pc[v] \in ContentPhase, VendStep(v)
  PROVE  \/ /\ Goto(v, "failed") /\ UNCHANGED <<policy, i>>
         \/ /\ pc[v] = "content" /\ Absent(Name(v)) /\ Goto(v, "create")
            /\ UNCHANGED <<policy, i>>
         \/ /\ pc[v] = "content" /\ Owned(Name(v)) /\ Goto(v, "update")
            /\ UNCHANGED <<policy, i>>
         \/ /\ pc[v] = "create" /\ ~Absent(Name(v)) /\ Goto(v, "adopt")
            /\ UNCHANGED <<policy, i>>
         \/ /\ NextContent(v)
            /\ \/ Write(v)
               \/ UNCHANGED policy /\ Owned(Name(v)) /\ Carries(Name(v), Compiled[v][Name(v)])
               \/ UNCHANGED policy /\ Owned(Name(v)) /\ pc[v] = "adopt"
BY DEF VendStep, Place, ReadPolicy, CreatePolicy, Adopt, UpdatePolicy, ReadAttached,
       AttachPolicy, org, ContentPhase

LEMMA NextEnsured ==
  ASSUME Typed, NEW v \in Vends, pc[v] \in ContentPhase, NextContent(v)
  PROVE  /\ Ensured(v)' = Ensured(v) \cup {Name(v)}
         /\ pc'[v] \in {"content", "attachments"}
<1>1. pc[v] \in VendLive
  BY DEF ContentPhase, VendLive
<1>2. PICK l \in {"content", "attachments"}, j \in 1..Len(Specs[v]) :
           /\ pc' = [pc EXCEPT ![v] = l] /\ i' = [i EXCEPT ![v] = j]
           /\ \/ l = "content" /\ j = i[v] + 1
              \/ l = "attachments" /\ j = 1 /\ i[v] = Len(Specs[v])
  BY <1>1, NextContentTyped
<1>3. pc'[v] = l /\ i'[v] = j /\ i[v] \in 1..Len(Specs[v]) /\ Len(Specs[v]) \in Nat
  BY <1>1, <1>2, ParametersTyped DEF Typed, TypeOK, Runs, InBounds
<1>4. CASE l = "content"
  <2>1. 1..(j - 1) = 1..(i[v] - 1) \cup {i[v]}
    BY <1>2, <1>3, <1>4
  <2> QED
    BY <1>3, <1>4, <2>1 DEF Ensured, ContentPhase, Name
<1>5. CASE l = "attachments"
  <2>1. 1..Len(Specs[v]) = 1..(i[v] - 1) \cup {i[v]}
    BY <1>2, <1>3, <1>5
  <2> QED
    BY <1>3, <1>5, <2>1 DEF Ensured, ContentPhase, Name, PolicySet
<1> QED
  BY <1>3, <1>4, <1>5

\* Outside the content phase a vend sees to no further policy.
LEMMA EnsuredLater ==
  ASSUME Typed, OwnedInv, NEW v \in Vends, pc[v] \notin ContentPhase, VendStep(v)
  PROVE  /\ Ensured(v)' \subseteq Ensured(v)
         /\ pc'[v] \notin {"begin", "update", "create", "adopt"}
<1>1. CASE Place(v)
  BY <1>1, ParametersTyped DEF Place, Goto, Ensured, ContentPhase, PolicySet, OwnedInv, Typed,
     TypeOK, Runs
<1>2. CASE pc[v] \in {"attachments", "attach"} /\ NextAttachment(v)
  BY <1>2, NextAttachmentTyped, ParametersTyped DEF Ensured, ContentPhase, VendLive, Typed, TypeOK, Runs
<1>3. CASE pc[v] \in {"attachments", "attach"} /\ (Goto(v, "attach") \/ Goto(v, "full"))
  BY <1>3, ParametersTyped DEF Ensured, ContentPhase, Goto, Typed, TypeOK, Runs
<1> QED
  BY <1>1, <1>2, <1>3 DEF VendStep, ReadPolicy, CreatePolicy, Adopt, UpdatePolicy, ReadAttached,
     AttachPolicy, ContentPhase

\* A vend that ends has seen to nothing; one whose turn it is not, to the same.
LEMMA EnsuredElsewhere ==
  ASSUME Typed, NEW v \in Vends, Stop(v) \/ (pc'[v] = pc[v] /\ i'[v] = i[v])
  PROVE  /\ Ensured(v)' \subseteq Ensured(v)
         /\ \/ pc'[v] = "failed"
            \/ pc'[v] = pc[v] /\ i'[v] = i[v] /\ Name(v)' = Name(v)
<1>1. CASE Stop(v)
  BY <1>1, ParametersTyped DEF Stop, Goto, Ensured, ContentPhase, Typed, TypeOK, Runs
<1>2. CASE pc'[v] = pc[v] /\ i'[v] = i[v]
  BY <1>2 DEF Ensured, Name
<1> QED
  BY <1>1, <1>2

\* What is seen to stays automat's.
LEMMA OwnedPreserved ==
  ASSUME Typed, OwnedInv, [Next]_vars
  PROVE  OwnedInv'
<1>1. ASSUME NEW v \in Vends
      PROVE  /\ (pc[v] = "begin" => i[v] = 1)'
             /\ \A p \in Ensured(v)' : Owned(p)'
             /\ (pc[v] = "update" => Owned(Name(v)))'
  <2>0. Ensured(v) \subseteq Names /\ (pc[v] \in ContentPhase => Name(v) \in Names)
    BY NameTyped DEF Ensured, PolicySet, Typed, TypeOK, InBounds, Name, VendLive, ContentPhase
  <2>1. \A p \in Names : Owned(p) => Owned(p)'
    BY PoliciesKept DEF Kept
  <2>2. CASE Stop(v) \/ (pc'[v] = pc[v] /\ i'[v] = i[v])
    BY <2>0, <2>1, <2>2, EnsuredElsewhere DEF OwnedInv, ContentPhase, Owned
  <2>3. CASE VendStep(v) /\ pc[v] \notin ContentPhase
    BY <2>0, <2>1, <2>3, EnsuredLater DEF OwnedInv
  <2>4. CASE VendStep(v) /\ pc[v] \in ContentPhase
    <3>1. CASE NextContent(v) /\ (Write(v) \/ (UNCHANGED policy /\ Owned(Name(v))))
      <4>1. Write(v) \/ (Owned(Name(v)) /\ UNCHANGED policy)
        BY <3>1
      <4>2. \A p \in Names : p = Name(v) => Owned(p)'
        BY <2>0, <2>1, <2>4, <4>1, Written DEF ContentPhase, VendLive
      <4> QED
        BY <2>0, <2>1, <2>4, <3>1, <4>2, NextEnsured DEF OwnedInv
    <3>2. CASE (Goto(v, "failed") \/ Goto(v, "create") \/ Goto(v, "adopt")) /\ UNCHANGED i
      <4>1. pc'[v] \in {"failed", "create", "adopt"} /\ i'[v] = i[v]
        BY <3>2, ParametersTyped DEF Goto, Typed, TypeOK, Runs
      <4>2. Ensured(v)' \subseteq Ensured(v)
        BY <2>4, <4>1 DEF Ensured, ContentPhase
      <4> QED
        BY <2>0, <2>1, <4>1, <4>2 DEF OwnedInv
    <3>3. CASE Owned(Name(v)) /\ Goto(v, "update") /\ UNCHANGED <<policy, i>>
      <4>1. pc'[v] = "update" /\ i'[v] = i[v] /\ Name(v)' = Name(v)
        BY <3>3, ParametersTyped DEF Goto, Typed, TypeOK, Runs, Name
      <4>2. Ensured(v)' \subseteq Ensured(v) /\ Owned(Name(v))'
        BY <2>4, <3>3, <4>1 DEF Ensured, ContentPhase, Owned
      <4> QED
        BY <2>0, <2>1, <4>1, <4>2 DEF OwnedInv
    <3> QED
      BY <2>4, <3>1, <3>2, <3>3, ContentStep
  <2> QED
    BY <2>2, <2>3, <2>4, VendTurn
<1>2. ASSUME NEW r \in Reclaims
      PROVE  \A p \in todo'[r] : Owned(p)'
  <2>1. \A p \in Names : Owned(p) => Owned(p)'
    BY PoliciesKept DEF Kept
  <2>2. todo[r] \subseteq Names /\ \A p \in todo[r] : Owned(p)
    BY DEF Typed, TypeOK, OwnedInv
  <2>3. CASE todo'[r] \subseteq todo[r]
    BY <2>1, <2>2, <2>3
  <2>4. CASE List(r)
    BY <2>1, <2>4 DEF List, OwnedAt, Typed, TypeOK
  <2>5. CASE ReclaimStep(r) \/ Stop(r)
    BY <2>3, <2>4, <2>5 DEF ReclaimStep, Target, Siblings, DetachPolicy, CloseAccount, Stop,
       Typed, TypeOK
  <2> QED
    BY <2>3, <2>5, ReclaimTurn
<1> QED
  BY <1>1, <1>2 DEF OwnedInv

THEOREM OwnedInvariance == Spec => [](Typed /\ OwnedInv)
<1>1. Init => OwnedInv
  BY RunsDistinct DEF Init, OwnedInv, Ensured, ContentPhase, Runs
<1>2. Typed /\ OwnedInv /\ [Next]_vars => OwnedInv'
  BY OwnedPreserved
<1> QED
  BY <1>1, <1>2, Types, PTL DEF Spec

\* What a step does to the attachments.
LEMMA AttachmentStep ==
  ASSUME Typed, OwnedInv, [Next]_vars
  PROVE  \/ UNCHANGED attached
         \/ \E v \in Vends :
              /\ AttachPolicy(v)
              /\ attached' = [attached EXCEPT ![OUOf[v]] = @ \cup {Name(v)}]
              /\ Owned(Name(v))
         \/ \E r \in Reclaims : DetachPolicy(r)
         \/ \E p \in Institutional, t \in Targets : HumanAttaches(p, t)
<1>1. ASSUME NEW v \in Vends, VendStep(v)
      PROVE  \/ UNCHANGED attached
             \/ /\ AttachPolicy(v)
                /\ attached' = [attached EXCEPT ![OUOf[v]] = @ \cup {Name(v)}]
                /\ Owned(Name(v))
  <2>1. AttachPolicy(v) => Owned(Name(v))
    <3>1. ASSUME AttachPolicy(v)
          PROVE  Name(v) \in PolicySet(v) /\ Ensured(v) = PolicySet(v)
      BY <3>1, NameTyped DEF AttachPolicy, Ensured, ContentPhase, Typed, InBounds, VendLive, Name
    <3> QED
      BY <3>1 DEF OwnedInv
  <2> QED
    BY <1>1, <2>1 DEF VendStep, Place, ReadPolicy, CreatePolicy, Adopt, UpdatePolicy, ReadAttached,
       AttachPolicy, org
<1>2. ASSUME NEW r \in Reclaims, ReclaimStep(r)
      PROVE  UNCHANGED attached \/ DetachPolicy(r)
  BY <1>2 DEF ReclaimStep, Target, List, Siblings, CloseAccount, org
<1>3. ASSUME NEW r \in Unlucky, Stop(r)
      PROVE  UNCHANGED attached
  BY <1>3 DEF Stop, org
<1>4. ASSUME \/ \E a \in Accounts : Suspend(a)
             \/ \E p \in Institutional : HumanCreates(p)
             \/ \E a \in Movable : HumanMoves(a)
             \/ UNCHANGED vars
      PROVE  UNCHANGED attached
  BY <1>4 DEF Suspend, HumanCreates, HumanMoves, vars, org
<1> QED
  BY <1>1, <1>2, <1>3, <1>4 DEF Next

\* ForeignUntouched: no run rewrites, attaches or detaches a policy that is not
\* automat's, for any number of runs and whatever people create meanwhile.
THEOREM ForeignLeftAlone == Spec => ForeignUntouched
<1> DEFINE Untouched == \A p \in Names :
       ~Absent(p) /\ ~Owned(p) =>
         /\ policy'[p] = policy[p]
         /\ \A t \in Targets :
              /\ p \in attached[t] => p \in attached'[t]
              /\ p \in attached'[t] \ attached[t] => pc' = pc
<1>1. ASSUME Typed, OwnedInv, [Next]_vars
      PROVE  Untouched
  <2> SUFFICES ASSUME NEW p \in Names, ~Absent(p), ~Owned(p), NEW t \in Targets
               PROVE  /\ policy'[p] = policy[p]
                      /\ p \in attached[t] => p \in attached'[t]
                      /\ p \in attached'[t] \ attached[t] => pc' = pc
    <3>1. Root \in Targets
      BY DEF Targets
    <3> QED
      BY <3>1
  <2>1. policy'[p] = policy[p]
    BY <1>1, PoliciesKept DEF Kept
  <2>2. CASE UNCHANGED attached
    BY <2>1, <2>2
  <2>3. ASSUME NEW v \in Vends, attached' = [attached EXCEPT ![OUOf[v]] = @ \cup {Name(v)}],
               Owned(Name(v))
        PROVE  (p \in attached[t] => p \in attached'[t]) /\ p \notin attached'[t] \ attached[t]
    BY <1>1, <2>3 DEF Typed, TypeOK
  <2>4. ASSUME NEW r \in Reclaims, DetachPolicy(r)
        PROVE  (p \in attached[t] => p \in attached'[t]) /\ p \notin attached'[t] \ attached[t]
    BY <1>1, <2>4 DEF DetachPolicy, Typed, TypeOK, OwnedInv
  <2>5. ASSUME NEW n \in Institutional, NEW u \in Targets, HumanAttaches(n, u)
        PROVE  (p \in attached[t] => p \in attached'[t]) /\ pc' = pc
    BY <1>1, <2>5 DEF HumanAttaches, Typed, TypeOK
  <2> QED
    BY <1>1, <2>1, <2>2, <2>3, <2>4, <2>5, AttachmentStep
<1>2. ASSUME Typed, OwnedInv, [Next]_vars
      PROVE  [Untouched]_vars
  BY <1>1, <1>2
<1>3. ForeignUntouched <=> [][Untouched]_vars
  BY PTL DEF ForeignUntouched
<1> QED
  BY <1>2, <1>3, OwnedInvariance, PTL DEF Spec

-------------------------------------------------------------------------------
(* Documents *)

\* What a vend has seen to carries the document it compiled, if the vends agree on
\* it; and so does a policy somebody created after the vend found none.
DocInv ==
  \A v \in Vends : \A p \in PolicySet(v) : Agreed(p) =>
    /\ p \in Ensured(v) => Carries(p, Compiled[v][p])
    /\ pc[v] \in {"create", "adopt"} /\ p = Name(v) /\ Owned(p) => Carries(p, Compiled[v][p])

\* A policy that carries the agreed document, or that nobody owned, is not left
\* with another document of automat's.
LEMMA DocumentKept ==
  ASSUME Typed, OwnedInv, [Next]_vars, NEW v \in Vends, NEW p \in PolicySet(v), Agreed(p),
         Owned(p) => Carries(p, Compiled[v][p])
  PROVE  Owned(p)' => Carries(p, Compiled[v][p])'
<1>0. p \in Names
  BY NameTyped DEF PolicySet
<1>1. CASE policy'[p] = policy[p]
  BY <1>1 DEF Owned, Carries
<1>2. ASSUME NEW w \in Vends, pc[w] \in {"create", "update"}, Write(w)
      PROVE  Owned(p)' => Carries(p, Compiled[v][p])'
  <2>1. CASE p = Name(w)
    <3>1. p \in PolicySet(w)
      BY <1>2, <2>1, WriteTyped DEF VendLive
    <3>2. Compiled[w][p] = Compiled[v][p]
      BY <3>1 DEF Agreed
    <3> QED
      BY <1>0, <1>2, <2>1, <3>2, Written DEF VendLive
  <2>2. CASE p # Name(w)
    BY <1>0, <1>1, <1>2, <2>2, Written DEF VendLive
  <2> QED
    BY <2>1, <2>2
<1>3. ASSUME NEW n \in Institutional, HumanCreates(n), n = p
      PROVE  ~Owned(p)'
  <2>1. PICK d \in Documents : policy' = [policy EXCEPT ![n] = {[owned |-> FALSE, doc |-> d]}]
    BY <1>3 DEF HumanCreates
  <2>2. policy'[p] = {[owned |-> FALSE, doc |-> d]}
    BY <1>0, <1>3, <2>1 DEF Typed, TypeOK
  <2> DEFINE q == [owned |-> FALSE, doc |-> d]
  <2>3. ~q.owned
    OBVIOUS
  <2> HIDE DEF q
  <2> QED
    BY <2>2, <2>3 DEF Owned, q
<1>4. ASSUME NEW n \in Institutional, HumanCreates(n), n # p
      PROVE  policy'[p] = policy[p]
  BY <1>0, <1>4 DEF HumanCreates, Typed, TypeOK
<1> QED
  BY <1>1, <1>2, <1>3, <1>4, PolicyStep

LEMMA DocPreserved ==
  ASSUME Typed, OwnedInv, DocInv, [Next]_vars
  PROVE  DocInv'
<1> SUFFICES ASSUME NEW v \in Vends, NEW p \in PolicySet(v), Agreed(p)
             PROVE  /\ p \in Ensured(v)' => Carries(p, Compiled[v][p])'
                    /\ pc'[v] \in {"create", "adopt"} /\ p = Name(v)' /\ Owned(p)'
                         => Carries(p, Compiled[v][p])'
  BY DEF DocInv, PolicySet, Agreed
<1>0. p \in Names /\ \A q \in Names : Owned(q) => Owned(q)'
  BY NameTyped, PoliciesKept DEF PolicySet, Kept
<1>1. ASSUME p \in Ensured(v)
      PROVE  Carries(p, Compiled[v][p])'
  BY <1>0, <1>1, DocumentKept DEF DocInv, OwnedInv
<1>2. CASE Stop(v) \/ (pc'[v] = pc[v] /\ i'[v] = i[v])
  BY <1>1, <1>2, EnsuredElsewhere, DocumentKept DEF DocInv
<1>3. CASE VendStep(v) /\ pc[v] \notin ContentPhase
  BY <1>1, <1>3, EnsuredLater DEF DocInv
<1>4. CASE VendStep(v) /\ pc[v] \in ContentPhase
  <2>0. pc[v] \in VendLive
    BY <1>4 DEF VendLive, ContentPhase
  <2>1. CASE NextContent(v)
    <3>1. ASSUME p = Name(v)
          PROVE  Carries(p, Compiled[v][p])'
      <4>1. CASE Write(v)
        BY <1>0, <2>0, <3>1, <4>1, Written
      <4>2. CASE UNCHANGED policy /\ Carries(Name(v), Compiled[v][Name(v)])
        BY <3>1, <4>2 DEF Carries
      <4>3. CASE UNCHANGED policy /\ Owned(Name(v)) /\ pc[v] = "adopt"
        BY <3>1, <4>3 DEF DocInv, Carries
      <4>4. ~Goto(v, "failed") /\ ~Goto(v, "create") /\ ~Goto(v, "update") /\ ~Goto(v, "adopt")
        BY <1>4, <2>1, NextEnsured, ParametersTyped DEF Goto, Typed, TypeOK, Runs
      <4> QED
        BY <1>4, <4>1, <4>2, <4>3, <4>4, ContentStep
    <3> QED
      BY <1>1, <1>4, <2>1, <3>1, NextEnsured
  <2>2. ASSUME NEW l \in {"failed", "create", "update", "adopt"}, Goto(v, l), UNCHANGED i
        PROVE  /\ pc'[v] = l /\ Name(v)' = Name(v) /\ Ensured(v)' \subseteq Ensured(v)
    BY <1>4, <2>2, ParametersTyped DEF Goto, Ensured, ContentPhase, Name, Typed, TypeOK, Runs
  <2>3. CASE (Goto(v, "failed") \/ Goto(v, "update")) /\ UNCHANGED i
    BY <1>1, <2>2, <2>3
  <2>4. CASE Goto(v, "create") /\ Absent(Name(v)) /\ UNCHANGED <<policy, i>>
    BY <1>1, <2>2, <2>4 DEF Absent, Owned
  <2>5. CASE Goto(v, "adopt") /\ pc[v] = "create" /\ UNCHANGED <<policy, i>>
    BY <1>1, <2>2, <2>5 DEF DocInv, Owned, Carries
  <2> QED
    BY <1>4, <2>1, <2>3, <2>4, <2>5, ContentStep
<1> QED
  BY <1>2, <1>3, <1>4, VendTurn

\* CarriesWhatItCompiled: a vend that ended well leaves the documents it compiled,
\* wherever the vends agree on them, for any number of concurrent vends.
THEOREM DocumentsConverge == Spec => []CarriesWhatItCompiled
<1>1. Init => DocInv
  BY RunsDistinct DEF Init, DocInv, Ensured, ContentPhase, Runs
<1>2. Typed /\ OwnedInv /\ DocInv /\ [Next]_vars => DocInv'
  BY DocPreserved
<1>3. Typed /\ OwnedInv /\ DocInv => CarriesWhatItCompiled
  BY DEF OwnedInv, DocInv, CarriesWhatItCompiled, Ensured, ContentPhase
<1> QED
  BY <1>1, <1>2, <1>3, OwnedInvariance, PTL DEF Spec

-------------------------------------------------------------------------------
(* Vends and reclaims beside each other *)

\* What is attached exists, and the root carries none of automat's policies.
AttachedInv ==
  \A t \in Targets : \A p \in attached[t] : ~Absent(p) /\ (t = Root => ~Owned(p))

LEMMA AttachedPreserved ==
  ASSUME Typed, OwnedInv, AttachedInv, [Next]_vars
  PROVE  AttachedInv'
<1> SUFFICES ASSUME NEW t \in Targets, NEW p \in attached'[t]
             PROVE  ~Absent(p)' /\ (t = Root => ~Owned(p)')
  BY DEF AttachedInv
<1>0. attached[t] \subseteq Names /\ \A q \in Names : Kept(q)
  BY PoliciesKept DEF Typed, TypeOK
<1>1. CASE p \in attached[t]
  BY <1>0, <1>1 DEF AttachedInv, Kept, Owned
<1>2. ASSUME NEW v \in Vends, attached' = [attached EXCEPT ![OUOf[v]] = @ \cup {Name(v)}],
             Owned(Name(v)), AttachPolicy(v), p \notin attached[t]
      PROVE  ~Absent(p)' /\ t # Root
  <2>1. p = Name(v) /\ t = OUOf[v]
    BY <1>2 DEF Typed, TypeOK
  <2>2. p \in Names
    BY <1>2, <2>1, NameTyped DEF AttachPolicy, Typed, InBounds, VendLive, Name
  <2>3. Owned(p)
    BY <1>2, <2>1
  <2>4. ~Absent(p)'
    BY <1>0, <2>2, <2>3 DEF Kept, Owned, Absent
  <2> QED
    BY <2>1, <2>4, RunsDistinct, ParametersTyped
<1>3. ASSUME NEW r \in Reclaims, DetachPolicy(r)
      PROVE  p \in attached[t]
  BY <1>3 DEF DetachPolicy, Typed, TypeOK
<1>4. ASSUME NEW n \in Institutional, NEW u \in Targets, HumanAttaches(n, u), p \notin attached[t]
      PROVE  ~Absent(p)' /\ ~Owned(p)'
  <2>1. p = n /\ UNCHANGED policy
    BY <1>4 DEF HumanAttaches, Typed, TypeOK
  <2> QED
    BY <1>4, <2>1 DEF HumanAttaches, Absent, Owned
<1> QED
  BY <1>1, <1>2, <1>3, <1>4, AttachmentStep

\* A reclaim is at work from its first step.
LEMMA ReclaimEnters ==
  ASSUME Typed, [Next]_vars, NEW r \in Reclaims, pc'[r] \in ReclaimLive
  PROVE  pc[r] \in ReclaimLive \/ Target(r)
BY ReclaimTurn DEF ReclaimStep, List, Siblings, DetachPolicy, CloseAccount, Stop, Goto,
   ReclaimLive, Typed, TypeOK, Runs

\* Who moves accounts, takes charge of them, and closes them.
LEMMA AccountStep ==
  ASSUME Typed, [Next]_vars, NEW a \in Accounts
  PROVE  /\ \/ parent'[a] = parent[a] /\ holder'[a] = holder[a]
            \/ \E v \in Vends : Place(v) /\ Of[v] = a /\ holder'[a] = v /\ parent'[a] = OUOf[v]
            \/ \E r \in Reclaims : Target(r) /\ holder'[a] = r /\ parent'[a] = parent[a]
            \/ parent'[a] = Root /\ holder'[a] = holder[a]
         /\ status'[a] = "active" => status[a] = "active"
<1> USE RunsDistinct, ParametersTyped DEF Typed, TypeOK, Runs
<1>1. ASSUME NEW v \in Vends, VendStep(v)
      PROVE  /\ \/ parent'[a] = parent[a] /\ holder'[a] = holder[a]
                \/ Place(v) /\ Of[v] = a /\ holder'[a] = v /\ parent'[a] = OUOf[v]
             /\ status' = status
  BY <1>1 DEF VendStep, Place, ReadPolicy, CreatePolicy, Adopt, UpdatePolicy, ReadAttached,
              AttachPolicy, org
<1>2. ASSUME NEW r \in Reclaims, ReclaimStep(r)
      PROVE  /\ \/ parent'[a] = parent[a] /\ holder'[a] = holder[a]
                \/ Target(r) /\ holder'[a] = r /\ parent'[a] = parent[a]
             /\ status'[a] = "active" => status[a] = "active"
  BY <1>2 DEF ReclaimStep, Target, List, Siblings, DetachPolicy, CloseAccount, org
<1>3. ASSUME NEW r \in Unlucky, Stop(r)
      PROVE  UNCHANGED <<parent, holder, status>>
  BY <1>3 DEF Stop, org
<1>4. ASSUME \/ \E b \in Accounts : Suspend(b)
             \/ \E p \in Institutional : HumanCreates(p) \/ \E t \in Targets : HumanAttaches(p, t)
             \/ \E b \in Movable : HumanMoves(b)
             \/ UNCHANGED vars
      PROVE  /\ parent'[a] \in {parent[a], Root} /\ holder'[a] = holder[a]
             /\ status'[a] = "active" => status[a] = "active"
  BY <1>4 DEF Suspend, HumanCreates, HumanAttaches, HumanMoves, vars, org
<1> QED
  BY <1>1, <1>2, <1>3, <1>4 DEF Next

\* Which accounts a reclaim has overlooked changes only when one of them is placed.
LEMMA LateStep ==
  ASSUME Typed, [Next]_vars, NEW a \in Accounts, NEW r \in Reclaims
  PROVE  \/ a \in late'[r] <=> a \in late[r]
         \/ \E v \in Vends : Place(v) /\ Of[v] = a /\ (a \in late'[r] <=> Overlooks(r, v))
<1>1. ASSUME NEW v \in Vends, Place(v)
      PROVE  IF Of[v] = a THEN a \in late'[r] <=> Overlooks(r, v)
                          ELSE a \in late'[r] <=> a \in late[r]
  BY <1>1 DEF Place
<1>2. ASSUME NEW v \in Vends, VendStep(v), ~Place(v)
      PROVE  UNCHANGED late
  BY <1>2 DEF VendStep, ReadPolicy, CreatePolicy, Adopt, UpdatePolicy, ReadAttached, AttachPolicy
<1>3. ASSUME NEW s \in Reclaims, ReclaimStep(s)
      PROVE  UNCHANGED late
  BY <1>3 DEF ReclaimStep, Target, List, Siblings, DetachPolicy, CloseAccount
<1>4. ASSUME \/ \E s \in Unlucky : Stop(s)
             \/ \E b \in Accounts : Suspend(b)
             \/ \E p \in Institutional : HumanCreates(p) \/ \E t \in Targets : HumanAttaches(p, t)
             \/ \E b \in Movable : HumanMoves(b)
             \/ UNCHANGED vars
      PROVE  UNCHANGED late
  BY <1>4 DEF Stop, Suspend, HumanCreates, HumanAttaches, HumanMoves, vars
<1> QED
  BY <1>1, <1>2, <1>3, <1>4 DEF Next

\* What of automat's comes to be attached at the target of a reclaim that has listed
\* it was put there by a vend, and is remembered unless the reclaim detaches it.
LEMMA PutStep ==
  ASSUME Typed, OwnedInv, AttachedInv, [Next]_vars, NEW r \in Reclaims,
         pc[r] \in {"siblings", "detach", "close"}, ~DetachPolicy(r)
  PROVE  \/ /\ OwnedAt(target[r])' \subseteq OwnedAt(target[r]) \cup put'[r]
            /\ put[r] \subseteq put'[r]
         \/ target'[r] # target[r]
<1> USE RunsDistinct, ParametersTyped
<1> SUFFICES ASSUME target'[r] = target[r]
             PROVE  OwnedAt(target[r])' \subseteq OwnedAt(target[r]) \cup put'[r]
                    /\ put[r] \subseteq put'[r]
  OBVIOUS
<1> DEFINE t == target[r]
<1>0. /\ t \in Targets /\ attached[t] \subseteq Names
      /\ \A p \in attached[t] : Owned(p)' => Owned(p)
      /\ OwnedAt(target[r])' = {p \in attached'[t] : Owned(p)'}
      /\ OwnedAt(target[r]) = {p \in attached[t] : Owned(p)}
  BY PoliciesKept DEF Typed, TypeOK, Kept, AttachedInv, Owned, OwnedAt
<1>1. ASSUME NEW v \in Vends, VendStep(v)
      PROVE  /\ put[r] \subseteq put'[r]
             /\ attached'[t] \subseteq attached[t] \cup put'[r]
  <2>1. CASE AttachPolicy(v) /\ attached' # attached
    <3>1. /\ attached' = [attached EXCEPT ![OUOf[v]] = @ \cup {Name(v)}]
          /\ put' = [s \in Reclaims |->
                       IF target[s] = OUOf[v] /\ pc[s] \in {"siblings", "detach", "close"}
                         THEN put[s] \cup {Name(v)} ELSE put[s]]
      BY <2>1 DEF AttachPolicy
    <3>2. CASE t = OUOf[v]
      BY <1>0, <3>1, <3>2 DEF Typed, TypeOK
    <3>3. CASE t # OUOf[v]
      BY <1>0, <3>1, <3>3 DEF Typed, TypeOK
    <3> QED
      BY <3>2, <3>3
  <2>2. CASE ~(AttachPolicy(v) /\ attached' # attached)
    <3>1. attached' = attached
      BY <1>1, <2>2 DEF VendStep, Place, ReadPolicy, CreatePolicy, Adopt, UpdatePolicy,
         ReadAttached, org
    <3>2. put[r] \subseteq put'[r]
      BY <1>1 DEF VendStep, Place, ReadPolicy, CreatePolicy, Adopt, UpdatePolicy,
         ReadAttached, AttachPolicy, Typed, TypeOK
    <3> QED
      BY <3>1, <3>2
  <2> QED
    BY <2>1, <2>2
<1>2. ASSUME NEW s \in Reclaims, ReclaimStep(s)
      PROVE  put'[r] = put[r] /\ attached'[t] \subseteq attached[t]
  <2>1. CASE DetachPolicy(s)
    <3>1. PICK p \in todo[s] : /\ attached' = [attached EXCEPT ![target[s]] = @ \ {p}]
                              /\ put' = [put EXCEPT ![s] = @ \ {p}]
      BY <2>1 DEF DetachPolicy
    <3>2. s # r
      BY <2>1
    <3> QED
      BY <1>0, <3>1, <3>2 DEF Typed, TypeOK
  <2>2. CASE ~DetachPolicy(s)
    BY <1>2, <2>2 DEF ReclaimStep, Target, List, Siblings, CloseAccount, org
  <2> QED
    BY <2>1, <2>2
<1>3. ASSUME NEW n \in Institutional, NEW u \in Targets, HumanAttaches(n, u)
      PROVE  /\ put' = put
             /\ \A p \in attached'[t] \ attached[t] : ~Owned(p)'
  BY <1>0, <1>3 DEF HumanAttaches, Typed, TypeOK, Owned
<1>4. ASSUME \/ \E s \in Unlucky : Stop(s)
             \/ \E b \in Accounts : Suspend(b)
             \/ \E p \in Institutional : HumanCreates(p)
             \/ \E b \in Movable : HumanMoves(b)
             \/ UNCHANGED vars
      PROVE  UNCHANGED <<put, attached>>
  BY <1>4 DEF Stop, Suspend, HumanCreates, HumanMoves, vars, org
<1> QED
  BY <1>0, <1>1, <1>2, <1>3, <1>4 DEF Next

\* A reclaim at work: before the detach it has listed what of automat's is attached,
\* at an OU, but for what vends attach after it; when it detaches, every other active
\* account there is one it overlooked; when it closes the account without having
\* spared anybody, what is left is what vends attached.
ReclaimInv ==
  \A r \in Reclaims :
    /\ pc[r] \in {"siblings", "detach"} =>
         target[r] \in OUs /\ OwnedAt(target[r]) \subseteq todo[r] \cup put[r]
    /\ pc[r] = "detach" =>
         \A a \in Accounts \ {Of[r]} :
           parent[a] = target[r] /\ status[a] = "active" => a \in late[r]
    /\ pc[r] = "close" /\ ~shared[r] => OwnedAt(target[r]) \subseteq put[r]

\* The other active accounts at the target of a reclaim that is to detach.
LEMMA SiblingsKnown ==
  ASSUME Typed, ReclaimInv, [Next]_vars, NEW r \in Reclaims, pc'[r] = "detach",
         NEW a \in Accounts \ {Of[r]}, parent'[a] = target'[r], status'[a] = "active"
  PROVE  a \in late'[r]
<1> USE RunsDistinct, ParametersTyped
<1>0. r \in Runs /\ r \notin Vends /\ Of[r] \in Accounts
  BY DEF Runs
<1>1. /\ pc[r] \in {"siblings", "detach"} /\ target'[r] = target[r] /\ target[r] \in OUs
      /\ pc[r] = "siblings" => Siblings(r) /\ ActiveSiblings(r) = {}
  BY <1>0, ReclaimTurn DEF ReclaimStep, Target, List, Siblings, DetachPolicy, CloseAccount, Stop,
     Goto, Typed, TypeOK, ReclaimInv
<1>2. CASE pc[r] = "siblings"
  <2>1. parent' = parent /\ status' = status
    BY <1>1, <1>2 DEF Siblings, org
  <2> QED
    BY <1>1, <1>2, <2>1 DEF ActiveSiblings, ReadsActive
<1>3. CASE pc[r] = "detach"
  <2>1. CASE \E v \in Vends : Place(v) /\ Of[v] = a
    <3>1. PICK v \in Vends : Place(v) /\ Of[v] = a
      BY <2>1
    <3>2. OUOf[v] = target[r]
      BY <1>1, <3>1 DEF Place, Typed, TypeOK
    <3> QED
      BY <1>3, <3>1, <3>2 DEF Place, Overlooks
  <2>2. CASE ~\E v \in Vends : Place(v) /\ Of[v] = a
    <3>1. parent[a] = target[r] /\ status[a] = "active"
      BY <1>1, <2>2, AccountStep
    <3>2. a \in late[r]
      BY <1>3, <3>1 DEF ReclaimInv
    <3> QED
      BY <2>2, <3>2, LateStep
  <2> QED
    BY <2>1, <2>2
<1> QED
  BY <1>1, <1>2, <1>3

LEMMA ReclaimPreserved ==
  ASSUME Typed, OwnedInv, AttachedInv, ReclaimInv, [Next]_vars, NEW r \in Reclaims
  PROVE  /\ pc'[r] \in {"siblings", "detach"} =>
              target'[r] \in OUs /\ OwnedAt(target[r])' \subseteq todo'[r] \cup put'[r]
         /\ pc'[r] = "close" /\ ~shared'[r] => OwnedAt(target[r])' \subseteq put'[r]
<1> USE RunsDistinct, ParametersTyped
<1>0. Of[r] \in Accounts /\ target[r] \in Targets /\ r \notin Vends /\ r \in Runs
  BY DEF Runs, Typed, TypeOK
<1>1. CASE pc[r] \in {"siblings", "detach", "close"} /\ ~DetachPolicy(r)
  <2>1. \/ pc[r] = "siblings" /\ target'[r] = target[r]
           /\ \/ pc'[r] = "close" /\ shared'[r] = TRUE
              \/ pc'[r] = "detach" /\ todo'[r] = todo[r]
        \/ pc'[r] \in {"done", "failed"}
        \/ /\ pc'[r] = pc[r] /\ target'[r] = target[r]
           /\ todo'[r] = todo[r] /\ shared'[r] = shared[r]
    BY <1>0, <1>1, ReclaimTurn DEF ReclaimStep, Target, List, Siblings, CloseAccount, Stop, Goto,
       Typed, TypeOK
  <2>2. target'[r] = target[r] => OwnedAt(target[r])' \subseteq OwnedAt(target[r]) \cup put'[r]
                                  /\ put[r] \subseteq put'[r]
    BY <1>1, PutStep
  <2> QED
    BY <2>1, <2>2 DEF ReclaimInv
<1>2. CASE DetachPolicy(r)
  <2>1. PICK p \in todo[r] :
          /\ attached' = [attached EXCEPT ![target[r]] = @ \ {p}]
          /\ todo' = [todo EXCEPT ![r] = @ \ {p}]
          /\ put' = [put EXCEPT ![r] = @ \ {p}]
          /\ Goto(r, IF todo[r] = {p} THEN "close" ELSE "detach")
    BY <1>2 DEF DetachPolicy
  <2>2. /\ pc[r] = "detach" /\ target'[r] = target[r]
        /\ attached'[target[r]] = attached[target[r]] \ {p}
        /\ todo'[r] = todo[r] \ {p} /\ put'[r] = put[r] \ {p}
        /\ pc'[r] = IF todo[r] = {p} THEN "close" ELSE "detach"
    BY <1>0, <1>2, <2>1 DEF DetachPolicy, Goto, Typed, TypeOK
  <2>3. OwnedAt(target[r])' = OwnedAt(target[r]) \ {p}
    BY <1>2, <2>2 DEF DetachPolicy, OwnedAt, Owned
  <2> QED
    BY <2>2, <2>3 DEF ReclaimInv
<1>3. CASE List(r)
  <2>1. /\ target'[r] = target[r] /\ todo'[r] = OwnedAt(target[r])
        /\ pc'[r] = IF OwnedAt(target[r]) = {} THEN "close" ELSE "siblings"
    BY <1>0, <1>3 DEF List, Goto, Typed, TypeOK
  <2>2. OwnedAt(target[r])' = OwnedAt(target[r])
    BY <1>3, <2>1 DEF List, org, OwnedAt, Owned
  <2>3. OwnedAt(target[r]) # {} => target[r] \in OUs
    BY <1>0 DEF AttachedInv, OwnedAt, Targets
  <2> QED
    BY <2>1, <2>2, <2>3
<1>4. CASE pc[r] \notin {"siblings", "detach", "close"} /\ ~List(r)
  BY <1>0, <1>4, ReclaimTurn DEF ReclaimStep, Target, Siblings, DetachPolicy, CloseAccount, Stop,
     Goto, Typed, TypeOK
<1>5. List(r) => pc[r] = "list"
  BY DEF List
<1> QED
  BY <1>1, <1>2, <1>3, <1>4, <1>5

\* An active account in a vend's charge, where the vend placed it.
InCharge(v) ==
  holder[Of[v]] = v /\ parent[Of[v]] = OUOf[v] /\ status[Of[v]] = "active"

\* A reclaim of an account a vend took charge of after it began overlooked it.
ChargeInv ==
  \A v \in Vends, r \in Reclaims :
    /\ InCharge(v) /\ Of[r] = Of[v]
    /\ pc[r] \in {"list", "siblings", "detach"} /\ target[r] = OUOf[v]
    => Of[v] \in late[r]

\* A vend that has just placed its account, or had charge of it before.
LEMMA ChargeStep ==
  ASSUME Typed, [Next]_vars, NEW v \in Vends, InCharge(v)', ~Place(v)
  PROVE  /\ InCharge(v)
         /\ \A r \in Reclaims : Of[v] \in late'[r] <=> Of[v] \in late[r]
         /\ \A r \in Reclaims : Target(r) => Of[r] # Of[v]
<1> USE RunsDistinct, ParametersTyped
<1>0. Of[v] \in Accounts /\ OUOf[v] # Root /\ v \notin Reclaims /\ v \in Runs
  BY DEF Runs
<1>1. ASSUME NEW w \in Vends, Place(w)
      PROVE  Of[w] # Of[v]
  <2>1. w # v /\ holder'[Of[v]] = v /\ v \in Runs /\ w \in Runs
    BY <1>1 DEF InCharge, Runs
  <2>2. holder' = [holder EXCEPT ![Of[w]] = w]
    BY <1>1 DEF Place
  <2> QED
    BY <1>0, <2>1, <2>2 DEF Typed, TypeOK
<1>2. ASSUME NEW r \in Reclaims, Target(r)
      PROVE  Of[r] # Of[v]
  BY <1>0, <1>2 DEF Target, InCharge, Typed, TypeOK
<1>3. holder[Of[v]] = v /\ parent[Of[v]] = OUOf[v] /\ status[Of[v]] = "active"
  BY <1>0, <1>1, AccountStep DEF InCharge
<1>4. \A r \in Reclaims : Of[v] \in late'[r] <=> Of[v] \in late[r]
  BY <1>0, <1>1, LateStep
<1> QED
  BY <1>2, <1>3, <1>4 DEF InCharge

LEMMA ChargePreserved ==
  ASSUME Typed, ChargeInv, [Next]_vars
  PROVE  ChargeInv'
<1> USE RunsDistinct, ParametersTyped
<1> SUFFICES ASSUME NEW v \in Vends, NEW r \in Reclaims, InCharge(v)', Of[r] = Of[v],
                    pc'[r] \in {"list", "siblings", "detach"}, target'[r] = OUOf[v]
             PROVE  Of[v] \in late'[r]
  BY DEF ChargeInv
<1>0. v \in Runs /\ r \in Runs /\ v # r /\ v \notin Reclaims /\ Of[v] \in Accounts
  BY DEF Runs
<1>1. CASE Place(v)
  <2>1. pc[r] \in {"list", "siblings", "detach"} /\ target[r] = OUOf[v]
    BY <1>0, <1>1 DEF Place, Goto, Typed, TypeOK
  <2> QED
    BY <1>1, <2>1 DEF Place, Overlooks
<1>2. CASE ~Place(v)
  <2>1. ~Target(r)
    BY <1>2, ChargeStep
  <2>2. pc[r] \in {"list", "siblings", "detach"} /\ target[r] = OUOf[v]
    BY <1>0, <2>1, ReclaimTurn DEF ReclaimStep, List, Siblings, DetachPolicy, CloseAccount, Stop,
       Goto, Typed, TypeOK
  <2> QED
    BY <1>2, <2>2, ChargeStep DEF ChargeInv
<1> QED
  BY <1>1, <1>2

\* An account in a vend's charge that no reclaim overlooked.
Guarded(v) == InCharge(v) /\ \A r \in Reclaims : Of[v] \notin late[r]

\* What is attached to a target leaves it only by the detach of a reclaim there.
LEMMA AttachmentsStay ==
  ASSUME Typed, OwnedInv, [Next]_vars, NEW t \in Targets
  PROVE  \/ attached[t] \subseteq attached'[t]
         \/ \E r \in Reclaims : pc[r] = "detach" /\ target[r] = t
<1>1. ASSUME NEW v \in Vends, attached' = [attached EXCEPT ![OUOf[v]] = @ \cup {Name(v)}]
      PROVE  attached[t] \subseteq attached'[t]
  BY <1>1 DEF Typed, TypeOK
<1>2. ASSUME NEW r \in Reclaims, DetachPolicy(r), target[r] # t
      PROVE  attached[t] \subseteq attached'[t]
  BY <1>2 DEF DetachPolicy, Typed, TypeOK
<1>3. ASSUME NEW n \in Institutional, NEW u \in Targets, HumanAttaches(n, u)
      PROVE  attached[t] \subseteq attached'[t]
  BY <1>3 DEF HumanAttaches, Typed, TypeOK
<1>4. \A r \in Reclaims : DetachPolicy(r) => pc[r] = "detach"
  BY DEF DetachPolicy
<1> QED
  BY <1>1, <1>2, <1>3, <1>4, AttachmentStep

\* No policy leaves the OU of a guarded account: a reclaim that detaches there would
\* have overlooked it.
LEMMA GuardedKeeps ==
  ASSUME Typed, OwnedInv, ReclaimInv, ChargeInv, [Next]_vars, NEW v \in Vends,
         Guarded(v)', ~Place(v)
  PROVE  Guarded(v) /\ attached[OUOf[v]] \subseteq attached'[OUOf[v]]
<1>0. Of[v] \in Accounts /\ OUOf[v] \in Targets
  BY ParametersTyped DEF Targets, Runs
<1>1. Guarded(v)
  BY ChargeStep DEF Guarded, InCharge
<1>2. ASSUME NEW r \in Reclaims, pc[r] = "detach", target[r] = OUOf[v]
      PROVE  FALSE
  <2>1. CASE Of[r] = Of[v]
    BY <1>1, <1>2, <2>1 DEF ChargeInv, Guarded
  <2>2. CASE Of[r] # Of[v]
    BY <1>0, <1>1, <1>2, <2>2 DEF ReclaimInv, Guarded, InCharge
  <2> QED
    BY <2>1, <2>2
<1> QED
  BY <1>0, <1>1, <1>2, AttachmentsStay

\* A vend at the attachments, its account guarded: those before its place in the set
\* are made.
VendInv ==
  \A v \in Vends : pc[v] \in {"attachments", "attach"} /\ Guarded(v) =>
    \A j \in 1..(i[v] - 1) : Specs[v][j] \in attached[OUOf[v]]

\* A vend moves past an attachment when it is made.
LEMMA AttachmentTurn ==
  ASSUME Typed, NEW v \in Vends, pc[v] \in {"attachments", "attach"}, VendStep(v)
  PROVE  \/ Goto(v, "attach") /\ UNCHANGED i
         \/ Goto(v, "full") /\ UNCHANGED i
         \/ NextAttachment(v) /\ Name(v) \in attached'[OUOf[v]]
<1>1. OUOf[v] \in Targets
  BY ParametersTyped DEF Targets
<1>2. ASSUME ReadAttached(v)
      PROVE  \/ Goto(v, "attach") /\ UNCHANGED i
             \/ NextAttachment(v) /\ Name(v) \in attached'[OUOf[v]]
  BY <1>2 DEF ReadAttached, org
<1>3. ASSUME AttachPolicy(v)
      PROVE  \/ Goto(v, "full") /\ UNCHANGED i
             \/ NextAttachment(v) /\ Name(v) \in attached'[OUOf[v]]
  <2>1. CASE attached' = [attached EXCEPT ![OUOf[v]] = @ \cup {Name(v)}] /\ NextAttachment(v)
    BY <1>1, <2>1 DEF Typed, TypeOK
  <2> QED
    BY <1>3, <2>1 DEF AttachPolicy
<1> QED
  BY <1>2, <1>3 DEF VendStep, Place, ReadPolicy, CreatePolicy, Adopt, UpdatePolicy

\* What is attached when a vend moves on: everything before where it gets to, and
\* its whole set when it ends.
LEMMA MovedOn ==
  ASSUME Typed, OwnedInv, ReclaimInv, ChargeInv, VendInv, [Next]_vars,
         NEW v \in Vends, pc[v] \in {"attachments", "attach"}, Guarded(v)',
         NextAttachment(v), Name(v) \in attached'[OUOf[v]]
  PROVE  /\ pc'[v] \in {"attachments", "attach"} =>
              \A j \in 1..(i'[v] - 1) : Specs[v][j] \in attached'[OUOf[v]]
         /\ pc'[v] = "done" => PolicySet(v) \subseteq attached'[OUOf[v]]
<1>1. pc[v] \in VendLive /\ OUOf[v] \in Targets /\ v \in Runs /\ ~Place(v)
  BY ParametersTyped DEF VendLive, Targets, Runs, Place
<1>2. Guarded(v) /\ attached[OUOf[v]] \subseteq attached'[OUOf[v]]
  BY <1>1, GuardedKeeps
<1>3. PICK l \in {"attachments", "done"}, j \in 1..Len(Specs[v]) :
        /\ pc' = [pc EXCEPT ![v] = l] /\ i' = [i EXCEPT ![v] = j]
        /\ \/ l = "attachments" /\ j = i[v] + 1
           \/ l = "done" /\ j = i[v] /\ i[v] = Len(Specs[v])
  BY <1>1, NextAttachmentTyped
<1>4. pc'[v] = l /\ i'[v] = j /\ i[v] \in 1..Len(Specs[v]) /\ Len(Specs[v]) \in Nat
  BY <1>1, <1>3, ParametersTyped DEF Typed, TypeOK, InBounds
<1>5. \A k \in 1..i[v] : Specs[v][k] \in attached'[OUOf[v]]
  <2> TAKE k \in 1..i[v]
  <2>1. k = i[v] \/ k \in 1..(i[v] - 1)
    BY <1>4
  <2> QED
    BY <1>2, <2>1 DEF VendInv, Name
<1> QED
  BY <1>3, <1>4, <1>5 DEF PolicySet

LEMMA VendPreserved ==
  ASSUME Typed, OwnedInv, ReclaimInv, ChargeInv, VendInv, [Next]_vars
  PROVE  VendInv'
<1> SUFFICES ASSUME NEW v \in Vends, pc'[v] \in {"attachments", "attach"}, Guarded(v)'
             PROVE  \A j \in 1..(i'[v] - 1) : Specs[v][j] \in attached'[OUOf[v]]
  BY DEF VendInv
<1>0. v \in Runs /\ OUOf[v] \in Targets /\ ~Place(v)
  BY ParametersTyped DEF Runs, Targets, Place, Goto, Typed, TypeOK
<1>1. ASSUME pc[v] \in {"attachments", "attach"}, i'[v] = i[v]
      PROVE  \A j \in 1..(i'[v] - 1) : Specs[v][j] \in attached'[OUOf[v]]
  BY <1>0, <1>1, GuardedKeeps DEF VendInv
<1>2. CASE pc'[v] = pc[v] /\ i'[v] = i[v]
  BY <1>1, <1>2
<1>3. CASE VendStep(v) /\ pc[v] \in {"attachments", "attach"}
  <2>1. CASE Goto(v, "attach") /\ UNCHANGED i
    BY <1>1, <1>3, <2>1
  <2>2. CASE Goto(v, "full")
    BY <1>0, <2>2 DEF Goto, Typed, TypeOK
  <2> QED
    BY <1>3, <2>1, <2>2, AttachmentTurn, MovedOn
<1>4. CASE VendStep(v) /\ pc[v] \in ContentPhase
  <2>1. CASE NextContent(v)
    <3>1. PICK l \in {"content", "attachments"}, j \in 1..Len(Specs[v]) :
            /\ pc' = [pc EXCEPT ![v] = l] /\ i' = [i EXCEPT ![v] = j]
            /\ \/ l = "content" /\ j = i[v] + 1
               \/ l = "attachments" /\ j = 1 /\ i[v] = Len(Specs[v])
      BY <1>4, <2>1, NextContentTyped DEF ContentPhase, VendLive
    <3>2. pc'[v] = l /\ i'[v] = j
      BY <1>0, <3>1 DEF Typed, TypeOK
    <3>3. i'[v] = 1
      BY <3>1, <3>2
    <3> QED
      BY <3>3
  <2>2. ASSUME NEW l \in {"failed", "create", "update", "adopt"}
        PROVE  ~Goto(v, l)
    BY <1>0 DEF Goto, Typed, TypeOK
  <2> QED
    BY <1>4, <2>1, <2>2, ContentStep
<1>5. ~Stop(v)
  BY <1>0 DEF Stop, Goto, Typed, TypeOK
<1>6. VendStep(v) => pc[v] \in ContentPhase \cup {"attachments", "attach"}
  BY <1>0 DEF VendStep, ReadPolicy, CreatePolicy, Adopt, UpdatePolicy, ReadAttached, AttachPolicy,
     ContentPhase
<1> QED
  BY <1>2, <1>3, <1>4, <1>5, <1>6, VendTurn

\* A guarded account stays governed.
LEMMA GovernedPreserved ==
  ASSUME Typed, OwnedInv, ReclaimInv, ChargeInv, VendInv, Governed, [Next]_vars
  PROVE  Governed'
<1> SUFFICES ASSUME NEW v \in Vends, pc'[v] = "done", Guarded(v)'
             PROVE  PolicySet(v) \subseteq attached'[OUOf[v]]
  BY DEF Governed, PolicySet, Guarded, InCharge
<1>0. v \in Runs /\ OUOf[v] \in Targets
  BY ParametersTyped DEF Runs, Targets
<1>1. CASE pc[v] = "done"
  <2>1. ~Place(v)
    BY <1>1 DEF Place
  <2>2. Guarded(v) /\ attached[OUOf[v]] \subseteq attached'[OUOf[v]]
    BY <2>1, GuardedKeeps
  <2>3. PolicySet(v) \subseteq attached[OUOf[v]]
    BY <1>1, <2>2 DEF Governed, Guarded, InCharge
  <2> QED
    BY <2>2, <2>3
<1>2. CASE VendStep(v) /\ pc[v] \in {"attachments", "attach"}
  BY <1>0, <1>2, AttachmentTurn, MovedOn DEF Goto, Typed, TypeOK
<1>3. CASE VendStep(v) /\ pc[v] \in ContentPhase
  <2>1. ~NextContent(v)
    BY <1>3, NextEnsured
  <2>2. ASSUME NEW l \in {"failed", "create", "update", "adopt"}
        PROVE  ~Goto(v, l)
    BY <1>0 DEF Goto, Typed, TypeOK
  <2> QED
    BY <1>3, <2>1, <2>2, ContentStep
<1>4. CASE Place(v)
  <2>1. Specs[v] = <<>>
    BY <1>0, <1>4 DEF Place, Goto, Typed, TypeOK
  <2>2. PolicySet(v) = {}
    BY <2>1 DEF PolicySet
  <2> QED
    BY <2>2
<1>5. ~Stop(v)
  BY <1>0 DEF Stop, Goto, Typed, TypeOK
<1>6. VendStep(v) => Place(v) \/ pc[v] \in ContentPhase \cup {"attachments", "attach"}
  BY DEF VendStep, ReadPolicy, CreatePolicy, Adopt, UpdatePolicy, ReadAttached, AttachPolicy,
     ContentPhase
<1> QED
  BY <1>1, <1>2, <1>3, <1>4, <1>5, <1>6, VendTurn

\* The invariant of an organization where vends and reclaims run beside each other.
BesideInv ==
  Typed /\ OwnedInv /\ AttachedInv /\ ReclaimInv /\ ChargeInv /\ VendInv /\ Governed

THEOREM BesideInvariance == Spec => []BesideInv
<1>1. ASSUME Init
      PROVE  AttachedInv /\ ReclaimInv /\ ChargeInv /\ VendInv /\ Governed
  <2>1. \A r \in Runs : pc[r] = "begin"
    BY <1>1 DEF Init
  <2>2. (\A v \in Vends : pc[v] = "begin") /\ (\A r \in Reclaims : pc[r] = "begin")
    BY <2>1 DEF Runs
  <2>3. AttachedInv
    BY <1>1 DEF Init, AttachedInv
  <2> QED
    BY <2>2, <2>3 DEF ReclaimInv, ChargeInv, VendInv, Governed
<1>2. ASSUME BesideInv, [Next]_vars
      PROVE  BesideInv'
  <2>1. Typed' /\ OwnedInv' /\ AttachedInv' /\ ChargeInv' /\ VendInv' /\ Governed'
    BY <1>2, TypePreserved, OwnedPreserved, AttachedPreserved, ChargePreserved, VendPreserved,
       GovernedPreserved DEF BesideInv
  <2>2. ReclaimInv'
    <3> SUFFICES ASSUME NEW r \in Reclaims
                 PROVE  /\ pc'[r] \in {"siblings", "detach"} =>
                             /\ target'[r] \in OUs
                             /\ OwnedAt(target[r])' \subseteq todo'[r] \cup put'[r]
                        /\ pc'[r] = "detach" =>
                             \A a \in Accounts \ {Of[r]} :
                               parent'[a] = target'[r] /\ status'[a] = "active" => a \in late'[r]
                        /\ pc'[r] = "close" /\ ~shared'[r] => OwnedAt(target[r])' \subseteq put'[r]
      BY DEF ReclaimInv
    <3> QED
      BY <1>2, ReclaimPreserved, SiblingsKnown DEF BesideInv
  <2> QED
    BY <2>1, <2>2 DEF BesideInv
<1>3. Init => Typed /\ OwnedInv
  <2>1. ASSUME Init
        PROVE  OwnedInv
    BY <2>1, RunsDistinct DEF Init, OwnedInv, Ensured, ContentPhase, Runs
  <2> QED
    BY <2>1, InitTyped
<1>4. Init => BesideInv
  BY <1>1, <1>3 DEF BesideInv
<1>5. BesideInv /\ [Next]_vars => BesideInv'
  BY <1>2
<1> QED
  BY <1>4, <1>5, PTL DEF Spec

\* Governed: whatever vends and reclaims run side by side, an account keeps the
\* policies it was vended with unless a reclaim at work in its OU overlooked it.
THEOREM GovernedBeside == Spec => []Governed
<1>1. BesideInv => Governed
  BY DEF BesideInv
<1> QED
  BY <1>1, BesideInvariance, PTL

\* BareBeforeClose: a reclaim that saw no sibling closes its account only when what
\* of automat's is attached to the target was attached by a vend beside it.
THEOREM DetachedBeforeClose == Spec => []BareBeforeClose
<1>1. BesideInv => BareBeforeClose
  BY DEF BesideInv, ReclaimInv, BareBeforeClose
<1> QED
  BY <1>1, BesideInvariance, PTL

\* OnlyLateSiblingsStripped: for any number of vends and reclaims under one OU, a
\* detach strips no other active account but one placed after the siblings were read.
THEOREM SiblingsKeepTheirPolicies == Spec => OnlyLateSiblingsStripped
<1> DEFINE Spared == \A r \in Reclaims, t \in Targets : Detaches(r, t) =>
       \A a \in Accounts \ {Of[r]} :
         parent[a] = t /\ status[a] = "active" => a \in late[r]
<1>1. ASSUME BesideInv, [Next]_vars
      PROVE  Spared
  <2> SUFFICES ASSUME NEW r \in Reclaims, NEW t \in Targets, attached'[t] # attached[t],
                      pc[r] = "detach", todo'[r] # todo[r]
               PROVE  \A a \in Accounts \ {Of[r]} :
                        parent[a] = t /\ status[a] = "active" => a \in late[r]
    BY DEF Detaches
  <2>1. DetachPolicy(r)
    BY <1>1, ReclaimTurn DEF ReclaimStep, Target, List, Siblings, CloseAccount, Stop, BesideInv
  <2>2. t = target[r]
    BY <1>1, <2>1 DEF DetachPolicy, BesideInv, Typed, TypeOK
  <2> QED
    BY <1>1, <2>2 DEF BesideInv, ReclaimInv
<1>2. ASSUME BesideInv, [Next]_vars
      PROVE  [Spared]_vars
  BY <1>1, <1>2
<1>3. OnlyLateSiblingsStripped <=> [][Spared]_vars
  BY PTL DEF OnlyLateSiblingsStripped
<1> QED
  BY <1>2, <1>3, BesideInvariance, PTL DEF Spec

=============================================================================
