------------------------------- MODULE OUTree -------------------------------
(***************************************************************************)
(* The organizational units of an organization, while vends resolve their  *)
(* destination (`resolveDestination`, `EnsureOUPath`), `automat list` walks *)
(* the tree, and people create, rename and delete OUs and move accounts.   *)
(* Nothing is locked: one step is one AWS call.  A list that comes in      *)
(* pages is one call here.                                                 *)
(*                                                                         *)
(* An OU is a number, in the order AWS made them; the root is 0.  An OU    *)
(* never changes its parent (AWS cannot move one), so its level is known   *)
(* when it is made.                                                        *)
(***************************************************************************)
EXTENDS Integers, Sequences, FiniteSets

CONSTANTS
  Vends, Lists,       \* invocations of `vend` and of `list`
  Accounts, Names,    \* the organization's accounts; the names OUs bear
  People,             \* whoever else makes OUs
  Found,              \* the trees a first command may find
  Inputs,             \* what a profile and its operator may ask of a vend
  Base,               \* the OU each list starts at
  Unlucky,            \* commands that may be denied a call or killed
  Creatable, Renamable, Deletable,  \* the names of OUs people make, rename, delete
  Moves,              \* the moves of accounts people may make: <<account, from, to>>
  MaxOUDepth,         \* levels of OU that AWS permits below the root
  MaxByPeople,        \* bound: OUs that people have made, the ones found included
  MaxCommands         \* bound: commands that are ever started

Root == 0

OU == [up : Nat, name : Names, level : Nat, live : BOOLEAN, by : Vends \cup {People}]

\* base, path: `in.OUID` and placement.ou_path, which a profile only has together
\* with create_intermediate_ous; blind: whether its ListParents may be answered with an
\* error, a denial or any other but that the OU does not exist.
Input == [base : Nat, path : Seq(Names) \ {<<>>}, blind : BOOLEAN]

\* A tree AWS keeps: parents come first and outlive their children, no deeper
\* than permitted, and siblings differ in name.
Legal(t) ==
  /\ t \in Seq(OU)
  /\ \A o \in DOMAIN t :
       /\ t[o].up < o
       /\ t[o].level = (IF t[o].up = Root THEN 0 ELSE t[t[o].up].level) + 1
       /\ t[o].level <= MaxOUDepth
       /\ t[o].live /\ t[o].up # Root => t[t[o].up].live
  /\ \A o, p \in DOMAIN t :
       t[o].live /\ t[p].live /\ t[o].up = t[p].up /\ t[o].name = t[p].name => o = p

ASSUME ParametersTyped ==
  /\ MaxOUDepth \in Nat /\ MaxByPeople \in Nat /\ MaxCommands \in Nat
  /\ People \notin Vends /\ Vends \cap Lists = {}
  /\ Creatable \subseteq Names /\ Renamable \subseteq Names /\ Deletable \subseteq Names
  /\ Unlucky \subseteq Vends \cup Lists
  /\ Inputs \subseteq Input /\ Base \in [Lists -> Nat]
  /\ \A m \in Moves : m \in Accounts \X Nat \X Nat /\ m[2] # m[3]

ASSUME FoundLegal ==
  \A t \in Found :
    /\ Legal(t)
    /\ \A o \in DOMAIN t : t[o].by = People
    /\ \A i \in Inputs : i.base \in 0..Len(t)
    /\ \A w \in Lists : Base[w] \in 0..Len(t)

VARIABLES
  ou,      \* the OUs AWS has made, in order
  parent,  \* where each account is
  input,   \* what each vend was asked
  pc,
  pass,    \* "plan" or "apply"
  climb,   \* where `depthOf` is, and the depth it has counted
  way,     \* the OUs the present pass has resolved, one per level of the path
  seen,    \* history: the OUs the plan found that nobody has touched since
  walk     \* `WalkTree`: this level's OUs still to read, the next level's, the
           \* one being read, the depth, what is listed; history: the accounts
           \* that have not moved meanwhile
vars == <<ou, parent, input, pc, pass, climb, way, seen, walk>>

Ids == DOMAIN ou
Containers == Ids \cup {Root}
Exists(c) == c = Root \/ (c \in Ids /\ ou[c].live)
Level(c) == IF c = Root THEN 0 ELSE ou[c].level
\* What a reader of the first page would take for all.
FirstPage(c) == {o \in Ids : /\ ou[o].live /\ ou[o].up = c
                             /\ ~\E p \in Ids : p < o /\ ou[p].live /\ ou[p].up = c}

Children(c) == {o \in Ids : ou[o].live /\ ou[o].up = c}

NamedAnywhere(c, n) == {o \in Ids : ou[o].live /\ ou[o].name = n}
Named(c, n) == {o \in Children(c) : ou[o].name = n}

\* AWS makes an OU: CreateOrganizationalUnit without an error.
Grown(c, n, who) ==
  Append(ou, [up |-> c, name |-> n, level |-> Level(c) + 1, live |-> TRUE, by |-> who])

-----------------------------------------------------------------------------
(* `resolveDestination` of one vend *)

Cur(e) == IF way[e] = <<>> THEN input[e].base ELSE way[e][Len(way[e])]
Name(e) == input[e].path[Len(way[e]) + 1]

\* The path does not fit below a parent of this depth.
OverflowsByTwo(e, depth) == depth + Len(input[e].path) > MaxOUDepth + 1
OverflowsWhenFull(e, depth) == depth + Len(input[e].path) >= MaxOUDepth
Overflows(e, depth) == depth + Len(input[e].path) > MaxOUDepth

\* The checks before the first call, and `depthOf` of the root, which needs none.
Entered(e) ==
  IF Overflows(e, 0) THEN "refused"
  ELSE IF input[e].base = Root THEN "find" ELSE "climb"

BottomUnknown(e) == [at |-> input[e].base, depth |-> -1]
Bottom(e) == [at |-> input[e].base, depth |-> 1]

Init ==
  /\ ou \in Found
  /\ parent \in [Accounts -> {c \in Containers : Exists(c)}]
  /\ input \in [Vends -> Inputs]
  /\ pc = [r \in Vends \cup Lists |-> "idle"]
  /\ pass = [e \in Vends |-> "plan"]
  /\ climb = [e \in Vends |-> Bottom(e)]
  /\ way = [e \in Vends |-> <<>>]
  /\ seen = [e \in Vends |-> {}]
  /\ walk = [w \in Lists |-> [front |-> {Base[w]}, below |-> {}, reading |-> Root, depth |-> 0,
                              listed |-> {}, calm |-> Accounts]]

Go(r, where) == pc[r] # where /\ pc' = [pc EXCEPT ![r] = where]

\* Somebody starts a command.
Starts(r, where) ==
  /\ pc[r] = "idle" /\ Go(r, where)
  /\ Cardinality({s \in Vends \cup Lists : pc[s] # "idle"}) < MaxCommands

Begin(e) ==
  /\ Starts(e, Entered(e))
  /\ UNCHANGED <<ou, parent, input, pass, climb, way, seen, walk>>

\* One ListParents.  The loop's own end is not reached in a tree AWS keeps.
Climb(e) ==
  /\ pc[e] = "climb"
  /\ LET at == climb[e].at  depth == climb[e].depth IN
     \/ ~Exists(at) /\ Go(e, "failed") /\ UNCHANGED climb
     \/ /\ Exists(at) /\ ou[at].up = Root
        /\ Go(e, IF Overflows(e, depth) THEN "refused" ELSE "find")
        /\ UNCHANGED climb
     \/ /\ Exists(at) /\ ou[at].up # Root
        /\ climb' = [climb EXCEPT ![e] = [at |-> ou[at].up, depth |-> depth + 1]]
        /\ UNCHANGED pc
  /\ UNCHANGED <<ou, parent, input, pass, way, seen, walk>>

\* ListParents ends in an error: the depth is undetermined, and the vend goes on.
Depthless(e) ==
  /\ pc[e] = "climb" /\ input[e].blind /\ Go(e, "find")
  /\ UNCHANGED <<ou, parent, input, pass, climb, way, seen, walk>>

\* The plan is over; the same call in apply mode starts from the beginning.
Applies(e) ==
  /\ pass' = [pass EXCEPT ![e] = "apply"] /\ way' = [way EXCEPT ![e] = <<>>]
  /\ climb' = [climb EXCEPT ![e] = Bottom(e)] /\ pc' = [pc EXCEPT ![e] = Entered(e)]

\* `planning`.
PlanIgnored(e) == FALSE
Planning(e) == pass[e] = "plan"

\* A level is resolved; the last one ends the pass.
Descend(e, o) ==
  LET further == Append(way[e], o) IN
  /\ seen' = [seen EXCEPT ![e] = IF pass[e] = "plan" THEN @ \cup {o} ELSE @]
  /\ \/ /\ Len(further) < Len(input[e].path)
        /\ way' = [way EXCEPT ![e] = further] /\ pc' = [pc EXCEPT ![e] = "find"]
        /\ UNCHANGED <<pass, climb>>
     \/ Len(further) = Len(input[e].path) /\ pass[e] = "plan" /\ Applies(e)
     \/ /\ Len(further) = Len(input[e].path) /\ pass[e] = "apply"
        /\ way' = [way EXCEPT ![e] = further] /\ Go(e, "done")
        /\ UNCHANGED <<pass, climb>>

\* `findOU`.  A plan looks no further than the first level that is not there.
Find(e) ==
  /\ pc[e] = "find"
  /\ \/ \E o \in Named(Cur(e), Name(e)) : Descend(e, o)
     \/ /\ Exists(Cur(e)) /\ Named(Cur(e), Name(e)) = {} /\ Planning(e)
        /\ Applies(e) /\ UNCHANGED seen
     \/ /\ Exists(Cur(e)) /\ Named(Cur(e), Name(e)) = {} /\ ~Planning(e)
        /\ Go(e, "create") /\ UNCHANGED <<pass, climb, way, seen>>
     \/ ~Exists(Cur(e)) /\ Go(e, "failed") /\ UNCHANGED <<pass, climb, way, seen>>
  /\ UNCHANGED <<ou, parent, input, walk>>

\* CreateOrganizationalUnit, and its answers in the order AWS finds them.
Create(e) ==
  /\ pc[e] = "create"
  /\ LET refusal == IF ~Exists(Cur(e)) THEN "failed"
                    ELSE IF Named(Cur(e), Name(e)) # {} THEN "refind" ELSE "tooDeep"
     IN \/ /\ refusal # "tooDeep" \/ Level(Cur(e)) >= MaxOUDepth
           /\ Go(e, refusal) /\ UNCHANGED <<ou, pass, climb, way, seen>>
        \/ /\ refusal = "tooDeep" /\ Level(Cur(e)) < MaxOUDepth
           /\ ou' = Grown(Cur(e), Name(e), e) /\ Descend(e, Len(ou) + 1)
  /\ UNCHANGED <<parent, input, walk>>

RefindFails(e) ==
  /\ pc[e] = "refind" /\ Go(e, "failed")
  /\ UNCHANGED <<ou, parent, input, pass, climb, way, seen, walk>>

\* The second `findOU`, after a duplicate.
Refind(e) ==
  /\ pc[e] = "refind"
  /\ \/ \E o \in Named(Cur(e), Name(e)) : Descend(e, o)
     \/ /\ Named(Cur(e), Name(e)) = {} /\ Go(e, "failed")
        /\ UNCHANGED <<pass, climb, way, seen>>
  /\ UNCHANGED <<ou, parent, input, walk>>

VendStep(e) == Climb(e) \/ Depthless(e) \/ Find(e) \/ Create(e) \/ Refind(e)

-----------------------------------------------------------------------------
(* `WalkTree` of one list *)

BeginList(w) ==
  /\ Starts(w, "ous")
  /\ walk' = [walk EXCEPT ![w].calm = Accounts]
  /\ UNCHANGED <<ou, parent, input, pass, climb, way, seen>>

\* The OUs of one container of this level.
ListOUs(w) ==
  /\ pc[w] = "ous"
  /\ \E c \in walk[w].front :
       \/ /\ Exists(c) /\ Go(w, "accounts")
          /\ walk' = [walk EXCEPT ![w].reading = c, ![w].below = @ \cup Children(c)]
       \/ ~Exists(c) /\ Go(w, "failed") /\ UNCHANGED walk
  /\ UNCHANGED <<ou, parent, input, pass, climb, way, seen>>

\* Its accounts; after the last container of a level, the next level.
ListAccounts(w) ==
  /\ pc[w] = "accounts"
  /\ LET c == walk[w].reading
         rest == walk[w].front \ {c}
         listed == walk[w].listed \cup {<<a, c>> : a \in {b \in Accounts : parent[b] = c}}
         depth == walk[w].depth + 1
     IN \/ ~Exists(c) /\ Go(w, "failed") /\ UNCHANGED walk
        \/ /\ Exists(c) /\ rest # {} /\ Go(w, "ous")
           /\ walk' = [walk EXCEPT ![w].front = rest, ![w].listed = listed]
        \/ /\ Exists(c) /\ rest = {}
           /\ Go(w, IF walk[w].below = {} THEN "done"
                    ELSE IF depth > MaxOUDepth THEN "tooDeep" ELSE "ous")
           /\ walk' = [walk EXCEPT ![w].front = walk[w].below, ![w].below = {},
                                   ![w].depth = depth, ![w].listed = listed]
  /\ UNCHANGED <<ou, parent, input, pass, climb, way, seen>>

ListStep(w) == ListOUs(w) \/ ListAccounts(w)

-----------------------------------------------------------------------------
(* What else happens *)

Ended == {"done", "failed", "refused", "tooDeep"}

\* A call is denied or fails, or the process dies.
Stop(r) ==
  /\ pc[r] \notin Ended \cup {"idle"} /\ Go(r, "failed")
  /\ UNCHANGED <<ou, parent, input, pass, climb, way, seen, walk>>

PeopleCreate(c, n) ==
  /\ Exists(c) /\ Named(c, n) = {} /\ Level(c) < MaxOUDepth
  /\ Cardinality({o \in Ids : ou[o].by = People}) < MaxByPeople
  /\ ou' = Grown(c, n, People)
  /\ UNCHANGED <<parent, input, pc, pass, climb, way, seen, walk>>

Touched(o) == seen' = [e \in Vends |-> seen[e] \ {o}]

\* AWS deletes an OU only when it is empty.
PeopleDelete(o) ==
  /\ ou[o].live /\ ou[o].name \in Deletable
  /\ Children(o) = {} /\ \A a \in Accounts : parent[a] # o
  /\ ou' = [ou EXCEPT ![o].live = FALSE]
  /\ Touched(o) /\ UNCHANGED <<parent, input, pc, pass, climb, way, walk>>

PeopleRename(o, n) ==
  /\ ou[o].live /\ ou[o].name \in Renamable
  /\ Named(ou[o].up, n) = {}
  /\ ou' = [ou EXCEPT ![o].name = n]
  /\ Touched(o) /\ UNCHANGED <<parent, input, pc, pass, climb, way, walk>>

PeopleMove(a, from, c) ==
  /\ parent[a] = from /\ Exists(c)
  /\ parent' = [parent EXCEPT ![a] = c]
  /\ walk' = [w \in Lists |-> [walk[w] EXCEPT !.calm = @ \ {a}]]
  /\ UNCHANGED <<ou, input, pc, pass, climb, way, seen>>

Next ==
  \/ \E e \in Vends : Begin(e) \/ VendStep(e)
  \/ \E w \in Lists : BeginList(w) \/ ListStep(w)
  \/ \E r \in Unlucky : Stop(r)
  \/ \E c \in Containers, n \in Creatable : PeopleCreate(c, n)
  \/ \E o \in Ids : PeopleDelete(o) \/ \E n \in Renamable : PeopleRename(o, n)
  \/ \E m \in Moves : PeopleMove(m[1], m[2], m[3])

Spec == Init /\ [][Next]_vars

\* A live command makes its next call; nobody has to start one, or to do anything else.
Fairness ==
  /\ \A e \in Vends : WF_vars(VendStep(e))
  /\ \A w \in Lists : WF_vars(ListStep(w))

-----------------------------------------------------------------------------
(* Properties *)

\* The type invariant.
TypeOK ==
  /\ ou \in Seq(OU)
  /\ parent \in [Accounts -> Nat]
  /\ input \in [Vends -> Inputs]
  /\ pc \in [Vends \cup Lists -> {"idle", "climb", "find", "create", "refind", "ous", "accounts"} \cup Ended]
  /\ pass \in [Vends -> {"plan", "apply"}]
  /\ climb \in [Vends -> [at : Nat, depth : Nat]]
  /\ way \in [Vends -> Seq(Nat)] /\ seen \in [Vends -> SUBSET Nat]
  /\ walk \in [Lists -> [front : SUBSET Nat, below : SUBSET Nat, reading : Nat, depth : Nat,
                         listed : SUBSET (Accounts \X Nat), calm : SUBSET Accounts]]

NamesOf(e) == {input[e].path[i] : i \in DOMAIN input[e].path}

\* Vends of one path end in one OU, whoever made its levels and however their
\* calls interleaved ("both runs want the same OU"), unless somebody deletes the
\* OU between them.  Names that people reuse for other OUs are excepted.
SamePathSameOU ==
  \A d, e \in Vends :
    /\ input[d].base = input[e].base /\ input[d].path = input[e].path
    /\ NamesOf(d) \cap Renamable = {}
    /\ pc[d] = "done" /\ pc[e] = "done"
    /\ Exists(Cur(d)) /\ Exists(Cur(e))
    => Cur(d) = Cur(e)

Made(e) == {o \in Ids : ou[o].by = e}

\* No half path: the depth is measured before anything is made, so AWS never has
\* to stop a vend between two levels (only one that cannot read the depth), and a
\* vend that refuses its path has made nothing.
NoHalfPath ==
  \A e \in Vends :
    /\ pc[e] = "tooDeep" => input[e].blind
    /\ pc[e] = "refused" => Made(e) = {}

\* No false alarm: a vend refuses a path as too deep only when it does not fit
\* below its parent, and no list reports a tree AWS permits as too deep.
NoFalseAlarm ==
  /\ \A e \in Vends :
       pc[e] = "refused" => Level(input[e].base) + Len(input[e].path) > MaxOUDepth
  /\ \A w \in Lists : pc[w] # "tooDeep"

\* The plan found every level down to the i-th, and nobody has touched them since.
Shown(e, i) == \A j \in 1..i : \E o \in seen[e] : ou[o].level = Level(input[e].base) + j

\* What the operator was shown holds: a plan makes nothing, and the apply resolves a
\* level that the plan found, and above which nobody has renamed or deleted an OU, to
\* the OU the plan found there and no new one.
PlanHolds ==
  \A e \in Vends :
    /\ pass[e] = "plan" => Made(e) = {}
    /\ \A i \in DOMAIN way[e] : Shown(e, i) => way[e][i] \in seen[e]

\* The containers from c up to the root.
Above(c) ==
  LET up[o \in Containers] == IF o = Root THEN {Root} ELSE {o} \cup up[ou[o].up] IN up[c]

\* A list that ends shows every account of its subtree that stayed where it was,
\* once and under its own OU, whatever was made, renamed, deleted or moved meanwhile.
ListedOnce ==
  \A w \in Lists : pc[w] = "done" =>
    \A a \in walk[w].calm :
      {c \in Containers : <<a, c>> \in walk[w].listed} =
        {c \in {parent[a]} : Base[w] \in Above(c)}

Fits(e) == Level(input[e].base) + Len(input[e].path) <= MaxOUDepth

\* Nobody takes away what the vend works with.
Undisturbed(e) ==
  /\ NamesOf(e) \cap (Renamable \cup Deletable) = {}
  /\ Exists(input[e].base)
  /\ input[e].base # Root => ou[input[e].base].name \notin Renamable \cup Deletable

\* A vend whose path fits and whose OUs nobody takes away gets through, however
\* many others create the same levels under it.  And every list ends.
CommandsEnd ==
  /\ \A e \in Vends \ Unlucky :
       (pc[e] # "idle" /\ Fits(e) /\ Undisturbed(e)) ~> pc[e] = "done"
  /\ \A w \in Lists : pc[w] # "idle" ~> pc[w] \in Ended

=============================================================================
