---------------------------- MODULE OUTreeProofs ----------------------------
(***************************************************************************)
(* Proofs about OUTree, for any vends, lists, paths and trees: its types;  *)
(* that the tree stays one AWS allows; that vends of one path end in one   *)
(* OU; that no path is left half made by a vend that could measure the     *)
(* depth; that nothing which fits is refused as too deep; that an apply    *)
(* follows the plan its operator was shown; and that a list shows what it  *)
(* should although the tree changes under it.                              *)
(***************************************************************************)
EXTENDS OUTree, WellFoundedInduction, NaturalsInduction, TLAPS

\* What a step leaves as it is in the tree.
Kept ==
  /\ Len(ou) <= Len(ou') /\ Len(ou') \in Nat
  /\ \A o \in Ids :
       /\ o \in Ids' /\ ou'[o].up = ou[o].up /\ ou'[o].level = ou[o].level
       /\ ou'[o].by = ou[o].by
       /\ ou'[o].live => ou[o].live
       /\ ou'[o].name # ou[o].name => ou[o].name \in Renamable

LEMMA TreeTyped ==
  ASSUME Legal(ou)
  PROVE  /\ ou \in Seq(OU) /\ Len(ou) \in Nat /\ Ids = 1..Len(ou)
         /\ \A o \in Ids : /\ ou[o] \in OU /\ ou[o].up \in Nat /\ ou[o].name \in Names
                           /\ ou[o].level \in Nat /\ ou[o].live \in BOOLEAN
                           /\ ou[o].up # Root => ou[o].up \in Ids
<1>1. ou \in Seq(OU)
  BY DEF Legal
<1>2. Len(ou) \in Nat /\ Ids = 1..Len(ou) /\ \A o \in Ids : ou[o] \in OU
  BY <1>1 DEF Ids
<1>3. ASSUME NEW o \in Ids
      PROVE  /\ ou[o].up \in Nat /\ ou[o].name \in Names
             /\ ou[o].level \in Nat /\ ou[o].live \in BOOLEAN
  <2>1. ou[o] \in OU
    BY <1>2
  <2> QED
    BY <2>1 DEF OU
<1>4. ASSUME NEW o \in Ids, ou[o].up # Root
      PROVE  ou[o].up \in Ids
  <2>1. ou[o].up < o /\ ou[o].up \in Nat
    BY <1>3 DEF Legal, Ids
  <2> QED
    BY <1>2, <1>4, <2>1 DEF Root
<1> QED
  BY <1>1, <1>2, <1>3, <1>4

\* AWS makes an OU where there is room and no other of its name.
LEMMA GrownLegal ==
  ASSUME Legal(ou), NEW c \in Containers, Exists(c), Level(c) < MaxOUDepth,
         NEW n \in Names, Named(c, n) = {}, NEW who \in Vends \cup {People},
         ou' = Grown(c, n, who)
  PROVE  /\ Legal(ou)' /\ Kept /\ Len(ou') = Len(ou) + 1
         /\ \A o \in Ids : ou'[o] = ou[o]
         /\ LET o == Len(ou) + 1 IN
            /\ o \in Ids' /\ ou'[o].up = c /\ ou'[o].name = n
            /\ ou'[o].live /\ ou'[o].by = who
<1> DEFINE new == [up |-> c, name |-> n, level |-> Level(c) + 1, live |-> TRUE, by |-> who]
<1>1. ou \in Seq(OU) /\ Len(ou) \in Nat /\ Ids = 1..Len(ou) /\ c \in Nat
  BY TreeTyped DEF Containers, Root
<1>2. Level(c) \in Nat
  BY TreeTyped DEF Level, Containers
<1>3. new \in OU /\ ou' = Append(ou, new)
  BY <1>1, <1>2 DEF OU, Grown
<1>4. /\ ou' \in Seq(OU) /\ Len(ou') = Len(ou) + 1 /\ Ids' = 1..(Len(ou) + 1)
      /\ ou'[Len(ou) + 1] = new /\ \A o \in Ids : ou'[o] = ou[o]
  BY <1>1, <1>3 DEF Ids
<1>5. Kept
  BY <1>1, <1>4 DEF Kept
<1>6. ASSUME NEW o \in Ids'
      PROVE  /\ ou'[o].up < o
             /\ ou'[o].level = (IF ou'[o].up = Root THEN 0 ELSE ou'[ou'[o].up].level) + 1
             /\ ou'[o].level <= MaxOUDepth
             /\ ou'[o].live /\ ou'[o].up # Root => ou'[ou'[o].up].live
  <2>1. CASE o \in Ids
    <3>1. ou'[o] = ou[o] /\ (ou[o].up # Root => ou[o].up \in Ids /\ ou'[ou[o].up] = ou[ou[o].up])
      BY <1>4, <2>1, TreeTyped
    <3> QED
      BY <2>1, <3>1 DEF Legal, Ids
  <2>2. CASE o = Len(ou) + 1
    <3>1. ou'[o] = new /\ c < o /\ (c # Root => c \in Ids /\ ou'[c] = ou[c] /\ ou[c].live)
      BY <1>1, <1>4, <2>2 DEF Containers, Exists, Root
    <3> QED
      BY <1>2, <3>1, ParametersTyped DEF Level
  <2> QED
    BY <1>1, <1>4, <2>1, <2>2
<1>7. ASSUME NEW o \in Ids', NEW p \in Ids', ou'[o].live, ou'[p].live,
             ou'[o].up = ou'[p].up, ou'[o].name = ou'[p].name
      PROVE  o = p
  <2>1. \A q \in Ids : ~(ou[q].live /\ ou[q].up = c /\ ou[q].name = n)
    BY DEF Named, Children
  <2>2. \A q \in Ids' : q \in Ids \/ q = Len(ou) + 1
    BY <1>1, <1>4
  <2>3. new.up = c /\ new.name = n
    OBVIOUS
  <2> QED
    BY <1>4, <1>7, <2>1, <2>2, <2>3 DEF Legal, Ids
<1> QED
  BY <1>4, <1>5, <1>6, <1>7 DEF Legal, Ids

\* One OU changes.
LEMMA Replaced ==
  ASSUME Legal(ou), NEW o \in Ids, NEW x \in OU, ou' = [ou EXCEPT ![o] = x]
  PROVE  /\ ou' \in Seq(OU) /\ Len(ou') = Len(ou) /\ Ids' = Ids
         /\ ou'[o] = x /\ \A p \in Ids \ {o} : ou'[p] = ou[p]
<1>1. ou \in Seq(OU) /\ Len(ou) \in Nat /\ Ids = 1..Len(ou)
  BY TreeTyped
<1> QED
  BY <1>1 DEF Ids

\* People delete only what is empty, and rename only to what is free.
LEMMA DeletedLegal ==
  ASSUME Legal(ou), NEW o \in Ids, PeopleDelete(o)
  PROVE  Legal(ou)' /\ Kept /\ Ids' = Ids
<1>1. ou \in Seq(OU) /\ Len(ou) \in Nat /\ Ids = 1..Len(ou) /\ \A p \in Ids : ou[p] \in OU
  BY TreeTyped
<1> DEFINE x == [ou[o] EXCEPT !.live = FALSE]
<1>2. /\ x \in OU /\ ou' = [ou EXCEPT ![o] = x]
      /\ x.up = ou[o].up /\ x.name = ou[o].name /\ x.level = ou[o].level
      /\ x.by = ou[o].by /\ x.live = FALSE
  BY <1>1 DEF PeopleDelete, OU
<1> HIDE DEF x
<1>3. /\ ou' \in Seq(OU) /\ Len(ou') = Len(ou) /\ Ids' = Ids
      /\ ou'[o] = x /\ \A p \in Ids \ {o} : ou'[p] = ou[p]
  BY <1>2, Replaced
<1>4. /\ ou' \in Seq(OU) /\ Len(ou') = Len(ou) /\ Ids' = Ids
      /\ \A p \in Ids : /\ ou'[p].up = ou[p].up /\ ou'[p].name = ou[p].name
                        /\ ou'[p].level = ou[p].level /\ ou'[p].by = ou[p].by
                        /\ ou'[p].live <=> (ou[p].live /\ p # o)
  BY <1>1, <1>2, <1>3, TreeTyped
<1>5. \A p \in Ids : ~(ou[p].live /\ ou[p].up = o)
  BY DEF PeopleDelete, Children
<1>6. Kept
  BY <1>1, <1>4 DEF Kept
<1>7. \A p \in Ids : ou[p].up # Root => ou[p].up \in Ids
  BY TreeTyped
<1> QED
  BY <1>4, <1>5, <1>6, <1>7 DEF Legal, Ids

LEMMA RenamedLegal ==
  ASSUME Legal(ou), NEW o \in Ids, NEW n \in Renamable, PeopleRename(o, n)
  PROVE  Legal(ou)' /\ Kept /\ Ids' = Ids
<1>1. /\ ou \in Seq(OU) /\ Len(ou) \in Nat /\ Ids = 1..Len(ou) /\ \A p \in Ids : ou[p] \in OU
      /\ n \in Names
  BY TreeTyped, ParametersTyped
<1> DEFINE x == [ou[o] EXCEPT !.name = n]
<1>2. /\ x \in OU /\ ou' = [ou EXCEPT ![o] = x] /\ ou[o].name \in Renamable
      /\ x.up = ou[o].up /\ x.live = ou[o].live /\ x.level = ou[o].level
      /\ x.by = ou[o].by /\ x.name = n
  BY <1>1 DEF PeopleRename, OU
<1> HIDE DEF x
<1>3. /\ ou' \in Seq(OU) /\ Len(ou') = Len(ou) /\ Ids' = Ids
      /\ ou'[o] = x /\ \A p \in Ids \ {o} : ou'[p] = ou[p]
  BY <1>2, Replaced
<1>4. /\ ou' \in Seq(OU) /\ Len(ou') = Len(ou) /\ Ids' = Ids
      /\ \A p \in Ids : /\ ou'[p].up = ou[p].up /\ ou'[p].live = ou[p].live
                        /\ ou'[p].level = ou[p].level /\ ou'[p].by = ou[p].by
                        /\ ou'[p].name = IF p = o THEN n ELSE ou[p].name
  BY <1>1, <1>2, <1>3, TreeTyped
<1>5. \A p \in Ids : ~(ou[p].live /\ ou[p].up = ou[o].up /\ ou[p].name = n)
  BY DEF PeopleRename, Named, Children
<1>6. Kept
  BY <1>1, <1>2, <1>4 DEF Kept
<1>7. \A p \in Ids : ou[p].up # Root => ou[p].up \in Ids
  BY TreeTyped
<1> QED
  BY <1>4, <1>5, <1>6, <1>7 DEF Legal, Ids

LEMMA LevelKept ==
  ASSUME Legal(ou), Kept, NEW c \in Containers
  PROVE  c \in Containers' /\ Level(c)' = Level(c) /\ Level(c) \in Nat
BY TreeTyped DEF Kept, Level, Containers

-----------------------------------------------------------------------------
(* One vend *)

Working == {"find", "create", "refind"}

\* The OU a vend resolved at a level is the one its path leads to.
OnWay(e, i) ==
  LET o == way[e][i] IN
  /\ o \in Ids
  /\ ou[o].up = (IF i = 1 THEN input[e].base ELSE way[e][i - 1])
  /\ ou[o].level = Level(input[e].base) + i
  /\ input[e].path[i] \notin Renamable => ou[o].name = input[e].path[i]

WayInv(e) ==
  /\ input[e].base \in Containers
  /\ Len(way[e]) <= Len(input[e].path)
  /\ \A i \in 1..Len(way[e]) : OnWay(e, i)
  /\ pc[e] \in {"idle", "climb"} => way[e] = <<>>
  /\ pc[e] \in Working => Len(way[e]) < Len(input[e].path)
  /\ pc[e] = "done" => Len(way[e]) = Len(input[e].path)

\* `depthOf` has counted what lies between the parent and where it is.
DepthInv(e) ==
  /\ pc[e] = "idle" => climb[e] = Bottom(e)
  /\ pc[e] = "climb" => /\ climb[e].at \in Ids
                        /\ Level(climb[e].at) + climb[e].depth = Level(input[e].base) + 1
  /\ pc[e] \in Working /\ ~input[e].blind => Fits(e)
  /\ pc[e] = "refused" => ~Fits(e)
  /\ pc[e] = "tooDeep" => input[e].blind

\* Before its apply pass creates, a vend has made nothing, and only an apply creates.
MadeInv(e) ==
  /\ pass[e] = "plan" \/ pc[e] \in {"idle", "climb", "refused"} => Made(e) = {}
  /\ pc[e] \in {"create", "refind"} => pass[e] = "apply"

VendInv(e) == WayInv(e) /\ DepthInv(e) /\ MadeInv(e)

LEMMA VendTyped ==
  ASSUME TypeOK, NEW e \in Vends
  PROVE  /\ input[e] \in Input /\ input[e].base \in Nat
         /\ input[e].path \in Seq(Names) /\ Len(input[e].path) \in Nat \ {0}
         /\ input[e].blind \in BOOLEAN
         /\ \A i \in 1..Len(input[e].path) : input[e].path[i] \in Names
         /\ way[e] \in Seq(Nat) /\ Len(way[e]) \in Nat /\ seen[e] \subseteq Nat
         /\ climb[e] \in [at : Nat, depth : Nat]
         /\ climb[e].at \in Nat /\ climb[e].depth \in Nat
         /\ \A i \in 1..Len(way[e]) : way[e][i] \in Nat
<1>1. input[e] \in Input /\ way[e] \in Seq(Nat) /\ seen[e] \subseteq Nat
      /\ climb[e] \in [at : Nat, depth : Nat]
  BY ParametersTyped DEF TypeOK
<1>2. /\ input[e].base \in Nat /\ input[e].path \in Seq(Names) /\ input[e].path # <<>>
      /\ input[e].blind \in BOOLEAN
  BY <1>1 DEF Input
<1>3. Len(input[e].path) \in Nat \ {0}
  BY <1>2
<1> QED
  BY <1>1, <1>2, <1>3

\* A step that is not the vend's own leaves its invariant.
LEMMA VendFramed ==
  ASSUME TypeOK, Legal(ou), Kept, NEW e \in Vends, VendInv(e), input' = input,
         pc'[e] = pc[e], pass'[e] = pass[e], climb'[e] = climb[e],
         way'[e] = way[e],
         \A o \in Ids' : o \notin Ids => ou'[o].by # e
  PROVE  VendInv(e)'
<1>1. /\ input[e].base \in Containers' /\ Level(input[e].base)' = Level(input[e].base)
      /\ Level(input[e].base) \in Nat
  BY LevelKept DEF VendInv, WayInv
<1>2. WayInv(e)'
  <2>1. ASSUME NEW i \in 1..Len(way[e])
        PROVE  OnWay(e, i)'
    <3>1. OnWay(e, i)
      BY DEF VendInv, WayInv
    <3> QED
      BY <1>1, <3>1 DEF OnWay, Kept
  <2> QED
    BY <1>1, <2>1 DEF VendInv, WayInv
<1>3. DepthInv(e)'
  <2>1. ASSUME pc[e] = "climb"
        PROVE  climb[e].at \in Ids' /\ Level(climb[e].at)' = Level(climb[e].at)
    BY <2>1, LevelKept DEF VendInv, DepthInv, Containers, Kept
  <2>2. Fits(e)' <=> Fits(e)
    BY <1>1 DEF Fits
  <2>3. Bottom(e)' = Bottom(e)
    BY DEF Bottom
  <2> QED
    BY <1>1, <2>1, <2>2, <2>3 DEF VendInv, DepthInv
<1>4. MadeInv(e)'
  <2>1. Made(e)' = Made(e)
    BY DEF Made, Kept
  <2> QED
    BY <2>1 DEF VendInv, MadeInv
<1> QED
  BY <1>2, <1>3, <1>4 DEF VendInv

Places == {"idle", "climb", "find", "create", "refind", "ous", "accounts"} \cup Ended

\* The types of what one vend's step changes, and the vends it leaves alone.
Moved(e) ==
  /\ pc' \in [Vends \cup Lists -> Places]
  /\ pass' \in [Vends -> {"plan", "apply"}]
  /\ climb' \in [Vends -> [at : Nat, depth : Nat]]
  /\ way' \in [Vends -> Seq(Nat)] /\ seen' \in [Vends -> SUBSET Nat]
  /\ way'[e] = way[e] \/ way'[e] = <<>> \/ \E o \in Nat : way'[e] = Append(way[e], o)
  /\ \A w \in Lists : pc'[w] = pc[w]
  /\ \A d \in Vends \ {e} : /\ pc'[d] = pc[d] /\ pass'[d] = pass[d] /\ climb'[d] = climb[d]
                            /\ way'[d] = way[d] /\ seen'[d] = seen[d]

\* A vend that only goes on to another place.
LEMMA GoMoved ==
  ASSUME TypeOK, NEW e \in Vends, NEW l \in Places, pc' = [pc EXCEPT ![e] = l],
         UNCHANGED <<pass, climb, way, seen>>
  PROVE  Moved(e) /\ pc'[e] = l
BY ParametersTyped DEF TypeOK, Moved, Places

\* The plan is over.
LEMMA AppliesMoved ==
  ASSUME TypeOK, NEW e \in Vends, Applies(e),
         seen' \in [Vends -> SUBSET Nat], \A d \in Vends \ {e} : seen'[d] = seen[d]
  PROVE  /\ Moved(e) /\ pc'[e] = Entered(e) /\ pass'[e] = "apply"
         /\ way'[e] = <<>> /\ climb'[e] = Bottom(e)
<1>1. Entered(e) \in Places /\ Bottom(e) \in [at : Nat, depth : Nat]
  BY VendTyped DEF Entered, Places, Ended, Bottom
<1>2. e \in Vends \cup Lists /\ \A w \in Lists : w # e
  BY ParametersTyped
<1>3. /\ pc \in [Vends \cup Lists -> Places] /\ pass \in [Vends -> {"plan", "apply"}]
      /\ climb \in [Vends -> [at : Nat, depth : Nat]] /\ way \in [Vends -> Seq(Nat)]
  BY DEF TypeOK, Places
<1> QED
  BY <1>1, <1>2, <1>3 DEF Applies, Moved

\* The three ways to go on from a resolved level.
LEMMA DescendMoved ==
  ASSUME TypeOK, NEW e \in Vends, NEW o \in Nat, Descend(e, o)
  PROVE  /\ Moved(e)
         /\ seen'[e] = IF pass[e] = "plan" THEN seen[e] \cup {o} ELSE seen[e]
         /\ \/ /\ Len(way[e]) + 1 < Len(input[e].path) /\ pc'[e] = "find"
               /\ way'[e] = Append(way[e], o) /\ pass'[e] = pass[e] /\ climb'[e] = climb[e]
            \/ /\ Len(way[e]) + 1 = Len(input[e].path) /\ pass[e] = "plan" /\ Applies(e)
               /\ pass'[e] = "apply" /\ way'[e] = <<>>
            \/ /\ Len(way[e]) + 1 = Len(input[e].path) /\ pc'[e] = "done"
               /\ pass[e] = "apply" /\ pass'[e] = pass[e] /\ climb'[e] = climb[e]
               /\ way'[e] = Append(way[e], o)
<1> DEFINE further == Append(way[e], o)
           shown == IF pass[e] = "plan" THEN seen[e] \cup {o} ELSE seen[e]
<1>1. further \in Seq(Nat) /\ Len(further) = Len(way[e]) + 1 /\ shown \in SUBSET Nat
  BY VendTyped
<1>2. {"find", "done"} \subseteq Places
  BY DEF Places, Ended
<1>3. e \in Vends \cup Lists /\ \A w \in Lists : w # e
  BY ParametersTyped
<1>4. /\ pc \in [Vends \cup Lists -> Places] /\ pass \in [Vends -> {"plan", "apply"}]
      /\ climb \in [Vends -> [at : Nat, depth : Nat]]
      /\ way \in [Vends -> Seq(Nat)] /\ seen \in [Vends -> SUBSET Nat]
  BY DEF TypeOK, Places
<1>5. seen' = [seen EXCEPT ![e] = shown]
  BY <1>4 DEF Descend
<1> HIDE DEF further, shown
<1>6. /\ seen' \in [Vends -> SUBSET Nat] /\ seen'[e] = shown
      /\ \A d \in Vends \ {e} : seen'[d] = seen[d]
  BY <1>1, <1>4, <1>5
<1>7. CASE /\ Len(further) < Len(input[e].path)
           /\ way' = [way EXCEPT ![e] = further] /\ pc' = [pc EXCEPT ![e] = "find"]
           /\ UNCHANGED <<pass, climb>>
  BY <1>1, <1>2, <1>3, <1>4, <1>6, <1>7 DEF Moved, further, shown
<1>8. CASE Len(further) = Len(input[e].path) /\ pass[e] = "plan" /\ Applies(e)
  BY <1>1, <1>6, <1>8, AppliesMoved DEF shown
<1>9. CASE /\ Len(further) = Len(input[e].path) /\ pass[e] = "apply"
           /\ way' = [way EXCEPT ![e] = further] /\ pc' = [pc EXCEPT ![e] = "done"]
           /\ UNCHANGED <<pass, climb>>
  BY <1>1, <1>2, <1>3, <1>4, <1>6, <1>9 DEF Moved, further, shown
<1> QED
  BY <1>7, <1>8, <1>9 DEF Descend, further, Go

\* What the first checks decide.
LEMMA EnteredRight ==
  ASSUME TypeOK, Legal(ou), NEW e \in Vends, input[e].base \in Containers
  PROVE  \/ Entered(e) = "refused" /\ ~Fits(e)
         \/ Entered(e) = "find" /\ Fits(e)
         \/ Entered(e) = "climb" /\ input[e].base \in Ids
<1>1. Level(input[e].base) \in Nat
  BY TreeTyped DEF Level, Containers
<1>2. Len(input[e].path) \in Nat /\ MaxOUDepth \in Nat
  BY VendTyped, ParametersTyped
<1>3. CASE Overflows(e, 0)
  BY <1>1, <1>2, <1>3 DEF Entered, Overflows, Fits
<1>4. CASE ~Overflows(e, 0) /\ input[e].base = Root
  BY <1>1, <1>2, <1>4 DEF Entered, Overflows, Fits, Level
<1>5. CASE ~Overflows(e, 0) /\ input[e].base # Root
  BY <1>5 DEF Entered, Containers
<1> QED
  BY <1>3, <1>4, <1>5

\* Where a vend is in its path, and how deep that is.
LEMMA CurRight ==
  ASSUME TypeOK, Legal(ou), NEW e \in Vends, WayInv(e)
  PROVE  /\ Cur(e) \in Containers
         /\ Level(Cur(e)) = Level(input[e].base) + Len(way[e])
         /\ Cur(e) = IF Len(way[e]) = 0 THEN input[e].base ELSE way[e][Len(way[e])]
<1>1. Len(way[e]) \in Nat /\ way[e] \in Seq(Nat) /\ Level(input[e].base) \in Nat
  BY VendTyped, TreeTyped DEF WayInv, Level, Containers
<1>2. CASE Len(way[e]) = 0
  <2>1. way[e] = <<>>
    BY <1>1, <1>2
  <2> QED
    BY <1>1, <1>2, <2>1 DEF Cur, WayInv
<1>3. CASE Len(way[e]) # 0
  <2>1. way[e] # <<>> /\ Len(way[e]) \in 1..Len(way[e])
    BY <1>1, <1>3
  <2>2. OnWay(e, Len(way[e]))
    BY <2>1 DEF WayInv
  <2>3. Cur(e) = way[e][Len(way[e])] /\ Cur(e) \in Ids /\ Cur(e) # Root
    BY <2>1, <2>2, TreeTyped DEF Cur, OnWay, Root
  <2> QED
    BY <1>3, <2>2, <2>3 DEF OnWay, Level, Containers
<1> QED
  BY <1>2, <1>3

\* What lies under the OU where a vend is, is a level more.
LEMMA NextLevel ==
  ASSUME TypeOK, Legal(ou), Legal(ou)', Kept, NEW e \in Vends, WayInv(e),
         NEW o \in Ids', ou'[o].up = Cur(e)
  PROVE  ou'[o].level = Level(input[e].base) + Len(way[e]) + 1
<1>1. /\ Level(Cur(e)) = Level(input[e].base) + Len(way[e]) /\ Cur(e) \in Containers
      /\ Level(input[e].base) \in Nat /\ Len(way[e]) \in Nat
  BY CurRight, VendTyped, LevelKept DEF WayInv
<1>2. /\ \A c \in Containers : c # Root => ou'[c].level = ou[c].level
      /\ ou'[o].level = (IF Cur(e) = Root THEN 0 ELSE ou'[Cur(e)].level) + 1
  BY DEF Kept, Containers, Legal, Ids
<1> QED
  BY <1>1, <1>2 DEF Level

\* A level more.
LEMMA FurtherOnWay ==
  ASSUME TypeOK, Legal(ou), Legal(ou)', Kept, NEW e \in Vends, WayInv(e), input' = input,
         Len(way[e]) < Len(input[e].path),
         NEW o \in Nat, o \in Ids', ou'[o].up = Cur(e), ou'[o].name = Name(e),
         way'[e] = Append(way[e], o)
  PROVE  /\ Len(way'[e]) = Len(way[e]) + 1
         /\ \A i \in 1..Len(way'[e]) : OnWay(e, i)'
<1>1. /\ Len(way[e]) \in Nat /\ way[e] \in Seq(Nat)
      /\ Len(way'[e]) = Len(way[e]) + 1 /\ way'[e][Len(way[e]) + 1] = o
      /\ \A i \in 1..Len(way[e]) : way'[e][i] = way[e][i]
  BY VendTyped
<1>2. /\ input[e].base \in Containers' /\ Level(input[e].base)' = Level(input[e].base)
      /\ Level(input[e].base) \in Nat
  BY LevelKept DEF WayInv
<1>3. ASSUME NEW i \in 1..Len(way[e])
      PROVE  OnWay(e, i)'
  <2>1. OnWay(e, i)
    BY DEF WayInv
  <2>2. way'[e][i] = way[e][i] /\ (i # 1 => way'[e][i - 1] = way[e][i - 1])
    BY <1>1
  <2> QED
    BY <1>2, <2>1, <2>2 DEF OnWay, Kept
<1>4. ASSUME NEW i, i = Len(way[e]) + 1
      PROVE  OnWay(e, i)'
  <2>1. Cur(e) = IF Len(way[e]) = 0 THEN input[e].base ELSE way[e][Len(way[e])]
    BY CurRight
  <2>4. ou'[o].level = Level(input[e].base)' + i
    BY <1>1, <1>2, <1>4, NextLevel
  <2>5. ou'[o].up = IF i = 1 THEN input[e].base ELSE way'[e][i - 1]
    <3>1. CASE Len(way[e]) = 0
      BY <1>4, <2>1, <3>1
    <3>2. CASE Len(way[e]) # 0
      BY <1>1, <1>4, <2>1, <3>2
    <3> QED
      BY <3>1, <3>2
  <2>6. way'[e][i] = o /\ ou'[o].name = input[e].path[i]
    BY <1>1, <1>4 DEF Name
  <2> QED
    BY <2>4, <2>5, <2>6 DEF OnWay
<1>5. \A i \in 1..Len(way'[e]) : i \in 1..Len(way[e]) \/ i = Len(way[e]) + 1
  BY <1>1
<1> QED
  BY <1>1, <1>3, <1>4, <1>5

\* The apply starts where the plan did.
LEMMA AppliesInv ==
  ASSUME TypeOK, Legal(ou), NEW e \in Vends, VendInv(e), UNCHANGED <<ou, input>>,
         pass[e] = "plan", Applies(e), Moved(e)
  PROVE  VendInv(e)'
<1>1. /\ pc'[e] = Entered(e) /\ pass'[e] = "apply" /\ way'[e] = <<>> /\ climb'[e] = Bottom(e)
  BY DEF Applies, TypeOK
<1>2. /\ \/ Entered(e) = "refused" /\ ~Fits(e)
         \/ Entered(e) = "find" /\ Fits(e)
         \/ Entered(e) = "climb" /\ input[e].base \in Ids
      /\ input[e].base \in Containers
  BY EnteredRight DEF VendInv, WayInv
<1>3. Len(way'[e]) = 0 /\ Len(input[e].path) \in Nat \ {0} /\ Level(input[e].base) \in Nat
  BY <1>1, <1>2, VendTyped, TreeTyped DEF Level, Containers
<1>4. /\ Containers' = Containers /\ Ids' = Ids /\ Made(e)' = Made(e)
      /\ (Fits(e)' <=> Fits(e)) /\ Level(input[e].base)' = Level(input[e].base)
      /\ Bottom(e)' = Bottom(e)
  BY DEF Containers, Ids, Made, Fits, Level, Bottom
<1>5. WayInv(e)'
  BY <1>1, <1>2, <1>3, <1>4 DEF WayInv, Working
<1>6. DepthInv(e)'
  <2>1. climb'[e].at = input[e].base /\ climb'[e].depth = 1
    BY <1>1 DEF Bottom
  <2>2. Level(climb[e].at)' = Level(input[e].base)
    BY <1>4, <2>1 DEF Level
  <2> QED
    BY <1>1, <1>2, <1>3, <1>4, <2>1, <2>2 DEF DepthInv, Working
<1>7. MadeInv(e)'
  BY <1>1, <1>2, <1>4 DEF VendInv, MadeInv
<1> QED
  BY <1>5, <1>6, <1>7 DEF VendInv

LEMMA DescendInv ==
  ASSUME TypeOK, Legal(ou), Legal(ou)', Kept, NEW e \in Vends, VendInv(e), input' = input,
         pc[e] \in Working, NEW o \in Nat, o \in Ids', ou'[o].up = Cur(e), ou'[o].name = Name(e),
         Descend(e, o), pass[e] = "plan" => ou' = ou
  PROVE  VendInv(e)'
<1> DEFINE further == Append(way[e], o)
<1>1. /\ Len(way[e]) < Len(input[e].path) /\ input[e].base \in Containers
      /\ ~input[e].blind => Fits(e)
  BY DEF VendInv, WayInv, DepthInv, Working
<1>2. /\ input[e].base \in Containers' /\ Level(input[e].base)' = Level(input[e].base)
      /\ (Fits(e)' <=> Fits(e))
  BY <1>1, LevelKept DEF Fits
<1>3. way'[e] = further => /\ Len(way'[e]) = Len(way[e]) + 1
                           /\ \A i \in 1..Len(way'[e]) : OnWay(e, i)'
  BY <1>1, FurtherOnWay DEF VendInv
<1>4. Moved(e)
  BY DescendMoved
<1> HIDE DEF further
<1>5. CASE /\ Len(way[e]) + 1 < Len(input[e].path) /\ pc'[e] = "find"
           /\ way'[e] = further /\ pass'[e] = pass[e] /\ climb'[e] = climb[e]
  <2>1. WayInv(e)'
    BY <1>2, <1>3, <1>5 DEF WayInv, Working
  <2>2. DepthInv(e)'
    BY <1>1, <1>2, <1>5 DEF DepthInv
  <2>3. pass[e] = "plan" => Made(e)' = {}
    BY DEF Made, VendInv, MadeInv, Ids
  <2>4. MadeInv(e)'
    BY <1>5, <2>3 DEF MadeInv
  <2> QED
    BY <2>1, <2>2, <2>4 DEF VendInv
<1>6. CASE pass[e] = "plan" /\ Applies(e)
  BY <1>4, <1>6, AppliesInv
<1>7. CASE /\ Len(way[e]) + 1 = Len(input[e].path) /\ pc'[e] = "done"
           /\ pass[e] = "apply" /\ pass'[e] = pass[e] /\ climb'[e] = climb[e]
           /\ way'[e] = further
  <2>1. WayInv(e)'
    BY <1>2, <1>3, <1>7 DEF WayInv, Working
  <2>2. DepthInv(e)'
    BY <1>7 DEF DepthInv, Working
  <2>3. MadeInv(e)'
    BY <1>7 DEF MadeInv
  <2> QED
    BY <2>1, <2>2, <2>3 DEF VendInv
<1> QED
  BY <1>5, <1>6, <1>7, DescendMoved DEF further

\* The steps that leave the tree alone: a move of the vend within its code.
LEMMA BeginInv ==
  ASSUME TypeOK, Legal(ou), NEW e \in Vends, VendInv(e), Begin(e)
  PROVE  Moved(e) /\ VendInv(e)'
<1>1. pc[e] = "idle" /\ pc' = [pc EXCEPT ![e] = Entered(e)]
      /\ UNCHANGED <<ou, input, pass, climb, way, seen>>
  BY DEF Begin, Starts, Go
<1>2. \/ Entered(e) = "refused" /\ ~Fits(e)
      \/ Entered(e) = "find" /\ Fits(e)
      \/ Entered(e) = "climb" /\ input[e].base \in Ids
  BY EnteredRight DEF VendInv, WayInv
<1>3. Moved(e) /\ pc'[e] = Entered(e)
  BY <1>1, <1>2, GoMoved DEF Places, Ended
<1>4. /\ way[e] = <<>> /\ Len(way[e]) = 0 /\ Len(input[e].path) > 0
      /\ climb[e] = Bottom(e) /\ Made(e) = {}
  BY <1>1, VendTyped DEF VendInv, WayInv, DepthInv, MadeInv
<1>5. WayInv(e)'
  BY <1>1, <1>2, <1>3, <1>4 DEF VendInv, WayInv, Working, OnWay, Containers, Ids, Level
<1>6. DepthInv(e)'
  <2>1. Level(input[e].base) \in Nat
    BY TreeTyped DEF VendInv, WayInv, Level, Containers
  <2>2. climb'[e].at = input[e].base /\ climb'[e].depth = 1
    BY <1>1, <1>4 DEF Bottom
  <2>3. /\ Level(climb[e].at)' = Level(input[e].base) /\ Ids' = Ids
        /\ Level(input[e].base)' = Level(input[e].base) /\ (Fits(e)' <=> Fits(e))
    BY <1>1, <2>2 DEF Level, Ids, Fits
  <2> QED
    BY <1>2, <1>3, <2>1, <2>2, <2>3 DEF DepthInv, Working
<1>7. MadeInv(e)'
  BY <1>1, <1>2, <1>3, <1>4 DEF VendInv, MadeInv, Made, Ids
<1> QED
  BY <1>3, <1>5, <1>6, <1>7 DEF VendInv

LEMMA GoInv ==
  ASSUME TypeOK, Legal(ou), NEW e \in Vends, VendInv(e),
         NEW l \in Places \ {"idle", "climb", "done"},
         pc' = [pc EXCEPT ![e] = l], UNCHANGED <<ou, input, pass, climb, way, seen>>,
         l \in Working => Len(way[e]) < Len(input[e].path) /\ (~input[e].blind => Fits(e)),
         l = "refused" => ~Fits(e),
         l = "tooDeep" => input[e].blind,
         l = "refused" => Made(e) = {},
         l \in {"create", "refind"} => pass[e] = "apply"
  PROVE  Moved(e) /\ VendInv(e)'
<1>1. Moved(e) /\ pc'[e] = l
  BY GoMoved
<1>2. /\ Containers' = Containers /\ Ids' = Ids /\ Made(e)' = Made(e)
      /\ (Fits(e)' <=> Fits(e)) /\ \A i \in 1..Len(way[e]) : OnWay(e, i)' <=> OnWay(e, i)
  BY DEF Containers, Ids, Made, Fits, OnWay, Level
<1>3. WayInv(e)'
  BY <1>1, <1>2 DEF VendInv, WayInv
<1>4. DepthInv(e)'
  BY <1>1, <1>2 DEF DepthInv
<1>5. MadeInv(e)'
  BY <1>1, <1>2 DEF VendInv, MadeInv
<1> QED
  BY <1>1, <1>3, <1>4, <1>5 DEF VendInv

LEMMA ClimbInv ==
  ASSUME TypeOK, Legal(ou), NEW e \in Vends, VendInv(e), Climb(e)
  PROVE  Moved(e) /\ VendInv(e)'
<1> DEFINE at == climb[e].at
           depth == climb[e].depth
<1>1. /\ pc[e] = "climb" /\ UNCHANGED <<ou, input, pass, way, seen>>
      /\ at \in Ids /\ Level(at) + depth = Level(input[e].base) + 1
      /\ input[e].base \in Containers
      /\ way[e] = <<>> /\ Made(e) = {} /\ depth \in Nat
  BY VendTyped DEF Climb, VendInv, DepthInv, WayInv, MadeInv
<1>2. /\ at # Root /\ Level(at) = ou[at].level
      /\ ou[at].level = (IF ou[at].up = Root THEN 0 ELSE ou[ou[at].up].level) + 1
      /\ ou[at].up \in Nat /\ (ou[at].up # Root => ou[at].up \in Ids)
      /\ Level(input[e].base) \in Nat
  BY <1>1, TreeTyped DEF Legal, Ids, Level, Root, Containers
<1>3. Len(way[e]) = 0 /\ Len(input[e].path) \in Nat \ {0} /\ MaxOUDepth \in Nat
  BY <1>1, VendTyped, ParametersTyped
<1> HIDE DEF at, depth
<1>4. CASE Go(e, "failed") /\ UNCHANGED climb
  BY <1>1, <1>4, GoInv DEF Go, Places, Ended, Working
<1>5. CASE /\ ou[at].up = Root /\ UNCHANGED climb
           /\ Go(e, IF Overflows(e, depth) THEN "refused" ELSE "find")
  <2>1. depth = Level(input[e].base)
    BY <1>1, <1>2, <1>5
  <2>2. Overflows(e, depth) <=> ~Fits(e)
    BY <1>2, <1>3, <2>1 DEF Overflows, Fits
  <2>3. CASE Overflows(e, depth)
    BY <1>1, <1>5, <2>2, <2>3, GoInv DEF Go, Places, Ended, Working
  <2>4. CASE ~Overflows(e, depth)
    <3>1. pc' = [pc EXCEPT ![e] = "find"] /\ Fits(e) /\ Len(way[e]) < Len(input[e].path)
      BY <1>3, <1>5, <2>2, <2>4 DEF Go
    <3>2. "find" \in Places \ {"idle", "climb", "done"}
      BY DEF Places
    <3> QED
      BY <1>1, <1>5, <3>1, <3>2, GoInv
  <2> QED
    BY <2>3, <2>4
<1>6. CASE /\ ou[at].up # Root /\ UNCHANGED pc
           /\ climb' = [climb EXCEPT ![e] = [at |-> ou[at].up, depth |-> depth + 1]]
  <2>1. climb'[e] = [at |-> ou[at].up, depth |-> depth + 1]
    BY <1>6 DEF TypeOK
  <2>2. Moved(e)
    BY <1>1, <1>2, <1>6 DEF TypeOK, Moved, Places
  <2>3. /\ Containers' = Containers /\ Ids' = Ids /\ Made(e)' = Made(e)
        /\ Level(input[e].base)' = Level(input[e].base)
    BY <1>1 DEF Containers, Ids, Made, Level
  <2>4. Level(climb[e].at)' = ou[ou[at].up].level /\ climb'[e].depth = depth + 1
        /\ climb'[e].at \in Ids
    BY <1>1, <1>2, <1>6, <2>1 DEF Level
  <2>5. DepthInv(e)'
    <3>1. Level(climb[e].at)' + climb'[e].depth = Level(input[e].base) + 1
      BY <1>1, <1>2, <1>6, <2>4, TreeTyped
    <3> QED
      BY <1>1, <1>6, <2>3, <2>4, <3>1 DEF DepthInv, Working
  <2>6. WayInv(e)'
    BY <1>1, <1>3, <1>6, <2>3 DEF WayInv, Working
  <2>7. MadeInv(e)'
    BY <1>1, <1>6, <2>3 DEF VendInv, MadeInv
  <2> QED
    BY <2>2, <2>5, <2>6, <2>7 DEF VendInv
<1> QED
  BY <1>4, <1>5, <1>6 DEF Climb, at, depth

LEMMA DepthlessInv ==
  ASSUME TypeOK, Legal(ou), NEW e \in Vends, VendInv(e), Depthless(e)
  PROVE  Moved(e) /\ VendInv(e)'
<1>1. way[e] = <<>> /\ Len(way[e]) = 0 /\ Len(input[e].path) > 0
  BY VendTyped DEF Depthless, VendInv, WayInv
<1> QED
  BY <1>1, GoInv DEF Depthless, Go, Places, Working

LEMMA SameTree ==
  ASSUME Legal(ou), UNCHANGED ou
  PROVE  Legal(ou)' /\ Kept /\ Ids' = Ids
BY TreeTyped DEF Legal, Kept, Ids

\* An OU found under the current one is the next on the way.
LEMMA FoundInv ==
  ASSUME TypeOK, Legal(ou), NEW e \in Vends, VendInv(e), pc[e] \in Working,
         NEW o \in Named(Cur(e), Name(e)), Descend(e, o), UNCHANGED <<ou, input>>
  PROVE  Moved(e) /\ VendInv(e)'
<1>1. /\ o \in Ids /\ o \in Nat /\ ou'[o].up = Cur(e) /\ ou'[o].name = Name(e)
      /\ o \in Ids'
  BY TreeTyped, SameTree DEF Named, Children
<1>2. Legal(ou)' /\ Kept
  BY SameTree
<1> QED
  BY <1>1, <1>2, DescendMoved, DescendInv

LEMMA FindInv ==
  ASSUME TypeOK, Legal(ou), NEW e \in Vends, VendInv(e), Find(e)
  PROVE  Moved(e) /\ VendInv(e)'
<1>1. /\ pc[e] = "find" /\ UNCHANGED <<ou, input>>
      /\ pc[e] \in Working /\ pass[e] \in {"plan", "apply"}
      /\ Len(way[e]) < Len(input[e].path) /\ (~input[e].blind => Fits(e))
  BY DEF Find, Working, TypeOK, VendInv, WayInv, DepthInv
<1>2. CASE \E o \in Named(Cur(e), Name(e)) : Descend(e, o)
  BY <1>1, <1>2, FoundInv
<1>3. CASE Planning(e) /\ Applies(e) /\ UNCHANGED seen
  <2>1. Moved(e)
    BY <1>3, AppliesMoved DEF TypeOK
  <2> QED
    BY <1>1, <1>3, <2>1, AppliesInv DEF Planning
<1>4. CASE ~Planning(e) /\ Go(e, "create") /\ UNCHANGED <<pass, climb, way, seen>>
  <2>1. pass[e] = "apply" /\ "create" \in Places \ {"idle", "climb", "done"}
    BY <1>1, <1>4 DEF Planning, Places
  <2> QED
    BY <1>1, <1>4, <2>1, GoInv DEF Go
<1>5. CASE Go(e, "failed") /\ UNCHANGED <<pass, climb, way, seen>>
  BY <1>1, <1>5, GoInv DEF Go, Places, Ended, Working
<1> QED
  BY <1>2, <1>3, <1>4, <1>5 DEF Find

LEMMA RefindInv ==
  ASSUME TypeOK, Legal(ou), NEW e \in Vends, VendInv(e), Refind(e)
  PROVE  Moved(e) /\ VendInv(e)'
<1>1. pc[e] \in Working /\ UNCHANGED <<ou, input>>
  BY DEF Refind, Working
<1>2. CASE \E o \in Named(Cur(e), Name(e)) : Descend(e, o)
  BY <1>1, <1>2, FoundInv
<1>3. CASE Go(e, "failed") /\ UNCHANGED <<pass, climb, way, seen>>
  BY <1>1, <1>3, GoInv DEF Go, Places, Ended, Working
<1> QED
  BY <1>2, <1>3 DEF Refind

\* AWS has no depth to refuse for when the depth was measured.
LEMMA CreateInv ==
  ASSUME TypeOK, Legal(ou), NEW e \in Vends, VendInv(e), Create(e)
  PROVE  /\ Moved(e) /\ VendInv(e)' /\ Legal(ou)' /\ Kept
         /\ \A o \in Ids' : o \notin Ids => ou'[o].by = e
<1> DEFINE refusal == IF ~Exists(Cur(e)) THEN "failed"
                      ELSE IF Named(Cur(e), Name(e)) # {} THEN "refind" ELSE "tooDeep"
<1>1. /\ pc[e] = "create" /\ UNCHANGED input /\ pc[e] \in Working /\ pass[e] = "apply"
      /\ Len(way[e]) < Len(input[e].path) /\ (~input[e].blind => Fits(e))
  BY DEF Create, Working, VendInv, WayInv, DepthInv, MadeInv
<1>2. /\ Cur(e) \in Containers /\ Level(Cur(e)) = Level(input[e].base) + Len(way[e])
      /\ Level(input[e].base) \in Nat /\ MaxOUDepth \in Nat /\ Name(e) \in Names
      /\ Len(way[e]) \in Nat /\ Len(input[e].path) \in Nat
  <2>1. Len(way[e]) + 1 \in 1..Len(input[e].path)
    BY <1>1, VendTyped
  <2> QED
    BY <2>1, CurRight, VendTyped, ParametersTyped, TreeTyped
    DEF VendInv, WayInv, Name, Level, Containers
<1>3. CASE /\ refusal # "tooDeep" \/ Level(Cur(e)) >= MaxOUDepth
           /\ Go(e, refusal) /\ UNCHANGED <<ou, pass, climb, way, seen>>
  <2>1. refusal = "tooDeep" => input[e].blind
    BY <1>1, <1>2, <1>3 DEF Fits
  <2>2. refusal \in Places \ {"idle", "climb", "done"} /\ refusal \in {"failed", "refind", "tooDeep"}
    BY DEF Places, Ended
  <2> HIDE DEF refusal
  <2>3. Moved(e) /\ VendInv(e)'
    BY <1>1, <1>3, <2>1, <2>2, GoInv DEF Go
  <2> QED
    BY <1>3, <2>3, SameTree
<1>4. CASE /\ refusal = "tooDeep" /\ Level(Cur(e)) < MaxOUDepth
           /\ ou' = Grown(Cur(e), Name(e), e) /\ Descend(e, Len(ou) + 1)
  <2>1. Exists(Cur(e)) /\ Named(Cur(e), Name(e)) = {}
    BY <1>4
  <2>2. /\ Legal(ou)' /\ Kept /\ Len(ou') = Len(ou) + 1
        /\ LET o == Len(ou) + 1 IN
           /\ o \in Ids' /\ ou'[o].up = Cur(e) /\ ou'[o].name = Name(e)
           /\ ou'[o].live /\ ou'[o].by = e
    BY <1>2, <1>4, <2>1, GrownLegal
  <2>3. Len(ou) \in Nat /\ Len(ou) + 1 \in Nat /\ Ids = 1..Len(ou) /\ Ids' = 1..(Len(ou) + 1)
    BY <2>2, TreeTyped DEF Legal, Ids
  <2>4. Moved(e)
    BY <1>4, <2>3, DescendMoved
  <2>5. VendInv(e)'
    BY <1>1, <1>4, <2>2, <2>3, DescendInv
  <2>6. \A o \in Ids' : o \notin Ids => o = Len(ou) + 1
    BY <2>3
  <2> QED
    BY <1>1, <2>1, <2>2, <2>4, <2>5, <2>6
<1> QED
  BY <1>3, <1>4 DEF Create

-----------------------------------------------------------------------------
(* What a plan has shown *)

Depth(e, o) == ou[o].level - Level(input[e].base)

\* The OUs the plan found are there, one per level of the path, each under the last.
Standing(e) ==
  /\ \A o \in seen[e] :
       /\ o \in Ids /\ ou[o].live
       /\ Depth(e, o) \in 1..Len(input[e].path) /\ ou[o].name = input[e].path[Depth(e, o)]
       /\ Depth(e, o) = 1 => ou[o].up = input[e].base
  /\ \A o, p \in seen[e] :
       /\ Depth(e, o) = Depth(e, p) => o = p
       /\ Depth(e, o) = Depth(e, p) + 1 => ou[o].up = p

\* A plan has found only what is on its way, and the apply follows it.
SeenInv(e) ==
  /\ Standing(e)
  /\ pass[e] = "plan" => \A o \in seen[e] : \E i \in 1..Len(way[e]) : o = way[e][i]
  /\ \A i \in 1..Len(way[e]) : Shown(e, i) => way[e][i] \in seen[e]

\* A step leaves what a plan has found, or takes it from what it has shown.
Spared(e) ==
  \A o \in seen'[e] : /\ o \in seen[e] /\ ou'[o].name = ou[o].name
                      /\ ou'[o].live <=> ou[o].live

LEMMA StandingKept ==
  ASSUME Legal(ou), Kept, NEW e \in Vends, input' = input, input[e].base \in Containers,
         Standing(e), Spared(e)
  PROVE  Standing(e)'
<1>1. Level(input[e].base)' = Level(input[e].base)
  BY LevelKept
<1>2. \A o \in seen'[e] : /\ o \in seen[e] /\ o \in Ids' /\ ou'[o].live /\ ou'[o].up = ou[o].up
                          /\ ou'[o].name = ou[o].name /\ Depth(e, o)' = Depth(e, o)
  BY <1>1 DEF Standing, Spared, Kept, Depth
<1>3. ASSUME NEW o \in seen'[e]
      PROVE  /\ o \in Ids' /\ ou'[o].live
             /\ Depth(e, o)' \in 1..Len(input'[e].path)
             /\ ou'[o].name = input'[e].path[Depth(e, o)']
             /\ Depth(e, o)' = 1 => ou'[o].up = input'[e].base
  BY <1>2, <1>3 DEF Standing
<1>4. ASSUME NEW o \in seen'[e], NEW q \in seen'[e]
      PROVE  /\ Depth(e, o)' = Depth(e, q)' => o = q
             /\ Depth(e, o)' = Depth(e, q)' + 1 => ou'[o].up = q
  BY <1>2, <1>4 DEF Standing
<1> QED
  BY <1>3, <1>4 DEF Standing

\* A level that is shown is shown by one OU.
LEMMA ShownBy ==
  ASSUME TypeOK, Legal(ou), NEW e \in Vends, VendInv(e), Standing(e),
         NEW i \in 1..Len(way[e]), NEW o \in seen[e], ou[o].level = Level(input[e].base) + i
  PROVE  Depth(e, o) = i /\ (way[e][i] \in seen[e] => way[e][i] = o)
<1>1. Level(input[e].base) \in Nat /\ i \in Nat /\ Len(way[e]) \in Nat
  BY VendTyped, TreeTyped DEF VendInv, WayInv, Level, Containers
<1>2. Depth(e, o) = i
  BY <1>1 DEF Depth
<1>3. way[e][i] \in seen[e] => Depth(e, way[e][i]) = i
  BY <1>1 DEF Depth, VendInv, WayInv, OnWay
<1> QED
  BY <1>2, <1>3 DEF Standing

LEMMA SeenFramed ==
  ASSUME TypeOK, Legal(ou), Kept, NEW e \in Vends, VendInv(e), SeenInv(e), Spared(e),
         input' = input, way'[e] = way[e], pass'[e] = pass[e]
  PROVE  SeenInv(e)'
<1>1. Standing(e)'
  BY StandingKept DEF SeenInv, VendInv, WayInv
<1>2. ASSUME NEW i \in 1..Len(way[e]), Shown(e, i)'
      PROVE  way[e][i] \in seen'[e]
  <2>1. \A o \in seen'[e] : o \in seen[e] /\ ou'[o].level = ou[o].level
    BY DEF Spared, SeenInv, Standing, Kept
  <2>2. Level(input[e].base)' = Level(input[e].base)
    BY LevelKept DEF VendInv, WayInv
  <2>3. Shown(e, i)
    BY <1>2, <2>1, <2>2 DEF Shown
  <2>4. i \in 1..i
    BY VendTyped
  <2>5. PICK o \in seen'[e] : ou'[o].level = Level(input[e].base) + i
    BY <1>2, <2>2, <2>4 DEF Shown
  <2>6. way[e][i] = o
    BY <2>1, <2>3, <2>5, ShownBy DEF SeenInv
  <2> QED
    BY <2>5, <2>6
<1>3. pass[e] = "plan" => \A o \in seen'[e] : \E i \in 1..Len(way[e]) : o = way[e][i]
  BY DEF SeenInv, Spared
<1> QED
  BY <1>1, <1>2, <1>3 DEF SeenInv

\* The plan is over: its way starts anew, with nothing on it.
LEMMA SeenApplied ==
  ASSUME NEW e \in Vends, Standing(e)', pass'[e] = "apply", way'[e] = <<>>
  PROVE  SeenInv(e)'
<1>1. Len(way'[e]) = 0
  OBVIOUS
<1>2. \A i \in 1..Len(way'[e]) : FALSE
  BY <1>1
<1> QED
  BY <1>2 DEF SeenInv

\* A level that a plan resolves is shown; one that an apply resolves and a plan
\* has shown is the one it has shown.
LEMMA DescendSeen ==
  ASSUME TypeOK, Legal(ou), Legal(ou)', Kept, \A q \in Ids : ou'[q] = ou[q],
         NEW e \in Vends, VendInv(e), SeenInv(e), input' = input, pc[e] \in Working,
         NEW o \in Nat, o \in Ids', ou'[o].up = Cur(e), ou'[o].name = Name(e), ou'[o].live,
         Descend(e, o)
  PROVE  SeenInv(e)'
<1> DEFINE n == Len(way[e]) + 1
<1>1. /\ Level(input[e].base)' = Level(input[e].base) /\ Level(input[e].base) \in Nat
      /\ Len(way[e]) \in Nat /\ n \in 1..Len(input[e].path) /\ Len(input[e].path) \in Nat
      /\ input[e].base \in Containers /\ way[e] \in Seq(Nat)
  BY LevelKept, VendTyped DEF VendInv, WayInv, Working
<1>2. /\ ou'[o].level = Level(input[e].base) + n /\ Depth(e, o)' = n
      /\ n = 1 => ou'[o].up = input[e].base
      /\ n # 1 => ou'[o].up = way[e][n - 1]
  <2>1. ou'[o].level = Level(input[e].base) + Len(way[e]) + 1
    BY NextLevel DEF VendInv
  <2>2. Cur(e) = IF Len(way[e]) = 0 THEN input[e].base ELSE way[e][Len(way[e])]
    BY CurRight DEF VendInv
  <2>3. n - 1 = Len(way[e]) /\ (n = 1 <=> Len(way[e]) = 0)
    BY <1>1
  <2>4. ou'[o].level = Level(input[e].base) + n
    BY <1>1, <2>1
  <2> HIDE DEF n
  <2>5. Depth(e, o)' = n
    BY <1>1, <2>4 DEF Depth
  <2> QED
    BY <2>2, <2>3, <2>4, <2>5
<1>3. /\ \A q \in seen[e] : /\ q \in Ids /\ q \in Ids' /\ ou'[q] = ou[q] /\ Depth(e, q)' = Depth(e, q)
                            /\ Depth(e, q) \in 1..Len(input[e].path)
                            /\ ou[q].name = input[e].path[Depth(e, q)] /\ ou[q].live
                            /\ Depth(e, q) = 1 => ou[q].up = input[e].base
      /\ \A i \in 1..Len(way[e]) : /\ Depth(e, way[e][i]) = i
                                   /\ Shown(e, i) => way[e][i] \in seen[e]
  <2>1. ASSUME NEW i \in 1..Len(way[e])
        PROVE  Depth(e, way[e][i]) = i
    <3>1. ou[way[e][i]].level = Level(input[e].base) + i
      BY DEF VendInv, WayInv, OnWay
    <3> QED
      BY <1>1, <3>1 DEF Depth
  <2>2. \A q \in seen[e] : q \in Ids'  /\ Depth(e, q)' = Depth(e, q)
    BY <1>1 DEF SeenInv, Standing, Kept, Depth
  <2> QED
    BY <2>1, <2>2 DEF SeenInv, Standing
<1>4. \A i \in 1..n : i \in 1..Len(way[e]) \/ i = n
  BY <1>1
<1> HIDE DEF n
<1>5. CASE pass[e] = "plan"
  <2>1. seen'[e] = seen[e] \cup {o}
    BY <1>5, DescendMoved
  <2>2. \A q \in seen[e] : Depth(e, q) \in 1..Len(way[e]) /\ q = way[e][Depth(e, q)]
    BY <1>3, <1>5 DEF SeenInv
  <2>3. Standing(e)'
    <3>1. \A q \in seen'[e] :
            /\ q \in Ids' /\ ou'[q].live
            /\ Depth(e, q)' \in 1..Len(input[e].path)
            /\ ou'[q].name = input[e].path[Depth(e, q)']
            /\ Depth(e, q)' = 1 => ou'[q].up = input[e].base
      <4>1. ou'[o].name = input[e].path[n]
        BY DEF Name, n
      <4> QED
        BY <1>1, <1>2, <1>3, <2>1, <4>1
    <3>2. ASSUME NEW q \in seen'[e], NEW x \in seen'[e]
          PROVE  /\ Depth(e, q)' = Depth(e, x)' => q = x
                 /\ Depth(e, q)' = Depth(e, x)' + 1 => ou'[q].up = x
      <4>1. CASE q \in seen[e] /\ x \in seen[e]
        BY <1>3, <4>1 DEF SeenInv, Standing
      <4>2. CASE q = o /\ x \in seen[e]
        <5>1. Depth(e, x) \in 1..Len(way[e]) /\ x = way[e][Depth(e, x)] /\ Depth(e, x)' = Depth(e, x)
          BY <1>3, <2>2, <4>2
        <5>2. Depth(e, q)' = n /\ (n # 1 => ou'[q].up = way[e][n - 1])
          BY <1>2, <4>2
        <5>3. Depth(e, q)' # Depth(e, x)'
          BY <1>1, <5>1, <5>2 DEF n
        <5>4. Depth(e, q)' = Depth(e, x)' + 1 => n # 1 /\ n - 1 = Depth(e, x)
          BY <1>1, <5>1, <5>2 DEF n
        <5> QED
          BY <5>1, <5>2, <5>3, <5>4
      <4>3. CASE q \in seen[e] /\ x = o
        <5>1. Depth(e, q)' \in 1..Len(way[e]) /\ Depth(e, x)' = n
          BY <1>2, <1>3, <2>2, <4>3
        <5> QED
          BY <1>1, <5>1 DEF n
      <4>4. CASE q = o /\ x = o
        BY <1>1, <1>2, <4>4
      <4> QED
        BY <2>1, <4>1, <4>2, <4>3, <4>4
    <3> QED
      BY <3>1, <3>2 DEF Standing
  <2>4. CASE pass'[e] = "apply" /\ way'[e] = <<>>
    BY <2>3, <2>4, SeenApplied
  <2>5. CASE way'[e] = Append(way[e], o)
    <3>1. /\ Len(way'[e]) = n /\ way'[e][n] = o /\ \A i \in 1..Len(way[e]) : way'[e][i] = way[e][i]
      BY <1>1, <2>5 DEF n
    <3>2. ASSUME NEW q \in seen'[e]
          PROVE  \E i \in 1..n : q = way'[e][i]
      <4>1. CASE q = o
        BY <1>1, <3>1, <4>1
      <4>2. CASE q \in seen[e]
        <5>1. Depth(e, q) \in 1..n
          BY <1>1, <2>2, <4>2 DEF n
        <5> QED
          BY <2>2, <3>1, <4>2, <5>1
      <4> QED
        BY <2>1, <4>1, <4>2
    <3>3. ASSUME NEW i \in 1..n, Shown(e, i)'
          PROVE  way'[e][i] \in seen'[e]
      <4>1. CASE i = n
        BY <2>1, <3>1, <4>1
      <4>2. CASE i \in 1..Len(way[e])
        <5>1. i \in 1..i
          BY <1>1, <4>2
        <5>2. PICK q \in seen'[e] : ou'[q].level = Level(input[e].base) + i
          BY <1>1, <3>3, <5>1 DEF Shown
        <5>3. Depth(e, q)' = i
          BY <1>1, <4>2, <5>2 DEF Depth
        <5>4. q # o
          BY <1>1, <1>2, <4>2, <5>3 DEF n
        <5>5. q = way[e][i]
          BY <1>3, <2>1, <2>2, <5>3, <5>4
        <5> QED
          BY <3>1, <4>2, <5>5
      <4> QED
        BY <1>4, <4>1, <4>2
    <3> QED
      BY <2>3, <3>1, <3>2, <3>3 DEF SeenInv
  <2> QED
    BY <1>5, <2>4, <2>5, DescendMoved
<1>6. CASE pass[e] = "apply"
  <2>1. /\ seen'[e] = seen[e] /\ pass'[e] = "apply" /\ way'[e] = Append(way[e], o)
    BY <1>6, DescendMoved
  <2>2. /\ Len(way'[e]) = n /\ way'[e][n] = o /\ \A i \in 1..Len(way[e]) : way'[e][i] = way[e][i]
    BY <1>1, <2>1 DEF n
  <2>3. Standing(e)'
    BY <1>1, <1>3, <2>1, StandingKept DEF Spared, SeenInv
  <2>4. \A i \in 1..n : Shown(e, i)' => Shown(e, i)
    BY <1>1, <1>3, <2>1 DEF Shown
  <2>5. ASSUME Shown(e, n)
        PROVE  o \in seen[e]
    <3>1. n \in 1..n
      BY <1>1
    <3>2. PICK q \in seen[e] : ou[q].level = Level(input[e].base) + n
      BY <2>5, <3>1 DEF Shown
    <3>3. Depth(e, q) = n
      BY <1>1, <3>2 DEF Depth
    <3>4. ou'[q].live /\ ou'[q].name = Name(e) /\ q \in Ids'
      BY <1>3, <3>3 DEF Name, n
    <3>5. ou'[q].up = ou'[o].up
      <4>1. CASE n = 1
        BY <1>2, <1>3, <3>3, <4>1
      <4>2. CASE n # 1
        <5>1. n - 1 \in 1..Len(way[e]) /\ \A j \in 1..(n - 1) : j \in 1..n
          BY <1>1, <4>2 DEF n
        <5>2. Shown(e, n - 1)
          BY <2>5, <5>1 DEF Shown
        <5>3. way[e][n - 1] \in seen[e] /\ Depth(e, way[e][n - 1]) = n - 1
          BY <1>3, <5>1, <5>2
        <5>4. ou[q].up = way[e][n - 1]
          BY <1>1, <3>3, <5>3 DEF SeenInv, Standing
        <5> QED
          BY <1>2, <1>3, <4>2, <5>4
      <4> QED
        BY <4>1, <4>2
    <3>6. q = o
      BY <3>4, <3>5 DEF Legal, Ids
    <3> QED
      BY <3>6
  <2>6. ASSUME NEW i \in 1..n, Shown(e, i)'
        PROVE  way'[e][i] \in seen'[e]
    BY <1>3, <1>4, <2>1, <2>2, <2>4, <2>5, <2>6
  <2> QED
    BY <2>1, <2>2, <2>3, <2>6 DEF SeenInv
<1> QED
  BY <1>5, <1>6 DEF TypeOK

LEMMA SeenStill ==
  ASSUME TypeOK, Legal(ou), NEW e \in Vends, VendInv(e), SeenInv(e), UNCHANGED <<ou, input>>,
         seen'[e] = seen[e], pass'[e] = pass[e], way'[e] = way[e]
  PROVE  SeenInv(e)'
<1>1. Kept /\ Spared(e)
  BY SameTree DEF Spared
<1> QED
  BY <1>1, SeenFramed

LEMMA FoundSeen ==
  ASSUME TypeOK, Legal(ou), NEW e \in Vends, VendInv(e), SeenInv(e), pc[e] \in Working,
         NEW o \in Named(Cur(e), Name(e)), Descend(e, o), UNCHANGED <<ou, input>>
  PROVE  SeenInv(e)'
<1>1. /\ o \in Ids /\ o \in Nat /\ ou'[o].up = Cur(e) /\ ou'[o].name = Name(e)
      /\ ou'[o].live /\ o \in Ids'
  BY TreeTyped, SameTree DEF Named, Children
<1>2. Legal(ou)' /\ Kept /\ \A q \in Ids : ou'[q] = ou[q]
  BY SameTree
<1> QED
  BY <1>1, <1>2, DescendSeen

\* Every step of a vend.
LEMMA VendSeen ==
  ASSUME TypeOK, Legal(ou), NEW e \in Vends, VendInv(e), SeenInv(e),
         Begin(e) \/ VendStep(e) \/ Stop(e)
  PROVE  SeenInv(e)' /\ \A o \in Ids : ou'[o] = ou[o]
<1>1. CASE Begin(e) \/ Climb(e) \/ Depthless(e) \/ Stop(e)
  <2>1. UNCHANGED <<ou, input, pass, way, seen>>
    BY <1>1 DEF Begin, Climb, Depthless, Stop
  <2> QED
    BY <2>1, SeenStill
<1>2. CASE Find(e)
  <2>1. pc[e] \in Working /\ UNCHANGED <<ou, input>>
    BY <1>2 DEF Find, Working
  <2>2. CASE \E o \in Named(Cur(e), Name(e)) : Descend(e, o)
    BY <2>1, <2>2, FoundSeen
  <2>3. CASE Applies(e) /\ UNCHANGED seen
    <3>1. Kept /\ Spared(e) /\ pass'[e] = "apply" /\ way'[e] = <<>>
      BY <2>1, <2>3, SameTree DEF Spared, Applies, TypeOK
    <3>2. Standing(e)'
      BY <2>1, <3>1, StandingKept DEF SeenInv, VendInv, WayInv
    <3> QED
      BY <2>1, <3>1, <3>2, SeenApplied
  <2>4. CASE UNCHANGED <<pass, climb, way, seen>>
    BY <2>1, <2>4, SeenStill
  <2> QED
    BY <1>2, <2>1, <2>2, <2>3, <2>4 DEF Find
<1>3. CASE Create(e)
  <2>1. pc[e] \in Working /\ input' = input
    BY <1>3 DEF Create, Working
  <2>2. CASE UNCHANGED <<ou, pass, climb, way, seen>>
    BY <2>1, <2>2, SeenStill
  <2>3. CASE /\ Exists(Cur(e)) /\ Named(Cur(e), Name(e)) = {} /\ Level(Cur(e)) < MaxOUDepth
             /\ ou' = Grown(Cur(e), Name(e), e) /\ Descend(e, Len(ou) + 1)
    <3>1. Cur(e) \in Containers /\ Name(e) \in Names
      <4>1. Len(way[e]) + 1 \in 1..Len(input[e].path)
        BY <2>1, VendTyped DEF VendInv, WayInv, Working
      <4> QED
        BY <4>1, CurRight, VendTyped DEF VendInv, Name
    <3>2. /\ Legal(ou)' /\ Kept /\ \A o \in Ids : ou'[o] = ou[o]
          /\ LET o == Len(ou) + 1 IN
             /\ o \in Ids' /\ ou'[o].up = Cur(e) /\ ou'[o].name = Name(e) /\ ou'[o].live
      BY <2>3, <3>1, GrownLegal
    <3>3. Len(ou) + 1 \in Nat
      BY TreeTyped
    <3> QED
      BY <2>1, <2>3, <3>2, <3>3, DescendSeen
  <2> QED
    BY <1>3, <2>2, <2>3 DEF Create
<1>4. CASE Refind(e)
  <2>1. pc[e] \in Working /\ UNCHANGED <<ou, input>>
    BY <1>4 DEF Refind, Working
  <2>2. CASE \E o \in Named(Cur(e), Name(e)) : Descend(e, o)
    BY <2>1, <2>2, FoundSeen
  <2>3. CASE UNCHANGED <<pass, climb, way, seen>>
    BY <2>1, <2>3, SeenStill
  <2> QED
    BY <1>4, <2>2, <2>3 DEF Refind
<1> QED
  BY <1>1, <1>2, <1>3, <1>4 DEF VendStep

-----------------------------------------------------------------------------
(* Two vends of one path *)

\* Level by level, vends of one path resolve the same OU while it lives.
PathsAgree(d, e) ==
  input[d].base = input[e].base /\ input[d].path = input[e].path
  /\ NamesOf(d) \cap Renamable = {} =>
    \A k \in 1..Len(way[d]) :
      k <= Len(way[e]) /\ ou[way[d][k]].live /\ ou[way[e][k]].live => way[d][k] = way[e][k]

Agreeing == \A d, e \in Vends : PathsAgree(d, e)

\* Where two ways agree a level above, the next OUs are siblings of one name.
LEMMA SiblingsAgree ==
  ASSUME Legal(ou)', NEW d \in Vends, NEW e \in Vends,
         input'[d] \in Input,
         input'[d].base = input'[e].base, input'[d].path = input'[e].path,
         (NamesOf(d) \cap Renamable = {})',
         NEW k \in Nat \ {0}, k <= Len(input'[d].path), OnWay(d, k)', OnWay(e, k)',
         ou'[way'[d][k]].live, ou'[way'[e][k]].live,
         k # 1 => /\ way'[d][k - 1] \in Ids' /\ way'[e][k - 1] \in Ids'
                  /\ ou'[way'[d][k - 1]].live /\ ou'[way'[e][k - 1]].live
                       => way'[d][k - 1] = way'[e][k - 1]
  PROVE  way'[d][k] = way'[e][k]
<1> DEFINE x == way'[d][k]
           y == way'[e][k]
<1>1. x \in Ids' /\ y \in Ids' /\ Root \notin Ids'
  BY DEF OnWay, Legal, Ids, Root
<1>2. ou'[x].up = ou'[y].up
  <2>1. CASE k = 1
    BY <2>1 DEF OnWay
  <2>2. CASE k # 1
    <3>1. ou'[x].up = way'[d][k - 1] /\ ou'[y].up = way'[e][k - 1]
      BY <2>2 DEF OnWay
    <3>2. ou'[x].up # Root /\ ou'[y].up # Root
      BY <1>1, <2>2, <3>1
    <3>3. ou'[ou'[x].up].live /\ ou'[ou'[y].up].live
      BY <1>1, <3>2 DEF Legal, Ids
    <3> QED
      BY <2>2, <3>1, <3>3
  <2> QED
    BY <2>1, <2>2
<1>3. ou'[x].name = ou'[y].name
  <2>1. k \in DOMAIN input'[d].path
    <3>1. input'[d].path \in Seq(Names)
      BY DEF Input
    <3> QED
      BY <3>1
  <2>2. input'[d].path[k] \notin Renamable
    BY <2>1 DEF NamesOf
  <2> QED
    BY <2>2 DEF OnWay
<1> QED
  BY <1>1, <1>2, <1>3 DEF Legal, Ids

\* A step of another vend, or of nobody's: what lives has lived.
LEMMA AgreeFramed ==
  ASSUME TypeOK, Kept, NEW d \in Vends, NEW e \in Vends, VendInv(d), VendInv(e),
         PathsAgree(d, e), input' = input, way'[d] = way[d], way'[e] = way[e]
  PROVE  PathsAgree(d, e)'
<1>1. /\ \A k \in 1..Len(way[d]) : way[d][k] \in Ids
      /\ \A k \in 1..Len(way[e]) : way[e][k] \in Ids
      /\ Len(way[d]) \in Nat /\ Len(way[e]) \in Nat
  BY VendTyped DEF VendInv, WayInv, OnWay
<1>2. \A k \in 1..Len(way[d]) : k <= Len(way[e]) => k \in 1..Len(way[e])
  BY <1>1
<1>3. NamesOf(d)' = NamesOf(d)
  BY DEF NamesOf
<1> QED
  BY <1>1, <1>2, <1>3 DEF PathsAgree, Kept

LEMMA AgreeSymmetric ==
  ASSUME TypeOK, NEW d \in Vends, NEW e \in Vends, PathsAgree(d, e)
  PROVE  PathsAgree(e, d)
<1>1. Len(way[d]) \in Nat /\ Len(way[e]) \in Nat
  BY VendTyped
<1>2. input[d].path = input[e].path => NamesOf(d) = NamesOf(e)
  BY DEF NamesOf
<1> QED
  BY <1>1, <1>2 DEF PathsAgree

\* The step of one of the two.
LEMMA AgreeTurn ==
  ASSUME TypeOK, Kept, Legal(ou)', NEW d \in Vends, NEW e \in Vends, d # e,
         VendInv(d), VendInv(e), VendInv(d)', VendInv(e)', PathsAgree(d, e), input' = input, Moved(e)
  PROVE  PathsAgree(d, e)'
<1>1. way'[d] = way[d] /\ way'[d] \in Seq(Nat) /\ Len(way[d]) \in Nat /\ Len(way[e]) \in Nat
      /\ way[e] \in Seq(Nat)
  BY VendTyped DEF Moved
<1>2. CASE way'[e] = way[e]
  BY <1>1, <1>2, AgreeFramed
<1>3. CASE way'[e] = <<>>
  BY <1>1, <1>3 DEF PathsAgree
<1>4. CASE \E o \in Nat : way'[e] = Append(way[e], o)
  <2>1. Len(way'[e]) = Len(way[e]) + 1 /\ \A k \in 1..Len(way[e]) : way'[e][k] = way[e][k]
    BY <1>1, <1>4
  <2>2. SUFFICES ASSUME input[d].base = input[e].base, input[d].path = input[e].path,
                        (NamesOf(d) \cap Renamable = {})',
                        NEW k \in 1..Len(way[d]), k <= Len(way'[e]),
                        ou'[way[d][k]].live, ou'[way'[e][k]].live
                 PROVE  way[d][k] = way'[e][k]
    BY <1>1 DEF PathsAgree
  <2>3. /\ \A j \in 1..Len(way[d]) : j <= Len(way[e]) /\ ou[way[d][j]].live /\ ou[way[e][j]].live
                                     => way[d][j] = way[e][j]
    BY <2>2 DEF PathsAgree, NamesOf
  <2>4. /\ \A j \in 1..Len(way[d]) : way[d][j] \in Ids
        /\ \A j \in 1..Len(way[e]) : way[e][j] \in Ids
    BY DEF VendInv, WayInv, OnWay
  <2>5. CASE k <= Len(way[e])
    <3>1. k \in 1..Len(way[e]) /\ way'[e][k] = way[e][k]
      BY <1>1, <2>1, <2>5
    <3> QED
      BY <2>2, <2>3, <2>4, <2>5, <3>1 DEF Kept
  <2>6. CASE k = Len(way[e]) + 1
    <3>1. /\ OnWay(d, k)' /\ OnWay(e, k)' /\ k \in Nat \ {0} /\ k <= Len(input[d].path)
      <4>1. k \in Nat \ {0} /\ k \in 1..Len(way'[d]) /\ k \in 1..Len(way'[e])
        BY <1>1, <2>1, <2>2, <2>6
      <4>2. OnWay(d, k)' /\ OnWay(e, k)'
        BY <4>1 DEF VendInv, WayInv
      <4>3. Len(way[d]) <= Len(input[d].path)
        BY DEF VendInv, WayInv
      <4>4. Len(input[d].path) \in Nat
        BY VendTyped
      <4> QED
        BY <1>1, <4>1, <4>2, <4>3, <4>4
    <3>2. input'[d] \in Input /\ input'[e] \in Input
      BY VendTyped
    <3>3. ASSUME k # 1
          PROVE  /\ way'[d][k - 1] \in Ids' /\ way'[e][k - 1] \in Ids'
                 /\ ou'[way'[d][k - 1]].live /\ ou'[way'[e][k - 1]].live
                      => way'[d][k - 1] = way'[e][k - 1]
      <4>1. k - 1 \in 1..Len(way[d]) /\ k - 1 \in 1..Len(way[e]) /\ k - 1 <= Len(way[e])
        BY <1>1, <2>6, <3>3
      <4>2. way'[d][k - 1] = way[d][k - 1] /\ way'[e][k - 1] = way[e][k - 1]
        BY <1>1, <2>1, <4>1
      <4> QED
        BY <2>3, <2>4, <4>1, <4>2 DEF Kept
    <3>4. way'[d][k] = way'[e][k]
      BY <1>1, <2>2, <3>1, <3>2, <3>3, SiblingsAgree
    <3> QED
      BY <1>1, <3>4
  <2>7. k <= Len(way[e]) \/ k = Len(way[e]) + 1
    BY <1>1, <2>1, <2>2
  <2> QED
    BY <2>5, <2>6, <2>7
<1> QED
  BY <1>2, <1>3, <1>4 DEF Moved

-----------------------------------------------------------------------------
(* One list *)

Walk == [front : SUBSET Nat, below : SUBSET Nat, reading : Nat, depth : Nat,
         listed : SUBSET (Accounts \X Nat), calm : SUBSET Accounts]

\* What is still to be read lies as deep as the walk says.
WalkInv(w) ==
  /\ Base[w] \in Containers
  /\ \A c \in walk[w].front :
       c \in Containers /\ Level(c) = Level(Base[w]) + walk[w].depth
  /\ \A c \in walk[w].below :
       c \in Containers /\ Level(c) = Level(Base[w]) + walk[w].depth + 1
  /\ pc[w] # "tooDeep"

LEMMA WalkTyped ==
  ASSUME TypeOK, NEW w \in Lists
  PROVE  /\ walk[w] \in Walk /\ walk[w].front \subseteq Nat /\ walk[w].below \subseteq Nat
         /\ walk[w].reading \in Nat /\ walk[w].depth \in Nat
         /\ walk[w].listed \subseteq Accounts \X Nat /\ walk[w].calm \subseteq Accounts
<1>1. walk[w] \in Walk
  BY DEF TypeOK, Walk
<1> QED
  BY <1>1 DEF Walk

LEMMA WalkFramed ==
  ASSUME Legal(ou), Kept, NEW w \in Lists, WalkInv(w), pc'[w] # "tooDeep",
         walk'[w].front = walk[w].front, walk'[w].below = walk[w].below,
         walk'[w].depth = walk[w].depth
  PROVE  WalkInv(w)'
<1>1. \A c \in Containers : c \in Containers' /\ Level(c)' = Level(c)
  BY LevelKept
<1>2. Base[w] \in Containers' /\ Level(Base[w])' = Level(Base[w])
  BY <1>1 DEF WalkInv
<1>3. ASSUME NEW c \in walk[w].front
      PROVE  c \in Containers' /\ Level(c)' = Level(Base[w])' + walk'[w].depth
  BY <1>1, <1>2, <1>3 DEF WalkInv
<1>4. ASSUME NEW c \in walk[w].below
      PROVE  c \in Containers' /\ Level(c)' = Level(Base[w])' + walk'[w].depth + 1
  BY <1>1, <1>2, <1>4 DEF WalkInv
<1> QED
  BY <1>2, <1>3, <1>4 DEF WalkInv

\* The vends do not move: what a step of a list or of people leaves to show.
ListsOnly ==
  /\ UNCHANGED <<input, pass, climb, way>> /\ seen' \in [Vends -> SUBSET Nat]
  /\ \A e \in Vends : pc'[e] = pc[e]
  /\ pc' \in [Vends \cup Lists -> Places]
  /\ walk' \in [Lists -> Walk]

LEMMA LevelBelow ==
  ASSUME Legal(ou), NEW c \in Containers, NEW o \in Children(c)
  PROVE  o \in Containers /\ o \in Nat /\ Level(o) = Level(c) + 1
<1>1. o \in Ids /\ ou[o].up = c /\ o # Root /\ o \in Nat
  BY TreeTyped DEF Children, Root
<1>2. ou[o].level = (IF c = Root THEN 0 ELSE ou[c].level) + 1
  BY <1>1 DEF Legal, Ids
<1> QED
  BY <1>1, <1>2 DEF Level, Containers

LEMMA ListTurn ==
  ASSUME TypeOK, Legal(ou), NEW w \in Lists, WalkInv(w),
         BeginList(w) \/ ListStep(w)
  PROVE  /\ ListsOnly /\ UNCHANGED <<ou, parent, seen>> /\ WalkInv(w)'
         /\ \A u \in Lists \ {w} : walk'[u] = walk[u] /\ pc'[u] = pc[u]
<1>1. /\ UNCHANGED <<ou, parent, input, pass, climb, way, seen>>
      /\ seen \in [Vends -> SUBSET Nat]
      /\ walk \in [Lists -> Walk] /\ pc \in [Vends \cup Lists -> Places]
      /\ \A e \in Vends : e # w
  BY ParametersTyped DEF BeginList, ListStep, ListOUs, ListAccounts, TypeOK, Walk, Places
<1>2. /\ walk[w] \in Walk /\ walk[w].depth \in Nat /\ walk[w].reading \in Nat
      /\ walk[w].front \subseteq Nat /\ walk[w].below \subseteq Nat
      /\ walk[w].listed \subseteq Accounts \X Nat
  BY WalkTyped
<1>3. Legal(ou)' /\ Kept
  BY <1>1, SameTree
<1>4. ASSUME NEW l \in Places \ {"tooDeep"}, pc' = [pc EXCEPT ![w] = l], UNCHANGED walk
      PROVE  /\ ListsOnly /\ WalkInv(w)'
             /\ \A u \in Lists \ {w} : walk'[u] = walk[u] /\ pc'[u] = pc[u]
  <2>1. pc'[w] = l
    BY <1>1, <1>4
  <2>2. WalkInv(w)'
    BY <1>3, <1>4, <2>1, WalkFramed
  <2> QED
    BY <1>1, <1>4, <2>2 DEF ListsOnly
<1>5. ASSUME NEW l \in Places, NEW x \in Walk,
             pc' = [pc EXCEPT ![w] = l], walk' = [walk EXCEPT ![w] = x]
      PROVE  /\ ListsOnly /\ pc'[w] = l /\ walk'[w] = x
             /\ \A u \in Lists \ {w} : walk'[u] = walk[u] /\ pc'[u] = pc[u]
  BY <1>1, <1>5 DEF ListsOnly
<1>6. CASE BeginList(w)
  <2> DEFINE x == [walk[w] EXCEPT !.calm = Accounts]
  <2>1. /\ x \in Walk /\ walk' = [walk EXCEPT ![w] = x] /\ pc' = [pc EXCEPT ![w] = "ous"]
        /\ x.front = walk[w].front /\ x.below = walk[w].below /\ x.depth = walk[w].depth
    BY <1>2, <1>6 DEF BeginList, Starts, Go, Walk
  <2> HIDE DEF x
  <2>2. /\ ListsOnly /\ pc'[w] = "ous" /\ walk'[w] = x
        /\ \A u \in Lists \ {w} : walk'[u] = walk[u] /\ pc'[u] = pc[u]
    BY <1>5, <2>1 DEF Places
  <2>3. WalkInv(w)'
    BY <1>3, <2>1, <2>2, WalkFramed
  <2> QED
    BY <1>1, <2>2, <2>3
<1>7. CASE ListOUs(w)
  <2>1. PICK c \in walk[w].front :
          \/ /\ Exists(c) /\ Go(w, "accounts")
             /\ walk' = [walk EXCEPT ![w].reading = c, ![w].below = @ \cup Children(c)]
          \/ ~Exists(c) /\ Go(w, "failed") /\ UNCHANGED walk
    BY <1>7 DEF ListOUs
  <2>2. CASE ~Exists(c) /\ Go(w, "failed") /\ UNCHANGED walk
    BY <1>1, <1>4, <2>2 DEF Go, Places, Ended
  <2>3. CASE /\ Exists(c) /\ Go(w, "accounts")
             /\ walk' = [walk EXCEPT ![w].reading = c, ![w].below = @ \cup Children(c)]
    <3> DEFINE x == [walk[w] EXCEPT !.reading = c, !.below = @ \cup Children(c)]
    <3>1. c \in Containers /\ c \in Nat /\ Level(c) = Level(Base[w]) + walk[w].depth
      BY <1>2 DEF WalkInv
    <3>2. \A o \in Children(c) : /\ o \in Containers /\ o \in Nat
                                 /\ Level(o) = Level(Base[w]) + walk[w].depth + 1
      BY <3>1, LevelBelow
    <3>3. /\ x \in Walk /\ walk' = [walk EXCEPT ![w] = x] /\ pc' = [pc EXCEPT ![w] = "accounts"]
          /\ x.front = walk[w].front /\ x.below = walk[w].below \cup Children(c)
          /\ x.depth = walk[w].depth
      BY <1>1, <1>2, <2>3, <3>1, <3>2 DEF Go, Walk
    <3> HIDE DEF x
    <3>4. /\ ListsOnly /\ pc'[w] = "accounts" /\ walk'[w] = x
          /\ \A u \in Lists \ {w} : walk'[u] = walk[u] /\ pc'[u] = pc[u]
      BY <1>5, <3>3 DEF Places
    <3>5. WalkInv(w)'
      BY <1>1, <3>2, <3>3, <3>4 DEF WalkInv, Level, Containers, Ids
    <3> QED
      BY <1>1, <3>4, <3>5
  <2> QED
    BY <1>1, <2>1, <2>2, <2>3
<1>8. CASE ListAccounts(w)
  <2> DEFINE c == walk[w].reading
             rest == walk[w].front \ {c}
             listed == walk[w].listed \cup {<<a, c>> : a \in {b \in Accounts : parent[b] = c}}
             depth == walk[w].depth + 1
             there == IF walk[w].below = {} THEN "done"
                      ELSE IF depth > MaxOUDepth THEN "tooDeep" ELSE "ous"
             x == [walk[w] EXCEPT !.front = rest, !.listed = listed]
             y == [walk[w] EXCEPT !.front = walk[w].below, !.below = {},
                                  !.depth = depth, !.listed = listed]
  <2>1. CASE ~Exists(c) /\ Go(w, "failed") /\ UNCHANGED walk
    BY <1>1, <1>4, <2>1 DEF Go, Places, Ended
  <2>2. listed \subseteq Accounts \X Nat /\ depth \in Nat /\ rest \subseteq Nat
    BY <1>2
  <2>3. CASE /\ Go(w, "ous")
             /\ walk' = [walk EXCEPT ![w].front = rest, ![w].listed = listed]
    <3>1. /\ x \in Walk /\ walk' = [walk EXCEPT ![w] = x] /\ pc' = [pc EXCEPT ![w] = "ous"]
          /\ x.front \subseteq walk[w].front /\ x.below = walk[w].below /\ x.depth = walk[w].depth
      BY <1>2, <2>2, <2>3 DEF Go, Walk
    <3> HIDE DEF x
    <3>2. /\ ListsOnly /\ pc'[w] = "ous" /\ walk'[w] = x
          /\ \A u \in Lists \ {w} : walk'[u] = walk[u] /\ pc'[u] = pc[u]
      BY <1>5, <3>1 DEF Places
    <3>3. WalkInv(w)'
      BY <1>1, <3>1, <3>2 DEF WalkInv, Level, Containers, Ids
    <3> QED
      BY <1>1, <3>2, <3>3
  <2>4. CASE /\ Go(w, there)
             /\ walk' = [walk EXCEPT ![w].front = walk[w].below, ![w].below = {},
                                     ![w].depth = depth, ![w].listed = listed]
    <3>1. /\ y \in Walk /\ walk' = [walk EXCEPT ![w] = y] /\ pc' = [pc EXCEPT ![w] = there]
          /\ y.front = walk[w].below /\ y.below = {} /\ y.depth = walk[w].depth + 1
      BY <1>2, <2>2, <2>4 DEF Go, Walk
    <3>2. there # "tooDeep"
      <4>1. SUFFICES ASSUME NEW o \in walk[w].below
                     PROVE  ~(depth > MaxOUDepth)
        OBVIOUS
      <4>2. /\ o \in Containers /\ Level(o) = Level(Base[w]) + walk[w].depth + 1
            /\ Base[w] \in Containers
        BY DEF WalkInv
      <4>3. Level(Base[w]) \in Nat /\ Level(o) \in Nat /\ Level(o) <= MaxOUDepth /\ MaxOUDepth \in Nat
        BY <4>2, TreeTyped, ParametersTyped DEF Level, Containers, Legal, Ids
      <4> QED
        BY <1>2, <4>2, <4>3
    <3>3. there \in Places
      BY DEF Places, Ended
    <3> HIDE DEF y, there
    <3>4. /\ ListsOnly /\ pc'[w] = there /\ walk'[w] = y
          /\ \A u \in Lists \ {w} : walk'[u] = walk[u] /\ pc'[u] = pc[u]
      BY <1>5, <3>1, <3>3
    <3>5. WalkInv(w)'
      <4>1. Base[w] \in Containers /\ Level(Base[w]) \in Nat
        BY TreeTyped DEF WalkInv, Level, Containers
      <4>2. \A o \in y.front : /\ o \in Containers
                               /\ Level(o) = Level(Base[w]) + y.depth
        BY <1>2, <3>1, <4>1 DEF WalkInv
      <4>3. Containers' = Containers /\ \A o \in Containers : Level(o)' = Level(o)
        BY <1>1 DEF Containers, Ids, Level
      <4> QED
        BY <3>1, <3>2, <3>4, <4>1, <4>2, <4>3 DEF WalkInv
    <3> QED
      BY <1>1, <3>4, <3>5
  <2> QED
    BY <1>1, <1>8, <2>1, <2>3, <2>4 DEF ListAccounts
<1> QED
  BY <1>6, <1>7, <1>8 DEF ListStep

-----------------------------------------------------------------------------
(* The invariant of the specification *)

IInv ==
  /\ TypeOK /\ Legal(ou)
  /\ \A e \in Vends : VendInv(e) /\ SeenInv(e)
  /\ Agreeing
  /\ \A w \in Lists : WalkInv(w)

LEMMA InitInv == Init => IInv
<1> SUFFICES ASSUME Init PROVE IInv
  OBVIOUS
<1>1. /\ Legal(ou) /\ \A o \in DOMAIN ou : ou[o].by = People
      /\ \A i \in Inputs : i.base \in 0..Len(ou)
      /\ \A w \in Lists : Base[w] \in 0..Len(ou)
  BY FoundLegal DEF Init
<1>2. /\ ou \in Seq(OU) /\ Len(ou) \in Nat /\ Ids = 1..Len(ou)
  BY <1>1, TreeTyped
<1>3. \A c \in 0..Len(ou) : c \in Containers /\ c \in Nat
  BY <1>2 DEF Containers, Root
<1>4. \A i \in Inputs : i \in Input
  BY ParametersTyped
<1>5. ASSUME NEW e \in Vends
      PROVE  /\ input[e] \in Inputs /\ Bottom(e) \in [at : Nat, depth : Nat]
             /\ input[e].base \in Containers
  <2>1. input[e] \in Inputs
    BY DEF Init
  <2>2. input[e].base \in Nat /\ input[e].base \in Containers
    BY <1>1, <1>3, <2>1
  <2> QED
    BY <2>1, <2>2 DEF Bottom
<1>6. ASSUME NEW w \in Lists
      PROVE  /\ walk[w] = [front |-> {Base[w]}, below |-> {}, reading |-> Root, depth |-> 0,
                           listed |-> {}, calm |-> Accounts]
             /\ walk[w] \in Walk /\ Base[w] \in Containers
             /\ walk[w].front = {Base[w]} /\ walk[w].below = {} /\ walk[w].depth = 0
  <2>1. Base[w] \in Nat /\ Base[w] \in Containers
    BY <1>1, <1>3
  <2> QED
    BY <2>1 DEF Init, Walk, Root
<1>7. TypeOK
  <2>1. parent \in [Accounts -> Nat]
    BY <1>2, <1>3 DEF Init, Containers, Root
  <2>2. pc \in [Vends \cup Lists -> Places] /\ pass \in [Vends -> {"plan", "apply"}]
    BY DEF Init, Places
  <2>3. climb \in [Vends -> [at : Nat, depth : Nat]]
    BY <1>5 DEF Init
  <2>4. way \in [Vends -> Seq(Nat)] /\ seen \in [Vends -> SUBSET Nat]
    BY DEF Init
  <2>5. walk \in [Lists -> Walk]
    BY <1>6 DEF Init
  <2>6. input \in [Vends -> Inputs]
    BY DEF Init
  <2> QED
    BY <1>2, <2>1, <2>2, <2>3, <2>4, <2>5, <2>6 DEF TypeOK, Places, Walk
<1>8. ASSUME NEW e \in Vends
      PROVE  VendInv(e)
  <2>1. /\ pc[e] = "idle" /\ way[e] = <<>> /\ climb[e] = Bottom(e)
    BY DEF Init
  <2>2. Len(way[e]) = 0 /\ Len(input[e].path) \in Nat
    BY <1>7, <2>1, VendTyped
  <2>3. WayInv(e)
    BY <1>5, <2>1, <2>2 DEF WayInv, Working
  <2>4. DepthInv(e)
    BY <2>1 DEF DepthInv, Working
  <2>5. Made(e) = {}
    BY <1>1, ParametersTyped DEF Made, Ids
  <2>6. MadeInv(e)
    BY <2>1, <2>5 DEF MadeInv
  <2> QED
    BY <2>3, <2>4, <2>6 DEF VendInv
<1>11. ASSUME NEW e \in Vends
       PROVE  SeenInv(e)
  <2>1. way[e] = <<>> /\ seen[e] = {}
    BY DEF Init
  <2>2. \A i \in 1..Len(way[e]) : FALSE
    BY <2>1
  <2> QED
    BY <2>1, <2>2 DEF SeenInv, Standing
<1>9. Agreeing
  BY DEF Init, Agreeing, PathsAgree
<1>10. ASSUME NEW w \in Lists
       PROVE  WalkInv(w)
  <2>1. pc[w] = "idle" /\ Level(Base[w]) \in Nat
    BY <1>1, <1>6, TreeTyped DEF Init, Level, Containers
  <2>2. /\ walk[w].front = {Base[w]} /\ walk[w].below = {} /\ walk[w].depth = 0
        /\ Base[w] \in Containers
    BY <1>6
  <2>3. \A c \in walk[w].front :
          c \in Containers /\ Level(c) = Level(Base[w]) + walk[w].depth
    <3>1. SUFFICES Level(Base[w]) = Level(Base[w]) + 0
      BY <2>2
    <3> QED
      BY <2>1
  <2> QED
    BY <2>1, <2>2, <2>3 DEF WalkInv
<1> QED
  BY <1>1, <1>7, <1>8, <1>9, <1>10, <1>11 DEF IInv

\* Every step of a vend, the one a fault ends it with included.
LEMMA VendTurn ==
  ASSUME IInv, NEW e \in Vends, Begin(e) \/ VendStep(e) \/ Stop(e)
  PROVE  /\ Moved(e) /\ VendInv(e)' /\ Legal(ou)' /\ Kept
         /\ \A o \in Ids' : o \notin Ids => ou'[o].by = e
         /\ UNCHANGED <<parent, input, walk>>
<1>1. TypeOK /\ Legal(ou) /\ VendInv(e)
  BY DEF IInv
<1>2. UNCHANGED ou => /\ Legal(ou)' /\ Kept
                      /\ \A o \in Ids' : o \notin Ids => ou'[o].by = e
  BY <1>1, SameTree
<1>3. CASE Begin(e)
  BY <1>1, <1>2, <1>3, BeginInv DEF Begin
<1>4. CASE Climb(e)
  BY <1>1, <1>2, <1>4, ClimbInv DEF Climb
<1>5. CASE Depthless(e)
  BY <1>1, <1>2, <1>5, DepthlessInv DEF Depthless
<1>6. CASE Find(e)
  BY <1>1, <1>2, <1>6, FindInv DEF Find
<1>7. CASE Create(e)
  BY <1>1, <1>7, CreateInv DEF Create
<1>8. CASE Refind(e)
  BY <1>1, <1>2, <1>8, RefindInv DEF Refind
<1>9. CASE Stop(e)
  BY <1>1, <1>2, <1>9, GoInv DEF Stop, Go, Places, Ended, Working
<1> QED
  BY <1>3, <1>4, <1>5, <1>6, <1>7, <1>8, <1>9 DEF VendStep

LEMMA VendPreserves ==
  ASSUME IInv, NEW e \in Vends, Begin(e) \/ VendStep(e) \/ Stop(e)
  PROVE  IInv'
<1>1. /\ Moved(e) /\ VendInv(e)' /\ Legal(ou)' /\ Kept
      /\ \A o \in Ids' : o \notin Ids => ou'[o].by = e
      /\ UNCHANGED <<parent, input, walk>>
  BY VendTurn
<1>2. TypeOK /\ Legal(ou)
  BY DEF IInv
<1>7. SeenInv(e)' /\ \A o \in Ids : ou'[o] = ou[o]
  BY VendSeen DEF IInv
<1>8. \A d \in Vends : SeenInv(d)'
  <2>1. ASSUME NEW d \in Vends \ {e}
        PROVE  SeenInv(d)'
    <3>1. /\ pass'[d] = pass[d] /\ way'[d] = way[d] /\ seen'[d] = seen[d]
          /\ VendInv(d) /\ SeenInv(d)
      BY <1>1 DEF Moved, IInv
    <3>2. Spared(d)
      BY <1>7, <3>1 DEF Spared, SeenInv, Standing
    <3> QED
      BY <1>1, <1>2, <3>1, <3>2, SeenFramed
  <2> QED
    BY <1>7, <2>1
<1>3. TypeOK'
  <2>1. ou' \in Seq(OU)
    BY <1>1 DEF Legal
  <2> QED
    BY <1>1, <1>2, <2>1 DEF TypeOK, Moved, Places
<1>4. \A d \in Vends : VendInv(d)'
  <2>1. ASSUME NEW d \in Vends \ {e}
        PROVE  VendInv(d)'
    <3>1. /\ pc'[d] = pc[d] /\ pass'[d] = pass[d] /\ climb'[d] = climb[d]
          /\ way'[d] = way[d] /\ VendInv(d)
          /\ \A o \in Ids' : o \notin Ids => ou'[o].by # d
      BY <1>1 DEF Moved, IInv
    <3> QED
      BY <1>1, <1>2, <3>1, VendFramed
  <2> QED
    BY <1>1, <2>1
<1>5. Agreeing'
  <2>1. SUFFICES ASSUME NEW d \in Vends, NEW f \in Vends
                 PROVE  PathsAgree(d, f)'
    BY DEF Agreeing
  <2>2. /\ VendInv(d) /\ VendInv(f) /\ VendInv(d)' /\ VendInv(f)' /\ VendInv(e)
        /\ PathsAgree(d, f) /\ PathsAgree(f, d)
    BY <1>4 DEF IInv, Agreeing
  <2>3. CASE d # e /\ f = e
    BY <1>1, <1>2, <2>2, <2>3, AgreeTurn
  <2>4. CASE d = e /\ f # e
    <3>1. PathsAgree(f, d)'
      BY <1>1, <1>2, <2>2, <2>4, AgreeTurn
    <3>2. /\ Len(way'[d]) \in Nat /\ Len(way'[f]) \in Nat
          /\ input'[d].path = input'[f].path => NamesOf(d)' = NamesOf(f)'
      BY <1>3, VendTyped DEF TypeOK, NamesOf
    <3> QED
      BY <3>1, <3>2 DEF PathsAgree
  <2>5. CASE d # e /\ f # e
    BY <1>1, <1>2, <2>2, <2>5, AgreeFramed DEF Moved
  <2>6. CASE d = f
    BY <2>6 DEF PathsAgree
  <2> QED
    BY <2>3, <2>4, <2>5, <2>6
<1>6. \A w \in Lists : WalkInv(w)'
  <2>1. ASSUME NEW w \in Lists
        PROVE  WalkInv(w)'
    <3>1. WalkInv(w) /\ pc'[w] = pc[w] /\ walk'[w] = walk[w]
      BY <1>1 DEF IInv, Moved
    <3>2. pc'[w] # "tooDeep"
      BY <3>1 DEF WalkInv
    <3> QED
      BY <1>1, <1>2, <3>1, <3>2, WalkFramed
  <2> QED
    BY <2>1
<1> QED
  BY <1>1, <1>3, <1>4, <1>5, <1>6, <1>8 DEF IInv

\* Every step that is no vend's.
LEMMA OthersPreserve ==
  ASSUME IInv, ListsOnly, Legal(ou)', Kept, parent' \in [Accounts -> Nat],
         \A o \in Ids' : o \notin Ids => ou'[o].by \notin Vends,
         \A w \in Lists : WalkInv(w)', \A e \in Vends : Spared(e)
  PROVE  IInv'
<1>1. TypeOK /\ Legal(ou) /\ input' = input
  BY DEF IInv, ListsOnly
<1>2. TypeOK'
  <2>1. ou' \in Seq(OU)
    BY DEF Legal
  <2> QED
    BY <1>1, <2>1 DEF TypeOK, ListsOnly, Places, Walk
<1>3. \A e \in Vends : VendInv(e)'
  <2>1. ASSUME NEW e \in Vends
        PROVE  VendInv(e)'
    <3>1. /\ pc'[e] = pc[e] /\ pass'[e] = pass[e] /\ climb'[e] = climb[e]
          /\ way'[e] = way[e] /\ VendInv(e)
          /\ \A o \in Ids' : o \notin Ids => ou'[o].by # e
      BY DEF ListsOnly, IInv
    <3> QED
      BY <1>1, <3>1, VendFramed
  <2> QED
    BY <2>1
<1>4. Agreeing'
  <2>1. SUFFICES ASSUME NEW d \in Vends, NEW e \in Vends
                 PROVE  PathsAgree(d, e)'
    BY DEF Agreeing
  <2>2. VendInv(d) /\ VendInv(e) /\ PathsAgree(d, e) /\ way' = way
    BY DEF IInv, Agreeing, ListsOnly
  <2> QED
    BY <1>1, <2>2, AgreeFramed
<1>5. ASSUME NEW e \in Vends
      PROVE  SeenInv(e)'
  <2>1. VendInv(e) /\ SeenInv(e) /\ way'[e] = way[e] /\ pass'[e] = pass[e]
    BY DEF IInv, ListsOnly
  <2> QED
    BY <1>1, <2>1, SeenFramed
<1> QED
  BY <1>2, <1>3, <1>4, <1>5 DEF IInv

LEMMA SparedStill ==
  ASSUME UNCHANGED <<ou, seen>>
  PROVE  \A e \in Vends : Spared(e)
BY DEF Spared

LEMMA ListPreserves ==
  ASSUME IInv, NEW w \in Lists, BeginList(w) \/ ListStep(w) \/ Stop(w)
  PROVE  IInv'
<1>1. TypeOK /\ Legal(ou) /\ \A u \in Lists : WalkInv(u)
  BY DEF IInv
<1>2. /\ ListsOnly /\ UNCHANGED <<ou, parent, seen>> /\ WalkInv(w)'
      /\ \A u \in Lists \ {w} : walk'[u] = walk[u] /\ pc'[u] = pc[u]
  <2>1. CASE BeginList(w) \/ ListStep(w)
    BY <1>1, <2>1, ListTurn
  <2>2. CASE Stop(w)
    <3>1. /\ pc' = [pc EXCEPT ![w] = "failed"]
          /\ UNCHANGED <<ou, parent, input, pass, climb, way, seen, walk>>
          /\ pc \in [Vends \cup Lists -> Places] /\ walk \in [Lists -> Walk]
          /\ seen \in [Vends -> SUBSET Nat] /\ \A e \in Vends : e # w
      BY <1>1, <2>2, ParametersTyped DEF Stop, Go, TypeOK, Places, Walk
    <3>2. ListsOnly /\ pc'[w] = "failed" /\ \A u \in Lists \ {w} : pc'[u] = pc[u]
      BY <3>1 DEF ListsOnly, Places, Ended
    <3>3. Kept
      BY <1>1, <3>1, SameTree
    <3>4. WalkInv(w)'
      BY <1>1, <3>1, <3>2, <3>3, WalkFramed
    <3> QED
      BY <3>1, <3>2, <3>4
  <2> QED
    BY <2>1, <2>2
<1>3. Legal(ou)' /\ Kept /\ Ids' = Ids
  BY <1>1, <1>2, SameTree
<1>4. ASSUME NEW u \in Lists
      PROVE  WalkInv(u)'
  <2>1. CASE u = w
    BY <1>2, <2>1
  <2>2. CASE u # w
    <3>1. WalkInv(u) /\ walk'[u] = walk[u] /\ pc'[u] # "tooDeep"
      BY <1>1, <1>2, <2>2 DEF WalkInv
    <3> QED
      BY <1>1, <1>3, <3>1, WalkFramed
  <2> QED
    BY <2>1, <2>2
<1> QED
  BY <1>1, <1>2, <1>3, <1>4, OthersPreserve, SparedStill DEF TypeOK

LEMMA PeoplePreserve ==
  ASSUME IInv,
         \/ \E c \in Containers, n \in Creatable : PeopleCreate(c, n)
         \/ \E o \in Ids : PeopleDelete(o) \/ \E n \in Renamable : PeopleRename(o, n)
         \/ \E m \in Moves : PeopleMove(m[1], m[2], m[3])
  PROVE  IInv'
<1>1. TypeOK /\ Legal(ou) /\ \A u \in Lists : WalkInv(u)
  BY DEF IInv
<1>2. /\ parent \in [Accounts -> Nat] /\ walk \in [Lists -> Walk]
      /\ pc \in [Vends \cup Lists -> Places] /\ seen \in [Vends -> SUBSET Nat]
  BY <1>1 DEF TypeOK, Walk, Places
<1>3. ASSUME Legal(ou)', Kept, \A o \in Ids' : o \notin Ids => ou'[o].by \notin Vends,
             UNCHANGED <<parent, input, pc, pass, climb, way, walk>>,
             seen' \in [Vends -> SUBSET Nat], \A e \in Vends : Spared(e)
      PROVE  IInv'
  <2>1. ListsOnly
    BY <1>2, <1>3 DEF ListsOnly
  <2>2. ASSUME NEW w \in Lists
        PROVE  WalkInv(w)'
    <3>1. WalkInv(w) /\ pc'[w] # "tooDeep"
      BY <1>1, <1>3 DEF WalkInv
    <3> QED
      BY <1>1, <1>3, <3>1, WalkFramed
  <2> QED
    BY <1>2, <1>3, <2>1, <2>2, OthersPreserve
<1>4. ASSUME NEW c \in Containers, NEW n \in Creatable, PeopleCreate(c, n)
      PROVE  IInv'
  <2>1. /\ Exists(c) /\ Named(c, n) = {} /\ Level(c) < MaxOUDepth
        /\ ou' = Grown(c, n, People) /\ n \in Names /\ People \notin Vends
        /\ UNCHANGED <<parent, input, pc, pass, climb, way, seen, walk>>
    BY <1>4, ParametersTyped DEF PeopleCreate
  <2>2. /\ Legal(ou)' /\ Kept /\ Len(ou') = Len(ou) + 1
        /\ \A o \in Ids : ou'[o] = ou[o]
        /\ LET o == Len(ou) + 1 IN
           /\ o \in Ids' /\ ou'[o].up = c /\ ou'[o].name = n
           /\ ou'[o].live /\ ou'[o].by = People
    BY <1>1, <2>1, GrownLegal
  <2>3. \A o \in Ids' : o \notin Ids => o = Len(ou) + 1
    BY <1>1, <2>2, TreeTyped DEF Legal, Ids
  <2>4. ASSUME NEW e \in Vends
        PROVE  Spared(e)
    <3>1. \A o \in seen[e] : o \in Ids
      BY DEF IInv, SeenInv, Standing
    <3> QED
      BY <2>1, <2>2, <3>1 DEF Spared
  <2> QED
    BY <1>2, <1>3, <2>1, <2>2, <2>3, <2>4
<1>5. ASSUME NEW o \in Ids, PeopleDelete(o)
      PROVE  IInv'
  <2>1. Legal(ou)' /\ Kept /\ Ids' = Ids
    BY <1>1, <1>5, DeletedLegal
  <2>2. seen' = [e \in Vends |-> seen[e] \ {o}]
    BY <1>5 DEF PeopleDelete, Touched
  <2>3. ASSUME NEW e \in Vends
        PROVE  Spared(e) /\ seen'[e] \in SUBSET Nat
    <3>1. \A q \in seen[e] : q \in Ids /\ q \in Nat
      BY <1>2 DEF IInv, SeenInv, Standing
    <3>2. \A q \in Ids \ {o} : ou'[q] = ou[q]
      BY <1>1, <1>5 DEF PeopleDelete, Ids
    <3> QED
      BY <2>2, <3>1, <3>2 DEF Spared
  <2>4. seen' \in [Vends -> SUBSET Nat]
    BY <2>2, <2>3
  <2> QED
    BY <1>3, <1>5, <2>1, <2>3, <2>4 DEF PeopleDelete
<1>6. ASSUME NEW o \in Ids, NEW n \in Renamable, PeopleRename(o, n)
      PROVE  IInv'
  <2>1. Legal(ou)' /\ Kept /\ Ids' = Ids
    BY <1>1, <1>6, RenamedLegal
  <2>2. seen' = [e \in Vends |-> seen[e] \ {o}]
    BY <1>6 DEF PeopleRename, Touched
  <2>3. ASSUME NEW e \in Vends
        PROVE  Spared(e) /\ seen'[e] \in SUBSET Nat
    <3>1. \A q \in seen[e] : q \in Ids /\ q \in Nat
      BY <1>2 DEF IInv, SeenInv, Standing
    <3>2. \A q \in Ids \ {o} : ou'[q] = ou[q]
      BY <1>1, <1>6 DEF PeopleRename, Ids
    <3> QED
      BY <2>2, <3>1, <3>2 DEF Spared
  <2>4. seen' \in [Vends -> SUBSET Nat]
    BY <2>2, <2>3
  <2> QED
    BY <1>3, <1>6, <2>1, <2>3, <2>4 DEF PeopleRename
<1>7. ASSUME NEW m \in Moves, PeopleMove(m[1], m[2], m[3])
      PROVE  IInv'
  <2>1. m[1] \in Accounts /\ m[3] \in Nat
    BY ParametersTyped
  <2>2. /\ parent' = [parent EXCEPT ![m[1]] = m[3]]
        /\ walk' = [w \in Lists |-> [walk[w] EXCEPT !.calm = @ \ {m[1]}]]
        /\ UNCHANGED <<ou, input, pc, pass, climb, way, seen>>
    BY <1>7 DEF PeopleMove
  <2>3. Legal(ou)' /\ Kept /\ Ids' = Ids
    BY <1>1, <2>2, SameTree
  <2>4. ASSUME NEW w \in Lists
        PROVE  walk'[w] \in Walk /\ WalkInv(w)'
    <3>1. /\ walk'[w] = [walk[w] EXCEPT !.calm = @ \ {m[1]}] /\ walk[w] \in Walk
      BY <1>2, <2>2
    <3>2. /\ walk'[w] \in Walk /\ walk'[w].front = walk[w].front
          /\ walk'[w].below = walk[w].below /\ walk'[w].depth = walk[w].depth
      BY <3>1 DEF Walk
    <3>3. WalkInv(w) /\ pc'[w] # "tooDeep"
      BY <1>1, <2>2 DEF WalkInv
    <3> QED
      BY <1>1, <2>3, <3>2, <3>3, WalkFramed
  <2>5. ListsOnly
    <3>1. walk' \in [Lists -> Walk]
      BY <2>2, <2>4
    <3> QED
      BY <1>2, <2>2, <3>1 DEF ListsOnly
  <2>7. \A e \in Vends : Spared(e)
    BY <2>2, SparedStill
  <2>6. parent' \in [Accounts -> Nat]
    BY <1>2, <2>1, <2>2
  <2> QED
    BY <2>3, <2>4, <2>5, <2>6, <2>7, OthersPreserve
<1> QED
  BY <1>4, <1>5, <1>6, <1>7

LEMMA Preserved == IInv /\ [Next]_vars => IInv'
<1> SUFFICES ASSUME IInv, [Next]_vars PROVE IInv'
  OBVIOUS
<1>1. ASSUME NEW e \in Vends, Begin(e) \/ VendStep(e)
      PROVE  IInv'
  BY <1>1, VendPreserves
<1>2. ASSUME NEW w \in Lists, BeginList(w) \/ ListStep(w)
      PROVE  IInv'
  BY <1>2, ListPreserves
<1>3. ASSUME NEW r \in Unlucky, Stop(r)
      PROVE  IInv'
  BY <1>3, ParametersTyped, VendPreserves, ListPreserves
<1>4. ASSUME \/ \E c \in Containers, n \in Creatable : PeopleCreate(c, n)
             \/ \E o \in Ids : PeopleDelete(o) \/ \E n \in Renamable : PeopleRename(o, n)
             \/ \E m \in Moves : PeopleMove(m[1], m[2], m[3])
      PROVE  IInv'
  BY <1>4, PeoplePreserve
<1>5. ASSUME UNCHANGED vars
      PROVE  IInv'
  <2>1. ListsOnly /\ UNCHANGED <<ou, parent, walk, pc, seen>>
    BY <1>5 DEF vars, ListsOnly, IInv, TypeOK, Places, Walk
  <2>2. TypeOK /\ Legal(ou) /\ \A w \in Lists : WalkInv(w)
    BY DEF IInv
  <2>3. Legal(ou)' /\ Kept /\ Ids' = Ids
    BY <2>1, <2>2, SameTree
  <2>4. \A w \in Lists : WalkInv(w)'
    <3>1. ASSUME NEW w \in Lists
          PROVE  WalkInv(w)'
      <4>1. WalkInv(w) /\ pc'[w] # "tooDeep"
        BY <2>1, <2>2 DEF WalkInv
      <4> QED
        BY <2>1, <2>2, <2>3, <4>1, WalkFramed
    <3> QED
      BY <3>1
  <2> QED
    BY <2>1, <2>2, <2>3, <2>4, OthersPreserve, SparedStill DEF TypeOK
<1> QED
  BY <1>1, <1>2, <1>3, <1>4, <1>5 DEF Next

LEMMA Invariance == Spec => []IInv
<1> QED
  BY InitInv, Preserved, PTL DEF Spec

-----------------------------------------------------------------------------
(* What lies above a container *)

\* Numbers have a least among them.
LEMMA Least ==
  ASSUME NEW T \in SUBSET Nat, T # {}
  PROVE  \E n \in T : \A m \in T : n <= m
<1>1. IsWellFoundedOn(OpToRel(<,Nat), Nat)
  BY NatLessThanWellFounded
<1>2. PICK n \in T : \A m \in T : ~ (<<m, n>> \in OpToRel(<, Nat))
  BY <1>1, WFMin
<1>3. \A m \in T : <<m, n>> \in OpToRel(<, Nat) <=> m < n
  BY <1>2 DEF OpToRel
<1>4. n \in Nat /\ \A m \in T : m \in Nat /\ ~ (m < n)
  BY <1>2, <1>3
<1> HIDE <1>1
<1> QED
  BY <1>4

\* Above, in any tree.
AboveIn(t, c) ==
  LET up[o \in DOMAIN t \cup {Root}] == IF o = Root THEN {Root} ELSE {o} \cup up[t[o].up]
  IN  up[c]

\* Parents come first, so that what is above an OU is its parent and what is above that.
LEMMA AboveInIs ==
  ASSUME NEW t, Legal(t)
  PROVE  /\ AboveIn(t, Root) = {Root}
         /\ \A o \in DOMAIN t : /\ t[o].up \in DOMAIN t \cup {Root} /\ t[o].up < o
                                /\ AboveIn(t, o) = {o} \cup AboveIn(t, t[o].up)
<1> DEFINE Step(g, o) == IF o = Root THEN {Root} ELSE {o} \cup g[t[o].up]
           all == DOMAIN t \cup {Root}
           up == CHOOSE g : g = [o \in all |-> Step(g, o)]
<1>1. /\ t \in Seq(OU) /\ Len(t) \in Nat /\ DOMAIN t = 1..Len(t)
      /\ all = 0..Len(t)
  BY DEF Legal, Root
<1>2. ASSUME NEW o \in DOMAIN t
      PROVE  t[o].up \in all /\ t[o].up < o /\ t[o].up \in Nat /\ o # Root
  <2>1. t[o] \in OU /\ t[o].up < o
    BY <1>1 DEF Legal
  <2>2. t[o].up \in Nat
    BY <2>1 DEF OU
  <2> QED
    BY <1>1, <2>1, <2>2 DEF Root
<1>3. \A c : AboveIn(t, c) = up[c]
  BY DEF AboveIn
<1>4. \A n \in 0..Len(t) : \E g : g = [o \in 0..n |-> Step(g, o)]
  <2> DEFINE T == {n \in 0..Len(t) : ~ \E g : g = [o \in 0..n |-> Step(g, o)]}
  <2>1. SUFFICES ASSUME T # {} PROVE FALSE
    OBVIOUS
  <2>2. T \in SUBSET Nat
    BY <1>1
  <2>3. PICK n \in T : \A m \in T : n <= m
    <3> HIDE DEF T
    <3> QED
      BY <2>1, <2>2, Least
  <2>4. n \in 0..Len(t) /\ ~ \E g : g = [o \in 0..n |-> Step(g, o)]
    OBVIOUS
  <2>5. n # 0
    <3>1. [o \in 0..0 |-> {Root}] = [o \in 0..0 |-> Step([j \in 0..0 |-> {Root}], o)]
      BY DEF Root
    <3> QED
      BY <2>4, <3>1
  <2>6. n - 1 \in 0..Len(t) /\ n - 1 \notin T
    <3>1. n \in Nat /\ n - 1 \in 0..Len(t) /\ ~(n <= n - 1)
      BY <1>1, <2>4, <2>5
    <3> HIDE DEF T
    <3> QED
      BY <2>3, <3>1
  <2>7. PICK g : g = [o \in 0..(n - 1) |-> Step(g, o)]
    BY <2>6
  <2> HIDE DEF T
  <2> DEFINE h == [o \in 0..n |-> IF o = n THEN Step(g, n) ELSE g[o]]
  <2>8. \A o \in 0..n : h[o] = Step(h, o)
    <3> SUFFICES ASSUME NEW o \in 0..n PROVE h[o] = Step(h, o)
      OBVIOUS
    <3>1. o # Root => o \in DOMAIN t
      BY <1>1, <2>4 DEF Root
    <3>2. o # Root => t[o].up \in 0..n /\ t[o].up # n /\ h[t[o].up] = g[t[o].up]
      <4>1. SUFFICES ASSUME o # Root
                     PROVE  t[o].up \in 0..n /\ t[o].up # n
        OBVIOUS
      <4>2. t[o].up < o /\ t[o].up \in Nat
        BY <1>2, <3>1, <4>1
      <4> QED
        BY <1>1, <2>4, <4>2
    <3>3. Step(h, o) = Step(g, o)
      BY <3>2
    <3>4. o # n => o \in 0..(n - 1) /\ g[o] = Step(g, o)
      BY <1>1, <2>4, <2>7
    <3> QED
      BY <3>3, <3>4
  <2>9. h = [o \in 0..n |-> Step(h, o)]
    BY <2>8
  <2> HIDE DEF h
  <2>10. \E f : f = [o \in 0..n |-> Step(f, o)]
    BY <2>9
  <2> QED
    BY <2>4, <2>10
<1>5. up = [o \in all |-> Step(up, o)]
  <2>1. Len(t) \in 0..Len(t)
    BY <1>1
  <2>2. \E g : g = [o \in 0..Len(t) |-> Step(g, o)]
    BY <1>4, <2>1
  <2>3. \E g : g = [o \in all |-> Step(g, o)]
    BY <1>1, <2>2
  <2> QED
    BY <2>3
<1> HIDE DEF up
<1>6. \A o \in all : up[o] = Step(up, o)
  BY <1>5
<1>7. up[Root] = {Root}
  BY <1>6
<1>8. \A o \in DOMAIN t : up[o] = {o} \cup up[t[o].up]
  BY <1>2, <1>6
<1> QED
  BY <1>2, <1>3, <1>7, <1>8

\* What lies above an OU stays there when the tree grows.
LEMMA AboveInSame ==
  ASSUME NEW t, Legal(t), NEW u, Legal(u),
         \A o \in DOMAIN t : o \in DOMAIN u /\ u[o].up = t[o].up
  PROVE  \A c \in DOMAIN t \cup {Root} : AboveIn(u, c) = AboveIn(t, c)
<1> DEFINE T == {c \in DOMAIN t \cup {Root} : AboveIn(u, c) # AboveIn(t, c)}
<1>1. SUFFICES ASSUME T # {} PROVE FALSE
  OBVIOUS
<1>2. T \in SUBSET Nat
  BY DEF Legal, Root
<1>3. PICK n \in T : \A m \in T : n <= m
  <2> HIDE DEF T
  <2> QED
    BY <1>1, <1>2, Least
<1>4. n # Root
  BY AboveInIs
<1>5. n \in DOMAIN t /\ n \in Nat
  BY <1>2, <1>3, <1>4
<1>6. t[n].up \in DOMAIN t \cup {Root} /\ t[n].up < n /\ t[n].up \in Nat
  BY <1>5, AboveInIs DEF Legal, Root
<1>7. t[n].up \notin T
  <2> HIDE DEF T
  <2> QED
    BY <1>3, <1>5, <1>6
<1>8. AboveIn(u, t[n].up) = AboveIn(t, t[n].up)
  BY <1>6, <1>7
<1>9. AboveIn(t, n) = {n} \cup AboveIn(t, t[n].up)
  BY <1>5, AboveInIs
<1>10. AboveIn(u, n) = {n} \cup AboveIn(u, u[n].up) /\ u[n].up = t[n].up
  BY <1>5, AboveInIs
<1> QED
  BY <1>3, <1>8, <1>9, <1>10

\* From a container up to the root: each but the first has a child there, and none of
\* them is gone while the first is not.
LEMMA AboveIs ==
  ASSUME Legal(ou)
  PROVE  /\ Above(Root) = {Root} /\ \A o \in Ids : Above(o) = {o} \cup Above(ou[o].up)
         /\ \A c \in Containers :
              /\ c \in Above(c) /\ Above(c) \subseteq Containers
              /\ Exists(c) => \A x \in Above(c) : Exists(x)
              /\ \A x \in Above(c) \ {c} : \E y \in Above(c) : y \in Ids /\ ou[y].up = x
<1> DEFINE Good(c) ==
      /\ c \in Above(c) /\ Above(c) \subseteq Containers
      /\ Exists(c) => \A x \in Above(c) : Exists(x)
      /\ \A x \in Above(c) \ {c} : \E y \in Above(c) : y \in Ids /\ ou[y].up = x
<1>1. \A c : Above(c) = AboveIn(ou, c)
  BY DEF Above, AboveIn, Containers, Ids
<1>2. /\ Above(Root) = {Root}
      /\ \A o \in Ids : /\ ou[o].up \in Containers /\ ou[o].up < o
                        /\ Above(o) = {o} \cup Above(ou[o].up)
  BY <1>1, AboveInIs DEF Ids, Containers
<1>3. \A c \in Containers : Good(c)
  <2> DEFINE T == {c \in Containers : ~Good(c)}
  <2>1. SUFFICES ASSUME T # {} PROVE FALSE
    OBVIOUS
  <2>2. Containers \in SUBSET Nat /\ Ids \in SUBSET Nat
    BY TreeTyped DEF Containers, Root
  <2>3. PICK n \in T : \A m \in T : n <= m
    <3>1. T \in SUBSET Nat
      BY <2>2
    <3> HIDE DEF T
    <3> QED
      BY <2>1, <3>1, Least
  <2>4. CASE n = Root
    BY <1>2, <2>4 DEF Exists, Containers
  <2>5. CASE n # Root
    <3>1. n \in Ids /\ n \in Nat
      BY <2>2, <2>5 DEF Containers
    <3> DEFINE up == ou[n].up
    <3>2. up \in Containers /\ up < n /\ up \in Nat
      BY <1>2, <2>2, <3>1
    <3>3. up \notin T
      <4> HIDE DEF T, up
      <4> QED
        BY <2>3, <3>1, <3>2
    <3>4. Good(up)
      BY <3>2, <3>3
    <3>5. Above(n) = {n} \cup Above(up)
      BY <1>2, <3>1
    <3>6. Exists(n) => Exists(up)
      BY <2>5, <3>1, <3>2 DEF Exists, Containers, Legal, Ids
    <3> HIDE DEF up
    <3>7. n \in Above(n) /\ Above(n) \subseteq Containers
      BY <3>4, <3>5
    <3>8. Exists(n) => \A x \in Above(n) : Exists(x)
      BY <3>4, <3>5, <3>6
    <3>9. \A x \in Above(n) \ {n} : \E y \in Above(n) : y \in Ids /\ ou[y].up = x
      <4> SUFFICES ASSUME NEW x \in Above(n) \ {n}
                   PROVE  \E y \in Above(n) : y \in Ids /\ ou[y].up = x
        OBVIOUS
      <4>1. CASE x = up
        BY <3>1, <3>5, <4>1 DEF up
      <4>2. CASE x # up
        BY <3>4, <3>5, <4>2
      <4> QED
        BY <4>1, <4>2
    <3> QED
      BY <3>7, <3>8, <3>9
  <2> QED
    BY <2>4, <2>5
<1> QED
  BY <1>2, <1>3

LEMMA AboveKept ==
  ASSUME Legal(ou), Legal(ou)', Kept, NEW c \in Containers
  PROVE  c \in Containers' /\ Above(c)' = Above(c)
<1>1. Above(c) = AboveIn(ou, c) /\ Above(c)' = AboveIn(ou', c)
  BY DEF Above, AboveIn, Containers, Ids
<1>2. \A o \in DOMAIN ou : o \in DOMAIN ou' /\ ou'[o].up = ou[o].up
  BY DEF Kept, Ids
<1>3. AboveIn(ou', c) = AboveIn(ou, c)
  <2>1. Legal(ou')
    BY DEF Legal
  <2>2. c \in DOMAIN ou \cup {Root}
    BY DEF Containers, Ids
  <2> HIDE DEF AboveIn
  <2> QED
    BY <1>2, <2>1, <2>2, AboveInSame
<1> QED
  BY <1>1, <1>3, LevelKept

-----------------------------------------------------------------------------
(* What a list shows *)

\* No account is in an OU that is gone.
Housed == \A a \in Accounts : parent[a] \in Containers /\ Exists(parent[a])

\* What a list has found and not read.
Pending(w) ==
  (IF pc[w] = "accounts" THEN walk[w].front \ {walk[w].reading} ELSE walk[w].front)
  \cup walk[w].below

\* The account is listed, or the list will still come to it from above.
Due(w, a) ==
  \/ <<a, parent[a]>> \in walk[w].listed
  \/ pc[w] = "accounts" /\ parent[a] = walk[w].reading
  \/ Pending(w) \cap Above(parent[a]) # {}

ListInv(w) ==
  /\ pc[w] = "idle" => walk[w].front = {Base[w]} /\ walk[w].below = {} /\ walk[w].listed = {}
  /\ pc[w] = "accounts" => walk[w].reading \in walk[w].front
  /\ pc[w] = "done" => walk[w].front = {} /\ walk[w].below = {}
  /\ \A c \in walk[w].front \cup walk[w].below : Base[w] \in Above(c)
  /\ \A a \in Accounts, c \in Nat :
       <<a, c>> \in walk[w].listed =>
         c \in Containers /\ Base[w] \in Above(c) /\ (a \in walk[w].calm => parent[a] = c)
  /\ pc[w] \in {"ous", "accounts", "done"} =>
       \A a \in walk[w].calm : Base[w] \in Above(parent[a]) => Due(w, a)

\* A step that is not the list's own, or its failure, leaves what it shows.
LEMMA ListFramed ==
  ASSUME TypeOK, Legal(ou), Legal(ou)', Kept, Housed, NEW w \in Lists, WalkInv(w), ListInv(w),
         pc'[w] \in {pc[w], "failed"},
         walk'[w].front = walk[w].front, walk'[w].below = walk[w].below,
         walk'[w].reading = walk[w].reading, walk'[w].listed = walk[w].listed,
         walk'[w].calm \subseteq walk[w].calm,
         \A a \in walk'[w].calm : parent'[a] = parent[a]
  PROVE  ListInv(w)'
<1>1. \A c \in Containers : c \in Containers' /\ Above(c)' = Above(c)
  BY AboveKept
<1>2. walk[w].calm \subseteq Accounts
  BY WalkTyped
<1>3. \A c \in walk'[w].front \cup walk'[w].below : Base[w] \in Above(c)'
  BY <1>1 DEF ListInv, WalkInv
<1>4. ASSUME NEW a \in Accounts, NEW c \in Nat, <<a, c>> \in walk'[w].listed
      PROVE  c \in Containers' /\ Base[w] \in Above(c)' /\ (a \in walk'[w].calm => parent'[a] = c)
  BY <1>1, <1>4 DEF ListInv
<1>5. ASSUME pc'[w] \in {"ous", "accounts", "done"}, NEW a \in walk'[w].calm,
             Base[w] \in Above(parent[a])'
      PROVE  Due(w, a)'
  <2>1. pc'[w] = pc[w] /\ parent'[a] = parent[a] /\ a \in walk[w].calm
    BY <1>5
  <2>2. parent[a] \in Containers
    BY <1>2, <2>1 DEF Housed
  <2>3. Above(parent[a])' = Above(parent[a])
    BY <1>1, <2>1, <2>2
  <2>4. Due(w, a)
    BY <1>5, <2>1, <2>3 DEF ListInv
  <2>5. Pending(w)' = Pending(w)
    BY <2>1 DEF Pending
  <2> QED
    BY <2>1, <2>3, <2>4, <2>5 DEF Due
<1> QED
  BY <1>3, <1>4, <1>5 DEF ListInv

\* Every step of people leaves the accounts housed, and the lists as they were.
LEMMA PeopleHoused ==
  ASSUME IInv, Housed,
         \/ \E c \in Containers, n \in Creatable : PeopleCreate(c, n)
         \/ \E o \in Ids : PeopleDelete(o) \/ \E n \in Renamable : PeopleRename(o, n)
         \/ \E m \in Moves : PeopleMove(m[1], m[2], m[3])
  PROVE  /\ Kept /\ Housed' /\ pc' = pc
         /\ \A w \in Lists :
              /\ walk'[w].front = walk[w].front /\ walk'[w].below = walk[w].below
              /\ walk'[w].reading = walk[w].reading /\ walk'[w].listed = walk[w].listed
              /\ walk'[w].calm \subseteq walk[w].calm
              /\ \A a \in walk'[w].calm : parent'[a] = parent[a]
<1>1. TypeOK /\ Legal(ou) /\ parent \in [Accounts -> Nat]
  BY DEF IInv, TypeOK
<1>2. ASSUME NEW c \in Containers, NEW n \in Creatable, PeopleCreate(c, n)
      PROVE  Kept /\ \A o \in Ids : ou'[o] = ou[o]
  <2>1. /\ Exists(c) /\ Named(c, n) = {} /\ Level(c) < MaxOUDepth
        /\ ou' = Grown(c, n, People) /\ n \in Names
    BY <1>2, ParametersTyped DEF PeopleCreate
  <2> QED
    BY <1>1, <2>1, GrownLegal
<1>3. ASSUME Kept, UNCHANGED <<parent, pc, walk>>,
             \A a \in Accounts : parent[a] \in Ids /\ ou[parent[a]].live => ou'[parent[a]].live
      PROVE  /\ Kept /\ Housed' /\ pc' = pc
             /\ \A w \in Lists :
                  /\ walk'[w].front = walk[w].front /\ walk'[w].below = walk[w].below
                  /\ walk'[w].reading = walk[w].reading /\ walk'[w].listed = walk[w].listed
                  /\ walk'[w].calm \subseteq walk[w].calm
                  /\ \A a \in walk'[w].calm : parent'[a] = parent[a]
  BY <1>3 DEF Kept, Housed, Exists, Containers
<1>4. CASE \E c \in Containers, n \in Creatable : PeopleCreate(c, n)
  <2>1. UNCHANGED <<parent, pc, walk>>
    BY <1>4 DEF PeopleCreate
  <2> QED
    BY <1>2, <1>3, <1>4, <2>1
<1>5. ASSUME NEW o \in Ids, PeopleDelete(o)
      PROVE  Kept /\ \A a \in Accounts : parent[a] \in Ids => ou'[parent[a]] = ou[parent[a]]
  <2>1. Kept
    BY <1>1, <1>5, DeletedLegal
  <2>2. \A q \in Ids \ {o} : ou'[q] = ou[q]
    BY <1>1, <1>5, TreeTyped DEF PeopleDelete, Ids
  <2>3. \A a \in Accounts : parent[a] # o
    BY <1>5 DEF PeopleDelete
  <2> QED
    BY <2>1, <2>2, <2>3
<1>6. CASE \E o \in Ids : PeopleDelete(o)
  <2>1. UNCHANGED <<parent, pc, walk>>
    BY <1>6 DEF PeopleDelete
  <2> QED
    BY <1>3, <1>5, <1>6, <2>1
<1>7. ASSUME NEW o \in Ids, NEW n \in Renamable, PeopleRename(o, n)
      PROVE  Kept /\ \A q \in Ids : ou'[q].live = ou[q].live
  <2>1. Kept
    BY <1>1, <1>7, RenamedLegal
  <2>2. ou' = [ou EXCEPT ![o] = [ou[o] EXCEPT !.name = n]] /\ ou \in Seq(OU)
    BY <1>1, <1>7, TreeTyped DEF PeopleRename
  <2>3. ou[o] \in OU
    BY <1>1, TreeTyped
  <2>4. [ou[o] EXCEPT !.name = n].live = ou[o].live
    BY <2>3 DEF OU
  <2> QED
    BY <2>1, <2>2, <2>4 DEF Ids
<1>8. CASE \E o \in Ids, n \in Renamable : PeopleRename(o, n)
  <2>1. UNCHANGED <<parent, pc, walk>>
    BY <1>8 DEF PeopleRename
  <2> QED
    BY <1>3, <1>7, <1>8, <2>1
<1>9. ASSUME NEW m \in Moves, PeopleMove(m[1], m[2], m[3])
      PROVE  /\ Kept /\ Housed' /\ pc' = pc
             /\ \A w \in Lists :
                  /\ walk'[w].front = walk[w].front /\ walk'[w].below = walk[w].below
                  /\ walk'[w].reading = walk[w].reading /\ walk'[w].listed = walk[w].listed
                  /\ walk'[w].calm \subseteq walk[w].calm
                  /\ \A a \in walk'[w].calm : parent'[a] = parent[a]
  <2>1. /\ parent' = [parent EXCEPT ![m[1]] = m[3]] /\ Exists(m[3])
        /\ walk' = [w \in Lists |-> [walk[w] EXCEPT !.calm = @ \ {m[1]}]]
        /\ UNCHANGED <<ou, pc>>
    BY <1>9 DEF PeopleMove
  <2>2. Kept
    BY <1>1, <2>1, SameTree
  <2>3. Housed'
    BY <1>1, <2>1 DEF Housed, Exists, Containers, Ids
  <2>4. ASSUME NEW w \in Lists
        PROVE  /\ walk'[w].front = walk[w].front /\ walk'[w].below = walk[w].below
               /\ walk'[w].reading = walk[w].reading /\ walk'[w].listed = walk[w].listed
               /\ walk'[w].calm \subseteq walk[w].calm
               /\ \A a \in walk'[w].calm : parent'[a] = parent[a]
    <3>1. walk[w] \in Walk /\ walk'[w] = [walk[w] EXCEPT !.calm = @ \ {m[1]}]
      BY <1>1, <2>1, WalkTyped
    <3>2. /\ walk'[w].front = walk[w].front /\ walk'[w].below = walk[w].below
          /\ walk'[w].reading = walk[w].reading /\ walk'[w].listed = walk[w].listed
          /\ walk'[w].calm = walk[w].calm \ {m[1]} /\ walk[w].calm \subseteq Accounts
      BY <3>1 DEF Walk
    <3> QED
      BY <1>1, <2>1, <3>2
  <2> QED
    BY <2>1, <2>2, <2>3, <2>4
<1> QED
  BY <1>4, <1>6, <1>8, <1>9

\* What a list has found stays due until it is read.
LEMMA ListShows ==
  ASSUME IInv, Housed, NEW w \in Lists, ListInv(w), BeginList(w) \/ ListStep(w)
  PROVE  ListInv(w)'
<1>1. /\ UNCHANGED <<ou, parent>> /\ TypeOK /\ Legal(ou) /\ WalkInv(w)
      /\ pc \in [Vends \cup Lists -> Places] /\ walk \in [Lists -> Walk]
  BY DEF IInv, TypeOK, Walk, Places, BeginList, ListStep, ListOUs, ListAccounts
<1>2. /\ walk[w] \in Walk /\ walk[w].front \subseteq Nat /\ walk[w].below \subseteq Nat
      /\ walk[w].listed \subseteq Accounts \X Nat /\ walk[w].calm \subseteq Accounts
  BY <1>1, WalkTyped
<1>3. Containers' = Containers /\ \A c : Above(c)' = Above(c)
  BY <1>1 DEF Above, Containers, Ids
<1>4. \A a \in walk[w].calm : parent[a] \in Containers /\ Exists(parent[a])
  BY <1>2 DEF Housed
<1>5. \A c \in walk[w].front \cup walk[w].below : c \in Containers /\ Base[w] \in Above(c)
  BY <1>1 DEF WalkInv, ListInv
<1>6. CASE BeginList(w)
  <2>1. /\ pc[w] = "idle" /\ pc'[w] = "ous"
        /\ walk'[w] = [walk[w] EXCEPT !.calm = Accounts]
    BY <1>1, <1>6 DEF BeginList, Starts, Go
  <2>2. /\ walk'[w].front = {Base[w]} /\ walk'[w].below = {} /\ walk'[w].listed = {}
        /\ walk'[w].calm = Accounts
    BY <1>2, <2>1 DEF Walk, ListInv
  <2>3. Pending(w)' = {Base[w]}
    BY <2>1, <2>2 DEF Pending
  <2>4. \A a \in Accounts : Base[w] \in Above(parent[a]) => Due(w, a)'
    BY <1>1, <1>3, <2>3 DEF Due
  <2>5. Base[w] \in Above(Base[w])
    BY <1>1, AboveIs DEF WalkInv
  <2> QED
    BY <1>1, <1>3, <2>1, <2>2, <2>4, <2>5 DEF ListInv
<1>7. CASE ListOUs(w)
  <2>1. PICK c \in walk[w].front :
          \/ /\ Exists(c) /\ Go(w, "accounts")
             /\ walk' = [walk EXCEPT ![w].reading = c, ![w].below = @ \cup Children(c)]
          \/ ~Exists(c) /\ Go(w, "failed") /\ UNCHANGED walk
    BY <1>7 DEF ListOUs
  <2>2. CASE ~Exists(c) /\ Go(w, "failed") /\ UNCHANGED walk
    <3>1. pc'[w] = "failed" /\ walk' = walk
      BY <1>1, <2>2 DEF Go
    <3> QED
      BY <1>1, <1>3, <3>1 DEF ListInv
  <2>3. CASE /\ Exists(c) /\ Go(w, "accounts")
             /\ walk' = [walk EXCEPT ![w].reading = c, ![w].below = @ \cup Children(c)]
    <3>1. /\ pc[w] = "ous" /\ pc'[w] = "accounts"
          /\ walk'[w] = [walk[w] EXCEPT !.reading = c, !.below = @ \cup Children(c)]
      BY <1>1, <1>7, <2>3 DEF Go, ListOUs
    <3>2. /\ walk'[w].front = walk[w].front /\ walk'[w].below = walk[w].below \cup Children(c)
          /\ walk'[w].listed = walk[w].listed /\ walk'[w].calm = walk[w].calm
          /\ walk'[w].reading = c
      BY <1>2, <3>1 DEF Walk
    <3>3. \A o \in Children(c) : Base[w] \in Above(o)
      <4>1. \A o \in Children(c) : o \in Ids /\ ou[o].up = c
        BY DEF Children
      <4> QED
        BY <1>1, <1>5, <4>1, AboveIs
    <3>4. Pending(w)' = (walk[w].front \ {c}) \cup walk[w].below \cup Children(c)
      BY <3>1, <3>2 DEF Pending
    <3>5. ASSUME NEW a \in walk[w].calm, Base[w] \in Above(parent[a])
          PROVE  Due(w, a)'
      <4>1. Due(w, a)
        BY <3>1, <3>5 DEF ListInv
      <4>2. CASE <<a, parent[a]>> \in walk[w].listed
        BY <1>1, <3>2, <4>2 DEF Due
      <4>3. CASE parent[a] = c
        BY <1>1, <3>1, <3>2, <4>3 DEF Due
      <4>4. CASE parent[a] # c /\ <<a, parent[a]>> \notin walk[w].listed
        <5>1. PICK z \in walk[w].front \cup walk[w].below : z \in Above(parent[a])
          BY <3>1, <4>1, <4>4 DEF Due, Pending
        <5>2. CASE z # c
          <6>1. z \in Pending(w)'
            BY <3>4, <5>1, <5>2
          <6> QED
            BY <1>1, <1>3, <5>1, <6>1 DEF Due
        <5>3. CASE z = c
          <6>1. PICK y \in Above(parent[a]) : y \in Ids /\ ou[y].up = c
            BY <1>1, <1>4, <4>4, <5>1, <5>3, AboveIs
          <6>2. Exists(y)
            BY <1>1, <1>4, AboveIs
          <6>3. y \in Children(c)
            BY <1>1, <6>1, <6>2, TreeTyped DEF Children, Exists, Root
          <6>4. y \in Pending(w)'
            BY <3>4, <6>3
          <6> QED
            BY <1>1, <1>3, <6>4 DEF Due
        <5> QED
          BY <5>2, <5>3
      <4> QED
        BY <4>2, <4>3, <4>4
    <3>6. \A a \in Accounts, d \in Nat : <<a, d>> \in walk'[w].listed =>
            d \in Containers' /\ Base[w] \in Above(d)' /\ (a \in walk'[w].calm => parent'[a] = d)
      BY <1>1, <1>3, <3>2 DEF ListInv
    <3>7. \A a \in walk'[w].calm : Base[w] \in Above(parent[a])' => Due(w, a)'
      BY <1>1, <1>3, <3>2, <3>5
    <3>8. \A d \in walk'[w].front \cup walk'[w].below : Base[w] \in Above(d)'
      BY <1>3, <1>5, <3>2, <3>3
    <3> QED
      BY <3>1, <3>2, <3>6, <3>7, <3>8 DEF ListInv
  <2> QED
    BY <2>1, <2>2, <2>3
<1>8. CASE ListAccounts(w)
  <2> DEFINE c == walk[w].reading
             rest == walk[w].front \ {c}
             listed == walk[w].listed \cup {<<a, c>> : a \in {b \in Accounts : parent[b] = c}}
             depth == walk[w].depth + 1
             there == IF walk[w].below = {} THEN "done"
                      ELSE IF depth > MaxOUDepth THEN "tooDeep" ELSE "ous"
  <2>1. pc[w] = "accounts" /\ c \in walk[w].front
    BY <1>8 DEF ListAccounts, ListInv
  <2>2. \/ ~Exists(c) /\ Go(w, "failed") /\ UNCHANGED walk
        \/ /\ rest # {} /\ Go(w, "ous")
           /\ walk' = [walk EXCEPT ![w].front = rest, ![w].listed = listed]
        \/ /\ rest = {} /\ Go(w, there)
           /\ walk' = [walk EXCEPT ![w].front = walk[w].below, ![w].below = {},
                                   ![w].depth = depth, ![w].listed = listed]
    BY <1>8 DEF ListAccounts
  <2>3. CASE Go(w, "failed") /\ UNCHANGED walk
    <3>1. pc'[w] = "failed" /\ walk' = walk
      BY <1>1, <2>3 DEF Go
    <3> QED
      BY <1>1, <1>3, <3>1 DEF ListInv
  <2>4. ASSUME walk'[w].front \cup walk'[w].below = rest \cup walk[w].below,
               walk'[w].listed = listed, walk'[w].calm = walk[w].calm,
               pc'[w] \in {"ous", "done", "tooDeep"},
               pc'[w] = "done" => walk'[w].front = {} /\ walk'[w].below = {}
        PROVE  ListInv(w)'
    <3>1. Pending(w)' = rest \cup walk[w].below /\ Pending(w) = rest \cup walk[w].below
      BY <2>1, <2>4 DEF Pending
    <3>2. ASSUME NEW a \in walk[w].calm, Base[w] \in Above(parent[a])
          PROVE  Due(w, a)'
      <4>1. Due(w, a) /\ a \in Accounts
        BY <1>2, <2>1, <3>2 DEF ListInv
      <4>2. CASE <<a, parent[a]>> \in walk[w].listed
        BY <1>1, <2>4, <4>2 DEF Due
      <4>3. CASE parent[a] = c
        BY <1>1, <2>4, <4>1, <4>3 DEF Due
      <4>4. CASE Pending(w) \cap Above(parent[a]) # {}
        <5> HIDE DEF rest
        <5> QED
          BY <1>1, <1>3, <3>1, <4>4 DEF Due
      <4> QED
        BY <4>1, <4>2, <4>3, <4>4 DEF Due
    <3>3. ASSUME NEW a \in Accounts, NEW d \in Nat, <<a, d>> \in walk'[w].listed
          PROVE  d \in Containers' /\ Base[w] \in Above(d)' /\ (a \in walk'[w].calm => parent'[a] = d)
      <4>1. CASE <<a, d>> \in walk[w].listed
        BY <1>1, <1>3, <2>4, <4>1 DEF ListInv
      <4>2. CASE <<a, d>> \notin walk[w].listed
        <5>1. d = c /\ parent[a] = c
          BY <2>4, <3>3, <4>2
        <5> QED
          BY <1>1, <1>3, <1>5, <2>1, <5>1
      <4> QED
        BY <4>1, <4>2
    <3>4. \A a \in walk'[w].calm : Base[w] \in Above(parent[a])' => Due(w, a)'
      BY <1>1, <1>3, <2>4, <3>2
    <3>5. \A d \in walk'[w].front \cup walk'[w].below : Base[w] \in Above(d)'
      BY <1>3, <1>5, <2>4
    <3> QED
      BY <2>4, <3>3, <3>4, <3>5 DEF ListInv
  <2>5. CASE /\ Go(w, "ous")
             /\ walk' = [walk EXCEPT ![w].front = rest, ![w].listed = listed]
    <3>1. /\ pc'[w] = "ous"
          /\ walk'[w] = [walk[w] EXCEPT !.front = rest, !.listed = listed]
      BY <1>1, <2>5 DEF Go
    <3> HIDE DEF rest, listed
    <3>2. /\ walk'[w].front = rest /\ walk'[w].below = walk[w].below
          /\ walk'[w].listed = listed /\ walk'[w].calm = walk[w].calm
      BY <1>2, <3>1 DEF Walk
    <3> QED
      BY <2>4, <3>1, <3>2
  <2>6. CASE /\ rest = {} /\ Go(w, there)
             /\ walk' = [walk EXCEPT ![w].front = walk[w].below, ![w].below = {},
                                     ![w].depth = depth, ![w].listed = listed]
    <3>1. /\ pc'[w] = there
          /\ walk'[w] = [walk[w] EXCEPT !.front = walk[w].below, !.below = {},
                                        !.depth = depth, !.listed = listed]
      BY <1>1, <2>6 DEF Go
    <3>2. there \in {"ous", "done", "tooDeep"} /\ (there = "done" => walk[w].below = {})
      OBVIOUS
    <3> HIDE DEF rest, listed, there
    <3>3. /\ walk'[w].front = walk[w].below /\ walk'[w].below = {}
          /\ walk'[w].listed = listed /\ walk'[w].calm = walk[w].calm
      BY <1>2, <3>1 DEF Walk
    <3> QED
      BY <2>4, <2>6, <3>1, <3>2, <3>3
  <2> QED
    BY <2>2, <2>3, <2>5, <2>6
<1> QED
  BY <1>6, <1>7, <1>8 DEF ListStep

\* The inductive invariant of the lists, beside that of the tree.
ListsOK == Housed /\ \A w \in Lists : ListInv(w)

LEMMA InitLists == Init => ListsOK
<1> SUFFICES ASSUME Init PROVE ListsOK
  OBVIOUS
<1>1. TypeOK /\ Legal(ou) /\ \A w \in Lists : WalkInv(w)
  BY InitInv DEF IInv
<1>2. Housed
  BY DEF Init, Housed
<1>3. ASSUME NEW w \in Lists
      PROVE  ListInv(w)
  <2>1. /\ pc[w] = "idle" /\ walk[w].front = {Base[w]} /\ walk[w].below = {}
        /\ walk[w].listed = {}
    BY DEF Init
  <2>2. Base[w] \in Above(Base[w])
    BY <1>1, AboveIs DEF WalkInv
  <2> QED
    BY <2>1, <2>2 DEF ListInv
<1> QED
  BY <1>2, <1>3 DEF ListsOK

LEMMA ListsPreserved == IInv /\ ListsOK /\ [Next]_vars => ListsOK'
<1> SUFFICES ASSUME IInv, ListsOK, [Next]_vars PROVE ListsOK'
  OBVIOUS
<1>1. /\ TypeOK /\ Legal(ou) /\ Housed
      /\ \A w \in Lists : WalkInv(w) /\ ListInv(w)
  BY DEF IInv, ListsOK
<1>2. Legal(ou)'
  BY Preserved DEF IInv
<1>3. ASSUME Kept, Housed', UNCHANGED <<parent, walk>>, NEW u,
             \A w \in Lists \ {u} : pc'[w] = pc[w]
      PROVE  \A w \in Lists \ {u} : ListInv(w)'
  <2> SUFFICES ASSUME NEW w \in Lists \ {u} PROVE ListInv(w)'
    OBVIOUS
  <2>1. walk'[w] = walk[w] /\ pc'[w] \in {pc[w], "failed"}
    BY <1>3
  <2> QED
    BY <1>1, <1>2, <1>3, <2>1, ListFramed
<1>4. UNCHANGED <<ou, parent>> => Housed'
  BY <1>1 DEF Housed, Exists, Containers, Ids
<1>5. ASSUME NEW e \in Vends, Begin(e) \/ VendStep(e) \/ Stop(e)
      PROVE  ListsOK'
  <2>1. Moved(e) /\ Kept /\ UNCHANGED <<parent, walk>>
    BY <1>5, VendTurn
  <2>2. \A o \in Ids : ou'[o] = ou[o]
    BY <1>1, <1>5, VendSeen DEF IInv
  <2>3. Housed'
    BY <1>1, <2>1, <2>2 DEF Housed, Exists, Containers, Kept
  <2>4. \A w \in Lists \ {e} : pc'[w] = pc[w]
    BY <2>1 DEF Moved
  <2>5. e \notin Lists
    BY ParametersTyped
  <2> QED
    BY <1>3, <2>1, <2>3, <2>4, <2>5 DEF ListsOK
<1>6. ASSUME NEW u \in Lists, BeginList(u) \/ ListStep(u)
      PROVE  ListsOK'
  <2>1. /\ UNCHANGED <<ou, parent>>
        /\ \A w \in Lists \ {u} : walk'[w] = walk[w] /\ pc'[w] = pc[w]
    BY <1>1, <1>6, ListTurn
  <2>2. Kept /\ Housed'
    BY <1>1, <1>4, <2>1, SameTree
  <2>3. ASSUME NEW w \in Lists \ {u} PROVE ListInv(w)'
    <3>1. walk'[w] = walk[w] /\ pc'[w] \in {pc[w], "failed"}
      BY <2>1
    <3> QED
      BY <1>1, <1>2, <2>1, <2>2, <3>1, ListFramed
  <2>4. ListInv(u)'
    BY <1>1, <1>6, ListShows
  <2> QED
    BY <2>2, <2>3, <2>4 DEF ListsOK
<1>7. ASSUME NEW u \in Lists, Stop(u)
      PROVE  ListsOK'
  <2>1. UNCHANGED <<ou, parent, walk>> /\ pc' = [pc EXCEPT ![u] = "failed"]
        /\ pc \in [Vends \cup Lists -> Places]
    BY <1>1, <1>7 DEF Stop, Go, TypeOK, Places
  <2>2. Kept /\ Housed'
    BY <1>1, <1>4, <2>1, SameTree
  <2>3. ASSUME NEW w \in Lists PROVE ListInv(w)'
    <3>1. walk'[w] = walk[w] /\ pc'[w] \in {pc[w], "failed"}
      BY <2>1
    <3> QED
      BY <1>1, <1>2, <2>1, <2>2, <3>1, ListFramed
  <2> QED
    BY <2>2, <2>3 DEF ListsOK
<1>8. ASSUME \/ \E c \in Containers, n \in Creatable : PeopleCreate(c, n)
             \/ \E o \in Ids : PeopleDelete(o) \/ \E n \in Renamable : PeopleRename(o, n)
             \/ \E m \in Moves : PeopleMove(m[1], m[2], m[3])
      PROVE  ListsOK'
  <2>1. /\ Kept /\ Housed' /\ pc' = pc
        /\ \A w \in Lists :
             /\ walk'[w].front = walk[w].front /\ walk'[w].below = walk[w].below
             /\ walk'[w].reading = walk[w].reading /\ walk'[w].listed = walk[w].listed
             /\ walk'[w].calm \subseteq walk[w].calm
             /\ \A a \in walk'[w].calm : parent'[a] = parent[a]
    BY <1>1, <1>8, PeopleHoused
  <2>2. ASSUME NEW w \in Lists PROVE ListInv(w)'
    BY <1>1, <1>2, <2>1, ListFramed
  <2> QED
    BY <2>1, <2>2 DEF ListsOK
<1>9. CASE UNCHANGED vars
  <2>1. UNCHANGED <<ou, parent, walk, pc>>
    BY <1>9 DEF vars
  <2>2. Kept /\ Housed'
    BY <1>1, <1>4, <2>1, SameTree
  <2>3. ASSUME NEW w \in Lists PROVE ListInv(w)'
    BY <1>1, <1>2, <2>1, <2>2, ListFramed
  <2> QED
    BY <2>2, <2>3 DEF ListsOK
<1> QED
  BY <1>5, <1>6, <1>7, <1>8, <1>9, ParametersTyped DEF Next

-----------------------------------------------------------------------------
(* The theorems *)

\* The variables keep their types, whatever the tree, the paths and the runs.
THEOREM Types == Spec => []TypeOK
<1>1. IInv => TypeOK
  BY DEF IInv
<1> QED
  BY <1>1, Invariance, PTL

\* The tree stays one AWS permits: siblings differ in name, nothing is deeper
\* than the limit, and no OU outlives its parent.
THEOREM TreeStaysLegal == Spec => []Legal(ou)
<1>1. IInv => Legal(ou)
  BY DEF IInv
<1> QED
  BY <1>1, Invariance, PTL

\* Vends of one path under one parent end in one OU, while it lives.
THEOREM OnePathOneOU == Spec => []SamePathSameOU
<1>1. IInv => SamePathSameOU
  <2> SUFFICES ASSUME IInv, NEW d \in Vends, NEW e \in Vends,
                      input[d].base = input[e].base, input[d].path = input[e].path,
                      NamesOf(d) \cap Renamable = {},
                      pc[d] = "done", pc[e] = "done", Exists(Cur(d)), Exists(Cur(e))
               PROVE  Cur(d) = Cur(e)
    BY DEF SamePathSameOU
  <2> DEFINE k == Len(input[d].path)
  <2>1. /\ k \in Nat \ {0} /\ Len(way[d]) = k /\ Len(way[e]) = k
        /\ WayInv(d) /\ WayInv(e) /\ TypeOK /\ Legal(ou)
    BY VendTyped DEF IInv, VendInv, WayInv
  <2>2. Cur(d) = way[d][k] /\ Cur(e) = way[e][k]
    BY <2>1, CurRight
  <2>3. way[d][k] \in Ids /\ way[e][k] \in Ids
    BY <2>1 DEF WayInv, OnWay
  <2>4. ou[way[d][k]].live /\ ou[way[e][k]].live
    BY <2>1, <2>2, <2>3, TreeTyped DEF Exists, Root
  <2> QED
    BY <2>1, <2>2, <2>4 DEF IInv, Agreeing, PathsAgree
<1> QED
  BY <1>1, Invariance, PTL

\* A measured path is never left half made, and a refusal leaves nothing behind.
THEOREM PathsAreWhole == Spec => []NoHalfPath
<1>1. IInv => NoHalfPath
  BY DEF IInv, VendInv, DepthInv, MadeInv, NoHalfPath
<1> QED
  BY <1>1, Invariance, PTL

\* What is refused as too deep does not fit, and no list meets its depth bound.
THEOREM RefusalsAreRight == Spec => []NoFalseAlarm
<1>1. IInv => NoFalseAlarm
  <2> SUFFICES ASSUME IInv PROVE NoFalseAlarm
    OBVIOUS
  <2>1. ASSUME NEW e \in Vends, pc[e] = "refused"
        PROVE  Level(input[e].base) + Len(input[e].path) > MaxOUDepth
    <3>1. /\ ~Fits(e) /\ input[e].base \in Containers
      BY <2>1 DEF IInv, VendInv, DepthInv, WayInv
    <3>2. Level(input[e].base) \in Nat /\ Len(input[e].path) \in Nat /\ MaxOUDepth \in Nat
      BY <3>1, TreeTyped, VendTyped, ParametersTyped DEF IInv, Level, Containers
    <3> QED
      BY <3>1, <3>2 DEF Fits
  <2>2. \A w \in Lists : pc[w] # "tooDeep"
    BY DEF IInv, WalkInv
  <2> QED
    BY <2>1, <2>2 DEF NoFalseAlarm
<1> QED
  BY <1>1, Invariance, PTL

\* An apply resolves what its plan has shown to the OU that was shown, as long as
\* nobody has touched it or what is above it; and a plan makes nothing.
THEOREM AppliesFollowPlans == Spec => []PlanHolds
<1>1. IInv => PlanHolds
  <2> SUFFICES ASSUME IInv, NEW e \in Vends
               PROVE  /\ pass[e] = "plan" => Made(e) = {}
                      /\ \A i \in DOMAIN way[e] : Shown(e, i) => way[e][i] \in seen[e]
    BY DEF PlanHolds
  <2>1. DOMAIN way[e] = 1..Len(way[e])
    BY VendTyped DEF IInv
  <2> QED
    BY <2>1 DEF IInv, VendInv, MadeInv, SeenInv
<1> QED
  BY <1>1, Invariance, PTL

\* A list that ends shows each account of its subtree that stayed where it was, once and
\* under its own OU, although the tree was read call by call (WalkTree).
THEOREM ListsShowAll == Spec => []ListedOnce
<1>1. IInv /\ ListsOK => ListedOnce
  <2> SUFFICES ASSUME IInv, ListsOK, NEW w \in Lists, pc[w] = "done", NEW a \in walk[w].calm
               PROVE  {c \in Containers : <<a, c>> \in walk[w].listed} =
                        {c \in {parent[a]} : Base[w] \in Above(c)}
    BY DEF ListedOnce
  <2>1. ListInv(w) /\ a \in Accounts /\ Legal(ou)
    BY WalkTyped DEF ListsOK, IInv
  <2>2. parent[a] \in Containers /\ Containers \subseteq Nat
    BY <2>1, TreeTyped DEF ListsOK, Housed, Containers, Root
  <2>3. ASSUME NEW c \in Containers, <<a, c>> \in walk[w].listed
        PROVE  c = parent[a] /\ Base[w] \in Above(c)
    BY <2>1, <2>2, <2>3 DEF ListInv
  <2>4. ASSUME Base[w] \in Above(parent[a])
        PROVE  <<a, parent[a]>> \in walk[w].listed
    <3>1. Due(w, a) /\ Pending(w) = {}
      BY <2>1, <2>4 DEF ListInv, Pending
    <3> QED
      BY <3>1 DEF Due
  <2> QED
    BY <2>2, <2>3, <2>4
<1>2. Init => ListsOK
  BY InitLists
<1>3. IInv /\ ListsOK /\ [Next]_vars => ListsOK'
  BY ListsPreserved
<1> QED
  BY <1>1, <1>2, <1>3, Invariance, PTL DEF Spec

================================================================================
