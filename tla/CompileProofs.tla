----------------------------- MODULE CompileProofs -----------------------------
(***************************************************************************)
(* Proofs about the algebra of control sets and the compile that applies   *)
(* it, for any actions, regions, principals and values and any catalog:    *)
(* merging deny statements, however often, changes nothing they deny; a    *)
(* merged parameter permits exactly what both of its bindings permit; the  *)
(* policies packed deny, and the parameters permit, exactly what the       *)
(* chosen control sets promise; a conflict reported is one; and procedural *)
(* controls are grouped when, and only when, crosswalk entries join them.  *)
(***************************************************************************)
EXTENDS Compile, FiniteSetTheorems, TLAPS

\* What control sets hold: statements that deny named actions, with no region of theirs.
Plain(st) == st.acts # {} /\ st.in = {}

--------------------------------------------------------------------------------
\* A merged statement denies what the statements of its guard deny.
LEMMA GroupedDenies ==
  ASSUME NEW stmts \in SUBSET Statement, \A st \in stmts : Plain(st),
         NEW guard \in Guard, NEW q \in Request
  PROVE  (\E st \in Grouped(stmts, guard) : Denies(st, q))
           <=> (\E st \in stmts : st.when = guard /\ Denies(st, q))
<1> DEFINE named == UNION {st.acts : st \in {s \in stmts : s.when = guard}}
           One(list) == Deny({a \in named : Exempt(stmts, guard, a) = list}, guard, list)
<1>1. Grouped(stmts, guard) = {One(list) : list \in {Exempt(stmts, guard, a) : a \in named}}
  BY DEF Grouped
<1>2. q.act \in Actions /\ q.who \in Principals
  BY DEF Request
<1>3. ASSUME NEW st \in Grouped(stmts, guard), Denies(st, q)
      PROVE  \E old \in stmts : old.when = guard /\ Denies(old, q)
  <2>1. PICK a \in named : st = One(Exempt(stmts, guard, a))
    BY <1>1
  <2> DEFINE list == Exempt(stmts, guard, a)
  <2>2. /\ st.acts = {b \in named : Exempt(stmts, guard, b) = list}
        /\ st.when = guard /\ st.exempt = list /\ st.in = {}
    BY <2>1 DEF Deny
  <2>3. a \in st.acts
    BY <2>2
  <2>4. /\ q.act \in named /\ Exempt(stmts, guard, q.act) = list
        /\ q.who \notin list /\ ConditionMatches(st, q)
    BY <1>3, <2>2, <2>3 DEF Denies, IsAllowlist
  <2>5. PICK old \in stmts : old.when = guard /\ q.act \in old.acts /\ q.who \notin old.exempt
    BY <1>2, <2>4 DEF Exempt
  <2>6. Denies(old, q)
    BY <2>2, <2>4, <2>5 DEF Denies, IsAllowlist, ConditionMatches, Plain
  <2> QED
    BY <2>5, <2>6
<1>4. ASSUME NEW old \in stmts, old.when = guard, Denies(old, q)
      PROVE  \E st \in Grouped(stmts, guard) : Denies(st, q)
  <2> DEFINE list == Exempt(stmts, guard, q.act)
  <2>1. q.act \in old.acts /\ q.who \notin old.exempt /\ ConditionMatches(old, q)
    BY <1>4 DEF Denies, IsAllowlist, Plain
  <2>2. q.act \in named
    BY <1>4, <2>1
  <2>3. One(list) \in Grouped(stmts, guard)
    BY <1>1, <2>2
  <2>4. q.who \notin list
    BY <1>4, <2>1 DEF Exempt
  <2>5. /\ One(list).acts = {b \in named : Exempt(stmts, guard, b) = list}
        /\ One(list).when = guard /\ One(list).exempt = list /\ One(list).in = {}
    BY DEF Deny
  <2>6. Denies(One(list), q)
    BY <1>4, <2>1, <2>2, <2>4, <2>5 DEF Denies, IsAllowlist, ConditionMatches, Plain
  <2> QED
    BY <2>3, <2>6
<1> QED
  BY <1>3, <1>4

\* Merging the statements of any control sets loses no prohibition and adds none
\* (mergeStatements, guardGroup).
THEOREM MergingDeniesTheSame ==
  ASSUME NEW stmts \in SUBSET Statement, \A st \in stmts : Plain(st), NEW q \in Request
  PROVE  (\E st \in NormalForm(stmts) : Denies(st, q)) <=> (\E st \in stmts : Denies(st, q))
<1>1. \A st \in stmts : st.when \in Guard
  BY DEF Statement
<1>2. NormalForm(stmts) = UNION {Grouped(stmts, guard) : guard \in {st.when : st \in stmts}}
  BY DEF NormalForm
<1>3. ASSUME NEW st \in NormalForm(stmts), Denies(st, q) PROVE \E old \in stmts : Denies(old, q)
  <2>1. PICK guard \in {old.when : old \in stmts} : st \in Grouped(stmts, guard)
    BY <1>2
  <2> QED
    BY <1>1, <1>3, <2>1, GroupedDenies
<1>4. ASSUME NEW old \in stmts, Denies(old, q) PROVE \E st \in NormalForm(stmts) : Denies(st, q)
  <2>1. \E st \in Grouped(stmts, old.when) : Denies(st, q)
    BY <1>1, <1>4, GroupedDenies
  <2> QED
    BY <1>2, <2>1
<1> QED
  BY <1>3, <1>4

\* A merged statement is one a control set could hold.
LEMMA NormalFormPlain ==
  ASSUME NEW stmts \in SUBSET Statement, \A st \in stmts : Plain(st)
  PROVE  NormalForm(stmts) \in SUBSET Statement /\ \A st \in NormalForm(stmts) : Plain(st)
<1> SUFFICES ASSUME NEW st \in NormalForm(stmts) PROVE st \in Statement /\ Plain(st)
  OBVIOUS
<1>1. PICK guard \in {old.when : old \in stmts} : st \in Grouped(stmts, guard)
  BY DEF NormalForm
<1> DEFINE named == UNION {old.acts : old \in {s \in stmts : s.when = guard}}
<1>2. PICK a \in named :
         LET list == Exempt(stmts, guard, a)
         IN  st = Deny({b \in named : Exempt(stmts, guard, b) = list}, guard, list)
  BY <1>1 DEF Grouped
<1>3. guard \in Guard /\ named \subseteq Actions
  BY DEF Statement
<1>4. Exempt(stmts, guard, a) \subseteq Principals
  BY DEF Exempt
<1>5. a \in st.acts
  BY <1>2 DEF Deny
<1> QED
  BY <1>2, <1>3, <1>4, <1>5 DEF Deny, Statement, Plain

\* Control sets folded two at a time, merging at each fold, deny what they denied apart
\* (CombineWithOverrides).
THEOREM FoldingDeniesTheSame ==
  ASSUME NEW A \in SUBSET Statement, NEW B \in SUBSET Statement,
         \A st \in A \cup B : Plain(st), NEW q \in Request
  PROVE  (\E st \in NormalForm(NormalForm(A) \cup NormalForm(B)) : Denies(st, q))
           <=> (\E st \in A \cup B : Denies(st, q))
<1> DEFINE both == NormalForm(A) \cup NormalForm(B)
<1>1. both \in SUBSET Statement /\ \A st \in both : Plain(st)
  BY NormalFormPlain
<1>2. (\E st \in NormalForm(both) : Denies(st, q)) <=> (\E st \in both : Denies(st, q))
  BY <1>1, MergingDeniesTheSame
<1>3. /\ (\E st \in NormalForm(A) : Denies(st, q)) <=> (\E st \in A : Denies(st, q))
      /\ (\E st \in NormalForm(B) : Denies(st, q)) <=> (\E st \in B : Denies(st, q))
  BY MergingDeniesTheSame
<1> QED
  BY <1>2, <1>3

--------------------------------------------------------------------------------
\* A parameter two control sets bind permits, once merged, exactly what both permit
\* (RuleParameter.Resolve and Permits).
THEOREM ResolvedPermitsBoth ==
  ASSUME NEW p \in Parameter, NEW q \in Parameter, NEW r \in Resolve(p, q), NEW c \in Values
  PROVE  Permits(r, c) <=> Permits(p, c) /\ Permits(q, c)
<1>1. Values \subseteq Nat
  BY Vocabulary
<1>2. p.order = q.order /\ p.order \in Orders
  <2>1. p.order = q.order
    BY DEF Resolve
  <2>2. p.order \in Orders
    BY DEF Parameter, Orders, Sets
  <2> QED
    BY <2>1, <2>2
<1>3. CASE p.order = "exact"
  <2>1. r = p /\ p.value = q.value
    BY <1>2, <1>3 DEF Resolve
  <2> QED
    BY <1>2, <1>3, <2>1 DEF Permits
<1>4. CASE p.order = "min"
  <2>1. p.value \in Nat /\ q.value \in Nat /\ c \in Nat
    BY <1>1, <1>2, <1>4 DEF Parameter, Orders, Sets
  <2>2. /\ r \in {p, q} /\ r.order = "min"
        /\ p.value # q.value => 0 \notin {p.value, q.value}
        /\ p.value # q.value => r = (IF p.value < q.value THEN p ELSE q)
        /\ p.value = q.value => r = p
    BY <1>2, <1>4 DEF Resolve
  <2> QED
    BY <1>2, <1>4, <2>1, <2>2 DEF Permits
<1>5. CASE p.order = "max"
  <2>1. p.value \in Nat /\ q.value \in Nat /\ c \in Nat
    BY <1>1, <1>2, <1>5 DEF Parameter, Orders, Sets
  <2>2. CASE p.value = q.value
    <3>1. r = p
      BY <1>2, <1>5, <2>2 DEF Resolve
    <3> QED
      BY <1>2, <1>5, <2>2, <3>1 DEF Permits
  <2>3. CASE p.value # q.value
    <3>1. 0 \notin {p.value, q.value} /\ p.order # "min"
      BY <1>2, <1>5, <2>3 DEF Resolve
    <3>2. p.value < q.value => r = q
      BY <1>2, <1>5, <2>3, <3>1 DEF Resolve
    <3>3. ~(p.value < q.value) => r = p
      BY <1>2, <1>5, <2>3, <3>1 DEF Resolve
    <3>4. /\ Permits(p, c) <=> 0 \notin {c, p.value} /\ c >= p.value
          /\ Permits(q, c) <=> 0 \notin {c, q.value} /\ c >= q.value
      BY <1>2, <1>5 DEF Permits
    <3>5. CASE p.value < q.value
      BY <2>1, <3>1, <3>2, <3>4, <3>5
    <3>6. CASE ~(p.value < q.value)
      BY <2>1, <3>1, <3>3, <3>4, <3>6
    <3> QED
      BY <3>5, <3>6
  <2> QED
    BY <2>2, <2>3
<1>6. CASE p.order = "set-union"
  <2>1. r = [p EXCEPT !.value = p.value \cup q.value]
    BY <1>2, <1>6 DEF Resolve
  <2>2. r.order = "set-union" /\ r.value = p.value \cup q.value
    BY <1>6, <2>1 DEF Parameter
  <2> QED
    BY <1>2, <1>6, <2>2 DEF Permits
<1>7. CASE p.order = "set-intersect"
  <2>1. r = [p EXCEPT !.value = p.value \cap q.value]
    BY <1>2, <1>7 DEF Resolve
  <2>2. r.order = "set-intersect" /\ r.value = p.value \cap q.value
    BY <1>7, <2>1 DEF Parameter
  <2> QED
    BY <1>2, <1>7, <2>2 DEF Permits
<1> QED
  BY <1>2, <1>3, <1>4, <1>5, <1>6, <1>7 DEF Orders, Sets

\* Two bindings that can be compared and do not merge permit no value in common: the
\* conflict reported is one (RuleParameter.Resolve).
THEOREM RefusedShareNothing ==
  ASSUME NEW p \in Parameter, NEW q \in Parameter, p.order = q.order, p.sep = q.sep,
         Resolve(p, q) = {}, NEW c \in Values
  PROVE  ~(Permits(p, c) /\ Permits(q, c))
<1>1. p.order \in Orders
  BY DEF Parameter, Orders, Sets
<1>2. CASE p.order = "exact"
  <2>1. p.value # q.value
    BY <1>2 DEF Resolve
  <2> QED
    BY <1>2, <2>1 DEF Permits
<1>3. CASE p.order \in {"min", "max"}
  <2>1. 0 \in {p.value, q.value}
    BY <1>3 DEF Resolve
  <2> QED
    BY <1>3, <2>1 DEF Permits
<1>4. CASE p.order = "set-union"
  BY <1>4 DEF Resolve
<1>5. CASE p.order = "set-intersect"
  <2> DEFINE r == [p EXCEPT !.value = p.value \cap q.value]
  <2>1. r.value = p.value \cap q.value
    BY <1>5 DEF Parameter
  <2>2. r.value = {}
    BY <1>5 DEF Resolve
  <2> QED
    BY <1>5, <2>1, <2>2 DEF Permits
<1> QED
  BY <1>1, <1>2, <1>3, <1>4, <1>5 DEF Orders, Sets

--------------------------------------------------------------------------------
(* Induction over the natural numbers.                                     *)

\* A set of natural numbers has a least one.
LEMMA Least ==
  ASSUME NEW T \in SUBSET Nat, T # {}
  PROVE  \E n \in T : \A m \in T : n <= m
<1>1. IsWellFoundedOn(OpToRel(<,Nat), Nat)
  BY NatLessThanWellFounded
<1>2. PICK n \in T : \A m \in T : ~ (<<m, n>> \in OpToRel(<, Nat))
  BY <1>1, WFMin
<1>3. \A m \in T : <<m, n>> \in OpToRel(<, Nat) <=> m < n
  BY <1>2 DEF OpToRel
<1>4. n \in Nat /\ \A m \in T : m \in Nat /\ ~ (m < n)
  BY <1>2, <1>3
<1> HIDE <1>1
<1> QED
  BY <1>4

\* A set that has 0, and the successor of each of its numbers, has them all.
LEMMA Induction ==
  ASSUME NEW P \in SUBSET Nat, 0 \in P, \A n \in Nat : n \in P => n + 1 \in P
  PROVE  P = Nat
<1>1. SUFFICES ASSUME Nat \ P # {} PROVE FALSE
  OBVIOUS
<1>2. PICK n \in Nat \ P : \A m \in Nat \ P : n <= m
  BY <1>1, Least
<1>3. n # 0 /\ n - 1 \in Nat /\ n - 1 \in P
  BY <1>2
<1> QED
  BY <1>2, <1>3

--------------------------------------------------------------------------------
(* What a control set carries.                                             *)

\* The form of what control sets are combined in.
Form(m) == m = [stmts |-> m.stmts, regions |-> m.regions, services |-> m.services,
                exempt |-> m.exempt, rules |-> m.rules,
                applied |-> m.applied, warned |-> m.warned, clash |-> m.clash]

\* Control sets hold plain statements, and lists of regions and services.
PlainControl(c) ==
    /\ c.stmts \in SUBSET Statement /\ \A st \in c.stmts : Plain(st)
    /\ c.regions \in SUBSET Regions /\ c.services \in SUBSET Services

\* The lists of some controls; an empty one is no bound.
RegionsOf(C) == {c.regions : c \in C} \ {{}}
ServicesOf(C) == {c.services : c \in C} \ {{}}

\* x is what some lists have in common, or no bound when there are none.
IsBound(x, lists) == x = IF lists = {} THEN Unrestricted ELSE Common(lists)

\* Some statements deny what those of some controls do.
DenyAs(stmts, C) ==
    /\ stmts \in SUBSET Statement /\ \A st \in stmts : Plain(st)
    /\ \A q \in Request : (\E st \in stmts : Denies(st, q))
                            <=> (\E c \in C : \E st \in c.stmts : Denies(st, q))

Carries(m, C) ==
    /\ Form(m) /\ DenyAs(m.stmts, C)
    /\ IsBound(m.regions, RegionsOf(C)) /\ IsBound(m.services, ServicesOf(C))

\* Two bounds intersect in what all of their lists have in common.
LEMMA IntersectIs ==
  ASSUME NEW S, \A list \in SUBSET S : list # Unrestricted,
         NEW A \in SUBSET (SUBSET S), NEW B \in SUBSET (SUBSET S),
         NEW x, IsBound(x, A), NEW y, IsBound(y, B)
  PROVE  IsBound(Intersect(x, y), A \cup B)
<1>1. CASE A = {} \/ B = {}
  <2>1. A = {} => x = Unrestricted /\ A \cup B = B
    BY DEF IsBound
  <2>2. B = {} => y = Unrestricted /\ A \cup B = A
    BY DEF IsBound
  <2>3. CASE A = {}
    BY <2>1, <2>3 DEF Intersect
  <2>4. CASE A # {}
    <3>1. B = {} /\ y = Unrestricted /\ A \cup B = A
      BY <1>1, <2>2, <2>4
    <3>2. x # Unrestricted => Intersect(x, y) = x
      BY <3>1 DEF Intersect
    <3>3. x = Unrestricted => Intersect(x, y) = x
      BY <3>1 DEF Intersect
    <3> QED BY <3>1, <3>2, <3>3
  <2> QED BY <2>3, <2>4
<1>2. CASE A # {} /\ B # {}
  <2>1. x = Common(A) /\ y = Common(B)
    BY <1>2 DEF IsBound
  <2>2. Common(A) \in SUBSET S /\ Common(B) \in SUBSET S
    BY DEF Common
  <2>3. Intersect(x, y) = x \cap y
    BY <2>1, <2>2 DEF Intersect
  <2>4. Common(A \cup B) = Common(A) \cap Common(B)
    BY <1>2 DEF Common
  <2> QED BY <1>2, <2>1, <2>3, <2>4 DEF IsBound
<1> QED BY <1>1, <1>2

LEMMA NoBound ==
  /\ \A list \in SUBSET Regions : list # Unrestricted
  /\ \A list \in SUBSET Services : list # Unrestricted
BY Zenon, Vocabulary

\* Statements that deny what two sets of controls do, together.
LEMMA DenyTogether ==
  ASSUME NEW A, NEW B, NEW C, NEW D, DenyAs(A, C), DenyAs(B, D)
  PROVE  DenyAs(A \cup B, C \cup D)
<1>1. A \cup B \in SUBSET Statement /\ \A st \in A \cup B : Plain(st)
  BY DEF DenyAs
<1>2. ASSUME NEW q \in Request
      PROVE  (\E st \in A \cup B : Denies(st, q))
               <=> (\E c \in C \cup D : \E st \in c.stmts : Denies(st, q))
  <2>1. (\E st \in A : Denies(st, q)) <=> (\E c \in C : \E st \in c.stmts : Denies(st, q))
    BY DEF DenyAs
  <2>2. (\E st \in B : Denies(st, q)) <=> (\E c \in D : \E st \in c.stmts : Denies(st, q))
    BY DEF DenyAs
  <2> QED BY <2>1, <2>2
<1> QED BY <1>1, <1>2 DEF DenyAs

\* Merged statements deny what they denied.
LEMMA DenyMerged ==
  ASSUME NEW A, NEW C, DenyAs(A, C)
  PROVE  DenyAs(NormalForm(A), C)
<1>1. NormalForm(A) \in SUBSET Statement /\ \A st \in NormalForm(A) : Plain(st)
  BY NormalFormPlain DEF DenyAs
<1>2. \A q \in Request : (\E st \in NormalForm(A) : Denies(st, q)) <=> (\E st \in A : Denies(st, q))
  BY MergingDeniesTheSame DEF DenyAs
<1> QED BY <1>1, <1>2 DEF DenyAs

\* Combining rules concerns the rules alone.
LEMMA CombineRulesKeeps ==
  ASSUME NEW m, Form(m), NEW rules, NEW o
  PROVE  LET n == CombineRules(m, rules, o)
         IN  /\ Form(n) /\ n.stmts = m.stmts /\ n.regions = m.regions
             /\ n.services = m.services /\ n.exempt = m.exempt
<1>1. \E f, g, h, i : CombineRules(m, rules, o)
                        = [m EXCEPT !.rules = f, !.clash = g, !.applied = h, !.warned = i]
  BY Zenon DEF CombineRules
<1>2. PICK f, g, h, i : CombineRules(m, rules, o)
                          = [m EXCEPT !.rules = f, !.clash = g, !.applied = h, !.warned = i]
  BY <1>1
<1> DEFINE n == CombineRules(m, rules, o)
<1>3. n = [m EXCEPT !.rules = f, !.clash = g, !.applied = h, !.warned = i]
  BY <1>2
<1> HIDE DEF n
<1>4. /\ Form(n) /\ n.stmts = m.stmts /\ n.regions = m.regions
      /\ n.services = m.services /\ n.exempt = m.exempt
  BY <1>3 DEF Form
<1> QED BY <1>4 DEF n

\* One more control (addSCP, addConfigRules).
LEMMA AddControlCarries ==
  ASSUME NEW m, NEW C, Carries(m, C), NEW c, PlainControl(c), \A d \in C : PlainControl(d),
         NEW o
  PROVE  Carries(AddControl(m, c, o), C \cup {c})
<1> DEFINE s == m.stmts \cup c.stmts
           r == Intersect(m.regions, Bound(c.regions))
           v == Intersect(m.services, Bound(c.services))
           mid == [m EXCEPT !.stmts = s, !.regions = r, !.services = v]
           n == CombineRules(mid, c.rules, o)
<1>1. AddControl(m, c, o) = n
  BY DEF AddControl
<1>2. Form(mid) /\ mid.stmts = s /\ mid.regions = r /\ mid.services = v
  <2>1. Form(m)
    BY DEF Carries
  <2> HIDE DEF s, r, v
  <2>2. mid = [m EXCEPT !.stmts = s, !.regions = r, !.services = v]
    OBVIOUS
  <2> HIDE DEF mid
  <2> QED BY <2>1, <2>2 DEF Form
<1> HIDE DEF mid, n
<1>3. /\ Form(n) /\ n.stmts = mid.stmts /\ n.regions = mid.regions /\ n.services = mid.services
  BY <1>2, CombineRulesKeeps DEF n
<1>4. DenyAs(c.stmts, {c})
  BY DEF DenyAs, PlainControl
<1>5. DenyAs(n.stmts, C \cup {c})
  BY <1>2, <1>3, <1>4, DenyTogether DEF Carries
<1>6. IsBound(n.regions, RegionsOf(C \cup {c}))
  <2>1. RegionsOf(C) \in SUBSET (SUBSET Regions) /\ RegionsOf({c}) \in SUBSET (SUBSET Regions)
    BY DEF RegionsOf, PlainControl
  <2>2. IsBound(Bound(c.regions), RegionsOf({c}))
    BY DEF IsBound, Bound, RegionsOf, Common
  <2>3. RegionsOf(C \cup {c}) = RegionsOf(C) \cup RegionsOf({c})
    BY DEF RegionsOf
  <2>4. IsBound(m.regions, RegionsOf(C))
    BY DEF Carries
  <2>5. IsBound(Intersect(m.regions, Bound(c.regions)), RegionsOf(C) \cup RegionsOf({c}))
    BY <2>1, <2>2, <2>4, NoBound, IntersectIs
  <2> QED BY <1>2, <1>3, <2>3, <2>5
<1>7. IsBound(n.services, ServicesOf(C \cup {c}))
  <2>1. ServicesOf(C) \in SUBSET (SUBSET Services) /\ ServicesOf({c}) \in SUBSET (SUBSET Services)
    BY DEF ServicesOf, PlainControl
  <2>2. IsBound(Bound(c.services), ServicesOf({c}))
    BY DEF IsBound, Bound, ServicesOf, Common
  <2>3. ServicesOf(C \cup {c}) = ServicesOf(C) \cup ServicesOf({c})
    BY DEF ServicesOf
  <2>4. IsBound(m.services, ServicesOf(C))
    BY DEF Carries
  <2>5. IsBound(Intersect(m.services, Bound(c.services)), ServicesOf(C) \cup ServicesOf({c}))
    BY <2>1, <2>2, <2>4, NoBound, IntersectIs
  <2> QED BY <1>2, <1>3, <2>3, <2>5
<1> QED BY <1>1, <1>3, <1>5, <1>6, <1>7 DEF Carries

\* The controls of an artifact are added one after the other.
LEMMA FromArtifactIs ==
  ASSUME NEW art, art.controls \in Seq(Members(art.controls)), NEW o
  PROVE  \E first :
            /\ first[0] = Nothing
            /\ \A n \in 1..Len(art.controls) :
                  first[n] = AddControl(first[n - 1], art.controls[n], o)
            /\ FromArtifact(art, o)
                 = [first[Len(art.controls)] EXCEPT !.stmts = NormalForm(@), !.exempt = art.exempt]
<1> DEFINE l == Len(art.controls)
           Step_(g, n) == IF n = 0 THEN Nothing ELSE AddControl(g[n - 1], art.controls[n], o)
           first == CHOOSE g : g = [n \in 0..l |-> Step_(g, n)]
<1>1. l \in Nat
  OBVIOUS
<1>2. FromArtifact(art, o)
        = [first[l] EXCEPT !.stmts = NormalForm(@), !.exempt = art.exempt]
  BY DEF FromArtifact
<1>3. \A n \in Nat : \E g : g = [i \in 0..n |-> Step_(g, i)]
  <2> DEFINE P == {n \in Nat : \E g : g = [i \in 0..n |-> Step_(g, i)]}
  <2>1. 0 \in P
    <3>1. [i \in 0..0 |-> Nothing] = [i \in 0..0 |-> Step_([j \in 0..0 |-> Nothing], i)]
      OBVIOUS
    <3> QED BY <3>1
  <2>2. \A n \in Nat : n \in P => n + 1 \in P
    <3> SUFFICES ASSUME NEW n \in Nat, n \in P
                 PROVE  n + 1 \in P
      OBVIOUS
    <3>0. PICK g : g = [i \in 0..n |-> Step_(g, i)]
      OBVIOUS
    <3> HIDE DEF P
    <3> DEFINE h == [i \in 0..(n + 1) |-> IF i = n + 1 THEN Step_(g, n + 1) ELSE g[i]]
    <3>1. \A i \in 0..(n + 1) : h[i] = Step_(h, i)
      <4> SUFFICES ASSUME NEW i \in 0..(n + 1) PROVE h[i] = Step_(h, i)
        OBVIOUS
      <4>1. i # 0 => i - 1 \in 0..n /\ i - 1 # n + 1 /\ h[i - 1] = g[i - 1]
        OBVIOUS
      <4>2. Step_(h, i) = Step_(g, i)
        BY <4>1
      <4>3. i # n + 1 => i \in 0..n /\ g[i] = Step_(g, i)
        BY <3>0
      <4> QED BY <4>2, <4>3
    <3>2. h = [i \in 0..(n + 1) |-> Step_(h, i)]
      BY <3>1
    <3> HIDE DEF h
    <3>3. \E f : f = [i \in 0..(n + 1) |-> Step_(f, i)]
      BY <3>2
    <3> QED BY <3>3 DEF P
  <2> HIDE DEF P
  <2>3. P = Nat
    BY <2>1, <2>2, Induction DEF P
  <2> QED BY <2>3 DEF P
<1>4. first = [n \in 0..l |-> Step_(first, n)]
  BY <1>1, <1>3
<1> HIDE DEF first
<1>5. \A n \in 0..l : first[n] = Step_(first, n)
  BY <1>4
<1>6. first[0] = Nothing
  BY <1>1, <1>5
<1>7. ASSUME NEW n \in 1..l PROVE first[n] = AddControl(first[n - 1], art.controls[n], o)
  <2>1. n \in 0..l /\ n # 0
    BY <1>1
  <2> QED BY <1>5, <2>1
<1> HIDE DEF l
<1> QED BY <1>2, <1>6, <1>7 DEF l

\* A control set carries its controls (fromArtifact), merged.
LEMMA FromArtifactCarries ==
  ASSUME NEW art, art.controls \in Seq(Members(art.controls)), NEW o,
         \A c \in Members(art.controls) : PlainControl(c)
  PROVE  /\ Carries(FromArtifact(art, o), Members(art.controls))
         /\ FromArtifact(art, o).exempt = art.exempt
<1> DEFINE l == Len(art.controls)
           M(n) == {art.controls[i] : i \in 1..n}
<1>1. PICK first : /\ first[0] = Nothing
                   /\ \A n \in 1..l : first[n] = AddControl(first[n - 1], art.controls[n], o)
                   /\ FromArtifact(art, o)
                        = [first[l] EXCEPT !.stmts = NormalForm(@), !.exempt = art.exempt]
  BY FromArtifactIs
<1>2. l \in Nat /\ DOMAIN art.controls = 1..l
  OBVIOUS
<1>3. \A n \in 0..l : \A c \in M(n) : PlainControl(c)
  BY <1>2 DEF Members
<1> DEFINE Sum_(n) == Carries(first[n], M(n))
           P == {n \in Nat : n <= l => Sum_(n)}
<1>4. 0 \in P
  <2>1. M(0) = {}
    OBVIOUS
  <2>2. Carries(Nothing, {})
    BY DEF Carries, Form, Nothing, DenyAs, IsBound, RegionsOf, ServicesOf
  <2> QED BY <1>1, <2>1, <2>2
<1>5. \A n \in Nat : n \in P => n + 1 \in P
  <2> HIDE DEF Sum_
  <2> SUFFICES ASSUME NEW n \in Nat, n \in P, n + 1 <= l
               PROVE  Sum_(n + 1)
    OBVIOUS
  <2>1. n + 1 \in 1..l /\ n \in 0..l /\ (n + 1) - 1 = n /\ n <= l
    BY <1>2
  <2>0. Sum_(n)
    BY <2>1
  <2> USE DEF Sum_
  <2>2. first[n + 1] = AddControl(first[n], art.controls[n + 1], o)
    BY <1>1, <2>1
  <2>3. M(n + 1) = M(n) \cup {art.controls[n + 1]}
    BY <2>1
  <2>4. PlainControl(art.controls[n + 1])
    BY <1>2, <2>1 DEF Members
  <2>5. \A d \in M(n) : PlainControl(d)
    BY <1>3, <2>1
  <2> HIDE DEF M, P
  <2> QED BY <2>0, <2>2, <2>3, <2>4, <2>5, AddControlCarries
<1>6. Carries(first[l], Members(art.controls))
  <2> HIDE DEF P
  <2>1. P = Nat
    BY <1>4, <1>5, Induction DEF P
  <2>2. M(l) = Members(art.controls)
    BY <1>2 DEF Members
  <2> HIDE DEF M, l
  <2>3. l \in P /\ l <= l
    BY <1>2, <2>1
  <2> QED BY <2>2, <2>3 DEF P
<1> DEFINE m == first[l]
           n == FromArtifact(art, o)
<1>7. n = [m EXCEPT !.stmts = NormalForm(m.stmts), !.exempt = art.exempt]
  BY <1>1
<1> HIDE DEF m, n
<1>8. Form(m) /\ Carries(m, Members(art.controls))
  BY <1>6 DEF m, Carries
<1>9. /\ Form(n) /\ n.stmts = NormalForm(m.stmts) /\ n.exempt = art.exempt
      /\ n.regions = m.regions /\ n.services = m.services
  BY <1>7, <1>8 DEF Form
<1>10. DenyAs(n.stmts, Members(art.controls))
  BY <1>8, <1>9, DenyMerged DEF Carries
<1> QED BY <1>8, <1>9, <1>10 DEF Carries, n

\* Two control sets combined carry the controls of both (Combine).
LEMMA CombineCarries ==
  ASSUME NEW a, NEW C, Carries(a, C), \A c \in C : PlainControl(c),
         NEW b, NEW D, Carries(b, D), \A c \in D : PlainControl(c), NEW o
  PROVE  /\ Carries(Combine(a, b, o), C \cup D)
         /\ Combine(a, b, o).exempt = Intersect(a.exempt, b.exempt)
<1> DEFINE m == CombineRules(a, b.rules, o)
           n == Combine(a, b, o)
<1>1. /\ Form(m) /\ m.stmts = a.stmts /\ m.regions = a.regions /\ m.services = a.services
      /\ m.exempt = a.exempt
  BY CombineRulesKeeps DEF Carries
<1>2. n = [m EXCEPT !.stmts = NormalForm(@ \cup b.stmts),
                    !.regions = Intersect(@, b.regions),
                    !.services = Intersect(@, b.services),
                    !.exempt = Intersect(@, b.exempt),
                    !.applied = @ \cup b.applied, !.warned = @ \cup b.warned,
                    !.clash = @ \cup b.clash]
  BY DEF Combine
<1> HIDE DEF m, n
<1>3. /\ Form(n) /\ n.stmts = NormalForm(a.stmts \cup b.stmts)
      /\ n.regions = Intersect(a.regions, b.regions)
      /\ n.services = Intersect(a.services, b.services)
      /\ n.exempt = Intersect(a.exempt, b.exempt)
  BY <1>1, <1>2 DEF Form
<1>4. DenyAs(n.stmts, C \cup D)
  BY <1>3, DenyTogether, DenyMerged DEF Carries
<1>5. IsBound(n.regions, RegionsOf(C \cup D))
  <2>1. RegionsOf(C) \in SUBSET (SUBSET Regions) /\ RegionsOf(D) \in SUBSET (SUBSET Regions)
    BY DEF RegionsOf, PlainControl
  <2>2. RegionsOf(C \cup D) = RegionsOf(C) \cup RegionsOf(D)
    BY DEF RegionsOf
  <2>3. IsBound(a.regions, RegionsOf(C)) /\ IsBound(b.regions, RegionsOf(D))
    BY DEF Carries
  <2>4. IsBound(Intersect(a.regions, b.regions), RegionsOf(C) \cup RegionsOf(D))
    BY <2>1, <2>3, NoBound, IntersectIs
  <2> QED BY <1>3, <2>2, <2>4
<1>6. IsBound(n.services, ServicesOf(C \cup D))
  <2>1. ServicesOf(C) \in SUBSET (SUBSET Services) /\ ServicesOf(D) \in SUBSET (SUBSET Services)
    BY DEF ServicesOf, PlainControl
  <2>2. ServicesOf(C \cup D) = ServicesOf(C) \cup ServicesOf(D)
    BY DEF ServicesOf
  <2>3. IsBound(a.services, ServicesOf(C)) /\ IsBound(b.services, ServicesOf(D))
    BY DEF Carries
  <2>4. IsBound(Intersect(a.services, b.services), ServicesOf(C) \cup ServicesOf(D))
    BY <2>1, <2>3, NoBound, IntersectIs
  <2> QED BY <1>3, <2>2, <2>4
<1> QED BY <1>3, <1>4, <1>5, <1>6 DEF Carries, n

--------------------------------------------------------------------------------
(* What the command has at each step.                                      *)

ControlsOf(ids) == UNION {Members(Artifacts[id].controls) : id \in ids}
ExemptsOf(ids) == {Artifacts[id].exempt : id \in ids} \ {Unrestricted}

Content == Hash(doc.profile)
Folded == Wanted(doc.profile) \ left

\* The allowlists as statements.
Lists(m) ==
    (IF m.regions = Unrestricted THEN {} ELSE {RegionStatement(m.regions, m.exempt, Known)})
    \cup (IF m.services = Unrestricted THEN {} ELSE {ServiceStatement(m.services, m.exempt, Known)})

\* Statements that hold the allowlists, and deny besides what the control sets do.
Rendered(stmts) ==
    /\ ~Unrenderable(acc) /\ stmts \in SUBSET Statement /\ Lists(acc) \subseteq stmts
    /\ \A st \in stmts \ Lists(acc) : Plain(st)
    /\ \A q \in Request : (\E st \in stmts \ Lists(acc) : Denies(st, q))
                            <=> (\E st \in acc.stmts : Denies(st, q))

Bounded == Packed \/ phase \in {"render", "fit", "place"}

\* The documents are acceptable from the moment they are loaded.
LoadedOK ==
    /\ doc \in Docs /\ overrides \in OverrideFiles
    /\ phase = "load" => acc = Nothing
    /\ phase = "merge" \/ Merged => Acceptable /\ left \subseteq Wanted(doc.profile)
    /\ Merged => left = {}

\* What is combined is what the control sets folded say, and the profile's own bounds.
CombinedOK ==
    /\ phase = "merge" \/ Merged =>
         /\ Form(acc) /\ DenyAs(acc.stmts, ControlsOf(Folded))
         /\ IsBound(acc.exempt, ExemptsOf(Folded))
    /\ phase \in {"merge", "narrow"} =>
         /\ IsBound(acc.regions, RegionsOf(ControlsOf(Folded)))
         /\ IsBound(acc.services, ServicesOf(ControlsOf(Folded)))
    /\ Bounded =>
         /\ IsBound(acc.regions, RegionBounds(Content))
         /\ IsBound(acc.services, ServiceBounds(Content))

\* The statements to be packed and those packed are, together, the ones rendered.
PackedOK ==
    /\ bins \in Seq(SUBSET Statement)
    /\ phase \in {"load", "merge", "narrow", "render", "fit"} => bins = <<>>
    /\ phase \in {"fit", "place"} => Rendered(queue \cup Attached)
    /\ Packed => Rendered(Attached)

PolicyInv == LoadedOK /\ CombinedOK /\ PackedOK

\* What the catalog's documents can say, of those loaded.
LEMMA CatalogIs ==
  ASSUME Acceptable, NEW id \in Wanted(doc.profile)
  PROVE  /\ Artifacts[id].controls \in Seq(Members(Artifacts[id].controls))
         /\ Artifacts[id].exempt # Unrestricted => Artifacts[id].exempt \in SUBSET Services
         /\ \A c \in Members(Artifacts[id].controls) : PlainControl(c)
<1>1. id \in Ids /\ ValidArtifact(Artifacts[id])
  BY DEF Acceptable, Loads
<1>2. \A c \in Members(Artifacts[id].controls) : ValidSCP(c)
  BY <1>1 DEF ValidArtifact, ValidControl
<1>3. /\ Artifacts[id].controls \in Seq(Members(Artifacts[id].controls))
      /\ Artifacts[id].exempt # Unrestricted => Artifacts[id].exempt \in SUBSET Services
      /\ \A c \in Members(Artifacts[id].controls) :
            /\ c.stmts \in SUBSET Statement /\ \A st \in c.stmts : st.in = {}
            /\ c.regions \in SUBSET Regions /\ c.services \in SUBSET Services
  BY <1>1, ArtifactsAssumption
<1>4. ASSUME NEW c \in Members(Artifacts[id].controls) PROVE PlainControl(c)
  BY <1>2, <1>3 DEF PlainControl, Plain, ValidSCP, IsAllowlist
<1> QED BY <1>3, <1>4

LEMMA ControlsPlain ==
  ASSUME Acceptable, NEW ids \in SUBSET Wanted(doc.profile)
  PROVE  /\ \A c \in ControlsOf(ids) : PlainControl(c)
         /\ RegionsOf(ControlsOf(ids)) \in SUBSET (SUBSET Regions)
         /\ ServicesOf(ControlsOf(ids)) \in SUBSET (SUBSET Services)
         /\ ExemptsOf(ids) \in SUBSET (SUBSET Services)
<1>1. \A c \in ControlsOf(ids) : PlainControl(c)
  BY CatalogIs DEF ControlsOf
<1>2. ExemptsOf(ids) \in SUBSET (SUBSET Services)
  BY CatalogIs DEF ExemptsOf
<1> QED BY <1>1, <1>2 DEF RegionsOf, ServicesOf, PlainControl

--------------------------------------------------------------------------------
(* Loading, folding the control sets, and the profile's own bounds.        *)

LEMMA LoadKeeps ==
  ASSUME PolicyInv, Load
  PROVE  PolicyInv'
<1>1. CASE Refuse("refused")
  BY <1>1 DEF PolicyInv, LoadedOK, CombinedOK, PackedOK, Load, Refuse, Merged, Bounded, Packed
<1>2. CASE /\ Acceptable /\ phase' = "merge" /\ left' = Wanted(doc.profile)
           /\ UNCHANGED <<doc, overrides, acc, queue, bins, links, parent>>
  <2>1. phase = "load" /\ acc = Nothing /\ bins = <<>> /\ bins \in Seq(SUBSET Statement)
    BY DEF Load, PolicyInv, LoadedOK, PackedOK
  <2>2. LoadedOK'
    BY <1>2 DEF PolicyInv, LoadedOK, Merged, Packed, Acceptable
  <2>3. Folded' = {} /\ ControlsOf({}) = {} /\ ExemptsOf({}) = {}
    BY <1>2 DEF Folded, ControlsOf, ExemptsOf
  <2>4. /\ Form(Nothing) /\ DenyAs(Nothing.stmts, {}) /\ IsBound(Nothing.exempt, {})
        /\ IsBound(Nothing.regions, RegionsOf({})) /\ IsBound(Nothing.services, ServicesOf({}))
    BY DEF Form, DenyAs, IsBound, RegionsOf, ServicesOf, Nothing
  <2>5. CombinedOK'
    BY <1>2, <2>1, <2>3, <2>4 DEF CombinedOK, Bounded, Packed
  <2>6. PackedOK'
    BY <1>2, <2>1 DEF PackedOK, Packed
  <2> QED BY <2>2, <2>5, <2>6 DEF PolicyInv
<1> QED BY <1>1, <1>2 DEF Load

LEMMA MergeKeeps ==
  ASSUME PolicyInv, NEW id \in left, Merge(id)
  PROVE  PolicyInv'
<1>1. CASE Refuse("conflict")
  BY <1>1 DEF PolicyInv, LoadedOK, CombinedOK, PackedOK, Merge, Refuse, Merged, Bounded, Packed
<1> DEFINE art == Artifacts[id]
           next == FromArtifact(art, overrides)
           both == Combine(acc, next, overrides)
           C == ControlsOf(Folded)
           D == Members(art.controls)
<1>2. CASE /\ acc' = both /\ left' = left \ {id}
           /\ UNCHANGED <<doc, overrides, phase, queue, bins, links, parent>>
  <2>1. phase = "merge" /\ Acceptable /\ left \subseteq Wanted(doc.profile)
    BY DEF Merge, PolicyInv, LoadedOK
  <2>2. Carries(acc, C) /\ IsBound(acc.exempt, ExemptsOf(Folded))
    BY <2>1 DEF PolicyInv, CombinedOK, Carries
  <2>3. /\ art.controls \in Seq(D) /\ \A c \in D : PlainControl(c)
        /\ art.exempt # Unrestricted => art.exempt \in SUBSET Services
    BY <2>1, CatalogIs
  <2>4. Carries(next, D) /\ next.exempt = art.exempt
    BY <2>3, FromArtifactCarries
  <2>5. Folded \in SUBSET Wanted(doc.profile)
    BY DEF Folded
  <2>6. \A c \in C : PlainControl(c)
    BY <2>1, <2>5, ControlsPlain
  <2>7. Carries(both, C \cup D) /\ both.exempt = Intersect(acc.exempt, next.exempt)
    <3> HIDE DEF next, C, D
    <3> QED BY <2>2, <2>3, <2>4, <2>6, CombineCarries
  <2>8. Folded' = Folded \cup {id}
    BY <1>2, <2>1 DEF Folded
  <2>9. ControlsOf(Folded \cup {id}) = C \cup D
    BY DEF ControlsOf
  <2>10. IsBound(both.exempt, ExemptsOf(Folded \cup {id}))
    <3>1. ExemptsOf(Folded) \in SUBSET (SUBSET Services)
      BY <2>1, <2>5, ControlsPlain
    <3>2. ExemptsOf({id}) \in SUBSET (SUBSET Services)
      BY <2>3 DEF ExemptsOf
    <3>3. IsBound(art.exempt, ExemptsOf({id}))
      BY DEF IsBound, ExemptsOf, Common
    <3>4. ExemptsOf(Folded \cup {id}) = ExemptsOf(Folded) \cup ExemptsOf({id})
      BY DEF ExemptsOf
    <3> DEFINE x == acc.exempt
               y == art.exempt
    <3>5. IsBound(Intersect(x, y), ExemptsOf(Folded) \cup ExemptsOf({id}))
      <4> HIDE DEF x, y
      <4>1. IsBound(x, ExemptsOf(Folded)) /\ IsBound(y, ExemptsOf({id}))
        BY <2>2, <3>3 DEF x, y
      <4> QED BY <3>1, <3>2, <4>1, NoBound, IntersectIs
    <3> HIDE DEF both, next
    <3> QED BY <2>4, <2>7, <3>4, <3>5
  <2>11. LoadedOK'
    BY <1>2, <2>1 DEF PolicyInv, LoadedOK, Merged, Packed, Acceptable
  <2>12. CombinedOK'
    <3> HIDE DEF both
    <3>1. /\ Form(acc') /\ DenyAs(acc'.stmts, ControlsOf(Folded'))
          /\ IsBound(acc'.exempt, ExemptsOf(Folded'))
          /\ IsBound(acc'.regions, RegionsOf(ControlsOf(Folded')))
          /\ IsBound(acc'.services, ServicesOf(ControlsOf(Folded')))
      BY <1>2, <2>7, <2>8, <2>9, <2>10 DEF Carries
    <3> QED BY <1>2, <2>1, <3>1 DEF CombinedOK, Bounded, Packed, Merged
  <2>13. PackedOK'
    BY <1>2, <2>1 DEF PolicyInv, PackedOK, Packed
  <2> QED BY <2>11, <2>12, <2>13 DEF PolicyInv
<1> QED BY <1>1, <1>2 DEF Merge

LEMMA SlotPortsKeeps ==
  ASSUME PolicyInv, SlotPorts
  PROVE  PolicyInv'
<1>1. CASE Refuse("conflict")
  BY <1>1 DEF PolicyInv, LoadedOK, CombinedOK, PackedOK, SlotPorts, Refuse, Merged, Bounded, Packed
<1>2. CASE /\ acc' = [acc EXCEPT !.rules = ReSlot(@)] /\ phase' = "narrow"
           /\ UNCHANGED <<doc, overrides, left, queue, bins, links, parent>>
  <2>1. phase = "merge" /\ left = {}
    BY DEF SlotPorts
  <2>2. Form(acc)
    BY <2>1 DEF PolicyInv, CombinedOK
  <2> DEFINE r == ReSlot(acc.rules)
  <2>3. acc' = [acc EXCEPT !.rules = r]
    BY <1>2
  <2>4. /\ Form(acc') /\ acc'.stmts = acc.stmts /\ acc'.regions = acc.regions
        /\ acc'.services = acc.services /\ acc'.exempt = acc.exempt
    <3> HIDE DEF r
    <3> QED BY <2>2, <2>3 DEF Form
  <2> HIDE DEF r
  <2>5. LoadedOK'
    BY <1>2, <2>1 DEF PolicyInv, LoadedOK, Merged, Packed, Acceptable
  <2>6. CombinedOK'
    BY <1>2, <2>1, <2>4 DEF PolicyInv, CombinedOK, Merged, Packed, Bounded, Folded
  <2>7. PackedOK'
    BY <1>2, <2>1 DEF PolicyInv, PackedOK, Packed
  <2> QED BY <2>5, <2>6, <2>7 DEF PolicyInv
<1> QED BY <1>1, <1>2 DEF SlotPorts

\* What the content of a profile asks for.
LEMMA ContentIs ==
  ASSUME doc \in Docs
  PROVE  /\ Content.controlSets = Members(doc.profile.controlSets)
         /\ Content.regions = Asked(doc.profile.regions)
         /\ Content.services = Asked(doc.profile.services)
<1> DEFINE p == doc.profile
           s == Members(p.controlSets)
           b == Members(p.obligations)
           r == IF p.regions = Unrestricted THEN p.regions ELSE Members(p.regions)
           v == IF p.services = Unrestricted THEN p.services ELSE Members(p.services)
           e == Members(p.enable)
           d == Members(p.disable)
<1>1. /\ p = [f \in DOMAIN p |-> p[f]]
      /\ {"controlSets", "regions", "services", "obligations", "enable", "disable"} \subseteq DOMAIN p
  BY FilesAssumption
<1>2. Content = [p EXCEPT !.controlSets = s, !.obligations = b, !.regions = r, !.services = v,
                          !.enable = e, !.disable = d]
  BY Zenon DEF Content, Hash, CanonicalProfile
<1>3. r = Asked(p.regions) /\ v = Asked(p.services)
  BY DEF Asked
<1> HIDE DEF p, s, b, r, v, e, d
<1>4. Content.controlSets = s /\ Content.regions = r /\ Content.services = v
  BY <1>1, <1>2
<1> QED BY <1>3, <1>4 DEF p, s

LEMMA BoundsAre ==
  ASSUME doc \in Docs
  PROVE  /\ Chosen(Content.controlSets) = ControlsOf(Wanted(doc.profile))
         /\ RegionBounds(Content)
              = RegionsOf(ControlsOf(Wanted(doc.profile))) \cup Asks(Asked(doc.profile.regions))
         /\ ServiceBounds(Content)
              = ServicesOf(ControlsOf(Wanted(doc.profile))) \cup Asks(Asked(doc.profile.services))
         /\ Global(Content) = Common(ExemptsOf(Wanted(doc.profile)))
<1>1. Chosen(Content.controlSets) = ControlsOf(Wanted(doc.profile))
  BY ContentIs DEF Chosen, ControlsOf, Wanted
<1>2. Global(Content) = Common(ExemptsOf(Wanted(doc.profile)))
  BY ContentIs DEF Global, ExemptsOf, Wanted
<1> QED BY <1>1, <1>2, ContentIs DEF RegionBounds, ServiceBounds, RegionsOf, ServicesOf

\* The profile's bounds are lists of regions and of services, and bound what they list.
LEMMA AskedIs ==
  ASSUME doc \in Docs
  PROVE  /\ Asks(Asked(doc.profile.regions)) \in SUBSET (SUBSET Regions)
         /\ Asks(Asked(doc.profile.services)) \in SUBSET (SUBSET Services)
         /\ IsBound(Asked(doc.profile.regions), Asks(Asked(doc.profile.regions)))
         /\ IsBound(Asked(doc.profile.services), Asks(Asked(doc.profile.services)))
<1>1. /\ doc.profile.regions # Unrestricted => Members(doc.profile.regions) \in SUBSET Regions
      /\ doc.profile.services # Unrestricted => Members(doc.profile.services) \in SUBSET Services
  BY FilesAssumption
<1>2. ASSUME NEW x PROVE IsBound(x, Asks(x))
  BY DEF IsBound, Asks, Common
<1> QED BY <1>1, <1>2 DEF Asked, Asks

LEMMA NarrowKeeps ==
  ASSUME PolicyInv, Narrow
  PROVE  PolicyInv'
<1> DEFINE regions == Intersect(acc.regions, Asked(doc.profile.regions))
           services == Intersect(acc.services, Asked(doc.profile.services))
<1>1. CASE Refuse("refused")
  BY <1>1 DEF PolicyInv, LoadedOK, CombinedOK, PackedOK, Narrow, Refuse, Merged, Bounded, Packed
<1>2. CASE /\ acc' = [acc EXCEPT !.regions = regions, !.services = services]
           /\ phase' = "render"
           /\ UNCHANGED <<doc, overrides, left, queue, bins, links, parent>>
  <2>1. phase = "narrow" /\ left = {} /\ doc \in Docs /\ Acceptable
    BY DEF Narrow, PolicyInv, LoadedOK, Merged
  <2>2. /\ Form(acc) /\ DenyAs(acc.stmts, ControlsOf(Folded))
        /\ IsBound(acc.exempt, ExemptsOf(Folded))
        /\ IsBound(acc.regions, RegionsOf(ControlsOf(Folded)))
        /\ IsBound(acc.services, ServicesOf(ControlsOf(Folded)))
    BY <2>1 DEF PolicyInv, CombinedOK, Merged
  <2>3. Folded = Wanted(doc.profile) /\ Folded' = Folded
    BY <1>2, <2>1 DEF Folded
  <2>4. /\ IsBound(regions, RegionBounds(Content))
        /\ IsBound(services, ServiceBounds(Content))
    <3> DEFINE x == acc.regions
               y == acc.services
               X == RegionsOf(ControlsOf(Folded))
               Y == ServicesOf(ControlsOf(Folded))
               a == Asked(doc.profile.regions)
               b == Asked(doc.profile.services)
    <3>1. X \in SUBSET (SUBSET Regions) /\ Y \in SUBSET (SUBSET Services)
      BY <2>1, <2>3, ControlsPlain
    <3>2. /\ Asks(a) \in SUBSET (SUBSET Regions) /\ Asks(b) \in SUBSET (SUBSET Services)
          /\ IsBound(a, Asks(a)) /\ IsBound(b, Asks(b))
      BY <2>1, AskedIs
    <3>3. RegionBounds(Content) = X \cup Asks(a) /\ ServiceBounds(Content) = Y \cup Asks(b)
      BY <2>1, <2>3, BoundsAre
    <3>4. IsBound(x, X) /\ IsBound(y, Y)
      BY <2>2
    <3> HIDE DEF x, y, X, Y, a, b
    <3>5. IsBound(Intersect(x, a), X \cup Asks(a))
      BY <3>1, <3>2, <3>4, NoBound, IntersectIs
    <3>6. IsBound(Intersect(y, b), Y \cup Asks(b))
      BY <3>1, <3>2, <3>4, NoBound, IntersectIs
    <3> QED BY <3>3, <3>5, <3>6 DEF x, y, a, b
  <2>5. /\ Form(acc') /\ acc'.stmts = acc.stmts /\ acc'.exempt = acc.exempt
        /\ acc'.regions = regions /\ acc'.services = services
    <3> HIDE DEF regions, services
    <3> QED BY <1>2, <2>2 DEF Form
  <2> HIDE DEF regions, services
  <2>6. LoadedOK'
    BY <1>2, <2>1 DEF PolicyInv, LoadedOK, Merged, Packed, Acceptable
  <2>7. Content' = Content
    BY <1>2 DEF Content
  <2>8. CombinedOK'
    BY <1>2, <2>2, <2>3, <2>4, <2>5, <2>7 DEF CombinedOK, Merged, Packed, Bounded
  <2>9. PackedOK'
    BY <1>2, <2>1 DEF PolicyInv, PackedOK, Packed
  <2> QED BY <2>6, <2>8, <2>9 DEF PolicyInv
<1> QED BY <1>1, <1>2 DEF Narrow

--------------------------------------------------------------------------------
(* Rendering and packing.                                                  *)

\* A bound is a list of what it bounds.
LEMMA BoundIn ==
  ASSUME NEW S, NEW A \in SUBSET (SUBSET S), NEW x, IsBound(x, A)
  PROVE  /\ x # Unrestricted => x \in SUBSET S /\ A # {} /\ x = Common(A)
         /\ A # {} => x = Common(A)
BY DEF IsBound, Common

\* What the combined control sets amount to, once the profile's bounds are applied.
LEMMA BoundsIn ==
  ASSUME PolicyInv, Bounded
  PROVE  /\ RegionBounds(Content) \in SUBSET (SUBSET Regions)
         /\ ServiceBounds(Content) \in SUBSET (SUBSET Services)
         /\ ExemptsOf(Wanted(doc.profile)) \in SUBSET (SUBSET Services)
         /\ IsBound(acc.exempt, ExemptsOf(Wanted(doc.profile)))
         /\ IsBound(acc.regions, RegionBounds(Content))
         /\ IsBound(acc.services, ServiceBounds(Content))
         /\ DenyAs(acc.stmts, ControlsOf(Wanted(doc.profile)))
<1>1. Merged /\ Acceptable /\ left = {} /\ doc \in Docs
  BY DEF PolicyInv, LoadedOK, Bounded, Merged
<1>2. Folded = Wanted(doc.profile)
  BY <1>1 DEF Folded
<1>3. /\ RegionsOf(ControlsOf(Folded)) \in SUBSET (SUBSET Regions)
      /\ ServicesOf(ControlsOf(Folded)) \in SUBSET (SUBSET Services)
      /\ ExemptsOf(Folded) \in SUBSET (SUBSET Services)
  BY <1>1, <1>2, ControlsPlain
<1>4. /\ RegionBounds(Content) \in SUBSET (SUBSET Regions)
      /\ ServiceBounds(Content) \in SUBSET (SUBSET Services)
  BY <1>1, <1>2, <1>3, AskedIs, BoundsAre
<1> QED BY <1>1, <1>2, <1>3, <1>4 DEF PolicyInv, CombinedOK

LEMMA ListsIn ==
  ASSUME PolicyInv, Bounded, ~Unrenderable(acc)
  PROVE  /\ Lists(acc) \in SUBSET Statement
         /\ \A st \in Lists(acc) : st.acts = {}
<1> DEFINE x == acc.regions
           y == acc.services
           e == acc.exempt
<1>1. /\ x # Unrestricted => x \in SUBSET Regions
      /\ y # Unrestricted => y \in SUBSET Services
      /\ e # Unrestricted => e \in SUBSET Services
  BY BoundsIn, BoundIn
<1>2. x # Unrestricted \/ y # Unrestricted => e # Unrestricted
  BY DEF Unrenderable
<1>3. Known \in SUBSET Principals /\ "any" \in Guard
  BY Vocabulary DEF Known, Guard
<1> HIDE DEF x, y, e
<1>4. x # Unrestricted => /\ RegionStatement(x, e, Known) \in Statement
                          /\ RegionStatement(x, e, Known).acts = {}
  BY <1>1, <1>2, <1>3 DEF RegionStatement, Statement
<1>5. y # Unrestricted => /\ ServiceStatement(y, e, Known) \in Statement
                          /\ ServiceStatement(y, e, Known).acts = {}
  BY <1>1, <1>2, <1>3 DEF ServiceStatement, Statement
<1> QED BY <1>4, <1>5 DEF Lists, x, y, e

LEMMA RenderKeeps ==
  ASSUME PolicyInv, Render
  PROVE  PolicyInv'
<1>1. CASE Refuse("refused")
  BY <1>1 DEF PolicyInv, LoadedOK, CombinedOK, PackedOK, Render, Refuse, Merged, Bounded, Packed
<1>2. CASE /\ ~Unrenderable(acc) /\ queue' = Renderable(acc, Known) /\ phase' = "fit"
           /\ UNCHANGED <<doc, overrides, left, acc, bins, links, parent>>
  <2>1. phase = "render" /\ bins = <<>>
    BY DEF Render, PolicyInv, PackedOK
  <2>2. Bounded /\ Acceptable /\ left = {}
    BY <2>1 DEF Bounded, PolicyInv, LoadedOK, Merged
  <2>3. LoadedOK'
    BY <1>2, <2>1 DEF PolicyInv, LoadedOK, Merged, Packed, Acceptable
  <2>4. CombinedOK'
    BY <1>2, <2>1, <2>2 DEF PolicyInv, CombinedOK, Merged, Packed, Bounded, Content, Folded
  <2>5. Attached' = {}
    BY <1>2, <2>1 DEF Attached
  <2>6. queue' = acc.stmts \cup Lists(acc)
    BY <1>2 DEF Renderable, Lists
  <2>7. acc.stmts \in SUBSET Statement /\ \A st \in acc.stmts : Plain(st)
    BY <2>2, BoundsIn DEF DenyAs
  <2>8. Lists(acc) \in SUBSET Statement /\ \A st \in Lists(acc) : st.acts = {}
    BY <1>2, <2>2, ListsIn
  <2>9. queue' \ Lists(acc) = acc.stmts
    BY <2>6, <2>7, <2>8 DEF Plain
  <2>10. Rendered(queue')
    BY <1>2, <2>6, <2>7, <2>8, <2>9 DEF Rendered
  <2>11. Rendered(queue \cup Attached)'
    BY <1>2, <2>5, <2>10 DEF Rendered
  <2>12. PackedOK'
    BY <1>2, <2>1, <2>11 DEF PolicyInv, PackedOK, Packed
  <2> QED BY <2>3, <2>4, <2>12 DEF PolicyInv
<1> QED BY <1>1, <1>2 DEF Render

\* A finite set of numbers that has two can be cut in two by counting: neither half is
\* empty, which in a policy would deny everything (renderFitting).
LEMMA HalvesAre ==
  ASSUME NEW st \in Statement, Cardinality(st.acts) >= 2
  PROVE  \E low, high \in SUBSET Actions :
            /\ low # {} /\ high # {} /\ low \cup high = st.acts
            /\ Halves(st) = {[st EXCEPT !.acts = low], [st EXCEPT !.acts = high]}
<1> DEFINE acts == st.acts
           n == Cardinality(acts)
           upto(a) == {b \in acts : b <= a}
           low == {a \in acts : Cardinality(upto(a)) <= n \div 2}
<1>1. acts \in SUBSET Actions /\ acts \subseteq Nat /\ IsFiniteSet(acts) /\ n \in Nat
  BY Vocabulary, FS_Subset, FS_CardinalityType DEF Statement
<1>2. acts # {}
  BY FS_EmptySet
<1>3. \A a \in acts : Cardinality(upto(a)) \in Nat /\ Cardinality(upto(a)) <= n
  BY <1>1, FS_Subset, FS_CardinalityType
<1>4. low # {}
  <2>1. PICK a \in acts : \A b \in acts : a <= b
    BY <1>1, <1>2, Least
  <2>2. upto(a) = {a}
    BY <1>1, <2>1
  <2>3. Cardinality(upto(a)) = 1
    BY <2>2, FS_Singleton
  <2> QED BY <1>1, <2>3
<1>5. acts \ low # {}
  <2> DEFINE gap(a) == n - Cardinality(upto(a))
             T == {gap(a) : a \in acts}
  <2>1. T \in SUBSET Nat /\ T # {}
    <3>1. ASSUME NEW a \in acts PROVE gap(a) \in Nat
      <4> DEFINE k == Cardinality(upto(a))
      <4>1. k \in Nat /\ k <= n
        BY <1>3
      <4> HIDE DEF k, n
      <4>2. n - k \in Nat
        BY <1>1, <4>1
      <4> QED BY <4>2 DEF k
    <3> HIDE DEF gap
    <3> QED BY <1>2, <3>1
  <2>2. PICK t \in T : \A u \in T : t <= u
    BY <2>1, Least
  <2>3. PICK a \in acts : t = gap(a)
    OBVIOUS
  <2>4. \A c \in acts : gap(a) <= gap(c)
    BY <2>2, <2>3
  <2>5. ASSUME NEW c \in acts, ~(c <= a) PROVE FALSE
    <3>1. upto(a) \in SUBSET upto(c) /\ c \in upto(c) /\ c \notin upto(a) /\ IsFiniteSet(upto(c))
      BY <1>1, <2>5, FS_Subset
    <3>2. Cardinality(upto(a)) <= Cardinality(upto(c)) /\ Cardinality(upto(a)) # Cardinality(upto(c))
      BY <3>1, FS_Subset
    <3> HIDE DEF upto
    <3> QED BY <1>1, <1>3, <2>4, <3>2
  <2>6. upto(a) = acts
    BY <2>5
  <2>7. Cardinality(upto(a)) = n
    BY <2>6
  <2>8. ~(n <= n \div 2)
    BY <1>1
  <2> QED BY <2>7, <2>8
<1>6. Halves(st) = {[st EXCEPT !.acts = low], [st EXCEPT !.acts = st.acts \ low]}
  BY DEF Halves
<1> HIDE DEF low
<1>7. low \in SUBSET Actions /\ acts \ low \in SUBSET Actions /\ low \cup (acts \ low) = st.acts
  BY <1>1 DEF low
<1> QED BY <1>4, <1>5, <1>6, <1>7

\* The halves of a statement deny, between them, what it denies.
LEMMA HalvesDeny ==
  ASSUME NEW st \in Statement, Plain(st), Cardinality(st.acts) >= 2
  PROVE  /\ Halves(st) \in SUBSET Statement /\ \A half \in Halves(st) : Plain(half)
         /\ \A q \in Request : (\E half \in Halves(st) : Denies(half, q)) <=> Denies(st, q)
<1>1. PICK low, high \in SUBSET Actions :
         /\ low # {} /\ high # {} /\ low \cup high = st.acts
         /\ Halves(st) = {[st EXCEPT !.acts = low], [st EXCEPT !.acts = high]}
  BY HalvesAre
<1> DEFINE a == [st EXCEPT !.acts = low]
           b == [st EXCEPT !.acts = high]
<1>2. /\ a \in Statement /\ a.acts = low /\ a.in = st.in /\ a.exempt = st.exempt /\ a.when = st.when
      /\ b \in Statement /\ b.acts = high /\ b.in = st.in /\ b.exempt = st.exempt /\ b.when = st.when
  BY DEF Statement
<1>3. Halves(st) = {a, b}
  BY <1>1
<1> HIDE DEF a, b
<1>4. Plain(a) /\ Plain(b)
  BY <1>1, <1>2 DEF Plain
<1>5. ASSUME NEW q \in Request PROVE Denies(a, q) \/ Denies(b, q) <=> Denies(st, q)
  BY <1>1, <1>2 DEF Denies, IsAllowlist, ConditionMatches, Plain
<1> QED BY <1>2, <1>3, <1>4, <1>5

LEMMA FitKeeps ==
  ASSUME PolicyInv, Fit
  PROVE  PolicyInv'
<1>1. CASE Refuse("refused")
  BY <1>1 DEF PolicyInv, LoadedOK, CombinedOK, PackedOK, Fit, Refuse, Merged, Bounded, Packed
<1>2. phase = "fit" /\ bins = <<>> /\ Rendered(queue \cup Attached) /\ bins \in Seq(SUBSET Statement)
  BY DEF Fit, PolicyInv, PackedOK
<1>3. Attached = {} /\ Rendered(queue)
  <2>1. Attached = {}
    BY <1>2 DEF Attached
  <2>2. queue \cup {} = queue
    OBVIOUS
  <2> QED BY <1>2, <2>1, <2>2
<1>4. Bounded /\ Acceptable /\ left = {}
  BY <1>2 DEF Bounded, PolicyInv, LoadedOK, Merged
<1>5. CASE \E st \in queue :
             /\ ~IsAllowlist(st) /\ Cardinality(st.acts) >= 2
             /\ queue' = (queue \ {st}) \cup Halves(st)
             /\ UNCHANGED <<doc, overrides, phase, left, acc, bins, links, parent>>
  <2>1. PICK st \in queue :
             /\ ~IsAllowlist(st) /\ Cardinality(st.acts) >= 2
             /\ queue' = (queue \ {st}) \cup Halves(st)
             /\ UNCHANGED <<doc, overrides, phase, left, acc, bins, links, parent>>
    BY <1>5
  <2>2. \A list \in Lists(acc) : list.acts = {}
    BY <1>3, <1>4, ListsIn DEF Rendered
  <2>3. st \in Statement /\ Plain(st) /\ st \notin Lists(acc)
    BY <1>3, <2>1, <2>2 DEF Rendered, IsAllowlist
  <2>4. /\ Halves(st) \in SUBSET Statement /\ \A half \in Halves(st) : Plain(half)
        /\ \A q \in Request : (\E half \in Halves(st) : Denies(half, q)) <=> Denies(st, q)
    BY <2>1, <2>3, HalvesDeny
  <2>5. \A half \in Halves(st) : half \notin Lists(acc)
    BY <2>2, <2>4 DEF Plain
  <2>6. queue' \ Lists(acc) = ((queue \ Lists(acc)) \ {st}) \cup Halves(st)
    BY <2>1, <2>5
  <2>7. Lists(acc) \subseteq queue'
    BY <1>3, <2>1, <2>3 DEF Rendered
  <2>8. queue' \in SUBSET Statement /\ \A other \in queue' \ Lists(acc) : Plain(other)
    BY <1>3, <2>1, <2>4, <2>6 DEF Rendered
  <2>9. ASSUME NEW q \in Request
        PROVE  (\E other \in queue' \ Lists(acc) : Denies(other, q))
                 <=> (\E other \in acc.stmts : Denies(other, q))
    <3>1. (\E other \in queue \ Lists(acc) : Denies(other, q))
             <=> (\E other \in acc.stmts : Denies(other, q))
      BY <1>3 DEF Rendered
    <3>2. (\E half \in Halves(st) : Denies(half, q)) <=> Denies(st, q)
      BY <2>4
    <3>3. st \in queue \ Lists(acc)
      BY <2>1, <2>3
    <3> QED BY <2>6, <3>1, <3>2, <3>3
  <2>10. Rendered(queue')
    BY <1>3, <2>7, <2>8, <2>9 DEF Rendered
  <2>11. Attached' = {} /\ queue' \cup {} = queue'
    BY <1>3, <2>1 DEF Attached
  <2>12. Rendered(queue \cup Attached)'
    BY <2>1, <2>10, <2>11 DEF Rendered
  <2>13. LoadedOK'
    BY <1>2, <2>1 DEF PolicyInv, LoadedOK, Merged, Packed, Acceptable
  <2>14. CombinedOK'
    BY <1>2, <2>1 DEF PolicyInv, CombinedOK, Merged, Packed, Bounded, Content, Folded
  <2>15. PackedOK'
    BY <1>2, <2>1, <2>12 DEF PackedOK, Packed
  <2> QED BY <2>13, <2>14, <2>15 DEF PolicyInv
<1>6. CASE phase' = "place" /\ UNCHANGED <<doc, overrides, left, acc, queue, bins, links, parent>>
  <2>1. LoadedOK'
    BY <1>2, <1>6 DEF PolicyInv, LoadedOK, Merged, Packed, Acceptable
  <2>2. CombinedOK'
    BY <1>2, <1>6 DEF PolicyInv, CombinedOK, Merged, Packed, Bounded, Content, Folded
  <2>3. Rendered(queue \cup Attached)'
    BY <1>2, <1>6 DEF Rendered, Attached
  <2>4. PackedOK'
    BY <1>2, <1>6, <2>3 DEF PackedOK, Packed
  <2> QED BY <2>1, <2>2, <2>4 DEF PolicyInv
<1> QED BY <1>1, <1>5, <1>6 DEF Fit

LEMMA PlaceKeeps ==
  ASSUME PolicyInv, NEW st \in queue, Place(st)
  PROVE  PolicyInv'
<1> DEFINE open == {i \in DOMAIN bins : Used(bins[i]) + Size(st) + 1 <= Usable}
<1>1. /\ phase = "place" /\ Rendered(queue \cup Attached) /\ bins \in Seq(SUBSET Statement)
      /\ queue' = queue \ {st}
      /\ bins' = IF open = {} THEN Append(bins, {st})
                 ELSE [bins EXCEPT ![Min(open)] = bins[Min(open)] \cup {st}]
      /\ UNCHANGED <<doc, overrides, phase, left, acc, links, parent>>
  BY DEF Place, PolicyInv, PackedOK
<1>2. st \in Statement
  BY <1>1 DEF Rendered
<1>3. open \in SUBSET Nat /\ open \subseteq DOMAIN bins /\ DOMAIN bins = 1..Len(bins) /\ Len(bins) \in Nat
  BY <1>1
<1> HIDE DEF open
<1>4. bins' \in Seq(SUBSET Statement) /\ Attached' = Attached \cup {st}
  <2>1. CASE open = {}
    <3>1. bins' = Append(bins, {st})
      BY <1>1, <2>1
    <3>2. /\ bins' \in Seq(SUBSET Statement) /\ DOMAIN bins' = 1..(Len(bins) + 1)
          /\ bins'[Len(bins) + 1] = {st} /\ \A i \in 1..Len(bins) : bins'[i] = bins[i]
      BY <1>1, <1>2, <3>1
    <3> QED BY <1>3, <3>2 DEF Attached
  <2>2. CASE open # {}
    <3>1. PICK i \in open : i = Min(open)
      <4>1. \E i \in open : \A j \in open : i <= j
        BY <1>3, <2>2, Least
      <4> QED BY <4>1 DEF Min
    <3>2. bins' = [bins EXCEPT ![i] = bins[i] \cup {st}] /\ i \in DOMAIN bins
      BY <1>1, <1>3, <2>2, <3>1
    <3>3. /\ bins' \in Seq(SUBSET Statement) /\ DOMAIN bins' = DOMAIN bins
          /\ bins'[i] = bins[i] \cup {st} /\ \A j \in DOMAIN bins \ {i} : bins'[j] = bins[j]
      <4> DEFINE more == bins[i] \cup {st}
      <4>1. bins \in [1..Len(bins) -> SUBSET Statement]
        BY <1>1
      <4>2. more \in SUBSET Statement
        BY <1>2, <1>3, <3>2, <4>1
      <4> HIDE DEF more
      <4>3. bins' = [bins EXCEPT ![i] = more]
        BY <3>2 DEF more
      <4>4. /\ bins' \in [1..Len(bins) -> SUBSET Statement] /\ DOMAIN bins' = DOMAIN bins
            /\ bins'[i] = more /\ \A j \in DOMAIN bins \ {i} : bins'[j] = bins[j]
        BY <3>2, <4>1, <4>2, <4>3
      <4>5. bins' \in Seq(SUBSET Statement)
        BY <1>3, <4>4
      <4> QED BY <4>4, <4>5 DEF more
    <3> QED BY <3>2, <3>3 DEF Attached
  <2> QED BY <2>1, <2>2
<1>5. queue' \cup Attached' = queue \cup Attached
  BY <1>1, <1>4
<1>6. Rendered(queue \cup Attached)'
  BY <1>1, <1>5 DEF Rendered
<1>7. LoadedOK'
  BY <1>1 DEF PolicyInv, LoadedOK, Merged, Packed, Acceptable
<1>8. CombinedOK'
  BY <1>1 DEF PolicyInv, CombinedOK, Merged, Packed, Bounded, Content, Folded
<1>9. PackedOK'
  BY <1>1, <1>4, <1>6 DEF PackedOK, Packed
<1> QED BY <1>7, <1>8, <1>9 DEF PolicyInv

LEMMA PackKeeps ==
  ASSUME PolicyInv, Pack
  PROVE  PolicyInv'
<1>1. CASE Refuse("refused")
  BY <1>1 DEF PolicyInv, LoadedOK, CombinedOK, PackedOK, Pack, Refuse, Merged, Bounded, Packed
<1>2. CASE phase' = "group" /\ UNCHANGED <<doc, overrides, left, acc, queue, bins>>
  <2>1. phase = "place" /\ queue = {} /\ Rendered(queue \cup Attached)
    BY DEF Pack, PolicyInv, PackedOK
  <2>2. {} \cup Attached = Attached
    OBVIOUS
  <2>3. Rendered(Attached)
    BY <2>1, <2>2
  <2>4. Rendered(Attached)'
    BY <1>2, <2>3 DEF Rendered, Attached
  <2>5. LoadedOK'
    BY <1>2, <2>1 DEF PolicyInv, LoadedOK, Merged, Packed, Acceptable
  <2>6. CombinedOK'
    BY <1>2, <2>1 DEF PolicyInv, CombinedOK, Merged, Packed, Bounded, Content, Folded
  <2>7. PackedOK'
    BY <1>2, <2>4 DEF PolicyInv, PackedOK, Packed
  <2> QED BY <2>5, <2>6, <2>7 DEF PolicyInv
<1> QED BY <1>1, <1>2 DEF Pack

\* Grouping the procedural controls and rendering the template leave the policies alone.
LEMMA AfterwardsKeeps ==
  ASSUME PolicyInv, (\E l \in links : Union(l)) \/ Group \/ RenderTemplate
  PROVE  PolicyInv'
<1>1. phase \in {"group", "pack"} /\ UNCHANGED <<doc, overrides, left, acc, queue, bins>>
  BY DEF Union, Group, RenderTemplate, Refuse
<1>2. phase' \in {"group", "pack", "done", "refused"}
  BY DEF Union, Group, RenderTemplate, Refuse
<1>3. LoadedOK'
  BY <1>1, <1>2 DEF PolicyInv, LoadedOK, Merged, Packed, Acceptable
<1>4. CombinedOK'
  BY <1>1, <1>2 DEF PolicyInv, CombinedOK, Merged, Packed, Bounded, Content, Folded
<1>5. PackedOK'
  BY <1>1, <1>2 DEF PolicyInv, PackedOK, Packed, Rendered, Attached
<1> QED BY <1>3, <1>4, <1>5 DEF PolicyInv

LEMMA PolicyStep ==
  ASSUME PolicyInv, [Next]_vars
  PROVE  PolicyInv'
<1>1. CASE UNCHANGED vars
  BY <1>1 DEF PolicyInv, LoadedOK, CombinedOK, PackedOK, Merged, Bounded, Packed, Content, Folded,
              Rendered, Attached, Acceptable, vars
<1>2. CASE Step
  BY <1>2, LoadKeeps, MergeKeeps, SlotPortsKeeps, NarrowKeeps, RenderKeeps, FitKeeps, PlaceKeeps,
     PackKeeps, AfterwardsKeeps DEF Step
<1> QED BY <1>1, <1>2 DEF Next, Done

\* The inductive invariant of the compile, as far as the policies are concerned.
THEOREM PoliciesInvariant == Spec => []PolicyInv
<1>1. Init => PolicyInv
  BY DEF Init, PolicyInv, LoadedOK, CombinedOK, PackedOK, Merged, Bounded, Packed
<1>2. PolicyInv /\ [Next]_vars => PolicyInv'
  BY PolicyStep
<1> QED BY <1>1, <1>2, PTL DEF Spec

--------------------------------------------------------------------------------
(* What the policies deny, and what is read back from them.                *)

\* An allowlist rendered denies whatever is outside of it, but the services with global
\* endpoints, and the automation role nothing.
LEMMA ListsDeny ==
  ASSUME PolicyInv, Bounded, ~Unrenderable(acc), NEW q \in Request
  PROVE  (\E st \in Lists(acc) : Denies(st, q))
           <=> /\ q.who \notin Known /\ ServiceOf[q.act] \notin Global(Content)
               /\ \/ \E list \in RegionBounds(Content) : q.region \notin list
                  \/ \E list \in ServiceBounds(Content) : ServiceOf[q.act] \notin list
<1> DEFINE x == acc.regions
           y == acc.services
           e == acc.exempt
           X == RegionBounds(Content)
           Y == ServiceBounds(Content)
           service == ServiceOf[q.act]
<1>1. /\ x # Unrestricted => x \in SUBSET Regions /\ X # {} /\ x = Common(X)
      /\ X # {} => x = Common(X)
      /\ y # Unrestricted => y \in SUBSET Services /\ Y # {} /\ y = Common(Y)
      /\ Y # {} => y = Common(Y)
      /\ x = Unrestricted => X = {}
      /\ y = Unrestricted => Y = {}
  <2>1. /\ X \in SUBSET (SUBSET Regions) /\ IsBound(x, X)
        /\ Y \in SUBSET (SUBSET Services) /\ IsBound(y, Y)
    BY BoundsIn
  <2> HIDE DEF x, y, X, Y
  <2>2. X # {} => Common(X) \in SUBSET Regions
    BY <2>1 DEF Common
  <2>3. Y # {} => Common(Y) \in SUBSET Services
    BY <2>1 DEF Common
  <2>4. x = Unrestricted => X = {}
    BY <2>1, <2>2, NoBound DEF IsBound
  <2>5. y = Unrestricted => Y = {}
    BY <2>1, <2>3, NoBound DEF IsBound
  <2> QED BY <2>1, <2>2, <2>3, <2>4, <2>5 DEF IsBound
<1>2. e # Unrestricted => e = Global(Content)
  <2>1. IsBound(e, ExemptsOf(Wanted(doc.profile))) /\ doc \in Docs
    BY BoundsIn DEF PolicyInv, LoadedOK
  <2>2. Global(Content) = Common(ExemptsOf(Wanted(doc.profile)))
    BY <2>1, BoundsAre
  <2> QED BY <2>1, <2>2 DEF IsBound
<1>3. x # Unrestricted \/ y # Unrestricted => e # Unrestricted /\ x # {} /\ y # {}
  BY DEF Unrenderable
<1> HIDE DEF x, y, e, X, Y
<1>4. x # Unrestricted =>
        (Denies(RegionStatement(x, e, Known), q)
           <=> service \notin e /\ q.who \notin Known /\ q.region \notin x)
  BY <1>3 DEF RegionStatement, Denies, IsAllowlist, ConditionMatches
<1>5. y # Unrestricted =>
        (Denies(ServiceStatement(y, e, Known), q)
           <=> service \notin e /\ q.who \notin Known /\ service \notin y)
  BY DEF ServiceStatement, Denies, IsAllowlist, ConditionMatches
<1>6. X # {} => (q.region \notin x <=> \E list \in X : q.region \notin list)
  BY <1>1 DEF Common
<1>7. Y # {} => (service \notin y <=> \E list \in Y : service \notin list)
  BY <1>1 DEF Common
<1>8. (\E st \in Lists(acc) : Denies(st, q))
        <=> \/ x # Unrestricted /\ Denies(RegionStatement(x, e, Known), q)
            \/ y # Unrestricted /\ Denies(ServiceStatement(y, e, Known), q)
  BY DEF Lists, x, y, e
<1> HIDE DEF service
<1>9. (\E st \in Lists(acc) : Denies(st, q))
        <=> /\ q.who \notin Known /\ service \notin Global(Content)
            /\ \/ \E list \in X : q.region \notin list
               \/ \E list \in Y : service \notin list
  BY <1>1, <1>2, <1>3, <1>4, <1>5, <1>6, <1>7, <1>8
<1> QED BY <1>9 DEF service, X, Y

LEMMA DenyExactly ==
  ASSUME PolicyInv
  PROVE  PoliciesDenyExactly
<1> SUFFICES ASSUME Packed,
                    NEW content \in {Content} \cup {s.subject : s \in Members(doc.signatures)},
                    NEW q \in Request
             PROVE  (\E st \in Attached : Denies(st, q)) <=> Promised(content, q)
  BY DEF PoliciesDenyExactly, Content
<1>1. Bounded /\ Merged /\ Acceptable /\ doc \in Docs
  BY DEF Bounded, Merged, PolicyInv, LoadedOK
<1>2. content = Content
  BY <1>1 DEF Acceptable, Decodes, Attested, Content
<1>3. Rendered(Attached)
  BY DEF PolicyInv, PackedOK
<1>4. (\E st \in Attached \ Lists(acc) : Denies(st, q)) <=> (\E st \in acc.stmts : Denies(st, q))
  BY <1>3 DEF Rendered
<1>5. (\E st \in acc.stmts : Denies(st, q))
        <=> (\E c \in ControlsOf(Wanted(doc.profile)) : \E st \in c.stmts : Denies(st, q))
  BY <1>1, BoundsIn DEF DenyAs
<1>6. Chosen(Content.controlSets) = ControlsOf(Wanted(doc.profile))
  BY <1>1, BoundsAre
<1>7. (\E st \in Lists(acc) : Denies(st, q))
           <=> /\ q.who \notin Known /\ ServiceOf[q.act] \notin Global(Content)
               /\ \/ \E list \in RegionBounds(Content) : q.region \notin list
                  \/ \E list \in ServiceBounds(Content) : ServiceOf[q.act] \notin list
  BY <1>1, <1>3, ListsDeny DEF Rendered
<1>8. Lists(acc) \subseteq Attached
  BY <1>3 DEF Rendered
<1>9. (\E st \in Attached : Denies(st, q))
        <=> \/ \E st \in Attached \ Lists(acc) : Denies(st, q)
            \/ \E st \in Lists(acc) : Denies(st, q)
  BY <1>8
<1> QED BY <1>2, <1>4, <1>5, <1>6, <1>7, <1>9 DEF Promised

\* The policies deny exactly what the content of the profile promises, and what anyone
\* attested is that content (Merge, Narrow and Pack).
THEOREM PoliciesHold == Spec => []PoliciesDenyExactly
BY PoliciesInvariant, DenyExactly, PTL

LEMMA ReadBack ==
  ASSUME PolicyInv
  PROVE  ReadBackIsWhatBinds
<1> SUFFICES ASSUME Packed PROVE ReadBackIsWhatBinds
  BY DEF ReadBackIsWhatBinds
<1> DEFINE x == acc.regions
           y == acc.services
           e == acc.exempt
           X == RegionBounds(Content)
           Y == ServiceBounds(Content)
<1>1. Bounded /\ doc \in Docs
  BY DEF Bounded, PolicyInv, LoadedOK
<1>2. Rendered(Attached)
  BY DEF PolicyInv, PackedOK
<1>3. /\ X \in SUBSET (SUBSET Regions) /\ IsBound(x, X)
      /\ Y \in SUBSET (SUBSET Services) /\ IsBound(y, Y)
      /\ ExemptsOf(Wanted(doc.profile)) \in SUBSET (SUBSET Services)
      /\ IsBound(e, ExemptsOf(Wanted(doc.profile)))
      /\ Global(Content) = Common(ExemptsOf(Wanted(doc.profile)))
  BY <1>1, BoundsIn, BoundsAre
<1>4. x # Unrestricted \/ y # Unrestricted => e # Unrestricted /\ x # {} /\ y # {}
  BY <1>2 DEF Rendered, Unrenderable
<1> DEFINE stmts == Attached
           a == RegionStatement(x, e, Known)
           b == ServiceStatement(y, e, Known)
           byRegion == {st \in stmts : IsAllowlist(st) /\ st.in # {}}
           byService == {st \in stmts : IsAllowlist(st) /\ st.in = {}}
<1>5. /\ byRegion = IF x = Unrestricted THEN {} ELSE {a}
      /\ byService = IF y = Unrestricted THEN {} ELSE {b}
  <2>1. \A st \in stmts : IsAllowlist(st) <=> st \in Lists(acc)
    <3>1. \A st \in Lists(acc) : st.acts = {}
      BY <1>1, <1>2, ListsIn DEF Rendered
    <3>2. \A st \in stmts \ Lists(acc) : st.acts # {}
      BY <1>2 DEF Rendered, Plain
    <3> QED BY <3>1, <3>2 DEF IsAllowlist
  <2>2. Lists(acc) \subseteq stmts
    BY <1>2 DEF Rendered
  <2>3. Lists(acc) = (IF x = Unrestricted THEN {} ELSE {a}) \cup (IF y = Unrestricted THEN {} ELSE {b})
    BY DEF Lists
  <2>4. x # Unrestricted => a.in # {}
    BY <1>4 DEF RegionStatement
  <2>5. b.in = {}
    BY DEF ServiceStatement
  <2> HIDE DEF stmts, x, y, a, b
  <2> QED BY <2>1, <2>2, <2>3, <2>4, <2>5
<1>6. a.in = x /\ a.spared = e /\ b.spared = y \cup e
  BY DEF RegionStatement, ServiceStatement
<1> DEFINE Shared(sets) == IF sets = {} THEN Unrestricted
                           ELSE {u \in UNION sets : \A s \in sets : u \in s}
           exempt == Shared({st.spared : st \in byRegion})
           services == Shared({st.spared : st \in byService})
           read == ReadAllowlists(stmts)
<1>7. /\ read.regions = Shared({st.in : st \in byRegion})
      /\ read.exempt = IF exempt = Unrestricted THEN {} ELSE exempt
      /\ read.services = IF Unrestricted \in {services, exempt} THEN services ELSE services \ exempt
  BY DEF ReadAllowlists
<1>8. Shared({}) = Unrestricted /\ \A s : Shared({s}) = s
  OBVIOUS
<1>9. e # Unrestricted => e \in SUBSET Services /\ e = Global(Content)
  BY <1>3, BoundIn
<1>10. x = Unrestricted => X = {}
  BY <1>3, NoBound DEF IsBound, Common
<1>11. y = Unrestricted => Y = {}
  BY <1>3, NoBound DEF IsBound, Common
<1>12. x # Unrestricted => x \in SUBSET Regions /\ X # {} /\ x = Common(X)
  BY <1>3, BoundIn
<1>13. y # Unrestricted => y \in SUBSET Services /\ Y # {} /\ y = Common(Y)
  BY <1>3, BoundIn
<1> HIDE DEF read, Shared, byRegion, byService, stmts, x, y, e, X, Y, a, b
<1>14. x # Unrestricted =>
          /\ {st.in : st \in byRegion} = {x} /\ {st.spared : st \in byRegion} = {e}
  BY <1>5, <1>6
<1>15. x = Unrestricted =>
          /\ {st.in : st \in byRegion} = {} /\ {st.spared : st \in byRegion} = {}
  BY <1>5
<1>16. y # Unrestricted => {st.spared : st \in byService} = {y \cup e}
  BY <1>5, <1>6
<1>17. y = Unrestricted => {st.spared : st \in byService} = {}
  BY <1>5
<1>18. read.regions = x
  BY <1>7, <1>8, <1>14, <1>15
<1>19. exempt = IF x = Unrestricted THEN Unrestricted ELSE e
  BY <1>8, <1>14, <1>15
<1>20. services = IF y = Unrestricted THEN Unrestricted ELSE y \cup e
  BY <1>8, <1>16, <1>17
<1> HIDE DEF exempt, services
<1>21. ASSUME NEW r \in Regions
       PROVE  PermitsRegion(read, r) <=> \A list \in X : r \in list
  BY <1>10, <1>12, <1>18 DEF PermitsRegion, Common
<1>22. ASSUME NEW s \in Services
       PROVE  PermitsService(read, s) <=> s \in Global(Content) \/ \A list \in Y : s \in list
  <2>1. CASE y = Unrestricted
    <3>1. read.services = Unrestricted
      BY <1>7, <1>20, <2>1
    <3> QED BY <1>11, <2>1, <3>1 DEF PermitsService
  <2>2. CASE y # Unrestricted
    <3>1. e \in SUBSET Services /\ e = Global(Content) /\ y \in SUBSET Services /\ Y # {} /\ y = Common(Y)
      BY <1>4, <1>9, <1>13, <2>2 DEF x, y, e
    <3>2. services = y \cup e /\ services # Unrestricted
      <4>1. y \cup e \in SUBSET Services
        BY <3>1
      <4> QED BY <1>20, <2>2, <4>1, NoBound
    <3>3. s \in y \cup e <=> s \in Global(Content) \/ \A list \in Y : s \in list
      BY <3>1 DEF Common
    <3>4. CASE x = Unrestricted
      <4>1. read.services = y \cup e /\ read.exempt = {}
        BY <1>7, <1>19, <3>2, <3>4
      <4> QED BY <3>2, <3>3, <4>1 DEF PermitsService
    <3>5. CASE x # Unrestricted
      <4>1. exempt = e /\ e # Unrestricted
        BY <1>4, <1>19, <3>5 DEF x, y, e
      <4>2. read.services = (y \cup e) \ e /\ read.exempt = e
        BY <1>7, <3>2, <4>1
      <4>3. read.services # Unrestricted
        <5>1. (y \cup e) \ e \in SUBSET Services
          BY <3>1
        <5> QED BY <4>2, <5>1, NoBound
      <4> QED BY <3>3, <4>2, <4>3 DEF PermitsService
    <3> QED BY <3>4, <3>5
  <2> QED BY <2>1, <2>2
<1> QED BY <1>21, <1>22 DEF ReadBackIsWhatBinds, read, stmts, X, Y, Content

\* The allowlists read back off the policies are the bounds the content promises
\* (ReadAllowlists over what Pack rendered).
THEOREM ReadBackHolds == Spec => []ReadBackIsWhatBinds
BY PoliciesInvariant, ReadBack, PTL

--------------------------------------------------------------------------------
(* Rule parameters: what the bindings of one come to.                      *)

\* The bindings of a parameter in some controls, and the parameters they bind.
BindingsIn(C, k) == {c.rules[k] : c \in {d \in C : k \in DOMAIN d.rules}}
KeysOf(C) == UNION {DOMAIN c.rules : c \in C}

\* p is what all the bindings in B allow.
IsMeet(p, B) ==
    /\ B # {} /\ \A q \in B : q.order = p.order /\ q.sep = p.sep
    /\ p.order = "exact" => \A q \in B : q.value = p.value
    /\ p.order \in {"min", "max"} =>
         p \in B /\ \A q \in B : q.value # p.value => p.value # 0 /\ q.value # 0
    /\ p.order = "min" => \A q \in B : p.value <= q.value
    /\ p.order = "max" => \A q \in B : q.value <= p.value
    /\ p.order = "set-union" => p.value = UNION {q.value : q \in B}
    /\ p.order = "set-intersect" => p.value # {} /\ p.value = Common({q.value : q \in B})

\* No value satisfies all the bindings in B, or two of them cannot be compared.
CannotMeet(B) ==
    \E p, q \in B :
       \/ p.order # q.order \/ p.sep # q.sep
       \/ p.order = "exact" /\ p.value # q.value
       \/ p.order \in {"min", "max"} /\ p.value # q.value /\ 0 \in {p.value, q.value}
       \/ p.order = "set-intersect" /\ Common({r.value : r \in B}) = {}

LEMMA ParameterIs ==
  ASSUME NEW p \in Parameter
  PROVE  /\ p.order \in {"exact", "min", "max", "set-union", "set-intersect"}
         /\ p.order \in Sets => p.value \in SUBSET Values
         /\ p.order \notin Sets => p.value \in Nat /\ p.sep = ","
BY Vocabulary DEF Parameter, Orders, Sets

\* What merging two bindings gives (RuleParameter.Resolve).
LEMMA ResolvedIs ==
  ASSUME NEW p \in Parameter, NEW q \in Parameter, NEW r \in Resolve(p, q)
  PROVE  /\ r \in Parameter /\ r.order = p.order /\ p.order = q.order
         /\ r.sep = p.sep /\ r.sep = q.sep
         /\ p.order = "exact" => r = p /\ p.value = q.value
         /\ p.order \in {"min", "max"} =>
              r \in {p, q} /\ (p.value # q.value => p.value # 0 /\ q.value # 0)
         /\ p.order = "min" => r.value <= p.value /\ r.value <= q.value
         /\ p.order = "max" => p.value <= r.value /\ q.value <= r.value
         /\ p.order = "set-union" => r.value = p.value \cup q.value
         /\ p.order = "set-intersect" => r.value = p.value \cap q.value /\ r.value # {}
<1>1. p.order = q.order
  BY DEF Resolve
<1>2. p.order \in {"exact", "min", "max", "set-union", "set-intersect"}
  BY ParameterIs
<1>3. CASE p.order = "exact"
  <2>1. r = p /\ p.value = q.value
    BY <1>1, <1>3 DEF Resolve
  <2> QED BY <1>1, <1>3, <2>1, ParameterIs DEF Sets
<1>4. CASE p.order = "min"
  <2>1. p.value \in Nat /\ q.value \in Nat
    BY <1>1, <1>4, ParameterIs DEF Sets
  <2>0. p.sep = q.sep
    BY <1>1, <1>4, ParameterIs DEF Sets
  <2>2. /\ p.value # q.value => p.value # 0 /\ q.value # 0
        /\ p.value # q.value => r = (IF p.value < q.value THEN p ELSE q)
        /\ p.value = q.value => r = p
    BY <1>1, <1>4 DEF Resolve
  <2>3. r \in {p, q}
    BY <2>2
  <2>4. r.value <= p.value /\ r.value <= q.value
    <3>1. CASE p.value = q.value
      BY <2>1, <2>2, <3>1
    <3>2. CASE p.value < q.value
      <4>1. r = p
        BY <2>1, <2>2, <3>2
      <4> QED BY <2>1, <3>2, <4>1
    <3>3. CASE q.value < p.value
      <4>1. r = q
        BY <2>1, <2>2, <3>3
      <4> QED BY <2>1, <3>3, <4>1
    <3> QED BY <2>1, <3>1, <3>2, <3>3
  <2> QED BY <1>1, <1>4, <2>0, <2>2, <2>3, <2>4
<1>5. CASE p.order = "max"
  <2>1. p.value \in Nat /\ q.value \in Nat
    BY <1>1, <1>5, ParameterIs DEF Sets
  <2>0. p.sep = q.sep
    BY <1>1, <1>5, ParameterIs DEF Sets
  <2>2. /\ p.value # q.value => p.value # 0 /\ q.value # 0
        /\ p.value # q.value => r = (IF p.value < q.value THEN q ELSE p)
        /\ p.value = q.value => r = p
    BY <1>1, <1>5 DEF Resolve
  <2>3. r \in {p, q}
    BY <2>2
  <2>4. p.value <= r.value /\ q.value <= r.value
    <3>1. CASE p.value = q.value
      BY <2>1, <2>2, <3>1
    <3>2. CASE p.value < q.value
      <4>1. r = q
        BY <2>1, <2>2, <3>2
      <4> QED BY <2>1, <3>2, <4>1
    <3>3. CASE q.value < p.value
      <4>1. r = p
        BY <2>1, <2>2, <3>3
      <4> QED BY <2>1, <3>3, <4>1
    <3> QED BY <2>1, <3>1, <3>2, <3>3
  <2> QED BY <1>1, <1>5, <2>0, <2>2, <2>3, <2>4
<1>6. CASE p.order = "set-union"
  <2> DEFINE v == p.value \cup q.value
  <2>1. r = [p EXCEPT !.value = v] /\ p.sep = q.sep
    BY <1>1, <1>6 DEF Resolve
  <2>2. v \in SUBSET Values
    BY <1>1, <1>6, ParameterIs DEF Sets
  <2> HIDE DEF v
  <2>3. r \in Parameter /\ r.order = p.order /\ r.sep = p.sep /\ r.value = v
    BY <1>6, <2>1, <2>2 DEF Parameter, Orders, Sets
  <2> QED BY <1>1, <1>6, <2>1, <2>3 DEF v
<1>7. CASE p.order = "set-intersect"
  <2> DEFINE v == p.value \cap q.value
  <2>1. r = [p EXCEPT !.value = v] /\ p.sep = q.sep /\ r.value # {}
    BY <1>1, <1>7 DEF Resolve
  <2>2. v \in SUBSET Values
    BY <1>1, <1>7, ParameterIs DEF Sets
  <2> HIDE DEF v
  <2>3. r \in Parameter /\ r.order = p.order /\ r.sep = p.sep /\ r.value = v
    BY <1>7, <2>1, <2>2 DEF Parameter, Orders, Sets
  <2> QED BY <1>1, <1>7, <2>1, <2>3 DEF v
<1> QED BY <1>2, <1>3, <1>4, <1>5, <1>6, <1>7

\* What two lists of lists have in common, together.
LEMMA CommonOfBoth ==
  ASSUME NEW A, A # {}, NEW B, B # {}
  PROVE  Common(A \cup B) = Common(A) \cap Common(B)
BY DEF Common

\* Two bindings that merge are what all the bindings behind them allow.
LEMMA MeetOfBoth ==
  ASSUME NEW A \in SUBSET Parameter, NEW B \in SUBSET Parameter,
         NEW p \in Parameter, IsMeet(p, A), NEW q \in Parameter, IsMeet(q, B),
         NEW r \in Resolve(p, q)
  PROVE  r \in Parameter /\ IsMeet(r, A \cup B)
<1>1. /\ r \in Parameter /\ r.order = p.order /\ p.order = q.order
      /\ r.sep = p.sep /\ r.sep = q.sep
      /\ p.order = "exact" => r = p /\ p.value = q.value
      /\ p.order \in {"min", "max"} =>
           r \in {p, q} /\ (p.value # q.value => p.value # 0 /\ q.value # 0)
      /\ p.order = "min" => r.value <= p.value /\ r.value <= q.value
      /\ p.order = "max" => p.value <= r.value /\ q.value <= r.value
      /\ p.order = "set-union" => r.value = p.value \cup q.value
      /\ p.order = "set-intersect" => r.value = p.value \cap q.value /\ r.value # {}
  BY ResolvedIs
<1>2. /\ A # {} /\ \A a \in A : a.order = p.order /\ a.sep = p.sep
      /\ B # {} /\ \A b \in B : b.order = q.order /\ b.sep = q.sep
  BY DEF IsMeet
<1>3. p.order \in {"exact", "min", "max", "set-union", "set-intersect"}
  BY ParameterIs
<1>4. A \cup B # {} /\ \A c \in A \cup B : c.order = r.order /\ c.sep = r.sep
  BY <1>1, <1>2
<1>5. CASE p.order = "exact"
  <2>1. \A c \in A \cup B : c.value = r.value
    BY <1>1, <1>5 DEF IsMeet
  <2> QED BY <1>1, <1>4, <1>5, <2>1 DEF IsMeet
<1>6. CASE p.order \in {"min", "max"}
  <2>1. /\ p \in A /\ \A a \in A : a.value # p.value => p.value # 0 /\ a.value # 0
        /\ q \in B /\ \A b \in B : b.value # q.value => q.value # 0 /\ b.value # 0
    BY <1>1, <1>6 DEF IsMeet
  <2>2. r \in A \cup B /\ \A c \in A \cup B : c.value # r.value => r.value # 0 /\ c.value # 0
    BY <1>1, <1>6, <2>1
  <2>3. \A c \in A \cup B : c.value \in Nat
    BY <1>1, <1>2, <1>6, ParameterIs DEF Sets
  <2>4. p.value \in Nat /\ q.value \in Nat /\ r.value \in Nat
    BY <2>1, <2>2, <2>3
  <2>5. CASE p.order = "min"
    <3>1. (\A a \in A : p.value <= a.value) /\ (\A b \in B : q.value <= b.value)
      BY <1>1, <2>5 DEF IsMeet
    <3>2. \A c \in A \cup B : r.value <= c.value
      BY <1>1, <2>3, <2>4, <2>5, <3>1
    <3> QED BY <1>1, <1>4, <2>2, <2>5, <3>2 DEF IsMeet
  <2>6. CASE p.order = "max"
    <3>1. (\A a \in A : a.value <= p.value) /\ (\A b \in B : b.value <= q.value)
      BY <1>1, <2>6 DEF IsMeet
    <3>2. \A c \in A \cup B : c.value <= r.value
      BY <1>1, <2>3, <2>4, <2>6, <3>1
    <3> QED BY <1>1, <1>4, <2>2, <2>6, <3>2 DEF IsMeet
  <2> QED BY <1>6, <2>5, <2>6
<1>7. CASE p.order = "set-union"
  <2>1. p.value = UNION {a.value : a \in A} /\ q.value = UNION {b.value : b \in B}
    BY <1>1, <1>7 DEF IsMeet
  <2>2. UNION {c.value : c \in A \cup B}
          = (UNION {a.value : a \in A}) \cup (UNION {b.value : b \in B})
    <3> DEFINE X == {a.value : a \in A}
               Y == {b.value : b \in B}
    <3>1. {c.value : c \in A \cup B} = X \cup Y
      OBVIOUS
    <3> HIDE DEF X, Y
    <3>2. UNION (X \cup Y) = (UNION X) \cup (UNION Y)
      OBVIOUS
    <3> QED BY <3>1, <3>2 DEF X, Y
  <2>3. r.value = UNION {c.value : c \in A \cup B}
    BY <1>1, <1>7, <2>1, <2>2
  <2> QED BY <1>1, <1>4, <1>7, <2>3 DEF IsMeet
<1>8. CASE p.order = "set-intersect"
  <2> DEFINE X == {a.value : a \in A}
             Y == {b.value : b \in B}
  <2>1. p.value = Common(X) /\ q.value = Common(Y)
    BY <1>1, <1>8 DEF IsMeet
  <2>2. {c.value : c \in A \cup B} = X \cup Y /\ X # {} /\ Y # {}
    BY <1>2
  <2>3. r.value = Common({c.value : c \in A \cup B})
    <3> HIDE DEF X, Y
    <3>1. Common(X \cup Y) = Common(X) \cap Common(Y)
      BY <2>2, CommonOfBoth
    <3> QED BY <1>1, <1>8, <2>1, <2>2, <3>1
  <2> QED BY <1>1, <1>4, <1>8, <2>3 DEF IsMeet
<1> QED BY <1>1, <1>3, <1>5, <1>6, <1>7, <1>8

\* Two bindings that do not merge leave no value that satisfies all those behind them.
LEMMA RefusedCannotMeet ==
  ASSUME NEW A \in SUBSET Parameter, NEW B \in SUBSET Parameter,
         NEW p \in Parameter, IsMeet(p, A), NEW q \in Parameter, IsMeet(q, B),
         Resolve(p, q) = {}
  PROVE  CannotMeet(A \cup B)
<1>1. PICK a \in A, b \in B : /\ a.order = p.order /\ a.sep = p.sep
                              /\ b.order = q.order /\ b.sep = q.sep
  BY DEF IsMeet
<1>2. a \in A \cup B /\ b \in A \cup B
  OBVIOUS
<1>3. p.order \in {"exact", "min", "max", "set-union", "set-intersect"}
  BY ParameterIs
<1>4. CASE p.order # q.order \/ p.sep # q.sep
  BY <1>1, <1>2, <1>4 DEF CannotMeet
<1>5. CASE p.order = q.order /\ p.sep = q.sep
  <2>1. CASE p.order = "exact"
    <3>1. p.value # q.value
      BY <1>5, <2>1 DEF Resolve
    <3>2. a.value = p.value /\ b.value = q.value
      BY <1>1, <1>5, <2>1 DEF IsMeet
    <3> QED BY <1>1, <1>2, <2>1, <3>1, <3>2 DEF CannotMeet
  <2>2. CASE p.order \in {"min", "max"}
    <3>1. p.value # q.value /\ 0 \in {p.value, q.value}
      BY <1>5, <2>2 DEF Resolve
    <3>2. p \in A \cup B /\ q \in A \cup B
      BY <1>5, <2>2 DEF IsMeet
    <3> QED BY <2>2, <3>1, <3>2 DEF CannotMeet
  <2>3. CASE p.order = "set-union"
    BY <1>5, <2>3 DEF Resolve
  <2>4. CASE p.order = "set-intersect"
    <3> DEFINE v == p.value \cap q.value
               X == {c.value : c \in A}
               Y == {c.value : c \in B}
    <3>1. v = {}
      <4>1. \A r : r = [p EXCEPT !.value = v] => r.value = {}
        BY <1>5, <2>4 DEF Resolve
      <4> HIDE DEF v
      <4>2. [p EXCEPT !.value = v].value = v
        BY <2>4 DEF Parameter
      <4> QED BY <4>1, <4>2
    <3>2. p.value = Common(X) /\ q.value = Common(Y)
      BY <1>5, <2>4 DEF IsMeet
    <3>3. {c.value : c \in A \cup B} = X \cup Y /\ X # {} /\ Y # {}
      BY <1>1
    <3>4. Common({c.value : c \in A \cup B}) = {}
      <4> HIDE DEF X, Y
      <4> QED BY <3>1, <3>2, <3>3, CommonOfBoth
    <3> QED BY <1>1, <1>2, <2>4, <3>4 DEF CannotMeet
  <2> QED BY <1>3, <2>1, <2>2, <2>3, <2>4
<1> QED BY <1>4, <1>5

\* More bindings do not settle a disagreement.
LEMMA CannotMeetStill ==
  ASSUME NEW A, NEW B, A \subseteq B, CannotMeet(A)
  PROVE  CannotMeet(B)
<1>1. PICK p, q \in A :
       \/ p.order # q.order \/ p.sep # q.sep
       \/ p.order = "exact" /\ p.value # q.value
       \/ p.order \in {"min", "max"} /\ p.value # q.value /\ 0 \in {p.value, q.value}
       \/ p.order = "set-intersect" /\ Common({r.value : r \in A}) = {}
  BY DEF CannotMeet
<1>2. p \in B /\ q \in B
  OBVIOUS
<1>3. Common({r.value : r \in A}) = {} => Common({r.value : r \in B}) = {}
  <2> SUFFICES ASSUME NEW x \in Common({r.value : r \in B}) PROVE x \in Common({r.value : r \in A})
    OBVIOUS
  <2>1. \A r \in B : x \in r.value
    BY DEF Common
  <2> QED BY <2>1 DEF Common
<1> QED BY <1>1, <1>2, <1>3 DEF CannotMeet

\* Bindings that meet do not disagree.
LEMMA MeetingCan ==
  ASSUME NEW B \in SUBSET Parameter, NEW p \in Parameter, IsMeet(p, B)
  PROVE  ~CannotMeet(B)
<1> SUFFICES ASSUME NEW a \in B, NEW b \in B,
                    \/ a.order # b.order \/ a.sep # b.sep
                    \/ a.order = "exact" /\ a.value # b.value
                    \/ a.order \in {"min", "max"} /\ a.value # b.value /\ 0 \in {a.value, b.value}
                    \/ a.order = "set-intersect" /\ Common({r.value : r \in B}) = {}
             PROVE  FALSE
  BY DEF CannotMeet
<1>1. a.order = p.order /\ b.order = p.order /\ a.sep = p.sep /\ b.sep = p.sep
  BY DEF IsMeet
<1>2. ~(a.order = "exact" /\ a.value # b.value)
  BY <1>1 DEF IsMeet
<1>3. ~(a.order \in {"min", "max"} /\ a.value # b.value /\ 0 \in {a.value, b.value})
  BY <1>1 DEF IsMeet
<1>4. ~(a.order = "set-intersect" /\ Common({r.value : r \in B}) = {})
  BY <1>1 DEF IsMeet
<1> QED BY <1>1, <1>2, <1>3, <1>4

\* What bindings come to permits exactly what they all permit.
LEMMA MeetPermits ==
  ASSUME NEW B \in SUBSET Parameter, NEW p \in Parameter, IsMeet(p, B), NEW v \in Values
  PROVE  Permits(p, v) <=> \A q \in B : Permits(q, v)
<1>1. v \in Nat
  BY Vocabulary
<1>2. B # {} /\ \A q \in B : q.order = p.order
  BY DEF IsMeet
<1>3. p.order \in {"exact", "min", "max", "set-union", "set-intersect"}
  BY ParameterIs
<1>4. CASE p.order = "exact"
  BY <1>2, <1>4 DEF IsMeet, Permits
<1>5. CASE p.order = "min"
  <2>1. \A q \in B : q.value \in Nat
    BY <1>2, <1>5, ParameterIs DEF Sets
  <2>2. /\ p \in B /\ \A q \in B : q.value # p.value => p.value # 0 /\ q.value # 0
        /\ \A q \in B : p.value <= q.value
    BY <1>5 DEF IsMeet
  <2>3. \A q \in B : Permits(q, v) <=> v # 0 /\ q.value # 0 /\ v <= q.value
    BY <1>2, <1>5 DEF Permits
  <2> QED BY <1>1, <2>1, <2>2, <2>3
<1>6. CASE p.order = "max"
  <2>1. \A q \in B : q.value \in Nat
    BY <1>2, <1>6, ParameterIs DEF Sets
  <2>2. /\ p \in B /\ \A q \in B : q.value # p.value => p.value # 0 /\ q.value # 0
        /\ \A q \in B : q.value <= p.value
    BY <1>6 DEF IsMeet
  <2>3. \A q \in B : Permits(q, v) <=> v # 0 /\ q.value # 0 /\ v >= q.value
    BY <1>2, <1>6 DEF Permits
  <2> QED BY <1>1, <2>1, <2>2, <2>3
<1>7. CASE p.order = "set-union"
  <2>1. p.value = UNION {q.value : q \in B}
    BY <1>7 DEF IsMeet
  <2> QED BY <1>2, <1>7, <2>1 DEF Permits
<1>8. CASE p.order = "set-intersect"
  <2>1. p.value = Common({q.value : q \in B})
    BY <1>8 DEF IsMeet
  <2>2. v \in p.value <=> \A q \in B : v \in q.value
    BY <1>2, <2>1 DEF Common
  <2> QED BY <1>2, <1>8, <2>2 DEF Permits
<1> QED BY <1>3, <1>4, <1>5, <1>6, <1>7, <1>8

--------------------------------------------------------------------------------
(* Rule parameters: folding the control sets.                              *)

\* A control binds parameters, and a prohibited or permitted set it binds is not empty.
BindsParameters(c) ==
    /\ c.rules = [k \in DOMAIN c.rules |-> c.rules[k]]
    /\ \A k \in DOMAIN c.rules :
          c.rules[k] \in Parameter /\ (c.rules[k].order \in Sets => c.rules[k].value # {})

\* What an override lists, for each parameter it names.
Listing(o) == \A k \in DOMAIN o : o[k] \in SUBSET Values

\* f holds what the bindings of some controls come to, but for parameters an override
\* settled, and for parameters in conflict, which no override names.
RulesCarry(f, applied, clash, C, o) ==
    /\ f = [k \in DOMAIN f |-> f[k]] /\ DOMAIN f = KeysOf(C)
    /\ \A k \in DOMAIN f : f[k] \in Parameter
    /\ applied \subseteq DOMAIN o
    /\ \A k \in DOMAIN f \ (applied \cup clash) : IsMeet(f[k], BindingsIn(C, k))
    /\ \A k \in clash : k \in DOMAIN f \ DOMAIN o /\ CannotMeet(BindingsIn(C, k))

LEMMA BindingsOfBoth ==
  ASSUME NEW C, NEW D, NEW k
  PROVE  /\ BindingsIn(C \cup D, k) = BindingsIn(C, k) \cup BindingsIn(D, k)
         /\ KeysOf(C \cup D) = KeysOf(C) \cup KeysOf(D)
         /\ k \notin KeysOf(C) => BindingsIn(C, k) = {}
         /\ (\A c \in C : BindsParameters(c)) => BindingsIn(C, k) \in SUBSET Parameter
<1>1. BindingsIn(C \cup D, k) = BindingsIn(C, k) \cup BindingsIn(D, k)
  BY DEF BindingsIn
<1>2. KeysOf(C \cup D) = KeysOf(C) \cup KeysOf(D)
  <2> DEFINE X == {DOMAIN c.rules : c \in C}
             Y == {DOMAIN c.rules : c \in D}
  <2>1. {DOMAIN c.rules : c \in C \cup D} = X \cup Y
    OBVIOUS
  <2> HIDE DEF X, Y
  <2>2. UNION (X \cup Y) = (UNION X) \cup (UNION Y)
    OBVIOUS
  <2> QED BY <2>1, <2>2 DEF KeysOf, X, Y
<1>3. k \notin KeysOf(C) => BindingsIn(C, k) = {}
  BY DEF BindingsIn, KeysOf
<1>4. (\A c \in C : BindsParameters(c)) => BindingsIn(C, k) \in SUBSET Parameter
  <2> SUFFICES ASSUME \A c \in C : BindsParameters(c)
               PROVE  BindingsIn(C, k) \in SUBSET Parameter
    OBVIOUS
  <2>1. \A c \in C : k \in DOMAIN c.rules => c.rules[k] \in Parameter
    BY DEF BindsParameters
  <2> QED BY <2>1 DEF BindingsIn
<1> QED BY <1>1, <1>2, <1>3, <1>4

LEMMA OverrideIs ==
  ASSUME NEW p \in Parameter, NEW listed \in SUBSET Values
  PROVE  Override(p, listed) \in Parameter
<1>1. p.order \in {"exact", "min", "max", "set-union", "set-intersect"}
  BY ParameterIs
<1>2. CASE p.order \in Sets
  BY <1>1, <1>2 DEF Override, Parameter, Orders
<1>3. CASE p.order \notin Sets
  <2> DEFINE v == IF Cardinality(listed) = 1 THEN CHOOSE x \in listed : TRUE ELSE 0
  <2>1. v \in Values
    <3>1. CASE Cardinality(listed) = 1
      <4>1. IsFiniteSet(listed)
        BY Vocabulary, FS_Subset
      <4>2. listed # {}
        BY <3>1, FS_EmptySet
      <4> QED BY <3>1, <4>2
    <3>2. CASE Cardinality(listed) # 1
      BY <3>2, Vocabulary
    <3> QED BY <3>1, <3>2
  <2>2. Override(p, listed) = [order |-> p.order, sep |-> ",", value |-> v]
    BY <1>3 DEF Override
  <2> HIDE DEF v
  <2>3. p.order \in Orders \ Sets
    BY <1>1, <1>3 DEF Orders, Sets
  <2>4. [order |-> p.order, sep |-> ",", value |-> v]
          \in [order : Orders \ Sets, value : Values, sep : {","}]
    BY <2>1, <2>3
  <2> QED BY <2>2, <2>4 DEF Parameter
<1> QED BY <1>2, <1>3

\* What CombineRules leaves in the parts that concern the rules.
CombinedRules(m, g, o, n) ==
    LET shared == DOMAIN m.rules \cap DOMAIN g
        conflicts == {k \in shared : Resolve(m.rules[k], g[k]) = {}}
        clash == {k \in shared : Settle(k, m.rules[k], g[k], o) = {}}
    IN  /\ DOMAIN n.rules = (DOMAIN m.rules) \cup DOMAIN g
        /\ n.rules = [k \in DOMAIN n.rules |-> n.rules[k]]
        /\ \A k \in shared \ clash : n.rules[k] \in Settle(k, m.rules[k], g[k], o)
        /\ \A k \in DOMAIN m.rules \ (shared \ clash) : n.rules[k] = m.rules[k]
        /\ \A k \in DOMAIN g \ DOMAIN m.rules : n.rules[k] = g[k]
        /\ n.clash = m.clash \cup clash
        /\ n.applied = m.applied \cup (conflicts \ clash)

LEMMA CombineRulesIs ==
  ASSUME NEW m, Form(m), NEW g, NEW o
  PROVE  CombinedRules(m, g, o, CombineRules(m, g, o))
<1> DEFINE f == m.rules
           shared == DOMAIN f \cap DOMAIN g
           Settled(k) == Settle(k, f[k], g[k], o)
           conflicts == {k \in shared : Resolve(f[k], g[k]) = {}}
           clash == {k \in shared : Settled(k) = {}}
           Joined(k) == IF k \in shared \ clash THEN CHOOSE p \in Settled(k) : TRUE
                        ELSE IF k \in DOMAIN f THEN f[k] ELSE g[k]
           joined == [k \in (DOMAIN f) \cup (DOMAIN g) |-> Joined(k)]
           both == m.clash \cup clash
           applied == m.applied \cup (conflicts \ clash)
           warned == m.warned \cup {k \in conflicts \ clash : Widens(f[k], g[k], Joined(k))}
           n == CombineRules(m, g, o)
<1>1. n = [m EXCEPT !.rules = joined, !.clash = both, !.applied = applied, !.warned = warned]
  BY DEF CombineRules
<1>2. /\ joined = [k \in DOMAIN joined |-> joined[k]] /\ DOMAIN joined = (DOMAIN f) \cup DOMAIN g
      /\ \A k \in shared \ clash : joined[k] \in Settled(k)
      /\ \A k \in DOMAIN f \ (shared \ clash) : joined[k] = f[k]
      /\ \A k \in DOMAIN g \ DOMAIN f : joined[k] = g[k]
  OBVIOUS
<1> HIDE DEF n, joined, both, applied, warned
<1>3. n.rules = joined /\ n.clash = both /\ n.applied = applied
  BY <1>1 DEF Form
<1>4. CombinedRules(m, g, o, n)
  BY <1>2, <1>3 DEF CombinedRules, both, applied
<1> QED BY <1>4 DEF n

\* What two control sets bind, together (combineConfigRules, addOneConfigRule).
LEMMA RulesTogether ==
  ASSUME NEW C, \A c \in C : BindsParameters(c), NEW D, \A c \in D : BindsParameters(c),
         NEW o, Listing(o),
         NEW m, RulesCarry(m.rules, m.applied, m.clash, C, o),
         NEW g, NEW applied, NEW clash, RulesCarry(g, applied, clash, D, o),
         NEW n, CombinedRules(m, g, o, n)
  PROVE  RulesCarry(n.rules, n.applied \cup applied, n.clash \cup clash, C \cup D, o)
<1> DEFINE f == m.rules
           shared == DOMAIN f \cap DOMAIN g
           conflicts == {k \in shared : Resolve(f[k], g[k]) = {}}
           fresh == {k \in shared : Settle(k, f[k], g[k], o) = {}}
           h == n.rules
           all == n.applied \cup applied
           bad == n.clash \cup clash
           B(k) == BindingsIn(C, k)
           E(k) == BindingsIn(D, k)
<1>1. /\ DOMAIN h = (DOMAIN f) \cup DOMAIN g /\ h = [k \in DOMAIN h |-> h[k]]
      /\ \A k \in shared \ fresh : h[k] \in Settle(k, f[k], g[k], o)
      /\ \A k \in DOMAIN f \ (shared \ fresh) : h[k] = f[k]
      /\ \A k \in DOMAIN g \ DOMAIN f : h[k] = g[k]
      /\ n.clash = m.clash \cup fresh
      /\ n.applied = m.applied \cup (conflicts \ fresh)
  BY DEF CombinedRules
<1>2. /\ DOMAIN f = KeysOf(C) /\ DOMAIN g = KeysOf(D)
      /\ \A k \in DOMAIN f : f[k] \in Parameter
      /\ \A k \in DOMAIN g : g[k] \in Parameter
      /\ m.applied \subseteq DOMAIN o /\ applied \subseteq DOMAIN o
      /\ \A k \in DOMAIN f \ (m.applied \cup m.clash) : IsMeet(f[k], B(k))
      /\ \A k \in DOMAIN g \ (applied \cup clash) : IsMeet(g[k], E(k))
      /\ \A k \in m.clash : k \in DOMAIN f \ DOMAIN o /\ CannotMeet(B(k))
      /\ \A k \in clash : k \in DOMAIN g \ DOMAIN o /\ CannotMeet(E(k))
  BY DEF RulesCarry
<1>3. \A k : /\ BindingsIn(C \cup D, k) = B(k) \cup E(k)
             /\ B(k) \in SUBSET Parameter /\ E(k) \in SUBSET Parameter
             /\ k \notin DOMAIN f => B(k) = {}
             /\ k \notin DOMAIN g => E(k) = {}
  BY <1>2, BindingsOfBoth
<1>4. KeysOf(C \cup D) = DOMAIN h
  <2>1. KeysOf(C \cup D) = KeysOf(C) \cup KeysOf(D)
    BY BindingsOfBoth
  <2> QED BY <1>1, <1>2, <2>1
<1>5. \A k \in shared : /\ Resolve(f[k], g[k]) # {} => Settle(k, f[k], g[k], o) = Resolve(f[k], g[k])
                        /\ Resolve(f[k], g[k]) = {} /\ k \in DOMAIN o =>
                             Settle(k, f[k], g[k], o) = {Override(f[k], o[k])}
                        /\ Resolve(f[k], g[k]) = {} /\ k \notin DOMAIN o =>
                             Settle(k, f[k], g[k], o) = {}
  BY DEF Settle
<1> HIDE DEF f, h, B, E
<1>6. ASSUME NEW k \in DOMAIN h PROVE h[k] \in Parameter
  <2>1. CASE k \in shared \ fresh
    <3>1. f[k] \in Parameter /\ g[k] \in Parameter
      BY <1>2, <2>1
    <3>2. CASE Resolve(f[k], g[k]) # {}
      <4>1. h[k] \in Resolve(f[k], g[k])
        BY <1>1, <1>5, <2>1, <3>2
      <4> QED BY <3>1, <4>1, ResolvedIs
    <3>3. CASE Resolve(f[k], g[k]) = {}
      <4>1. k \in DOMAIN o /\ h[k] = Override(f[k], o[k])
        BY <1>1, <1>5, <2>1, <3>3
      <4>2. o[k] \in SUBSET Values
        BY <4>1 DEF Listing
      <4> QED BY <3>1, <4>1, <4>2, OverrideIs
    <3> QED BY <3>2, <3>3
  <2>2. CASE k \notin shared \ fresh
    BY <1>1, <1>2, <2>2
  <2> QED BY <2>1, <2>2
<1>7. all \subseteq DOMAIN o
  BY <1>1, <1>2, <1>5
<1>8. ASSUME NEW k \in DOMAIN h \ (all \cup bad) PROVE IsMeet(h[k], BindingsIn(C \cup D, k))
  <2>1. /\ k \notin m.applied /\ k \notin applied /\ k \notin m.clash /\ k \notin clash
        /\ k \notin fresh /\ k \notin conflicts
    BY <1>1
  <2>2. CASE k \in shared
    <3>1. /\ IsMeet(f[k], B(k)) /\ IsMeet(g[k], E(k))
          /\ f[k] \in Parameter /\ g[k] \in Parameter
          /\ B(k) \in SUBSET Parameter /\ E(k) \in SUBSET Parameter
      BY <1>2, <1>3, <2>1, <2>2
    <3>2. h[k] \in Resolve(f[k], g[k])
      BY <1>1, <1>5, <2>1, <2>2
    <3>3. IsMeet(h[k], B(k) \cup E(k))
      BY <3>1, <3>2, MeetOfBoth
    <3> QED BY <1>3, <3>3
  <2>3. CASE k \notin DOMAIN g
    <3>1. h[k] = f[k] /\ IsMeet(f[k], B(k)) /\ B(k) \cup E(k) = B(k)
      BY <1>1, <1>2, <1>3, <2>1, <2>3
    <3> QED BY <1>3, <3>1
  <2>4. CASE k \notin DOMAIN f
    <3>1. h[k] = g[k] /\ IsMeet(g[k], E(k)) /\ B(k) \cup E(k) = E(k)
      BY <1>1, <1>2, <1>3, <2>1, <2>4
    <3> QED BY <1>3, <3>1
  <2> QED BY <2>2, <2>3, <2>4
<1>9. ASSUME NEW k \in bad
      PROVE  k \in DOMAIN h \ DOMAIN o /\ CannotMeet(BindingsIn(C \cup D, k))
  <2>1. CASE k \in m.clash \/ k \in clash
    <3>1. B(k) \subseteq B(k) \cup E(k) /\ E(k) \subseteq B(k) \cup E(k)
      OBVIOUS
    <3>2. CannotMeet(B(k)) \/ CannotMeet(E(k))
      BY <1>2, <2>1
    <3>3. CannotMeet(B(k) \cup E(k))
      BY <3>1, <3>2, CannotMeetStill
    <3>4. k \in DOMAIN h \ DOMAIN o
      BY <1>1, <1>2, <2>1
    <3> QED BY <1>3, <3>3, <3>4
  <2>2. CASE k \notin m.clash /\ k \notin clash
    <3>1. k \in fresh
      BY <1>1, <2>2
    <3>2. k \in shared /\ Resolve(f[k], g[k]) = {} /\ k \notin DOMAIN o
      BY <1>5, <3>1
    <3>3. /\ IsMeet(f[k], B(k)) /\ IsMeet(g[k], E(k))
          /\ f[k] \in Parameter /\ g[k] \in Parameter
          /\ B(k) \in SUBSET Parameter /\ E(k) \in SUBSET Parameter
      BY <1>2, <1>3, <2>2, <3>2
    <3>4. CannotMeet(B(k) \cup E(k))
      BY <3>2, <3>3, RefusedCannotMeet
    <3> QED BY <1>1, <1>3, <3>2, <3>4
  <2> QED BY <2>1, <2>2
<1> QED BY <1>1, <1>4, <1>6, <1>7, <1>8, <1>9 DEF RulesCarry, h

\* One control binds what it binds.
LEMMA ControlRules ==
  ASSUME NEW c, BindsParameters(c), NEW o
  PROVE  RulesCarry(c.rules, {}, {}, {c}, o)
<1>1. DOMAIN c.rules = KeysOf({c}) /\ \A k \in DOMAIN c.rules : BindingsIn({c}, k) = {c.rules[k]}
  BY DEF KeysOf, BindingsIn
<1>2. ASSUME NEW k \in DOMAIN c.rules PROVE IsMeet(c.rules[k], {c.rules[k]})
  <2> DEFINE p == c.rules[k]
  <2>1. p \in Parameter /\ (p.order \in Sets => p.value # {})
    BY DEF BindsParameters
  <2> HIDE DEF p
  <2>2. p.order \notin Sets => p.value \in Nat
    BY <2>1, ParameterIs
  <2>3. p.order = "set-intersect" => p.value # {} /\ p.value = Common({p.value})
    BY <2>1 DEF Sets, Common
  <2>4. p.order = "min" => p.value <= p.value
    BY <2>2 DEF Sets
  <2>5. p.order = "max" => p.value <= p.value
    BY <2>2 DEF Sets
  <2>6. p.value = UNION {q.value : q \in {p}} /\ {q.value : q \in {p}} = {p.value}
    OBVIOUS
  <2>7. IsMeet(p, {p})
    BY <2>3, <2>4, <2>5, <2>6 DEF IsMeet
  <2> QED BY <2>7 DEF p
<1>3. c.rules = [k \in DOMAIN c.rules |-> c.rules[k]] /\ \A k \in DOMAIN c.rules : c.rules[k] \in Parameter
  BY DEF BindsParameters
<1> QED BY <1>1, <1>2, <1>3 DEF RulesCarry

\* What a control set carries of rules.
CarriesRules(m, C, o) == RulesCarry(m.rules, m.applied, m.clash, C, o)

LEMMA AddControlRules ==
  ASSUME NEW m, NEW C, Carries(m, C), NEW o, Listing(o), CarriesRules(m, C, o),
         \A d \in C : BindsParameters(d), NEW c, BindsParameters(c)
  PROVE  CarriesRules(AddControl(m, c, o), C \cup {c}, o)
<1> DEFINE s == m.stmts \cup c.stmts
           r == Intersect(m.regions, Bound(c.regions))
           v == Intersect(m.services, Bound(c.services))
           mid == [m EXCEPT !.stmts = s, !.regions = r, !.services = v]
           n == CombineRules(mid, c.rules, o)
<1>1. AddControl(m, c, o) = n
  BY DEF AddControl
<1>2. Form(mid) /\ mid.rules = m.rules /\ mid.applied = m.applied /\ mid.clash = m.clash
  <2>1. Form(m)
    BY DEF Carries
  <2> HIDE DEF s, r, v
  <2>2. mid = [m EXCEPT !.stmts = s, !.regions = r, !.services = v]
    OBVIOUS
  <2> HIDE DEF mid
  <2> QED BY <2>1, <2>2 DEF Form
<1> HIDE DEF mid, n
<1>3. RulesCarry(mid.rules, mid.applied, mid.clash, C, o)
  BY <1>2 DEF CarriesRules
<1>4. CombinedRules(mid, c.rules, o, n)
  BY <1>2, CombineRulesIs DEF n
<1>5. RulesCarry(c.rules, {}, {}, {c}, o) /\ \A d \in {c} : BindsParameters(d)
  BY ControlRules
<1>6. RulesCarry(n.rules, n.applied \cup {}, n.clash \cup {}, C \cup {c}, o)
  BY <1>3, <1>4, <1>5, RulesTogether
<1>7. n.applied \cup {} = n.applied /\ n.clash \cup {} = n.clash
  OBVIOUS
<1> QED BY <1>1, <1>6, <1>7 DEF CarriesRules

LEMMA FromArtifactRules ==
  ASSUME NEW art, art.controls \in Seq(Members(art.controls)), NEW o, Listing(o),
         \A c \in Members(art.controls) : PlainControl(c) /\ BindsParameters(c)
  PROVE  CarriesRules(FromArtifact(art, o), Members(art.controls), o)
<1> DEFINE l == Len(art.controls)
           M(n) == {art.controls[i] : i \in 1..n}
<1>1. PICK first : /\ first[0] = Nothing
                   /\ \A n \in 1..l : first[n] = AddControl(first[n - 1], art.controls[n], o)
                   /\ FromArtifact(art, o)
                        = [first[l] EXCEPT !.stmts = NormalForm(@), !.exempt = art.exempt]
  BY FromArtifactIs
<1>2. l \in Nat /\ DOMAIN art.controls = 1..l
  OBVIOUS
<1>3. \A n \in 0..l : \A c \in M(n) : PlainControl(c) /\ BindsParameters(c)
  BY <1>2 DEF Members
<1> DEFINE Sum_(n) == Carries(first[n], M(n)) /\ CarriesRules(first[n], M(n), o)
           P == {n \in Nat : n <= l => Sum_(n)}
<1>4. 0 \in P
  <2>1. M(0) = {}
    OBVIOUS
  <2>2. Carries(Nothing, {})
    BY DEF Carries, Form, Nothing, DenyAs, IsBound, RegionsOf, ServicesOf
  <2>3. CarriesRules(Nothing, {}, o)
    <3>1. Nothing.rules = <<>> /\ Nothing.applied = {} /\ Nothing.clash = {}
      BY DEF Nothing
    <3>2. <<>> = [k \in DOMAIN <<>> |-> <<>>[k]] /\ DOMAIN <<>> = {}
      OBVIOUS
    <3>3. KeysOf({}) = {}
      BY DEF KeysOf
    <3> QED BY <3>1, <3>2, <3>3 DEF CarriesRules, RulesCarry
  <2> QED BY <1>1, <2>1, <2>2, <2>3
<1>5. \A n \in Nat : n \in P => n + 1 \in P
  <2> HIDE DEF Sum_
  <2> SUFFICES ASSUME NEW n \in Nat, n \in P, n + 1 <= l
               PROVE  Sum_(n + 1)
    OBVIOUS
  <2>1. n + 1 \in 1..l /\ n \in 0..l /\ (n + 1) - 1 = n /\ n <= l
    BY <1>2
  <2>0. Sum_(n)
    BY <2>1
  <2> USE DEF Sum_
  <2>2. first[n + 1] = AddControl(first[n], art.controls[n + 1], o)
    BY <1>1, <2>1
  <2>3. M(n + 1) = M(n) \cup {art.controls[n + 1]}
    BY <2>1
  <2>4. PlainControl(art.controls[n + 1]) /\ BindsParameters(art.controls[n + 1])
    BY <1>2, <2>1 DEF Members
  <2>5. \A d \in M(n) : PlainControl(d) /\ BindsParameters(d)
    BY <1>3, <2>1
  <2> HIDE DEF M, P
  <2>6. Carries(AddControl(first[n], art.controls[n + 1], o), M(n) \cup {art.controls[n + 1]})
    BY <2>0, <2>4, <2>5, AddControlCarries
  <2>7. CarriesRules(AddControl(first[n], art.controls[n + 1], o), M(n) \cup {art.controls[n + 1]}, o)
    BY <2>0, <2>4, <2>5, AddControlRules
  <2> QED BY <2>2, <2>3, <2>6, <2>7
<1>6. Carries(first[l], Members(art.controls)) /\ CarriesRules(first[l], Members(art.controls), o)
  <2> HIDE DEF P
  <2>1. P = Nat
    BY <1>4, <1>5, Induction DEF P
  <2>2. M(l) = Members(art.controls)
    BY <1>2 DEF Members
  <2> HIDE DEF M, l
  <2>3. l \in P /\ l <= l
    BY <1>2, <2>1
  <2> QED BY <2>2, <2>3 DEF P
<1> DEFINE m == first[l]
           n == FromArtifact(art, o)
<1>7. n = [m EXCEPT !.stmts = NormalForm(m.stmts), !.exempt = art.exempt]
  BY <1>1
<1> HIDE DEF m, n
<1>8. Form(m) /\ CarriesRules(m, Members(art.controls), o)
  BY <1>6 DEF m, Carries
<1>9. n.rules = m.rules /\ n.applied = m.applied /\ n.clash = m.clash
  BY <1>7, <1>8 DEF Form
<1> QED BY <1>8, <1>9 DEF CarriesRules, n

LEMMA CombineBinds ==
  ASSUME NEW a, NEW C, Carries(a, C), NEW b, NEW D, NEW o, Listing(o),
         CarriesRules(a, C, o), CarriesRules(b, D, o),
         \A c \in C : BindsParameters(c), \A c \in D : BindsParameters(c)
  PROVE  CarriesRules(Combine(a, b, o), C \cup D, o)
<1> DEFINE m == CombineRules(a, b.rules, o)
           n == Combine(a, b, o)
           s == NormalForm(m.stmts \cup b.stmts)
           r == Intersect(m.regions, b.regions)
           v == Intersect(m.services, b.services)
           e == Intersect(m.exempt, b.exempt)
           applied == m.applied \cup b.applied
           warned == m.warned \cup b.warned
           clash == m.clash \cup b.clash
<1>1. Form(a) /\ Form(m)
  BY CombineRulesKeeps DEF Carries
<1>2. CombinedRules(a, b.rules, o, m)
  BY <1>1, CombineRulesIs
<1>3. n = [m EXCEPT !.stmts = s, !.regions = r, !.services = v, !.exempt = e,
                    !.applied = applied, !.warned = warned, !.clash = clash]
  BY DEF Combine
<1> HIDE DEF m, n
<1>4. RulesCarry(m.rules, m.applied \cup b.applied, m.clash \cup b.clash, C \cup D, o)
  BY <1>2, RulesTogether DEF CarriesRules
<1>5. n.rules = m.rules /\ n.applied = m.applied \cup b.applied /\ n.clash = m.clash \cup b.clash
  <2> HIDE DEF s, r, v, e, warned
  <2> QED BY <1>1, <1>3 DEF Form
<1> QED BY <1>4, <1>5 DEF CarriesRules, n

LEMMA CatalogBinds ==
  ASSUME Acceptable, NEW ids \in SUBSET Wanted(doc.profile), NEW c \in ControlsOf(ids)
  PROVE  BindsParameters(c)
<1>1. PICK id \in ids : c \in Members(Artifacts[id].controls)
  BY DEF ControlsOf
<1>2. id \in Ids /\ ValidArtifact(Artifacts[id])
  BY DEF Acceptable, Loads
<1>3. ValidRules(c)
  BY <1>1, <1>2 DEF ValidArtifact, ValidControl
<1>4. c.rules = [k \in DOMAIN c.rules |-> c.rules[k]] /\ \A k \in DOMAIN c.rules : c.rules[k] \in Parameter
  BY <1>1, <1>2, ArtifactsAssumption
<1> QED BY <1>3, <1>4 DEF BindsParameters, ValidRules

--------------------------------------------------------------------------------
(* The slots of the port rule.                                             *)

\* The slots hold prohibited ports in order, one each: none is lost and none added
\* (reSlotBlockedPorts).
LEMMA ReSlotIs ==
  ASSUME NEW f, \A k \in DOMAIN f : f[k] \in Parameter, ~PortClash(f)
  PROVE  /\ BlockedPorts(ReSlot(f)) = BlockedPorts(f)
         /\ \A k \in DOMAIN f \ Slots : k \in DOMAIN ReSlot(f) /\ ReSlot(f)[k] = f[k]
<1> DEFINE ports == BlockedPorts(f)
           upto(port) == {o \in ports : o <= port}
           Slot(port) == <<PortRule, PortSlots[Cardinality(upto(port))]>>
           In(k) == CHOOSE port \in ports : Slot(port) = k
           filled == {Slot(port) : port \in ports}
           g == ReSlot(f)
<1>1. ports \in SUBSET Nat /\ IsFiniteSet(ports)
  <2>1. \A k \in Slots \cap DOMAIN f : f[k].value \in SUBSET Values
    BY ParameterIs DEF PortClash, Sets
  <2>2. ports \in SUBSET Values
    BY <2>1 DEF BlockedPorts
  <2> HIDE DEF ports
  <2> QED BY <2>2, Vocabulary, FS_Subset
<1>2. Cardinality(ports) \in Nat /\ Cardinality(ports) <= Len(PortSlots) /\ Len(PortSlots) \in Nat
  <2>1. Cardinality(ports) \in Nat
    BY <1>1, FS_CardinalityType
  <2>2. Len(PortSlots) \in Nat
    BY Vocabulary
  <2>3. ~(Cardinality(ports) > Len(PortSlots))
    BY DEF PortClash
  <2> HIDE DEF ports
  <2> QED BY <2>1, <2>2, <2>3
<1>3. g = [k \in (DOMAIN f \ Slots) \cup filled |->
             IF k \in filled THEN [order |-> "set-union", value |-> {In(k)}, sep |-> ","] ELSE f[k]]
  BY DEF ReSlot
<1> HIDE DEF ports
<1>4. ASSUME NEW port \in ports PROVE Cardinality(upto(port)) \in 1..Len(PortSlots)
  <2>1. upto(port) \in SUBSET ports /\ port \in upto(port)
    BY <1>1
  <2>2. IsFiniteSet(upto(port)) /\ Cardinality(upto(port)) \in Nat /\ Cardinality(upto(port)) <= Cardinality(ports)
    BY <1>1, <2>1, FS_Subset, FS_CardinalityType
  <2>3. Cardinality(upto(port)) # 0
    BY <2>1, <2>2, FS_EmptySet
  <2> QED BY <1>2, <2>2, <2>3
<1>5. ASSUME NEW a \in ports, NEW b \in ports, a < b PROVE Slot(a) # Slot(b)
  <2>1. upto(a) \in SUBSET upto(b) /\ b \in upto(b) /\ b \notin upto(a) /\ upto(b) \in SUBSET ports
    <3>1. \A o \in ports : o \in Nat
      BY <1>1
    <3>2. \A o \in ports : o <= a => o <= b
      BY <1>5, <3>1
    <3>3. ~(b <= a) /\ b <= b
      BY <1>5, <3>1
    <3> QED BY <3>2, <3>3
  <2>2. IsFiniteSet(upto(b))
    BY <1>1, <2>1, FS_Subset
  <2>3. Cardinality(upto(a)) # Cardinality(upto(b))
    BY <2>1, <2>2, FS_Subset
  <2> DEFINE i == Cardinality(upto(a))
             j == Cardinality(upto(b))
  <2>4. i \in 1..Len(PortSlots) /\ j \in 1..Len(PortSlots)
    BY <1>4
  <2>5. DOMAIN PortSlots = 1..Len(PortSlots)
    BY Vocabulary
  <2> HIDE DEF i, j
  <2>6. PortSlots[i] # PortSlots[j]
    BY <2>3, <2>4, <2>5, Vocabulary DEF i, j
  <2> QED BY <2>6 DEF i, j
<1>6. ASSUME NEW a \in ports, NEW b \in ports, Slot(a) = Slot(b) PROVE a = b
  <2>1. a < b \/ b < a \/ a = b
    BY <1>1
  <2> QED BY <1>5, <1>6, <2>1
<1>7. filled \subseteq Slots
  <2>1. DOMAIN PortSlots = 1..Len(PortSlots)
    BY Vocabulary
  <2> QED BY <1>4, <2>1 DEF Slots
<1> HIDE DEF Slot
<1>8. \A port \in ports : In(Slot(port)) = port
  BY <1>6
<1>9. {In(k) : k \in filled} = ports
  BY <1>8
<1> HIDE DEF In, filled, g
<1>10. /\ DOMAIN g = (DOMAIN f \ Slots) \cup filled
       /\ \A k \in filled : g[k].value = {In(k)}
       /\ \A k \in DOMAIN f \ Slots : k \notin filled /\ g[k] = f[k]
  BY <1>3, <1>7
<1>11. Slots \cap DOMAIN g = filled
  BY <1>7, <1>10
<1>12. BlockedPorts(g) = ports
  <2>1. BlockedPorts(g) = UNION {g[k].value : k \in filled}
    BY <1>11 DEF BlockedPorts
  <2>2. UNION {g[k].value : k \in filled} = {In(k) : k \in filled}
    BY <1>10
  <2> QED BY <1>9, <2>1, <2>2
<1> QED BY <1>10, <1>12 DEF g, ports

\* The ports some controls prohibit, and when they are too many for the slots.
PortsOf(C) == UNION {UNION {p.value : p \in BindingsIn(C, k)} : k \in Slots}

TooMany(C) ==
    \/ \E k \in Slots : \E p \in BindingsIn(C, k) : p.order # "set-union"
    \/ Cardinality(PortsOf(C)) > Len(PortSlots)

LEMMA PortsAre ==
  ASSUME NEW f, NEW applied, NEW C, NEW o, RulesCarry(f, applied, {}, C, o),
         applied \cap Slots = {}
  PROVE  /\ PortClash(f) <=> TooMany(C)
         /\ ~TooMany(C) => BlockedPorts(f) = PortsOf(C)
<1>1. /\ DOMAIN f = KeysOf(C)
      /\ \A k \in Slots \cap DOMAIN f : IsMeet(f[k], BindingsIn(C, k))
  BY DEF RulesCarry
<1>2. \A k \in Slots \ DOMAIN f : BindingsIn(C, k) = {}
  BY <1>1 DEF KeysOf, BindingsIn
<1>3. (\E k \in Slots \cap DOMAIN f : f[k].order # "set-union")
        <=> (\E k \in Slots : \E p \in BindingsIn(C, k) : p.order # "set-union")
  <2>1. ASSUME NEW k \in Slots \cap DOMAIN f
        PROVE  f[k].order # "set-union" <=> \E p \in BindingsIn(C, k) : p.order # "set-union"
    BY <1>1 DEF IsMeet
  <2> QED BY <1>2, <2>1
<1>4. ASSUME \A k \in Slots \cap DOMAIN f : f[k].order = "set-union"
      PROVE  BlockedPorts(f) = PortsOf(C)
  <2>1. \A k \in Slots \cap DOMAIN f : f[k].value = UNION {p.value : p \in BindingsIn(C, k)}
    BY <1>1, <1>4 DEF IsMeet
  <2>2. \A k \in Slots \ DOMAIN f : UNION {p.value : p \in BindingsIn(C, k)} = {}
    BY <1>2
  <2> DEFINE V(k) == UNION {p.value : p \in BindingsIn(C, k)}
  <2>3. BlockedPorts(f) = UNION {V(k) : k \in Slots \cap DOMAIN f}
    BY <2>1 DEF BlockedPorts
  <2>4. PortsOf(C) = UNION {V(k) : k \in Slots}
    BY DEF PortsOf
  <2>5. \A k \in Slots \ DOMAIN f : V(k) = {}
    BY <2>2
  <2> HIDE DEF V
  <2> QED BY <2>3, <2>4, <2>5
<1> QED BY <1>3, <1>4 DEF PortClash, TooMany

--------------------------------------------------------------------------------
(* What the command has of rule parameters at each step.                   *)

\* m holds what the bindings of some controls come to, and the ports in the slots.
RulesMeet(m, C, o) ==
    /\ m.applied \subseteq DOMAIN o
    /\ \A k \in KeysOf(C) \ Slots :
          /\ k \in DOMAIN m.rules /\ m.rules[k] \in Parameter
          /\ k \notin m.applied => IsMeet(m.rules[k], BindingsIn(C, k))
    /\ \A k \in KeysOf(C) \ DOMAIN o : ~CannotMeet(BindingsIn(C, k))
    /\ m.applied \cap Slots = {} => ~TooMany(C) /\ BlockedPorts(m.rules) = PortsOf(C)

\* While control sets are folded, the parameters are what the bindings folded come to;
\* afterwards the slots of the port rule are filled anew; a conflict reported is one.
RulesOK ==
    /\ phase = "merge" =>
         acc.clash = {} /\ CarriesRules(acc, ControlsOf(Folded), overrides)
    /\ Merged => RulesMeet(acc, ControlsOf(Wanted(doc.profile)), overrides)
    /\ phase = "done" => ~Undeployable(acc.rules)
    /\ phase = "conflict" => ConflictsAreReal

CompileInv == PolicyInv /\ RulesOK

LEMMA FilesList == ASSUME PolicyInv PROVE Listing(overrides)
BY FilesAssumption DEF PolicyInv, LoadedOK, Listing

LEMMA ReferenceIs ==
  /\ Keys = KeysOf(ControlsOf(Wanted(doc.profile)))
  /\ \A k : Bindings(k) = BindingsIn(ControlsOf(Wanted(doc.profile)), k)
  /\ \A k : Irreconcilable(k) <=> CannotMeet(BindingsIn(ControlsOf(Wanted(doc.profile)), k))
  /\ TooManyPorts <=> TooMany(ControlsOf(Wanted(doc.profile)))
<1>1. Chosen(Wanted(doc.profile)) = ControlsOf(Wanted(doc.profile))
  <2>1. Wanted(doc.profile) \cup {Baseline} = Wanted(doc.profile)
    BY DEF Wanted
  <2> QED BY <2>1 DEF Chosen, ControlsOf
<1>2. Keys = KeysOf(ControlsOf(Wanted(doc.profile)))
  BY <1>1 DEF Keys, KeysOf
<1>3. \A k : Bindings(k) = BindingsIn(ControlsOf(Wanted(doc.profile)), k)
  BY <1>1 DEF Bindings, BindingsIn
<1>4. \A k : Irreconcilable(k) <=> CannotMeet(BindingsIn(ControlsOf(Wanted(doc.profile)), k))
  BY <1>3 DEF Irreconcilable, CannotMeet
<1>5. TooManyPorts <=> TooMany(ControlsOf(Wanted(doc.profile)))
  BY <1>3 DEF TooManyPorts, TooMany, PortsOf
<1> QED BY <1>2, <1>3, <1>4, <1>5

LEMMA MergeRules ==
  ASSUME CompileInv, NEW id \in left, Merge(id)
  PROVE  RulesOK'
<1> DEFINE art == Artifacts[id]
           next == FromArtifact(art, overrides)
           both == Combine(acc, next, overrides)
           C == ControlsOf(Folded)
           D == Members(art.controls)
           W == ControlsOf(Wanted(doc.profile))
<1>1. /\ phase = "merge" /\ Acceptable /\ left \subseteq Wanted(doc.profile)
      /\ Listing(overrides) /\ acc.clash = {} /\ CarriesRules(acc, C, overrides)
  BY FilesList DEF Merge, CompileInv, PolicyInv, LoadedOK, RulesOK
<1>2. Carries(acc, C)
  BY <1>1 DEF CompileInv, PolicyInv, CombinedOK, Carries
<1>3. /\ art.controls \in Seq(D) /\ \A c \in D : PlainControl(c) /\ BindsParameters(c)
  <2>1. \A c \in D : c \in ControlsOf({id}) /\ {id} \in SUBSET Wanted(doc.profile)
    BY <1>1 DEF ControlsOf
  <2> QED BY <1>1, <2>1, CatalogIs, CatalogBinds
<1>4. Folded \in SUBSET Wanted(doc.profile)
  BY DEF Folded
<1>5. \A c \in C : BindsParameters(c)
  BY <1>1, <1>4, CatalogBinds
<1>6. CarriesRules(next, D, overrides)
  BY <1>1, <1>3, FromArtifactRules
<1> HIDE DEF next, C, D, W
<1>7. CarriesRules(both, C \cup D, overrides)
  BY <1>1, <1>2, <1>3, <1>5, <1>6, CombineBinds
<1>8. CASE both.clash # {} /\ Refuse("conflict")
  <2>1. PICK k \in both.clash : TRUE
    BY <1>8
  <2>2. k \in KeysOf(C \cup D) \ DOMAIN overrides /\ CannotMeet(BindingsIn(C \cup D, k))
    <3> HIDE DEF both
    <3> QED BY <1>7 DEF CarriesRules, RulesCarry
  <2>3. C \cup D \subseteq W
    BY <1>1, <1>4 DEF C, D, W, ControlsOf
  <2>4. KeysOf(C \cup D) \subseteq KeysOf(W) /\ BindingsIn(C \cup D, k) \subseteq BindingsIn(W, k)
    BY <2>3 DEF KeysOf, BindingsIn
  <2>5. k \in Keys \ DOMAIN overrides /\ Irreconcilable(k)
    BY <2>2, <2>4, CannotMeetStill, ReferenceIs DEF W
  <2>6. phase' = "conflict" /\ UNCHANGED <<doc, overrides>>
    BY <1>8 DEF Refuse
  <2>7. k \in Keys' \ DOMAIN overrides' /\ Irreconcilable(k)'
    BY <2>5, <2>6 DEF Keys, Irreconcilable, Bindings
  <2>8. ConflictsAreReal'
    BY <2>6, <2>7 DEF ConflictsAreReal, Merged, Packed
  <2> QED BY <2>6, <2>8 DEF RulesOK, Merged, Packed
<1>9. CASE /\ both.clash = {} /\ acc' = both /\ left' = left \ {id}
           /\ UNCHANGED <<doc, overrides, phase, queue, bins, links, parent>>
  <2>1. Folded' = Folded \cup {id}
    BY <1>1, <1>9 DEF Folded
  <2>2. ControlsOf(Folded') = C \cup D
    BY <2>1 DEF ControlsOf, C, D
  <2> HIDE DEF both
  <2>3. CarriesRules(acc', ControlsOf(Folded'), overrides') /\ acc'.clash = {}
    BY <1>7, <1>9, <2>2
  <2> QED BY <1>1, <1>9, <2>3 DEF RulesOK, Merged, Packed
<1> QED BY <1>8, <1>9 DEF Merge, next

LEMMA SlotPortsRules ==
  ASSUME CompileInv, SlotPorts
  PROVE  RulesOK'
<1> DEFINE f == acc.rules
           W == ControlsOf(Wanted(doc.profile))
<1>1. phase = "merge" /\ left = {} /\ Acceptable
  BY DEF SlotPorts, CompileInv, PolicyInv, LoadedOK
<1>2. Folded = Wanted(doc.profile)
  BY <1>1 DEF Folded
<1>3. /\ RulesCarry(f, acc.applied, {}, W, overrides) /\ Form(acc)
  BY <1>1, <1>2 DEF CompileInv, PolicyInv, RulesOK, CombinedOK, CarriesRules
<1>4. \A k : BindingsIn(W, k) \in SUBSET Parameter
  BY <1>1, CatalogBinds, BindingsOfBoth
<1> HIDE DEF f, W
<1>5. /\ DOMAIN f = KeysOf(W) /\ \A k \in DOMAIN f : f[k] \in Parameter
      /\ acc.applied \subseteq DOMAIN overrides
      /\ \A k \in DOMAIN f \ acc.applied : IsMeet(f[k], BindingsIn(W, k))
  BY <1>3 DEF RulesCarry
<1>6. acc.applied \cap Slots = {} =>
         /\ PortClash(f) <=> TooMany(W)
         /\ ~TooMany(W) => BlockedPorts(f) = PortsOf(W)
  BY <1>3, PortsAre
<1>7. CASE PortClash(f) /\ Refuse("conflict")
  <2>1. phase' = "conflict" /\ UNCHANGED <<doc, overrides>>
    BY <1>7 DEF Refuse
  <2>2. ASSUME DOMAIN overrides \cap Slots = {} PROVE TooManyPorts
    BY <1>5, <1>6, <1>7, <2>2, ReferenceIs DEF W
  <2>3. TooManyPorts' <=> TooManyPorts
    BY <2>1 DEF TooManyPorts, Bindings
  <2>4. ConflictsAreReal'
    BY <2>1, <2>2, <2>3 DEF ConflictsAreReal, Merged, Packed
  <2> QED BY <2>1, <2>4 DEF RulesOK, Merged, Packed
<1>8. CASE /\ ~PortClash(f) /\ acc' = [acc EXCEPT !.rules = ReSlot(f)] /\ phase' = "narrow"
           /\ UNCHANGED <<doc, overrides, left, queue, bins, links, parent>>
  <2> DEFINE g == ReSlot(f)
  <2>1. /\ BlockedPorts(g) = BlockedPorts(f)
        /\ \A k \in DOMAIN f \ Slots : k \in DOMAIN g /\ g[k] = f[k]
    BY <1>5, <1>8, ReSlotIs
  <2> HIDE DEF g
  <2>2. acc' = [acc EXCEPT !.rules = g]
    BY <1>8 DEF g
  <2>3. acc'.rules = g /\ acc'.applied = acc.applied
    BY <1>3, <2>2 DEF Form
  <2>4. \A k \in KeysOf(W) \ Slots :
           /\ k \in DOMAIN g /\ g[k] \in Parameter
           /\ k \notin acc.applied => IsMeet(g[k], BindingsIn(W, k))
    BY <1>5, <2>1
  <2>5. \A k \in KeysOf(W) \ DOMAIN overrides : ~CannotMeet(BindingsIn(W, k))
    BY <1>4, <1>5, MeetingCan
  <2>6. acc.applied \cap Slots = {} => ~TooMany(W) /\ BlockedPorts(g) = PortsOf(W)
    BY <1>6, <1>8, <2>1
  <2>7. RulesMeet(acc', W, overrides)
    BY <1>5, <2>3, <2>4, <2>5, <2>6 DEF RulesMeet
  <2>8. RulesMeet(acc', ControlsOf(Wanted(doc'.profile)), overrides')
    BY <1>8, <2>7 DEF W
  <2> QED BY <1>8, <2>8 DEF RulesOK, Merged, Packed
<1> QED BY <1>7, <1>8 DEF SlotPorts, f

\* The steps that leave the rule parameters alone.
LEMMA OtherRules ==
  ASSUME CompileInv,
         Load \/ Narrow \/ Render \/ Fit \/ (\E st \in queue : Place(st)) \/ Pack
           \/ (\E l \in links : Union(l)) \/ Group \/ RenderTemplate \/ UNCHANGED vars
  PROVE  RulesOK'
<1>1. CASE Load
  <2>1. CASE Refuse("refused")
    BY <2>1 DEF Refuse, RulesOK, Merged, Packed
  <2>2. CASE /\ Acceptable /\ phase' = "merge" /\ left' = Wanted(doc.profile)
             /\ UNCHANGED <<doc, overrides, acc, queue, bins, links, parent>>
    <3>1. acc' = Nothing
      BY <1>1, <2>2 DEF Load, CompileInv, PolicyInv, LoadedOK
    <3>2. ControlsOf(Folded') = {}
      BY <2>2 DEF Folded, ControlsOf
    <3>3. CarriesRules(Nothing, {}, overrides') /\ Nothing.clash = {}
      <4>1. Nothing.rules = <<>> /\ Nothing.applied = {} /\ Nothing.clash = {}
        BY DEF Nothing
      <4>2. <<>> = [k \in DOMAIN <<>> |-> <<>>[k]] /\ DOMAIN <<>> = {}
        OBVIOUS
      <4>3. KeysOf({}) = {}
        BY DEF KeysOf
      <4> QED BY <4>1, <4>2, <4>3 DEF CarriesRules, RulesCarry
    <3> QED BY <2>2, <3>1, <3>2, <3>3 DEF RulesOK, Merged, Packed
  <2> QED BY <1>1, <2>1, <2>2 DEF Load
<1>2. CASE Narrow
  <2>1. CASE Refuse("refused")
    BY <2>1 DEF Refuse, RulesOK, Merged, Packed
  <2>2. CASE ~Refuse("refused")
    <3> DEFINE r == Intersect(acc.regions, Asked(doc.profile.regions))
               v == Intersect(acc.services, Asked(doc.profile.services))
    <3>1. /\ phase = "narrow" /\ phase' = "render" /\ UNCHANGED <<doc, overrides>>
          /\ acc' = [acc EXCEPT !.regions = r, !.services = v]
      BY <1>2, <2>2 DEF Narrow
    <3>2. Form(acc) /\ RulesMeet(acc, ControlsOf(Wanted(doc.profile)), overrides)
      BY <3>1 DEF CompileInv, PolicyInv, CombinedOK, RulesOK, Merged
    <3> HIDE DEF r, v
    <3>3. acc'.rules = acc.rules /\ acc'.applied = acc.applied
      BY <3>1, <3>2 DEF Form
    <3>4. RulesMeet(acc', ControlsOf(Wanted(doc'.profile)), overrides')
      BY <3>1, <3>2, <3>3 DEF RulesMeet
    <3> QED BY <3>1, <3>4 DEF RulesOK, Merged, Packed
  <2> QED BY <2>1, <2>2
<1>3. CASE Render \/ Fit \/ (\E st \in queue : Place(st)) \/ Pack \/ (\E l \in links : Union(l)) \/ Group
  <2>1. /\ phase \in {"render", "fit", "place", "group"}
        /\ phase' \in {"refused", "render", "fit", "place", "group", "pack"}
        /\ UNCHANGED <<doc, overrides, acc>>
    BY <1>3 DEF Render, Fit, Place, Pack, Union, Group, Refuse
  <2>2. RulesMeet(acc, ControlsOf(Wanted(doc.profile)), overrides)
    BY <2>1 DEF CompileInv, RulesOK, Merged, Packed
  <2>3. RulesMeet(acc', ControlsOf(Wanted(doc'.profile)), overrides')
    BY <2>1, <2>2
  <2> QED BY <2>1, <2>3 DEF RulesOK
<1>4. CASE RenderTemplate
  <2>1. /\ phase = "pack" /\ phase' \in {"refused", "done"} /\ UNCHANGED <<doc, overrides, acc>>
        /\ phase' = "done" => ~Undeployable(acc.rules)
    BY <1>4 DEF RenderTemplate, Refuse
  <2>2. RulesMeet(acc, ControlsOf(Wanted(doc.profile)), overrides)
    BY <2>1 DEF CompileInv, RulesOK, Merged, Packed
  <2>3. RulesMeet(acc', ControlsOf(Wanted(doc'.profile)), overrides')
    BY <2>1, <2>2
  <2> QED BY <2>1, <2>3 DEF RulesOK
<1>5. CASE UNCHANGED vars
  <2>1. UNCHANGED <<doc, overrides, phase, left, acc>>
    BY <1>5 DEF vars
  <2>2. ConflictsAreReal => ConflictsAreReal'
    <3>1. Keys' = Keys
      BY <2>1 DEF Keys
    <3>2. \A k : Irreconcilable(k)' <=> Irreconcilable(k)
      BY <2>1 DEF Irreconcilable, Bindings
    <3>3. TooManyPorts' <=> TooManyPorts
      BY <2>1 DEF TooManyPorts, Bindings
    <3>4. Merged' <=> Merged
      BY <2>1 DEF Merged, Packed
    <3> QED BY <2>1, <3>1, <3>2, <3>3, <3>4 DEF ConflictsAreReal
  <2> QED BY <2>1, <2>2 DEF CompileInv, RulesOK, Merged, Packed, Folded
<1> QED BY <1>1, <1>2, <1>3, <1>4, <1>5

\* The inductive invariant of the compile.
THEOREM Invariant == Spec => []CompileInv
<1>1. Init => CompileInv
  BY DEF Init, CompileInv, PolicyInv, LoadedOK, CombinedOK, PackedOK, RulesOK, Merged, Bounded, Packed
<1>2. CompileInv /\ [Next]_vars => CompileInv'
  <2> SUFFICES ASSUME CompileInv, [Next]_vars PROVE CompileInv'
    OBVIOUS
  <2>1. PolicyInv'
    BY PolicyStep DEF CompileInv
  <2>2. RulesOK'
    BY MergeRules, SlotPortsRules, OtherRules DEF Next, Step, Done
  <2> QED BY <2>1, <2>2 DEF CompileInv
<1> QED BY <1>1, <1>2, PTL DEF Spec

LEMMA PermitExactly ==
  ASSUME CompileInv
  PROVE  RulesPermitExactly
<1> SUFFICES ASSUME Merged PROVE RulesPermitExactly
  BY DEF RulesPermitExactly
<1> DEFINE W == ControlsOf(Wanted(doc.profile))
<1>1. RulesMeet(acc, W, overrides) /\ Acceptable
  BY DEF CompileInv, RulesOK, PolicyInv, LoadedOK
<1>2. \A k : BindingsIn(W, k) \in SUBSET Parameter
  BY <1>1, CatalogBinds, BindingsOfBoth
<1>3. Keys = KeysOf(W) /\ \A k : Bindings(k) = BindingsIn(W, k)
  BY ReferenceIs
<1> HIDE DEF W
<1>4. ASSUME NEW k \in Keys \ (Slots \cup acc.applied)
      PROVE  /\ k \in DOMAIN acc.rules
             /\ \A v \in Values : Permits(acc.rules[k], v) <=> \A p \in Bindings(k) : Permits(p, v)
  <2>1. /\ k \in DOMAIN acc.rules /\ acc.rules[k] \in Parameter
        /\ IsMeet(acc.rules[k], BindingsIn(W, k))
    BY <1>1, <1>3 DEF RulesMeet
  <2> QED BY <1>2, <1>3, <2>1, MeetPermits
<1>5. Slots \cap acc.applied = {} =>
        BlockedPorts(acc.rules) = UNION {UNION {p.value : p \in Bindings(k)} : k \in Slots}
  <2>1. acc.applied \cap Slots = {} => BlockedPorts(acc.rules) = PortsOf(W)
    BY <1>1 DEF RulesMeet
  <2>2. PortsOf(W) = UNION {UNION {p.value : p \in Bindings(k)} : k \in Slots}
    BY <1>3 DEF PortsOf
  <2> QED BY <2>1, <2>2
<1>6. ASSUME phase = "done", NEW k \in DOMAIN acc.rules
      PROVE  Inputs(acc.rules)[Input(k)] = acc.rules[k].value
  <2> DEFINE f == acc.rules
             which == CHOOSE key \in DOMAIN f : Input(key) = Input(k)
  <2>1. \A key \in DOMAIN f : Input(key) = Input(k) => key = k
    BY <1>6 DEF CompileInv, RulesOK, Undeployable
  <2>2. which = k
    BY <2>1
  <2>3. Inputs(f)[Input(k)] = f[which].value
    BY DEF Inputs
  <2> QED BY <2>2, <2>3
<1> QED BY <1>4, <1>5, <1>6 DEF RulesPermitExactly

\* A merged parameter permits exactly what every control set permits, no prohibited port
\* is lost, and the conformance pack is given each parameter (addOneConfigRule,
\* combineConfigRules, reSlotBlockedPorts, RenderConformancePackTemplate).
THEOREM RulesHold == Spec => []RulesPermitExactly
BY Invariant, PermitExactly, PTL

LEMMA RealConflicts ==
  ASSUME CompileInv
  PROVE  ConflictsAreReal
<1>1. phase = "conflict" => ConflictsAreReal
  BY DEF CompileInv, RulesOK
<1>2. ASSUME Merged, DOMAIN overrides \cap Slots = {}
      PROVE  /\ \A k \in Keys \ DOMAIN overrides : ~Irreconcilable(k)
             /\ ~TooManyPorts
  <2>1. RulesMeet(acc, ControlsOf(Wanted(doc.profile)), overrides)
    BY <1>2 DEF CompileInv, RulesOK
  <2> QED BY <1>2, <2>1, ReferenceIs DEF RulesMeet
<1> QED BY <1>1, <1>2 DEF ConflictsAreReal

\* A compile refused for a conflict has one, in parameters no override names, and one
\* that goes on has none, although two bindings at a time are compared and in any order
\* (Resolve, CombineWithOverrides).
THEOREM ConflictsHold == Spec => []ConflictsAreReal
BY Invariant, RealConflicts, PTL

--------------------------------------------------------------------------------
(* A forest, and the root of each of its nodes.                            *)

\* Every node has a parent, its own when it is a root, and nobody descends from itself.
Forest(S, p) ==
    /\ p \in [S -> S]
    /\ \E rank \in [S -> Nat] : \A n \in S : p[n] # n => rank[n] < rank[p[n]]

\* Find, of any forest.
FindIn(S, p, n) ==
    LET up[k \in 0..Cardinality(S)] == IF k = 0 THEN n ELSE p[up[k - 1]]
    IN  up[Cardinality(S)]

\* T has a node exactly when it has the parent of it.
Whole(T, S, p) == \A n \in S : n \in T <=> p[n] \in T

\* The way to the root: n, its parent, the parent of that.
Way(up, l, S, p, n) ==
    /\ up \in [0..l -> S] /\ up[0] = n
    /\ \A k \in 1..l : up[k] = p[up[k - 1]]

LEMMA FindIs ==
  ASSUME NEW S, IsFiniteSet(S), NEW p \in [S -> S], NEW n \in S
  PROVE  \E up : Way(up, Cardinality(S), S, p, n) /\ FindIn(S, p, n) = up[Cardinality(S)]
<1> DEFINE l == Cardinality(S)
           Step_(g, k) == IF k = 0 THEN n ELSE p[g[k - 1]]
           up == CHOOSE g : g = [k \in 0..l |-> Step_(g, k)]
<1>1. l \in Nat
  BY FS_CardinalityType
<1>2. FindIn(S, p, n) = up[l]
  BY DEF FindIn
<1>3. \A i \in Nat : \E g : g = [k \in 0..i |-> Step_(g, k)]
  <2> DEFINE P == {i \in Nat : \E g : g = [k \in 0..i |-> Step_(g, k)]}
  <2>1. 0 \in P
    <3>1. [k \in 0..0 |-> n] = [k \in 0..0 |-> Step_([j \in 0..0 |-> n], k)]
      OBVIOUS
    <3> QED BY <3>1
  <2>2. \A i \in Nat : i \in P => i + 1 \in P
    <3> SUFFICES ASSUME NEW i \in Nat, i \in P
                 PROVE  i + 1 \in P
      OBVIOUS
    <3>0. PICK g : g = [k \in 0..i |-> Step_(g, k)]
      OBVIOUS
    <3> HIDE DEF P
    <3> DEFINE h == [k \in 0..(i + 1) |-> IF k = i + 1 THEN Step_(g, i + 1) ELSE g[k]]
    <3>1. \A k \in 0..(i + 1) : h[k] = Step_(h, k)
      <4> SUFFICES ASSUME NEW k \in 0..(i + 1) PROVE h[k] = Step_(h, k)
        OBVIOUS
      <4>1. k # 0 => k - 1 \in 0..i /\ k - 1 # i + 1 /\ h[k - 1] = g[k - 1]
        OBVIOUS
      <4>2. Step_(h, k) = Step_(g, k)
        BY <4>1
      <4>3. k # i + 1 => k \in 0..i /\ g[k] = Step_(g, k)
        BY <3>0
      <4> QED BY <4>2, <4>3
    <3>2. h = [k \in 0..(i + 1) |-> Step_(h, k)]
      BY <3>1
    <3> HIDE DEF h
    <3>3. \E f : f = [k \in 0..(i + 1) |-> Step_(f, k)]
      BY <3>2
    <3> QED BY <3>3 DEF P
  <2> HIDE DEF P
  <2>3. P = Nat
    BY <2>1, <2>2, Induction DEF P
  <2> QED BY <2>3 DEF P
<1>4. up = [k \in 0..l |-> Step_(up, k)]
  BY <1>1, <1>3
<1> HIDE DEF up
<1>5. \A k \in 0..l : up[k] = Step_(up, k)
  BY <1>4
<1>6. up[0] = n /\ \A k \in 1..l : up[k] = p[up[k - 1]]
  BY <1>1, <1>5
<1>7. \A k \in 0..l : up[k] \in S
  <2> DEFINE P == {k \in Nat : k <= l => up[k] \in S}
  <2>1. 0 \in P
    BY <1>6
  <2>2. ASSUME NEW k \in Nat, k \in P PROVE k + 1 \in P
    <3>1. CASE k + 1 <= l
      <4>1. up[k] \in S /\ k + 1 \in 1..l /\ (k + 1) - 1 = k
        BY <1>1, <2>2, <3>1
      <4> QED BY <1>6, <4>1
    <3>2. CASE ~ (k + 1 <= l)
      BY <3>2
    <3> QED BY <3>1, <3>2
  <2> HIDE DEF P
  <2>3. P = Nat
    BY <2>1, <2>2, Induction DEF P
  <2> QED BY <1>1, <2>3 DEF P
<1>8. up \in [0..l -> S]
  <2>1. up = [k \in 0..l |-> up[k]]
    BY <1>4
  <2> QED BY <1>7, <2>1
<1> QED BY <1>2, <1>6, <1>8 DEF Way

\* From the first node on, a way stays in a set that is whole, and from a root on, there.
LEMMA WayIn ==
  ASSUME NEW S, NEW p \in [S -> S], NEW n \in S, NEW l \in Nat, NEW up, Way(up, l, S, p, n),
         NEW T, Whole(T, S, p)
  PROVE  \A k \in 0..l : up[k] \in T <=> n \in T
<1> DEFINE P == {k \in Nat : k <= l => (up[k] \in T <=> n \in T)}
<1>1. 0 \in P
  BY DEF Way
<1>2. ASSUME NEW k \in Nat, k \in P PROVE k + 1 \in P
  <2>1. CASE k + 1 <= l
    <3>1. k \in 0..l /\ k + 1 \in 1..l /\ (k + 1) - 1 = k
      BY <2>1
    <3>2. up[k] \in S /\ up[k + 1] = p[up[k]]
      BY <3>1 DEF Way
    <3>3. up[k] \in T <=> up[k + 1] \in T
      BY <3>2 DEF Whole
    <3> QED BY <1>2, <3>1, <3>3
  <2>2. CASE ~ (k + 1 <= l)
    BY <2>2
  <2> QED BY <2>1, <2>2
<1> HIDE DEF P
<1>3. P = Nat
  BY <1>1, <1>2, Induction DEF P
<1> QED BY <1>3 DEF P

LEMMA WayRests ==
  ASSUME NEW S, NEW p \in [S -> S], NEW n \in S, NEW l \in Nat, NEW up, Way(up, l, S, p, n),
         NEW i \in 0..l, p[up[i]] = up[i]
  PROVE  up[l] = up[i]
<1> DEFINE P == {k \in Nat : i + k <= l => up[i + k] = up[i]}
<1>1. 0 \in P
  OBVIOUS
<1>2. ASSUME NEW k \in Nat, k \in P PROVE k + 1 \in P
  <2>1. CASE i + k + 1 <= l
    <3>1. i + (k + 1) \in 1..l /\ (i + (k + 1)) - 1 = i + k
      BY <2>1
    <3>2. up[i + (k + 1)] = p[up[i + k]]
      BY <3>1 DEF Way
    <3>3. up[i + k] = up[i]
      BY <1>2, <2>1
    <3> QED BY <3>2, <3>3
  <2>2. CASE ~ (i + k + 1 <= l)
    BY <2>2
  <2> QED BY <2>1, <2>2
<1> HIDE DEF P
<1>3. P = Nat
  BY <1>1, <1>2, Induction DEF P
<1>4. l - i \in P /\ i + (l - i) = l
  BY <1>3
<1> QED BY <1>4 DEF P

\* On the way the rank never falls.
LEMMA WayClimbs ==
  ASSUME NEW S, NEW p \in [S -> S], NEW n \in S, NEW l \in Nat, NEW up, Way(up, l, S, p, n),
         NEW rank \in [S -> Nat], \A m \in S : p[m] # m => rank[m] < rank[p[m]]
  PROVE  \A i, j \in 0..l : i <= j => rank[up[i]] <= rank[up[j]]
<1> SUFFICES ASSUME NEW i \in 0..l
             PROVE  \A j \in 0..l : i <= j => rank[up[i]] <= rank[up[j]]
  OBVIOUS
<1> DEFINE P == {k \in Nat : i + k <= l => rank[up[i]] <= rank[up[i + k]]}
<1>0. \A k \in 0..l : up[k] \in S /\ rank[up[k]] \in Nat
  BY DEF Way
<1>1. 0 \in P
  BY <1>0
<1>2. ASSUME NEW k \in Nat, k \in P PROVE k + 1 \in P
  <2>1. CASE i + k + 1 <= l
    <3>1. i + k \in 0..l /\ i + (k + 1) \in 1..l /\ i + (k + 1) \in 0..l /\ (i + (k + 1)) - 1 = i + k
      BY <2>1
    <3>2. up[i + (k + 1)] = p[up[i + k]]
      BY <3>1 DEF Way
    <3>3. rank[up[i + k]] <= rank[up[i + (k + 1)]]
      BY <1>0, <3>1, <3>2
    <3>4. rank[up[i]] <= rank[up[i + k]]
      BY <1>2, <2>1
    <3>5. rank[up[i]] <= rank[up[i + (k + 1)]]
      BY <1>0, <3>1, <3>3, <3>4
    <3> QED BY <3>5
  <2>2. CASE ~ (i + k + 1 <= l)
    BY <2>2
  <2> QED BY <2>1, <2>2
<1> HIDE DEF P
<1>3. P = Nat
  BY <1>1, <1>2, Induction DEF P
<1>4. ASSUME NEW j \in 0..l, i <= j PROVE rank[up[i]] <= rank[up[j]]
  <2>1. j - i \in P /\ i + (j - i) = j
    BY <1>3, <1>4
  <2> QED BY <2>1 DEF P
<1> QED BY <1>4

\* The way is longer than there are nodes, so it comes twice to one of them: a root.
LEMMA FindRoot ==
  ASSUME NEW S, IsFiniteSet(S), NEW p, Forest(S, p), NEW n \in S
  PROVE  FindIn(S, p, n) \in S /\ p[FindIn(S, p, n)] = FindIn(S, p, n)
<1> DEFINE l == Cardinality(S)
<1>1. l \in Nat
  BY FS_CardinalityType
<1>2. p \in [S -> S]
  BY DEF Forest
<1>3. PICK up : Way(up, l, S, p, n) /\ FindIn(S, p, n) = up[l]
  BY <1>2, FindIs
<1>4. PICK rank \in [S -> Nat] : \A m \in S : p[m] # m => rank[m] < rank[p[m]]
  BY DEF Forest
<1>5. \E i, j \in 0..l : i # j /\ up[i] = up[j]
  <2>1. IsFiniteSet(0..l) /\ Cardinality(0..l) = l + 1
    BY <1>1, FS_Interval
  <2>2. up \in [0..l -> S]
    BY <1>3 DEF Way
  <2> QED BY <1>1, <2>1, <2>2, FS_PigeonHole
<1> HIDE DEF l
<1>6. PICK i \in 0..l, j \in 0..l : i < j /\ up[i] = up[j]
  BY <1>1, <1>5
<1>7. p[up[i]] = up[i]
  <2>1. i + 1 \in 1..l /\ i + 1 \in 0..l /\ (i + 1) - 1 = i /\ i + 1 <= j
    BY <1>1, <1>6
  <2>2. up[i] \in S /\ up[i + 1] \in S /\ up[i + 1] = p[up[i]]
    BY <1>3, <2>1 DEF Way
  <2>3. rank[up[i + 1]] <= rank[up[j]]
    BY <1>1, <1>2, <1>3, <1>4, <2>1, WayClimbs
  <2>4. rank[up[i]] \in Nat /\ rank[up[i + 1]] \in Nat /\ rank[up[j]] = rank[up[i]]
    BY <1>6, <2>2
  <2>5. ~ (rank[up[i]] < rank[p[up[i]]])
    BY <2>2, <2>3, <2>4
  <2> QED BY <1>4, <2>2, <2>5
<1>8. up[l] = up[i]
  BY <1>1, <1>2, <1>3, <1>7, WayRests
<1>9. up[i] \in S
  BY <1>3 DEF Way
<1> QED BY <1>3, <1>7, <1>8, <1>9

\* The root of a node is the root of its parent, and in the same whole sets.
LEMMA RootsAgree ==
  ASSUME NEW S, IsFiniteSet(S), NEW p, Forest(S, p)
  PROVE  /\ \A n \in S : FindIn(S, p, p[n]) = FindIn(S, p, n)
         /\ \A n \in S : p[n] = n => FindIn(S, p, n) = n
         /\ \A T : \A n \in S : Whole(T, S, p) => (n \in T <=> FindIn(S, p, n) \in T)
<1> DEFINE l == Cardinality(S)
<1>1. l \in Nat /\ p \in [S -> S]
  BY FS_CardinalityType DEF Forest
<1>2. ASSUME NEW n \in S PROVE FindIn(S, p, p[n]) = FindIn(S, p, n)
  <2>1. PICK up : Way(up, l, S, p, n) /\ FindIn(S, p, n) = up[l]
    BY <1>1, FindIs
  <2>2. PICK over : Way(over, l, S, p, p[n]) /\ FindIn(S, p, p[n]) = over[l]
    BY <1>1, FindIs
  <2>3. p[up[l]] = up[l]
    BY <2>1, FindRoot
  <2> HIDE DEF l
  <2> DEFINE P == {k \in Nat : k <= l => over[k] = p[up[k]]}
  <2>4. 0 \in P
    BY <2>1, <2>2 DEF Way
  <2>5. ASSUME NEW k \in Nat, k \in P PROVE k + 1 \in P
    <3>1. CASE k + 1 <= l
      <4>1. k + 1 \in 1..l /\ (k + 1) - 1 = k
        BY <1>1, <3>1
      <4>2. over[k + 1] = p[over[k]] /\ up[k + 1] = p[up[k]]
        BY <2>1, <2>2, <4>1 DEF Way
      <4>3. over[k] = p[up[k]]
        BY <1>1, <2>5, <3>1
      <4> QED BY <4>2, <4>3
    <3>2. CASE ~ (k + 1 <= l)
      BY <3>2
    <3> QED BY <3>1, <3>2
  <2> HIDE DEF P
  <2>6. P = Nat
    BY <2>4, <2>5, Induction DEF P
  <2>7. over[l] = p[up[l]]
    BY <1>1, <2>6 DEF P
  <2> QED BY <2>1, <2>2, <2>3, <2>7
<1>3. ASSUME NEW n \in S, p[n] = n PROVE FindIn(S, p, n) = n
  <2>1. PICK up : Way(up, l, S, p, n) /\ FindIn(S, p, n) = up[l]
    BY <1>1, FindIs
  <2>2. 0 \in 0..l /\ up[0] = n
    BY <1>1, <2>1 DEF Way
  <2> HIDE DEF l
  <2>3. up[l] = up[0]
    BY <1>1, <1>3, <2>1, <2>2, WayRests
  <2> QED BY <2>1, <2>2, <2>3
<1>4. ASSUME NEW n \in S, NEW T, Whole(T, S, p) PROVE n \in T <=> FindIn(S, p, n) \in T
  <2>1. PICK up : Way(up, l, S, p, n) /\ FindIn(S, p, n) = up[l]
    BY <1>1, FindIs
  <2>2. l \in 0..l
    BY <1>1
  <2> HIDE DEF l
  <2>3. up[l] \in T <=> n \in T
    BY <1>1, <1>4, <2>1, <2>2, WayIn
  <2> QED BY <2>1, <2>3
<1> QED BY <1>2, <1>3, <1>4

\* What has the root of a in p has the root of b in q, and the rest keep theirs.
Joins(S, p, q, a, b) ==
    \A n \in S :
       /\ FindIn(S, p, n) = FindIn(S, p, a) => FindIn(S, q, n) = FindIn(S, p, b)
       /\ FindIn(S, p, n) # FindIn(S, p, a) => FindIn(S, q, n) = FindIn(S, p, n)

\* Linking the root of a to the root of b leaves a forest, in which what had the one root
\* has the other.
LEMMA UnionIs ==
  ASSUME NEW S, IsFiniteSet(S), NEW p, Forest(S, p), NEW a \in S, NEW b \in S,
         NEW q, q = [p EXCEPT ![FindIn(S, p, a)] = FindIn(S, p, b)]
  PROVE  Forest(S, q) /\ Joins(S, p, q, a, b)
<1> DEFINE ra == FindIn(S, p, a)
           rb == FindIn(S, p, b)
           Goes(n) == IF FindIn(S, p, n) = ra THEN rb ELSE FindIn(S, p, n)
<1>q. q = [p EXCEPT ![ra] = rb]
  OBVIOUS
<1>1. p \in [S -> S]
  BY DEF Forest
<1>2. ra \in S /\ p[ra] = ra /\ rb \in S /\ p[rb] = rb
  BY FindRoot
<1>3. FindIn(S, p, ra) = ra /\ FindIn(S, p, rb) = rb
  BY <1>2, RootsAgree
<1>f. \A n \in S : FindIn(S, p, n) \in S /\ p[FindIn(S, p, n)] = FindIn(S, p, n)
                   /\ FindIn(S, p, FindIn(S, p, n)) = FindIn(S, p, n)
                   /\ FindIn(S, p, p[n]) = FindIn(S, p, n)
  BY FindRoot, RootsAgree
<1>4. CASE ra = rb
  <2>1. q = p
    BY <1>1, <1>2, <1>4
  <2>2. \A n \in S : Goes(n) = FindIn(S, p, n)
    BY <1>4
  <2> QED BY <2>1, <2>2 DEF Joins
<1>5. CASE ra # rb
  <2> HIDE DEF ra, rb
  <2>1. q \in [S -> S] /\ q[ra] = rb /\ \A n \in S \ {ra} : q[n] = p[n]
    BY <1>1, <1>2, <1>q
  <2>2. Forest(S, q)
    <3>1. PICK rank \in [S -> Nat] : \A n \in S : p[n] # n => rank[n] < rank[p[n]]
      BY DEF Forest
    <3> DEFINE higher == [rank EXCEPT ![rb] = rank[rb] + rank[ra] + 1]
    <3>2. higher \in [S -> Nat] /\ higher[rb] = rank[rb] + rank[ra] + 1
          /\ \A n \in S \ {rb} : higher[n] = rank[n]
      BY <1>2, <3>1
    <3> HIDE DEF higher
    <3>3. ASSUME NEW n \in S, q[n] # n PROVE higher[n] < higher[q[n]]
      <4>1. CASE n = ra
        BY <1>2, <1>5, <2>1, <3>1, <3>2, <4>1
      <4>2. CASE n # ra
        <5>1. q[n] = p[n] /\ p[n] # n /\ n # rb
          BY <1>2, <2>1, <3>3, <4>2
        <5>2. rank[n] < rank[p[n]] /\ higher[n] = rank[n] /\ p[n] \in S
          BY <1>1, <3>1, <3>2, <5>1
        <5>3. rank[p[n]] \in Nat /\ rank[ra] \in Nat /\ rank[rb] \in Nat /\ rank[n] \in Nat
          BY <1>2, <3>1, <5>2
        <5>4. higher[p[n]] >= rank[p[n]]
          BY <3>2, <5>2, <5>3
        <5>5. higher[p[n]] \in Nat
          BY <3>2, <5>2
        <5> QED BY <5>1, <5>2, <5>3, <5>4, <5>5
      <4> QED BY <4>1, <4>2
    <3> QED BY <2>1, <3>2, <3>3 DEF Forest
  <2>3. ASSUME NEW n \in S PROVE FindIn(S, q, n) = Goes(n)
    <3> DEFINE T == {m \in S : Goes(m) = Goes(n)}
               s == FindIn(S, q, n)
    <3>1. Goes(ra) = rb /\ Goes(rb) = rb
      BY <1>3, <1>5
    <3>2. \A m \in S : Goes(q[m]) = Goes(m)
      <4> SUFFICES ASSUME NEW m \in S PROVE Goes(q[m]) = Goes(m)
        OBVIOUS
      <4>1. CASE m = ra
        BY <2>1, <3>1, <4>1
      <4>2. CASE m # ra
        BY <1>f, <2>1, <4>2
      <4> QED BY <4>1, <4>2
    <3>3. s \in S /\ q[s] = s
      BY <2>2, FindRoot
    <3>4. s \in T
      <4> HIDE DEF Goes
      <4>1. Whole(T, S, q)
        BY <2>1, <3>2 DEF Whole
      <4>2. n \in T
        OBVIOUS
      <4> HIDE DEF T
      <4> QED BY <2>2, <4>1, <4>2, RootsAgree
    <3>5. Goes(s) = Goes(n)
      BY <3>4
    <3> HIDE DEF s, T
    <3>6. s # ra
      BY <1>5, <2>1, <3>3
    <3>7. p[s] = s
      BY <2>1, <3>3, <3>6
    <3>8. FindIn(S, p, s) = s
      BY <3>3, <3>7, RootsAgree
    <3>9. Goes(s) = s
      BY <3>6, <3>8
    <3> QED BY <3>5, <3>9 DEF s
  <2> QED BY <2>2, <2>3 DEF ra, rb, Joins
<1> QED BY <1>4, <1>5

--------------------------------------------------------------------------------
(* The grouping of procedural controls.                                    *)

\* Whatever nodes share an entry with no other, a tree is all in them or all out; nodes
\* that cite one entry are in one tree, or a link will join them.
GroupOK ==
    phase = "group" =>
      /\ Forest(Nodes, parent)
      /\ links \subseteq Nodes \X Nodes
      /\ \A l \in links : Control(l[1]).pairs \cap Control(l[2]).pairs # {}
      /\ \A nodes \in SUBSET Nodes : Closed(nodes) => Whole(nodes, Nodes, parent)
      /\ \A pair \in Pairs : \E c \in Citing(pair) : \A m \in Citing(pair) :
            <<c, m>> \in links \/ FindIn(Nodes, parent, c) = FindIn(Nodes, parent, m)

LEMMA NodesFinite ==
  ASSUME Acceptable
  PROVE  IsFiniteSet(Nodes)
<1> DEFINE W == Wanted(doc.profile)
           at == [id \in W |-> {id} \X DOMAIN Artifacts[id].controls]
           lists == {at[id] : id \in W}
<1>1. IsFiniteSet(W)
  <2>1. W \in SUBSET Ids
    BY DEF Acceptable, Loads
  <2> QED BY <2>1, ArtifactsAssumption, FS_Subset
<1>2. ASSUME NEW id \in W PROVE IsFiniteSet(at[id])
  <2>1. Artifacts[id].controls \in Seq(Members(Artifacts[id].controls))
    BY CatalogIs
  <2>2. Len(Artifacts[id].controls) \in Nat
        /\ DOMAIN Artifacts[id].controls = 1..Len(Artifacts[id].controls)
    BY <2>1
  <2>3. IsFiniteSet(DOMAIN Artifacts[id].controls)
    BY <2>2, FS_Interval
  <2>4. IsFiniteSet({id})
    BY FS_Singleton
  <2>5. IsFiniteSet({id} \X DOMAIN Artifacts[id].controls)
    BY <2>3, <2>4, FS_Product
  <2> QED BY <2>5
<1>3. IsFiniteSet(lists)
  <2>1. at \in Surjection(W, lists)
    BY DEF Surjection
  <2> QED BY <1>1, <2>1, FS_Surjection
<1>4. \A list \in lists : IsFiniteSet(list)
  BY <1>2
<1>5. lists = {{id} \X DOMAIN Artifacts[id].controls : id \in W}
  OBVIOUS
<1> HIDE DEF lists
<1>6. IsFiniteSet(UNION lists)
  BY <1>3, <1>4, FS_UNION
<1>7. Nodes \in SUBSET (UNION lists)
  BY <1>5 DEF Nodes
<1> QED BY <1>6, <1>7, FS_Subset

LEMMA PackGroups ==
  ASSUME PolicyInv, Pack
  PROVE  GroupOK'
<1>1. CASE Refuse("refused")
  BY <1>1 DEF Refuse, GroupOK
<1>2. CASE phase' = "group"
  <2>1. /\ parent' = [n \in Nodes |-> n] /\ UNCHANGED doc
        /\ Acceptable
    BY <1>2 DEF Pack, Refuse, PolicyInv, LoadedOK, Merged
  <2>2. PICK first \in [Pairs -> Nodes] :
          /\ \A pair \in Pairs : first[pair] \in Citing(pair)
          /\ links' = UNION {{first[pair]} \X (Citing(pair) \ {first[pair]}) : pair \in Pairs}
    BY <1>2 DEF Pack, Refuse
  <2>3. Nodes' = Nodes /\ Pairs' = Pairs /\ \A pair : Citing(pair)' = Citing(pair)
    BY <2>1 DEF Pairs, Citing, Nodes, Control
  <2>4. \A n : Control(n)' = Control(n)
    BY DEF Control
  <2>5. Forest(Nodes, parent')
    <3>1. [n \in Nodes |-> 0] \in [Nodes -> Nat]
      OBVIOUS
    <3> QED BY <2>1, <3>1 DEF Forest
  <2>6. links' \subseteq Nodes \X Nodes
        /\ \A l \in links' : Control(l[1]).pairs \cap Control(l[2]).pairs # {}
    <3> SUFFICES ASSUME NEW l \in links'
                 PROVE  l \in Nodes \X Nodes /\ Control(l[1]).pairs \cap Control(l[2]).pairs # {}
      OBVIOUS
    <3>1. PICK pair \in Pairs : l \in {first[pair]} \X (Citing(pair) \ {first[pair]})
      BY <2>2
    <3>2. l[1] \in Citing(pair) /\ l[2] \in Citing(pair) /\ l = <<l[1], l[2]>>
      BY <2>2, <3>1
    <3> QED BY <3>2 DEF Citing
  <2>7. \A nodes \in SUBSET Nodes : Whole(nodes, Nodes, parent')
    BY <2>1 DEF Whole
  <2>8. ASSUME NEW pair \in Pairs
        PROVE  \E c \in Citing(pair) : \A m \in Citing(pair) :
                 <<c, m>> \in links' \/ FindIn(Nodes, parent', c) = FindIn(Nodes, parent', m)
    <3>1. first[pair] \in Citing(pair)
      BY <2>2
    <3>2. \A m \in Citing(pair) : m = first[pair] \/ <<first[pair], m>> \in links'
      BY <2>2
    <3> QED BY <3>1, <3>2
  <2>9. \A nodes : Closed(nodes)' <=> Closed(nodes)
    BY <2>3, <2>4 DEF Closed
  <2> QED BY <2>3, <2>4, <2>5, <2>6, <2>7, <2>8, <2>9 DEF GroupOK
<1> QED BY <1>1, <1>2 DEF Pack

LEMMA UnionGroups ==
  ASSUME PolicyInv, GroupOK, NEW l \in links, Union(l)
  PROVE  GroupOK'
<1> DEFINE a == l[1]
           b == l[2]
           ra == FindIn(Nodes, parent, a)
           rb == FindIn(Nodes, parent, b)
           q == [parent EXCEPT ![ra] = rb]
           Root(n) == FindIn(Nodes, parent, n)
<1>1. phase = "group" /\ UNCHANGED <<doc, phase>> /\ links' = links \ {l}
  BY DEF Union
<1>2. /\ Forest(Nodes, parent)
      /\ links \subseteq Nodes \X Nodes
      /\ \A k \in links : Control(k[1]).pairs \cap Control(k[2]).pairs # {}
      /\ \A nodes \in SUBSET Nodes : Closed(nodes) => Whole(nodes, Nodes, parent)
      /\ \A pair \in Pairs : \E c \in Citing(pair) : \A m \in Citing(pair) :
            <<c, m>> \in links \/ Root(c) = Root(m)
  BY <1>1 DEF GroupOK
<1>3. a \in Nodes /\ b \in Nodes /\ l = <<a, b>>
  BY <1>2
<1>4. IsFiniteSet(Nodes)
  BY <1>1, NodesFinite DEF PolicyInv, LoadedOK, Merged, Packed
<1>5. parent' = q
  BY DEF Union, Find, FindIn
<1>6. Nodes' = Nodes /\ Pairs' = Pairs /\ (\A pair : Citing(pair)' = Citing(pair))
      /\ \A n : Control(n)' = Control(n)
  BY <1>1 DEF Pairs, Citing, Nodes, Control
<1>7. /\ Forest(Nodes, q)
      /\ \A n \in Nodes : FindIn(Nodes, q, n) = IF Root(n) = ra THEN rb ELSE Root(n)
  <2> HIDE DEF q
  <2>1. q = [parent EXCEPT ![FindIn(Nodes, parent, a)] = FindIn(Nodes, parent, b)]
    BY DEF q
  <2>2. Forest(Nodes, parent)
    BY <1>2
  <2>3. a \in Nodes /\ b \in Nodes
    BY <1>3
  <2> HIDE DEF a, b
  <2>4. Forest(Nodes, q) /\ Joins(Nodes, parent, q, a, b)
    BY <1>4, <2>1, <2>2, <2>3, UnionIs
  <2>5. \A n \in Nodes :
           /\ Root(n) = ra => FindIn(Nodes, q, n) = rb
           /\ Root(n) # ra => FindIn(Nodes, q, n) = Root(n)
    BY <2>4 DEF Joins
  <2> HIDE DEF Root, ra, rb
  <2> QED BY <2>4, <2>5
<1>8. ASSUME NEW nodes \in SUBSET Nodes, Closed(nodes)
      PROVE  Whole(nodes, Nodes, q)
  <2>1. Whole(nodes, Nodes, parent) /\ parent \in [Nodes -> Nodes]
    BY <1>2, <1>8 DEF Forest
  <2>2. (a \in nodes <=> ra \in nodes) /\ (b \in nodes <=> rb \in nodes)
    BY <1>2, <1>3, <1>4, <2>1, RootsAgree
  <2>3. a \in nodes <=> b \in nodes
    BY <1>2, <1>3, <1>8 DEF Closed
  <2>4. ra \in Nodes
    BY <1>2, <1>3, <1>4, FindRoot
  <2> HIDE DEF ra, rb
  <2> QED BY <2>1, <2>2, <2>3, <2>4 DEF Whole
<1>9. ASSUME NEW pair \in Pairs
      PROVE  \E c \in Citing(pair) : \A m \in Citing(pair) :
               <<c, m>> \in links' \/ FindIn(Nodes, q, c) = FindIn(Nodes, q, m)
  <2>1. PICK c \in Citing(pair) : \A m \in Citing(pair) : <<c, m>> \in links \/ Root(c) = Root(m)
    BY <1>2
  <2>2. Citing(pair) \subseteq Nodes
    BY DEF Citing
  <2> HIDE DEF q
  <2>3. ASSUME NEW m \in Citing(pair)
        PROVE  <<c, m>> \in links' \/ FindIn(Nodes, q, c) = FindIn(Nodes, q, m)
    <3>1. CASE Root(c) = Root(m)
      BY <1>7, <2>2, <3>1
    <3>2. CASE <<c, m>> \in links /\ <<c, m>> # l
      BY <1>1, <3>2
    <3>3. CASE <<c, m>> = l
      <4>1. c = a /\ m = b
        BY <1>3, <3>3
      <4>2. Root(c) = ra /\ Root(m) = rb
        BY <4>1
      <4> HIDE DEF Root, ra, rb
      <4> QED BY <1>7, <2>2, <4>2
    <3> QED BY <2>1, <3>1, <3>2, <3>3
  <2> QED BY <2>1, <2>3
<1>10. \A nodes : Closed(nodes)' <=> Closed(nodes)
  BY <1>6 DEF Closed
<1>11. \A k \in links' : k \in Nodes \X Nodes /\ Control(k[1]).pairs \cap Control(k[2]).pairs # {}
  BY <1>1, <1>2
<1> HIDE DEF q
<1> QED BY <1>5, <1>6, <1>7, <1>8, <1>9, <1>10, <1>11 DEF GroupOK

LEMMA OtherGroups ==
  ASSUME GroupOK,
         \/ UNCHANGED vars \/ Load \/ (\E id \in left : Merge(id)) \/ SlotPorts \/ Narrow
         \/ Render \/ Fit \/ (\E st \in queue : Place(st)) \/ Group \/ RenderTemplate
  PROVE  GroupOK'
<1>1. CASE UNCHANGED vars
  <2>1. UNCHANGED <<doc, phase, links, parent>>
    BY <1>1 DEF vars
  <2>2. Nodes' = Nodes /\ Pairs' = Pairs /\ (\A pair : Citing(pair)' = Citing(pair))
        /\ \A n : Control(n)' = Control(n)
    BY <2>1 DEF Pairs, Citing, Nodes, Control
  <2>3. \A nodes : Closed(nodes)' <=> Closed(nodes)
    BY <2>2 DEF Closed
  <2> QED BY <2>1, <2>2, <2>3 DEF GroupOK
<1>2. CASE ~ UNCHANGED vars
  <2>1. phase' # "group"
    BY <1>2 DEF Load, Merge, SlotPorts, Narrow, Render, Fit, Place, Group, RenderTemplate, Refuse
  <2> QED BY <2>1 DEF GroupOK
<1> QED BY <1>1, <1>2

\* The inductive invariant of the grouping.
THEOREM GroupsInvariant == Spec => [](PolicyInv /\ GroupOK)
<1>1. Init => GroupOK
  BY DEF Init, GroupOK
<1>2. PolicyInv /\ GroupOK /\ [Next]_vars => GroupOK'
  BY PackGroups, UnionGroups, OtherGroups DEF Next, Step, Done
<1> QED BY <1>1, <1>2, PoliciesInvariant, PTL DEF Spec

LEMMA Components ==
  ASSUME PolicyInv, GroupOK
  PROVE  GroupsAreComponents
<1> SUFFICES ASSUME phase = "group", links = {}, NEW n \in Nodes, NEW m \in Nodes
             PROVE  Find(n) = Find(m) <=>
                      \A nodes \in {s \in SUBSET Nodes : Closed(s)} : n \in nodes => m \in nodes
  BY DEF GroupsAreComponents
<1> DEFINE Root(k) == FindIn(Nodes, parent, k)
<1>1. \A k : Find(k) = Root(k)
  BY DEF Find, FindIn
<1>2. IsFiniteSet(Nodes)
  BY NodesFinite DEF PolicyInv, LoadedOK, Merged, Packed
<1>3. /\ Forest(Nodes, parent)
      /\ \A nodes \in SUBSET Nodes : Closed(nodes) => Whole(nodes, Nodes, parent)
      /\ \A pair \in Pairs : \E c \in Citing(pair) : \A k \in Citing(pair) : Root(c) = Root(k)
  BY DEF GroupOK
<1>4. ASSUME Root(n) = Root(m), NEW nodes \in SUBSET Nodes, Closed(nodes), n \in nodes
      PROVE  m \in nodes
  <2>1. Whole(nodes, Nodes, parent)
    BY <1>3, <1>4
  <2>2. (n \in nodes <=> Root(n) \in nodes) /\ (m \in nodes <=> Root(m) \in nodes)
    BY <1>2, <1>3, <2>1, RootsAgree
  <2> HIDE DEF Root
  <2> QED BY <1>4, <2>2
<1>5. ASSUME \A nodes \in {s \in SUBSET Nodes : Closed(s)} : n \in nodes => m \in nodes
      PROVE  Root(n) = Root(m)
  <2> DEFINE tree == {k \in Nodes : Root(k) = Root(n)}
  <2>1. ASSUME NEW j \in tree, NEW k \in Nodes, Control(j).pairs \cap Control(k).pairs # {}
        PROVE  k \in tree
    <3>1. PICK pair : pair \in Control(j).pairs /\ pair \in Control(k).pairs
      BY <2>1
    <3>2. pair \in Pairs /\ j \in Citing(pair) /\ k \in Citing(pair)
      BY <3>1 DEF Pairs, Citing
    <3> HIDE DEF Root
    <3>3. Root(j) = Root(k)
      BY <1>3, <3>2
    <3> QED BY <3>3
  <2>2. Closed(tree)
    BY <2>1 DEF Closed
  <2>3. tree \in {s \in SUBSET Nodes : Closed(s)} /\ n \in tree
    BY <2>2
  <2>4. m \in tree
    BY <1>5, <2>3
  <2> QED BY <2>4
<1> HIDE DEF Root
<1> QED BY <1>1, <1>4, <1>5

\* Procedural controls are grouped exactly when a chain of shared crosswalk entries joins
\* them, in whatever order the union-find takes the entries (groupByCrosswalk).
THEOREM GroupsHold == Spec => []GroupsAreComponents
BY GroupsInvariant, Components, PTL

================================================================================
