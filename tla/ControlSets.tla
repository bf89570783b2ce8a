------------------------------ MODULE ControlSets ------------------------------
(***************************************************************************)
(* The algebra of control sets (internal/compilesets with the parameter    *)
(* orders of internal/artifact): deny statements and when they deny, how   *)
(* statements, allowlists, exemptions and Config-rule parameters of two    *)
(* control sets combine, what an override settles, and how the allowlists  *)
(* are read back from policies.  Everything here is a pure operator; the   *)
(* command that applies them is Compile.                                   *)
(***************************************************************************)
EXTENDS Integers, FiniteSets, Sequences

CONSTANTS
    Actions,        \* IAM actions; numbers, for the order of their names
    ServiceOf,      \* the service namespace of each action
    Regions,
    Principals,
    Automation,     \* the automation role a vend makes in the account
    Admin,          \* the one principal a condition of a control set names
    PortRule,       \* RESTRICTED_INCOMING_TRAFFIC
    PortSlots,      \* blockedPort1 .. blockedPort5
    Values,         \* what a parameter may hold: numbers, 0 is text that is none
    Logical,        \* the id of a rule's or parameter's name in a template
    MaxInputs,      \* maxConformancePackInputParameters
    Unrestricted    \* the nil allowlist: no bound of its own

Services == {ServiceOf[a] : a \in Actions}
Request  == [who: Principals, act: Actions, region: Regions, mfa: BOOLEAN]

ASSUME Vocabulary ==
    /\ Actions \subseteq Nat /\ IsFiniteSet(Actions)
    /\ ServiceOf \in [Actions -> Services]
    /\ {Automation, Admin} \subseteq Principals
    /\ PortSlots \in Seq(STRING)
    /\ \A i, j \in DOMAIN PortSlots : PortSlots[i] = PortSlots[j] => i = j
    /\ Values \subseteq Nat /\ IsFiniteSet(Values) /\ 0 \in Values
    /\ \A list \in (SUBSET Regions) \cup (SUBSET Services) : list # Unrestricted

--------------------------------------------------------------------------------
(***************************************************************************)
(* Statements.  A deny statement names actions; an allowlist rendered into *)
(* a policy (NotAction) denies all but the services it spares.             *)
(***************************************************************************)
Guard     == {"any", "noMfa", "notAdmin"}
Statement == [acts: SUBSET Actions, spared: SUBSET Services, in: SUBSET Regions,
              when: Guard, exempt: SUBSET Principals]

Deny(acts, when, exempt) ==
    [acts |-> acts, spared |-> {}, in |-> {}, when |-> when, exempt |-> exempt]

IsAllowlist(st) == st.acts = {}

\* The region condition is StringNotEquals aws:RequestedRegion; an allowlist with no
\* region condition bounds services.
ConditionMatches(st, q) ==
    /\ st.in # {} => q.region \notin st.in
    /\ st.when = "noMfa" => ~q.mfa
    /\ st.when = "notAdmin" => q.who # Admin

Denies(st, q) ==
    /\ IF IsAllowlist(st) THEN ServiceOf[q.act] \notin st.spared ELSE q.act \in st.acts
    /\ q.who \notin st.exempt
    /\ ConditionMatches(st, q)

\* A condition with a negative operator on aws:PrincipalArn, where exemptions go.
NegatesPrincipal(guard) == guard = "notAdmin"

\* Mutant of Exempt: a principal any statement exempts is exempt.
ExemptOfAny(stmts, guard, act) ==
    {p \in Principals : \E st \in stmts : st.when = guard /\ act \in st.acts /\ p \in st.exempt}

\* mergeStatements: per guard and action the exemptions intersect, and the actions
\* of one guard with the same exemptions make one statement.
Exempt(stmts, guard, act) ==
    {p \in Principals : \A st \in stmts : st.when = guard /\ act \in st.acts => p \in st.exempt}

\* guardGroup.statements.  The code also keeps apart actions whose exemptions give different
\* reasons, which the model does not carry: the statements are more, what they deny is this.
Grouped(stmts, guard) ==
    LET named == UNION {st.acts : st \in {s \in stmts : s.when = guard}}
    IN  {Deny({a \in named : Exempt(stmts, guard, a) = list}, guard, list) :
            list \in {Exempt(stmts, guard, a) : a \in named}}

NormalForm(stmts) == UNION {Grouped(stmts, guard) : guard \in {st.when : st \in stmts}}

--------------------------------------------------------------------------------
\* Allowlists: an absent one bounds nothing, an empty one permits nothing.
Intersect(a, b) ==
    IF a = Unrestricted THEN b ELSE IF b = Unrestricted THEN a ELSE a \cap b

--------------------------------------------------------------------------------
(***************************************************************************)
(* Config-rule parameters.  Each declares the order in which two values of *)
(* it compare: a ceiling (min), a floor (max), one value (exact), a set of *)
(* prohibited (set-union) or of permitted members (set-intersect).         *)
(***************************************************************************)
Sets      == {"set-union", "set-intersect"}
Orders    == {"min", "max", "exact"} \cup Sets
Parameter == [order: Orders \ Sets, value: Values, sep: {","}]
        \cup [order: Sets, value: SUBSET Values, sep: {",", ";"}]

\* Mutant of Resolve: of two bounds the looser one.
ResolveLooser(p, q) ==
    IF p.order # q.order THEN {} ELSE
    CASE p.order = "exact"            -> {r \in {p} : p.value = q.value}
      [] p.order \in {"min", "max"}   ->
            IF p.value = q.value THEN {p}
            ELSE IF 0 \in {p.value, q.value} THEN {}
            ELSE {IF (p.order = "min") = (p.value > q.value) THEN p ELSE q}
      [] p.order = "set-union"        ->
            {r \in {[p EXCEPT !.value = @ \cup q.value]} : p.sep = q.sep}
      [] p.order = "set-intersect"    ->
            {r \in {[p EXCEPT !.value = @ \cap q.value]} : p.sep = q.sep /\ r.value # {}}

\* Mutant of Resolve: sets with nothing in common intersect in the empty set.
ResolveEmpty(p, q) ==
    IF p.order # q.order THEN {} ELSE
    CASE p.order = "exact"            -> {r \in {p} : p.value = q.value}
      [] p.order \in {"min", "max"}   ->
            IF p.value = q.value THEN {p}
            ELSE IF 0 \in {p.value, q.value} THEN {}
            ELSE {IF (p.order = "min") = (p.value < q.value) THEN p ELSE q}
      [] p.order = "set-union"        ->
            {r \in {[p EXCEPT !.value = @ \cup q.value]} : p.sep = q.sep}
      [] p.order = "set-intersect"    ->
            {r \in {[p EXCEPT !.value = @ \cap q.value]} : p.sep = q.sep}

\* Resolve: the one value that satisfies both, or none.
Resolve(p, q) ==
    IF p.order # q.order THEN {} ELSE
    CASE p.order = "exact"            -> {r \in {p} : p.value = q.value}
      [] p.order \in {"min", "max"}   ->
            IF p.value = q.value THEN {p}
            ELSE IF 0 \in {p.value, q.value} THEN {}
            ELSE {IF (p.order = "min") = (p.value < q.value) THEN p ELSE q}
      [] p.order = "set-union"        ->
            {r \in {[p EXCEPT !.value = @ \cup q.value]} : p.sep = q.sep}
      [] p.order = "set-intersect"    ->
            {r \in {[p EXCEPT !.value = @ \cap q.value]} : p.sep = q.sep /\ r.value # {}}

Permits(p, c) ==
    CASE p.order = "exact"         -> c = p.value
      [] p.order = "min"           -> 0 \notin {c, p.value} /\ c <= p.value
      [] p.order = "max"           -> 0 \notin {c, p.value} /\ c >= p.value
      [] p.order = "set-union"     -> c \notin p.value
      [] p.order = "set-intersect" -> c \in p.value

\* An override is text, here the set of values it lists: the order that conflicted
\* decides how it is read (apply).
Override(p, listed) ==
    IF p.order \in Sets THEN [order |-> p.order, value |-> listed, sep |-> ","]
    ELSE [order |-> p.order, sep |-> ",",
          value |-> IF Cardinality(listed) = 1 THEN CHOOSE v \in listed : TRUE ELSE 0]

\* What two bindings of one parameter become, if anything.
Settle(key, p, q, overrides) ==
    IF Resolve(p, q) # {} THEN Resolve(p, q)
    ELSE {Override(p, overrides[k]) : k \in {key} \cap DOMAIN overrides}

\* overrideWideningWarnings: whether an applied override is warned about.
Widens(p, q, r) ==
    IF r.order \in Sets THEN \E c \in r.value : ~Permits(p, c) /\ ~Permits(q, c)
    ELSE ~Permits(p, r.value) /\ ~Permits(q, r.value)

--------------------------------------------------------------------------------
(***************************************************************************)
(* Control sets.  `rules' binds a parameter, a pair of rule and name.      *)
(***************************************************************************)
Nothing == [stmts |-> {}, regions |-> Unrestricted, services |-> Unrestricted,
            exempt |-> Unrestricted, rules |-> <<>>,
            applied |-> {}, warned |-> {}, clash |-> {}]

\* addOneConfigRule and combineConfigRules.
CombineRules(m, rules, overrides) ==
    LET shared == DOMAIN m.rules \cap DOMAIN rules
        Settled(k) == Settle(k, m.rules[k], rules[k], overrides)
        conflicts == {k \in shared : Resolve(m.rules[k], rules[k]) = {}}
        clash == {k \in shared : Settled(k) = {}}
        Joined(k) == IF k \in shared \ clash THEN CHOOSE p \in Settled(k) : TRUE
                     ELSE IF k \in DOMAIN m.rules THEN m.rules[k] ELSE rules[k]
    IN  [m EXCEPT !.rules = [k \in DOMAIN m.rules \cup DOMAIN rules |-> Joined(k)],
                  !.clash = @ \cup clash,
                  !.applied = @ \cup (conflicts \ clash),
                  !.warned = @ \cup {k \in conflicts \ clash :
                                       Widens(m.rules[k], rules[k], Joined(k))}]

\* addSCP and addConfigRules, for one control; an empty list is no bound.
Bound(list) == IF list = {} THEN Unrestricted ELSE list

AddControl(m, control, overrides) ==
    CombineRules([m EXCEPT !.stmts = @ \cup control.stmts,
                           !.regions = Intersect(@, Bound(control.regions)),
                           !.services = Intersect(@, Bound(control.services))],
                 control.rules, overrides)

FromArtifact(art, overrides) ==
    LET first[n \in 0..Len(art.controls)] ==
            IF n = 0 THEN Nothing ELSE AddControl(first[n - 1], art.controls[n], overrides)
    IN  [first[Len(art.controls)] EXCEPT !.stmts = NormalForm(@), !.exempt = art.exempt]

Combine(a, b, overrides) ==
    LET m == CombineRules(a, b.rules, overrides)
    IN  [m EXCEPT !.stmts = NormalForm(@ \cup b.stmts),
                  !.regions = Intersect(@, b.regions),
                  !.services = Intersect(@, b.services),
                  !.exempt = Intersect(@, b.exempt),
                  !.applied = @ \cup b.applied, !.warned = @ \cup b.warned,
                  !.clash = @ \cup b.clash]

\* reSlotBlockedPorts: the slots of the port rule hold one prohibited set, in order.
Slots == {<<PortRule, PortSlots[i]>> : i \in DOMAIN PortSlots}

BlockedPorts(rules) == UNION {rules[k].value : k \in Slots \cap DOMAIN rules}

PortClash(rules) ==
    \/ \E k \in Slots \cap DOMAIN rules : rules[k].order # "set-union"
    \/ Cardinality(BlockedPorts(rules)) > Len(PortSlots)

ReSlot(rules) ==
    LET ports == BlockedPorts(rules)
        Slot(port) == <<PortRule, PortSlots[Cardinality({o \in ports : o <= port})]>>
        In(k) == CHOOSE port \in ports : Slot(port) = k
        filled == {Slot(port) : port \in ports}
    IN  [k \in (DOMAIN rules \ Slots) \cup filled |->
           IF k \in filled THEN [order |-> "set-union", value |-> {In(k)}, sep |-> ","]
           ELSE rules[k]]

--------------------------------------------------------------------------------
(***************************************************************************)
(* The conformance pack (internal/baseline): a template with a resource    *)
(* for every rule, and an input for every parameter.                       *)
(***************************************************************************)
\* logicalID, paramLogicalID.
Input(key) == <<Logical[key[1]], Logical[key[2]]>>

\* The inputs given with the template; of two with one id, either.
Inputs(rules) ==
    [id \in {Input(key) : key \in DOMAIN rules} |->
        rules[CHOOSE key \in DOMAIN rules : Input(key) = id].value]

\* RenderConformancePackTemplate's refusals: two rules or two parameters with one id, or
\* more inputs than AWS takes.
Undeployable(rules) ==
    \/ \E k, l \in DOMAIN rules : k[1] # l[1] /\ Logical[k[1]] = Logical[l[1]]
    \/ \E k, l \in DOMAIN rules : k # l /\ Input(k) = Input(l)
    \/ Cardinality(DOMAIN rules) > MaxInputs

--------------------------------------------------------------------------------
(***************************************************************************)
(* Policies: the two allowlists as statements, and the way back.           *)
(***************************************************************************)
RegionStatement(regions, spared, exempt) ==
    [acts |-> {}, spared |-> spared, in |-> regions, when |-> "any", exempt |-> exempt]

ServiceStatement(services, spared, exempt) ==
    [acts |-> {}, spared |-> services \cup spared, in |-> {}, when |-> "any", exempt |-> exempt]

\* `roles' is the automation role, when its ARN is known.
Renderable(m, roles) ==
    m.stmts
    \cup (IF m.regions = Unrestricted THEN {} ELSE {RegionStatement(m.regions, m.exempt, roles)})
    \cup (IF m.services = Unrestricted THEN {} ELSE {ServiceStatement(m.services, m.exempt, roles)})

\* renderable's refusals: nothing permitted, or no list of the services with global
\* endpoints that an allowlist must spare.
Unrenderable(m) ==
    /\ {m.regions, m.services} # {Unrestricted}
    /\ m.exempt \in {Unrestricted, {}} \/ m.regions = {} \/ m.services = {}

\* ReadAllowlists over the statements of the attached policies.
ReadAllowlists(stmts) ==
    LET byRegion  == {st \in stmts : IsAllowlist(st) /\ st.in # {}}
        byService == {st \in stmts : IsAllowlist(st) /\ st.in = {}}
        Common(sets) == IF sets = {} THEN Unrestricted
                        ELSE {x \in UNION sets : \A s \in sets : x \in s}
        exempt == Common({st.spared : st \in byRegion})
        services == Common({st.spared : st \in byService})
    IN  [regions  |-> Common({st.in : st \in byRegion}),
         exempt   |-> IF exempt = Unrestricted THEN {} ELSE exempt,
         services |-> IF Unrestricted \in {services, exempt} THEN services
                      ELSE services \ exempt]

PermitsRegion(read, r)  == read.regions = Unrestricted \/ r \in read.regions
\* Mutant of PermitsService: the exemptions are forgotten.
PermitsListed(read, s) == read.services = Unrestricted \/ s \in read.services

PermitsService(read, s) == read.services = Unrestricted \/ s \in read.services \cup read.exempt

================================================================================
