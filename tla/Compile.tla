-------------------------------- MODULE Compile --------------------------------
(***************************************************************************)
(* From an environment profile to policies: what `vend' and `verify' make  *)
(* of the documents (cmd/automat: loadVendInput, loadVerifyInput, and what *)
(* runVendSteps renders and packs before it ensures it; internal/catalog,  *)
(* compilesets).  The command reads the documents, folds the control sets  *)
(* one by one, applies the profile's bounds, packs the statements into few *)
(* small policies, and groups the procedural controls into attestation     *)
(* stubs.  It is one process; what is open is what the documents say,      *)
(* which control set is folded first (ids sort, and any id may sort        *)
(* first), and the order of Go's maps.                                     *)
(***************************************************************************)
EXTENDS Documents, FiniteSetsExt

CONSTANTS
    Docs,           \* environment profile files: [whole, profile, signatures]
    OverrideFiles,  \* override files: a rule parameter -> the values listed
    Body, Envelope, \* the size of a statement with empty lists, of an empty policy
    Usable,         \* UsablePolicySize
    MaxPolicies     \* AvailablePolicySlots

\* What a file's text can say: the parts of a profile, lists of regions and services, and
\* of an override the values it lists.
ASSUME FilesAssumption ==
    /\ \A d \in Docs :
          /\ d.profile = [f \in DOMAIN d.profile |-> d.profile[f]]
          /\ {"controlSets", "regions", "services", "obligations", "enable", "disable"}
                \subseteq DOMAIN d.profile
          /\ d.profile.regions # Unrestricted => Members(d.profile.regions) \in SUBSET Regions
          /\ d.profile.services # Unrestricted => Members(d.profile.services) \in SUBSET Services
    /\ \A o \in OverrideFiles : \A k \in DOMAIN o : o[k] \in SUBSET Values

VARIABLES
    doc, overrides,     \* the files given
    phase,
    left,       \* control sets not yet folded
    acc,        \* the control sets combined so far
    queue,      \* statements to be packed
    bins,       \* the policies: a sequence of sets of statements
    links,      \* pairs of procedural controls that share a crosswalk entry
    parent      \* the forest of the grouping

vars == <<doc, overrides, phase, left, acc, queue, bins, links, parent>>

Ended == {"done", "refused", "conflict"}

\* vend and verify know the account, and so the ARN of its automation role, whether
\* or not automat makes the role; a plan for an account yet to be made packs nothing.
Known == {Automation}

\* The chosen procedural controls, as control set and position.
Control(n) == Artifacts[n[1]].controls[n[2]]

Nodes ==
    LET controls == UNION {{id} \X DOMAIN Artifacts[id].controls : id \in Wanted(doc.profile)}
    IN  {n \in controls : Control(n).attestation # "none"}

Init ==
    /\ doc \in Docs /\ overrides \in OverrideFiles
    /\ phase = "load"
    /\ left = {} /\ acc = Nothing /\ queue = {} /\ bins = <<>>
    /\ links = {} /\ parent = <<>>

Refuse(why) ==
    /\ phase' = why
    /\ UNCHANGED <<doc, overrides, left, acc, queue, bins, links, parent>>

--------------------------------------------------------------------------------
\* Decode, ResolveControlSets, CheckObligations and LoadOverrides.
Acceptable ==
    /\ Decodes(doc)
    /\ \A id \in Wanted(doc.profile) : Loads(id)
    /\ ChecksOut(doc.profile.obligations)
    /\ \A k \in DOMAIN overrides : overrides[k] # {}

Load ==
    /\ phase = "load"
    /\ \/ ~Acceptable /\ Refuse("refused")
       \/ /\ Acceptable
          /\ phase' = "merge" /\ left' = Wanted(doc.profile)
          /\ UNCHANGED <<doc, overrides, acc, queue, bins, links, parent>>

--------------------------------------------------------------------------------
\* MergeWithOverrides: one control set.
Merge(id) ==
    /\ phase = "merge" /\ id \in left
    /\ \E next \in {FromArtifact(Artifacts[id], overrides)} :
       \E both \in {Combine(acc, next, overrides)} :
          \/ both.clash # {} /\ Refuse("conflict")
          \/ /\ both.clash = {}
             /\ acc' = both /\ left' = left \ {id}
             /\ UNCHANGED <<doc, overrides, phase, queue, bins, links, parent>>

\* Its end: the slots of the port rule.
SlotPorts ==
    /\ phase = "merge" /\ left = {}
    /\ \/ PortClash(acc.rules) /\ Refuse("conflict")
       \/ /\ ~PortClash(acc.rules)
          /\ acc' = [acc EXCEPT !.rules = ReSlot(@)]
          /\ phase' = "narrow"
          /\ UNCHANGED <<doc, overrides, left, queue, bins, links, parent>>

\* Narrow: the profile's own bounds.
Asked(list) == IF list = Unrestricted THEN Unrestricted ELSE Members(list)

Narrow ==
    /\ phase = "narrow"
    /\ LET regions  == Intersect(acc.regions, Asked(doc.profile.regions))
           services == Intersect(acc.services, Asked(doc.profile.services))
           nothing  == \/ doc.profile.regions # Unrestricted /\ regions = {}
                       \/ doc.profile.services # Unrestricted /\ services = {}
       IN  \/ nothing /\ Refuse("refused")
           \/ /\ ~nothing
              /\ acc' = [acc EXCEPT !.regions = regions, !.services = services]
              /\ phase' = "render"
              /\ UNCHANGED <<doc, overrides, left, queue, bins, links, parent>>

--------------------------------------------------------------------------------
(***************************************************************************)
(* Pack.                                                                   *)
(***************************************************************************)
\* renderCondition's refusals: an exempt role with no ARN, which never happens here,
\* and an exemption beside a negative condition on the same key.
CannotExempt(st) ==
    \/ Automation \in st.exempt \ Known
    \/ st.exempt # {} /\ NegatesPrincipal(st.when)

Render ==
    /\ phase = "render"
    /\ LET refused == Unrenderable(acc) \/ \E st \in acc.stmts : CannotExempt(st)
       IN  \/ refused /\ Refuse("refused")
           \/ /\ ~refused
              /\ queue' = Renderable(acc, Known) /\ phase' = "fit"
              /\ UNCHANGED <<doc, overrides, left, acc, bins, links, parent>>

Size(st) ==
    Body + Cardinality(st.acts) + Cardinality(st.spared) + Cardinality(st.in)
         + Cardinality(st.exempt)

TooBig(st) == Size(st) + Envelope > Usable

\* Mutant of Halves: the first half is not cut off.
HalvesUncut(st) == {st, [st EXCEPT !.acts = {a \in st.acts : \E b \in st.acts : b < a}]}

\* renderFitting: the halves of the actions, in the order of their names.
Halves(st) ==
    LET low == {a \in st.acts : Cardinality({b \in st.acts : b <= a})
                                  <= Cardinality(st.acts) \div 2}
    IN  {[st EXCEPT !.acts = low], [st EXCEPT !.acts = @ \ low]}

Fit ==
    /\ phase = "fit"
    /\ \/ \E st \in queue :
             /\ TooBig(st)
             /\ \/ /\ IsAllowlist(st) \/ Cardinality(st.acts) < 2
                   /\ Refuse("refused")
                \/ /\ ~IsAllowlist(st) /\ Cardinality(st.acts) >= 2
                   /\ queue' = (queue \ {st}) \cup Halves(st)
                   /\ UNCHANGED <<doc, overrides, phase, left, acc, bins, links, parent>>
       \/ /\ \A st \in queue : ~TooBig(st)
          /\ phase' = "place"
          /\ UNCHANGED <<doc, overrides, left, acc, queue, bins, links, parent>>

\* firstFitDecreasing, one statement.
Used(bin) == Envelope + MapThenSumSet(Size, bin) + Cardinality(bin) - 1

Place(st) ==
    /\ phase = "place" /\ st \in queue
    /\ \A other \in queue : Size(other) <= Size(st)
    /\ queue' = queue \ {st}
    /\ LET open == {i \in DOMAIN bins : Used(bins[i]) + Size(st) + 1 <= Usable}
       IN  bins' = IF open = {} THEN Append(bins, {st})
                   ELSE [bins EXCEPT ![Min(open)] = @ \cup {st}]
    /\ UNCHANGED <<doc, overrides, phase, left, acc, links, parent>>

\* A crosswalk entry is a pair of a framework and the control's id in it.
Pairs == UNION {Control(n).pairs : n \in Nodes}
Citing(pair) == {n \in Nodes : pair \in Control(n).pairs}

\* Pack ends; what procedural controls share is collected (collectProceduralControls).
Pack ==
    /\ phase = "place" /\ queue = {}
    /\ \/ Len(bins) > MaxPolicies /\ Refuse("refused")
       \/ /\ Len(bins) <= MaxPolicies
          /\ phase' = "group"
          /\ parent' = [n \in Nodes |-> n]
          /\ \E first \in [Pairs -> Nodes] :
                /\ \A pair \in Pairs : first[pair] \in Citing(pair)
                /\ links' = UNION {{first[pair]} \X (Citing(pair) \ {first[pair]}) : pair \in Pairs}
          /\ UNCHANGED <<doc, overrides, left, acc, queue, bins>>

--------------------------------------------------------------------------------
(***************************************************************************)
(* DedupeAttestations: a union-find over the shared crosswalk entries.     *)
(***************************************************************************)
Find(n) ==
    LET up[k \in 0..Cardinality(Nodes)] == IF k = 0 THEN n ELSE parent[up[k - 1]]
    IN  up[Cardinality(Nodes)]

\* Mutant of Union: the pair is linked, not the roots.
UnionOfLeaves(l) ==
    /\ phase = "group" /\ l \in links
    /\ parent' = [parent EXCEPT ![l[1]] = l[2]]
    /\ links' = links \ {l}
    /\ UNCHANGED <<doc, overrides, phase, left, acc, queue, bins>>

Union(l) ==
    /\ phase = "group" /\ l \in links
    /\ parent' = [parent EXCEPT ![Find(l[1])] = Find(l[2])]
    /\ links' = links \ {l}
    /\ UNCHANGED <<doc, overrides, phase, left, acc, queue, bins>>

Groups == {{n \in Nodes : Find(n) = Find(m)} : m \in Nodes}

\* mergeGroup refuses a group that disagrees about its text or about an entry.
Disagree(group) ==
    \E n, m \in group :
       \/ Control(n).attestation # Control(m).attestation
       \/ \E x \in Control(n).pairs, y \in Control(m).pairs : x[1] = y[1] /\ x[2] # y[2]

Group ==
    /\ phase = "group" /\ links = {}
    /\ \/ (\E g \in Groups : Disagree(g)) /\ Refuse("refused")
       \/ /\ \A g \in Groups : ~Disagree(g)
          /\ phase' = "pack"
          /\ UNCHANGED <<doc, overrides, left, acc, queue, bins, links, parent>>

\* vendConformancePackStep: no rule, no pack.
RenderTemplate ==
    /\ phase = "pack"
    /\ \/ Undeployable(acc.rules) /\ Refuse("refused")
       \/ /\ ~Undeployable(acc.rules)
          /\ phase' = "done"
          /\ UNCHANGED <<doc, overrides, left, acc, queue, bins, links, parent>>

--------------------------------------------------------------------------------
Step ==
    \/ Load \/ (\E id \in left : Merge(id)) \/ SlotPorts \/ Narrow \/ Render
    \/ Fit \/ (\E st \in queue : Place(st)) \/ Pack \/ (\E l \in links : Union(l)) \/ Group
    \/ RenderTemplate

Done == phase \in Ended /\ UNCHANGED vars

Next == Step \/ Done

Spec == Init /\ [][Next]_vars

\* The command keeps computing.
FairSpec == Spec /\ WF_vars(Step)

--------------------------------------------------------------------------------
(***************************************************************************)
(* Properties.  A reference reads the documents anew: no folding, merging, *)
(* splitting or packing.                                                   *)
(***************************************************************************)
Chosen(sets) == UNION {Members(Artifacts[id].controls) : id \in sets \cup {Baseline}}

Common(lists) == {x \in UNION lists : \A list \in lists : x \in list}

Asks(bound) == IF bound = Unrestricted THEN {} ELSE {bound}
RegionBounds(content) ==
    ({c.regions : c \in Chosen(content.controlSets)} \ {{}}) \cup Asks(content.regions)
ServiceBounds(content) ==
    ({c.services : c \in Chosen(content.controlSets)} \ {{}}) \cup Asks(content.services)

\* The services with global endpoints.
Global(content) ==
    Common({Artifacts[id].exempt : id \in content.controlSets \cup {Baseline}} \ {Unrestricted})

\* What a profile's content promises to deny: whatever a statement of a chosen control
\* denies, and outside the services with global endpoints whatever is in a region or
\* a service that some bound leaves out.  The automation role is bound by no allowlist.
Promised(content, q) ==
    \/ \E c \in Chosen(content.controlSets) : \E st \in c.stmts : Denies(st, q)
    \/ /\ q.who \notin Known /\ ServiceOf[q.act] \notin Global(content)
       /\ \/ \E list \in RegionBounds(content) : q.region \notin list
          \/ \E list \in ServiceBounds(content) : ServiceOf[q.act] \notin list

Attached == UNION {bins[i] : i \in DOMAIN bins}

Packed == phase \in {"group", "pack", "done"}
Merged == Packed \/ phase \in {"narrow", "render", "fit", "place"}

\* The policies deny exactly what the profile's content promises, and so what anyone
\* attested: merging, exempting, narrowing, splitting and packing lose nothing and add
\* nothing (Merge, Narrow and Pack).
PoliciesDenyExactly ==
    Packed =>
      \A content \in {Hash(doc.profile)} \cup {s.subject : s \in Members(doc.signatures)} :
        \A q \in Request : (\E st \in Attached : Denies(st, q)) <=> Promised(content, q)

\* The bindings of a rule parameter in the chosen control sets.
Bindings(k) ==
    {c.rules[k] : c \in {d \in Chosen(Wanted(doc.profile)) : k \in DOMAIN d.rules}}
Keys == UNION {DOMAIN c.rules : c \in Chosen(Wanted(doc.profile))}

\* A merged parameter permits what every control set permits, nothing more and nothing
\* less, unless an override settled a conflict about it; no prohibited port is dropped
\* when the slots are filled anew; and the conformance pack is given each of them under an
\* id of its own (addOneConfigRule, combineConfigRules, reSlotBlockedPorts,
\* RenderConformancePackTemplate).
RulesPermitExactly ==
    Merged =>
      /\ \A k \in Keys \ (Slots \cup acc.applied) :
           /\ k \in DOMAIN acc.rules
           /\ \A v \in Values : Permits(acc.rules[k], v) <=> \A p \in Bindings(k) : Permits(p, v)
      /\ Slots \cap acc.applied = {} =>
           BlockedPorts(acc.rules) = UNION {UNION {p.value : p \in Bindings(k)} : k \in Slots}
      /\ phase = "done" =>
           \A k \in DOMAIN acc.rules : Inputs(acc.rules)[Input(k)] = acc.rules[k].value

\* No value of the parameter satisfies every binding, or no two can be compared.
Irreconcilable(k) ==
    \E p, q \in Bindings(k) :
       \/ p.order # q.order \/ p.sep # q.sep
       \/ p.order = "exact" /\ p.value # q.value
       \/ p.order \in {"min", "max"} /\ p.value # q.value /\ 0 \in {p.value, q.value}
       \/ p.order = "set-intersect" /\ Common({r.value : r \in Bindings(k)}) = {}

TooManyPorts ==
    \/ \E k \in Slots : \E p \in Bindings(k) : p.order # "set-union"
    \/ Cardinality(UNION {UNION {p.value : p \in Bindings(k)} : k \in Slots}) > Len(PortSlots)

\* A compile is refused for a conflict when the control sets do conflict, about something
\* no override names, and never gets past one: whatever the order of the control sets and
\* of the maps, although two at a time are compared (Resolve, CombineWithOverrides).
ConflictsAreReal ==
    DOMAIN overrides \cap Slots = {} =>
      LET real == \/ \E k \in Keys \ DOMAIN overrides : Irreconcilable(k)
                  \/ TooManyPorts
      IN  /\ phase = "conflict" => real
          /\ Merged => ~real

\* Procedural controls that share no crosswalk entry with another.
Closed(nodes) ==
    \A n \in nodes, m \in Nodes : Control(n).pairs \cap Control(m).pairs # {} => m \in nodes

\* Two procedural controls are one practice exactly when a chain of shared crosswalk
\* entries joins them, so that one cannot be kept apart from the other, whatever the order
\* of the unions (groupByCrosswalk).
GroupsAreComponents ==
    phase = "group" /\ links = {} =>
      \A n, m \in Nodes :
         Find(n) = Find(m) <=>
           \A nodes \in {s \in SUBSET Nodes : Closed(s)} : n \in nodes => m \in nodes

\* The allowlists read back off the attached policies are the bounds the content
\* promises, axis by axis, although exemptions are folded into one statement and region
\* and service bounds share a policy or do not (ReadAllowlists, PermitsRegion,
\* PermitsService over what Pack rendered).
ReadBackIsWhatBinds ==
    Packed =>
      LET read == ReadAllowlists(Attached)
          content == Hash(doc.profile)
      IN  /\ \A r \in Regions :
               PermitsRegion(read, r) <=> \A list \in RegionBounds(content) : r \in list
          /\ \A s \in Services :
               PermitsService(read, s) <=>
                 s \in Global(content) \/ \A list \in ServiceBounds(content) : s \in list

\* Every compile ends.
CompileEnds == <>(phase \in Ended)

================================================================================
