------------------------------- MODULE Documents -------------------------------
(***************************************************************************)
(* The documents a vend is compiled from and what makes each acceptable:   *)
(* control artifacts (internal/artifact), the obligation profiles of the   *)
(* catalog (internal/catalog), and the environment profile with its        *)
(* attestations (internal/envprofile).  Names, titles, prose and the       *)
(* syntax of identifiers are left out.                                     *)
(***************************************************************************)
EXTENDS ControlSets

CONSTANTS
    Artifacts,      \* the compiled catalog: control set id -> artifact
    Baseline,       \* baseline-protection, compiled into every environment
    Shipped,        \* the obligation profiles shipped: file -> [id, revisions]
    MaxExempt,      \* MaxExemptPrincipals
    MaxSignatures,  \* maxSignatures
    MaxPath         \* MaxOUPathDepth

Ids == DOMAIN Artifacts

ASSUME ShippedAssumption ==
    \A f \in DOMAIN Shipped : Shipped[f].revisions \subseteq {"pinned", "operator-determined"}

\* A list with no repeated member.
Distinct(list) == \A i, j \in DOMAIN list : list[i] = list[j] => i = j

Members(list) == {list[i] : i \in DOMAIN list}

\* What an artifact's text can say, well formed or not: a statement of a control set names
\* actions, and no region or service; the order of a parameter decides how it is read.
ASSUME ArtifactsAssumption ==
    /\ IsFiniteSet(Ids)
    /\ \A id \in Ids :
       /\ Artifacts[id].controls \in Seq(Members(Artifacts[id].controls))
       /\ Artifacts[id].exempt # Unrestricted => Artifacts[id].exempt \in SUBSET Services
       /\ \A control \in Members(Artifacts[id].controls) :
             /\ control.stmts \in SUBSET Statement
             /\ \A st \in control.stmts : st.in = {} /\ st.spared = {}
             /\ control.regions \in SUBSET Regions /\ control.services \in SUBSET Services
             /\ control.rules = [k \in DOMAIN control.rules |-> control.rules[k]]
             /\ \A k \in DOMAIN control.rules : control.rules[k] \in Parameter

\* RejectDuplicateKeys: of a key written twice a parser takes the last, which is not
\* the one a reader sees.  A key is its path in the document.
Unambiguous(keys) == Distinct(keys)

--------------------------------------------------------------------------------
(***************************************************************************)
(* Control artifacts.  A control has an id, the enforcement classes it     *)
(* declares, its statements, allowlists and rule parameters, and, when     *)
(* procedural, an attestation with the crosswalk pairs it answers to.      *)
(***************************************************************************)
Enforcement == {"scp", "config-rule", "procedural", "baseline-protection"}

IsSCP(control) == control.stmts # {} \/ control.regions # {} \/ control.services # {}

\* ExemptPrincipals.validate: few enough.
ValidExempt(principals) == Cardinality(principals) <= MaxExempt

\* SCP.validate and ConfigRule.validate.
ValidSCP(control) == \A st \in control.stmts : ~IsAllowlist(st) /\ ValidExempt(st.exempt)

ValidRules(control) ==
    \A k \in DOMAIN control.rules :
       control.rules[k].order \in Sets => control.rules[k].value # {}

\* Control.validate: what a control declares is what it carries.
ValidControl(control) ==
    /\ control.classes # {} /\ control.classes \subseteq Enforcement
    /\ IsSCP(control) <=> control.classes \cap {"scp", "baseline-protection"} # {}
    /\ control.rules # <<>> <=> "config-rule" \in control.classes
    /\ control.attestation # "none" <=> "procedural" \in control.classes
    /\ ValidSCP(control) /\ ValidRules(control)

ValidArtifact(art) ==
    /\ art.controls # <<>>
    /\ Distinct([i \in DOMAIN art.controls |-> art.controls[i].id])
    /\ \A control \in Members(art.controls) : ValidControl(control)
    /\ art.exempt # {}

\* Canonicalize: the controls are sorted by id, so that their order does not matter.
Canonical(controls, exempt) == <<Members(controls), exempt>>

\* The hash in an artifact covers its content (LoadFS).
Intact(art) == art.hash = Canonical(art.controls, art.exempt)

\* ResolveControlSets: one control set of the profile, or of every profile.
Loads(id) == id \in Ids /\ ValidArtifact(Artifacts[id]) /\ Intact(Artifacts[id])

Wanted(profile) == Members(profile.controlSets) \cup {Baseline}

--------------------------------------------------------------------------------
(***************************************************************************)
(* The environment profile.  Its content is what the content hash covers.  *)
(***************************************************************************)

\* Permitted.validate: an absent bound, or one that names something.
ValidAllowSet(list) == list # Unrestricted => list # <<>> /\ Distinct(list)

ValidObligations(refs) == Distinct([i \in DOMAIN refs |-> refs[i].id])

\* Placement.validate.
ValidPlacement(p) == Len(p.ouPath) <= MaxPath /\ (p.ouPath # <<>> => p.createOUs)

\* Account.validate: `placeholders' counts {name} in the email pattern.
ValidAccount(p) == p.placeholders = 1 /\ "automat:" \notin p.tagPrefixes

\* Baseline.validate: recorder, regions, and where files go.
ValidBaseline(p) ==
    /\ p.bucket => p.recorder
    /\ Distinct(p.enable) /\ Distinct(p.disable)
    /\ Members(p.enable) \cap Members(p.disable) = {}
    /\ ~p.escapes /\ ~p.stubMirror

\* Signature.validate: each form names its own key, and not the other's; an attestation
\* need not be signed.
ValidSignature(s) ==
    s.names = CASE s.form = "detached-ed25519"     -> {"key"}
                [] s.form = "oidc-identity-bundle" -> {"issuer"}
                [] s.form = "none"                 -> {}

\* validateSignatures: few enough to be read, and none twice.
ValidSignatures(list) ==
    /\ Len(list) <= MaxSignatures /\ Distinct(list)
    /\ \A s \in Members(list) : ValidSignature(s)

\* Validate, the attestations aside.
Valid(profile) ==
    /\ profile.controlSets # <<>> /\ Distinct(profile.controlSets)
    /\ ValidAllowSet(profile.regions) /\ ValidAllowSet(profile.services)
    /\ ValidObligations(profile.obligations)
    /\ ValidPlacement(profile) /\ ValidAccount(profile) /\ ValidBaseline(profile)

\* Canonicalize: the order of the lists does not matter; an absent bound and an empty
\* one stay apart.
CanonicalProfile(profile) ==
    [profile EXCEPT !.controlSets = Members(@),
                    !.obligations = Members(@),
                    !.regions = IF @ = Unrestricted THEN @ ELSE Members(@),
                    !.services = IF @ = Unrestricted THEN @ ELSE Members(@),
                    !.enable = Members(@), !.disable = Members(@)]

\* CanonicalContentJSON, which the attestations are over and not part of.
Hash(profile) == CanonicalProfile(profile)

\* VerifyAttestationSubjects: every attestation is over this content.
Attested(profile, signatures) == \A s \in Members(signatures) : s.subject = Hash(profile)

\* Decode: Validate, then the subjects of the attestations.
Decodes(doc) ==
    /\ doc.whole /\ Unambiguous(doc.keys)
    /\ Valid(doc.profile) /\ ValidSignatures(doc.signatures)
    /\ Attested(doc.profile, doc.signatures)

\* ResolveObligations: the file of that name, when the profile in it has that id.
Resolves(id) == id \in DOMAIN Shipped /\ Shipped[id].id = id

\* obligationFacts: whether a catalog's revision is left to the operator.  The hash of
\* the profile is not among the facts.
Facts(id) == [asks |-> "operator-determined" \in Shipped[id].revisions, sha |-> "unknown"]

\* CheckObligations: known, at the hash the profile names where the facts have one, and
\* determined by the operator exactly where the instrument asks.
ChecksOut(refs) ==
    \A ref \in Members(refs) :
       /\ Resolves(ref.id)
       /\ Facts(ref.id).sha \in {"unknown", ref.sha}
       /\ ref.determined <=> Facts(ref.id).asks

================================================================================
