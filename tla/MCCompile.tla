------------------------------- MODULE MCCompile -------------------------------
(***************************************************************************)
(* A catalog of control sets that overlap, bound each other and disagree,  *)
(* and environment profiles that choose among them, some of them edited    *)
(* after they were signed or never acceptable.                             *)
(***************************************************************************)
EXTENDS Compile, TLC
LOCAL INSTANCE SequencesExt

CONSTANTS auto, admin, user, east, west

const_ServiceOf == [a \in 1..6 |-> CASE a \in 1..4 -> "ec2" [] a = 5 -> "iam" [] a = 6 -> "s3"]
const_PortSlots == <<"blockedPort1", "blockedPort2">>

length == <<"PASSWORD", "age">>
key    == <<"KEYS", "allowed">>
kind   == <<"KEYS", "kind">>
port1  == <<"PORTS", "blockedPort1">>
port2  == <<"PORTS", "blockedPort2">>

bind(order, value) == [order |-> order, value |-> value, sep |-> ","]

blank(id) == [id |-> id, classes |-> {}, stmts |-> {}, regions |-> {}, services |-> {},
              rules |-> <<>>, attestation |-> "none", pairs |-> {}]
scp(id, stmts, regions, services) ==
    [blank(id) EXCEPT !.classes = {"scp"}, !.stmts = stmts, !.regions = regions,
                      !.services = services]
denies(id, stmts) == scp(id, stmts, {}, {})
bounds(id, regions, services) == scp(id, {}, regions, services)
rules(id, binds) == [blank(id) EXCEPT !.classes = {"config-rule"}, !.rules = binds]
practice(id, text, pairs) ==
    [blank(id) EXCEPT !.classes = {"procedural"}, !.attestation = text, !.pairs = pairs]

artifact(controls, exempt) ==
    [controls |-> controls, exempt |-> exempt, hash |-> Canonical(controls, exempt)]

\* The same document with its controls in another order.
turned(art) == [art EXCEPT !.controls = Reverse(@)]

\* The protection of automat's own parts: its role is exempt where it must be.
protection ==
    artifact(<<denies(1, {Deny({5}, "any", {auto}), Deny({6}, "notAdmin", {})})>>, {"iam"})

\* A broad deny without MFA, one region, a short age, one port.
strict ==
    artifact(<<scp(11, {Deny(1..6, "noMfa", {auto})}, {east}, {}),
               rules(13, length :> bind("min", 2) @@ key :> bind("set-intersect", {1, 2})
                         @@ port1 :> bind("set-union", {2})),
               practice(14, "text", {<<"a", 1>>})>>, {"iam", "s3"})

\* It denies what protection denies, exempting somebody else.
services ==
    artifact(<<scp(21, {Deny({5, 6}, "any", {user})}, {}, {"ec2", "s3"}),
               rules(23, length :> bind("min", 3) @@ key :> bind("set-intersect", {2, 3})
                         @@ port1 :> bind("set-union", {3})),
               practice(24, "text", {<<"a", 1>>, <<"b", 1>>}),
               practice(25, "other", {<<"d", 1>>})>>, {"iam"})

\* No key suits it, strict and services together, though it suits either.
distant ==
    artifact(<<bounds(31, {east, west}, {"ec2"}),
               rules(32, key :> bind("set-intersect", {1, 3}) @@ port2 :> bind("set-union", {3})),
               practice(33, "text", {<<"b", 1>>, <<"c", 1>>})>>, {"iam"})

\* It bounds a region and names no services with global endpoints of its own.
western ==
    artifact(<<bounds(41, {west}, {}),
               rules(42, kind :> bind("exact", 1) @@ port1 :> bind("set-union", {2, 3})),
               practice(43, "text", {<<"c", 1>>})>>, Unrestricted)

\* It compares the age another way, and blocks a third port.
odd ==
    artifact(<<rules(51, length :> bind("max", 2)),
               rules(52, kind :> bind("exact", 2) @@ port2 :> bind("set-union", {1}))>>, {"iam"})

\* Another text for a practice of strict; nothing global in common with it.
apart ==
    artifact(<<bounds(61, {}, {"iam"}), practice(62, "other", {<<"a", 1>>})>>, {"ec2"})

\* Its rule's name differs from another by what a template's ids leave out.
twin == artifact(<<rules(91, <<"KEY_S", "allowed">> :> bind("set-intersect", {1, 2}))>>, {"iam"})

mislabelled == artifact(<<[denies(71, {Deny({5}, "any", {})}) EXCEPT !.classes = {"procedural"}]>>,
                        {"iam"})
tampered == [artifact(<<denies(81, {Deny({5}, "any", {})})>>, {"iam"}) EXCEPT
               !.controls[1].stmts = {Deny({5}, "any", {user})}]

const_Artifacts ==
    [protection |-> protection, strict |-> strict, services |-> turned(services), twin |-> twin, distant |-> distant,
     western |-> western, odd |-> odd, apart |-> apart, mislabelled |-> mislabelled,
     tampered |-> tampered]

const_Shipped ==
    [asked |-> [id |-> "asked", revisions |-> {"pinned", "operator-determined"}],
     known |-> [id |-> "known", revisions |-> {"pinned"}],
     moved |-> [id |-> "asked", revisions |-> {"operator-determined"}]]

\* KEYS and KEY_S come to one id.
const_Logical ==
    [name \in {"PASSWORD", "age", "KEYS", "KEY_S", "allowed", "kind", "PORTS", "blockedPort1",
               "blockedPort2"} |-> IF name = "KEY_S" THEN "KEYS" ELSE name]

--------------------------------------------------------------------------------
profile(sets) ==
    [controlSets |-> sets, regions |-> Unrestricted, services |-> Unrestricted,
     obligations |-> <<[id |-> "asked", sha |-> "h", determined |-> TRUE]>>,
     ouPath |-> <<"dept">>, createOUs |-> TRUE, placeholders |-> 1, tagPrefixes |-> {"lab:"},
     bucket |-> TRUE, recorder |-> TRUE, enable |-> <<east>>, disable |-> <<west>>,
     escapes |-> FALSE, stubMirror |-> FALSE]

Selections == {<<"strict">>, <<"services">>, <<"strict", "services">>, <<"strict", "western">>,
            <<"services", "distant">>, <<"distant", "strict">>, <<"western", "distant">>, <<"services", "western">>,
            <<"strict", "services", "distant">>, <<"services", "western", "distant">>,
            <<"services", "odd">>, <<"western", "odd">>, <<"strict", "apart">>, <<"apart">>, <<"services", "twin">>,
            <<"strict", "mislabelled">>, <<"tampered">>, <<"unknown">>, <<"odd">>,
            <<"strict", "strict">>, <<>>}

plain == {profile(sets) : sets \in Selections}
bounded ==
    {[profile(<<sets>>) EXCEPT !.regions = r, !.services = s] :
        sets \in {"strict", "distant", "western", "odd"}, r \in {Unrestricted, <<>>, <<west>>},
        s \in {Unrestricted, <<"ec2", "s3">>}}
careless ==
    LET p == profile(<<"services">>)
    IN  {[p EXCEPT !.enable = <<west, west>>], [p EXCEPT !.disable = <<east>>],
         [p EXCEPT !.createOUs = FALSE], [p EXCEPT !.ouPath = <<"a", "b", "c">>],
         [p EXCEPT !.placeholders = 0], [p EXCEPT !.tagPrefixes = {"automat:"}],
         [p EXCEPT !.recorder = FALSE], [p EXCEPT !.escapes = TRUE], [p EXCEPT !.stubMirror = TRUE],
         [p EXCEPT !.obligations = @ \o @], [p EXCEPT !.obligations[1].sha = "other"],
         [p EXCEPT !.obligations[1].determined = FALSE], [p EXCEPT !.obligations[1].id = "known"],
         [p EXCEPT !.obligations[1].id = "unheard"],
          [p EXCEPT !.obligations[1].id = "moved"]}

over(p) == [subject |-> Hash(p), form |-> "none", names |-> {}]
signed(p) == [subject |-> Hash(p), form |-> "detached-ed25519", names |-> {"key"}]
unsigned(p) ==
    [whole |-> TRUE, keys |-> <<"control_sets", "permitted">>, profile |-> p, signatures |-> <<>>]

\* What was signed is the profile itself, or the profile before a bound was added.
const_Docs ==
    {unsigned(p) : p \in plain \cup bounded \cup careless}
    \cup {[unsigned(p) EXCEPT !.signatures = <<over(p), signed(p)>>] : p \in plain}
    \cup {[unsigned(p) EXCEPT !.signatures = <<over([p EXCEPT !.regions = Unrestricted])>>] :
             p \in bounded}
    \cup LET d == unsigned(profile(<<"strict">>))
             s == signed(d.profile)
         IN  {[d EXCEPT !.whole = FALSE], [d EXCEPT !.keys = Append(@, "permitted")],
              [d EXCEPT !.signatures = <<s, s>>],
              [d EXCEPT !.signatures = <<[s EXCEPT !.names = {"issuer"}]>>]}

const_OverrideFiles == {<<>>, length :> {2}, key :> {1, 2}, kind :> {2}, key :> {}}

================================================================================
