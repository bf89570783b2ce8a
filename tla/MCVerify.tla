------------------------------- MODULE MCVerify -------------------------------
(***************************************************************************)
(* An instance of Verify for TLC: one policy, a stub that goes stale and   *)
(* one that does not, two mirrors, and a manifest one record short of its  *)
(* rotation or just rotated; two commands, while one fact at a time is     *)
(* undone and put back.                                                    *)
(***************************************************************************)
EXTENDS Verify
LOCAL INSTANCE SequencesExt

MCControls == <<"AC", "IA">>
MCBuckets == <<"account", "management">>

\* The profile that asks for most and the one that asks for least.
MCProfiles == {[recorder |-> TRUE,  pack |-> TRUE,  date |-> "ahead"],
               [recorder |-> FALSE, pack |-> FALSE, date |-> "garbled"]}

MCObligation ==
    [citations |-> {"32 CFR 170"}, values |-> <<"MET", "NOT MET">>, understatement |-> "NOT MET",
     catalogs |-> {[name |-> "level-1", policy |-> "pinned", revised |-> TRUE]},
     scoring |-> "none", weighed |-> FALSE, declared |-> TRUE, signatures |-> {}]

Says(id, objectives, value) == [id |-> id, objectives |-> objectives, value |-> value]
FileOf(list) == [given |-> TRUE, list |-> list, revision |-> "none"]

\* Determination files: whole, in part, misspelt, and claiming a control twice.
MCFiles ==
    LET all   == {"AC", "IA"}
        lists == {<<>>}
            \cup {<<Says("d1", of, "MET")>> : of \in {all, {"AC"}, all \cup {"AC.1"}}}
            \cup {<<Says("d1", all, "Met")>>}
            \cup {<<Says("d1", of, "MET"), Says("d2", {"IA"}, "NOT MET")>> : of \in {all, {"AC"}}}
            \cup {<<Says("d1", {"AC"}, "MET"), Says("d1", all, "NOT MET")>>}
    IN  {NoFile} \cup {FileOf(list) : list \in lists}

\* One manifest, a record short of its rotation; or one that was rotated, and its
\* successor.
Grown(m, ops) == FoldLeft(LAMBDA n, op : Appended(n, Record(op, 0, "success", 0)), m, ops)

MCStores ==
    LET empty == NewManifest(0)
        full  == Grown(empty, <<"create", "apply", "verify">>)
    IN  {<<Grown(empty, <<"create", "apply">>), empty, empty>>,
         <<Rotated(full, 0, 2), Grown(empty, <<"apply">>), empty>>}

================================================================================
