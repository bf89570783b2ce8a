------------------------------- MODULE MCBaseline -------------------------------
(***************************************************************************)
(* Two vends of one profile, one of them unlucky, apply to an account that *)
(* is new, hand-made, left by an earlier release, parked half-way, or done. *)
(***************************************************************************)
EXTENDS Baseline

CONSTANTS r1, r2, east, west, policy

const_Enable  == <<east>>
const_Disable == <<west>>
const_Stubs   == <<policy>>
const_All     == {Pieces[i] : i \in DOMAIN Pieces}

fresh ==
    [role |-> "none", tagged |-> FALSE, region |-> [g \in {east, west} |-> "disabled"],
     pack |-> "none", packState |-> "none", packBy |-> {}, recorder |-> "none", recording |-> FALSE,
     channel |-> "none", protected |-> FALSE]
handMade ==
    [fresh EXCEPT !.region = [g \in {east, west} |-> "enabled"], !.recorder = "other",
                  !.recording = TRUE, !.channel = "other"]
refused == [handMade EXCEPT !.region[west] = "default"]
older ==
    [handMade EXCEPT !.role = "old", !.tagged = TRUE, !.pack = "old", !.packState = "complete"]
parked ==
    [fresh EXCEPT !.role = "bare", !.region[east] = "enabling", !.pack = "want",
                  !.packState = "failed", !.recorder = "want", !.channel = "want"]
frozen == [older EXCEPT !.protected = TRUE]

Accounts == {fresh, handMade, refused, older, parked, frozen}

const_Found ==
    {[aws |-> a, stub |-> [f \in {policy} |-> c]] :
        a \in Accounts, c \in {"absent", "empty", "edited"}}

================================================================================
