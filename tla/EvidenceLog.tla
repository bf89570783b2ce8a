------------------------------ MODULE EvidenceLog ------------------------------
(***************************************************************************)
(* What an account's evidence promises its reader, whatever files it is    *)
(* kept in: one log, which only grows, each run's records together and at  *)
(* most once, and no run told "recorded" whose records are not there.      *)
(***************************************************************************)
EXTENDS Naturals, Sequences

CONSTANTS
    Runs,       \* runs that record something about the account
    Batches     \* how many records a run may have

VARIABLES
    log,        \* the account's records, in the order a reader sees them
    told        \* the runs that reported their evidence written

Batch(r, n) == [i \in 1..n |-> [run |-> r, no |-> i]]

Recorded(r) == \E i \in DOMAIN log : log[i].run = r

Init == log = <<>> /\ told = {}

Record(r) ==
    /\ ~Recorded(r)
    /\ \E n \in Batches : log' = log \o Batch(r, n)
    /\ UNCHANGED told

Report(r) ==
    /\ Recorded(r)
    /\ told' = told \cup {r}
    /\ UNCHANGED log

Next == \E r \in Runs : Record(r) \/ Report(r)

Spec == Init /\ [][Next]_<<log, told>>

================================================================================
