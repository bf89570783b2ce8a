---------------------------- MODULE MCGoverned ----------------------------
(***************************************************************************)
(* GovernedOU for TLC: up to three vends and three reclaims of two         *)
(* accounts under one OU.  Every vend ensures one control policy and one   *)
(* that exempts the account's automation role; the control document is the *)
(* same for all vends, the protection document is the account's own.       *)
(***************************************************************************)
EXTENDS GovernedOU

CONSTANTS a1, a2, v1, v2, v3, r1, r2, r3, ou, control, protect, floor

MCOf == [r \in Vends \cup Reclaims |-> IF r \in {v1, v3, r1, r3} THEN a1 ELSE a2]
MCOUOf == [v \in Vends |-> ou]
MCSpecs == [v \in Vends |-> <<control, protect>>]
MCDocuments == {"older", "shared", a1, a2}
MCCompiled ==
  [v \in Vends |-> [n \in Names |-> IF n = protect THEN MCOf[v] ELSE "shared"]]

\* The organizations the runs find: one without policies of automat's, or with those
\* an earlier release of the control sets left, attached or not; central IT may take
\* a place at the OU at any time, and keeps a policy of its own at the root.
InitSome ==
  /\ Init
  /\ policy[floor] = {[owned |-> FALSE, doc |-> "older"]}
  /\ policy[control] \in {{}, {[owned |-> TRUE, doc |-> "older"]}}
  /\ policy[protect] = policy[control]
  /\ attached[Root] = {floor} /\ attached[ou] \in {{}, {control, protect}}

\* A name of the set belongs to central IT from the start, or the target is full.
InitVends ==
  /\ Init
  /\ parent[a1] = Root /\ parent[a2] = Root
  /\ policy[floor] = {[owned |-> FALSE, doc |-> "older"]}
  /\ \A n \in {control, protect} :
       policy[n] \in {{}} \cup {{[owned |-> b, doc |-> "older"]} : b \in BOOLEAN}
  /\ attached[Root] = {}

MCSpec == InitSome /\ [][Next]_vars /\ Fairness
MCSpecVends == InitVends /\ [][Next]_vars /\ Fairness
=============================================================================
