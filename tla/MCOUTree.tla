------------------------------ MODULE MCOUTree ------------------------------
(***************************************************************************)
(* OUTree for TLC: two vends of any two of some command lines and one      *)
(* list, in an organization that permits two levels and has two OUs or     *)
(* three.                                                                  *)
(***************************************************************************)
EXTENDS OUTree

CONSTANTS v1, v2, l1, a1, lab, team, old, attic

Unit(up, name, level) ==
  [up |-> up, name |-> name, level |-> level, live |-> TRUE, by |-> People]

const_Found ==
  {<<Unit(Root, lab, 1), Unit(1, lab, 2)>>,
   <<Unit(Root, lab, 1), Unit(Root, team, 1), Unit(2, old, 2)>>}

const_Inputs ==
  [base : {Root}, path : {<<team, old>>}, blind : {FALSE}]
  \cup [base : {1}, path : {<<team>>}, blind : {FALSE}]
  \cup [base : {1}, path : {<<team, lab>>}, blind : BOOLEAN]

const_Moves == {<<a1, Root, 1>>, <<a1, 2, Root>>}

const_Base == [w \in Lists |-> Root]

\* The account starts where AWS puts new ones, or in the second OU.
InitSome == Init /\ parent[a1] \in {Root, 2}

MCSpec == InitSome /\ [][Next]_vars /\ Fairness
=============================================================================
