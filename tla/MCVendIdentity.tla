---------------------------- MODULE MCVendIdentity -----------------------------
(***************************************************************************)
(* Two invocations beside an account automat did not create.  Operators    *)
(* mix addresses, names, OUs and request ids: a run may resume what        *)
(* another made for a different address, or meet its address on an account *)
(* under another name; a human may move the foreign account and one vended *)
(* account out of sight.                                                   *)
(***************************************************************************)
EXTENDS VendAccount

CONSTANTS r1, r2, foreign, lab, team, workload, sandbox, ou, otherOU

const_Inputs ==
    {[email |-> lab,  name |-> workload, dest |-> ou,      resume |-> None],
     [email |-> lab,  name |-> workload, dest |-> otherOU, resume |-> r1],
     [email |-> team, name |-> workload, dest |-> otherOU, resume |-> None],
     [email |-> team, name |-> sandbox,  dest |-> otherOU, resume |-> r1]}

================================================================================
