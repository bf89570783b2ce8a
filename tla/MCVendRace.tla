------------------------------ MODULE MCVendRace -------------------------------
(***************************************************************************)
(* Two invocations vend one identity into one OU, started from a plain   *)
(* command line or from any request id of each other.                     *)
(***************************************************************************)
EXTENDS VendAccount

CONSTANTS r1, r2, lab, workload, ou

const_Inputs ==
    [email: {lab}, name: {workload}, dest: {ou}, resume: Runs \cup {None}]

================================================================================
