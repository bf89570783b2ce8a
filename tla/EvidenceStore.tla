----------------------------- MODULE EvidenceStore -----------------------------
(***************************************************************************)
(* The evidence manifests of one account in a local directory.  A run that *)
(* has done something loads the manifest, appends its records in memory    *)
(* and writes the whole document back: first to a temporary copy, then     *)
(* over the file itself, then it removes the copy (internal/evidence).     *)
(* `vend` and `verify` follow rotation pointers and rotate a manifest that *)
(* has grown to the threshold (cmd/automat/evidencerotate.go); `reclaim`   *)
(* and `assess` load and write the account's first manifest only.          *)
(*                                                                         *)
(* Manifest 1 is "<account>.json", manifest n is "<account>-n.json".  The  *)
(* terminal rotate record is the document's `next`, 0 while it is open.    *)
(* Hashes and signatures are not modelled: a document is read as it was    *)
(* written or it is refused.                                               *)
(***************************************************************************)
EXTENDS Naturals, Sequences

CONSTANTS
    Followers,  \* vend and verify runs
    Direct,     \* reclaim and assess runs
    Mortal,     \* runs that may die or meet an I/O error
    Batches,    \* how many records a run may have to append
    Threshold,  \* RotateThresholdRecords
    MaxKey,     \* the last name nextRotationKey tries
    MaxLen,     \* MaxManifestBytes, in records
    Overlap     \* whether a run may start before another has ended

Runs == Followers \cup Direct
Keys == 1..MaxKey

ASSUME RunsTyped == Followers \cap Direct = {} /\ Mortal \subseteq Runs
ASSUME BoundsTyped ==
    /\ Batches \subseteq Nat \ {0}
    /\ Threshold \in Nat \ {0} /\ MaxKey \in Nat \ {0} /\ MaxLen \in Nat
    /\ Overlap \in BOOLEAN

VARIABLES
    file,   \* the manifest files
    tmp,    \* their temporary copies
    pc,     \* the next step of a run
    key,    \* the manifest it works on
    mem,    \* the document it holds in memory
    lost    \* another run removed the temporary copy this one has open

vars == <<file, tmp, pc, key, mem, lost>>

Steps == {"open", "append", "openTmp", "writeTmp", "openFile", "writeFile",
          "removeTmp", "rotate"}
Ended == {"done", "refused", "failed", "dead"}

Entry    == [run: Runs, no: Nat]
Document == [recs: Seq(Entry), next: Keys \cup {0}]
Content  == [state: {"absent", "empty", "torn", "whole"}, doc: Document]

TypeOK ==
    /\ file \in [Keys -> Content]
    /\ tmp  \in [Keys -> Content]
    /\ pc   \in [Runs -> {"idle"} \cup Steps \cup Ended]
    /\ key  \in [Runs -> Keys]
    /\ mem  \in [Runs -> Document]
    /\ lost \in [Runs -> BOOLEAN]

NewManifest == [recs |-> <<>>, next |-> 0]
Absent      == [state |-> "absent", doc |-> NewManifest]
Emptied     == [state |-> "empty", doc |-> NewManifest]
Torn        == [state |-> "torn", doc |-> NewManifest]
Whole(d)    == [state |-> "whole", doc |-> d]

Closed(d)  == d.next # 0
Size(d)    == Len(d.recs) + (IF Closed(d) THEN 1 ELSE 0)
Damaged(k) == file[k].state \in {"empty", "torn"}
Exists(k)  == file[k].state # "absent"

Init ==
    /\ file = [k \in Keys |-> Absent]
    /\ tmp  = [k \in Keys |-> Absent]
    /\ pc   = [r \in Runs |-> "idle"]
    /\ key  = [r \in Runs |-> 1]
    /\ mem  = [r \in Runs |-> NewManifest]
    /\ lost = [r \in Runs |-> FALSE]

--------------------------------------------------------------------------------
(* A run.                                                                  *)

Goto(r, step) == pc' = [pc EXCEPT ![r] = step]

\* The run has done what it records, and opens the evidence directory.
Begin(r) ==
    /\ pc[r] = "idle"
    /\ Overlap \/ \A s \in Runs : pc[s] \notin Steps
    /\ Goto(r, "open")
    /\ UNCHANGED <<file, tmp, key, mem, lost>>

\* LoadOrNewNamed of one manifest: a missing file starts a chain, a file that
\* does not decode or is too large ends the run, and a follower goes on to the
\* successor of a rotated one.
OpenNew(r) ==
    /\ pc[r] = "open" /\ ~Exists(key[r])
    /\ mem' = [mem EXCEPT ![r] = NewManifest]
    /\ Goto(r, "append")
    /\ UNCHANGED <<file, tmp, key, lost>>

\* Mutant: a damaged manifest is taken for a missing one.
UnreadableOnlyIfLarge(k) == Size(file[k].doc) > MaxLen

Unreadable(k) == Damaged(k) \/ Size(file[k].doc) > MaxLen

OpenRefused(r) ==
    /\ pc[r] = "open" /\ Unreadable(key[r])
    /\ Goto(r, "refused")
    /\ UNCHANGED <<file, tmp, key, mem, lost>>

Follows(r) == r \in Followers /\ Closed(file[key[r]].doc)

OpenNext(r) ==
    /\ pc[r] = "open" /\ Exists(key[r]) /\ ~Unreadable(key[r])
    /\ Follows(r)
    /\ key' = [key EXCEPT ![r] = file[key[r]].doc.next]
    /\ UNCHANGED <<file, tmp, pc, mem, lost>>

OpenActive(r) ==
    /\ pc[r] = "open" /\ Exists(key[r]) /\ ~Unreadable(key[r])
    /\ ~Follows(r)
    /\ mem' = [mem EXCEPT ![r] = file[key[r]].doc]
    /\ Goto(r, "append")
    /\ UNCHANGED <<file, tmp, key, lost>>

Batch(r, n) == [i \in 1..n |-> [run |-> r, no |-> i]]

\* Mutant: Append does not refuse a closed manifest.
AppendPastTerminal(r) ==
    /\ pc[r] = "append"
    /\ \E n \in Batches : mem' = [mem EXCEPT ![r].recs = @ \o Batch(r, n)]
    /\ Goto(r, "openTmp")
    /\ UNCHANGED <<file, tmp, key, lost>>

\* Manifest.Append of each record the run has: ErrClosed past a terminal one.
Append_(r) ==
    /\ pc[r] = "append"
    /\ \/ /\ Closed(mem[r])
          /\ Goto(r, "refused")
          /\ UNCHANGED mem
       \/ /\ ~Closed(mem[r])
          /\ \E n \in Batches : mem' = [mem EXCEPT ![r].recs = @ \o Batch(r, n)]
          /\ Goto(r, "openTmp")
    /\ UNCHANGED <<file, tmp, key, lost>>

\* Mutant: the manifest is written without a copy beside it.
OpenTmpSkipped(r) ==
    /\ pc[r] = "openTmp"
    /\ Goto(r, "openFile")
    /\ UNCHANGED <<file, tmp, key, mem, lost>>

\* writeThrough opens or creates and truncates, then writes and flushes.
OpenTmp(r) ==
    /\ pc[r] = "openTmp"
    /\ tmp'  = [tmp EXCEPT ![key[r]] = Emptied]
    /\ lost' = [lost EXCEPT ![r] = FALSE]
    /\ Goto(r, "writeTmp")
    /\ UNCHANGED <<file, key, mem>>

\* Content that another run wrote since the truncation is overwritten from its
\* start: what remains decodes only if it was not the longer one.
Written(c, d) == IF c.state = "empty" THEN {Whole(d)} ELSE {Whole(d), Torn}

WriteTmp(r) ==
    /\ pc[r] = "writeTmp"
    /\ \/ lost[r] /\ UNCHANGED tmp
       \/ ~lost[r] /\ \E c \in Written(tmp[key[r]], mem[r]) : tmp' = [tmp EXCEPT ![key[r]] = c]
    /\ Goto(r, "openFile")
    /\ UNCHANGED <<file, key, mem, lost>>

OpenFile(r) ==
    /\ pc[r] = "openFile"
    /\ file' = [file EXCEPT ![key[r]] = Emptied]
    /\ Goto(r, "writeFile")
    /\ UNCHANGED <<tmp, key, mem, lost>>

WriteFile(r) ==
    /\ pc[r] = "writeFile"
    /\ \E c \in Written(file[key[r]], mem[r]) : file' = [file EXCEPT ![key[r]] = c]
    /\ Goto(r, "removeTmp")
    /\ UNCHANGED <<tmp, key, mem, lost>>

\* The end of writePair, and writeManifestWithRotation's test of the threshold.
MustRotate(r) == r \in Followers /\ ~Closed(mem[r]) /\ Size(mem[r]) >= Threshold

RemoveTmp(r) ==
    /\ pc[r] = "removeTmp"
    /\ tmp'  = [tmp EXCEPT ![key[r]] = Absent]
    /\ lost' = [s \in Runs |-> lost[s] \/ (s # r /\ key[s] = key[r] /\ pc[s] = "writeTmp")]
    /\ Goto(r, IF MustRotate(r) THEN "rotate" ELSE "done")
    /\ UNCHANGED <<file, key, mem>>

\* Mutant: the first numbered name, taken or not.
FreeIgnoringFiles == Keys \ {1}

\* Mutant: the search goes one name too far.
FreeOffByOne == {n \in 2..(MaxKey + 1) : n > MaxKey \/ ~Exists(n)}

\* nextRotationKey: the first name after the account's own with no file.
Free == {n \in Keys : n >= 2 /\ ~Exists(n)}

Rotate(r) ==
    /\ pc[r] = "rotate"
    /\ \E n \in Free :
          /\ \A m \in Free : n <= m
          /\ mem' = [mem EXCEPT ![r].next = n]
    /\ Goto(r, "openTmp")
    /\ UNCHANGED <<file, tmp, key, lost>>

RotateFails(r) ==
    /\ pc[r] = "rotate" /\ Free = {}
    /\ Goto(r, "failed")
    /\ UNCHANGED <<file, tmp, key, mem, lost>>

\* The process is killed or a file operation fails, leaving the files as they are.
Stops(r) ==
    /\ r \in Mortal
    /\ pc[r] \in Steps
    /\ Goto(r, "dead")
    /\ UNCHANGED <<file, tmp, key, mem, lost>>

--------------------------------------------------------------------------------
(* The operator follows writePair's advice, once nothing runs: move the    *)
(* complete copy over the damaged file.                                    *)

Recover(k) ==
    /\ Damaged(k) /\ tmp[k].state = "whole"
    /\ \A r \in Runs : pc[r] \notin Steps
    /\ file' = [file EXCEPT ![k] = tmp[k]]
    /\ tmp'  = [tmp EXCEPT ![k] = Absent]
    /\ UNCHANGED <<pc, key, mem, lost>>

--------------------------------------------------------------------------------
Step(r) ==
    \/ OpenNew(r) \/ OpenRefused(r) \/ OpenNext(r) \/ OpenActive(r) \/ Append_(r)
    \/ OpenTmp(r) \/ WriteTmp(r) \/ OpenFile(r) \/ WriteFile(r) \/ RemoveTmp(r)
    \/ Rotate(r) \/ RotateFails(r)

Next ==
    \/ \E r \in Runs : Begin(r) \/ Step(r) \/ Stops(r)
    \/ \E k \in Keys : Recover(k)

Spec == Init /\ [][Next]_vars

FairSpec == Spec /\ \A r \in Runs : WF_vars(Step(r))

--------------------------------------------------------------------------------
(* What a reader finds.                                                    *)

\* A damaged manifest is read from its complete copy.
View(k) == IF Damaged(k) THEN tmp[k].doc ELSE file[k].doc

Views == [k \in Keys |-> View(k)]

\* The records along the rotation pointers from manifest k on.
Along(view, k) ==
    LET from[j \in Keys] ==
            view[j].recs \o (IF view[j].next > j THEN from[view[j].next] ELSE <<>>)
    IN  from[k]

\* The account's records.
Log == Along(Views, 1)

Told == {r \in Runs : pc[r] = "done"}

Evidence == INSTANCE EvidenceLog WITH log <- Log, told <- Told

--------------------------------------------------------------------------------
(* Runs one after another, some of them dying (Overlap = FALSE).           *)

\* A run that dies between truncating a manifest and writing it has left the
\* complete new document in the temporary copy, as writePair's comment says.
Recoverable ==
    \A k \in Keys : Damaged(k) => tmp[k].state = "whole" /\ tmp[k].doc # NewManifest

\* A chain a rotate record has closed is never written to again, through every
\* crash, recovery and later run.
ClosedStaysClosed ==
    [][\A k \in Keys : Closed(View(k)) => View(k)' = View(k)]_vars

\* The files keep what EvidenceLog promises: rotations, half-written files and
\* recoveries do not reorder, drop or repeat a record, and "Recorded in" is true.
KeepsTheLog == Evidence!Spec

--------------------------------------------------------------------------------
(* Whether or not runs overlap.                                            *)

\* A rotation pointer leads to a higher number, so openActiveManifest's loop,
\* which bounds nothing and marks no name as seen, always comes to its end.
PointersIncrease ==
    \A k \in Keys : \A d \in {file[k].doc, tmp[k].doc} : Closed(d) => d.next > k

\* A run that began ends: recorded, refused, or dead.
EveryRunEnds == \A r \in Runs : pc[r] = "open" ~> pc[r] \in Ended

--------------------------------------------------------------------------------
(* Why these hold: what the proofs carry from step to step.                *)

Unloaded == \A r \in Runs : pc[r] \in {"idle", "open"} => mem[r] = NewManifest

\* The successor names in use have no gap below them.
NamedUpTo(n) == \A m \in Keys : 2 <= m /\ m < n => Exists(m)

KeysNamed == \A r \in Runs : NamedUpTo(key[r])

FilePointers == \A k \in Keys :
    Closed(file[k].doc) => file[k].doc.next > k /\ NamedUpTo(file[k].doc.next)

TmpPointers == \A k \in Keys :
    Closed(tmp[k].doc) => tmp[k].doc.next > k /\ NamedUpTo(tmp[k].doc.next)

MemPointers == \A r \in Runs :
    Closed(mem[r]) => mem[r].next > key[r] /\ NamedUpTo(mem[r].next)

OpenedExists == \A r \in Runs :
    pc[r] \in {"writeFile", "removeTmp", "rotate"} => Exists(key[r])

PointerInv == Unloaded /\ KeysNamed /\ FilePointers /\ TmpPointers /\ MemPointers /\ OpenedExists

OneRuns == \A r, s \in Runs : pc[r] \in Steps /\ pc[s] \in Steps => r = s

OnlyWholeHolds == \A k \in Keys :
    file[k].state # "whole" => file[k].doc = NewManifest

\* What a run at work, alone, knows of the files of its manifest.
Holds(r) ==
    LET f == file[key[r]]
        t == tmp[key[r]]
    IN  /\ pc[r] = "append" => f.state \in {"absent", "whole"} /\ f.doc = mem[r]
        /\ pc[r] \in {"openTmp", "writeTmp", "openFile"} =>
               f.state \in {"absent", "whole"} /\ ~Closed(f.doc) /\ mem[r] # NewManifest
        /\ pc[r] = "writeTmp" => t = Emptied /\ ~lost[r]
        /\ pc[r] \in {"openFile", "writeFile"} => t = Whole(mem[r]) /\ mem[r] # NewManifest
        /\ pc[r] = "writeFile" => f = Emptied
        /\ pc[r] = "removeTmp" => f = Whole(mem[r])
        /\ pc[r] = "rotate" => f = Whole(mem[r]) /\ ~Closed(mem[r])

SerialInv == OneRuns /\ OnlyWholeHolds /\ Recoverable /\ \A r \in Runs : Holds(r)

\* Manifests 1 to a, each but the last closed onto the next.
Leads(view, a) == (\A k \in 1..(a - 1) : view[k].next = k + 1) /\ view[a].next = 0

\* The account's log ends in manifest a: there is none after it, and no run has gone past
\* it.
EndsAt(a) ==
    /\ Leads(Views, a)
    /\ \A k \in Keys : k > a => ~Exists(k)
    /\ \A r \in Runs : key[r] <= a

Has(log, r) == \E i \in DOMAIN log : log[i].run = r

\* What a run has in memory to write: its records after those of the manifest, or the
\* manifest closed.
Appends(r) ==
    /\ ~Has(Log, r)
    /\ mem[r].next = 0
    /\ \E n \in Batches : mem[r].recs = file[key[r]].doc.recs \o Batch(r, n)

Closes(r) ==
    /\ Has(Log, r)
    /\ mem[r].next = key[r] + 1
    /\ mem[r].recs = file[key[r]].doc.recs

\* When a run's records are in the log.
Logged(r) ==
    /\ pc[r] \in {"idle", "open", "append"} => ~Has(Log, r)
    /\ pc[r] \in {"openTmp", "writeTmp", "openFile"} => Appends(r) \/ Closes(r)
    /\ pc[r] \in {"writeFile", "removeTmp", "rotate", "done"} => Has(Log, r)

LogInv == (\E a \in Keys : EndsAt(a)) /\ \A r \in Runs : Logged(r)

--------------------------------------------------------------------------------
(* Statements of the documents and comments, which runs show the code does *)
(* not keep.                                                               *)

\* docs/evidence-manifests.md: every mutating operation of vend and reclaim, and
\* every verify and assess run, appends a record.
EveryRunAppends ==
    \A r \in Runs : pc[r] \in {"done", "refused"} => \E i \in DOMAIN Log : Log[i].run = r

================================================================================
