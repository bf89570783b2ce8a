-------------------------- MODULE EvidenceStoreProofs --------------------------
(***************************************************************************)
(* Proofs about EvidenceStore, for any runs, batches, thresholds and       *)
(* bounds: its types; that rotation pointers increase, whether or not runs *)
(* overlap; and, for runs one after another, that a damaged manifest has a *)
(* complete copy, that a closed one is never written again, and that the   *)
(* files of an account implement the one log of EvidenceLog.               *)
(***************************************************************************)
EXTENDS EvidenceStore, WellFoundedInduction, SequenceTheorems, TLAPS

\* What a run appends is a sequence of entries.
LEMMA BatchTyped ==
  ASSUME NEW r \in Runs, NEW n \in Batches
  PROVE  Batch(r, n) \in Seq(Entry) /\ Len(Batch(r, n)) = n /\ n # 0
<1>1. n \in Nat \ {0}
  BY BoundsTyped
<1>2. \A i \in 1..n : [run |-> r, no |-> i] \in Entry
  BY <1>1 DEF Entry
<1> QED
  BY <1>1, <1>2 DEF Batch

\* The empty document is one.
LEMMA NewTyped == NewManifest \in Document
BY DEF NewManifest, Document

\* Documents in memory after an append are documents with records.
LEMMA AppendTyped ==
  ASSUME TypeOK, NEW r \in Runs, NEW n \in Batches,
         mem' = [mem EXCEPT ![r].recs = @ \o Batch(r, n)]
  PROVE  /\ mem' \in [Runs -> Document]
         /\ mem'[r].next = mem[r].next
         /\ mem'[r] # NewManifest
<1>1. mem[r].recs \in Seq(Entry) /\ Batch(r, n) \in Seq(Entry) /\ Len(Batch(r, n)) # 0
  BY BatchTyped, BoundsTyped DEF TypeOK, Document
<1>2. mem[r].recs \o Batch(r, n) \in Seq(Entry) /\ mem[r].recs \o Batch(r, n) # <<>>
  BY <1>1
<1>3. mem'[r] = [recs |-> mem[r].recs \o Batch(r, n), next |-> mem[r].next]
  BY DEF TypeOK, Document
<1> QED
  BY <1>2, <1>3 DEF TypeOK, Document, NewManifest

\* What a write leaves is the document written, or what decodes to none.
LEMMA WrittenTyped ==
  ASSUME TypeOK, NEW r \in Runs, NEW x, NEW c \in Written(x, mem[r])
  PROVE  /\ c \in Content
         /\ c = Whole(mem[r]) \/ c = Torn
         /\ x.state = "empty" => c = Whole(mem[r])
BY NewTyped DEF Written, Whole, Torn, Content, TypeOK

\* Every step keeps the types.
LEMMA TypePreserved ==
  ASSUME TypeOK, Next
  PROVE  TypeOK'
<1> USE BoundsTyped, NewTyped DEF TypeOK, Steps, Ended, Goto
<1>1. ASSUME NEW r \in Runs, Begin(r)
      PROVE  TypeOK'
  BY <1>1 DEF Begin
<1>2. ASSUME NEW r \in Runs, OpenNew(r)
      PROVE  TypeOK'
  BY <1>2 DEF OpenNew
<1>3. ASSUME NEW r \in Runs, OpenRefused(r)
      PROVE  TypeOK'
  BY <1>3 DEF OpenRefused
<1>4. ASSUME NEW r \in Runs, OpenNext(r)
      PROVE  TypeOK'
  BY <1>4 DEF OpenNext, Content, Document, Follows, Closed
<1>5. ASSUME NEW r \in Runs, OpenActive(r)
      PROVE  TypeOK'
  BY <1>5 DEF OpenActive, Content
<1>6. ASSUME NEW r \in Runs, Append_(r)
      PROVE  TypeOK'
  <2>1. CASE Closed(mem[r])
    BY <1>6, <2>1 DEF Append_
  <2>2. CASE ~Closed(mem[r])
    <3>1. PICK n \in Batches : mem' = [mem EXCEPT ![r].recs = @ \o Batch(r, n)]
      BY <1>6, <2>2 DEF Append_
    <3>2. mem' \in [Runs -> Document]
      BY <3>1, AppendTyped
    <3> QED
      BY <1>6, <2>2, <3>2 DEF Append_
  <2> QED
    BY <2>1, <2>2
<1>7. ASSUME NEW r \in Runs, OpenTmp(r)
      PROVE  TypeOK'
  BY <1>7 DEF OpenTmp, Emptied, Content
<1>8. ASSUME NEW r \in Runs, WriteTmp(r)
      PROVE  TypeOK'
  <2>1. \A c \in Written(tmp[key[r]], mem[r]) : c \in Content
    BY WrittenTyped
  <2> QED
    BY <1>8, <2>1 DEF WriteTmp
<1>9. ASSUME NEW r \in Runs, OpenFile(r)
      PROVE  TypeOK'
  BY <1>9 DEF OpenFile, Emptied, Content
<1>10. ASSUME NEW r \in Runs, WriteFile(r)
      PROVE  TypeOK'
  <2>1. \A c \in Written(file[key[r]], mem[r]) : c \in Content
    BY WrittenTyped
  <2> QED
    BY <1>10, <2>1 DEF WriteFile
<1>11. ASSUME NEW r \in Runs, RemoveTmp(r)
      PROVE  TypeOK'
  BY <1>11 DEF RemoveTmp, Absent, Content
<1>12. ASSUME NEW r \in Runs, Rotate(r)
      PROVE  TypeOK'
  <2>1. PICK n \in Free : mem' = [mem EXCEPT ![r].next = n]
    BY <1>12 DEF Rotate
  <2>2. mem' \in [Runs -> Document]
    BY <2>1 DEF Free, Document
  <2> QED
    BY <1>12, <2>2 DEF Rotate
<1>13. ASSUME NEW r \in Runs, RotateFails(r)
      PROVE  TypeOK'
  BY <1>13 DEF RotateFails
<1>14. ASSUME NEW r \in Runs, Stops(r)
      PROVE  TypeOK'
  BY <1>14 DEF Stops
<1>15. ASSUME NEW k \in Keys, Recover(k)
      PROVE  TypeOK'
  BY <1>15 DEF Recover, Absent, Content
<1> QED
  BY <1>1, <1>2, <1>3, <1>4, <1>5, <1>6, <1>7, <1>8, <1>9, <1>10, <1>11, <1>12, <1>13, <1>14, <1>15 DEF Next, Step

\* A manifest file, once there, is not removed; so names in use stay in use.
LEMMA NamesPersist ==
  ASSUME TypeOK, Next
  PROVE  /\ \A k \in Keys : Exists(k) => Exists(k)'
         /\ \A n : NamedUpTo(n) => NamedUpTo(n)'
<1>1. \A k \in Keys : Exists(k) => Exists(k)'
  <2> USE DEF TypeOK, Exists, Emptied, Whole, Torn
  <2>1. ASSUME NEW r \in Runs, OpenFile(r)
        PROVE  \A k \in Keys : Exists(k) => Exists(k)'
    BY <2>1 DEF OpenFile
  <2>2. ASSUME NEW r \in Runs, WriteFile(r)
        PROVE  \A k \in Keys : Exists(k) => Exists(k)'
    BY <2>2 DEF WriteFile, Written
  <2>3. ASSUME NEW k \in Keys, Recover(k)
        PROVE  \A j \in Keys : Exists(j) => Exists(j)'
    BY <2>3 DEF Recover
  <2>4. CASE UNCHANGED file
    BY <2>4
  <2> QED
    BY <2>1, <2>2, <2>3, <2>4
       DEF Next, Step, Begin, OpenNew, OpenRefused, OpenNext, OpenActive, Append_, OpenTmp,
           WriteTmp, RemoveTmp, Rotate, RotateFails, Stops
<1>2. ASSUME NEW n, NamedUpTo(n)
      PROVE  NamedUpTo(n)'
  BY <1>1, <1>2 DEF NamedUpTo
<1> QED
  BY <1>1, <1>2

\* The name a rotation takes is beyond the manifest it closes: all names below
\* that manifest's are taken, and so is its own.
LEMMA SuccessorBeyond ==
  ASSUME TypeOK, PointerInv, NEW r \in Runs, pc[r] = "rotate",
         NEW n \in Free, \A m \in Free : n <= m
  PROVE  n \in Keys /\ n > key[r] /\ NamedUpTo(n)
<1>1. n \in Keys /\ n \in Nat /\ n >= 2 /\ ~Exists(n) /\ key[r] \in Keys /\ key[r] \in Nat
  BY BoundsTyped DEF Free, TypeOK, Keys
<1>2. \A m \in Keys : 2 <= m /\ m < n => Exists(m)
  BY <1>1, BoundsTyped DEF Free, Keys
<1>3. Exists(key[r]) /\ NamedUpTo(key[r])
  BY DEF PointerInv, OpenedExists, KeysNamed
<1>4. ~(n < key[r]) /\ n # key[r]
  BY <1>1, <1>3 DEF NamedUpTo
<1>5. n > key[r]
  BY <1>1, <1>4
<1> QED
  BY <1>1, <1>2, <1>5 DEF NamedUpTo

\* Every step keeps the pointers increasing and their names without gaps.
LEMMA PointersPreserved ==
  ASSUME TypeOK, PointerInv, Next
  PROVE  PointerInv'
<1> USE NamesPersist DEF TypeOK, PointerInv, Goto, Unloaded, KeysNamed, FilePointers, TmpPointers,
                         MemPointers, OpenedExists
<1>1. ASSUME NEW r \in Runs, Begin(r)
      PROVE  PointerInv'
  BY <1>1 DEF Begin, Closed
<1>2. ASSUME NEW r \in Runs, OpenNew(r)
      PROVE  PointerInv'
  BY <1>2 DEF OpenNew, NewManifest, Closed
<1>3. ASSUME NEW r \in Runs, OpenRefused(r)
      PROVE  PointerInv'
  BY <1>3 DEF OpenRefused, Closed
<1>4. ASSUME NEW r \in Runs, OpenNext(r)
      PROVE  PointerInv'
  BY <1>4 DEF OpenNext, Follows, Closed, NewManifest
<1>5. ASSUME NEW r \in Runs, OpenActive(r)
      PROVE  PointerInv'
  BY <1>5 DEF OpenActive, Closed
<1>6. ASSUME NEW r \in Runs, Append_(r)
      PROVE  PointerInv'
  <2>1. mem'[r].next = mem[r].next /\ \A s \in Runs \ {r} : mem'[s] = mem[s]
    <3>1. CASE UNCHANGED mem
      BY <3>1
    <3>2. CASE \E n \in Batches : mem' = [mem EXCEPT ![r].recs = @ \o Batch(r, n)]
      BY <3>2, AppendTyped
    <3> QED
      BY <1>6, <3>1, <3>2 DEF Append_
  <2> QED
    BY <1>6, <2>1 DEF Append_, Closed
<1>7. ASSUME NEW r \in Runs, OpenTmp(r)
      PROVE  PointerInv'
  BY <1>7 DEF OpenTmp, Emptied, NewManifest, Closed
<1>8. ASSUME NEW r \in Runs, WriteTmp(r)
      PROVE  PointerInv'
  BY <1>8 DEF WriteTmp, Written, Whole, Torn, NewManifest, Closed
<1>9. ASSUME NEW r \in Runs, OpenFile(r)
      PROVE  PointerInv'
  BY <1>9 DEF OpenFile, Emptied, NewManifest, Closed, Exists
<1>10. ASSUME NEW r \in Runs, WriteFile(r)
      PROVE  PointerInv'
  BY <1>10 DEF WriteFile, Written, Whole, Torn, NewManifest, Closed, Exists
<1>11. ASSUME NEW r \in Runs, RemoveTmp(r)
      PROVE  PointerInv'
  BY <1>11 DEF RemoveTmp, Absent, NewManifest, Closed
<1>12. ASSUME NEW r \in Runs, Rotate(r)
      PROVE  PointerInv'
  <2>1. PICK n \in Free : /\ \A m \in Free : n <= m
                         /\ mem' = [mem EXCEPT ![r].next = n]
    BY <1>12 DEF Rotate
  <2>2. n \in Keys /\ n > key[r] /\ NamedUpTo(n)
    BY <1>12, <2>1, SuccessorBeyond DEF Rotate
  <2>3. mem'[r].next = n /\ \A s \in Runs \ {r} : mem'[s] = mem[s]
    BY <2>1 DEF Document
  <2> QED
    BY <1>12, <2>2, <2>3 DEF Rotate, Closed
<1>13. ASSUME NEW r \in Runs, RotateFails(r)
      PROVE  PointerInv'
  BY <1>13 DEF RotateFails, Closed
<1>14. ASSUME NEW r \in Runs, Stops(r)
      PROVE  PointerInv'
  BY <1>14 DEF Stops, Closed
<1>15. ASSUME NEW k \in Keys, Recover(k)
      PROVE  PointerInv'
  BY <1>15 DEF Recover, Absent, NewManifest, Closed
<1> QED
  BY <1>1, <1>2, <1>3, <1>4, <1>5, <1>6, <1>7, <1>8, <1>9, <1>10, <1>11, <1>12, <1>13, <1>14, <1>15 DEF Next, Step

\* What a run that works alone knows of its manifest and of the copy.
LEMMA AloneKnows ==
  ASSUME SerialInv, NEW r \in Runs
  PROVE  /\ pc[r] = "writeTmp" => tmp[key[r]].state = "empty" /\ ~lost[r]
         /\ pc[r] = "openFile" => tmp[key[r]] = Whole(mem[r]) /\ mem[r] # NewManifest
         /\ pc[r] = "writeFile" => /\ file[key[r]].state = "empty"
                                  /\ tmp[key[r]] = Whole(mem[r]) /\ mem[r] # NewManifest
         /\ pc[r] = "removeTmp" => file[key[r]].state = "whole" /\ file[key[r]] = Whole(mem[r])
         /\ pc[r] = "rotate" => /\ file[key[r]].state = "whole" /\ file[key[r]].doc = mem[r]
                               /\ ~Closed(mem[r])
<1>1. Holds(r)
  BY DEF SerialInv
<1>2. pc[r] = "writeTmp" => tmp[key[r]].state = "empty" /\ ~lost[r]
  BY <1>1 DEF Holds, Emptied
<1>3. pc[r] \in {"openFile", "writeFile"} => tmp[key[r]] = Whole(mem[r]) /\ mem[r] # NewManifest
  BY <1>1 DEF Holds
<1>4. pc[r] = "writeFile" => file[key[r]].state = "empty"
  BY <1>1 DEF Holds, Emptied
<1>5. pc[r] = "removeTmp" => file[key[r]].state = "whole" /\ file[key[r]] = Whole(mem[r])
  BY <1>1 DEF Holds, Whole
<1>6. pc[r] = "rotate" => /\ file[key[r]].state = "whole" /\ file[key[r]].doc = mem[r]
                          /\ ~Closed(mem[r])
  BY <1>1 DEF Holds, Whole
<1> QED
  BY <1>2, <1>3, <1>4, <1>5, <1>6

\* Every step of runs that do not overlap keeps what each knows of its files.
LEMMA SerialPreserved ==
  ASSUME TypeOK, SerialInv, Unloaded, Next, ~Overlap
  PROVE  SerialInv'
<1> USE DEF TypeOK, SerialInv, Goto, Steps, OneRuns, OnlyWholeHolds, Recoverable, Holds, Damaged
<1>1. ASSUME NEW r \in Runs, Begin(r)
      PROVE  SerialInv'
  BY <1>1 DEF Begin
<1>2. ASSUME NEW r \in Runs, OpenNew(r)
      PROVE  SerialInv'
  BY <1>2 DEF OpenNew, Exists, NewManifest
<1>3. ASSUME NEW r \in Runs, OpenRefused(r)
      PROVE  SerialInv'
  BY <1>3 DEF OpenRefused
<1>4. ASSUME NEW r \in Runs, OpenNext(r)
      PROVE  SerialInv'
  BY <1>4 DEF OpenNext
<1>5. ASSUME NEW r \in Runs, OpenActive(r)
      PROVE  SerialInv'
  BY <1>5 DEF OpenActive, Exists, Unreadable, Content
<1>6. ASSUME NEW r \in Runs, Append_(r)
      PROVE  SerialInv'
  <2>1. CASE UNCHANGED mem
    BY <1>6, <2>1, BatchTyped, AppendTyped DEF Append_
  <2>2. CASE ~Closed(mem[r]) /\ \E n \in Batches : mem' = [mem EXCEPT ![r].recs = @ \o Batch(r, n)]
    <3>1. mem'[r] # NewManifest /\ \A s \in Runs \ {r} : mem'[s] = mem[s]
      BY <2>2, AppendTyped
    <3> QED
      BY <1>6, <2>2, <3>1 DEF Append_, Closed
  <2> QED
    BY <1>6, <2>1, <2>2 DEF Append_
<1>7. ASSUME NEW r \in Runs, OpenTmp(r)
      PROVE  SerialInv'
  BY <1>7 DEF OpenTmp, Emptied
<1>8. ASSUME NEW r \in Runs, WriteTmp(r)
      PROVE  SerialInv'
  <2>. key[r] \in Keys
    OBVIOUS
  <2>0. tmp[key[r]].state = "empty" /\ ~lost[r]
    BY <1>8, AloneKnows DEF WriteTmp
  <2>1. /\ tmp'[key[r]] = Whole(mem[r]) /\ UNCHANGED <<file, key, mem, lost>>
        /\ \A k \in Keys \ {key[r]} : tmp'[k] = tmp[k]
    BY <1>8, <2>0, WrittenTyped DEF WriteTmp, Emptied
  <2>2. \A s \in Runs \ {r} : pc[s] \notin Steps /\ pc'[s] = pc[s]
    BY <1>8 DEF WriteTmp
  <2>3. OneRuns'
    BY <1>8, <2>2 DEF WriteTmp
  <2>4. OnlyWholeHolds' /\ Recoverable'
    BY <1>8, <2>0, <2>1 DEF WriteTmp, Emptied, Whole, Absent
  <2>5. \A s \in Runs \ {r} : Holds(s)'
    BY <2>2
  <2>6. Holds(r)'
    BY <1>8, <2>0, <2>1 DEF WriteTmp, Emptied, Whole, Absent, MustRotate
  <2> QED
    BY <2>3, <2>4, <2>5, <2>6
<1>9. ASSUME NEW r \in Runs, OpenFile(r)
      PROVE  SerialInv'
  <2>. key[r] \in Keys
    OBVIOUS
  <2>0. tmp[key[r]] = Whole(mem[r]) /\ mem[r] # NewManifest
    BY <1>9, AloneKnows DEF OpenFile
  <2>1. /\ file'[key[r]] = Emptied /\ UNCHANGED <<tmp, key, mem, lost>>
        /\ \A k \in Keys \ {key[r]} : file'[k] = file[k]
    BY <1>9, <2>0 DEF OpenFile
  <2>2. \A s \in Runs \ {r} : pc[s] \notin Steps /\ pc'[s] = pc[s]
    BY <1>9 DEF OpenFile
  <2>3. OneRuns'
    BY <1>9, <2>2 DEF OpenFile
  <2>4. OnlyWholeHolds' /\ Recoverable'
    BY <1>9, <2>0, <2>1 DEF OpenFile, Emptied, Whole, Absent
  <2>5. \A s \in Runs \ {r} : Holds(s)'
    BY <2>2
  <2>6. Holds(r)'
    BY <1>9, <2>0, <2>1 DEF OpenFile, Emptied, Whole, Absent, MustRotate
  <2> QED
    BY <2>3, <2>4, <2>5, <2>6
<1>10. ASSUME NEW r \in Runs, WriteFile(r)
      PROVE  SerialInv'
  <2>. key[r] \in Keys
    OBVIOUS
  <2>0. file[key[r]].state = "empty" /\ tmp[key[r]] = Whole(mem[r]) /\ mem[r] # NewManifest
    BY <1>10, AloneKnows DEF WriteFile
  <2>1. /\ file'[key[r]] = Whole(mem[r]) /\ UNCHANGED <<tmp, key, mem, lost>>
        /\ \A k \in Keys \ {key[r]} : file'[k] = file[k]
    BY <1>10, <2>0, WrittenTyped DEF WriteFile, Emptied
  <2>2. \A s \in Runs \ {r} : pc[s] \notin Steps /\ pc'[s] = pc[s]
    BY <1>10 DEF WriteFile
  <2>3. OneRuns'
    BY <1>10, <2>2 DEF WriteFile
  <2>4. OnlyWholeHolds' /\ Recoverable'
    BY <1>10, <2>0, <2>1 DEF WriteFile, Emptied, Whole, Absent
  <2>5. \A s \in Runs \ {r} : Holds(s)'
    BY <2>2
  <2>6. Holds(r)'
    BY <1>10, <2>0, <2>1 DEF WriteFile, Emptied, Whole, Absent, MustRotate
  <2> QED
    BY <2>3, <2>4, <2>5, <2>6
<1>11. ASSUME NEW r \in Runs, RemoveTmp(r)
      PROVE  SerialInv'
  <2>. key[r] \in Keys
    OBVIOUS
  <2>0. file[key[r]].state = "whole" /\ file[key[r]] = Whole(mem[r])
    BY <1>11, AloneKnows DEF RemoveTmp
  <2>1. /\ tmp'[key[r]] = Absent /\ UNCHANGED <<file, key, mem>>
        /\ \A k \in Keys \ {key[r]} : tmp'[k] = tmp[k]
    BY <1>11, <2>0 DEF RemoveTmp
  <2>2. \A s \in Runs \ {r} : pc[s] \notin Steps /\ pc'[s] = pc[s]
    BY <1>11 DEF RemoveTmp
  <2>3. OneRuns'
    BY <1>11, <2>2 DEF RemoveTmp
  <2>4. OnlyWholeHolds' /\ Recoverable'
    BY <1>11, <2>0, <2>1 DEF RemoveTmp, Emptied, Whole, Absent
  <2>5. \A s \in Runs \ {r} : Holds(s)'
    BY <2>2
  <2>6. Holds(r)'
    BY <1>11, <2>0, <2>1 DEF RemoveTmp, Emptied, Whole, Absent, MustRotate
  <2> QED
    BY <2>3, <2>4, <2>5, <2>6
<1>12. ASSUME NEW r \in Runs, Rotate(r)
      PROVE  SerialInv'
  <2>. key[r] \in Keys
    OBVIOUS
  <2>0. file[key[r]].state = "whole" /\ file[key[r]].doc = mem[r] /\ ~Closed(mem[r])
    BY <1>12, AloneKnows DEF Rotate
  <2>1. /\ mem'[r] # NewManifest /\ UNCHANGED <<file, tmp, key, lost>>
        /\ \A s \in Runs \ {r} : mem'[s] = mem[s]
    BY <1>12, <2>0, BoundsTyped DEF Rotate, NewManifest, Document, Free, Keys
  <2>2. \A s \in Runs \ {r} : pc[s] \notin Steps /\ pc'[s] = pc[s]
    BY <1>12 DEF Rotate
  <2>3. OneRuns'
    BY <1>12, <2>2 DEF Rotate
  <2>4. OnlyWholeHolds' /\ Recoverable'
    BY <1>12, <2>0, <2>1 DEF Rotate, Emptied, Whole, Absent
  <2>5. \A s \in Runs \ {r} : Holds(s)'
    BY <2>2
  <2>6. Holds(r)'
    BY <1>12, <2>0, <2>1 DEF Rotate, Emptied, Whole, Absent, MustRotate
  <2> QED
    BY <2>3, <2>4, <2>5, <2>6
<1>13. ASSUME NEW r \in Runs, RotateFails(r)
      PROVE  SerialInv'
  BY <1>13 DEF RotateFails
<1>14. ASSUME NEW r \in Runs, Stops(r)
      PROVE  SerialInv'
  BY <1>14 DEF Stops
<1>15. ASSUME NEW k \in Keys, Recover(k)
      PROVE  SerialInv'
  BY <1>15 DEF Recover, Absent
<1> QED
  BY <1>1, <1>2, <1>3, <1>4, <1>5, <1>6, <1>7, <1>8, <1>9, <1>10, <1>11, <1>12, <1>13, <1>14, <1>15 DEF Next, Step

\* A manifest just truncated reads as the document in the memory of its run, which the
\* copy beside it holds.
LEMMA OpenedView ==
  ASSUME TypeOK, SerialInv, NEW r \in Runs, OpenFile(r)
  PROVE  \A k \in Keys : View(k)' = IF k = key[r] THEN mem[r] ELSE View(k)
<1>1. tmp[key[r]] = Whole(mem[r]) /\ key[r] \in Keys
  BY AloneKnows DEF OpenFile, TypeOK
<1>2. file' = [file EXCEPT ![key[r]] = Emptied] /\ UNCHANGED tmp
  BY DEF OpenFile
<1> QED BY <1>1, <1>2 DEF Emptied, Whole, View, Damaged, TypeOK

\* What a step of runs that do not overlap changes of what manifests read as.
LEMMA ViewStep ==
  ASSUME TypeOK, SerialInv, Next
  PROVE  \/ \A k \in Keys : View(k)' = View(k)
         \/ \E r \in Runs :
               /\ OpenFile(r)
               /\ \A k \in Keys : View(k)' = IF k = key[r] THEN mem[r] ELSE View(k)
<1> USE DEF TypeOK, SerialInv, Holds, Damaged, View, Recoverable
<1>1. ASSUME NEW r \in Runs, OpenTmp(r)
      PROVE  \A k \in Keys : View(k)' = View(k)
  BY <1>1 DEF OpenTmp
<1>2. ASSUME NEW r \in Runs, WriteTmp(r)
      PROVE  \A k \in Keys : View(k)' = View(k)
  BY <1>2 DEF WriteTmp
<1>3. ASSUME NEW r \in Runs, OpenFile(r)
      PROVE  \A k \in Keys : View(k)' = IF k = key[r] THEN mem[r] ELSE View(k)
  BY <1>3, OpenedView
<1>4. ASSUME NEW r \in Runs, WriteFile(r)
      PROVE  \A k \in Keys : View(k)' = View(k)
  <2>1. file[key[r]].state = "empty" /\ tmp[key[r]] = Whole(mem[r])
    BY <1>4, AloneKnows DEF WriteFile
  <2>2. file' = [file EXCEPT ![key[r]] = Whole(mem[r])] /\ UNCHANGED tmp
    <3>1. PICK c \in Written(file[key[r]], mem[r]) : file' = [file EXCEPT ![key[r]] = c]
      BY <1>4 DEF WriteFile
    <3>2. c = Whole(mem[r])
      BY <2>1, WrittenTyped
    <3> QED
      BY <1>4, <3>1, <3>2 DEF WriteFile
  <2>3. key[r] \in Keys /\ file \in [Keys -> Content]
    OBVIOUS
  <2> QED
    BY <2>1, <2>2, <2>3 DEF Whole
<1>5. ASSUME NEW r \in Runs, RemoveTmp(r)
      PROVE  \A k \in Keys : View(k)' = View(k)
  <2>1. \A k \in Keys \ {key[r]} : tmp'[k] = tmp[k]
    BY <1>5 DEF RemoveTmp
  <2>2. file[key[r]].state = "whole" /\ UNCHANGED file
    BY <1>5, AloneKnows DEF RemoveTmp
  <2> QED
    BY <2>1, <2>2
<1>6. ASSUME NEW k \in Keys, Recover(k)
      PROVE  \A j \in Keys : View(j)' = View(j)
  BY <1>6 DEF Recover
<1>7. CASE UNCHANGED <<file, tmp>>
  BY <1>7
<1> QED
  BY <1>1, <1>2, <1>3, <1>4, <1>5, <1>6, <1>7
     DEF Next, Step, Begin, OpenNew, OpenRefused, OpenNext, OpenActive, Append_, Rotate,
         RotateFails, Stops

\* No step of runs that do not overlap changes what a closed manifest reads as.
LEMMA ClosedPreserved ==
  ASSUME TypeOK, SerialInv, Next
  PROVE  \A k \in Keys : Closed(View(k)) => View(k)' = View(k)
<1>1. ASSUME NEW r \in Runs, OpenFile(r)
      PROVE  ~Closed(View(key[r]))
  BY <1>1 DEF OpenFile, SerialInv, Holds, View, Damaged
<1> QED BY <1>1, ViewStep

--------------------------------------------------------------------------------
(* Reading a log along its pointers.                                       *)

\* A set of natural numbers has a least one.
LEMMA Least ==
  ASSUME NEW T \in SUBSET Nat, T # {}
  PROVE  \E n \in T : \A m \in T : n <= m
<1>1. IsWellFoundedOn(OpToRel(<, Nat), Nat)
  BY NatLessThanWellFounded
<1>2. PICK n \in T : \A m \in T : ~ (<<m, n>> \in OpToRel(<, Nat))
  BY <1>1, WFMin
<1>3. \A m \in T : <<m, n>> \in OpToRel(<, Nat) <=> m < n
  BY <1>2 DEF OpToRel
<1>4. n \in Nat /\ \A m \in T : m \in Nat /\ ~ (m < n)
  BY <1>2, <1>3
<1> HIDE <1>1
<1> QED BY <1>4

\* A set of names has a last one.
LEMMA LastName ==
  ASSUME NEW T \in SUBSET Keys, T # {}
  PROVE  \E n \in T : \A m \in T : m <= n
<1> DEFINE U == {MaxKey - k : k \in T}
<1>1. MaxKey \in Nat /\ \A k \in T : k \in Nat /\ MaxKey - k \in Nat
  BY BoundsTyped DEF Keys
<1>2. U \in SUBSET Nat /\ U # {}
  BY <1>1
<1>3. PICK u \in U : \A v \in U : u <= v
  <2> HIDE DEF U
  <2> QED BY <1>2, Least
<1>4. PICK n \in T : u = MaxKey - n
  BY <1>3
<1>5. ASSUME NEW m \in T PROVE m <= n
  <2>1. MaxKey - n <= MaxKey - m
    BY <1>3, <1>4
  <2> QED BY <1>1, <2>1
<1> QED BY <1>5

\* A log is the records of its first manifest and then the rest of it.
LEMMA AlongIs ==
  ASSUME NEW v \in [Keys -> Document]
  PROVE  \A k \in Keys :
           /\ Along(v, k) \in Seq(Entry)
           /\ Along(v, k) = v[k].recs \o (IF v[k].next > k THEN Along(v, v[k].next) ELSE <<>>)
<1> DEFINE Reads(f, j) == v[j].recs \o (IF v[j].next > j THEN f[v[j].next] ELSE <<>>)
           From(n) == {j \in Keys : j > n}
           from == CHOOSE f : f = [j \in Keys |-> Reads(f, j)]
<1>1. MaxKey \in Nat \ {0} /\ Keys \subseteq Nat
  BY BoundsTyped DEF Keys
<1>2. \A k \in Keys : v[k].recs \in Seq(Entry) /\ v[k].next \in Keys \cup {0}
  BY DEF Document
<1>3. \A k : Along(v, k) = from[k]
  BY DEF Along
<1>4. ASSUME NEW n \in 0..MaxKey
      PROVE  \E g : g = [j \in From(MaxKey - n) |-> Reads(g, j)]
  <2> DEFINE T == {m \in 0..MaxKey : ~ \E g : g = [j \in From(MaxKey - m) |-> Reads(g, j)]}
  <2>1. SUFFICES ASSUME T # {} PROVE FALSE
    OBVIOUS
  <2>2. T \in SUBSET Nat
    <3>1. T \subseteq 0..MaxKey
      OBVIOUS
    <3>2. 0..MaxKey \subseteq Nat
      BY <1>1
    <3> HIDE DEF T
    <3> QED BY <3>1, <3>2
  <2>3. PICK m \in T : \A l \in T : m <= l
    <3> HIDE DEF T
    <3> QED BY <2>1, <2>2, Least
  <2>4. m \in 0..MaxKey /\ ~ \E g : g = [j \in From(MaxKey - m) |-> Reads(g, j)]
    OBVIOUS
  <2>5. m # 0
    <3>1. From(MaxKey - 0) = {}
      BY <1>1 DEF Keys
    <3>2. [j \in {} |-> 0] = [j \in {} |-> Reads([i \in {} |-> 0], j)]
      OBVIOUS
    <3>3. \E g : g = [j \in {} |-> Reads(g, j)]
      BY <3>2
    <3> QED BY <2>4, <3>1, <3>3
  <2>6. m - 1 \in 0..MaxKey /\ m - 1 \notin T
    <3>1. m \in Nat /\ m - 1 \in 0..MaxKey /\ ~(m <= m - 1)
      BY <1>1, <2>4, <2>5
    <3> HIDE DEF T
    <3> QED BY <2>3, <3>1
  <2>7. PICK g : g = [j \in From(MaxKey - (m - 1)) |-> Reads(g, j)]
    BY <2>6
  <2> HIDE DEF T
  <2> DEFINE new == MaxKey - m + 1
             h == [j \in From(MaxKey - m) |-> IF j = new THEN Reads(g, new) ELSE g[j]]
  <2>8. /\ From(MaxKey - m) = From(MaxKey - (m - 1)) \cup {new}
        /\ new \in Keys /\ new \notin From(MaxKey - (m - 1))
    BY <1>1, <2>4, <2>5 DEF Keys
  <2>9. \A j \in From(MaxKey - m) : h[j] = Reads(h, j)
    <3> SUFFICES ASSUME NEW j \in From(MaxKey - m) PROVE h[j] = Reads(h, j)
      OBVIOUS
    <3>1. v[j].next > j => /\ v[j].next \in From(MaxKey - m) /\ v[j].next # new
                           /\ h[v[j].next] = g[v[j].next]
      <4>1. SUFFICES ASSUME v[j].next > j
                     PROVE  v[j].next \in From(MaxKey - m) /\ v[j].next # new
        OBVIOUS
      <4>2. j \in Keys /\ j \in Nat /\ j > MaxKey - m /\ v[j].next \in Keys
        BY <1>1, <1>2, <4>1
      <4>3. v[j].next \in Nat /\ MaxKey - m \in Int
        BY <1>1, <2>4, <4>2
      <4> QED BY <4>1, <4>2, <4>3
    <3>2. Reads(h, j) = Reads(g, j)
      BY <3>1
    <3>3. j # new => j \in From(MaxKey - (m - 1)) /\ g[j] = Reads(g, j)
      BY <2>7, <2>8
    <3> QED BY <3>2, <3>3
  <2>10. h = [j \in From(MaxKey - m) |-> Reads(h, j)]
    BY <2>9
  <2> HIDE DEF h
  <2>11. \E f : f = [j \in From(MaxKey - m) |-> Reads(f, j)]
    BY <2>10
  <2> QED BY <2>4, <2>11
<1>5. from = [j \in Keys |-> Reads(from, j)]
  <2>1. From(MaxKey - MaxKey) = Keys
    BY <1>1 DEF Keys
  <2>2. MaxKey \in 0..MaxKey
    BY <1>1
  <2>3. \E g : g = [j \in From(MaxKey - MaxKey) |-> Reads(g, j)]
    BY <1>4, <2>2
  <2>4. \E g : g = [j \in Keys |-> Reads(g, j)]
    BY <2>1, <2>3
  <2> QED BY <2>4
<1> HIDE DEF from
<1>6. \A k \in Keys : from[k] = Reads(from, k)
  BY <1>5
<1>7. \A k \in Keys : from[k] \in Seq(Entry)
  <2> DEFINE T == {k \in Keys : from[k] \notin Seq(Entry)}
  <2>1. SUFFICES ASSUME T # {} PROVE FALSE
    OBVIOUS
  <2>2. PICK n \in T : \A m \in T : m <= n
    <3>1. T \in SUBSET Keys
      OBVIOUS
    <3> HIDE DEF T
    <3> QED BY <2>1, <3>1, LastName
  <2>3. n \in Keys /\ from[n] \notin Seq(Entry)
    OBVIOUS
  <2>4. v[n].next > n => v[n].next \in Keys /\ v[n].next \notin T
    <3> SUFFICES ASSUME v[n].next > n PROVE v[n].next \in Keys /\ v[n].next \notin T
      OBVIOUS
    <3>1. v[n].next \in Keys /\ v[n].next \in Nat /\ n \in Nat
      BY <1>1, <1>2, <2>3
    <3>2. ~(v[n].next <= n)
      BY <3>1
    <3> HIDE DEF T
    <3> QED BY <2>2, <3>1, <3>2
  <2>5. v[n].next > n => from[v[n].next] \in Seq(Entry)
    BY <2>4
  <2>6. v[n].recs \in Seq(Entry) /\ (IF v[n].next > n THEN from[v[n].next] ELSE <<>>) \in Seq(Entry)
    BY <1>2, <2>3, <2>5
  <2>7. Reads(from, n) \in Seq(Entry)
    BY <2>6
  <2> QED BY <1>6, <2>3, <2>7
<1> QED BY <1>3, <1>6, <1>7

\* Records written in two parts.
LEMMA Associative ==
  \A x, y, z \in Seq(Entry) : (x \o y) \o z = x \o (y \o z)
<1> SUFFICES ASSUME NEW x \in Seq(Entry), NEW y \in Seq(Entry), NEW z \in Seq(Entry)
             PROVE  (x \o y) \o z = x \o (y \o z)
  OBVIOUS
<1> DEFINE l == (x \o y) \o z
           r == x \o (y \o z)
<1>1. l \in Seq(Entry) /\ r \in Seq(Entry)
  OBVIOUS
<1>2. Len(l) = Len(r)
  OBVIOUS
<1>3. \A i \in 1..Len(l) : l[i] = r[i]
  OBVIOUS
<1> QED BY <1>1, <1>2, <1>3, SeqEqual, Zenon

\* Records appended to the last manifest are appended to the log.
LEMMA AlongAppended ==
  ASSUME NEW v \in [Keys -> Document], NEW a \in Keys, Leads(v, a),
         NEW d \in Document, NEW more \in Seq(Entry),
         d.recs = v[a].recs \o more, d.next = 0
  PROVE  Along([v EXCEPT ![a] = d], 1) = Along(v, 1) \o more
<1> DEFINE w == [v EXCEPT ![a] = d]
           T == {k \in 1..a : Along(w, k) # Along(v, k) \o more}
<1>1. MaxKey \in Nat \ {0} /\ Keys = 1..MaxKey /\ a \in 1..MaxKey /\ 1..a \subseteq Keys
  BY BoundsTyped DEF Keys
<1>2. w \in [Keys -> Document] /\ w[a] = d /\ \A k \in Keys \ {a} : w[k] = v[k]
  OBVIOUS
<1> HIDE DEF w
<1>3. \A k \in Keys : Along(v, k) \in Seq(Entry) /\ v[k].recs \in Seq(Entry)
  BY AlongIs DEF Document
<1>4. T = {}
  <2>1. SUFFICES ASSUME T # {} PROVE FALSE
    OBVIOUS
  <2>2. PICK n \in T : \A m \in T : m <= n
    <3>1. T \in SUBSET Keys
      BY <1>1
    <3> HIDE DEF T
    <3> QED BY <2>1, <3>1, LastName
  <2>3. n \in 1..a /\ n \in Keys /\ n \in Nat /\ Along(w, n) # Along(v, n) \o more
    BY <1>1
  <2>4. CASE n = a
    <3>1. ~(0 > n)
      BY <2>3
    <3>2. Along(w, n) = d.recs \o <<>>
      BY <1>2, <2>3, <2>4, <3>1, AlongIs
    <3>3. Along(v, n) = v[a].recs \o <<>>
      BY <2>3, <2>4, <3>1, AlongIs DEF Leads
    <3>4. d.recs \o <<>> = (v[a].recs \o <<>>) \o more
      BY <1>3
    <3> QED BY <2>3, <3>2, <3>3, <3>4
  <2>5. CASE n # a
    <3>1. n \in 1..(a - 1) /\ n + 1 \in 1..a /\ n + 1 > n /\ n + 1 \in Keys /\ ~(n + 1 <= n)
      BY <1>1, <2>3, <2>5
    <3>2. Along(w, n + 1) = Along(v, n + 1) \o more
      <4>1. n + 1 \notin T
        <5> HIDE DEF T
        <5> QED BY <2>2, <3>1
      <4> QED BY <3>1, <4>1
    <3>3. v[n].next = n + 1 /\ w[n] = v[n]
      BY <1>2, <2>3, <2>5, <3>1 DEF Leads
    <3>4. Along(v, n) = v[n].recs \o Along(v, n + 1) /\ Along(w, n) = v[n].recs \o Along(w, n + 1)
      BY <1>2, <2>3, <3>1, <3>3, AlongIs
    <3>5. v[n].recs \o (Along(v, n + 1) \o more) = (v[n].recs \o Along(v, n + 1)) \o more
      <4>1. v[n].recs \in Seq(Entry) /\ Along(v, n + 1) \in Seq(Entry) /\ more \in Seq(Entry)
        BY <1>3, <2>3, <3>1
      <4>2. \A x, y, z \in Seq(Entry) : (x \o y) \o z = x \o (y \o z)
        BY Associative
      <4> QED BY <4>1, <4>2
    <3> QED BY <2>3, <3>2, <3>4, <3>5
  <2> QED BY <2>4, <2>5
<1>5. 1 \in 1..a
  BY <1>1
<1> QED BY <1>4, <1>5 DEF w

\* Closing the last manifest onto an empty one leaves the log as it is.
LEMMA AlongClosed ==
  ASSUME NEW v \in [Keys -> Document], NEW a \in Keys, Leads(v, a),
         NEW d \in Document, d.recs = v[a].recs, d.next = a + 1,
         a + 1 \in Keys, v[a + 1] = NewManifest
  PROVE  Along([v EXCEPT ![a] = d], 1) = Along(v, 1)
<1> DEFINE w == [v EXCEPT ![a] = d]
           T == {k \in 1..a : Along(w, k) # Along(v, k)}
<1>1. MaxKey \in Nat \ {0} /\ Keys = 1..MaxKey /\ a \in 1..MaxKey /\ 1..a \subseteq Keys
  BY BoundsTyped DEF Keys
<1>2. w \in [Keys -> Document] /\ w[a] = d /\ \A k \in Keys \ {a} : w[k] = v[k]
  OBVIOUS
<1> HIDE DEF w
<1>3. \A k \in Keys : Along(v, k) \in Seq(Entry) /\ v[k].recs \in Seq(Entry)
  BY AlongIs DEF Document
<1>4. Along(w, a + 1) = <<>>
  <2>1. w[a + 1] = NewManifest /\ ~(0 > a + 1)
    BY <1>1, <1>2
  <2>2. w[a + 1].next = 0 /\ w[a + 1].recs = <<>>
    BY <2>1 DEF NewManifest
  <2>3. Along(w, a + 1) = <<>> \o <<>>
    BY <1>2, <2>1, <2>2, AlongIs
  <2> QED BY <2>3
<1>5. T = {}
  <2>1. SUFFICES ASSUME T # {} PROVE FALSE
    OBVIOUS
  <2>2. PICK n \in T : \A m \in T : m <= n
    <3>1. T \in SUBSET Keys
      BY <1>1
    <3> HIDE DEF T
    <3> QED BY <2>1, <3>1, LastName
  <2>3. n \in 1..a /\ n \in Keys /\ n \in Nat /\ Along(w, n) # Along(v, n)
    BY <1>1
  <2>4. CASE n = a
    <3>1. ~(0 > n) /\ a + 1 > n
      BY <2>3, <2>4
    <3>2. Along(w, n) = v[a].recs \o <<>>
      BY <1>2, <1>4, <2>3, <2>4, <3>1, AlongIs
    <3>3. Along(v, n) = v[a].recs \o <<>>
      BY <2>3, <2>4, <3>1, AlongIs DEF Leads
    <3> QED BY <2>3, <3>2, <3>3
  <2>5. CASE n # a
    <3>1. n \in 1..(a - 1) /\ n + 1 \in 1..a /\ n + 1 > n /\ n + 1 \in Keys /\ ~(n + 1 <= n)
      BY <1>1, <2>3, <2>5
    <3>2. Along(w, n + 1) = Along(v, n + 1)
      <4>1. n + 1 \notin T
        <5> HIDE DEF T
        <5> QED BY <2>2, <3>1
      <4> QED BY <3>1, <4>1
    <3>3. v[n].next = n + 1 /\ w[n] = v[n]
      BY <1>2, <2>3, <2>5, <3>1 DEF Leads
    <3>4. Along(v, n) = v[n].recs \o Along(v, n + 1) /\ Along(w, n) = v[n].recs \o Along(w, n + 1)
      BY <1>2, <2>3, <3>1, <3>3, AlongIs
    <3> QED BY <2>3, <3>2, <3>4
  <2> QED BY <2>4, <2>5
<1>6. 1 \in 1..a
  BY <1>1
<1> QED BY <1>5, <1>6 DEF w

--------------------------------------------------------------------------------
(* The log of runs one after another.                                      *)

LEMMA ViewsTyped ==
  ASSUME TypeOK
  PROVE  Views \in [Keys -> Document] /\ \A k \in Keys : Views[k] = View(k)
<1>1. \A k \in Keys : View(k) \in Document
  BY DEF TypeOK, View, Content
<1> QED BY <1>1 DEF Views

\* A step changes what a manifest reads as only when it truncates one, and then the
\* document its run has in memory is in the copy beside it.
LEMMA ViewsStep ==
  ASSUME TypeOK, SerialInv, Next
  PROVE  /\ (\A r \in Runs : ~OpenFile(r)) => Views' = Views
         /\ \A r \in Runs : OpenFile(r) => Views' = [Views EXCEPT ![key[r]] = mem[r]]
<1>1. ASSUME \A r \in Runs : ~OpenFile(r) PROVE Views' = Views
  BY <1>1, ViewStep DEF Views
<1>2. ASSUME NEW r \in Runs, OpenFile(r) PROVE Views' = [Views EXCEPT ![key[r]] = mem[r]]
  BY <1>2, OpenedView DEF Views
<1> QED BY <1>1, <1>2

\* A step is a step of one run.
LEMMA OneMoves ==
  ASSUME TypeOK, NEW r \in Runs, Begin(r) \/ Step(r) \/ Stops(r), NEW s \in Runs, OpenFile(s)
  PROVE  s = r
<1>1. pc'[s] # pc[s]
  BY DEF OpenFile, Goto, TypeOK
<1>2. \A t \in Runs \ {r} : pc'[t] = pc[t]
  BY DEF Step, Begin, Stops, OpenNew, OpenRefused, OpenNext, OpenActive, Append_, OpenTmp,
     WriteTmp, OpenFile, WriteFile, RemoveTmp, Rotate, RotateFails, Goto, TypeOK
<1> QED BY <1>1, <1>2

\* Whose records are in a log after a batch is appended.
LEMMA HasAppended ==
  ASSUME NEW log \in Seq(Entry), NEW r \in Runs, NEW n \in Batches, NEW s \in Runs
  PROVE  Has(log \o Batch(r, n), s) <=> Has(log, s) \/ s = r
<1> DEFINE b == Batch(r, n)
           all == log \o b
<1>1. b \in Seq(Entry) /\ Len(b) = n /\ n \in Nat /\ n # 0 /\ \A i \in 1..n : b[i].run = r
  BY BatchTyped, BoundsTyped DEF Batch
<1> HIDE DEF b
<1>2. /\ DOMAIN log = 1..Len(log) /\ Len(log) \in Nat
      /\ DOMAIN all = 1..(Len(log) + n)
      /\ \A i \in 1..Len(log) : all[i] = log[i]
      /\ \A i \in 1..n : all[Len(log) + i] = b[i]
  BY <1>1
<1> HIDE DEF all
<1>3. ASSUME NEW i \in DOMAIN all, all[i].run = s PROVE Has(log, s) \/ s = r
  <2>1. CASE i \in 1..Len(log)
    BY <1>2, <1>3, <2>1 DEF Has
  <2>2. CASE i \notin 1..Len(log)
    <3>1. i - Len(log) \in 1..n /\ i = Len(log) + (i - Len(log))
      BY <1>1, <1>2, <2>2
    <3> QED BY <1>1, <1>2, <1>3, <3>1
  <2> QED BY <2>1, <2>2
<1>4. ASSUME Has(log, s) PROVE Has(all, s)
  <2>1. PICK i \in DOMAIN log : log[i].run = s
    BY <1>4 DEF Has
  <2>2. i \in DOMAIN all /\ all[i] = log[i]
    BY <1>1, <1>2
  <2> QED BY <2>1, <2>2 DEF Has
<1>5. ASSUME s = r PROVE Has(all, s)
  <2>1. 1 \in 1..n /\ Len(log) + 1 \in DOMAIN all
    BY <1>1, <1>2
  <2> QED BY <1>1, <1>2, <1>5, <2>1 DEF Has
<1>6. Has(all, s) <=> Has(log, s) \/ s = r
  BY <1>3, <1>4, <1>5 DEF Has
<1> QED BY <1>6 DEF all, b

\* A run at work on a manifest that is not closed works on the last one.
LEMMA AtTheEnd ==
  ASSUME TypeOK, NEW r \in Runs, NEW a \in Keys, EndsAt(a),
         ~Damaged(key[r]), ~Closed(file[key[r]].doc)
  PROVE  key[r] = a
<1>1. Views[key[r]] = file[key[r]].doc
  BY ViewsTyped DEF View, TypeOK
<1>2. Views[key[r]].next = 0
  BY <1>1 DEF Closed
<1>3. key[r] \in Nat /\ a \in Nat /\ key[r] >= 1 /\ key[r] <= a
  BY BoundsTyped DEF EndsAt, TypeOK, Keys
<1>4. key[r] # a => key[r] \in 1..(a - 1) /\ key[r] + 1 # 0
  BY <1>3
<1> QED BY <1>2, <1>4 DEF EndsAt, Leads

\* Where a run that no step of it moves stands.
LEMMA OthersLogged ==
  ASSUME NEW s \in Runs, Logged(s), pc[s] \notin Steps, pc'[s] = pc[s],
         Has(Log', s) <=> Has(Log, s)
  PROVE  Logged(s)'
BY DEF Logged, Steps

\* Steps that leave every manifest as it reads keep the log, its end, and what each run
\* has in it.
LEMMA QuietSteps ==
  ASSUME TypeOK, TypeOK', SerialInv, LogInv, Views' = Views, NEW r \in Runs,
         Begin(r) \/ Step(r) \/ Stops(r), ~OpenFile(r)
  PROVE  LogInv' /\ Log' = Log
<1> USE DEF Goto
<1>1. Log' = Log
  BY DEF Log
<1>2. PICK a \in Keys : EndsAt(a)
  BY DEF LogInv
<1>3. \A k \in Keys : Exists(k)' <=> Exists(k)
  <2>1. CASE WriteFile(r)
    <3>1. file[key[r]] = Emptied /\ key[r] \in Keys
      BY <2>1 DEF SerialInv, Holds, WriteFile, TypeOK
    <3>2. PICK c \in Written(file[key[r]], mem[r]) : file' = [file EXCEPT ![key[r]] = c]
      BY <2>1 DEF WriteFile
    <3>3. c.state = "whole"
      BY <3>1, <3>2 DEF Written, Emptied, Whole
    <3> QED BY <3>1, <3>2, <3>3 DEF Exists, Emptied, TypeOK
  <2>2. CASE ~WriteFile(r)
    <3>1. UNCHANGED file
      BY <2>2 DEF Step, Begin, Stops, OpenNew, OpenRefused, OpenNext, OpenActive, Append_, OpenTmp,
         WriteTmp, RemoveTmp, Rotate, RotateFails
    <3> QED BY <3>1 DEF Exists
  <2> QED BY <2>1, <2>2
<1>4. \A s \in Runs : key'[s] <= a
  <2>1. CASE OpenNext(r)
    <3>1. ~Damaged(key[r]) /\ Closed(file[key[r]].doc) /\ key[r] \in Keys
      BY <2>1 DEF OpenNext, Unreadable, Follows, TypeOK
    <3>2. Views[key[r]] = file[key[r]].doc
      BY <3>1, ViewsTyped DEF View
    <3>3. key[r] # a /\ key[r] <= a /\ key[r] \in Nat /\ a \in Nat /\ key[r] >= 1
      BY <1>2, <3>1, <3>2, BoundsTyped DEF EndsAt, Leads, Closed, Keys
    <3>4. key[r] \in 1..(a - 1) /\ key[r] + 1 <= a
      BY <3>3
    <3>5. file[key[r]].doc.next <= a
      BY <1>2, <3>2, <3>4 DEF EndsAt, Leads
    <3> QED BY <1>2, <2>1, <3>5 DEF OpenNext, EndsAt, TypeOK
  <2>2. CASE ~OpenNext(r)
    <3>1. UNCHANGED key
      BY <2>2 DEF Step, Begin, Stops, OpenNew, OpenRefused, OpenActive, Append_, OpenTmp,
         WriteTmp, WriteFile, RemoveTmp, Rotate, RotateFails
    <3> QED BY <1>2, <3>1 DEF EndsAt
  <2> QED BY <2>1, <2>2
<1>5. EndsAt(a)'
  <2>1. Leads(Views', a) /\ \A k \in Keys : k > a => ~Exists(k)
    BY <1>2 DEF EndsAt
  <2> QED BY <1>3, <1>4, <2>1 DEF EndsAt
<1>6. ASSUME NEW s \in Runs, s # r PROVE Logged(s)'
  <2>1. pc'[s] = pc[s] /\ Logged(s)
    BY <1>6 DEF Step, Begin, Stops, OpenNew, OpenRefused, OpenNext, OpenActive, Append_, OpenTmp,
       WriteTmp, WriteFile, RemoveTmp, Rotate, RotateFails, TypeOK, LogInv
  <2>2. CASE Begin(r)
    BY <1>1, <2>1, <2>2 DEF Begin, Logged, Appends, Closes
  <2>3. CASE pc[r] \in Steps
    BY <1>1, <1>6, <2>1, <2>3, OthersLogged DEF SerialInv, OneRuns
  <2> QED
    BY <2>2, <2>3 DEF Step, Stops, OpenNew, OpenRefused, OpenNext, OpenActive, Append_, OpenTmp,
       WriteTmp, WriteFile, RemoveTmp, Rotate, RotateFails, Steps
<1>7. Logged(r)'
  <2>1. Logged(r) /\ Holds(r) /\ pc \in [Runs -> {"idle"} \cup Steps \cup Ended] /\ key[r] \in Keys
    BY DEF LogInv, SerialInv, TypeOK
  <2>2. CASE Begin(r) \/ OpenNew(r) \/ OpenRefused(r) \/ OpenNext(r) \/ OpenActive(r)
             \/ RotateFails(r) \/ Stops(r)
    BY <1>1, <2>1, <2>2 DEF Logged, Begin, OpenNew, OpenRefused, OpenNext, OpenActive, RotateFails,
       Stops
  <2>3. CASE Append_(r)
    <3>1. CASE Closed(mem[r])
      BY <2>1, <2>3, <3>1 DEF Append_, Logged
    <3>2. CASE ~Closed(mem[r])
      <4>1. PICK n \in Batches : mem' = [mem EXCEPT ![r].recs = @ \o Batch(r, n)]
        BY <2>3, <3>2 DEF Append_
      <4>2. /\ mem'[r].next = 0 /\ mem'[r].recs = mem[r].recs \o Batch(r, n)
            /\ mem[r] = file[key[r]].doc
        BY <2>1, <2>3, <3>2, <4>1, AppendTyped DEF Closed, Append_, Holds, TypeOK, Document
      <4>3. pc'[r] = "openTmp" /\ UNCHANGED <<file, key>> /\ ~Has(Log', r)
        BY <1>1, <2>1, <2>3, <3>2 DEF Append_, Logged
      <4> QED BY <4>2, <4>3 DEF Logged, Appends
    <3> QED BY <3>1, <3>2
  <2>4. CASE OpenTmp(r) \/ WriteTmp(r)
    <3>1. /\ pc[r] \in {"openTmp", "writeTmp"} /\ pc'[r] \in {"writeTmp", "openFile"}
          /\ UNCHANGED <<file, key, mem>>
      BY <2>1, <2>4 DEF OpenTmp, WriteTmp
    <3>2. Appends(r) \/ Closes(r)
      BY <2>1, <3>1 DEF Logged
    <3>3. Appends(r)' \/ Closes(r)'
      BY <1>1, <3>1, <3>2 DEF Appends, Closes
    <3> QED BY <3>1, <3>3 DEF Logged
  <2>5. CASE WriteFile(r) \/ RemoveTmp(r)
    <3>1. pc[r] \in {"writeFile", "removeTmp"} /\ pc'[r] \in {"removeTmp", "rotate", "done"}
      BY <2>1, <2>5 DEF WriteFile, RemoveTmp
    <3> QED BY <1>1, <2>1, <3>1 DEF Logged
  <2>6. CASE Rotate(r)
    <3>1. file[key[r]] = Whole(mem[r]) /\ ~Closed(mem[r]) /\ pc'[r] = "openTmp" /\ Has(Log', r)
      BY <1>1, <2>1, <2>6 DEF Rotate, Holds, Logged
    <3>2. file[key[r]].doc = mem[r] /\ ~Damaged(key[r]) /\ Exists(key[r])
      BY <3>1 DEF Whole, Damaged, Exists
    <3>3. key[r] = a
      BY <1>2, <3>1, <3>2, AtTheEnd
    <3>4. PICK n \in Free : (\A m \in Free : n <= m) /\ mem' = [mem EXCEPT ![r].next = n]
      BY <2>6 DEF Rotate
    <3>5. \A k \in 1..a : Exists(k)
      <4>1. SUFFICES ASSUME NEW k \in 1..a, k # a PROVE Exists(k)
        BY <3>2, <3>3
      <4>2. k \in 1..(a - 1) /\ k \in Keys /\ k + 1 # 0
        BY <1>2, <4>1, BoundsTyped DEF Keys
      <4>3. View(k).next # 0
        BY <1>2, <4>2, ViewsTyped DEF EndsAt, Leads
      <4>4. CASE ~Exists(k)
        BY <4>2, <4>3, <4>4 DEF View, Exists, Damaged, SerialInv, OnlyWholeHolds, NewManifest
      <4> QED BY <4>4
    <3>6. n = a + 1
      <4>1. a \in Nat /\ a >= 1 /\ MaxKey \in Nat /\ n \in 2..MaxKey /\ ~Exists(n)
        BY <1>2, <3>4, BoundsTyped DEF Free, Keys
      <4>2. n \notin 1..a
        BY <3>5, <4>1
      <4>3. a + 1 \in Keys /\ a + 1 >= 2 /\ a + 1 > a
        BY <4>1, <4>2 DEF Keys
      <4>4. a + 1 \in Free
        BY <1>2, <4>3 DEF EndsAt, Free
      <4> QED BY <3>4, <4>1, <4>2, <4>4
    <3>7. mem'[r].next = key'[r] + 1 /\ mem'[r].recs = file'[key'[r]].doc.recs
      BY <2>6, <3>2, <3>3, <3>4, <3>6 DEF Rotate, TypeOK, Document
    <3> QED BY <3>1, <3>7 DEF Logged, Closes
  <2> QED BY <2>2, <2>3, <2>4, <2>5, <2>6 DEF Step
<1> QED BY <1>1, <1>5, <1>6, <1>7 DEF LogInv

\* The one step that changes the log appends a run's records to it, whole and the first
\* time, or changes only the files it is kept in.
LEMMA LogSteps ==
  ASSUME TypeOK, TypeOK', SerialInv, LogInv, NEW r \in Runs, OpenFile(r),
         Views' = [Views EXCEPT ![key[r]] = mem[r]]
  PROVE  /\ LogInv'
         /\ \/ Log' = Log
            \/ ~Has(Log, r) /\ \E n \in Batches : Log' = Log \o Batch(r, n)
<1> USE DEF Goto
<1>1. PICK a \in Keys : EndsAt(a)
  BY DEF LogInv
<1>2. /\ pc[r] = "openFile" /\ pc'[r] = "writeFile" /\ key[r] \in Keys
      /\ file' = [file EXCEPT ![key[r]] = Emptied] /\ UNCHANGED <<tmp, key, mem>>
  BY DEF OpenFile, TypeOK
<1>3. ~Damaged(key[r]) /\ ~Closed(file[key[r]].doc)
  BY <1>2 DEF SerialInv, Holds, Damaged
<1>4. key[r] = a
  BY <1>1, <1>3, AtTheEnd
<1>5. Views \in [Keys -> Document] /\ Views[a] = file[a].doc /\ mem[r] \in Document
  BY <1>2, <1>3, <1>4, ViewsTyped DEF View, TypeOK
<1>6. Leads(Views, a) /\ 1 \in Keys /\ a \in Nat
  BY <1>1, BoundsTyped DEF EndsAt, Keys
<1>7. Views' = [Views EXCEPT ![a] = mem[r]] /\ Log = Along(Views, 1) /\ Log' = Along(Views', 1)
  BY <1>4 DEF Log
<1>8. Log \in Seq(Entry)
  BY <1>5, <1>6, <1>7, AlongIs
<1>9. Appends(r) \/ Closes(r)
  BY <1>2 DEF LogInv, Logged
<1>10. \A k \in Keys \ {a} : Exists(k)' <=> Exists(k)
  BY <1>2, <1>4 DEF Exists
<1>11. \A s \in Runs \ {r} : Logged(s) /\ pc[s] \notin Steps /\ pc'[s] = pc[s]
  BY DEF OpenFile, LogInv, SerialInv, OneRuns, Steps, TypeOK
<1>12. CASE Appends(r)
  <2>1. PICK n \in Batches : mem[r].recs = file[a].doc.recs \o Batch(r, n)
    BY <1>4, <1>12 DEF Appends
  <2>2. Batch(r, n) \in Seq(Entry)
    BY BatchTyped
  <2>3. mem[r].next = 0 /\ mem[r].recs = Views[a].recs \o Batch(r, n)
    BY <1>5, <1>12, <2>1 DEF Appends
  <2>4. Along([Views EXCEPT ![a] = mem[r]], 1) = Along(Views, 1) \o Batch(r, n)
    BY <1>5, <1>6, <2>2, <2>3, AlongAppended
  <2>5. Log' = Log \o Batch(r, n)
    BY <1>7, <2>4
  <2>6. Leads(Views', a)
    BY <1>5, <1>6, <1>7, <2>3 DEF Leads
  <2>7. EndsAt(a)'
    BY <1>1, <1>2, <1>10, <2>6 DEF EndsAt, Keys
  <2>8. \A s \in Runs : Has(Log', s) <=> Has(Log, s) \/ s = r
    BY <1>8, <2>5, HasAppended
  <2>9. \A s \in Runs \ {r} : Logged(s)'
    BY <1>11, <2>8, OthersLogged
  <2>10. Logged(r)'
    BY <1>2, <2>8 DEF Logged
  <2> QED BY <1>12, <2>5, <2>7, <2>9, <2>10 DEF LogInv, Appends
<1>13. CASE Closes(r)
  <2>1. mem[r].next = a + 1 /\ mem[r].recs = Views[a].recs /\ a + 1 # 0
    BY <1>4, <1>5, <1>6, <1>13 DEF Closes
  <2>2. a + 1 \in Keys /\ a + 1 > a
    BY <1>5, <1>6, <2>1 DEF Document
  <2>3. ~Exists(a + 1)
    BY <1>1, <2>2 DEF EndsAt
  <2>4. Views[a + 1] = NewManifest
    BY <2>2, <2>3, ViewsTyped DEF View, Exists, Damaged, SerialInv, OnlyWholeHolds
  <2>5. Along([Views EXCEPT ![a] = mem[r]], 1) = Along(Views, 1)
    BY <1>5, <1>6, <2>1, <2>2, <2>4, AlongClosed
  <2>6. Log' = Log
    BY <1>7, <2>5
  <2>7. Leads(Views', a + 1)
    <3>1. Views'[a] = mem[r] /\ \A k \in Keys \ {a} : Views'[k] = Views[k]
      BY <1>5, <1>7
    <3>2. Views'[a + 1].next = 0
      BY <2>2, <2>4, <3>1 DEF NewManifest
    <3>3. ASSUME NEW k \in 1..((a + 1) - 1) PROVE Views'[k].next = k + 1
      <4>1. CASE k = a
        BY <2>1, <3>1, <4>1
      <4>2. CASE k # a
        <5>1. k \in 1..(a - 1) /\ k \in Keys
          BY <1>1, <1>6, <4>2, BoundsTyped DEF Keys
        <5> QED BY <1>6, <3>1, <4>2, <5>1 DEF Leads
      <4> QED BY <4>1, <4>2
    <3> QED BY <3>2, <3>3 DEF Leads
  <2>8. EndsAt(a + 1)'
    <3>1. \A k \in Keys : k > a + 1 => ~Exists(k)'
      <4>1. SUFFICES ASSUME NEW k \in Keys, k > a + 1 PROVE ~Exists(k)'
        OBVIOUS
      <4>2. k > a /\ k # a
        BY <1>6, <4>1 DEF Keys
      <4> QED BY <1>1, <1>10, <4>2 DEF EndsAt
    <3>2. \A s \in Runs : key'[s] <= a + 1
      <4>1. SUFFICES ASSUME NEW s \in Runs PROVE key[s] <= a + 1
        BY <1>2
      <4>2. key[s] <= a /\ key[s] \in Nat
        BY <1>1 DEF EndsAt, TypeOK, Keys
      <4> QED BY <1>6, <4>2
    <3> QED BY <2>7, <3>1, <3>2 DEF EndsAt
  <2>9. \A s \in Runs \ {r} : Logged(s)'
    BY <1>11, <2>6, OthersLogged
  <2>10. Logged(r)'
    BY <1>2, <1>13, <2>6 DEF Logged, Closes
  <2> QED BY <2>2, <2>6, <2>8, <2>9, <2>10 DEF LogInv
<1> QED BY <1>9, <1>12, <1>13

\* Every step of the files is a step of the log, or none.
LEMMA RefinementStep ==
  ASSUME TypeOK, TypeOK', SerialInv, LogInv, Next
  PROVE  LogInv' /\ (Evidence!Next \/ UNCHANGED <<Log, Told>>)
<1>1. ASSUME NEW k \in Keys, Recover(k)
      PROVE  LogInv' /\ UNCHANGED <<Log, Told>>
  <2>1. Views' = Views
    BY <1>1, ViewsStep DEF OpenFile, Recover, Steps
  <2>2. Log' = Log
    BY <2>1 DEF Log
  <2>3. UNCHANGED <<pc, key>> /\ \A s \in Runs : Logged(s) /\ pc[s] \notin Steps
    BY <1>1 DEF Recover, LogInv
  <2>4. \A s \in Runs : Logged(s)'
    BY <2>2, <2>3, OthersLogged
  <2>5. PICK a \in Keys : EndsAt(a)
    BY DEF LogInv
  <2>6. Leads(Views', a)
    BY <2>1, <2>5 DEF EndsAt
  <2>7. \A j \in Keys : Exists(j)' <=> Exists(j)
    BY <1>1 DEF Recover, Exists, Damaged, TypeOK
  <2>8. EndsAt(a)'
    BY <2>3, <2>5, <2>6, <2>7 DEF EndsAt
  <2> QED BY <2>2, <2>3, <2>4, <2>8 DEF LogInv, Told
<1>2. ASSUME NEW r \in Runs, OpenFile(r)
      PROVE  LogInv' /\ (Evidence!Next \/ UNCHANGED <<Log, Told>>)
  <2>1. Views' = [Views EXCEPT ![key[r]] = mem[r]]
    BY <1>2, ViewsStep
  <2>2. UNCHANGED Told
    BY <1>2 DEF OpenFile, Told, Goto, TypeOK
  <2>3. LogInv' /\ (Log' = Log \/ Evidence!Record(r))
    BY <1>2, <2>1, <2>2, LogSteps DEF Evidence!Record, Evidence!Recorded, Has, Evidence!Batch, Batch
  <2> QED BY <2>2, <2>3 DEF Evidence!Next
<1>3. ASSUME NEW r \in Runs, Begin(r) \/ Step(r) \/ Stops(r), ~OpenFile(r)
      PROVE  LogInv' /\ (Evidence!Next \/ UNCHANGED <<Log, Told>>)
  <2>1. Views' = Views
    BY <1>3, OneMoves, ViewsStep
  <2>2. LogInv' /\ Log' = Log
    BY <1>3, <2>1, QuietSteps
  <2>3. CASE RemoveTmp(r) /\ pc'[r] = "done"
    <3>1. Has(Log, r)
      BY <2>3 DEF LogInv, Logged, RemoveTmp
    <3>2. Told' = Told \cup {r}
      BY <2>3 DEF RemoveTmp, Told, Goto, TypeOK
    <3> QED BY <2>2, <3>1, <3>2 DEF Evidence!Next, Evidence!Report, Evidence!Recorded, Has
  <2>4. CASE ~(RemoveTmp(r) /\ pc'[r] = "done")
    <3>1. UNCHANGED Told
      BY <1>3, <2>4 DEF Told, Goto, TypeOK, Step, Begin, Stops, OpenNew, OpenRefused, OpenNext,
         OpenActive, Append_, OpenTmp, WriteTmp, WriteFile, RemoveTmp, Rotate, RotateFails, Steps
    <3> QED BY <2>2, <3>1
  <2> QED BY <2>3, <2>4
<1> QED BY <1>1, <1>2, <1>3 DEF Next

\* The directory of an account starts empty.
LEMMA InitInv == Init => TypeOK /\ PointerInv /\ SerialInv
<1> SUFFICES ASSUME Init PROVE TypeOK /\ PointerInv /\ SerialInv
  OBVIOUS
<1>1. TypeOK
  BY BoundsTyped, NewTyped DEF Init, TypeOK, Absent, Content, Keys
<1>2. PointerInv
  BY BoundsTyped DEF Init, PointerInv, Unloaded, KeysNamed, FilePointers, TmpPointers, MemPointers,
     OpenedExists, NamedUpTo, Absent, NewManifest, Closed, Keys
<1>3. SerialInv
  BY DEF Init, SerialInv, OneRuns, OnlyWholeHolds, Recoverable, Holds, Damaged, Absent, Steps
<1> QED
  BY <1>1, <1>2, <1>3

\* Stuttering changes nothing an invariant speaks of.
LEMMA StutterInv ==
  ASSUME UNCHANGED vars
  PROVE  (TypeOK => TypeOK') /\ (PointerInv => PointerInv') /\ (SerialInv => SerialInv')
         /\ \A k \in Keys : View(k)' = View(k)
BY DEF vars, TypeOK, PointerInv, Unloaded, KeysNamed, FilePointers, TmpPointers, MemPointers,
       OpenedExists, NamedUpTo, Exists, SerialInv, OneRuns, OnlyWholeHolds, Recoverable, Holds,
       Damaged, View

\* Types and pointers together are an inductive invariant.
THEOREM TypeAndPointers == Spec => [](TypeOK /\ PointerInv)
<1>1. TypeOK /\ PointerInv /\ [Next]_vars => (TypeOK /\ PointerInv)'
  BY TypePreserved, PointersPreserved, StutterInv
<1> QED
  BY <1>1, InitInv, PTL DEF Spec

\* Every state of every instance is well typed.
THEOREM TypeCorrect == Spec => []TypeOK
BY TypeAndPointers, PTL

\* Rotation pointers lead to higher numbers however runs overlap or die, so the
\* loop of openActiveManifest meets no manifest twice.
THEOREM PointersLeadOn == Spec => []PointersIncrease
<1>1. PointerInv => PointersIncrease
  BY DEF PointerInv, FilePointers, TmpPointers, PointersIncrease
<1> QED
  BY <1>1, TypeAndPointers, PTL

\* What runs one after another know of their files is invariant.
THEOREM SerialInvariance == ~Overlap /\ Spec => []SerialInv
<1>1. ASSUME ~Overlap
      PROVE  Spec => []SerialInv
  <2>1. TypeOK /\ PointerInv /\ SerialInv /\ [Next]_vars => SerialInv'
    BY <1>1, SerialPreserved, StutterInv DEF PointerInv
  <2> QED
    BY <2>1, InitInv, TypeAndPointers, PTL DEF Spec
<1> QED
  BY <1>1

\* Whatever dies between two file operations, a damaged manifest has its
\* complete new document beside it.
THEOREM CopyBesideDamage == ~Overlap /\ Spec => []Recoverable
<1>1. SerialInv => Recoverable
  BY DEF SerialInv
<1> QED
  BY <1>1, SerialInvariance, PTL

\* A manifest that a rotation has closed reads the same for ever after.
THEOREM ClosedForGood == ~Overlap /\ Spec => ClosedStaysClosed
<1>1. TypeOK /\ SerialInv /\ [Next]_vars =>
        [\A k \in Keys : Closed(View(k)) => View(k)' = View(k)]_vars
  BY ClosedPreserved, StutterInv
<1> QED
  BY <1>1, SerialInvariance, TypeAndPointers, PTL DEF Spec, ClosedStaysClosed

\* The log starts empty, and so does what it is kept in.
LEMMA InitLog == Init => LogInv /\ Log = <<>> /\ Told = {}
<1> SUFFICES ASSUME Init PROVE LogInv /\ Log = <<>> /\ Told = {}
  OBVIOUS
<1>1. TypeOK /\ 1 \in Keys /\ MaxKey \in Nat
  BY InitInv, BoundsTyped DEF Keys
<1>2. \A k \in Keys : View(k) = NewManifest /\ ~Exists(k)
  BY DEF Init, View, Damaged, Exists, Absent
<1>3. Views \in [Keys -> Document] /\ Views[1] = NewManifest
  BY <1>1, <1>2, ViewsTyped
<1>4. NewManifest.recs = <<>> /\ NewManifest.next = 0 /\ ~(0 > 1)
  BY DEF NewManifest
<1>5. Log = <<>> \o <<>>
  BY <1>1, <1>3, <1>4, AlongIs DEF Log
<1>6. Log = <<>>
  BY <1>5
<1>7. Leads(Views, 1)
  BY <1>3, <1>4 DEF Leads
<1>8. EndsAt(1)
  BY <1>2, <1>7 DEF EndsAt, Init
<1>9. \A r \in Runs : Logged(r)
  BY <1>6 DEF Init, Logged, Has
<1> QED BY <1>1, <1>6, <1>8, <1>9 DEF LogInv, Init, Told

\* Where the log ends, and whose records are in it, is invariant.
THEOREM LogInvariance == ~Overlap /\ Spec => []LogInv
<1>1. TypeOK /\ TypeOK' /\ SerialInv /\ LogInv /\ [Next]_vars => LogInv'
  <2>1. ASSUME UNCHANGED vars, LogInv PROVE LogInv'
    <3>1. Views' = Views
      BY <2>1 DEF vars, Views, View, Damaged
    <3>2. Log' = Log
      BY <3>1 DEF Log
    <3>3. UNCHANGED <<file, pc, key, mem>>
      BY <2>1 DEF vars
    <3>4. \A a \in Keys : EndsAt(a) => EndsAt(a)'
      BY <3>1, <3>3 DEF EndsAt, Exists
    <3>5. \A r \in Runs : Logged(r) => Logged(r)'
      BY <3>2, <3>3 DEF Logged, Appends, Closes
    <3> QED BY <2>1, <3>4, <3>5 DEF LogInv
  <2> QED BY <2>1, RefinementStep
<1> QED
  BY <1>1, InitLog, SerialInvariance, TypeAndPointers, PTL DEF Spec

\* Whatever dies between two file operations, the files of an account are one log that only
\* grows, each run's records together and at most once, and no run reports what is not
\* there (KeepsTheLog): the store implements EvidenceLog.
THEOREM KeptAsLog == ~Overlap /\ Spec => KeepsTheLog
<1>1. Init => Evidence!Init
  BY InitLog DEF Evidence!Init
<1>2. TypeOK /\ TypeOK' /\ SerialInv /\ LogInv /\ [Next]_vars => [Evidence!Next]_<<Log, Told>>
  <2>1. ASSUME UNCHANGED vars PROVE UNCHANGED <<Log, Told>>
    <3>1. Views' = Views
      BY <2>1 DEF vars, Views, View, Damaged
    <3> QED BY <2>1, <3>1 DEF vars, Log, Told
  <2> QED BY <2>1, RefinementStep
<1> QED
  BY <1>1, <1>2, LogInvariance, SerialInvariance, TypeAndPointers, PTL
     DEF Spec, KeepsTheLog, Evidence!Spec

================================================================================
