----------------------------- MODULE VerifyProofs -----------------------------
(***************************************************************************)
(* Theorems about Verify, for any catalog, buckets, policies and stubs, and *)
(* any number of commands and faults: what a verify concludes was so, a     *)
(* mirrored copy is only added to unless the run says otherwise, and an     *)
(* assessment claims no more than was determined.                           *)
(***************************************************************************)
EXTENDS Integers, Verify, AssessProofs, TLAPS

LOCAL INSTANCE SequencesExt
Order == INSTANCE WellFoundedInduction

--------------------------------------------------------------------------------
(* The inductive invariant.                                                *)

RunFields == {"cmd", "pc", "target", "seen", "found", "unknown", "failed", "key", "at",
              "file", "summary", "exit", "ever", "always", "homes", "stood"}

\* What changes of a command while it does nothing itself: what it is beside.
Beside == {"ever", "always", "homes"}

Reading == {"parents", "list", "describe", "recorder", "status", "channel", "pack", "stubs",
            "fetch"}

TypeOK ==
    /\ run = [f \in RunFields |-> run[f]]
    /\ run.cmd \in {"none", "verify", "vend", "assess"}
    /\ run.pc \in Reading \cup {"apply", "summarize", "sign", "write", "upload", "done"}
    /\ run.at \in 1..Len(Buckets)
    /\ clock \in Nat /\ (~Idle => clock # 0)
    /\ local = [k \in Keys |-> local[k]]
    /\ mirror = [b \in Mirrors |-> [k \in Keys |-> mirror[b][k]]]
    /\ \A k \in Keys : Document(local[k]) /\ \A b \in Mirrors : Document(mirror[b][k])
    /\ standing \in [Mirrors -> {"current", "behind", "witness", "unclear"}]

\* Which command is at which step.
StepsOK ==
    /\ run.pc \in Reading => run.cmd = "verify"
    /\ run.pc = "apply" => run.cmd = "vend"
    /\ run.pc = "summarize" => run.cmd = "assess"
    /\ run.pc \in {"sign", "write", "upload"} => run.cmd # "none"
    /\ run.pc = "upload" => run.cmd # "assess"
    /\ run.pc \notin {"fetch", "upload", "done"} => run.at = 1

\* The last time at which anything was written: this command has written only when it
\* uploads, or is done.
LastWrite == IF run.pc \in {"upload", "done"} THEN clock ELSE clock - 1

DatesOK ==
    \A k \in Keys : /\ WrittenBy(local[k], LastWrite)
                    /\ \A b \in Mirrors : WrittenBy(mirror[b][k], LastWrite)

\* The evidence ends at key a, in the directory and in every bucket.
ChainOK(a) ==
    /\ a \in Keys
    /\ EndsAt(local, a)
    /\ \A k \in (a + 1)..MaxKey : \A b \in Mirrors : Missing(mirror[b][k])

\* What is being uploaded: the manifest at the end, or the one just closed.
UploadOK(a) ==
    run.pc = "upload" =>
        \/ run.key = a
        \/ /\ run.key \in Keys /\ run.key + 1 = a
           /\ Missing(local[a]) /\ \A b \in Mirrors : Missing(mirror[b][a])

\* A bucket the upload has not reached yet.
Pending(i) == run.pc = "upload" /\ i >= run.at

\* The manifest a bucket's standing is about.
Stands(i, a) == IF Pending(i) THEN run.key ELSE a

\* l and m are the same, or there is nothing of either.
Same(l, m) == l = m \/ (Missing(l) /\ Missing(m))

\* l is m with records appended, or there is nothing of m.
Behind(l, m) == Missing(m) \/ Extends(l, m)

\* No record appended to l makes it m again.
Conflicts(l, m) ==
    /\ ~Missing(m)
    /\ \/ Len(l.records) < Len(m.records)
       \/ l.created # m.created
       \/ \E i \in Common(l, m) : l.records[i] # m.records[i]

\* What a bucket's standing means, of the local manifest and its copy.
Means(s, l, m) ==
    /\ s = "current" => Same(l, m)
    /\ s \in {"current", "behind"} => Behind(l, m)
    /\ s = "witness" => Conflicts(l, m)

StandingOK(a) ==
    \A i \in DOMAIN Buckets :
        LET b == Buckets[i] IN
        /\ Means(standing[b], local[Stands(i, a)], mirror[b][Stands(i, a)])
        /\ Pending(i) => standing[b] # "current"

\* The buckets a verify has compared, and not replaced since.
Fetched(i) == \/ run.pc = "fetch" /\ i < run.at
              \/ run.pc \in {"sign", "write"}
              \/ Pending(i)

\* A verify has said that the copy differs, or could not be read, or it does not.
FetchedOK(a) ==
    run.cmd = "verify" =>
        \A i \in DOMAIN Buckets : Fetched(i) =>
            \/ "mirror" \in run.found \cup run.unknown
            \/ LET k == Stands(i, a)
               IN  /\ ~Missing(mirror[Buckets[i]][k])
                   /\ Extends(local[k], mirror[Buckets[i]][k])

EvidenceOK(a) ==
    DatesOK /\ ChainOK(a) /\ UploadOK(a) /\ StandingOK(a) /\ FetchedOK(a)

--------------------------------------------------------------------------------
\* What of each layer a verify has read by each of its steps.
PolicyRead ==
    CASE run.pc \in {"parents", "list"} -> {}
      [] run.pc = "describe" -> AttachedTo(run.target)
             \cup {d \in Documents : d[2] \notin run.seen}
             \cup (IF "others" \in run.seen THEN {} ELSE {NoOrphan(run.target)})
      [] OTHER -> Asked.policy \ PassedOver

DetectiveRead ==
    CASE run.pc \in {"parents", "list", "describe", "recorder"} -> {}
      [] run.pc = "status" -> Recorder \ {<<"config", "recorder", "recording">>}
      [] run.pc = "channel" -> Recorder
      [] run.pc = "pack" -> IF profile.recorder THEN Recorder \cup Channel ELSE {}
      [] OTHER -> Detective(profile)

ProceduralRead ==
    IF run.pc \in {"parents", "list", "describe", "recorder", "status", "channel", "pack",
                   "stubs"} THEN {} ELSE Procedural

\* The steps of the detective layer that the profile leaves out are not taken.
ProfileOK ==
    /\ run.pc \in {"recorder", "status", "channel"} => profile.recorder
    /\ run.pc = "pack" => profile.pack

\* What a verify has read without finding it wrong, or giving it up, was so at some moment.
Complete ==
    /\ PolicyRead \subseteq run.ever \/ "policy" \in run.found
    /\ DetectiveRead \subseteq run.ever \/ "detective" \in run.found \cup run.unknown
    /\ ProceduralRead \subseteq run.ever \/ "procedural" \in run.found \cup run.unknown

\* Of a layer in which a verify has found something, something was wrong at some moment.
Sound ==
    /\ "policy" \in run.found => ~(Asked.policy \subseteq run.always)
    /\ "detective" \in run.found => ~(Detective(profile) \subseteq run.always)
    /\ "procedural" \in run.found => ~(Procedural \subseteq run.always)

\* The same of the mirrored copies: until it writes, a bucket stands as it stood.
MirrorsOK ==
    /\ run.pc \in Reading \cup {"sign", "write"} => run.stood = standing
    /\ \A i \in DOMAIN Buckets :
          (run.pc = "fetch" => i < run.at) =>
             \/ run.pc \in Reading \ {"fetch"}
             \/ "mirror" \in run.found \/ Buckets[i] \in run.failed
             \/ run.stood[Buckets[i]] # "witness"
    /\ "mirror" \in run.found => \E b \in Mirrors : run.stood[b] # "current"

VerifyOK ==
    /\ ProfileOK
    /\ run.exit = 0
    /\ home \in run.homes
    /\ run.pc # "parents" => run.target \in run.homes
    /\ holds \subseteq run.ever /\ run.always \subseteq holds
    /\ run.found \subseteq {"policy", "detective", "procedural", "mirror"}
    /\ run.failed \subseteq Mirrors \cup {"others"}
    /\ run.pc \in {"parents", "list", "describe"} => "others" \notin run.failed
    /\ run.pc \in {"parents", "list"} => run.found = {}
    /\ Complete /\ Sound /\ MirrorsOK

RunOK ==
    /\ StepsOK
    /\ run.cmd = "verify" => IF Idle THEN VerdictIsTrue ELSE VerifyOK

SummaryOK ==
    /\ run.pc = "summarize" => run.file \in Files
    /\ run.summary # NoSummary =>
          /\ Accepts(run.file, Obligation) /\ run.file \in Files
          /\ run.summary = Summary(run.file.list, Obligation)

IInv == TypeOK /\ RunOK /\ SummaryOK /\ \E a \in Keys : EvidenceOK(a)

--------------------------------------------------------------------------------
(* Induction over the natural numbers, and what appending does to a manifest. *)

\* A set of natural numbers has a least one.
LEMMA Least ==
  ASSUME NEW T \in SUBSET Nat, T # {}
  PROVE  \E n \in T : \A m \in T : n <= m
<1>1. Order!IsWellFoundedOn(Order!OpToRel(<,Nat), Nat)
  BY Order!NatLessThanWellFounded
<1>2. PICK n \in T : \A m \in T : ~ (<<m, n>> \in Order!OpToRel(<, Nat))
  BY <1>1, Order!WFMin
<1>3. \A m \in T : <<m, n>> \in Order!OpToRel(<, Nat) <=> m < n
  BY <1>2 DEF Order!OpToRel
<1>4. n \in Nat /\ \A m \in T : m \in Nat /\ ~ (m < n)
  BY <1>2, <1>3
<1> HIDE <1>1
<1> QED
  BY <1>4

\* A set that has 0, and the successor of each of its numbers, has them all.
LEMMA Induction ==
  ASSUME NEW P \in SUBSET Nat, 0 \in P, \A n \in Nat : n \in P => n + 1 \in P
  PROVE  P = Nat
<1>1. SUFFICES ASSUME Nat \ P # {} PROVE FALSE
  OBVIOUS
<1>2. PICK n \in Nat \ P : \A m \in Nat \ P : n <= m
  BY <1>1, Least
<1>3. n # 0 /\ n - 1 \in Nat /\ n - 1 \in P
  BY <1>2
<1> QED
  BY <1>2, <1>3

\* Appending a record (Manifest.Append) leaves the header's date and the records there are,
\* and adds one with the content it is given.
LEMMA AppendedIs ==
  ASSUME NEW m, Document(m), NEW r, r.at \in Nat
  PROVE  LET n == Appended(m, r)
             k == Len(m.records) + 1
         IN
         /\ Document(n) /\ n.created = m.created
         /\ Len(m.records) \in Nat /\ Len(n.records) = k
         /\ \A i \in 1..Len(m.records) : n.records[i] = m.records[i]
         /\ n.records[k].at = r.at /\ n.records[k].op = r.op /\ n.records[k].next = r.next
<1> DEFINE n == Appended(m, r)
           l == Len(m.records)
           prev == IF l = 0 THEN ZeroHash ELSE m.records[l].sha
           full(sha) == [op |-> r.op, at |-> r.at, outcome |-> r.outcome, error |-> r.error,
                         next |-> r.next, seq |-> l, prev |-> prev, sha |-> sha]
           sealed == Hash(full(ZeroHash))
           x == full(sealed)
<1>3. /\ "at" \in DOMAIN x
      /\ x.at = r.at /\ x.op = r.op /\ x.next = r.next
  OBVIOUS
<1>4. n = [m EXCEPT !.genesis = IF l = 0 THEN sealed ELSE @, !.records = Append(@, x)]
  BY DEF Appended
<1> HIDE DEF x
<1>5. /\ n = [created |-> n.created, genesis |-> n.genesis, records |-> n.records]
      /\ n.created = m.created
      /\ n.records = Append(m.records, x)
  BY <1>4 DEF Document
<1> HIDE DEF n
<1>6. /\ Listed(m.records)
      /\ \A i \in DOMAIN m.records : "at" \in DOMAIN m.records[i] /\ m.records[i].at \in Nat
  BY DEF Document
<1>7. /\ Listed(n.records)
      /\ l \in Nat /\ DOMAIN m.records = 1..l
      /\ Len(n.records) = l + 1 /\ DOMAIN n.records = 1..(l + 1)
      /\ n.records[l + 1] = x
      /\ \A i \in 1..l : n.records[i] = m.records[i]
  <2> DEFINE S == {m.records[i] : i \in DOMAIN m.records}
  <2>1. m.records \in Seq(S \cup {x})
    BY <1>6 DEF Listed
  <2>2. /\ l \in Nat /\ DOMAIN m.records = 1..l
        /\ n.records \in Seq(S \cup {x})
        /\ Len(n.records) = l + 1 /\ DOMAIN n.records = 1..(l + 1)
        /\ n.records[l + 1] = x
        /\ \A i \in 1..l : n.records[i] = m.records[i]
    BY <1>5, <2>1
  <2>3. Listed(n.records)
    BY <2>2 DEF Listed
  <2> QED BY <2>2, <2>3
<1>8. \A i \in DOMAIN n.records : "at" \in DOMAIN n.records[i] /\ n.records[i].at \in Nat
  <2> SUFFICES ASSUME NEW i \in 1..(l + 1)
               PROVE "at" \in DOMAIN n.records[i] /\ n.records[i].at \in Nat
    BY <1>7
  <2>1. CASE i = l + 1
    BY <2>1, <1>7, <1>3
  <2>2. CASE i # l + 1
    <3>1. i \in DOMAIN m.records /\ n.records[i] = m.records[i]
      BY <2>2, <1>7
    <3> QED BY <3>1, <1>6
  <2> QED BY <2>1, <2>2
<1>9. Document(n)
  BY <1>5, <1>7, <1>8 DEF Document
<1> QED
  BY <1>3, <1>5, <1>7, <1>9 DEF n

\* A chain made anew has the records it is made from, as far as their dates and operations
\* go, and the date it is given.
LEMMA RelinkedIs ==
  ASSUME NEW created \in Nat, NEW contents, Listed(contents),
         \A i \in DOMAIN contents : contents[i].at \in Nat
  PROVE  LET n == Relinked(created, contents) IN
         /\ Document(n) /\ n.created = created
         /\ Len(n.records) = Len(contents)
         /\ \A i \in 1..Len(contents) : /\ n.records[i].at = contents[i].at
                                       /\ n.records[i].op = contents[i].op
<1> DEFINE l == Len(contents)
           Step(g, n) == IF n = 0 THEN NewManifest(created) ELSE Appended(g[n - 1], contents[n])
           chain == CHOOSE g : g = [n \in 0..l |-> Step(g, n)]
           Built(m, n) == /\ Document(m) /\ m.created = created /\ Len(m.records) = n
                          /\ \A i \in 1..n : /\ m.records[i].at = contents[i].at
                                            /\ m.records[i].op = contents[i].op
<1>1. l \in Nat /\ DOMAIN contents = 1..l
  BY DEF Listed
<1>2. Relinked(created, contents) = chain[l]
  BY DEF Relinked
<1>3. \A n \in Nat : \E g : g = [i \in 0..n |-> Step(g, i)]
  <2> DEFINE P == {n \in Nat : \E g : g = [i \in 0..n |-> Step(g, i)]}
  <2>1. 0 \in P
    <3>1. [i \in 0..0 |-> NewManifest(created)]
            = [i \in 0..0 |-> Step([j \in 0..0 |-> NewManifest(created)], i)]
      OBVIOUS
    <3> QED BY <3>1
  <2>2. \A n \in Nat : n \in P => n + 1 \in P
    <3> SUFFICES ASSUME NEW n \in Nat, n \in P
                 PROVE  n + 1 \in P
      OBVIOUS
    <3>0. PICK g : g = [i \in 0..n |-> Step(g, i)]
      OBVIOUS
    <3> HIDE DEF P
    <3> DEFINE h == [i \in 0..(n + 1) |-> IF i = n + 1 THEN Step(g, n + 1) ELSE g[i]]
    <3>1. \A i \in 0..(n + 1) : h[i] = Step(h, i)
      <4> SUFFICES ASSUME NEW i \in 0..(n + 1) PROVE h[i] = Step(h, i)
        OBVIOUS
      <4>1. i # 0 => i - 1 \in 0..n /\ i - 1 # n + 1 /\ h[i - 1] = g[i - 1]
        OBVIOUS
      <4>2. Step(h, i) = Step(g, i)
        BY <4>1
      <4>3. i # n + 1 => i \in 0..n /\ g[i] = Step(g, i)
        BY <3>0
      <4> QED BY <4>2, <4>3
    <3>2. h = [i \in 0..(n + 1) |-> Step(h, i)]
      BY <3>1
    <3> HIDE DEF h
    <3>3. \E f : f = [i \in 0..(n + 1) |-> Step(f, i)]
      BY <3>2
    <3> QED BY <3>3 DEF P
  <2> HIDE DEF P
  <2>3. P = Nat
    BY <2>1, <2>2, Induction DEF P
  <2> QED BY <2>3 DEF P
<1>4. chain = [n \in 0..l |-> Step(chain, n)]
  BY <1>1, <1>3
<1> HIDE DEF chain
<1> DEFINE Q == {n \in Nat : n <= l => Built(chain[n], n)}
<1>5. 0 \in Q
  <2>1. chain[0] = NewManifest(created)
    BY <1>1, <1>4
  <2>2. Built(NewManifest(created), 0)
    BY DEF NewManifest, Document, Listed
  <2> QED BY <2>1, <2>2
<1>6. \A n \in Nat : n \in Q => n + 1 \in Q
  <2> HIDE DEF Built
  <2> SUFFICES ASSUME NEW n \in Nat, n + 1 <= l, Built(chain[n], n)
               PROVE  Built(chain[n + 1], n + 1)
    BY <1>1
  <2> USE DEF Built
  <2> DEFINE m == chain[n]
             r == contents[n + 1]
  <2>1. chain[n + 1] = Appended(m, r)
    BY <1>1, <1>4
  <2>2. r.at \in Nat
    BY <1>1
  <2>3. Document(m)
    OBVIOUS
  <2>6. /\ m.created = created /\ Len(m.records) = n
        /\ \A i \in 1..n : /\ m.records[i].at = contents[i].at
                          /\ m.records[i].op = contents[i].op
    OBVIOUS
  <2> HIDE DEF m, r
  <2> DEFINE a == Appended(m, r)
  <2>4. /\ Document(a) /\ a.created = m.created /\ Len(a.records) = Len(m.records) + 1
        /\ \A i \in 1..Len(m.records) : a.records[i] = m.records[i]
        /\ a.records[Len(m.records) + 1].at = r.at
        /\ a.records[Len(m.records) + 1].op = r.op
    BY <2>2, <2>3, AppendedIs
  <2> HIDE DEF a
  <2>5. Built(a, n + 1)
    BY <2>6, <2>4 DEF r
  <2> QED BY <2>1, <2>5 DEF a
<1> HIDE DEF Q
<1>7. Q = Nat
  BY <1>5, <1>6, Induction DEF Q
<1> QED BY <1>1, <1>2, <1>7 DEF Q

--------------------------------------------------------------------------------
(* Where a command writes, and what its write makes of the manifest there. *)

\* w is l, or a new manifest where there is none, with records of now appended.
Adds(l, w, now) ==
    /\ Document(w)
    /\ Len(l.records) < Len(w.records)
    /\ w.created = IF Missing(l) THEN now ELSE l.created
    /\ \A i \in 1..Len(l.records) : w.records[i] = l.records[i]
    /\ \A i \in 1..Len(w.records) : i > Len(l.records) => w.records[i].at = now

\* None of its records is a rotation.
Unrotated(m) == \A i \in DOMAIN m.records : ~Terminal(m.records[i])

\* One sequence is a prefix of another that goes on with the same elements.
LEMMA PrefixIs ==
  ASSUME NEW s, NEW t, Listed(s), Listed(t)
  PROVE  IsPrefix(s, t) <=> Len(s) <= Len(t) /\ \A i \in 1..Len(s) : s[i] = t[i]
<1> DEFINE S == {s[i] : i \in DOMAIN s} \cup {t[i] : i \in DOMAIN t}
<1>1. s \in Seq(S) /\ t \in Seq(S)
  BY DEF Listed
<1>2. /\ Len(s) \in Nat /\ Len(t) \in Nat
      /\ DOMAIN s = 1..Len(s) /\ DOMAIN t = 1..Len(t)
  BY <1>1
<1> HIDE DEF S
<1>3. ASSUME Len(s) <= Len(t)
      PROVE  (SubSeq(s, 1, Len(s)) = SubSeq(t, 1, Len(s)))
               <=> \A i \in 1..Len(s) : s[i] = t[i]
  <2>1. /\ SubSeq(s, 1, Len(s)) \in Seq(S) /\ Len(SubSeq(s, 1, Len(s))) = Len(s)
        /\ \A i \in 1..Len(s) : SubSeq(s, 1, Len(s))[i] = s[i]
    BY <1>1, <1>2
  <2>2. /\ SubSeq(t, 1, Len(s)) \in Seq(S) /\ Len(SubSeq(t, 1, Len(s))) = Len(s)
        /\ \A i \in 1..Len(s) : SubSeq(t, 1, Len(s))[i] = t[i]
    BY <1>1, <1>2, <1>3
  <2> QED BY <2>1, <2>2, <1>2
<1> QED BY <1>3 DEF IsPrefix

LEMMA RecordsOf ==
  ASSUME NEW m, Document(m)
  PROVE  /\ Len(m.records) \in Nat /\ DOMAIN m.records = 1..Len(m.records)
         /\ Missing(m) <=> Len(m.records) = 0
BY DEF Document, Listed, Missing

\* A manifest without a rotation is not closed, so that another record may be appended.
LEMMA UnrotatedIsOpen ==
  ASSUME NEW m, Document(m), Unrotated(m)
  PROVE  ~Closed(m)
<1>1. CASE Missing(m)
  BY <1>1 DEF Closed
<1>2. CASE ~Missing(m)
  <2>1. Len(m.records) \in DOMAIN m.records
    BY <1>2, RecordsOf
  <2> QED BY <2>1 DEF Closed, Unrotated, Last
<1> QED BY <1>1, <1>2

\* openActiveManifest finds the end of the chain, or fails on the way.
LEMMA ActiveIs ==
  ASSUME NEW a \in Keys, EndsAt(local, a), \A k \in Keys : Document(local[k])
  PROVE  Active \in {0, a}
<1> DEFINE Step(g, k) ==
             IF ~Missing(local[k]) /\ ~Readable(local[k]) THEN 0
             ELSE IF Closed(local[k]) THEN g[Last(local[k].records).next] ELSE k
           from == CHOOSE g : g = [k \in Keys |-> Step(g, k)]
           Stuck(k) == ~Missing(local[k]) /\ ~Readable(local[k])
<1>0. MaxKey \in Nat \ {0} /\ a \in 1..MaxKey
  BY KeysAssumption DEF Keys
<1>1. Active = from[1]
  BY DEF Active
<1>2. /\ ~Closed(local[a])
      /\ \A k \in 1..(a - 1) : Closed(local[k]) /\ Last(local[k].records).next = k + 1
      /\ \A k \in (a + 1)..MaxKey : Missing(local[k])
  BY UnrotatedIsOpen DEF EndsAt, Unrotated
<1>3. \A k \in (a + 1)..MaxKey : ~Closed(local[k])
  BY <1>2 DEF Closed
<1> DEFINE h == [k \in Keys |-> IF k > a THEN k
                               ELSE IF \E j \in k..a : Stuck(j) THEN 0 ELSE a]
<1>4. \A k \in Keys : h[k] = Step(h, k)
  <2> SUFFICES ASSUME NEW k \in Keys PROVE h[k] = Step(h, k)
    OBVIOUS
  <2> HIDE DEF h
  <2>0. k \in 1..MaxKey
    BY DEF Keys
  <2>1. CASE k > a
    <3>1. k \in (a + 1)..MaxKey
      BY <2>1, <2>0, <1>0
    <3>2. h[k] = k
      BY <2>1 DEF h
    <3> QED BY <3>1, <3>2, <1>2, <1>3
  <2>2. CASE k = a
    <3>1. h[k] = IF Stuck(k) THEN 0 ELSE a
      BY <2>2, <1>0 DEF h
    <3> QED BY <3>1, <2>2, <1>2
  <2>3. CASE k < a
    <3>1. k \in 1..(a - 1) /\ k + 1 \in Keys
      BY <2>3, <2>0, <1>0 DEF Keys
    <3>2. h[k] = IF Stuck(k) THEN 0 ELSE h[k + 1]
      <4>1. (\E j \in k..a : Stuck(j)) <=> (Stuck(k) \/ \E j \in (k + 1)..a : Stuck(j))
        BY <2>3, <2>0, <1>0
      <4>2. h[k] = (IF \E j \in k..a : Stuck(j) THEN 0 ELSE a)
        BY <2>3, <2>0, <1>0 DEF h
      <4>3. h[k + 1] = (IF \E j \in (k + 1)..a : Stuck(j) THEN 0 ELSE a)
        BY <3>1, <2>3, <2>0, <1>0 DEF h
      <4> QED BY <4>1, <4>2, <4>3
    <3> QED BY <3>1, <3>2, <1>2
  <2> QED BY <2>0, <1>0, <2>1, <2>2, <2>3
<1>5. h = [k \in Keys |-> Step(h, k)]
  BY <1>4
<1> HIDE DEF h
<1>6. from = [k \in Keys |-> Step(from, k)]
  BY <1>5
<1> HIDE DEF from
<1> DEFINE P == {n \in Nat : n < a => from[a - n] \in {0, a}}
<1>7. 0 \in P
  <2>1. from[a] = Step(from, a)
    BY <1>6
  <2> QED BY <2>1, <1>0, <1>2
<1>8. \A n \in Nat : n \in P => n + 1 \in P
  <2> SUFFICES ASSUME NEW n \in Nat, n \in P, n + 1 < a
               PROVE  from[a - (n + 1)] \in {0, a}
    OBVIOUS
  <2> DEFINE k == a - (n + 1)
  <2>1. k \in Keys /\ k \in 1..(a - 1) /\ k + 1 = a - n
    BY <1>0 DEF Keys
  <2>2. from[k] = Step(from, k)
    BY <2>1, <1>6
  <2>3. from[k + 1] \in {0, a}
    BY <2>1, <1>0
  <2> HIDE DEF k
  <2>4. from[k] \in {0, a}
    BY <2>1, <2>2, <2>3, <1>2
  <2> QED BY <2>4 DEF k
<1> HIDE DEF P
<1>9. P = Nat
  BY <1>7, <1>8, Induction DEF P
<1>10. a - 1 \in Nat /\ a - 1 < a /\ a - (a - 1) = 1
  BY <1>0
<1>11. a - 1 \in P => from[a - (a - 1)] \in {0, a}
  BY <1>10 DEF P
<1> QED BY <1>1, <1>9, <1>10, <1>11

\* nextRotationKey finds the key after the end.
LEMMA UnusedIs ==
  ASSUME NEW a \in Keys, a # MaxKey, EndsAt(local, a)
  PROVE  Unused(a) = a + 1 /\ a + 1 \in Keys
<1>0. MaxKey \in Nat \ {0} /\ a \in 1..MaxKey
  BY KeysAssumption DEF Keys
<1>1. a + 1 \in Keys \ {1, a} /\ Missing(local[a + 1])
  BY <1>0 DEF Keys, EndsAt
<1>2. \A n \in Keys \ {1, a} : Missing(local[n]) => a + 1 <= n
  <2> SUFFICES ASSUME NEW n \in Keys \ {1, a}, Missing(local[n]), n < a
               PROVE  FALSE
    BY <1>0 DEF Keys
  <2>1. n \in 1..(a - 1)
    BY <1>0 DEF Keys
  <2> QED BY <2>1 DEF EndsAt, Closed
<1>3. \A n \in Keys \ {1, a} :
         (Missing(local[n]) /\ \A o \in Keys \ {1, a} : Missing(local[o]) => n <= o)
           => n = a + 1
  <2> SUFFICES ASSUME NEW n \in Keys \ {1, a}, Missing(local[n]), n <= a + 1
               PROVE  n = a + 1
    BY <1>1
  <2> QED BY <1>0, <1>2 DEF Keys
<1> QED BY <1>1, <1>2, <1>3 DEF Unused

\* A record of this time is appended to the manifest of a key, or to a new one.
LEMMA WriteAdds ==
  ASSUME NEW k, Document(local[k]), clock \in Nat, NEW op, NEW outcome
  PROVE  LET l == local[k]
             w == Appended(Opened(k), Record(op, clock, outcome, 0)) IN
         /\ Adds(l, w, clock)
         /\ Len(w.records) = Len(l.records) + 1
         /\ w.records[Len(w.records)].op = op
<1> DEFINE l == local[k]
           o == Opened(k)
           r == Record(op, clock, outcome, 0)
           w == Appended(o, r)
<1>1. /\ Document(o)
      /\ o.records = l.records
      /\ o.created = IF Missing(l) THEN clock ELSE l.created
  <2>1. CASE Missing(l)
    BY <2>1 DEF Opened, NewManifest, Document, Missing, Listed
  <2>2. CASE ~Missing(l)
    BY <2>2 DEF Opened
  <2> QED BY <2>1, <2>2
<1>2. r.at = clock /\ r.op = op
  BY DEF Record
<1> HIDE DEF o, r
<1>3. /\ Document(w) /\ w.created = o.created
      /\ Len(o.records) \in Nat /\ Len(w.records) = Len(o.records) + 1
      /\ \A i \in 1..Len(o.records) : w.records[i] = o.records[i]
      /\ w.records[Len(o.records) + 1].at = r.at
      /\ w.records[Len(o.records) + 1].op = r.op
  <2>1. Document(o) /\ r.at \in Nat
    BY <1>1, <1>2
  <2> QED BY <2>1, AppendedIs
<1> HIDE DEF w
<1>4. /\ Adds(l, w, clock)
      /\ Len(w.records) = Len(l.records) + 1
      /\ w.records[Len(w.records)].op = op
  BY <1>1, <1>2, <1>3 DEF Adds
<1> QED BY <1>4 DEF w, o, r

\* A rotation of this time is added to what was added before.
LEMMA RotationAdds ==
  ASSUME NEW l, NEW w, Document(l), clock \in Nat, Adds(l, w, clock), NEW next
  PROVE  LET r == Rotated(w, clock, next) IN
         /\ Adds(l, r, clock)
         /\ Closed(r) /\ Last(r.records).next = next
<1> DEFINE e == Record("rotate", clock, "success", next)
           r == Appended(w, e)
<1>1. e.at = clock /\ e.op = "rotate" /\ e.next = next
  BY DEF Record
<1> HIDE DEF e
<1>2. /\ Document(r) /\ r.created = w.created
      /\ Len(w.records) \in Nat /\ Len(r.records) = Len(w.records) + 1
      /\ \A i \in 1..Len(w.records) : r.records[i] = w.records[i]
      /\ r.records[Len(w.records) + 1].at = e.at
      /\ r.records[Len(w.records) + 1].op = e.op
      /\ r.records[Len(w.records) + 1].next = e.next
  <2>1. Document(w) /\ e.at \in Nat
    BY <1>1 DEF Adds
  <2> QED BY <2>1, AppendedIs
<1>3. Rotated(w, clock, next) = r
  BY DEF Rotated, e
<1> HIDE DEF r
<1>4. Len(l.records) \in Nat
  BY RecordsOf
<1>5. Adds(l, r, clock)
  BY <1>1, <1>2, <1>4 DEF Adds
<1>6. Closed(r) /\ Last(r.records).next = next
  BY <1>1, <1>2, RecordsOf DEF Closed, Last, Terminal
<1> QED BY <1>3, <1>5, <1>6

\* What is added to stays ahead of a copy it was ahead of; and it never meets again a copy
\* it is at odds with, for that was written before.
LEMMA AddsKeeps ==
  ASSUME NEW l, NEW w, NEW m, NEW now \in Nat, Document(l), Document(m), Adds(l, w, now)
  PROVE  /\ ~Missing(w)
         /\ Behind(l, m) => Behind(w, m)
         /\ ~Missing(m) /\ Extends(l, m) => Extends(w, m)
         /\ Conflicts(l, m) /\ WrittenBy(m, now - 1) => Conflicts(w, m)
         /\ WrittenBy(l, now - 1) => WrittenBy(w, now)
<1>1. /\ Len(l.records) \in Nat /\ Len(m.records) \in Nat /\ Len(w.records) \in Nat
      /\ Missing(l) <=> Len(l.records) = 0
      /\ Missing(m) <=> Len(m.records) = 0
      /\ Missing(w) <=> Len(w.records) = 0
      /\ Document(w) /\ Len(l.records) < Len(w.records)
  BY RecordsOf DEF Adds
<1>2. ~Missing(w)
  BY <1>1
<1>3. ~Missing(m) /\ Extends(l, m) => Extends(w, m)
  <2> SUFFICES ASSUME ~Missing(m), Extends(l, m) PROVE Extends(w, m)
    OBVIOUS
  <2>1. /\ l.created = m.created
        /\ Len(m.records) <= Len(l.records)
        /\ \A i \in 1..Len(m.records) : m.records[i] = l.records[i]
    BY <1>1, PrefixIs DEF Extends, Document
  <2>2. /\ w.created = m.created
        /\ Len(m.records) <= Len(w.records)
        /\ \A i \in 1..Len(m.records) : m.records[i] = w.records[i]
    BY <1>1, <2>1 DEF Adds
  <2> QED BY <1>1, <2>2, PrefixIs DEF Extends, Document
<1>4. Behind(l, m) => Behind(w, m)
  BY <1>3 DEF Behind
<1>5. Conflicts(l, m) /\ WrittenBy(m, now - 1) => Conflicts(w, m)
  <2> SUFFICES ASSUME Conflicts(l, m), WrittenBy(m, now - 1) PROVE Conflicts(w, m)
    OBVIOUS
  <2>0. /\ ~Missing(m) /\ Len(m.records) > 0
        /\ m.created \in Nat /\ m.created # now
    BY <1>1 DEF Conflicts, WrittenBy, Document
  <2>1. CASE Missing(l)
    BY <2>1, <2>0 DEF Adds, Conflicts
  <2>2. CASE ~Missing(l) /\ l.created # m.created
    BY <2>2, <2>0 DEF Adds, Conflicts
  <2>3. CASE ~Missing(l) /\ \E i \in Common(l, m) : l.records[i] # m.records[i]
    <3>1. PICK i \in Common(l, m) : l.records[i] # m.records[i]
      BY <2>3
    <3>2. i \in Common(w, m) /\ i \in 1..Len(l.records)
      BY <3>1, <1>1 DEF Common
    <3> QED BY <3>1, <3>2, <2>0 DEF Adds, Conflicts
  <2>4. CASE ~Missing(l) /\ Len(l.records) < Len(m.records)
    <3> DEFINE i == Len(l.records) + 1
    <3>1. i \in Common(w, m) /\ i \in 2..Len(m.records) /\ i \in DOMAIN m.records
      BY <2>4, <1>1, RecordsOf DEF Common
    <3>2. w.records[i].at = now
      BY <1>1 DEF Adds
    <3>3. m.records[i].at <= now - 1 /\ m.records[i].at \in Nat
      BY <3>1 DEF WrittenBy, Document
    <3>4. w.records[i] # m.records[i]
      BY <3>2, <3>3
    <3> QED BY <3>1, <3>4, <2>0 DEF Conflicts
  <2> QED BY <2>1, <2>2, <2>3, <2>4 DEF Conflicts
<1>6. WrittenBy(l, now - 1) => WrittenBy(w, now)
  <2> SUFFICES ASSUME WrittenBy(l, now - 1) PROVE WrittenBy(w, now)
    OBVIOUS
  <2>1. w.created <= now
    BY DEF Adds, WrittenBy, Document
  <2>2. \A i \in 2..Len(w.records) : w.records[i].at <= now
    <3> SUFFICES ASSUME NEW i \in 2..Len(w.records) PROVE w.records[i].at <= now
      OBVIOUS
    <3>1. CASE i \in 2..Len(l.records)
      <4>1. w.records[i] = l.records[i] /\ l.records[i].at <= now - 1
        BY <3>1, <1>1 DEF Adds, WrittenBy
      <4>2. l.records[i].at \in Nat
        BY <3>1, <1>1, RecordsOf DEF Document
      <4> QED BY <4>1, <4>2
    <3>2. CASE i \notin 2..Len(l.records)
      <4>1. i \in 1..Len(w.records) /\ i > Len(l.records)
        BY <3>2, <1>1
      <4> QED BY <4>1 DEF Adds
    <3> QED BY <3>1, <3>2
  <2> QED BY <2>1, <2>2 DEF WrittenBy
<1> QED BY <1>2, <1>3, <1>4, <1>5, <1>6

\* A sequence without its last or its first element is one.
LEMMA PartsAre ==
  ASSUME NEW s, Listed(s), Len(s) > 0
  PROVE  LET n == Len(s) - 1 IN
         /\ Listed(Front(s)) /\ Len(Front(s)) = n /\ DOMAIN Front(s) = 1..n
         /\ Listed(Tail(s)) /\ Len(Tail(s)) = n /\ DOMAIN Tail(s) = 1..n
         /\ \A i \in 1..n : /\ Front(s)[i] = s[i] /\ Tail(s)[i] = s[i + 1]
                          /\ i \in 1..Len(s) /\ i + 1 \in 1..Len(s)
<1> DEFINE S == {s[i] : i \in DOMAIN s}
           n == Len(s) - 1
<1>1. s \in Seq(S) /\ Len(s) \in Nat
  BY DEF Listed
<1> HIDE DEF S
<1>2. n \in Nat /\ n <= Len(s) /\ \A i \in 1..n : i \in 1..Len(s) /\ i + 1 \in 1..Len(s)
  BY <1>1
<1>3. /\ Front(s) \in Seq(S) /\ Len(Front(s)) = n /\ DOMAIN Front(s) = 1..n
      /\ \A i \in 1..n : Front(s)[i] = s[i]
  <2>1. Front(s) = SubSeq(s, 1, n)
    BY DEF Front
  <2> HIDE DEF n
  <2>2. \A i \in 1..n : s[i] \in S
    BY <1>1, <1>2
  <2>3. SubSeq(s, 1, n) = [i \in 1..n |-> s[i]]
    BY <1>1, <1>2
  <2>4. [i \in 1..n |-> s[i]] \in Seq(S) /\ Len([i \in 1..n |-> s[i]]) = n
    BY <1>2, <2>2
  <2> QED BY <2>1, <2>3, <2>4
<1>4. /\ Tail(s) \in Seq(S) /\ Len(Tail(s)) = n /\ DOMAIN Tail(s) = 1..n
      /\ \A i \in 1..n : Tail(s)[i] = s[i + 1]
  BY <1>1
<1>5. \A t \in Seq(S) : Listed(t)
  BY DEF Listed
<1> QED BY <1>2, <1>3, <1>4, <1>5

\* What becomes of a file outside automat: it is still a manifest that no record can be
\* rotated in, of no later dates, and never to be the old one again.
LEMMA CopiesAre ==
  ASSUME NEW l, Document(l), ~Missing(l), Unrotated(l), NEW m \in Copies(l)
  PROVE  /\ Document(m) /\ Unrotated(m) /\ Conflicts(m, l)
         /\ \A now \in Nat : WrittenBy(l, now) => WrittenBy(m, now)
<1> DEFINE n == Len(l.records)
           Fine(c) == /\ Document(c) /\ Unrotated(c) /\ Conflicts(c, l)
                      /\ \A now \in Nat : WrittenBy(l, now) => WrittenBy(c, now)
           later == [l.records EXCEPT ![1].at = @ + 1]
<1>1. /\ n \in Nat /\ n > 0 /\ DOMAIN l.records = 1..n
      /\ l = [created |-> l.created, genesis |-> l.genesis, records |-> l.records]
      /\ l.created \in Nat /\ Listed(l.records)
      /\ \A i \in 1..n : /\ "at" \in DOMAIN l.records[i] /\ l.records[i].at \in Nat
                         /\ ~Terminal(l.records[i])
  BY RecordsOf DEF Document, Unrotated
<1>2. Fine(NewManifest(0))
  <2>1. Document(NewManifest(0)) /\ Missing(NewManifest(0))
    BY DEF NewManifest, Document, Missing, Listed
  <2>2. Len(NewManifest(0).records) = 0 /\ DOMAIN NewManifest(0).records = 1..0
        /\ NewManifest(0).created = 0
    BY DEF NewManifest
  <2>3. Conflicts(NewManifest(0), l)
    BY <2>2, <1>1 DEF Conflicts
  <2>4. Unrotated(NewManifest(0))
    BY <2>2 DEF Unrotated
  <2>5. \A now \in Nat : WrittenBy(NewManifest(0), now)
    BY <2>2 DEF WrittenBy
  <2> QED BY <2>1, <2>3, <2>4, <2>5
\* Fewer records, each of them with the date and operation of one there was, the second and
\* later of them of one that was not the first.
<1>3. ASSUME NEW c, Document(c), c.created = l.created, Len(c.records) < n,
             \A i \in 1..Len(c.records) :
                \E j \in 1..n : /\ c.records[i].at = l.records[j].at
                                /\ c.records[i].op = l.records[j].op
                                /\ j >= i
      PROVE  Fine(c)
  <2>1. Len(c.records) \in Nat /\ DOMAIN c.records = 1..Len(c.records)
    BY <1>3, RecordsOf
  <2>2. Conflicts(c, l)
    BY <1>3 DEF Conflicts
  <2>3. Unrotated(c)
    BY <1>1, <1>3, <2>1 DEF Unrotated, Terminal
  <2>4. ASSUME NEW now \in Nat, WrittenBy(l, now) PROVE WrittenBy(c, now)
    <3>1. ASSUME NEW i \in 2..Len(c.records) PROVE c.records[i].at <= now
      <4>1. PICK j \in 1..n : c.records[i].at = l.records[j].at /\ j >= i
        BY <1>3, <2>1
      <4>2. j \in 2..n
        BY <4>1, <1>1
      <4> QED BY <4>1, <4>2, <2>4 DEF WrittenBy
    <3> QED BY <3>1, <1>3, <2>4 DEF WrittenBy
  <2> QED BY <1>3, <2>2, <2>3, <2>4
<1>4. Fine([l EXCEPT !.records = Front(@)])
  <2> DEFINE c == [l EXCEPT !.records = Front(@)]
  <2>1. /\ c = [created |-> l.created, genesis |-> l.genesis, records |-> Front(l.records)]
        /\ c.created = l.created /\ c.records = Front(l.records)
    BY <1>1
  <2> HIDE DEF c
  <2>2. /\ Listed(c.records) /\ Len(c.records) = n - 1 /\ DOMAIN c.records = 1..(n - 1)
        /\ \A i \in 1..(n - 1) : i \in 1..n /\ c.records[i] = l.records[i]
    BY <1>1, <2>1, PartsAre
  <2>3. Document(c) /\ Len(c.records) < n
    BY <1>1, <2>1, <2>2 DEF Document
  <2>4. \A i \in 1..Len(c.records) :
            \E j \in 1..n : /\ c.records[i].at = l.records[j].at
                            /\ c.records[i].op = l.records[j].op
                            /\ j >= i
    BY <1>1, <2>2
  <2>5. Fine(c)
    BY <1>3, <2>1, <2>3, <2>4
  <2> QED BY <2>5 DEF c
<1>5. Fine([l EXCEPT !.records = Tail(@)])
  <2> DEFINE c == [l EXCEPT !.records = Tail(@)]
  <2>1. /\ c = [created |-> l.created, genesis |-> l.genesis, records |-> Tail(l.records)]
        /\ c.created = l.created /\ c.records = Tail(l.records)
    BY <1>1
  <2> HIDE DEF c
  <2>2. /\ Listed(c.records) /\ Len(c.records) = n - 1 /\ DOMAIN c.records = 1..(n - 1)
        /\ \A i \in 1..(n - 1) : i + 1 \in 1..n /\ c.records[i] = l.records[i + 1]
    BY <1>1, <2>1, PartsAre
  <2>3. Document(c) /\ Len(c.records) < n
    BY <1>1, <2>1, <2>2 DEF Document
  <2>4. \A i \in 1..Len(c.records) :
            \E j \in 1..n : /\ c.records[i].at = l.records[j].at
                            /\ c.records[i].op = l.records[j].op
                            /\ j >= i
    BY <1>1, <2>2
  <2>5. Fine(c)
    BY <1>3, <2>1, <2>3, <2>4
  <2> QED BY <2>5 DEF c
<1>6. Fine(Relinked(l.created, Tail(l.records)))
  <2> DEFINE t == Tail(l.records)
             c == Relinked(l.created, t)
  <2>1. /\ Listed(t) /\ Len(t) = n - 1 /\ DOMAIN t = 1..(n - 1)
        /\ \A i \in 1..(n - 1) : i + 1 \in 1..n /\ t[i] = l.records[i + 1]
    BY <1>1, PartsAre
  <2> HIDE DEF t
  <2>2. \A i \in DOMAIN t : t[i].at \in Nat
    BY <1>1, <2>1
  <2>3. /\ Document(c) /\ c.created = l.created
        /\ Len(c.records) = Len(t)
        /\ \A i \in 1..Len(t) : c.records[i].at = t[i].at /\ c.records[i].op = t[i].op
    BY <1>1, <2>1, <2>2, RelinkedIs
  <2> HIDE DEF c
  <2>4. \A i \in 1..Len(c.records) :
            \E j \in 1..n : /\ c.records[i].at = l.records[j].at
                            /\ c.records[i].op = l.records[j].op
                            /\ j >= i
    BY <1>1, <2>1, <2>3
  <2>5. Len(c.records) < n
    BY <1>1, <2>1, <2>3
  <2>6. Fine(c)
    BY <1>3, <2>3, <2>4, <2>5
  <2> QED BY <2>6 DEF c, t
\* As many records, the first of them dated later.
<1>7. ASSUME NEW c, Document(c), c.created = l.created, Len(c.records) = n,
             \A i \in 1..n : /\ c.records[i].at = l.records[i].at + (IF i = 1 THEN 1 ELSE 0)
                             /\ c.records[i].op = l.records[i].op
      PROVE  Fine(c)
  <2>1. DOMAIN c.records = 1..n
    BY <1>7, RecordsOf
  <2>2. Conflicts(c, l)
    <3>1. 1 \in Common(c, l)
      BY <1>1, <1>7 DEF Common
    <3>2. c.records[1] # l.records[1]
      BY <1>1, <1>7
    <3> QED BY <3>1, <3>2 DEF Conflicts
  <2>3. Unrotated(c)
    BY <1>1, <1>7, <2>1 DEF Unrotated, Terminal
  <2>4. \A now \in Nat : WrittenBy(l, now) => WrittenBy(c, now)
    BY <1>1, <1>7 DEF WrittenBy
  <2> QED BY <1>7, <2>2, <2>3, <2>4
<1>8. /\ Listed(later) /\ Len(later) = n /\ DOMAIN later = 1..n
      /\ \A i \in 1..n : /\ "at" \in DOMAIN later[i]
                         /\ later[i].at = l.records[i].at + (IF i = 1 THEN 1 ELSE 0)
                         /\ later[i].op = l.records[i].op
  <2>1. later = [i \in 1..n |-> IF i = 1 THEN [l.records[1] EXCEPT !.at = @ + 1]
                               ELSE l.records[i]]
    BY <1>1
  <2> DEFINE S == {later[i] : i \in DOMAIN later}
  <2> HIDE DEF later
  <2>2. DOMAIN later = 1..n
    BY <2>1
  <2>3. \A i \in 1..n : later[i] \in S
    BY <2>2
  <2>4. later \in [1..n -> S]
    <3> HIDE DEF S
    <3> QED BY <2>1, <2>2, <2>3
  <2>5. later \in Seq(S)
    <3> HIDE DEF S
    <3> QED BY <2>4, <1>1
  <2>6. Len(later) = n
    BY <2>2, <2>5, <1>1
  <2>7. ASSUME NEW i \in 1..n
        PROVE  /\ "at" \in DOMAIN later[i]
               /\ later[i].at = l.records[i].at + (IF i = 1 THEN 1 ELSE 0)
               /\ later[i].op = l.records[i].op
    BY <2>1, <1>1
  <2> QED BY <2>2, <2>5, <2>6, <2>7 DEF Listed
<1>9. Fine(Relinked(l.created, later))
  <2> HIDE DEF later
  <2> DEFINE c == Relinked(l.created, later)
  <2>1. /\ l.created \in Nat /\ Listed(later)
        /\ \A i \in DOMAIN later : later[i].at \in Nat
    BY <1>1, <1>8
  <2>2. /\ Document(c) /\ c.created = l.created
        /\ Len(c.records) = Len(later)
        /\ \A i \in 1..Len(later) : /\ c.records[i].at = later[i].at
                                    /\ c.records[i].op = later[i].op
    BY <2>1, RelinkedIs
  <2> HIDE DEF c
  <2>3. Fine(c)
    BY <1>1, <1>7, <1>8, <2>2
  <2> QED BY <2>3 DEF c
<1>10. Fine([l EXCEPT !.records[1].at = @ + 1])
  <2> DEFINE c == [l EXCEPT !.records[1].at = @ + 1]
  <2>0. c = [l EXCEPT !.records = later]
    OBVIOUS
  <2> HIDE DEF later, c
  <2>1. /\ c = [created |-> l.created, genesis |-> l.genesis, records |-> later]
        /\ c.created = l.created /\ c.records = later
    BY <2>0, <1>1
  <2> HIDE DEF c, later
  <2>2. Document(c)
    BY <1>1, <1>8, <2>1 DEF Document
  <2>3. Fine(c)
    BY <1>1, <1>7, <1>8, <2>1, <2>2
  <2> QED BY <2>3 DEF c
<1>11. \/ m = NewManifest(0)
       \/ m = [l EXCEPT !.records = Front(@)]
       \/ m = [l EXCEPT !.records = Tail(@)]
       \/ m = Relinked(l.created, Tail(l.records))
       \/ m = Relinked(l.created, later)
       \/ m = [l EXCEPT !.records[1].at = @ + 1]
  BY Zenon DEF Copies
<1> HIDE DEF later
<1>12. Fine(m)
  <2> HIDE DEF Fine
  <2> QED BY <1>2, <1>4, <1>5, <1>6, <1>9, <1>10, <1>11
<1> QED BY <1>12

--------------------------------------------------------------------------------
(* Types, and which command is at which step.                              *)

LEMMA BucketsAre ==
  /\ Len(Buckets) \in Nat \ {0} /\ DOMAIN Buckets = 1..Len(Buckets)
  /\ 1 \in 1..Len(Buckets)
  /\ \A i \in 1..Len(Buckets) : Buckets[i] \in Mirrors
  /\ \A b \in Mirrors : \E i \in 1..Len(Buckets) : Buckets[i] = b
  /\ \A i, j \in 1..Len(Buckets) : Buckets[i] = Buckets[j] => i = j
<1>1. Buckets \in Seq(ToSet(Buckets)) /\ Buckets # <<>>
  BY BucketsAssumption
<1>2. Len(Buckets) \in Nat \ {0} /\ DOMAIN Buckets = 1..Len(Buckets)
  BY <1>1
<1>3. /\ \A i \in 1..Len(Buckets) : Buckets[i] \in Mirrors
      /\ \A b \in Mirrors : \E i \in 1..Len(Buckets) : Buckets[i] = b
  BY <1>2 DEF Mirrors, ToSet
<1>4. \A i, j \in 1..Len(Buckets) : Buckets[i] = Buckets[j] => i = j
  BY <1>2, BucketsAssumption
<1> QED BY <1>2, <1>3, <1>4

\* A command's record.
RunTyped(r) ==
    /\ r = [f \in RunFields |-> r[f]]
    /\ r.cmd \in {"none", "verify", "vend", "assess"}
    /\ r.pc \in Reading \cup {"apply", "summarize", "sign", "write", "upload", "done"}
    /\ r.at \in 1..Len(Buckets)

LEMMA TypedIs == TypeOK =>
  /\ RunTyped(run) /\ clock \in Nat /\ (~Idle => clock # 0)
  /\ local = [k \in Keys |-> local[k]]
  /\ mirror = [b \in Mirrors |-> [k \in Keys |-> mirror[b][k]]]
  /\ \A k \in Keys : Document(local[k]) /\ \A b \in Mirrors : Document(mirror[b][k])
  /\ standing \in [Mirrors -> {"current", "behind", "witness", "unclear"}]
BY DEF TypeOK, RunTyped

LEMMA CommandTyped ==
  ASSUME NEW cmd \in {"none", "verify", "vend", "assess"},
         NEW pc \in {"parents", "apply", "summarize", "done"}
  PROVE  /\ RunTyped(Command(cmd, pc)) /\ Command(cmd, pc).cmd = cmd /\ Command(cmd, pc).pc = pc
         /\ Command(cmd, pc).at = 1
BY BucketsAre DEF RunTyped, Command, RunFields, Reading

\* What the reading steps do to the record.
LEMMA ReadingSteps ==
  ASSUME TypeOK, StepsOK,
         \/ Parents \/ List \/ (\E p \in Policies : Describe(p)) \/ Others
         \/ CheckRecorder \/ CheckStatus \/ CheckDeliveryChannel \/ CheckConformancePack
         \/ CheckStubs
  PROVE  /\ RunTyped(run') /\ run'.cmd = run.cmd /\ StepsOK'
         /\ run.cmd = "verify" /\ run.pc \in Reading \ {"fetch"}
         /\ run'.pc \in Reading \cup {"done"} /\ (run'.pc = "fetch" => run'.at = 1)
         /\ run'.file = run.file /\ run'.summary = run.summary
         /\ UNCHANGED <<world, evidence, clock>>
<1>0. /\ RunTyped(run)
      /\ run.pc \in Reading => run.cmd = "verify"
      /\ run.pc \notin {"fetch", "upload", "done"} => run.at = 1
  BY TypedIs DEF StepsOK
<1> DEFINE G ==
             /\ run.pc \in Reading \ {"fetch"}
             /\ RunTyped(run')
             /\ run'.cmd = run.cmd /\ run'.at = run.at
             /\ run'.file = run.file /\ run'.summary = run.summary
             /\ run'.pc \in Reading \cup {"done"}
<1>1. ASSUME Parents PROVE G
  BY <1>0, <1>1 DEF RunTyped, RunFields, Parents, At, Ended, Reading
<1>2. ASSUME List PROVE G
  BY <1>0, <1>2 DEF RunTyped, RunFields, List, At, Ended, Reading
<1>3. ASSUME NEW p \in Policies, Describe(p) PROVE G
  BY <1>0, <1>3 DEF RunTyped, RunFields, Describe, At, Ended, Reading
<1>4. ASSUME Others PROVE G
  BY <1>0, <1>4 DEF RunTyped, RunFields, Others, At, Reading
<1>5. ASSUME CheckRecorder PROVE G
  BY <1>0, <1>5 DEF RunTyped, RunFields, CheckRecorder, Reads, At, Reading
<1>6. ASSUME CheckStatus PROVE G
  BY <1>0, <1>6 DEF RunTyped, RunFields, CheckStatus, Reads, At, Reading
<1>7. ASSUME CheckDeliveryChannel PROVE G
  BY <1>0, <1>7 DEF RunTyped, RunFields, CheckDeliveryChannel, Reads, At, Reading
<1>8. ASSUME CheckConformancePack PROVE G
  BY <1>0, <1>8 DEF RunTyped, RunFields, CheckConformancePack, Reads, At, Reading
<1>9. ASSUME CheckStubs PROVE G
  BY <1>0, <1>9 DEF RunTyped, RunFields, CheckStubs, At, Reading
<1>10. G
  BY <1>1, <1>2, <1>3, <1>4, <1>5, <1>6, <1>7, <1>8, <1>9
<1>11. StepsOK'
  BY <1>0, <1>10 DEF StepsOK, Reading
<1>12. UNCHANGED <<world, evidence, clock>>
  BY DEF Parents, List, Describe, Others, CheckRecorder, CheckStatus, CheckDeliveryChannel,
         CheckConformancePack, CheckStubs
<1> QED BY <1>0, <1>10, <1>11, <1>12 DEF Reading

--------------------------------------------------------------------------------
(* The evidence, step by step.                                             *)

LEMMA KeysAre == MaxKey \in Nat \ {0} /\ Keys = 1..MaxKey /\ 1 \in Keys
BY KeysAssumption DEF Keys

\* What was written by one time was by any later one.
LEMMA WrittenBefore ==
  ASSUME NEW m, Document(m), NEW s \in Int, NEW t \in Int, s <= t, WrittenBy(m, s)
  PROVE  WrittenBy(m, t)
<1>1. /\ m.created \in Nat /\ DOMAIN m.records = 1..Len(m.records) /\ Len(m.records) \in Nat
      /\ \A i \in DOMAIN m.records : m.records[i].at \in Nat
  BY RecordsOf DEF Document
<1> QED BY <1>1 DEF WrittenBy

\* A write, and the rotation that may follow: the copies fall behind, or stay at odds.
LEMMA Appends ==
  ASSUME TypeOK, NEW a \in Keys, NEW n \in Keys, NEW w, EvidenceOK(a),
         ~Idle, run.pc # "upload", run'.pc \in {"upload", "done"},
         run'.pc = "upload" => run'.at = 1 /\ run'.key = a,
         run'.cmd = "verify" /\ run'.pc = "upload" =>
            /\ run.cmd = "verify" /\ run.pc = "write"
            /\ run'.found = run.found /\ run'.unknown = run.unknown,
         Adds(local[a], w, clock), local' = [local EXCEPT ![a] = w],
         UNCHANGED <<mirror, clock>>,
         standing' = [b \in Mirrors |-> IF standing[b] = "current" THEN "behind" ELSE standing[b]],
         \/ n = a /\ Unrotated(w)
         \/ n = a + 1 /\ Closed(w) /\ Last(w.records).next = a + 1 /\ run'.pc = "upload"
  PROVE  /\ EvidenceOK(n)'
         /\ local' = [k \in Keys |-> local'[k]]
         /\ mirror' = [b \in Mirrors |-> [k \in Keys |-> mirror'[b][k]]]
         /\ \A k \in Keys : Document(local'[k]) /\ \A b \in Mirrors : Document(mirror'[b][k])
         /\ standing' \in [Mirrors -> {"current", "behind", "witness", "unclear"}]
<1>0. /\ local = [k \in Keys |-> local[k]]
      /\ mirror = [b \in Mirrors |-> [k \in Keys |-> mirror[b][k]]]
      /\ \A k \in Keys : Document(local[k]) /\ \A b \in Mirrors : Document(mirror[b][k])
      /\ standing \in [Mirrors -> {"current", "behind", "witness", "unclear"}]
      /\ clock \in Nat /\ clock # 0 /\ run.at \in 1..Len(Buckets)
  BY DEF TypeOK
<1>1. /\ local'[a] = w /\ \A k \in Keys : k # a => local'[k] = local[k]
      /\ local' = [k \in Keys |-> local'[k]]
  BY <1>0
<1>2. /\ mirror' = mirror /\ clock' = clock
      /\ \A b \in Mirrors : standing'[b] = IF standing[b] = "current" THEN "behind" ELSE standing[b]
      /\ standing' \in [Mirrors -> {"current", "behind", "witness", "unclear"}]
  BY <1>0
<1>3. /\ LastWrite = clock - 1 /\ LastWrite' = clock
      /\ clock - 1 \in Int /\ clock \in Int /\ clock - 1 <= clock
  BY <1>0 DEF LastWrite, Idle
<1>4. Document(w) /\ \A k \in Keys : Document(local'[k])
  BY <1>0, <1>1 DEF Adds
<1>5. \A b \in Mirrors, k \in Keys : WrittenBy(mirror[b][k], clock - 1)
  BY <1>3 DEF EvidenceOK, DatesOK
<1>6. DatesOK'
  <2>1. ASSUME NEW k \in Keys PROVE WrittenBy(local'[k], clock)
    <3>1. WrittenBy(local[k], clock - 1)
      BY <1>3 DEF EvidenceOK, DatesOK
    <3>2. CASE k = a
      BY <3>1, <3>2, <1>0, <1>1, AddsKeeps
    <3>3. CASE k # a
      BY <3>1, <3>3, <1>0, <1>1, <1>3, WrittenBefore
    <3> QED BY <3>2, <3>3
  <2>2. ASSUME NEW k \in Keys, NEW b \in Mirrors PROVE WrittenBy(mirror'[b][k], clock)
    BY <1>0, <1>2, <1>3, <1>5, WrittenBefore
  <2> QED BY <1>3, <2>1, <2>2 DEF DatesOK
<1>7. /\ EndsAt(local, a)
      /\ \A k \in (a + 1)..MaxKey : \A b \in Mirrors : Missing(mirror[b][k])
  BY DEF EvidenceOK, ChainOK
<1>8. ChainOK(n)'
  <2>1. \A k \in (n + 1)..MaxKey : \A b \in Mirrors : Missing(mirror'[b][k])
    BY <1>2, <1>7, KeysAre
  <2>2. \A k \in (n + 1)..MaxKey : Missing(local'[k])
    BY <1>1, <1>7, KeysAre DEF EndsAt
  <2>3. \A i \in DOMAIN local'[n].records : ~Terminal(local'[n].records[i])
    <3>1. CASE n = a
      <4>1. n = a /\ Unrotated(w)
        BY <3>1, KeysAre
      <4> QED BY <4>1, <1>1 DEF Unrotated
    <3>2. CASE n = a + 1
      <4>1. n # a /\ Missing(local[n])
        BY <3>2, <1>7, KeysAre DEF EndsAt
      <4>2. local'[n].records = <<>>
        BY <4>1, <1>1 DEF Missing
      <4> QED BY <4>2
    <3> QED BY <3>1, <3>2
  <2>4. \A k \in 1..(n - 1) : Closed(local'[k]) /\ Last(local'[k].records).next = k + 1
    <3>1. ASSUME NEW k \in 1..(n - 1)
          PROVE  Closed(local'[k]) /\ Last(local'[k].records).next = k + 1
      <4>1. CASE k = a
        BY <4>1, <3>1, <1>1, KeysAre
      <4>2. CASE k # a
        <5>1. k \in 1..(a - 1) /\ k \in Keys
          BY <4>2, <3>1, KeysAre
        <5> QED BY <4>2, <5>1, <1>1, <1>7 DEF EndsAt
      <4> QED BY <4>1, <4>2
    <3> QED BY <3>1
  <2> QED BY <2>1, <2>2, <2>3, <2>4 DEF ChainOK, EndsAt
<1>9. UploadOK(n)'
  <2>1. ASSUME n = a + 1
        PROVE  /\ Missing(local'[n]) /\ \A b \in Mirrors : Missing(mirror'[b][n])
    <3>1. n # a /\ n \in (a + 1)..MaxKey
      BY <2>1, KeysAre
    <3> QED BY <3>1, <1>1, <1>2, <1>7 DEF EndsAt
  <2> QED BY <2>1 DEF UploadOK
\* Every bucket's standing is now about the manifest that was written.
<1>10. \A i \in DOMAIN Buckets : Stands(i, n)' = a
  BY BucketsAre DEF Stands, Pending
<1>11. \A i \in DOMAIN Buckets : Stands(i, a) = a
  BY DEF Stands, Pending
<1>12. StandingOK(n)'
  <2>1. ASSUME NEW i \in DOMAIN Buckets
        PROVE  LET b == Buckets[i] IN
               /\ Means(standing'[b], local'[a], mirror'[b][a])
               /\ standing'[b] # "current"
    <3> DEFINE b == Buckets[i]
               l == local[a]
               m == mirror[b][a]
    <3>1. b \in Mirrors /\ standing[b] \in {"current", "behind", "witness", "unclear"}
      BY <1>0, BucketsAre
    <3>2. Means(standing[b], l, m)
      BY <1>11 DEF EvidenceOK, StandingOK
    <3>3. Document(l) /\ Document(m) /\ clock \in Nat /\ WrittenBy(m, clock - 1)
      BY <3>1, <1>0, <1>5
    <3>4. local'[a] = w /\ mirror'[b][a] = m
      BY <1>1, <1>2
    <3>5. standing'[b] = IF standing[b] = "current" THEN "behind" ELSE standing[b]
      BY <3>1, <1>2
    <3> HIDE DEF b, l, m
    <3>6. /\ Behind(l, m) => Behind(w, m)
          /\ Conflicts(l, m) => Conflicts(w, m)
      <4>1. Adds(l, w, clock)
        BY DEF l
      <4> QED BY <4>1, <3>3, AddsKeeps
    <3>7. Means(standing'[b], w, m) /\ standing'[b] # "current"
      BY <3>1, <3>2, <3>5, <3>6 DEF Means
    <3> QED BY <3>4, <3>7 DEF b
  <2> QED BY <2>1, <1>10 DEF StandingOK
<1>13. FetchedOK(n)'
  <2> SUFFICES ASSUME run'.cmd = "verify", NEW i \in DOMAIN Buckets, Fetched(i)',
                      "mirror" \notin run'.found \cup run'.unknown
               PROVE  /\ ~Missing(mirror'[Buckets[i]][a])
                      /\ Extends(local'[a], mirror'[Buckets[i]][a])
    BY <1>10 DEF FetchedOK
  <2>1. /\ run'.pc = "upload" /\ run.cmd = "verify" /\ run.pc = "write"
        /\ run'.found = run.found /\ run'.unknown = run.unknown
    BY DEF Fetched, Pending
  <2>2. Fetched(i) /\ "mirror" \notin run.found \cup run.unknown
    BY <2>1 DEF Fetched
  <2> DEFINE m == mirror[Buckets[i]][a]
             l == local[a]
  <2>3. ~Missing(m) /\ Extends(l, m)
    BY <2>1, <2>2, <1>11 DEF EvidenceOK, FetchedOK
  <2>4. Document(l) /\ Document(m) /\ clock \in Nat /\ Adds(l, w, clock)
    BY <1>0, BucketsAre
  <2> HIDE DEF m, l
  <2>5. Extends(w, m)
    BY <2>3, <2>4, AddsKeeps
  <2> QED BY <2>3, <2>5, <1>1, <1>2 DEF m
<1> QED BY <1>0, <1>1, <1>2, <1>4, <1>6, <1>8, <1>9, <1>12, <1>13 DEF EvidenceOK

\* What a step leaves of the types.
TypedEvidence ==
    /\ local = [k \in Keys |-> local[k]]
    /\ mirror = [b \in Mirrors |-> [k \in Keys |-> mirror[b][k]]]
    /\ \A k \in Keys : Document(local[k]) /\ \A b \in Mirrors : Document(mirror[b][k])
    /\ standing \in [Mirrors -> {"current", "behind", "witness", "unclear"}]

\* A command ends, or goes on to something other than an upload, and the evidence is as it was.
LEMMA Kept ==
  ASSUME TypeOK, NEW a \in Keys, EvidenceOK(a), UNCHANGED <<local, mirror, standing, clock>>,
         run.pc \notin {"upload", "done"}, run'.pc # "upload", FetchedOK(a)'
  PROVE  TypedEvidence' /\ EvidenceOK(a)'
<1>0. TypedEvidence /\ clock \in Nat
  BY DEF TypeOK, TypedEvidence
<1>1. /\ LastWrite = clock - 1 /\ LastWrite' \in {clock, clock - 1}
      /\ LastWrite \in Int /\ LastWrite' \in Int /\ LastWrite <= LastWrite'
  BY <1>0 DEF LastWrite
<1>2. DatesOK'
  <2>1. ASSUME NEW k \in Keys, NEW b \in Mirrors
        PROVE  WrittenBy(local[k], LastWrite') /\ WrittenBy(mirror[b][k], LastWrite')
    BY <1>0, <1>1, WrittenBefore DEF TypedEvidence, EvidenceOK, DatesOK
  <2>2. ASSUME NEW k \in Keys
        PROVE  WrittenBy(local[k], LastWrite')
    BY <1>0, <1>1, WrittenBefore DEF TypedEvidence, EvidenceOK, DatesOK
  <2> QED BY <2>1, <2>2 DEF DatesOK
<1>3. ChainOK(a)'
  BY DEF EvidenceOK, ChainOK
<1>4. UploadOK(a)'
  BY DEF UploadOK
<1>5. StandingOK(a)'
  <2>1. \A i \in DOMAIN Buckets : /\ Stands(i, a)' = Stands(i, a)
                                  /\ ~Pending(i)'
    BY DEF Stands, Pending
  <2> QED BY <2>1 DEF EvidenceOK, StandingOK
<1> QED BY <1>0, <1>2, <1>3, <1>4, <1>5 DEF EvidenceOK, TypedEvidence

\* A verify or a vend writes its record.
LEMMA WriteStep ==
  ASSUME TypeOK, StepsOK, NEW a \in Keys, EvidenceOK(a), Write
  PROVE  TypedEvidence' /\ \E n \in Keys : EvidenceOK(n)'
<1> DEFINE rec == Record(run.cmd, clock, Outcome, 0)
           m == Appended(Opened(a), rec)
           w == Rotating(a, m)
<1>0. /\ RunTyped(run) /\ clock \in Nat /\ \A k \in Keys : Document(local[k])
      /\ run.pc = "write" /\ run.cmd # "assess" /\ run.cmd # "none" /\ run.at = 1
      /\ local = [k \in Keys |-> local[k]]
  BY TypedIs DEF Write, At, StepsOK
<1>1. Active \in {0, a}
  BY <1>0, ActiveIs DEF EvidenceOK, ChainOK
<1>2. ASSUME run' = Ended(1), UNCHANGED evidence, clock' = clock
      PROVE  TypedEvidence' /\ EvidenceOK(a)'
  <2>1. run'.pc = "done"
    BY <1>0, <1>2 DEF Ended, RunTyped, RunFields
  <2>2. FetchedOK(a)'
    BY <2>1 DEF FetchedOK, Fetched, Pending
  <2> QED BY <1>0, <1>2, <2>1, <2>2, Kept DEF evidence
<1>3. ASSUME Active = a,
             local' = [local EXCEPT ![a] = w],
             standing' = [b \in Mirrors |->
                            IF standing[b] = "current" THEN "behind" ELSE standing[b]],
             run' = [run EXCEPT !.key = a, !.pc = "upload"],
             mirror' = mirror, clock' = clock
      PROVE  TypedEvidence' /\ \E n \in Keys : EvidenceOK(n)'
  <2>1. /\ run'.pc = "upload" /\ run'.at = 1 /\ run'.key = a /\ run'.cmd = run.cmd
        /\ run'.found = run.found /\ run'.unknown = run.unknown
    BY <1>0, <1>3 DEF RunTyped, RunFields
  <2>2. /\ Adds(local[a], m, clock)
        /\ Len(m.records) = Len(local[a].records) + 1
        /\ m.records[Len(m.records)].op = run.cmd
    <3>1. Document(local[a]) /\ clock \in Nat
      BY <1>0
    <3> QED BY <3>1, WriteAdds
  <2>3. Unrotated(m)
    <3>1. DOMAIN m.records = 1..Len(m.records)
      BY <2>2, RecordsOf DEF Adds
    <3>2. Len(local[a].records) \in Nat /\ DOMAIN local[a].records = 1..Len(local[a].records)
      BY <1>0, RecordsOf
    <3>3. \A i \in 1..Len(local[a].records) : ~Terminal(m.records[i])
      BY <2>2, <3>2 DEF Adds, EvidenceOK, ChainOK, EndsAt
    <3>4. ~Terminal(m.records[Len(m.records)])
      BY <1>0, <2>2 DEF Terminal, RunTyped
    <3> QED BY <3>1, <3>2, <3>3, <3>4, <2>2 DEF Unrotated
  <2> HIDE DEF m
  <2>4. CASE Len(m.records) < Threshold \/ a = MaxKey
    <3>1. w = m
      BY <2>4 DEF Rotating
    <3> HIDE DEF w
    <3>2. EvidenceOK(a)' /\ TypedEvidence'
      BY <1>0, <1>3, <2>1, <2>2, <2>3, <3>1, Appends DEF Idle, TypedEvidence
    <3> QED BY <3>2
  <2>5. CASE ~(Len(m.records) < Threshold \/ a = MaxKey)
    <3>1. w = Rotated(m, clock, Unused(a))
      BY <2>5 DEF Rotating
    <3>2. Unused(a) = a + 1 /\ a + 1 \in Keys
      BY <2>5, UnusedIs DEF EvidenceOK, ChainOK
    <3>3. Adds(local[a], w, clock) /\ Closed(w) /\ Last(w.records).next = a + 1
      BY <1>0, <2>2, <3>1, <3>2, RotationAdds
    <3> HIDE DEF w
    <3>4. EvidenceOK(a + 1)' /\ TypedEvidence'
      <4> DEFINE n == a + 1
      <4>1. n \in Keys /\ n = a + 1
        BY <3>2
      <4> HIDE DEF n
      <4>2. EvidenceOK(n)' /\ TypedEvidence'
        BY <1>0, <1>3, <2>1, <3>3, <4>1, Appends DEF Idle, TypedEvidence
      <4> QED BY <4>1, <4>2
    <3> QED BY <3>2, <3>4
  <2> QED BY <2>4, <2>5
<1>4. /\ clock' = clock
      /\ \/ run' = Ended(1) /\ UNCHANGED evidence
         \/ /\ Active = a
            /\ local' = [local EXCEPT ![a] = w]
            /\ standing' = [b \in Mirrors |->
                              IF standing[b] = "current" THEN "behind" ELSE standing[b]]
            /\ run' = [run EXCEPT !.key = a, !.pc = "upload"]
            /\ mirror' = mirror
  <2> HIDE DEF w
  <2> DEFINE key == Active
  <2>1. clock' = clock
    BY DEF Write
  <2>2. CASE key = 0
    BY <2>1, <2>2 DEF Write
  <2>3. CASE key = a
    BY <2>1, <2>3 DEF Write, w
  <2> QED BY <1>1, <2>2, <2>3
<1> HIDE DEF w
<1> QED BY <1>2, <1>3, <1>4

\* An assessment writes its record to the first manifest, when that is still the last.
LEMMA WriteAssessStep ==
  ASSUME TypeOK, StepsOK, NEW a \in Keys, EvidenceOK(a), WriteAssess
  PROVE  TypedEvidence' /\ EvidenceOK(a)'
<1> DEFINE rec == Record("assess", clock, "success", 0)
           m == Appended(Opened(1), rec)
<1>0. /\ RunTyped(run) /\ clock \in Nat /\ \A k \in Keys : Document(local[k])
      /\ run.pc = "write" /\ run.cmd = "assess" /\ run.at = 1
      /\ local = [k \in Keys |-> local[k]]
  BY TypedIs DEF WriteAssess, At, StepsOK
<1>1. CASE run' = Ended(1) /\ UNCHANGED <<local, standing, mirror, clock>>
  <2>1. run'.pc = "done"
    BY <1>0, <1>1 DEF Ended, RunTyped, RunFields
  <2>2. FetchedOK(a)'
    BY <2>1 DEF FetchedOK, Fetched, Pending
  <2> QED BY <1>0, <1>1, <2>1, <2>2, Kept
<1>2. ASSUME ~Closed(Opened(1)),
             local' = [local EXCEPT ![1] = m],
             standing' = [b \in Mirrors |->
                            IF standing[b] = "current" THEN "behind" ELSE standing[b]],
             run' = Ended(0), mirror' = mirror, clock' = clock
      PROVE  TypedEvidence' /\ EvidenceOK(a)'
  <2>1. a = 1
    <3>1. a # 1 => 1 \in 1..(a - 1)
      BY KeysAre
    <3>2. a # 1 => Closed(local[1])
      BY <3>1 DEF EvidenceOK, ChainOK, EndsAt
    <3> QED BY <3>2, <1>2 DEF Opened, Closed
  <2>2. run'.pc = "done" /\ run'.cmd = "assess"
    BY <1>0, <1>2 DEF Ended, RunTyped, RunFields
  <2>3. /\ Adds(local[a], m, clock)
        /\ Len(m.records) = Len(local[a].records) + 1
        /\ m.records[Len(m.records)].op = "assess"
    <3>1. Document(local[1]) /\ clock \in Nat
      BY <1>0, <2>1
    <3> QED BY <2>1, <3>1, WriteAdds
  <2> HIDE DEF m
  <2>4. Unrotated(m)
    <3>1. DOMAIN m.records = 1..Len(m.records)
      BY <2>3, RecordsOf DEF Adds
    <3>2. Len(local[a].records) \in Nat /\ DOMAIN local[a].records = 1..Len(local[a].records)
      BY <1>0, RecordsOf
    <3>3. \A i \in 1..Len(local[a].records) : ~Terminal(m.records[i])
      BY <2>3, <3>2 DEF Adds, EvidenceOK, ChainOK, EndsAt
    <3>4. ~Terminal(m.records[Len(m.records)])
      BY <2>3 DEF Terminal
    <3> QED BY <3>1, <3>2, <3>3, <3>4, <2>3 DEF Unrotated
  <2>5. local' = [local EXCEPT ![a] = m]
    BY <1>2, <2>1
  <2> QED BY <1>0, <1>2, <2>2, <2>3, <2>4, <2>5, Appends DEF Idle, TypedEvidence
<1>3. /\ UNCHANGED <<mirror, clock>>
      /\ \/ run' = Ended(1) /\ UNCHANGED <<local, standing>>
         \/ /\ ~Closed(Opened(1))
            /\ local' = [local EXCEPT ![1] = m]
            /\ standing' = [b \in Mirrors |->
                              IF standing[b] = "current" THEN "behind" ELSE standing[b]]
            /\ run' = Ended(0)
  BY DEF WriteAssess, Appendable
<1> HIDE DEF m
<1> QED BY <1>1, <1>2, <1>3

\* compareManifests finds nothing exactly where both say the same.
LEMMA CompareIs ==
  ASSUME NEW l, NEW m, Document(l), Document(m)
  PROVE  /\ Compare(l, m) = "matches" => /\ l.created = m.created
                                         /\ Len(l.records) = Len(m.records)
                                         /\ \A i \in 1..Len(m.records) : l.records[i] = m.records[i]
                                         /\ Extends(l, m) /\ ~Conflicts(l, m)
         /\ l = m => Compare(l, m) = "matches" /\ Extends(l, m)
<1>0. /\ Len(l.records) \in Nat /\ Len(m.records) \in Nat
      /\ Listed(l.records) /\ Listed(m.records)
  BY RecordsOf DEF Document
<1>1. ASSUME Compare(l, m) = "matches"
      PROVE  /\ l.created = m.created
             /\ Len(l.records) = Len(m.records)
             /\ \A i \in 1..Len(m.records) : l.records[i] = m.records[i]
  BY <1>0, <1>1 DEF Compare, Common
<1>2. Compare(l, m) = "matches" => Extends(l, m)
  BY <1>0, <1>1, PrefixIs DEF Extends
<1>3. Compare(l, m) = "matches" => ~Conflicts(l, m)
  BY <1>0, <1>1 DEF Conflicts, Common
<1>4. l = m => Compare(l, m) = "matches"
  BY DEF Compare
<1> QED BY <1>1, <1>2, <1>3, <1>4

\* What checkMirrorDrift makes of a bucket whose copy can be fetched.
LEMMA DiffersIs ==
  ASSUME TypeOK, NEW a \in Keys, NEW b \in Mirrors, ~Unreachable(b, a)
  PROVE  /\ ~Differs(b, a) => Extends(local[a], mirror[b][a])
         /\ Conflicts(local[a], mirror[b][a]) => Differs(b, a)
         /\ Same(local[a], mirror[b][a]) => ~Differs(b, a)
<1> DEFINE l == local[a]
           m == mirror[b][a]
           o == Opened(a)
<1>1. Document(l) /\ Document(m) /\ ~Missing(m) /\ clock \in Nat
  BY DEF TypeOK, Unreachable
<1>2. Differs(b, a) <=> Compare(o, m) # "matches"
  BY DEF Differs
<1>3. CASE ~Missing(l)
  <2>1. o = l
    BY <1>3 DEF Opened
  <2> HIDE DEF o
  <2> QED BY <1>1, <1>2, <2>1, CompareIs DEF Same
<1>4. CASE Missing(l)
  <2>1. Document(o) /\ Len(o.records) = 0
    BY <1>4, <1>1 DEF Opened, NewManifest, Document, Listed
  <2>2. Len(m.records) # 0
    BY <1>1, RecordsOf
  <2> HIDE DEF o
  <2>3. Compare(o, m) # "matches"
    BY <1>1, <2>1, <2>2, CompareIs
  <2>4. ~Same(l, m)
    BY <1>1, <1>4 DEF Same
  <2> QED BY <1>2, <2>3, <2>4
<1> QED BY <1>3, <1>4

\* A verify compares the active manifest with a bucket's copy of it.
LEMMA FetchStep ==
  ASSUME TypeOK, StepsOK, NEW a \in Keys, EvidenceOK(a), Fetch
  PROVE  TypedEvidence' /\ EvidenceOK(a)'
<1>0. /\ RunTyped(run) /\ clock \in Nat /\ \A k \in Keys : Document(local[k])
      /\ run.pc = "fetch" /\ run.at \in 1..Len(Buckets)
      /\ UNCHANGED <<local, mirror, standing, clock>>
  BY TypedIs DEF Fetch, At, RunTyped, evidence
<1> DEFINE b == Buckets[run.at]
           fetched == [run EXCEPT !.pc = IF run.at = Len(Buckets) THEN "sign" ELSE @,
                                  !.at = IF run.at = Len(Buckets) THEN 1 ELSE @ + 1]
<1>1. Active \in {0, a} /\ b \in Mirrors
  BY <1>0, ActiveIs, BucketsAre DEF EvidenceOK, ChainOK
<1>2. \/ run' = Ended(1)
      \/ /\ Active = a
         /\ run' = [fetched EXCEPT
                      !.found = IF ~Unreachable(b, a) /\ Differs(b, a)
                                THEN @ \cup {"mirror"} ELSE @,
                      !.unknown = IF Unreachable(b, a) THEN @ \cup {"mirror"} ELSE @]
      \/ run' = [fetched EXCEPT !.unknown = @ \cup {"mirror"}, !.failed = @ \cup {b}]
  <2> DEFINE key == Active
  <2>1. CASE key = 0
    BY <2>1 DEF Fetch
  <2>2. CASE key = a
    BY <2>2 DEF Fetch
  <2> QED BY <1>1, <2>1, <2>2
<1>3. run'.pc \in {"done", "fetch", "sign"} /\ run'.cmd = run.cmd
  BY <1>0, <1>2 DEF RunTyped, RunFields, Ended
<1>4. FetchedOK(a)'
  <2> SUFFICES ASSUME run'.cmd = "verify", NEW i \in DOMAIN Buckets, Fetched(i)',
                      "mirror" \notin run'.found \cup run'.unknown
               PROVE  /\ ~Missing(mirror[Buckets[i]][a])
                      /\ Extends(local[a], mirror[Buckets[i]][a])
    BY <1>0, <1>3 DEF FetchedOK, Stands, Pending
  <2>1. /\ Active = a
        /\ run' = [fetched EXCEPT
                     !.found = IF ~Unreachable(b, a) /\ Differs(b, a)
                               THEN @ \cup {"mirror"} ELSE @,
                     !.unknown = IF Unreachable(b, a) THEN @ \cup {"mirror"} ELSE @]
    <3>1. run' # Ended(1)
      BY <1>0 DEF Fetched, Pending, Ended, RunTyped, RunFields
    <3>2. run' # [fetched EXCEPT !.unknown = @ \cup {"mirror"}, !.failed = @ \cup {b}]
      <4> DEFINE r == [fetched EXCEPT !.unknown = @ \cup {"mirror"}, !.failed = @ \cup {b}]
      <4>1. r.unknown = run.unknown \cup {"mirror"}
        BY <1>0 DEF RunTyped, RunFields
      <4> HIDE DEF r
      <4>2. run' # r
        BY <4>1
      <4> QED BY <4>2 DEF r
    <3> QED BY <1>2, <3>1, <3>2
  <2>2. /\ run'.found = IF ~Unreachable(b, a) /\ Differs(b, a) THEN run.found \cup {"mirror"}
                       ELSE run.found
        /\ run'.unknown = IF Unreachable(b, a) THEN run.unknown \cup {"mirror"} ELSE run.unknown
        /\ run'.at = IF run.at = Len(Buckets) THEN 1 ELSE run.at + 1
        /\ run'.pc = IF run.at = Len(Buckets) THEN "sign" ELSE "fetch"
    BY <1>0, <2>1 DEF RunTyped, RunFields
  <2>3. /\ ~Unreachable(b, a) /\ ~Differs(b, a)
        /\ "mirror" \notin run.found \cup run.unknown
    BY <2>2
  <2>4. i < run.at \/ i = run.at
    BY <1>0, <2>2, BucketsAre DEF Fetched, Pending
  <2>5. CASE i < run.at
    <3>1. Fetched(i) /\ Stands(i, a) = a
      BY <2>5, <1>0 DEF Fetched, Stands, Pending
    <3> QED BY <1>3, <2>3, <3>1 DEF EvidenceOK, FetchedOK
  <2>6. CASE i = run.at
    BY <2>6, <2>3, <1>1, DiffersIs DEF Unreachable
  <2> QED BY <2>4, <2>5, <2>6
<1>5. run.pc \notin {"upload", "done"} /\ run'.pc # "upload"
  BY <1>0, <1>3
<1> QED BY <1>0, <1>4, <1>5, Kept

\* A manifest is uploaded to one bucket, or the call fails.
LEMMA UploadStep ==
  ASSUME TypeOK, StepsOK, NEW a \in Keys, EvidenceOK(a), Upload
  PROVE  TypedEvidence' /\ EvidenceOK(a)'
<1> DEFINE at == run.at
           b == Buckets[at]
           key == run.key
<1>0. /\ RunTyped(run) /\ clock \in Nat /\ TypedEvidence
      /\ run.pc = "upload" /\ at \in 1..Len(Buckets) /\ b \in Mirrors
      /\ local' = local /\ clock' = clock
  BY TypedIs, BucketsAre DEF Upload, At, RunTyped, TypedEvidence
<1>1. /\ key \in Keys
      /\ \/ key = a
         \/ key + 1 = a /\ Missing(local[a]) /\ \A c \in Mirrors : Missing(mirror[c][a])
  BY <1>0 DEF EvidenceOK, UploadOK
<1>2. Closed(local[key]) <=> key # a
  <2>1. ~Closed(local[a])
    BY <1>0, UnrotatedIsOpen DEF TypedEvidence, EvidenceOK, ChainOK, EndsAt, Unrotated
  <2>2. key # a => key \in 1..(a - 1)
    BY <1>1, KeysAre
  <2> QED BY <2>1, <2>2 DEF EvidenceOK, ChainOK, EndsAt
<1>3. /\ run'.cmd = run.cmd /\ run'.found = run.found /\ run'.unknown = run.unknown
      /\ run'.key = key
      /\ run'.pc = IF at < Len(Buckets) THEN "upload" ELSE "done"
      /\ at < Len(Buckets) => run'.at = at + 1
  BY <1>0 DEF Upload, Ended, RunTyped, RunFields
<1>4. \/ /\ mirror' = [mirror EXCEPT ![b][key] = local[key]]
         /\ standing' = [standing EXCEPT ![b] = "current"]
      \/ /\ standing' = [standing EXCEPT ![b] = IF Closed(local[key]) THEN "current" ELSE @]
         /\ mirror' = mirror
  BY DEF Upload, Put
<1>5. /\ mirror' = [c \in Mirrors |-> [k \in Keys |-> mirror'[c][k]]]
      /\ \A c \in Mirrors, k \in Keys :
            mirror'[c][k] = mirror[c][k] \/ (c = b /\ k = key /\ mirror'[c][k] = local[key])
      /\ \A c \in Mirrors : c # b => standing'[c] = standing[c]
      /\ standing' \in [Mirrors -> {"current", "behind", "witness", "unclear"}]
  <2>1. CASE /\ mirror' = [mirror EXCEPT ![b][key] = local[key]]
             /\ standing' = [standing EXCEPT ![b] = "current"]
    <3>1. /\ mirror' = [c \in Mirrors |-> IF c = b THEN [mirror[b] EXCEPT ![key] = local[key]]
                                        ELSE mirror[c]]
          /\ standing' = [c \in Mirrors |-> IF c = b THEN "current" ELSE standing[c]]
      BY <2>1, <1>0 DEF TypedEvidence
    <3>2. mirror[b] = [k \in Keys |-> mirror[b][k]]
      BY <1>0 DEF TypedEvidence
    <3>3. [mirror[b] EXCEPT ![key] = local[key]]
             = [k \in Keys |-> IF k = key THEN local[key] ELSE mirror[b][k]]
      BY <3>2, <1>1
    <3>4. \A c \in Mirrors : mirror'[c] = IF c = b
             THEN [k \in Keys |-> IF k = key THEN local[key] ELSE mirror[b][k]]
             ELSE mirror[c]
      BY <3>1, <3>3
    <3>5. \A c \in Mirrors : mirror'[c] = [k \in Keys |-> mirror'[c][k]]
      BY <3>4, <1>0 DEF TypedEvidence
    <3>6. mirror' = [c \in Mirrors |-> [k \in Keys |-> mirror'[c][k]]]
      BY <3>1, <3>5
    <3> QED BY <3>1, <3>4, <3>6, <1>0 DEF TypedEvidence
  <2>2. CASE /\ standing' = [standing EXCEPT ![b] = IF Closed(local[key]) THEN "current" ELSE @]
             /\ mirror' = mirror
    BY <2>2, <1>0 DEF TypedEvidence
  <2> QED BY <1>4, <2>1, <2>2
<1>6. TypedEvidence'
  BY <1>0, <1>1, <1>5 DEF TypedEvidence
<1>7. LastWrite = clock /\ LastWrite' = clock
  BY <1>0, <1>3 DEF LastWrite
<1>8. DatesOK'
  BY <1>0, <1>1, <1>5, <1>7 DEF EvidenceOK, DatesOK
<1>9. ChainOK(a)'
  <2>1. \A k \in (a + 1)..MaxKey : k \in Keys /\ k # key
    BY <1>1, KeysAre
  <2> QED BY <1>0, <1>5, <2>1 DEF EvidenceOK, ChainOK
<1>10. UploadOK(a)'
  <2>1. key # a => a # key /\ \A c \in Mirrors : mirror'[c][a] = mirror[c][a]
    BY <1>5
  <2> QED BY <1>0, <1>1, <1>3, <2>1 DEF UploadOK
<1>11. ASSUME NEW i \in DOMAIN Buckets
       PROVE  /\ i \in 1..Len(Buckets)
              /\ Buckets[i] \in Mirrors /\ (i # at => Buckets[i] # b)
              /\ Pending(i)' <=> i > at
              /\ Pending(i) <=> i >= at
  BY <1>0, <1>3, BucketsAre DEF Pending
<1>12. StandingOK(a)'
  <2> SUFFICES ASSUME NEW i \in DOMAIN Buckets
               PROVE  /\ LET k == IF i > at THEN key ELSE a IN
                         Means(standing'[Buckets[i]], local[k], mirror'[Buckets[i]][k])
                      /\ i > at => standing'[Buckets[i]] # "current"
    BY <1>0, <1>3, <1>11 DEF StandingOK, Stands
  <2>1. /\ LET k == IF i >= at THEN key ELSE a IN
           Means(standing[Buckets[i]], local[k], mirror[Buckets[i]][k])
        /\ i >= at => standing[Buckets[i]] # "current"
    BY <1>11 DEF EvidenceOK, StandingOK, Stands
  <2>2. CASE i # at
    <3>1. /\ standing'[Buckets[i]] = standing[Buckets[i]]
          /\ \A k \in Keys : mirror'[Buckets[i]][k] = mirror[Buckets[i]][k]
      BY <2>2, <1>5, <1>11
    <3> QED BY <2>1, <2>2, <3>1, <1>0, <1>1, <1>11
  <2>3. CASE i = at
    <3>1. CASE key # a
      <4>1. standing'[b] = "current"
        BY <3>1, <1>0, <1>2, <1>4 DEF TypedEvidence
      <4>2. Missing(local[a]) /\ Missing(mirror'[b][a])
        BY <3>1, <1>0, <1>1, <1>5
      <4> QED BY <2>3, <4>1, <4>2, <1>0, BucketsAre DEF Means, Same, Behind
    <3>2. CASE key = a /\ mirror' = [mirror EXCEPT ![b][key] = local[key]]
                       /\ standing' = [standing EXCEPT ![b] = "current"]
      <4>1. standing'[b] = "current" /\ mirror'[b][a] = local[a]
        BY <3>2, <1>0 DEF TypedEvidence
      <4>2. Extends(local[a], local[a])
        BY <1>0, CompareIs DEF TypedEvidence
      <4> QED BY <2>3, <4>1, <4>2, <1>0, BucketsAre DEF Means, Same, Behind
    <3>3. CASE key = a /\ mirror' = mirror
                       /\ standing' = [standing EXCEPT
                                         ![b] = IF Closed(local[key]) THEN "current" ELSE @]
      <4>1. standing' = standing
        BY <3>3, <1>0, <1>2 DEF TypedEvidence
      <4> QED BY <2>1, <2>3, <3>3, <4>1, <1>0
    <3> QED BY <1>4, <3>1, <3>2, <3>3
  <2> QED BY <2>2, <2>3
<1>13. FetchedOK(a)'
  <2> SUFFICES ASSUME run.cmd = "verify", NEW i \in DOMAIN Buckets, i > at,
                      "mirror" \notin run.found \cup run.unknown
               PROVE  /\ ~Missing(mirror'[Buckets[i]][key])
                      /\ Extends(local[key], mirror'[Buckets[i]][key])
    BY <1>0, <1>3, <1>11 DEF FetchedOK, Fetched, Stands
  <2>1. Pending(i) /\ Fetched(i) /\ Stands(i, a) = key
    BY <1>0, <1>11 DEF Fetched, Stands
  <2>2. mirror'[Buckets[i]][key] = mirror[Buckets[i]][key]
    BY <1>0, <1>1, <1>5, <1>11
  <2> QED BY <2>1, <2>2 DEF EvidenceOK, FetchedOK
<1> QED BY <1>6, <1>8, <1>9, <1>10, <1>12, <1>13 DEF EvidenceOK

\* Somebody changes the active file, or loses it.
LEMMA EditStep ==
  ASSUME TypeOK, NEW a \in Keys, EvidenceOK(a), Edit
  PROVE  TypedEvidence' /\ EvidenceOK(a)'
<1>0. /\ TypedEvidence /\ clock \in Nat /\ run.pc = "done"
      /\ mirror' = mirror /\ run' = run /\ clock' = clock
  BY DEF TypeOK, TypedEvidence, Edit, Idle
<1>1. Active = a /\ ~Missing(local[a])
  BY <1>0, ActiveIs DEF Edit, TypedEvidence, EvidenceOK, ChainOK
<1>2. PICK m \in Copies(local[a]) : local' = [local EXCEPT ![a] = m]
  BY <1>1 DEF Edit
<1>3. standing' = [b \in Mirrors |->
                     IF standing[b] = "current" THEN "witness" ELSE "unclear"]
  BY DEF Edit
<1>4. Document(local[a]) /\ Unrotated(local[a])
  BY <1>0 DEF TypedEvidence, EvidenceOK, ChainOK, EndsAt, Unrotated
<1>5. /\ Document(m) /\ Unrotated(m) /\ Conflicts(m, local[a])
      /\ WrittenBy(local[a], clock) => WrittenBy(m, clock)
  BY <1>0, <1>1, <1>4, CopiesAre
<1>6. /\ local' = [k \in Keys |-> local'[k]]
      /\ local'[a] = m /\ \A k \in Keys : k # a => local'[k] = local[k]
  BY <1>0, <1>2 DEF TypedEvidence
<1>7. TypedEvidence'
  BY <1>0, <1>3, <1>5, <1>6 DEF TypedEvidence
<1>8. LastWrite = clock /\ LastWrite' = clock
  BY <1>0 DEF LastWrite
<1>9. DatesOK'
  BY <1>0, <1>5, <1>6, <1>8 DEF EvidenceOK, DatesOK
<1>10. ChainOK(a)'
  <2>1. /\ \A k \in 1..(a - 1) : k \in Keys /\ k # a
        /\ \A k \in (a + 1)..MaxKey : k \in Keys /\ k # a
    BY KeysAre
  <2>2. EndsAt(local', a)
    BY <1>5, <1>6, <2>1 DEF EvidenceOK, ChainOK, EndsAt, Unrotated
  <2> QED BY <1>0, <2>2 DEF EvidenceOK, ChainOK
<1>11. UploadOK(a)'
  BY <1>0 DEF UploadOK
<1>12. StandingOK(a)'
  <2> SUFFICES ASSUME NEW i \in DOMAIN Buckets
               PROVE  Means(standing'[Buckets[i]], m, mirror[Buckets[i]][a])
    BY <1>0, <1>6 DEF StandingOK, Stands, Pending
  <2> DEFINE b == Buckets[i]
  <2>1. b \in Mirrors /\ standing'[b] = IF standing[b] = "current" THEN "witness" ELSE "unclear"
    BY <1>3, BucketsAre
  <2>2. standing[b] = "current" => mirror[b][a] = local[a]
    <3>1. Means(standing[b], local[a], mirror[b][a])
      BY <1>0 DEF EvidenceOK, StandingOK, Stands, Pending
    <3> QED BY <3>1, <1>1 DEF Means, Same
  <2> QED BY <2>1, <2>2, <1>5 DEF Means
<1>13. FetchedOK(a)'
  BY <1>0 DEF FetchedOK, Fetched, Pending
<1> QED BY <1>7, <1>9, <1>10, <1>11, <1>12, <1>13 DEF EvidenceOK

\* A command begins.
LEMMA BeginStep ==
  ASSUME TypeOK, NEW a \in Keys, EvidenceOK(a), Idle, UNCHANGED <<local, mirror, standing>>,
         clock' = clock + 1, run'.pc \in {"parents", "apply", "summarize"}
  PROVE  TypedEvidence' /\ EvidenceOK(a)'
<1>0. TypedEvidence /\ clock \in Nat /\ run.pc = "done"
  BY DEF TypeOK, TypedEvidence, Idle
<1>1. LastWrite' = LastWrite
  BY <1>0 DEF LastWrite
<1>2. DatesOK' /\ ChainOK(a)' /\ UploadOK(a)'
  BY <1>1 DEF EvidenceOK, DatesOK, ChainOK, UploadOK
<1>3. StandingOK(a)'
  <2>1. \A i \in DOMAIN Buckets : ~Pending(i) /\ ~Pending(i)'
    BY <1>0 DEF Pending
  <2> QED BY <2>1 DEF EvidenceOK, StandingOK, Stands
<1>4. FetchedOK(a)'
  BY DEF FetchedOK, Fetched, Pending
<1> QED BY <1>0, <1>2, <1>3, <1>4 DEF EvidenceOK, TypedEvidence

\* The account drifts, and of the command nothing but what it is beside.
LEMMA DriftStep ==
  ASSUME TypeOK, NEW a \in Keys, EvidenceOK(a), UNCHANGED <<local, mirror, standing, clock>>,
         \A f \in RunFields \ Beside : run'[f] = run[f]
  PROVE  TypedEvidence' /\ EvidenceOK(a)'
<1>0. TypedEvidence
  BY DEF TypeOK, TypedEvidence
<1>1. /\ run'.pc = run.pc /\ run'.at = run.at /\ run'.key = run.key /\ run'.cmd = run.cmd
      /\ run'.found = run.found /\ run'.unknown = run.unknown
  BY DEF RunFields, Beside
<1>2. DatesOK' /\ ChainOK(a)' /\ UploadOK(a)'
  BY <1>1 DEF EvidenceOK, DatesOK, LastWrite, ChainOK, UploadOK
<1>3. \A i \in DOMAIN Buckets : /\ Pending(i)' <=> Pending(i)
                                /\ Stands(i, a)' = Stands(i, a)
                                /\ Fetched(i)' <=> Fetched(i)
  BY <1>1 DEF Pending, Stands, Fetched
<1>4. StandingOK(a)'
  BY <1>3 DEF EvidenceOK, StandingOK
<1>5. FetchedOK(a)'
  BY <1>1, <1>3 DEF EvidenceOK, FetchedOK
<1> QED BY <1>0, <1>2, <1>4, <1>5 DEF EvidenceOK, TypedEvidence

\* A first command finds what earlier ones left, in every bucket too.
LEMMA EvidenceInit ==
  ASSUME Init
  PROVE  TypedEvidence /\ \E a \in Keys : EvidenceOK(a)
<1>0. /\ local \in Stores /\ mirror = [b \in Mirrors |-> local]
      /\ standing = [b \in Mirrors |-> "current"] /\ clock = 0 /\ run.pc = "done"
  BY DEF Init, Command
<1>1. /\ local = [k \in Keys |-> local[k]]
      /\ \A k \in Keys : Document(local[k]) /\ WrittenBy(local[k], 0)
      /\ \E a \in Keys : EndsAt(local, a)
  BY <1>0, StoresAssumption DEF Keys
<1>2. PICK a \in Keys : EndsAt(local, a)
  BY <1>1
<1>3. \A b \in Mirrors : mirror[b] = local
  BY <1>0
<1>4. TypedEvidence
  BY <1>0, <1>1, <1>3 DEF TypedEvidence
<1>5. DatesOK
  BY <1>0, <1>1, <1>3 DEF DatesOK, LastWrite
<1>6. ChainOK(a)
  BY <1>2, <1>3 DEF ChainOK, EndsAt
<1>7. UploadOK(a)
  BY <1>0 DEF UploadOK
<1>8. StandingOK(a)
  <2> SUFFICES ASSUME NEW i \in DOMAIN Buckets
               PROVE  Means(standing[Buckets[i]], local[a], mirror[Buckets[i]][a])
    BY <1>0 DEF StandingOK, Stands, Pending
  <2>1. standing[Buckets[i]] = "current" /\ mirror[Buckets[i]][a] = local[a]
    BY <1>0, <1>3, BucketsAre
  <2>2. Extends(local[a], local[a])
    BY <1>1, CompareIs
  <2> QED BY <2>1, <2>2 DEF Means, Same, Behind
<1>9. FetchedOK(a)
  BY <1>0 DEF FetchedOK, Fetched, Pending
<1> QED BY <1>4, <1>5, <1>6, <1>7, <1>8, <1>9 DEF EvidenceOK

\* Whatever happens, the evidence stays as the invariant has it.
LEMMA EvidenceStep ==
  ASSUME TypeOK, StepsOK, NEW a \in Keys, EvidenceOK(a), [Next]_vars
  PROVE  TypedEvidence' /\ \E n \in Keys : EvidenceOK(n)'
<1>0. RunTyped(run) /\ DOMAIN run = RunFields
  BY DEF TypeOK, RunTyped
<1>1. ASSUME BeginVerify \/ BeginVend PROVE TypedEvidence' /\ EvidenceOK(a)'
  <2>1. PICK cmd \in {"verify", "vend"}, pc \in {"parents", "apply"} :
           Idle /\ clock' = clock + 1 /\ run' = Command(cmd, pc) /\ UNCHANGED evidence
    BY <1>1 DEF BeginVerify, BeginVend, Begin
  <2>2. run'.pc \in {"parents", "apply"}
    BY <2>1, CommandTyped
  <2> QED BY <2>1, <2>2, BeginStep DEF evidence
<1>2. ASSUME BeginAssess PROVE TypedEvidence' /\ EvidenceOK(a)'
  <2>1. PICK f \in Files :
           /\ Idle /\ clock' = clock + 1 /\ UNCHANGED evidence
           /\ run' = [Command("assess", "summarize") EXCEPT !.file = f]
    BY <1>2 DEF BeginAssess
  <2>2. run'.pc = "summarize"
    BY <2>1 DEF Command
  <2> QED BY <2>1, <2>2, BeginStep DEF evidence
<1>3. ASSUME \/ Parents \/ List \/ (\E p \in Policies : Describe(p)) \/ Others
             \/ CheckRecorder \/ CheckStatus \/ CheckDeliveryChannel \/ CheckConformancePack
             \/ CheckStubs
      PROVE  TypedEvidence' /\ EvidenceOK(a)'
  <2>1. /\ run.pc \in Reading \ {"fetch"} /\ run'.pc \in Reading \cup {"done"}
        /\ run'.pc = "fetch" => run'.at = 1
        /\ UNCHANGED <<world, evidence, clock>>
    BY <1>3, ReadingSteps
  <2>2. FetchedOK(a)'
    BY <2>1, BucketsAre DEF FetchedOK, Fetched, Pending, Reading
  <2> QED BY <2>1, <2>2, Kept DEF evidence, Reading
<1>4. ASSUME Fetch PROVE TypedEvidence' /\ EvidenceOK(a)'
  BY <1>4, FetchStep
<1>5. ASSUME Sign PROVE TypedEvidence' /\ EvidenceOK(a)'
  <2>1. /\ run.pc = "sign" /\ run'.pc \in {"write", "done"} /\ UNCHANGED <<evidence, clock>>
        /\ run'.cmd = run.cmd /\ run'.found = run.found /\ run'.unknown = run.unknown
    BY <1>0, <1>5 DEF Sign, At, Ended, RunTyped, RunFields
  <2>2. FetchedOK(a)'
    <3>1. \A i \in DOMAIN Buckets : Fetched(i) /\ Stands(i, a) = a /\ Stands(i, a)' = a
      BY <2>1 DEF Fetched, Pending, Stands
    <3> QED BY <2>1, <3>1 DEF EvidenceOK, FetchedOK, evidence
  <2> QED BY <2>1, <2>2, Kept DEF evidence
<1>6. ASSUME ApplyPass \/ Summarize PROVE TypedEvidence' /\ EvidenceOK(a)'
  <2>1. /\ run.pc \in {"apply", "summarize"} /\ run.cmd # "verify"
        /\ run'.pc \in {"sign", "done"} /\ run'.cmd = run.cmd /\ UNCHANGED <<evidence, clock>>
    BY <1>0, <1>6 DEF ApplyPass, Summarize, At, Ended, RunTyped, RunFields, StepsOK
  <2>2. FetchedOK(a)'
    BY <2>1 DEF FetchedOK
  <2> QED BY <2>1, <2>2, Kept DEF evidence
<1>7. ASSUME Drift PROVE TypedEvidence' /\ EvidenceOK(a)'
  <2>1. UNCHANGED <<evidence, clock>> /\ \A f \in RunFields \ Beside : run'[f] = run[f]
    BY <1>0, <1>7 DEF Drift, Seen, RunFields, Beside
  <2> QED BY <2>1, DriftStep DEF evidence
<1>8. ASSUME AllDone \/ UNCHANGED vars PROVE TypedEvidence' /\ EvidenceOK(a)'
  <2>1. UNCHANGED <<evidence, clock>> /\ \A f \in RunFields \ Beside : run'[f] = run[f]
    BY <1>8 DEF AllDone, vars, evidence
  <2> QED BY <2>1, DriftStep DEF evidence
<1> QED
  BY <1>1, <1>2, <1>3, <1>4, <1>5, <1>6, <1>7, <1>8, WriteStep, WriteAssessStep, UploadStep,
     EditStep DEF Next

--------------------------------------------------------------------------------
(* A verify, read by read.                                                 *)

\* The facts of the three parts of the preventive layer are different ones.
LEMMA PolicyFacts ==
  ASSUME NEW ou
  PROVE  /\ NoOrphan(ou) \notin AttachedTo(ou) \cup Documents
         /\ \A d \in Documents : d[2] \in Policies /\ d \in {"org"} \X {d[2]} \X {"owned", "content"}
         /\ \A p \in Policies : {"org"} \X {p} \X {"owned", "content"} \subseteq Documents
         /\ \A p \in Policies : <<ou, p, "attached">> \in AttachedTo(ou)
         /\ \A f \in AttachedTo(ou) : \E p \in Policies : f = <<ou, p, "attached">>
BY DEF NoOrphan, AttachedTo, Documents

\* What the reading steps leave alone.
Frame ==
    /\ run'.exit = run.exit /\ run'.ever = run.ever /\ run'.always = run.always
    /\ run'.homes = run.homes /\ run'.stood = run.stood
    /\ profile' = profile /\ home' = home /\ holds' = holds /\ standing' = standing

\* What the steps of the layers after the preventive one leave of it.
LEMMA PolicyKept ==
  ASSUME VerifyOK, Frame, run'.target = run.target,
         "others" \in run'.failed <=> "others" \in run.failed,
         run.pc \notin {"parents", "list", "describe"},
         run'.pc \notin {"parents", "list", "describe"},
         "policy" \in run'.found <=> "policy" \in run.found
  PROVE  /\ PolicyRead' \subseteq run'.ever \/ "policy" \in run'.found
         /\ "policy" \in run'.found => ~(Asked.policy' \subseteq run'.always)
<1>1. Asked.policy' = Asked.policy
  BY DEF Frame, Asked
<1>2. PolicyRead' = PolicyRead /\ PolicyRead = Asked.policy \ PassedOver
  BY <1>1 DEF PolicyRead, PassedOver
<1> QED BY <1>1, <1>2 DEF VerifyOK, Complete, Sound, Frame

\* What of VerifyOK the reading steps keep, whatever they find.
LEMMA FrameKeeps ==
  ASSUME StepsOK, VerifyOK, Frame, run.pc \in Reading \ {"fetch"}, run'.pc \in Reading,
         run'.pc = "fetch" => run'.at = 1,
         "mirror" \in run'.found => "mirror" \in run.found,
         run'.found \subseteq run.found \cup {"policy", "detective", "procedural"},
         run'.failed \subseteq run.failed \cup {"others"}
  PROVE  /\ run'.exit = 0 /\ home' \in run'.homes
         /\ holds' \subseteq run'.ever /\ run'.always \subseteq holds'
         /\ run'.found \subseteq {"policy", "detective", "procedural", "mirror"}
         /\ run'.failed \subseteq Mirrors \cup {"others"}
         /\ MirrorsOK'
<1>1. MirrorsOK'
  BY BucketsAre DEF VerifyOK, MirrorsOK, Frame, Reading
<1> QED BY <1>1 DEF VerifyOK, Frame

LEMMA ParentsStep ==
  ASSUME TypeOK, StepsOK, VerifyOK, Parents, ~Idle'
  PROVE  VerifyOK'
<1>1. /\ run.pc = "parents" /\ run'.pc = "list" /\ run'.target = home
      /\ run'.found = run.found /\ run'.failed = run.failed /\ Frame
  BY DEF TypeOK, RunFields, Parents, At, Ended, Idle, Frame, world, evidence
<1>2. /\ run.found = {} /\ "others" \notin run.failed
  BY <1>1 DEF VerifyOK
<1>3. Complete' /\ Sound' /\ ProfileOK'
  BY <1>1, <1>2 DEF Complete, Sound, ProfileOK, PolicyRead, DetectiveRead, ProceduralRead
<1> QED BY <1>1, <1>2, <1>3, FrameKeeps DEF VerifyOK, Reading, Frame

LEMMA ListStep ==
  ASSUME TypeOK, StepsOK, VerifyOK, List, ~Idle'
  PROVE  VerifyOK'
<1> DEFINE ou == run.target
<1>1. /\ run.pc = "list" /\ run'.pc = "describe" /\ run'.target = ou
      /\ run'.seen = {p \in Policies : <<ou, p, "attached">> \in holds}
                       \cup (IF NoOrphan(ou) \in holds THEN {} ELSE {"others"})
      /\ run'.found = IF AttachedTo(ou) \subseteq holds THEN run.found
                      ELSE run.found \cup {"policy"}
      /\ run'.failed = run.failed /\ Frame
  BY DEF TypeOK, RunFields, List, At, Ended, Idle, Frame, world, evidence
<1>2. /\ run.found = {} /\ "others" \notin run.failed /\ holds \subseteq run.ever /\ run.always \subseteq holds
      /\ ou \in run.homes
  BY <1>1 DEF VerifyOK
<1>3. PolicyRead' \subseteq run'.ever \/ "policy" \in run'.found
  <2> SUFFICES ASSUME AttachedTo(ou) \subseteq holds PROVE PolicyRead' \subseteq holds
    BY <1>1, <1>2 DEF Frame
  <2>1. \A d \in Documents : d[2] \in run'.seen
    BY <1>1, PolicyFacts
  <2>2. "others" \notin run'.seen => NoOrphan(ou) \in holds
    BY <1>1
  <2>3. PolicyRead' = AttachedTo(ou) \cup {d \in Documents : d[2] \notin run'.seen}
                        \cup (IF "others" \in run'.seen THEN {} ELSE {NoOrphan(ou)})
    BY <1>1 DEF PolicyRead
  <2> QED BY <2>1, <2>2, <2>3
<1>4. Complete'
  BY <1>1, <1>3 DEF Complete, DetectiveRead, ProceduralRead
<1>5. Sound' /\ ProfileOK'
  <2>1. AttachedTo(ou) \subseteq Asked.policy'
    BY <1>1 DEF Asked, Preventive
  <2>2. "policy" \in run'.found => ~(Asked.policy' \subseteq run'.always)
    BY <1>1, <1>2, <2>1 DEF Frame
  <2> QED BY <1>1, <1>2, <2>2 DEF Sound, ProfileOK, Frame
<1> QED BY <1>1, <1>2, <1>4, <1>5, FrameKeeps DEF VerifyOK, Reading, Frame

LEMMA DescribeStep ==
  ASSUME TypeOK, StepsOK, VerifyOK, NEW p \in Policies, Describe(p), ~Idle'
  PROVE  VerifyOK'
<1> DEFINE ou == run.target
           facts == {"org"} \X {p} \X {"owned", "content"}
<1>1. /\ run.pc = "describe" /\ run'.pc = "describe" /\ run'.target = ou
      /\ run'.seen = run.seen \ {p}
      /\ run'.found = IF facts \subseteq holds THEN run.found ELSE run.found \cup {"policy"}
      /\ run'.unknown = run.unknown /\ run'.failed = run.failed /\ Frame
  BY DEF TypeOK, RunFields, Describe, At, Ended, Idle, Frame, world, evidence
<1>2. /\ "others" \notin run.failed /\ holds \subseteq run.ever /\ run.always \subseteq holds /\ ou \in run.homes
      /\ p # "others" /\ facts \subseteq Documents
  BY <1>1, NamesAssumption, PolicyFacts DEF VerifyOK
<1>3. PolicyRead' \subseteq run'.ever \/ "policy" \in run'.found
  <2> SUFFICES ASSUME facts \subseteq holds, PolicyRead \subseteq run.ever
               PROVE  PolicyRead' \subseteq run.ever
    BY <1>1 DEF VerifyOK, Complete, Frame
  <2>1. /\ PolicyRead' = AttachedTo(ou) \cup {d \in Documents : d[2] \notin run'.seen}
                           \cup (IF "others" \in run'.seen THEN {} ELSE {NoOrphan(ou)})
        /\ PolicyRead = AttachedTo(ou) \cup {d \in Documents : d[2] \notin run.seen}
                          \cup (IF "others" \in run.seen THEN {} ELSE {NoOrphan(ou)})
    BY <1>1 DEF PolicyRead
  <2>2. \A d \in Documents : d[2] \notin run'.seen => d[2] \notin run.seen \/ d \in facts
    BY <1>1, PolicyFacts
  <2>3. "others" \in run'.seen <=> "others" \in run.seen
    BY <1>1, <1>2
  <2> HIDE DEF facts
  <2> QED BY <2>1, <2>2, <2>3, <1>2
<1>4. Complete'
  BY <1>1, <1>3 DEF Complete, DetectiveRead, ProceduralRead
<1>5. Sound'
  <2>0. Asked.policy' = Asked.policy /\ Documents \subseteq Asked.policy
    BY <1>1 DEF Asked, Preventive
  <2>1. "policy" \in run'.found => ~(Asked.policy' \subseteq run'.always)
    BY <1>1, <1>2, <2>0 DEF VerifyOK, Sound, Frame
  <2>2. /\ "detective" \in run'.found => "detective" \in run.found
        /\ "procedural" \in run'.found => "procedural" \in run.found
    BY <1>1
  <2> QED BY <1>1, <2>1, <2>2 DEF VerifyOK, Sound, Frame, Detective, Procedural
<1>6. ProfileOK'
  BY <1>1 DEF ProfileOK
<1> QED BY <1>1, <1>2, <1>4, <1>5, <1>6, FrameKeeps DEF VerifyOK, Reading, Frame

LEMMA OthersStep ==
  ASSUME TypeOK, StepsOK, VerifyOK, Others, ~Idle'
  PROVE  VerifyOK'
<1> DEFINE ou == run.target
           next == IF profile.recorder THEN "recorder" ELSE IF profile.pack THEN "pack"
                   ELSE "stubs"
           ours == "others" \in run.seen /\ NoOrphan(run.target) \notin holds
<1>1. /\ run.pc = "describe" /\ run'.pc = next /\ run'.target = ou
      /\ run'.unknown = run.unknown /\ Frame
      /\ run.seen \cap Policies = {}
  BY DEF TypeOK, RunFields, Others, At, Frame, world, evidence
<1>2. \/ /\ run'.found = IF ours THEN run.found \cup {"policy"} ELSE run.found
         /\ run'.failed = run.failed
      \/ /\ run'.found = run.found /\ run'.failed = run.failed \cup {"others"}
         /\ "others" \in run.seen
  BY DEF TypeOK, RunFields, Others
<1>3. /\ "others" \notin run.failed /\ holds \subseteq run.ever /\ run.always \subseteq holds /\ ou \in run.homes
  BY <1>1 DEF VerifyOK
<1>4. /\ next \in {"recorder", "pack", "stubs"}
      /\ next = "recorder" => profile.recorder
      /\ next = "pack" => profile.pack /\ ~profile.recorder
      /\ next = "stubs" => ~profile.recorder /\ ~profile.pack
  OBVIOUS
<1> HIDE DEF next
<1>5. /\ Asked.policy' = AttachedTo(ou) \cup Documents \cup {NoOrphan(ou)}
      /\ Asked.policy = Asked.policy'
      /\ PolicyRead' = Asked.policy'
                         \ (IF "others" \in run'.failed THEN {NoOrphan(ou)} ELSE {})
  BY <1>1, <1>4 DEF Asked, Preventive, PolicyRead, PassedOver
<1>6. PolicyRead = AttachedTo(ou) \cup Documents
                     \cup (IF "others" \in run.seen THEN {} ELSE {NoOrphan(ou)})
  <2>1. {d \in Documents : d[2] \notin run.seen} = Documents
    BY <1>1, PolicyFacts
  <2> QED BY <1>1, <2>1 DEF PolicyRead
<1>7. PolicyRead' \subseteq run'.ever \/ "policy" \in run'.found
  <2>1. PolicyRead \subseteq run.ever \/ "policy" \in run.found
    BY DEF VerifyOK, Complete
  <2> QED BY <1>1, <1>2, <1>3, <1>5, <1>6, <2>1 DEF Frame
<1>8. Complete'
  <2>1. DetectiveRead' = {} /\ ProceduralRead' = {}
    BY <1>1, <1>4 DEF DetectiveRead, ProceduralRead, Detective, Frame
  <2> QED BY <1>7, <2>1 DEF Complete
<1>9. Sound'
  <2>1. "policy" \in run'.found => ~(Asked.policy' \subseteq run'.always)
    <3>1. "policy" \in run.found => ~(Asked.policy \subseteq run.always)
      BY DEF VerifyOK, Sound
    <3>2. ours => NoOrphan(ou) \notin run.always
      BY <1>3
    <3> QED BY <1>1, <1>2, <1>5, <3>1, <3>2 DEF Frame
  <2>2. /\ "detective" \in run'.found => "detective" \in run.found
        /\ "procedural" \in run'.found => "procedural" \in run.found
    BY <1>2
  <2> QED BY <1>1, <1>4, <2>1, <2>2 DEF VerifyOK, Sound, Frame, Detective, Procedural
<1>10. ProfileOK'
  BY <1>1, <1>4 DEF ProfileOK, Frame
<1> QED BY <1>1, <1>2, <1>3, <1>4, <1>8, <1>9, <1>10, FrameKeeps DEF VerifyOK, Reading, Frame

\* One read of the detective layer: what was wrong is found, or the layer is unknown.
LEMMA ReadsStep ==
  ASSUME TypeOK, StepsOK, VerifyOK, NEW facts, NEW next, Reads(facts, next),
         UNCHANGED <<world, evidence, clock>>,
         run.pc \in {"recorder", "status", "channel", "pack"},
         next \in {"status", "channel", "pack", "stubs"},
         facts \subseteq Detective(profile),
         run'.pc = next => ProfileOK',
         run'.pc = next /\ facts \subseteq holds => DetectiveRead' \subseteq DetectiveRead \cup facts
  PROVE  VerifyOK'
<1>1. /\ run'.target = run.target /\ run'.failed = run.failed /\ Frame
      /\ \/ /\ run'.found = IF facts \subseteq holds THEN run.found
                            ELSE run.found \cup {"detective"}
            /\ run'.unknown = run.unknown /\ run'.pc = next
         \/ /\ run'.found = run.found \ {"detective"}
            /\ run'.unknown = run.unknown \cup {"detective"} /\ run'.pc = "stubs"
  BY DEF TypeOK, RunFields, Reads, Frame, world, evidence
<1>2. /\ holds \subseteq run.ever /\ run.always \subseteq holds /\ run.target \in run.homes
      /\ DetectiveRead \subseteq run.ever \/ "detective" \in run.found \cup run.unknown
      /\ "detective" \in run.found => ~(Detective(profile) \subseteq run.always)
      /\ "procedural" \in run.found => ~(Procedural \subseteq run.always)
  BY DEF VerifyOK, Complete, Sound
<1>3. run'.pc \in {"status", "channel", "pack", "stubs"}
  BY <1>1
<1>4. /\ PolicyRead' \subseteq run'.ever \/ "policy" \in run'.found
      /\ "policy" \in run'.found => ~(Asked.policy' \subseteq run'.always)
  <2>1. "policy" \in run'.found <=> "policy" \in run.found
    BY <1>1
  <2> QED BY <1>1, <1>3, <2>1, PolicyKept
<1>5. DetectiveRead' \subseteq run'.ever \/ "detective" \in run'.found \cup run'.unknown
  BY <1>1, <1>2 DEF Frame
<1>6. Complete'
  <2>1. ProceduralRead' = {}
    BY <1>3 DEF ProceduralRead
  <2> QED BY <1>4, <1>5, <2>1 DEF Complete
<1>7. Sound'
  <2>1. "detective" \in run'.found => ~(Detective(profile) \subseteq run'.always)
    BY <1>1, <1>2 DEF Frame
  <2>2. "procedural" \in run'.found => "procedural" \in run.found
    BY <1>1
  <2> QED BY <1>1, <1>2, <1>3, <1>4, <2>1, <2>2 DEF Sound, Frame, Detective, Procedural
<1>8. ProfileOK'
  BY <1>1 DEF ProfileOK
<1>9. /\ "mirror" \in run'.found => "mirror" \in run.found
      /\ run'.found \subseteq run.found \cup {"policy", "detective", "procedural"}
  BY <1>1
<1> QED BY <1>1, <1>2, <1>3, <1>6, <1>7, <1>8, <1>9, FrameKeeps DEF VerifyOK, Reading, Frame

LEMMA RecorderStep ==
  ASSUME TypeOK, StepsOK, VerifyOK, CheckRecorder
  PROVE  VerifyOK'
<1> DEFINE recording == <<"config", "recorder", "recording">>
           facts == Recorder \ {recording}
           next == IF <<"config", "recorder", "there">> \in holds THEN "status" ELSE "channel"
<1>1. /\ run.pc = "recorder" /\ Reads(facts, next) /\ UNCHANGED <<world, evidence, clock>>
  BY DEF CheckRecorder, At
<1>2. profile.recorder /\ profile' = profile /\ facts \subseteq Detective(profile)
  BY <1>1 DEF VerifyOK, ProfileOK, Detective, world
<1>3. <<"config", "recorder", "there">> \in facts
  BY DEF Recorder
<1>4. run'.pc = next /\ facts \subseteq holds => DetectiveRead' \subseteq DetectiveRead \cup facts
  <2> SUFFICES ASSUME run'.pc = next, facts \subseteq holds
               PROVE  DetectiveRead' = facts
    OBVIOUS
  <2> HIDE DEF facts
  <2>1. run'.pc = "status"
    BY <1>3
  <2> QED BY <2>1 DEF DetectiveRead, facts
<1>5. run'.pc = next => ProfileOK'
  BY <1>2 DEF ProfileOK
<1>6. next \in {"status", "channel", "pack", "stubs"}
  OBVIOUS
<1> HIDE DEF facts, next
<1> QED BY <1>1, <1>2, <1>4, <1>5, <1>6, ReadsStep

LEMMA StatusStep ==
  ASSUME TypeOK, StepsOK, VerifyOK, CheckStatus
  PROVE  VerifyOK'
<1> DEFINE recording == <<"config", "recorder", "recording">>
           facts == {recording}
           next == "channel"
<1>1. /\ run.pc = "status" /\ Reads(facts, next) /\ UNCHANGED <<world, evidence, clock>>
  BY DEF CheckStatus, At
<1>2. profile.recorder /\ profile' = profile /\ facts \subseteq Detective(profile)
  BY <1>1 DEF VerifyOK, ProfileOK, Detective, Recorder, world
<1>3. DetectiveRead = Recorder \ facts
  BY <1>1 DEF DetectiveRead
<1>4. run'.pc = next => DetectiveRead' \subseteq DetectiveRead \cup facts
  BY <1>3 DEF DetectiveRead
<1>5. run'.pc = next => ProfileOK'
  BY <1>2 DEF ProfileOK
<1>6. next \in {"status", "channel", "pack", "stubs"}
  OBVIOUS
<1> HIDE DEF facts, next
<1> QED BY <1>1, <1>2, <1>4, <1>5, <1>6, ReadsStep

LEMMA ChannelStep ==
  ASSUME TypeOK, StepsOK, VerifyOK, CheckDeliveryChannel
  PROVE  VerifyOK'
<1> DEFINE next == IF profile.pack THEN "pack" ELSE "stubs"
<1>1. /\ run.pc = "channel" /\ Reads(Channel, next) /\ UNCHANGED <<world, evidence, clock>>
  BY DEF CheckDeliveryChannel, At
<1>2. profile.recorder /\ profile' = profile /\ Channel \subseteq Detective(profile)
  BY <1>1 DEF VerifyOK, ProfileOK, Detective, world
<1>3. DetectiveRead = Recorder
  BY <1>1 DEF DetectiveRead
<1>4. run'.pc = next => DetectiveRead' \subseteq DetectiveRead \cup Channel
  BY <1>2, <1>3 DEF DetectiveRead, Detective
<1>5. run'.pc = next => ProfileOK'
  BY <1>2 DEF ProfileOK
<1>6. next \in {"status", "channel", "pack", "stubs"}
  OBVIOUS
<1> HIDE DEF next
<1> QED BY <1>1, <1>2, <1>4, <1>5, <1>6, ReadsStep

LEMMA PackStep ==
  ASSUME TypeOK, StepsOK, VerifyOK, CheckConformancePack
  PROVE  VerifyOK'
<1> DEFINE next == "stubs"
<1>1. /\ run.pc = "pack" /\ Reads(Pack, next) /\ UNCHANGED <<world, evidence, clock>>
  BY DEF CheckConformancePack, At
<1>2. profile.pack /\ profile' = profile /\ Pack \subseteq Detective(profile)
  BY <1>1 DEF VerifyOK, ProfileOK, Detective, world
<1>3. DetectiveRead = IF profile.recorder THEN Recorder \cup Channel ELSE {}
  BY <1>1 DEF DetectiveRead
<1>4. run'.pc = next => DetectiveRead' \subseteq DetectiveRead \cup Pack
  BY <1>2, <1>3 DEF DetectiveRead, Detective
<1>5. run'.pc = next => ProfileOK'
  BY <1>2 DEF ProfileOK
<1>6. next \in {"status", "channel", "pack", "stubs"}
  OBVIOUS
<1> HIDE DEF next
<1> QED BY <1>1, <1>2, <1>4, <1>5, <1>6, ReadsStep

LEMMA StubsStep ==
  ASSUME TypeOK, StepsOK, VerifyOK, CheckStubs
  PROVE  VerifyOK'
<1>1. /\ run.pc = "stubs" /\ run'.pc = "fetch" /\ run'.at = run.at
      /\ run'.target = run.target /\ run'.failed = run.failed /\ Frame
      /\ \/ /\ run'.found = IF Procedural \subseteq holds THEN run.found
                            ELSE run.found \cup {"procedural"}
            /\ run'.unknown = run.unknown
         \/ run'.found = run.found /\ run'.unknown = run.unknown \cup {"procedural"}
  BY DEF TypeOK, RunFields, CheckStubs, At, Frame, world, evidence
<1>2. /\ holds \subseteq run.ever /\ run.always \subseteq holds /\ run.target \in run.homes /\ run.at = 1
      /\ DetectiveRead \subseteq run.ever \/ "detective" \in run.found \cup run.unknown
      /\ "detective" \in run.found => ~(Detective(profile) \subseteq run.always)
      /\ "procedural" \in run.found => ~(Procedural \subseteq run.always)
  BY <1>1 DEF VerifyOK, Complete, Sound, StepsOK
<1>3. /\ PolicyRead' \subseteq run'.ever \/ "policy" \in run'.found
      /\ "policy" \in run'.found => ~(Asked.policy' \subseteq run'.always)
  <2>1. "policy" \in run'.found <=> "policy" \in run.found
    BY <1>1
  <2> QED BY <1>1, <2>1, PolicyKept
<1>4. DetectiveRead' \subseteq run'.ever \/ "detective" \in run'.found \cup run'.unknown
  <2>1. DetectiveRead' = Detective(profile) /\ DetectiveRead = Detective(profile)
    BY <1>1 DEF DetectiveRead, Frame, Detective
  <2> QED BY <1>1, <1>2, <2>1 DEF Frame
<1>5. ProceduralRead' \subseteq run'.ever \/ "procedural" \in run'.found \cup run'.unknown
  <2>1. ProceduralRead' = Procedural
    BY <1>1 DEF ProceduralRead, Procedural
  <2> QED BY <1>1, <1>2, <2>1 DEF Frame
<1>6. Complete'
  BY <1>3, <1>4, <1>5 DEF Complete
<1>7. Sound'
  <2>1. "procedural" \in run'.found => ~(Procedural \subseteq run'.always)
    BY <1>1, <1>2 DEF Frame
  <2>2. "detective" \in run'.found => "detective" \in run.found
    BY <1>1
  <2> QED BY <1>1, <1>2, <1>3, <2>1, <2>2 DEF Sound, Frame, Detective, Procedural
<1>8. ProfileOK'
  BY <1>1 DEF ProfileOK
<1>9. /\ "mirror" \in run'.found => "mirror" \in run.found
      /\ run'.found \subseteq run.found \cup {"policy", "detective", "procedural"}
  BY <1>1
<1> QED BY <1>1, <1>2, <1>6, <1>7, <1>8, <1>9, FrameKeeps DEF VerifyOK, Reading, Frame

\* A bucket's copy is compared: one at odds with the active manifest is found, one that is
\* the same is not.
LEMMA ComparedStep ==
  ASSUME TypeOK, StepsOK, VerifyOK, NEW a \in Keys, EvidenceOK(a), Fetch, ~Idle'
  PROVE  VerifyOK'
<1> DEFINE at == run.at
           b == Buckets[at]
           fetched == [run EXCEPT !.pc = IF at = Len(Buckets) THEN "sign" ELSE @,
                                  !.at = IF at = Len(Buckets) THEN 1 ELSE @ + 1]
           drifted == ~Unreachable(b, a) /\ Differs(b, a)
<1>0. /\ RunTyped(run) /\ \A k \in Keys : Document(local[k])
      /\ run.pc = "fetch" /\ at \in 1..Len(Buckets)
      /\ UNCHANGED <<world, evidence, clock>>
  BY TypedIs DEF Fetch, At, RunTyped
<1>1. Active \in {0, a} /\ b \in Mirrors
  BY <1>0, ActiveIs, BucketsAre DEF EvidenceOK, ChainOK
<1>2. \/ run' = Ended(1)
      \/ run' = [fetched EXCEPT
                   !.found = IF drifted THEN @ \cup {"mirror"} ELSE @,
                   !.unknown = IF Unreachable(b, a) THEN @ \cup {"mirror"} ELSE @]
      \/ run' = [fetched EXCEPT !.unknown = @ \cup {"mirror"}, !.failed = @ \cup {b}]
  <2> DEFINE key == Active
  <2>1. CASE key = 0
    BY <2>1 DEF Fetch
  <2>2. CASE key = a
    BY <2>2 DEF Fetch
  <2> QED BY <1>1, <2>1, <2>2
<1>3. run' # Ended(1)
  BY <1>0 DEF Idle, Ended, RunTyped, RunFields
<1>4. /\ run'.at = IF at = Len(Buckets) THEN 1 ELSE at + 1
      /\ run'.pc = IF at = Len(Buckets) THEN "sign" ELSE "fetch"
      /\ run'.target = run.target /\ Frame
      /\ \/ /\ run'.found = IF drifted THEN run.found \cup {"mirror"} ELSE run.found
            /\ run'.unknown = IF Unreachable(b, a) THEN run.unknown \cup {"mirror"} ELSE run.unknown
            /\ run'.failed = run.failed
         \/ /\ run'.found = run.found /\ run'.unknown = run.unknown \cup {"mirror"}
            /\ run'.failed = run.failed \cup {b}
  <2> HIDE DEF drifted
  <2>1. CASE run' = [fetched EXCEPT
                   !.found = IF drifted THEN @ \cup {"mirror"} ELSE @,
                   !.unknown = IF Unreachable(b, a) THEN @ \cup {"mirror"} ELSE @]
    BY <2>1, <1>0 DEF RunTyped, RunFields, Frame, world, evidence
  <2>2. CASE run' = [fetched EXCEPT !.unknown = @ \cup {"mirror"}, !.failed = @ \cup {b}]
    BY <2>2, <1>0 DEF RunTyped, RunFields, Frame, world, evidence
  <2> QED BY <1>2, <1>3, <2>1, <2>2
<1>5. Means(standing[b], local[a], mirror[b][a]) /\ run.stood = standing
  BY <1>0, BucketsAre DEF EvidenceOK, StandingOK, Stands, Pending, VerifyOK, MirrorsOK, Reading
<1>6. drifted => run.stood[b] # "current"
  BY <1>1, <1>5, DiffersIs DEF Means
<1>7. run.stood[b] = "witness" => drifted
  BY <1>1, <1>5, DiffersIs DEF Means, Conflicts, Unreachable
<1> HIDE DEF drifted
<1>8. MirrorsOK'
  <2>1. run'.stood = standing' /\ run'.stood = run.stood
    BY <1>4, <1>5 DEF Frame
  <2>2. ASSUME NEW i \in DOMAIN Buckets, run'.pc = "fetch" => i < run'.at
        PROVE  "mirror" \in run'.found \/ Buckets[i] \in run'.failed
               \/ run.stood[Buckets[i]] # "witness"
    <3>1. i < at \/ i = at
      BY <1>0, <1>4, <2>2, BucketsAre
    <3>2. CASE i < at
      BY <3>2, <1>0, <1>4 DEF VerifyOK, MirrorsOK, Reading
    <3>3. CASE i = at
      BY <3>3, <1>4, <1>7
    <3> QED BY <3>1, <3>2, <3>3
  <2>3. "mirror" \in run'.found => \E c \in Mirrors : run.stood[c] # "current"
    BY <1>1, <1>4, <1>6 DEF VerifyOK, MirrorsOK
  <2> QED BY <2>1, <2>2, <2>3 DEF MirrorsOK
<1>9. /\ "others" \in run'.failed <=> "others" \in run.failed
      /\ run'.failed \subseteq Mirrors \cup {"others"}
  BY <1>1, <1>4, NamesAssumption DEF VerifyOK, Mirrors
<1>10. /\ PolicyRead' \subseteq run'.ever \/ "policy" \in run'.found
       /\ "policy" \in run'.found => ~(Asked.policy' \subseteq run'.always)
  <2>1. "policy" \in run'.found <=> "policy" \in run.found
    BY <1>4
  <2>2. /\ run.pc \notin {"parents", "list", "describe"}
        /\ run'.pc \notin {"parents", "list", "describe"}
    BY <1>0, <1>4
  <2> QED BY <1>4, <1>9, <2>1, <2>2, PolicyKept
<1>11. DetectiveRead' = DetectiveRead /\ ProceduralRead' = ProceduralRead
  BY <1>0, <1>4 DEF DetectiveRead, ProceduralRead, Frame, Detective, Procedural
<1>12. /\ "detective" \in run'.found <=> "detective" \in run.found
       /\ "procedural" \in run'.found <=> "procedural" \in run.found
       /\ run.unknown \subseteq run'.unknown
       /\ run'.found \subseteq run.found \cup {"mirror"}
  BY <1>4
<1>13. Complete'
  BY <1>4, <1>10, <1>11, <1>12 DEF VerifyOK, Complete, Frame
<1>14. Sound'
  <2>1. run'.pc # "describe"
    BY <1>4
  <2> QED BY <1>4, <1>10, <1>12, <2>1 DEF VerifyOK, Sound, Frame, Detective, Procedural
<1>15. ProfileOK'
  BY <1>4 DEF ProfileOK
<1>16. /\ run.target \in run.homes /\ run.exit = 0 /\ home \in run.homes
       /\ holds \subseteq run.ever /\ run.always \subseteq holds
       /\ run.found \subseteq {"policy", "detective", "procedural", "mirror"}
  BY <1>0 DEF VerifyOK
<1>17. run'.pc \notin {"parents", "list", "describe"}
  BY <1>4
<1> QED BY <1>4, <1>8, <1>9, <1>12, <1>13, <1>14, <1>15, <1>16, <1>17 DEF VerifyOK, Frame

\* From the signer to the last upload a verify reads nothing more.
LEMMA RecordedStep ==
  ASSUME TypeOK, StepsOK, VerifyOK, Sign \/ Write \/ Upload, ~Idle'
  PROVE  VerifyOK'
<1>0. /\ RunTyped(run) /\ run.pc \in {"sign", "write", "upload"} /\ UNCHANGED world
      /\ run.pc = "sign" => standing' = standing
  BY TypedIs DEF Sign, Write, Upload, At, evidence
<1>1. /\ run'.pc \in {"write", "upload"} /\ (run'.pc = "write" => run.pc = "sign")
      /\ run'.target = run.target /\ run'.found = run.found /\ run'.unknown = run.unknown
      /\ run'.failed = run.failed /\ run'.exit = run.exit /\ run'.ever = run.ever /\ run'.always = run.always
      /\ run'.homes = run.homes /\ run'.stood = run.stood
  <2>1. CASE Sign
    BY <2>1, <1>0 DEF Sign, At, Idle, Ended, RunTyped, RunFields
  <2>2. CASE Write
    <3> DEFINE key == Active
    <3>1. run' = Ended(1) \/ run' = [run EXCEPT !.key = key, !.pc = "upload"]
      BY <2>2 DEF Write
    <3> HIDE DEF key
    <3>2. run' # Ended(1)
      BY <1>0 DEF Idle, Ended, RunTyped, RunFields
    <3> QED BY <1>0, <3>1, <3>2 DEF RunTyped, RunFields
  <2>3. CASE Upload
    BY <2>3, <1>0 DEF Upload, At, Idle, Ended, RunTyped, RunFields
  <2> QED BY <2>1, <2>2, <2>3
<1>2. /\ profile' = profile /\ home' = home /\ holds' = holds
  BY <1>0 DEF world
<1>3. /\ PolicyRead' = PolicyRead /\ Asked.policy' = Asked.policy
      /\ DetectiveRead' = DetectiveRead /\ ProceduralRead' = ProceduralRead
  BY <1>0, <1>1, <1>2 DEF PolicyRead, PassedOver, Asked, DetectiveRead, ProceduralRead, Detective, Procedural
<1>4. Complete' /\ Sound' /\ ProfileOK'
  BY <1>0, <1>1, <1>2, <1>3 DEF VerifyOK, Complete, Sound, ProfileOK, Detective, Procedural
<1>5. MirrorsOK'
  <2>1. run'.pc = "write" => run'.stood = standing'
    BY <1>0, <1>1 DEF VerifyOK, MirrorsOK
  <2>2. \A i \in DOMAIN Buckets : \/ "mirror" \in run.found \/ Buckets[i] \in run.failed
                                  \/ run.stood[Buckets[i]] # "witness"
    BY <1>0 DEF VerifyOK, MirrorsOK, Reading
  <2>3. run'.pc \notin Reading \cup {"sign"}
    BY <1>1 DEF Reading
  <2> QED BY <1>1, <2>1, <2>2, <2>3 DEF VerifyOK, MirrorsOK
<1>6. /\ run.target \in run.homes /\ run.exit = 0 /\ home \in run.homes
      /\ holds \subseteq run.ever /\ run.always \subseteq holds
      /\ run.found \subseteq {"policy", "detective", "procedural", "mirror"}
      /\ run.failed \subseteq Mirrors \cup {"others"}
  BY <1>0 DEF VerifyOK
<1> QED BY <1>1, <1>2, <1>4, <1>5, <1>6 DEF VerifyOK

\* The last upload: what was read is what the exit status says.
LEMMA VerdictStep ==
  ASSUME TypeOK, StepsOK, VerifyOK, run.cmd = "verify", Upload, Idle'
  PROVE  VerdictIsTrue'
<1>0. /\ RunTyped(run) /\ run.pc = "upload" /\ profile' = profile
      /\ run' = Ended(Exit)
  <2>1. run.pc = "upload"
    BY DEF Upload, At
  <2>2. run' = IF run.at < Len(Buckets) THEN [run EXCEPT !.at = @ + 1] ELSE Ended(Exit)
    BY DEF Upload
  <2>3. RunTyped(run)
    BY TypedIs
  <2>4. run' # [run EXCEPT !.at = @ + 1]
    BY <2>1, <2>3 DEF Idle, RunTyped, RunFields
  <2> QED BY <2>1, <2>2, <2>3, <2>4 DEF Upload, world
<1>1. /\ run'.exit = Exit /\ run'.target = run.target /\ run'.homes = run.homes
      /\ run'.failed = run.failed /\ run'.unknown = run.unknown /\ run'.ever = run.ever /\ run'.always = run.always
      /\ run'.stood = run.stood
  BY <1>0 DEF Ended, RunTyped, RunFields
<1>2. Exit = IF run.found # {} THEN 2
             ELSE IF run.unknown # {} \/ NoReviewDate THEN 3 ELSE 0
  BY DEF Exit
<1>3. PolicyRead = Asked.policy \ PassedOver /\ DetectiveRead = Asked.detective
      /\ ProceduralRead = Asked.procedural /\ Asked' = Asked /\ PassedOver' = PassedOver
  BY <1>0, <1>1 DEF PolicyRead, DetectiveRead, ProceduralRead, Asked, PassedOver, Preventive,
                    Detective, Procedural
<1>4. DOMAIN Asked = {"policy", "detective", "procedural"}
  BY DEF Asked
<1>5. run.target \in run.homes
  BY <1>0 DEF VerifyOK
<1>6. ASSUME Exit \in {0, 3}
      PROVE  /\ \A l \in DOMAIN Asked : ~(Asked[l] \ PassedOver \subseteq run.ever)
                                          => Exit = 3 /\ l \in run.unknown
             /\ \A b \in Mirrors \ run.failed : run.stood[b] # "witness"
  <2>1. run.found = {}
    BY <1>2, <1>6
  <2>2. \A l \in DOMAIN Asked : ~(Asked[l] \ PassedOver \subseteq run.ever) => l \in run.unknown
    BY <1>3, <1>4, <2>1 DEF VerifyOK, Complete
  <2>3. run.unknown # {} => Exit = 3
    BY <1>2, <2>1
  <2>4. \A i \in DOMAIN Buckets : Buckets[i] \in run.failed \/ run.stood[Buckets[i]] # "witness"
    BY <1>0, <2>1 DEF VerifyOK, MirrorsOK, Reading
  <2> QED BY <2>2, <2>3, <2>4, BucketsAre
<1>7. ASSUME Exit = 2
      PROVE  \/ \E l \in DOMAIN Asked : ~(Asked[l] \subseteq run.always)
             \/ \E b \in Mirrors : run.stood[b] # "current"
  <2>1. run.found # {} /\ run.found \subseteq {"policy", "detective", "procedural", "mirror"}
    BY <1>2, <1>7 DEF VerifyOK
  <2>2. "policy" \in run.found => ~(Asked["policy"] \subseteq run.always)
    BY <1>0 DEF VerifyOK, Sound
  <2>3. "detective" \in run.found => ~(Asked["detective"] \subseteq run.always)
    BY DEF VerifyOK, Sound, Asked
  <2>4. "procedural" \in run.found => ~(Asked["procedural"] \subseteq run.always)
    BY DEF VerifyOK, Sound, Asked
  <2>5. "mirror" \in run.found => \E b \in Mirrors : run.stood[b] # "current"
    BY DEF VerifyOK, MirrorsOK
  <2> QED BY <1>4, <2>1, <2>2, <2>3, <2>4, <2>5
<1> HIDE DEF Exit
<1> QED BY <1>0, <1>1, <1>3, <1>5, <1>6, <1>7 DEF VerdictIsTrue

--------------------------------------------------------------------------------
(* The record of the run, step by step.                                    *)

\* The steps that read nothing of a layer.
LEMMA OtherSteps ==
  ASSUME TypeOK, StepsOK,
         \/ Fetch \/ Sign \/ Write \/ Upload \/ ApplyPass \/ Summarize \/ WriteAssess
  PROVE  /\ RunTyped(run') /\ run'.cmd = run.cmd /\ StepsOK'
         /\ ~Idle /\ clock' = clock /\ profile' = profile /\ home' = home
         /\ run'.file = run.file /\ (~Summarize => run'.summary = run.summary)
<1>0. RunTyped(run) /\ Len(Buckets) \in Nat \ {0} /\ run.at \in 1..Len(Buckets)
  BY TypedIs, BucketsAre DEF RunTyped
<1> DEFINE G ==
             /\ RunTyped(run')
             /\ run'.cmd = run.cmd /\ run'.file = run.file
             /\ run.pc # "done"
<1>1. ASSUME Fetch
      PROVE  G /\ StepsOK' /\ run'.summary = run.summary
  <2>1. run.pc = "fetch"
    BY <1>1 DEF Fetch, At
  <2> DEFINE pc == IF run.at = Len(Buckets) THEN "sign" ELSE run.pc
             at == IF run.at = Len(Buckets) THEN 1 ELSE run.at + 1
             moved == [run EXCEPT !.pc = pc, !.at = at]
             H == /\ G /\ run'.summary = run.summary
                  /\ run'.pc \in {"fetch", "sign", "done"} /\ (run'.pc = "sign" => run'.at = 1)
  <2>3. \/ run' = Ended(1)
        \/ \E found, unknown : run' = [moved EXCEPT !.found = found, !.unknown = unknown]
        \/ \E unknown, failed : run' = [moved EXCEPT !.unknown = unknown, !.failed = failed]
    BY <1>1 DEF Fetch
  <2>4. pc \in {"fetch", "sign"} /\ (pc = "sign" => at = 1) /\ at \in 1..Len(Buckets)
    BY <1>0, <2>1
  <2> HIDE DEF pc, at
  <2>5. ASSUME run' = Ended(1) PROVE H
    BY <1>0, <2>1, <2>5 DEF RunTyped, RunFields, Ended, Reading
  <2>6. ASSUME NEW found, NEW unknown, run' = [moved EXCEPT !.found = found, !.unknown = unknown]
        PROVE  H
    BY <1>0, <2>1, <2>4, <2>6 DEF RunTyped, RunFields, Reading
  <2>7. ASSUME NEW unknown, NEW failed,
               run' = [moved EXCEPT !.unknown = unknown, !.failed = failed]
        PROVE  H
    BY <1>0, <2>1, <2>4, <2>7 DEF RunTyped, RunFields, Reading
  <2>8. H
    <3> HIDE DEF moved, H
    <3> QED BY <2>3, <2>5, <2>6, <2>7
  <2>2. /\ G /\ run'.summary = run.summary
        /\ run'.pc \in {"fetch", "sign", "done"} /\ (run'.pc = "sign" => run'.at = 1)
    BY <2>8
  <2> QED BY <2>1, <2>2 DEF StepsOK, Reading
<1>2. ASSUME Sign
      PROVE  G /\ StepsOK' /\ run'.summary = run.summary
  <2>1. run.pc = "sign" /\ run.at = 1 /\ run.cmd # "none"
    BY <1>2 DEF Sign, At, StepsOK
  <2>2. /\ G /\ run'.summary = run.summary
        /\ run'.pc \in {"write", "done"} /\ run'.at = 1
    BY <1>0, <1>2, <2>1 DEF RunTyped, RunFields, Sign, Ended, Reading
  <2> QED BY <2>1, <2>2 DEF StepsOK, Reading
<1>3. ASSUME Write
      PROVE  G /\ StepsOK' /\ run'.summary = run.summary
  <2>1. run.pc = "write" /\ run.cmd \notin {"none", "assess"}
    BY <1>3 DEF Write, At, StepsOK
  <2>2. \/ run' = Ended(1)
        \/ \E key : run' = [run EXCEPT !.key = key, !.pc = "upload"]
    BY <1>3 DEF Write
  <2>3. G /\ run'.summary = run.summary /\ run'.pc \in {"upload", "done"}
    BY <1>0, <2>1, <2>2 DEF RunTyped, RunFields, Ended, Reading
  <2> QED BY <2>1, <2>3 DEF StepsOK, Reading
<1>4. ASSUME Upload
      PROVE  G /\ StepsOK' /\ run'.summary = run.summary
  <2>1. run.pc = "upload" /\ run.cmd \notin {"none", "assess"}
    BY <1>4 DEF Upload, At, StepsOK
  <2>2. run' = IF run.at < Len(Buckets) THEN [run EXCEPT !.at = @ + 1] ELSE Ended(Exit)
    BY <1>4 DEF Upload
  <2>4. \/ run' = [run EXCEPT !.at = run.at + 1] /\ run.at + 1 \in 1..Len(Buckets)
        \/ \E exit : run' = Ended(exit)
    BY <1>0, <2>2
  <2>3. G /\ run'.summary = run.summary /\ run'.pc \in {"upload", "done"}
    BY <1>0, <2>1, <2>4 DEF RunTyped, RunFields, Ended, Reading
  <2> QED BY <2>1, <2>3 DEF StepsOK, Reading
<1>5. ASSUME ApplyPass
      PROVE  G /\ StepsOK' /\ run'.summary = run.summary
  <2>1. run.pc = "apply" /\ run.at = 1 /\ run.cmd = "vend"
    BY <1>5 DEF ApplyPass, At, StepsOK
  <2>2. G /\ run'.summary = run.summary /\ run'.pc = "sign" /\ run'.at = 1
    BY <1>0, <1>5, <2>1 DEF RunTyped, RunFields, ApplyPass, Reading
  <2> QED BY <2>1, <2>2 DEF StepsOK, Reading
<1>6. ASSUME Summarize
      PROVE  G /\ StepsOK'
  <2>1. run.pc = "summarize" /\ run.at = 1 /\ run.cmd = "assess"
    BY <1>6 DEF Summarize, At, StepsOK
  <2>2. G /\ run'.pc \in {"sign", "done"} /\ run'.at = 1
    BY <1>0, <1>6, <2>1 DEF RunTyped, RunFields, Summarize, Ended, Reading
  <2> QED BY <2>1, <2>2 DEF StepsOK, Reading
<1>7. ASSUME WriteAssess
      PROVE  G /\ StepsOK' /\ run'.summary = run.summary
  <2>1. run.pc = "write" /\ run.cmd = "assess" /\ run' \in {Ended(0), Ended(1)}
    BY <1>7 DEF WriteAssess, At
  <2>2. G /\ run'.summary = run.summary /\ run'.pc = "done"
    BY <1>0, <2>1 DEF RunTyped, RunFields, Ended, Reading
  <2> QED BY <2>1, <2>2 DEF StepsOK, Reading
<1>8. clock' = clock /\ profile' = profile /\ home' = home
  BY DEF Fetch, Sign, Write, Upload, ApplyPass, Summarize, WriteAssess, world
<1> QED BY <1>1, <1>2, <1>3, <1>4, <1>5, <1>6, <1>7, <1>8 DEF Idle

\* The steps that begin a command, and those of somebody else.
LEMMA IdleSteps ==
  ASSUME TypeOK, StepsOK,
         \/ BeginVerify \/ BeginVend \/ BeginAssess \/ Drift \/ Edit \/ AllDone
         \/ UNCHANGED vars
  PROVE  /\ RunTyped(run') /\ StepsOK'
         /\ clock' \in Nat /\ (~Idle' => clock' # 0)
         /\ \/ /\ run'.summary = NoSummary
               /\ run'.cmd \in {"verify", "vend", "assess"} /\ run'.pc # "done" /\ Idle
            \/ run' = run
            \/ run' = [run EXCEPT !.ever = run'.ever, !.always = run'.always, !.homes = run'.homes]
<1>0. RunTyped(run) /\ clock \in Nat /\ (~Idle => clock # 0)
  BY TypedIs
<1>1. ASSUME BeginVerify \/ BeginVend
      PROVE  /\ RunTyped(run') /\ StepsOK' /\ clock' = clock + 1 /\ Idle
             /\ run'.summary = NoSummary
             /\ run'.cmd \in {"verify", "vend"} /\ run'.pc # "done"
  <2>1. CASE BeginVerify
    <3>1. run' = Command("verify", "parents") /\ clock' = clock + 1 /\ Idle
      BY <2>1 DEF BeginVerify, Begin
    <3>2. RunTyped(run') /\ run'.cmd = "verify" /\ run'.pc = "parents" /\ run'.at = 1
      BY <3>1, CommandTyped
    <3>3. run'.summary = NoSummary
      BY <3>1 DEF Command
    <3> QED BY <3>1, <3>2, <3>3 DEF StepsOK, Reading
  <2>2. CASE BeginVend
    <3>1. run' = Command("vend", "apply") /\ clock' = clock + 1 /\ Idle
      BY <2>2 DEF BeginVend, Begin
    <3>2. RunTyped(run') /\ run'.cmd = "vend" /\ run'.pc = "apply" /\ run'.at = 1
      BY <3>1, CommandTyped
    <3>3. run'.summary = NoSummary
      BY <3>1 DEF Command
    <3> QED BY <3>1, <3>2, <3>3 DEF StepsOK, Reading
  <2> QED BY <1>1, <2>1, <2>2
<1>2. ASSUME BeginAssess
      PROVE  /\ RunTyped(run') /\ StepsOK' /\ clock' = clock + 1 /\ Idle
             /\ run'.summary = NoSummary
             /\ run'.cmd = "assess" /\ run'.pc # "done"
  <2>1. PICK f \in Files : run' = [Command("assess", "summarize") EXCEPT !.file = f]
    BY <1>2 DEF BeginAssess
  <2>2. RunTyped(run') /\ run'.cmd = "assess" /\ run'.pc = "summarize" /\ run'.at = 1
        /\ run'.summary = NoSummary
    BY <2>1, BucketsAre DEF RunTyped, Command, RunFields, Reading
  <2>3. clock' = clock + 1 /\ Idle
    BY <1>2 DEF BeginAssess
  <2> QED BY <2>2, <2>3 DEF StepsOK, Reading
<1>3. ASSUME Drift
      PROVE  /\ RunTyped(run') /\ StepsOK' /\ clock' = clock /\ (Idle' <=> Idle)
             /\ run' = run \/ run' = [run EXCEPT !.ever = run'.ever, !.always = run'.always, !.homes = run'.homes]
  <2>1. clock' = clock
    BY <1>3 DEF Drift
  <2>2. run' = run \/ \E e, w, h : run' = [run EXCEPT !.ever = e, !.always = w, !.homes = h]
    BY <1>3 DEF Drift, Seen
  <2>3. CASE run' = run
    BY <2>1, <2>3, <1>0 DEF StepsOK, Idle
  <2>4. CASE \E e, w, h : run' = [run EXCEPT !.ever = e, !.always = w, !.homes = h]
    <3>1. PICK e, w, h : run' = [run EXCEPT !.ever = e, !.always = w, !.homes = h]
      BY <2>4
    <3>2. /\ RunTyped(run') /\ run'.cmd = run.cmd /\ run'.pc = run.pc /\ run'.at = run.at
          /\ run' = [run EXCEPT !.ever = run'.ever, !.always = run'.always, !.homes = run'.homes]
      BY <1>0, <3>1 DEF RunTyped, RunFields
    <3> QED BY <2>1, <3>2 DEF StepsOK, Idle
  <2> QED BY <2>2, <2>3, <2>4
<1>4. ASSUME Edit \/ AllDone \/ UNCHANGED vars PROVE run' = run /\ clock' = clock
  BY <1>4 DEF Edit, AllDone, vars
<1>5. ASSUME Edit \/ AllDone \/ UNCHANGED vars
      PROVE  RunTyped(run') /\ StepsOK' /\ (Idle' <=> Idle)
  BY <1>0, <1>4, <1>5 DEF StepsOK, Idle
<1> QED BY <1>0, <1>1, <1>2, <1>3, <1>4, <1>5 DEF Idle

--------------------------------------------------------------------------------
(* What a verify concludes, over every step.                               *)

\* A verify that could not go on claims nothing.
LEMMA EndedIsTrue ==
  ASSUME run'.exit = 1
  PROVE  VerdictIsTrue'
BY DEF VerdictIsTrue

\* A verify that begins has read nothing, and found nothing.
LEMMA BeginVerifyStep ==
  ASSUME BeginVerify
  PROVE  VerifyOK'
<1>1. run' = Command("verify", "parents") /\ UNCHANGED <<world, evidence>>
  BY DEF BeginVerify, Begin
<1>2. /\ run'.pc = "parents" /\ run'.found = {} /\ run'.failed = {} /\ run'.exit = 0
      /\ run'.ever = holds /\ run'.always = holds /\ run'.homes = {home} /\ run'.stood = standing
  BY <1>1 DEF Command
<1>3. home' = home /\ holds' = holds /\ standing' = standing
  BY <1>1 DEF world, evidence
<1>4. Complete' /\ Sound' /\ ProfileOK'
  BY <1>2 DEF Complete, Sound, ProfileOK, PolicyRead, DetectiveRead, ProceduralRead
<1>5. MirrorsOK'
  BY <1>2, <1>3 DEF MirrorsOK, Reading
<1> QED BY <1>2, <1>3, <1>4, <1>5 DEF VerifyOK

\* The account drifts under a verify: what was so at some moment, or wrong at some moment,
\* still is, and it was at every OU the account has been at since.
LEMMA DriftUnder ==
  ASSUME TypeOK, VerifyOK, Drift, ~Idle, run.cmd = "verify"
  PROVE  VerifyOK'
<1>0. RunTyped(run)
  BY TypedIs
<1>1. /\ profile' = profile /\ standing' = standing
      /\ run' = [run EXCEPT !.ever = @ \cup holds', !.always = @ \cap holds',
                            !.homes = @ \cup {home'}]
  BY DEF Drift, Seen, evidence
<1>2. /\ run'.pc = run.pc /\ run'.target = run.target /\ run'.seen = run.seen
      /\ run'.found = run.found /\ run'.unknown = run.unknown /\ run'.failed = run.failed
      /\ run'.at = run.at /\ run'.exit = run.exit /\ run'.stood = run.stood
      /\ run'.ever = run.ever \cup holds' /\ run'.always = run.always \cap holds'
      /\ run'.homes = run.homes \cup {home'}
  BY <1>0, <1>1 DEF RunTyped, RunFields
<1>3. /\ Asked' = Asked /\ PolicyRead' = PolicyRead /\ DetectiveRead' = DetectiveRead
      /\ ProceduralRead' = ProceduralRead
  BY <1>1, <1>2 DEF Asked, PassedOver, PolicyRead, DetectiveRead, ProceduralRead
<1>4. Complete'
  BY <1>2, <1>3 DEF VerifyOK, Complete
<1>5. Sound'
  BY <1>1, <1>2, <1>3 DEF VerifyOK, Sound
<1>6. MirrorsOK'
  BY <1>1, <1>2 DEF VerifyOK, MirrorsOK
<1>7. ProfileOK'
  BY <1>1, <1>2 DEF VerifyOK, ProfileOK
<1>8. holds' \subseteq run'.ever /\ run'.always \subseteq holds' /\ home' \in run'.homes
  BY <1>2
<1> QED BY <1>1, <1>2, <1>4, <1>5, <1>6, <1>7, <1>8 DEF VerifyOK

\* What a verify concluded is of the time it ran: it stays true whatever happens since.
LEMMA VerdictKept ==
  ASSUME VerdictIsTrue, run' = run, profile' = profile
  PROVE  VerdictIsTrue'
<1>1. Asked' = Asked /\ PassedOver' = PassedOver
  BY DEF Asked, PassedOver
<1>2. (Verified' <=> Verified) /\ Mirrors' = Mirrors
  BY DEF Verified, Idle
<1> QED BY <1>1, <1>2 DEF VerdictIsTrue

\* A reading step of a verify.
LEMMA VerifyReads ==
  ASSUME TypeOK, StepsOK, VerifyOK,
         \/ Parents \/ List \/ (\E p \in Policies : Describe(p)) \/ Others
         \/ CheckRecorder \/ CheckStatus \/ CheckDeliveryChannel \/ CheckConformancePack
         \/ CheckStubs
  PROVE  IF Idle' THEN VerdictIsTrue' ELSE VerifyOK'
<1>0. RunTyped(run)
  BY TypedIs
<1>1. ASSUME Idle', Parents \/ List \/ (\E p \in Policies : Describe(p)) \/ Others
      PROVE  run'.exit = 1
  <2>1. CASE Parents
    BY <1>0, <1>1, <2>1 DEF Parents, At, Ended, Idle, RunTyped, RunFields
  <2>2. CASE List
    BY <1>0, <1>1, <2>2 DEF List, At, Ended, Idle, RunTyped, RunFields
  <2>3. ASSUME NEW p \in Policies, Describe(p) PROVE run'.exit = 1
    BY <1>0, <1>1, <2>3 DEF Describe, At, Ended, Idle, RunTyped, RunFields
  <2>4. CASE Others
    BY <1>0, <1>1, <2>4 DEF Others, At, Ended, Idle, RunTyped, RunFields
  <2> QED BY <1>1, <2>1, <2>2, <2>3, <2>4
<1>2. ASSUME \/ CheckRecorder \/ CheckStatus \/ CheckDeliveryChannel \/ CheckConformancePack
             \/ CheckStubs
      PROVE  VerifyOK' /\ ~Idle'
  <2>1. VerifyOK'
    BY <1>2, RecorderStep, StatusStep, ChannelStep, PackStep, StubsStep
  <2>2. ~Idle'
    <3>1. ASSUME NEW facts, NEW next, Reads(facts, next), next # "done" PROVE ~Idle'
      BY <1>0, <3>1 DEF Reads, Idle, RunTyped, RunFields
    <3>2. CASE CheckRecorder
      BY <3>1, <3>2 DEF CheckRecorder
    <3>3. CASE CheckStatus
      BY <3>1, <3>3 DEF CheckStatus
    <3>4. CASE CheckDeliveryChannel
      BY <3>1, <3>4 DEF CheckDeliveryChannel
    <3>5. CASE CheckConformancePack
      BY <3>1, <3>5 DEF CheckConformancePack
    <3>6. CASE CheckStubs
      BY <1>0, <3>6 DEF CheckStubs, Idle, RunTyped, RunFields
    <3> QED BY <1>2, <3>2, <3>3, <3>4, <3>5, <3>6
  <2> QED BY <2>1, <2>2
<1> QED BY <1>1, <1>2, EndedIsTrue, ParentsStep, ListStep, DescribeStep, OthersStep

LEMMA RunStep ==
  ASSUME TypeOK, RunOK, NEW a \in Keys, EvidenceOK(a), [Next]_vars
  PROVE  RunOK'
<1> DEFINE G == IF Idle' THEN VerdictIsTrue' ELSE VerifyOK'
<1>0. RunTyped(run) /\ StepsOK
  BY TypedIs DEF RunOK
<1>1. StepsOK'
  BY <1>0, ReadingSteps, OtherSteps, IdleSteps DEF Next
<1>2. SUFFICES ASSUME run'.cmd = "verify" PROVE G
  BY <1>1 DEF RunOK
<1>3. CASE \/ Parents \/ List \/ (\E p \in Policies : Describe(p)) \/ Others
           \/ CheckRecorder \/ CheckStatus \/ CheckDeliveryChannel \/ CheckConformancePack
           \/ CheckStubs
  <2>1. run.cmd = "verify" /\ ~Idle
    BY <1>0, <1>3, ReadingSteps DEF Idle, Reading
  <2> QED BY <1>0, <1>3, <2>1, VerifyReads DEF RunOK
<1>4. CASE Fetch \/ Sign \/ Write \/ Upload \/ ApplyPass \/ Summarize \/ WriteAssess
  <2>1. run.cmd = "verify" /\ ~Idle
    BY <1>0, <1>2, <1>4, OtherSteps
  <2>2. VerifyOK
    BY <2>1 DEF RunOK
  <2>3. ASSUME Fetch, Idle' PROVE run'.exit = 1
    <3>1. run.pc = "fetch"
      BY <2>3 DEF Fetch, At
    <3> DEFINE pc == IF run.at = Len(Buckets) THEN "sign" ELSE run.pc
               at == IF run.at = Len(Buckets) THEN 1 ELSE run.at + 1
               moved == [run EXCEPT !.pc = pc, !.at = at]
    <3>2. \/ run' = Ended(1)
          \/ \E found, unknown : run' = [moved EXCEPT !.found = found, !.unknown = unknown]
          \/ \E unknown, failed : run' = [moved EXCEPT !.unknown = unknown, !.failed = failed]
      BY <2>3 DEF Fetch
    <3>3. pc # "done"
      BY <3>1
    <3> HIDE DEF pc, at
    <3>4. \/ run' = Ended(1)
          \/ run'.pc = pc
      BY <1>0, <3>2 DEF RunTyped, RunFields
    <3> QED BY <1>0, <2>3, <3>3, <3>4 DEF Idle, Ended, RunTyped, RunFields
  <2>4. ASSUME Sign \/ Write, Idle' PROVE run'.exit = 1
    <3>1. \/ run' = Ended(1)
          \/ run' = [run EXCEPT !.pc = "write"]
          \/ \E key : run' = [run EXCEPT !.key = key, !.pc = "upload"]
      BY <2>4 DEF Sign, Write
    <3> QED BY <1>0, <2>4, <3>1 DEF Idle, Ended, RunTyped, RunFields
  <2>5. ~ApplyPass /\ ~Summarize /\ ~WriteAssess
    BY <1>0, <2>1 DEF ApplyPass, Summarize, WriteAssess, At, StepsOK
  <2>6. CASE Fetch
    BY <1>0, <2>2, <2>3, <2>6, EndedIsTrue, ComparedStep
  <2>7. CASE Sign \/ Write
    BY <1>0, <2>2, <2>4, <2>7, EndedIsTrue, RecordedStep
  <2>8. CASE Upload
    BY <1>0, <2>1, <2>2, <2>8, VerdictStep, RecordedStep
  <2> QED BY <1>4, <2>5, <2>6, <2>7, <2>8
<1>5. CASE BeginVerify
  <2>1. run'.pc = "parents"
    BY <1>5, CommandTyped DEF BeginVerify, Begin
  <2> QED BY <1>5, <2>1, BeginVerifyStep DEF Idle
<1>6. ~BeginVend /\ ~BeginAssess
  BY <1>2, CommandTyped DEF BeginVend, BeginAssess, Begin, Command
<1>7. CASE Drift \/ Edit \/ AllDone \/ UNCHANGED vars
  <2>1. /\ profile' = profile
        /\ run' = run \/ (Drift /\ ~Idle)
    BY <1>7 DEF Drift, Seen, Edit, AllDone, vars, world
  <2>2. run'.pc = run.pc /\ run'.cmd = run.cmd
    <3>1. run' = run \/ run' = [run EXCEPT !.ever = run'.ever, !.always = run'.always, !.homes = run'.homes]
      BY <1>0, <1>7, IdleSteps DEF Idle, Drift, Seen, Edit, AllDone, vars
    <3> QED BY <1>0, <3>1 DEF RunTyped, RunFields
  <2>3. CASE Idle
    <3>1. VerdictIsTrue /\ run' = run
      BY <1>2, <2>1, <2>2, <2>3 DEF RunOK
    <3> QED BY <2>1, <2>2, <2>3, <3>1, VerdictKept DEF Idle
  <2>4. CASE ~Idle
    <3>1. VerifyOK /\ ~Idle'
      BY <1>2, <2>2, <2>4 DEF RunOK, Idle
    <3>2. CASE Drift
      BY <1>2, <2>2, <2>4, <3>1, <3>2, DriftUnder
    <3>3. CASE AllDone \/ UNCHANGED vars
      <4>1. UNCHANGED vars
        BY <3>3 DEF AllDone
      <4>2. VerifyOK'
        BY <3>1, <4>1 DEF vars, VerifyOK, Complete, Sound, MirrorsOK, ProfileOK, PolicyRead,
                          DetectiveRead, ProceduralRead, Asked, PassedOver, Detective
      <4> QED BY <3>1, <4>2
    <3>4. ~Edit
      BY <2>4 DEF Edit
    <3> QED BY <1>7, <3>2, <3>3, <3>4
  <2> QED BY <2>3, <2>4
<1> QED BY <1>3, <1>4, <1>5, <1>6, <1>7 DEF Next

--------------------------------------------------------------------------------
(* What an assessment claims.                                              *)

\* What SummaryOK says of a summary is what it must not overstate.
LEMMA ClaimsNoMore == SummaryOK => NeverOverstates
<1> SUFFICES ASSUME SummaryOK, run.summary # NoSummary PROVE NeverOverstates
  BY DEF NeverOverstates
<1>1. /\ run.file \in Files /\ Accepts(run.file, Obligation)
      /\ run.summary = Summary(run.file.list, Obligation)
  BY DEF SummaryOK
<1>2. DOMAIN run.file.list \subseteq Nat /\ (run.file.given \/ run.file.list = <<>>)
  <2>1. Listed(run.file.list) /\ (run.file.given \/ run.file.list = <<>>)
    BY <1>1, FilesAssumption
  <2>2. DOMAIN run.file.list = 1..Len(run.file.list)
    BY <2>1 DEF Listed
  <2> QED BY <2>1, <2>2
<1> QED BY <1>1, <1>2, SummaryIsEarned DEF NeverOverstates

\* A summary is made of the file the command was given, and kept until the next command.
LEMMA SummaryStep ==
  ASSUME TypeOK, RunOK, SummaryOK, [Next]_vars
  PROVE  SummaryOK'
<1>0. RunTyped(run) /\ StepsOK
  BY TypedIs DEF RunOK
<1>1. ASSUME run'.summary = run.summary, run'.file = run.file,
             run'.pc = "summarize" => run.pc = "summarize"
      PROVE  SummaryOK'
  BY <1>1 DEF SummaryOK
<1>2. CASE \/ Parents \/ List \/ (\E p \in Policies : Describe(p)) \/ Others
           \/ CheckRecorder \/ CheckStatus \/ CheckDeliveryChannel \/ CheckConformancePack
           \/ CheckStubs
  <2>1. run'.pc # "summarize"
    BY <1>0, <1>2, ReadingSteps DEF Reading
  <2> QED BY <1>0, <1>1, <1>2, <2>1, ReadingSteps
<1>3. CASE Fetch \/ Sign \/ Write \/ Upload \/ ApplyPass \/ WriteAssess
  <2>1. ~Summarize
    <3>1. run.pc # "summarize"
      BY <1>0, <1>3 DEF Fetch, Sign, Write, Upload, ApplyPass, WriteAssess, At
    <3> QED BY <3>1 DEF Summarize, At
  <2>2. run'.pc # "summarize"
    <3>1. run'.cmd = run.cmd /\ StepsOK'
      BY <1>0, <1>3, OtherSteps
    <3>2. run'.pc = "summarize" => run.cmd = "assess"
      BY <3>1 DEF StepsOK
    <3>3. CASE Fetch \/ Upload \/ ApplyPass
      BY <1>0, <3>2, <3>3 DEF Fetch, Upload, ApplyPass, At, StepsOK, Reading
    <3>4. CASE Sign
      BY <1>0, <3>4 DEF Sign, Ended, RunTyped, RunFields
    <3>5. CASE Write
      BY <1>0, <3>2, <3>5 DEF Write
    <3>6. CASE WriteAssess
      BY <1>0, <3>6 DEF WriteAssess, Ended, RunTyped, RunFields
    <3> QED BY <1>3, <3>3, <3>4, <3>5, <3>6
  <2> QED BY <1>0, <1>1, <1>3, <2>1, <2>2, OtherSteps
<1>4. CASE Summarize
  <2>1. CASE run' = Ended(1)
    <3>1. run'.summary = run.summary /\ run'.file = run.file /\ run'.pc = "done"
      BY <1>0, <2>1 DEF Ended, RunTyped, RunFields
    <3> QED BY <1>1, <3>1
  <2>2. CASE /\ Accepts(run.file, Obligation)
             /\ run' = [run EXCEPT !.summary = Summary(run.file.list, Obligation), !.pc = "sign"]
    <3>1. /\ run'.file = run.file /\ run'.summary = Summary(run.file.list, Obligation)
          /\ run'.pc = "sign"
      BY <1>0, <2>2 DEF RunTyped, RunFields
    <3>2. run.file \in Files
      BY <1>4 DEF SummaryOK, Summarize, At
    <3> QED BY <2>2, <3>1, <3>2 DEF SummaryOK
  <2> QED BY <1>4, <2>1, <2>2 DEF Summarize
<1>5. CASE BeginVerify \/ BeginVend
  <2>1. PICK cmd \in {"verify", "vend"}, pc \in {"parents", "apply"} : run' = Command(cmd, pc)
    BY <1>5 DEF BeginVerify, BeginVend, Begin
  <2>2. run'.summary = NoSummary /\ run'.pc # "summarize"
    BY <2>1 DEF Command
  <2> QED BY <2>2 DEF SummaryOK
<1>6. CASE BeginAssess
  <2>1. PICK f \in Files : run' = [Command("assess", "summarize") EXCEPT !.file = f]
    BY <1>6 DEF BeginAssess
  <2>2. run'.summary = NoSummary /\ run'.file = f
    BY <2>1 DEF Command
  <2> QED BY <2>2 DEF SummaryOK
<1>7. CASE Drift \/ Edit \/ AllDone \/ UNCHANGED vars
  <2>1. run' = run \/ \E e, w, h : run' = [run EXCEPT !.ever = e, !.always = w, !.homes = h]
    BY <1>7 DEF Drift, Seen, Edit, AllDone, vars
  <2>2. run'.summary = run.summary /\ run'.file = run.file /\ run'.pc = run.pc
    BY <1>0, <2>1 DEF RunTyped, RunFields
  <2> QED BY <1>1, <2>2
<1> QED BY <1>2, <1>3, <1>4, <1>5, <1>6, <1>7 DEF Next

--------------------------------------------------------------------------------
(* The theorems.                                                           *)

LEMMA TypeStep ==
  ASSUME TypeOK, RunOK, NEW a \in Keys, EvidenceOK(a), [Next]_vars
  PROVE  TypeOK'
<1>0. StepsOK /\ RunTyped(run) /\ clock \in Nat /\ (~Idle => clock # 0)
  BY TypedIs DEF RunOK
<1>1. TypedEvidence'
  BY <1>0, EvidenceStep
<1>2. RunTyped(run') /\ clock' \in Nat /\ (~Idle' => clock' # 0)
  <2>1. CASE \/ Parents \/ List \/ (\E p \in Policies : Describe(p)) \/ Others
             \/ CheckRecorder \/ CheckStatus \/ CheckDeliveryChannel \/ CheckConformancePack
             \/ CheckStubs
    <3>1. RunTyped(run') /\ clock' = clock /\ ~Idle
      BY <1>0, <2>1, ReadingSteps DEF Idle, Reading
    <3> QED BY <1>0, <3>1
  <2>2. CASE Fetch \/ Sign \/ Write \/ Upload \/ ApplyPass \/ Summarize \/ WriteAssess
    BY <1>0, <2>2, OtherSteps
  <2>3. CASE \/ BeginVerify \/ BeginVend \/ BeginAssess \/ Drift \/ Edit \/ AllDone
             \/ UNCHANGED vars
    BY <1>0, <2>3, IdleSteps
  <2> QED BY <2>1, <2>2, <2>3 DEF Next
<1> QED BY <1>1, <1>2 DEF TypeOK, TypedEvidence, RunTyped

\* Before the first command there is a store, mirrored, and nothing concluded.
LEMMA InitInv == Init => IInv
<1> SUFFICES ASSUME Init PROVE IInv
  OBVIOUS
<1>1. run = Command("none", "done") /\ clock = 0
  BY DEF Init
<1>2. TypedEvidence /\ \E a \in Keys : EvidenceOK(a)
  BY EvidenceInit
<1>3. RunTyped(run) /\ run.cmd = "none" /\ run.pc = "done" /\ run.at = 1
  BY <1>1, CommandTyped
<1>4. run.summary = NoSummary
  BY <1>1 DEF Command
<1>5. TypeOK
  BY <1>1, <1>2, <1>3 DEF TypeOK, TypedEvidence, RunTyped, Idle
<1>6. RunOK
  BY <1>3 DEF RunOK, StepsOK, Reading
<1> QED BY <1>2, <1>3, <1>4, <1>5, <1>6 DEF IInv, SummaryOK

LEMMA NextInv == IInv /\ [Next]_vars => IInv'
<1> SUFFICES ASSUME IInv, [Next]_vars PROVE IInv'
  OBVIOUS
<1>1. TypeOK /\ RunOK /\ StepsOK /\ SummaryOK
  BY DEF IInv, RunOK
<1>2. PICK a \in Keys : EvidenceOK(a)
  BY DEF IInv
<1>3. TypeOK' /\ RunOK' /\ SummaryOK'
  BY <1>1, <1>2, TypeStep, RunStep, SummaryStep
<1>4. \E n \in Keys : EvidenceOK(n)'
  BY <1>1, <1>2, EvidenceStep
<1>5. Keys' = Keys
  BY DEF Keys
<1> QED BY <1>3, <1>4, <1>5 DEF IInv

\* The inductive invariant of the commands: what each step of a verify has read, and so was
\* so at some moment of it, what it found and could not read; where the account's evidence
\* ends, and what each bucket holds of it.
THEOREM Invariant == Spec => []IInv
<1>1. Init => IInv
  BY InitInv
<1>2. IInv /\ [Next]_vars => IInv'
  BY NextInv
<1> QED BY <1>1, <1>2, PTL DEF Spec

\* What was wrong throughout a verify is reported, and what it reports was wrong at some
\* moment of it (VerdictIsTrue; verify.go:244-250), for any policies, stubs and profiles,
\* and any number of things undone, put back and denied during it.
THEOREM VerdictHolds == Spec => []VerdictIsTrue
<1>1. IInv => VerdictIsTrue
  BY DEF IInv, RunOK, VerdictIsTrue, Verified
<1> QED BY <1>1, Invariant, PTL

\* An assessment claims no more than was determined (NeverOverstates;
\* assess/summary.go:37), for any catalog, any profile and any file it accepts.
THEOREM SummaryHolds == Spec => []NeverOverstates
<1>1. IInv => NeverOverstates
  BY ClaimsNoMore DEF IInv
<1> QED BY <1>1, Invariant, PTL

\* What a step makes of the mirrored copies.
LEMMA MirrorStep ==
  ASSUME IInv, [Next]_vars
  PROVE  \A b \in Mirrors, k \in Keys :
            \/ Missing(mirror[b][k]) \/ Extends(mirror'[b][k], mirror[b][k])
            \/ /\ standing[b] \in {"witness", "unclear"}
               /\ run.cmd = "vend" \/ "mirror" \in run.found \cup run.unknown
<1>1. TypeOK /\ StepsOK /\ RunTyped(run)
  BY TypedIs DEF IInv, RunOK
<1>2. PICK a \in Keys : EvidenceOK(a)
  BY DEF IInv
<1>3. ASSUME NEW b \in Mirrors, NEW k \in Keys, mirror'[b][k] = mirror[b][k]
      PROVE  Extends(mirror'[b][k], mirror[b][k])
  <2>1. Document(mirror[b][k])
    BY <1>1, TypedIs
  <2>2. Listed(mirror[b][k].records) /\ Len(mirror[b][k].records) \in Nat
    BY <2>1, RecordsOf DEF Document
  <2> QED BY <1>3, <2>2, PrefixIs DEF Extends
<1>4. mirror' = mirror \/ Upload
  BY DEF Next, vars, evidence, Begin, BeginVerify, BeginVend, BeginAssess, Parents, List,
         Describe, Others, CheckRecorder, CheckStatus, CheckDeliveryChannel,
         CheckConformancePack, CheckStubs, Fetch, Sign, Write, ApplyPass, Summarize,
         WriteAssess, Drift, Edit, AllDone
<1>5. CASE mirror' = mirror
  BY <1>3, <1>5
<1>6. CASE Upload
  <2> DEFINE at == run.at
             at_b == Buckets[at]
             key == run.key
  <2>1. /\ run.pc = "upload" /\ at \in DOMAIN Buckets /\ at_b \in Mirrors
        /\ run.cmd \in {"verify", "vend"}
        /\ \/ mirror' = mirror
           \/ mirror' = [mirror EXCEPT ![at_b][key] = local[key]]
    BY <1>1, <1>6, BucketsAre DEF Upload, At, Put, RunTyped, StepsOK
  <2>2. Pending(at) /\ Stands(at, a) = key /\ Fetched(at)
    BY <1>1, <2>1, BucketsAre DEF Pending, Stands, Fetched, RunTyped
  <2>3. Means(standing[at_b], local[key], mirror[at_b][key]) /\ standing[at_b] # "current"
    BY <1>2, <2>1, <2>2 DEF EvidenceOK, StandingOK
  <2>4. standing[at_b] \in {"current", "behind", "witness", "unclear"}
    BY <1>1, <2>1, TypedIs
  <2>5. \/ run.cmd = "vend" \/ "mirror" \in run.found \cup run.unknown
        \/ Extends(local[key], mirror[at_b][key])
    BY <1>2, <2>1, <2>2 DEF EvidenceOK, FetchedOK
  <2>6. \/ Missing(mirror[at_b][key]) \/ Extends(local[key], mirror[at_b][key])
        \/ /\ standing[at_b] \in {"witness", "unclear"}
           /\ run.cmd = "vend" \/ "mirror" \in run.found \cup run.unknown
    BY <2>3, <2>4, <2>5 DEF Means, Behind
  <2>7. CASE mirror' = [mirror EXCEPT ![at_b][key] = local[key]]
    <3>1. mirror = [b \in Mirrors |-> [k \in Keys |-> mirror[b][k]]]
      BY <1>1, TypedIs
    <3> SUFFICES ASSUME NEW b \in Mirrors, NEW k \in Keys
                 PROVE  \/ Missing(mirror[b][k]) \/ Extends(mirror'[b][k], mirror[b][k])
                        \/ /\ standing[b] \in {"witness", "unclear"}
                           /\ run.cmd = "vend" \/ "mirror" \in run.found \cup run.unknown
      OBVIOUS
    <3>2. CASE b = at_b /\ k = key
      <4>1. mirror'[b][k] = local[key]
        BY <2>1, <2>7, <3>1, <3>2
      <4> QED BY <2>6, <3>2, <4>1
    <3>3. CASE ~(b = at_b /\ k = key)
      <4>1. mirror'[b][k] = mirror[b][k]
        BY <2>1, <2>7, <3>1, <3>3
      <4> QED BY <1>3, <4>1
    <3> QED BY <3>2, <3>3
  <2> QED BY <1>5, <2>1, <2>7
<1> QED BY <1>4, <1>5, <1>6

\* A mirrored copy is only added to, unless somebody edited the local file, and then a
\* verify says so before it replaces the copy (MirrorsOnlyGrow; mirror.go:138,
\* verify.go:228-242): for any number of buckets and manifests, and any failed uploads.
THEOREM MirrorsHold == Spec => MirrorsOnlyGrow
<1> DEFINE A == \A b \in Mirrors, k \in Keys :
                   \/ Missing(mirror[b][k]) \/ Extends(mirror'[b][k], mirror[b][k])
                   \/ /\ standing[b] \in {"witness", "unclear"}
                      /\ run.cmd = "vend" \/ "mirror" \in run.found \cup run.unknown
<1>1. IInv /\ [Next]_vars => A
  BY MirrorStep
<1>2. MirrorsOnlyGrow <=> [][A]_vars
  BY DEF MirrorsOnlyGrow
<1> HIDE DEF A
<1> QED BY <1>1, <1>2, Invariant, PTL DEF Spec

================================================================================
