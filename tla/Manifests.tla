------------------------------- MODULE Manifests -------------------------------
(***************************************************************************)
(* The document of an evidence manifest (internal/evidence): a header and a *)
(* chain of records, each linked to the one before it by its hash; what    *)
(* makes it readable, what may be appended, and how a mirrored copy is     *)
(* compared with it.  One account; a hash is the sequence of the contents  *)
(* it covers, so that equal hashes mean equal contents.  Signatures are    *)
(* left out: no command gives a verifier to the functions below.           *)
(***************************************************************************)
EXTENDS Naturals, Sequences
LOCAL INSTANCE SequencesExt

ZeroHash == <<>>

\* The fields a record's hash covers, its link aside.
Content(r) == [op |-> r.op, at |-> r.at, outcome |-> r.outcome, error |-> r.error,
               next |-> r.next, seq |-> r.seq]

\* ComputeRecordHash: over the content and the link.
Hash(r) == Append(r.prev, Content(r))

Terminal(r) == r.op = "rotate"

\* NewManifest: a header without its anchor, and no record.
NewManifest(now) == [created |-> now, genesis |-> ZeroHash, records |-> <<>>]

Missing(m) == m.records = <<>>

Closed(m) == ~Missing(m) /\ Terminal(Last(m.records))

\* A finite sequence, of whatever it holds.
Listed(s) == s \in Seq({s[i] : i \in DOMAIN s})

\* The form of any manifest, readable or not: a header, and records with a date.
Document(m) ==
    /\ m = [created |-> m.created, genesis |-> m.genesis, records |-> m.records]
    /\ m.created \in Nat
    /\ Listed(m.records)
    /\ \A i \in DOMAIN m.records : "at" \in DOMAIN m.records[i] /\ m.records[i].at \in Nat

\* Nothing of it is later than a given time, but for the date of its first record, which
\* somebody may have edited.
WrittenBy(m, now) ==
    /\ m.created <= now
    /\ \A i \in 2..Len(m.records) : m.records[i].at <= now

--------------------------------------------------------------------------------
\* validateOutcomePairing: an error exactly on what did not succeed.
ValidOutcome(r) == r.error <=> r.outcome \in {"failure", "parked"}

\* validateRotationPairing: a successor exactly on a rotation, which never fails.
ValidRotation(r) ==
    /\ r.next # 0 <=> Terminal(r)
    /\ Terminal(r) => r.outcome = "success"

\* Record.validate.
ValidRecord(r) == ValidOutcome(r) /\ ValidRotation(r)

\* validateChain: numbered from the first, each linked to the one before, none after a
\* terminal one.
Linked(records) ==
    \A i \in DOMAIN records :
       /\ records[i].seq = i - 1
       /\ records[i].prev = IF i = 1 THEN ZeroHash ELSE records[i - 1].sha
       /\ Terminal(records[i]) => i = Len(records)

\* validateHeaderAgainstRecords.
HeaderFits(m) == m.genesis = m.records[1].sha /\ m.records[1].at >= m.created

\* Manifest.Validate.
Valid(m) ==
    /\ ~Missing(m)
    /\ \A i \in DOMAIN m.records : ValidRecord(m.records[i])
    /\ Linked(m.records) /\ HeaderFits(m)

\* VerifyChain, with no verifier: valid, and every hash is the hash of its record.
Readable(m) == Valid(m) /\ \A i \in DOMAIN m.records : m.records[i].sha = Hash(m.records[i])

--------------------------------------------------------------------------------
Record(op, now, outcome, next) ==
    [op |-> op, at |-> now, outcome |-> outcome, error |-> outcome \in {"failure", "parked"},
     next |-> next]

\* What Append makes of a record: its number, link and hash, and the header's anchor.
Appended(m, r) ==
    LET n    == Len(m.records)
        prev == IF n = 0 THEN ZeroHash ELSE m.records[n].sha
        full(sha) == [op |-> r.op, at |-> r.at, outcome |-> r.outcome, error |-> r.error,
                      next |-> r.next, seq |-> n, prev |-> prev, sha |-> sha]
        sealed == Hash(full(ZeroHash))
    IN  [m EXCEPT !.genesis = IF n = 0 THEN sealed ELSE @,
                  !.records = Append(@, full(sealed))]

\* Append refuses a closed chain and what would not be valid.
Appendable(m, r) == ~Closed(m) /\ Valid(Appended(m, r))

\* Rotate: the terminal record, naming the successor.
Rotated(m, now, next) == Appended(m, Record("rotate", now, "success", next))

--------------------------------------------------------------------------------
\* compareManifests: the headers, then the records both have, then their number.
Common(m, n) == 1..(IF Len(m.records) < Len(n.records) THEN Len(m.records) ELSE Len(n.records))

Compare(local, mirrored) ==
    IF \/ local.created # mirrored.created \/ local.genesis # mirrored.genesis
       \/ \E i \in Common(local, mirrored) : local.records[i] # mirrored.records[i]
      THEN "disagreement"
    ELSE IF Len(local.records) # Len(mirrored.records) THEN "truncation"
    ELSE "matches"

\* n is m, or m with records appended.
Extends(n, m) == n.created = m.created /\ IsPrefix(m.records, n.records)

--------------------------------------------------------------------------------
\* The same contents, with numbers, links, hashes and header to match.
Relinked(created, contents) ==
    LET chain[n \in 0..Len(contents)] ==
            IF n = 0 THEN NewManifest(created) ELSE Appended(chain[n - 1], contents[n])
    IN  chain[Len(contents)]

\* What may become of a file outside automat: gone, cut short, the records of a failure
\* or of a beginning edited out with the rest made to match, or edited and left so.
Copies(m) ==
    {NewManifest(0)}
    \cup (IF Len(m.records) < 2 THEN {}
          ELSE {[m EXCEPT !.records = Front(@)], [m EXCEPT !.records = Tail(@)],
                Relinked(m.created, Tail(m.records))})
    \cup {Relinked(m.created, [m.records EXCEPT ![1].at = @ + 1]),
          [m EXCEPT !.records[1].at = @ + 1]}

================================================================================
