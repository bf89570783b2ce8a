----------------------------- MODULE AssessProofs -----------------------------
(***************************************************************************)
(* Lemmas about Assess: what the summary of any accepted determinations     *)
(* claims, for any catalog and any obligation profile.                     *)
(***************************************************************************)
EXTENDS Integers, Assess, FiniteSetTheorems, TLAPS

\* The controls of a catalog are as many as its list is long.
LEMMA ControlsAre ==
  /\ IsFiniteSet(Range(Controls))
  /\ Len(Controls) \in Nat /\ Cardinality(Range(Controls)) = Len(Controls)
<1> DEFINE n == Len(Controls)
           R == Range(Controls)
<1>1. n \in Nat /\ DOMAIN Controls = 1..n /\ Controls \in [1..n -> R]
  BY ControlsAssumption
<1>2. R = {Controls[i] : i \in 1..n}
  BY <1>1 DEF Range
<1> HIDE DEF n, R
<1>3. \A i, j \in 1..n : Controls[i] = Controls[j] => i = j
  BY <1>1, ControlsAssumption
<1>4. Controls \in Bijection(1..n, R)
  BY <1>1, <1>2, <1>3 DEF Bijection, Injection, Surjection, IsInjective
<1>5. ExistsBijection(1..n, R)
  BY <1>4 DEF ExistsBijection
<1>6. IsFiniteSet(1..n) /\ Cardinality(1..n) = n
  BY <1>1, FS_Interval
<1>7. IsFiniteSet(R) /\ Cardinality(R) = n
  BY <1>5, <1>6, FS_Bijection
<1> QED BY <1>1, <1>7 DEF n, R

\* The rows of a summary: what is met there is what one determination says of it.
LEMMA RowsAre ==
  ASSUME NEW file, NEW p, Accepts(file, p),
         DOMAIN file.list \subseteq Nat, file.given \/ file.list = <<>>,
         NEW c \in Range(Controls), Resolved(file.list, p)[c] # p.understatement
  PROVE  LET value == Resolved(file.list, p)[c] IN
         /\ \E v \in DOMAIN p.values : p.values[v] = value
         /\ Claims(file.list, c) # {}
         /\ \A i \in Claims(file.list, c) : file.list[i].value = value
<1> DEFINE list == file.list
           first == ForObjective(list, c)
           C == Claims(list, c)
<1>1. C # {} /\ Resolved(list, p)[c] = list[first].value
  BY DEF Resolved
<1>2. C \subseteq DOMAIN list /\ \A i \in C : c \in list[i].objectives
  BY DEF Claims
<1>3. file.given
  BY <1>1, <1>2
<1>4. /\ ValidDeterminations(file)
      /\ \A i \in DOMAIN list : list[i].value \in Range(p.values)
  BY <1>3 DEF Accepts, ValidAgainst
<1>5. PICK k \in C : TRUE
  BY <1>1
<1>6. \A i \in C : i = k
  <2>1. \A i \in C : list[i].objectives \cap list[k].objectives # {}
    BY <1>2
  <2>2. \A i \in C : list[i].id = list[k].id
    BY <1>2, <1>4, <2>1 DEF ValidDeterminations
  <2> QED BY <1>2, <1>4, <2>2 DEF ValidDeterminations
<1>7. k \in Nat
  BY <1>2
<1>8. first = k
  BY <1>6, <1>7 DEF ForObjective
<1>9. list[k].value \in Range(p.values)
  BY <1>2, <1>4
<1> HIDE DEF list, first, C
<1>10. \E v \in DOMAIN p.values : p.values[v] = list[k].value
  BY <1>9 DEF Range
<1> QED BY <1>1, <1>6, <1>8, <1>10 DEF list, C

\* A summary counts what its rows say.
LEMMA CountsAre ==
  ASSUME NEW list, NEW p
  PROVE  LET s == Summary(list, p)
             met == {c \in Range(Controls) : s.rows[c] # p.understatement}
         IN  /\ DOMAIN s.rows = Range(Controls) /\ s.rows = Resolved(list, p)
             /\ s.affirmation <=> met = Range(Controls)
             /\ s.met = Cardinality(met)
<1> DEFINE R == Range(Controls)
           rows == Resolved(list, p)
           met == {c \in R : rows[c] # p.understatement}
           rest == {c \in R : rows[c] = p.understatement}
           s == Summary(list, p)
<1>1. DOMAIN rows = R
  BY DEF Resolved
<1> HIDE DEF R, rows
<1>2. /\ s.rows = rows /\ s.met = Len(Controls) - Cardinality(rest)
      /\ s.affirmation <=> Cardinality(rest) = 0
  BY DEF Summary, rows, R
<1>3. IsFiniteSet(R) /\ Cardinality(R) = Len(Controls) /\ Len(Controls) \in Nat
  BY ControlsAre DEF R
<1>4. rest = R \ met /\ R \cap met = met
  OBVIOUS
<1> HIDE DEF met, rest, s
<1>5. /\ IsFiniteSet(rest) /\ Cardinality(rest) = Cardinality(R) - Cardinality(met)
      /\ IsFiniteSet(met)
  <2>1. Cardinality(R \ met) = Cardinality(R) - Cardinality(R \cap met)
    BY <1>3, FS_Difference
  <2>2. met \in SUBSET R /\ rest \in SUBSET R
    BY DEF met, rest
  <2>3. IsFiniteSet(met) /\ IsFiniteSet(rest)
    BY <1>3, <2>2, FS_Subset
  <2> QED BY <1>4, <2>1, <2>3
<1>6. Cardinality(met) \in Nat /\ Cardinality(rest) \in Nat
  BY <1>5, FS_CardinalityType
<1>7. Cardinality(rest) = 0 <=> rest = {}
  BY <1>5, FS_EmptySet
<1>8. rest = {} <=> met = R
  BY DEF met, rest
<1>9. s.met = Cardinality(met) /\ (s.affirmation <=> met = R)
  BY <1>2, <1>3, <1>5, <1>6, <1>7, <1>8
<1>10. met = {c \in R : s.rows[c] # p.understatement}
  BY <1>2 DEF met
<1> QED BY <1>1, <1>2, <1>9, <1>10 DEF s, R, rows

\* A summary of accepted determinations, or of none, is earned by them.
LEMMA SummaryIsEarned ==
  ASSUME NEW file, NEW p, Accepts(file, p),
         DOMAIN file.list \subseteq Nat, file.given \/ file.list = <<>>
  PROVE  Earned(Summary(file.list, p), file.list, p)
<1> DEFINE s == Summary(file.list, p)
           list == file.list
           R == Range(Controls)
           met == {c \in R : s.rows[c] # p.understatement}
<1>2. /\ DOMAIN s.rows = R /\ s.rows = Resolved(list, p)
      /\ s.affirmation <=> met = R
      /\ s.met = Cardinality(met)
  BY CountsAre
<1>3. \A c \in met : /\ \E v \in DOMAIN p.values : p.values[v] = s.rows[c]
                     /\ Claims(list, c) # {}
                     /\ \A i \in Claims(list, c) : list[i].value = s.rows[c]
  BY <1>2, RowsAre
<1>4. \A i \in DOMAIN list : list[i].objectives \subseteq R
  <2> SUFFICES ASSUME NEW i \in DOMAIN list PROVE list[i].objectives \subseteq R
    OBVIOUS
  <2>1. file.given
    OBVIOUS
  <2>2. ~Misspelt(list)
    BY <2>1 DEF Accepts
  <2> QED BY <2>2 DEF Misspelt
<1> HIDE DEF s, R, met, list
<1>5. met = {c \in DOMAIN s.rows : s.rows[c] # p.understatement}
  BY <1>2 DEF met
<1> QED BY <1>2, <1>3, <1>4, <1>5 DEF Earned, list, s

================================================================================
