-------------------------------- MODULE Assess --------------------------------
(***************************************************************************)
(* What automat assess computes (internal/assess): an obligation profile, a *)
(* file of an operator's determinations, and the Level 1 summary of the two *)
(* over the controls of a catalog.  A document keeps the parts its rules    *)
(* tell apart; the form of a date, a hash, a title or a statement is left   *)
(* out, for every document that does not have it is refused alike.         *)
(***************************************************************************)
EXTENDS Naturals, FiniteSets, Sequences, Functions

CONSTANTS Controls      \* the controls of the catalog, in its order

\* A catalog is a list, and names each of its controls once.
ASSUME ControlsAssumption ==
    /\ Controls \in Seq(Range(Controls))
    /\ \A i, j \in DOMAIN Controls : Controls[i] = Controls[j] => i = j

--------------------------------------------------------------------------------
\* Profile.validateCatalogReference: a revision exactly when it is pinned.
ValidCatalog(c) ==
    /\ c.policy \in {"pinned", "operator-determined"}
    /\ c.revised <=> c.policy = "pinned"

\* Profile.validateDeterminations: two values or more, each once, the one automat may
\* write by itself among them.
ValidVocabulary(p) ==
    /\ Len(p.values) >= 2
    /\ IsInjective(p.values)
    /\ p.understatement \in Range(p.values)

\* Profile.validateSignature: each form names its own key, and not the other's.
ValidSignature(s) ==
    s.names = (IF s.form = "oidc-identity-bundle" THEN {"issuer"} ELSE {"key"})

\* Profile.validateScoring: weighed exactly when it is scored.
ValidScoring(p) == p.weighed <=> p.scoring # "none"

\* Profile.validateApplicability: it applies where an operator says so, and nowhere else.
ValidApplicability(p) == p.declared

\* Profile.Validate: cited, about a catalog, and each part as it should be.
ValidProfile(p) ==
    /\ p.citations # {}
    /\ p.catalogs # {} /\ \A c \in p.catalogs : ValidCatalog(c)
    /\ ValidVocabulary(p) /\ ValidScoring(p) /\ ValidApplicability(p)
    /\ \A s \in p.signatures : ValidSignature(s)

--------------------------------------------------------------------------------
\* The determinations that name a control.
Claims(list, control) == {i \in DOMAIN list : control \in list[i].objectives}

\* Determinations.Validate: some, each named and about something, and no objective
\* claimed by two.
ValidDeterminations(file) ==
    /\ file.list # <<>>
    /\ \A i, j \in DOMAIN file.list : file.list[i].id = file.list[j].id => i = j
    /\ \A i \in DOMAIN file.list : file.list[i].objectives # {}
    /\ \A i, j \in DOMAIN file.list :
          file.list[i].objectives \cap file.list[j].objectives # {}
             => file.list[i].id = file.list[j].id

\* Mutant of ValidAgainst: any word will do.
ValidAgainstAnyWord(file, p) ==
    \A c \in p.catalogs : c.policy = "operator-determined" => file.revision = c.name

\* Determinations.ValidateAgainst: in the profile's words, and with the revision of
\* every catalog whose revision is the operator's to determine.
ValidAgainst(file, p) ==
    /\ \A i \in DOMAIN file.list : file.list[i].value \in Range(p.values)
    /\ \A c \in p.catalogs : c.policy = "operator-determined" => file.revision = c.name

\* ForObjective: the first determination that names it.
ForObjective(list, control) ==
    CHOOSE i \in Claims(list, control) : \A j \in Claims(list, control) : i <= j

\* SummarizeL1, with the values of its rows: what nothing determines counts against.
Resolved(list, p) ==
    [c \in Range(Controls) |->
        IF Claims(list, c) = {} THEN p.understatement ELSE list[ForObjective(list, c)].value]

\* A determination about no control of the catalog is refused, never dropped.
Misspelt(list) == \E i \in DOMAIN list : ~list[i].objectives \subseteq Range(Controls)

Summary(list, p) ==
    LET rows   == Resolved(list, p)
        notMet == Cardinality({c \in Range(Controls) : rows[c] = p.understatement})
    IN  [rows |-> rows, met |-> Len(Controls) - notMet, notMet |-> notMet,
         affirmation |-> notMet = 0]

NoSummary == [rows |-> <<>>, met |-> 0, notMet |-> 0, affirmation |-> FALSE]

\* The command without --determinations.
NoFile == [given |-> FALSE, list |-> <<>>, revision |-> "none"]

\* What the command takes for determinations: no file, or one that loads and fits.
Accepts(file, p) ==
    file.given => ValidDeterminations(file) /\ ValidAgainst(file, p) /\ ~Misspelt(file.list)

--------------------------------------------------------------------------------
\* A summary is earned by the determinations it is made of (assess/summary.go:37): a
\* control is met only where every determination naming it says the same, in a word of the
\* profile's that is not the understatement; no determination names anything else; and it
\* counts what is met, and affirms only when every control is.
Earned(summary, list, p) ==
    LET met == {c \in DOMAIN summary.rows : summary.rows[c] # p.understatement}
        Value(v) == \E i \in DOMAIN p.values : p.values[i] = v
    IN  /\ \A c \in met : /\ Value(summary.rows[c]) /\ Claims(list, c) # {}
                          /\ \A i \in Claims(list, c) : list[i].value = summary.rows[c]
        /\ \A i \in DOMAIN list : list[i].objectives \subseteq DOMAIN summary.rows
        /\ summary.affirmation <=> met = DOMAIN summary.rows
        /\ summary.met = Cardinality(met)

================================================================================
