-------------------------- MODULE MappingResolver --------------------------
(***************************************************************************)
(* scripts/admin-unit-mapping/mapping-resolver.ts: the clauses of a        *)
(* resolution merge legacy units, named in a text, into one new unit.      *)
(* Units share names, so every name is looked up in several indexes and    *)
(* the candidates are narrowed by what the text says of it and then by     *)
(* what was resolved before.  A name that stays ambiguous is put off until *)
(* the others of its clause are known; those that never become clear are   *)
(* resolved together.                                                      *)
(*                                                                         *)
(* A name has the spelling of its tone marks and a normalized form without *)
(* them.  Provinces have different names, districts need not.              *)
(***************************************************************************)
EXTENDS Integers, Sequences, FiniteSets, SequencesExt

CONSTANTS
    Legacy,         \* the wards of the legacy data set
    Reform,         \* those of the data set after the reform
    Clause,         \* what a clause may say
    None,           \* something the text or the command line leaves out
    LegacyHint,     \* provinceHints, from the name of the file
    ReformHint,
    MaxClauses      \* bound on the clauses of a resolution

VARIABLES
    phase,      \* what resolveClausesToMappings does next
    clause,     \* the clause it is at
    pending,    \* pendingSources
    index,
    progress,   \* resolvedInPass
    records,    \* legacyRecords, each with its source
    global,     \* globalLegacyRecords
    recent,     \* recentProvinceCodes
    rows        \* what the clauses so far map, for each of them

resolverVars == <<phase, clause, pending, index, progress, records, global, recent, rows>>

NoClause == [from |-> <<>>, to |-> None]

Init ==
    /\ phase = "clause"
    /\ clause = NoClause
    /\ pending = <<>> /\ index = 1 /\ progress = FALSE
    /\ records = <<>> /\ global = {} /\ recent = {}
    /\ rows = <<>>

-----------------------------------------------------------------------------
\* Candidates.

\* Most filters give way when they would leave nothing.
Narrowed(ws, fitting) == IF ws \cap fitting = {} THEN ws ELSE ws \cap fitting

\* collectCandidates: of each list, those of the hinted province if any.
Collected(ws, hint) ==
    IF hint = None THEN ws ELSE Narrowed(ws, {w \in ws : w.province = hint})

\* The indexes.
ByExactName(W, s) == {w \in W : w.spelling = s.spelling}
ByName(W, s) == {w \in W : w.name = s.name}
ByFullName(W, s) == {w \in ByName(W, s) : w.kind = s.kind}
ByDistrictName(W, s) ==
    IF s.parent = None THEN {} ELSE {w \in ByName(W, s) : w.districtName = s.parent}

\* The lists first looked into, and those of the fallback.
Direct(W, s, hint) ==
    Collected(ByExactName(W, s), hint) \cup Collected(ByDistrictName(W, s), hint)
Indirect(W, s, hint) ==
    Collected(ByFullName(W, s), hint) \cup Collected(ByName(W, s), hint)
All(W, s, hint) == Direct(W, s, hint) \cup Indirect(W, s, hint)

ParentMatches(w, s) == s.parent = None \/ s.parent \in {w.districtName, w.province}

Provinces(ws) == {w.province : w \in ws}

\* narrowCandidatesByContext
NarrowedByContext(ws, context, hint) ==
    IF context = {} THEN ws
    ELSE Narrowed(Narrowed(ws, {w \in ws : w.province \in Provinces(context) \cup {hint}}),
                  {w \in ws : \E c \in context : w.district = c.district
                                                 \/ w.districtName = c.districtName})

Typed(ws, s) == {w \in ws : s.kind \in {None, w.kind}}

\* What the context makes of them.
InContext(ws) ==
    LET preferred == Narrowed(ws, {w \in ws : w.province \in recent})
        hinted == Narrowed(preferred, {w \in preferred : w.province = LegacyHint})
        near == NarrowedByContext(hinted, {r.ward : r \in Range(records)}, LegacyHint)
    IN  NarrowedByContext(near, global, LegacyHint)

\* Mutant: the context narrows before the parent the text names.
FilterCandidates_ParentLast(ws, s) ==
    LET near == InContext(Typed(ws, s))
    IN  Narrowed(near, {w \in near : ParentMatches(w, s)})

FilterCandidates(ws, s) ==
    LET typed == Typed(ws, s)
    IN  InContext(Narrowed(typed, {w \in typed : ParentMatches(w, s)}))

\* findLegacySource: one ward, none, or several among which it cannot decide.
FindLegacySource(s) ==
    LET first == FilterCandidates(Direct(Legacy, s, LegacyHint), s)
    IN  IF Cardinality(first) = 1 THEN first
        ELSE FilterCandidates(All(Legacy, s, LegacyHint), s)

\* findReformTarget.  Here a parent that does not match leaves nothing, and
\* new wards have no district.
FindReformTarget(t) ==
    LET sources == {r.ward : r \in Range(records)}
        Kept(ws) ==
            LET fitting == {w \in ws : ParentMatches(w, t)}
                hinted == Narrowed(fitting, {w \in fitting : w.province = ReformHint})
            IN  Narrowed(hinted, {w \in hinted : w.province \in Provinces(sources) \cup {ReformHint}})
        first == Kept(Collected(ByExactName(Reform, t), ReformHint))
    IN  IF Cardinality(first) = 1 THEN first
        ELSE Kept(Collected(ByExactName(Reform, t), ReformHint) \cup Indirect(Reform, t, ReformHint))

-----------------------------------------------------------------------------
\* resolveClausesToMappings

\* orderSourcesForResolution: those with a parent, then those with few
\* candidates, then those with a kind, go first; the rest keep their order.
Priority(s) ==
    LET n == Cardinality(All(Legacy, s, None)) IN
    <<IF s.parent = None THEN 1 ELSE 0,
      IF n = 0 THEN Cardinality(Legacy) + 1 ELSE n,
      IF s.kind = None THEN 1 ELSE 0>>

Before(p, q) == \E i \in DOMAIN p : p[i] < q[i] /\ \A j \in 1 .. i - 1 : p[j] = q[j]

Earlier(from, i, j) ==
    LET p == Priority(from[i])
        q == Priority(from[j])
    IN  Before(p, q) \/ (p = q /\ i < j)

Ordered(from) ==
    LET At(i) == CHOOSE j \in DOMAIN from :
                     Cardinality({k \in DOMAIN from : Earlier(from, k, j)}) = i - 1
    IN  [i \in DOMAIN from |-> from[At(i)]]

Begin(c) ==
    /\ phase = "clause" /\ Len(rows) < MaxClauses
    /\ clause' = c
    /\ pending' = Ordered(c.from) /\ index' = 1 /\ progress' = FALSE
    /\ records' = <<>>
    /\ phase' = "pass"
    /\ UNCHANGED <<global, recent, rows>>

\* One source of a pass: resolved, put off, or unknown.
Resolve ==
    /\ phase = "pass" /\ index <= Len(pending)
    /\ \E w \in FindLegacySource(pending[index]) :
          /\ FindLegacySource(pending[index]) = {w}
          /\ records' = Append(records, [source |-> pending[index], ward |-> w])
    /\ pending' = RemoveAt(pending, index)
    /\ progress' = TRUE
    /\ UNCHANGED <<phase, clause, index, global, recent, rows>>

Defer ==
    /\ phase = "pass" /\ index <= Len(pending)
    /\ Cardinality(FindLegacySource(pending[index])) > 1
    /\ index' = index + 1
    /\ UNCHANGED <<phase, clause, pending, progress, records, global, recent, rows>>

\* An exception: nothing is written for the whole resolution.
Throw ==
    /\ phase' = "failed"
    /\ UNCHANGED <<clause, pending, index, progress, records, global, recent, rows>>

NotFound ==
    /\ phase = "pass" /\ index <= Len(pending)
    /\ FindLegacySource(pending[index]) = {}
    /\ Throw

EndPass ==
    /\ phase = "pass" /\ index > Len(pending)
    /\ pending = <<>> \/ progress
    /\ phase' = IF pending = <<>> THEN "target" ELSE "pass"
    /\ index' = 1 /\ progress' = FALSE
    /\ UNCHANGED <<clause, pending, records, global, recent, rows>>

\* collectCandidateRecordsForSource, without the hints if those leave nothing.
CandidatesOf(s) ==
    LET filtered == FilterCandidates(All(Legacy, s, LegacyHint), s)
        plain == All(Legacy, s, None)
    IN  IF filtered # {} THEN filtered ELSE Narrowed(plain, Typed(plain, s))

\* The ways to give each pending source a ward of its own that nothing else
\* of the resolution has.
Selections ==
    {f \in [DOMAIN pending -> Legacy] :
        /\ \A i \in DOMAIN pending :
              f[i] \in CandidatesOf(pending[i]) \ (global \cup {r.ward : r \in Range(records)})
        /\ \A i, j \in DOMAIN pending : f[i] = f[j] => i = j}

\* evaluateSelection: few provinces, many wards of the hinted one, few districts.
Score(f) ==
    LET wards == {r.ward : r \in Range(records)} \cup Range(f) IN
    <<Cardinality(Provinces(wards)),
      Cardinality(Legacy) - Cardinality({w \in wards : w.province = LegacyHint}),
      Cardinality({w.district : w \in wards})>>

\* resolveAmbiguousSources, once a pass has not resolved anything.  Of several
\* best selections the first one found is taken.
Combine ==
    /\ phase = "pass" /\ index > Len(pending)
    /\ pending # <<>> /\ ~progress
    /\ \E f \in Selections :
          /\ ~\E g \in Selections : Before(Score(g), Score(f))
          /\ records' = records \o [i \in DOMAIN pending |-> [source |-> pending[i], ward |-> f[i]]]
    /\ pending' = <<>>
    /\ phase' = "target"
    /\ UNCHANGED <<clause, index, progress, global, recent, rows>>

Ambiguous ==
    /\ phase = "pass" /\ index > Len(pending)
    /\ pending # <<>> /\ ~progress
    /\ Selections = {}
    /\ Throw

MapClause ==
    /\ phase = "target"
    /\ \E w \in FindReformTarget(clause.to) :
          /\ FindReformTarget(clause.to) = {w}
          /\ rows' = Append(rows, [clause |-> clause, to |-> w, from |-> records])
    /\ global' = global \cup {r.ward : r \in Range(records)}
    /\ recent' = Provinces({r.ward : r \in Range(records)})
    /\ records' = <<>>
    /\ clause' = NoClause
    /\ phase' = "clause"
    /\ UNCHANGED <<pending, index, progress>>

NoTarget ==
    /\ phase = "target"
    /\ Cardinality(FindReformTarget(clause.to)) # 1
    /\ Throw

Next ==
    \/ \E c \in Clause : Begin(c)
    \/ Resolve \/ Defer \/ NotFound
    \/ EndPass \/ Combine \/ Ambiguous
    \/ MapClause \/ NoTarget

Spec == Init /\ [][Next]_resolverVars

-----------------------------------------------------------------------------
\* Properties.

\* What a text says of a unit, with and without its district or province.
Described(W, s) == {w \in Typed(ByName(W, s), s) : ParentMatches(w, s)}
Named(W, s) == Typed(ByName(W, s), s)

Only(ws, w) == Cardinality(ws) = 1 => w \in ws

\* The hinted province has wards of that name in a district of that name, but
\* none that the text describes: the lists then only hold those.
Overruled(s) ==
    /\ \E w \in ByDistrictName(Legacy, s) : w.province = LegacyHint
    /\ ~\E w \in Described(Legacy, s) : w.province = LegacyHint

\* What the text leaves open no longer, when its parent is none or a district.
Right(s, w) ==
    /\ w.name = s.name
    /\ s.parent \notin Provinces(Legacy) /\ ~Overruled(s) => Only(Described(Legacy, s), w)
    /\ Described(Legacy, s) = {} => Only(Named(Legacy, s), w)

\* Every name of a clause is mapped once, to a ward of that name, and to the
\* right one whenever the text decides: when one ward alone has the name, the
\* kind and the district it gives, or when none has and one alone has the
\* name and the kind.  Neither hints nor earlier clauses nor the order of the
\* names may overrule the text, they only choose where it leaves a choice.
TextDecides ==
    \A row \in Range(rows) :
        /\ Len(row.from) = Len(row.clause.from)
        /\ {r.source : r \in Range(row.from)} = Range(row.clause.from)
        /\ \A r \in Range(row.from) : Right(r.source, r.ward)
        /\ row.to \in ByName(Reform, row.clause.to)

=============================================================================
