----------------------------- MODULE LeadFinder -----------------------------
(***************************************************************************)
(* The scripts that make the files an operator imports: find-leads asks    *)
(* public sources, qualify-leads takes a file (scripts/, src/lib/icp.ts,   *)
(* src/engine/discovery).  Of what a source says of somebody the model     *)
(* keeps the ways to tell who it is, the marks the source's own rules look *)
(* for, and the traits the scoring rules look for.  A source that fails or *)
(* runs into its deadline is one that says less.                           *)
(***************************************************************************)
EXTENDS LeadBook

CONSTANTS
    Posts, Hits, Contacts, ExportRows,  \* what the four sources may say
    MostSaid,       \* bound: how much one source says
    MaxRecords,     \* --limit
    Rules,          \* the profile's rules: match and veto (sets of traits), points, disqualifies
    Traits,
    HotAt, WarmAt, CoolAt,
    CalibrateFrom,  \* 20 in the program
    LongestList     \* bound: the people of one ranking

ASSUME FinderAssumption ==
    /\ MostSaid \in Nat /\ MaxRecords \in Nat /\ LongestList \in Nat /\ CalibrateFrom \in Nat \ {0}
    /\ HotAt \in Nat /\ WarmAt \in 0 .. HotAt /\ CoolAt \in 0 .. WarmAt
    /\ Rules \in Seq([match : SUBSET Traits, veto : SUBSET Traits,
                      points : Int, disqualifies : BOOLEAN])

-----------------------------------------------------------------------------
(* The sources: what each yields, within its budget, and what of it is      *)
(* taken for a person.                                                      *)

Within(said) == SubSeq(said, 1, Min({Len(said), MaxRecords}))

\* A set sorted by a relation: each comes after as many as are before it.  (SetToSortSeq,
\* stated without SortSeq, about which nothing can be proved.)
Sorted(S, Before) ==
    [k \in 1 .. Cardinality(S) |->
       CHOOSE x \in S : Cardinality({y \in S : <<y, x>> \in Before}) = k - 1]

\* Those at some places of a list, in their order.
Picked(said, places) ==
    LET order == Sorted(places, {pair \in places \X places : pair[1] < pair[2]})
    IN [k \in 1 .. Cardinality(places) |-> said[order[k]]]

\* Those of a list who are in a set (filter).
Those(list, S) == Picked(list, {k \in DOMAIN list : list[k] \in S})

FirstOfEach(said, Id(_)) ==
    Picked(said, {i \in DOMAIN said : \A j \in 1 .. i - 1 : Id(said[j]) # Id(said[i])})

\* Comments of the thread that have a text; a reply to another comment is one of them.
HackerNewsYields(posts) ==
    Within(Picked(posts, {i \in DOMAIN posts : posts[i].marks \cap {"deleted", "otherThread"} = {}}))

\* The addresses are compared in lower case, with their escapes.
Lowered(url) == IF url.slug.spelt = "upper" THEN [url.slug EXCEPT !.spelt = "plain"] ELSE url.slug

WebSearchYields(hits) ==
    Within(FirstOfEach(Picked(hits, {i \in DOMAIN hits : hits[i].link.segment = "in"}),
                       LAMBDA h : Lowered(h.link)))

\* One record per study and address, or name where there is no address.
RegistryYields(contacts) ==
    Within(FirstOfEach(contacts, LAMBDA c : <<c.study, IF c.email = NoField THEN c.name ELSE c.email>>))

HackerNewsAccepts(post) ==
    "short" \notin post.marks /\ (post.located \/ post.email # NoField \/ post.link # Blank)

WebSearchAccepts(hit) == "hiring" \notin hit.marks

looksLikePerson(contact) == "desk" \notin contact.marks

\* By the role of the record or by what follows the name.
isInvestigator(contact) == contact.marks \cap {"investigator", "degree"} # {}

RegistryAccepts(contact) ==
    looksLikePerson(contact) /\ "sponsor" \notin contact.marks /\ ~isInvestigator(contact)

ExportAccepts(row) == IsProfile(row.link) /\ "hiring" \notin row.marks

Accepted(s) ==
    CASE s.source = "POST" -> HackerNewsAccepts(s)
      [] s.source = "HIT" -> WebSearchAccepts(s)
      [] s.source = "CONTACT" -> RegistryAccepts(s)
      [] s.source = "ROW" -> ExportAccepts(s)

-----------------------------------------------------------------------------
(* find-leads: who has been seen before.                                    *)

\* With their strength; an address that is no profile is no key.
identityKeys(s) ==
    {k \in {<<1, s.email>>, <<2, IF IsProfile(s.link) THEN s.link.slug.person ELSE NoField>>,
            <<3, s.github>>, <<4, s.handle>>} : k[2] # NoField}

NobodySeen == [people |-> <<>>, byKey |-> <<>>, rejected |-> 0, duplicates |-> 0]

\* (Mutant: whoever was seen before is dropped.)
DroppedInto(person, i) == person

\* The evidence is merged; the identity stays that of the first sighting.
MergedInto(person, i) == [person EXCEPT !.signals = Append(@, i)]

Sighted(seen, s, i) ==
    LET keys == identityKeys(s)
        known == keys \cap DOMAIN seen.byKey
        strongest == CHOOSE k \in known : \A m \in known : k[1] <= m[1]
        is(p) == [k \in keys \cup DOMAIN seen.byKey |->
                    IF k \in DOMAIN seen.byKey THEN seen.byKey[k] ELSE p]
    IN IF ~Accepted(s) THEN [seen EXCEPT !.rejected = @ + 1]
       ELSE IF known # {}
         THEN LET p == seen.byKey[strongest]
              IN [seen EXCEPT !.duplicates = @ + 1, !.people[p] = MergedInto(@, i), !.byKey = is(p)]
       ELSE [seen EXCEPT !.people = Append(@, [first |-> s, signals |-> <<i>>]),
                         !.byKey = is(Len(seen.people) + 1)]

Find(sightings) ==
    LET seen[i \in 0 .. Len(sightings)] ==
          IF i = 0 THEN NobodySeen ELSE Sighted(seen[i - 1], sightings[i], i)
    IN seen[Len(sightings)]

-----------------------------------------------------------------------------
(* The score, the band, the ranking.                                        *)

Bands == <<"Hot", "Warm", "Cool", "Out">>

Fires(rule, traits) == rule.match \cap traits # {} /\ rule.veto \cap traits = {}

\* The first cut that is reached.
BandOf(points, hot, warm, cool) ==
    IF points >= hot THEN "Hot" ELSE IF points >= warm THEN "Warm"
    ELSE IF points >= cool THEN "Cool" ELSE "Out"

\* The points of the rules that fire, one rule after the other.
Tally(traits) ==
    LET tally[r \in 0 .. Len(Rules)] ==
          IF r = 0 THEN 0
          ELSE IF Fires(Rules[r], traits) THEN tally[r - 1] + Rules[r].points ELSE tally[r - 1]
    IN tally[Len(Rules)]

\* The first disqualifying rule that fires ends it at nothing.
scoreLead(traits) ==
    LET out == \E i \in DOMAIN Rules : Rules[i].disqualifies /\ Fires(Rules[i], traits)
        points == IF out THEN 0 ELSE Tally(traits)
    IN [points |-> points, score |-> Max({0, Min({100, points})}),
        band |-> IF out THEN "Disqualified"
                 ELSE BandOf(Max({0, Min({100, points})}), HotAt, WarmAt, CoolAt)]

Scores(people) == [i \in DOMAIN people |-> scoreLead(people[i])]

\* By points, and in the order they were found.
Outranks(scores) ==
    {pair \in (DOMAIN scores) \X (DOMAIN scores) :
       LET i == pair[1]  j == pair[2]
       IN \/ scores[i].points > scores[j].points
          \/ scores[i].points = scores[j].points /\ i < j}

Ranking(scores) == Sorted(DOMAIN scores, Outranks(scores))

IsLive(score) == score.band # "Disqualified"

\* (Mutant: whoever is disqualified is given a band again.)
CalibratedForAll(score, cut) ==
    [score EXCEPT !.band = BandOf(score.points, cut[15], cut[40], cut[70])]

Calibrated(score, cut) ==
    IF IsLive(score) THEN [score EXCEPT !.band = BandOf(score.points, cut[15], cut[40], cut[70])]
                     ELSE score

\* --calibrate: the cuts are what the person at 15, 40 and 70 per cent scores.
Calibrate(scores) ==
    LET live == Those(Ranking(scores), {i \in DOMAIN scores : IsLive(scores[i])})
        cut == [p \in {15, 40, 70} |->
                  scores[live[Min({Len(live), 1 + (Len(live) * p) \div 100})]].points]
    IN [i \in DOMAIN scores |-> Calibrated(scores[i], cut)]

Calibrates(people, calibrate) == calibrate /\ Len(people) >= CalibrateFrom

\* Where nobody is left to calibrate by, the script fails.
CalibrationFails(people, calibrate) ==
    Calibrates(people, calibrate) /\ \A i \in DOMAIN people : ~IsLive(scoreLead(people[i]))

\* The file of find-leads.
FoundFile(people, calibrate, bands) ==
    LET scores == Scores(people)
        final == IF Calibrates(people, calibrate) THEN Calibrate(scores) ELSE scores
        order == Those(Ranking(scores), {i \in DOMAIN scores : final[i].band \in bands})
    IN [k \in DOMAIN order |-> [person |-> order[k], band |-> final[order[k]].band]]

\* The file of qualify-leads: a minimum score, and the first so many.
QualifiedFile(people, bands, least, top) ==
    LET scores == Scores(people)
        order == Those(Ranking(scores), {i \in DOMAIN scores : /\ scores[i].band \in bands
                                                              /\ scores[i].score >= least})
    IN [k \in 1 .. Min({top, Len(order)}) |-> [person |-> order[k], band |-> scores[order[k]].band]]

-----------------------------------------------------------------------------
(* The properties: facts about all small inputs, looked at in the initial   *)
(* state.                                                                   *)

Said(S) == UNION {[1 .. n -> S] : n \in 0 .. MostSaid}

Shares(s, t) == identityKeys(s) \cap identityKeys(t) # {}

\* No sighting of anybody gets lost or counts twice on its way into the list, the
\* counts the operator reads add up, and nobody is taken for somebody else: the
\* sightings of one row hang together by the keys they share (find-leads).
Accounted(all) ==
    LET found == Find(all)
        people == DOMAIN found.people
        taken == {i \in DOMAIN all : Accepted(all[i])}
        evidence(p) == ToSet(found.people[p].signals)
    IN /\ Len(all) = found.rejected + found.duplicates + Len(found.people)
       /\ \A i \in taken : Cardinality({p \in people : i \in evidence(p)}) = 1
       /\ \A p \in people :
            /\ Len(found.people[p].signals) = Cardinality(evidence(p))
            /\ \A part \in (SUBSET evidence(p)) \ {{}, evidence(p)} :
                 \E i \in part, j \in evidence(p) \ part : Shares(all[i], all[j])

EvidenceKept ==
    Init => \A posts \in Said(Posts), hits \in Said(Hits), contacts \in Said(Contacts),
               rows \in Said(ExportRows) :
      Accounted(HackerNewsYields(posts) \o WebSearchYields(hits) \o RegistryYields(contacts)
                  \o Within(rows))

PointsOf(rules) == MapThenSumSet(LAMBDA r : Rules[r].points, rules)

\* A file in which nobody is who is out, and that is in order.
InOrder(file, people, bands) ==
    LET fired(i) == {r \in DOMAIN Rules : Fires(Rules[r], people[i])}
        rank(band) == CHOOSE n \in DOMAIN Bands : Bands[n] = band
    IN /\ \A k \in DOMAIN file : /\ \A r \in fired(file[k].person) : ~Rules[r].disqualifies
                                 /\ file[k].band \in bands
       /\ \A k, l \in DOMAIN file : k < l =>
            /\ file[k].person # file[l].person
            /\ PointsOf(fired(file[k].person)) >= PointsOf(fired(file[l].person))
            /\ rank(file[k].band) <= rank(file[l].band)

WellRanked(people, bands, calibrate, top) ==
    LET fired(i) == {r \in DOMAIN Rules : Fires(Rules[r], people[i])}
        fails == CalibrationFails(people, calibrate)
        found == IF fails THEN <<>> ELSE FoundFile(people, calibrate, bands)
        best == QualifiedFile(people, bands, 0, top)
        everybody == {i \in DOMAIN people : \A r \in fired(i) : ~Rules[r].disqualifies}
        in(file) == {file[k].person : k \in DOMAIN file}
    IN /\ fails => calibrate /\ everybody = {}
       /\ InOrder(found, people, bands) /\ InOrder(best, people, bands)
       /\ bands = ToSet(Bands) => in(found) = everybody
       /\ bands = ToSet(Bands) =>
            \A i \in everybody \ in(best), j \in in(best) : PointsOf(fired(i)) <= PointsOf(fired(j))

\* Whoever a disqualifying rule names is in no file, whatever else speaks for him and
\* however the bands are cut; everybody else is, where all bands are asked for; the
\* points only fall down the file and the bands never rise; and nobody is left out by
\* a count who outranks somebody taken (scoreLead, find-leads, qualify-leads).
WorklistRanked ==
    Init => \A people \in UNION {[1 .. n -> SUBSET Traits] : n \in 0 .. LongestList},
               bands \in {ToSet(Bands), {"Hot"}}, calibrate \in BOOLEAN, top \in 0 .. LongestList :
      WellRanked(people, bands, calibrate, top)
=============================================================================
