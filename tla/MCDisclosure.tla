----------------------------- MODULE MCDisclosure -----------------------------
(***************************************************************************)
(* Instances of Disclosure for TLC.  A save touches one form, so a         *)
(* behaviour explores one aspect of the document, its focus, chosen with   *)
(* the initial state: the forms of one topic, the quantities of one group  *)
(* of sources, the safety forms, or one pillar of the score.  MaxSaves     *)
(* bounds the saves of a behaviour.                                        *)
(***************************************************************************)
EXTENDS Disclosure

CONSTANT MaxSaves

VARIABLES focus, saves

mcVars == <<allVars, focus, saves>>

AllTopics   == Groups \cup DOMAIN ScopeTwo
ScoreFields == [environment |-> {"ghg", "flared", "vented", "scope3Forms", "withdrawn",
                                 "stations", "consumed", "spills", "sensitive", "spilled"},
                social      |-> {"conflict", "indigenous", "hcdt", "opex", "resolved",
                                 "incidents", "nearMisses", "disruptions", "fatalities",
                                 "daysLost"},
                governance  |-> {"tier1", "capex", "embedded", "carbonPrice", "climate"}]

Foci == ({"progress"} \X AllTopics) \cup ({"emissions"} \X R!Groups)
          \cup {<<"safety", "people">>} \cup ({"score"} \X DOMAIN ScoreFields)

FormsIn(topic) == IF topic \in Groups THEN DOMAIN Expected[topic] ELSE ScopeTwo[topic]

\* A company that does everything right, and one that has entered nothing.
Spotless ==
    [boe |-> 2, ghg |-> 0, flared |-> 0, vented |-> 0, scope3Forms |-> 15, withdrawn |-> 0,
     stations |-> 1, consumed |-> 0, spilled |-> 0, spills |-> 0, sensitive |-> 0,
     offshore |-> 1, onshore |-> 1, proved |-> 5, probable |-> 5, conflict |-> 0,
     indigenous |-> 0, hcdt |-> 3, opex |-> 100, resolved |-> 2, referred |-> 2,
     incidents |-> 0, nearMisses |-> 0, hours |-> 4, disruptions |-> 0, tier1 |-> 0,
     pseHours |-> 4, capex |-> 50, climate |-> 0, embedded |-> 0, certified |-> TRUE,
     remuneration |-> TRUE, carbonPrice |-> 50, aligned |-> TRUE, fatalities |-> 0,
     daysLost |-> 0]
Blank == [x \in DOMAIN Spotless |->
            IF x \in {"certified", "remuneration", "aligned"} THEN FALSE ELSE 0]

\* Safety figures of a company with contractors, and of a document of the older form.
Busy  == [direct |-> [hours |-> 7, incidents |-> 1], contract |-> [hours |-> 2, incidents |-> 7],
          flat |-> Nobody]
Older == [direct |-> Nobody, contract |-> Nobody, flat |-> [hours |-> 7, incidents |-> 2]]

FullDocument(f) == IF \E g \in Groups : f \in DOMAIN Expected[g]
                   THEN (LET g == CHOOSE g \in Groups : f \in DOMAIN Expected[g]
                         IN  Expected[g][f])
                   ELSE 1

Entered(n) == [s \in R!Sources |-> << [amount |-> n, factor |-> None] >>]

MCInit ==
    /\ focus \in Foci
    /\ saves = 0
    /\ submitted = {}
    /\ \/ NewDocument /\ previous = NoQuantities
       \/ /\ previous = Entered(1)
          /\ saved = [f \in Forms |-> FullDocument(f)]
          /\ \/ kept = [f \in Renamed |-> FullDocument(f)]
             \/ /\ focus[1] = "progress"   \* copies made of a first draft
                /\ kept = [f \in Renamed |-> 1]
          /\ quantities = Entered(7)
          /\ columns = NoReport
    /\ safety \in IF focus[1] = "safety" THEN {Unharmed, Busy, Older} ELSE {Unharmed}
    /\ figures \in IF focus[1] = "score" THEN {Spotless, Blank} ELSE {Blank}

Diesel == [amount |-> 3, factor |-> 4499]
EntryLists(s) == {<<e>> : e \in Entries}
                    \cup (IF s \in R!Listed THEN {<<>>} \cup (Entries \X {Diesel}) ELSE {})

Save ==
    \/ /\ focus[1] = "progress"
       /\ UNCHANGED numbers
       /\ \/ \E f \in FormsIn(focus[2]), n \in Counts : SaveForm(f, n)
          \/ /\ focus[2] = "legalRegulatoryEnvironment"
             /\ \E counts \in [LegalForms -> Counts] : SaveGroup(focus[2], counts)
          \/ /\ focus[2] = "productionVolume"
             /\ \E p \in GroupKeys \cup StrayPaths : SubmitGroup(p)
    \/ /\ focus[1] = "emissions"
       /\ \/ \E s \in {x \in R!Sources : R!GroupOf[x] = focus[2]} :
                \E entries \in EntryLists(s) : SaveQuantities(s, entries)
          \/ StoreReport
    \/ /\ focus[1] = "safety"
       /\ \E group \in {"direct", "contract"}, field \in DOMAIN Nobody, n \in Levels :
             SaveSafety(group, field, n)
    \/ /\ focus[1] = "score"
       /\ \E field \in ScoreFields[focus[2]], n \in Levels : SaveFigure(field, n)

MCNext ==
    /\ saves < MaxSaves
    /\ saves' = saves + 1
    /\ UNCHANGED focus
    /\ Save

MCSpec == MCInit /\ [][MCNext]_mcVars
=============================================================================
