--------------------------- MODULE MCReportContent ---------------------------
(* Dates with nothing, with one event per section, with general news only, *)
(* with risks only, with six risks or twelve sector events that outrank    *)
(* all others, and busy ones with twelve events per section, whose titles  *)
(* and links are short or as long as those of encoded search links.        *)
EXTENDS ReportContent

Names == {"overview", "sector", "policy", "international", "hot_topics", "risk"}

Rank == [overview |-> 9, sector |-> 3, policy |-> 5, international |-> 1, hot_topics |-> 4,
         risk |-> 2]

Events(s, n, title, link) ==
  [i \in 1..n |-> [key |-> <<s, i>>, score |-> 200 - 10 * i + Rank[s], len |-> title,
                   links |-> <<[id |-> <<s, i>>, len |-> link]>>]]

Feed(n, title, link) == [s \in Names |-> Events(s, n[s], title, link)]

Each(n) == [s \in Names |-> n]
Only(t, n) == [s \in Names |-> IF s = t THEN n ELSE 0]

(* The events of section t outrank all others.                             *)
Led(t, n) ==
  [s \in Names |-> [i \in DOMAIN Feed(n, 20, 40)[s] |->
     IF s = t THEN [Feed(n, 20, 40)[s][i] EXCEPT !.score = @ + 500] ELSE Feed(n, 20, 40)[s][i]]]

SomeFeeds == {Led("risk", [Each(2) EXCEPT !["risk"] = 6]),
              Led("sector", [Each(2) EXCEPT !["sector"] = 12]),
              Feed(Each(0), 20, 40), Feed(Each(1), 12, 60), Feed(Only("overview", 3), 20, 40),
              Feed(Only("risk", 6), 20, 40), Feed(Each(12), 20, 60), Feed(Each(12), 60, 60),
              Feed(Each(12), 20, 208), Feed(Each(12), 45, 160)}

Row(s, sound, keys, text) == [section |-> s, sound |-> sound, keys |-> keys, text |-> text]

Short  == <<Line("plain", 6), Line("item", 80)>>
Wide   == <<Line("plain", 6), Line("item", 300), Line("item", 90)>>
Single == <<Line("plain", 215)>>

SectorGood  == Row("sector", TRUE, {<<"sector", 1>>}, Short)
SectorFree  == Row("sector", TRUE, {}, Wide)
SectorBad   == Row("sector", FALSE, {}, Short)
SectorOther == Row("sector", TRUE, {<<"policy", 1>>}, Short)
Unknown     == Row("funds", TRUE, {}, Short)
NoText      == Row("policy", TRUE, {}, Odd)
OddKey      == Row("policy", TRUE, {Odd}, Short)
NoList      == Row("risk", TRUE, Odd, Short)
All(text)   == [i \in 1..6 |-> Row(Detail[i], TRUE, {}, text)]

Answered(rows) == [kind |-> "answer", rows |-> rows]

SomeAnswers == {[kind |-> "off"], [kind |-> "error"]} \cup
  {Answered(rows) : rows \in {<<>>, <<SectorGood>>, <<SectorFree, SectorBad>>, <<SectorBad, SectorGood>>,
                          <<SectorOther>>, <<Unknown>>, <<Odd, NoText, OddKey>>,
                          <<SectorGood, NoList>>, All(Short), All(Wide), All(Single)}}

SomeDetailLimit == [overview |-> 5, sector |-> 10, policy |-> 10, international |-> 10,
                    hot_topics |-> 10, risk |-> 3]
SomeFullLimit   == [overview |-> 5, sector |-> 4, policy |-> 4, international |-> 3, risk |-> 3]
SomeBlockLimit  == [overview |-> 320, sector |-> 340, policy |-> 340, international |-> 280,
                    risk |-> 220]

=============================================================================
