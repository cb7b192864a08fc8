-------------------------------- MODULE Intake --------------------------------
(***************************************************************************)
(* What becomes of the pages the collectors fetch, up to the items the     *)
(* collection pipeline works on: CLS news (app/finance_collectors), Baidu  *)
(* hot topics (app/social_collectors), normalisation                       *)
(* (app/parser_normalizer) and the rules that judge one item by itself     *)
(* (app/rule_engine/finance_filter.py, classifier.py).                     *)
(*                                                                         *)
(* Abstractions.  A fetched row is a record whose fields are the columns   *)
(* the code picks from, NULL when it finds none.  A text is a value; how   *)
(* many finance and entertainment words it has and what they are about are *)
(* given with it.  A link is its page, the first digits found in it and    *)
(* whether it carries tracking parameters.  A time is a number of half     *)
(* hours from the report date's midnight in the configured zone.           *)
(***************************************************************************)
EXTENDS Integers, Sequences, SequenceFolds

CONSTANTS
  NULL,        \* a field without a value
  Malformed,   \* a time that cannot be parsed
  Failing,     \* a page that cannot be fetched or read
  Skew         \* the process's clock less the clock of the configured zone

(* 18:00 of the day before to 07:30 *)
WindowStart == -12
WindowEnd   == 15

(* Mutant: the window ends before its last instant.                        *)
InWindowBeforeEnd(time) == WindowStart <= time /\ time < WindowEnd

InWindow(time) == WindowStart <= time /\ time <= WindowEnd

First(a, b) == IF a # NULL THEN a ELSE b

-----------------------------------------------------------------------------
(* The collectors *)

(* datetime.now(): what the process's clock shows, without its zone.       *)
LocalTime(now) == now + Skew

(* Without an id a news item is known by the first digits of its link.     *)
LinkId(link) == IF link = NULL THEN NULL ELSE First(link.digits, link)

(* An external id is unique within its platform.                           *)
Ext(platform, id) == IF id = NULL THEN NULL ELSE <<platform, id>>

ClsItem(r, now) ==
  [platform |-> "cls", ext |-> Ext("cls", First(r.id, LinkId(r.link))),
   title |-> First(r.title, r.text), summary |-> r.text, link |-> r.link,
   published |-> r.time, collected |-> LocalTime(now), heat |-> 0, tag |-> "none",
   words |-> r.words]

ClsCollected(page, now) ==
  LET says == {r \in ToSet(page) : r.title # NULL \/ r.text # NULL}
      rows == IF page = Failing THEN <<>> ELSE Filtered(page, says)
  IN  [i \in DOMAIN rows |-> ClsItem(rows[i], now)]

(* A topic has no time of its own and is known by its title; without a     *)
(* link it gets that of a search for the title.                            *)
SearchFor(title) == [page |-> <<"s", title>>, digits |-> NULL, tracked |-> FALSE]

(* The unit after the number (10000, 100000000) is not read.               *)
BaiduItem(r, now) ==
  [platform |-> "baidu", ext |-> Ext("baidu", r.title),
   title |-> r.title, summary |-> r.text, link |-> First(r.link, SearchFor(r.title)),
   published |-> NULL, collected |-> LocalTime(now), heat |-> r.hot.number,
   tag |-> r.tag, words |-> r.words]

(* The cards of the page are read only if its data yields no topic.  One   *)
(* that repeats a title is dropped there, and else as a duplicate later.   *)
BaiduCollected(page, now) ==
  LET titled(rows) == {r \in ToSet(rows) : r.title # NULL}
      data == Filtered(page.data, titled(page.data))
      rows == IF data # <<>> THEN data ELSE Filtered(page.cards, titled(page.cards))
  IN  IF page = Failing THEN <<>> ELSE [i \in DOMAIN rows |-> BaiduItem(rows[i], now)]

-----------------------------------------------------------------------------
(* Normalisation *)

Canonical(link) == IF link = NULL THEN NULL ELSE link.page

ContentHash(title, summary, url, published) == <<title, summary, url, published>>

(* A time that comes without a zone, as that of the collection always does, *)
(* is taken for one of the configured zone and keeps its reading.  dated:   *)
(* whether the item has a time of its own.                                  *)
Normalized(x) ==
  LET url == Canonical(x.link)
  IN  [platform |-> x.platform, ext |-> x.ext, url |-> url, title |-> x.title,
       hash |-> ContentHash(x.title, x.summary, url, x.published),
       at |-> First(x.published, x.collected), dated |-> x.published # NULL,
       heat |-> x.heat, tag |-> x.tag, words |-> x.words]

(* normalize_datetime: what is neither a timestamp nor a date that the     *)
(* parser knows raises.                                                    *)
Raises(x) == x.published = Malformed

(* A collector that fails costs its own items.  Normalisation is outside   *)
(* of the try: one time that cannot be parsed fails the whole collection.  *)
IntakeOf(pages, now) ==
  LET collected == ClsCollected(pages.cls, now) \o BaiduCollected(pages.baidu, now)
  IN  IF \E i \in DOMAIN collected : Raises(collected[i])
      THEN [raised |-> TRUE, items |-> <<>>]
      ELSE [raised |-> FALSE, items |-> [i \in DOMAIN collected |-> Normalized(collected[i])]]

-----------------------------------------------------------------------------
(* Rules about one item *)

BaseScore(platform) == IF platform = "cls" THEN 400 ELSE 80

TagScore(tag) == CASE tag = "finance" -> 150 [] tag = "fun" -> -250 [] tag = "none" -> 0

(* finance_score, in hundredths                                            *)
FinanceScore(r) ==
  BaseScore(r.platform) + 120 * r.words.finance - 240 * r.words.fun + TagScore(r.tag)

Related(r) ==
  /\ FinanceScore(r) >= 300
  /\ r.words.fun > r.words.finance => r.platform = "cls"

(* classify_item: the first of these that the words are about.             *)
Priority == <<"risk", "policy", "international", "sector", "hot_topic">>

About(r) == r.words.about \cup {h \in {"hot_topic"} : r.platform = "baidu"}

Category(r) ==
  LET hits == {i \in DOMAIN Priority : Priority[i] \in About(r)}
  IN  IF hits = {} THEN "overview" ELSE Priority[CHOOSE i \in hits : \A j \in hits : i <= j]

=============================================================================
