---------------------------- MODULE ReportContent ----------------------------
(***************************************************************************)
(* How the text of a daily report is made from the event clusters of its   *)
(* date: selection and ranking (reports/selector.py), the templates        *)
(* (template_engine.py), the overlay of an LLM's answer (llm_overlay.py),  *)
(* composition into at most six messages (composer.py), and what the       *)
(* keyword menu answers (services/report_service.py).                      *)
(*                                                                         *)
(* Abstractions.  A text is a sequence of lines, and a line is what it is  *)
(* (kind) and how many characters it has (len); whole is FALSE once it has *)
(* been cut.  Importance, heat and source count, which are compared in     *)
(* this order, are one score.  The lengths of the templates' fixed parts   *)
(* are those of the source.                                                *)
(***************************************************************************)
EXTENDS Integers, SequenceFolds, FiniteSetsExt

CONSTANTS
  Feeds,        \* what load_candidate_feed may return: functions from section to events
  Answers,      \* what becomes of the LLM: off, error, or an answer with its rows
  Odd,          \* a JSON value of another type than asked for
  DetailLimit,  \* events of a section's detail
  FullLimit,    \* events of a section in the full report
  BlockLimit,   \* characters of a section in the full report
  MaxChars,     \* characters of the full report
  ChunkChars,   \* characters of a message
  MaxChunks,    \* messages of a report
  MaxLinks      \* links of a report

Detail == <<"overview", "sector", "policy", "international", "hot_topics", "risk">>
Full   == <<"overview", "sector", "policy", "international", "risk">>

ASSUME ContentAssumption ==
  /\ \A f \in Feeds : DOMAIN f = ToSet(Detail)
  /\ DetailLimit \in [ToSet(Detail) -> Nat]
  /\ FullLimit \in [ToSet(Full) -> Nat]
  /\ BlockLimit \in [ToSet(Full) -> Nat]
  /\ {ChunkChars, MaxLinks} \subseteq Nat \ {0} /\ {MaxChars, MaxChunks} \subseteq Nat \ {0, 1}

(* The lines of a text, and those of them that can be seen.                *)
Lines   == [kind : {"plain", "item", "link", "disclaimer", "blank"}, len : Nat, whole : BOOLEAN]
Visible == [kind : {"plain", "item", "link", "disclaimer", "blank"}, len : Nat \ {0}, whole : BOOLEAN]

(* The clusters of a date have different event keys.                       *)
ASSUME FeedsAssumption ==
  \A f \in Feeds, s \in ToSet(Detail) :
    /\ f[s] \in Seq(ToSet(f[s]))
    /\ \A i, j \in DOMAIN f[s] : f[s][i].key = f[s][j].key => i = j
    /\ \A e \in ToSet(f[s]) :
         /\ e.score \in Int /\ e.len \in Nat
         /\ e.links \in Seq(ToSet(e.links)) /\ \A l \in ToSet(e.links) : l.len \in Nat

(* A sound text is not blank.                                              *)
ASSUME AnswersAssumption ==
  \A a \in Answers :
    /\ a.kind \in {"off", "error", "answer"}
    /\ a.kind = "answer" =>
         /\ a.rows \in Seq(ToSet(a.rows))
         /\ \A r \in ToSet(a.rows) \ {Odd} :
              /\ DOMAIN r = {"section", "sound", "keys", "text"}
              /\ r.text # Odd /\ r.sound =>
                   r.text \in Seq(Lines) /\ ToSet(r.text) \cap Visible # {}

VARIABLES
  stage,     \* "load", "select", "overlay", "compose" or "done"
  feed,      \* the candidate events of the date
  answer,    \* the answer of the LLM
  sections,  \* the drafts: function from section to events, content, brief and mode
  fallback,  \* fallback_used
  report     \* the report: full text, messages, messages of each section, status

contentVars == <<stage, feed, answer, sections, fallback, report>>

Nothing == [text |-> <<>>, chunks |-> <<>>, details |-> <<>>, status |-> "processing"]

ContentInit ==
  /\ stage = "load" /\ fallback = FALSE /\ report = Nothing
  /\ feed = <<>> /\ answer = [kind |-> "off"] /\ sections = <<>>

-----------------------------------------------------------------------------
(* Texts *)

Line(kind, len) == [kind |-> kind, len |-> len, whole |-> TRUE]
Blank == Line("blank", 0)

(* Characters of the lines, joined by line breaks.                         *)
Width(text) ==
  LET Add(n, l) == n + l.len
  IN  FoldLeft(Add, 0, text) + (IF text = <<>> THEN 0 ELSE Len(text) - 1)

(* "\n\n".join *)
JoinBlocks(texts) ==
  LET Join(acc, t) == IF acc = <<>> THEN t ELSE acc \o <<Blank>> \o t
  IN  FoldLeft(Join, <<>>, texts)

Strip(text) ==
  LET shown == {i \in DOMAIN text : text[i].len > 0}
  IN  IF shown = {} THEN <<>> ELSE SubSeq(text, Min(shown), Max(shown))

-----------------------------------------------------------------------------
(* Selection *)

(* sorted(..., reverse=True): stable *)
Ranked(events) ==
  LET Insert(seq, e) ==
        LET lower(x) == x.score < e.score
            i == SelectInSeq(seq, lower)
        IN  IF i = 0 THEN Append(seq, e) ELSE InsertAt(seq, i, e)
  IN  FoldLeft(Insert, <<>>, events)

Top(events, n) == SubSeq(events, 1, Min({n, Len(events)}))

(* Mutant: in the order of the sections.                                   *)
OverviewInOrder(selected) == Top(Concat([i \in 1..5 |-> selected[Detail[i + 1]]]), FullLimit["overview"])

(* _build_overview: the best events of the other sections.  (A cluster     *)
(* has one category, so that its key cannot come twice.)                   *)
Overview(selected) ==
  Top(Ranked(Concat([i \in 1..5 |-> selected[Detail[i + 1]]])), FullLimit["overview"])

(* select: the events of the section "overview" are replaced.              *)
Selected(f) ==
  LET best == [s \in ToSet(Detail) |-> Top(Ranked(f[s]), DetailLimit[s])]
  IN  [best EXCEPT !["overview"] = Overview(best)]

Projected(selected, s) == IF s \in ToSet(Full) THEN Top(selected[s], FullLimit[s]) ELSE selected[s]

-----------------------------------------------------------------------------
(* Templates *)

ImpactLen == [overview |-> 23, sector |-> 35, policy |-> 29, international |-> 33,
              hot_topics |-> 28, risk |-> 29]

(* Mutant: nothing is said of a section without events.                    *)
RenderedBare(s, events) ==
  <<Line("plain", 6)>> \o [i \in DOMAIN events |-> Line("item", 7 + events[i].len + ImpactLen[s])]

Rendered(s, events) ==
  <<Line("plain", 6)>> \o
  IF events = <<>> THEN <<Line("plain", 11)>>
  ELSE [i \in DOMAIN events |-> Line("item", 7 + events[i].len + ImpactLen[s])]

Drafts(f) ==
  LET selected == Selected(f)
  IN  [s \in ToSet(Detail) |->
         [events  |-> selected[s],
          content |-> Rendered(s, selected[s]),
          brief   |-> Rendered(s, Projected(selected, s)),
          mode    |-> "template"]]

-----------------------------------------------------------------------------
(* The LLM's answer *)

KeysOf(events) == {e.key : e \in ToSet(events)}

(* summarize_sections: rows without a section and a text are left out, and *)
(* so are keys that are no text; keys that are no list fail the answer.    *)
Parsed(rows) ==
  LET texts == Filtered(rows, {r \in ToSet(rows) : r # Odd /\ r.section # Odd /\ r.text # Odd})
  IN  IF \E i \in DOMAIN texts : texts[i].keys = Odd THEN [failed |-> TRUE, candidates |-> <<>>]
      ELSE [failed |-> FALSE,
            candidates |-> [i \in DOMAIN texts |-> [texts[i] EXCEPT !.keys = @ \ {Odd}]]]

(* Mutant: the keys of a candidate are not compared with the section's.    *)
ValidByText(draft, c) == c.sound /\ draft.mode # ""

(* _is_valid_candidate; sound: it has text with fact and impact, and no    *)
(* investment advice.                                                      *)
Valid(draft, c) == c.sound /\ c.keys \subseteq KeysOf(draft.events)

(* Mutant: a section the answer leaves out goes unnoticed.                 *)
NoneMissing(asked, applied) == applied # applied

Missing(asked, applied) == asked \ applied # {}

(* apply, for an answer that arrived.                                      *)
Overlaid(drafts, candidates) ==
  LET Apply(acc, c) ==
        IF c.section \in DOMAIN drafts /\ Valid(acc.drafts[c.section], c)
        THEN [acc EXCEPT !.drafts[c.section] = [@ EXCEPT !.content = c.text, !.brief = c.text,
                                                         !.mode = "hybrid"],
                         !.applied = @ \cup {c.section}]
        ELSE [acc EXCEPT !.refused = TRUE]
  IN  FoldLeft(Apply, [drafts |-> drafts, applied |-> {}, refused |-> FALSE], candidates)

-----------------------------------------------------------------------------
(* Composition *)

(* _trim_block: the first line always stays, unless it is blank.           *)
Trimmed(text, limit) ==
  LET fits == {i \in DOMAIN text : Width(SubSeq(text, 1, i)) <= limit}
  IN  IF Width(text) <= limit THEN text ELSE Strip(SubSeq(text, 1, Max({1} \cup fits)))

(* The first links of the sections' events, each once.                     *)
Links(drafts) ==
  LET of(s) == Concat([i \in DOMAIN drafts[s].events |-> drafts[s].events[i].links])
      Add(seq, l) == IF l \in ToSet(seq) THEN seq ELSE Append(seq, l)
      first(ls)   == Top(FoldLeft(Add, <<>>, ls), MaxLinks)
  IN  first(Concat([i \in DOMAIN Full |-> first(of(Full[i]))]))

LinkBlock(links) ==
  <<Line("plain", 8)>> \o
  IF links = <<>> THEN <<Line("plain", 7)>>
  ELSE [i \in DOMAIN links |-> Line("link", 3 + links[i].len)]

Disclaimer == <<Line("plain", 6), Line("disclaimer", 36)>>

FullText(drafts) ==
  JoinBlocks(<<<<Line("plain", 21)>>>>
             \o [i \in DOMAIN Full |-> Trimmed(drafts[Full[i]].brief, BlockLimit[Full[i]])]
             \o <<LinkBlock(Links(drafts)), Disclaimer>>)

(* A line that starts with a number from 1 to 9 is cut behind 116.         *)
Shortened(l) ==
  IF l.kind \in {"item", "link"} /\ l.len > 120 THEN [l EXCEPT !.len = 117, !.whole = FALSE] ELSE l

(* The first n characters.                                                 *)
Prefix(text, n) ==
  LET start(i) == IF i = 1 THEN 0 ELSE Width(SubSeq(text, 1, i - 1)) + 1
      Cut(i)   == LET l == text[i]
                  IN  IF start(i) + l.len <= n THEN l
                      ELSE [l EXCEPT !.len = n - start(i), !.whole = FALSE]
  IN  [i \in {j \in DOMAIN text : start(j) < n} |-> Cut(i)]

(* _compact_text: shorter lines, and "..." at the end of the budget.       *)
Compacted(text) ==
  LET short == [i \in DOMAIN text |-> Shortened(text[i])]
      cut   == Strip(Prefix(short, MaxChars - 1))
  IN  IF Width(short) <= MaxChars THEN short ELSE [cut EXCEPT ![Len(cut)].len = @ + 1]

(* Mutant: the lines behind the last full message are forgotten.           *)
SplitOpen(text) ==
  LET Add(acc, l) ==
        IF acc.current # <<>> /\ Width(Append(acc.current, l)) > ChunkChars
        THEN [chunks |-> Append(acc.chunks, Strip(acc.current)), current |-> <<l>>]
        ELSE [acc EXCEPT !.current = Append(@, l)]
  IN  FoldLeft(Add, [chunks |-> <<>>, current |-> <<>>], text).chunks

(* _split_preserving_lines *)
Split(text) ==
  LET Add(acc, l) ==
        IF acc.current # <<>> /\ Width(Append(acc.current, l)) > ChunkChars
        THEN [chunks |-> Append(acc.chunks, Strip(acc.current)), current |-> <<l>>]
        ELSE [acc EXCEPT !.current = Append(@, l)]
      all == FoldLeft(Add, [chunks |-> <<>>, current |-> <<>>], text)
      cut == Append(all.chunks, Strip(all.current))
  IN  Filtered(cut, ToSet(cut) \ {<<>>})

(* Mutant: a text that still makes too many messages stays as it is.       *)
Unmerged(text, chunks) == [text |-> text, chunks |-> chunks]

(* All messages but the last become one.                                   *)
Merged(text, chunks) ==
  IF Len(chunks) <= MaxChunks THEN [text |-> text, chunks |-> chunks]
  ELSE LET two == <<JoinBlocks(Front(chunks)), Last(chunks)>>
       IN  [text |-> JoinBlocks(two), chunks |-> two]

Composed(drafts) ==
  LET full == FullText(drafts)
      fit  == IF Width(full) <= MaxChars THEN full ELSE Compacted(full)
      few  == IF Len(Split(fit)) > MaxChunks THEN Compacted(fit) ELSE fit
  IN  Merged(few, Split(few))

(* _resolve_generation_status *)
Status(drafts) ==
  IF fallback /\ \A s \in DOMAIN drafts : drafts[s].mode # "hybrid" THEN "fallback_success" ELSE "success"

-----------------------------------------------------------------------------
(* The pipeline *)

LoadFeed ==
  /\ stage = "load"
  /\ feed' \in Feeds
  /\ stage' = "select"
  /\ UNCHANGED <<answer, sections, fallback, report>>

SelectSections ==
  /\ stage = "select"
  /\ sections' = Drafts(feed)
  /\ stage' = "overlay"
  /\ UNCHANGED <<feed, answer, fallback, report>>

Asked == {s \in DOMAIN sections : sections[s].events # <<>>}

ApplyAnswer ==
  /\ stage = "overlay"
  /\ answer' \in Answers
  /\ IF answer'.kind = "off" \/ Asked = {} THEN UNCHANGED <<sections, fallback>>
     ELSE LET parsed == IF answer'.kind = "error" THEN [failed |-> TRUE, candidates |-> <<>>]
                            ELSE Parsed(answer'.rows)
              over   == Overlaid(sections, parsed.candidates)
          IN  IF parsed.failed THEN fallback' = TRUE /\ UNCHANGED sections
              ELSE /\ sections' = over.drafts
                   /\ fallback' = (over.refused \/ Missing(Asked, over.applied))
  /\ stage' = "compose"
  /\ UNCHANGED <<feed, report>>

Compose ==
  /\ stage = "compose"
  /\ LET whole == Composed(sections)
     IN  report' = [text |-> whole.text, chunks |-> whole.chunks, status |-> Status(sections),
                    details |-> [s \in DOMAIN sections |-> Split(sections[s].content)]]
  /\ stage' = "done"
  /\ UNCHANGED <<feed, answer, sections, fallback>>

Done == stage = "done" /\ UNCHANGED contentVars

(* build_keyword_payload: the messages for a keyword, none if it is not    *)
(* known.  The section of the keyword hot is called hot_topics.            *)
Keywords == {"menu", "help", "report", "sector", "policy", "international", "hot", "risk"}

(* Mutant: the section is looked for under the name of the category.       *)
CategoryFor(keyword) == IF keyword = "hot" THEN "hot_topic" ELSE keyword

SectionFor(keyword) == IF keyword = "hot" THEN "hot_topics" ELSE keyword

Reply(keyword) ==
  CASE keyword \in {"menu", "help"} -> <<<<Line("plain", 6), Line("plain", 41)>>>>
    [] keyword = "report" -> report.chunks
    [] OTHER -> IF SectionFor(keyword) \in DOMAIN report.details
                THEN report.details[SectionFor(keyword)] ELSE <<>>

ContentNext == LoadFeed \/ SelectSections \/ ApplyAnswer \/ Compose \/ Done

ContentSpec == ContentInit /\ [][ContentNext]_contentVars

-----------------------------------------------------------------------------
(* Properties *)

(* Every stage leaves what the next one needs: a draft per section, at     *)
(* least its title and one more line in each template, and at least one    *)
(* message of at least one line when the report is done.                   *)
ContentTypeOK ==
  /\ stage \in {"load", "select", "overlay", "compose", "done"}
  /\ stage \in {"overlay", "compose", "done"} =>
       \A s \in ToSet(Detail) :
         /\ sections[s].mode \in {"template", "hybrid"}
         /\ sections[s].mode = "template" => Len(sections[s].content) >= 2
  /\ stage = "done" =>
       /\ report.status \in {"success", "fallback_success"}
       /\ report.chunks # <<>> /\ \A i \in DOMAIN report.chunks : report.chunks[i] # <<>>

(* The report makes at most six messages (PRD section 9), whatever the     *)
(* lengths of its lines: what two passes of compaction leave is merged.    *)
ChunksBounded == Len(report.chunks) <= MaxChunks

Shown(text) == Filtered(text, Visible)

(* Splitting, compacting and merging lose nothing: the messages together   *)
(* carry the lines of the stored full text, in their order.                *)
ChunksCarryText == Shown(Concat(report.chunks)) = Shown(report.text)

(* Of all events of the date that have a section, none is left out for a   *)
(* lesser one.  A section leaves an event out only if it is full, of       *)
(* events that rank at least as high.  The overview, too, shows as many as *)
(* it can; and an event that it leaves out although it ranks above one it  *)
(* shows was cut from its own section before the overview was made, and    *)
(* that section shows fewer events than the overview (as risk does, three  *)
(* against five): from a section that shows as many, it misses nothing.    *)
BestEventsFirst ==
  stage # "load" /\ sections # <<>> =>
    LET events(s) == sections[s].events
        shown(s)  == ToSet(events(s))
    IN  \A s \in ToSet(Detail) \ {"overview"} : \A o \in ToSet(feed[s]) :
          /\ o \notin shown(s) =>
               Len(events(s)) = DetailLimit[s] /\ \A e \in shown(s) : o.score <= e.score
          /\ o \in shown(s) \ shown("overview") =>
               Len(events("overview")) = FullLimit["overview"]
          /\ o \notin shown("overview") /\ (\E e \in shown("overview") : o.score > e.score) =>
               o \notin shown(s) /\ DetailLimit[s] < FullLimit["overview"]

(* A section that carries the LLM's text carries the text of a row that    *)
(* was checked against that section, also when the answer has several rows *)
(* for it, one for another section's events, or rows that make no sense.   *)
HybridIsChecked ==
  \A s \in DOMAIN sections : sections[s].mode = "hybrid" =>
    \E r \in ToSet(answer.rows) \ {Odd} :
      /\ r.section = s /\ r.text = sections[s].content /\ r.sound
      /\ r.keys # Odd /\ r.keys \ {Odd} \subseteq KeysOf(sections[s].events)

(* Falling back is never silent: when the LLM is on and a section with     *)
(* events keeps its template, fallback_used is set; and the status is      *)
(* fallback_success exactly if it is set and the LLM contributed nothing.  *)
FallbackReported ==
  stage \in {"compose", "done"} /\ answer.kind # "off" =>
    /\ (\E s \in Asked : sections[s].mode = "template") => fallback
    /\ stage = "done" =>
         (report.status = "fallback_success"
            <=> fallback /\ \A s \in DOMAIN sections : sections[s].mode = "template")

(* Whoever asks the menu misses nothing: every keyword of it has an        *)
(* answer, and the answer for a section has all of its lines, those too    *)
(* that the budgets of the full report leave out.                          *)
MenuShowsAll ==
  stage = "done" => \A k \in Keywords :
    /\ Reply(k) # <<>>
    /\ k \notin {"menu", "help", "report"} =>
         Shown(Concat(Reply(k))) = Shown(sections[IF k = "hot" THEN "hot_topics" ELSE k].content)

(* PRD section 11.8, refuted: the text contains the disclaimer.  It is the *)
(* end of the text, and the end is what the budget cuts off.               *)
DisclaimerKept ==
  stage = "done" => \E i \in DOMAIN report.text :
                      report.text[i].kind = "disclaimer" /\ report.text[i].whole

(* PRD section 11.6, refuted: links can be followed.  A link line starts   *)
(* with a number, so that compaction cuts long links as it cuts items.     *)
LinksWhole ==
  stage = "done" => \A i \in DOMAIN report.text :
                      report.text[i].kind = "link" => report.text[i].whole

(* TASK_BREAKDOWN.md:112, refuted: events get to their section.  Those of  *)
(* the category overview, the default of classify_item, are overwritten by *)
(* the digest of the other sections.                                       *)
OverviewNewsShown ==
  stage = "done" /\ feed["overview"] # <<>> => sections["overview"].events # <<>>

=============================================================================
