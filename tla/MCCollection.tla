---------------------------- MODULE MCCollection ----------------------------
(* A small world of news.  CLS rows: an item, an edited version of it that *)
(* is about a film star and not relevant any more, an amended one with the *)
(* first title and a tracked link, one of the window's last instant, one   *)
(* without id and link, two known by the first digits of their links, one  *)
(* with a broken time, and three of overlapping titles over 17 half hours. *)
(* Baidu topics: one, one of another title under its link, another such,   *)
(* the first one under a new link, one as hot as that of                   *)
(* tests/fixtures/baidu, and an unrelated one.                             *)
EXTENDS Collection, TLC

CONSTANTS Nothing, Unreadable, Broken, u1, u2, u3, u4, u5, u6, u7, t1, t2, t3, t4, t5, s1, s2

Link(page, digits) == [page |-> page, digits |-> digits, tracked |-> FALSE]
Words(finance, fun, about) == [finance |-> finance, fun |-> fun, about |-> about]

Cls(id, title, text, link, time, words) ==
  [id |-> id, title |-> title, text |-> text, link |-> link, time |-> time, words |-> words]

News    == Cls(1, t1, s1, Link(u1, 1), 2, Words(1, 0, {"policy", "sector"}))
Edited  == Cls(1, t2, s1, Link(u1, 1), 2, Words(0, 1, {}))
Amended == Cls(1, t1, s2, [Link(u1, 1) EXCEPT !.tracked = TRUE], 2, Words(1, 0, {"policy"}))
Latest  == Cls(2, t4, s1, Link(u4, 2), 15, Words(0, 0, {}))
NoId    == Cls(Nothing, Nothing, t3, Nothing, 1, Words(2, 0, {"risk"}))
Linked  == Cls(Nothing, t1, s1, Link(u6, 3), 2, Words(1, 0, {}))
Alias   == Cls(Nothing, t3, s2, Link(u7, 3), 2, Words(1, 0, {}))
BadTime == Cls(3, t3, s1, Link(u6, 3), Broken, Words(1, 0, {}))

(* That in the middle is within six hours of each of the others, which are *)
(* further apart.                                                          *)
Story(id, title, time) == Cls(id, title, s1, Nothing, time, Words(0, 0, {}))
Growing == <<Story(4, t5, -8), Story(5, t2, 2), Story(6, t1, 9)>>
Fading  == <<Story(4, t1, -8), Story(5, t2, 2), Story(6, t5, 9)>>

Baidu(title, link, number, unit, tag, words) ==
  [title |-> title, text |-> Nothing, link |-> link,
   hot |-> [number |-> number, unit |-> unit], tag |-> tag, words |-> words]

Topic   == Baidu(t2, Link(u2, Nothing), 900, 10000, "finance", Words(1, 0, {"sector"}))
Renamed == Baidu(t4, Link(u2, Nothing), 900, 10000, "none", Words(2, 0, {"risk"}))
Reused  == Baidu(t1, Link(u2, Nothing), 900, 10000, "none", Words(2, 0, {}))
Moved   == Baidu(t2, Link(u3, Nothing), 900, 10000, "finance", Words(1, 0, {"sector"}))
Hot     == Baidu(t4, Nothing, 9000000, 1, "none", Words(3, 0, {}))
Gossip  == Baidu(t3, Link(u5, Nothing), 100, 1, "fun", Words(0, 2, {}))

Page(data) == [data |-> data, cards |-> <<>>]
Cards(rows) == [data |-> <<Baidu(Nothing, Nothing, 0, 1, "none", Words(0, 0, {}))>>, cards |-> rows]
Batch(cls, baidu, now) == [cls |-> cls, baidu |-> baidu, now |-> now]

SomeAlike   == {{t1, t3}, {t2, t4}, {t3, t4}}
SomeOverlapping == {{t1, t2}, {t2, t5}}
SomeLength  == t1 :> 30 @@ t2 :> 20 @@ t3 :> 20 @@ t4 :> 20 @@ t5 :> 10
SomeBatches == {Batch(Growing, Page(<<>>), 14), Batch(Fading, Page(<<>>), 14),
                Batch(Unreadable, Unreadable, 14), Batch(Unreadable, Cards(<<Hot>>), 14),
                Batch(<<News>>, Unreadable, 14), Batch(<<Amended>>, Page(<<>>), 14),
                Batch(<<Edited, NoId>>, Page(<<>>), 14), Batch(<<News, NoId>>, Page(<<Topic>>), 16),
                Batch(<<NoId>>, Page(<<Topic>>), 2), Batch(<<News, Latest, NoId>>, Page(<<Gossip>>), 14),
                Batch(<<>>, Page(<<Topic, Renamed>>), 14), Batch(<<>>, Page(<<Renamed, Moved>>), 14),
                Batch(<<>>, Page(<<Reused, Moved>>), 14), Batch(<<Linked, Alias>>, Page(<<>>), 14),
                Batch(<<BadTime>>, Page(<<Topic>>), 14)}

(* A process whose clock shows UTC, with the zone of Shanghai configured.  *)
UTC == -16

ASSUME ApartAssumption == PlatformsApart

WorkerSymmetry == Permutations(Workers)

=============================================================================
