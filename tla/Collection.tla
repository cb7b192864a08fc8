------------------------------ MODULE Collection ------------------------------
(***************************************************************************)
(* The collection pipeline for one report date (app/services/              *)
(* collection_pipeline.py): normalise what the collectors fetched, remove  *)
(* duplicates, upsert the items into raw_items, cluster the relevant ones  *)
(* and replace the date's event_clusters.  Every run is one READ COMMITTED *)
(* transaction, and the runs of overlapping report flows interleave.       *)
(*                                                                         *)
(* Abstractions.  An item is what Intake makes of a fetched row.  How much *)
(* the words of two titles overlap is given by the constants Alike and     *)
(* Overlapping.  Importance and sub-categories are left out, and so are    *)
(* the columns that hold the filter's verdict, a function of the others.   *)
(* The rows one run writes are looked up, and then locked, in one step     *)
(* each: a deadlock of two runs is broken by the database and is one more  *)
(* Abort.                                                                  *)
(***************************************************************************)
EXTENDS Intake, FiniteSets, FiniteSetsExt

CONSTANTS
  Batches,  \* what one collection may fetch, and when: [cls, baidu, now]
  Alike,    \* pairs {t, u} of different titles whose words overlap by 0.78 or more
  Overlapping, \* those whose words overlap by 0.72 or more, and less than that
  TitleLength, \* the length of each title
  Workers,  \* threads that run a collection
  MaxRuns,  \* bound on the collections ever started
  HeatLimit \* the first heat event_clusters.heat_score cannot hold

ASSUME CollectionAssumption == MaxRuns \in Nat /\ HeatLimit \in Nat /\ Skew \in Int

(* What every fetched row says of itself.                                  *)
WordsOK(words) == words.finance \in Nat /\ words.fun \in Nat

ASSUME BatchesAssumption ==
  \A batch \in Batches :
    /\ batch.now \in Int
    /\ batch.cls # Failing =>
         /\ batch.cls \in Seq(ToSet(batch.cls))
         /\ \A r \in ToSet(batch.cls) :
              WordsOK(r.words) /\ (r.time \notin {NULL, Malformed} => r.time \in Int)
    /\ batch.baidu # Failing => \A rows \in {batch.baidu.data, batch.baidu.cards} :
         /\ rows \in Seq(ToSet(rows))
         /\ \A r \in ToSet(rows) : WordsOK(r.words) /\ r.tag \in {"finance", "fun", "none"}

VARIABLES
  rawItems,   \* committed rows of raw_items
  clusters,   \* committed rows of event_clusters of the date, with their sources
  coll,       \* coll[w]: the collection of worker w and its open transaction
  begun,      \* number of collections started
  overlap,    \* pairs of collections that were open at the same time (history)
  mixed       \* ids of the rows last updated from an outdated reading (history)

collVars == <<rawItems, clusters, coll, begun, overlap, mixed>>

(* no: the run's number.  fetched: the items collected.  kept: those       *)
(* without the duplicates.  read: the rows found.  entries: the row of     *)
(* each item as it was upserted.  written: the rows inserted or updated.   *)
(* old: the clusters found for the date.  own: the new ones.               *)
Closed == [pc |-> "closed", no |-> 0, fetched |-> <<>>, kept |-> <<>>, read |-> {},
           entries |-> <<>>, written |-> {}, old |-> {}, own |-> {}]

CollectionInit ==
  /\ rawItems = {} /\ clusters = {} /\ overlap = {} /\ mixed = {}
  /\ coll = [w \in Workers |-> Closed]
  /\ begun = 0

-----------------------------------------------------------------------------
(* Duplicates among the collected items *)

KeysWithoutUrl(x) ==
  {<<"hash", x.hash>>} \cup {k \in {<<"ext", x.ext>>} : x.ext # NULL}

DedupKeys(x) ==
  {<<"hash", x.hash>>} \cup {k \in {<<"ext", x.ext>>} : x.ext # NULL}
                       \cup {k \in {<<"url", x.url>>} : x.url # NULL}

(* deduplicate_items: an item with a key of a kept one is dropped.         *)
Deduplicate(batch) ==
  LET Add(kept, x) == IF \E y \in ToSet(kept) : DedupKeys(x) \cap DedupKeys(y) # {}
                      THEN kept ELSE Append(kept, x)
  IN  FoldLeft(Add, <<>>, batch)

-----------------------------------------------------------------------------
(* Upsert into raw_items *)

(* find_existing: by external id, else by URL, else by content hash; of    *)
(* several rows the database returns any one.                              *)
Existing(rows, x) ==
  LET byExt == {r \in rows : x.ext # NULL /\ r.ext = x.ext}
      byUrl == {r \in rows : x.url # NULL /\ r.url = x.url}
  IN  IF byExt # {} THEN byExt
      ELSE IF byUrl # {} THEN byUrl
      ELSE {r \in rows : r.hash = x.hash}

(* An update writes every column but the platform and the external id.     *)
RowOf(rows, x, newId) ==
  LET found == Existing(rows, x)
      old   == CHOOSE r \in found : TRUE
      fresh == [f \in DOMAIN x \cup {"id"} |-> IF f = "id" THEN newId ELSE x[f]]
  IN  IF found = {} THEN fresh
      ELSE [fresh EXCEPT !.id = old.id, !.platform = old.platform, !.ext = old.ext]

Put(rows, r) == {q \in rows : q.id # r.id} \cup {r}

(* The rows as the run sees them, and its entries, item by item.           *)
Upserted(rows, kept, no) ==
  LET Upsert(acc, x) ==
        LET r == RowOf(acc.rows, x, <<no, Len(acc.entries) + 1>>)
        IN  [rows |-> Put(acc.rows, r), entries |-> Append(acc.entries, r)]
  IN  FoldLeft(Upsert, [rows |-> rows, entries |-> <<>>], kept)

IdsOf(rows) == {r.id : r \in rows}

(* Mutant: an UPDATE of one column.                                        *)
TitleMerged(c, r, q) == [q EXCEPT !.title = r.title]

(* The UPDATEs of row r by collection c, applied to what the row has       *)
(* become: only the columns that c has changed are set.                    *)
Merged(c, r, q) ==
  LET mine == {e \in ToSet(c.entries) : e.id = r.id}
      was  == CHOOSE p \in c.read : p.id = r.id
  IN  [f \in DOMAIN q |-> IF \E e \in mine : e[f] # was[f] THEN r[f] ELSE q[f]]

-----------------------------------------------------------------------------
(* Clusters *)

(* title_item: a CLS item before others, then the hottest, then that with  *)
(* the longest title, and of several the first.                            *)
TitleItem(c) ==
  LET Cls(x) == x.platform = "cls"
      Ahead(x, y) ==
        \/ Cls(x) /\ ~Cls(y)
        \/ Cls(x) = Cls(y) /\ x.heat > y.heat
        \/ /\ Cls(x) = Cls(y) /\ x.heat = y.heat
           /\ TitleLength[x.title] > TitleLength[y.title]
      best == {i \in DOMAIN c : \A j \in DOMAIN c : ~Ahead(c[j], c[i])}
  IN  c[CHOOSE i \in best : \A j \in best : i <= j]

(* is_time_close: not more than six hours apart                            *)
TimeClose(x, y) == x.at - y.at \in -12..12

(* Two items that are of one event whatever else its cluster holds.        *)
Similar(x, y) ==
  \/ x.url # NULL /\ x.url = y.url
  \/ x.title = y.title
  \/ {x.title, y.title} \in Alike

(* is_same_event, of the cluster c and the item x: like one of its         *)
(* members, or with words of one of them and close in time to the item     *)
(* that now stands for the cluster.                                        *)
SameEvent(c, x) ==
  \/ \E y \in ToSet(c) : Similar(x, y)
  \/ /\ \E y \in ToSet(c) : {x.title, y.title} \in Overlapping
     /\ TimeClose(x, TitleItem(c))

(* Mutant: in the order of collection.                                     *)
AsCollected(entries) == entries

(* sorted by time, stable *)
ByTime(entries) ==
  LET Insert(seq, x) ==
        LET later(y) == y.at > x.at
            i == SelectInSeq(seq, later)
        IN  IF i = 0 THEN Append(seq, x) ELSE InsertAt(seq, i, x)
  IN  FoldLeft(Insert, <<>>, entries)

(* cluster_items: each item joins the first cluster of its event, or        *)
(* founds a new one.                                                        *)
ClusterItems(entries) ==
  LET Join(seq, x) ==
        LET attracts(c) == SameEvent(c, x)
            i == SelectInSeq(seq, attracts)
        IN  IF i = 0 THEN Append(seq, <<x>>) ELSE [seq EXCEPT ![i] = Append(@, x)]
  IN  FoldLeft(Join, <<>>, ByTime(entries))

(* The event key is a hash of the date, of the first URL (or the title)    *)
(* and of the members' ids.                                                *)
EventKey(c) ==
  LET linked(r) == r.url # NULL
      i == SelectInSeq(c, linked)
  IN  [ids |-> {r.id : r \in ToSet(c)},
       seed |-> IF i = 0 THEN TitleItem(c).title ELSE c[i].url]

(* The items of the window that are finance related.                       *)
Relevant(entries) ==
  Filtered(entries, {r \in ToSet(entries) : InWindow(r.at) /\ Related(r)})

NewClusters(no, entries) ==
  {[by |-> no, key |-> EventKey(c), members |-> c, category |-> Category(TitleItem(c)),
    heat |-> Max({r.heat : r \in ToSet(c)})] : c \in ToSet(ClusterItems(Relevant(entries)))}

-----------------------------------------------------------------------------
(* The pipeline *)

Open(w) == coll[w].pc # "closed"

OthersOf(w) == {coll[v] : v \in {u \in Workers \ {w} : Open(u)}}

Close(w) == coll' = [coll EXCEPT ![w] = Closed]

RowsTouched(up) == {r \in up.rows : r.id \in IdsOf(ToSet(up.entries))}

(* Collect, normalise, deduplicate, and look every item up in raw_items.   *)
(* A collection that cannot be normalised leaves no trace.                 *)
Look(w, batch) ==
  LET no     == begun + 1
      intake == IntakeOf(batch, batch.now)
      kept   == Deduplicate(intake.items)
      up     == Upserted(rawItems, kept, no)
  IN  /\ ~Open(w) /\ begun < MaxRuns
      /\ begun' = no
      /\ IF intake.raised THEN UNCHANGED overlap
         ELSE overlap' = overlap \cup {{no, c.no} : c \in OthersOf(w)}
      /\ IF intake.raised THEN UNCHANGED coll
         ELSE coll' = [coll EXCEPT ![w] = [Closed EXCEPT !.pc = "write", !.no = no,
                                                    !.fetched = intake.items, !.kept = kept,
                                                    !.read = rawItems,
                                                    !.entries = up.entries,
                                                    !.written = RowsTouched(up)]]
      /\ UNCHANGED <<rawItems, clusters, mixed>>

Inserted(c) == {r \in c.written : r.id[1] = c.no}

HoldsRows(c) == c.pc \in {"list", "replace", "commit"}

(* The rows of c must wait for those another open run has written: the     *)
(* same row, or a new row with the same external id.                       *)
RowsFree(w) ==
  \A c \in OthersOf(w) : HoldsRows(c) =>
    /\ IdsOf(c.written) \cap IdsOf(coll[w].written) = {}
    /\ \A r \in Inserted(c), q \in Inserted(coll[w]) : r.ext # NULL => r.ext # q.ext

(* Mutant: a table without the unique constraint.                          *)
AnyExtFree(w) == w \in Workers

(* uk_raw_items_source_platform_external_id                                *)
ExtFree(w) ==
  \A r \in Inserted(coll[w]), q \in rawItems : r.ext # NULL => r.ext # q.ext

(* The UPDATEs and INSERTs, and those of the filter's verdict.             *)
Write(w) ==
  /\ coll[w].pc = "write" /\ RowsFree(w)
  /\ IF ExtFree(w) THEN coll' = [coll EXCEPT ![w].pc = "list"] ELSE Close(w)
  /\ UNCHANGED <<rawItems, clusters, begun, overlap, mixed>>

(* Mutant: the clusters of the date are not looked for.                    *)
ListNone(w) ==
  /\ coll[w].pc = "list"
  /\ coll' = [coll EXCEPT ![w].pc = "replace", ![w].own = NewClusters(coll[w].no, coll[w].entries)]
  /\ UNCHANGED <<rawItems, clusters, begun, overlap, mixed>>

(* list_ids_by_date: the clusters to be deleted.                           *)
ListOld(w) ==
  /\ coll[w].pc = "list"
  /\ coll' = [coll EXCEPT ![w].pc = "replace", ![w].old = clusters,
                          ![w].own = NewClusters(coll[w].no, coll[w].entries)]
  /\ UNCHANGED <<rawItems, clusters, begun, overlap, mixed>>

KeysOf(cs) == {c.key : c \in cs}

(* A row that was found for two items cannot be a source of one cluster    *)
(* twice (uk_event_sources_cluster_id_raw_item_id).                        *)
SourcesUnique(cs) == \A c \in cs : Cardinality(IdsOf(ToSet(c.members))) = Len(c.members)

(* heat_score is numeric(6, 2).                                            *)
HeatsFit(cs) == \A c \in cs : c.heat < HeatLimit

(* clear_for_date and create.  The DELETE waits for another run's DELETE   *)
(* of the same clusters, the INSERT for another run's of the same event    *)
(* key; when that one has committed, the DELETE goes on without the rows   *)
(* and the INSERT fails.                                                   *)
Replace(w) ==
  LET c == coll[w]
  IN  /\ c.pc = "replace"
      /\ \A d \in OthersOf(w) : d.pc = "commit" =>
           d.old \cap c.old = {} /\ KeysOf(d.own) \cap KeysOf(c.own) = {}
      /\ IF /\ KeysOf(c.own) \cap KeysOf(clusters \ c.old) = {}
            /\ SourcesUnique(c.own) /\ HeatsFit(c.own)
         THEN coll' = [coll EXCEPT ![w].pc = "commit"] ELSE Close(w)
      /\ UNCHANGED <<rawItems, clusters, begun, overlap, mixed>>

(* The rows that c updates and that others have changed since it read them. *)
Outdated(c) == {q.id : q \in {q \in rawItems : q.id \in IdsOf(c.written) /\ q \notin c.read}}

CommitRun(w) ==
  LET c == coll[w]
      Updated(q) == Merged(c, CHOOSE r \in c.written : r.id = q.id, q)
  IN  /\ c.pc = "commit"
      /\ rawItems' = {IF q.id \in IdsOf(c.written) THEN Updated(q) ELSE q : q \in rawItems}
                     \cup Inserted(c)
      /\ clusters' = (clusters \ c.old) \cup c.own
      /\ mixed' = (mixed \ IdsOf(c.written)) \cup Outdated(c)
      /\ Close(w)
      /\ UNCHANGED <<begun, overlap>>

(* Any other exception: the session is rolled back.                        *)
Abort(w) == Open(w) /\ Close(w) /\ UNCHANGED <<rawItems, clusters, begun, overlap, mixed>>

Quiet == begun = MaxRuns /\ (\A w \in Workers : ~Open(w)) /\ UNCHANGED collVars

CollectionNext ==
  \/ \E w \in Workers : \/ \E batch \in Batches : Look(w, batch)
                        \/ Write(w) \/ ListOld(w) \/ Replace(w) \/ CommitRun(w) \/ Abort(w)
  \/ Quiet

CollectionSpec == CollectionInit /\ [][CollectionNext]_collVars

-----------------------------------------------------------------------------
(* Properties *)

Items == UNION {ToSet(IntakeOf(batch, batch.now).items) : batch \in Batches}

(* Every column of a row was that of an item, no two rows have one id or    *)
(* hold one external id, and a cluster's sources are rows that exist.      *)
CollectionTypeOK ==
  /\ \A r \in rawItems, f \in {"ext", "url", "hash", "title", "at", "heat"} :
       \E x \in Items : r[f] = x[f]
  /\ \A r, q \in rawItems : r.id = q.id \/ (r.ext # NULL /\ r.ext = q.ext) => r = q
  /\ \A c \in clusters : c.key.ids \subseteq {r.id : r \in rawItems}

(* The clusters of a date are those of its last collection: clusters of    *)
(* two collections stand side by side only if these ran at the same time.  *)
ReplacedUnlessOverlapping ==
  \A c, d \in clusters : c.by = d.by \/ {c.by, d.by} \in overlap

(* Deduplication loses nothing: an item is dropped only for a kept one it  *)
(* shares its hash, its URL or its external id with, and no two kept items *)
(* share one: one collection never updates a row it has just inserted      *)
(* because of the same link or id.                                         *)
SameKey(x, y) ==
  \/ x.hash = y.hash
  \/ x.ext # NULL /\ x.ext = y.ext
  \/ x.url # NULL /\ x.url = y.url

DuplicatesDropped ==
  \A w \in Workers : LET kept == coll[w].kept IN
    /\ \A i, j \in DOMAIN kept : i # j => ~SameKey(kept[i], kept[j])
    /\ \A i \in DOMAIN coll[w].fetched : \E j \in DOMAIN kept :
         SameKey(coll[w].fetched[i], kept[j])

(* Every cluster is about one event: each member but the first is the same *)
(* event as the cluster of those before it.  And its first member is news: *)
(* it is not the same event as another cluster of the collection, as that  *)
(* cluster stood when the member's turn came, with all members of earlier  *)
(* times, none of later times, and those of the same time up to some one.  *)
Before(members, k, time) ==
  /\ \A i \in 1..k : members[i].at <= time
  /\ \A i \in (k+1)..Len(members) : members[i].at >= time

ClustersAreEvents ==
  \A c \in clusters :
    /\ \A i \in 2..Len(c.members) : SameEvent(SubSeq(c.members, 1, i - 1), c.members[i])
    /\ \A d \in clusters \ {c} : d.by = c.by =>
         \E k \in 0..Len(d.members) :
           /\ Before(d.members, k, c.members[1].at)
           /\ ~SameEvent(SubSeq(d.members, 1, k), c.members[1])

(* No item of one platform has the id, the link or the content of one of   *)
(* another.  (An upsert that finds such a row leaves its platform, and the *)
(* rules then judge the item by it.)                                       *)
PlatformsApart == \A x, y \in Items : SameKey(x, y) => x.platform = y.platform

(* News that was fetched is lost in two ways only.  Newsworthy is what was  *)
(* published (or, without a time of its own, collected) in the report's    *)
(* window, its two ends included, has no word of entertainment, and is     *)
(* from CLS or a Baidu topic about finance.  When its collection is to be  *)
(* committed, it is in one of its clusters under the values it was fetched *)
(* with, whatever row was found for it; or it was dropped for an item      *)
(* fetched before it that was kept and has its content, its link or its    *)
(* external id (which need not be the same news where ids are digits of    *)
(* links: OnlyRepeatsDropped); or it has no time of its own and the clock  *)
(* it was collected by, not that of the configured zone, was outside of    *)
(* the window (TopicsOnTime).                                              *)
Instant(x) == IF x.dated THEN x.at ELSE x.at - Skew

Newsworthy(x) ==
  /\ -12 <= Instant(x) /\ Instant(x) <= 15
  /\ x.words.fun = 0 /\ x.tag # "fun"
  /\ x.platform = "baidu" => x.words.finance >= IF x.tag = "finance" THEN 1 ELSE 2

InCluster(c, j) ==
  \E d \in c.own : \E r \in ToSet(d.members) :
    /\ r.id = c.entries[j].id
    /\ \A f \in {"title", "url", "hash", "at"} : r[f] = c.kept[j][f]

Misdated(x) == ~x.dated /\ (x.at < -12 \/ x.at > 15)

NewsCollected ==
  \A w \in Workers : LET c == coll[w] IN c.pc = "commit" =>
    \A i \in DOMAIN c.fetched : LET x == c.fetched[i] IN Newsworthy(x) =>
      \/ \E j \in DOMAIN c.kept : c.kept[j] = x /\ InCluster(c, j)
      \/ \E m \in 1..(i-1) : c.fetched[m] \in ToSet(c.kept) /\ SameKey(x, c.fetched[m])
      \/ Misdated(x)

(* A row is one collected item, and no mixture of two, unless the last     *)
(* collection that updated it had read it before another one changed it:   *)
(* one whose row was current when it committed leaves one item, also of a  *)
(* row that was a mixture.  And no row is mixed before two have overlapped. *)
RowsAreItems ==
  /\ \A r \in rawItems : r.id \notin mixed =>
       \E x \in Items : \A f \in {"url", "hash", "title", "at", "heat"} : r[f] = x[f]
  /\ mixed # {} => overlap # {}

(* DB_DESIGN.md:58, refuted: a row is content that was fetched.  Of two    *)
(* collections that update one row, the second sets only the columns it    *)
(* has changed, so that the row gets the title of one and the time of the  *)
(* other.                                                                  *)
RowsWhole ==
  \A r \in rawItems : \E x \in Items :
    \A f \in {"url", "hash", "title", "at", "heat"} : r[f] = x[f]

(* test_clusterer.py:37, refuted: topics with a heat of millions become    *)
(* clusters.  The column holds less than ten thousand, so that one such    *)
(* topic fails every collection of the date.                               *)
HotTopicsStored == \A w \in Workers : coll[w].pc = "replace" => HeatsFit(coll[w].own)

(* TASK_BREAKDOWN.md:101, refuted: content is stored once.  News without   *)
(* an id or a URL is protected by a look-up only, so that two overlapping  *)
(* collections both insert it.                                             *)
ContentStoredOnce == \A r, q \in rawItems : r.hash = q.hash => r = q

(* TASK_BREAKDOWN.md:111, refuted: repeated content is aggregated.  Two    *)
(* items that differ in every key may update one row, the first by its     *)
(* URL and the second by its id; if they are of one event, the collection  *)
(* fails, and so does every repetition of it.                              *)
RepeatsAggregated ==
  \A w \in Workers : coll[w].pc = "replace" => SourcesUnique(coll[w].own)

(* TECH_DESIGN.md:330, refuted: the failure of one platform does not stop  *)
(* the whole.  Only fetching is guarded: one time that cannot be parsed    *)
(* ends the collection of every platform, before any row is written.       *)
PlatformsIndependent == [][begun' > begun => \E w \in Workers : coll'[w].no = begun']_collVars

(* PRD:49, refuted: the report of 08:00 has the hot topics about finance.  *)
(* A topic has no time of its own, so that it counts from when it was      *)
(* collected, and the window ends before the job of 08:00 collects.        *)
HotTopicsReported ==
  \A w \in Workers : coll[w].pc = "commit" =>
    \A i \in DOMAIN coll[w].entries : LET r == coll[w].entries[i] IN
      r.platform = "baidu" /\ Related(r) => \E c \in coll[w].own : r \in ToSet(c.members)

(* TECH_DESIGN.md:322, refuted: all times are those of Asia/Shanghai.  The *)
(* time of a collection is read from the process's clock, which shows UTC  *)
(* in the image that is built, and is then taken for one of the zone: a    *)
(* topic collected in the first hours of the window is dated before it.    *)
TopicsOnTime ==
  \A w \in Workers : \A i \in DOMAIN coll[w].fetched :
    Newsworthy(coll[w].fetched[i]) => ~Misdated(coll[w].fetched[i])

(* TASK_BREAKDOWN.md:101, refuted: only repetitions are dropped.  News     *)
(* without an id is known by the first digits in its link, which may be    *)
(* those of the host or of the day.                                        *)
OnlyRepeatsDropped ==
  \A w \in Workers : \A i \in DOMAIN coll[w].fetched : \E y \in ToSet(coll[w].kept) :
    LET x == coll[w].fetched[i]
    IN  x.hash = y.hash \/ x.title = y.title \/ (x.url # NULL /\ x.url = y.url)

=============================================================================
