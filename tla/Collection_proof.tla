--------------------------- MODULE Collection_proof ---------------------------
(***************************************************************************)
(* Proofs about Collection, for any workers, batches and number of         *)
(* collections.                                                            *)
(*                                                                         *)
(* Whose clusters a date has (CInv) depends only on when a collection      *)
(* reads and writes.  What is in its rows and clusters (DInv) depends on   *)
(* what a collection fetches and makes of it: the functions that filter,   *)
(* deduplicate, upsert, sort and cluster are folds over sequences, and     *)
(* each is an instance of FoldTheory.                                      *)
(***************************************************************************)
EXTENDS Collection, TLAPS, SequenceTheorems

-----------------------------------------------------------------------------
(* Whose clusters a date has *)

(* The collection of w has listed the clusters it replaces.                *)
Listed(w) == coll[w].pc \in {"replace", "commit"}

(* Any two open collections know of each other.                            *)
Beside ==
  \A w, v \in Workers : w # v /\ Open(w) /\ Open(v) => {coll[w].no, coll[v].no} \in overlap

(* What has been committed since the list was made is of a collection that *)
(* ran beside this one.                                                    *)
ListOK(w) ==
  /\ \A c \in coll[w].own : c.by = coll[w].no
  /\ \A c \in clusters \ coll[w].old : {coll[w].no, c.by} \in overlap

(* x has the fields of a collection.                                       *)
Shaped(x) ==
  x \in [pc : {x.pc}, no : {x.no}, fetched : {x.fetched}, kept : {x.kept}, read : {x.read},
         entries : {x.entries}, written : {x.written}, old : {x.old}, own : {x.own}]

CInv ==
  /\ DOMAIN coll = Workers
  /\ \A w \in Workers : Shaped(coll[w])
  /\ Beside
  /\ \A w \in Workers : Listed(w) => ListOK(w)
  /\ ReplacedUnlessOverlapping

(* At the start there is nothing that could be replaced.                   *)
LEMMA CollectionInitOK == CollectionInit => CInv
BY DEF CollectionInit, CInv, Beside, Listed, Open, Closed, Shaped, ReplacedUnlessOverlapping

(* A step that only moves one collection on, or ends it.                   *)
LEMMA Moves ==
  ASSUME CInv, NEW w \in Workers, UNCHANGED <<clusters, overlap>>,
         NEW x, Shaped(x), coll' = [coll EXCEPT ![w] = x],
         x.pc # "closed" => Open(w) /\ x.no = coll[w].no,
         x.pc \in {"replace", "commit"} =>
           /\ \A c \in x.own : c.by = x.no
           /\ \A c \in clusters \ x.old : {x.no, c.by} \in overlap
  PROVE  CInv'
<1>1. coll'[w] = x /\ (\A v \in Workers : v # w => coll'[v] = coll[v]) /\ DOMAIN coll' = Workers
  BY DEF CInv
<1>2. Beside'
  BY <1>1 DEF CInv, Beside, Open
<1>3. \A v \in Workers : Listed(v)' => ListOK(v)'
  BY <1>1 DEF CInv, Listed, ListOK
<1>4. ReplacedUnlessOverlapping'
  BY DEF CInv, ReplacedUnlessOverlapping
<1>5. \A v \in Workers : Shaped(coll'[v])
  BY <1>1 DEF CInv
<1>6. QED
  BY <1>1, <1>2, <1>3, <1>4, <1>5 DEF CInv

(* A collection that ends without a commit leaves the clusters alone.      *)
LEMMA CloseKeeps ==
  ASSUME CInv, NEW w \in Workers, Close(w), UNCHANGED <<clusters, overlap>>
  PROVE  CInv'
<1>1. Closed.pc = "closed" /\ Shaped(Closed)
  BY DEF Closed, Shaped
<1>2. QED
  BY <1>1, Moves DEF Close

(* A new collection learns of every open one.                              *)
LEMMA LookKeeps ==
  ASSUME CInv, NEW w \in Workers, NEW batch \in Batches, Look(w, batch)
  PROVE  CInv'
<1> DEFINE no == begun + 1
<1>1. CASE UNCHANGED <<clusters, coll, overlap>>
  BY <1>1 DEF CInv, Beside, Listed, ListOK, Open, ReplacedUnlessOverlapping
<1>2. ASSUME NEW x, Shaped(x), coll' = [coll EXCEPT ![w] = x], x.pc = "write", x.no = no,
             overlap' = overlap \cup {{no, c.no} : c \in OthersOf(w)}, clusters' = clusters
      PROVE  CInv'
  <2> HIDE DEF no
  <2>1. coll'[w] = x /\ (\A v \in Workers : v # w => coll'[v] = coll[v]) /\ DOMAIN coll' = Workers
    BY <1>2 DEF CInv
  <2>2. \A v \in Workers : v # w /\ Open(v) => {no, coll[v].no} \in overlap'
    BY <1>2 DEF OthersOf
  <2>3. \A a, b : {a, b} = {b, a}
    OBVIOUS
  <2>4. Beside'
    <3> SUFFICES ASSUME NEW v \in Workers, NEW u \in Workers, v # u, Open(v)', Open(u)'
                 PROVE  {coll'[v].no, coll'[u].no} \in overlap'
      BY DEF Beside
    <3>1. CASE v = w
      BY <1>2, <2>1, <2>2, <3>1 DEF Open
    <3>2. CASE u = w
      BY <1>2, <2>1, <2>2, <2>3, <3>2 DEF Open
    <3>3. CASE v # w /\ u # w
      BY <1>2, <2>1, <3>3 DEF Open, CInv, Beside
    <3>4. QED
      BY <3>1, <3>2, <3>3
  <2>5. \A v \in Workers : Listed(v)' => ListOK(v)'
    BY <1>2, <2>1 DEF CInv, Listed, ListOK
  <2>6. ReplacedUnlessOverlapping'
    BY <1>2 DEF CInv, ReplacedUnlessOverlapping
  <2>7. \A v \in Workers : Shaped(coll'[v])
    BY <1>2, <2>1 DEF CInv
  <2>8. QED
    BY <2>1, <2>4, <2>5, <2>6, <2>7 DEF CInv
<1>3. QED
  <2> DEFINE intake == IntakeOf(batch, batch.now)
             kept == Deduplicate(intake.items)
             up == Upserted(rawItems, kept, no)
             x == [Closed EXCEPT !.pc = "write", !.no = no, !.fetched = intake.items,
                                 !.kept = kept, !.read = rawItems, !.entries = up.entries,
                                 !.written = RowsTouched(up)]
  <2>1. \/ UNCHANGED <<clusters, coll, overlap>>
        \/ /\ coll' = [coll EXCEPT ![w] = x] /\ clusters' = clusters
           /\ overlap' = overlap \cup {{no, c.no} : c \in OthersOf(w)}
    BY DEF Look
  <2> HIDE DEF no, intake, kept, up
  <2>2. x.pc = "write" /\ x.no = no /\ Shaped(x)
    BY DEF Closed, Shaped
  <2> HIDE DEF x
  <2>3. QED
    BY <1>1, <1>2, <2>1, <2>2 DEF no

(* The clusters that a collection makes are its own.                       *)
LEMMA NewOwn ==
  ASSUME NEW no, NEW entries, NEW c \in NewClusters(no, entries)
  PROVE  c.by = no
<1> DEFINE S == ToSet(ClusterItems(Relevant(entries)))
           Heat(m) == Max({r.heat : r \in ToSet(m)})
<1>1. NewClusters(no, entries) =
        {[by |-> no, key |-> EventKey(m), members |-> m, category |-> Category(TitleItem(m)),
          heat |-> Heat(m)] : m \in S}
  BY DEF NewClusters
<1> HIDE DEF S, Heat
<1>2. PICK m \in S : c = [by |-> no, key |-> EventKey(m), members |-> m,
                          category |-> Category(TitleItem(m)), heat |-> Heat(m)]
  BY <1>1
<1>3. QED
  BY <1>2

(* Fields that do not matter are left or set.                              *)
LEMMA StageKeeps ==
  ASSUME CInv, NEW w \in Workers, UNCHANGED <<clusters, overlap>>, Open(w),
         NEW pc, coll' = [coll EXCEPT ![w].pc = pc],
         pc \in {"replace", "commit"} => Listed(w)
  PROVE  CInv'
<1> DEFINE x == [coll[w] EXCEPT !.pc = pc]
<1>1. coll' = [coll EXCEPT ![w] = x]
  BY DEF CInv
<1>2. /\ Shaped(x) /\ x.pc = pc /\ x.no = coll[w].no
      /\ x.own = coll[w].own /\ x.old = coll[w].old
  BY DEF CInv, Shaped
<1> HIDE DEF x
<1>3. QED
  BY <1>1, <1>2, Moves DEF CInv, ListOK

(* Listed now, nothing has been committed since.                           *)
LEMMA ListKeeps ==
  ASSUME CInv, NEW w \in Workers, ListOld(w)
  PROVE  CInv'
<1> DEFINE new == NewClusters(coll[w].no, coll[w].entries)
           x == [coll[w] EXCEPT !.pc = "replace", !.old = clusters, !.own = new]
<1>1. coll' = [coll EXCEPT ![w] = x] /\ UNCHANGED <<clusters, overlap>>
  BY DEF ListOld, CInv
<1>2. \A c \in new : c.by = coll[w].no
  BY NewOwn
<1>3. Open(w)
  BY DEF ListOld, Open
<1> HIDE DEF new
<1>4. x.no = coll[w].no /\ x.own = new /\ x.old = clusters /\ x.pc = "replace" /\ Shaped(x)
  BY DEF CInv, Shaped
<1> HIDE DEF x
<1>5. QED
  BY <1>1, <1>2, <1>3, <1>4, Moves

(* The clusters that remain beside the new ones are of collections that    *)
(* ran beside this one.                                                    *)
LEMMA CommitKeeps ==
  ASSUME CInv, NEW w \in Workers, CommitRun(w)
  PROVE  CInv'
<1> DEFINE c == coll[w]
<1>1. /\ clusters' = (clusters \ c.old) \cup c.own /\ overlap' = overlap
      /\ coll' = [coll EXCEPT ![w] = Closed] /\ Listed(w) /\ Open(w)
  BY DEF CommitRun, Close, Listed, Open
<1>2. coll'[w] = Closed /\ (\A v \in Workers : v # w => coll'[v] = coll[v]) /\ DOMAIN coll' = Workers
  BY <1>1 DEF CInv
<1>3. Closed.pc = "closed" /\ Shaped(Closed)
  BY DEF Closed, Shaped
<1>4. /\ \A d \in c.own : d.by = c.no
      /\ \A d \in clusters \ c.old : {c.no, d.by} \in overlap
  BY <1>1 DEF CInv, ListOK
<1>5. Beside' /\ \A v \in Workers : Shaped(coll'[v])
  BY <1>1, <1>2, <1>3 DEF CInv, Beside, Open
<1> HIDE DEF c
<1>6. \A a, b : {a, b} = {b, a}
  OBVIOUS
<1>7. ReplacedUnlessOverlapping'
  <2> SUFFICES ASSUME NEW d \in clusters', NEW e \in clusters'
               PROVE  d.by = e.by \/ {d.by, e.by} \in overlap
    BY <1>1 DEF ReplacedUnlessOverlapping
  <2>1. CASE d \in clusters \ c.old /\ e \in clusters \ c.old
    BY <2>1 DEF CInv, ReplacedUnlessOverlapping
  <2>2. CASE d \in c.own /\ e \in c.own
    BY <1>4, <2>2
  <2>3. CASE d \in c.own /\ e \in clusters \ c.old
    BY <1>4, <2>3
  <2>4. CASE d \in clusters \ c.old /\ e \in c.own
    BY <1>4, <1>6, <2>4
  <2>5. QED
    BY <1>1, <2>1, <2>2, <2>3, <2>4
<1>8. ASSUME NEW v \in Workers, Listed(v)'
      PROVE  ListOK(v)'
  <2>1. v # w /\ Listed(v) /\ Open(v)
    BY <1>2, <1>3, <1>8 DEF Listed, Open
  <2>2. coll'[v] = coll[v] /\ {coll[v].no, c.no} \in overlap
    BY <1>1, <1>2, <2>1 DEF CInv, Beside, c
  <2>3. ListOK(v)
    BY <2>1 DEF CInv
  <2>4. ASSUME NEW d \in clusters' \ coll[v].old
        PROVE  {coll[v].no, d.by} \in overlap
    BY <1>1, <1>4, <2>2, <2>3 DEF ListOK
  <2>5. QED
    BY <1>1, <2>2, <2>3, <2>4 DEF ListOK
<1>9. QED
  BY <1>2, <1>5, <1>7, <1>8 DEF CInv

(* Every step keeps the invariant.                                         *)
LEMMA CollectionNextOK == CInv /\ [CollectionNext]_collVars => CInv'
<1> SUFFICES ASSUME CInv, [CollectionNext]_collVars PROVE CInv'
  OBVIOUS
<1>1. ASSUME NEW w \in Workers, Write(w)
      PROVE  CInv'
  <2>1. /\ Open(w) /\ UNCHANGED <<clusters, overlap>>
        /\ coll' = [coll EXCEPT ![w].pc = "list"] \/ Close(w)
    BY <1>1 DEF Write, Open
  <2>2. QED
    BY <2>1, StageKeeps, CloseKeeps
<1>2. ASSUME NEW w \in Workers, Replace(w)
      PROVE  CInv'
  <2>1. /\ Open(w) /\ Listed(w) /\ UNCHANGED <<clusters, overlap>>
        /\ coll' = [coll EXCEPT ![w].pc = "commit"] \/ Close(w)
    BY <1>2 DEF Replace, Open, Listed
  <2>2. QED
    BY <2>1, StageKeeps, CloseKeeps
<1>3. ASSUME NEW w \in Workers, Abort(w)
      PROVE  CInv'
  BY <1>3, CloseKeeps DEF Abort
<1>4. CASE UNCHANGED collVars
  BY <1>4 DEF collVars, CInv, Beside, Listed, ListOK, Open, ReplacedUnlessOverlapping
<1>5. QED
  BY <1>1, <1>2, <1>3, <1>4, LookKeeps, ListKeeps, CommitKeeps DEF CollectionNext, Quiet

(* A date has the clusters of two collections only if these ran at the     *)
(* same time: each one deletes what it finds before it inserts its own.    *)
THEOREM ClustersReplaced == CollectionSpec => []ReplacedUnlessOverlapping
<1>1. CInv => ReplacedUnlessOverlapping
  BY DEF CInv
<1>2. QED
  BY <1>1, CollectionInitOK, CollectionNextOK, PTL DEF CollectionSpec

-----------------------------------------------------------------------------
(* Filters *)

(* The operator that Filtered folds.                                       *)
AppendIf(good, kept, x) == IF x \in good THEN Append(kept, x) ELSE kept

Filter == INSTANCE FoldTheory WITH Op <- AppendIf

(* Filtered keeps what is good, in its order.                              *)
LEMMA FilteredKeeps ==
  ASSUME NEW S, NEW seq \in Seq(S), NEW good
  PROVE  Filter!FilteredTo(Filtered(seq, good), seq, Len(seq), good, S)
<1>1. Filtered(seq, good) = Filter!Fold(good, <<>>, seq)
  BY DEF Filtered, FoldLeft, MapThenFoldSet, Filter!Fold, Filter!Iterates, Filter!Greatest,
         Max, AppendIf
<1>2. Filter!AppendsGood(good)
  BY DEF Filter!AppendsGood, AppendIf
<1>3. QED
  BY <1>1, <1>2, Filter!FilterKeeps

(* The elements of a filtered sequence, and their type.                    *)
LEMMA FilteredElements ==
  ASSUME NEW S, NEW seq \in Seq(S), NEW good
  PROVE  /\ Filtered(seq, good) \in Seq(S)
         /\ \A x : x \in ToSet(Filtered(seq, good)) <=> x \in good /\ x \in ToSet(seq)
<1> DEFINE q == Filtered(seq, good)
<1>1. Filter!FilteredTo(q, seq, Len(seq), good, S) /\ DOMAIN seq = 1..Len(seq)
  BY FilteredKeeps
<1> HIDE DEF q
<1>2. q \in Seq(S)
  BY <1>1 DEF Filter!FilteredTo
<1>3. ASSUME NEW x \in ToSet(q)
      PROVE  x \in good /\ x \in ToSet(seq)
  BY <1>1, <1>3 DEF Filter!FilteredTo, ToSet
<1>4. ASSUME NEW x \in ToSet(seq), x \in good
      PROVE  x \in ToSet(q)
  BY <1>1, <1>4 DEF Filter!FilteredTo, ToSet
<1>5. QED
  BY <1>2, <1>3, <1>4 DEF q

-----------------------------------------------------------------------------
(* What is collected *)

(* The fields of a collected item, and their values.                       *)
ItemFields ==
  {"platform", "ext", "url", "title", "hash", "at", "dated", "heat", "tag", "words"}

ItemOK(x) ==
  /\ DOMAIN x = ItemFields
  /\ x.platform \in {"cls", "baidu"} /\ x.at \in Int
  /\ x.tag \in {"finance", "fun", "none"} /\ (x.platform = "cls" => x.tag = "none")
  /\ WordsOK(x.words)

(* An item before it is normalised.                                        *)
RawOK(x) ==
  /\ x.platform \in {"cls", "baidu"}
  /\ x.published \notin {NULL, Malformed} => x.published \in Int
  /\ x.collected \in Int
  /\ x.tag \in {"finance", "fun", "none"} /\ (x.platform = "cls" => x.tag = "none")
  /\ WordsOK(x.words)

(* What is collected from CLS.                                             *)
LEMMA ClsRows ==
  ASSUME NEW batch \in Batches
  PROVE  LET cls == ClsCollected(batch.cls, batch.now)
         IN  cls \in Seq(ToSet(cls)) /\ \A i \in DOMAIN cls : RawOK(cls[i])
<1> DEFINE page == batch.cls
           says == {r \in ToSet(page) : r.title # NULL \/ r.text # NULL}
           rows == IF page = Failing THEN <<>> ELSE Filtered(page, says)
           cls  == [i \in DOMAIN rows |-> ClsItem(rows[i], batch.now)]
<1>1. ClsCollected(page, batch.now) = cls
  BY DEF ClsCollected
<1>2. /\ batch.now \in Int
      /\ page # Failing =>
         /\ page \in Seq(ToSet(page))
         /\ \A r \in ToSet(page) :
              WordsOK(r.words) /\ (r.time \notin {NULL, Malformed} => r.time \in Int)
  BY BatchesAssumption
<1> HIDE DEF page, says
<1>3. \E n \in Nat : DOMAIN rows = 1..n
  <2>1. CASE page = Failing
    BY <2>1
  <2>2. CASE page # Failing
    BY <1>2, <2>2, FilteredElements
  <2>3. QED
    BY <2>1, <2>2
<1>4. ASSUME NEW i \in DOMAIN rows
      PROVE  WordsOK(rows[i].words) /\ (rows[i].time \notin {NULL, Malformed} => rows[i].time \in Int)
  <2>1. page # Failing /\ rows = Filtered(page, says)
    BY <1>4
  <2>2. rows[i] \in ToSet(rows)
    BY DEF ToSet
  <2>3. rows[i] \in ToSet(page)
    BY <1>2, <2>1, <2>2, FilteredElements
  <2>4. QED
    BY <1>2, <2>1, <2>3
<1> HIDE DEF rows
<1>5. \A i \in DOMAIN cls : RawOK(cls[i])
  BY <1>2, <1>4, CollectionAssumption DEF RawOK, ClsItem, LocalTime
<1>6. cls \in Seq(ToSet(cls))
  BY <1>3 DEF ToSet
<1>7. QED
  BY <1>1, <1>5, <1>6 DEF page

(* What is collected from Baidu.                                           *)
LEMMA BaiduRows ==
  ASSUME NEW batch \in Batches
  PROVE  LET baidu == BaiduCollected(batch.baidu, batch.now)
         IN  baidu \in Seq(ToSet(baidu)) /\ \A i \in DOMAIN baidu : RawOK(baidu[i])
<1> DEFINE page == batch.baidu
           titled(rows) == {r \in ToSet(rows) : r.title # NULL}
           data == Filtered(page.data, titled(page.data))
           cards == Filtered(page.cards, titled(page.cards))
           rows == IF data # <<>> THEN data ELSE cards
           baidu == IF page = Failing THEN <<>>
                    ELSE [i \in DOMAIN rows |-> BaiduItem(rows[i], batch.now)]
<1>1. BaiduCollected(page, batch.now) = baidu
  BY DEF BaiduCollected
<1>2. CASE page = Failing
  BY <1>1, <1>2
<1>3. CASE page # Failing
  <2>1. /\ batch.now \in Int
        /\ \A q \in {page.data, page.cards} :
             /\ q \in Seq(ToSet(q))
             /\ \A r \in ToSet(q) : WordsOK(r.words) /\ r.tag \in {"finance", "fun", "none"}
    BY <1>3, BatchesAssumption
  <2>2. \A q \in {page.data, page.cards} :
           /\ Filtered(q, titled(q)) \in Seq(ToSet(q))
           /\ ToSet(Filtered(q, titled(q))) \subseteq ToSet(q)
    BY <2>1, FilteredElements
  <2> HIDE DEF titled, page
  <2>3. PICK q \in {page.data, page.cards} : rows \in Seq(ToSet(q)) /\ ToSet(rows) \subseteq ToSet(q)
    BY <2>2
  <2> HIDE DEF rows
  <2>4. \E n \in Nat : DOMAIN rows = 1..n
    BY <2>3
  <2>5. \A i \in DOMAIN rows : WordsOK(rows[i].words) /\ rows[i].tag \in {"finance", "fun", "none"}
    BY <2>1, <2>3 DEF ToSet
  <2>6. baidu = [i \in DOMAIN rows |-> BaiduItem(rows[i], batch.now)]
    BY <1>3
  <2> HIDE DEF baidu
  <2>7. \A i \in DOMAIN baidu : RawOK(baidu[i])
    BY <2>1, <2>5, <2>6, CollectionAssumption DEF RawOK, BaiduItem, LocalTime
  <2>8. baidu \in Seq(ToSet(baidu))
    BY <2>4, <2>6 DEF ToSet
  <2>9. QED
    BY <1>1, <2>7, <2>8 DEF page
<1>4. QED
  BY <1>2, <1>3

(* Normalising gives an item all its fields.                               *)
LEMMA NormalizedOK ==
  ASSUME NEW x, RawOK(x), ~Raises(x)
  PROVE  ItemOK(Normalized(x))
BY DEF RawOK, Raises, Normalized, ItemOK, ItemFields, First

(* Every item that is collected has its fields, and they are a sequence.   *)
LEMMA IntakeOK ==
  ASSUME NEW batch \in Batches
  PROVE  LET items == IntakeOf(batch, batch.now).items
         IN  items \in Seq(ToSet(items)) /\ \A x \in ToSet(items) : ItemOK(x)
<1> DEFINE cls == ClsCollected(batch.cls, batch.now)
           baidu == BaiduCollected(batch.baidu, batch.now)
           raw == cls \o baidu
           items == IntakeOf(batch, batch.now).items
<1>1. /\ cls \in Seq(ToSet(cls)) /\ \A i \in DOMAIN cls : RawOK(cls[i])
      /\ baidu \in Seq(ToSet(baidu)) /\ \A i \in DOMAIN baidu : RawOK(baidu[i])
  BY ClsRows, BaiduRows
<1> DEFINE R == {x \in ToSet(cls) \cup ToSet(baidu) : RawOK(x)}
<1>2. items = <<>> \/ (items = [i \in DOMAIN raw |-> Normalized(raw[i])]
                       /\ \A i \in DOMAIN raw : ~Raises(raw[i]))
  BY DEF IntakeOf
<1> HIDE DEF cls, baidu, items
<1>3. cls \in Seq(R) /\ baidu \in Seq(R)
  BY <1>1 DEF ToSet
<1>4. raw \in Seq(R) /\ \A x \in R : RawOK(x)
  BY <1>3
<1> HIDE DEF raw, R
<1>5. DOMAIN raw = 1..Len(raw) /\ Len(raw) \in Nat /\ \A i \in DOMAIN raw : RawOK(raw[i])
  BY <1>4
<1>6. CASE items = <<>>
  BY <1>6 DEF items, ToSet
<1>7. CASE items # <<>>
  <2>1. items = [i \in DOMAIN raw |-> Normalized(raw[i])] /\ \A i \in DOMAIN raw : ~Raises(raw[i])
    BY <1>2, <1>7
  <2>2. \A i \in DOMAIN items : ItemOK(items[i])
    BY <1>5, <2>1, NormalizedOK
  <2>3. items \in Seq(ToSet(items)) /\ \A x \in ToSet(items) : ItemOK(x)
    BY <1>5, <2>1, <2>2 DEF ToSet
  <2>4. QED
    BY <2>3 DEF items
<1>8. QED
  BY <1>6, <1>7

(* All items are well formed.                                              *)
LEMMA ItemsOK == \A x \in Items : ItemOK(x)
BY IntakeOK DEF Items

(* What a collection fetches are items.                                    *)
LEMMA FetchedItems ==
  ASSUME NEW batch \in Batches
  PROVE  IntakeOf(batch, batch.now).items \in Seq(Items)
<1> DEFINE items == IntakeOf(batch, batch.now).items
<1>1. items \in Seq(ToSet(items)) /\ ToSet(items) \subseteq Items
  BY IntakeOK DEF Items
<1> HIDE DEF items
<1>2. items \in Seq(Items)
  BY <1>1
<1>3. QED
  BY <1>2 DEF items

-----------------------------------------------------------------------------
(* Duplicates *)

(* The operator that Deduplicate folds.                                    *)
AddNew(ctx, kept, x) ==
  IF \E y \in ToSet(kept) : DedupKeys(x) \cap DedupKeys(y) # {} THEN kept ELSE Append(kept, x)

Dedup == INSTANCE FoldTheory WITH Op <- AddNew

(* Two items have a common key just if they have one hash, id or URL.      *)
LEMMA KeysShared == \A x, y : DedupKeys(x) \cap DedupKeys(y) # {} <=> SameKey(x, y)
<1> TAKE x, y
<1>1. SameKey(x, y) => DedupKeys(x) \cap DedupKeys(y) # {}
  <2>1. CASE x.hash = y.hash
    <3>1. <<"hash", x.hash>> \in DedupKeys(x) \cap DedupKeys(y)
      BY <2>1 DEF DedupKeys
    <3>2. QED
      BY <3>1
  <2>2. CASE x.ext # NULL /\ x.ext = y.ext
    <3>1. <<"ext", x.ext>> \in DedupKeys(x) \cap DedupKeys(y)
      BY <2>2 DEF DedupKeys
    <3>2. QED
      BY <3>1
  <2>3. CASE x.url # NULL /\ x.url = y.url
    <3>1. <<"url", x.url>> \in DedupKeys(x) \cap DedupKeys(y)
      BY <2>3 DEF DedupKeys
    <3>2. QED
      BY <3>1
  <2>4. QED
    BY <2>1, <2>2, <2>3 DEF SameKey
<1>2. ASSUME NEW key \in DedupKeys(x) \cap DedupKeys(y)
      PROVE  SameKey(x, y)
  <2>1. \/ key = <<"hash", x.hash>>
        \/ key = <<"ext", x.ext>> /\ x.ext # NULL
        \/ key = <<"url", x.url>> /\ x.url # NULL
    BY DEF DedupKeys
  <2>2. key = <<"hash", y.hash>> \/ key = <<"ext", y.ext>> \/ key = <<"url", y.url>>
    BY DEF DedupKeys
  <2>3. QED
    BY <2>1, <2>2 DEF SameKey
<1>3. QED
  BY <1>1, <1>2

(* kept is a selection of the first n items without duplicates: one for    *)
(* every item, which is the item itself or comes before it.                *)
Distinct(kept) == \A i, j \in DOMAIN kept : i # j => ~SameKey(kept[i], kept[j])

Covers(kept, items, n) ==
  \A i \in 1..n : \E m \in 1..i : items[m] \in ToSet(kept) /\ SameKey(items[i], items[m])

(* Whether two items have a key in common does not depend on their order.  *)
LEMMA SameKeySymmetric == \A x, y : SameKey(x, y) <=> SameKey(y, x)
BY DEF SameKey

(* Deduplicate keeps no two items with one key, and one for every item.    *)
LEMMA Deduplicated ==
  ASSUME NEW S, NEW items \in Seq(S)
  PROVE  LET kept == Deduplicate(items)
         IN  kept \in Seq(S) /\ Distinct(kept) /\ Covers(kept, items, Len(items))
<1> DEFINE n == Len(items)
           FromFirst(q, k) == \A j \in DOMAIN q : \E m \in 1..k : q[j] = items[m]
           Holds(q, k) == q \in Seq(S) /\ Distinct(q) /\ FromFirst(q, k) /\ Covers(q, items, k)
<1>1. Deduplicate(items) = Dedup!Fold(NULL, <<>>, items)
  BY DEF Deduplicate, FoldLeft, MapThenFoldSet, Dedup!Fold, Dedup!Iterates, Dedup!Greatest,
         Max, AddNew
<1>2. n \in Nat /\ DOMAIN items = 1..n /\ \A i \in 1..n : items[i] \in S
  OBVIOUS
<1> HIDE DEF n
<1>3. PICK h : Dedup!Runs(h, NULL, <<>>, items, n) /\ Dedup!Fold(NULL, <<>>, items) = h[n]
  BY <1>2, Dedup!FoldSteps
<1>4. h[0] = <<>> /\ \A k \in 1..n : h[k] = AddNew(NULL, h[k-1], items[k])
  BY <1>3 DEF Dedup!Runs
<1> DEFINE A == {k \in Nat : Holds(h[k], k)}
<1>5. 0 \in A
  <2>1. Holds(<<>>, 0)
    BY DEF Distinct, Covers, ToSet
  <2> HIDE DEF Holds
  <2>2. QED
    BY <1>4, <2>1
<1>6. ASSUME NEW k \in 1..n, k - 1 \in A
      PROVE  k \in A
  <2> DEFINE q == h[k-1]
             x == items[k]
  <2>1. Holds(q, k-1) /\ x \in S /\ k \in Nat
    BY <1>2, <1>6
  <2>2. h[k] = IF \E y \in ToSet(q) : SameKey(x, y) THEN q ELSE Append(q, x)
    BY <1>4, KeysShared DEF AddNew
  <2> HIDE DEF q, x
  <2>3. \A i \in 1..k : i \in 1..(k-1) \/ i = k
    OBVIOUS
  <2>4. CASE \E y \in ToSet(q) : SameKey(x, y)
    <3>1. FromFirst(q, k) /\ Covers(q, items, k)
      <4>1. PICK m \in 1..(k-1) : items[m] \in ToSet(q) /\ SameKey(x, items[m])
        BY <2>1, <2>4 DEF ToSet
      <4>2. \A j \in 1..(k-1) : j \in 1..k
        OBVIOUS
      <4>3. FromFirst(q, k)
        BY <2>1, <4>2
      <4>4. Covers(q, items, k)
        BY <2>1, <2>3, <4>1, <4>2 DEF Covers, x
      <4>5. QED
        BY <4>3, <4>4
    <3>2. Holds(q, k)
      BY <2>1, <3>1
    <3> HIDE DEF Holds
    <3>3. QED
      BY <2>1, <2>2, <2>4, <3>2
  <2>5. CASE ~\E y \in ToSet(q) : SameKey(x, y)
    <3> DEFINE m == Len(q)
               p == Append(q, x)
    <3>1. /\ m \in Nat /\ DOMAIN q = 1..m /\ DOMAIN p = 1..(m+1)
          /\ p \in Seq(S) /\ p[m+1] = x /\ \A i \in 1..m : p[i] = q[i]
      BY <2>1
    <3> HIDE DEF m, p
    <3>2. (\A i \in 1..(m+1) : i \in 1..m \/ i = m+1) /\ (\A i \in 1..m : i \in 1..(m+1))
          /\ m+1 \in 1..(m+1)
      BY <3>1
    <3>3. \A i \in 1..m : ~SameKey(x, q[i]) /\ ~SameKey(q[i], x)
      BY <2>5, <3>1, SameKeySymmetric DEF ToSet
    <3>4. Distinct(p)
      <4> SUFFICES ASSUME NEW i \in 1..(m+1), NEW j \in 1..(m+1), i # j
                   PROVE  ~SameKey(p[i], p[j])
        BY <3>1 DEF Distinct
      <4>1. CASE i \in 1..m /\ j \in 1..m
        BY <2>1, <3>1, <4>1 DEF Distinct
      <4>2. CASE i = m+1 /\ j \in 1..m
        BY <3>1, <3>3, <4>2
      <4>3. CASE i \in 1..m /\ j = m+1
        BY <3>1, <3>3, <4>3
      <4>4. QED
        BY <3>2, <4>1, <4>2, <4>3
    <3>5. FromFirst(p, k) /\ Covers(p, items, k)
      <4>1. k \in 1..k /\ \A j \in 1..(k-1) : j \in 1..k
        BY <2>1
      <4>2. FromFirst(p, k)
        BY <2>1, <3>1, <3>2, <4>1 DEF x
      <4>3. (\A y \in ToSet(q) : y \in ToSet(p)) /\ x \in ToSet(p)
        BY <3>1, <3>2 DEF ToSet
      <4>4. SameKey(x, x)
        BY DEF SameKey
      <4>5. Covers(p, items, k)
        <5> SUFFICES ASSUME NEW i \in 1..k
                     PROVE  \E n0 \in 1..i : items[n0] \in ToSet(p) /\ SameKey(items[i], items[n0])
          BY DEF Covers
        <5>1. CASE i \in 1..(k-1)
          BY <2>1, <4>3, <5>1 DEF Covers
        <5>2. CASE i = k
          BY <4>1, <4>3, <4>4, <5>2 DEF x
        <5>3. QED
          BY <2>3, <5>1, <5>2
      <4>6. QED
        BY <4>2, <4>5
    <3>6. Holds(p, k)
      BY <3>1, <3>4, <3>5
    <3> HIDE DEF Holds
    <3>7. QED
      BY <2>1, <2>2, <2>5, <3>6 DEF p
  <2>6. QED
    BY <2>4, <2>5
<1> HIDE DEF A
<1>7. n \in A
  BY <1>2, <1>5, <1>6, Dedup!InductionTo
<1>8. Holds(h[n], n)
  BY <1>7 DEF A
<1>9. QED
  BY <1>1, <1>3, <1>8 DEF n

-----------------------------------------------------------------------------
(* Rows *)

(* The columns of raw_items.                                               *)
RowFields == ItemFields \cup {"id"}

(* What an upsert writes.                                                  *)
Copied == {"url", "hash", "title", "at", "heat", "tag", "words"}

(* Every column of a row was that of an item, and of its platform's if the *)
(* platforms are apart.                                                    *)
RowOK(r) ==
  /\ DOMAIN r = RowFields
  /\ \A f \in Copied \cup {"ext"} :
       \E x \in Items : r[f] = x[f] /\ (PlatformsApart => x.platform = r.platform)

(* Ids and external ids are unique.                                        *)
Unique(rows) == \A r, q \in rows : r.id = q.id \/ (r.ext # NULL /\ r.ext = q.ext) => r = q

(* r is a row of rows, but for what an upsert writes.                      *)
KnownIn(r, rows) ==
  \E p \in rows : p.id = r.id /\ p.ext = r.ext /\ p.platform = r.platform

(* An id of the first k rows of collection no.                             *)
NewId(id, no, k) == \E m \in 1..k : id = <<no, m>>

(* e holds item x.                                                         *)
EntryOf(e, x) == (\A f \in Copied : e[f] = x[f]) /\ (PlatformsApart => e.platform = x.platform)

(* What find_existing finds are rows.                                      *)
LEMMA ExistingRows ==
  ASSUME NEW rows, NEW x
  PROVE  /\ Existing(rows, x) \subseteq rows
         /\ \A r \in Existing(rows, x) :
              \/ x.ext # NULL /\ r.ext = x.ext
              \/ x.url # NULL /\ r.url = x.url
              \/ r.hash = x.hash
         /\ Existing(rows, x) = {} => \A r \in rows : x.ext # NULL => r.ext # x.ext
BY DEF Existing

(* The row an item is upserted into: a new one, or one that was found,     *)
(* with the values of the item.                                            *)
LEMMA RowOfFields ==
  ASSUME NEW rows, NEW x \in Items, NEW newId, \A r \in rows : RowOK(r)
  PROVE  LET r == RowOf(rows, x, newId)
         IN  /\ RowOK(r) /\ EntryOf(r, x)
             /\ \/ \E old \in rows : r.id = old.id /\ r.ext = old.ext /\ r.platform = old.platform
                \/ /\ r.id = newId /\ r.ext = x.ext
                   /\ \A q \in rows : x.ext # NULL => q.ext # x.ext
<1> DEFINE found == Existing(rows, x)
           old   == CHOOSE r \in found : TRUE
           fresh == [f \in DOMAIN x \cup {"id"} |-> IF f = "id" THEN newId ELSE x[f]]
           r     == RowOf(rows, x, newId)
<1>1. r = IF found = {} THEN fresh
          ELSE [fresh EXCEPT !.id = old.id, !.platform = old.platform, !.ext = old.ext]
  BY DEF RowOf
<1> HIDE DEF r, found
<1>2. DOMAIN x = ItemFields
  BY ItemsOK DEF ItemOK
<1>3. /\ DOMAIN fresh = RowFields /\ fresh.id = newId
      /\ \A f \in ItemFields : fresh[f] = x[f]
  BY <1>2 DEF RowFields, ItemFields
<1> HIDE DEF fresh
<1>4. CASE found = {}
  <2>1. r = fresh
    BY <1>1, <1>4
  <2>2. DOMAIN r = RowFields /\ r.id = newId /\ \A f \in ItemFields : r[f] = x[f]
    BY <1>3, <2>1
  <2>3. RowOK(r)
    BY <2>2 DEF RowOK, Copied, ItemFields
  <2>4. EntryOf(r, x) /\ r.ext = x.ext
    BY <2>2 DEF EntryOf, Copied, ItemFields
  <2>5. \A q \in rows : x.ext # NULL => q.ext # x.ext
    BY <1>4, ExistingRows DEF found
  <2>6. QED
    BY <2>2, <2>3, <2>4, <2>5 DEF r
<1>5. CASE found # {}
  <2>1. old \in found
    BY <1>5
  <2>2. /\ old \in rows
        /\ \/ x.ext # NULL /\ old.ext = x.ext
           \/ x.url # NULL /\ old.url = x.url
           \/ old.hash = x.hash
    BY <2>1, ExistingRows DEF found
  <2> HIDE DEF old
  <2>3. r = [fresh EXCEPT !.id = old.id, !.platform = old.platform, !.ext = old.ext]
    BY <1>1, <1>5
  <2>4. /\ DOMAIN r = RowFields /\ r.id = old.id /\ r.ext = old.ext /\ r.platform = old.platform
        /\ \A f \in Copied : r[f] = x[f]
    BY <1>3, <2>3 DEF RowFields, ItemFields, Copied
  <2>5. RowOK(old)
    BY <2>2
  <2>6. PlatformsApart => old.platform = x.platform
    <3> SUFFICES ASSUME PlatformsApart PROVE old.platform = x.platform
      OBVIOUS
    <3>1. ASSUME NEW f \in {"ext", "url", "hash"}, old[f] = x[f], f # "hash" => x[f] # NULL
          PROVE  old.platform = x.platform
      <4>1. PICK y \in Items : old[f] = y[f] /\ y.platform = old.platform
        BY <2>5 DEF RowOK, Copied
      <4>2. x[f] = y[f]
        BY <3>1, <4>1
      <4>3. SameKey(x, y)
        BY <3>1, <4>2 DEF SameKey
      <4>4. QED
        BY <4>1, <4>3 DEF PlatformsApart
    <3>2. CASE x.ext # NULL /\ old.ext = x.ext
      BY <3>1, <3>2
    <3>3. CASE x.url # NULL /\ old.url = x.url
      BY <3>1, <3>3
    <3>4. CASE old.hash = x.hash
      BY <3>1, <3>4
    <3>5. QED
      BY <2>2, <3>2, <3>3, <3>4
  <2>7. EntryOf(r, x)
    BY <2>4, <2>6 DEF EntryOf
  <2>8. RowOK(r)
    <3>1. \A f \in Copied : \E y \in Items : r[f] = y[f] /\ (PlatformsApart => y.platform = r.platform)
      BY <2>4, <2>6
    <3>2. \E y \in Items : r["ext"] = y["ext"] /\ (PlatformsApart => y.platform = r.platform)
      BY <2>4, <2>5 DEF RowOK
    <3>3. QED
      BY <2>4, <3>1, <3>2 DEF RowOK
  <2>9. QED
    BY <2>2, <2>4, <2>7, <2>8 DEF r
<1>6. QED
  BY <1>4, <1>5

-----------------------------------------------------------------------------
(* Upserts *)

(* The operator that Upserted folds.                                       *)
UpsertOne(no, acc, x) ==
  LET r == RowOf(acc.rows, x, <<no, Len(acc.entries) + 1>>)
  IN  [rows |-> Put(acc.rows, r), entries |-> Append(acc.entries, r)]

Ups == INSTANCE FoldTheory WITH Op <- UpsertOne

(* What k upserts of collection no make of the rows read: every row that   *)
(* was written holds the values of the last item it was written for.       *)
UpsertedTo(rows, entries, k, read, kept, no) ==
  /\ entries \in Seq(ToSet(entries)) /\ Len(entries) = k
  /\ Unique(rows)
  /\ \A r \in rows : /\ RowOK(r) /\ (KnownIn(r, read) \/ NewId(r.id, no, k))
                     /\ r.id \in IdsOf(ToSet(entries)) => r \in ToSet(entries)
  /\ \A j \in 1..k : LET e == entries[j] IN
       /\ RowOK(e) /\ EntryOf(e, kept[j]) /\ (KnownIn(e, read) \/ NewId(e.id, no, k))
       /\ e.id \in IdsOf(rows)

(* One more upsert.                                                        *)
LEMMA UpsertStep ==
  ASSUME NEW read,
         NEW no, NEW kept \in Seq(Items), NEW k \in 1..Len(kept),
         NEW rows, NEW entries, UpsertedTo(rows, entries, k - 1, read, kept, no),
         NEW r, r = RowOf(rows, kept[k], <<no, k>>)
  PROVE  UpsertedTo(Put(rows, r), Append(entries, r), k, read, kept, no)
<1> DEFINE x == kept[k]
           Z == Put(rows, r)
           E == Append(entries, r)
<1>1. x \in Items /\ k \in Nat
  OBVIOUS
<1>2. /\ RowOK(r) /\ EntryOf(r, x)
      /\ \/ \E old \in rows : r.id = old.id /\ r.ext = old.ext /\ r.platform = old.platform
         \/ /\ r.id = <<no, k>> /\ r.ext = x.ext
            /\ \A q \in rows : x.ext # NULL => q.ext # x.ext
  BY <1>1, RowOfFields DEF UpsertedTo
<1>3. /\ entries \in Seq(ToSet(entries)) /\ Len(entries) = k - 1 /\ DOMAIN entries = 1..(k-1)
      /\ \A j \in 1..(k-1) : entries[j] \in ToSet(entries)
  BY DEF UpsertedTo, ToSet
<1>4. /\ E \in Seq(ToSet(E)) /\ Len(E) = k /\ DOMAIN E = 1..k /\ E[k] = r
      /\ (\A j \in 1..(k-1) : E[j] = entries[j]) /\ ToSet(E) = ToSet(entries) \cup {r}
  <2>1. entries \in Seq(ToSet(entries) \cup {r})
    BY <1>3
  <2>2. /\ E \in Seq(ToSet(entries) \cup {r}) /\ Len(E) = k /\ DOMAIN E = 1..k /\ E[k] = r
        /\ \A j \in 1..(k-1) : E[j] = entries[j]
    BY <1>3, <2>1
  <2> HIDE DEF E
  <2>3. k \in 1..k /\ \A j \in 1..k : j \in 1..(k-1) \/ j = k
    OBVIOUS
  <2>4. \A j \in 1..(k-1) : j \in 1..k
    OBVIOUS
  <2>5. ToSet(E) = ToSet(entries) \cup {r}
    BY <1>3, <2>2, <2>3, <2>4 DEF ToSet
  <2>6. QED
    BY <2>2, <2>5
<1>5. Z = {q \in rows : q.id # r.id} \cup {r}
  BY DEF Put
<1>6. \A id : NewId(id, no, k - 1) => NewId(id, no, k)
  BY DEF NewId
<1>7. /\ \A q \in rows : RowOK(q) /\ (KnownIn(q, read) \/ NewId(q.id, no, k - 1))
      /\ \A q \in rows : q.id \in IdsOf(ToSet(entries)) => q \in ToSet(entries)
      /\ Unique(rows)
  BY DEF UpsertedTo
<1>8. KnownIn(r, read) \/ NewId(r.id, no, k)
  <2>1. ASSUME NEW old \in rows, r.id = old.id, r.ext = old.ext, r.platform = old.platform
        PROVE  KnownIn(r, read) \/ NewId(r.id, no, k)
    BY <1>6, <1>7, <2>1 DEF KnownIn
  <2>2. CASE r.id = <<no, k>>
    BY <2>2 DEF NewId
  <2>3. QED
    BY <1>2, <2>1, <2>2
<1> HIDE DEF Z, E, x
<1>9. Unique(Z)
  <2> SUFFICES ASSUME NEW p \in Z, NEW q \in Z, p.id = q.id \/ (p.ext # NULL /\ p.ext = q.ext)
               PROVE  p = q
    BY DEF Unique
  <2>1. CASE p # r /\ q # r
    BY <1>5, <1>7, <2>1 DEF Unique
  <2>2. ASSUME NEW a \in rows, a.id # r.id, a.ext # NULL, a.ext = r.ext
        PROVE  FALSE
    BY <1>2, <1>7, <2>2 DEF Unique
  <2>3. CASE p = r /\ q # r
    BY <1>5, <2>2, <2>3
  <2>4. CASE p # r /\ q = r
    BY <1>5, <2>2, <2>4
  <2>5. QED
    BY <2>1, <2>3, <2>4
<1>10. ASSUME NEW q \in Z
       PROVE  /\ RowOK(q) /\ (KnownIn(q, read) \/ NewId(q.id, no, k))
              /\ q.id \in IdsOf(ToSet(E)) => q \in ToSet(E)
  <2>1. CASE q = r
    BY <1>2, <1>4, <1>8, <2>1
  <2>2. CASE q \in rows /\ q.id # r.id
    <3>1. RowOK(q) /\ (KnownIn(q, read) \/ NewId(q.id, no, k))
      BY <1>6, <1>7, <2>2
    <3>2. q.id \in IdsOf(ToSet(E)) => q.id \in IdsOf(ToSet(entries))
      BY <1>4, <2>2 DEF IdsOf
    <3>3. QED
      BY <1>4, <1>7, <2>2, <3>1, <3>2
  <2>3. QED
    BY <1>5, <2>1, <2>2
<1>11. ASSUME NEW j \in 1..k
       PROVE  /\ RowOK(E[j]) /\ EntryOf(E[j], kept[j])
              /\ KnownIn(E[j], read) \/ NewId(E[j].id, no, k)
              /\ E[j].id \in IdsOf(Z)
  <2>1. r.id \in IdsOf(Z)
    BY <1>5 DEF IdsOf
  <2>2. CASE j = k
    BY <1>2, <1>4, <1>8, <2>1, <2>2 DEF x
  <2>3. CASE j \in 1..(k-1)
    <3>1. /\ RowOK(entries[j]) /\ EntryOf(entries[j], kept[j])
          /\ KnownIn(entries[j], read) \/ NewId(entries[j].id, no, k - 1)
          /\ entries[j].id \in IdsOf(rows)
      BY <2>3 DEF UpsertedTo
    <3>2. \A id \in IdsOf(rows) : id \in IdsOf(Z)
      BY <1>5, <2>1 DEF IdsOf
    <3>3. QED
      BY <1>4, <1>6, <2>3, <3>1, <3>2
  <2>4. QED
    BY <2>2, <2>3
<1>12. UpsertedTo(Z, E, k, read, kept, no)
  BY <1>4, <1>9, <1>10, <1>11 DEF UpsertedTo
<1>13. QED
  BY <1>12 DEF Z, E

(* All the upserts of a collection.                                        *)
LEMMA UpsertedRows ==
  ASSUME NEW read, NEW no, \A p \in read : RowOK(p), Unique(read), NEW kept \in Seq(Items)
  PROVE  LET up == Upserted(read, kept, no)
         IN  UpsertedTo(up.rows, up.entries, Len(kept), read, kept, no)
<1> DEFINE n == Len(kept)
           base == [rows |-> read, entries |-> <<>>]
           Holds(up, k) == UpsertedTo(up.rows, up.entries, k, read, kept, no)
<1>1. Upserted(read, kept, no) = Ups!Fold(no, base, kept)
  BY DEF Upserted, FoldLeft, MapThenFoldSet, Ups!Fold, Ups!Iterates, Ups!Greatest, Max, UpsertOne
<1>2. n \in Nat /\ DOMAIN kept = 1..n
  OBVIOUS
<1> HIDE DEF n
<1>3. PICK h : Ups!Runs(h, no, base, kept, n) /\ Ups!Fold(no, base, kept) = h[n]
  BY <1>2, Ups!FoldSteps
<1>4. h[0] = base /\ \A k \in 1..n : h[k] = UpsertOne(no, h[k-1], kept[k])
  BY <1>3 DEF Ups!Runs
<1> DEFINE A == {k \in Nat : Holds(h[k], k)}
<1>5. 0 \in A
  <2>1. \A r \in read : KnownIn(r, read)
    BY DEF KnownIn
  <2>2. UpsertedTo(read, <<>>, 0, read, kept, no)
    BY <2>1 DEF UpsertedTo, ToSet, IdsOf
  <2>3. h[0].rows = read /\ h[0].entries = <<>>
    BY <1>4
  <2>4. QED
    BY <2>2, <2>3
<1>6. ASSUME NEW k \in 1..n, k - 1 \in A
      PROVE  k \in A
  <2> DEFINE acc == h[k-1]
             r == RowOf(acc.rows, kept[k], <<no, k>>)
  <2>1. Holds(acc, k-1) /\ k \in Nat
    BY <1>2, <1>6
  <2>2. Len(acc.entries) + 1 = k
    BY <2>1 DEF UpsertedTo
  <2>3. h[k] = [rows |-> Put(acc.rows, r), entries |-> Append(acc.entries, r)]
    BY <1>4, <2>2 DEF UpsertOne
  <2>4. h[k].rows = Put(acc.rows, r) /\ h[k].entries = Append(acc.entries, r)
    BY <2>3
  <2> HIDE DEF acc, r
  <2>5. UpsertedTo(Put(acc.rows, r), Append(acc.entries, r), k, read, kept, no)
    BY <2>1, UpsertStep DEF r, n
  <2>6. QED
    BY <2>1, <2>4, <2>5
<1> HIDE DEF A
<1>7. n \in A
  BY <1>2, <1>5, <1>6, Ups!InductionTo
<1>8. Holds(h[n], n)
  BY <1>7 DEF A
<1>9. QED
  BY <1>1, <1>3, <1>8 DEF n

-----------------------------------------------------------------------------
(* Sorting by time *)

(* The first index of a non-empty set is its least.                        *)
LEMMA MinIsLeast ==
  ASSUME NEW I \in SUBSET Nat, I # {}
  PROVE  Min(I) \in I /\ \A j \in I : Min(I) <= j
<1>1. \E i \in I : \A j \in I : i <= j
  BY Filter!LeastExists
<1>2. QED
  BY <1>1 DEF Min

(* The operator that ByTime folds.                                         *)
InsertByTime(ctx, seq, x) ==
  LET later(y) == y.at > x.at
      i == SelectInSeq(seq, later)
  IN  IF i = 0 THEN Append(seq, x) ELSE InsertAt(seq, i, x)

Sort == INSTANCE FoldTheory WITH Op <- InsertByTime

(* It inserts before the first item that is later.                         *)
LEMMA InsertByTimeOK ==
  ASSUME NEW S, \A x \in S : x.at \in Int
  PROVE  Sort!InsertsInOrder(NULL, S, [x \in S |-> x.at])
<1> DEFINE key == [x \in S |-> x.at]
<1> SUFFICES ASSUME NEW p \in Seq(S), NEW x \in S
             PROVE  LET q == InsertByTime(NULL, p, x)
                    IN  /\ q \in Seq(S)
                        /\ \E i \in 1..(Len(p)+1) :
                             /\ Sort!Inserts(q, p, i, x)
                             /\ \A j \in 1..(i-1) : key[p[j]] <= key[x]
                             /\ i <= Len(p) => key[x] <= key[p[i]]
  BY DEF Sort!InsertsInOrder
<1> DEFINE n == Len(p)
           q == InsertByTime(NULL, p, x)
           I == {i \in 1..n : p[i].at > x.at}
<1>1. n \in Nat /\ DOMAIN p = 1..n /\ \A j \in 1..n : p[j] \in S
  OBVIOUS
<1>2. q = IF (IF I # {} THEN Min(I) ELSE 0) = 0 THEN Append(p, x)
          ELSE InsertAt(p, IF I # {} THEN Min(I) ELSE 0, x)
  BY DEF InsertByTime, SelectInSeq
<1>3. \A j \in 1..n : p[j].at \in Int /\ key[p[j]] = p[j].at
  BY <1>1
<1>4. x.at \in Int /\ key[x] = x.at
  OBVIOUS
<1> HIDE DEF q, key
<1>5. CASE I = {}
  <2>1. \A j \in 1..n : key[p[j]] <= key[x]
    BY <1>3, <1>4, <1>5
  <2>2. q = Append(p, x)
    BY <1>2, <1>5
  <2>3. /\ q \in Seq(S) /\ Len(q) = n + 1 /\ q[n+1] = x
        /\ \A j \in 1..n : q[j] = p[j]
    BY <2>2
  <2>4. n + 1 \in 1..(n+1) /\ (n + 1) - 1 = n /\ ~(n + 1 <= n)
    BY <1>1
  <2>5. Sort!Inserts(q, p, n + 1, x)
    BY <1>1, <2>3, <2>4 DEF Sort!Inserts
  <2>6. QED
    BY <2>1, <2>3, <2>4, <2>5 DEF q
<1>6. CASE I # {}
  <2> DEFINE i == Min(I)
  <2>0. I \in SUBSET Nat
    BY <1>1
  <2> HIDE DEF I
  <2>1. i \in I /\ \A j \in I : i <= j
    BY <1>6, <2>0, MinIsLeast
  <2> HIDE DEF i
  <2>01. i \in 1..n /\ p[i].at > x.at
    BY <2>1 DEF I
  <2>02. \A j \in 1..(i-1) : j \in 1..n /\ ~(i <= j)
    BY <1>1, <2>01
  <2>2. i \in 1..n /\ p[i].at > x.at /\ \A j \in 1..(i-1) : j \in 1..n /\ j \notin I
    BY <2>1, <2>01, <2>02
  <2> USE DEF I
  <2>3. q = InsertAt(p, i, x)
    BY <1>1, <1>2, <1>6, <2>2 DEF i
  <2>4. \A j \in 1..(i-1) : key[p[j]] <= key[x]
    BY <1>3, <1>4, <2>2
  <2>5. key[x] <= key[p[i]]
    BY <1>3, <1>4, <2>2
  <2>6. i \in 1..(n+1)
    BY <1>1, <2>2
  <2> HIDE DEF I
  <2>7. q \in Seq(S) /\ Sort!Inserts(q, p, i, x)
    BY <2>3, <2>6, Sort!InsertAtInserts DEF InsertAt
  <2>8. QED
    BY <2>4, <2>5, <2>6, <2>7 DEF q
<1>7. QED
  BY <1>5, <1>6

(* ByTime orders the same items by time.                                   *)
LEMMA ByTimeSorts ==
  ASSUME NEW S, \A x \in S : x.at \in Int, NEW entries \in Seq(S)
  PROVE  LET q == ByTime(entries)
         IN  /\ q \in Seq(S) /\ ToSet(q) = ToSet(entries)
             /\ \A i, j \in DOMAIN q : i < j => q[i].at <= q[j].at
<1> DEFINE key == [x \in S |-> x.at]
           q == ByTime(entries)
<1>1. q = Sort!Fold(NULL, <<>>, entries)
  BY DEF ByTime, FoldLeft, MapThenFoldSet, Sort!Fold, Sort!Iterates, Sort!Greatest, Max, InsertByTime
<1>2. key \in [S -> Int] /\ Sort!InsertsInOrder(NULL, S, key)
  BY InsertByTimeOK
<1> HIDE DEF key
<1>3. Sort!SortedTo(Sort!Fold(NULL, <<>>, entries), entries, Len(entries), key, S)
  BY <1>2, Sort!InsertionSorts
<1>4. Sort!SortedTo(q, entries, Len(entries), key, S)
  BY <1>1, <1>3
<1> HIDE DEF q
<1>5. q \in Seq(S) /\ \A i, j \in DOMAIN q : i < j => key[q[i]] <= key[q[j]]
  BY <1>4 DEF Sort!SortedTo, Sort!Sorted
<1>6. DOMAIN entries = 1..Len(entries)
  OBVIOUS
<1>7. ToSet(q) = ToSet(entries)
  <2>0. /\ \A i \in DOMAIN q : \E j \in DOMAIN entries : q[i] = entries[j]
        /\ \A j \in DOMAIN entries : \E i \in DOMAIN q : q[i] = entries[j]
    BY <1>4, <1>6 DEF Sort!SortedTo
  <2>1. \A x \in ToSet(q) : x \in ToSet(entries)
    BY <2>0 DEF ToSet
  <2>2. \A x \in ToSet(entries) : x \in ToSet(q)
    BY <2>0 DEF ToSet
  <2>3. QED
    BY <2>1, <2>2
<1>8. \A i \in DOMAIN q : key[q[i]] = q[i].at
  BY <1>5 DEF key
<1>9. \A i, j \in DOMAIN q : i < j => q[i].at <= q[j].at
  BY <1>5, <1>8
<1>10. QED
  BY <1>5, <1>7, <1>9 DEF q

-----------------------------------------------------------------------------
(* Clusters *)

(* The operator that ClusterItems folds.                                   *)
JoinEvent(ctx, seq, x) ==
  LET attracts(c) == SameEvent(c, x)
      i == SelectInSeq(seq, attracts)
  IN  IF i = 0 THEN Append(seq, <<x>>) ELSE [seq EXCEPT ![i] = Append(@, x)]

Clustering == INSTANCE FoldTheory WITH Op <- JoinEvent

(* Sequences that agree on a prefix have that prefix.                      *)
LEMMA SamePrefix ==
  ASSUME NEW S, NEW c \in Seq(S), NEW d \in Seq(S),
         NEW k \in 0..Len(c), k <= Len(d), \A i \in 1..k : d[i] = c[i]
  PROVE  SubSeq(d, 1, k) = SubSeq(c, 1, k)
<1>1. k \in 0..Len(d)
  OBVIOUS
<1>2. SubSeq(d, 1, k) = Restrict(d, 1..k) /\ SubSeq(c, 1, k) = Restrict(c, 1..k)
  BY <1>1, SubSeqRestrict
<1>3. Restrict(d, 1..k) = Restrict(c, 1..k)
  BY <1>1 DEF Restrict
<1>4. QED
  BY <1>2, <1>3

(* Each but the first is the same event as those before it.                *)
Chain(c) == \A i \in 2..Len(c) : SameEvent(SubSeq(c, 1, i - 1), c[i])

(* The first of c is not the same event as d when its turn came.           *)
NewBeside(c, d) ==
  \E k \in 0..Len(d) : Before(d, k, c[1].at) /\ ~SameEvent(SubSeq(d, 1, k), c[1])

(* A cluster of the first k of the items s.                                *)
ClusterOf(c, s, k, S) ==
  c \in Seq(S) /\ c # <<>> /\ (\A y \in ToSet(c) : \E i \in 1..k : y = s[i]) /\ Chain(c)

(* The clusters of the first k of the items s: each item is in one.        *)
ClusteredTo(cs, s, k, S) ==
  /\ cs \in Seq(ToSet(cs))
  /\ \A c \in ToSet(cs) : ClusterOf(c, s, k, S)
  /\ \A i \in 1..k : \E c \in ToSet(cs) : s[i] \in ToSet(c)
  /\ \A i, j \in DOMAIN cs : i # j => NewBeside(cs[i], cs[j])

(* The items in order of time.                                             *)
Sorted(s, S) ==
  /\ s \in Seq(S) /\ \A x \in S : x.at \in Int
  /\ \A i, j \in DOMAIN s : i < j => s[i].at <= s[j].at

(* A cluster of the first items is one when there is another item.         *)
LEMMA ClusterOfLater ==
  ASSUME NEW s, NEW S, NEW k \in Nat, k # 0, NEW c, ClusterOf(c, s, k - 1, S)
  PROVE  ClusterOf(c, s, k, S)
<1>1. \A i \in 1..(k-1) : i \in 1..k
  OBVIOUS
<1>2. QED
  BY <1>1 DEF ClusterOf

(* The members of a cluster are of no later time than the next item.       *)
LEMMA MembersBefore ==
  ASSUME NEW S, NEW s, Sorted(s, S), NEW k \in 1..Len(s), NEW c, ClusterOf(c, s, k - 1, S)
  PROVE  /\ Len(c) \in Nat \ {0} /\ DOMAIN c = 1..Len(c)
         /\ \A i \in 1..Len(c) : c[i] \in S /\ c[i].at \in Int /\ c[i].at <= s[k].at
<1>1. /\ Len(c) \in Nat \ {0} /\ DOMAIN c = 1..Len(c) /\ \A i \in 1..Len(c) : c[i] \in S
  BY DEF ClusterOf
<1>2. ASSUME NEW i \in 1..Len(c)
      PROVE  c[i].at <= s[k].at
  <2>1. PICK j \in 1..(k-1) : c[i] = s[j]
    BY <1>1 DEF ClusterOf, ToSet
  <2>2. j \in DOMAIN s /\ k \in DOMAIN s /\ j < k
    BY DEF Sorted
  <2>3. QED
    BY <2>1, <2>2 DEF Sorted
<1>3. QED
  BY <1>1, <1>2 DEF Sorted

(* An item that is none of the events of the clusters founds one.          *)
LEMMA NewCluster ==
  ASSUME NEW S, NEW s, Sorted(s, S), NEW k \in 1..Len(s),
         NEW cs, ClusteredTo(cs, s, k - 1, S),
         \A c \in ToSet(cs) : ~SameEvent(c, s[k])
  PROVE  ClusteredTo(Append(cs, <<s[k]>>), s, k, S)
<1> DEFINE x == s[k]
           one == <<x>>
           n == Len(cs)
           ds == Append(cs, one)
<1>1. cs \in Seq(ToSet(cs)) /\ n \in Nat /\ DOMAIN cs = 1..n
  BY DEF ClusteredTo
<1>2. k \in Nat /\ k # 0 /\ k \in 1..k /\ x \in S /\ x.at \in Int
  BY DEF Sorted
<1>3. one \in Seq(S) /\ one # <<>> /\ Len(one) = 1 /\ one[1] = x /\ ToSet(one) = {x}
  BY <1>2 DEF ToSet
<1>4. cs \in Seq(ToSet(cs) \cup {one})
  BY <1>1
<1> HIDE DEF one
<1>5. /\ ds \in Seq(ToSet(cs) \cup {one}) /\ DOMAIN ds = 1..(n+1)
      /\ ds[n+1] = one /\ \A i \in 1..n : ds[i] = cs[i]
  BY <1>1, <1>4
<1> HIDE DEF ds, x
<1>6. ClusterOf(one, s, k, S)
  <2>1. Chain(one)
    BY <1>3 DEF Chain
  <2>2. QED
    BY <1>2, <1>3, <2>1 DEF ClusterOf, x
<1>7. /\ \A i \in 1..(n+1) : i \in 1..n \/ i = n+1
      /\ n+1 \in 1..(n+1) /\ \A i \in 1..n : i \in 1..(n+1)
  BY <1>1
<1>8. ToSet(ds) = ToSet(cs) \cup {one}
  BY <1>1, <1>5, <1>7 DEF ToSet
<1>9. \A c \in ToSet(ds) : ClusterOf(c, s, k, S)
  BY <1>2, <1>6, <1>8, ClusterOfLater DEF ClusteredTo
<1>10. \A i \in 1..k : \E c \in ToSet(ds) : s[i] \in ToSet(c)
  <2>1. \A i \in 1..k : i \in 1..(k-1) \/ i = k
    OBVIOUS
  <2>2. \A i \in 1..(k-1) : \E c \in ToSet(ds) : s[i] \in ToSet(c)
    BY <1>8 DEF ClusteredTo
  <2>3. QED
    BY <1>3, <1>8, <2>1, <2>2 DEF x
<1>11. ASSUME NEW c \in ToSet(cs)
       PROVE  NewBeside(one, c) /\ NewBeside(c, one)
  <2> DEFINE m == Len(c)
  <2>1. ClusterOf(c, s, k - 1, S) /\ ~SameEvent(c, x)
    BY DEF ClusteredTo, x
  <2>2. /\ m \in Nat \ {0} /\ c \in Seq(S)
        /\ \A i \in 1..m : c[i] \in S /\ c[i].at \in Int /\ c[i].at <= x.at
    BY <2>1, MembersBefore DEF ClusterOf, x
  <2>3. SubSeq(c, 1, m) = c
    BY <2>2, SubSeqFull
  <2> HIDE DEF m
  <2>4. NewBeside(one, c)
    <3>1. m \in 0..m /\ \A i \in (m+1)..m : FALSE
      BY <2>2
    <3>2. Before(c, m, x.at)
      BY <2>2, <3>1 DEF Before, m
    <3>3. QED
      BY <1>3, <2>1, <2>3, <3>1, <3>2 DEF NewBeside, m
  <2>5. NewBeside(c, one)
    <3>1. c[1].at \in Int /\ c[1].at <= x.at
      BY <2>2
    <3>2. Before(one, 0, c[1].at)
      BY <1>2, <1>3, <3>1 DEF Before
    <3>3. SubSeq(one, 1, 0) = <<>>
      BY SubSeqEmpty
    <3>4. ~SameEvent(<<>>, c[1])
      BY DEF SameEvent, ToSet
    <3>5. 0 \in 0..Len(one)
      BY <1>3
    <3>6. QED
      BY <3>2, <3>3, <3>4, <3>5 DEF NewBeside
  <2>6. QED
    BY <2>4, <2>5
<1>12. \A i, j \in 1..(n+1) : i # j => NewBeside(ds[i], ds[j])
  <2>1. \A i \in 1..n : ds[i] \in ToSet(cs)
    BY <1>1, <1>5 DEF ToSet
  <2>2. \A i, j \in 1..n : i # j => NewBeside(ds[i], ds[j])
    BY <1>1, <1>5 DEF ClusteredTo
  <2>3. QED
    BY <1>5, <1>7, <1>11, <2>1, <2>2
<1>13. ds \in Seq(ToSet(ds))
  BY <1>5, <1>8
<1>14. ClusteredTo(ds, s, k, S)
  BY <1>5, <1>9, <1>10, <1>12, <1>13 DEF ClusteredTo
<1>15. QED
  BY <1>14 DEF ds, one, x

(* What a cluster becomes when an item joins it.                           *)
LEMMA GrownCluster ==
  ASSUME NEW S, NEW s, Sorted(s, S), NEW k \in 1..Len(s),
         NEW c, ClusterOf(c, s, k - 1, S), SameEvent(c, s[k])
  PROVE  LET d == Append(c, s[k])
         IN  /\ ClusterOf(d, s, k, S) /\ ToSet(d) = ToSet(c) \cup {s[k]}
             /\ d[1] = c[1]
             /\ \A f : ClusterOf(f, s, k - 1, S) /\ NewBeside(f, c) => NewBeside(f, d)
<1> DEFINE x == s[k]
           m == Len(c)
           d == Append(c, x)
<1>1. k \in Nat /\ k # 0 /\ x \in S /\ x.at \in Int
  BY DEF Sorted
<1>2. c \in Seq(S) /\ m \in Nat /\ m # 0 /\ DOMAIN c = 1..m /\ Chain(c)
  BY MembersBefore DEF ClusterOf
<1>3. /\ d \in Seq(S) /\ Len(d) = m + 1 /\ DOMAIN d = 1..(m+1) /\ d[m+1] = x
      /\ \A j \in 1..m : d[j] = c[j]
  BY <1>1, <1>2
<1> HIDE DEF d
<1>4. SubSeq(d, 1, m) = c /\ \A j \in 0..m : SubSeq(d, 1, j) = SubSeq(c, 1, j)
  <2>1. ASSUME NEW j \in 0..m PROVE SubSeq(d, 1, j) = SubSeq(c, 1, j)
    <3>1. c \in Seq(S) /\ d \in Seq(S)
      BY <1>2, <1>3
    <3>2. j \in 0..Len(c) /\ j <= Len(d) /\ \A i \in 1..j : d[i] = c[i]
      BY <1>2, <1>3
    <3>3. QED
      BY ONLY <3>1, <3>2, SamePrefix
  <2>2. m \in 0..m /\ SubSeq(c, 1, m) = c
    BY <1>2, SubSeqFull
  <2>3. QED
    BY <2>1, <2>2
<1> HIDE DEF x, m
<1>5. /\ \A j \in 1..(m+1) : j \in 1..m \/ j = m+1
      /\ m + 1 \in 1..(m+1) /\ \A j \in 1..m : j \in 1..(m+1)
      /\ 1 \in 1..m
  BY <1>2
<1>6. ToSet(d) = ToSet(c) \cup {x}
  BY <1>2, <1>3, <1>5 DEF ToSet
<1>7. Chain(d)
  <2> SUFFICES ASSUME NEW a \in 2..(m+1) PROVE SameEvent(SubSeq(d, 1, a - 1), d[a])
    BY <1>3 DEF Chain
  <2>1. CASE a = m + 1
    <3>1. a - 1 = m
      BY <1>2, <2>1
    <3>2. QED
      BY <1>3, <1>4, <2>1, <3>1 DEF x
  <2>2. CASE a # m + 1
    <3>1. a \in 2..m /\ a \in 1..m /\ a - 1 \in 0..m
      BY <1>2, <2>2
    <3>2. QED
      BY <1>2, <1>3, <1>4, <3>1 DEF Chain, m
  <2>3. QED
    BY <2>1, <2>2
<1>8. ClusterOf(d, s, k, S)
  <2>1. k \in 1..k /\ \A j \in 1..(k-1) : j \in 1..k
    BY <1>1
  <2>2. d # <<>>
    BY <1>2, <1>3
  <2>3. \A z \in ToSet(d) : \E j \in 1..k : z = s[j]
    BY <1>6, <2>1 DEF ClusterOf, x
  <2>4. QED
    BY <1>3, <1>7, <2>2, <2>3 DEF ClusterOf
<1>9. ASSUME NEW f, ClusterOf(f, s, k - 1, S), NewBeside(f, c)
      PROVE  NewBeside(f, d)
  <2> DEFINE time == f[1].at
  <2>1. 1 \in 1..Len(f)
    BY <1>9, MembersBefore
  <2>2. time \in Int /\ time <= x.at
    BY <1>9, <2>1, MembersBefore DEF x
  <2>3. PICK j \in 0..m : Before(c, j, time) /\ ~SameEvent(SubSeq(c, 1, j), f[1])
    BY <1>9 DEF NewBeside, m
  <2> HIDE DEF time
  <2>4. j \in 0..(m+1) /\ \A i \in 1..j : i \in 1..m
    BY <1>2
  <2>5. \A i \in (j+1)..(m+1) : (i \in (j+1)..m /\ i \in 1..m) \/ i = m + 1
    BY <1>2
  <2>6. x.at >= time
    BY <1>1, <2>2
  <2>7. Before(d, j, time)
    <3>1. \A i \in 1..j : d[i].at <= time
      BY <1>3, <2>3, <2>4 DEF Before
    <3>2. \A i \in (j+1)..(m+1) : d[i].at >= time
      BY <1>3, <2>3, <2>5, <2>6 DEF Before, m
    <3>3. QED
      BY <1>3, <3>1, <3>2 DEF Before
  <2>8. QED
    BY <1>3, <1>4, <2>3, <2>4, <2>7 DEF NewBeside, time
<1>10. d[1] = c[1]
  BY <1>3, <1>5
<1>11. QED
  BY <1>6, <1>8, <1>9, <1>10 DEF d, x

(* An item that is the event of a cluster joins it.                        *)
LEMMA JoinedCluster ==
  ASSUME NEW S, NEW s, Sorted(s, S), NEW k \in 1..Len(s),
         NEW cs, ClusteredTo(cs, s, k - 1, S),
         NEW i \in DOMAIN cs, SameEvent(cs[i], s[k])
  PROVE  ClusteredTo([cs EXCEPT ![i] = Append(@, s[k])], s, k, S)
<1> DEFINE x == s[k]
           n == Len(cs)
           c == cs[i]
           d == Append(c, x)
           ds == [cs EXCEPT ![i] = d]
<1>1. /\ cs \in Seq(ToSet(cs)) /\ n \in Nat /\ DOMAIN cs = 1..n
      /\ \A j \in 1..n : cs[j] \in ToSet(cs) /\ ClusterOf(cs[j], s, k - 1, S)
  BY DEF ClusteredTo, ToSet
<1>2. k \in Nat /\ k # 0
  OBVIOUS
<1>3. /\ ClusterOf(d, s, k, S) /\ ToSet(d) = ToSet(c) \cup {x} /\ d[1] = c[1]
      /\ \A f : ClusterOf(f, s, k - 1, S) /\ NewBeside(f, c) => NewBeside(f, d)
  BY <1>1, GrownCluster
<1>4. DOMAIN ds = 1..n /\ ds[i] = d /\ \A j \in 1..n : j # i => ds[j] = cs[j]
  BY <1>1
<1>5. ds = [j \in 1..n |-> ds[j]]
  BY <1>1
<1> HIDE DEF d, ds, x, c
<1>6. \A e \in ToSet(ds) : e = d \/ e \in ToSet(cs)
  BY <1>1, <1>4 DEF ToSet
<1>7. \A e \in ToSet(ds) : ClusterOf(e, s, k, S)
  BY <1>2, <1>3, <1>6, ClusterOfLater DEF ClusteredTo
<1>8. ASSUME NEW e \in ToSet(cs)
      PROVE  \E f \in ToSet(ds) : ToSet(e) \subseteq ToSet(f)
  <2>1. PICK j \in 1..n : e = cs[j]
    BY <1>1 DEF ToSet
  <2>2. ds[j] \in ToSet(ds)
    BY <1>4 DEF ToSet
  <2>3. ToSet(e) \subseteq ToSet(ds[j])
    BY <1>3, <1>4, <2>1 DEF c
  <2>4. QED
    BY <2>2, <2>3
<1>9. \A j \in 1..k : \E f \in ToSet(ds) : s[j] \in ToSet(f)
  <2>1. \A j \in 1..k : j \in 1..(k-1) \/ j = k
    OBVIOUS
  <2>2. \A j \in 1..(k-1) : \E e \in ToSet(cs) : s[j] \in ToSet(e)
    BY DEF ClusteredTo
  <2>3. ds[i] \in ToSet(ds)
    BY <1>1, <1>4 DEF ToSet
  <2>4. x \in ToSet(ds[i])
    BY <1>3, <1>4
  <2>5. QED
    BY <1>8, <2>1, <2>2, <2>3, <2>4 DEF x
<1>10. ds \in Seq(ToSet(ds))
  <2>1. \A j \in 1..n : ds[j] \in ToSet(ds)
    BY <1>4 DEF ToSet
  <2>2. QED
    BY <1>1, <1>5, <2>1
<1>11. ASSUME NEW a \in 1..n, NEW b \in 1..n, a # b
       PROVE  NewBeside(ds[a], ds[b])
  <2>1. NewBeside(cs[a], cs[b])
    BY <1>1, <1>11 DEF ClusteredTo
  <2>2. CASE a = i
    BY <1>3, <1>4, <1>11, <2>1, <2>2 DEF NewBeside, c
  <2>3. CASE b = i
    BY <1>1, <1>3, <1>4, <1>11, <2>1, <2>3 DEF c
  <2>4. CASE a # i /\ b # i
    BY <1>4, <2>1, <2>4
  <2>5. QED
    BY <2>2, <2>3, <2>4
<1>12. ClusteredTo(ds, s, k, S)
  BY <1>4, <1>7, <1>9, <1>10, <1>11 DEF ClusteredTo
<1>13. QED
  BY <1>12 DEF ds, d, c, x

(* One more item.                                                          *)
LEMMA JoinKeepsClusters ==
  ASSUME NEW S, NEW s, Sorted(s, S), NEW k \in 1..Len(s),
         NEW cs, ClusteredTo(cs, s, k - 1, S)
  PROVE  ClusteredTo(JoinEvent(NULL, cs, s[k]), s, k, S)
<1> DEFINE x == s[k]
           n == Len(cs)
           I == {i \in 1..n : SameEvent(cs[i], x)}
           ds == JoinEvent(NULL, cs, x)
<1>1. cs \in Seq(ToSet(cs)) /\ n \in Nat /\ DOMAIN cs = 1..n
  BY DEF ClusteredTo
<1>2. ds = IF (IF I # {} THEN Min(I) ELSE 0) = 0 THEN Append(cs, <<x>>)
           ELSE [cs EXCEPT ![IF I # {} THEN Min(I) ELSE 0] = Append(@, x)]
  BY DEF JoinEvent, SelectInSeq
<1> HIDE DEF ds
<1>3. CASE I = {}
  <2>1. ds = Append(cs, <<x>>)
    BY <1>2, <1>3
  <2>2. \A c \in ToSet(cs) : ~SameEvent(c, x)
    BY <1>1, <1>3 DEF ToSet
  <2>3. ClusteredTo(Append(cs, <<x>>), s, k, S)
    BY <2>2, NewCluster
  <2>4. QED
    BY <2>1, <2>3 DEF ds
<1>4. CASE I # {}
  <2> DEFINE i == Min(I)
  <2>1. I \in SUBSET Nat /\ \A j \in I : j # 0
    BY <1>1
  <2> HIDE DEF I
  <2>2. i \in I
    BY <1>4, <2>1, MinIsLeast
  <2>3. ds = [cs EXCEPT ![i] = Append(@, x)]
    BY <1>2, <1>4, <2>1, <2>2
  <2> HIDE DEF i
  <2>4. i \in DOMAIN cs /\ SameEvent(cs[i], x)
    BY <1>1, <2>2 DEF I
  <2>5. ClusteredTo([cs EXCEPT ![i] = Append(@, x)], s, k, S)
    BY <2>4, JoinedCluster
  <2>6. QED
    BY <2>3, <2>5 DEF ds
<1>5. QED
  BY <1>3, <1>4

(* All the items.                                                          *)
LEMMA ClusteredItems ==
  ASSUME NEW S, NEW s, Sorted(s, S)
  PROVE  ClusteredTo(Clustering!Fold(NULL, <<>>, s), s, Len(s), S)
<1> DEFINE n == Len(s)
<1>1. n \in Nat /\ DOMAIN s = 1..n /\ \A i \in 1..n : s[i] \in S
  BY DEF Sorted
<1> HIDE DEF n
<1>2. PICK h : Clustering!Runs(h, NULL, <<>>, s, n) /\ Clustering!Fold(NULL, <<>>, s) = h[n]
  BY <1>1, Clustering!FoldSteps
<1>3. h[0] = <<>> /\ \A k \in 1..n : h[k] = JoinEvent(NULL, h[k-1], s[k])
  BY <1>2 DEF Clustering!Runs
<1> DEFINE A == {k \in Nat : ClusteredTo(h[k], s, k, S)}
<1>4. 0 \in A
  <2>1. ClusteredTo(<<>>, s, 0, S)
    BY DEF ClusteredTo, ToSet
  <2>2. QED
    BY <1>3, <2>1
<1>5. ASSUME NEW k \in 1..n, k - 1 \in A
      PROVE  k \in A
  <2>1. k \in Nat /\ ClusteredTo(h[k-1], s, k - 1, S)
    BY <1>1, <1>5
  <2>2. ClusteredTo(JoinEvent(NULL, h[k-1], s[k]), s, k, S)
    BY <2>1, JoinKeepsClusters DEF n
  <2>3. QED
    BY <1>3, <2>1, <2>2
<1> HIDE DEF A
<1>6. n \in A
  BY <1>1, <1>4, <1>5, Clustering!InductionTo
<1>7. ClusteredTo(h[n], s, n, S)
  BY <1>6 DEF A
<1>8. QED
  BY <1>2, <1>7 DEF n

(* What clusters are made of items, which sorting by time does not change: *)
(* each item is in one, and each is of one event that was new.             *)
LEMMA ClustersOfItems ==
  ASSUME NEW S, \A x \in S : x.at \in Int, NEW items \in Seq(S)
  PROVE  LET cs == ClusterItems(items)
         IN  /\ \A x \in ToSet(items) : \E c \in ToSet(cs) : x \in ToSet(c)
             /\ \A c \in ToSet(cs) : ToSet(c) \subseteq ToSet(items) /\ Chain(c)
             /\ \A c, d \in ToSet(cs) : c # d => NewBeside(c, d)
<1> DEFINE s == ByTime(items)
           n == Len(s)
           cs == ClusterItems(items)
<1>1. Sorted(s, S) /\ ToSet(s) = ToSet(items)
  BY ByTimeSorts DEF Sorted
<1>2. cs = Clustering!Fold(NULL, <<>>, s)
  BY DEF ClusterItems, FoldLeft, MapThenFoldSet, Clustering!Fold, Clustering!Iterates,
         Clustering!Greatest, Max, JoinEvent
<1> HIDE DEF s, cs
<1>3. ClusteredTo(cs, s, n, S)
  BY <1>1, <1>2, ClusteredItems
<1>4. n \in Nat /\ DOMAIN s = 1..n /\ \A i \in 1..n : s[i] \in ToSet(items)
  <2>1. n \in Nat /\ DOMAIN s = 1..n
    BY <1>1 DEF Sorted
  <2>2. \A i \in 1..n : s[i] \in ToSet(s)
    BY <2>1 DEF ToSet
  <2>3. QED
    BY <1>1, <2>1, <2>2
<1> HIDE DEF n
<1>5. \A x \in ToSet(items) : \E i \in 1..n : x = s[i]
  BY <1>1, <1>4 DEF ToSet
<1>6. \A x \in ToSet(items) : \E c \in ToSet(cs) : x \in ToSet(c)
  BY <1>3, <1>5 DEF ClusteredTo
<1>7. \A c \in ToSet(cs) : ToSet(c) \subseteq ToSet(items) /\ Chain(c)
  BY <1>3, <1>4 DEF ClusteredTo, ClusterOf
<1>8. \A c, d \in ToSet(cs) : c # d => NewBeside(c, d)
  BY <1>3 DEF ClusteredTo, ToSet
<1>9. QED
  BY <1>6, <1>7, <1>8 DEF cs

-----------------------------------------------------------------------------
(* The clusters of a collection *)

(* A cluster made by a collection: its sources are the members' rows, and  *)
(* its members are of one event.                                           *)
EventOf(c, no, items) ==
  /\ c.by = no /\ c.key.ids = {r.id : r \in ToSet(c.members)}
  /\ ToSet(c.members) \subseteq items /\ Chain(c.members)

(* The entries that are clustered.                                         *)
RelevantOf(entries) == {r \in ToSet(entries) : InWindow(r.at) /\ Related(r)}

(* The clusters a collection makes of its entries.                         *)
LEMMA OwnClusters ==
  ASSUME NEW no, NEW S, \A x \in S : x.at \in Int, NEW entries \in Seq(S)
  PROVE  /\ \A c \in NewClusters(no, entries) : EventOf(c, no, RelevantOf(entries))
         /\ \A r \in RelevantOf(entries) :
              \E c \in NewClusters(no, entries) : r \in ToSet(c.members)
         /\ \A c, d \in NewClusters(no, entries) : c # d => NewBeside(c.members, d.members)
<1> DEFINE items == Relevant(entries)
           M == ToSet(ClusterItems(items))
           Heat(m) == Max({r.heat : r \in ToSet(m)})
           New(m) == [by |-> no, key |-> EventKey(m), members |-> m,
                      category |-> Category(TitleItem(m)), heat |-> Heat(m)]
<1>1. NewClusters(no, entries) = {New(m) : m \in M}
  BY DEF NewClusters
<1>2. items \in Seq(S) /\ ToSet(items) = RelevantOf(entries)
  <2>1. items \in Seq(S) /\ \A x : x \in ToSet(items) <=> x \in RelevantOf(entries)
    BY FilteredElements DEF Relevant, RelevantOf
  <2>2. QED
    BY <2>1
<1> HIDE DEF items, Heat
<1>3. /\ \A x \in ToSet(items) : \E m \in M : x \in ToSet(m)
      /\ \A m \in M : ToSet(m) \subseteq ToSet(items) /\ Chain(m)
      /\ \A m, q \in M : m # q => NewBeside(m, q)
  BY <1>2, ClustersOfItems
<1> HIDE DEF M
<1>4. ASSUME NEW m \in M
      PROVE  EventOf(New(m), no, RelevantOf(entries)) /\ New(m).members = m
  BY <1>2, <1>3 DEF EventOf, EventKey
<1> HIDE DEF New
<1>5. ASSUME NEW c \in NewClusters(no, entries), NEW d \in NewClusters(no, entries), c # d
      PROVE  NewBeside(c.members, d.members)
  <2>1. PICK m \in M, q \in M : c = New(m) /\ d = New(q)
    BY <1>1
  <2>2. m # q
    BY <1>5, <2>1
  <2>3. QED
    BY <1>3, <1>4, <2>1, <2>2
<1>6. QED
  BY <1>1, <1>2, <1>3, <1>4, <1>5

(* What an open collection knows: what it fetched and kept, the rows it    *)
(* read, and its entries and the rows it writes.                           *)
Snapshot(c) ==
  /\ c.fetched \in Seq(Items) /\ c.kept \in Seq(Items)
  /\ Distinct(c.kept) /\ Covers(c.kept, c.fetched, Len(c.fetched))
  /\ Unique(c.read) /\ \A p \in c.read : RowOK(p) /\ p.id[1] # c.no
  /\ c.entries \in Seq(ToSet(c.entries)) /\ Len(c.entries) = Len(c.kept)
  /\ Unique(c.written) /\ c.written \subseteq ToSet(c.entries)
  /\ \A j \in 1..Len(c.kept) : LET e == c.entries[j] IN
       /\ RowOK(e) /\ EntryOf(e, c.kept[j]) /\ e.id \in IdsOf(c.written)
       /\ KnownIn(e, c.read) \/ e.id[1] = c.no

(* A collection that is open knows its rows; one that is closed, nothing.  *)
RunsOK == \A w \in Workers : IF Open(w) THEN Snapshot(coll[w]) ELSE coll[w] = Closed

(* Rows and clusters are of earlier collections than the open ones.        *)
Numbered(w) ==
  /\ coll[w].no \in 1..begun
  /\ \A r \in rawItems : r.id[1] # coll[w].no
  /\ \A c \in clusters : c.by # coll[w].no

(* The numbers of the collections tell their rows and clusters apart.      *)
NumbersOK ==
  /\ begun \in Nat
  /\ \A r \in rawItems : r.id[1] \in 1..begun
  /\ \A c \in clusters : c.by \in 1..begun
  /\ \A w \in Workers : Open(w) => Numbered(w)
  /\ \A w, v \in Workers : w # v /\ Open(w) /\ Open(v) => coll[w].no # coll[v].no

(* What is stored is well formed.                                          *)
RowsOK == Unique(rawItems) /\ \A r \in rawItems : RowOK(r)

(* No row that was read is lost or changes its external id or platform.    *)
SeenOK == \A w \in Workers : Open(w) => \A p \in coll[w].read : KnownIn(p, rawItems)

(* The clusters of a collection are made of its own entries.               *)
OwnOK ==
  \A w \in Workers : Listed(w) => coll[w].own = NewClusters(coll[w].no, coll[w].entries)

(* The new rows of two collections that hold them have different external  *)
(* ids.                                                                    *)
NewApart(c, d) == \A r \in Inserted(c), q \in Inserted(d) : r.ext # NULL => r.ext # q.ext

(* A collection that holds its rows inserts external ids that are neither  *)
(* stored nor inserted by another.                                         *)
ApartOK ==
  /\ \A w \in Workers : HoldsRows(coll[w]) => ExtFree(w)
  /\ \A w, v \in Workers : w # v /\ HoldsRows(coll[w]) /\ HoldsRows(coll[v]) =>
       NewApart(coll[v], coll[w])

(* The sources of a cluster are rows.                                      *)
StoredOK == (\A c \in clusters : c.key.ids \subseteq IdsOf(rawItems)) /\ ClustersAreEvents

(* A row that is not mixed holds the values of one item; and as long as no *)
(* two overlap, a collection that is open has read what is stored.         *)
WholeOK ==
  /\ \A r \in rawItems : r.id \notin mixed => \E x \in Items : \A f \in Copied : r[f] = x[f]
  /\ overlap = {} => mixed = {} /\ \A w \in Workers : Open(w) => coll[w].read = rawItems

(* The inductive invariant of the data.                                    *)
DInv ==
  /\ CInv /\ RunsOK /\ NumbersOK /\ RowsOK /\ SeenOK /\ OwnOK /\ ApartOK /\ StoredOK /\ WholeOK

-----------------------------------------------------------------------------
(* One collection moves on, or ends *)

(* x has the data of c.                                                    *)
SameRun(x, c) ==
  /\ x.no = c.no /\ x.fetched = c.fetched /\ x.kept = c.kept /\ x.read = c.read
  /\ x.entries = c.entries /\ x.written = c.written

(* The snapshot is about the data alone.                                   *)
LEMMA SameSnapshot ==
  ASSUME NEW x, NEW c, SameRun(x, c), Snapshot(c)
  PROVE  Snapshot(x)
BY DEF SameRun, Snapshot

(* A step that moves one collection on, or ends it, and commits nothing.   *)
LEMMA DataMoves ==
  ASSUME DInv, NEW w \in Workers, UNCHANGED <<rawItems, clusters, begun, overlap, mixed>>, CInv',
         NEW x, coll' = [coll EXCEPT ![w] = x],
         x = Closed \/ (x.pc # "closed" /\ Open(w) /\ SameRun(x, coll[w])),
         x.pc \in {"replace", "commit"} => x.own = NewClusters(x.no, x.entries),
         HoldsRows(x) =>
           \/ HoldsRows(coll[w])
           \/ ExtFree(w) /\ \A v \in Workers : v # w /\ HoldsRows(coll[v]) =>
                              NewApart(coll[v], coll[w])
  PROVE  DInv'
<1>1. /\ coll'[w] = x /\ (\A v \in Workers : v # w => coll'[v] = coll[v])
      /\ \A v \in Workers : v = w \/ coll'[v] = coll[v]
  BY DEF DInv, CInv
<1>2. Closed.pc = "closed"
  BY DEF Closed
<1>3. Open(w)' => Open(w) /\ SameRun(x, coll[w])
  BY <1>1, <1>2 DEF Open
<1>4. HoldsRows(x) => Open(w) /\ SameRun(x, coll[w]) /\ Inserted(x) = Inserted(coll[w])
  BY <1>2 DEF HoldsRows, Inserted, SameRun
<1>5. RunsOK'
  <2> SUFFICES ASSUME NEW v \in Workers
               PROVE  IF Open(v)' THEN Snapshot(coll'[v]) ELSE coll'[v] = Closed
    BY DEF RunsOK, Snapshot
  <2>1. CASE v = w
    <3>1. CASE x = Closed
      BY <1>1, <1>2, <2>1, <3>1 DEF Open
    <3>2. CASE x # Closed
      <4>1. x.pc # "closed" /\ Open(w) /\ SameRun(x, coll[w])
        BY <3>2
      <4>2. Snapshot(coll[w])
        BY <4>1 DEF DInv, RunsOK
      <4>3. Snapshot(x)
        BY <4>1, <4>2, SameSnapshot
      <4>4. QED
        BY <1>1, <2>1, <4>1, <4>3 DEF Open
    <3>3. QED
      BY <3>1, <3>2
  <2>2. CASE v # w
    BY <1>1, <2>2 DEF DInv, RunsOK, Open
  <2>3. QED
    BY <2>1, <2>2
<1>6. NumbersOK'
  <2>1. \A v \in Workers : Open(v)' => Open(v) /\ coll'[v].no = coll[v].no
    BY <1>1, <1>3 DEF Open, SameRun
  <2>2. \A v \in Workers : Open(v)' => Numbered(v)'
    BY <2>1 DEF DInv, NumbersOK, Numbered
  <2>3. \A u, v \in Workers : u # v /\ Open(u)' /\ Open(v)' => coll'[u].no # coll'[v].no
    BY <2>1 DEF DInv, NumbersOK
  <2>4. QED
    BY <2>2, <2>3 DEF DInv, NumbersOK
<1>7. RowsOK'
  BY DEF DInv, RowsOK, Unique, RowOK
<1>8. SeenOK'
  <2> SUFFICES ASSUME NEW v \in Workers, Open(v)', NEW p \in coll'[v].read
               PROVE  KnownIn(p, rawItems)
    BY DEF SeenOK, KnownIn
  <2>1. Open(v) /\ coll'[v].read = coll[v].read
    BY <1>1, <1>3 DEF Open, SameRun
  <2>2. QED
    BY <2>1 DEF DInv, SeenOK
<1>9. OwnOK'
  <2> SUFFICES ASSUME NEW v \in Workers, Listed(v)'
               PROVE  coll'[v].own = NewClusters(coll'[v].no, coll'[v].entries)
    BY DEF OwnOK
  <2>1. CASE v = w
    BY <1>1, <2>1 DEF Listed
  <2>2. CASE v # w
    BY <1>1, <2>2 DEF DInv, OwnOK, Listed
  <2>3. QED
    BY <2>1, <2>2
<1>10. ApartOK'
  <2>1. HoldsRows(x) => ExtFree(w)
    BY DEF DInv, ApartOK
  <2>2. \A v \in Workers : v # w /\ HoldsRows(x) /\ HoldsRows(coll[v]) => NewApart(coll[v], coll[w])
    BY DEF DInv, ApartOK
  <2>3. \A v \in Workers : v # w /\ HoldsRows(x) /\ HoldsRows(coll[v]) =>
            NewApart(coll[v], x) /\ NewApart(x, coll[v])
    <3>1. \A c, d : NewApart(c, d) => NewApart(d, c)
      BY DEF NewApart
    <3>2. QED
      BY <1>4, <2>2, <3>1 DEF NewApart
  <2>4. ASSUME NEW v \in Workers, HoldsRows(coll'[v])
        PROVE  ExtFree(v)'
    <3>1. CASE v = w
      BY <1>1, <1>4, <2>1, <2>4, <3>1 DEF ExtFree
    <3>2. CASE v # w
      BY <1>1, <2>4, <3>2 DEF DInv, ApartOK, ExtFree
    <3>3. QED
      BY <3>1, <3>2
  <2>5. ASSUME NEW u \in Workers, NEW v \in Workers, u # v, HoldsRows(coll'[u]), HoldsRows(coll'[v])
        PROVE  NewApart(coll'[v], coll'[u])
    <3>1. CASE u = w
      BY <1>1, <2>3, <2>5, <3>1
    <3>2. CASE v = w
      BY <1>1, <2>3, <2>5, <3>2
    <3>3. CASE u # w /\ v # w
      BY <1>1, <2>5, <3>3 DEF DInv, ApartOK
    <3>4. QED
      BY <3>1, <3>2, <3>3
  <2>6. QED
    BY <2>4, <2>5 DEF ApartOK, HoldsRows, NewApart, Inserted
<1>11. StoredOK'
  BY DEF DInv, StoredOK, ClustersAreEvents, IdsOf
<1>12. WholeOK'
  <2>1. \A v \in Workers : Open(v)' => Open(v) /\ coll'[v].read = coll[v].read
    BY <1>1, <1>3 DEF Open, SameRun
  <2>2. QED
    BY <2>1 DEF DInv, WholeOK
<1>13. QED
  BY <1>5, <1>6, <1>7, <1>8, <1>9, <1>10, <1>11, <1>12 DEF DInv

(* A collection ends without a commit.                                     *)
LEMMA DataCloseKeeps ==
  ASSUME DInv, NEW w \in Workers, Close(w), UNCHANGED <<rawItems, clusters, begun, overlap, mixed>>, CInv'
  PROVE  DInv'
<1>1. coll' = [coll EXCEPT ![w] = Closed] /\ Closed.pc = "closed" /\ ~HoldsRows(Closed)
  BY DEF Close, Closed, HoldsRows
<1>2. QED
  BY <1>1, DataMoves

(* Only its stage changes.                                                 *)
LEMMA DataStageKeeps ==
  ASSUME DInv, NEW w \in Workers, UNCHANGED <<rawItems, clusters, begun, overlap, mixed>>, CInv', Open(w),
         NEW pc, pc # "closed", coll' = [coll EXCEPT ![w].pc = pc],
         pc \in {"replace", "commit"} => Listed(w),
         pc \in {"list", "replace", "commit"} =>
           \/ HoldsRows(coll[w])
           \/ ExtFree(w) /\ \A v \in Workers : v # w /\ HoldsRows(coll[v]) =>
                              NewApart(coll[v], coll[w])
  PROVE  DInv'
<1> DEFINE x == [coll[w] EXCEPT !.pc = pc]
<1>1. coll' = [coll EXCEPT ![w] = x]
  BY DEF DInv, CInv
<1>2. /\ x.pc = pc /\ SameRun(x, coll[w]) /\ x.own = coll[w].own
      /\ HoldsRows(x) => pc \in {"list", "replace", "commit"}
  BY DEF DInv, CInv, Shaped, SameRun, HoldsRows
<1> HIDE DEF x
<1>3. x.pc \in {"replace", "commit"} => x.own = NewClusters(x.no, x.entries)
  BY <1>2 DEF DInv, OwnOK, SameRun
<1>4. QED
  BY <1>1, <1>2, <1>3, DataMoves

(* A collection writes its rows, or fails on the external id of another.   *)
LEMMA DataWriteKeeps ==
  ASSUME DInv, NEW w \in Workers, Write(w), CInv'
  PROVE  DInv'
<1>1. Open(w) /\ UNCHANGED <<rawItems, clusters, begun, overlap, mixed>>
  BY DEF Write, Open
<1>2. CASE Close(w)
  BY <1>1, <1>2, DataCloseKeeps
<1>3. CASE ExtFree(w) /\ coll' = [coll EXCEPT ![w].pc = "list"]
  <2>1. ASSUME NEW v \in Workers, v # w, HoldsRows(coll[v])
        PROVE  NewApart(coll[v], coll[w])
    <3>1. coll[v] \in OthersOf(w)
      BY <2>1 DEF OthersOf, Open, HoldsRows
    <3>2. QED
      BY <2>1, <3>1 DEF Write, RowsFree, NewApart
  <2>2. \A v \in Workers : v # w /\ HoldsRows(coll[v]) => NewApart(coll[v], coll[w])
    BY <2>1
  <2> DEFINE pc == "list"
  <2>3. pc # "closed" /\ pc \notin {"replace", "commit"} /\ coll' = [coll EXCEPT ![w].pc = pc]
    BY <1>3
  <2> HIDE DEF pc
  <2>4. QED
    BY <1>1, <1>3, <2>2, <2>3, DataStageKeeps
<1>4. QED
  BY <1>2, <1>3 DEF Write

(* A collection replaces the clusters of the date, or fails.               *)
LEMMA DataReplaceKeeps ==
  ASSUME DInv, NEW w \in Workers, Replace(w), CInv'
  PROVE  DInv'
<1>1. /\ Open(w) /\ Listed(w) /\ HoldsRows(coll[w])
      /\ UNCHANGED <<rawItems, clusters, begun, overlap, mixed>>
      /\ coll' = [coll EXCEPT ![w].pc = "commit"] \/ Close(w)
  BY DEF Replace, Open, Listed, HoldsRows
<1>2. QED
  BY <1>1, DataCloseKeeps, DataStageKeeps

(* A collection lists the clusters of the date and makes its own.          *)
LEMMA DataListKeeps ==
  ASSUME DInv, NEW w \in Workers, ListOld(w), CInv'
  PROVE  DInv'
<1> DEFINE new == NewClusters(coll[w].no, coll[w].entries)
           x == [coll[w] EXCEPT !.pc = "replace", !.old = clusters, !.own = new]
<1>1. /\ coll' = [coll EXCEPT ![w] = x] /\ UNCHANGED <<rawItems, clusters, begun, overlap, mixed>>
      /\ Open(w) /\ HoldsRows(coll[w])
  BY DEF ListOld, DInv, CInv, Open, HoldsRows
<1> HIDE DEF new
<1>2. x.pc = "replace" /\ SameRun(x, coll[w]) /\ x.own = new
  BY DEF DInv, CInv, Shaped, SameRun
<1> HIDE DEF x
<1>3. x.own = NewClusters(x.no, x.entries)
  BY <1>2 DEF SameRun, new
<1>4. QED
  BY <1>1, <1>2, <1>3, DataMoves

-----------------------------------------------------------------------------
(* A new collection *)

(* What a collection has fetched, kept and upserted is a snapshot.         *)
LEMMA LookSnapshot ==
  ASSUME DInv, NEW batch \in Batches,
         NEW no, no = begun + 1,
         NEW items, items = IntakeOf(batch, batch.now).items,
         NEW kept, kept = Deduplicate(items),
         NEW up, up = Upserted(rawItems, kept, no),
         NEW x, x.no = no, x.fetched = items, x.kept = kept, x.read = rawItems,
         x.entries = up.entries, x.written = RowsTouched(up)
  PROVE  Snapshot(x)
<1> DEFINE n == Len(kept)
<1>1. items \in Seq(Items)
  BY FetchedItems
<1>2. kept \in Seq(Items) /\ Distinct(kept) /\ Covers(kept, items, Len(items))
  BY <1>1, Deduplicated
<1>3. Unique(rawItems) /\ \A p \in rawItems : RowOK(p)
  BY DEF DInv, RowsOK
<1>4. UpsertedTo(up.rows, up.entries, n, rawItems, kept, no)
  BY <1>2, <1>3, UpsertedRows
<1>5. \A p \in rawItems : p.id[1] # no
  BY DEF DInv, NumbersOK
<1>6. /\ up.entries \in Seq(ToSet(up.entries)) /\ Len(up.entries) = n
      /\ n \in Nat /\ DOMAIN up.entries = 1..n
  BY <1>2, <1>4 DEF UpsertedTo
<1> HIDE DEF n
<1>7. Unique(RowsTouched(up)) /\ RowsTouched(up) \subseteq ToSet(up.entries)
  BY <1>4 DEF UpsertedTo, RowsTouched, Unique
<1>8. ASSUME NEW j \in 1..n
      PROVE  LET e == up.entries[j]
             IN  /\ RowOK(e) /\ EntryOf(e, kept[j]) /\ e.id \in IdsOf(RowsTouched(up))
                 /\ KnownIn(e, rawItems) \/ e.id[1] = no
  <2> DEFINE e == up.entries[j]
  <2>1. /\ RowOK(e) /\ EntryOf(e, kept[j]) /\ e.id \in IdsOf(up.rows)
        /\ KnownIn(e, rawItems) \/ NewId(e.id, no, n)
    BY <1>4 DEF UpsertedTo
  <2>2. e \in ToSet(up.entries)
    BY <1>6 DEF ToSet
  <2> HIDE DEF e
  <2>3. e.id \in IdsOf(RowsTouched(up))
    BY <2>1, <2>2 DEF RowsTouched, IdsOf
  <2>4. NewId(e.id, no, n) => e.id[1] = no
    BY DEF NewId
  <2>5. QED
    BY <2>1, <2>3, <2>4 DEF e
<1>9. QED
  BY <1>1, <1>2, <1>3, <1>5, <1>6, <1>7, <1>8 DEF Snapshot, n

(* A collection starts.                                                    *)
LEMMA DataLookKeeps ==
  ASSUME DInv, NEW w \in Workers, NEW batch \in Batches, Look(w, batch), CInv'
  PROVE  DInv'
<1> DEFINE no == begun + 1
           intake == IntakeOf(batch, batch.now)
           kept == Deduplicate(intake.items)
           up == Upserted(rawItems, kept, no)
           x == [Closed EXCEPT !.pc = "write", !.no = no, !.fetched = intake.items,
                               !.kept = kept, !.read = rawItems, !.entries = up.entries,
                               !.written = RowsTouched(up)]
<1>1. /\ ~Open(w) /\ UNCHANGED <<rawItems, clusters, mixed>> /\ begun' = no
      /\ \/ UNCHANGED <<coll, overlap>>
         \/ /\ coll' = [coll EXCEPT ![w] = x]
            /\ overlap' = overlap \cup {{no, c.no} : c \in OthersOf(w)}
  BY DEF Look
<1>2. begun \in Nat /\ no \in Nat /\ 1..begun \subseteq 1..no /\ no \in 1..no /\ no \notin 1..begun
  BY DEF DInv, NumbersOK
<1>3. RowsOK' /\ StoredOK'
  BY <1>1 DEF DInv, RowsOK, Unique, RowOK, StoredOK, ClustersAreEvents, IdsOf
<1>4. CASE UNCHANGED <<coll, overlap>>
  <2> HIDE DEF no, intake, kept, up, x
  <2>1. RunsOK' /\ SeenOK' /\ OwnOK' /\ ApartOK' /\ WholeOK'
    BY <1>1, <1>4 DEF DInv, RunsOK, SeenOK, OwnOK, ApartOK, WholeOK, Open, Listed, HoldsRows, ExtFree,
                      NewApart, Inserted, KnownIn
  <2>2. NumbersOK'
    BY <1>1, <1>2, <1>4 DEF DInv, NumbersOK, Numbered, Open
  <2>3. QED
    BY <1>3, <2>1, <2>2 DEF DInv
<1>5. CASE /\ coll' = [coll EXCEPT ![w] = x]
           /\ overlap' = overlap \cup {{no, c.no} : c \in OthersOf(w)}
  <2>1. /\ x.pc = "write" /\ x.no = no /\ x.fetched = intake.items /\ x.kept = kept
        /\ x.read = rawItems /\ x.entries = up.entries /\ x.written = RowsTouched(up)
    BY DEF Closed
  <2> HIDE DEF x
  <2>2. Snapshot(x)
    BY <2>1, LookSnapshot
  <2> HIDE DEF no, intake, kept, up
  <2>3. /\ coll'[w] = x /\ (\A v \in Workers : v # w => coll'[v] = coll[v])
    BY <1>5 DEF DInv, CInv
  <2>4. RunsOK'
    <3> SUFFICES ASSUME NEW v \in Workers
                 PROVE  IF Open(v)' THEN Snapshot(coll'[v]) ELSE coll'[v] = Closed
      BY DEF RunsOK, Snapshot
    <3>1. CASE v = w
      BY <2>1, <2>2, <2>3, <3>1 DEF Open
    <3>2. CASE v # w
      BY <2>3, <3>2 DEF DInv, RunsOK, Open
    <3>3. QED
      BY <3>1, <3>2
  <2>5. NumbersOK'
    <3>1. \A r \in rawItems : r.id[1] \in 1..no /\ r.id[1] # no
      BY <1>2 DEF DInv, NumbersOK
    <3>2. \A c \in clusters : c.by \in 1..no /\ c.by # no
      BY <1>2 DEF DInv, NumbersOK
    <3>3. \A v \in Workers : v # w /\ Open(v)' => Numbered(v)' /\ coll[v].no # no
      BY <1>1, <1>2, <2>3 DEF DInv, NumbersOK, Numbered, Open
    <3>4. Numbered(w)'
      BY <1>1, <1>2, <2>1, <2>3, <3>1, <3>2 DEF Numbered
    <3>5. \A u, v \in Workers : u # v /\ Open(u)' /\ Open(v)' => coll'[u].no # coll'[v].no
      <4> SUFFICES ASSUME NEW u \in Workers, NEW v \in Workers, u # v, Open(u)', Open(v)'
                   PROVE  coll'[u].no # coll'[v].no
        OBVIOUS
      <4>1. CASE u = w
        BY <2>1, <2>3, <3>3, <4>1
      <4>2. CASE v = w
        BY <2>1, <2>3, <3>3, <4>2
      <4>3. CASE u # w /\ v # w
        BY <2>3, <4>3 DEF DInv, NumbersOK, Open
      <4>4. QED
        BY <4>1, <4>2, <4>3
    <3>6. \A v \in Workers : Open(v)' => Numbered(v)'
      BY <3>3, <3>4
    <3>7. QED
      BY <1>1, <1>2, <3>1, <3>2, <3>5, <3>6 DEF NumbersOK
  <2>6. SeenOK'
    <3> SUFFICES ASSUME NEW v \in Workers, Open(v)', NEW p \in coll'[v].read
                 PROVE  KnownIn(p, rawItems)
      BY <1>1 DEF SeenOK, KnownIn
    <3>1. CASE v = w
      BY <2>1, <2>3, <3>1 DEF KnownIn
    <3>2. CASE v # w
      BY <2>3, <3>2 DEF DInv, SeenOK, Open
    <3>3. QED
      BY <3>1, <3>2
  <2>7. OwnOK'
    BY <2>1, <2>3 DEF DInv, OwnOK, Listed
  <2>8. ApartOK'
    <3>1. \A v \in Workers : HoldsRows(coll'[v]) => v # w /\ coll'[v] = coll[v]
      BY <2>1, <2>3 DEF HoldsRows
    <3>2. \A v \in Workers : HoldsRows(coll'[v]) => ExtFree(v)'
      BY <1>1, <3>1 DEF DInv, ApartOK, ExtFree
    <3>3. \A u, v \in Workers : u # v /\ HoldsRows(coll'[u]) /\ HoldsRows(coll'[v]) =>
             NewApart(coll'[v], coll'[u])
      BY <3>1 DEF DInv, ApartOK
    <3>4. QED
      BY <3>2, <3>3 DEF ApartOK, HoldsRows, NewApart, Inserted
  <2>9. WholeOK'
    <3>1. ASSUME overlap' = {}
          PROVE  mixed = {} /\ \A v \in Workers : Open(v)' => coll'[v].read = rawItems
      <4>1. OthersOf(w) = {} /\ overlap = {}
        BY <1>5, <3>1
      <4>2. \A v \in Workers : Open(v)' => v = w
        BY <2>3, <4>1 DEF OthersOf, Open
      <4>3. QED
        BY <2>1, <2>3, <4>1, <4>2 DEF DInv, WholeOK
    <3>2. QED
      BY <1>1, <3>1 DEF DInv, WholeOK
  <2>10. QED
    BY <1>3, <2>4, <2>5, <2>6, <2>7, <2>8, <2>9 DEF DInv
<1>6. QED
  BY <1>1, <1>4, <1>5

-----------------------------------------------------------------------------
(* A collection commits *)

(* What CommitRun makes of a row that is stored.                           *)
Stored(c, q) ==
  IF q.id \in IdsOf(c.written) THEN Merged(c, CHOOSE r \in c.written : r.id = q.id, q) ELSE q

(* An update changes neither a row's identity nor whose it is.             *)
LEMMA StoredRow ==
  ASSUME DInv, NEW w \in Workers, Open(w), NEW q \in rawItems
  PROVE  LET p == Stored(coll[w], q)
         IN  RowOK(p) /\ p.id = q.id /\ p.ext = q.ext /\ p.platform = q.platform
<1> DEFINE c == coll[w]
           r == CHOOSE x \in c.written : x.id = q.id
           p == Stored(c, q)
<1>1. RowOK(q)
  BY DEF DInv, RowsOK
<1>2. CASE q.id \notin IdsOf(c.written)
  BY <1>1, <1>2 DEF Stored
<1>3. CASE q.id \in IdsOf(c.written)
  <2>1. r \in c.written /\ r.id = q.id
    BY <1>3 DEF IdsOf
  <2>2. p = Merged(c, r, q)
    BY <1>3 DEF Stored
  <2> HIDE DEF r, p
  <2>3. Snapshot(c)
    BY DEF DInv, RunsOK
  <2>4. PICK j \in 1..Len(c.kept) : r = c.entries[j]
    BY <2>1, <2>3 DEF Snapshot, ToSet
  <2>5. RowOK(r) /\ (KnownIn(r, c.read) \/ r.id[1] = c.no)
    BY <2>3, <2>4 DEF Snapshot
  <2>6. q.id[1] # c.no
    BY DEF DInv, NumbersOK, Numbered
  <2>7. PICK a \in c.read : a.id = r.id /\ a.ext = r.ext /\ a.platform = r.platform
    BY <2>1, <2>5, <2>6 DEF KnownIn
  <2>8. PICK b \in rawItems : b.id = a.id /\ b.ext = a.ext /\ b.platform = a.platform
    BY <2>7 DEF DInv, SeenOK, KnownIn
  <2>9. b = q
    BY <2>1, <2>7, <2>8 DEF DInv, RowsOK, Unique
  <2>10. r.id = q.id /\ r.ext = q.ext /\ r.platform = q.platform
    BY <2>7, <2>8, <2>9
  <2>11. DOMAIN p = DOMAIN q /\ \A f \in DOMAIN q : p[f] = r[f] \/ p[f] = q[f]
    BY <2>2 DEF Merged
  <2>12. DOMAIN p = RowFields /\ p.id = q.id /\ p.ext = q.ext /\ p.platform = q.platform
    BY <1>1, <2>10, <2>11 DEF RowOK, RowFields, ItemFields
  <2>13. \A f \in Copied \cup {"ext"} : p[f] = r[f] \/ p[f] = q[f]
    BY <1>1, <2>11 DEF RowOK, RowFields, ItemFields, Copied
  <2>14. RowOK(p)
    <3> SUFFICES ASSUME NEW f \in Copied \cup {"ext"}
                 PROVE  \E x \in Items : p[f] = x[f] /\ (PlatformsApart => x.platform = p.platform)
      BY <2>12 DEF RowOK
    <3>1. CASE p[f] = r[f]
      BY <2>5, <2>10, <2>12, <3>1 DEF RowOK
    <3>2. CASE p[f] = q[f]
      BY <1>1, <2>12, <3>2 DEF RowOK
    <3>3. QED
      BY <2>13, <3>1, <3>2
  <2>15. QED
    BY <2>12, <2>14 DEF p
<1>4. QED
  BY <1>2, <1>3

(* What is inserted is new.                                                *)
LEMMA InsertedRow ==
  ASSUME DInv, NEW w \in Workers, Open(w), NEW r \in Inserted(coll[w])
  PROVE  /\ RowOK(r) /\ r.id[1] = coll[w].no /\ r \in coll[w].written
         /\ \E j \in 1..Len(coll[w].kept) : r = coll[w].entries[j]
         /\ \A q \in rawItems : r.id # q.id
<1> DEFINE c == coll[w]
<1>1. Snapshot(c) /\ \A q \in rawItems : q.id[1] # c.no
  BY DEF DInv, RunsOK, NumbersOK, Numbered
<1>2. r \in c.written /\ r.id[1] = c.no
  BY DEF Inserted
<1>3. PICK j \in 1..Len(c.kept) : r = c.entries[j]
  BY <1>1, <1>2 DEF Snapshot, ToSet
<1>4. QED
  BY <1>1, <1>2, <1>3 DEF Snapshot

(* A row that is updated as it was read gets the values of one item.       *)
LEMMA StoredWhole ==
  ASSUME DInv, NEW w \in Workers, Open(w), NEW q \in rawItems,
         q.id \in IdsOf(coll[w].written), q \in coll[w].read
  PROVE  \E x \in Items : \A f \in Copied : Stored(coll[w], q)[f] = x[f]
<1> DEFINE c == coll[w]
           r == CHOOSE x \in c.written : x.id = q.id
           p == Stored(c, q)
<1>1. r \in c.written /\ r.id = q.id
  BY DEF IdsOf
<1>2. p = Merged(c, r, q)
  BY DEF Stored
<1> HIDE DEF r, p
<1>3. Snapshot(c) /\ RowOK(q) /\ Unique(c.read)
  BY DEF DInv, RunsOK, RowsOK, Snapshot
<1>4. PICK j \in 1..Len(c.kept) : r = c.entries[j]
  BY <1>1, <1>3 DEF Snapshot, ToSet
<1>5. r \in ToSet(c.entries)
  BY <1>1, <1>3 DEF Snapshot
<1> DEFINE was == CHOOSE a \in c.read : a.id = r.id
<1>6. was = q
  BY <1>1, <1>3 DEF Unique
<1>7. ASSUME NEW f \in Copied
      PROVE  p[f] = r[f]
  <2>1. f \in DOMAIN q
    BY <1>3 DEF RowOK, RowFields, ItemFields, Copied
  <2>2. p[f] = IF \E e \in {e \in ToSet(c.entries) : e.id = r.id} : e[f] # was[f]
               THEN r[f] ELSE q[f]
    BY <1>2, <2>1 DEF Merged
  <2> HIDE DEF was
  <2>3. QED
    BY <1>5, <1>6, <2>2
<1>8. EntryOf(r, c.kept[j]) /\ c.kept[j] \in Items
  BY <1>3, <1>4 DEF Snapshot
<1>9. QED
  BY <1>7, <1>8 DEF EntryOf, p

(* The time of an entry is a number.                                       *)
LEMMA EntryTimes ==
  ASSUME NEW c, Snapshot(c), NEW r \in ToSet(c.entries)
  PROVE  r.at \in Int
<1>1. PICK j \in 1..Len(c.kept) : r = c.entries[j]
  BY DEF Snapshot, ToSet
<1>2. EntryOf(r, c.kept[j]) /\ c.kept[j] \in Items
  BY <1>1 DEF Snapshot
<1>3. r.at = c.kept[j].at /\ c.kept[j].at \in Int
  BY <1>2, ItemsOK DEF EntryOf, Copied, ItemOK
<1>4. QED
  BY <1>3

(* A collection commits: its rows are merged into what is stored, and its  *)
(* clusters replace those it listed.                                       *)
LEMMA DataCommitKeeps ==
  ASSUME DInv, NEW w \in Workers, CommitRun(w), CInv'
  PROVE  DInv'
<1> DEFINE c == coll[w]
<1>1. /\ Open(w) /\ Listed(w) /\ HoldsRows(c)
      /\ rawItems' = {Stored(c, q) : q \in rawItems} \cup Inserted(c)
      /\ clusters' = (clusters \ c.old) \cup c.own
      /\ coll' = [coll EXCEPT ![w] = Closed] /\ UNCHANGED <<begun, overlap>>
  BY DEF CommitRun, Stored, Open, Listed, HoldsRows, Close
<1>2. /\ coll'[w] = Closed /\ (\A v \in Workers : v # w => coll'[v] = coll[v])
      /\ Closed.pc = "closed" /\ ~Open(w)' /\ ~Listed(w)' /\ ~HoldsRows(coll'[w])
  BY <1>1 DEF DInv, CInv, Closed, Open, Listed, HoldsRows
<1>3. \A v \in Workers : Open(v)' => v # w /\ Open(v) /\ coll'[v] = coll[v]
  BY <1>2 DEF Open
<1>4. \A v \in Workers : HoldsRows(coll'[v]) => v # w /\ Open(v) /\ HoldsRows(coll[v]) /\ coll'[v] = coll[v]
  BY <1>2 DEF Open, HoldsRows
<1>5. Snapshot(c)
  BY <1>1 DEF DInv, RunsOK
<1>6. /\ c.own = NewClusters(c.no, c.entries) /\ ExtFree(w)
      /\ c.no \in 1..begun /\ \A d \in clusters : d.by # c.no
  BY <1>1 DEF DInv, OwnOK, ApartOK, NumbersOK, Numbered
<1>7. \A q \in rawItems : /\ RowOK(Stored(c, q)) /\ Stored(c, q).id = q.id
                          /\ Stored(c, q).ext = q.ext /\ Stored(c, q).platform = q.platform
  BY <1>1, StoredRow
<1>8. \A r \in Inserted(c) : /\ RowOK(r) /\ r.id[1] = c.no /\ r \in c.written
                             /\ \A q \in rawItems : r.id # q.id
  BY <1>1, InsertedRow
<1>9. /\ \A p \in rawItems' : p \in Inserted(c) \/ \E q \in rawItems : p = Stored(c, q)
      /\ \A q \in rawItems : Stored(c, q) \in rawItems'
      /\ Inserted(c) \subseteq rawItems'
  BY <1>1
<1>10. ASSUME NEW a, KnownIn(a, rawItems)
       PROVE  KnownIn(a, rawItems')
  BY <1>7, <1>9, <1>10 DEF KnownIn
<1>11. IdsOf(rawItems) \subseteq IdsOf(rawItems')
  BY <1>7, <1>9 DEF IdsOf
<1>12. RunsOK'
  <2>1. ASSUME NEW v \in Workers, Open(v)'
        PROVE  Snapshot(coll'[v])
    BY <1>3, <2>1 DEF DInv, RunsOK
  <2>2. ASSUME NEW v \in Workers, ~Open(v)'
        PROVE  coll'[v] = Closed
    BY <1>2, <2>2 DEF DInv, RunsOK, Open
  <2>3. QED
    BY <2>1, <2>2 DEF RunsOK, Snapshot
<1>13. NumbersOK'
  <2>1. \A p \in rawItems' : p.id[1] = c.no \/ \E q \in rawItems : p.id[1] = q.id[1]
    BY <1>7, <1>8, <1>9
  <2>2. \A d \in clusters' : d.by = c.no \/ d \in clusters
    BY <1>1, <1>6, NewOwn
  <2>3. \A v \in Workers : Open(v)' => coll'[v].no = coll[v].no /\ coll[v].no # c.no /\ Numbered(v)
    BY <1>1, <1>3 DEF DInv, NumbersOK
  <2>4. \A v \in Workers : Open(v)' => Numbered(v)'
    BY <1>1, <2>1, <2>2, <2>3 DEF Numbered
  <2>5. \A u, v \in Workers : u # v /\ Open(u)' /\ Open(v)' => coll'[u].no # coll'[v].no
    BY <1>3 DEF DInv, NumbersOK
  <2>6. (\A p \in rawItems' : p.id[1] \in 1..begun) /\ \A d \in clusters' : d.by \in 1..begun
    BY <1>6, <2>1, <2>2 DEF DInv, NumbersOK
  <2>7. begun \in Nat
    BY DEF DInv, NumbersOK
  <2>8. QED
    BY <1>1, <2>4, <2>5, <2>6, <2>7 DEF NumbersOK
<1>14. RowsOK'
  <2>1. \A p \in rawItems' : RowOK(p)
    BY <1>7, <1>8, <1>9
  <2>2. ASSUME NEW p \in rawItems', NEW q \in rawItems', p.id = q.id \/ (p.ext # NULL /\ p.ext = q.ext)
        PROVE  p = q
    <3>1. ASSUME NEW a \in rawItems, NEW b \in rawItems, p = Stored(c, a), q = Stored(c, b)
          PROVE  p = q
      <4>1. a = b
        BY <1>7, <2>2, <3>1 DEF DInv, RowsOK, Unique
      <4>2. QED
        BY <3>1, <4>1
    <3>2. CASE p \in Inserted(c) /\ q \in Inserted(c)
      BY <1>5, <1>8, <2>2, <3>2 DEF Snapshot, Unique
    <3>3. ASSUME NEW a \in rawItems, NEW i \in Inserted(c), NEW s, s = Stored(c, a)
          PROVE  i.id # s.id /\ (i.ext # NULL => i.ext # s.ext)
      BY <1>6, <1>7, <1>8, <3>3 DEF ExtFree
    <3>4. QED
      BY <1>9, <2>2, <3>1, <3>2, <3>3
  <2>3. QED
    BY <2>1, <2>2 DEF RowsOK, Unique, RowOK
<1>15. SeenOK'
  <2> SUFFICES ASSUME NEW v \in Workers, Open(v)', NEW p \in coll'[v].read
               PROVE  KnownIn(p, rawItems')
    BY DEF SeenOK, KnownIn
  <2>1. KnownIn(p, rawItems)
    BY <1>3 DEF DInv, SeenOK
  <2>2. QED
    BY <1>10, <2>1
<1>16. OwnOK'
  BY <1>2 DEF DInv, OwnOK, Listed
<1>17. ApartOK'
  <2>1. ASSUME NEW v \in Workers, HoldsRows(coll'[v]), NEW r \in Inserted(coll[v]),
               NEW p \in rawItems', r.ext # NULL
        PROVE  r.ext # p.ext
    <3>1. v # w /\ HoldsRows(coll[v])
      BY <1>4, <2>1
    <3>2. CASE p \in Inserted(c)
      BY <1>1, <2>1, <3>1, <3>2 DEF DInv, ApartOK, NewApart
    <3>3. ASSUME NEW q \in rawItems, p = Stored(c, q)
          PROVE  r.ext # p.ext
      BY <1>7, <2>1, <3>1, <3>3 DEF DInv, ApartOK, ExtFree
    <3>4. QED
      BY <1>9, <3>2, <3>3
  <2>2. \A v \in Workers : HoldsRows(coll'[v]) => ExtFree(v)'
    BY <1>4, <2>1 DEF ExtFree, Inserted
  <2>3. \A u, v \in Workers : u # v /\ HoldsRows(coll'[u]) /\ HoldsRows(coll'[v]) =>
           NewApart(coll'[v], coll'[u])
    BY <1>4 DEF DInv, ApartOK
  <2>4. QED
    BY <2>2, <2>3 DEF ApartOK, HoldsRows, NewApart, Inserted
<1>18. /\ \A d \in c.own : EventOf(d, c.no, RelevantOf(c.entries))
       /\ RelevantOf(c.entries) \subseteq ToSet(c.entries)
      /\ \A d, e \in c.own : d # e => NewBeside(d.members, e.members)
  <2> DEFINE S == ToSet(c.entries)
  <2>1. c.entries \in Seq(S)
    BY <1>5 DEF Snapshot
  <2>2. \A r \in S : r.at \in Int
    BY <1>5, EntryTimes
  <2> HIDE DEF S
  <2>3. /\ \A d \in NewClusters(c.no, c.entries) : EventOf(d, c.no, RelevantOf(c.entries))
        /\ \A d, e \in NewClusters(c.no, c.entries) : d # e => NewBeside(d.members, e.members)
    BY <2>1, <2>2, OwnClusters
  <2>4. QED
    BY <1>6, <2>3 DEF RelevantOf
<1>19. StoredOK'
  <2>1. ASSUME NEW e \in ToSet(c.entries)
        PROVE  e.id \in IdsOf(rawItems')
    <3>1. PICK j \in 1..Len(c.kept) : e = c.entries[j]
      BY <1>5 DEF Snapshot, ToSet
    <3>2. e.id \in IdsOf(c.written) /\ (KnownIn(e, c.read) \/ e.id[1] = c.no)
      BY <1>5, <3>1 DEF Snapshot
    <3>3. CASE KnownIn(e, c.read)
      <4>1. \A p \in c.read : KnownIn(p, rawItems)
        BY <1>1 DEF DInv, SeenOK
      <4>2. KnownIn(e, rawItems)
        BY <3>3, <4>1 DEF KnownIn
      <4>3. KnownIn(e, rawItems')
        BY <1>10, <4>2
      <4>4. QED
        BY <4>3 DEF KnownIn, IdsOf
    <3>4. CASE e.id[1] = c.no
      BY <1>9, <3>2, <3>4 DEF IdsOf, Inserted
    <3>5. QED
      BY <3>2, <3>3, <3>4
  <2>2. \A d \in c.own : d.key.ids \subseteq IdsOf(rawItems')
    BY <1>18, <2>1 DEF EventOf
  <2>3. \A d \in clusters : d.key.ids \subseteq IdsOf(rawItems')
    BY <1>11 DEF DInv, StoredOK
  <2>4. ASSUME NEW d \in clusters'
        PROVE  Chain(d.members)
    BY <1>1, <1>18 DEF DInv, StoredOK, ClustersAreEvents, EventOf, Chain
  <2>5. ASSUME NEW d \in clusters', NEW e \in clusters' \ {d}, e.by = d.by
        PROVE  NewBeside(d.members, e.members)
    <3>1. CASE d \in c.own /\ e \in c.own
      BY <1>18, <2>5, <3>1
    <3>2. CASE d \in clusters /\ e \in clusters
      BY <2>5, <3>2 DEF DInv, StoredOK, ClustersAreEvents, NewBeside
    <3>3. \A b \in c.own : b.by = c.no
      BY <1>18 DEF EventOf
    <3>4. QED
      BY <1>1, <1>6, <2>5, <3>1, <3>2, <3>3
  <2>6. ClustersAreEvents'
    BY <2>4, <2>5 DEF ClustersAreEvents, Chain, NewBeside
  <2>7. QED
    BY <1>1, <2>2, <2>3, <2>6 DEF StoredOK, IdsOf
<1>20. WholeOK'
  <2>1. mixed' = (mixed \ IdsOf(c.written)) \cup Outdated(c)
    BY DEF CommitRun
  <2>2. ASSUME NEW q \in rawItems, q.id \notin mixed'
        PROVE  \E x \in Items : \A f \in Copied : Stored(c, q)[f] = x[f]
    <3>1. CASE q.id \in IdsOf(c.written)
      <4>1. q \in c.read
        BY <2>1, <2>2, <3>1 DEF Outdated
      <4>2. QED
        BY <1>1, <3>1, <4>1, StoredWhole
    <3>2. CASE q.id \notin IdsOf(c.written)
      <4>1. q.id \notin mixed /\ Stored(c, q) = q
        BY <2>1, <2>2, <3>2 DEF Stored
      <4>2. QED
        BY <4>1 DEF DInv, WholeOK
    <3>3. QED
      BY <3>1, <3>2
  <2>3. ASSUME NEW r \in Inserted(c)
        PROVE  \E x \in Items : \A f \in Copied : r[f] = x[f]
    <3>1. PICK j \in 1..Len(c.kept) : r = c.entries[j]
      BY <1>1, InsertedRow
    <3>2. EntryOf(r, c.kept[j]) /\ c.kept[j] \in Items
      BY <1>5, <3>1 DEF Snapshot
    <3>3. QED
      BY <3>2 DEF EntryOf
  <2>4. ASSUME overlap = {}
        PROVE  mixed' = {} /\ \A v \in Workers : ~Open(v)'
    <3>1. \A v \in Workers : ~Open(v)'
      BY <1>1, <1>3, <2>4 DEF DInv, CInv, Beside
    <3>2. mixed = {} /\ c.read = rawItems
      BY <1>1, <2>4 DEF DInv, WholeOK
    <3>3. QED
      BY <2>1, <3>1, <3>2 DEF Outdated
  <2>5. \A p \in rawItems' : p.id \notin mixed' => \E x \in Items : \A f \in Copied : p[f] = x[f]
    BY <1>7, <1>9, <2>2, <2>3
  <2>6. QED
    BY <1>1, <2>4, <2>5 DEF WholeOK
<1>21. QED
  BY <1>12, <1>13, <1>14, <1>15, <1>16, <1>17, <1>19, <1>20 DEF DInv

-----------------------------------------------------------------------------
(* The theorems *)

(* At the start nothing is stored and no collection is open.               *)
LEMMA DataInitOK == CollectionInit => DInv
<1> SUFFICES ASSUME CollectionInit PROVE DInv
  OBVIOUS
<1>1. \A w \in Workers : coll[w] = Closed /\ ~Open(w) /\ ~Listed(w) /\ ~HoldsRows(coll[w])
  BY DEF CollectionInit, Closed, Open, Listed, HoldsRows
<1>2. RunsOK /\ SeenOK /\ OwnOK /\ ApartOK
  BY <1>1 DEF RunsOK, SeenOK, OwnOK, ApartOK
<1>3. NumbersOK /\ RowsOK /\ StoredOK /\ WholeOK
  BY <1>1 DEF CollectionInit, NumbersOK, RowsOK, Unique, StoredOK, ClustersAreEvents, WholeOK
<1>4. QED
  BY <1>2, <1>3, CollectionInitOK DEF DInv

(* Every step keeps the invariant.                                         *)
LEMMA DataNextOK == DInv /\ [CollectionNext]_collVars => DInv'
<1> SUFFICES ASSUME DInv, [CollectionNext]_collVars PROVE DInv'
  OBVIOUS
<1>1. CInv'
  BY CollectionNextOK DEF DInv
<1>2. ASSUME NEW w \in Workers, Abort(w)
      PROVE  DInv'
  BY <1>1, <1>2, DataCloseKeeps DEF Abort
<1>3. CASE UNCHANGED collVars
  <2>1. RunsOK' /\ NumbersOK' /\ SeenOK' /\ OwnOK'
    BY <1>3 DEF collVars, DInv, RunsOK, NumbersOK, Numbered, SeenOK, OwnOK, Open, Listed
  <2>2. RowsOK' /\ ApartOK' /\ StoredOK' /\ WholeOK'
    BY <1>3 DEF collVars, DInv, RowsOK, ApartOK, ExtFree, StoredOK, ClustersAreEvents, WholeOK, Open
  <2>3. QED
    BY <1>1, <2>1, <2>2 DEF DInv
<1>4. QED
  BY <1>1, <1>2, <1>3, DataLookKeeps, DataWriteKeeps, DataListKeeps, DataReplaceKeeps, DataCommitKeeps
  DEF CollectionNext, Quiet

(* The invariant holds in every behaviour.                                 *)
LEMMA DataInvariant == CollectionSpec => []DInv
BY DataInitOK, DataNextOK, PTL DEF CollectionSpec

(* Rows keep to what was collected, are unique by id and external id, and  *)
(* are there for every cluster they are a source of.                       *)
THEOREM CollectionTyped == CollectionSpec => []CollectionTypeOK
<1>1. ASSUME DInv
      PROVE  CollectionTypeOK
  <2>1. \A r \in rawItems, f \in {"ext", "url", "hash", "title", "at", "heat"} :
          \E x \in Items : r[f] = x[f]
    BY <1>1 DEF DInv, RowsOK, RowOK, Copied
  <2>2. QED
    BY <1>1, <2>1 DEF DInv, RowsOK, Unique, StoredOK, CollectionTypeOK, IdsOf
<1>2. QED
  BY <1>1, DataInvariant, PTL

(* Deduplication drops an item only for a kept one with a key of it, and   *)
(* keeps no two items with one key.                                        *)
THEOREM OnlyDuplicatesDropped == CollectionSpec => []DuplicatesDropped
<1>1. ASSUME DInv
      PROVE  DuplicatesDropped
  <2> SUFFICES ASSUME NEW w \in Workers
               PROVE  LET kept == coll[w].kept
                      IN  /\ \A i, j \in DOMAIN kept : i # j => ~SameKey(kept[i], kept[j])
                          /\ \A i \in DOMAIN coll[w].fetched : \E j \in DOMAIN kept :
                               SameKey(coll[w].fetched[i], kept[j])
    BY DEF DuplicatesDropped
  <2>1. CASE Open(w)
    <3>1. Snapshot(coll[w])
      BY <1>1, <2>1 DEF DInv, RunsOK
    <3>2. DOMAIN coll[w].fetched = 1..Len(coll[w].fetched)
      BY <3>1 DEF Snapshot
    <3>3. DOMAIN coll[w].kept = 1..Len(coll[w].kept)
      BY <3>1 DEF Snapshot
    <3>4. \A x \in ToSet(coll[w].kept) : \E j \in DOMAIN coll[w].kept : x = coll[w].kept[j]
      BY DEF ToSet
    <3>5. QED
      BY <3>1, <3>2, <3>4 DEF Snapshot, Distinct, Covers
  <2>2. CASE ~Open(w)
    <3>1. coll[w].fetched = <<>> /\ coll[w].kept = <<>>
      BY <1>1, <2>2 DEF DInv, RunsOK, Closed
    <3>2. QED
      BY <3>1
  <2>3. QED
    BY <2>1, <2>2
<1>2. QED
  BY <1>1, DataInvariant, PTL

(* A cluster is about one event, and was founded by an item that no other  *)
(* cluster of the collection attracted as it stood then.                   *)
THEOREM EventsClustered == CollectionSpec => []ClustersAreEvents
<1>1. DInv => ClustersAreEvents
  BY DEF DInv, StoredOK
<1>2. QED
  BY <1>1, DataInvariant, PTL

(* A stored row holds the values of one collected item, whatever was       *)
(* upserted into it, unless its last update was computed from a reading    *)
(* that had become outdated; and there is none before two have overlapped. *)
THEOREM RowsOfItems == CollectionSpec => []RowsAreItems
<1>1. ASSUME DInv
      PROVE  RowsAreItems
  <2>1. \A f \in {"url", "hash", "title", "at", "heat"} : f \in Copied
    BY DEF Copied
  <2>2. QED
    BY <1>1, <2>1 DEF DInv, WholeOK, RowsAreItems
<1>2. QED
  BY <1>1, DataInvariant, PTL

(* The rules judge a row by its platform, its tag and its words: a row     *)
(* that holds those of news is related.                                    *)
LEMMA NewsRelated ==
  ASSUME NEW x \in Items, Newsworthy(x), ~Misdated(x), NEW r, EntryOf(r, x), PlatformsApart
  PROVE  InWindow(r.at) /\ Related(r)
<1>1. /\ x.platform \in {"cls", "baidu"} /\ x.tag \in {"finance", "fun", "none"}
      /\ x.platform = "cls" => x.tag = "none"
      /\ x.words.finance \in Nat
  BY ItemsOK DEF ItemOK, WordsOK
<1>2. r.platform = x.platform /\ r.at = x.at /\ r.tag = x.tag /\ r.words = x.words
  BY DEF EntryOf, Copied
<1>3. InWindow(r.at)
  <2>1. x.at \in Int
    BY ItemsOK DEF ItemOK
  <2>2. -12 <= x.at /\ x.at <= 15
    BY <2>1 DEF Newsworthy, Instant, Misdated
  <2>3. QED
    BY <1>2, <2>2 DEF InWindow, WindowStart, WindowEnd
<1>4. r.words.fun = 0 /\ r.words.finance \in Nat /\ r.tag # "fun"
  BY <1>1, <1>2 DEF Newsworthy
<1>5. BaseScore(r.platform) = IF r.platform = "cls" THEN 400 ELSE 80
  BY DEF BaseScore
<1>6. TagScore(r.tag) = IF r.tag = "finance" THEN 150 ELSE 0
  BY <1>1, <1>2, <1>4, Zenon DEF TagScore
<1>7. ASSUME NEW n \in Nat, NEW b \in Int, NEW t \in Int,
             r.words.finance = n, BaseScore(r.platform) = b, TagScore(r.tag) = t,
             b + 120 * n + t >= 300
      PROVE  Related(r)
  <2>1. ~(0 > n)
    BY <1>7
  <2>2. b + 120 * n - 240 * 0 + t >= 300
    BY <1>7
  <2>3. QED
    BY <1>4, <1>7, <2>1, <2>2 DEF Related, FinanceScore
<1>8. PICK n \in Nat : r.words.finance = n
  BY <1>4
<1>9. CASE x.platform = "cls"
  <2>1. BaseScore(r.platform) = 400 /\ TagScore(r.tag) = 0
    BY <1>1, <1>2, <1>5, <1>6, <1>9
  <2>2. 400 + 120 * n + 0 >= 300
    OBVIOUS
  <2>3. QED
    BY <1>3, <1>7, <1>8, <2>1, <2>2
<1>10. CASE x.platform = "baidu" /\ x.tag = "finance"
  <2>1. BaseScore(r.platform) = 80 /\ TagScore(r.tag) = 150
    BY <1>2, <1>5, <1>6, <1>10
  <2>2. n >= 1
    BY <1>2, <1>8, <1>10 DEF Newsworthy
  <2>3. 80 + 120 * n + 150 >= 300
    BY <2>2
  <2>4. QED
    BY <1>3, <1>7, <1>8, <2>1, <2>3
<1>11. CASE x.platform = "baidu" /\ x.tag = "none"
  <2>1. BaseScore(r.platform) = 80 /\ TagScore(r.tag) = 0
    BY <1>2, <1>5, <1>6, <1>11
  <2>2. n >= 2
    BY <1>2, <1>8, <1>11 DEF Newsworthy
  <2>3. 80 + 120 * n + 0 >= 300
    BY <2>2
  <2>4. QED
    BY <1>3, <1>7, <1>8, <2>1, <2>3
<1>12. QED
  BY <1>1, <1>4, <1>2, <1>9, <1>10, <1>11 DEF Newsworthy

(* If the platforms are apart, news that was fetched is lost only to an    *)
(* earlier item with a key of it, or because of the clock it was collected *)
(* by: deduplication, upsert, window, filter and clustering lose nothing.  *)
THEOREM NewsNeverLost ==
  ASSUME PlatformsApart
  PROVE  CollectionSpec => []NewsCollected
<1>1. ASSUME DInv, NEW w \in Workers, coll[w].pc = "commit",
             NEW i \in DOMAIN coll[w].fetched, Newsworthy(coll[w].fetched[i])
      PROVE  LET c == coll[w]
                 x == c.fetched[i]
             IN  \/ \E j \in DOMAIN c.kept : c.kept[j] = x /\ InCluster(c, j)
                 \/ \E m \in 1..(i-1) : c.fetched[m] \in ToSet(c.kept) /\ SameKey(x, c.fetched[m])
                 \/ Misdated(x)
  <2> DEFINE c == coll[w]
             x == c.fetched[i]
             S == ToSet(c.entries)
  <2>1. Snapshot(c) /\ c.own = NewClusters(c.no, c.entries)
    BY <1>1 DEF DInv, RunsOK, OwnOK, Open, Listed
  <2>2. /\ i \in 1..Len(c.fetched) /\ Len(c.fetched) \in Nat
        /\ DOMAIN c.kept = 1..Len(c.kept) /\ c.entries \in Seq(S)
        /\ DOMAIN c.entries = 1..Len(c.kept)
    BY <2>1 DEF Snapshot
  <2>3. PICK m \in 1..i : c.fetched[m] \in ToSet(c.kept) /\ SameKey(x, c.fetched[m])
    BY <2>1, <2>2 DEF Snapshot, Covers
  <2>4. m \in 1..(i-1) \/ m = i
    BY <2>2
  <2>5. ASSUME m = i, ~Misdated(x)
        PROVE  \E j \in DOMAIN c.kept : c.kept[j] = x /\ InCluster(c, j)
    <3>1. PICK j \in DOMAIN c.kept : c.kept[j] = x
      BY <2>3, <2>5 DEF ToSet
    <3> DEFINE r == c.entries[j]
    <3>2. EntryOf(r, x) /\ r \in S /\ x \in Items
      <4>1. j \in 1..Len(c.kept) /\ r \in S
        BY <2>2, <3>1 DEF ToSet
      <4>2. EntryOf(r, x)
        BY <2>1, <3>1, <4>1 DEF Snapshot
      <4>3. c.kept[j] \in Items
        BY <2>1, <4>1 DEF Snapshot
      <4>4. QED
        BY <3>1, <4>1, <4>2, <4>3
    <3>3. InWindow(r.at) /\ Related(r)
      BY <1>1, <2>5, <3>2, NewsRelated
    <3>4. r \in RelevantOf(c.entries)
      BY <3>2, <3>3 DEF RelevantOf
    <3>5. ASSUME NEW e \in S
          PROVE  e.at \in Int
      BY <2>1, EntryTimes
    <3> HIDE DEF S, r
    <3>6. \E d \in NewClusters(c.no, c.entries) : r \in ToSet(d.members)
      BY <2>2, <3>4, <3>5, OwnClusters
    <3>7. \A f \in {"title", "url", "hash", "at"} : r[f] = c.kept[j][f]
      BY <3>1, <3>2 DEF EntryOf, Copied
    <3>8. InCluster(c, j)
      BY <2>1, <3>6, <3>7 DEF InCluster, r
    <3>9. QED
      BY <3>1, <3>8
  <2>6. QED
    BY <2>3, <2>4, <2>5
<1>2. DInv => NewsCollected
  BY <1>1 DEF NewsCollected
<1>3. QED
  BY <1>2, DataInvariant, PTL

===============================================================================
