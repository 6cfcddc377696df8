----------------------------- MODULE SyncProofs -----------------------------
(***************************************************************************)
(* What a client is told, for any number of rows, transactions, members,   *)
(* sessions and requests: the pages of entity/sync_entities (EntitySync),  *)
(* the announcements of reads (ReadCursor) and the broadcasts of a room    *)
(* (RoomFeed).                                                             *)
(***************************************************************************)
EXTENDS EntitySync, Sequences, FiniteSetTheorems, WellFoundedInduction, TLAPS

-----------------------------------------------------------------------------
(* A bounded set of numbers has a greatest one.                              *)

Less == {xy \in Nat \X Nat : xy[1] < xy[2]}

LEMMA LessWF == IsWellFoundedOn(Less, Nat)
  BY NatLessThanWellFounded DEF OpToRel, Less

LEMMA LeastOf ==
    ASSUME NEW T \in SUBSET Nat, T # {}
    PROVE  \E x \in T : \A y \in T : x <= y
  <1>1. PICK x \in T : \A y \in T : <<y, x>> \notin Less
    BY LessWF, WFMin
  <1>2. \A y \in T : <<y, x>> \in Nat \X Nat /\ <<y, x>>[1] = y /\ <<y, x>>[2] = x
    OBVIOUS
  <1>3. \A y \in T : ~(y < x)
    BY <1>1, <1>2 DEF Less
  <1> QED BY <1>3

LEMMA GreatestOf ==
    ASSUME NEW n \in Nat, NEW S \in SUBSET (0 .. n), S # {}
    PROVE  \E x \in S : \A y \in S : x >= y
  <1> DEFINE T == {k \in Nat : n - k \in S}
  <1>1. \A y \in S : n - y \in T
    OBVIOUS
  <1>2. T \in SUBSET Nat /\ T # {}
    BY <1>1
  <1>3. PICK m \in T : \A k \in T : m <= k
    BY <1>2, LeastOf
  <1>4. \A y \in S : n - m >= y
    BY <1>1, <1>3
  <1> QED BY <1>3, <1>4

LEMMA MaxOf ==
    ASSUME NEW n \in Nat, NEW S \in SUBSET (0 .. n), S # {}
    PROVE  Max(S) \in S /\ Max(S) \in Nat /\ \A y \in S : y <= Max(S)
  <1>1. \E x \in S : \A y \in S : x >= y
    BY GreatestOf
  <1>2. Max(S) \in S /\ \A y \in S : Max(S) >= y
    BY <1>1 DEF Max
  <1>3. PICK m \in 0 .. n : m = Max(S)
    BY <1>2
  <1>4. \A y \in S : y \in 0 .. n /\ m >= y
    BY <1>2, <1>3
  <1> QED BY <1>2, <1>3, <1>4

-----------------------------------------------------------------------------
(* Pages of entities.                                                        *)

Changes == {"no", "gone", "back", "overtaken", "beside"}

Numbered ==
    /\ drawn \in Nat /\ shown \in 0 .. drawn /\ since \in 0 .. shown
    /\ version \in [Rows -> 0 .. drawn]
    /\ \A t \in Txs : \A r \in Written(t) : writing[t][r] \in 0 .. drawn
    /\ quiet \in [Items -> Changes]
    /\ writing = [t \in Txs |-> writing[t]]

(* An item that is not listed has gone, or nobody was ever shown it. *)
GoneAreNotListed == \A item \in Items : Visible(version, item) \/ quiet[item] \in {"no", "gone"}

(* What a client has of an item is right as far as the item did not change   *)
(* behind the pages.                                                         *)
Agrees(item, has) ==
    /\ quiet[item] = "no" => has = View(version, item)
    /\ quiet[item] = "beside" => \A r \in item.own : has[r] = version[r]

(* A client at a version n will be shown an item, or has it right. *)
UpTo(n, has) ==
    \A item \in Items : (Visible(version, item) /\ At(item) > n) \/ Agrees(item, has[item])

(* What the client will have once it takes a page. *)
Taken(p) == [item \in Items |-> IF item \in DOMAIN p.seen THEN p.seen[item] ELSE copy[item]]

PagesTrue == \A p \in page : p.next \in 0 .. shown /\ UpTo(p.next, Taken(p))

EntityInv == Numbered /\ GoneAreNotListed /\ UpTo(since, copy) /\ PagesTrue

LEMMA TopOf ==
    ASSUME ItemsOfRows, NEW item \in Items, NEW n \in Nat, NEW f \in [Rows -> 0 .. n]
    PROVE  /\ VersionOf(f, item) \in 0 .. n
           /\ item.own \subseteq Rows /\ item.own # {}
  <1>1. PICK S : S = {f[r] : r \in item.own}
    OBVIOUS
  <1>2. item.own \subseteq Rows /\ item.own # {}
    BY DEF Rows, ItemsOfRows
  <1>3. S \in SUBSET (0 .. n) /\ S # {}
    BY <1>1, <1>2
  <1>4. Max(S) \in S
    BY <1>3, MaxOf
  <1> QED BY <1>1, <1>2, <1>3, <1>4 DEF VersionOf

(* An item that looks the same is listed as before, at the same version. *)
LEMMA SameView ==
    ASSUME ItemsOfRows, NEW item \in Items, NEW f, NEW g, View(f, item) = View(g, item)
    PROVE  /\ Visible(f, item) <=> Visible(g, item)
           /\ Visible(f, item) => VersionOf(f, item) = VersionOf(g, item) /\ \A r \in item.own : f[r] = g[r]
  <1> DEFINE Shows == item.own \cup item.side
  <1>1. PICK r \in Shows : TRUE
    BY DEF ItemsOfRows
  <1>2. \A h : Visible(h, item) => DOMAIN View(h, item) = Shows /\ \A q \in Shows : View(h, item)[q] = h[q]
    BY DEF View
  <1>3. \A h : ~Visible(h, item) => DOMAIN View(h, item) = {}
    BY DEF View, Nothing
  <1>4. Visible(f, item) <=> Visible(g, item)
    BY <1>1, <1>2, <1>3
  <1>5. ASSUME Visible(f, item) PROVE \A q \in item.own : f[q] = g[q]
    BY <1>2, <1>4, <1>5
  <1>6. ASSUME Visible(f, item) PROVE VersionOf(f, item) = VersionOf(g, item)
    <2>1. {f[q] : q \in item.own} = {g[q] : q \in item.own}
      BY <1>5, <1>6
    <2> QED BY <2>1 DEF VersionOf
  <1> QED BY <1>4, <1>5, <1>6

LEMMA WriterKeeps ==
    ASSUME EntityInv, NEW t \in Txs, NEW r \in Rows, Write(t, r) \/ Remove(t, r)
    PROVE  EntityInv'
  <1>1. PICK n \in 0 .. drawn' : Sets(t, r, n) /\ drawn' \in Nat /\ drawn' >= drawn
    BY DEF Write, Remove, EntityInv, Numbered
  <1>2. /\ UNCHANGED <<version, since, copy, page, shown, quiet>>
        /\ writing' = [writing EXCEPT ![t] = [q \in Written(t) \cup {r} |-> IF q = r THEN n ELSE writing[t][q]]]
    BY <1>1 DEF Sets
  <1>3. Numbered'
    <2>1. \A u \in Txs : \A q \in Written(u) : writing[u][q] \in 0 .. drawn'
      BY <1>1 DEF EntityInv, Numbered
    <2>2. \A u \in Txs : writing'[u] = IF u = t THEN [q \in Written(t) \cup {r} |-> IF q = r THEN n ELSE writing[t][q]]
                                       ELSE writing[u]
      BY <1>2 DEF EntityInv, Numbered
    <2>3. \A u \in Txs : \A q \in Written(u)' : writing'[u][q] \in 0 .. drawn'
      <3> SUFFICES ASSUME NEW u \in Txs, NEW q \in DOMAIN writing'[u] PROVE writing'[u][q] \in 0 .. drawn'
        BY DEF Written
      <3>1. CASE u = t
        <4>1. q \in Written(t) \cup {r} /\ writing'[u][q] = IF q = r THEN n ELSE writing[t][q]
          BY <2>2, <3>1
        <4> QED BY <2>1, <4>1
      <3>2. CASE u # t
        BY <2>1, <2>2, <3>2 DEF Written
      <3> QED BY <3>1, <3>2
    <2>4. writing' = [u \in Txs |-> writing'[u]]
      BY <1>2 DEF EntityInv, Numbered
    <2>5. drawn \in Nat /\ shown \in 0 .. drawn' /\ version \in [Rows -> 0 .. drawn']
      BY <1>1 DEF EntityInv, Numbered
    <2> QED BY <1>1, <1>2, <2>3, <2>4, <2>5 DEF EntityInv, Numbered
  <1>4. GoneAreNotListed' /\ UpTo(since, copy)' /\ PagesTrue'
    BY <1>2 DEF EntityInv, GoneAreNotListed, UpTo, Agrees, At, PagesTrue, Taken
  <1> QED BY <1>3, <1>4 DEF EntityInv

(* A transaction that ends gives its rows up. *)
LEMMA EndsKeepsNumbers ==
    ASSUME EntityInv, NEW t \in Txs, writing' = [writing EXCEPT ![t] = Nothing], UNCHANGED drawn
    PROVE  /\ \A u \in Txs : \A r \in Written(u)' : writing'[u][r] \in 0 .. drawn'
           /\ writing' = [u \in Txs |-> writing'[u]]
  <1>1. \A u \in Txs : writing'[u] = IF u = t THEN Nothing ELSE writing[u]
    BY DEF EntityInv, Numbered
  <1>2. DOMAIN Nothing = {}
    BY DEF Nothing
  <1>3. \A u \in Txs : \A r \in Written(u)' : u # t /\ r \in Written(u) /\ writing'[u] = writing[u]
    BY <1>1, <1>2 DEF Written
  <1> QED BY <1>3 DEF EntityInv, Numbered

(* A commit leaves an item as it looks, or at a version beyond what pages    *)
(* have shown, or changed behind them.                                       *)
LEMMA CommitKeeps ==
    ASSUME ItemsOfRows, EntityInv, NEW t \in Txs, Commit(t)
    PROVE  EntityInv'
  <1>1. /\ version' = [r \in Rows |-> IF r \in Written(t) THEN writing[t][r] ELSE version[r]]
        /\ quiet' = [item \in Items |-> Quieted(version', item)]
        /\ writing' = [writing EXCEPT ![t] = Nothing]
        /\ UNCHANGED <<drawn, since, copy, page, shown>>
    BY DEF Commit
  <1>2. drawn \in Nat /\ version \in [Rows -> 0 .. drawn] /\ shown \in 0 .. drawn
    BY DEF EntityInv, Numbered
  <1>3. PICK after \in [Rows -> 0 .. drawn] : after = version'
    <2>1. \A r \in Rows : version'[r] \in 0 .. drawn
      BY <1>1, <1>2 DEF EntityInv, Numbered
    <2> QED BY <1>1, <2>1
  <1>4. \A item \in Items : quiet[item] \in Changes /\ quiet'[item] = Quieted(after, item)
    BY <1>1, <1>3 DEF EntityInv, Numbered
  <1>5. Numbered'
    <2>1. \A item \in Items : Quieted(after, item) \in Changes
      BY <1>4 DEF Quieted, Changes
    <2>2. quiet' \in [Items -> Changes]
      BY <1>1, <1>3, <2>1
    <2>3. /\ \A u \in Txs : \A r \in Written(u)' : writing'[u][r] \in 0 .. drawn'
          /\ writing' = [u \in Txs |-> writing'[u]]
      BY <1>1, EndsKeepsNumbers
    <2> QED BY <1>1, <1>3, <2>2, <2>3 DEF EntityInv, Numbered
  <1>6. GoneAreNotListed'
    <2> SUFFICES ASSUME NEW item \in Items, ~Visible(after, item)
                 PROVE  quiet'[item] \in {"no", "gone"}
      BY <1>3 DEF GoneAreNotListed
    <2>1. CASE View(after, item) = View(version, item)
      <3>1. ~Visible(version, item)
        BY <2>1, SameView
      <3> QED BY <1>4, <2>1, <3>1 DEF EntityInv, GoneAreNotListed, Quieted
    <2>2. CASE View(after, item) # View(version, item)
      BY <1>4, <2>2 DEF Quieted
    <2> QED BY <2>1, <2>2
  <1>7. ASSUME NEW n \in 0 .. shown, NEW has, UpTo(n, has), NEW item \in Items
        PROVE  (Visible(after, item) /\ VersionOf(after, item) > n)
               \/ /\ quiet'[item] = "no" => has[item] = View(after, item)
                  /\ quiet'[item] = "beside" => \A r \in item.own : has[item][r] = after[r]
    <2>1. (Visible(version, item) /\ VersionOf(version, item) > n) \/ Agrees(item, has[item])
      BY <1>7 DEF UpTo, At
    <2>2. VersionOf(after, item) \in Nat /\ VersionOf(version, item) \in Nat
      BY <1>2, <1>3, TopOf
    <2>3. CASE View(after, item) = View(version, item)
      <3>1. quiet'[item] = quiet[item]
        BY <1>4, <2>3 DEF Quieted
      <3>2. CASE Visible(version, item)
        <4>1. Visible(after, item) /\ VersionOf(after, item) = VersionOf(version, item)
              /\ \A r \in item.own : after[r] = version[r]
          BY <2>3, <3>2, SameView
        <4> QED BY <2>1, <2>3, <3>1, <4>1 DEF Agrees
      <3>3. CASE ~Visible(version, item)
        <4>1. quiet[item] # "beside" /\ Agrees(item, has[item])
          BY <2>1, <3>3 DEF EntityInv, GoneAreNotListed
        <4> QED BY <2>3, <3>1, <4>1 DEF Agrees
      <3> QED BY <3>2, <3>3
    <2>4. CASE View(after, item) # View(version, item) /\ Visible(after, item) /\ VersionOf(after, item) > shown
      BY <1>2, <2>2, <2>4
    <2>5. CASE View(after, item) # View(version, item) /\ ~(Visible(after, item) /\ VersionOf(after, item) > shown)
      <3>1. CASE Visible(after, item) /\ Visible(version, item) /\ ~(\E r \in item.own : after[r] # version[r])
        <4>1. \A r \in item.own : after[r] = version[r]
          BY <3>1
        <4>2. {after[r] : r \in item.own} = {version[r] : r \in item.own}
          BY <4>1
        <4>3. VersionOf(after, item) = VersionOf(version, item)
          BY <4>2 DEF VersionOf
        <4>4. quiet'[item] = IF quiet[item] = "no" THEN "beside" ELSE quiet[item]
          BY <1>4, <2>5, <3>1 DEF Quieted
        <4>5. \A r \in item.own : View(version, item)[r] = version[r]
          BY <3>1 DEF View
        <4> QED BY <2>1, <3>1, <4>1, <4>3, <4>4, <4>5 DEF Agrees
      <3>2. CASE ~(Visible(after, item) /\ Visible(version, item) /\ ~(\E r \in item.own : after[r] # version[r]))
        <4>1. quiet'[item] \in {"gone", "back", "overtaken"}
          BY <1>4, <2>5, <3>2 DEF Quieted
        <4> QED BY <4>1
      <3> QED BY <3>1, <3>2
    <2> QED BY <2>3, <2>4, <2>5
  <1>8. ASSUME NEW n \in 0 .. shown, NEW has, UpTo(n, has)
        PROVE  UpTo(n, has)'
    BY <1>3, <1>7, <1>8 DEF UpTo, Agrees, At
  <1>9. UpTo(since, copy)'
    <2>1. PICK has : has = copy
      OBVIOUS
    <2>2. PICK n \in 0 .. shown : n = since
      BY DEF EntityInv, Numbered
    <2>3. UpTo(n, has)'
      BY <1>8, <2>1, <2>2 DEF EntityInv
    <2> QED BY <1>1, <2>1, <2>2, <2>3 DEF UpTo
  <1>10. PagesTrue'
    <2> SUFFICES ASSUME NEW p \in page PROVE (p.next \in 0 .. shown /\ UpTo(p.next, Taken(p)))'
      BY <1>1 DEF PagesTrue
    <2>1. PICK has : has = Taken(p)
      OBVIOUS
    <2>2. p.next \in 0 .. shown /\ UpTo(p.next, has)
      BY <2>1 DEF EntityInv, PagesTrue
    <2>3. Taken(p)' = has
      BY <1>1, <2>1 DEF Taken
    <2>4. UpTo(p.next, has)'
      BY <1>8, <2>2
    <2> QED BY <1>1, <2>2, <2>3, <2>4 DEF UpTo
  <1> QED BY <1>5, <1>6, <1>9, <1>10 DEF EntityInv

LEMMA RollbackKeeps ==
    ASSUME EntityInv, NEW t \in Txs, Rollback(t)
    PROVE  EntityInv'
  <1>1. /\ writing' = [writing EXCEPT ![t] = Nothing]
        /\ UNCHANGED <<drawn, version, since, copy, page, shown, quiet>>
    BY DEF Rollback
  <1>2. /\ \A u \in Txs : \A r \in Written(u)' : writing'[u][r] \in 0 .. drawn'
        /\ writing' = [u \in Txs |-> writing'[u]]
    BY <1>1, EndsKeepsNumbers
  <1>3. Numbered'
    BY <1>1, <1>2 DEF EntityInv, Numbered
  <1>4. GoneAreNotListed' /\ UpTo(since, copy)' /\ PagesTrue'
    BY <1>1 DEF EntityInv, GoneAreNotListed, UpTo, Agrees, At, PagesTrue, Taken
  <1> QED BY <1>3, <1>4 DEF EntityInv

(* A page has all that is eligible up to its last item: what is not later    *)
(* than an item of the page has no more items before it.                     *)
LEMMA PageIsFull ==
    ASSUME ItemsOfRows, EntityInv, NEW n \in Nat, NEW m \in FirstItems(n), NEW item \in Eligible,
           At(item) <= At(m)
    PROVE  item \in FirstItems(n)
  <1>1. \A i \in Items : At(i) \in Nat
    BY TopOf DEF At, EntityInv, Numbered
  <1>2. Before(item) \subseteq Before(m)
    BY <1>1 DEF Before, Eligible, FirstItems
  <1>3. IsFiniteSet(Before(m))
    BY FS_Subset DEF Before, Eligible, ItemsOfRows
  <1>4. Cardinality(Before(item)) <= Cardinality(Before(m))
    BY <1>2, <1>3, FS_Subset
  <1>5. Cardinality(Before(m)) \in Nat /\ Cardinality(Before(item)) \in Nat
    BY <1>2, <1>3, FS_Subset, FS_CardinalityType
  <1>6. Cardinality(Before(m)) < n
    BY DEF FirstItems
  <1> QED BY <1>4, <1>5, <1>6 DEF FirstItems

LEMMA NextVersionIs ==
    ASSUME ItemsOfRows, EntityInv, NEW n \in Nat, NEW items, items = FirstItems(n)
    PROVE  /\ items = {} => NextVersion(items) = since
           /\ items # {} => \E m \in items : NextVersion(items) = At(m)
           /\ NextVersion(items) \in 0 .. drawn
  <1>1. PICK V : V = {At(item) : item \in items}
    OBVIOUS
  <1>2. \A i \in Items : At(i) \in 0 .. drawn
    BY TopOf DEF At, EntityInv, Numbered
  <1>3. items \subseteq Items /\ drawn \in Nat
    BY DEF FirstItems, Eligible, EntityInv, Numbered
  <1>4. CASE items = {}
    BY <1>4 DEF NextVersion, EntityInv, Numbered
  <1>5. CASE items # {}
    <2>1. V \in SUBSET (0 .. drawn) /\ V # {}
      BY <1>1, <1>2, <1>3, <1>5
    <2>2. Max(V) \in V
      BY <1>3, <2>1, MaxOf
    <2>3. NextVersion(items) = Max(V)
      BY <1>1, <1>5 DEF NextVersion
    <2> QED BY <1>1, <1>5, <2>1, <2>2, <2>3
  <1> QED BY <1>4, <1>5

LEMMA PullKeeps ==
    ASSUME ItemsOfRows, EntityInv, NEW n \in 1 .. Limit, Pull(n)
    PROVE  EntityInv'
  <1>1. PICK items : items = FirstItems(n)
    OBVIOUS
  <1>2. PICK next : next = NextVersion(items)
    OBVIOUS
  <1>3. PICK p : p = [seen |-> [item \in items |-> View(version, item)], next |-> next]
    OBVIOUS
  <1>4. /\ page' = {p} /\ shown' = Max({shown, next})
        /\ quiet' = [item \in Items |-> IF item \in items THEN "no" ELSE quiet[item]]
        /\ UNCHANGED <<drawn, version, writing, since, copy>>
    BY <1>1, <1>2, <1>3 DEF Pull
  <1>5. n \in Nat /\ drawn \in Nat /\ shown \in 0 .. drawn /\ since \in 0 .. shown
    BY DEF ItemsOfRows, EntityInv, Numbered
  <1>6. /\ items = {} => next = since
        /\ items # {} => \E m \in items : next = At(m)
        /\ next \in 0 .. drawn
    BY <1>1, <1>2, <1>5, NextVersionIs
  <1>7. shown <= shown' /\ next <= shown' /\ shown' \in 0 .. drawn
    <2>1. PICK S \in SUBSET (0 .. drawn) : S = {shown, next}
      BY <1>5, <1>6
    <2>2. Max(S) \in S /\ Max(S) \in Nat /\ \A y \in S : y <= Max(S)
      BY <1>5, <2>1, MaxOf
    <2> QED BY <1>4, <2>1, <2>2
  <1>8. items \subseteq Eligible /\ Eligible \subseteq Items
        /\ \A item \in Eligible : Visible(version, item) /\ At(item) > since
    BY <1>1 DEF FirstItems, Eligible
  <1>9. Numbered'
    BY <1>4, <1>5, <1>7 DEF EntityInv, Numbered, Written, Changes
  <1>10. GoneAreNotListed'
    BY <1>4 DEF EntityInv, GoneAreNotListed
  <1>11. UpTo(since, copy)'
    BY <1>4, <1>8 DEF EntityInv, UpTo, Agrees, At
  <1>12. p.next = next /\ DOMAIN p.seen = items /\ \A item \in items : p.seen[item] = View(version, item)
    BY <1>3
  <1>13. PICK has : has = Taken(p)'
    OBVIOUS
  <1>14. \A item \in Items : has[item] = IF item \in items THEN View(version, item) ELSE copy[item]
    BY <1>4, <1>12, <1>13 DEF Taken
  <1>15. UpTo(next, has)'
    <2> SUFFICES ASSUME NEW item \in Items, ~(Visible(version, item) /\ At(item) > next)
                 PROVE  /\ quiet'[item] = "no" => has[item] = View(version, item)
                        /\ quiet'[item] = "beside" => \A r \in item.own : has[item][r] = version[r]
      BY <1>4 DEF UpTo, Agrees, At
    <2>1. CASE item \in items
      BY <1>4, <1>14, <2>1
    <2>2. CASE item \notin items
      <3>1. \A i \in Items : At(i) \in Nat
        BY <1>5, TopOf DEF At, EntityInv, Numbered
      <3>2. item \notin Eligible
        <4> SUFFICES ASSUME item \in Eligible PROVE FALSE
          OBVIOUS
        <4>1. At(item) <= next /\ At(item) > since
          BY <1>5, <1>6, <1>8, <3>1
        <4>2. items # {}
          BY <1>5, <1>6, <3>1, <4>1
        <4>3. PICK m \in items : next = At(m)
          BY <1>6, <4>2
        <4> QED BY <1>1, <1>5, <2>2, <4>1, <4>3, PageIsFull
      <3>3. Agrees(item, copy[item])
        BY <3>2 DEF EntityInv, UpTo, Eligible
      <3> QED BY <1>4, <1>14, <2>2, <3>3 DEF Agrees
    <2> QED BY <2>1, <2>2
  <1>16. PagesTrue'
    BY <1>4, <1>5, <1>6, <1>7, <1>12, <1>13, <1>15 DEF PagesTrue, UpTo, Agrees, At
  <1> QED BY <1>9, <1>10, <1>11, <1>16 DEF EntityInv

LEMMA ClientKeeps ==
    ASSUME EntityInv, TakePage \/ LosePage
    PROVE  EntityInv'
  <1>1. CASE LosePage
    BY <1>1 DEF LosePage, EntityInv, Numbered, GoneAreNotListed, Written, UpTo, Agrees, At, PagesTrue, None
  <1>2. CASE TakePage
    <2>1. PICK p \in page : /\ copy' = Taken(p) /\ since' = p.next /\ page' = {}
                            /\ UNCHANGED <<drawn, version, writing, shown, quiet>>
      BY <1>2 DEF TakePage, Taken, None
    <2>2. p.next \in 0 .. shown /\ UpTo(p.next, Taken(p))
      BY DEF EntityInv, PagesTrue
    <2>3. Numbered' /\ GoneAreNotListed'
      BY <2>1, <2>2 DEF EntityInv, Numbered, GoneAreNotListed, Written
    <2>4. UpTo(since, copy)'
      BY <2>1, <2>2 DEF UpTo, Agrees, At
    <2>5. PagesTrue'
      BY <2>1 DEF PagesTrue
    <2> QED BY <2>3, <2>4, <2>5 DEF EntityInv
  <1> QED BY <1>1, <1>2

LEMMA EntityBegins ==
    ASSUME ItemsOfRows, Init
    PROVE  EntityInv
  <1>1. DOMAIN Nothing = {}
    BY DEF Nothing
  <1>2. Numbered /\ PagesTrue
    BY <1>1 DEF Init, Numbered, Written, PagesTrue, None, Changes
  <1>3. \A item \in Items : VersionOf(version, item) = 0
    <2> TAKE item \in Items
    <2>1. version \in [Rows -> 0 .. 0]
      BY DEF Init
    <2> QED BY <2>1, TopOf
  <1>4. \A item \in Items : ~Visible(version, item) /\ View(version, item) = Nothing
    BY <1>3 DEF Visible, View
  <1>5. GoneAreNotListed /\ UpTo(since, copy)
    BY <1>4 DEF Init, GoneAreNotListed, UpTo, Agrees
  <1> QED BY <1>2, <1>5 DEF EntityInv

(* However many rows, items and transactions there are, whichever rows an    *)
(* item has, shows beside them or needs to be seen, and wherever pages are   *)
(* cut, get lost or end early, a client only misses an item that went, came  *)
(* back or changed at a version that pages had passed, or changed in a row   *)
(* that does not count, since a page last had it (channel_service.rs         *)
(* take_sync_page and next_version_from_page, friend_service.rs              *)
(* sync_entities_page).                                                      *)
THEOREM PagesLoseNothing ==
    ASSUME ItemsOfRows
    PROVE  Spec => []OnlyQuietChangesAreMissed
  <1>1. Init => EntityInv
    BY EntityBegins
  <1>2. EntityInv /\ [Next]_vars => EntityInv'
    <2> SUFFICES ASSUME EntityInv, [Next]_vars PROVE EntityInv'
      OBVIOUS
    <2>1. CASE UNCHANGED vars
      BY <2>1 DEF vars, EntityInv, Numbered, GoneAreNotListed, Written, UpTo, Agrees, At, PagesTrue, Taken
    <2> QED BY <2>1, WriterKeeps, CommitKeeps, RollbackKeeps, PullKeeps, ClientKeeps DEF Next
  <1>3. EntityInv => OnlyQuietChangesAreMissed
    <2> SUFFICES ASSUME EntityInv, NEW item \in Items \ Eligible, copy[item] # View(version, item),
                        quiet[item] \notin {"gone", "back", "overtaken"}
                 PROVE  quiet[item] = "beside" /\ \A r \in item.own : copy[item][r] = version[r]
      BY DEF OnlyQuietChangesAreMissed, Missed
    <2>1. Agrees(item, copy[item])
      BY DEF EntityInv, UpTo, Eligible
    <2>2. quiet[item] \in Changes
      BY DEF EntityInv, Numbered
    <2> QED BY <2>1, <2>2 DEF Agrees, Changes
  <1> QED BY <1>1, <1>2, <1>3, PTL DEF Spec

-----------------------------------------------------------------------------
(* Announcements of reads.                                                   *)

CONSTANTS Members, Readers, Direct, Marks, MaxPts, MaxFaults
VARIABLES author, gone, memory, cursor, marking, told, failed, problems
Rc == INSTANCE ReadCursor

Marked == [id : Marks, user : Members, step : {"marked", "snapshot", "advanced"}, to : Nat, from : Nat]

Cursors ==
    /\ author \in Seq(Members)
    /\ memory \in [Members -> 0 .. Len(author)] /\ cursor \in [Members -> 0 .. Len(author)]
    /\ told \in [Members -> Nat] /\ marking \subseteq Marked

(* A cursor never goes back, so a request that saw it or stored it is never  *)
(* ahead of it.                                                              *)
Behind(r) ==
    /\ r.to <= Len(author)
    /\ r.step = "snapshot" => r.from <= cursor[r.user]
    /\ r.step = "advanced" => r.to <= cursor[r.user]

Advanced(u) == {r \in marking : r.user = u /\ r.step = "advanced"}

(* What is not announced yet is in the range of a request that is about to   *)
(* announce it.                                                              *)
PeersHear(u) ==
    (\E r \in Advanced(u) : cursor[u] <= r.to) \/ \A v \in Members \ {u} : told[v] >= cursor[u]
AuthorsHear(u) ==
    \A p \in 1 .. cursor[u] :
        author[p] # u /\ p \notin gone =>
            told[author[p]] >= p \/ \E r \in Advanced(u) : r.from < p /\ p <= r.to
Hears(u) == IF Direct THEN PeersHear(u) ELSE AuthorsHear(u)

ReadInv ==
    /\ Cursors
    /\ \A r \in marking : Behind(r)
    /\ \A u \in Members \ failed : Hears(u)

LEMMA LargerIs ==
    ASSUME NEW a \in Nat, NEW b \in Nat
    PROVE  Rc!Larger(a, b) \in Nat /\ Rc!Larger(a, b) >= a /\ Rc!Larger(a, b) >= b /\ Rc!Larger(a, b) \in {a, b}
  BY DEF Rc!Larger

(* Requests only move, and no one has to hear more. *)
LEMMA MarksMove ==
    ASSUME ReadInv, NEW out, NEW in, marking' = (marking \ out) \cup in,
           in \subseteq Marked, \A r \in in : Behind(r)',
           \A r \in out : r.step # "advanced" \/ r.user \in failed',
           failed \subseteq failed', memory' \in [Members -> 0 .. Len(author)],
           UNCHANGED <<author, gone, cursor, told>>
    PROVE  ReadInv'
  <1>1. Cursors' /\ \A r \in marking' : Behind(r)'
    BY DEF ReadInv, Cursors, Behind
  <1>2. \A u \in Members \ failed' : Advanced(u) \subseteq Advanced(u)'
    BY DEF Advanced
  <1>3. \A u \in Members \ failed' : Hears(u)'
    BY <1>2 DEF ReadInv, Hears, PeersHear, AuthorsHear
  <1> QED BY <1>1, <1>3 DEF ReadInv


LEMMA ReadRequestComes ==
    ASSUME ReadInv, Rc!ReadersAreMembers, NEW m \in Marks, NEW u \in Readers,
           NEW requested \in 0 .. MaxPts, NEW visible \in 0 .. MaxPts,
           Rc!MarkReadPts(m, u, requested, visible)
    PROVE  ReadInv'
  <1>1. PICK to : to = Rc!Accepted(requested, visible)
    OBVIOUS
  <1>2. u \in Members /\ to \in Nat /\ to <= Len(author) /\ Len(author) \in Nat
    BY <1>1 DEF Rc!MarkReadPts, Rc!Accepted, Rc!ReadersAreMembers, ReadInv, Cursors
  <1>3. memory' = [memory EXCEPT ![u] = Rc!Larger(@, to)]
    BY <1>1 DEF Rc!MarkReadPts
  <1>4. memory' \in [Members -> 0 .. Len(author)]
    BY <1>2, <1>3 DEF Rc!Larger, ReadInv, Cursors
  <1>5. PICK far \in 0 .. Len(author) : far = memory'[u]
    BY <1>2, <1>4
  <1>6. PICK r : r = [id |-> m, user |-> u, step |-> "marked", to |-> far, from |-> 0]
    OBVIOUS
  <1>7. marking' = (marking \ {}) \cup {r} /\ UNCHANGED <<author, gone, cursor, told, failed>>
    BY <1>5, <1>6 DEF Rc!MarkReadPts
  <1>8. r \in Marked /\ r.step = "marked" /\ r.to = far
    BY <1>2, <1>5, <1>6 DEF Marked
  <1>9. Behind(r)'
    BY <1>2, <1>5, <1>7, <1>8 DEF Behind
  <1>10. PICK out, in : out = {} /\ in = {r}
    OBVIOUS
  <1>11. \A q \in in : Behind(q)'
    BY <1>9, <1>10 DEF Behind
  <1>12. /\ marking' = (marking \ out) \cup in /\ in \subseteq Marked
         /\ \A q \in out : q.step # "advanced" \/ q.user \in failed'
    BY <1>7, <1>8, <1>10
  <1> QED BY <1>4, <1>7, <1>11, <1>12, MarksMove

LEMMA SnapshotKeeps ==
    ASSUME ReadInv, NEW m \in Marks, Rc!SnapshotCursor(m)
    PROVE  ReadInv'
  <1>1. PICK r \in marking : /\ r.step = "marked"
                             /\ marking' = (marking \ {r}) \cup {[r EXCEPT !.step = "snapshot", !.from = cursor[r.user]]}
    BY DEF Rc!SnapshotCursor, Rc!Step
  <1>2. r \in Marked /\ Behind(r) /\ UNCHANGED <<author, gone, memory, cursor, told, failed>>
    BY <1>1 DEF ReadInv, Cursors, Rc!SnapshotCursor
  <1>3. PICK from \in Nat : from = cursor[r.user]
    BY <1>2 DEF Marked, ReadInv, Cursors
  <1>4. PICK s : s = [r EXCEPT !.step = "snapshot", !.from = from]
    OBVIOUS
  <1>5. s \in Marked /\ s.step = "snapshot" /\ s.from = from /\ s.to = r.to /\ s.user = r.user
    BY <1>2, <1>3, <1>4 DEF Marked
  <1>6. Behind(s)'
    BY <1>2, <1>3, <1>5 DEF Behind
  <1>7. PICK out, in : out = {r} /\ in = {s}
    OBVIOUS
  <1>8. marking' = (marking \ out) \cup in
    BY <1>1, <1>3, <1>4, <1>7
  <1>9. \A q \in in : Behind(q)'
    BY <1>6, <1>7 DEF Behind
  <1>10. in \subseteq Marked /\ \A q \in out : q.step # "advanced" \/ q.user \in failed'
    BY <1>1, <1>5, <1>7
  <1> QED BY <1>2, <1>8, <1>9, <1>10, MarksMove DEF ReadInv, Cursors

(* The cursor moves, and the request that moved it announces everything      *)
(* from where it saw the cursor to where it is now.                          *)
LEMMA StoreCursorKeeps ==
    ASSUME ReadInv, NEW m \in Marks, Rc!StoreCursor(m)
    PROVE  ReadInv'
  <1>1. PICK r \in marking : /\ r.step = "snapshot"
                             /\ cursor' = [cursor EXCEPT ![r.user] = Rc!Larger(@, r.to)]
                             /\ marking' = IF r.to > r.from
                                  THEN (marking \ {r}) \cup {[r EXCEPT !.step = "advanced", !.to = cursor'[r.user]]}
                                  ELSE marking \ {r}
    BY DEF Rc!StoreCursor, Rc!Step
  <1>2. /\ r \in Marked /\ Behind(r) /\ UNCHANGED <<author, gone, memory, told, failed>>
    BY <1>1 DEF ReadInv, Cursors, Rc!StoreCursor
  <1>3. /\ r.user \in Members /\ r.to \in Nat /\ r.from \in Nat /\ Len(author) \in Nat
        /\ cursor[r.user] \in 0 .. Len(author) /\ r.to <= Len(author) /\ r.from <= cursor[r.user]
    BY <1>1, <1>2 DEF Marked, ReadInv, Cursors, Behind
  <1>4. PICK c \in 0 .. Len(author) : c = Rc!Larger(cursor[r.user], r.to)
    BY <1>3 DEF Rc!Larger
  <1>5. c >= cursor[r.user] /\ c >= r.to /\ (r.to <= r.from => c = cursor[r.user])
    BY <1>3, <1>4 DEF Rc!Larger
  <1>6. /\ cursor' \in [Members -> 0 .. Len(author)] /\ cursor'[r.user] = c
        /\ \A u \in Members \ {r.user} : cursor'[u] = cursor[u]
        /\ \A u \in Members : cursor[u] <= cursor'[u]
    BY <1>1, <1>3, <1>4, <1>5 DEF ReadInv, Cursors
  <1>7. CASE r.to <= r.from
    <2>1. cursor' = cursor
      BY <1>1, <1>3, <1>4, <1>5, <1>7 DEF ReadInv, Cursors
    <2>2. PICK out, in : out = {r} /\ in = {}
      OBVIOUS
    <2>3. marking' = (marking \ out) \cup in
      BY <1>1, <1>3, <1>7, <2>2
    <2> QED BY <1>1, <1>2, <2>1, <2>2, <2>3, MarksMove DEF ReadInv, Cursors
  <1>8. CASE r.to > r.from
    <2>0. c \in Nat
      BY <1>3, <1>4
    <2>1. PICK s : s = [r EXCEPT !.step = "advanced", !.to = c]
      OBVIOUS
    <2>2. s \in Marked /\ s.step = "advanced" /\ s.to = c /\ s.from = r.from /\ s.user = r.user
      BY <1>2, <2>0, <2>1 DEF Marked
    <2>3. marking' = (marking \ {r}) \cup {s}
      BY <1>1, <1>6, <1>8, <2>1
    <2>4. Cursors'
      BY <1>2, <1>6, <2>2, <2>3 DEF ReadInv, Cursors
    <2>5. \A q \in marking' : Behind(q)'
      <3>1. Behind(s)'
        BY <1>2, <1>3, <1>6, <2>2 DEF Behind
      <3>2. ASSUME NEW q \in marking PROVE Behind(q)'
        <4>1. q \in Marked /\ Behind(q)
          BY <3>2 DEF ReadInv, Cursors
        <4>2. q.user \in Members /\ q.to \in Nat /\ q.from \in Nat /\ cursor[q.user] \in Nat /\ cursor'[q.user] \in Nat
          BY <1>6, <4>1 DEF Marked, ReadInv, Cursors
        <4> QED BY <1>2, <1>6, <4>1, <4>2 DEF Behind
      <3> QED BY <2>3, <3>1, <3>2
    <2>6. s \in Advanced(r.user)' /\ \A u \in Members : Advanced(u) \subseteq Advanced(u)'
      BY <1>1, <2>2, <2>3 DEF Advanced
    <2>7. ASSUME NEW u \in Members \ failed PROVE Hears(u)'
      <3>1. CASE u # r.user
        <4>1. cursor'[u] = cursor[u] /\ Hears(u)
          BY <1>6, <3>1 DEF ReadInv
        <4> QED BY <1>2, <2>6, <4>1 DEF Hears, PeersHear, AuthorsHear
      <3>2. CASE u = r.user /\ Direct
        <4>1. s \in Advanced(u)' /\ cursor'[u] <= s.to
          BY <1>6, <2>2, <2>6, <3>2
        <4> QED BY <3>2, <4>1 DEF Hears, PeersHear
      <3>3. CASE u = r.user /\ ~Direct
        <4>1. AuthorsHear(u)
          BY <2>7, <3>3 DEF ReadInv, Hears
        <4> SUFFICES ASSUME NEW p \in 1 .. cursor'[u], author[p] # u, p \notin gone
                     PROVE  told[author[p]] >= p \/ \E q \in Advanced(u)' : q.from < p /\ p <= q.to
          BY <1>2, <3>3 DEF Hears, AuthorsHear
        <4>2. CASE p <= cursor[u]
          BY <1>3, <1>6, <2>6, <3>3, <4>1, <4>2 DEF AuthorsHear
        <4>3. CASE p > cursor[u]
          <5>1. s.from < p /\ p <= s.to
            BY <1>3, <1>6, <2>2, <3>3, <4>3
          <5> QED BY <2>6, <3>3, <5>1
        <4> QED BY <1>3, <1>6, <3>3, <4>2, <4>3
      <3> QED BY <3>1, <3>2, <3>3
    <2> QED BY <1>2, <2>4, <2>5, <2>7 DEF ReadInv
  <1> QED BY <1>3, <1>7, <1>8


LEMMA FurthestRead ==
    ASSUME ReadInv, NEW u \in Members, NEW v \in Members \ {u}
    PROVE  Rc!AggregateExcluding(u) \in Nat /\ cursor[v] <= Rc!AggregateExcluding(u)
  <1>1. PICK S : S = {cursor[w] : w \in Members \ {u}}
    OBVIOUS
  <1>n. PICK n \in Nat : n = Len(author)
    BY DEF ReadInv, Cursors
  <1>2. S \in SUBSET (0 .. n) /\ cursor[v] \in S
    BY <1>1, <1>n DEF ReadInv, Cursors
  <1>3. \E x \in S : \A y \in S : x >= y
    BY <1>2, GreatestOf
  <1>4. Rc!Max(S) \in S /\ \A y \in S : Rc!Max(S) >= y
    BY <1>3 DEF Rc!Max
  <1>5. PICK x \in S : x = Rc!Max(S)
    BY <1>4
  <1>6. PICK y \in S : y = cursor[v]
    BY <1>2
  <1>7. x \in Nat /\ y \in Nat /\ x >= y
    BY <1>2, <1>4, <1>5, <1>6
  <1> QED BY <1>1, <1>5, <1>6, <1>7 DEF Rc!AggregateExcluding

(* What a request announces is at least what it advanced over. *)
LEMMA Announces ==
    ASSUME ReadInv, NEW r \in marking, r.step = "advanced", gone' = gone,
           told' = IF Direct THEN Rc!PeerTold(r) ELSE Rc!AuthorsTold(r)
    PROVE  /\ told' \in [Members -> Nat] /\ \A v \in Members : told[v] <= told'[v]
           /\ Direct => \A v \in Members \ {r.user} : r.to <= told'[v]
           /\ ~Direct => \A p \in 1 .. cursor[r.user] : author[p] # r.user /\ p \notin gone /\ r.from < p /\ p <= r.to
                                                       => p <= told'[author[p]]
  <1>1. r \in Marked /\ Behind(r)
    BY DEF ReadInv, Cursors
  <1>2. /\ r.user \in Members /\ r.to \in Nat /\ r.from \in Nat /\ cursor[r.user] \in 0 .. Len(author)
        /\ r.to <= cursor[r.user] /\ told \in [Members -> Nat] /\ Len(author) \in Nat
        /\ \A p \in 1 .. Len(author) : author[p] \in Members
    BY <1>1 DEF Marked, Behind, ReadInv, Cursors
  <1>3. CASE Direct
    BY <1>2, <1>3, LargerIs DEF Rc!PeerTold
  <1>4. CASE ~Direct
    <2>1. told' = [u \in Members |-> IF u \in Rc!AuthorsInRange(r)
                                     THEN Rc!Larger(told[u], Rc!AggregateExcluding(u)) ELSE told[u]]
      BY <1>4 DEF Rc!AuthorsTold
    <2>2. Rc!AuthorsInRange(r) \subseteq Members \ {r.user}
      <3>1. \A p \in r.from + 1 .. r.to : p \in 1 .. Len(author)
        BY <1>2
      <3> QED BY <1>2, <3>1 DEF Rc!AuthorsInRange
    <2>3. \A u \in Rc!AuthorsInRange(r) : Rc!AggregateExcluding(u) \in Nat /\ cursor[r.user] <= Rc!AggregateExcluding(u)
      BY <1>2, <2>2, FurthestRead
    <2>4. \A u \in Members : told'[u] \in Nat /\ told[u] <= told'[u]
      <3> TAKE u \in Members
      <3>1. CASE u \in Rc!AuthorsInRange(r)
        <4>1. told'[u] = Rc!Larger(told[u], Rc!AggregateExcluding(u))
          BY <2>1, <3>1
        <4>2. PICK a \in Nat, b \in Nat : a = told[u] /\ b = Rc!AggregateExcluding(u)
          BY <1>2, <2>3, <3>1
        <4>3. Rc!Larger(a, b) \in Nat /\ Rc!Larger(a, b) >= a
          BY LargerIs
        <4> QED BY <4>1, <4>2, <4>3
      <3>2. CASE u \notin Rc!AuthorsInRange(r)
        BY <1>2, <2>1, <3>2
      <3> QED BY <3>1, <3>2
    <2>5. \A u \in Rc!AuthorsInRange(r) : cursor[r.user] <= told'[u]
      <3> TAKE u \in Rc!AuthorsInRange(r)
      <3>1. told'[u] = Rc!Larger(told[u], Rc!AggregateExcluding(u))
        BY <2>1, <2>2
      <3>2. PICK a \in Nat, b \in Nat : a = told[u] /\ b = Rc!AggregateExcluding(u) /\ cursor[r.user] <= b
        BY <1>2, <2>2, <2>3
      <3>3. Rc!Larger(a, b) \in Nat /\ Rc!Larger(a, b) >= b
        BY LargerIs
      <3> QED BY <1>2, <3>1, <3>2, <3>3
    <2>6. ASSUME NEW p \in 1 .. cursor[r.user], author[p] # r.user, p \notin gone, r.from < p, p <= r.to
          PROVE  p <= told'[author[p]]
      <3>1. p \in r.from + 1 .. r.to /\ p \in Nat
        BY <1>2, <2>6
      <3>2. author[p] \in Rc!AuthorsInRange(r) /\ author[p] \in Members
        BY <1>2, <2>2, <2>6, <3>1 DEF Rc!AuthorsInRange
      <3> QED BY <1>2, <2>4, <2>5, <2>6, <3>1, <3>2
    <2> QED BY <1>4, <2>1, <2>4, <2>6
  <1> QED BY <1>3, <1>4

LEMMA BroadcastKeeps ==
    ASSUME ReadInv, NEW m \in Marks, Rc!Broadcast(m)
    PROVE  ReadInv'
  <1>1. PICK r \in marking : /\ r.step = "advanced" /\ marking' = marking \ {r}
                             /\ told' = IF Direct THEN Rc!PeerTold(r) ELSE Rc!AuthorsTold(r)
    BY DEF Rc!Broadcast, Rc!Step
  <1>2. UNCHANGED <<author, gone, memory, cursor, failed>>
    BY DEF Rc!Broadcast
  <1>3. /\ told' \in [Members -> Nat] /\ \A v \in Members : told[v] <= told'[v]
        /\ Direct => \A v \in Members \ {r.user} : r.to <= told'[v]
        /\ ~Direct => \A p \in 1 .. cursor[r.user] : author[p] # r.user /\ p \notin gone /\ r.from < p /\ p <= r.to
                                                    => p <= told'[author[p]]
    BY <1>1, <1>2, Announces
  <1>4. /\ \A q \in marking : q.to \in Nat /\ q.from \in Nat
        /\ told \in [Members -> Nat] /\ cursor \in [Members -> 0 .. Len(author)] /\ Len(author) \in Nat
        /\ \A p \in 1 .. Len(author) : author[p] \in Members
    BY DEF ReadInv, Cursors, Marked
  <1>5. Cursors' /\ \A q \in marking' : Behind(q)'
    BY <1>1, <1>2, <1>3 DEF ReadInv, Cursors, Behind
  <1>6. \A u \in Members : Advanced(u)' = Advanced(u) \ {r}
    BY <1>1 DEF Advanced
  <1>7. ASSUME NEW u \in Members \ failed PROVE Hears(u)'
    <2>1. CASE Direct
      <3>1. PeersHear(u)
        BY <1>7, <2>1 DEF ReadInv, Hears
      <3>2. CASE r \in Advanced(u) /\ cursor[u] <= r.to
        <4>1. r.user = u
          BY <3>2 DEF Advanced
        <4>2. \A v \in Members \ {u} : told'[v] >= cursor[u]
          BY <1>1, <1>3, <1>4, <2>1, <3>2, <4>1
        <4> QED BY <1>2, <2>1, <4>2 DEF Hears, PeersHear
      <3>3. CASE ~(r \in Advanced(u) /\ cursor[u] <= r.to)
        <4>1. (\E q \in Advanced(u)' : cursor[u] <= q.to) \/ \A v \in Members \ {u} : told'[v] >= cursor[u]
          BY <1>3, <1>4, <1>6, <3>1, <3>3 DEF PeersHear
        <4> QED BY <1>2, <2>1, <4>1 DEF Hears, PeersHear
      <3> QED BY <3>2, <3>3
    <2>2. CASE ~Direct
      <3>1. AuthorsHear(u)
        BY <1>7, <2>2 DEF ReadInv, Hears
      <3> SUFFICES ASSUME NEW p \in 1 .. cursor[u], author[p] # u, p \notin gone
                   PROVE  told'[author[p]] >= p \/ \E q \in Advanced(u)' : q.from < p /\ p <= q.to
        BY <1>2, <2>2 DEF Hears, AuthorsHear
      <3>2. p \in Nat /\ author[p] \in Members
        BY <1>4
      <3>3. CASE told[author[p]] >= p
        BY <1>3, <1>4, <3>2, <3>3
      <3>4. CASE \E q \in Advanced(u) : q.from < p /\ p <= q.to
        <4>1. PICK q \in Advanced(u) : q.from < p /\ p <= q.to
          BY <3>4
        <4>2. CASE q = r
          <5>1. r.user = u
            BY <4>2 DEF Advanced
          <5> QED BY <1>3, <2>2, <3>2, <4>1, <4>2, <5>1
        <4>3. CASE q # r
          BY <1>6, <4>1, <4>3
        <4> QED BY <4>2, <4>3
      <3> QED BY <3>1, <3>3, <3>4 DEF AuthorsHear
    <2> QED BY <2>1, <2>2
  <1> QED BY <1>2, <1>5, <1>7 DEF ReadInv


LEMMA MessagesKeep ==
    ASSUME ReadInv, (\E s \in Members : Rc!Commit(s)) \/ (\E p \in 1 .. MaxPts : Rc!Revoke(p))
    PROVE  ReadInv'
  <1>1. UNCHANGED <<memory, cursor, marking, told, failed>>
    BY DEF Rc!Commit, Rc!Revoke
  <1>2. /\ author' \in Seq(Members) /\ Len(author) <= Len(author') /\ gone \subseteq gone'
        /\ \A p \in 1 .. Len(author) : author'[p] = author[p]
    <2>1. author \in Seq(Members)
      BY DEF ReadInv, Cursors
    <2>2. ASSUME NEW s \in Members, Rc!Commit(s)
          PROVE  /\ author' \in Seq(Members) /\ Len(author) <= Len(author') /\ gone \subseteq gone'
                 /\ \A p \in 1 .. Len(author) : author'[p] = author[p]
      BY <2>1, <2>2 DEF Rc!Commit
    <2>3. ASSUME NEW p \in 1 .. MaxPts, Rc!Revoke(p)
          PROVE  author' = author /\ gone \subseteq gone'
      BY <2>3 DEF Rc!Revoke
    <2> QED BY <2>1, <2>2, <2>3
  <1>3. Len(author) \in Nat /\ Len(author') \in Nat
    BY <1>2 DEF ReadInv, Cursors
  <1>4. Cursors'
    BY <1>1, <1>2, <1>3 DEF ReadInv, Cursors
  <1>5. \A r \in marking : Behind(r)'
    BY <1>1, <1>2, <1>3 DEF ReadInv, Cursors, Behind, Marked
  <1>6. \A u \in Members \ failed : Hears(u)'
    <2> TAKE u \in Members \ failed
    <2>1. Hears(u) /\ Advanced(u)' = Advanced(u) /\ cursor[u] \in 0 .. Len(author)
      BY <1>1 DEF ReadInv, Advanced, Cursors
    <2>2. \A p \in 1 .. cursor[u] : author'[p] = author[p]
      BY <1>2, <1>3, <2>1
    <2> QED BY <1>1, <1>2, <2>1, <2>2 DEF Hears, PeersHear, AuthorsHear
  <1> QED BY <1>1, <1>4, <1>5, <1>6 DEF ReadInv

LEMMA FaultsKeep ==
    ASSUME ReadInv, (\E m \in Marks : Rc!MarkFails(m)) \/ Rc!EvictStaleMemory \/ Rc!Restart
    PROVE  ReadInv'
  <1>1. CASE \E m \in Marks : Rc!MarkFails(m)
    <2>1. PICK r \in marking : marking' = marking \ {r} /\ failed' = failed \cup {r.user}
      BY <1>1 DEF Rc!MarkFails
    <2>2. PICK out, in : out = {r} /\ in = {}
      OBVIOUS
    <2>3. /\ marking' = (marking \ out) \cup in /\ in \subseteq Marked /\ failed \subseteq failed'
          /\ \A q \in out : q.step # "advanced" \/ q.user \in failed'
          /\ \A q \in in : Behind(q)'
          /\ UNCHANGED <<author, gone, memory, cursor, told>>
      BY <1>1, <2>1, <2>2 DEF Rc!MarkFails
    <2> QED BY <2>3, MarksMove DEF ReadInv, Cursors
  <1>2. CASE Rc!EvictStaleMemory \/ Rc!Restart
    <2>1. memory' \in [Members -> 0 .. Len(author)]
      BY <1>2 DEF Rc!EvictStaleMemory, Rc!Restart, Rc!Zero, ReadInv, Cursors
    <2>2. PICK out, in : out = (IF Rc!Restart THEN marking ELSE {}) /\ in = {}
      OBVIOUS
    <2>3. /\ marking' = (marking \ out) \cup in /\ in \subseteq Marked /\ failed \subseteq failed'
          /\ \A q \in out : q.step # "advanced" \/ q.user \in failed'
          /\ \A q \in in : Behind(q)'
          /\ UNCHANGED <<author, gone, cursor, told>>
      BY <1>2, <2>2 DEF Rc!EvictStaleMemory, Rc!Restart
    <2> QED BY <2>1, <2>3, MarksMove
  <1> QED BY <1>1, <1>2

LEMMA ReadBegins ==
    ASSUME Rc!Init
    PROVE  ReadInv
  <1>1. author = <<>> /\ Len(author) = 0 /\ \A u \in Members : cursor[u] = 0 /\ told[u] = 0
    BY DEF Rc!Init, Rc!Zero
  <1>2. Cursors /\ \A r \in marking : Behind(r)
    BY <1>1 DEF Rc!Init, Rc!Zero, Cursors
  <1>3. \A u \in Members : Hears(u)
    BY <1>1 DEF Hears, PeersHear, AuthorsHear
  <1> QED BY <1>2, <1>3 DEF ReadInv

LEMMA ReadKeeps ==
    ASSUME Rc!ReadersAreMembers, ReadInv, [Rc!Next]_(Rc!vars)
    PROVE  ReadInv'
  <1>1. CASE UNCHANGED Rc!vars
    <2>1. PICK out, in : out = {} /\ in = {}
      OBVIOUS
    <2>2. /\ marking' = (marking \ out) \cup in /\ in \subseteq Marked /\ failed \subseteq failed'
          /\ \A q \in out : q.step # "advanced" \/ q.user \in failed'
          /\ \A q \in in : Behind(q)'
          /\ UNCHANGED <<author, gone, memory, cursor, told>>
      BY <1>1, <2>1 DEF Rc!vars
    <2> QED BY <2>2, MarksMove DEF ReadInv, Cursors
  <1>2. CASE (\E s \in Members : Rc!Commit(s)) \/ (\E p \in 1 .. MaxPts : Rc!Revoke(p))
    BY <1>2, MessagesKeep
  <1>3. ASSUME NEW m \in Marks,
               \/ \E u \in Readers, requested, visible \in 0 .. MaxPts : Rc!MarkReadPts(m, u, requested, visible)
               \/ Rc!SnapshotCursor(m) \/ Rc!StoreCursor(m) \/ Rc!Broadcast(m) \/ Rc!MarkFails(m)
        PROVE  ReadInv'
    <2>1. ASSUME NEW u \in Readers, NEW requested \in 0 .. MaxPts, NEW visible \in 0 .. MaxPts,
                 Rc!MarkReadPts(m, u, requested, visible)
          PROVE  ReadInv'
      BY <2>1, ReadRequestComes
    <2> QED BY <1>3, <2>1, SnapshotKeeps, StoreCursorKeeps, BroadcastKeeps, FaultsKeep
  <1>4. CASE Rc!EvictStaleMemory \/ Rc!Restart
    BY <1>4, FaultsKeep
  <1> QED BY <1>1, <1>2, <1>3, <1>4 DEF Rc!Next

(* For any members, requests and messages, whatever devices mark at the same *)
(* time: once a reader's requests are done and none failed, the peer, or the *)
(* author of every message below the reader's cursor, was told that it is    *)
(* read (read_state_service.rs mark_read_pts, broadcast_read_cursor).        *)
THEOREM ReadsReachTheAuthors ==
    ASSUME Rc!ReadersAreMembers
    PROVE  Rc!Spec => []Rc!ReadsAreAnnounced
  <1>1. Rc!Init => ReadInv
    BY ReadBegins
  <1>2. ReadInv /\ [Rc!Next]_(Rc!vars) => ReadInv'
    BY ReadKeeps
  <1>3. ReadInv => Rc!ReadsAreAnnounced
    <2> SUFFICES ASSUME ReadInv, NEW u \in Members, u \notin failed, \A r \in marking : r.user # u
                 PROVE  IF Direct
                        THEN \A v \in Members \ {u} : told[v] >= cursor[u]
                        ELSE \A p \in 1 .. cursor[u] : author[p] # u /\ p \notin gone => told[author[p]] >= p
      BY DEF Rc!ReadsAreAnnounced
    <2>1. Advanced(u) = {} /\ Hears(u)
      BY DEF Advanced, ReadInv
    <2> QED BY <2>1 DEF Hears, PeersHear, AuthorsHear
  <1> QED BY <1>1, <1>2, <1>3, PTL DEF Rc!Spec


-----------------------------------------------------------------------------
(* A room and its subscribers, for any number of sessions, requests and      *)
(* broadcasts (RoomFeed).                                                    *)

CONSTANTS Sessions, Casts, HistoryLimit, MaxSubscribers, MaxRequests
VARIABLES line, requests, handlers, subscribed, replays, history, order, cast, targets, got, unsent,
          passedBy, dropped, late, mishaps
Rf == INSTANCE RoomFeed WITH Limit <- HistoryLimit, overtaken <- passedBy

RoomRequests == [session : Sessions, action : {"subscribe", "unsubscribe"}, number : Nat]
Replays == [session : Sessions, number : Nat, frames : Seq(Casts) \cup {Rf!Unread}]

RoomTypes ==
    /\ line = [s \in Sessions |-> line[s]] /\ requests \in [Sessions -> Nat]
    /\ got = [s \in Sessions |-> got[s]] /\ passedBy = [s \in Sessions |-> passedBy[s]]
    /\ dropped = [s \in Sessions |-> dropped[s]] /\ unsent = [s \in Sessions |-> unsent[s]]
    /\ cast = [b \in Casts |-> cast[b]] /\ targets = [b \in Casts |-> targets[b]]
    /\ subscribed \subseteq Sessions /\ handlers \subseteq RoomRequests /\ replays \subseteq Replays
    /\ history \in Seq(Casts) /\ order \in Seq(Casts)

(* The history is the newest part of what was appended. *)
HistoryIsNewest ==
    /\ Len(history) = IF Len(order) < HistoryLimit THEN Len(order) ELSE HistoryLimit
    /\ \A i \in 1 .. Len(history) : history[i] = order[i]

(* Whoever is subscribed, or asks to be, is connected, or its connection     *)
(* closed before the request was handled.                                    *)
Connected(s) == line[s] = "up" \/ s \in late
AskersWereConnected == (\A s \in subscribed : Connected(s)) /\ \A h \in handlers : Connected(h.session)

(* A broadcast that a subscriber has not got is on its way to it: the        *)
(* broadcast has looked it up, or a replay will have the broadcast.          *)
Replayed(r, b) == r.frames = Rf!Unread \/ \E i \in 1 .. Len(r.frames) : r.frames[i] = b
Coming(s, b) == \E r \in replays : r.session = s /\ Replayed(r, b)
Excused(s, b) == b \in dropped[s] \/ b \in passedBy[s] \/ b \in unsent[s]
BroadcastsComing ==
    \A s \in subscribed : line[s] = "up" => \A b \in Casts :
        /\ cast[b] = "listed" => s \in targets[b] \/ Excused(s, b)
        /\ cast[b] = "sending" => b \in got[s] \/ s \in targets[b] \/ Excused(s, b) \/ Coming(s, b)

RoomInv == RoomTypes /\ HistoryIsNewest /\ AskersWereConnected /\ BroadcastsComing

LEMMA RoomInit == ASSUME Rf!LimitIsNumber, Rf!Init PROVE RoomInv
  <1>1. RoomTypes
    BY DEF Rf!Init, RoomTypes
  <1>2. HistoryIsNewest
    BY DEF Rf!Init, HistoryIsNewest, Rf!LimitIsNumber
  <1> QED BY <1>1, <1>2 DEF RoomInv, Rf!Init, AskersWereConnected, BroadcastsComing

(* Requests and closes: subscribers only go. *)
LEMMA RoomLeaves ==
    ASSUME RoomInv, RoomTypes', UNCHANGED <<replays, history, order, cast, targets, got, unsent, passedBy, dropped>>,
           subscribed' \subseteq subscribed, \A s \in Sessions : line'[s] = "up" => line[s] = "up",
           AskersWereConnected'
    PROVE  RoomInv'
  <1>1. \A s \in Sessions, b \in Casts : (Coming(s, b)' <=> Coming(s, b)) /\ (Excused(s, b)' <=> Excused(s, b))
    BY DEF Coming, Excused
  <1>2. HistoryIsNewest'
    BY DEF RoomInv, HistoryIsNewest
  <1>3. BroadcastsComing'
    BY <1>1 DEF RoomInv, RoomTypes, BroadcastsComing
  <1> QED BY <1>2, <1>3 DEF RoomInv

LEMMA RequestsKeep ==
    ASSUME RoomInv, NEW s \in Sessions,
           (\E action \in {"subscribe", "unsubscribe"} : Rf!Request(s, action)) \/ Rf!EventFails(s) \/ Rf!TransportCloses(s)
    PROVE  RoomInv'
  <1> USE DEF RoomTypes
  <1>t. RoomTypes /\ AskersWereConnected
    BY DEF RoomInv
  <1>h. \A h \in handlers : h.session \in Sessions
    BY <1>t DEF RoomRequests
  <1>1. ASSUME NEW action \in {"subscribe", "unsubscribe"}, Rf!Request(s, action) PROVE RoomInv'
    <2>1. PICK h : h = [session |-> s, action |-> action, number |-> requests[s] + 1]
      OBVIOUS
    <2>2. /\ h \in RoomRequests /\ h.session = s /\ handlers' = handlers \cup {h} /\ line[s] = "up"
          /\ requests' \in [Sessions -> Nat]
          /\ UNCHANGED <<line, subscribed, replays, history, order, cast, targets, got, unsent, passedBy, dropped, late>>
      BY <1>1, <1>t, <2>1 DEF Rf!Request, RoomRequests
    <2>3. AskersWereConnected'
      BY <1>t, <2>2 DEF AskersWereConnected, Connected
    <2> QED BY <1>t, <2>2, <2>3, RoomLeaves
  <1>2. ASSUME Rf!EventFails(s) PROVE RoomInv'
    <2>1. /\ subscribed' \subseteq subscribed
          /\ UNCHANGED <<line, requests, handlers, replays, history, order, cast, targets, got, unsent, passedBy, dropped, late>>
      BY <1>2 DEF Rf!EventFails
    <2>2. AskersWereConnected'
      BY <1>t, <2>1 DEF AskersWereConnected, Connected
    <2> QED BY <1>t, <2>1, <2>2, RoomLeaves
  <1>3. ASSUME Rf!TransportCloses(s) PROVE RoomInv'
    <2>1. /\ subscribed' = subscribed \ {s} /\ line' = [line EXCEPT ![s] = "down"] /\ late \subseteq late'
          /\ (\E h \in handlers : h.session = s) => s \in late'
          /\ UNCHANGED <<requests, handlers, replays, history, order, cast, targets, got, unsent, passedBy, dropped>>
      BY <1>3 DEF Rf!TransportCloses
    <2>2. line' = [r \in Sessions |-> line'[r]] /\ line'[s] = "down" /\ \A r \in Sessions \ {s} : line'[r] = line[r]
      BY <1>t, <2>1
    <2>3. AskersWereConnected'
      BY <1>t, <1>h, <2>1, <2>2 DEF AskersWereConnected, Connected
    <2> QED BY <1>t, <2>1, <2>2, <2>3, RoomLeaves
  <1> QED BY <1>1, <1>2, <1>3


(* A new subscriber has a replay that is still to read the history. *)
LEMMA SubscribeKeeps ==
    ASSUME RoomInv, NEW h \in handlers, Rf!Subscribe(h) \/ Rf!Unsubscribe(h)
    PROVE  RoomInv'
  <1>t. RoomTypes /\ AskersWereConnected /\ h \in RoomRequests
    BY DEF RoomInv, RoomTypes
  <1>h. handlers' = handlers \ {h}
    BY DEF Rf!Subscribe, Rf!Unsubscribe
  <1>1. ASSUME subscribed' \subseteq subscribed,
               UNCHANGED <<line, requests, replays, history, order, cast, targets, got, unsent, passedBy, dropped, late>>
        PROVE  RoomInv'
    <2>1. RoomTypes' /\ AskersWereConnected'
      BY <1>1, <1>h, <1>t DEF RoomTypes, AskersWereConnected, Connected
    <2> QED BY <1>1, <2>1, RoomLeaves
  <1>2. ASSUME Rf!Subscribe(h), ~ Rf!Full(h.session) PROVE RoomInv'
    <2>1. PICK s \in Sessions : s = h.session
      BY <1>t DEF RoomRequests
    <2>2. PICK r : r = [session |-> s, number |-> h.number, frames |-> Rf!Unread]
      OBVIOUS
    <2>3. r \in Replays /\ r.session = s /\ r.frames = Rf!Unread
      BY <1>t, <2>2 DEF RoomRequests, Replays
    <2>4. /\ subscribed' = subscribed \cup {s} /\ replays' = replays \cup {r}
          /\ passedBy' = IF s \in subscribed THEN passedBy ELSE [passedBy EXCEPT ![s] = {b \in Casts : cast[b] = "listed"}]
          /\ UNCHANGED <<line, requests, history, order, cast, targets, got, unsent, dropped, late>>
      BY <1>2, <2>1, <2>2 DEF Rf!Subscribe
    <2>5. /\ passedBy' = [x \in Sessions |-> passedBy'[x]] /\ \A x \in Sessions \ {s} : passedBy'[x] = passedBy[x]
          /\ s \in subscribed => passedBy'[s] = passedBy[s]
          /\ s \notin subscribed => \A b \in Casts : cast[b] = "listed" => b \in passedBy'[s]
      BY <1>t, <2>4 DEF RoomTypes
    <2>6. RoomTypes' /\ HistoryIsNewest'
      BY <1>h, <1>t, <2>3, <2>4, <2>5 DEF RoomTypes, RoomInv, HistoryIsNewest
    <2>7. AskersWereConnected'
      BY <1>h, <1>t, <2>1, <2>4 DEF AskersWereConnected, Connected
    <2>8. \A x \in Sessions, b \in Casts : Coming(x, b) => Coming(x, b)'
      BY <2>4 DEF Coming
    <2>9. \A b \in Casts : Coming(s, b)'
      BY <2>3, <2>4 DEF Coming, Replayed
    <2>10. ASSUME NEW x \in subscribed', line'[x] = "up", NEW b \in Casts
           PROVE  /\ cast'[b] = "listed" => x \in targets'[b] \/ Excused(x, b)'
                  /\ cast'[b] = "sending" => b \in got'[x] \/ x \in targets'[b] \/ Excused(x, b)' \/ Coming(x, b)'
      <3>1. CASE x \in subscribed
        <4>1. x \in Sessions /\ passedBy'[x] = passedBy[x] /\ (Excused(x, b)' <=> Excused(x, b))
          BY <1>t, <2>4, <2>5, <3>1 DEF RoomTypes, Excused
        <4> QED BY <2>4, <2>8, <2>10, <3>1, <4>1 DEF RoomInv, BroadcastsComing
      <3>2. CASE x \notin subscribed
        <4>1. x = s
          BY <2>4, <2>10, <3>2
        <4> QED BY <2>4, <2>5, <2>9, <3>2, <4>1 DEF Excused
      <3> QED BY <3>1, <3>2
    <2>11. BroadcastsComing'
      BY <2>10 DEF BroadcastsComing
    <2> QED BY <2>6, <2>7, <2>11 DEF RoomInv
  <1>3. ASSUME Rf!Subscribe(h), Rf!Full(h.session) PROVE RoomInv'
    BY <1>1, <1>3 DEF Rf!Subscribe
  <1>4. ASSUME Rf!Unsubscribe(h) PROVE RoomInv'
    BY <1>1, <1>4 DEF Rf!Unsubscribe
  <1> QED BY <1>2, <1>3, <1>4

(* What is sent to a connected session gets there, or is known not to. *)
LEMMA SendsGrow ==
    ASSUME RoomTypes, NEW s \in Sessions, NEW bs, Rf!Sends(s, bs)
    PROVE  /\ got' = [x \in Sessions |-> got'[x]] /\ unsent' = [x \in Sessions |-> unsent'[x]]
           /\ \A x \in Sessions : got[x] \subseteq got'[x] /\ unsent[x] \subseteq unsent'[x]
           /\ line[s] = "up" => \A b \in bs : b \in got'[s] \/ b \in unsent'[s]
  <1>1. CASE line[s] = "down"
    BY <1>1 DEF Rf!Sends, RoomTypes
  <1>2. CASE line[s] # "down"
    <2>1. PICK failing \in SUBSET bs : /\ got' = [got EXCEPT ![s] = @ \cup (bs \ failing)]
                                      /\ unsent' = [unsent EXCEPT ![s] = @ \cup failing]
      BY <1>2 DEF Rf!Sends
    <2>2. /\ got' = [x \in Sessions |-> IF x = s THEN got[s] \cup (bs \ failing) ELSE got[x]]
          /\ unsent' = [x \in Sessions |-> IF x = s THEN unsent[s] \cup failing ELSE unsent[x]]
      BY <2>1 DEF RoomTypes
    <2> QED BY <2>2
  <1> QED BY <1>1, <1>2

(* What the replay task does not find in the history is too old for it. *)
LEMMA ReplaysKeep ==
    ASSUME RoomInv, Rf!LimitIsNumber, NEW r \in replays, Rf!ReadHistory(r) \/ Rf!ReplayFails(r) \/ Rf!Replay(r)
    PROVE  RoomInv'
  <1>t. RoomTypes /\ r \in Replays
    BY DEF RoomInv, RoomTypes
  <1>s. PICK s \in Sessions : s = r.session
    BY <1>t DEF Replays
  <1>u. UNCHANGED <<line, requests, handlers, subscribed, history, order, cast, targets, passedBy, late>> /\ replays \ {r} \subseteq replays'
    BY DEF Rf!ReadHistory, Rf!ReplayFails, Rf!Replay
  <1>1. /\ RoomTypes'
        /\ \A x \in Sessions : got[x] \subseteq got'[x] /\ dropped[x] \subseteq dropped'[x] /\ unsent[x] \subseteq unsent'[x]
    <2>1. CASE Rf!ReadHistory(r)
      <3>1. [r EXCEPT !.frames = history] \in Replays
        BY <1>t DEF Replays, RoomTypes
      <3>2. replays' \subseteq Replays
        BY <1>t, <2>1, <3>1 DEF Rf!ReadHistory, RoomTypes
      <3>3. got' = got /\ unsent' = unsent /\ dropped' = [x \in Sessions |-> dropped'[x]] /\ \A x \in Sessions : dropped[x] \subseteq dropped'[x]
        BY <1>t, <2>1 DEF Rf!ReadHistory, RoomTypes
      <3> QED BY <1>t, <1>u, <3>2, <3>3 DEF RoomTypes
    <2>2. CASE Rf!ReplayFails(r)
      <3>1. /\ got' = got /\ unsent' = unsent /\ dropped' = [x \in Sessions |-> dropped'[x]] /\ replays' \subseteq replays
            /\ \A x \in Sessions : dropped[x] \subseteq dropped'[x]
        BY <1>t, <2>2 DEF Rf!ReplayFails, RoomTypes
      <3> QED BY <1>t, <1>u, <3>1 DEF RoomTypes
    <2>3. CASE Rf!Replay(r)
      <3>1. /\ dropped' = dropped /\ got' = [x \in Sessions |-> got'[x]] /\ replays' \subseteq replays
            /\ unsent' = [x \in Sessions |-> unsent'[x]]
            /\ \A x \in Sessions : got[x] \subseteq got'[x] /\ unsent[x] \subseteq unsent'[x]
        BY <1>s, <1>t, <2>3, SendsGrow DEF Rf!Replay
      <3> QED BY <1>t, <1>u, <3>1 DEF RoomTypes
    <2> QED BY <2>1, <2>2, <2>3
  <1>2. ASSUME NEW b \in Casts, cast[b] = "sending", line[s] = "up", Replayed(r, b)
        PROVE  b \in got'[s] \/ b \in dropped'[s] \/ b \in unsent'[s] \/ Coming(s, b)'
    <2>r. Rf!Recorded(b)
      BY <1>2 DEF Rf!Recorded
    <2>1. CASE Rf!ReadHistory(r)
      <3>1. PICK k : k = [r EXCEPT !.frames = history]
        OBVIOUS
      <3>2. k.session = s /\ k.frames = history /\ k \in replays'
        BY <1>s, <1>t, <2>1, <3>1 DEF Replays, Rf!ReadHistory
      <3>3. CASE \A i \in DOMAIN order : order[i] = b => i > HistoryLimit
        <4>1. dropped' = [dropped EXCEPT ![s] = @ \cup {c \in Casts : Rf!Recorded(c) /\ \A i \in DOMAIN order : order[i] = c => i > HistoryLimit}]
          BY <1>s, <2>1 DEF Rf!ReadHistory
        <4> QED BY <1>t, <2>r, <3>3, <4>1 DEF RoomTypes
      <3>4. CASE \E i \in DOMAIN order : order[i] = b /\ ~ (i > HistoryLimit)
        <4>1. PICK i \in DOMAIN order : order[i] = b /\ ~ (i > HistoryLimit)
          BY <3>4
        <4>2. i \in 1 .. Len(order) /\ Len(order) \in Nat /\ HistoryLimit \in Nat
          BY <1>t, <4>1 DEF RoomTypes, Rf!LimitIsNumber
        <4>3. i \in 1 .. Len(history) /\ history[i] = b
          BY <4>1, <4>2 DEF RoomInv, HistoryIsNewest
        <4> QED BY <3>2, <4>3 DEF Coming, Replayed
      <3> QED BY <3>3, <3>4
    <2>2. CASE Rf!ReplayFails(r)
      <3>1. dropped' = [dropped EXCEPT ![s] = @ \cup {c \in Casts : Rf!Recorded(c)}]
        BY <1>s, <2>2 DEF Rf!ReplayFails
      <3> QED BY <1>t, <2>r, <3>1 DEF RoomTypes
    <2>3. CASE Rf!Replay(r)
      <3>1. r.frames # Rf!Unread /\ \A c \in {r.frames[k] : k \in DOMAIN r.frames} : c \in got'[s] \/ c \in unsent'[s]
        BY <1>s, <1>t, <1>2, <2>3, SendsGrow DEF Rf!Replay
      <3>2. r.frames \in Seq(Casts)
        BY <1>t, <3>1 DEF Replays
      <3>3. PICK i \in 1 .. Len(r.frames) : r.frames[i] = b
        BY <1>2, <3>1 DEF Replayed
      <3>4. b \in {r.frames[k] : k \in DOMAIN r.frames}
        BY <3>2, <3>3
      <3> QED BY <3>1, <3>4
    <2> QED BY <2>1, <2>2, <2>3
  <1>3. ASSUME NEW x \in subscribed', line'[x] = "up", NEW b \in Casts
        PROVE  /\ cast'[b] = "listed" => x \in targets'[b] \/ Excused(x, b)'
               /\ cast'[b] = "sending" => b \in got'[x] \/ x \in targets'[b] \/ Excused(x, b)' \/ Coming(x, b)'
    <2>1. /\ x \in subscribed /\ x \in Sessions /\ line[x] = "up" /\ cast'[b] = cast[b] /\ targets'[b] = targets[b]
          /\ (Excused(x, b) => Excused(x, b)') /\ (b \in got[x] => b \in got'[x])
      BY <1>1, <1>3, <1>t, <1>u DEF RoomTypes, Excused
    <2>2. /\ cast[b] = "listed" => x \in targets[b] \/ Excused(x, b)
          /\ cast[b] = "sending" => b \in got[x] \/ x \in targets[b] \/ Excused(x, b) \/ Coming(x, b)
      BY <2>1 DEF RoomInv, BroadcastsComing
    <2>3. ASSUME cast[b] = "sending", Coming(x, b) PROVE b \in got'[x] \/ Excused(x, b)' \/ Coming(x, b)'
      <3>1. PICK k \in replays : k.session = x /\ Replayed(k, b)
        BY <2>3 DEF Coming
      <3>2. CASE k = r
        BY <1>2, <1>s, <2>1, <2>3, <3>1, <3>2 DEF Excused
      <3>3. CASE k # r
        BY <1>u, <3>1, <3>3 DEF Coming
      <3> QED BY <3>2, <3>3
    <2> QED BY <2>1, <2>2, <2>3
  <1>4. BroadcastsComing'
    BY <1>3 DEF BroadcastsComing
  <1>5. HistoryIsNewest' /\ AskersWereConnected'
    BY <1>u DEF RoomInv, HistoryIsNewest, AskersWereConnected, Connected
  <1> QED BY <1>1, <1>4, <1>5 DEF RoomInv


LEMMA Prepended ==
    ASSUME NEW b \in Casts, NEW q \in Seq(Casts), NEW r, r = <<b>> \o q
    PROVE  r \in Seq(Casts) /\ Len(r) = Len(q) + 1 /\ r[1] = b /\ \A i \in 2 .. Len(q) + 1 : r[i] = q[i - 1]
  <1>1. <<b>> \in Seq(Casts) /\ Len(<<b>>) = 1 /\ <<b>>[1] = b /\ Len(q) \in Nat
    OBVIOUS
  <1>2. r \in Seq(Casts) /\ Len(r) = 1 + Len(q)
    BY <1>1
  <1>3. r[1] = b
    BY <1>1
  <1>4. ASSUME NEW i \in 2 .. Len(q) + 1 PROVE r[i] = q[i - 1]
    BY <1>1
  <1> QED BY <1>1, <1>2, <1>3, <1>4

LEMMA Cut ==
    ASSUME NEW q \in Seq(Casts), NEW k \in 0 .. Len(q)
    PROVE  SubSeq(q, 1, k) \in Seq(Casts) /\ Len(SubSeq(q, 1, k)) = k /\ \A i \in 1 .. k : SubSeq(q, 1, k)[i] = q[i]
  <1>1. Len(q) \in Nat
    OBVIOUS
  <1> QED BY <1>1

LEMMA PushedKeeps ==
    ASSUME RoomTypes, HistoryIsNewest, Rf!LimitIsNumber, NEW b \in Casts, Rf!Pushed(b)
    PROVE  HistoryIsNewest' /\ history' \in Seq(Casts) /\ order' \in Seq(Casts)
  <1>1. PICK list \in Seq(Casts) : list = <<b>> \o history
    <2>1. PICK h, r : h \in Seq(Casts) /\ h = history /\ r = <<b>> \o h
      BY DEF RoomTypes
    <2>2. r \in Seq(Casts)
      BY <2>1, Prepended
    <2> QED BY <2>1, <2>2
  <1>2. PICK k \in Nat : k = IF Len(list) < HistoryLimit THEN Len(list) ELSE HistoryLimit
    <2>1. Len(list) \in Nat /\ HistoryLimit \in Nat
      BY <1>1 DEF Rf!LimitIsNumber
    <2>2. (IF Len(list) < HistoryLimit THEN Len(list) ELSE HistoryLimit) \in Nat
      BY <2>1
    <2> QED BY <2>2
  <1>3. history' = SubSeq(list, 1, k) /\ order' = <<b>> \o order
    BY <1>1, <1>2 DEF Rf!Pushed, Rf!Trimmed
  <1>4. PICK m \in Nat, n \in Nat : m = Len(history) /\ n = Len(order)
    <2>1. PICK h \in Seq(Casts), q \in Seq(Casts) : h = history /\ q = order
      BY DEF RoomTypes
    <2>2. Len(h) \in Nat /\ Len(q) \in Nat
      OBVIOUS
    <2> QED BY <2>1, <2>2
  <1>5. /\ Len(list) = m + 1 /\ list[1] = b /\ \A i \in 2 .. m + 1 : list[i] = history[i - 1]
        /\ order' \in Seq(Casts) /\ Len(order') = n + 1 /\ order'[1] = b /\ \A i \in 2 .. n + 1 : order'[i] = order[i - 1]
    <2>1. PICK q, r : q \in Seq(Casts) /\ q = order /\ r = order'
      BY DEF RoomTypes
    <2>2. PICK h \in Seq(Casts) : h = history
      BY DEF RoomTypes
    <2>3. Len(list) = Len(h) + 1 /\ list[1] = b /\ \A i \in 2 .. Len(h) + 1 : list[i] = h[i - 1]
      BY <1>1, <2>2, Prepended
    <2>4. r \in Seq(Casts) /\ Len(r) = Len(q) + 1 /\ r[1] = b /\ \A i \in 2 .. Len(q) + 1 : r[i] = q[i - 1]
      BY <1>3, <2>1, Prepended
    <2> QED BY <1>4, <2>1, <2>2, <2>3, <2>4
  <1>6. k <= Len(list) /\ HistoryLimit \in Nat
    BY <1>2, <1>4, <1>5 DEF Rf!LimitIsNumber
  <1>7. history' \in Seq(Casts) /\ Len(history') = k /\ \A i \in 1 .. k : history'[i] = list[i]
    <2>1. k \in 0 .. Len(list)
      BY <1>5, <1>6
    <2> QED BY <1>3, <2>1, Cut
  <1>8. m = (IF n < HistoryLimit THEN n ELSE HistoryLimit) /\ \A i \in 1 .. m : history[i] = order[i]
    BY <1>4 DEF HistoryIsNewest
  <1>9. k = IF n + 1 < HistoryLimit THEN n + 1 ELSE HistoryLimit
    BY <1>2, <1>5, <1>6, <1>8
  <1>10. ASSUME NEW i \in 1 .. k PROVE history'[i] = order'[i]
    <2>1. CASE i = 1
      BY <1>5, <1>7, <2>1
    <2>2. CASE i # 1
      <3>1. i \in 2 .. m + 1 /\ i \in 2 .. n + 1 /\ i - 1 \in 1 .. m
        BY <1>5, <1>6, <1>8, <1>9, <2>2
      <3> QED BY <1>5, <1>7, <1>8, <3>1
    <2> QED BY <2>1, <2>2
  <1> QED BY <1>5, <1>7, <1>9, <1>10 DEF HistoryIsNewest

LEMMA BroadcastsKeep ==
    ASSUME RoomInv, Rf!LimitIsNumber, NEW b \in Casts,
           Rf!LookUp(b) \/ Rf!AppendHistory(b) \/ Rf!AppendFails(b) \/ \E s \in Sessions : Rf!Send(b, s)
    PROVE  RoomInv'
  <1>t. RoomTypes /\ HistoryIsNewest /\ AskersWereConnected
    BY DEF RoomInv
  <1>u. UNCHANGED <<line, requests, handlers, subscribed, replays, passedBy, dropped, late>>
    BY DEF Rf!LookUp, Rf!AppendHistory, Rf!AppendFails, Rf!Send
  <1>v. \A x \in Sessions : unsent[x] \subseteq unsent'[x]
    BY <1>t, SendsGrow DEF RoomTypes, Rf!LookUp, Rf!AppendHistory, Rf!AppendFails, Rf!Send
  <1>1. AskersWereConnected' /\ \A x \in Sessions, c \in Casts : (Coming(x, c)' <=> Coming(x, c)) /\ (Excused(x, c) => Excused(x, c)')
    BY <1>t, <1>u, <1>v DEF AskersWereConnected, Connected, Coming, Excused
  <1>2. HistoryIsNewest' /\ history' \in Seq(Casts) /\ order' \in Seq(Casts)
    <2>1. CASE UNCHANGED <<history, order>>
      BY <1>t, <2>1 DEF RoomTypes, HistoryIsNewest
    <2>2. CASE Rf!Pushed(b)
      BY <1>t, <2>2, PushedKeeps
    <2> QED BY <2>1, <2>2 DEF Rf!LookUp, Rf!AppendHistory, Rf!AppendFails, Rf!Send
  <1>3. ASSUME NEW step \in {"listed", "sending", "unrecorded"}, cast' = [cast EXCEPT ![b] = step], got' = got, unsent' = unsent,
               targets' = IF step = "listed" THEN [targets EXCEPT ![b] = subscribed] ELSE targets,
               step = "sending" => cast[b] = "listed"
        PROVE  RoomInv'
    <2>1. /\ cast' = [c \in Casts |-> cast'[c]] /\ cast'[b] = step /\ \A c \in Casts \ {b} : cast'[c] = cast[c]
          /\ targets' = [c \in Casts |-> targets'[c]] /\ (step = "listed" => targets'[b] = subscribed)
          /\ (step # "listed" => targets'[b] = targets[b]) /\ \A c \in Casts \ {b} : targets'[c] = targets[c]
      BY <1>3, <1>t DEF RoomTypes
    <2>2. RoomTypes'
      BY <1>2, <1>3, <1>t, <1>u, <2>1 DEF RoomTypes
    <2>3. ASSUME NEW x \in subscribed', line'[x] = "up", NEW c \in Casts
          PROVE  /\ cast'[c] = "listed" => x \in targets'[c] \/ Excused(x, c)'
                 /\ cast'[c] = "sending" => c \in got'[x] \/ x \in targets'[c] \/ Excused(x, c)' \/ Coming(x, c)'
      <3>1. /\ x \in subscribed /\ x \in Sessions /\ line[x] = "up"
        BY <1>t, <1>u, <2>3 DEF RoomTypes
      <3>2. /\ cast[c] = "listed" => x \in targets[c] \/ Excused(x, c)
            /\ cast[c] = "sending" => c \in got[x] \/ x \in targets[c] \/ Excused(x, c) \/ Coming(x, c)
        BY <3>1 DEF RoomInv, BroadcastsComing
      <3>3. CASE c = b
        BY <1>1, <1>3, <2>1, <3>1, <3>2, <3>3
      <3>4. CASE c # b
        BY <1>1, <1>3, <2>1, <3>1, <3>2, <3>4
      <3> QED BY <3>3, <3>4
    <2>4. BroadcastsComing'
      BY <2>3 DEF BroadcastsComing
    <2> QED BY <1>1, <1>2, <2>2, <2>4 DEF RoomInv
  <1>4. ASSUME NEW s \in Sessions, Rf!Send(b, s) PROVE RoomInv'
    <2>1. cast' = cast /\ targets' = [targets EXCEPT ![b] = @ \ {s}] /\ Rf!Sends(s, {b})
      BY <1>4 DEF Rf!Send
    <2>2. /\ targets' = [c \in Casts |-> targets'[c]] /\ got' = [x \in Sessions |-> got'[x]]
          /\ unsent' = [x \in Sessions |-> unsent'[x]]
          /\ \A c \in Casts, x \in Sessions : x \in targets[c] => x \in targets'[c] \/ (c = b /\ x = s)
          /\ \A x \in Sessions : got[x] \subseteq got'[x]
          /\ line[s] = "up" => b \in got'[s] \/ b \in unsent'[s]
      <3>1. /\ targets' = [c \in Casts |-> targets'[c]]
            /\ \A c \in Casts, x \in Sessions : x \in targets[c] => x \in targets'[c] \/ (c = b /\ x = s)
        BY <1>t, <2>1 DEF RoomTypes
      <3> QED BY <1>t, <2>1, <3>1, SendsGrow
    <2>3. RoomTypes'
      BY <1>2, <1>t, <1>u, <2>1, <2>2 DEF RoomTypes
    <2>4. ASSUME NEW x \in subscribed', line'[x] = "up", NEW c \in Casts
          PROVE  /\ cast'[c] = "listed" => x \in targets'[c] \/ Excused(x, c)'
                 /\ cast'[c] = "sending" => c \in got'[x] \/ x \in targets'[c] \/ Excused(x, c)' \/ Coming(x, c)'
      <3>1. /\ x \in subscribed /\ x \in Sessions /\ line[x] = "up"
        BY <1>t, <1>u, <2>4 DEF RoomTypes
      <3>2. /\ cast[c] = "listed" => x \in targets[c] \/ Excused(x, c)
            /\ cast[c] = "sending" => c \in got[x] \/ x \in targets[c] \/ Excused(x, c) \/ Coming(x, c)
        BY <3>1 DEF RoomInv, BroadcastsComing
      <3>3. cast[b] # "listed"
        BY <1>4 DEF Rf!Send, Rf!Recorded
      <3>4. b \in unsent'[s] => Excused(s, b)'
        BY DEF Excused
      <3> QED BY <1>1, <2>1, <2>2, <3>1, <3>2, <3>3, <3>4
    <2>5. BroadcastsComing'
      BY <2>4 DEF BroadcastsComing
    <2> QED BY <1>1, <1>2, <2>3, <2>5 DEF RoomInv
  <1>5. ASSUME Rf!LookUp(b) PROVE RoomInv'
    BY <1>3, <1>5 DEF Rf!LookUp
  <1>6. ASSUME Rf!AppendHistory(b) PROVE RoomInv'
    BY <1>3, <1>6 DEF Rf!AppendHistory
  <1>7. ASSUME Rf!AppendFails(b) PROVE RoomInv'
    BY <1>3, <1>7 DEF Rf!AppendFails
  <1> QED BY <1>4, <1>5, <1>6, <1>7

LEMMA RoomNext == ASSUME Rf!LimitIsNumber PROVE RoomInv /\ [Rf!Next]_(Rf!vars) => RoomInv'
  <1>1. ASSUME RoomInv, Rf!HistoryExpires PROVE RoomInv'
    <2>1. /\ history' = <<>> /\ order' = <<>>
          /\ UNCHANGED <<line, requests, handlers, subscribed, replays, cast, targets, got, unsent, passedBy, dropped, late>>
      BY <1>1 DEF Rf!HistoryExpires
    <2>2. RoomTypes' /\ HistoryIsNewest'
      BY <1>1, <2>1 DEF RoomInv, RoomTypes, HistoryIsNewest, Rf!LimitIsNumber
    <2>3. AskersWereConnected' /\ BroadcastsComing'
      BY <1>1, <2>1 DEF RoomInv, AskersWereConnected, Connected, BroadcastsComing, Coming, Replayed, Excused
    <2> QED BY <2>2, <2>3 DEF RoomInv
  <1>2. ASSUME RoomInv, UNCHANGED Rf!vars PROVE RoomInv'
    <2>1. RoomTypes' /\ HistoryIsNewest'
      BY <1>2 DEF RoomInv, RoomTypes, HistoryIsNewest, Rf!vars
    <2>2. AskersWereConnected' /\ BroadcastsComing'
      BY <1>2 DEF RoomInv, AskersWereConnected, Connected, BroadcastsComing, Coming, Replayed, Excused, Rf!vars
    <2> QED BY <2>1, <2>2 DEF RoomInv
  <1>3. ASSUME RoomInv, Rf!Next PROVE RoomInv'
    BY <1>1, <1>3, RequestsKeep, SubscribeKeeps, ReplaysKeep, BroadcastsKeep DEF Rf!Next
  <1> QED BY <1>2, <1>3

(* Whatever the number of sessions, broadcasts and requests, and however     *)
(* they interleave with the replays, with a history that overflows, fails or *)
(* expires: a connected subscriber for whom every task has ended misses only *)
(* what the history does not keep, what was between the lookup of the        *)
(* subscribers and the history when it subscribed, and what was sent to it   *)
(* in vain (admin.rs room_broadcast, subscribe_message_handler.rs            *)
(* replay_room_history_to_session).                                          *)
THEOREM RoomsLoseNothing == ASSUME Rf!LimitIsNumber PROVE Rf!Spec => []Rf!OnlyOvertakenIsMissed
  <1>1. ASSUME RoomInv PROVE Rf!OnlyOvertakenIsMissed
    <2>1. ASSUME NEW s \in Sessions, NEW b \in Rf!Missing(s), cast[b] # "unrecorded", b \notin dropped[s] \cup passedBy[s] \cup unsent[s]
          PROVE  FALSE
      <3>1. /\ line[s] = "up" /\ s \in subscribed /\ (\A r \in replays : r.session # s)
            /\ b \in Casts /\ Rf!Recorded(b) /\ s \notin targets[b] /\ b \notin got[s]
        BY <2>1 DEF Rf!Missing
      <3>2. cast[b] = "sending" /\ ~ Coming(s, b) /\ ~ Excused(s, b)
        BY <2>1, <3>1 DEF Rf!Recorded, Coming, Excused
      <3> QED BY <1>1, <3>1, <3>2 DEF RoomInv, BroadcastsComing
    <2> QED BY <2>1 DEF Rf!OnlyOvertakenIsMissed
  <1>2. Rf!Init => RoomInv
    BY RoomInit
  <1> QED BY <1>1, <1>2, RoomNext, PTL DEF Rf!Spec

(* In any such room a session whose connection has closed stays subscribed   *)
(* only if one of its requests was handled after the close (server.rs        *)
(* on_disconnected).                                                         *)
THEOREM SubscribersAreConnected == ASSUME Rf!LimitIsNumber PROVE Rf!Spec => []Rf!RoutesFollowConnections
  <1>1. RoomInv => Rf!RoutesFollowConnections
    BY DEF RoomInv, AskersWereConnected, Connected, Rf!RoutesFollowConnections
  <1>2. Rf!Init => RoomInv
    BY RoomInit
  <1> QED BY <1>1, <1>2, RoomNext, PTL DEF Rf!Spec
=============================================================================
