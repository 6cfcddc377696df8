----------------------------- MODULE EntitySync -----------------------------
(***************************************************************************)
(* entity/sync_entities: how a client keeps its copy of friends, groups,   *)
(* members, channels and read cursors (rpc/entity/sync_entities.rs and the *)
(* page queries of friend_service.rs, channel_service.rs and               *)
(* read_state_service.rs).                                                 *)
(*                                                                         *)
(* A trigger gives a row the next number of the table's sequence whenever  *)
(* a statement writes it; the transaction of that statement commits later. *)
(* A client asks for what has a version above the one it has reached, and  *)
(* is shown only what the joins and filters of the page's query let it see. *)
(***************************************************************************)
EXTENDS FiniteSetsExt

CONSTANTS
    Items,       \* what a page lists: its own rows, whose versions count; rows
                 \* of other tables that it shows; rows that must be there for
                 \* the user to see it
    Txs,         \* transactions that may be under way at the same time
    Removable,   \* the rows that transactions delete or mark as left
    Limit,       \* items of a page
    Truncates,   \* a page ends early at a friend whose profile is missing
    MaxVersion   \* bound: numbers drawn

Rows == UNION {item.own \cup item.side \cup item.gate : item \in Items}
None == {}

(* Every item has rows of its own, and a page a limit. *)
ItemsOfRows == IsFiniteSet(Items) /\ (\A item \in Items : item.own # {}) /\ Limit \in Nat

VARIABLES
    drawn,     \* the last number that the sequence has given
    version,   \* the committed version of each row, 0 when it is not there
    writing,   \* the versions that each transaction gives to rows, 0 to remove one
    since,     \* client: the version that it has reached
    copy,      \* client: the rows of each item as it was shown them
    page,      \* the reply that is on its way to the client
    shown,     \* history: the highest version that a page has had
    quiet      \* history: how each item changed behind the pages, if it did

vars == <<drawn, version, writing, since, copy, page, shown, quiet>>

Nothing == [r \in {} |-> 0]

Init ==
    /\ drawn = 0
    /\ version = [r \in Rows |-> 0]
    /\ writing = [t \in Txs |-> Nothing]
    /\ since = 0
    /\ copy = [item \in Items |-> Nothing]
    /\ page = None
    /\ shown = 0
    /\ quiet = [item \in Items |-> "no"]

Written(t) == DOMAIN writing[t]

-----------------------------------------------------------------------------
(* Items, at the versions v of the rows.                                     *)

(* An item's version: GREATEST or MAX over its own rows. *)
VersionOf(v, item) == Max({v[r] : r \in item.own})

(* The joins and the filters on left_at. *)
Visible(v, item) == VersionOf(v, item) > 0 /\ \A r \in item.gate : v[r] # 0

View(v, item) == IF Visible(v, item) THEN [r \in item.own \cup item.side |-> v[r]] ELSE Nothing

-----------------------------------------------------------------------------
(* Writers.                                                                  *)

(* A row is locked from its first write until the transaction ends. *)
Sets(t, r, n) ==
    /\ \A other \in Txs \ {t} : r \notin Written(other)
    /\ writing' = [writing EXCEPT ![t] = [q \in Written(t) \cup {r} |-> IF q = r THEN n ELSE writing[t][q]]]
    /\ UNCHANGED <<version, since, copy, page, shown, quiet>>

(* An INSERT or UPDATE.  One counter stands for the sequences of all tables, *)
(* whose numbers are not compared with each other.                           *)
Write(t, r) ==
    /\ drawn < MaxVersion
    /\ drawn' = drawn + 1
    /\ Sets(t, r, drawn + 1)

(* A DELETE, or an UPDATE that sets left_at. *)
Remove(t, r) ==
    /\ r \in Removable /\ version[r] # 0
    /\ Sets(t, r, 0)
    /\ UNCHANGED drawn

(* How the commit of the versions v changes an item behind the pages: it is  *)
(* no longer listed; it is listed again, its own rows changed, or only       *)
(* others that it shows, at a version that pages have passed.                *)
Quieted(v, item) ==
    IF View(v, item) = View(version, item) THEN quiet[item]
    ELSE IF ~Visible(v, item) THEN "gone"
    ELSE IF VersionOf(v, item) > shown THEN "no"
    ELSE IF ~Visible(version, item) THEN "back"
    ELSE IF \E r \in item.own : v[r] # version[r] THEN "overtaken"
    ELSE IF quiet[item] = "no" THEN "beside" ELSE quiet[item]

Commit(t) ==
    /\ Written(t) # {}
    /\ version' = [r \in Rows |-> IF r \in Written(t) THEN writing[t][r] ELSE version[r]]
    /\ quiet' = [item \in Items |-> Quieted(version', item)]
    /\ writing' = [writing EXCEPT ![t] = Nothing]
    /\ UNCHANGED <<drawn, since, copy, page, shown>>

Rollback(t) ==
    /\ Written(t) # {}
    /\ writing' = [writing EXCEPT ![t] = Nothing]
    /\ UNCHANGED <<drawn, version, since, copy, page, shown, quiet>>

-----------------------------------------------------------------------------
(* Pages.                                                                    *)

At(item) == VersionOf(version, item)

Eligible == {item \in Items : Visible(version, item) /\ At(item) > since}
Before(item) == {other \in Eligible : At(other) < At(item)}
FirstItems(n) == {item \in Eligible : Cardinality(Before(item)) < n}

NextVersionOfFetched(items) ==
    IF items = {} THEN since ELSE Max({At(item) : item \in FirstItems(Limit + 1)})

(* next_version: that of the last item of the page, never of one that was    *)
(* fetched only to see whether there is more, or that could not be shown.    *)
NextVersion(items) ==
    IF items = {} THEN since ELSE Max({At(item) : item \in items})

(* A page of at most Limit items in the order of their versions; a friend    *)
(* whose profile is missing ends it, or is an error when there is none       *)
(* before.                                                                   *)
Pull(n) ==
    /\ page = None
    /\ n = Limit \/ (Truncates /\ n < Cardinality(FirstItems(Limit)))
    /\ LET items == FirstItems(n)
       IN  /\ page' = {[seen |-> [item \in items |-> View(version, item)], next |-> NextVersion(items)]}
           /\ shown' = Max({shown, NextVersion(items)})
           /\ quiet' = [item \in Items |-> IF item \in items THEN "no" ELSE quiet[item]]
    /\ UNCHANGED <<drawn, version, writing, since, copy>>

(* The client: it takes a page and goes on from next_version, or misses it   *)
(* and asks again.                                                           *)
TakePage ==
    \E p \in page :
        /\ copy' = [item \in Items |-> IF item \in DOMAIN p.seen THEN p.seen[item] ELSE copy[item]]
        /\ since' = p.next
        /\ page' = None
        /\ UNCHANGED <<drawn, version, writing, shown, quiet>>

LosePage ==
    /\ page # None
    /\ page' = None
    /\ UNCHANGED <<drawn, version, writing, since, copy, shown, quiet>>

Next ==
    \/ \E t \in Txs : (\E r \in Rows : Write(t, r) \/ Remove(t, r)) \/ Commit(t) \/ Rollback(t)
    \/ \E n \in 1 .. Limit : Pull(n)
    \/ TakePage
    \/ LosePage

Spec == Init /\ [][Next]_vars

-----------------------------------------------------------------------------

(* Items that the client will not ask for although it has them as they no    *)
(* longer are.                                                               *)
Missed == {item \in Items \ Eligible : copy[item] # View(version, item)}

(* Pages lose nothing, wherever they are cut, whatever reply is lost and     *)
(* however the rows of one item change separately.  A client misses an item  *)
(* only if, since a page last had it, it went without a tombstone, came back *)
(* or changed at a version that pages had passed, or changed in a row whose  *)
(* version the page does not look at; and then the rows whose versions count *)
(* are right (channel_service.rs take_sync_page, next_version_from_page and  *)
(* sync_entities_page_for_channels, friend_service.rs sync_entities_page).   *)
OnlyQuietChangesAreMissed ==
    \A item \in Missed :
        \/ quiet[item] \in {"gone", "back", "overtaken"}
        \/ quiet[item] = "beside" /\ \A r \in item.own : copy[item][r] = version[r]
=============================================================================
