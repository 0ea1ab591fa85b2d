----------------------------- MODULE Catalogue -----------------------------
(***************************************************************************)
(* The lists a user pages through (products, personas): rows newest first,  *)
(* pages addressed by their offset and cached in Redis one key per page,    *)
(* and writes that commit and then delete the cached pages.  A walk reads   *)
(* page after page while the answers say that there is more.                *)
(***************************************************************************)
EXTENDS Integers, Sequences, FiniteSets, FiniteSetsExt, SequencesExt

CONSTANTS
    Walks,      \* clients that page through the list
    Limit,      \* rows of a page
    MaxRows     \* bound: rows created

CatalogueAssumption == Limit \in Nat \ {0} /\ MaxRows \in Nat

VARIABLES
    rows,     \* the live rows, newest first; a row is the number of its creation
    made,     \* rows created so far
    cache,    \* the cached pages
    writing,  \* a write has committed and not yet deleted the pages
    walk,     \* where each walk is and what it has seen
    stale     \* ghost: the cache may hold a page that a commit has outdated

vars == <<rows, made, cache, writing, walk, stale>>

Page == [offset : 0..MaxRows, items : Seq(1..MaxRows), more : BOOLEAN]

NoPage == [offset |-> 0, items |-> <<>>, more |-> FALSE]

\* owed: the rows that were listed when the walk began and still are.
\* mixed: the walk was under way between a commit and its deletion of pages, or
\* met a list that lost a row, or a cache that may be stale.
Idle == [pc |-> "idle", offset |-> 0, read |-> NoPage, seen |-> {}, owed |-> {},
         mixed |-> FALSE]

\* The type invariant.
TypeOK ==
    /\ rows \in Seq(1..MaxRows)
    /\ made \in 0..MaxRows
    /\ \A p \in cache : p \in Page
    /\ writing \in BOOLEAN
    /\ \A w \in Walks :
         /\ walk[w].pc \in {"idle", "ask", "store", "ended"}
         /\ walk[w].read \in Page
         /\ walk[w].seen \cup walk[w].owed \subseteq 1..MaxRows
         /\ walk[w].mixed \in BOOLEAN
    /\ stale \in BOOLEAN

Init ==
    /\ rows = <<>>
    /\ made = 0
    /\ cache = {}
    /\ writing = FALSE
    /\ walk = [w \in Walks |-> Idle]
    /\ stale = FALSE

Live == Range(rows)
PageAt(offset) ==
    [offset |-> offset,
     items |-> SubSeq(rows, offset + 1, Min({offset + Limit, Len(rows)})),
     more |-> Len(rows) > offset + Limit]

-----------------------------------------------------------------------------
(* Writes                                                                   *)

Reading == {w \in Walks : walk[w].pc = "store"}

\* After a commit every walk under way mixes lists, and a page that was read before
\* and is stored later is out of date.
Committed(lost) ==
    /\ writing' = TRUE
    /\ stale' = (stale \/ Reading # {})
    /\ walk' = [w \in Walks |-> [walk[w] EXCEPT !.mixed = @ \/ walk[w].pc # "idle",
                                                !.owed = @ \ lost]]

\* create_product, create_persona: the commit.
Create ==
    /\ ~writing
    /\ made < MaxRows
    /\ made' = made + 1
    /\ rows' = <<made + 1>> \o rows
    /\ Committed({})
    /\ UNCHANGED cache

\* delete_persona: the commit of the soft deletion.
Delete ==
    /\ ~writing
    /\ \E i \in DOMAIN rows : /\ rows' = RemoveAt(rows, i)
                             /\ Committed({rows[i]})
    /\ UNCHANGED <<made, cache>>

\* Seeded bug: only the first page is deleted.
FirstPage == {p \in cache : p.offset = 0}

\* delete_pattern("user:...:*"): all pages of the user, whatever their key.
Outdated == cache
DropPages ==
    /\ writing
    /\ writing' = FALSE
    /\ cache' = cache \ Outdated
    /\ UNCHANGED <<rows, made, walk, stale>>

\* Redis fails: the deletion is given up and the pages stay until they expire.
DropFails ==
    /\ writing
    /\ writing' = FALSE
    /\ stale' = (stale \/ cache # {})
    /\ UNCHANGED <<rows, made, cache, walk>>

-----------------------------------------------------------------------------
(* Walks                                                                    *)

Begin(w) ==
    /\ walk[w].pc \in {"idle", "ended"}
    /\ walk' = [walk EXCEPT ![w] = [Idle EXCEPT !.pc = "ask", !.owed = Live,
                                                !.mixed = writing \/ stale]]
    /\ UNCHANGED <<rows, made, cache, writing, stale>>

\* The answer to the client, which asks for the next page if there is one.
Served(w, page) ==
    walk' = [walk EXCEPT ![w].seen = @ \cup Range(page.items),
                         ![w].offset = IF page.more THEN @ + Limit ELSE 0,
                         ![w].read = NoPage,
                         ![w].pc = IF page.more THEN "ask" ELSE "ended",
                         ![w].mixed = @ \/ stale]

CacheHit(w) ==
    /\ walk[w].pc = "ask"
    /\ \E p \in cache : p.offset = walk[w].offset /\ Served(w, p)
    /\ UNCHANGED <<rows, made, cache, writing, stale>>

\* A miss, an expired page or a failing Redis: the page is read from the database.
CacheMiss(w) ==
    /\ walk[w].pc = "ask"
    /\ walk' = [walk EXCEPT ![w].pc = "store", ![w].read = PageAt(walk[w].offset)]
    /\ UNCHANGED <<rows, made, cache, writing, stale>>

\* The page is cached, in place of another of its key, and returned; a page that was
\* read before a commit is stored all the same.
Store(w) ==
    /\ walk[w].pc = "store"
    /\ cache' = {p \in cache : p.offset # walk[w].offset} \cup {walk[w].read}
    /\ Served(w, walk[w].read)
    /\ UNCHANGED <<rows, made, writing, stale>>

StoreFails(w) ==
    /\ walk[w].pc = "store"
    /\ Served(w, walk[w].read)
    /\ UNCHANGED <<rows, made, cache, writing, stale>>

\* Time: pages expire, one by one; with the last one gone nothing stale is left.
Expire ==
    /\ \E p \in cache : cache' = cache \ {p}
    /\ stale' = (stale /\ (cache' # {} \/ Reading # {}))
    /\ UNCHANGED <<rows, made, writing, walk>>

WalkStep(w) == Begin(w) \/ CacheHit(w) \/ CacheMiss(w) \/ Store(w) \/ StoreFails(w)

Next ==
    \/ Create \/ Delete \/ DropPages \/ DropFails \/ Expire
    \/ \E w \in Walks : WalkStep(w)

Spec == Init /\ [][Next]_vars

-----------------------------------------------------------------------------
(* Properties                                                               *)

(* A walk that no write, no stale page and no failure crossed has seen, when *)
(* it ends, every row that was listed when it began: pages cached one by one *)
(* at different moments add up to one list, because every write deletes all  *)
(* of them (routers/product.py list_products, create_product; the same in    *)
(* routers/persona.py).                                                      *)
WalkSeesAll ==
    \A w \in Walks :
       walk[w].pc = "ended" /\ ~walk[w].mixed => walk[w].owed \subseteq walk[w].seen
=============================================================================
