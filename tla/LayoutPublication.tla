-------------------------- MODULE LayoutPublication --------------------------
(***************************************************************************)
(* Which layout the gallery shows (src-tauri/src/layout/publication.rs,    *)
(* ipc/layout_commands.rs compute_layout, layout/items_cache.rs, layout/   *)
(* cache.rs, and the writers in state.rs that change a layout's inputs).   *)
(*                                                                         *)
(* A request takes a ticket, computes on threads of its own from the items *)
(* in memory or, if they do not fit, from the database, and installs items *)
(* and layout together if no newer request has come and no input has       *)
(* changed.  Writers commit to the database first and then, in a change of *)
(* the gate, patch the items in memory, count the data version up, or drop *)
(* both caches.                                                            *)
(*                                                                         *)
(* Facts are counters: how often the structure of the library was changed, *)
(* the stars set and the thumbnails reset.  A view shows all items or only *)
(* the starred ones.  Duplicate lenses, searches, orders and geometry are  *)
(* left out, and so are results of thumbnails, which pass no gate.         *)
(***************************************************************************)
EXTENDS Integers

CONSTANTS
    Writers,        \* commands and tasks that write
    MaxCalls        \* bound on compute_layout calls and writes together

ASSUME LayoutAssumption == MaxCalls \in Nat

Views      == {"all", "favorites"}
WriteKinds == {"scan", "star", "reset"}
Requests   == 1 .. MaxCalls
Facts      == [scan : Nat, stars : Nat, thumbs : Nat]

\* ItemsCacheData: what was read, by which request and for which view; the
\* stars that chose the rows and those that are shown are apart.
Items      == [by : Nat, view : Views, version : Nat, reusable : BOOLEAN,
               chosen : Nat, shows : Facts]
NoFacts    == [scan |-> 0, stars |-> 0, thumbs |-> 0]
NoItems    == [by |-> 0, view |-> "all", version |-> 0, reusable |-> FALSE,
               chosen |-> 0, shows |-> NoFacts]
\* LayoutCacheData: the view and version of gen_key, and the items it needs.
NoLayout   == [by |-> 0, view |-> "all", version |-> 0, items |-> 0]
LayoutData == [by : Nat, view : Views, version : Nat, items : Nat]

VARIABLES
    facts,          \* the database
    dataVersion,    \* data_version
    publication,    \* Gate: request, inputs, writers
    itemsCache, layoutCache,            \* the two caches
    at,             \* each request: where it is
    ticket, wanted, version, base, candidate,   \* and what it holds
    wat, wkind, wrote,                  \* each writer: where it is, what it writes, the stars
    writes,
    crossed         \* history: two writes of stars have been under way at once

requestVars == <<at, ticket, wanted, version, base, candidate>>
writerVars  == <<wat, wkind, wrote, writes, crossed>>
lvars       == <<facts, dataVersion, publication, itemsCache, layoutCache, requestVars, writerVars>>

LayoutInit ==
    /\ facts = NoFacts /\ dataVersion = 0
    /\ publication = [request |-> 0, inputs |-> 0, writers |-> 0]
    /\ itemsCache = NoItems /\ layoutCache = NoLayout
    /\ at = [r \in Requests |-> "none"] /\ ticket = [r \in Requests |-> 0]
    /\ wanted = [r \in Requests |-> "all"] /\ version = [r \in Requests |-> 0]
    /\ base = [r \in Requests |-> NoItems] /\ candidate = [r \in Requests |-> NoItems]
    /\ wat = [w \in Writers |-> "idle"] /\ wkind = [w \in Writers |-> "scan"]
    /\ wrote = [w \in Writers |-> 0]
    /\ writes = 0 /\ crossed = FALSE

----------------------------------------------------------------------------
(* compute_layout.                                                         *)

\* begin: the request's identity is its number, its inputs those of now.
RegisterRequest(r) ==
    /\ publication.request + writes < MaxCalls /\ r = publication.request + 1
    /\ publication' = [publication EXCEPT !.request = r]
    /\ ticket' = [ticket EXCEPT ![r] = publication.inputs]
    /\ \E v \in Views : wanted' = [wanted EXCEPT ![r] = v]
    /\ at' = [at EXCEPT ![r] = "registered"]
    /\ UNCHANGED <<facts, dataVersion, itemsCache, layoutCache, version, base, candidate,
                   writerVars>>

\* Mutant: what writers do is not asked for.
ValidNumber(r) == publication.request = r

\* The condition under which publish runs what it is given.
Valid(r) == publication.request = r /\ publication.inputs = ticket[r] /\ publication.writers = 0

\* is_hit_valid, with the data version v
Fits(items, r, v) ==
    items.reusable /\ items.version = v /\ items.view = wanted[r]

\* A request that has ended holds nothing any more.
Ended(r) ==
    /\ ticket' = [ticket EXCEPT ![r] = 0] /\ version' = [version EXCEPT ![r] = 0]
    /\ base' = [base EXCEPT ![r] = NoItems] /\ candidate' = [candidate EXCEPT ![r] = NoItems]

\* The request reads the data version and keeps a handle of the items in
\* memory (a change between the two makes it invalid).  If they fit, and the
\* layout shown was made for the same view and version, that is the answer.
Reused(r) ==
    /\ Fits(itemsCache, r, dataVersion)
    /\ layoutCache.by # 0 /\ layoutCache.view = wanted[r] /\ layoutCache.version = dataVersion

ProbeCaches(r) ==
    /\ at[r] = "registered"
    /\ \/ /\ Valid(r) /\ ~Reused(r)
          /\ version' = [version EXCEPT ![r] = dataVersion]
          /\ base' = [base EXCEPT ![r] = itemsCache]
          /\ at' = [at EXCEPT ![r] = "computing"]
          /\ UNCHANGED <<ticket, candidate>>
       \/ /\ Valid(r) /\ Reused(r)
          /\ at' = [at EXCEPT ![r] = "answered"] /\ Ended(r)
    /\ UNCHANGED <<facts, dataVersion, publication, itemsCache, layoutCache, wanted, writerVars>>

\* The items behind a handle: patched as long as they are the ones in memory.
Now(items) == IF items.by = itemsCache.by THEN itemsCache ELSE items

\* Each of the three threads gives up early.
Refuse(r) ==
    /\ at[r] \in {"registered", "computing", "computed"} /\ ~Valid(r)
    /\ at' = [at EXCEPT ![r] = "refused"] /\ Ended(r)
    /\ UNCHANGED <<facts, dataVersion, publication, itemsCache, layoutCache, wanted, writerVars>>

\* The layout is computed from those items if they fit, or else from a query.
Compute(r) ==
    /\ at[r] = "computing"
    /\ at' = [at EXCEPT ![r] = "computed"]
    /\ candidate' = [candidate EXCEPT ![r] =
            IF Fits(Now(base[r]), r, version[r]) THEN Now(base[r])
            ELSE [by |-> r, view |-> wanted[r], version |-> version[r], reusable |-> TRUE,
                  chosen |-> facts.stars, shows |-> facts]]
    /\ base' = [base EXCEPT ![r] = NoItems]
    /\ UNCHANGED <<facts, dataVersion, publication, itemsCache, layoutCache, ticket, wanted,
                   version, writerVars>>

\* install: items and layout change together, or (Refuse) neither does.
InstallLayout(r) ==
    /\ at[r] = "computed" /\ Valid(r)
    /\ itemsCache' = Now(candidate[r])
    /\ layoutCache' = [by |-> r, view |-> wanted[r], version |-> version[r],
                       items |-> candidate[r].by]
    /\ at' = [at EXCEPT ![r] = "answered"] /\ Ended(r)
    /\ UNCHANGED <<facts, dataVersion, publication, wanted, writerVars>>

RequestStep(r) ==
    RegisterRequest(r) \/ ProbeCaches(r) \/ Refuse(r) \/ Compute(r) \/ InstallLayout(r)

----------------------------------------------------------------------------
(* Writers: the database first, then a change of the gate.                 *)

WriteFacts(w, kind) ==
    /\ wat[w] = "idle" /\ publication.request + writes < MaxCalls /\ writes' = writes + 1
    /\ wat' = [wat EXCEPT ![w] = "written"] /\ wkind' = [wkind EXCEPT ![w] = kind]
    /\ facts' = CASE kind = "scan"  -> [facts EXCEPT !.scan = @ + 1]
                  [] kind = "star"  -> [facts EXCEPT !.stars = @ + 1]
                  [] kind = "reset" -> [facts EXCEPT !.thumbs = @ + 1]
    /\ wrote' = [wrote EXCEPT ![w] = facts'.stars]
    /\ crossed' = \/ crossed
                  \/ kind = "star" /\ \E u \in Writers : wat[u] # "idle" /\ wkind[u] = "star"
    /\ UNCHANGED <<dataVersion, publication, itemsCache, layoutCache, requestVars>>

\* change: what is in hand is revoked, and nothing is published meanwhile.
EnterChange(w) ==
    /\ wat[w] \in {"written", "cleared"}
    /\ publication' = [publication EXCEPT !.inputs = @ + 1, !.writers = @ + 1]
    /\ wat' = [wat EXCEPT ![w] = IF wat[w] = "written" /\ wkind[w] = "reset" THEN "clearing"
                                 ELSE IF wkind[w] = "star" THEN "patching" ELSE "bumping"]
    /\ UNCHANGED <<facts, dataVersion, itemsCache, layoutCache, requestVars, wkind, wrote,
                   writes, crossed>>

\* set_favorite: the value is shown at once, but a view whose members it
\* chooses is not used again.
Patch(w) ==
    /\ wat[w] = "patching"
    /\ itemsCache' = IF itemsCache.by = 0 THEN itemsCache
               ELSE [itemsCache EXCEPT !.shows.stars = wrote[w],
                                 !.reusable = @ /\ itemsCache.view # "favorites"]
    /\ wat' = [wat EXCEPT ![w] = "leaving"]
    /\ UNCHANGED <<facts, dataVersion, publication, layoutCache, requestVars, wkind, wrote,
                   writes, crossed>>

\* bump_data_version
Bump(w) ==
    /\ wat[w] = "bumping" /\ dataVersion' = dataVersion + 1
    /\ wat' = [wat EXCEPT ![w] = "leaving"]
    /\ UNCHANGED <<facts, publication, itemsCache, layoutCache, requestVars, wkind, wrote,
                   writes, crossed>>

\* clear_layout_caches; a bump in a change of its own follows.
Clear(w) ==
    /\ wat[w] = "clearing" /\ itemsCache' = NoItems /\ layoutCache' = NoLayout
    /\ wat' = [wat EXCEPT ![w] = "leavingCleared"]
    /\ UNCHANGED <<facts, dataVersion, publication, requestVars, wkind, wrote, writes, crossed>>

Leave(w) ==
    /\ wat[w] \in {"leaving", "leavingCleared"}
    /\ publication' = [publication EXCEPT !.inputs = @ + 1, !.writers = @ - 1]
    /\ wat' = [wat EXCEPT ![w] = IF wat[w] = "leaving" THEN "idle" ELSE "cleared"]
    /\ UNCHANGED <<facts, dataVersion, itemsCache, layoutCache, requestVars, wkind, wrote,
                   writes, crossed>>

WriterStep(w) ==
    \/ \E kind \in WriteKinds : WriteFacts(w, kind)
    \/ EnterChange(w) \/ Patch(w) \/ Bump(w) \/ Clear(w) \/ Leave(w)

LayoutNext ==
    \/ \E r \in Requests : RequestStep(r)
    \/ \E w \in Writers : WriterStep(w)

LayoutSpec == LayoutInit /\ [][LayoutNext]_lvars

----------------------------------------------------------------------------
LayoutTypeOK ==
    /\ facts \in Facts /\ dataVersion \in Nat
    /\ publication \in [request : 0 .. MaxCalls, inputs : Nat, writers : Nat]
    /\ itemsCache \in Items /\ layoutCache \in LayoutData
    /\ at \in [Requests -> {"none", "registered", "computing", "computed",
                            "answered", "refused"}]
    /\ ticket \in [Requests -> Nat] /\ wanted \in [Requests -> Views]
    /\ version \in [Requests -> Nat]
    /\ base \in [Requests -> Items] /\ candidate \in [Requests -> Items]
    /\ wat \in [Writers -> {"idle", "written", "clearing", "cleared", "patching", "bumping",
                             "leaving", "leavingCleared"}]
    /\ wkind \in [Writers -> WriteKinds] /\ wrote \in [Writers -> Nat]
    /\ writes \in Nat /\ crossed \in BOOLEAN

Quiet == \A w \in Writers : wat[w] = "idle"

\* Items that the next request may use show the database as it is ...
ItemsFresh ==
    Quiet /\ itemsCache.by # 0 /\ itemsCache.version = dataVersion =>
        /\ itemsCache.shows.scan = facts.scan /\ itemsCache.shows.thumbs = facts.thumbs
        /\ ~crossed /\ itemsCache.view = "favorites" /\ itemsCache.reusable =>
              itemsCache.chosen = facts.stars

\* ... and stars are shown as they are in any items, old ones too.
StarsFresh == Quiet /\ itemsCache.by # 0 /\ ~crossed => itemsCache.shows.stars = facts.stars

\* Rows are shown with the items they were computed from, and the newest
\* request that was answered has the view it asked for.
RowsOfItems ==
    layoutCache.by # 0 =>
        layoutCache.items = itemsCache.by /\ layoutCache.view = itemsCache.view
NewestIsShown ==
    \A r \in Requests :
        at[r] = "answered" /\ r = publication.request /\ layoutCache.by # 0 =>
            layoutCache.view = wanted[r]

\* Once writers are done, nothing old stays in the caches where the next
\* request would find it, and no late request replaces a newer one's view,
\* however requests and writers overlap.  Two writes of stars at once are
\* excepted: their patches may come in the other order than their commits.
LayoutIsCurrent == ItemsFresh /\ StarsFresh /\ RowsOfItems /\ NewestIsShown
=============================================================================
