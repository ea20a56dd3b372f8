---------------------------- MODULE SearchControl ----------------------------
(***************************************************************************)
(* Semantic search (src-tauri/src/ai/search_control.rs and its callers in  *)
(* ipc/ai_commands.rs, ai/pipeline.rs and ipc/layout_commands.rs).         *)
(*                                                                         *)
(* A search registers for the next sequence number, encodes its query,     *)
(* takes an immutable snapshot of the embeddings (the resident one, or one *)
(* it loads itself), scores it and replaces the shared result table.       *)
(* Meanwhile the analysis writes embeddings, the user clears the search,   *)
(* resets the embeddings or switches the model, scans delete the           *)
(* embeddings of what they find changed or gone, and a layout reads the    *)
(* result table and is published if the table still has the same owner.    *)
(*                                                                         *)
(* Every step between two locks is an action.  An embedding table is its   *)
(* version per model and the count of deletions; a result is the pair of the model that encoded the   *)
(* query and the snapshot that was scored.  Scores, dimensions and the     *)
(* worker's sessions are left out.                                         *)
(***************************************************************************)
EXTENDS Integers, Sequences

CONSTANTS
    Request,    \* the searches' blocking threads
    Op,         \* the threads of the other commands and of the AI writer
    View,       \* the layout computations over the result table
    Model,      \* embedding models
    Kinds,      \* which of the commands of Plan may run
    Faulty,     \* the steps that may fail
    MaxLoads,   \* MAX_LOAD_ATTEMPTS
    MaxSeq,     \* bound on next_seq
    MaxWrites   \* bound on writes to the embeddings of one model, and on deletions

Steps == {"configure", "write", "revoke", "invalidate", "wipe", "drop"}

\* What the other commands do, in order.  switch: set_active_model, the
\* settings write, then model_switched.  reset: reset_embeddings_with_search_
\* teardown.  clear: clear_semantic_search.  flush: flush_batch.  scan: a
\* transaction of a scan, the watcher, the removal of a root or the clearing of
\* the database that deletes the embeddings of items, and invalidates nothing.
Plan == [switch |-> <<"configure", "revoke", "wipe", "invalidate">>,
         reset  |-> <<"write", "revoke", "invalidate", "wipe">>,
         clear  |-> <<"revoke", "wipe">>,
         flush  |-> <<"write", "invalidate">>,
         scan   |-> <<"drop">>]

ASSUME SearchAssumption ==
    /\ "none" \notin Model /\ Kinds \subseteq DOMAIN Plan
    /\ Faulty \subseteq {"encode", "load", "commit", "configure", "write", "wipe"}
    /\ MaxLoads \in Nat \ {0} /\ MaxSeq \in Nat /\ MaxWrites \in Nat

None     == 0                                  \* no request
Snapshot == [model : Model, version : Nat, dropped : Nat]
NoSnap   == [model |-> "none", version |-> 0, dropped |-> 0]
NoTable  == [by |-> "nothing"]
Result   == [by : Model, space : Snapshot]

VARIABLES
    active,     \* the configured model (active_profile)
    emb,        \* version of the stored embeddings of each model
    dropped,    \* how often scans have deleted embeddings
    nextSeq,    \* GateState.next_seq
    latest,     \* GateState.latest: sequence number, or None
    committed,  \* GateState.committed: sequence number, or None
    wipeFailed, \* auxiliary: a wipe has failed since the last revocation
    table,      \* ai_search_results
    epoch,      \* CacheSlot.epoch
    cache,      \* CacheSlot.cache
    loader,     \* who holds load_gate: a set of at most one request
    search,     \* each search: where it is, its ticket and its locals
    op,         \* each command: its kind, its place in the plan, its ticket
    view,       \* each layout computation: where it is and its locals
    shown       \* the rows of the published semantic layout

stored   == <<emb, dropped>>
gate     == <<nextSeq, latest, committed, wipeFailed, table>>
slot     == <<epoch, cache>>
vars     == <<active, stored, gate, slot, loader, search, op, view, shown>>

Idle     == [at |-> "idle", seq |-> None, model |-> "none", seen |-> 0,
             snap |-> NoSnap, loads |-> 0]
NoOp     == [kind |-> "none", at |-> 0, seq |-> None]
NoView   == [at |-> "idle", expected |-> None, rows |-> NoTable]

\* A session starts with no request and no resident snapshot; the result
\* table is whatever the last session left in the database.
Init ==
    /\ active \in Model
    /\ emb = [m \in Model |-> 0] /\ dropped = 0
    /\ nextSeq = 0 /\ latest = None /\ committed = None /\ wipeFailed = FALSE
    /\ table \in {NoTable} \cup [by : {active}, space : {[NoSnap EXCEPT !.model = active]}]
    /\ epoch = 0 /\ cache = NoSnap
    /\ loader = {}
    /\ search = [r \in Request |-> Idle]
    /\ op = [o \in Op |-> NoOp]
    /\ view = [v \in View |-> NoView]
    /\ shown = NoTable

(***************************************************************************)
(* A search.                                                               *)
(***************************************************************************)
At(r, place) == search[r].at = place
Go(r, place) == search' = [search EXCEPT ![r].at = place]
End(r)       == search' = [search EXCEPT ![r] = Idle]
Current(r)   == latest = search[r].seq              \* is_current
MatchesAny(r) == cache # NoSnap                     \* Mutant: the model is not compared.
Matches(r)   == cache.model = search[r].model       \* EmbeddingCache::matches
Release(r)   == loader' = loader \ {r}

\* Mutant: the model was resolved before the gate was entered.
RegisterOldModel(r) ==
    /\ At(r, "idle") /\ nextSeq < MaxSeq
    /\ nextSeq' = nextSeq + 1
    /\ latest' = nextSeq + 1
    /\ \E m \in Model :
         search' = [search EXCEPT ![r] =
                      [Idle EXCEPT !.at = "encode", !.seq = nextSeq + 1, !.model = m]]
    /\ UNCHANGED <<active, stored, committed, wipeFailed, table, slot, loader, op, view, shown>>

\* begin_request_with: the number and the model are taken in one critical
\* section.
Register(r) ==
    /\ At(r, "idle") /\ nextSeq < MaxSeq
    /\ nextSeq' = nextSeq + 1
    /\ latest' = nextSeq + 1
    /\ search' = [search EXCEPT ![r] =
                    [Idle EXCEPT !.at = "encode", !.seq = nextSeq + 1, !.model = active]]
    /\ UNCHANGED <<active, stored, committed, wipeFailed, table, slot, loader, op, view, shown>>

\* is_current before the encoding, then the encoding, which may fail.
Encode(r) ==
    /\ At(r, "encode")
    /\ IF Current(r) THEN Go(r, "enter") \/ ("encode" \in Faulty /\ End(r))
                     ELSE End(r)
    /\ UNCHANGED <<active, stored, gate, slot, loader, op, view, shown>>

\* run_search asks again before it pays for a load.
Enter(r) ==
    /\ At(r, "enter")
    /\ IF Current(r) THEN Go(r, "lookup") ELSE End(r)
    /\ UNCHANGED <<active, stored, gate, slot, loader, op, view, shown>>

Take(r) == search' = [search EXCEPT ![r].at = "commit", ![r].snap = cache]

\* load_snapshot_for, the resident snapshot.
Lookup(r) ==
    /\ At(r, "lookup")
    /\ IF Matches(r) THEN Take(r) ELSE Go(r, "gate")
    /\ UNCHANGED <<active, stored, gate, slot, loader, op, view, shown>>

\* load_snapshot_for, the single-flight gate and the second look.
TakeGate(r) ==
    /\ At(r, "gate") /\ loader = {}
    /\ IF Matches(r) THEN Take(r) /\ UNCHANGED loader
                     ELSE Go(r, "epoch") /\ loader' = {r}
    /\ UNCHANGED <<active, stored, gate, slot, op, view, shown>>

\* Mutant: a load that is discarded does not count as an attempt.
ReadEpochUncounted(r) ==
    /\ At(r, "epoch")
    /\ search' = [search EXCEPT ![r].at = "load", ![r].seen = epoch]
    /\ UNCHANGED <<active, stored, gate, slot, loader, op, view, shown>>

ReadEpoch(r) ==
    /\ At(r, "epoch")
    /\ search' = [search EXCEPT ![r].at = "load", ![r].seen = epoch, ![r].loads = @ + 1]
    /\ UNCHANGED <<active, stored, gate, slot, loader, op, view, shown>>

Load(r) ==
    /\ At(r, "load")
    /\ LET m == search[r].model IN
       search' = [search EXCEPT ![r].at = "install",
                                ![r].snap = [model |-> m, version |-> emb[m],
                                             dropped |-> dropped]]
    /\ UNCHANGED <<active, stored, gate, slot, loader, op, view, shown>>

\* Mutant: an error leaves the load gate held.
LoadFailsHoldingGate(r) ==
    /\ At(r, "load") /\ "load" \in Faulty
    /\ End(r)
    /\ UNCHANGED <<active, stored, gate, slot, loader, op, view, shown>>

LoadFails(r) ==
    /\ At(r, "load") /\ "load" \in Faulty
    /\ End(r) /\ Release(r)
    /\ UNCHANGED <<active, stored, gate, slot, op, view, shown>>

\* Mutant: the epoch was compared before the lock was taken.
InstallUnchecked(r) ==
    /\ At(r, "install")
    /\ IF Matches(r) THEN Take(r) /\ UNCHANGED cache
                     ELSE Go(r, "commit") /\ cache' = search[r].snap
    /\ Release(r)
    /\ UNCHANGED <<active, stored, gate, epoch, op, view, shown>>

\* install_if_fresh: reuse a resident snapshot of the same identity, or
\* become the resident one.
Install(r) ==
    /\ At(r, "install") /\ search[r].seen = epoch
    /\ IF Matches(r) THEN Take(r) /\ UNCHANGED cache
                     ELSE Go(r, "commit") /\ cache' = search[r].snap
    /\ Release(r)
    /\ UNCHANGED <<active, stored, gate, epoch, op, view, shown>>

\* install_if_fresh refused: read again, or after MaxLoads loads use the last
\* candidate without making it resident.
Discard(r) ==
    /\ At(r, "install") /\ search[r].seen # epoch
    /\ IF search[r].loads < MaxLoads THEN Go(r, "epoch") /\ UNCHANGED loader
                                     ELSE Go(r, "commit") /\ Release(r)
    /\ UNCHANGED <<active, stored, gate, slot, op, view, shown>>

\* Mutant: a superseded search may commit.
CommitUnchecked(r) ==
    /\ At(r, "commit")
    /\ table' = [by |-> search[r].model, space |-> search[r].snap]
    /\ committed' = search[r].seq
    /\ End(r)
    /\ UNCHANGED <<active, stored, nextSeq, latest, wipeFailed, slot, loader, op, view, shown>>

\* commit: the check and the table's replacement are one critical section.
Commit(r) ==
    /\ At(r, "commit") /\ Current(r)
    /\ table' = [by |-> search[r].model, space |-> search[r].snap]
    /\ committed' = search[r].seq
    /\ End(r)
    /\ UNCHANGED <<active, stored, nextSeq, latest, wipeFailed, slot, loader, op, view, shown>>

\* Superseded, or scoring or the transaction failed.
NoCommit(r) ==
    /\ At(r, "commit") /\ (~Current(r) \/ "commit" \in Faulty)
    /\ End(r)
    /\ UNCHANGED <<active, stored, gate, slot, loader, op, view, shown>>

SearchStep(r) ==
    \/ Encode(r) \/ Enter(r) \/ Lookup(r) \/ TakeGate(r) \/ ReadEpoch(r)
    \/ Load(r) \/ LoadFails(r) \/ Install(r) \/ Discard(r) \/ Commit(r) \/ NoCommit(r)

(***************************************************************************)
(* The other commands.  Each runs the steps of its plan in order; between  *)
(* two of them anything may happen.                                        *)
(***************************************************************************)
Begin(o, k) ==
    /\ op[o] = NoOp /\ k \in Kinds
    /\ op' = [op EXCEPT ![o] = [kind |-> k, at |-> 1, seq |-> None]]
    /\ UNCHANGED <<active, stored, gate, slot, loader, search, view, shown>>

Busy(o)      == op[o].kind \in DOMAIN Plan
Todo(o)      == IF Busy(o) THEN op[o].at .. Len(Plan[op[o].kind]) ELSE {}
Owes(o, s)   == \E i \in Todo(o) : Plan[op[o].kind][i] = s
Due(o, s)    == Busy(o) /\ Plan[op[o].kind][op[o].at] = s
After(o)     == IF op[o].at < Len(Plan[op[o].kind]) THEN [op[o] EXCEPT !.at = @ + 1]
                                                    ELSE NoOp
Done(o)      == op' = [op EXCEPT ![o] = After(o)]

\* submit_settings_patch; the teardown runs whether or not it succeeded.
Configure(o) ==
    /\ Due(o, "configure") /\ Done(o)
    /\ \/ active' \in Model
       \/ "configure" \in Faulty /\ UNCHANGED active
    /\ UNCHANGED <<stored, gate, slot, loader, search, view, shown>>

\* A transaction on one model's embeddings: a batch of reset_ai_embeddings
\* (a later batch may follow, or fail: the teardown runs all the same), or
\* batch_finish_ai_items, which on failure leaves the embeddings alone and
\* ends flush_batch without an invalidation.
Write(o) ==
    /\ Due(o, "write")
    /\ \E m \in Model :
         /\ emb[m] < MaxWrites
         /\ emb' = [emb EXCEPT ![m] = @ + 1]
    /\ Done(o) \/ (op[o].kind = "reset" /\ UNCHANGED op)
    /\ UNCHANGED <<active, dropped, gate, slot, loader, search, view, shown>>

WriteFails(o) ==
    /\ Due(o, "write") /\ "write" \in Faulty
    /\ \/ op[o].kind = "reset" /\ Done(o)
       \/ op[o].kind = "flush" /\ op' = [op EXCEPT ![o] = NoOp]
    /\ UNCHANGED <<active, stored, gate, slot, loader, search, view, shown>>

\* invalidate_derived_for_item, or the cascade of a deletion of items: the
\* embeddings go, of every model, and the search is not told.
Drop(o) ==
    /\ Due(o, "drop") /\ dropped < MaxWrites
    /\ dropped' = dropped + 1
    /\ Done(o)
    /\ UNCHANGED <<active, emb, gate, slot, loader, search, view, shown>>

\* begin_clear: every registered search loses its right to commit.
Revoke(o) ==
    /\ Due(o, "revoke") /\ nextSeq < MaxSeq
    /\ nextSeq' = nextSeq + 1
    /\ latest' = None /\ wipeFailed' = FALSE
    /\ op' = [op EXCEPT ![o] = [After(o) EXCEPT !.seq = nextSeq + 1]]
    /\ UNCHANGED <<active, stored, committed, table, slot, loader, search, view, shown>>

\* invalidate_cache: the count and the slot are changed under one lock.
Invalidate(o) ==
    /\ Due(o, "invalidate") /\ Done(o)
    /\ epoch' = epoch + 1 /\ cache' = NoSnap
    /\ UNCHANGED <<active, stored, gate, loader, search, view, shown>>

\* Mutant: a late wipe does not look for a newer registration.
WipeUnchecked(o) ==
    /\ Due(o, "wipe") /\ Done(o)
    /\ table' = NoTable /\ committed' = None
    /\ UNCHANGED <<active, stored, nextSeq, latest, wipeFailed, slot, loader, search, view, shown>>

\* clear_if_current: only when nothing has registered since begin_clear.
Wipe(o) ==
    /\ Due(o, "wipe") /\ Done(o)
    /\ IF nextSeq = op[o].seq
       THEN table' = NoTable /\ committed' = None
       ELSE UNCHANGED <<table, committed>>
    /\ UNCHANGED <<active, stored, nextSeq, latest, wipeFailed, slot, loader, search, view, shown>>

WipeFails(o) ==
    /\ Due(o, "wipe") /\ "wipe" \in Faulty /\ Done(o)
    /\ wipeFailed' = TRUE
    /\ UNCHANGED <<active, stored, nextSeq, latest, committed, table, slot,
                   loader, search, view, shown>>

OpStep(o) ==
    \/ Configure(o) \/ Write(o) \/ WriteFails(o) \/ Drop(o) \/ Revoke(o)
    \/ Invalidate(o) \/ Wipe(o) \/ WipeFails(o)

(***************************************************************************)
(* A layout of the semantic result: note whose result the table holds,     *)
(* query the table, and publish if it still has the same owner.            *)
(***************************************************************************)
Probe(v) ==
    /\ view[v].at = "idle"
    /\ view' = [view EXCEPT ![v].at = "query", ![v].expected = committed]
    /\ UNCHANGED <<active, stored, gate, slot, loader, search, op, shown>>

Query(v) ==
    /\ view[v].at = "query"
    /\ view' = [view EXCEPT ![v].at = "publish", ![v].rows = table]
    /\ UNCHANGED <<active, stored, gate, slot, loader, search, op, shown>>

\* Mutant: the owner is not compared again.
PublishUnchecked(v) ==
    /\ view[v].at = "publish"
    /\ shown' = view[v].rows
    /\ view' = [view EXCEPT ![v] = NoView]
    /\ UNCHANGED <<active, stored, gate, slot, loader, search, op>>

\* with_committed: the comparison and the publication hold the gate.
Publish(v) ==
    /\ view[v].at = "publish"
    /\ shown' = IF view[v].expected = committed THEN view[v].rows ELSE shown
    /\ view' = [view EXCEPT ![v] = NoView]
    /\ UNCHANGED <<active, stored, gate, slot, loader, search, op>>

Next ==
    \/ \E r \in Request : Register(r) \/ SearchStep(r)
    \/ \E o \in Op : OpStep(o) \/ (\E k \in Kinds : Begin(o, k))
    \/ \E v \in View : Probe(v) \/ Query(v) \/ Publish(v)

\* A blocking thread that has a step to do is eventually scheduled.
Spec == Init /\ [][Next]_vars /\ \A r \in Request : WF_vars(SearchStep(r))

(***************************************************************************)
(* Properties                                                              *)
(***************************************************************************)
Places  == {"idle", "encode", "enter", "lookup", "gate", "epoch", "load", "install", "commit"}
Locals  == [at : Places, seq : Nat, model : Model \cup {"none"}, seen : Nat,
            snap : Snapshot \cup {NoSnap}, loads : Nat]
Command == [kind : DOMAIN Plan \cup {"none"}, at : Nat, seq : Nat]
Layout  == [at : {"idle", "query", "publish"}, expected : Nat, rows : Result \cup {NoTable}]

TypeOK ==
    /\ active \in Model /\ emb \in [Model -> Nat] /\ dropped \in Nat
    /\ nextSeq \in Nat /\ latest \in Nat /\ committed \in Nat /\ wipeFailed \in BOOLEAN
    /\ table \in Result \cup {NoTable} /\ shown \in Result \cup {NoTable}
    /\ epoch \in Nat /\ cache \in Snapshot \cup {NoSnap}
    /\ loader \subseteq Request
    /\ search \in [Request -> Locals] /\ op \in [Op -> Command] /\ view \in [View -> Layout]

Pending(s) == \E o \in Op : Owes(o, s)

\* A snapshot from before a batch of the analysis or a reset is never resident
\* for good: whenever the resident one is older than what they have written,
\* some command has still to invalidate it.  A load that raced with a write or
\* an invalidation must not slip in (install_if_fresh and invalidate_cache share
\* a lock for this).  Of the embeddings that scans delete it says nothing: those
\* do stay, see DeletedNotFound.
ResidentFresh ==
    cache # NoSnap /\ cache.version # emb[cache.model] => Pending("invalidate")

\* The query vector and the vectors it was scored against are of one model,
\* through any switch of the model and whatever snapshot is resident.
OneVectorSpace == table # NoTable => table.by = table.space.model

\* When the table holds what the user asked for last and no switch has still
\* to revoke, it was computed with the configured model: no search resolved
\* an older model and then registered past the revocation.
LatestIsActive ==
    committed # None /\ committed = latest /\ ~Pending("revoke") => table.by = active

\* A clear sticks: once searches are revoked, none has registered since and
\* no wipe is left to do or has failed, the table is empty, however late the
\* revoked searches finish.
ClearSticks ==
    nextSeq > 0 /\ latest = None /\ ~Pending("wipe") /\ ~wipeFailed
        => table = NoTable

\* A late search, or a late wipe, never undoes the result of a newer one: the
\* table of the latest search is only replaced by a later search or after a
\* later revocation.
NewestResultStays ==
    [][committed # None /\ committed = latest => UNCHANGED table]_table

\* A layout that noted an owner publishes the rows that owner's table holds.
PublishedFromOwner ==
    [][\A v \in View : Publish(v) /\ shown' # shown /\ view[v].expected # None
        => shown' = table]_vars

\* Once a reset of the embeddings is over and every search has ended, the
\* ranking over the deleted embeddings is gone (ai_commands.rs:35-41).
\* Stated for runs in which resets are the only commands.
DeletedRankingGone ==
    (\A o \in Op : op[o] = NoOp) /\ (\A r \in Request : At(r, "idle")) /\ table # NoTable
        => table.space.version = emb[table.space.model]

\* With no command under way, a search that takes the resident snapshot finds
\* no vectors in it that have been deleted since: what changed on disk is not
\* found by what it showed before (media_upsert.rs:88).
DeletedNotFound ==
    [][(\A o \in Op : op[o] = NoOp) =>
          \A r \in Request : At(r, "lookup") /\ Take(r) => cache.dropped = dropped]_vars

\* The gate goes round: who holds it is loading and waits for nobody, nobody
\* loads without it, and no two searches load at once, whichever load fails or
\* is thrown away (the guard of load_snapshot_for).
Loading(r) == search[r].at \in {"epoch", "load", "install"}
GateGoesRound ==
    /\ \A r \in Request : Loading(r) <=> r \in loader
    /\ \A r, q \in loader : r = q

\* How many steps a search has still to go at most, when it is at this place
\* and has made this many loads.
Remaining(place, loads) ==
    CASE place = "encode"  -> 3 * MaxLoads + 6
      [] place = "enter"   -> 3 * MaxLoads + 5
      [] place = "lookup"  -> 3 * MaxLoads + 4
      [] place = "gate"    -> 3 * MaxLoads + 3
      [] place = "epoch"   -> 3 * (MaxLoads - loads) + 2
      [] place = "load"    -> 3 * (MaxLoads - loads) + 4
      [] place = "install" -> 3 * (MaxLoads - loads) + 3
      [] place = "commit"  -> 1
      [] place = "idle"    -> 0
StepsLeft(r) == Remaining(search[r].at, search[r].loads)

\* A search only goes forward: however often what it loads is invalidated under
\* it, and whatever the other searches and commands do, each of its steps brings
\* its end nearer (MAX_LOAD_ATTEMPTS, load_snapshot_for).
SearchesWindDown ==
    [][\A r \in Request : ~At(r, "idle") =>
          \/ UNCHANGED search[r]
          \/ StepsLeft(r)' \in Nat /\ StepsLeft(r)' < StepsLeft(r)]_vars

\* Every registered search ends, whatever fails and however often the
\* embeddings it loads are invalidated.
SearchesEnd == \A r \in Request : ~At(r, "idle") ~> At(r, "idle")
=============================================================================
