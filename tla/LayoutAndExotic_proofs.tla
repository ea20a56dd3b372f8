----------------------- MODULE LayoutAndExotic_proofs ------------------------
(***************************************************************************)
(* What is proved of LayoutPublication, for all writers and bounds, and of *)
(* ExoticTasks, for all instances, slots and bounds.  The two models share *)
(* nothing.                                                                *)
(***************************************************************************)
EXTENDS LayoutPublication, ExoticTasks, FiniteSetTheorems, TLAPS

(***************************************************************************)
(* LayoutPublication.                                                      *)
(***************************************************************************)

----------------------------------------------------------------------------
(* Types, and the count of the writers that are in.                        *)

InChange == {"patching", "bumping", "clearing", "leaving", "leavingCleared"}
Inside   == {w \in Writers : wat[w] \in InChange}

Counted == IsFiniteSet(Inside) /\ publication.writers = Cardinality(Inside)

LayoutTyped == LayoutTypeOK /\ Counted

LEMMA DataFacts ==
    /\ NoFacts \in Facts /\ NoItems \in Items /\ NoLayout \in LayoutData
    /\ NoItems.by = 0 /\ ~NoItems.reusable /\ NoItems.version = 0 /\ NoLayout.by = 0
    /\ Requests \subseteq Nat \ {0} /\ Requests = 1 .. MaxCalls /\ MaxCalls \in Nat
BY LayoutAssumption DEF NoFacts, Facts, NoItems, Items, Views, NoLayout, LayoutData, Requests

LEMMA ItemsFields ==
    \A X \in Items : /\ X.by \in Nat /\ X.view \in Views /\ X.version \in Nat
                     /\ X.reusable \in BOOLEAN /\ X.chosen \in Nat
                     /\ X.shows.scan \in Nat /\ X.shows.stars \in Nat /\ X.shows.thumbs \in Nat
BY DEF Items, Facts

\* One writer goes in, or out.
LEMMA CountIn ==
    ASSUME Counted, NEW w \in Writers, w \notin Inside, Inside' = Inside \cup {w},
           publication'.writers = publication.writers + 1
    PROVE  Counted'
BY FS_AddElement DEF Counted

LEMMA CountOut ==
    ASSUME Counted, NEW w \in Writers, w \in Inside, Inside' = Inside \ {w},
           publication'.writers = publication.writers - 1
    PROVE  Counted' /\ publication'.writers \in Nat
<1>1. IsFiniteSet(Inside') /\ Cardinality(Inside') = Cardinality(Inside) - 1
    BY FS_RemoveElement DEF Counted
<1>2. Cardinality(Inside') \in Nat
    BY <1>1, FS_CardinalityType
<1> QED BY <1>1, <1>2 DEF Counted

Gate == [request : 0 .. MaxCalls, inputs : Nat, writers : Nat]

LEMMA GateMoves ==
    ASSUME publication \in Gate, NEW n \in Nat,
           \/ publication' = [publication EXCEPT !.inputs = @ + 1, !.writers = @ + 1]
              /\ n = publication.writers + 1
           \/ publication' = [publication EXCEPT !.inputs = @ + 1, !.writers = @ - 1]
              /\ n = publication.writers - 1
    PROVE  /\ publication' = [request |-> publication.request,
                              inputs |-> publication.inputs + 1, writers |-> n]
           /\ publication' \in Gate
<1>1. publication'= [request |-> publication.request, inputs |-> publication.inputs + 1,
                     writers |-> n]
    BY DEF Gate
<1>2. publication.request \in 0 .. MaxCalls /\ publication.inputs + 1 \in Nat
    BY DEF Gate
<1> QED BY <1>1, <1>2 DEF Gate

\* Where a writer goes.
LEMMA InsideMoves ==
    ASSUME LayoutTypeOK, NEW w \in Writers, NEW place, wat' = [wat EXCEPT ![w] = place]
    PROVE  Inside' = IF place \in InChange THEN Inside \cup {w} ELSE Inside \ {w}
BY DEF LayoutTypeOK, Inside

WriterPlaces == {"idle", "written", "clearing", "cleared", "patching", "bumping", "leaving",
                 "leavingCleared"}

LEMMA WriterTyped ==
    ASSUME LayoutTyped, NEW w \in Writers, WriterStep(w)
    PROVE  LayoutTyped'
<1> USE DataFacts
<1>0. /\ facts \in Facts /\ dataVersion \in Nat
      /\ publication \in Gate
      /\ itemsCache \in Items /\ layoutCache \in LayoutData
      /\ wat \in [Writers -> WriterPlaces] /\ wkind \in [Writers -> WriteKinds]
      /\ wrote \in [Writers -> Nat] /\ writes \in Nat /\ crossed \in BOOLEAN /\ LayoutTypeOK
    BY DEF LayoutTyped, LayoutTypeOK, WriterPlaces, Gate
<1>1. ASSUME NEW kind \in WriteKinds, WriteFacts(w, kind) PROVE LayoutTyped'
    <2>1. facts' \in Facts
        <3>1. facts.scan + 1 \in Nat /\ facts.stars + 1 \in Nat /\ facts.thumbs + 1 \in Nat
            BY <1>0 DEF Facts
        <3>2. \/ facts' = [facts EXCEPT !.scan = @ + 1] \/ facts' = [facts EXCEPT !.stars = @ + 1]
              \/ facts' = [facts EXCEPT !.thumbs = @ + 1]
            BY <1>1 DEF WriteFacts, WriteKinds
        <3> QED BY <1>0, <3>1, <3>2 DEF Facts
    <2>2. /\ wat' = [wat EXCEPT ![w] = "written"] /\ wkind' = [wkind EXCEPT ![w] = kind]
          /\ wrote' = [wrote EXCEPT ![w] = facts'.stars] /\ writes' = writes + 1
          /\ UNCHANGED <<dataVersion, publication, itemsCache, layoutCache, requestVars>>
          /\ wat[w] = "idle"
        BY <1>1 DEF WriteFacts
    <2>3. crossed' \in BOOLEAN
        BY <1>1, Zenon DEF WriteFacts
    <2>4. facts'.stars \in Nat
        BY <2>1 DEF Facts
    <2>5. Inside' = Inside
        BY <1>0, <2>2, InsideMoves DEF InChange, Inside
    <2>6. Counted'
        BY <2>2, <2>5 DEF Counted, LayoutTyped
    <2>7. wat' \in [Writers -> WriterPlaces] /\ wkind' \in [Writers -> WriteKinds]
          /\ wrote' \in [Writers -> Nat] /\ writes' \in Nat
        BY <1>0, <2>2, <2>4 DEF WriterPlaces
    <2> QED BY <1>0, <2>1, <2>2, <2>3, <2>6, <2>7 DEF LayoutTyped, LayoutTypeOK, WriterPlaces, requestVars, Gate
<1>2. CASE EnterChange(w)
    <2>1. PICK place \in {"clearing", "patching", "bumping"} : wat' = [wat EXCEPT ![w] = place]
        BY <1>2 DEF EnterChange
    <2>2. wat[w] \in {"written", "cleared"}
          /\ publication' = [publication EXCEPT !.inputs = @ + 1, !.writers = @ + 1]
          /\ UNCHANGED <<facts, dataVersion, itemsCache, layoutCache, requestVars, wkind, wrote,
                         writes, crossed>>
        BY <1>2 DEF EnterChange
    <2>3. publication' \in Gate /\ publication'.writers = publication.writers + 1
        <3>1. publication.writers + 1 \in Nat
            BY <1>0 DEF Gate
        <3> QED BY <1>0, <2>2, <3>1, GateMoves
    <2>4. Inside' = Inside \cup {w}
        BY <1>0, <2>1, InsideMoves DEF InChange
    <2>5. Counted'
        BY <2>2, <2>3, <2>4, CountIn DEF LayoutTyped, Inside, InChange
    <2>6. wat' \in [Writers -> WriterPlaces]
        BY <1>0, <2>1 DEF WriterPlaces
    <2> QED BY <1>0, <2>2, <2>3, <2>5, <2>6 DEF LayoutTyped, LayoutTypeOK, WriterPlaces, requestVars, Gate
<1>3. CASE Patch(w) \/ Bump(w) \/ Clear(w)
    <2>1. PICK place \in {"leaving", "leavingCleared"} : wat' = [wat EXCEPT ![w] = place]
        BY <1>3 DEF Patch, Bump, Clear
    <2>2. wat[w] \in InChange
          /\ UNCHANGED <<facts, publication, requestVars, wkind, wrote, writes, crossed>>
        BY <1>3 DEF Patch, Bump, Clear, InChange
    <2>3. Inside' = Inside
        BY <1>0, <2>1, <2>2, InsideMoves DEF InChange, Inside
    <2>4. Counted'
        BY <2>2, <2>3 DEF Counted, LayoutTyped
    <2>5. wat' \in [Writers -> WriterPlaces]
        BY <1>0, <2>1 DEF WriterPlaces
    <2>6. dataVersion' \in Nat /\ layoutCache' \in LayoutData
        BY <1>0, <1>3 DEF Patch, Bump, Clear
    <2>7. itemsCache' \in Items
        <3>1. CASE Patch(w) /\ itemsCache.by # 0
            <4>1. itemsCache' = [itemsCache EXCEPT !.shows.stars = wrote[w],
                                                   !.reusable = @ /\ itemsCache.view # "favorites"]
                BY <3>1 DEF Patch
            <4>2. (itemsCache.reusable /\ itemsCache.view # "favorites") \in BOOLEAN /\ wrote[w] \in Nat
                BY <1>0
            <4> QED BY <1>0, <4>1, <4>2 DEF Items, Facts
        <3>2. CASE ~(Patch(w) /\ itemsCache.by # 0)
            BY <1>0, <1>3, <3>2 DEF Patch, Bump, Clear
        <3> QED BY <3>1, <3>2
    <2> QED BY <1>0, <2>2, <2>4, <2>5, <2>6, <2>7 DEF LayoutTyped, LayoutTypeOK, WriterPlaces, requestVars, Gate
<1>4. CASE Leave(w)
    <2>1. PICK place \in {"idle", "cleared"} : wat' = [wat EXCEPT ![w] = place]
        BY <1>4 DEF Leave
    <2>2. wat[w] \in InChange
          /\ publication' = [publication EXCEPT !.inputs = @ + 1, !.writers = @ - 1]
          /\ UNCHANGED <<facts, dataVersion, itemsCache, layoutCache, requestVars, wkind, wrote,
                         writes, crossed>>
        BY <1>4 DEF Leave, InChange
    <2>3. Inside' = Inside \ {w} /\ w \in Inside
        BY <1>0, <2>1, <2>2, InsideMoves DEF InChange, Inside
    <2>4. publication'.writers = publication.writers - 1
        BY <1>0, <2>2 DEF Gate
    <2>5. Counted' /\ publication'.writers \in Nat
        BY <2>3, <2>4, CountOut DEF LayoutTyped
    <2>6. publication' \in Gate
        <3>1. publication.writers - 1 \in Nat
            BY <2>4, <2>5
        <3> QED BY <1>0, <2>2, <3>1, GateMoves
    <2>7. wat' \in [Writers -> WriterPlaces]
        BY <1>0, <2>1 DEF WriterPlaces
    <2> QED BY <1>0, <2>2, <2>5, <2>6, <2>7 DEF LayoutTyped, LayoutTypeOK, WriterPlaces, requestVars, Gate
<1> QED BY <1>1, <1>2, <1>3, <1>4 DEF WriterStep

Steps == {"none", "registered", "computing", "computed", "answered", "refused"}

LEMMA RequestTyped ==
    ASSUME LayoutTyped, NEW r \in Requests, RequestStep(r)
    PROVE  LayoutTyped'
<1> USE DataFacts
<1>0. /\ facts \in Facts /\ dataVersion \in Nat
      /\ publication \in Gate
      /\ itemsCache \in Items /\ layoutCache \in LayoutData /\ at \in [Requests -> Steps]
      /\ ticket \in [Requests -> Nat] /\ wanted \in [Requests -> Views]
      /\ version \in [Requests -> Nat]
      /\ base \in [Requests -> Items] /\ candidate \in [Requests -> Items] /\ LayoutTypeOK
    BY DEF LayoutTyped, LayoutTypeOK, Steps, Gate
<1>1. UNCHANGED <<facts, dataVersion, writerVars>>
    BY DEF RequestStep, RegisterRequest, ProbeCaches, Refuse, Compute, InstallLayout
<1>2. /\ publication' \in Gate
      /\ publication'.writers = publication.writers
    <2>1. CASE RegisterRequest(r)
        <3>1. r \in 0 .. MaxCalls
            OBVIOUS
        <3> QED BY <1>0, <2>1, <3>1 DEF RegisterRequest, Gate
    <2>2. CASE ~RegisterRequest(r)
        BY <1>0, <2>2 DEF RequestStep, ProbeCaches, Refuse, Compute, InstallLayout
    <2> QED BY <2>1, <2>2
<1>3. Counted'
    BY <1>1, <1>2 DEF LayoutTyped, Counted, Inside, writerVars
<1>4. at' \in [Requests -> Steps]
    <2>1. PICK place \in Steps : at' = [at EXCEPT ![r] = place]
        <3>1. CASE RegisterRequest(r)
            BY <3>1 DEF RegisterRequest, Steps
        <3>2. CASE ProbeCaches(r)
            BY <3>2 DEF ProbeCaches, Steps
        <3>3. CASE Refuse(r) \/ Compute(r) \/ InstallLayout(r)
            BY <3>3 DEF Refuse, Compute, InstallLayout, Steps
        <3> QED BY <3>1, <3>2, <3>3 DEF RequestStep
    <2> QED BY <1>0, <2>1
<1>5. wanted' \in [Requests -> Views]
    <2>1. CASE RegisterRequest(r)
        <3>1. PICK v \in Views : wanted' = [wanted EXCEPT ![r] = v]
            BY <2>1 DEF RegisterRequest
        <3> QED BY <1>0, <3>1
    <2>2. CASE ~RegisterRequest(r)
        BY <1>0, <2>2 DEF RequestStep, ProbeCaches, Refuse, Compute, InstallLayout
    <2> QED BY <2>1, <2>2
<1>6. /\ ticket' \in [Requests -> Nat] /\ version' \in [Requests -> Nat]
      /\ base' \in [Requests -> Items]
    <2>1. CASE RegisterRequest(r)
        <3>1. publication.inputs \in Nat
            BY <1>0 DEF Gate
        <3> QED BY <1>0, <2>1, <3>1 DEF RegisterRequest
    <2>2. CASE Ended(r)
        BY <1>0, <2>2 DEF Ended
    <2>3. CASE ProbeCaches(r) /\ ~Ended(r)
        <3>1. /\ version' = [version EXCEPT ![r] = dataVersion]
              /\ base' = [base EXCEPT ![r] = itemsCache]
              /\ UNCHANGED <<ticket, candidate>>
            BY <2>3, Zenon DEF ProbeCaches
        <3> QED BY <1>0, <3>1
    <2>4. CASE Compute(r)
        BY <1>0, <2>4 DEF Compute
    <2>5. RegisterRequest(r) \/ Ended(r) \/ ProbeCaches(r) \/ Compute(r)
        BY DEF RequestStep, Refuse, InstallLayout
    <2> QED BY <2>1, <2>2, <2>3, <2>4, <2>5
<1>7. Now(candidate[r]) \in Items /\ Now(base[r]) \in Items
    BY <1>0 DEF Now
<1>8. candidate' \in [Requests -> Items]
    <2>1. [by |-> r, view |-> wanted[r], version |-> version[r], reusable |-> TRUE,
           chosen |-> facts.stars, shows |-> facts] \in Items
        BY <1>0 DEF Items, Facts
    <2>2. CASE Compute(r)
        BY <1>0, <1>7, <2>1, <2>2 DEF Compute
    <2>3. CASE ~Compute(r)
        BY <1>0, <2>3, SMTT(20) DEF RequestStep, RegisterRequest, ProbeCaches, Refuse, InstallLayout, Ended
    <2> QED BY <2>2, <2>3
<1>9. itemsCache' \in Items
    BY <1>0, <1>7 DEF RequestStep, RegisterRequest, ProbeCaches, Refuse, Compute, InstallLayout
<1>10. layoutCache' \in LayoutData
    <2>1. candidate[r].by \in Nat
        BY <1>0, ItemsFields
    <2>2. [by |-> r, view |-> wanted[r], version |-> version[r], items |-> candidate[r].by] \in LayoutData
        BY <1>0, <2>1 DEF LayoutData
    <2> QED BY <1>0, <2>2 DEF RequestStep, RegisterRequest, ProbeCaches, Refuse, Compute, InstallLayout
<1> QED BY <1>0, <1>1, <1>2, <1>3, <1>4, <1>5, <1>6, <1>8, <1>9, <1>10
        DEF LayoutTyped, LayoutTypeOK, Steps, writerVars, Gate

LEMMA LayoutInitTyped == LayoutInit => LayoutTyped
<1> SUFFICES ASSUME LayoutInit PROVE LayoutTyped
    OBVIOUS
<1>1. LayoutTypeOK
    <2>1. /\ facts \in Facts /\ itemsCache \in Items /\ layoutCache \in LayoutData
          /\ base \in [Requests -> Items] /\ candidate \in [Requests -> Items]
        BY DataFacts DEF LayoutInit
    <2>2. publication \in [request : 0 .. MaxCalls, inputs : Nat, writers : Nat]
        BY DataFacts DEF LayoutInit
    <2>3. /\ dataVersion \in Nat /\ writes \in Nat /\ crossed \in BOOLEAN
          /\ ticket \in [Requests -> Nat] /\ version \in [Requests -> Nat]
          /\ wrote \in [Writers -> Nat]
        BY DEF LayoutInit
    <2>4. /\ wanted \in [Requests -> Views] /\ wkind \in [Writers -> WriteKinds]
          /\ at \in [Requests -> Steps] /\ wat \in [Writers -> WriterPlaces]
        BY DEF LayoutInit, Views, WriteKinds, Steps, WriterPlaces
    <2> QED BY <2>1, <2>2, <2>3, <2>4 DEF LayoutTypeOK, Steps, WriterPlaces
<1>2. Inside = {} /\ publication.writers = 0
    BY DEF LayoutInit, Inside, InChange
<1> QED BY <1>1, <1>2, FS_EmptySet DEF LayoutTyped, Counted

LEMMA LayoutStepTyped ==
    ASSUME LayoutTyped, [LayoutNext]_lvars
    PROVE  LayoutTyped'
<1>1. CASE UNCHANGED lvars
    BY <1>1 DEF LayoutTyped, LayoutTypeOK, Counted, Inside, lvars, requestVars, writerVars
<1> QED BY <1>1, RequestTyped, WriterTyped DEF LayoutNext

\* For all writers and bounds, every variable keeps its type, and the gate's
\* count of writers never goes below zero.
THEOREM LayoutTypes == LayoutSpec => []LayoutTypeOK
<1>1. LayoutTyped /\ [LayoutNext]_lvars => LayoutTyped'
    BY LayoutStepTyped
<1> QED BY LayoutInitTyped, <1>1, PTL DEF LayoutSpec, LayoutTyped

----------------------------------------------------------------------------
(* What writers have still to do, and what is known of items.              *)

Unpatched(w) == wkind[w] = "star" /\ wat[w] \in {"written", "patching"}
Unbumped(w, kind) ==
    wkind[w] = kind
        /\ wat[w] \in {"written", "clearing", "leavingCleared", "cleared", "bumping"}

Scanning  == \E w \in Writers : Unbumped(w, "scan")
Resetting == \E w \in Writers : Unbumped(w, "reset")
Unsure    == crossed \/ \E w \in Writers : Unpatched(w)

Kinds ==
    \A w \in Writers :
        /\ wat[w] = "patching" => wkind[w] = "star"
        /\ wat[w] \in {"clearing", "leavingCleared", "cleared"} => wkind[w] = "reset"
        /\ Unpatched(w) /\ ~crossed => wrote[w] = facts.stars

\* Items of the version that holds lack only what a writer has yet to count.
Known(X, dv, last, views, f, scanning, resetting) ==
    /\ X.version <= dv /\ X.by <= last
    /\ X.by = 0 => ~X.reusable
    /\ X.by # 0 => /\ X.by \in Requests /\ X.view = views[X.by]
                   /\ X.version = dv => /\ X.shows.scan = f.scan \/ scanning
                                        /\ X.shows.thumbs = f.thumbs \/ resetting

\* Stars are as they are, unless a write of them has yet to be patched in.
Starred(X, f, unsure) ==
    X.by # 0 /\ ~unsure =>
        /\ X.shows.stars = f.stars
        /\ X.view = "favorites" /\ X.reusable => X.chosen = f.stars

KnownNow(X)   == Known(X, dataVersion, publication.request, wanted, facts, Scanning, Resetting)
StarredNow(X) == Starred(X, facts, Unsure)

Working(r) == at[r] \in {"computing", "computed"}

Tickets ==
    \A r \in Requests :
        /\ ticket[r] <= publication.inputs /\ version[r] <= dataVersion
        /\ KnownNow(base[r]) /\ KnownNow(candidate[r])
        /\ Working(r) => r <= publication.request
        /\ at[r] # "computed" => candidate[r].by = 0
        /\ at[r] = "computed" => candidate[r].by # 0 /\ candidate[r].view = wanted[r]
        /\ Working(r) /\ ticket[r] = publication.inputs =>
              publication.writers = 0 /\ StarredNow(base[r]) /\ StarredNow(candidate[r])

ShownItems == KnownNow(itemsCache) /\ StarredNow(itemsCache) /\ RowsOfItems /\ NewestIsShown

Fresh == LayoutTyped /\ Kinds /\ Tickets /\ ShownItems

\* What a step leaves known of any items.
KnownStays ==
    \A X \in Items :
        Known(X, dataVersion, publication.request, wanted, facts, Scanning, Resetting) =>
        Known(X, dataVersion', publication'.request, wanted', facts', Scanning', Resetting')
StarredStays ==
    \A X \in Items : Starred(X, facts, Unsure) => Starred(X, facts', Unsure')

\* No items are known, and starred, whatever the state.
LEMMA NoItemsKnown ==
    ASSUME NEW dv \in Nat, NEW last \in Nat, NEW views, NEW f, NEW s, NEW t, NEW u
    PROVE  Known(NoItems, dv, last, views, f, s, t) /\ Starred(NoItems, f, u)
BY DEF NoItems, Known, Starred

\* A request's step adds at most a view, that of its own number.
LEMMA RequestFacts ==
    ASSUME LayoutTyped, NEW r \in Requests, RequestStep(r)
    PROVE  KnownStays /\ StarredStays /\ Kinds = Kinds'
<1>1. UNCHANGED <<facts, dataVersion, wat, wkind, wrote, crossed>>
    BY DEF RequestStep, RegisterRequest, ProbeCaches, Refuse, Compute, InstallLayout, writerVars
<1>2. /\ Scanning' = Scanning /\ Resetting' = Resetting /\ Unsure' = Unsure /\ Kinds' = Kinds
      /\ Scanning \in BOOLEAN /\ Resetting \in BOOLEAN
    BY <1>1 DEF Scanning, Resetting, Unsure, Kinds, Unbumped, Unpatched
<1>3. /\ publication.request \in Nat /\ publication'.request \in Nat /\ dataVersion \in Nat
      /\ publication.request <= publication'.request
      /\ \A i \in 1 .. publication.request : i \in Requests => wanted'[i] = wanted[i]
    <2>1. publication \in [request : 0 .. MaxCalls, inputs : Nat, writers : Nat]
          /\ wanted \in [Requests -> Views] /\ dataVersion \in Nat
        BY DEF LayoutTyped, LayoutTypeOK
    <2>2. CASE RegisterRequest(r)
        <3>1. /\ r = publication.request + 1 /\ publication' = [publication EXCEPT !.request = r]
              /\ \E v \in Views : wanted' = [wanted EXCEPT ![r] = v]
            BY <2>2 DEF RegisterRequest
        <3> QED BY <2>1, <3>1, DataFacts
    <2>3. CASE ~RegisterRequest(r)
        BY <2>1, <2>3, DataFacts DEF RequestStep, ProbeCaches, Refuse, Compute, InstallLayout
    <2> QED BY <2>2, <2>3
<1>4. ASSUME NEW X \in Items,
             Known(X, dataVersion, publication.request, wanted, facts, Scanning, Resetting)
      PROVE  Known(X, dataVersion', publication'.request, wanted', facts', Scanning', Resetting')
    <2>1. /\ X.by \in Nat /\ X.by <= publication.request
          /\ X.by # 0 => X.by \in Requests /\ X.by \in 1 .. publication.request
        BY <1>3, <1>4, ItemsFields DEF Known
    <2> QED BY <1>1, <1>2, <1>3, <1>4, <2>1 DEF Known
<1>5. KnownStays
    BY <1>4 DEF KnownStays
<1>6. StarredStays
    BY <1>1, <1>2 DEF StarredStays
<1> QED BY <1>2, <1>5, <1>6

\* A writer's step: who else has what to do, and the gate.
LEMMA WriterFacts ==
    ASSUME LayoutTyped, Kinds, NEW w \in Writers, WriterStep(w)
    PROVE  Kinds' /\ KnownStays
<1>0. /\ wat \in [Writers -> WriterPlaces] /\ wkind \in [Writers -> WriteKinds]
      /\ wrote \in [Writers -> Nat] /\ facts \in Facts /\ dataVersion \in Nat
      /\ publication \in Gate /\ publication.request \in Nat
    BY DataFacts DEF LayoutTyped, LayoutTypeOK, WriterPlaces, Gate
<1>1. /\ \A u \in Writers : u # w => wat'[u] = wat[u] /\ wkind'[u] = wkind[u] /\ wrote'[u] = wrote[u]
      /\ wanted' = wanted
    BY <1>0 DEF WriterStep, WriteFacts, EnterChange, Patch, Bump, Clear, Leave, requestVars
<1>2. publication'.request = publication.request
    BY <1>0 DEF WriterStep, WriteFacts, EnterChange, Patch, Bump, Clear, Leave, Gate
<1>3. Kinds'
    <2>1. ASSUME NEW kind \in WriteKinds, WriteFacts(w, kind) PROVE Kinds'
        <3>1. /\ wat[w] = "idle" /\ wat'[w] = "written" /\ wkind'[w] = kind /\ wrote'[w] = facts'.stars
            BY <1>0, <2>1 DEF WriteFacts
        <3>2. kind # "star" => facts'.stars = facts.stars /\ crossed' = crossed
            <4>1. kind # "star" => \/ facts' = [facts EXCEPT !.scan = @ + 1]
                                   \/ facts' = [facts EXCEPT !.thumbs = @ + 1]
                BY <2>1 DEF WriteFacts, WriteKinds
            <4>2. crossed' = (crossed \/ (kind = "star" /\ \E u \in Writers : wat[u] # "idle" /\ wkind[u] = "star"))
                BY <2>1 DEF WriteFacts
            <4>3. crossed \in BOOLEAN
                BY DEF LayoutTyped, LayoutTypeOK
            <4> QED BY <1>0, <4>1, <4>2, <4>3 DEF Facts
        <3>3. kind = "star" /\ ~crossed' => \A u \in Writers : ~(wat[u] # "idle" /\ wkind[u] = "star")
            <4>2. crossed' = (crossed \/ (kind = "star" /\ \E u \in Writers : wat[u] # "idle" /\ wkind[u] = "star"))
                BY <2>1 DEF WriteFacts
            <4> QED BY <4>2
        <3>4. ASSUME NEW u \in Writers, u # w
              PROVE  /\ wat'[u] = "patching" => wkind'[u] = "star"
                     /\ wat'[u] \in {"clearing", "leavingCleared", "cleared"} => wkind'[u] = "reset"
                     /\ Unpatched(u)' /\ ~crossed' => wrote'[u] = facts'.stars
            BY <1>1, <3>2, <3>3, <3>4 DEF Kinds, Unpatched
        <3>5. /\ wat'[w] = "patching" => wkind'[w] = "star"
              /\ wat'[w] \in {"clearing", "leavingCleared", "cleared"} => wkind'[w] = "reset"
              /\ Unpatched(w)' /\ ~crossed' => wrote'[w] = facts'.stars
            BY <3>1
        <3> QED BY <3>4, <3>5 DEF Kinds
    <2>2. CASE EnterChange(w) \/ Patch(w) \/ Bump(w) \/ Clear(w) \/ Leave(w)
        <3>1. UNCHANGED <<facts, wkind, wrote, crossed>>
            BY <2>2 DEF EnterChange, Patch, Bump, Clear, Leave
        <3>2. /\ wat'[w] = "patching" => wkind[w] = "star"
              /\ wat'[w] \in {"clearing", "leavingCleared", "cleared"} => wkind[w] = "reset"
              /\ Unpatched(w)' => Unpatched(w)
            BY <1>0, <2>2, <3>1 DEF EnterChange, Patch, Bump, Clear, Leave, Kinds, Unpatched
        <3>3. ASSUME NEW u \in Writers
              PROVE  /\ wat'[u] = "patching" => wkind'[u] = "star"
                     /\ wat'[u] \in {"clearing", "leavingCleared", "cleared"} => wkind'[u] = "reset"
                     /\ Unpatched(u)' /\ ~crossed' => wrote'[u] = facts'.stars
            <4>1. CASE u = w
                BY <3>1, <3>2, <4>1 DEF Kinds
            <4>2. CASE u # w
                BY <1>1, <3>1, <4>2 DEF Kinds, Unpatched
            <4> QED BY <4>1, <4>2
        <3> QED BY <3>3 DEF Kinds
    <2> QED BY <2>1, <2>2 DEF WriterStep
<1>4. /\ dataVersion' \in Nat /\ dataVersion <= dataVersion'
      /\ dataVersion' = dataVersion => /\ Scanning' \/ (facts'.scan = facts.scan /\ ~Scanning)
                                       /\ Resetting' \/ (facts'.thumbs = facts.thumbs /\ ~Resetting)
    <2>1. CASE Bump(w)
        BY <1>0, <2>1 DEF Bump
    <2>2. ASSUME NEW kind \in WriteKinds, WriteFacts(w, kind)
          PROVE  /\ dataVersion' = dataVersion
                 /\ Scanning' \/ (facts'.scan = facts.scan /\ ~Scanning)
                 /\ Resetting' \/ (facts'.thumbs = facts.thumbs /\ ~Resetting)
        <3>1. wat[w] = "idle" /\ wat'[w] = "written" /\ wkind'[w] = kind /\ dataVersion' = dataVersion
            BY <1>0, <2>2 DEF WriteFacts
        <3>2. /\ kind = "scan" => Scanning'
              /\ kind = "reset" => Resetting'
            BY <3>1 DEF Scanning, Resetting, Unbumped
        <3>3. /\ Scanning => Scanning'
              /\ Resetting => Resetting'
            BY <1>1, <3>1 DEF Scanning, Resetting, Unbumped
        <3>4. /\ kind # "scan" => facts'.scan = facts.scan
              /\ kind # "reset" => facts'.thumbs = facts.thumbs
            <4>1. /\ kind = "scan" => facts' = [facts EXCEPT !.scan = @ + 1]
                  /\ kind = "star" => facts' = [facts EXCEPT !.stars = @ + 1]
                  /\ kind = "reset" => facts' = [facts EXCEPT !.thumbs = @ + 1]
                BY <2>2 DEF WriteFacts
            <4> QED BY <1>0, <4>1 DEF Facts, WriteKinds
        <3> QED BY <3>1, <3>2, <3>3, <3>4
    <2>3. CASE EnterChange(w) \/ Patch(w) \/ Clear(w) \/ Leave(w)
        <3>1. UNCHANGED <<facts, wkind, dataVersion>>
            BY <2>3 DEF EnterChange, Patch, Clear, Leave
        <3>2. \A kind \in {"scan", "reset"} :
                 wkind[w] = kind
                    /\ wat[w] \in {"written", "clearing", "leavingCleared", "cleared", "bumping"}
                 => wat'[w] \in {"written", "clearing", "leavingCleared", "cleared", "bumping"}
            BY <1>0, <2>3 DEF EnterChange, Patch, Clear, Leave
        <3>3. ASSUME NEW u \in Writers, NEW kind \in {"scan", "reset"}, Unbumped(u, kind)
              PROVE  wkind'[u] = kind
                     /\ wat'[u] \in {"written", "clearing", "leavingCleared", "cleared", "bumping"}
            <4>1. CASE u = w
                BY <3>1, <3>2, <3>3, <4>1 DEF Unbumped
            <4>2. CASE u # w
                BY <1>1, <3>3, <4>2 DEF Unbumped
            <4> QED BY <4>1, <4>2
        <3>4. /\ Scanning => Scanning'
              /\ Resetting => Resetting'
            BY <3>3 DEF Scanning, Resetting, Unbumped
        <3> QED BY <1>0, <3>1, <3>4
    <2> QED BY <1>0, <2>1, <2>2, <2>3 DEF WriterStep
<1>5. Scanning \in BOOLEAN /\ Resetting \in BOOLEAN /\ Scanning' \in BOOLEAN /\ Resetting' \in BOOLEAN
    BY DEF Scanning, Resetting
<1>6. ASSUME NEW X \in Items,
             Known(X, dataVersion, publication.request, wanted, facts, Scanning, Resetting)
      PROVE  Known(X, dataVersion', publication'.request, wanted', facts', Scanning', Resetting')
    <2>1. /\ X.by \in Nat /\ X.version \in Nat
        BY ItemsFields
    <2> QED BY <1>0, <1>1, <1>2, <1>4, <1>5, <1>6, <2>1 DEF Known
<1> QED BY <1>3, <1>6 DEF KnownStays

\* Fields of a state that Fresh describes.
LEMMA FreshFields ==
    ASSUME Fresh
    PROVE  /\ LayoutTyped /\ Kinds /\ Tickets /\ ShownItems /\ KnownNow(itemsCache) /\ StarredNow(itemsCache)
           /\ itemsCache \in Items /\ layoutCache \in LayoutData
           /\ at \in [Requests -> Steps] /\ ticket \in [Requests -> Nat]
           /\ wanted \in [Requests -> Views] /\ version \in [Requests -> Nat]
           /\ base \in [Requests -> Items] /\ candidate \in [Requests -> Items]
           /\ dataVersion \in Nat /\ facts \in Facts
           /\ publication \in Gate /\ publication.request \in Nat /\ publication.inputs \in Nat
           /\ publication.writers \in Nat
           /\ \A r \in Requests : r \in Nat /\ r # 0
BY DataFacts DEF Fresh, LayoutTyped, LayoutTypeOK, ShownItems, Steps, Gate

\* One request's part of Tickets.
Ticket(r) ==
    /\ ticket[r] <= publication.inputs /\ version[r] <= dataVersion
    /\ KnownNow(base[r]) /\ KnownNow(candidate[r])
    /\ Working(r) => r <= publication.request
    /\ at[r] # "computed" => candidate[r].by = 0
    /\ at[r] = "computed" => candidate[r].by # 0 /\ candidate[r].view = wanted[r]
    /\ Working(r) /\ ticket[r] = publication.inputs =>
          publication.writers = 0 /\ StarredNow(base[r]) /\ StarredNow(candidate[r])

LEMMA TicketsOne == Tickets <=> \A r \in Requests : Ticket(r)
BY DEF Tickets, Ticket

LEMMA TicketsPrimed ==
    ASSUME \A r \in Requests : Ticket(r)'
    PROVE  Tickets'
BY Zenon DEF Tickets, Ticket

\* The other requests' parts stay, as long as the gate only counts up.
LEMMA OthersTickets ==
    ASSUME Fresh, Fresh => KnownStays /\ StarredStays, NEW q \in Requests,
           ticket'[q] = ticket[q], version'[q] = version[q], base'[q] = base[q],
           candidate'[q] = candidate[q], at'[q] = at[q], wanted'[q] = wanted[q],
           publication'.inputs = publication.inputs, publication'.writers = publication.writers,
           publication'.request \in Nat, publication.request <= publication'.request,
           dataVersion' = dataVersion
    PROVE  Ticket(q)'
<1>1. Ticket(q) /\ base[q] \in Items /\ candidate[q] \in Items /\ q \in Nat
    BY FreshFields, TicketsOne
<1>2. KnownNow(base[q])' /\ KnownNow(candidate[q])'
    <2>1. KnownNow(base[q]) /\ KnownNow(candidate[q])
        BY <1>1 DEF Ticket
    <2> QED BY <1>1, <2>1 DEF KnownStays, KnownNow
<1>3. /\ StarredNow(base[q]) => StarredNow(base[q])'
      /\ StarredNow(candidate[q]) => StarredNow(candidate[q])'
    BY <1>1 DEF StarredStays, StarredNow
<1>4. publication.request \in Nat
    BY FreshFields
<1> QED BY <1>1, <1>2, <1>3, <1>4 DEF Ticket, Working

\* A request that has ended holds no items.
LEMMA EndedTicket ==
    ASSUME Fresh, NEW r \in Requests, Ended(r), at'[r] \in {"answered", "refused"},
           UNCHANGED <<facts, dataVersion, publication, wanted>>
    PROVE  Ticket(r)'
<1>1. /\ ticket'[r] = 0 /\ version'[r] = 0 /\ base'[r] = NoItems /\ candidate'[r] = NoItems
      /\ publication.inputs \in Nat /\ publication.request \in Nat /\ dataVersion \in Nat
    BY FreshFields DEF Ended
<1>2. KnownNow(NoItems)'
    BY <1>1, NoItemsKnown DEF KnownNow
<1>3. NoItems' = NoItems /\ NoItems.by = 0
    BY DataFacts DEF NoItems, NoFacts
<1> QED BY <1>1, <1>2, <1>3 DEF Ticket, Working, KnownNow

LEMMA RequestTickets ==
    ASSUME Fresh, NEW r \in Requests, RequestStep(r)
    PROVE  Tickets'
<1> USE FreshFields
<1>1. KnownStays /\ StarredStays
    BY RequestFacts
<1>2. dataVersion' = dataVersion /\ facts' = facts
    BY DEF RequestStep, RegisterRequest, ProbeCaches, Refuse, Compute, InstallLayout
<1>3. /\ publication'.inputs = publication.inputs /\ publication'.writers = publication.writers
      /\ publication'.request \in Nat /\ publication.request <= publication'.request
    <2>1. CASE RegisterRequest(r)
        <3>1. r = publication.request + 1 /\ publication' = [publication EXCEPT !.request = r]
            BY <2>1 DEF RegisterRequest
        <3> QED BY <3>1 DEF Gate
    <2>2. CASE ~RegisterRequest(r)
        BY <2>2 DEF RequestStep, ProbeCaches, Refuse, Compute, InstallLayout
    <2> QED BY <2>1, <2>2
<1>4. ASSUME NEW q \in Requests, q # r PROVE Ticket(q)'
    <2>1. /\ ticket'[q] = ticket[q] /\ version'[q] = version[q] /\ base'[q] = base[q]
          /\ candidate'[q] = candidate[q] /\ at'[q] = at[q] /\ wanted'[q] = wanted[q]
        <3>1. CASE RegisterRequest(r)
            BY <1>4, <3>1 DEF RegisterRequest
        <3>2. CASE Ended(r) /\ UNCHANGED wanted /\ \E place \in Steps : at' = [at EXCEPT ![r] = place]
            BY <1>4, <3>2 DEF Ended
        <3>3. CASE ProbeCaches(r) /\ ~Reused(r)
            <4>1. /\ version' = [version EXCEPT ![r] = dataVersion]
                  /\ base' = [base EXCEPT ![r] = itemsCache]
                  /\ at' = [at EXCEPT ![r] = "computing"]
                  /\ UNCHANGED <<ticket, candidate, wanted>>
                BY <3>3, Zenon DEF ProbeCaches
            <4> QED BY <1>4, <4>1
        <3>4. CASE Compute(r)
            BY <1>4, <3>4 DEF Compute
        <3>5. \/ RegisterRequest(r) \/ Compute(r) \/ (ProbeCaches(r) /\ ~Reused(r))
              \/ (Ended(r) /\ UNCHANGED wanted /\ \E place \in Steps : at' = [at EXCEPT ![r] = place])
            <4>1. "refused" \in Steps /\ "answered" \in Steps
                BY DEF Steps
            <4>2. (ProbeCaches(r) /\ Reused(r)) \/ Refuse(r) \/ InstallLayout(r) =>
                    Ended(r) /\ UNCHANGED wanted
                    /\ \E place \in Steps : at' = [at EXCEPT ![r] = place]
                BY <4>1 DEF ProbeCaches, Refuse, InstallLayout
            <4> QED BY <4>2 DEF RequestStep
        <3> QED BY <3>1, <3>2, <3>3, <3>4, <3>5
    <2> QED BY <1>1, <1>2, <1>3, <2>1, OthersTickets
<1>5. Ticket(r)'
    <2>0. Ticket(r) /\ base[r] \in Items /\ candidate[r] \in Items
        BY TicketsOne
    <2>1. CASE RegisterRequest(r)
        <3>1. /\ r = publication.request + 1 /\ publication' = [publication EXCEPT !.request = r]
              /\ ticket'[r] = publication.inputs /\ at'[r] = "registered"
              /\ UNCHANGED <<version, base, candidate>>
            BY <2>1 DEF RegisterRequest
        <3>2. KnownNow(base[r])' /\ KnownNow(candidate[r])'
            BY <1>1, <2>0, <3>1 DEF Ticket, KnownStays, KnownNow
        <3>3. at[r] # "computed"
            BY <2>0, <3>1 DEF Ticket, Working
        <3> QED BY <1>2, <1>3, <2>0, <3>1, <3>2, <3>3 DEF Ticket, Working
    <2>2. CASE ProbeCaches(r) /\ ~Reused(r)
        <3>1. /\ version'[r] = dataVersion /\ base'[r] = itemsCache /\ at'[r] = "computing"
              /\ UNCHANGED <<ticket, candidate, publication>> /\ Valid(r) /\ at[r] = "registered"
            BY <2>2, Zenon DEF ProbeCaches
        <3>2. KnownNow(base[r])' /\ KnownNow(candidate[r])'
            BY <1>1, <2>0, <3>1 DEF Ticket, KnownStays, KnownNow
        <3>3. StarredNow(base[r])' /\ StarredNow(candidate[r])'
            <4>1. candidate[r].by = 0
                BY <2>0, <3>1 DEF Ticket
            <4> QED BY <1>1, <3>1, <4>1 DEF StarredStays, StarredNow, Starred
        <3> QED BY <1>2, <2>0, <3>1, <3>2, <3>3 DEF Ticket, Working, Valid
    <2>3. CASE (ProbeCaches(r) /\ Reused(r)) \/ Refuse(r) \/ InstallLayout(r)
        <3>1. /\ Ended(r) /\ at'[r] \in {"answered", "refused"}
              /\ UNCHANGED <<facts, dataVersion, publication, wanted>>
            BY <2>3 DEF ProbeCaches, Refuse, InstallLayout
        <3> QED BY <3>1, EndedTicket
    <2>4. CASE Compute(r)
        <3> DEFINE read == [by |-> r, view |-> wanted[r], version |-> version[r], reusable |-> TRUE,
                            chosen |-> facts.stars, shows |-> facts]
                   now  == Now(base[r])
        <3>1. /\ at[r] = "computing" /\ at'[r] = "computed" /\ base'[r] = NoItems
              /\ candidate'[r] = IF Fits(now, r, version[r]) THEN now ELSE read
              /\ UNCHANGED <<facts, dataVersion, publication, itemsCache, layoutCache, ticket,
                             wanted, version, writerVars>>
            BY <2>4 DEF Compute
        <3>2. UNCHANGED <<Scanning, Resetting, Unsure>>
            BY <3>1 DEF Scanning, Resetting, Unsure, Unbumped, Unpatched, writerVars
        <3>3. /\ KnownNow(now)
              /\ ticket[r] = publication.inputs => publication.writers = 0 /\ StarredNow(now)
            BY <2>0, <3>1 DEF Ticket, Working, Now
        <3>4. CASE Fits(now, r, version[r])
            <4>1. now.by # 0 /\ now.view = wanted[r] /\ candidate'[r] = now
                BY <3>1, <3>3, <3>4 DEF Fits, KnownNow, Known
            <4>2. now \in Items
                BY <2>0 DEF Now
            <4>3. KnownNow(candidate[r])' /\ (StarredNow(now) => StarredNow(candidate[r])')
                BY <1>1, <3>3, <4>1, <4>2 DEF KnownStays, StarredStays, KnownNow, StarredNow
            <4>4. KnownNow(base[r])' /\ StarredNow(base[r])'
                BY <1>2, <1>3, <3>1, NoItemsKnown DEF KnownNow, StarredNow
            <4> QED BY <1>2, <2>0, <3>1, <3>3, <4>1, <4>3, <4>4 DEF Ticket, Working
        <3>5. CASE ~Fits(now, r, version[r])
            <4>1. /\ candidate'[r] = read /\ r <= publication.request /\ version[r] <= dataVersion
                  /\ publication' = publication
                BY <2>0, <3>1, <3>5 DEF Ticket, Working
            <4>2. KnownNow(candidate[r])' /\ StarredNow(candidate[r])'
                BY <1>2, <3>1, <4>1 DEF KnownNow, StarredNow, Known, Starred
            <4>4. KnownNow(base[r])' /\ StarredNow(base[r])'
                BY <1>2, <1>3, <3>1, NoItemsKnown DEF KnownNow, StarredNow
            <4>5. candidate'[r].by # 0 /\ candidate'[r].view = wanted'[r]
                BY <3>1, <4>1
            <4> QED BY <1>2, <2>0, <3>1, <3>3, <4>1, <4>2, <4>4, <4>5 DEF Ticket, Working
        <3> HIDE DEF now, read
        <3> QED BY <3>4, <3>5
    <2> QED BY <2>1, <2>2, <2>3, <2>4 DEF RequestStep
<1> QED BY <1>4, <1>5, TicketsPrimed

LEMMA RequestShown ==
    ASSUME Fresh, NEW r \in Requests, RequestStep(r)
    PROVE  ShownItems'
<1> USE FreshFields
<1>1. KnownStays /\ StarredStays
    BY RequestFacts
<1>2. CASE ~InstallLayout(r)
    <2>1. UNCHANGED <<itemsCache, layoutCache, facts>>
        BY <1>2 DEF RequestStep, RegisterRequest, ProbeCaches, Refuse, Compute
    <2>2. KnownNow(itemsCache)' /\ StarredNow(itemsCache)'
        BY <1>1, <2>1 DEF KnownStays, StarredStays, KnownNow, StarredNow
    <2>3. RowsOfItems'
        BY <2>1 DEF ShownItems, RowsOfItems
    <2>4. ASSUME NEW q \in Requests, at'[q] = "answered", q = publication'.request, layoutCache.by # 0
          PROVE  layoutCache.view = wanted'[q]
        <3>1. CASE RegisterRequest(r)
            <4>1. publication'.request = r /\ at'[r] = "registered"
                BY <3>1 DEF RegisterRequest, Gate
            <4> QED BY <2>4, <4>1
        <3>2. CASE ~RegisterRequest(r)
            <4>1. UNCHANGED <<publication, wanted>>
                BY <1>2, <3>2 DEF RequestStep, ProbeCaches, Refuse, Compute
            <4>2. CASE at[q] = "answered"
                BY <2>4, <4>1, <4>2 DEF ShownItems, NewestIsShown
            <4>3. CASE at[q] # "answered"
                <5>1. ProbeCaches(r) /\ Reused(r) /\ q = r
                    BY <1>2, <2>4, <3>2, <4>3 DEF RequestStep, ProbeCaches, Refuse, Compute
                <5> QED BY <4>1, <5>1 DEF Reused
            <4> QED BY <4>2, <4>3
        <3> QED BY <3>1, <3>2
    <2> QED BY <2>1, <2>2, <2>3, <2>4 DEF ShownItems, NewestIsShown
<1>3. CASE InstallLayout(r)
    <2>1. /\ at[r] = "computed" /\ publication.request = r /\ publication.inputs = ticket[r]
          /\ itemsCache' = Now(candidate[r])
          /\ layoutCache' = [by |-> r, view |-> wanted[r], version |-> version[r],
                             items |-> candidate[r].by]
          /\ UNCHANGED <<facts, dataVersion, publication, wanted>>
        BY <1>3 DEF InstallLayout, Valid
    <2>2. /\ KnownNow(candidate[r]) /\ StarredNow(candidate[r]) /\ candidate[r] \in Items
          /\ candidate[r].by # 0 /\ candidate[r].view = wanted[r]
        BY <2>1, TicketsOne DEF Ticket, Working
    <2>3. KnownNow(itemsCache)' /\ StarredNow(itemsCache)'
        BY <1>1, <2>1, <2>2 DEF KnownStays, StarredStays, KnownNow, StarredNow, Now
    <2>4. itemsCache'.by = candidate[r].by /\ itemsCache'.view = wanted[r]
        <3>1. CASE candidate[r].by = itemsCache.by
            BY <2>1, <2>2, <3>1 DEF Now, KnownNow, Known
        <3>2. CASE candidate[r].by # itemsCache.by
            BY <2>1, <2>2, <3>2 DEF Now
        <3> QED BY <3>1, <3>2
    <2>5. RowsOfItems' /\ NewestIsShown'
        BY <2>1, <2>4 DEF RowsOfItems, NewestIsShown
    <2> QED BY <2>3, <2>5 DEF ShownItems
<1> QED BY <1>2, <1>3

\* Only a patch settles what stars are shown.
LEMMA StarredKept ==
    ASSUME Fresh, NEW w \in Writers, WriterStep(w), ~Patch(w)
    PROVE  StarredStays
<1> USE FreshFields
<1>1. ASSUME NEW kind \in WriteKinds, WriteFacts(w, kind) PROVE StarredStays
    <2>1. wat[w] = "idle" /\ wat'[w] = "written" /\ wkind'[w] = kind /\ (crossed => crossed')
        <3>1. crossed => crossed'
            BY <1>1, Zenon DEF WriteFacts
        <3> QED BY <1>1, <3>1 DEF WriteFacts, LayoutTyped, LayoutTypeOK
    <2>2. kind = "star" => Unsure'
        BY <2>1 DEF Unsure, Unpatched
    <2>3. kind # "star" => facts'.stars = facts.stars
        <3>1. kind # "star" => \/ facts' = [facts EXCEPT !.scan = @ + 1]
                               \/ facts' = [facts EXCEPT !.thumbs = @ + 1]
            BY <1>1 DEF WriteFacts, WriteKinds
        <3> QED BY <3>1 DEF Facts
    <2>4. \A u \in Writers : u # w => wat'[u] = wat[u] /\ wkind'[u] = wkind[u]
        BY <1>1 DEF WriteFacts, LayoutTyped, LayoutTypeOK
    <2>5. \A u \in Writers : Unpatched(u) =>
                wkind'[u] = "star" /\ wat'[u] \in {"written", "patching"}
        BY <2>1, <2>4 DEF Unpatched
    <2>6. Unsure => Unsure'
        BY <2>1, <2>5 DEF Unsure, Unpatched
    <2> QED BY <2>2, <2>3, <2>6 DEF StarredStays, Starred
<1>2. CASE EnterChange(w) \/ Bump(w) \/ Clear(w) \/ Leave(w)
    <2>1. /\ UNCHANGED <<facts, wkind, crossed>>
          /\ \A u \in Writers : u # w => wat'[u] = wat[u]
          /\ Unpatched(w) => wat'[w] = "patching"
        BY <1>2 DEF EnterChange, Bump, Clear, Leave, Unpatched, LayoutTyped, LayoutTypeOK
    <2>2. \A u \in Writers : Unpatched(u) =>
                wkind'[u] = "star" /\ wat'[u] \in {"written", "patching"}
        BY <2>1 DEF Unpatched
    <2>3. Unsure => Unsure'
        BY <2>1, <2>2 DEF Unsure, Unpatched
    <2> QED BY <2>1, <2>3 DEF StarredStays, Starred
<1> QED BY <1>1, <1>2 DEF WriterStep

LEMMA WriterFresh ==
    ASSUME Fresh, NEW w \in Writers, WriterStep(w)
    PROVE  Fresh'
<1> USE FreshFields
<1>1. LayoutTyped' /\ Kinds' /\ KnownStays
    BY WriterTyped, WriterFacts
<1>2. /\ UNCHANGED requestVars /\ dataVersion' \in Nat /\ dataVersion <= dataVersion'
      /\ publication'.request = publication.request
    <2>1. UNCHANGED requestVars
        BY DEF WriterStep, WriteFacts, EnterChange, Patch, Bump, Clear, Leave
    <2>2. dataVersion' = dataVersion \/ dataVersion' = dataVersion + 1
        BY DEF WriterStep, WriteFacts, EnterChange, Patch, Bump, Clear, Leave
    <2>3. publication'.request = publication.request
        BY DEF WriterStep, WriteFacts, EnterChange, Patch, Bump, Clear, Leave, Gate
    <2> QED BY <2>1, <2>2, <2>3
<1>3. \/ UNCHANGED publication /\ (StarredStays \/ publication.writers # 0)
      \/ publication'.inputs = publication.inputs + 1
    <2>1. CASE EnterChange(w) \/ Leave(w)
        BY <2>1 DEF EnterChange, Leave, Gate
    <2>2. CASE Patch(w) \/ Bump(w) \/ Clear(w)
        <3>1. UNCHANGED publication /\ w \in Inside
            BY <2>2 DEF Patch, Bump, Clear, Inside, InChange
        <3>2. publication.writers # 0
            BY <3>1, FS_EmptySet DEF LayoutTyped, Counted
        <3> QED BY <3>1, <3>2
    <2>3. ASSUME NEW kind \in WriteKinds, WriteFacts(w, kind)
          PROVE  UNCHANGED publication /\ StarredStays
        <3>1. UNCHANGED publication /\ wat[w] = "idle"
            BY <2>3 DEF WriteFacts
        <3>2. ~Patch(w)
            BY <3>1 DEF Patch
        <3> QED BY <3>1, <3>2, StarredKept
    <2> QED BY <2>1, <2>2, <2>3 DEF WriterStep
<1>4. ASSUME NEW q \in Requests PROVE Ticket(q)'
    <2>1. /\ Ticket(q) /\ base[q] \in Items /\ candidate[q] \in Items
          /\ ticket'[q] = ticket[q] /\ version'[q] = version[q] /\ base'[q] = base[q]
          /\ candidate'[q] = candidate[q] /\ at'[q] = at[q] /\ wanted'[q] = wanted[q]
        BY <1>2, TicketsOne DEF requestVars
    <2>2. KnownNow(base[q])' /\ KnownNow(candidate[q])'
        BY <1>1, <2>1 DEF Ticket, KnownStays, KnownNow
    <2>3. ASSUME Working(q), ticket'[q] = publication'.inputs
          PROVE  publication'.writers = 0 /\ StarredNow(base[q])' /\ StarredNow(candidate[q])'
        <3>1. UNCHANGED publication /\ (StarredStays \/ publication.writers # 0)
            BY <1>3, <2>1, <2>3 DEF Ticket
        <3>2. publication.writers = 0 /\ StarredNow(base[q]) /\ StarredNow(candidate[q])
            BY <2>1, <2>3, <3>1 DEF Ticket
        <3> QED BY <2>1, <3>1, <3>2 DEF StarredStays, StarredNow
    <2>4. ticket'[q] <= publication'.inputs /\ version'[q] <= dataVersion'
        BY <1>2, <1>3, <2>1 DEF Ticket
    <2> QED BY <1>2, <2>1, <2>2, <2>3, <2>4 DEF Ticket, Working
<1>5. ShownItems'
    <2>1. CASE Clear(w)
        <3>1. itemsCache' = NoItems /\ layoutCache' = NoLayout
            BY <2>1 DEF Clear
        <3>2. KnownNow(itemsCache)' /\ StarredNow(itemsCache)'
            BY <1>2, <3>1, NoItemsKnown DEF KnownNow, StarredNow
        <3> QED BY <3>1, <3>2, DataFacts DEF ShownItems, RowsOfItems, NewestIsShown
    <2>2. CASE Patch(w)
        <3>1. /\ UNCHANGED <<layoutCache, publication, facts, dataVersion, wkind, wrote, crossed>>
              /\ wat[w] = "patching" /\ wat'[w] = "leaving"
              /\ itemsCache.by = 0 => itemsCache' = itemsCache
              /\ itemsCache.by # 0 =>
                    itemsCache' = [itemsCache EXCEPT !.shows.stars = wrote[w],
                                       !.reusable = @ /\ itemsCache.view # "favorites"]
            BY <2>2 DEF Patch, LayoutTyped, LayoutTypeOK
        <3>2. /\ itemsCache'.by = itemsCache.by /\ itemsCache'.view = itemsCache.view
              /\ itemsCache'.version = itemsCache.version
              /\ itemsCache'.shows.scan = itemsCache.shows.scan
              /\ itemsCache'.shows.thumbs = itemsCache.shows.thumbs
              /\ itemsCache.by # 0 =>
                    /\ itemsCache'.shows.stars = wrote[w]
                    /\ itemsCache.view = "favorites" => ~itemsCache'.reusable
              /\ itemsCache.by = 0 => itemsCache'.reusable = itemsCache.reusable
            <4>1. CASE itemsCache.by = 0
                BY <3>1, <4>1
            <4>2. CASE itemsCache.by # 0
                <5>1. itemsCache' = [itemsCache EXCEPT !.shows.stars = wrote[w],
                                         !.reusable = @ /\ itemsCache.view # "favorites"]
                    BY <3>1, <4>2
                <5>2. itemsCache.shows \in Facts
                    BY DEF Items
                <5>3. [itemsCache.shows EXCEPT !.stars = wrote[w]] =
                        [scan |-> itemsCache.shows.scan, stars |-> wrote[w],
                         thumbs |-> itemsCache.shows.thumbs]
                    BY <5>2 DEF Facts
                <5>4. itemsCache' =
                        [by |-> itemsCache.by, view |-> itemsCache.view,
                         version |-> itemsCache.version, chosen |-> itemsCache.chosen,
                         reusable |-> itemsCache.reusable /\ itemsCache.view # "favorites",
                         shows |-> [itemsCache.shows EXCEPT !.stars = wrote[w]]]
                    BY <5>1 DEF Items
                <5> QED BY <4>2, <5>3, <5>4
            <4> QED BY <4>1, <4>2
        <3>3. KnownNow(itemsCache)'
            <4>1. Known(itemsCache, dataVersion', publication'.request, wanted', facts', Scanning', Resetting')
                BY <1>1 DEF KnownStays, KnownNow
            <4> QED BY <3>2, <4>1 DEF Known, KnownNow
        <3>4. ~crossed => wrote[w] = facts.stars
            BY <3>1 DEF Kinds, Unpatched
        <3>5. StarredNow(itemsCache)'
            BY <3>1, <3>2, <3>4 DEF StarredNow, Starred, Unsure
        <3>6. RowsOfItems' /\ NewestIsShown'
            BY <1>2, <3>1, <3>2 DEF ShownItems, RowsOfItems, NewestIsShown, requestVars
        <3> QED BY <3>3, <3>5, <3>6 DEF ShownItems
    <2>3. CASE ~Clear(w) /\ ~Patch(w)
        <3>1. UNCHANGED <<itemsCache, layoutCache>>
            BY <2>3 DEF WriterStep, WriteFacts, EnterChange, Bump, Leave
        <3>2. KnownNow(itemsCache)'
            BY <1>1, <3>1 DEF KnownStays, KnownNow
        <3>3. StarredStays
            BY <2>3, StarredKept
        <3>4. StarredNow(itemsCache)'
            BY <3>1, <3>3 DEF StarredStays, StarredNow
        <3>5. RowsOfItems' /\ NewestIsShown'
            BY <1>2, <3>1 DEF ShownItems, RowsOfItems, NewestIsShown, requestVars
        <3> QED BY <3>2, <3>4, <3>5 DEF ShownItems
    <2> QED BY <2>1, <2>2, <2>3
<1> QED BY <1>1, <1>4, <1>5, TicketsPrimed DEF Fresh

LEMMA InitFresh == LayoutInit => Fresh
<1> SUFFICES ASSUME LayoutInit PROVE Fresh
    OBVIOUS
<1>1. LayoutTyped
    BY LayoutInitTyped
<1>2. Kinds
    BY DEF LayoutInit, Kinds, Unpatched
<1>3. KnownNow(NoItems) /\ StarredNow(NoItems)
    <2>1. dataVersion = 0 /\ publication.request = 0
        BY DEF LayoutInit
    <2> QED BY <2>1, NoItemsKnown DEF KnownNow, StarredNow
<1>4. Tickets
    BY <1>3, DataFacts DEF LayoutInit, Tickets, Working
<1>5. ShownItems
    BY <1>3, DataFacts DEF LayoutInit, ShownItems, RowsOfItems, NewestIsShown
<1> QED BY <1>1, <1>2, <1>4, <1>5 DEF Fresh

LEMMA StepFresh ==
    ASSUME Fresh, [LayoutNext]_lvars
    PROVE  Fresh'
<1>1. CASE UNCHANGED lvars
    <2>1. LayoutTyped'
        BY <1>1, LayoutStepTyped DEF Fresh
    <2>2. Kinds'
        BY <1>1 DEF Fresh, Kinds, Unpatched, lvars, requestVars, writerVars
    <2>3. Scanning' = Scanning /\ Resetting' = Resetting /\ Unsure' = Unsure
        BY <1>1 DEF Scanning, Resetting, Unsure, Unbumped, Unpatched, lvars, writerVars
    <2>4. Tickets'
        BY <1>1, <2>3 DEF Fresh, Tickets, Working, KnownNow, StarredNow, lvars, requestVars,
           writerVars
    <2>5. ShownItems'
        BY <1>1, <2>3 DEF Fresh, ShownItems, KnownNow, StarredNow, RowsOfItems, NewestIsShown,
           lvars, requestVars, writerVars
    <2> QED BY <2>1, <2>2, <2>4, <2>5 DEF Fresh
<1>2. ASSUME NEW r \in Requests, RequestStep(r) PROVE Fresh'
    BY <1>2, RequestTyped, RequestFacts, RequestTickets, RequestShown DEF Fresh
<1> QED BY <1>1, <1>2, WriterFresh DEF LayoutNext

LEMMA FreshIsCurrent == Fresh => LayoutIsCurrent
<1> SUFFICES ASSUME Fresh PROVE LayoutIsCurrent
    OBVIOUS
<1>1. Quiet => ~Scanning /\ ~Resetting /\ (Unsure => crossed)
    BY DEF Quiet, Scanning, Resetting, Unsure, Unbumped, Unpatched
<1>2. Known(itemsCache, dataVersion, publication.request, wanted, facts, Scanning, Resetting)
      /\ Starred(itemsCache, facts, Unsure)
    BY FreshFields DEF KnownNow, StarredNow
<1>3. ItemsFresh /\ StarsFresh
    BY <1>1, <1>2 DEF ItemsFresh, StarsFresh, Known, Starred
<1> QED BY <1>3 DEF LayoutIsCurrent, Fresh, ShownItems

\* For all writers and bounds: when no writer is at work, the items that the
\* next request may use show the database, and the rows shown belong to those
\* items and to the newest request that was answered.
THEOREM LayoutStaysCurrent == LayoutSpec => []LayoutIsCurrent
<1>1. Fresh /\ [LayoutNext]_lvars => Fresh'
    BY StepFresh
<1> QED BY InitFresh, <1>1, FreshIsCurrent, PTL DEF LayoutSpec

(***************************************************************************)
(* ExoticTasks.                                                            *)
(***************************************************************************)

----------------------------------------------------------------------------
(* Types, and how a row changes.                                           *)

LEMMA EditionFacts ==
    /\ 1 \in Editions /\ Editions \subseteq Nat /\ Editions \subseteq Shown /\ 0 \in Shown
    /\ NoTask \in TaskRow /\ NoTask.status = 0 /\ NoTask.attempts = 0
    /\ Free \in TaskInHand /\ Free.at = "none" /\ MaxAttempts = 3
BY ExoticAssumption DEF Editions, Shown, NoTask, TaskRow, Free, TaskInHand, MaxAttempts

\* A row that may be claimed, or is, has an attempt left.
AttemptsLeft == task.status \in {0, 1, 3} => task.attempts < MaxAttempts

ExoticTyped == ExoticTypeOK /\ AttemptsLeft

\* Only these change a row; a lease may also lapse or be renewed.
RowChange ==
    \/ task' = task /\ lapsed' \in {lapsed, TRUE, FALSE}
    \/ \E a \in Apps : phase[a] = "running" /\ ClaimRow(a)
    \/ task.status = 1 /\ Return
    \/ \E a \in Apps, s \in Slots : CanFinish(a, hand[a][s]) /\ FinishRow(a, hand[a][s])
    \/ \E a \in Apps, retryable \in BOOLEAN : Mine(a) /\ FailRow(a, retryable)
    \/ ResetRow

LEMMA RowChanges ==
    ASSUME [ExoticNext]_evars
    PROVE  RowChange
<1>1. ASSUME NEW a \in Apps, RunStep(a) \/ StopCommand(a) \/ CrashApp(a) PROVE RowChange
    <2>1. CASE Sweep(a) \/ RecoverAtStart(a)
        BY <2>1 DEF Sweep, RecoverAtStart, RecoverRow, row, RowChange
    <2>2. CASE LaunchRun(a) \/ ClaimsEnd(a) \/ StopDispatch(a) \/ StopCommand(a) \/ CrashApp(a)
        BY <2>2 DEF LaunchRun, ClaimsEnd, StopDispatch, StopCommand, CrashApp, row, RowChange
    <2>3. CASE ProbeWorker(a)
        BY <2>3 DEF ProbeWorker, ResetIf, row, RowChange
    <2>4. CASE ReleaseAll(a)
        BY <2>4 DEF ReleaseAll, ReleaseRow, Mine, row, RowChange
    <2>5. CASE Renew(a)
        BY <2>5 DEF Renew, RowChange
    <2> QED BY <1>1, <2>1, <2>2, <2>3, <2>4, <2>5 DEF RunStep
<1>2. ASSUME NEW a \in Apps, NEW s \in Slots, TaskStep(a, s) PROVE RowChange
    <2>1. CASE ClaimTask(a, s)
        BY <2>1 DEF ClaimTask, RowChange
    <2>2. CASE ReadSource(a, s) \/ ReadFails(a, s)
        <3>1. UNCHANGED row \/ FailRow(a, TRUE)
            BY <2>2 DEF ReadSource, ReadFails
        <3> QED BY <3>1 DEF FailRow, row, RowChange
    <2>3. CASE Work(a, s) \/ WorkEnds(a, s) \/ Precheck(a, s) \/ PublishFails(a, s)
        BY <2>3 DEF Work, WorkEnds, Precheck, PublishFails, row, RowChange
    <2>4. CASE PublishCover(a, s)
        BY <2>4 DEF PublishCover, HandAt, row, RowChange
    <2>5. CASE FailTask(a, s)
        <3>1. UNCHANGED row \/ \E retryable \in BOOLEAN : FailRow(a, retryable)
            BY <2>5 DEF FailTask
        <3> QED BY <3>1 DEF FailRow, row, RowChange
    <2> QED BY <1>2, <2>1, <2>2, <2>3, <2>4, <2>5 DEF TaskStep
<1>3. CASE ExoticEnvironment
    <2>1. CASE Lapse
        BY <2>1 DEF Lapse, RowChange
    <2>2. CASE RetryCommand \/ ScanSource \/ ClearCovers
        BY <2>2 DEF RetryCommand, ScanSource, ClearCovers, ResetIf, row, RowChange
    <2>3. CASE EditSource \/ TouchSource \/ DeleteOrRestore \/ WipeFiles \/ EvictFile \/ EvictReference
               \/ MissingFound
        BY <2>3 DEF EditSource, TouchSource, DeleteOrRestore, WipeFiles, EvictFile, EvictReference, MissingFound,
                    row, RowChange
    <2> QED BY <1>3, <2>1, <2>2, <2>3 DEF ExoticEnvironment
<1>4. CASE UNCHANGED evars
    BY <1>4 DEF evars, row, RowChange
<1> QED BY <1>1, <1>2, <1>3, <1>4 DEF ExoticNext

\* In records, by field.
LEMMA RowFields ==
    /\ \A r \in TaskRow : /\ r.status \in Nat /\ r.owner \in Nat /\ r.out \in Shown
                          /\ r.attempts \in Nat /\ r.attempts <= MaxAttempts
    /\ \A r \in TaskRow, n \in {0, 1, 2, 3, 4}, o \in Nat :
           [r EXCEPT !.status = n, !.owner = o] \in TaskRow
    /\ \A r \in TaskRow, n \in {0, 1, 2, 3, 4}, o \in Nat, k \in Shown :
           [r EXCEPT !.status = n, !.owner = o, !.out = k] \in TaskRow
    /\ \A r \in TaskRow, n \in {0, 1, 2, 3, 4}, i \in Nat :
           i <= MaxAttempts => [r EXCEPT !.attempts = i, !.owner = 0, !.status = n] \in TaskRow
<1>1. \A n \in {0, 1, 2, 3, 4} : n \in 0 .. 4
    OBVIOUS
<1>2. \A i \in Nat : i <= MaxAttempts => i \in 0 .. MaxAttempts
    BY EditionFacts
<1>3. \A r \in TaskRow : /\ r.status \in Nat /\ r.owner \in Nat /\ r.out \in Shown
                         /\ r.attempts \in Nat /\ r.attempts <= MaxAttempts
    BY EditionFacts DEF TaskRow
<1>4. \A r \in TaskRow, n \in 0 .. 4, o \in Nat :
          [r EXCEPT !.status = n, !.owner = o] \in TaskRow
    BY DEF TaskRow
<1>5. \A r \in TaskRow, n \in 0 .. 4, o \in Nat, k \in Shown :
          [r EXCEPT !.status = n, !.owner = o, !.out = k] \in TaskRow
    BY DEF TaskRow
<1>6. \A r \in TaskRow, n \in 0 .. 4, i \in 0 .. MaxAttempts :
          [r EXCEPT !.attempts = i, !.owner = 0, !.status = n] \in TaskRow
    BY DEF TaskRow
<1> QED BY <1>1, <1>2, <1>3, <1>4, <1>5, <1>6

LEMMA RowTyped ==
    ASSUME ExoticTyped, RowChange
    PROVE  task' \in TaskRow /\ AttemptsLeft'
<1> USE EditionFacts
<1>0. /\ task \in TaskRow /\ turn \in [Apps -> Nat]
      /\ hand \in [Apps -> [Slots -> TaskInHand]] /\ AttemptsLeft
    BY DEF ExoticTyped, ExoticTypeOK
<1>1. CASE task' = task
    BY <1>0, <1>1 DEF AttemptsLeft
<1>2. ASSUME NEW a \in Apps, ClaimRow(a) PROVE task' \in TaskRow /\ AttemptsLeft'
    <2>1. /\ task' = [task EXCEPT !.status = 1, !.owner = turn[a]]
          /\ task.status \in {0, 3} /\ turn[a] \in Nat
        BY <1>0, <1>2 DEF ClaimRow
    <2>2. task' \in TaskRow
        BY <1>0, <2>1, RowFields
    <2>3. task'.attempts = task.attempts
        BY <1>0, <2>1 DEF TaskRow
    <2> QED BY <1>0, <2>1, <2>2, <2>3 DEF AttemptsLeft
<1>3. CASE task.status = 1 /\ Return
    <2>1. task' = [task EXCEPT !.status = 0, !.owner = 0]
        BY <1>3 DEF Return
    <2>2. task' \in TaskRow
        BY <1>0, <2>1, RowFields
    <2>3. task'.attempts = task.attempts
        BY <1>0, <2>1 DEF TaskRow
    <2> QED BY <1>0, <1>3, <2>2, <2>3 DEF AttemptsLeft
<1>4. ASSUME NEW a \in Apps, NEW s \in Slots, FinishRow(a, hand[a][s])
      PROVE  task' \in TaskRow /\ AttemptsLeft'
    <2>1. hand[a][s].key \in Shown
        BY <1>0 DEF TaskInHand
    <2>2. task' = [task EXCEPT !.status = 2, !.owner = 0, !.out = hand[a][s].key]
        BY <1>4 DEF FinishRow
    <2>3. task' \in TaskRow
        BY <1>0, <2>1, <2>2, RowFields
    <2>4. task'.status = 2
        BY <1>0, <2>2 DEF TaskRow
    <2> QED BY <2>3, <2>4 DEF AttemptsLeft
<1>5. ASSUME NEW a \in Apps, NEW retryable \in BOOLEAN, Mine(a), FailRow(a, retryable)
      PROVE  task' \in TaskRow /\ AttemptsLeft'
    <2>1. task.attempts < MaxAttempts /\ task.attempts \in Nat
        BY <1>5, <1>0, RowFields DEF Mine, AttemptsLeft
    <2>2. task.attempts + 1 \in Nat /\ task.attempts + 1 <= MaxAttempts
        BY <2>1
    <2>3. CASE retryable /\ task.attempts + 1 < MaxAttempts
        <3>1. task' = [task EXCEPT !.attempts = @ + 1, !.owner = 0, !.status = 3]
            BY <1>5, <2>3 DEF FailRow
        <3>2. task' \in TaskRow
            BY <1>0, <2>2, <3>1, RowFields
        <3>3. task'.attempts = task.attempts + 1
            BY <1>0, <3>1 DEF TaskRow
        <3> QED BY <2>3, <3>2, <3>3 DEF AttemptsLeft
    <2>4. CASE ~(retryable /\ task.attempts + 1 < MaxAttempts)
        <3>1. task' = [task EXCEPT !.attempts = @ + 1, !.owner = 0, !.status = 4]
            BY <1>5, <2>4 DEF FailRow
        <3>2. task' \in TaskRow
            BY <1>0, <2>2, <3>1, RowFields
        <3>3. task'.status = 4
            BY <1>0, <3>1 DEF TaskRow
        <3> QED BY <3>2, <3>3 DEF AttemptsLeft
    <2> QED BY <2>3, <2>4
<1>6. CASE ResetRow
    BY <1>6 DEF ResetRow, AttemptsLeft
<1>7. \/ task' = task \/ (\E a \in Apps : ClaimRow(a)) \/ (task.status = 1 /\ Return)
      \/ (\E a \in Apps, s \in Slots : FinishRow(a, hand[a][s]))
      \/ (\E a \in Apps, retryable \in BOOLEAN : Mine(a) /\ FailRow(a, retryable))
      \/ ResetRow
    BY DEF RowChange
<1> QED BY <1>1, <1>2, <1>3, <1>4, <1>5, <1>6, <1>7

\* The tasks in hand change one at a time, or are lost together.
HandChange ==
    \/ hand' = hand
    \/ \E a \in Apps : hand' = [hand EXCEPT ![a] = [s \in Slots |-> Free]]
    \/ \E a \in Apps, s \in Slots, t \in TaskInHand : Put(a, s, t)

LEMMA HandChanges ==
    ASSUME ExoticTypeOK, [ExoticNext]_evars
    PROVE  HandChange
<1> USE EditionFacts
<1>0. /\ hand \in [Apps -> [Slots -> TaskInHand]] /\ disk \in Shown /\ scanned \in Shown
      /\ revision \in Nat
    BY DEF ExoticTypeOK
<1>1. ASSUME NEW a \in Apps, RunStep(a) \/ StopCommand(a) PROVE HandChange
    BY <1>1 DEF RunStep, Sweep, LaunchRun, RecoverAtStart, ProbeWorker, ClaimsEnd, StopDispatch,
                ReleaseAll, Renew, StopCommand, runVars, HandChange
<1>2. ASSUME NEW a \in Apps, CrashApp(a) PROVE HandChange
    BY <1>2 DEF CrashApp, HandChange
<1>3. ASSUME NEW a \in Apps, NEW s \in Slots, TaskStep(a, s) PROVE HandChange
    <2>0. hand[a][s] \in TaskInHand
        BY <1>0
    <2>1. \A p \in {"working", "ok", "sink", "retry", "bad"} : [hand[a][s] EXCEPT !.at = p] \in TaskInHand
        BY <2>0 DEF TaskInHand
    <2>2. CASE ClaimTask(a, s)
        <3>1. [Free EXCEPT !.at = "claimed"] \in TaskInHand
            BY DEF TaskInHand
        <3> QED BY <2>2, <3>1 DEF ClaimTask, HandChange
    <2>3. CASE ReadSource(a, s)
        <3>1. [at |-> "ready", rev |-> revision, key |-> scanned, made |-> 0] \in TaskInHand
            BY <1>0 DEF TaskInHand
        <3> QED BY <2>3, <3>1 DEF ReadSource, Drop, HandChange
    <2>4. CASE Work(a, s)
        <3>1. [hand[a][s] EXCEPT !.at = "working", !.made = disk] \in TaskInHand
            BY <1>0, <2>0 DEF TaskInHand
        <3> QED BY <2>4, <3>1 DEF Work, Drop, HandChange
    <2>5. CASE WorkEnds(a, s)
        BY <2>5, <2>1 DEF WorkEnds, Move, Drop, HandChange
    <2>6. CASE Precheck(a, s) \/ PublishFails(a, s)
        BY <2>6, <2>1 DEF Precheck, PublishFails, Move, Drop, HandChange
    <2>7. CASE PublishCover(a, s) \/ FailTask(a, s) \/ ReadFails(a, s)
        BY <2>7 DEF PublishCover, FailTask, ReadFails, Drop, HandChange
    <2> QED BY <1>3, <2>2, <2>3, <2>4, <2>5, <2>6, <2>7 DEF TaskStep
<1>4. CASE ExoticEnvironment \/ UNCHANGED evars
    <2>1. hand' = hand
        BY <1>4 DEF ExoticEnvironment, Lapse, RetryCommand, EditSource, ScanSource, TouchSource, DeleteOrRestore,
                    ClearCovers, WipeFiles, EvictFile, EvictReference, MissingFound, runVars, evars
    <2> QED BY <2>1 DEF HandChange
<1> QED BY <1>1, <1>2, <1>3, <1>4 DEF ExoticNext

\* So do the files of the cache.
CacheChange ==
    \/ cached' = cached
    \/ cached' = [v \in Editions |-> 0]
    \/ \E v \in Editions : cached' = [cached EXCEPT ![v] = 0]
    \/ \E a \in Apps, s \in Slots :
           /\ hand[a][s].at = "sink" /\ hand[a][s].key = scanned
           /\ cached' = [cached EXCEPT ![hand[a][s].key] = hand[a][s].made]

LEMMA CacheChanges ==
    ASSUME [ExoticNext]_evars
    PROVE  CacheChange
<1>1. ASSUME NEW a \in Apps, RunStep(a) \/ StopCommand(a) \/ CrashApp(a) PROVE CacheChange
    <2>1. cached' = cached
        BY <1>1 DEF RunStep, Sweep, LaunchRun, RecoverAtStart, ProbeWorker, ClaimsEnd, StopDispatch,
                    ReleaseAll, Renew, StopCommand, CrashApp, cacheVars
    <2> QED BY <2>1 DEF CacheChange
<1>2. ASSUME NEW a \in Apps, NEW s \in Slots, TaskStep(a, s) PROVE CacheChange
    <2>1. CASE PublishCover(a, s) \/ PublishFails(a, s)
        BY <2>1 DEF PublishCover, PublishFails, HandAt, CanFinish, SourceIsCurrent, CacheChange
    <2>2. CASE ClaimTask(a, s) \/ ReadSource(a, s) \/ ReadFails(a, s) \/ Work(a, s) \/ WorkEnds(a, s)
               \/ Precheck(a, s) \/ FailTask(a, s)
        BY <2>2 DEF ClaimTask, ReadSource, ReadFails, Work, WorkEnds, Precheck, FailTask, cacheVars, CacheChange
    <2> QED BY <1>2, <2>1, <2>2 DEF TaskStep
<1>3. CASE ExoticEnvironment \/ UNCHANGED evars
    BY <1>3 DEF ExoticEnvironment, Lapse, RetryCommand, EditSource, ScanSource, TouchSource, DeleteOrRestore,
                ClearCovers, WipeFiles, EvictFile, EvictReference, MissingFound, cacheVars, evars,
                CacheChange
<1> QED BY <1>1, <1>2, <1>3 DEF ExoticNext

LEMMA ExoticInitTyped == ExoticInit => ExoticTyped
<1> SUFFICES ASSUME ExoticInit PROVE ExoticTyped
    OBVIOUS
<1> USE EditionFacts
<1>1. /\ disk = 1 /\ scanned = 1 /\ revision = 1 /\ deleted = FALSE /\ cover = 0
      /\ cached = [v \in Editions |-> 0] /\ wiping = FALSE /\ evicting = 0
      /\ task = NoTask /\ lapsed = FALSE /\ unkept = FALSE /\ resets = 0 /\ runs = 0 /\ troubles = 0
    BY DEF ExoticInit, StartWith
<1>2. /\ phase \in [Apps -> Phases] /\ turn \in [Apps -> Nat]
      /\ halt \in [Apps -> {"no", "dispatch", "cancelled"}]
      /\ hand \in [Apps -> [Slots -> TaskInHand]]
    BY DEF ExoticInit, StartWith, RunsStart, Phases
<1>3. AttemptsLeft
    BY <1>1 DEF AttemptsLeft
<1>4. ExoticTypeOK
    BY <1>1, <1>2 DEF ExoticTypeOK
<1> QED BY <1>3, <1>4 DEF ExoticTyped

LEMMA ExoticStepTyped ==
    ASSUME ExoticTyped, [ExoticNext]_evars
    PROVE  ExoticTyped'
<1> USE EditionFacts
<1>0. ExoticTypeOK /\ RowChange /\ HandChange /\ CacheChange
    BY RowChanges, HandChanges, CacheChanges DEF ExoticTyped
<1>1. task' \in TaskRow /\ AttemptsLeft'
    BY <1>0, RowTyped
<1>2. hand' \in [Apps -> [Slots -> TaskInHand]]
    <2>1. hand \in [Apps -> [Slots -> TaskInHand]]
        BY <1>0 DEF ExoticTypeOK
    <2>2. ASSUME NEW a \in Apps, NEW s \in Slots, NEW t \in TaskInHand, Put(a, s, t)
          PROVE  hand' \in [Apps -> [Slots -> TaskInHand]]
        BY <2>1, <2>2 DEF Put
    <2> QED BY <1>0, <2>1, <2>2 DEF HandChange
<1>3. cached' \in [Editions -> Shown]
    <2>1. cached \in [Editions -> Shown] /\ \A a \in Apps, s \in Slots : hand[a][s].made \in Shown
        BY <1>0 DEF ExoticTypeOK, TaskInHand
    <2> QED BY <1>0, <2>1 DEF CacheChange
<1>4. /\ disk' \in Editions /\ scanned' \in Editions /\ revision' \in Nat
      /\ cover' \in Shown /\ evicting' \in Shown
    <2>1. /\ disk \in Editions /\ scanned \in Editions /\ revision \in Nat
          /\ disk < MaxEditions => disk + 1 \in Editions
          /\ cover \in Shown /\ evicting \in Shown /\ \A a \in Apps, s \in Slots : hand[a][s].key \in Shown
        BY <1>0, ExoticAssumption DEF ExoticTypeOK, Editions, TaskInHand
    <2>2. ASSUME NEW a \in Apps, RunStep(a) \/ StopCommand(a) \/ CrashApp(a)
          PROVE  UNCHANGED <<item, cacheVars>>
        BY <2>2 DEF RunStep, Sweep, LaunchRun, RecoverAtStart, ProbeWorker, ClaimsEnd, StopDispatch,
                    ReleaseAll, Renew, StopCommand, CrashApp
    <2>3. ASSUME NEW a \in Apps, NEW s \in Slots, TaskStep(a, s)
          PROVE  UNCHANGED <<item, evicting>> /\ cover' \in {cover, hand[a][s].key}
        BY <2>3 DEF TaskStep, ClaimTask, ReadSource, ReadFails, Work, WorkEnds, Precheck, PublishCover,
                    PublishFails, FailTask, cacheVars
    <2>4. CASE Lapse \/ RetryCommand \/ WipeFiles \/ UNCHANGED evars
        <3>1. UNCHANGED <<item, cover, evicting>>
            BY <2>4 DEF Lapse, RetryCommand, WipeFiles, cacheVars, evars
        <3> QED BY <2>1, <3>1 DEF item
    <2>5. CASE EditSource \/ ScanSource \/ TouchSource \/ DeleteOrRestore
        BY <2>1, <2>5 DEF EditSource, ScanSource, TouchSource, DeleteOrRestore, cacheVars
    <2>6. CASE ClearCovers \/ EvictFile \/ EvictReference \/ MissingFound
        BY <2>1, <2>6 DEF ClearCovers, EvictFile, EvictReference, MissingFound, item
    <2>7. ASSUME UNCHANGED <<item, cover, evicting>>
          PROVE  /\ disk' \in Editions /\ scanned' \in Editions /\ revision' \in Nat
                 /\ cover' \in Shown /\ evicting' \in Shown
        BY <2>1, <2>7 DEF item
    <2>8. ASSUME NEW a \in Apps, NEW s \in Slots, TaskStep(a, s)
          PROVE  /\ disk' \in Editions /\ scanned' \in Editions /\ revision' \in Nat
                 /\ cover' \in Shown /\ evicting' \in Shown
        BY <2>1, <2>3, <2>8 DEF item
    <2>9. ASSUME NEW a \in Apps, RunStep(a) \/ StopCommand(a) \/ CrashApp(a)
          PROVE  UNCHANGED <<item, cover, evicting>>
        BY <2>2, <2>9 DEF cacheVars
    <2> QED BY <2>4, <2>5, <2>6, <2>7, <2>8, <2>9 DEF ExoticNext, ExoticEnvironment
<1>5. deleted' \in BOOLEAN /\ wiping' \in BOOLEAN /\ lapsed' \in BOOLEAN /\ unkept' \in BOOLEAN
    <2>1. deleted \in BOOLEAN /\ wiping \in BOOLEAN /\ lapsed \in BOOLEAN /\ unkept \in BOOLEAN
        BY <1>0 DEF ExoticTypeOK
    <2>2. lapsed' = lapsed \/ lapsed' = TRUE \/ lapsed' = FALSE
        BY <1>0 DEF RowChange, ClaimRow, Return, FinishRow, FailRow, ResetRow, row
    <2>3. ASSUME NEW a \in Apps, RunStep(a) \/ StopCommand(a) \/ CrashApp(a)
          PROVE  UNCHANGED <<deleted, wiping, unkept>>
        BY <2>3 DEF RunStep, Sweep, LaunchRun, RecoverAtStart, ProbeWorker, ClaimsEnd, StopDispatch,
                    ReleaseAll, Renew, StopCommand, CrashApp, item, cacheVars
    <2>4. ASSUME NEW a \in Apps, NEW s \in Slots, TaskStep(a, s)
          PROVE  UNCHANGED <<deleted, wiping>> /\ (unkept' = unkept \/ unkept' = TRUE \/ unkept' = FALSE)
        BY <2>4 DEF TaskStep, ClaimTask, ReadSource, ReadFails, Work, WorkEnds, Precheck, PublishCover,
                    PublishFails, FailTask, item, cacheVars
    <2>5. CASE TouchSource \/ DeleteOrRestore
        <3>1. deleted' \in {deleted, ~deleted} /\ wiping' = wiping /\ unkept' = (unkept \/ task.status = 1)
            BY <2>5 DEF TouchSource, DeleteOrRestore, cacheVars
        <3> QED BY <2>1, <2>2, <3>1
    <2>6. CASE Lapse \/ RetryCommand \/ EditSource \/ ScanSource \/ ClearCovers \/ WipeFiles
               \/ EvictFile \/ EvictReference \/ MissingFound \/ UNCHANGED evars
        <3>1. UNCHANGED <<deleted, unkept>> /\ (wiping' = wiping \/ wiping' = TRUE \/ wiping' = FALSE)
            BY <2>6 DEF Lapse, RetryCommand, EditSource, ScanSource, ClearCovers, WipeFiles, EvictFile,
                        EvictReference, MissingFound, item, cacheVars, evars
        <3> QED BY <2>1, <2>2, <3>1
    <2> QED BY <2>1, <2>2, <2>3, <2>4, <2>5, <2>6 DEF ExoticNext, ExoticEnvironment
<1>6. /\ phase' \in [Apps -> Phases] /\ turn' \in [Apps -> Nat]
      /\ halt' \in [Apps -> {"no", "dispatch", "cancelled"}]
    <2>1. /\ phase \in [Apps -> Phases] /\ turn \in [Apps -> Nat] /\ runs \in Nat
          /\ halt \in [Apps -> {"no", "dispatch", "cancelled"}]
        BY <1>0 DEF ExoticTypeOK
    <2>2. ASSUME NEW a \in Apps, RunStep(a) \/ StopCommand(a) \/ CrashApp(a)
          PROVE  /\ phase' \in [Apps -> Phases] /\ turn' \in [Apps -> Nat]
                 /\ halt' \in [Apps -> {"no", "dispatch", "cancelled"}]
        BY <2>1, <2>2 DEF RunStep, Sweep, LaunchRun, RecoverAtStart, ProbeWorker, ClaimsEnd,
                          StopDispatch, ReleaseAll, Renew, StopCommand, CrashApp, GoTo, Phases, runVars
    <2>3. ASSUME NEW a \in Apps, NEW s \in Slots, TaskStep(a, s) PROVE UNCHANGED <<phase, turn, halt>>
        BY <2>3 DEF TaskStep, ClaimTask, ReadSource, ReadFails, Work, WorkEnds, Precheck, PublishCover,
                    PublishFails, FailTask
    <2>4. CASE ExoticEnvironment \/ UNCHANGED evars
        <3>1. UNCHANGED <<phase, turn, halt>>
            BY <2>4 DEF ExoticEnvironment, Lapse, RetryCommand, EditSource, ScanSource,
                        TouchSource, DeleteOrRestore, ClearCovers, WipeFiles, EvictFile, EvictReference,
                        MissingFound, runVars, evars
        <3> QED BY <2>1, <3>1
    <2> QED BY <2>1, <2>2, <2>3, <2>4 DEF ExoticNext
<1>7. resets' \in Nat /\ runs' \in Nat /\ troubles' \in Nat
    <2>1. resets \in Nat /\ runs \in Nat /\ troubles \in Nat
        BY <1>0 DEF ExoticTypeOK
    <2>2. ASSUME NEW a \in Apps, RunStep(a) \/ StopCommand(a) \/ CrashApp(a)
          PROVE  /\ resets' \in {resets, resets + 1} /\ runs' \in {runs, runs + 1}
                 /\ troubles' \in {troubles, troubles + 1}
        BY <2>2 DEF RunStep, Sweep, LaunchRun, RecoverAtStart, ProbeWorker, ClaimsEnd, StopDispatch,
                    ReleaseAll, Renew, StopCommand, CrashApp, tallies, ResetIf, ResetRow, Trouble,
                    Smoothly
    <2>3. ASSUME NEW a \in Apps, NEW s \in Slots, TaskStep(a, s)
          PROVE  /\ resets' \in {resets, resets + 1} /\ runs' \in {runs, runs + 1}
                 /\ troubles' \in {troubles, troubles + 1}
        BY <2>3 DEF TaskStep, ClaimTask, ReadSource, ReadFails, Work, WorkEnds, Precheck, PublishCover,
                    PublishFails, FailTask, tallies, Trouble, Smoothly
    <2>4. CASE ExoticEnvironment \/ UNCHANGED evars
        <3>1. /\ resets' \in {resets, resets + 1} /\ runs' \in {runs, runs + 1}
              /\ troubles' \in {troubles, troubles + 1}
            BY <2>4 DEF ExoticEnvironment, Lapse, RetryCommand, EditSource, ScanSource,
                        TouchSource, DeleteOrRestore, ClearCovers, WipeFiles, EvictFile, EvictReference,
                        MissingFound, tallies, evars, ResetIf, ResetRow, Trouble, Smoothly
        <3> QED BY <2>1, <3>1
    <2>5. \A a \in Apps : RunStep(a) \/ StopCommand(a) \/ CrashApp(a)
                          => resets' \in Nat /\ runs' \in Nat /\ troubles' \in Nat
        BY <2>1, <2>2
    <2>6. \A a \in Apps, s \in Slots : TaskStep(a, s)
                          => resets' \in Nat /\ runs' \in Nat /\ troubles' \in Nat
        BY <2>1, <2>3
    <2> QED BY <2>4, <2>5, <2>6 DEF ExoticNext
<1> QED BY <1>1, <1>2, <1>3, <1>4, <1>5, <1>6, <1>7 DEF ExoticTyped, ExoticTypeOK

\* For all instances, slots and bounds, every variable keeps its type, and no
\* row is failed more often than is allowed.
THEOREM ExoticTypes == ExoticSpec => []ExoticTypeOK
<1>1. ExoticTyped /\ [ExoticNext]_evars => ExoticTyped'
    BY ExoticStepTyped
<1> QED BY ExoticInitTyped, <1>1, PTL DEF ExoticSpec, ExoticTyped

----------------------------------------------------------------------------
(* A done row stays.                                                       *)

LEMMA StepDone ==
    ASSUME ExoticTyped, [ExoticNext]_evars, task.status = 2, task'.status # 2
    PROVE  resets' # resets
<1>1. ResetRow
    <2>1. RowChange
        BY RowChanges
    <2>2. ASSUME NEW a \in Apps, NEW t, FinishRow(a, t) PROVE FALSE
        <3>1. task'.status = 2
            BY <2>2 DEF FinishRow, ExoticTyped, ExoticTypeOK, TaskRow
        <3> QED BY <3>1
    <2>3. task' # task /\ task.status \notin {0, 1, 3}
        OBVIOUS
    <2>4. /\ \A a \in Apps : ~ClaimRow(a)
          /\ \A a \in Apps, retryable \in BOOLEAN : ~(Mine(a) /\ FailRow(a, retryable))
        BY <2>3 DEF ClaimRow, Mine
    <2> QED BY <2>1, <2>2, <2>3, <2>4 DEF RowChange
<1>2. resets \in Nat
    BY DEF ExoticTyped, ExoticTypeOK
<1> QED BY <1>1, <1>2 DEF ResetRow

\* For all instances, slots and bounds, nothing that runs late undoes a row
\* that is done.
THEOREM DoneRowsStay == ExoticSpec => DoneStays
<1>1. ExoticTyped /\ [ExoticNext]_evars => ExoticTyped'
    BY ExoticStepTyped
<1>2. ExoticTyped /\ [ExoticNext]_evars
      => [task.status = 2 /\ task'.status # 2 => resets' # resets]_evars
    BY StepDone
<1> QED BY ExoticInitTyped, <1>1, <1>2, PTL DEF ExoticSpec, DoneStays

----------------------------------------------------------------------------
(* What is shown is current.                                               *)

\* A task in hand is for a version the library has known, and its picture was
\* made of that version or of a later one.
Sane(t, d) ==
    /\ t.at = "ready" => t.key \in Editions /\ t.key <= d
    /\ t.at \in {"working", "ok", "sink"} => t.key \in Editions /\ t.key <= t.made

Current ==
    /\ scanned <= disk
    /\ \A a \in Apps, s \in Slots : Sane(hand[a][s], disk)
    /\ ShownIsCurrent

LEMMA InitCurrent == ExoticInit => Current
<1> SUFFICES ASSUME ExoticInit PROVE Current
    OBVIOUS
<1>1. /\ disk = 1 /\ scanned = 1 /\ cover = 0 /\ task.status = 0
      /\ (\A v \in Editions : cached[v] = 0) /\ \A a \in Apps, s \in Slots : hand[a][s] = Free
    BY EditionFacts DEF ExoticInit, StartWith, RunsStart
<1> QED BY <1>1, EditionFacts DEF Current, Sane, ShownIsCurrent

\* How one task in hand changes.
LEMMA HandCurrent ==
    ASSUME ExoticTypeOK, Current, [ExoticNext]_evars
    PROVE  \A a \in Apps, s \in Slots : Sane(hand'[a][s], disk')
<1> USE EditionFacts
<1>0. /\ hand \in [Apps -> [Slots -> TaskInHand]] /\ disk \in Editions /\ scanned \in Editions
      /\ (\A a \in Apps, s \in Slots : Sane(hand[a][s], disk) /\ hand[a][s] \in TaskInHand)
      /\ scanned <= disk
    BY DEF ExoticTypeOK, Current
<1>1. ASSUME hand' = hand, disk' = disk PROVE \A a \in Apps, s \in Slots : Sane(hand'[a][s], disk')
    BY <1>0, <1>1 DEF Sane
<1>2. ASSUME NEW a \in Apps, NEW s \in Slots, NEW t, Put(a, s, t), disk' = disk, Sane(t, disk)
      PROVE  \A b \in Apps, u \in Slots : Sane(hand'[b][u], disk')
    <2>1. ASSUME NEW b \in Apps, NEW u \in Slots PROVE Sane(hand'[b][u], disk')
        <3>1. hand'[b][u] = IF b = a /\ u = s THEN t ELSE hand[b][u]
            BY <1>0, <1>2 DEF Put
        <3>2. CASE b = a /\ u = s
            BY <1>2, <3>1, <3>2 DEF Sane
        <3>3. CASE ~(b = a /\ u = s)
            BY <1>0, <1>2, <3>1, <3>3 DEF Sane
        <3> QED BY <3>2, <3>3
    <2> QED BY <2>1
<1>3. ASSUME NEW a \in Apps, RunStep(a) \/ StopCommand(a)
      PROVE  hand' = hand /\ disk' = disk
    BY <1>3 DEF RunStep, Sweep, LaunchRun, RecoverAtStart, ProbeWorker, ClaimsEnd, StopDispatch,
                ReleaseAll, Renew, StopCommand, runVars, item
<1>4. ASSUME NEW a \in Apps, CrashApp(a) PROVE \A b \in Apps, u \in Slots : Sane(hand'[b][u], disk')
    <2>1. hand' = [hand EXCEPT ![a] = [s \in Slots |-> Free]] /\ disk' = disk
        BY <1>4 DEF CrashApp, item
    <2>2. ASSUME NEW b \in Apps, NEW u \in Slots PROVE Sane(hand'[b][u], disk')
        <3>1. hand'[b][u] = IF b = a THEN Free ELSE hand[b][u]
            BY <1>0, <2>1
        <3>2. CASE b = a
            BY <3>1, <3>2 DEF Sane
        <3>3. CASE b # a
            BY <1>0, <2>1, <3>1, <3>3 DEF Sane
        <3> QED BY <3>2, <3>3
    <2> QED BY <2>2
<1>5. ASSUME NEW a \in Apps, NEW s \in Slots, TaskStep(a, s)
      PROVE  \A b \in Apps, u \in Slots : Sane(hand'[b][u], disk')
    <2>0. disk' = disk
        BY <1>5 DEF TaskStep, ClaimTask, ReadSource, ReadFails, Work, WorkEnds, Precheck, PublishCover,
                    PublishFails, FailTask, item
    <2>1. ASSUME Drop(a, s) PROVE \A b \in Apps, u \in Slots : Sane(hand'[b][u], disk')
        <3>1. Sane(Free, disk)
            BY DEF Sane
        <3> QED BY <2>0, <2>1, <3>1, <1>2 DEF Drop
    <2>2. CASE ClaimTask(a, s)
        <3>1. Put(a, s, [Free EXCEPT !.at = "claimed"]) /\ [Free EXCEPT !.at = "claimed"].at = "claimed"
            BY <2>2 DEF ClaimTask, Free
        <3>2. Sane([Free EXCEPT !.at = "claimed"], disk)
            BY <3>1 DEF Sane
        <3> QED BY <2>0, <3>1, <3>2, <1>2
    <2>3. CASE ReadSource(a, s)
        <3> DEFINE t == [at |-> "ready", rev |-> revision, key |-> scanned, made |-> 0]
        <3>1. Drop(a, s) \/ Put(a, s, t)
            BY <2>3 DEF ReadSource
        <3>2. Sane(t, disk)
            BY <1>0, <2>0 DEF Sane
        <3> QED BY <2>0, <2>1, <3>1, <3>2, <1>2
    <2>4. CASE Work(a, s)
        <3> DEFINE t == [hand[a][s] EXCEPT !.at = "working", !.made = disk]
        <3>1. (Drop(a, s) \/ Put(a, s, t)) /\ hand[a][s].at = "ready"
            BY <2>4 DEF Work, HandAt
        <3>2. t.at = "working" /\ t.made = disk /\ t.key = hand[a][s].key
            BY <1>0 DEF TaskInHand
        <3>3. t.key \in Editions /\ t.key <= t.made
            BY <1>0, <3>1, <3>2 DEF Sane
        <3>4. Sane(t, disk)
            BY <3>2, <3>3 DEF Sane
        <3>5. CASE Put(a, s, t)
            <4> HIDE DEF t
            <4> QED BY <2>0, <3>4, <3>5, <1>2
        <3> QED BY <2>1, <3>1, <3>5
    <2>5. ASSUME NEW p, Move(a, s, p), \/ p \in {"retry", "bad"}
                                       \/ hand[a][s].at \in {"working", "ok"} /\ p \in {"ok", "sink"}
          PROVE  \A b \in Apps, u \in Slots : Sane(hand'[b][u], disk')
        <3> DEFINE t == [hand[a][s] EXCEPT !.at = p]
        <3>1. Put(a, s, t)
            BY <2>5 DEF Move
        <3>2. t.at = p /\ t.made = hand[a][s].made /\ t.key = hand[a][s].key
            BY <1>0 DEF TaskInHand
        <3>3. Sane(t, disk)
            BY <1>0, <2>5, <3>2 DEF Sane
        <3> HIDE DEF t
        <3> QED BY <2>0, <3>1, <3>3, <1>2
    <2>6. CASE WorkEnds(a, s)
        <3>1. hand[a][s].at = "working" /\ (Drop(a, s) \/ \E p \in {"ok", "retry", "bad"} : Move(a, s, p))
            BY <2>6 DEF WorkEnds, HandAt
        <3> QED BY <2>1, <2>5, <3>1
    <2>7. CASE Precheck(a, s) \/ PublishFails(a, s)
        <3>1. Drop(a, s) \/ (hand[a][s].at = "ok" /\ Move(a, s, "sink")) \/ Move(a, s, "retry")
            BY <2>7 DEF Precheck, PublishFails, HandAt
        <3> QED BY <2>1, <2>5, <3>1
    <2>8. CASE PublishCover(a, s) \/ FailTask(a, s) \/ ReadFails(a, s)
        BY <2>1, <2>8 DEF PublishCover, FailTask, ReadFails
    <2> QED BY <1>5, <2>2, <2>3, <2>4, <2>6, <2>7, <2>8 DEF TaskStep
<1>6. CASE ExoticEnvironment \/ UNCHANGED evars
    <2>1. hand' = hand /\ (disk' = disk \/ disk' = disk + 1)
        BY <1>6 DEF ExoticEnvironment, Lapse, RetryCommand, EditSource, ScanSource, TouchSource, DeleteOrRestore,
                    ClearCovers, WipeFiles, EvictFile, EvictReference, MissingFound, runVars, item, evars
    <2>2. disk <= disk' /\ disk' \in Nat
        BY <1>0, <2>1
    <2>3. ASSUME NEW a \in Apps, NEW s \in Slots PROVE Sane(hand'[a][s], disk')
        <3>1. Sane(hand[a][s], disk) /\ hand'[a][s] = hand[a][s]
            BY <1>0, <2>1
        <3>2. ASSUME hand[a][s].at = "ready" PROVE hand[a][s].key \in Editions /\ hand[a][s].key <= disk'
            <4>1. hand[a][s].key \in Editions /\ hand[a][s].key <= disk
                BY <3>1, <3>2 DEF Sane
            <4>2. hand[a][s].key \in Nat /\ disk \in Nat
                BY <1>0, <4>1
            <4> QED BY <2>2, <4>1, <4>2
        <3> QED BY <3>1, <3>2 DEF Sane
    <2> QED BY <2>3
<1> QED BY <1>1, <1>3, <1>4, <1>5, <1>6 DEF ExoticNext

LEMMA StepCurrent ==
    ASSUME ExoticTyped, Current, [ExoticNext]_evars
    PROVE  Current'
<1> USE EditionFacts
<1>0. /\ ExoticTypeOK /\ disk \in Editions /\ scanned \in Editions /\ task \in TaskRow
      /\ scanned <= disk /\ cover \in {0, scanned} /\ (task.status = 2 => task.out = scanned)
      /\ (\A v \in Editions : cached[v] = 0 \/ cached[v] >= v)
      /\ \A a \in Apps, s \in Slots : Sane(hand[a][s], disk)
    BY DEF ExoticTyped, ExoticTypeOK, Current, ShownIsCurrent
<1>1. \A a \in Apps, s \in Slots : Sane(hand'[a][s], disk')
    BY <1>0, HandCurrent
<1>2. \A v \in Editions : cached'[v] = 0 \/ cached'[v] >= v
    <2>1. CacheChange
        BY CacheChanges
    <2>2. cached \in [Editions -> Shown]
        BY <1>0 DEF ExoticTypeOK
    <2>3. ASSUME NEW a \in Apps, NEW s \in Slots, hand[a][s].at = "sink",
                 cached' = [cached EXCEPT ![hand[a][s].key] = hand[a][s].made], NEW v \in Editions
          PROVE  cached'[v] = 0 \/ cached'[v] >= v
        <3>1. hand[a][s].key \in Editions /\ hand[a][s].key <= hand[a][s].made
            BY <1>0, <2>3 DEF Sane
        <3>2. hand[a][s].made \in Nat
            BY <1>0 DEF ExoticTypeOK, TaskInHand, Shown, Editions
        <3>3. v \in Nat
            OBVIOUS
        <3>4. CASE v = hand[a][s].key
            <4>1. cached'[v] = hand[a][s].made
                BY <2>2, <2>3, <3>1, <3>4
            <4> QED BY <3>1, <3>2, <3>3, <3>4, <4>1
        <3>5. CASE v # hand[a][s].key
            <4>1. cached'[v] = cached[v]
                BY <2>2, <2>3, <3>1, <3>5
            <4> QED BY <1>0, <4>1
        <3> QED BY <3>4, <3>5
    <2> QED BY <1>0, <2>1, <2>2, <2>3 DEF CacheChange
<1>3. \/ UNCHANGED <<scanned, disk>> \/ (scanned' = scanned /\ disk' = disk + 1)
      \/ ScanSource
    <2>1. ASSUME NEW a \in Apps, RunStep(a) \/ StopCommand(a) \/ CrashApp(a) PROVE UNCHANGED <<scanned, disk>>
        BY <2>1 DEF RunStep, Sweep, LaunchRun, RecoverAtStart, ProbeWorker, ClaimsEnd, StopDispatch,
                    ReleaseAll, Renew, StopCommand, CrashApp, item
    <2>2. ASSUME NEW a \in Apps, NEW s \in Slots, TaskStep(a, s) PROVE UNCHANGED <<scanned, disk>>
        BY <2>2 DEF TaskStep, ClaimTask, ReadSource, ReadFails, Work, WorkEnds, Precheck, PublishCover,
                    PublishFails, FailTask, item
    <2>3. CASE ExoticEnvironment \/ UNCHANGED evars
        BY <2>3 DEF ExoticEnvironment, Lapse, RetryCommand, EditSource, TouchSource, DeleteOrRestore,
                    ClearCovers, WipeFiles, EvictFile, EvictReference, MissingFound, item, evars
    <2> QED BY <2>1, <2>2, <2>3 DEF ExoticNext
<1>4. ASSUME ScanSource PROVE scanned' = disk /\ disk' = disk /\ cover' = 0 /\ task' = NoTask
    BY <1>4 DEF ScanSource, ResetRow
<1>5. scanned' <= disk'
    BY <1>0, <1>3, <1>4
<1>6. cover' \in {0, scanned'}
    <2>1. ASSUME NEW a \in Apps, RunStep(a) \/ StopCommand(a) \/ CrashApp(a) PROVE cover' = cover
        BY <2>1 DEF RunStep, Sweep, LaunchRun, RecoverAtStart, ProbeWorker, ClaimsEnd, StopDispatch,
                    ReleaseAll, Renew, StopCommand, CrashApp, cacheVars
    <2>2. ASSUME NEW a \in Apps, NEW s \in Slots, TaskStep(a, s) PROVE cover' \in {cover, scanned}
        BY <2>2 DEF TaskStep, ClaimTask, ReadSource, ReadFails, Work, WorkEnds, Precheck, PublishCover,
                    PublishFails, FailTask, cacheVars, CanFinish, SourceIsCurrent
    <2>3. CASE ExoticEnvironment \/ UNCHANGED evars
        <3>1. cover' = cover \/ cover' = 0
            BY <2>3 DEF ExoticEnvironment, Lapse, RetryCommand, EditSource, ScanSource,
                        TouchSource, DeleteOrRestore, ClearCovers, WipeFiles, EvictFile, EvictReference,
                        MissingFound, cacheVars, evars
        <3> QED BY <1>0, <1>3, <1>4, <3>1
    <2>4. (\E a \in Apps : RunStep(a) \/ StopCommand(a) \/ CrashApp(a))
          \/ (\E a \in Apps, s \in Slots : TaskStep(a, s)) => cover' \in {0, scanned}
        BY <1>0, <2>1, <2>2
    <2> QED BY <1>3, <1>4, <2>3, <2>4 DEF ExoticNext
<1>7. ASSUME task'.status = 2 PROVE task'.out = scanned'
    <2>1. RowChange
        BY RowChanges
    <2>2. ~ScanSource
        <3>1. ScanSource => task'.status = 0
            BY <1>4
        <3> QED BY <1>7, <3>1
    <2>3. scanned' = scanned
        BY <1>3, <2>2
    <2>4. CASE task' = task
        BY <1>0, <1>7, <2>3, <2>4
    <2>5. ASSUME NEW a \in Apps, NEW t, CanFinish(a, t), FinishRow(a, t) PROVE task'.out = scanned
        BY <1>0, <2>5 DEF CanFinish, SourceIsCurrent, FinishRow, TaskRow
    <2>6. ASSUME NEW a \in Apps, ClaimRow(a) PROVE task'.status = 1
        BY <1>0, <2>6 DEF ClaimRow, TaskRow
    <2>7. Return => task'.status = 0
        BY <1>0 DEF Return, TaskRow
    <2>8. ASSUME NEW a \in Apps, NEW retryable \in BOOLEAN, Mine(a), FailRow(a, retryable)
          PROVE  task'.status \in {3, 4}
        <3>1. \E n \in {3, 4} : task' = [task EXCEPT !.attempts = @ + 1, !.owner = 0, !.status = n]
            BY <2>8 DEF FailRow
        <3> QED BY <1>0, <3>1 DEF TaskRow
    <2>9. ResetRow => task'.status = 0
        BY DEF ResetRow
    <2>10. ASSUME task' # task PROVE \E a \in Apps, t \in TaskInHand : CanFinish(a, t) /\ FinishRow(a, t)
        <3>1. \A a \in Apps, s \in Slots : hand[a][s] \in TaskInHand
            BY <1>0 DEF ExoticTypeOK
        <3>2. (\A a \in Apps : ~ClaimRow(a)) /\ ~ResetRow /\ ~Return
            BY <1>7, <2>6, <2>7, <2>9
        <3>3. \A a \in Apps, retryable \in BOOLEAN : ~(Mine(a) /\ FailRow(a, retryable))
            BY <1>7, <2>8
        <3> QED BY <2>1, <2>10, <3>1, <3>2, <3>3 DEF RowChange
    <2> QED BY <2>3, <2>4, <2>5, <2>10
<1> QED BY <1>1, <1>2, <1>5, <1>6, <1>7 DEF Current, ShownIsCurrent

\* For all instances, slots and bounds, a cover is of the version the library
\* knows, and a file of no older one than its name says.
THEOREM ShownStaysCurrent == ExoticSpec => []ShownIsCurrent
<1>1. ExoticTyped /\ Current /\ [ExoticNext]_evars => ExoticTyped' /\ Current'
    BY ExoticStepTyped, StepCurrent
<1>2. Current => ShownIsCurrent
    BY DEF Current
<1> QED BY ExoticInitTyped, InitCurrent, <1>1, <1>2, PTL DEF ExoticSpec

----------------------------------------------------------------------------
(* A row that a live run holds is in its hands.                            *)

\* Runs have names of their own, and a run that has not begun holds nothing.
Turns ==
    /\ \A a \in Apps : turn[a] <= runs /\ (phase[a] # "waiting" => turn[a] # 0)
    /\ \A a, b \in Apps : a # b => turn[a] # turn[b] \/ turn[a] = 0
    /\ task.status = 1 => task.owner # 0 /\ task.owner <= runs
    /\ \A a \in Apps : phase[a] \in {"starting", "probing"} => ~Mine(a)

LEMMA InitTurns == ExoticInit => Turns
<1> SUFFICES ASSUME ExoticInit PROVE Turns
    OBVIOUS
<1>1. /\ runs = 0 /\ task.status = 0
      /\ \A a \in Apps : turn[a] = 0 /\ phase[a] = "waiting"
    BY EditionFacts DEF ExoticInit, StartWith, RunsStart
<1> QED BY <1>1 DEF Turns, Mine

LEMMA PhaseFacts ==
    ASSUME ExoticTypeOK, [ExoticNext]_evars
    PROVE  /\ (turn' = turn /\ runs' = runs) \/ \E a \in Apps : LaunchRun(a)
           /\ \A c \in Apps : phase'[c] # "waiting" => phase[c] # "waiting" \/ LaunchRun(c)
           /\ \A c \in Apps : phase'[c] \in {"starting", "probing"} =>
                                  phase[c] \in {"starting", "probing"} \/ LaunchRun(c)
<1>0. phase \in [Apps -> Phases]
    BY DEF ExoticTypeOK
<1>1. ASSUME NEW a \in Apps, RunStep(a) \/ StopCommand(a) \/ CrashApp(a)
      PROVE  /\ (turn' = turn /\ runs' = runs) \/ LaunchRun(a)
             /\ \A c \in Apps : phase'[c] # "waiting" => phase[c] # "waiting" \/ LaunchRun(c)
             /\ \A c \in Apps : phase'[c] \in {"starting", "probing"} =>
                                    phase[c] \in {"starting", "probing"} \/ LaunchRun(c)
    <2>1. CASE LaunchRun(a)
        BY <1>0, <2>1 DEF LaunchRun
    <2>2. CASE Sweep(a) \/ StopDispatch(a) \/ Renew(a) \/ StopCommand(a)
        <3>1. UNCHANGED <<phase, turn, runs>>
            BY <2>2 DEF Sweep, StopDispatch, Renew, StopCommand, runVars, tallies
        <3> QED BY <3>1
    <2>3. CASE RecoverAtStart(a) \/ ProbeWorker(a) \/ ClaimsEnd(a) \/ ReleaseAll(a) \/ CrashApp(a)
        <3>1. turn' = turn /\ runs' = runs
            BY <2>3 DEF RecoverAtStart, ProbeWorker, ClaimsEnd, ReleaseAll, CrashApp, tallies
        <3>2. PICK p \in Phases :
                  /\ phase' = [phase EXCEPT ![a] = p]
                  /\ phase[a] # "waiting" \/ p = "waiting"
                  /\ p \in {"starting", "probing"} => phase[a] \in {"starting", "probing"}
            BY <2>3 DEF RecoverAtStart, ProbeWorker, ClaimsEnd, ReleaseAll, CrashApp, GoTo, Phases
        <3> QED BY <1>0, <3>1, <3>2
    <2> QED BY <1>1, <2>1, <2>2, <2>3 DEF RunStep
<1>2. ASSUME NEW a \in Apps, NEW s \in Slots, TaskStep(a, s) PROVE UNCHANGED <<phase, turn, runs>>
    BY <1>2 DEF TaskStep, ClaimTask, ReadSource, ReadFails, Work, WorkEnds, Precheck, PublishCover,
                PublishFails, FailTask, tallies
<1>3. CASE ExoticEnvironment \/ UNCHANGED evars
    <2>1. UNCHANGED <<phase, turn, runs>>
        BY <1>3 DEF ExoticEnvironment, Lapse, RetryCommand, EditSource, ScanSource, TouchSource, DeleteOrRestore,
                    ClearCovers, WipeFiles, EvictFile, EvictReference, MissingFound, runVars,
                    tallies, evars
    <2> QED BY <2>1
<1>4. (\E a \in Apps : RunStep(a) \/ StopCommand(a) \/ CrashApp(a))
      \/ (\E a \in Apps, s \in Slots : TaskStep(a, s)) \/ ExoticEnvironment \/ UNCHANGED evars
    BY DEF ExoticNext
<1> QED BY <1>1, <1>2, <1>3, <1>4

LEMMA StepTurns ==
    ASSUME ExoticTyped, Turns, [ExoticNext]_evars
    PROVE  Turns'
<1> USE EditionFacts
<1>0. /\ ExoticTypeOK /\ turn \in [Apps -> Nat] /\ runs \in Nat /\ task \in TaskRow
      /\ phase \in [Apps -> Phases]
    BY DEF ExoticTyped, ExoticTypeOK
<1>1. /\ (turn' = turn /\ runs' = runs) \/ \E a \in Apps : LaunchRun(a)
      /\ \A c \in Apps : phase'[c] # "waiting" => phase[c] # "waiting" \/ LaunchRun(c)
      /\ \A c \in Apps : phase'[c] \in {"starting", "probing"} =>
                             phase[c] \in {"starting", "probing"} \/ LaunchRun(c)
    BY <1>0, PhaseFacts
<1>2. ASSUME NEW a \in Apps, LaunchRun(a)
      PROVE  /\ phase[a] = "waiting" /\ runs' = runs + 1 /\ turn'[a] = runs + 1
             /\ \A c \in Apps : c # a => turn'[c] = turn[c]
    BY <1>0, <1>2 DEF LaunchRun
<1>3. \A c \in Apps : turn'[c] = turn[c] \/ LaunchRun(c)
    BY <1>1, <1>2
<1>4. runs <= runs' /\ runs' \in Nat
    BY <1>0, <1>1, <1>2
<1>5. \A a \in Apps : turn'[a] <= runs' /\ (phase'[a] # "waiting" => turn'[a] # 0)
    <2> TAKE a \in Apps
    <2>1. CASE LaunchRun(a)
        BY <1>0, <1>2, <2>1
    <2>2. CASE ~LaunchRun(a)
        <3>1. turn'[a] = turn[a] /\ turn[a] <= runs /\ turn[a] \in Nat
            BY <1>0, <1>3, <2>2 DEF Turns
        <3>2. turn'[a] <= runs'
            BY <1>0, <1>4, <3>1
        <3> QED BY <1>1, <2>2, <3>1, <3>2 DEF Turns
    <2> QED BY <2>1, <2>2
<1>6. \A a, b \in Apps : a # b => turn'[a] # turn'[b] \/ turn'[a] = 0
    <2>1. ASSUME NEW a \in Apps, NEW b \in Apps, a # b PROVE turn'[a] # turn'[b] \/ turn'[a] = 0
        <3>0. turn[a] <= runs /\ turn[b] <= runs /\ turn[a] \in Nat /\ turn[b] \in Nat
              /\ (turn[a] # turn[b] \/ turn[a] = 0)
            BY <1>0, <2>1 DEF Turns
        <3>1. CASE LaunchRun(a)
            <4>1. turn'[a] = runs + 1 /\ turn'[b] = turn[b]
                BY <1>2, <2>1, <3>1
            <4> QED BY <1>0, <3>0, <4>1
        <3>2. CASE LaunchRun(b)
            <4>1. turn'[b] = runs + 1 /\ turn'[a] = turn[a]
                BY <1>2, <2>1, <3>2
            <4> QED BY <1>0, <3>0, <4>1
        <3>3. CASE ~LaunchRun(a) /\ ~LaunchRun(b)
            BY <1>3, <3>0, <3>3
        <3> QED BY <3>1, <3>2, <3>3
    <2> QED BY <2>1
<1>7. ASSUME task'.status = 1
      PROVE  task' = task \/ \E a \in Apps : phase[a] = "running" /\ task'.owner = turn[a]
    <2>1. RowChange
        BY RowChanges
    <2>2. ASSUME NEW a \in Apps, ClaimRow(a) PROVE task'.owner = turn[a]
        BY <1>0, <2>2 DEF ClaimRow, TaskRow
    <2>3. Return => task'.status = 0
        BY <1>0 DEF Return, TaskRow
    <2>4. ASSUME NEW a \in Apps, NEW t, FinishRow(a, t) PROVE task'.status = 2
        BY <1>0, <2>4 DEF FinishRow, TaskRow
    <2>5. ASSUME NEW a \in Apps, NEW retryable \in BOOLEAN, Mine(a), FailRow(a, retryable)
          PROVE  task'.status \in {3, 4}
        <3>1. \E n \in {3, 4} : task' = [task EXCEPT !.attempts = @ + 1, !.owner = 0, !.status = n]
            BY <2>5 DEF FailRow
        <3> QED BY <1>0, <3>1 DEF TaskRow
    <2>6. ResetRow => task'.status = 0
        BY DEF ResetRow
    <2>7. (\A a \in Apps, t \in TaskInHand : ~FinishRow(a, t)) /\ ~ResetRow /\ ~Return
          /\ \A a \in Apps, retryable \in BOOLEAN : ~(Mine(a) /\ FailRow(a, retryable))
        BY <1>7, <2>3, <2>4, <2>5, <2>6
    <2>8. \A a \in Apps, s \in Slots : hand[a][s] \in TaskInHand
        BY <1>0 DEF ExoticTypeOK
    <2> QED BY <2>1, <2>2, <2>7, <2>8 DEF RowChange
<1>8. task'.status = 1 => task'.owner # 0 /\ task'.owner <= runs
    <2> HAVE task'.status = 1
    <2>1. CASE task' = task
        BY <2>1 DEF Turns
    <2>2. ASSUME NEW a \in Apps, phase[a] = "running", task'.owner = turn[a]
          PROVE  task'.owner # 0 /\ task'.owner <= runs
        BY <2>2 DEF Turns
    <2> QED BY <1>7, <2>1, <2>2
<1>9. task'.status = 1 => task'.owner \in Nat
    BY RowChanges, RowTyped, RowFields
<1>10. ASSUME NEW c \in Apps, phase'[c] \in {"starting", "probing"}, Mine(c)' PROVE FALSE
    <2>1. task'.status = 1 /\ task'.owner = turn'[c]
        BY <1>10 DEF Mine
    <2>2. CASE LaunchRun(c)
        BY <1>0, <1>2, <1>8, <1>9, <2>1, <2>2
    <2>3. CASE ~LaunchRun(c)
        <3>1. turn'[c] = turn[c] /\ phase[c] \in {"starting", "probing"} /\ ~Mine(c)
            BY <1>1, <1>3, <1>10, <2>3 DEF Turns
        <3>2. PICK a \in Apps : phase[a] = "running" /\ task'.owner = turn[a]
            BY <1>7, <2>1, <3>1 DEF Mine
        <3>3. a # c /\ turn[a] # 0 /\ turn[a] = turn[c]
            BY <2>1, <3>1, <3>2 DEF Turns
        <3> QED BY <3>3 DEF Turns
    <2> QED BY <2>2, <2>3
<1>11. task'.status = 1 => task'.owner # 0 /\ task'.owner <= runs'
    BY <1>0, <1>4, <1>8, <1>9
<1> QED BY <1>5, <1>6, <1>10, <1>11 DEF Turns

\* A task that will end its row's claim.
Holds(t) == t.at # "none" /\ (t.at # "claimed" => SourceIsCurrent(t))

Kept(a) ==
    phase[a] \in {"running", "draining"} /\ Mine(a) /\ halt[a] = "no" /\ ~unkept =>
        \E s \in Slots : Holds(hand[a][s])

HeldByRun == \A a \in Apps : Kept(a)

LEMMA HeldTasks == HeldByRun => TasksAreHeld
<1> SUFFICES ASSUME HeldByRun, NEW a \in Apps, Renews(a), halt[a] = "no", ~unkept
             PROVE  \E s \in Slots : hand[a][s] # Free
    BY DEF TasksAreHeld
<1>1. PICK s \in Slots : Holds(hand[a][s])
    BY DEF HeldByRun, Kept, Renews
<1> QED BY <1>1, EditionFacts DEF Holds

LEMMA InitHeld == ExoticInit => HeldByRun
BY DEF ExoticInit, StartWith, RunsStart, HeldByRun, Kept

\* Nothing happened to the row or to the tasks of that run.
LEMMA KeptStays ==
    ASSUME NEW c \in Apps, Kept(c), task' = task, turn'[c] = turn[c], hand'[c] = hand[c],
           UNCHANGED <<revision, deleted, scanned>>,
           unkept' = FALSE => unkept = FALSE, unkept \in BOOLEAN, unkept' \in BOOLEAN,
           halt'[c] = "no" => halt[c] = "no",
           phase'[c] \in {"running", "draining"} /\ Mine(c) => phase[c] \in {"running", "draining"}
    PROVE  Kept(c)'
<1> SUFFICES ASSUME phase'[c] \in {"running", "draining"}, Mine(c)', halt'[c] = "no", ~unkept'
             PROVE  \E s \in Slots : Holds(hand[c][s])'
    BY DEF Kept
<1>1. Mine(c)
    BY DEF Mine
<1>2. PICK s \in Slots : Holds(hand[c][s])
    BY <1>1 DEF Kept
<1>3. Holds(hand[c][s])'
    BY <1>2 DEF Holds, SourceIsCurrent
<1> QED BY <1>3

\* A row that is no longer claimed is held by nobody.
LEMMA KeptFree == ASSUME NEW c, task'.status # 1 PROVE Kept(c)'
BY DEF Kept, Mine

LEMMA RunKept ==
    ASSUME ExoticTyped, Turns, HeldByRun, ExoticTyped', NEW a \in Apps, NEW c \in Apps,
           RunStep(a) \/ StopCommand(a) \/ CrashApp(a)
    PROVE  Kept(c)'
<1> USE EditionFacts
<1>0. /\ phase \in [Apps -> Phases] /\ turn \in [Apps -> Nat] /\ task \in TaskRow
      /\ hand \in [Apps -> [Slots -> TaskInHand]] /\ unkept \in BOOLEAN /\ unkept' \in BOOLEAN
      /\ halt \in [Apps -> {"no", "dispatch", "cancelled"}] /\ Kept(c)
    BY DEF ExoticTyped, ExoticTypeOK, HeldByRun
<1>1. UNCHANGED <<revision, deleted, scanned, unkept>>
    BY DEF RunStep, Sweep, LaunchRun, RecoverAtStart, ProbeWorker, ClaimsEnd, StopDispatch,
           ReleaseAll, Renew, StopCommand, CrashApp, item
<1>2. task' = task \/ task'.status = 0
    <2>1. Return => task'.status = 0
        BY <1>0 DEF Return, TaskRow
    <2>2. ResetRow => task'.status = 0
        BY DEF ResetRow
    <2> QED BY <2>1, <2>2 DEF RunStep, Sweep, LaunchRun, RecoverAtStart, ProbeWorker, ClaimsEnd,
               StopDispatch, ReleaseAll, Renew, StopCommand, CrashApp, RecoverRow, ReleaseRow,
               ResetIf, row
<1>3. CASE LaunchRun(a) /\ a = c
    <2>1. phase'[c] = "starting"
        BY <1>0, <1>3 DEF LaunchRun
    <2> QED BY <2>1 DEF Kept
<1>4. CASE CrashApp(a) /\ a = c
    <2>1. phase'[c] = "waiting"
        BY <1>0, <1>4 DEF CrashApp
    <2> QED BY <2>1 DEF Kept
<1>5. CASE ~((LaunchRun(a) \/ CrashApp(a)) /\ a = c)
    <2>1. hand'[c] = hand[c]
        BY <1>0, <1>5 DEF RunStep, Sweep, LaunchRun, RecoverAtStart, ProbeWorker, ClaimsEnd,
               StopDispatch, ReleaseAll, Renew, StopCommand, CrashApp, runVars
    <2>2. turn'[c] = turn[c]
        BY <1>0, <1>5 DEF RunStep, Sweep, LaunchRun, RecoverAtStart, ProbeWorker, ClaimsEnd,
               StopDispatch, ReleaseAll, Renew, StopCommand, CrashApp, runVars
    <2>3. halt'[c] = "no" => halt[c] = "no"
        BY <1>0, <1>5 DEF RunStep, Sweep, LaunchRun, RecoverAtStart, ProbeWorker, ClaimsEnd,
               StopDispatch, ReleaseAll, Renew, StopCommand, CrashApp, runVars
    <2>4. phase'[c] \in {"running", "draining"} => phase[c] \in {"running", "draining", "probing"}
        BY <1>0, <1>5 DEF RunStep, Sweep, LaunchRun, RecoverAtStart, ProbeWorker, ClaimsEnd,
               StopDispatch, ReleaseAll, Renew, StopCommand, CrashApp, runVars, GoTo
    <2>5. phase'[c] \in {"running", "draining"} /\ Mine(c) => phase[c] \in {"running", "draining"}
        BY <2>4 DEF Turns
    <2>6. CASE task' = task
        BY <1>0, <1>1, <2>1, <2>2, <2>3, <2>5, <2>6, KeptStays
    <2>7. CASE task'.status = 0
        BY <2>7, KeptFree
    <2> QED BY <1>2, <2>6, <2>7
<1> QED BY <1>3, <1>4, <1>5

LEMMA AroundKept ==
    ASSUME ExoticTyped, HeldByRun, ExoticTyped', NEW c \in Apps, ExoticEnvironment \/ UNCHANGED evars
    PROVE  Kept(c)'
<1>0. unkept \in BOOLEAN /\ unkept' \in BOOLEAN /\ Kept(c)
    BY DEF ExoticTyped, ExoticTypeOK, HeldByRun
<1>1. UNCHANGED <<phase, turn, halt, hand>>
    BY DEF ExoticEnvironment, Lapse, RetryCommand, EditSource, ScanSource, TouchSource, DeleteOrRestore,
           ClearCovers, WipeFiles, EvictFile, EvictReference, MissingFound, runVars, evars
<1>2. CASE Lapse \/ EditSource \/ WipeFiles \/ EvictFile \/ EvictReference \/ MissingFound
           \/ UNCHANGED evars
    <2>1. UNCHANGED <<task, revision, deleted, scanned, unkept>>
        BY <1>2 DEF Lapse, EditSource, WipeFiles, EvictFile, EvictReference, MissingFound, item, row, evars
    <2> QED BY <1>0, <1>1, <2>1, KeptStays
<1>3. CASE RetryCommand \/ ScanSource \/ ClearCovers
    <2>1. ResetRow \/ UNCHANGED <<task, revision, deleted, scanned, unkept>>
        BY <1>3 DEF RetryCommand, ScanSource, ClearCovers, ResetIf, item, row
    <2>2. CASE ResetRow
        <3>1. task'.status = 0
            BY <2>2, EditionFacts DEF ResetRow
        <3> QED BY <3>1, KeptFree
    <2>3. CASE UNCHANGED <<task, revision, deleted, scanned, unkept>>
        BY <1>0, <1>1, <2>3, KeptStays
    <2> QED BY <2>1, <2>2, <2>3
<1>4. CASE TouchSource \/ DeleteOrRestore
    <2>1. task' = task /\ unkept' = (unkept \/ task.status = 1)
        BY <1>4 DEF TouchSource, DeleteOrRestore, row
    <2>2. task'.status = 1 => unkept'
        BY <2>1, Zenon
    <2> QED BY <2>2 DEF Kept, Mine
<1> QED BY <1>2, <1>3, <1>4 DEF ExoticEnvironment

LEMMA TaskKept ==
    ASSUME ExoticTyped, Turns, HeldByRun, ExoticTyped', NEW a \in Apps, NEW s \in Slots, NEW c \in Apps,
           TaskStep(a, s)
    PROVE  Kept(c)'
<1> USE EditionFacts
<1>0. /\ turn \in [Apps -> Nat] /\ task \in TaskRow
      /\ hand \in [Apps -> [Slots -> TaskInHand]] /\ unkept \in BOOLEAN /\ unkept' \in BOOLEAN /\ Kept(c)
    BY DEF ExoticTyped, ExoticTypeOK, HeldByRun
<1>1. UNCHANGED <<phase, turn, halt, revision, deleted, scanned>>
    BY DEF TaskStep, ClaimTask, ReadSource, ReadFails, Work, WorkEnds, Precheck, PublishCover, PublishFails,
           FailTask, item
<1>2. PICK t \in TaskInHand : Put(a, s, t)
    <2>1. hand[a][s] \in TaskInHand
        BY <1>0
    <2>2. hand' \in [Apps -> [Slots -> TaskInHand]]
        BY DEF ExoticTyped, ExoticTypeOK
    <2>3. hand' = [hand EXCEPT ![a][s] = hand'[a][s]]
        BY <1>0, <2>2, ZenonT(40) DEF TaskStep, ClaimTask, ReadSource, ReadFails, Work, WorkEnds, Precheck, PublishCover,
                          PublishFails, FailTask, Put, Drop, Move
    <2> QED BY <2>2, <2>3 DEF Put
<1>3. /\ \A d \in Apps : d # a => hand'[d] = hand[d]
      /\ \A u \in Slots : hand'[a][u] = IF u = s THEN t ELSE hand[a][u]
    BY <1>0, <1>2 DEF Put
\* Another run's step leaves this run's row alone, or takes it away.
<1>4. CASE c # a
    <2>1. hand'[c] = hand[c]
        BY <1>3, <1>4
    <2>2. CASE ClaimTask(a, s)
        <3>1. task'.owner = turn[a] /\ phase[a] = "running"
            BY <1>0, <2>2 DEF ClaimTask, ClaimRow, TaskRow
        <3>2. turn[c] # turn[a]
            BY <1>0, <1>4, <3>1 DEF Turns
        <3>3. ~Mine(c)'
            BY <1>1, <3>1, <3>2 DEF Mine
        <3> QED BY <3>3 DEF Kept
    <2>3. CASE ~ClaimTask(a, s)
        <3>1. unkept' = FALSE => unkept = FALSE
            BY <2>3 DEF TaskStep, ReadSource, ReadFails, Work, WorkEnds, Precheck, PublishCover, PublishFails,
                        FailTask
        <3>2. task' = task \/ Mine(a)
            BY <2>3 DEF TaskStep, ReadSource, ReadFails, Work, WorkEnds, Precheck, PublishCover, PublishFails,
                        FailTask, FailRow, CanFinish, row
        <3>3. task' = task \/ (\E q \in BOOLEAN : FailRow(a, q)) \/ \E q \in TaskInHand : FinishRow(a, q)
            <4>1. hand[a][s] \in TaskInHand
                BY <1>0
            <4> QED BY <2>3, <4>1 DEF TaskStep, ReadSource, ReadFails, Work, WorkEnds, Precheck, PublishCover,
                       PublishFails, FailTask, row
        <3>4. CASE task' = task
            BY <1>0, <1>1, <2>1, <3>1, <3>4, KeptStays
        <3>5. CASE task' # task
            <4>1. task'.owner = 0
                <5>1. ASSUME NEW q \in BOOLEAN, FailRow(a, q) PROVE task'.owner = 0
                    <6>1. \E n \in {3, 4} : task' = [task EXCEPT !.attempts = @ + 1, !.owner = 0, !.status = n]
                        BY <3>2, <3>5, <5>1 DEF FailRow
                    <6> QED BY <1>0, <6>1 DEF TaskRow
                <5>2. ASSUME NEW q \in TaskInHand, FinishRow(a, q) PROVE task'.owner = 0
                    BY <1>0, <5>2 DEF FinishRow, TaskRow
                <5> QED BY <3>3, <3>5, <5>1, <5>2
            <4>2. phase'[c] \in {"running", "draining"} => turn'[c] # 0
                BY <1>1 DEF Turns
            <4> QED BY <4>1, <4>2 DEF Kept, Mine
        <3> QED BY <3>4, <3>5
    <2> QED BY <2>2, <2>3
<1>5. CASE c = a
    <2> SUFFICES ASSUME Mine(a)', halt[a] = "no", ~unkept', phase[a] \in {"running", "draining"}
                 PROVE  \E u \in Slots : Holds(hand[a][u])'
        BY <1>1, <1>5 DEF Kept
    \* The claim is this step's own, or an older one that a task still holds.
    <2>1. CASE ClaimTask(a, s)
        <3>1. t.at = "claimed"
            <4>1. hand'[a][s] = [Free EXCEPT !.at = "claimed"]
                BY <1>0, <2>1 DEF ClaimTask, Put
            <4> QED BY <1>3, <4>1 DEF Free
        <3>2. Holds(hand[a][s])'
            BY <1>3, <3>1 DEF Holds
        <3> QED BY <3>2
    <2>2. CASE ~ClaimTask(a, s)
        <3>1. task' = task
            <4>1. ASSUME NEW q \in BOOLEAN, Mine(a), FailRow(a, q) PROVE task'.status \in {3, 4}
                <5>1. \E n \in {3, 4} : task' = [task EXCEPT !.attempts = @ + 1, !.owner = 0, !.status = n]
                    BY <4>1 DEF FailRow
                <5> QED BY <1>0, <5>1 DEF TaskRow
            <4>2. ASSUME NEW q \in TaskInHand, FinishRow(a, q) PROVE task'.status = 2
                BY <1>0, <4>2 DEF FinishRow, TaskRow
            <4>3. (\A q \in BOOLEAN : Mine(a) => ~FailRow(a, q)) /\ \A q \in TaskInHand : ~FinishRow(a, q)
                BY <4>1, <4>2 DEF Mine
            <4>4. hand[a][s] \in TaskInHand
                BY <1>0
            <4>5. task' = task \/ (\E q \in BOOLEAN : FailRow(a, q)) \/ \E q \in TaskInHand : FinishRow(a, q)
                BY <2>2, <4>4 DEF TaskStep, ReadSource, ReadFails, Work, WorkEnds, Precheck, PublishCover,
                       PublishFails, FailTask, row
            <4>6. ~Mine(a) => \A q \in BOOLEAN : FailRow(a, q) => task' = task
                BY DEF FailRow, row
            <4> QED BY <4>3, <4>5, <4>6
        <3>2. Mine(a)
            BY <1>1, <3>1 DEF Mine
        <3>3. ~unkept
            BY <1>0, <2>2 DEF TaskStep, ReadSource, ReadFails, Work, WorkEnds, Precheck, PublishCover,
                    PublishFails, FailTask
        <3>4. PICK u \in Slots : Holds(hand[a][u])
            BY <1>5, <1>0, <3>2, <3>3 DEF Kept
        <3>5. CASE u # s
            <4>1. hand'[a][u] = hand[a][u]
                BY <1>3, <3>5
            <4>2. Holds(hand[a][u])'
                BY <1>1, <3>4, <4>1 DEF Holds, SourceIsCurrent
            <4> QED BY <4>2
        <3>6. CASE u = s
            <4>1. CASE ReadSource(a, s)
                <5>1. ~deleted /\ Put(a, s, [at |-> "ready", rev |-> revision, key |-> scanned, made |-> 0])
                    <6>1. ~FailRow(a, TRUE)
                        <7>1. Mine(a) /\ FailRow(a, TRUE) => task'.status \in {3, 4}
                            <8> HAVE Mine(a) /\ FailRow(a, TRUE)
                            <8>1. \E n \in {3, 4} : task' = [task EXCEPT !.attempts = @ + 1, !.owner = 0, !.status = n]
                                BY DEF FailRow
                            <8> QED BY <1>0, <8>1 DEF TaskRow
                        <7>2. task'.status \notin {3, 4}
                            BY <3>1, <3>2 DEF Mine
                        <7> QED BY <3>2, <7>1, <7>2, Zenon
                    <6> QED BY <4>1, <6>1 DEF ReadSource
                <5>2. hand'[a][s] = [at |-> "ready", rev |-> revision, key |-> scanned, made |-> 0]
                    BY <1>0, <5>1 DEF Put
                <5>3. Holds(hand[a][s])'
                    BY <1>1, <5>1, <5>2 DEF Holds, SourceIsCurrent
                <5> QED BY <5>3
            <4>2. CASE Work(a, s) \/ WorkEnds(a, s) \/ Precheck(a, s) \/ PublishFails(a, s)
                <5>1. hand[a][s].at \in {"ready", "working", "ok", "sink"} /\ SourceIsCurrent(hand[a][s])
                    BY <3>4, <3>6, <4>2 DEF Work, WorkEnds, Precheck, PublishFails, HandAt, Holds
                <5>2. /\ hand'[a][s].at \in {"working", "ok", "retry", "bad", "sink"}
                      /\ hand'[a][s].rev = hand[a][s].rev /\ hand'[a][s].key = hand[a][s].key
                    <6> DEFINE h == hand[a][s]
                    <6>0. h \in TaskInHand
                        BY <1>0
                    <6>1. CASE Work(a, s)
                        <7>1. hand' = [hand EXCEPT ![a][s] = [h EXCEPT !.at = "working", !.made = disk]]
                            BY <4>2, <6>1, <2>2 DEF Work, Put
                        <7>2. hand'[a][s] = [h EXCEPT !.at = "working", !.made = disk]
                            BY <1>0, <7>1
                        <7> QED BY <6>0, <7>2 DEF TaskInHand
                    <6>2. CASE WorkEnds(a, s) \/ Precheck(a, s) \/ PublishFails(a, s)
                        <7>1. PICK p \in {"ok", "retry", "bad", "sink"} : Move(a, s, p)
                            BY <5>1, <6>2 DEF WorkEnds, Precheck, PublishFails
                        <7>2. hand'[a][s] = [h EXCEPT !.at = p]
                            BY <1>0, <7>1 DEF Move, Put
                        <7> QED BY <6>0, <7>2 DEF TaskInHand
                    <6> QED BY <4>2, <6>1, <6>2
                <5>3. Holds(hand[a][s])'
                    BY <1>1, <5>1, <5>2 DEF Holds, SourceIsCurrent
                <5> QED BY <5>3
            <4>3. CASE PublishCover(a, s)
                <5>1. CanFinish(a, hand[a][s])
                    BY <3>2, <3>4, <3>6, <4>3 DEF CanFinish, PublishCover, HandAt, Holds
                <5>2. FinishRow(a, hand[a][s])
                    BY <4>3, <5>1 DEF PublishCover
                <5>3. task'.status = 2
                    BY <1>0, <5>2 DEF FinishRow, TaskRow
                <5> QED BY <5>3 DEF Mine
            <4>4. CASE FailTask(a, s) \/ ReadFails(a, s)
                <5>1. PICK q \in BOOLEAN : FailRow(a, q)
                    BY <4>4, <3>3, <1>0 DEF FailTask, ReadFails
                <5>2. \E n \in {3, 4} : task' = [task EXCEPT !.attempts = @ + 1, !.owner = 0, !.status = n]
                    BY <3>2, <5>1 DEF FailRow
                <5>3. task'.status \in {3, 4}
                    BY <1>0, <5>2 DEF TaskRow
                <5> QED BY <5>3 DEF Mine
            <4> QED BY <2>2, <4>1, <4>2, <4>3, <4>4 DEF TaskStep
        <3> QED BY <3>5, <3>6
    <2> QED BY <2>1, <2>2
<1> QED BY <1>4, <1>5

LEMMA StepHeld ==
    ASSUME ExoticTyped, Turns, HeldByRun, [ExoticNext]_evars
    PROVE  HeldByRun'
<1>1. ExoticTyped'
    BY ExoticStepTyped
<1>2. ASSUME NEW c \in Apps PROVE Kept(c)'
    BY <1>1, RunKept, TaskKept, AroundKept DEF ExoticNext
<1> QED BY <1>2 DEF HeldByRun

\* For all instances, slots and bounds, a row that a live run holds is in its
\* hands.
THEOREM HeldRowsAreInHand == ExoticSpec => []TasksAreHeld
<1>1. ExoticTyped /\ Turns /\ HeldByRun /\ [ExoticNext]_evars => ExoticTyped' /\ Turns' /\ HeldByRun'
    BY ExoticStepTyped, StepTurns, StepHeld
<1> QED BY ExoticInitTyped, InitTurns, InitHeld, HeldTasks, <1>1, PTL DEF ExoticSpec
===============================================================================
