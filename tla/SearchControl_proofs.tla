------------------------- MODULE SearchControl_proofs -------------------------
(***************************************************************************)
(* Proofs about SearchControl, for any searches, commands, layouts and     *)
(* models, any bounds and any steps that may fail.                         *)
(*                                                                         *)
(* The commands enter the proofs only through PlanFacts: a settings write  *)
(* is followed by a revocation, an embeddings write by an invalidation and *)
(* a revocation by a wipe.  StepKeeps says that a command which makes one  *)
(* step still owes its others.  From there each safety property is a       *)
(* conjunct of IInv with one step per action.                              *)
(***************************************************************************)
EXTENDS SearchControl, TLAPS

Searching(r) == ~At(r, "idle")

\* A command that has written embeddings, or is bound to go on, and has the
\* snapshot still to invalidate.  A flush that fails stops before that.
WillInvalidate(o) == Owes(o, "invalidate") /\ (op[o].kind = "flush" => op[o].at > 1)

\* Commands are inside their plan.
InPlan == \A o \in Op : Busy(o) => op[o].at \in 1 .. Len(Plan[op[o].kind])

\* Tickets never run ahead of the counter; a search has one exactly while
\* it is under way.
Tickets ==
    /\ latest <= nextSeq /\ committed <= nextSeq
    /\ \A r \in Request : search[r].seq <= nextSeq
    /\ \A r \in Request : Searching(r) => search[r].seq # None /\ search[r].model \in Model

\* A candidate that would still be installed is up to date, or an
\* invalidation is on its way.
Candidates ==
    \A r \in Request :
        /\ At(r, "install") => search[r].snap.model = search[r].model
                               /\ search[r].snap \in Snapshot
        /\ search[r].seen <= epoch
        /\ At(r, "install") /\ search[r].seen = epoch =>
              \/ search[r].snap.version = emb[search[r].model]
              \/ \E o \in Op : WillInvalidate(o)

Resident ==
    cache # NoSnap => cache \in Snapshot
                      /\ (cache.version = emb[cache.model] \/ \E o \in Op : WillInvalidate(o))

\* What is about to be committed was scored in its own vector space.
Spaces ==
    /\ \A r \in Request : At(r, "commit") => search[r].snap.model = search[r].model
                                             /\ search[r].snap \in Snapshot
    /\ OneVectorSpace

\* The latest search and its result use the configured model, unless a switch
\* has still to revoke them.
LatestModel ==
    Pending("revoke") \/
        /\ \A r \in Request : Searching(r) /\ search[r].seq = latest => search[r].model = active
        /\ committed # None /\ committed = latest => table.by = active

\* After a revocation the table is empty, or the wipe of that very
\* revocation is still to come.
Cleared ==
    nextSeq > 0 /\ latest = None /\ ~wipeFailed =>
        \/ table = NoTable
        \/ \E o \in Op : Owes(o, "wipe") /\ op[o].seq = nextSeq

IInv == TypeOK /\ InPlan /\ Tickets /\ Candidates /\ Resident /\ Spaces /\ LatestModel /\ Cleared

USE SearchAssumption

-----------------------------------------------------------------------------
(* The plans *)

\* Every plan is a non-empty sequence of steps; the configuration of a model
\* is followed by a revocation, a write by an invalidation, a revocation by a
\* wipe; a flush only writes and invalidates.
LEMMA PlanFacts ==
    /\ DOMAIN Plan = {"switch", "reset", "clear", "flush", "scan"}
    /\ "none" \notin DOMAIN Plan
    /\ \A k \in DOMAIN Plan :
         /\ Len(Plan[k]) \in Nat \ {0}
         /\ \A i \in 1 .. Len(Plan[k]) :
              /\ Plan[k][i] = "configure" => \E j \in i + 1 .. Len(Plan[k]) : Plan[k][j] = "revoke"
              /\ Plan[k][i] = "write" => \E j \in i + 1 .. Len(Plan[k]) : Plan[k][j] = "invalidate"
              /\ Plan[k][i] = "revoke" => \E j \in i + 1 .. Len(Plan[k]) : Plan[k][j] = "wipe"
    /\ Len(Plan["flush"]) = 2
    /\ Plan["flush"][1] = "write" /\ Plan["flush"][2] = "invalidate"
<1>1. /\ DOMAIN Plan = {"switch", "reset", "clear", "flush", "scan"}
      /\ "none" \notin DOMAIN Plan
  BY DEF Plan
<1>2. Plan["switch"] = <<"configure", "revoke", "wipe", "invalidate">> /\ Len(Plan["switch"]) = 4
  BY DEF Plan
<1>3. Plan["reset"] = <<"write", "revoke", "invalidate", "wipe">> /\ Len(Plan["reset"]) = 4
  BY DEF Plan
<1>4. Plan["clear"] = <<"revoke", "wipe">> /\ Len(Plan["clear"]) = 2
  BY DEF Plan
<1>5. Plan["flush"] = <<"write", "invalidate">> /\ Len(Plan["flush"]) = 2
  BY DEF Plan
<1> DEFINE Good(k) ==
         /\ Len(Plan[k]) \in Nat \ {0}
         /\ \A i \in 1 .. Len(Plan[k]) :
              /\ Plan[k][i] = "configure" => \E j \in i + 1 .. Len(Plan[k]) : Plan[k][j] = "revoke"
              /\ Plan[k][i] = "write" => \E j \in i + 1 .. Len(Plan[k]) : Plan[k][j] = "invalidate"
              /\ Plan[k][i] = "revoke" => \E j \in i + 1 .. Len(Plan[k]) : Plan[k][j] = "wipe"
<1>6. Good("switch")
  <2>1. Plan["switch"][1] = "configure" /\ Plan["switch"][2] = "revoke"
        /\ Plan["switch"][3] = "wipe" /\ Plan["switch"][4] = "invalidate"
    BY <1>2
  <2>2. \A i \in 1 .. 4 : i = 1 \/ i = 2 \/ i = 3 \/ i = 4
    OBVIOUS
  <2>3. 2 \in 1 + 1 .. 4 /\ 3 \in 2 + 1 .. 4
    OBVIOUS
  <2>. QED  BY <1>2, <2>1, <2>2, <2>3
<1>7. Good("reset")
  <2>1. Plan["reset"][1] = "write" /\ Plan["reset"][2] = "revoke"
        /\ Plan["reset"][3] = "invalidate" /\ Plan["reset"][4] = "wipe"
    BY <1>3
  <2>2. \A i \in 1 .. 4 : i = 1 \/ i = 2 \/ i = 3 \/ i = 4
    OBVIOUS
  <2>3. 3 \in 1 + 1 .. 4 /\ 4 \in 2 + 1 .. 4
    OBVIOUS
  <2>. QED  BY <1>3, <2>1, <2>2, <2>3
<1>8. Good("clear")
  <2>1. Plan["clear"][1] = "revoke" /\ Plan["clear"][2] = "wipe"
    BY <1>4
  <2>2. \A i \in 1 .. 2 : i = 1 \/ i = 2
    OBVIOUS
  <2>. QED  BY <1>4, <2>1, <2>2
<1>9. Good("flush") /\ Plan["flush"][1] = "write" /\ Plan["flush"][2] = "invalidate"
  <2>1. Plan["flush"][1] = "write" /\ Plan["flush"][2] = "invalidate"
    BY <1>5
  <2>2. \A i \in 1 .. 2 : i = 1 \/ i = 2
    OBVIOUS
  <2>. QED  BY <1>5, <2>1, <2>2
<1>11. Good("scan")
  <2>1. Plan["scan"][1] = "drop" /\ Len(Plan["scan"]) = 1
    BY DEF Plan
  <2>2. \A i \in 1 .. 1 : i = 1
    OBVIOUS
  <2>. QED  BY <2>1, <2>2
<1> HIDE DEF Good
<1>10. \A k \in DOMAIN Plan : Good(k)
  BY <1>1, <1>6, <1>7, <1>8, <1>9, <1>11
<1>. QED  BY <1>1, <1>5, <1>9, <1>10 DEF Good

\* A command that does one step of its plan still owes every other kind of
\* step it owed, to the same search ticket, and so does every other command.
LEMMA StepKeeps ==
    ASSUME TypeOK, InPlan, NEW o \in Op, NEW x, Due(o, x), Done(o),
           NEW p \in Op, NEW s, s # x, Owes(p, s)
    PROVE  Owes(p, s)' /\ op'[p].seq = op[p].seq /\ op'[p].kind = op[p].kind
           /\ op'[p].at >= op[p].at
<1>1. CASE p # o
  <2>1. op'[p] = op[p]
    BY <1>1 DEF TypeOK, Done
  <2>2. op[p].at \in Nat
    BY DEF TypeOK, Command
  <2>. QED  BY <2>1, <2>2 DEF Owes, Todo, Busy
<1>2. CASE p = o
  <2>1. PICK i \in Todo(o) : Plan[op[o].kind][i] = s
    BY <1>2 DEF Owes
  <2>2. Busy(o) /\ op[o].at \in Nat /\ op[o].at \in 1 .. Len(Plan[op[o].kind])
        /\ Len(Plan[op[o].kind]) \in Nat
    BY PlanFacts DEF Due, InPlan, TypeOK, Busy
  <2>3. i \in op[o].at .. Len(Plan[op[o].kind]) /\ i # op[o].at
    BY <2>1, <2>2 DEF Todo, Due
  <2>4. op[o].at < Len(Plan[op[o].kind]) /\ i \in op[o].at + 1 .. Len(Plan[op[o].kind])
    BY <2>2, <2>3
  <2>5. op'[o] = [op[o] EXCEPT !.at = op[o].at + 1]
    BY <2>4 DEF Done, After, TypeOK
  <2>6. op'[o].at = op[o].at + 1 /\ op'[o].kind = op[o].kind /\ op'[o].seq = op[o].seq
    BY <2>5 DEF TypeOK
  <2>7. Busy(o)' /\ i \in Todo(o)'
    BY <2>2, <2>4, <2>6 DEF Busy, Todo
  <2>. QED  BY <1>2, <2>1, <2>2, <2>6, <2>7 DEF Owes
<1>. QED  BY <1>1, <1>2

\* The same when the command that moves takes a ticket or does not move.
LEMMA OthersKeep ==
    ASSUME TypeOK, NEW o \in Op, NEW v, op' = [op EXCEPT ![o] = v],
           NEW p \in Op, p # o, NEW s
    PROVE  Owes(p, s)' = Owes(p, s) /\ op'[p] = op[p]
<1>1. op'[p] = op[p]
  BY DEF TypeOK
<1>. QED  BY <1>1 DEF Owes, Todo, Busy

\* What the plan promises after a step is owed once the step is made.
LEMMA StepPromises ==
    ASSUME TypeOK, InPlan, NEW o \in Op, NEW x, Due(o, x), NEW y,
           \A k \in DOMAIN Plan : \A i \in 1 .. Len(Plan[k]) :
               Plan[k][i] = x => \E j \in i + 1 .. Len(Plan[k]) : Plan[k][j] = y,
           op'[o].kind = After(o).kind, op'[o].at = After(o).at
    PROVE  Owes(o, y)' /\ op'[o].at = op[o].at + 1 /\ op'[o].kind = op[o].kind
           /\ op[o].at < Len(Plan[op[o].kind])
<1>1. Busy(o) /\ op[o].at \in 1 .. Len(Plan[op[o].kind]) /\ Plan[op[o].kind][op[o].at] = x
      /\ Len(Plan[op[o].kind]) \in Nat
  BY PlanFacts DEF Due, InPlan, Busy
<1>2. PICK j \in op[o].at + 1 .. Len(Plan[op[o].kind]) : Plan[op[o].kind][j] = y
  BY <1>1 DEF Busy
<1>3. op[o].at < Len(Plan[op[o].kind])
  BY <1>1, <1>2
<1>4. op'[o].at = op[o].at + 1 /\ op'[o].kind = op[o].kind
  BY <1>3 DEF After, TypeOK
<1>. QED  BY <1>1, <1>2, <1>3, <1>4 DEF Owes, Todo, Busy

-----------------------------------------------------------------------------
(* Types *)

\* The locals of a search that moves on, takes the resident snapshot or ends.
LEMMA LocalsType ==
    ASSUME TypeOK, NEW r \in Request
    PROVE  /\ Idle \in Locals
           /\ \A place \in Places : Go(r, place) => search' \in [Request -> Locals]
           /\ End(r) => search' \in [Request -> Locals]
           /\ Take(r) => search' \in [Request -> Locals]
<1>1. Idle \in Locals
  BY DEF Idle, Locals, Places, None
<1>2. search \in [Request -> Locals] /\ search[r] \in Locals
  BY DEF TypeOK
<1>3. \A place \in Places : [search[r] EXCEPT !.at = place] \in Locals
  BY <1>2 DEF Locals
<1>4. \A place \in Places : Go(r, place) => search' \in [Request -> Locals]
  BY <1>2, <1>3 DEF Go
<1>5. End(r) => search' \in [Request -> Locals]
  BY <1>1, <1>2 DEF End
<1>6. ASSUME Take(r) PROVE search' \in [Request -> Locals]
  <2>1. [search[r] EXCEPT !.at = "commit", !.snap = cache] \in Locals
    BY <1>2 DEF TypeOK, Locals, Places
  <2>. QED  BY <1>2, <1>6, <2>1 DEF Take
<1>. QED  BY <1>1, <1>4, <1>5, <1>6

\* Where a search that moves on, takes the resident snapshot or ends is then.
LEMMA Moves ==
    ASSUME TypeOK, NEW r \in Request
    PROVE  /\ \A place : Go(r, place) => /\ search'[r].at = place
                                         /\ search'[r].seen = search[r].seen
           /\ End(r) => search'[r].at = "idle" /\ search'[r].seen = 0
           /\ Take(r) => search'[r].at = "commit" /\ search'[r].seen = search[r].seen
BY DEF Go, End, Take, Idle, TypeOK, Locals

LEMMA SearchTypes ==
    ASSUME TypeOK, Tickets, Spaces, NEW r \in Request, Register(r) \/ SearchStep(r)
    PROVE  TypeOK'
<1>. USE LocalsType DEF TypeOK, gate, stored, slot, None
<1>0. search[r] \in Locals /\ {"encode", "enter", "lookup", "gate", "epoch", "load", "install", "commit"} \subseteq Places
  BY DEF Places
<1>1. CASE Register(r)
  <2>1. Idle \in Locals /\ active \in Model /\ nextSeq + 1 \in Nat
    OBVIOUS
  <2>2. [Idle EXCEPT !.at = "encode", !.seq = nextSeq + 1, !.model = active] \in Locals
    BY <1>0, <2>1 DEF Locals
  <2>. QED  BY <1>1, <2>2 DEF Register
<1>2. CASE Encode(r)
  BY <1>0, <1>2 DEF Encode
<1>3. CASE Enter(r)
  BY <1>0, <1>3 DEF Enter
<1>4. CASE Lookup(r)
  BY <1>0, <1>4 DEF Lookup
<1>5. CASE TakeGate(r)
  BY <1>0, <1>5 DEF TakeGate
<1>6. CASE ReadEpoch(r)
  <2>1. search[r].loads + 1 \in Nat
    BY <1>0 DEF Locals
  <2>2. [search[r] EXCEPT !.at = "load", !.seen = epoch, !.loads = search[r].loads + 1] \in Locals
    BY <1>0, <2>1 DEF Locals
  <2>. QED  BY <1>6, <2>2 DEF ReadEpoch
<1>7. CASE Load(r)
  <2>1. search[r].model \in Model
    BY <1>7 DEF Load, Tickets, Searching, At
  <2>2. [model |-> search[r].model, version |-> emb[search[r].model], dropped |-> dropped] \in Snapshot
    BY <2>1 DEF Snapshot
  <2>3. [search[r] EXCEPT !.at = "install",
             !.snap = [model |-> search[r].model, version |-> emb[search[r].model], dropped |-> dropped]] \in Locals
    BY <1>0, <2>2 DEF Locals
  <2>. QED  BY <1>7, <2>3 DEF Load
<1>8. CASE LoadFails(r)
  BY <1>8 DEF LoadFails, Release
<1>9. CASE Install(r)
  <2>1. search[r].snap \in Snapshot \cup {NoSnap}
    BY <1>0 DEF Locals
  <2>. QED  BY <1>0, <1>9, <2>1 DEF Install, Release
<1>10. CASE Discard(r)
  BY <1>0, <1>10 DEF Discard, Release
<1>11. CASE Commit(r)
  <2>1. [by |-> search[r].model, space |-> search[r].snap] \in Result
    BY <1>11 DEF Commit, Tickets, Searching, Spaces, Result, At
  <2>. QED  BY <1>0, <1>11, <2>1 DEF Commit, Locals
<1>12. CASE NoCommit(r)
  BY <1>12 DEF NoCommit
<1>. QED  BY <1>1, <1>2, <1>3, <1>4, <1>5, <1>6, <1>7, <1>8, <1>9, <1>10, <1>11, <1>12 DEF SearchStep

LEMMA AfterType ==
    ASSUME TypeOK, NEW o \in Op
    PROVE  After(o) \in Command /\ NoOp \in Command
<1>1. NoOp \in Command
  BY DEF NoOp, Command, None
<1>2. op[o] \in Command
  BY DEF TypeOK
<1>3. [op[o] EXCEPT !.at = op[o].at + 1] \in Command
  BY <1>2 DEF Command
<1>. QED  BY <1>1, <1>2, <1>3 DEF After

LEMMA OpTypes ==
    ASSUME TypeOK, NEW o \in Op, OpStep(o) \/ \E k \in Kinds : Begin(o, k)
    PROVE  TypeOK'
<1>. USE AfterType DEF TypeOK, gate, stored, slot, None, Done
<1>1. CASE \E k \in Kinds : Begin(o, k)
  <2>1. PICK k \in Kinds : Begin(o, k)
    BY <1>1
  <2>2. [kind |-> k, at |-> 1, seq |-> None] \in Command
    BY DEF Command
  <2>. QED  BY <2>1, <2>2 DEF Begin
<1>2. CASE Configure(o)
  BY <1>2 DEF Configure
<1>3. CASE Write(o)
  BY <1>3 DEF Write
<1>4. CASE WriteFails(o)
  BY <1>4 DEF WriteFails
<1>5. CASE Revoke(o)
  <2>1. [After(o) EXCEPT !.seq = nextSeq + 1] \in Command
    BY DEF Command
  <2>2. wipeFailed' \in BOOLEAN
    BY <1>5, Zenon DEF Revoke
  <2>. QED  BY <1>5, <2>1, <2>2 DEF Revoke
<1>6. CASE Invalidate(o)
  BY <1>6 DEF Invalidate
<1>7. CASE Wipe(o)
  BY <1>7 DEF Wipe
<1>8. CASE WipeFails(o)
  BY <1>8 DEF WipeFails
<1>9. CASE Drop(o)
  BY <1>9 DEF Drop
<1>. QED  BY <1>1, <1>2, <1>3, <1>4, <1>5, <1>6, <1>7, <1>8, <1>9 DEF OpStep

LEMMA ViewTypes ==
    ASSUME TypeOK, NEW v \in View, Probe(v) \/ Query(v) \/ Publish(v)
    PROVE  TypeOK'
<1>. USE DEF TypeOK, gate, stored, slot
<1>0. view[v] \in Layout
  OBVIOUS
<1>1. CASE Probe(v)
  <2>1. [view[v] EXCEPT !.at = "query", !.expected = committed] \in Layout
    BY <1>0 DEF Layout
  <2>. QED  BY <1>1, <2>1 DEF Probe
<1>2. CASE Query(v)
  <2>1. [view[v] EXCEPT !.at = "publish", !.rows = table] \in Layout
    BY <1>0 DEF Layout
  <2>. QED  BY <1>2, <2>1 DEF Query
<1>3. CASE Publish(v)
  <2>1. NoView \in Layout /\ view[v].rows \in Result \cup {NoTable}
    BY <1>0 DEF Layout, NoView, None
  <2>. QED  BY <1>3, <2>1 DEF Publish
<1>. QED  BY <1>1, <1>2, <1>3

LEMMA TypesKept == IInv /\ [Next]_vars => TypeOK'
<1> SUFFICES ASSUME IInv, [Next]_vars PROVE TypeOK'
  OBVIOUS
<1>0. TypeOK /\ Tickets /\ Spaces
  BY DEF IInv
<1>1. CASE \E r \in Request : Register(r) \/ SearchStep(r)
  BY <1>0, <1>1, SearchTypes
<1>2. CASE \E o \in Op : OpStep(o) \/ \E k \in Kinds : Begin(o, k)
  BY <1>0, <1>2, OpTypes
<1>3. CASE \E v \in View : Probe(v) \/ Query(v) \/ Publish(v)
  BY <1>0, <1>3, ViewTypes
<1>4. CASE UNCHANGED vars
  BY <1>0, <1>4 DEF vars, gate, stored, slot, TypeOK
<1>. QED  BY <1>1, <1>2, <1>3, <1>4 DEF Next

-----------------------------------------------------------------------------
(* Bookkeeping: plans and tickets *)

\* A step by a search or a layout changes nothing a command owes.
LEMMA OpFrame ==
    ASSUME UNCHANGED op
    PROVE  /\ \A o \in Op : \A s : Owes(o, s)' = Owes(o, s)
           /\ \A o \in Op : WillInvalidate(o)' = WillInvalidate(o)
           /\ \A s : Pending(s)' = Pending(s)
           /\ InPlan' = InPlan
BY DEF Owes, Todo, Busy, WillInvalidate, Pending, InPlan

\* Only the searches and the layouts leave the commands alone.
LEMMA OpMoves ==
    ASSUME [Next]_vars
    PROVE  UNCHANGED op \/ \E o \in Op : OpStep(o) \/ \E k \in Kinds : Begin(o, k)
BY DEF Next, vars, Register, SearchStep, Encode, Enter, Lookup, TakeGate, ReadEpoch, Load,
       LoadFails, Install, Discard, Commit, NoCommit, Probe, Query, Publish

LEMMA InPlanKept == IInv /\ [Next]_vars => InPlan'
<1> SUFFICES ASSUME IInv, [Next]_vars PROVE InPlan'
  OBVIOUS
<1>0. TypeOK /\ InPlan
  BY DEF IInv
<1>1. CASE UNCHANGED op
  BY <1>0, <1>1, OpFrame
<1>2. ASSUME NEW o \in Op, OpStep(o) \/ \E k \in Kinds : Begin(o, k) PROVE InPlan'
  <2>1. /\ op'[o].kind \in DOMAIN Plan => op'[o].at \in 1 .. Len(Plan[op'[o].kind])
        /\ \A p \in Op : p # o => op'[p] = op[p]
    <3>1. CASE \E k \in Kinds : Begin(o, k)
      BY <1>0, <3>1, PlanFacts DEF Begin, TypeOK
    <3>2. ASSUME NEW x, Due(o, x)
          PROVE  After(o).kind \in DOMAIN Plan => After(o).at \in 1 .. Len(Plan[After(o).kind])
      <4>1. op[o].at \in 1 .. Len(Plan[op[o].kind]) /\ Len(Plan[op[o].kind]) \in Nat
        BY <1>0, <3>2, PlanFacts DEF InPlan, Due, Busy
      <4>2. NoOp.kind = "none"
        BY DEF NoOp
      <4>3. CASE op[o].at < Len(Plan[op[o].kind])
        <5>1. After(o).at = op[o].at + 1 /\ After(o).kind = op[o].kind
          BY <1>0, <4>3 DEF After, TypeOK, Command
        <5>. QED  BY <4>1, <4>3, <5>1
      <4>4. CASE ~(op[o].at < Len(Plan[op[o].kind]))
        BY <4>2, <4>4, PlanFacts DEF After
      <4>. QED  BY <4>3, <4>4
    <3>3. CASE \E x : Due(o, x) /\ Done(o)
      BY <1>0, <3>2, <3>3 DEF Done, TypeOK
    <3>4. CASE Revoke(o)
      BY <1>0, <3>2, <3>4, AfterType DEF Revoke, TypeOK, Command
    <3>5. CASE UNCHANGED op /\ \E x : Due(o, x)
      BY <1>0, <3>5 DEF InPlan, Busy, Due
    <3>6. CASE op' = [op EXCEPT ![o] = NoOp]
      BY <1>0, <3>6, PlanFacts DEF NoOp, TypeOK
    <3>. QED  BY <1>2, <3>1, <3>3, <3>4, <3>5, <3>6 DEF OpStep, Configure, Write, WriteFails, Drop, Invalidate, Wipe, WipeFails
  <2>. QED  BY <1>0, <2>1 DEF InPlan, Busy
<1>. QED  BY <1>1, <1>2, OpMoves

LEMMA TicketsKept == IInv /\ [Next]_vars => Tickets'
<1> SUFFICES ASSUME IInv, [Next]_vars PROVE Tickets'
  OBVIOUS
<1>0. TypeOK /\ Tickets
  BY DEF IInv
<1>. USE DEF Tickets, Searching, At
<1>1. CASE \E r \in Request : Register(r)
  <2>1. PICK r \in Request : Register(r)
    BY <1>1
  <2>2. search'[r].seq = nextSeq + 1 /\ search'[r].model = active
        /\ \A q \in Request : q # r => search'[q] = search[q]
    BY <1>0, <2>1 DEF Register, TypeOK, Idle
  <2>. QED  BY <1>0, <2>1, <2>2 DEF Register, TypeOK, Locals, None
<1>2. CASE \E r \in Request : SearchStep(r)
  <2>1. PICK r \in Request : SearchStep(r)
    BY <1>2
  <2>2. /\ search'[r] = Idle \/ (Searching(r) /\ search'[r].seq = search[r].seq
                                  /\ search'[r].model = search[r].model)
        /\ \A q \in Request : q # r => search'[q] = search[q]
    BY <1>0, <2>1 DEF SearchStep, Encode, Enter, Lookup, TakeGate, ReadEpoch, Load, LoadFails,
       Install, Discard, Commit, NoCommit, Go, End, Take, TypeOK, Locals
  <2>3. UNCHANGED <<nextSeq, latest>> /\ (UNCHANGED committed \/ committed' = search[r].seq)
    BY <2>1 DEF SearchStep, Encode, Enter, Lookup, TakeGate, ReadEpoch, Load, LoadFails,
       Install, Discard, Commit, NoCommit, gate, stored
  <2>. QED  BY <1>0, <2>2, <2>3 DEF Idle, TypeOK, None
<1>3. CASE \E o \in Op : OpStep(o) \/ \E k \in Kinds : Begin(o, k)
  <2>1. UNCHANGED search
    BY <1>3 DEF OpStep, Begin, Configure, Write, WriteFails, Drop, Revoke, Invalidate, Wipe, WipeFails
  <2>2. UNCHANGED <<nextSeq, latest, committed>>
        \/ (nextSeq' = nextSeq + 1 /\ latest' = None /\ UNCHANGED committed)
        \/ (committed' = None /\ UNCHANGED <<nextSeq, latest>>)
    BY <1>3 DEF OpStep, Begin, Configure, Write, WriteFails, Drop, Revoke, Invalidate, Wipe, WipeFails, gate, stored
  <2>. QED  BY <1>0, <2>1, <2>2 DEF TypeOK, None, Locals
<1>4. CASE (\E v \in View : Probe(v) \/ Query(v) \/ Publish(v)) \/ UNCHANGED vars
  <2>1. UNCHANGED <<nextSeq, latest, committed, search>>
    BY <1>4 DEF Probe, Query, Publish, gate, stored, vars
  <2>. QED  BY <1>0, <2>1
<1>. QED  BY <1>1, <1>2, <1>3, <1>4 DEF Next

-----------------------------------------------------------------------------
(* The resident snapshot *)

\* A write or a reset's failed batch keeps every promised invalidation.
LEMMA InvalidationKept ==
    ASSUME IInv, NEW o \in Op, NEW x, Due(o, x), x # "invalidate",
           Done(o) \/ UNCHANGED op, NEW p \in Op, WillInvalidate(p)
    PROVE  WillInvalidate(p)'
<1>0. TypeOK /\ InPlan
  BY DEF IInv
<1>1. CASE UNCHANGED op
  BY <1>1, OpFrame
<1>2. CASE Done(o)
  <2>1. Owes(p, "invalidate")' /\ op'[p].kind = op[p].kind /\ op'[p].at >= op[p].at
    BY <1>0, <1>2, StepKeeps DEF WillInvalidate
  <2>2. op[p].at \in Nat /\ op'[p].at \in Nat
    BY <1>0, <1>2, AfterType DEF TypeOK, Command, Done
  <2>. QED  BY <2>1, <2>2 DEF WillInvalidate
<1>. QED  BY <1>1, <1>2

\* A write promises one.
LEMMA WritePromises ==
    ASSUME IInv, NEW o \in Op, Write(o)
    PROVE  WillInvalidate(o)'
<1>0. TypeOK /\ InPlan /\ Due(o, "write")
  BY DEF IInv, Write
<1>1. CASE Done(o)
  <2>1. op'[o] = After(o)
    BY <1>0, <1>1 DEF Done, TypeOK
  <2>4. \A k \in DOMAIN Plan : \A i \in 1 .. Len(Plan[k]) :
          Plan[k][i] = "write" => \E j \in i + 1 .. Len(Plan[k]) : Plan[k][j] = "invalidate"
    BY PlanFacts
  <2>2. Owes(o, "invalidate")' /\ op'[o].at = op[o].at + 1
    BY <1>0, <2>1, <2>4, StepPromises
  <2>3. op[o].at \in Nat /\ op[o].at >= 1
    BY <1>0, PlanFacts DEF Due, InPlan
  <2>. QED  BY <2>2, <2>3 DEF WillInvalidate
<1>2. CASE op[o].kind = "reset" /\ UNCHANGED op
  <2>1. op[o].at \in 1 .. Len(Plan[op[o].kind]) /\ Len(Plan[op[o].kind]) \in Nat /\ Busy(o)
        /\ Plan[op[o].kind][op[o].at] = "write"
    BY <1>0, PlanFacts DEF Due, InPlan, Busy
  <2>2. PICK j \in op[o].at + 1 .. Len(Plan[op[o].kind]) : Plan[op[o].kind][j] = "invalidate"
    BY <2>1, PlanFacts DEF Busy
  <2>3. Owes(o, "invalidate")
    BY <2>1, <2>2 DEF Owes, Todo
  <2>. QED  BY <1>2, <2>3, OpFrame DEF WillInvalidate
<1>. QED  BY <1>1, <1>2 DEF Write

\* Whatever a command does other than invalidating, an invalidation that was
\* promised stays promised.
LEMMA PromiseStays ==
    ASSUME IInv, NEW o \in Op, OpStep(o) \/ (\E k \in Kinds : Begin(o, k)), ~Invalidate(o),
           NEW p \in Op, WillInvalidate(p)
    PROVE  WillInvalidate(p)'
<1>0. TypeOK /\ InPlan
  BY DEF IInv
<1>1. CASE \E k \in Kinds : Begin(o, k)
  <2>1. ~Busy(o)
    BY <1>1, PlanFacts DEF Begin, Busy, NoOp
  <2>2. p # o
    BY <2>1 DEF WillInvalidate, Owes, Todo
  <2>. QED  BY <1>0, <1>1, <2>2, OthersKeep DEF Begin, WillInvalidate
<1>2. CASE Configure(o)
  BY <1>2, InvalidationKept DEF Configure
<1>3. CASE Write(o)
  BY <1>3, InvalidationKept DEF Write
<1>4. CASE WriteFails(o)
  <2>1. CASE Done(o)
    BY <1>4, <2>1, InvalidationKept DEF WriteFails
  <2>2. CASE op[o].kind = "flush" /\ op' = [op EXCEPT ![o] = NoOp]
    <3>1. Plan["flush"][op[o].at] = "write" /\ op[o].at \in 1 .. 2
      BY <1>0, <1>4, <2>2, PlanFacts DEF WriteFails, Due, InPlan
    <3>2. op[o].at = 1
      BY <3>1, PlanFacts
    <3>3. p # o
      BY <2>2, <3>2 DEF WillInvalidate
    <3>. QED  BY <1>0, <2>2, <3>3, OthersKeep DEF WillInvalidate
  <2>. QED  BY <1>4, <2>1, <2>2 DEF WriteFails
<1>5. CASE Revoke(o)
  <2>1. CASE p # o
    BY <1>0, <1>5, <2>1, OthersKeep DEF Revoke, WillInvalidate
  <2>2. CASE p = o
    <3>1. Owes(o, "invalidate") /\ Due(o, "revoke") /\ Busy(o) /\ op[o].kind \in DOMAIN Plan
          /\ op[o].at \in 1 .. Len(Plan[op[o].kind]) /\ Len(Plan[op[o].kind]) \in Nat
      BY <1>0, <1>5, <2>2, PlanFacts DEF Revoke, WillInvalidate, Due, InPlan, Busy
    <3>2. PICK j \in op[o].at .. Len(Plan[op[o].kind]) : Plan[op[o].kind][j] = "invalidate"
      BY <3>1 DEF Owes, Todo
    <3>3. j # op[o].at
      BY <3>1, <3>2 DEF Due
    <3>4. op[o].at < Len(Plan[op[o].kind]) /\ j \in op[o].at + 1 .. Len(Plan[op[o].kind])
      BY <3>1, <3>2, <3>3
    <3>5. After(o).at = op[o].at + 1 /\ After(o).kind = op[o].kind
      BY <1>0, <3>4 DEF After, TypeOK, Command
    <3>6. op'[o].at = op[o].at + 1 /\ op'[o].kind = op[o].kind
      BY <1>0, <1>5, <3>5, AfterType DEF Revoke, TypeOK, Command
    <3>. QED  BY <2>2, <3>1, <3>2, <3>4, <3>6 DEF WillInvalidate, Owes, Todo, Busy
  <2>. QED  BY <2>1, <2>2
<1>6. CASE Wipe(o)
  BY <1>6, InvalidationKept DEF Wipe
<1>7. CASE WipeFails(o)
  BY <1>7, InvalidationKept DEF WipeFails
<1>8. CASE Drop(o)
  BY <1>8, InvalidationKept DEF Drop
<1>. QED  BY <1>1, <1>2, <1>3, <1>4, <1>5, <1>6, <1>7, <1>8 DEF OpStep

LEMMA ResidentKept == IInv /\ [Next]_vars => Resident'
<1> SUFFICES ASSUME IInv, [Next]_vars PROVE Resident'
  OBVIOUS
<1>0. TypeOK /\ Candidates /\ Resident
  BY DEF IInv
<1>1. CASE \E r \in Request : Register(r) \/ SearchStep(r)
  <2>1. PICK r \in Request : Register(r) \/ SearchStep(r)
    BY <1>1
  <2>2. UNCHANGED <<emb, op>> /\ (UNCHANGED cache \/ Install(r))
    BY <2>1 DEF Register, SearchStep, Encode, Enter, Lookup, TakeGate, ReadEpoch, Load, LoadFails,
       Discard, Commit, NoCommit, Install, slot, stored
  <2>3. CASE UNCHANGED cache
    BY <1>0, <2>2, <2>3, OpFrame DEF Resident
  <2>4. CASE Install(r) /\ cache' = search[r].snap
    <3>1. search[r].snap \in Snapshot /\ search[r].snap.model = search[r].model
          /\ (search[r].snap.version = emb[search[r].model] \/ \E o \in Op : WillInvalidate(o))
      BY <1>0, <2>4 DEF Install, Candidates
    <3>. QED  BY <2>2, <2>4, <3>1, OpFrame DEF Resident
  <2>. QED  BY <2>2, <2>3, <2>4 DEF Install
<1>2. CASE \E o \in Op : OpStep(o) \/ \E k \in Kinds : Begin(o, k)
  <2>1. PICK o \in Op : OpStep(o) \/ \E k \in Kinds : Begin(o, k)
    BY <1>2
  <2>2. CASE Invalidate(o)
    BY <2>2 DEF Invalidate, Resident
  <2>3. CASE ~Invalidate(o)
    <3>1. UNCHANGED cache
      BY <2>1, <2>3 DEF OpStep, Begin, Configure, Write, WriteFails, Drop, Revoke, Wipe, WipeFails, slot, stored
    <3>2. UNCHANGED emb \/ Write(o)
      BY <2>1, <2>3 DEF OpStep, Begin, Configure, WriteFails, Drop, Revoke, Wipe, WipeFails, stored
    <3>3. (\E p \in Op : WillInvalidate(p)) => \E p \in Op : WillInvalidate(p)'
      BY <2>1, <2>3, PromiseStays
    <3>4. Write(o) => WillInvalidate(o)'
      BY WritePromises
    <3>. QED  BY <1>0, <3>1, <3>2, <3>3, <3>4 DEF Resident
  <2>. QED  BY <2>2, <2>3
<1>3. CASE (\E v \in View : Probe(v) \/ Query(v) \/ Publish(v)) \/ UNCHANGED vars
  <2>1. UNCHANGED <<cache, emb, op>>
    BY <1>3 DEF Probe, Query, Publish, slot, stored, vars
  <2>. QED  BY <1>0, <2>1, OpFrame DEF Resident
<1>. QED  BY <1>1, <1>2, <1>3 DEF Next

LEMMA CandidatesKept == IInv /\ [Next]_vars => Candidates'
<1> SUFFICES ASSUME IInv, [Next]_vars PROVE Candidates'
  OBVIOUS
<1>0. TypeOK /\ Candidates /\ Tickets
  BY DEF IInv
<1>1. CASE \E r \in Request : Register(r) \/ SearchStep(r)
  <2>1. PICK r \in Request : Register(r) \/ SearchStep(r)
    BY <1>1
  <2>2. UNCHANGED <<emb, op, epoch>> /\ \A q \in Request : q # r => search'[q] = search[q]
    BY <1>0, <2>1 DEF Register, SearchStep, Encode, Enter, Lookup, TakeGate, ReadEpoch, Load,
       LoadFails, Install, Discard, Commit, NoCommit, slot, stored, Go, End, Take, TypeOK
  <2>3. CASE Load(r)
    <3>1. search[r].model \in Model
      BY <1>0, <2>3 DEF Load, Tickets, Searching, At
    <3>2. search'[r].snap = [model |-> search[r].model, version |-> emb[search[r].model], dropped |-> dropped]
          /\ search'[r].model = search[r].model /\ search'[r].seen = search[r].seen
      BY <1>0, <2>3 DEF Load, TypeOK, Locals
    <3>3. search'[r].snap \in Snapshot
      BY <1>0, <3>1, <3>2 DEF Snapshot, TypeOK
    <3>. QED  BY <1>0, <2>2, <3>2, <3>3, OpFrame DEF Candidates, At
  <2>4. CASE ~Load(r)
    <3>1. search'[r].at # "install" /\ search'[r].seen \in {search[r].seen, epoch, 0}
      <4>1. CASE Register(r)
        BY <1>0, <4>1, Moves DEF Register, TypeOK, Locals, Idle
      <4>2. CASE Encode(r)
        BY <1>0, <4>2, Moves DEF Encode
      <4>3. CASE Enter(r)
        BY <1>0, <4>3, Moves DEF Enter
      <4>4. CASE Lookup(r)
        BY <1>0, <4>4, Moves DEF Lookup
      <4>5. CASE TakeGate(r)
        BY <1>0, <4>5, Moves DEF TakeGate
      <4>6. CASE ReadEpoch(r)
        BY <1>0, <4>6, Moves DEF ReadEpoch, TypeOK, Locals
      <4>7. CASE LoadFails(r)
        BY <1>0, <4>7, Moves DEF LoadFails
      <4>8. CASE Install(r)
        BY <1>0, <4>8, Moves DEF Install
      <4>9. CASE Discard(r)
        BY <1>0, <4>9, Moves DEF Discard
      <4>10. CASE Commit(r)
        BY <1>0, <4>10, Moves DEF Commit
      <4>11. CASE NoCommit(r)
        BY <1>0, <4>11, Moves DEF NoCommit
      <4>. QED  BY <2>1, <2>4, <4>1, <4>2, <4>3, <4>4, <4>5, <4>6, <4>7, <4>8, <4>9, <4>10, <4>11 DEF SearchStep
    <3>. QED  BY <1>0, <2>2, <3>1, OpFrame DEF Candidates, At, TypeOK
  <2>. QED  BY <2>3, <2>4
<1>2. CASE \E o \in Op : OpStep(o) \/ \E k \in Kinds : Begin(o, k)
  <2>1. PICK o \in Op : OpStep(o) \/ \E k \in Kinds : Begin(o, k)
    BY <1>2
  <2>2. UNCHANGED search
    BY <2>1 DEF OpStep, Begin, Configure, Write, WriteFails, Drop, Revoke, Invalidate, Wipe, WipeFails
  <2>3. CASE Invalidate(o)
    <3>1. epoch' = epoch + 1 /\ epoch \in Nat /\ \A r \in Request : search[r].seen \in Nat
      BY <1>0, <2>3 DEF Invalidate, TypeOK, Locals
    <3>. QED  BY <1>0, <2>2, <3>1 DEF Candidates, At
  <2>4. CASE ~Invalidate(o)
    <3>1. UNCHANGED epoch
      BY <2>1, <2>4 DEF OpStep, Begin, Configure, Write, WriteFails, Drop, Revoke, Wipe, WipeFails, slot, stored
    <3>2. UNCHANGED emb \/ Write(o)
      BY <2>1, <2>4 DEF OpStep, Begin, Configure, WriteFails, Drop, Revoke, Wipe, WipeFails, stored
    <3>3. (\E p \in Op : WillInvalidate(p)) => \E p \in Op : WillInvalidate(p)'
      BY <2>1, <2>4, PromiseStays
    <3>4. Write(o) => WillInvalidate(o)'
      BY WritePromises
    <3>. QED  BY <1>0, <2>2, <3>1, <3>2, <3>3, <3>4 DEF Candidates, At
  <2>. QED  BY <2>3, <2>4
<1>3. CASE (\E v \in View : Probe(v) \/ Query(v) \/ Publish(v)) \/ UNCHANGED vars
  <2>1. UNCHANGED <<search, epoch, emb, op>>
    BY <1>3 DEF Probe, Query, Publish, slot, stored, vars
  <2>. QED  BY <1>0, <2>1, OpFrame DEF Candidates, At
<1>. QED  BY <1>1, <1>2, <1>3 DEF Next

-----------------------------------------------------------------------------
(* Vector spaces, the latest result, and clears *)

LEMMA SpacesKept == IInv /\ [Next]_vars => Spaces'
<1> SUFFICES ASSUME IInv, [Next]_vars PROVE Spaces'
  OBVIOUS
<1>0. TypeOK /\ Candidates /\ Tickets /\ Spaces /\ Resident
  BY DEF IInv
<1>1. CASE \E r \in Request : Register(r) \/ SearchStep(r)
  <2>1. PICK r \in Request : Register(r) \/ SearchStep(r)
    BY <1>1
  <2>2. \A q \in Request : q # r => search'[q] = search[q]
    BY <1>0, <2>1 DEF Register, SearchStep, Encode, Enter, Lookup, TakeGate, ReadEpoch, Load,
       LoadFails, Install, Discard, Commit, NoCommit, Go, End, Take, TypeOK
  <2>3. UNCHANGED table \/ (At(r, "commit") /\ table' = [by |-> search[r].model, space |-> search[r].snap])
    BY <2>1 DEF Register, SearchStep, Encode, Enter, Lookup, TakeGate, ReadEpoch, Load,
       LoadFails, Install, Discard, Commit, NoCommit, gate, stored
  <2>4. OneVectorSpace'
    BY <1>0, <2>3 DEF Spaces, OneVectorSpace
  <2>5. At(r, "commit")' => search'[r].snap.model = search'[r].model /\ search'[r].snap \in Snapshot
    <3>1. ASSUME Take(r), Matches(r), ~At(r, "idle")
          PROVE  search'[r].snap.model = search'[r].model /\ search'[r].snap \in Snapshot
      <4>1. cache # NoSnap /\ cache \in Snapshot /\ cache.model = search[r].model
        BY <1>0, <3>1 DEF Matches, Tickets, Searching, NoSnap, TypeOK
      <4>2. search'[r].snap = cache /\ search'[r].model = search[r].model
        BY <1>0, <3>1 DEF Take, TypeOK, Locals
      <4>. QED  BY <4>1, <4>2
    <3>2. ASSUME Go(r, "commit"), At(r, "install")
          PROVE  search'[r].snap.model = search'[r].model /\ search'[r].snap \in Snapshot
      BY <1>0, <3>2 DEF Go, Candidates, TypeOK, Locals
    <3>3. \/ Take(r) /\ Matches(r) /\ ~At(r, "idle")
          \/ Go(r, "commit") /\ At(r, "install")
          \/ search'[r].at # "commit"
      <4>1. CASE Register(r)
        BY <1>0, <4>1, Moves DEF Register, TypeOK, Locals, Idle, At
      <4>2. CASE Encode(r)
        BY <1>0, <4>2, Moves DEF Encode, At
      <4>3. CASE Enter(r)
        BY <1>0, <4>3, Moves DEF Enter, At
      <4>4. CASE Lookup(r)
        BY <1>0, <4>4, Moves DEF Lookup, At
      <4>5. CASE TakeGate(r)
        BY <1>0, <4>5, Moves DEF TakeGate, At
      <4>6. CASE ReadEpoch(r)
        BY <1>0, <4>6, Moves DEF ReadEpoch, TypeOK, Locals, At
      <4>7. CASE Load(r)
        BY <1>0, <4>7, Moves DEF Load, TypeOK, Locals, At
      <4>8. CASE LoadFails(r)
        BY <1>0, <4>8, Moves DEF LoadFails, At
      <4>9. CASE Install(r)
        BY <1>0, <4>9, Moves DEF Install, At
      <4>10. CASE Discard(r)
        BY <1>0, <4>10, Moves DEF Discard, At
      <4>11. CASE Commit(r)
        BY <1>0, <4>11, Moves DEF Commit, At
      <4>12. CASE NoCommit(r)
        BY <1>0, <4>12, Moves DEF NoCommit, At
      <4>. QED  BY <2>1, <4>1, <4>2, <4>3, <4>4, <4>5, <4>6, <4>7, <4>8, <4>9, <4>10, <4>11, <4>12 DEF SearchStep
    <3>. QED  BY <3>1, <3>2, <3>3 DEF At
  <2>. QED  BY <1>0, <2>2, <2>4, <2>5 DEF Spaces, At
<1>2. CASE ~\E r \in Request : Register(r) \/ SearchStep(r)
  <2>1. UNCHANGED search /\ (UNCHANGED table \/ table' = NoTable)
    BY <1>2 DEF Next, vars, OpStep, Begin, Configure, Write, WriteFails, Drop, Revoke, Invalidate, Wipe,
       WipeFails, Probe, Query, Publish, gate, stored
  <2>. QED  BY <1>0, <2>1 DEF Spaces, OneVectorSpace, At
<1>. QED  BY <1>1, <1>2

\* A command other than one that revokes leaves every revocation pending.
LEMMA RevocationPending ==
    ASSUME IInv, NEW o \in Op, OpStep(o) \/ (\E k \in Kinds : Begin(o, k)), ~Revoke(o),
           NEW p \in Op, NEW s \in {"revoke", "wipe"}, Owes(p, s), s = "wipe" => ~Wipe(o) /\ ~WipeFails(o)
    PROVE  Owes(p, s)' /\ op'[p].seq = op[p].seq
<1>0. TypeOK /\ InPlan
  BY DEF IInv
<1>1. CASE \E k \in Kinds : Begin(o, k)
  <2>1. ~Busy(o)
    BY <1>1, PlanFacts DEF Begin, Busy, NoOp
  <2>2. p # o
    BY <2>1 DEF Owes, Todo
  <2>. QED  BY <1>0, <1>1, <2>2, OthersKeep DEF Begin
<1>2. CASE UNCHANGED op
  BY <1>2, OpFrame
<1>3. ASSUME NEW x, Due(o, x), Done(o), x # s PROVE Owes(p, s)' /\ op'[p].seq = op[p].seq
  BY <1>0, <1>3, StepKeeps
<1>4. CASE WriteFails(o) /\ op[o].kind = "flush" /\ op' = [op EXCEPT ![o] = NoOp]
  <2>1. ~Owes(o, s)
    <3>1. \A i \in 1 .. 2 : Plan["flush"][i] # s
      BY PlanFacts
    <3>2. op[o].at \in 1 .. 2
      BY <1>0, <1>4, PlanFacts DEF WriteFails, Due, InPlan
    <3>. QED  BY <1>4, <3>1, <3>2, PlanFacts DEF Owes, Todo, Busy
  <2>2. p # o
    BY <2>1
  <2>. QED  BY <1>0, <1>4, <2>2, OthersKeep
<1>. QED  BY <1>1, <1>2, <1>3, <1>4 DEF OpStep, Configure, Write, WriteFails, Drop, Invalidate, Wipe, WipeFails

LEMMA LatestKept == IInv /\ [Next]_vars => LatestModel'
<1> SUFFICES ASSUME IInv, [Next]_vars PROVE LatestModel'
  OBVIOUS
<1>0. TypeOK /\ InPlan /\ Tickets /\ LatestModel
  BY DEF IInv
<1>1. CASE \E r \in Request : Register(r)
  <2>1. PICK r \in Request : Register(r)
    BY <1>1
  <2>2. search'[r].model = active /\ \A q \in Request : q # r => search'[q] = search[q]
    BY <1>0, <2>1 DEF Register, TypeOK, Idle
  <2>3. latest' = nextSeq + 1 /\ UNCHANGED <<active, committed>>
    BY <2>1 DEF Register
  <2>4. \A q \in Request : search[q].seq # latest'
    BY <1>0, <2>3 DEF Tickets, TypeOK, Locals
  <2>5. committed' # latest'
    BY <1>0, <2>3 DEF Tickets, TypeOK
  <2>. QED  BY <2>2, <2>3, <2>4, <2>5 DEF LatestModel
<1>2. CASE \E r \in Request : SearchStep(r)
  <2>1. PICK r \in Request : SearchStep(r)
    BY <1>2
  <2>2. /\ search'[r] = Idle \/ (Searching(r) /\ search'[r].seq = search[r].seq
                                  /\ search'[r].model = search[r].model)
        /\ \A q \in Request : q # r => search'[q] = search[q]
    BY <1>0, <2>1 DEF SearchStep, Encode, Enter, Lookup, TakeGate, ReadEpoch, Load, LoadFails,
       Install, Discard, Commit, NoCommit, Go, End, Take, TypeOK, Locals, Searching, At
  <2>3. UNCHANGED <<active, latest, op>>
        /\ \/ UNCHANGED <<committed, table>>
           \/ Searching(r) /\ search[r].seq = latest /\ table'.by = search[r].model
    BY <2>1 DEF SearchStep, Encode, Enter, Lookup, TakeGate, ReadEpoch, Load, LoadFails,
       Install, Discard, Commit, NoCommit, gate, Current, Searching, At
  <2>4. CASE Pending("revoke")
    BY <2>3, <2>4, OpFrame DEF LatestModel
  <2>5. CASE ~Pending("revoke")
    <3>1. \A q \in Request : Searching(q)' /\ search'[q].seq = latest' => search'[q].model = active'
      BY <1>0, <2>2, <2>3, <2>5 DEF LatestModel, Searching, At, Idle
    <3>2. committed' # None /\ committed' = latest' => table'.by = active'
      BY <1>0, <2>3, <2>5 DEF LatestModel
    <3>. QED  BY <3>1, <3>2 DEF LatestModel
  <2>. QED  BY <2>4, <2>5
<1>3. CASE \E o \in Op : OpStep(o) \/ \E k \in Kinds : Begin(o, k)
  <2>1. PICK o \in Op : OpStep(o) \/ \E k \in Kinds : Begin(o, k)
    BY <1>3
  <2>2. UNCHANGED search
    BY <2>1 DEF OpStep, Begin, Configure, Write, WriteFails, Drop, Revoke, Invalidate, Wipe, WipeFails
  <2>3. CASE Revoke(o)
    <3>1. latest' = None
      BY <2>3 DEF Revoke
    <3>. QED  BY <1>0, <2>2, <3>1 DEF LatestModel, Tickets, Searching, At
  <2>4. CASE ~Revoke(o) /\ ~Configure(o)
    <3>1. UNCHANGED <<active, latest>> /\ (UNCHANGED <<committed, table>> \/ committed' = None)
      BY <2>1, <2>4 DEF OpStep, Begin, Write, WriteFails, Drop, Invalidate, Wipe, WipeFails, gate, stored
    <3>2. Pending("revoke") => Pending("revoke")'
      BY <2>1, <2>4, RevocationPending DEF Pending
    <3>. QED  BY <1>0, <2>2, <3>1, <3>2 DEF LatestModel, Searching, At
  <2>5. CASE Configure(o)
    <3>1. Due(o, "configure") /\ op'[o] = After(o)
      BY <1>0, <2>5 DEF Configure, Done, TypeOK
    <3>2. \A k \in DOMAIN Plan : \A i \in 1 .. Len(Plan[k]) :
            Plan[k][i] = "configure" => \E j \in i + 1 .. Len(Plan[k]) : Plan[k][j] = "revoke"
      BY PlanFacts
    <3>3. Owes(o, "revoke")'
      <4>1. op'[o].kind = After(o).kind /\ op'[o].at = After(o).at
        BY <3>1
      <4>2. Due(o, "configure")
        BY <3>1
      <4>. QED  BY <1>0, <3>2, <4>1, <4>2, StepPromises
    <3>. QED  BY <3>3 DEF LatestModel, Pending
  <2>. QED  BY <2>3, <2>4, <2>5
<1>4. CASE (\E v \in View : Probe(v) \/ Query(v) \/ Publish(v)) \/ UNCHANGED vars
  <2>1. UNCHANGED <<search, latest, committed, table, active, op>>
    BY <1>4 DEF Probe, Query, Publish, gate, stored, vars
  <2>. QED  BY <1>0, <2>1, OpFrame DEF LatestModel, Searching, At
<1>. QED  BY <1>1, <1>2, <1>3, <1>4 DEF Next

LEMMA ClearedKept == IInv /\ [Next]_vars => Cleared'
<1> SUFFICES ASSUME IInv, [Next]_vars, nextSeq' > 0, latest' = None, ~wipeFailed'
             PROVE  table' = NoTable \/ \E o \in Op : Owes(o, "wipe")' /\ op'[o].seq = nextSeq'
  BY DEF Cleared
<1>0. TypeOK /\ InPlan /\ Tickets /\ Cleared
  BY DEF IInv
<1>1. CASE \E r \in Request : Register(r)
  BY <1>0, <1>1 DEF Register, None, TypeOK
<1>2. CASE \E r \in Request : SearchStep(r)
  <2>1. PICK r \in Request : SearchStep(r)
    BY <1>2
  <2>2. UNCHANGED <<nextSeq, latest, wipeFailed, op>> /\ (UNCHANGED table \/ Commit(r))
    BY <2>1 DEF SearchStep, Encode, Enter, Lookup, TakeGate, ReadEpoch, Load, LoadFails,
       Install, Discard, Commit, NoCommit, gate, stored
  <2>3. ~Commit(r)
    BY <1>0, <2>2 DEF Commit, Current, Tickets, Searching, At
  <2>. QED  BY <1>0, <2>2, <2>3, OpFrame DEF Cleared
<1>3. CASE \E o \in Op : OpStep(o) \/ \E k \in Kinds : Begin(o, k)
  <2>1. PICK o \in Op : OpStep(o) \/ \E k \in Kinds : Begin(o, k)
    BY <1>3
  <2>2. CASE Revoke(o)
    <3>1. Due(o, "revoke") /\ op'[o] = [After(o) EXCEPT !.seq = nextSeq + 1] /\ nextSeq' = nextSeq + 1
      BY <1>0, <2>2 DEF Revoke, TypeOK
    <3>2. op'[o].kind = After(o).kind /\ op'[o].at = After(o).at /\ op'[o].seq = nextSeq'
      BY <1>0, <3>1, AfterType DEF Command
    <3>3. \A k \in DOMAIN Plan : \A i \in 1 .. Len(Plan[k]) :
            Plan[k][i] = "revoke" => \E j \in i + 1 .. Len(Plan[k]) : Plan[k][j] = "wipe"
      BY PlanFacts
    <3>4. Owes(o, "wipe")'
      <4>1. Due(o, "revoke")
        BY <3>1
      <4>2. op'[o].kind = After(o).kind /\ op'[o].at = After(o).at
        BY <3>2
      <4>. QED  BY <1>0, <3>3, <4>1, <4>2, StepPromises
    <3>. QED  BY <3>2, <3>4
  <2>3. CASE Wipe(o)
    <3>1. CASE nextSeq = op[o].seq
      BY <2>3, <3>1 DEF Wipe
    <3>2. CASE nextSeq # op[o].seq
      <4>1. UNCHANGED <<table, nextSeq, latest, wipeFailed>> /\ Done(o)
        BY <2>3, <3>2 DEF Wipe
      <4>2. ASSUME NEW p \in Op, Owes(p, "wipe"), op[p].seq = nextSeq
            PROVE  Owes(p, "wipe")' /\ op'[p].seq = nextSeq
        BY <1>0, <3>2, <4>1, <4>2, OthersKeep DEF Done
      <4>. QED  BY <1>0, <4>1, <4>2 DEF Cleared
    <3>. QED  BY <3>1, <3>2
  <2>4. CASE ~Revoke(o) /\ ~Wipe(o)
    <3>1. UNCHANGED <<table, nextSeq, latest, wipeFailed>> /\ ~WipeFails(o)
      BY <2>1, <2>4 DEF OpStep, Begin, Configure, Write, WriteFails, Drop, Invalidate, WipeFails, gate, stored
    <3>2. \A p \in Op : Owes(p, "wipe") => Owes(p, "wipe")' /\ op'[p].seq = op[p].seq
      BY <2>1, <2>4, <3>1, RevocationPending
    <3>. QED  BY <1>0, <3>1, <3>2 DEF Cleared
  <2>. QED  BY <2>2, <2>3, <2>4
<1>4. CASE (\E v \in View : Probe(v) \/ Query(v) \/ Publish(v)) \/ UNCHANGED vars
  <2>1. UNCHANGED <<nextSeq, latest, wipeFailed, table, op>>
    BY <1>4 DEF Probe, Query, Publish, gate, stored, vars
  <2>. QED  BY <1>0, <2>1, OpFrame DEF Cleared
<1>. QED  BY <1>1, <1>2, <1>3, <1>4 DEF Next

-----------------------------------------------------------------------------
(* The theorems *)

LEMMA InitIInv == Init => IInv
<1> SUFFICES ASSUME Init PROVE IInv
  OBVIOUS
<1>1. TypeOK
  <2>1. Idle \in Locals /\ NoOp \in Command /\ NoView \in Layout
    BY DEF Idle, Locals, Places, None, NoOp, Command, NoView, Layout
  <2>2. table \in Result \cup {NoTable}
    BY DEF Init, Result, Snapshot, NoSnap
  <2>. QED  BY <2>1, <2>2 DEF Init, TypeOK, None
<1>2. \A r \in Request : search[r] = Idle
  BY DEF Init
<1>3. \A o \in Op : ~Busy(o)
  BY PlanFacts DEF Init, Busy, NoOp
<1>4. InPlan /\ Tickets
  BY <1>2, <1>3 DEF InPlan, Tickets, Searching, At, Idle, Init, None
<1>5. Candidates /\ Resident /\ Cleared
  BY <1>2 DEF Candidates, Resident, Cleared, At, Idle, Init
<1>6. Spaces
  <2>1. OneVectorSpace
    BY DEF Init, OneVectorSpace, NoSnap
  <2>. QED  BY <1>2, <2>1 DEF Spaces, At, Idle
<1>7. LatestModel
  BY <1>2 DEF LatestModel, Searching, At, Idle, Init
<1>. QED  BY <1>1, <1>4, <1>5, <1>6, <1>7 DEF IInv

LEMMA Inductive == Spec => []IInv
<1>1. IInv /\ [Next]_vars => IInv'
  BY TypesKept, InPlanKept, TicketsKept, CandidatesKept, ResidentKept, SpacesKept, LatestKept,
     ClearedKept DEF IInv
<1>. QED  BY InitIInv, <1>1, PTL DEF Spec

\* Every variable of the search control plane keeps its type.
THEOREM TypeCorrect == Spec => []TypeOK
<1>1. IInv => TypeOK
  BY DEF IInv
<1>. QED  BY Inductive, <1>1, PTL

\* No interleaving of loads, writes, resets and switches leaves a snapshot
\* resident that is older than what was written, with no invalidation to come.
THEOREM StaysFresh == Spec => []ResidentFresh
<1>1. IInv => ResidentFresh
  BY DEF IInv, Resident, ResidentFresh, WillInvalidate, Pending
<1>. QED  BY Inductive, <1>1, PTL

\* No result mixes the vector spaces of two models.
THEOREM SpacesApart == Spec => []OneVectorSpace
<1>1. IInv => OneVectorSpace
  BY DEF IInv, Spaces
<1>. QED  BY Inductive, <1>1, PTL

\* Unless a switch has still to revoke, the table of the latest search was
\* computed with the configured model.
THEOREM LatestUsesActive == Spec => []LatestIsActive
<1>1. IInv => LatestIsActive
  BY DEF IInv, LatestModel, LatestIsActive
<1>. QED  BY Inductive, <1>1, PTL

\* Once every wipe is done and nothing has registered since the last
\* revocation, the result table is empty.
THEOREM ClearedStaysCleared == Spec => []ClearSticks
<1>1. IInv => ClearSticks
  BY DEF IInv, Cleared, ClearSticks, Pending
<1>. QED  BY Inductive, <1>1, PTL

-----------------------------------------------------------------------------
(* What is committed and shown *)

\* A number is given to one search, which commits at most once.
OneEach ==
    /\ \A r, q \in Request :
          Searching(r) /\ Searching(q) /\ search[r].seq = search[q].seq => r = q
    /\ \A r \in Request : Searching(r) => search[r].seq # committed

\* A command that took the last number has revoked every search.
Revoking ==
    \A o \in Op : op[o].seq <= nextSeq /\ (op[o].seq = nextSeq => latest = None)

\* The owner a layout noted does not come back once it is replaced, so as long
\* as it is there, the rows read are its own.
Noted ==
    \A v \in View : view[v].at # "idle" /\ view[v].expected # None =>
        /\ view[v].expected <= nextSeq
        /\ \A r \in Request : Searching(r) => search[r].seq # view[v].expected
        /\ view[v].at = "publish" /\ view[v].expected = committed => view[v].rows = table

\* A new search draws a number nobody has.
LEMMA RegisterNumbers ==
    ASSUME IInv, OneEach, Revoking, Noted, NEW r \in Request, Register(r)
    PROVE  OneEach' /\ Revoking' /\ Noted'
<1>. USE DEF IInv, TypeOK, Tickets, Searching, At, Locals, Layout, Command, None
<1>1. /\ search'[r].seq = nextSeq + 1 /\ \A q \in Request : q # r => search'[q] = search[q]
      /\ ~Searching(r) /\ nextSeq' = nextSeq + 1 /\ latest' = nextSeq + 1
      /\ UNCHANGED <<committed, table, op, view>>
  BY DEF Register, Idle
<1>2. /\ \A q \in Request : search[q].seq # nextSeq'
      /\ committed # nextSeq'
  <2>1. /\ nextSeq \in Nat /\ committed \in Nat /\ committed <= nextSeq
        /\ \A q \in Request : search[q].seq \in Nat /\ search[q].seq <= nextSeq
    OBVIOUS
  <2>2. \A n \in Nat : n <= nextSeq => n # nextSeq + 1
    BY <2>1
  <2>. QED  BY <1>1, <2>1, <2>2
<1>3. OneEach'
  <2>1. search'[r].seq = nextSeq' /\ committed' = committed
    BY <1>1
  <2>2. \A q \in Request : q # r => Searching(q)' = Searching(q) /\ search'[q].seq # nextSeq'
                                    /\ search'[q].seq = search[q].seq
    BY <1>1, <1>2
  <2>. QED  BY <1>2, <2>1, <2>2, SMTT(20) DEF OneEach
<1>4. Revoking'
  <2>1. \A o \in Op : op[o].seq \in Nat
    OBVIOUS
  <2>. QED  BY <1>1, <2>1 DEF Revoking
<1>5. Noted'
  <2>1. \A v \in View : view[v].expected \in Nat
    OBVIOUS
  <2>. QED  BY <1>1, <2>1 DEF Noted
<1>. QED  BY <1>3, <1>4, <1>5

\* A search keeps its number until it ends, and puts it on the table only then.
LEMMA SearchNumbers ==
    ASSUME IInv, OneEach, Revoking, Noted, NEW r \in Request, SearchStep(r)
    PROVE  OneEach' /\ Revoking' /\ Noted'
<1>. USE DEF IInv, TypeOK, Tickets, Searching, At
<1>1. /\ search'[r] = Idle \/ (Searching(r) /\ search'[r].seq = search[r].seq)
      /\ \A q \in Request : q # r => search'[q] = search[q]
  BY DEF SearchStep, Encode, Enter, Lookup, TakeGate, ReadEpoch, Load, LoadFails,
     Install, Discard, Commit, NoCommit, Go, End, Take, Locals
<1>2. UNCHANGED <<nextSeq, latest, op, view>>
  BY DEF SearchStep, Encode, Enter, Lookup, TakeGate, ReadEpoch, Load, LoadFails,
     Install, Discard, Commit, NoCommit, gate, stored
<1>3. \/ UNCHANGED <<committed, table>>
      \/ committed' = search[r].seq /\ Searching(r) /\ search'[r] = Idle
  BY DEF SearchStep, Encode, Enter, Lookup, TakeGate, ReadEpoch, Load, LoadFails,
     Install, Discard, Commit, NoCommit, gate, End
<1>4. Revoking'
  BY <1>2 DEF Revoking
<1>5. \A q \in Request : Searching(q)' => Searching(q) /\ search'[q].seq = search[q].seq
  BY <1>1 DEF Idle
<1>6. OneEach'
  BY <1>1, <1>3, <1>5 DEF OneEach, Idle
<1>7. Noted'
  BY <1>2, <1>3, <1>5 DEF Noted
<1>. QED  BY <1>4, <1>6, <1>7

\* A revocation draws a number too; a wipe leaves no owner.
LEMMA CommandNumbers ==
    ASSUME IInv, OneEach, Revoking, Noted, NEW o \in Op, OpStep(o) \/ \E k \in Kinds : Begin(o, k)
    PROVE  OneEach' /\ Revoking' /\ Noted'
<1>. USE DEF IInv, TypeOK, Tickets, Searching, At, None
<1>1. UNCHANGED <<search, view>>
  BY DEF OpStep, Begin, Configure, Write, WriteFails, Drop, Revoke, Invalidate, Wipe, WipeFails
<1>2. /\ UNCHANGED <<committed, table>> \/ committed' = None
      /\ UNCHANGED <<nextSeq, latest>> \/ (nextSeq' = nextSeq + 1 /\ latest' = None /\ Revoke(o))
  BY DEF OpStep, Begin, Configure, Write, WriteFails, Drop, Revoke, Invalidate, Wipe, WipeFails, gate, stored
<1>3. /\ \A p \in Op : p # o => op'[p] = op[p]
      /\ op'[o].seq \in {op[o].seq, None} \/ (Revoke(o) /\ op'[o].seq = nextSeq')
  <2>1. After(o).seq \in {op[o].seq, None} /\ After(o) \in Command
    BY AfterType DEF After, NoOp, Command
  <2>2. CASE Revoke(o)
    BY <2>1, <2>2 DEF Revoke, Command
  <2>3. CASE ~Revoke(o)
    BY <2>1, <2>3 DEF OpStep, Begin, Configure, Write, WriteFails, Drop, Invalidate, Wipe, WipeFails, Done,
       NoOp
  <2>. QED  BY <2>2, <2>3
<1>4. OneEach'
  BY <1>1, <1>2 DEF OneEach
<1>5. Revoking'
  <2>1. \A p \in Op : op[p].seq \in Nat
    BY DEF Command
  <2>2. CASE UNCHANGED <<nextSeq, latest>> /\ ~Revoke(o)
    BY <1>3, <2>1, <2>2 DEF Revoking
  <2>3. CASE Revoke(o)
    <3>1. nextSeq' = nextSeq + 1 /\ latest' = None
      BY <2>3 DEF Revoke
    <3>. QED  BY <1>3, <2>1, <3>1 DEF Revoking
  <2>. QED  BY <1>2, <2>2, <2>3
<1>6. Noted'
  <2>1. \A v \in View : view[v].expected \in Nat
    BY DEF Layout
  <2>. QED  BY <1>1, <1>2, <2>1 DEF Noted
<1>. QED  BY <1>4, <1>5, <1>6

\* A layout notes the owner and then reads its rows.
LEMMA LayoutNumbers ==
    ASSUME IInv, OneEach, Revoking, Noted, NEW v \in View, Probe(v) \/ Query(v) \/ Publish(v)
    PROVE  OneEach' /\ Revoking' /\ Noted'
<1>. USE DEF IInv, TypeOK, Tickets, Searching, At
<1>1. UNCHANGED <<nextSeq, latest, committed, table, search, op>>
  BY DEF Probe, Query, Publish, gate, stored
<1>2. OneEach' /\ Revoking'
  BY <1>1 DEF OneEach, Revoking
<1>3. \A w \in View : w # v => view'[w] = view[w]
  BY DEF Probe, Query, Publish
<1>4. CASE Probe(v)
  <2>1. view'[v].at = "query" /\ view'[v].expected = committed
    BY <1>4 DEF Probe, Layout
  <2>. QED  BY <1>1, <1>2, <1>3, <2>1 DEF Noted, OneEach
<1>5. CASE Query(v)
  <2>1. view[v].at = "query" /\ view'[v].expected = view[v].expected /\ view'[v].rows = table
    BY <1>5 DEF Query, Layout
  <2>. QED  BY <1>1, <1>2, <1>3, <2>1 DEF Noted
<1>6. CASE Publish(v)
  BY <1>1, <1>2, <1>3, <1>6 DEF Publish, Noted, NoView
<1>. QED  BY <1>4, <1>5, <1>6

LEMMA NumbersAlways == Spec => [](IInv /\ OneEach /\ Revoking /\ Noted)
<1>1. Init => OneEach /\ Revoking /\ Noted
  BY DEF Init, OneEach, Revoking, Noted, Searching, At, Idle, NoOp, NoView, None
<1>2. IInv /\ OneEach /\ Revoking /\ Noted /\ [Next]_vars => (OneEach /\ Revoking /\ Noted)'
  <2> SUFFICES ASSUME IInv, OneEach, Revoking, Noted, [Next]_vars
               PROVE  OneEach' /\ Revoking' /\ Noted'
    OBVIOUS
  <2>1. CASE UNCHANGED vars
    BY <2>1 DEF vars, gate, OneEach, Revoking, Noted, Searching, At
  <2>. QED  BY <2>1, RegisterNumbers, SearchNumbers, CommandNumbers, LayoutNumbers DEF Next
<1>. QED  BY <1>1, <1>2, Inductive, PTL DEF Spec

\* search_control.rs: the table of the latest search is replaced by a later
\* search or after a later revocation, never by a late search or a late wipe.
THEOREM NewestStays == Spec => NewestResultStays
<1>1. IInv /\ OneEach /\ Revoking /\ [Next]_vars =>
        [committed # None /\ committed = latest => UNCHANGED table]_table
  <2> SUFFICES ASSUME IInv, OneEach, Revoking, [Next]_vars, committed # None, committed = latest
               PROVE  UNCHANGED table
    OBVIOUS
  <2>1. ASSUME NEW r \in Request, Register(r) \/ SearchStep(r) PROVE UNCHANGED table
    <3>1. ~Commit(r)
      BY DEF OneEach, Commit, Current, Searching, At
    <3>. QED  BY <2>1, <3>1 DEF Register, SearchStep, Encode, Enter, Lookup, TakeGate, ReadEpoch,
                 Load, LoadFails, Install, Discard, NoCommit, gate, stored
  <2>2. ASSUME NEW o \in Op, OpStep(o) \/ \E k \in Kinds : Begin(o, k) PROVE UNCHANGED table
    BY <2>2 DEF Revoking, OpStep, Begin, Configure, Write, WriteFails, Drop, Revoke, Invalidate, Wipe,
       WipeFails, gate, stored
  <2>3. CASE (\E v \in View : Probe(v) \/ Query(v) \/ Publish(v)) \/ UNCHANGED vars
    BY <2>3 DEF Probe, Query, Publish, gate, stored, vars
  <2>. QED  BY <2>1, <2>2, <2>3 DEF Next
<1>. QED  BY <1>1, NumbersAlways, PTL DEF Spec, NewestResultStays

\* ipc/layout_commands.rs: a layout that noted an owner publishes what that
\* owner's table holds, or nothing.
THEOREM ShownFromOwner == Spec => PublishedFromOwner
<1>1. IInv /\ Noted /\ [Next]_vars =>
        [\A v \in View : Publish(v) /\ shown' # shown /\ view[v].expected # None
           => shown' = table]_vars
  BY DEF Publish, Noted
<1>. QED  BY <1>1, NumbersAlways, PTL DEF Spec, PublishedFromOwner

-----------------------------------------------------------------------------
(* How a search ends *)

\* A search counts its loads from the gate on, and makes no more than MaxLoads.
CountedAt(r) ==
    /\ At(r, "gate") => search[r].loads = 0
    /\ At(r, "epoch") => search[r].loads < MaxLoads
    /\ At(r, "load") \/ At(r, "install") => search[r].loads \in 1 .. MaxLoads
    /\ search[r].at \in {"encode", "enter", "lookup"} => search[r].loads = 0
Counted == \A r \in Request : CountedAt(r)

\* What a search has at the end of a step of its own.
Forward(r) ==
    /\ CountedAt(r)'
    /\ StepsLeft(r)' \in Nat /\ StepsLeft(r)' < StepsLeft(r)
    /\ \/ loader' = loader /\ (Loading(r)' <=> Loading(r))
       \/ loader = {} /\ loader' = {r} /\ Loading(r)'
       \/ loader' = loader \ {r} /\ ~(Loading(r)')

\* What each place costs.
LEMMA Costs ==
    ASSUME NEW n \in Nat
    PROVE  /\ Remaining("encode", n) = 3 * MaxLoads + 6 /\ Remaining("enter", n) = 3 * MaxLoads + 5
           /\ Remaining("lookup", n) = 3 * MaxLoads + 4 /\ Remaining("gate", n) = 3 * MaxLoads + 3
           /\ Remaining("epoch", n) = 3 * (MaxLoads - n) + 2
           /\ Remaining("load", n) = 3 * (MaxLoads - n) + 4
           /\ Remaining("install", n) = 3 * (MaxLoads - n) + 3
           /\ Remaining("commit", n) = 1 /\ Remaining("idle", n) = 0
BY DEF Remaining

\* Only the end is nearer than the commit.
LEMMA Ahead ==
    ASSUME TypeOK, NEW r \in Request, CountedAt(r), Searching(r), ~At(r, "commit")
    PROVE  StepsLeft(r) \in Nat /\ StepsLeft(r) > 1
<1>. DEFINE n == search[r].loads
<1>1. n \in Nat /\ search[r].at \in Places
  BY DEF TypeOK, Locals
<1>2. CASE search[r].at \in {"encode", "enter", "lookup", "gate"}
  BY <1>1, <1>2, Costs DEF StepsLeft
<1>3. CASE search[r].at \in {"epoch", "load", "install"}
  <2>1. n <= MaxLoads /\ (At(r, "epoch") => n < MaxLoads)
    BY <1>1, <1>3 DEF CountedAt, At
  <2>. QED  BY <1>1, <1>3, <2>1, Costs DEF StepsLeft, At
<1>. QED  BY <1>1, <1>2, <1>3 DEF Searching, At, Places

\* A search that ends, or goes on with the resident snapshot.
LEMMA Leaves ==
    ASSUME TypeOK, search' \in [Request -> Locals],
           NEW r \in Request, Searching(r), ~At(r, "commit"), Counted,
           search'[r].at \in {"commit", "idle"}
    PROVE  /\ CountedAt(r)' /\ ~(Loading(r)')
           /\ StepsLeft(r)' \in Nat /\ StepsLeft(r)' < StepsLeft(r)
<1>1. CountedAt(r)' /\ ~(Loading(r)')
  BY DEF CountedAt, Loading, At
<1>2. StepsLeft(r)' \in {0, 1}
  BY Costs DEF StepsLeft, Locals
<1>3. StepsLeft(r) \in Nat /\ StepsLeft(r) > 1
  BY Ahead DEF Counted
<1>. QED  BY <1>1, <1>2, <1>3

\* A step from one place to another with what it does to the count of loads.
LEMMA Passes ==
    ASSUME TypeOK, NEW r \in Request, CountedAt(r), search' \in [Request -> Locals],
           NEW from \in Places, NEW to \in Places, search[r].at = from, search'[r].at = to,
           search'[r].loads = search[r].loads + (IF from = "epoch" THEN 1 ELSE 0),
           \/ <<from, to>> \in {<<"encode", "enter">>, <<"enter", "lookup">>, <<"lookup", "gate">>,
                                <<"gate", "epoch">>, <<"epoch", "load">>, <<"load", "install">>}
           \/ from = "install" /\ to = "epoch" /\ search[r].loads < MaxLoads
    PROVE  CountedAt(r)' /\ StepsLeft(r)' \in Nat /\ StepsLeft(r)' < StepsLeft(r)
<1>. DEFINE n == search[r].loads
<1>1. n \in Nat /\ search'[r].loads \in Nat
  BY DEF TypeOK, Locals
<1>. USE <1>1, Costs DEF CountedAt, StepsLeft, At
<1>2. CASE from \in {"encode", "enter", "lookup"}
  BY <1>2
<1>3. CASE from = "gate"
  BY <1>3
<1>4. CASE from = "epoch"
  BY <1>4
<1>5. CASE from = "load"
  BY <1>5
<1>6. CASE from = "install"
  BY <1>6
<1>. QED  BY <1>2, <1>3, <1>4, <1>5, <1>6

LEMMA SearchForward ==
    ASSUME TypeOK, Tickets, Spaces, Counted, NEW r \in Request, SearchStep(r)
    PROVE  Forward(r) /\ \A q \in Request : q # r => search'[q] = search[q]
<1>. USE DEF At, Loading
<1>1. search[r] \in Locals /\ CountedAt(r) /\ search \in [Request -> Locals]
  BY DEF TypeOK, Counted
<1>2. \A q \in Request : q # r => search'[q] = search[q]
  BY <1>1 DEF SearchStep, Encode, Enter, Lookup, TakeGate, ReadEpoch, Load, LoadFails, Install,
     Discard, Commit, NoCommit, Go, End, Take
<1>. SUFFICES Forward(r)
  BY <1>2
<1>3. search' \in [Request -> Locals]
  BY SearchTypes DEF TypeOK
<1>4. ASSUME NEW place, Go(r, place)
      PROVE  search'[r].at = place /\ search'[r].loads = search[r].loads
  BY <1>1, <1>4 DEF Go, Locals
<1>5. Take(r) \/ End(r) => search'[r].at \in {"commit", "idle"}
  BY Moves
<1>6. search[r].loads + 0 = search[r].loads
  BY <1>1 DEF Locals
<1>7. CASE Encode(r) \/ Enter(r) \/ Lookup(r)
  <2>1. loader' = loader /\ search[r].at \in {"encode", "enter", "lookup"} /\ Searching(r)
    BY <1>7 DEF Encode, Enter, Lookup, Searching
  <2>2. CASE End(r) \/ Take(r)
    <3>1. CountedAt(r)' /\ StepsLeft(r)' \in Nat /\ StepsLeft(r)' < StepsLeft(r) /\ ~(Loading(r)')
      BY <1>3, <1>5, <2>1, <2>2, Leaves
    <3>. QED  BY <2>1, <3>1 DEF Forward
  <2>3. ASSUME NEW place \in Places, Go(r, place),
               <<search[r].at, place>> \in {<<"encode", "enter">>, <<"enter", "lookup">>,
                                            <<"lookup", "gate">>}
        PROVE  Forward(r)
    <3>1. CountedAt(r)' /\ StepsLeft(r)' \in Nat /\ StepsLeft(r)' < StepsLeft(r)
      BY <1>1, <1>3, <1>4, <1>6, <2>3, Passes DEF Places
    <3>. QED  BY <1>4, <2>1, <2>3, <3>1 DEF Forward
  <2>. QED  BY <1>7, <2>2, <2>3 DEF Encode, Enter, Lookup, Places
<1>8. CASE TakeGate(r)
  <2>1. search[r].at = "gate" /\ Searching(r) /\ loader = {}
    BY <1>8 DEF TakeGate, Searching
  <2>2. CASE Take(r) /\ UNCHANGED loader
    <3>1. CountedAt(r)' /\ StepsLeft(r)' \in Nat /\ StepsLeft(r)' < StepsLeft(r) /\ ~(Loading(r)')
      BY <1>3, <1>5, <2>1, <2>2, Leaves
    <3>. QED  BY <2>1, <2>2, <3>1 DEF Forward
  <2>3. CASE Go(r, "epoch") /\ loader' = {r}
    <3>1. CountedAt(r)' /\ StepsLeft(r)' \in Nat /\ StepsLeft(r)' < StepsLeft(r)
      BY <1>1, <1>3, <1>4, <1>6, <2>1, <2>3, Passes DEF Places
    <3>. QED  BY <1>4, <2>1, <2>3, <3>1 DEF Forward
  <2>. QED  BY <1>8, <2>2, <2>3 DEF TakeGate
<1>9. CASE ReadEpoch(r) \/ Load(r)
  <2>1. /\ <<search[r].at, search'[r].at>> \in {<<"epoch", "load">>, <<"load", "install">>}
        /\ search'[r].loads = search[r].loads + (IF search[r].at = "epoch" THEN 1 ELSE 0)
        /\ loader' = loader
    BY <1>1, <1>6, <1>9 DEF ReadEpoch, Load, Locals
  <2>2. CountedAt(r)' /\ StepsLeft(r)' \in Nat /\ StepsLeft(r)' < StepsLeft(r)
    BY <1>1, <1>3, <2>1, Passes DEF Places
  <2>. QED  BY <2>1, <2>2 DEF Forward
<1>10. CASE LoadFails(r) \/ (Install(r) /\ Take(r))
            \/ ((Install(r) \/ Discard(r)) /\ Go(r, "commit") /\ Release(r))
  <2>1. /\ loader' = loader \ {r} /\ Searching(r) /\ ~At(r, "commit")
        /\ search'[r].at \in {"commit", "idle"}
    BY <1>4, <1>5, <1>10 DEF LoadFails, Install, Discard, Release, Searching
  <2>2. CountedAt(r)' /\ StepsLeft(r)' \in Nat /\ StepsLeft(r)' < StepsLeft(r) /\ ~(Loading(r)')
    BY <1>3, <2>1, Leaves
  <2>. QED  BY <2>1, <2>2 DEF Forward
<1>11. CASE Discard(r) /\ Go(r, "epoch") /\ search[r].loads < MaxLoads /\ UNCHANGED loader
  <2>1. CountedAt(r)' /\ StepsLeft(r)' \in Nat /\ StepsLeft(r)' < StepsLeft(r)
    BY <1>1, <1>3, <1>4, <1>6, <1>11, Passes DEF Discard, Places
  <2>. QED  BY <1>4, <1>11, <2>1 DEF Forward, Discard
<1>12. CASE Commit(r) \/ NoCommit(r)
  <2>1. search[r].at = "commit" /\ search'[r].at = "idle" /\ loader' = loader
    BY <1>12, Moves DEF Commit, NoCommit
  <2>2. StepsLeft(r) = 1 /\ StepsLeft(r)' = 0
    BY <1>1, <1>3, <2>1, Costs DEF StepsLeft, Locals
  <2>. QED  BY <2>1, <2>2 DEF Forward, CountedAt
<1>. QED  BY <1>7, <1>8, <1>9, <1>10, <1>11, <1>12 DEF SearchStep, Install, Discard

\* Nobody but the search itself moves it; a registration takes it from "idle".
LEMMA WindStep ==
    ASSUME IInv, GateGoesRound, Counted, [Next]_vars
    PROVE  /\ GateGoesRound' /\ Counted'
           /\ \A r \in Request : ~At(r, "idle") =>
                 \/ UNCHANGED search[r]
                 \/ StepsLeft(r)' \in Nat /\ StepsLeft(r)' < StepsLeft(r)
<1>0. TypeOK /\ Tickets /\ Spaces
  BY DEF IInv
<1>1. CASE UNCHANGED <<search, loader>>
  BY <1>1 DEF GateGoesRound, Counted, CountedAt, Loading, At
<1>2. ASSUME NEW r \in Request, Register(r)
      PROVE  /\ GateGoesRound' /\ Counted'
             /\ \A q \in Request : ~At(q, "idle") => UNCHANGED search[q]
  <2>1. /\ At(r, "idle") /\ UNCHANGED loader /\ \A q \in Request : q # r => search'[q] = search[q]
        /\ search'[r].at = "encode" /\ search'[r].loads = 0
    BY <1>0, <1>2 DEF Register, TypeOK, Idle
  <2>. QED  BY <2>1 DEF GateGoesRound, Counted, CountedAt, Loading, At
<1>3. ASSUME NEW r \in Request, SearchStep(r)
      PROVE  /\ GateGoesRound' /\ Counted'
             /\ \A q \in Request : ~At(q, "idle") =>
                   \/ UNCHANGED search[q]
                   \/ StepsLeft(q)' \in Nat /\ StepsLeft(q)' < StepsLeft(q)
  <2>1. Forward(r) /\ \A q \in Request : q # r => search'[q] = search[q]
    BY <1>0, <1>3, SearchForward
  <2>2. \A q \in Request : q # r => (CountedAt(q) <=> CountedAt(q)') /\ (Loading(q) <=> Loading(q)')
    BY <2>1 DEF CountedAt, Loading, At
  <2>3. Counted'
    BY <2>1, <2>2 DEF Counted, Forward
  <2>4. GateGoesRound'
    BY <2>1, <2>2 DEF GateGoesRound, Forward
  <2>. QED  BY <2>1, <2>3, <2>4 DEF Forward
<1>4. CASE (\E o \in Op : OpStep(o) \/ \E k \in Kinds : Begin(o, k)) \/ UNCHANGED vars
           \/ \E v \in View : Probe(v) \/ Query(v) \/ Publish(v)
  <2>1. UNCHANGED <<search, loader>>
    BY <1>4 DEF OpStep, Begin, Configure, Write, WriteFails, Drop, Revoke, Invalidate, Wipe, WipeFails,
       Probe, Query, Publish, vars
  <2>. QED  BY <1>1, <2>1
<1>. QED  BY <1>2, <1>3, <1>4 DEF Next

LEMMA WindAlways == Spec => [](IInv /\ GateGoesRound /\ Counted)
<1>1. Init => GateGoesRound /\ Counted
  BY DEF Init, GateGoesRound, Counted, CountedAt, Loading, At, Idle
<1>2. IInv /\ GateGoesRound /\ Counted /\ [Next]_vars => (GateGoesRound /\ Counted)'
  BY WindStep
<1>. QED  BY <1>1, <1>2, Inductive, PTL DEF Spec

\* search_control.rs, load_snapshot_for: the load gate is held by the one search
\* that is loading, and given back on every way out of a load.
THEOREM GateComesFree == Spec => []GateGoesRound
<1>. QED  BY WindAlways, PTL

\* Every step of a search brings its end nearer, for any number of searches,
\* invalidations and failures and any limit on the loads.
THEOREM SearchesGoForward == Spec => SearchesWindDown
<1>1. IInv /\ GateGoesRound /\ Counted /\ [Next]_vars =>
        [\A r \in Request : ~At(r, "idle") =>
            \/ UNCHANGED search[r]
            \/ StepsLeft(r)' \in Nat /\ StepsLeft(r)' < StepsLeft(r)]_vars
  BY WindStep
<1>. QED  BY <1>1, WindAlways, PTL DEF Spec, SearchesWindDown
=============================================================================
