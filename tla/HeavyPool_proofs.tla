-------------------------- MODULE HeavyPool_proofs ---------------------------
(***************************************************************************)
(* Proofs about the permit pools, for any number of permits, rayon         *)
(* threads, exotic workers and enhancement jobs: permits are conserved, no *)
(* ticket leaks, and nobody who waits for work keeps a permit.  The        *)
(* strengthening says which places each kind of thread can be in, and that *)
(* its place tells what it holds.                                          *)
(***************************************************************************)
EXTENDS HeavyPool, FiniteSetTheorems, SequenceTheorems, TLAPS

Waits == {"wait", "decide", "leave"}
Asks == Waits \cup {"ask"}

\* Where a thread can be.
Room(t) ==
    Asks \cup {"absent", "off", "granted"} \cup
    (CASE t = Dispatcher -> {"enter", "recv", "gate", "drain"}
       [] t = Prepare -> {"collect", "inject", "deriving", "offer"}
       [] t = Infer -> {"receive", "returning", "join"}
       [] t \in Exotics -> {"recv", "gate", "handshake", "armed", "working"}
       [] t \in Enhancers -> {"lock", "returning"})

Places == \A t \in Threads : pc[t] \in Room(t)

CpuHolders ==
    \A t \in Threads :
        /\ pc[t] \in Permitted => t \in holds["cpu"]
        /\ t \in holds["cpu"] => pc[t] \in Permitted \/ (NeedsGpu(t) /\ pc[t] \in Asks)

GpuHolders ==
    \A t \in Threads : t \in holds["gpu"] <=> NeedsGpu(t) /\ pc[t] = "granted"

TaskHolders ==
    \A k \in Tasks : k \notin holds["gpu"] /\ (k \in holds["cpu"] <=> task[k] # "none")

Queued ==
    /\ \A p \in Pools : \A i \in 1..Len(queue[p]) : queue[p][i] \in Waiting(p)
    /\ \A p \in Pools : \A t \in Waiting(p) : \E i \in 1..Len(queue[p]) : queue[p][i] = t
    /\ \A p \in Pools : \A i, j \in 1..Len(queue[p]) : queue[p][i] = queue[p][j] => i = j

IInv ==
    /\ TypeOK
    /\ Places
    /\ CpuHolders
    /\ GpuHolders
    /\ TaskHolders
    /\ Queued
    /\ PermitsConserved

-----------------------------------------------------------------------------
(* Kinds of threads. *)

LEMMA Rooms ==
    /\ Room(Dispatcher) = Asks \cup {"absent", "off", "granted", "enter", "recv", "gate", "drain"}
    /\ Room(Prepare) = Asks \cup {"absent", "off", "granted", "collect", "inject", "deriving", "offer"}
    /\ Room(Infer) = Asks \cup {"absent", "off", "granted", "receive", "returning", "join"}
    /\ \A e \in Exotics :
         Room(e) = Asks \cup {"absent", "off", "granted", "recv", "gate", "handshake", "armed", "working"}
    /\ \A h \in Enhancers : Room(h) = Asks \cup {"absent", "off", "granted", "lock", "returning"}
  <1>1. Dispatcher # Prepare /\ Dispatcher # Infer /\ Prepare # Infer
    BY ThreadAssumption
  <1>2. \A x \in {Dispatcher, Prepare, Infer} : x \notin Exotics /\ x \notin Enhancers
    BY ThreadAssumption
  <1>3. \A x \in Exotics : x \notin Enhancers
    BY ThreadAssumption
  <1>4. Room(Dispatcher) = Asks \cup {"absent", "off", "granted", "enter", "recv", "gate", "drain"}
    BY <1>1, <1>2 DEF Room
  <1>5. Room(Prepare) = Asks \cup {"absent", "off", "granted", "collect", "inject", "deriving", "offer"}
    BY <1>1, <1>2 DEF Room
  <1>6. Room(Infer) = Asks \cup {"absent", "off", "granted", "receive", "returning", "join"}
    BY <1>1, <1>2 DEF Room
  <1>7. ASSUME NEW e \in Exotics
        PROVE  Room(e) = Asks \cup {"absent", "off", "granted", "recv", "gate", "handshake", "armed", "working"}
    BY <1>2, <1>3 DEF Room
  <1>8. ASSUME NEW h \in Enhancers
        PROVE  Room(h) = Asks \cup {"absent", "off", "granted", "lock", "returning"}
    BY <1>2, <1>3 DEF Room
  <1> QED BY <1>4, <1>5, <1>6, <1>7, <1>8

LEMMA Kinds ==
    /\ Dispatcher \in Threads /\ Prepare \in Threads /\ Infer \in Threads
    /\ Exotics \subseteq Threads /\ Enhancers \subseteq Threads
    /\ Tasks \cap Threads = {}
    /\ ~NeedsGpu(Dispatcher) /\ ~NeedsGpu(Prepare) /\ NeedsGpu(Infer)
    /\ \A e \in Exotics : ~NeedsGpu(e)
    /\ \A h \in Enhancers : NeedsGpu(h)
  BY ThreadAssumption DEF Threads, NeedsGpu

LEMMA RoomsAreKnown == \A t \in Threads : Room(t) \subseteq Where
  BY Rooms DEF Threads, Where, Asks, Waits

\* Only three kinds of threads keep a permit, and their places say so.
LEMMA HoldersAreFinite ==
    ASSUME TypeOK, NEW p \in Pools
    PROVE  IsFiniteSet(holds[p])
  <1>1. holds[p] \in SUBSET (Threads \cup Tasks)
    BY DEF TypeOK
  <1>2. IsFiniteSet(Threads \cup Tasks)
    BY PoolAssumption, FS_Union
  <1> QED BY <1>1, <1>2, FS_Subset

-----------------------------------------------------------------------------
(* What the operations of a pool keep. *)

LEMMA DropKeeps ==
    ASSUME TypeOK, PermitsConserved, NEW t, NEW p \in Pools, Drop(t, p)
    PROVE  /\ free' \in [Pools -> Nat]
           /\ holds' \in [Pools -> SUBSET (Threads \cup Tasks)]
           /\ PermitsConserved'
  <1>1. free \in [Pools -> Nat] /\ holds \in [Pools -> SUBSET (Threads \cup Tasks)]
    BY DEF TypeOK
  <1>2. free' \in [Pools -> Nat] /\ holds' \in [Pools -> SUBSET (Threads \cup Tasks)]
    BY <1>1 DEF Drop
  <1>3. IsFiniteSet(holds[p]) /\ Cardinality(holds[p]) \in Nat
    BY HoldersAreFinite, FS_CardinalityType
  <1>4. Cardinality(holds[p] \ {t})
          = IF t \in holds[p] THEN Cardinality(holds[p]) - 1 ELSE Cardinality(holds[p])
    BY <1>3, FS_RemoveElement
  <1>5. ASSUME NEW q \in Pools
        PROVE  free'[q] + Cardinality(holds'[q]) = Size[q]
    <2>1. free[q] + Cardinality(holds[q]) = Size[q]
      BY DEF PermitsConserved
    <2>2. CASE q = p
      <3>1. free'[p] = free[p] + (IF t \in holds[p] THEN 1 ELSE 0) /\ holds'[p] = holds[p] \ {t}
        BY <1>1 DEF Drop
      <3>2. free[p] \in Nat
        BY <1>1
      <3> QED BY <1>3, <1>4, <2>1, <2>2, <3>1, <3>2
    <2>3. CASE q # p
      <3>1. free'[q] = free[q] /\ holds'[q] = holds[q]
        BY <1>1, <2>3 DEF Drop
      <3> QED BY <2>1, <3>1
    <2> QED BY <2>2, <2>3
  <1> QED BY <1>2, <1>5 DEF PermitsConserved

\* A queue stays right when nobody in it or out of it changes sides.
LEMMA QueueFrame ==
    ASSUME TypeOK, Queued, UNCHANGED queue,
           \A t \in Threads : pc'[t] \in Waits <=> pc[t] \in Waits,
           \A t \in Threads : pc[t] \in Waits => (t \in holds'["cpu"] <=> t \in holds["cpu"])
    PROVE  Queued'
  <1>1. \A p \in Pools : Waiting(p)' = Waiting(p)
    BY DEF Waiting, Waits, Wants
  <1> QED BY <1>1 DEF Queued

LEMMA Glue ==
    \A S : \A x, y \in Seq(S) :
        /\ x \o y \in Seq(S)
        /\ Len(x \o y) = Len(x) + Len(y)
        /\ \A i \in 1..(Len(x) + Len(y)) :
             (x \o y)[i] = IF i <= Len(x) THEN x[i] ELSE y[i - Len(x)]
  BY ConcatProperties, Zenon

LEMMA Removal ==
    ASSUME NEW S, NEW q \in Seq(S), NEW t,
           \A i, j \in 1..Len(q) : q[i] = q[j] => i = j
    PROVE  LET r == Without(q, t) IN
           /\ r \in Seq(S)
           /\ \A i \in 1..Len(r) : r[i] # t /\ \E j \in 1..Len(q) : r[i] = q[j]
           /\ \A j \in 1..Len(q) : q[j] # t => \E i \in 1..Len(r) : r[i] = q[j]
           /\ \A i, j \in 1..Len(r) : r[i] = r[j] => i = j
  <1> DEFINE at == {i \in 1..Len(q) : q[i] = t}
             n == Len(q)
  <1>0. n \in Nat
    OBVIOUS
  <1>1. CASE at = {}
    <2>1. Without(q, t) = q
      BY <1>1 DEF Without
    <2>2. \A i \in 1..n : q[i] # t
      BY <1>1
    <2> QED BY <2>1, <2>2
  <1>2. CASE at # {}
    <2> DEFINE k == CHOOSE i \in at : TRUE
               r == RemoveAt(q, k)
    <2>1. k \in 1..n /\ q[k] = t
      BY <1>2
    <2>2. Without(q, t) = r
      BY <1>2 DEF Without
    <2> HIDE DEF k
    <2>3. /\ SubSeq(q, 1, k - 1) \in Seq(S) /\ Len(SubSeq(q, 1, k - 1)) = k - 1
          /\ \A i \in 1..(k - 1) : SubSeq(q, 1, k - 1)[i] = q[i]
      BY <2>1, <1>0
    <2>4. /\ SubSeq(q, k + 1, n) \in Seq(S) /\ Len(SubSeq(q, k + 1, n)) = n - k
          /\ \A i \in 1..(n - k) : SubSeq(q, k + 1, n)[i] = q[k + i]
      BY <2>1, <1>0
    <2>5. /\ r \in Seq(S) /\ Len(r) = n - 1
          /\ \A i \in 1..(n - 1) : r[i] = IF i < k THEN q[i] ELSE q[i + 1]
      <3> DEFINE x == SubSeq(q, 1, k - 1)
                 y == SubSeq(q, k + 1, n)
      <3>1. r = x \o y
        BY DEF RemoveAt
      <3>2. x \in Seq(S) /\ y \in Seq(S) /\ Len(x) = k - 1 /\ Len(y) = n - k
        BY <2>3, <2>4
      <3> HIDE DEF x, y
      <3>3. /\ x \o y \in Seq(S) /\ Len(x \o y) = Len(x) + Len(y)
            /\ \A i \in 1..(Len(x) + Len(y)) :
                 (x \o y)[i] = IF i <= Len(x) THEN x[i] ELSE y[i - Len(x)]
        <4> SUFFICES ASSUME NEW u \in Seq(S), NEW v \in Seq(S)
                     PROVE  /\ u \o v \in Seq(S) /\ Len(u \o v) = Len(u) + Len(v)
                            /\ \A i \in 1..(Len(u) + Len(v)) :
                                 (u \o v)[i] = IF i <= Len(u) THEN u[i] ELSE v[i - Len(u)]
          BY <3>2, Zenon
        <4> QED BY Glue, ZenonT(60)
      <3>4. ASSUME NEW i \in 1..(n - 1)
            PROVE  (x \o y)[i] = IF i < k THEN q[i] ELSE q[i + 1]
        <4>1. CASE i < k
          <5>1. x[i] = q[i]
            BY <2>1, <2>3, <4>1, <1>0 DEF x
          <5> QED BY <3>2, <3>3, <3>4, <4>1, <5>1, <2>1, <1>0
        <4>2. CASE ~(i < k)
          <5>1. i - (k - 1) \in 1..(n - k) /\ k + (i - (k - 1)) = i + 1
            BY <2>1, <3>4, <4>2, <1>0
          <5>2. y[i - (k - 1)] = q[i + 1]
            BY <2>4, <5>1 DEF y
          <5> QED BY <3>2, <3>3, <3>4, <4>2, <5>2, <2>1, <1>0
        <4> QED BY <4>1, <4>2
      <3> QED BY <2>1, <3>1, <3>2, <3>3, <3>4, <1>0
    <2> HIDE DEF r
    <2>6. \A i \in 1..(n - 1) :
             (IF i < k THEN i ELSE i + 1) \in (1..n) \ {k}
      BY <2>1, <1>0
    <2>7. \A i \in 1..Len(r) : r[i] # t /\ \E j \in 1..n : r[i] = q[j]
      BY <2>1, <2>5, <2>6, <1>0
    <2>8. ASSUME NEW j \in 1..n, q[j] # t
          PROVE  \E i \in 1..Len(r) : r[i] = q[j]
      <3>1. CASE j < k
        <4>1. j \in 1..(n - 1) /\ r[j] = q[j]
          BY <2>1, <2>5, <3>1, <1>0
        <4> QED BY <4>1, <2>5
      <3>2. CASE j > k
        <4>1. j - 1 \in 1..(n - 1) /\ r[j - 1] = q[j]
          BY <2>1, <2>5, <3>2, <1>0
        <4> QED BY <4>1, <2>5
      <3> QED BY <3>1, <3>2, <2>1, <2>8, <1>0
    <2>9. ASSUME NEW i \in 1..Len(r), NEW j \in 1..Len(r), r[i] = r[j]
          PROVE  i = j
      <3>1. (IF i < k THEN i ELSE i + 1) = (IF j < k THEN j ELSE j + 1)
        BY <2>1, <2>5, <2>6, <2>9, <1>0
      <3> QED BY <3>1, <2>1, <2>5, <1>0
    <2> QED BY <2>2, <2>5, <2>7, <2>8, <2>9
  <1> QED BY <1>1, <1>2

-----------------------------------------------------------------------------
(* Steps that move threads between places and leave the pools alone. *)

\* Neither side of a move is the wait for a permit, and the two agree on what
\* they hold.
Harmless(t, a, b) ==
    /\ a \notin Asks /\ b \notin Waits
    /\ a \in Permitted <=> b \in Permitted
    /\ a = "granted" => ~NeedsGpu(t)
    /\ b # "granted"

LEMMA Moves ==
    ASSUME IInv, pc' \in [Threads -> Where], Places',
           UNCHANGED <<free, queue, holds, task>>,
           stopped' \in [Runs -> BOOLEAN], foreground' \in Activities,
           \A t \in Threads : pc'[t] = pc[t] \/ Harmless(t, pc[t], pc'[t])
    PROVE  IInv'
  <1> USE DEF IInv
  <1>1. TypeOK'
    BY DEF TypeOK
  <1>2. CpuHolders' /\ GpuHolders'
    BY DEF CpuHolders, GpuHolders, Harmless, Asks, Waits, Permitted, NeedsGpu
  <1>3. TaskHolders'
    BY DEF TaskHolders
  <1>4. \A t \in Threads : pc'[t] \in Waits <=> pc[t] \in Waits
    BY DEF Harmless, Asks
  <1>5. Queued'
    BY <1>4, QueueFrame
  <1>6. PermitsConserved'
    BY DEF PermitsConserved
  <1> QED BY <1>1, <1>2, <1>3, <1>5, <1>6

\* A single thread goes to another of its places.
LEMMA Placed ==
    ASSUME TypeOK, Places, NEW t \in Threads, NEW a, NEW b \in Room(t), Goto(t, a, b)
    PROVE  /\ pc' \in [Threads -> Where] /\ Places'
           /\ pc[t] = a /\ pc'[t] = b
           /\ \A u \in Threads \ {t} : pc'[u] = pc[u]
  <1>1. b \in Where
    BY RoomsAreKnown
  <1>2. pc \in [Threads -> Where]
    BY DEF TypeOK
  <1>3. pc' = [pc EXCEPT ![t] = b] /\ pc[t] = a
    BY DEF Goto
  <1>4. pc' \in [Threads -> Where] /\ pc'[t] = b /\ \A u \in Threads \ {t} : pc'[u] = pc[u]
    BY <1>1, <1>2, <1>3
  <1>5. \A u \in Threads : Room(u)' = Room(u)
    BY DEF Room, Asks, Waits
  <1>6. Places'
    BY <1>4, <1>5 DEF Places
  <1> QED BY <1>3, <1>4, <1>6

LEMMA QuietMove ==
    ASSUME IInv, NEW t \in Threads, NEW a, NEW b \in Room(t), Goto(t, a, b),
           UNCHANGED <<free, queue, holds, task, foreground>>,
           stopped' \in [Runs -> BOOLEAN], Harmless(t, a, b)
    PROVE  IInv'
  <1>1. /\ pc' \in [Threads -> Where] /\ Places'
        /\ pc[t] = a /\ pc'[t] = b
        /\ \A u \in Threads \ {t} : pc'[u] = pc[u]
    BY Placed DEF IInv
  <1>2. foreground' \in Activities
    BY DEF IInv, TypeOK
  <1>3. \A u \in Threads : pc'[u] = pc[u] \/ Harmless(u, pc[u], pc'[u])
    BY <1>1
  <1> QED BY <1>1, <1>2, <1>3, Moves

-----------------------------------------------------------------------------
(* Steps that return a permit. *)

\* A CPU permit goes back from a place where the thread did not use the GPU.
LEMMA ReleaseCpu ==
    ASSUME IInv, NEW t \in Threads, NEW a, NEW b \in Room(t), Goto(t, a, b),
           Drop(t, "cpu"), UNCHANGED <<queue, task, foreground>>,
           stopped' \in [Runs -> BOOLEAN],
           a \notin Asks, b \notin Waits \cup Permitted, a = "granted" => ~NeedsGpu(t)
    PROVE  IInv'
  <1> USE DEF IInv
  <1>1. /\ pc' \in [Threads -> Where] /\ Places'
        /\ pc[t] = a /\ pc'[t] = b
        /\ \A u \in Threads \ {t} : pc'[u] = pc[u]
    BY Placed
  <1>2. /\ free' \in [Pools -> Nat] /\ PermitsConserved'
        /\ holds' \in [Pools -> SUBSET (Threads \cup Tasks)]
    BY DropKeeps DEF Pools
  <1>3. holds'["cpu"] = holds["cpu"] \ {t} /\ holds'["gpu"] = holds["gpu"]
    BY DEF Drop, TypeOK, Pools
  <1>4. TypeOK'
    BY <1>1, <1>2 DEF TypeOK
  <1>5. CpuHolders'
    BY <1>1, <1>3 DEF CpuHolders, NeedsGpu, Permitted
  <1>6. GpuHolders'
    BY <1>1, <1>3 DEF GpuHolders, NeedsGpu, Permitted
  <1>7. TaskHolders'
    BY <1>3, Kinds DEF TaskHolders
  <1>8. Queued'
    <2>1. \A u \in Threads : pc'[u] \in Waits <=> pc[u] \in Waits
      BY <1>1 DEF Asks
    <2>2. \A u \in Threads : pc[u] \in Waits => u # t
      BY <1>1 DEF Asks
    <2> QED BY <1>3, <2>1, <2>2, QueueFrame
  <1> QED BY <1>1, <1>2, <1>4, <1>5, <1>6, <1>7, <1>8

LEMMA WorkerEndsKeeps ==
    ASSUME IInv, NEW t \in Threads, NeedsGpu(t), WorkerEnds(t), "returning" \in Room(t)
    PROVE  IInv'
  <1> USE DEF IInv
  <1>0. Goto(t, "granted", "returning") /\ Drop(t, "gpu")
        /\ UNCHANGED <<queue, task, stopped, foreground>>
    BY DEF WorkerEnds, Release
  <1>1. /\ pc' \in [Threads -> Where] /\ Places'
        /\ pc[t] = "granted" /\ pc'[t] = "returning"
        /\ \A u \in Threads \ {t} : pc'[u] = pc[u]
    BY <1>0, Placed
  <1>2. /\ free' \in [Pools -> Nat] /\ PermitsConserved'
        /\ holds' \in [Pools -> SUBSET (Threads \cup Tasks)]
    BY <1>0, DropKeeps DEF Pools
  <1>3. holds'["gpu"] = holds["gpu"] \ {t} /\ holds'["cpu"] = holds["cpu"]
    BY <1>0 DEF Drop, TypeOK, Pools
  <1>4. TypeOK'
    BY <1>0, <1>1, <1>2 DEF TypeOK
  <1>5. CpuHolders'
    BY <1>1, <1>3 DEF CpuHolders, NeedsGpu, Permitted, Asks, Waits
  <1>6. GpuHolders'
    BY <1>1, <1>3 DEF GpuHolders, NeedsGpu
  <1>7. TaskHolders'
    BY <1>0, <1>3 DEF TaskHolders
  <1>8. Queued'
    <2>1. \A u \in Threads : pc'[u] \in Waits <=> pc[u] \in Waits
      BY <1>1 DEF Waits
    <2> QED BY <1>0, <1>3, <2>1, QueueFrame
  <1> QED BY <1>1, <1>2, <1>4, <1>5, <1>6, <1>7, <1>8

-----------------------------------------------------------------------------
(* acquire_cancellable. *)

LEMMA AskKeeps ==
    ASSUME IInv, NEW t \in Threads, Ask(t)
    PROVE  IInv'
  <1> USE DEF IInv
  <1> DEFINE p == Wants(t)
             q == queue[p]
  <1>0. Goto(t, "ask", "wait") /\ queue' = [queue EXCEPT ![p] = Append(q, t)]
        /\ UNCHANGED <<free, holds, task, stopped, foreground>>
    BY DEF Ask
  <1>1. /\ pc' \in [Threads -> Where] /\ Places'
        /\ pc[t] = "ask" /\ pc'[t] = "wait"
        /\ \A u \in Threads \ {t} : pc'[u] = pc[u]
    BY <1>0, Placed DEF Room, Asks, Waits
  <1>2. p \in Pools /\ q \in Seq(Threads)
    BY DEF TypeOK, Wants, Pools
  <1>3. TypeOK'
    BY <1>0, <1>1, <1>2 DEF TypeOK
  <1>4. CpuHolders' /\ GpuHolders' /\ TaskHolders'
    BY <1>0, <1>1 DEF CpuHolders, GpuHolders, TaskHolders, NeedsGpu, Permitted, Asks, Waits
  <1>5. PermitsConserved'
    BY <1>0 DEF PermitsConserved
  <1>6. /\ \A r \in Pools : r = p => t \notin Waiting(r)
        /\ \A r \in Pools : Waiting(r)' = IF r = p THEN Waiting(r) \cup {t} ELSE Waiting(r)
    BY <1>0, <1>1 DEF Waiting, Wants
  <1>7. /\ Len(queue'[p]) = Len(q) + 1 /\ queue'[p][Len(q) + 1] = t
        /\ \A i \in 1..Len(q) : queue'[p][i] = q[i]
        /\ \A r \in Pools \ {p} : queue'[r] = queue[r]
        /\ Len(q) \in Nat
    BY <1>0, <1>2 DEF TypeOK
  <1>8. Queued'
    <2> HIDE DEF p
    <2>0. ASSUME NEW r \in Pools
          PROVE  /\ \A i \in 1..Len(queue[r]) : queue[r][i] \in Waiting(r)
                 /\ \A u \in Waiting(r) : \E i \in 1..Len(queue[r]) : queue[r][i] = u
                 /\ \A i, j \in 1..Len(queue[r]) : queue[r][i] = queue[r][j] => i = j
      BY DEF Queued
    <2>1. ASSUME NEW r \in Pools
          PROVE  /\ \A i \in 1..Len(queue'[r]) : queue'[r][i] \in Waiting(r)'
                 /\ \A u \in Waiting(r)' : \E i \in 1..Len(queue'[r]) : queue'[r][i] = u
                 /\ \A i, j \in 1..Len(queue'[r]) : queue'[r][i] = queue'[r][j] => i = j
      <3>1. CASE r # p
        BY SMTT(20), <2>0, <1>6, <1>7, <3>1
      <3>2. CASE r = p
        <4>1. /\ t \notin Waiting(r) /\ Waiting(r)' = Waiting(r) \cup {t}
              /\ Len(queue'[r]) = Len(queue[r]) + 1 /\ queue'[r][Len(queue[r]) + 1] = t
              /\ \A i \in 1..Len(queue[r]) : queue'[r][i] = queue[r][i]
              /\ Len(queue[r]) \in Nat
          BY <1>6, <1>7, <3>2
        <4>2. ASSUME NEW u \in Waiting(r)'
              PROVE  \E i \in 1..Len(queue'[r]) : queue'[r][i] = u
          <5>1. CASE u = t
            BY <4>1, <5>1
          <5>2. CASE u # t
            <6>1. PICK i \in 1..Len(queue[r]) : queue[r][i] = u
              BY <2>0, <4>1, <4>2, <5>2
            <6> QED BY <4>1, <6>1
          <5> QED BY <5>1, <5>2
        <4>3. \A i \in 1..Len(queue'[r]) : queue'[r][i] \in Waiting(r)'
          BY <2>0, <4>1
        <4>4. ASSUME NEW i \in 1..Len(queue'[r]), NEW j \in 1..Len(queue'[r]),
                     queue'[r][i] = queue'[r][j]
              PROVE  i = j
          <5>1. i \in 1..Len(queue[r]) \/ i = Len(queue[r]) + 1
            BY <4>1
          <5>2. j \in 1..Len(queue[r]) \/ j = Len(queue[r]) + 1
            BY <4>1
          <5>3. \A k \in 1..Len(queue[r]) : queue'[r][k] # t
            BY <2>0, <4>1
          <5> QED BY <2>0, <4>1, <4>4, <5>1, <5>2, <5>3
        <4> QED BY <4>2, <4>3, <4>4
      <3> QED BY <3>1, <3>2
    <2> QED BY <2>1 DEF Queued
  <1> QED BY <1>1, <1>3, <1>4, <1>5, <1>8

\* A thread leaves a queue, and with it the wait.
LEMMA QueueLeft ==
    ASSUME Queued, NEW p \in Pools, NEW t,
           \A r \in Pools : Waiting(r)' = IF r = p THEN Waiting(r) \ {t} ELSE Waiting(r),
           \A r \in Pools \ {p} : queue'[r] = queue[r],
           \A i \in 1..Len(queue'[p]) :
               queue'[p][i] # t /\ \E j \in 1..Len(queue[p]) : queue'[p][i] = queue[p][j],
           \A j \in 1..Len(queue[p]) :
               queue[p][j] # t => \E i \in 1..Len(queue'[p]) : queue'[p][i] = queue[p][j],
           \A i, j \in 1..Len(queue'[p]) : queue'[p][i] = queue'[p][j] => i = j
    PROVE  Queued'
  <1>0. ASSUME NEW r \in Pools
        PROVE  /\ \A i \in 1..Len(queue[r]) : queue[r][i] \in Waiting(r)
               /\ \A u \in Waiting(r) : \E i \in 1..Len(queue[r]) : queue[r][i] = u
               /\ \A i, j \in 1..Len(queue[r]) : queue[r][i] = queue[r][j] => i = j
    BY DEF Queued
  <1>1. ASSUME NEW r \in Pools
        PROVE  /\ \A i \in 1..Len(queue'[r]) : queue'[r][i] \in Waiting(r)'
               /\ \A u \in Waiting(r)' : \E i \in 1..Len(queue'[r]) : queue'[r][i] = u
               /\ \A i, j \in 1..Len(queue'[r]) : queue'[r][i] = queue'[r][j] => i = j
    <2>1. CASE r # p
      BY <1>0, <2>1
    <2>2. CASE r = p
      <3>1. Waiting(r)' = Waiting(r) \ {t}
        BY <2>2
      <3>2. ASSUME NEW i \in 1..Len(queue'[r])
            PROVE  queue'[r][i] \in Waiting(r)'
        <4>1. PICK j \in 1..Len(queue[r]) : queue'[r][i] = queue[r][j]
          BY <2>2
        <4>2. queue'[r][i] # t
          BY <2>2
        <4> QED BY <1>0, <3>1, <4>1, <4>2
      <3>3. ASSUME NEW u \in Waiting(r)'
            PROVE  \E i \in 1..Len(queue'[r]) : queue'[r][i] = u
        <4>1. PICK j \in 1..Len(queue[r]) : queue[r][j] = u
          BY <1>0, <3>1
        <4>2. u # t
          BY <3>1, <3>3
        <4> QED BY <2>2, <4>1, <4>2
      <3> QED BY <2>2, <3>2, <3>3
    <2> QED BY <2>1, <2>2
  <1> QED BY <1>1 DEF Queued

LEMMA LeaveKeeps ==
    ASSUME IInv, NEW t \in Threads, Leave(t), GivenUp(t) \in Room(t) \ (Asks \cup Permitted)
    PROVE  IInv'
  <1> USE DEF IInv
  <1> DEFINE p == Wants(t)
  <1>0. Goto(t, "leave", GivenUp(t)) /\ queue' = [queue EXCEPT ![p] = Without(queue[p], t)]
        /\ Drop(t, "cpu") /\ UNCHANGED <<task, stopped, foreground>>
    BY DEF Leave
  <1>1. /\ pc' \in [Threads -> Where] /\ Places'
        /\ pc[t] = "leave" /\ pc'[t] = GivenUp(t)
        /\ \A u \in Threads \ {t} : pc'[u] = pc[u]
    BY <1>0, Placed
  <1>2. p \in Pools /\ queue \in [Pools -> Seq(Threads)] /\ queue[p] \in Seq(Threads)
    BY DEF TypeOK, Wants, Pools
  <1>3. /\ free' \in [Pools -> Nat] /\ PermitsConserved'
        /\ holds' \in [Pools -> SUBSET (Threads \cup Tasks)]
    BY <1>0, DropKeeps DEF Pools
  <1>4. holds'["cpu"] = holds["cpu"] \ {t} /\ holds'["gpu"] = holds["gpu"]
    BY <1>0 DEF Drop, TypeOK, Pools
  <1>5. \A i, j \in 1..Len(queue[p]) : queue[p][i] = queue[p][j] => i = j
    BY <1>2 DEF Queued
  <1>6. /\ Without(queue[p], t) \in Seq(Threads)
        /\ queue'[p] = Without(queue[p], t)
        /\ \A r \in Pools \ {p} : queue'[r] = queue[r]
        /\ queue' \in [Pools -> Seq(Threads)]
    <2>1. Without(queue[p], t) \in Seq(Threads)
      BY <1>2, <1>5, Removal
    <2> HIDE DEF p
    <2> QED BY <1>0, <1>2, <2>1
  <1>7. /\ \A i \in 1..Len(queue'[p]) :
             queue'[p][i] # t /\ \E j \in 1..Len(queue[p]) : queue'[p][i] = queue[p][j]
        /\ \A j \in 1..Len(queue[p]) :
             queue[p][j] # t => \E i \in 1..Len(queue'[p]) : queue'[p][i] = queue[p][j]
        /\ \A i, j \in 1..Len(queue'[p]) : queue'[p][i] = queue'[p][j] => i = j
    <2> DEFINE r == Without(queue[p], t)
    <2>1. /\ \A i \in 1..Len(r) : r[i] # t /\ \E j \in 1..Len(queue[p]) : r[i] = queue[p][j]
          /\ \A j \in 1..Len(queue[p]) :
               queue[p][j] # t => \E i \in 1..Len(r) : r[i] = queue[p][j]
          /\ \A i, j \in 1..Len(r) : r[i] = r[j] => i = j
      BY ZenonT(40), <1>2, <1>5, Removal
    <2>2. queue'[p] = r
      BY <1>6
    <2> HIDE DEF p, r
    <2> QED BY <2>1, <2>2
  <1>8. \A r \in Pools : Waiting(r)' = IF r = p THEN Waiting(r) \ {t} ELSE Waiting(r)
    BY <1>1, <1>4 DEF Waiting, Wants, Asks, Waits
  <1>9. Queued'
    <2> HIDE DEF p
    <2> QED BY ZenonT(40), <1>2, <1>6, <1>7, <1>8, QueueLeft
  <1>10. TypeOK'
    BY <1>0, <1>1, <1>3, <1>6 DEF TypeOK
  <1>11. CpuHolders'
    BY <1>1, <1>4 DEF CpuHolders, NeedsGpu
  <1>12. GpuHolders'
    BY <1>1, <1>4 DEF GpuHolders, NeedsGpu, Permitted
  <1>13. TaskHolders'
    BY <1>0, <1>4, Kinds DEF TaskHolders
  <1> QED BY <1>1, <1>3, <1>9, <1>10, <1>11, <1>12, <1>13

LEMMA TakeKeeps ==
    ASSUME IInv, NEW t \in Threads, Take(t)
    PROVE  IInv'
  <1> USE DEF IInv
  <1> DEFINE p == Wants(t)
             b == IF p = "cpu" /\ NeedsGpu(t) THEN "ask" ELSE "granted"
             q == queue[p]
  <1>0. /\ free[p] > 0 /\ q # << >> /\ Head(q) = t
        /\ Goto(t, "decide", b)
        /\ free' = [free EXCEPT ![p] = @ - 1]
        /\ queue' = [queue EXCEPT ![p] = Tail(@)]
        /\ holds' = [holds EXCEPT ![p] = @ \cup {t}]
        /\ UNCHANGED <<task, stopped, foreground>>
    BY DEF Take, Grantable
  <1>1. b \in Room(t)
    BY DEF Room, Asks
  <1>2. /\ pc' \in [Threads -> Where] /\ Places'
        /\ pc[t] = "decide" /\ pc'[t] = b
        /\ \A u \in Threads \ {t} : pc'[u] = pc[u]
    BY <1>0, <1>1, Placed
  <1>3. /\ p \in Pools /\ queue \in [Pools -> Seq(Threads)] /\ q \in Seq(Threads)
        /\ free \in [Pools -> Nat] /\ holds \in [Pools -> SUBSET (Threads \cup Tasks)]
    BY DEF TypeOK, Wants, Pools
  <1>4. t \notin holds[p]
    BY <1>2 DEF GpuHolders, Wants
  <1>5. /\ free'[p] = free[p] - 1 /\ holds'[p] = holds[p] \cup {t}
        /\ queue'[p] = Tail(q) /\ Tail(q) \in Seq(Threads)
        /\ \A r \in Pools \ {p} : free'[r] = free[r] /\ holds'[r] = holds[r] /\ queue'[r] = queue[r]
        /\ free' \in [Pools -> Nat] /\ queue' \in [Pools -> Seq(Threads)]
        /\ holds' \in [Pools -> SUBSET (Threads \cup Tasks)]
    <2> HIDE DEF p
    <2>1. Tail(q) \in Seq(Threads)
      BY <1>0, <1>3
    <2>2. free[p] \in Nat /\ free[p] - 1 \in Nat
      BY <1>0, <1>3
    <2> QED BY <1>0, <1>3, <2>1, <2>2
  <1>6. PermitsConserved'
    <2> HIDE DEF p
    <2>1. IsFiniteSet(holds[p]) /\ Cardinality(holds[p]) \in Nat
      BY <1>3, HoldersAreFinite, FS_CardinalityType
    <2>2. Cardinality(holds[p] \cup {t}) = Cardinality(holds[p]) + 1
      BY <2>1, <1>4, FS_AddElement
    <2>3. ASSUME NEW r \in Pools
          PROVE  free'[r] + Cardinality(holds'[r]) = Size[r]
      <3>1. free[r] + Cardinality(holds[r]) = Size[r]
        BY DEF PermitsConserved
      <3>2. CASE r = p
        <4>1. free[p] \in Nat /\ free'[r] = free[p] - 1 /\ free[r] = free[p]
          BY <1>3, <1>5, <3>2
        <4>2. Cardinality(holds'[r]) = Cardinality(holds[p]) + 1 /\ holds[r] = holds[p]
          BY <1>5, <2>2, <3>2
        <4> QED BY <2>1, <3>1, <4>1, <4>2
      <3>3. CASE r # p
        BY <1>5, <3>1, <3>3
      <3> QED BY <3>2, <3>3
    <2> QED BY <2>3 DEF PermitsConserved
  <1>7. /\ t \in holds'["cpu"]
        /\ \A u \in Threads \ {t} : u \in holds'["cpu"] <=> u \in holds["cpu"]
        /\ \A u \in Threads \ {t} : u \in holds'["gpu"] <=> u \in holds["gpu"]
        /\ p = "cpu" => holds'["gpu"] = holds["gpu"]
        /\ p = "gpu" => t \in holds'["gpu"]
        /\ p = "gpu" => NeedsGpu(t)
    BY <1>2, <1>5 DEF Wants, Pools, CpuHolders, Permitted
  <1>8. CpuHolders'
    BY <1>2, <1>7 DEF CpuHolders, NeedsGpu, Permitted, Asks, Waits
  <1>9. GpuHolders'
    <2>1. p = "cpu" \/ p = "gpu"
      BY DEF Wants
    <2>2. t \in holds'["gpu"] <=> NeedsGpu(t) /\ pc'[t] = "granted"
      BY <1>2, <1>7, <2>1 DEF GpuHolders
    <2>3. \A u \in Threads \ {t} : u \in holds'["gpu"] <=> NeedsGpu(u) /\ pc'[u] = "granted"
      BY <1>2, <1>7 DEF GpuHolders
    <2>4. \A u \in Threads : NeedsGpu(u)' <=> NeedsGpu(u)
      BY DEF NeedsGpu
    <2> QED BY <2>2, <2>3, <2>4 DEF GpuHolders
  <1>10. TaskHolders'
    <2>1. \A k \in Tasks : k # t
      BY Kinds
    <2> QED BY <1>0, <1>3, <2>1 DEF TaskHolders, Pools
  <1>11. TypeOK'
    BY <1>0, <1>2, <1>5 DEF TypeOK
  <1>12. Queued'
    <2> HIDE DEF p
    <2>1. \A r \in Pools : Waiting(r)' = IF r = p THEN Waiting(r) \ {t} ELSE Waiting(r)
      BY <1>2, <1>7 DEF Waiting, Wants, Waits, p
    <2>2. \A i, j \in 1..Len(q) : q[i] = q[j] => i = j
      BY <1>3 DEF Queued
    <2>3. /\ Len(q) \in Nat \ {0} /\ q[1] = t /\ Len(queue'[p]) = Len(q) - 1
          /\ \A i \in 1..(Len(q) - 1) : queue'[p][i] = q[i + 1]
      BY <1>0, <1>3, <1>5
    <2>4. \A i \in 1..Len(queue'[p]) :
             queue'[p][i] # t /\ \E j \in 1..Len(q) : queue'[p][i] = q[j]
      BY SMTT(20), <2>2, <2>3
    <2>5. ASSUME NEW j \in 1..Len(q), q[j] # t
          PROVE  \E i \in 1..Len(queue'[p]) : queue'[p][i] = q[j]
      <3>1. j - 1 \in 1..Len(queue'[p]) /\ queue'[p][j - 1] = q[j]
        BY <2>3, <2>5
      <3> QED BY <3>1
    <2>6. \A i, j \in 1..Len(queue'[p]) : queue'[p][i] = queue'[p][j] => i = j
      BY <2>2, <2>3
    <2>7. p \in Pools /\ \A r \in Pools \ {p} : queue'[r] = queue[r]
      BY <1>3, <1>5
    <2>8. \A j \in 1..Len(q) : q[j] # t => \E i \in 1..Len(queue'[p]) : queue'[p][i] = q[j]
      BY <2>5
    <2> QED BY <2>1, <2>4, <2>6, <2>7, <2>8, QueueLeft
  <1> QED BY <1>2, <1>6, <1>8, <1>9, <1>10, <1>11, <1>12

LEMMA AcquireKeeps ==
    ASSUME IInv, NEW t \in Threads, Acquire(t)
    PROVE  IInv'
  <1>1. CASE Ask(t)
    BY <1>1, AskKeeps
  <1>2. CASE ReadCancelled(t) \/ Retry(t)
    <2>1. PICK b \in Waits : Goto(t, pc[t], b)
      BY <1>2 DEF ReadCancelled, Retry, Goto, Waits
    <2>2. b \in Room(t) /\ pc[t] \in Waits /\ UNCHANGED <<free, queue, holds, task, stopped, foreground>>
      BY <1>2, <2>1 DEF ReadCancelled, Retry, Goto, Waits, Room, Asks
    <2>3. /\ pc' \in [Threads -> Where] /\ Places' /\ pc'[t] = b
          /\ \A u \in Threads \ {t} : pc'[u] = pc[u]
      BY <2>1, <2>2, Placed DEF IInv
    <2>4. TypeOK'
      BY <2>2, <2>3 DEF IInv, TypeOK
    <2>5. CpuHolders' /\ GpuHolders' /\ TaskHolders'
      BY <2>2, <2>3 DEF IInv, CpuHolders, GpuHolders, TaskHolders, NeedsGpu, Permitted, Asks, Waits
    <2>6. Queued'
      BY <2>2, <2>3, QueueFrame DEF IInv
    <2>7. PermitsConserved'
      BY <2>2 DEF IInv, PermitsConserved
    <2> QED BY <2>3, <2>4, <2>5, <2>6, <2>7 DEF IInv
  <1>3. CASE Leave(t)
    <2>1. GivenUp(t) \in {"drain", "gate", "collect", "receive", "off"}
      BY DEF GivenUp, Threads
    <2>2. GivenUp(t) \in Room(t)
      <3>1. Dispatcher # Prepare /\ Dispatcher # Infer /\ Prepare # Infer
        BY ThreadAssumption
      <3>2. \A x \in {Dispatcher, Prepare, Infer} : x \notin Exotics /\ x \notin Enhancers
        BY ThreadAssumption
      <3>3. CASE t \in {Dispatcher, Prepare, Infer}
        BY <3>1, <3>2, <3>3, Rooms DEF GivenUp
      <3>4. CASE t \in Exotics
        BY <3>2, <3>4, Rooms DEF GivenUp
      <3>5. CASE t \in Enhancers
        <4>1. t \notin Exotics
          BY <3>5, ThreadAssumption
        <4> QED BY <3>2, <3>5, <4>1, Rooms DEF GivenUp
      <3> QED BY <3>3, <3>4, <3>5 DEF Threads
    <2>3. GivenUp(t) \notin Asks \cup Permitted
      BY <2>1 DEF Asks, Waits, Permitted
    <2> QED BY <1>3, <2>2, <2>3, LeaveKeeps
  <1>4. CASE Take(t)
    BY <1>4, TakeKeeps
  <1> QED BY <1>1, <1>2, <1>3, <1>4 DEF Acquire

-----------------------------------------------------------------------------
(* The users of the pools, one lemma each. *)

LEMMA TypeKept ==
    ASSUME IInv
    PROVE  stopped \in [Runs -> BOOLEAN] /\ foreground \in Activities
  BY DEF IInv, TypeOK

LEMMA SpawnKeeps ==
    ASSUME IInv, NEW k \in Tasks, Spawn(k)
    PROVE  IInv'
  <1> USE DEF IInv
  <1>0. /\ task[k] = "none" /\ Goto(Dispatcher, "granted", "recv")
        /\ task' = [task EXCEPT ![k] = "spawned"]
        /\ holds' = [holds EXCEPT !["cpu"] = (@ \ {Dispatcher}) \cup {k}]
        /\ UNCHANGED <<free, queue, stopped, foreground>>
    BY DEF Spawn
  <1>1. /\ pc' \in [Threads -> Where] /\ Places'
        /\ pc[Dispatcher] = "granted" /\ pc'[Dispatcher] = "recv"
        /\ \A u \in Threads \ {Dispatcher} : pc'[u] = pc[u]
    BY <1>0, Kinds, Rooms, Placed
  <1>2. /\ holds'["cpu"] = (holds["cpu"] \ {Dispatcher}) \cup {k}
        /\ holds'["gpu"] = holds["gpu"]
        /\ holds' \in [Pools -> SUBSET (Threads \cup Tasks)]
        /\ task' \in [Tasks -> {"none", "spawned", "running"}]
        /\ task'[k] = "spawned" /\ \A j \in Tasks \ {k} : task'[j] = task[j]
    BY <1>0 DEF TypeOK, Pools
  <1>3. k \notin Threads /\ k \notin holds["cpu"] /\ Dispatcher \in holds["cpu"]
        /\ Dispatcher \notin Tasks
    BY <1>0, <1>1, Kinds DEF TaskHolders, CpuHolders, Permitted
  <1>4. TypeOK'
    BY <1>0, <1>1, <1>2 DEF TypeOK
  <1>5. CpuHolders'
    BY <1>1, <1>2, <1>3, Kinds DEF CpuHolders, NeedsGpu, Permitted
  <1>6. GpuHolders'
    BY <1>1, <1>2, Kinds DEF GpuHolders, NeedsGpu
  <1>7. TaskHolders'
    BY <1>2, <1>3 DEF TaskHolders
  <1>8. Queued'
    <2>1. \A u \in Threads : pc'[u] \in Waits <=> pc[u] \in Waits
      BY <1>1 DEF Waits
    <2>2. \A u \in Threads : pc[u] \in Waits => (u \in holds'["cpu"] <=> u \in holds["cpu"])
      BY <1>1, <1>2, <1>3 DEF Waits
    <2> QED BY <1>0, <2>1, <2>2, QueueFrame
  <1>9. PermitsConserved'
    <2>1. "cpu" \in Pools /\ "gpu" \in Pools
      BY DEF Pools
    <2>2. IsFiniteSet(holds["cpu"]) /\ Cardinality(holds["cpu"]) \in Nat
      BY <2>1, HoldersAreFinite, FS_CardinalityType
    <2> DEFINE S == holds["cpu"] \ {Dispatcher}
    <2>3. IsFiniteSet(S) /\ Cardinality(S) = Cardinality(holds["cpu"]) - 1
      BY <1>3, <2>2, FS_RemoveElement
    <2>4. k \notin S
      BY <1>3
    <2>5. Cardinality(S \cup {k}) = Cardinality(S) + 1
      <3> HIDE DEF S
      <3> QED BY <2>3, <2>4, FS_AddElement
    <2>6. Cardinality(holds'["cpu"]) = Cardinality(holds["cpu"])
      BY <1>2, <2>2, <2>3, <2>5
    <2>7. \A r \in Pools : Cardinality(holds'[r]) = Cardinality(holds[r])
      BY <1>2, <2>6 DEF Pools
    <2> QED BY <1>0, <2>7 DEF PermitsConserved
  <1> QED BY <1>1, <1>4, <1>5, <1>6, <1>7, <1>8, <1>9

LEMMA TasksKeep ==
    ASSUME IInv, NEW k \in Tasks, RunTask(k) \/ EndTask(k)
    PROVE  IInv'
  <1> USE DEF IInv
  <1>0. k \notin Threads /\ UNCHANGED <<queue, pc, stopped, foreground>>
    BY Kinds DEF RunTask, EndTask
  <1>1. Places'
    BY <1>0 DEF Places, Room, Asks, Waits
  <1>2. CASE RunTask(k)
    <2>1. /\ task[k] = "spawned" /\ task' = [task EXCEPT ![k] = "running"]
          /\ UNCHANGED <<free, holds>>
      BY <1>2 DEF RunTask
    <2>2. TypeOK' /\ TaskHolders'
      BY <1>0, <2>1 DEF TypeOK, TaskHolders
    <2>3. CpuHolders' /\ GpuHolders'
      BY <1>0, <2>1 DEF CpuHolders, GpuHolders, NeedsGpu
    <2>4. Queued' /\ PermitsConserved'
      BY <1>0, <2>1, QueueFrame DEF PermitsConserved
    <2> QED BY <1>1, <2>2, <2>3, <2>4
  <1>3. CASE EndTask(k)
    <2>1. /\ task[k] = "running" /\ task' = [task EXCEPT ![k] = "none"] /\ Drop(k, "cpu")
      BY <1>3 DEF EndTask
    <2>2. /\ free' \in [Pools -> Nat] /\ PermitsConserved'
          /\ holds' \in [Pools -> SUBSET (Threads \cup Tasks)]
      BY <2>1, DropKeeps DEF Pools
    <2>3. holds'["cpu"] = holds["cpu"] \ {k} /\ holds'["gpu"] = holds["gpu"]
      BY <2>1 DEF Drop, TypeOK, Pools
    <2>4. TypeOK' /\ TaskHolders'
      BY <1>0, <2>1, <2>2, <2>3 DEF TypeOK, TaskHolders
    <2>5. \A t \in Threads : t # k
      BY <1>0
    <2>6. CpuHolders' /\ GpuHolders'
      BY <1>0, <2>3, <2>5 DEF CpuHolders, GpuHolders, NeedsGpu
    <2>7. Queued'
      BY <1>0, <2>3, <2>5, QueueFrame
    <2> QED BY <1>1, <2>2, <2>4, <2>6, <2>7
  <1> QED BY <1>2, <1>3

LEMMA DispatchKeeps ==
    ASSUME IInv, StartDerive \/ Dispatch
    PROVE  IInv'
  <1>1. CASE StartDerive
    <2>1. Goto(Dispatcher, "off", "enter") /\ UNCHANGED <<free, queue, holds, task, foreground>>
          /\ stopped' \in [Runs -> BOOLEAN]
      BY <1>1, TypeKept DEF StartDerive, Runs
    <2>2. "enter" \in Room(Dispatcher) /\ Harmless(Dispatcher, "off", "enter")
      BY Kinds, Rooms DEF Harmless, Asks, Waits, Permitted
    <2> QED BY <2>1, <2>2, Kinds, QuietMove
  <1>2. CASE EnterScope
    <2>1. Goto(Dispatcher, "enter", "recv") /\ UNCHANGED <<free, queue, holds, task, foreground>>
          /\ stopped' \in [Runs -> BOOLEAN]
      BY <1>2, TypeKept DEF EnterScope, Quiet
    <2>2. "recv" \in Room(Dispatcher) /\ Harmless(Dispatcher, "enter", "recv")
      BY Kinds, Rooms DEF Harmless, Asks, Waits, Permitted
    <2> QED BY <2>1, <2>2, Kinds, QuietMove
  <1>3. CASE Quiet /\ Goto(Dispatcher, "recv", "gate")
    <2>1. Goto(Dispatcher, "recv", "gate") /\ UNCHANGED <<free, queue, holds, task, foreground>>
          /\ stopped' \in [Runs -> BOOLEAN]
      BY <1>3, TypeKept DEF Quiet
    <2>2. "gate" \in Room(Dispatcher) /\ Harmless(Dispatcher, "recv", "gate")
      BY Kinds, Rooms DEF Harmless, Asks, Waits, Permitted
    <2> QED BY <2>1, <2>2, Kinds, QuietMove
  <1>4. CASE Quiet /\ Goto(Dispatcher, "recv", "drain")
    <2>1. Goto(Dispatcher, "recv", "drain") /\ UNCHANGED <<free, queue, holds, task, foreground>>
          /\ stopped' \in [Runs -> BOOLEAN]
      BY <1>4, TypeKept DEF Quiet
    <2>2. "drain" \in Room(Dispatcher) /\ Harmless(Dispatcher, "recv", "drain")
      BY Kinds, Rooms DEF Harmless, Asks, Waits, Permitted
    <2> QED BY <2>1, <2>2, Kinds, QuietMove
  <1>5. CASE Quiet /\ Goto(Dispatcher, "gate", "drain")
    <2>1. Goto(Dispatcher, "gate", "drain") /\ UNCHANGED <<free, queue, holds, task, foreground>>
          /\ stopped' \in [Runs -> BOOLEAN]
      BY <1>5, TypeKept DEF Quiet
    <2>2. "drain" \in Room(Dispatcher) /\ Harmless(Dispatcher, "gate", "drain")
      BY Kinds, Rooms DEF Harmless, Asks, Waits, Permitted
    <2> QED BY <2>1, <2>2, Kinds, QuietMove
  <1>6. CASE Quiet /\ Goto(Dispatcher, "gate", "ask")
    <2>1. Goto(Dispatcher, "gate", "ask") /\ UNCHANGED <<free, queue, holds, task, foreground>>
          /\ stopped' \in [Runs -> BOOLEAN]
      BY <1>6, TypeKept DEF Quiet
    <2>2. "ask" \in Room(Dispatcher) /\ Harmless(Dispatcher, "gate", "ask")
      BY Kinds, Rooms DEF Harmless, Asks, Waits, Permitted
    <2> QED BY <2>1, <2>2, Kinds, QuietMove
  <1>7. CASE \E k \in Tasks : Spawn(k)
    BY <1>7, SpawnKeeps
  <1>8. CASE EndScope
    <2>1. Goto(Dispatcher, "drain", "off") /\ UNCHANGED <<free, queue, holds, task, foreground>>
          /\ stopped' \in [Runs -> BOOLEAN]
      BY <1>8, TypeKept DEF EndScope, Quiet
    <2>2. "off" \in Room(Dispatcher) /\ Harmless(Dispatcher, "drain", "off")
      BY Kinds, Rooms DEF Harmless, Asks, Waits, Permitted
    <2> QED BY <2>1, <2>2, Kinds, QuietMove
  <1>9. CASE Acquire(Dispatcher)
    BY <1>9, Kinds, AcquireKeeps
  <1> QED BY <1>1, <1>2, <1>3, <1>4, <1>5, <1>6, <1>7, <1>8, <1>9, Zenon DEF Dispatch, Receive, DeriveGate

LEMMA ExoticKeeps ==
    ASSUME IInv, NEW e \in Exotics, ExoticStep(e)
    PROVE  IInv'
  <1>1. CASE Quiet /\ Goto(e, "recv", "gate")
    <2>1. Goto(e, "recv", "gate") /\ UNCHANGED <<free, queue, holds, task, foreground>>
          /\ stopped' \in [Runs -> BOOLEAN]
      BY <1>1, TypeKept DEF Quiet
    <2>2. "gate" \in Room(e) /\ Harmless(e, "recv", "gate")
      BY Kinds, Rooms DEF Harmless, Asks, Waits, Permitted
    <2> QED BY <2>1, <2>2, Kinds, QuietMove
  <1>2. CASE Quiet /\ Goto(e, "recv", "off")
    <2>1. Goto(e, "recv", "off") /\ UNCHANGED <<free, queue, holds, task, foreground>>
          /\ stopped' \in [Runs -> BOOLEAN]
      BY <1>2, TypeKept DEF Quiet
    <2>2. "off" \in Room(e) /\ Harmless(e, "recv", "off")
      BY Kinds, Rooms DEF Harmless, Asks, Waits, Permitted
    <2> QED BY <2>1, <2>2, Kinds, QuietMove
  <1>3. CASE Quiet /\ Goto(e, "gate", "off")
    <2>1. Goto(e, "gate", "off") /\ UNCHANGED <<free, queue, holds, task, foreground>>
          /\ stopped' \in [Runs -> BOOLEAN]
      BY <1>3, TypeKept DEF Quiet
    <2>2. "off" \in Room(e) /\ Harmless(e, "gate", "off")
      BY Kinds, Rooms DEF Harmless, Asks, Waits, Permitted
    <2> QED BY <2>1, <2>2, Kinds, QuietMove
  <1>4. CASE Quiet /\ Goto(e, "gate", "ask")
    <2>1. Goto(e, "gate", "ask") /\ UNCHANGED <<free, queue, holds, task, foreground>>
          /\ stopped' \in [Runs -> BOOLEAN]
      BY <1>4, TypeKept DEF Quiet
    <2>2. "ask" \in Room(e) /\ Harmless(e, "gate", "ask")
      BY Kinds, Rooms DEF Harmless, Asks, Waits, Permitted
    <2> QED BY <2>1, <2>2, Kinds, QuietMove
  <1>5. CASE Acquire(e)
    BY <1>5, Kinds, AcquireKeeps
  <1>6. CASE Quiet /\ Goto(e, "granted", "handshake")
    <2>1. Goto(e, "granted", "handshake") /\ UNCHANGED <<free, queue, holds, task, foreground>>
          /\ stopped' \in [Runs -> BOOLEAN]
      BY <1>6, TypeKept DEF Quiet
    <2>2. "handshake" \in Room(e) /\ Harmless(e, "granted", "handshake")
      BY Kinds, Rooms DEF Harmless, Asks, Waits, Permitted
    <2> QED BY <2>1, <2>2, Kinds, QuietMove
  <1>7. CASE Release(e, "cpu") /\ Goto(e, "granted", "gate")
    <2>1. /\ Goto(e, "granted", "gate") /\ Drop(e, "cpu")
          /\ UNCHANGED <<queue, task, foreground>> /\ stopped' \in [Runs -> BOOLEAN]
      BY <1>7, TypeKept DEF Release
    <2>2. /\ "gate" \in Room(e) /\ "granted" \notin Asks /\ "gate" \notin Waits \cup Permitted
          /\ "granted" = "granted" => ~NeedsGpu(e)
      BY Kinds, Rooms DEF Asks, Waits, Permitted
    <2> QED BY <2>1, <2>2, Kinds, ReleaseCpu
  <1>8. CASE Release(e, "cpu") /\ Goto(e, "granted", "off")
    <2>1. /\ Goto(e, "granted", "off") /\ Drop(e, "cpu")
          /\ UNCHANGED <<queue, task, foreground>> /\ stopped' \in [Runs -> BOOLEAN]
      BY <1>8, TypeKept DEF Release
    <2>2. /\ "off" \in Room(e) /\ "granted" \notin Asks /\ "off" \notin Waits \cup Permitted
          /\ "granted" = "granted" => ~NeedsGpu(e)
      BY Kinds, Rooms DEF Asks, Waits, Permitted
    <2> QED BY <2>1, <2>2, Kinds, ReleaseCpu
  <1>9. CASE Quiet /\ Goto(e, "handshake", "armed")
    <2>1. Goto(e, "handshake", "armed") /\ UNCHANGED <<free, queue, holds, task, foreground>>
          /\ stopped' \in [Runs -> BOOLEAN]
      BY <1>9, TypeKept DEF Quiet
    <2>2. "armed" \in Room(e) /\ Harmless(e, "handshake", "armed")
      BY Kinds, Rooms DEF Harmless, Asks, Waits, Permitted
    <2> QED BY <2>1, <2>2, Kinds, QuietMove
  <1>10. CASE Release(e, "cpu") /\ Goto(e, "handshake", "off")
    <2>1. /\ Goto(e, "handshake", "off") /\ Drop(e, "cpu")
          /\ UNCHANGED <<queue, task, foreground>> /\ stopped' \in [Runs -> BOOLEAN]
      BY <1>10, TypeKept DEF Release
    <2>2. /\ "off" \in Room(e) /\ "handshake" \notin Asks /\ "off" \notin Waits \cup Permitted
          /\ "handshake" = "granted" => ~NeedsGpu(e)
      BY Kinds, Rooms DEF Asks, Waits, Permitted
    <2> QED BY <2>1, <2>2, Kinds, ReleaseCpu
  <1>11. CASE Release(e, "cpu") /\ Goto(e, "handshake", "recv")
    <2>1. /\ Goto(e, "handshake", "recv") /\ Drop(e, "cpu")
          /\ UNCHANGED <<queue, task, foreground>> /\ stopped' \in [Runs -> BOOLEAN]
      BY <1>11, TypeKept DEF Release
    <2>2. /\ "recv" \in Room(e) /\ "handshake" \notin Asks /\ "recv" \notin Waits \cup Permitted
          /\ "handshake" = "granted" => ~NeedsGpu(e)
      BY Kinds, Rooms DEF Asks, Waits, Permitted
    <2> QED BY <2>1, <2>2, Kinds, ReleaseCpu
  <1>12. CASE Quiet /\ Goto(e, "armed", "working")
    <2>1. Goto(e, "armed", "working") /\ UNCHANGED <<free, queue, holds, task, foreground>>
          /\ stopped' \in [Runs -> BOOLEAN]
      BY <1>12, TypeKept DEF Quiet
    <2>2. "working" \in Room(e) /\ Harmless(e, "armed", "working")
      BY Kinds, Rooms DEF Harmless, Asks, Waits, Permitted
    <2> QED BY <2>1, <2>2, Kinds, QuietMove
  <1>13. CASE Release(e, "cpu") /\ Goto(e, "armed", "gate")
    <2>1. /\ Goto(e, "armed", "gate") /\ Drop(e, "cpu")
          /\ UNCHANGED <<queue, task, foreground>> /\ stopped' \in [Runs -> BOOLEAN]
      BY <1>13, TypeKept DEF Release
    <2>2. /\ "gate" \in Room(e) /\ "armed" \notin Asks /\ "gate" \notin Waits \cup Permitted
          /\ "armed" = "granted" => ~NeedsGpu(e)
      BY Kinds, Rooms DEF Asks, Waits, Permitted
    <2> QED BY <2>1, <2>2, Kinds, ReleaseCpu
  <1>14. CASE Release(e, "cpu") /\ Goto(e, "armed", "off")
    <2>1. /\ Goto(e, "armed", "off") /\ Drop(e, "cpu")
          /\ UNCHANGED <<queue, task, foreground>> /\ stopped' \in [Runs -> BOOLEAN]
      BY <1>14, TypeKept DEF Release
    <2>2. /\ "off" \in Room(e) /\ "armed" \notin Asks /\ "off" \notin Waits \cup Permitted
          /\ "armed" = "granted" => ~NeedsGpu(e)
      BY Kinds, Rooms DEF Asks, Waits, Permitted
    <2> QED BY <2>1, <2>2, Kinds, ReleaseCpu
  <1>15. CASE Release(e, "cpu") /\ Goto(e, "working", "off")
    <2>1. /\ Goto(e, "working", "off") /\ Drop(e, "cpu")
          /\ UNCHANGED <<queue, task, foreground>> /\ stopped' \in [Runs -> BOOLEAN]
      BY <1>15, TypeKept DEF Release
    <2>2. /\ "off" \in Room(e) /\ "working" \notin Asks /\ "off" \notin Waits \cup Permitted
          /\ "working" = "granted" => ~NeedsGpu(e)
      BY Kinds, Rooms DEF Asks, Waits, Permitted
    <2> QED BY <2>1, <2>2, Kinds, ReleaseCpu
  <1>16. CASE Release(e, "cpu") /\ Goto(e, "working", "recv")
    <2>1. /\ Goto(e, "working", "recv") /\ Drop(e, "cpu")
          /\ UNCHANGED <<queue, task, foreground>> /\ stopped' \in [Runs -> BOOLEAN]
      BY <1>16, TypeKept DEF Release
    <2>2. /\ "recv" \in Room(e) /\ "working" \notin Asks /\ "recv" \notin Waits \cup Permitted
          /\ "working" = "granted" => ~NeedsGpu(e)
      BY Kinds, Rooms DEF Asks, Waits, Permitted
    <2> QED BY <2>1, <2>2, Kinds, ReleaseCpu
  <1> QED BY <1>1, <1>2, <1>3, <1>4, <1>5, <1>6, <1>7, <1>8, <1>9, <1>10, <1>11, <1>12, <1>13, <1>14, <1>15, <1>16, Zenon DEF ExoticStep, Receive, ExoticGate, Checked, Handshake, Thumbnail

LEMMA PrepareKeeps ==
    ASSUME IInv, PrepareStep
    PROVE  IInv'
  <1>1. CASE Quiet /\ Goto(Prepare, "collect", "ask")
    <2>1. Goto(Prepare, "collect", "ask") /\ UNCHANGED <<free, queue, holds, task, foreground>>
          /\ stopped' \in [Runs -> BOOLEAN]
      BY <1>1, TypeKept DEF Quiet
    <2>2. "ask" \in Room(Prepare) /\ Harmless(Prepare, "collect", "ask")
      BY Kinds, Rooms DEF Harmless, Asks, Waits, Permitted
    <2> QED BY <2>1, <2>2, Kinds, QuietMove
  <1>2. CASE Quiet /\ Goto(Prepare, "collect", "off")
    <2>1. Goto(Prepare, "collect", "off") /\ UNCHANGED <<free, queue, holds, task, foreground>>
          /\ stopped' \in [Runs -> BOOLEAN]
      BY <1>2, TypeKept DEF Quiet
    <2>2. "off" \in Room(Prepare) /\ Harmless(Prepare, "collect", "off")
      BY Kinds, Rooms DEF Harmless, Asks, Waits, Permitted
    <2> QED BY <2>1, <2>2, Kinds, QuietMove
  <1>3. CASE PrepareFails
    <2>1. /\ Goto(Prepare, "granted", "off") /\ Drop(Prepare, "cpu")
          /\ UNCHANGED <<queue, task, foreground>> /\ stopped' \in [Runs -> BOOLEAN]
      BY <1>3, TypeKept DEF PrepareFails, Runs
    <2>2. /\ "off" \in Room(Prepare) /\ "granted" \notin Asks /\ "off" \notin Waits \cup Permitted
          /\ "granted" = "granted" => ~NeedsGpu(Prepare)
      BY Kinds, Rooms DEF Asks, Waits, Permitted
    <2> QED BY <2>1, <2>2, Kinds, ReleaseCpu
  <1>4. CASE Inject
    <2>1. Goto(Prepare, "granted", "inject") /\ UNCHANGED <<free, queue, holds, task, foreground>>
          /\ stopped' \in [Runs -> BOOLEAN]
      BY <1>4, TypeKept DEF Inject, Quiet
    <2>2. "inject" \in Room(Prepare) /\ Harmless(Prepare, "granted", "inject")
      BY Kinds, Rooms DEF Harmless, Asks, Waits, Permitted
    <2> QED BY <2>1, <2>2, Kinds, QuietMove
  <1>5. CASE Derive
    <2>1. Goto(Prepare, "inject", "deriving") /\ UNCHANGED <<free, queue, holds, task, foreground>>
          /\ stopped' \in [Runs -> BOOLEAN]
      BY <1>5, TypeKept DEF Derive, Quiet
    <2>2. "deriving" \in Room(Prepare) /\ Harmless(Prepare, "inject", "deriving")
      BY Kinds, Rooms DEF Harmless, Asks, Waits, Permitted
    <2> QED BY <2>1, <2>2, Kinds, QuietMove
  <1>6. CASE Release(Prepare, "cpu") /\ Goto(Prepare, "deriving", "collect")
    <2>1. /\ Goto(Prepare, "deriving", "collect") /\ Drop(Prepare, "cpu")
          /\ UNCHANGED <<queue, task, foreground>> /\ stopped' \in [Runs -> BOOLEAN]
      BY <1>6, TypeKept DEF Release
    <2>2. /\ "collect" \in Room(Prepare) /\ "deriving" \notin Asks /\ "collect" \notin Waits \cup Permitted
          /\ "deriving" = "granted" => ~NeedsGpu(Prepare)
      BY Kinds, Rooms DEF Asks, Waits, Permitted
    <2> QED BY <2>1, <2>2, Kinds, ReleaseCpu
  <1>7. CASE Release(Prepare, "cpu") /\ Goto(Prepare, "deriving", "offer")
    <2>1. /\ Goto(Prepare, "deriving", "offer") /\ Drop(Prepare, "cpu")
          /\ UNCHANGED <<queue, task, foreground>> /\ stopped' \in [Runs -> BOOLEAN]
      BY <1>7, TypeKept DEF Release
    <2>2. /\ "offer" \in Room(Prepare) /\ "deriving" \notin Asks /\ "offer" \notin Waits \cup Permitted
          /\ "deriving" = "granted" => ~NeedsGpu(Prepare)
      BY Kinds, Rooms DEF Asks, Waits, Permitted
    <2> QED BY <2>1, <2>2, Kinds, ReleaseCpu
  <1>8. CASE OfferEnds
    <2>1. Goto(Prepare, "offer", "off") /\ UNCHANGED <<free, queue, holds, task, foreground>>
          /\ stopped' \in [Runs -> BOOLEAN]
      BY <1>8, TypeKept DEF OfferEnds, Quiet
    <2>2. "off" \in Room(Prepare) /\ Harmless(Prepare, "offer", "off")
      BY Kinds, Rooms DEF Harmless, Asks, Waits, Permitted
    <2> QED BY <2>1, <2>2, Kinds, QuietMove
  <1>9. CASE Acquire(Prepare)
    BY <1>9, Kinds, AcquireKeeps
  <1> QED BY <1>1, <1>2, <1>3, <1>4, <1>5, <1>6, <1>7, <1>8, <1>9, Zenon DEF PrepareStep, Collect, Derived

LEMMA PairKeeps ==
    ASSUME IInv, StartAnalysis \/ HandOver \/ StartExotic
    PROVE  IInv'
  <1> USE DEF IInv
  <1>1. /\ UNCHANGED <<free, queue, holds, task>> /\ foreground' \in Activities
        /\ stopped' \in [Runs -> BOOLEAN]
    BY TypeKept DEF StartAnalysis, HandOver, StartExotic, Quiet, Runs
  <1>2. pc \in [Threads -> Where] /\ \A t \in Threads : pc[t] \in Room(t)
    BY DEF TypeOK, Places
  <1>3. \A t \in Threads : pc'[t] = pc[t]
          \/ (Harmless(t, pc[t], pc'[t]) /\ pc'[t] \in Room(t))
    <2>1. CASE StartAnalysis
      <3>1. /\ pc[Prepare] = "off" /\ pc[Infer] = "off"
            /\ pc' = [pc EXCEPT ![Prepare] = "collect", ![Infer] = "receive"]
        BY <2>1 DEF StartAnalysis
      <3>2. /\ pc'[Prepare] = "collect" /\ pc'[Infer] = "receive"
            /\ \A t \in Threads \ {Prepare, Infer} : pc'[t] = pc[t]
        BY <1>2, <3>1, Kinds, ThreadAssumption
      <3> QED BY <3>1, <3>2, Rooms DEF Harmless, Asks, Waits, Permitted
    <2>2. CASE HandOver
      <3>1. PICK to \in {"ask", "receive"} :
              /\ pc[Prepare] = "offer" /\ pc[Infer] = "receive"
              /\ pc' = [pc EXCEPT ![Prepare] = "collect", ![Infer] = to]
        BY <2>2 DEF HandOver
      <3>2. /\ pc'[Prepare] = "collect" /\ pc'[Infer] = to
            /\ \A t \in Threads \ {Prepare, Infer} : pc'[t] = pc[t]
        BY <1>2, <3>1, Kinds, ThreadAssumption
      <3> QED BY <3>1, <3>2, Rooms DEF Harmless, Asks, Waits, Permitted
    <2>3. CASE StartExotic
      <3>1. /\ \A e \in Exotics : pc[e] \in {"off", "absent"}
            /\ pc' = [t \in Threads |-> IF t \in Exotics /\ pc[t] = "off" THEN "recv" ELSE pc[t]]
        BY <2>3 DEF StartExotic
      <3> QED BY <3>1, Rooms DEF Harmless, Asks, Waits, Permitted
    <2> QED BY <2>1, <2>2, <2>3
  <1>4. \A t \in Threads : pc'[t] \in Room(t)
    BY <1>2, <1>3
  <1>5. \A t \in Threads : Room(t)' = Room(t)
    BY DEF Room, Asks, Waits
  <1>6. Places'
    BY <1>4, <1>5 DEF Places
  <1>7. pc' \in [Threads -> Where]
    <2>1. \A t \in Threads : pc'[t] \in Where
      BY <1>4, RoomsAreKnown
    <2>2. pc' = [t \in Threads |-> pc'[t]]
      BY <1>2 DEF StartAnalysis, HandOver, StartExotic
    <2> QED BY <2>1, <2>2
  <1> QED BY <1>1, <1>3, <1>6, <1>7, Moves

LEMMA InferKeeps ==
    ASSUME IInv, InferStep
    PROVE  IInv'
  <1>1. CASE StopReceiving
    <2>1. Goto(Infer, "receive", "join") /\ UNCHANGED <<free, queue, holds, task, foreground>>
          /\ stopped' \in [Runs -> BOOLEAN]
      BY <1>1, TypeKept DEF StopReceiving, Runs
    <2>2. "join" \in Room(Infer) /\ Harmless(Infer, "receive", "join")
      BY Kinds, Rooms DEF Harmless, Asks, Waits, Permitted
    <2> QED BY <2>1, <2>2, Kinds, QuietMove
  <1>2. CASE Join
    <2>1. Goto(Infer, "join", "off") /\ UNCHANGED <<free, queue, holds, task, foreground>>
          /\ stopped' \in [Runs -> BOOLEAN]
      BY <1>2, TypeKept DEF Join, Quiet
    <2>2. "off" \in Room(Infer) /\ Harmless(Infer, "join", "off")
      BY Kinds, Rooms DEF Harmless, Asks, Waits, Permitted
    <2> QED BY <2>1, <2>2, Kinds, QuietMove
  <1>3. CASE WorkerEnds(Infer)
    BY <1>3, Kinds, Rooms, WorkerEndsKeeps
  <1>4. CASE Inferred
    <2>1. /\ Goto(Infer, "returning", "receive") /\ Drop(Infer, "cpu")
          /\ UNCHANGED <<queue, task, foreground>> /\ stopped' \in [Runs -> BOOLEAN]
      BY <1>4, TypeKept DEF Inferred, Release
    <2>2. /\ "receive" \in Room(Infer) /\ "returning" \notin Asks /\ "receive" \notin Waits \cup Permitted
          /\ "returning" = "granted" => ~NeedsGpu(Infer)
      BY Kinds, Rooms DEF Asks, Waits, Permitted
    <2> QED BY <2>1, <2>2, Kinds, ReleaseCpu
  <1>5. CASE InferFails
    <2>1. /\ Goto(Infer, "returning", "join") /\ Drop(Infer, "cpu")
          /\ UNCHANGED <<queue, task, foreground>> /\ stopped' \in [Runs -> BOOLEAN]
      BY <1>5, TypeKept DEF InferFails, Runs
    <2>2. /\ "join" \in Room(Infer) /\ "returning" \notin Asks /\ "join" \notin Waits \cup Permitted
          /\ "returning" = "granted" => ~NeedsGpu(Infer)
      BY Kinds, Rooms DEF Asks, Waits, Permitted
    <2> QED BY <2>1, <2>2, Kinds, ReleaseCpu
  <1>6. CASE HandOver
    BY <1>6, PairKeeps
  <1>7. CASE Acquire(Infer)
    BY <1>7, Kinds, AcquireKeeps
  <1> QED BY <1>1, <1>2, <1>3, <1>4, <1>5, <1>6, <1>7, Zenon DEF InferStep

LEMMA EnhanceKeeps ==
    ASSUME IInv, NEW h \in Enhancers, StartEnhance(h) \/ EnhanceStep(h)
    PROVE  IInv'
  <1>1. CASE StartEnhance(h)
    <2>1. Goto(h, "off", "lock") /\ UNCHANGED <<free, queue, holds, task, foreground>>
          /\ stopped' \in [Runs -> BOOLEAN]
      BY <1>1, TypeKept DEF StartEnhance, Runs
    <2>2. "lock" \in Room(h) /\ Harmless(h, "off", "lock")
      BY Kinds, Rooms DEF Harmless, Asks, Waits, Permitted
    <2> QED BY <2>1, <2>2, Kinds, QuietMove
  <1>2. CASE Quiet /\ Goto(h, "lock", "ask")
    <2>1. Goto(h, "lock", "ask") /\ UNCHANGED <<free, queue, holds, task, foreground>>
          /\ stopped' \in [Runs -> BOOLEAN]
      BY <1>2, TypeKept DEF Quiet
    <2>2. "ask" \in Room(h) /\ Harmless(h, "lock", "ask")
      BY Kinds, Rooms DEF Harmless, Asks, Waits, Permitted
    <2> QED BY <2>1, <2>2, Kinds, QuietMove
  <1>3. CASE Quiet /\ Goto(h, "lock", "off")
    <2>1. Goto(h, "lock", "off") /\ UNCHANGED <<free, queue, holds, task, foreground>>
          /\ stopped' \in [Runs -> BOOLEAN]
      BY <1>3, TypeKept DEF Quiet
    <2>2. "off" \in Room(h) /\ Harmless(h, "lock", "off")
      BY Kinds, Rooms DEF Harmless, Asks, Waits, Permitted
    <2> QED BY <2>1, <2>2, Kinds, QuietMove
  <1>4. CASE Acquire(h)
    BY <1>4, Kinds, AcquireKeeps
  <1>5. CASE WorkerEnds(h)
    BY <1>5, Kinds, Rooms, WorkerEndsKeeps
  <1>6. CASE Enhanced(h)
    <2>1. /\ Goto(h, "returning", "off") /\ Drop(h, "cpu")
          /\ UNCHANGED <<queue, task, foreground>> /\ stopped' \in [Runs -> BOOLEAN]
      BY <1>6, TypeKept DEF Enhanced, Release
    <2>2. /\ "off" \in Room(h) /\ "returning" \notin Asks /\ "off" \notin Waits \cup Permitted
          /\ "returning" = "granted" => ~NeedsGpu(h)
      BY Kinds, Rooms DEF Asks, Waits, Permitted
    <2> QED BY <2>1, <2>2, Kinds, ReleaseCpu
  <1> QED BY <1>1, <1>2, <1>3, <1>4, <1>5, <1>6, Zenon DEF EnhanceStep, LockHandle

LEMMA AroundKeeps ==
    ASSUME IInv,
           (\E r \in Runs : Stop(r)) \/ (\E a \in Activities : Activity(a)) \/ UNCHANGED vars
    PROVE  IInv'
  <1> USE DEF IInv
  <1>1. /\ UNCHANGED <<free, queue, holds, pc, task>>
        /\ stopped' \in [Runs -> BOOLEAN] /\ foreground' \in Activities
    BY TypeKept DEF Stop, Activity, vars
  <1>2. Places' /\ pc' \in [Threads -> Where]
    BY <1>1 DEF Places, Room, Asks, Waits, TypeOK
  <1> QED BY <1>1, <1>2, Moves

-----------------------------------------------------------------------------
(* The theorems. *)

LEMMA InitHolds == Init => IInv
  <1> SUFFICES ASSUME Init PROVE IInv
    OBVIOUS
  <1> USE DEF Init
  <1>1. TypeOK
    BY PoolAssumption DEF TypeOK, Size, Where, Pools
  <1>2. Places /\ CpuHolders /\ GpuHolders /\ TaskHolders
    BY Kinds DEF Places, Room, CpuHolders, GpuHolders, TaskHolders, Pools, Permitted
  <1>3. Queued
    <2>1. \A p \in Pools : queue[p] = << >> /\ Len(queue[p]) = 0
      OBVIOUS
    <2>2. \A p \in Pools : Waiting(p) = {}
      BY DEF Waiting
    <2> QED BY <2>1, <2>2 DEF Queued
  <1>4. PermitsConserved
    <2>1. \A p \in Pools : Cardinality(holds[p]) = 0 /\ free[p] = Size[p] /\ Size[p] \in Nat
      BY FS_EmptySet, PoolAssumption DEF Size, Pools
    <2> QED BY <2>1 DEF PermitsConserved
  <1> QED BY <1>1, <1>2, <1>3, <1>4 DEF IInv

LEMMA NextKeeps ==
    ASSUME IInv, [Next]_vars
    PROVE  IInv'
  <1>1. CASE Start
    BY <1>1, DispatchKeeps, PairKeeps, EnhanceKeeps DEF Start
  <1>2. CASE Dispatch
    BY <1>2, DispatchKeeps
  <1>3. CASE PrepareStep
    BY <1>3, PrepareKeeps
  <1>4. CASE InferStep
    BY <1>4, InferKeeps
  <1>5. CASE \E k \in Tasks : RunTask(k) \/ EndTask(k)
    BY <1>5, TasksKeep
  <1>6. CASE \E e \in Exotics : ExoticStep(e)
    BY <1>6, ExoticKeeps
  <1>7. CASE \E h \in Enhancers : EnhanceStep(h)
    BY <1>7, EnhanceKeeps
  <1>8. CASE (\E r \in Runs : Stop(r)) \/ (\E a \in Activities : Activity(a)) \/ UNCHANGED vars
    BY <1>8, AroundKeeps
  <1> QED BY <1>1, <1>2, <1>3, <1>4, <1>5, <1>6, <1>7, <1>8, Zenon DEF Next

LEMMA Invariant == Spec => []IInv
  BY InitHolds, NextKeeps, PTL DEF Spec

\* Every variable keeps its type; in particular the number of permits that are
\* available never falls below zero.
THEOREM TypeCorrect == Spec => []TypeOK
  <1>1. IInv => TypeOK
    BY DEF IInv
  <1> QED BY <1>1, Invariant, PTL

\* BackgroundHeavyLimiter and GpuToken neither lose nor invent a permit, in any
\* interleaving of any number of users, stops, failures and pauses.
THEOREM Conservation == Spec => []PermitsConserved
  <1>1. IInv => PermitsConserved
    BY DEF IInv
  <1> QED BY <1>1, Invariant, PTL

\* The queue holds the tickets of the threads that wait, each once: cancelling
\* or giving way never leaves one behind.
THEOREM TicketsReturned == Spec => []NoTicketLeaks
  <1>1. IInv => NoTicketLeaks
    <2> SUFFICES ASSUME IInv PROVE NoTicketLeaks
      OBVIOUS
    <2>1. ASSUME NEW p \in Pools
          PROVE  {queue[p][i] : i \in 1..Len(queue[p])} = Waiting(p)
      BY DEF IInv, Queued
    <2>2. ASSUME NEW p \in Pools
          PROVE  \A i, j \in 1..Len(queue[p]) : queue[p][i] = queue[p][j] => i = j
      BY DEF IInv, Queued
    <2> QED BY <2>1, <2>2 DEF NoTicketLeaks
  <1> QED BY <1>1, Invariant, PTL

\* A thread that waits for work, for its partner or for the user holds nothing,
\* and the GPU token is only ever held together with a CPU permit.
THEOREM IdleThreadsHoldNothing == Spec => []IdleHoldsNothing
  <1>1. IInv => IdleHoldsNothing
    BY DEF IInv, CpuHolders, GpuHolders, IdleHoldsNothing, Permitted, Asks, Waits
  <1> QED BY <1>1, Invariant, PTL

-----------------------------------------------------------------------------
(* No circle of waits. *)

\* All rayon threads are busy: besides the dispatcher one of them has work that
\* waits for nothing, and that work has a permit.
LEMMA WorkersWork ==
    ASSUME IInv, Cores >= 2, ~WorkerIdle
    PROVE  \E x \in holds["cpu"] : CanGoOn(x)
  <1> DEFINE running == {k \in Tasks : task[k] = "running"}
  <1>1. CASE running # {}
    <2>1. PICK k \in Tasks : task[k] = "running"
      BY <1>1
    <2>2. k \in holds["cpu"] /\ CanGoOn(k)
      BY <2>1 DEF IInv, TaskHolders, CanGoOn
    <2> QED BY <2>2
  <1>2. CASE running = {}
    <2>1. Cardinality(running) = 0
      BY <1>2, FS_EmptySet
    <2>2. ~(Busy < Cores)
      BY DEF WorkerIdle
    <2>3. pc[Prepare] = "deriving"
      BY <2>1, <2>2, PoolAssumption DEF Busy
    <2>4. Prepare \in holds["cpu"]
      BY <2>3, Kinds DEF IInv, CpuHolders, Permitted
    <2>5. CanGoOn(Prepare)
      BY <2>3, Kinds, ThreadAssumption DEF CanGoOn, Permitted
    <2> QED BY <2>4, <2>5
  <1> QED BY <1>1, <1>2

\* The dispatcher with a permit finds a place for its job.
LEMMA RoomForTheJob ==
    ASSUME IInv, Cardinality(Tasks) >= Cpu, pc[Dispatcher] = "granted"
    PROVE  InFlight # Tasks
  <1> SUFFICES ASSUME InFlight = Tasks PROVE FALSE
    OBVIOUS
  <1>1. "cpu" \in Pools /\ Size["cpu"] = Cpu
    BY DEF Size, Pools
  <1>2. Dispatcher \in holds["cpu"] /\ Dispatcher \notin Tasks
    BY Kinds DEF IInv, CpuHolders, Permitted
  <1>3. Tasks \subseteq holds["cpu"]
    BY DEF IInv, TaskHolders, InFlight
  <1>4. IsFiniteSet(holds["cpu"]) /\ IsFiniteSet(Tasks)
    BY <1>1, HoldersAreFinite, PoolAssumption DEF IInv
  <1>5. Cardinality(Tasks \cup {Dispatcher}) = Cardinality(Tasks) + 1 /\ IsFiniteSet(Tasks \cup {Dispatcher})
    BY <1>2, <1>4, FS_AddElement
  <1>6. Cardinality(Tasks \cup {Dispatcher}) <= Cardinality(holds["cpu"])
    BY <1>2, <1>3, <1>4, FS_Subset
  <1>7. free["cpu"] + Cardinality(holds["cpu"]) = Cpu /\ free["cpu"] \in Nat
    BY <1>1 DEF IInv, PermitsConserved, TypeOK
  <1>8. Cardinality(holds["cpu"]) \in Nat /\ Cardinality(Tasks) \in Nat /\ Cpu \in Nat
    BY <1>4, FS_CardinalityType, PoolAssumption
  <1> QED BY <1>5, <1>6, <1>7, <1>8

\* A pool with a line has a first in it, and one without a free permit a holder.
LEMMA FirstOrHolder ==
    ASSUME IInv, NEW p \in Pools, Waiting(p) # {}
    PROVE  (\E t \in Waiting(p) : Grantable(t)) \/ holds[p] # {}
  <1>1. queue[p] \in Seq(Threads) /\ free[p] \in Nat
    BY DEF IInv, TypeOK
  <1>2. queue[p] # << >> /\ Head(queue[p]) = queue[p][1] /\ 1 \in 1..Len(queue[p])
    BY <1>1 DEF IInv, Queued
  <1>3. Head(queue[p]) \in Waiting(p)
    BY <1>2 DEF IInv, Queued
  <1>4. CASE free[p] > 0
    BY <1>2, <1>3, <1>4 DEF Grantable, Waiting
  <1>5. CASE free[p] = 0
    <2>1. Size[p] > 0
      BY PoolAssumption DEF Size, Pools
    <2>2. holds[p] = {} => Cardinality(holds[p]) = 0
      BY FS_EmptySet
    <2> QED BY <1>5, <2>1, <2>2 DEF IInv, PermitsConserved
  <1> QED BY <1>1, <1>4, <1>5

LEMMA GpuMovesOn ==
    ASSUME IInv, NEW t \in holds["gpu"]
    PROVE  t \in holds["cpu"] /\ CanGoOn(t)
  <1>1. "gpu" \in Pools /\ t \in Threads \cup Tasks
    BY DEF IInv, TypeOK, Pools
  <1>2. t \in Threads /\ NeedsGpu(t) /\ pc[t] = "granted"
    BY <1>1 DEF IInv, GpuHolders, TaskHolders
  <1> QED BY <1>2, Kinds DEF IInv, CpuHolders, CanGoOn, Permitted

LEMMA HoldersMoveOn ==
    ASSUME IInv, Cores >= 2, Cardinality(Tasks) >= Cpu, NEW x \in holds["cpu"]
    PROVE  \E y \in holds["cpu"] : CanGoOn(y) \/ (y \in Threads /\ InQueue(y) /\ Grantable(y))
  <1>0. "cpu" \in Pools /\ "gpu" \in Pools /\ x \in Threads \cup Tasks
    BY DEF IInv, TypeOK, Pools
  <1>1. CASE x \in Tasks
    <2>1. task[x] \in {"spawned", "running"}
      BY <1>1 DEF IInv, TypeOK, TaskHolders
    <2>2. CanGoOn(x) \/ ~WorkerIdle
      BY <1>1, <2>1 DEF CanGoOn
    <2> QED BY <2>2, WorkersWork
  <1>2. CASE x \in Threads /\ pc[x] \in Permitted
    <2>1. x = Dispatcher => pc[x] = "granted"
      <3>1. pc[x] \in Room(x)
        BY <1>2 DEF IInv, Places
      <3> QED BY <1>2, <3>1, Rooms DEF Permitted, Asks, Waits
    <2>2. x = Dispatcher => InFlight # Tasks
      BY <2>1, RoomForTheJob
    <2>3. CanGoOn(x) \/ ~WorkerIdle
      BY <1>2, <2>2 DEF CanGoOn
    <2> QED BY <2>3, WorkersWork
  <1>3. CASE x \in Threads /\ NeedsGpu(x) /\ pc[x] = "ask"
    BY <1>3 DEF CanGoOn
  <1>4. CASE x \in Threads /\ NeedsGpu(x) /\ pc[x] \in Waits
    <2>1. x \in Waiting("gpu")
      BY <1>4 DEF Waiting, Wants, Waits
    <2>2. CASE holds["gpu"] # {}
      BY <2>2, GpuMovesOn
    <2>3. CASE \E t \in Waiting("gpu") : Grantable(t)
      <3>1. PICK t \in Waiting("gpu") : Grantable(t)
        BY <2>3
      <3>2. t \in Threads /\ t \in holds["cpu"] /\ InQueue(t)
        BY <1>0 DEF Waiting, Wants, InQueue
      <3> QED BY <3>1, <3>2
    <2> QED BY <1>0, <2>1, <2>2, <2>3, FirstOrHolder
  <1> QED
    BY <1>0, <1>1, <1>2, <1>3, <1>4 DEF IInv, CpuHolders, Asks

\* With two rayon threads, and as many job slots as permits (the program bounds
\* the jobs only by their permits), derivation, exotic workers, analysis and
\* enhancement never close a circle of waits, however many of them there are.
\* With a single rayon thread they do.
THEOREM NoCircleOfPermits ==
    ASSUME Cores >= 2, Cardinality(Tasks) >= Cpu
    PROVE  Spec => []NobodyWaitsInVain
  <1>1. IInv => NobodyWaitsInVain
    <2> SUFFICES ASSUME IInv, NEW p \in Pools, Waiting(p) # {},
                        ~(\E t \in Waiting(p) : Grantable(t))
                 PROVE  \E x \in holds[p] :
                            CanGoOn(x) \/ (x \in Threads /\ InQueue(x) /\ Grantable(x))
      BY DEF NobodyWaitsInVain
    <2>1. PICK x : x \in holds[p]
      BY FirstOrHolder
    <2>2. CASE p = "cpu"
      BY <2>1, <2>2, HoldersMoveOn
    <2>3. CASE p = "gpu"
      BY <2>1, <2>3, GpuMovesOn
    <2> QED BY <2>2, <2>3 DEF Pools
  <1> QED BY <1>1, Invariant, PTL

-----------------------------------------------------------------------------
(* First come, first served: the refinement of FairPermits. *)

\* What a step does to the pools: nothing, a step of acquire_cancellable, the
\* drop of a guard, or a permit that moves into a job.
Dropped ==
    /\ UNCHANGED queue
    /\ \/ \E t \in Threads, p \in Pools : Drop(t, p)
       \/ \E k \in Tasks : Drop(k, "cpu")
PoolSteps ==
    \/ UNCHANGED <<queue, holds>>
    \/ \E t \in Threads : Ask(t) \/ Leave(t) \/ Take(t)
    \/ Dropped
    \/ \E k \in Tasks : Spawn(k)

LEMMA ThreadsDrop ==
    ASSUME NEW t \in Threads, NEW p \in Pools, Release(t, p)
    PROVE  PoolSteps
  BY DEF Release, Dropped, PoolSteps

LEMMA AcquireMoves ==
    ASSUME NEW t \in Threads, Acquire(t)
    PROVE  PoolSteps
  <1>1. CASE Ask(t) \/ Leave(t) \/ Take(t)
    BY <1>1 DEF PoolSteps
  <1>2. CASE ReadCancelled(t) \/ Retry(t)
    BY <1>2 DEF ReadCancelled, Retry, PoolSteps
  <1> QED BY <1>1, <1>2 DEF Acquire

LEMMA OnlyThese ==
    ASSUME [Next]_vars
    PROVE  PoolSteps
  <1>0. "cpu" \in Pools /\ "gpu" \in Pools
    BY DEF Pools
  <1>q. Quiet => PoolSteps
    BY DEF Quiet, PoolSteps
  <1>1. CASE Start
    BY <1>1 DEF Start, StartDerive, StartExotic, StartAnalysis, StartEnhance, PoolSteps
  <1>2. CASE Dispatch
    <2>1. Acquire(Dispatcher) => PoolSteps
      BY AcquireMoves, Kinds
    <2>2. (\E k \in Tasks : Spawn(k)) => PoolSteps
      BY DEF PoolSteps
    <2> QED BY <1>2, <1>q, <2>1, <2>2 DEF Dispatch, EnterScope, Receive, DeriveGate, EndScope
  <1>3. CASE PrepareStep
    <2>1. Acquire(Prepare) => PoolSteps
      BY AcquireMoves, Kinds
    <2>2. PrepareFails => PoolSteps
      BY <1>0, Kinds DEF PrepareFails, Dropped, PoolSteps
    <2>3. Derived => PoolSteps
      BY <1>0, Kinds, ThreadsDrop DEF Derived
    <2> QED
      BY <1>3, <1>q, <2>1, <2>2, <2>3 DEF PrepareStep, Collect, Inject, Derive, OfferEnds
  <1>4. CASE InferStep
    <2>1. Acquire(Infer) => PoolSteps
      BY AcquireMoves, Kinds
    <2>2. InferFails => PoolSteps
      BY <1>0, Kinds DEF InferFails, Dropped, PoolSteps
    <2>3. WorkerEnds(Infer) \/ Inferred => PoolSteps
      BY <1>0, Kinds, ThreadsDrop DEF WorkerEnds, Inferred
    <2>4. StopReceiving => PoolSteps
      BY DEF StopReceiving, PoolSteps
    <2> QED BY <1>4, <1>q, <2>1, <2>2, <2>3, <2>4 DEF InferStep, Join, HandOver
  <1>5. ASSUME NEW k \in Tasks, RunTask(k) \/ EndTask(k)
        PROVE  PoolSteps
    BY <1>5 DEF RunTask, EndTask, Dropped, PoolSteps
  <1>6. ASSUME NEW e \in Exotics, ExoticStep(e)
        PROVE  PoolSteps
    <2>1. e \in Threads
      BY Kinds
    <2>2. Acquire(e) => PoolSteps
      BY <2>1, AcquireMoves
    <2>3. Release(e, "cpu") => PoolSteps
      BY <1>0, <2>1, ThreadsDrop
    <2> QED
      BY <1>6, <1>q, <2>2, <2>3 DEF ExoticStep, Receive, ExoticGate, Checked, Handshake, Thumbnail
  <1>7. ASSUME NEW h \in Enhancers, EnhanceStep(h)
        PROVE  PoolSteps
    <2>1. h \in Threads
      BY Kinds
    <2>2. Acquire(h) => PoolSteps
      BY <2>1, AcquireMoves
    <2>3. Release(h, "cpu") \/ Release(h, "gpu") => PoolSteps
      BY <1>0, <2>1, ThreadsDrop
    <2> QED BY <1>7, <1>q, <2>2, <2>3 DEF EnhanceStep, LockHandle, WorkerEnds, Enhanced
  <1>8. CASE (\E r \in Runs : Stop(r)) \/ (\E a \in Activities : Activity(a)) \/ UNCHANGED vars
    BY <1>8 DEF Stop, Activity, vars, PoolSteps
  <1> QED BY <1>1, <1>2, <1>3, <1>4, <1>5, <1>6, <1>7, <1>8 DEF Next

\* Who asks holds no permit of that pool and has no ticket for it.
LEMMA AskJoins ==
    ASSUME IInv, NEW t \in Threads, Ask(t), NEW p, p = Wants(t)
    PROVE  /\ p \in Pools
           /\ t \notin holds[p] /\ t \notin ToSet(queue[p])
           /\ queue'[p] = Append(queue[p], t)
           /\ holds' = holds /\ \A r \in Pools \ {p} : queue'[r] = queue[r]
  <1>1. p \in Pools /\ pc[t] = "ask"
    BY DEF Wants, Pools, Ask, Goto
  <1>2. t \notin holds[p]
    BY <1>1 DEF Wants, IInv, GpuHolders
  <1>3. t \notin ToSet(queue[p])
    <2>1. t \notin Waiting(p)
      BY <1>1 DEF Waiting
    <2> QED BY <1>1, <2>1 DEF ToSet, IInv, Queued
  <1> QED BY <1>1, <1>2, <1>3 DEF Ask, IInv, TypeOK

\* Who gives up takes his own ticket out, and with it the CPU permit if the
\* wait was for the GPU token.
LEMMA LeaveGivesUp ==
    ASSUME IInv, NEW t \in Threads, Leave(t), NEW p, p = Wants(t)
    PROVE  /\ p \in Pools
           /\ \E i \in 1..Len(queue[p]) : queue'[p] = RemoveAt(queue[p], i)
           /\ \A r \in Pools \ {p} : queue'[r] = queue[r]
           /\ holds'["cpu"] = holds["cpu"] \ {t} /\ holds'["gpu"] = holds["gpu"]
           /\ p = "cpu" => t \notin holds["cpu"]
  <1>1. p \in Pools /\ pc[t] = "leave"
    BY DEF Wants, Pools, Leave, Goto
  <1>2. queue'[p] = Without(queue[p], t) /\ \A r \in Pools \ {p} : queue'[r] = queue[r]
    BY <1>1 DEF Leave, IInv, TypeOK
  <1>3. \E i \in 1..Len(queue[p]) : queue[p][i] = t
    BY <1>1 DEF IInv, Queued, Waiting
  <1> DEFINE at == {i \in 1..Len(queue[p]) : queue[p][i] = t}
  <1>4. (CHOOSE i \in at : TRUE) \in at /\ at # {}
    BY <1>3
  <1>5. Without(queue[p], t) = RemoveAt(queue[p], CHOOSE i \in at : TRUE)
    BY <1>4 DEF Without
  <1>6. holds'["cpu"] = holds["cpu"] \ {t} /\ holds'["gpu"] = holds["gpu"]
    BY DEF Leave, Drop, IInv, TypeOK, Pools
  <1> HIDE DEF at
  <1>7. \E i \in 1..Len(queue[p]) : queue'[p] = RemoveAt(queue[p], i)
    BY <1>2, <1>4, <1>5 DEF at
  <1> QED BY <1>1, <1>2, <1>6, <1>7 DEF Wants

\* A permit goes to the head of the queue, and only if one is left: what is
\* available is what is not held.
LEMMA TakeGrants ==
    ASSUME IInv, NEW t \in Threads, Take(t), NEW p, p = Wants(t)
    PROVE  /\ p \in Pools
           /\ queue[p] # << >> /\ Head(queue[p]) = t /\ t \notin holds[p]
           /\ Cardinality(holds[p]) < Size[p]
           /\ queue'[p] = Tail(queue[p]) /\ holds'[p] = holds[p] \cup {t}
           /\ \A r \in Pools \ {p} : queue'[r] = queue[r] /\ holds'[r] = holds[r]
  <1>1. p \in Pools /\ pc[t] = "decide"
    BY DEF Wants, Pools, Take, Goto
  <1>2. /\ queue[p] # << >> /\ Head(queue[p]) = t /\ free[p] > 0
        /\ queue'[p] = Tail(queue[p]) /\ holds'[p] = holds[p] \cup {t}
        /\ \A r \in Pools \ {p} : queue'[r] = queue[r] /\ holds'[r] = holds[r]
    BY <1>1 DEF Take, Grantable, IInv, TypeOK
  <1>3. t \notin holds[p]
    BY <1>1 DEF Wants, IInv, GpuHolders
  <1>4. Cardinality(holds[p]) < Size[p]
    <2>1. Cardinality(holds[p]) \in Nat /\ free[p] \in Nat
      BY <1>1, HoldersAreFinite, FS_CardinalityType DEF IInv, TypeOK
    <2>2. free[p] + Cardinality(holds[p]) = Size[p]
      BY <1>1 DEF IInv, PermitsConserved
    <2> QED BY <1>2, <2>1, <2>2
  <1> QED BY <1>1, <1>2, <1>3, <1>4

\* The abstract pools count as HeavyPool does.
LEMMA SameCardinality ==
    \A S : CpuPool!Cardinality(S) = Cardinality(S) /\ GpuPool!Cardinality(S) = Cardinality(S)
  BY DEF CpuPool!Cardinality, GpuPool!Cardinality, Cardinality

CpuServes == [CpuPool!Serve]_(CpuPool!permitVars)
GpuServes == [GpuPool!Serve]_(GpuPool!permitVars)

LEMMA StepsServe ==
    ASSUME IInv, [Next]_vars
    PROVE  CpuServes /\ GpuServes
  <1> USE DEF CpuServes, GpuServes, CpuPool!permitVars, GpuPool!permitVars
  <1>0. /\ Pools = {"cpu", "gpu"} /\ Size["cpu"] = Cpu /\ Size["gpu"] = 1
        /\ holds \in [Pools -> SUBSET (Threads \cup Tasks)]
    BY DEF Pools, Size, IInv, TypeOK
  <1>1. CASE UNCHANGED <<queue, holds>>
    BY <1>1
  <1>2. ASSUME NEW t \in Threads, Ask(t)
        PROVE  CpuServes /\ GpuServes
    <2>1. CASE Wants(t) = "cpu"
      <3>1. CpuPool!AskFor(t) /\ UNCHANGED GpuPool!permitVars
        <4>1. /\ t \notin holds["cpu"] /\ t \notin ToSet(queue["cpu"])
              /\ queue'["cpu"] = Append(queue["cpu"], t)
              /\ holds' = holds /\ queue'["gpu"] = queue["gpu"]
          <5>1. "cpu" \in Pools /\ "gpu" \in Pools \ {"cpu"}
            BY <1>0
          <5> QED BY <5>1, <1>2, <2>1, AskJoins
        <4> QED BY <4>1 DEF CpuPool!AskFor, CpuPool!ToSet, ToSet
      <3> QED BY <3>1 DEF CpuPool!Serve
    <2>2. CASE Wants(t) = "gpu"
      <3>1. GpuPool!AskFor(t) /\ UNCHANGED CpuPool!permitVars
        <4>1. /\ t \notin holds["gpu"] /\ t \notin ToSet(queue["gpu"])
              /\ queue'["gpu"] = Append(queue["gpu"], t)
              /\ holds' = holds /\ queue'["cpu"] = queue["cpu"]
          <5>1. "gpu" \in Pools /\ "cpu" \in Pools \ {"gpu"}
            BY <1>0
          <5> QED BY <5>1, <1>2, <2>2, AskJoins
        <4> QED BY <4>1 DEF GpuPool!AskFor, GpuPool!ToSet, ToSet
      <3> QED BY <3>1 DEF GpuPool!Serve
    <2> QED BY <2>1, <2>2 DEF Wants
  <1>3. ASSUME NEW t \in Threads, Leave(t)
        PROVE  CpuServes /\ GpuServes
    <2>1. CASE Wants(t) = "cpu"
      <3>1. CpuPool!GiveUp /\ UNCHANGED GpuPool!permitVars
        <4>1. /\ \E i \in 1..Len(queue["cpu"]) : queue'["cpu"] = RemoveAt(queue["cpu"], i)
              /\ queue'["gpu"] = queue["gpu"] /\ holds'["cpu"] = holds["cpu"] /\ holds'["gpu"] = holds["gpu"]
          <5>1. "cpu" \in Pools /\ "gpu" \in Pools \ {"cpu"}
            BY <1>0
          <5> QED BY <5>1, <1>3, <2>1, LeaveGivesUp
        <4> QED BY <4>1 DEF CpuPool!GiveUp, CpuPool!RemoveAt, RemoveAt
      <3> QED BY <3>1 DEF CpuPool!Serve
    <2>2. CASE Wants(t) = "gpu"
      <3>1. GpuPool!GiveUp
        <4>1. /\ \E i \in 1..Len(queue["gpu"]) : queue'["gpu"] = RemoveAt(queue["gpu"], i)
              /\ queue'["cpu"] = queue["cpu"] /\ holds'["gpu"] = holds["gpu"]
          <5>1. "gpu" \in Pools /\ "cpu" \in Pools \ {"gpu"}
            BY <1>0
          <5> QED BY <5>1, <1>3, <2>2, LeaveGivesUp
        <4> QED BY <4>1 DEF GpuPool!GiveUp, GpuPool!RemoveAt, RemoveAt
      <3>2. CpuPool!GiveBack(t)
        BY <1>0, <1>3, <2>2, LeaveGivesUp DEF CpuPool!GiveBack, Wants
      <3> QED BY <3>1, <3>2 DEF CpuPool!Serve, GpuPool!Serve
    <2> QED BY <2>1, <2>2 DEF Wants
  <1>4. ASSUME NEW t \in Threads, Take(t)
        PROVE  CpuServes /\ GpuServes
    <2>1. CASE Wants(t) = "cpu"
      <3>1. CpuPool!Grant /\ UNCHANGED GpuPool!permitVars
        <4>1. /\ queue["cpu"] # << >> /\ Head(queue["cpu"]) = t /\ t \notin holds["cpu"]
              /\ Cardinality(holds["cpu"]) < Cpu
              /\ queue'["cpu"] = Tail(queue["cpu"]) /\ holds'["cpu"] = holds["cpu"] \cup {t}
              /\ queue'["gpu"] = queue["gpu"] /\ holds'["gpu"] = holds["gpu"]
          <5>1. "cpu" \in Pools /\ "gpu" \in Pools \ {"cpu"}
            BY <1>0
          <5> QED BY <1>0, <5>1, <1>4, <2>1, TakeGrants
        <4> QED BY <4>1, SameCardinality DEF CpuPool!Grant
      <3> QED BY <3>1 DEF CpuPool!Serve
    <2>2. CASE Wants(t) = "gpu"
      <3>1. GpuPool!Grant /\ UNCHANGED CpuPool!permitVars
        <4>1. /\ queue["gpu"] # << >> /\ Head(queue["gpu"]) = t /\ t \notin holds["gpu"]
              /\ Cardinality(holds["gpu"]) < 1
              /\ queue'["gpu"] = Tail(queue["gpu"]) /\ holds'["gpu"] = holds["gpu"] \cup {t}
              /\ queue'["cpu"] = queue["cpu"] /\ holds'["cpu"] = holds["cpu"]
          <5>1. "gpu" \in Pools /\ "cpu" \in Pools \ {"gpu"}
            BY <1>0
          <5> QED BY <1>0, <5>1, <1>4, <2>2, TakeGrants
        <4> QED BY <4>1, SameCardinality DEF GpuPool!Grant
      <3> QED BY <3>1 DEF GpuPool!Serve
    <2> QED BY <2>1, <2>2 DEF Wants
  <1>5. ASSUME UNCHANGED queue,
               NEW u \in Threads \cup Tasks, NEW p \in Pools, Drop(u, p),
               u \in Threads \/ p = "cpu"
        PROVE  CpuServes /\ GpuServes
    <2>1. holds'[p] = holds[p] \ {u} /\ \A r \in Pools \ {p} : holds'[r] = holds[r]
      BY <1>0, <1>5 DEF Drop
    <2>2. CASE u \notin holds[p]
      BY <1>0, <1>5, <2>1, <2>2
    <2>3. CASE u \in holds[p] /\ p = "cpu"
      <3>1. CpuPool!GiveBack(u) /\ UNCHANGED GpuPool!permitVars
        BY <1>0, <1>5, <2>1, <2>3 DEF CpuPool!GiveBack
      <3> QED BY <1>5, <3>1 DEF CpuPool!Serve
    <2>4. CASE u \in holds[p] /\ p = "gpu"
      <3>1. GpuPool!GiveBack(u) /\ UNCHANGED CpuPool!permitVars
        BY <1>0, <1>5, <2>1, <2>4 DEF GpuPool!GiveBack
      <3> QED BY <1>5, <2>4, <3>1 DEF GpuPool!Serve
    <2> QED BY <1>0, <2>2, <2>3, <2>4
  <1>6. ASSUME NEW k \in Tasks, Spawn(k)
        PROVE  CpuServes /\ GpuServes
    <2>1. pc[Dispatcher] = "granted" /\ task[k] = "none"
      BY <1>6 DEF Spawn, Goto
    <2>2. Dispatcher \in holds["cpu"] /\ k \notin holds["cpu"]
      BY <2>1, Kinds DEF IInv, CpuHolders, TaskHolders, Permitted
    <2>3. CpuPool!HandOn(Dispatcher, k) /\ UNCHANGED GpuPool!permitVars
      BY <1>0, <1>6, <2>2 DEF Spawn, CpuPool!HandOn
    <2> QED BY <2>3, Kinds DEF CpuPool!Serve
  <1>7. PoolSteps
    BY OnlyThese
  <1> QED BY <1>0, <1>1, <1>2, <1>3, <1>4, <1>5, <1>6, <1>7 DEF PoolSteps, Dropped

\* First come, first served (the head of exotic/limiter.rs): for any number of
\* users and permits both pools grant in the order of asking, whoever gives up
\* meanwhile, and never more permits than they have.
THEOREM ImplementsFairPermits == Spec => PoolsAreFair
  <1>1. Init => CpuPool!Open /\ GpuPool!Open
    BY DEF Init, Pools, CpuPool!Open, GpuPool!Open
  <1>2. IInv /\ [Next]_vars => CpuServes /\ GpuServes
    BY StepsServe
  <1> QED
    BY <1>1, <1>2, Invariant, PTL
    DEF Spec, PoolsAreFair, CpuPool!Spec, GpuPool!Spec, CpuServes, GpuServes
=============================================================================
