------------------------------ MODULE HeavyPool ------------------------------
(***************************************************************************)
(* The two permit pools every heavy background job of the program goes     *)
(* through (exotic/limiter.rs), and all of their users:                    *)
(*                                                                         *)
(*   "cpu"   BackgroundHeavyLimiter, max(2, parallelism) permits           *)
(*   "gpu"   GpuToken, one permit, always asked for with a CPU permit held *)
(*                                                                         *)
(*   Dispatcher, Tasks   derive/pipeline.rs: a dispatcher takes a permit   *)
(*                       per task and moves it into a rayon job            *)
(*   Exotics             exotic/pipeline.rs: the worker threads, which     *)
(*                       give way to scanning, thumbnails and the user     *)
(*   Prepare, Infer      ai/prepared.rs with ai/worker_pipeline.rs (the    *)
(*                       face pipeline has the same shape): one thread     *)
(*                       prepares a batch, hands it over without a buffer, *)
(*                       the other runs it on the GPU                      *)
(*   Enhancers           enhance/service.rs: queued jobs and previews, one *)
(*                       at a time behind the lock of the worker handle    *)
(*                                                                         *)
(* A ticket is the thread that drew it: a thread waits in one queue at a   *)
(* time.  The rayon pool is part of the model because permits are held by  *)
(* jobs that wait for one of its threads.  Left out: what the jobs compute, *)
(* and the channels to the database writers, which need no permit and      *)
(* drain until closed: a derivation job keeps its permit while it waits    *)
(* for room in one (derive/pipeline.rs 676).                               *)
(***************************************************************************)
EXTENDS Naturals, Sequences, FiniteSets, SequencesExt

CONSTANTS
    Cpu,          \* permits of the CPU pool
    Cores,        \* threads of the rayon pool
    Dispatcher, Tasks, Exotics, Prepare, Infer, Enhancers,
    Previews,     \* the enhancers whose token nobody cancels
    Teams,        \* which threads are there at all: a run looks at each team
    Activities    \* what the foreground does in it

Threads == {Dispatcher, Prepare, Infer} \cup Exotics \cup Enhancers
Pools == {"cpu", "gpu"}
Size == [p \in Pools |-> IF p = "cpu" THEN Cpu ELSE 1]

\* One cancellation token per pipeline, and one per enhancement job.
Runs == {"derive", "exotic", "analysis"} \cup Enhancers
RunOf(t) == CASE t = Dispatcher -> "derive"
              [] t \in {Prepare, Infer} -> "analysis"
              [] t \in Exotics -> "exotic"
              [] t \in Enhancers -> t

ASSUME PoolAssumption ==
    /\ Cpu \in Nat \ {0}
    /\ Cores \in Nat \ {0}
    /\ IsFiniteSet(Threads) /\ IsFiniteSet(Tasks)
    /\ "idle" \in Activities /\ Activities \subseteq {"idle", "interacting", "scanning"}

ASSUME ThreadAssumption ==
    /\ Dispatcher \notin {Prepare, Infer} /\ Prepare # Infer
    /\ {Dispatcher, Prepare, Infer} \cap (Exotics \cup Enhancers) = {}
    /\ Exotics \cap Enhancers = {}
    /\ Threads \cap Tasks = {}
    /\ Enhancers \cap {"derive", "exotic", "analysis"} = {}

VARIABLES
    free,        \* LimiterState.available
    queue,       \* LimiterState.queue
    holds,       \* the owners of the pool's HeavyPermits
    pc,          \* where each thread is
    task,        \* the rayon jobs of the derivation
    stopped,     \* the cancellation tokens
    foreground   \* what the throttles read: idle, interacting or scanning

vars == <<free, queue, holds, pc, task, stopped, foreground>>

Init ==
    /\ free = Size
    /\ queue = [p \in Pools |-> << >>]
    /\ holds = [p \in Pools |-> {}]
    /\ \E team \in Teams : pc = [t \in Threads |-> IF t \in team THEN "off" ELSE "absent"]
    /\ task = [k \in Tasks |-> "none"]
    /\ stopped = [r \in Runs |-> FALSE]
    /\ foreground = "idle"

Stopped(t) == stopped[RunOf(t)]
Goto(t, from, to) == pc[t] = from /\ pc' = [pc EXCEPT ![t] = to]
InFlight == {k \in Tasks : task[k] # "none"}

\* should_yield_exotic
Yield == foreground # "idle"

\* The dispatcher's loop is the closure of rayon::scope, so it runs on a thread
\* of the pool until the loop ends; from then on that thread runs jobs too.
OnWorker == {"recv", "gate", "ask", "wait", "decide", "leave", "granted"}
Busy ==
    Cardinality({k \in Tasks : task[k] = "running"})
      + (IF pc[Dispatcher] \in OnWorker THEN 1 ELSE 0)
      + (IF pc[Prepare] = "deriving" THEN 1 ELSE 0)
WorkerIdle == Busy < Cores

-----------------------------------------------------------------------------
(* The pool. *)

\* A thread that holds a CPU permit and asks again asks for the GPU token.
Wants(t) == IF t \in holds["cpu"] THEN "gpu" ELSE "cpu"
NeedsGpu(t) == t \in {Infer} \cup Enhancers

\* The predicate of acquire_cancellable: exotic workers also leave to give way.
Cancelled(t) == Stopped(t) \/ (t \in Exotics /\ Yield)

\* Mutant: a waiter that gives up leaves its ticket in the queue.
WithoutNobody(q, t) == q
Without(q, t) ==
    LET at == {i \in 1..Len(q) : q[i] = t}
    IN  IF at = {} THEN q ELSE RemoveAt(q, CHOOSE i \in at : TRUE)

\* Mutant: every drop counts a permit, also of a thread that got none.
DropTwice(t, p) ==
    /\ free' = [free EXCEPT ![p] = @ + 1]
    /\ holds' = [holds EXCEPT ![p] = @ \ {t}]

\* The drop of a guard returns its permit.
Drop(t, p) ==
    /\ free' = [free EXCEPT ![p] = @ + (IF t \in holds[p] THEN 1 ELSE 0)]
    /\ holds' = [holds EXCEPT ![p] = @ \ {t}]

Ask(t) ==
    /\ Goto(t, "ask", "wait")
    /\ queue' = [queue EXCEPT ![Wants(t)] = Append(@, t)]
    /\ UNCHANGED <<free, holds, task, stopped, foreground>>

\* The predicate is evaluated before the pool is locked, and may be out of date
\* by then: "decide" and "leave" remember what it said.
ReadCancelled(t) ==
    /\ Goto(t, "wait", IF Cancelled(t) THEN "leave" ELSE "decide")
    /\ UNCHANGED <<free, queue, holds, task, stopped, foreground>>

\* Where a thread goes when acquire returned None.
GivenUp(t) == CASE t = Dispatcher -> "drain"
                [] t \in Exotics -> "gate"
                [] t = Prepare -> "collect"
                [] t = Infer -> "receive"
                [] t \in Enhancers -> "off"

\* Mutant: the permit of the first pool is kept when the wait for the second ends.
LeaveWithPermit(t) ==
    /\ Goto(t, "leave", GivenUp(t))
    /\ queue' = [queue EXCEPT ![Wants(t)] = Without(@, t)]
    /\ UNCHANGED <<free, holds, task, stopped, foreground>>

Leave(t) ==
    /\ Goto(t, "leave", GivenUp(t))
    /\ queue' = [queue EXCEPT ![Wants(t)] = Without(@, t)]
    /\ Drop(t, "cpu")
    /\ UNCHANGED <<task, stopped, foreground>>

\* Mutant: whoever wakes first takes the permit.
GrantableToAnyone(t) == free[Wants(t)] > 0

Grantable(t) ==
    LET p == Wants(t) IN free[p] > 0 /\ queue[p] # << >> /\ Head(queue[p]) = t

Take(t) ==
    LET p == Wants(t) IN
    /\ Grantable(t)
    /\ Goto(t, "decide", IF p = "cpu" /\ NeedsGpu(t) THEN "ask" ELSE "granted")
    /\ free' = [free EXCEPT ![p] = @ - 1]
    /\ queue' = [queue EXCEPT ![p] = Tail(@)]
    /\ holds' = [holds EXCEPT ![p] = @ \cup {t}]
    /\ UNCHANGED <<task, stopped, foreground>>

\* Woken by the condition variable or after CANCEL_POLL.
Retry(t) ==
    /\ ~Grantable(t)
    /\ Goto(t, "decide", "wait")
    /\ UNCHANGED <<free, queue, holds, task, stopped, foreground>>

Acquire(t) == Ask(t) \/ ReadCancelled(t) \/ Leave(t) \/ Take(t) \/ Retry(t)

\* A step of t that touches no pool, and one that drops a permit.
Quiet == UNCHANGED <<free, queue, holds, task, stopped, foreground>>
Release(t, p) == Drop(t, p) /\ UNCHANGED <<queue, task, stopped, foreground>>

-----------------------------------------------------------------------------
(* Derivation. *)

StartDerive ==
    /\ Goto(Dispatcher, "off", "enter")
    /\ stopped' = [stopped EXCEPT !["derive"] = FALSE]
    /\ UNCHANGED <<free, queue, holds, task, foreground>>

\* The scope's closure is injected into the rayon pool.
EnterScope == WorkerIdle /\ Goto(Dispatcher, "enter", "recv") /\ Quiet

\* The next task, or the producer is done; a stop ends the loop either way.
Receive(t, none) ==
    /\ \/ ~Stopped(t) /\ Goto(t, "recv", "gate")
       \/ Goto(t, "recv", none)
    /\ Quiet

\* Scans and thumbnails pause the derivation, a user at work leaves it one task.
Throttled ==
    \/ foreground = "scanning"
    \/ foreground = "interacting" /\ InFlight # {}

DeriveGate ==
    /\ \/ Stopped(Dispatcher) /\ Goto(Dispatcher, "gate", "drain")
       \/ ~Stopped(Dispatcher) /\ ~Throttled /\ Goto(Dispatcher, "gate", "ask")
    /\ Quiet

\* The permit moves into the closure of the job.
Spawn(k) ==
    /\ task[k] = "none"
    /\ Goto(Dispatcher, "granted", "recv")
    /\ task' = [task EXCEPT ![k] = "spawned"]
    /\ holds' = [holds EXCEPT !["cpu"] = (@ \ {Dispatcher}) \cup {k}]
    /\ UNCHANGED <<free, queue, stopped, foreground>>

\* The scope waits for its jobs.
EndScope == InFlight = {} /\ Goto(Dispatcher, "drain", "off") /\ Quiet

Dispatch == EnterScope \/ Receive(Dispatcher, "drain") \/ DeriveGate
              \/ (\E k \in Tasks : Spawn(k)) \/ EndScope \/ Acquire(Dispatcher)

RunTask(k) ==
    /\ WorkerIdle
    /\ task[k] = "spawned"
    /\ task' = [task EXCEPT ![k] = "running"]
    /\ UNCHANGED <<free, queue, holds, pc, stopped, foreground>>

EndTask(k) ==
    /\ task[k] = "running"
    /\ task' = [task EXCEPT ![k] = "none"]
    /\ Drop(k, "cpu")
    /\ UNCHANGED <<queue, pc, stopped, foreground>>

-----------------------------------------------------------------------------
(* Exotic formats. *)

StartExotic ==
    /\ \A e \in Exotics : pc[e] \in {"off", "absent"}
    /\ pc' = [t \in Threads |-> IF t \in Exotics /\ pc[t] = "off" THEN "recv" ELSE pc[t]]
    /\ stopped' = [stopped EXCEPT !["exotic"] = FALSE]
    /\ UNCHANGED <<free, queue, holds, task, foreground>>

ExoticGate(e) ==
    /\ \/ Stopped(e) /\ Goto(e, "gate", "off")
       \/ ~Stopped(e) /\ ~Yield /\ Goto(e, "gate", "ask")
    /\ Quiet

\* With the permit in hand the right to run is checked again, and once more
\* after the handshake of a new worker process, which may take seconds or fail.
\* The two flags are read one after the other while both may change.
Checked(e, from, to) ==
    \/ ~Yield /\ ~Stopped(e) /\ Goto(e, from, to) /\ Quiet
    \/ Yield /\ Goto(e, from, "gate") /\ Release(e, "cpu")
    \/ Stopped(e) /\ Goto(e, from, "off") /\ Release(e, "cpu")

Handshake(e) ==
    \/ Goto(e, "handshake", "armed") /\ Quiet
    \/ Goto(e, "handshake", IF Stopped(e) THEN "off" ELSE "recv") /\ Release(e, "cpu")

\* The permit goes back before the result is sent; a stop ends the thread.
Thumbnail(e) ==
    Goto(e, "working", IF Stopped(e) THEN "off" ELSE "recv") /\ Release(e, "cpu")

ExoticStep(e) == Receive(e, "off") \/ ExoticGate(e) \/ Acquire(e)
                   \/ Checked(e, "granted", "handshake") \/ Handshake(e)
                   \/ Checked(e, "armed", "working") \/ Thumbnail(e)

-----------------------------------------------------------------------------
(* Image analysis: run_prepared_batches. *)

StartAnalysis ==
    /\ pc[Prepare] = "off" /\ pc[Infer] = "off"
    /\ pc' = [pc EXCEPT ![Prepare] = "collect", ![Infer] = "receive"]
    /\ stopped' = [stopped EXCEPT !["analysis"] = FALSE]
    /\ UNCHANGED <<free, queue, holds, task, foreground>>

\* Mutant: the loop goes on to the next batch without looking at the token.
CollectOn ==
    /\ Goto(Prepare, "collect", "ask") \/ Goto(Prepare, "collect", "off")
    /\ Quiet

\* A batch is full, or the input is closed; a cancelled run ends here.
Collect ==
    /\ \/ ~Stopped(Prepare) /\ Goto(Prepare, "collect", "ask")
       \/ Goto(Prepare, "collect", "off")
    /\ Quiet

\* prepare failed: the permit is dropped and the other half is cancelled.
PrepareFails ==
    /\ Goto(Prepare, "granted", "off")
    /\ Drop(Prepare, "cpu")
    /\ stopped' = [stopped EXCEPT !["analysis"] = TRUE]
    /\ UNCHANGED <<queue, task, foreground>>

\* Missing caches are derived on the rayon pool, with the permit in hand.
Inject == Goto(Prepare, "granted", "inject") /\ Quiet
Derive == WorkerIdle /\ Goto(Prepare, "inject", "deriving") /\ Quiet

\* Mutant: the permit lives until the batch is handed over.
DerivedKeepsPermit ==
    \/ Goto(Prepare, "deriving", "collect") /\ Release(Prepare, "cpu")
    \/ ~Stopped(Prepare) /\ Goto(Prepare, "deriving", "offer") /\ Quiet

\* The permit is dropped before the batch is offered.
Derived ==
    /\ \/ Goto(Prepare, "deriving", "collect")
       \/ ~Stopped(Prepare) /\ Goto(Prepare, "deriving", "offer")
    /\ Release(Prepare, "cpu")

\* The channel has no buffer: a batch changes hands when both sides are there.
\* Of faces a batch may be empty, which needs no permit.
HandOver ==
    /\ pc[Prepare] = "offer" /\ pc[Infer] = "receive"
    /\ \E to \in {"ask", "receive"} :
          pc' = [pc EXCEPT ![Prepare] = "collect", ![Infer] = to]
    /\ Quiet

\* Cancelled, or the receiver is gone.
OfferEnds ==
    /\ Stopped(Prepare)
    /\ Goto(Prepare, "offer", "off")
    /\ Quiet

PrepareStep == Collect \/ PrepareFails \/ Inject \/ Derive \/ Derived
                 \/ OfferEnds \/ Acquire(Prepare)

\* The loop ends when the run is cancelled or the sender is gone, and cancels
\* the preparation.
StopReceiving ==
    /\ Stopped(Infer) \/ pc[Prepare] = "off"
    /\ Goto(Infer, "receive", "join")
    /\ stopped' = [stopped EXCEPT !["analysis"] = TRUE]
    /\ UNCHANGED <<free, queue, holds, task, foreground>>

Join == pc[Prepare] = "off" /\ Goto(Infer, "join", "off") /\ Quiet

\* The worker has answered or failed: the GPU guard is dropped, then the CPU
\* guard, and only then are the results sent.
WorkerEnds(t) == Goto(t, "granted", "returning") /\ Release(t, "gpu")

Inferred == Goto(Infer, "returning", "receive") /\ Release(Infer, "cpu")

InferFails ==
    /\ Goto(Infer, "returning", "join")
    /\ Drop(Infer, "cpu")
    /\ stopped' = [stopped EXCEPT !["analysis"] = TRUE]
    /\ UNCHANGED <<queue, task, foreground>>

InferStep == StopReceiving \/ Join \/ WorkerEnds(Infer) \/ Inferred \/ InferFails
               \/ HandOver \/ Acquire(Infer)

-----------------------------------------------------------------------------
(* Enhancement. *)

StartEnhance(h) ==
    /\ Goto(h, "off", "lock")
    /\ stopped' = [stopped EXCEPT ![h] = FALSE]
    /\ UNCHANGED <<free, queue, holds, task, foreground>>

\* The lock of the worker handle is held from before the first permit.
HandleFree(h) == \A g \in Enhancers \ {h} : pc[g] \in {"absent", "off", "lock"}

\* A preview that finds the lock taken answers enhance_busy; with the lock in
\* hand, a missing model or an unreadable source ends the request.
LockHandle(h) ==
    /\ \/ HandleFree(h) /\ Goto(h, "lock", "ask")
       \/ (HandleFree(h) \/ h \in Previews) /\ Goto(h, "lock", "off")
    /\ Quiet

Enhanced(h) == Goto(h, "returning", "off") /\ Release(h, "cpu")

EnhanceStep(h) == LockHandle(h) \/ Acquire(h) \/ WorkerEnds(h) \/ Enhanced(h)

-----------------------------------------------------------------------------
(* The user, and the rest of the program. *)

Stop(r) ==
    /\ r \notin Previews
    /\ ~stopped[r]
    /\ \E t \in Threads : RunOf(t) = r /\ pc[t] \notin {"absent", "off"}
    /\ stopped' = [stopped EXCEPT ![r] = TRUE]
    /\ UNCHANGED <<free, queue, holds, pc, task, foreground>>

Activity(a) ==
    /\ a # foreground
    /\ foreground' = a
    /\ UNCHANGED <<free, queue, holds, pc, task, stopped>>

Start == StartDerive \/ StartExotic \/ StartAnalysis \/ (\E h \in Enhancers : StartEnhance(h))

Next ==
    \/ Start
    \/ Dispatch \/ PrepareStep \/ InferStep
    \/ \E k \in Tasks : RunTask(k) \/ EndTask(k)
    \/ \E e \in Exotics : ExoticStep(e)
    \/ \E h \in Enhancers : EnhanceStep(h)
    \/ \E r \in Runs : Stop(r)
    \/ \E a \in Activities : Activity(a)

Spec == Init /\ [][Next]_vars

-----------------------------------------------------------------------------
(* Fairness: every thread runs on, jobs in the hands of a rayon thread end,
   a rayon thread that keeps becoming idle serves every kind of work in the
   end, and a lock that keeps becoming free is taken by whoever waits for it.  Nobody
   has to start, stop or use anything. *)

Fairness ==
    /\ WF_vars(Dispatch) /\ SF_vars(EnterScope)
    /\ WF_vars(PrepareStep) /\ SF_vars(Derive)
    /\ WF_vars(InferStep)
    /\ \A k \in Tasks : SF_vars(RunTask(k)) /\ WF_vars(EndTask(k))
    /\ \A e \in Exotics : WF_vars(ExoticStep(e))
    /\ \A h \in Enhancers : WF_vars(EnhanceStep(h)) /\ SF_vars(LockHandle(h))

FairSpec == Spec /\ Fairness

-----------------------------------------------------------------------------
(* Properties. *)

Where == {"absent", "off", "enter", "recv", "gate", "ask", "wait", "decide", "leave",
          "granted", "drain", "handshake", "armed", "working", "collect", "inject",
          "deriving", "offer", "receive", "join", "returning", "lock"}

TypeOK ==
    /\ free \in [Pools -> Nat]
    /\ queue \in [Pools -> Seq(Threads)]
    /\ holds \in [Pools -> SUBSET (Threads \cup Tasks)]
    /\ pc \in [Threads -> Where]
    /\ task \in [Tasks -> {"none", "spawned", "running"}]
    /\ stopped \in [Runs -> BOOLEAN]
    /\ foreground \in Activities

\* No permit is lost or invented, whichever way a job ends: what is available
\* and what is held is always the size of the pool.
PermitsConserved ==
    \A p \in Pools : free[p] + Cardinality(holds[p]) = Size[p]

\* The queue of a pool lists the threads that wait for it, each once: a ticket
\* that outlived its thread would keep everyone behind it waiting for ever.
Waiting(p) == {t \in Threads : pc[t] \in {"wait", "decide", "leave"} /\ Wants(t) = p}
NoTicketLeaks ==
    \A p \in Pools :
        /\ {queue[p][i] : i \in 1..Len(queue[p])} = Waiting(p)
        /\ \A i, j \in 1..Len(queue[p]) : queue[p][i] = queue[p][j] => i = j

\* Threads that wait for work, for the user or for each other keep no permit:
\* the reason why a batch offered, a channel full or a pause for the user
\* cannot block the rest of the background work.
Permitted ==
    {"granted", "handshake", "armed", "working", "inject", "deriving", "returning"}
IdleHoldsNothing ==
    /\ \A t \in Threads \cap holds["cpu"] :
         pc[t] \in Permitted \/ (NeedsGpu(t) /\ pc[t] \in {"ask", "wait", "decide", "leave"})
    /\ \A t \in Threads \cap holds["gpu"] : pc[t] = "granted" /\ t \in holds["cpu"]

\* Each pool keeps the promises of exotic/limiter.rs: first come, first served,
\* also when those in front or behind give up, and never more permits at once
\* than there are.
CpuPool == INSTANCE FairPermits WITH
               Users <- Threads \cup Tasks, Permits <- Cpu,
               line <- queue["cpu"], held <- holds["cpu"]
GpuPool == INSTANCE FairPermits WITH
               Users <- Threads, Permits <- 1,
               line <- queue["gpu"], held <- holds["gpu"]
PoolsAreFair == CpuPool!Spec /\ GpuPool!Spec

InQueue(t) == \E p \in Pools : t \in Waiting(p)

\* A step of x that waits for no permit is possible; a derivation task, and a
\* batch that is being derived, need a thread of the rayon pool for theirs.
CanGoOn(x) ==
    \/ /\ x \in Threads
       /\ \/ pc[x] \in Permitted \ {"inject"} /\ (x = Dispatcher => InFlight # Tasks)
          \/ pc[x] = "inject" /\ WorkerIdle
          \/ pc[x] = "ask"
    \/ /\ x \in Tasks
       /\ task[x] = "running" \/ (task[x] = "spawned" /\ WorkerIdle)

\* No circle of waits, the claim of GpuToken in exotic/limiter.rs: as long as
\* somebody waits in line, the first in it can take a permit, or one of those
\* who have the permits can go on, or take the GPU token and then go on.  Jobs
\* that hold permits while the dispatcher keeps a rayon thread are no exception.
NobodyWaitsInVain ==
    \A p \in Pools : Waiting(p) # {} =>
        \/ \E t \in Waiting(p) : Grantable(t)
        \/ \E x \in holds[p] : CanGoOn(x) \/ (x \in Threads /\ InQueue(x) /\ Grantable(x))

\* Whoever waits for a permit gets it or gives up: nobody is overtaken for ever.
WaitsEnd == \A t \in Threads : InQueue(t) ~> ~InQueue(t)

\* A stopped pipeline comes to rest, wherever the stop found its threads.
StopsEnd ==
    \A t \in Threads : Stopped(t) ~> (pc[t] \in {"absent", "off"} \/ ~Stopped(t))
=============================================================================
