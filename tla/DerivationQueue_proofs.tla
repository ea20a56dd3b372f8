----------------------- MODULE DerivationQueue_proofs ------------------------
(***************************************************************************)
(* Proofs about the derivation pipeline, for any number of items, runs,    *)
(* callers, jobs and upsets, and any batch and channel size.               *)
(***************************************************************************)
EXTENDS DerivationQueue, FiniteSetTheorems, FunctionTheorems, WellFoundedInduction, NaturalsInduction, TLAPS

-----------------------------------------------------------------------------
(* Types. *)

\* What a step leaves alone keeps its type.
LEMMA TypeFrames ==
    /\ TableType /\ UNCHANGED db => TableType'
    /\ TokenType /\ UNCHANGED <<token, active>> => TokenType'
    /\ CommandType /\ UNCHANGED <<caller, want>> => CommandType'
    /\ RunType /\ UNCHANGED <<runner, wanted>> => RunType'
    /\ PipeType /\ UNCHANGED pipe => PipeType'
    /\ RestType /\ UNCHANGED <<healing, excused, upsets>> => RestType'
  BY DEF TableType, TokenType, CommandType, RunType, PipeType, RestType, db, token, pipe

\* A non-empty set of numbers has a least one.
LEMMA Least ==
    ASSUME NEW K \in SUBSET Nat, K # {}
    PROVE  \E k \in K : \A m \in K : k <= m
  <1>1. \E k \in K : \A m \in K : ~(<<m, k>> \in OpToRel(<, Nat))
    BY WFMin, NatLessThanWellFounded, Zenon
  <1>2. \E k \in K : \A m \in K : ~(m < k)
    BY <1>1, Zenon DEF OpToRel
  <1> QED
    BY <1>2

\* The result that is stored for a row is one of the batch.
LEMMA FirstIsAccepted ==
    ASSUME NEW b \in Seq(Results), NEW i, i \in {r.claim.item : r \in Accepted(b)}
    PROVE  FirstFor(b, i) \in Accepted(b) /\ FirstFor(b, i).claim.item = i
  <1>1. PICK r \in Accepted(b) : r.claim.item = i
    OBVIOUS
  <1>2. PICK k \in 1..Len(b) : b[k] = r
    BY DEF Accepted, ToSet
  <1>3. Positions(b, i) # {} /\ Positions(b, i) \in SUBSET Nat
    BY <1>1, <1>2 DEF Positions
  <1>4. \E n \in Positions(b, i) : \A m \in Positions(b, i) : n <= m
    BY <1>3, Least
  <1> DEFINE n == CHOOSE n \in Positions(b, i) : \A m \in Positions(b, i) : n <= m
  <1>5. n \in Positions(b, i)
    BY <1>4
  <1>6. FirstFor(b, i) = b[n]
    BY DEF FirstFor
  <1> HIDE DEF n
  <1> QED
    BY <1>5, <1>6 DEF Positions

LEMMA CommandsTyped ==
    ASSUME TypeOK, NEW c \in Callers, CommandStep(c)
    PROVE  TypeOK'
  <1> USE TypeFrames DEF TypeOK, Command, Smooth, Upset
  <1>1. CASE Start(c)
    <2>1. TokenType' /\ CommandType'
      BY <1>1, QueueAssumption DEF Start, Cancel, TokenType, CommandType
    <2> QED
      BY <1>1, <2>1 DEF Start
  <1>2. CASE StartReset(c)
    <2>1. CommandType'
      BY <1>2 DEF StartReset, CommandType
    <2>2. TableType'
      <3>1. Reset(want[c]) \in [Items -> Rows]
        BY QueueAssumption DEF Reset, TableType, Rows
      <3> QED
        BY <1>2, <3>1 DEF StartReset, TableType
    <2>3. RestType'
      BY <1>2, QueueAssumption DEF StartReset, RestType
    <2> QED
      BY <1>2, <2>1, <2>2, <2>3 DEF StartReset, token
  <1>3. CASE Activate(c)
    <2>1. TokenType' /\ CommandType'
      BY <1>3 DEF Activate, token, TokenType, CommandType
    <2> QED
      BY <1>3, <2>1 DEF Activate
  <1>4. CASE Launch(c)
    <2>1. latest' \in Gens
      BY <1>4, QueueAssumption DEF Launch, TokenType, Gens, NoGen
    <2>2. TokenType' /\ CommandType'
      BY <1>4, <2>1 DEF Launch, TokenType, CommandType
    <2>3. RunType' /\ RestType'
      BY <1>4, <2>1 DEF Launch, CommandType, RunType, RestType, InFlight
    <2> QED
      BY <1>4, <2>2, <2>3 DEF Launch
  <1>5. CASE Stop(c)
    <2>1. TokenType' /\ CommandType'
      BY <1>5 DEF Stop, Cancel, TokenType, CommandType
    <2> QED
      BY <1>5, <2>1 DEF Stop
  <1>6. CASE StopFlag(c)
    <2>1. TokenType' /\ CommandType'
      BY <1>6 DEF StopFlag, token, TokenType, CommandType
    <2> QED
      BY <1>6, <2>1 DEF StopFlag
  <1> QED
    BY <1>1, <1>2, <1>3, <1>4, <1>5, <1>6 DEF CommandStep

LEMMA RunsTyped ==
    ASSUME TypeOK, NEW g \in Gens, RunStep(g)
    PROVE  TypeOK'
  <1> USE TypeFrames DEF TypeOK, Runner, Smooth, Upset
  <1>1. CASE Recover(g)
    <2>1. Recovered \in [Items -> Rows]
      <3>1. \A i \in Items : Spared(i) => row[i].orphans + 1 \in 0..PoisonLimit
        BY QueueAssumption DEF TableType, Rows, Spared
      <3> QED
        <4>1. ASSUME NEW i \in Items
              PROVE  Recovered[i] \in Rows
          <5>1. row[i] \in Rows
            BY DEF TableType
          <5>2. CASE i \notin InFlight
            BY <5>1, <5>2 DEF Recovered
          <5>3. CASE i \in InFlight /\ Spared(i)
            BY <3>1, <5>1, <5>3 DEF Recovered, Rows
          <5>4. CASE i \in InFlight /\ ~Spared(i)
            BY <5>1, <5>4 DEF Recovered, Rows
          <5> QED
            BY <5>2, <5>3, <5>4
        <4> QED
          BY <4>1 DEF Recovered
    <2>2. TableType'
      BY <1>1, <2>1 DEF Recover, TableType
    <2>3. RunType' /\ RestType'
      BY <1>1, QueueAssumption DEF Recover, RunType, RestType
    <2> QED
      BY <1>1, <2>2, <2>3 DEF Recover, token, front
  <1>2. CASE Backfill(g)
    <2>1. Backfilled(wanted[g]) \in [Items -> Rows]
      BY DEF Backfilled, TableType, Rows
    <2>2. TableType'
      BY <1>2, <2>1 DEF Backfill, TableType
    <2>3. RunType' /\ RestType'
      BY <1>2, QueueAssumption DEF Backfill, RunType, RestType
    <2> QED
      BY <1>2, <2>2, <2>3 DEF Backfill, token, front
  <1>3. CASE Probe(g)
    <2>1. PipeType'
      <3>1. Top(g) \in Producers
        BY DEF Top, IdleProducer, Producers
      <3>2. CASE UNCHANGED <<producer, consumer, writer>>
        BY <1>3, <3>2 DEF Probe, PipeType
      <3>3. CASE /\ producer' = [producer EXCEPT ![g] = Top(g)]
                 /\ consumer' = [consumer EXCEPT ![g] = "receive"]
                 /\ writer' = [writer EXCEPT ![g].at = "receive"]
        BY <1>3, <3>1, <3>3, ZenonT(40) DEF Probe, PipeType, Writers
      <3> QED
        BY <1>3, <3>2, <3>3 DEF Probe
    <2>2. RunType' /\ RestType'
      BY <1>3, QueueAssumption DEF Probe, RunType, RestType
    <2> QED
      BY <1>3, <2>1, <2>2 DEF Probe, token, front
  <1>4. CASE Join(g)
    <2>1. PipeType'
      <3>1. IdleProducer \in Producers /\ IdleWriter \in Writers
        BY DEF IdleProducer, IdleWriter, Producers, Writers
      <3> QED
        BY <1>4, <3>1 DEF Join, PipeType
    <2>2. RunType'
      BY <1>4 DEF Join, RunType
    <2> QED
      BY <1>4, <2>1, <2>2 DEF Join, token, front
  <1>5. CASE Requeue(g)
    <2>1. Requeued \in [Items -> Rows]
      BY DEF Requeued, TableType, Rows
    <2>2. TableType'
      BY <1>5, <2>1 DEF Requeue, TableType
    <2>3. RunType' /\ RestType'
      BY <1>5, QueueAssumption DEF Requeue, RunType, RestType, InFlight
    <2> QED
      BY <1>5, <2>2, <2>3 DEF Requeue, token, front
  <1>6. CASE Finish(g)
    <2>1. RunType' /\ TokenType'
      BY <1>6 DEF Finish, RunType, TokenType, front
    <2> QED
      BY <1>6, <2>1 DEF Finish, front
  <1>7. CASE FinishFlag(g)
    <2>1. RunType' /\ TokenType'
      BY <1>7 DEF FinishFlag, RunType, TokenType, token
    <2> QED
      BY <1>7, <2>1 DEF FinishFlag
  <1> QED
    BY <1>1, <1>2, <1>3, <1>4, <1>5, <1>6, <1>7 DEF RunStep

LEMMA ProducerTyped ==
    ASSUME TypeOK, NEW g \in Gens, ProducerStep(g)
    PROVE  TypeOK'
  <1> USE TypeFrames DEF TypeOK, Produce, Smooth, Upset
  <1>0. Top(g) \in Producers
    BY DEF Top, IdleProducer, Producers
  <1>1. CASE ReadPending(g)
    <2>1. \A b \in Batches(g) : b \in SUBSET Claims
      BY DEF Batches, Claim, Claims, PendingOf, TableType, RunType
    <2>2. producer' \in [Gens -> Producers]
      <3>1. [IdleProducer EXCEPT !.at = "end"] \in Producers
        BY DEF IdleProducer, Producers
      <3>2. \A b \in Batches(g) : [at |-> "claim", batch |-> b] \in Producers
        BY <2>1 DEF Producers
      <3> QED
        BY <1>1, <3>1, <3>2 DEF ReadPending, PipeType
    <2>4. PipeType'
      BY <1>1, <2>2 DEF ReadPending, PipeType
    <2>3. RestType'
      BY <1>1, QueueAssumption DEF ReadPending, RestType
    <2> QED
      BY <1>1, <2>4, <2>3 DEF ReadPending, token, front
  <1>2. CASE ClaimBatch(g)
    <2>1. Claimable(g) \in SUBSET Claims
      BY DEF Claimable, PipeType, Producers
    <2>5. producer' \in [Gens -> Producers]
      <3>1. /\ [at |-> "send", batch |-> Claimable(g)] \in Producers
            /\ [at |-> "send", batch |-> {}] \in Producers
        BY <2>1 DEF Producers
      <3> QED
        BY <1>2, <3>1 DEF ClaimBatch, PipeType
    <2>2. PipeType'
      BY <1>2, <2>5 DEF ClaimBatch, PipeType
    <2>3. TableType'
      <3>1. \A i \in Items : [row[i] EXCEPT !.status = Processing] \in Rows
        BY DEF TableType, Rows
      <3> QED
        BY <1>2, <3>1 DEF ClaimBatch, TableType
    <2>4. RestType'
      BY <1>2, <2>1, QueueAssumption DEF ClaimBatch, RestType, Claims
    <2> QED
      BY <1>2, <2>2, <2>3, <2>4 DEF ClaimBatch, token, front
  <1>3. CASE Send(g)
    <2>1. producer' \in [Gens -> Producers] /\ tasks' \in [Gens -> Seq(Claims)]
      <3>1. CASE producer' = [producer EXCEPT ![g] = Top(g)] /\ UNCHANGED tasks
        BY <1>0, <3>1 DEF PipeType
      <3>2. ASSUME NEW c \in producer[g].batch,
                   producer' = [producer EXCEPT ![g] = [producer[g] EXCEPT !.batch = @ \ {c}]],
                   tasks' = [tasks EXCEPT ![g] = Append(@, c)]
            PROVE  producer' \in [Gens -> Producers] /\ tasks' \in [Gens -> Seq(Claims)]
        <4>1. c \in Claims /\ [producer[g] EXCEPT !.batch = @ \ {c}] \in Producers
          BY DEF PipeType, Producers
        <4>2. Append(tasks[g], c) \in Seq(Claims)
          BY <4>1 DEF PipeType
        <4> QED
          BY <3>2, <4>1, <4>2 DEF PipeType
      <3> QED
        BY <1>3, <3>1, <3>2 DEF Send
    <2>3. PipeType'
      BY <1>3, <2>1 DEF Send, PipeType
    <2> QED
      BY <1>3, <2>3 DEF Send, token, front
  <1> QED
    BY <1>1, <1>2, <1>3 DEF ProducerStep

LEMMA ConsumerTyped ==
    ASSUME TypeOK, NEW g \in Gens, ConsumerStep(g)
    PROVE  TypeOK'
  <1> USE TypeFrames DEF TypeOK
  <1>1. CASE Leave(g)
    <2>1. PipeType'
      BY <1>1 DEF Leave, PipeType
    <2> QED
      BY <1>1, <2>1 DEF Leave, token, front
  <1>2. CASE \E s \in Slots : Dispatch(g, s)
    <2>1. PICK s \in Slots : Dispatch(g, s)
      BY <1>2
    <2>2. PipeType'
      BY <2>1 DEF Dispatch, PipeType
    <2> QED
      BY <2>1, <2>2 DEF Dispatch, token, front
  <1>3. CASE \E s \in Slots : EndJob(g, s)
    <2>1. PICK s \in Slots : EndJob(g, s)
      BY <1>3
    <2>2. \A c \in Claims, status \in {Done, Failed} : Result(c, status) \in Results
      BY DEF Result, Results, Claims, TableType
    <2>3. \A c \in job[g][s] : c \in Claims
      BY DEF PipeType
    <2>4. results' \in [Gens -> Seq(Results)]
      <3>1. \A r \in Results : Append(results[g], r) \in Seq(Results)
        BY DEF PipeType
      <3>2. PICK c \in job[g][s], status \in {Done, Failed} :
                \/ results' = [results EXCEPT ![g] = Append(@, Result(c, status))]
                \/ UNCHANGED results
        BY <2>1 DEF EndJob
      <3>3. Result(c, status) \in Results
        BY <2>2, <2>3
      <3> QED
        BY <3>1, <3>2, <3>3 DEF PipeType
    <2>6. job' \in [Gens -> [Slots -> SUBSET Claims]]
      BY <2>1 DEF EndJob, PipeType
    <2>5. PipeType'
      BY <2>1, <2>4, <2>6 DEF EndJob, PipeType
    <2> QED
      BY <2>1, <2>5 DEF EndJob, token, front
  <1> QED
    BY <1>1, <1>2, <1>3 DEF ConsumerStep

LEMMA WriterTyped ==
    ASSUME TypeOK, NEW g \in Gens, WriterStep(g)
    PROVE  TypeOK'
  <1> USE TypeFrames DEF TypeOK, Write, Smooth, Upset
  <1>1. CASE Collect(g)
    <2>1. results' \in [Gens -> Seq(Results)]
      <3>1. results[g] # << >> => Tail(results[g]) \in Seq(Results)
        BY DEF PipeType
      <3>2. \/ UNCHANGED results
            \/ results' = [results EXCEPT ![g] = << >>]
            \/ results[g] # << >> /\ results' = [results EXCEPT ![g] = Tail(@)]
        BY <1>1 DEF Collect
      <3>3. CASE UNCHANGED results
        BY <3>3 DEF PipeType
      <3>4. CASE results' = [results EXCEPT ![g] = << >>]
        BY <3>4 DEF PipeType
      <3>5. CASE results[g] # << >> /\ results' = [results EXCEPT ![g] = Tail(@)]
        <4>1. results' = [results EXCEPT ![g] = Tail(results[g])]
          BY <3>5
        <4> QED
          BY <3>1, <3>5, <4>1 DEF PipeType
      <3> QED
        BY <3>2, <3>3, <3>4, <3>5
    <2>2. writer' \in [Gens -> Writers]
      <3>1. [writer[g] EXCEPT !.at = "last"] \in Writers
        BY DEF PipeType, Writers
      <3>2. ASSUME results[g] # << >>
            PROVE  /\ [at |-> "flush", batch |-> Append(writer[g].batch, Head(results[g]))] \in Writers
                   /\ [at |-> "receive", batch |-> Append(writer[g].batch, Head(results[g]))] \in Writers
        BY <3>2 DEF PipeType, Writers
      <3> QED
        BY <1>1, <3>1, <3>2 DEF Collect, PipeType
    <2>3. PipeType'
      BY <1>1, <2>1, <2>2 DEF Collect, PipeType
    <2> QED
      BY <1>1, <2>3 DEF Collect, token, front
  <1>2. CASE Flush(g)
    <2> DEFINE b == writer[g].batch
               items == {r.claim.item : r \in Accepted(b)}
    <2>1. b \in Seq(Results) /\ ToSet(b) \subseteq Results /\ Accepted(b) \subseteq Results
      BY DEF PipeType, Writers, ToSet, Accepted
    <2>2. \A i \in items : FirstFor(b, i) \in Results
      BY <2>1, FirstIsAccepted
    <2>3. {r.claim.item : r \in ToSet(b)} \subseteq Items
      BY <2>1 DEF Results, Claims
    <2>7. writer' \in [Gens -> Writers]
      <3>1. [IdleWriter EXCEPT !.at = "receive"] \in Writers /\ [IdleWriter EXCEPT !.at = "end"] \in Writers
        <4>1. /\ [IdleWriter EXCEPT !.at = "receive"] = [at |-> "receive", batch |-> << >>]
              /\ [IdleWriter EXCEPT !.at = "end"] = [at |-> "end", batch |-> << >>]
          BY DEF IdleWriter
        <4>2. << >> \in Seq(Results)
          OBVIOUS
        <4> QED
          BY <4>1, <4>2 DEF Writers
      <3> QED
        BY <1>2, <3>1 DEF Flush, PipeType
    <2>4. PipeType'
      BY <1>2, <2>7 DEF Flush, PipeType
    <2>5. TableType'
      <3> HIDE DEF b, items
      <3>1. CASE UNCHANGED <<row, cover>>
        BY <1>2, <3>1 DEF Flush, TableType
      <3>2. CASE /\ row' = [i \in Items |-> IF i \notin items THEN row[i] ELSE
                        [status |-> FirstFor(b, i).status, orphans |-> 0, payload |-> FirstFor(b, i).made]]
                 /\ cover' = [i \in Items |-> IF i \in items /\ FirstFor(b, i).status = Done
                                         THEN FirstFor(b, i).made ELSE cover[i]]
        BY <1>2, <2>2, <3>2, QueueAssumption DEF Flush, TableType, Rows, Results
      <3> QED
        BY <1>2, <3>1, <3>2 DEF Flush, b, items
    <2>6. RestType'
      BY <1>2, <2>3, QueueAssumption DEF Flush, RestType
    <2> QED
      BY <1>2, <2>4, <2>5, <2>6 DEF Flush, token, front
  <1> QED
    BY <1>1, <1>2 DEF WriterStep

LEMMA SourcesTyped ==
    ASSUME TypeOK, NEW i \in Items, SourceStep(i)
    PROVE  TypeOK'
  <1> USE TypeFrames, QueueAssumption DEF TypeOK, Upset
  <1>1. CASE ChangeFile(i)
    BY <1>1 DEF ChangeFile, TableType, RestType, token, front
  <1>2. CASE Rescan(i)
    <2>1. Invalidated(i) \in Rows
      <3>1. row[i] \in Rows
        BY DEF TableType
      <3> QED
        BY <3>1 DEF Invalidated, Rows
    <2>2. TableType'
      BY <1>2, <2>1 DEF Rescan, TableType
    <2> QED
      BY <1>2, <2>2 DEF Rescan, token, front
  <1>3. CASE Touch(i)
    BY <1>3 DEF Touch, TableType, RestType, token, front
  <1>4. CASE DeleteOrRestore(i)
    BY <1>4 DEF DeleteOrRestore, TableType, RestType, token, front
  <1>5. CASE FindMissing(i)
    BY <1>5 DEF FindMissing, RestType, token, front
  <1>6. CASE Heal(i)
    <2>1. TableType'
      <3>1. [row[i] EXCEPT !.status = Pending, !.payload = 0] \in Rows
        <4>1. row[i] \in Rows
          BY DEF TableType
        <4> QED
          BY <4>1 DEF Rows
      <3>2. row' \in [Items -> Rows]
        BY <1>6, <3>1 DEF Heal, TableType
      <3> QED
        BY <1>6, <3>2 DEF Heal, TableType
    <2>2. RestType'
      BY <1>6 DEF Heal, RestType
    <2> QED
      BY <1>6, <2>1, <2>2 DEF Heal, token, front
  <1> QED
    BY <1>1, <1>2, <1>3, <1>4, <1>5, <1>6 DEF SourceStep

LEMMA ClearTyped ==
    ASSUME TypeOK, Clear
    PROVE  TypeOK'
  <1> USE TypeFrames, QueueAssumption DEF TypeOK, Upset
  <1>1. Reset(Items) \in [Items -> Rows]
    BY QueueAssumption DEF Reset, TableType, Rows
  <1> QED
    BY <1>1 DEF Clear, TableType, RestType, token, front

LEMMA CrashTyped ==
    ASSUME TypeOK, Crash
    PROVE  TypeOK'
  <1> USE TypeFrames, QueueAssumption DEF TypeOK, Upset
  <1>1. TokenType' /\ CommandType' /\ RunType' /\ RestType'
    BY DEF Crash, TokenType, CommandType, RunType, RestType, InFlight
  <1>2. PipeType'
    <2>1. IdleProducer \in Producers /\ IdleWriter \in Writers
      BY DEF IdleProducer, IdleWriter, Producers, Writers
    <2> QED
      BY <2>1 DEF Crash, PipeType
  <1> QED
    BY <1>1, <1>2 DEF Crash

\* Every variable keeps its type; in particular no row is counted as an orphan
\* more often than the limit.
THEOREM TypeCorrect == Spec => []TypeOK
  <1>1. Init => TypeOK
    <2> SUFFICES ASSUME Init PROVE TypeOK
      OBVIOUS
    <2>1. TableType
      <3>1. LeftRows \subseteq Rows
        BY QueueAssumption DEF LeftRows, NoRow, Rows
      <3> QED
        BY <3>1 DEF Init, TableType
    <2>2. TokenType /\ CommandType /\ RunType
      BY DEF Init, TokenType, CommandType, RunType, NoGen
    <2>3. PipeType
      <3>1. IdleProducer \in Producers /\ IdleWriter \in Writers
        BY DEF IdleProducer, IdleWriter, Producers, Writers
      <3> QED
        BY <3>1 DEF Init, PipeType
    <2>4. RestType
      BY QueueAssumption DEF Init, RestType
    <2> QED
      BY <2>1, <2>2, <2>3, <2>4 DEF TypeOK, Init
  <1>2. TypeOK /\ [Next]_vars => TypeOK'
    <2> SUFFICES ASSUME TypeOK, [Next]_vars PROVE TypeOK'
      OBVIOUS
    <2>1. CASE UNCHANGED vars
      BY <2>1, TypeFrames DEF TypeOK, vars, front
    <2> QED
      BY <2>1, CommandsTyped, RunsTyped, ProducerTyped, ConsumerTyped, WriterTyped, SourcesTyped,
         ClearTyped, CrashTyped DEF Next
  <1> QED
    BY <1>1, <1>2, PTL DEF Spec

-----------------------------------------------------------------------------
(* The token. *)

\* The slot is empty or holds the run launched last.
TokenInv == slot \in {NoGen, latest} /\ LatestCanBeStopped

\* Only commands, the run itself and the end of the process touch a run's token.
LEMMA TokenFrame ==
    ASSUME Next
    PROVE  \/ UNCHANGED <<token, runner>>
           \/ \E c \in Callers : Start(c) \/ Stop(c) \/ Launch(c)
           \/ \E g \in Gens : RunStep(g)
           \/ Crash
  <1>1. ASSUME NEW c \in Callers, CommandStep(c)
        PROVE  UNCHANGED <<token, runner>> \/ Start(c) \/ Stop(c) \/ Launch(c)
    BY <1>1 DEF CommandStep, StartReset, Activate, StopFlag
  <1>2. ASSUME NEW g \in Gens, ProducerStep(g) PROVE UNCHANGED <<token, runner>>
    BY <1>2 DEF ProducerStep, ReadPending, ClaimBatch, Send
  <1>3. ASSUME NEW g \in Gens, ConsumerStep(g) PROVE UNCHANGED <<token, runner>>
    BY <1>3 DEF ConsumerStep, Leave, Dispatch, EndJob
  <1>4. ASSUME NEW g \in Gens, WriterStep(g) PROVE UNCHANGED <<token, runner>>
    BY <1>4 DEF WriterStep, Collect, Flush
  <1>5. ASSUME NEW i \in Items, SourceStep(i) PROVE UNCHANGED <<token, runner>>
    BY <1>5 DEF SourceStep, ChangeFile, Rescan, Touch, DeleteOrRestore, FindMissing, Heal
  <1>6. ASSUME Clear PROVE UNCHANGED <<token, runner>>
    BY <1>6 DEF Clear
  <1> QED
    BY <1>1, <1>2, <1>3, <1>4, <1>5, <1>6 DEF Next

LEMMA TokenStep ==
    ASSUME TypeOK, TokenInv, [Next]_vars
    PROVE  TokenInv'
  <1> USE DEF TokenInv, LatestCanBeStopped, Alive
  <1>1. CASE UNCHANGED <<token, runner>>
    BY <1>1 DEF token
  <1>2. ASSUME NEW c \in Callers, Start(c) \/ Stop(c)
        PROVE  TokenInv'
    BY <1>2 DEF Start, Stop, Cancel, NoGen
  <1>3. ASSUME NEW c \in Callers, Launch(c)
        PROVE  TokenInv'
    BY <1>3 DEF Launch
  <1>4. ASSUME NEW g \in Gens, RunStep(g)
        PROVE  TokenInv'
    <2> USE DEF TypeOK, RunType, TokenType, Runner, token
    <2>1. CASE Recover(g) \/ Backfill(g) \/ Probe(g)
      BY <2>1 DEF Recover, Backfill, Probe
    <2>2. CASE Join(g) \/ Requeue(g)
      BY <2>2 DEF Join, Requeue
    <2>3. CASE Finish(g)
      BY <2>3 DEF Finish, NoGen
    <2>4. CASE FinishFlag(g)
      BY <2>4 DEF FinishFlag
    <2> QED
      BY <1>4, <2>1, <2>2, <2>3, <2>4 DEF RunStep
  <1>5. CASE Crash
    BY <1>5 DEF Crash, TypeOK, TokenType, RunType, NoGen
  <1>6. CASE UNCHANGED vars
    BY <1>6 DEF vars, token
  <1> QED
    BY <1>1, <1>2, <1>3, <1>4, <1>5, <1>6, TokenFrame

\* The run that was launched last can be stopped until it has ended: an earlier
\* run that finishes late leaves its token in the slot (RunTokenSlot::finish).
THEOREM LatestStoppable == Spec => []LatestCanBeStopped
  <1>1. Init => TokenInv
    BY DEF Init, TokenInv, LatestCanBeStopped
  <1>2. TypeOK /\ TokenInv /\ [Next]_vars => TokenInv'
    BY TokenStep
  <1>3. TokenInv => LatestCanBeStopped
    BY DEF TokenInv
  <1> QED
    BY <1>1, <1>2, <1>3, TypeCorrect, PTL DEF Spec

-----------------------------------------------------------------------------
(* One run at a time. *)

\* A run that has not ended and was not told to stop can be stopped.
OneRunGoesOn ==
    \A g \in Gens : Alive(g) /\ g \notin cancelled /\ runner[g] # "flag" => slot = g

\* Between the cancellation and the launch of a start nothing goes on.
OneInv == OneRunGoesOn /\ (Starting # {} => slot = NoGen)

\* What a step of the one caller may be.
LEMMA CallerFrame ==
    ASSUME Next
    PROVE  \/ UNCHANGED <<token, runner, caller>>
           \/ UNCHANGED <<token, runner>> /\ \E c \in Callers : StartReset(c) \/ Activate(c) \/ StopFlag(c)
           \/ \E c \in Callers : Start(c) \/ Stop(c) \/ Launch(c)
           \/ \E g \in Gens : RunStep(g) /\ UNCHANGED caller
           \/ Crash
  <1>1. ASSUME NEW c \in Callers, CommandStep(c)
        PROVE  \/ UNCHANGED <<token, runner>> /\ (StartReset(c) \/ Activate(c) \/ StopFlag(c))
               \/ Start(c) \/ Stop(c) \/ Launch(c)
    BY <1>1 DEF CommandStep, StartReset, Activate, StopFlag
  <1>2. ASSUME NEW g \in Gens, ProducerStep(g) PROVE UNCHANGED <<token, runner, caller>>
    BY <1>2 DEF ProducerStep, ReadPending, ClaimBatch, Send, front
  <1>3. ASSUME NEW g \in Gens, ConsumerStep(g) PROVE UNCHANGED <<token, runner, caller>>
    BY <1>3 DEF ConsumerStep, Leave, Dispatch, EndJob, front
  <1>4. ASSUME NEW g \in Gens, WriterStep(g) PROVE UNCHANGED <<token, runner, caller>>
    BY <1>4 DEF WriterStep, Collect, Flush, front
  <1>5. ASSUME NEW i \in Items, SourceStep(i) PROVE UNCHANGED <<token, runner, caller>>
    BY <1>5 DEF SourceStep, ChangeFile, Rescan, Touch, DeleteOrRestore, FindMissing, Heal, front
  <1>6. ASSUME Clear PROVE UNCHANGED <<token, runner, caller>>
    BY <1>6 DEF Clear, front
  <1>7. ASSUME NEW g \in Gens, RunStep(g) PROVE UNCHANGED caller
    BY <1>7 DEF RunStep, Recover, Backfill, Probe, Join, Requeue, Finish, FinishFlag, front
  <1> QED
    BY <1>1, <1>2, <1>3, <1>4, <1>5, <1>6, <1>7 DEF Next

LEMMA OneStep ==
    ASSUME TypeOK, OneInv, [Next]_vars, NEW c, Callers = {c}
    PROVE  OneInv'
  <1> USE DEF OneInv, OneRunGoesOn, Alive, NoGen
  <1>1. /\ Starting # {} <=> caller[c] \in {"reset", "activate", "launch"}
        /\ (Starting # {})' <=> caller'[c] \in {"reset", "activate", "launch"}
    BY DEF Starting
  <1>2. caller \in [Callers -> {"idle", "reset", "activate", "launch", "stopping"}]
        /\ slot \in Gens \cup {NoGen} /\ 0 \notin Gens /\ c \in Callers
    BY QueueAssumption DEF TypeOK, CommandType, TokenType, Gens
  <1>3. CASE UNCHANGED <<token, runner, caller>>
    BY <1>1, <1>3 DEF token
  <1>4. CASE UNCHANGED <<token, runner>> /\ (StartReset(c) \/ Activate(c) \/ StopFlag(c))
    <2>1. caller'[c] \in {"reset", "activate", "launch"} => caller[c] \in {"reset", "activate", "launch"}
      BY <1>2, <1>4 DEF StartReset, Activate, StopFlag, Command
    <2> QED
      BY <1>1, <1>4, <2>1 DEF token
  <1>5. CASE Start(c) \/ Stop(c)
    BY <1>5 DEF Start, Stop, Cancel
  <1>6. CASE Launch(c)
    <2>1. Starting # {} /\ caller'[c] = "idle"
      BY <1>1, <1>2, <1>6 DEF Launch, Command
    <2>2. \A g \in Gens : ~(Alive(g) /\ g \notin cancelled /\ runner[g] # "flag")
      BY <1>2, <2>1
    <2> QED
      BY <1>1, <1>6, <2>1, <2>2 DEF Launch, TypeOK, RunType
  <1>7. ASSUME NEW g \in Gens, RunStep(g), UNCHANGED caller
        PROVE  OneInv'
    <2> USE DEF TypeOK, RunType, TokenType, Runner, token
    <2>1. CASE Recover(g) \/ Backfill(g) \/ Probe(g)
      BY <1>1, <1>7, <2>1 DEF Recover, Backfill, Probe
    <2>2. CASE Join(g) \/ Requeue(g)
      BY <1>1, <1>7, <2>2 DEF Join, Requeue
    <2>3. CASE Finish(g)
      BY <1>1, <1>7, <2>3 DEF Finish
    <2>4. CASE FinishFlag(g)
      BY <1>1, <1>7, <2>4 DEF FinishFlag
    <2> QED
      BY <1>7, <2>1, <2>2, <2>3, <2>4 DEF RunStep
  <1>8. CASE Crash
    BY <1>1, <1>2, <1>8 DEF Crash, TypeOK, RunType
  <1>9. CASE UNCHANGED vars
    BY <1>1, <1>9 DEF vars, token, front
  <1> QED
    BY <1>3, <1>4, <1>5, <1>6, <1>7, <1>8, <1>9, CallerFrame

\* derive_commands.rs cancels before it launches: if commands come one after
\* another, every run but the one in the slot has ended or been told to stop,
\* so that the next stop reaches whatever still goes on.
THEOREM OneRun ==
    ASSUME NEW c, Callers = {c}
    PROVE  Spec => []OneRunGoesOn
  <1>1. Init => OneInv
    BY DEF Init, OneInv, OneRunGoesOn, Starting, Alive
  <1>2. TypeOK /\ OneInv /\ [Next]_vars => OneInv'
    BY OneStep
  <1>3. OneInv => OneRunGoesOn
    BY DEF OneInv
  <1> QED
    BY <1>1, <1>2, <1>3, TypeCorrect, PTL DEF Spec

-----------------------------------------------------------------------------
(* What a run has in hand. *)

ClaimsOf(g) == producer[g].batch \cup ToSet(tasks[g]) \cup UNION {job[g][s] : s \in Slots}
ResultsOf(g) == ToSet(results[g]) \cup ToSet(writer[g].batch)

LEMMA Elements ==
    ASSUME NEW S, NEW s \in Seq(S)
    PROVE  /\ ToSet(<< >>) = {}
           /\ ToSet(s) \subseteq S
           /\ \A e \in S : ToSet(Append(s, e)) = ToSet(s) \cup {e}
           /\ s # << >> => /\ Head(s) \in ToSet(s) /\ ToSet(Tail(s)) \subseteq ToSet(s)
                           /\ ToSet(s) \subseteq ToSet(Tail(s)) \cup {Head(s)}
  <1>1. ToSet(<< >>) = {} /\ ToSet(s) \subseteq S
    BY DEF ToSet
  <1>2. ASSUME NEW e \in S
        PROVE  ToSet(Append(s, e)) = ToSet(s) \cup {e}
    <2>1. /\ Append(s, e) \in Seq(S) /\ Len(Append(s, e)) = Len(s) + 1
          /\ Append(s, e)[Len(s) + 1] = e
          /\ \A k \in 1..Len(s) : Append(s, e)[k] = s[k]
      OBVIOUS
    <2>2. \A x : x \in ToSet(Append(s, e)) => x \in ToSet(s) \cup {e}
      BY <2>1 DEF ToSet
    <2>3. \A x : x \in ToSet(s) \cup {e} => x \in ToSet(Append(s, e))
      BY <2>1 DEF ToSet
    <2> QED
      BY <2>2, <2>3
  <1>3. ASSUME s # << >>
        PROVE  /\ Head(s) \in ToSet(s) /\ ToSet(Tail(s)) \subseteq ToSet(s)
               /\ ToSet(s) \subseteq ToSet(Tail(s)) \cup {Head(s)}
    <2>1. /\ Head(s) = s[1] /\ Len(s) \in Nat \ {0}
          /\ Tail(s) \in Seq(S) /\ Len(Tail(s)) = Len(s) - 1
          /\ \A k \in 1..(Len(s) - 1) : Tail(s)[k] = s[k + 1]
      BY <1>3
    <2>2. Head(s) \in ToSet(s) /\ ToSet(Tail(s)) \subseteq ToSet(s)
      BY <2>1 DEF ToSet
    <2>3. ASSUME NEW k \in 1..Len(s), k # 1
          PROVE  s[k] = Tail(s)[k - 1] /\ k - 1 \in 1..Len(Tail(s))
      <3>1. k - 1 \in 1..(Len(s) - 1) /\ (k - 1) + 1 = k
        BY <2>1, <2>3
      <3> QED
        BY <2>1, <3>1
    <2>4. ToSet(s) \subseteq ToSet(Tail(s)) \cup {Head(s)}
      <3>1. /\ \A k \in 1..Len(Tail(s)) : Tail(s)[k] \in ToSet(Tail(s))
            /\ \A e \in ToSet(s) : \E k \in 1..Len(s) : e = s[k]
        <4>1. DOMAIN Tail(s) = 1..Len(Tail(s)) /\ DOMAIN s = 1..Len(s)
          BY <2>1
        <4> QED
          BY <4>1 DEF ToSet
      <3>2. Head(s) = s[1]
        BY <2>1
      <3>3. ASSUME NEW e \in ToSet(s), e # Head(s)
            PROVE  e \in ToSet(Tail(s))
        <4>1. PICK k \in 1..Len(s) : e = s[k]
          BY <3>1
        <4>2. k # 1
          BY <3>2, <3>3, <4>1
        <4>3. e = Tail(s)[k - 1] /\ k - 1 \in 1..Len(Tail(s))
          BY <2>3, <4>1, <4>2
        <4> HIDE DEF ToSet
        <4> QED
          BY <3>1, <4>3
      <3> QED
        BY <3>3
    <2> QED
      BY <2>2, <2>4
  <1> QED
    BY <1>1, <1>2, <1>3

\* What comes into a run's hands: rows its producer reads, and results for the
\* claims it has.
Flows(g) ==
    /\ ClaimsOf(g)' \subseteq ClaimsOf(g) \cup {Claim(i) : i \in Items}
    /\ ResultsOf(g)' \subseteq ResultsOf(g) \cup
           {Result(c, status) : c \in ClaimsOf(g), status \in {Done, Failed}}

LEMMA FlowFrame ==
    ASSUME NEW g \in Gens, producer'[g].batch = producer[g].batch, tasks'[g] = tasks[g],
           job'[g] = job[g], results'[g] = results[g], writer'[g].batch = writer[g].batch
    PROVE  Flows(g)
  BY DEF Flows, ClaimsOf, ResultsOf

\* A step of another run, or of none, leaves a run's hands alone.
LEMMA ForeignFlow ==
    ASSUME TypeOK, NEW g \in Gens, NEW h \in Gens, g # h,
           RunStep(h) \/ ProducerStep(h) \/ ConsumerStep(h) \/ WriterStep(h)
    PROVE  /\ producer'[g] = producer[g] /\ tasks'[g] = tasks[g] /\ consumer'[g] = consumer[g]
           /\ job'[g] = job[g] /\ results'[g] = results[g] /\ writer'[g] = writer[g]
  <1> USE DEF TypeOK, PipeType
  <1>1. CASE RunStep(h)
    BY <1>1 DEF RunStep, Recover, Backfill, Probe, Join, Requeue, Finish, FinishFlag, pipe
  <1>2. CASE ProducerStep(h)
    BY <1>2 DEF ProducerStep, ReadPending, ClaimBatch, Send, Produce
  <1>3. CASE ConsumerStep(h)
    BY <1>3 DEF ConsumerStep, Leave, Dispatch, EndJob
  <1>4. CASE WriterStep(h)
    BY <1>4 DEF WriterStep, Collect, Flush, Write
  <1> QED
    BY <1>1, <1>2, <1>3, <1>4

LEMMA RunFlow ==
    ASSUME TypeOK, NEW g \in Gens, RunStep(g)
    PROVE  Flows(g)
  <1> USE DEF TypeOK, PipeType
  <1>1. CASE Recover(g) \/ Backfill(g) \/ Requeue(g) \/ Finish(g) \/ FinishFlag(g)
    BY <1>1, FlowFrame DEF Recover, Backfill, Requeue, Finish, FinishFlag, pipe
  <1>2. CASE Probe(g)
    <2>1. producer'[g].batch \subseteq producer[g].batch /\ writer'[g].batch = writer[g].batch
      BY <1>2 DEF Probe, Top, IdleProducer, Producers, Writers
    <2> QED
      BY <1>2, <2>1 DEF Probe, Flows, ClaimsOf, ResultsOf
  <1>3. CASE Join(g)
    <2>1. producer'[g].batch = {} /\ ToSet(writer'[g].batch) = {}
      BY <1>3, Elements DEF Join, IdleProducer, IdleWriter
    <2> QED
      BY <1>3, <2>1 DEF Join, Flows, ClaimsOf, ResultsOf
  <1> QED
    BY <1>1, <1>2, <1>3 DEF RunStep

LEMMA ProducerFlow ==
    ASSUME TypeOK, NEW g \in Gens, ProducerStep(g)
    PROVE  Flows(g)
  <1> USE DEF TypeOK, PipeType
  <1>0. Top(g).batch = {}
    BY DEF Top, IdleProducer
  <1>1. CASE ReadPending(g)
    <2>1. PendingOf(g) \subseteq Items
      BY DEF PendingOf, RunType
    <2>2. \A b \in Batches(g) : b \subseteq {Claim(i) : i \in Items}
      BY <2>1 DEF Batches
    <2>3. CASE \E b \in Batches(g) : Produce(g, "read", [at |-> "claim", batch |-> b])
      <3>1. PICK b \in Batches(g) : producer' = [producer EXCEPT ![g] = [at |-> "claim", batch |-> b]]
        BY <2>3 DEF Produce
      <3>2. producer'[g].batch = b
        BY <3>1
      <3> QED
        BY <1>1, <2>2, <3>2 DEF ReadPending, Flows, ClaimsOf, ResultsOf
    <2>4. CASE Produce(g, "read", [IdleProducer EXCEPT !.at = "end"])
      <3>1. producer'[g].batch = {}
        BY <2>4 DEF Produce, IdleProducer
      <3> QED
        BY <1>1, <3>1 DEF ReadPending, Flows, ClaimsOf, ResultsOf
    <2> QED
      BY <1>1, <2>3, <2>4 DEF ReadPending, ClaimsOf, ResultsOf
  <1>2. CASE ClaimBatch(g)
    <2>1. producer'[g].batch \subseteq producer[g].batch
      BY <1>2 DEF ClaimBatch, Produce, Claimable
    <2> QED
      BY <1>2, <2>1 DEF ClaimBatch, Flows, ClaimsOf, ResultsOf
  <1>3. CASE Send(g)
    <2>1. producer'[g].batch \subseteq producer[g].batch
      BY <1>0, <1>3 DEF Send, Produce, Producers
    <2>2. ToSet(tasks'[g]) \subseteq ToSet(tasks[g]) \cup producer[g].batch
      <3>1. \A c \in producer[g].batch : c \in Claims
        BY DEF Producers
      <3>2. tasks[g] \in Seq(Claims)
        OBVIOUS
      <3>3. \A c \in producer[g].batch : ToSet(Append(tasks[g], c)) = ToSet(tasks[g]) \cup {c}
        BY <3>1, <3>2, Elements
      <3>4. CASE UNCHANGED tasks
        BY <3>4
      <3>5. ASSUME NEW c \in producer[g].batch, tasks' = [tasks EXCEPT ![g] = Append(@, c)]
            PROVE  ToSet(tasks'[g]) \subseteq ToSet(tasks[g]) \cup producer[g].batch
        <4>1. tasks'[g] = Append(tasks[g], c)
          BY <3>5
        <4> QED
          BY <3>3, <4>1
      <3> QED
        BY <1>3, <3>4, <3>5 DEF Send
    <2> QED
      BY <1>3, <2>1, <2>2 DEF Send, Flows, ClaimsOf, ResultsOf
  <1> QED
    BY <1>1, <1>2, <1>3 DEF ProducerStep

LEMMA ConsumerFlow ==
    ASSUME TypeOK, NEW g \in Gens, ConsumerStep(g)
    PROVE  Flows(g)
  <1> USE DEF TypeOK, PipeType
  <1>1. CASE Leave(g)
    <2>1. ToSet(tasks'[g]) = {}
      BY <1>1, Elements DEF Leave
    <2> QED
      BY <1>1, <2>1 DEF Leave, Flows, ClaimsOf, ResultsOf
  <1>2. ASSUME NEW s \in Slots, Dispatch(g, s)
        PROVE  Flows(g)
    <2>1. tasks[g] \in Seq(Claims) /\ tasks[g] # << >>
      BY <1>2 DEF Dispatch
    <2>2. Head(tasks[g]) \in ToSet(tasks[g]) /\ ToSet(tasks'[g]) \subseteq ToSet(tasks[g])
      BY <1>2, <2>1, Elements DEF Dispatch
    <2>3. \A u \in Slots : job'[g][u] \subseteq job[g][u] \cup {Head(tasks[g])}
      BY <1>2 DEF Dispatch
    <2> QED
      BY <1>2, <2>2, <2>3 DEF Dispatch, Flows, ClaimsOf, ResultsOf
  <1>3. ASSUME NEW s \in Slots, EndJob(g, s)
        PROVE  Flows(g)
    <2>1. \A u \in Slots : job'[g][u] \subseteq job[g][u]
      BY <1>3 DEF EndJob
    <2>2. ToSet(results'[g]) \subseteq ToSet(results[g]) \cup
              {Result(c, status) : c \in ClaimsOf(g), status \in {Done, Failed}}
      <3>1. PICK c \in job[g][s], status \in {Done, Failed} :
                \/ results' = [results EXCEPT ![g] = Append(@, Result(c, status))]
                \/ UNCHANGED results
        BY <1>3 DEF EndJob
      <3>2. Result(c, status) \in Results /\ c \in ClaimsOf(g)
        BY DEF Result, Results, Claims, TableType, ClaimsOf
      <3>3. ToSet(Append(results[g], Result(c, status))) = ToSet(results[g]) \cup {Result(c, status)}
        BY <3>2, Elements
      <3>4. CASE results' = [results EXCEPT ![g] = Append(@, Result(c, status))]
        <4>1. results'[g] = Append(results[g], Result(c, status))
          BY <3>4
        <4> QED
          BY <3>2, <3>3, <4>1
      <3> QED
        BY <3>1, <3>4
    <2>3. /\ ClaimsOf(g)' \subseteq ClaimsOf(g)
          /\ ResultsOf(g)' = ToSet(results'[g]) \cup ToSet(writer[g].batch)
      BY <1>3, <2>1 DEF EndJob, ClaimsOf, ResultsOf
    <2> HIDE DEF Result
    <2> QED
      BY <2>2, <2>3 DEF Flows, ResultsOf
  <1> QED
    BY <1>1, <1>2, <1>3 DEF ConsumerStep

LEMMA WriterFlow ==
    ASSUME TypeOK, NEW g \in Gens, WriterStep(g)
    PROVE  Flows(g)
  <1> USE DEF TypeOK, PipeType
  <1>0. results[g] \in Seq(Results) /\ writer[g].batch \in Seq(Results)
    BY DEF Writers
  <1>1. CASE Collect(g)
    <2>1. \/ writer'[g].batch = writer[g].batch /\ UNCHANGED results
          \/ writer'[g].batch = writer[g].batch /\ results'[g] = << >>
          \/ /\ results[g] # << >> /\ results'[g] = Tail(results[g])
             /\ writer'[g].batch = Append(writer[g].batch, Head(results[g]))
      BY <1>1 DEF Collect, Write, Writers
    <2>2. ToSet(<< >>) = {}
      BY <1>0, Elements
    <2>3. results[g] # << >> =>
            /\ Head(results[g]) \in ToSet(results[g])
            /\ ToSet(Tail(results[g])) \subseteq ToSet(results[g])
            /\ ToSet(Append(writer[g].batch, Head(results[g])))
                 = ToSet(writer[g].batch) \cup {Head(results[g])}
      BY <1>0, Elements
    <2>4. ResultsOf(g)' \subseteq ResultsOf(g)
      BY <2>1, <2>2, <2>3 DEF ResultsOf
    <2> QED
      BY <1>1, <2>4 DEF Collect, Flows, ClaimsOf
  <1>2. CASE Flush(g)
    <2>1. writer'[g].batch = << >> /\ ToSet(<< >>) = {}
      BY <1>0, <1>2, Elements DEF Flush, Write, IdleWriter
    <2> QED
      BY <1>2, <2>1 DEF Flush, Flows, ClaimsOf, ResultsOf
  <1> QED
    BY <1>1, <1>2 DEF WriterStep

LEMMA StepFlows ==
    ASSUME TypeOK, [Next]_vars, NEW g \in Gens
    PROVE  Flows(g)
  <1>1. CASE UNCHANGED pipe
    BY <1>1, FlowFrame DEF pipe
  <1>2. ASSUME NEW c \in Callers, CommandStep(c)
        PROVE  UNCHANGED pipe
    BY <1>2 DEF CommandStep, Start, StartReset, Activate, Launch, Stop, StopFlag
  <1>3. ASSUME NEW h \in Gens, RunStep(h) \/ ProducerStep(h) \/ ConsumerStep(h) \/ WriterStep(h)
        PROVE  Flows(g)
    <2>1. CASE g # h
      BY <1>3, <2>1, ForeignFlow, FlowFrame
    <2>2. CASE g = h
      BY <1>3, <2>2, RunFlow, ProducerFlow, ConsumerFlow, WriterFlow
    <2> QED
      BY <2>1, <2>2
  <1>4. ASSUME NEW i \in Items, SourceStep(i)
        PROVE  UNCHANGED pipe
    BY <1>4 DEF SourceStep, ChangeFile, Rescan, Touch, DeleteOrRestore, FindMissing, Heal
  <1>5. CASE Clear
    BY <1>1, <1>5 DEF Clear
  <1>6. CASE Crash
    <2>1. ToSet(<< >>) = {}
      BY DEF ToSet
    <2>2. ClaimsOf(g)' = {} /\ ResultsOf(g)' = {}
      BY <1>6, <2>1 DEF Crash, ClaimsOf, ResultsOf, IdleProducer, IdleWriter
    <2> QED
      BY <2>2 DEF Flows
  <1>7. CASE UNCHANGED vars
    BY <1>1, <1>7 DEF vars
  <1> QED
    BY <1>1, <1>2, <1>3, <1>4, <1>5, <1>6, <1>7 DEF Next

-----------------------------------------------------------------------------
(* Freshness. *)

\* What a run has in hand is of a revision the item has or had; a result of the
\* present one shows at least what the last scan found.
Known(c) == c.rev <= rev[c.item]
Sound(r) == /\ Known(r.claim)
            /\ r.status = Done /\ r.claim.rev = rev[r.claim.item] => r.made >= seen[r.claim.item]

ScansAreTrue == \A i \in Items : seen[i] <= file[i]
HandsAreSound == \A g \in Gens : /\ \A c \in ClaimsOf(g) : Known(c)
                                 /\ \A r \in ResultsOf(g) : Sound(r)
FreshInv == ScansAreTrue /\ HandsAreSound /\ DerivedIsFresh

\* The scans only move on, and each one that finds something new raises the revision.
ScansMoveOn ==
    \A i \in Items : /\ rev'[i] \in Nat /\ rev[i] <= rev'[i]
                     /\ rev'[i] = rev[i] => seen'[i] = seen[i]
                     /\ seen'[i] <= file'[i]

LEMMA PipeTables ==
    ASSUME NEW g \in Gens, RunStep(g) \/ ProducerStep(g) \/ ConsumerStep(g) \/ WriterStep(g)
    PROVE  UNCHANGED <<file, seen, rev>>
  <1>1. CASE RunStep(g)
    BY <1>1 DEF RunStep, Recover, Backfill, Probe, Join, Requeue, Finish, FinishFlag, db
  <1>2. CASE ProducerStep(g)
    BY <1>2 DEF ProducerStep, ReadPending, ClaimBatch, Send, db
  <1>3. CASE ConsumerStep(g)
    BY <1>3 DEF ConsumerStep, Leave, Dispatch, EndJob, db
  <1>4. CASE WriterStep(g)
    BY <1>4 DEF WriterStep, Collect, Flush, db
  <1> QED
    BY <1>1, <1>2, <1>3, <1>4

LEMMA ScansStep ==
    ASSUME TypeOK, ScansAreTrue, [Next]_vars
    PROVE  ScansMoveOn
  <1> USE DEF ScansMoveOn, ScansAreTrue
  <1>1. CASE UNCHANGED <<file, seen, rev>>
    BY <1>1 DEF TypeOK, TableType
  <1>2. ASSUME NEW c \in Callers, CommandStep(c)
        PROVE  UNCHANGED <<file, seen, rev>>
    BY <1>2 DEF CommandStep, Start, StartReset, Activate, Launch, Stop, StopFlag, db
  <1>3. ASSUME NEW i \in Items, SourceStep(i)
        PROVE  ScansMoveOn
    <2> USE DEF TypeOK, TableType
    <2>1. CASE ChangeFile(i)
      BY <2>1 DEF ChangeFile
    <2>2. CASE Rescan(i)
      BY <2>2 DEF Rescan
    <2>3. CASE Touch(i) \/ DeleteOrRestore(i)
      BY <2>3 DEF Touch, DeleteOrRestore
    <2>4. CASE FindMissing(i) \/ Heal(i)
      BY <1>1, <2>4 DEF FindMissing, Heal, db
    <2> QED
      BY <1>3, <2>1, <2>2, <2>3, <2>4 DEF SourceStep
  <1>4. CASE Clear \/ Crash
    BY <1>1, <1>4 DEF Clear, Crash, db
  <1>5. CASE UNCHANGED vars
    BY <1>1, <1>5 DEF vars, db
  <1> QED
    BY <1>1, <1>2, <1>3, <1>4, <1>5, PipeTables DEF Next

LEMMA HandsStep ==
    ASSUME TypeOK, ScansAreTrue, HandsAreSound, ScansMoveOn, \A g \in Gens : Flows(g)
    PROVE  HandsAreSound'
  <1> USE DEF TypeOK, TableType
  <1> SUFFICES ASSUME NEW g \in Gens
               PROVE  /\ \A c \in ClaimsOf(g)' : Known(c)'
                      /\ \A r \in ResultsOf(g)' : Sound(r)'
    BY DEF HandsAreSound
  <1>1. /\ \A c \in ClaimsOf(g) : c \in Claims /\ Known(c)
        /\ \A r \in ResultsOf(g) : r \in Results /\ Sound(r)
    <2>1. \A c \in ClaimsOf(g) : c \in Claims
      BY Elements DEF ClaimsOf, PipeType, Producers
    <2>2. \A r \in ResultsOf(g) : r \in Results
      BY Elements DEF ResultsOf, PipeType, Writers
    <2> QED
      BY <2>1, <2>2 DEF HandsAreSound
  <1>2. \A c \in Claims : Known(c) => Known(c)'
    BY DEF Claims, Known, ScansMoveOn
  <1>3. \A i \in Items : Claim(i) \in Claims /\ Known(Claim(i))
    BY DEF Claim, Claims, Known
  <1>4. \A c \in ClaimsOf(g)' : Known(c)'
    BY <1>1, <1>2, <1>3 DEF Flows
  <1>5. ASSUME NEW r \in Results, Sound(r)
        PROVE  Sound(r)'
    <2>1. r.claim \in Claims /\ r.claim.item \in Items /\ r.claim.rev \in Nat
      BY DEF Results, Claims
    <2>2. Known(r.claim)'
      BY <1>2, <1>5, <2>1 DEF Sound
    <2>3. r.claim.rev = rev'[r.claim.item] => r.claim.rev = rev[r.claim.item]
      BY <1>5, <2>1 DEF Sound, Known, ScansMoveOn
    <2> QED
      BY <1>5, <2>1, <2>2, <2>3 DEF Sound, ScansMoveOn
  <1>6. ASSUME NEW c \in ClaimsOf(g), NEW status \in {Done, Failed}
        PROVE  Result(c, status) \in Results /\ Sound(Result(c, status))
    <2>1. c \in Claims /\ Known(c) /\ c.item \in Items
      BY <1>1 DEF Claims
    <2>2. Result(c, status) \in Results
      BY <2>1 DEF Result, Results
    <2>3. Result(c, status).claim = c /\ Result(c, status).status = status
      BY DEF Result
    <2>4. status = Done => Result(c, status).made = file[c.item]
      BY DEF Result
    <2>5. file[c.item] >= seen[c.item]
      BY <2>1 DEF ScansAreTrue
    <2> QED
      BY <2>1, <2>2, <2>3, <2>4, <2>5 DEF Sound
  <1>7. \A r \in ResultsOf(g)' : Sound(r)'
    BY <1>1, <1>5, <1>6 DEF Flows
  <1> QED
    BY <1>4, <1>7

\* A row that is done after the step was done before, with the same payload.
RowsKept ==
    \A i \in Items : /\ row'[i].status = Done => row[i].status = Done /\ row'[i].payload = row[i].payload
                     /\ cover'[i] \in {0, cover[i]}
                     /\ seen'[i] = seen[i]

LEMMA KeptIsFresh ==
    ASSUME DerivedIsFresh, RowsKept
    PROVE  DerivedIsFresh'
  BY DEF DerivedIsFresh, RowsKept

LEMMA CommandKeeps ==
    ASSUME TypeOK, NEW c \in Callers, CommandStep(c)
    PROVE  RowsKept
  <1>1. CASE UNCHANGED db
    BY <1>1 DEF RowsKept, db
  <1>2. CASE StartReset(c)
    BY <1>2 DEF StartReset, RowsKept, Reset, Pending, Done
  <1> QED
    BY <1>1, <1>2 DEF CommandStep, Start, Activate, Launch, Stop, StopFlag

LEMMA PipeKeeps ==
    ASSUME TypeOK, NEW g \in Gens, RunStep(g) \/ ProducerStep(g) \/ ConsumerStep(g) \/ Collect(g)
    PROVE  RowsKept
  <1> USE DEF TypeOK, TableType, Rows, Pending, Processing, Done, Failed
  <1>1. CASE UNCHANGED db
    BY <1>1 DEF RowsKept, db
  <1>2. CASE Recover(g)
    <2>1. ASSUME NEW i \in Items
          PROVE  Recovered[i].status = Done => Recovered[i] = row[i]
      <3>1. row[i] \in Rows
        OBVIOUS
      <3>2. CASE i \in InFlight
        <4>1. Recovered[i].status \in {Pending, Failed}
          BY <3>1, <3>2 DEF Recovered
        <4> QED
          BY <4>1
      <3>3. CASE i \notin InFlight
        BY <3>3 DEF Recovered
      <3> QED
        BY <3>2, <3>3
    <2> QED
      BY <1>2, <2>1 DEF Recover, RowsKept
  <1>3. CASE Backfill(g)
    BY <1>3 DEF Backfill, Backfilled, RowsKept
  <1>4. CASE Requeue(g)
    BY <1>4 DEF Requeue, Requeued, RowsKept
  <1>5. CASE Probe(g) \/ Join(g) \/ Finish(g) \/ FinishFlag(g)
    BY <1>1, <1>5 DEF Probe, Join, Finish, FinishFlag
  <1>6. CASE ClaimBatch(g)
    BY <1>6 DEF ClaimBatch, RowsKept
  <1>7. CASE ReadPending(g) \/ Send(g)
    BY <1>1, <1>7 DEF ReadPending, Send
  <1>8. CASE ConsumerStep(g)
    BY <1>1, <1>8 DEF ConsumerStep, Leave, Dispatch, EndJob
  <1>9. CASE Collect(g)
    BY <1>1, <1>9 DEF Collect
  <1> QED
    BY <1>2, <1>3, <1>4, <1>5, <1>6, <1>7, <1>8, <1>9 DEF RunStep, ProducerStep

\* What the writer stores is of the present revision, and so is fresh.
LEMMA FlushFresh ==
    ASSUME TypeOK, HandsAreSound, DerivedIsFresh, NEW g \in Gens, Flush(g)
    PROVE  DerivedIsFresh'
  <1> DEFINE b == writer[g].batch
             items == {r.claim.item : r \in Accepted(b)}
  <1>1. b \in Seq(Results) /\ ToSet(b) \subseteq ResultsOf(g)
    BY DEF TypeOK, PipeType, Writers, ResultsOf
  <1>2. UNCHANGED seen
    BY DEF Flush
  <1>3. ASSUME NEW i \in items, FirstFor(b, i).status = Done
        PROVE  FirstFor(b, i).made >= seen[i]
    <2>1. FirstFor(b, i) \in Accepted(b) /\ FirstFor(b, i).claim.item = i
      BY <1>1, FirstIsAccepted
    <2>2. Sound(FirstFor(b, i)) /\ Matches(FirstFor(b, i).claim)
      BY <1>1, <2>1 DEF Accepted, HandsAreSound
    <2> QED
      BY <1>3, <2>1, <2>2 DEF Sound, Matches
  <1>4. CASE UNCHANGED <<row, cover>>
    BY <1>2, <1>4 DEF DerivedIsFresh
  <1>5. CASE /\ row' = [i \in Items |-> IF i \notin items THEN row[i] ELSE
                        [status |-> FirstFor(b, i).status, orphans |-> 0, payload |-> FirstFor(b, i).made]]
             /\ cover' = [i \in Items |-> IF i \in items /\ FirstFor(b, i).status = Done
                                         THEN FirstFor(b, i).made ELSE cover[i]]
    <2> HIDE DEF b, items
    <2> QED
      BY <1>2, <1>3, <1>5 DEF DerivedIsFresh
  <1> QED
    BY <1>4, <1>5 DEF Flush

LEMMA SourceFresh ==
    ASSUME TypeOK, DerivedIsFresh, NEW i \in Items, SourceStep(i)
    PROVE  DerivedIsFresh'
  <1> USE DEF TypeOK, TableType, Rows, Pending, Done
  <1>1. CASE Rescan(i)
    <2>1. row'[i].status # Done /\ cover'[i] = 0
      BY <1>1 DEF Rescan, Invalidated, Absent
    <2>2. \A j \in Items \ {i} : row'[j] = row[j] /\ cover'[j] = cover[j] /\ seen'[j] = seen[j]
      BY <1>1 DEF Rescan
    <2> QED
      BY <2>1, <2>2 DEF DerivedIsFresh
  <1>2. CASE ChangeFile(i) \/ Touch(i) \/ DeleteOrRestore(i) \/ FindMissing(i)
    BY <1>2 DEF ChangeFile, Touch, DeleteOrRestore, FindMissing, db, DerivedIsFresh
  <1>3. CASE Heal(i)
    <2>1. RowsKept
      BY <1>3 DEF Heal, RowsKept
    <2> QED
      BY <2>1, KeptIsFresh
  <1> QED
    BY <1>1, <1>2, <1>3 DEF SourceStep

LEMMA FreshStep ==
    ASSUME TypeOK, FreshInv, [Next]_vars
    PROVE  FreshInv'
  <1> USE DEF FreshInv
  <1>1. ScansMoveOn /\ ScansAreTrue'
    BY ScansStep DEF ScansMoveOn, ScansAreTrue
  <1>2. HandsAreSound'
    BY <1>1, StepFlows, HandsStep
  <1>3. DerivedIsFresh'
    <2>1. CASE Clear
      <3>1. RowsKept
        BY <2>1 DEF Clear, RowsKept, Reset, Pending, Done
      <3> QED
        BY <3>1, KeptIsFresh
    <2>2. CASE UNCHANGED db
      BY <2>2 DEF DerivedIsFresh, db
    <2>3. CASE Crash \/ UNCHANGED vars
      BY <2>2, <2>3 DEF Crash, vars
    <2> QED
      BY <2>1, <2>3, CommandKeeps, PipeKeeps, KeptIsFresh, FlushFresh, SourceFresh DEF Next, WriterStep
  <1> QED
    BY <1>1, <1>2, <1>3

\* What is derived is never older than what the last scan found, however many
\* runs overlap: a result is stored only if its claim is of the revision the
\* item has, and every scan that finds something new raises that.
THEOREM DerivedFresh == Spec => []DerivedIsFresh
  <1>1. Init => FreshInv
    <2> SUFFICES ASSUME Init PROVE FreshInv
      OBVIOUS
    <2>1. ScansAreTrue
      BY DEF Init, ScansAreTrue
    <2>2. HandsAreSound
      <3>1. ToSet(<< >>) = {}
        BY DEF ToSet
      <3>2. \A g \in Gens : ClaimsOf(g) = {} /\ ResultsOf(g) = {}
        BY <3>1 DEF Init, ClaimsOf, ResultsOf, IdleProducer, IdleWriter
      <3> QED
        BY <3>2 DEF HandsAreSound
    <2>3. DerivedIsFresh
      <3>1. \A r \in LeftRows : r.status # Done
        BY DEF LeftRows, NoRow, Absent, Processing, Done
      <3> QED
        BY <3>1 DEF Init, DerivedIsFresh
    <2> QED
      BY <2>1, <2>2, <2>3 DEF FreshInv
  <1>2. TypeOK /\ FreshInv /\ [Next]_vars => FreshInv'
    BY FreshStep
  <1>3. FreshInv => DerivedIsFresh
    BY DEF FreshInv
  <1> QED
    BY <1>1, <1>2, <1>3, TypeCorrect, PTL DEF Spec

-----------------------------------------------------------------------------
(* Clean stops. *)

\* A row is in the hands of a run.
Held(i, g) ==
    \/ producer[g].at = "send" /\ \E c \in producer[g].batch : c.item = i
    \/ \E c \in ToSet(tasks[g]) : c.item = i
    \/ \E s \in Slots : \E c \in job[g][s] : c.item = i
    \/ \E r \in ResultsOf(g) : r.claim.item = i

\* The threads of a run are there while it works, and end in their order unless
\* it was stopped: the consumer after the producer and with an empty channel, the
\* writer after both.
Orderly(g) ==
    /\ g > latest => runner[g] = "unused"
    /\ runner[g] # "work" => /\ producer[g].at = "off" /\ consumer[g] = "off" /\ writer[g].at = "off"
                             /\ \A s \in Slots : job[g][s] = {}
    /\ \A s \in Slots : \A c, d \in job[g][s] : c = d
    /\ runner[g] = "work" => producer[g].at # "off" /\ consumer[g] # "off" /\ writer[g].at # "off"
    /\ writer[g].at = "end" => writer[g].batch = << >>
    /\ g \notin cancelled =>
          /\ consumer[g] = "scope" => producer[g].at = "end" /\ tasks[g] = << >>
          /\ writer[g].at \in {"last", "end"} => ConsumerEnded(g) /\ results[g] = << >>

\* A row in processing that nothing excuses is in the hands of the newest run,
\* which is alone and has not got past its last chance to put the row back.
Unexcused == InFlight \ excused
Accounted(i) ==
    /\ latest # NoGen /\ Alone(latest)
    /\ \/ runner[latest] = "requeue"
       \/ runner[latest] = "work" /\ (latest \in cancelled \/ Held(i, latest))

CleanInv == TokenInv /\ (\A g \in Gens : Orderly(g)) /\ \A i \in Unexcused : Accounted(i)

\* A step of a run touches its own place only.
LEMMA OwnPlace ==
    ASSUME TypeOK, NEW h \in Gens,
           RunStep(h) \/ ProducerStep(h) \/ ConsumerStep(h) \/ WriterStep(h)
    PROVE  /\ UNCHANGED <<latest, cancelled>>
           /\ \A g \in Gens \ {h} : runner'[g] = runner[g]
           /\ runner' = runner \/ RunStep(h)
  <1> USE DEF TypeOK, RunType
  <1>1. CASE RunStep(h)
    BY <1>1 DEF RunStep, Recover, Backfill, Probe, Join, Requeue, Finish, FinishFlag, Runner, token
  <1>2. CASE ProducerStep(h)
    BY <1>2 DEF ProducerStep, ReadPending, ClaimBatch, Send, token
  <1>3. CASE ConsumerStep(h)
    BY <1>3 DEF ConsumerStep, Leave, Dispatch, EndJob, token
  <1>4. CASE WriterStep(h)
    BY <1>4 DEF WriterStep, Collect, Flush, token
  <1> QED
    BY <1>1, <1>2, <1>3, <1>4

LEMMA RunOrderly ==
    ASSUME TypeOK, NEW g \in Gens, Orderly(g), RunStep(g)
    PROVE  Orderly(g)'
  <1> USE DEF TypeOK, RunType, PipeType, Orderly, Runner
  <1>0. UNCHANGED <<latest, cancelled>>
    BY OwnPlace
  <1>1. CASE Recover(g) \/ Backfill(g) \/ Requeue(g) \/ Finish(g) \/ FinishFlag(g)
    <2>1. /\ UNCHANGED pipe /\ runner[g] \notin {"work", "unused"}
          /\ runner'[g] \notin {"work", "unused"}
      BY <1>1 DEF Recover, Backfill, Requeue, Finish, FinishFlag
    <2> QED
      BY <1>0, <2>1 DEF pipe, ConsumerEnded
  <1>2. CASE Probe(g)
    <2>1. runner[g] = "probe" /\ UNCHANGED <<tasks, job, results>>
      BY <1>2 DEF Probe
    <2>2. CASE runner'[g] = "finish" /\ UNCHANGED <<producer, consumer, writer>>
      BY <1>0, <2>1, <2>2 DEF ConsumerEnded
    <2>3. CASE /\ runner'[g] = "work" /\ consumer'[g] = "receive" /\ writer'[g].at = "receive"
               /\ producer'[g].at # "off"
      BY <1>0, <2>1, <2>3
    <2>4. writer' = [writer EXCEPT ![g].at = "receive"] => writer'[g].at = "receive"
      BY DEF Writers
    <2>5. Top(g).at # "off" /\ (producer' = [producer EXCEPT ![g] = Top(g)] => producer'[g] = Top(g))
      BY DEF Top, IdleProducer
    <2> QED
      BY <1>2, <2>2, <2>3, <2>4, <2>5 DEF Probe
  <1>3. CASE Join(g)
    <2>1. /\ \A s \in Slots : job[g][s] = {}
          /\ producer'[g].at = "off" /\ consumer'[g] = "off"
          /\ writer'[g].at = "off"
          /\ runner'[g] \notin {"work", "unused"} /\ runner[g] = "work" /\ UNCHANGED job
      BY <1>3 DEF Join, Joined, ConsumerEnded, IdleProducer, IdleWriter
    <2> QED
      BY <1>0, <2>1
  <1> QED
    BY <1>1, <1>2, <1>3 DEF RunStep

LEMMA ProducerOrderly ==
    ASSUME TypeOK, NEW g \in Gens, Orderly(g), ProducerStep(g)
    PROVE  Orderly(g)'
  <1> USE DEF TypeOK, PipeType, Orderly
  <1>0. UNCHANGED <<latest, cancelled>>
    BY OwnPlace
  <1>1. /\ UNCHANGED <<runner, consumer, job, results, writer>>
        /\ producer[g].at \notin {"off", "end"}
    BY DEF ProducerStep, ReadPending, ClaimBatch, Send, Produce
  <1>2. producer'[g].at # "off" /\ runner[g] = "work"
    BY <1>1 DEF ProducerStep, ReadPending, ClaimBatch, Send, Produce, Producers, IdleProducer, Top
  <1> QED
    BY <1>0, <1>1, <1>2 DEF ConsumerEnded

LEMMA ConsumerOrderly ==
    ASSUME TypeOK, NEW g \in Gens, Orderly(g), ConsumerStep(g)
    PROVE  Orderly(g)'
  <1> USE DEF TypeOK, PipeType, Orderly
  <1>0. UNCHANGED <<latest, cancelled>>
    BY OwnPlace
  <1>1. CASE Leave(g)
    BY <1>0, <1>1 DEF Leave, ConsumerEnded
  <1>2. CASE \E s \in Slots : Dispatch(g, s)
    <2>1. PICK s \in Slots : Dispatch(g, s)
      BY <1>2
    <2>2. /\ consumer[g] = "receive" /\ UNCHANGED <<runner, producer, consumer, writer, results>>
          /\ \A u \in Slots : job'[g][u] \in {job[g][u], {Head(tasks[g])}}
      BY <2>1 DEF Dispatch
    <2>3. \A u \in Slots : \A c, d \in job'[g][u] : c = d
      BY <2>2
    <2> QED
      BY <1>0, <2>2, <2>3 DEF ConsumerEnded
  <1>3. CASE \E s \in Slots : EndJob(g, s)
    <2>1. PICK s \in Slots : EndJob(g, s)
      BY <1>3
    <2>2. ~ConsumerEnded(g) /\ UNCHANGED <<runner, producer, consumer, writer, tasks>>
      BY <2>1 DEF EndJob, ConsumerEnded
    <2>3. \A u \in Slots : job'[g][u] \subseteq job[g][u]
      BY <2>1 DEF EndJob
    <2>4. /\ \A u \in Slots : \A c, d \in job'[g][u] : c = d
          /\ runner[g] # "work" => \A u \in Slots : job'[g][u] = {}
      BY <2>3
    <2> QED
      BY <1>0, <2>2, <2>4
  <1> QED
    BY <1>1, <1>2, <1>3 DEF ConsumerStep

LEMMA WriterOrderly ==
    ASSUME TypeOK, NEW g \in Gens, Orderly(g), WriterStep(g)
    PROVE  Orderly(g)'
  <1> USE DEF TypeOK, PipeType, Orderly
  <1>0. UNCHANGED <<latest, cancelled>>
    BY OwnPlace
  <1>1. CASE Collect(g)
    <2>1. /\ writer[g].at = "receive" /\ UNCHANGED <<runner, producer, consumer, tasks, job>>
          /\ \/ writer'[g].at = "last" /\ results[g] = << >> /\ ResultsClosed(g) /\ results' = results
             \/ writer'[g].at = "last" /\ g \in cancelled
             \/ writer'[g].at \in {"flush", "receive"}
      BY <1>1 DEF Collect, Write, Writers
    <2> QED
      BY <1>0, <2>1 DEF ResultsClosed, ConsumerEnded
  <1>2. CASE Flush(g)
    <2>1. /\ UNCHANGED <<runner, producer, consumer, tasks, job, results>>
          /\ writer'[g].batch = << >>
          /\ \/ writer[g].at = "flush" /\ writer'[g].at = "receive"
             \/ writer[g].at = "last" /\ writer'[g].at = "end"
      BY <1>2 DEF Flush, Write, IdleWriter
    <2> QED
      BY <1>0, <2>1 DEF ConsumerEnded
  <1> QED
    BY <1>1, <1>2 DEF WriterStep

LEMMA OrderlyStep ==
    ASSUME TypeOK, [Next]_vars, NEW g \in Gens, Orderly(g)
    PROVE  Orderly(g)'
  <1>1. ASSUME UNCHANGED <<pipe, runner, latest>>, cancelled \subseteq cancelled'
        PROVE  Orderly(g)'
    BY <1>1 DEF pipe, Orderly, ConsumerEnded
  <1>2. ASSUME NEW c \in Callers, CommandStep(c), ~Launch(c)
        PROVE  Orderly(g)'
    BY <1>1, <1>2 DEF CommandStep, Start, StartReset, Activate, Stop, StopFlag, Cancel, token
  <1>3. ASSUME NEW c \in Callers, Launch(c)
        PROVE  Orderly(g)'
    <2>1. /\ UNCHANGED <<pipe, cancelled>> /\ latest' = latest + 1 /\ latest \in Nat /\ g \in Nat
          /\ runner' = [runner EXCEPT ![latest + 1] = "recover"]
      BY <1>3 DEF Launch, TypeOK, TokenType, Gens, NoGen
    <2>2. CASE g = latest + 1
      BY <2>1, <2>2 DEF Orderly, TypeOK, RunType, pipe, ConsumerEnded
    <2>3. CASE g # latest + 1
      BY <2>1, <2>3 DEF Orderly, TypeOK, RunType, pipe, ConsumerEnded
    <2> QED
      BY <2>2, <2>3
  <1>4. ASSUME NEW h \in Gens, RunStep(h) \/ ProducerStep(h) \/ ConsumerStep(h) \/ WriterStep(h)
        PROVE  Orderly(g)'
    <2>1. CASE g # h
      <3>1. /\ producer'[g] = producer[g] /\ tasks'[g] = tasks[g] /\ consumer'[g] = consumer[g]
            /\ job'[g] = job[g] /\ results'[g] = results[g] /\ writer'[g] = writer[g]
        BY <1>4, <2>1, ForeignFlow
      <3>2. UNCHANGED <<latest, cancelled>> /\ runner'[g] = runner[g]
        BY <1>4, <2>1, OwnPlace
      <3> QED
        BY <3>1, <3>2 DEF Orderly, ConsumerEnded
    <2>2. CASE g = h
      BY <1>4, <2>2, RunOrderly, ProducerOrderly, ConsumerOrderly, WriterOrderly
    <2> QED
      BY <2>1, <2>2
  <1>5. ASSUME NEW i \in Items, SourceStep(i)
        PROVE  Orderly(g)'
    BY <1>1, <1>5 DEF SourceStep, ChangeFile, Rescan, Touch, DeleteOrRestore, FindMissing, Heal, token
  <1>6. CASE Clear
    BY <1>1, <1>6 DEF Clear, token
  <1>7. CASE Crash
    BY <1>7 DEF Crash, Orderly, IdleProducer, IdleWriter, TypeOK, RunType
  <1>8. CASE UNCHANGED vars
    BY <1>1, <1>8 DEF vars, token
  <1> QED
    BY <1>2, <1>3, <1>4, <1>5, <1>6, <1>7, <1>8 DEF Next

\* Whoever takes a claim from one place of a run puts it into the next, unless
\* the run was stopped; the writer excuses what it could not store.
LEMMA ProducerHolds ==
    ASSUME TypeOK, NEW g \in Gens, Orderly(g), g \notin cancelled, NEW i, Held(i, g),
           ReadPending(g) \/ Send(g)
    PROVE  Held(i, g)'
  <1> USE DEF TypeOK, PipeType
  <1>0. UNCHANGED <<job, results, writer>> /\ ResultsOf(g)' = ResultsOf(g)
    BY DEF ReadPending, Send, ResultsOf
  <1>1. CASE ReadPending(g)
    BY <1>0, <1>1 DEF ReadPending, Produce, Held
  <1>2. CASE Send(g)
    <2>1. CASE producer[g].batch = {} /\ UNCHANGED tasks
      BY <1>0, <2>1 DEF Held
    <2>2. Receiving(g)
      BY <1>2 DEF Send, Produce, Orderly, Receiving
    <2>3. ASSUME NEW c \in producer[g].batch,
                 Produce(g, "send", [producer[g] EXCEPT !.batch = @ \ {c}]),
                 tasks' = [tasks EXCEPT ![g] = Append(@, c)]
          PROVE  Held(i, g)'
      <3>1. c \in Claims /\ tasks[g] \in Seq(Claims)
        BY DEF Producers
      <3>2. ToSet(Append(tasks[g], c)) = ToSet(tasks[g]) \cup {c}
        BY <3>1, Elements
      <3>3. ToSet(tasks'[g]) = ToSet(tasks[g]) \cup {c}
        BY <2>3, <3>2
      <3>4. producer'[g].at = "send" /\ producer'[g].batch = producer[g].batch \ {c}
        BY <2>3 DEF Produce, Producers
      <3> QED
        BY <1>0, <3>3, <3>4 DEF Held
    <2> QED
      BY <1>2, <2>1, <2>2, <2>3 DEF Send
  <1> QED
    BY <1>1, <1>2

LEMMA ConsumerHolds ==
    ASSUME TypeOK, NEW g \in Gens, Orderly(g), g \notin cancelled, NEW i, Held(i, g),
           ConsumerStep(g)
    PROVE  Held(i, g)'
  <1> USE DEF TypeOK, PipeType
  <1>1. CASE Leave(g)
    BY <1>1 DEF Leave, Held, ResultsOf
  <1>2. ASSUME NEW s \in Slots, Dispatch(g, s)
        PROVE  Held(i, g)'
    <2>1. tasks[g] \in Seq(Claims) /\ tasks[g] # << >> /\ tasks'[g] = Tail(tasks[g])
      BY <1>2 DEF Dispatch
    <2>2. ToSet(tasks[g]) \subseteq ToSet(tasks'[g]) \cup {Head(tasks[g])}
      BY <2>1, Elements
    <2>3. /\ job'[g][s] = {Head(tasks[g])} /\ job[g][s] = {}
          /\ \A u \in Slots \ {s} : job'[g][u] = job[g][u]
          /\ UNCHANGED <<producer, results, writer>>
      BY <1>2 DEF Dispatch
    <2> QED
      BY <2>2, <2>3 DEF Held, ResultsOf
  <1>3. ASSUME NEW s \in Slots, EndJob(g, s)
        PROVE  Held(i, g)'
    <2>1. PICK c \in job[g][s], status \in {Done, Failed} :
             IF Storing(g) THEN results' = [results EXCEPT ![g] = Append(@, Result(c, status))]
                           ELSE UNCHANGED results
      BY <1>3 DEF EndJob
    <2>2. /\ UNCHANGED <<producer, tasks, writer>> /\ job'[g][s] = {}
          /\ \A u \in Slots \ {s} : job'[g][u] = job[g][u]
      BY <1>3 DEF EndJob
    <2>3. Storing(g)
      BY DEF Orderly, ConsumerEnded, Storing, Writers
    <2>4. results'[g] = Append(results[g], Result(c, status)) /\ results[g] \in Seq(Results)
      BY <2>1, <2>3
    <2>5. Result(c, status) \in Results /\ Result(c, status).claim = c
      BY DEF Result, Results, Claims, TableType
    <2>6. ToSet(results'[g]) = ToSet(results[g]) \cup {Result(c, status)}
      BY <2>4, <2>5, Elements
    <2>7. \A d \in job[g][s] : d = c
      BY DEF Orderly
    <2> HIDE DEF Result
    <2> QED
      BY <2>2, <2>5, <2>6, <2>7 DEF Held, ResultsOf
  <1> QED
    BY <1>1, <1>2, <1>3 DEF ConsumerStep

LEMMA WriterHolds ==
    ASSUME TypeOK, NEW g \in Gens, g \notin cancelled, NEW i \in Items, Held(i, g),
           WriterStep(g), i \in Unexcused'
    PROVE  Held(i, g)'
  <1> USE DEF TypeOK, PipeType
  <1>0. results[g] \in Seq(Results) /\ writer[g].batch \in Seq(Results)
    BY DEF Writers
  <1>1. CASE Collect(g)
    <2>1. /\ UNCHANGED <<producer, tasks, job>>
          /\ \/ writer'[g].batch = writer[g].batch /\ UNCHANGED results
             \/ /\ results[g] # << >> /\ results'[g] = Tail(results[g])
                /\ writer'[g].batch = Append(writer[g].batch, Head(results[g]))
      BY <1>1 DEF Collect, Write, Writers
    <2>2. results[g] # << >> =>
            /\ Head(results[g]) \in Results
            /\ ToSet(results[g]) \subseteq ToSet(Tail(results[g])) \cup {Head(results[g])}
      BY <1>0, Elements
    <2>3. \A r \in Results : ToSet(Append(writer[g].batch, r)) = ToSet(writer[g].batch) \cup {r}
      BY <1>0, Elements
    <2>4. ResultsOf(g) \subseteq ResultsOf(g)'
      BY <2>1, <2>2, <2>3 DEF ResultsOf
    <2> QED
      BY <2>1, <2>4 DEF Held
  <1>2. CASE Flush(g)
    <2> DEFINE b == writer[g].batch
               items == {r.claim.item : r \in Accepted(b)}
               Flushed == {r.claim.item : r \in ToSet(b)}
    <2>1. UNCHANGED <<producer, tasks, job, results>>
      BY <1>2 DEF Flush
    <2>2. ASSUME i \in Flushed
          PROVE  FALSE
      <3>1. i \notin excused' /\ row'[i].status = Processing
        BY DEF Unexcused, InFlight
      <3>2. CASE excused' = excused \cup Flushed
        BY <2>2, <3>1, <3>2
      <3>3. CASE /\ row' = [j \in Items |-> IF j \notin items THEN row[j] ELSE
                        [status |-> FirstFor(b, j).status, orphans |-> 0, payload |-> FirstFor(b, j).made]]
                 /\ excused' = (excused \cup Flushed) \ items
        <4>1. i \in items
          BY <2>2, <3>1, <3>3
        <4>2. FirstFor(b, i).status \in {Done, Failed}
          <5>1. FirstFor(b, i) \in Accepted(b)
            BY <1>0, <4>1, FirstIsAccepted
          <5>2. Accepted(b) \subseteq Results
            BY <1>0, Elements DEF Accepted
          <5> QED
            BY <5>1, <5>2 DEF Results
        <4>3. row'[i].status = FirstFor(b, i).status
          BY <3>3, <4>1
        <4> QED
          BY <3>1, <4>2, <4>3 DEF Processing, Done, Failed
      <3> QED
        BY <1>2, <3>2, <3>3 DEF Flush
    <2>3. i \notin Flushed
      BY <2>2
    <2> QED
      BY <2>1, <2>3 DEF Held, ResultsOf
  <1> QED
    BY <1>1, <1>2 DEF WriterStep

\* A run that moves is alive, so that it is the newest if the newest is alone.
LEMMA MoverIsLatest ==
    ASSUME TypeOK, NEW h \in Gens, Orderly(h), Alone(latest),
           RunStep(h) \/ ProducerStep(h) \/ ConsumerStep(h) \/ WriterStep(h)
    PROVE  h = latest
  <1>1. CASE RunStep(h)
    <2>1. Alive(h)
      BY <1>1 DEF RunStep, Recover, Backfill, Probe, Join, Requeue, Finish, FinishFlag, Runner, Alive
    <2> QED
      BY <2>1 DEF Alone
  <1>2. CASE ProducerStep(h) \/ ConsumerStep(h) \/ WriterStep(h)
    <2>1. \/ producer[h].at # "off" \/ consumer[h] # "off" \/ writer[h].at # "off"
          \/ \E s \in Slots : job[h][s] # {}
      <3>1. ProducerStep(h) => producer[h].at # "off"
        BY DEF ProducerStep, ReadPending, ClaimBatch, Send, Produce
      <3>2. ConsumerStep(h) => consumer[h] # "off" \/ \E s \in Slots : job[h][s] # {}
        BY DEF ConsumerStep, Leave, Dispatch, EndJob
      <3>3. WriterStep(h) => writer[h].at # "off"
        BY DEF WriterStep, Collect, Flush, Write
      <3> QED
        BY <1>2, <3>1, <3>2, <3>3
    <2>2. runner[h] = "work"
      BY <2>1 DEF Orderly
    <2> QED
      BY <2>2 DEF Alone, Alive
  <1> QED
    BY <1>1, <1>2

\* Only a claim puts a row into processing.
LEMMA InFlightShrinks ==
    ASSUME TypeOK,
           \/ \E c \in Callers : CommandStep(c)
           \/ \E g \in Gens : \/ RunStep(g) \/ ReadPending(g) \/ Send(g)
                             \/ ConsumerStep(g) \/ WriterStep(g)
           \/ \E i \in Items : SourceStep(i)
           \/ Clear \/ Crash \/ UNCHANGED vars
    PROVE  InFlight' \subseteq InFlight
  <1> USE DEF TypeOK, TableType, Rows, InFlight, Pending, Processing, Done, Failed, Absent
  <1>1. ASSUME UNCHANGED row PROVE InFlight' \subseteq InFlight
    BY <1>1
  <1>2. ASSUME NEW c \in Callers, CommandStep(c)
        PROVE  InFlight' \subseteq InFlight
    <2>1. UNCHANGED row \/ row' = Reset(want[c])
      BY <1>2 DEF CommandStep, Start, StartReset, Activate, Launch, Stop, StopFlag, db
    <2> QED
      BY <1>1, <2>1 DEF Reset
  <1>3. ASSUME NEW g \in Gens, RunStep(g)
        PROVE  InFlight' \subseteq InFlight
    <2>1. UNCHANGED row \/ row' = Recovered \/ row' = Backfilled(wanted[g]) \/ row' = Requeued
      BY <1>3 DEF RunStep, Recover, Backfill, Probe, Join, Requeue, Finish, FinishFlag, db
    <2>2. ASSUME row' = Recovered PROVE InFlight' \subseteq InFlight
      <3>1. ASSUME NEW i \in Items, row[i].status # Processing
            PROVE  row'[i].status # Processing
        <4>1. Recovered[i] = row[i]
          BY <3>1 DEF Recovered
        <4> QED
          BY <2>2, <3>1, <4>1
      <3> QED
        BY <3>1
    <2>3. row' = Backfilled(wanted[g]) => InFlight' \subseteq InFlight
      BY DEF Backfilled
    <2>4. row' = Requeued => InFlight' \subseteq InFlight
      BY DEF Requeued
    <2> QED
      BY <1>1, <2>1, <2>2, <2>3, <2>4
  <1>4. ASSUME NEW g \in Gens, ReadPending(g) \/ Send(g) \/ ConsumerStep(g) \/ Collect(g)
        PROVE  InFlight' \subseteq InFlight
    BY <1>1, <1>4 DEF ReadPending, Send, ConsumerStep, Leave, Dispatch, EndJob, Collect, db
  <1>5. ASSUME NEW g \in Gens, Flush(g)
        PROVE  InFlight' \subseteq InFlight
    <2> DEFINE b == writer[g].batch
               items == {r.claim.item : r \in Accepted(b)}
    <2>1. items \subseteq InFlight
      <3>1. ToSet(b) \subseteq Results
        BY Elements DEF PipeType, Writers
      <3> QED
        BY <3>1 DEF Accepted, Results, Claims
    <2>2. UNCHANGED row \/ \A i \in Items : i \notin items => row'[i] = row[i]
      BY <1>5 DEF Flush
    <2> QED
      BY <2>1, <2>2
  <1>6. ASSUME NEW i \in Items, SourceStep(i)
        PROVE  InFlight' \subseteq InFlight
    <2>1. CASE Rescan(i)
      <3>1. Invalidated(i).status # Processing
        BY DEF Invalidated
      <3> QED
        BY <2>1, <3>1 DEF Rescan
    <2>2. CASE Heal(i)
      <3>1. row'[i].status # Processing /\ \A j \in Items \ {i} : row'[j] = row[j]
        BY <2>2 DEF Heal
      <3> QED
        BY <3>1
    <2> QED
      BY <1>1, <1>6, <2>1, <2>2 DEF SourceStep, ChangeFile, Touch, DeleteOrRestore, FindMissing, db
  <1>7. CASE Clear
    BY <1>7 DEF Clear, Reset
  <1>8. CASE Crash \/ UNCHANGED vars
    BY <1>1, <1>8 DEF Crash, vars, db
  <1> QED
    BY <1>2, <1>3, <1>4, <1>5, <1>6, <1>7, <1>8 DEF WriterStep

\* What is newly in processing was claimed by the newest run, alone; of what was,
\* the newest run keeps hold until it puts it back or has it stored.
LEMMA AccountedStep ==
    ASSUME TypeOK, CleanInv, [Next]_vars, NEW i \in Items, i \in Unexcused'
    PROVE  Accounted(i)'
  <1> USE DEF CleanInv
  <1>1. ASSUME i \in Unexcused, UNCHANGED <<pipe, runner, latest>>, cancelled \subseteq cancelled'
        PROVE  Accounted(i)'
    BY <1>1 DEF Accounted, Alone, Alive, Held, ResultsOf, pipe
  <1>2. ASSUME InFlight' \subseteq InFlight, excused \subseteq excused'
        PROVE  i \in Unexcused
    BY <1>2 DEF Unexcused
  <1>3. ASSUME NEW c \in Callers, CommandStep(c)
        PROVE  Accounted(i)'
    <2>1. InFlight' \subseteq InFlight
      BY <1>3, InFlightShrinks
    <2>2. CASE ~Launch(c)
      <3>1. excused' = excused /\ UNCHANGED <<pipe, runner, latest>> /\ cancelled \subseteq cancelled'
        BY <1>3, <2>2 DEF CommandStep, Start, StartReset, Activate, Stop, StopFlag, Cancel, token
      <3> QED
        BY <1>1, <1>2, <2>1, <3>1
    <2>3. CASE Launch(c)
      <3>1. UNCHANGED row
        BY <2>3 DEF Launch, db
      <3>2. i \in InFlight /\ i \notin excused'
        BY <2>1 DEF Unexcused
      <3>3. ~(\E g \in Gens : Alive(g)) /\ excused' = excused
        BY <2>3, <3>2 DEF Launch
      <3>4. Accounted(i)
        BY <3>2, <3>3 DEF Unexcused
      <3>5. latest \in Gens /\ Alive(latest)
        BY <3>4 DEF Accounted, Alive, TypeOK, TokenType
      <3> QED
        BY <3>3, <3>5
    <2> QED
      BY <2>2, <2>3
  <1>4. ASSUME NEW g \in Gens, RunStep(g)
        PROVE  Accounted(i)'
    <2>1. InFlight' \subseteq InFlight /\ excused \subseteq excused'
      BY <1>4, InFlightShrinks DEF RunStep, Recover, Backfill, Probe, Join, Requeue, Finish, FinishFlag
    <2>2. Accounted(i)
      BY <1>2, <2>1
    <2>3. g = latest /\ runner[g] \in {"requeue", "work"}
      BY <1>4, <2>2, MoverIsLatest DEF Accounted
    <2>4. CASE Requeue(g)
      <3>1. CASE row' = Requeued
        <4>1. row'[i].status # Processing
          BY <3>1 DEF Requeued, InFlight, TypeOK, TableType, Rows, Pending, Processing
        <4> QED
          BY <4>1 DEF Unexcused, InFlight
      <3>2. CASE UNCHANGED row /\ excused' = excused \cup InFlight
        BY <3>2, <2>1 DEF Unexcused
      <3> QED
        BY <2>4, <3>1, <3>2 DEF Requeue
    <2>5. CASE Join(g)
      <3>1. Current(g)
        BY <2>3 DEF TokenInv, Current
      <3>2. CASE g \in cancelled
        <4>1. /\ runner' = [runner EXCEPT ![g] = "requeue"] /\ UNCHANGED latest
          BY <2>5, <3>1, <3>2 DEF Join, Runner, token
        <4> QED
          BY <2>2, <2>3, <4>1 DEF Accounted, Alone, Alive, TypeOK, RunType
      <3>3. CASE g \notin cancelled
        <4>1. Held(i, g)
          BY <2>2, <2>3, <2>5, <3>3 DEF Accounted, Join, Runner
        <4>2. /\ producer[g].at = "end" /\ tasks[g] = << >> /\ \A s \in Slots : job[g][s] = {}
              /\ results[g] = << >> /\ writer[g].batch = << >>
          BY <2>5, <3>3 DEF Join, Joined, ConsumerEnded, Orderly
        <4>3. ToSet(<< >>) = {}
          BY DEF ToSet
        <4> QED
          BY <4>1, <4>2, <4>3 DEF Held, ResultsOf
      <3> QED
        BY <3>2, <3>3
    <2> QED
      BY <1>4, <2>3, <2>4, <2>5 DEF RunStep, Recover, Backfill, Probe, Finish, FinishFlag, Runner
  <1>5. ASSUME NEW g \in Gens, ClaimBatch(g)
        PROVE  Accounted(i)'
    <2>1. UNCHANGED <<token, runner, tasks, job, results, writer>>
      BY <1>5 DEF ClaimBatch
    <2>2. producer'[g].at = "send" /\ producer'[g].batch \in {Claimable(g), {}} /\ producer[g].at = "claim"
      BY <1>5 DEF ClaimBatch, Produce, TypeOK, PipeType
    <2>3. runner[g] = "work"
      BY <2>2 DEF Orderly
    <2>4. CASE i \in Unexcused
      <3>1. Accounted(i)
        BY <2>4
      <3>2. g = latest
        BY <1>5, <3>1, MoverIsLatest DEF Accounted, ProducerStep
      <3>3. Held(i, g) => Held(i, g)'
        BY <2>1, <2>2 DEF Held, ResultsOf
      <3> QED
        BY <2>1, <3>1, <3>2, <3>3 DEF Accounted, Alone, Alive, token
    <2>5. CASE i \notin Unexcused
      <3>1. CASE UNCHANGED <<row, excused>>
        BY <2>5, <3>1 DEF Unexcused, InFlight
      <3>2. CASE /\ producer' = [producer EXCEPT ![g] = [at |-> "send", batch |-> Claimable(g)]]
                 /\ row' = [j \in Items |-> IF j \in {c.item : c \in Claimable(g)}
                                              THEN [row[j] EXCEPT !.status = Processing] ELSE row[j]]
                 /\ excused' = IF Alone(g) THEN excused ELSE excused \cup {c.item : c \in Claimable(g)}
        <4>1. i \in {c.item : c \in Claimable(g)}
          BY <2>5, <3>2 DEF Unexcused, InFlight
        <4>2. Alone(g)
          BY <3>2, <4>1 DEF Unexcused
        <4>3. Held(i, g)'
          BY <3>2, <4>1 DEF Held, TypeOK, PipeType
        <4> QED
          BY <2>1, <2>3, <4>2, <4>3 DEF Accounted, Alone, Alive, token, Gens, NoGen
      <3> QED
        BY <1>5, <3>1, <3>2 DEF ClaimBatch, Produce
    <2> QED
      BY <2>4, <2>5
  <1>6. ASSUME NEW g \in Gens, ReadPending(g) \/ Send(g) \/ ConsumerStep(g) \/ WriterStep(g)
        PROVE  Accounted(i)'
    <2>1. InFlight' \subseteq InFlight
      BY <1>6, InFlightShrinks
    <2>2. i \in Unexcused
      <3>1. CASE excused \subseteq excused'
        BY <1>2, <2>1, <3>1
      <3>2. CASE Flush(g)
        <4> DEFINE b == writer[g].batch
                   items == {r.claim.item : r \in Accepted(b)}
        <4>1. CASE excused \subseteq excused'
          BY <3>1, <4>1
        <4>2. CASE /\ row' = [j \in Items |-> IF j \notin items THEN row[j] ELSE
                        [status |-> FirstFor(b, j).status, orphans |-> 0, payload |-> FirstFor(b, j).made]]
                   /\ excused' = (excused \cup {r.claim.item : r \in ToSet(b)}) \ items
          <5>1. row'[i].status = Processing /\ i \notin excused'
            BY DEF Unexcused, InFlight
          <5>2. ASSUME i \in items PROVE FALSE
            <6>1. b \in Seq(Results)
              BY DEF TypeOK, PipeType, Writers
            <6>2. FirstFor(b, i) \in Accepted(b) /\ Accepted(b) \subseteq Results
              BY <5>2, <6>1, FirstIsAccepted, Elements DEF Accepted
            <6>3. FirstFor(b, i).status \in {Done, Failed}
              BY <6>2 DEF Results
            <6>4. row'[i].status = FirstFor(b, i).status
              BY <4>2, <5>2
            <6> QED
              BY <5>1, <6>3, <6>4 DEF Processing, Done, Failed
          <5> QED
            BY <2>1, <4>2, <5>1, <5>2 DEF Unexcused
        <4> QED
          BY <3>2, <4>1, <4>2 DEF Flush
      <3> QED
        BY <1>6, <3>1, <3>2 DEF ReadPending, Send, ConsumerStep, Leave, Dispatch, EndJob, WriterStep, Collect
    <2>3. Accounted(i)
      BY <2>2
    <2>4. g = latest
      BY <1>6, <2>3, MoverIsLatest DEF Accounted, ProducerStep
    <2>5. UNCHANGED <<token, runner>>
      BY <1>6 DEF ReadPending, Send, ConsumerStep, Leave, Dispatch, EndJob, WriterStep, Collect, Flush
    <2>6. g \notin cancelled /\ Held(i, g) => Held(i, g)'
      BY <1>6, ProducerHolds, ConsumerHolds, WriterHolds
    <2> QED
      BY <2>3, <2>4, <2>5, <2>6 DEF Accounted, Alone, Alive, token
  <1>7. ASSUME NEW j \in Items, SourceStep(j)
        PROVE  Accounted(i)'
    <2>1. InFlight' \subseteq InFlight
      BY <1>7, InFlightShrinks
    <2>2. UNCHANGED <<pipe, runner, token, excused>>
      BY <1>7 DEF SourceStep, ChangeFile, Rescan, Touch, DeleteOrRestore, FindMissing, Heal
    <2> QED
      BY <1>1, <1>2, <2>1, <2>2 DEF token
  <1>8. CASE Clear
    <2>1. InFlight' \subseteq InFlight
      BY <1>8, InFlightShrinks
    <2> QED
      BY <1>1, <1>2, <1>8, <2>1 DEF Clear, token
  <1>9. CASE Crash
    <2>1. InFlight' \subseteq InFlight
      BY <1>9, InFlightShrinks
    <2> QED
      BY <1>9, <2>1 DEF Crash, Unexcused
  <1>10. CASE UNCHANGED vars
    BY <1>1, <1>10 DEF vars, token, Unexcused, InFlight, db
  <1> QED
    BY <1>3, <1>4, <1>5, <1>6, <1>7, <1>8, <1>9, <1>10 DEF Next, ProducerStep

\* A clean stop costs a row nothing: a run that recovers finds in processing
\* only rows that a crash, a failure or a start that overtook a run left there,
\* for any number of runs, callers and failures.
THEOREM CleanStopsCostNothing == Spec => []CleanStopsAreFree
  <1>1. Init => CleanInv
    <2> SUFFICES ASSUME Init PROVE CleanInv
      OBVIOUS
    <2>1. TokenInv
      BY DEF Init, TokenInv, LatestCanBeStopped
    <2>2. ASSUME NEW g \in Gens PROVE Orderly(g)
      BY DEF Init, Orderly, IdleProducer, IdleWriter
    <2>3. Unexcused = {}
      BY DEF Init, Unexcused, InFlight
    <2> QED
      BY <2>1, <2>2, <2>3 DEF CleanInv
  <1>2. TypeOK /\ CleanInv /\ [Next]_vars => CleanInv'
    <2> SUFFICES ASSUME TypeOK, CleanInv, [Next]_vars PROVE CleanInv'
      OBVIOUS
    <2>1. TokenInv'
      BY TokenStep DEF CleanInv
    <2>2. ASSUME NEW g \in Gens PROVE Orderly(g)'
      BY OrderlyStep DEF CleanInv
    <2>3. ASSUME NEW i \in Unexcused' PROVE Accounted(i)'
      <3>1. i \in Items
        BY DEF Unexcused, InFlight
      <3> QED
        BY <3>1, AccountedStep
    <2> QED
      BY <2>1, <2>2, <2>3 DEF CleanInv
  <1>3. CleanInv => CleanStopsAreFree
    BY DEF CleanInv, CleanStopsAreFree, Accounted, Unexcused, Alone, Alive
  <1> QED
    BY <1>1, <1>2, <1>3, TypeCorrect, PTL DEF Spec


-----------------------------------------------------------------------------
(* No thread waits in a circle. *)

\* The guards of each thread's steps: RunsNeverHang without ENABLED.
RunnerCanGo(g) ==
    \/ runner[g] \in {"recover", "backfill", "probe", "requeue", "finish", "flag"}
    \/ runner[g] = "work" /\ Joined(g)
ProducerCanGo(g) ==
    \/ producer[g].at = "read" /\ (PendingOf(g) = {} \/ Batches(g) # {})
    \/ producer[g].at = "claim"
    \/ /\ producer[g].at = "send"
       /\ producer[g].batch = {} \/ g \in cancelled \/ ~Receiving(g) \/ Len(tasks[g]) < Capacity
ConsumerCanGo(g) ==
    \/ /\ consumer[g] = "receive"
       /\ \/ tasks[g] = << >> /\ producer[g].at = "end"
          \/ tasks[g] # << >> /\ (g \in cancelled \/ \E s \in Slots : job[g][s] = {})
    \/ \E s \in Slots : job[g][s] # {} /\ (~Storing(g) \/ Len(results[g]) < Capacity)
WriterCanGo(g) ==
    \/ writer[g].at = "receive" /\ (results[g] # << >> \/ ResultsClosed(g))
    \/ writer[g].at \in {"flush", "last"}
CanGo(g) == RunnerCanGo(g) \/ ProducerCanGo(g) \/ ConsumerCanGo(g) \/ WriterCanGo(g)

SomeoneCanGo == \A g \in Gens : Alive(g) => CanGo(g)

\* A set with more than n elements has a part of n elements.
LEMMA PartOfSize ==
    ASSUME NEW S, IsFiniteSet(S), NEW n \in Nat, n <= Cardinality(S)
    PROVE  \E T \in SUBSET S : Cardinality(T) = n
  <1>1. PICK f : f \in Bijection(1..Cardinality(S), S)
    BY FS_CardinalityType DEF ExistsBijection
  <1>2. f \in [1..Cardinality(S) -> S] /\ Cardinality(S) \in Nat
        /\ \A a, b \in 1..Cardinality(S) : f[a] = f[b] => a = b
    BY <1>1, FS_CardinalityType, Fun_BijectionProperties
  <1> DEFINE T == {f[k] : k \in 1..n}
             h == [k \in 1..n |-> f[k]]
  <1>3. 1..n \subseteq 1..Cardinality(S)
    BY <1>2
  <1>4. T \in SUBSET S
    BY <1>2, <1>3
  <1>5. h \in Bijection(1..n, T)
    <2>1. h \in [1..n -> T] /\ \A a, b \in 1..n : h[a] = h[b] => a = b
      BY <1>2, <1>3
    <2>2. \A t \in T : \E k \in 1..n : h[k] = t
      OBVIOUS
    <2> HIDE DEF h, T
    <2> QED
      BY <2>1, <2>2, Fun_IsBij
  <1>6. Cardinality(T) = n
    BY <1>5, FS_CountingElements DEF ExistsBijection
  <1> QED
    BY <1>4, <1>6

LEMMA SomeBatch ==
    ASSUME TypeOK, NEW g \in Gens
    PROVE  Batches(g) # {}
  <1>1. IsFiniteSet(PendingOf(g))
    <2>1. PendingOf(g) \subseteq Items
      BY DEF PendingOf, TypeOK, RunType
    <2> QED
      BY <2>1, FS_Subset, QueueAssumption
  <1>2. Cardinality(PendingOf(g)) \in Nat /\ Batch \in Nat
    BY <1>1, FS_CardinalityType, QueueAssumption
  <1>3. \E set \in SUBSET PendingOf(g) :
            Cardinality(set) = Batch \/ (set = PendingOf(g) /\ Cardinality(set) < Batch)
    <2>1. CASE Batch <= Cardinality(PendingOf(g))
      BY <1>1, <1>2, <2>1, PartOfSize
    <2>2. CASE Cardinality(PendingOf(g)) < Batch
      BY <2>2
    <2> QED
      BY <1>2, <2>1, <2>2
  <1> QED
    BY <1>3 DEF Batches

\* While the writer is there, it takes the results of a job that waits for room.
LEMMA JobsEnd ==
    ASSUME TypeOK, NEW g \in Gens, NEW s \in Slots, job[g][s] # {}
    PROVE  CanGo(g)
  <1>1. CASE ~Storing(g) \/ Len(results[g]) < Capacity
    BY <1>1 DEF CanGo, ConsumerCanGo
  <1>2. CASE Storing(g) /\ ~(Len(results[g]) < Capacity)
    <2>1. results[g] # << >>
      BY <1>2, QueueAssumption
    <2> QED
      BY <1>2, <2>1 DEF Storing, CanGo, WriterCanGo
  <1> QED
    BY <1>1, <1>2

\* A consumer with a task in its channel hands it to a job or waits for one.
LEMMA TasksMove ==
    ASSUME TypeOK, NEW g \in Gens, consumer[g] = "receive", tasks[g] # << >>
    PROVE  CanGo(g)
  <1>1. CASE \E s \in Slots : job[g][s] = {}
    BY <1>1 DEF CanGo, ConsumerCanGo
  <1>2. CASE \A s \in Slots : job[g][s] # {}
    <2>1. PICK s \in Slots : job[g][s] # {}
      BY <1>2, QueueAssumption
    <2> QED
      BY <2>1, JobsEnd
  <1> QED
    BY <1>1, <1>2

\* A step backwards along the channels: the producer waits for room, the
\* consumer for tasks, the writer for the end of both, and each finds it.
LEMMA WorkGoesOn ==
    ASSUME TypeOK, NEW g \in Gens, Orderly(g), runner[g] = "work"
    PROVE  CanGo(g)
  <1>1. /\ producer[g].at \in {"read", "claim", "send", "end"}
        /\ consumer[g] \in {"receive", "scope"}
        /\ writer[g].at \in {"receive", "flush", "last", "end"}
    BY DEF TypeOK, PipeType, Producers, Writers, Orderly
  <1>2. CASE producer[g].at \in {"read", "claim"}
    BY <1>2, SomeBatch DEF CanGo, ProducerCanGo
  <1>3. CASE producer[g].at = "send"
    <2>1. CASE ~Receiving(g) \/ Len(tasks[g]) < Capacity
      BY <1>3, <2>1 DEF CanGo, ProducerCanGo
    <2>2. CASE Receiving(g) /\ ~(Len(tasks[g]) < Capacity)
      <3>1. tasks[g] # << >>
        BY <2>2, QueueAssumption
      <3> QED
        BY <2>2, <3>1, TasksMove DEF Receiving
    <2> QED
      BY <2>1, <2>2
  <1>4. CASE producer[g].at = "end" /\ consumer[g] = "receive"
    <2>1. CASE tasks[g] = << >>
      BY <1>4, <2>1 DEF CanGo, ConsumerCanGo
    <2>2. CASE tasks[g] # << >>
      BY <1>4, <2>2, TasksMove
    <2> QED
      BY <2>1, <2>2
  <1>5. CASE producer[g].at = "end" /\ consumer[g] = "scope"
    <2>1. CASE \E s \in Slots : job[g][s] # {}
      BY <2>1, JobsEnd
    <2>2. CASE \A s \in Slots : job[g][s] = {}
      <3>1. ConsumerEnded(g)
        BY <1>5, <2>2 DEF ConsumerEnded
      <3>2. writer[g].at = "end" => RunnerCanGo(g)
        BY <1>5, <3>1 DEF RunnerCanGo, Joined
      <3>3. writer[g].at # "end" => WriterCanGo(g)
        BY <1>1, <3>1 DEF WriterCanGo, ResultsClosed
      <3> QED
        BY <3>2, <3>3 DEF CanGo
    <2> QED
      BY <2>1, <2>2
  <1> QED
    BY <1>1, <1>2, <1>3, <1>4, <1>5

LEMMA OrderlyRunsGoOn ==
    ASSUME TypeOK, \A g \in Gens : Orderly(g)
    PROVE  SomeoneCanGo
  <1> SUFFICES ASSUME NEW g \in Gens, Alive(g)
               PROVE  CanGo(g)
    BY DEF SomeoneCanGo
  <1>1. runner[g] \in {"recover", "backfill", "probe", "work", "requeue", "finish", "flag"}
    BY DEF TypeOK, RunType, Alive
  <1>2. runner[g] # "work" => RunnerCanGo(g)
    BY <1>1 DEF RunnerCanGo
  <1> QED
    BY <1>2, WorkGoesOn DEF CanGo

\* The three threads of a run never wait for one another in a circle: in every
\* state in which a run has not ended the guard of one of its steps holds,
\* whatever the sizes of the channels, and also while they leave after a stop
\* (the channels of run_pipeline_blocking).
THEOREM NoCircleOfWaits == Spec => []SomeoneCanGo
  <1>1. Init => \A g \in Gens : Orderly(g)
    BY QueueAssumption DEF Init, Orderly, IdleProducer, IdleWriter, Gens, NoGen
  <1>2. TypeOK /\ (\A g \in Gens : Orderly(g)) /\ [Next]_vars => (\A g \in Gens : Orderly(g))'
    BY OrderlyStep
  <1>3. TypeOK /\ (\A g \in Gens : Orderly(g)) => SomeoneCanGo
    BY OrderlyRunsGoOn
  <1> QED
    BY <1>1, <1>2, <1>3, TypeCorrect, PTL DEF Spec
=============================================================================
