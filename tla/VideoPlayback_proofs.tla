------------------------- MODULE VideoPlayback_proofs -------------------------
(***************************************************************************)
(* What is proved of VideoPlayback for all viewers, thumbnails and bounds. *)
(***************************************************************************)
EXTENDS VideoPlayback, TLAPS

----------------------------------------------------------------------------
(* Queues.                                                                 *)

\* A key stands in the queue once.
Distinct(q) == \A m, n \in 1 .. Len(q) : q[m] = q[n] => m = n

\* Popping takes the first key away and leaves the others.
LEMMA TailQueue ==
    ASSUME NEW q \in Seq(Keys), q # <<>>, Distinct(q)
    PROVE  /\ Tail(q) \in Seq(Keys) /\ Head(q) \in Keys /\ Distinct(Tail(q))
           /\ Queued(q, Head(q))
           /\ \A j \in Keys : Queued(Tail(q), j) <=> Queued(q, j) /\ j # Head(q)
<1>1. /\ Tail(q) \in Seq(Keys) /\ Head(q) \in Keys /\ Head(q) = q[1] /\ Len(q) \in Nat \ {0}
      /\ Len(Tail(q)) = Len(q) - 1 /\ \A n \in 1 .. Len(Tail(q)) : Tail(q)[n] = q[n + 1]
    OBVIOUS
<1>2. Distinct(Tail(q)) /\ Queued(q, Head(q))
    BY <1>1 DEF Distinct, Queued
<1>3. ASSUME NEW j \in Keys PROVE Queued(Tail(q), j) <=> Queued(q, j) /\ j # Head(q)
    <2>1. ASSUME Queued(Tail(q), j) PROVE Queued(q, j) /\ j # Head(q)
        BY <1>1, <2>1 DEF Queued, Distinct
    <2>2. ASSUME Queued(q, j), j # Head(q) PROVE Queued(Tail(q), j)
        <3>1. PICK n \in 1 .. Len(q) : q[n] = j
            BY <2>2 DEF Queued
        <3>2. n - 1 \in 1 .. Len(Tail(q)) /\ Tail(q)[n - 1] = j
            BY <1>1, <2>2, <3>1
        <3> QED BY <3>2 DEF Queued
    <2> QED BY <2>1, <2>2
<1> QED BY <1>1, <1>2, <1>3

\* A new key at the end.
LEMMA AppendQueue ==
    ASSUME NEW q \in Seq(Keys), NEW k \in Keys, Distinct(q), ~Queued(q, k)
    PROVE  /\ Append(q, k) \in Seq(Keys) /\ Distinct(Append(q, k))
           /\ \A j \in Keys : Queued(Append(q, k), j) <=> Queued(q, j) \/ j = k
<1>1. /\ Append(q, k) \in Seq(Keys) /\ Len(q) \in Nat /\ Len(Append(q, k)) = Len(q) + 1
      /\ \A n \in 1 .. Len(q) : Append(q, k)[n] = q[n]
      /\ Append(q, k)[Len(q) + 1] = k
    OBVIOUS
<1>2. \A n \in 1 .. Len(q) + 1 : n \in 1 .. Len(q) \/ n = Len(q) + 1
    BY <1>1
<1>3. Distinct(Append(q, k))
    BY <1>1, <1>2 DEF Distinct, Queued
<1>4. \A j \in Keys : Queued(Append(q, k), j) <=> Queued(q, j) \/ j = k
    BY <1>1, <1>2 DEF Queued
<1> QED BY <1>1, <1>3, <1>4

\* A new key at the head.
LEMMA ConsQueue ==
    ASSUME NEW q \in Seq(Keys), NEW k \in Keys, Distinct(q), ~Queued(q, k)
    PROVE  /\ <<k>> \o q \in Seq(Keys) /\ Distinct(<<k>> \o q)
           /\ \A j \in Keys : Queued(<<k>> \o q, j) <=> Queued(q, j) \/ j = k
<1> DEFINE r == <<k>> \o q
<1>1. /\ r \in Seq(Keys) /\ Len(q) \in Nat /\ Len(r) = Len(q) + 1 /\ r[1] = k
      /\ \A n \in 2 .. Len(q) + 1 : r[n] = q[n - 1]
    OBVIOUS
<1> HIDE DEF r
<1>2. /\ \A n \in 1 .. Len(q) + 1 : n = 1 \/ n \in 2 .. Len(q) + 1
      /\ \A n \in 2 .. Len(q) + 1 : n - 1 \in 1 .. Len(q)
      /\ \A n \in 1 .. Len(q) : n + 1 \in 2 .. Len(q) + 1 /\ r[n + 1] = q[n]
    BY <1>1
<1>3. Distinct(r)
    <2> SUFFICES ASSUME NEW m \in 1 .. Len(q) + 1, NEW n \in 1 .. Len(q) + 1, r[m] = r[n]
                 PROVE  m = n
        BY <1>1 DEF Distinct
    <2>1. CASE m = 1 /\ n # 1
        BY <1>1, <1>2, <2>1 DEF Queued
    <2>2. CASE n = 1 /\ m # 1
        BY <1>1, <1>2, <2>2 DEF Queued
    <2>3. CASE n # 1 /\ m # 1
        <3>1. /\ m - 1 \in 1 .. Len(q) /\ r[m] = q[m - 1]
              /\ n - 1 \in 1 .. Len(q) /\ r[n] = q[n - 1]
            BY <1>1, <1>2, <2>3
        <3>2. m - 1 = n - 1
            BY <3>1 DEF Distinct
        <3> QED BY <3>2
    <2>4. CASE n = 1 /\ m = 1
        BY <2>4
    <2> QED BY <2>1, <2>2, <2>3, <2>4
<1>4. \A j \in Keys : Queued(r, j) <=> Queued(q, j) \/ j = k
    BY <1>1, <1>2, SMTT(20) DEF Queued
<1> QED BY <1>1, <1>3, <1>4 DEF r

\* Two queues in a row.
LEMMA JoinedQueues ==
    ASSUME NEW A \in Seq(Keys), NEW B \in Seq(Keys)
    PROVE  /\ A \o B \in Seq(Keys) /\ Len(A \o B) = Len(A) + Len(B)
           /\ \A n \in 1 .. Len(A) : (A \o B)[n] = A[n]
           /\ \A n \in 1 .. Len(B) : (A \o B)[Len(A) + n] = B[n]
<1>1. Len(A) \in Nat /\ Len(B) \in Nat /\ A \o B \in Seq(Keys) /\ Len(A \o B) = Len(A) + Len(B)
    OBVIOUS
<1>2. \A n \in 1 .. Len(A) : (A \o B)[n] = A[n]
    BY <1>1
<1>3. \A n \in 1 .. Len(B) : (A \o B)[Len(A) + n] = B[n]
    BY <1>1
<1> QED BY <1>1, <1>2, <1>3

\* A cancel takes the key out and leaves the others.
LEMMA WithoutQueue ==
    ASSUME NEW q \in Seq(Keys), NEW k \in Keys, Distinct(q)
    PROVE  /\ Without(q, k) \in Seq(Keys) /\ Distinct(Without(q, k))
           /\ \A j \in Keys : Queued(Without(q, k), j) <=> Queued(q, j) /\ j # k
<1>1. CASE ~Queued(q, k)
    BY <1>1 DEF Without, Queued
<1>2. CASE Queued(q, k)
    <2> DEFINE i == CHOOSE j \in 1 .. Len(q) : q[j] = k
               r == Without(q, k)
    <2>1. i \in 1 .. Len(q) /\ q[i] = k
        BY <1>2 DEF Queued
    <2> DEFINE A == SubSeq(q, 1, i - 1)
               B == SubSeq(q, i + 1, Len(q))
    <2>2. r = A \o B
        BY <1>2 DEF Without
    <2> HIDE DEF i, r
    <2>3. /\ Len(q) \in Nat /\ i \in Nat
          /\ A \in Seq(Keys) /\ Len(A) = i - 1
          /\ B \in Seq(Keys) /\ Len(B) = Len(q) - i
          /\ \A n \in 1 .. i - 1 : A[n] = q[n]
          /\ \A n \in 1 .. Len(q) - i : B[n] = q[i + n]
        BY <2>1
    <2> HIDE DEF A, B
    <2>4. /\ r \in Seq(Keys) /\ Len(r) = Len(A) + Len(B)
          /\ \A n \in 1 .. Len(A) : r[n] = A[n]
          /\ \A n \in 1 .. Len(B) : r[Len(A) + n] = B[n]
        BY <2>2, <2>3, JoinedQueues
    <2>5. \A n \in i .. Len(q) - 1 : /\ n - (i - 1) \in 1 .. Len(q) - i
                                      /\ i + (n - (i - 1)) = n + 1
                                      /\ (i - 1) + (n - (i - 1)) = n
        BY <2>1, <2>3
    <2>6. /\ r \in Seq(Keys) /\ Len(r) = Len(q) - 1
          /\ \A n \in 1 .. i - 1 : r[n] = q[n]
          /\ \A n \in i .. Len(q) - 1 : r[n] = q[n + 1]
        <3>1. Len(r) = Len(q) - 1
            BY <2>3, <2>4
        <3>2. ASSUME NEW n \in 1 .. i - 1 PROVE r[n] = q[n]
            BY <2>1, <2>3, <2>4
        <3>3. ASSUME NEW n \in i .. Len(q) - 1 PROVE r[n] = q[n + 1]
            <4>1. r[n] = B[n - (i - 1)]
                BY <2>3, <2>4, <2>5
            <4> QED BY <4>1, <2>3, <2>5
        <3> QED BY <2>4, <3>1, <3>2, <3>3
    <2>7. \A n \in 1 .. Len(q) - 1 : n \in 1 .. i - 1 \/ n \in i .. Len(q) - 1
        BY <2>3
    <2>8. Distinct(r)
        <3> SUFFICES ASSUME NEW m \in 1 .. Len(q) - 1, NEW n \in 1 .. Len(q) - 1, r[m] = r[n]
                     PROVE  m = n
            BY <2>6 DEF Distinct
        <3> DEFINE at(x) == IF x \in 1 .. i - 1 THEN x ELSE x + 1
        <3>1. /\ at(m) \in 1 .. Len(q) /\ q[at(m)] = r[m]
              /\ at(n) \in 1 .. Len(q) /\ q[at(n)] = r[n]
            BY <2>3, <2>6, <2>7
        <3>2. at(m) = at(n)
            BY <3>1 DEF Distinct
        <3> QED BY <3>2, <2>3
    <2>9. ASSUME NEW j \in Keys PROVE Queued(r, j) <=> Queued(q, j) /\ j # k
        <3>1. ASSUME Queued(r, j) PROVE Queued(q, j) /\ j # k
            <4>1. PICK n \in 1 .. Len(q) - 1 : r[n] = j
                BY <3>1, <2>6 DEF Queued
            <4>2. CASE n \in 1 .. i - 1
                <5>1. n \in 1 .. Len(q) /\ n # i
                    BY <4>2, <2>1, <2>3
                <5>2. q[n] = j
                    BY <4>1, <4>2, <2>6
                <5>3. q[n] # q[i]
                    BY <5>1, <2>1 DEF Distinct
                <5> QED BY <5>1, <5>2, <5>3, <2>1 DEF Queued
            <4>3. CASE n \in i .. Len(q) - 1
                <5>1. n + 1 \in 1 .. Len(q) /\ n + 1 # i
                    BY <4>3, <2>1, <2>3
                <5>2. q[n + 1] = j
                    BY <4>1, <4>3, <2>6
                <5>3. q[n + 1] # q[i]
                    BY <5>1, <2>1 DEF Distinct
                <5> QED BY <5>1, <5>2, <5>3, <2>1 DEF Queued
            <4> QED BY <4>2, <4>3, <2>7
        <3>2. ASSUME Queued(q, j), j # k PROVE Queued(r, j)
            <4>1. PICK n \in 1 .. Len(q) : q[n] = j
                BY <3>2 DEF Queued
            <4>2. n # i
                BY <4>1, <3>2, <2>1
            <4>3. CASE n < i
                <5>1. n \in 1 .. i - 1 /\ n \in 1 .. Len(q) - 1
                    BY <4>3, <2>1, <2>3
                <5>2. r[n] = j
                    BY <5>1, <4>1, <2>6
                <5> QED BY <5>1, <5>2, <2>6 DEF Queued
            <4>4. CASE n > i
                <5>1. /\ n - 1 \in i .. Len(q) - 1 /\ n - 1 \in 1 .. Len(q) - 1
                      /\ (n - 1) + 1 = n
                    BY <4>4, <2>1, <2>3
                <5>2. r[n - 1] = j
                    BY <5>1, <4>1, <2>6
                <5> QED BY <5>1, <5>2, <2>6 DEF Queued
            <4> QED BY <4>2, <4>3, <4>4, <2>3
        <3> QED BY <3>1, <3>2
    <2> QED BY <2>6, <2>8, <2>9 DEF r
<1> QED BY <1>1, <1>2

----------------------------------------------------------------------------
(* Types.                                                                  *)

\* A retry is only started while there is one left.
TriesLeft == driver.at \in {"taken", "ensure"} => driver.tries < MAX_ATTEMPTS

Typed == VideoTypeOK /\ TriesLeft

LEMMA KeyFacts ==
    /\ "probe" \in Keys /\ "playable" \in Keys /\ "verify" \in Keys /\ "cover" \in Keys
    /\ NoJob \in Job /\ Parked \in Driver /\ 1 \in Versions /\ Versions \subseteq Nat
    /\ Versions \subseteq Content /\ Cut \in Content /\ 0 \in Content /\ <<>> \in Seq(Keys)
    /\ Viewers \subseteq Callers /\ Thumbs \subseteq Callers /\ MAX_ATTEMPTS = 2
BY VideoAssumption DEF Keys, NoJob, Job, Parked, Driver, Versions, Content, Callers, MAX_ATTEMPTS

LEMMA QueueTyped ==
    ASSUME NEW q \in Seq(Keys), NEW k \in Keys
    PROVE  /\ Append(q, k) \in Seq(Keys) /\ <<k>> \o q \in Seq(Keys)
           /\ q # <<>> => Head(q) \in Keys /\ Tail(q) \in Seq(Keys)
OBVIOUS

LEMMA DriverTyped ==
    /\ \A k \in Keys : Taken(k) \in Driver /\ Taken(k).tries = 0
    /\ \A d \in Driver, v \in Versions :
          d.tries < MAX_ATTEMPTS => [d EXCEPT !.at = "run", !.tries = @ + 1, !.from = v] \in Driver
    /\ Parked.at = "idle" /\ Parked.tries = 0
<1>1. ASSUME NEW k \in Keys PROVE Taken(k) \in Driver /\ Taken(k).tries = 0
    BY KeyFacts DEF Driver, Taken
<1>2. ASSUME NEW d \in Driver, NEW v \in Versions, d.tries < MAX_ATTEMPTS
      PROVE  [d EXCEPT !.at = "run", !.tries = @ + 1, !.from = v] \in Driver
    <2>1. d.tries + 1 \in 0 .. MAX_ATTEMPTS
        BY <1>2, KeyFacts DEF Driver
    <2> QED BY <2>1 DEF Driver
<1>3. Parked.at = "idle" /\ Parked.tries = 0
    BY DEF Parked
<1> QED BY <1>1, <1>2, <1>3

LEMMA JobTyped ==
    /\ \A j \in Job, c \in Callers : [j EXCEPT !.waiters = @ \cup {c}] \in Job
    /\ \A j \in Job : [j EXCEPT !.cancelled = TRUE] \in Job
    /\ \A p \in {"interactive", "background"}, c \in Callers, v \in Versions :
          [prio |-> p, waiters |-> {c}, cancelled |-> FALSE, of |-> v] \in Job
BY DEF Job

LEMMA EnqueueTyped ==
    ASSUME VideoTypeOK, NEW c \in Callers, NEW k \in Keys,
           NEW prio \in {"interactive", "background"}, Enqueue(c, k, prio)
    PROVE  jobs' \in [Keys -> Job] /\ interactive' \in Seq(Keys) /\ background' \in Seq(Keys)
<1> USE JobTyped
<1>1. CASE jobs[k] # NoJob
    <2>1. /\ jobs' = [jobs EXCEPT ![k].waiters = @ \cup {c}]
          /\ interactive' = interactive /\ background' = background
        BY <1>1 DEF Enqueue
    <2>2. jobs' \in [Keys -> Job]
        BY <2>1 DEF VideoTypeOK
    <2> QED BY <2>1, <2>2 DEF VideoTypeOK
<1>2. CASE jobs[k] = NoJob
    <2>1. jobs' \in [Keys -> Job]
        <3>1. jobs' = [jobs EXCEPT ![k] = [prio |-> prio, waiters |-> {c}, cancelled |-> FALSE,
                                           of |-> of[c]]]
            BY <1>2 DEF Enqueue
        <3> QED BY <3>1 DEF VideoTypeOK
    <2>2. interactive' \in Seq(Keys) /\ background' \in Seq(Keys)
        <3>1. interactive \in Seq(Keys) /\ background \in Seq(Keys)
            BY DEF VideoTypeOK
        <3>2. /\ interactive' \in {interactive, Append(interactive, k)}
              /\ background' \in {background, Append(background, k)}
            BY <1>2 DEF Enqueue
        <3> QED BY <3>1, <3>2, QueueTyped
    <2> QED BY <2>1, <2>2
<1> QED BY <1>1, <1>2

LEMMA DeliverTyped ==
    ASSUME VideoTypeOK, NEW k \in Keys, NEW a \in Answers, Deliver(k, a)
    PROVE  jobs' \in [Keys -> Job] /\ ans' \in [Callers -> Answers]
BY KeyFacts DEF VideoTypeOK, Deliver

LEMMA WithoutTyped ==
    ASSUME NEW q \in Seq(Keys), NEW k \in Keys
    PROVE  Without(q, k) \in Seq(Keys)
<1>1. CASE ~Queued(q, k)
    BY <1>1 DEF Without
<1>2. CASE Queued(q, k)
    <2> DEFINE i == CHOOSE j \in 1 .. Len(q) : q[j] = k
    <2>1. i \in 1 .. Len(q)
        BY <1>2 DEF Queued
    <2>2. Without(q, k) = SubSeq(q, 1, i - 1) \o SubSeq(q, i + 1, Len(q))
        BY <1>2 DEF Without
    <2> HIDE DEF i
    <2>3. SubSeq(q, 1, i - 1) \in Seq(Keys) /\ SubSeq(q, i + 1, Len(q)) \in Seq(Keys)
        BY <2>1
    <2> QED BY <2>2, <2>3
<1> QED BY <1>1, <1>2

LEMMA InitTyped == VideoInit => Typed
<1> SUFFICES ASSUME VideoInit PROVE Typed
    OBVIOUS
<1>1. /\ source \in Versions /\ known \in Versions /\ status \in 0 .. 3
      /\ tmp \in [Versions -> Content] /\ pool \in [Versions -> Content]
      /\ resolves \in Nat /\ upsets \in Nat
    BY KeyFacts DEF VideoInit
<1>2. interactive \in Seq(Keys) /\ background \in Seq(Keys) /\ jobs \in [Keys -> Job]
    BY KeyFacts DEF VideoInit
<1>3. driver \in Driver /\ TriesLeft
    BY KeyFacts, DriverTyped DEF VideoInit, TriesLeft
<1>4. /\ pc \in [Callers -> CallerPlaces] /\ of \in [Callers -> Versions]
      /\ ans \in [Callers -> Answers]
    BY KeyFacts DEF VideoInit, CallerPlaces, Answers
<1>5. cancelling \in BOOLEAN /\ twin \in BOOLEAN /\ excused \in BOOLEAN
    BY DEF VideoInit
<1> QED BY <1>1, <1>2, <1>3, <1>4, <1>5 DEF Typed, VideoTypeOK

LEMMA StepTyped ==
    ASSUME Typed, [VideoNext]_vvars
    PROVE  Typed'
<1> USE KeyFacts
<1>1. CASE DriverStep
    <2> USE DEF Typed, VideoTypeOK, TriesLeft, Driving, files, service, callers, history, vbounds
    <2>1. CASE Pop
        <3>1. interactive \in Seq(Keys) /\ background \in Seq(Keys)
            OBVIOUS
        <3>2. \/ /\ interactive # <<>> /\ interactive' = Tail(interactive) /\ background' = background
                 /\ driver' = Taken(Head(interactive))
              \/ /\ background # <<>> /\ background' = Tail(background) /\ interactive' = interactive
                 /\ driver' = Taken(Head(background))
            BY <2>1 DEF Pop
        <3>3. /\ driver' \in Driver /\ TriesLeft'
              /\ interactive' \in Seq(Keys) /\ background' \in Seq(Keys)
            <4>1. CASE interactive # <<>> /\ interactive' = Tail(interactive)
                       /\ background' = background /\ driver' = Taken(Head(interactive))
                <5>1. Head(interactive) \in Keys /\ Tail(interactive) \in Seq(Keys)
                    BY <4>1, <3>1, QueueTyped
                <5>2. driver' \in Driver /\ driver'.tries = 0
                    BY <4>1, <5>1, DriverTyped
                <5>3. TriesLeft'
                    BY <5>2
                <5>4. interactive' \in Seq(Keys) /\ background' \in Seq(Keys)
                    BY <4>1, <5>1, <3>1
                <5> QED BY <5>2, <5>3, <5>4
            <4>2. CASE background # <<>> /\ background' = Tail(background)
                       /\ interactive' = interactive /\ driver' = Taken(Head(background))
                <5>1. Head(background) \in Keys /\ Tail(background) \in Seq(Keys)
                    BY <4>2, <3>1, QueueTyped
                <5>2. driver' \in Driver /\ driver'.tries = 0
                    BY <4>2, <5>1, DriverTyped
                <5>3. TriesLeft'
                    BY <5>2
                <5>4. interactive' \in Seq(Keys) /\ background' \in Seq(Keys)
                    BY <4>2, <5>1, <3>1
                <5> QED BY <5>2, <5>3, <5>4
            <4> QED BY <3>2, <4>1, <4>2
        <3> QED BY <2>1, <3>3 DEF Pop
    <2>2. CASE TakeJob
        BY <2>2, ZenonT(40) DEF TakeJob, Parked, Driver
    <2>3. CASE BeginOp
        <3>1. driver' = [driver EXCEPT !.at = "run", !.tries = @ + 1, !.from = source]
              /\ driver.tries < MAX_ATTEMPTS
            BY <2>3 DEF BeginOp
        <3>2. driver' \in Driver
            BY <3>1, DriverTyped
        <3>4. driver'.at = "run"
            BY <3>1 DEF Driver
        <3>3. tmp' \in [Versions -> Content]
            <4>1. jobs["playable"].of \in Versions
                BY DEF Job
            <4> QED BY <2>3, <4>1 DEF BeginOp
        <3> QED BY <2>3, <3>2, <3>3, <3>4 DEF BeginOp
    <2>4. CASE NoSession
        <3>1. jobs' \in [Keys -> Job] /\ ans' \in [Callers -> Answers]
            BY <2>4, DeliverTyped DEF NoSession, Driver, Answers
        <3> QED BY <2>4, <3>1 DEF NoSession, Parked
    <2>5. CASE Poll
        BY <2>5 DEF Poll, Driver
    <2>6. CASE StopCancelled
        <3>1. jobs' \in [Keys -> Job] /\ ans' \in [Callers -> Answers]
            BY <2>6, DeliverTyped DEF StopCancelled, Driver, Answers
        <3> QED BY <2>6, <3>1 DEF StopCancelled, Parked
    <2>7. CASE StopPreempted
        <3>1. background' \in Seq(Keys)
            BY <2>7 DEF StopPreempted, Driver
        <3> QED BY <2>7, <3>1 DEF StopPreempted, Parked
    <2>8. CASE OpSucceeds
        <3>1. jobs' \in [Keys -> Job] /\ ans' \in [Callers -> Answers]
            BY <2>8, DeliverTyped DEF OpSucceeds, Driver, Answers
        <3>2. tmp' \in [Versions -> Content]
            <4>1. \A c \in Product : c \in Content
                BY DEF Product, Driver
            <4> QED BY <2>8, <4>1 DEF OpSucceeds
        <3> QED BY <2>8, <3>1, <3>2 DEF OpSucceeds, Parked
    <2>9. CASE OpRetried
        BY <2>9 DEF OpRetried, Driver
    <2>10. CASE OpFails
        <3>1. jobs' \in [Keys -> Job] /\ ans' \in [Callers -> Answers]
            BY <2>10, DeliverTyped DEF OpFails, Driver, Answers
        <3> QED BY <2>10, <3>1 DEF OpFails, Parked
    <2> QED BY <1>1, <2>1, <2>2, <2>3, <2>4, <2>5, <2>6, <2>7, <2>8, <2>9, <2>10 DEF DriverStep
<1>2. ASSUME NEW c \in Callers, CallerStep(c) \/ Resolve(c) \/ Ask(c) \/ FinishLost(c)
      PROVE  Typed'
    <2> USE DEF Typed, VideoTypeOK, TriesLeft, files, service, callers, history, vbounds,
                Reach, Heard, DropTmp, CallerPlaces, Answers
    <2>1. CASE Resolve(c)
        <3>1. jobs' \in [Keys -> Job] /\ interactive' \in Seq(Keys) /\ background' \in Seq(Keys)
            BY <2>1, EnqueueTyped DEF Resolve
        <3> QED BY <2>1, <3>1 DEF Resolve
    <2>2. CASE Ask(c)
        <3>1. jobs' \in [Keys -> Job] /\ interactive' \in Seq(Keys) /\ background' \in Seq(Keys)
            BY <2>2, EnqueueTyped DEF Ask
        <3> QED BY <2>2, <3>1 DEF Ask
    <2>3. CASE Make(c)
        <3>1. jobs' \in [Keys -> Job] /\ interactive' \in Seq(Keys) /\ background' \in Seq(Keys)
            BY <2>3, EnqueueTyped DEF Make
        <3> QED BY <2>3, <3>1 DEF Make
    <2>4. CASE Verify(c)
        <3>1. jobs' \in [Keys -> Job] /\ interactive' \in Seq(Keys) /\ background' \in Seq(Keys)
            BY <2>4, EnqueueTyped DEF Verify
        <3> QED BY <2>4, <3>1 DEF Verify
    <2>5. CASE Probed(c) \/ ReadRow(c) \/ Verified(c) \/ Served(c)
        BY <2>5 DEF Probed, ReadRow, Verified, Served
    <2>8. CASE Claim(c) \/ Finish(c)
        <3>1. status' \in 0 .. 3
            <4>1. status \in 0 .. 3 /\ (status' = status \/ status' = 1 \/ status' = 2 \/ status' = 3)
                BY <2>8 DEF Claim, Finish
            <4> QED BY <4>1
        <3> QED BY <2>8, <3>1 DEF Claim, Finish
    <2>9. CASE FinishLost(c)
        BY <2>9 DEF FinishLost, Upset
    <2>6. CASE TaskFails(c) \/ TaskCancelled(c) \/ Compare(c)
        BY <2>6 DEF TaskFails, TaskCancelled, Compare
    <2>7. CASE Rename(c)
        BY <2>7 DEF Rename
    <2> QED BY <1>2, <2>1, <2>2, <2>3, <2>4, <2>5, <2>6, <2>7, <2>8, <2>9 DEF CallerStep
<1>3. CASE CancelRow \/ CancelRowFails \/ CancelJob
    <2> USE DEF Typed, VideoTypeOK, TriesLeft, files, service, callers, history, vbounds
    <2>1. CASE CancelRow
        <3>1. /\ status' = IF status = 1 THEN 0 ELSE status
              /\ UNCHANGED <<files, service, driver, callers, history, vbounds>>
              /\ cancelling' = FALSE
            BY <2>1, Zenon DEF CancelRow
        <3>2. status' \in 0 .. 3
            <4>1. status \in 0 .. 3 /\ (status' = status \/ status' = 0)
                BY <3>1
            <4> QED BY <4>1
        <3> QED BY <3>1, <3>2
    <2>2. CASE CancelJob
        <3>1. CASE jobs["playable"] = NoJob
            BY <2>2, <3>1 DEF CancelJob, Upset
        <3>2. CASE jobs["playable"] # NoJob
                   /\ (Queued(interactive, "playable") \/ Queued(background, "playable"))
            <4>1. jobs' \in [Keys -> Job] /\ ans' \in [Callers -> Answers]
                BY <2>2, <3>2, DeliverTyped DEF CancelJob, Answers
            <4>2. interactive' \in Seq(Keys) /\ background' \in Seq(Keys)
                BY <2>2, <3>2, WithoutTyped DEF CancelJob
            <4> QED BY <2>2, <4>1, <4>2 DEF CancelJob, Upset
        <3>3. CASE jobs["playable"] # NoJob
                   /\ ~(Queued(interactive, "playable") \/ Queued(background, "playable"))
            <4>1. jobs' \in [Keys -> Job]
                <5>1. jobs' = [jobs EXCEPT !["playable"].cancelled = TRUE]
                    BY <2>2, <3>3, Zenon DEF CancelJob
                <5> QED BY <5>1 DEF Job
            <4>2. upsets' \in Nat /\ cancelling' \in BOOLEAN
                BY <2>2 DEF CancelJob, Upset
            <4>3. UNCHANGED <<interactive, background, ans, files, status, driver, pc, of, history,
                              resolves>>
                BY <2>2, <3>3 DEF CancelJob
            <4> QED BY <4>1, <4>2, <4>3
        <3> QED BY <3>1, <3>2, <3>3
    <2>3. CASE CancelRowFails
        <3>1. /\ excused' = (excused \/ status = 1) /\ cancelling' = FALSE
              /\ UNCHANGED <<files, status, service, driver, callers, twin, vbounds>>
            BY <2>3, Zenon DEF CancelRowFails
        <3>2. excused' \in BOOLEAN /\ cancelling' \in BOOLEAN
            BY <3>1, Zenon
        <3> QED BY <3>1, <3>2
    <2> QED BY <1>3, <2>1, <2>2, <2>3
<1>4. CASE Edit \/ Rescan \/ \E v \in Versions : Evict(v)
    <2> USE DEF Typed, VideoTypeOK, TriesLeft, files, service, callers, history, vbounds
    <2>1. CASE Edit
        <3>1. source' \in Versions
            BY <2>1, VideoAssumption DEF Edit, Versions
        <3> QED BY <2>1, <3>1 DEF Edit, Upset
    <2>2. CASE Rescan
        BY <2>2 DEF Rescan
    <2>3. ASSUME NEW v \in Versions, Evict(v) PROVE Typed'
        <3>1. pool' \in [Versions -> Content]
            BY <2>3 DEF Evict
        <3> QED BY <2>3, <3>1 DEF Evict, Upset
    <2> QED BY <1>4, <2>1, <2>2, <2>3
<1>5. ASSUME NEW reset \in BOOLEAN, NEW swept \in BOOLEAN, Restart(reset, swept)
      PROVE  Typed'
    <2> USE <1>5 DEF Typed, VideoTypeOK, Restart
    <2>1. status' \in 0 .. 3 /\ upsets' \in Nat
        BY DEF Upset
    <2>2. tmp' \in [Versions -> Content] /\ pool' \in [Versions -> Content]
        OBVIOUS
    <2>3. excused' \in BOOLEAN /\ twin' \in BOOLEAN /\ cancelling' \in BOOLEAN
        <3>1. excused' = (excused \/ ~reset) /\ twin' = twin /\ cancelling' = FALSE
            OBVIOUS
        <3> QED BY <3>1, Zenon
    <2>4. /\ interactive' \in Seq(Keys) /\ background' \in Seq(Keys) /\ jobs' \in [Keys -> Job]
          /\ driver' \in Driver /\ TriesLeft'
        BY DEF TriesLeft, Parked
    <2>5. /\ pc' \in [Callers -> CallerPlaces] /\ of' \in [Callers -> Versions]
          /\ ans' \in [Callers -> Answers]
        BY DEF CallerPlaces, Answers
    <2>6. source' \in Versions /\ known' \in Versions /\ resolves' \in Nat
        OBVIOUS
    <2> QED BY <2>1, <2>2, <2>3, <2>4, <2>5, <2>6
<1>6. CASE UNCHANGED vvars
    BY <1>6 DEF Typed, VideoTypeOK, TriesLeft, vvars, files, service, callers, history, vbounds
<1> QED BY <1>1, <1>2, <1>3, <1>4, <1>5, <1>6 DEF VideoNext, VideoEnvironment

\* Every state of VideoPlayback has its types; in particular an operation is
\* started at most MAX_ATTEMPTS times.
THEOREM VideoTypes == VideoSpec => []VideoTypeOK
<1>1. Typed /\ [VideoNext]_vvars => Typed'
    BY StepTyped
<1> QED BY InitTyped, <1>1, PTL DEF VideoSpec, Typed

----------------------------------------------------------------------------
(* Every job is in one place.                                              *)

Waits(k) == Queued(interactive, k) \/ Queued(background, k)

InOnePlace ==
    /\ Distinct(interactive) /\ Distinct(background)
    /\ \A k \in Keys : /\ ~(Queued(interactive, k) /\ Queued(background, k))
                       /\ ~(Waits(k) /\ InHand(k))
                       /\ jobs[k] # NoJob <=> Waits(k) \/ InHand(k)

\* This is what QueuesAgree says of Held.
LEMMA OnePlaceAgrees ==
    ASSUME VideoTypeOK, InOnePlace
    PROVE  QueuesAgree
<1> SUFFICES ASSUME NEW k \in Keys
             PROVE  IF jobs[k] = NoJob THEN Held(k) = {} ELSE \E h \in Held(k) : Held(k) = {h}
    BY DEF QueuesAgree
<1> DEFINE I == {<<"i", i>> : i \in {n \in 1 .. Len(interactive) : interactive[n] = k}}
           B == {<<"b", i>> : i \in {n \in 1 .. Len(background) : background[n] = k}}
           D == IF InHand(k) THEN {<<"d", 0>>} ELSE {}
<1>1. Held(k) = (I \cup B) \cup D
    BY DEF Held
<1>2. /\ ~Queued(interactive, k) => I = {}
      /\ ~Queued(background, k) => B = {}
      /\ ~InHand(k) => D = {}
    BY DEF Queued
<1>3. ASSUME Queued(interactive, k) PROVE \E h : I = {h}
    <2>1. PICK n \in 1 .. Len(interactive) : interactive[n] = k
        BY <1>3 DEF Queued
    <2>2. {m \in 1 .. Len(interactive) : interactive[m] = k} = {n}
        BY <2>1 DEF InOnePlace, Distinct
    <2>3. I = {<<"i", n>>}
        BY <2>2
    <2> QED BY <2>3
<1>4. ASSUME Queued(background, k) PROVE \E h : B = {h}
    <2>1. PICK n \in 1 .. Len(background) : background[n] = k
        BY <1>4 DEF Queued
    <2>2. {m \in 1 .. Len(background) : background[m] = k} = {n}
        BY <2>1 DEF InOnePlace, Distinct
    <2>3. B = {<<"b", n>>}
        BY <2>2
    <2> QED BY <2>3
<1>5. InHand(k) => D = {<<"d", 0>>}
    OBVIOUS
<1> HIDE DEF I, B, D
<1>6. CASE jobs[k] = NoJob
    BY <1>1, <1>2, <1>6 DEF InOnePlace, Waits
<1>7. CASE jobs[k] # NoJob
    <2>1. \E h : Held(k) = {h}
        <3>1. CASE Queued(interactive, k)
            BY <3>1, <1>1, <1>2, <1>3 DEF InOnePlace, Waits
        <3>2. CASE Queued(background, k)
            BY <3>2, <1>1, <1>2, <1>4 DEF InOnePlace, Waits
        <3>3. CASE InHand(k)
            BY <3>3, <1>1, <1>2, <1>5 DEF InOnePlace, Waits
        <3> QED BY <3>1, <3>2, <3>3, <1>7 DEF InOnePlace, Waits
    <2> QED BY <2>1, <1>7
<1> QED BY <1>6, <1>7

\* A request joins a job that is in one place, or puts a new one in a queue.
LEMMA EnqueuePlaces ==
    ASSUME VideoTypeOK, InOnePlace, NEW c \in Callers, NEW k \in Keys,
           NEW prio \in {"interactive", "background"}, Enqueue(c, k, prio), driver' = driver
    PROVE  /\ InOnePlace'
           /\ \A j \in Keys : j # k => jobs'[j] = jobs[j]
           /\ IF jobs[k] # NoJob THEN jobs'[k] = [jobs[k] EXCEPT !.waiters = @ \cup {c}]
              ELSE jobs'[k] = [prio |-> prio, waiters |-> {c}, cancelled |-> FALSE, of |-> of[c]]
<1>1. jobs \in [Keys -> Job] /\ interactive \in Seq(Keys) /\ background \in Seq(Keys)
    BY DEF VideoTypeOK
<1>2. /\ \A j \in Keys : j # k => jobs'[j] = jobs[j]
      /\ IF jobs[k] # NoJob THEN jobs'[k] = [jobs[k] EXCEPT !.waiters = @ \cup {c}]
         ELSE jobs'[k] = [prio |-> prio, waiters |-> {c}, cancelled |-> FALSE, of |-> of[c]]
    BY <1>1 DEF Enqueue
<1>3. jobs'[k] # NoJob
    <2>1. c \in jobs'[k].waiters
        BY <1>1, <1>2 DEF Job
    <2> QED BY <2>1 DEF NoJob
<1>4. \A j \in Keys : InHand(j)' <=> InHand(j)
    BY DEF InHand
<1>5. CASE jobs[k] # NoJob
    <2>1. interactive' = interactive /\ background' = background
        BY <1>5 DEF Enqueue
    <2>2. \A j \in Keys : jobs'[j] # NoJob <=> jobs[j] # NoJob
        BY <1>2, <1>3, <1>5
    <2> QED BY <1>2, <1>4, <2>1, <2>2 DEF InOnePlace, Waits
<1>6. CASE jobs[k] = NoJob
    <2>1. ~Queued(interactive, k) /\ ~Queued(background, k) /\ ~InHand(k)
        BY <1>6 DEF InOnePlace, Waits
    <2>2. \A j \in Keys : jobs'[j] # NoJob <=> jobs[j] # NoJob \/ j = k
        BY <1>2, <1>3
    <2>3. CASE prio = "interactive"
        <3>1. interactive' = Append(interactive, k) /\ background' = background
            BY <1>6, <2>3 DEF Enqueue
        <3>2. Distinct(interactive') /\ \A j \in Keys : Queued(interactive', j) <=> Queued(interactive, j) \/ j = k
            BY <1>1, <2>1, <3>1, AppendQueue DEF InOnePlace
        <3> QED BY <1>2, <1>4, <2>1, <2>2, <3>1, <3>2 DEF InOnePlace, Waits
    <2>4. CASE prio = "background"
        <3>1. background' = Append(background, k) /\ interactive' = interactive
            BY <1>6, <2>4 DEF Enqueue
        <3>2. Distinct(background') /\ \A j \in Keys : Queued(background', j) <=> Queued(background, j) \/ j = k
            BY <1>1, <2>1, <3>1, AppendQueue DEF InOnePlace
        <3> QED BY <1>2, <1>4, <2>1, <2>2, <3>1, <3>2 DEF InOnePlace, Waits
    <2> QED BY <2>3, <2>4
<1> QED BY <1>2, <1>5, <1>6

\* A job that is answered leaves its one place and the map.
LEMMA DeliverPlaces ==
    ASSUME VideoTypeOK, InOnePlace, driver.at # "idle", NEW a, Deliver(driver.key, a),
           driver' = Parked, interactive' = interactive, background' = background
    PROVE  InOnePlace'
<1>1. jobs \in [Keys -> Job] /\ driver.key \in Keys
    BY DEF VideoTypeOK, Driver
<1>2. \A j \in Keys : jobs'[j] = IF j = driver.key THEN NoJob ELSE jobs[j]
    BY <1>1 DEF Deliver
<1>3. \A j \in Keys : ~InHand(j)' /\ (InHand(j) <=> j = driver.key)
    BY DEF InHand, Parked
<1> QED BY <1>1, <1>2, <1>3 DEF InOnePlace, Waits

\* The driver goes on with the job it has.
LEMMA DriverGoesOn ==
    ASSUME InOnePlace, driver.at # "idle", driver'.at # "idle", driver'.key = driver.key,
           jobs' = jobs, interactive' = interactive, background' = background
    PROVE  InOnePlace'
BY DEF InOnePlace, Waits, InHand

LEMMA InitPlaces == VideoInit => InOnePlace
<1> SUFFICES ASSUME VideoInit PROVE InOnePlace
    OBVIOUS
<1>1. interactive = <<>> /\ background = <<>> /\ driver = Parked /\ jobs = [k \in Keys |-> NoJob]
    BY DEF VideoInit
<1>2. Len(interactive) = 0 /\ Len(background) = 0 /\ driver.at = "idle"
    BY <1>1 DEF Parked
<1> QED BY <1>1, <1>2 DEF InOnePlace, Distinct, Waits, Queued, InHand

LEMMA StepPlaces ==
    ASSUME Typed, InOnePlace, [VideoNext]_vvars
    PROVE  InOnePlace'
<1> USE KeyFacts
<1>0. /\ VideoTypeOK /\ jobs \in [Keys -> Job] /\ interactive \in Seq(Keys) /\ background \in Seq(Keys)
      /\ driver \in Driver /\ driver.key \in Keys
    BY DEF Typed, VideoTypeOK, Driver
<1>1. CASE DriverStep
    <2>1. CASE Pop
        <3>1. driver.at = "idle" /\ jobs' = jobs
            BY <2>1 DEF Pop
        <3>2. \A j \in Keys : ~InHand(j)
            BY <3>1 DEF InHand
        <3>3. CASE interactive # <<>>
            <4>1. interactive' = Tail(interactive) /\ background' = background
                  /\ driver' = Taken(Head(interactive))
                BY <2>1, <3>3 DEF Pop, Driving
            <4>2. /\ Distinct(interactive') /\ Queued(interactive, Head(interactive))
                  /\ Head(interactive) \in Keys
                  /\ \A j \in Keys : Queued(interactive', j)
                                      <=> Queued(interactive, j) /\ j # Head(interactive)
                BY <1>0, <3>3, <4>1, TailQueue DEF InOnePlace
            <4>3. \A j \in Keys : InHand(j)' <=> j = Head(interactive)
                BY <4>1 DEF InHand, Taken
            <4> QED BY <3>1, <3>2, <4>1, <4>2, <4>3 DEF InOnePlace, Waits
        <3>4. CASE interactive = <<>>
            <4>1. background # <<>> /\ background' = Tail(background) /\ interactive' = interactive
                  /\ driver' = Taken(Head(background))
                BY <2>1, <3>4 DEF Pop, Driving
            <4>2. /\ Distinct(background') /\ Queued(background, Head(background))
                  /\ Head(background) \in Keys
                  /\ \A j \in Keys : Queued(background', j)
                                      <=> Queued(background, j) /\ j # Head(background)
                BY <1>0, <4>1, TailQueue DEF InOnePlace
            <4>3. \A j \in Keys : InHand(j)' <=> j = Head(background)
                BY <4>1 DEF InHand, Taken
            <4> QED BY <3>1, <3>2, <4>1, <4>2, <4>3 DEF InOnePlace, Waits
        <3> QED BY <3>3, <3>4
    <2>2. CASE TakeJob
        <3>1. jobs[driver.key] # NoJob
            BY <2>2, <1>0 DEF TakeJob, InOnePlace, InHand
        <3> QED BY <2>2, <3>1, <1>0, DriverGoesOn, ZenonT(40) DEF TakeJob, Driving, service, Driver
    <2>3. CASE BeginOp \/ Poll \/ OpRetried
        BY <2>3, <1>0, DriverGoesOn DEF BeginOp, Poll, OpRetried, Driving, service, Driver
    <2>4. CASE NoSession \/ StopCancelled \/ OpSucceeds \/ OpFails
        <3>1. /\ driver.at # "idle" /\ driver' = Parked /\ interactive' = interactive
              /\ background' = background /\ \E a \in Answers : Deliver(driver.key, a)
            BY <2>4 DEF NoSession, StopCancelled, OpSucceeds, OpFails, Driving, Answers
        <3> QED BY <1>0, <3>1, DeliverPlaces
    <2>5. CASE StopPreempted
        <3>1. driver.at # "idle" /\ driver' = Parked /\ interactive' = interactive /\ jobs' = jobs
              /\ background' = <<driver.key>> \o background
            BY <2>5 DEF StopPreempted, Driving
        <3>2. InHand(driver.key) /\ ~Queued(background, driver.key)
              /\ ~Queued(interactive, driver.key)
            BY <1>0, <3>1 DEF InHand, InOnePlace, Waits
        <3>3. Distinct(background') /\ \A j \in Keys : Queued(background', j)
                                                <=> Queued(background, j) \/ j = driver.key
            BY <1>0, <3>1, <3>2, ConsQueue DEF InOnePlace
        <3>4. \A j \in Keys : ~InHand(j)' /\ (InHand(j) <=> j = driver.key)
            BY <3>1 DEF InHand, Parked
        <3> QED BY <1>0, <3>1, <3>2, <3>3, <3>4 DEF InOnePlace, Waits
    <2> QED BY <1>1, <2>1, <2>2, <2>3, <2>4, <2>5 DEF DriverStep
<1>2. ASSUME NEW c \in Callers, Resolve(c) \/ Ask(c) \/ Make(c) \/ Verify(c) PROVE InOnePlace'
    <2>1. /\ driver' = driver
          /\ \E k \in Keys, prio \in {"interactive", "background"} : Enqueue(c, k, prio)
        BY <1>2 DEF Resolve, Ask, Make, Verify
    <2> QED BY <1>0, <2>1, EnqueuePlaces
<1>3. CASE CancelJob
    <2>1. CASE Waits("playable") /\ jobs["playable"] # NoJob
        <3>1. /\ interactive' = Without(interactive, "playable")
              /\ background' = Without(background, "playable")
              /\ jobs' = [jobs EXCEPT !["playable"] = NoJob] /\ driver' = driver
            BY <1>3, <2>1 DEF CancelJob, Waits, Deliver
        <3>2. /\ Distinct(interactive') /\ Distinct(background')
              /\ \A j \in Keys : Queued(interactive', j) <=> Queued(interactive, j) /\ j # "playable"
              /\ \A j \in Keys : Queued(background', j) <=> Queued(background, j) /\ j # "playable"
            BY <1>0, <3>1, WithoutQueue DEF InOnePlace
        <3>3. \A j \in Keys : jobs'[j] # NoJob <=> jobs[j] # NoJob /\ j # "playable"
            BY <1>0, <3>1
        <3>4. \A j \in Keys : InHand(j)' <=> InHand(j)
            BY <3>1 DEF InHand
        <3>5. ~InHand("playable")
            BY <2>1 DEF InOnePlace
        <3> QED BY <3>2, <3>3, <3>4, <3>5 DEF InOnePlace, Waits
    <2>2. CASE ~(Waits("playable") /\ jobs["playable"] # NoJob)
        <3>1. interactive' = interactive /\ background' = background /\ driver' = driver
              /\ \A j \in Keys : jobs'[j] # NoJob <=> jobs[j] # NoJob
            <4>1. CASE jobs["playable"] = NoJob
                BY <1>3, <4>1 DEF CancelJob, service
            <4>2. CASE jobs["playable"] # NoJob
                <5>1. /\ jobs' = [jobs EXCEPT !["playable"].cancelled = TRUE]
                      /\ interactive' = interactive /\ background' = background /\ driver' = driver
                    BY <1>3, <2>2, <4>2 DEF CancelJob, Waits
                <5>2. jobs'["playable"].cancelled
                    BY <1>0, <5>1 DEF Job
                <5>3. jobs'["playable"] # NoJob
                    BY <5>2 DEF NoJob
                <5> QED BY <1>0, <5>1, <5>3, <4>2
            <4> QED BY <4>1, <4>2
        <3> QED BY <3>1 DEF InOnePlace, Waits, InHand
    <2> QED BY <2>1, <2>2
<1>4. ASSUME NEW c \in Callers,
             \/ Probed(c) \/ ReadRow(c) \/ Claim(c) \/ Verified(c) \/ TaskFails(c) \/ TaskCancelled(c)
             \/ Compare(c) \/ Rename(c) \/ Finish(c) \/ Served(c) \/ FinishLost(c)
      PROVE  UNCHANGED <<interactive, background, jobs, driver>>
    BY <1>4 DEF Probed, ReadRow, Claim, Verified, TaskFails, TaskCancelled, Compare, Rename,
                Finish, Served, FinishLost, service
<1>5. CASE CancelRow \/ CancelRowFails \/ Edit \/ Rescan \/ (\E v \in Versions : Evict(v)) \/ UNCHANGED vvars
    <2>1. UNCHANGED <<interactive, background, jobs, driver>>
        BY <1>5 DEF CancelRow, CancelRowFails, Edit, Rescan, Evict, service, vvars
    <2> QED BY <2>1 DEF InOnePlace, Waits, InHand
<1>6. ASSUME NEW reset \in BOOLEAN, NEW swept \in BOOLEAN, Restart(reset, swept)
      PROVE  InOnePlace'
    <2>1. interactive' = <<>> /\ background' = <<>> /\ driver' = Parked
          /\ jobs' = [k \in Keys |-> NoJob]
        BY <1>6 DEF Restart
    <2>2. Len(interactive') = 0 /\ Len(background') = 0 /\ driver'.at = "idle"
        BY <2>1 DEF Parked
    <2> QED BY <2>1, <2>2 DEF InOnePlace, Distinct, Waits, Queued, InHand
<1>7. ASSUME UNCHANGED <<interactive, background, jobs, driver>> PROVE InOnePlace'
    BY <1>7 DEF InOnePlace, Waits, InHand
<1> QED BY <1>1, <1>2, <1>3, <1>4, <1>5, <1>6, <1>7 DEF VideoNext, VideoEnvironment, CallerStep

\* For all viewers, thumbnails and bounds, every job stands in one place.
THEOREM QueuesStayInStep == VideoSpec => []QueuesAgree
<1>1. Typed /\ InOnePlace /\ [VideoNext]_vvars => Typed' /\ InOnePlace'
    BY StepTyped, StepPlaces
<1>2. VideoInit => Typed /\ InOnePlace
    BY InitTyped, InitPlaces
<1>3. Typed /\ InOnePlace => QueuesAgree
    BY OnePlaceAgrees DEF Typed
<1> QED BY <1>1, <1>2, <1>3, PTL DEF VideoSpec

----------------------------------------------------------------------------
(* Who waits for what.                                                     *)

WaitingPlaces == {"probe", "make", "verify", "ask"}

WaitersWait ==
    /\ \A k \in Keys : \A c \in jobs[k].waiters : pc[c] = PlaceOf[k] /\ ans[c] = "none"
    /\ \A k \in Keys : jobs[k] # NoJob => jobs[k].waiters # {}
    /\ \A c \in Callers : pc[c] \notin WaitingPlaces => ans[c] = "none"
    /\ \A c \in Thumbs : pc[c] \in {"idle", "ask"}
    /\ driver.at = "cancelled" => jobs[driver.key].cancelled

LEMMA PlaceFacts ==
    /\ PlaceOf["probe"] = "probe" /\ PlaceOf["playable"] = "make"
    /\ PlaceOf["verify"] = "verify" /\ PlaceOf["cover"] = "ask"
    /\ \A k \in Keys : PlaceOf[k] \in WaitingPlaces
    /\ \A j, k \in Keys : PlaceOf[j] = PlaceOf[k] => j = k
    /\ NoJob.waiters = {} /\ ~NoJob.cancelled
BY DEF PlaceOf, WaitingPlaces, Keys, NoJob

\* Callers move on by themselves and only after they were answered.
LEMMA MoveWaits ==
    ASSUME Typed, WaitersWait, NEW c \in Callers, NEW place \in CallerPlaces,
           \/ pc[c] \notin WaitingPlaces /\ ans' = ans
           \/ ans[c] # "none" /\ ans' = [ans EXCEPT ![c] = "none"],
           place \notin WaitingPlaces, c \in Thumbs => place = "idle",
           pc' = [pc EXCEPT ![c] = place], jobs' = jobs, driver' = driver
    PROVE  WaitersWait'
<1>1. /\ pc \in [Callers -> CallerPlaces] /\ ans \in [Callers -> Answers]
      /\ jobs \in [Keys -> Job]
    BY DEF Typed, VideoTypeOK
<1>2. \A k \in Keys : c \notin jobs[k].waiters /\ jobs[k].waiters \subseteq Callers
    BY <1>1, PlaceFacts DEF WaitersWait, Job
<1>3. ans'[c] = "none" /\ pc'[c] = place
    BY <1>1 DEF WaitersWait
<1>4. \A d \in Callers \ {c} : ans'[d] = ans[d] /\ pc'[d] = pc[d]
    BY <1>1
<1>5. \A k \in Keys : \A d \in jobs'[k].waiters : pc'[d] = PlaceOf[k] /\ ans'[d] = "none"
    BY <1>2, <1>4 DEF WaitersWait
<1>6. \A d \in Callers : pc'[d] \notin WaitingPlaces => ans'[d] = "none"
    BY <1>3, <1>4 DEF WaitersWait
<1>7. \A d \in Thumbs : pc'[d] \in {"idle", "ask"}
    BY <1>3, <1>4, KeyFacts DEF WaitersWait
<1> QED BY <1>5, <1>6, <1>7 DEF WaitersWait

\* A caller goes to wait.
LEMMA EnqueueWaits ==
    ASSUME Typed, InOnePlace, WaitersWait, NEW c \in Callers, NEW k \in Keys,
           NEW prio \in {"interactive", "background"}, Enqueue(c, k, prio),
           \A j \in Keys : c \notin jobs[j].waiters,
           ans' \in [Callers -> Answers], ans'[c] = "none",
           \A d \in Callers \ {c} : ans'[d] = ans[d],
           pc' = [pc EXCEPT ![c] = PlaceOf[k]], driver' = driver,
           c \in Thumbs => k = "cover"
    PROVE  WaitersWait'
<1>1. /\ pc \in [Callers -> CallerPlaces] /\ jobs \in [Keys -> Job] /\ VideoTypeOK
      /\ driver.key \in Keys
    BY DEF Typed, VideoTypeOK, Driver
<1>2. /\ \A j \in Keys : j # k => jobs'[j] = jobs[j]
      /\ IF jobs[k] # NoJob THEN jobs'[k] = [jobs[k] EXCEPT !.waiters = @ \cup {c}]
         ELSE jobs'[k] = [prio |-> prio, waiters |-> {c}, cancelled |-> FALSE, of |-> of[c]]
    BY ZenonT(40), <1>1, EnqueuePlaces
<1>3. /\ jobs'[k].waiters = jobs[k].waiters \cup {c}
      /\ jobs[k].cancelled => jobs'[k].cancelled
    <2>1. CASE jobs[k] # NoJob
        BY <1>1, <1>2, <2>1 DEF Job
    <2>2. CASE jobs[k] = NoJob
        BY <1>2, <2>2, PlaceFacts
    <2> QED BY <2>1, <2>2
<1>4. \A j \in Keys : jobs[j].waiters \subseteq Callers
    BY <1>1 DEF Job
<1>5. pc'[c] = PlaceOf[k] /\ \A d \in Callers \ {c} : pc'[d] = pc[d]
    BY <1>1
<1>6. \A j \in Keys : \A d \in jobs'[j].waiters : pc'[d] = PlaceOf[j] /\ ans'[d] = "none"
    <2> SUFFICES ASSUME NEW j \in Keys, NEW d \in jobs'[j].waiters
                 PROVE  pc'[d] = PlaceOf[j] /\ ans'[d] = "none"
        OBVIOUS
    <2>1. CASE d = c
        <3>1. j = k
            BY <2>1, <1>2
        <3> QED BY <2>1, <3>1, <1>5
    <2>2. CASE d # c
        <3>1. d \in jobs[j].waiters
            BY <2>2, <1>2, <1>3
        <3> QED BY <2>2, <3>1, <1>4, <1>5 DEF WaitersWait
    <2> QED BY <2>1, <2>2
<1>7. \A j \in Keys : jobs'[j] # NoJob => jobs'[j].waiters # {}
    BY <1>2, <1>3 DEF WaitersWait
<1>8. \A d \in Callers : pc'[d] \notin WaitingPlaces => ans'[d] = "none"
    BY <1>5, PlaceFacts DEF WaitersWait
<1>9. \A d \in Thumbs : pc'[d] \in {"idle", "ask"}
    BY <1>5, PlaceFacts, KeyFacts DEF WaitersWait
<1>10. driver'.at = "cancelled" => jobs'[driver'.key].cancelled
    BY <1>1, <1>2, <1>3 DEF WaitersWait
<1> QED BY <1>6, <1>7, <1>8, <1>9, <1>10 DEF WaitersWait

\* A job is answered.
LEMMA DeliverWaits ==
    ASSUME Typed, WaitersWait, NEW k \in Keys, NEW a \in Answers, Deliver(k, a),
           pc' = pc, driver'.at # "cancelled"
    PROVE  /\ WaitersWait'
           /\ \A j \in Keys : jobs'[j] = IF j = k THEN NoJob ELSE jobs[j]
           /\ \A c \in Callers : ans'[c] = IF c \in jobs[k].waiters THEN a ELSE ans[c]
<1>1. jobs \in [Keys -> Job] /\ ans \in [Callers -> Answers]
    BY DEF Typed, VideoTypeOK
<1>2. /\ \A j \in Keys : jobs'[j] = IF j = k THEN NoJob ELSE jobs[j]
      /\ \A c \in Callers : ans'[c] = IF c \in jobs[k].waiters THEN a ELSE ans[c]
    BY <1>1 DEF Deliver
<1>3. \A j \in Keys : jobs[j].waiters \subseteq Callers
    BY <1>1 DEF Job
<1>4. \A j \in Keys : \A c \in jobs'[j].waiters : pc[c] = PlaceOf[j] /\ ans'[c] = "none"
    BY <1>2, <1>3, PlaceFacts DEF WaitersWait
<1>5. \A c \in Callers : pc[c] \notin WaitingPlaces => ans'[c] = "none"
    BY <1>2, PlaceFacts DEF WaitersWait
<1>6. \A j \in Keys : jobs'[j] # NoJob => jobs'[j].waiters # {}
    BY <1>2 DEF WaitersWait
<1> QED BY <1>2, <1>4, <1>5, <1>6 DEF WaitersWait

LEMMA InitWaits == VideoInit => WaitersWait
<1> SUFFICES ASSUME VideoInit PROVE WaitersWait
    OBVIOUS
<1>1. jobs = [k \in Keys |-> NoJob] /\ ans = [c \in Callers |-> "none"]
      /\ pc = [c \in Callers |-> "idle"] /\ driver = Parked
    BY DEF VideoInit
<1> QED BY <1>1, PlaceFacts, KeyFacts, DriverTyped DEF WaitersWait

LEMMA StepWaits ==
    ASSUME Typed, InOnePlace, WaitersWait, [VideoNext]_vvars
    PROVE  WaitersWait'
<1> USE KeyFacts
<1>0. /\ jobs \in [Keys -> Job] /\ driver \in Driver /\ driver.key \in Keys
      /\ pc \in [Callers -> CallerPlaces] /\ ans \in [Callers -> Answers]
    BY DEF Typed, VideoTypeOK, Driver
<1>1. CASE DriverStep
    <2>1. CASE Pop \/ TakeJob \/ BeginOp \/ StopPreempted \/ OpRetried
        <3>1. UNCHANGED <<jobs, pc, ans>>
            BY <2>1 DEF Pop, TakeJob, BeginOp, StopPreempted, OpRetried, service, callers
        <3>2. driver'.at # "cancelled"
            <4>1. Pop \/ StopPreempted => driver'.at \in {"taken", "idle"}
                BY DEF Pop, StopPreempted, Driving, Taken, Parked
            <4>2. TakeJob \/ BeginOp \/ OpRetried => driver'.at \in {"idle", "ensure", "run"}
                BY <1>0 DEF TakeJob, BeginOp, OpRetried, Driving, Driver, Parked
            <4> QED BY <2>1, <4>1, <4>2
        <3> QED BY <3>1, <3>2 DEF WaitersWait
    <2>2. CASE Poll
        <3>1. UNCHANGED <<jobs, pc, ans>>
            BY <2>2 DEF Poll, service, callers
        <3>2. driver'.at = "cancelled" => jobs[driver.key].cancelled /\ driver'.key = driver.key
            BY <2>2, <1>0 DEF Poll, Driving, Driver
        <3> QED BY <3>1, <3>2 DEF WaitersWait
    <2>3. CASE NoSession \/ StopCancelled \/ OpSucceeds \/ OpFails
        <3>1. pc' = pc /\ driver' = Parked /\ \E a \in Answers : Deliver(driver.key, a)
            BY <2>3 DEF NoSession, StopCancelled, OpSucceeds, OpFails, Driving, Answers
        <3>2. driver'.at # "cancelled"
            BY <3>1, DriverTyped
        <3>3. PICK a \in Answers : Deliver(driver.key, a)
            BY <3>1
        <3> QED BY <1>0, <3>1, <3>2, <3>3, DeliverWaits
    <2> QED BY <1>1, <2>1, <2>2, <2>3 DEF DriverStep
<1>2. ASSUME NEW c \in Callers, Resolve(c) \/ Ask(c) \/ Make(c) \/ Verify(c)
      PROVE  WaitersWait'
    <2>1. /\ driver' = driver
          /\ \/ ans' = ans /\ ans[c] = "none"
             \/ ans[c] # "none" /\ ans' = [ans EXCEPT ![c] = "none"]
        BY <1>0, <1>2 DEF Resolve, Ask, Make, Verify, Heard, WaitersWait, WaitingPlaces
    <2>2. \A j \in Keys : c \notin jobs[j].waiters
        BY <1>0, <1>2, PlaceFacts DEF Resolve, Ask, Make, Verify, Heard, WaitersWait, WaitingPlaces
    <2>3. \E k \in Keys, prio \in {"interactive", "background"} :
              /\ Enqueue(c, k, prio) /\ pc' = [pc EXCEPT ![c] = PlaceOf[k]]
              /\ c \in Thumbs => k = "cover"
        <3>1. CASE Resolve(c)
            <4>1. c \notin Thumbs
                BY <3>1, VideoAssumption DEF Resolve
            <4> QED BY <3>1, <4>1, PlaceFacts DEF Resolve, Reach
        <3>2. CASE Ask(c)
            BY <3>2, PlaceFacts DEF Ask, Reach
        <3>3. CASE Make(c)
            <4>1. c \notin Thumbs
                BY <3>3 DEF Make, WaitersWait
            <4> QED BY <3>3, <4>1, PlaceFacts DEF Make, Reach
        <3>4. CASE Verify(c)
            <4>1. c \notin Thumbs
                BY <3>4 DEF Verify, WaitersWait
            <4> QED BY <3>4, <4>1, PlaceFacts DEF Verify, Reach
        <3> QED BY <1>2, <3>1, <3>2, <3>3, <3>4
    <2>4. /\ ans' \in [Callers -> Answers] /\ ans'[c] = "none"
          /\ \A d \in Callers \ {c} : ans'[d] = ans[d]
        BY <1>0, <2>1 DEF Answers
    <2>5. PICK k \in Keys, prio \in {"interactive", "background"} :
              /\ Enqueue(c, k, prio) /\ pc' = [pc EXCEPT ![c] = PlaceOf[k]]
              /\ c \in Thumbs => k = "cover"
        BY <2>3
    <2> QED BY ZenonT(40), <2>1, <2>2, <2>4, <2>5, EnqueueWaits
<1>3. CASE CancelJob
    <2>1. pc' = pc /\ driver' = driver
        BY <1>3 DEF CancelJob
    <2>2. CASE jobs["playable"] = NoJob
        <3>1. UNCHANGED <<jobs, ans>>
            BY <1>3, <2>2 DEF CancelJob, service
        <3> QED BY <2>1, <3>1 DEF WaitersWait
    <2>3. CASE jobs["playable"] # NoJob /\ Waits("playable")
        <3>1. Deliver("playable", "cancelled")
            BY <1>3, <2>3 DEF CancelJob, Waits
        <3>2. /\ \A j \in Keys : jobs'[j] = IF j = "playable" THEN NoJob ELSE jobs[j]
              /\ \A c \in Callers : ans'[c] = IF c \in jobs["playable"].waiters THEN "cancelled" ELSE ans[c]
            BY <1>0, <3>1 DEF Deliver
        <3>3. driver.at = "cancelled" => driver.key # "playable"
            BY <2>3 DEF InOnePlace, InHand
        <3>4. \A j \in Keys : jobs[j].waiters \subseteq Callers
            BY <1>0 DEF Job
        <3>5. \A j \in Keys : \A c \in jobs'[j].waiters : pc[c] = PlaceOf[j] /\ ans'[c] = "none"
            BY <3>2, <3>4, PlaceFacts DEF WaitersWait
        <3>6. \A c \in Callers : pc[c] \notin WaitingPlaces => ans'[c] = "none"
            BY <3>2, PlaceFacts DEF WaitersWait
        <3>7. \A j \in Keys : jobs'[j] # NoJob => jobs'[j].waiters # {}
            BY <3>2 DEF WaitersWait
        <3>8. driver.at = "cancelled" => jobs'[driver.key].cancelled
            BY <1>0, <3>2, <3>3 DEF WaitersWait
        <3> QED BY <2>1, <3>5, <3>6, <3>7, <3>8 DEF WaitersWait
    <2>4. CASE jobs["playable"] # NoJob /\ ~Waits("playable")
        <3>1. jobs' = [jobs EXCEPT !["playable"].cancelled = TRUE] /\ ans' = ans
            BY <1>3, <2>4 DEF CancelJob, Waits
        <3>2. \A j \in Keys : /\ jobs'[j].waiters = jobs[j].waiters
                              /\ (jobs'[j] # NoJob => jobs[j] # NoJob)
            BY <1>0, <2>4, <3>1 DEF Job
        <3>6. jobs[driver.key].cancelled => jobs'[driver.key].cancelled
            BY <1>0, <3>1 DEF Job
        <3>3. \A j \in Keys : \A c \in jobs'[j].waiters : pc'[c] = PlaceOf[j] /\ ans'[c] = "none"
            BY <2>1, <3>1, <3>2 DEF WaitersWait
        <3>4. ASSUME NEW j \in Keys, jobs'[j] # NoJob PROVE jobs'[j].waiters # {}
            <4>1. jobs[j] # NoJob /\ jobs'[j].waiters = jobs[j].waiters
                BY <3>2, <3>4
            <4> QED BY <4>1 DEF WaitersWait
        <3>5. ASSUME driver'.at = "cancelled" PROVE jobs'[driver'.key].cancelled
            <4>1. driver.at = "cancelled" /\ driver'.key = driver.key
                BY <2>1, <3>5
            <4>2. jobs[driver.key].cancelled
                BY <4>1 DEF WaitersWait
            <4> QED BY <4>1, <4>2, <3>6
        <3> QED BY <2>1, <3>1, <3>3, <3>4, <3>5 DEF WaitersWait
    <2> QED BY <2>2, <2>3, <2>4
<1>4. ASSUME NEW c \in Callers,
             \/ Probed(c) \/ ReadRow(c) \/ Claim(c) \/ Verified(c) \/ TaskFails(c) \/ TaskCancelled(c)
             \/ Compare(c) \/ Rename(c) \/ Finish(c) \/ Served(c) \/ FinishLost(c)
      PROVE  WaitersWait'
    <2>1. jobs' = jobs /\ driver' = driver
        BY <1>4 DEF Probed, ReadRow, Claim, Verified, TaskFails, TaskCancelled, Compare, Rename,
                    Finish, Served, FinishLost, service
    <2>2. \/ pc[c] \notin WaitingPlaces /\ ans' = ans
          \/ ans[c] # "none" /\ ans' = [ans EXCEPT ![c] = "none"]
        BY <1>4 DEF Probed, ReadRow, Claim, Verified, TaskFails, TaskCancelled, Compare, Rename,
                    Finish, Served, FinishLost, callers, Heard, WaitingPlaces
    <2>3. \E place \in CallerPlaces : /\ place \notin WaitingPlaces /\ pc' = [pc EXCEPT ![c] = place]
                                      /\ c \in Thumbs => place = "idle"
        <3>1. c \in Thumbs => pc[c] \in {"idle", "ask"}
            BY DEF WaitersWait
        <3>2. CASE Probed(c) \/ ReadRow(c) \/ Claim(c)
            BY <3>1, <3>2 DEF Probed, ReadRow, Claim, Reach, CallerPlaces, WaitingPlaces
        <3>3. CASE Verified(c) \/ TaskFails(c) \/ TaskCancelled(c) \/ Compare(c) \/ Rename(c)
            BY <3>1, <3>3 DEF Verified, TaskFails, TaskCancelled, Compare, Rename, Reach,
                              CallerPlaces, WaitingPlaces
        <3>4. CASE Finish(c) \/ Served(c) \/ FinishLost(c)
            BY <3>1, <3>4 DEF Finish, Served, FinishLost, Reach, CallerPlaces, WaitingPlaces
        <3>5. Probed(c) \/ ReadRow(c) \/ Claim(c) \/ Verified(c) \/ TaskFails(c) \/ TaskCancelled(c)
              \/ Compare(c) \/ Rename(c) \/ Finish(c) \/ Served(c) \/ FinishLost(c)
            BY <1>4
        <3> QED BY <3>2, <3>3, <3>4, <3>5
    <2>4. PICK place \in CallerPlaces : /\ place \notin WaitingPlaces
                                        /\ pc' = [pc EXCEPT ![c] = place]
                                        /\ c \in Thumbs => place = "idle"
        BY <2>3
    <2> QED BY <2>1, <2>2, <2>4, MoveWaits
<1>5. CASE CancelRow \/ CancelRowFails \/ Edit \/ Rescan \/ (\E v \in Versions : Evict(v)) \/ UNCHANGED vvars
    <2>1. UNCHANGED <<jobs, driver, pc, ans>>
        BY <1>5 DEF CancelRow, CancelRowFails, Edit, Rescan, Evict, service, callers, vvars
    <2> QED BY <2>1 DEF WaitersWait
<1>6. ASSUME NEW reset \in BOOLEAN, NEW swept \in BOOLEAN, Restart(reset, swept)
      PROVE  WaitersWait'
    <2>1. jobs' = [k \in Keys |-> NoJob] /\ ans' = [c \in Callers |-> "none"]
          /\ pc' = [c \in Callers |-> "idle"] /\ driver' = Parked
        BY <1>6 DEF Restart
    <2> QED BY <2>1, PlaceFacts, DriverTyped DEF WaitersWait
<1> QED BY <1>1, <1>2, <1>3, <1>4, <1>5, <1>6 DEF VideoNext, VideoEnvironment, CallerStep

----------------------------------------------------------------------------
(* Nobody is forgotten.                                                    *)

Remembered ==
    \A k \in Keys : \A c \in Callers :
        pc[c] = PlaceOf[k] => c \in jobs[k].waiters \/ ans[c] # "none"

\* A step that leaves the waiters and the answers of everybody at his place.
LEMMA StaysRemembered ==
    ASSUME Remembered,
           \A k \in Keys : \A c \in Callers :
               pc'[c] = PlaceOf[k] => /\ pc[c] = PlaceOf[k]
                                      /\ c \in jobs[k].waiters => c \in jobs'[k].waiters
                                      /\ ans[c] # "none" => ans'[c] # "none"
    PROVE  Remembered'
BY DEF Remembered

LEMMA DeliverRemembers ==
    ASSUME Typed, Remembered, NEW k \in Keys, NEW a \in Answers \ {"none"}, Deliver(k, a), pc' = pc
    PROVE  Remembered'
<1>1. jobs \in [Keys -> Job] /\ ans \in [Callers -> Answers]
    BY DEF Typed, VideoTypeOK
<1>2. /\ \A j \in Keys : j # k => jobs'[j] = jobs[j]
      /\ \A c \in Callers : ans'[c] = IF c \in jobs[k].waiters THEN a ELSE ans[c]
    BY <1>1 DEF Deliver
<1> SUFFICES ASSUME NEW j \in Keys, NEW c \in Callers, pc[c] = PlaceOf[j]
             PROVE  c \in jobs'[j].waiters \/ ans'[c] # "none"
    BY DEF Remembered
<1>3. c \in jobs[j].waiters \/ ans[c] # "none"
    BY DEF Remembered
<1>4. CASE ans[c] # "none" \/ c \in jobs[k].waiters
    BY <1>2, <1>4
<1>5. CASE ans[c] = "none" /\ c \notin jobs[k].waiters
    <2>1. c \in jobs[j].waiters /\ j # k
        BY <1>3, <1>5
    <2>2. jobs'[j] = jobs[j]
        BY <1>2, <2>1
    <2> QED BY <2>1, <2>2
<1> QED BY <1>4, <1>5

LEMMA EnqueueRemembers ==
    ASSUME Typed, InOnePlace, Remembered, NEW c \in Callers, NEW k \in Keys,
           NEW prio \in {"interactive", "background"}, Enqueue(c, k, prio),
           \A d \in Callers \ {c} : ans'[d] = ans[d],
           pc' = [pc EXCEPT ![c] = PlaceOf[k]], driver' = driver
    PROVE  Remembered'
<1>1. jobs \in [Keys -> Job] /\ pc \in [Callers -> CallerPlaces] /\ VideoTypeOK
    BY DEF Typed, VideoTypeOK
<1>2. /\ \A j \in Keys : j # k => jobs'[j] = jobs[j]
      /\ IF jobs[k] # NoJob THEN jobs'[k] = [jobs[k] EXCEPT !.waiters = @ \cup {c}]
         ELSE jobs'[k] = [prio |-> prio, waiters |-> {c}, cancelled |-> FALSE, of |-> of[c]]
    BY ZenonT(40), <1>1, EnqueuePlaces
<1>3. jobs'[k].waiters = jobs[k].waiters \cup {c}
    <2>1. CASE jobs[k] # NoJob
        BY <1>1, <1>2, <2>1 DEF Job
    <2>2. CASE jobs[k] = NoJob
        BY <1>2, <2>2, PlaceFacts
    <2> QED BY <2>1, <2>2
<1>4. pc'[c] = PlaceOf[k] /\ \A d \in Callers \ {c} : pc'[d] = pc[d]
    BY <1>1
<1> SUFFICES ASSUME NEW j \in Keys, NEW d \in Callers, pc'[d] = PlaceOf[j]
             PROVE  d \in jobs'[j].waiters \/ ans'[d] # "none"
    BY DEF Remembered
<1>5. CASE d = c
    <2>1. j = k
        BY <1>4, <1>5, PlaceFacts
    <2> QED BY <1>3, <1>5, <2>1
<1>6. CASE d # c
    <2>1. d \in jobs[j].waiters \/ ans[d] # "none"
        BY <1>4, <1>6 DEF Remembered
    <2>2. d \in jobs[j].waiters => d \in jobs'[j].waiters
        BY <1>2, <1>3
    <2> QED BY <1>6, <2>1, <2>2
<1> QED BY <1>5, <1>6

LEMMA StepRemembered ==
    ASSUME Typed, InOnePlace, Remembered, [VideoNext]_vvars
    PROVE  Remembered'
<1> USE KeyFacts
<1>0. /\ jobs \in [Keys -> Job] /\ driver \in Driver /\ driver.key \in Keys
      /\ pc \in [Callers -> CallerPlaces] /\ ans \in [Callers -> Answers]
    BY DEF Typed, VideoTypeOK, Driver
<1>1. CASE DriverStep
    <2>1. CASE Pop \/ TakeJob \/ BeginOp \/ Poll \/ StopPreempted \/ OpRetried
        <3>1. UNCHANGED <<jobs, pc, ans>>
            BY <2>1 DEF Pop, TakeJob, BeginOp, Poll, StopPreempted, OpRetried, service, callers
        <3> QED BY <3>1, StaysRemembered
    <2>2. CASE NoSession \/ StopCancelled \/ OpSucceeds \/ OpFails
        <3>1. pc' = pc /\ \E a \in Answers \ {"none"} : Deliver(driver.key, a)
            BY <2>2 DEF NoSession, StopCancelled, OpSucceeds, OpFails, Answers
        <3> QED BY <1>0, <3>1, DeliverRemembers
    <2> QED BY <1>1, <2>1, <2>2 DEF DriverStep
<1>2. ASSUME NEW c \in Callers, Resolve(c) \/ Ask(c) \/ Make(c) \/ Verify(c)
      PROVE  Remembered'
    <2>1. driver' = driver /\ \A d \in Callers \ {c} : ans'[d] = ans[d]
        BY <1>0, <1>2 DEF Resolve, Ask, Make, Verify, Heard
    <2>2. \E k \in Keys, prio \in {"interactive", "background"} :
              Enqueue(c, k, prio) /\ pc' = [pc EXCEPT ![c] = PlaceOf[k]]
        BY <1>2, PlaceFacts DEF Resolve, Ask, Make, Verify, Reach
    <2> QED BY <2>1, <2>2, EnqueueRemembers
<1>3. CASE CancelJob
    <2>1. pc' = pc
        BY <1>3 DEF CancelJob
    <2>2. CASE jobs["playable"] = NoJob
        BY <1>3, <2>1, <2>2, StaysRemembered DEF CancelJob, service
    <2>3. CASE jobs["playable"] # NoJob /\ Waits("playable")
        <3>1. Deliver("playable", "cancelled") /\ "cancelled" \in Answers \ {"none"}
            BY <1>3, <2>3 DEF CancelJob, Waits, Answers
        <3> QED BY <2>1, <3>1, DeliverRemembers
    <2>4. CASE jobs["playable"] # NoJob /\ ~Waits("playable")
        <3>1. jobs' = [jobs EXCEPT !["playable"].cancelled = TRUE] /\ ans' = ans
            BY <1>3, <2>4 DEF CancelJob, Waits
        <3>2. \A j \in Keys : jobs'[j].waiters = jobs[j].waiters
            BY <1>0, <3>1 DEF Job
        <3> QED BY <2>1, <3>1, <3>2, StaysRemembered
    <2> QED BY <2>2, <2>3, <2>4
<1>4. ASSUME NEW c \in Callers,
             \/ Probed(c) \/ ReadRow(c) \/ Claim(c) \/ Verified(c) \/ TaskFails(c) \/ TaskCancelled(c)
             \/ Compare(c) \/ Rename(c) \/ Finish(c) \/ Served(c) \/ FinishLost(c)
      PROVE  Remembered'
    <2>1. jobs' = jobs
        BY <1>4 DEF Probed, ReadRow, Claim, Verified, TaskFails, TaskCancelled, Compare, Rename,
                    Finish, Served, FinishLost, service
    <2>2. \A d \in Callers \ {c} : ans'[d] = ans[d] /\ pc'[d] = pc[d]
        BY <1>0, <1>4 DEF Probed, ReadRow, Claim, Verified, TaskFails, TaskCancelled, Compare,
                    Rename, Finish, Served, FinishLost, callers, Heard, Reach
    <2>3. pc'[c] \notin WaitingPlaces
        <3>1. CASE Probed(c) \/ ReadRow(c) \/ Claim(c)
            BY <1>0, <3>1 DEF Probed, ReadRow, Claim, Reach, WaitingPlaces
        <3>2. CASE Verified(c) \/ TaskFails(c) \/ TaskCancelled(c) \/ Compare(c) \/ Rename(c)
            BY <1>0, <3>2 DEF Verified, TaskFails, TaskCancelled, Compare, Rename, Reach, WaitingPlaces
        <3>3. CASE Finish(c) \/ Served(c) \/ FinishLost(c)
            BY <1>0, <3>3 DEF Finish, Served, FinishLost, Reach, WaitingPlaces
        <3> QED BY <1>4, <3>1, <3>2, <3>3
    <2> QED BY <2>1, <2>2, <2>3, PlaceFacts, StaysRemembered
<1>5. CASE CancelRow \/ CancelRowFails \/ Edit \/ Rescan \/ (\E v \in Versions : Evict(v)) \/ UNCHANGED vvars
    <2>1. UNCHANGED <<jobs, pc, ans>>
        BY <1>5 DEF CancelRow, CancelRowFails, Edit, Rescan, Evict, service, callers, vvars
    <2> QED BY <2>1, StaysRemembered
<1>6. ASSUME NEW reset \in BOOLEAN, NEW swept \in BOOLEAN, Restart(reset, swept)
      PROVE  Remembered'
    <2>1. pc' = [c \in Callers |-> "idle"]
        BY <1>6 DEF Restart
    <2>2. \A k \in Keys : PlaceOf[k] # "idle"
        BY PlaceFacts DEF WaitingPlaces
    <2> QED BY <2>1, <2>2 DEF Remembered
<1> QED BY <1>1, <1>2, <1>3, <1>4, <1>5, <1>6 DEF VideoNext, VideoEnvironment, CallerStep

\* For all viewers, thumbnails and bounds, whoever waits has a job or an answer.
THEOREM WaitersAreRemembered == VideoSpec => []NobodyIsForgotten
<1> DEFINE I == Typed /\ InOnePlace /\ WaitersWait /\ Remembered
<1>1. I /\ [VideoNext]_vvars => I'
    BY StepTyped, StepPlaces, StepWaits, StepRemembered
<1>2. VideoInit => Remembered
    <2> SUFFICES ASSUME VideoInit PROVE Remembered
        OBVIOUS
    <2>1. pc = [c \in Callers |-> "idle"]
        BY DEF VideoInit
    <2>2. \A k \in Keys : PlaceOf[k] # "idle"
        BY PlaceFacts DEF WaitingPlaces
    <2> QED BY <2>1, <2>2 DEF Remembered
<1>3. I => NobodyIsForgotten
    BY DEF WaitersWait, Remembered, NobodyIsForgotten
<1> QED BY <1>1, <1>2, <1>3, InitTyped, InitPlaces, InitWaits, PTL DEF VideoSpec

----------------------------------------------------------------------------
(* A row in preparing is worked on.                                        *)

\* A task that was cancelled, or will be: it leaves the row as it is.
Doomed(c) ==
    /\ pc[c] = "make"
    /\ \/ ans[c] = "cancelled"
       \/ jobs["playable"].cancelled = TRUE /\ c \in jobs["playable"].waiters

AtWork(c) == pc[c] \in Working /\ ~Doomed(c)

Prepared == status = 1 /\ ~excused => cancelling \/ \E c \in Viewers : AtWork(c)

LEMMA PreparedWorks == Prepared => PreparingIsWorkedOn
BY DEF Prepared, AtWork, PreparingIsWorkedOn

\* Only viewers have tasks.
LEMMA WorkersAreViewers ==
    ASSUME WaitersWait, NEW c \in Callers, pc[c] \notin {"idle", "ask"}
    PROVE  c \in Viewers
BY DEF WaitersWait, Callers

\* A step of one caller leaves the others' tasks as they are.
LEMMA OthersWork ==
    ASSUME NEW c, jobs'["playable"] = jobs["playable"],
           \A d \in Callers \ {c} : pc'[d] = pc[d] /\ ans'[d] = ans[d]
    PROVE  \A d \in Callers \ {c} : AtWork(d) => AtWork(d)'
BY DEF AtWork, Doomed

LEMMA InitPrepared == VideoInit => Prepared
BY DEF VideoInit, Prepared

LEMMA StepPrepared ==
    ASSUME Typed, InOnePlace, WaitersWait, Prepared, [VideoNext]_vvars
    PROVE  Prepared'
<1> USE KeyFacts
<1>0. /\ VideoTypeOK /\ jobs \in [Keys -> Job] /\ driver.key \in Keys
      /\ pc \in [Callers -> CallerPlaces] /\ ans \in [Callers -> Answers]
    BY DEF Typed, VideoTypeOK, Driver
<1>1. CASE DriverStep
    <2>1. UNCHANGED <<pc, status, excused, cancelling>>
        BY <1>1 DEF DriverStep, Pop, TakeJob, BeginOp, NoSession, Poll, StopCancelled, StopPreempted,
                    OpSucceeds, OpRetried, OpFails, callers, history
    <2>2. CASE Pop \/ TakeJob \/ BeginOp \/ Poll \/ StopPreempted \/ OpRetried
        <3>1. UNCHANGED <<jobs, ans>>
            BY <2>2 DEF Pop, TakeJob, BeginOp, Poll, StopPreempted, OpRetried, service, callers
        <3> QED BY <2>1, <3>1 DEF Prepared, AtWork, Doomed
    <2>3. CASE NoSession \/ StopCancelled \/ OpSucceeds \/ OpFails
        <3>1. PICK a \in Answers : /\ Deliver(driver.key, a)
                                   /\ a = "cancelled" => driver.at = "cancelled"
            BY <2>3 DEF NoSession, StopCancelled, OpSucceeds, OpFails, Answers
        <3>2. /\ \A j \in Keys : jobs'[j] = IF j = driver.key THEN NoJob ELSE jobs[j]
              /\ \A c \in Callers : ans'[c] = IF c \in jobs[driver.key].waiters THEN a ELSE ans[c]
            BY <1>0, <3>1 DEF Deliver
        <3>3. ASSUME NEW c \in Viewers, AtWork(c) PROVE AtWork(c)'
            <4>1. CASE pc[c] # "make"
                BY <2>1, <3>3, <4>1 DEF AtWork, Doomed
            <4>2. CASE pc[c] = "make"
                <5>1. ans[c] # "cancelled"
                    BY <3>3, <4>2 DEF AtWork, Doomed
                <5>2. ans'[c] # "cancelled"
                    <6>1. CASE c \in jobs[driver.key].waiters /\ a = "cancelled"
                        <7>1. driver.key = "playable"
                            BY <6>1, <1>0, <4>2, PlaceFacts DEF WaitersWait
                        <7>2. jobs["playable"].cancelled = TRUE
                            <8>1. jobs["playable"].cancelled /\ jobs["playable"].cancelled \in BOOLEAN
                                BY <7>1, <6>1, <3>1, <1>0 DEF WaitersWait, Job
                            <8> QED BY <8>1
                        <7> QED BY <7>1, <7>2, <6>1, <3>3, <4>2 DEF AtWork, Doomed
                    <6> QED BY <6>1, <5>1, <3>2
                <5>3. jobs'["playable"] = jobs["playable"] \/ jobs'["playable"] = NoJob
                    BY <3>2
                <5>4. ~Doomed(c)'
                    BY <5>2, <5>3, <2>1, <3>3, <4>2, PlaceFacts DEF AtWork, Doomed
                <5> QED BY <5>4, <2>1, <3>3 DEF AtWork
            <4> QED BY <4>1, <4>2
        <3> QED BY <2>1, <3>3 DEF Prepared
    <2> QED BY <1>1, <2>2, <2>3 DEF DriverStep
<1>2. CASE CancelJob
    BY <1>2 DEF CancelJob, Prepared
<1>3. CASE CancelRow
    <2>1. status' # 1
        BY <1>3 DEF CancelRow
    <2> QED BY <2>1 DEF Prepared
<1>10. CASE CancelRowFails
    <2>1. status' = status /\ (status = 1 => excused')
        BY <1>10, Zenon DEF CancelRowFails
    <2> QED BY <2>1 DEF Prepared
<1>4. ASSUME NEW c \in Callers, Resolve(c) \/ Ask(c) \/ Verify(c) PROVE Prepared'
    <2>1. /\ UNCHANGED <<status, cancelling, excused, driver>>
          /\ pc' = [pc EXCEPT ![c] = pc'[c]]
        BY <1>0, <1>4 DEF Resolve, Ask, Verify, Reach, history
    <2>2. jobs'["playable"] = jobs["playable"]
        <3>1. PICK k \in {"probe", "cover", "verify"}, prio \in {"interactive", "background"} :
                  Enqueue(c, k, prio)
            BY <1>4 DEF Resolve, Ask, Verify
        <3>2. k \in Keys /\ k # "playable"
            BY DEF Keys
        <3>3. driver' = driver
            BY <2>1
        <3>4. \A j \in Keys : j # k => jobs'[j] = jobs[j]
            BY <1>0, <3>1, <3>2 DEF Enqueue
        <3> QED BY <3>2, <3>4
    <2>3. \A d \in Callers \ {c} : pc'[d] = pc[d] /\ ans'[d] = ans[d]
        BY <1>0, <1>4, <2>1 DEF Resolve, Ask, Verify, Heard
    <2>4. AtWork(c) => AtWork(c)'
        BY <1>0, <1>4 DEF Resolve, Ask, Verify, Reach, AtWork, Doomed, Working
    <2> QED BY <2>1, <2>2, <2>3, <2>4, OthersWork DEF Prepared
<1>5. ASSUME NEW c \in Callers, Make(c) PROVE Prepared'
    <2>1. /\ UNCHANGED <<status, cancelling, driver, ans>> /\ pc[c] = "start" /\ ans[c] = "none"
          /\ pc' = [pc EXCEPT ![c] = "make"] /\ Enqueue(c, "playable", "interactive")
          /\ excused' = (excused \/ jobs["playable"].cancelled)
        BY <1>5 DEF Make, Reach, WaitersWait, WaitingPlaces
    <2>2. CASE jobs["playable"].cancelled
        BY <2>1, <2>2 DEF Prepared
    <2>3. CASE ~jobs["playable"].cancelled
        <3>1. jobs'["playable"].cancelled = FALSE
            <4>1. jobs["playable"].cancelled = FALSE
                BY <1>0, <2>3 DEF Job
            <4>2. IF jobs["playable"] # NoJob
                  THEN jobs'["playable"] = [jobs["playable"] EXCEPT !.waiters = @ \cup {c}]
                  ELSE jobs'["playable"] = [prio |-> "interactive", waiters |-> {c},
                                            cancelled |-> FALSE, of |-> of[c]]
                BY <1>0, <2>1, EnqueuePlaces
            <4> QED BY <1>0, <4>1, <4>2 DEF Job
        <3>2. pc'[c] = "make" /\ ans'[c] = "none"
            BY <1>0, <2>1
        <3>3. AtWork(c)'
            BY <3>1, <3>2 DEF AtWork, Doomed, Working
        <3> QED BY <3>3, WorkersAreViewers, <2>1 DEF Prepared
    <2> QED BY <2>2, <2>3
<1>6. ASSUME NEW c \in Callers,
             \/ Probed(c) \/ ReadRow(c) \/ Claim(c) \/ Verified(c) \/ TaskFails(c) \/ TaskCancelled(c)
             \/ Compare(c) \/ Rename(c) \/ Served(c)
      PROVE  Prepared'
    <2>1. UNCHANGED <<jobs, cancelling, excused>>
        BY <1>6 DEF Probed, ReadRow, Claim, Verified, TaskFails, TaskCancelled, Compare, Rename,
                    Served, service, history
    <2>2. \A d \in Callers \ {c} : pc'[d] = pc[d] /\ ans'[d] = ans[d]
        BY <1>0, <1>6 DEF Probed, ReadRow, Claim, Verified, TaskFails, TaskCancelled, Compare,
                          Rename, Served, Reach, Heard, callers
    <2>3. CASE Claim(c) /\ status # 1
        <3>1. pc[c] = "claim" /\ pc'[c] = "start"
            BY <1>0, <2>3 DEF Claim, Reach
        <3>2. AtWork(c)'
            BY <3>1 DEF AtWork, Doomed, Working
        <3> QED BY <3>1, <3>2, WorkersAreViewers DEF Prepared
    <2>4. CASE ~(Claim(c) /\ status # 1)
        <3>1. status' = status
            BY <1>6, <2>4 DEF Probed, ReadRow, Claim, Verified, TaskFails, TaskCancelled, Compare,
                              Rename, Served
        <3>2. ASSUME AtWork(c) PROVE AtWork(c)'
            <4>1. Verified(c) \/ TaskFails(c) \/ Compare(c) \/ Rename(c)
                BY <1>6, <3>2 DEF Probed, ReadRow, Claim, TaskCancelled, Served, AtWork, Doomed,
                                  Working, Heard
            <4>2. pc'[c] \in {"stat", "fail", "rename", "finish"}
                BY <1>0, <4>1 DEF Verified, TaskFails, Compare, Rename, Reach
            <4> QED BY <4>2 DEF AtWork, Doomed, Working
        <3> QED BY <2>1, <2>2, <3>1, <3>2, OthersWork DEF Prepared
    <2> QED BY <2>3, <2>4
<1>7. ASSUME NEW c \in Callers, Finish(c) \/ FinishLost(c) PROVE Prepared'
    BY <1>7 DEF Finish, FinishLost, Prepared
<1>8. CASE Edit \/ Rescan \/ (\E v \in Versions : Evict(v)) \/ UNCHANGED vvars
    <2>1. UNCHANGED <<jobs, pc, ans, cancelling, excused>> /\ (status' = status \/ status' # 1)
        BY <1>8 DEF Edit, Rescan, Evict, service, callers, history, vvars
    <2> QED BY <2>1 DEF Prepared, AtWork, Doomed
<1>9. ASSUME NEW reset \in BOOLEAN, NEW swept \in BOOLEAN, Restart(reset, swept)
      PROVE  Prepared'
    <2>1. status' = (IF reset /\ status = 1 THEN 0 ELSE status) /\ excused' = (excused \/ ~reset)
        BY <1>9 DEF Restart
    <2>2. reset => status' # 1
        BY <2>1
    <2>3. ~reset => excused'
        BY <2>1, Zenon
    <2> QED BY <2>2, <2>3 DEF Prepared
<1> QED BY <1>1, <1>2, <1>3, <1>4, <1>5, <1>6, <1>7, <1>8, <1>9, <1>10 DEF VideoNext, VideoEnvironment, CallerStep

\* For all viewers, thumbnails and bounds, a row in preparing has a task.
THEOREM PreparingHasTask == VideoSpec => []PreparingIsWorkedOn
<1> DEFINE I == Typed /\ InOnePlace /\ WaitersWait /\ Prepared
<1>1. I /\ [VideoNext]_vvars => I'
    BY StepTyped, StepPlaces, StepWaits, StepPrepared
<1>2. VideoInit => I
    BY InitTyped, InitPlaces, InitWaits, InitPrepared
<1>3. I => PreparingIsWorkedOn
    BY PreparedWorks
<1> QED BY <1>1, <1>2, <1>3, PTL DEF VideoSpec

----------------------------------------------------------------------------
(* A file in the pool is whole.                                            *)

LEMMA EnqueueOf ==
    ASSUME VideoTypeOK, NEW c \in Callers, NEW k \in Keys, NEW prio, Enqueue(c, k, prio)
    PROVE  /\ \A j \in Keys : j # k => jobs'[j] = jobs[j]
           /\ jobs[k] # NoJob => /\ jobs'[k].of = jobs[k].of
                                 /\ jobs'[k].waiters = jobs[k].waiters \cup {c}
           /\ jobs[k] = NoJob => jobs'[k].of = of[c] /\ jobs'[k].waiters = {c}
<1>1. jobs \in [Keys -> Job]
    BY DEF VideoTypeOK
<1>2. CASE jobs[k] # NoJob
    <2>1. jobs' = [jobs EXCEPT ![k].waiters = @ \cup {c}]
        BY <1>2 DEF Enqueue
    <2> QED BY <1>1, <1>2, <2>1 DEF Job
<1>3. CASE jobs[k] = NoJob
    <2>1. jobs' = [jobs EXCEPT ![k] = [prio |-> prio, waiters |-> {c},
                                       cancelled |-> FALSE, of |-> of[c]]]
        BY <1>3 DEF Enqueue
    <2> QED BY <1>1, <1>3, <2>1
<1> QED BY <1>2, <1>3

LEMMA DeliverOf ==
    ASSUME VideoTypeOK, NEW k \in Keys, NEW a, Deliver(k, a)
    PROVE  /\ \A j \in Keys : jobs'[j] = IF j = k THEN NoJob ELSE jobs[j]
           /\ \A c \in Callers : ans'[c] = IF c \in jobs[k].waiters THEN a ELSE ans[c]
           /\ NoJob.of = 1 /\ NoJob.waiters = {}
BY DEF VideoTypeOK, Deliver, NoJob

\* The job of the playable key is changed only where its waiters are, unless it
\* is answered or marked.
LEMMA CancelOf ==
    ASSUME VideoTypeOK, CancelJob
    PROVE  /\ \A j \in Keys : \/ jobs'[j].of = jobs[j].of /\ jobs'[j].waiters = jobs[j].waiters
                              \/ jobs'[j].of = 1 /\ jobs'[j].waiters = {}
           /\ \A c \in Callers : ans'[c] = ans[c] \/ ans'[c] = "cancelled"
<1>1. jobs \in [Keys -> Job]
    BY DEF VideoTypeOK
<1>2. CASE Deliver("playable", "cancelled")
    BY <1>2, KeyFacts, DeliverOf
<1>3. CASE jobs' = [jobs EXCEPT !["playable"].cancelled = TRUE] /\ ans' = ans
    BY <1>1, <1>3 DEF Job
<1>4. CASE jobs' = jobs /\ ans' = ans
    BY <1>4
<1>5. \/ Deliver("playable", "cancelled")
      \/ jobs' = [jobs EXCEPT !["playable"].cancelled = TRUE] /\ ans' = ans
      \/ jobs' = jobs /\ ans' = ans
    BY DEF CancelJob, service
<1> QED BY <1>2, <1>3, <1>4, <1>5

\* The library, the tasks and the jobs know no version that is still to come.
Ages ==
    /\ known <= source /\ \A c \in Callers : of[c] <= source
    /\ \A k \in Keys : jobs[k].of <= source
    /\ driver.at = "run" /\ driver.key = "playable" =>
           jobs["playable"].of <= driver.from /\ driver.from <= source

LEMMA InitAges == VideoInit => Ages
<1> SUFFICES ASSUME VideoInit PROVE Ages
    OBVIOUS
<1>1. source = 1 /\ known = 1 /\ (\A c \in Callers : of[c] = 1) /\ \A k \in Keys : jobs[k].of = 1
    BY DEF VideoInit, NoJob
<1>2. driver.at = "idle"
    BY DEF VideoInit, Parked
<1> QED BY <1>1, <1>2 DEF Ages

LEMMA StepAges ==
    ASSUME Typed, InOnePlace, Ages, [VideoNext]_vvars
    PROVE  Ages'
<1> USE KeyFacts
<1>0. /\ VideoTypeOK /\ jobs \in [Keys -> Job] /\ driver \in Driver /\ driver.key \in Keys
      /\ driver.from \in Nat /\ of \in [Callers -> Versions]
      /\ source \in Nat /\ known \in Nat /\ \A k \in Keys : jobs[k].of \in Nat
    BY DEF Typed, VideoTypeOK, Driver, Job
<1>1. CASE Pop \/ TakeJob \/ Poll \/ StopPreempted \/ OpRetried
    <2>1. UNCHANGED <<source, known, of, jobs>>
        BY <1>1 DEF Pop, TakeJob, Poll, StopPreempted, OpRetried, files, service, callers
    <2>2. driver'.at # "run"
        <3>1. CASE Pop \/ StopPreempted
            BY <3>1 DEF Pop, StopPreempted, Driving, Taken, Parked
        <3>2. CASE TakeJob \/ Poll \/ OpRetried
            BY <3>2, <1>0 DEF TakeJob, Poll, OpRetried, Driving, Driver, Parked
        <3> QED BY <1>1, <3>1, <3>2
    <2> QED BY <2>1, <2>2 DEF Ages
<1>2. CASE BeginOp
    <2>1. UNCHANGED <<source, known, of, jobs>> /\ driver'.from = source
        BY <1>2, <1>0 DEF BeginOp, service, callers, Driving, Driver
    <2> QED BY <2>1, <1>0 DEF Ages
<1>3. CASE NoSession \/ StopCancelled \/ OpSucceeds \/ OpFails
    <2>1. UNCHANGED <<source, known, of>> /\ driver' = Parked
        BY <1>3 DEF NoSession, StopCancelled, OpSucceeds, OpFails, files, Driving
    <2>2. PICK a \in Answers : Deliver(driver.key, a)
        BY <1>3 DEF NoSession, StopCancelled, OpSucceeds, OpFails, Answers
    <2>3. \A j \in Keys : jobs'[j].of = jobs[j].of \/ jobs'[j].of = 1
        BY <2>2, <1>0, DeliverOf
    <2>4. 1 <= source
        BY <1>0 DEF VideoTypeOK, Versions
    <2> QED BY <2>1, <2>3, <2>4, DriverTyped DEF Ages
<1>4. CASE CancelJob
    <2>1. UNCHANGED <<source, known, of, driver>>
        BY <1>4 DEF CancelJob, files
    <2>2. \A j \in Keys : jobs'[j].of = jobs[j].of \/ jobs'[j].of = 1
        BY <1>0, <1>4, CancelOf
    <2>3. 1 <= source
        BY <1>0 DEF VideoTypeOK, Versions
    <2>4. ASSUME driver.at = "run", driver.key = "playable" PROVE jobs'["playable"].of <= driver.from
        <3>1. jobs["playable"].of <= driver.from /\ jobs["playable"].of >= 1
            BY <2>4, <1>0 DEF Ages, Job, Versions
        <3>2. jobs'["playable"].of \in {jobs["playable"].of, 1}
            BY <2>2
        <3> QED BY <1>0, <3>1, <3>2
    <2> QED BY <2>1, <2>2, <2>3, <2>4 DEF Ages
<1>5. ASSUME NEW c \in Callers, Resolve(c) \/ Ask(c) \/ Make(c) \/ Verify(c) PROVE Ages'
    <2>1. UNCHANGED <<source, known, driver>>
        BY <1>5 DEF Resolve, Ask, Make, Verify, files
    <2>2. \A d \in Callers : of'[d] <= source
        BY <1>5, <1>0 DEF Resolve, Ask, Make, Verify, Ages
    <2>3. PICK k \in Keys, prio \in {"interactive", "background"} : Enqueue(c, k, prio)
        BY <1>5 DEF Resolve, Ask, Make, Verify
    <2>4. \A j \in Keys : jobs'[j].of = jobs[j].of \/ (jobs[j] = NoJob /\ jobs'[j].of = of[c])
        <3>1. \A j \in Keys : j # k => jobs'[j] = jobs[j]
            BY <1>0, <2>3 DEF Enqueue
        <3>2. jobs[k] # NoJob => jobs'[k].of = jobs[k].of
            BY <1>0, <2>3, EnqueueOf
        <3>3. jobs[k] = NoJob => jobs'[k].of = of[c]
            BY <1>0, <2>3, EnqueueOf
        <3> QED BY <3>1, <3>2, <3>3
    <2>5. driver.at = "run" /\ driver.key = "playable" => jobs["playable"] # NoJob
        BY DEF InOnePlace, InHand
    <2> QED BY <2>1, <2>2, <2>4, <2>5 DEF Ages
<1>6. ASSUME NEW c \in Callers,
             \/ Probed(c) \/ ReadRow(c) \/ Claim(c) \/ Verified(c) \/ TaskFails(c) \/ TaskCancelled(c)
             \/ Compare(c) \/ Rename(c) \/ Finish(c) \/ FinishLost(c) \/ Served(c)
      PROVE  Ages'
    <2>1. UNCHANGED <<source, known, of, jobs, driver>>
        BY <1>6 DEF Probed, ReadRow, Claim, Verified, TaskFails, TaskCancelled, Compare, Rename,
                    Finish, FinishLost, Served, files, service, callers
    <2> QED BY <2>1 DEF Ages
<1>7. CASE CancelRow \/ CancelRowFails \/ (\E v \in Versions : Evict(v)) \/ UNCHANGED vvars
    <2>1. UNCHANGED <<source, known, of, jobs, driver>>
        BY <1>7 DEF CancelRow, CancelRowFails, Evict, files, service, callers, vvars
    <2> QED BY <2>1 DEF Ages
<1>8. CASE Edit \/ Rescan
    <2>1. UNCHANGED <<of, jobs, driver>> /\ source' \in {source, source + 1}
          /\ known' \in {known, source} /\ (source' = source \/ known' = known)
        BY <1>8 DEF Edit, Rescan, service, callers
    <2>2. source <= source' /\ known' <= source'
        BY <1>0, <2>1 DEF Ages
    <2>3. ASSUME NEW c \in Callers PROVE of'[c] <= source'
        <3>1. of[c] \in Nat /\ of[c] <= source
            BY <1>0 DEF Ages
        <3> QED BY <1>0, <2>1, <2>2, <3>1
    <2>4. \A k \in Keys : jobs'[k].of <= source'
        BY <1>0, <2>1, <2>2 DEF Ages
    <2> QED BY <1>0, <2>1, <2>2, <2>3, <2>4 DEF Ages
<1>9. ASSUME NEW reset \in BOOLEAN, NEW swept \in BOOLEAN, Restart(reset, swept)
      PROVE  Ages'
    <2>1. UNCHANGED <<source, known>> /\ driver' = Parked
          /\ (\A c \in Callers : of'[c] = 1) /\ \A k \in Keys : jobs'[k].of = 1
        BY <1>9 DEF Restart, NoJob
    <2>2. 1 <= source
        BY <1>0 DEF VideoTypeOK, Versions
    <2> QED BY <2>1, <2>2, DriverTyped DEF Ages
<1> QED BY <1>1, <1>2, <1>3, <1>4, <1>5, <1>6, <1>7, <1>8, <1>9
        DEF VideoNext, VideoEnvironment, CallerStep, DriverStep

\* Where a task may touch its temporary file.
Busy == {"make", "verify", "stat", "rename"}

\* One task at a time, and the jobs it waits for are for its own version.
Alone ==
    /\ \A c, d \in Viewers : pc[c] \in Busy /\ pc[d] \in Busy => c = d
    /\ \A k \in {"playable", "verify"} : \A c \in jobs[k].waiters : jobs[k].of = of[c]

NotOld(c) == of[c] <= tmp[of[c]] /\ tmp[of[c]] <= source
Usable(c) == tmp[of[c]] \in {0, Cut} \/ NotOld(c)

\* What a task knows of its temporary file, by where it is.
Own(c) ==
    /\ pc[c] = "make" /\ ans[c] = "ok" => Usable(c)
    /\ pc[c] = "verify" => Usable(c) /\ (ans[c] = "ok" => NotOld(c))
    /\ pc[c] = "stat" => NotOld(c)
    /\ pc[c] = "rename" => tmp[of[c]] = of[c]

PoolWhole == \A v \in Versions : pool[v] \in {0, v}

Sound == ~twin => Alone /\ (\A c \in Viewers : Own(c)) /\ PoolWhole

LEMMA InitSound == VideoInit => Sound
<1> SUFFICES ASSUME VideoInit PROVE Sound
    OBVIOUS
<1>1. (\A c \in Callers : pc[c] = "idle") /\ (\A k \in Keys : jobs[k].waiters = {})
      /\ \A v \in Versions : pool[v] = 0
    BY DEF VideoInit, NoJob
<1> QED BY <1>1, KeyFacts DEF Sound, Alone, Own, PoolWhole, Busy

\* While the worker makes a product, its one task waits for it.
LEMMA MakerWaits ==
    ASSUME Typed, InOnePlace, WaitersWait, Alone, InHand("playable"),
           NEW c \in Viewers, pc[c] \in Busy
    PROVE  pc[c] = "make" /\ ans[c] = "none"
<1>1. jobs["playable"] # NoJob
    BY KeyFacts DEF InOnePlace
<1>2. PICK d \in jobs["playable"].waiters : TRUE
    BY <1>1, KeyFacts DEF WaitersWait
<1>3. d \in Callers /\ pc[d] = "make" /\ ans[d] = "none"
    BY <1>2, KeyFacts, PlaceFacts DEF WaitersWait, Typed, VideoTypeOK, Job
<1>4. d \in Viewers
    BY <1>3, WorkersAreViewers
<1> QED BY <1>3, <1>4 DEF Alone, Busy

\* Whoever is elsewhere knows nothing of its file.
LEMMA OwnElsewhere ==
    ASSUME NEW c, pc[c] \notin Busy
    PROVE  Own(c)
BY DEF Own, Busy

\* A job that is answered, and not with "ok", tells its task nothing new.
LEMMA OwnStays ==
    ASSUME NEW c, Own(c), pc'[c] = pc[c], of' = of, tmp' = tmp, source' = source,
           ans'[c] = ans[c] \/ ans'[c] # "ok"
    PROVE  Own(c)'
BY DEF Own, Usable, NotOld

\* Jobs that leave the map or keep their version and their waiters.
LEMMA AloneStays ==
    ASSUME Alone, of' = of,
           \A c \in Viewers : pc'[c] \in Busy => pc[c] \in Busy,
           \A j \in Keys : \/ jobs'[j].of = jobs[j].of /\ jobs'[j].waiters = jobs[j].waiters
                           \/ jobs'[j].waiters = {}
    PROVE  Alone'
<1>1. \A c, d \in Viewers : pc'[c] \in Busy /\ pc'[d] \in Busy => c = d
    BY DEF Alone
<1>2. \A k \in {"playable", "verify"} : k \in Keys
    BY DEF Keys
<1>3. ASSUME NEW k \in {"playable", "verify"}, NEW c \in jobs'[k].waiters
      PROVE  jobs'[k].of = of'[c]
    BY <1>2, <1>3 DEF Alone
<1> QED BY <1>1, <1>3 DEF Alone, Busy

LEMMA DriverSound ==
    ASSUME Typed, InOnePlace, WaitersWait, Ages, Sound, DriverStep
    PROVE  Sound'
<1> USE KeyFacts
<1>0. /\ VideoTypeOK /\ driver.key \in Keys /\ tmp \in [Versions -> Content]
      /\ (\A k \in Keys : jobs[k] \in Job /\ jobs[k].of \in Versions) /\ source \in Nat
    BY DEF Typed, VideoTypeOK, Driver, Job, Versions
<1>1. UNCHANGED <<pc, of, source, pool, twin>>
    BY DEF DriverStep, Pop, TakeJob, BeginOp, NoSession, Poll, StopCancelled, StopPreempted,
           OpSucceeds, OpRetried, OpFails, callers, files, history
<1> SUFFICES ASSUME ~twin PROVE Alone' /\ (\A c \in Viewers : Own(c)') /\ PoolWhole'
    BY <1>1 DEF Sound
<1>2. Alone /\ (\A c \in Viewers : Own(c)) /\ PoolWhole
    BY DEF Sound
<1>3. PoolWhole'
    BY <1>1, <1>2 DEF PoolWhole
<1>4. CASE Pop \/ TakeJob \/ Poll \/ StopPreempted \/ OpRetried
    <2>1. UNCHANGED <<jobs, ans, tmp>>
        BY <1>4 DEF Pop, TakeJob, Poll, StopPreempted, OpRetried, files, service, callers
    <2>2. \A c \in Viewers : Own(c)'
        BY <1>1, <1>2, <2>1, OwnStays
    <2>3. Alone'
        BY <1>1, <1>2, <2>1 DEF Alone
    <2> QED BY <1>3, <2>2, <2>3
<1>5. CASE BeginOp
    <2>1. UNCHANGED <<jobs, ans>>
        BY <1>5 DEF BeginOp, service, callers
    <2>2. Alone'
        BY <1>1, <1>2, <2>1 DEF Alone
    <2>3. CASE driver.key # "playable"
        <3>1. tmp' = tmp
            BY <1>5, <2>3 DEF BeginOp
        <3> QED BY <1>1, <1>2, <1>3, <2>1, <2>2, <3>1, OwnStays
    <2>4. CASE driver.key = "playable"
        <3>1. InHand("playable")
            BY <1>5, <2>4 DEF BeginOp, InHand
        <3>2. ASSUME NEW c \in Viewers PROVE Own(c)'
            <4>1. pc[c] \in Busy => pc[c] = "make" /\ ans[c] = "none"
                BY <1>2, <3>1, MakerWaits
            <4> QED BY <1>1, <2>1, <4>1 DEF Own, Busy
        <3> QED BY <1>3, <2>2, <3>2
    <2> QED BY <2>3, <2>4
<1>6. ASSUME NEW a \in Answers, Deliver(driver.key, a) PROVE Alone'
    BY <1>0, <1>1, <1>2, <1>6, DeliverOf, AloneStays
<1>7. CASE NoSession \/ StopCancelled \/ OpFails
    <2>1. tmp' = tmp
        BY <1>7 DEF NoSession, StopCancelled, OpFails, files
    <2>2. PICK a \in Answers \ {"ok"} : Deliver(driver.key, a)
        BY <1>7 DEF NoSession, StopCancelled, OpFails, Answers
    <2>3. \A c \in Callers : ans'[c] = ans[c] \/ ans'[c] # "ok"
        BY <1>0, <2>2, DeliverOf
    <2>4. \A c \in Viewers : Own(c)'
        BY <1>1, <1>2, <2>1, <2>3, OwnStays
    <2> QED BY <1>3, <1>6, <2>2, <2>4
<1>8. CASE OpSucceeds
    <2>1. PICK a \in Answers :
              /\ Deliver(driver.key, a)
              /\ a = IF driver.key = "verify" /\ tmp[jobs["verify"].of] \in {0, Cut}
                     THEN "err" ELSE "ok"
        BY <1>8 DEF OpSucceeds, Answers
    <2>2. \A c \in Callers : ans'[c] = IF c \in jobs[driver.key].waiters THEN a ELSE ans[c]
        BY <1>0, <2>1, DeliverOf
    <2>3. ASSUME NEW c \in Viewers, driver.key = "playable" PROVE Own(c)'
        <3>1. InHand("playable") /\ driver.at = "run"
            BY <1>8, <2>3 DEF OpSucceeds, InHand
        <3>2. pc[c] \in Busy => pc[c] = "make" /\ ans[c] = "none"
            BY <1>2, <3>1, MakerWaits
        <3>3. CASE c \notin jobs["playable"].waiters \/ pc[c] # "make"
            BY <1>1, <2>2, <2>3, <3>2, <3>3 DEF Own, Busy
        <3>4. CASE c \in jobs["playable"].waiters /\ pc[c] = "make"
            <4>1. jobs["playable"].of = of[c] /\ of[c] \in Versions
                BY <1>0, <1>2, <3>4 DEF Alone
            <4>2. tmp'[of[c]] \in Product
                BY <1>0, <1>8, <2>3, <4>1 DEF OpSucceeds
            <4>3. tmp'[of[c]] = Cut \/ (of[c] <= tmp'[of[c]] /\ tmp'[of[c]] <= source)
                <5>1. of[c] <= driver.from /\ driver.from <= source /\ of[c] <= source
                    BY <2>3, <3>1, <4>1 DEF Ages
                <5>2. source <= source
                    BY <1>0
                <5> QED BY <4>2, <5>1, <5>2 DEF Product
            <4>4. Usable(c)'
                BY <1>1, <4>3 DEF Usable, NotOld
            <4> QED BY <1>1, <3>4, <4>4 DEF Own
        <3> QED BY <3>3, <3>4
    <2>4. ASSUME NEW c \in Viewers, driver.key # "playable" PROVE Own(c)'
        <3>1. tmp' = tmp
            BY <1>8, <2>4 DEF OpSucceeds
        <3>2. CASE c \notin jobs[driver.key].waiters
            BY <1>1, <1>2, <2>2, <3>1, <3>2, OwnStays
        <3>3. CASE c \in jobs[driver.key].waiters /\ driver.key # "verify"
            <4>1. pc[c] = PlaceOf[driver.key] /\ driver.key \in {"probe", "cover"}
                BY <1>0, <2>4, <3>3 DEF WaitersWait, Keys
            <4>2. pc'[c] \notin Busy
                BY <1>1, <4>1, PlaceFacts DEF Busy
            <4> QED BY <4>2 DEF Own, Busy
        <3>4. CASE c \in jobs[driver.key].waiters /\ driver.key = "verify"
            <4>1. pc[c] = "verify" /\ jobs["verify"].of = of[c]
                BY <1>2, <3>4, PlaceFacts DEF WaitersWait, Alone
            <4>2. Usable(c)
                BY <1>2, <4>1 DEF Own
            <4>3. ans'[c] = "ok" => NotOld(c)
                BY <2>1, <2>2, <3>4, <4>1, <4>2 DEF Usable
            <4>4. Usable(c)' /\ (ans'[c] = "ok" => NotOld(c)')
                BY <1>1, <3>1, <4>2, <4>3 DEF Usable, NotOld
            <4> QED BY <1>1, <4>1, <4>4 DEF Own
        <3> QED BY <3>2, <3>3, <3>4
    <2> QED BY <1>3, <1>6, <2>1, <2>3, <2>4
<1> QED BY <1>4, <1>5, <1>7, <1>8 DEF DriverStep

\* A task that joins the job of a key finds it empty, or joins nobody's.
LEMMA EnqueueAlone ==
    ASSUME Typed, WaitersWait, Alone, NEW c \in Callers, NEW k \in Keys, NEW prio,
           Enqueue(c, k, prio), k \in {"playable", "verify"} => jobs[k] = NoJob,
           \A d \in Callers \ {c} : of'[d] = of[d], k = "probe" \/ of' = of,
           \A j \in Keys : c \notin jobs[j].waiters,
           \A d, e \in Viewers : pc'[d] \in Busy /\ pc'[e] \in Busy => d = e
    PROVE  Alone'
<1>1. /\ VideoTypeOK /\ \A j \in Keys : jobs[j].waiters \subseteq Callers
    BY DEF Typed, VideoTypeOK, Job
<1>2. /\ \A j \in Keys : j # k => jobs'[j] = jobs[j]
      /\ jobs[k] = NoJob => jobs'[k].of = of[c] /\ jobs'[k].waiters = {c}
    BY <1>1, EnqueueOf
<1>3. ASSUME NEW j \in {"playable", "verify"}, NEW d \in jobs'[j].waiters
      PROVE  jobs'[j].of = of'[d]
    <2>1. j \in Keys
        BY DEF Keys
    <2>2. CASE j = k
        BY <1>2, <1>3, <2>2
    <2>3. CASE j # k
        <3>1. jobs'[j] = jobs[j]
            BY <1>2, <2>1, <2>3
        <3>2. d \in Callers \ {c} /\ jobs[j].of = of[d]
            BY <1>1, <1>3, <2>1, <3>1 DEF Alone
        <3> QED BY <3>1, <3>2
    <2> QED BY <2>2, <2>3
<1> QED BY <1>3 DEF Alone, Busy

LEMMA JoinSound ==
    ASSUME Typed, WaitersWait, Sound, NEW c \in Callers,
           Resolve(c) \/ Ask(c) \/ Make(c) \/ Verify(c)
    PROVE  Sound'
<1> USE KeyFacts
<1>0. /\ VideoTypeOK /\ pc \in [Callers -> CallerPlaces] /\ of \in [Callers -> Versions]
      /\ ans \in [Callers -> Answers] /\ \A j \in Keys : jobs[j].waiters \subseteq Callers
    BY DEF Typed, VideoTypeOK, Job
<1>1. UNCHANGED <<source, tmp, pool>> /\ (twin => twin')
    <2>1. UNCHANGED <<source, tmp, pool>>
        BY DEF Resolve, Ask, Make, Verify, files
    <2>2. Resolve(c) \/ Ask(c) \/ Verify(c) => twin' = twin
        BY DEF Resolve, Ask, Verify, history
    <2>3. Make(c) => (twin => twin')
        BY Zenon DEF Make
    <2> QED BY <2>1, <2>2, <2>3
<1> SUFFICES ASSUME ~twin' PROVE Alone' /\ (\A d \in Viewers : Own(d)') /\ PoolWhole'
    BY DEF Sound
<1>2. Alone /\ (\A d \in Viewers : Own(d)) /\ PoolWhole
    BY <1>1 DEF Sound
<1>3. PoolWhole'
    BY <1>1, <1>2 DEF PoolWhole
<1>4. /\ \A d \in Callers \ {c} : pc'[d] = pc[d] /\ ans'[d] = ans[d] /\ of'[d] = of[d]
      /\ \A j \in Keys : c \notin jobs[j].waiters
    <2>1. \A d \in Callers \ {c} : pc'[d] = pc[d] /\ ans'[d] = ans[d] /\ of'[d] = of[d]
        BY <1>0 DEF Resolve, Ask, Make, Verify, Reach, Heard
    <2>2. pc[c] \in {"idle", "start"} \/ ans[c] # "none"
        BY DEF Resolve, Ask, Make, Verify, Heard
    <2>3. \A j \in Keys : c \notin jobs[j].waiters
        BY <2>2, PlaceFacts DEF WaitersWait, WaitingPlaces
    <2> QED BY <2>1, <2>3
<1>5. ASSUME NEW d \in Viewers, d # c PROVE Own(d)'
    BY <1>1, <1>2, <1>4, <1>5 DEF Own, Usable, NotOld
<1>6. CASE Resolve(c) \/ Ask(c)
    <2>1. pc'[c] \in {"probe", "ask"}
        BY <1>0, <1>6 DEF Resolve, Ask, Reach
    <2>2. Own(c)'
        BY <2>1 DEF Own
    <2>3. \A d, e \in Viewers : pc'[d] \in Busy /\ pc'[e] \in Busy => d = e
        BY <1>2, <1>4, <2>1 DEF Alone, Busy
    <2>4. CASE Resolve(c)
        <3>1. Enqueue(c, "probe", "interactive")
            BY <2>4 DEF Resolve
        <3>2. Alone'
            BY <1>2, <1>4, <2>3, <3>1, EnqueueAlone
        <3> QED BY <1>3, <1>5, <2>2, <3>2
    <2>5. CASE Ask(c)
        <3>1. Enqueue(c, "cover", "background") /\ of' = of
            BY <2>5 DEF Ask
        <3>2. Alone'
            BY <1>2, <1>4, <2>3, <3>1, EnqueueAlone
        <3> QED BY <1>3, <1>5, <2>2, <3>2
    <2> QED BY <1>6, <2>4, <2>5
<1>7. CASE Make(c)
    <2>1. /\ pc[c] = "start" /\ pc'[c] = "make" /\ ans'[c] = "none" /\ of' = of
          /\ Enqueue(c, "playable", "interactive") /\ c \in Viewers
          /\ \A d \in Viewers \ {c} : pc[d] \notin Busy
        <3>1. pc[c] = "start" /\ of' = of /\ ans' = ans /\ Enqueue(c, "playable", "interactive")
              /\ pc' = [pc EXCEPT ![c] = "make"]
            BY <1>7 DEF Make, Reach
        <3>2. c \in Viewers /\ ans[c] = "none"
            BY <3>1 DEF WaitersWait, WaitingPlaces, Callers
        <3>3. \A d \in Viewers \ {c} : pc[d] \notin Busy
            BY <1>7 DEF Make, Busy
        <3> QED BY <1>0, <3>1, <3>2, <3>3
    <2>2. Own(c)'
        BY <2>1 DEF Own
    <2>3. \A d, e \in Viewers : pc'[d] \in Busy /\ pc'[e] \in Busy => d = e
        BY <1>4, <2>1
    <2>4. jobs["playable"] = NoJob
        <3>1. SUFFICES ASSUME jobs["playable"] # NoJob PROVE FALSE
            OBVIOUS
        <3>2. PICK d \in jobs["playable"].waiters : TRUE
            BY <3>1 DEF WaitersWait
        <3>3. d \in Callers /\ pc[d] = "make"
            BY <1>0, <3>2, PlaceFacts DEF WaitersWait
        <3>4. d \in Viewers \ {c}
            BY <2>1, <3>3, WorkersAreViewers
        <3> QED BY <2>1, <3>3, <3>4 DEF Busy
    <2>5. Alone'
        BY <1>2, <1>4, <2>1, <2>3, <2>4, EnqueueAlone
    <2> QED BY <1>3, <1>5, <2>2, <2>5
<1>8. CASE Verify(c)
    <2>1. /\ pc[c] = "make" /\ ans[c] = "ok" /\ pc'[c] = "verify" /\ ans'[c] = "none" /\ of' = of
          /\ Enqueue(c, "verify", "interactive")
        BY <1>0, <1>8 DEF Verify, Heard, Reach, Answers
    <2>2. c \in Viewers
        BY <2>1, WorkersAreViewers
    <2>3. Own(c)'
        <3>1. Usable(c)
            BY <1>2, <2>1, <2>2 DEF Own
        <3>2. Usable(c)'
            BY <1>1, <2>1, <3>1 DEF Usable, NotOld
        <3> QED BY <2>1, <3>2 DEF Own
    <2>4. \A d, e \in Viewers : pc'[d] \in Busy /\ pc'[e] \in Busy => d = e
        BY <1>2, <1>4, <2>1 DEF Alone, Busy
    <2>5. jobs["verify"] = NoJob
        <3>1. SUFFICES ASSUME jobs["verify"] # NoJob PROVE FALSE
            OBVIOUS
        <3>2. PICK d \in jobs["verify"].waiters : TRUE
            BY <3>1 DEF WaitersWait
        <3>3. d \in Callers /\ pc[d] = "verify"
            BY <1>0, <3>2, PlaceFacts DEF WaitersWait
        <3>4. d \in Viewers
            BY <3>3, WorkersAreViewers
        <3>5. d = c
            BY <1>2, <2>1, <2>2, <3>3, <3>4 DEF Alone, Busy
        <3> QED BY <2>1, <3>3, <3>5
    <2>6. Alone'
        BY <1>2, <1>4, <2>1, <2>4, <2>5, EnqueueAlone
    <2> QED BY <1>3, <1>5, <2>3, <2>6
<1> QED BY <1>6, <1>7, <1>8

\* A task moves on by itself.
LEMMA MoveSound ==
    ASSUME Typed, WaitersWait, Ages, Sound, NEW c \in Callers,
           \/ Probed(c) \/ ReadRow(c) \/ Claim(c) \/ Verified(c) \/ TaskFails(c) \/ TaskCancelled(c)
           \/ Compare(c) \/ Rename(c) \/ Finish(c) \/ FinishLost(c) \/ Served(c)
    PROVE  Sound'
<1> USE KeyFacts
<1>0. /\ VideoTypeOK /\ pc \in [Callers -> CallerPlaces] /\ of \in [Callers -> Versions]
      /\ ans \in [Callers -> Answers] /\ tmp \in [Versions -> Content]
      /\ pool \in [Versions -> Content] /\ source \in Nat
    BY DEF Typed, VideoTypeOK, Versions
<1>1. /\ UNCHANGED <<source, twin, jobs, of>>
      /\ \A d \in Callers \ {c} : pc'[d] = pc[d] /\ ans'[d] = ans[d]
    <2>1. UNCHANGED <<source, twin, jobs, of>>
        BY DEF Probed, ReadRow, Claim, Verified, TaskFails, TaskCancelled, Compare, Rename, Finish,
               FinishLost, Served, files, history, service, callers
    <2>2. \A d \in Callers \ {c} : pc'[d] = pc[d] /\ ans'[d] = ans[d]
        BY <1>0 DEF Probed, ReadRow, Claim, Verified, TaskFails, TaskCancelled, Compare, Rename,
                    Finish, FinishLost, Served, Reach, Heard, callers
    <2> QED BY <2>1, <2>2
<1> SUFFICES ASSUME ~twin PROVE Alone' /\ (\A d \in Viewers : Own(d)') /\ PoolWhole'
    BY <1>1 DEF Sound
<1>2. Alone /\ (\A d \in Viewers : Own(d)) /\ PoolWhole
    BY DEF Sound
<1>3. ASSUME pc'[c] \in Busy => pc[c] \in Busy PROVE Alone'
    <2>1. \A d \in Viewers : pc'[d] \in Busy => pc[d] \in Busy
        BY <1>1, <1>3
    <2> QED BY <1>1, <1>2, <2>1, AloneStays
<1>4. CASE Probed(c) \/ ReadRow(c) \/ Claim(c) \/ Finish(c) \/ FinishLost(c) \/ Served(c)
    <2>1. UNCHANGED <<tmp, pool>>
        BY <1>4 DEF Probed, ReadRow, Claim, Finish, FinishLost, Served, files
    <2>2. pc'[c] \in {"idle", "read", "claim", "start"}
        BY <1>0, <1>4 DEF Probed, ReadRow, Claim, Finish, FinishLost, Served, Reach
    <2>3. Own(c)' /\ Alone'
        BY <1>3, <2>2 DEF Own, Busy
    <2>4. ASSUME NEW d \in Viewers, d # c PROVE Own(d)'
        BY <1>1, <1>2, <2>1, <2>4 DEF Own, Usable, NotOld
    <2> QED BY <1>2, <2>1, <2>3, <2>4 DEF PoolWhole
<1>5. CASE Verified(c)
    <2>1. UNCHANGED <<tmp, pool>> /\ pc[c] = "verify" /\ ans[c] = "ok" /\ pc'[c] = "stat"
        BY <1>0, <1>5 DEF Verified, files, Heard, Reach
    <2>2. c \in Viewers
        BY <2>1, WorkersAreViewers
    <2>3. NotOld(c)'
        BY <1>1, <1>2, <2>1, <2>2 DEF Own, NotOld
    <2>4. Own(c)' /\ Alone'
        BY <1>3, <2>1, <2>3 DEF Own, Busy
    <2>5. ASSUME NEW d \in Viewers, d # c PROVE Own(d)'
        BY <1>1, <1>2, <2>1, <2>5 DEF Own, Usable, NotOld
    <2> QED BY <1>2, <2>1, <2>4, <2>5 DEF PoolWhole
<1>6. CASE TaskFails(c) \/ TaskCancelled(c) \/ Compare(c) \/ Rename(c)
    <2>1. pc[c] \in Busy /\ pc'[c] \in {"fail", "idle", "rename", "finish"}
        BY <1>0, <1>6 DEF TaskFails, TaskCancelled, Compare, Rename, Reach, Busy
    <2>2. c \in Viewers
        BY <2>1, WorkersAreViewers DEF Busy
    <2>3. Alone'
        BY <1>3, <2>1
    <2>4. ASSUME NEW d \in Viewers, d # c PROVE Own(d)'
        <3>1. pc'[d] \notin Busy
            BY <1>1, <1>2, <2>1, <2>2, <2>4 DEF Alone
        <3> QED BY <3>1 DEF Own, Busy
    <2>5. Own(c)'
        <3>1. CASE pc'[c] # "rename"
            BY <2>1, <3>1 DEF Own
        <3>2. CASE pc'[c] = "rename"
            <4>1. Compare(c) /\ pc[c] = "stat" /\ source = of[c] /\ tmp' = tmp
                BY <1>0, <1>6, <3>2 DEF TaskFails, TaskCancelled, Compare, Rename, Reach
            <4>2. NotOld(c) /\ of[c] \in Versions /\ tmp[of[c]] \in Content
                BY <1>0, <1>2, <2>2, <4>1 DEF Own
            <4>3. tmp[of[c]] = of[c]
                BY <4>1, <4>2 DEF NotOld, Content, Cut, Versions
            <4> QED BY <1>1, <3>2, <4>1, <4>3 DEF Own
        <3> QED BY <3>1, <3>2
    <2>6. PoolWhole'
        <3>1. CASE pool' = pool
            BY <1>2, <3>1 DEF PoolWhole
        <3>2. CASE pool' # pool
            <4>1. pc[c] = "rename" /\ pool' = [pool EXCEPT ![of[c]] = tmp[of[c]]]
                BY <1>6, <3>2 DEF TaskFails, TaskCancelled, Compare, Rename, files
            <4>2. tmp[of[c]] = of[c]
                BY <1>2, <2>2, <4>1 DEF Own
            <4> QED BY <1>0, <1>2, <4>1, <4>2 DEF PoolWhole
        <3> QED BY <3>1, <3>2
    <2> QED BY <2>3, <2>4, <2>5, <2>6
<1> QED BY <1>4, <1>5, <1>6

LEMMA StepSound ==
    ASSUME Typed, InOnePlace, WaitersWait, Ages, Sound, [VideoNext]_vvars
    PROVE  Sound'
<1> USE KeyFacts
<1>0. /\ VideoTypeOK /\ source \in Nat /\ tmp \in [Versions -> Content]
      /\ pool \in [Versions -> Content] /\ of \in [Callers -> Versions]
    BY DEF Typed, VideoTypeOK, Versions
<1>1. CASE DriverStep
    BY <1>1, DriverSound
<1>2. ASSUME NEW c \in Callers, Resolve(c) \/ Ask(c) \/ Make(c) \/ Verify(c) PROVE Sound'
    BY <1>2, JoinSound
<1>3. ASSUME NEW c \in Callers,
             \/ Probed(c) \/ ReadRow(c) \/ Claim(c) \/ Verified(c) \/ TaskFails(c) \/ TaskCancelled(c)
             \/ Compare(c) \/ Rename(c) \/ Finish(c) \/ FinishLost(c) \/ Served(c)
      PROVE  Sound'
    BY <1>3, MoveSound
<1>4. CASE CancelJob
    <2>1. UNCHANGED <<pc, of, source, tmp, pool, twin>>
        BY <1>4 DEF CancelJob, files, history
    <2>2. ASSUME Alone PROVE Alone'
        BY <1>0, <1>4, <2>1, <2>2, CancelOf, AloneStays
    <2>3. ASSUME NEW c \in Viewers, Own(c) PROVE Own(c)'
        <3>1. ans'[c] = ans[c] \/ ans'[c] # "ok"
            BY <1>0, <1>4, CancelOf
        <3> QED BY <2>1, <2>3, <3>1, OwnStays
    <2> QED BY <2>1, <2>2, <2>3 DEF Sound, PoolWhole
<1>5. CASE CancelRow \/ CancelRowFails \/ Rescan \/ UNCHANGED vvars
    <2>1. UNCHANGED <<pc, of, ans, jobs, source, tmp, pool, twin>>
        BY <1>5 DEF CancelRow, CancelRowFails, Rescan, files, service, callers, history, vvars
    <2> QED BY <2>1 DEF Sound, Alone, Own, Usable, NotOld, PoolWhole
<1>6. CASE Edit
    <2>1. UNCHANGED <<pc, of, ans, jobs, tmp, pool, twin>> /\ source' = source + 1
        BY <1>6 DEF Edit, service, callers, history
    <2>2. ASSUME NEW c \in Callers, NotOld(c) PROVE NotOld(c)'
        <3>1. tmp[of[c]] \in Int /\ of[c] <= tmp[of[c]] /\ tmp[of[c]] <= source
            BY <1>0, <2>2 DEF NotOld, Content, Cut, Versions
        <3>2. tmp[of[c]] <= source + 1
            BY <1>0, <3>1
        <3> QED BY <2>1, <3>1, <3>2 DEF NotOld
    <2>3. ASSUME NEW c \in Viewers, Own(c) PROVE Own(c)'
        BY <2>1, <2>2, <2>3 DEF Own, Usable
    <2> QED BY <2>1, <2>3 DEF Sound, Alone, PoolWhole
<1>7. ASSUME NEW v \in Versions, Evict(v) PROVE Sound'
    <2>1. UNCHANGED <<pc, of, ans, jobs, source, tmp, twin>> /\ pool' = [pool EXCEPT ![v] = 0]
        BY <1>7 DEF Evict, service, callers, history
    <2>2. PoolWhole => PoolWhole'
        BY <1>0, <2>1 DEF PoolWhole
    <2> QED BY <2>1, <2>2 DEF Sound, Alone, Own, Usable, NotOld
<1>8. ASSUME NEW reset \in BOOLEAN, NEW swept \in BOOLEAN, Restart(reset, swept)
      PROVE  Sound'
    <2>1. /\ UNCHANGED <<pool, twin>> /\ (\A c \in Callers : pc'[c] = "idle")
          /\ \A k \in Keys : jobs'[k].waiters = {}
        BY <1>8 DEF Restart, NoJob
    <2>2. Alone' /\ \A c \in Viewers : Own(c)'
        BY <2>1 DEF Alone, Own, Busy
    <2> QED BY <2>1, <2>2 DEF Sound, PoolWhole
<1> QED BY <1>1, <1>2, <1>3, <1>4, <1>5, <1>6, <1>7, <1>8 DEF VideoNext, VideoEnvironment, CallerStep

\* For all viewers, thumbnails and bounds, what is in the pool is whole and
\* current unless two tasks have been at work at once.
THEOREM PoolIsWhole == VideoSpec => []ProductIsWhole
<1> DEFINE I == Typed /\ InOnePlace /\ WaitersWait /\ Ages /\ Sound
<1>1. I /\ [VideoNext]_vvars => I'
    BY StepTyped, StepPlaces, StepWaits, StepAges, StepSound
<1>2. VideoInit => I
    BY InitTyped, InitPlaces, InitWaits, InitAges, InitSound
<1>3. I => ProductIsWhole
    BY DEF Sound, PoolWhole, ProductIsWhole
<1> QED BY <1>1, <1>2, <1>3, PTL DEF VideoSpec
=============================================================================
