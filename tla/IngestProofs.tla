---------------------------- MODULE IngestProofs ----------------------------
(* Theorems about Ingest, for any clients, messages, workers and queue. *)
EXTENDS Ingest, TLAPS

(***************************************************************************)
(* What a queue and a list of events contain.                              *)
(***************************************************************************)
LEMMA AppendSet ==
  ASSUME NEW S, NEW s \in Seq(S), NEW e \in S
  PROVE  /\ ToSet(Append(s, e)) = ToSet(s) \cup {e}
         /\ Len(Append(s, e)) = Len(s) + 1
         /\ \A i \in 1..Len(s) : Append(s, e)[i] = s[i]
         /\ Append(s, e)[Len(s) + 1] = e
  BY DEF ToSet

LEMMA TailSet ==
  ASSUME NEW S, NEW s \in Seq(S), s # <<>>
  PROVE  /\ Head(s) \in S /\ Tail(s) \in Seq(S)
         /\ Head(s) = s[1] /\ 1 \in DOMAIN s
         /\ Len(Tail(s)) = Len(s) - 1
         /\ \A i \in DOMAIN Tail(s) : i + 1 \in DOMAIN s /\ Tail(s)[i] = s[i + 1]
         /\ ToSet(s) = ToSet(Tail(s)) \cup {Head(s)}
<1>1. /\ Head(s) \in S /\ Tail(s) \in Seq(S)
      /\ Head(s) = s[1] /\ 1 \in DOMAIN s
      /\ Len(Tail(s)) = Len(s) - 1
      /\ \A i \in DOMAIN Tail(s) : i + 1 \in DOMAIN s /\ Tail(s)[i] = s[i + 1]
  OBVIOUS
<1>2. ToSet(Tail(s)) \cup {Head(s)} \subseteq ToSet(s)
  BY <1>1 DEF ToSet
<1>3. ASSUME NEW i \in DOMAIN s PROVE s[i] \in ToSet(Tail(s)) \cup {Head(s)}
  <2>1. CASE i = 1
    BY <1>1, <2>1
  <2>2. CASE i # 1
    <3>1. i - 1 \in DOMAIN Tail(s) /\ s[i] = Tail(s)[i - 1]
      BY <2>2
    <3> QED
      BY <3>1 DEF ToSet
  <2> QED
    BY <2>1, <2>2
<1>4. ToSet(s) \subseteq ToSet(Tail(s)) \cup {Head(s)}
  BY <1>3 DEF ToSet
<1> QED
  BY <1>1, <1>2, <1>4

(* What NotifySender changes: what the sender was told about one message. *)
LEMMA NotifyEffect ==
  ASSUME events \in [Messages -> Seq(Event)],
         NEW m \in Messages, NEW e \in Event, NotifySender(m, e)
  PROVE  /\ events' \in [Messages -> Seq(Event)]
         /\ \A k \in Messages : k # m \/ e # "notstored" => (Told(k)' <=> Told(k))
         /\ e = "notstored" /\ ~done => Told(m)'
<1>1. CASE events' = [events EXCEPT ![m] = Append(@, e)]
  <2>1. events' \in [Messages -> Seq(Event)]
    BY <1>1
  <2>2. events'[m] = Append(events[m], e)
        /\ \A k \in Messages : k # m => events'[k] = events[k]
    BY <1>1
  <2>3. ToSet(events'[m]) = ToSet(events[m]) \cup {e}
    BY <2>2, AppendSet
  <2> QED
    BY <2>1, <2>2, <2>3 DEF Told
<1>2. CASE done /\ UNCHANGED events
  BY <1>2 DEF Told
<1> QED
  BY <1>1, <1>2 DEF NotifySender

-----------------------------------------------------------------------------
(***************************************************************************)
(* Types.                                                                  *)
(***************************************************************************)
LEMMA TypeInit == ASSUME Init PROVE TypeOK
<1>1. /\ <<>> \in Seq(Messages) /\ <<>> \in Seq(Event) /\ Len(<<>>) <= QueueCap
      /\ 0 \in 0..MaxFailures
  BY IngestAssumption DEF IngestAssumption
<1>2. queue \in Seq(Messages) /\ Len(queue) <= QueueCap /\ failures \in 0..MaxFailures
      /\ done \in BOOLEAN /\ {store, delivered, accepted, confirmed} \subseteq SUBSET Messages
  BY <1>1 DEF Init
<1>3. /\ handler \in [Clients -> HandlerState] /\ worker \in [Workers -> WorkerState]
      /\ current \in [Clients -> Messages \cup {None}]
      /\ job \in [Workers -> Messages \cup {None}]
      /\ events \in [Messages -> Seq(Event)] /\ saves \in [Messages -> Nat]
  BY <1>1 DEF Init, HandlerState, WorkerState
<1> QED
  BY <1>2, <1>3 DEF TypeOK

LEMMA QueueType ==
  ASSUME TypeOK, NEW m \in Messages, Len(queue) < QueueCap, queue' = Append(queue, m)
  PROVE  queue' \in Seq(Messages) /\ Len(queue') <= QueueCap
  BY IngestAssumption, AppendSet DEF IngestAssumption, TypeOK

-----------------------------------------------------------------------------
(* A handler that is past the checks has a message, a worker that saves has
   one, and they are only where they are at work on it.                     *)
Placed ==
  /\ \A c \in Clients :
       /\ current[c] # None <=> handler[c] \notin {"reading", "stopped"}
       /\ current[c] # None => SenderOf[current[c]] = c /\ current[c] \in accepted
  /\ \A w \in Workers :
       /\ job[w] # None <=> worker[w] \in {"saving", "notify"}
       /\ \A v \in Workers : job[v] = job[w] /\ job[w] # None => v = w
  /\ \A i, j \in DOMAIN queue : queue[i] = queue[j] => i = j

(* Where a message may be decides what has been done with it. *)
Life(m) ==
  /\ saves[m] <= 1
  /\ Handing(m) => saves[m] = 0 /\ ~Told(m) /\ ~Queued(m)
  /\ Queued(m)  => saves[m] = 0 /\ ~Told(m)
  /\ Held(m)    => saves[m] = 1 /\ ~Told(m) /\ m \notin confirmed
  /\ m \in confirmed => saves[m] = 1 /\ ~Told(m)
  /\ Queued(m) \/ Told(m) \/ saves[m] = 1 => m \in accepted
  /\ ~done /\ m \in accepted =>
       Handing(m) \/ Queued(m) \/ Held(m) \/ m \in confirmed \/ Told(m)

IngestInv == Placed /\ \A m \in Messages : Life(m)

LEMMA CurrentType ==
  ASSUME TypeOK, Placed, NEW c \in Clients, handler[c] \notin {"reading", "stopped"}
  PROVE  current[c] \in Messages /\ \A d \in Clients : current[d] = current[c] => d = c
  BY IngestAssumption DEF IngestAssumption, TypeOK, Placed

LEMMA JobType ==
  ASSUME TypeOK, Placed, NEW w \in Workers, worker[w] \in {"saving", "notify"}
  PROVE  job[w] \in Messages /\ \A v \in Workers : job[v] = job[w] => v = w
  BY DEF TypeOK, Placed

LEMMA TypeNext == TypeOK /\ Placed /\ [Next]_vars => TypeOK'
<1> SUFFICES ASSUME TypeOK, Placed, [Next]_vars PROVE TypeOK'
  OBVIOUS
<1> USE DEF TypeOK, HandlerState, WorkerState, workerVars, Goto
<1>1. ASSUME NEW c \in Clients, Handler(c) PROVE TypeOK'
  <2>1. CASE \E m \in Messages : Accept(c, m)
    BY <2>1 DEF Accept
  <2>2. ASSUME Enqueue(c) \/ WaitEnqueue(c) PROVE TypeOK'
    <3>1. current[c] \in Messages
      BY <2>2, CurrentType DEF Enqueue, WaitEnqueue
    <3>2. queue' \in Seq(Messages) /\ Len(queue') <= QueueCap
      BY <2>2, <3>1, QueueType DEF Enqueue, WaitEnqueue
    <3> QED
      BY <2>2, <3>2 DEF Enqueue, WaitEnqueue
  <2>3. CASE QueueFull(c) \/ WaitStop(c)
    BY <2>3 DEF QueueFull, WaitStop
  <2>4. ASSUME WaitTimeout(c) \/ Acknowledge(c) PROVE TypeOK'
    <3>1. current[c] \in Messages
      BY <2>4, CurrentType DEF WaitTimeout, Acknowledge
    <3>2. events' \in [Messages -> Seq(Event)]
      BY <2>4, <3>1, NotifyEffect DEF WaitTimeout, Acknowledge, Event
    <3> QED
      BY <2>4, <3>2 DEF WaitTimeout, Acknowledge
  <2>5. ASSUME Send(c) PROVE TypeOK'
    <3>1. current[c] \in Messages
      BY <2>5, CurrentType DEF Send
    <3>2. events' \in [Messages -> Seq(Event)]
      BY <2>5, <3>1, NotifyEffect DEF Send, Event
    <3> QED
      BY <2>5, <3>1, <3>2 DEF Send
  <2> QED
    BY <1>1, <2>1, <2>2, <2>3, <2>4, <2>5 DEF Handler
<1>2. ASSUME NEW w \in Workers, Worker(w) PROVE TypeOK'
  <2>1. ASSUME Take(w) PROVE TypeOK'
    <3>1. Head(queue) \in Messages /\ Tail(queue) \in Seq(Messages)
          /\ Len(Tail(queue)) <= QueueCap
      BY <2>1, TailSet, IngestAssumption DEF Take, IngestAssumption
    <3> QED
      BY <2>1, <3>1 DEF Take
  <2>2. ASSUME SaveOk(w) \/ SaveFails(w) PROVE TypeOK'
    <3>1. job[w] \in Messages
      BY <2>2, JobType DEF SaveOk, SaveFails
    <3>2. CASE SaveOk(w)
      BY <3>1, <3>2 DEF SaveOk
    <3>3. CASE SaveFails(w)
      <4>1. failures' \in 0..MaxFailures
        BY <3>3, IngestAssumption DEF SaveFails, IngestAssumption
      <4> QED
        BY <3>1, <3>3, <4>1 DEF SaveFails
    <3> QED
      BY <2>2, <3>2, <3>3
  <2>3. ASSUME Notify(w) PROVE TypeOK'
    <3>1. job[w] \in Messages
      BY <2>3, JobType DEF Notify
    <3>2. events' \in [Messages -> Seq(Event)]
      BY <2>3, <3>1, NotifyEffect DEF Notify, Event
    <3> QED
      BY <2>3, <3>2 DEF Notify
  <2>4. CASE WorkerStops(w)
    BY <2>4 DEF WorkerStops
  <2> QED
    BY <1>2, <2>1, <2>2, <2>3, <2>4 DEF Worker
<1>3. CASE Stop
  BY <1>3 DEF Stop
<1>4. CASE Terminated \/ UNCHANGED vars
  BY <1>4 DEF Terminated, vars
<1> QED
  BY <1>1, <1>2, <1>3, <1>4 DEF Next

-----------------------------------------------------------------------------
(***************************************************************************)
(* The inductive invariant.                                                *)
(***************************************************************************)
LEMMA InvInit == ASSUME Init PROVE IngestInv
<1>1. Placed
  BY DEF Init, Placed
<1>2. ASSUME NEW m \in Messages PROVE Life(m)
  <2>1. ~Queued(m) /\ ~Told(m)
    BY DEF Init, Queued, Told, ToSet
  <2>2. ~Handing(m) /\ ~Held(m)
    BY IngestAssumption DEF Init, Handing, Held, IngestAssumption
  <2> QED
    BY <2>1, <2>2 DEF Init, Life
<1> QED
  BY <1>1, <1>2 DEF IngestInv

(* A message that nothing happens to stays where it is. *)
LEMMA SameLife ==
  ASSUME NEW k, Life(k), saves'[k] = saves[k], done => done',
         Handing(k)' <=> Handing(k), Queued(k)' <=> Queued(k),
         Held(k)' <=> Held(k), Told(k)' <=> Told(k),
         k \in confirmed' <=> k \in confirmed, k \in accepted' <=> k \in accepted
  PROVE  Life(k)'
  BY DEF Life

(* The steps of a handler that queue no message. *)
LEMMA InvHandler ==
  ASSUME TypeOK, IngestInv, NEW c \in Clients,
         \/ \E m \in Messages : Accept(c, m)
         \/ QueueFull(c) \/ WaitStop(c) \/ WaitTimeout(c) \/ Acknowledge(c) \/ Send(c)
  PROVE  IngestInv'
<1> USE DEF workerVars, Goto
<1>1. Placed /\ \A k \in Messages : Life(k)
  BY DEF IngestInv
<1>2. /\ UNCHANGED <<done, queue, worker, job, saves, confirmed>>
      /\ \A k \in Messages : (Queued(k)' <=> Queued(k)) /\ (Held(k)' <=> Held(k))
  BY DEF Accept, QueueFull, WaitStop, WaitTimeout, Acknowledge, Send, Queued, Held
<1>3. ASSUME NEW m \in Messages, Accept(c, m) PROVE IngestInv'
  <2>1. /\ current[c] = None /\ m # None
        /\ \A d \in Clients : current'[d] = IF d = c THEN m ELSE current[d]
        /\ \A d \in Clients : handler'[d] = IF d = c THEN "persist" ELSE handler[d]
    BY <1>1, <1>3, IngestAssumption DEF Accept, TypeOK, Placed, IngestAssumption
  <2>2. Placed'
    BY <1>1, <1>2, <1>3, <2>1 DEF Accept, Placed
  <2>3. ASSUME NEW k \in Messages PROVE Life(k)'
    <3>1. /\ Handing(k)' <=> Handing(k) \/ k = m
          /\ Told(k)' <=> Told(k)
          /\ k \in accepted' <=> k \in accepted \/ k = m
      BY <1>3, <2>1 DEF Accept, Handing, Told
    <3>2. ASSUME k = m PROVE ~Queued(k) /\ ~Told(k) /\ saves[k] = 0 /\ ~Held(k)
      <4>1. m \notin accepted /\ saves[m] \in Nat
        BY <1>3 DEF Accept, TypeOK
      <4> QED
        BY <1>1, <3>2, <4>1 DEF Life
    <3> QED
      BY <1>1, <1>2, <3>1, <3>2 DEF Life
  <2> QED
    BY <2>2, <2>3 DEF IngestInv
<1>4. ASSUME QueueFull(c) PROVE IngestInv'
  <2>1. Placed'
    BY <1>1, <1>2, <1>4 DEF QueueFull, TypeOK, Placed
  <2>2. ASSUME NEW k \in Messages PROVE Life(k)'
    <3>1. (Handing(k)' <=> Handing(k)) /\ (Told(k)' <=> Told(k))
      BY <1>4 DEF QueueFull, TypeOK, Handing, Told
    <3> QED
      BY <1>1, <1>2, <1>4, <3>1, SameLife DEF QueueFull
  <2> QED
    BY <2>1, <2>2 DEF IngestInv
<1>5. ASSUME WaitStop(c) \/ WaitTimeout(c) PROVE IngestInv'
  <2> DEFINE m == current[c]
  <2>1. /\ m \in Messages /\ m \in accepted
        /\ \A d \in Clients : current[d] = m => d = c
    BY <1>1, <1>5, CurrentType, IngestAssumption
       DEF WaitStop, WaitTimeout, Placed, IngestAssumption
  <2>2. Placed'
    BY <1>1, <1>2, <1>5 DEF WaitStop, WaitTimeout, TypeOK, Placed
  <2>3. ASSUME NEW k \in Messages PROVE Life(k)'
    <3>1. /\ Handing(k)' <=> Handing(k) /\ k # m
          /\ k = m => Handing(k)
          /\ k \in accepted' <=> k \in accepted
      BY <1>5, <2>1 DEF WaitStop, WaitTimeout, TypeOK, Handing
    <3>2. /\ k # m => (Told(k)' <=> Told(k))
          /\ k = m /\ ~done => Told(k)'
      <4>1. CASE WaitStop(c)
        BY <4>1 DEF WaitStop, Told
      <4>2. CASE WaitTimeout(c)
        BY <2>1, <4>2, NotifyEffect DEF WaitTimeout, TypeOK, Event
      <4> QED
        BY <1>5, <4>1, <4>2
    <3> QED
      BY <1>1, <1>2, <2>1, <3>1, <3>2 DEF Life
  <2> QED
    BY <2>2, <2>3 DEF IngestInv
<1>6. ASSUME Acknowledge(c) \/ Send(c) PROVE IngestInv'
  <2>1. /\ current[c] \in Messages
        /\ handler[c] \in {"ack", "route"}
        /\ \A d \in Clients \ {c} : current'[d] = current[d] /\ handler'[d] = handler[d]
        /\ \/ current'[c] = current[c] /\ handler'[c] = "route"
           \/ current'[c] = None /\ handler'[c] \in {"reading", "stopped"}
    BY <1>1, <1>6, CurrentType DEF Acknowledge, Send, TypeOK
  <2>2. Placed'
    BY <1>1, <1>2, <1>6, <2>1 DEF Acknowledge, Send, Placed
  <2>3. ASSUME NEW k \in Messages PROVE Life(k)'
    <3>1. Handing(k)' <=> Handing(k)
      BY <2>1 DEF Handing
    <3>2. Told(k)' <=> Told(k)
      BY <1>6, <2>1, NotifyEffect DEF Acknowledge, Send, TypeOK, Event
    <3> QED
      BY <1>1, <1>2, <1>6, <3>1, <3>2, SameLife DEF Acknowledge, Send
  <2> QED
    BY <2>2, <2>3 DEF IngestInv
<1> QED
  BY <1>3, <1>4, <1>5, <1>6

(* Persist queues the message, at once or after it has waited. *)
LEMMA InvEnqueue ==
  ASSUME TypeOK, IngestInv, NEW c \in Clients, Enqueue(c) \/ WaitEnqueue(c)
  PROVE  IngestInv'
<1> USE DEF workerVars, Goto
<1> DEFINE m == current[c]
<1>1. Placed /\ \A k \in Messages : Life(k)
  BY DEF IngestInv
<1>2. /\ m \in Messages /\ Handing(m)
      /\ \A d \in Clients : current[d] = m => d = c
  BY <1>1, CurrentType DEF Enqueue, WaitEnqueue, Handing
<1>3. /\ UNCHANGED <<done, current, worker, job, events, saves, confirmed, accepted>>
      /\ queue' = Append(queue, m)
      /\ handler' = [handler EXCEPT ![c] = "ack"]
  BY DEF Enqueue, WaitEnqueue
<1>4. /\ ToSet(queue') = ToSet(queue) \cup {m}
      /\ Len(queue') = Len(queue) + 1
      /\ \A i \in 1..Len(queue) : queue'[i] = queue[i]
      /\ queue'[Len(queue) + 1] = m
  BY <1>2, <1>3, AppendSet DEF TypeOK
<1>5. Placed'
  <2>1. \A i \in DOMAIN queue : queue[i] # m
    BY <1>1, <1>2 DEF Life, Queued, ToSet
  <2>2. \A i, j \in DOMAIN queue' : queue'[i] = queue'[j] => i = j
    <3>1. DOMAIN queue = 1..Len(queue) /\ DOMAIN queue' = 1..(Len(queue) + 1)
      BY <1>2, <1>3, <1>4 DEF TypeOK
    <3> QED
      BY <1>1, <1>4, <2>1, <3>1 DEF Placed
  <2> QED
    BY <1>1, <1>3, <2>2 DEF Enqueue, WaitEnqueue, TypeOK, Placed
<1>6. ASSUME NEW k \in Messages PROVE Life(k)'
  <2>1. /\ Queued(k)' <=> Queued(k) \/ k = m
        /\ (Held(k)' <=> Held(k)) /\ (Told(k)' <=> Told(k))
    BY <1>3, <1>4 DEF Queued, Held, Told
  <2>2. Handing(k)' <=> Handing(k) /\ k # m
    BY <1>2, <1>3 DEF TypeOK, Handing
  <2>3. m \in accepted
    BY <1>1, <1>2, IngestAssumption DEF Placed, IngestAssumption
  <2> QED
    BY <1>1, <1>2, <1>3, <2>1, <2>2, <2>3 DEF Life
<1> QED
  BY <1>5, <1>6 DEF IngestInv

(* A worker takes a message off the queue. *)
LEMMA InvTake ==
  ASSUME TypeOK, IngestInv, NEW w \in Workers, Take(w)
  PROVE  IngestInv'
<1> DEFINE m == Head(queue)
<1>1. Placed /\ \A k \in Messages : Life(k)
  BY DEF IngestInv
<1>2. /\ UNCHANGED <<done, handler, current, events, accepted, confirmed>>
      /\ worker[w] = "idle" /\ queue # <<>> /\ queue' = Tail(queue)
      /\ job' = [job EXCEPT ![w] = m]
      /\ saves' = [saves EXCEPT ![m] = @ + 1]
      /\ worker' = [worker EXCEPT ![w] = "saving"]
  BY DEF Take
<1>3. /\ m \in Messages /\ m = queue[1] /\ 1 \in DOMAIN queue
      /\ \A i \in DOMAIN queue' : i + 1 \in DOMAIN queue /\ queue'[i] = queue[i + 1]
      /\ ToSet(queue) = ToSet(queue') \cup {m}
      /\ DOMAIN queue' \subseteq Nat \ {0}
  BY <1>2, TailSet DEF TypeOK
<1>4. Queued(m) /\ m # None /\ job[w] = None /\ m \in accepted
  BY <1>1, <1>2, <1>3, IngestAssumption
     DEF Queued, Placed, Life, IngestAssumption
<1>5. /\ saves[m] = 0 /\ ~Held(m) /\ ~Told(m) /\ m \notin confirmed /\ ~Handing(m)
      /\ \A i \in DOMAIN queue' : queue'[i] # m
  <2>1. saves[m] = 0 /\ ~Held(m) /\ ~Told(m) /\ m \notin confirmed /\ ~Handing(m)
    BY <1>1, <1>3, <1>4 DEF Life
  <2>2. ASSUME NEW i \in DOMAIN queue' PROVE queue'[i] # m
    <3>1. i + 1 \in DOMAIN queue /\ queue'[i] = queue[i + 1] /\ i + 1 # 1
      BY <1>3
    <3> QED
      BY <1>1, <1>3, <3>1 DEF Placed
  <2> QED
    BY <2>1, <2>2
<1>6. Placed'
  <2>1. \A i, j \in DOMAIN queue' : queue'[i] = queue'[j] => i = j
    BY <1>1, <1>3 DEF Placed
  <2>2. \A v \in Workers : /\ job'[v] = IF v = w THEN m ELSE job[v]
                           /\ worker'[v] = IF v = w THEN "saving" ELSE worker[v]
                           /\ job[v] # m
    BY <1>2, <1>5 DEF TypeOK, Held
  <2> QED
    BY <1>1, <1>2, <1>4, <2>1, <2>2 DEF Placed
<1>7. ASSUME NEW k \in Messages PROVE Life(k)'
  <2>1. Queued(k)' <=> Queued(k) /\ k # m
    <3>1. m \notin ToSet(queue')
      BY <1>5 DEF ToSet
    <3> QED
      BY <1>3, <3>1 DEF Queued
  <2>2. Held(k)' <=> Held(k) \/ k = m
    BY <1>2, <1>4, IngestAssumption DEF Held, TypeOK, IngestAssumption
  <2>3. (Handing(k)' <=> Handing(k)) /\ (Told(k)' <=> Told(k))
    BY <1>2 DEF Handing, Told
  <2>4. saves'[k] = IF k = m THEN 1 ELSE saves[k]
    BY <1>2, <1>3, <1>5 DEF TypeOK
  <2> QED
    BY <1>1, <1>2, <1>4, <1>5, <2>1, <2>2, <2>3, <2>4 DEF Life
<1> QED
  BY <1>6, <1>7 DEF IngestInv

(* The other steps of a worker. *)
LEMMA InvWorker ==
  ASSUME TypeOK, IngestInv, NEW w \in Workers,
         SaveOk(w) \/ SaveFails(w) \/ Notify(w) \/ WorkerStops(w)
  PROVE  IngestInv'
<1> DEFINE m == job[w]
<1>1. Placed /\ \A k \in Messages : Life(k)
  BY DEF IngestInv
<1>2. /\ UNCHANGED <<done, handler, current, queue, accepted, saves>>
      /\ \A k \in Messages : (Handing(k)' <=> Handing(k)) /\ (Queued(k)' <=> Queued(k))
  BY DEF SaveOk, SaveFails, Notify, WorkerStops, Handing, Queued
<1>3. ASSUME SaveOk(w) PROVE IngestInv'
  <2>1. m \in Messages /\ m # None /\ \A v \in Workers : job[v] = m => v = w
    BY <1>1, <1>3, JobType, IngestAssumption DEF SaveOk, IngestAssumption
  <2>2. \A v \in Workers : /\ job'[v] = IF v = w THEN None ELSE job[v]
                           /\ worker'[v] = IF v = w THEN "idle" ELSE worker[v]
    BY <1>3 DEF SaveOk, TypeOK
  <2>3. Placed'
    BY <1>1, <1>2, <2>2 DEF Placed
  <2>4. ASSUME NEW k \in Messages PROVE Life(k)'
    <3>1. Held(k)' <=> Held(k) /\ k # m
      BY <2>1, <2>2, IngestAssumption DEF Held, IngestAssumption
    <3>2. /\ Held(m) /\ (Told(k)' <=> Told(k))
          /\ k \in confirmed' <=> k \in confirmed \/ k = m
      BY <1>3 DEF SaveOk, Held, Told
    <3> QED
      BY <1>1, <1>2, <2>1, <3>1, <3>2 DEF Life
  <2> QED
    BY <2>3, <2>4 DEF IngestInv
<1>4. ASSUME SaveFails(w) \/ WorkerStops(w) PROVE IngestInv'
  <2>1. UNCHANGED <<job, events, confirmed>>
    BY <1>4 DEF SaveFails, WorkerStops
  <2>2. Placed'
    BY <1>1, <1>2, <1>4, <2>1 DEF SaveFails, WorkerStops, Placed, TypeOK
  <2>3. ASSUME NEW k \in Messages PROVE Life(k)'
    BY <1>1, <1>2, <2>1, SameLife DEF Held, Told
  <2> QED
    BY <2>2, <2>3 DEF IngestInv
<1>5. ASSUME Notify(w) PROVE IngestInv'
  <2>1. m \in Messages /\ m # None /\ \A v \in Workers : job[v] = m => v = w
    BY <1>1, <1>5, JobType, IngestAssumption DEF Notify, IngestAssumption
  <2>2. \A v \in Workers : /\ job'[v] = IF v = w THEN None ELSE job[v]
                           /\ worker'[v] = IF v = w THEN "idle" ELSE worker[v]
    BY <1>5 DEF Notify, TypeOK
  <2>3. Placed'
    BY <1>1, <1>2, <2>2 DEF Placed
  <2>4. ASSUME NEW k \in Messages PROVE Life(k)'
    <3>1. Held(k)' <=> Held(k) /\ k # m
      BY <2>1, <2>2, IngestAssumption DEF Held, IngestAssumption
    <3>2. /\ Held(m) /\ confirmed' = confirmed
          /\ k # m => (Told(k)' <=> Told(k))
          /\ k = m /\ ~done => Told(k)'
      BY <1>5, <2>1, NotifyEffect DEF Notify, Held, TypeOK, Event
    <3> QED
      BY <1>1, <1>2, <2>1, <3>1, <3>2 DEF Life
  <2> QED
    BY <2>3, <2>4 DEF IngestInv
<1> QED
  BY <1>3, <1>4, <1>5

LEMMA InvNext == TypeOK /\ IngestInv /\ [Next]_vars => IngestInv'
<1> SUFFICES ASSUME TypeOK, IngestInv, [Next]_vars PROVE IngestInv'
  OBVIOUS
<1>1. ASSUME NEW c \in Clients, Handler(c) PROVE IngestInv'
  BY <1>1, InvHandler, InvEnqueue DEF Handler
<1>2. ASSUME NEW w \in Workers, Worker(w) PROVE IngestInv'
  BY <1>2, InvTake, InvWorker DEF Worker
<1>3. ASSUME Stop \/ Terminated \/ UNCHANGED vars PROVE IngestInv'
  <2>1. /\ UNCHANGED <<handler, current, queue, worker, job, events, accepted,
                       saves, confirmed>>
        /\ done => done'
    BY <1>3 DEF Stop, Terminated, vars, workerVars
  <2>2. Placed'
    BY <2>1 DEF IngestInv, Placed
  <2>3. \A k \in Messages : Life(k)'
    BY <2>1, SameLife DEF IngestInv, Handing, Queued, Held, Told
  <2> QED
    BY <2>2, <2>3 DEF IngestInv
<1> QED
  BY <1>1, <1>2, <1>3 DEF Next

LEMMA Invariance == Spec => [](TypeOK /\ IngestInv)
<1>1. Init => TypeOK /\ IngestInv
  BY TypeInit, InvInit
<1>2. TypeOK /\ IngestInv /\ [Next]_vars => TypeOK' /\ IngestInv'
  BY TypeNext, InvNext DEF IngestInv
<1> QED
  BY <1>1, <1>2, PTL DEF Spec

-----------------------------------------------------------------------------
(* The queue of the persist workers never holds more than its capacity, and
   every variable keeps its type.                                          *)
THEOREM TypeCorrect == Spec => []TypeOK
  BY Invariance, PTL

(* Whichever of the two selects of Persist queues it, and whichever worker
   takes it, a message is saved at most once.                              *)
THEOREM SavedAtMostOnce == Spec => []SavedOnce
<1>1. IngestInv => SavedOnce
  BY DEF IngestInv, Placed, Life, SavedOnce
<1> QED
  BY <1>1, Invariance, PTL

(* Nobody is told that a message is lost that is stored or may still be. *)
THEOREM AlarmsAreTrue == Spec => []NoFalseAlarm
<1>1. IngestInv => NoFalseAlarm
  BY DEF IngestInv, Life, NoFalseAlarm
<1> QED
  BY <1>1, Invariance, PTL

(* Until the hub stops, an accepted message is on its way, stored or
   reported, whatever is full, fails or times out.                         *)
THEOREM NothingVanishes == Spec => []NoSilentLoss
<1>1. TypeOK /\ IngestInv => NoSilentLoss
  BY DEF TypeOK, IngestInv, Life, NoSilentLoss
<1> QED
  BY <1>1, Invariance, PTL
=============================================================================
