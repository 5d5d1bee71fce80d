------------------------------- MODULE Ingest -------------------------------
(***************************************************************************)
(* How an accepted message is stored, acknowledged and delivered: the end  *)
(* of handleMessage (internal/ws/client.go), Hub.Persist and the persist   *)
(* workers (internal/ws/hub.go), with a message repository present.        *)
(*                                                                         *)
(* Processes.  A reader goroutine per connection handles one message at a  *)
(* time: it queues it for the workers, acknowledges it, and routes it to   *)
(* the recipient and back to the sender.  The workers take messages off    *)
(* the bounded queue and save them, concurrently with the rest.            *)
(*                                                                         *)
(* What deliverLocal accepts reaches the sender's connections in the order *)
(* it was accepted (module Hub), so events[m] is what they see of m.  A    *)
(* call of deliverLocal may be given up once the hub has stopped.          *)
(***************************************************************************)
EXTENDS Naturals, SequencesExt

CONSTANTS
  Clients,     \* connections that send
  Messages,    \* the messages they send
  SenderOf,    \* SenderOf[m]: the connection message m arrives on
  Workers,     \* the goroutines running runPersist (16)
  QueueCap,    \* persistQueueSize (4096)
  MaxFailures, \* bound: saves that fail
  None         \* no message

ASSUME IngestAssumption ==
  /\ SenderOf \in [Messages -> Clients]
  /\ QueueCap \in Nat \ {0}
  /\ None \notin Messages
  /\ MaxFailures \in Nat

VARIABLES
  done,       \* Hub.done is closed
  handler,    \* handler[c]: where handleMessage is
  current,    \* current[c]: the message it handles, or None
  queue,      \* Hub.persist
  worker,     \* worker[w]: where the persist worker is
  job,        \* job[w]: the message it saves, or None
  store,      \* the messages Scylla has
  events,     \* events[m]: what the sender was sent about m, in order
  delivered,  \* messages whose delivery to the recipient was accepted
  accepted,   \* history: messages whose Persist has begun
  saves,      \* history: saves[m], how often Save was called with m
  confirmed,  \* history: messages whose Save returned no error
  failures    \* saves that failed (bounded by MaxFailures)

vars == <<done, handler, current, queue, worker, job, store, events, delivered,
          accepted, saves, confirmed, failures>>

workerVars  == <<worker, job, store, saves, confirmed, failures>>

HandlerState == {"reading", "persist", "waiting", "ack", "route", "stopped"}
WorkerState  == {"idle", "saving", "notify", "gone"}
Event        == {"ack", "notstored", "echo"}

Init ==
  /\ done = FALSE
  /\ handler = [c \in Clients |-> "reading"]
  /\ current = [c \in Clients |-> None]
  /\ queue = <<>>
  /\ worker = [w \in Workers |-> "idle"]
  /\ job = [w \in Workers |-> None]
  /\ store = {}
  /\ events = [m \in Messages |-> <<>>]
  /\ delivered = {}
  /\ accepted = {}
  /\ saves = [m \in Messages |-> 0]
  /\ confirmed = {}
  /\ failures = 0

Goto(c, state) == handler' = [handler EXCEPT ![c] = state]

(* NotifySender: accepted by the sender's shard, or given up after Stop. *)
NotifySender(m, event) ==
  \/ events' = [events EXCEPT ![m] = Append(@, event)]
  \/ done /\ UNCHANGED events

-----------------------------------------------------------------------------
(* handleMessage, once the checks have passed.                             *)

Accept(c, m) ==
  /\ handler[c] = "reading"
  /\ SenderOf[m] = c
  /\ m \notin accepted
  /\ accepted' = accepted \cup {m}
  /\ current' = [current EXCEPT ![c] = m]
  /\ Goto(c, "persist")
  /\ UNCHANGED <<done, queue, events, delivered, workerVars>>

(* Mutant: Persist goes on after the job was queued. *)
Enqueue_FallsThrough(c) ==
  /\ handler[c] = "persist"
  /\ Len(queue) < QueueCap
  /\ queue' = Append(queue, current[c])
  /\ Goto(c, "waiting")
  /\ UNCHANGED <<done, current, events, delivered, accepted, workerVars>>

(* Persist, first select: there is room. *)
Enqueue(c) ==
  /\ handler[c] = "persist"
  /\ Len(queue) < QueueCap
  /\ queue' = Append(queue, current[c])
  /\ Goto(c, "ack")
  /\ UNCHANGED <<done, current, events, delivered, accepted, workerVars>>

QueueFull(c) ==
  /\ handler[c] = "persist"
  /\ Len(queue) >= QueueCap
  /\ Goto(c, "waiting")
  /\ UNCHANGED <<done, current, queue, events, delivered, accepted, workerVars>>

(* Persist, second select: room at last, ... *)
WaitEnqueue(c) ==
  /\ handler[c] = "waiting"
  /\ Len(queue) < QueueCap
  /\ queue' = Append(queue, current[c])
  /\ Goto(c, "ack")
  /\ UNCHANGED <<done, current, events, delivered, accepted, workerVars>>

(* ... or the hub stops, and nobody is told, ... *)
WaitStop(c) ==
  /\ handler[c] = "waiting"
  /\ done
  /\ Goto(c, "ack")
  /\ UNCHANGED <<done, current, queue, events, delivered, accepted, workerVars>>

(* Mutant: the sender is told, and the job queued late all the same. *)
WaitTimeout_Queues(c) ==
  /\ handler[c] = "waiting"
  /\ NotifySender(current[c], "notstored")
  /\ queue' = Append(queue, current[c])
  /\ Goto(c, "ack")
  /\ UNCHANGED <<done, current, delivered, accepted, workerVars>>

(* ... or the timer fires, and the sender is told. *)
WaitTimeout(c) ==
  /\ handler[c] = "waiting"
  /\ NotifySender(current[c], "notstored")
  /\ Goto(c, "ack")
  /\ UNCHANGED <<done, current, queue, delivered, accepted, workerVars>>

Acknowledge(c) ==
  /\ handler[c] = "ack"
  /\ NotifySender(current[c], "ack")
  /\ Goto(c, "route")
  /\ UNCHANGED <<done, current, queue, delivered, accepted, workerVars>>

(* Send: the recipient first, then the echo; when the recipient's delivery
   was given up, the read loop ends.                                       *)
Send(c) ==
  LET m == current[c]
  IN  /\ handler[c] = "route"
      /\ \/ delivered' = delivered \cup {m} /\ Goto(c, "reading")
         \/ done /\ UNCHANGED delivered /\ Goto(c, "stopped")
      /\ NotifySender(m, "echo")
      /\ current' = [current EXCEPT ![c] = None]
      /\ UNCHANGED <<done, queue, accepted, workerVars>>

-----------------------------------------------------------------------------
(* runPersist.                                                             *)

(* Once done is closed, select may still prefer a job. *)
Take(w) ==
  /\ worker[w] = "idle"
  /\ queue # <<>>
  /\ LET m == Head(queue)
     IN  /\ job' = [job EXCEPT ![w] = m]
         /\ saves' = [saves EXCEPT ![m] = @ + 1]
  /\ queue' = Tail(queue)
  /\ worker' = [worker EXCEPT ![w] = "saving"]
  /\ UNCHANGED <<done, handler, current, store, events, delivered, accepted,
                 confirmed, failures>>

SaveOk(w) ==
  /\ worker[w] = "saving"
  /\ store' = store \cup {job[w]}
  /\ confirmed' = confirmed \cup {job[w]}
  /\ job' = [job EXCEPT ![w] = None]
  /\ worker' = [worker EXCEPT ![w] = "idle"]
  /\ UNCHANGED <<done, handler, current, queue, events, delivered, accepted,
                 saves, failures>>

(* Mutant: the error is only logged. *)
SaveFails_Silent(w) ==
  /\ worker[w] = "saving"
  /\ failures < MaxFailures
  /\ failures' = failures + 1
  /\ store' \in {store, store \cup {job[w]}}
  /\ job' = [job EXCEPT ![w] = None]
  /\ worker' = [worker EXCEPT ![w] = "idle"]
  /\ UNCHANGED <<done, handler, current, queue, events, delivered, accepted,
                 saves, confirmed>>

(* An error, or the timeout of the save: the row may be there or not. *)
SaveFails(w) ==
  /\ worker[w] = "saving"
  /\ failures < MaxFailures
  /\ failures' = failures + 1
  /\ store' \in {store, store \cup {job[w]}}
  /\ worker' = [worker EXCEPT ![w] = "notify"]
  /\ UNCHANGED <<done, handler, current, queue, job, events, delivered,
                 accepted, saves, confirmed>>

(* Mutant: the worker ends with its first error. *)
Notify_Exits(w) ==
  /\ worker[w] = "notify"
  /\ NotifySender(job[w], "notstored")
  /\ job' = [job EXCEPT ![w] = None]
  /\ worker' = [worker EXCEPT ![w] = "gone"]
  /\ UNCHANGED <<done, handler, current, queue, store, delivered, accepted,
                 saves, confirmed, failures>>

Notify(w) ==
  /\ worker[w] = "notify"
  /\ NotifySender(job[w], "notstored")
  /\ job' = [job EXCEPT ![w] = None]
  /\ worker' = [worker EXCEPT ![w] = "idle"]
  /\ UNCHANGED <<done, handler, current, queue, store, delivered, accepted,
                 saves, confirmed, failures>>

(* The worker returns; what is still queued is lost. *)
WorkerStops(w) ==
  /\ worker[w] = "idle"
  /\ done
  /\ worker' = [worker EXCEPT ![w] = "gone"]
  /\ UNCHANGED <<done, handler, current, queue, job, store, events, delivered,
                 accepted, saves, confirmed, failures>>

Stop ==
  /\ ~done
  /\ done' = TRUE
  /\ UNCHANGED <<handler, current, queue, events, delivered, accepted,
                 workerVars>>

(* Every worker is gone and no message is being handled. *)
Terminated ==
  /\ \A w \in Workers : worker[w] = "gone"
  /\ \A c \in Clients : handler[c] \in {"reading", "stopped"}
  /\ UNCHANGED vars

Handler(c) ==
  \/ \E m \in Messages : Accept(c, m)
  \/ Enqueue(c) \/ QueueFull(c) \/ WaitEnqueue(c) \/ WaitStop(c)
  \/ WaitTimeout(c) \/ Acknowledge(c) \/ Send(c)

Worker(w) == Take(w) \/ SaveOk(w) \/ SaveFails(w) \/ Notify(w) \/ WorkerStops(w)

Next ==
  \/ \E c \in Clients : Handler(c)
  \/ \E w \in Workers : Worker(w)
  \/ Stop
  \/ Terminated

Spec == Init /\ [][Next]_vars

(***************************************************************************)
(* Fairness.  Goroutines are scheduled; a Save returns, if only with its   *)
(* timeout; the timer of Persist fires.  Nobody has to send, fail or stop. *)
(* A worker waiting for a job gets one if there always is one, since the   *)
(* receivers blocked on a channel are served in turn.                      *)
(***************************************************************************)
Fairness ==
  /\ \A c \in Clients :
       WF_vars(Enqueue(c) \/ QueueFull(c) \/ WaitEnqueue(c) \/ WaitStop(c)
                 \/ WaitTimeout(c) \/ Acknowledge(c) \/ Send(c))
  /\ \A w \in Workers : WF_vars(Take(w) \/ SaveOk(w) \/ Notify(w))

FairSpec == Spec /\ Fairness

-----------------------------------------------------------------------------
TypeOK ==
  /\ done \in BOOLEAN
  /\ handler \in [Clients -> HandlerState]
  /\ current \in [Clients -> Messages \cup {None}]
  /\ queue \in Seq(Messages)
  /\ Len(queue) <= QueueCap
  /\ worker \in [Workers -> WorkerState]
  /\ job \in [Workers -> Messages \cup {None}]
  /\ store \subseteq Messages
  /\ events \in [Messages -> Seq(Event)]
  /\ delivered \subseteq Messages
  /\ accepted \subseteq Messages
  /\ saves \in [Messages -> Nat]
  /\ confirmed \subseteq Messages
  /\ failures \in 0..MaxFailures

(* The message is with Persist, in the queue or with a worker. *)
Handing(m) == \E c \in Clients :
  current[c] = m /\ handler[c] \in {"persist", "waiting"}
Queued(m)  == m \in ToSet(queue)
Held(m)    == \E w \in Workers : job[w] = m
Told(m)    == "notstored" \in ToSet(events[m])

(* A message is saved at most once, and is in one place at a time, although
   Persist has two selects that may queue it.                              *)
SavedOnce == \A m \in Messages :
  /\ saves[m] <= 1
  /\ Queued(m) => saves[m] = 0 /\ ~Handing(m)
  /\ \A i, j \in DOMAIN queue : queue[i] = queue[j] => i = j

(* The sender is not told that a message could not be stored when its Save
   succeeded or may still do so.                                           *)
NoFalseAlarm == \A m \in Messages :
  Told(m) => m \notin confirmed /\ ~Queued(m) /\ ~Held(m)

(* Until the hub stops no accepted message vanishes: it is on its way, Save
   returned without an error, or the sender has been told, even when the
   queue was full or the save failed.                                      *)
NoSilentLoss == ~done => \A m \in accepted :
  Handing(m) \/ Queued(m) \/ Held(m) \/ m \in confirmed \/ Told(m)

(* While the hub runs, every accepted message ends up stored or reported,
   whatever fails.  And every handler comes back to its connection, or stops
   with the hub, however full the queue is.                                *)
EventuallySettled ==
  /\ \A m \in Messages : m \in accepted ~> m \in confirmed \/ Told(m) \/ done
  /\ \A c \in Clients : handler[c] # "reading" ~> handler[c] \in {"reading", "stopped"}

(* The event says "message was delivered but could not be stored": when the
   sender is sent it, the message was delivered to the recipient.
   No run claims it: the code breaks it (README, section 3).               *)
ToldAfterDelivery == \A m \in Messages : Told(m) => m \in delivered

=============================================================================
