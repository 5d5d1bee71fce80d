# Verification of the messenger core

TLA+ models of the messenger server in `src/`, the TLC instances that check
them, and proofs of the safety of every server component and of the chat state of
the web client that hold for every number of nodes, users, connections and
messages and every buffer, page and list size.

| File | What it is |
|---|---|
| `Hub.tla` | the websocket hub of one node, its shards and the two goroutines of every connection |
| `Mailbox.tla` | what the hub promises the connections of a user, without shards or goroutines |
| `Ingest.tla` | how an accepted message is queued, stored, acknowledged and delivered |
| `Subscriptions.tla` | the reference-counted Redis subscriptions of one node |
| `History.tla` | saving to Scylla, the cached window in Redis, and paging through both |
| `Cluster.tla` | several nodes: how a message reaches the connections of both users through Redis; extends `Subscriptions` |
| `Chats.tla` | the list of conversations: one row per side and message, merged by write timestamps |
| `Auth.tla` | accounts, tokens, their revocation, and the deadline of a websocket |
| `Startup.tla` | instances that migrate, start, degrade, serve and shut down |
| `ChatClient.tla` | the messages in one browser tab: optimistic copies, answers, pages, lost connections |
| `*Proofs.tla` | theorems about the module of that name, checked by TLAPS: `Hub`, `Ingest`, `History`, `Cluster` (with those about `Subscriptions`, which it extends), `Chats`, `Auth`, `Startup`, `ChatClient` |
| `MC*.tla`, `MC*.cfg` | instances for TLC |
| `PROJECT.json` | runs, mutants, the definitions' source lines, findings, hazards, theorems |

Run an instance with `tlc -config MCHubTabs.cfg MCHub` and the proofs of a module
with `tlapm HubProofs.tla`.

## 1. The system

| Component | Source | State | Operations | Talks to |
|---|---|---|---|---|
| Hub and shards | `internal/ws/hub.go` | `clients` map and `out` channel per shard, `done` | Register, Unregister, Send, NotifySender, Stop, shard.run | connections by channels; fan-out; repository |
| Connection | `internal/ws/client.go` | `send` channel, `done`, limiter, known recipients | readPump, handleMessage, writePump | hub; the websocket |
| Intake and persistence | `hub.go` Persist, runPersist | `persist` queue, 16 workers | queue, save, report a failure | repository; hub (events) |
| Fan-out | `internal/fanout/redis.go` | `refs` under a mutex, one PubSub | Subscribe, Unsubscribe, Publish, run | Redis; hub (`Delivery()`) |
| Messages | `internal/repository/message`, `usecase/message.go` | Scylla `direct_messages`, Redis list per chat | Save, GetChatHistory | Scylla, Redis |
| Conversations | same, `TouchChats`, `ListChats` | Scylla `user_chats` | touch both sides, list | Scylla, Postgres (names) |
| Rate limits | `ws/ratelimit.go`, `middleware/ratelimit.go` | token buckets, visitor map | allow | - |
| Accounts and tokens | `usecase/auth.go`, `middleware/auth.go`, `repository/tokens` | users, denylist | Register, Login, Logout, JWTAuth | Postgres, Redis |
| Migrations | `repository/postgres/migrate.go` | `schema_migrations`, advisory lock | Migrate | Postgres |
| Server | `cmd/server/main.go` | which stores are present | start, degrade, shut down | all |
| Web client | `frontend/src/store`, `frontend/src/hooks` | messages per partner, socket, cursor | send, ack, echo, history, reconnect | REST, websocket |

What is hard in it:

* **Concurrency in the hub.** Readers, persist workers and the fan-out deliver
  at the same time; a connection is taken away by its reader, by a full buffer
  or by shutdown; its two goroutines wait for each other. Correct means: no
  channel is closed twice or written after its close, what a connection gets
  is in order and without gaps, and everything ends.
* **Messages between acceptance and storage.** The queue has a bound, a timer
  and a shutdown; saves fail and time out. Correct means: saved at most once,
  and never lost without a word to the sender.
* **Calls outside a mutex.** The fan-out decides under its mutex and calls
  Redis after releasing it. Correct means: subscribed while a connection is open,
  not for ever after.
* **A tab that guesses.** The web client shows a message before the server has
  answered, merges acknowledgements, echoes and pages that arrive in any order,
  and loses its connection in between. Correct means: every message once, with a
  true state, and no hole in the history it has loaded.
* **Several nodes.** A message is published twice, to both users, and delivered
  by every node that is subscribed; a PUBLISH may be carried out although no
  answer came, and is then sent again by the client library, so one call may put
  several copies on their way, some of them late; and a node may lose Redis.
  Correct means: acknowledged first; in order, but for copies sent again; no more
  extra copies than lost answers; and nothing lost that could have been delivered.
* **One row, many writers.** Workers on all nodes write the same conversation row
  in any order, one side after the other. Correct means: the newest message wins,
  and the list is what the rows say.
* **Tokens and time.** A token, the Redis key that revokes it and the deadline of
  the websocket it opened end at times that are rounded differently. Correct
  means: ended is ended, for all of them.
* **Start and stop together.** Instances boot on one database at once, crash and
  fail with a lock held; shutdown waits for a goroutine that waits for others.
  Correct means: migrated once, nothing left open, nobody waits for ever.
* **A cache next to a store.** Saves finish in any order, a warm-up replaces
  the list with an older read, pipelines are not transactions. Correct means:
  pages are history, and the end of the history is the end.

The hazards are listed in `PROJECT.json`, each at its line, with the properties
that would catch it, or with a note that says why none does.

## 2. The modules and the code

### Hub

One goroutine per shard runs `shard.run`; `offers[s]` is what its loop over a
user's connections still has to hand out, so everything else can happen between
two turns of that loop. The shard's `select` is enabled only when nothing is
left (`Idle`). `Register` and `Unregister` are a rendezvous with the loop or,
once `done` is closed, give up (`RegisterRefused`, `UnregisterRefused`).
`Offer` is the non-blocking send: there is room, or the connection is dropped.
`Drop` is `shard.drop`, with its look-up, and `Shutdown` is `shard.shutdown`.

A connection's reader walks through `ServeWs` (`Connect`, `Register`,
`StartPumps`), `readPump` (`ReceiveFrame`, `ReadError`, `Unregister`,
`ReaderEnds`) and `handleMessage` (`Reject`, `Ack`, `RouteTo`, `RouteFrom`),
each call of `deliverLocal` being a step that may have to wait. Its writer is
`writePump` (`WriteFrame`, `WriterFails`, `WriteClose`). Frames that were read
ahead are still handled after the writer closed the connection.

A payload is a number: the n-th delivery its user's shard accepted. `accepted`,
`dispatched` and `pos` are history variables that number them; `frames` and
`background` count against the bounds. The persist worker's events and the
deliveries of other nodes are `BackgroundDeliver`. The module is the hub
without a fan-out (`NewHub`, or `main.go` when Redis is absent).

`Mailbox` is the promise: a user's mailbox is a log; a connection reads it
without gaps from where it was attached; it may be detached, is then owed the
entries up to a known end (all of them, or all but the last when it was too
slow), and is closed cleanly only after the last of these. The refinement maps
`length` to `dispatched`, `at` to `pos`, and a connection's state to what its
writer, the map and its channel say of it (`Connection`).

### Ingest

`handler[c]` is the end of `handleMessage`: Persist (`Enqueue`, or `QueueFull`
and then one of `WaitEnqueue`, `WaitStop`, `WaitTimeout`, the three cases of its
second select), `Acknowledge`, `Send`. `worker[w]` is `runPersist` (`Take`,
`SaveOk`, `SaveFails`, `Notify`, `WorkerStops`). `events[m]` is what the sender's
shard accepted about message m, in order; that this order reaches a connection
is what `Hub` shows. A failed save may have written the row.

### Subscriptions

`step[c]` follows one connection through `Subscribe` and `Unsubscribe`: the part
under the mutex is one step, the Redis call after it another, the part that
gives a reference back after a failure a third. A call that fails may have had
its effect. Once the hub stops, Register and Unregister may give up and never
call the fan-out.

### History

`Insert`, `Push` and `Trim` are the commands of `Save` (its third call,
`TouchChats`, works on another table and belongs to the conversations). A
reader's first page is `CachedPage`, or `CacheMiss` and then `StoredPage`, followed
by `WarmUpDelete` and one `WarmUpPush` per message, which interleave with
everything else because a pipeline is not a transaction; `CacheFails` and
`WarmUpFails` leave a prefix of it. Further pages (`NextPage`) come from the
store. The list may expire at any time. A repository without Redis is the case
in which the list stays empty.

### ChatClient

`view[p]` is the list the store keeps per partner; an entry is an optimistic
copy (`own`, without an id until its acknowledgement) or comes from a frame or a
page. `HandleSend`, `ReceiveAck`, `ReceiveError` and `ReceiveMessage` are the
callbacks, `AddMessage`, `Prepended` and `ResolveMessage` the store's reducers.
`Ranked` is a set in the order of a key: the rows of a page by id, and the rows
that `prependMessages` keeps by position; `MCChatClient` assumes, for TLC to
evaluate, that it is the library's sort and filter on small inputs.
A history request is asked for (`OpenChat`, `LoadMore`), served (`Serve`) and
shown (`ShowPage`) in three steps; selecting another partner aborts it. The
server's part is reduced to what `Ingest` and `Hub` allow a tab to see:
acknowledgement before echo, a failure at any time, frames in order within a
connection. A save that fails although the row was written, and pages served
from a cache that is out of order, are cases of `Ingest` and `History` and not
repeated here. Within `onmessage` and `onclose`, the reload of the list of
conversations and the reconnect timer are left out.

### Cluster

The module extends `Subscriptions`, whose `Users` are here the pairs of a node and
a person because every node counts for itself, by what flows through the
subscriptions; its own behaviours are `ClusterSpec`. `Join` and `Leave` are the
rendezvous with the shard, `Resubscribe` the steps of the fan-out after it.
`task[c]` is where the handler of connection `c` is: `Accept` numbers a message
and puts the acknowledgement into the sender's own shard, `Publish` or
`PublishFails` sends the copy for the recipient and then the one for the sender,
and after a failure `DeliverLocal` serves the sender's own node. `main.go:91-94`
leaves go-redis' `MaxRetries` at its default, so within one `client.Publish` a
PUBLISH that is not answered is sent again: `Unanswered`, before the `Publish` or
the `PublishFails` that ends the call, which may itself be a try without an answer.
`tries[d]` counts these for a delivery, and `late[d]` those that Redis may yet carry
out, at any time and for every node then subscribed (`Late`). `relay[n]` is what
Redis has sent to node n and what waits in `Redis.out`; `Forward` is `Redis.run`
with `runFanout` behind it, `Dispatch` the shard. `Lose` drops a suffix of what was
on its way, when the connection goes and go-redis reconnects by itself, or a single
message, which the library drops when its consumer is stuck. Shards are unbounded here, and no hub stops: that is `Hub`.
`due[c]` is a history variable: the messages that were sent while connection `c`
could be reached.

### Chats

A message is accepted (`Accept`), stored (`Store`) and written to the row of its
sender and of its recipient (`Touch`, twice), by workers in any order; a call that
fails ends its save and may have had its effect. `Upsert` is Scylla's rule for
`USING TIMESTAMP`: a later timestamp wins, and of two equal ones the greater
value, for each cell on its own. `Pages(u)` are the lists `ListChats` may return:
`sort.Slice` is not stable, so rows of one millisecond come in any order.
`ListChats` then leaves out the peers without a name. Left out are the text of a
preview and `CacheMessage`, which is in `History`.

### Auth

Time is a counter in a unit below the millisecond. A token ends on a whole
second, rounded down; the key that revokes it lives a whole number of
milliseconds, rounded down but never zero. `Parse`, `CheckRevoked` and
`CheckFails` are the middleware in front of every handler, with time passing in
between; `Measure` and `Revoke` are the two halves of a logout. A websocket has a
deadline that is set when it opens and when a pong is read; frames that arrived in
time may wait in its buffer and are read after it. `Create` is the INSERT that the
unique index on `lower(username)` decides. `late` is a history field: the request
began after the token had been revoked. Hashes and signatures are taken to work:
a password fits the account of whoever chose it, a token cannot be made up.

### Startup

`boot[i]` is where `run` of instance i is, including its deferred calls in the
order in which they run (`Closing`). `Migrate` holds one connection of the pool,
with the session's advisory lock, and takes another for each statement
(`SecondConnection`). `ApplyOne` commits a migration together with its record; a
commit that fails may have been carried out; an UNLOCK that fails leaves the lock
to the connection, which the pool closes when its lifetime is over
(`ConnectionExpires`). The connection with the lock may also break while `Migrate`
is at work through others (`ConnectionBreaks`): it goes on without the lock, beside
whoever takes it next. `Degrade` is what `STORAGE_REQUIRED` decides. `Signal` is
the return of `Spin`; after a graceful one the hub has been stopped, after another
one it has not. `relay[i]` is the goroutine of `Redis.run`, receiving or waiting
to hand over. `Crash` kills the process, which frees its lock, and it starts again.

## 3. What is checked

| Run | Bounds | What it shows |
|---|---|---|
| `hub_tabs` | 2 connections of one user, 1 shard, buffers of 2, 1 frame, 2 background deliveries | types, `ChannelSafety`, `NoGap`, `FirstInFirstOut`, and that the hub implements the mailbox's safety |
| `hub_live` | 1 connection, buffers of 1, 1 frame, 2 background deliveries | `HandlerReturns`, `ConnectionsEnd`, and the mailbox with its fairness: what a shard has taken from its channel is read, or the connection ends |
| `ingest` | 2 connections, 3 messages, 1 worker, queue of 1, 1 failing save | `SavedOnce`, `NoFalseAlarm`, `NoSilentLoss`, `EventuallySettled` (messages are settled, and every handler comes back to its connection) |
| `subs_counts` | 3 connections of one user and 1 of another, 2 failing calls | `RefsCountHolders`, `NoLeak` |
| `history` | 3 messages, cache of 2, pages of 1, 2 readers, 1 failing call | `OnlyStored`, `StoreWalkIsExact`, `NoCursorMeansNothingOlder`, and the bounded window (`TypeOK`) |
| `chat` | 2 chats with 3 stored messages, 1 sent and 1 received message, pages of 1, lists of 3, 4 requests, 2 lost connections, 1 failure | `OneEntry`, `StateIsTrue`, `NoHole`, and the bounded list (`TypeOK`) |
| `cluster` | 2 nodes, 1 sender, 1 recipient on the other node, 2 messages, 1 failing call, 1 retry per call, 2 lost answers or losses of relayed messages | `AckFirst`, `InOrder` (out of order or twice only what was sent again; the first copies in order; no more copies than lost answers and one), `NothingLost` |
| `chats` | 4 users and 4 messages, 2 of them in one conversation, clock readings that coincide in microseconds and milliseconds, lists of 2, 1 failing call | `RowIsNewest`, `SidesAgree`, `MostRecentFirst` |
| `auth` | 3 people who want one name, 1 token, 2 requests at a time, 2 units to the millisecond, 6 to the second, 1 failing call | `OneOwner`, `EndedMeansEnded`, `WebsocketsEnd` |
| `startup` | 2 instances with every setting, 2 migrations, pools of 2, 2 failures (of a call, or of the connection with the lock), 1 crash | `BootsTogether`, `NothingLeaks`, `NeverHangs` |

The bounds are chosen so that the interesting cases are reached: buffers fill
up with two deliveries, a full buffer drops a connection while its sibling
stays, a queue of one is full as soon as a second message arrives, a cache of
two is trimmed by a third message and replaced by a concurrent warm-up, a list
of three is full once two pages and two messages came, and four requests are
enough to scroll back, leave a chat with an answer on its way, and return. Two
messages, one retry and two lost answers show a copy that comes twice, one that
comes after a later message, a call that fails after a try that was carried out,
and a lost answer together with a lost connection; a second retry is the same step
again. Two nodes tell the way through Redis from the way within the sender's node;
the sender's copies of his own messages show what his other tabs are sent, and
several connections of one user on one node are the matter of `hub_tabs`.
Four messages put three rows against a list of two. A token of one second is
revoked, expires and is used again within eight units of time, and two requests
are a logout and a use of the token, or two logouts. Two instances are one that
migrates and one that waits, fails or crashes in between; two failures are a lost
lock and a call that fails while both migrate. That
each property can fail on these bounds is shown by the mutants listed in
`PROJECT.json`: each replaces one definition by the form a plausible slip would
give it (a dropped look-up, a skipped payload, a missing return, an off-by-one
cursor) and violates the property.

**Fairness.** `Hub` and `Ingest` assume that goroutines are scheduled (weak
fairness of each step), that a `select` with several ready cases and a channel
with several waiting senders serve each of them in the end (strong fairness of
the rendezvous and of `deliverLocal`; Go picks among ready cases at random and
queues blocked senders), that a read fails once the connection was closed, and
that timers fire and saves return. Nothing is assumed of clients, failures or
Stop. `Auth` assumes that time passes and that handlers and readers go on,
`Startup` that `run` and the goroutine of the fan-out go on and that a pooled
connection does not live for ever (pgxpool closes it after `MaxConnLifetime`);
neither assumes anything of signals, crashes, failures, clients or Redis. The
liveness of the hub is checked with one connection: with two, the
temporal check of these properties takes longer than a routine run should. What
two connections of a user, and users of different shards, can do to each other
is a matter of safety, which `hub_tabs` checks and the theorems prove.

### Runs that end in a violation

Each states what a test, a comment or the README says, and shows that the code
does otherwise.

* `subs_race` (`SubscribedWhileOpen`): a last connection leaves and another
  comes; the late UNSUBSCRIBE of the first wins (`redis.go:110-112`). The open
  connection gets nothing, although PUBLISH succeeds. Test:
  "dropped the subscription while a connection was still open".
* `chat_failed` (`ShownSentIsStored`): the failure event of a message can arrive
  before its acknowledgement, which then clears the mark (`useWebSocket.ts:79-84`);
  README: "the id in the ack is the id the message will have in history".

### What the models show besides

These follow from the code in the same way and are stated as invariants of the
modules, but belong to no run; each is seen by naming it in the configuration
instead of its invariants.

* `CountedWhileOpen` (`MCSubscriptions.cfg`): the connection whose SUBSCRIBE
  failed has no reference, yet gives one back when it leaves (`redis.go:84-92`,
  `hub.go:117-130`), that of another open connection.
* `NewestFirst` (`MCHistory.cfg` with `Limits = {2}` and `CacheLen = 3`): the
  cached list is in the order in which saves finish (`message/redis.go:40`).
* `TrailingWindow` (`MCHistory.cfg` with `SPECIFICATION SerialSpec`, which saves
  one message after the other and lets nothing expire): a warm-up deletes a
  message saved after its read (`repository.go:63-69`).
* `ToldAfterDelivery` (`MCIngest.cfg`): "message was delivered but could not be
  stored" (`hub.go:219`) can be sent before the acknowledgement and the delivery.
* `NeverHangs` with `PoolSize = 1` (`MCStartup.cfg`): `Migrate` keeps the only
  connection and waits for another (`migrate.go:23` and `39`).

What the new modules' properties leave open, because the code does: a message to a
node that is losing Redis is gone (`NothingLost` holds while `losses = 0`); a
message whose PUBLISH was not answered may be delivered again, on every node and
after later ones, once for each lost answer (`InOrder`; web clients know a message
by its id and show it once, `OneEntry`), and after a call that failed the copy of
the sender's node takes another way and may overtake; two messages of
one microsecond may leave the text of one with the sender of the other in the list
(`RowIsNewest`), and a write that fails leaves the two sides different until the
next message (`SidesAgree`); a request that was already under way when its token
was revoked goes on, as does every request while Redis does not answer, and in the
last millisecond of a token its key may already be gone (`EndedMeansEnded`); a
websocket is closed by the end of its token, not by the logout.

`ChatClient` also names what the client gives no promise about: a copy whose
acknowledgement was lost with its connection stays "Sending..." and is joined by
its echo as a second entry (`cut`), a message dropped by the rate limiter without
notice stays "Sending..." (`ignored`), a message received while the first page is
loading is gone if that page does not hold it yet (`base`), and a list that was
cut to its limit has a hole once an older page is put in front (`trimmed`).

## 4. What is proved

Every theorem is about all behaviours of `Spec` of its module (`ClusterSpec` for
`Cluster`), for every value of the constants that satisfies the module's assumption, and is checked by TLAPS to
the last leaf. The model values of the runs are one case of each.

| Module | Theorem | Statement |
|---|---|---|
| `HubProofs` | `TypeCorrect` | `[]TypeOK`: types, and no buffered channel beyond its capacity |
| | `InOrder` | `[]FirstInFirstOut` |
| | `ChannelsSafe` | `[]ChannelSafety` |
| | `NothingMissed` | `[]NoGap` |
| | `ImplementsMailbox` | `MailboxSafety`, the refinement |
| `IngestProofs` | `TypeCorrect` | `[]TypeOK`: types, and no more jobs than the queue holds |
| | `SavedAtMostOnce` | `[]SavedOnce` |
| | `AlarmsAreTrue` | `[]NoFalseAlarm` |
| | `NothingVanishes` | `[]NoSilentLoss` |
| `HistoryProofs` | `TypeCorrect` | `[]TypeOK`: types, and the length of a warm-up |
| | `ShowsOnlyStored` | `[]OnlyStored` |
| | `WalkIsExact` | `[]StoreWalkIsExact` |
| | `EndIsTheEnd` | `[]NoCursorMeansNothingOlder` |
| `ClusterProofs` | `TypeCorrect` | `[]ClusterTypeOK`, the subscriptions of all nodes included |
| | `AckComesFirst` | `[]AckFirst` |
| | `MessagesKeepOrder` | `[]InOrder`: order up to copies sent again, first copies in order, and a bound on the copies |
| | `NothingIsLost` | `[]NothingLost` |
| | `SubscriptionsType` | `Spec => []TypeOK` of `Subscriptions`: no negative count |
| | `CountsAreHolders` | `Spec => []RefsCountHolders` of `Subscriptions` |
| | `NothingLeftSubscribed` | `Spec => []NoLeak` of `Subscriptions` |
| | `SubscriptionsHold` | `ClusterSpec => [](RefsCountHolders /\ NoLeak)`, within the cluster |
| `ChatsProofs` | `TypeCorrect` | `[]TypeOK` |
| | `RowsAreNewest` | `[]RowIsNewest` |
| | `BothSidesAgree` | `[]SidesAgree` |
| | `ListIsMostRecent` | `MostRecentFirst`, an action property |
| `AuthProofs` | `TypeCorrect` | `[]TypeOK`: types, a positive life for the key of every logout, and no deadline after the end of its own token |
| | `NamesHaveOneOwner` | `[]OneOwner` |
| | `RevokedIsRefused` | `EndedMeansEnded`, an action property |
| `StartupProofs` | `TypeCorrect` | `[]TypeOK`: who is at work on the schema knows only recorded versions and, while nothing fails, holds the lock |
| | `BootsTogetherHolds` | `[]BootsTogether` |
| | `NothingIsLeaked` | `[]NothingLeaks` |
| `ChatClientProofs` | `TypeCorrect` | `[]TypeOK`: types, bounded lists, and only the open chat is waited for |
| | `ShownOnce` | `[]OneEntry` |
| | `StatesAreTrue` | `[]StateIsTrue` |
| | `NoHoles` | `[]NoHole` |

The theorems about `Subscriptions` are the first part of `ClusterProofs`. They are
about `Spec`, `Init` and `Next` of that module and cite `SubscriptionsAssumption`
alone, nothing that `Cluster` declares or assumes.

### The assumptions

Each is named (`HubAssumption`, `IngestAssumption`, ...) and evaluated by TLC in
the runs. They say that the bounds are natural numbers, that sizes and durations
which the code sets to positive constants are positive, that a connection belongs
to a user and a message to a sender, and that `None` is none of the others. Four
carry more. `HistoryAssumption` asks for pages shorter than the cached list
(1..100 against 200). `ChatsAssumption` asks that nobody is his own partner, which
the code refuses (`client.go:171`), and for finitely many messages, as
does `SubscriptionsAssumption` for connections: both count. `ClientAssumption` asks
that a page is no longer than a list may be (50 against 2000) and that no message is
stored twice. `AuthAssumption` leaves the four durations in any relation to one
another, so no proof relies on a second being a thousand milliseconds. The bounds
(`MaxFailures`, `MaxCrashes`, ...) are constants like the others: the theorems hold
for every one of them.

### The arguments

**Hub.** `TypeOK` is `Typed /\ Buffers`, and only the first half is needed
further on. `Typed` and `FirstInFirstOut` are inductive in turn: what is
added to `out` is the next number of its user, what is taken is the oldest
(`HeadIsNext`), so the head of the channel is always the successor of
`dispatched`. `ChannelSafety` is not just "closed at most once": to be inductive
it also says that what the loop is handing out concerns registered connections
of its own shard, that such an offer is the last delivery dispatched, that a
connection which was never registered has an empty buffer, and how the two
goroutines' states go together. `NoGap` then follows for each action:
`Dispatch` makes every registered connection owe exactly one payload, `Offer`
pays it or drops the connection. The inductive invariant `HubInv` is the
conjunction of `Typed` and the three, and the refinement maps each action to a mailbox step
or to a stutter under it (`BoxStep`): `Dispatch` is `Publish`, `Register` is
`Attach`, `WriteFrame` is `Read`, `Unregister`, `Shutdown` and a full buffer are
`Detach`, `WriteClose` is `Close`, `WriterFails` is `Break`.

**Ingest.** `SavedOnce` is not inductive, because nothing in it says that a job is
in one place. `Placed` says that a connection handles one message and a worker
saves one, that no two do the same, and that the queue holds none twice; `Life`
says for each place where a message can be (with `Persist`, in the queue, with a
worker) what has already been done with it, and before Stop that an accepted
message is in one of them, stored or reported. `IngestInv` is both.

**Subscriptions.** `SubsInv` adds to `RefsCountHolders` that, while no call has
failed, no connection is without the reference it will give back, and that a
subscribed user has a holder or an UNSUBSCRIBE under way: this is `NoLeak` before
the last of them has left. In the cluster (`SubscriptionsHold`) the only other step
that it sees is a PUBLISH that fails (`SubsOfCluster`), which takes nothing from
it. A count is the cardinality of a set that each step changes by at most one
connection (`HoldersAfter`, `CountAfter`).

**History.** The order of the rows, `Clustered`, is defined by rank: the i-th row
is the one with i rows at least as new. `ClusteredFacts` (each row once, newest
first), `GetHistoryFacts` (what a page holds and what its cursor says) and
`WindowFacts` (the page cut from a window is the page of the store, because a page
is shorter than the window) follow from cardinalities alone. `HistoryInv` then says
of each reader that its cursor is the last message it was given as long as there
may be more, and that without a cursor nothing older was stored; a page from the
cache always has a cursor, which is why it need not be exact. Saves only add to
the store and what is added concerns no walk that began before.

**Cluster.** Five invariants over one base. `BaseInv` gives types and says that no
queue holds a message that was not sent yet. `LossInv`: whoever is due a message
has it, or its node's relay or shard has it, or the handler that failed to publish
it is about to deliver it locally. `AckInv`: in the shard's channel the
acknowledgement stands before all copies, and when the connection has a copy it
has the acknowledgement. The other three are the three parts of `InOrder`. `OrderInv`: while
no call has failed, the relay of a node, its shard's channel and what a connection
has are each in order and each before the next, and the copy to be published next
is nowhere yet (`Fresh`), all of this up to the deliveries that were sent again
(`Again`). `FirstInv`: while no node loses messages either, each message that is
due has a copy ahead of all later messages of its sender, in what the connection
has or, when none of them is there yet, further back on the way (`First`): a copy
that was sent again can only come behind what it repeats. `CountInv`: the copies
of a message that a connection has, that are on their way to it (`Flow`) or that
Redis may yet carry out (`Load`) are at most one more than the tries without an
answer, and at most these while the handler has not done its part (`Unsent`). It
needs no condition on failures.

**Chats.** `Holds` says what a row is: the newest timestamp of the messages written
to it, with the greatest text and sender among those of that time. It is
symmetric in the writes, so two rows written with the same messages are equal
(`RowIsNewest` and then `SidesAgree`), in whatever order they came. `Saved` says how
far each save is from where its message is written. The list is a page of
`Pages(u)`, whose members are sorted by definition; what is to show is that leaving
out the peers without a name keeps the order (`Nth`, `Named`).

**Auth.** `AuthInv` says that a token was issued to the owner of its name and ends
within `TTL` from now, that the key of a revoked token lasts to its last
millisecond, that a logout under way has measured more than nothing and no less than what is left of
the token, and that a websocket's deadline is not after its token's end: the last two give
what `TypeOK` says besides types. What is left
is rounded down to a millisecond when it becomes the life of the key (`DownBounds`),
hence the last millisecond that the property leaves out.

**Startup.** `StartupInv` says that what is recorded is a prefix of the migrations
(`Schema`); that whoever applies them has seen a prefix of it, all of it and with
the lock in its hands as long as nothing has failed, and unlocks with a complete
schema or an error (`Migrates`); that an error has a cause (`Blames`); and what is
open at every place of `run` (`Holds`), including the relay goroutine. A crash, and
the loss of the connection with the lock, free the lock and leave the prefix as it
is. Then several instances apply at once, and what keeps the order is the primary
key: the next version of an instance is the next of all, or it is recorded and its
transaction fails (`NextFile`).

**ChatClient.** `ClientInv` has six parts, each inductive with those before it.
`Typed` gives types and `Numbered` says that an id is a rank: the messages that
have one are numbered from one, and whatever is stored or under way in the server
has one. `Sent` is the socket: what is on its way up is an own message without an
id, the reader owes at most an acknowledgement and an echo in this order, an echo
never stands before its acknowledgement, and an error is about a message that was
refused or lost. `Shown` ties the view to it. An entry whose message was never
affected by a lost connection (`cut`) is *sure*: while it has no id, its
acknowledgement comes before its echo, so the echo finds the id and is ignored; a
pending one is awaited; and two entries of one message are an optimistic copy,
abandoned with its connection, and one that has the id. `Pages` is about the
history: what is asked for is the open chat from the cursor, an answer under way
(`Rows`) still is the page before the cursor, without a gap, although messages were
stored since it was served, and everything typed here is newer than the cursor, so
an older page never shows a copy again. It also bounds the lists: a page is asked
for only while the list is not full. `NoHole` then follows for each step: what a
step adds or patches hides nothing (`HoleKept`), and an older page reaches from the
cursor down to the next one (`HoleShowPage`). The order of a page is `Ranked`, about
which `RankedFacts` says that every member is there once and in order.

### What the proofs asked of the models

Some definitions were written with library operators that are recursive and about
which nothing can be proved: `SelectSeq` in `ListChats`, `SetToSortSeq` in
`GetHistory`, and both of them in the web client. They are now `Named`, `Clustered`
and `Ranked`, and `MCChats`, `MCHistory` and `MCChatClient` assume, for TLC to evaluate, that they
equal the library's on all small inputs. `ClusterAssumption`, `ChatsAssumption` and
`ClientAssumption` were completed with the facts above that the arguments use. No
property had to be weakened. The parts of `ClientInv` were checked by TLC, as
invariants of the run `chat` and of an instance with two own messages, before they
were proved.

### Only model-checked

* The liveness properties (`MailboxSpec`, `HandlerReturns`, `ConnectionsEnd`,
  `EventuallySettled`, `NeverHangs`, `WebsocketsEnd`): the prover has no rules for
  fairness and ENABLED. The mailbox's log begins where a shard takes a delivery
  from its channel (`dispatched`): `MailboxSpec` shows that it is read from there
  on, not that it is taken.
* That `Named`, `Clustered` and `Ranked` are what the library's recursive operators
  compute: their definitions by rank, in contrast, are what the lemmas are about.

## 5. What is not modelled

* A connection whose `Register` lost to `Stop` is served without being in any
  map; `Hub` has that step, but `ConnectionsEnd` speaks of registered
  connections, because only the peer, a ping or a deadline ends the others.
* Rate limits (`ws/ratelimit.go`, `middleware/ratelimit.go`) and the set of known
  recipients decide whether a frame or a request is taken; the models let either
  happen. Their arithmetic is worth a module of its own (below).
* The time between `hub.Stop` and the end of the process: `run` does not wait for
  `hub.Run`, so the workers may or may not finish the save they are in. `Ingest`
  stops its claims at Stop for that reason.
* A node without Redis has no list of revoked tokens: `Auth` models nodes with one,
  on which the call may fail.
* Search, Exists and the handlers of users and messages change nothing; responses,
  configuration, logging, rendering and the load generator keep no state that the
  other parts depend on.
* In the web client: the list of conversations, the reconnect timer and the check
  of the session.

## 6. Plan

1. `RateLimit`: both token buckets in integers against a reference count per
   window; visitor clean-up; the bounded set of recipients.
2. `Tab`: the socket's life in the tab (effect, clean-up, reconnect timer, session
   check) and the list of conversations that a new message reloads.
3. The theorems that go with them; of the modules there are, no invariant is left
   to prove.
