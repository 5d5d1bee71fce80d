------------------------------- MODULE Startup -------------------------------
(***************************************************************************)
(* Server instances that start, serve and stop (run in cmd/server/main.go) *)
(* on one Postgres database, which each of them migrates when it starts    *)
(* (Migrate in internal/repository/postgres/migrate.go).                   *)
(*                                                                         *)
(* Migrate keeps one connection of the pool for a session-level advisory   *)
(* lock and takes another for its statements.  What an instance opens is   *)
(* closed by deferred calls, the last opened first; the fan-out's goroutine*)
(* is waited for, the hub's goroutines are not.  A crash of the process    *)
(* closes its connections, and with them frees the lock.                   *)
(*                                                                         *)
(* A migration is a transaction that also records its version, which is    *)
(* the primary key of schema_migrations.                                   *)
(***************************************************************************)
EXTENDS Naturals, FiniteSetsExt, SequencesExt

CONSTANTS
  Instances,
  None,
  NumFiles,     \* the embedded migrations, sorted by name
  PoolSize,     \* connections in the pool of an instance
  Configs,      \* the settings an instance may be started with
  MaxFailures,  \* bound: calls of Postgres, and connections to it, that fail
  MaxCrashes    \* bound: processes killed

Files == 1..NumFiles

ASSUME StartupAssumption ==
  /\ None \notin Instances
  /\ PoolSize \in Nat \ {0}
  /\ Configs \subseteq [required : BOOLEAN, migrate : BOOLEAN]
  /\ {NumFiles, MaxFailures, MaxCrashes} \subseteq Nat

VARIABLES
  config,    \* config[i]: STORAGE_REQUIRED and RUN_MIGRATIONS of i
  boot,      \* boot[i]: where run is
  failed,    \* failed[i]: run is about to return an error
  seen,      \* seen[i]: the versions it knows to be applied
  open,      \* open[i]: what it has opened and not closed
  hub,       \* hub[i]: the hub of i
  relay,     \* relay[i]: the goroutine of the fan-out of i
  lock,      \* the instance whose connection holds the advisory lock
  ran,       \* the migrations that were committed, in order
  failures,  \* calls of Postgres, and connections to it, that have failed
  crashes    \* processes killed (bounded by MaxCrashes)

process == <<boot, failed, seen, open, hub, relay>>
counts  == <<failures, crashes>>
vars == <<config, process, lock, ran, counts>>

Migrating == {"lock", "table", "read", "apply", "unlock"}
Closing   == {"stop", "wait", "cancel", "redis_close", "scylla_close", "pool_close"}
Boot == {"down", "scylla", "redis", "wire", "serving", "exited"} \cup Migrating \cup Closing

Init ==
  /\ config \in [Instances -> Configs]
  /\ boot = [i \in Instances |-> "down"]
  /\ failed = [i \in Instances |-> FALSE]
  /\ seen = [i \in Instances |-> {}]
  /\ open = [i \in Instances |-> {}]
  /\ hub = [i \in Instances |-> "off"]
  /\ relay = [i \in Instances |-> "off"]
  /\ lock = None
  /\ ran = <<>>
  /\ failures = 0
  /\ crashes = 0

Goto(i, s) == boot' = [boot EXCEPT ![i] = s]
GotoFailed(i, s) == Goto(i, s) /\ failed' = [failed EXCEPT ![i] = TRUE]
Fail == failures < MaxFailures /\ failures' = failures + 1 /\ UNCHANGED crashes

others == <<config, open, hub, relay>>
Move(i, from, to) ==
  /\ boot[i] = from
  /\ Goto(i, to)
  /\ UNCHANGED <<others, failed, seen, lock, ran, counts>>

Start(i) ==
  /\ boot[i] = "down"
  /\ open' = [open EXCEPT ![i] = {"pool"}]
  /\ Goto(i, IF config[i].migrate THEN "lock" ELSE "scylla")
  /\ UNCHANGED <<config, failed, seen, hub, relay, lock, ran, counts>>

-----------------------------------------------------------------------------
(* Migrate.  From "lock" on it holds a connection. *)

(* Mutant: the migrations are applied without the lock. *)
Lock_Skipped(i) == Move(i, "lock", "table")

Lock(i) ==
  /\ boot[i] = "lock" /\ lock = None
  /\ lock' = i
  /\ Goto(i, "table")
  /\ UNCHANGED <<others, failed, seen, ran, counts>>

(* No connection, or no lock. *)
LockFails(i) ==
  /\ boot[i] = "lock"
  /\ Fail
  /\ GotoFailed(i, "pool_close")
  /\ UNCHANGED <<others, seen, lock, ran>>

(* The statements go through the pool: without a second connection they
   wait, with no deadline, for the first, which Migrate keeps.             *)
SecondConnection == PoolSize > 1

CreateTable(i) == SecondConnection /\ Move(i, "table", "read")

(* What is left to apply once the versions in S are. *)
Rest(i, S) == Goto(i, IF Files \subseteq S THEN "unlock" ELSE "apply")

AppliedVersions(i) ==
  /\ boot[i] = "read" /\ SecondConnection
  /\ seen' = [seen EXCEPT ![i] = ToSet(ran)]
  /\ Rest(i, ToSet(ran))
  /\ UNCHANGED <<others, failed, lock, ran, counts>>

StatementFails(i) ==
  /\ boot[i] \in {"table", "read"}
  /\ Fail
  /\ GotoFailed(i, "unlock")
  /\ UNCHANGED <<others, seen, lock, ran>>

Commit(i, f) ==
  /\ ran' = Append(ran, f)
  /\ seen' = [seen EXCEPT ![i] = @ \cup {f}]
  /\ Rest(i, seen[i] \cup {f})
  /\ UNCHANGED failed

(* The next version that was not seen is committed with its record, unless
   somebody recorded it in between: then the transaction fails.            *)
ApplyOne(i) ==
  /\ boot[i] = "apply" /\ SecondConnection
  /\ LET f == Min(Files \ seen[i])
     IN  IF f \in ToSet(ran) THEN GotoFailed(i, "unlock") /\ UNCHANGED <<seen, ran>>
                             ELSE Commit(i, f)
  /\ UNCHANGED <<others, lock, counts>>

(* Mutant: the error of a migration does not stop the start. *)
ApplyFails_GoesOn(i) ==
  /\ boot[i] = "apply"
  /\ Fail
  /\ Goto(i, "unlock")
  /\ UNCHANGED <<others, failed, seen, lock, ran>>

(* The transaction failed, or its commit was carried out unheard. *)
ApplyFails(i) ==
  /\ boot[i] = "apply"
  /\ Fail
  /\ LET f == Min(Files \ seen[i])
     IN  ran' \in {ran} \cup (IF f \in ToSet(ran) THEN {} ELSE {Append(ran, f)})
  /\ GotoFailed(i, "unlock")
  /\ UNCHANGED <<others, seen, lock>>

AfterUnlock(i) ==
  /\ Goto(i, IF failed[i] THEN "pool_close" ELSE "scylla")
  /\ UNCHANGED <<others, failed, seen, ran>>

Released(i) == IF lock = i THEN None ELSE lock

(* On a connection that broke it fails, which is only logged. *)
Unlock(i) ==
  boot[i] = "unlock" /\ lock' = Released(i) /\ AfterUnlock(i) /\ UNCHANGED counts

(* Only logged.  The connection goes back to the pool; if it is still
   alive, so is the lock.                                                  *)
UnlockFails(i) ==
  boot[i] = "unlock" /\ Fail /\ lock' \in {lock, Released(i)} /\ AfterUnlock(i)

(* The connection with the lock breaks.  Migrate does not notice: what it
   does next goes through other connections, although it is not alone now. *)
ConnectionBreaks(i) ==
  /\ lock = i /\ boot[i] \in Migrating
  /\ Fail
  /\ lock' = None
  /\ UNCHANGED <<config, process, ran>>

(* The pool closes a connection that has reached its maximal lifetime. *)
ConnectionExpires(i) ==
  /\ lock = i /\ boot[i] \notin Migrating
  /\ lock' = None
  /\ UNCHANGED <<config, process, ran, counts>>

-----------------------------------------------------------------------------
(* The rest of run. *)

Opens(i, what, to) ==
  /\ open' = [open EXCEPT ![i] = @ \cup {what}]
  /\ Goto(i, to)
  /\ UNCHANGED <<config, failed, seen, hub, relay, lock, ran, counts>>

(* degrade: without STORAGE_REQUIRED the start goes on without the store. *)
Degrade(i, to, cleanup) ==
  /\ IF config[i].required THEN GotoFailed(i, cleanup) ELSE Goto(i, to) /\ UNCHANGED failed
  /\ UNCHANGED <<others, seen, lock, ran, counts>>

OpenScylla(i) == boot[i] = "scylla" /\ Opens(i, "scylla", "redis")
ScyllaDown(i) == boot[i] = "scylla" /\ Degrade(i, "redis", "pool_close")
OpenRedis(i)  == boot[i] = "redis" /\ Opens(i, "redis", "wire")

RedisDown(i) == boot[i] = "redis" /\ Degrade(i, "wire", "scylla_close")

(* The fan-out, if there is Redis, the hub and the router. *)
Wire(i) ==
  /\ boot[i] = "wire"
  /\ relay' = [relay EXCEPT ![i] = IF "redis" \in open[i] THEN "receive" ELSE "off"]
  /\ hub' = [hub EXCEPT ![i] = "running"]
  /\ Goto(i, "serving")
  /\ UNCHANGED <<config, failed, seen, open, lock, ran, counts>>

(* Spin returns: after a graceful signal OnShutdown stopped the hub and
   cancelled its context, after another one it did not.                    *)
Signal(i) ==
  /\ boot[i] = "serving"
  /\ hub' \in {hub, [hub EXCEPT ![i] = "stopped"]}
  /\ Goto(i, "stop")
  /\ UNCHANGED <<config, failed, seen, open, relay, lock, ran, counts>>

(* Mutant: Close does not wait for the goroutine. *)
CloseFanout_NoWait(i) == Move(i, "stop", "cancel")

(* Redis.Close: closed is closed, then the goroutine is waited for ... *)
CloseFanout(i)  == Move(i, "stop", "wait")
FanoutClosed(i) == relay[i] \in {"off", "ended"} /\ Move(i, "wait", "cancel")

(* ... then hubCancel: a goroutine of Hub.Run sees it and stops the hub. *)
Cancel(i) == Move(i, "cancel", "redis_close")

Closes(i, what, from, to) ==
  /\ boot[i] = from
  /\ open' = [open EXCEPT ![i] = @ \ {what}]
  /\ lock' = IF what = "pool" THEN Released(i) ELSE lock
  /\ Goto(i, to)
  /\ UNCHANGED <<config, failed, seen, hub, relay, ran, counts>>

CloseRedis(i)  == Closes(i, "redis", "redis_close", "scylla_close")
CloseScylla(i) == Closes(i, "scylla", "scylla_close", "pool_close")
ClosePool(i)   == Closes(i, "pool", "pool_close", "exited")

(* The process is killed, and started again. *)
Crash(i) ==
  /\ boot[i] \notin {"down", "exited"}
  /\ crashes < MaxCrashes /\ crashes' = crashes + 1
  /\ Goto(i, "down")
  /\ failed' = [failed EXCEPT ![i] = FALSE]
  /\ seen' = [seen EXCEPT ![i] = {}]
  /\ open' = [open EXCEPT ![i] = {}]
  /\ hub' = [hub EXCEPT ![i] = "off"]
  /\ relay' = [relay EXCEPT ![i] = "off"]
  /\ lock' = Released(i)
  /\ UNCHANGED <<config, ran, failures>>

-----------------------------------------------------------------------------
(* The goroutines that outlive a step of run. *)

HubStops(i) ==
  /\ hub[i] = "running" /\ boot[i] \in {"redis_close", "scylla_close", "pool_close"}
  /\ hub' = [hub EXCEPT ![i] = "stopped"]
  /\ UNCHANGED <<config, boot, failed, seen, open, relay, lock, ran, counts>>

Relay(i, from, to) ==
  /\ relay[i] \in from
  /\ relay' = [relay EXCEPT ![i] = to]
  /\ UNCHANGED <<config, boot, failed, seen, open, hub, lock, ran, counts>>

(* Redis.run: a message is received and handed to the hub; both wait for
   the context and for Close, too.                                         *)
RelayReceives(i)  == Relay(i, {"receive"}, "hand over")
RelayHandsOver(i) == hub[i] = "running" /\ Relay(i, {"hand over"}, "receive")

Ending(i) == hub[i] = "stopped" \/ boot[i] \in Closing \ {"stop"}

(* Mutant: the goroutine looks at closed and ctx only between messages. *)
RelayEnds_BetweenMessages(i) == Ending(i) /\ Relay(i, {"receive"}, "ended")

RelayEnds(i) == Ending(i) /\ Relay(i, {"receive", "hand over"}, "ended")

Migrate(i) ==
  \/ Lock(i) \/ LockFails(i) \/ CreateTable(i) \/ AppliedVersions(i)
  \/ StatementFails(i) \/ ApplyOne(i) \/ ApplyFails(i)
  \/ Unlock(i) \/ UnlockFails(i)

Run(i) ==
  \/ Start(i) \/ Migrate(i)
  \/ OpenScylla(i) \/ ScyllaDown(i) \/ OpenRedis(i) \/ RedisDown(i) \/ Wire(i)
  \/ CloseFanout(i) \/ FanoutClosed(i) \/ Cancel(i)
  \/ CloseRedis(i) \/ CloseScylla(i) \/ ClosePool(i)

Next == \E i \in Instances :
  \/ Run(i) \/ Signal(i) \/ Crash(i) \/ ConnectionBreaks(i) \/ ConnectionExpires(i)
  \/ RelayReceives(i) \/ RelayHandsOver(i) \/ RelayEnds(i) \/ HubStops(i)

(* run and the fan-out's goroutine go on; connections have a lifetime. *)
Fairness == \A i \in Instances :
  WF_vars(Run(i)) /\ WF_vars(RelayEnds(i)) /\ WF_vars(ConnectionExpires(i))

Spec == Init /\ [][Next]_vars /\ Fairness

-----------------------------------------------------------------------------
(* While no call fails and no connection breaks, an instance at work on the
   schema holds the lock; it knows only of versions that are recorded.     *)
TypeOK ==
  /\ config \in [Instances -> Configs]
  /\ boot \in [Instances -> Boot]
  /\ failed \in [Instances -> BOOLEAN]
  /\ seen \in [Instances -> SUBSET Files]
  /\ \A i \in Instances : seen[i] \subseteq ToSet(ran)
  /\ failures = 0 => \A i \in Instances : boot[i] \in Migrating \ {"lock"} => lock = i
  /\ open \in [Instances -> SUBSET {"pool", "scylla", "redis"}]
  /\ hub \in [Instances -> {"off", "running", "stopped"}]
  /\ relay \in [Instances -> {"off", "receive", "hand over", "ended"}]
  /\ lock \in Instances \cup {None}
  /\ ran \in Seq(Files)
  /\ failures \in 0..MaxFailures /\ crashes \in 0..MaxCrashes

(* README: migrations are "applied at startup under an advisory lock, so
   several instances can boot at once".  Every migration is applied once and
   after the ones before it, whoever crashes and whatever fails, also when
   the lock is lost and two of them migrate at once; an instance that
   migrates serves only on the complete schema, although another may have
   applied it; and it fails to migrate only if a call of Postgres failed or
   the lock was lost, never because another instance was migrating.        *)
BootsTogether ==
  /\ \A k \in DOMAIN ran : ran[k] = k
  /\ \A i \in Instances :
       boot[i] \in {"wire", "serving"} /\ config[i].migrate => ToSet(ran) = Files
  /\ failures = 0 => \A i \in Instances : boot[i] \in Migrating => ~failed[i]

(* With STORAGE_REQUIRED, an instance that serves has both stores.  A start
   that fails, wherever it fails, and a shutdown close all that was opened,
   and the goroutine of the fan-out never runs on a closed Redis client.    *)
NothingLeaks == \A i \in Instances :
  /\ boot[i] = "serving" /\ config[i].required => open[i] = {"pool", "scylla", "redis"}
  /\ boot[i] = "exited" => open[i] = {} /\ lock # i
  /\ relay[i] \in {"receive", "hand over"} => "redis" \in open[i]

(* Whoever waits gets on: an instance for the advisory lock, which is never
   left behind, whatever fails while it is held, and a shutdown for the
   goroutine of the fan-out, whatever that is waiting for.                 *)
NeverHangs == \A i \in Instances :
  boot[i] \in Migrating \cup Closing ~> boot[i] \in {"scylla", "exited", "down"}

=============================================================================
