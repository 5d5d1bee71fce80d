---------------------------- MODULE StartupProofs ----------------------------
(* Theorems about Startup, for any instances, migrations and pools. *)
EXTENDS Startup, TLAPS

LEMMA Numbers ==
  /\ None \notin Instances
  /\ Configs \subseteq [required : BOOLEAN, migrate : BOOLEAN]
  /\ NumFiles \in Nat /\ MaxFailures \in Nat /\ MaxCrashes \in Nat
  BY StartupAssumption DEF StartupAssumption

(***************************************************************************)
(* The inductive invariant.                                                *)
(***************************************************************************)
Typed ==
  /\ config \in [Instances -> Configs]
  /\ boot \in [Instances -> Boot]
  /\ failed \in [Instances -> BOOLEAN]
  /\ seen \in [Instances -> SUBSET Files]
  /\ open \in [Instances -> SUBSET {"pool", "scylla", "redis"}]
  /\ hub \in [Instances -> {"off", "running", "stopped"}]
  /\ relay \in [Instances -> {"off", "receive", "hand over", "ended"}]
  /\ lock \in Instances \cup {None}
  /\ ran \in Seq(Files)
  /\ failures \in 0..MaxFailures /\ crashes \in 0..MaxCrashes

(* The migrations are committed in their order, without a gap. *)
Schema == Len(ran) <= NumFiles /\ \A k \in 1..Len(ran) : ran[k] = k

Complete == Files \subseteq ToSet(ran)

(* While nothing fails, whoever is past the lock holds it, and then nobody
   else commits: what it has seen applied is all that is.  Without the lock
   it is still the beginning of what is.                                   *)
Migrates(i) ==
  /\ seen[i] \subseteq ToSet(ran)
  /\ boot[i] \in {"table", "read", "apply", "unlock"} => failures > 0 \/ lock = i
  /\ boot[i] = "apply" => /\ failures > 0 \/ seen[i] = ToSet(ran)
                          /\ \E n \in Nat : n < NumFiles /\ seen[i] = 1..n
  /\ boot[i] = "unlock" => failed[i] \/ Complete
  /\ boot[i] \in {"scylla", "redis", "wire", "serving"} /\ config[i].migrate => Complete

(* An error has a cause. *)
Blames(i) ==
  /\ boot[i] = "down" => ~failed[i]
  /\ boot[i] \in Migrating /\ failed[i] => failures > 0

(* What is open at each place of run. *)
Holds(i) ==
  /\ boot[i] \in {"down", "exited"} => open[i] = {}
  /\ boot[i] = "exited" => lock # i
  /\ boot[i] \in Migrating \cup {"scylla"} => open[i] = {"pool"}
  /\ boot[i] = "pool_close" => open[i] \subseteq {"pool"}
  /\ boot[i] \in {"redis", "scylla_close"} => open[i] \subseteq {"pool", "scylla"}
  /\ config[i].required =>
       /\ boot[i] = "redis" => open[i] = {"pool", "scylla"}
       /\ boot[i] \in {"wire", "serving"} => open[i] = {"pool", "scylla", "redis"}
  /\ relay[i] \in {"receive", "hand over"} =>
       boot[i] \in {"serving", "stop", "wait"} /\ "redis" \in open[i]

Local(i) == Migrates(i) /\ Blames(i) /\ Holds(i)

StartupInv == Typed /\ Schema /\ \A i \in Instances : Local(i)

-----------------------------------------------------------------------------
(* What a list of migrations contains. *)
LEMMA AppendSet ==
  ASSUME NEW S, NEW s \in Seq(S), NEW e \in S
  PROVE  /\ ToSet(Append(s, e)) = ToSet(s) \cup {e}
         /\ Append(s, e) \in Seq(S) /\ Len(Append(s, e)) = Len(s) + 1
         /\ \A k \in 1..Len(s) : Append(s, e)[k] = s[k]
         /\ Append(s, e)[Len(s) + 1] = e
  BY DEF ToSet

LEMMA SchemaSet ==
  ASSUME StartupInv
  PROVE  ToSet(ran) = 1..Len(ran) /\ Len(ran) \in 0..NumFiles
<1>1. ran \in Seq(Files) /\ Len(ran) \in Nat /\ DOMAIN ran = 1..Len(ran)
  <2>1. ran \in Seq(Files)
    BY DEF StartupInv, Typed
  <2> QED
    BY <2>1
<1>2. Len(ran) <= NumFiles /\ \A k \in 1..Len(ran) : ran[k] = k
  BY DEF StartupInv, Schema
<1>3. ToSet(ran) = 1..Len(ran)
  BY <1>1, <1>2 DEF ToSet
<1> QED
  BY <1>1, <1>2, <1>3, Numbers

LEMMA LeastFile ==
  ASSUME NEW n \in Nat, n < NumFiles
  PROVE  Min(Files \ (1..n)) = n + 1
<1>1. /\ n + 1 \in Files \ (1..n)
      /\ \A y \in Files \ (1..n) : n + 1 =< y
  BY Numbers DEF Files
<1>2. \A x \in Files \ (1..n) : x =< n + 1 => x = n + 1
  BY <1>1, Numbers DEF Files
<1> QED
  BY <1>1, <1>2 DEF Min

(* The next migration is the one after those that were seen.  If it is not
   recorded, it is the one after those that were committed; if it is, by
   somebody else, something has failed.                                    *)
LEMMA NextFile ==
  ASSUME StartupInv, NEW i \in Instances, boot[i] = "apply"
  PROVE  LET f == Min(Files \ seen[i])
         IN  /\ f \in Files /\ seen[i] = 1..(f - 1)
             /\ IF f \in ToSet(ran) THEN failures > 0 ELSE f = Len(ran) + 1
<1>1. Local(i) /\ failures \in Nat
  <2>1. failures \in 0..MaxFailures
    BY DEF StartupInv, Typed
  <2> QED
    BY <2>1, Numbers DEF StartupInv
<1>2. PICK n \in Nat : n < NumFiles /\ seen[i] = 1..n
  BY <1>1 DEF Local, Migrates
<1>3. Min(Files \ seen[i]) = n + 1
  BY <1>2, LeastFile
<1>4. /\ seen[i] \subseteq ToSet(ran)
      /\ failures > 0 \/ seen[i] = ToSet(ran)
  BY <1>1 DEF Local, Migrates
<1>5. ToSet(ran) = 1..Len(ran) /\ Len(ran) \in Nat
  BY SchemaSet, Numbers
<1>6. IF n + 1 \in ToSet(ran) THEN failures > 0 ELSE n + 1 = Len(ran) + 1
  <2>1. CASE n + 1 \in ToSet(ran)
    BY <1>2, <1>4, <2>1
  <2>2. CASE n + 1 \notin ToSet(ran)
    <3>1. Len(ran) <= n
      BY <1>2, <1>5, <2>2
    <3>2. n = 0 \/ n \in seen[i]
      BY <1>2
    <3> QED
      BY <1>4, <1>5, <2>2, <3>1, <3>2
  <2> QED
    BY <2>1, <2>2
<1> QED
  BY <1>2, <1>3, <1>6, Numbers DEF Files

(* Committing it keeps the schema in order. *)
LEMMA CommitSchema ==
  ASSUME StartupInv, NEW i \in Instances, boot[i] = "apply",
         Min(Files \ seen[i]) \notin ToSet(ran),
         ran' = Append(ran, Min(Files \ seen[i]))
  PROVE  /\ ran' \in Seq(Files) /\ Schema'
         /\ ToSet(ran)' = ToSet(ran) \cup {Min(Files \ seen[i])}
<1> DEFINE f == Min(Files \ seen[i])
<1>1. f = Len(ran) + 1 /\ f \in Files
  BY NextFile
<1> HIDE DEF f
<1>2. ran \in Seq(Files) /\ ran' = Append(ran, f)
  BY DEF StartupInv, Typed, f
<1>3. /\ ran' \in Seq(Files) /\ ToSet(ran') = ToSet(ran) \cup {f}
      /\ Len(ran') = Len(ran) + 1 /\ ran'[Len(ran) + 1] = f
      /\ \A k \in 1..Len(ran) : ran'[k] = ran[k]
  <2>1. /\ ToSet(Append(ran, f)) = ToSet(ran) \cup {f}
        /\ Append(ran, f) \in Seq(Files) /\ Len(Append(ran, f)) = Len(ran) + 1
        /\ \A k \in 1..Len(ran) : Append(ran, f)[k] = ran[k]
        /\ Append(ran, f)[Len(ran) + 1] = f
    BY <1>1, <1>2, AppendSet
  <2> QED
    BY <1>2, <2>1
<1>4. Schema'
  <2>1. Len(ran) \in Nat /\ \A k \in 1..Len(ran) : ran[k] = k
    BY <1>2 DEF StartupInv, Schema
  <2>2. Len(ran') <= NumFiles
    BY <1>1, <1>3, <2>1, Numbers DEF Files
  <2>3. ASSUME NEW k \in 1..Len(ran') PROVE ran'[k] = k
    BY <1>1, <1>3, <2>1
  <2> QED
    BY <2>2, <2>3 DEF Schema
<1> QED
  BY <1>3, <1>4 DEF f

-----------------------------------------------------------------------------
(* A step of instance i that leaves the state of the others alone. *)
Only(i) ==
  /\ config' = config
  /\ \A j \in Instances \ {i} :
       /\ boot'[j] = boot[j] /\ failed'[j] = failed[j] /\ seen'[j] = seen[j]
       /\ open'[j] = open[j] /\ relay'[j] = relay[j]

LEMMA OneStep ==
  ASSUME StartupInv, NEW i \in Instances, Only(i),
         ToSet(ran) \subseteq ToSet(ran)', ran' = ran \/ lock = i \/ failures' > 0,
         lock' \in {lock, None, i}, lock \in {None, i} \/ lock' = lock,
         failures' >= failures,
         Typed', Schema', Local(i)'
  PROVE  StartupInv'
<1> SUFFICES ASSUME NEW j \in Instances, j # i PROVE Local(j)'
  BY DEF StartupInv
<1>1. Local(j) /\ failures \in Nat /\ failures' \in Nat /\ j # None
  <2>1. failures \in 0..MaxFailures /\ failures' \in 0..MaxFailures
    BY DEF StartupInv, Typed
  <2> QED
    BY <2>1, Numbers DEF StartupInv
<1>2. /\ config' = config
      /\ boot'[j] = boot[j] /\ failed'[j] = failed[j] /\ seen'[j] = seen[j]
      /\ open'[j] = open[j] /\ relay'[j] = relay[j]
  BY DEF Only
<1>3. Migrates(j)'
  BY <1>1, <1>2 DEF Local, Migrates, Complete
<1>4. Blames(j)'
  BY <1>1, <1>2 DEF Local, Blames
<1>5. Holds(j)'
  BY <1>1, <1>2 DEF Local, Holds
<1> QED
  BY <1>3, <1>4, <1>5 DEF Local

(* Most steps commit nothing. *)
LEMMA QuietStep ==
  ASSUME StartupInv, NEW i \in Instances, Only(i), ran' = ran,
         lock' \in {lock, None, i}, lock \in {None, i} \/ lock' = lock,
         failures' >= failures, Typed', Local(i)'
  PROVE  StartupInv'
<1>1. Schema'
  BY DEF StartupInv, Schema
<1> QED
  BY <1>1, OneStep

LEMMA FailType ==
  ASSUME StartupInv, Fail
  PROVE  /\ failures' \in 0..MaxFailures /\ crashes' \in 0..MaxCrashes
         /\ failures' >= failures /\ failures' > 0
<1>1. failures \in 0..MaxFailures /\ crashes \in 0..MaxCrashes
  BY DEF StartupInv, Typed
<1>2. failures' = failures + 1 /\ failures < MaxFailures /\ crashes' = crashes
  BY DEF Fail
<1> QED
  BY <1>1, <1>2, Numbers

LEMMA Counts ==
  ASSUME StartupInv
  PROVE  failures \in Nat /\ failures >= failures
<1>1. failures \in 0..MaxFailures
  BY DEF StartupInv, Typed
<1> QED
  BY <1>1, Numbers

LEMMA InvInit == ASSUME Init PROVE StartupInv
<1>1. 0 \in 0..MaxFailures /\ 0 \in 0..MaxCrashes
  BY Numbers
<1>2. Typed
  BY <1>1 DEF Init, Typed, Boot
<1>3. Schema
  BY Numbers DEF Init, Schema
<1>4. ASSUME NEW i \in Instances PROVE Local(i)
  <2>1. Migrates(i)
    BY DEF Init, Migrates
  <2>2. Blames(i)
    BY DEF Init, Blames, Migrating
  <2>3. Holds(i)
    BY DEF Init, Holds, Migrating
  <2> QED
    BY <2>1, <2>2, <2>3 DEF Local
<1> QED
  BY <1>2, <1>3, <1>4 DEF StartupInv

-----------------------------------------------------------------------------
(* Migrate. *)

(* A move within run that opens, closes and commits nothing. *)
LEMMA InvMove ==
  ASSUME StartupInv, NEW i \in Instances,
         \/ CreateTable(i) \/ CloseFanout(i) \/ FanoutClosed(i) \/ Cancel(i)
  PROVE  StartupInv'
<1>1. \E from, to : /\ <<from, to>> \in {<<"table", "read">>, <<"stop", "wait">>,
                                         <<"wait", "cancel">>, <<"cancel", "redis_close">>}
                    /\ from = "wait" => relay[i] \in {"off", "ended"}
                    /\ Move(i, from, to)
  BY DEF CreateTable, CloseFanout, FanoutClosed, Cancel
<1>2. PICK from, to : /\ <<from, to>> \in {<<"table", "read">>, <<"stop", "wait">>,
                                         <<"wait", "cancel">>, <<"cancel", "redis_close">>}
                      /\ from = "wait" => relay[i] \in {"off", "ended"}
                      /\ Move(i, from, to)
  BY <1>1
<1>3. /\ boot[i] = from /\ boot' = [boot EXCEPT ![i] = to]
      /\ UNCHANGED <<config, open, hub, relay, failed, seen, lock, ran, failures, crashes>>
  BY <1>2 DEF Move, Goto, others, counts
<1>4. Typed'
  BY <1>2, <1>3 DEF StartupInv, Typed, Boot, Migrating, Closing
<1>5. boot'[i] = to /\ Only(i)
  BY <1>3 DEF StartupInv, Typed, Only
<1>6. Local(i)
  BY DEF StartupInv
<1>7. Migrates(i)'
  BY <1>2, <1>3, <1>5, <1>6 DEF Local, Migrates, Complete
<1>8. Blames(i)'
  BY <1>2, <1>3, <1>5, <1>6 DEF Local, Blames, Migrating
<1>9. Holds(i)'
  BY <1>2, <1>3, <1>5, <1>6 DEF Local, Holds, Migrating
<1> QED
  BY <1>3, <1>4, <1>5, <1>7, <1>8, <1>9, Counts, QuietStep DEF Local

LEMMA InvStart == ASSUME StartupInv, NEW i \in Instances, Start(i) PROVE StartupInv'
<1>1. /\ boot[i] = "down"
      /\ boot' = [boot EXCEPT ![i] = IF config[i].migrate THEN "lock" ELSE "scylla"]
      /\ open' = [open EXCEPT ![i] = {"pool"}]
      /\ UNCHANGED <<config, hub, relay, failed, seen, lock, ran, failures, crashes>>
  BY DEF Start, Goto, counts
<1>2. Typed'
  BY <1>1 DEF StartupInv, Typed, Boot, Migrating
<1>3. /\ Only(i) /\ open'[i] = {"pool"}
      /\ boot'[i] = IF config[i].migrate THEN "lock" ELSE "scylla"
  BY <1>1 DEF StartupInv, Typed, Only
<1>4. Local(i)
  BY DEF StartupInv
<1>5. Migrates(i)'
  BY <1>1, <1>3, <1>4 DEF Local, Migrates, Complete
<1>6. Blames(i)'
  BY <1>1, <1>3, <1>4 DEF Local, Blames, Migrating
<1>7. Holds(i)'
  <2>1. boot'[i] \in {"lock", "scylla"}
    BY <1>3
  <2> QED
    BY <1>1, <1>3, <1>4, <2>1 DEF Local, Holds, Migrating
<1> QED
  BY <1>1, <1>2, <1>3, <1>5, <1>6, <1>7, Counts, QuietStep DEF Local

LEMMA InvLock == ASSUME StartupInv, NEW i \in Instances, Lock(i) PROVE StartupInv'
<1>1. /\ boot[i] = "lock" /\ lock = None /\ lock' = i
      /\ boot' = [boot EXCEPT ![i] = "table"]
      /\ UNCHANGED <<config, open, hub, relay, failed, seen, ran, failures, crashes>>
  BY DEF Lock, Goto, counts, others
<1>2. Typed'
  BY <1>1 DEF StartupInv, Typed, Boot, Migrating
<1>3. Only(i) /\ boot'[i] = "table"
  BY <1>1 DEF StartupInv, Typed, Only
<1>4. Local(i)
  BY DEF StartupInv
<1>5. Migrates(i)'
  BY <1>1, <1>3, <1>4 DEF Local, Migrates, Complete
<1>6. Blames(i)'
  BY <1>1, <1>3, <1>4 DEF Local, Blames, Migrating
<1>7. Holds(i)'
  BY <1>1, <1>3, <1>4 DEF Local, Holds, Migrating
<1> QED
  BY <1>1, <1>2, <1>3, <1>5, <1>6, <1>7, Counts, QuietStep DEF Local

(* A failing call leaves Migrate with an error. *)
LEMMA InvMigrateFails ==
  ASSUME StartupInv, NEW i \in Instances, LockFails(i) \/ StatementFails(i)
  PROVE  StartupInv'
<1>1. PICK to \in {"pool_close", "unlock"} :
        /\ \/ boot[i] = "lock" /\ to = "pool_close"
           \/ boot[i] \in {"table", "read"} /\ to = "unlock"
        /\ boot' = [boot EXCEPT ![i] = to]
        /\ failed' = [failed EXCEPT ![i] = TRUE]
        /\ Fail
        /\ UNCHANGED <<config, open, hub, relay, seen, lock, ran>>
  BY DEF LockFails, StatementFails, GotoFailed, Goto, others
<1>2. Typed'
  <2>1. failures' \in 0..MaxFailures /\ crashes' \in 0..MaxCrashes
    BY <1>1, FailType
  <2> QED
    BY <1>1, <2>1 DEF StartupInv, Typed, Boot, Migrating, Closing
<1>3. Only(i) /\ boot'[i] = to /\ failed'[i]
  BY <1>1 DEF StartupInv, Typed, Only
<1>4. Local(i) /\ failures' > 0 /\ failures' >= failures
  BY <1>1, FailType DEF StartupInv
<1>5. Migrates(i)'
  BY <1>1, <1>3, <1>4 DEF Local, Migrates, Complete
<1>6. Blames(i)'
  BY <1>1, <1>3, <1>4 DEF Local, Blames, Migrating
<1>7. Holds(i)'
  BY <1>1, <1>3, <1>4 DEF Local, Holds, Migrating
<1> QED
  BY <1>1, <1>2, <1>3, <1>4, <1>5, <1>6, <1>7, QuietStep DEF Local

(* What the instance has seen is all that was committed. *)
LEMMA InvAppliedVersions ==
  ASSUME StartupInv, NEW i \in Instances, AppliedVersions(i)
  PROVE  StartupInv'
<1>1. PICK to \in {"unlock", "apply"} :
        /\ to = "unlock" <=> Complete
        /\ boot[i] = "read" /\ boot' = [boot EXCEPT ![i] = to]
        /\ seen' = [seen EXCEPT ![i] = ToSet(ran)]
        /\ UNCHANGED <<config, open, hub, relay, failed, lock, ran, failures, crashes>>
  <2> DEFINE to == IF Files \subseteq ToSet(ran) THEN "unlock" ELSE "apply"
  <2>1. /\ to \in {"unlock", "apply"} /\ (to = "unlock" <=> Complete)
    BY DEF Complete
  <2>2. /\ boot[i] = "read" /\ boot' = [boot EXCEPT ![i] = to]
        /\ seen' = [seen EXCEPT ![i] = ToSet(ran)]
        /\ UNCHANGED <<config, open, hub, relay, failed, lock, ran, failures, crashes>>
    BY DEF AppliedVersions, Rest, Goto, others, counts
  <2> HIDE DEF to
  <2> QED
    BY <2>1, <2>2
<1>2. ToSet(ran) \subseteq Files
  BY SchemaSet, Numbers DEF Files
<1>3. Typed'
  BY <1>1, <1>2 DEF StartupInv, Typed, Boot, Migrating
<1>4. Only(i) /\ boot'[i] = to /\ seen'[i] = ToSet(ran)
  BY <1>1 DEF StartupInv, Typed, Only
<1>5. Local(i)
  BY DEF StartupInv
<1>6. Migrates(i)'
  <2>1. to = "apply" => \E n \in Nat : n < NumFiles /\ ToSet(ran) = 1..n
    BY <1>1, SchemaSet, Numbers DEF Complete, Files
  <2> QED
    BY <1>1, <1>4, <1>5, <2>1 DEF Local, Migrates, Complete
<1>7. Blames(i)'
  BY <1>1, <1>4, <1>5 DEF Local, Blames, Migrating
<1>8. Holds(i)'
  BY <1>1, <1>4, <1>5 DEF Local, Holds, Migrating
<1> QED
  BY <1>1, <1>3, <1>4, <1>6, <1>7, <1>8, Counts, QuietStep DEF Local

(* Somebody else has recorded the migration that comes next. *)
LEMMA InvApplyTwice ==
  ASSUME StartupInv, NEW i \in Instances, ApplyOne(i), Min(Files \ seen[i]) \in ToSet(ran)
  PROVE  StartupInv'
<1>1. /\ boot[i] = "apply" /\ failures > 0
      /\ boot' = [boot EXCEPT ![i] = "unlock"] /\ failed' = [failed EXCEPT ![i] = TRUE]
      /\ UNCHANGED <<config, open, hub, relay, seen, lock, ran, failures, crashes>>
  BY NextFile DEF ApplyOne, GotoFailed, Goto, others, counts
<1>2. Typed'
  BY <1>1 DEF StartupInv, Typed, Boot, Migrating
<1>3. Only(i) /\ boot'[i] = "unlock" /\ failed'[i]
  BY <1>1 DEF StartupInv, Typed, Only
<1>4. Local(i)
  BY DEF StartupInv
<1>5. Migrates(i)'
  BY <1>1, <1>3, <1>4 DEF Local, Migrates
<1>6. Blames(i)'
  BY <1>1, <1>3, <1>4 DEF Local, Blames, Migrating
<1>7. Holds(i)'
  BY <1>1, <1>3, <1>4 DEF Local, Holds, Migrating
<1> QED
  BY <1>1, <1>2, <1>3, <1>5, <1>6, <1>7, Counts, QuietStep DEF Local

(* Nobody has: while nothing fails, nobody else commits. *)
LEMMA InvApplyOne ==
  ASSUME StartupInv, NEW i \in Instances, ApplyOne(i), Min(Files \ seen[i]) \notin ToSet(ran)
  PROVE  StartupInv'
<1> DEFINE f == Min(Files \ seen[i])
<1>1. /\ boot[i] = "apply" /\ f \in Files /\ f \notin ToSet(ran)
      /\ seen[i] = 1..(f - 1) /\ Commit(i, f)
      /\ UNCHANGED <<config, open, hub, relay, lock, failures, crashes>>
  BY NextFile DEF ApplyOne, others, counts
<1>2. /\ ran' = Append(ran, f) /\ UNCHANGED failed
      /\ seen' = [seen EXCEPT ![i] = @ \cup {f}]
      /\ Rest(i, seen[i] \cup {f})
  BY <1>1 DEF Commit
<1>3. /\ ran' \in Seq(Files) /\ Schema'
      /\ ToSet(ran)' = ToSet(ran) \cup {f}
  BY <1>1, <1>2, CommitSchema
<1> HIDE DEF f
<1>4. PICK to \in {"unlock", "apply"} :
        /\ to = "unlock" <=> Files \subseteq seen[i] \cup {f}
        /\ boot' = [boot EXCEPT ![i] = to]
  <2> DEFINE to == IF Files \subseteq seen[i] \cup {f} THEN "unlock" ELSE "apply"
  <2>1. to \in {"unlock", "apply"} /\ (to = "unlock" <=> Files \subseteq seen[i] \cup {f})
    OBVIOUS
  <2>2. boot' = [boot EXCEPT ![i] = to]
    BY <1>2 DEF Rest, Goto
  <2> HIDE DEF to
  <2> QED
    BY <2>1, <2>2
<1>5. Typed'
  BY <1>1, <1>2, <1>3, <1>4 DEF StartupInv, Typed, Boot, Migrating
<1>6. Only(i) /\ boot'[i] = to /\ seen'[i] = seen[i] \cup {f}
  BY <1>1, <1>2, <1>3, <1>4 DEF StartupInv, Typed, Only
<1>7. Local(i)
  BY DEF StartupInv
<1>8. /\ seen'[i] \subseteq ToSet(ran)'
      /\ lock = i \/ (failures > 0 /\ failures' > 0)
      /\ failures' > 0 \/ seen'[i] = ToSet(ran)'
  BY <1>1, <1>3, <1>6, <1>7 DEF Local, Migrates
<1>9. Migrates(i)'
  <2>1. to = "unlock" => Complete'
    BY <1>4, <1>6, <1>8 DEF Complete
  <2>2. to = "apply" => \E n \in Nat : n < NumFiles /\ seen'[i] = 1..n
    <3>1. seen'[i] = 1..f /\ f \in Nat /\ f <= NumFiles
      BY <1>1, <1>6, Numbers DEF Files
    <3>2. to = "apply" => f # NumFiles
      BY <1>4, <1>6, <3>1 DEF Files
    <3> QED
      BY <3>1, <3>2, Numbers
  <2> QED
    BY <1>1, <1>4, <1>6, <1>8, <2>1, <2>2 DEF Migrates
<1>10. Blames(i)'
  BY <1>1, <1>2, <1>4, <1>6, <1>7 DEF Local, Blames, Migrating
<1>11. Holds(i)'
  BY <1>1, <1>4, <1>6, <1>7 DEF Local, Holds, Migrating
<1> QED
  BY <1>1, <1>3, <1>5, <1>6, <1>8, <1>9, <1>10, <1>11, Counts, OneStep DEF Local

LEMMA InvApplyFails ==
  ASSUME StartupInv, NEW i \in Instances, ApplyFails(i)
  PROVE  StartupInv'
<1> DEFINE f == Min(Files \ seen[i])
<1>1. /\ boot[i] = "apply" /\ Fail
      /\ boot' = [boot EXCEPT ![i] = "unlock"]
      /\ failed' = [failed EXCEPT ![i] = TRUE]
      /\ ran' = ran \/ (f \notin ToSet(ran) /\ ran' = Append(ran, f))
      /\ UNCHANGED <<config, open, hub, relay, seen, lock>>
  BY DEF ApplyFails, GotoFailed, Goto, others
<1>2. ran' \in Seq(Files) /\ Schema' /\ ToSet(ran) \subseteq ToSet(ran)'
  <2>1. CASE ran' = ran
    BY <2>1 DEF StartupInv, Typed, Schema
  <2>2. CASE f \notin ToSet(ran) /\ ran' = Append(ran, f)
    BY <1>1, <2>2, CommitSchema
  <2> QED
    BY <1>1, <2>1, <2>2
<1> HIDE DEF f
<1>3. Typed'
  <2>1. failures' \in 0..MaxFailures /\ crashes' \in 0..MaxCrashes
    BY <1>1, FailType
  <2> QED
    BY <1>1, <1>2, <2>1 DEF StartupInv, Typed, Boot, Migrating
<1>4. Only(i) /\ boot'[i] = "unlock" /\ failed'[i]
  BY <1>1 DEF StartupInv, Typed, Only
<1>5. Local(i) /\ failures' > 0 /\ failures' >= failures
  BY <1>1, FailType DEF StartupInv
<1>6. Migrates(i)'
  BY <1>1, <1>2, <1>4, <1>5 DEF Local, Migrates
<1>7. Blames(i)'
  BY <1>1, <1>4, <1>5 DEF Local, Blames, Migrating
<1>8. Holds(i)'
  BY <1>1, <1>4, <1>5 DEF Local, Holds, Migrating
<1> QED
  BY <1>1, <1>2, <1>3, <1>4, <1>5, <1>6, <1>7, <1>8, OneStep DEF Local

(* The lock may stay with the connection, which is back in the pool. *)
LEMMA InvUnlock ==
  ASSUME StartupInv, NEW i \in Instances, Unlock(i) \/ UnlockFails(i)
  PROVE  StartupInv'
<1>1. /\ boot[i] = "unlock" /\ lock' \in {lock, None} /\ (lock # i => lock' = lock)
      /\ boot' = [boot EXCEPT ![i] = IF failed[i] THEN "pool_close" ELSE "scylla"]
      /\ UNCHANGED <<config, open, hub, relay, failed, seen, ran>>
  BY DEF Unlock, UnlockFails, Released, AfterUnlock, Goto, others
<1>2. /\ failures' \in 0..MaxFailures /\ crashes' \in 0..MaxCrashes
      /\ failures' >= failures
  BY FailType, Counts DEF Unlock, UnlockFails, counts, StartupInv, Typed
<1>3. lock' \in Instances \cup {None}
  BY <1>1 DEF StartupInv, Typed
<1>4. Typed'
  BY <1>1, <1>2, <1>3 DEF StartupInv, Typed, Boot, Closing
<1>5. Only(i) /\ boot'[i] = IF failed[i] THEN "pool_close" ELSE "scylla"
  BY <1>1 DEF StartupInv, Typed, Only
<1>6. Local(i)
  BY DEF StartupInv
<1>7. Migrates(i)'
  BY <1>1, <1>5, <1>6 DEF Local, Migrates, Complete
<1>8. Blames(i)'
  BY <1>1, <1>5, <1>6 DEF Local, Blames, Migrating
<1>9. Holds(i)'
  <2>1. boot'[i] \in {"pool_close", "scylla"}
    BY <1>5
  <2> QED
    BY <1>1, <1>5, <1>6, <2>1 DEF Local, Holds, Migrating
<1> QED
  BY <1>1, <1>2, <1>4, <1>5, <1>6, <1>7, <1>8, <1>9, QuietStep DEF Local

(* The lock goes with its connection, whether Migrate needs it or not. *)
LEMMA InvConnection ==
  ASSUME StartupInv, NEW i \in Instances, ConnectionBreaks(i) \/ ConnectionExpires(i)
  PROVE  StartupInv'
<1>1. /\ lock = i /\ lock' = None
      /\ UNCHANGED <<config, boot, failed, seen, open, hub, relay, ran>>
  BY DEF ConnectionBreaks, ConnectionExpires, process
<1>2. /\ failures' \in 0..MaxFailures /\ crashes' \in 0..MaxCrashes
      /\ failures' >= failures /\ failures \in Nat
      /\ failures' > 0 \/ (failures' = failures /\ boot[i] \notin Migrating)
  <2>1. CASE ConnectionBreaks(i)
    BY <2>1, FailType, Counts DEF ConnectionBreaks
  <2>2. CASE ConnectionExpires(i)
    BY <2>2, Counts DEF ConnectionExpires, counts, StartupInv, Typed
  <2> QED
    BY <2>1, <2>2
<1>3. Typed' /\ Only(i)
  BY <1>1, <1>2 DEF StartupInv, Typed, Only
<1>4. Local(i) /\ i # None
  BY Numbers DEF StartupInv
<1>5. Migrates(i)'
  BY <1>1, <1>2, <1>4 DEF Local, Migrates, Complete, Migrating
<1>6. Blames(i)' /\ Holds(i)'
  BY <1>1, <1>2, <1>4 DEF Local, Blames, Holds
<1> QED
  BY <1>1, <1>2, <1>3, <1>5, <1>6, QuietStep DEF Local

-----------------------------------------------------------------------------
(* The stores. *)
LEMMA InvOpens ==
  ASSUME StartupInv, NEW i \in Instances, OpenScylla(i) \/ OpenRedis(i)
  PROVE  StartupInv'
<1>1. PICK what \in {"scylla", "redis"}, to \in {"redis", "wire"} :
        /\ \/ what = "scylla" /\ to = "redis" /\ boot[i] = "scylla"
           \/ what = "redis" /\ to = "wire" /\ boot[i] = "redis"
        /\ open' = [open EXCEPT ![i] = @ \cup {what}]
        /\ boot' = [boot EXCEPT ![i] = to]
        /\ UNCHANGED <<config, hub, relay, failed, seen, lock, ran, failures, crashes>>
  BY DEF OpenScylla, OpenRedis, Opens, Goto, counts
<1>2. Typed'
  BY <1>1 DEF StartupInv, Typed, Boot
<1>3. Only(i) /\ boot'[i] = to /\ open'[i] = open[i] \cup {what}
  BY <1>1 DEF StartupInv, Typed, Only
<1>4. Local(i)
  BY DEF StartupInv
<1>5. Migrates(i)'
  BY <1>1, <1>3, <1>4 DEF Local, Migrates, Complete
<1>6. Blames(i)'
  BY <1>1, <1>3, <1>4 DEF Local, Blames, Migrating
<1>7. Holds(i)'
  BY <1>1, <1>3, <1>4 DEF Local, Holds, Migrating
<1> QED
  BY <1>1, <1>2, <1>3, <1>5, <1>6, <1>7, Counts, QuietStep DEF Local

LEMMA InvDegrade ==
  ASSUME StartupInv, NEW i \in Instances, ScyllaDown(i) \/ RedisDown(i)
  PROVE  StartupInv'
<1>1. PICK to \in {"redis", "pool_close", "wire", "scylla_close"} :
        /\ \/ boot[i] = "scylla" /\ to = "redis" /\ ~config[i].required
           \/ boot[i] = "scylla" /\ to = "pool_close"
           \/ boot[i] = "redis" /\ to = "wire" /\ ~config[i].required
           \/ boot[i] = "redis" /\ to = "scylla_close"
        /\ boot' = [boot EXCEPT ![i] = to]
        /\ failed' \in {failed, [failed EXCEPT ![i] = TRUE]}
        /\ UNCHANGED <<config, open, hub, relay, seen, lock, ran, failures, crashes>>
  BY DEF ScyllaDown, RedisDown, Degrade, GotoFailed, Goto, others, counts
<1>2. Typed'
  BY <1>1 DEF StartupInv, Typed, Boot, Closing
<1>3. Only(i) /\ boot'[i] = to
  BY <1>1 DEF StartupInv, Typed, Only
<1>4. Local(i)
  BY DEF StartupInv
<1>5. Migrates(i)'
  BY <1>1, <1>3, <1>4 DEF Local, Migrates, Complete
<1>6. Blames(i)'
  BY <1>1, <1>3, <1>4 DEF Local, Blames, Migrating
<1>7. Holds(i)'
  BY <1>1, <1>3, <1>4 DEF Local, Holds, Migrating
<1> QED
  BY <1>1, <1>2, <1>3, <1>5, <1>6, <1>7, Counts, QuietStep DEF Local

(* Serving begins and ends; the hub's own state is nobody's condition. *)
LEMMA InvServing ==
  ASSUME StartupInv, NEW i \in Instances, Wire(i) \/ Signal(i)
  PROVE  StartupInv'
<1>1. PICK from \in {"wire", "serving"}, to \in {"serving", "stop"},
           state \in {"off", "receive", "hand over", "ended"} :
        /\ \/ from = "wire" /\ to = "serving"
              /\ (state \in {"receive", "hand over"} => "redis" \in open[i])
           \/ from = "serving" /\ to = "stop" /\ state = relay[i]
        /\ boot[i] = from /\ boot' = [boot EXCEPT ![i] = to]
        /\ relay' = [relay EXCEPT ![i] = state]
        /\ \E h \in {"off", "running", "stopped"} : hub' = [hub EXCEPT ![i] = h]
        /\ UNCHANGED <<config, open, failed, seen, lock, ran, failures, crashes>>
  <2>1. CASE Wire(i)
    BY <2>1 DEF Wire, Goto, counts
  <2>2. CASE Signal(i)
    <3>1. relay' = [relay EXCEPT ![i] = relay[i]]
          /\ relay[i] \in {"off", "receive", "hand over", "ended"}
          /\ hub = [hub EXCEPT ![i] = hub[i]] /\ hub[i] \in {"off", "running", "stopped"}
      BY <2>2 DEF Signal, StartupInv, Typed
    <3> QED
      BY <2>2, <3>1 DEF Signal, Goto, counts
  <2> QED
    BY <2>1, <2>2
<1>2. Typed'
  BY <1>1 DEF StartupInv, Typed, Boot, Closing
<1>3. Only(i) /\ boot'[i] = to /\ relay'[i] = state
  BY <1>1 DEF StartupInv, Typed, Only
<1>4. Local(i)
  BY DEF StartupInv
<1>5. Migrates(i)'
  BY <1>1, <1>3, <1>4 DEF Local, Migrates, Complete
<1>6. Blames(i)'
  BY <1>1, <1>3, <1>4 DEF Local, Blames, Migrating
<1>7. Holds(i)'
  BY <1>1, <1>3, <1>4 DEF Local, Holds, Migrating
<1> QED
  BY <1>1, <1>2, <1>3, <1>5, <1>6, <1>7, Counts, QuietStep DEF Local

(* Closing in the reverse order, and the pool takes the lock with it. *)
LEMMA InvCloses ==
  ASSUME StartupInv, NEW i \in Instances, CloseRedis(i) \/ CloseScylla(i) \/ ClosePool(i)
  PROVE  StartupInv'
<1>1. PICK what \in {"redis", "scylla", "pool"}, from \in Closing,
           to \in {"scylla_close", "pool_close", "exited"} :
        /\ \/ what = "redis" /\ from = "redis_close" /\ to = "scylla_close"
           \/ what = "scylla" /\ from = "scylla_close" /\ to = "pool_close"
           \/ what = "pool" /\ from = "pool_close" /\ to = "exited"
        /\ boot[i] = from /\ boot' = [boot EXCEPT ![i] = to]
        /\ open' = [open EXCEPT ![i] = @ \ {what}]
        /\ lock' = IF what = "pool" /\ lock = i THEN None ELSE lock
        /\ UNCHANGED <<config, hub, relay, failed, seen, ran, failures, crashes>>
  BY DEF CloseRedis, CloseScylla, ClosePool, Closes, Released, Goto, counts, Closing
<1>2. lock' \in Instances \cup {None} /\ lock' \in {lock, None}
      /\ (to = "exited" => lock' # i) /\ (lock # i => lock' = lock)
  BY <1>1, Numbers DEF StartupInv, Typed
<1>3. Typed'
  BY <1>1, <1>2 DEF StartupInv, Typed, Boot, Closing
<1>4. Only(i) /\ boot'[i] = to /\ open'[i] = open[i] \ {what}
  BY <1>1 DEF StartupInv, Typed, Only
<1>5. Local(i)
  BY DEF StartupInv
<1>6. Migrates(i)'
  BY <1>1, <1>4, <1>5 DEF Local, Migrates, Complete
<1>7. Blames(i)'
  BY <1>1, <1>4, <1>5 DEF Local, Blames, Migrating
<1>8. Holds(i)'
  <2>1. relay'[i] \notin {"receive", "hand over"}
    BY <1>1, <1>5 DEF Local, Holds
  <2>2. boot[i] = "redis_close" => open'[i] \subseteq {"pool", "scylla"}
    BY <1>1, <1>4 DEF StartupInv, Typed
  <2> QED
    BY <1>1, <1>2, <1>4, <1>5, <2>1, <2>2 DEF Local, Holds, Migrating
<1> QED
  BY <1>1, <1>2, <1>3, <1>4, <1>6, <1>7, <1>8, Counts, QuietStep DEF Local

LEMMA InvCrash == ASSUME StartupInv, NEW i \in Instances, Crash(i) PROVE StartupInv'
<1>1. /\ boot' = [boot EXCEPT ![i] = "down"]
      /\ failed' = [failed EXCEPT ![i] = FALSE]
      /\ seen' = [seen EXCEPT ![i] = {}] /\ open' = [open EXCEPT ![i] = {}]
      /\ hub' = [hub EXCEPT ![i] = "off"] /\ relay' = [relay EXCEPT ![i] = "off"]
      /\ lock' = IF lock = i THEN None ELSE lock
      /\ UNCHANGED <<config, ran, failures>>
  BY DEF Crash, Released, Goto
<1>2. crashes' \in 0..MaxCrashes
  <2>1. crashes \in 0..MaxCrashes
    BY DEF StartupInv, Typed
  <2> QED
    BY <2>1, Numbers DEF Crash
<1>3. lock' \in Instances \cup {None} /\ lock' \in {lock, None}
      /\ (lock # i => lock' = lock)
  BY <1>1 DEF StartupInv, Typed
<1>4. Typed'
  BY <1>1, <1>2, <1>3 DEF StartupInv, Typed, Boot
<1>5. /\ Only(i) /\ boot'[i] = "down" /\ ~failed'[i] /\ seen'[i] = {} /\ open'[i] = {}
      /\ relay'[i] = "off"
  BY <1>1 DEF StartupInv, Typed, Only
<1>6. Local(i)'
  BY <1>5 DEF Local, Migrates, Blames, Holds, Migrating
<1> QED
  BY <1>1, <1>3, <1>4, <1>5, <1>6, Counts, QuietStep

(* The goroutines besides run. *)
LEMMA InvGoroutines ==
  ASSUME StartupInv, NEW i \in Instances,
         HubStops(i) \/ RelayReceives(i) \/ RelayHandsOver(i) \/ RelayEnds(i)
  PROVE  StartupInv'
<1>1. /\ UNCHANGED <<config, boot, failed, seen, open, lock, ran, failures, crashes>>
      /\ \/ relay' = relay /\ hub' = [hub EXCEPT ![i] = "stopped"]
         \/ /\ relay[i] \in {"receive", "hand over"} /\ hub' = hub
            /\ \E to \in {"receive", "hand over", "ended"} :
                 relay' = [relay EXCEPT ![i] = to]
  BY DEF HubStops, RelayReceives, RelayHandsOver, RelayEnds, Relay, counts
<1>2. Typed'
  BY <1>1 DEF StartupInv, Typed
<1>3. Only(i)
  BY <1>1 DEF StartupInv, Typed, Only
<1>4. Local(i)
  BY DEF StartupInv
<1>5. Migrates(i)' /\ Blames(i)'
  BY <1>1, <1>4 DEF Local, Migrates, Blames, Complete
<1>6. Holds(i)'
  <2>1. relay'[i] \in {"receive", "hand over"} => relay[i] \in {"receive", "hand over"}
    BY <1>1
  <2> QED
    BY <1>1, <1>4, <2>1 DEF Local, Holds
<1> QED
  BY <1>1, <1>2, <1>3, <1>5, <1>6, Counts, QuietStep DEF Local

LEMMA InvNext == StartupInv /\ [Next]_vars => StartupInv'
<1> SUFFICES ASSUME StartupInv, [Next]_vars PROVE StartupInv'
  OBVIOUS
<1>1. ASSUME NEW i \in Instances, Migrate(i) PROVE StartupInv'
  BY <1>1, InvLock, InvMigrateFails, InvMove, InvAppliedVersions, InvApplyTwice,
     InvApplyOne, InvApplyFails, InvUnlock DEF Migrate
<1>2. ASSUME NEW i \in Instances, Run(i) PROVE StartupInv'
  BY <1>1, <1>2, InvStart, InvMove, InvOpens, InvDegrade, InvServing, InvCloses DEF Run
<1>3. CASE UNCHANGED vars
  <2>1. Typed' /\ Schema'
    BY <1>3 DEF vars, process, counts, StartupInv, Typed, Schema
  <2>2. ASSUME NEW i \in Instances PROVE Local(i)'
    BY <1>3 DEF vars, process, counts, StartupInv, Local, Migrates, Blames, Holds, Complete
  <2> QED
    BY <2>1, <2>2 DEF StartupInv
<1> QED
  BY <1>2, <1>3, InvServing, InvCrash, InvConnection, InvGoroutines DEF Next

LEMMA Invariance == Spec => []StartupInv
<1>1. Init => StartupInv
  BY InvInit
<1> QED
  BY <1>1, InvNext, PTL DEF Spec

-----------------------------------------------------------------------------
(* Types; an instance at work on the schema knows only of versions that are
   recorded and, while nothing fails, holds the lock.                      *)
THEOREM TypeCorrect == Spec => []TypeOK
<1>1. StartupInv => TypeOK
  <2> SUFFICES ASSUME StartupInv PROVE TypeOK
    OBVIOUS
  <2>1. ASSUME failures = 0, NEW i \in Instances, boot[i] \in Migrating \ {"lock"}
        PROVE  lock = i
    BY <2>1 DEF StartupInv, Local, Migrates, Migrating
  <2>2. \A i \in Instances : seen[i] \subseteq ToSet(ran)
    BY DEF StartupInv, Local, Migrates
  <2> QED
    BY <2>1, <2>2 DEF StartupInv, Typed, TypeOK
<1> QED
  BY <1>1, Invariance, PTL

(* Any number of instances may boot at once on any number of migrations:
   each is applied once and in order, whoever crashes and whatever fails,
   the lock included, an instance that migrates serves on the complete
   schema only, and none fails because another was migrating.              *)
THEOREM BootsTogetherHolds == Spec => []BootsTogether
<1>1. StartupInv => BootsTogether
  <2> SUFFICES ASSUME StartupInv PROVE BootsTogether
    OBVIOUS
  <2>1. ran \in Seq(Files)
    BY DEF StartupInv, Typed
  <2>2. \A k \in DOMAIN ran : ran[k] = k
    BY <2>1 DEF StartupInv, Schema
  <2>3. ToSet(ran) \subseteq Files
    BY SchemaSet, Numbers DEF Files
  <2>4. ASSUME NEW i \in Instances, boot[i] \in {"wire", "serving"}, config[i].migrate
        PROVE  ToSet(ran) = Files
    BY <2>3, <2>4 DEF StartupInv, Local, Migrates, Complete
  <2>5. ASSUME failures = 0, NEW i \in Instances, boot[i] \in Migrating PROVE ~failed[i]
    BY <2>5 DEF StartupInv, Local, Blames
  <2> QED
    BY <2>2, <2>4, <2>5 DEF BootsTogether
<1> QED
  BY <1>1, Invariance, PTL

(* With required storage an instance serves on both stores; a failed start
   and a shutdown close all that was opened, the lock included, and the
   fan-out's goroutine never runs on a closed client.                      *)
THEOREM NothingIsLeaked == Spec => []NothingLeaks
<1>1. StartupInv => NothingLeaks
  <2> SUFFICES ASSUME StartupInv, NEW i \in Instances
               PROVE  /\ boot[i] = "serving" /\ config[i].required
                           => open[i] = {"pool", "scylla", "redis"}
                      /\ boot[i] = "exited" => open[i] = {} /\ lock # i
                      /\ relay[i] \in {"receive", "hand over"} => "redis" \in open[i]
    BY DEF NothingLeaks
  <2> QED
    BY DEF StartupInv, Local, Holds
<1> QED
  BY <1>1, Invariance, PTL
=============================================================================
