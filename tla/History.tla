------------------------------- MODULE History -------------------------------
(***************************************************************************)
(* The history of one chat (internal/repository/message): messages are     *)
(* saved to Scylla and pushed onto a cached list in Redis, and a reader    *)
(* pages through them, newest first, with cursors.                         *)
(*                                                                         *)
(* A message is its message_id, a time UUID: a number here, ordered as     *)
(* Scylla clusters the rows.  The ids are stamped before the saves, which  *)
(* persist workers, of any node, run concurrently and in any order.        *)
(*                                                                         *)
(* A go-redis Pipeline is not a transaction: commands of other clients run *)
(* between its commands, and a broken connection leaves a prefix of them.  *)
(* EXPIRE only renews the time to live: the list may vanish at any time.   *)
(* The third step of Save, TouchChats, works on another table.             *)
(***************************************************************************)
EXTENDS Naturals, FiniteSets, SequencesExt

CONSTANTS
  MaxMessages,  \* bound: messages ever saved to the chat
  CacheLen,     \* cacheMaxLen (200)
  Limits,       \* page sizes a request may ask for (1..100)
  Readers,      \* clients paging through the history
  MaxFailures   \* bound: calls of Scylla or Redis that fail

ASSUME HistoryAssumption ==
  /\ MaxMessages \in Nat
  /\ CacheLen \in Nat
  /\ Limits \subseteq 1..(CacheLen - 1)
  /\ MaxFailures \in Nat

Messages == 1..MaxMessages

VARIABLES
  store,     \* the rows of direct_messages
  cache,     \* the cached list, head first; empty when the key is absent
  saver,     \* saver[m]: where the Save of m is
  mode,      \* mode[r]: what the reader is about to do
  limit,     \* limit[r]: the page size it asks for
  todo,      \* todo[r]: what is left of its window to push onto the cache
  pages,     \* pages[r]: all the messages it was given, in order
  next,      \* next[r]: the cursor it was given, 0 for none
  source,    \* source[r]: where its first page came from
  start,     \* start[r]: history, what was stored when its first page was read
  failures   \* calls that have failed (bounded by MaxFailures)

vars == <<store, cache, saver, mode, limit, todo, pages, next, source, start,
          failures>>

readerVars == <<mode, limit, todo, pages, next, source, start>>

SaverState  == {"new", "push", "trim", "done"}
ReaderState == {"new", "missed", "delete", "fill", "walking", "done"}

Init ==
  /\ store = {}
  /\ cache = <<>>
  /\ saver = [m \in Messages |-> "new"]
  /\ mode = [r \in Readers |-> "new"]
  /\ limit \in [Readers -> Limits]
  /\ todo = [r \in Readers |-> <<>>]
  /\ pages = [r \in Readers |-> <<>>]
  /\ next = [r \in Readers |-> 0]
  /\ source = [r \in Readers |-> "none"]
  /\ start = [r \in Readers |-> {}]
  /\ failures = 0

Fail == failures < MaxFailures /\ failures' = failures + 1

-----------------------------------------------------------------------------
(* Repository.Save, run by a persist worker.                               *)

Insert(m) ==
  /\ saver[m] = "new"
  /\ store' = store \cup {m}
  /\ saver' = [saver EXCEPT ![m] = "push"]
  /\ UNCHANGED <<cache, readerVars, failures>>

(* Mutant: the error of the insert is not returned. *)
InsertFails_Continues(m) ==
  /\ saver[m] = "new"
  /\ Fail
  /\ store' \in {store, store \cup {m}}
  /\ saver' = [saver EXCEPT ![m] = "push"]
  /\ UNCHANGED <<cache, readerVars>>

(* The row may have been written although the call failed (timed out). *)
InsertFails(m) ==
  /\ saver[m] = "new"
  /\ Fail
  /\ store' \in {store, store \cup {m}}
  /\ saver' = [saver EXCEPT ![m] = "done"]
  /\ UNCHANGED <<cache, readerVars>>

(* CacheMessage: LPUSH ... *)
Push(m) ==
  /\ saver[m] = "push"
  /\ cache' = <<m>> \o cache
  /\ saver' = [saver EXCEPT ![m] = "trim"]
  /\ UNCHANGED <<store, readerVars, failures>>

(* ... then LTRIM. *)
Trim(m) ==
  /\ saver[m] = "trim"
  /\ cache' = SubSeq(cache, 1, IF Len(cache) < CacheLen THEN Len(cache) ELSE CacheLen)
  /\ saver' = [saver EXCEPT ![m] = "done"]
  /\ UNCHANGED <<store, readerVars, failures>>

(* The pipeline breaks before LPUSH or before LTRIM: only logged. *)
CacheFails(m) ==
  /\ saver[m] \in {"push", "trim"}
  /\ Fail
  /\ saver' = [saver EXCEPT ![m] = "done"]
  /\ UNCHANGED <<store, cache, readerVars>>

(* The time to live ran out, or Redis evicted the key. *)
Expire ==
  /\ cache # <<>>
  /\ cache' = <<>>
  /\ UNCHANGED <<store, saver, readerVars, failures>>

-----------------------------------------------------------------------------
(* Repository.GetChatHistory.                                              *)

(* ORDER BY message_id DESC: SetToSortSeq, by the rank of each row. *)
Clustered(S) ==
  [i \in 1..Cardinality(S) |-> CHOOSE m \in S : Cardinality({k \in S : k >= m}) = i]

(* Mutant: the cursor is the first row that did not fit. *)
GetHistory_SkipsRow(S, n) ==
  LET rows == Clustered(S)
  IN  IF Len(rows) > n THEN [list |-> SubSeq(rows, 1, n), next |-> rows[n + 1]]
                       ELSE [list |-> rows, next |-> 0]

(* Mutant: the row read to see whether there is more is returned too. *)
GetHistory_KeepsRow(S, n) ==
  LET rows == Clustered(S)
  IN  IF Len(rows) > n THEN [list |-> SubSeq(rows, 1, n + 1), next |-> rows[n]]
                       ELSE [list |-> rows, next |-> 0]

(* ScyllaStorage.GetHistory over the rows S: n + 1 rows are read to know
   whether a cursor is needed.                                             *)
GetHistory(S, n) ==
  LET rows == Clustered(S)
  IN  IF Len(rows) > n THEN [list |-> SubSeq(rows, 1, n), next |-> rows[n]]
                       ELSE [list |-> rows, next |-> 0]

(* Mutant: a cached list is trusted whatever its length. *)
CachedPage_Trusting(r) ==
  /\ mode[r] = "new"
  /\ cache # <<>>
  /\ LET n == IF Len(cache) < limit[r] THEN Len(cache) ELSE limit[r]
         more == Len(cache) > limit[r]
     IN  /\ pages' = [pages EXCEPT ![r] = SubSeq(cache, 1, n)]
         /\ next' = [next EXCEPT ![r] = IF more THEN cache[n] ELSE 0]
         /\ mode' = [mode EXCEPT ![r] = IF more THEN "walking" ELSE "done"]
  /\ source' = [source EXCEPT ![r] = "cache"]
  /\ start' = [start EXCEPT ![r] = store]
  /\ UNCHANGED <<store, cache, saver, limit, todo, failures>>

(* GetCachedPage: only a list longer than the page is trusted. *)
CachedPage(r) ==
  /\ mode[r] = "new"
  /\ Len(cache) > limit[r]
  /\ pages' = [pages EXCEPT ![r] = SubSeq(cache, 1, limit[r])]
  /\ next' = [next EXCEPT ![r] = cache[limit[r]]]
  /\ mode' = [mode EXCEPT ![r] = "walking"]
  /\ source' = [source EXCEPT ![r] = "cache"]
  /\ start' = [start EXCEPT ![r] = store]
  /\ UNCHANGED <<store, cache, saver, limit, todo, failures>>

(* Any other list, and an LRANGE that failed, is a miss ... *)
CacheMiss(r) ==
  /\ mode[r] = "new"
  /\ IF Len(cache) > limit[r] THEN Fail ELSE UNCHANGED failures
  /\ mode' = [mode EXCEPT ![r] = "missed"]
  /\ UNCHANGED <<store, cache, saver, limit, todo, pages, next, source, start>>

(* ... then a window of CacheLen rows is read; its first rows are the page,
   and all of it is to replace the cached list.  A read that fails is
   answered with an error: the reader has as good as not asked.            *)
StoredPage(r) ==
  LET window == GetHistory(store, CacheLen).list
      page   == GetHistory(ToSet(window), limit[r])
  IN  /\ mode[r] = "missed"
      /\ pages' = [pages EXCEPT ![r] = page.list]
      /\ next' = [next EXCEPT ![r] = page.next]
      /\ todo' = [todo EXCEPT ![r] = window]
      /\ mode' = [mode EXCEPT ![r] = IF window = <<>> THEN "done" ELSE "delete"]
      /\ source' = [source EXCEPT ![r] = "store"]
      /\ start' = [start EXCEPT ![r] = store]
      /\ UNCHANGED <<store, cache, saver, limit, failures>>

Continue(r) == IF next[r] = 0 THEN "done" ELSE "walking"

(* WarmUpCache: DEL ... *)
WarmUpDelete(r) ==
  /\ mode[r] = "delete"
  /\ cache' = <<>>
  /\ mode' = [mode EXCEPT ![r] = "fill"]
  /\ UNCHANGED <<store, saver, limit, todo, pages, next, source, start, failures>>

(* ... then an LPUSH for each message of the window, the oldest first. *)
WarmUpPush(r) ==
  /\ mode[r] = "fill"
  /\ cache' = <<Last(todo[r])>> \o cache
  /\ todo' = [todo EXCEPT ![r] = Front(@)]
  /\ mode' = [mode EXCEPT ![r] = IF Len(todo[r]) = 1 THEN Continue(r) ELSE "fill"]
  /\ UNCHANGED <<store, saver, limit, pages, next, source, start, failures>>

(* The pipeline breaks: only logged, the page is returned all the same. *)
WarmUpFails(r) ==
  /\ mode[r] \in {"delete", "fill"}
  /\ Fail
  /\ todo' = [todo EXCEPT ![r] = <<>>]
  /\ mode' = [mode EXCEPT ![r] = Continue(r)]
  /\ UNCHANGED <<store, cache, saver, limit, pages, next, source, start>>

(* The client follows the cursor: that page always comes from the store. A
   failed read is answered with an error and changes nothing.              *)
NextPage(r) ==
  LET page == GetHistory({m \in store : m < next[r]}, limit[r])
  IN  /\ mode[r] = "walking"
      /\ pages' = [pages EXCEPT ![r] = @ \o page.list]
      /\ next' = [next EXCEPT ![r] = page.next]
      /\ mode' = [mode EXCEPT ![r] = IF page.next = 0 THEN "done" ELSE "walking"]
      /\ UNCHANGED <<store, cache, saver, limit, todo, source, start, failures>>

Save(m) ==
  Insert(m) \/ InsertFails(m) \/ Push(m) \/ Trim(m) \/ CacheFails(m)

Read(r) ==
  \/ CachedPage(r) \/ CacheMiss(r) \/ StoredPage(r) \/ NextPage(r)
  \/ WarmUpDelete(r) \/ WarmUpPush(r) \/ WarmUpFails(r)

(* Every message is saved and every reader is done. *)
Terminated ==
  /\ \A m \in Messages : saver[m] = "done"
  /\ \A r \in Readers : mode[r] = "done"
  /\ UNCHANGED vars

Next ==
  \/ \E m \in Messages : Save(m)
  \/ \E r \in Readers : Read(r)
  \/ Expire
  \/ Terminated

Spec == Init /\ [][Next]_vars

(* The case that leaves the cache least to do: the messages are saved one
   after the other, in the order of their ids, and nothing expires.        *)
OneByOne == \A m, k \in Messages :
  k < m /\ saver[m] # "new" => saver[k] = "done"

SerialNext ==
  \/ \E m \in Messages : Save(m) /\ OneByOne'
  \/ \E r \in Readers : Read(r)
  \/ Terminated

SerialSpec == Init /\ [][SerialNext]_vars

-----------------------------------------------------------------------------
(* A window read for the cache is never longer than the cached list may be,
   and a cursor is the id of a message.                                    *)
TypeOK ==
  /\ store \subseteq Messages
  /\ cache \in Seq(Messages)
  /\ saver \in [Messages -> SaverState]
  /\ mode \in [Readers -> ReaderState]
  /\ limit \in [Readers -> Limits]
  /\ todo \in [Readers -> Seq(Messages)]
  /\ \A r \in Readers : Len(todo[r]) <= CacheLen
  /\ \A r \in Readers : mode[r] = "fill" => todo[r] # <<>>
  /\ pages \in [Readers -> Seq(Messages)]
  /\ next \in [Readers -> 0..MaxMessages]
  /\ source \in [Readers -> {"none", "cache", "store"}]
  /\ start \in [Readers -> SUBSET Messages]
  /\ failures \in 0..MaxFailures

(* What a reader is shown is stored: neither a failed save nor a warm-up
   racing the saves puts a message in the cache that Scylla does not have. *)
OnlyStored ==
  /\ ToSet(cache) \subseteq store
  /\ \A r \in Readers : ToSet(pages[r]) \subseteq store

Descending(s) == \A i, j \in DOMAIN s : i < j => s[i] > s[j]

(* A walk whose first page came from the store is newest first without
   repetition, and skips nothing that was stored when it began, whatever is
   saved, cached, evicted or warmed up between its requests.               *)
StoreWalkIsExact == \A r \in Readers : source[r] = "store" =>
  /\ Descending(pages[r])
  /\ pages[r] # <<>> =>
       \A m \in start[r] : m >= Last(pages[r]) => m \in ToSet(pages[r])

(* No cursor means that there is nothing older, even when the first page
   came from the cache (README, History).                                  *)
NoCursorMeansNothingOlder == \A r \in Readers : mode[r] = "done" =>
  \A m \in start[r] :
    pages[r] # <<>> /\ (m < Last(pages[r]) => m \in ToSet(pages[r]))

(* README: history is newest first, and the order of the inserts does not
   affect it.  The cached list is in the order of the pushes.
   No run claims it: the code breaks it (README, section 3).               *)
NewestFirst == \A r \in Readers : Descending(pages[r])

(* Nobody is working on the cached list. *)
Settled ==
  /\ \A m \in Messages : saver[m] \notin {"push", "trim"}
  /\ \A r \in Readers : mode[r] \notin {"delete", "fill"}

(* README: the cache keeps a trailing window of the chat, so once nobody
   is working on it, it does not leave out a message between others.
   No run claims it: the code breaks it (README, section 3).               *)
TrailingWindow ==
  Settled => \A m \in store, x \in ToSet(cache) : m > x => m \in ToSet(cache)

=============================================================================
