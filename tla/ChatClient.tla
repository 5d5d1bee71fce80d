----------------------------- MODULE ChatClient -----------------------------
(***************************************************************************)
(* One browser tab of the web client: the messages it shows               *)
(* (frontend/src/store/chatStore.ts), what it does with websocket frames   *)
(* (hooks/useWebSocket.ts), the history pages it loads                     *)
(* (hooks/useChatMessages.ts) and the messages the user sends              *)
(* (components/ChatWindow.tsx).                                            *)
(*                                                                         *)
(* JavaScript runs one callback at a time; callbacks of the socket, of     *)
(* requests and of the user come in any order.  The server is the one of   *)
(* internal/ws: a reader answers a frame with an acknowledgement and an    *)
(* echo in this order, saves finish at any time (module Ingest), frames    *)
(* reach one connection in order (module Hub), and a connection that ends  *)
(* loses what it has not yet been given.  A page is what the store holds   *)
(* when the request is served (History).                                   *)
(*                                                                         *)
(* The client_id of an own message is the message itself.  The list of     *)
(* conversations next to the chat and the reconnect timer are left out.    *)
(***************************************************************************)
EXTENDS Naturals, FiniteSets, SequencesExt

CONSTANTS
  Partners,     \* the users this one talks to
  Messages,     \* every message that is ever sent
  Mine,         \* the messages typed in this tab
  Old,          \* sequence of the messages stored at the start, oldest first
  ChatOf,       \* ChatOf[m]: the partner whose conversation m belongs to
  PageSize,     \* PAGE_SIZE (50)
  MaxPerChat,   \* MAX_MESSAGES_PER_CHAT (2000)
  MaxRequests,  \* bound: history requests
  MaxCuts,      \* bound: times the connection is lost
  MaxFailures,  \* bound: messages refused or not stored
  None          \* no partner, no cursor, no request, no snapshot

ASSUME ClientAssumption ==
  /\ Mine \subseteq Messages
  /\ Old \in Seq(Messages \ Mine)
  /\ \A i, j \in DOMAIN Old : Old[i] = Old[j] => i = j
  /\ ChatOf \in [Messages -> Partners]
  /\ PageSize \in Nat \ {0} /\ MaxPerChat \in Nat \ {0}
  /\ PageSize <= MaxPerChat
  /\ None \notin Messages \cup Partners

VARIABLES
  online,     \* the websocket is OPEN
  uplink,     \* own messages sent and not yet read by the server
  todo,       \* frames the server's reader has still to send
  wire,       \* frames on their way to the tab
  ids,        \* ids[m]: rank of m's message_id, 0 before it has one
  saving,     \* accepted messages that a persist worker has still to settle
  unsent,     \* incoming messages whose delivery is still to be routed
  store,      \* the messages in Scylla
  view,       \* chatStore.messages
  active,     \* chatStore.activePartner
  cursor,     \* cursorRef: next_cursor of the last page
  hasMore,    \* hasMore
  request,    \* the history request in flight, or None
  requests,   \* history requests made (bounded by MaxRequests)
  cuts,       \* connections lost (bounded by MaxCuts)
  typed,      \* history: own messages the user has sent
  refused,    \* history: own messages that were rejected or not sent at all
  ignored,    \* history: own messages the server dropped without a word
  lost,       \* history: messages whose save failed
  cut,        \* history: own messages without an id when a connection was lost
  base,       \* history: the active chat's messages in the store when its
              \* first page was served, None before that page is shown
  trimmed     \* history: the active chat's list lost entries to its limit

serverVars  == <<todo, ids, saving, unsent, store, ignored, lost>>
historyVars == <<active, cursor, hasMore, request, requests, base>>

vars == <<online, uplink, wire, view, cuts, typed, refused, cut, trimmed,
          serverVars, historyVars>>

Entry == [msg : Messages, known : BOOLEAN, own : BOOLEAN,
          pending : BOOLEAN, failed : BOOLEAN]
Frame == [type : {"ack", "error", "message"}, msg : Messages]

(* An entry made from a frame or a history page. *)
Received(m) == [msg |-> m, known |-> TRUE, own |-> FALSE,
                pending |-> FALSE, failed |-> FALSE]

(* The members of a finite set in the order of their keys. *)
Ranked(S, key) == [i \in 1..Cardinality(S) |->
  CHOOSE m \in S : Cardinality({k \in S : key[k] <= key[m]}) = i]

OldSet == ToSet(Old)

Init ==
  /\ online = FALSE
  /\ uplink = <<>> /\ todo = <<>> /\ wire = <<>>
  /\ ids = [m \in Messages |->
              IF m \in OldSet THEN CHOOSE i \in DOMAIN Old : Old[i] = m ELSE 0]
  /\ saving = {} /\ unsent = {}
  /\ store = OldSet
  /\ view = [p \in Partners |-> <<>>]
  /\ active = None /\ cursor = None /\ hasMore = TRUE /\ request = None
  /\ requests = 0 /\ cuts = 0
  /\ typed = {} /\ refused = {} /\ ignored = {} /\ lost = {} /\ cut = {}
  /\ base = None /\ trimmed = FALSE

-----------------------------------------------------------------------------
(* chatStore.                                                              *)

Newest(s) == IF Len(s) > MaxPerChat
               THEN SubSeq(s, Len(s) - MaxPerChat + 1, Len(s)) ELSE s

Knows(s, m) == \E i \in DOMAIN s : s[i].known /\ s[i].msg = m

(* Mutant: the list grows without limit. *)
AddMessage_NoLimit(p, e) ==
  IF e.known /\ Knows(view[p], e.msg) THEN UNCHANGED <<view, trimmed>>
  ELSE /\ view' = [view EXCEPT ![p] = Append(@, e)]
       /\ UNCHANGED trimmed

(* Mutant: an entry is added whether its message is shown or not. *)
AddMessage_NoDedup(p, e) ==
  /\ view' = [view EXCEPT ![p] = Newest(Append(@, e))]
  /\ trimmed' = (trimmed \/ (p = active /\ Len(view[p]) >= MaxPerChat))

(* addMessage: known messages are ignored, the oldest make room. *)
AddMessage(p, e) ==
  IF e.known /\ Knows(view[p], e.msg) THEN UNCHANGED <<view, trimmed>>
  ELSE /\ view' = [view EXCEPT ![p] = Newest(Append(@, e))]
       /\ trimmed' = (trimmed \/ (p = active /\ Len(view[p]) >= MaxPerChat))

(* prependMessages: the rows that are not shown yet go in front. *)
Prepended(s, rows) ==
  LET fresh == Ranked({i \in DOMAIN rows : ~Knows(s, rows[i])},
                      [i \in DOMAIN rows |-> i])
  IN  [i \in DOMAIN fresh |-> Received(rows[fresh[i]])] \o s

(* The entries with the client_id of m. *)
Matching(s, m) == {i \in DOMAIN s : s[i].own /\ s[i].msg = m}

(* resolveMessage: the first entry with this client_id, if there is one, is
   patched.                                                                 *)
ResolveMessage(m, patch) ==
  LET p == ChatOf[m]
      found == Matching(view[p], m)
  IN  view' = IF found = {} THEN view
              ELSE [view EXCEPT ![p][Min(found)] = patch[@]]

-----------------------------------------------------------------------------
(* The socket and the frames it delivers.                                  *)

Connect ==
  /\ ~online
  /\ online' = TRUE
  /\ UNCHANGED <<uplink, wire, view, cuts, typed, refused, cut, trimmed,
                 serverVars, historyVars>>

(* onclose: frames on their way are gone; of those on the way up, the server
   has read some.                                                           *)
Disconnect ==
  /\ online /\ cuts < MaxCuts
  /\ online' = FALSE
  /\ cuts' = cuts + 1
  /\ wire' = <<>>
  /\ \E n \in 0..Len(uplink) : uplink' = SubSeq(uplink, 1, n)
  /\ cut' = cut \cup {m \in typed :
              \E i \in Matching(view[ChatOf[m]], m) : ~view[ChatOf[m]][i].known}
  /\ UNCHANGED <<view, typed, refused, trimmed, serverVars, historyVars>>

Arrives(type) == wire # <<>> /\ Head(wire).type = type

(* onmessage, type ack: the message has an id and is no longer pending. *)
ReceiveAck ==
  /\ Arrives("ack")
  /\ ResolveMessage(Head(wire).msg, [e \in Entry |->
       [e EXCEPT !.known = TRUE, !.pending = FALSE, !.failed = FALSE]])
  /\ wire' = Tail(wire)
  /\ UNCHANGED <<online, uplink, cuts, typed, refused, cut, trimmed, serverVars,
                 historyVars>>

(* Mutant: the frame is only logged. *)
ReceiveError_Logs ==
  /\ Arrives("error")
  /\ wire' = Tail(wire)
  /\ UNCHANGED <<online, uplink, view, cuts, typed, refused, cut, trimmed,
                 serverVars, historyVars>>

(* onmessage, type error: the message is marked. *)
ReceiveError ==
  /\ Arrives("error")
  /\ ResolveMessage(Head(wire).msg, [e \in Entry |->
       [e EXCEPT !.pending = FALSE, !.failed = TRUE]])
  /\ wire' = Tail(wire)
  /\ UNCHANGED <<online, uplink, cuts, typed, refused, cut, trimmed, serverVars,
                 historyVars>>

(* onmessage, anything else: a message of a partner, or the echo of one's own. *)
ReceiveMessage ==
  /\ Arrives("message")
  /\ LET m == Head(wire).msg IN AddMessage(ChatOf[m], Received(m))
  /\ wire' = Tail(wire)
  /\ UNCHANGED <<online, uplink, cuts, typed, refused, cut, serverVars,
                 historyVars>>

(* handleSend: the message goes up if the socket is open, and is shown. *)
HandleSend(m) ==
  /\ m \notin typed
  /\ active = ChatOf[m]
  /\ typed' = typed \cup {m}
  /\ uplink' = IF online THEN Append(uplink, m) ELSE uplink
  /\ refused' = IF online THEN refused ELSE refused \cup {m}
  /\ AddMessage(active, [msg |-> m, known |-> FALSE, own |-> TRUE,
                         pending |-> online, failed |-> ~online])
  /\ UNCHANGED <<online, wire, cuts, cut, serverVars, historyVars>>

-----------------------------------------------------------------------------
(* useChatMessages.                                                        *)

Fetch(p, from) ==
  /\ requests < MaxRequests
  /\ requests' = requests + 1
  /\ request' = [partner |-> p, cursor |-> from, served |-> FALSE,
                 rows |-> <<>>, next |-> None]

(* Mutant: the request in flight is not aborted. *)
OpenChat_NoAbort(p) ==
  /\ p # active
  /\ active' = p
  /\ cursor' = None
  /\ hasMore' = TRUE
  /\ IF request = None THEN Fetch(p, None) ELSE UNCHANGED <<request, requests>>
  /\ base' = None
  /\ trimmed' = FALSE
  /\ UNCHANGED <<online, uplink, wire, view, cuts, typed, refused, cut,
                 serverVars>>

(* Another partner is selected: the request in flight is aborted, and the
   newest page is asked for.                                               *)
OpenChat(p) ==
  /\ p # active
  /\ active' = p
  /\ cursor' = None
  /\ hasMore' = TRUE
  /\ Fetch(p, None)
  /\ base' = None
  /\ trimmed' = FALSE
  /\ UNCHANGED <<online, uplink, wire, view, cuts, typed, refused, cut,
                 serverVars>>

LoadMore ==
  /\ hasMore /\ request = None /\ cursor # None
  /\ Fetch(active, cursor)
  /\ UNCHANGED <<online, uplink, wire, view, cuts, typed, refused, cut, trimmed,
                 serverVars, active, cursor, hasMore, base>>

(* The server answers with the newest rows before the cursor, and a cursor
   when there are older ones.  base remembers what the store held.         *)
Serve ==
  /\ request # None /\ ~request.served
  /\ LET before == {m \in store : /\ ChatOf[m] = request.partner
                                  /\ request.cursor = None
                                       \/ ids[m] < ids[request.cursor]}
         all  == Ranked(before, ids)
         more == Len(all) > PageSize
         rows == IF more THEN SubSeq(all, Len(all) - PageSize + 1, Len(all))
                         ELSE all
     IN  request' = [request EXCEPT !.served = TRUE, !.rows = rows,
                       !.next = IF more THEN rows[1] ELSE None]
  /\ base' = IF request.cursor = None /\ request.partner = active
               THEN [shown |-> FALSE,
                     rows |-> {m \in store : ChatOf[m] = request.partner}]
               ELSE base
  /\ UNCHANGED <<online, uplink, wire, view, cuts, typed, refused, cut, trimmed,
                 todo, ids, saving, unsent, store, ignored, lost, active, cursor,
                 hasMore, requests>>

FetchFails ==
  /\ request # None
  /\ request' = None
  /\ base' = IF request.cursor = None THEN None ELSE base
  /\ UNCHANGED <<online, uplink, wire, view, cuts, typed, refused, cut, trimmed,
                 serverVars, active, cursor, hasMore, requests>>

(* Mutant: an older page replaces the list, too. *)
ShowPage_Replaces ==
  /\ request # None /\ request.served
  /\ LET s == [i \in DOMAIN request.rows |-> Received(request.rows[i])]
     IN  /\ view' = [view EXCEPT ![request.partner] = s]
         /\ hasMore' = (request.next # None /\ Len(s) < MaxPerChat)
  /\ cursor' = request.next
  /\ base' = IF base = None THEN None ELSE [base EXCEPT !.shown = TRUE]
  /\ trimmed' = FALSE
  /\ request' = None
  /\ UNCHANGED <<online, uplink, wire, cuts, typed, refused, cut, serverVars,
                 active, requests>>

(* The answer arrives: the first page replaces the list, an older one goes in
   front of it.                                                             *)
ShowPage ==
  /\ request # None /\ request.served
  /\ LET p == request.partner
         s == IF request.cursor = None
                THEN [i \in DOMAIN request.rows |-> Received(request.rows[i])]
                ELSE Prepended(view[p], request.rows)
     IN  /\ view' = [view EXCEPT ![p] = s]
         /\ hasMore' = (request.next # None /\ Len(s) < MaxPerChat)
  /\ cursor' = request.next
  /\ base' = IF base = None THEN None ELSE [base EXCEPT !.shown = TRUE]
  /\ trimmed' = (trimmed /\ request.cursor # None)
  /\ request' = None
  /\ UNCHANGED <<online, uplink, wire, cuts, typed, refused, cut, serverVars,
                 active, requests>>

-----------------------------------------------------------------------------
(* The server.                                                             *)

tabVars == <<online, view, cuts, typed, cut, trimmed, historyVars>>

(* A frame reaches the tab's connection when there is one. *)
Emit(type, m) == wire' = IF online THEN Append(wire, [type |-> type, msg |-> m])
                                   ELSE wire

NextId == 1 + Cardinality({m \in Messages : ids[m] > 0})
Failures == Cardinality(lost \cup ignored \cup refused)

(* handleMessage: the message is accepted, ... *)
Accept ==
  /\ uplink # <<>> /\ todo = <<>>
  /\ LET m == Head(uplink)
     IN  /\ ids' = [ids EXCEPT ![m] = NextId]
         /\ saving' = saving \cup {m}
         /\ todo' = <<[type |-> "ack", msg |-> m], [type |-> "message", msg |-> m]>>
  /\ uplink' = Tail(uplink)
  /\ UNCHANGED <<wire, unsent, store, refused, ignored, lost, tabVars>>

(* ... rejected, or dropped without an answer (the rate notice is throttled). *)
Refuse ==
  /\ uplink # <<>> /\ todo = <<>> /\ Failures < MaxFailures
  /\ LET m == Head(uplink)
     IN  \/ refused' = refused \cup {m} /\ Emit("error", m) /\ UNCHANGED ignored
         \/ ignored' = ignored \cup {m} /\ UNCHANGED <<refused, wire>>
  /\ uplink' = Tail(uplink)
  /\ UNCHANGED <<todo, ids, saving, unsent, store, lost, tabVars>>

Reply ==
  /\ todo # <<>>
  /\ Emit(Head(todo).type, Head(todo).msg)
  /\ todo' = Tail(todo)
  /\ UNCHANGED <<uplink, ids, saving, unsent, store, refused, ignored, lost,
                 tabVars>>

(* A partner, or another tab of this user, sends a message. *)
Incoming(m) ==
  /\ m \notin Mine /\ ids[m] = 0
  /\ ids' = [ids EXCEPT ![m] = NextId]
  /\ saving' = saving \cup {m}
  /\ unsent' = unsent \cup {m}
  /\ UNCHANGED <<uplink, todo, wire, store, refused, ignored, lost, tabVars>>

Deliver(m) ==
  /\ m \in unsent
  /\ unsent' = unsent \ {m}
  /\ Emit("message", m)
  /\ UNCHANGED <<uplink, todo, ids, saving, store, refused, ignored, lost,
                 tabVars>>

Save(m) ==
  /\ m \in saving
  /\ saving' = saving \ {m}
  /\ store' = store \cup {m}
  /\ UNCHANGED <<uplink, todo, wire, ids, unsent, refused, ignored, lost, tabVars>>

(* The save fails, or the queue was full, and the sender is told. *)
SaveFails(m) ==
  /\ m \in saving /\ Failures < MaxFailures
  /\ saving' = saving \ {m}
  /\ lost' = lost \cup {m}
  /\ IF m \in Mine THEN Emit("error", m) ELSE UNCHANGED wire
  /\ UNCHANGED <<uplink, todo, ids, unsent, store, refused, ignored, tabVars>>

-----------------------------------------------------------------------------
Socket  == Connect \/ Disconnect \/ ReceiveAck \/ ReceiveError \/ ReceiveMessage
User    == (\E m \in Mine : HandleSend(m)) \/ (\E p \in Partners : OpenChat(p))
Paging  == LoadMore \/ Serve \/ FetchFails \/ ShowPage
Server  == \/ Accept \/ Refuse \/ Reply
           \/ \E m \in Messages : Incoming(m) \/ Deliver(m) \/ Save(m) \/ SaveFails(m)

Next == Socket \/ User \/ Paging \/ Server

Spec == Init /\ [][Next]_vars

-----------------------------------------------------------------------------
(* Properties.                                                             *)

(* Every variable has its type.  The list of a chat stays bounded although
   prependMessages, unlike the other two, does not cut it: pages are no
   longer asked for once it is full.  Only the active chat is ever waited for. *)
TypeOK ==
  /\ online \in BOOLEAN
  /\ uplink \in Seq(Mine) /\ todo \in Seq(Frame) /\ wire \in Seq(Frame)
  /\ ids \in [Messages -> Nat]
  /\ saving \subseteq Messages /\ unsent \subseteq Messages
  /\ store \subseteq Messages
  /\ view \in [Partners -> Seq(Entry)]
  /\ \A p \in Partners : Len(view[p]) <= MaxPerChat + PageSize
  /\ active \in Partners \cup {None} /\ cursor \in Messages \cup {None}
  /\ hasMore \in BOOLEAN /\ trimmed \in BOOLEAN
  /\ request # None => request.partner = active
  /\ requests \in Nat /\ cuts \in Nat
  /\ typed \subseteq Mine /\ refused \subseteq Mine /\ ignored \subseteq Mine
  /\ lost \subseteq Messages /\ cut \subseteq Mine

(* A message is shown once, although it may come as the optimistic copy, as
   an echo, and in a history page.  The exception is the copy whose
   acknowledgement was lost with its connection: nothing tells the tab that
   an echo or a row that comes later is the same message.                   *)
OneEntry == \A p \in Partners : \A i, j \in DOMAIN view[p] :
  i # j /\ view[p][i].msg = view[p][j].msg =>
    /\ view[p][i].msg \in cut
    /\ view[p][i].known # view[p][j].known

(* An entry says "Sending..." only while an answer is on its way, unless the
   connection was lost or the server dropped the message without a word, and
   "Not delivered" only of a message that was refused, could not be sent, or
   was not stored.                                                          *)
StateIsTrue == \A p \in Partners : \A i \in DOMAIN view[p] :
  LET e == view[p][i]
      Answers(s) == \E k \in DOMAIN s : s[k].msg = e.msg /\ s[k].type # "message"
  IN  /\ e.pending => \/ e.msg \in cut \cup ignored
                      \/ e.msg \in ToSet(uplink)
                      \/ Answers(todo) \/ Answers(wire)
      /\ e.failed => e.msg \in refused \cup lost

(* Scrolling back leaves no hole: what the store held when the chat was
   opened is shown down to the cursor, and all of it when there is none;
   neither a late answer for another chat nor messages that arrive between
   two pages may change that.  The limit of the list may (trimmed).         *)
NoHole == base # None /\ ~trimmed => (base.shown =>
  \A m \in base.rows :
    cursor = None \/ ids[m] >= ids[cursor] => Knows(view[active], m))

(* A message with an acknowledgement, shown as sent, is in the history once
   the server has done all it does about it and every frame has arrived.    *)
ShownSentIsStored == \A p \in Partners : \A i \in DOMAIN view[p] :
  LET e == view[p][i]
  IN  /\ e.own /\ e.known /\ ~e.failed
      /\ e.msg \notin saving /\ wire = <<>> /\ todo = <<>>
      => e.msg \in store
=============================================================================
