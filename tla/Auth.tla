-------------------------------- MODULE Auth ---------------------------------
(***************************************************************************)
(* Accounts, tokens and what they open: registration and login             *)
(* (internal/usecase/auth.go), the check of every request                  *)
(* (internal/controller/http/middleware/auth.go), the list of revoked      *)
(* tokens in Redis (internal/repository/tokens) and the read deadline of a *)
(* websocket (internal/ws/client.go).                                      *)
(*                                                                         *)
(* Time is counted in a unit below the millisecond.  A token expires on a  *)
(* whole second (jwt.NumericDate), a Redis key lives a whole number of     *)
(* milliseconds, both rounded down.  All clocks run alike.                 *)
(*                                                                         *)
(* The name of a person is what lower(username) compares; passwords differ.*)
(***************************************************************************)
EXTENDS Integers, SequencesExt

CONSTANTS
  People, None,
  NameOf,       \* the name a person registers
  Acceptable,   \* people whose name and password are within the rules
  Tokens,       \* token ids
  Requests,     \* request slots
  Milli,        \* units in a millisecond
  Second,       \* units in a second
  TTL,          \* JWT_TTL
  PongWait,     \* pongWait
  MaxTime,      \* bound: time
  MaxFrames,    \* bound: frames received and not read
  MaxFailures   \* bound: calls of Postgres or Redis that fail

Names == {NameOf[p] : p \in People}

ASSUME AuthAssumption ==
  /\ None \notin People \cup Tokens
  /\ Acceptable \subseteq People
  /\ {Milli, Second, TTL, PongWait} \subseteq Nat \ {0}
  /\ {MaxTime, MaxFrames, MaxFailures} \subseteq Nat

VARIABLES
  clock,
  account,   \* account[n]: who registered the name, a row of users
  answer,    \* answer[p]: what the last registration of p was told
  token,     \* token[t]: whom it was issued to, and when it expires
  denied,    \* denied[t]: when its key in Redis expires, 0 without a key
  ended,     \* history: the tokens whose key was set
  request,   \* request[r]: what is being done with which token
  socket,    \* socket[r]: the websocket r was upgraded to
  failures   \* calls that have failed (bounded by MaxFailures)

vars == <<clock, account, answer, token, denied, ended, request, socket, failures>>

Kind  == {"rest", "logout", "websocket"}
Phase == {"idle", "checked", "served", "revoking", "connected"}
NoToken   == [of |-> None, exp |-> 0]
Idle      == [phase |-> "idle", kind |-> "rest", token |-> None, ttl |-> 0, late |-> FALSE]
NoSocket  == [deadline |-> 0, frames |-> <<>>]

Init ==
  /\ clock = 0
  /\ account = [n \in Names |-> None]
  /\ answer = [p \in People |-> "none"]
  /\ token = [t \in Tokens |-> NoToken]
  /\ denied = [t \in Tokens |-> 0]
  /\ ended = {}
  /\ request = [r \in Requests |-> Idle]
  /\ socket = [r \in Requests |-> NoSocket]
  /\ failures = 0

Fail == failures < MaxFailures /\ failures' = failures + 1
Down(x, unit) == x - (x % unit)
Lesser(x, y) == IF x < y THEN x ELSE y

Tick ==
  /\ clock < MaxTime
  /\ clock' = clock + 1
  /\ UNCHANGED <<account, answer, token, denied, ended, request, socket, failures>>

(* The bound on time, not an event. *)
TimeEnds == clock = MaxTime /\ UNCHANGED vars

-----------------------------------------------------------------------------
(* Accounts. *)

(* The handler's status codes: 201, 409, 400 and 500. *)
Told(p, outcome) == answer' = [answer EXCEPT ![p] = outcome]

(* Mutant: a name that is taken gets the new password. *)
Create_Overwrites(p) ==
  account' = [account EXCEPT ![NameOf[p]] = p] /\ Told(p, "created")

(* The INSERT of Create: the unique index on lower(username) decides which
   of two registrations comes first.                                       *)
Create(p) ==
  IF account[NameOf[p]] = None
    THEN account' = [account EXCEPT ![NameOf[p]] = p] /\ Told(p, "created")
    ELSE UNCHANGED account /\ Told(p, "exists")

(* Once told that there was an error, a client tries again. *)
Register(p) ==
  /\ answer[p] \in {"none", "error"}
  /\ IF p \in Acceptable
       THEN Create(p)
       ELSE UNCHANGED account /\ Told(p, "invalid")
  /\ UNCHANGED <<clock, token, denied, ended, request, socket, failures>>

(* The INSERT may have been carried out although its answer was lost. *)
RegisterFails(p) ==
  /\ answer[p] \in {"none", "error"} /\ p \in Acceptable
  /\ Fail
  /\ \/ UNCHANGED account
     \/ account[NameOf[p]] = None /\ account' = [account EXCEPT ![NameOf[p]] = p]
  /\ Told(p, "error")
  /\ UNCHANGED <<clock, token, denied, ended, request, socket>>

(* The row the name finds has the hash of p's password. *)
Credentials(p) == account[NameOf[p]] = p

(* A wrong password, like an unknown name, changes nothing. *)
Login(p, t) ==
  /\ Credentials(p)
  /\ token[t] = NoToken
  /\ token' = [token EXCEPT ![t] = [of |-> p, exp |-> Down(clock + TTL, Second)]]
  /\ UNCHANGED <<clock, account, answer, denied, ended, request, socket, failures>>

-----------------------------------------------------------------------------
(* JWTAuth, in front of every other handler. *)

Goto(r, phase) == request' = [request EXCEPT ![r].phase = phase]

Answer(r) == request' = [request EXCEPT ![r] = Idle]

(* The token is valid until it expires. *)
Parse(r, t, kind) ==
  /\ request[r].phase = "idle"
  /\ token[t] # NoToken /\ clock < token[t].exp
  /\ request' = [request EXCEPT ![r] = [phase |-> "checked", kind |-> kind,
                                         token |-> t, ttl |-> 0, late |-> t \in ended]]
  /\ UNCHANGED <<clock, account, answer, token, denied, ended, socket, failures>>

Revoked(t) == clock < denied[t]

CheckRevoked(r) ==
  /\ request[r].phase = "checked"
  /\ IF Revoked(request[r].token) THEN Answer(r)
                                  ELSE Goto(r, "served")
  /\ UNCHANGED <<clock, account, answer, token, denied, ended, socket, failures>>

(* Redis does not answer: the request goes on. *)
CheckFails(r) ==
  /\ request[r].phase = "checked"
  /\ Fail
  /\ Goto(r, "served")
  /\ UNCHANGED <<clock, account, answer, token, denied, ended, socket>>

ServeRest(r) ==
  /\ request[r].phase = "served" /\ request[r].kind = "rest"
  /\ Answer(r)
  /\ UNCHANGED <<clock, account, answer, token, denied, ended, socket, failures>>

-----------------------------------------------------------------------------
(* Logout: what is left of the token's life is measured, then the key is
   set for that long.  The answer is the same if it fails.                 *)

AnswerLogout(r) == Answer(r)

(* Mutant: nobody looks whether the token has expired meanwhile. *)
Measure_Unchecked(r) ==
  /\ request[r].phase = "served" /\ request[r].kind = "logout"
  /\ request' = [request EXCEPT ![r].phase = "revoking",
                                 ![r].ttl = token[request[r].token].exp - clock]
  /\ UNCHANGED <<clock, account, answer, token, denied, ended, socket, failures>>

Measure(r) ==
  LET left == token[request[r].token].exp - clock
  IN  /\ request[r].phase = "served" /\ request[r].kind = "logout"
      /\ request' = [request EXCEPT ![r] =
           IF left <= 0 THEN Idle ELSE [@ EXCEPT !.phase = "revoking", !.ttl = left]]
      /\ UNCHANGED <<clock, account, answer, token, denied, ended, socket, failures>>

(* Mutant: the time to live is rounded down to seconds. *)
KeyLife_Seconds(ttl) == IF ttl < Second THEN Milli ELSE Down(ttl, Second)

(* go-redis sends milliseconds, and never less than one. *)
KeyLife(ttl) == IF ttl < Milli THEN Milli ELSE Down(ttl, Milli)

SetKey(t, ttl) ==
  /\ denied' = [denied EXCEPT ![t] = clock + KeyLife(ttl)]
  /\ ended' = ended \cup {t}

Revoke(r) ==
  /\ request[r].phase = "revoking"
  /\ SetKey(request[r].token, request[r].ttl)
  /\ AnswerLogout(r)
  /\ UNCHANGED <<clock, account, answer, token, socket, failures>>

RevokeFails(r) ==
  /\ request[r].phase = "revoking"
  /\ Fail
  /\ SetKey(request[r].token, request[r].ttl) \/ UNCHANGED <<denied, ended>>
  /\ AnswerLogout(r)
  /\ UNCHANGED <<clock, account, answer, token, socket>>

-----------------------------------------------------------------------------
(* A websocket: opened by a request, it is read until its deadline. *)

NextReadDeadline(r) == Lesser(clock + PongWait, token[request[r].token].exp)

Frames(r) == socket[r].frames

(* ServeWs upgrades, readPump sets the deadline. *)
Connect(r) ==
  /\ request[r].phase = "served" /\ request[r].kind = "websocket"
  /\ Goto(r, "connected")
  /\ socket' = [socket EXCEPT ![r] = [deadline |-> NextReadDeadline(r), frames |-> <<>>]]
  /\ UNCHANGED <<clock, account, answer, token, denied, ended, failures>>

(* The connection takes frames off the network while its deadline lasts;
   they may wait in its buffer while the last one is handled.              *)
Receive(r, frame) ==
  /\ request[r].phase = "connected"
  /\ clock < socket[r].deadline /\ Len(Frames(r)) < MaxFrames
  /\ socket' = [socket EXCEPT ![r].frames = Append(@, frame)]
  /\ UNCHANGED <<clock, account, answer, token, denied, ended, request, failures>>

(* A pong moves the deadline when it is read, a message does not. *)
ReadFrame(r) ==
  /\ request[r].phase = "connected" /\ Frames(r) # <<>>
  /\ socket' = [socket EXCEPT ![r] =
       [deadline |-> IF Head(Frames(r)) = "pong" THEN NextReadDeadline(r) ELSE @.deadline,
        frames   |-> Tail(Frames(r))]]
  /\ UNCHANGED <<clock, account, answer, token, denied, ended, request, failures>>

Disconnect(r) ==
  /\ Answer(r)
  /\ socket' = [socket EXCEPT ![r] = NoSocket]
  /\ UNCHANGED <<clock, account, answer, token, denied, ended, failures>>

(* Mutant: a deadline that has passed is moved on instead. *)
ReadTimeout_Renews(r) ==
  /\ request[r].phase = "connected" /\ Frames(r) = <<>>
  /\ clock >= socket[r].deadline
  /\ socket' = [socket EXCEPT ![r].deadline = clock + PongWait]
  /\ UNCHANGED <<clock, account, answer, token, denied, ended, request, failures>>

ReadTimeout(r) ==
  /\ request[r].phase = "connected" /\ Frames(r) = <<>>
  /\ clock >= socket[r].deadline
  /\ Disconnect(r)

PeerCloses(r) == request[r].phase = "connected" /\ Disconnect(r)

Serve(r) ==
  \/ CheckRevoked(r) \/ CheckFails(r) \/ ServeRest(r)
  \/ Measure(r) \/ Revoke(r) \/ RevokeFails(r)
  \/ Connect(r) \/ ReadFrame(r) \/ ReadTimeout(r)

Next ==
  \/ Tick \/ TimeEnds
  \/ \E p \in People : Register(p) \/ RegisterFails(p)
  \/ \E p \in People, t \in Tokens : Login(p, t)
  \/ \E r \in Requests, t \in Tokens, kind \in Kind : Parse(r, t, kind)
  \/ \E r \in Requests : Serve(r) \/ PeerCloses(r)
  \/ \E r \in Requests, frame \in {"data", "pong"} : Receive(r, frame)

(* Time passes, and handlers go on. *)
Fairness == WF_vars(Tick) /\ \A r \in Requests : WF_vars(Serve(r))

Spec == Init /\ [][Next]_vars /\ Fairness

-----------------------------------------------------------------------------
Typed ==
  /\ clock \in 0..MaxTime
  /\ account \in [Names -> People \cup {None}]
  /\ answer \in [People -> {"none", "created", "exists", "invalid", "error"}]
  /\ token \in [Tokens -> [of : People \cup {None}, exp : 0..(MaxTime + TTL)]]
  /\ denied \in [Tokens -> 0..(MaxTime + TTL + Milli)]
  /\ ended \subseteq Tokens
  /\ request \in [Requests -> [phase : Phase, kind : Kind, token : Tokens \cup {None},
                               ttl : 0..TTL, late : BOOLEAN]]
  /\ socket \in [Requests -> [deadline : 0..(MaxTime + TTL), frames : Seq({"data", "pong"})]]
  /\ failures \in 0..MaxFailures

(* Types; the key of a logout is set for a positive time, however long the
   request took, and a websocket is read no longer than its token lives.   *)
TypeOK ==
  /\ Typed
  /\ \A r \in Requests :
       /\ request[r].phase = "revoking" => request[r].ttl > 0
       /\ request[r].phase = "connected" =>
            socket[r].deadline <= token[request[r].token].exp

(* README: usernames "are unique case-insensitively".  Of several people who
   register a name at the same time, and try again when an answer is lost,
   one has the account for good: whoever was told so, and nobody else,
   holds its tokens.                                                       *)
OneOwner ==
  /\ \A p \in People : answer[p] = "created" => account[NameOf[p]] = p
  /\ \A t \in Tokens : token[t] # NoToken => account[NameOf[token[t].of]] = token[t].of

(* While Redis answers, a request that starts after a logout does not get
   through, until the last millisecond of the token: the key, rounded down,
   may be gone that much before the token expires.  And nothing is taken
   off a websocket once its token has expired, whatever pongs were waiting
   to be read.                                                             *)
EndedMeansEnded == [][\A r \in Requests :
  LET exp == token[request[r].token].exp
  IN  /\ request[r].late /\ request[r].phase = "checked"
           /\ request'[r].phase = "served" /\ failures' = failures
             => clock + Milli > exp
      /\ Len(Frames(r)') > Len(Frames(r)) => clock < exp]_vars

(* A websocket ends: with its token if not before. *)
WebsocketsEnd == \A r \in Requests :
  request[r].phase = "connected" /\ clock + TTL <= MaxTime
    ~> request[r].phase # "connected"

=============================================================================
