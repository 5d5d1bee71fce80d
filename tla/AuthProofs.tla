------------------------------ MODULE AuthProofs ------------------------------
(* Theorems about Auth, for any people, tokens, requests and durations. *)
EXTENDS Auth, TLAPS

LEMMA Numbers ==
  /\ {Milli, Second, TTL, PongWait} \subseteq Nat \ {0}
  /\ {MaxTime, MaxFrames, MaxFailures} \subseteq Nat
  /\ None \notin People /\ None \notin Tokens /\ Acceptable \subseteq People
  BY AuthAssumption DEF AuthAssumption

(* Rounding down loses less than one unit. *)
LEMMA DownBounds ==
  ASSUME NEW x \in Nat, NEW u \in Nat \ {0}
  PROVE  Down(x, u) \in 0..x /\ Down(x, u) > x - u
<1>1. x % u \in 0..(u - 1)
  OBVIOUS
<1>2. x % u <= x
  BY Z3
<1> QED
  BY <1>1, <1>2 DEF Down

(* A key lives no shorter than its token, but for a millisecond. *)
LEMMA KeyLifeBounds ==
  ASSUME NEW ttl \in 0..TTL
  PROVE  KeyLife(ttl) \in 0..(TTL + Milli) /\ KeyLife(ttl) + Milli > ttl
<1>1. Down(ttl, Milli) \in 0..ttl /\ Down(ttl, Milli) > ttl - Milli
  BY DownBounds, Numbers
<1> QED
  BY <1>1, Numbers DEF KeyLife

-----------------------------------------------------------------------------
(***************************************************************************)
(* The inductive invariant.                                                *)
(***************************************************************************)
Person(p) == account[NameOf[p]] = p

(* A token is issued once, to the owner of the name, and for at most TTL. *)
Issued == \A t \in Tokens : token[t] # NoToken =>
  /\ token[t].of \in People /\ Person(token[t].of)
  /\ token[t].exp <= clock + TTL

Created == \A p \in People : answer[p] = "created" => Person(p)

(* The key of a revoked token lasts to the token's last millisecond. *)
Keys == \A t \in ended :
  token[t] # NoToken /\ denied[t] + Milli > token[t].exp

(* What a request under way knows about its token. *)
Carried(r) ==
  LET t == request[r].token
  IN  /\ t \in Tokens /\ token[t] # NoToken
      /\ request[r].late => t \in ended
      /\ request[r].phase = "revoking" =>
           request[r].ttl > 0 /\ clock + request[r].ttl >= token[t].exp
      /\ request[r].phase = "connected" => socket[r].deadline <= token[t].exp

UnderWay == \A r \in Requests : request[r].phase # "idle" => Carried(r)

AuthInv == Typed /\ Issued /\ Created /\ Keys /\ UnderWay

Request == [phase : Phase, kind : Kind, token : Tokens \cup {None},
            ttl : 0..TTL, late : BOOLEAN]
Socket  == [deadline : 0..(MaxTime + TTL), frames : Seq({"data", "pong"})]

LEMMA InvInit == ASSUME Init PROVE AuthInv
<1>1. Idle \in Request /\ Idle.phase = "idle"
  BY Numbers DEF Idle, Request, Phase, Kind
<1>2. NoSocket \in Socket
  BY Numbers DEF NoSocket, Socket
<1>3. NoToken \in [of : People \cup {None}, exp : 0..(MaxTime + TTL)]
  BY Numbers DEF NoToken
<1>4. 0 \in 0..MaxTime /\ 0 \in 0..(MaxTime + TTL + Milli) /\ 0 \in 0..MaxFailures
  BY Numbers
<1>5. Typed
  BY <1>1, <1>2, <1>3, <1>4 DEF Init, Typed, Request, Socket
<1>6. Issued /\ Created /\ Keys
  BY DEF Init, Issued, Created, Keys
<1>7. UnderWay
  BY <1>1 DEF Init, UnderWay
<1> QED
  BY <1>5, <1>6, <1>7 DEF AuthInv

(* A step of the handler of one request, to which nothing else is known. *)
LEMMA RequestStep ==
  ASSUME AuthInv, NEW r \in Requests, NEW x \in Request,
         request' = [request EXCEPT ![r] = x],
         UNCHANGED <<clock, account, answer, token, denied, ended>>,
         socket' \in [Requests -> Socket],
         \A q \in Requests \ {r} : socket'[q] = socket[q],
         failures' \in 0..MaxFailures,
         x.phase # "idle" =>
           LET t == x.token
           IN  /\ t \in Tokens /\ token[t] # NoToken
               /\ x.late => t \in ended
               /\ x.phase = "revoking" => x.ttl > 0 /\ clock + x.ttl >= token[t].exp
               /\ x.phase = "connected" => socket'[r].deadline <= token[t].exp
  PROVE  AuthInv'
<1>1. Typed'
  BY DEF AuthInv, Typed, Request, Socket
<1>2. Issued' /\ Created' /\ Keys'
  BY DEF AuthInv, Issued, Created, Keys, Person
<1>3. UnderWay'
  <2> SUFFICES ASSUME NEW q \in Requests, request'[q].phase # "idle"
               PROVE  Carried(q)'
    BY DEF UnderWay
  <2>1. CASE q = r
    <3>1. request'[q] = x
      BY <2>1 DEF AuthInv, Typed
    <3> QED
      BY <2>1, <3>1 DEF Carried
  <2>2. CASE q # r
    <3>1. request'[q] = request[q]
      BY <2>2 DEF AuthInv, Typed
    <3>2. Carried(q)
      BY <3>1 DEF AuthInv, UnderWay
    <3> QED
      BY <2>2, <3>1, <3>2 DEF Carried
  <2> QED
    BY <2>1, <2>2
<1> QED
  BY <1>1, <1>2, <1>3 DEF AuthInv

(* A request that has been answered carries nothing. *)
LEMMA AnswerStep ==
  ASSUME AuthInv, NEW r \in Requests, Answer(r),
         UNCHANGED <<clock, account, answer, token, denied, ended>>,
         socket' \in [Requests -> Socket],
         \A q \in Requests \ {r} : socket'[q] = socket[q],
         failures' \in 0..MaxFailures
  PROVE  AuthInv'
<1>1. Idle \in Request /\ Idle.phase = "idle"
  BY Numbers DEF Idle, Request, Phase, Kind
<1> QED
  BY <1>1, RequestStep DEF Answer

LEMMA FailType == ASSUME Typed, Fail PROVE failures' \in 0..MaxFailures
  BY Numbers DEF Typed, Fail

LEMMA RequestType ==
  ASSUME AuthInv, NEW r \in Requests
  PROVE  /\ request[r] \in Request /\ socket[r] \in Socket
         /\ socket \in [Requests -> Socket]
         /\ failures \in 0..MaxFailures
         /\ request[r].phase # "idle" =>
              /\ Carried(r)
              /\ token[request[r].token].exp \in 0..(MaxTime + TTL)
              /\ token[request[r].token].exp <= clock + TTL
<1>1. /\ request[r] \in Request /\ socket[r] \in Socket
      /\ socket \in [Requests -> Socket] /\ failures \in 0..MaxFailures
  BY DEF AuthInv, Typed, Request, Socket
<1>2. request[r].phase # "idle" => Carried(r)
  BY DEF AuthInv, UnderWay
<1>3. \A t \in Tokens : token[t] \in [of : People \cup {None}, exp : 0..(MaxTime + TTL)]
  BY DEF AuthInv, Typed
<1>4. Carried(r) => /\ token[request[r].token].exp \in 0..(MaxTime + TTL)
                    /\ token[request[r].token].exp <= clock + TTL
  BY <1>3 DEF AuthInv, Issued, Carried
<1> QED
  BY <1>1, <1>2, <1>4

LEMMA InvTick == ASSUME AuthInv, Tick PROVE AuthInv'
<1>1. clock' = clock + 1 /\ clock \in 0..MaxTime /\ clock' \in 0..MaxTime
  BY Numbers DEF AuthInv, Typed, Tick
<1>2. Typed'
  BY <1>1 DEF AuthInv, Typed, Tick
<1>3. Issued'
  <2>1. \A t \in Tokens : token[t].exp \in 0..(MaxTime + TTL)
    BY DEF AuthInv, Typed
  <2> QED
    BY <1>1, <2>1, Numbers DEF AuthInv, Issued, Person, Tick
<1>4. Created' /\ Keys'
  BY DEF AuthInv, Created, Keys, Person, Tick
<1>5. UnderWay'
  <2> SUFFICES ASSUME NEW r \in Requests, request[r].phase # "idle"
               PROVE  Carried(r)'
    BY DEF UnderWay, Tick
  <2>1. Carried(r) /\ request[r].ttl \in Nat
        /\ token[request[r].token].exp \in Nat
    BY RequestType, Numbers DEF Request
  <2> QED
    BY <1>1, <2>1 DEF Carried, Tick
<1> QED
  BY <1>2, <1>3, <1>4, <1>5 DEF AuthInv

(* A registration: the index lets nobody take a name that is taken. *)
LEMMA InvRegister ==
  ASSUME AuthInv, NEW p \in People, Register(p) \/ RegisterFails(p)
  PROVE  AuthInv'
<1>1. /\ UNCHANGED <<clock, token, denied, ended, request, socket>>
      /\ failures' \in 0..MaxFailures
  BY FailType, RequestType DEF Register, RegisterFails, AuthInv, Typed
<1>2. \/ UNCHANGED account
      \/ account[NameOf[p]] = None /\ account' = [account EXCEPT ![NameOf[p]] = p]
  BY DEF Register, RegisterFails, Create
<1>3. \E s \in {"created", "exists", "invalid", "error"} :
        answer' = [answer EXCEPT ![p] = s]
  BY DEF Register, RegisterFails, Create, Told
<1>4. answer'[p] = "created" => Person(p)'
  <2>1. NameOf[p] \in Names
    BY DEF Names
  <2>2. CASE account' = [account EXCEPT ![NameOf[p]] = p]
    BY <2>1, <2>2 DEF Person, AuthInv, Typed
  <2>3. ASSUME NEW s \in {"exists", "invalid", "error"}, Told(p, s)
        PROVE  answer'[p] # "created"
    BY <2>3 DEF Told, AuthInv, Typed
  <2>4. CASE Register(p) /\ p \in Acceptable
    BY <2>2, <2>3, <2>4 DEF Register, Create
  <2>5. CASE Register(p) /\ p \notin Acceptable
    BY <2>3, <2>5 DEF Register
  <2>6. CASE RegisterFails(p)
    BY <2>3, <2>6 DEF RegisterFails
  <2> QED
    BY <2>4, <2>5, <2>6
<1>5. \A o \in People : Person(o) => Person(o)'
  <2> SUFFICES ASSUME NEW o \in People, Person(o) PROVE Person(o)'
    OBVIOUS
  <2>1. NameOf[o] \in Names /\ NameOf[p] \in Names /\ o # None
    BY Numbers DEF Names
  <2>2. account \in [Names -> People \cup {None}]
    BY DEF AuthInv, Typed
  <2> QED
    BY <1>2, <2>1, <2>2 DEF Person
<1>6. Typed'
  BY <1>1, <1>2, <1>3 DEF AuthInv, Typed
<1>7. Issued'
  BY <1>1, <1>5 DEF AuthInv, Issued
<1>8. Created'
  <2> SUFFICES ASSUME NEW o \in People, answer'[o] = "created" PROVE Person(o)'
    BY DEF Created
  <2>1. CASE o = p
    BY <1>4, <2>1
  <2>2. CASE o # p
    BY <1>3, <1>5, <2>2 DEF AuthInv, Typed, Created
  <2> QED
    BY <2>1, <2>2
<1>9. Keys' /\ UnderWay'
  BY <1>1 DEF AuthInv, Keys, UnderWay, Carried
<1> QED
  BY <1>6, <1>7, <1>8, <1>9 DEF AuthInv

LEMMA InvLogin ==
  ASSUME AuthInv, NEW p \in People, NEW t \in Tokens, Login(p, t)
  PROVE  AuthInv'
<1> DEFINE exp == Down(clock + TTL, Second)
           new == [of |-> p, exp |-> exp]
<1>1. exp \in 0..(clock + TTL) /\ exp \in 0..(MaxTime + TTL)
  <2>1. clock + TTL \in Nat /\ clock + TTL <= MaxTime + TTL
    BY Numbers DEF AuthInv, Typed
  <2> QED
    BY <2>1, DownBounds, Numbers
<1> HIDE DEF exp
<1>2. /\ new.of = p /\ new.exp = exp
      /\ new \in [of : People \cup {None}, exp : 0..(MaxTime + TTL)]
      /\ new # NoToken
  BY <1>1, Numbers DEF NoToken
<1>3. /\ UNCHANGED <<clock, account, answer, denied, ended, request, socket, failures>>
      /\ token[t] = NoToken /\ Person(p)
      /\ token' = [token EXCEPT ![t] = new]
  BY DEF Login, Credentials, Person, exp
<1> HIDE DEF new
<1>4. \A s \in Tokens : token'[s] = IF s = t THEN new ELSE token[s]
  BY <1>3 DEF AuthInv, Typed
<1>5. Typed'
  BY <1>2, <1>3 DEF AuthInv, Typed
<1>6. Issued'
  BY <1>1, <1>2, <1>3, <1>4 DEF AuthInv, Issued, Person
<1>7. Created' /\ Keys'
  BY <1>3, <1>4 DEF AuthInv, Typed, Created, Person, Keys
<1>8. UnderWay'
  BY <1>3, <1>4 DEF AuthInv, UnderWay, Carried
<1> QED
  BY <1>5, <1>6, <1>7, <1>8 DEF AuthInv

(* The middleware. *)
LEMMA InvCheck ==
  ASSUME AuthInv, NEW r \in Requests,
         \/ \E t \in Tokens, kind \in Kind : Parse(r, t, kind)
         \/ CheckRevoked(r) \/ CheckFails(r) \/ ServeRest(r)
  PROVE  AuthInv'
<1>1. /\ request[r] \in Request /\ socket \in [Requests -> Socket]
      /\ failures \in 0..MaxFailures
      /\ request[r].phase # "idle" => Carried(r)
  BY RequestType
<1>2. ASSUME NEW t \in Tokens, NEW kind \in Kind, Parse(r, t, kind) PROVE AuthInv'
  <2> DEFINE late == t \in ended
             x == [phase |-> "checked", kind |-> kind, token |-> t, ttl |-> 0,
                   late |-> late]
  <2>1. /\ x \in Request /\ x.phase = "checked" /\ x.token = t
        /\ x.late => t \in ended
    <3>1. late \in BOOLEAN /\ (late => t \in ended)
      OBVIOUS
    <3> HIDE DEF late
    <3> QED
      BY <3>1, Numbers DEF Request, Phase
  <2>2. request' = [request EXCEPT ![r] = x] /\ token[t] # NoToken
        /\ UNCHANGED <<clock, account, answer, token, denied, ended, socket, failures>>
    BY <1>2 DEF Parse
  <2> HIDE DEF x
  <2> QED
    BY <1>1, <2>1, <2>2, RequestStep
<1>3. ASSUME request[r].phase = "checked", Goto(r, "served"),
             UNCHANGED <<clock, account, answer, token, denied, ended, socket>>,
             failures' \in 0..MaxFailures
      PROVE  AuthInv'
  <2> DEFINE x == [request[r] EXCEPT !.phase = "served"]
  <2>1. /\ x \in Request /\ x.phase = "served" /\ x.token = request[r].token
        /\ x.late = request[r].late
    BY <1>1 DEF Request, Phase
  <2>2. request' = [request EXCEPT ![r] = x]
    BY <1>3 DEF Goto
  <2> HIDE DEF x
  <2> QED
    BY <1>1, <1>3, <2>1, <2>2, RequestStep DEF Carried
<1>4. CASE CheckRevoked(r)
  BY <1>1, <1>3, <1>4, AnswerStep DEF CheckRevoked
<1>5. CASE CheckFails(r)
  BY <1>3, <1>5, FailType DEF CheckFails, AuthInv
<1>6. CASE ServeRest(r)
  BY <1>1, <1>6, AnswerStep DEF ServeRest
<1> QED
  BY <1>2, <1>4, <1>5, <1>6

(* Logout. *)
LEMMA InvMeasure == ASSUME AuthInv, NEW r \in Requests, Measure(r) PROVE AuthInv'
<1> DEFINE t    == request[r].token
           left == token[t].exp - clock
           x    == [request[r] EXCEPT !.phase = "revoking", !.ttl = left]
<1>1. /\ request[r] \in Request /\ socket \in [Requests -> Socket]
      /\ failures \in 0..MaxFailures /\ clock \in Nat
      /\ Carried(r)
      /\ token[t].exp \in Nat /\ token[t].exp <= clock + TTL
      /\ UNCHANGED <<clock, account, answer, token, denied, ended, socket, failures>>
  <2>1. /\ request[r].phase = "served"
        /\ UNCHANGED <<clock, account, answer, token, denied, ended, socket, failures>>
    BY DEF Measure
  <2>2. clock \in Nat
    BY Numbers DEF AuthInv, Typed
  <2> QED
    BY <2>1, <2>2, RequestType
<1>2. CASE left <= 0
  <2>1. Answer(r)
    BY <1>2 DEF Measure, Answer
  <2> QED
    BY <1>1, <2>1, AnswerStep
<1>3. CASE ~(left <= 0)
  <2>1. left \in 0..TTL /\ left > 0 /\ clock + left >= token[t].exp
    BY <1>1, <1>3, Numbers
  <2>2. /\ x \in Request /\ x.phase = "revoking" /\ x.token = t /\ x.ttl = left
        /\ x.late = request[r].late
    BY <1>1, <2>1 DEF Request, Phase
  <2>3. request' = [request EXCEPT ![r] = x]
    BY <1>3 DEF Measure
  <2> HIDE DEF x, left
  <2> QED
    BY <1>1, <2>1, <2>2, <2>3, RequestStep DEF Carried
<1> QED
  BY <1>2, <1>3

(* Setting the key, whatever becomes of the call. *)
LEMMA InvRevoke ==
  ASSUME AuthInv, NEW r \in Requests, Revoke(r) \/ RevokeFails(r)
  PROVE  AuthInv'
<1> DEFINE t   == request[r].token
           ttl == request[r].ttl
<1>1. /\ request[r] \in Request /\ socket \in [Requests -> Socket]
      /\ Carried(r) /\ clock + ttl >= token[t].exp /\ t \in Tokens
      /\ token[t] # NoToken /\ ttl \in 0..TTL
      /\ token[t].exp \in Nat /\ clock \in 0..MaxTime
      /\ UNCHANGED <<clock, account, answer, token, socket>> /\ Answer(r)
      /\ failures' \in 0..MaxFailures
  <2>1. request[r].phase = "revoking"
    BY DEF Revoke, RevokeFails
  <2>2. failures' \in 0..MaxFailures
    BY FailType, RequestType DEF Revoke, RevokeFails, AuthInv
  <2>3. UNCHANGED <<clock, account, answer, token, socket>> /\ Answer(r)
    BY DEF Revoke, RevokeFails, AnswerLogout
  <2>4. clock \in 0..MaxTime
    BY DEF AuthInv, Typed
  <2>5. /\ request[r] \in Request /\ socket \in [Requests -> Socket] /\ Carried(r)
        /\ token[t].exp \in 0..(MaxTime + TTL)
    BY <2>1, RequestType
  <2>6. token[t].exp \in Nat
    BY <2>5, Numbers
  <2>7. ttl \in 0..TTL
    BY <2>5 DEF Request
  <2> QED
    BY <2>1, <2>2, <2>3, <2>4, <2>5, <2>6, <2>7 DEF Carried
<1>2. CASE UNCHANGED <<denied, ended>>
  BY <1>1, <1>2, AnswerStep
<1>3. CASE SetKey(t, ttl)
  <2> DEFINE key == clock + KeyLife(ttl)
  <2>1. key \in 0..(MaxTime + TTL + Milli) /\ key + Milli > token[t].exp
    <3>1. KeyLife(ttl) \in 0..(TTL + Milli) /\ KeyLife(ttl) + Milli > ttl
      BY <1>1, KeyLifeBounds
    <3> QED
      BY <1>1, <3>1, Numbers
  <2> HIDE DEF key
  <2>2. denied' = [denied EXCEPT ![t] = key] /\ ended' = ended \cup {t}
    BY <1>3 DEF SetKey, key
  <2>3. request' = [request EXCEPT ![r] = Idle] /\ Idle \in Request
        /\ Idle.phase = "idle"
    BY <1>1, Numbers DEF Answer, Idle, Request, Phase, Kind
  <2>4. Typed'
    <3>1. request' \in [Requests -> Request]
      BY <1>1, <2>3 DEF AuthInv, Typed, Request
    <3>2. denied' \in [Tokens -> 0..(MaxTime + TTL + Milli)] /\ ended' \subseteq Tokens
      BY <1>1, <2>1, <2>2 DEF AuthInv, Typed
    <3> QED
      BY <1>1, <3>1, <3>2 DEF AuthInv, Typed, Request
  <2>5. Issued' /\ Created'
    BY <1>1 DEF AuthInv, Issued, Created, Person
  <2>6. Keys'
    <3> SUFFICES ASSUME NEW s \in ended'
                 PROVE  token[s] # NoToken /\ denied'[s] + Milli > token[s].exp
      BY <1>1 DEF Keys
    <3>1. CASE s = t
      BY <1>1, <2>1, <2>2, <3>1 DEF AuthInv, Typed
    <3>2. CASE s # t
      BY <2>2, <3>2 DEF AuthInv, Typed, Keys
    <3> QED
      BY <3>1, <3>2
  <2>7. UnderWay'
    <3> SUFFICES ASSUME NEW q \in Requests, request'[q].phase # "idle"
                 PROVE  Carried(q)'
      BY DEF UnderWay
    <3>1. q # r /\ request'[q] = request[q]
      BY <2>3 DEF AuthInv, Typed
    <3>2. Carried(q)
      BY <3>1 DEF AuthInv, UnderWay
    <3> QED
      BY <1>1, <2>2, <3>1, <3>2 DEF Carried
  <2> QED
    BY <2>4, <2>5, <2>6, <2>7 DEF AuthInv
<1> QED
  BY <1>2, <1>3 DEF Revoke, RevokeFails

(* The websocket. *)
LEMMA DeadlineBounds ==
  ASSUME AuthInv, NEW r \in Requests, request[r].phase # "idle"
  PROVE  /\ NextReadDeadline(r) \in 0..(MaxTime + TTL)
         /\ NextReadDeadline(r) <= token[request[r].token].exp
<1> DEFINE exp == token[request[r].token].exp
<1>1. exp \in 0..(MaxTime + TTL)
  BY RequestType
<1>2. clock \in Nat /\ PongWait \in Nat
  BY Numbers DEF AuthInv, Typed
<1> HIDE DEF exp
<1>3. Lesser(clock + PongWait, exp) \in 0..(MaxTime + TTL)
      /\ Lesser(clock + PongWait, exp) <= exp
  BY <1>1, <1>2, Numbers DEF Lesser
<1> QED
  BY <1>3 DEF NextReadDeadline, exp

LEMMA InvConnect == ASSUME AuthInv, NEW r \in Requests, Connect(r) PROVE AuthInv'
<1> DEFINE x == [request[r] EXCEPT !.phase = "connected"]
           y == [deadline |-> NextReadDeadline(r), frames |-> <<>>]
<1>1. /\ request[r] \in Request /\ socket \in [Requests -> Socket]
      /\ failures \in 0..MaxFailures /\ Carried(r)
      /\ UNCHANGED <<clock, account, answer, token, denied, ended, failures>>
  BY RequestType DEF Connect
<1>2. y \in Socket /\ y.deadline <= token[request[r].token].exp
  BY DeadlineBounds DEF Connect, Socket
<1> HIDE DEF y
<1>3. socket' = [socket EXCEPT ![r] = y]
  BY DEF Connect, y
<1>4. /\ x \in Request /\ x.phase = "connected" /\ x.token = request[r].token
      /\ x.late = request[r].late
  BY <1>1 DEF Request, Phase
<1>5. request' = [request EXCEPT ![r] = x]
  BY DEF Connect, Goto
<1> HIDE DEF x
<1>6. socket' \in [Requests -> Socket] /\ socket'[r] = y
      /\ \A q \in Requests \ {r} : socket'[q] = socket[q]
  BY <1>1, <1>2, <1>3
<1> QED
  BY <1>1, <1>2, <1>4, <1>5, <1>6, RequestStep DEF Carried

(* What is buffered or read moves the deadline no further than the token. *)
LEMMA SocketStep ==
  ASSUME AuthInv, NEW r \in Requests, request[r].phase = "connected",
         NEW y \in Socket, socket' = [socket EXCEPT ![r] = y],
         y.deadline <= token[request[r].token].exp,
         UNCHANGED <<clock, account, answer, token, denied, ended, request, failures>>
  PROVE  AuthInv'
<1>1. Typed'
  BY DEF AuthInv, Typed, Socket
<1>2. Issued' /\ Created' /\ Keys'
  BY DEF AuthInv, Issued, Created, Keys, Person
<1>3. UnderWay'
  <2>1. socket'[r] = y /\ \A q \in Requests \ {r} : socket'[q] = socket[q]
    BY DEF AuthInv, Typed
  <2> SUFFICES ASSUME NEW q \in Requests, request'[q].phase # "idle" PROVE Carried(q)'
    BY DEF UnderWay
  <2>2. Carried(q)
    BY DEF AuthInv, UnderWay
  <2> QED
    BY <2>1, <2>2 DEF Carried
<1> QED
  BY <1>1, <1>2, <1>3 DEF AuthInv

LEMMA InvReceive ==
  ASSUME AuthInv, NEW r \in Requests, NEW frame \in {"data", "pong"}, Receive(r, frame)
  PROVE  AuthInv'
<1> DEFINE y == [socket[r] EXCEPT !.frames = Append(@, frame)]
<1>1. socket[r] \in Socket /\ Carried(r) /\ request[r].phase = "connected"
  BY RequestType DEF Receive
<1>2. y \in Socket /\ y.deadline = socket[r].deadline
  <2>1. socket[r].frames \in Seq({"data", "pong"})
    BY <1>1 DEF Socket
  <2>2. Append(socket[r].frames, frame) \in Seq({"data", "pong"})
    BY <2>1
  <2> QED
    BY <1>1, <2>2 DEF Socket
<1>3. socket' = [socket EXCEPT ![r] = y]
  BY DEF Receive
<1> HIDE DEF y
<1> QED
  BY <1>1, <1>2, <1>3, SocketStep DEF Carried, Receive

LEMMA InvReadFrame == ASSUME AuthInv, NEW r \in Requests, ReadFrame(r) PROVE AuthInv'
<1> DEFINE d == IF Head(Frames(r)) = "pong" THEN NextReadDeadline(r)
                                            ELSE socket[r].deadline
           y == [deadline |-> d, frames |-> Tail(Frames(r))]
<1>1. socket[r] \in Socket /\ Carried(r) /\ request[r].phase = "connected"
  BY RequestType DEF ReadFrame
<1>2. d \in 0..(MaxTime + TTL) /\ d <= token[request[r].token].exp
  BY <1>1, DeadlineBounds DEF Socket, Carried
<1>3. socket' = [socket EXCEPT ![r] = y]
  BY DEF ReadFrame
<1> HIDE DEF d
<1>4. y \in Socket /\ y.deadline = d
  BY <1>1, <1>2 DEF Socket, Frames, ReadFrame
<1> HIDE DEF y
<1> QED
  BY <1>1, <1>2, <1>3, <1>4, SocketStep DEF ReadFrame

LEMMA InvDisconnect ==
  ASSUME AuthInv, NEW r \in Requests, ReadTimeout(r) \/ PeerCloses(r)
  PROVE  AuthInv'
<1>1. /\ Answer(r) /\ socket' = [socket EXCEPT ![r] = NoSocket]
      /\ UNCHANGED <<clock, account, answer, token, denied, ended, failures>>
  BY DEF ReadTimeout, PeerCloses, Disconnect
<1>2. NoSocket \in Socket
  BY Numbers DEF NoSocket, Socket
<1>3. socket \in [Requests -> Socket] /\ failures \in 0..MaxFailures
  BY RequestType
<1>4. socket' \in [Requests -> Socket]
      /\ \A q \in Requests \ {r} : socket'[q] = socket[q]
  BY <1>1, <1>2, <1>3
<1> QED
  BY <1>1, <1>3, <1>4, AnswerStep

LEMMA InvNext == AuthInv /\ [Next]_vars => AuthInv'
<1> SUFFICES ASSUME AuthInv, [Next]_vars PROVE AuthInv'
  OBVIOUS
<1>1. ASSUME NEW r \in Requests, Serve(r) \/ PeerCloses(r) PROVE AuthInv'
  BY <1>1, InvCheck, InvMeasure, InvRevoke, InvConnect, InvReadFrame, InvDisconnect
     DEF Serve
<1>2. ASSUME TimeEnds \/ UNCHANGED vars PROVE AuthInv'
  BY <1>2 DEF TimeEnds, vars, AuthInv, Typed, Issued, Created, Keys, UnderWay,
     Carried, Person
<1> QED
  BY <1>1, <1>2, InvTick, InvRegister, InvLogin, InvCheck, InvReceive DEF Next

LEMMA Invariance == Spec => []AuthInv
<1>1. Init => AuthInv
  BY InvInit
<1> QED
  BY <1>1, InvNext, PTL DEF Spec

-----------------------------------------------------------------------------
(* Types; a logout sets its key for a positive time, however long it took,
   and no websocket is read past the end of its own token.                 *)
THEOREM TypeCorrect == Spec => []TypeOK
<1>1. AuthInv => TypeOK
  BY DEF AuthInv, UnderWay, Carried, TypeOK
<1> QED
  BY <1>1, Invariance, PTL

(* A name has one owner for good, who alone holds its tokens, however many
   people register it at once and whichever answers are lost.              *)
THEOREM NamesHaveOneOwner == Spec => []OneOwner
<1>1. AuthInv => OneOwner
  BY DEF AuthInv, Created, Issued, Person, OneOwner
<1> QED
  BY <1>1, Invariance, PTL

(* What a check lets through, and what is taken off a websocket. *)
Passes(r) ==
  LET exp == token[request[r].token].exp
  IN  /\ request[r].late /\ request[r].phase = "checked"
           /\ request'[r].phase = "served" /\ failures' = failures
             => clock + Milli > exp
      /\ Len(Frames(r)') > Len(Frames(r)) => clock < exp

LEMMA QuietSteps ==
  ASSUME AuthInv, NEW r \in Requests, UNCHANGED <<request, socket>>
  PROVE  Passes(r)
<1>1. Len(Frames(r)) \in Nat /\ Frames(r)' = Frames(r)
  BY RequestType DEF Frames, Socket
<1> QED
  BY <1>1 DEF Passes

LEMMA CheckPasses ==
  ASSUME AuthInv, NEW r \in Requests, CheckRevoked(r)
  PROVE  Passes(r)
<1> DEFINE t == request[r].token
<1>1. Carried(r) /\ t \in Tokens /\ request[r] \in Request
  BY RequestType DEF CheckRevoked, Carried
<1>2. Frames(r)' = Frames(r) /\ Len(Frames(r)) \in Nat
  BY RequestType DEF CheckRevoked, Frames, Socket
<1>3. request'[r].phase = "served" => clock >= denied[t]
  <2>1. CASE Revoked(t)
    <3>1. request'[r].phase = "idle"
      BY <2>1 DEF CheckRevoked, Answer, Idle, AuthInv, Typed
    <3> QED
      BY <3>1
  <2>2. CASE ~Revoked(t)
    <3>1. clock \in Int /\ denied[t] \in Int
      BY <1>1 DEF AuthInv, Typed
    <3> QED
      BY <2>2, <3>1 DEF Revoked
  <2> QED
    BY <2>1, <2>2
<1>4. /\ request[r].late => denied[t] + Milli > token[t].exp
      /\ clock \in Int /\ denied[t] \in Int /\ token[t].exp \in Int /\ Milli \in Int
  <2>1. request[r].late => t \in ended
    BY <1>1 DEF Carried, CheckRevoked
  <2>2. token[t] \in [of : People \cup {None}, exp : 0..(MaxTime + TTL)]
        /\ denied[t] \in 0..(MaxTime + TTL + Milli) /\ clock \in 0..MaxTime
    BY <1>1 DEF AuthInv, Typed
  <2> QED
    BY <2>1, <2>2, Numbers DEF AuthInv, Keys
<1> QED
  BY <1>2, <1>3, <1>4 DEF Passes

LEMMA ReceivePasses ==
  ASSUME AuthInv, NEW q \in Requests, NEW frame \in {"data", "pong"},
         Receive(q, frame), NEW r \in Requests
  PROVE  Passes(r)
<1> DEFINE exp == token[request[r].token].exp
<1>1. CASE r = q
  <2>1. /\ clock < socket[r].deadline /\ socket[r].deadline <= exp
        /\ request' = request /\ request[r].phase = "connected"
    BY <1>1, RequestType DEF Receive, Carried
  <2>2. clock \in Int /\ socket[r].deadline \in Int /\ exp \in Int
    <3>1. clock \in 0..MaxTime
      BY DEF AuthInv, Typed
    <3>2. socket[r] \in Socket /\ exp \in 0..(MaxTime + TTL)
      BY <2>1, RequestType
    <3> HIDE DEF exp
    <3> QED
      BY <3>1, <3>2, Numbers DEF Socket
  <2>3. clock < exp
    BY <2>1, <2>2
  <2> QED
    BY <2>1, <2>3 DEF Passes
<1>2. CASE r # q
  <2>1. socket'[r] = socket[r] /\ request' = request
    BY <1>2 DEF Receive, AuthInv, Typed
  <2>2. Frames(r)' = Frames(r) /\ Len(Frames(r)) \in Nat
    BY <2>1, RequestType DEF Frames, Socket
  <2> QED
    BY <2>1, <2>2 DEF Passes
<1> QED
  BY <1>1, <1>2

(* No other step of a request lets it through or lengthens its buffer. *)
LEMMA OtherPasses ==
  ASSUME AuthInv, NEW q \in Requests, NEW r \in Requests,
         r # q => request'[r] = request[r],
         r = q => (request[r].phase = "checked" /\ request'[r].phase = "served"
                     => failures' # failures),
         ~(Len(Frames(r)') > Len(Frames(r)))
  PROVE  Passes(r)
BY DEF Passes

(* What each step of a request does to its phase and its buffer. *)
LEMMA ServePasses ==
  ASSUME AuthInv, NEW q \in Requests, Serve(q) \/ PeerCloses(q), ~CheckRevoked(q),
         NEW r \in Requests
  PROVE  Passes(r)
<1>1. /\ request[q] \in Request /\ request \in [Requests -> Request]
      /\ socket \in [Requests -> Socket] /\ failures \in Nat
  <2>1. failures \in 0..MaxFailures
    BY DEF AuthInv, Typed
  <2>2. request \in [Requests -> Request]
    BY DEF AuthInv, Typed, Request
  <2> QED
    BY <2>1, <2>2, RequestType, Numbers
<1>2. r # q => request'[r] = request[r] /\ socket'[r] = socket[r]
  BY <1>1 DEF Serve, PeerCloses, CheckFails, ServeRest, Measure, Revoke, RevokeFails,
     AnswerLogout, Connect, ReadFrame, ReadTimeout, Disconnect, Answer, Goto
<1>3. request[q].phase = "checked" /\ request'[q].phase = "served"
        => failures' # failures
  <2>1. CASE CheckFails(q)
    BY <1>1, <2>1 DEF CheckFails, Fail
  <2>2. CASE ~CheckFails(q)
    BY <2>2 DEF Serve, PeerCloses, ServeRest, Measure, Revoke, RevokeFails,
       Connect, ReadFrame, ReadTimeout
  <2> QED
    BY <2>1, <2>2
<1>4. ~(Len(socket'[q].frames) > Len(socket[q].frames))
  <2>1. socket[q].frames \in Seq({"data", "pong"})
    BY <1>1 DEF Socket
  <2>2. CASE UNCHANGED socket
    BY <2>1, <2>2
  <2>3. CASE Connect(q)
    <3>1. socket'[q].frames = <<>>
      BY <1>1, <2>3 DEF Connect
    <3> QED
      BY <2>1, <3>1
  <2>4. CASE ReadFrame(q)
    <3>1. socket'[q].frames = Tail(socket[q].frames) /\ socket[q].frames # <<>>
      BY <1>1, <2>4 DEF ReadFrame, Frames
    <3> QED
      BY <2>1, <3>1
  <2>5. CASE ReadTimeout(q) \/ PeerCloses(q)
    <3>1. socket'[q].frames = <<>>
      BY <1>1, <2>5 DEF ReadTimeout, PeerCloses, Disconnect, NoSocket
    <3> QED
      BY <2>1, <3>1
  <2> QED
    BY <2>2, <2>3, <2>4, <2>5 DEF Serve, CheckFails, ServeRest, Measure, Revoke,
       RevokeFails
<1>5. r # q => Len(Frames(r)') = Len(Frames(r)) /\ Len(Frames(r)) \in Nat
  BY <1>1, <1>2 DEF Frames, Socket
<1>6. ~(Len(Frames(r)') > Len(Frames(r)))
  BY <1>4, <1>5 DEF Frames
<1> QED
  BY <1>2, <1>3, <1>6, OtherPasses

LEMMA ParsePasses ==
  ASSUME AuthInv, NEW q \in Requests, NEW t \in Tokens, NEW kind \in Kind,
         Parse(q, t, kind), NEW r \in Requests
  PROVE  Passes(r)
<1>1. /\ request \in [Requests -> Request] /\ socket[r] \in Socket
  BY RequestType DEF AuthInv, Typed, Request
<1>2. Len(Frames(r)) \in Nat /\ Len(Frames(r)') = Len(Frames(r))
  BY <1>1 DEF Frames, Socket, Parse
<1>3. r # q => request'[r] = request[r]
  BY <1>1 DEF Parse
<1>4. request[q].phase # "checked"
  BY DEF Parse
<1> QED
  BY <1>2, <1>3, <1>4, OtherPasses

LEMMA StepsPass ==
  AuthInv /\ [Next]_vars => [\A r \in Requests : Passes(r)]_vars
<1> SUFFICES ASSUME AuthInv, Next, NEW r \in Requests PROVE Passes(r)
  OBVIOUS
<1>1. ASSUME NEW q \in Requests, CheckRevoked(q) PROVE Passes(r)
  <2>1. CASE r = q
    BY <1>1, <2>1, CheckPasses
  <2>2. CASE r # q
    <3>1. request'[r] = request[r] /\ socket' = socket
      BY <1>1, <2>2 DEF CheckRevoked, Answer, Goto, AuthInv, Typed
    <3>2. ~(Len(Frames(r)') > Len(Frames(r)))
      BY <3>1, RequestType DEF Frames, Socket
    <3> QED
      BY <2>2, <3>1, <3>2, OtherPasses
  <2> QED
    BY <2>1, <2>2
<1>2. ASSUME UNCHANGED <<request, socket>> PROVE Passes(r)
  BY <1>2, QuietSteps
<1>3. CASE Tick \/ TimeEnds
  BY <1>2, <1>3 DEF Tick, TimeEnds, vars
<1>4. ASSUME NEW p \in People, Register(p) \/ RegisterFails(p) PROVE Passes(r)
  BY <1>2, <1>4 DEF Register, RegisterFails
<1>5. ASSUME NEW p \in People, NEW t \in Tokens, Login(p, t) PROVE Passes(r)
  BY <1>2, <1>5 DEF Login
<1>6. ASSUME NEW q \in Requests, Serve(q) \/ PeerCloses(q) PROVE Passes(r)
  BY <1>1, <1>6, ServePasses
<1>7. ASSUME NEW q \in Requests, NEW frame \in {"data", "pong"}, Receive(q, frame)
      PROVE  Passes(r)
  BY <1>7, ReceivePasses
<1>8. ASSUME NEW q \in Requests, NEW t \in Tokens, NEW kind \in Kind, Parse(q, t, kind)
      PROVE  Passes(r)
  BY <1>8, ParsePasses
<1> QED
  BY <1>3, <1>4, <1>5, <1>6, <1>7, <1>8 DEF Next

(* While Redis answers, a request that starts after a logout is refused
   until the last millisecond of the token, and nothing is taken off a
   websocket once its token has expired.                                   *)
THEOREM RevokedIsRefused == Spec => EndedMeansEnded
<1>1. AuthInv /\ [Next]_vars => [\A r \in Requests :
        LET exp == token[request[r].token].exp
        IN  /\ request[r].late /\ request[r].phase = "checked"
                 /\ request'[r].phase = "served" /\ failures' = failures
                   => clock + Milli > exp
            /\ Len(Frames(r)') > Len(Frames(r)) => clock < exp]_vars
  BY StepsPass DEF Passes
<1> QED
  BY <1>1, Invariance, PTL DEF Spec, EndedMeansEnded
=============================================================================
