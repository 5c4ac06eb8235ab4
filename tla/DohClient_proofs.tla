--------------------------- MODULE DohClient_proofs ---------------------------
(***************************************************************************)
(* Proofs for DohClient, for any number of handlers, any queries, any      *)
(* timeout and a clock that runs as long as one likes.                     *)
(***************************************************************************)
EXTENDS DohClient, TLAPS

(* What each phase of a handler knows of the client it uses, of its Id, and of its reply. *)
HandlerInv(h) ==
    /\ req[h].failed # Never => req[h].pc \in {"lock", "wait", "done"}
    /\ req[h].pc = "do" => req[h].client = httpClient /\ req[h].born = lastCreate
    /\ req[h].failed # Never =>
          /\ req[h].born <= req[h].failed
          /\ req[h].failed <= now
          /\ req[h].client <= httpClient
          /\ req[h].client = httpClient => lastCreate = req[h].born
          /\ req[h].pc = "done" /\ req[h].failed - req[h].born >= Timeout => req[h].client < httpClient
    /\ req[h].pc \in {"lock", "wait"} => req[h].failed # Never
    /\ req[h].pc \in {"rlock", "do", "read"} => req[h].rid = req[h].id
    /\ IF req[h].pc \in {"lock", "wait", "done"}
         THEN Len(replies[h]) = 1 /\ replies[h][1].id = req[h].id
         ELSE replies[h] = <<>>

IInv == TypeOK /\ \A h \in Handler : HandlerInv(h)

ReplyType == [id : Nat, rcode : Rcode, tc : BOOLEAN]

(* A reply that is written is one more, with the given Id. *)
LEMMA WriteReply ==
    ASSUME TypeOK, NEW h \in Handler, NEW id \in Nat, NEW rcode \in Rcode, NEW tc \in BOOLEAN,
           Write(h, id, rcode, tc)
    PROVE  /\ replies' \in [Handler -> Seq(ReplyType)]
           /\ \A g \in Handler : g # h => replies'[g] = replies[g]
           /\ replies[h] = <<>> => Len(replies'[h]) = 1 /\ replies'[h][1].id = id
<1> DEFINE reply == [id |-> id, rcode |-> rcode, tc |-> tc]
<1>1. reply \in ReplyType /\ reply.id = id
  BY DEF ReplyType
<1>2. replies \in [Handler -> Seq(ReplyType)]
  BY DEF TypeOK, ReplyType
<1>3. replies' = [replies EXCEPT ![h] = Append(replies[h], reply)]
  BY DEF Write
<1> HIDE DEF reply
<1>4. replies[h] \in Seq(ReplyType)
  BY <1>2
<1>5. Append(replies[h], reply) \in Seq(ReplyType)
  BY <1>1, <1>4
<1>6. replies[h] = <<>> => Len(Append(replies[h], reply)) = 1 /\ Append(replies[h], reply)[1] = reply
  BY <1>1, <1>4
<1> QED
  BY <1>1, <1>2, <1>3, <1>5, <1>6

(* Initially no handler has begun. *)
LEMMA InitInv == ASSUME Init PROVE IInv
<1> USE ClientAssumption
<1>1. Idle \in RequestState
  BY DEF Idle, Request, NoQuery, RequestState, Never
<1>2. TypeOK
  BY <1>1 DEF Init, TypeOK
<1>3. ASSUME NEW h \in Handler PROVE HandlerInv(h)
  BY <1>3 DEF Init, HandlerInv, Idle, Request, NoQuery, Never
<1> QED
  BY <1>2, <1>3 DEF IInv

(* A query begins: it is refused, given up or sent. *)
LEMMA BeginInv ==
    ASSUME IInv, NEW h \in Handler, handlerFunc(h)
    PROVE  IInv'
<1> USE ClientAssumption
<1>1. PICK q \in Query :
         \/ q.response /\ Ignore(h, "none", q)
         \/ ~q.response /\ "google" \in Protocol /\ generateRequestGoogle(h, q)
         \/ ~q.response /\ "ietf" \in Protocol /\ generateRequestIETF(h, q)
  BY DEF handlerFunc
<1>2. q.id \in Nat /\ q.tcp \in BOOLEAN
  BY DEF QueryType
<1>3. replies[h] = <<>>
  BY DEF handlerFunc, IInv, HandlerInv
<1>4. /\ UNCHANGED <<now, httpClient, lastCreate>>
      /\ TypeOK
      /\ req \in [Handler -> RequestState]
      /\ replies \in [Handler -> Seq(ReplyType)]
  BY DEF handlerFunc, IInv, TypeOK, ReplyType
<1>5. \A g \in Handler : HandlerInv(g)
  BY DEF IInv
<1> DEFINE R(pc, type, rid, ecs) == Request(pc, type, q, rid, ecs)
<1>6. ASSUME NEW type \in Protocol \cup {"none"}, NEW rid \in Nat,
             NEW rcode \in Rcode, Refuse(h, type, q, rid, rcode)
      PROVE  IInv'
  <2>1. R("done", type, rid, "none") \in RequestState
    BY <1>2, <1>6 DEF Request, RequestState, Never
  <2>2. req' = [req EXCEPT ![h] = R("done", type, rid, "none")]
    BY <1>6 DEF Refuse
  <2>3. /\ replies' \in [Handler -> Seq(ReplyType)]
        /\ \A g \in Handler : g # h => replies'[g] = replies[g]
        /\ Len(replies'[h]) = 1 /\ replies'[h][1].id = q.id
    BY <1>2, <1>3, <1>4, <1>6, WriteReply DEF Refuse
  <2>4. TypeOK'
    BY <1>4, <2>1, <2>2, <2>3 DEF TypeOK, ReplyType
  <2>5. HandlerInv(h)'
    BY <1>4, <2>2, <2>3 DEF HandlerInv, Request, Never
  <2>6. ASSUME NEW g \in Handler, g # h PROVE HandlerInv(g)'
    BY <1>4, <1>5, <2>2, <2>3, <2>6 DEF HandlerInv
  <2> QED
    BY <2>4, <2>5, <2>6 DEF IInv
<1>7. ASSUME NEW pc \in {"rlock", "ignored"}, NEW type \in Protocol \cup {"none"},
             NEW ecs \in {"none", "zero", "query", "client"},
             req' = [req EXCEPT ![h] = R(pc, type, q.id, ecs)], UNCHANGED replies
      PROVE  IInv'
  <2>1. R(pc, type, q.id, ecs) \in RequestState
    BY <1>2, <1>7 DEF Request, RequestState, Never
  <2>2. TypeOK'
    BY <1>4, <1>7, <2>1 DEF TypeOK, ReplyType
  <2>3. HandlerInv(h)'
    BY <1>3, <1>4, <1>7 DEF HandlerInv, Request, Never
  <2>4. ASSUME NEW g \in Handler, g # h PROVE HandlerInv(g)'
    BY <1>4, <1>5, <1>7, <2>4 DEF HandlerInv
  <2> QED
    BY <2>2, <2>3, <2>4 DEF IInv
<1>8. findClientIP(q) \in {"none", "zero", "query", "client"}
  BY DEF findClientIP
<1>9. ClientSubnet(q) \in {"none", "zero", "query", "client"}
  BY <1>8 DEF ClientSubnet
<1>10. CASE Ignore(h, "none", q)
  BY <1>7, <1>10 DEF Ignore
<1>11. CASE "google" \in Protocol /\ generateRequestGoogle(h, q)
  BY <1>2, <1>6, <1>7, <1>8, <1>11 DEF generateRequestGoogle, Send, Rcode
<1>12. CASE "ietf" \in Protocol /\ generateRequestIETF(h, q)
  BY <1>2, <1>6, <1>7, <1>9, <1>12 DEF generateRequestIETF, Send, Ignore, Rcode
<1> QED
  BY <1>1, <1>10, <1>11, <1>12

(* The steps around httpClientMux. *)
LEMMA MutexInv ==
    ASSUME IInv, NEW h \in Handler, RLock(h) \/ DoReturns(h) \/ Lock(h)
    PROVE  IInv'
<1> USE ClientAssumption
<1>1. /\ UNCHANGED <<now, httpClient, lastCreate, replies>>
      /\ req \in [Handler -> RequestState]
      /\ httpClient \in Nat /\ lastCreate \in 0..now /\ now \in Nat
  BY DEF RLock, DoReturns, Lock, IInv, TypeOK
<1>2. req' \in [Handler -> RequestState]
  BY <1>1 DEF RLock, DoReturns, Lock, RequestState
<1>3. TypeOK'
  BY <1>1, <1>2 DEF IInv, TypeOK
<1>4. HandlerInv(h)'
  <2>1. CASE RLock(h)
    BY <1>1, <2>1 DEF RLock, IInv, HandlerInv, RequestState
  <2>2. CASE DoReturns(h)
    <3>1. HandlerInv(h) /\ req[h].pc = "do"
      BY <2>2 DEF DoReturns, IInv
    <3>2. /\ req'[h].pc = "read" /\ req'[h].failed = req[h].failed
          /\ req'[h].id = req[h].id /\ req'[h].rid = req[h].rid
      BY <1>1, <2>2 DEF DoReturns, RequestState
    <3> QED
      BY <1>1, <3>1, <3>2 DEF HandlerInv
  <2>3. CASE Lock(h)
    BY <1>1, <2>3 DEF Lock, IInv, HandlerInv, RequestState
  <2> QED
    BY <2>1, <2>2, <2>3
<1>5. ASSUME NEW g \in Handler, g # h PROVE HandlerInv(g)'
  <2>1. req'[g] = req[g]
    BY <1>1, <1>5 DEF RLock, DoReturns, Lock
  <2> QED
    BY <1>1, <2>1 DEF IInv, HandlerInv
<1> QED
  BY <1>3, <1>4, <1>5 DEF IInv

(* Do fails: SERVFAIL is written before the client is looked at. *)
LEMMA FailInv ==
    ASSUME IInv, NEW h \in Handler, DoFails(h)
    PROVE  IInv'
<1> USE ClientAssumption
<1>1. /\ UNCHANGED <<now, httpClient, lastCreate>>
      /\ req \in [Handler -> RequestState]
      /\ httpClient \in Nat /\ lastCreate \in 0..now /\ now \in Nat
      /\ replies[h] = <<>> /\ req[h].id \in Nat /\ TypeOK
  BY DEF DoFails, IInv, TypeOK, HandlerInv, RequestState
<1>2. req' \in [Handler -> RequestState]
  <2>1. [req[h] EXCEPT !.pc = "lock", !.failed = now] \in RequestState
    <3>1. req[h] \in RequestState /\ now \in Nat
      BY <1>1
    <3> QED
      BY <3>1 DEF RequestState
  <2>2. req' = [req EXCEPT ![h] = [req[h] EXCEPT !.pc = "lock", !.failed = now]]
    BY <1>1 DEF DoFails
  <2> QED
    BY <1>1, <2>1, <2>2
<1>3. /\ replies' \in [Handler -> Seq(ReplyType)]
      /\ \A g \in Handler : g # h => replies'[g] = replies[g]
      /\ Len(replies'[h]) = 1 /\ replies'[h][1].id = req[h].id
  BY <1>1, WriteReply DEF DoFails, Rcode
<1>4. TypeOK'
  BY <1>1, <1>2, <1>3 DEF TypeOK, ReplyType
<1>5. HandlerInv(h)'
  <2>1. /\ req'[h].pc = "lock" /\ req'[h].failed = now /\ req'[h].id = req[h].id
        /\ req'[h].client = req[h].client /\ req'[h].born = req[h].born
    BY <1>1 DEF DoFails, RequestState
  <2>2. req[h].client = httpClient /\ req[h].born = lastCreate
    BY DEF DoFails, IInv, HandlerInv
  <2> QED
    BY <1>1, <1>3, <2>1, <2>2 DEF HandlerInv, Never
<1>6. ASSUME NEW g \in Handler, g # h PROVE HandlerInv(g)'
  <2>1. req'[g] = req[g]
    BY <1>1, <1>6 DEF DoFails
  <2> QED
    BY <1>1, <1>3, <1>6, <2>1 DEF IInv, HandlerInv
<1> QED
  BY <1>4, <1>5, <1>6 DEF IInv

(* newHTTPClient: without readers nobody is in Do, and a client that is kept is young. *)
LEMMA NewClientInv ==
    ASSUME IInv, NEW h \in Handler, newHTTPClient(h)
    PROVE  IInv'
<1> USE ClientAssumption
<1>1. /\ UNCHANGED <<now, replies>>
      /\ req \in [Handler -> RequestState]
      /\ httpClient \in Nat /\ lastCreate \in 0..now /\ now \in Nat
  BY DEF newHTTPClient, IInv, TypeOK
<1>2. req' \in [Handler -> RequestState]
  BY <1>1 DEF newHTTPClient, RequestState
<1>3. httpClient' \in Nat /\ lastCreate' \in 0..now
  BY <1>1 DEF newHTTPClient
<1>4. TypeOK'
  BY <1>1, <1>2, <1>3 DEF IInv, TypeOK
<1>5. \A g \in Handler : req[g].pc # "do"
  BY DEF newHTTPClient, Readers
<1>6. ASSUME NEW g \in Handler
      PROVE  /\ req'[g].client = req[g].client /\ req'[g].born = req[g].born
             /\ req'[g].failed = req[g].failed /\ req'[g].id = req[g].id /\ req'[g].rid = req[g].rid
             /\ req'[g].pc = IF g = h THEN "done" ELSE req[g].pc
             /\ req[g].client \in Nat /\ req[g].born \in Nat /\ req[g].failed \in Nat \cup {Never}
  BY <1>1, <1>6 DEF newHTTPClient, RequestState
<1>7. ASSUME NEW g \in Handler PROVE HandlerInv(g)'
  <2>1. HandlerInv(g)
    BY <1>7 DEF IInv
  <2>2. CASE now - lastCreate < Timeout
    <3>1. httpClient' = httpClient /\ lastCreate' = lastCreate
      BY <2>2 DEF newHTTPClient
    <3>2. req[h].pc = "wait"
      BY DEF newHTTPClient
    <3>3. CASE g # h
      BY <1>1, <1>6, <1>7, <2>1, <3>1, <3>3 DEF HandlerInv
    <3>4. CASE g = h
      <4>1. req[h].failed # Never /\ req[h].failed \in Nat
        BY <1>6, <2>1, <3>2, <3>4 DEF HandlerInv
      <4>2. /\ req[h].born <= req[h].failed /\ req[h].failed <= now
            /\ req[h].client <= httpClient
            /\ req[h].client = httpClient => lastCreate = req[h].born
            /\ Len(replies[h]) = 1 /\ replies[h][1].id = req[h].id
        BY <2>1, <3>2, <3>4, <4>1 DEF HandlerInv
      <4>3. req[h].failed - req[h].born >= Timeout => req[h].client < httpClient
        BY <1>1, <1>6, <2>2, <4>1, <4>2
      <4>4. /\ req'[h].pc = "done" /\ req'[h].failed = req[h].failed /\ req'[h].born = req[h].born
            /\ req'[h].client = req[h].client /\ req'[h].id = req[h].id
        BY <1>6
      <4> QED
        BY <1>1, <3>1, <3>4, <4>1, <4>2, <4>3, <4>4 DEF HandlerInv
    <3> QED
      BY <3>3, <3>4
  <2>3. CASE ~(now - lastCreate < Timeout)
    <3>1. httpClient' = httpClient + 1 /\ lastCreate' = now
      BY <2>3 DEF newHTTPClient
    <3>2. req[h].pc = "wait"
      BY DEF newHTTPClient
    <3> QED
      BY <1>1, <1>5, <1>6, <1>7, <2>1, <2>3, <3>1, <3>2 DEF HandlerInv
  <2> QED
    BY <2>2, <2>3
<1> QED
  BY <1>4, <1>7 DEF IInv

(* The response becomes one reply, with the query's Id by either parser. *)
LEMMA ParseInv ==
    ASSUME IInv, NEW h \in Handler, parseResponse(h)
    PROVE  IInv'
<1> USE ClientAssumption
<1>1. /\ UNCHANGED <<now, httpClient, lastCreate>>
      /\ req \in [Handler -> RequestState]
      /\ req[h].pc = "read" /\ replies[h] = <<>>
      /\ req[h].id \in Nat /\ req[h].rid = req[h].id /\ req[h].failed = Never /\ TypeOK
  BY DEF parseResponse, IInv, TypeOK, HandlerInv, RequestState
<1>2. PICK rcode \in Rcode, tc \in BOOLEAN : Write(h, req[h].id, rcode, tc)
  <2>1. PICK own \in BOOLEAN : Answer(h, own, req[h].id)
    BY <1>1 DEF parseResponse, parseResponseGoogle, parseResponseIETF
  <2>2. PICK ok \in BOOLEAN, usable \in BOOLEAN, big \in BOOLEAN, tc \in BOOLEAN, rcode \in Rcode :
           IF usable /\ (ok \/ own)
             THEN Write(h, req[h].id, rcode, tc \/ (big /\ ~req[h].tcp))
             ELSE Write(h, req[h].id, "servfail", FALSE)
    BY <2>1 DEF Answer
  <2>3. (tc \/ (big /\ ~req[h].tcp)) \in BOOLEAN /\ "servfail" \in Rcode
    BY DEF Rcode
  <2> QED
    BY <2>2, <2>3
<1>3. req' \in [Handler -> RequestState]
  <2>1. [req[h] EXCEPT !.pc = "done"] \in RequestState
    <3>1. req[h] \in RequestState
      BY <1>1
    <3> QED
      BY <3>1 DEF RequestState
  <2>2. req' = [req EXCEPT ![h] = [req[h] EXCEPT !.pc = "done"]]
    BY <1>1 DEF parseResponse
  <2> QED
    BY <1>1, <2>1, <2>2
<1>4. /\ replies' \in [Handler -> Seq(ReplyType)]
      /\ \A g \in Handler : g # h => replies'[g] = replies[g]
      /\ Len(replies'[h]) = 1 /\ replies'[h][1].id = req[h].id
  BY <1>1, <1>2, WriteReply
<1>5. TypeOK'
  BY <1>1, <1>3, <1>4 DEF TypeOK, ReplyType
<1>6. HandlerInv(h)'
  <2>1. req'[h].pc = "done" /\ req'[h].failed = Never /\ req'[h].id = req[h].id
    BY <1>1 DEF parseResponse, RequestState
  <2> QED
    BY <1>4, <2>1 DEF HandlerInv
<1>7. ASSUME NEW g \in Handler, g # h PROVE HandlerInv(g)'
  <2>1. req'[g] = req[g]
    BY <1>1, <1>7 DEF parseResponse
  <2> QED
    BY <1>1, <1>4, <1>7, <2>1 DEF IInv, HandlerInv
<1> QED
  BY <1>5, <1>6, <1>7 DEF IInv

(* A handler returns. *)
LEMMA ReturnInv ==
    ASSUME IInv, NEW h \in Handler, Return(h)
    PROVE  IInv'
<1>1. /\ UNCHANGED <<now, httpClient, lastCreate>>
      /\ req \in [Handler -> RequestState]
      /\ replies \in [Handler -> Seq(ReplyType)]
  BY DEF Return, IInv, TypeOK, ReplyType
<1>2. Idle \in RequestState
  BY DEF Idle, Request, NoQuery, RequestState, Never
<1>3. TypeOK'
  <2>1. req' \in [Handler -> RequestState]
    BY <1>1, <1>2 DEF Return
  <2>2. replies' \in [Handler -> Seq(ReplyType)]
    BY <1>1 DEF Return
  <2> QED
    BY <1>1, <2>1, <2>2 DEF IInv, TypeOK, ReplyType
<1>4. HandlerInv(h)'
  BY <1>1 DEF Return, HandlerInv, Idle, Request, NoQuery, Never
<1>5. ASSUME NEW g \in Handler, g # h PROVE HandlerInv(g)'
  BY <1>1, <1>5 DEF Return, IInv, HandlerInv
<1> QED
  BY <1>3, <1>4, <1>5 DEF IInv

(* Time passes. *)
LEMMA TickInv == ASSUME IInv, Tick PROVE IInv'
<1>1. /\ UNCHANGED <<httpClient, lastCreate, req, replies>>
      /\ now' = now + 1 /\ now \in Nat /\ lastCreate \in 0..now
      /\ req \in [Handler -> RequestState]
  BY DEF Tick, IInv, TypeOK
<1>2. TypeOK'
  <2>1. now' \in Nat /\ lastCreate' \in 0..now'
    BY <1>1
  <2> QED
    BY <1>1, <2>1 DEF IInv, TypeOK
<1>3. ASSUME NEW h \in Handler PROVE HandlerInv(h)'
  <2>1. req[h].failed \in Nat \cup {Never}
    BY <1>1, <1>3 DEF RequestState
  <2> QED
    BY <1>1, <1>3, <2>1 DEF IInv, HandlerInv
<1> QED
  BY <1>2, <1>3 DEF IInv

(* Every step keeps the invariant. *)
LEMMA StepInv == ASSUME IInv, [Next]_vars PROVE IInv'
<1>1. CASE Next
  BY <1>1, TickInv, BeginInv, MutexInv, FailInv, NewClientInv, ParseInv, ReturnInv DEF Next
<1>2. CASE UNCHANGED vars
  BY <1>2 DEF vars, IInv, TypeOK, HandlerInv
<1> QED
  BY <1>1, <1>2

(* The invariant of the client. *)
THEOREM Inductive == Spec => []IInv
<1> QED
  BY InitInv, StepInv, PTL DEF Spec

(* The ages that newHTTPClient compares are those of clients made before now, whatever the handlers do. *)
THEOREM TypeCorrect == Spec => []TypeOK
<1>1. IInv => TypeOK
  BY DEF IInv
<1> QED
  BY <1>1, Inductive, PTL

(* A query gets at most one reply, with its own Id, by whatever path it ends, and exactly one *)
(* if it was neither given up nor hit by a network error.                                     *)
THEOREM QueriesAreAnsweredOnce == Spec => []AnsweredOnce
<1>1. ASSUME IInv PROVE AnsweredOnce
  <2>1. ASSUME NEW h \in Handler
        PROVE  /\ Len(replies[h]) <= 1
               /\ \A i \in DOMAIN replies[h] : replies[h][i].id = req[h].id
               /\ req[h].pc = "done" /\ req[h].failed = Never => Len(replies[h]) = 1
    <3>1. replies[h] \in Seq(ReplyType) /\ HandlerInv(h)
      BY <1>1, <2>1 DEF IInv, TypeOK, ReplyType
    <3>2. DOMAIN replies[h] = 1..Len(replies[h]) /\ Len(<<>>) = 0
      BY <3>1
    <3>3. CASE req[h].pc \in {"lock", "wait", "done"}
      <4>1. Len(replies[h]) = 1 /\ replies[h][1].id = req[h].id
        BY <3>1, <3>3 DEF HandlerInv
      <4>2. \A i \in DOMAIN replies[h] : i = 1
        BY <3>2, <4>1
      <4> QED
        BY <3>3, <4>1, <4>2
    <3>4. CASE req[h].pc \notin {"lock", "wait", "done"}
      <4>1. replies[h] = <<>>
        BY <3>1, <3>4 DEF HandlerInv
      <4>2. Len(replies[h]) = 0 /\ DOMAIN replies[h] = {}
        BY <3>2, <4>1
      <4> QED
        BY <3>4, <4>2
    <3> QED
      BY <3>3, <3>4
  <2> QED
    BY <2>1 DEF AnsweredOnce
<1> QED
  BY <1>1, Inductive, PTL

(* The HTTP client is never replaced under a running Do. *)
THEOREM ClientsStayDuringDo == Spec => []ClientStaysDuringDo
<1>1. ASSUME IInv PROVE ClientStaysDuringDo
  BY <1>1 DEF IInv, HandlerInv, ClientStaysDuringDo
<1> QED
  BY <1>1, Inductive, PTL

(* A client that failed when it was at least Timeout old is gone when the handler is done. *)
THEOREM FailedClientsAreReplaced == Spec => []FailedClientIsReplaced
<1>1. ASSUME IInv PROVE FailedClientIsReplaced
  BY <1>1 DEF IInv, TypeOK, RequestState, HandlerInv, FailedClientIsReplaced
<1> QED
  BY <1>1, Inductive, PTL

(* Two creations of an HTTP client are at least Timeout apart. *)
THEOREM ClientsAreSpaced == Spec => CreationsAreSpaced
<1>1. ASSUME IInv, [Next]_vars PROVE [httpClient' # httpClient => lastCreate' - lastCreate >= Timeout]_vars
  <2> SUFFICES ASSUME httpClient' # httpClient PROVE lastCreate' - lastCreate >= Timeout
    OBVIOUS
  <2>1. PICK h \in Handler : newHTTPClient(h)
    BY <1>1 DEF Next, vars, Tick, handlerFunc, RLock, DoReturns, DoFails, Lock, parseResponse, Return
  <2>2. lastCreate' = now /\ ~(now - lastCreate < Timeout)
    BY <2>1 DEF newHTTPClient
  <2> QED
    BY <1>1, <2>2, ClientAssumption DEF IInv, TypeOK
<1> QED
  BY <1>1, Inductive, PTL DEF Spec, CreationsAreSpaced
===============================================================================
