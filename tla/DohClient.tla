------------------------------ MODULE DohClient ------------------------------
(***************************************************************************)
(* doh-client (doh-client/client.go, google.go, ietf.go): handlers, one    *)
(* per DNS query, send the query to an HTTPS upstream through a shared     *)
(* HTTP client and write the reply.  The client is replaced after a        *)
(* network failure, at most once per timeout, under httpClientMux.         *)
(***************************************************************************)
EXTENDS Integers, Sequences

CONSTANTS
    Handler,    \* goroutines that serve a query: slots, reused
    Query,      \* packets a handler may be given
    Protocol,   \* upstreams configured: a set of "google" and "ietf"
    NoECS,      \* option no_ecs
    Timeout,    \* option timeout, in ticks of the clock
    MaxTime     \* bound of the clock

(* A UDP size that a query announces has room for a header. *)
QueryType ==
    [id : Nat \ {0},
     response : BOOLEAN,   \* the packet is a response, not a query
     single : BOOLEAN,     \* it has exactly one question
     tcp : BOOLEAN,        \* it came over TCP
     subnet : BOOLEAN,     \* it has an EDNS0 client subnet of its own
     global : BOOLEAN]     \* the querier's address is a global one

ASSUME ClientAssumption ==
    /\ Query \subseteq QueryType
    /\ Protocol \in SUBSET {"google", "ietf"} \ {{}}
    /\ NoECS \in BOOLEAN
    /\ Timeout \in Nat \ {0}
    /\ MaxTime \in Nat

Rcode == {"success", "formerr", "servfail", "nxdomain"}

VARIABLES
    now,          \* the clock
    httpClient,   \* the client in use: the number of those created before it
    lastCreate,   \* c.httpClientLastCreate
    req,          \* per handler: its query and how far it is
    replies       \* per handler: what it has written to the querier

vars == <<now, httpClient, lastCreate, req, replies>>

Never == -1

(* What a handler knows of its query: r.Id may differ from the query's Id for a while. *)
Request(pc, type, q, rid, ecs) ==
    [pc |-> pc, type |-> type, id |-> q.id, rid |-> rid, tcp |-> q.tcp, ecs |-> ecs,
     client |-> 0, born |-> 0, failed |-> Never]

NoQuery == [id |-> 0, tcp |-> FALSE]

Idle == Request("idle", "none", NoQuery, 0, "none")

(* NewClient has made the first HTTP client. *)
Init ==
    /\ now = 0
    /\ httpClient = 0
    /\ lastCreate = 0
    /\ req = [h \in Handler |-> Idle]
    /\ replies = [h \in Handler |-> <<>>]

(* w.WriteMsg or w.Write. *)
Write(h, id, rcode, tc) ==
    replies' = [replies EXCEPT ![h] = Append(@, [id |-> id, rcode |-> rcode, tc |-> tc])]

-------------------------------------------------------------------------------
(* The request. *)

(* The subnet findClientIP reports: none, that of 0.0.0.0, the query's own or the querier's. *)
findClientIP(q) ==
    IF NoECS THEN "zero"
    ELSE IF q.subnet THEN "query"
    ELSE IF q.global THEN "client"
    ELSE "none"

(* The handler answers the query without asking upstream. *)
Refuse(h, type, q, rid, rcode) ==
    /\ req' = [req EXCEPT ![h] = Request("done", type, q, rid, "none")]
    /\ Write(h, q.id, rcode, FALSE)

(* It gives the query up without an answer. *)
Ignore(h, type, q) ==
    /\ req' = [req EXCEPT ![h] = Request("ignored", type, q, q.id, "none")]
    /\ UNCHANGED replies

(* The HTTP request is built and names the client subnet ecs. *)
Send(h, type, q, rid, ecs) ==
    /\ req' = [req EXCEPT ![h] = Request("rlock", type, q, rid, ecs)]
    /\ UNCHANGED replies

(* Everything up to RLock; a request that cannot be built is answered with SERVFAIL. *)
generateRequestGoogle(h, q) ==
    \/ ~q.single /\ Refuse(h, "google", q, q.id, "formerr")
    \/ q.single /\ Refuse(h, "google", q, q.id, "servfail")
    \/ q.single /\ Send(h, "google", q, q.id, findClientIP(q))

(* A query's own client subnet stays in it. *)
ClientSubnet(q) == IF q.subnet THEN "query" ELSE findClientIP(q)

(* Mutant: r does not get its Id back. *)
GenerateForgetsId(h, q) == q.single /\ Send(h, "ietf", q, 0, ClientSubnet(q))

(* Everything up to RLock.  r is packed with Id 0 and gets its Id back if that succeeds; an *)
(* HTTP request that cannot be built is given up.                                           *)
generateRequestIETF(h, q) ==
    \/ ~q.single /\ Refuse(h, "ietf", q, q.id, "formerr")
    \/ q.single /\ Refuse(h, "ietf", q, 0, "formerr")
    \/ q.single /\ Ignore(h, "ietf", q)
    \/ q.single /\ Send(h, "ietf", q, q.id, ClientSubnet(q))

(* handlerFunc: a response packet is ignored; the protocol is chosen at random. *)
handlerFunc(h) ==
    /\ req[h].pc = "idle"
    /\ \E q \in Query :
          \/ q.response /\ Ignore(h, "none", q)
          \/ ~q.response /\ "google" \in Protocol /\ generateRequestGoogle(h, q)
          \/ ~q.response /\ "ietf" \in Protocol /\ generateRequestIETF(h, q)
    /\ UNCHANGED <<now, httpClient, lastCreate>>

-------------------------------------------------------------------------------
(* httpClientMux, a sync.RWMutex: Do runs under RLock, newHTTPClient under Lock. *)

Readers == {h \in Handler : req[h].pc = "do"}

WriterWaits == \E h \in Handler : req[h].pc = "wait"

RLock(h) ==
    /\ req[h].pc = "rlock"
    /\ ~WriterWaits
    /\ req' = [req EXCEPT ![h].pc = "do", ![h].client = httpClient, ![h].born = lastCreate]
    /\ UNCHANGED <<now, httpClient, lastCreate, replies>>

DoReturns(h) ==
    /\ req[h].pc = "do"
    /\ req' = [req EXCEPT ![h].pc = "read"]
    /\ UNCHANGED <<now, httpClient, lastCreate, replies>>

(* A network error: RUnlock, SERVFAIL to the querier, then newHTTPClient. *)
DoFails(h) ==
    /\ req[h].pc = "do"
    /\ req' = [req EXCEPT ![h].pc = "lock", ![h].failed = now]
    /\ Write(h, req[h].id, "servfail", FALSE)
    /\ UNCHANGED <<now, httpClient, lastCreate>>

Lock(h) ==
    /\ req[h].pc = "lock"
    /\ ~WriterWaits
    /\ req' = [req EXCEPT ![h].pc = "wait"]
    /\ UNCHANGED <<now, httpClient, lastCreate, replies>>

(* Mutant: the time of the next creation is stored. *)
NewClientStoresDeadline(h) ==
    /\ req[h].pc = "wait"
    /\ Readers = {}
    /\ IF now - lastCreate < Timeout
         THEN UNCHANGED <<httpClient, lastCreate>>
         ELSE /\ httpClient' = httpClient + 1
              /\ lastCreate' = now + Timeout
    /\ req' = [req EXCEPT ![h].pc = "done"]
    /\ UNCHANGED <<now, replies>>

(* Mutant: the client is replaced without httpClientMux. *)
NewClientUnlocked(h) ==
    /\ req[h].pc = "wait"
    /\ IF now - lastCreate < Timeout
         THEN UNCHANGED <<httpClient, lastCreate>>
         ELSE /\ httpClient' = httpClient + 1
              /\ lastCreate' = now
    /\ req' = [req EXCEPT ![h].pc = "done"]
    /\ UNCHANGED <<now, replies>>

(* Mutant: <= for <. *)
NewClientTooLate(h) ==
    /\ req[h].pc = "wait"
    /\ Readers = {}
    /\ IF now - lastCreate <= Timeout
         THEN UNCHANGED <<httpClient, lastCreate>>
         ELSE /\ httpClient' = httpClient + 1
              /\ lastCreate' = now
    /\ req' = [req EXCEPT ![h].pc = "done"]
    /\ UNCHANGED <<now, replies>>

(* Mutant: the age is that of the client the handler failed with, read before Lock. *)
NewClientChecksEarly(h) ==
    /\ req[h].pc = "wait"
    /\ Readers = {}
    /\ IF req[h].failed - req[h].born < Timeout
         THEN UNCHANGED <<httpClient, lastCreate>>
         ELSE /\ httpClient' = httpClient + 1
              /\ lastCreate' = now
    /\ req' = [req EXCEPT ![h].pc = "done"]
    /\ UNCHANGED <<now, replies>>

(* Mutant: the early return forgets Unlock. *)
NewClientKeepsLock(h) ==
    /\ req[h].pc = "wait"
    /\ Readers = {}
    /\ IF now - lastCreate < Timeout
         THEN UNCHANGED <<httpClient, lastCreate>>
         ELSE /\ httpClient' = httpClient + 1
              /\ lastCreate' = now
    /\ req' = [req EXCEPT ![h].pc = IF now - lastCreate < Timeout THEN "wait" ELSE "done"]
    /\ UNCHANGED <<now, replies>>

(* Lock is granted once no Do runs; a client younger than Timeout is kept; Unlock. *)
newHTTPClient(h) ==
    /\ req[h].pc = "wait"
    /\ Readers = {}
    /\ IF now - lastCreate < Timeout
         THEN UNCHANGED <<httpClient, lastCreate>>
         ELSE /\ httpClient' = httpClient + 1
              /\ lastCreate' = now
    /\ req' = [req EXCEPT ![h].pc = "done"]
    /\ UNCHANGED <<now, replies>>

-------------------------------------------------------------------------------
(* The response. *)

(* Which parser handlerFunc runs, by Content-Type or else by what was asked for. *)
ParserFor(type, ctype) ==
    CASE ctype = "json" -> "google"
      [] ctype \in {"message", "udpwire"} -> "ietf"
      [] OTHER -> type

(* An HTTP error without a body of the parser's own type, or a response that cannot be read *)
(* or packed, becomes SERVFAIL; any other keeps its Rcode and is cut to the querier's size.   *)
Answer(h, own, id) ==
    \E ok, usable, big, tc \in BOOLEAN, rcode \in Rcode :
        IF usable /\ (ok \/ own)
          THEN Write(h, id, rcode, tc \/ (big /\ ~req[h].tcp))
          ELSE Write(h, req[h].id, "servfail", FALSE)

(* The answer is unmarshalled into the reply that PrepareReply made. *)
parseResponseGoogle(h, ctype) == Answer(h, ctype = "json", req[h].id)

(* The answer is a message of its own and gets the Id of r. *)
parseResponseIETF(h, ctype) == Answer(h, ctype = "message", req[h].rid)

parseResponse(h) ==
    /\ req[h].pc = "read"
    /\ \E ctype \in {"json", "message", "udpwire", "other"} :
          IF ParserFor(req[h].type, ctype) = "google"
            THEN parseResponseGoogle(h, ctype)
            ELSE parseResponseIETF(h, ctype)
    /\ req' = [req EXCEPT ![h].pc = "done"]
    /\ UNCHANGED <<now, httpClient, lastCreate>>

Return(h) ==
    /\ req[h].pc \in {"done", "ignored"}
    /\ req' = [req EXCEPT ![h] = Idle]
    /\ replies' = [replies EXCEPT ![h] = <<>>]
    /\ UNCHANGED <<now, httpClient, lastCreate>>

Tick ==
    /\ now < MaxTime
    /\ now' = now + 1
    /\ UNCHANGED <<httpClient, lastCreate, req, replies>>

Next ==
    \/ Tick
    \/ \E h \in Handler :
          \/ handlerFunc(h) \/ RLock(h) \/ DoReturns(h) \/ DoFails(h)
          \/ Lock(h) \/ newHTTPClient(h) \/ parseResponse(h) \/ Return(h)

Spec == Init /\ [][Next]_vars

(***************************************************************************)
(* Do returns: dialing, the TLS handshake and the wait for the response's  *)
(* header have timeouts.  Reading the body has none, so nothing is assumed *)
(* of parseResponse.  RWMutex is fair as in Filtering.                     *)
(***************************************************************************)
Fairness ==
    \A h \in Handler :
        /\ WF_vars(DoReturns(h) \/ DoFails(h))
        /\ WF_vars(newHTTPClient(h))
        /\ SF_vars(RLock(h))
        /\ SF_vars(Lock(h))

FairSpec == Spec /\ Fairness
-------------------------------------------------------------------------------
RequestState ==
    [pc : {"idle", "rlock", "do", "lock", "wait", "read", "done", "ignored"},
     type : Protocol \cup {"none"}, id : Nat, rid : Nat, tcp : BOOLEAN,
     ecs : {"none", "zero", "query", "client"},
     client : Nat, born : Nat, failed : Nat \cup {Never}]

TypeOK ==
    /\ now \in Nat
    /\ httpClient \in Nat
    /\ lastCreate \in 0..now
    /\ req \in [Handler -> RequestState]
    /\ replies \in [Handler -> Seq([id : Nat, rcode : Rcode, tc : BOOLEAN])]

(***************************************************************************)
(* A handler never writes twice, whichever protocol and error path it      *)
(* took, and what it writes has the Id of its query (Changelog 1.3.8,      *)
(* "TransactionID is now preserved").  A query is left without a reply     *)
(* only if it was given up (the packet is a response, or its request could *)
(* not be built) or the network failed; NetworkErrorIsSilent is about the  *)
(* latter.                                                                 *)
(***************************************************************************)
AnsweredOnce ==
    \A h \in Handler :
        /\ Len(replies[h]) <= 1
        /\ \A i \in DOMAIN replies[h] : replies[h][i].id = req[h].id
        /\ req[h].pc = "done" /\ req[h].failed = Never => Len(replies[h]) = 1

(***************************************************************************)
(* Changelog 1.3.4, "doh-client now silently fails in case of network      *)
(* error to prevent caching of SERVFAIL": no reply is written for a query  *)
(* whose Do has failed.                                                    *)
(***************************************************************************)
NetworkErrorIsSilent == \A h \in Handler : req[h].failed # Never => replies[h] = <<>>

(***************************************************************************)
(* A request is sent through the client that is in use until Do returns:   *)
(* newHTTPClient never replaces it, or closes its idle connections, under  *)
(* a running Do.                                                           *)
(***************************************************************************)
ClientStaysDuringDo == \A h \in Handler : req[h].pc = "do" => req[h].client = httpClient

(***************************************************************************)
(* Changelog 1.1.4 and 1.3.5: a network failure does not stick.  Once a    *)
(* handler whose request failed has finished, the client it failed with is *)
(* gone if it was at least Timeout old, although other handlers failed and *)
(* called newHTTPClient at the same time.                                  *)
(***************************************************************************)
FailedClientIsReplaced ==
    \A h \in Handler :
        /\ req[h].pc = "done"
        /\ req[h].failed # Never
        /\ req[h].failed - req[h].born >= Timeout
        => httpClient > req[h].client

(***************************************************************************)
(* Changelog 1.3.5, "Limit the frequency of creating HTTP client on bad    *)
(* network condition": of any number of handlers that fail together, one   *)
(* creates a client and the others find it new.                            *)
(***************************************************************************)
CreationsAreSpaced == [][httpClient' # httpClient => lastCreate' - lastCreate >= Timeout]_vars

(***************************************************************************)
(* Changelog 1.1.4, "Fix a problem causing a single network failure        *)
(* blocking future requests": no handler is blocked for ever before it has *)
(* its response or its error, though another one may read a body that      *)
(* never ends.                                                             *)
(***************************************************************************)
NothingBlocksARequest ==
    \A h \in Handler :
        req[h].pc \in {"rlock", "do", "lock", "wait"} ~> req[h].pc \in {"read", "done"}
===============================================================================
