------------------------------ MODULE DohServer ------------------------------
(***************************************************************************)
(* The request handler of doh-server (doh-server/server.go, google.go,     *)
(* ietf.go): content negotiation, the two parsers and what they refuse,    *)
(* the hand-over to the tracker, the upstream query with its retries and   *)
(* its change from UDP to TCP, filtering, and the response with its        *)
(* caching headers.  One handler per HTTP request.  The filter lists do    *)
(* not change here, and filtering is the promise of AnswerFilter, which    *)
(* Filtering implements.                                                   *)
(***************************************************************************)
EXTENDS JsonDNS

CONSTANTS
    Handler,    \* goroutines that serve a request: slots, reused
    Request,    \* HTTP requests a handler may be given
    Upstream,   \* option upstream
    Reply,      \* what an upstream may answer: a message, with bytes after it or not
    FreshId,    \* what dns.Id may return
    Lists,      \* per kind of list the names in it
    Tries,      \* option tries
    TCPOnly,    \* option tcp_only
    Tracking    \* whether there is a requests log

(* readConfig makes Tries at least 1. *)
ASSUME ServerAssumption ==
    /\ Tries \in Nat \ {0}
    /\ TCPOnly \in BOOLEAN
    /\ Tracking \in BOOLEAN
    /\ \A r \in Request :
          /\ DOMAIN r = {"ctype", "ct", "name", "args", "ecs", "dns", "body", "packet", "accept",
                         "ads", "dnt", "agent", "forwarded", "realip", "remote"}
          /\ r.name \in STRING /\ r.args \in BOOLEAN /\ r.dnt \in BOOLEAN
          /\ r.packet.questions \in Seq(STRING)
          /\ r.accept \in Seq([type : STRING, space : BOOLEAN])
          /\ r.forwarded \in Seq(IP) /\ r.realip \in IP /\ r.remote \in IP

(***************************************************************************)
(* An HTTP request is a record: ctype is its Content-Type, ct, name, ecs   *)
(* and dns are its form values, args whether type and cd are valid, body   *)
(* and packet what it carries, accept the list in Accept (an entry with a  *)
(* space before it is none the handler knows), ads the bit CategoryAds of  *)
(* X-Filter-Categories, dnt whether DNT begins with 1, agent the           *)
(* User-Agent, and forwarded, realip, remote the addresses it came from,   *)
(* nil where one cannot be parsed.                                         *)
(***************************************************************************)
VARIABLES
    proc,      \* per handler: its request, the DNSRequest, and how far it is
    asked,     \* history, per handler: the exchanges with upstreams
    tracked,   \* history, per handler: the names handed to the tracker
    out        \* per handler: the responses it has written

vars == <<proc, asked, tracked, out>>

Filter == INSTANCE AnswerFilter
            WITH Domain <- {}, Answers <- {}, up <- TRUE, lists <- Lists, answer <- <<>>

Wire == {"dns-message", "dns-udpwireformat"}

-------------------------------------------------------------------------------
(* What handlerFunc makes of the headers. *)

contentType(r) ==
    IF r.ct # "" THEN r.ct
    ELSE IF r.ctype # "" THEN r.ctype
    ELSE IF r.name # "" THEN "dns-json"
    ELSE IF r.dns # "" THEN "dns-message"
    ELSE ""

Known(entry) == ~entry.space /\ entry.type \in Wire \cup {"json"}

(* The first type of Accept that is known, or else what was sent. *)
responseType(r) ==
    LET i    == SelectInSeq(r.accept, Known)
        type == IF i # 0 THEN r.accept[i].type ELSE contentType(r)
    IN  CASE type \in {"json", "dns-json"} -> "json"
          [] type \in Wire -> "dns-message"
          [] OTHER -> ""

(* The addresses a request names, in the order they are looked at. *)
Addresses(r) == r.forwarded \o <<r.realip, r.remote>>

(* The first of them that is a global one. *)
findClientIP(r) ==
    LET i == SelectInSeq(Addresses(r), IsGlobalIP)
    IN  IF i = 0 THEN NoIP ELSE Addresses(r)[i]

(* The option that names the network of an address. *)
ClientSubnet(ip) ==
    CASE ip = NoIP      -> <<>>
      [] To4(ip) # NoIP -> <<Subnet(1, To4(ip), 24, 0)>>
      [] OTHER          -> <<Subnet(2, ip, 56, 0)>>

-------------------------------------------------------------------------------
(* The parsers.  A DNSRequest is the query for upstream and what to do with the answer. *)

Refused(errcode) ==
    [errcode |-> errcode, questions |-> <<>>, query |-> TRUE, id |-> 0, rd |-> FALSE,
     subnets |-> <<>>, transactionID |-> 0, isTailored |-> FALSE, ads |-> FALSE, dnt |-> FALSE]

(* An address with a prefix length keeps it, whatever it is. *)
SubnetArgument(ecs) ==
    IF ecs.text = "masked"
      THEN <<[ClientSubnet(ecs.addr)[1] EXCEPT !.mask = ecs.mask]>>
      ELSE ClientSubnet(ecs.addr)

parseRequestGoogle(r, id) ==
    IF r.name \in {"", "bad"} \/ ~r.args \/ r.ecs.text = "bad"
      THEN Refused(400)
      ELSE [errcode |-> 0, questions |-> <<r.name>>, query |-> TRUE, id |-> id, rd |-> TRUE,
            subnets |-> IF r.ecs.text = "none" THEN ClientSubnet(findClientIP(r)) ELSE SubnetArgument(r.ecs),
            transactionID |-> 0, isTailored |-> r.ecs.text = "none", ads |-> r.ads, dnt |-> r.dnt]

(* The packet: the form value dns or, for a wire Content-Type, the body. *)
requestBinary(r) ==
    IF r.dns # "" THEN r.dns ELSE IF r.ctype \in Wire THEN r.body ELSE ""

patchDNSCryptProxyReqID(r) == r.agent = "dnscrypt-proxy" /\ r.packet.probe

(* Mutant: the answer for an own client subnet is not marked. *)
parseNeverTailored(r, id) ==
    [errcode |-> 0, questions |-> r.packet.questions, query |-> r.packet.query, id |-> id, rd |-> r.packet.rd,
     subnets |-> IF r.packet.subnets = <<>> THEN ClientSubnet(findClientIP(r)) ELSE r.packet.subnets,
     transactionID |-> r.packet.id, isTailored |-> FALSE, ads |-> r.ads, dnt |-> r.dnt]

parseRequestIETF(r, id) ==
    CASE requestBinary(r) # "packet" -> Refused(400)
      [] requestBinary(r) = "packet" /\ patchDNSCryptProxyReqID(r) -> Refused(444)
      [] requestBinary(r) = "packet" /\ ~patchDNSCryptProxyReqID(r) /\ ~r.packet.ok -> Refused(400)
      [] OTHER ->
           [errcode |-> 0, questions |-> r.packet.questions, query |-> r.packet.query, id |-> id, rd |-> r.packet.rd,
            subnets |-> IF r.packet.subnets = <<>> THEN ClientSubnet(findClientIP(r)) ELSE r.packet.subnets,
            transactionID |-> r.packet.id, isTailored |-> r.packet.subnets = <<>>, ads |-> r.ads, dnt |-> r.dnt]

ParseRequest(r, id) ==
    CASE contentType(r) = "dns-json" -> parseRequestGoogle(r, id)
      [] contentType(r) \in Wire     -> parseRequestIETF(r, id)
      [] OTHER                       -> Refused(415)

patchRootRD(req) == [req EXCEPT !.rd = @ \/ "." \in ToSet(req.questions)]

preLookup(req) ==
    IF req.errcode = 0 /\ (Len(req.questions) # 1 \/ ~req.query) THEN [req EXCEPT !.errcode = 400] ELSE req

(* What handlerFunc knows before it asks anyone; a request that is refused has no questions. *)
Parsed(r, id) == preLookup(patchRootRD(ParseRequest(r, id)))

-------------------------------------------------------------------------------
(* Responses. *)

NoId == -1

Response(status, type, id, rcode, msg, vary, cache, maxAge) ==
    [status |-> status, type |-> type, id |-> id, rcode |-> rcode,
     answer |-> msg.answer, ns |-> msg.ns, extra |-> msg.extra,
     vary |-> vary, cache |-> cache, maxAge |-> maxAge]

NoMessage == PrepareReply(0)

FormatError(errcode) == Response(errcode, "json", NoId, ServFail, NoMessage, {}, "none", 0)

(* The packet dnscrypt-proxy expects: REFUSED, with the Id of its probe. *)
ProbeResponse(r) ==
    Response(200, "dns-message", r.packet.id, 5, NoMessage, {"Accept", "User-Agent"}, "none", 0)

Panic == Response(0, "none", NoId, ServFail, NoMessage, {}, "none", 0)

CacheControl(json, isTailored) ==
    CASE ~json.least.have -> "none"
      [] json.least.have /\ isTailored -> "private"
      [] OTHER -> "public"

StatusCode(json) == IF json.status = ServFail THEN 503 ELSE 200

generateResponseGoogle(req, msg) ==
    LET json == Marshal(msg, 0)
    IN  Response(StatusCode(json), "json", NoId, json.status, msg, {"Accept"},
                 CacheControl(json, req.isTailored), json.least.ttl)

(* The client that rejects dns-message: it says udpwireformat, and not dns-message. *)
patchFirefoxContentType(r) ==
    LET types == {entry.type : entry \in ToSet(r.accept)}
    IN  r.agent = "Firefox" /\ "dns-udpwireformat" \in types /\ "dns-message" \notin types

(* Mutant: the Id is that of the upstream query. *)
generateKeepsId(r, req, msg) ==
    LET json == Marshal(msg, 0)
    IN  Response(StatusCode(json), "dns-message", msg.id, json.status, msg, {"Accept"},
                 CacheControl(json, req.isTailored), json.least.ttl)

generateResponseIETF(r, req, msg) ==
    LET json == Marshal(msg, 0)
    IN  CASE ~Packs(msg) -> FormatError(500)
          [] Packs(msg) /\ patchFirefoxContentType(r) ->
               Response(StatusCode(json), "dns-udpwireformat", req.transactionID, json.status, msg,
                        {"Accept", "User-Agent"}, CacheControl(json, TRUE), json.least.ttl)
          [] OTHER ->
               Response(StatusCode(json), "dns-message", req.transactionID, json.status, msg,
                        {"Accept"}, CacheControl(json, req.isTailored), json.least.ttl)

GenerateResponse(r, req, msg) ==
    CASE responseType(r) = "json"        -> generateResponseGoogle(req, msg)
      [] responseType(r) = "dns-message" -> generateResponseIETF(r, req, msg)
      [] OTHER                           -> Panic

(* Mutant: the additional section is passed on as it is. *)
postLookupAnswerOnly(msg, ads) ==
    LET Allowed(rr) == ~Filter!Restricted(rr.name, ads)
    IN  [msg EXCEPT !.answer = SelectSeq(@, Allowed), !.ns = <<>>]

(* The records of the lists go, and the authority section. *)
postLookup(msg, ads) ==
    LET Allowed(rr) == ~Filter!Restricted(rr.name, ads)
    IN  [msg EXCEPT !.answer = SelectSeq(@, Allowed), !.extra = SelectSeq(@, Allowed), !.ns = <<>>]

-------------------------------------------------------------------------------
(* A handler. *)

NoRequest == CHOOSE r \in Request : TRUE

Idle ==
    [pc |-> "idle", r |-> NoRequest, req |-> Refused(0), tries |-> 0, upstream |-> "none",
     response |-> NoMessage]

Init ==
    /\ proc = [h \in Handler |-> Idle]
    /\ asked = [h \in Handler |-> <<>>]
    /\ tracked = [h \in Handler |-> <<>>]
    /\ out = [h \in Handler |-> <<>>]

Write(h, response) == out' = [out EXCEPT ![h] = Append(@, response)]

(* The request is answered at once. *)
Refuse(h, r, req, response) ==
    /\ proc' = [proc EXCEPT ![h] = [Idle EXCEPT !.pc = "done", !.r = r, !.req = req]]
    /\ Write(h, response)

(* Mutant: DNT is not looked at. *)
AcceptTracksAll(h, r, req) ==
    /\ proc' = [proc EXCEPT ![h] = [Idle EXCEPT
           !.pc = IF Tracking THEN "save" ELSE "query", !.r = r, !.req = req]]
    /\ UNCHANGED out

(* It goes on to the tracker, if there is one and the client lets it, or to the query. *)
Accept(h, r, req) ==
    /\ proc' = [proc EXCEPT ![h] = [Idle EXCEPT
           !.pc = IF Tracking /\ ~req.dnt THEN "save" ELSE "query", !.r = r, !.req = req]]
    /\ UNCHANGED out

handlerFunc(h) ==
    /\ proc[h].pc = "idle"
    /\ \E r \in Request, id \in FreshId :
          LET req == Parsed(r, id)
          IN  \/ req.errcode = 0 /\ Accept(h, r, req)
              \/ req.errcode = 444 /\ Refuse(h, r, req, ProbeResponse(r))
              \/ req.errcode \notin {0, 444} /\ Refuse(h, r, req, FormatError(req.errcode))
    /\ UNCHANGED <<asked, tracked>>

SaveDomain(h) ==
    /\ proc[h].pc = "save"
    /\ proc' = [proc EXCEPT ![h].pc = "query"]
    /\ tracked' = [tracked EXCEPT ![h] = Append(@, Head(proc[h].req.questions))]
    /\ UNCHANGED <<asked, out>>

-------------------------------------------------------------------------------
(* doDNSQuery *)

(* Exchange packs the query first. *)
QueryPacks(req) == \A i \in DOMAIN req.subnets : SubnetPacks(req.subnets[i])

(* One Exchange; a query that cannot be packed is not sent. *)
Exchange(h, net, u, result) ==
    asked' = IF QueryPacks(proc[h].req)
               THEN [asked EXCEPT ![h] = Append(@, [net |-> net, upstream |-> u, result |-> result])]
               ELSE asked

(* Mutant: <= for <, one try more. *)
FailsOnceMore(h, net, u, result) ==
    /\ Exchange(h, net, u, result)
    /\ IF proc[h].tries + 1 <= Tries
         THEN /\ proc' = [proc EXCEPT ![h].pc = "query", ![h].tries = @ + 1]
              /\ UNCHANGED out
         ELSE /\ proc' = [proc EXCEPT ![h].pc = "done"]
              /\ Write(h, FormatError(503))

(* A timeout, a lost connection, a wrong Id, a packet that cannot be unpacked; the next try, *)
(* or the error of the last.                                                                 *)
Fails(h, net, u, result) ==
    /\ Exchange(h, net, u, result)
    /\ IF proc[h].tries + 1 < Tries
         THEN /\ proc' = [proc EXCEPT ![h].pc = "query", ![h].tries = @ + 1]
              /\ UNCHANGED out
         ELSE /\ proc' = [proc EXCEPT ![h].pc = "done"]
              /\ Write(h, FormatError(503))

Succeeds(h, net, u, m) ==
    /\ Exchange(h, net, u, "ok")
    /\ proc' = [proc EXCEPT ![h].pc = "lookup", ![h].response = [m.msg EXCEPT !.id = proc[h].req.id]]
    /\ UNCHANGED out

(* Mutant: a truncated answer is a failure like any other. *)
UDPGivesUp(h) ==
    /\ proc[h].pc = "query" /\ ~TCPOnly
    /\ \E u \in Upstream :
          \/ Fails(h, "udp", u, "error")
          \/ /\ QueryPacks(proc[h].req)
             /\ \E m \in Reply :
                   \/ ~ErrTruncated(m.msg, m.trailing) /\ Succeeds(h, "udp", u, m)
                   \/ ErrTruncated(m.msg, m.trailing) /\ Fails(h, "udp", u, "truncated")
    /\ UNCHANGED tracked

(* A try over UDP, with an upstream chosen at random. *)
UDPExchange(h) ==
    /\ proc[h].pc = "query" /\ ~TCPOnly
    /\ \E u \in Upstream :
          \/ Fails(h, "udp", u, "error")
          \/ /\ QueryPacks(proc[h].req)
             /\ \E m \in Reply :
                   \/ ~ErrTruncated(m.msg, m.trailing) /\ Succeeds(h, "udp", u, m)
                   \/ /\ ErrTruncated(m.msg, m.trailing)
                      /\ Exchange(h, "udp", u, "truncated")
                      /\ proc' = [proc EXCEPT ![h].pc = "tcp", ![h].upstream = u]
                      /\ UNCHANGED out
    /\ UNCHANGED tracked

(* Over TCP: the upstream whose answer was truncated, or any if UDP is not to be used. *)
TCPExchange(h) ==
    /\ proc[h].pc = "tcp" \/ (proc[h].pc = "query" /\ TCPOnly)
    /\ \E u \in IF TCPOnly THEN Upstream ELSE {proc[h].upstream} :
          \/ Fails(h, "tcp", u, "error")
          \/ /\ QueryPacks(proc[h].req)
             /\ \E m \in Reply :
                   \/ ~ErrTruncated(m.msg, m.trailing) /\ Succeeds(h, "tcp", u, m)
                   \/ ErrTruncated(m.msg, m.trailing) /\ Fails(h, "tcp", u, "truncated")
    /\ UNCHANGED tracked

doDNSQuery(h) == UDPExchange(h) \/ TCPExchange(h)

(* postLookup and the response. *)
Respond(h) ==
    LET p == proc[h]
    IN  /\ p.pc = "lookup"
        /\ Write(h, GenerateResponse(p.r, p.req, postLookup(p.response, p.req.ads)))
        /\ proc' = [proc EXCEPT ![h].pc = "done"]
        /\ UNCHANGED <<asked, tracked>>

Return(h) ==
    /\ proc[h].pc = "done"
    /\ proc' = [proc EXCEPT ![h] = Idle]
    /\ asked' = [asked EXCEPT ![h] = <<>>]
    /\ tracked' = [tracked EXCEPT ![h] = <<>>]
    /\ out' = [out EXCEPT ![h] = <<>>]

Next ==
    \E h \in Handler :
        \/ handlerFunc(h) \/ SaveDomain(h) \/ doDNSQuery(h)
        \/ Respond(h) \/ Return(h)

Spec == Init /\ [][Next]_vars
-------------------------------------------------------------------------------
TypeOK ==
    \A h \in Handler :
        /\ proc[h].pc \in {"idle", "save", "query", "tcp", "lookup", "done"}
        /\ proc[h].pc # "idle" => proc[h].r \in Request
        /\ proc[h].tries \in 0..Tries - 1
        /\ Len(asked[h]) <= 2 * Tries
        /\ tracked[h] \in Seq(STRING)

Done(h) == proc[h].pc = "done"

(* The handler's response to a request it has answered. *)
Given(h) == out[h][1]

(* The answer of the last upstream asked is what is passed on. *)
Resolved(h) == asked[h] # <<>> /\ Last(asked[h]).result = "ok"

(***************************************************************************)
(* Every request gets one response, of a type it can use: handlerFunc      *)
(* never panics for want of a response type, an answer is of the first     *)
(* known type that Accept lists, and a wire answer to a packet carries the *)
(* packet's Id (Changelog 1.3.8, "TransactionID is now preserved"),        *)
(* whatever Id the upstream query had.                                     *)
(***************************************************************************)
ResponseFitsRequest ==
    \A h \in Handler :
        /\ Len(out[h]) = IF Done(h) THEN 1 ELSE 0
        /\ Done(h) /\ Given(h).type # "json"
             => /\ Given(h).type \in Wire
                /\ Given(h).id = IF contentType(proc[h].r) \in Wire THEN proc[h].r.packet.id ELSE 0
        /\ Done(h) /\ Resolved(h) /\ Given(h).status # 500
             => \A i \in DOMAIN proc[h].r.accept :
                   /\ Known(proc[h].r.accept[i])
                   /\ \A j \in 1..i - 1 : ~Known(proc[h].r.accept[j])
                   => (proc[h].r.accept[i].type = "json") = (Given(h).type = "json")

(***************************************************************************)
(* What is refused leaves no trace: only a request of a known type with a  *)
(* packet of one question, or with a name and arguments that can be read,  *)
(* is sent upstream or logged, and it is logged once, before the query,    *)
(* unless it says DNT: 1 (Readme, "the server won't track anyting").       *)
(***************************************************************************)
RefusedLeavesNoTrace ==
    \A h \in Handler :
        LET r == proc[h].r
        IN  /\ asked[h] # <<>> \/ tracked[h] # <<>>
                 => \/ contentType(r) = "dns-json" /\ r.name \notin {"", "bad"} /\ r.args /\ r.ecs.text # "bad"
                    \/ contentType(r) \in Wire /\ r.packet.ok /\ r.packet.query /\ Len(r.packet.questions) = 1
            /\ tracked[h] # <<>> => Tracking /\ ~r.dnt
            /\ asked[h] # <<>> /\ Tracking /\ ~r.dnt => tracked[h] = proc[h].req.questions

(***************************************************************************)
(* doh-server.conf, "Number of tries if upstream DNS fails": an error is   *)
(* returned only after all tries have failed and none is made after a      *)
(* success; a try fails for good only when the upstream that truncated its *)
(* UDP answer has been asked again over TCP.                               *)
(***************************************************************************)
EveryTryIsUsed ==
    \A h \in Handler :
        LET a == asked[h]
            failed == {i \in DOMAIN a : a[i].result = "error" \/ (a[i].net = "tcp" /\ a[i].result = "truncated")}
        IN  /\ \A i \in DOMAIN a :
                  /\ a[i].result = "ok" => i = Len(a)
                  /\ a[i].net = "udp" /\ a[i].result = "truncated"
                       => IF i = Len(a) THEN proc[h].pc = "tcp"
                          ELSE a[i + 1].net = "tcp" /\ a[i + 1].upstream = a[i].upstream
                  /\ a[i].net = "tcp" /\ ~TCPOnly
                       => i > 1 /\ a[i - 1].net = "udp" /\ a[i - 1].result = "truncated"
            /\ Done(h) /\ a # <<>> => (Resolved(h) \/ Cardinality(failed) = Tries)
            /\ Cardinality(failed) <= Tries

(***************************************************************************)
(* A response that any cache may keep is the same for everyone: whoever    *)
(* sends the request, from whatever address, asks upstream for the same    *)
(* client subnet.                                                          *)
(***************************************************************************)
PublicIsForEveryone ==
    \A h \in Handler :
        Done(h) /\ Given(h).cache = "public" =>
            \A r \in Request :
                LET same == [proc[h].r EXCEPT !.forwarded = r.forwarded, !.realip = r.realip, !.remote = r.remote]
                IN  ParseRequest(same, 0).subnets = proc[h].req.subnets

(***************************************************************************)
(* A client that names no subnet is named upstream by the first of its     *)
(* addresses, in X-Forwarded-For, X-Real-IP and the connection, that lies  *)
(* in no block of RFC 6890 that globalip.go lists, ends included, in 4 or  *)
(* 16 bytes; by none if all do.  So no private address leaves the server   *)
(* and no public one is passed over.                                       *)
(***************************************************************************)
ClientIsNamedByGlobalAddress ==
    \A h \in Handler :
        LET r == proc[h].r
            first == SelectInSeq(Addresses(r), Public)
        IN  proc[h].pc # "idle" /\ proc[h].req.errcode = 0 /\ proc[h].req.isTailored =>
                [i \in DOMAIN proc[h].req.subnets |-> proc[h].req.subnets[i].addr]
                    = IF first = 0 THEN <<>> ELSE <<Short(Addresses(r)[first])>>

(***************************************************************************)
(* The answer is the upstream's without the records that the lists deny,   *)
(* and without its authority section; caches may keep it as long as the    *)
(* first of the records that are left, not of those that were dropped.     *)
(***************************************************************************)
AnswerIsFiltered ==
    \A h \in Handler :
        Done(h) /\ Resolved(h) /\ Given(h).status # 500 =>
            LET left == ToSet(Given(h).answer) \cup ToSet(SelectSeq(Given(h).extra, NotOPT))
            IN  /\ Given(h).ns = <<>>
                /\ \A s \in {"answer", "extra"} : \A rr \in ToSet(proc[h].response[s]) :
                      rr \notin ToSet(Given(h)[s]) <=>
                          \/ proc[h].r.ads /\ rr.name \in Lists["adslist"]
                          \/ rr.name \in Lists["blacklist"] \ Lists["whitelist"]
                /\ Given(h).cache = "none" <=> left = {}
                /\ left # {} => /\ \A rr \in left : Given(h).maxAge <= rr.ttl
                                /\ \E rr \in left : Given(h).maxAge = rr.ttl
===============================================================================
