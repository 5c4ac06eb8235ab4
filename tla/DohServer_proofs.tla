--------------------------- MODULE DohServer_proofs ---------------------------
(***************************************************************************)
(* Proofs for the request handler, for any requests, upstreams and their   *)
(* answers, lists and options.                                             *)
(***************************************************************************)
EXTENDS DohServer, GlobalIP_proofs, SequenceTheorems, TLAPS

Fields == {"pc", "r", "req", "tries", "upstream", "response"}

(* The variables are functions on the handlers, and proc has its fields. *)
Shape ==
    /\ DOMAIN proc = Handler /\ DOMAIN asked = Handler
    /\ DOMAIN tracked = Handler /\ DOMAIN out = Handler
    /\ \A h \in Handler : DOMAIN proc[h] = Fields

Busy == {"save", "query", "tcp", "lookup"}

(* What a handler has done by the time it is where it is. *)
Reached(p, a, t, o) ==
    /\ p.pc \in Busy \cup {"idle", "done"}
    /\ p.pc = "idle" => a = <<>> /\ t = <<>>
    /\ p.pc # "done" => o = <<>>
    /\ p.pc # "idle" => p.r \in Request /\ \E id \in FreshId : p.req = Parsed(p.r, id)
    /\ p.pc \in Busy => p.req.errcode = 0
    /\ p.pc = "save" => Tracking /\ ~p.req.dnt /\ a = <<>> /\ t = <<>>
    /\ p.pc \in {"query", "tcp", "lookup"} \/ (p.pc = "done" /\ p.req.errcode = 0)
          => t = IF Tracking /\ ~p.req.dnt THEN <<Head(p.req.questions)>> ELSE <<>>
    /\ p.pc = "done" =>
          /\ Len(o) = 1
          /\ p.req.errcode # 0 => a = <<>> /\ t = <<>>
          /\ o[1].cache = "public" => p.req.errcode = 0 /\ ~p.req.isTailored

HandlerInv(h) == Reached(proc[h], asked[h], tracked[h], out[h])

IInv == Shape /\ \A h \in Handler : HandlerInv(h)

(* Appending to the empty sequence. *)
LEMMA AppendToEmpty ==
    ASSUME NEW x
    PROVE  Append(<<>>, x) = <<x>> /\ Len(<<x>>) = 1 /\ <<x>>[1] = x
  OBVIOUS

ReqFields == {"errcode", "questions", "query", "id", "rd", "subnets", "transactionID",
              "isTailored", "ads", "dnt"}

(* What the parsers return. *)
LEMMA ParserFields ==
    \A r, id : DOMAIN ParseRequest(r, id) = ReqFields
<1>1. \A r, id : DOMAIN parseRequestGoogle(r, id) = ReqFields
  BY DEF parseRequestGoogle, Refused, ReqFields
<1>2. \A r, id : DOMAIN parseRequestIETF(r, id) = ReqFields
  BY DEF parseRequestIETF, Refused, ReqFields
<1>3. DOMAIN Refused(415) = ReqFields
  BY DEF Refused, ReqFields
<1> QED
  BY <1>1, <1>2, <1>3 DEF ParseRequest

(* patchRootRD and preLookup change rd, and the errcode of what they refuse. *)
LEMMA Patched ==
    ASSUME NEW r, NEW id, Parsed(r, id).errcode = 0
    PROVE  LET req == ParseRequest(r, id)
           IN  /\ req.errcode = 0 /\ Len(req.questions) = 1 /\ req.query
               /\ Parsed(r, id).questions = req.questions
               /\ Parsed(r, id).dnt = req.dnt
               /\ Parsed(r, id).subnets = req.subnets
               /\ Parsed(r, id).isTailored = req.isTailored
               /\ Parsed(r, id).transactionID = req.transactionID
<1> DEFINE req == ParseRequest(r, id)
           patched == patchRootRD(req)
<1>1. DOMAIN req = ReqFields
  BY ParserFields
<1>2. Parsed(r, id) = preLookup(patched)
  BY DEF Parsed
<1> HIDE DEF req
<1>3. /\ DOMAIN patched = ReqFields
      /\ patched.errcode = req.errcode /\ patched.questions = req.questions /\ patched.dnt = req.dnt
      /\ patched.subnets = req.subnets /\ patched.isTailored = req.isTailored
      /\ patched.query = req.query /\ patched.transactionID = req.transactionID
  BY <1>1 DEF patchRootRD, ReqFields
<1> HIDE DEF patched
<1>4. ~(patched.errcode = 0 /\ (Len(patched.questions) # 1 \/ ~patched.query))
  <2>1. CASE patched.errcode = 0 /\ (Len(patched.questions) # 1 \/ ~patched.query)
    BY <1>2, <1>3, <2>1 DEF preLookup, ReqFields
  <2> QED
    BY <2>1
<1>5. Parsed(r, id) = patched
  BY <1>2, <1>4 DEF preLookup
<1> QED
  BY <1>3, <1>4, <1>5 DEF req

(* The three parsers of handlerFunc. *)
LEMMA Parsers ==
    ASSUME NEW r, NEW id
    PROVE  /\ contentType(r) = "dns-json" => ParseRequest(r, id) = parseRequestGoogle(r, id)
           /\ contentType(r) \in Wire => ParseRequest(r, id) = parseRequestIETF(r, id)
           /\ contentType(r) # "dns-json" /\ contentType(r) \notin Wire => ParseRequest(r, id) = Refused(415)
  BY DEF ParseRequest, Wire

(* What parseRequestGoogle accepts. *)
LEMMA GoogleAccepts ==
    ASSUME NEW r, NEW id, parseRequestGoogle(r, id).errcode = 0
    PROVE  /\ r.name \notin {"", "bad"} /\ r.args /\ r.ecs.text # "bad"
           /\ parseRequestGoogle(r, id).questions = <<r.name>>
           /\ parseRequestGoogle(r, id).dnt = r.dnt
           /\ parseRequestGoogle(r, id).isTailored <=> r.ecs.text = "none"
           /\ r.ecs.text # "none" => parseRequestGoogle(r, id).subnets = SubnetArgument(r.ecs)
           /\ parseRequestGoogle(r, id).transactionID = 0
<1>1. CASE r.name \in {"", "bad"} \/ ~r.args \/ r.ecs.text = "bad"
  <2>1. parseRequestGoogle(r, id) = Refused(400)
    BY <1>1 DEF parseRequestGoogle
  <2>2. Refused(400).errcode = 400
    BY DEF Refused
  <2>3. FALSE
    BY <2>1, <2>2
  <2> QED
    BY <2>3
<1>2. CASE ~(r.name \in {"", "bad"} \/ ~r.args \/ r.ecs.text = "bad")
  <2>1. parseRequestGoogle(r, id).questions = <<r.name>>
    BY <1>2 DEF parseRequestGoogle
  <2>2. parseRequestGoogle(r, id).dnt = r.dnt
    BY <1>2 DEF parseRequestGoogle
  <2>3. parseRequestGoogle(r, id).isTailored <=> r.ecs.text = "none"
    BY <1>2 DEF parseRequestGoogle
  <2>4. r.ecs.text # "none" => parseRequestGoogle(r, id).subnets = SubnetArgument(r.ecs)
    BY <1>2 DEF parseRequestGoogle
  <2>5. parseRequestGoogle(r, id).transactionID = 0
    BY <1>2 DEF parseRequestGoogle
  <2> QED
    BY <1>2, <2>1, <2>2, <2>3, <2>4, <2>5
<1> QED
  BY <1>1, <1>2

(* What parseRequestIETF accepts. *)
LEMMA IETFAccepts ==
    ASSUME NEW r, NEW id, parseRequestIETF(r, id).errcode = 0
    PROVE  /\ requestBinary(r) = "packet" /\ ~patchDNSCryptProxyReqID(r) /\ r.packet.ok
           /\ parseRequestIETF(r, id).questions = r.packet.questions
           /\ parseRequestIETF(r, id).query = r.packet.query
           /\ parseRequestIETF(r, id).dnt = r.dnt
           /\ parseRequestIETF(r, id).isTailored <=> r.packet.subnets = <<>>
           /\ r.packet.subnets # <<>> => parseRequestIETF(r, id).subnets = r.packet.subnets
<1>1. Refused(400).errcode = 400 /\ Refused(444).errcode = 444
  BY DEF Refused
<1>2. requestBinary(r) = "packet" /\ ~patchDNSCryptProxyReqID(r) /\ r.packet.ok
  BY <1>1 DEF parseRequestIETF
<1>3. /\ parseRequestIETF(r, id).questions = r.packet.questions
      /\ parseRequestIETF(r, id).query = r.packet.query
      /\ parseRequestIETF(r, id).dnt = r.dnt
      /\ r.packet.subnets # <<>> => parseRequestIETF(r, id).subnets = r.packet.subnets
  BY <1>2 DEF parseRequestIETF
<1>4. parseRequestIETF(r, id).isTailored <=> r.packet.subnets = <<>>
  BY <1>2 DEF parseRequestIETF
<1> QED
  BY <1>2, <1>3, <1>4

(* A request that passes the parsers and preLookup. *)
LEMMA AcceptedRequest ==
    ASSUME NEW r \in Request, NEW id, Parsed(r, id).errcode = 0
    PROVE  /\ \/ contentType(r) = "dns-json" /\ r.name \notin {"", "bad"} /\ r.args /\ r.ecs.text # "bad"
              \/ contentType(r) \in Wire /\ r.packet.ok /\ r.packet.query /\ Len(r.packet.questions) = 1
           /\ Parsed(r, id).dnt = r.dnt
           /\ Parsed(r, id).questions = <<Head(Parsed(r, id).questions)>>
<1> DEFINE req == ParseRequest(r, id)
<1>1. /\ req.errcode = 0 /\ Len(req.questions) = 1 /\ req.query
      /\ Parsed(r, id).questions = req.questions /\ Parsed(r, id).dnt = req.dnt
  BY Patched
<1>2. CASE contentType(r) = "dns-json"
  <2>1. req = parseRequestGoogle(r, id)
    BY <1>2, Parsers
  <2> HIDE DEF req
  <2>2. /\ r.name \notin {"", "bad"} /\ r.args /\ r.ecs.text # "bad"
        /\ req.questions = <<r.name>> /\ req.dnt = r.dnt
    BY <1>1, <2>1, GoogleAccepts, Zenon
  <2>3. Head(<<r.name>>) = r.name
    OBVIOUS
  <2> QED
    BY <1>1, <1>2, <2>2, <2>3
<1>3. CASE contentType(r) \in Wire
  <2>1. req = parseRequestIETF(r, id)
    BY <1>3, Parsers
  <2> HIDE DEF req
  <2>2. /\ r.packet.ok /\ req.questions = r.packet.questions /\ req.query = r.packet.query
        /\ req.dnt = r.dnt
    BY <1>1, <2>1, IETFAccepts, Zenon
  <2>3. r.packet.questions \in Seq(STRING)
    BY ServerAssumption
  <2>4. r.packet.questions = <<Head(r.packet.questions)>>
    BY <1>1, <2>2, <2>3
  <2> QED
    BY <1>1, <1>3, <2>2, <2>4
<1>4. CASE contentType(r) # "dns-json" /\ contentType(r) \notin Wire
  <2>1. req = Refused(415) /\ Refused(415).errcode = 415
    BY <1>4, Parsers DEF Refused
  <2>2. FALSE
    <3> HIDE DEF req
    <3> QED
      BY <1>1, <2>1
  <2> QED
    BY <2>2
<1> QED
  BY <1>2, <1>3, <1>4

(* The same request from other addresses. *)
Moved(r, f, i, a) == [r EXCEPT !.forwarded = f, !.realip = i, !.remote = a]

(* The subnet of an answer that is not tailored does not depend on the addresses. *)
LEMMA SameSubnet ==
    ASSUME NEW r \in Request, NEW id, Parsed(r, id).errcode = 0, ~Parsed(r, id).isTailored,
           NEW f, NEW i, NEW a
    PROVE  ParseRequest(Moved(r, f, i, a), 0).subnets = Parsed(r, id).subnets
<1> DEFINE same == Moved(r, f, i, a)
           req == ParseRequest(r, id)
<1>1. /\ same.ctype = r.ctype /\ same.ct = r.ct /\ same.name = r.name /\ same.args = r.args
      /\ same.ecs = r.ecs /\ same.dns = r.dns /\ same.body = r.body /\ same.packet = r.packet
      /\ same.agent = r.agent
  BY ServerAssumption DEF Moved
<1> SUFFICES ParseRequest(same, 0).subnets = Parsed(r, id).subnets
  OBVIOUS
<1> HIDE DEF same
<1>2. contentType(same) = contentType(r)
  BY <1>1 DEF contentType
<1>3. req.errcode = 0 /\ ~req.isTailored /\ Parsed(r, id).subnets = req.subnets
  BY Patched
<1>4. CASE contentType(r) = "dns-json"
  <2>1. req = parseRequestGoogle(r, id) /\ ParseRequest(same, 0) = parseRequestGoogle(same, 0)
    BY <1>2, <1>4, Parsers
  <2> HIDE DEF req
  <2>2. /\ r.name \notin {"", "bad"} /\ r.args /\ r.ecs.text # "bad" /\ r.ecs.text # "none"
        /\ req.subnets = SubnetArgument(r.ecs)
    BY <1>3, <2>1, GoogleAccepts, Zenon
  <2>3. ParseRequest(same, 0).subnets = SubnetArgument(same.ecs)
    <3>1. ~(same.name \in {"", "bad"} \/ ~same.args \/ same.ecs.text = "bad") /\ same.ecs.text # "none"
      BY <1>1, <2>2
    <3>2. parseRequestGoogle(same, 0).subnets = SubnetArgument(same.ecs)
      BY <3>1 DEF parseRequestGoogle
    <3> QED
      BY <2>1, <3>2
  <2> QED
    BY <1>1, <1>3, <2>2, <2>3
<1>5. CASE contentType(r) \in Wire
  <2>1. req = parseRequestIETF(r, id) /\ ParseRequest(same, 0) = parseRequestIETF(same, 0)
    BY <1>2, <1>5, Parsers
  <2>2. /\ requestBinary(same) = requestBinary(r)
        /\ patchDNSCryptProxyReqID(same) <=> patchDNSCryptProxyReqID(r)
    BY <1>1 DEF requestBinary, patchDNSCryptProxyReqID
  <2> HIDE DEF req
  <2>3. /\ requestBinary(r) = "packet" /\ ~patchDNSCryptProxyReqID(r) /\ r.packet.ok
        /\ r.packet.subnets # <<>> /\ req.subnets = r.packet.subnets
    BY <1>3, <2>1, IETFAccepts, Zenon
  <2>4. ParseRequest(same, 0).subnets = same.packet.subnets
    BY <1>1, <2>1, <2>2, <2>3 DEF parseRequestIETF
  <2> QED
    BY <1>1, <1>3, <2>3, <2>4
<1>6. CASE contentType(r) # "dns-json" /\ contentType(r) \notin Wire
  BY <1>3, <1>6, Parsers DEF Refused
<1> QED
  BY <1>4, <1>5, <1>6

(* A tailored answer is never public, and no error is. *)
LEMMA PublicResponse ==
    /\ \A errcode : FormatError(errcode).cache = "none"
    /\ \A r : ProbeResponse(r).cache = "none"
    /\ \A r, req, msg : GenerateResponse(r, req, msg).cache = "public" => ~req.isTailored
<1>1. /\ \A errcode : FormatError(errcode).cache = "none"
      /\ \A r : ProbeResponse(r).cache = "none"
      /\ Panic.cache = "none"
  BY DEF FormatError, ProbeResponse, Panic, Response
<1>2. \A json, tailored : CacheControl(json, tailored) = "public" => ~tailored
  BY DEF CacheControl
<1>3. ASSUME NEW r, NEW req, NEW msg, GenerateResponse(r, req, msg).cache = "public"
      PROVE  ~req.isTailored
  <2> DEFINE json == Marshal(msg, 0)
  <2>1. generateResponseGoogle(req, msg).cache = CacheControl(json, req.isTailored)
    BY DEF generateResponseGoogle, Response
  <2>2. \/ generateResponseIETF(r, req, msg).cache = "none"
        \/ generateResponseIETF(r, req, msg).cache = CacheControl(json, TRUE)
        \/ generateResponseIETF(r, req, msg).cache = CacheControl(json, req.isTailored)
    <3>1. CASE ~Packs(msg)
      <4>1. generateResponseIETF(r, req, msg) = FormatError(500)
        BY <3>1 DEF generateResponseIETF
      <4>2. FormatError(500).cache = "none"
        BY <1>1
      <4> QED
        BY <4>1, <4>2, Zenon
    <3>2. CASE Packs(msg) /\ patchFirefoxContentType(r)
      BY <3>2 DEF generateResponseIETF, Response
    <3>3. CASE Packs(msg) /\ ~patchFirefoxContentType(r)
      BY <3>3 DEF generateResponseIETF, Response
    <3> QED
      BY <3>1, <3>2, <3>3
  <2> HIDE DEF json
  <2>3. \/ GenerateResponse(r, req, msg) = generateResponseGoogle(req, msg)
        \/ GenerateResponse(r, req, msg) = generateResponseIETF(r, req, msg)
        \/ GenerateResponse(r, req, msg) = Panic
    BY DEF GenerateResponse
  <2> QED
    BY <1>1, <1>2, <1>3, <2>1, <2>2, <2>3
<1> QED
  BY <1>1, <1>3

(* A step of h leaves the other handlers alone. *)
Keeps(h) ==
    \A g \in Handler \ {h} :
        proc'[g] = proc[g] /\ asked'[g] = asked[g] /\ tracked'[g] = tracked[g] /\ out'[g] = out[g]

(* What a step of h does to the invariant. *)
HandlerStep(h) == Shape' /\ Keeps(h) /\ HandlerInv(h)'

(* It is enough to look at the handler that takes the step. *)
LEMMA OneHandler ==
    ASSUME IInv, NEW h \in Handler, HandlerStep(h)
    PROVE  IInv'
<1>1. ASSUME NEW g \in Handler, g # h
      PROVE  HandlerInv(g)'
  <2>1. HandlerInv(g) /\ proc'[g] = proc[g] /\ asked'[g] = asked[g] /\ tracked'[g] = tracked[g] /\ out'[g] = out[g]
    BY <1>1 DEF IInv, Keeps, HandlerStep
  <2> QED
    BY <2>1, Zenon DEF HandlerInv
<1> QED
  BY <1>1 DEF IInv, HandlerStep

(* handlerFunc up to its first wait. *)
LEMMA HandlerFuncInv ==
    ASSUME Shape, NEW h \in Handler, HandlerInv(h), handlerFunc(h)
    PROVE  HandlerStep(h)
<1>1. PICK r \in Request, id \in FreshId :
          LET req == Parsed(r, id)
          IN  \/ req.errcode = 0 /\ Accept(h, r, req)
              \/ req.errcode = 444 /\ Refuse(h, r, req, ProbeResponse(r))
              \/ req.errcode \notin {0, 444} /\ Refuse(h, r, req, FormatError(req.errcode))
  BY DEF handlerFunc
<1> DEFINE req == Parsed(r, id)
<1>0. asked' = asked /\ tracked' = tracked /\ proc[h].pc = "idle"
  BY DEF handlerFunc
<1>2. /\ asked' = asked /\ tracked' = tracked
      /\ proc[h].pc = "idle" /\ asked[h] = <<>> /\ tracked[h] = <<>> /\ out[h] = <<>>
      /\ Shape
  BY <1>0 DEF HandlerInv, Reached
<1> HIDE DEF req
<1>3. CASE req.errcode = 0 /\ Accept(h, r, req)
  <2> DEFINE pc == IF Tracking /\ ~req.dnt THEN "save" ELSE "query"
  <2>1. /\ Shape' /\ Keeps(h) /\ proc'[h].pc = pc /\ proc'[h].r = r /\ proc'[h].req = req
        /\ out' = out
    BY <1>2, <1>3 DEF Accept, Idle, Shape, Keeps, Fields
  <2>2. HandlerInv(h)'
    BY <1>2, <1>3, <2>1 DEF HandlerInv, Reached, Busy, req
  <2> QED
    BY <2>1, <2>2 DEF HandlerStep
<1>4. ASSUME NEW response, response.cache = "none", req.errcode # 0, Refuse(h, r, req, response)
      PROVE  HandlerStep(h)
  <2>1. /\ Shape' /\ Keeps(h) /\ proc'[h].pc = "done" /\ proc'[h].r = r /\ proc'[h].req = req
        /\ out'[h] = Append(<<>>, response)
    BY <1>2, <1>4 DEF Refuse, Write, Idle, Shape, Keeps, Fields
  <2>2. Len(out'[h]) = 1 /\ out'[h][1] = response
    BY <2>1, AppendToEmpty
  <2>3. HandlerInv(h)'
    BY <1>2, <1>4, <2>1, <2>2 DEF HandlerInv, Reached, Busy, req
  <2> QED
    BY <2>1, <2>3 DEF HandlerStep
<1>5. CASE req.errcode = 444 /\ Refuse(h, r, req, ProbeResponse(r))
  BY <1>4, <1>5, PublicResponse
<1>6. CASE req.errcode \notin {0, 444} /\ Refuse(h, r, req, FormatError(req.errcode))
  BY <1>4, <1>6, PublicResponse
<1> QED
  BY <1>1, <1>3, <1>5, <1>6 DEF req

(* The hand-over to the tracker. *)
LEMMA SaveDomainInv ==
    ASSUME Shape, NEW h \in Handler, HandlerInv(h), SaveDomain(h)
    PROVE  HandlerStep(h)
<1>1. Shape /\ HandlerInv(h) /\ proc[h].pc = "save" /\ tracked[h] = <<>>
  BY DEF HandlerInv, Reached, SaveDomain
<1>2. /\ Shape' /\ Keeps(h)
      /\ proc'[h].pc = "query" /\ proc'[h].r = proc[h].r /\ proc'[h].req = proc[h].req
      /\ asked' = asked /\ out' = out
      /\ tracked'[h] = Append(<<>>, Head(proc[h].req.questions))
  BY <1>1 DEF SaveDomain, Shape, Keeps, Fields
<1>3. tracked'[h] = <<Head(proc[h].req.questions)>>
  BY <1>2, AppendToEmpty
<1>4. HandlerInv(h)'
  BY <1>1, <1>2, <1>3 DEF HandlerInv, Reached, Busy
<1> QED
  BY <1>2, <1>4 DEF HandlerStep

(* Exchange changes nothing but its own handler's history. *)
LEMMA ExchangeKeeps ==
    ASSUME Shape, NEW h \in Handler, NEW net, NEW u, NEW result, Exchange(h, net, u, result)
    PROVE  DOMAIN asked' = Handler /\ \A g \in Handler \ {h} : asked'[g] = asked[g]
  BY DEF Shape, Exchange

(* A try, or the answer to the last one. *)
LEMMA FailsInv ==
    ASSUME Shape, NEW h \in Handler, HandlerInv(h), proc[h].pc \in {"query", "tcp"}, UNCHANGED tracked,
           NEW net, NEW u, NEW result, Fails(h, net, u, result)
    PROVE  HandlerStep(h)
<1>1. Shape /\ HandlerInv(h) /\ out[h] = <<>>
  BY DEF HandlerInv, Reached
<1>2. DOMAIN asked' = Handler /\ \A g \in Handler \ {h} : asked'[g] = asked[g]
  BY <1>1, ExchangeKeeps DEF Fails
<1>3. CASE /\ proc' = [proc EXCEPT ![h].pc = "query", ![h].tries = @ + 1]
           /\ UNCHANGED out
  <2>1. /\ Shape' /\ Keeps(h)
        /\ proc'[h].pc = "query" /\ proc'[h].r = proc[h].r /\ proc'[h].req = proc[h].req
    BY <1>1, <1>2, <1>3 DEF Shape, Keeps, Fields
  <2>2. HandlerInv(h)'
    BY <1>1, <1>3, <2>1 DEF HandlerInv, Reached, Busy
  <2> QED
    BY <2>1, <2>2 DEF HandlerStep
<1>4. CASE proc' = [proc EXCEPT ![h].pc = "done"] /\ Write(h, FormatError(503))
  <2>1. /\ Shape' /\ Keeps(h)
        /\ proc'[h].pc = "done" /\ proc'[h].r = proc[h].r /\ proc'[h].req = proc[h].req
        /\ out'[h] = Append(<<>>, FormatError(503))
    BY <1>1, <1>2, <1>4 DEF Shape, Keeps, Fields, Write
  <2>2. Len(out'[h]) = 1 /\ out'[h][1] = FormatError(503)
    BY <2>1, AppendToEmpty
  <2>3. FormatError(503).cache = "none"
    BY PublicResponse
  <2>4. /\ proc[h].r \in Request /\ \E id \in FreshId : proc[h].req = Parsed(proc[h].r, id)
        /\ proc[h].req.errcode = 0
        /\ tracked[h] = IF Tracking /\ ~proc[h].req.dnt THEN <<Head(proc[h].req.questions)>> ELSE <<>>
    BY <1>1 DEF HandlerInv, Reached, Busy
  <2>5. HandlerInv(h)'
    BY SMTT(20), <2>1, <2>2, <2>3, <2>4 DEF HandlerInv, Reached, Busy
  <2> QED
    BY <2>1, <2>5 DEF HandlerStep
<1> QED
  BY <1>3, <1>4 DEF Fails

(* A try that is answered, or truncated. *)
LEMMA GoesOnInv ==
    ASSUME Shape, NEW h \in Handler, HandlerInv(h), proc[h].pc \in {"query", "tcp"}, UNCHANGED <<tracked, out>>,
           NEW net, NEW u, NEW result, Exchange(h, net, u, result),
           NEW pc \in {"tcp", "lookup"}, NEW v,
           \/ proc' = [proc EXCEPT ![h].pc = pc, ![h].response = v]
           \/ proc' = [proc EXCEPT ![h].pc = pc, ![h].upstream = v]
    PROVE  HandlerStep(h)
<1>1. Shape /\ HandlerInv(h)
  OBVIOUS
<1>2. DOMAIN asked' = Handler /\ \A g \in Handler \ {h} : asked'[g] = asked[g]
  BY <1>1, ExchangeKeeps
<1>3. /\ Shape' /\ Keeps(h)
      /\ proc'[h].pc = pc /\ proc'[h].r = proc[h].r /\ proc'[h].req = proc[h].req
  BY <1>1, <1>2 DEF Shape, Keeps, Fields
<1>4. HandlerInv(h)'
  BY <1>1, <1>3 DEF HandlerInv, Reached, Busy
<1> QED
  BY <1>3, <1>4 DEF HandlerStep

(* doDNSQuery keeps the invariant: its exchanges belong to a request that was accepted. *)
LEMMA DoDNSQueryInv ==
    ASSUME Shape, NEW h \in Handler, HandlerInv(h), doDNSQuery(h)
    PROVE  HandlerStep(h)
<1>1. proc[h].pc \in {"query", "tcp"} /\ UNCHANGED tracked
  BY DEF doDNSQuery, UDPExchange, TCPExchange
<1>2. ASSUME NEW net, NEW u, NEW m, Succeeds(h, net, u, m)
      PROVE  HandlerStep(h)
  BY <1>1, <1>2, GoesOnInv DEF Succeeds
<1>3. CASE UDPExchange(h)
  <2>1. PICK u \in Upstream :
          \/ Fails(h, "udp", u, "error")
          \/ \E m \in Reply :
                \/ Succeeds(h, "udp", u, m)
                \/ /\ Exchange(h, "udp", u, "truncated")
                   /\ proc' = [proc EXCEPT ![h].pc = "tcp", ![h].upstream = u]
                   /\ UNCHANGED out
    BY <1>3, Zenon DEF UDPExchange
  <2>2. CASE Fails(h, "udp", u, "error")
    BY <1>1, <2>2, FailsInv
  <2>3. CASE /\ Exchange(h, "udp", u, "truncated")
             /\ proc' = [proc EXCEPT ![h].pc = "tcp", ![h].upstream = u]
             /\ UNCHANGED out
    BY <1>1, <2>3, GoesOnInv
  <2> QED
    BY <1>2, <2>1, <2>2, <2>3
<1>4. CASE TCPExchange(h)
  <2>1. \E u : \/ \E result : Fails(h, "tcp", u, result)
               \/ \E m \in Reply : Succeeds(h, "tcp", u, m)
    BY <1>4, Zenon DEF TCPExchange
  <2> QED
    BY <1>1, <1>2, <2>1, FailsInv
<1> QED
  BY <1>3, <1>4 DEF doDNSQuery

(* The response. *)
LEMMA RespondInv ==
    ASSUME Shape, NEW h \in Handler, HandlerInv(h), Respond(h)
    PROVE  HandlerStep(h)
<1> DEFINE response == GenerateResponse(proc[h].r, proc[h].req, postLookup(proc[h].response, proc[h].req.ads))
<1>1. Shape /\ HandlerInv(h) /\ proc[h].pc = "lookup" /\ out[h] = <<>>
  BY DEF HandlerInv, Reached, Respond
<1>2. response.cache = "public" => ~proc[h].req.isTailored
  BY PublicResponse
<1>3. Write(h, response) /\ proc' = [proc EXCEPT ![h].pc = "done"] /\ UNCHANGED <<asked, tracked>>
  BY DEF Respond
<1> HIDE DEF response
<1>4. /\ Shape' /\ Keeps(h)
      /\ proc'[h].pc = "done" /\ proc'[h].r = proc[h].r /\ proc'[h].req = proc[h].req
      /\ out'[h] = Append(<<>>, response)
  BY <1>1, <1>3 DEF Write, Shape, Keeps, Fields
<1>5. Len(out'[h]) = 1 /\ out'[h][1] = response
  BY <1>4, AppendToEmpty
<1>6. HandlerInv(h)'
  BY <1>1, <1>2, <1>3, <1>4, <1>5 DEF HandlerInv, Reached, Busy
<1> QED
  BY <1>4, <1>6 DEF HandlerStep

(* The handler is free for another request. *)
LEMMA ReturnInv ==
    ASSUME Shape, NEW h \in Handler, Return(h)
    PROVE  HandlerStep(h)
<1>1. /\ Shape' /\ Keeps(h) /\ proc'[h].pc = "idle"
      /\ asked'[h] = <<>> /\ tracked'[h] = <<>> /\ out'[h] = <<>>
  BY DEF Return, Idle, Shape, Keeps, Fields
<1>2. HandlerInv(h)'
  BY <1>1 DEF HandlerInv, Reached, Busy
<1> QED
  BY <1>1, <1>2 DEF HandlerStep

(* NewServer: handlers without a request satisfy the invariant. *)
LEMMA InitInv == Init => IInv
  BY SMTT(20) DEF Init, IInv, Shape, HandlerInv, Reached, Idle, Fields, Busy

(* A step of handler h. *)
LEMMA StepOf ==
    ASSUME Shape, NEW h \in Handler, HandlerInv(h),
           handlerFunc(h) \/ SaveDomain(h) \/ doDNSQuery(h) \/ Respond(h) \/ Return(h)
    PROVE  HandlerStep(h)
  BY HandlerFuncInv, SaveDomainInv, DoDNSQueryInv, RespondInv, ReturnInv

(* Every step keeps the invariant. *)
LEMMA StepInv == IInv /\ [Next]_vars => IInv'
<1> SUFFICES ASSUME IInv, [Next]_vars
             PROVE  IInv'
  OBVIOUS
<1>1. ASSUME NEW h \in Handler, handlerFunc(h) \/ SaveDomain(h) \/ doDNSQuery(h) \/ Respond(h) \/ Return(h)
      PROVE  IInv'
  BY <1>1, StepOf, OneHandler DEF IInv
<1>2. CASE UNCHANGED vars
  <2>1. proc' = proc /\ asked' = asked /\ tracked' = tracked /\ out' = out
    BY <1>2 DEF vars
  <2>2. Shape'
    BY <2>1 DEF IInv, Shape
  <2>3. ASSUME NEW h \in Handler PROVE HandlerInv(h)'
    <3>1. HandlerInv(h)
      BY DEF IInv
    <3> QED
      BY <2>1, <3>1, Zenon DEF HandlerInv
  <2> QED
    BY <2>2, <2>3 DEF IInv
<1> QED
  BY <1>1, <1>2 DEF Next

(* The invariant holds: where a handler is determines what it has logged, asked and answered. *)
THEOREM Inductive == Spec => []IInv
  BY InitInv, StepInv, PTL DEF Spec

(* handlerFunc neither logs nor sends upstream what it refuses, and logs no request that says DNT. *)
THEOREM RefusedRequestsLeaveNoTrace == Spec => []RefusedLeavesNoTrace
<1>1. IInv => RefusedLeavesNoTrace
  <2> SUFFICES ASSUME IInv, NEW h \in Handler
               PROVE  LET r == proc[h].r
                      IN  /\ asked[h] # <<>> \/ tracked[h] # <<>>
                               => \/ contentType(r) = "dns-json" /\ r.name \notin {"", "bad"} /\ r.args /\ r.ecs.text # "bad"
                                  \/ /\ contentType(r) \in Wire /\ r.packet.ok /\ r.packet.query
                                     /\ Len(r.packet.questions) = 1
                          /\ tracked[h] # <<>> => Tracking /\ ~r.dnt
                          /\ asked[h] # <<>> /\ Tracking /\ ~r.dnt => tracked[h] = proc[h].req.questions
    BY DEF RefusedLeavesNoTrace
  <2>1. HandlerInv(h)
    BY DEF IInv
  <2>2. CASE asked[h] = <<>> /\ tracked[h] = <<>>
    BY <2>2
  <2>3. CASE asked[h] # <<>> \/ tracked[h] # <<>>
    <3>1. /\ proc[h].r \in Request /\ proc[h].req.errcode = 0
          /\ \E id \in FreshId : proc[h].req = Parsed(proc[h].r, id)
      BY <2>1, <2>3 DEF HandlerInv, Reached, Busy
    <3> PICK id \in FreshId : proc[h].req = Parsed(proc[h].r, id)
      BY <3>1
    <3> DEFINE r == proc[h].r
    <3>2. r \in Request /\ Parsed(r, id).errcode = 0
      BY <3>1
    <3>3. /\ \/ contentType(r) = "dns-json" /\ r.name \notin {"", "bad"} /\ r.args /\ r.ecs.text # "bad"
             \/ contentType(r) \in Wire /\ r.packet.ok /\ r.packet.query /\ Len(r.packet.questions) = 1
          /\ Parsed(r, id).dnt = r.dnt
          /\ Parsed(r, id).questions = <<Head(Parsed(r, id).questions)>>
      <4> HIDE DEF r
      <4> QED
        BY <3>2, AcceptedRequest
    <3>4. /\ \/ /\ contentType(proc[h].r) = "dns-json" /\ proc[h].r.name \notin {"", "bad"}
                /\ proc[h].r.args /\ proc[h].r.ecs.text # "bad"
             \/ /\ contentType(proc[h].r) \in Wire /\ proc[h].r.packet.ok /\ proc[h].r.packet.query
                /\ Len(proc[h].r.packet.questions) = 1
          /\ proc[h].req.dnt = proc[h].r.dnt
          /\ proc[h].req.questions = <<Head(proc[h].req.questions)>>
      BY <3>3, Zenon
    <3>5. /\ tracked[h] # <<>> => Tracking /\ ~proc[h].req.dnt
          /\ asked[h] # <<>> /\ Tracking /\ ~proc[h].req.dnt
               => tracked[h] = <<Head(proc[h].req.questions)>>
      BY <2>1, <3>1 DEF HandlerInv, Reached, Busy
    <3> QED
      BY <3>4, <3>5
  <2> QED
    BY <2>2, <2>3
<1> QED
  BY <1>1, Inductive, PTL

(* What Cache-Control lets every cache keep was asked for the same client subnet, whoever asked. *)
THEOREM PublicAnswersAreForEveryone == Spec => []PublicIsForEveryone
<1>1. IInv => PublicIsForEveryone
  <2> SUFFICES ASSUME IInv, NEW h \in Handler, Done(h), Given(h).cache = "public", NEW r \in Request
               PROVE  ParseRequest(Moved(proc[h].r, r.forwarded, r.realip, r.remote), 0).subnets
                        = proc[h].req.subnets
    BY DEF PublicIsForEveryone, Moved
  <2>1. HandlerInv(h)
    BY DEF IInv
  <2>2. /\ proc[h].r \in Request /\ proc[h].req.errcode = 0 /\ ~proc[h].req.isTailored
        /\ \E id \in FreshId : proc[h].req = Parsed(proc[h].r, id)
    BY <2>1 DEF HandlerInv, Reached, Done, Given
  <2>3. PICK id \in FreshId : proc[h].req = Parsed(proc[h].r, id)
    BY <2>2
  <2>4. Parsed(proc[h].r, id).errcode = 0 /\ ~Parsed(proc[h].r, id).isTailored
    BY <2>2, <2>3
  <2>5. \A q \in Request : \A f, i, a :
          Parsed(q, id).errcode = 0 /\ ~Parsed(q, id).isTailored =>
             ParseRequest(Moved(q, f, i, a), 0).subnets = Parsed(q, id).subnets
    BY SameSubnet
  <2>6. ParseRequest(Moved(proc[h].r, r.forwarded, r.realip, r.remote), 0).subnets
          = Parsed(proc[h].r, id).subnets
    BY <2>2, <2>4, <2>5
  <2> QED
    BY <2>3, <2>6
<1> QED
  BY <1>1, Inductive, PTL
-------------------------------------------------------------------------------
(* The subnet of a tailored answer is that of the client. *)
LEMMA TailoredSubnet ==
    ASSUME NEW r, NEW id, Parsed(r, id).errcode = 0, Parsed(r, id).isTailored
    PROVE  Parsed(r, id).subnets = ClientSubnet(findClientIP(r))
<1> DEFINE req == ParseRequest(r, id)
<1>1. req.errcode = 0 /\ req.isTailored /\ Parsed(r, id).subnets = req.subnets
  BY Patched
<1>2. CASE contentType(r) = "dns-json"
  <2>1. req = parseRequestGoogle(r, id)
    BY <1>2, Parsers
  <2> HIDE DEF req
  <2>2. r.name \notin {"", "bad"} /\ r.args /\ r.ecs.text # "bad" /\ r.ecs.text = "none"
    BY <1>1, <2>1, GoogleAccepts, Zenon
  <2>3. parseRequestGoogle(r, id).subnets = ClientSubnet(findClientIP(r))
    BY <2>2 DEF parseRequestGoogle
  <2> QED
    BY <1>1, <2>1, <2>3
<1>3. CASE contentType(r) \in Wire
  <2>1. req = parseRequestIETF(r, id)
    BY <1>3, Parsers
  <2> HIDE DEF req
  <2>2. /\ requestBinary(r) = "packet" /\ ~patchDNSCryptProxyReqID(r) /\ r.packet.ok
        /\ r.packet.subnets = <<>>
    BY <1>1, <2>1, IETFAccepts, Zenon
  <2>3. parseRequestIETF(r, id).subnets = ClientSubnet(findClientIP(r))
    BY <2>2 DEF parseRequestIETF
  <2> QED
    BY <1>1, <2>1, <2>3
<1>4. CASE contentType(r) # "dns-json" /\ contentType(r) \notin Wire
  BY <1>1, <1>4, Parsers DEF Refused
<1> QED
  BY <1>2, <1>3, <1>4

(* SelectInSeq for the test that IsGlobalIP is, and for Public. *)
LEMMA FirstGlobal ==
    ASSUME NEW s \in Seq(IP)
    PROVE  LET i == SelectInSeq(s, IsGlobalIP)
           IN  /\ i = SelectInSeq(s, Public)
               /\ i # 0 => i \in 1..Len(s) /\ Public(s[i])
<1> DEFINE G == {i \in 1..Len(s) : IsGlobalIP(s[i])}
           P == {i \in 1..Len(s) : Public(s[i])}
<1>1. Len(s) \in Nat /\ \A i \in 1..Len(s) : s[i] \in IP
  OBVIOUS
<1>2. G = P
  BY <1>1, GlobalIsPublic
<1>3. /\ SelectInSeq(s, IsGlobalIP) = IF G # {} THEN Min(G) ELSE 0
      /\ SelectInSeq(s, Public) = IF P # {} THEN Min(P) ELSE 0
  BY DEF SelectInSeq
<1>4. P # {} => Min(P) \in P
  <2> SUFFICES ASSUME P # {} PROVE Min(P) \in P
    OBVIOUS
  <2>1. P \in SUBSET Nat
    BY <1>1
  <2> HIDE DEF P
  <2>2. \E m \in P : \A n \in P : m <= n
    BY <2>1, Least
  <2> QED
    BY <2>2 DEF Min
<1>5. Min(P) \in P => Min(P) \in 1..Len(s) /\ Public(s[Min(P)])
  OBVIOUS
<1> HIDE DEF G, P
<1> QED
  BY <1>2, <1>3, <1>4, <1>5

(* The address in the option that names a client. *)
LEMMA SubnetAddress ==
    /\ ClientSubnet(NoIP) = <<>>
    /\ \A ip : ip # NoIP => /\ DOMAIN ClientSubnet(ip) = {1}
                           /\ ClientSubnet(ip)[1].addr = Short(ip)
<1>1. ClientSubnet(NoIP) = <<>>
  <2>1. To4(NoIP) = NoIP
    <3>1. Len(NoIP) = 0
      BY DEF NoIP
    <3> QED
      BY <3>1 DEF To4, Mapped
  <2> QED
    BY <2>1 DEF ClientSubnet
<1>2. ASSUME NEW ip, ip # NoIP
      PROVE  \E f, m : ClientSubnet(ip) = <<Subnet(f, Short(ip), m, 0)>>
  <2>1. CASE To4(ip) # NoIP
    BY <1>2, <2>1 DEF ClientSubnet, Short
  <2>2. CASE To4(ip) = NoIP
    BY <1>2, <2>2 DEF ClientSubnet, Short
  <2> QED
    BY <2>1, <2>2
<1>3. \A f, a, m : DOMAIN <<Subnet(f, a, m, 0)>> = {1} /\ <<Subnet(f, a, m, 0)>>[1].addr = a
  BY DEF Subnet
<1> QED
  BY <1>1, <1>2, <1>3

(* findClientIP and the option made of what it returns: no local address goes upstream, and no *)
(* public one is passed over, whatever the addresses are.                                      *)
THEOREM ClientsAreNamedByGlobalAddress == Spec => []ClientIsNamedByGlobalAddress
<1>1. IInv => ClientIsNamedByGlobalAddress
  <2> SUFFICES ASSUME IInv, NEW h \in Handler, proc[h].pc # "idle", proc[h].req.errcode = 0,
                      proc[h].req.isTailored
               PROVE  LET r == proc[h].r
                          first == SelectInSeq(Addresses(r), Public)
                      IN  [i \in DOMAIN proc[h].req.subnets |-> proc[h].req.subnets[i].addr]
                             = IF first = 0 THEN <<>> ELSE <<Short(Addresses(r)[first])>>
    BY DEF ClientIsNamedByGlobalAddress
  <2>1. PICK r \in Request, id \in FreshId : r = proc[h].r /\ proc[h].req = Parsed(r, id)
    BY DEF IInv, HandlerInv, Reached
  <2> DEFINE s == Addresses(r)
             first == SelectInSeq(s, Public)
             subnets == ClientSubnet(findClientIP(r))
  <2>2. proc[h].req.subnets = subnets
    BY <2>1, TailoredSubnet
  <2>3. s \in Seq(IP)
    <3>1. r.forwarded \in Seq(IP) /\ r.realip \in IP /\ r.remote \in IP
      BY ServerAssumption
    <3>2. <<r.realip, r.remote>> \in Seq(IP)
      BY <3>1
    <3> QED
      BY <3>1, <3>2 DEF Addresses
  <2>4. /\ first = SelectInSeq(s, IsGlobalIP)
        /\ first # 0 => Public(s[first])
    <3> HIDE DEF s
    <3> QED
      BY <2>3, FirstGlobal
  <2>5. findClientIP(r) = IF first = 0 THEN NoIP ELSE s[first]
    BY <2>4 DEF findClientIP
  <2> SUFFICES [i \in DOMAIN subnets |-> subnets[i].addr] = IF first = 0 THEN <<>> ELSE <<Short(s[first])>>
    BY <2>1, <2>2
  <2> HIDE DEF s, first
  <2>6. CASE first = 0
    <3>1. subnets = <<>>
      BY <2>5, <2>6, SubnetAddress
    <3> QED
      BY <2>6, <3>1
  <2>7. CASE first # 0
    <3>1. s[first] # NoIP /\ findClientIP(r) = s[first]
      BY <2>4, <2>5, <2>7 DEF Public
    <3>2. DOMAIN subnets = {1} /\ subnets[1].addr = Short(s[first])
      BY <3>1, SubnetAddress
    <3> HIDE DEF subnets
    <3> QED
      BY <2>7, <3>2
  <2> QED
    BY <2>6, <2>7
<1> QED
  BY <1>1, Inductive, PTL
-------------------------------------------------------------------------------
(* The Id of a wire request goes into its answer. *)
LEMMA Transaction ==
    ASSUME NEW r, NEW id
    PROVE  /\ Parsed(r, id).errcode = 0
                => /\ contentType(r) \in Wire \cup {"dns-json"}
                   /\ Parsed(r, id).transactionID = IF contentType(r) \in Wire THEN r.packet.id ELSE 0
           /\ Parsed(r, id).errcode = 444 => contentType(r) \in Wire
<1> DEFINE req == ParseRequest(r, id)
<1>1. CASE Parsed(r, id).errcode = 0
  <2>1. req.errcode = 0 /\ Parsed(r, id).transactionID = req.transactionID
    BY <1>1, Patched
  <2>2. CASE contentType(r) = "dns-json"
    <3>1. req = parseRequestGoogle(r, id)
      BY <2>2, Parsers
    <3> HIDE DEF req
    <3>2. req.transactionID = 0
      BY <2>1, <3>1, GoogleAccepts, Zenon
    <3>3. contentType(r) \notin Wire
      BY <2>2 DEF Wire
    <3> QED
      BY <1>1, <2>1, <2>2, <3>2, <3>3
  <2>3. CASE contentType(r) \in Wire
    <3>1. req = parseRequestIETF(r, id)
      BY <2>3, Parsers
    <3> HIDE DEF req
    <3>2. requestBinary(r) = "packet" /\ ~patchDNSCryptProxyReqID(r) /\ r.packet.ok
      BY <2>1, <3>1, IETFAccepts, Zenon
    <3>3. parseRequestIETF(r, id).transactionID = r.packet.id
      BY <3>2 DEF parseRequestIETF
    <3> QED
      BY <1>1, <2>1, <2>3, <3>1, <3>3
  <2>4. CASE contentType(r) # "dns-json" /\ contentType(r) \notin Wire
    BY <2>1, <2>4, Parsers DEF Refused
  <2> QED
    BY <2>2, <2>3, <2>4
<1>2. ASSUME Parsed(r, id).errcode = 444 PROVE contentType(r) \in Wire
  <2>1. req.errcode = 444
    <3>1. DOMAIN req = ReqFields
      BY ParserFields
    <3> HIDE DEF req
    <3>2. DOMAIN patchRootRD(req) = ReqFields /\ patchRootRD(req).errcode = req.errcode
      BY <3>1 DEF patchRootRD, ReqFields
    <3> DEFINE patched == patchRootRD(req)
    <3>3. preLookup(patched).errcode = 444
      BY <1>2 DEF Parsed, req
    <3> HIDE DEF patched
    <3>4. preLookup(patched) = patched \/ preLookup(patched).errcode = 400
      BY <3>2 DEF preLookup, ReqFields, patched
    <3> QED
      BY <3>2, <3>3, <3>4 DEF patched
  <2>2. CASE contentType(r) = "dns-json"
    <3>1. parseRequestGoogle(r, id).errcode \in {0, 400}
      BY DEF parseRequestGoogle, Refused
    <3> QED
      BY <2>1, <2>2, <3>1, Parsers
  <2>3. CASE contentType(r) # "dns-json" /\ contentType(r) \notin Wire
    BY <2>1, <2>3, Parsers DEF Refused
  <2> QED
    BY <2>2, <2>3
<1> QED
  BY <1>1, <1>2

(* The first entry of Accept that is known. *)
LEMMA FirstKnown ==
    ASSUME NEW s \in Seq([type : STRING, space : BOOLEAN])
    PROVE  LET n == SelectInSeq(s, Known)
           IN  /\ n # 0 => n \in 1..Len(s) /\ Known(s[n])
               /\ \A i \in 1..Len(s) : Known(s[i]) /\ (\A j \in 1..i - 1 : ~Known(s[j])) => n = i
<1> DEFINE K == {i \in 1..Len(s) : Known(s[i])}
<1>1. SelectInSeq(s, Known) = IF K # {} THEN Min(K) ELSE 0
  BY DEF SelectInSeq
<1>2. Len(s) \in Nat /\ K \in SUBSET Nat
  OBVIOUS
<1>3. K # {} => Min(K) \in K /\ \A k \in K : Min(K) <= k
  <2> SUFFICES ASSUME K # {} PROVE Min(K) \in K /\ \A k \in K : Min(K) <= k
    OBVIOUS
  <2> HIDE DEF K
  <2>1. \E m \in K : \A k \in K : m <= k
    BY <1>2, Least
  <2> QED
    BY <2>1 DEF Min
<1>4. ASSUME NEW i \in 1..Len(s), Known(s[i]), \A j \in 1..i - 1 : ~Known(s[j])
      PROVE  Min(K) = i /\ K # {}
  <2>1. i \in K /\ i \in Nat
    BY <1>2, <1>4
  <2>2. Min(K) \in K /\ Min(K) <= i
    BY <1>3, <2>1
  <2>3. Min(K) \in 1..Len(s) /\ Known(s[Min(K)])
    BY <2>2
  <2> HIDE DEF K
  <2>4. ~(Min(K) \in 1..i - 1)
    BY <1>4, <2>3
  <2> QED
    BY <1>2, <2>1, <2>2, <2>3, <2>4
<1>5. Min(K) \in K => Min(K) \in 1..Len(s) /\ Known(s[Min(K)])
  OBVIOUS
<1> HIDE DEF K
<1> QED
  BY <1>1, <1>3, <1>4, <1>5

(* There is a response type for every request that is accepted: that of the first known entry. *)
LEMMA ResponseType ==
    ASSUME NEW r \in Request, contentType(r) \in Wire \cup {"dns-json"}
    PROVE  /\ responseType(r) \in {"json", "dns-message"}
           /\ \A i \in DOMAIN r.accept :
                 Known(r.accept[i]) /\ (\A j \in 1..i - 1 : ~Known(r.accept[j]))
                   => (r.accept[i].type = "json") = (responseType(r) = "json")
<1> DEFINE n == SelectInSeq(r.accept, Known)
           type == IF n # 0 THEN r.accept[n].type ELSE contentType(r)
<1>1. r.accept \in Seq([type : STRING, space : BOOLEAN])
  BY ServerAssumption
<1>2. /\ n # 0 => Known(r.accept[n])
      /\ \A i \in 1..Len(r.accept) : Known(r.accept[i]) /\ (\A j \in 1..i - 1 : ~Known(r.accept[j])) => n = i
  <2> DEFINE s == r.accept
  <2>1. s \in Seq([type : STRING, space : BOOLEAN])
    BY <1>1
  <2> HIDE DEF s
  <2>2. LET m == SelectInSeq(s, Known)
        IN  /\ m # 0 => Known(s[m])
            /\ \A i \in 1..Len(s) : Known(s[i]) /\ (\A j \in 1..i - 1 : ~Known(s[j])) => m = i
    BY <2>1, FirstKnown
  <2> QED
    BY <2>2 DEF s
<1>3. responseType(r) = CASE type \in {"json", "dns-json"} -> "json"
                          [] type \in Wire -> "dns-message"
                          [] OTHER -> ""
  BY DEF responseType
<1> HIDE DEF n
<1>4. type \in Wire \cup {"json", "dns-json"} /\ (n # 0 => type = r.accept[n].type /\ type \in Wire \cup {"json"})
  BY <1>2 DEF Known
<1> HIDE DEF type
<1>5. /\ type \in {"json", "dns-json"} => responseType(r) = "json"
      /\ type \in Wire => responseType(r) = "dns-message"
  <2>1. ~(type \in {"json", "dns-json"} /\ type \in Wire)
    BY DEF Wire
  <2>2. ASSUME type \in {"json", "dns-json"} PROVE responseType(r) = "json"
    BY <1>3, <2>1, <2>2
  <2>3. ASSUME type \in Wire PROVE responseType(r) = "dns-message"
    BY <1>3, <2>1, <2>3
  <2> QED
    BY <2>2, <2>3
<1>6. responseType(r) \in {"json", "dns-message"}
  BY <1>4, <1>5
<1>7. ASSUME NEW i \in DOMAIN r.accept, Known(r.accept[i]), \A j \in 1..i - 1 : ~Known(r.accept[j])
      PROVE  (r.accept[i].type = "json") = (responseType(r) = "json")
  <2>1. i \in 1..Len(r.accept) /\ i # 0
    BY <1>1
  <2>2. n = i
    BY <1>2, <1>7, <2>1
  <2>3. type = r.accept[i].type /\ type \in Wire \cup {"json"}
    BY <1>4, <2>1, <2>2
  <2>4. (type = "json") <=> (responseType(r) = "json")
    BY <1>5, <2>3 DEF Wire
  <2> QED
    BY <2>3, <2>4
<1> QED
  BY <1>6, <1>7

(* What is written for an answer. *)
LEMMA AnswerType ==
    ASSUME NEW r, NEW req, NEW msg, responseType(r) \in {"json", "dns-message"}
    PROVE  LET given == GenerateResponse(r, req, msg)
           IN  \/ responseType(r) = "json" /\ given.type = "json"
               \/ responseType(r) = "dns-message" /\ given.type \in Wire /\ given.id = req.transactionID
               \/ given.type = "json" /\ given.status = 500
<1> DEFINE given == GenerateResponse(r, req, msg)
<1>1. CASE responseType(r) = "json"
  <2>1. given = generateResponseGoogle(req, msg)
    BY <1>1 DEF GenerateResponse
  <2>2. generateResponseGoogle(req, msg).type = "json"
    BY DEF generateResponseGoogle, Response
  <2> HIDE DEF given
  <2>3. given.type = "json"
    BY <2>1, <2>2
  <2> QED
    BY <1>1, <2>3 DEF given
<1>2. CASE responseType(r) = "dns-message"
  <2>1. given = generateResponseIETF(r, req, msg)
    BY <1>2 DEF GenerateResponse
  <2> DEFINE g == generateResponseIETF(r, req, msg)
  <2>2. CASE ~Packs(msg)
    <3>1. g = FormatError(500)
      BY <2>2 DEF generateResponseIETF
    <3>2. FormatError(500).type = "json" /\ FormatError(500).status = 500
      BY DEF FormatError, Response
    <3> HIDE DEF g
    <3>3. g.type = "json" /\ g.status = 500
      BY <3>1, <3>2
    <3> QED
      BY <2>1, <3>3 DEF g
  <2>3. CASE Packs(msg)
    <3>1. g.type \in Wire /\ g.id = req.transactionID
      <4>1. CASE patchFirefoxContentType(r)
        BY <2>3, <4>1 DEF generateResponseIETF, Response, Wire
      <4>2. CASE ~patchFirefoxContentType(r)
        BY <2>3, <4>2 DEF generateResponseIETF, Response, Wire
      <4> QED
        BY <4>1, <4>2
    <3> QED
      BY <1>2, <2>1, <3>1
  <2> QED
    BY <2>2, <2>3
<1> QED
  BY <1>1, <1>2
===============================================================================
