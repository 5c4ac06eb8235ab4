-------------------------- MODULE ServerSystem_proofs --------------------------
(***************************************************************************)
(* The handlers with what is around them: they use the requests log as     *)
(* Tracker says, and the HTTP cache in front of them gives a client what   *)
(* its own request would have been answered with.                          *)
(***************************************************************************)
EXTENDS TrackedServer, CachedServer, DohServer_proofs

(* Beginning and restarting establish the handlers' invariant; every other step keeps it. *)
LEMMA TrackedStepInv ==
    IInv /\ [TrackedNext]_<<vars, logVars>> => IInv'
<1> SUFFICES ASSUME IInv, [TrackedNext]_<<vars, logVars>>
             PROVE  IInv'
  OBVIOUS
<1>1. ASSUME NEW h \in Handler, Serve(h) \/ Save(h)
      PROVE  IInv'
  <2>1. Next
    BY <1>1 DEF Serve, Save, Next
  <2> QED
    BY <2>1, StepInv
<1>2. CASE Collect \/ Flush \/ WriteOut \/ UNCHANGED <<vars, logVars>>
  <2>1. UNCHANGED vars
    BY <1>2 DEF Collect, Flush, WriteOut
  <2> QED
    BY <2>1, StepInv
<1>3. CASE Restart
  BY <1>3 DEF Restart, IInv, Shape, HandlerInv, Reached, Idle, Fields, Busy
<1> QED
  BY <1>1, <1>2, <1>3 DEF TrackedNext

(* What the log sees of a handler changes when it is given a request, has handed it over, or is free. *)
LEMMA LogPcStep ==
    ASSUME IInv, IInv', NEW h \in Handler, Keeps(h), NEW v,
           v = CASE proc'[h].pc = "idle" -> "idle" [] proc'[h].pc = "save" -> "send" [] OTHER -> "query"
    PROVE  LogPc' = [LogPc EXCEPT ![h] = v]
  BY DEF LogPc, Keeps

(* Each step is one of Tracker, or changes nothing that Tracker sees. *)
LEMMA TrackedStep ==
    ASSUME IInv, IInv', [TrackedNext]_<<vars, logVars>>
    PROVE  [Log!Next]_(Log!vars)
<1>1. ASSUME NEW h \in Handler, Log!MayTrack, handlerFunc(h), UNCHANGED logVars
      PROVE  Log!Track(h)
  <2>1. Shape /\ Keeps(h) /\ proc[h].pc = "idle" /\ proc'[h].pc \in {"save", "query", "done"}
    <3>1. Shape /\ proc[h].pc = "idle" /\ UNCHANGED <<asked, tracked>>
      BY <1>1 DEF IInv, handlerFunc
    <3>2. \E r, req, response : Accept(h, r, req) \/ Refuse(h, r, req, response)
      BY <1>1, ZenonT(30) DEF handlerFunc
    <3>3. PICK r, req, response : Accept(h, r, req) \/ Refuse(h, r, req, response)
      BY <3>2
    <3>4. CASE Accept(h, r, req)
      BY <3>1, <3>4 DEF Shape, Keeps, Accept, Idle
    <3>5. CASE Refuse(h, r, req, response)
      BY <3>1, <3>5 DEF Shape, Keeps, Refuse, Write, Idle
    <3> QED
      BY <3>1, <3>3, <3>4, <3>5
  <2>2. LogPc[h] = "idle"
    BY <2>1 DEF LogPc
  <2>3. \E dnt \in BOOLEAN : LogPc' = [LogPc EXCEPT ![h] = IF dnt THEN "query" ELSE "send"]
    <3>1. CASE proc'[h].pc = "save"
      <4>1. LogPc' = [LogPc EXCEPT ![h] = IF FALSE THEN "query" ELSE "send"]
        BY <2>1, <3>1, LogPcStep
      <4> QED
        BY <4>1
    <3>2. CASE proc'[h].pc \in {"query", "done"}
      <4>1. LogPc' = [LogPc EXCEPT ![h] = IF TRUE THEN "query" ELSE "send"]
        BY <2>1, <3>2, LogPcStep
      <4> QED
        BY <4>1
    <3> QED
      BY <2>1, <3>1, <3>2
  <2> QED
    BY <1>1, <2>2, <2>3 DEF Log!Track, logVars
<1>2. ASSUME NEW h \in Handler, doDNSQuery(h) \/ Respond(h), UNCHANGED logVars
      PROVE  UNCHANGED Log!vars
  <2>1. /\ Shape /\ proc[h].pc \in {"query", "tcp", "lookup"}
        /\ DOMAIN proc' = Handler /\ \A g \in Handler \ {h} : proc'[g] = proc[g]
        /\ proc'[h].pc \in {"query", "tcp", "lookup", "done"}
    <3>1. Shape /\ h \in DOMAIN proc /\ DOMAIN proc[h] = Fields
      BY DEF IInv, Shape
    <3>2. proc[h].pc \in {"query", "tcp", "lookup"}
      BY <1>2 DEF doDNSQuery, UDPExchange, TCPExchange, Respond
    <3>3. CASE Respond(h)
      BY <3>1, <3>2, <3>3 DEF Respond, Shape, Fields
    <3>4. CASE doDNSQuery(h)
      <4>1. \/ \E net, u, result : Fails(h, net, u, result)
            \/ \E net, u, m : Succeeds(h, net, u, m)
            \/ \E u : proc' = [proc EXCEPT ![h].pc = "tcp", ![h].upstream = u]
        BY <3>4, ZenonT(30) DEF doDNSQuery, UDPExchange, TCPExchange
      <4>2. CASE \E net, u, result : Fails(h, net, u, result)
        <5>1. \/ proc' = [proc EXCEPT ![h].pc = "query", ![h].tries = proc[h].tries + 1]
              \/ proc' = [proc EXCEPT ![h].pc = "done"]
          BY <4>2, Zenon DEF Fails
        <5> QED
          BY <3>1, <3>2, <5>1 DEF Shape, Fields
      <4>3. CASE \E net, u, m : Succeeds(h, net, u, m)
        <5>1. PICK v : proc' = [proc EXCEPT ![h].pc = "lookup", ![h].response = v]
          BY <4>3, Zenon DEF Succeeds
        <5> QED
          BY <3>1, <3>2, <5>1 DEF Shape, Fields
      <4> QED
        BY <3>1, <3>2, <4>1, <4>2, <4>3 DEF Shape, Fields
    <3> QED
      BY <1>2, <3>3, <3>4
  <2>2. LogPc' = LogPc
    BY <2>1 DEF LogPc
  <2> QED
    BY <1>2, <2>2 DEF Log!vars, logVars
<1>3. ASSUME NEW h \in Handler, Return(h), UNCHANGED logVars
      PROVE  Log!Finish(h)
  <2>1. Shape /\ Keeps(h) /\ proc[h].pc = "done" /\ proc'[h].pc = "idle"
    BY <1>3 DEF IInv, Shape, Keeps, Return, Idle, Fields
  <2>2. LogPc[h] = "query" /\ LogPc' = [LogPc EXCEPT ![h] = "idle"]
    BY <2>1, LogPcStep DEF LogPc
  <2> QED
    BY <1>3, <2>2 DEF Log!Finish, logVars
<1>4. ASSUME UNCHANGED vars
      PROVE  LogPc' = LogPc
  BY <1>4 DEF vars, LogPc
<1>5. CASE Restart
  BY <1>5 DEF Restart, Log!Next
<1>6. CASE UNCHANGED <<vars, logVars>>
  BY <1>4, <1>6 DEF Log!vars, logVars
<1>7. CASE Collect \/ Flush \/ WriteOut
  BY <1>7 DEF Collect, Flush, WriteOut, Log!Next
<1>8. ASSUME NEW h \in Handler, Save(h)
      PROVE  Log!Next
  BY <1>8 DEF Save, Log!Next
<1>9. ASSUME NEW h \in Handler, Serve(h)
      PROVE  [Log!Next]_(Log!vars)
  BY <1>1, <1>2, <1>3, <1>9 DEF Serve, Log!Next
<1> QED
  BY <1>5, <1>6, <1>7, <1>8, <1>9 DEF TrackedNext

(* handlerFunc and the goroutine of Tracker.Start together behave as Tracker specifies. *)
THEOREM ServerImplementsTracker == TrackedSpec => ImplementsTracker
<1>1. TrackedInit => IInv
  BY InitInv DEF TrackedInit
<1>2. TrackedInit => Log!Init
  BY DEF TrackedInit
<1> QED
  BY <1>1, <1>2, TrackedStepInv, TrackedStep, PTL DEF TrackedSpec, ImplementsTracker, Log!Spec

(* What Tracker_proofs shows of Tracker holds of the log of these handlers. *)
LogProof == INSTANCE Tracker_proofs WITH pc <- LogPc

(* The lengths of lines, in both instances of Tracker. *)
LEMMA SameLength ==
    \A lines : /\ Log!Lengths(lines) = LogProof!Lengths(lines)
               /\ Log!Length(lines) = LogProof!Length(lines)
  BY DEF Log!Length, LogProof!Length, Log!Lengths, LogProof!Lengths

(* Log and LogProof are the same instance of Tracker. *)
LEMMA SameLog ==
    /\ Log!Init => LogProof!Init
    /\ [Log!Next]_(Log!vars) => [LogProof!Next]_(LogProof!vars)
    /\ LogProof!LogIsExact => LogIsExact
    /\ LogProof!BufferIsBounded => BufferIsBounded
    /\ LogProof!TypeOK => LogTypeOK
<1>1. Log!Init => LogProof!Init
  BY DEF Log!Init, LogProof!Init
<1>2. \A lines : Log!Ids(lines) = LogProof!Ids(lines) /\ Log!Whole(lines) = LogProof!Whole(lines)
  BY DEF Log!Ids, LogProof!Ids, Log!Whole, LogProof!Whole
<1>3. \A k, cut : /\ Log!Appended(k, cut) = LogProof!Appended(k, cut)
                  /\ Log!Unwritten(k) = LogProof!Unwritten(k)
  BY <1>2 DEF Log!Appended, LogProof!Appended, Log!Unwritten, LogProof!Unwritten
<1>4. \A h : /\ Log!Track(h) => LogProof!Track(h)
             /\ Log!SaveDomain(h) => LogProof!SaveDomain(h)
             /\ Log!Finish(h) => LogProof!Finish(h)
  BY DEF Log!Track, LogProof!Track, Log!SaveDomain, LogProof!SaveDomain, Log!Finish, LogProof!Finish
<1>5. /\ Log!Tick => LogProof!Tick
      /\ Log!Receive => LogProof!Receive
  BY SameLength DEF Log!Tick, LogProof!Tick, Log!Receive, LogProof!Receive
<1>6. /\ Log!WriteTo => LogProof!WriteTo
      /\ Log!WriteFails => LogProof!WriteFails
      /\ Log!Restart => LogProof!Restart
  BY <1>2, <1>3 DEF Log!WriteTo, LogProof!WriteTo, Log!WriteFails, LogProof!WriteFails,
     Log!Restart, LogProof!Restart
<1>7. Log!MayTrack => LogProof!MayTrack
  BY DEF Log!MayTrack, LogProof!MayTrack, Log!Cardinality, LogProof!Cardinality,
     Log!IsFiniteSet, LogProof!IsFiniteSet
<1>8. [Log!Next]_(Log!vars) => [LogProof!Next]_(LogProof!vars)
  BY <1>4, <1>5, <1>6, <1>7 DEF Log!Next, LogProof!Next, Log!vars, LogProof!vars
<1>9. LogProof!LogIsExact => LogIsExact
  BY <1>2 DEF LogIsExact, Log!LogIsExact, LogProof!LogIsExact, Log!Pipeline, LogProof!Pipeline
<1>10. LogProof!BufferIsBounded => BufferIsBounded
  BY SameLength DEF BufferIsBounded, Log!BufferIsBounded, LogProof!BufferIsBounded
<1>11. LogProof!TypeOK => LogTypeOK
  BY DEF LogTypeOK, Log!TypeOK, LogProof!TypeOK
<1> QED
  BY <1>1, <1>8, <1>9, <1>10, <1>11

(***************************************************************************)
(* The names handlerFunc hands over reach the file in order and once, and  *)
(* only those a failed write or the end of the process dropped are missing.*)
(***************************************************************************)
THEOREM ServerLogIsExact == TrackedSpec => []LogIsExact
  BY LogProof!TheLogIsExact, TrackerAssumption, SameLog, ServerImplementsTracker, PTL
     DEF ImplementsTracker, Log!Spec, LogProof!Spec

(* With any handlers, the buffer of Tracker.Start exceeds FlushLen by its last line at most. *)
THEOREM ServerBufferIsBounded == TrackedSpec => []BufferIsBounded
  BY LogProof!TheBufferIsBounded, TrackerAssumption, SameLog, ServerImplementsTracker, PTL
     DEF ImplementsTracker, Log!Spec, LogProof!Spec

(* With finitely many handlers, the channel of NewTracker stays within its capacity. *)
THEOREM ServerLogTypeCorrect ==
    ASSUME IsFiniteSet(Handler)
    PROVE  TrackedSpec => []LogTypeOK
<1>1. LogProof!IsFiniteSet(Handler)
  BY DEF IsFiniteSet, LogProof!IsFiniteSet
<1>2. LogProof!Spec => []LogProof!TypeOK
  BY <1>1, LogProof!TypeCorrect, TrackerAssumption
<1> QED
  BY <1>2, SameLog, ServerImplementsTracker, PTL DEF ImplementsTracker, Log!Spec, LogProof!Spec
-------------------------------------------------------------------------------
(* The cache.  What it keeps is an accepted GET's public answer, *)
Fits(response, r, req) ==
    /\ ~req.isTailored
    /\ response.vary = {"Accept"}
    /\ response.type = responseType(r)
    /\ response.id = IF responseType(r) = "json" THEN NoId ELSE req.transactionID

Stored(entry) ==
    /\ entry.r \in Request /\ IsGet(entry.r)
    /\ \E id \in FreshId : entry.req = Parsed(entry.r, id)
    /\ entry.req.errcode = 0
    /\ Fits(entry.response, entry.r, entry.req)

(* and what it answers with is one of those. *)
Served(cached) ==
    /\ cached.r \in Request /\ IsGet(cached.r)
    /\ Stored(cached.entry) /\ Selects(cached.entry, cached.r)

CInv ==
    /\ IInv /\ DOMAIN hit = Handler
    /\ \A entry \in store : Stored(entry)
    /\ \A h \in Handler : \A cached \in hit[h] : Served(cached)

(* Only an answer to the query is public, in the type that is asked for and without the patch for Firefox. *)
LEMMA PublicFits ==
    ASSUME NEW r, NEW req, NEW msg, GenerateResponse(r, req, msg).cache = "public"
    PROVE  Fits(GenerateResponse(r, req, msg), r, req)
<1> DEFINE json == Marshal(msg, 0)
           google == generateResponseGoogle(req, msg)
           ietf == generateResponseIETF(r, req, msg)
<1>1. ~req.isTailored
  BY PublicResponse
<1>2. google.type = "json" /\ google.id = NoId /\ google.vary = {"Accept"}
  BY DEF generateResponseGoogle, Response
<1>3. CASE responseType(r) = "json"
  <2>1. GenerateResponse(r, req, msg) = google
    BY <1>3 DEF GenerateResponse
  <2> HIDE DEF google
  <2> QED
    BY <1>1, <1>2, <1>3, <2>1 DEF Fits
<1>4. CASE responseType(r) = "dns-message"
  <2>1. GenerateResponse(r, req, msg) = ietf
    BY <1>4 DEF GenerateResponse
  <2>2. Packs(msg)
    <3> SUFFICES ASSUME ~Packs(msg) PROVE FALSE
      OBVIOUS
    <3>1. ietf = FormatError(500)
      BY DEF generateResponseIETF
    <3>2. FormatError(500).cache = "none"
      BY PublicResponse
    <3> HIDE DEF ietf
    <3> QED
      BY <2>1, <3>1, <3>2
  <2>3. ~patchFirefoxContentType(r)
    <3> SUFFICES ASSUME patchFirefoxContentType(r) PROVE FALSE
      OBVIOUS
    <3>1. ietf.cache = CacheControl(json, TRUE)
      BY <2>2 DEF generateResponseIETF, Response
    <3>2. CacheControl(json, TRUE) # "public"
      <4> HIDE DEF json
      <4> QED
        BY DEF CacheControl
    <3> HIDE DEF ietf, json
    <3> QED
      BY <2>1, <3>1, <3>2
  <2>4. ietf.type = "dns-message" /\ ietf.id = req.transactionID /\ ietf.vary = {"Accept"}
    BY <2>2, <2>3 DEF generateResponseIETF, Response
  <2> HIDE DEF ietf
  <2> QED
    BY <1>1, <1>4, <2>1, <2>4 DEF Fits
<1>5. CASE responseType(r) # "json" /\ responseType(r) # "dns-message"
  <2>1. GenerateResponse(r, req, msg) = Panic /\ Panic.cache = "none"
    BY <1>5 DEF GenerateResponse, Panic, Response
  <2>2. FALSE
    BY <2>1
  <2> QED
    BY <2>2
<1> QED
  BY <1>3, <1>4, <1>5

(* What the URL says of a GET. *)
LEMMA SameURL ==
    ASSUME NEW q \in Request, NEW r \in Request, IsGet(q), IsGet(r), URL(q) = URL(r)
    PROVE  /\ q.name = r.name /\ q.args = r.args /\ q.ecs = r.ecs
           /\ requestBinary(q) = requestBinary(r)
           /\ requestBinary(q) = "packet" => q.packet = r.packet
<1>1. q.body = "" /\ r.body = ""
  BY DEF IsGet
<1>2. /\ q.ct = r.ct /\ q.name = r.name /\ q.args = r.args /\ q.ecs = r.ecs /\ q.dns = r.dns
      /\ q.dns = "packet" => q.packet = r.packet
  <2>1. /\ URL(q).ct = URL(r).ct /\ URL(q).name = URL(r).name /\ URL(q).args = URL(r).args
        /\ URL(q).ecs = URL(r).ecs /\ URL(q).dns = URL(r).dns /\ URL(q).packet = URL(r).packet
    OBVIOUS
  <2> QED
    BY <2>1 DEF URL
<1>3. requestBinary(q) = q.dns /\ requestBinary(r) = r.dns
  BY <1>1 DEF requestBinary
<1> QED
  BY <1>2, <1>3

(* A GET of the same kind, with the URL of one that was accepted and not tailored, is accepted, *)
(* for the same subnet.                                                                         *)
LEMMA SameQuery ==
    ASSUME NEW q \in Request, NEW r \in Request, IsGet(q), IsGet(r), URL(q) = URL(r),
           contentType(q) = contentType(r), NEW id, Parsed(q, id).errcode = 0, ~Parsed(q, id).isTailored
    PROVE  LET own == ParseRequest(r, 0)
           IN  /\ own.errcode = 0
               /\ own.subnets = Parsed(q, id).subnets
               /\ own.transactionID = Parsed(q, id).transactionID
<1> DEFINE req == ParseRequest(q, id)
<1>1. /\ req.errcode = 0 /\ ~req.isTailored /\ Parsed(q, id).subnets = req.subnets
      /\ Parsed(q, id).transactionID = req.transactionID
  BY Patched
<1>2. /\ q.name = r.name /\ q.args = r.args /\ q.ecs = r.ecs
      /\ requestBinary(q) = requestBinary(r)
      /\ requestBinary(q) = "packet" => q.packet = r.packet
  BY SameURL
<1>3. CASE contentType(q) = "dns-json"
  <2>1. req = parseRequestGoogle(q, id) /\ ParseRequest(r, 0) = parseRequestGoogle(r, 0)
    <3>1. contentType(r) = "dns-json"
      BY <1>3
    <3>2. req = parseRequestGoogle(q, id)
      BY <1>3, Parsers, SMTT(20)
    <3> QED
      BY <3>1, <3>2, Parsers, SMTT(20)
  <2> HIDE DEF req
  <2>2. /\ q.name \notin {"", "bad"} /\ q.args /\ q.ecs.text # "bad" /\ q.ecs.text # "none"
        /\ req.subnets = SubnetArgument(q.ecs) /\ req.transactionID = 0
    BY <1>1, <2>1, GoogleAccepts, ZenonT(30)
  <2>3. ~(r.name \in {"", "bad"} \/ ~r.args \/ r.ecs.text = "bad") /\ r.ecs.text # "none"
    BY <1>2, <2>2
  <2>4. /\ parseRequestGoogle(r, 0).errcode = 0
        /\ parseRequestGoogle(r, 0).subnets = SubnetArgument(r.ecs)
        /\ parseRequestGoogle(r, 0).transactionID = 0
    BY <2>3 DEF parseRequestGoogle
  <2> QED
    BY <1>1, <1>2, <2>1, <2>2, <2>4
<1>4. CASE contentType(q) \in Wire
  <2>1. req = parseRequestIETF(q, id) /\ ParseRequest(r, 0) = parseRequestIETF(r, 0)
    <3>1. contentType(r) \in Wire
      BY <1>4
    <3>2. req = parseRequestIETF(q, id)
      BY <1>4, Parsers, SMTT(20)
    <3> QED
      BY <3>1, <3>2, Parsers, SMTT(20)
  <2> HIDE DEF req
  <2>2. /\ requestBinary(q) = "packet" /\ ~patchDNSCryptProxyReqID(q) /\ q.packet.ok
        /\ q.packet.subnets # <<>> /\ req.subnets = q.packet.subnets
    BY <1>1, <2>1, IETFAccepts, ZenonT(30)
  <2>3. req.transactionID = q.packet.id
    BY <2>1, <2>2 DEF parseRequestIETF
  <2>4. requestBinary(r) = "packet" /\ r.packet = q.packet
    BY <1>2, <2>2
  <2>5. ~patchDNSCryptProxyReqID(r)
    BY <2>2, <2>4, CacheAssumption DEF patchDNSCryptProxyReqID
  <2>6. /\ parseRequestIETF(r, 0).errcode = 0
        /\ parseRequestIETF(r, 0).subnets = r.packet.subnets
        /\ parseRequestIETF(r, 0).transactionID = r.packet.id
    BY <2>2, <2>4, <2>5 DEF parseRequestIETF
  <2> QED
    BY <1>1, <2>1, <2>2, <2>3, <2>4, <2>6
<1>5. CASE contentType(q) # "dns-json" /\ contentType(q) \notin Wire
  BY <1>1, <1>5, Parsers DEF Refused
<1> QED
  BY <1>3, <1>4, <1>5

(* What the cache answers fits the request. *)
LEMMA ServedFits ==
    ASSUME NEW cached, Served(cached), contentType(cached.entry.r) = contentType(cached.r)
    PROVE  LET r == cached.r
               own == ParseRequest(r, 0)
               given == cached.entry.response
           IN  /\ own.errcode = 0
               /\ own.subnets = cached.entry.req.subnets
               /\ given.id = IF responseType(r) = "json" THEN NoId ELSE own.transactionID
               /\ given.type = responseType(r)
<1> DEFINE entry == cached.entry
           q == entry.r
           r == cached.r
<1>1. PICK id \in FreshId : entry.req = Parsed(q, id)
  BY DEF Served, Stored
<1>2. /\ q \in Request /\ r \in Request /\ IsGet(q) /\ IsGet(r) /\ URL(q) = URL(r)
      /\ Parsed(q, id).errcode = 0 /\ ~Parsed(q, id).isTailored /\ q.accept = r.accept
      /\ contentType(q) = contentType(r) /\ Fits(entry.response, q, entry.req)
  BY <1>1 DEF Served, Stored, Selects, Fits
<1> HIDE DEF entry, q, r
<1>3. /\ ParseRequest(r, 0).errcode = 0
      /\ ParseRequest(r, 0).subnets = Parsed(q, id).subnets
      /\ ParseRequest(r, 0).transactionID = Parsed(q, id).transactionID
  BY <1>2, SameQuery
<1>4. responseType(q) = responseType(r)
  BY <1>2, Zenon DEF responseType
<1>5. /\ entry.response.type = responseType(r)
      /\ entry.response.id = IF responseType(r) = "json" THEN NoId ELSE entry.req.transactionID
  BY <1>2, <1>4 DEF Fits
<1> QED
  BY <1>1, <1>3, <1>5 DEF entry, r

(* A step that leaves the cache alone. *)
LEMMA ServerStepInv ==
    ASSUME CInv, [Next]_vars, UNCHANGED cacheVars
    PROVE  CInv'
<1>1. IInv'
  BY StepInv DEF CInv
<1>2. store' = store /\ hit' = hit
  BY DEF cacheVars
<1> QED
  BY <1>1, <1>2 DEF CInv

(* The cache answers. *)
LEMMA HitInv ==
    ASSUME CInv, NEW h \in Handler, Hit(h)
    PROVE  CInv'
<1>1. PICK r \in Request, entry \in store :
          /\ IsGet(r) /\ Selects(entry, r)
          /\ hit' = [hit EXCEPT ![h] = {[r |-> r, entry |-> entry]}]
  BY DEF Hit
<1>2. store' = store /\ IInv'
  BY StepInv DEF Hit, CInv
<1>3. Served([r |-> r, entry |-> entry])
  BY <1>1 DEF CInv, Served
<1>4. DOMAIN hit' = Handler
  BY <1>1 DEF CInv
<1>5. ASSUME NEW g \in Handler, NEW cached \in hit'[g]
      PROVE  Served(cached)
  <2>1. CASE g = h
    <3>1. cached = [r |-> r, entry |-> entry]
      BY <1>1, <1>5, <2>1 DEF CInv
    <3> QED
      BY <1>3, <3>1
  <2>2. CASE g # h
    <3>1. cached \in hit[g]
      BY <1>1, <1>5, <2>2 DEF CInv
    <3> QED
      BY <3>1 DEF CInv
  <2> QED
    BY <2>1, <2>2
<1> QED
  BY <1>2, <1>4, <1>5 DEF CInv

(* A response is kept, or not. *)
LEMMA KeepInv ==
    ASSUME CInv, NEW h \in Handler, Keep(h)
    PROVE  CInv'
<1> DEFINE r == proc[h].r
           req == proc[h].req
           response == GenerateResponse(r, req, postLookup(proc[h].response, req.ads))
           entry == [r |-> r, req |-> req, response |-> Last(out'[h])]
<1>1. /\ Respond(h) /\ hit' = hit
      /\ \/ IsGet(entry.r) /\ entry.response.cache = "public" /\ store' = {entry}
         \/ store' = store
  BY DEF Keep
<1>2. IInv' /\ Shape /\ HandlerInv(h)
  <2>1. Next
    BY <1>1 DEF Next
  <2> QED
    BY <2>1, StepInv DEF CInv, IInv
<1>3. ASSUME IsGet(entry.r), entry.response.cache = "public"
      PROVE  Stored(entry)
  <2>1. /\ r \in Request /\ (\E id \in FreshId : req = Parsed(r, id)) /\ req.errcode = 0
        /\ out[h] = <<>>
    BY <1>1, <1>2 DEF HandlerInv, Reached, Busy, Respond
  <2>2. out'[h] = Append(<<>>, response)
    BY <1>1, <1>2, <2>1 DEF Respond, Write, Shape
  <2> HIDE DEF response
  <2>3. Last(out'[h]) = response
    BY <2>2, AppendToEmpty DEF Last
  <2>4. entry.r = r /\ entry.req = req /\ entry.response = response
    BY <2>3
  <2>5. Fits(response, r, req)
    BY <1>3, <2>4, PublicFits DEF response
  <2> HIDE DEF entry, r, req
  <2> QED
    BY <1>3, <2>1, <2>4, <2>5 DEF Stored
<1>4. \A e \in store' : Stored(e)
  <2> HIDE DEF entry
  <2> QED
    BY <1>1, <1>3 DEF CInv
<1> QED
  BY <1>1, <1>2, <1>4 DEF CInv

(* The handler is free, whoever has answered. *)
LEMMA LeaveInv ==
    ASSUME CInv, NEW h \in Handler, Leave(h)
    PROVE  CInv'
<1>1. CASE Return(h) /\ UNCHANGED cacheVars
  BY <1>1, ServerStepInv DEF Next
<1>2. CASE hit' = [hit EXCEPT ![h] = {}] /\ UNCHANGED <<vars, store>>
  <2>1. IInv' /\ store' = store
    BY <1>2, StepInv DEF CInv
  <2>2. DOMAIN hit' = Handler /\ \A g \in Handler : hit'[g] \subseteq hit[g]
    BY <1>2 DEF CInv
  <2> QED
    BY <2>1, <2>2 DEF CInv
<1> QED
  BY <1>1, <1>2 DEF Leave

(* What is in the cache, and what has come from it, are public answers to the same URL. *)
THEOREM CachedInductive == CachedSpec => []CInv
<1>1. CachedInit => CInv
  BY InitInv DEF CachedInit, CInv
<1>2. CInv /\ [CachedNext]_<<vars, cacheVars>> => CInv'
  <2> SUFFICES ASSUME CInv, [CachedNext]_<<vars, cacheVars>>
               PROVE  CInv'
    OBVIOUS
  <2>1. ASSUME NEW h \in Handler, Miss(h) PROVE CInv'
    BY <2>1, ServerStepInv DEF Miss, Next
  <2>2. CASE UNCHANGED <<vars, cacheVars>>
    BY <2>2, ServerStepInv
  <2> QED
    BY <2>1, <2>2, HitInv, KeepInv, LeaveInv DEF CachedNext
<1> QED
  BY <1>1, <1>2, PTL DEF CachedSpec

(* For any requests: a cache that heeds generateResponse's Cache-Control and Vary gives a client  *)
(* the Id of its own packet, the type that handlerFunc negotiates for it, and an answer for the   *)
(* subnet that its own query would have had, if its Content-Type makes the request of the same    *)
(* kind.  What patchFirefoxContentType would have made of the type is not part of this.           *)
THEOREM CachedAnswersFit == CachedSpec => []CachedAnswerFits
<1>1. CInv => CachedAnswerFits
  <2> SUFFICES ASSUME CInv, NEW h \in Handler, NEW cached \in hit[h],
                      contentType(cached.entry.r) = contentType(cached.r)
               PROVE  LET r == cached.r
                          own == ParseRequest(r, 0)
                          given == cached.entry.response
                      IN  /\ own.errcode = 0
                          /\ own.subnets = cached.entry.req.subnets
                          /\ given.id = IF responseType(r) = "json" THEN NoId ELSE own.transactionID
                          /\ given.type = responseType(r)
    BY DEF CachedAnswerFits
  <2>1. Served(cached)
    BY DEF CInv
  <2> QED
    BY <2>1, ServedFits, Zenon
<1> QED
  BY <1>1, CachedInductive, PTL
===============================================================================
