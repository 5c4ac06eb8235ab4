----------------------------- MODULE CachedServer -----------------------------
(***************************************************************************)
(* doh-server behind the shared HTTP cache of the Readme's architecture    *)
(* ("HTTP cache server / Content Delivery Network").  The cache is         *)
(* external, as RFC 7234 has it: it may answer a GET with a response that  *)
(* the server has called public, if the URL is the same and the headers    *)
(* that its Vary names are; it may also pass the request on.  What it      *)
(* keeps is fresh: time does not pass here.  An answer comes from one      *)
(* stored response, so a store of one at a time shows all of them.         *)
(***************************************************************************)
EXTENDS DohServer

VARIABLES
    store,   \* the response the cache keeps, if any, with the request it answered
    hit      \* per handler that a request need not reach: the request and the entry that answers it

cacheVars == <<store, hit>>

CachedInit ==
    /\ Init
    /\ store = {}
    /\ hit = [h \in Handler |-> {}]

(* A request without a body, and what its URL says. *)
IsGet(r) == r.body = ""

URL(r) == [ct |-> r.ct, name |-> r.name, args |-> r.args, ecs |-> r.ecs, dns |-> r.dns,
           packet |-> IF r.dns = "packet" THEN <<r.packet>> ELSE <<>>]

(* The packet that patchDNSCryptProxyReqID compares with has no subnet in it. *)
ASSUME CacheAssumption == \A r \in Request : r.packet.probe => r.packet.subnets = <<>>

(* The stored response may answer r. *)
Selects(entry, r) ==
    /\ URL(entry.r) = URL(r)
    /\ "Accept" \in entry.response.vary => entry.r.accept = r.accept
    /\ "User-Agent" \in entry.response.vary => entry.r.agent = r.agent

(* The cache answers, and the handler is not called. *)
Hit(h) ==
    /\ proc[h].pc = "idle" /\ hit[h] = {}
    /\ \E r \in Request, entry \in store :
          /\ IsGet(r)
          /\ Selects(entry, r)
          /\ hit' = [hit EXCEPT ![h] = {[r |-> r, entry |-> entry]}]
    /\ UNCHANGED <<vars, store>>

(* It passes the request on. *)
Miss(h) ==
    /\ hit[h] = {}
    /\ handlerFunc(h) \/ SaveDomain(h) \/ doDNSQuery(h)
    /\ UNCHANGED cacheVars

(* The response comes back through the cache, which may keep it if it is public. *)
Keep(h) ==
    /\ Respond(h)
    /\ LET entry == [r |-> proc[h].r, req |-> proc[h].req, response |-> Last(out'[h])]
       IN  \/ IsGet(entry.r) /\ entry.response.cache = "public" /\ store' = {entry}
           \/ UNCHANGED store
    /\ UNCHANGED hit

Leave(h) ==
    \/ Return(h) /\ UNCHANGED cacheVars
    \/ hit[h] # {} /\ hit' = [hit EXCEPT ![h] = {}] /\ UNCHANGED <<vars, store>>

CachedNext == \E h \in Handler : Hit(h) \/ Miss(h) \/ Keep(h) \/ Leave(h)

CachedSpec == CachedInit /\ [][CachedNext]_<<vars, cacheVars>>
-------------------------------------------------------------------------------
(***************************************************************************)
(* A cached answer is one the server could have given to this client: the  *)
(* server would have accepted its request, and asked for the subnet that   *)
(* the answer is for, never that of the client it was made for; the answer *)
(* has the Id of the client's own packet, and the type that responseType   *)
(* negotiates for it.  Two headers that the answer depends on are not in   *)
(* Vary.  Content-Type may make of the same URL another kind of request,   *)
(* so this is said of requests of the same kind; User-Agent may make       *)
(* patchFirefoxContentType change the type, and Firefox 61-62 gets the     *)
(* unchanged dns-message from a cache.                                     *)
(***************************************************************************)
CachedAnswerFits ==
    \A h \in Handler : \A cached \in hit[h] :
        LET r == cached.r
            own == ParseRequest(r, 0)
            given == cached.entry.response
        IN  contentType(cached.entry.r) = contentType(r) =>
                /\ own.errcode = 0
                /\ own.subnets = cached.entry.req.subnets
                /\ given.id = IF responseType(r) = "json" THEN NoId ELSE own.transactionID
                /\ given.type = responseType(r)

(***************************************************************************)
(* Readme, "List of domains which will be denied when request will have    *)
(* ads filtering on": whoever asks with X-Filter-Categories: 1 gets no     *)
(* record of the ads list.                                                 *)
(***************************************************************************)
AdsAreDenied ==
    LET Clean(response) ==
            \A rr \in ToSet(response.answer) \cup ToSet(response.extra) : rr.name \notin Lists["adslist"]
    IN  \A h \in Handler :
            /\ Done(h) /\ proc[h].r.ads => Clean(Given(h))
            /\ \A cached \in hit[h] : cached.r.ads => Clean(cached.entry.response)
===============================================================================
