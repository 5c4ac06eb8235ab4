------------------------------ MODULE AnswerPath ------------------------------
(***************************************************************************)
(* The way of an answer from doh-server to the reply that doh-client       *)
(* gives: generateResponseGoogle or generateResponseIETF of the server,    *)
(* time in transit or in an HTTP cache, parseResponseGoogle or             *)
(* parseResponseIETF of the client (doh-client/google.go, ietf.go).  Both  *)
(* ends have the same clock.  An answer may also come from another server. *)
(***************************************************************************)
EXTENDS JsonDNS

CONSTANTS
    Message,   \* what doh-server may have to send
    Foreign,   \* HTTP responses of other servers
    Netmask,   \* what findClientIP of the client may return as prefix length, 255 for none
    UdpSize,   \* what the querier announced
    Id,        \* of the query
    MaxTime    \* bound of the clock

ASSUME PathAssumption ==
    UdpSize \in Nat /\ Id \in Nat /\ MaxTime \in Nat /\ Netmask \subseteq (0..128) \cup {255}

VARIABLES
    now,     \* the clock
    phase,   \* "ask", "transit" or "done"
    sent,    \* the answer, when and to a query with which prefix length it was sent, and
             \* whether doh-server sent it
    http,    \* the HTTP response
    reply    \* what the querier got

vars == <<now, phase, sent, http, reply>>

NoMessage == PrepareReply(0)

Http(type, time, json, wire) ==
    [type |-> type, date |-> time, modified |-> time, json |-> json, wire |-> wire]

NothingSent == [own |-> FALSE, at |-> 0, mask |-> 255, msg |-> NoMessage]

Init ==
    /\ now = 0
    /\ phase = "ask"
    /\ sent = NothingSent
    /\ http = Http("none", 0, ErrorBody, NoMessage)
    /\ reply = NoMessage

(* A query is answered; its prefix length does not depend on the family that the answer has. *)
Send(own, msg, response) ==
    /\ phase = "ask"
    /\ phase' = "transit"
    /\ \E mask \in Netmask : sent' = [own |-> own, at |-> now, mask |-> mask, msg |-> msg]
    /\ http' = response
    /\ UNCHANGED <<now, reply>>

-------------------------------------------------------------------------------
(* doh-server *)

generateResponseGoogle ==
    \E msg \in Message :
        Send(TRUE, msg, Http("json", Written(now), Marshal(msg, now), NoMessage))

(* Also what is sent for a request that fails. *)
FormatError == Send(TRUE, NoMessage, Http("json", NoTime, ErrorBody, NoMessage))

(* A message that cannot be packed becomes an error. *)
generateResponseIETF ==
    \E msg \in Message :
        IF Packs(msg)
          THEN Send(TRUE, msg, Http("message", Written(now), ErrorBody, msg))
          ELSE FormatError

(* Another server answers. *)
ForeignResponse == \E response \in Foreign : Send(FALSE, NoMessage, response)

-------------------------------------------------------------------------------
(* In transit *)

Tick ==
    /\ now < MaxTime
    /\ phase # "done"
    /\ now' = now + 1
    /\ UNCHANGED <<phase, sent, http, reply>>

(* A cache hands the response on with a Date of its own. *)
Redate ==
    /\ phase = "transit"
    /\ http' = [http EXCEPT !.date = Written(now)]
    /\ UNCHANGED <<now, phase, sent, reply>>

-------------------------------------------------------------------------------
(* doh-client *)

Receive(full) ==
    /\ phase = "transit"
    /\ phase' = "done"
    /\ reply' = IF Packs(full) THEN full ELSE PrepareReply(Id)
    /\ UNCHANGED <<now, sent, http>>

parseResponseGoogle ==
    /\ http.type = "json"
    /\ Receive(Unmarshal(PrepareReply(Id), http.json, UdpSize, sent.mask, now))

(* The age of the response by its headers; a missing one stands for no age. *)
timeDelta ==
    LET date == IF http.date = NoTime THEN now ELSE http.date
        modified == IF http.modified = NoTime THEN date ELSE http.modified
    IN  IF date < modified THEN 0 ELSE date - modified

fixRecordTTL(rr, delta) ==
    LET newTTL == rr.ttl * Second - delta
    IN  [rr EXCEPT !.ttl = IF newTTL > 0 THEN newTTL \div Second ELSE 0]

(* The records of a section but for OPT get the age taken off. *)
Aged(section, delta) ==
    [i \in DOMAIN section |-> IF IsOPT(section[i]) THEN section[i] ELSE fixRecordTTL(section[i], delta)]

(* A message that is cut off cannot be unpacked. *)
parseResponseIETF ==
    LET m == http.wire
    IN  /\ http.type = "message"
        /\ Receive(IF ErrTruncated(m, FALSE)
                     THEN PrepareReply(Id)
                     ELSE [m EXCEPT !.id = Id,
                                    !.answer = Aged(@, timeDelta),
                                    !.ns = Aged(@, timeDelta),
                                    !.extra = Aged(@, timeDelta)])

(* The next query. *)
Again ==
    /\ phase = "done"
    /\ phase' = "ask"
    /\ sent' = NothingSent
    /\ http' = Http("none", 0, ErrorBody, NoMessage)
    /\ reply' = NoMessage
    /\ UNCHANGED now

Next ==
    \/ generateResponseGoogle \/ generateResponseIETF \/ FormatError \/ ForeignResponse
    \/ Tick \/ Redate
    \/ parseResponseGoogle \/ parseResponseIETF
    \/ Again

Spec == Init /\ [][Next]_vars
-------------------------------------------------------------------------------
Textual(rr) == rr.text

(* The records of a section of the answer that reach the querier through the protocol used. *)
Passed(section) == IF http.type = "json" THEN SelectSeq(section, Textual) ELSE section

(* The records of the reply and what they were in the answer, OPT left out. *)
Given == reply.answer \o reply.ns \o SelectSeq(reply.extra, NotOPT)

Original == Passed(sent.msg.answer) \o Passed(sent.msg.ns) \o Passed(SelectSeq(sent.msg.extra, NotOPT))

(* The high bits of an Rcode. *)
Extended(msg) == {opt.ext : opt \in ToSet(SelectSeq(msg.extra, IsOPT))} \ {0}

(* A prefix length of the family; family 0 stands for 0.0.0.0. *)
PrefixFits(family, prefix) == prefix <= IF family = 2 THEN 128 ELSE 32

(* The prefix length that a reply with a subnet of the family has. *)
ReplyPrefix(family) ==
    IF sent.mask # 255 THEN sent.mask ELSE IF family = 2 THEN 56 ELSE 24

(* The subnet of a JSON answer can be given with the prefix length of the query. *)
SubnetFits ==
    Subnets(sent.msg) # <<>> =>
        LET family == Last(Subnets(sent.msg)).family IN PrefixFits(family, ReplyPrefix(family))

(* doh-server sent the answer, and the client could make a reply of it. *)
Answered ==
    /\ phase = "done"
    /\ sent.own
    /\ IF http.type = "json" THEN SubnetFits ELSE ~ErrTruncated(sent.msg, FALSE)

(***************************************************************************)
(* Every TTL given is one of 32 bits, whatever Expires another server      *)
(* wrote.                                                                  *)
(***************************************************************************)
TypeOK ==
    /\ now \in 0..MaxTime
    /\ phase \in {"ask", "transit", "done"}
    /\ \A i \in DOMAIN Given : Given[i].ttl \in 0..MaxTTL
    /\ reply.rcode \in 0..15

(***************************************************************************)
(* The querier gets the answer doh-server had: the same Rcode with its     *)
(* EDNS bits, the query's Id, and in each section the same records in the  *)
(* same order, but for those whose JSON text cannot be read back.  An      *)
(* error of the server reaches it as SERVFAIL, in either protocol.         *)
(***************************************************************************)
AnswerSurvives ==
    Answered =>
        /\ reply.id = Id
        /\ reply.tc = sent.msg.tc
        /\ reply.rcode = sent.msg.rcode
        /\ Extended(reply) = Extended(sent.msg)
        /\ \A s \in {"answer", "ns"} :
              [i \in DOMAIN reply[s] |-> reply[s][i].name]
                  = [i \in DOMAIN Passed(sent.msg[s]) |-> Passed(sent.msg[s])[i].name]
        /\ [i \in DOMAIN Given |-> Given[i].name] = [i \in DOMAIN Original |-> Original[i].name]

(***************************************************************************)
(* No record outlives its TTL.  A JSON answer used within its max-age      *)
(* gives every record at most the time it has left, and less than two      *)
(* seconds under it, since both ends round down.  A wire answer gives what *)
(* was left at the Date of the response, rounded down.                     *)
(***************************************************************************)
TTLIsWhatIsLeft ==
    Answered =>
        \A i \in DOMAIN Given :
            LET left(at) == Original[i].ttl * Second - (at - sent.at)
                given == Given[i].ttl * Second
            IN  /\ http.type = "json" /\ now <= sent.at + http.json.least.ttl * Second
                   => given <= left(now) /\ left(now) < given + 2 * Second
                /\ http.type = "message" /\ left(http.date) >= 0
                   => given <= left(http.date) /\ left(http.date) < given + Second

(***************************************************************************)
(* The max-age and Expires a response is sent with are those of the record *)
(* that expires first, in whatever section it is; OPT, whose TTL is none,  *)
(* does not count.                                                         *)
(***************************************************************************)
CachedUntilFirstExpiry ==
    LET json == Marshal(sent.msg, sent.at)
        ttls == {rr.ttl : rr \in ToSet(SelectSeq(sent.msg.answer \o sent.msg.ns \o sent.msg.extra, NotOPT))}
    IN  phase # "ask" /\ sent.own =>
            /\ json.least.have <=> ttls # {}
            /\ ttls # {} => /\ json.least.ttl \in ttls
                            /\ \A t \in ttls : json.least.ttl <= t
                            /\ json.least.expires = Written(sent.at + json.least.ttl * Second)


(***************************************************************************)
(* Readme, on the JSON protocol: "absolute expire time is preferred to     *)
(* relative TTL value".  A record with a time of expiry is not given time  *)
(* beyond it.                                                              *)
(***************************************************************************)
AbsoluteTimeIsPreferred ==
    Answered /\ http.type = "json" =>
        \A i \in DOMAIN Given :
            LET left == Original[i].ttl * Second - (now - sent.at)
            IN  Given[i].ttl * Second <= IF left > 0 THEN left ELSE 0
===============================================================================
