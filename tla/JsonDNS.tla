------------------------------- MODULE JsonDNS -------------------------------
(***************************************************************************)
(* The conversion between DNS messages and JSON (json-dns/marshal.go,      *)
(* unmarshal.go, error.go).  Times are in ticks, Second of them a second;  *)
(* JSON has whole seconds only.                                            *)
(***************************************************************************)
EXTENDS DNSMessage

CONSTANTS
    Second,   \* ticks in a second
    MaxTTL    \* the largest TTL, 0xffffffff in the code

ASSUME JsonAssumption == Second \in Nat \ {0} /\ MaxTTL \in Nat

-------------------------------------------------------------------------------
(* Marshal *)

(* The time as it is written: whole seconds. *)
Written(t) == t - (t % Second)

marshalRR(rr, now) ==
    [name |-> rr.name, ttl |-> rr.ttl, expires |-> Written(now + rr.ttl * Second), text |-> rr.text]

NoTTL == [have |-> FALSE, ttl |-> 0, expires |-> 0]

(* Mutant: the comparison is the wrong way round. *)
Longer(least, rr) ==
    IF ~least.have \/ rr.ttl > least.ttl
      THEN [have |-> TRUE, ttl |-> rr.ttl, expires |-> rr.expires]
      ELSE least

Shorter(least, rr) ==
    IF ~least.have \/ rr.ttl < least.ttl
      THEN [have |-> TRUE, ttl |-> rr.ttl, expires |-> rr.expires]
      ELSE least

NoSubnet == [addr |-> NoIP, scope |-> 255]

(* The text of a client subnet: the address, an IPv4 one in its short form, and the scope. *)
SubnetText(s) ==
    [addr |-> CASE s.addr = NoIP -> <<0, 0, 0, 0>>
                [] To4(s.addr) # NoIP -> To4(s.addr)
                [] OTHER -> s.addr,
     scope |-> s.scope]

(* Mutant: the high bits of the Rcode are left out. *)
StatusOfHeader(msg) == msg.rcode

(* Rcode has 4 bits and an OPT record 8 more. *)
Status(msg) ==
    LET opts == SelectSeq(msg.extra, IsOPT)
    IN  IF opts = <<>> THEN msg.rcode ELSE opts[1].ext * 16 + msg.rcode

Marshal(msg, now) ==
    LET rrs(section) == [i \in DOMAIN section |-> marshalRR(section[i], now)]
        additional == rrs(SelectSeq(msg.extra, NotOPT))
    IN  [status |-> Status(msg), tc |-> msg.tc,
         answer |-> rrs(msg.answer), authority |-> rrs(msg.ns), additional |-> additional,
         subnet |-> IF Subnets(msg) = <<>> THEN NoSubnet ELSE SubnetText(Last(Subnets(msg))),
         least |-> FoldLeft(Shorter, NoTTL, rrs(msg.answer) \o rrs(msg.ns) \o additional)]

(* The body of FormatError. *)
ErrorBody ==
    [status |-> ServFail, tc |-> FALSE, answer |-> <<>>, authority |-> <<>>, additional |-> <<>>,
     subnet |-> NoSubnet, least |-> NoTTL]

-------------------------------------------------------------------------------
(* Unmarshal *)

(* Expires is absent, or is not a time. *)
NoTime == -1
BadTime == -2

(* Division of durations rounds toward zero. *)
Seconds(d) == IF d >= 0 THEN d \div Second ELSE -((-d) \div Second)

(* Mutant: an Expires out of range is used as well. *)
TTLUnchecked(rr, now) ==
    IF rr.expires = NoTime THEN rr.ttl ELSE Seconds(rr.expires - now)

(* Mutant: > for >=, so that a record about to expire gets its relative TTL back. *)
TTLPositive(rr, now) ==
    LET left == Seconds(rr.expires - now)
    IN  IF rr.expires # NoTime /\ left \in 1..MaxTTL THEN left ELSE rr.ttl

(* The TTL of a record: what is left until Expires if that is not past or too far away. *)
TTL(rr, now) ==
    LET left == Seconds(rr.expires - now)
    IN  IF rr.expires # NoTime /\ left \in 0..MaxTTL THEN left ELSE rr.ttl

Readable(rr) == rr.text /\ rr.expires # BadTime

unmarshalRR(rr, now) == RR(rr.name, TTL(rr, now))

(* The records that can be read; the others are logged and left out. *)
unmarshalRRs(rrs, now) ==
    LET good == SelectSeq(rrs, Readable)
    IN  [i \in DOMAIN good |-> unmarshalRR(good[i], now)]


(* The client subnet option of the reply. An address or scope that cannot be parsed is that *)
(* of NoSubnet.                                                                             *)
ReplySubnet(subnet, netmask) ==
    LET v4 == To4(subnet.addr) # NoIP
    IN  IF subnet.addr = NoIP THEN <<>>
        ELSE <<Subnet(IF v4 THEN 1 ELSE 2, IF v4 THEN To4(subnet.addr) ELSE subnet.addr,
                      IF netmask # 255 THEN netmask ELSE IF v4 THEN 24 ELSE 56, subnet.scope)>>

(* The reply has the Id of msg, which PrepareReply took from the query. *)
Unmarshal(msg, resp, udpSize, netmask, now) ==
    [id |-> msg.id, tc |-> resp.tc, rcode |-> resp.status % 16, question |-> msg.question,
     answer |-> unmarshalRRs(resp.answer, now),
     ns |-> unmarshalRRs(resp.authority, now),
     extra |-> <<OPT((resp.status \div 16) % 256, IF udpSize >= 512 THEN udpSize ELSE 512,
                     ReplySubnet(resp.subnet, netmask))>>
               \o unmarshalRRs(resp.additional, now)]

PrepareReply(id) ==
    [id |-> id, tc |-> FALSE, rcode |-> ServFail, question |-> TRUE,
     answer |-> <<>>, ns |-> <<>>, extra |-> <<>>]
===============================================================================
