------------------------------ MODULE DNSMessage ------------------------------
(***************************************************************************)
(* DNS messages as github.com/miekg/dns gives them to doh-server and       *)
(* doh-client.  Of a message its Id, Rcode, TC bit, sections and whether   *)
(* it repeats the question matter; of a record its name, type and TTL, and *)
(* whether its text can be read back (text): the type has a name, and name *)
(* and data have none of the characters that unmarshalRR refuses.  An OPT  *)
(* record has the high bits of the Rcode (ext), a UDP size and client      *)
(* subnets; a message has at most one.                                     *)
(***************************************************************************)
EXTENDS GlobalIP, SequencesExt

NoError == 0
ServFail == 2

Subnet(family, addr, mask, scope) ==
    [family |-> family, addr |-> addr, mask |-> mask, scope |-> scope]

(* EDNS0_SUBNET.pack accepts the option. *)
SubnetPacks(s) ==
    \/ s.family = 0 /\ s.mask = 0
    \/ s.family = 1 /\ s.mask <= 32 /\ To4(s.addr) # NoIP
    \/ s.family = 2 /\ s.mask <= 128 /\ Len(s.addr) = 16

RR(name, ttl) ==
    [name |-> name, type |-> "A", ttl |-> ttl, text |-> TRUE,
     ext |-> 0, size |-> 0, subnets |-> <<>>]

OPT(ext, size, subnets) ==
    [name |-> ".", type |-> "OPT", ttl |-> 0, text |-> TRUE,
     ext |-> ext, size |-> size, subnets |-> subnets]

IsOPT(rr) == rr.type = "OPT"

NotOPT(rr) == rr.type # "OPT"

(* The options of the message's OPT record that name a client subnet. *)
Subnets(msg) ==
    LET opts == SelectSeq(msg.extra, IsOPT)
    IN  IF opts = <<>> THEN <<>> ELSE opts[1].subnets

(* Pack succeeds. *)
Packs(msg) == \A i \in DOMAIN Subnets(msg) : SubnetPacks(Subnets(msg)[i])

(* Unpack of the bytes of msg returns ErrTruncated: not for a header alone, and not if other *)
(* bytes follow the message.                                                                 *)
ErrTruncated(msg, trailing) ==
    /\ msg.tc
    /\ ~trailing
    /\ msg.question \/ msg.answer \o msg.ns \o msg.extra # <<>>
===============================================================================
