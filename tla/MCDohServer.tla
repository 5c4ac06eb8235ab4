----------------------------- MODULE MCDohServer -----------------------------
(* DohServer for TLC: requests of both protocols, with what each parser refuses, own and given *)
(* client subnets, the clients the handler knows by name, clients that ask the same in          *)
(* different ways, and clients at and next to both ends of every block of local addresses.      *)
EXTENDS CachedServer

Us == <<8, 8, 8, 8>>
Them == V6(<<38, 6>>)
Home == <<192, 168, 1, 1>>

NoECS == [text |-> "none", addr |-> NoIP, mask |-> 0]

ECS(text, addr, mask) == [text |-> text, addr |-> addr, mask |-> mask]

Packet ==
    [id |-> 7, ok |-> TRUE, probe |-> FALSE, questions |-> <<"good">>, query |-> TRUE, rd |-> TRUE,
     subnets |-> <<>>]

Tailored(s) == [Packet EXCEPT !.subnets = s]

Type(t) == [type |-> t, space |-> FALSE]

Spaced(t) == [type |-> t, space |-> TRUE]

Base ==
    [ctype |-> "", ct |-> "", name |-> "", args |-> TRUE, ecs |-> NoECS, dns |-> "", body |-> "",
     packet |-> Packet, accept |-> <<>>, ads |-> FALSE, dnt |-> FALSE, agent |-> "other",
     forwarded |-> <<>>, realip |-> NoIP, remote |-> Home]

Get == [Base EXCEPT !.dns = "packet"]
Post == [Base EXCEPT !.ctype = "dns-message", !.body = "packet"]
Google == [Base EXCEPT !.name = "good"]

GoogleRequests ==
    {Google,
     [Google EXCEPT !.name = "bad"],
     [Google EXCEPT !.args = FALSE],
     [Google EXCEPT !.name = ".", !.forwarded = <<NoIP, Home, Them>>, !.dnt = TRUE],
     [Google EXCEPT !.ecs = ECS("bad", NoIP, 0)],
     [Google EXCEPT !.ecs = ECS("plain", Us, 0), !.remote = Us],
     [Google EXCEPT !.ecs = ECS("masked", Us, 40)],
     [Google EXCEPT !.ecs = ECS("masked", Them, 40), !.ads = TRUE],
     [Google EXCEPT !.accept = <<Type("other"), Type("dns-udpwireformat"), Type("json")>>, !.realip = Us],
     [Google EXCEPT !.ct = "dns-json", !.name = ""]}

IETFRequests ==
    {Get, Post,
     [Get EXCEPT !.packet = Tailored(<<Subnet(1, Us, 32, 0)>>), !.dnt = TRUE],
     [Get EXCEPT !.packet = Tailored(<<Subnet(1, Us, 32, 0)>>), !.agent = "Firefox",
                 !.accept = <<Type("dns-udpwireformat")>>],
     [Get EXCEPT !.accept = <<Spaced("json"), Type("dns-message")>>, !.remote = Us],
     [Get EXCEPT !.accept = <<Type("json"), Type("dns-message")>>, !.remote = Them],
     [Get EXCEPT !.accept = <<Spaced("dns-message")>>, !.packet.rd = FALSE],
     [Get EXCEPT !.dns = "bad"],
     [Get EXCEPT !.packet.ok = FALSE],
     [Get EXCEPT !.packet.questions = <<>>],
     [Get EXCEPT !.packet.questions = <<"good", ".">>],
     [Get EXCEPT !.packet.query = FALSE],
     [Get EXCEPT !.agent = "dnscrypt-proxy", !.packet.probe = TRUE, !.packet.questions = <<".">>],
     [Get EXCEPT !.packet.probe = TRUE, !.packet.questions = <<".">>],
     [Post EXCEPT !.ctype = "dns-udpwireformat", !.ads = TRUE],
     [Post EXCEPT !.body = "unreadable"],
     [Post EXCEPT !.ctype = "other", !.ct = "dns-message"],
     [Post EXCEPT !.ctype = "other"],
     Base}

Known7 == Tailored(<<Subnet(1, Us, 32, 0)>>)

(* The same URL as another request, from elsewhere or with other headers. *)
CachedRequests ==
    {[Get EXCEPT !.packet = Known7],
     [Get EXCEPT !.packet = Known7, !.ads = TRUE, !.remote = Us],
     [Get EXCEPT !.packet = Known7, !.accept = <<Type("json")>>],
     [Get EXCEPT !.packet = Known7, !.accept = <<Type("dns-udpwireformat")>>],
     [Get EXCEPT !.packet = Known7, !.ctype = "other"],
     [Get EXCEPT !.packet = Known7, !.ctype = "dns-json"],
     [Get EXCEPT !.packet = Known7, !.ctype = "dns-udpwireformat", !.ct = "dns-message"],
     [Get EXCEPT !.packet = Known7, !.ctype = "other", !.ct = "dns-message"],
     [Get EXCEPT !.packet = [Known7 EXCEPT !.id = 8]],
     [Google EXCEPT !.ecs = ECS("masked", Them, 40), !.accept = <<Type("dns-message")>>]}

(* The address after x; the one after the last is the first. *)
After(x) ==
    [i \in DOMAIN x |-> IF \A j \in i + 1..Len(x) : x[j] = 255 THEN (x[i] + 1) % 256 ELSE x[i]]

Before(x) ==
    [i \in DOMAIN x |-> IF \A j \in i + 1..Len(x) : x[j] = 0 THEN (x[i] + 255) % 256 ELSE x[i]]

In6(x) == [i \in 1..16 |-> IF i <= 10 THEN 0 ELSE IF i <= 12 THEN 255 ELSE x[i - 12]]

Ends == {b.first : b \in LocalBlocks} \cup {b.last : b \in LocalBlocks}

Near == Ends \cup {After(x) : x \in Ends} \cup {Before(x) : x \in Ends}

Outside == {x \in Near : \A b \in LocalBlocks : ~InBlock(x, b)}

Chain(S) == FoldSet(LAMBDA x, s : Append(s, x), <<>>, S)

(* From the far side of every end, and by way of all local addresses, in both forms. *)
AddressRequests ==
    LET Inside == Near \ Outside
        Four(S) == {x \in S : Len(x) = 4}
        Sixteen(S) == {In6(x) : x \in Four(S)} \cup (S \ Four(S))
    IN  {[Get EXCEPT !.realip = x] : x \in Sixteen(Outside)}
        \cup {[Get EXCEPT !.forwarded = Chain(Sixteen(Inside)), !.realip = Us],
               [Get EXCEPT !.forwarded = Chain(Four(Inside)), !.remote = Them]}

MCRequest == GoogleRequests \cup IETFRequests \cup CachedRequests \cup AddressRequests

Answer ==
    [id |-> 0, tc |-> FALSE, rcode |-> 0, question |-> TRUE,
     answer |-> <<RR("good", 3), RR("phish", 1), RR("ads", 2)>>, ns |-> <<RR("ns", 0)>>,
     extra |-> <<OPT(0, 4096, <<Subnet(1, Us, 24, 24)>>), RR("phish", 0), RR("safe", 2)>>]

Exactly(msg) == [msg |-> msg, trailing |-> FALSE]

MCReply ==
    {Exactly(Answer),
     Exactly([Answer EXCEPT !.tc = TRUE]),
     [msg |-> [Answer EXCEPT !.tc = TRUE], trailing |-> TRUE],
     Exactly([Answer EXCEPT !.rcode = ServFail, !.answer = <<>>, !.ns = <<>>, !.extra = <<>>]),
     Exactly([Answer EXCEPT !.answer = <<RR("phish", 1)>>, !.extra = <<OPT(0, 512, <<>>)>>]),
     Exactly([Answer EXCEPT !.extra = <<OPT(0, 512, <<Subnet(3, Us, 0, 0)>>)>>])}

MCLists ==
    [whitelist |-> {"safe"}, blacklist |-> {"phish", "safe"}, adslist |-> {"ads"}]
===============================================================================
