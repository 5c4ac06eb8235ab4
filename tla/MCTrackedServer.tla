--------------------------- MODULE MCTrackedServer ---------------------------
(* TrackedServer for TLC: a request that may be tracked, one that may not, and one refused. *)
EXTENDS TrackedServer

Packet ==
    [id |-> 7, ok |-> TRUE, probe |-> FALSE, questions |-> <<"good">>, query |-> TRUE, rd |-> TRUE,
     subnets |-> <<>>]

Tracked ==
    [ctype |-> "", ct |-> "", name |-> "", args |-> TRUE,
     ecs |-> [text |-> "none", addr |-> NoIP, mask |-> 0], dns |-> "packet", body |-> "",
     packet |-> Packet, accept |-> <<>>, ads |-> FALSE, dnt |-> FALSE, agent |-> "other",
     forwarded |-> <<>>, realip |-> NoIP, remote |-> NoIP]

MCRequest ==
    {Tracked, [Tracked EXCEPT !.dnt = TRUE], [Tracked EXCEPT !.packet.ok = FALSE]}

Answer ==
    [id |-> 0, tc |-> FALSE, rcode |-> 0, question |-> TRUE, answer |-> <<RR("good", 3)>>, ns |-> <<>>,
     extra |-> <<>>]

MCReply ==
    {[msg |-> Answer, trailing |-> FALSE], [msg |-> [Answer EXCEPT !.tc = TRUE], trailing |-> FALSE]}

MCLists == [whitelist |-> {}, blacklist |-> {}, adslist |-> {}]
===============================================================================
