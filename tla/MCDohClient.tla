----------------------------- MODULE MCDohClient -----------------------------
(* DohClient for TLC: an ordinary query over UDP, one over TCP with a client subnet, a *)
(* query with several questions and a response packet.                                 *)
EXTENDS DohClient

Plain ==
    [id |-> 1, response |-> FALSE, single |-> TRUE, tcp |-> FALSE, subnet |-> FALSE, global |-> TRUE]

MCQuery ==
    {Plain,
     [Plain EXCEPT !.tcp = TRUE, !.subnet = TRUE],
     [Plain EXCEPT !.single = FALSE, !.global = FALSE],
     [Plain EXCEPT !.response = TRUE]}
===============================================================================
