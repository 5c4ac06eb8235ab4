----------------------------- MODULE MCAnswerPath -----------------------------
(* AnswerPath for TLC: answers with different TTLs in different sections, a record without  *)
(* readable text, extended Rcodes and client subnets of families 0, 1 and 2, to queries     *)
(* with prefix lengths of either family; foreign JSON without Expires, with a bad one and   *)
(* with one out of range, and a foreign wire answer.  The answer with a /56 of IPv4 stands  *)
(* for any that Pack refuses.                                                               *)
EXTENDS AnswerPath

Plain ==
    [id |-> 7, tc |-> FALSE, rcode |-> 0, question |-> TRUE,
     answer |-> <<RR("a", 3), RR("b", 1)>>, ns |-> <<>>, extra |-> <<>>]

V4 == Subnet(1, <<9, 9, 9, 0>>, 24, 16)
NoV4 == Subnet(1, <<0, 0, 0, 0>>, 0, 0)
Family0 == Subnet(0, <<0, 0, 0, 0>>, 0, 0)
IPv6 == Subnet(2, V6(<<38, 6>>), 56, 48)

Odd(name, ttl) == [RR(name, ttl) EXCEPT !.text = FALSE]

MCMessage ==
    {Plain,
     [Plain EXCEPT !.answer = <<RR("a", 2), Odd("x", 0), RR("b", 2)>>],
     [Plain EXCEPT !.answer = <<>>, !.extra = <<OPT(0, 4096, <<V4>>), RR("a", 4), Odd("x", 1)>>],
     [Plain EXCEPT !.ns = <<RR("n", 0)>>, !.extra = <<RR("b", 2), OPT(1, 4096, <<NoV4, V4>>)>>],
     [Plain EXCEPT !.ns = <<RR("n", 2), RR("m", 1)>>, !.answer = <<RR("a", 4)>>],
     [Plain EXCEPT !.rcode = 3, !.answer = <<>>, !.extra = <<OPT(0, 512, <<IPv6>>)>>],
     [Plain EXCEPT !.extra = <<OPT(0, 4096, <<Family0>>)>>],
     [Plain EXCEPT !.rcode = ServFail, !.answer = <<>>],
     [Plain EXCEPT !.tc = TRUE],
     [Plain EXCEPT !.tc = TRUE, !.question = FALSE, !.answer = <<>>],
     [Plain EXCEPT !.extra = <<OPT(0, 512, <<Subnet(1, <<9, 9, 9, 0>>, 56, 0)>>)>>]}

Json(ttl, expires) == [name |-> "a", ttl |-> ttl, expires |-> expires, text |-> TRUE]

JsonBody(status, rrs, subnet) ==
    [ErrorBody EXCEPT !.status = status, !.answer = rrs, !.subnet = subnet]

MCForeign ==
    {Http("json", NoTime, JsonBody(0, <<Json(2, NoTime)>>, NoSubnet), NoMessage),
     Http("json", NoTime, JsonBody(4099, <<Json(2, BadTime), Json(1, 40)>>, NoSubnet), NoMessage),
     Http("json", NoTime, JsonBody(0, <<Json(1, 2)>>, [addr |-> <<0, 0, 0, 0>>, scope |-> 0]), NoMessage),
     Http("message", NoTime, ErrorBody, Plain)}
===============================================================================
