-------------------------- MODULE MCFilteringSystem --------------------------
(* FilteringSystem for TLC: one domain, whose lists differ only in number. *)
EXTENDS FilteringSystem

CONSTANT d1

MCDomain == {d1}

MCWidth == [d \in MCDomain |-> 2]

MCFeed == [s \in {"majestic", "phishTank", "openPhish"} |-> {<<d1>>}]

MCContent == [k \in Kind |-> {Text(<<d1>>)}]

MCMaxNumber == [k \in Kind |-> IF k = "adslist" THEN 0 ELSE 1]
===============================================================================
