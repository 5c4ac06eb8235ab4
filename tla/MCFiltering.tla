----------------------------- MODULE MCFiltering -----------------------------
(* Filtering for TLC: a whitelist of two versions, a blacklist and an ads list of one. *)
EXTENDS Filtering

MCWidth == [d \in Domain |-> 2]

Lists == {Text(<<>>)} \cup {Text(<<d>>) : d \in Domain}

MCContent == [k \in Kind |-> IF k = "adslist" THEN {Text(<<d>>) : d \in Domain} ELSE Lists]

MCMaxNumber == [k \in Kind |-> IF k = "whitelist" THEN 1 ELSE 0]

OneRecord == {<<d>> : d \in Domain}
===============================================================================
