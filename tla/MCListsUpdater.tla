--------------------------- MODULE MCListsUpdater ---------------------------
(* ListsUpdater for TLC: names with lines of two and of four bytes, so that *)
(* a shorter list written over a longer one can cut a line.                  *)
EXTENDS ListsUpdater

CONSTANTS d1, d2

MCDomain == {d1, d2}

MCWidth == [d \in MCDomain |-> IF d = d1 THEN 2 ELSE 4]

MCFeed == [s \in Source |-> IF s = "majestic" THEN {<<d1>>, <<d2, d1>>} ELSE {<<d1>>}]

MCMaxNumber == [k \in Kind |-> IF k = "whitelist" THEN 2 ELSE 0]

Symmetry == Permutations(Updater)
===============================================================================
