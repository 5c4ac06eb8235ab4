---------------------------- MODULE AnswerFilter ----------------------------
(***************************************************************************)
(* What the filter of doh-server promises: while the server is up, every   *)
(* record of an answer is judged in one step against the three lists of    *)
(* that instant, in the order the Readme gives: ads list if the request    *)
(* asks for it, whitelist, blacklist.  There are no locks, files or        *)
(* goroutines; a list is a set of domains and is replaced as a whole.      *)
(***************************************************************************)
EXTENDS Sequences

CONSTANTS Domain, Handler, Answers

VARIABLES
    up,      \* whether the server answers requests
    lists,   \* per kind of list the domains in it
    answer   \* per handler: the records not yet judged, and the verdicts so far

vars == <<up, lists, answer>>

Kind == {"whitelist", "blacklist", "adslist"}

NoAnswer == [busy |-> FALSE, rrs |-> <<>>, ads |-> FALSE, kept |-> {}, dropped |-> {}]

NoLists == [k \in Kind |-> {}]

Init ==
    /\ up = FALSE
    /\ lists = NoLists
    /\ answer = [h \in Handler |-> NoAnswer]

Restricted(d, ads) ==
    \/ ads /\ d \in lists["adslist"]
    \/ d \notin lists["whitelist"] /\ d \in lists["blacklist"]

(* A list is read. *)
Replace(k) ==
    /\ \E list \in SUBSET Domain : lists' = [lists EXCEPT ![k] = list]
    /\ UNCHANGED <<up, answer>>

(* All lists have been read. *)
Up ==
    /\ ~up
    /\ up' = TRUE
    /\ UNCHANGED <<lists, answer>>

(* The process ends. *)
Down ==
    /\ up' = FALSE
    /\ lists' = NoLists
    /\ answer' = [h \in Handler |-> NoAnswer]

Begin(h) ==
    /\ up
    /\ ~answer[h].busy
    /\ \E rrs \in Answers, ads \in BOOLEAN :
          answer' = [answer EXCEPT ![h] =
              [busy |-> TRUE, rrs |-> rrs, ads |-> ads, kept |-> {}, dropped |-> {}]]
    /\ UNCHANGED <<up, lists>>

Judge(h) ==
    LET a == answer[h]
        d == Head(a.rrs)
        restricted == Restricted(d, a.ads)
    IN  /\ a.busy
        /\ a.rrs # <<>>
        /\ answer' = [answer EXCEPT ![h] =
              [busy |-> TRUE, rrs |-> Tail(a.rrs), ads |-> a.ads,
               kept |-> IF restricted THEN a.kept ELSE a.kept \cup {d},
               dropped |-> IF restricted THEN a.dropped \cup {d} ELSE a.dropped]]
        /\ UNCHANGED <<up, lists>>

End(h) ==
    /\ answer[h].busy
    /\ answer[h].rrs = <<>>
    /\ answer' = [answer EXCEPT ![h] = NoAnswer]
    /\ UNCHANGED <<up, lists>>

Next ==
    \/ Up \/ Down
    \/ \E k \in Kind : Replace(k)
    \/ \E h \in Handler : Begin(h) \/ Judge(h) \/ End(h)

Spec == Init /\ [][Next]_vars
===============================================================================
