------------------------------- MODULE Tracker -------------------------------
(***************************************************************************)
(* The requests log of doh-server (doh-server/tracker.go): handlers hand   *)
(* the name of every request that may be tracked to one goroutine through  *)
(* a bounded channel; the goroutine collects lines in a buffer and appends *)
(* the buffer to the log file when it is large or a timer fires.           *)
(***************************************************************************)
EXTENDS Integers, Sequences, FiniteSets, LogParameters

CONSTANT Handler   \* goroutines that serve requests

VARIABLES
    pc,        \* per handler: "idle", "send" (in SaveDomain) or "query" (past it)
    entries,   \* the channel
    buf,       \* the lines in the buffer
    writing,   \* whether the goroutine is in WriteTo
    file,      \* the log file: the entries in it, each whole or cut off; one that follows
               \* a cut one goes on in the same line of text
    count,     \* history: entries sent so far; an entry is known by its number
    lost       \* history: entries dropped by write errors or with the process

vars == <<pc, entries, buf, writing, file, count, lost>>

Init ==
    /\ pc = [h \in Handler |-> "idle"]
    /\ entries = <<>>
    /\ buf = <<>>
    /\ writing = FALSE
    /\ file = <<>>
    /\ count = 0
    /\ lost = {}

Ids(lines) == {lines[i].id : i \in DOMAIN lines}

Whole(lines) == {lines[i].id : i \in {j \in DOMAIN lines : lines[j].whole}}

(* The lengths of the first i lines together, for every i. *)
Lengths(lines) ==
    LET sum[i \in 0..Len(lines)] == IF i = 0 THEN 0 ELSE sum[i - 1] + lines[i].len
    IN  sum

(* buf.Len() *)
Length(lines) == Lengths(lines)[Len(lines)]

-------------------------------------------------------------------------------
(* handlerFunc reaches the tracker; a request with DNT: 1 passes it by. *)
Track(h) ==
    /\ pc[h] = "idle"
    /\ \E dnt \in BOOLEAN : pc' = [pc EXCEPT ![h] = IF dnt THEN "query" ELSE "send"]
    /\ UNCHANGED <<entries, buf, writing, file, count, lost>>

(* Mutant: the channel has no bound. *)
SaveUnbounded(h) ==
    /\ pc[h] = "send"
    /\ \E len \in Line : entries' = Append(entries, [id |-> count + 1, len |-> len])
    /\ count' = count + 1
    /\ pc' = [pc EXCEPT ![h] = "query"]
    /\ UNCHANGED <<buf, writing, file, lost>>

(* The send in SaveDomain: it waits while the channel is full. *)
SaveDomain(h) ==
    /\ pc[h] = "send"
    /\ Len(entries) < Capacity
    /\ \E len \in Line : entries' = Append(entries, [id |-> count + 1, len |-> len])
    /\ count' = count + 1
    /\ pc' = [pc EXCEPT ![h] = "query"]
    /\ UNCHANGED <<buf, writing, file, lost>>

(* The rest of the handler: upstream query, filtering, response. *)
Finish(h) ==
    /\ pc[h] = "query"
    /\ pc' = [pc EXCEPT ![h] = "idle"]
    /\ UNCHANGED <<entries, buf, writing, file, count, lost>>

-------------------------------------------------------------------------------
(* The goroutine of Tracker.Start. *)

(* Mutant: the ticker, too, writes only a large buffer. *)
TickWhenLarge ==
    /\ ~writing
    /\ Length(buf) >= FlushLen
    /\ writing' = TRUE
    /\ UNCHANGED <<pc, entries, buf, file, count, lost>>

(* The ticker case of the select. *)
Tick ==
    /\ ~writing
    /\ buf # <<>>
    /\ writing' = TRUE
    /\ UNCHANGED <<pc, entries, buf, file, count, lost>>

(* Mutant: > for >=. *)
ReceiveOneMore ==
    /\ ~writing
    /\ entries # <<>>
    /\ entries' = Tail(entries)
    /\ buf' = Append(buf, Head(entries))
    /\ writing' = (Length(buf') > FlushLen)
    /\ UNCHANGED <<pc, file, count, lost>>

(* The entries case: the line goes to the buffer, which is written out when it is large. *)
Receive ==
    /\ ~writing
    /\ entries # <<>>
    /\ entries' = Tail(entries)
    /\ buf' = Append(buf, Head(entries))
    /\ writing' = (Length(buf') >= FlushLen)
    /\ UNCHANGED <<pc, file, count, lost>>

(* The file after k entries, and part of the next one if cut, have been appended to what *)
(* is there, be it a whole line or the beginning of one.                                 *)
Appended(k, cut) ==
    file \o [i \in 1..(IF cut THEN k + 1 ELSE k) |-> [id |-> buf[i].id, whole |-> i <= k]]

Unwritten(k) == Ids(SubSeq(buf, k + 1, Len(buf)))

(* Mutant: the buffer is written and not emptied. *)
WriteKeepsBuffer ==
    /\ writing
    /\ file' = Appended(Len(buf), FALSE)
    /\ writing' = FALSE
    /\ UNCHANGED <<pc, entries, buf, count, lost>>

(* Mutant: the goroutine returns after a write. *)
WriteAndStop ==
    /\ writing
    /\ file' = Appended(Len(buf), FALSE)
    /\ buf' = <<>>
    /\ UNCHANGED <<pc, entries, writing, count, lost>>

(* WriteTo returns without an error. *)
WriteTo ==
    /\ writing
    /\ file' = Appended(Len(buf), FALSE)
    /\ buf' = <<>>
    /\ writing' = FALSE
    /\ UNCHANGED <<pc, entries, count, lost>>

(* WriteTo fails part of the way; Reset drops what it did not write. *)
WriteFails ==
    /\ writing
    /\ \E k \in 0..Len(buf) - 1, cut \in BOOLEAN :
          /\ file' = Appended(k, cut)
          /\ lost' = lost \cup Unwritten(k)
    /\ buf' = <<>>
    /\ writing' = FALSE
    /\ UNCHANGED <<pc, entries, count>>

(* The process ends, perhaps in the middle of a write, and starts again: NewTracker opens *)
(* the same file for appending.                                                           *)
Restart ==
    /\ \E k \in 0..(IF writing THEN Len(buf) ELSE 0), cut \in BOOLEAN :
          /\ cut => writing /\ k < Len(buf)
          /\ file' = Appended(k, cut)
          /\ lost' = lost \cup Unwritten(k) \cup Ids(entries)
    /\ pc' = [h \in Handler |-> "idle"]
    /\ entries' = <<>>
    /\ buf' = <<>>
    /\ writing' = FALSE
    /\ UNCHANGED count

(* Bound: no request enters that could make more than MaxEntries entries. *)
MayTrack == count + Cardinality({h \in Handler : pc[h] = "send"}) < MaxEntries

Next ==
    \/ \E h \in Handler : (MayTrack /\ Track(h)) \/ SaveDomain(h) \/ Finish(h)
    \/ Tick \/ Receive \/ WriteTo \/ WriteFails
    \/ Restart

Spec == Init /\ [][Next]_vars
-------------------------------------------------------------------------------
TypeOK ==
    /\ pc \in [Handler -> {"idle", "send", "query"}]
    /\ count \in 0..MaxEntries
    /\ entries \in Seq([id : 1..count, len : Line])
    /\ Len(entries) <= Capacity
    /\ buf \in Seq([id : 1..count, len : Line])
    /\ writing \in BOOLEAN
    /\ file \in Seq([id : 1..count, whole : BOOLEAN])
    /\ lost \subseteq 1..count

Pipeline == [i \in DOMAIN file |-> file[i].id] \o [i \in DOMAIN buf |-> buf[i].id]
                                               \o [i \in DOMAIN entries |-> entries[i].id]

(***************************************************************************)
(* The log is exact: through write errors and restarts, entries reach the  *)
(* file in the order SaveDomain sent them and none of them twice, and the  *)
(* ones that are neither whole in the file nor on their way are those that *)
(* a failed write or the end of the process dropped.  (Whole is an entry   *)
(* all of whose bytes are in the file, be it behind the cut one before it.)*)
(***************************************************************************)
LogIsExact ==
    /\ \A i, j \in DOMAIN Pipeline : i < j => Pipeline[i] < Pipeline[j]
    /\ lost = 1..count \ (Whole(file) \cup Ids(buf) \cup Ids(entries))

(***************************************************************************)
(* The buffer is bounded: while the goroutine waits in select it holds     *)
(* less than the length that forces a write, and never more than one line  *)
(* above it.                                                               *)
(***************************************************************************)
BufferIsBounded ==
    /\ ~writing => Length(buf) < FlushLen
    /\ buf # <<>> => Lengths(buf)[Len(buf) - 1] < FlushLen
===============================================================================
