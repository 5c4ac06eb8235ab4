---------------------------- MODULE TrackedServer ----------------------------
(***************************************************************************)
(* The request handlers of doh-server together with the requests log they  *)
(* share: the hand-over of a name is the send of Tracker, which waits      *)
(* while the channel is full, and the process ends for both.               *)
(***************************************************************************)
EXTENDS DohServer, LogParameters

VARIABLES entries, buf, writing, file, count, lost

logVars == <<entries, buf, writing, file, count, lost>>

(* What the log sees of a handler. *)
LogPc ==
    [h \in Handler |-> CASE proc[h].pc = "idle" -> "idle"
                         [] proc[h].pc = "save" -> "send"
                         [] OTHER -> "query"]

Log == INSTANCE Tracker WITH pc <- LogPc

TrackedInit == Init /\ Log!Init

(* A step that does not touch the log; requests stop coming at the bound on entries. *)
Serve(h) ==
    /\ \/ Log!MayTrack /\ handlerFunc(h)
       \/ doDNSQuery(h)
       \/ Respond(h) \/ Return(h)
    /\ UNCHANGED logVars

(* Mutant: an entry that finds the channel full is dropped. *)
SaveOrDrop(h) ==
    /\ SaveDomain(h)
    /\ IF Len(entries) < Capacity THEN Log!SaveDomain(h) ELSE UNCHANGED logVars

Save(h) == SaveDomain(h) /\ Log!SaveDomain(h)

Collect == UNCHANGED vars /\ Log!Receive

Flush == UNCHANGED vars /\ Log!Tick

WriteOut == UNCHANGED vars /\ (Log!WriteTo \/ Log!WriteFails)

(* The process ends with the requests it has, and starts again. *)
Restart ==
    /\ proc' = [h \in Handler |-> Idle]
    /\ asked' = [h \in Handler |-> <<>>]
    /\ tracked' = [h \in Handler |-> <<>>]
    /\ out' = [h \in Handler |-> <<>>]
    /\ Log!Restart

TrackedNext ==
    \/ \E h \in Handler : Serve(h) \/ Save(h)
    \/ Collect \/ Flush \/ WriteOut
    \/ Restart

TrackedSpec == TrackedInit /\ [][TrackedNext]_<<vars, logVars>>

(* A handler that has begun: udpClient and tcpClient have a timeout, so an exchange ends. *)
Proceed(h) == proc[h].pc # "idle" /\ Serve(h)

(***************************************************************************)
(* The scheduler runs the handlers, which only the channel can hold up,    *)
(* and the goroutine of Tracker.Start, and a write returns.  select        *)
(* chooses fairly between the ticker and the channel, and the runtime      *)
(* serves the senders that wait on a channel in order: strong fairness of  *)
(* both.                                                                   *)
(***************************************************************************)
TrackedFairness ==
    /\ \A h \in Handler :
          /\ WF_<<vars, logVars>>(Proceed(h))
          /\ SF_<<vars, logVars>>(Save(h))
    /\ WF_<<vars, logVars>>(Collect)
    /\ WF_<<vars, logVars>>(WriteOut)
    /\ SF_<<vars, logVars>>(Flush)

FairTrackedSpec == TrackedSpec /\ TrackedFairness
-------------------------------------------------------------------------------
(***************************************************************************)
(* The handlers use the log as Tracker says: it is given one entry for a   *)
(* request that may be tracked and none for others, and nothing else of    *)
(* the handler touches it.                                                 *)
(***************************************************************************)
ImplementsTracker == Log!Spec

(***************************************************************************)
(* The log is exact for the entries handlerFunc makes: through write       *)
(* errors and restarts they reach the file in order and none of them       *)
(* twice, and only those a failure dropped are missing (see Tracker).      *)
(***************************************************************************)
LogIsExact == Log!LogIsExact

(***************************************************************************)
(* The buffer of Tracker.Start never holds more than one line above the    *)
(* length that forces a write, and less than that length while the         *)
(* goroutine waits in select (see Tracker).                                *)
(***************************************************************************)
BufferIsBounded == Log!BufferIsBounded

(* The channel, the buffer and the file hold entries that were handed over, the channel no *)
(* more than its capacity.                                                                 *)
LogTypeOK == Log!TypeOK

(***************************************************************************)
(* No entry stays in memory for ever: with or without further requests it  *)
(* reaches the file or is dropped by a failure, in the end by the ticker   *)
(* case of Tracker.Start.                                                  *)
(***************************************************************************)
InMemory == Log!Ids(buf) \cup Log!Ids(entries)

EntriesAreWritten == \A e \in 1..MaxEntries : e \in InMemory ~> e \notin InMemory

(***************************************************************************)
(* Every request is answered, unless the process ends: neither a full      *)
(* channel, nor a disk on which every write fails, nor upstreams that      *)
(* answer nothing or only truncated messages keep handlerFunc from         *)
(* returning.                                                              *)
(***************************************************************************)
RequestsAreAnswered ==
    \A h \in Handler : proc[h].pc # "idle" ~> (proc[h].pc = "idle" \/ Len(out[h]) = 1)
===============================================================================
