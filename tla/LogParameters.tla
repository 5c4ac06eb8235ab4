---------------------------- MODULE LogParameters ----------------------------
(* The sizes of the requests log of doh-server (doh-server/tracker.go). *)
EXTENDS Naturals

CONSTANTS
    Line,        \* lengths a line of the log may have
    Capacity,    \* of the channel (1000 in NewTracker)
    FlushLen,    \* buffer length that forces a write (2048 in Start)
    MaxEntries   \* bound: entries sent in one behaviour

ASSUME TrackerAssumption ==
    /\ Line \subseteq Nat \ {0}
    /\ Capacity \in Nat \ {0}
    /\ FlushLen \in Nat \ {0}
    /\ MaxEntries \in Nat
===============================================================================
