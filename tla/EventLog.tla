------------------------------ MODULE EventLog ------------------------------
(* What the realtime event log promises its readers: events get consecutive *)
(* numbers in the order in which they become visible, a key is logged once,  *)
(* and a number above the watermark is backed by its event, so that a reader *)
(* whose cursor is not below the watermark misses nothing by reading on.     *)
EXTENDS Naturals

CONSTANTS
    Numbers,   \* sequence numbers
    Keys,      \* deduplication keys of events
    NoKey      \* nothing is stored under a number

VARIABLES
    last,      \* last sequence number given out
    stored,    \* the event stored under each number
    logged,    \* keys that were ever stored
    watermark  \* events up to here may be gone

logVars == <<last, stored, logged, watermark>>

Init ==
    /\ last = 0
    /\ stored = [s \in Numbers |-> NoKey]
    /\ logged = {}
    /\ watermark = 0

\* A new event becomes visible under the next number.
Append(k) ==
    /\ k \notin logged
    /\ last' = last + 1
    /\ stored' = [stored EXCEPT ![last + 1] = k]
    /\ logged' = logged \union {k}
    /\ watermark' = watermark

\* The watermark rises, and only events up to it disappear.  The log may burn a
\* number to raise the watermark above everything stored.
Forget ==
    /\ last' = last \/ (last' = last + 1 /\ watermark' = last')
    /\ watermark' \in watermark .. last'
    /\ \A s \in Numbers : stored'[s] = stored[s] \/ (s <= watermark' /\ stored'[s] = NoKey)
    /\ DOMAIN stored' = Numbers
    /\ logged' = logged

Next == (\E k \in Keys : Append(k)) \/ Forget

Spec == Init /\ [][Next]_logVars
=============================================================================
