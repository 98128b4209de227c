--------------------------- MODULE RealtimeDrain ---------------------------
(* How one Node process hands the realtime log to its sockets.              *)
(*                                                                          *)
(* The drain reads the log after its cursor, dispatches each record to the  *)
(* connected sockets and then moves the cursor.  A full resynchronisation,   *)
(* asked for by a notification or by a cursor that is too old, tells every   *)
(* socket to refetch and moves the cursor to the latest number.  Sockets     *)
(* come, bootstrap or replay what they missed, and go.  All of these await   *)
(* between their steps, so they interleave.  The log itself keeps the        *)
(* promises of module EventLog.                                              *)
EXTENDS Integers, FiniteSets

CONSTANTS
    Sockets,      \* clients, with at most one connection each
    Failing,      \* sockets for which the account or ACL look-up always fails
    Streams,
    StreamOf,     \* the stream of the event under each number
    Batch,        \* records one read or replay returns
    MaxSeq,       \* bound: sequence numbers
    MaxBurns,     \* bound: barriers
    MaxExpiries,  \* bound: times events expire
    MaxFaults,    \* bound: dispatches that fail, restarts of the process
    MaxLost,      \* bound: notifications that get lost
    MaxConnects   \* bound: connections a client makes

Seqs == 1 .. MaxSeq

ASSUME FailingAssumption == Failing \subseteq Sockets
ASSUME StreamAssumption == StreamOf \in [Seqs -> Streams]
ASSUME BoundAssumption ==
    /\ {MaxSeq, MaxBurns, MaxExpiries, MaxFaults, MaxLost, MaxConnects} \subseteq Nat
    /\ Batch \in Nat \ {0}

VARIABLES
    last, watermark, events, stored,   \* the log: numbers that were given to an
                                       \* event, and those that are still stored
    signal,                            \* a full_resync_required notification is under way
    cursor,
    dPc, dFrom, dRows, dMore, dTodo,   \* the drain
    rPc, rBarrier, rTodo,              \* the full resynchronisation
    queue,                             \* who dispatches in each stream
    sPc, base, upTo,                   \* the sockets: what they asked for and have been told
    sRows, sGoal,                      \* their replays
    emitted,                           \* how often a socket got an event
    resynced,                          \* latest number a socket was told to refetch up to
    burns, expiries, faults, lost, connects

logVars == <<last, watermark, events, stored>>
drainVars == <<dPc, dFrom, dRows, dMore, dTodo>>
resyncVars == <<rPc, rBarrier, rTodo>>
socketVars == <<sPc, base, upTo, sRows, sGoal, connects>>
sentVars == <<emitted, resynced>>
boundVars == <<burns, expiries, faults, lost>>
vars == <<logVars, signal, cursor, drainVars, resyncVars, queue, socketVars, sentVars, boundVars>>

Nobody == "nobody"
Drain == "drain"
ASSUME NameAssumption == {Nobody, Drain} \intersect Sockets = {}

Connected == {c \in Sockets : sPc[c] # "off"}
Lowest(S) == CHOOSE s \in S : \A t \in S : s <= t
Highest(S) == CHOOSE s \in S : \A t \in S : t <= s
FirstOf(S) == {s \in S : Cardinality({t \in S : t < s}) < Batch}
NoGoal == [upTo |-> 0, more |-> FALSE]
NotEmitted == [s \in Seqs |-> 0]

Init ==
    /\ last = 0 /\ watermark = 0 /\ events = {} /\ stored = {}
    /\ signal = FALSE
    /\ cursor = 0
    /\ dPc = "idle" /\ dFrom = 0 /\ dRows = {} /\ dMore = FALSE /\ dTodo = {}
    /\ rPc = "idle" /\ rBarrier = 0 /\ rTodo = {}
    /\ queue = [s \in Streams |-> Nobody]
    /\ sPc = [c \in Sockets |-> "off"]
    /\ base = [c \in Sockets |-> 0]
    /\ upTo = [c \in Sockets |-> 0]
    /\ sRows = [c \in Sockets |-> {}]
    /\ sGoal = [c \in Sockets |-> NoGoal]
    /\ connects = [c \in Sockets |-> 0]
    /\ emitted = [c \in Sockets |-> NotEmitted]
    /\ resynced = [c \in Sockets |-> 0]
    /\ burns = 0 /\ expiries = 0 /\ faults = 0 /\ lost = 0

------------------------------------------------------------------------------
(* The log, filled by every process.                                        *)

AppendEvent ==
    /\ last < MaxSeq
    /\ last' = last + 1
    /\ events' = events \union {last + 1}
    /\ stored' = stored \union {last + 1}
    /\ UNCHANGED <<watermark, signal, cursor, drainVars, resyncVars, queue, socketVars,
                   sentVars, boundVars>>

\* forceFullResyncBarrier: a burnt number, the watermark on it, a notification.
Burn ==
    /\ burns < MaxBurns
    /\ last < MaxSeq
    /\ burns' = burns + 1
    /\ last' = last + 1
    /\ watermark' = last + 1
    /\ signal' = TRUE
    /\ UNCHANGED <<events, stored, cursor, drainVars, resyncVars, queue, socketVars, sentVars,
                   expiries, faults, lost>>

\* Retention, which is hours long, ends for everything up to s; not in the
\* moment between the two statements of one read.
Expire(s) ==
    /\ expiries < MaxExpiries
    /\ dPc # "select"
    /\ s \in watermark + 1 .. last
    /\ expiries' = expiries + 1
    /\ watermark' = s
    /\ stored' = {t \in stored : t > s}
    /\ UNCHANGED <<last, events, signal, cursor, drainVars, resyncVars, queue, socketVars,
                   sentVars, burns, faults, lost>>

\* A listener that is reconnecting gets no notification.
LoseSignal ==
    /\ signal
    /\ lost < MaxLost
    /\ lost' = lost + 1
    /\ signal' = FALSE
    /\ UNCHANGED <<logVars, cursor, drainVars, resyncVars, queue, socketVars, sentVars, burns,
                   expiries, faults>>

------------------------------------------------------------------------------
(* requireFullResync: a request joins the one that is running.              *)

RequestResync == rPc' = IF rPc = "idle" THEN "asked" ELSE rPc

OnSignal ==
    /\ signal
    /\ signal' = FALSE
    /\ RequestResync
    /\ UNCHANGED <<logVars, cursor, drainVars, rBarrier, rTodo, queue, socketVars, sentVars,
                   boundVars>>

\* The barrier is the latest number; it is for the sockets connected now.
ReadBarrier ==
    /\ rPc = "asked"
    /\ rPc' = "telling"
    /\ rBarrier' = last
    /\ rTodo' = Connected
    /\ UNCHANGED <<logVars, signal, cursor, drainVars, queue, socketVars, sentVars, boundVars>>

Tell(c) ==
    /\ rPc = "telling"
    /\ c \in rTodo
    /\ rTodo' = rTodo \ {c}
    /\ resynced' = [resynced EXCEPT ![c] = IF @ < rBarrier THEN rBarrier ELSE @]
    /\ UNCHANGED <<logVars, signal, cursor, drainVars, rPc, rBarrier, queue, socketVars, emitted,
                   boundVars>>

AllTold == rTodo = {}

EndResync ==
    /\ rPc = "telling"
    /\ AllTold
    /\ cursor' = IF rBarrier > cursor THEN rBarrier ELSE cursor
    /\ rPc' = "idle"
    /\ rBarrier' = 0
    /\ rTodo' = {}
    /\ UNCHANGED <<logVars, signal, drainVars, queue, socketVars, sentVars, boundVars>>

------------------------------------------------------------------------------
(* drain                                                                    *)

LeaveDrain ==
    /\ dPc' = "idle"
    /\ dFrom' = 0
    /\ dRows' = {}
    /\ dMore' = FALSE
    /\ dTodo' = {}

\* await this.fullResyncPromise
StartDrain ==
    /\ dPc = "idle"
    /\ rPc = "idle"
    /\ dPc' = "read"
    /\ UNCHANGED <<logVars, signal, cursor, dFrom, dRows, dMore, dTodo, resyncVars, queue,
                   socketVars, sentVars, boundVars>>

\* Defect: a cursor below the watermark is read from all the same.
TooOldNever == FALSE

TooOld == cursor < watermark

\* readAfter: the cursor is compared with the watermark ...
CheckCursor ==
    /\ dPc = "read"
    /\ IF TooOld
       THEN /\ dPc' = "resync"
            /\ RequestResync
            /\ UNCHANGED dFrom
       ELSE /\ dPc' = "select"
            /\ dFrom' = cursor
            /\ UNCHANGED rPc
    /\ UNCHANGED <<logVars, signal, cursor, dRows, dMore, dTodo, rBarrier, rTodo, queue,
                   socketVars, sentVars, boundVars>>

\* await this.requireFullResync()
AfterResync ==
    /\ dPc = "resync"
    /\ rPc = "idle"
    /\ dPc' = "read"
    /\ UNCHANGED <<logVars, signal, cursor, dFrom, dRows, dMore, dTodo, resyncVars, queue,
                   socketVars, sentVars, boundVars>>

\* ... and the records after it are read in a statement of its own.
SelectRecords ==
    LET rows == FirstOf({s \in stored : s > dFrom})
    IN  /\ dPc = "select"
        /\ IF rows = {} THEN LeaveDrain
           ELSE /\ dPc' = "loop"
                /\ dRows' = rows
                /\ dMore' = (Cardinality(rows) = Batch)
                /\ UNCHANGED <<dFrom, dTodo>>
        /\ UNCHANGED <<logVars, signal, cursor, resyncVars, queue, socketVars, sentVars, boundVars>>

Record == Lowest(dRows)

\* A resynchronisation has passed the record in the meantime.
SkipRecord ==
    /\ dPc = "loop" /\ dRows # {}
    /\ Record <= cursor
    /\ dRows' = dRows \ {Record}
    /\ UNCHANGED <<logVars, signal, cursor, dPc, dFrom, dMore, dTodo, resyncVars, queue,
                   socketVars, sentVars, boundVars>>

\* Defect: dispatches of one stream do not wait for each other.
StreamAlwaysFree(s) == TRUE

\* enqueueStream: the dispatches of a stream follow each other.
StreamFree(s) == queue[StreamOf[s]] = Nobody

\* The recipients are the sockets connected now that did not get the event yet.
BeginDispatch ==
    /\ dPc = "loop" /\ dRows # {}
    /\ Record > cursor
    /\ StreamFree(Record)
    /\ queue' = [queue EXCEPT ![StreamOf[Record]] = Drain]
    /\ dTodo' = {c \in Connected : emitted[c][Record] = 0}
    /\ dPc' = "dispatch"
    /\ UNCHANGED <<logVars, signal, cursor, dFrom, dRows, dMore, resyncVars, socketVars, sentVars,
                   boundVars>>

Emit(c, s) == emitted' = [emitted EXCEPT ![c][s] = @ + 1]

EmitLive(c) ==
    /\ dPc = "dispatch"
    /\ c \in dTodo \ Failing
    /\ Emit(c, Record)
    /\ dTodo' = dTodo \ {c}
    /\ UNCHANGED <<logVars, signal, cursor, dPc, dFrom, dRows, dMore, resyncVars, queue,
                   socketVars, resynced, boundVars>>

\* Defect: the cursor moves on although recipients are left.
ReachedOrNot == TRUE

Reached == dTodo = {}

EndDispatch ==
    /\ dPc = "dispatch"
    /\ Reached
    /\ cursor' = Record
    /\ dRows' = dRows \ {Record}
    /\ dTodo' = {}
    /\ queue' = [queue EXCEPT ![StreamOf[Record]] = Nobody]
    /\ dPc' = "loop"
    /\ UNCHANGED <<logVars, signal, dFrom, dMore, resyncVars, socketVars, sentVars, boundVars>>

\* A recipient could not be authorised: the drain gives up, the cursor stays.
GiveUp ==
    /\ queue' = [queue EXCEPT ![StreamOf[Record]] = Nobody]
    /\ LeaveDrain
    /\ UNCHANGED <<logVars, signal, cursor, resyncVars, socketVars, sentVars, burns, expiries, lost>>

FailDispatch ==
    /\ dPc = "dispatch"
    /\ faults < MaxFaults
    /\ faults' = faults + 1
    /\ GiveUp

\* The other recipients have been served by then.
RejectDispatch ==
    /\ dPc = "dispatch"
    /\ dTodo # {} /\ dTodo \subseteq Failing
    /\ GiveUp
    /\ UNCHANGED faults

EndLoop ==
    /\ dPc = "loop" /\ dRows = {}
    /\ IF dMore THEN dPc' = "read" /\ UNCHANGED <<dFrom, dRows, dMore, dTodo>> ELSE LeaveDrain
    /\ UNCHANGED <<logVars, signal, cursor, resyncVars, queue, socketVars, sentVars, boundVars>>

------------------------------------------------------------------------------
(* Sockets                                                                  *)

Connect(c) ==
    /\ sPc[c] = "off"
    /\ connects[c] < MaxConnects
    /\ connects' = [connects EXCEPT ![c] = @ + 1]
    /\ sPc' = [sPc EXCEPT ![c] = "joined"]
    /\ UNCHANGED <<logVars, signal, cursor, drainVars, resyncVars, queue, base, upTo, sRows, sGoal,
                   sentVars, boundVars>>

\* What ends with the connections of the sockets in set S.
Drop(S) ==
    /\ sPc' = [c \in Sockets |-> IF c \in S THEN "off" ELSE sPc[c]]
    /\ base' = [c \in Sockets |-> IF c \in S THEN 0 ELSE base[c]]
    /\ upTo' = [c \in Sockets |-> IF c \in S THEN 0 ELSE upTo[c]]
    /\ sRows' = [c \in Sockets |-> IF c \in S THEN {} ELSE sRows[c]]
    /\ sGoal' = [c \in Sockets |-> IF c \in S THEN NoGoal ELSE sGoal[c]]
    /\ emitted' = [c \in Sockets |-> IF c \in S THEN NotEmitted ELSE emitted[c]]
    /\ resynced' = [c \in Sockets |-> IF c \in S THEN 0 ELSE resynced[c]]
    /\ UNCHANGED connects

\* The client leaves, or could not be told of a resynchronisation.
Disconnect(c) ==
    /\ sPc[c] # "off"
    /\ Drop({c})
    /\ dTodo' = dTodo \ {c}
    /\ rTodo' = rTodo \ {c}
    /\ queue' = [s \in Streams |-> IF queue[s] = c THEN Nobody ELSE queue[s]]
    /\ UNCHANGED <<logVars, signal, cursor, dPc, dFrom, dRows, dMore, rPc, rBarrier, boundVars>>

\* The answer to a resume: the client is complete up to number s from now on.
Acknowledge(c, s) ==
    /\ sPc' = [sPc EXCEPT ![c] = "live"]
    /\ base' = [base EXCEPT ![c] = s]
    /\ upTo' = [upTo EXCEPT ![c] = s]

\* bootstrapSocket, after which the client fetches its projections.
Bootstrap(c) ==
    /\ sPc[c] = "joined"
    /\ Acknowledge(c, last)
    /\ UNCHANGED <<logVars, signal, cursor, drainVars, resyncVars, queue, sRows, sGoal, connects,
                   sentVars, boundVars>>

\* replayWindow: retention and records of one snapshot.
BeginReplay(c, after) ==
    LET rows == FirstOf({s \in stored : s > after})
        reached == Highest(rows \union {after})
    IN  /\ sPc[c] = "joined"
        /\ after >= upTo[c]
        /\ IF after > last \/ after < watermark
           THEN /\ Acknowledge(c, last)
                /\ resynced' = [resynced EXCEPT ![c] = last]
                /\ UNCHANGED <<sRows, sGoal>>
           ELSE /\ sPc' = [sPc EXCEPT ![c] = "replaying"]
                /\ base' = [base EXCEPT ![c] = after]
                /\ upTo' = [upTo EXCEPT ![c] = after]
                /\ sRows' = [sRows EXCEPT ![c] = rows]
                /\ sGoal' = [sGoal EXCEPT ![c] = [upTo |-> reached, more |-> reached < last]]
                /\ UNCHANGED resynced
        /\ UNCHANGED <<logVars, signal, cursor, drainVars, resyncVars, queue, connects, emitted,
                       boundVars>>

NextRecord(c) == Lowest(sRows[c])

\* A record the socket got in the meantime is not dispatched to it again.
BeginReplayRecord(c) ==
    /\ sPc[c] = "replaying" /\ sRows[c] # {}
    /\ StreamFree(NextRecord(c))
    /\ IF emitted[c][NextRecord(c)] > 0
       THEN /\ sRows' = [sRows EXCEPT ![c] = @ \ {NextRecord(c)}]
            /\ UNCHANGED <<sPc, queue>>
       ELSE /\ queue' = [queue EXCEPT ![StreamOf[NextRecord(c)]] = c]
            /\ sPc' = [sPc EXCEPT ![c] = "emitting"]
            /\ UNCHANGED sRows
    /\ UNCHANGED <<logVars, signal, cursor, drainVars, resyncVars, base, upTo, sGoal, connects,
                   sentVars, boundVars>>

EmitReplay(c) ==
    /\ sPc[c] = "emitting"
    /\ Emit(c, NextRecord(c))
    /\ sRows' = [sRows EXCEPT ![c] = @ \ {NextRecord(c)}]
    /\ queue' = [queue EXCEPT ![StreamOf[NextRecord(c)]] = Nobody]
    /\ sPc' = [sPc EXCEPT ![c] = "replaying"]
    /\ UNCHANGED <<logVars, signal, cursor, drainVars, resyncVars, base, upTo, sGoal, connects,
                   resynced, boundVars>>

\* replay_failed: the client may ask again.
FailReplay(c) ==
    /\ sPc[c] = "emitting"
    /\ faults < MaxFaults
    /\ faults' = faults + 1
    /\ sRows' = [sRows EXCEPT ![c] = {}]
    /\ sGoal' = [sGoal EXCEPT ![c] = NoGoal]
    /\ queue' = [queue EXCEPT ![StreamOf[NextRecord(c)]] = Nobody]
    /\ sPc' = [sPc EXCEPT ![c] = "joined"]
    /\ UNCHANGED <<logVars, signal, cursor, drainVars, resyncVars, base, upTo, connects, sentVars,
                   burns, expiries, lost>>

\* The answer; after a truncated replay the client has to ask for the rest.
EndReplay(c) ==
    /\ sPc[c] = "replaying" /\ sRows[c] = {}
    /\ upTo' = [upTo EXCEPT ![c] = sGoal[c].upTo]
    /\ sPc' = [sPc EXCEPT ![c] = IF sGoal[c].more THEN "joined" ELSE "live"]
    /\ sGoal' = [sGoal EXCEPT ![c] = NoGoal]
    /\ UNCHANGED <<logVars, signal, cursor, drainVars, resyncVars, queue, base, sRows, connects,
                   sentVars, boundVars>>

\* The process restarts at the latest number, without sockets.
Restart ==
    /\ faults < MaxFaults
    /\ faults' = faults + 1
    /\ signal' = FALSE
    /\ cursor' = last
    /\ LeaveDrain
    /\ rPc' = "idle" /\ rBarrier' = 0 /\ rTodo' = {}
    /\ queue' = [s \in Streams |-> Nobody]
    /\ Drop(Sockets)
    /\ UNCHANGED <<logVars, burns, expiries, lost>>

LogStep == AppendEvent \/ Burn \/ LoseSignal \/ \E s \in Seqs : Expire(s)

ResyncStep == OnSignal \/ ReadBarrier \/ EndResync \/ \E c \in Sockets : Tell(c)

DrainStep ==
    \/ StartDrain \/ CheckCursor \/ AfterResync \/ SelectRecords
    \/ SkipRecord \/ BeginDispatch \/ EndDispatch \/ RejectDispatch \/ EndLoop
    \/ \E c \in Sockets : EmitLive(c)

SocketStep(c) ==
    \/ Connect(c)
    \/ Disconnect(c)
    \/ Bootstrap(c)
    \/ \E after \in Seqs \union {0} : BeginReplay(c, after)
    \/ FailReplay(c)

ReplayStep(c) == BeginReplayRecord(c) \/ EmitReplay(c) \/ EndReplay(c)

Next ==
    \/ LogStep
    \/ ResyncStep
    \/ DrainStep
    \/ FailDispatch
    \/ \E c \in Sockets : SocketStep(c) \/ ReplayStep(c)
    \/ Restart

(* Notifications arrive, the poll timer starts a drain again and again, and  *)
(* database and account look-ups return.                                     *)
Fairness ==
    /\ WF_vars(ResyncStep)
    /\ SF_vars(StartDrain) /\ WF_vars(DrainStep) /\ SF_vars(BeginDispatch)
    /\ \A c \in Sockets : WF_vars(ReplayStep(c)) /\ SF_vars(BeginReplayRecord(c))

Spec == Init /\ [][Next]_vars
FairSpec == Spec /\ Fairness

------------------------------------------------------------------------------
(* Properties                                                               *)

\* Every variable has its type.
TypeOK ==
    /\ last \in 0 .. MaxSeq
    /\ watermark \in 0 .. last
    /\ cursor \in 0 .. last
    /\ events \subseteq 1 .. last
    /\ stored \subseteq events
    /\ signal \in BOOLEAN
    /\ dPc \in {"idle", "read", "resync", "select", "loop", "dispatch"}
    /\ dFrom \in 0 .. last
    /\ dRows \subseteq events
    /\ dMore \in BOOLEAN
    /\ dTodo \subseteq Connected
    /\ rPc \in {"idle", "asked", "telling"}
    /\ rBarrier \in 0 .. last
    /\ rTodo \subseteq Connected
    /\ queue \in [Streams -> Sockets \union {Nobody, Drain}]
    /\ sPc \in [Sockets -> {"off", "joined", "replaying", "emitting", "live"}]
    /\ base \in [Sockets -> 0 .. last]
    /\ upTo \in [Sockets -> 0 .. last]
    /\ sRows \in [Sockets -> SUBSET events]
    /\ sGoal \in [Sockets -> [upTo : 0 .. last, more : BOOLEAN]]
    /\ emitted \in [Sockets -> [Seqs -> Nat]]
    /\ resynced \in [Sockets -> 0 .. last]
    /\ connects \in [Sockets -> 0 .. MaxConnects]
    /\ {burns, expiries, faults, lost} \subseteq Nat

\* The numbers a client may take for delivered: what a replay acknowledged, and
\* once the client is live everything the process has passed.
Covered(c) == {s \in Seqs : s > base[c] /\ (s <= upTo[c] \/ (sPc[c] = "live" /\ s <= cursor))}

\* No event is passed over: whatever a client may take for delivered was sent to
\* its connection, or the client was told to refetch.
NothingPassedOver ==
    \A c \in Connected : \A s \in Covered(c) \intersect events :
        emitted[c][s] > 0 \/ resynced[c] >= s

\* A connection gets no event twice, although live dispatch and replay overlap.
NoDuplicateEmission == \A c \in Sockets, s \in Seqs : emitted[c][s] <= 1

\* Every event reaches every connected client that waits for it, or the client
\* is told to refetch or leaves; whatever happens to other recipients.
EveryEventIsSent ==
    \A c \in Sockets \ Failing, s \in Seqs :
        (sPc[c] = "live" /\ base[c] < s /\ s \in events)
            ~> (sPc[c] = "off" \/ emitted[c][s] > 0 \/ resynced[c] >= s)
=============================================================================
