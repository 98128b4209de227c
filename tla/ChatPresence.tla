---------------------------- MODULE ChatPresence ----------------------------
(* Who is online: one row per connection, with a lease, in PostgreSQL.      *)
(*                                                                          *)
(* Connecting, beating, disconnecting and sweeping are transactions of any   *)
(* process.  Each takes the advisory lock of its user before it reads or     *)
(* writes, and announces the user, by a NOTIFY that goes out with its COMMIT, *)
(* if it added the first row or took the last one.                           *)
EXTENDS Integers, FiniteSets

CONSTANTS
    Users,
    Conns,              \* connections, each on a process of its own
    UserOf,             \* the user of each connection
    Sweep, NoCall,      \* the sweep, and nobody, as holders of locks
    MaxPresenceFaults   \* bound: failures, crashes, late heartbeats

ASSUME PresenceAssumption ==
    /\ Users \subseteq Nat
    /\ UserOf \in [Conns -> Users]
    /\ MaxPresenceFaults \in Nat

Kinds == {"connect", "heartbeat", "disconnect", "cleanup"}
Calls == Conns \X Kinds
ASSUME NoCallAssumption ==
    /\ NoCall \notin Calls \union {Sweep}
    /\ Sweep \notin Calls

VARIABLES
    link,          \* new, open or closed: socket.connected
    timer,         \* connections that beat
    call,          \* the registry calls of each connection
    plan,          \* what each call in its transaction is going to commit
    lease,         \* realtime_chat_presence: none, live or lapsed
    userLock,      \* the advisory lock of each user
    sweepPc,       \* the sweep, of one process at a time
    sweepTodo,     \* the users it still has to look at
    sweepPlan,     \* what it is going to commit
    announced,     \* what was last notified of each user
    presenceFaults

callVars == <<link, timer, call, plan>>
sweepVars == <<sweepPc, sweepTodo, sweepPlan>>
presenceVars == <<callVars, lease, userLock, sweepVars, announced, presenceFaults>>

ConnsOf(u) == {c \in Conns : UserOf[c] = u}
Lapsed(u) == {c \in ConnsOf(u) : lease[c] = "lapsed"}
Rows(u) == {c \in ConnsOf(u) : lease[c] # "none"}

\* Rows to delete, rows to write, and users to announce.
NoPlan == [del |-> {}, put |-> {}, on |-> {}, off |-> {}]

PresenceInit ==
    /\ link = [c \in Conns |-> "new"]
    /\ timer = {}
    /\ call = [x \in Calls |-> "none"]
    /\ plan = [x \in Calls |-> NoPlan]
    /\ lease = [c \in Conns |-> "none"]
    /\ userLock = [u \in Users |-> NoCall]
    /\ sweepPc = "idle" /\ sweepTodo = {} /\ sweepPlan = NoPlan
    /\ announced = [u \in Users |-> FALSE]
    /\ presenceFaults = 0

PresenceFault == presenceFaults < MaxPresenceFaults /\ presenceFaults' = presenceFaults + 1
NoPresenceFault == UNCHANGED presenceFaults

Carry(p) ==
    /\ lease' = [c \in Conns |->
           IF c \in p.put THEN "live" ELSE IF c \in p.del THEN "none" ELSE lease[c]]
    /\ announced' = [u \in Users |-> u \in p.on \/ (announced[u] /\ u \notin p.off)]

Freed(x) == [u \in Users |-> IF userLock[u] = x THEN NoCall ELSE userLock[u]]

------------------------------------------------------------------------------
(* Sockets                                                                  *)

Open(c) ==
    /\ link[c] = "new"
    /\ link' = [link EXCEPT ![c] = "open"]
    /\ call' = [call EXCEPT ![<<c, "connect">>] = "waiting"]
    /\ UNCHANGED <<timer, plan, lease, userLock, sweepVars, announced, presenceFaults>>

\* The disconnect handler, whatever call is still running.
Close(c) ==
    /\ link[c] = "open"
    /\ link' = [link EXCEPT ![c] = "closed"]
    /\ timer' = timer \ {c}
    /\ call' = [call EXCEPT ![<<c, "disconnect">>] = "waiting"]
    /\ UNCHANGED <<plan, lease, userLock, sweepVars, announced, presenceFaults>>

Beat(c) ==
    /\ c \in timer
    /\ call[<<c, "heartbeat">>] = "none"
    /\ call' = [call EXCEPT ![<<c, "heartbeat">>] = "waiting"]
    /\ UNCHANGED <<link, timer, plan, lease, userLock, sweepVars, announced, presenceFaults>>

\* The process dies: its rows stay.
Vanish(c) ==
    /\ link[c] = "open"
    /\ PresenceFault
    /\ link' = [link EXCEPT ![c] = "closed"]
    /\ timer' = timer \ {c}
    /\ call' = [x \in Calls |-> IF x[1] = c THEN "none" ELSE call[x]]
    /\ plan' = [x \in Calls |-> IF x[1] = c THEN NoPlan ELSE plan[x]]
    /\ userLock' = [u \in Users |->
           IF userLock[u] \in {c} \X Kinds THEN NoCall ELSE userLock[u]]
    /\ UNCHANGED <<lease, sweepVars, announced>>

\* A lease runs out without a heartbeat: there is none any more, or it is late.
Lapse(c) ==
    /\ lease[c] = "live"
    /\ lease' = [lease EXCEPT ![c] = "lapsed"]
    /\ \/ c \notin timer /\ NoPresenceFault
       \/ c \in timer /\ PresenceFault
    /\ UNCHANGED <<callVars, userLock, sweepVars, announced>>

------------------------------------------------------------------------------
(* Registry calls                                                           *)

\* Defect: the user's lock is not taken.
UserLockIgnored(u) == TRUE

UserLockFree(u) == userLock[u] = NoCall

\* connect and heartbeat: the first row announces the user.
Joining(c) ==
    LET u == UserOf[c]
    IN  [del |-> Lapsed(u), put |-> {c},
         on |-> IF Rows(u) = Lapsed(u) THEN {u} ELSE {}, off |-> {}]

\* disconnect: without a row of its own it changes nothing.
Leaving(c) ==
    LET u == UserOf[c]
        gone == Lapsed(u) \union {c}
    IN  IF c \notin Rows(u) THEN NoPlan
        ELSE [del |-> gone, put |-> {}, on |-> {}, off |-> IF Rows(u) \subseteq gone THEN {u} ELSE {}]

\* BEGIN, the lock, and the statements behind it.
Run(x) ==
    /\ call[x] = "waiting"
    /\ UserLockFree(UserOf[x[1]])
    /\ userLock' = [userLock EXCEPT ![UserOf[x[1]]] = x]
    /\ call' = [call EXCEPT ![x] = "running"]
    /\ plan' = [plan EXCEPT ![x] =
           IF x[2] \in {"connect", "heartbeat"} THEN Joining(x[1]) ELSE Leaving(x[1])]
    /\ UNCHANGED <<link, timer, lease, sweepVars, announced, presenceFaults>>

\* Defect: whether the socket still exists is not asked after the call.
AssumedOpen(c) == TRUE

StillOpen(c) == link[c] = "open"

\* registerPresence goes on: a heartbeat, or the removal of the row of a socket
\* that has gone in the meantime.
Registered(c) ==
    IF StillOpen(c)
    THEN /\ timer' = timer \union {c}
         /\ call' = [call EXCEPT ![<<c, "connect">>] = "none"]
         /\ UNCHANGED link
    ELSE /\ call' = [call EXCEPT ![<<c, "connect">>] = "none", ![<<c, "cleanup">>] = "waiting"]
         /\ UNCHANGED <<link, timer>>

\* An error of connect closes the socket, and so calls disconnect; any other is
\* only logged.
Failed(x) ==
    IF x[2] = "connect" /\ link[x[1]] = "open"
    THEN /\ link' = [link EXCEPT ![x[1]] = "closed"]
         /\ call' = [call EXCEPT ![x] = "none", ![<<x[1], "disconnect">>] = "waiting"]
         /\ UNCHANGED timer
    ELSE /\ call' = [call EXCEPT ![x] = "none"]
         /\ UNCHANGED <<link, timer>>

\* COMMIT, whose answer may get lost.
CommitCall(x) ==
    /\ call[x] = "running"
    /\ Carry(plan[x])
    /\ userLock' = Freed(x)
    /\ plan' = [plan EXCEPT ![x] = NoPlan]
    /\ \/ /\ NoPresenceFault
          /\ IF x[2] = "connect" THEN Registered(x[1])
             ELSE call' = [call EXCEPT ![x] = "none"] /\ UNCHANGED <<link, timer>>
       \/ PresenceFault /\ Failed(x)
    /\ UNCHANGED sweepVars

FailCall(x) ==
    /\ call[x] \in {"waiting", "running"}
    /\ PresenceFault
    /\ Failed(x)
    /\ userLock' = Freed(x)
    /\ plan' = [plan EXCEPT ![x] = NoPlan]
    /\ UNCHANGED <<lease, sweepVars, announced>>

------------------------------------------------------------------------------
(* The sweep                                                                *)

BeginSweep ==
    /\ sweepPc = "idle"
    /\ sweepPc' = "users"
    /\ sweepTodo' = {u \in Users : Lapsed(u) # {}}
    /\ UNCHANGED <<callVars, lease, userLock, sweepPlan, announced, presenceFaults>>

\* User by user, in ascending order, keeping every lock to the end.
SweepUser ==
    /\ sweepPc = "users"
    /\ \E u \in sweepTodo :
           /\ \A v \in sweepTodo : u <= v
           /\ UserLockFree(u)
           /\ userLock' = [userLock EXCEPT ![u] = Sweep]
           /\ sweepTodo' = sweepTodo \ {u}
           /\ sweepPlan' =
                  [sweepPlan EXCEPT !.del = @ \union Lapsed(u),
                                    !.off = IF Lapsed(u) # {} /\ Rows(u) = Lapsed(u)
                                            THEN @ \union {u} ELSE @]
    /\ UNCHANGED <<callVars, lease, sweepPc, announced, presenceFaults>>

CommitSweep ==
    /\ sweepPc = "users" /\ sweepTodo = {}
    /\ Carry(sweepPlan)
    /\ userLock' = Freed(Sweep)
    /\ sweepPlan' = NoPlan
    /\ sweepPc' = "idle"
    /\ UNCHANGED <<callVars, sweepTodo, presenceFaults>>

FailSweep ==
    /\ sweepPc = "users"
    /\ PresenceFault
    /\ userLock' = Freed(Sweep)
    /\ sweepPc' = "idle" /\ sweepTodo' = {} /\ sweepPlan' = NoPlan
    /\ UNCHANGED <<callVars, lease, announced>>

------------------------------------------------------------------------------
PresenceNext ==
    \/ \E c \in Conns : Open(c) \/ Close(c) \/ Beat(c) \/ Vanish(c) \/ Lapse(c)
    \/ \E x \in Calls : Run(x) \/ CommitCall(x) \/ FailCall(x)
    \/ BeginSweep \/ SweepUser \/ CommitSweep \/ FailSweep

(* Heartbeats and sweeps have timers, advisory locks are granted in arrival  *)
(* order, database calls return, messages arrive, and a lease that nobody    *)
(* renews runs out.                                                          *)
PresenceFairness ==
    /\ \A c \in Conns :
           /\ WF_presenceVars(Beat(c))
           /\ WF_presenceVars(c \notin timer /\ Lapse(c))
    /\ \A x \in Calls : SF_presenceVars(Run(x)) /\ WF_presenceVars(CommitCall(x))
    /\ SF_presenceVars(SweepUser) /\ WF_presenceVars(BeginSweep \/ CommitSweep)

PresenceSpec == PresenceInit /\ [][PresenceNext]_presenceVars /\ PresenceFairness

------------------------------------------------------------------------------
(* Properties                                                               *)

\* Every variable has its type.
PresenceTypeOK ==
    /\ link \in [Conns -> {"new", "open", "closed"}]
    /\ timer \subseteq Conns
    /\ call \in [Calls -> {"none", "waiting", "running"}]
    /\ lease \in [Conns -> {"none", "live", "lapsed"}]
    /\ userLock \in [Users -> Calls \union {Sweep, NoCall}]
    /\ sweepPc \in {"idle", "users"}
    /\ sweepTodo \subseteq Users
    /\ announced \in [Users -> BOOLEAN]
    /\ presenceFaults \in 0 .. MaxPresenceFaults

\* The last announcement of a user is true: online exactly while there is a row
\* of theirs, however connections, disconnections and sweeps of several
\* processes cross; only a transaction that holds the user's lock may know better.
AnnouncedIsTrue ==
    \A u \in Users : userLock[u] = NoCall => (announced[u] <=> Rows(u) # {})

\* No ghosts: when all connections of a user are gone, orderly or not, the user
\* ends up announced offline; and while one stays, announced online.
PresenceConverges ==
    \A u \in Users :
        /\ <>[](\A c \in ConnsOf(u) : link[c] = "closed") => <>[](~announced[u])
        /\ <>[](\E c \in ConnsOf(u) : c \in timer) => <>[](announced[u])
=============================================================================
