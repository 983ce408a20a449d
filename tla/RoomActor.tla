----------------------------- MODULE RoomActor ------------------------------
(***************************************************************************)
(* The room actors: internal/server/probe/room_actor.go.                   *)
(*                                                                         *)
(* Calls are goroutines that run roomActorSystem.call once; a shard is a   *)
(* goroutine that serves one mailbox for every room mapped to it; one      *)
(* closer runs close().  Each step below is one operation on the RWMutex,  *)
(* a mailbox, a stop channel, a result channel or the WaitGroup, so the    *)
(* calls, the shards and the closer interleave as they do in the program.  *)
(* The connection departures of server.go, which are run outside the lanes *)
(* when shutdown rejects them, are the calls in Departures.                *)
(***************************************************************************)
EXTENDS Naturals, Sequences, FiniteSets

CONSTANTS Calls,        \* the calls made of the system
          Rooms,        \* room IDs; 0 is the lane that allocates rooms
          roomOf,       \* the room each call is about
          Departures,   \* the calls made by a closing connection
          ShardCount,   \* roomActorShardCount
          QueueSize     \* roomActorQueueSize

ASSUME ActorAssumption ==
    /\ Rooms \subseteq Nat
    /\ roomOf \in [Calls -> Rooms]
    /\ Departures \subseteq Calls
    /\ ShardCount \in Nat \ {0}
    /\ QueueSize \in Nat \ {0}

VARIABLES pc,        \* where each call is
          readers,   \* the calls that hold the read lock
          closer,    \* where close() is; "locking" keeps new readers out
          closed,    \* system.closed
          started,   \* the shards whose goroutine exists
          stopped,   \* the shards whose stop channel is closed
          mailbox,   \* shard.commands
          worker,    \* where each shard's goroutine is
          current,   \* the command a shard runs, or took last
          results    \* the calls whose result channel is filled

vars == <<pc, readers, closer, closed, started, stopped, mailbox, worker, current, results>>

Shards == 0..(ShardCount - 1)
ShardOf(c) == roomOf[c] % ShardCount

Outcomes == {"value", "error"}      \* a command that panics yields an error

CallStates == {"outside", "entered", "ready", "sent", "waiting", "answered",
               "rejected", "alone", "departed"}
WorkerStates == {"none", "selecting", "running", "draining", "drainRunning", "exited"}
Holding == {"entered", "ready", "sent"}     \* with the read lock

\* Every variable has its type, the read lock is held exactly between call's
\* RLock and RUnlock, and no mailbox exceeds roomActorQueueSize.
TypeOK ==
    /\ pc \in [Calls -> CallStates]
    /\ readers = {c \in Calls : pc[c] \in Holding}
    /\ closer \in {"idle", "locking", "waiting", "done"}
    /\ closed \in BOOLEAN
    /\ started \subseteq Shards /\ stopped \subseteq Shards
    /\ mailbox \in [Shards -> Seq(Calls)]
    /\ \A s \in Shards : Len(mailbox[s]) <= QueueSize
    /\ worker \in [Shards -> WorkerStates]
    /\ current \in [Shards -> SUBSET Calls]
    /\ results \subseteq Calls

Init ==
    /\ pc = [c \in Calls |-> "outside"]
    /\ readers = {}
    /\ closer = "idle"
    /\ closed = FALSE
    /\ started = {} /\ stopped = {}
    /\ mailbox = [s \in Shards |-> <<>>]
    /\ worker = [s \in Shards |-> "none"]
    /\ current = [s \in Shards |-> {}]
    /\ results = {}

-----------------------------------------------------------------------------
(* roomActorSystem.call *)

Goes(c, from, to) == pc[c] = from /\ pc' = [pc EXCEPT ![c] = to]

\* RLock: a writer that waits keeps new readers out.
Enter(c) ==
    /\ Goes(c, "outside", "entered")
    /\ closer # "locking"
    /\ readers' = readers \cup {c}
    /\ UNCHANGED <<closer, closed, started, stopped, mailbox, worker, current, results>>

Reject(c) ==
    /\ closed
    /\ Goes(c, "entered", "rejected")
    /\ readers' = readers \ {c}
    /\ UNCHANGED <<closer, closed, started, stopped, mailbox, worker, current, results>>

\* once.Do: the first call to a shard makes its channels and its goroutine.
Start(c) ==
    /\ ~closed
    /\ Goes(c, "entered", "ready")
    /\ started' = started \cup {ShardOf(c)}
    /\ worker' = IF ShardOf(c) \in started THEN worker
                 ELSE [worker EXCEPT ![ShardOf(c)] = "selecting"]
    /\ UNCHANGED <<readers, closer, closed, stopped, mailbox, current, results>>

\* Mutation: the command passes the ones that were sent before it.
SendFirst(c) ==
    /\ Goes(c, "ready", "sent")
    /\ Len(mailbox[ShardOf(c)]) < QueueSize
    /\ mailbox' = [mailbox EXCEPT ![ShardOf(c)] = <<c>> \o @]
    /\ UNCHANGED <<readers, closer, closed, started, stopped, worker, current, results>>

\* Mutation: the sender does not wait for room in the mailbox.
SendUnbounded(c) ==
    /\ Goes(c, "ready", "sent")
    /\ mailbox' = [mailbox EXCEPT ![ShardOf(c)] = Append(@, c)]
    /\ UNCHANGED <<readers, closer, closed, started, stopped, worker, current, results>>

\* The sender blocks, with the read lock, while the mailbox is full.
Send(c) ==
    /\ Goes(c, "ready", "sent")
    /\ Len(mailbox[ShardOf(c)]) < QueueSize
    /\ mailbox' = [mailbox EXCEPT ![ShardOf(c)] = Append(@, c)]
    /\ UNCHANGED <<readers, closer, closed, started, stopped, worker, current, results>>

\* Mutation: a call keeps the read lock while it waits and forgets it after.
ReleaseForgotten(c) ==
    /\ Goes(c, "sent", "waiting")
    /\ UNCHANGED <<readers, closer, closed, started, stopped, mailbox, worker, current, results>>

Release(c) ==
    /\ Goes(c, "sent", "waiting")
    /\ readers' = readers \ {c}
    /\ UNCHANGED <<closer, closed, started, stopped, mailbox, worker, current, results>>

Receive(c) ==
    /\ c \in results
    /\ Goes(c, "waiting", "answered")
    /\ results' = results \ {c}
    /\ UNCHANGED <<readers, closer, closed, started, stopped, mailbox, worker, current>>

AllExited == \A s \in started : worker[s] = "exited"

\* Mutation: the departure does not wait for the commands accepted before.
DepartAtOnce(c) ==
    /\ c \in Departures
    /\ Goes(c, "rejected", "alone")
    /\ UNCHANGED <<readers, closer, closed, started, stopped, mailbox, worker, current, results>>

\* A rejected departure waits for every shard, then runs outside the lanes.
DepartAlone(c) ==
    /\ c \in Departures
    /\ AllExited
    /\ Goes(c, "rejected", "alone")
    /\ UNCHANGED <<readers, closer, closed, started, stopped, mailbox, worker, current, results>>

Departed(c) ==
    /\ Goes(c, "alone", "departed")
    /\ UNCHANGED <<readers, closer, closed, started, stopped, mailbox, worker, current, results>>

-----------------------------------------------------------------------------
(* roomActorShard.consume and execute *)

Works(s, from, to) == worker[s] = from /\ worker' = [worker EXCEPT ![s] = to]

Take(s) ==
    /\ mailbox[s] # <<>>
    /\ current' = [current EXCEPT ![s] = {Head(mailbox[s])}]
    /\ mailbox' = [mailbox EXCEPT ![s] = Tail(@)]
    /\ UNCHANGED <<pc, readers, closer, closed, started, stopped, results>>

\* With a command and the stop signal both ready, select takes either.
Select(s) == Works(s, "selecting", "running") /\ Take(s)
Drain(s) == Works(s, "draining", "drainRunning") /\ Take(s)

\* Mutation: the consumer leaves as soon as it sees the stop signal.
StopAtOnce(s) ==
    /\ s \in stopped
    /\ Works(s, "selecting", "exited")
    /\ UNCHANGED <<pc, readers, closer, closed, started, stopped, mailbox, current, results>>

SeeStop(s) ==
    /\ s \in stopped
    /\ Works(s, "selecting", "draining")
    /\ UNCHANGED <<pc, readers, closer, closed, started, stopped, mailbox, current, results>>

\* Mutation: a command that panics leaves its caller without a result.
ExecuteLosesPanic(s, outcome) ==
    /\ \/ Works(s, "running", "selecting")
       \/ Works(s, "drainRunning", "draining")
    /\ results' = IF outcome = "error" THEN results ELSE results \cup current[s]
    /\ current' = [current EXCEPT ![s] = {}]
    /\ UNCHANGED <<pc, readers, closer, closed, started, stopped, mailbox>>

\* The end of execute: the result channel has room for the one result.
Execute(s, outcome) ==
    /\ \/ Works(s, "running", "selecting")
       \/ Works(s, "drainRunning", "draining")
    /\ results' = results \cup current[s]
    /\ current' = [current EXCEPT ![s] = {}]
    /\ UNCHANGED <<pc, readers, closer, closed, started, stopped, mailbox>>

Exit(s) ==
    /\ mailbox[s] = <<>>
    /\ Works(s, "draining", "exited")
    /\ UNCHANGED <<pc, readers, closer, closed, started, stopped, mailbox, current, results>>

-----------------------------------------------------------------------------
(* roomActorSystem.close *)

CloserGoes(from, to) == closer = from /\ closer' = to

RequestClose ==
    /\ CloserGoes("idle", "locking")
    /\ UNCHANGED <<pc, readers, closed, started, stopped, mailbox, worker, current, results>>

\* Under the write lock no call is between its check and its send, so the shards
\* can be stopped in one step.
StopShards ==
    /\ CloserGoes("locking", "waiting")
    /\ readers = {}
    /\ closed' = TRUE
    /\ stopped' = started
    /\ UNCHANGED <<pc, readers, started, mailbox, worker, current, results>>

Closed ==
    /\ CloserGoes("waiting", "done")
    /\ AllExited
    /\ UNCHANGED <<pc, readers, closed, started, stopped, mailbox, worker, current, results>>

-----------------------------------------------------------------------------
CallNext(c) == \/ Enter(c) \/ Reject(c) \/ Start(c) \/ Send(c) \/ Release(c)
               \/ Receive(c) \/ DepartAlone(c) \/ Departed(c)
ShardNext(s) == \/ Select(s) \/ Drain(s) \/ SeeStop(s) \/ Exit(s)
                \/ \E outcome \in Outcomes : Execute(s, outcome)
CloserNext == StopShards \/ Closed

Next == \/ \E c \in Calls : CallNext(c)
        \/ \E s \in Shards : ShardNext(s)
        \/ RequestClose \/ CloserNext

\* Goroutines keep running, and a command returns: it never calls the system
\* again (the ...OnRoomActor functions are what a command calls instead).
Fairness == /\ \A c \in Calls : WF_vars(CallNext(c))
            /\ \A s \in Shards : WF_vars(ShardNext(s))
            /\ WF_vars(CloserNext)

Spec == Init /\ [][Next]_vars
FairSpec == Spec /\ Fairness

-----------------------------------------------------------------------------
(* Properties *)

Busy == UNION {current[s] : s \in Shards}
Sent(c) == \E i \in 1..Len(mailbox[ShardOf(c)]) : mailbox[ShardOf(c)][i] = c

\* A departure that runs outside the lanes never meets a command, running or
\* still to run: cleanup after shutdown cannot race an accepted transition.
AloneMeansDrained ==
    (\E c \in Calls : pc[c] = "alone") => \A c \in Calls : c \notin Busy /\ ~Sent(c)

\* Whoever made a call learns what became of it, even when shutdown finds the
\* mailbox full and the sender blocked with the read lock.
EveryCallReturns ==
    \A c \in Calls : pc[c] = "entered" ~> pc[c] \in {"answered", "rejected"}

\* close() returns.
CloseReturns == closer = "locking" ~> closer = "done"

\* The lanes of the rooms, as their callers see them: the calls that wait and
\* the order in which those of one room were sent, the calls that were run and
\* the calls that were turned away.
Waiting == {c \in Calls : Sent(c)}
Ahead(b, c) ==
    /\ roomOf[b] = roomOf[c]
    /\ \E i, j \in 1..Len(mailbox[ShardOf(c)]) :
          i < j /\ mailbox[ShardOf(c)][i] = b /\ mailbox[ShardOf(c)][j] = c
Order == {pair \in Calls \X Calls : Ahead(pair[1], pair[2])}
Ran == results \cup {c \in Calls : pc[c] = "answered"}
               \cup {c \in Calls : pc[c] \in {"sent", "waiting"} /\ c \notin Busy /\ ~Sent(c)}
Refused == {c \in Calls : pc[c] \in {"rejected", "alone", "departed"}}
Stage == IF closer = "done" THEN "over" ELSE IF closed THEN "begun" ELSE "open"

Lanes == INSTANCE Lanes WITH waiting <- Waiting, before <- Order, running <- Busy,
                             ran <- Ran, refused <- Refused, shutdown <- Stage

\* Every room has a serial, first-in first-out lane that accepts nothing after
\* shutdown has begun and is empty when it is over.
LanesSpec == Lanes!Spec
AcceptedIsServed == Lanes!Served
=============================================================================
