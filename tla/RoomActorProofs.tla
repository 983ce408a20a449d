-------------------------- MODULE RoomActorProofs --------------------------
(***************************************************************************)
(* Theorems about RoomActor.tla, for any number of calls, rooms and shards *)
(* and any mailbox size: the state is what the code takes it for, cleanup  *)
(* after shutdown runs alone, and the actors implement the lanes.          *)
(***************************************************************************)
EXTENDS RoomActor, TLAPS

-----------------------------------------------------------------------------
(* The invariant *)

\* An accepted call waits in the mailbox of its shard, once, until it is taken.
MailboxesSound ==
    \A s \in Shards : \A i \in 1..Len(mailbox[s]) :
        /\ ShardOf(mailbox[s][i]) = s
        /\ pc[mailbox[s][i]] \in {"sent", "waiting"}
        /\ \A j \in 1..Len(mailbox[s]) : mailbox[s][i] = mailbox[s][j] => i = j

\* A shard runs one command, which it took from its mailbox, or none.
Runs(s, c) ==
    /\ current[s] = {c}
    /\ ShardOf(c) = s
    /\ pc[c] \in {"sent", "waiting"}
    /\ ~Sent(c)
ShardsSound ==
    \A s \in Shards : IF worker[s] \in {"running", "drainRunning"}
                      THEN \E c \in Calls : Runs(s, c)
                      ELSE current[s] = {}

\* A result is there for a call that was run and has not fetched it.
ResultsSound ==
    \A c \in results : pc[c] \in {"sent", "waiting"} /\ ~Sent(c) /\ c \notin Busy

\* A shard's goroutine exists once the shard is started, and looks for the end of
\* its mailbox only after shutdown has stopped the shard.
WorkersSound ==
    /\ \A c \in Calls : pc[c] \in {"ready", "sent", "waiting"} => ShardOf(c) \in started
    /\ \A s \in Shards : worker[s] = "none" <=> s \notin started
    /\ \A s \in Shards : worker[s] \in {"draining", "drainRunning", "exited"} => s \in stopped

\* The write lock puts the end of the senders before the end of the shards: no
\* call is between its check and its send once the system is closed.
ClosingSound ==
    /\ closed <=> closer \in {"waiting", "done"}
    /\ stopped = IF closed THEN started ELSE {}
    /\ closed => \A c \in Calls : pc[c] \notin {"ready", "sent"}
    /\ \A c \in Calls : pc[c] \in {"rejected", "alone", "departed"} => closed

\* Who waits for the shards finds their mailboxes empty.
EndSound ==
    /\ \A s \in Shards : worker[s] = "exited" => mailbox[s] = <<>>
    /\ closer = "done" => AllExited
    /\ \A c \in Calls : pc[c] = "alone" => AllExited

Inv == /\ TypeOK /\ MailboxesSound /\ ShardsSound /\ ResultsSound
       /\ WorkersSound /\ ClosingSound /\ EndSound

\* Every call has a shard.
LEMMA ShardOfCall == \A c \in Calls : ShardOf(c) \in Shards
<1>1. \A n \in Nat, k \in Nat \ {0} : n % k \in 0..(k - 1)
    OBVIOUS
<1>2. \A c \in Calls : roomOf[c] \in Nat
    BY ActorAssumption
<1> QED
    BY <1>1, <1>2, ActorAssumption DEF ShardOf, Shards

\* The invariant holds at the start.
LEMMA InvInit == Init => Inv
<1> SUFFICES ASSUME Init PROVE Inv
    OBVIOUS
<1>1. TypeOK
    <2>1. /\ pc \in [Calls -> CallStates] /\ readers = {c \in Calls : pc[c] \in Holding}
          /\ worker \in [Shards -> WorkerStates]
        BY DEF Init, CallStates, WorkerStates, Holding
    <2>2. mailbox \in [Shards -> Seq(Calls)] /\ \A s \in Shards : Len(mailbox[s]) <= QueueSize
        BY ActorAssumption DEF Init
    <2> QED
        BY <2>1, <2>2 DEF Init, TypeOK
<1>2. MailboxesSound
    BY DEF Init, MailboxesSound
<1>3. ShardsSound /\ ResultsSound /\ WorkersSound
    BY DEF Init, ShardsSound, ResultsSound, WorkersSound
<1>4. ClosingSound /\ EndSound
    BY DEF Init, ClosingSound, EndSound
<1> QED
    BY <1>1, <1>2, <1>3, <1>4 DEF Inv

\* Nothing that only mailboxes, shards and results depend on has changed: the call
\* of a step moved between two states that mean the same to them.
LEMMA SameServing ==
    ASSUME Inv, UNCHANGED <<mailbox, worker, current, results>>,
           \A c \in Calls : pc[c] \in {"sent", "waiting"} => pc'[c] \in {"sent", "waiting"}
    PROVE  MailboxesSound' /\ ShardsSound' /\ ResultsSound'
<1>1. /\ mailbox \in [Shards -> Seq(Calls)] /\ current \in [Shards -> SUBSET Calls]
      /\ results \subseteq Calls
    BY DEF Inv, TypeOK
<1>2. \A c : Sent(c)' <=> Sent(c)
    BY DEF Sent
<1>3. Busy' = Busy
    BY DEF Busy
<1>4. MailboxesSound'
    BY <1>1 DEF Inv, MailboxesSound
<1>5. ShardsSound'
    BY <1>2 DEF Inv, ShardsSound, Runs
<1>6. ResultsSound'
    BY <1>1, <1>2, <1>3 DEF Inv, ResultsSound
<1> QED
    BY <1>4, <1>5, <1>6

\* The steps of a call that touch neither mailbox nor result.
LEMMA CallKeepsInv ==
    ASSUME Inv, NEW c \in Calls,
           Enter(c) \/ Reject(c) \/ Release(c) \/ DepartAlone(c) \/ Departed(c)
    PROVE  Inv'
<1> USE DEF Goes, Enter, Reject, Release, DepartAlone, Departed
<1>1. pc \in [Calls -> CallStates] /\ readers = {d \in Calls : pc[d] \in Holding}
    BY DEF Inv, TypeOK
<1>2. /\ UNCHANGED <<closer, closed, started, stopped, mailbox, worker, current, results>>
      /\ \A d \in Calls : d # c => pc'[d] = pc[d]
      /\ pc[c] \in {"sent", "waiting"} => pc'[c] \in {"sent", "waiting"}
    BY <1>1
<1>3. TypeOK'
    <2>1. pc' \in [Calls -> CallStates]
        BY <1>1 DEF CallStates
    <2>2. readers' = {d \in Calls : pc'[d] \in Holding}
        BY <1>1 DEF Holding
    <2> QED
        BY <1>2, <2>1, <2>2 DEF Inv, TypeOK
<1>4. MailboxesSound' /\ ShardsSound' /\ ResultsSound'
    BY <1>2, SameServing
<1>5. WorkersSound'
    BY <1>1, <1>2 DEF Inv, WorkersSound
<1>6. ClosingSound'
    BY <1>1, <1>2 DEF Inv, ClosingSound
<1>7. EndSound'
    BY <1>1, <1>2 DEF Inv, EndSound, AllExited
<1> QED
    BY <1>3, <1>4, <1>5, <1>6, <1>7 DEF Inv

\* The first call of a shard makes its goroutine, which has nothing to run yet.
LEMMA StartKeepsInv ==
    ASSUME Inv, NEW c \in Calls, Start(c)
    PROVE  Inv'
<1> DEFINE s == ShardOf(c)
<1>0. s \in Shards
    BY ShardOfCall
<1>1. /\ pc \in [Calls -> CallStates] /\ readers = {d \in Calls : pc[d] \in Holding}
      /\ worker \in [Shards -> WorkerStates] /\ started \subseteq Shards
      /\ mailbox \in [Shards -> Seq(Calls)] /\ results \subseteq Calls
    BY DEF Inv, TypeOK
<1>2. /\ pc[c] = "entered" /\ pc' = [pc EXCEPT ![c] = "ready"] /\ ~closed
      /\ started' = started \cup {s}
      /\ UNCHANGED <<readers, closer, closed, stopped, mailbox, current, results>>
    BY DEF Start, Goes
<1>3. \A r \in Shards : worker'[r] = IF r = s /\ s \notin started THEN "selecting" ELSE worker[r]
    BY <1>0, <1>1 DEF Start
<1>a. worker' \in [Shards -> WorkerStates]
    BY <1>0, <1>1 DEF Start, WorkerStates
<1> HIDE DEF s
<1>4. TypeOK'
    <2>1. pc' \in [Calls -> CallStates]
        BY <1>1, <1>2 DEF CallStates
    <2>2. readers' = {d \in Calls : pc'[d] \in Holding}
        BY <1>1, <1>2 DEF Holding
    <2> QED
        BY <1>0, <1>2, <1>a, <2>1, <2>2 DEF Inv, TypeOK
<1>5. /\ \A d \in Calls : pc[d] \in {"sent", "waiting"} => pc'[d] = pc[d]
      /\ \A d \in Calls : d # c => pc'[d] = pc[d]
      /\ pc'[c] = "ready"
    BY <1>1, <1>2
<1>6. MailboxesSound' /\ ResultsSound'
    <2>1. \A d : Sent(d)' <=> Sent(d)
        BY <1>2 DEF Sent
    <2>2. Busy' = Busy
        BY <1>2 DEF Busy
    <2>3. MailboxesSound'
        BY <1>1, <1>2, <1>5 DEF Inv, MailboxesSound
    <2> QED
        BY <1>1, <1>2, <1>5, <2>1, <2>2, <2>3 DEF Inv, ResultsSound
<1>7. ShardsSound'
    <2>1. \A d : Sent(d)' <=> Sent(d)
        BY <1>2 DEF Sent
    <2>2. s \notin started => worker[s] = "none"
        BY <1>0 DEF Inv, WorkersSound
    <2>3. \A r \in Shards : worker[r] \in {"running", "drainRunning"} <=>
                            worker'[r] \in {"running", "drainRunning"}
        BY <1>3, <2>2
    <2> QED
        BY <1>2, <1>5, <2>1, <2>3 DEF Inv, ShardsSound, Runs
<1>8. WorkersSound'
    <2>1. \A d \in Calls : pc'[d] \in {"ready", "sent", "waiting"} => ShardOf(d) \in started'
        BY <1>2, <1>5 DEF Inv, WorkersSound, s
    <2>2. \A r \in Shards : worker'[r] = "none" <=> r \notin started'
        BY <1>2, <1>3 DEF Inv, WorkersSound
    <2>3. \A r \in Shards : worker'[r] \in {"draining", "drainRunning", "exited"} => r \in stopped'
        BY <1>2, <1>3 DEF Inv, WorkersSound
    <2> QED
        BY <2>1, <2>2, <2>3 DEF WorkersSound
<1>9. ClosingSound'
    BY <1>2, <1>5 DEF Inv, ClosingSound
<1>10. EndSound'
    <2>1. closer # "done" /\ \A d \in Calls : pc[d] # "alone"
        BY <1>2 DEF Inv, ClosingSound
    <2>2. \A r \in Shards : worker'[r] = "exited" => mailbox'[r] = <<>>
        BY <1>2, <1>3 DEF Inv, EndSound
    <2> QED
        BY <1>2, <1>5, <2>1, <2>2 DEF EndSound
<1> QED
    BY <1>4, <1>6, <1>7, <1>8, <1>9, <1>10 DEF Inv

\* A command enters the mailbox behind the others; its call was nowhere before.
LEMMA SendKeepsInv ==
    ASSUME Inv, NEW c \in Calls, Send(c)
    PROVE  Inv'
<1> DEFINE s == ShardOf(c)
           q == mailbox[s]
<1>0. s \in Shards
    BY ShardOfCall
<1>1. /\ pc \in [Calls -> CallStates] /\ readers = {d \in Calls : pc[d] \in Holding}
      /\ mailbox \in [Shards -> Seq(Calls)] /\ results \subseteq Calls
      /\ \A r \in Shards : Len(mailbox[r]) <= QueueSize
    BY DEF Inv, TypeOK
<1>2. /\ pc[c] = "ready" /\ pc' = [pc EXCEPT ![c] = "sent"]
      /\ Len(q) < QueueSize /\ mailbox' = [mailbox EXCEPT ![s] = Append(q, c)]
      /\ UNCHANGED <<readers, closer, closed, started, stopped, worker, current, results>>
    BY DEF Send, Goes
<1>3. q \in Seq(Calls) /\ Len(q) \in Nat
    BY <1>0, <1>1
<1>4. /\ \A r \in Shards : r # s => mailbox'[r] = mailbox[r]
      /\ mailbox'[s] = Append(q, c)
    BY <1>0, <1>1, <1>2
<1>5. /\ Len(Append(q, c)) = Len(q) + 1 /\ Append(q, c)[Len(q) + 1] = c
      /\ \A i \in 1..Len(q) : Append(q, c)[i] = q[i]
      /\ Append(q, c) \in Seq(Calls)
    BY <1>3
<1>6. pc' \in [Calls -> CallStates] /\ pc'[c] = "sent" /\ \A d \in Calls : d # c => pc'[d] = pc[d]
    BY <1>1, <1>2 DEF CallStates
<1> DEFINE new == Append(q, c)
<1> HIDE DEF q, s, new
<1>7. TypeOK'
    <2>1. readers' = {d \in Calls : pc'[d] \in Holding}
        BY <1>1, <1>2, <1>6 DEF Holding
    <2>2. mailbox' \in [Shards -> Seq(Calls)]
        BY <1>0, <1>1, <1>2, <1>5 DEF new
    <2>3. \A r \in Shards : Len(mailbox'[r]) <= QueueSize
        BY <1>1, <1>2, <1>3, <1>4, <1>5, ActorAssumption
    <2> QED
        BY <1>2, <1>6, <2>1, <2>2, <2>3 DEF Inv, TypeOK
<1>8. \A i \in 1..Len(q) : q[i] # c /\ q[i] \in Calls /\ ShardOf(q[i]) = s
                          /\ pc[q[i]] \in {"sent", "waiting"}
    BY <1>0, <1>2, <1>3 DEF Inv, MailboxesSound, q
<1>9. MailboxesSound'
    <2> SUFFICES ASSUME NEW r \in Shards, NEW i \in 1..Len(mailbox'[r])
                 PROVE  /\ ShardOf(mailbox'[r][i]) = r
                        /\ pc'[mailbox'[r][i]] \in {"sent", "waiting"}
                        /\ \A j \in 1..Len(mailbox'[r]) :
                              mailbox'[r][i] = mailbox'[r][j] => i = j
        BY DEF MailboxesSound, ShardOf
    <2>1. CASE r # s
        <3>1. mailbox'[r] = mailbox[r] /\ mailbox[r] \in Seq(Calls)
            BY <1>1, <1>4, <2>1
        <3>2. mailbox[r][i] # c
            BY <1>2, <3>1 DEF Inv, MailboxesSound
        <3> QED
            BY <1>6, <3>1, <3>2 DEF Inv, MailboxesSound
    <2>2. CASE r = s
        <3>1. mailbox'[r] = new
            BY <1>4, <2>2 DEF new
        <3>2. \A j \in 1..Len(q), k \in 1..Len(q) : q[j] = q[k] => j = k
            BY <1>0 DEF Inv, MailboxesSound, q
        <3>3. i \in 1..Len(q) \/ i = Len(q) + 1
            BY <1>3, <1>5, <3>1 DEF new
        <3>4. \A j \in 1..Len(new) : j \in 1..Len(q) \/ j = Len(q) + 1
            BY <1>3, <1>5 DEF new
        <3>5. CASE i = Len(q) + 1
            <4>1. new[i] = c /\ pc'[c] = "sent" /\ ShardOf(c) = s
                BY <1>5, <1>6, <3>5 DEF new, s
            <4>2. \A j \in 1..Len(q) : new[j] # c
                BY <1>5, <1>8 DEF new
            <4> QED
                BY <2>2, <3>1, <3>4, <3>5, <4>1, <4>2
        <3>6. CASE i \in 1..Len(q)
            <4>1. new[i] = q[i] /\ q[i] # c /\ new[Len(q) + 1] = c
                BY <1>5, <1>8, <3>6 DEF new
            <4>2. ShardOf(new[i]) = s /\ pc'[new[i]] \in {"sent", "waiting"}
                BY <1>6, <1>8, <3>6, <4>1
            <4>3. \A j \in 1..Len(q) : new[j] = new[i] => i = j
                BY <1>5, <3>2, <3>6 DEF new
            <4> QED
                BY <2>2, <3>1, <3>4, <4>1, <4>2, <4>3
        <3> QED
            BY <3>3, <3>5, <3>6
    <2> QED
        BY <2>1, <2>2
<1>10. \A d \in Calls : d # c /\ Sent(d)' => Sent(d)
    <2> SUFFICES ASSUME NEW d \in Calls, d # c,
                        NEW i \in 1..Len(mailbox'[ShardOf(d)]), mailbox'[ShardOf(d)][i] = d
                 PROVE  Sent(d)
        BY DEF Sent, ShardOf
    <2>1. CASE ShardOf(d) # s
        BY <1>4, <2>1, ShardOfCall DEF Sent
    <2>2. CASE ShardOf(d) = s
        <3>1. new[i] = d /\ i \in 1..Len(new)
            BY <1>4, <2>2 DEF new
        <3>2. i \in 1..Len(q)
            BY <1>3, <1>5, <3>1 DEF new
        <3>3. q[i] = d
            BY <1>5, <3>1, <3>2 DEF new
        <3> QED
            BY <2>2, <3>2, <3>3 DEF Sent, q
    <2> QED
        BY <2>1, <2>2
<1>11. ShardsSound'
    <2>1. \A r \in Shards, d \in Calls : Runs(r, d) => Runs(r, d)'
        BY <1>2, <1>6, <1>10 DEF Runs, ShardOf
    <2> QED
        BY <1>2, <2>1 DEF Inv, ShardsSound
<1>12. ResultsSound'
    <2>1. Busy' = Busy
        BY <1>2 DEF Busy
    <2> QED
        BY <1>1, <1>2, <1>6, <1>10, <2>1 DEF Inv, ResultsSound
<1>13. WorkersSound'
    BY <1>2, <1>6 DEF Inv, WorkersSound, ShardOf
<1>14. ~closed
    BY <1>2 DEF Inv, ClosingSound
<1>15. ClosingSound'
    BY <1>2, <1>6, <1>14 DEF Inv, ClosingSound
<1>16. EndSound'
    <2>1. \A r \in Shards : worker[r] # "exited"
        BY <1>14 DEF Inv, ClosingSound, WorkersSound
    <2>2. \A d \in Calls : pc'[d] # "alone"
        BY <1>6, <1>14 DEF Inv, ClosingSound
    <2>3. closer # "done"
        BY <1>14 DEF Inv, ClosingSound
    <2> QED
        BY <1>2, <2>1, <2>2, <2>3 DEF EndSound
<1> QED
    BY <1>7, <1>9, <1>11, <1>12, <1>13, <1>15, <1>16 DEF Inv

\* The answer is fetched from the result channel.
LEMMA ReceiveKeepsInv ==
    ASSUME Inv, NEW c \in Calls, Receive(c)
    PROVE  Inv'
<1>1. /\ pc \in [Calls -> CallStates] /\ readers = {d \in Calls : pc[d] \in Holding}
      /\ mailbox \in [Shards -> Seq(Calls)] /\ results \subseteq Calls
    BY DEF Inv, TypeOK
<1>2. /\ pc[c] = "waiting" /\ pc' = [pc EXCEPT ![c] = "answered"] /\ c \in results
      /\ results' = results \ {c}
      /\ UNCHANGED <<readers, closer, closed, started, stopped, mailbox, worker, current>>
    BY DEF Receive, Goes
<1>3. /\ pc' \in [Calls -> CallStates] /\ pc'[c] = "answered"
      /\ \A d \in Calls : d # c => pc'[d] = pc[d]
    BY <1>1, <1>2 DEF CallStates
<1>4. TypeOK'
    <2>1. readers' = {d \in Calls : pc'[d] \in Holding}
        BY <1>1, <1>2, <1>3 DEF Holding
    <2> QED
        BY <1>2, <1>3, <2>1 DEF Inv, TypeOK
<1>5. ~Sent(c) /\ c \notin Busy
    BY <1>2 DEF Inv, ResultsSound
<1>6. \A d : (Sent(d)' <=> Sent(d)) /\ Busy' = Busy
    BY <1>2 DEF Sent, Busy
<1>7. MailboxesSound'
    <2>1. \A s \in Shards : \A i \in 1..Len(mailbox[s]) : mailbox[s][i] # c /\ mailbox[s][i] \in Calls
        BY <1>1, <1>5 DEF Inv, MailboxesSound, Sent
    <2> QED
        BY <1>2, <1>3, <2>1 DEF Inv, MailboxesSound
<1>8. ShardsSound'
    <2>1. \A s \in Shards, d \in Calls : Runs(s, d) => d # c
        BY <1>5 DEF Runs, Busy
    <2>2. \A s \in Shards, d \in Calls : Runs(s, d) => Runs(s, d)'
        BY <1>2, <1>3, <1>6, <2>1 DEF Runs
    <2> QED
        BY <1>2, <2>2 DEF Inv, ShardsSound
<1>9. ResultsSound'
    BY <1>1, <1>2, <1>3, <1>6 DEF Inv, ResultsSound
<1>10. WorkersSound'
    BY <1>2, <1>3 DEF Inv, WorkersSound
<1>11. ClosingSound'
    BY <1>2, <1>3 DEF Inv, ClosingSound
<1>12. EndSound'
    BY <1>2, <1>3 DEF Inv, EndSound, AllExited
<1> QED
    BY <1>4, <1>7, <1>8, <1>9, <1>10, <1>11, <1>12 DEF Inv

\* A shard takes the first command of its mailbox, selecting or draining.
LEMMA TakeKeepsInv ==
    ASSUME Inv, NEW s \in Shards, Select(s) \/ Drain(s)
    PROVE  Inv'
<1>a. PICK q, c, rest : q = mailbox[s] /\ c = Head(q) /\ rest = Tail(q)
    OBVIOUS
<1>1. /\ pc \in [Calls -> CallStates] /\ mailbox \in [Shards -> Seq(Calls)]
      /\ worker \in [Shards -> WorkerStates] /\ current \in [Shards -> SUBSET Calls]
      /\ results \subseteq Calls
      /\ \A r \in Shards : Len(mailbox[r]) <= QueueSize
    BY DEF Inv, TypeOK
<1>2. /\ q # <<>> /\ current' = [current EXCEPT ![s] = {c}] /\ mailbox' = [mailbox EXCEPT ![s] = rest]
      /\ UNCHANGED <<pc, readers, closer, closed, started, stopped, results>>
    BY <1>a DEF Select, Drain, Take
<1>3. \/ worker[s] = "selecting" /\ worker' = [worker EXCEPT ![s] = "running"]
      \/ worker[s] = "draining" /\ worker' = [worker EXCEPT ![s] = "drainRunning"]
    BY DEF Select, Drain, Works
<1>4. q \in Seq(Calls)
    BY <1>a, <1>1
<1>5. /\ Len(q) \in Nat \ {0} /\ c = q[1] /\ c \in Calls
      /\ rest \in Seq(Calls) /\ Len(rest) = Len(q) - 1
      /\ \A i \in 1..Len(rest) : rest[i] = q[i + 1]
    BY <1>a, <1>2, <1>4
<1>6. /\ mailbox'[s] = rest /\ \A r \in Shards : r # s => mailbox'[r] = mailbox[r]
      /\ current'[s] = {c} /\ \A r \in Shards : r # s => current'[r] = current[r]
      /\ \A r \in Shards : r # s => worker'[r] = worker[r]
      /\ worker'[s] \in {"running", "drainRunning"}
    BY <1>1, <1>2, <1>3
<1>7. TypeOK'
    <2>1. mailbox' \in [Shards -> Seq(Calls)] /\ current' \in [Shards -> SUBSET Calls]
        BY <1>1, <1>2, <1>5
    <2>2. worker' \in [Shards -> WorkerStates]
        BY <1>1, <1>3 DEF WorkerStates
    <2>3. \A r \in Shards : Len(mailbox'[r]) <= QueueSize
        BY <1>a, <1>1, <1>5, <1>6, ActorAssumption
    <2> QED
        BY <1>2, <2>1, <2>2, <2>3 DEF Inv, TypeOK
<1>8. \A i, j \in 1..Len(q) : q[i] = q[j] => i = j
    BY <1>a DEF Inv, MailboxesSound
<1>9. \A i \in 1..Len(q) : ShardOf(q[i]) = s /\ pc[q[i]] \in {"sent", "waiting"}
    BY <1>a DEF Inv, MailboxesSound
<1>10. \A i \in 1..Len(rest) : i + 1 \in 1..Len(q) /\ rest[i] # c
    <2> SUFFICES ASSUME NEW i \in 1..Len(rest) PROVE i + 1 \in 1..Len(q) /\ rest[i] # c
        OBVIOUS
    <2>1. i + 1 \in 1..Len(q) /\ 1 \in 1..Len(q) /\ i + 1 # 1
        BY <1>5
    <2>2. rest[i] = q[i + 1] /\ c = q[1]
        BY <1>5
    <2> QED
        BY <1>8, <2>1, <2>2
<1>11. MailboxesSound'
    <2>1. \A r \in Shards : r # s => \A i \in 1..Len(mailbox'[r]) :
              /\ ShardOf(mailbox'[r][i]) = r /\ pc'[mailbox'[r][i]] \in {"sent", "waiting"}
              /\ \A j \in 1..Len(mailbox'[r]) : mailbox'[r][i] = mailbox'[r][j] => i = j
        BY <1>2, <1>6 DEF Inv, MailboxesSound
    <2>2. ASSUME NEW i \in 1..Len(rest)
          PROVE  /\ ShardOf(rest[i]) = s /\ pc[rest[i]] \in {"sent", "waiting"}
                 /\ \A j \in 1..Len(rest) : rest[i] = rest[j] => i = j
        <3>1. i + 1 \in 1..Len(q) /\ rest[i] = q[i + 1]
            BY <1>5, <1>10
        <3>2. \A j \in 1..Len(rest) : rest[i] = rest[j] => i + 1 = j + 1
            BY <1>5, <1>8, <1>10
        <3>3. Len(rest) \in Nat
            BY <1>5
        <3> QED
            BY <1>9, <3>1, <3>2, <3>3
    <2> QED
        BY <1>2, <1>6, <2>1, <2>2 DEF MailboxesSound, ShardOf
<1>12. \A d \in Calls : Sent(d)' => Sent(d) /\ d # c
    <2> SUFFICES ASSUME NEW d \in Calls,
                        NEW i \in 1..Len(mailbox'[ShardOf(d)]), mailbox'[ShardOf(d)][i] = d
                 PROVE  Sent(d) /\ d # c
        BY DEF Sent, ShardOf
    <2>1. CASE ShardOf(d) # s
        <3>1. d # c
            BY <1>5, <1>9, <2>1
        <3> QED
            BY <1>6, <2>1, <3>1, ShardOfCall DEF Sent
    <2>2. CASE ShardOf(d) = s
        <3>1. i \in 1..Len(rest) /\ rest[i] = d
            BY <1>6, <2>2
        <3>2. i + 1 \in 1..Len(q) /\ q[i + 1] = d /\ d # c
            BY <1>5, <1>10, <3>1
        <3> QED
            BY <1>a, <2>2, <3>2 DEF Sent
    <2> QED
        BY <2>1, <2>2
<1>13. Sent(c) /\ ShardOf(c) = s /\ pc[c] \in {"sent", "waiting"}
    BY <1>a, <1>5, <1>9 DEF Sent
<1>14. ShardsSound'
    <2>1. Runs(s, c)'
        <3>1. ~Sent(c)'
            BY <1>5, <1>12
        <3> QED
            BY <1>2, <1>6, <1>13, <3>1 DEF Runs, ShardOf
    <2>2. \A r \in Shards, d \in Calls : r # s /\ Runs(r, d) => Runs(r, d)'
        BY <1>2, <1>6, <1>12 DEF Runs, ShardOf
    <2> QED
        BY <1>5, <1>6, <2>1, <2>2 DEF Inv, ShardsSound
<1>15. ResultsSound'
    <2>1. \A d \in results : d # c
        BY <1>13 DEF Inv, ResultsSound
    <2>2. Busy' \subseteq Busy \cup {c}
        BY <1>6 DEF Busy
    <2> QED
        BY <1>1, <1>2, <1>12, <2>1, <2>2 DEF Inv, ResultsSound
<1>16. WorkersSound'
    <2>1. \A r \in Shards : worker'[r] = "none" <=> worker[r] = "none"
        BY <1>1, <1>3
    <2>2. \A r \in Shards : worker'[r] \in {"draining", "drainRunning", "exited"}
                               => worker[r] \in {"draining", "drainRunning", "exited"}
        BY <1>1, <1>3
    <2> QED
        BY <1>2, <2>1, <2>2 DEF Inv, WorkersSound
<1>17. ClosingSound'
    BY <1>2 DEF Inv, ClosingSound
<1>18. EndSound'
    <2>1. ~AllExited
        BY <1>3 DEF AllExited, Inv, WorkersSound
    <2>2. \A r \in Shards : worker'[r] = "exited" => mailbox'[r] = <<>>
        BY <1>6 DEF Inv, EndSound
    <2> QED
        BY <1>2, <2>1, <2>2 DEF Inv, EndSound
<1> QED
    BY <1>7, <1>11, <1>14, <1>15, <1>16, <1>17, <1>18 DEF Inv

\* A command ends, and its result is there before the shard takes the next one.
LEMMA ExecuteKeepsInv ==
    ASSUME Inv, NEW s \in Shards, NEW outcome, Execute(s, outcome)
    PROVE  Inv'
<1>1. /\ pc \in [Calls -> CallStates] /\ mailbox \in [Shards -> Seq(Calls)]
      /\ worker \in [Shards -> WorkerStates] /\ current \in [Shards -> SUBSET Calls]
      /\ results \subseteq Calls
    BY DEF Inv, TypeOK
<1>2. /\ results' = results \cup current[s] /\ current' = [current EXCEPT ![s] = {}]
      /\ UNCHANGED <<pc, readers, closer, closed, started, stopped, mailbox>>
    BY DEF Execute
<1>3. \/ worker[s] = "running" /\ worker' = [worker EXCEPT ![s] = "selecting"]
      \/ worker[s] = "drainRunning" /\ worker' = [worker EXCEPT ![s] = "draining"]
    BY DEF Execute, Works
<1>4. PICK c \in Calls : Runs(s, c)
    BY <1>3 DEF Inv, ShardsSound
<1>5. /\ current'[s] = {} /\ \A r \in Shards : r # s => current'[r] = current[r]
      /\ \A r \in Shards : r # s => worker'[r] = worker[r]
      /\ worker'[s] \notin {"running", "drainRunning", "exited", "none"}
    BY <1>1, <1>2, <1>3
<1>6. TypeOK'
    <2>1. worker' \in [Shards -> WorkerStates]
        BY <1>1, <1>3 DEF WorkerStates
    <2>2. current' \in [Shards -> SUBSET Calls] /\ results' \subseteq Calls
        BY <1>1, <1>2
    <2> QED
        BY <1>2, <2>1, <2>2 DEF Inv, TypeOK
<1>7. \A d : Sent(d)' <=> Sent(d)
    BY <1>2 DEF Sent
<1>8. MailboxesSound'
    BY <1>2 DEF Inv, MailboxesSound
<1>9. \A r \in Shards : r # s => c \notin current[r]
    <2> SUFFICES ASSUME NEW r \in Shards, r # s, c \in current[r] PROVE FALSE
        OBVIOUS
    <2>1. PICK d \in Calls : Runs(r, d)
        BY DEF Inv, ShardsSound
    <2> QED
        BY <1>4, <2>1 DEF Runs
<1>10. ShardsSound'
    <2>1. \A r \in Shards, d \in Calls : r # s /\ Runs(r, d) => Runs(r, d)'
        BY <1>2, <1>5, <1>7 DEF Runs
    <2> QED
        BY <1>5, <2>1 DEF Inv, ShardsSound
<1>11. ResultsSound'
    <2>1. Busy' \subseteq Busy /\ c \notin Busy'
        BY <1>5, <1>9 DEF Busy
    <2>2. results' = results \cup {c} /\ pc[c] \in {"sent", "waiting"} /\ ~Sent(c)
        BY <1>2, <1>4 DEF Runs
    <2> QED
        BY <1>2, <1>7, <2>1, <2>2 DEF Inv, ResultsSound
<1>12. WorkersSound'
    <2>1. \A r \in Shards : worker'[r] = "none" <=> worker[r] = "none"
        BY <1>1, <1>3
    <2>2. \A r \in Shards : worker'[r] \in {"draining", "drainRunning", "exited"}
                               => worker[r] \in {"draining", "drainRunning", "exited"}
        BY <1>1, <1>3
    <2> QED
        BY <1>2, <2>1, <2>2 DEF Inv, WorkersSound
<1>13. ClosingSound'
    BY <1>2 DEF Inv, ClosingSound
<1>14. EndSound'
    <2>1. ~AllExited
        BY <1>3 DEF AllExited, Inv, WorkersSound
    <2>2. \A r \in Shards : worker'[r] = "exited" => mailbox'[r] = <<>>
        BY <1>2, <1>5 DEF Inv, EndSound
    <2> QED
        BY <1>2, <2>1, <2>2 DEF Inv, EndSound
<1> QED
    BY <1>6, <1>8, <1>10, <1>11, <1>12, <1>13, <1>14 DEF Inv

\* A stopped shard drains its mailbox and exits with an empty one.
LEMMA StopKeepsInv ==
    ASSUME Inv, NEW s \in Shards, SeeStop(s) \/ Exit(s)
    PROVE  Inv'
<1>1. /\ worker \in [Shards -> WorkerStates] /\ mailbox \in [Shards -> Seq(Calls)]
      /\ results \subseteq Calls
    BY DEF Inv, TypeOK
<1>2. UNCHANGED <<pc, readers, closer, closed, started, stopped, mailbox, current, results>>
    BY DEF SeeStop, Exit
<1>3. \/ s \in stopped /\ worker[s] = "selecting" /\ worker' = [worker EXCEPT ![s] = "draining"]
      \/ mailbox[s] = <<>> /\ worker[s] = "draining" /\ worker' = [worker EXCEPT ![s] = "exited"]
    BY DEF SeeStop, Exit, Works
<1>4. TypeOK'
    <2>1. worker' \in [Shards -> WorkerStates]
        BY <1>1, <1>3 DEF WorkerStates
    <2> QED
        BY <1>2, <2>1 DEF Inv, TypeOK
<1>5. MailboxesSound'
    BY <1>2 DEF Inv, MailboxesSound
<1>6. (\A d : Sent(d)' <=> Sent(d)) /\ Busy' = Busy
    BY <1>2 DEF Sent, Busy
<1>7. ShardsSound'
    <2>1. \A r \in Shards : worker'[r] \in {"running", "drainRunning"}
                               <=> worker[r] \in {"running", "drainRunning"}
        BY <1>1, <1>3
    <2> QED
        BY <1>2, <1>6, <2>1 DEF Inv, ShardsSound, Runs
<1>8. ResultsSound'
    BY <1>2, <1>6 DEF Inv, ResultsSound
<1>9. WorkersSound'
    BY <1>1, <1>2, <1>3 DEF Inv, WorkersSound
<1>10. ClosingSound'
    BY <1>2 DEF Inv, ClosingSound
<1>11. EndSound'
    <2>1. ~AllExited
        BY <1>3 DEF AllExited, Inv, WorkersSound
    <2> QED
        BY <1>1, <1>2, <1>3, <2>1 DEF Inv, EndSound
<1> QED
    BY <1>4, <1>5, <1>7, <1>8, <1>9, <1>10, <1>11 DEF Inv

\* The steps of close().
LEMMA CloseKeepsInv ==
    ASSUME Inv, RequestClose \/ StopShards \/ Closed
    PROVE  Inv'
<1>1. UNCHANGED <<pc, readers, started, mailbox, worker, current, results>>
    BY DEF RequestClose, StopShards, Closed
<1>2. MailboxesSound' /\ ShardsSound' /\ ResultsSound'
    BY <1>1, SameServing
<1>3. CASE RequestClose \/ Closed
    <2>1. /\ UNCHANGED <<closed, stopped>>
          /\ \/ closer = "idle" /\ closer' = "locking"
             \/ closer = "waiting" /\ closer' = "done" /\ AllExited
        BY <1>3 DEF RequestClose, Closed, CloserGoes
    <2>2. TypeOK' /\ WorkersSound'
        BY <1>1, <2>1 DEF Inv, TypeOK, WorkersSound
    <2>3. ClosingSound' /\ EndSound'
        BY <1>1, <2>1 DEF Inv, ClosingSound, EndSound, AllExited
    <2> QED
        BY <1>2, <2>2, <2>3 DEF Inv
<1>4. CASE StopShards
    <2>1. /\ closer = "locking" /\ closer' = "waiting" /\ readers = {}
          /\ closed' = TRUE /\ stopped' = started
        BY <1>4 DEF StopShards, CloserGoes
    <2>2. \A c \in Calls : pc[c] \notin {"ready", "sent"}
        BY <2>1 DEF Inv, TypeOK, Holding
    <2>3. ~closed /\ stopped = {}
        BY <2>1 DEF Inv, ClosingSound
    <2>4. TypeOK'
        BY <1>1, <2>1 DEF Inv, TypeOK
    <2>5. WorkersSound' /\ ClosingSound'
        BY <1>1, <2>1, <2>2, <2>3 DEF Inv, WorkersSound, ClosingSound
    <2>6. EndSound'
        BY <1>1, <2>1, <2>3 DEF Inv, EndSound, ClosingSound
    <2> QED
        BY <1>2, <2>4, <2>5, <2>6 DEF Inv
<1> QED
    BY <1>3, <1>4

\* Every step keeps the invariant.
LEMMA StepKeepsInv == Inv /\ [Next]_vars => Inv'
<1> SUFFICES ASSUME Inv, [Next]_vars PROVE Inv'
    OBVIOUS
<1>1. CASE UNCHANGED vars
    <2>1. TypeOK' /\ WorkersSound' /\ ClosingSound' /\ EndSound'
        BY <1>1 DEF vars, Inv, TypeOK, WorkersSound, ClosingSound, EndSound, AllExited
    <2>2. MailboxesSound' /\ ShardsSound' /\ ResultsSound'
        BY <1>1, SameServing DEF vars
    <2> QED
        BY <2>1, <2>2 DEF Inv
<1>2. ASSUME NEW c \in Calls, CallNext(c) PROVE Inv'
    BY <1>2, CallKeepsInv, StartKeepsInv, SendKeepsInv, ReceiveKeepsInv DEF CallNext
<1>3. ASSUME NEW s \in Shards, ShardNext(s) PROVE Inv'
    BY <1>3, TakeKeepsInv, ExecuteKeepsInv, StopKeepsInv DEF ShardNext
<1> QED
    BY <1>1, <1>2, <1>3, CloseKeepsInv DEF Next, CloserNext

-----------------------------------------------------------------------------
(* The lanes *)

\* Once every shard has exited nothing is running and nothing waits.
LEMMA ExitedIsDrained ==
    ASSUME Inv, AllExited
    PROVE  Busy = {} /\ Waiting = {}
<1>1. \A s \in Shards : worker[s] \in {"exited", "none"}
    BY DEF Inv, WorkersSound, AllExited
<1>2. \A s \in Shards : current[s] = {}
    BY <1>1 DEF Inv, ShardsSound
<1>3. ASSUME NEW c \in Calls, Sent(c) PROVE FALSE
    <2> DEFINE s == ShardOf(c)
    <2>1. s \in Shards /\ mailbox[s] # <<>>
        BY <1>3, ShardOfCall DEF Sent
    <2>2. pc[c] \in {"sent", "waiting"}
        BY <1>3, ShardOfCall DEF Sent, Inv, MailboxesSound
    <2>3. s \in started
        BY <2>2 DEF Inv, WorkersSound
    <2> QED
        BY <2>1, <2>3 DEF Inv, EndSound, AllExited
<1> QED
    BY <1>2, <1>3 DEF Busy, Waiting

\* Steps that the lanes do not see.
LEMMA UnseenSteps ==
    ASSUME UNCHANGED <<mailbox, current, results, Refused, Stage>>,
           \A c \in Calls : pc'[c] = "answered" <=> pc[c] = "answered",
           \A c \in Calls : pc'[c] \in {"sent", "waiting"} <=> pc[c] \in {"sent", "waiting"}
    PROVE  UNCHANGED Lanes!vars
<1>1. (\A c : Sent(c)' <=> Sent(c)) /\ (\A b, c : Ahead(b, c)' <=> Ahead(b, c)) /\ Busy' = Busy
    BY DEF Sent, Ahead, Busy
<1>2. Waiting' = Waiting /\ Order' = Order
    BY <1>1 DEF Waiting, Order
<1>3. Ran' = Ran
    BY <1>1 DEF Ran
<1> QED
    BY <1>1, <1>2, <1>3 DEF Lanes!vars

\* Most steps of a call are its own business.
LEMMA CallIsUnseen ==
    ASSUME Inv, NEW c \in Calls,
           Enter(c) \/ Start(c) \/ Release(c) \/ DepartAlone(c) \/ Departed(c)
    PROVE  UNCHANGED Lanes!vars
<1>1. pc \in [Calls -> CallStates]
    BY DEF Inv, TypeOK
<1>2. UNCHANGED <<closer, closed, mailbox, current, results>>
    BY DEF Enter, Start, Release, DepartAlone, Departed
<1>3. \/ pc[c] = "outside" /\ pc' = [pc EXCEPT ![c] = "entered"]
      \/ pc[c] = "entered" /\ pc' = [pc EXCEPT ![c] = "ready"]
      \/ pc[c] = "sent" /\ pc' = [pc EXCEPT ![c] = "waiting"]
      \/ pc[c] = "rejected" /\ pc' = [pc EXCEPT ![c] = "alone"]
      \/ pc[c] = "alone" /\ pc' = [pc EXCEPT ![c] = "departed"]
    BY DEF Enter, Start, Release, DepartAlone, Departed, Goes
<1>4. /\ \A d \in Calls : pc'[d] = "answered" <=> pc[d] = "answered"
      /\ \A d \in Calls : pc'[d] \in {"sent", "waiting"} <=> pc[d] \in {"sent", "waiting"}
      /\ \A d \in Calls : pc'[d] \in {"rejected", "alone", "departed"}
                             <=> pc[d] \in {"rejected", "alone", "departed"}
    BY <1>1, <1>3
<1>5. Refused' = Refused /\ Stage' = Stage
    BY <1>2, <1>4 DEF Refused, Stage
<1> QED
    BY <1>2, <1>4, <1>5, UnseenSteps

\* A call that fetches its result was run before.
LEMMA ReceiveIsUnseen ==
    ASSUME Inv, NEW c \in Calls, Receive(c)
    PROVE  UNCHANGED Lanes!vars
<1>1. pc \in [Calls -> CallStates] /\ results \subseteq Calls
    BY DEF Inv, TypeOK
<1>2. /\ pc[c] = "waiting" /\ pc' = [pc EXCEPT ![c] = "answered"] /\ c \in results
      /\ results' = results \ {c}
      /\ UNCHANGED <<closer, closed, mailbox, current>>
    BY DEF Receive, Goes
<1>3. pc'[c] = "answered" /\ \A d \in Calls : d # c => pc'[d] = pc[d]
    BY <1>1, <1>2
<1>4. (\A d : Sent(d)' <=> Sent(d)) /\ (\A b, d : Ahead(b, d)' <=> Ahead(b, d)) /\ Busy' = Busy
    BY <1>2 DEF Sent, Ahead, Busy
<1>5. Waiting' = Waiting /\ Order' = Order
    BY <1>4 DEF Waiting, Order
<1>6. Ran' = Ran
    BY <1>1, <1>2, <1>3, <1>4 DEF Ran
<1>7. Refused' = Refused /\ Stage' = Stage
    BY <1>2, <1>3 DEF Refused, Stage
<1> QED
    BY <1>4, <1>5, <1>6, <1>7 DEF Lanes!vars

\* A call that has not been sent is new to the lanes.
LEMMA CallIsNew ==
    ASSUME Inv, NEW c \in Calls, pc[c] \in {"entered", "ready"}
    PROVE  c \notin Waiting \cup Busy \cup Ran \cup Refused
<1>1. c \notin Waiting
    BY ShardOfCall DEF Waiting, Sent, Inv, MailboxesSound
<1>2. c \notin Busy
    <2> SUFFICES ASSUME NEW s \in Shards, c \in current[s] PROVE FALSE
        BY DEF Busy
    <2> QED
        BY DEF Inv, ShardsSound, Runs
<1>3. c \notin Ran
    BY DEF Ran, Inv, ResultsSound
<1> QED
    BY <1>1, <1>2, <1>3 DEF Refused

\* A rejected call is refused by its lane, which shutdown has closed.
LEMMA RejectIsRefuse ==
    ASSUME Inv, NEW c \in Calls, Reject(c)
    PROVE  Lanes!Refuse(c)
<1>1. pc \in [Calls -> CallStates] /\ results \subseteq Calls
    BY DEF Inv, TypeOK
<1>2. /\ closed /\ pc[c] = "entered" /\ pc' = [pc EXCEPT ![c] = "rejected"]
      /\ UNCHANGED <<closer, closed, mailbox, current, results>>
    BY DEF Reject, Goes
<1>3. pc'[c] = "rejected" /\ \A d \in Calls : d # c => pc'[d] = pc[d]
    BY <1>1, <1>2
<1>4. (\A d : Sent(d)' <=> Sent(d)) /\ (\A b, d : Ahead(b, d)' <=> Ahead(b, d)) /\ Busy' = Busy
    BY <1>2 DEF Sent, Ahead, Busy
<1>5. Waiting' = Waiting /\ Order' = Order
    BY <1>4 DEF Waiting, Order
<1>6. Ran' = Ran
    BY <1>2, <1>3, <1>4 DEF Ran
<1>7. Refused' = Refused \cup {c} /\ Stage' = Stage /\ Stage # "open"
    BY <1>2, <1>3 DEF Refused, Stage
<1>8. c \notin Waiting \cup Busy \cup Ran \cup Refused
    BY <1>2, CallIsNew
<1> QED
    BY <1>4, <1>5, <1>6, <1>7, <1>8 DEF Lanes!Refuse, Lanes!Fresh

\* A sent command is accepted by its lane, behind those of its room that wait.
LEMMA SendIsAccept ==
    ASSUME Inv, NEW c \in Calls, Send(c)
    PROVE  Lanes!Accept(c)
<1> DEFINE s == ShardOf(c)
<1>0. s \in Shards
    BY ShardOfCall
<1> HIDE DEF s
<1>a. PICK q : q = mailbox[s]
    OBVIOUS
<1>1. pc \in [Calls -> CallStates] /\ mailbox \in [Shards -> Seq(Calls)] /\ results \subseteq Calls
    BY DEF Inv, TypeOK
<1>2. /\ pc[c] = "ready" /\ pc' = [pc EXCEPT ![c] = "sent"]
      /\ mailbox' = [mailbox EXCEPT ![s] = Append(q, c)]
      /\ UNCHANGED <<closer, closed, current, results>>
    BY <1>a DEF Send, Goes, s
<1>3. PICK new : new = Append(q, c)
    OBVIOUS
<1>4. /\ Len(q) \in Nat /\ Len(new) = Len(q) + 1 /\ new[Len(q) + 1] = c
      /\ \A i \in 1..Len(q) : new[i] = q[i]
    BY <1>0, <1>a, <1>1, <1>3
<1>5. mailbox'[s] = new /\ \A r \in Shards : r # s => mailbox'[r] = mailbox[r]
    BY <1>0, <1>1, <1>2, <1>3
<1>6. pc'[c] = "sent" /\ \A d \in Calls : d # c => pc'[d] = pc[d]
    BY <1>1, <1>2
<1>7. /\ \A i \in 1..Len(new) : \/ i \in 1..Len(q) /\ new[i] = q[i]
                                \/ i = Len(q) + 1 /\ new[i] = c
      /\ \A i \in 1..Len(q) : i \in 1..Len(new) /\ i < Len(q) + 1
      /\ Len(q) + 1 \in 1..Len(new)
    BY <1>4
<1>8. c \notin Waiting \cup Busy \cup Ran \cup Refused
    BY <1>2, CallIsNew
<1>9. \A d \in Calls : Sent(d)' <=> Sent(d) \/ d = c
    <2> SUFFICES ASSUME NEW d \in Calls PROVE Sent(d)' <=> Sent(d) \/ d = c
        OBVIOUS
    <2>1. CASE ShardOf(d) # s
        <3>1. d # c
            BY <2>1 DEF s
        <3> QED
            BY <1>5, <2>1, <3>1, ShardOfCall DEF Sent, ShardOf
    <2>2. CASE ShardOf(d) = s
        <3>1. Sent(d) <=> \E i \in 1..Len(q) : q[i] = d
            BY <1>a, <2>2 DEF Sent
        <3>2. Sent(d)' <=> \E i \in 1..Len(new) : new[i] = d
            BY <1>5, <2>2 DEF Sent, ShardOf
        <3>3. (\E i \in 1..Len(new) : new[i] = d) <=> (\E i \in 1..Len(q) : q[i] = d) \/ d = c
            BY <1>4, <1>7
        <3> QED
            BY <3>1, <3>2, <3>3
    <2> QED
        BY <2>1, <2>2
<1>10. Waiting' = Waiting \cup {c}
    BY <1>9 DEF Waiting
<1>11. \A b, d \in Calls : Ahead(b, d)' <=>
            Ahead(b, d) \/ (d = c /\ roomOf[b] = roomOf[c] /\ Sent(b))
    <2> SUFFICES ASSUME NEW b \in Calls, NEW d \in Calls
                 PROVE  Ahead(b, d)' <=> Ahead(b, d) \/ (d = c /\ roomOf[b] = roomOf[c] /\ Sent(b))
        OBVIOUS
    <2>1. CASE ShardOf(d) # s
        <3>1. d # c
            BY <2>1 DEF s
        <3> QED
            BY <1>5, <2>1, <3>1, ShardOfCall DEF Ahead, ShardOf
    <2>2. CASE ShardOf(d) = s
        <3>1. Ahead(b, d) <=> /\ roomOf[b] = roomOf[d]
                              /\ \E i, j \in 1..Len(q) : i < j /\ q[i] = b /\ q[j] = d
            BY <1>a, <2>2 DEF Ahead
        <3>2. Ahead(b, d)' <=> /\ roomOf[b] = roomOf[d]
                               /\ \E i, j \in 1..Len(new) : i < j /\ new[i] = b /\ new[j] = d
            BY <1>5, <2>2 DEF Ahead, ShardOf
        <3>3. roomOf[b] = roomOf[c] => (Sent(b) <=> \E i \in 1..Len(q) : q[i] = b)
            BY <1>a DEF Sent, ShardOf, s
        <3>4. \A i \in 1..Len(q) : q[i] # c
            BY <1>8, <1>a DEF Waiting, Sent, s
        <3>5. ASSUME NEW i \in 1..Len(new), NEW j \in 1..Len(new), i < j, new[i] = b, new[j] = d
              PROVE  \/ i \in 1..Len(q) /\ j \in 1..Len(q) /\ q[i] = b /\ q[j] = d
                     \/ d = c /\ i \in 1..Len(q) /\ q[i] = b
            BY <1>4, <1>7, <3>5
        <3>6. ASSUME NEW i \in 1..Len(q), NEW j \in 1..Len(q), i < j, q[i] = b, q[j] = d
              PROVE  \E k, l \in 1..Len(new) : k < l /\ new[k] = b /\ new[l] = d
            BY <1>4, <1>7, <3>6
        <3>7. ASSUME NEW i \in 1..Len(q), q[i] = b, d = c
              PROVE  \E k, l \in 1..Len(new) : k < l /\ new[k] = b /\ new[l] = d
            BY <1>4, <1>7, <3>7
        <3> QED
            BY <3>1, <3>2, <3>3, <3>5, <3>6, <3>7
    <2> QED
        BY <2>1, <2>2
<1>12. Order' = Order \cup {<<d, c>> : d \in Waiting \cap Lanes!SameRoom(c)}
    BY <1>11 DEF Order, Waiting, Lanes!SameRoom
<1>13. Busy' = Busy /\ Stage' = Stage /\ Stage = "open"
    BY <1>2 DEF Busy, Stage, Inv, ClosingSound
<1>14. Ran' = Ran
    BY <1>2, <1>6, <1>8, <1>9, <1>13 DEF Ran
<1>15. Refused' = Refused
    BY <1>2, <1>6 DEF Refused
<1> QED
    BY <1>8, <1>10, <1>12, <1>13, <1>14, <1>15 DEF Lanes!Accept, Lanes!Fresh

\* The command a shard takes is the first of its room, whose lane is idle: every
\* room has one shard, and that shard runs nothing else.
LEMMA TakeIsBegin ==
    ASSUME Inv, NEW s \in Shards, Select(s) \/ Drain(s)
    PROVE  \E c \in Calls : Lanes!Begin(c)
<1>a. PICK q, c, rest : q = mailbox[s] /\ c = Head(q) /\ rest = Tail(q)
    OBVIOUS
<1>1. /\ pc \in [Calls -> CallStates] /\ mailbox \in [Shards -> Seq(Calls)]
      /\ current \in [Shards -> SUBSET Calls] /\ results \subseteq Calls
    BY DEF Inv, TypeOK
<1>2. /\ q # <<>> /\ current' = [current EXCEPT ![s] = {c}] /\ mailbox' = [mailbox EXCEPT ![s] = rest]
      /\ UNCHANGED <<pc, closer, closed, results>>
    BY <1>a DEF Select, Drain, Take
<1>3. current[s] = {}
    BY DEF Select, Drain, Works, Inv, ShardsSound
<1>4. /\ Len(q) \in Nat \ {0} /\ c = q[1] /\ c \in Calls
      /\ Len(rest) = Len(q) - 1 /\ \A i \in 1..Len(rest) : rest[i] = q[i + 1]
    BY <1>a, <1>1, <1>2
<1>5. /\ mailbox'[s] = rest /\ \A r \in Shards : r # s => mailbox'[r] = mailbox[r]
      /\ current'[s] = {c} /\ \A r \in Shards : r # s => current'[r] = current[r]
    BY <1>1, <1>2
<1>6. /\ \A i, j \in 1..Len(q) : q[i] = q[j] => i = j
      /\ \A i \in 1..Len(q) : ShardOf(q[i]) = s /\ pc[q[i]] \in {"sent", "waiting"}
    BY <1>a DEF Inv, MailboxesSound
<1>7. /\ \A i \in 1..Len(rest) : i + 1 \in 1..Len(q)
      /\ \A i \in 1..Len(q) : i # 1 => i - 1 \in 1..Len(rest) /\ (i - 1) + 1 = i
      /\ 1 \in 1..Len(q)
    BY <1>4
<1>8. /\ \A i \in 1..Len(rest) : i + 1 \in 1..Len(q) /\ rest[i] = q[i + 1]
      /\ \A i \in 1..Len(q) : i # 1 => i - 1 \in 1..Len(rest) /\ rest[i - 1] = q[i]
      /\ \A i \in 1..Len(q) : q[i] = c <=> i = 1
      /\ \A i \in 1..Len(rest) : rest[i] # c
    <2>1. \A i \in 1..Len(q) : q[i] = c <=> i = 1
        BY <1>4, <1>6, <1>7
    <2>2. \A i \in 1..Len(rest) : i + 1 # 1
        BY <1>4
    <2> QED
        BY <1>4, <1>7, <2>1, <2>2
<1>9. Sent(c) /\ ShardOf(c) = s
    BY <1>a, <1>4, <1>6, <1>7 DEF Sent
<1>10. \A d \in Calls : Sent(d)' <=> Sent(d) /\ d # c
    <2> SUFFICES ASSUME NEW d \in Calls PROVE Sent(d)' <=> Sent(d) /\ d # c
        OBVIOUS
    <2>1. CASE ShardOf(d) # s
        <3>1. d # c
            BY <1>9, <2>1
        <3> QED
            BY <1>5, <2>1, <3>1, ShardOfCall DEF Sent, ShardOf
    <2>2. CASE ShardOf(d) = s
        <3>1. Sent(d) <=> \E i \in 1..Len(q) : q[i] = d
            BY <1>a, <2>2 DEF Sent
        <3>2. Sent(d)' <=> \E i \in 1..Len(rest) : rest[i] = d
            BY <1>5, <2>2 DEF Sent, ShardOf
        <3> QED
            BY <1>8, <3>1, <3>2
    <2> QED
        BY <2>1, <2>2
<1>11. Waiting' = Waiting \ {c}
    BY <1>10 DEF Waiting
<1>12. \A b \in Calls : ~Ahead(b, c)
    <2> SUFFICES ASSUME NEW i \in 1..Len(q), NEW j \in 1..Len(q), i < j, q[j] = c PROVE FALSE
        BY <1>a, <1>9 DEF Ahead
    <2> QED
        BY <1>4, <1>8
<1>13. \A b, d \in Calls : Ahead(b, d)' <=> Ahead(b, d) /\ b # c
    <2> SUFFICES ASSUME NEW b \in Calls, NEW d \in Calls
                 PROVE  Ahead(b, d)' <=> Ahead(b, d) /\ b # c
        OBVIOUS
    <2>1. CASE ShardOf(d) # s
        <3>1. roomOf[b] = roomOf[d] => b # c
            BY <1>9, <2>1 DEF ShardOf
        <3> QED
            BY <1>5, <2>1, <3>1, ShardOfCall DEF Ahead, ShardOf
    <2>2. CASE ShardOf(d) = s
        <3>1. Ahead(b, d) <=> /\ roomOf[b] = roomOf[d]
                              /\ \E i, j \in 1..Len(q) : i < j /\ q[i] = b /\ q[j] = d
            BY <1>a, <2>2 DEF Ahead
        <3>2. Ahead(b, d)' <=> /\ roomOf[b] = roomOf[d]
                               /\ \E i, j \in 1..Len(rest) : i < j /\ rest[i] = b /\ rest[j] = d
            BY <1>5, <2>2 DEF Ahead, ShardOf
        <3>3. ASSUME NEW i \in 1..Len(rest), NEW j \in 1..Len(rest), i < j, rest[i] = b, rest[j] = d
              PROVE  b # c /\ \E k, l \in 1..Len(q) : k < l /\ q[k] = b /\ q[l] = d
            <4>1. i + 1 \in 1..Len(q) /\ j + 1 \in 1..Len(q) /\ i + 1 < j + 1
                BY <1>8, <3>3
            <4> QED
                BY <1>8, <3>3, <4>1
        <3>4. ASSUME NEW i \in 1..Len(q), NEW j \in 1..Len(q), i < j, q[i] = b, q[j] = d, b # c
              PROVE  \E k, l \in 1..Len(rest) : k < l /\ rest[k] = b /\ rest[l] = d
            <4>1. i # 1 /\ j # 1 /\ i - 1 < j - 1
                BY <1>8, <3>4
            <4> QED
                BY <1>8, <3>4, <4>1
        <3> QED
            BY <3>1, <3>2, <3>3, <3>4
    <2> QED
        BY <2>1, <2>2
<1>14. Order' = Order \ {<<c, d>> : d \in Calls}
    BY <1>13 DEF Order
<1>15. Busy' = Busy \cup {c}
    BY <1>3, <1>5 DEF Busy
<1>16. Busy \cap Lanes!SameRoom(c) = {}
    <2> SUFFICES ASSUME NEW r \in Shards, NEW d \in current[r], d \in Calls, roomOf[d] = roomOf[c]
                 PROVE  FALSE
        BY DEF Busy, Lanes!SameRoom
    <2>1. PICK e \in Calls : Runs(r, e)
        BY DEF Inv, ShardsSound
    <2>2. d = e /\ ShardOf(d) = r
        BY <2>1 DEF Runs
    <2>3. r = s
        BY <1>9, <2>2 DEF ShardOf
    <2> QED
        BY <1>3, <2>3
<1>17. Ran' = Ran
    <2>1. c \notin results /\ pc[c] \in {"sent", "waiting"}
        BY <1>4, <1>6, <1>7, <1>9 DEF Inv, ResultsSound
    <2> QED
        BY <1>2, <1>9, <1>10, <1>15, <2>1 DEF Ran
<1>18. Refused' = Refused /\ Stage' = Stage
    BY <1>2 DEF Refused, Stage
<1>19. c \in Waiting /\ \A d \in Waiting : <<d, c>> \notin Order
    BY <1>4, <1>9, <1>12 DEF Waiting, Order
<1> QED
    BY <1>4, <1>11, <1>14, <1>15, <1>16, <1>17, <1>18, <1>19 DEF Lanes!Begin

\* The end of a command.
LEMMA ExecuteIsFinish ==
    ASSUME Inv, NEW s \in Shards, NEW outcome, Execute(s, outcome)
    PROVE  \E c \in Calls : Lanes!Finish(c)
<1>1. current \in [Shards -> SUBSET Calls] /\ results \subseteq Calls
    BY DEF Inv, TypeOK
<1>2. /\ results' = results \cup current[s] /\ current' = [current EXCEPT ![s] = {}]
      /\ UNCHANGED <<pc, closer, closed, mailbox>>
    BY DEF Execute
<1>3. worker[s] \in {"running", "drainRunning"}
    BY DEF Execute, Works
<1>4. PICK c \in Calls : Runs(s, c)
    BY <1>3 DEF Inv, ShardsSound
<1>5. current'[s] = {} /\ \A r \in Shards : r # s => current'[r] = current[r]
    BY <1>1, <1>2
<1>6. \A r \in Shards : r # s => c \notin current[r]
    <2> SUFFICES ASSUME NEW r \in Shards, r # s, c \in current[r] PROVE FALSE
        OBVIOUS
    <2>1. PICK d \in Calls : Runs(r, d)
        BY DEF Inv, ShardsSound
    <2> QED
        BY <1>4, <2>1 DEF Runs
<1>7. c \in Busy /\ Busy' = Busy \ {c}
    BY <1>4, <1>5, <1>6 DEF Busy, Runs
<1>8. (\A d : Sent(d)' <=> Sent(d)) /\ (\A b, d : Ahead(b, d)' <=> Ahead(b, d))
    BY <1>2 DEF Sent, Ahead
<1>9. Waiting' = Waiting /\ Order' = Order
    BY <1>8 DEF Waiting, Order
<1>10. Ran' = Ran \cup {c}
    <2>1. results' = results \cup {c} /\ pc[c] \in {"sent", "waiting"} /\ ~Sent(c)
        BY <1>2, <1>4 DEF Runs
    <2> QED
        BY <1>2, <1>7, <1>8, <2>1 DEF Ran
<1>11. Refused' = Refused /\ Stage' = Stage
    BY <1>2 DEF Refused, Stage
<1> QED
    BY <1>7, <1>9, <1>10, <1>11 DEF Lanes!Finish

\* The steps of close(): shutdown begins when the shards are stopped, and is over
\* when the last of them has exited.
LEMMA CloseIsShutdown ==
    ASSUME Inv, RequestClose \/ StopShards \/ Closed
    PROVE  Lanes!Next \/ UNCHANGED Lanes!vars
<1>1. UNCHANGED <<pc, mailbox, current, results>>
    BY DEF RequestClose, StopShards, Closed
<1>2. Refused' = Refused
    BY <1>1 DEF Refused
<1>3. (\A d : Sent(d)' <=> Sent(d)) /\ (\A b, d : Ahead(b, d)' <=> Ahead(b, d)) /\ Busy' = Busy
    BY <1>1 DEF Sent, Ahead, Busy
<1>4. Waiting' = Waiting /\ Order' = Order /\ Ran' = Ran
    BY <1>1, <1>3 DEF Waiting, Order, Ran
<1>5. CASE RequestClose
    <2>1. Stage' = Stage
        BY <1>5 DEF RequestClose, CloserGoes, Stage
    <2> QED
        BY <1>2, <1>3, <1>4, <2>1 DEF Lanes!vars
<1>6. CASE StopShards
    <2>1. Stage = "open" /\ Stage' = "begun"
        BY <1>6 DEF StopShards, CloserGoes, Stage, Inv, ClosingSound
    <2> QED
        BY <1>2, <1>3, <1>4, <2>1 DEF Lanes!Next, Lanes!BeginShutdown
<1>7. CASE Closed
    <2>1. Stage = "begun" /\ Stage' = "over" /\ Busy = {} /\ Waiting = {}
        BY <1>7, ExitedIsDrained DEF Closed, CloserGoes, Stage, Inv, ClosingSound
    <2> QED
        BY <1>2, <1>3, <1>4, <2>1 DEF Lanes!Next, Lanes!EndShutdown
<1> QED
    BY <1>5, <1>6, <1>7

\* Every step of the actors is a step of the lanes or none.
LEMMA StepIsLaneStep ==
    ASSUME Inv, [Next]_vars
    PROVE  Lanes!Next \/ UNCHANGED Lanes!vars
<1>1. CASE UNCHANGED vars
    BY <1>1, UnseenSteps DEF vars, Refused, Stage
<1>2. ASSUME NEW c \in Calls, CallNext(c) PROVE Lanes!Next \/ UNCHANGED Lanes!vars
    BY <1>2, CallIsUnseen, ReceiveIsUnseen, RejectIsRefuse, SendIsAccept DEF CallNext, Lanes!Next
<1>3. ASSUME NEW s \in Shards, ShardNext(s) PROVE Lanes!Next \/ UNCHANGED Lanes!vars
    <2>1. CASE SeeStop(s) \/ Exit(s)
        BY <2>1, UnseenSteps DEF SeeStop, Exit, Refused, Stage
    <2> QED
        BY <1>3, <2>1, TakeIsBegin, ExecuteIsFinish DEF ShardNext, Lanes!Next
<1> QED
    BY <1>1, <1>2, <1>3, CloseIsShutdown DEF Next, CloserNext

-----------------------------------------------------------------------------
(* Theorems *)

\* The inductive invariant holds of every state of the actor system.
THEOREM InvHolds == Spec => []Inv
BY InvInit, StepKeepsInv, PTL DEF Spec

\* The read lock is held exactly from call's RLock to its RUnlock, and no mailbox
\* exceeds its size, for any number of calls and shards.
THEOREM ActorsTyped == Spec => []TypeOK
<1>1. Inv => TypeOK
    BY DEF Inv
<1> QED
    BY InvHolds, <1>1, PTL

\* The cleanup of a connection that shutdown has turned away never meets a command,
\* running or waiting, of any room.
THEOREM CleanupRunsAlone == Spec => []AloneMeansDrained
<1>1. Inv => AloneMeansDrained
    BY ExitedIsDrained DEF Inv, EndSound, AloneMeansDrained, Waiting
<1> QED
    BY InvHolds, <1>1, PTL

\* The actors implement the lanes: for any number of rooms and shards, the accepted
\* calls of a room run one at a time and in the order they were sent, nothing is
\* accepted once shutdown has begun, and shutdown ends with every lane empty.
THEOREM ActorsImplementLanes == Spec => LanesSpec
<1>1. Init => Lanes!Init
    <2> SUFFICES ASSUME Init PROVE Lanes!Init
        OBVIOUS
    <2>1. (\A c \in Calls : ~Sent(c)) /\ (\A b, c \in Calls : ~Ahead(b, c)) /\ Busy = {}
        BY ShardOfCall DEF Init, Sent, Ahead, Busy
    <2>2. Waiting = {} /\ Order = {} /\ Ran = {} /\ Refused = {} /\ Stage = "open"
        BY <2>1 DEF Init, Waiting, Order, Ran, Refused, Stage
    <2> QED
        BY <2>1, <2>2 DEF Lanes!Init
<1>2. Inv /\ [Next]_vars => [Lanes!Next]_Lanes!vars
    BY StepIsLaneStep
<1> QED
    BY InvHolds, <1>1, <1>2, PTL DEF Spec, LanesSpec, Lanes!Spec
=============================================================================
