----------------------- MODULE StreamSupervisorProofs -----------------------
(***************************************************************************)
(* Proofs, for any loops, symbols and number of faults, of what the hub     *)
(* keeps of its streams, that its rebuilds are those of ReconnectOnce, and  *)
(* that no half-built stream stays in use.                                 *)
(***************************************************************************)
EXTENDS StreamSupervisor, SequenceTheorems, TLAPS

Working == Building \cup {"backoff"}

\* The loop that holds the lock is the one that works on the stream; it reports
\* the failure of the current generation.
LockInv ==
    /\ \A l \in Loops : pc[l] \in Working <=> lock = l
    /\ \A l \in Loops : lock = l => gen[l] = generation

\* A loop that is queued waits its turn.
QueueInv ==
    \A l \in Loops : pc[l] = "queued" => \E i \in 1..Len(queue) : queue[i] = l

\* There is no current stream until the replaced one was closed, and a replaced
\* one only while it is closed.
OldInv ==
    /\ \A l \in Loops : pc[l] \in {"closing", "building"} => streamer = 0
    /\ \A l \in Loops : pc[l] = "closing" => old # 0
    /\ old # 0 => \E l \in Loops : pc[l] = "closing"

\* A connection is open only as the current one, as the one a rebuild is closing,
\* or because its close failed.
UpInv == ~stopped => up \subseteq {streamer, old} \cup leaked

IInv == TypeOK /\ LockInv /\ QueueInv /\ OldInv /\ UpInv

-----------------------------------------------------------------------------
USE StreamAssumption

(* How a rebuild goes on, and how it ends.                                 *)

\* The holder of the lock goes from one call of _connect to the next.
Works(l) ==
    /\ pc[l] \in Working
    /\ \E label \in Building : pc' = [pc EXCEPT ![l] = label]
    /\ UNCHANGED <<on, gen, queue, generation, lock>>

\* _connect returned.
Completes(l) ==
    /\ pc[l] \in {"trade0", "summary"} /\ streamer # 0
    /\ generation' = generation + 1 /\ lock' = None
    /\ gen' = [gen EXCEPT ![l] = generation + 1]
    /\ on' = [on EXCEPT ![l] = streamer]
    /\ pc' = [pc EXCEPT ![l] = "listening"]
    /\ UNCHANGED <<streamer, old, queue>>

\* _connect raised.
Abandons(l) ==
    /\ pc[l] \in Building \ {"closing"}
    /\ lock' = None /\ old' = 0
    /\ gen' = [gen EXCEPT ![l] = generation]
    /\ on' = [on EXCEPT ![l] = streamer]
    /\ \/ /\ streamer = 0
          /\ pc' = [pc EXCEPT ![l] = "queued"] /\ queue' = Append(queue, l)
       \/ /\ streamer # 0
          /\ pc' = [pc EXCEPT ![l] = "listening"] /\ queue' = queue
    /\ UNCHANGED <<streamer, generation>>

\* LateIn, of a loop that waited in vain.
Joins(l) ==
    /\ pc[l] = "queued" /\ lock = None /\ Head(queue) = l /\ generation # gen[l]
    /\ gen' = [gen EXCEPT ![l] = generation]
    /\ on' = [on EXCEPT ![l] = streamer]
    /\ \/ /\ streamer = 0
          /\ pc' = [pc EXCEPT ![l] = "queued"] /\ queue' = Append(Tail(queue), l)
       \/ /\ streamer # 0
          /\ pc' = [pc EXCEPT ![l] = "listening"] /\ queue' = Tail(queue)
    /\ UNCHANGED <<streamer, generation, lock, old>>

LEMMA StreamerIsUp ==
    ASSUME TypeOK, NEW wanted, Subscribe(wanted)
    PROVE  streamer \in 1..opened /\ streamer # 0
  BY DEF TypeOK, Subscribe

LEMMA ReconnectedCompletes ==
    ASSUME NEW l \in Loops, pc[l] \in {"trade0", "summary"}, streamer # 0, Reconnected(l)
    PROVE  Completes(l)
  BY DEF Completes, Reconnected, Resume

LEMMA ConnectGoesOn ==
    ASSUME TypeOK, NEW l \in Loops, Connect(l)
    PROVE  Works(l) \/ Completes(l) \/ Abandons(l)
  <1> USE DEF Goto, connection
  <1>1. CASE BeginConnect(l)
    BY <1>1 DEF BeginConnect, Works, Working, Building
  <1>2. CASE CloseOld(l)
    BY <1>2 DEF CloseOld, Works, Working, Building
  <1>3. CASE Build(l)
    BY <1>3 DEF Build, Works, Working, Building
  <1>4. CASE SubscribeBase(l)
    <2>1. streamer # 0
      BY <1>4, StreamerIsUp DEF SubscribeBase
    <2>2. CASE pc[l] = "quote0"
      BY <1>4, <2>2 DEF SubscribeBase, Works, Working, Building
    <2>3. CASE pc[l] = "trade0" /\ options = {}
      BY <1>4, <2>1, <2>3, ReconnectedCompletes DEF SubscribeBase
    <2>4. CASE pc[l] = "trade0" /\ options # {}
      BY <1>4, <2>4 DEF SubscribeBase, Works, Working, Building
    <2> QED
      BY <1>4, <2>2, <2>3, <2>4 DEF SubscribeBase
  <1>5. CASE SubscribeOptions(l)
    <2>1. streamer # 0
      BY <1>5, StreamerIsUp DEF SubscribeOptions
    <2>2. CASE pc[l] = "summary"
      BY <1>5, <2>1, <2>2, ReconnectedCompletes DEF SubscribeOptions
    <2>3. CASE pc[l] # "summary"
      BY <1>5, <2>3 DEF SubscribeOptions, OptKinds, Works, Working, Building
    <2> QED
      BY <2>2, <2>3
  <1>6. CASE ConnectFails(l)
    BY <1>6 DEF ConnectFails, Resume, Abandons
  <1> QED
    BY <1>1, <1>2, <1>3, <1>4, <1>5, <1>6 DEF Connect

LEMMA LateJoins ==
    ASSUME NEW l \in Loops, LateIn(l)
    PROVE  Joins(l)
  BY DEF LateIn, Acquires, Resume, Joins, connection

Others ==
    \/ \E wanted \in SUBSET Symbols : WatchCall(wanted)
    \/ WatchOptions \/ Warmup
    \/ \E s \in up : Drop(s)

\* watch_options, the warmup and the feed leave the loops and the rebuild alone.
LEMMA OthersLeave ==
    ASSUME Others \/ UNCHANGED vars
    PROVE  UNCHANGED <<streamer, generation, lock, old, syms, pc, on, gen, queue, stopped,
                       leaked>>
  BY DEF Others, WatchCall, WatchOptions, WatchStep, WatchRaises, Warmup, WarmupSubscribes,
     WarmupFails, WarmupLoads, Drop, vars, connection, tasks

\* The steps of the supervised loops, the hub and the rest.
LEMMA Steps ==
    ASSUME [Next]_vars
    PROVE  \/ \E l \in Loops : LoopDies(l) \/ FirstIn(l) \/ LateIn(l) \/ Connect(l)
           \/ Stop
           \/ Others \/ UNCHANGED vars
  BY DEF Next, Supervised, Others

-----------------------------------------------------------------------------
(* The rebuild and the queue.                                              *)

\* Every step keeps the lock with the one loop that rebuilds.
LEMMA LockStep == TypeOK /\ LockInv /\ [Next]_vars => LockInv'
  <1> SUFFICES ASSUME TypeOK, LockInv, [Next]_vars
               PROVE  LockInv'
    OBVIOUS
  <1> USE DEF LockInv
  <1>0. /\ pc \in [Loops -> Labels] /\ gen \in [Loops -> 0..generation] /\ None \notin Loops
        /\ \A l \in Loops : pc[l] \in {"listening", "queued", "ended"} => pc[l] \notin Working
    BY DEF TypeOK, Working, Building
  <1>1. ASSUME NEW l \in Loops, LoopDies(l)
        PROVE  LockInv'
    <2>1. /\ pc[l] = "listening" /\ pc' = [pc EXCEPT ![l] = "queued"]
          /\ UNCHANGED <<gen, generation, lock>>
      BY <1>1 DEF LoopDies, connection
    <2> QED
      BY <1>0, <2>1 DEF Working, Building
  <1>2. ASSUME NEW l \in Loops, FirstIn(l)
        PROVE  LockInv'
    <2>1. /\ pc[l] = "queued" /\ lock = None /\ lock' = l /\ generation = gen[l]
          /\ pc' = [pc EXCEPT ![l] = "backoff"] /\ UNCHANGED <<gen, generation>>
      BY <1>2 DEF FirstIn, Acquires
    <2> QED
      BY <1>0, <2>1 DEF Working
  <1>3. ASSUME NEW l \in Loops, Joins(l)
        PROVE  LockInv'
    <2>1. pc' = [pc EXCEPT ![l] = "queued"] \/ pc' = [pc EXCEPT ![l] = "listening"]
      BY <1>3 DEF Joins
    <2>2. lock = None /\ lock' = None /\ pc[l] = "queued"
      BY <1>3 DEF Joins
    <2> QED
      BY <1>0, <2>1, <2>2 DEF Working, Building
  <1>4. ASSUME NEW l \in Loops, Works(l)
        PROVE  LockInv'
    <2>1. PICK label \in Building : pc' = [pc EXCEPT ![l] = label]
      BY <1>4 DEF Works
    <2>2. pc[l] \in Working /\ pc'[l] \in Working /\ \A k \in Loops \ {l} : pc'[k] = pc[k]
      BY <1>0, <1>4, <2>1 DEF Works, Working
    <2> QED
      BY <1>4, <2>2 DEF Works
  <1>5. ASSUME NEW l \in Loops, Completes(l) \/ Abandons(l)
        PROVE  LockInv'
    <2>1. lock' = None /\ pc[l] \in Working
      BY <1>5 DEF Completes, Abandons, Working, Building
    <2>2. pc' = [pc EXCEPT ![l] = "queued"] \/ pc' = [pc EXCEPT ![l] = "listening"]
      BY <1>5 DEF Completes, Abandons
    <2>3. lock = l
      BY <2>1
    <2> QED
      BY <1>0, <2>1, <2>2, <2>3 DEF Working, Building
  <1>6. CASE Stop
    BY <1>6 DEF Stop, Working, Building
  <1>7. CASE Others \/ UNCHANGED vars
    BY <1>7, OthersLeave
  <1> QED
    BY <1>1, <1>2, <1>3, <1>4, <1>5, <1>6, <1>7, Steps, ConnectGoesOn, LateJoins

\* What is appended to a queue, and what is behind its head, is in it.
LEMMA Appended ==
    ASSUME NEW s \in Seq(Loops), NEW l \in Loops
    PROVE  /\ Append(s, l) \in Seq(Loops)
           /\ \E i \in 1..Len(Append(s, l)) : Append(s, l)[i] = l
           /\ \A k \in Loops : (\E i \in 1..Len(s) : s[i] = k)
                  => \E i \in 1..Len(Append(s, l)) : Append(s, l)[i] = k
  OBVIOUS

LEMMA BehindHead ==
    ASSUME NEW s \in Seq(Loops), NEW k \in Loops, k # Head(s), NEW i \in 1..Len(s), s[i] = k
    PROVE  /\ s # <<>> /\ Tail(s) \in Seq(Loops)
           /\ \E j \in 1..Len(Tail(s)) : Tail(s)[j] = k
  <1>1. i # 1 /\ s # <<>>
    OBVIOUS
  <1>2. i - 1 \in 1..Len(Tail(s)) /\ Tail(s)[i - 1] = s[i]
    BY <1>1
  <1> QED
    BY <1>1, <1>2

\* Every step keeps each queued loop in the queue.
LEMMA QueueStep == TypeOK /\ QueueInv /\ [Next]_vars => QueueInv'
  <1> SUFFICES ASSUME TypeOK, QueueInv, [Next]_vars
               PROVE  QueueInv'
    OBVIOUS
  <1> USE DEF QueueInv
  <1> DEFINE In(k, s) == \E i \in 1..Len(s) : s[i] = k
  <1>0. pc \in [Loops -> Labels] /\ queue \in Seq(Loops)
    BY DEF TypeOK
  <1>a. ASSUME NEW l \in Loops, NEW s \in Seq(Loops),
               \A k \in Loops \ {l} : pc[k] = "queued" => In(k, s),
               \/ pc' = [pc EXCEPT ![l] = "queued"] /\ queue' = Append(s, l)
               \/ /\ \E label : label # "queued" /\ pc' = [pc EXCEPT ![l] = label]
                  /\ queue' = s
        PROVE  QueueInv'
    <2>1. CASE pc' = [pc EXCEPT ![l] = "queued"] /\ queue' = Append(s, l)
      <3>1. \A k \in Loops \ {l} : pc'[k] = pc[k]
        BY <1>0, <2>1
      <3> QED
        BY <1>a, <2>1, <3>1, Appended
    <2>2. ASSUME NEW label, label # "queued", pc' = [pc EXCEPT ![l] = label], queue' = s
          PROVE  QueueInv'
      BY <1>0, <1>a, <2>2
    <2> QED
      BY <1>a, <2>1, <2>2
  <1>b. ASSUME NEW l \in Loops, pc[l] = "queued", Head(queue) = l
        PROVE  /\ Tail(queue) \in Seq(Loops)
               /\ \A k \in Loops \ {l} : pc[k] = "queued" => In(k, Tail(queue))
    <2>1. queue # <<>>
      BY <1>b, <1>0
    <2>2. Tail(queue) \in Seq(Loops)
      BY <2>1, <1>0
    <2>3. ASSUME NEW k \in Loops \ {l}, pc[k] = "queued"
          PROVE  In(k, Tail(queue))
      <3>1. PICK i \in 1..Len(queue) : queue[i] = k
        BY <2>3
      <3> QED
        BY <1>0, <1>b, <3>1, BehindHead
    <2> QED
      BY <2>2, <2>3
  <1>1. ASSUME NEW l \in Loops, LoopDies(l)
        PROVE  QueueInv'
    <2>1. pc' = [pc EXCEPT ![l] = "queued"] /\ queue' = Append(queue, l)
      BY <1>1 DEF LoopDies
    <2> QED
      BY <1>0, <1>a, <2>1
  <1>2. ASSUME NEW l \in Loops, FirstIn(l)
        PROVE  QueueInv'
    <2>1. /\ pc[l] = "queued" /\ Head(queue) = l
          /\ pc' = [pc EXCEPT ![l] = "backoff"] /\ queue' = Tail(queue)
      BY <1>2 DEF FirstIn, Acquires
    <2> QED
      BY <1>a, <1>b, <2>1
  <1>3. ASSUME NEW l \in Loops, Joins(l)
        PROVE  QueueInv'
    <2>1. pc[l] = "queued" /\ Head(queue) = l
      BY <1>3 DEF Joins
    <2>2. \/ pc' = [pc EXCEPT ![l] = "queued"] /\ queue' = Append(Tail(queue), l)
          \/ pc' = [pc EXCEPT ![l] = "listening"] /\ queue' = Tail(queue)
      BY <1>3 DEF Joins
    <2> QED
      BY <1>a, <1>b, <2>1, <2>2
  <1>4. ASSUME NEW l \in Loops, Works(l)
        PROVE  QueueInv'
    <2>1. PICK label \in Building : pc' = [pc EXCEPT ![l] = label]
      BY <1>4 DEF Works
    <2>2. label # "queued" /\ queue' = queue
      BY <1>4 DEF Works, Building
    <2> QED
      BY <1>0, <1>a, <2>1, <2>2
  <1>5. ASSUME NEW l \in Loops, Completes(l) \/ Abandons(l)
        PROVE  QueueInv'
    <2>1. \/ pc' = [pc EXCEPT ![l] = "queued"] /\ queue' = Append(queue, l)
          \/ pc' = [pc EXCEPT ![l] = "listening"] /\ queue' = queue
      BY <1>5 DEF Completes, Abandons
    <2> QED
      BY <1>0, <1>a, <2>1
  <1>6. CASE Stop
    BY <1>6 DEF Stop
  <1>7. CASE Others \/ UNCHANGED vars
    BY <1>7, OthersLeave
  <1> QED
    BY <1>1, <1>2, <1>3, <1>4, <1>5, <1>6, <1>7, Steps, ConnectGoesOn, LateJoins

-----------------------------------------------------------------------------
(* Types.                                                                  *)

TasksTyped ==
    /\ pc \in [Loops -> Labels] /\ queue \in Seq(Loops)
    /\ generation \in Nat /\ lock \in Loops \cup {None}
    /\ gen \in [Loops -> 0..generation]

\* Every step keeps the types of the loops.
LEMMA TasksStep == TypeOK /\ QueueInv /\ [Next]_vars =>
                       TasksTyped' /\ on' \in [Loops -> 0..opened]
  <1> SUFFICES ASSUME TypeOK, QueueInv, [Next]_vars
               PROVE  TasksTyped' /\ on' \in [Loops -> 0..opened]
    OBVIOUS
  <1> USE DEF TasksTyped
  <1>0. /\ pc \in [Loops -> Labels] /\ queue \in Seq(Loops) /\ generation \in Nat
        /\ lock \in Loops \cup {None} /\ gen \in [Loops -> 0..generation]
        /\ on \in [Loops -> 0..opened] /\ streamer \in 0..opened
    BY DEF TypeOK
  <1>a. {"listening", "queued", "backoff", "ended"} \cup Building \subseteq Labels
    BY DEF Labels
  <1>b. ASSUME NEW l \in Loops, pc[l] = "queued"
        PROVE  queue # <<>> /\ Tail(queue) \in Seq(Loops)
    BY <1>0, <1>b DEF QueueInv
  <1>1. ASSUME NEW l \in Loops, LoopDies(l)
        PROVE  TasksTyped' /\ on' \in [Loops -> 0..opened]
    <2>1. /\ pc' = [pc EXCEPT ![l] = "queued"] /\ queue' = Append(queue, l)
          /\ UNCHANGED <<on, gen, generation, lock>>
      BY <1>1 DEF LoopDies, connection
    <2> QED
      BY <1>0, <1>a, <2>1
  <1>2. ASSUME NEW l \in Loops, FirstIn(l)
        PROVE  TasksTyped' /\ on' \in [Loops -> 0..opened]
    <2>1. /\ pc[l] = "queued" /\ pc' = [pc EXCEPT ![l] = "backoff"]
          /\ queue' = Tail(queue) /\ lock' = l /\ UNCHANGED <<on, gen, generation>>
      BY <1>2 DEF FirstIn, Acquires
    <2> QED
      BY <1>0, <1>a, <1>b, <2>1
  <1>3. ASSUME NEW l \in Loops, Joins(l)
        PROVE  TasksTyped' /\ on' \in [Loops -> 0..opened]
    <2>1. Tail(queue) \in Seq(Loops) /\ queue' \in {Append(Tail(queue), l), Tail(queue)}
      BY <1>3, <1>b DEF Joins
    <2>2. queue' \in Seq(Loops)
      BY <2>1
    <2>3. pc' = [pc EXCEPT ![l] = "queued"] \/ pc' = [pc EXCEPT ![l] = "listening"]
      BY <1>3 DEF Joins
    <2>4. /\ gen' = [gen EXCEPT ![l] = generation] /\ on' = [on EXCEPT ![l] = streamer]
          /\ UNCHANGED <<generation, lock>>
      BY <1>3 DEF Joins
    <2>5. gen' \in [Loops -> 0..generation] /\ on' \in [Loops -> 0..opened]
      BY <1>0, <2>4
    <2> QED
      BY <1>0, <1>a, <2>2, <2>3, <2>4, <2>5
  <1>4. ASSUME NEW l \in Loops, Works(l)
        PROVE  TasksTyped' /\ on' \in [Loops -> 0..opened]
    BY <1>0, <1>a, <1>4 DEF Works
  <1>5. ASSUME NEW l \in Loops, Completes(l)
        PROVE  TasksTyped' /\ on' \in [Loops -> 0..opened]
    <2>1. gen' \in [Loops -> 0..generation']
      <3>1. gen' = [gen EXCEPT ![l] = generation + 1] /\ generation' = generation + 1
        BY <1>5 DEF Completes
      <3>2. generation + 1 \in 0..generation + 1 /\ \A k \in Loops : gen[k] \in 0..generation + 1
        BY <1>0
      <3> QED
        BY <1>0, <3>1, <3>2
    <2>2. on' \in [Loops -> 0..opened]
      BY <1>0, <1>5 DEF Completes
    <2> QED
      BY <1>0, <1>a, <1>5, <2>1, <2>2 DEF Completes
  <1>6. ASSUME NEW l \in Loops, Abandons(l)
        PROVE  TasksTyped' /\ on' \in [Loops -> 0..opened]
    <2>1. gen' \in [Loops -> 0..generation] /\ on' \in [Loops -> 0..opened]
      BY <1>0, <1>6 DEF Abandons
    <2>2. queue' \in {queue, Append(queue, l)}
      BY <1>6 DEF Abandons
    <2>3. pc' = [pc EXCEPT ![l] = "queued"] \/ pc' = [pc EXCEPT ![l] = "listening"]
      BY <1>6 DEF Abandons
    <2>4. queue' \in Seq(Loops)
      <3>1. Append(queue, l) \in Seq(Loops)
        BY <1>0, Appended
      <3> QED
        BY <1>0, <2>2, <3>1
    <2>5. pc' \in [Loops -> Labels]
      BY <1>0, <1>a, <2>3
    <2> QED
      BY <1>0, <1>6, <2>1, <2>4, <2>5 DEF Abandons
  <1>7. CASE Stop
    BY <1>0, <1>a, <1>7 DEF Stop
  <1>8. CASE Others \/ UNCHANGED vars
    BY <1>0, <1>8, OthersLeave
  <1> QED
    BY <1>1, <1>2, <1>3, <1>4, <1>5, <1>6, <1>7, <1>8, Steps, ConnectGoesOn, LateJoins

HubTyped ==
    /\ streamer \in 0..opened /\ old \in 0..opened /\ opened \in Nat
    /\ options \subseteq Symbols /\ syms \subseteq Symbols
    /\ watch \in OptKinds \cup {"idle"} /\ new \subseteq Symbols
    /\ warm \in {"start", "listening", "set"} /\ warmOn \in 0..opened
    /\ stopped \in BOOLEAN /\ up \subseteq 1..opened
    /\ subs \in [1..opened -> SUBSET Channels]
    /\ faults \in 0..MaxFaults
    /\ leaked \subseteq 1..opened /\ refused \subseteq Symbols

\* A subscription adds channels to a connection; a fault is counted.
LEMMA SubscribeTypes ==
    ASSUME TypeOK, NEW wanted \in SUBSET Channels, Subscribe(wanted)
    PROVE  subs' \in [1..opened -> SUBSET Channels]
  BY StreamerIsUp DEF Subscribe, TypeOK

LEMMA FaultTypes ==
    ASSUME TypeOK, Fault \/ NoFault \/ SubscribeRaises
    PROVE  faults' \in 0..MaxFaults
  BY DEF Fault, NoFault, SubscribeRaises, TypeOK

LEMMA OptionChannels ==
    ASSUME NEW k \in OptKinds, NEW wanted \in SUBSET Symbols
    PROVE  {k} \X wanted \in SUBSET Channels
  BY DEF Channels, OptKinds, Kinds

\* Every step keeps the types of the hub and of the feed.
LEMMA HubStep == TypeOK /\ OldInv /\ [Next]_vars => HubTyped' /\ opened <= opened'
  <1> SUFFICES ASSUME TypeOK, OldInv, [Next]_vars
               PROVE  HubTyped' /\ opened <= opened'
    OBVIOUS
  <1> USE DEF HubTyped, connection, tasks, watching, warmup, feed
  <1>0. HubTyped /\ opened \in Nat
    BY DEF TypeOK
  <1>a. ASSUME NEW l \in Loops, Reconnected(l), UNCHANGED <<opened>>
        PROVE  /\ UNCHANGED <<streamer, old>> /\ syms' = {}
               /\ refused' \subseteq Symbols
    BY <1>0, <1>a DEF Reconnected
  <1>1. ASSUME NEW l \in Loops, LoopDies(l)
        PROVE  HubTyped' /\ opened <= opened'
    <2>1. faults' \in 0..MaxFaults
      BY <1>1, FaultTypes DEF LoopDies
    <2> QED
      BY <1>0, <1>1, <2>1 DEF LoopDies
  <1>2. ASSUME NEW l \in Loops, FirstIn(l)
        PROVE  HubTyped' /\ opened <= opened'
    BY <1>0, <1>2 DEF FirstIn
  <1>3. ASSUME NEW l \in Loops, LateIn(l)
        PROVE  HubTyped' /\ opened <= opened'
    BY <1>0, <1>3 DEF LateIn
  <1>4. ASSUME NEW l \in Loops, BeginConnect(l)
        PROVE  HubTyped' /\ opened <= opened'
    BY <1>0, <1>4 DEF BeginConnect
  <1>5. ASSUME NEW l \in Loops, CloseOld(l)
        PROVE  HubTyped' /\ opened <= opened'
    <2>1. faults' \in 0..MaxFaults
      BY <1>5, FaultTypes DEF CloseOld
    <2>2. up' \subseteq 1..opened /\ opened' = opened
      BY <1>0, <1>5 DEF CloseOld
    <2>3. leaked' \subseteq 1..opened
      <3>1. old \in 1..opened
        BY <1>0, <1>5 DEF CloseOld, OldInv
      <3>2. leaked' = leaked \/ leaked' = leaked \cup {old}
        BY <1>5 DEF CloseOld
      <3> QED
        BY <1>0, <3>1, <3>2
    <2> QED
      BY <1>0, <1>5, <2>1, <2>2, <2>3 DEF CloseOld
  <1>6. ASSUME NEW l \in Loops, Build(l)
        PROVE  HubTyped' /\ opened <= opened'
    <2>1. subs' \in [1..opened + 1 -> SUBSET Channels]
      BY <1>0, <1>6 DEF Build
    <2>2. opened' = opened + 1 /\ streamer' = opened + 1 /\ up' = up \cup {opened + 1}
      BY <1>6 DEF Build
    <2>3. up' \subseteq 1..opened + 1 /\ leaked \subseteq 1..opened + 1
      BY <1>0, <2>2
    <2>4. old \in 0..opened + 1 /\ warmOn \in 0..opened + 1 /\ streamer' \in 0..opened + 1
      BY <1>0, <2>2
    <2> QED
      BY <1>0, <1>6, <2>1, <2>2, <2>3, <2>4 DEF Build
  <1>7. ASSUME NEW l \in Loops, SubscribeBase(l)
        PROVE  HubTyped' /\ opened <= opened'
    <2>1. <<"quote", Underlying>> \in Channels /\ <<"trade", Underlying>> \in Channels
      BY DEF Channels, Kinds
    <2>2. subs' \in [1..opened -> SUBSET Channels]
      BY <1>7, <2>1, SubscribeTypes DEF SubscribeBase
    <2>3. faults' \in 0..MaxFaults
      BY <1>7, FaultTypes DEF SubscribeBase, Subscribe
    <2>4. /\ UNCHANGED <<streamer, old, options, watch, new, warm, warmOn, opened, up, stopped,
                         leaked>>
          /\ syms' \in {syms, options, {}} /\ refused' \subseteq Symbols
      BY <1>0, <1>7, <1>a DEF SubscribeBase
    <2> QED
      BY <1>0, <2>2, <2>3, <2>4
  <1>8. ASSUME NEW l \in Loops, SubscribeOptions(l)
        PROVE  HubTyped' /\ opened <= opened'
    <2>1. {pc[l]} \X syms \in SUBSET Channels
      BY <1>0, <1>8, OptionChannels DEF SubscribeOptions
    <2>2. subs' \in [1..opened -> SUBSET Channels]
      BY <1>8, <2>1, SubscribeTypes DEF SubscribeOptions
    <2>3. faults' \in 0..MaxFaults
      BY <1>8, FaultTypes DEF SubscribeOptions, Subscribe
    <2>4. /\ UNCHANGED <<streamer, old, options, watch, new, warm, warmOn, opened, up, stopped,
                         leaked>>
          /\ syms' \in {syms, {}} /\ refused' \subseteq Symbols
      BY <1>0, <1>8, <1>a DEF SubscribeOptions
    <2> QED
      BY <1>0, <2>2, <2>3, <2>4
  <1>9. ASSUME NEW l \in Loops, ConnectFails(l)
        PROVE  HubTyped' /\ opened <= opened'
    <2>1. faults' \in 0..MaxFaults
      BY <1>9, FaultTypes DEF ConnectFails
    <2> QED
      BY <1>0, <1>9, <2>1 DEF ConnectFails
  <1>10. ASSUME NEW wanted \in SUBSET Symbols, WatchCall(wanted)
         PROVE  HubTyped' /\ opened <= opened'
    BY <1>0, <1>10 DEF WatchCall, OptKinds
  <1>11. CASE WatchStep
    <2>1. {watch} \X new \in SUBSET Channels
      BY <1>0, <1>11, OptionChannels DEF WatchStep
    <2>2. subs' \in [1..opened -> SUBSET Channels]
      BY <1>11, <2>1, SubscribeTypes DEF WatchStep
    <2>3. faults' \in 0..MaxFaults
      BY <1>11, FaultTypes DEF WatchStep, Subscribe
    <2>4. watch' \in OptKinds \cup {"idle"} /\ new' \subseteq Symbols
      BY <1>0, <1>11 DEF WatchStep, OptKinds
    <2> QED
      BY <1>0, <1>11, <2>2, <2>3, <2>4 DEF WatchStep
  <1>12. CASE WatchRaises
    <2>1. faults' \in 0..MaxFaults
      BY <1>12, FaultTypes DEF WatchRaises
    <2> QED
      BY <1>0, <1>12, <2>1 DEF WatchRaises
  <1>13. CASE Warmup
    <2>1. faults' \in 0..MaxFaults
      BY <1>13, FaultTypes DEF Warmup, WarmupSubscribes, WarmupFails, WarmupLoads, NoFault
    <2>2. warm' \in {"listening", "set"} /\ warmOn' \in 0..opened
      BY <1>0, <1>13 DEF Warmup, WarmupSubscribes, WarmupFails, WarmupLoads
    <2>3. UNCHANGED <<streamer, old, options, syms, watch, new, opened, up, subs, stopped,
                      leaked, refused>>
      BY <1>13 DEF Warmup, WarmupSubscribes, WarmupFails, WarmupLoads
    <2> QED
      BY <1>0, <2>1, <2>2, <2>3
  <1>14. CASE Stop
    BY <1>0, <1>14 DEF Stop
  <1>15. ASSUME NEW s \in up, Drop(s)
         PROVE  HubTyped' /\ opened <= opened'
    <2>1. faults' \in 0..MaxFaults
      BY <1>15, FaultTypes DEF Drop
    <2> QED
      BY <1>0, <1>15, <2>1 DEF Drop
  <1>16. CASE UNCHANGED vars
    BY <1>0, <1>16 DEF vars
  <1> QED
    BY <1>1, <1>2, <1>3, <1>4, <1>5, <1>6, <1>7, <1>8, <1>9, <1>10, <1>11, <1>12, <1>13,
       <1>14, <1>15, <1>16 DEF Next, Supervised, Connect, WatchOptions

LEMMA TypeStep == TypeOK /\ QueueInv /\ OldInv /\ [Next]_vars => TypeOK'
  <1> SUFFICES ASSUME TypeOK, QueueInv, OldInv, [Next]_vars
               PROVE  TypeOK'
    OBVIOUS
  <1>1. TasksTyped' /\ on' \in [Loops -> 0..opened]
    BY TasksStep
  <1>2. HubTyped' /\ opened <= opened'
    BY HubStep
  <1>3. on' \in [Loops -> 0..opened']
    BY <1>1, <1>2 DEF TypeOK, HubTyped
  <1> QED
    BY <1>1, <1>2, <1>3 DEF TasksTyped, HubTyped, TypeOK

-----------------------------------------------------------------------------
(* The streams.                                                            *)

\* Outside of _connect nothing replaces the stream or its predecessor.
LEMMA OldStep == TypeOK /\ LockInv /\ OldInv /\ [Next]_vars => OldInv'
  <1> SUFFICES ASSUME TypeOK, LockInv, OldInv, [Next]_vars
               PROVE  OldInv'
    OBVIOUS
  <1> USE DEF OldInv
  <1>0. pc \in [Loops -> Labels]
    BY DEF TypeOK
  <1>a. ASSUME NEW l \in Loops, pc[l] # "closing", UNCHANGED <<streamer, old>>,
               NEW label, label \notin {"closing", "building"},
               pc' = [pc EXCEPT ![l] = label]
        PROVE  OldInv'
    <2>1. pc'[l] = label /\ \A k \in Loops \ {l} : pc'[k] = pc[k]
      BY <1>0, <1>a
    <2> QED
      BY <1>a, <2>1
  <1>b. ASSUME NEW l \in Loops, pc[l] \in Working
        PROVE  \A k \in Loops \ {l} : pc[k] \notin {"closing", "building"}
    BY <1>b DEF LockInv, Working, Building
  <1>1. ASSUME NEW l \in Loops, LoopDies(l)
        PROVE  OldInv'
    BY <1>1, <1>a DEF LoopDies, connection
  <1>2. ASSUME NEW l \in Loops, FirstIn(l)
        PROVE  OldInv'
    BY <1>2, <1>a DEF FirstIn, Acquires
  <1>3. ASSUME NEW l \in Loops, Joins(l)
        PROVE  OldInv'
    <2>1. pc' = [pc EXCEPT ![l] = "queued"] \/ pc' = [pc EXCEPT ![l] = "listening"]
      BY <1>3 DEF Joins
    <2>2. pc[l] # "closing" /\ UNCHANGED <<streamer, old>>
      BY <1>3 DEF Joins
    <2> QED
      BY <1>a, <2>1, <2>2
  <1>4. ASSUME NEW l \in Loops, BeginConnect(l)
        PROVE  OldInv'
    <2>1. \A k \in Loops \ {l} : pc'[k] = pc[k] /\ pc[k] \notin {"closing", "building"}
      BY <1>0, <1>4, <1>b DEF BeginConnect, Goto, Working
    <2>2. /\ pc'[l] = IF streamer = 0 THEN "building" ELSE "closing"
          /\ old' = streamer /\ streamer' = 0
      BY <1>0, <1>4 DEF BeginConnect, Goto
    <2> QED
      BY <2>1, <2>2
  <1>5. ASSUME NEW l \in Loops, CloseOld(l)
        PROVE  OldInv'
    <2>1. \A k \in Loops \ {l} : pc'[k] = pc[k] /\ pc[k] \notin {"closing", "building"}
      BY <1>0, <1>5, <1>b DEF CloseOld, Goto, Working, Building
    <2>2. pc'[l] = "building" /\ old' = 0 /\ streamer' = 0
      BY <1>0, <1>5 DEF CloseOld, Goto
    <2> QED
      BY <2>1, <2>2
  <1>6. ASSUME NEW l \in Loops, Build(l)
        PROVE  OldInv'
    <2>1. \A k \in Loops \ {l} : pc'[k] = pc[k] /\ pc[k] \notin {"closing", "building"}
      BY <1>0, <1>6, <1>b DEF Build, Goto, Working, Building
    <2>2. pc'[l] = "quote0" /\ old' = old /\ pc[l] = "building"
      BY <1>0, <1>6 DEF Build, Goto
    <2>3. old = 0
      BY <2>1, <2>2
    <2> QED
      BY <2>1, <2>2, <2>3
  <1>7. ASSUME NEW l \in Loops, SubscribeBase(l)
        PROVE  OldInv'
    <2>1. \E label \in {"trade0", "quote", "listening", "queued"} : pc' = [pc EXCEPT ![l] = label]
      BY <1>7 DEF SubscribeBase, Goto, Reconnected, Resume
    <2>2. pc[l] # "closing" /\ UNCHANGED <<streamer, old>>
      BY <1>7 DEF SubscribeBase, Reconnected, connection
    <2> QED
      BY <1>a, <2>1, <2>2
  <1>8. ASSUME NEW l \in Loops, SubscribeOptions(l)
        PROVE  OldInv'
    <2>1. \E label \in {"greeks", "summary", "listening", "queued"} : pc' = [pc EXCEPT ![l] = label]
      BY <1>8 DEF SubscribeOptions, Goto, Reconnected, Resume
    <2>2. pc[l] # "closing" /\ UNCHANGED <<streamer, old>>
      BY <1>8 DEF SubscribeOptions, Reconnected, connection, OptKinds
    <2> QED
      BY <1>a, <2>1, <2>2
  <1>9. ASSUME NEW l \in Loops, ConnectFails(l)
        PROVE  OldInv'
    <2>1. pc[l] \in Working /\ old' = 0 /\ streamer' = streamer
      BY <1>9 DEF ConnectFails, Working
    <2>2. pc' = [pc EXCEPT ![l] = "queued"] \/ pc' = [pc EXCEPT ![l] = "listening"]
      BY <1>9 DEF ConnectFails, Resume
    <2>3. \A k \in Loops : pc'[k] \notin {"closing", "building"}
      BY <1>0, <1>b, <2>1, <2>2
    <2> QED
      BY <2>1, <2>3
  <1>10. CASE Stop
    BY <1>10 DEF Stop
  <1>11. CASE Others \/ UNCHANGED vars
    BY <1>11, OthersLeave
  <1> QED
    BY <1>1, <1>2, <1>3, <1>4, <1>5, <1>6, <1>7, <1>8, <1>9, <1>10, <1>11, Steps, LateJoins
    DEF Connect

\* Every step leaves no connection open that nobody will close.
LEMMA UpStep == TypeOK /\ LockInv /\ OldInv /\ UpInv /\ [Next]_vars => UpInv'
  <1> SUFFICES ASSUME TypeOK, LockInv, OldInv, UpInv, [Next]_vars, ~stopped'
               PROVE  up' \subseteq {streamer', old'} \cup leaked'
    BY DEF UpInv
  <1>0. 0 \notin up
    BY DEF TypeOK
  <1>a. ASSUME ~stopped, up' \subseteq up, UNCHANGED <<streamer, old, leaked>>
        PROVE  up' \subseteq {streamer', old'} \cup leaked'
    BY <1>a DEF UpInv
  <1>b. ASSUME NEW l \in Loops, pc[l] \in Working, pc[l] # "closing"
        PROVE  old = 0
    <2>1. \A k \in Loops : pc[k] = "closing" => k = l
      BY <1>b DEF LockInv, Working, Building
    <2> QED
      BY <1>b, <2>1 DEF OldInv
  <1> USE DEF connection, tasks, watching, warmup, feed
  <1>1. ASSUME NEW l \in Loops, LoopDies(l) \/ FirstIn(l) \/ LateIn(l)
        PROVE  up' \subseteq {streamer', old'} \cup leaked'
    BY <1>1, <1>a DEF LoopDies, FirstIn, LateIn
  <1>2. ASSUME NEW l \in Loops, BeginConnect(l)
        PROVE  up' \subseteq {streamer', old'} \cup leaked'
    <2>1. old' = streamer /\ ~stopped /\ UNCHANGED <<up, leaked>> /\ pc[l] = "backoff"
      BY <1>2 DEF BeginConnect
    <2>2. old = 0
      BY <1>b, <2>1 DEF Working
    <2> QED
      BY <1>0, <2>1, <2>2 DEF UpInv
  <1>3. ASSUME NEW l \in Loops, CloseOld(l)
        PROVE  up' \subseteq {streamer', old'} \cup leaked'
    <2>1. /\ ~stopped /\ streamer' = streamer
          /\ \/ up' = up \ {old} /\ leaked' = leaked
             \/ up' = up /\ leaked' = leaked \cup {old}
      BY <1>3 DEF CloseOld
    <2> QED
      BY <2>1 DEF UpInv
  <1>4. ASSUME NEW l \in Loops, Build(l)
        PROVE  up' \subseteq {streamer', old'} \cup leaked'
    <2>1. streamer = 0 /\ old' = old /\ leaked' = leaked /\ ~stopped
      BY <1>4 DEF Build, OldInv
    <2>2. up' = up \cup {streamer'}
      BY <1>4 DEF Build
    <2> QED
      BY <1>0, <2>1, <2>2 DEF UpInv
  <1>5. ASSUME NEW l \in Loops, SubscribeBase(l) \/ SubscribeOptions(l)
        PROVE  up' \subseteq {streamer', old'} \cup leaked'
    BY <1>5, <1>a DEF SubscribeBase, SubscribeOptions, Reconnected
  <1>6. ASSUME NEW l \in Loops, ConnectFails(l)
        PROVE  up' \subseteq {streamer', old'} \cup leaked'
    <2>1. ~stopped /\ streamer' = streamer /\ UNCHANGED <<up, leaked>>
      BY <1>6 DEF ConnectFails
    <2>2. old = 0
      BY <1>6, <1>b DEF ConnectFails, Working
    <2> QED
      BY <1>0, <2>1, <2>2 DEF UpInv
  <1>7. CASE Stop
    BY <1>7 DEF Stop
  <1>8. CASE Others \/ UNCHANGED vars
    <2>1. up' \subseteq up
      BY <1>8 DEF Others, WatchCall, WatchOptions, WatchStep, WatchRaises, Warmup,
         WarmupSubscribes, WarmupFails, WarmupLoads, Drop, vars
    <2> QED
      BY <1>8, <1>a, <2>1, OthersLeave
  <1> QED
    BY <1>1, <1>2, <1>3, <1>4, <1>5, <1>6, <1>7, <1>8, Steps DEF Connect

-----------------------------------------------------------------------------
(* The theorems.                                                           *)

LEMMA InitHolds == Init => IInv
  <1> SUFFICES ASSUME Init
               PROVE  IInv
    OBVIOUS
  <1>1. TypeOK
    <2>1. subs \in [1..opened -> SUBSET Channels] /\ up \subseteq 1..opened
      BY DEF Init, Base, Channels, Kinds
    <2>2. gen \in [Loops -> 0..generation] /\ on \in [Loops -> 0..opened]
      BY DEF Init
    <2>3. pc \in [Loops -> Labels] /\ queue \in Seq(Loops)
      BY DEF Init, Labels
    <2>4. streamer \in 0..opened /\ old \in 0..opened /\ opened \in Nat /\ generation \in Nat
      BY DEF Init
    <2>5. faults \in 0..MaxFaults /\ lock \in Loops \cup {None}
      BY StreamAssumption DEF Init
    <2>6. /\ options \subseteq Symbols /\ syms \subseteq Symbols /\ new \subseteq Symbols
          /\ refused \subseteq Symbols /\ leaked \subseteq 1..opened
      BY DEF Init
    <2>7. /\ watch \in OptKinds \cup {"idle"} /\ warm \in {"start", "listening", "set"}
          /\ stopped \in BOOLEAN
      BY DEF Init
    <2>8. warmOn \in 0..opened
      BY DEF Init
    <2> QED
      BY <2>1, <2>2, <2>3, <2>4, <2>5, <2>6, <2>7, <2>8 DEF TypeOK
  <1>2. LockInv /\ QueueInv /\ OldInv /\ UpInv
    BY DEF Init, LockInv, QueueInv, OldInv, UpInv, Working, Building
  <1> QED
    BY <1>1, <1>2 DEF IInv

\* The conjuncts of IInv hold together in every state.
LEMMA Invariant == Spec => []IInv
  <1>1. IInv /\ [Next]_vars => IInv'
    BY TypeStep, LockStep, QueueStep, OldStep, UpStep DEF IInv
  <1> QED
    BY InitHolds, <1>1, PTL DEF Spec

\* Every state is well typed: nothing is subscribed on, closed or listened to but
\* connections that were made.
THEOREM StreamTypeCorrect == Spec => []TypeOK
  <1>1. IInv => TypeOK
    BY DEF IInv
  <1> QED
    BY Invariant, <1>1, PTL

\* No replaced stream stays open, and no loop keeps reading one, unless its close
\* failed.
THEOREM OneStreamTheorem == Spec => []OneStream
  <1>1. IInv => OneStream
    BY DEF IInv, UpInv, OneStream, Reading
  <1> QED
    BY Invariant, <1>1, PTL

Broken == {l \in Loops : pc[l] # "listening"}

\* The loops that do not read, after one of them moved.
LEMMA BrokenMoves ==
    ASSUME TypeOK, NEW l \in Loops, NEW label, pc' = [pc EXCEPT ![l] = label]
    PROVE  Broken' = IF label = "listening" THEN Broken \ {l} ELSE Broken \cup {l}
  BY DEF TypeOK, Broken

\* Every step is one of ReconnectOnce, or leaves its state alone.
LEMMA RefinedStep == IInv /\ [Next]_vars => [Once!Next]_(Once!vars)
  <1> SUFFICES ASSUME IInv, [Next]_vars
               PROVE  [Once!Next]_(Once!vars)
    OBVIOUS
  <1>0. TypeOK /\ LockInv
    BY DEF IInv
  <1> USE DEF Once!Next, Once!vars, Broken
  <1>1. ASSUME NEW l \in Loops, LoopDies(l)
        PROVE  Once!Fail(l)
    <2>1. /\ pc[l] = "listening" /\ pc' = [pc EXCEPT ![l] = "queued"]
          /\ UNCHANGED <<generation, gen, lock>>
      BY <1>1 DEF LoopDies, connection
    <2>2. l \notin Broken
      BY <2>1
    <2>3. "queued" # "listening"
      OBVIOUS
    <2>4. Broken' = Broken \cup {l}
      BY <1>0, <2>1, <2>3 DEF TypeOK
    <2> QED
      BY <2>1, <2>2, <2>4 DEF Once!Fail
  <1>2. ASSUME NEW l \in Loops, FirstIn(l)
        PROVE  Once!Claim(l)
    <2>1. /\ pc[l] = "queued" /\ pc' = [pc EXCEPT ![l] = "backoff"]
          /\ lock = None /\ lock' = l /\ generation = gen[l]
          /\ UNCHANGED <<generation, gen>>
      BY <1>2 DEF FirstIn, Acquires
    <2>2. Broken' = Broken
      BY <1>0, <2>1, BrokenMoves
    <2> QED
      BY <2>1, <2>2 DEF Once!Claim
  <1>3. ASSUME NEW l \in Loops, Joins(l)
        PROVE  Once!Join(l)
    <2>1. /\ pc[l] = "queued" /\ lock = None /\ lock' = None /\ generation # gen[l]
          /\ gen' = [gen EXCEPT ![l] = generation] /\ generation' = generation
      BY <1>3 DEF Joins
    <2>2. pc' = [pc EXCEPT ![l] = "queued"] \/ pc' = [pc EXCEPT ![l] = "listening"]
      BY <1>3 DEF Joins
    <2>3. Broken' = Broken \/ Broken' = Broken \ {l}
      BY <1>0, <2>1, <2>2, BrokenMoves
    <2> QED
      BY <2>1, <2>3 DEF Once!Join
  <1>4. ASSUME NEW l \in Loops, Works(l)
        PROVE  UNCHANGED Once!vars
    <2>1. PICK label \in Building : pc' = [pc EXCEPT ![l] = label]
      BY <1>4 DEF Works
    <2>2. pc[l] # "listening" /\ label # "listening"
      BY <1>4 DEF Works, Working, Building
    <2>3. Broken' = Broken
      BY <1>0, <2>1, <2>2, BrokenMoves
    <2> QED
      BY <1>4, <2>3 DEF Works
  <1>5. ASSUME NEW l \in Loops, Completes(l)
        PROVE  Once!Complete(l)
    <2>1. lock = l
      BY <1>0, <1>5 DEF Completes, LockInv, Working, Building
    <2>2. Broken' = Broken \ {l}
      BY <1>0, <1>5, BrokenMoves DEF Completes
    <2> QED
      BY <1>5, <2>1, <2>2 DEF Completes, Once!Complete
  <1>6. ASSUME NEW l \in Loops, Abandons(l)
        PROVE  Once!Abandon(l)
    <2>1. lock = l
      BY <1>0, <1>6 DEF Abandons, LockInv, Working
    <2>2. gen' = gen
      BY <1>0, <1>6, <2>1 DEF Abandons, LockInv, TypeOK
    <2>3. pc' = [pc EXCEPT ![l] = "queued"] \/ pc' = [pc EXCEPT ![l] = "listening"]
      BY <1>6 DEF Abandons
    <2>4. pc[l] # "listening"
      BY <1>6 DEF Abandons, Building
    <2>5. Broken' = Broken \/ Broken' = Broken \ {l}
      BY <1>0, <2>3, <2>4, BrokenMoves
    <2> QED
      BY <1>6, <2>1, <2>2, <2>5 DEF Abandons, Once!Abandon
  <1>7. ASSUME Stop
        PROVE  Once!Quit
    BY <1>7 DEF Stop, Once!Quit
  <1>8. CASE Others \/ UNCHANGED vars
    BY <1>8, OthersLeave
  <1> QED
    BY <1>0, <1>1, <1>2, <1>3, <1>4, <1>5, <1>6, <1>7, <1>8, Steps, ConnectGoesOn, LateJoins

\* The rebuilds are those of ReconnectOnce: one loop at a time rebuilds, only for
\* the stream it failed on, and a loop that comes late joins the latest one.
THEOREM Refinement == Spec => RebuildsOnce
  <1>1. Init => Once!Init
    BY DEF Init, Once!Init
  <1> QED
    BY Invariant, <1>1, RefinedStep, PTL DEF Spec, RebuildsOnce, Once!Spec

-----------------------------------------------------------------------------
(* Half-built streams.                                                     *)

Asked == {"quote0", "trade0"} \cup OptKinds

\* What a series of subscriptions has asked for when it comes to kind k.
Done(k) == CASE k = "greeks" -> {"quote"} [] k = "summary" -> {"quote", "greeks"} [] OTHER -> {}

Distinct(s) == \A i, j \in 1..Len(s) : s[i] = s[j] => i = j
\* The elements of s for which g gives n are behind the others.
Ordered(s, g, n) == \A i, j \in 1..Len(s) : i < j /\ g[s[i]] = n => g[s[j]] = n

\* The queue holds the queued loops, each once; the tasks end with stop.
PlaceInv ==
    /\ \A i \in 1..Len(queue) : pc[queue[i]] = "queued"
    /\ Distinct(queue)
    /\ \A l \in Loops : pc[l] = "ended" <=> stopped

CallInv == new \subseteq options /\ (watch = "idle" => new = {})

\* Unless a close failed: a loop that reads, and every loop while one rebuilds,
\* knows the current generation; those that do not are in front in the queue; and
\* while a stream is made nobody reads.
InTurn ==
    /\ \A l \in Loops : pc[l] = "listening" \/ lock # None => gen[l] = generation
    /\ Ordered(queue, gen, generation)
    /\ \A l \in Loops : pc[l] \in Asked => \A k \in Loops \ {l} : pc[k] = "queued"

TurnInv == leaked = {} /\ ~stopped => InTurn

\* The stream delivers the underlying and what watch_options has asked for, the
\* symbols of s apart, of which a rebuild takes care.
Keeps(s) ==
    /\ Base \subseteq subs[streamer]
    /\ Done(watch) \X (new \ s) \subseteq subs[streamer]
    /\ OptKinds \X (options \ (s \cup new \cup refused)) \subseteq subs[streamer]

AskedInv ==
    leaked = {} /\ ~stopped => \A l \in Loops :
        /\ pc[l] = "trade0" => <<"quote", Underlying>> \in subs[streamer]
        /\ pc[l] \in OptKinds => Keeps(syms) /\ Done(pc[l]) \X syms \subseteq subs[streamer]

\* A stream that nobody is building is whole, or a loop is queued that will
\* rebuild it.
BuiltInv ==
    leaked = {} /\ ~stopped /\ streamer # 0 /\ lock = None =>
        \/ Keeps({})
        \/ \E l \in Loops : pc[l] = "queued" /\ gen[l] = generation

WInv == PlaceInv /\ CallInv /\ TurnInv /\ AskedInv /\ BuiltInv

\* What the steps of the loops leave to the others.
LEMMA LoopsLeave ==
    ASSUME NEW l \in Loops, LoopDies(l) \/ FirstIn(l) \/ LateIn(l) \/ Connect(l)
    PROVE  UNCHANGED <<options, watch, new, stopped>> /\ leaked \subseteq leaked'
  BY DEF LoopDies, FirstIn, LateIn, Connect, BeginConnect, CloseOld, Build, SubscribeBase,
     SubscribeOptions, ConnectFails, watching

LEMMA AppendedOrder ==
    ASSUME NEW s \in Seq(Loops), NEW l \in Loops, NEW g, NEW n
    PROVE  /\ \A i \in 1..Len(Append(s, l)) :
                  Append(s, l)[i] = l \/ \E j \in 1..Len(s) : Append(s, l)[i] = s[j]
           /\ Distinct(s) /\ (\A i \in 1..Len(s) : s[i] # l) => Distinct(Append(s, l))
           /\ Ordered(s, g, n) /\ g[l] = n => Ordered(Append(s, l), g, n)
  <1> DEFINE a == Append(s, l)
  <1>1. Len(a) = Len(s) + 1 /\ Len(s) \in Nat /\ a[Len(s) + 1] = l
    BY AppendProperties, LenProperties
  <1>2. \A i \in 1..Len(s) : a[i] = s[i]
    BY AppendProperties
  <1> HIDE DEF a
  <1>3. \A i \in 1..Len(a) : i \in 1..Len(s) \/ i = Len(s) + 1
    BY <1>1
  <1>4. \A i \in 1..Len(a) : a[i] = l \/ \E j \in 1..Len(s) : a[i] = s[j]
    BY <1>1, <1>2, <1>3
  <1>5. ASSUME Distinct(s), \A i \in 1..Len(s) : s[i] # l
        PROVE  Distinct(a)
    BY <1>1, <1>2, <1>3, <1>5 DEF Distinct
  <1>6. ASSUME Ordered(s, g, n), g[l] = n
        PROVE  Ordered(a, g, n)
    <2> SUFFICES ASSUME NEW i \in 1..Len(a), NEW j \in 1..Len(a), i < j, g[a[i]] = n
                 PROVE  g[a[j]] = n
      BY DEF Ordered
    <2>1. CASE j = Len(s) + 1
      BY <1>1, <1>6, <2>1
    <2>2. CASE j \in 1..Len(s)
      <3>1. i \in 1..Len(s)
        BY <1>1, <2>2
      <3> QED
        BY <1>2, <1>6, <2>2, <3>1 DEF Ordered
    <2> QED
      BY <1>3, <2>1, <2>2
  <1> QED
    BY <1>4, <1>5, <1>6 DEF a

LEMMA TailKeeps ==
    ASSUME NEW s \in Seq(Loops), s # <<>>
    PROVE  /\ Tail(s) \in Seq(Loops)
           /\ \A i \in 1..Len(Tail(s)) : \E j \in 1..Len(s) : Tail(s)[i] = s[j]
           /\ Distinct(s) => Distinct(Tail(s)) /\ \A i \in 1..Len(Tail(s)) : Tail(s)[i] # Head(s)
  <1> DEFINE t == Tail(s)
  <1>1. Len(s) \in Nat \ {0} /\ t \in Seq(Loops) /\ Len(t) = Len(s) - 1 /\ Head(s) = s[1]
    BY LenProperties, EmptySeq, HeadTailProperties
  <1>2. \A i \in 1..Len(t) : t[i] = s[i + 1]
    BY <1>1, HeadTailProperties
  <1> HIDE DEF t
  <1>3. \A i \in 1..Len(t) : i + 1 \in 1..Len(s) /\ 1 \in 1..Len(s) /\ i + 1 # 1
    BY <1>1
  <1>4. \A i \in 1..Len(t) : \E j \in 1..Len(s) : t[i] = s[j]
    BY <1>2, <1>3
  <1>5. ASSUME Distinct(s)
        PROVE  Distinct(t) /\ \A i \in 1..Len(t) : t[i] # Head(s)
    BY <1>1, <1>2, <1>3, <1>5 DEF Distinct
  <1> QED
    BY <1>1, <1>4, <1>5 DEF t

LEMMA TailOrdered ==
    ASSUME NEW s \in Seq(Loops), s # <<>>, NEW g, NEW n, Ordered(s, g, n)
    PROVE  /\ Ordered(Tail(s), g, n)
           /\ g[Head(s)] = n => \A i \in 1..Len(s) : g[s[i]] = n
  <1> DEFINE t == Tail(s)
  <1>1. Len(s) \in Nat \ {0} /\ Len(t) = Len(s) - 1 /\ Head(s) = s[1]
    BY LenProperties, EmptySeq, HeadTailProperties
  <1>2. \A i \in 1..Len(t) : t[i] = s[i + 1]
    BY <1>1, HeadTailProperties
  <1> HIDE DEF t
  <1>3. Ordered(t, g, n)
    <2> SUFFICES ASSUME NEW i \in 1..Len(t), NEW j \in 1..Len(t), i < j, g[t[i]] = n
                 PROVE  g[t[j]] = n
      BY DEF Ordered
    <2>1. i + 1 \in 1..Len(s) /\ j + 1 \in 1..Len(s) /\ i + 1 < j + 1
      BY <1>1
    <2>2. t[i] = s[i + 1] /\ t[j] = s[j + 1]
      BY <1>2
    <2> QED
      BY <2>1, <2>2 DEF Ordered
  <1>4. ASSUME g[Head(s)] = n
        PROVE  \A i \in 1..Len(s) : g[s[i]] = n
    BY <1>1, <1>4 DEF Ordered
  <1> QED
    BY <1>3, <1>4 DEF t

\* Every step keeps the queue that of the queued loops.
LEMMA PlaceStep == TypeOK /\ QueueInv /\ PlaceInv /\ [Next]_vars => PlaceInv'
  <1> SUFFICES ASSUME TypeOK, QueueInv, PlaceInv, [Next]_vars
               PROVE  PlaceInv'
    OBVIOUS
  <1>0. pc \in [Loops -> Labels] /\ queue \in Seq(Loops)
    BY DEF TypeOK
  <1>p. /\ \A i \in 1..Len(queue) : queue[i] \in Loops /\ pc[queue[i]] = "queued"
        /\ Distinct(queue)
        /\ \A l \in Loops : pc[l] = "ended" <=> stopped
    BY <1>0 DEF PlaceInv, Distinct
  <1>a. ASSUME NEW l \in Loops, NEW s \in Seq(Loops), pc[l] # "ended", stopped' = stopped,
               Distinct(s), \A i \in 1..Len(s) : s[i] \in Loops \ {l} /\ pc[s[i]] = "queued",
               \/ pc' = [pc EXCEPT ![l] = "queued"] /\ queue' = Append(s, l)
               \/ /\ \E label : label # "ended" /\ pc' = [pc EXCEPT ![l] = label]
                  /\ queue' = s
        PROVE  PlaceInv'
    <2>1. PICK label : label # "ended" /\ pc' = [pc EXCEPT ![l] = label]
      BY <1>a
    <2>2. pc'[l] = label /\ \A k \in Loops \ {l} : pc'[k] = pc[k]
      BY <1>0, <2>1
    <2>3. \A k \in Loops : pc'[k] = "ended" <=> stopped'
      BY <1>a, <1>p, <2>1, <2>2
    <2>4. CASE pc' = [pc EXCEPT ![l] = "queued"] /\ queue' = Append(s, l)
      <3>1. pc'[l] = "queued"
        BY <1>0, <2>4
      <3>2. /\ \A i \in 1..Len(queue') : queue'[i] = l \/ \E j \in 1..Len(s) : queue'[i] = s[j]
            /\ Distinct(queue')
        BY <1>a, <2>4, AppendedOrder
      <3> QED
        BY <1>a, <2>2, <2>3, <3>1, <3>2 DEF PlaceInv, Distinct
    <2>5. CASE queue' = s
      BY <1>a, <2>2, <2>3, <2>5 DEF PlaceInv, Distinct
    <2> QED
      BY <1>a, <2>4, <2>5
  <1>b. ASSUME NEW l \in Loops, pc[l] = "queued", Head(queue) = l
        PROVE  /\ Tail(queue) \in Seq(Loops) /\ Distinct(Tail(queue))
               /\ \A i \in 1..Len(Tail(queue)) :
                      Tail(queue)[i] \in Loops \ {l} /\ pc[Tail(queue)[i]] = "queued"
    <2>1. queue # <<>>
      BY <1>0, <1>b DEF QueueInv
    <2> QED
      BY <1>0, <1>b, <1>p, <2>1, TailKeeps
  <1>c. ASSUME NEW l \in Loops, pc[l] # "queued"
        PROVE  \A i \in 1..Len(queue) : queue[i] \in Loops \ {l} /\ pc[queue[i]] = "queued"
    BY <1>c, <1>p
  <1>1. ASSUME NEW l \in Loops, LoopDies(l)
        PROVE  PlaceInv'
    <2>1. /\ pc[l] = "listening" /\ stopped' = stopped
          /\ pc' = [pc EXCEPT ![l] = "queued"] /\ queue' = Append(queue, l)
      BY <1>1 DEF LoopDies
    <2> QED
      BY <1>0, <1>a, <1>c, <1>p, <2>1
  <1>2. ASSUME NEW l \in Loops, FirstIn(l)
        PROVE  PlaceInv'
    <2>1. /\ pc[l] = "queued" /\ Head(queue) = l /\ stopped' = stopped
          /\ pc' = [pc EXCEPT ![l] = "backoff"] /\ queue' = Tail(queue)
      BY <1>2 DEF FirstIn, Acquires
    <2> QED
      BY <1>a, <1>b, <2>1
  <1>3. ASSUME NEW l \in Loops, Joins(l), stopped' = stopped
        PROVE  PlaceInv'
    <2>1. pc[l] = "queued" /\ Head(queue) = l
      BY <1>3 DEF Joins
    <2>2. \/ pc' = [pc EXCEPT ![l] = "queued"] /\ queue' = Append(Tail(queue), l)
          \/ pc' = [pc EXCEPT ![l] = "listening"] /\ queue' = Tail(queue)
      BY <1>3 DEF Joins
    <2> QED
      BY <1>3, <1>a, <1>b, <2>1, <2>2
  <1>4. ASSUME NEW l \in Loops, Works(l), stopped' = stopped
        PROVE  PlaceInv'
    <2>1. PICK label \in Building : pc' = [pc EXCEPT ![l] = label]
      BY <1>4 DEF Works
    <2>2. label # "ended" /\ queue' = queue /\ pc[l] \notin {"queued", "ended"}
      BY <1>4 DEF Works, Working, Building
    <2> QED
      BY <1>0, <1>4, <1>a, <1>c, <1>p, <2>1, <2>2
  <1>5. ASSUME NEW l \in Loops, Completes(l) \/ Abandons(l), stopped' = stopped
        PROVE  PlaceInv'
    <2>1. \/ pc' = [pc EXCEPT ![l] = "queued"] /\ queue' = Append(queue, l)
          \/ pc' = [pc EXCEPT ![l] = "listening"] /\ queue' = queue
      BY <1>5 DEF Completes, Abandons
    <2>2. pc[l] \notin {"queued", "ended"}
      BY <1>5 DEF Completes, Abandons, Building
    <2> QED
      BY <1>0, <1>5, <1>a, <1>c, <1>p, <2>1, <2>2
  <1>6. CASE Stop
    BY <1>6 DEF Stop, PlaceInv, Distinct
  <1>7. CASE Others \/ UNCHANGED vars
    BY <1>7, OthersLeave DEF PlaceInv
  <1> QED
    BY <1>1, <1>2, <1>3, <1>4, <1>5, <1>6, <1>7, Steps, ConnectGoesOn, LateJoins, LoopsLeave

\* Every step keeps what watch_options asks for among the remembered symbols.
LEMMA CallStep == TypeOK /\ CallInv /\ [Next]_vars => CallInv'
  <1> SUFFICES ASSUME TypeOK, CallInv, [Next]_vars
               PROVE  CallInv'
    OBVIOUS
  <1> USE DEF CallInv
  <1>1. ASSUME NEW wanted \in SUBSET Symbols, WatchCall(wanted)
        PROVE  CallInv'
    BY <1>1 DEF WatchCall
  <1>2. CASE WatchStep
    BY <1>2 DEF WatchStep, OptKinds
  <1>3. CASE WatchRaises
    BY <1>3 DEF WatchRaises
  <1>4. CASE UNCHANGED <<options, watch, new>>
    BY <1>4
  <1>5. CASE Warmup \/ Stop \/ (\E s \in up : Drop(s)) \/ UNCHANGED vars
    BY <1>4, <1>5 DEF Warmup, WarmupSubscribes, WarmupFails, WarmupLoads, Stop, Drop, vars, watching
  <1> QED
    BY <1>1, <1>2, <1>3, <1>4, <1>5, Steps, LoopsLeave DEF Others, WatchOptions

\* A rebuild asks for nothing before it has a new stream.
LEMMA AsksAfterBuild ==
    ASSUME TypeOK, NEW l \in Loops, Connect(l), pc'[l] \in Asked
    PROVE  pc[l] \in Asked \/ Build(l)
  <1> USE DEF Asked, OptKinds
  <1>1. pc \in [Loops -> Labels]
    BY DEF TypeOK
  <1>2. ~BeginConnect(l)
    BY <1>1 DEF BeginConnect, Goto
  <1>3. ~CloseOld(l)
    BY <1>1 DEF CloseOld, Goto
  <1>4. SubscribeBase(l) \/ SubscribeOptions(l) => pc[l] \in Asked
    BY DEF SubscribeBase, SubscribeOptions
  <1>5. ~ConnectFails(l)
    BY <1>1 DEF ConnectFails, Resume
  <1> QED
    BY <1>2, <1>3, <1>4, <1>5 DEF Connect

\* When a new stream is made nobody reads another: those that did have noticed.
LEMMA NobodyReads ==
    ASSUME IInv, PlaceInv, leaked = {}, ~stopped, NEW l \in Loops, Build(l),
           NEW k \in Loops \ {l}
    PROVE  pc[k] = "queued"
  <1>1. pc[l] = "building" /\ ~Unnoticed
    BY DEF Build
  <1>2. lock = l
    BY <1>1 DEF IInv, LockInv, Working, Building
  <1>3. pc[k] \notin Working
    BY <1>2 DEF IInv, LockInv
  <1>4. pc[k] # "ended"
    BY DEF PlaceInv
  <1>5. streamer = 0
    BY <1>1 DEF IInv, OldInv
  <1>6. old = 0
    <2>1. \A j \in Loops : pc[j] = "closing" => j = l
      BY <1>2 DEF IInv, LockInv, Working, Building
    <2> QED
      BY <1>1, <2>1 DEF IInv, OldInv
  <1>7. up = {}
    BY <1>5, <1>6 DEF IInv, UpInv, TypeOK
  <1>8. pc[k] # "listening"
    BY <1>1, <1>7 DEF Unnoticed
  <1>9. pc[k] \in Labels
    BY DEF IInv, TypeOK
  <1> QED
    BY <1>3, <1>4, <1>8, <1>9 DEF Labels, Working

\* Every step keeps the stale loops in front, and the readers away from a stream
\* that is being made.
LEMMA TurnStep == IInv /\ PlaceInv /\ TurnInv /\ [Next]_vars => TurnInv'
  <1> SUFFICES ASSUME IInv, PlaceInv, TurnInv, [Next]_vars, leaked' = {}, ~stopped'
               PROVE  InTurn'
    BY DEF TurnInv
  <1> USE DEF InTurn
  <1>0. /\ pc \in [Loops -> Labels] /\ queue \in Seq(Loops) /\ generation \in Nat
        /\ gen \in [Loops -> 0..generation]
    BY DEF IInv, TypeOK
  <1>t. ASSUME leaked = {}, ~stopped
        PROVE  InTurn
    BY <1>t DEF TurnInv
  <1>l. ASSUME NEW l \in Loops, LoopDies(l) \/ FirstIn(l) \/ LateIn(l) \/ Connect(l)
        PROVE  leaked = {} /\ ~stopped
    BY <1>l, LoopsLeave
  <1>n. ASSUME lock = None
        PROVE  \A k \in Loops : pc[k] \notin Asked
    BY <1>n DEF IInv, LockInv, Working, Building, Asked, OptKinds
  <1>q. ASSUME NEW l \in Loops, pc[l] = "queued", Head(queue) = l
        PROVE  queue # <<>>
    BY <1>0, <1>q DEF IInv, QueueInv
  <1>1. ASSUME NEW l \in Loops, LoopDies(l)
        PROVE  InTurn'
    <2>1. /\ pc[l] = "listening" /\ pc' = [pc EXCEPT ![l] = "queued"]
          /\ queue' = Append(queue, l) /\ UNCHANGED <<gen, generation, lock>>
      BY <1>1 DEF LoopDies, connection
    <2>2. /\ \A k \in Loops : pc[k] = "listening" \/ lock # None => gen[k] = generation
          /\ Ordered(queue, gen, generation)
          /\ \A j \in Loops : pc[j] \in Asked => \A k \in Loops \ {j} : pc[k] = "queued"
      BY <1>1, <1>l, <1>t
    <2>3. pc'[l] = "queued" /\ \A k \in Loops \ {l} : pc'[k] = pc[k]
      BY <1>0, <2>1
    <2>4. Ordered(Append(queue, l), gen, generation)
      BY <1>0, <2>1, <2>2, AppendedOrder
    <2>5. Ordered(queue', gen', generation')
      BY <2>1, <2>4 DEF Ordered
    <2> QED
      BY <2>1, <2>2, <2>3, <2>5 DEF Asked, OptKinds
  <1>2. ASSUME NEW l \in Loops, FirstIn(l)
        PROVE  InTurn'
    <2>1. /\ pc[l] = "queued" /\ Head(queue) = l /\ lock = None /\ gen[l] = generation
          /\ pc' = [pc EXCEPT ![l] = "backoff"] /\ queue' = Tail(queue)
          /\ UNCHANGED <<gen, generation>>
      BY <1>2 DEF FirstIn, Acquires
    <2>2. /\ \A k \in Loops : pc[k] = "listening" => gen[k] = generation
          /\ Ordered(queue, gen, generation)
      BY <1>2, <1>l, <1>t
    <2>3. /\ \A i \in 1..Len(queue) : gen[queue[i]] = generation
          /\ Ordered(Tail(queue), gen, generation)
      BY <1>0, <1>q, <2>1, <2>2, TailOrdered
    <2>4. \A k \in Loops : gen[k] = generation
      <3> TAKE k \in Loops
      <3>1. pc[k] \notin Working
        BY <2>1 DEF IInv, LockInv
      <3>2. pc[k] # "ended"
        BY <1>2, <1>l DEF PlaceInv
      <3>3. pc[k] = "listening" \/ pc[k] = "queued"
        BY <1>0, <3>1, <3>2 DEF Labels, Working
      <3> QED
        BY <2>2, <2>3, <3>3 DEF IInv, QueueInv
    <2>5. Ordered(queue', gen', generation')
      BY <2>1, <2>3 DEF Ordered
    <2>6. \A j \in Loops : pc'[j] \notin Asked
      BY <1>0, <1>n, <2>1 DEF Asked, OptKinds
    <2> QED
      BY <2>1, <2>4, <2>5, <2>6
  <1>3. ASSUME NEW l \in Loops, LateIn(l)
        PROVE  InTurn'
    <2>1. Joins(l)
      BY <1>3, LateJoins
    <2>2. /\ pc[l] = "queued" /\ Head(queue) = l /\ lock = None /\ lock' = None
          /\ generation' = generation /\ gen' = [gen EXCEPT ![l] = generation]
      BY <2>1 DEF Joins
    <2>3. /\ \A k \in Loops : pc[k] = "listening" => gen[k] = generation
          /\ Ordered(queue, gen, generation)
      BY <1>3, <1>l, <1>t
    <2>4. gen'[l] = generation /\ \A k \in Loops \ {l} : gen'[k] = gen[k]
      BY <1>0, <2>2
    <2>5. pc' = [pc EXCEPT ![l] = "queued"] \/ pc' = [pc EXCEPT ![l] = "listening"]
      BY <2>1 DEF Joins
    <2>6. \A k \in Loops \ {l} : pc'[k] = pc[k]
      BY <1>0, <2>5
    <2>7. \A j \in Loops : pc'[j] \notin Asked
      BY <1>0, <1>n, <2>2, <2>5 DEF Asked, OptKinds
    <2>8. /\ Tail(queue) \in Seq(Loops) /\ Ordered(Tail(queue), gen, generation)
          /\ \A i \in 1..Len(Tail(queue)) : Tail(queue)[i] # l
      <3>1. Distinct(queue)
        BY DEF PlaceInv, Distinct
      <3> QED
        BY <1>0, <1>q, <2>2, <2>3, <3>1, TailKeeps, TailOrdered
    <2>9. \A i \in 1..Len(Tail(queue)) : gen'[Tail(queue)[i]] = gen[Tail(queue)[i]]
      BY <2>4, <2>8
    <2>10. Ordered(queue', gen', generation')
      <3>0. Ordered(Tail(queue), gen', generation')
        BY <2>2, <2>8, <2>9 DEF Ordered
      <3>1. CASE queue' = Tail(queue)
        BY <3>0, <3>1
      <3>2. CASE queue' = Append(Tail(queue), l)
        BY <2>2, <2>4, <2>8, <3>0, <3>2, AppendedOrder
      <3> QED
        BY <2>1, <3>1, <3>2 DEF Joins
    <2> QED
      BY <2>2, <2>3, <2>4, <2>6, <2>7, <2>10
  <1>4. ASSUME NEW l \in Loops, Connect(l), Works(l)
        PROVE  InTurn'
    <2>1. /\ pc[l] \in Working /\ UNCHANGED <<gen, queue, generation, lock>>
          /\ \A k \in Loops \ {l} : pc'[k] = pc[k]
      BY <1>0, <1>4 DEF Works
    <2>2. lock = l
      BY <2>1 DEF IInv, LockInv
    <2>3. /\ \A k \in Loops : gen[k] = generation
          /\ Ordered(queue, gen, generation)
          /\ pc[l] \in Asked => \A k \in Loops \ {l} : pc[k] = "queued"
      BY <1>4, <1>l, <1>t, <2>2
    <2>4. \A j \in Loops \ {l} : pc[j] \notin Asked
      BY <2>2 DEF IInv, LockInv, Working, Building, Asked, OptKinds
    <2>5. pc'[l] \in Asked => \A k \in Loops \ {l} : pc[k] = "queued"
      <3>1. TypeOK
        BY DEF IInv
      <3>2. pc'[l] \in Asked => pc[l] \in Asked \/ Build(l)
        BY <1>4, <3>1, AsksAfterBuild
      <3> QED
        BY <1>4, <1>l, <2>3, <3>2, NobodyReads
    <2>6. Ordered(queue', gen', generation')
      BY <2>1, <2>3 DEF Ordered
    <2> QED
      BY <2>1, <2>3, <2>4, <2>5, <2>6
  <1>5. ASSUME NEW l \in Loops, Connect(l), Completes(l)
        PROVE  InTurn'
    <2>1. /\ pc[l] \in Asked /\ lock' = None /\ generation' = generation + 1
          /\ gen' = [gen EXCEPT ![l] = generation + 1] /\ pc' = [pc EXCEPT ![l] = "listening"]
          /\ queue' = queue
      BY <1>5 DEF Completes, Asked, OptKinds
    <2>2. \A k \in Loops \ {l} : pc[k] = "queued"
      BY <1>5, <1>l, <1>t, <2>1
    <2>3. /\ pc'[l] = "listening" /\ gen'[l] = generation'
          /\ \A k \in Loops \ {l} : pc'[k] = "queued" /\ gen'[k] # generation'
      BY <1>0, <2>1, <2>2
    <2>4. \A i \in 1..Len(queue) : queue[i] \in Loops \ {l}
      BY <1>0, <2>1 DEF PlaceInv, Asked, OptKinds
    <2>5. Ordered(queue', gen', generation')
      BY <2>1, <2>3, <2>4 DEF Ordered
    <2> QED
      BY <2>1, <2>3, <2>5 DEF Asked, OptKinds
  <1>6. ASSUME NEW l \in Loops, Connect(l), Abandons(l)
        PROVE  InTurn'
    <2>1. pc[l] \in Working /\ lock' = None /\ generation' = generation
      BY <1>6 DEF Abandons, Working
    <2>2. lock = l
      BY <2>1 DEF IInv, LockInv
    <2>3. (\A k \in Loops : gen[k] = generation) /\ Ordered(queue, gen, generation)
      BY <1>6, <1>l, <1>t, <2>2
    <2>4. \A k \in Loops : gen'[k] = generation'
      BY <1>0, <1>6, <2>1, <2>3 DEF Abandons
    <2>5. pc' = [pc EXCEPT ![l] = "queued"] \/ pc' = [pc EXCEPT ![l] = "listening"]
      BY <1>6 DEF Abandons
    <2>6. \A j \in Loops : pc'[j] \notin Asked
      BY <1>0, <2>2, <2>5 DEF IInv, LockInv, Working, Building, Asked, OptKinds
    <2>7. queue' \in Seq(Loops)
      <3>1. Append(queue, l) \in Seq(Loops)
        BY <1>0, Appended
      <3> QED
        BY <1>0, <1>6, <3>1 DEF Abandons
    <2>8. Ordered(queue', gen', generation')
      <3>1. \A i \in 1..Len(queue') : queue'[i] \in Loops
        BY <2>7
      <3> QED
        BY <2>4, <3>1 DEF Ordered
    <2> QED
      BY <2>4, <2>6, <2>8
  <1>7. CASE Stop
    BY <1>7 DEF Stop
  <1>8. CASE Others \/ UNCHANGED vars
    BY <1>8, <1>t, OthersLeave DEF Ordered
  <1> QED
    <2>1. TypeOK
      BY DEF IInv
    <2> QED
      BY <1>1, <1>2, <1>3, <1>4, <1>5, <1>6, <1>7, <1>8, <2>1, Steps, ConnectGoesOn

\* watch_options, the warmup and the feed take nothing off a stream.
LEMMA OthersGrow ==
    ASSUME TypeOK, Others \/ UNCHANGED vars
    PROVE  subs[streamer] \subseteq subs'[streamer']
  <1>1. CASE WatchStep
    <2>1. /\ streamer \in 1..opened /\ streamer' = streamer
          /\ subs' = [subs EXCEPT ![streamer] = @ \cup ({watch} \X new)]
      BY <1>1, StreamerIsUp DEF WatchStep, Subscribe, connection
    <2> QED
      BY <2>1 DEF TypeOK
  <1>2. CASE UNCHANGED <<subs, streamer>>
    BY <1>2
  <1> QED
    BY <1>1, <1>2 DEF Others, WatchCall, WatchOptions, WatchRaises, Warmup, WarmupSubscribes,
       WarmupFails, WarmupLoads, Drop, vars, connection, feed

\* watch_options, the warmup and the feed leave what a stream was asked for in
\* place, and what watch_options has asked for is there.
LEMMA OthersKeep ==
    ASSUME TypeOK, CallInv, Others \/ UNCHANGED vars, NEW s, Keeps(s)
    PROVE  /\ Base \subseteq subs'[streamer']
           /\ Done(watch') \X (new' \ s) \subseteq subs'[streamer']
           /\ OptKinds \X (options' \ (s \cup new' \cup refused')) \subseteq subs'[streamer']
  <1>0. /\ Base \subseteq subs[streamer]
        /\ Done(watch) \X (new \ s) \subseteq subs[streamer]
        /\ OptKinds \X (options \ (s \cup new \cup refused)) \subseteq subs[streamer]
        /\ subs \in [1..opened -> SUBSET Channels]
    BY DEF Keeps, TypeOK
  <1>1. ASSUME NEW wanted \in SUBSET Symbols, WatchCall(wanted)
        PROVE  /\ Base \subseteq subs'[streamer']
               /\ Done(watch') \X (new' \ s) \subseteq subs'[streamer']
               /\ OptKinds \X (options' \ (s \cup new' \cup refused')) \subseteq subs'[streamer']
    <2>1. /\ watch' = "quote" /\ new = {} /\ options' = options \cup new' /\ refused' = refused
          /\ subs' = subs /\ streamer' = streamer
      BY <1>1 DEF WatchCall, CallInv, feed, connection
    <2>2. Done(watch') = {}
      BY <2>1 DEF Done
    <2>3. options' \ (s \cup new' \cup refused') \subseteq options \ (s \cup new \cup refused)
      BY <2>1
    <2> QED
      BY <1>0, <2>1, <2>2, <2>3
  <1>2. CASE WatchStep
    <2>1. /\ watch \in OptKinds /\ UNCHANGED <<streamer, options, refused>>
          /\ subs' = [subs EXCEPT ![streamer] = @ \cup ({watch} \X new)]
      BY <1>2 DEF WatchStep, Subscribe, connection
    <2>2. subs'[streamer'] = subs[streamer] \cup ({watch} \X new)
      <3>1. streamer \in 1..opened
        BY <1>2, StreamerIsUp DEF WatchStep
      <3> QED
        BY <1>0, <2>1, <3>1
    <2>3. CASE watch = "summary"
      <3>1. new' = {}
        BY <1>2, <2>3 DEF WatchStep
      <3>2. OptKinds = Done(watch) \cup {watch}
        BY <2>3 DEF Done, OptKinds
      <3>3. ASSUME NEW k \in OptKinds, NEW x \in options \ (s \cup refused)
            PROVE  <<k, x>> \in subs'[streamer']
        <4>1. CASE x \notin new
          BY <1>0, <2>2, <3>3, <4>1
        <4>2. CASE x \in new
          BY <1>0, <2>2, <3>2, <3>3, <4>2
        <4> QED
          BY <4>1, <4>2
      <3> QED
        BY <1>0, <2>1, <2>2, <3>1, <3>3
    <2>4. CASE watch # "summary"
      <3>1. new' = new /\ watch' = IF watch = "quote" THEN "greeks" ELSE "summary"
        BY <1>2, <2>4 DEF WatchStep
      <3>2. Done(watch') = Done(watch) \cup {watch}
        BY <2>1, <2>4, <3>1 DEF Done, OptKinds
      <3> QED
        BY <1>0, <2>1, <2>2, <3>1, <3>2
    <2> QED
      BY <2>3, <2>4
  <1>3. CASE WatchRaises
    <2>1. /\ new' = {} /\ refused' = refused \cup new
          /\ UNCHANGED <<streamer, subs, options>>
      BY <1>3 DEF WatchRaises, feed, connection
    <2> QED
      BY <1>0, <2>1
  <1>4. CASE Warmup \/ (\E d \in up : Drop(d)) \/ UNCHANGED vars
    <2>1. UNCHANGED <<streamer, subs, options, watch, new, refused>>
      BY <1>4 DEF Warmup, WarmupSubscribes, WarmupFails, WarmupLoads, Drop, vars, watching,
         connection, feed
    <2> QED
      BY <1>0, <2>1
  <1> QED
    BY <1>1, <1>2, <1>3, <1>4 DEF Others, WatchOptions

\* Nobody asks for anything but the loop that holds the lock.
LEMMA AskerHolds ==
    ASSUME LockInv, NEW l \in Loops, pc[l] \in Asked
    PROVE  lock = l
  BY DEF LockInv, Working, Building, Asked, OptKinds

\* A rebuild that asks for the remembered symbols asks for all kinds of them.
LEMMA AskedStep ==
    IInv /\ CallInv /\ AskedInv /\ [Next]_vars => AskedInv'
  <1> SUFFICES ASSUME IInv, CallInv, AskedInv, [Next]_vars, leaked' = {}, ~stopped',
                      NEW l \in Loops, pc'[l] \in {"trade0"} \cup OptKinds
               PROVE  /\ pc'[l] = "trade0" => <<"quote", Underlying>> \in subs'[streamer']
                      /\ pc'[l] \in OptKinds =>
                             Keeps(syms)' /\ Done(pc'[l]) \X syms' \subseteq subs'[streamer']
    BY DEF AskedInv
  <1>0. TypeOK /\ LockInv /\ OldInv /\ pc \in [Loops -> Labels] /\ streamer \in 0..opened
        /\ subs \in [1..opened -> SUBSET Channels] /\ generation \in Nat
    BY DEF IInv, TypeOK
  <1>a. ASSUME leaked = {}, ~stopped
        PROVE  /\ pc[l] = "trade0" => <<"quote", Underlying>> \in subs[streamer]
               /\ pc[l] \in OptKinds => Keeps(syms) /\ Done(pc[l]) \X syms \subseteq subs[streamer]
    BY <1>a DEF AskedInv
  <1>1. ASSUME NEW k \in Loops, LoopDies(k)
        PROVE  /\ pc'[l] = "trade0" => <<"quote", Underlying>> \in subs'[streamer']
               /\ pc'[l] \in OptKinds =>
                      Keeps(syms)' /\ Done(pc'[l]) \X syms' \subseteq subs'[streamer']
    <2>1. /\ pc' = [pc EXCEPT ![k] = "queued"] /\ pc[k] = "listening"
          /\ UNCHANGED <<streamer, syms, subs, options, watch, new, refused, leaked, stopped>>
      BY <1>1 DEF LoopDies, connection, watching, feed
    <2>2. pc'[l] = pc[l]
      BY <1>0, <2>1 DEF OptKinds
    <2> QED
      BY <1>a, <2>1, <2>2 DEF Keeps
  <1>2. ASSUME NEW k \in Loops, FirstIn(k) \/ LateIn(k)
        PROVE  FALSE
    <2>1. lock = None /\ \A j \in Loops : pc[j] \notin Asked
      BY <1>0, <1>2, AskerHolds DEF FirstIn, LateIn, Acquires
    <2>2. \E label \in {"backoff", "queued", "listening"} : pc' = [pc EXCEPT ![k] = label]
      BY <1>2 DEF FirstIn, LateIn, Resume
    <2> QED
      BY <1>0, <2>1, <2>2 DEF Asked, OptKinds
  <1>3. ASSUME NEW k \in Loops, Connect(k)
        PROVE  k = l
    <2>1. Works(k) \/ Completes(k) \/ Abandons(k)
      BY <1>0, <1>3, ConnectGoesOn
    <2>2. pc[k] \in Working /\ \A j \in Loops \ {k} : pc'[j] = pc[j]
      BY <1>0, <2>1 DEF Works, Completes, Abandons, Working, Building
    <2>3. k # l => pc[l] \in Asked
      BY <2>2 DEF Asked
    <2> QED
      BY <1>0, <2>2, <2>3, AskerHolds DEF LockInv
  <1>4. CASE BeginConnect(l) \/ CloseOld(l) \/ Build(l) \/ ConnectFails(l)
    <2>1. \E label \in {"closing", "building", "quote0", "queued", "listening"} :
              pc' = [pc EXCEPT ![l] = label]
      BY <1>4 DEF BeginConnect, CloseOld, Build, ConnectFails, Goto, Resume
    <2> QED
      BY <1>0, <2>1 DEF OptKinds
  <1>5. CASE SubscribeBase(l)
    <2>1. /\ streamer \in 1..opened /\ UNCHANGED <<options, watch, new, leaked, stopped>>
          /\ streamer' = streamer
      BY <1>0, <1>5, StreamerIsUp DEF SubscribeBase, Reconnected, connection
    <2>2. CASE pc[l] = "quote0"
      <3>1. /\ pc' = [pc EXCEPT ![l] = "trade0"]
            /\ subs' = [subs EXCEPT ![streamer] = @ \cup {<<"quote", Underlying>>}]
        BY <1>5, <2>2 DEF SubscribeBase, Subscribe, Goto
      <3>2. pc'[l] = "trade0" /\ <<"quote", Underlying>> \in subs'[streamer']
        BY <1>0, <2>1, <3>1
      <3> QED
        BY <3>2 DEF OptKinds
    <2>3. CASE pc[l] = "trade0" /\ options # {}
      <3>1. /\ pc' = [pc EXCEPT ![l] = "quote"] /\ syms' = options
            /\ subs' = [subs EXCEPT ![streamer] = @ \cup {<<"trade", Underlying>>}]
        BY <1>5, <2>3 DEF SubscribeBase, Subscribe, Goto
      <3>2. Base \subseteq subs'[streamer']
        BY <1>0, <1>a, <2>1, <2>3, <3>1 DEF Base
      <3>3. pc'[l] = "quote" /\ Done(pc'[l]) = {}
        BY <1>0, <3>1 DEF Done
      <3>4. new' \ syms' = {} /\ options' \ (syms' \cup new' \cup refused') = {}
        BY <2>1, <3>1 DEF CallInv
      <3> QED
        BY <3>2, <3>3, <3>4 DEF Keeps
    <2>4. CASE pc[l] = "trade0" /\ options = {}
      <3>1. Reconnected(l)
        BY <1>5, <2>4 DEF SubscribeBase
      <3>2. pc'[l] \in {"queued", "listening"}
        BY <1>0, <3>1 DEF Reconnected, Resume
      <3> QED
        BY <3>2 DEF OptKinds
    <2> QED
      BY <1>5, <2>2, <2>3, <2>4 DEF SubscribeBase
  <1>6. CASE SubscribeOptions(l)
    <2>1. /\ streamer \in 1..opened /\ UNCHANGED <<options, watch, new, leaked, stopped>>
          /\ subs' = [subs EXCEPT ![streamer] = @ \cup ({pc[l]} \X syms)]
          /\ pc[l] \in OptKinds
      BY <1>0, <1>6, StreamerIsUp DEF SubscribeOptions, Subscribe
    <2>2. CASE pc[l] = "summary"
      <3>1. Reconnected(l)
        BY <1>6, <2>2 DEF SubscribeOptions
      <3>2. pc'[l] \in {"queued", "listening"}
        BY <1>0, <3>1 DEF Reconnected, Resume
      <3> QED
        BY <3>2 DEF OptKinds
    <2>3. CASE pc[l] # "summary"
      <3>1. /\ pc' = [pc EXCEPT ![l] = IF pc[l] = "quote" THEN "greeks" ELSE "summary"]
            /\ UNCHANGED <<streamer, syms, refused>>
        BY <1>6, <2>3 DEF SubscribeOptions, Goto, connection
      <3>2. pc'[l] # "trade0" /\ Done(pc'[l]) = Done(pc[l]) \cup {pc[l]}
        BY <1>0, <2>1, <2>3, <3>1 DEF Done, OptKinds
      <3>3. subs'[streamer'] = subs[streamer] \cup ({pc[l]} \X syms)
        BY <1>0, <2>1, <3>1
      <3>4. Keeps(syms) /\ Done(pc[l]) \X syms \subseteq subs[streamer]
        BY <1>6, <1>a, <2>1, LoopsLeave DEF Connect
      <3>5. Done(pc'[l]) \X syms' \subseteq subs'[streamer']
        BY <3>1, <3>2, <3>3, <3>4
      <3>6. Keeps(syms)'
        BY <2>1, <3>1, <3>3, <3>4 DEF Keeps
      <3> QED
        BY <3>2, <3>5, <3>6
    <2> QED
      BY <2>2, <2>3
  <1>7. CASE Others \/ UNCHANGED vars
    <2>1. UNCHANGED <<streamer, syms, pc, stopped, leaked>>
      BY <1>7, OthersLeave
    <2>2. pc[l] \in OptKinds => Keeps(syms) /\ Done(pc[l]) \X syms \subseteq subs[streamer]
      BY <1>a, <2>1
    <2>3. CASE pc[l] \in OptKinds
      <3>1. subs[streamer] \subseteq subs'[streamer'] /\ Keeps(syms)'
        BY <1>0, <1>7, <2>1, <2>2, <2>3, OthersKeep, OthersGrow DEF Keeps
      <3> QED
        BY <2>1, <2>2, <2>3, <3>1 DEF OptKinds
    <2>4. CASE pc[l] = "trade0"
      <3>1. <<"quote", Underlying>> \in subs[streamer]
        BY <1>a, <2>1, <2>4
      <3>2. subs[streamer] \subseteq subs'[streamer']
        BY <1>0, <1>7, OthersGrow
      <3> QED
        BY <2>1, <2>4, <3>1, <3>2 DEF OptKinds
    <2> QED
      BY <2>1, <2>3, <2>4
  <1>8. ~Stop
    BY DEF Stop
  <1> QED
    BY <1>1, <1>2, <1>3, <1>4, <1>5, <1>6, <1>7, <1>8, Steps DEF Connect

\* A rebuild ends with a whole stream, or leaves the next one to a loop that waits.
LEMMA BuiltStep ==
    IInv /\ CallInv /\ TurnInv /\ AskedInv /\ BuiltInv /\ [Next]_vars => BuiltInv'
  <1> SUFFICES ASSUME IInv, CallInv, TurnInv, AskedInv, BuiltInv, [Next]_vars,
                      leaked' = {}, ~stopped', streamer' # 0, lock' = None
               PROVE  \/ Keeps({})'
                      \/ \E k \in Loops : pc'[k] = "queued" /\ gen'[k] = generation'
    BY DEF BuiltInv
  <1>0. TypeOK /\ LockInv /\ OldInv /\ pc \in [Loops -> Labels]
        /\ subs \in [1..opened -> SUBSET Channels] /\ gen \in [Loops -> 0..generation]
    BY DEF IInv, TypeOK
  <1>b. ASSUME leaked = {}, ~stopped, streamer # 0, lock = None
        PROVE  \/ Keeps({})
               \/ \E k \in Loops : pc[k] = "queued" /\ gen[k] = generation
    BY <1>b DEF BuiltInv
  <1>t. ASSUME leaked = {}, ~stopped
        PROVE  /\ lock # None => \A k \in Loops : gen[k] = generation
               /\ \A l \in Loops : pc[l] \in Asked => \A k \in Loops \ {l} : pc[k] = "queued"
    BY <1>t DEF TurnInv, InTurn
  <1>1. ASSUME NEW l \in Loops, LoopDies(l) \/ LateIn(l)
        PROVE  \/ Keeps({})'
               \/ \E k \in Loops : pc'[k] = "queued" /\ gen'[k] = generation'
    <2>1. /\ UNCHANGED <<streamer, subs, options, watch, new, refused, leaked, stopped>>
          /\ UNCHANGED <<generation, lock>>
      BY <1>1 DEF LoopDies, LateIn, connection, watching, feed
    <2>2. CASE Keeps({})
      BY <2>1, <2>2 DEF Keeps
    <2>3. ASSUME NEW k \in Loops, pc[k] = "queued", gen[k] = generation
          PROVE  pc'[k] = "queued" /\ gen'[k] = generation'
      <3>1. k # l
        BY <1>1, <2>3 DEF LoopDies, LateIn, Acquires
      <3>2. pc'[k] = pc[k] /\ gen'[k] = gen[k]
        BY <1>0, <1>1, <3>1 DEF LoopDies, LateIn, Resume
      <3> QED
        BY <2>1, <2>3, <3>2
    <2> QED
      BY <1>b, <2>1, <2>2, <2>3
  <1>2. ASSUME NEW l \in Loops, FirstIn(l) \/ (Connect(l) /\ Works(l))
        PROVE  FALSE
    BY <1>0, <1>2 DEF FirstIn, Works, LockInv
  <1>3. ASSUME NEW l \in Loops, SubscribeBase(l), Completes(l)
        PROVE  Keeps({})'
    <2>1. /\ streamer \in 1..opened /\ UNCHANGED <<streamer, options, watch, new>>
          /\ subs' = [subs EXCEPT ![streamer] = @ \cup {<<"trade", Underlying>>}]
          /\ pc[l] = "trade0"
      BY <1>0, <1>3, StreamerIsUp DEF SubscribeBase, Completes, Subscribe
    <2>2. options = {}
      BY <1>0, <1>3, <2>1 DEF SubscribeBase, Completes, Goto
    <2>3. <<"quote", Underlying>> \in subs[streamer]
      BY <1>3, <2>1, LoopsLeave DEF AskedInv, Connect
    <2>4. Base \subseteq subs'[streamer']
      BY <1>0, <2>1, <2>3 DEF Base
    <2>5. new' = {} /\ options' = {}
      BY <2>1, <2>2 DEF CallInv
    <2> QED
      BY <2>4, <2>5 DEF Keeps
  <1>4. ASSUME NEW l \in Loops, SubscribeOptions(l), Completes(l)
        PROVE  Keeps({})'
    <2>1. /\ streamer \in 1..opened /\ UNCHANGED <<streamer, options, watch, new>>
          /\ subs' = [subs EXCEPT ![streamer] = @ \cup ({"summary"} \X syms)]
          /\ pc[l] = "summary"
      BY <1>0, <1>4, StreamerIsUp DEF SubscribeOptions, Completes, Subscribe, OptKinds
    <2>2. refused' = refused \ syms
      BY <1>4, <2>1 DEF SubscribeOptions, Reconnected
    <2>3. Keeps(syms) /\ Done("summary") \X syms \subseteq subs[streamer]
      BY <1>4, <2>1, LoopsLeave DEF AskedInv, Connect, OptKinds
    <2>4. subs'[streamer'] = subs[streamer] \cup ({"summary"} \X syms)
      BY <1>0, <2>1
    <2>5. OptKinds \X syms \subseteq subs'[streamer']
      <3>1. OptKinds = Done("summary") \cup {"summary"}
        BY DEF Done, OptKinds
      <3> QED
        BY <2>3, <2>4, <3>1
    <2>6. Done(watch) \subseteq OptKinds
      BY DEF Done, OptKinds
    <2>7. Done(watch') \X (new' \ {}) \subseteq subs'[streamer']
      <3> SUFFICES ASSUME NEW k \in Done(watch), NEW x \in new
                   PROVE  <<k, x>> \in subs'[streamer']
        BY <2>1
      <3> QED
        BY <2>3, <2>4, <2>5, <2>6 DEF Keeps
    <2>8. OptKinds \X (options' \ ({} \cup new' \cup refused')) \subseteq subs'[streamer']
      <3> SUFFICES ASSUME NEW k \in OptKinds, NEW x \in options \ (new \cup (refused \ syms))
                   PROVE  <<k, x>> \in subs'[streamer']
        BY <2>1, <2>2
      <3> QED
        BY <2>3, <2>4, <2>5 DEF Keeps
    <2> QED
      BY <2>3, <2>4, <2>7, <2>8 DEF Keeps
  <1>5. ASSUME NEW l \in Loops, ConnectFails(l)
        PROVE  \E k \in Loops : pc'[k] = "queued" /\ gen'[k] = generation'
    <2>1. /\ pc[l] \in Building \ {"closing"} /\ UNCHANGED <<streamer, generation>>
          /\ gen' = [gen EXCEPT ![l] = generation']
          /\ pc' = [pc EXCEPT ![l] = "listening"]
      BY <1>5 DEF ConnectFails, Resume
    <2>2. pc[l] \in Asked
      BY <1>0, <2>1 DEF OldInv, Building, Asked, OptKinds
    <2>3. lock # None
      BY <1>0, <2>2, AskerHolds
    <2>4. PICK k \in Loops \ {l} : TRUE
      BY LoopsAssumption
    <2>5. leaked = {} /\ ~stopped
      BY <1>5, LoopsLeave DEF Connect
    <2>6. pc[k] = "queued" /\ gen[k] = generation
      BY <1>t, <2>2, <2>3, <2>5
    <2> QED
      BY <1>0, <2>1, <2>6
  <1>6. CASE Others \/ UNCHANGED vars
    <2>1. UNCHANGED <<streamer, generation, lock, pc, gen, stopped, leaked>>
      BY <1>6, OthersLeave
    <2>2. CASE Keeps({})
      BY <1>0, <1>6, <2>2, OthersKeep DEF Keeps
    <2>3. ASSUME NEW k \in Loops, pc[k] = "queued", gen[k] = generation
          PROVE  pc'[k] = "queued" /\ gen'[k] = generation'
      BY <2>1, <2>3
    <2> QED
      BY <1>b, <2>1, <2>2, <2>3
  <1>7. ASSUME NEW l \in Loops, BeginConnect(l) \/ CloseOld(l) \/ Build(l)
        PROVE  FALSE
    <2>1. lock' = lock /\ pc[l] \in Working
      BY <1>7 DEF BeginConnect, CloseOld, Build, Working, Building
    <2> QED
      BY <1>0, <2>1 DEF LockInv
  <1>8. ASSUME NEW l \in Loops, SubscribeBase(l) \/ SubscribeOptions(l)
        PROVE  Completes(l)
    <2>1. lock = l /\ streamer # 0
      BY <1>0, <1>8, StreamerIsUp DEF SubscribeBase, SubscribeOptions, LockInv, Working,
         Building, OptKinds
    <2>2. Reconnected(l) /\ pc[l] \in {"trade0", "summary"}
      BY <1>8, <2>1 DEF SubscribeBase, SubscribeOptions, connection
    <2> QED
      BY <2>1, <2>2, ReconnectedCompletes
  <1>9. ~Stop
    BY DEF Stop
  <1> QED
    BY <1>1, <1>2, <1>3, <1>4, <1>5, <1>6, <1>7, <1>8, <1>9, Steps DEF Connect

LEMMA WholeInit == Init => WInv
  <1> SUFFICES ASSUME Init
               PROVE  WInv
    OBVIOUS
  <1>1. /\ queue = <<>> /\ lock = None /\ streamer = 1 /\ subs[1] = Base /\ ~stopped
        /\ options = {} /\ new = {} /\ watch = "idle" /\ refused = {} /\ generation = 0
        /\ \A l \in Loops : pc[l] = "listening" /\ gen[l] = 0
    BY DEF Init
  <1>2. PlaceInv /\ CallInv /\ InTurn
    BY <1>1 DEF PlaceInv, CallInv, InTurn, Distinct, Ordered, Asked, OptKinds
  <1>3. Done(watch) = {}
    BY <1>1 DEF Done
  <1>4. Keeps({}) /\ AskedInv
    BY <1>1, <1>3 DEF Keeps, AskedInv, OptKinds
  <1> QED
    BY <1>2, <1>4 DEF WInv, TurnInv, BuiltInv

\* A stream that every loop reads is whole.
LEMMA WholeRead == IInv /\ WInv => WholeWhenRead
  <1> SUFFICES ASSUME IInv, WInv, leaked = {}, \A l \in Loops : Reading(l) /\ on[l] = streamer
               PROVE  Whole
    BY DEF WholeWhenRead
  <1>1. PICK l \in Loops : TRUE
    BY LoopsAssumption
  <1>2. \A k \in Loops : pc[k] = "listening"
    BY DEF Reading
  <1>3. ~stopped /\ streamer # 0
    BY <1>1, <1>2 DEF Reading, WInv, PlaceInv, IInv, TypeOK
  <1>4. lock = None
    <2>1. \A k \in Loops : lock # k
      BY <1>2 DEF IInv, LockInv, Working, Building
    <2> QED
      BY <2>1 DEF IInv, TypeOK
  <1>5. Keeps({})
    BY <1>2, <1>3, <1>4 DEF WInv, BuiltInv
  <1> QED
    BY <1>5 DEF Keeps, Whole

\* A stream that every loop reads delivers the underlying and every remembered
\* option, unless a close failed: a half-built one is rebuilt first.
THEOREM WholeTheorem == Spec => []WholeWhenRead
  <1>1. IInv /\ WInv /\ [Next]_vars => WInv'
    BY PlaceStep, CallStep, TurnStep, AskedStep, BuiltStep DEF WInv, IInv
  <1>2. Spec => []WInv
    BY Invariant, WholeInit, <1>1, PTL DEF Spec
  <1> QED
    BY Invariant, <1>2, WholeRead, PTL

=============================================================================
