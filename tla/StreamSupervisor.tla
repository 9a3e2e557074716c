-------------------------- MODULE StreamSupervisor --------------------------
(***************************************************************************)
(* MarketDataHub of godmode0dte/data/market_data.py: four supervised listen *)
(* loops over one DXLink stream, the generation-guarded rebuild they share, *)
(* watch_options, the one-shot candle warmup, and stop.  A step is what one *)
(* task does between two awaits.                                            *)
(*                                                                         *)
(* A listen on a stream that is down raises or ends, and a subscription on  *)
(* it raises.  Everything else the network does wrong is a fault, and there *)
(* are at most MaxFaults of them.  Lengths of waits are left out, but for    *)
(* one: by the time a new connection is made, two seconds of backoff later,  *)
(* a loop whose stream is down has noticed.                                *)
(***************************************************************************)
EXTENDS Integers, FiniteSets, Sequences

CONSTANTS
    Loops,      \* quotes, trades, greeks, summary
    None,       \* no loop
    Symbols,    \* streamer symbols of options
    Underlying, \* the underlying with the macro symbols
    MaxFaults   \* bound: faults of the network and of the event handlers

ASSUME StreamAssumption ==
    /\ None \notin Loops /\ Underlying \notin Symbols /\ MaxFaults \in Nat

\* Of one loop alone nobody rebuilds what its own failed rebuild left.
ASSUME LoopsAssumption == \E k, l \in Loops : k # l

VARIABLES
    streamer,   \* _streamer: number of a connection, 0 for None
    options,    \* _option_symbols
    generation, \* _generation
    lock,       \* holder of _restart_lock
    queue,      \* loops that wait for it, in order
    old,        \* old, in the _connect of the holder
    syms,       \* syms, in the _connect of the holder
    pc, on, gen,\* per loop: what it does, the stream it listens to, its gen
    watch, new, \* watch_options: what it does next, and for which symbols
    warm,       \* the warmup task: "start", "listening" or "set"
    warmOn,     \* the stream the warmup listens to
    stopped,    \* _stopped
    opened,     \* feed: connections made so far
    up,         \* feed: connections that are open
    subs,       \* feed: what each connection delivers
    faults,     \* history: faults so far
    leaked,     \* history: connections whose close failed
    refused     \* history: symbols watch_options failed to subscribe

connection == <<streamer, generation, lock, old, syms>>
tasks      == <<pc, on, gen, queue>>
watching   == <<watch, new, options, refused>>
warmup     == <<warm, warmOn>>
feed       == <<opened, up, subs>>
vars == <<connection, tasks, watching, warmup, feed, stopped, faults, leaked>>

Kinds    == {"quote", "trade", "greeks", "summary"}
OptKinds == {"quote", "greeks", "summary"}
Channels == Kinds \X (Symbols \cup {Underlying})
Base     == {<<"quote", Underlying>>, <<"trade", Underlying>>}
Building == {"closing", "building", "quote0", "trade0", "quote", "greeks", "summary"}
Labels   == Building \cup {"listening", "queued", "backoff", "ended"}

TypeOK ==
    /\ streamer \in 0..opened /\ old \in 0..opened /\ opened \in Nat
    /\ options \subseteq Symbols /\ syms \subseteq Symbols
    /\ generation \in Nat /\ lock \in Loops \cup {None} /\ queue \in Seq(Loops)
    /\ pc \in [Loops -> Labels] /\ gen \in [Loops -> 0..generation]
    /\ on \in [Loops -> 0..opened]
    /\ watch \in OptKinds \cup {"idle"} /\ new \subseteq Symbols
    /\ warm \in {"start", "listening", "set"} /\ warmOn \in 0..opened
    /\ stopped \in BOOLEAN /\ up \subseteq 1..opened
    /\ subs \in [1..opened -> SUBSET Channels]
    /\ faults \in 0..MaxFaults
    /\ leaked \subseteq 1..opened /\ refused \subseteq Symbols

\* start: the first _connect succeeded, and the tasks begin to listen.
Init ==
    /\ streamer = 1 /\ options = {} /\ generation = 0
    /\ lock = None /\ queue = <<>> /\ old = 0 /\ syms = {}
    /\ pc = [l \in Loops |-> "listening"] /\ on = [l \in Loops |-> 1]
    /\ gen = [l \in Loops |-> 0]
    /\ watch = "idle" /\ new = {} /\ warm = "start" /\ warmOn = 0
    /\ stopped = FALSE /\ opened = 1 /\ up = {1} /\ subs = [i \in {1} |-> Base]
    /\ faults = 0 /\ leaked = {} /\ refused = {}

Fault   == faults < MaxFaults /\ faults' = faults + 1
NoFault == UNCHANGED faults

-----------------------------------------------------------------------------
(* The feed.                                                                *)

Drop(s) ==
    /\ s \in up /\ Fault /\ up' = up \ {s}
    /\ UNCHANGED <<connection, tasks, watching, warmup, opened, subs, stopped, leaked>>

\* subscribe on self._streamer: what it adds, or that it raises.
Subscribe(wanted) ==
    /\ streamer \in up /\ NoFault
    /\ subs' = [subs EXCEPT ![streamer] = @ \cup wanted]

SubscribeRaises == \/ streamer \notin up /\ NoFault
                   \/ streamer \in up /\ Fault

-----------------------------------------------------------------------------
(* _supervised.                                                             *)

Goto(l, label) == pc' = [pc EXCEPT ![l] = label] /\ UNCHANGED <<on, gen, queue>>

\* Mutant: the loop takes the generation after the one it listens to.
ResumeAhead(l, waiting) ==
    /\ gen' = [gen EXCEPT ![l] = generation' + 1]
    /\ on' = [on EXCEPT ![l] = streamer']
    /\ pc' = [pc EXCEPT ![l] = IF streamer' = 0 THEN "queued" ELSE "listening"]
    /\ queue' = IF streamer' = 0 THEN Append(waiting, l) ELSE waiting

\* The top of the loop: gen is read, and listen on None raises at once.
Resume(l, waiting) ==
    /\ gen' = [gen EXCEPT ![l] = generation']
    /\ on' = [on EXCEPT ![l] = streamer']
    /\ pc' = [pc EXCEPT ![l] = IF streamer' = 0 THEN "queued" ELSE "listening"]
    /\ queue' = IF streamer' = 0 THEN Append(waiting, l) ELSE waiting

\* Mutant: a listen loop that ends without an exception ends its task.
LoopDiesSilently(l) ==
    /\ pc[l] = "listening"
    /\ \/ /\ on[l] \notin up /\ NoFault /\ Goto(l, "ended")
       \/ /\ on[l] \in up /\ Fault
          /\ pc' = [pc EXCEPT ![l] = "queued"] /\ queue' = Append(queue, l)
          /\ UNCHANGED <<on, gen>>
    /\ UNCHANGED <<connection, watching, warmup, feed, stopped, leaked>>

\* The listen loop ends or raises: its stream is down, or an event is bad.
LoopDies(l) ==
    /\ pc[l] = "listening"
    /\ \/ on[l] \notin up /\ NoFault
       \/ on[l] \in up /\ Fault
    /\ pc' = [pc EXCEPT ![l] = "queued"] /\ queue' = Append(queue, l)
    /\ UNCHANGED <<on, gen>>
    /\ UNCHANGED <<connection, watching, warmup, feed, stopped, leaked>>

Acquires(l) == pc[l] = "queued" /\ lock = None /\ Head(queue) = l

\* Mutant: every loop that gets the lock rebuilds.
FirstInAlways(l) ==
    /\ Acquires(l)
    /\ lock' = l /\ pc' = [pc EXCEPT ![l] = "backoff"] /\ queue' = Tail(queue)
    /\ UNCHANGED <<on, gen>>
    /\ UNCHANGED <<streamer, generation, old, syms, watching, warmup, feed, stopped,
                   faults, leaked>>

\* The generation is still the one that failed.
FirstIn(l) ==
    /\ Acquires(l) /\ generation = gen[l]
    /\ lock' = l /\ pc' = [pc EXCEPT ![l] = "backoff"] /\ queue' = Tail(queue)
    /\ UNCHANGED <<on, gen>>
    /\ UNCHANGED <<streamer, generation, old, syms, watching, warmup, feed, stopped,
                   faults, leaked>>

\* Another loop has rebuilt for all.
LateIn(l) ==
    /\ Acquires(l) /\ generation # gen[l]
    /\ UNCHANGED connection /\ Resume(l, Tail(queue))
    /\ UNCHANGED <<watching, warmup, feed, stopped, faults, leaked>>

-----------------------------------------------------------------------------
(* _connect, in the loop that holds the lock.                               *)

BeginConnect(l) ==
    /\ pc[l] = "backoff" /\ old' = streamer /\ streamer' = 0
    /\ Goto(l, IF streamer = 0 THEN "building" ELSE "closing")
    /\ UNCHANGED <<generation, lock, syms, watching, warmup, feed, stopped, faults, leaked>>

\* Mutant: the replaced stream is dropped without closing it.
CloseOldNever(l) ==
    /\ pc[l] = "closing" /\ Goto(l, "building") /\ old' = 0 /\ NoFault
    /\ UNCHANGED <<streamer, generation, lock, syms, watching, warmup, feed, stopped, leaked>>

CloseOld(l) ==
    /\ pc[l] = "closing" /\ Goto(l, "building") /\ old' = 0
    /\ \/ up' = up \ {old} /\ NoFault /\ UNCHANGED leaked
       \/ Fault /\ leaked' = leaked \cup {old} /\ UNCHANGED up
    /\ UNCHANGED <<streamer, generation, lock, syms, watching, warmup, opened, subs, stopped>>

Unnoticed == \E l \in Loops : pc[l] = "listening" /\ on[l] \notin up

Build(l) ==
    /\ pc[l] = "building" /\ ~Unnoticed /\ Goto(l, "quote0")
    /\ opened' = opened + 1 /\ streamer' = opened + 1
    /\ up' = up \cup {opened + 1}
    /\ subs' = [s \in 1..opened + 1 |-> IF s = opened + 1 THEN {} ELSE subs[s]]
    /\ UNCHANGED <<generation, lock, old, syms, watching, warmup, stopped, faults, leaked>>

\* _connect returned: the generation moves on, and the lock is released.
Reconnected(l) ==
    /\ generation' = generation + 1 /\ lock' = None /\ syms' = {}
    /\ refused' = refused \ syms
    /\ UNCHANGED <<streamer, old>> /\ Resume(l, queue)

\* The two subscriptions every stream has.
SubscribeBase(l) ==
    /\ \/ /\ pc[l] = "quote0" /\ Subscribe({<<"quote", Underlying>>})
          /\ Goto(l, "trade0")
          /\ UNCHANGED <<connection, refused>>
       \/ /\ pc[l] = "trade0" /\ Subscribe({<<"trade", Underlying>>})
          /\ IF options = {}
             THEN Reconnected(l)
             ELSE /\ Goto(l, "quote") /\ syms' = options
                  /\ UNCHANGED <<streamer, generation, lock, old, refused>>
    /\ UNCHANGED <<options, watch, new, warmup, opened, up, stopped, leaked>>

\* The three subscriptions of the remembered options.
SubscribeOptions(l) ==
    /\ pc[l] \in OptKinds /\ Subscribe({pc[l]} \X syms)
    /\ IF pc[l] = "summary"
       THEN Reconnected(l)
       ELSE /\ Goto(l, IF pc[l] = "quote" THEN "greeks" ELSE "summary")
            /\ UNCHANGED <<connection, refused>>
    /\ UNCHANGED <<options, watch, new, warmup, opened, up, stopped, leaked>>

\* Mutant: a failed rebuild is a new generation too.
ConnectFailsCounts(l) ==
    /\ pc[l] \in Building \ {"closing"}
    /\ IF pc[l] = "building" THEN Fault ELSE SubscribeRaises
    /\ lock' = None /\ old' = 0 /\ syms' = {} /\ generation' = generation + 1
    /\ UNCHANGED streamer /\ Resume(l, queue)
    /\ UNCHANGED <<watching, warmup, feed, stopped, leaked>>

\* Any call of _connect raises: what it has built so far stays in _streamer.
ConnectFails(l) ==
    /\ pc[l] \in Building \ {"closing"}
    /\ IF pc[l] = "building" THEN Fault ELSE SubscribeRaises
    /\ lock' = None /\ old' = 0 /\ syms' = {}
    /\ UNCHANGED <<streamer, generation>> /\ Resume(l, queue)
    /\ UNCHANGED <<watching, warmup, feed, stopped, leaked>>

-----------------------------------------------------------------------------
(* watch_options.                                                           *)

\* Without a stream, or with nothing new, the call returns at once.
WatchCall(wanted) ==
    /\ watch = "idle" /\ streamer # 0 /\ wanted \ options # {}
    /\ new' = wanted \ options /\ options' = options \cup wanted /\ watch' = "quote"
    /\ UNCHANGED <<connection, tasks, warmup, feed, stopped, faults, leaked, refused>>

WatchStep ==
    /\ watch \in OptKinds
    /\ Subscribe({watch} \X new)
    /\ IF watch = "summary"
       THEN watch' = "idle" /\ new' = {}
       ELSE /\ watch' = IF watch = "quote" THEN "greeks" ELSE "summary"
            /\ UNCHANGED new
    /\ UNCHANGED <<connection, tasks, options, refused, warmup, opened, up, stopped, leaked>>

WatchRaises ==
    /\ watch \in OptKinds /\ SubscribeRaises
    /\ watch' = "idle" /\ new' = {} /\ refused' = refused \cup new
    /\ UNCHANGED <<connection, tasks, options, warmup, feed, stopped, leaked>>

-----------------------------------------------------------------------------
(* _warmup_candles: whatever happens, warmup_done is set.                   *)

WarmupSubscribes ==
    /\ warm = "start" /\ streamer \in up
    /\ warm' = "listening" /\ warmOn' = streamer
    /\ UNCHANGED <<connection, tasks, watching, feed, stopped, faults, leaked>>

\* It raises, or its stream ends.
WarmupFails ==
    /\ \/ warm = "start" /\ SubscribeRaises
       \/ warm = "listening" /\ warmOn \notin up /\ NoFault
    /\ warm' = "set" /\ warmOn' = 0
    /\ UNCHANGED <<connection, tasks, watching, feed, stopped, leaked>>

\* A candle at or after the open, or after the deadline, ends it.
WarmupLoads ==
    /\ warm = "listening" /\ warmOn \in up
    /\ warm' = "set" /\ warmOn' = 0
    /\ UNCHANGED <<connection, tasks, watching, feed, stopped, faults, leaked>>

-----------------------------------------------------------------------------

\* stop: the tasks are cancelled, the stream is closed.
Stop ==
    /\ ~stopped /\ stopped' = TRUE
    /\ pc' = [l \in Loops |-> "ended"] /\ lock' = None /\ queue' = <<>>
    /\ old' = 0 /\ syms' = {} /\ up' = up \ {streamer}
    /\ warm' = "set" /\ warmOn' = 0
    /\ UNCHANGED <<streamer, generation, on, gen, watching, opened, subs, faults, leaked>>

Connect(l) == BeginConnect(l) \/ CloseOld(l) \/ Build(l) \/ SubscribeBase(l)
              \/ SubscribeOptions(l) \/ ConnectFails(l)
Supervised(l) == LoopDies(l) \/ FirstIn(l) \/ LateIn(l) \/ Connect(l)
WatchOptions  == WatchStep \/ WatchRaises
Warmup        == WarmupSubscribes \/ WarmupFails \/ WarmupLoads

Next ==
    \/ \E l \in Loops : Supervised(l)
    \/ \E wanted \in SUBSET Symbols : WatchCall(wanted)
    \/ WatchOptions \/ Warmup \/ Stop
    \/ \E s \in up : Drop(s)

Spec == Init /\ [][Next]_vars

\* A task of the event loop that can go on does; of the feed, only that it
\* sends the warmup a candle that ends it.  Faults may happen and need not.
Fairness ==
    /\ \A l \in Loops : WF_vars(NoFault /\ Supervised(l))
    /\ WF_vars(NoFault /\ WatchOptions) /\ WF_vars(NoFault /\ Warmup)

FairSpec == Spec /\ Fairness

-----------------------------------------------------------------------------
(* Properties.                                                              *)

Reading(l) == pc[l] = "listening" /\ on[l] \in up
Whole == Base \cup (OptKinds \X (options \ (new \cup refused))) \subseteq subs[streamer]

\* Nobody leaks or keeps reading a replaced stream: a connection is open only
\* as the current one, as the one a rebuild is closing, or because its close
\* failed or was cut off by stop; a loop reads one of those.
OneStream ==
    ~stopped => /\ up \subseteq {streamer, old} \cup leaked
                /\ \A l \in Loops : Reading(l) => on[l] \in {streamer, old} \cup leaked

\* A half-built stream does not stay: once every loop reads the current stream,
\* it delivers the underlying and every remembered option, but for those
\* watch_options is subscribing or was refused.  Not so if a close failed: a loop
\* that reads the leaked stream misses a generation, and joins the half-built
\* stream later instead of rebuilding it (market_data.py:169-177).
WholeWhenRead ==
    leaked = {} /\ (\A l \in Loops : Reading(l) /\ on[l] = streamer) => Whole

\* The rebuilds of the four loops are those of ReconnectOnce: one at a time, and
\* one for each stream that failed.
Once == INSTANCE ReconnectOnce WITH
            epoch   <- generation,
            joined  <- gen,
            broken  <- {l \in Loops : pc[l] # "listening"},
            builder <- lock
RebuildsOnce == Once!Spec

\* When the network no longer fails, all loops come to read one whole stream for
\* good, and the warmup has reported, unless the hub is stopped or a close failed
\* (a loop that still reads the leaked stream leaves a half-built one in place).
Served == <>[](\/ stopped \/ leaked # {}
               \/ /\ warm = "set" /\ streamer \in up /\ Whole
                  /\ \A l \in Loops : Reading(l) /\ on[l] = streamer)
=============================================================================
