--------------------------- MODULE QueueConnection ---------------------------
(***************************************************************************)
(* QueueService: the API gateway's one connection to RabbitMQ, kept alive  *)
(* by connectWithSetup (at start-up and from a timer), by the 'error' and  *)
(* 'close' listeners of the connection, and ended by onModuleDestroy.      *)
(*                                                                         *)
(* A step runs from one await to the next together with every microtask    *)
(* that follows without I/O, as Node does.  amqplib emits 'error' and      *)
(* 'close' of a dying connection, and rejects the calls pending on it, in  *)
(* one turn of the event loop, so the two listener calls, the catch block  *)
(* of a connectWithSetup that was using the connection and their           *)
(* scheduleReconnect calls all belong to the step ConnectionDies.          *)
(***************************************************************************)
EXTENDS Naturals, FiniteSets

CONSTANTS Conns,        \* identities of AMQP connections (reused once closed)
          Tasks,        \* activations of connectWithSetup that may coexist
          NoConn,       \* null
          MaxAttempt,   \* bound: reconnectAttempt saturates here
          MaxFaults     \* bound: how often the broker or the network fails

ASSUME QueueAssumption ==
  /\ NoConn \notin Conns
  /\ MaxAttempt \in Nat \ {0} /\ MaxFaults \in Nat

VARIABLES connection, channel,  \* this.connection, this.channel
          timer,                \* this.reconnectTimer !== null
          attempt,              \* this.reconnectAttempt
          shuttingDown,         \* this.isShuttingDown
          task,                 \* per activation: where it is, its connection
          open,                 \* connections whose socket is open
          chanOpen,             \* connections whose channel is open
          listening,            \* connections with the two listeners
          parserFirst,          \* cv-parser has declared cv_parser.jobs
          topology,             \* number of Objects the broker knows
          destroy,              \* progress of onModuleDestroy
          serving,              \* onModuleInit returned: HTTP is up
          faults                \* observation only: failures so far

broker == <<parserFirst, topology>>
service == <<connection, channel, timer, attempt, shuttingDown>>
vars == <<service, task, open, chanOpen, listening, broker, destroy, serving,
          faults>>

\* What setupTopology declares, in its order: exchange, DLQ, queue, binding.
Objects == 4
QueueObject == 3

Idle == [at |-> "idle", conn |-> NoConn, step |-> 0]
Active == {t \in Tasks : task[t].at # "idle"}

TypeOK ==
  /\ connection \in Conns \cup {NoConn} /\ channel \in Conns \cup {NoConn}
  /\ timer \in BOOLEAN /\ shuttingDown \in BOOLEAN
  /\ attempt \in 0..MaxAttempt
  /\ task \in [Tasks -> [at : {"idle", "connect", "channel", "setup", "closing"},
                         conn : Conns \cup {NoConn}, step : 0..Objects]]
  /\ open \subseteq Conns /\ chanOpen \subseteq open /\ listening \subseteq open
  /\ parserFirst \in BOOLEAN /\ topology \in 0..Objects
  /\ destroy \in {"no", "channel", "connection", "done", "failed"}
  /\ serving \in BOOLEAN
  /\ faults \in 0..MaxFaults

\* onModuleInit has called connectWithSetup.  The broker may know the durable
\* topology from an earlier run.
Init ==
  /\ connection = NoConn /\ channel = NoConn
  /\ timer = FALSE /\ attempt = 0 /\ shuttingDown = FALSE
  /\ \E t \in Tasks :
       task = [x \in Tasks |-> IF x = t THEN [Idle EXCEPT !.at = "connect"]
                                        ELSE Idle]
  /\ open = {} /\ chanOpen = {} /\ listening = {}
  /\ parserFirst \in BOOLEAN
  /\ topology \in IF parserFirst THEN {0} ELSE {0, Objects}
  /\ destroy = "no" /\ serving = FALSE /\ faults = 0

-----------------------------------------------------------------------------
(* Pieces the methods share.                                                *)

Fault == faults < MaxFaults /\ faults' = faults + 1
Put(t, to) == task' = [task EXCEPT ![t] = to]

\* Faulty variant: the two guards are missing.
ScheduleAlways == /\ timer' = TRUE
                  /\ attempt' = IF attempt < MaxAttempt THEN attempt + 1
                                                        ELSE attempt

\* scheduleReconnect: nothing when shutting down or when a timer is armed.
ScheduleReconnect ==
  IF shuttingDown \/ timer
    THEN UNCHANGED <<timer, attempt>>
    ELSE /\ timer' = TRUE
         /\ attempt' = IF attempt < MaxAttempt THEN attempt + 1 ELSE attempt

\* cleanupConnectionState.
CleanupConnectionState == connection' = NoConn /\ channel' = NoConn

\* Faulty variant: the catch block forgets the connection without closing it.
CatchAndForget(t, c) ==
  /\ CleanupConnectionState
  /\ Put(t, Idle)
  /\ ScheduleReconnect
  /\ UNCHANGED <<shuttingDown, open, chanOpen, listening>>

\* The catch block of connectWithSetup while its connection c is open: the
\* state is cleared at once, then connection.close() is awaited.
CatchAndClose(t, c) ==
  /\ CleanupConnectionState
  /\ Put(t, [at |-> "closing", conn |-> c, step |-> 0])
  /\ chanOpen' = chanOpen \ {c}
  /\ UNCHANGED <<timer, attempt, shuttingDown, open, listening>>

\* Connection c is gone.  handleConnectionLost runs for 'error' and for 'close'
\* if the listeners are there and the service is not shutting down; the
\* connectWithSetup that was awaiting a reply on c fails and clears the state
\* in any case.
ConnectionLost(c) ==
  LET users == {t \in Tasks : task[t].conn = c}
      handled == c \in listening /\ ~shuttingDown
  IN  /\ open' = open \ {c}
      /\ chanOpen' = chanOpen \ {c}
      /\ listening' = listening \ {c}
      /\ task' = [t \in Tasks |-> IF t \in users THEN Idle ELSE task[t]]
      /\ IF handled \/ users # {}
           THEN CleanupConnectionState /\ ScheduleReconnect
           ELSE UNCHANGED <<connection, channel, timer, attempt>>
      /\ serving' = (serving \/ users # {})

-----------------------------------------------------------------------------
(* connectWithSetup.                                                        *)

\* Faulty variant: setInterval in place of setTimeout.
TimerRepeats ==
  /\ timer
  /\ \E t \in Tasks \ Active : Put(t, [Idle EXCEPT !.at = "connect"])
  /\ UNCHANGED <<service, open, chanOpen, listening, broker, destroy, serving, faults>>

\* The timer callback; `void this.connectWithSetup()`.
TimerFires ==
  /\ timer
  /\ timer' = FALSE
  /\ \E t \in Tasks \ Active : Put(t, [Idle EXCEPT !.at = "connect"])
  /\ UNCHANGED <<connection, channel, attempt, shuttingDown, open, chanOpen,
                 listening, broker, destroy, serving, faults>>

\* connect() resolves: this.connection = connection, createChannel is sent.
Connected(t) ==
  /\ task[t].at = "connect"
  /\ \E c \in Conns \ (open \cup {connection, channel}) :
       /\ open' = open \cup {c}
       /\ connection' = c
       /\ Put(t, [at |-> "channel", conn |-> c, step |-> 0])
  /\ UNCHANGED <<channel, timer, attempt, shuttingDown, chanOpen, listening,
                 broker, destroy, serving, faults>>

\* connect() rejects: nothing to close, schedule the next attempt.
ConnectFails(t) ==
  /\ task[t].at = "connect"
  /\ Fault
  /\ CleanupConnectionState
  /\ ScheduleReconnect
  /\ Put(t, Idle)
  /\ serving' = TRUE
  /\ UNCHANGED <<shuttingDown, open, chanOpen, listening, broker, destroy>>

\* Faulty variant: no listeners.
ChannelOpenedUnwatched(t) ==
  /\ task[t].at = "channel"
  /\ channel' = task[t].conn
  /\ chanOpen' = chanOpen \cup {task[t].conn}
  /\ Put(t, [task[t] EXCEPT !.at = "setup"])
  /\ UNCHANGED <<connection, timer, attempt, shuttingDown, open, listening,
                 broker, destroy, serving, faults>>

\* createChannel() resolves: this.channel is set and the listeners are added
\* to this.connection, which is still the one this call opened (see
\* TaskOwnsConnection).
ChannelOpened(t) ==
  /\ task[t].at = "channel"
  /\ channel' = task[t].conn
  /\ chanOpen' = chanOpen \cup {task[t].conn}
  /\ listening' = listening \cup {connection}
  /\ Put(t, [task[t] EXCEPT !.at = "setup"])
  /\ UNCHANGED <<connection, timer, attempt, shuttingDown, open, broker,
                 destroy, serving, faults>>

\* createChannel() rejects on a live connection.
ChannelRefused(t) ==
  /\ task[t].at = "channel"
  /\ Fault
  /\ CatchAndClose(t, task[t].conn)
  /\ UNCHANGED <<broker, destroy, serving>>

\* Faulty variant: a reconnect that succeeds leaves the attempt counter alone.
KeepAttempt(t) ==
  /\ task[t].at = "setup"
  /\ topology' = IF topology > task[t].step THEN topology ELSE task[t].step + 1
  /\ Put(t, IF task[t].step + 1 = Objects THEN Idle
            ELSE [task[t] EXCEPT !.step = @ + 1])
  /\ serving' = (serving \/ task[t].step + 1 = Objects)
  /\ UNCHANGED <<connection, channel, timer, attempt, shuttingDown, open,
                 chanOpen, listening, destroy, parserFirst, faults>>

\* setupTopology, one assert at a time; the last one ends connectWithSetup.
\* A queue that cv-parser declared with x-message-ttl has other arguments.
Declare(t) ==
  /\ task[t].at = "setup"
  /\ ~(parserFirst /\ task[t].step + 1 = QueueObject)
  /\ topology' = IF topology > task[t].step THEN topology ELSE task[t].step + 1
  /\ IF task[t].step + 1 = Objects
       THEN Put(t, Idle) /\ attempt' = 0 /\ serving' = TRUE
       ELSE Put(t, [task[t] EXCEPT !.step = @ + 1]) /\ UNCHANGED <<attempt, serving>>
  /\ UNCHANGED <<connection, channel, timer, shuttingDown, open, chanOpen,
                 listening, destroy, parserFirst, faults>>

\* Faulty variant: the error of assertQueue is swallowed.
MismatchIgnored(t) ==
  /\ task[t].at = "setup"
  /\ parserFirst /\ task[t].step + 1 = QueueObject
  /\ chanOpen' = chanOpen \ {task[t].conn}
  /\ Put(t, Idle)
  /\ serving' = TRUE
  /\ UNCHANGED <<service, open, listening, broker, destroy, faults>>

\* PRECONDITION_FAILED (406): the broker closes the channel and the assert
\* rejects.  The channel has no 'error' listener, and amqplib may fail the
\* whole connection for it.
QueueArgumentsDiffer(t) ==
  /\ task[t].at = "setup"
  /\ parserFirst /\ task[t].step + 1 = QueueObject
  /\ \/ CatchAndClose(t, task[t].conn) /\ UNCHANGED serving
     \/ ConnectionLost(task[t].conn) /\ UNCHANGED shuttingDown
  /\ UNCHANGED <<broker, destroy, faults>>

\* connection.close() of the catch block completes: 'close' is emitted (the
\* listener schedules a reconnect), then connectWithSetup does the same.
CloseCompletes(t) ==
  /\ task[t].at = "closing"
  /\ open' = open \ {task[t].conn}
  /\ listening' = listening \ {task[t].conn}
  /\ ScheduleReconnect
  /\ Put(t, Idle)
  /\ serving' = TRUE
  /\ UNCHANGED <<connection, channel, shuttingDown, chanOpen, broker, destroy, faults>>

-----------------------------------------------------------------------------
(* Loss of a connection.                                                    *)

\* The socket dies.
ConnectionDies(c) ==
  /\ c \in open
  /\ Fault
  /\ ConnectionLost(c)
  /\ UNCHANGED <<shuttingDown, broker, destroy>>

-----------------------------------------------------------------------------
(* onModuleDestroy, called by app.close().                                  *)

\* The flag is set and the timer cleared; `await this.channel?.close()`.
Destroy ==
  /\ serving /\ destroy = "no"
  /\ shuttingDown' = TRUE
  /\ timer' = FALSE
  /\ destroy' = IF channel # NoConn THEN "channel"
                ELSE IF connection # NoConn THEN "connection" ELSE "done"
  /\ UNCHANGED <<connection, channel, attempt, task, open, chanOpen, listening,
                 broker, serving, faults>>

\* The channel is closed; a setupTopology that was using it fails, and closes
\* the connection itself.  Then `await this.connection?.close()`.
DestroyChannelClosed ==
  /\ destroy = "channel" /\ channel \in chanOpen
  /\ chanOpen' = chanOpen \ {channel}
  /\ IF \E t \in Tasks : task[t].at = "setup"
       THEN /\ CleanupConnectionState
            /\ task' = [t \in Tasks |-> IF task[t].at = "setup"
                                        THEN [task[t] EXCEPT !.at = "closing"]
                                        ELSE task[t]]
            /\ destroy' = "done"
       ELSE /\ destroy' = IF connection = NoConn THEN "done" ELSE "connection"
            /\ UNCHANGED <<connection, channel, task>>
  /\ UNCHANGED <<timer, attempt, shuttingDown, open, listening, broker,
                 serving, faults>>

\* The connection is closed (its 'close' listener returns at once), which
\* fails a createChannel pending on it; the state is cleaned up.
DestroyConnectionClosed ==
  /\ destroy = "connection" /\ connection \in open
  /\ open' = open \ {connection}
  /\ chanOpen' = chanOpen \ {connection}
  /\ listening' = listening \ {connection}
  /\ task' = [t \in Tasks |-> IF task[t].conn = connection THEN Idle ELSE task[t]]
  /\ CleanupConnectionState
  /\ destroy' = "done"
  /\ UNCHANGED <<timer, attempt, shuttingDown, broker, serving, faults>>

\* What was to be closed has died meanwhile: a pending or a new close()
\* rejects, unless a failing connectWithSetup has cleared the state in time.
DestroyFindsItClosed ==
  /\ \/ destroy = "channel" /\ channel \notin chanOpen
     \/ destroy = "connection" /\ connection \notin open
  /\ destroy' \in IF connection = NoConn THEN {"done", "failed"} ELSE {"failed"}
  /\ UNCHANGED <<service, task, open, chanOpen, listening, broker, serving, faults>>

-----------------------------------------------------------------------------
\* getQueueStats, polled by QueueMetricsCollector.  checkQueue of a queue that
\* does not exist yet closes the channel under the setupTopology that is about
\* to declare it; otherwise the poll changes nothing.
GetQueueStats(t) ==
  /\ serving /\ task[t].at = "setup" /\ channel \in chanOpen
  /\ ~parserFirst /\ topology < QueueObject
  /\ Fault
  /\ \/ CatchAndClose(t, task[t].conn) /\ UNCHANGED serving
     \/ ConnectionLost(task[t].conn) /\ UNCHANGED shuttingDown
  /\ UNCHANGED <<broker, destroy>>

ConnectWithSetup(t) ==
  \/ Connected(t) \/ ConnectFails(t) \/ ChannelOpened(t) \/ ChannelRefused(t)
  \/ Declare(t) \/ QueueArgumentsDiffer(t) \/ CloseCompletes(t)

OnModuleDestroy == \/ Destroy \/ DestroyChannelClosed
                   \/ DestroyConnectionClosed \/ DestroyFindsItClosed

Next ==
  \/ TimerFires
  \/ \E t \in Tasks : ConnectWithSetup(t) \/ GetQueueStats(t)
  \/ \E c \in Conns : ConnectionDies(c)
  \/ OnModuleDestroy

Spec == Init /\ [][Next]_vars

\* Timers fire, and RabbitMQ answers what it is asked.
Fairness == /\ WF_vars(TimerFires)
            /\ \A t \in Tasks : WF_vars(ConnectWithSetup(t))
FairSpec == Spec /\ Fairness

-----------------------------------------------------------------------------
(* Properties.                                                              *)

Ready == connection = channel /\ channel \in chanOpen /\ Active = {}

\* isHealthy().
IsHealthy == connection # NoConn /\ channel # NoConn

\* this.connection and this.channel, re-read after each await of connect and
\* setupTopology, are still those of the same call, and are open.
TaskOwnsConnection ==
  \A t \in Tasks :
    /\ task[t].at = "channel" => connection = task[t].conn /\ connection \in open
    /\ task[t].at = "setup" => /\ connection = task[t].conn
                               /\ channel = connection
                               /\ channel \in chanOpen \/ destroy = "connection"

\* Until shutdown exactly one thing drives the connection: an armed timer, one
\* connectWithSetup, or the listeners of a ready connection.  Two would open
\* two connections and lose one, or work on each other's; none would never
\* reconnect.
SingleDriver ==
  /\ ~shuttingDown => \/ timer /\ Active = {} /\ connection = NoConn
                      \/ ~timer /\ Cardinality(Active) = 1
                      \/ ~timer /\ Ready /\ channel \in listening
  /\ TaskOwnsConnection

\* No connection stays open that the service has forgotten: each one is the
\* current one or is being closed.
NoLeakedConnection ==
  \A c \in open : \/ c = connection
                  \/ \E t \in Tasks : task[t].at = "closing" /\ task[t].conn = c

\* While the service runs, healthy means that the channel can be used, and a
\* ready service has forgotten the failed attempts.
HealthyIsOpen ==
  ~shuttingDown => /\ IsHealthy => channel \in chanOpen
                   /\ Ready => attempt = 0

\* After app.close() no reconnect is started, by the timer or by a listener.
NoConnectAfterDestroy ==
  [][shuttingDown => \A t \in Tasks : task'[t].at = "connect"
                                      => task[t].at = "connect"]_vars

\* publishCvUploaded asks for no more than a channel, and a broker discards what
\* reaches an exchange without the binding.  That can happen only while a
\* connectWithSetup is between createChannel and its last declaration: a
\* service that looks healthy otherwise has declared everything.
HealthyIsRouted ==
  IsHealthy /\ topology < Objects => \E t \in Tasks : task[t].at = "setup"

\* After its last failure the broker is connected to again for good, unless
\* the service is shut down or cv-parser declared the queue: no loss, in any
\* phase of an attempt, goes unnoticed.
EventuallyReady == <>[](Ready \/ shuttingDown \/ parserFirst)

\* Who drives the connection, for the proofs: SingleDriver without counting,
\* and what is left of it after shutdown.
Driver ==
  /\ \A s, t \in Active : s = t
  /\ IF shuttingDown THEN ~timer
     ELSE \/ timer /\ Active = {} /\ connection = NoConn /\ channel = NoConn
          \/ ~timer /\ Active # {}
          \/ ~timer /\ Ready /\ channel \in listening

\* What a connectWithSetup may rely on after each of its awaits.
Awaits(t) ==
  /\ task[t].at = "idle" => task[t] = Idle
  /\ task[t].at \in {"connect", "closing"} => connection = NoConn /\ channel = NoConn
  /\ task[t].at = "connect" => task[t].conn = NoConn
  /\ task[t].at = "closing" => task[t].conn \in open \ chanOpen
  /\ task[t].at = "channel" => /\ connection = task[t].conn /\ connection \in open
                               /\ channel = NoConn /\ task[t].step = 0
  /\ task[t].at = "setup" => /\ connection = task[t].conn /\ channel = connection
                             /\ channel \in chanOpen /\ channel \in listening
                             /\ task[t].step < Objects /\ task[t].step <= topology

\* The inductive invariant: the properties above, what each activation relies on,
\* and that the flag is set before anything is closed.
QueueInv ==
  /\ TypeOK
  /\ Driver
  /\ \A t \in Tasks : Awaits(t)
  /\ NoLeakedConnection
  /\ HealthyIsOpen
  /\ HealthyIsRouted
  /\ shuttingDown <=> destroy # "no"

-----------------------------------------------------------------------------
(* What comments and docs say and the code does not do.                     *)

\* ADR-009 gives the topology of the services that share the broker, with one
\* cv_parser.jobs and its "TTL: 24 hours", and RabbitMqConfig.java declares that:
\* the order in which the services declare it does not matter.
TopologyIsShared == <>[](Ready \/ shuttingDown)
=============================================================================
