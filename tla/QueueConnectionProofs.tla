------------------------ MODULE QueueConnectionProofs ------------------------
(***************************************************************************)
(* Proofs about QueueConnection, for any number of connections, of         *)
(* activations and of failures.                                            *)
(***************************************************************************)
EXTENDS QueueConnection, FiniteSetTheorems, TLAPS

\* Where an activation may be.
Places == [at : {"idle", "connect", "channel", "setup", "closing"},
           conn : Conns \cup {NoConn}, step : 0..Objects]

\* A new activation of connectWithSetup holds nothing yet.
LEMMA BeginsWithConnect ==
  [Idle EXCEPT !.at = "connect"] = [at |-> "connect", conn |-> NoConn, step |-> 0]
BY DEF Idle

\* An activation is put somewhere.
LEMMA PutType ==
  ASSUME TypeOK, NEW t \in Tasks, NEW to \in Places, Put(t, to)
  PROVE  task' \in [Tasks -> Places]
BY DEF TypeOK, Put, Places

\* The counter saturates.
LEMMA ScheduleType ==
  ASSUME TypeOK, ScheduleReconnect
  PROVE  timer' \in BOOLEAN /\ attempt' \in 0..MaxAttempt
<1>1. CASE shuttingDown \/ timer
  <2>1. timer' = timer /\ attempt' = attempt
    BY <1>1, Zenon DEF ScheduleReconnect
  <2>2. QED BY <2>1, Zenon DEF TypeOK
<1>2. CASE ~(shuttingDown \/ timer)
  <2>1. timer' = TRUE /\ attempt' = IF attempt < MaxAttempt THEN attempt + 1 ELSE attempt
    BY <1>2, Zenon DEF ScheduleReconnect
  <2>2. attempt \in 0..MaxAttempt /\ MaxAttempt \in Nat
    BY QueueAssumption DEF TypeOK
  <2>3. attempt' \in 0..MaxAttempt
    BY <2>1, <2>2
  <2>4. QED BY <2>1, <2>3, Zenon
<1>3. QED BY <1>1, <1>2

\* The service starts with fields of the right types.
LEMMA TypeInit == Init => TypeOK
<1>1. SUFFICES ASSUME Init PROVE TypeOK
  OBVIOUS
<1>2. PICK t \in Tasks :
        task = [x \in Tasks |-> IF x = t THEN [Idle EXCEPT !.at = "connect"] ELSE Idle]
  BY <1>1 DEF Init
<1>3. task \in [Tasks -> Places]
  <2>1. Idle \in Places /\ [at |-> "connect", conn |-> NoConn, step |-> 0] \in Places
    BY DEF Idle, Places, Objects
  <2>2. task = [x \in Tasks |-> IF x = t THEN [at |-> "connect", conn |-> NoConn, step |-> 0]
                                        ELSE Idle]
    BY <1>2, BeginsWithConnect, Zenon
  <2>3. ASSUME NEW P, NEW a \in P, NEW b \in P
        PROVE  [x \in Tasks |-> IF x = t THEN a ELSE b] \in [Tasks -> P]
    OBVIOUS
  <2>4. QED BY <2>1, <2>2, <2>3, Zenon
<1>4. /\ connection = NoConn /\ channel = NoConn /\ timer = FALSE /\ attempt = 0
      /\ shuttingDown = FALSE /\ open = {} /\ chanOpen = {} /\ listening = {}
      /\ parserFirst \in BOOLEAN /\ topology \in 0..Objects
      /\ destroy = "no" /\ serving = FALSE /\ faults = 0
  BY <1>1 DEF Init, Objects
<1>5. 0 \in 0..MaxAttempt /\ 0 \in 0..MaxFaults
  BY QueueAssumption
<1>6. QED BY <1>3, <1>4, <1>5 DEF TypeOK, Places

\* When the module starts, one activation is about to connect.
LEMMA InitQueueInv == Init => QueueInv
<1>1. SUFFICES ASSUME Init PROVE QueueInv
  OBVIOUS
<1>2. TypeOK
  BY <1>1, TypeInit
<1>3. PICK t \in Tasks :
        task = [x \in Tasks |-> IF x = t THEN [Idle EXCEPT !.at = "connect"] ELSE Idle]
  BY <1>1 DEF Init
<1>4. Active = {t}
  BY <1>3 DEF Active, Idle
<1>5. Driver
  BY <1>1, <1>4 DEF Init, Driver
<1>6. \A x \in Tasks : Awaits(x)
  BY <1>1, <1>3 DEF Init, Awaits, Idle
<1>7. NoLeakedConnection /\ HealthyIsOpen /\ HealthyIsRouted
  BY <1>1, <1>4 DEF Init, NoLeakedConnection, HealthyIsOpen, HealthyIsRouted,
                    IsHealthy, Ready
<1>8. QED BY <1>1, <1>2, <1>5, <1>6, <1>7 DEF Init, QueueInv

-----------------------------------------------------------------------------
(* Pieces the methods share.                                                *)

\* One activation at most is on its way, so all but t are idle.
LEMMA OthersIdle ==
  ASSUME QueueInv, NEW t \in Tasks, task[t].at # "idle"
  PROVE  /\ \A x \in Tasks \ {t} : task[x] = Idle
         /\ Active = {t}
BY DEF QueueInv, Driver, Awaits, Active

\* A connection that is lost is no longer used, whatever phase it was in; what
\* follows is a timer, or shutdown.
LEMMA ConnectionLostKeeps ==
  ASSUME QueueInv, NEW c \in open, ConnectionLost(c),
         UNCHANGED <<shuttingDown, broker, destroy>>, faults' \in 0..MaxFaults
  PROVE  QueueInv'
<1>1. TypeOK /\ Driver /\ NoLeakedConnection /\ HealthyIsOpen /\ HealthyIsRouted
      /\ (shuttingDown <=> destroy # "no") /\ \A t \in Tasks : Awaits(t)
  BY DEF QueueInv
<1>2. TypeOK'
  <2>1. task' \in [Tasks -> Places]
    BY <1>1 DEF ConnectionLost, TypeOK, Idle, Places, Objects
  <2>2. timer' \in BOOLEAN /\ attempt' \in 0..MaxAttempt
    BY <1>1, ScheduleType DEF ConnectionLost, TypeOK
  <2>3. /\ connection' \in Conns \cup {NoConn} /\ channel' \in Conns \cup {NoConn}
        /\ serving' \in BOOLEAN
    BY <1>1 DEF ConnectionLost, TypeOK, CleanupConnectionState
  <2>4. open' \subseteq Conns /\ chanOpen' \subseteq open' /\ listening' \subseteq open'
    BY <1>1 DEF ConnectionLost, TypeOK
  <2>5. QED BY <1>1, <2>1, <2>2, <2>3, <2>4 DEF TypeOK, broker, Places
<1>3. CASE \E t \in Tasks : task[t].conn = c
  <2>1. PICK t \in Tasks : task[t].conn = c
    BY <1>3
  <2>2. task[t].at # "idle" /\ c # NoConn
    BY <1>1, <2>1, QueueAssumption DEF Awaits, Idle, TypeOK
  <2>3. task' = [x \in Tasks |-> Idle]
    BY <1>1, <2>1, <2>2, OthersIdle DEF ConnectionLost, TypeOK
  <2>4. connection' = NoConn /\ channel' = NoConn
    BY <2>1 DEF ConnectionLost, CleanupConnectionState
  <2>5. open' = open \ {c} /\ shuttingDown' = shuttingDown
        /\ (IF shuttingDown THEN timer' = timer ELSE timer' = TRUE)
    BY <2>1 DEF ConnectionLost, ScheduleReconnect
  <2>6. Driver'
    BY <1>1, <2>3, <2>4, <2>5 DEF Driver, Active, Idle
  <2>7. \A x \in Tasks : Awaits(x)'
    BY <2>3, QueueAssumption DEF Awaits, Idle
  <2>8. NoLeakedConnection'
    BY <1>1, <2>1, <2>2, <2>3, <2>4, <2>5, OthersIdle DEF NoLeakedConnection, Awaits, Idle
  <2>9. HealthyIsOpen' /\ HealthyIsRouted'
    BY <1>2, <2>4, QueueAssumption DEF HealthyIsOpen, HealthyIsRouted, IsHealthy, Ready, TypeOK
  <2>10. QED BY <1>1, <1>2, <2>6, <2>7, <2>8, <2>9 DEF QueueInv
<1>4. CASE ~ \E t \in Tasks : task[t].conn = c
  <2>1. task' = task
    BY <1>1, <1>4 DEF ConnectionLost, TypeOK
  <2>2. open' = open \ {c} /\ chanOpen' = chanOpen \ {c} /\ listening' = listening \ {c}
    BY DEF ConnectionLost
  <2>3. c = connection
    BY <1>1, <1>4 DEF NoLeakedConnection
  <2>4. Active = {}
    BY <1>1, <1>4, <2>3, QueueAssumption DEF Active, Awaits, TypeOK
  <2>5. QED
    BY <1>1, <1>2, <1>4, <2>1, <2>2, <2>3, <2>4, QueueAssumption
       DEF ConnectionLost, CleanupConnectionState, ScheduleReconnect, QueueInv, Driver,
           Awaits, Active, NoLeakedConnection, HealthyIsOpen, HealthyIsRouted,
           IsHealthy, Ready, TypeOK, broker
<1>5. QED BY <1>3, <1>4

\* The catch block of an activation whose connection is open.
LEMMA CatchAndCloseKeeps ==
  ASSUME QueueInv, NEW t \in Tasks, task[t].at \in {"channel", "setup"},
         CatchAndClose(t, task[t].conn),
         UNCHANGED <<broker, destroy, serving>>, faults' \in 0..MaxFaults
  PROVE  QueueInv'
<1>1. TypeOK /\ Awaits(t) /\ NoLeakedConnection /\ Driver
      /\ (shuttingDown <=> destroy # "no")
  BY DEF QueueInv
<1>2. Active = {t} /\ \A x \in Tasks \ {t} : task[x] = Idle
  BY OthersIdle
<1>3. TypeOK'
  BY <1>1, QueueAssumption DEF CatchAndClose, CleanupConnectionState, Put, TypeOK,
     Objects, broker
<1>4. task' = [task EXCEPT ![t] = [at |-> "closing", conn |-> task[t].conn, step |-> 0]]
  BY DEF CatchAndClose, Put
<1>5. Active' = {t}
  BY <1>1, <1>2, <1>4 DEF Active, Idle, TypeOK
<1>6. connection' = NoConn /\ channel' = NoConn /\ open' = open
      /\ UNCHANGED <<timer, shuttingDown>>
  BY DEF CatchAndClose, CleanupConnectionState
<1>7. Driver'
  BY <1>1, <1>2, <1>5, <1>6 DEF Driver
<1>8. task[t].conn \in open
  BY <1>1 DEF Awaits, TypeOK
<1>9. \A x \in Tasks : Awaits(x)'
  BY <1>1, <1>2, <1>4, <1>6, <1>8, QueueAssumption DEF Awaits, Idle, TypeOK, CatchAndClose
<1>10. NoLeakedConnection'
  BY <1>1, <1>2, <1>4, <1>6 DEF NoLeakedConnection, Awaits, Idle, TypeOK
<1>11. HealthyIsOpen' /\ HealthyIsRouted'
  BY <1>3, <1>6, QueueAssumption DEF HealthyIsOpen, HealthyIsRouted, IsHealthy, Ready, TypeOK
<1>12. QED BY <1>1, <1>3, <1>6, <1>7, <1>9, <1>10, <1>11 DEF QueueInv, CatchAndClose

-----------------------------------------------------------------------------
(* One lemma per step.                                                      *)

\* The timer starts an activation where there was none.
LEMMA TimerFiresKeeps ==
  ASSUME QueueInv, TimerFires
  PROVE  QueueInv'
<1>3. TypeOK'
  <2>1. PICK t \in Tasks : Put(t, [at |-> "connect", conn |-> NoConn, step |-> 0])
    BY BeginsWithConnect DEF TimerFires
  <2>2. task' \in [Tasks -> Places]
    BY <2>1, PutType DEF QueueInv, Places, Objects
  <2>3. QED BY <2>2 DEF TimerFires, QueueInv, TypeOK, broker, Places
<1>4. Driver'
  BY QueueAssumption DEF TimerFires, QueueInv, TypeOK, Driver, Awaits, Active, Idle, Objects,
     NoLeakedConnection, HealthyIsOpen, HealthyIsRouted, IsHealthy, Ready, Put, Fault,
     CleanupConnectionState, ScheduleReconnect, broker, service
<1>5. \A x \in Tasks : Awaits(x)'
  BY QueueAssumption DEF TimerFires, QueueInv, TypeOK, Driver, Awaits, Active, Idle, Objects,
     NoLeakedConnection, HealthyIsOpen, HealthyIsRouted, IsHealthy, Ready, Put, Fault,
     CleanupConnectionState, ScheduleReconnect, broker, service
<1>6. NoLeakedConnection'
  BY QueueAssumption DEF TimerFires, QueueInv, TypeOK, Driver, Awaits, Active, Idle, Objects,
     NoLeakedConnection, HealthyIsOpen, HealthyIsRouted, IsHealthy, Ready, Put, Fault,
     CleanupConnectionState, ScheduleReconnect, broker, service
<1>7. HealthyIsOpen'
  BY QueueAssumption DEF TimerFires, QueueInv, TypeOK, Driver, Awaits, Active, Idle, Objects,
     NoLeakedConnection, HealthyIsOpen, HealthyIsRouted, IsHealthy, Ready, Put, Fault,
     CleanupConnectionState, ScheduleReconnect, broker, service
<1>8. HealthyIsRouted'
  BY QueueAssumption DEF TimerFires, QueueInv, TypeOK, Driver, Awaits, Active, Idle, Objects,
     NoLeakedConnection, HealthyIsOpen, HealthyIsRouted, IsHealthy, Ready, Put, Fault,
     CleanupConnectionState, ScheduleReconnect, broker, service
<1>9. shuttingDown' <=> destroy' # "no"
  BY QueueAssumption DEF TimerFires, QueueInv, TypeOK, Driver, Awaits, Active, Idle, Objects,
     NoLeakedConnection, HealthyIsOpen, HealthyIsRouted, IsHealthy, Ready, Put, Fault,
     CleanupConnectionState, ScheduleReconnect, broker, service
<1>10. QED BY <1>3, <1>4, <1>5, <1>6, <1>7, <1>8, <1>9 DEF QueueInv

\* A connection opens.
LEMMA ConnectedKeeps ==
  ASSUME QueueInv, NEW t \in Tasks, Connected(t)
  PROVE  QueueInv'
<1>1. task[t].at # "idle"
  BY DEF Connected
<1>2. Active = {t} /\ \A x \in Tasks \ {t} : task[x] = Idle
  BY <1>1, OthersIdle
<1>3. TypeOK'
  BY <1>1, <1>2, QueueAssumption DEF Connected, QueueInv, TypeOK, Driver, Awaits, Active, Idle, Objects,
     NoLeakedConnection, HealthyIsOpen, HealthyIsRouted, IsHealthy, Ready, Put, Fault,
     CleanupConnectionState, ScheduleReconnect, broker, service
<1>4. Driver'
  BY <1>1, <1>2, QueueAssumption DEF Connected, QueueInv, TypeOK, Driver, Awaits, Active, Idle, Objects,
     NoLeakedConnection, HealthyIsOpen, HealthyIsRouted, IsHealthy, Ready, Put, Fault,
     CleanupConnectionState, ScheduleReconnect, broker, service
<1>5. \A x \in Tasks : Awaits(x)'
  BY <1>1, <1>2, QueueAssumption DEF Connected, QueueInv, TypeOK, Driver, Awaits, Active, Idle, Objects,
     NoLeakedConnection, HealthyIsOpen, HealthyIsRouted, IsHealthy, Ready, Put, Fault,
     CleanupConnectionState, ScheduleReconnect, broker, service
<1>6. NoLeakedConnection'
  BY <1>1, <1>2, QueueAssumption DEF Connected, QueueInv, TypeOK, Driver, Awaits, Active, Idle, Objects,
     NoLeakedConnection, HealthyIsOpen, HealthyIsRouted, IsHealthy, Ready, Put, Fault,
     CleanupConnectionState, ScheduleReconnect, broker, service
<1>7. HealthyIsOpen'
  BY <1>1, <1>2, QueueAssumption DEF Connected, QueueInv, TypeOK, Driver, Awaits, Active, Idle, Objects,
     NoLeakedConnection, HealthyIsOpen, HealthyIsRouted, IsHealthy, Ready, Put, Fault,
     CleanupConnectionState, ScheduleReconnect, broker, service
<1>8. HealthyIsRouted'
  BY <1>1, <1>2, QueueAssumption DEF Connected, QueueInv, TypeOK, Driver, Awaits, Active, Idle, Objects,
     NoLeakedConnection, HealthyIsOpen, HealthyIsRouted, IsHealthy, Ready, Put, Fault,
     CleanupConnectionState, ScheduleReconnect, broker, service
<1>9. shuttingDown' <=> destroy' # "no"
  BY <1>1, <1>2, QueueAssumption DEF Connected, QueueInv, TypeOK, Driver, Awaits, Active, Idle, Objects,
     NoLeakedConnection, HealthyIsOpen, HealthyIsRouted, IsHealthy, Ready, Put, Fault,
     CleanupConnectionState, ScheduleReconnect, broker, service
<1>10. QED BY <1>3, <1>4, <1>5, <1>6, <1>7, <1>8, <1>9 DEF QueueInv

\* It does not.
LEMMA ConnectFailsKeeps ==
  ASSUME QueueInv, NEW t \in Tasks, ConnectFails(t)
  PROVE  QueueInv'
<1>1. task[t].at # "idle"
  BY DEF ConnectFails
<1>2. Active = {t} /\ \A x \in Tasks \ {t} : task[x] = Idle
  BY <1>1, OthersIdle
<1>3. TypeOK'
  <2>1. task' \in [Tasks -> Places]
    BY PutType DEF ConnectFails, QueueInv, Places, Objects, Idle
  <2>2. timer' \in BOOLEAN /\ attempt' \in 0..MaxAttempt
    BY ScheduleType DEF ConnectFails, QueueInv
  <2>3. faults' \in 0..MaxFaults
    BY QueueAssumption DEF ConnectFails, Fault, QueueInv, TypeOK
  <2>4. QED BY <2>1, <2>2, <2>3 DEF ConnectFails, QueueInv, TypeOK, broker, Places,
       CleanupConnectionState
<1>4. Driver'
  BY <1>1, <1>2, QueueAssumption DEF ConnectFails, QueueInv, TypeOK, Driver, Awaits, Active, Idle, Objects,
     NoLeakedConnection, HealthyIsOpen, HealthyIsRouted, IsHealthy, Ready, Put, Fault,
     CleanupConnectionState, ScheduleReconnect, broker, service
<1>5. \A x \in Tasks : Awaits(x)'
  BY <1>1, <1>2, QueueAssumption DEF ConnectFails, QueueInv, TypeOK, Driver, Awaits, Active, Idle, Objects,
     NoLeakedConnection, HealthyIsOpen, HealthyIsRouted, IsHealthy, Ready, Put, Fault,
     CleanupConnectionState, ScheduleReconnect, broker, service
<1>6. NoLeakedConnection'
  BY <1>1, <1>2, QueueAssumption DEF ConnectFails, QueueInv, TypeOK, Driver, Awaits, Active, Idle, Objects,
     NoLeakedConnection, HealthyIsOpen, HealthyIsRouted, IsHealthy, Ready, Put, Fault,
     CleanupConnectionState, ScheduleReconnect, broker, service
<1>7. HealthyIsOpen'
  BY <1>1, <1>2, QueueAssumption DEF ConnectFails, QueueInv, TypeOK, Driver, Awaits, Active, Idle, Objects,
     NoLeakedConnection, HealthyIsOpen, HealthyIsRouted, IsHealthy, Ready, Put, Fault,
     CleanupConnectionState, ScheduleReconnect, broker, service
<1>8. HealthyIsRouted'
  BY <1>1, <1>2, QueueAssumption DEF ConnectFails, QueueInv, TypeOK, Driver, Awaits, Active, Idle, Objects,
     NoLeakedConnection, HealthyIsOpen, HealthyIsRouted, IsHealthy, Ready, Put, Fault,
     CleanupConnectionState, ScheduleReconnect, broker, service
<1>9. shuttingDown' <=> destroy' # "no"
  BY <1>1, <1>2, QueueAssumption DEF ConnectFails, QueueInv, TypeOK, Driver, Awaits, Active, Idle, Objects,
     NoLeakedConnection, HealthyIsOpen, HealthyIsRouted, IsHealthy, Ready, Put, Fault,
     CleanupConnectionState, ScheduleReconnect, broker, service
<1>10. QED BY <1>3, <1>4, <1>5, <1>6, <1>7, <1>8, <1>9 DEF QueueInv

\* A channel opens.
LEMMA ChannelOpenedKeeps ==
  ASSUME QueueInv, NEW t \in Tasks, ChannelOpened(t)
  PROVE  QueueInv'
<1>1. task[t].at # "idle"
  BY DEF ChannelOpened
<1>2. Active = {t} /\ \A x \in Tasks \ {t} : task[x] = Idle
  BY <1>1, OthersIdle
<1>3. TypeOK'
  BY <1>1, <1>2, QueueAssumption DEF ChannelOpened, QueueInv, TypeOK, Driver, Awaits, Active, Idle, Objects,
     NoLeakedConnection, HealthyIsOpen, HealthyIsRouted, IsHealthy, Ready, Put, Fault,
     CleanupConnectionState, ScheduleReconnect, broker, service
<1>4. Driver'
  BY <1>1, <1>2, QueueAssumption DEF ChannelOpened, QueueInv, TypeOK, Driver, Awaits, Active, Idle, Objects,
     NoLeakedConnection, HealthyIsOpen, HealthyIsRouted, IsHealthy, Ready, Put, Fault,
     CleanupConnectionState, ScheduleReconnect, broker, service
<1>5. \A x \in Tasks : Awaits(x)'
  BY <1>1, <1>2, QueueAssumption DEF ChannelOpened, QueueInv, TypeOK, Driver, Awaits, Active, Idle, Objects,
     NoLeakedConnection, HealthyIsOpen, HealthyIsRouted, IsHealthy, Ready, Put, Fault,
     CleanupConnectionState, ScheduleReconnect, broker, service
<1>6. NoLeakedConnection'
  BY <1>1, <1>2, QueueAssumption DEF ChannelOpened, QueueInv, TypeOK, Driver, Awaits, Active, Idle, Objects,
     NoLeakedConnection, HealthyIsOpen, HealthyIsRouted, IsHealthy, Ready, Put, Fault,
     CleanupConnectionState, ScheduleReconnect, broker, service
<1>7. HealthyIsOpen'
  BY <1>1, <1>2, QueueAssumption DEF ChannelOpened, QueueInv, TypeOK, Driver, Awaits, Active, Idle, Objects,
     NoLeakedConnection, HealthyIsOpen, HealthyIsRouted, IsHealthy, Ready, Put, Fault,
     CleanupConnectionState, ScheduleReconnect, broker, service
<1>8. HealthyIsRouted'
  BY <1>1, <1>2, QueueAssumption DEF ChannelOpened, QueueInv, TypeOK, Driver, Awaits, Active, Idle, Objects,
     NoLeakedConnection, HealthyIsOpen, HealthyIsRouted, IsHealthy, Ready, Put, Fault,
     CleanupConnectionState, ScheduleReconnect, broker, service
<1>9. shuttingDown' <=> destroy' # "no"
  BY <1>1, <1>2, QueueAssumption DEF ChannelOpened, QueueInv, TypeOK, Driver, Awaits, Active, Idle, Objects,
     NoLeakedConnection, HealthyIsOpen, HealthyIsRouted, IsHealthy, Ready, Put, Fault,
     CleanupConnectionState, ScheduleReconnect, broker, service
<1>10. QED BY <1>3, <1>4, <1>5, <1>6, <1>7, <1>8, <1>9 DEF QueueInv

\* An object is declared.
LEMMA DeclareKeeps ==
  ASSUME QueueInv, NEW t \in Tasks, Declare(t)
  PROVE  QueueInv'
<1>1. task[t].at # "idle"
  BY DEF Declare
<1>2. Active = {t} /\ \A x \in Tasks \ {t} : task[x] = Idle
  BY <1>1, OthersIdle
<1>3. TypeOK'
  <2>1. task[t] \in Places /\ task[t].step < Objects
    BY DEF Declare, QueueInv, TypeOK, Awaits, Places
  <2>2. [task[t] EXCEPT !.step = @ + 1] \in Places /\ Idle \in Places
    BY <2>1 DEF Places, Objects, Idle
  <2>3. task' \in [Tasks -> Places]
    BY <2>2, PutType DEF Declare, QueueInv
  <2>4. topology' \in 0..Objects
    BY <2>1 DEF Declare, QueueInv, TypeOK, Objects, Places
  <2>5. attempt' \in 0..MaxAttempt /\ serving' \in BOOLEAN
    <3>1. attempt \in 0..MaxAttempt /\ serving \in BOOLEAN /\ MaxAttempt \in Nat
      BY QueueAssumption DEF QueueInv, TypeOK
    <3>2. attempt' \in {0, attempt} /\ serving' \in {TRUE, serving}
      BY Zenon DEF Declare
    <3>3. attempt' \in 0..MaxAttempt
      BY <3>1, <3>2
    <3>4. QED BY <3>1, <3>2, <3>3, Zenon
  <2>6. QED BY <2>3, <2>4, <2>5 DEF Declare, QueueInv, TypeOK, Places
<1>4. Driver'
  BY <1>1, <1>2, QueueAssumption DEF Declare, QueueInv, TypeOK, Driver, Awaits, Active, Idle, Objects,
     NoLeakedConnection, HealthyIsOpen, HealthyIsRouted, IsHealthy, Ready, Put, Fault,
     CleanupConnectionState, ScheduleReconnect, broker, service
<1>5. \A x \in Tasks : Awaits(x)'
  BY <1>1, <1>2, QueueAssumption DEF Declare, QueueInv, TypeOK, Driver, Awaits, Active, Idle, Objects,
     NoLeakedConnection, HealthyIsOpen, HealthyIsRouted, IsHealthy, Ready, Put, Fault,
     CleanupConnectionState, ScheduleReconnect, broker, service
<1>6. NoLeakedConnection'
  BY <1>1, <1>2, QueueAssumption DEF Declare, QueueInv, TypeOK, Driver, Awaits, Active, Idle, Objects,
     NoLeakedConnection, HealthyIsOpen, HealthyIsRouted, IsHealthy, Ready, Put, Fault,
     CleanupConnectionState, ScheduleReconnect, broker, service
<1>7. HealthyIsOpen'
  BY <1>1, <1>2, QueueAssumption DEF Declare, QueueInv, TypeOK, Driver, Awaits, Active, Idle, Objects,
     NoLeakedConnection, HealthyIsOpen, HealthyIsRouted, IsHealthy, Ready, Put, Fault,
     CleanupConnectionState, ScheduleReconnect, broker, service
<1>8. HealthyIsRouted'
  BY <1>1, <1>2, QueueAssumption DEF Declare, QueueInv, TypeOK, Driver, Awaits, Active, Idle, Objects,
     NoLeakedConnection, HealthyIsOpen, HealthyIsRouted, IsHealthy, Ready, Put, Fault,
     CleanupConnectionState, ScheduleReconnect, broker, service
<1>9. shuttingDown' <=> destroy' # "no"
  BY <1>1, <1>2, QueueAssumption DEF Declare, QueueInv, TypeOK, Driver, Awaits, Active, Idle, Objects,
     NoLeakedConnection, HealthyIsOpen, HealthyIsRouted, IsHealthy, Ready, Put, Fault,
     CleanupConnectionState, ScheduleReconnect, broker, service
<1>10. QED BY <1>3, <1>4, <1>5, <1>6, <1>7, <1>8, <1>9 DEF QueueInv

\* The catch block is through.
LEMMA CloseCompletesKeeps ==
  ASSUME QueueInv, NEW t \in Tasks, CloseCompletes(t)
  PROVE  QueueInv'
<1>1. task[t].at # "idle"
  BY DEF CloseCompletes
<1>2. Active = {t} /\ \A x \in Tasks \ {t} : task[x] = Idle
  BY <1>1, OthersIdle
<1>3. TypeOK'
  <2>1. task' \in [Tasks -> Places]
    BY PutType DEF CloseCompletes, QueueInv, Places, Objects, Idle
  <2>2. timer' \in BOOLEAN /\ attempt' \in 0..MaxAttempt
    BY ScheduleType DEF CloseCompletes, QueueInv
  <2>3. open' \subseteq Conns /\ chanOpen' \subseteq open' /\ listening' \subseteq open'
    BY DEF CloseCompletes, QueueInv, TypeOK, Awaits
  <2>4. QED BY <2>1, <2>2, <2>3 DEF CloseCompletes, QueueInv, TypeOK, broker, Places
<1>4. Driver'
  BY <1>1, <1>2, QueueAssumption DEF CloseCompletes, QueueInv, TypeOK, Driver, Awaits, Active, Idle, Objects,
     NoLeakedConnection, HealthyIsOpen, HealthyIsRouted, IsHealthy, Ready, Put, Fault,
     CleanupConnectionState, ScheduleReconnect, broker, service
<1>5. \A x \in Tasks : Awaits(x)'
  BY <1>1, <1>2, QueueAssumption DEF CloseCompletes, QueueInv, TypeOK, Driver, Awaits, Active, Idle, Objects,
     NoLeakedConnection, HealthyIsOpen, HealthyIsRouted, IsHealthy, Ready, Put, Fault,
     CleanupConnectionState, ScheduleReconnect, broker, service
<1>6. NoLeakedConnection'
  BY <1>1, <1>2, QueueAssumption DEF CloseCompletes, QueueInv, TypeOK, Driver, Awaits, Active, Idle, Objects,
     NoLeakedConnection, HealthyIsOpen, HealthyIsRouted, IsHealthy, Ready, Put, Fault,
     CleanupConnectionState, ScheduleReconnect, broker, service
<1>7. HealthyIsOpen'
  BY <1>1, <1>2, QueueAssumption DEF CloseCompletes, QueueInv, TypeOK, Driver, Awaits, Active, Idle, Objects,
     NoLeakedConnection, HealthyIsOpen, HealthyIsRouted, IsHealthy, Ready, Put, Fault,
     CleanupConnectionState, ScheduleReconnect, broker, service
<1>8. HealthyIsRouted'
  BY <1>1, <1>2, QueueAssumption DEF CloseCompletes, QueueInv, TypeOK, Driver, Awaits, Active, Idle, Objects,
     NoLeakedConnection, HealthyIsOpen, HealthyIsRouted, IsHealthy, Ready, Put, Fault,
     CleanupConnectionState, ScheduleReconnect, broker, service
<1>9. shuttingDown' <=> destroy' # "no"
  BY <1>1, <1>2, QueueAssumption DEF CloseCompletes, QueueInv, TypeOK, Driver, Awaits, Active, Idle, Objects,
     NoLeakedConnection, HealthyIsOpen, HealthyIsRouted, IsHealthy, Ready, Put, Fault,
     CleanupConnectionState, ScheduleReconnect, broker, service
<1>10. QED BY <1>3, <1>4, <1>5, <1>6, <1>7, <1>8, <1>9 DEF QueueInv

\* Shutdown begins.
LEMMA DestroyKeeps ==
  ASSUME QueueInv, Destroy
  PROVE  QueueInv'
<1>3. TypeOK'
  BY QueueAssumption DEF Destroy, QueueInv, TypeOK, Driver, Awaits, Active, Idle, Objects,
     NoLeakedConnection, HealthyIsOpen, HealthyIsRouted, IsHealthy, Ready, Put, Fault,
     CleanupConnectionState, ScheduleReconnect, broker, service
<1>4. Driver'
  BY QueueAssumption DEF Destroy, QueueInv, TypeOK, Driver, Awaits, Active, Idle, Objects,
     NoLeakedConnection, HealthyIsOpen, HealthyIsRouted, IsHealthy, Ready, Put, Fault,
     CleanupConnectionState, ScheduleReconnect, broker, service
<1>5. \A x \in Tasks : Awaits(x)'
  BY QueueAssumption DEF Destroy, QueueInv, TypeOK, Driver, Awaits, Active, Idle, Objects,
     NoLeakedConnection, HealthyIsOpen, HealthyIsRouted, IsHealthy, Ready, Put, Fault,
     CleanupConnectionState, ScheduleReconnect, broker, service
<1>6. NoLeakedConnection'
  BY QueueAssumption DEF Destroy, QueueInv, TypeOK, Driver, Awaits, Active, Idle, Objects,
     NoLeakedConnection, HealthyIsOpen, HealthyIsRouted, IsHealthy, Ready, Put, Fault,
     CleanupConnectionState, ScheduleReconnect, broker, service
<1>7. HealthyIsOpen'
  BY QueueAssumption DEF Destroy, QueueInv, TypeOK, Driver, Awaits, Active, Idle, Objects,
     NoLeakedConnection, HealthyIsOpen, HealthyIsRouted, IsHealthy, Ready, Put, Fault,
     CleanupConnectionState, ScheduleReconnect, broker, service
<1>8. HealthyIsRouted'
  BY QueueAssumption DEF Destroy, QueueInv, TypeOK, Driver, Awaits, Active, Idle, Objects,
     NoLeakedConnection, HealthyIsOpen, HealthyIsRouted, IsHealthy, Ready, Put, Fault,
     CleanupConnectionState, ScheduleReconnect, broker, service
<1>9. shuttingDown' <=> destroy' # "no"
  BY QueueAssumption DEF Destroy, QueueInv, TypeOK, Driver, Awaits, Active, Idle, Objects,
     NoLeakedConnection, HealthyIsOpen, HealthyIsRouted, IsHealthy, Ready, Put, Fault,
     CleanupConnectionState, ScheduleReconnect, broker, service
<1>10. QED BY <1>3, <1>4, <1>5, <1>6, <1>7, <1>8, <1>9 DEF QueueInv

\* The channel is closed.
LEMMA DestroyChannelClosedKeeps ==
  ASSUME QueueInv, DestroyChannelClosed
  PROVE  QueueInv'
<1>3. TypeOK'
  BY QueueAssumption DEF DestroyChannelClosed, QueueInv, TypeOK, Driver, Awaits, Active, Idle, Objects,
     NoLeakedConnection, HealthyIsOpen, HealthyIsRouted, IsHealthy, Ready, Put, Fault,
     CleanupConnectionState, ScheduleReconnect, broker, service
<1>4. Driver'
  BY QueueAssumption DEF DestroyChannelClosed, QueueInv, TypeOK, Driver, Awaits, Active, Idle, Objects,
     NoLeakedConnection, HealthyIsOpen, HealthyIsRouted, IsHealthy, Ready, Put, Fault,
     CleanupConnectionState, ScheduleReconnect, broker, service
<1>5. \A x \in Tasks : Awaits(x)'
  BY QueueAssumption DEF DestroyChannelClosed, QueueInv, TypeOK, Driver, Awaits, Active, Idle, Objects,
     NoLeakedConnection, HealthyIsOpen, HealthyIsRouted, IsHealthy, Ready, Put, Fault,
     CleanupConnectionState, ScheduleReconnect, broker, service
<1>6. NoLeakedConnection'
  BY QueueAssumption DEF DestroyChannelClosed, QueueInv, TypeOK, Driver, Awaits, Active, Idle, Objects,
     NoLeakedConnection, HealthyIsOpen, HealthyIsRouted, IsHealthy, Ready, Put, Fault,
     CleanupConnectionState, ScheduleReconnect, broker, service
<1>7. HealthyIsOpen'
  BY QueueAssumption DEF DestroyChannelClosed, QueueInv, TypeOK, Driver, Awaits, Active, Idle, Objects,
     NoLeakedConnection, HealthyIsOpen, HealthyIsRouted, IsHealthy, Ready, Put, Fault,
     CleanupConnectionState, ScheduleReconnect, broker, service
<1>8. HealthyIsRouted'
  BY QueueAssumption DEF DestroyChannelClosed, QueueInv, TypeOK, Driver, Awaits, Active, Idle, Objects,
     NoLeakedConnection, HealthyIsOpen, HealthyIsRouted, IsHealthy, Ready, Put, Fault,
     CleanupConnectionState, ScheduleReconnect, broker, service
<1>9. shuttingDown' <=> destroy' # "no"
  BY QueueAssumption DEF DestroyChannelClosed, QueueInv, TypeOK, Driver, Awaits, Active, Idle, Objects,
     NoLeakedConnection, HealthyIsOpen, HealthyIsRouted, IsHealthy, Ready, Put, Fault,
     CleanupConnectionState, ScheduleReconnect, broker, service
<1>10. QED BY <1>3, <1>4, <1>5, <1>6, <1>7, <1>8, <1>9 DEF QueueInv

\* The connection is closed.
LEMMA DestroyConnectionClosedKeeps ==
  ASSUME QueueInv, DestroyConnectionClosed
  PROVE  QueueInv'
<1>3. TypeOK'
  BY QueueAssumption DEF DestroyConnectionClosed, QueueInv, TypeOK, Driver, Awaits, Active, Idle, Objects,
     NoLeakedConnection, HealthyIsOpen, HealthyIsRouted, IsHealthy, Ready, Put, Fault,
     CleanupConnectionState, ScheduleReconnect, broker, service
<1>4. Driver'
  BY QueueAssumption DEF DestroyConnectionClosed, QueueInv, TypeOK, Driver, Awaits, Active, Idle, Objects,
     NoLeakedConnection, HealthyIsOpen, HealthyIsRouted, IsHealthy, Ready, Put, Fault,
     CleanupConnectionState, ScheduleReconnect, broker, service
<1>5. \A x \in Tasks : Awaits(x)'
  BY QueueAssumption DEF DestroyConnectionClosed, QueueInv, TypeOK, Driver, Awaits, Active, Idle, Objects,
     NoLeakedConnection, HealthyIsOpen, HealthyIsRouted, IsHealthy, Ready, Put, Fault,
     CleanupConnectionState, ScheduleReconnect, broker, service
<1>6. NoLeakedConnection'
  BY QueueAssumption DEF DestroyConnectionClosed, QueueInv, TypeOK, Driver, Awaits, Active, Idle, Objects,
     NoLeakedConnection, HealthyIsOpen, HealthyIsRouted, IsHealthy, Ready, Put, Fault,
     CleanupConnectionState, ScheduleReconnect, broker, service
<1>7. HealthyIsOpen'
  BY QueueAssumption DEF DestroyConnectionClosed, QueueInv, TypeOK, Driver, Awaits, Active, Idle, Objects,
     NoLeakedConnection, HealthyIsOpen, HealthyIsRouted, IsHealthy, Ready, Put, Fault,
     CleanupConnectionState, ScheduleReconnect, broker, service
<1>8. HealthyIsRouted'
  BY QueueAssumption DEF DestroyConnectionClosed, QueueInv, TypeOK, Driver, Awaits, Active, Idle, Objects,
     NoLeakedConnection, HealthyIsOpen, HealthyIsRouted, IsHealthy, Ready, Put, Fault,
     CleanupConnectionState, ScheduleReconnect, broker, service
<1>9. shuttingDown' <=> destroy' # "no"
  BY QueueAssumption DEF DestroyConnectionClosed, QueueInv, TypeOK, Driver, Awaits, Active, Idle, Objects,
     NoLeakedConnection, HealthyIsOpen, HealthyIsRouted, IsHealthy, Ready, Put, Fault,
     CleanupConnectionState, ScheduleReconnect, broker, service
<1>10. QED BY <1>3, <1>4, <1>5, <1>6, <1>7, <1>8, <1>9 DEF QueueInv

\* It was closed before.
LEMMA DestroyFindsItClosedKeeps ==
  ASSUME QueueInv, DestroyFindsItClosed
  PROVE  QueueInv'
<1>3. TypeOK'
  BY QueueAssumption DEF DestroyFindsItClosed, QueueInv, TypeOK, Driver, Awaits, Active, Idle, Objects,
     NoLeakedConnection, HealthyIsOpen, HealthyIsRouted, IsHealthy, Ready, Put, Fault,
     CleanupConnectionState, ScheduleReconnect, broker, service
<1>4. Driver'
  BY QueueAssumption DEF DestroyFindsItClosed, QueueInv, TypeOK, Driver, Awaits, Active, Idle, Objects,
     NoLeakedConnection, HealthyIsOpen, HealthyIsRouted, IsHealthy, Ready, Put, Fault,
     CleanupConnectionState, ScheduleReconnect, broker, service
<1>5. \A x \in Tasks : Awaits(x)'
  BY QueueAssumption DEF DestroyFindsItClosed, QueueInv, TypeOK, Driver, Awaits, Active, Idle, Objects,
     NoLeakedConnection, HealthyIsOpen, HealthyIsRouted, IsHealthy, Ready, Put, Fault,
     CleanupConnectionState, ScheduleReconnect, broker, service
<1>6. NoLeakedConnection'
  BY QueueAssumption DEF DestroyFindsItClosed, QueueInv, TypeOK, Driver, Awaits, Active, Idle, Objects,
     NoLeakedConnection, HealthyIsOpen, HealthyIsRouted, IsHealthy, Ready, Put, Fault,
     CleanupConnectionState, ScheduleReconnect, broker, service
<1>7. HealthyIsOpen'
  BY QueueAssumption DEF DestroyFindsItClosed, QueueInv, TypeOK, Driver, Awaits, Active, Idle, Objects,
     NoLeakedConnection, HealthyIsOpen, HealthyIsRouted, IsHealthy, Ready, Put, Fault,
     CleanupConnectionState, ScheduleReconnect, broker, service
<1>8. HealthyIsRouted'
  BY QueueAssumption DEF DestroyFindsItClosed, QueueInv, TypeOK, Driver, Awaits, Active, Idle, Objects,
     NoLeakedConnection, HealthyIsOpen, HealthyIsRouted, IsHealthy, Ready, Put, Fault,
     CleanupConnectionState, ScheduleReconnect, broker, service
<1>9. shuttingDown' <=> destroy' # "no"
  BY QueueAssumption DEF DestroyFindsItClosed, QueueInv, TypeOK, Driver, Awaits, Active, Idle, Objects,
     NoLeakedConnection, HealthyIsOpen, HealthyIsRouted, IsHealthy, Ready, Put, Fault,
     CleanupConnectionState, ScheduleReconnect, broker, service
<1>10. QED BY <1>3, <1>4, <1>5, <1>6, <1>7, <1>8, <1>9 DEF QueueInv

-----------------------------------------------------------------------------
(* The invariant and what follows from it.                                  *)

\* The steps that end in a catch block or in the loss of a connection.
LEMMA FailuresKeep ==
  ASSUME QueueInv,
         \/ \E t \in Tasks : ChannelRefused(t) \/ QueueArgumentsDiffer(t) \/ GetQueueStats(t)
         \/ \E c \in Conns : ConnectionDies(c)
  PROVE  QueueInv'
<1>1. faults \in 0..MaxFaults /\ (Fault => faults' \in 0..MaxFaults)
  BY QueueAssumption DEF QueueInv, TypeOK, Fault
<1>2. \A t \in Tasks : task[t].at \in {"channel", "setup"} => task[t].conn \in open
  BY DEF QueueInv, Awaits, TypeOK
<1>3. ASSUME NEW t \in Tasks, ChannelRefused(t) PROVE QueueInv'
  <2>1. /\ task[t].at \in {"channel", "setup"} /\ CatchAndClose(t, task[t].conn)
        /\ UNCHANGED <<broker, destroy, serving>> /\ faults' \in 0..MaxFaults
    BY <1>1, <1>3 DEF ChannelRefused
  <2>2. QED BY <2>1, CatchAndCloseKeeps
<1>4. ASSUME NEW t \in Tasks, QueueArgumentsDiffer(t) \/ GetQueueStats(t) PROVE QueueInv'
  <2>1. /\ task[t].at = "setup" /\ faults' \in 0..MaxFaults
        /\ UNCHANGED <<broker, destroy>>
        /\ \/ CatchAndClose(t, task[t].conn) /\ UNCHANGED serving
           \/ ConnectionLost(task[t].conn) /\ UNCHANGED shuttingDown
    BY <1>1, <1>4 DEF QueueArgumentsDiffer, GetQueueStats
  <2>2. CASE CatchAndClose(t, task[t].conn) /\ UNCHANGED serving
    BY <2>1, <2>2, CatchAndCloseKeeps
  <2>3. CASE ConnectionLost(task[t].conn) /\ UNCHANGED shuttingDown
    BY <1>2, <2>1, <2>3, ConnectionLostKeeps
  <2>4. QED BY <2>1, <2>2, <2>3
<1>5. ASSUME NEW c \in Conns, ConnectionDies(c) PROVE QueueInv'
  BY <1>1, <1>5, ConnectionLostKeeps DEF ConnectionDies
<1>6. QED BY <1>3, <1>4, <1>5

\* Every handler, listener, timer and failure keeps the invariant.
LEMMA NextQueueInv == QueueInv /\ [Next]_vars => QueueInv'
<1>1. SUFFICES ASSUME QueueInv, [Next]_vars PROVE QueueInv'
  OBVIOUS
<1>2. CASE TimerFires BY <1>1, <1>2, TimerFiresKeeps
<1>3. ASSUME NEW t \in Tasks, ConnectWithSetup(t) PROVE QueueInv'
  BY <1>1, <1>3, ConnectedKeeps, ConnectFailsKeeps, ChannelOpenedKeeps, DeclareKeeps,
     CloseCompletesKeeps, FailuresKeep DEF ConnectWithSetup
<1>4. ASSUME NEW t \in Tasks, GetQueueStats(t) PROVE QueueInv'
  BY <1>1, <1>4, FailuresKeep
<1>5. ASSUME NEW c \in Conns, ConnectionDies(c) PROVE QueueInv'
  BY <1>1, <1>5, FailuresKeep
<1>6. CASE OnModuleDestroy
  BY <1>1, <1>6, DestroyKeeps, DestroyChannelClosedKeeps, DestroyConnectionClosedKeeps,
     DestroyFindsItClosedKeeps DEF OnModuleDestroy
<1>7. CASE UNCHANGED vars
  BY <1>1, <1>7 DEF vars, service, broker, QueueInv, TypeOK, Driver, Awaits, Active,
     NoLeakedConnection, HealthyIsOpen, HealthyIsRouted, IsHealthy, Ready
<1>8. QED BY <1>1, <1>2, <1>3, <1>4, <1>5, <1>6, <1>7 DEF Next

\* The reconnect logic keeps its invariant whatever fails in whatever phase, and
\* whenever it is shut down.
THEOREM QueueInvariance == Spec => []QueueInv
<1>1. QED BY InitQueueInv, NextQueueInv, PTL DEF Spec

\* One activation or the timer, and nothing beside it, counted as the property does.
LEMMA DriverIsSingle == QueueInv => SingleDriver
<1>1. SUFFICES ASSUME QueueInv PROVE SingleDriver
  OBVIOUS
<1>2. Active # {} => Cardinality(Active) = 1
  <2>1. ASSUME Active # {} PROVE \E t : Active = {t}
    BY <1>1, <2>1 DEF QueueInv, Driver
  <2>2. QED BY <2>1, FS_Singleton
<1>3. TaskOwnsConnection
  BY <1>1 DEF QueueInv, Awaits, TaskOwnsConnection
<1>4. QED BY <1>1, <1>2, <1>3 DEF QueueInv, Driver, SingleDriver

\* One thing at a time drives the connection: the timer, one activation, or the
\* listeners.
THEOREM OneDriver == Spec => []SingleDriver
<1>1. QED BY QueueInvariance, DriverIsSingle, PTL

\* No open connection is forgotten.
THEOREM NothingLeaks == Spec => []NoLeakedConnection
<1>1. QueueInv => NoLeakedConnection BY DEF QueueInv
<1>2. QED BY QueueInvariance, <1>1, PTL

\* HealthyIsOpen: until shutdown the channel that isHealthy looks at is open.
THEOREM HealthIsOpen == Spec => []HealthyIsOpen
<1>1. QueueInv => HealthyIsOpen BY DEF QueueInv
<1>2. QED BY QueueInvariance, <1>1, PTL

\* HealthyIsRouted: a healthy gateway has its topology declared, or has an
\* activation that is declaring it.
THEOREM HealthIsRouted == Spec => []HealthyIsRouted
<1>1. QueueInv => HealthyIsRouted BY DEF QueueInv
<1>2. QED BY QueueInvariance, <1>1, PTL

\* Whatever is in flight when the service is shut down, nothing starts again.
THEOREM ShutdownIsFinal == Spec => NoConnectAfterDestroy
<1>1. ASSUME QueueInv, [Next]_vars, shuttingDown, NEW t \in Tasks,
             task'[t].at = "connect"
      PROVE  task[t].at = "connect"
  <2>1. ~timer /\ TypeOK
    BY <1>1 DEF QueueInv, Driver
  <2>2. ~TimerFires
    BY <2>1 DEF TimerFires
  <2>3. ASSUME NEW x \in Tasks, ConnectWithSetup(x) \/ GetQueueStats(x)
        PROVE  task[t].at = "connect"
    <3>1. CASE ConnectionLost(task[x].conn)
      BY <1>1, <2>1, <3>1 DEF ConnectionLost, Idle, TypeOK
    <3>2. CASE CatchAndClose(x, task[x].conn)
      BY <1>1, <2>1, <3>2 DEF CatchAndClose, Put, TypeOK
    <3>3. CASE Connected(x)
      BY <1>1, <2>1, <3>3 DEF Connected, Put, TypeOK
    <3>4. CASE ConnectFails(x) \/ CloseCompletes(x)
      <4>1. task' = [task EXCEPT ![x] = Idle]
        BY <3>4 DEF ConnectFails, CloseCompletes, Put
      <4>2. Idle.at # "connect" /\ task \in [Tasks -> Places]
        BY <2>1 DEF Idle, TypeOK, Places
      <4>3. QED BY <1>1, <2>3, <4>1, <4>2
    <3>5. CASE ChannelOpened(x)
      BY <1>1, <2>1, <3>5 DEF ChannelOpened, Put, TypeOK
    <3>6. CASE Declare(x)
      BY <1>1, <2>1, <3>6 DEF Declare, Put, Idle, TypeOK
    <3>7. QED
      BY <2>3, <3>1, <3>2, <3>3, <3>4, <3>5, <3>6
         DEF ConnectWithSetup, ChannelRefused, QueueArgumentsDiffer, GetQueueStats
  <2>4. ASSUME NEW c \in Conns, ConnectionDies(c)
        PROVE  task[t].at = "connect"
    BY <1>1, <2>1, <2>4 DEF ConnectionDies, ConnectionLost, Idle, TypeOK
  <2>5. CASE OnModuleDestroy
    <3>1. CASE DestroyChannelClosed
      BY <1>1, <2>1, <3>1 DEF DestroyChannelClosed, TypeOK
    <3>2. CASE DestroyConnectionClosed
      BY <1>1, <2>1, <3>2 DEF DestroyConnectionClosed, Idle, TypeOK
    <3>3. CASE Destroy \/ DestroyFindsItClosed
      BY <1>1, <3>3 DEF Destroy, DestroyFindsItClosed
    <3>4. QED BY <2>5, <3>1, <3>2, <3>3 DEF OnModuleDestroy
  <2>6. CASE UNCHANGED vars
    BY <1>1, <2>6 DEF vars
  <2>7. QED BY <1>1, <2>2, <2>3, <2>4, <2>5, <2>6 DEF Next
<1>2. QueueInv /\ [Next]_vars =>
        [shuttingDown => \A t \in Tasks : task'[t].at = "connect"
                                          => task[t].at = "connect"]_vars
  BY <1>1
<1>3. QED BY <1>2, QueueInvariance, PTL DEF Spec, NoConnectAfterDestroy
=============================================================================
