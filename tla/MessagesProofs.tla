---------------------------- MODULE MessagesProofs ----------------------------
(***************************************************************************)
(* Proofs about MessageBuffer for every set of messages, tasks and data,   *)
(* and about Connections for all parties and scenarios: what a Queue gets  *)
(* is of its own run, and what has failed has not been sent.               *)
(***************************************************************************)
EXTENDS Messages, Integers, Sequences, TLAPS

\* Before the first command the maps are empty and no task has asked.
LEMMA InitBuffer == Init => BufferInv
<1> SUFFICES ASSUME Init PROVE BufferInv
  OBVIOUS
<1>1. TypeOK
  BY DEF Init, TypeOK, Status
<1>2. NeverBoth /\ FromArrival /\ RequestsOfTasks /\ Unasked /\ Met /\ DeliveredOnce
  BY DEF Init, NeverBoth, FromArrival, RequestsOfTasks, Unasked, Met, DeliveredOnce
<1> QED
  BY <1>1, <1>2 DEF BufferInv

\* DataCommand::Receive for a message in the buffer.
LEMMA ReceiveBuffered ==
  ASSUME BufferInv, NEW t \in Task, NEW m \in Message, Receive(t, m), messageBuffer[m] # None
  PROVE  BufferInv'
<1>1. /\ task[t] \in {"idle", "abandoned"} /\ asked[t] = None /\ result[t] = None
      /\ asked' = [asked EXCEPT ![t] = m]
      /\ \/ /\ task' = [task EXCEPT ![t] = "done"]
            /\ result' = [result EXCEPT ![t] = messageBuffer[m]]
         \/ /\ task[t] = "abandoned"
            /\ task' = task /\ result' = result
      /\ messageBuffer' = [messageBuffer EXCEPT ![m] = None]
      /\ openRequests' = openRequests /\ arrived' = arrived
  BY DEF BufferInv, TypeOK, RequestsOfTasks, Receive
<1>2. TypeOK'
  BY <1>1 DEF BufferInv, TypeOK, Status
<1>3. NeverBoth'
  BY <1>1 DEF BufferInv, TypeOK, NeverBoth
<1>4. FromArrival'
  BY <1>1 DEF BufferInv, TypeOK, FromArrival
<1>5. RequestsOfTasks'
  BY <1>1, MessageBufferAssumption DEF BufferInv, TypeOK, RequestsOfTasks
<1>6. Unasked'
  BY <1>1, MessageBufferAssumption DEF BufferInv, TypeOK, Unasked
<1>7. Met'
  <2> SUFFICES ASSUME NEW v \in Task, task'[v] = "waiting", NEW a \in arrived,
                      \A u \in Task : asked'[u] = asked'[v] => u = v
               PROVE  a.message # asked'[v]
    BY <1>1 DEF Met
  <2>1. v # t /\ task[v] = "waiting" /\ asked'[v] = asked[v] /\ asked[v] \in Message
    BY <1>1 DEF BufferInv, TypeOK, RequestsOfTasks
  <2>2. \A u \in Task : asked[u] = asked[v] => u = v
    BY <1>1, <2>1, MessageBufferAssumption DEF BufferInv, TypeOK
  <2> QED
    BY <2>1, <2>2 DEF BufferInv, Met
<1>8. DeliveredOnce'
  BY <1>1 DEF BufferInv, TypeOK, DeliveredOnce
<1> QED
  BY <1>2, <1>3, <1>4, <1>5, <1>6, <1>7, <1>8 DEF BufferInv

\* DataCommand::Receive for a message that has not come in.
LEMMA ReceiveOpen ==
  ASSUME BufferInv, NEW t \in Task, NEW m \in Message, Receive(t, m), messageBuffer[m] = None
  PROVE  BufferInv'
<1> DEFINE closes(u) == u = openRequests[m] /\ task[u] = "waiting"
<1>1. /\ task[t] \in {"idle", "abandoned"} /\ asked[t] = None
      /\ asked' = [asked EXCEPT ![t] = m]
      /\ openRequests' = [openRequests EXCEPT ![m] = t]
      /\ task' = [u \in Task |-> IF u = t /\ task[u] = "idle" THEN "waiting"
                                 ELSE IF closes(u) THEN "closed" ELSE task[u]]
      /\ messageBuffer' = messageBuffer /\ result' = result /\ arrived' = arrived
  BY DEF BufferInv, TypeOK, RequestsOfTasks, Receive
<1>2. TypeOK'
  BY <1>1 DEF BufferInv, TypeOK, Status
<1>3. NeverBoth'
  BY <1>1 DEF BufferInv, TypeOK, NeverBoth
<1>4. FromArrival'
  BY <1>1, MessageBufferAssumption DEF BufferInv, TypeOK, FromArrival
<1>5. RequestsOfTasks'
  BY <1>1, MessageBufferAssumption DEF BufferInv, TypeOK, RequestsOfTasks
<1>6. Unasked'
  BY <1>1, MessageBufferAssumption DEF BufferInv, TypeOK, Unasked
<1>7. Met'
  <2> SUFFICES ASSUME NEW v \in Task, task'[v] = "waiting", NEW a \in arrived,
                      \A u \in Task : asked'[u] = asked'[v] => u = v
               PROVE  a.message # asked'[v]
    BY <1>1 DEF Met
  <2>1. CASE v = t
    <3>1. \A u \in Task : asked[u] # m
      BY <1>1, <2>1, MessageBufferAssumption DEF BufferInv, TypeOK
    <3> QED
      BY <1>1, <2>1, <3>1 DEF BufferInv, TypeOK, Unasked
  <2>2. CASE v # t
    <3>1. task[v] = "waiting" /\ asked'[v] = asked[v] /\ asked[v] \in Message
      BY <1>1, <2>2 DEF BufferInv, TypeOK, RequestsOfTasks
    <3>2. \A u \in Task : asked[u] = asked[v] => u = v
      BY <1>1, <2>2, <3>1, MessageBufferAssumption DEF BufferInv, TypeOK
    <3> QED
      BY <3>1, <3>2 DEF BufferInv, Met
  <2> QED
    BY <2>1, <2>2
<1>8. DeliveredOnce'
  BY <1>1 DEF BufferInv, TypeOK, DeliveredOnce
<1> QED
  BY <1>2, <1>3, <1>4, <1>5, <1>6, <1>7, <1>8 DEF BufferInv

\* DataCommand::Received.
LEMMA ReceivedKeeps ==
  ASSUME BufferInv, NEW m \in Message, NEW d \in Data, Received(m, d)
  PROVE  BufferInv'
<1> DEFINE u == openRequests[m]
<1>1. /\ arrived' = arrived \cup {[message |-> m, data |-> d]}
      /\ asked' = asked
      /\ \A a \in arrived : a.data # d
      /\ \A n \in Message : messageBuffer[n] # d
      /\ \A t \in Task : result[t] # d
  BY MessageBufferAssumption DEF Received, BufferInv, FromArrival
<1>2. CASE openRequests[m] # None /\ task[u] = "waiting"
  <2>1. /\ u \in Task /\ asked[u] = m
        /\ openRequests' = [openRequests EXCEPT ![m] = None]
        /\ task' = [task EXCEPT ![u] = "done"]
        /\ result' = [result EXCEPT ![u] = d]
        /\ messageBuffer' = messageBuffer
    BY <1>2 DEF Received, BufferInv, TypeOK, RequestsOfTasks
  <2>2. TypeOK'
    BY <1>1, <2>1, MessageBufferAssumption DEF BufferInv, TypeOK, Status
  <2>3. NeverBoth' /\ Unasked' /\ DeliveredOnce'
    BY <1>1, <2>1, MessageBufferAssumption
       DEF BufferInv, TypeOK, NeverBoth, Unasked, DeliveredOnce
  <2>4. FromArrival'
    BY <1>1, <2>1 DEF BufferInv, TypeOK, FromArrival
  <2>5. RequestsOfTasks'
    BY <1>1, <1>2, <2>1, MessageBufferAssumption DEF BufferInv, TypeOK, RequestsOfTasks
  <2>6. Met'
    BY <1>1, <2>1 DEF BufferInv, TypeOK, Met
  <2> QED
    BY <2>2, <2>3, <2>4, <2>5, <2>6 DEF BufferInv
<1>3. CASE openRequests[m] # None /\ task[u] # "waiting"
  <2>1. /\ u \in Task /\ asked[u] = m
        /\ openRequests' = [openRequests EXCEPT ![m] = None]
        /\ task' = task /\ result' = result /\ messageBuffer' = messageBuffer
    BY <1>3 DEF Received, BufferInv, TypeOK, RequestsOfTasks
  <2>2. TypeOK'
    BY <1>1, <2>1 DEF BufferInv, TypeOK
  <2>3. NeverBoth' /\ Unasked' /\ DeliveredOnce'
    BY <1>1, <2>1 DEF BufferInv, TypeOK, NeverBoth, Unasked, DeliveredOnce
  <2>4. FromArrival'
    BY <1>1, <2>1 DEF BufferInv, TypeOK, FromArrival
  <2>5. RequestsOfTasks'
    BY <1>1, <1>3, <2>1, MessageBufferAssumption DEF BufferInv, TypeOK, RequestsOfTasks
  <2>6. Met'
    BY <1>1, <1>3, <2>1 DEF BufferInv, TypeOK, Met, RequestsOfTasks
  <2> QED
    BY <2>2, <2>3, <2>4, <2>5, <2>6 DEF BufferInv
<1>4. CASE openRequests[m] = None
  <2>1. /\ messageBuffer' = [messageBuffer EXCEPT ![m] = d]
        /\ openRequests' = openRequests /\ task' = task /\ result' = result
    BY <1>4 DEF Received
  <2>2. TypeOK'
    BY <1>1, <2>1 DEF BufferInv, TypeOK
  <2>3. NeverBoth' /\ Unasked' /\ DeliveredOnce'
    BY <1>1, <1>4, <2>1, MessageBufferAssumption
       DEF BufferInv, TypeOK, NeverBoth, Unasked, DeliveredOnce
  <2>4. FromArrival'
    BY <1>1, <2>1, MessageBufferAssumption DEF BufferInv, TypeOK, FromArrival
  <2>5. RequestsOfTasks'
    BY <1>1, <2>1 DEF BufferInv, TypeOK, RequestsOfTasks
  <2>6. Met'
    BY <1>1, <1>4, <2>1, MessageBufferAssumption DEF BufferInv, TypeOK, Met, RequestsOfTasks
  <2> QED
    BY <2>2, <2>3, <2>4, <2>5, <2>6 DEF BufferInv
<1> QED
  BY <1>2, <1>3, <1>4

\* A task that is aborted leaves its request behind.
LEMMA AbandonKeeps ==
  ASSUME BufferInv, NEW t \in Task, Abandon(t)
  PROVE  BufferInv'
<1>1. /\ task[t] \in {"idle", "waiting"} /\ task' = [task EXCEPT ![t] = "abandoned"]
      /\ messageBuffer' = messageBuffer /\ openRequests' = openRequests /\ result' = result
      /\ asked' = asked /\ arrived' = arrived
  BY DEF Abandon
<1>2. TypeOK'
  BY <1>1 DEF BufferInv, TypeOK, Status
<1>3. NeverBoth' /\ FromArrival' /\ Unasked' /\ DeliveredOnce'
  BY <1>1 DEF BufferInv, NeverBoth, FromArrival, Unasked, DeliveredOnce
<1>4. RequestsOfTasks'
  BY <1>1 DEF BufferInv, TypeOK, RequestsOfTasks
<1>5. Met'
  BY <1>1 DEF BufferInv, TypeOK, Met
<1> QED
  BY <1>2, <1>3, <1>4, <1>5 DEF BufferInv

\* Every command and every abort keeps the invariant.
LEMMA NextKeepsBuffer == BufferInv /\ [Next]_vars => BufferInv'
<1> SUFFICES ASSUME BufferInv, [Next]_vars PROVE BufferInv'
  OBVIOUS
<1>1. ASSUME NEW t \in Task, NEW m \in Message, Receive(t, m) PROVE BufferInv'
  BY <1>1, ReceiveBuffered, ReceiveOpen
<1>2. ASSUME NEW m \in Message, NEW d \in Data, Received(m, d) PROVE BufferInv'
  BY <1>2, ReceivedKeeps
<1>3. ASSUME NEW t \in Task, Abandon(t) PROVE BufferInv'
  BY <1>3, AbandonKeeps
<1>4. CASE UNCHANGED vars
  BY <1>4 DEF vars, BufferInv, TypeOK, NeverBoth, FromArrival, RequestsOfTasks, Unasked, Met,
              DeliveredOnce
<1> QED
  BY <1>1, <1>2, <1>3, <1>4 DEF Next

-----------------------------------------------------------------------------
(* Theorems *)

\* The maps and tasks of message_buffer.rs keep values of the code's types, and a task is done
\* exactly when it has data.
THEOREM BufferTypeOK == Spec => []TypeOK
<1>1. BufferInv => TypeOK
  BY DEF BufferInv
<1> QED
  BY <1>1, InitBuffer, NextKeepsBuffer, PTL DEF Spec

\* For every set of messages, tasks and data: a task whose message has come in does not
\* wait for it, whichever came first, so long as no other task asks for the message.
THEOREM MetHolds == Spec => []Met
<1>1. BufferInv => Met
  BY DEF BufferInv
<1> QED
  BY <1>1, InitBuffer, NextKeepsBuffer, PTL DEF Spec

\* No piece of data is given out twice, or given out and kept.
THEOREM DeliveredOnceHolds == Spec => []DeliveredOnce
<1>1. BufferInv => DeliveredOnce
  BY DEF BufferInv
<1> QED
  BY <1>1, InitBuffer, NextKeepsBuffer, PTL DEF Spec

\* A task never waits on a channel that the buffer does not hold: it is answered or, when
\* another request takes its place, its channel closes.
THEOREM NoStrandedTaskHolds == Spec => []NoStrandedTask
<1>1. BufferInv => NoStrandedTask
  BY DEF BufferInv, RequestsOfTasks, NoStrandedTask
<1> QED
  BY <1>1, InitBuffer, NextKeepsBuffer, PTL DEF Spec

------------------------------------------------------------------------------
(* Queues of several runs *)

\* If a session is documented, it is the one that the Queue gets.
LEMMA SessionOK ==
  ASSUME NEW setup,
         None # [form |-> "parse", of |-> setup.value],
         None # [form |-> "string", of |-> setup.string],
         Net!Documented(setup) # Net!NoQueue
  PROVE  Net!NewQueue(setup) = Net!Documented(setup)
<1> DEFINE config  == Net!ReadConfig(setup)
           number  == [form |-> "parse", of |-> setup.value]
           text    == [form |-> "string", of |-> setup.string]
           sources == <<IF ~setup.session_from_env \/ setup.value = None THEN None ELSE number,
                        IF ~setup.session_from_env \/ setup.string = None THEN None ELSE text,
                        config>>
           there   == {k \in DOMAIN sources : sources[k] # None}
           least   == CHOOSE k \in there : \A j \in there : k <= j
<1>1. /\ config # Net!Unreadable /\ there # {}
      /\ Net!Documented(setup) = Net!SessionValue(sources[least])
  BY DEF Net!Documented
<1>2. /\ DOMAIN sources = {1, 2, 3} /\ sources[3] = config
      /\ sources[1] = IF ~setup.session_from_env \/ setup.value = None THEN None ELSE number
      /\ sources[2] = IF ~setup.session_from_env \/ setup.string = None THEN None ELSE text
  OBVIOUS
<1>3. number # Net!Unreadable /\ text # Net!Unreadable /\ number # None /\ text # None
  BY DEF Net!Unreadable
<1>4. /\ setup.session_from_env /\ setup.value # None => Net!QueueConfig(setup) = number
      /\ setup.session_from_env /\ setup.value = None /\ setup.string # None =>
           Net!QueueConfig(setup) = text
      /\ ~setup.session_from_env \/ (setup.value = None /\ setup.string = None) =>
           Net!QueueConfig(setup) = config
  BY <1>1, <1>3 DEF Net!QueueConfig, Net!SessionFromEnv, Net!try_from_env, Net!First
<1> HIDE DEF config, number, text, sources
<1>5. there \subseteq {1, 2, 3}
  BY <1>2
<1>6. ASSUME NEW k \in there, \A j \in there : k <= j PROVE least = k
  <2>1. \A j \in there : (\A l \in there : j <= l) => j = k
    BY <1>5, <1>6
  <2> QED BY <1>6, <2>1
<1> HIDE DEF least
<1>7. ASSUME Net!QueueConfig(setup) = sources[least], sources[least] # None,
             sources[least] # Net!Unreadable
      PROVE  Net!NewQueue(setup) = Net!Documented(setup)
  BY <1>1, <1>7 DEF Net!NewQueue
<1>8. CASE setup.session_from_env /\ setup.value # None
  <2>1. 1 \in there /\ sources[1] = number
    BY <1>2, <1>3, <1>8
  <2>2. least = 1
    BY <1>5, <1>6, <2>1
  <2> QED BY <1>3, <1>4, <1>7, <1>8, <2>1, <2>2
<1>9. CASE setup.session_from_env /\ setup.value = None /\ setup.string # None
  <2>1. 1 \notin there /\ 2 \in there /\ sources[2] = text
    BY <1>2, <1>3, <1>9
  <2>2. least = 2
    BY <1>5, <1>6, <2>1
  <2> QED BY <1>3, <1>4, <1>7, <1>9, <2>1, <2>2
<1>10. CASE ~setup.session_from_env \/ (setup.value = None /\ setup.string = None)
  <2>1. 1 \notin there /\ 2 \notin there
    BY <1>2, <1>10
  <2>2. 3 \in there
    BY <1>1, <1>5, <2>1
  <2>3. least = 3 /\ config # None
    BY <1>2, <1>5, <1>6, <2>1, <2>2
  <2> QED BY <1>1, <1>2, <1>4, <1>7, <1>10, <2>3
<1> QED BY <1>8, <1>9, <1>10

------------------------------------------------------------------------------
(* What the connections keep *)

\* The types of queues, clients and messages.
PeerTypes ==
  /\ scenario \in Scenarios
  /\ run \in [Party -> {0} \cup Net!Runs]
  /\ queue = [p \in Party |-> queue[p]]
  /\ client \in [Party -> {"ready", "connecting", "gone"}]
  /\ commands \in [Party -> Seq(Net!Sends)]
  /\ outgoing \in [Party -> [Party -> {0} \cup Net!Runs]]
  /\ message \in [Net!Sends -> Net!Progress]
  /\ faults \in 0 .. scenario.faults

\* A Queue has the session of its run.  Without one there is no client and nothing is asked.
PeerInv ==
  \A p \in Party :
    /\ Net!Up(p) => run[p] \in Net!Runs /\ queue[p] = Net!NewQueue(scenario.setups[run[p]])
    /\ ~Net!Up(p) => client[p] = "gone"
    /\ client[p] = "gone" => commands[p] = <<>>
    /\ client[p] = "connecting" => commands[p] # <<>>
    /\ ~Net!Up(p) => \A x \in Net!Sends : x[1] = p => message[x] = "waiting"

\* The channel of a client has messages of its party that are asked, each of them once.
CommandInv ==
  \A p \in Party : \A i \in DOMAIN commands[p] :
    /\ commands[p][i][1] = p
    /\ message[commands[p][i]] = "asked"
    /\ \A j \in DOMAIN commands[p] : commands[p][i] = commands[p][j] => i = j

\* What is on a stream is of a run of its sender that has begun, and goes to a Queue that is
\* there.
StreamInv ==
  \A s \in streams :
    /\ s.message \in Net!Sends
    /\ s.link.from = s.message[1] /\ s.link.to = s.message[2]
    /\ s.link.from_run \in Net!Runs /\ s.link.from_run <= run[s.link.from]
    /\ s.session = Net!NewQueue(scenario.setups[s.link.from_run])
    /\ Net!Up(s.link.to) /\ run[s.link.to] = s.link.to_run
    /\ s.link \notin lost

\* What has been handed on is of a run of its sender that has begun, and of the run of its
\* receiver if that can be told by the sessions.
GotInv ==
  \A m \in got :
    /\ m.of \in Net!Sends
    /\ m.sent_in \in Net!Runs /\ m.sent_in <= run[m.of[1]]

Unsent == {"waiting", "asked", "writing", "failed"}

\* A message that is not written yet or has failed is nowhere in the run of its sender.
UnsentInv ==
  \A x \in Net!Sends :
    Net!Up(x[1]) /\ message[x] \in Unsent =>
      /\ \A s \in streams : s.message = x => s.link.from_run # run[x[1]]
      /\ \A m \in got : m.of = x => m.sent_in # run[x[1]]

ConnectionsInv ==
  PeerTypes /\ PeerInv /\ CommandInv /\ StreamInv /\ GotInv /\ UnsentInv /\ Net!OwnRun

\* What the assumption about the scenarios says of the one of a behaviour.
LEMMA ScenarioOK ==
  ASSUME Net!ScenariosAssumption, PeerTypes
  PROVE  /\ \A x \in Net!Sends : x[1] \in Party /\ x[2] \in Party
         /\ Len(scenario.setups) \in Nat /\ Net!Runs = 1 .. Len(scenario.setups)
         /\ scenario.faults \in Nat
         /\ \A r \in Net!Runs :
              LET setup == scenario.setups[r]
              IN  Net!Documented(setup) # Net!NoQueue => Net!NewQueue(setup) = Net!Documented(setup)
<1>1. /\ \A x \in Net!Sends : x[1] \in Party /\ x[2] \in Party
      /\ Len(scenario.setups) \in Nat /\ Net!Runs = 1 .. Len(scenario.setups)
      /\ scenario.faults \in Nat
      /\ \A r \in Net!Runs : /\ None # [form |-> "parse", of |-> scenario.setups[r].value]
                             /\ None # [form |-> "string", of |-> scenario.setups[r].string]
  BY DEF PeerTypes, Net!ScenariosAssumption, Net!Sends, Net!Runs
<1>2. ASSUME NEW r \in Net!Runs, NEW setup, setup = scenario.setups[r],
             Net!Documented(setup) # Net!NoQueue
      PROVE  Net!NewQueue(setup) = Net!Documented(setup)
  <2>1. /\ None # [form |-> "parse", of |-> setup.value]
        /\ None # [form |-> "string", of |-> setup.string]
    BY <1>1, <1>2
  <2> QED BY <2>1, <1>2, SessionOK
<1> QED BY <1>1, <1>2

\* Runs are numbered from 1 and 0 is before the first.
LEMMA RunOK ==
  ASSUME Net!ScenariosAssumption, PeerTypes, NEW p \in Party
  PROVE  run[p] \in Nat /\ Net!Runs \subseteq Nat \ {0}
BY ScenarioOK DEF PeerTypes

\* Before the first run there is nothing.
LEMMA InitConnections ==
  ASSUME Net!ScenariosAssumption, Net!Init PROVE ConnectionsInv
<1>1. scenario \in Scenarios /\ scenario.faults \in Nat
  BY DEF Net!Init, Net!ScenariosAssumption
<1>2. \A x \in Net!Sends : x[1] \in Party /\ x[2] \in Party
  BY <1>1 DEF Net!ScenariosAssumption, Net!Sends
<1>3. PeerTypes
  BY <1>1 DEF Net!Init, PeerTypes, Net!Progress
<1>4. PeerInv /\ CommandInv /\ StreamInv /\ GotInv /\ UnsentInv
  BY <1>2 DEF Net!Init, PeerInv, CommandInv, StreamInv, GotInv, UnsentInv, Net!Up
<1>5. Net!OwnRun
  BY DEF Net!Init, Net!OwnRun
<1> QED BY <1>3, <1>4, <1>5 DEF ConnectionsInv

\* A program begins a run, which is new.
LEMMA StartKeeps ==
  ASSUME Net!ScenariosAssumption, ConnectionsInv, NEW p \in Party, Net!Start(p)
  PROVE  ConnectionsInv'
<1> DEFINE session == Net!NewQueue(scenario.setups[run[p] + 1])
<1>1. /\ ~Net!Up(p) /\ run[p] < Len(scenario.setups)
      /\ run' = [run EXCEPT ![p] = run[p] + 1]
      /\ queue' = [queue EXCEPT ![p] = session]
      /\ client' = [client EXCEPT ![p] = IF queue'[p] = Net!NoQueue THEN "gone" ELSE "ready"]
      /\ UNCHANGED <<scenario, commands, outgoing, message, streams, lost, faults, got>>
  BY DEF Net!Start
<1>2. /\ PeerTypes /\ PeerInv /\ CommandInv /\ StreamInv /\ GotInv /\ UnsentInv /\ Net!OwnRun
  BY DEF ConnectionsInv
<1>3. run[p] \in Nat /\ run[p] + 1 \in Net!Runs /\ Net!Runs \subseteq Nat
  BY <1>1, <1>2, ScenarioOK, RunOK
<1>4. /\ run'[p] = run[p] + 1 /\ queue'[p] = session
      /\ \A q \in Party : q # p => run'[q] = run[q] /\ queue'[q] = queue[q]
                                     /\ client'[q] = client[q]
      /\ client'[p] = IF queue'[p] = Net!NoQueue THEN "gone" ELSE "ready"
      /\ Net!Sends' = Net!Sends /\ Net!Runs' = Net!Runs
      /\ commands[p] = <<>> /\ \A x \in Net!Sends : x[1] = p => message[x] = "waiting"
      /\ \A q \in Party : q # p => (Net!Up(q)' <=> Net!Up(q))
  BY <1>1, <1>2 DEF PeerTypes, PeerInv, Net!Sends, Net!Runs, Net!Up
<1> HIDE DEF session
<1>5. PeerTypes'
  <2>1. run' \in [Party -> {0} \cup Net!Runs]
    BY <1>1, <1>2, <1>3 DEF PeerTypes
  <2>2. /\ queue' = [q \in Party |-> queue'[q]]
        /\ client' \in [Party -> {"ready", "connecting", "gone"}]
    BY <1>1, <1>2 DEF PeerTypes
  <2> QED BY <1>1, <1>2, <1>4, <2>1, <2>2 DEF PeerTypes
<1>6. PeerInv'
  BY <1>1, <1>2, <1>3, <1>4 DEF PeerInv, Net!Up, session
<1>7. CommandInv'
  BY <1>1, <1>2 DEF CommandInv
<1>8. \A q \in Party : run[q] \in Nat /\ run'[q] \in Nat /\ run[q] <= run'[q]
  BY <1>2, <1>3, <1>4, RunOK
<1>9. StreamInv'
  <2> SUFFICES ASSUME NEW s \in streams
               PROVE  /\ s.link.from_run <= run'[s.link.from]
                      /\ Net!Up(s.link.to)' /\ run'[s.link.to] = s.link.to_run
    BY <1>1, <1>2, <1>4 DEF StreamInv
  <2>1. /\ s.link.from \in Party /\ s.link.to \in Party /\ s.link.to # p
        /\ s.link.from_run \in Nat /\ s.link.from_run <= run[s.link.from]
        /\ Net!Up(s.link.to) /\ run[s.link.to] = s.link.to_run
    BY <1>1, <1>2, <1>3, ScenarioOK DEF StreamInv
  <2> QED BY <1>4, <1>8, <2>1
<1>10. GotInv'
  <2> SUFFICES ASSUME NEW m \in got PROVE m.sent_in <= run'[m.of[1]]
    BY <1>1, <1>2, <1>4 DEF GotInv
  <2>1. m.of[1] \in Party /\ m.sent_in \in Nat /\ m.sent_in <= run[m.of[1]]
    BY <1>2, <1>3, ScenarioOK DEF GotInv
  <2> QED BY <1>8, <2>1
<1>11. UnsentInv'
  <2> SUFFICES ASSUME NEW x \in Net!Sends, Net!Up(x[1])', message[x] \in Unsent
               PROVE  /\ \A s \in streams : s.message = x => s.link.from_run # run'[x[1]]
                      /\ \A m \in got : m.of = x => m.sent_in # run'[x[1]]
    BY <1>1, <1>4 DEF UnsentInv
  <2>1. x[1] \in Party
    BY <1>2, ScenarioOK
  <2>2. CASE x[1] = p
    <3>1. \A s \in streams : s.message = x => s.link.from_run \in Nat /\ s.link.from_run <= run[p]
      BY <1>2, <1>3, <2>2 DEF StreamInv
    <3>2. \A m \in got : m.of = x => m.sent_in \in Nat /\ m.sent_in <= run[p]
      BY <1>2, <1>3, <2>2 DEF GotInv
    <3> QED BY <1>3, <1>4, <2>2, <3>1, <3>2
  <2>3. CASE x[1] # p
    BY <1>2, <1>4, <2>1, <2>3 DEF UnsentInv
  <2> QED BY <2>2, <2>3
<1>12. Net!OwnRun'
  BY <1>1, <1>2 DEF Net!OwnRun, Net!Runs
<1> QED BY <1>5, <1>6, <1>7, <1>9, <1>10, <1>11, <1>12 DEF ConnectionsInv

\* A Queue that is dropped takes with it what was sent to it, and its messages wait for the
\* next run.
LEMMA DropKeeps ==
  ASSUME Net!ScenariosAssumption, ConnectionsInv, NEW p \in Party, Net!Drop(p),
         faults' \in 0 .. scenario.faults
  PROVE  ConnectionsInv'
<1>1. PICK kept \in SUBSET {s \in streams : s.link.from = p} :
        streams' = {s \in streams : s.link.to # p /\ (s.link.from = p => s \in kept)}
  BY DEF Net!Drop
<1>2. /\ queue' = [queue EXCEPT ![p] = Net!NoQueue]
      /\ client' = [client EXCEPT ![p] = "gone"]
      /\ commands' = [commands EXCEPT ![p] = <<>>]
      /\ outgoing' = [outgoing EXCEPT ![p] = [q \in Party |-> 0]]
      /\ message' = [x \in Net!Sends |-> IF x[1] = p THEN "waiting" ELSE message[x]]
      /\ UNCHANGED <<scenario, run, lost, got>>
      /\ \A s \in streams' : s \in streams /\ s.link.to # p
  BY <1>1 DEF Net!Drop
<1>3. /\ PeerTypes /\ PeerInv /\ CommandInv /\ StreamInv /\ GotInv /\ UnsentInv /\ Net!OwnRun
  BY DEF ConnectionsInv
<1>4. /\ queue'[p] = Net!NoQueue /\ client'[p] = "gone" /\ commands'[p] = <<>>
      /\ \A q \in Party : q # p => queue'[q] = queue[q] /\ client'[q] = client[q]
                                     /\ commands'[q] = commands[q]
      /\ Net!Sends' = Net!Sends /\ Net!Runs' = Net!Runs
      /\ \A x \in Net!Sends : message'[x] = IF x[1] = p THEN "waiting" ELSE message[x]
      /\ \A q \in Party : Net!Up(q)' <=> q # p /\ Net!Up(q)
  BY <1>2, <1>3 DEF PeerTypes, Net!Sends, Net!Runs, Net!Up
<1>5. PeerTypes'
  <2>1. /\ queue' = [q \in Party |-> queue'[q]]
        /\ client' \in [Party -> {"ready", "connecting", "gone"}]
        /\ outgoing' \in [Party -> [Party -> {0} \cup Net!Runs]]
    BY <1>2, <1>3 DEF PeerTypes
  <2>2. commands' \in [Party -> Seq(Net!Sends)]
    <3>1. <<>> \in Seq(Net!Sends)
      OBVIOUS
    <3> QED BY <1>2, <1>3, <3>1 DEF PeerTypes
  <2>3. message' \in [Net!Sends -> Net!Progress]
    BY <1>2, <1>3 DEF PeerTypes, Net!Progress
  <2> QED BY <1>2, <1>3, <1>4, <2>1, <2>2, <2>3 DEF PeerTypes
<1>6. PeerInv'
  BY <1>2, <1>3, <1>4 DEF PeerInv
<1>7. CommandInv'
  <2> SUFFICES ASSUME NEW q \in Party, NEW i \in DOMAIN commands'[q], q # p
               PROVE  /\ commands[q][i][1] = q /\ message'[commands[q][i]] = "asked"
                      /\ \A j \in DOMAIN commands[q] : commands[q][i] = commands[q][j] => i = j
    BY <1>4 DEF CommandInv
  <2>1. i \in DOMAIN commands[q] /\ commands[q][i] \in Net!Sends
    BY <1>3, <1>4 DEF PeerTypes
  <2> QED BY <1>3, <1>4, <2>1 DEF CommandInv
<1>8. StreamInv'
  BY <1>2, <1>3, <1>4, ScenarioOK DEF StreamInv
<1>9. GotInv'
  BY <1>2, <1>3, <1>4 DEF GotInv
<1>10. UnsentInv'
  BY <1>2, <1>3, <1>4, ScenarioOK DEF UnsentInv
<1>11. Net!OwnRun'
  BY <1>2, <1>3 DEF Net!OwnRun, Net!Runs
<1> QED BY <1>5, <1>6, <1>7, <1>8, <1>9, <1>10, <1>11 DEF ConnectionsInv

\* A message that is given to the client goes to the end of its channel, or fails.
LEMMA SubmitKeeps ==
  ASSUME Net!ScenariosAssumption, ConnectionsInv, NEW p \in Party, NEW x \in Net!From(p),
         Net!Submit(p, x)
  PROVE  ConnectionsInv'
<1>1. /\ PeerTypes /\ PeerInv /\ CommandInv /\ StreamInv /\ GotInv /\ UnsentInv /\ Net!OwnRun
  BY DEF ConnectionsInv
<1>2. /\ x \in Net!Sends /\ x[1] = p /\ Net!Up(p) /\ message[x] = "waiting"
      /\ UNCHANGED <<scenario, run, queue, client, outgoing, streams, lost, faults, got>>
      /\ \/ /\ client[p] = "gone"
            /\ message' = [message EXCEPT ![x] = "failed"] /\ commands' = commands
         \/ /\ client[p] # "gone" /\ message' = [message EXCEPT ![x] = "asked"]
            /\ commands' = [commands EXCEPT ![p] = Append(commands[p], x)]
  BY DEF Net!Submit, Net!From
<1>3. /\ Net!Sends' = Net!Sends /\ Net!Runs' = Net!Runs
      /\ \A q \in Party : Net!Up(q)' = Net!Up(q)
      /\ message'[x] \in {"asked", "failed"} /\ message'[x] \in Unsent
      /\ \A y \in Net!Sends : y # x => message'[y] = message[y]
      /\ \A q \in Party : q # p => commands'[q] = commands[q]
  BY <1>1, <1>2 DEF PeerTypes, Net!Sends, Net!Runs, Net!Up, Unsent
<1>4. commands' \in [Party -> Seq(Net!Sends)]
  <2>1. commands \in [Party -> Seq(Net!Sends)]
    BY <1>1 DEF PeerTypes
  <2>2. Append(commands[p], x) \in Seq(Net!Sends)
    BY <1>2, <2>1
  <2> QED BY <1>2, <2>1, <2>2
<1>5. PeerTypes'
  <2>1. message' \in [Net!Sends -> Net!Progress]
    BY <1>1, <1>2 DEF PeerTypes, Net!Progress
  <2> QED BY <1>1, <1>2, <1>3, <1>4, <2>1 DEF PeerTypes
<1>6. PeerInv'
  <2> SUFFICES ASSUME NEW q \in Party
               PROVE  /\ client[q] = "gone" => commands'[q] = <<>>
                      /\ client[q] = "connecting" => commands'[q] # <<>>
                      /\ ~Net!Up(q) => \A y \in Net!Sends : y[1] = q => message'[y] = "waiting"
    BY <1>1, <1>2, <1>3 DEF PeerInv
  <2>1. CASE q = p
    <3>1. commands[p] \in Seq(Net!Sends)
      BY <1>1 DEF PeerTypes
    <3>2. Append(commands[p], x) # <<>>
      BY <1>2, <3>1
    <3> QED BY <1>1, <1>2, <2>1, <3>2 DEF PeerTypes, PeerInv
  <2>2. CASE q # p
    BY <1>1, <1>2, <1>3, <2>2 DEF PeerInv
  <2> QED BY <2>1, <2>2
<1>7. CommandInv'
  <2>1. \A q \in Party : \A i \in DOMAIN commands[q] :
          /\ commands[q][i] \in Net!Sends /\ commands[q][i][1] = q
          /\ message[commands[q][i]] = "asked" /\ commands[q][i] # x
          /\ message'[commands[q][i]] = "asked"
    BY <1>1, <1>2, <1>3 DEF PeerTypes, CommandInv
  <2>2. CASE client[p] = "gone"
    BY <1>1, <1>2, <2>1, <2>2 DEF CommandInv
  <2>3. CASE client[p] # "gone"
    <3> DEFINE c == commands[p]
               d == commands'[p]
               n == Len(c)
    <3>1. /\ n \in Nat /\ DOMAIN c = 1 .. n /\ DOMAIN d = 1 .. n + 1
          /\ \A i \in DOMAIN c : i \in DOMAIN d /\ d[i] = c[i]
          /\ d[n + 1] = x
      <4>1. c \in Seq(Net!Sends) /\ d = Append(c, x)
        BY <1>1, <1>2, <2>3 DEF PeerTypes
      <4> HIDE DEF c, d
      <4> QED BY <1>2, <4>1
    <3>2. message'[x] = "asked"
      BY <1>1, <1>2, <2>3 DEF PeerTypes
    <3> HIDE DEF d, n
    <3>3. \A i \in DOMAIN d :
            /\ d[i][1] = p /\ message'[d[i]] = "asked"
            /\ \A j \in DOMAIN d : d[i] = d[j] => i = j
      <4>1. \A i \in DOMAIN d : i \in DOMAIN c \/ i = n + 1
        BY <3>1
      <4>2. \A i \in DOMAIN c : d[i] = c[i] /\ c[i] # x /\ c[i][1] = p /\ message'[c[i]] = "asked"
        BY <2>1, <3>1
      <4>3. \A i, j \in DOMAIN c : c[i] = c[j] => i = j
        BY <1>1 DEF CommandInv
      <4> HIDE DEF c
      <4> QED BY <1>2, <3>1, <3>2, <4>1, <4>2, <4>3
    <3>4. \A q \in Party : q # p => commands'[q] = commands[q]
      BY <1>3
    <3> QED BY <1>1, <2>1, <3>3, <3>4 DEF CommandInv, d
  <2> QED BY <2>2, <2>3
<1>8. StreamInv' /\ GotInv'
  BY <1>1, <1>2, <1>3, ScenarioOK DEF StreamInv, GotInv
<1>9. UnsentInv'
  <2>1. message[x] \in Unsent
    BY <1>2 DEF Unsent
  <2> QED BY <1>1, <1>2, <1>3, <2>1, ScenarioOK DEF UnsentInv
<1>10. Net!OwnRun'
  BY <1>1, <1>2 DEF Net!OwnRun, Net!Runs
<1> QED BY <1>5, <1>6, <1>7, <1>8, <1>9, <1>10 DEF ConnectionsInv

\* The client takes the first command of its channel, whose message gets a task.
LEMMA SpawnKeeps ==
  ASSUME Net!ScenariosAssumption, ConnectionsInv, NEW p \in Party, client[p] # "gone",
         commands[p] # <<>>, Net!Spawn(p), outgoing' \in [Party -> [Party -> {0} \cup Net!Runs]],
         UNCHANGED <<scenario, run, queue, streams, lost, faults, got>>
  PROVE  ConnectionsInv'
<1> DEFINE c == commands[p]
           x == Head(c)
<1>1. /\ PeerTypes /\ PeerInv /\ CommandInv /\ StreamInv /\ GotInv /\ UnsentInv /\ Net!OwnRun
  BY DEF ConnectionsInv
<1>2. /\ message' = [message EXCEPT ![x] = "writing"]
      /\ commands' = [commands EXCEPT ![p] = Tail(c)]
      /\ client' = [client EXCEPT ![p] = "ready"]
  BY DEF Net!Spawn
<1>3. /\ c \in Seq(Net!Sends) /\ Tail(c) \in Seq(Net!Sends) /\ x \in Net!Sends
      /\ x = c[1] /\ 1 \in DOMAIN c
      /\ \A i \in DOMAIN Tail(c) : i + 1 \in DOMAIN c /\ Tail(c)[i] = c[i + 1] /\ i \in Nat \ {0}
  <2>1. c \in Seq(Net!Sends) /\ c # <<>>
    BY <1>1 DEF PeerTypes
  <2> HIDE DEF c
  <2>2. Len(c) \in Nat /\ DOMAIN c = 1 .. Len(c) /\ DOMAIN Tail(c) = 1 .. Len(c) - 1
    BY <2>1
  <2>3. \A i \in DOMAIN Tail(c) : i \in Nat \ {0}
    BY <2>2
  <2> QED BY <2>1, <2>2, <2>3
<1>4. x[1] = p /\ message[x] = "asked" /\ Net!Up(p)
  BY <1>1, <1>3 DEF CommandInv, PeerInv
<1>5. /\ Net!Sends' = Net!Sends /\ Net!Runs' = Net!Runs
      /\ \A q \in Party : Net!Up(q)' = Net!Up(q)
      /\ message'[x] = "writing"
      /\ \A y \in Net!Sends : y # x => message'[y] = message[y]
      /\ \A q \in Party : q # p => commands'[q] = commands[q] /\ client'[q] = client[q]
      /\ commands'[p] = Tail(c) /\ client'[p] = "ready"
  BY <1>1, <1>2, <1>3 DEF PeerTypes, Net!Sends, Net!Runs, Net!Up
<1> HIDE DEF c, x
<1>6. PeerTypes'
  <2>1. message' \in [Net!Sends -> Net!Progress]
    BY <1>1, <1>2 DEF PeerTypes, Net!Progress
  <2>2. commands' \in [Party -> Seq(Net!Sends)]
    BY <1>1, <1>2, <1>3 DEF PeerTypes
  <2>3. client' \in [Party -> {"ready", "connecting", "gone"}]
    BY <1>1, <1>2 DEF PeerTypes
  <2> QED BY <1>1, <1>5, <2>1, <2>2, <2>3 DEF PeerTypes
<1>7. PeerInv'
  <2>1. run' = run /\ queue' = queue /\ scenario' = scenario
    OBVIOUS
  <2>2. ASSUME NEW q \in Party, ~Net!Up(q), NEW y \in Net!Sends, y[1] = q
        PROVE  message'[y] = "waiting"
    <3>1. y # x
      BY <1>4, <2>2
    <3>2. message[y] = "waiting"
      BY <1>1, <2>2 DEF PeerInv
    <3> QED BY <1>5, <3>1, <3>2
  <2>3. ASSUME NEW q \in Party
        PROVE  /\ ~Net!Up(q) => client'[q] = "gone"
               /\ client'[q] = "gone" => commands'[q] = <<>>
               /\ client'[q] = "connecting" => commands'[q] # <<>>
    BY <1>1, <1>4, <1>5 DEF PeerInv
  <2> QED BY <1>1, <1>5, <2>1, <2>2, <2>3 DEF PeerInv
<1>8. CommandInv'
  <2>1. ASSUME NEW i \in DOMAIN Tail(c)
        PROVE  /\ Tail(c)[i][1] = p /\ message'[Tail(c)[i]] = "asked"
               /\ \A j \in DOMAIN Tail(c) : Tail(c)[i] = Tail(c)[j] => i = j
    <3>1. \A k \in DOMAIN c : /\ c[k] \in Net!Sends /\ c[k][1] = p /\ message[c[k]] = "asked"
                              /\ \A l \in DOMAIN c : c[k] = c[l] => k = l
      BY <1>1, <1>3 DEF c, CommandInv
    <3>2. i + 1 \in DOMAIN c /\ Tail(c)[i] = c[i + 1] /\ i + 1 # 1
      BY <1>3
    <3>3. message'[c[i + 1]] = "asked" /\ c[i + 1][1] = p
      BY <1>3, <1>5, <3>1, <3>2
    <3>4. ASSUME NEW j \in DOMAIN Tail(c), Tail(c)[i] = Tail(c)[j] PROVE i = j
      <4>1. i + 1 = j + 1
        BY <1>3, <3>1, <3>2, <3>4
      <4> QED BY <1>3, <4>1
    <3> QED BY <3>2, <3>3, <3>4
  <2>2. ASSUME NEW q \in Party, q # p, NEW i \in DOMAIN commands[q]
        PROVE  commands[q][i] \in Net!Sends /\ commands[q][i] # x
    BY <1>1, <1>4, <2>2 DEF PeerTypes, CommandInv
  <2>3. ASSUME NEW q \in Party, q # p, NEW i \in DOMAIN commands[q]
        PROVE  message'[commands[q][i]] = message[commands[q][i]]
    BY <1>5, <2>2, <2>3
  <2>4. ASSUME NEW q \in Party, NEW i \in DOMAIN commands'[q]
        PROVE  /\ commands'[q][i][1] = q /\ message'[commands'[q][i]] = "asked"
               /\ \A j \in DOMAIN commands'[q] : commands'[q][i] = commands'[q][j] => i = j
    <3>1. CASE q = p
      BY <1>5, <2>1, <3>1
    <3>2. CASE q # p
      BY <1>1, <1>5, <2>3, <3>2 DEF CommandInv
    <3> QED BY <3>1, <3>2
  <2> QED BY <2>4 DEF CommandInv
<1>9. StreamInv' /\ GotInv'
  BY <1>1, <1>5, ScenarioOK DEF StreamInv, GotInv
<1>10. UnsentInv'
  <2>1. message[x] \in Unsent
    BY <1>4 DEF Unsent
  <2> QED BY <1>1, <1>5, <2>1, ScenarioOK DEF UnsentInv
<1>11. Net!OwnRun'
  BY <1>1 DEF Net!OwnRun, Net!Runs
<1> QED BY <1>6, <1>7, <1>8, <1>9, <1>10, <1>11 DEF ConnectionsInv

\* The client uses the connection that there is or begins to make one.
LEMMA TakeKeeps ==
  ASSUME Net!ScenariosAssumption, ConnectionsInv, NEW p \in Party, Net!Take(p)
  PROVE  ConnectionsInv'
<1>1. /\ PeerTypes /\ PeerInv /\ CommandInv /\ StreamInv /\ GotInv /\ UnsentInv /\ Net!OwnRun
  BY DEF ConnectionsInv
<1>2. /\ client[p] = "ready" /\ commands[p] # <<>>
      /\ UNCHANGED <<scenario, run, queue, outgoing, streams, lost, faults, got>>
  BY DEF Net!Take
<1>3. CASE Net!Spawn(p)
  <2>1. outgoing' \in [Party -> [Party -> {0} \cup Net!Runs]]
    BY <1>1, <1>2 DEF PeerTypes
  <2> QED BY <1>2, <1>3, <2>1, SpawnKeeps
<1>4. CASE client' = [client EXCEPT ![p] = "connecting"] /\ UNCHANGED <<commands, message>>
  <2>1. /\ Net!Sends' = Net!Sends /\ Net!Runs' = Net!Runs
        /\ \A q \in Party : Net!Up(q)' = Net!Up(q)
        /\ client'[p] = "connecting" /\ \A q \in Party : q # p => client'[q] = client[q]
        /\ client' \in [Party -> {"ready", "connecting", "gone"}]
    BY <1>1, <1>2, <1>4 DEF PeerTypes, Net!Sends, Net!Runs, Net!Up
  <2>2. PeerTypes'
    BY <1>1, <1>2, <1>4, <2>1 DEF PeerTypes
  <2>3. PeerInv'
    BY <1>1, <1>2, <1>4, <2>1 DEF PeerInv
  <2>4. CommandInv' /\ StreamInv' /\ GotInv'
    BY <1>1, <1>2, <1>4, <2>1, ScenarioOK DEF CommandInv, StreamInv, GotInv
  <2>5. UnsentInv'
    BY <1>1, <1>2, <1>4, <2>1, ScenarioOK DEF UnsentInv
  <2>6. Net!OwnRun'
    BY <1>1, <1>2 DEF Net!OwnRun, Net!Runs
  <2> QED BY <2>2, <2>3, <2>4, <2>5, <2>6 DEF ConnectionsInv
<1> QED BY <1>3, <1>4 DEF Net!Take

\* A connection goes to the run of a Queue that is there.
LEMMA ConnectKeeps ==
  ASSUME Net!ScenariosAssumption, ConnectionsInv, NEW p \in Party, Net!Connect(p)
  PROVE  ConnectionsInv'
<1> DEFINE q == Net!Receiver(p)
<1>1. /\ client[p] = "connecting" /\ Net!Up(q) /\ Net!Spawn(p)
      /\ outgoing' = [outgoing EXCEPT ![p][q] = run[q]]
      /\ UNCHANGED <<scenario, run, queue, streams, lost, faults, got>>
  BY DEF Net!Connect
<1>2. PeerTypes /\ PeerInv
  BY DEF ConnectionsInv
<1>3. commands[p] # <<>> /\ commands[p] \in Seq(Net!Sends)
  BY <1>1, <1>2 DEF PeerTypes, PeerInv
<1>4. Head(commands[p]) \in Net!Sends
  BY <1>3
<1>5. q \in Party
  BY <1>2, <1>4, ScenarioOK DEF Net!Receiver
<1> HIDE DEF q
<1>6. run[q] \in {0} \cup Net!Runs
  BY <1>2, <1>5 DEF PeerTypes
<1>7. outgoing' \in [Party -> [Party -> {0} \cup Net!Runs]]
  BY <1>1, <1>2, <1>5, <1>6 DEF PeerTypes
<1> QED BY <1>1, <1>3, <1>7, SpawnKeeps

\* What is asked fails when the client panics, and has not been written.
LEMMA PanicKeeps ==
  ASSUME Net!ScenariosAssumption, ConnectionsInv, NEW p \in Party, Net!Panic(p)
  PROVE  ConnectionsInv'
<1>1. /\ PeerTypes /\ PeerInv /\ CommandInv /\ StreamInv /\ GotInv /\ UnsentInv /\ Net!OwnRun
  BY DEF ConnectionsInv
<1>2. /\ client[p] = "connecting"
      /\ client' = [client EXCEPT ![p] = "gone"]
      /\ commands' = [commands EXCEPT ![p] = <<>>]
      /\ message' = [x \in Net!Sends |-> IF x[1] = p /\ message[x] = "asked" THEN "failed"
                                         ELSE message[x]]
      /\ UNCHANGED <<scenario, run, queue, outgoing, streams, lost, faults, got>>
  BY DEF Net!Panic
<1>3. /\ Net!Sends' = Net!Sends /\ Net!Runs' = Net!Runs
      /\ \A q \in Party : Net!Up(q)' = Net!Up(q)
      /\ client'[p] = "gone" /\ commands'[p] = <<>> /\ Net!Up(p)
      /\ \A q \in Party : q # p => client'[q] = client[q] /\ commands'[q] = commands[q]
      /\ \A x \in Net!Sends : message'[x] \in Unsent => message[x] \in Unsent
      /\ \A x \in Net!Sends : x[1] # p => message'[x] = message[x]
  BY <1>1, <1>2 DEF PeerTypes, PeerInv, Net!Sends, Net!Runs, Net!Up, Unsent
<1>4. PeerTypes'
  <2>1. message' \in [Net!Sends -> Net!Progress]
    BY <1>1, <1>2 DEF PeerTypes, Net!Progress
  <2>2. commands' \in [Party -> Seq(Net!Sends)]
    <3>1. <<>> \in Seq(Net!Sends)
      OBVIOUS
    <3> QED BY <1>1, <1>2, <3>1 DEF PeerTypes
  <2>3. client' \in [Party -> {"ready", "connecting", "gone"}]
    BY <1>1, <1>2 DEF PeerTypes
  <2> QED BY <1>1, <1>2, <1>3, <2>1, <2>2, <2>3 DEF PeerTypes
<1>5. PeerInv'
  BY <1>1, <1>2, <1>3, ScenarioOK DEF PeerInv
<1>6. CommandInv'
  <2> SUFFICES ASSUME NEW q \in Party, NEW i \in DOMAIN commands'[q], q # p
               PROVE  /\ commands[q][i][1] = q /\ message'[commands[q][i]] = "asked"
                      /\ \A j \in DOMAIN commands[q] : commands[q][i] = commands[q][j] => i = j
    BY <1>3 DEF CommandInv
  <2>1. i \in DOMAIN commands[q] /\ commands[q][i] \in Net!Sends
    BY <1>1, <1>3 DEF PeerTypes
  <2> QED BY <1>1, <1>3, <2>1 DEF CommandInv
<1>7. StreamInv' /\ GotInv'
  BY <1>1, <1>2, <1>3, ScenarioOK DEF StreamInv, GotInv
<1>8. UnsentInv'
  BY <1>1, <1>2, <1>3, ScenarioOK DEF UnsentInv
<1>9. Net!OwnRun'
  BY <1>1, <1>2 DEF Net!OwnRun, Net!Runs
<1> QED BY <1>4, <1>5, <1>6, <1>7, <1>8, <1>9 DEF ConnectionsInv

\* A message is written in the run and the session of its Queue, or fails and is not written.
LEMMA WriteKeeps ==
  ASSUME Net!ScenariosAssumption, ConnectionsInv, NEW p \in Party, NEW x \in Net!From(p),
         Net!Write(p, x)
  PROVE  ConnectionsInv'
<1> DEFINE link == Net!Link(p, x[2])
           new  == [message |-> x, link |-> link, session |-> queue[p]]
<1>1. /\ PeerTypes /\ PeerInv /\ CommandInv /\ StreamInv /\ GotInv /\ UnsentInv /\ Net!OwnRun
  BY DEF ConnectionsInv
<1>2. /\ x \in Net!Sends /\ x[1] = p /\ message[x] = "writing"
      /\ UNCHANGED <<scenario, run, queue, client, commands, outgoing, lost, faults, got>>
      /\ \/ message' = [message EXCEPT ![x] = "failed"] /\ streams' = streams
         \/ /\ message' = [message EXCEPT ![x] = "written"]
            /\ \A s \in streams' : s \in streams \/ (s = new /\ Net!Alive(link) /\ link \notin lost)
  BY DEF Net!Write, Net!From
<1>3. Net!Up(p) /\ x[2] \in Party
  BY <1>1, <1>2, ScenarioOK DEF PeerInv
<1>4. /\ Net!Sends' = Net!Sends /\ Net!Runs' = Net!Runs
      /\ \A q \in Party : Net!Up(q)' = Net!Up(q)
      /\ message'[x] \in {"failed", "written"}
      /\ \A y \in Net!Sends : y # x => message'[y] = message[y]
  BY <1>1, <1>2 DEF PeerTypes, Net!Sends, Net!Runs, Net!Up
<1>5. PeerTypes'
  <2>1. message' \in [Net!Sends -> Net!Progress]
    BY <1>1, <1>2 DEF PeerTypes, Net!Progress
  <2> QED BY <1>1, <1>2, <1>4, <2>1 DEF PeerTypes
<1>6. PeerInv'
  <2>1. ASSUME NEW q \in Party, ~Net!Up(q), NEW y \in Net!Sends, y[1] = q
        PROVE  message'[y] = "waiting"
    <3>1. y # x
      BY <1>2, <1>3, <2>1
    <3>2. message[y] = "waiting"
      BY <1>1, <2>1 DEF PeerInv
    <3> QED BY <1>4, <3>1, <3>2
  <2> QED BY <1>1, <1>2, <1>4, <2>1 DEF PeerInv
<1>7. CommandInv'
  <2>1. ASSUME NEW q \in Party, NEW i \in DOMAIN commands[q]
        PROVE  message'[commands[q][i]] = "asked"
    <3>1. commands[q][i] \in Net!Sends /\ message[commands[q][i]] = "asked"
      BY <1>1, <2>1 DEF PeerTypes, CommandInv
    <3> QED BY <1>2, <1>4, <3>1
  <2> QED BY <1>1, <1>2, <2>1 DEF CommandInv
<1>8. StreamInv'
  <2>1. ASSUME Net!Alive(link), link \notin lost
        PROVE  /\ new.message = x /\ new.link = link /\ new.session = queue[p]
               /\ link.from = p /\ link.to = x[2]
               /\ link.from_run = run[p] /\ run[p] \in Net!Runs /\ run[p] <= run[p]
               /\ queue[p] = Net!NewQueue(scenario.setups[run[p]])
               /\ Net!Up(x[2]) /\ run[x[2]] = link.to_run
    <3>1. run[p] \in Net!Runs /\ queue[p] = Net!NewQueue(scenario.setups[run[p]])
      BY <1>1, <1>3 DEF PeerInv
    <3>2. run[p] \in Nat
      BY <1>1, RunOK
    <3> QED BY <2>1, <3>1, <3>2 DEF Net!Alive, Net!Link
  <2> HIDE DEF new, link
  <2>2. ASSUME NEW s \in streams'
        PROVE  /\ s.message \in Net!Sends
               /\ s.link.from = s.message[1] /\ s.link.to = s.message[2]
               /\ s.link.from_run \in Net!Runs /\ s.link.from_run <= run[s.link.from]
               /\ s.session = Net!NewQueue(scenario.setups[s.link.from_run])
               /\ Net!Up(s.link.to) /\ s.link.to \in Party /\ run[s.link.to] = s.link.to_run
               /\ s.link \notin lost
    <3>1. CASE s \in streams
      BY <1>1, <3>1, ScenarioOK DEF StreamInv
    <3>2. CASE s = new /\ Net!Alive(link) /\ link \notin lost
      BY <1>2, <1>3, <2>1, <3>2
    <3> QED BY <1>2, <2>2, <3>1, <3>2
  <2> QED BY <1>2, <1>4, <2>2 DEF StreamInv
<1>9. GotInv'
  BY <1>1, <1>2, <1>4 DEF GotInv
<1>10. UnsentInv'
  <2> SUFFICES ASSUME NEW y \in Net!Sends, Net!Up(y[1]), message'[y] \in Unsent
               PROVE  /\ \A s \in streams' : s.message = y => s.link.from_run # run[y[1]]
                      /\ \A m \in got : m.of = y => m.sent_in # run[y[1]]
    BY <1>1, <1>2, <1>4, ScenarioOK DEF UnsentInv
  <2>1. message[y] \in Unsent
    BY <1>2, <1>4 DEF Unsent
  <2>2. \A s \in streams' : s.message = y => s \in streams
    <3>1. CASE y = x
      <4>1. streams' = streams
        BY <1>1, <1>2, <3>1 DEF PeerTypes, Unsent
      <4> QED BY <4>1
    <3>2. CASE y # x
      BY <1>2, <3>2
    <3> QED BY <3>1, <3>2
  <2> QED BY <1>1, <2>1, <2>2 DEF UnsentInv
<1>11. Net!OwnRun'
  BY <1>1, <1>2 DEF Net!OwnRun, Net!Runs
<1> QED BY <1>5, <1>6, <1>7, <1>8, <1>9, <1>10, <1>11 DEF ConnectionsInv

\* A message that is written is answered.
LEMMA AnswerKeeps ==
  ASSUME Net!ScenariosAssumption, ConnectionsInv, NEW x \in Net!Sends, Net!Answer(x)
  PROVE  ConnectionsInv'
<1>1. /\ PeerTypes /\ PeerInv /\ CommandInv /\ StreamInv /\ GotInv /\ UnsentInv /\ Net!OwnRun
  BY DEF ConnectionsInv
<1>2. /\ message[x] = "written" /\ message' = [message EXCEPT ![x] = "ok"]
      /\ UNCHANGED <<scenario, run, queue, client, commands, outgoing, streams, lost, faults, got>>
  BY DEF Net!Answer
<1>3. /\ Net!Sends' = Net!Sends /\ Net!Runs' = Net!Runs
      /\ \A q \in Party : Net!Up(q)' = Net!Up(q)
      /\ message'[x] = "ok" /\ "ok" \notin Unsent
      /\ \A y \in Net!Sends : y # x => message'[y] = message[y]
  BY <1>1, <1>2 DEF PeerTypes, Net!Sends, Net!Runs, Net!Up, Unsent
<1>4. PeerTypes'
  <2>1. message' \in [Net!Sends -> Net!Progress]
    BY <1>1, <1>2 DEF PeerTypes, Net!Progress
  <2> QED BY <1>1, <1>2, <1>3, <2>1 DEF PeerTypes
<1>5. PeerInv'
  <2>1. ASSUME NEW q \in Party, ~Net!Up(q), NEW y \in Net!Sends, y[1] = q
        PROVE  message'[y] = "waiting"
    <3>1. message[y] = "waiting"
      BY <1>1, <2>1 DEF PeerInv
    <3> QED BY <1>2, <1>3, <3>1
  <2> QED BY <1>1, <1>2, <1>3, <2>1 DEF PeerInv
<1>6. CommandInv'
  <2>1. ASSUME NEW q \in Party, NEW i \in DOMAIN commands[q]
        PROVE  message'[commands[q][i]] = "asked"
    <3>1. commands[q][i] \in Net!Sends /\ message[commands[q][i]] = "asked"
      BY <1>1, <2>1 DEF PeerTypes, CommandInv
    <3> QED BY <1>2, <1>3, <3>1
  <2> QED BY <1>1, <1>2, <2>1 DEF CommandInv
<1>7. StreamInv' /\ GotInv'
  BY <1>1, <1>2, <1>3, ScenarioOK DEF StreamInv, GotInv
<1>8. UnsentInv'
  BY <1>1, <1>2, <1>3, ScenarioOK DEF UnsentInv
<1>9. Net!OwnRun'
  BY <1>1, <1>2 DEF Net!OwnRun, Net!Runs
<1> QED BY <1>4, <1>5, <1>6, <1>7, <1>8, <1>9 DEF ConnectionsInv

\* What is on the streams of a connection that is lost or closed is lost with it.
LEMMA CutKeeps ==
  ASSUME Net!ScenariosAssumption, ConnectionsInv, NEW p \in Party, NEW q \in Party,
         Net!Lose(p, q) \/ Net!Close(p, q)
  PROVE  ConnectionsInv'
<1> DEFINE link == Net!Link(p, q)
<1>1. /\ PeerTypes /\ PeerInv /\ CommandInv /\ StreamInv /\ GotInv /\ UnsentInv /\ Net!OwnRun
  BY DEF ConnectionsInv
<1>2. /\ lost' = lost \cup {link} /\ streams' = {s \in streams : s.link # link}
      /\ (faults < scenario.faults /\ faults' = faults + 1) \/ faults' = faults
      /\ UNCHANGED <<scenario, run, queue, client, commands, outgoing, message, got>>
  BY DEF Net!Lose, Net!Close, Net!Cut
<1>3. /\ Net!Sends' = Net!Sends /\ Net!Runs' = Net!Runs
      /\ \A o \in Party : Net!Up(o)' = Net!Up(o)
      /\ \A s \in streams' : s \in streams /\ s.link # link
  BY <1>2 DEF Net!Sends, Net!Runs, Net!Up
<1> HIDE DEF link
<1>4. PeerTypes'
  <2>1. faults' \in 0 .. scenario.faults
    BY <1>1, <1>2, ScenarioOK DEF PeerTypes
  <2> QED BY <1>1, <1>2, <1>3, <2>1 DEF PeerTypes
<1>5. PeerInv' /\ CommandInv'
  BY <1>1, <1>2, <1>3 DEF PeerInv, CommandInv
<1>6. StreamInv' /\ GotInv'
  BY <1>1, <1>2, <1>3, ScenarioOK DEF StreamInv, GotInv
<1>7. UnsentInv'
  BY <1>1, <1>2, <1>3, ScenarioOK DEF UnsentInv
<1>8. Net!OwnRun'
  BY <1>1, <1>2 DEF Net!OwnRun, Net!Runs
<1> QED BY <1>4, <1>5, <1>6, <1>7, <1>8 DEF ConnectionsInv

\* A server hands on what is of its Queue's session.  If the runs have sessions of their own,
\* that is of the Queue's run.
LEMMA ServeKeeps ==
  ASSUME Net!ScenariosAssumption, ConnectionsInv, NEW s \in streams, Net!Serve(s)
  PROVE  ConnectionsInv'
<1> DEFINE new == Net!Handed(s)
<1>1. /\ PeerTypes /\ PeerInv /\ CommandInv /\ StreamInv /\ GotInv /\ UnsentInv /\ Net!OwnRun
  BY DEF ConnectionsInv
<1>2. /\ streams' = streams \ {s}
      /\ \A m \in got' : m \in got \/ (m = new /\ s.session = queue[s.link.to])
      /\ UNCHANGED <<scenario, run, queue, client, commands, outgoing, message, lost, faults>>
  BY DEF Net!Serve
<1>3. /\ Net!Sends' = Net!Sends /\ Net!Runs' = Net!Runs
      /\ \A q \in Party : Net!Up(q)' = Net!Up(q)
      /\ \A r \in streams' : r \in streams
  BY <1>2 DEF Net!Sends, Net!Runs, Net!Up
<1>4. /\ new.of = s.message /\ new.sent_in = s.link.from_run /\ new.got_in = s.link.to_run
      /\ s.message \in Net!Sends /\ s.link.from_run \in Net!Runs
      /\ s.link.from = s.message[1] /\ s.link.from \in Party /\ s.link.to \in Party
      /\ s.link.from_run <= run[s.link.from]
      /\ s.session = Net!NewQueue(scenario.setups[s.link.from_run])
      /\ Net!Up(s.link.to) /\ run[s.link.to] = s.link.to_run
  BY <1>1, ScenarioOK DEF StreamInv, Net!Handed
<1> HIDE DEF new
<1>5. PeerTypes'
  BY <1>1, <1>2, <1>3 DEF PeerTypes
<1>6. PeerInv' /\ CommandInv'
  BY <1>1, <1>2, <1>3 DEF PeerInv, CommandInv
<1>7. StreamInv'
  BY <1>1, <1>2, <1>3, ScenarioOK DEF StreamInv
<1>8. GotInv'
  BY <1>1, <1>2, <1>3, <1>4 DEF GotInv
<1>9. UnsentInv'
  <2> SUFFICES ASSUME NEW x \in Net!Sends, Net!Up(x[1]), message[x] \in Unsent
               PROVE  /\ \A r \in streams : r.message = x => r.link.from_run # run[x[1]]
                      /\ \A m \in got' : m.of = x => m.sent_in # run[x[1]]
    BY <1>1, <1>2, <1>3, ScenarioOK DEF UnsentInv
  <2>1. /\ \A r \in streams : r.message = x => r.link.from_run # run[x[1]]
        /\ \A m \in got : m.of = x => m.sent_in # run[x[1]]
    BY <1>1 DEF UnsentInv
  <2> QED BY <1>2, <1>4, <2>1
<1>10. Net!OwnRun'
  <2> DEFINE session(r) == Net!Documented(scenario.setups[r])
             distinct   == \A q, r \in Net!Runs :
                             session(q) # Net!NoQueue /\ (session(q) = session(r) => q = r)
  <2> SUFFICES ASSUME distinct, NEW m \in got' PROVE m.sent_in = m.got_in
    BY <1>2, <1>3 DEF Net!OwnRun
  <2>1. CASE m \in got
    BY <1>1, <2>1 DEF Net!OwnRun
  <2>2. CASE m = new /\ s.session = queue[s.link.to]
    <3> DEFINE a == s.link.from_run
               b == s.link.to_run
    <3>1. b \in Net!Runs /\ queue[s.link.to] = Net!NewQueue(scenario.setups[b])
      BY <1>1, <1>4 DEF PeerInv
    <3>2. a \in Net!Runs /\ Net!NewQueue(scenario.setups[a]) = Net!NewQueue(scenario.setups[b])
      BY <1>4, <2>2, <3>1
    <3>3. \A r \in Net!Runs : Net!NewQueue(scenario.setups[r]) = session(r)
      BY <1>1, ScenarioOK
    <3>4. a = b
      BY <3>1, <3>2, <3>3
    <3> QED BY <1>4, <2>2, <3>4
  <2> QED BY <1>2, <2>1, <2>2
<1> QED BY <1>5, <1>6, <1>7, <1>8, <1>9, <1>10 DEF ConnectionsInv

\* No step of a party and no failure of the network breaks the invariant.
LEMMA NextKeepsConnections ==
  ASSUME Net!ScenariosAssumption, ConnectionsInv, [Net!Next]_(Net!vars)
  PROVE  ConnectionsInv'
<1>1. CASE UNCHANGED Net!vars
  <2>1. /\ PeerTypes /\ PeerInv /\ CommandInv /\ StreamInv /\ GotInv /\ UnsentInv /\ Net!OwnRun
        /\ UNCHANGED <<scenario, run, queue, client, commands, outgoing, message, streams, lost>>
        /\ UNCHANGED <<faults, got>>
    BY <1>1 DEF ConnectionsInv, Net!vars
  <2>2. PeerTypes' /\ CommandInv' /\ GotInv' /\ Net!OwnRun'
    BY <2>1 DEF PeerTypes, CommandInv, GotInv, Net!OwnRun, Net!Sends, Net!Runs
  <2>3. PeerInv' /\ StreamInv' /\ UnsentInv'
    BY <2>1 DEF PeerInv, StreamInv, UnsentInv, Net!Sends, Net!Runs, Net!Up
  <2> QED BY <2>2, <2>3 DEF ConnectionsInv
<1>2. ASSUME NEW p \in Party, Net!Step(p) PROVE ConnectionsInv'
  <2>1. CASE Net!Start(p)
    BY <2>1, StartKeeps
  <2>2. CASE Net!End(p)
    <3>1. Net!Drop(p) /\ faults' = faults /\ faults \in 0 .. scenario.faults
      BY <2>2 DEF Net!End, ConnectionsInv, PeerTypes
    <3> QED BY <3>1, DropKeeps
  <2>3. CASE Net!Take(p) \/ Net!Connect(p) \/ Net!Panic(p)
    BY <2>3, TakeKeeps, ConnectKeeps, PanicKeeps
  <2>4. ASSUME NEW x \in Net!From(p), Net!Submit(p, x) \/ Net!Write(p, x) \/ Net!Answer(x)
        PROVE  ConnectionsInv'
    <3>1. x \in Net!Sends
      BY DEF Net!From
    <3> QED BY <2>4, <3>1, SubmitKeeps, WriteKeeps, AnswerKeeps
  <2>5. ASSUME NEW s \in streams, Net!Serve(s) PROVE ConnectionsInv'
    BY <2>5, ServeKeeps
  <2>6. ASSUME NEW q \in Party, Net!Close(p, q) PROVE ConnectionsInv'
    BY <2>6, CutKeeps
  <2> QED BY <1>2, <2>1, <2>2, <2>3, <2>4, <2>5, <2>6 DEF Net!Step
<1>3. ASSUME NEW p \in Party, Net!Crash(p) PROVE ConnectionsInv'
  <2>1. faults' \in 0 .. scenario.faults
    BY <1>3, ScenarioOK DEF Net!Crash, ConnectionsInv, PeerTypes
  <2> QED BY <1>3, <2>1, DropKeeps DEF Net!Crash
<1>4. ASSUME NEW p \in Party, NEW q \in Party, Net!Lose(p, q) PROVE ConnectionsInv'
  BY <1>4, CutKeeps
<1> QED BY <1>1, <1>2, <1>3, <1>4 DEF Net!Next

\* What the types of client.rs and server.rs say holds, a client is there only with its Queue,
\* and what is on a stream is on a connection that is up or of a Queue that is gone.
LEMMA TypesOfConnections == Net!ScenariosAssumption /\ ConnectionsInv => Net!TypeOK
<1> SUFFICES ASSUME Net!ScenariosAssumption, ConnectionsInv PROVE Net!TypeOK
  OBVIOUS
<1>1. /\ PeerTypes /\ PeerInv /\ StreamInv
      /\ \A x \in Net!Sends : x[1] \in Party /\ x[2] \in Party
  BY ScenarioOK DEF ConnectionsInv
<1>2. \A s \in streams :
        Net!Alive(s.link) \/ ~Net!Up(s.link.from) \/ run[s.link.from] # s.link.from_run
  BY <1>1 DEF StreamInv, Net!Alive
<1> QED BY <1>1, <1>2 DEF PeerTypes, PeerInv, Net!TypeOK

\* A message that is said to have failed has not been sent and will not arrive.
LEMMA FailedOfConnections == Net!ScenariosAssumption /\ ConnectionsInv => Net!FailedIsLost
<1> SUFFICES ASSUME Net!ScenariosAssumption, ConnectionsInv,
                    NEW x \in Net!Sends, message[x] = "failed"
             PROVE  /\ \A m \in got : m.of = x => m.sent_in # run[x[1]]
                    /\ \A s \in streams : s.message = x => s.link.from_run # run[x[1]]
  BY DEF Net!FailedIsLost
<1>1. /\ PeerTypes /\ PeerInv /\ UnsentInv /\ x[1] \in Party
  BY ScenarioOK DEF ConnectionsInv
<1>2. Net!Up(x[1]) /\ message[x] \in Unsent
  BY <1>1 DEF PeerInv, Unsent
<1> QED BY <1>1, <1>2 DEF UnsentInv

------------------------------------------------------------------------------
(* Buffer and connections *)

MessagesInv == BufferInv /\ (part = "connections" => ConnectionsInv)

\* The buffer's invariant and that of the connections hold at first.
LEMMA InitMessages ==
  ASSUME Net!ScenariosAssumption PROVE MessagesInit => MessagesInv
BY InitBuffer, InitConnections DEF MessagesInit, MessagesInv

\* Every step is one of the buffer or one of the connections, and leaves the other alone.
LEMMA NextKeepsMessages ==
  ASSUME Net!ScenariosAssumption
  PROVE  MessagesInv /\ [MessagesNext]_<<part, vars, netVars>> => MessagesInv'
<1> SUFFICES ASSUME MessagesInv, [MessagesNext]_<<part, vars, netVars>> PROVE MessagesInv'
  OBVIOUS
<1>1. part' = part /\ [Next]_vars
  BY DEF MessagesNext
<1>2. part = "connections" => [Net!Next]_(Net!vars)
  BY DEF MessagesNext, netVars, Net!vars
<1>3. BufferInv'
  BY <1>1, NextKeepsBuffer DEF MessagesInv
<1>4. part = "connections" => ConnectionsInv'
  BY <1>2, NextKeepsConnections DEF MessagesInv
<1> QED BY <1>1, <1>3, <1>4 DEF MessagesInv

\* Both keep values of the code's types, for all parties and scenarios: in addition, a client
\* is there only with its Queue, and what is on a stream is on a connection that is up, or of a
\* Queue that is gone.
THEOREM MessagesTypesHold ==
  ASSUME Net!ScenariosAssumption PROVE MessagesSpec => []MessagesTypeOK
<1>1. MessagesInv => MessagesTypeOK
  BY TypesOfConnections DEF MessagesInv, BufferInv, MessagesTypeOK
<1> QED BY <1>1, InitMessages, NextKeepsMessages, PTL DEF MessagesSpec

\* "Session identifiers avoid the reuse of messages across protocol runs": if the runs have
\* sessions of their own, a Queue gets messages of its own run only.
THEOREM OwnRunHolds ==
  ASSUME Net!ScenariosAssumption PROVE MessagesSpec => []OwnRun
<1>1. MessagesInv => OwnRun
  BY DEF MessagesInv, ConnectionsInv, OwnRun
<1> QED BY <1>1, InitMessages, NextKeepsMessages, PTL DEF MessagesSpec

\* A message that is said to have failed has not been sent and will not arrive.
THEOREM FailedIsLostHolds ==
  ASSUME Net!ScenariosAssumption PROVE MessagesSpec => []FailedIsLost
<1>1. MessagesInv => FailedIsLost
  BY FailedOfConnections DEF MessagesInv, FailedIsLost
<1> QED BY <1>1, InitMessages, NextKeepsMessages, PTL DEF MessagesSpec
===============================================================================
