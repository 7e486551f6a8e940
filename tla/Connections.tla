----------------------------- MODULE Connections -----------------------------
(***************************************************************************)
(* Queues of several protocol runs and their connections                   *)
(* (hmpc-rs/src/net/client.rs, server.rs and the messages of net.rs).      *)
(*                                                                         *)
(* Each party begins a Queue for one run after the other.  Its client task *)
(* takes one command at a time and connects to a party when it first has a *)
(* message for it; a task for each message writes it to a stream.  The     *)
(* server of the receiver has a task for each connection, which reads one  *)
(* stream after the other.  Identifiers of messages are the same in each   *)
(* run, since the counters of a new Queue begin anew.                      *)
(*                                                                         *)
(* A message is its sender, its receiver and a number.  A connection is    *)
(* named by two Queues, as a client keeps one for each receiver for good.  *)
(***************************************************************************)
EXTENDS Configuration, Sequences, FiniteSets

CONSTANTS
  Party,
  Scenarios   \* the messages that are sent in a run, the setup of each run, which is the same
              \* for all parties, and a bound on crashes and lost connections

\* What the code's types say of the scenarios: sends are between parties, the runs have a
\* sequence of setups, and a session is not None.
ScenariosAssumption ==
  \A s \in Scenarios :
    /\ \A x \in s.sends : x[1] \in Party /\ x[2] \in Party
    /\ Len(s.setups) \in Nat /\ DOMAIN s.setups = 1 .. Len(s.setups)
    /\ s.faults \in Nat
    /\ \A r \in DOMAIN s.setups :
         /\ None # [form |-> "parse", of |-> s.setups[r].value]
         /\ None # [form |-> "string", of |-> s.setups[r].string]

VARIABLES
  scenario,   \* the one of this behaviour; it stays
  run,        \* run[p]: the run that p has begun, 0 before the first
  queue,      \* queue[p]: the session of p's Queue, or NoQueue
  client,     \* client[p]: how p's client task is doing; gone after a panic
  commands,   \* commands[p]: the messages in the client's channel
  outgoing,   \* outgoing[p][q]: the run of q that p's connection goes to, 0 for none; after a
              \* panic only the tasks that write have it
  message,    \* message[x]: how far the message of the sender's run has come
  streams,    \* streams that are written and not read
  lost,       \* connections that are lost or closed
  faults,     \* number of crashes and lost connections
  got         \* history: messages that servers handed on

vars == <<scenario, run, queue, client, commands, outgoing, message, streams, lost, faults, got>>

\* waiting: no command yet; asked: in the channel of the client; writing, written: has a task
Progress == {"waiting", "asked", "writing", "written", "ok", "failed"}
Answered == {"ok", "failed"}

Sends == scenario.sends
Runs  == DOMAIN scenario.setups

Up(p) == queue[p] # NoQueue

From(p) == {x \in Sends : x[1] = p}
To(p)   == {x \in Sends : x[2] = p}

\* The connection that p's client has to q.
Link(p, q) == [from |-> p, from_run |-> run[p], to |-> q, to_run |-> outgoing[p][q]]

Alive(link) ==
  /\ link \notin lost
  /\ Up(link.from) /\ run[link.from] = link.from_run
  /\ Up(link.to) /\ run[link.to] = link.to_run

Init ==
  /\ scenario \in Scenarios
  /\ run = [p \in Party |-> 0]
  /\ queue = [p \in Party |-> NoQueue]
  /\ client = [p \in Party |-> "gone"]
  /\ commands = [p \in Party |-> <<>>]
  /\ outgoing = [p \in Party |-> [q \in Party |-> 0]]
  /\ message = [x \in Sends |-> "waiting"]
  /\ streams = {} /\ lost = {} /\ faults = 0 /\ got = {}

------------------------------------------------------------------------------
(* Queues *)

\* A program begins: it reads its configuration and constructs a Queue.
Start(p) ==
  /\ ~Up(p) /\ run[p] < Len(scenario.setups)
  /\ run' = [run EXCEPT ![p] = @ + 1]
  /\ queue' = [queue EXCEPT ![p] = NewQueue(scenario.setups[run[p] + 1])]
  /\ client' = [client EXCEPT ![p] = IF queue'[p] = NoQueue THEN "gone" ELSE "ready"]
  /\ UNCHANGED <<scenario, commands, outgoing, message, streams, lost, faults, got>>

\* The Queue and the tasks of its runtime are dropped.  What its peers have sent it on
\* connections that they still have is lost, and of what it has written itself what the
\* network has not taken yet.
Drop(p) ==
  /\ queue' = [queue EXCEPT ![p] = NoQueue]
  /\ client' = [client EXCEPT ![p] = "gone"]
  /\ commands' = [commands EXCEPT ![p] = <<>>]
  /\ outgoing' = [outgoing EXCEPT ![p] = [q \in Party |-> 0]]
  /\ message' = [x \in Sends |-> IF x[1] = p THEN "waiting" ELSE message[x]]
  /\ \E kept \in SUBSET {s \in streams : s.link.from = p} :
       streams' = {s \in streams : s.link.to # p /\ (s.link.from = p => s \in kept)}
  /\ UNCHANGED <<scenario, run, lost, got>>

\* The program has come to its end: its messages are answered, and those for it are there.
End(p) ==
  /\ Up(p)
  /\ \A x \in From(p) : message[x] \in Answered
  /\ \A x \in To(p) : \E m \in got : m.of = x /\ m.got_in = run[p]
  /\ Drop(p)
  /\ UNCHANGED faults

Crash(p) ==
  /\ Up(p) /\ faults < scenario.faults
  /\ Drop(p)
  /\ faults' = faults + 1

------------------------------------------------------------------------------
(* The client *)

\* A send task gives its message to the client.  Nobody takes it if the client has panicked.
Submit(p, x) ==
  /\ Up(p) /\ message[x] = "waiting"
  /\ IF client[p] = "gone"
     THEN /\ message' = [message EXCEPT ![x] = "failed"]
          /\ UNCHANGED commands
     ELSE /\ message' = [message EXCEPT ![x] = "asked"]
          /\ commands' = [commands EXCEPT ![p] = Append(@, x)]
  /\ UNCHANGED <<scenario, run, queue, client, outgoing, streams, lost, faults, got>>

\* The command's message gets a task, and the client turns to the next one.
Spawn(p) ==
  /\ message' = [message EXCEPT ![Head(commands[p])] = "writing"]
  /\ commands' = [commands EXCEPT ![p] = Tail(@)]
  /\ client' = [client EXCEPT ![p] = "ready"]

\* The receiver of the client's command
Receiver(p) == Head(commands[p])[2]

\* make_connection: one that is there is used, whatever has become of it.
Take(p) ==
  /\ client[p] = "ready" /\ commands[p] # <<>>
  /\ IF outgoing[p][Receiver(p)] # 0 THEN Spawn(p)
     ELSE /\ client' = [client EXCEPT ![p] = "connecting"]
          /\ UNCHANGED <<commands, message>>
  /\ UNCHANGED <<scenario, run, queue, outgoing, streams, lost, faults, got>>

\* Mutant: the server looks after one connection until it ends.
Connect_Inline(p) ==
  /\ client[p] = "connecting"
  /\ LET q == Receiver(p)
     IN  /\ Up(q)
         /\ \A o \in Party : ~(outgoing[o][q] = run[q] /\ Alive(Link(o, q)))
         /\ Spawn(p)
         /\ outgoing' = [outgoing EXCEPT ![p][q] = run[q]]
  /\ UNCHANGED <<scenario, run, queue, streams, lost, faults, got>>

\* connect_client: the handshake succeeds with a server that listens, which spawns a task for
\* the connection.
Connect(p) ==
  /\ client[p] = "connecting"
  /\ LET q == Receiver(p)
     IN  /\ Up(q)
         /\ Spawn(p)
         /\ outgoing' = [outgoing EXCEPT ![p][q] = run[q]]
  /\ UNCHANGED <<scenario, run, queue, streams, lost, faults, got>>

\* Mutant: the tasks that write messages end with the client.
Panic_Writers(p) ==
  /\ client[p] = "connecting" /\ ~Up(Receiver(p))
  /\ client' = [client EXCEPT ![p] = "gone"]
  /\ commands' = [commands EXCEPT ![p] = <<>>]
  /\ message' = [x \in Sends |-> IF x[1] = p /\ message[x] \in {"asked", "writing", "written"}
                                 THEN "failed" ELSE message[x]]
  /\ UNCHANGED <<scenario, run, queue, outgoing, streams, lost, faults, got>>

\* Nobody listens until the handshake times out: the client task panics.  The channels for
\* the answers of its commands are dropped with them, and the client's handles of its
\* connections; what this does to these is in Close.
Panic(p) ==
  /\ client[p] = "connecting" /\ ~Up(Receiver(p))
  /\ client' = [client EXCEPT ![p] = "gone"]
  /\ commands' = [commands EXCEPT ![p] = <<>>]
  /\ message' = [x \in Sends |-> IF x[1] = p /\ message[x] = "asked" THEN "failed" ELSE message[x]]
  /\ UNCHANGED <<scenario, run, queue, outgoing, streams, lost, faults, got>>

\* handle_connection of the client: a message is written to a stream of its own and the
\* stream is finished, or there is no connection any more, which is the answer.
Write(p, x) ==
  /\ message[x] = "writing"
  /\ LET link == Link(p, x[2])
     IN  IF link \in lost
         THEN /\ message' = [message EXCEPT ![x] = "failed"]
              /\ UNCHANGED streams
         ELSE /\ message' = [message EXCEPT ![x] = "written"]
              /\ streams' = IF Alive(link)
                            THEN streams \cup {[message |-> x, link |-> link, session |-> queue[p]]}
                            ELSE streams
  /\ UNCHANGED <<scenario, run, queue, client, commands, outgoing, lost, faults, got>>

Answer(x) ==
  /\ message[x] = "written"
  /\ message' = [message EXCEPT ![x] = "ok"]
  /\ UNCHANGED <<scenario, run, queue, client, commands, outgoing, streams, lost, faults, got>>

------------------------------------------------------------------------------
(* Network and server *)

\* p's connection to q ends.  What the server has not read is lost with it; what it has got
\* before it learns of the end may be read before this step.
Cut(p, q) ==
  /\ outgoing[p][q] # 0 /\ Link(p, q) \notin lost
  /\ lost' = lost \cup {Link(p, q)}
  /\ streams' = {s \in streams : s.link # Link(p, q)}
  /\ UNCHANGED <<scenario, run, queue, client, commands, outgoing, message, got>>

\* The idle timeout, or a failure of the network.  That the other Queue is gone is found out, too.
Lose(p, q) ==
  /\ Cut(p, q)
  /\ IF Alive(Link(p, q)) THEN faults < scenario.faults /\ faults' = faults + 1
     ELSE UNCHANGED faults

\* A connection is closed when its last handle is dropped: the panic drops the client's, and
\* the tasks that write have theirs until they end.
Close(p, q) ==
  /\ client[p] = "gone"
  /\ \A x \in From(p) : x[2] = q => message[x] \notin {"writing", "written"}
  /\ Cut(p, q)
  /\ UNCHANGED faults

Handed(s) == [of |-> s.message, sent_in |-> s.link.from_run, got_in |-> s.link.to_run]

\* handle_connection of the server: reads a stream, and hands its message on if it is of the
\* Queue's session (build_from).
Serve(s) ==
  /\ s \in streams
  /\ streams' = streams \ {s}
  /\ got' = IF s.session = queue[s.link.to] THEN got \cup {Handed(s)} ELSE got
  /\ UNCHANGED <<scenario, run, queue, client, commands, outgoing, message, lost, faults>>

------------------------------------------------------------------------------

\* What a party's runtime does by itself
Step(p) ==
  \/ Start(p) \/ End(p)
  \/ Take(p) \/ Connect(p) \/ Panic(p) \/ \E q \in Party : Close(p, q)
  \/ \E x \in From(p) : Submit(p, x) \/ Write(p, x) \/ Answer(x)
  \/ \E s \in streams : s.link.to = p /\ Serve(s)

Next ==
  \E p \in Party : Step(p) \/ Crash(p) \/ \E q \in Party : Lose(p, q)

Fairness == \A p \in Party : WF_vars(Step(p))

Spec == Init /\ [][Next]_vars /\ Fairness

------------------------------------------------------------------------------
(* Properties *)

TypeOK ==
  /\ scenario \in Scenarios
  /\ run \in [Party -> {0} \cup Runs]
  /\ client \in [Party -> {"ready", "connecting", "gone"}]
  /\ commands \in [Party -> Seq(Sends)]
  /\ outgoing \in [Party -> [Party -> {0} \cup Runs]]
  /\ message \in [Sends -> Progress]
  /\ \A p \in Party : client[p] # "gone" => Up(p)
  /\ \A p \in Party : client[p] = "connecting" => commands[p] # <<>>
  /\ \A s \in streams : Alive(s.link) \/ ~Up(s.link.from) \/ run[s.link.from] # s.link.from_run
  /\ faults \in 0..scenario.faults

\* "Session identifiers avoid the reuse of messages across protocol runs"
\* (docs/features.md:18): if the runs have sessions of their own, as far as the documentation
\* says, a Queue gets messages of its own run only, though others have the same identifiers.
OwnRun ==
  LET session(r) == Documented(scenario.setups[r])
  IN  (\A r, s \in Runs : session(r) # NoQueue /\ (session(r) = session(s) => r = s)) =>
        \A m \in got : m.sent_in = m.got_in

\* A message that is said to have failed has not been sent and will not arrive, so that a
\* caller may deal with it as it likes (client.rs 65-102).
FailedIsLost ==
  \A x \in Sends : message[x] = "failed" =>
    /\ \A m \in got : m.of = x => m.sent_in # run[x[1]]
    /\ \A s \in streams : s.message = x => s.link.from_run # run[x[1]]

\* No send task waits for an answer, and what was sent on a connection that has not ended has
\* been handed on if the receiver's Queue is in the same session.
Quiet ==
  \A x \in Sends :
    /\ message[x] \notin {"asked", "writing", "written"}
    /\ message[x] = "ok" /\ Alive(Link(x[1], x[2])) /\ queue[x[1]] = queue[x[2]] =>
         \E m \in got : m.of = x /\ m.sent_in = run[x[1]]

\* Whatever happens to the clients and their connections, all send tasks are answered in the
\* end, and what is sent is handed on if both Queues stay and their connection lasts: it is not
\* lost, nor closed since the sender's client has panicked (client.rs, server.rs).
Settled == <>[]Quiet
==============================================================================
