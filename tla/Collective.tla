------------------------------ MODULE Collective ------------------------------
(***************************************************************************)
(* Collective communication (hmpc-rs/src/net/queue.rs) of parties that run *)
(* the same program of operations, over server and client tasks            *)
(* (server.rs, client.rs), the message buffer and the consistency checks.  *)
(*                                                                         *)
(* Every operation is a "multi" operation with a list of messages.  Its    *)
(* caller first makes sure that all data received before is consistent if  *)
(* it is going to send, then loops over the messages and spawns send and   *)
(* receive tasks, and at last joins the tasks.  At the end of the program  *)
(* the Queue is dropped.                                                   *)
(*                                                                         *)
(* The network keeps no order between messages.  The server handles the    *)
(* messages that come in on one connection one after the other.            *)
(***************************************************************************)
EXTENDS Naturals, FiniteSets, Sequences

CONSTANTS
  Party,         \* the parties, PartyID
  Program,       \* the operations, a sequence of records [kind, ends, senders, receivers]
  Hash,          \* hashes of data; data is told apart by its hash
  Inconsistent,  \* the operations whose senders may send different data to different receivers
  LossOnClose,   \* whether messages may get lost when the Queue of their sender is dropped
  None,          \* Option::None
  Absent,        \* no entry in a map of receivers
  Vacant         \* no entry in a map of checks

Kind == {"broadcast", "gather", "all_gather", "all_to_all"}

(* ends has one entry for every message of the operation: the sender of a broadcast, the
   receiver of a gather, and 0 for all_gather and all_to_all.  A normal operation has one
   communicator, which is both senders and receivers. *)
Operation == [kind : Kind, ends : Seq(Party \cup {0}), senders : SUBSET Party, receivers : SUBSET Party]

ASSUME CollectiveAssumption ==
  /\ Party \subseteq Nat \ {0}
  /\ Program \in Seq(Operation)
  /\ \A o \in DOMAIN Program :
       /\ Program[o].kind \in {"broadcast", "gather"} =>
            \A e \in DOMAIN Program[o].ends : Program[o].ends[e] # 0
       /\ Program[o].senders \subseteq Program[o].receivers
       /\ Program[o].kind # "all_gather" => Program[o].senders = Program[o].receivers
  /\ Inconsistent \subseteq DOMAIN Program
  /\ LossOnClose \in BOOLEAN
  /\ Hash # {}

-----------------------------------------------------------------------------
(* Operations and their messages *)

\* The pairs of parties between which the message e of operation o moves data.
Pairs(o, e) ==
  LET op  == Program[o]
      end == op.ends[e]
  IN  CASE op.kind = "broadcast" -> {end} \X (op.receivers \ {end})
        [] op.kind = "gather"    -> (op.senders \ {end}) \X {end}
        [] OTHER                 -> {pair \in op.senders \X op.receivers : pair[1] # pair[2]}

\* What the operations are meant to move: from one party to another one.
Transfers(o, e) ==
  {[op |-> o, element |-> e, from |-> pair[1], to |-> pair[2]] : pair \in Pairs(o, e)}

Transfer == UNION {UNION {Transfers(o, e) : e \in DOMAIN Program[o].ends} : o \in DOMAIN Program}

\* MessageKind::supports_consistency_check: all receivers get the same data.
SupportsCheck(kind) == kind \in {"broadcast", "all_gather"}
Checked(o) == SupportsCheck(Program[o].kind)

\* SameSource[x]: the transfers that are to carry the same data as x.
SameSource ==
  [x \in Transfer |->
     {y \in Transfer : Checked(x.op) /\ y.op = x.op /\ y.element = x.element /\ y.from = x.from}]

\* The parties that take part in operation o.
Members(o) == {x.from : x \in {y \in Transfer : y.op = o}} \cup {x.to : x \in {y \in Transfer : y.op = o}}

\* The number of the next operation that p takes part in, after o.
NextOperation(p, o) ==
  CHOOSE n \in (o + 1) .. (Len(Program) + 1) :
    /\ n <= Len(Program) => p \in Members(n)
    /\ \A m \in (o + 1) .. (n - 1) : p \notin Members(m)

\* Mutant: only the first message is looked at.
Ensures_First(p, o) ==
  LET op == Program[o]
  IN  CASE op.kind = "broadcast"  -> op.ends[1] = p
        [] op.kind = "gather"     -> op.ends[1] # p
        [] op.kind = "all_gather" -> p \in op.senders
        [] OTHER                  -> TRUE

\* Whether p waits for consistency before operation o: it does when it is going to send.
Ensures(p, o) ==
  LET op == Program[o]
  IN  CASE op.kind = "broadcast"  -> \E e \in DOMAIN op.ends : op.ends[e] = p
        [] op.kind = "gather"     -> \E e \in DOMAIN op.ends : op.ends[e] # p
        [] op.kind = "all_gather" -> p \in op.senders
        [] OTHER                  -> TRUE

\* What message identifiers are hashed from, and the hash (BaseMessageID::hash).
CounterKey(o, e) == [Program[o] EXCEPT !.ends = @[e]]

CounterKeys == UNION {{CounterKey(o, e) : e \in DOMAIN Program[o].ends} : o \in DOMAIN Program}

KeyHash ==
  CHOOSE f \in [CounterKeys -> 1 .. Cardinality(CounterKeys)] :
    \A key, other \in CounterKeys : f[key] = f[other] => key = other

\* The messages whose identifiers are counted together: message e of operation o.
Uses(key) ==
  UNION {{<<o, e>> : e \in {f \in DOMAIN Program[o].ends : CounterKey(o, f) = key}} : o \in DOMAIN Program}

\* How many messages with the same key there are, up to that of x.
CountUpTo(x) ==
  Cardinality({u \in Uses(CounterKey(x.op, x.element)) :
                 u[1] < x.op \/ (u[1] = x.op /\ u[2] <= x.element)})

\* metadata::Message
ToMessage(x, id) == [kind |-> Program[x.op].kind, sender |-> x.from, receiver |-> x.to, id |-> id]

\* The message by which parties without a bug refer to x.  A MessageID is a hash and a counter.
Expected(x) == ToMessage(x, <<KeyHash[CounterKey(x.op, x.element)], CountUpTo(x)>>)

Message == {Expected(x) : x \in Transfer}

\* ConsistencyCheckKey.
ToCheckKey(message) == [kind |-> message.kind, sender |-> message.sender, id |-> message.id]

CheckKey == {ToCheckKey(m) : m \in {n \in Message : SupportsCheck(n.kind)}}

\* The parties that the sender of such a message sends its data to.
CheckReceivers ==
  [k \in CheckKey |-> {m.receiver : m \in {n \in Message : ToCheckKey(n) = k}}]

InconsistentKeys ==
  {ToCheckKey(Expected(x)) : x \in {y \in Transfer : y.op \in Inconsistent /\ Checked(y.op)}}

\* What moves through the network: a message with its data.  The data is told apart by its
\* hash and by the transfer it was meant for, which the program does not know.
Content == [origin : Transfer, hash : Hash]
Packet  == [message : Message, content : Content]

VARIABLES
  operation,     \* operation[p]: the number of p's current operation
  phase,         \* phase[p]: where in it p is
  counters,      \* counters[p][key]: how many messages with that key p had, 0 for no entry
  todo,          \* todo[p]: the rounds left of the loop over the operation's messages
  sending,       \* sending[p]: messages of send tasks that are not done
  network,       \* packets on their way
  serving,       \* packets that a server has given to the consistency checks only
  sent,          \* history: sent[x] is the hash of the data sent for x, or None
  consistency, openRequests, notify, checks, failures, received, requested, confirmed,
  messageBuffer, openReceives, task, result, asked, arrived

CC == INSTANCE Consistency WITH
        Key <- CheckKey, Receivers <- CheckReceivers, Inconsistent <- InconsistentKeys, MaxFailures <- 0
MB == INSTANCE MessageBuffer WITH
        Task <- Transfer, Data <- Content, openRequests <- openReceives

\* What stands for nothing is none of the values.
ASSUME NothingAssumption ==
  /\ None \notin Hash /\ None \notin Transfer /\ None \notin Message /\ None \notin Content
  /\ Absent \notin Hash /\ Absent # None
  /\ Vacant \notin CC!Value

consistencyVars == <<consistency, openRequests, notify, checks, failures, received, requested, confirmed>>
bufferVars == <<messageBuffer, openReceives, task, result, asked, arrived>>
queueVars == <<operation, phase, counters, todo, sending>>
netVars == <<network, serving>>
vars == <<queueVars, netVars, sent, consistencyVars, bufferVars>>

Init ==
  /\ operation = [p \in Party |-> NextOperation(p, 0)]
  /\ phase = [p \in Party |-> "start"]
  /\ counters = [p \in Party |-> [key \in CounterKeys |-> 0]]
  /\ todo = [p \in Party |-> {}]
  /\ sending = [p \in Party |-> {}]
  /\ network = {}
  /\ serving = {}
  /\ sent = [x \in Transfer |-> None]
  /\ CC!Init
  /\ MB!Init

-----------------------------------------------------------------------------
(* The Queue of party p *)

AtEnd(p) == operation[p] > Len(Program)

\* ensure_consistency, before an operation that sends and when the Queue is dropped.
Ensure(p) ==
  /\ phase[p] = "start"
  /\ ~AtEnd(p) => Ensures(p, operation[p])
  /\ phase' = [phase EXCEPT ![p] = "waiting"]
  /\ CC!Wait(p)
  /\ UNCHANGED <<operation, counters, todo, sending, netVars, sent, bufferVars>>

\* p's operation may start: it need not be ensured or ensure_consistency has returned.
MayBegin(p) ==
  \/ phase[p] = "start" /\ ~AtEnd(p) /\ ~Ensures(p, operation[p])
  \/ phase[p] = "waiting" /\ ~AtEnd(p) /\ ~openRequests[p]

\* Mutant: the counter is not advanced within an operation.
NextID_Stale(p, o, e) == <<KeyHash[CounterKey(o, e)], counters[p][CounterKey(o, e)] + 1>>

\* next_message_id for message e of operation o, after those before it.
NextID(p, o, e) ==
  LET key == CounterKey(o, e)
  IN  <<KeyHash[key], counters[p][key] + Cardinality({f \in 1 .. e : CounterKey(o, f) = key})>>

\* Whom the round of a loop that starts x at p is for: the loops of checked operations go
\* over the senders, the others over the other parties.
RoundOf(p, x) == IF Checked(x.op) \/ x.to = p THEN x.from ELSE x.to

\* The rounds of the loop over messages and, within, over parties: the transfers that are
\* started without an await in between.
Rounds(p, o) ==
  {[element |-> x.element, other |-> RoundOf(p, x), id |-> NextID(p, o, x.element),
    transfers |-> {y \in Transfers(o, x.element) :
                     (y.from = p \/ y.to = p) /\ RoundOf(p, y) = RoundOf(p, x)}] :
   x \in {y \in Transfer : y.op = o /\ (y.from = p \/ y.to = p)}}

Earlier(a, b) == a.element < b.element \/ (a.element = b.element /\ a.other < b.other)

\* The loop over the operation's messages, which first gets an identifier for each.
Begin(p) ==
  /\ MayBegin(p)
  /\ LET o == operation[p]
     IN  /\ counters' = [counters EXCEPT ![p] = [key \in DOMAIN @ |->
                           @[key] + Cardinality({e \in DOMAIN Program[o].ends : CounterKey(o, e) = key})]]
         /\ todo' = [todo EXCEPT ![p] = Rounds(p, o)]
  /\ phase' = [phase EXCEPT ![p] = "running"]
  /\ UNCHANGED <<operation, sending, netVars, sent, consistencyVars, bufferVars>>

\* The next round of the loop: ask for a consistency check of what is going to be received,
\* then spawn the receive task, which asks the buffer, and the send tasks.
Loop(p, round) ==
  /\ \A other \in todo[p] \ {round} : Earlier(round, other)
  /\ LET outgoing == {x \in round.transfers : x.from = p}
         incoming == round.transfers \ outgoing
     IN  /\ sending' = [sending EXCEPT ![p] = @ \cup
                          {[message |-> ToMessage(x, round.id), origin |-> x] : x \in outgoing}]
         /\ \/ /\ incoming = {}
               /\ UNCHANGED <<consistencyVars, bufferVars>>
            \/ \E x \in incoming :
                 /\ MB!Receive(x, ToMessage(x, round.id))
                 /\ IF Checked(x.op) THEN CC!Request(p, ToCheckKey(ToMessage(x, round.id)))
                                     ELSE UNCHANGED consistencyVars
  /\ todo' = [todo EXCEPT ![p] = @ \ {round}]
  /\ UNCHANGED <<operation, phase, counters, netVars, sent>>

\* A send task: the client writes the message to a stream and answers.
Send(p, s, h) ==
  /\ s \in sending[p]
  /\ sending' = [sending EXCEPT ![p] = @ \ {s}]
  /\ network' = network \cup {[message |-> s.message, content |-> [origin |-> s.origin, hash |-> h]]}
  /\ sent' = [sent EXCEPT ![s.origin] = h]
  /\ UNCHANGED <<operation, phase, counters, todo, serving, consistencyVars, bufferVars>>

\* collect_tasks: all tasks of the operation are done.
Finish(p) ==
  /\ phase[p] = "running"
  /\ todo[p] = {}
  /\ sending[p] = {}
  /\ \A x \in Transfer : x.op = operation[p] /\ x.to = p => task[x] = "done"
  /\ operation' = [operation EXCEPT ![p] = NextOperation(p, @)]
  /\ phase' = [phase EXCEPT ![p] = "start"]
  /\ UNCHANGED <<counters, todo, sending, netVars, sent, consistencyVars, bufferVars>>

\* Drop for Queue: the runtime goes down with all of p's tasks.  What its client wrote to
\* streams need not have left.
Close(p) ==
  /\ phase[p] = "waiting"
  /\ AtEnd(p)
  /\ ~openRequests[p]
  /\ phase' = [phase EXCEPT ![p] = "closed"]
  /\ \E packets \in SUBSET {n \in network : n.message.sender = p},
        lost \in SUBSET {c \in checks : c.from = p} :
       /\ packets \cup lost # {} => LossOnClose
       /\ network' = network \ packets
       /\ checks' = checks \ lost
  /\ UNCHANGED <<operation, counters, todo, sending, serving, sent, bufferVars,
                 consistency, openRequests, notify, failures, received, requested, confirmed>>

-----------------------------------------------------------------------------
(* The server and the consistency task of party p *)

Running(p) == phase[p] # "closed"

\* Mutant: a task for every stream, not for every connection.
Free_Always(p, q) == TRUE

\* p's server has no message from q between the tasks that it hands it on to.
Free(p, q) == \A n \in serving : n.message.sender # q \/ n.message.receiver # p

\* handle_connection with checked data: it goes to the consistency checks first.
ServeData(p, n) ==
  /\ n.message.receiver = p
  /\ Running(p)
  /\ Free(p, n.message.sender)
  /\ SupportsCheck(n.message.kind)
  /\ network' = network \ {n}
  /\ serving' = serving \cup {n}
  /\ CC!ReceivedData(p, ToCheckKey(n.message), n.content.hash)
  /\ UNCHANGED <<queueVars, sent, bufferVars>>

\* Then, or at once when it is not checked, the data goes to the message buffer.
ServeBuffer(p, n) ==
  /\ n.message.receiver = p
  /\ Running(p)
  /\ \/ n \in serving
     \/ /\ n \in network
        /\ Free(p, n.message.sender)
        /\ ~SupportsCheck(n.message.kind)
  /\ network' = network \ {n}
  /\ serving' = serving \ {n}
  /\ MB!Received(n.message, n.content)
  /\ UNCHANGED <<queueVars, sent, consistencyVars>>

\* handle_connection with a check.
ServeCheck(p, c) ==
  /\ Running(p)
  /\ Free(p, c.from)
  /\ CC!ReceivedCheck(p, c)
  /\ UNCHANGED <<queueVars, netVars, sent, bufferVars>>

\* The consistency task tells another receiver.
Notify(p) ==
  /\ Running(p)
  /\ \E k \in CheckKey : \E q \in notify[p][k] : CC!NotifyParty(p, k, q)
  /\ UNCHANGED <<queueVars, netVars, sent, bufferVars>>

\* What the sender of s may send; the data of one broadcast should be the same for all.
Payload(s) == IF s.origin.op \in Inconsistent THEN Hash ELSE {CHOOSE h \in Hash : TRUE}

\* What one of p's tasks does.
Step(p) ==
  \/ Ensure(p)
  \/ Begin(p)
  \/ \E round \in todo[p] : Loop(p, round)
  \/ \E s \in sending[p] : \E h \in Payload(s) : Send(p, s, h)
  \/ Finish(p)
  \/ Close(p)
  \/ \E n \in network : ServeData(p, n)
  \/ \E n \in network \cup serving : ServeBuffer(p, n)
  \/ \E c \in checks : ServeCheck(p, c)
  \/ Notify(p)

AllClosed == \A p \in Party : phase[p] = "closed"

Next == \E p \in Party : Step(p)

\* The runtime runs every task that can run, and messages arrive.
Fairness == \A p \in Party : WF_vars(Step(p))

Spec == Init /\ [][Next]_vars /\ Fairness

-----------------------------------------------------------------------------
(* Properties *)

\* The Queue's and the network's state hold values of the code's types.
TypeOK ==
  /\ operation \in [Party -> 1 .. Len(Program) + 1]
  /\ phase \in [Party -> {"start", "waiting", "running", "closed"}]
  /\ \A p \in Party : \A round \in todo[p] : round.transfers \subseteq Transfer
  /\ \A p \in Party : \A s \in sending[p] : s.message \in Message /\ s.origin \in Transfer
  /\ network \subseteq Packet
  /\ serving \subseteq Packet
  /\ \A n, m \in serving :
       n.message.sender = m.message.sender /\ n.message.receiver = m.message.receiver => n = m
  /\ CC!TypeOK
  /\ MB!TypeOK

\* Every receive task gets the data that was sent for it, once; a party goes on to the next
\* operation with all its data; and it sends nothing before all receivers of what it got in
\* earlier operations got the same.
Exchanged == INSTANCE Exchange WITH
  Data <- Hash,
  Broadcast <- SameSource,
  held <- [x \in Transfer |-> IF result[x] = None THEN None
                              ELSE IF result[x].origin = x THEN result[x].hash
                              ELSE Absent]  \* the data of another transfer

Exchanges == Exchanged!Spec

\* When a Queue is gone (Drop, queue.rs 679-685), all that it received is the same at all
\* receivers.
ClosedAgree == \A p \in Party : phase[p] = "closed" => \A k \in requested[p] : CC!AllAgree(p, k)

\* Programs that are the same everywhere come to their end: no set of operations and
\* consistency checks makes parties wait for each other in a circle.
Termination == <>AllClosed

\* ensure_consistency returns: with Ok, or with the error that names the inconsistency
\* ("Inconsistent collective communication", errors.rs 104-105).
EnsureReturns == \A p \in Party : (phase[p] = "waiting") ~> (phase[p] # "waiting")

\* What a party sends is held by its receiver in the end ("After: for j in [1..n]: Pj holds
\* x", net.rs 66-74).
Held == \A x \in Transfer : (sent[x] # None) ~> (result[x] # None)

=============================================================================
