----------------------------- MODULE Backpressure -----------------------------
(***************************************************************************)
(* The bounded channels and streams between the tasks of collective        *)
(* communication: one multi-broadcast (hmpc-rs/src/net/queue.rs) of new    *)
(* Queues, from its loop over the messages on, after which the Queues are  *)
(* dropped.                                                                *)
(*                                                                         *)
(* A channel between tasks holds CHANNEL_CAPACITY commands.  A connection  *)
(* lets its client have a limited number of streams that the server has    *)
(* not read yet.  Who finds no room waits:                                 *)
(*   - the Queue and the servers, until their last command is in the       *)
(*     channel of the consistency task; they get in in their order;        *)
(*   - the consistency task, which takes no command meanwhile, until the   *)
(*     client has written its check to a stream;                           *)
(*   - the client has a task for every message, which waits for a stream.  *)
(* The client and the message buffer always take the next command, so that *)
(* their channels keep nobody waiting and are left out.                    *)
(*                                                                         *)
(* The consistency task is that of module Consistency, here with its       *)
(* channel.  All data is consistent.                                       *)
(***************************************************************************)
EXTENDS Naturals, FiniteSets, Sequences

CONSTANTS
  Party,     \* the communicator
  Sender,    \* Sender[k]: the sender of broadcast k, a sequence
  Capacity,  \* CHANNEL_CAPACITY
  Credit,    \* streams of one connection that may be open and not read
  Hash, None, Absent, Vacant  \* see Consistency

ASSUME BackpressureAssumption ==
  /\ IsFiniteSet(Party)
  /\ Sender \in Seq(Party)
  /\ Capacity \in Nat \ {0}
  /\ Credit \in Nat \ {0}

Key == DOMAIN Sender

Others(p) == Party \ {p}

\* What moves from one party to another: data, or the check of the data of broadcast k.
Message == [type : {"data", "check"}, key : Key]

\* ConsistencyCheckCommand, with the party it comes from.
Command == [type : {"request", "data", "check", "wait"}, key : Key \cup {0}, from : Party]

VARIABLES
  phase,    \* phase[p]: where p's Queue is
  next,     \* next[p]: the next broadcast of its loop over messages
  channel,  \* channel[p]: p's commands for its consistency task, in the channel or waiting
  opening,  \* opening[p][q]: messages of p's client that wait for a stream to q
  streams,  \* streams[p][q]: what p has written to streams that q's server has not read
  read,     \* read[p]: the broadcasts whose data p's server has read
  consistency, openRequests, notify, checks, failures, received, requested, confirmed

CC == INSTANCE Consistency WITH
        Receivers <- [k \in Key |-> Others(Sender[k])], Inconsistent <- {}, MaxFailures <- 0

\* What stands for nothing is none of the values.
ASSUME NothingAssumption ==
  /\ Hash # {} /\ None \notin Hash
  /\ Absent \notin Hash /\ Absent # None
  /\ Vacant \notin CC!Value

queueVars == <<phase, next>>
netVars == <<opening, streams, read>>
consistencyVars == <<consistency, openRequests, notify, checks, failures, received, requested, confirmed>>
vars == <<queueVars, channel, netVars, consistencyVars>>

Init ==
  /\ phase = [p \in Party |-> "loop"]
  /\ next = [p \in Party |-> 1]
  /\ channel = [p \in Party |-> <<>>]
  /\ opening = [p \in Party |-> [q \in Party |-> {}]]
  /\ streams = [p \in Party |-> [q \in Party |-> <<>>]]
  /\ read = [p \in Party |-> {}]
  /\ CC!Init

Running(p) == phase[p] # "closed"

Put(p, command) == channel' = [channel EXCEPT ![p] = Append(@, command)]

\* Mutant: nobody waits for room.
Admitted_Always(p, q) == TRUE

\* What q, p's Queue (q = p) or the server of p's connection from q, sent to p's consistency
\* task is in the channel: the send has returned.
Admitted(p, q) == \A i \in DOMAIN channel[p] : channel[p][i].from = q => i <= Capacity

-----------------------------------------------------------------------------
(* The Queue of party p *)

\* Mutant: the last party is forgotten.
Broadcast_NotAll(p) ==
  /\ phase[p] = "loop"
  /\ Admitted(p, p)
  /\ next[p] \in Key
  /\ Sender[next[p]] = p
  /\ opening' = [opening EXCEPT ![p] = [q \in Party |->
                   IF q = p \/ q = Cardinality(Party) THEN @[q]
                   ELSE @[q] \cup {[type |-> "data", key |-> next[p]]}]]
  /\ next' = [next EXCEPT ![p] = @ + 1]
  /\ UNCHANGED <<phase, channel, streams, read, consistencyVars>>

\* The loop's body for a broadcast of p: a send task, and so a task of the client, for every
\* receiver.
Broadcast(p) ==
  /\ phase[p] = "loop"
  /\ Admitted(p, p)
  /\ next[p] \in Key
  /\ Sender[next[p]] = p
  /\ opening' = [opening EXCEPT ![p] = [q \in Party |->
                   IF q = p THEN @[q] ELSE @[q] \cup {[type |-> "data", key |-> next[p]]}]]
  /\ next' = [next EXCEPT ![p] = @ + 1]
  /\ UNCHANGED <<phase, channel, streams, read, consistencyVars>>

\* The loop's body for a broadcast of another party: check_consistency, and a receive task.
Receive(p) ==
  /\ phase[p] = "loop"
  /\ Admitted(p, p)
  /\ next[p] \in Key
  /\ Sender[next[p]] # p
  /\ Put(p, [type |-> "request", key |-> next[p], from |-> p])
  /\ next' = [next EXCEPT ![p] = @ + 1]
  /\ UNCHANGED <<phase, netVars, consistencyVars>>

\* collect_tasks, when all data is written and all data has been handed on to the message
\* buffer; then the Queue is dropped and waits in ensure_consistency.
Drop(p) ==
  /\ phase[p] = "loop"
  /\ Admitted(p, p)
  /\ next[p] \notin Key
  /\ \A q \in Party : \A m \in opening[p][q] : m.type # "data"
  /\ \A k \in Key : Sender[k] # p => k \in read[p]
  /\ \A i \in DOMAIN channel[p] : channel[p][i].type = "data" => i <= Capacity
  /\ Put(p, [type |-> "wait", key |-> 0, from |-> p])
  /\ phase' = [phase EXCEPT ![p] = "wait"]
  /\ UNCHANGED <<next, netVars, consistencyVars>>

\* The consistency task has answered, and the Queue is gone.
Close(p) ==
  /\ phase[p] = "wait"
  /\ \A i \in DOMAIN channel[p] : channel[p][i].type # "wait"
  /\ ~openRequests[p]
  /\ phase' = [phase EXCEPT ![p] = "closed"]
  /\ UNCHANGED <<next, channel, netVars, consistencyVars>>

-----------------------------------------------------------------------------
(* The consistency task of party p *)

\* It takes the next command.
Take(p) ==
  /\ Running(p)
  /\ channel[p] # <<>>
  /\ channel' = [channel EXCEPT ![p] = Tail(@)]
  /\ LET c == Head(channel[p])
     IN  \/ c.type = "request" /\ CC!Request(p, c.key)
         \/ c.type = "data" /\ \E h \in CC!Payload(c.key) : CC!ReceivedData(p, c.key, h)
         \/ /\ c.type = "check"
            /\ \E check \in checks :
                 /\ check.from = c.from /\ check.to = p /\ check.key = c.key
                 /\ CC!ReceivedCheck(p, check)
         \/ c.type = "wait" /\ CC!Wait(p)
  /\ UNCHANGED <<queueVars, netVars>>

\* The check that it is sending is with the client.
Asking(p) == \E q \in Party : \E m \in opening[p][q] : m.type = "check"

\* notify_parties: it gives the client a check for the next receiver.
Ask(p) ==
  /\ Running(p)
  /\ ~Asking(p)
  /\ \E k \in Key : \E q \in notify[p][k] :
       opening' = [opening EXCEPT ![p][q] = @ \cup {[type |-> "check", key |-> k]}]
  /\ UNCHANGED <<queueVars, channel, streams, read, consistencyVars>>

-----------------------------------------------------------------------------
(* Client and server of party p *)

\* A task of the client gets its stream, writes the message and answers.
Write(p, q, m) ==
  /\ Running(p)
  /\ m \in opening[p][q]
  /\ Len(streams[p][q]) < Credit
  /\ opening' = [opening EXCEPT ![p][q] = @ \ {m}]
  /\ streams' = [streams EXCEPT ![p][q] = Append(@, m)]
  /\ IF m.type = "check" THEN CC!NotifyParty(p, m.key, q) ELSE UNCHANGED consistencyVars
  /\ UNCHANGED <<queueVars, channel, read>>

\* The server of p's connection from q reads the next stream and begins to hand on what it
\* has read.
Read(p, q) ==
  /\ Running(p)
  /\ Admitted(p, q)
  /\ streams[q][p] # <<>>
  /\ LET m == Head(streams[q][p])
     IN  /\ Put(p, [type |-> m.type, key |-> m.key, from |-> q])
         /\ read' = [read EXCEPT ![p] = IF m.type = "data" THEN @ \cup {m.key} ELSE @]
  /\ streams' = [streams EXCEPT ![q][p] = Tail(@)]
  /\ UNCHANGED <<queueVars, opening, consistencyVars>>

Step(p) ==
  \/ Broadcast(p)
  \/ Receive(p)
  \/ Drop(p)
  \/ Close(p)
  \/ Take(p)
  \/ Ask(p)
  \/ \E q \in Party : Read(p, q) \/ \E m \in opening[p][q] : Write(p, q, m)

Next == \E p \in Party : Step(p)

\* The runtime runs every task that can run.
Fairness == \A p \in Party : WF_vars(Step(p))

Spec == Init /\ [][Next]_vars /\ Fairness

-----------------------------------------------------------------------------
(* Properties *)

\* Channels, streams and tasks hold values of the code's types; beyond the channel's
\* capacity only one command waits for each task that sends.
TypeOK ==
  /\ phase \in [Party -> {"loop", "wait", "closed"}]
  /\ next \in [Party -> 1 .. Len(Sender) + 1]
  /\ \A p \in Party : channel[p] \in Seq(Command) /\ Len(channel[p]) <= Capacity + Cardinality(Party)
  /\ opening \in [Party -> [Party -> SUBSET Message]]
  /\ \A p, q \in Party : streams[p][q] \in Seq(Message) /\ Len(streams[p][q]) <= Credit
  /\ read \in [Party -> SUBSET Key]
  /\ CC!TypeOK

AllClosed == \A p \in Party : phase[p] = "closed"

\* However small the channels are, the tasks do not wait for each other in a circle as long
\* as streams can be had: all data arrives, all checks pass and all Queues are dropped.
Termination == <>AllClosed

\* When the Queues are gone, nothing is left in a channel, on a stream or with a task: no
\* party is told something that it did not wait for.
NothingLeft ==
  AllClosed => \A p, q \in Party : channel[p] = <<>> /\ opening[p][q] = {} /\ streams[p][q] = <<>>

\* All parties receive the data of all broadcasts ("All parties receive the same data",
\* docs/networking.md 132), however many a multi-broadcast has.
AllHeld == <>(\A p \in Party : \A k \in Key : Sender[k] # p => k \in read[p])

=============================================================================
