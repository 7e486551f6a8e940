------------------------------- MODULE Messages -------------------------------
(***************************************************************************)
(* What is between the tasks of a Queue and its peers: the message buffer, *)
(* MessageBuffer, and the connections of several protocol runs that hand   *)
(* on data to it, Connections.  A behaviour is one of the buffer or one of *)
(* Queues and their connections, and the variables of the other are at     *)
(* their initial values or Idle.                                           *)
(***************************************************************************)
EXTENDS MessageBuffer

CONSTANTS
  Party, Numerals, Scenarios,  \* those of Connections
  Idle                         \* of variables that a behaviour is not about

VARIABLES
  part,   \* whose behaviour it is
  scenario, run, queue, client, commands, outgoing, message, streams, lost, faults, got

Net == INSTANCE Connections

netVars == <<scenario, run, queue, client, commands, outgoing, message, streams, lost, faults, got>>

------------------------------------------------------------------------------

NetIdle ==
  /\ scenario = Idle /\ run = Idle /\ queue = Idle /\ client = Idle /\ commands = Idle
  /\ outgoing = Idle /\ message = Idle /\ streams = Idle /\ lost = Idle /\ faults = Idle
  /\ got = Idle

MessagesInit ==
  /\ Init
  /\ \/ part = "buffer" /\ NetIdle
     \/ part = "connections" /\ Net!Init

MessagesNext ==
  \/ part = "buffer" /\ Next /\ UNCHANGED <<part, netVars>>
  \/ part = "connections" /\ Net!Next /\ UNCHANGED <<part, vars>>

MessagesFairness == \A p \in Party : WF_netVars(part = "connections" /\ Net!Step(p))

MessagesSpec ==
  MessagesInit /\ [][MessagesNext]_<<part, vars, netVars>> /\ MessagesFairness

------------------------------------------------------------------------------
(* Properties *)

\* The types of both
MessagesTypeOK == TypeOK /\ (part = "connections" => Net!TypeOK)

\* If the runs have sessions of their own, a Queue gets messages of its own run only.
OwnRun == part = "connections" => Net!OwnRun

\* A message that is said to have failed has not been sent and will not arrive.
FailedIsLost == part = "connections" => Net!FailedIsLost

\* Each send task is answered in the end, and what it has sent is handed on if both Queues and
\* their connection last, which it does not when the sender's client panics.
Settled == <>[](part = "connections" => Net!Quiet)
===============================================================================
