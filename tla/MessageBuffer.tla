----------------------------- MODULE MessageBuffer -----------------------------
(***************************************************************************)
(* The task that brings received data and receive requests together        *)
(* (hmpc-rs/src/net/message_buffer.rs).                                    *)
(*                                                                         *)
(* For every message a Queue is to receive it spawns a receive task, which *)
(* asks for the message and waits on a oneshot channel of its own.  The    *)
(* server hands on data as it comes in.  Either may come first.  A message *)
(* names its receiver, so the maps of all parties are one map here.        *)
(*                                                                         *)
(* Sending a command and taking it from the channel is one step: the       *)
(* senders see nothing of the buffer but the answer to a request.          *)
(***************************************************************************)
EXTENDS Naturals, FiniteSets

CONSTANTS
  Message,   \* message metadata: kind, datatype, sender, receiver, id and size
  Task,      \* receive tasks
  Data,      \* data that may come in, each piece at most once
  None       \* Option::None

Status == {"idle", "waiting", "done", "closed", "abandoned"}

ASSUME MessageBufferAssumption ==
  /\ None \notin Task /\ None \notin Message
  /\ None \notin Data

VARIABLES
  messageBuffer,  \* messageBuffer[m]: data that waits for a request, or None
  openRequests,   \* openRequests[m]: the task whose channel the buffer holds, or None
  task,           \* task[t]: how far t has come; closed means that its channel was dropped
  result,         \* result[t]: the data that t got, or None
  asked,          \* history: asked[t] is the message that t asked for, or None
  arrived         \* history: the pieces of data that came in, and for which messages

vars == <<messageBuffer, openRequests, task, result, asked, arrived>>

-----------------------------------------------------------------------------

Init ==
  /\ messageBuffer = [m \in Message |-> None]
  /\ openRequests = [m \in Message |-> None]
  /\ task = [t \in Task |-> "idle"]
  /\ result = [t \in Task |-> None]
  /\ asked = [t \in Task |-> None]
  /\ arrived = {}

\* Mutant: answers without looking whether there is data.
Receive_NoLook(t, m) ==
  /\ task[t] = "idle"
  /\ asked' = [asked EXCEPT ![t] = m]
  /\ task' = [task EXCEPT ![t] = "done"]
  /\ result' = [result EXCEPT ![t] = messageBuffer[m]]
  /\ messageBuffer' = [messageBuffer EXCEPT ![m] = None]
  /\ UNCHANGED <<openRequests, arrived>>

\* Mutant: the data stays in the buffer.
Receive_Get(t, m) ==
  /\ task[t] = "idle"
  /\ messageBuffer[m] # None
  /\ asked' = [asked EXCEPT ![t] = m]
  /\ task' = [task EXCEPT ![t] = "done"]
  /\ result' = [result EXCEPT ![t] = messageBuffer[m]]
  /\ UNCHANGED <<messageBuffer, openRequests, arrived>>

\* Mutant: a task that asks for a message in the buffer waits, too.
Receive_Blind(t, m) ==
  /\ task[t] = "idle"
  /\ openRequests[m] = None
  /\ asked' = [asked EXCEPT ![t] = m]
  /\ task' = [task EXCEPT ![t] = "waiting"]
  /\ openRequests' = [openRequests EXCEPT ![m] = t]
  /\ UNCHANGED <<messageBuffer, result, arrived>>

\* Mutant: a request for a message that is waited for is not stored.
Receive_KeepFirst(t, m) ==
  /\ task[t] = "idle"
  /\ messageBuffer[m] = None
  /\ asked' = [asked EXCEPT ![t] = m]
  /\ task' = [task EXCEPT ![t] = "waiting"]
  /\ openRequests' = [openRequests EXCEPT ![m] = IF @ = None THEN t ELSE @]
  /\ UNCHANGED <<messageBuffer, result, arrived>>

\* DataCommand::Receive.  The task may have been aborted with its command in the channel.
\* Data for a task that is gone is dropped.  A request that is replaced drops its channel,
\* which closes.
Receive(t, m) ==
  /\ task[t] = "idle" \/ (task[t] = "abandoned" /\ asked[t] = None)
  /\ asked' = [asked EXCEPT ![t] = m]
  /\ \/ /\ messageBuffer[m] # None
        /\ messageBuffer' = [messageBuffer EXCEPT ![m] = None]
        /\ \/ /\ task[t] = "idle"
              /\ task' = [task EXCEPT ![t] = "done"]
              /\ result' = [result EXCEPT ![t] = messageBuffer[m]]
           \/ /\ task[t] = "abandoned"
              /\ UNCHANGED <<task, result>>
        /\ UNCHANGED openRequests
     \/ /\ messageBuffer[m] = None
        /\ openRequests' = [openRequests EXCEPT ![m] = t]
        /\ task' = [u \in Task |-> IF u = t /\ task[u] = "idle" THEN "waiting"
                                   ELSE IF u = openRequests[m] /\ task[u] = "waiting" THEN "closed"
                                   ELSE task[u]]
        /\ UNCHANGED <<messageBuffer, result>>
  /\ UNCHANGED arrived

\* DataCommand::Received.  Data for a task that is gone is dropped, and so is data that
\* newer data for the same message replaces.
Received(m, d) ==
  /\ \A a \in arrived : a.data # d
  /\ arrived' = arrived \cup {[message |-> m, data |-> d]}
  /\ \/ /\ openRequests[m] # None
        /\ openRequests' = [openRequests EXCEPT ![m] = None]
        /\ \/ /\ task[openRequests[m]] = "waiting"
              /\ task' = [task EXCEPT ![openRequests[m]] = "done"]
              /\ result' = [result EXCEPT ![openRequests[m]] = d]
           \/ /\ task[openRequests[m]] # "waiting"
              /\ UNCHANGED <<task, result>>
        /\ UNCHANGED messageBuffer
     \/ /\ openRequests[m] = None
        /\ messageBuffer' = [messageBuffer EXCEPT ![m] = d]
        /\ UNCHANGED <<openRequests, task, result>>
  /\ UNCHANGED asked

\* The future of a collective operation is dropped, and its JoinSet aborts the tasks.
Abandon(t) ==
  /\ task[t] \in {"idle", "waiting"}
  /\ task' = [task EXCEPT ![t] = "abandoned"]
  /\ UNCHANGED <<messageBuffer, openRequests, result, asked, arrived>>

Next ==
  \/ \E t \in Task : Abandon(t) \/ \E m \in Message : Receive(t, m)
  \/ \E m \in Message, d \in Data : Received(m, d)

Spec == Init /\ [][Next]_vars

-----------------------------------------------------------------------------
(* Properties *)

\* The maps and tasks hold values of the code's types.
TypeOK ==
  /\ messageBuffer \in [Message -> Data \cup {None}]
  /\ openRequests \in [Message -> Task \cup {None}]
  /\ task \in [Task -> Status]
  /\ result \in [Task -> Data \cup {None}]
  /\ \A t \in Task : task[t] = "done" <=> result[t] # None
  /\ asked \in [Task -> Message \cup {None}]
  /\ arrived \subseteq [message : Message, data : Data]

\* A waiting receive task can be answered: the buffer holds its channel.
NoStrandedTask ==
  \A t \in Task : task[t] = "waiting" => \E m \in Message : openRequests[m] = t

\* What was given to one task is not given to another one, and not kept.
DeliveredOnce ==
  /\ \A t, u \in Task : result[t] = result[u] /\ result[t] # None => t = u
  /\ \A t \in Task, m \in Message : result[t] = messageBuffer[m] => result[t] = None
  /\ \A m, n \in Message : messageBuffer[m] = messageBuffer[n] /\ messageBuffer[m] # None => m = n

\* As Queue uses messages, with one task for each, data and task meet in whatever order
\* they come: a task does not wait when data for its message has come in.
Met ==
  \A t \in Task :
    task[t] = "waiting" /\ (\A u \in Task : asked[u] = asked[t] => u = t) =>
      \A a \in arrived : a.message # asked[t]

\* The inductive invariant behind these.

\* Data and a request for it never wait for each other (message_buffer.rs 19-54).
NeverBoth == \A m \in Message : messageBuffer[m] = None \/ openRequests[m] = None

\* A piece of data comes in once, and is found only at the message it came in for.
FromArrival ==
  /\ \A a, b \in arrived : a.data = b.data => a = b
  /\ \A m \in Message : messageBuffer[m] # None => [message |-> m, data |-> messageBuffer[m]] \in arrived
  /\ \A t \in Task : result[t] # None => [message |-> asked[t], data |-> result[t]] \in arrived

\* A task has asked for a message or has not begun; a request belongs to a task that did.
RequestsOfTasks ==
  /\ \A t \in Task : task[t] = "idle" => asked[t] = None
  /\ \A t \in Task : task[t] \notin {"idle", "abandoned"} => asked[t] \in Message
  /\ \A t \in Task : task[t] = "waiting" => openRequests[asked[t]] = t
  /\ \A m \in Message : openRequests[m] # None =>
       asked[openRequests[m]] = m /\ task[openRequests[m]] \in {"waiting", "abandoned"}

\* Data is in the buffer as long as no task asks for it.
Unasked ==
  \A a \in arrived : messageBuffer[a.message] = None => \E t \in Task : asked[t] = a.message

BufferInv ==
  TypeOK /\ NeverBoth /\ FromArrival /\ RequestsOfTasks /\ Unasked /\ Met /\ DeliveredOnce

=============================================================================
