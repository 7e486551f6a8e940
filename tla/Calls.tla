--------------------------------- MODULE Calls ---------------------------------
(***************************************************************************)
(* A collective call on its way from C++ to the tasks of the Rust Queue:   *)
(* hmpc/net/queue.hpp takes its values apart into metadata and pointers,   *)
(* hmpc-rs/src/ffi/queue.rs checks what comes through the C interface, and *)
(* hmpc-rs/src/net/queue.rs spawns a task for each message, joins them and *)
(* returns a code that C++ throws as an exception.                         *)
(*                                                                         *)
(* Every party composes its own call.  That all of them mean the same      *)
(* messages, and that each piece of data gets to where the result has room *)
(* for it, depends on six descriptions of an operation, those of senders   *)
(* and of receivers, being in agreement.                                   *)
(*                                                                         *)
(* Other programs call the C interface, too: a behaviour is either a C++   *)
(* program or the checks of a single call with any arguments.              *)
(***************************************************************************)
EXTENDS Structures, FiniteSets, TLC

CONSTANTS
  Party,        \* PartyID
  Programs,     \* the programs: sequences of operations, which all parties run
  Requests,     \* calls of the C interface by other programs
  MaxFailures   \* how many tasks may fail

ASSUME CallsAssumption == Party \subseteq Nat \ {0} /\ MaxFailures \in Nat

VARIABLES
  program,   \* the operations
  current,   \* current[p]: number of p's operation
  stage,     \* stage[p]: where in it p is
  request,   \* request[p]: the arguments at the C interface
  memory,    \* memory[p]: what is at the places that p's pointers point to
  counters,  \* counters[p]: how many messages of each key p has had
  tasks,     \* tasks[p]: send and receive tasks
  network,   \* messages with their data that no task has taken
  verdict,   \* verdict[p]: the code of p's call
  failed     \* failed[p]: how many tasks of p's call have failed

vars == <<program, current, stage, request, memory, counters, tasks, network, verdict, failed>>

Errc == {"ok", "invalid_handle", "invalid_pointer", "invalid_size", "invalid_metadata",
         "invalid_communicator", "error", "multiple_errors"}

------------------------------------------------------------------------------
(* Operations.  A root is the sender of a broadcast or the receiver of a gather; the other
   kinds have none, 0.  Only an extended all-gather has receivers that are not senders. *)

RootOf(op, v) == IF op.kind \in {"broadcast", "gather"} THEN op.roots[v] ELSE 0

SendersOf(op, root)   == IF op.kind = "broadcast" THEN {root} ELSE op.senders
ReceiversOf(op, root) == IF op.kind = "gather" THEN {root} ELSE op.receivers

Single(op) == Len(op.values) = 1
RootsOf(op) == {op.roots[v] : v \in DOMAIN op.roots}
Members(op) == op.senders \cup op.receivers \cup RootsOf(op)

\* requires and static_assert of the overloads of queue.hpp, and what types they take
BroadcastCompiles(op, p) ==
  /\ RootsOf(op) = {p} \/ (p \notin RootsOf(op) /\ p \in op.receivers)
  /\ \A v \in DOMAIN op.values : ~op.values[v].structure

GatherCompiles(op, p) ==
  /\ RootsOf(op) # {p} => p \notin RootsOf(op) /\ p \in op.senders
  /\ Single(op) => ~op.values[1].structure
  /\ ~Single(op) /\ RootsOf(op) = {p} => p \notin op.senders

AllGatherCompiles(op, p) ==
  /\ op.senders = op.receivers => p \in op.senders
  /\ p \notin op.senders /\ Single(op) => ~op.values[1].structure

AllToAllCompiles(op, p) == p \in op.senders

Compiles(op, p) ==
  \/ op.kind = "broadcast"  /\ BroadcastCompiles(op, p)
  \/ op.kind = "gather"     /\ GatherCompiles(op, p)
  \/ op.kind = "all_gather" /\ AllGatherCompiles(op, p)
  \/ op.kind = "all_to_all" /\ AllToAllCompiles(op, p)

\* Contents of places: who made the data in which operation, for which field, and for whom.
Content(p, o, field, to) == [from |-> p, operation |-> o, field |-> field, to |-> to]
Garbage == Content(0, 0, "", 0)

\* The place of field `field` from, or for, a party; all-to-all has separate ones to send.
Place(o, field, party, outgoing) ==
  [operation |-> o, field |-> field, party |-> party, outgoing |-> outgoing]

At(p, place) == IF place \in DOMAIN memory[p] THEN memory[p][place] ELSE Garbage

\* The values that p has of operation o: its own, in the storage of the result if it gets one.
OwnPlaces(p, o) ==
  LET op == program[o]
  IN  UNION {
        {Place(o, tensor.name, p, FALSE) :
           tensor \in {t \in ToSet(Tensors(op.values[v])) : p \in SendersOf(op, RootOf(op, v))}}
        \cup
        {Place(o, tensor.name, q, TRUE) :
           tensor \in ToSet(Tensors(op.values[v])), q \in IF op.kind = "all_to_all" THEN op.senders ELSE {}}
        : v \in DOMAIN op.values}

Own(p, o) ==
  [place \in OwnPlaces(p, o) |->
     Content(p, o, place.field, IF program[o].kind = "all_to_all" THEN place.party ELSE 0)]

------------------------------------------------------------------------------
(* C++: metadata and pointers *)

Sorted(S) == SetToSortSeq(S, <)

\* scan_range of a multi-gather: the root of a value for each of its fields.
ExtendedRoots(op) ==
  FlattenSeq([v \in DOMAIN op.values |->
    [f \in 1 .. structure_fields(op.values[v]) |-> RootOf(op, v)]])

Metadata(op) ==
  [i \in 1 .. Fields(op.values) |->
     LET tensor == at(i - 1, op.values)
     IN  [datatype |-> tensor.datatype, size |-> tensor.size, root |-> ExtendedRoots(op)[i]]]

\* The parties that the accessors of a message are for, one after the other.
RowOf(op, p, root) ==
  CASE op.kind = "broadcast"               -> <<root>>
    [] op.kind = "gather" /\ root # p      -> <<p>>
    [] op.kind = "gather" /\ root = p      -> Sorted(op.senders)
    [] op.kind \in {"all_gather", "all_to_all"} -> Sorted(op.senders)

Rows(p, o, outgoing) ==
  LET op == program[o]
  IN  [i \in 1 .. Fields(op.values) |->
         LET row == RowOf(op, p, ExtendedRoots(op)[i])
         IN  [c \in DOMAIN row |-> Place(o, Accessor(i - 1, op.values).name, row[c], outgoing)]]

Span(items) == [null |-> FALSE, items |-> items]

\* Mutant: the extents are swapped.
to_2d_ffi_Swapped(rows) ==
  [null |-> FALSE, items |-> FlattenSeq(rows), outer |-> Len(rows[1]), inner |-> Len(rows)]

to_2d_ffi(rows) ==
  [null |-> FALSE, items |-> FlattenSeq(rows), outer |-> Len(rows), inner |-> Len(rows[1])]

Multi(op) == ~Single(op) \/ op.values[1].structure

\* An all-to-all of one tensor for each party does not call the C interface.
Exchanges(op) == op.kind = "all_to_all" => Multi(op)

Composed(p, o) ==
  LET op == program[o]
  IN  [kind      |-> op.kind,
       multi     |-> Multi(op),
       handle    |-> TRUE,
       messages  |-> Span(Metadata(op)),
       senders   |-> Span(Sorted(op.senders)),
       receivers |-> Span(Sorted(op.receivers)),
       data      |-> to_2d_ffi(Rows(p, o, op.kind = "all_to_all")),
       result    |-> to_2d_ffi(Rows(p, o, FALSE))]

------------------------------------------------------------------------------
(* The C interface *)

IsNull(span) == span.items # <<>> /\ span.null

Communicator(span) == ToSet(span.items)

\* Extents of the Vec2d: data of one message is the only row, and a span that has an extent
\* of zero gives an empty one.
Extents(c, span) ==
  IF ~c.multi
  THEN <<1, Len(span.items)>>
  ELSE IF span.outer = 0 \/ span.inner = 0 THEN <<0, 0>> ELSE <<span.outer, span.inner>>

Outer(c, span) == Extents(c, span)[1]
Inner(c, span) == Extents(c, span)[2]

Roots(c) == {c.messages.items[i].root : i \in DOMAIN c.messages.items}

AnyNull(c) ==
  \/ IsNull(c.messages) \/ IsNull(c.senders) \/ IsNull(c.receivers) \/ IsNull(c.data)
  \/ c.kind = "all_to_all" /\ IsNull(c.result)

\* check_size_eq of the number of messages
MessagesMatch(c) ==
  /\ c.kind = "broadcast" => Len(c.messages.items) = Len(c.data.items)
  /\ c.kind # "broadcast" => Len(c.messages.items) = Outer(c, c.data)
  /\ c.kind = "all_to_all" => Len(c.messages.items) = Outer(c, c.result)

\* Mutant: only the receiver's sizes are checked.
GatherMatches_Receiver(c, p) ==
  Roots(c) \subseteq {p} => Inner(c, c.data) = Cardinality(Communicator(c.senders))

\* check_size_eq of the number of parties
GatherMatches(c, p) ==
  /\ Roots(c) \subseteq {p} => Inner(c, c.data) = Cardinality(Communicator(c.senders))
  /\ p \notin Roots(c) => Inner(c, c.data) = 1

AllMatches(c) ==
  /\ Inner(c, c.data) = Cardinality(Communicator(c.senders))
  /\ c.kind = "all_to_all" => Inner(c, c.result) = Cardinality(Communicator(c.senders))

PartiesMatch(c, p) ==
  /\ c.kind = "gather" => GatherMatches(c, p)
  /\ c.kind \in {"all_gather", "all_to_all"} => AllMatches(c)

Subset(c) == Communicator(c.senders) \subseteq Communicator(c.receivers)

\* The checks in their order, with what is returned if they fail.
Checks(c, p) ==
  << <<c.handle,                                                  "invalid_handle">>,
     <<~AnyNull(c),                                               "invalid_pointer">>,
     <<c.multi => MessagesMatch(c),                               "invalid_size">>,
     <<c.kind = "gather" => p \notin Roots(c) \/ Roots(c) = {p},  "invalid_metadata">>,
     <<PartiesMatch(c, p),                                        "invalid_size">>,
     <<c.kind = "all_gather" => Subset(c),                        "invalid_communicator">> >>

Checked(c, p) ==
  LET failures == SelectSeq(Checks(c, p), LAMBDA check : ~check[1])
  IN  IF failures = <<>> THEN "ok" ELSE failures[1][2]

------------------------------------------------------------------------------
(* The Queue *)

\* Its assertions that there is a pointer for each message and party
SizesFit(c, p) ==
  LET parties == Cardinality(Communicator(c.senders))
  IN  /\ c.kind = "broadcast" => Len(c.messages.items) = Len(c.data.items)
      /\ c.kind # "broadcast" => Len(c.messages.items) = Outer(c, c.data)
      /\ c.kind = "gather" =>
           \A root \in Roots(c) : Inner(c, c.data) = IF root = p THEN parties ELSE 1
      /\ c.kind \in {"all_gather", "all_to_all"} => Inner(c, c.data) = parties
      /\ c.kind = "all_to_all" =>
           /\ Len(c.messages.items) = Outer(c, c.result)
           /\ Inner(c, c.result) = parties

\* Its assertions on parties, and the one of chunks_exact
PartiesFit(c, p) ==
  /\ c.kind = "all_gather" => Subset(c) /\ p \in Communicator(c.receivers)
  /\ c.kind = "all_to_all" => p \in Communicator(c.senders)
  /\ c.kind # "broadcast" => Inner(c, c.data) > 0

Row(c, span, i) == SubSeq(span.items, (i - 1) * Inner(c, span) + 1, i * Inner(c, span))

\* What the hash of a message's identifier is computed from, and the counter's key
Key(c, i) ==
  [kind |-> c.kind, datatype |-> c.messages.items[i].datatype, root |-> c.messages.items[i].root,
   senders |-> Communicator(c.senders), receivers |-> Communicator(c.receivers)]

CountOf(p, key) == IF key \in DOMAIN counters[p] THEN counters[p][key] ELSE 0

\* How many of the messages up to i have i's key
UpTo(c, i, key) == Cardinality({j \in 1..i : Key(c, j) = key})

\* Mutant: the messages of a call have the same counter.
next_message_id_Call(p, c, i) == [hash |-> Key(c, i), counter |-> CountOf(p, Key(c, i)) + 1]

next_message_id(p, c, i) ==
  [hash |-> Key(c, i), counter |-> CountOf(p, Key(c, i)) + UpTo(c, i, Key(c, i))]

ToMessage(c, i, from, to, id) ==
  [kind |-> c.kind, datatype |-> c.messages.items[i].datatype, size |-> c.messages.items[i].size,
   sender |-> from, receiver |-> to, id |-> id]

\* Mutants: the filter is left out; data goes to those that send.
Recipients_All(p, c) == Communicator(c.receivers)
Recipients_Senders(p, c) == Communicator(c.senders) \ {p}

\* The parties that p's data of a broadcast or all-gather goes to
Recipients(p, c) == Communicator(c.receivers) \ {p}

\* The tasks for message i: <<party, place>> of what is sent, and of what is received.
Outgoing(p, c, i) ==
  LET root    == c.messages.items[i].root
      data    == IF c.kind = "broadcast" THEN <<c.data.items[i]>> ELSE Row(c, c.data, i)
      senders == Sorted(Communicator(c.senders))
  IN  CASE c.kind = "broadcast" ->
             {<<q, data[1]>> : q \in IF root = p THEN Recipients(p, c) ELSE {}}
        [] c.kind = "gather" -> IF root = p THEN {} ELSE {<<root, data[1]>>}
        [] c.kind = "all_gather" ->
             {<<q, data[s]>> : q \in Recipients(p, c),
                               s \in {s \in DOMAIN senders : senders[s] = p}}
        [] c.kind = "all_to_all" ->
             {<<senders[s], data[s]>> : s \in {s \in DOMAIN senders : senders[s] # p}}

Incoming(p, c, i) ==
  LET root    == c.messages.items[i].root
      data    == IF c.kind = "broadcast" THEN <<c.data.items[i]>>
                 ELSE Row(c, IF c.kind = "all_to_all" THEN c.result ELSE c.data, i)
      senders == Sorted(Communicator(c.senders))
  IN  IF c.kind = "broadcast"
      THEN IF root = p THEN {} ELSE {<<root, data[1]>>}
      ELSE IF c.kind = "gather" /\ root # p
      THEN {}
      ELSE {<<senders[s], data[s]>> : s \in {s \in DOMAIN senders : senders[s] # p}}

Task(sends, message, place) == [sends |-> sends, message |-> message, place |-> place]

Tasks(p, c) ==
  UNION {LET id == next_message_id(p, c, i)
         IN  {Task(TRUE, ToMessage(c, i, p, to[1], id), to[2]) : to \in Outgoing(p, c, i)}
             \cup {Task(FALSE, ToMessage(c, i, from[1], p, id), from[2]) : from \in Incoming(p, c, i)}
         : i \in DOMAIN c.messages.items}

Counted(p, c) ==
  LET keys == {Key(c, i) : i \in DOMAIN c.messages.items}
  IN  [key \in keys \cup DOMAIN counters[p] |->
         CountOf(p, key) + UpTo(c, Len(c.messages.items), key)]

\* collect_tasks: the result after one more task.
Joined(before, result) == IF before = "ok" THEN result ELSE "multiple_errors"

------------------------------------------------------------------------------

TypeOK ==
  \A p \in Party :
    /\ current[p] \in 1 .. Len(program) + 1
    /\ stage[p] \in {"ready", "called", "running", "thrown", "aborted"}
    /\ verdict[p] \in Errc
    /\ stage[p] # "running" => tasks[p] = {}
    /\ failed[p] \in 0..MaxFailures
    /\ \A task \in tasks[p] :
         /\ p = IF task.sends THEN task.message.sender ELSE task.message.receiver
         /\ task.message.sender # task.message.receiver

NoRequest == [kind |-> "none"]

Init ==
  /\ current = [p \in Party |-> 1]
  /\ memory = [p \in Party |-> <<>>]
  /\ counters = [p \in Party |-> <<>>]
  /\ tasks = [p \in Party |-> {}]
  /\ network = {}
  /\ verdict = [p \in Party |-> "ok"]
  /\ failed = [p \in Party |-> 0]
  /\ \/ /\ program \in Programs
        /\ \A o \in DOMAIN program : \A p \in Members(program[o]) : Compiles(program[o], p)
        /\ stage = [p \in Party |-> "ready"]
        /\ request = [p \in Party |-> NoRequest]
     \/ /\ program = <<>>
        /\ \E p \in Party, c \in Requests :
             /\ stage = [q \in Party |-> IF q = p THEN "called" ELSE "ready"]
             /\ request = [q \in Party |-> IF q = p THEN c ELSE NoRequest]

\* The operation is none of p's.
Skip(p) ==
  /\ stage[p] = "ready" /\ current[p] <= Len(program)
  /\ p \notin Members(program[current[p]])
  /\ current' = [current EXCEPT ![p] = @ + 1]
  /\ UNCHANGED <<program, stage, request, memory, counters, tasks, network, verdict, failed>>

\* The operation returns the storage for its results.
Omit(p) ==
  /\ stage[p] = "ready" /\ current[p] <= Len(program)
  /\ p \in Members(program[current[p]]) /\ ~Exchanges(program[current[p]])
  /\ memory' = [memory EXCEPT ![p] = Own(p, current[p]) @@ @]
  /\ current' = [current EXCEPT ![p] = @ + 1]
  /\ UNCHANGED <<program, stage, request, counters, tasks, network, verdict, failed>>

Call(p) ==
  /\ stage[p] = "ready" /\ current[p] <= Len(program)
  /\ p \in Members(program[current[p]]) /\ Exchanges(program[current[p]])
  /\ request' = [request EXCEPT ![p] = Composed(p, current[p])]
  /\ memory' = [memory EXCEPT ![p] = Own(p, current[p]) @@ @]
  /\ verdict' = [verdict EXCEPT ![p] = "ok"]
  /\ failed' = [failed EXCEPT ![p] = 0]
  /\ stage' = [stage EXCEPT ![p] = "called"]
  /\ UNCHANGED <<program, current, counters, tasks, network>>

\* C++ throws.
Reject(p) ==
  /\ stage[p] = "called" /\ Checked(request[p], p) # "ok"
  /\ verdict' = [verdict EXCEPT ![p] = Checked(request[p], p)]
  /\ stage' = [stage EXCEPT ![p] = "thrown"]
  /\ UNCHANGED <<program, current, request, memory, counters, tasks, network, failed>>

\* A panic does not get through the C interface: the process ends.
Abort(p) ==
  /\ stage[p] = "called" /\ Checked(request[p], p) = "ok"
  /\ ~(SizesFit(request[p], p) /\ PartiesFit(request[p], p))
  /\ stage' = [stage EXCEPT ![p] = "aborted"]
  /\ UNCHANGED <<program, current, request, memory, counters, tasks, network, verdict, failed>>

Spawn(p) ==
  /\ stage[p] = "called" /\ Checked(request[p], p) = "ok"
  /\ SizesFit(request[p], p) /\ PartiesFit(request[p], p)
  /\ program # <<>>
  /\ tasks' = [tasks EXCEPT ![p] = Tasks(p, request[p])]
  /\ counters' = [counters EXCEPT ![p] = Counted(p, request[p])]
  /\ stage' = [stage EXCEPT ![p] = "running"]
  /\ UNCHANGED <<program, current, request, memory, network, verdict, failed>>

\* A task has ended and is joined.
Join(p, task, result) ==
  /\ tasks' = [tasks EXCEPT ![p] = @ \ {task}]
  /\ verdict' = [verdict EXCEPT ![p] = Joined(@, result)]
  /\ UNCHANGED <<program, current, stage, request, counters>>

Send(p, task) ==
  /\ task.sends
  /\ network' = network \cup {[message |-> task.message, data |-> At(p, task.place)]}
  /\ Join(p, task, "ok")
  /\ UNCHANGED <<memory, failed>>

Receive(p, task) ==
  /\ ~task.sends
  /\ \E packet \in network :
       /\ packet.message = task.message
       /\ memory' = [memory EXCEPT ![p] = (task.place :> packet.data) @@ @]
       /\ network' = network \ {packet}
  /\ Join(p, task, "ok")
  /\ UNCHANGED failed

Fail(p, task) ==
  /\ \A q \in Party : failed[q] < MaxFailures
  /\ failed' = [failed EXCEPT ![p] = @ + 1]
  /\ Join(p, task, "error")
  /\ UNCHANGED <<memory, network>>

Return(p) ==
  /\ stage[p] = "running" /\ tasks[p] = {}
  /\ \/ verdict[p] = "ok" /\ stage' = [stage EXCEPT ![p] = "ready"]
                          /\ current' = [current EXCEPT ![p] = @ + 1]
     \/ verdict[p] # "ok" /\ stage' = [stage EXCEPT ![p] = "thrown"]
                          /\ UNCHANGED current
  /\ UNCHANGED <<program, request, memory, counters, tasks, network, verdict, failed>>

Step(p) ==
  \/ Skip(p) \/ Omit(p) \/ Call(p) \/ Reject(p) \/ Abort(p) \/ Spawn(p) \/ Return(p)
  \/ \E task \in tasks[p] : Send(p, task) \/ Receive(p, task)

Next == \E p \in Party : Step(p) \/ \E task \in tasks[p] : Fail(p, task)

Spec == Init /\ [][Next]_vars /\ \A p \in Party : WF_vars(Step(p))

------------------------------------------------------------------------------

\* The results of operation o hold each sender's data at the sender's place.
Holds(p, o) ==
  LET op == program[o]
  IN  \A v \in DOMAIN op.values : \A tensor \in ToSet(Tensors(op.values[v])) :
        p \in ReceiversOf(op, RootOf(op, v)) =>
          \A q \in SendersOf(op, RootOf(op, v)) :
            At(p, Place(o, tensor.name, q, FALSE)) =
              Content(q, o, tensor.name, IF op.kind = "all_to_all" THEN p ELSE 0)

\* When operations of queue.hpp have returned, their results hold each sender's data, field
\* by field, whichever overloads the parties came through and however many messages with
\* the same key were under way.  All-to-alls of one tensor are left to AllToAllHolds.
Exchanged ==
  \A p \in Party : \A o \in 1 .. current[p] - 1 : Exchanges(program[o]) => Holds(p, o)

\* "Send `tensor[i]` to `communicator[i]` and receive one tensor for each sent tensor."
\* (all_to_all, hmpc/net/queue.hpp)
AllToAllHolds ==
  \A p \in Party : \A o \in 1 .. current[p] - 1 : program[o].kind = "all_to_all" => Holds(p, o)

\* collect, structure_field_t and make_multi_accessors number the fields of a call's values
\* alike, from left to right.
FieldsAgree ==
  \A o \in DOMAIN program :
    LET values == program[o].values
    IN  /\ Fields(values) = Len(AllTensors(values))
        /\ \A i \in DOMAIN AllTensors(values) :
             {at(i - 1, values), structure_field(i - 1, 1, values), Accessor(i - 1, values)}
               = {AllTensors(values)[i]}

\* The checks of the C interface imply the assertions of the Queue on sizes, for all calls:
\* no pointer is taken from beyond a span.
SizesChecked == \A p \in Party : stage[p] = "aborted" => SizesFit(request[p], p)

\* Calls that C++ compiles pass all checks and assertions, unless an extended all-gather
\* has a sender that does not receive; that is rejected at every party, so none waits.
CallsAccepted ==
  program # <<>> => \A p \in Party :
    /\ stage[p] # "aborted"
    /\ stage[p] = "thrown" /\ failed[p] = 0 =>
         /\ verdict[p] = "invalid_communicator"
         /\ \A q \in Members(program[current[p]]) :
              current[q] = current[p] => stage[q] \notin {"running", "aborted"}

\* All calls come back if no task fails.
Returned(p) == stage[p] = "thrown" \/ (stage[p] = "ready" /\ current[p] > Len(program))

Termination ==
  program # <<>> => <>((\A p \in Party : Returned(p)) \/ \E p \in Party : failed[p] > 0)

==============================================================================
