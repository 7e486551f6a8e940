# A verification of hmpc

hmpc is a library for secure multi-party computation: C++ templates for long
integers, expressions and their execution on devices, and a Rust library for
communication between parties (through a C interface). This directory holds a
TLA+ model of it, TLC runs on small instances and theorems that TLAPS checks.

- [Inventory](#inventory): the parts of the system
- [Modules](#modules): what models what
- [Runs](#runs): what TLC checks, and with which bounds
- [Fairness](#fairness)
- [Proofs](#proofs)
- [Findings](#findings)
- [Limits](#limits): what is abstracted, and what is not modelled
- [Plan](#plan)

## Inventory

### Communication (`hmpc-rs/src/net`)

Parties run the same program of *collective operations* (broadcast, gather,
all-gather, all-to-all, each with a "multi" variant for several messages at
once, all-gather also with separate senders and receivers). Every party has

| part | state | operations |
| --- | --- | --- |
| `Queue` (`queue.rs`) | message counters; the runtime; one sender for every channel | the collective operations, `Drop` |
| client task (`client.rs`) | connections to other parties | connect to a party for its first message; write a message to a new stream, in a task of its own |
| server tasks (`server.rs`), one for every connection | - | read a stream, hand the message on if its session is the Queue's |
| message buffer task (`message_buffer.rs`) | `message_buffer`, `open_requests` | `Receive`, `Received` |
| consistency task (`consistency.rs`) | `consistency`, `open_requests` | `Request`, `ReceivedCheck`, `ReceivedData`, `Wait` |

They talk over `tokio` channels with room for ten commands and get answers over
oneshot channels. A collective operation

1. waits, if it is going to send, until all data received before is known to be
   the same at all its receivers (`ensure_consistency`),
2. computes an identifier for each of its messages from a hash of the kind of
   message and the communicator, and a counter,
3. spawns a receive task for each message to receive (after a request to the
   consistency task to check it, if there are several receivers of the data) and
   a send task for each message to send, and
4. joins the tasks.

Which session a Queue is in is found once, when it is made: from a file (`config.rs`),
whose path is given or comes from the environment or is the default one, or from the
environment (`ffi/config.rs`), as a number or as a text that is hashed. Identifiers begin
anew with every Queue.

The server gives data that needs a check to the consistency task before it gives
it to the message buffer. The consistency task tells the other receivers the hash
of what it got (signed), and compares what it got with what the others tell.

What is hard: data, requests and checks come in any order, from parties that go
on at their own speed; operations may have several messages with the same counter
key; a check may fail to be sent or be lost; the future of an operation may be
dropped; the tasks wait for each other over bounded channels and a limited number
of streams; a Queue may be dropped while its messages are on their way; parties begin
and end at different times, so that a message may come to a Queue of another run, a
connection may be lost, and one may not come about at all. What makes
it right: data comes to the task that waits for it, once; a party does not send
anything based on data that other receivers got differently; a task that waits is
answered; a message that is said to have failed does not arrive; nothing is taken from
another run; the programs come to their end.

### Local computation (`hmpc`)

| part | state | operations |
| --- | --- | --- |
| computation queue (`comp/queue.hpp`) | key and nonce for random numbers, tensors in use, kernels that run | execute expressions element by element |
| random numbers (`crypto/chacha.hpp`, `random/`, `expr/random/`) | cipher state, a block of random limbs and an index into it | next limb; uniform and binomial numbers |
| expressions (`expr/`) | - (types); a cache of evaluated nodes | evaluation per element |
| long integers (`core/`, `core/num/`) | - | arithmetic on arrays of limbs, comparison, bit operations |
| numbers (`ints/`) | - | integers whose type has a number of bits, integers modulo a prime (Montgomery form), polynomials |
| number theoretic transform (`expr/number_theoretic_transform.hpp`) | powers of roots of unity, kept by the queue; a scratch buffer | kernels whose work items work in place, in any order |
| shapes and indices (`shape.hpp`, `index.hpp`, `access.hpp`) | - | linear index to index and back, broadcasting |
| compile-time tools (`iter/`, `typing/`, `detail/`) | - | lists, maps and loops of types |

What is hard: carries over limb boundaries, shifts by multiples of the limb size,
quotient digits that are estimated too large, reductions that must end below the
modulus, types of results that must have room for them, coefficients that are kept
without signs, counters and nonces that must never meet again, indices of broadcast
shapes, the order in which a cache evaluates nodes.

### The edge (`hmpc/net`, `hmpc-rs/src/ffi`)

Translates between both: checks pointers, lengths and communicators of a call,
maps errors to codes and codes to exceptions, gathers data of structures.

## Modules

### `Consistency`, one consistency task per party

`consistency[p][k]` is party `p`'s map from keys to `ConsistencyCheckValue`;
`Vacant` stands for no entry, `receivers[q]` is `Absent`, `None` or a hash. The
operators of the first part are the methods of that struct, the actions are the
commands, `NotifyParty` and `NotifyFails` the rounds of the loop in
`notify_parties`. Each handler is an action up to where it first waits: with other
receivers to tell, `Proceed` puts them into `notify[p][k]`, and `Settle`, the
handler's remainder, comes with the last of them. A task with receivers to tell is
not `Idle` and takes no command. `checks` are the messages to other consistency
tasks; they may be lost (`LoseCheck`, at most `MaxFailures` times together with
`NotifyFails`).

Sending a command and handling it is one step: there is one consumer, which takes
commands in their order, and a sender learns nothing from the task but the answer
to `Wait`. A `Queue` waits for one answer at a time, since `ensure_consistency`
has it exclusively (`&mut self`), so that `open_requests` holds one entry.
Signatures are not modelled: a check of a party that follows the protocol always
verifies. The order in which the receivers are told is left open (they are in a
hash map).

### `MessageBuffer`, the buffer and the receive tasks

One action per command, and `Abandon` for the abort of a task whose operation is
dropped, with its command sent or not. `task[t]` is what a receive task knows of
its oneshot channel. Repeated requests and repeated data replace what is there,
as `HashMap::insert` does.

### `Configuration`, `Connections`: Queues of several runs

`Configuration` has operators for the way from what a program finds (files, environment,
the path that is given) and does (`read` or `read_env`, `session_from_env`) to the session
of its Queue: `ReadPath`, `SessionFromEnv`, `QueueConfig`, `SessionValue`. A session that
cannot be found makes no Queue. `Documented` is what the documentation says of it, put
as an order of sources.

In `Connections` each party makes a Queue for one run after the other (`Start`, `End`,
`Crash`), while the others may be in another run.

| action | code |
| --- | --- |
| `Submit` | a send task's command to the client, or none if the client is gone |
| `Take` | the client's loop, up to the connection: it reuses the one in `outgoing`, lost or not |
| `Connect`, `Panic` | `connect_client`: the peer listens, or the handshake times out and `unwrap` panics |
| `Write`, `Answer` | `handle_connection` of the client, with an error for a lost connection |
| `Close` | the panic has dropped `outgoing` (`client.rs:101`), and the last task with a handle of the connection has ended: quinn closes it |
| `Lose` | the idle timeout or the network |
| `Serve` | a server task reads a stream; `build_from` compares sessions |

The tasks that write are independent of the client task and go on when it has panicked;
commands in its channel are dropped with their answer channels. Its connections last only as
long as these tasks do, and what a server has not read when one closes is lost, although
`handle_connection` has answered `Ok` to it. `Drop` takes the streams
with it that nobody has read, and any of those that it has written itself.

- `OwnRun`: if the runs have different sessions, as far as the documentation says, no Queue
  is handed a message of another run.
- `FailedIsLost`: what is said to have failed does not arrive in the run.
- `Settled`: in the end all send tasks are answered, and what was sent is handed on if
  both Queues stay and are in the same session, and the connection between them lasts, which is
  neither lost nor closed after a panic of the sender's client.

`Messages` has both, `MessageBuffer` and an instance of `Connections`, which hands data on to
it; a behaviour is of one of them. `MCMessageBuffer` has the scenarios for TLC.

### `Exchange`, what communication promises

The abstract specification: a sequence of operations moves data from senders to
receivers, every piece once; a party begins an operation when it is through with
the ones before; and it sends nothing as long as data of a broadcast that it has
received may differ at other receivers.

### `Collective`, the parties and their tasks

Composes an instance of `Consistency` and an instance of `MessageBuffer` with the
Queues, servers and a network. `Program` is the sequence of operations that all
parties run (each those it takes part in). `Ensure`, `Begin`, `Loop` and `Finish`
are the parts of an operation between its awaits, for all four kinds; `NextID`
computes the identifiers from the counters of the Queue; `Send` is a send task and
the client; `ServeCheck`, `ServeData` and `ServeBuffer` are a server's handling of
a message; `Close` is `Drop`. Data carries the transfer it was sent for
(`Content`), which nothing in the system reads, so that a receive task that got
the data of another one is seen. The hash in an identifier is taken to be
injective. The network does not keep messages in order; streams of one connection
come in nearly any order, too. `Exchanges` says that all this implements
`Exchange`, with `held` made from what the receive tasks got.

### `Backpressure`, channels and streams with limits

In `Collective` channels have room and streams are there for everyone. This module
takes one multi-broadcast of new Queues and gives the channel of each consistency
task (`CHANNEL_CAPACITY`) and the streams of each connection (`Credit`) their limit.
The channel is a sequence, and a sender waits until its own command is among the
first `Capacity` ones, which is how a `tokio` channel serves its senders (in order).
The consistency task is the one of `Consistency`, step by step (`Take`, `Ask`, `Write`).
The channels of the client and of the message buffer are left out: both always take the next
command without waiting for anybody. So is `ensure_consistency` at the beginning,
which a new Queue has nothing to wait for.

### `Words`, limbs and spans

A limb is a number below `B`, and a span of `n` limbs the number that they form; limb
`k` is `(x \div B^k) % B`, and `Store` changes that limb only. A signed span is the
number it means, so that limbs beyond its end are zero or all ones, as `extended_read`
has them. The functions on limbs are computed as the code computes them: each carry
comes from a comparison of a sum, wrapped, with its summand, and `ExtendedAddCarry`
joins the carries of two such sums. `Numbers` are the numbers that callers pass; each
function takes those of them that its spans can mean.

### `LongAddition`, `add` and `subtract`

One action writes one limb. Spans are names of places in `memory`, so that the result
may be stored over an operand, as the assignment operators of residues and the nonce of
the computation queue do. `Sums`: result and carry together are the sum (or difference)
of the operands' limbs.

### `LongMultiplication`, `multiply`

`Row`, `Column` and `EndRow` are the loops over rows and their limbs, `Copy` the last
loop. The intermediate has any contents at first, as it is not initialized. Which limbs
of it are there to be read follows from sizes that the code computes at compile time
(`left_overlap`, `right_overlap`, `Current`). `Product`: the result has the product's
lowest limbs, as many as there is room for. The actions are those of the compile-time
and of the run-time variant, whose loops only differ in how they are unrolled.

### `Montgomery`, `montgomery_reduce`

`Row`, `Multiply`, `Propagate`, `EndRow` and `Reduce` are the two nested loops and
the final subtraction. `Postcondition` is the comment of the function: the result is
`T` times the inverse of `R` modulo `N`, here as `R` times the result being congruent
to `T`, and it is below `N`. `NoOverflow`: the carry of the last limb is zero.

### `Division`, `divide`, `divide_normalized` and `divide_similar_sized`

`Normalize` shifts both operands until the denominator's highest bit is the highest bit
of a limb, and `ShiftBack` shifts the remainder back. In between, `divide_normalized`
calls itself last, with what is left of the numerator: each call is a round, which begins
with `Zero` or `One` (the numerator is no longer than the denominator) or with `Upper`,
which takes the upper limbs. `Over`, `Estimate`, `Correct` and `Digit` are
`divide_similar_sized`; it calls itself when the quotient has two limbs (`over`), and
its digit is estimated from the upper limbs and corrected.
A round writes the limbs of the quotient below `window` and above those that are still
to come, so the quotient's memory, which is not initialized, holds the quotient only if
the rounds leave no limb out. `Fail` is the assertion in `write` when a
limb is written to a span that has none.

`QuotientRemainder`: the result is the quotient and the remainder, and the quotient is
never too short for a limb that is written; `TwoCorrections`: the
two `if`s of the code are enough, and the digit that comes out of them is the greatest
possible.

### `Comparison`, the six comparisons

At run time all limbs are looked at (`ScanOrder` from the highest, `ScanEquality`), with
`determined` for an order; at compile time a loop returns at the first difference. `Ordered`:
the result is that of the numbers, for operands of different sizes and signs; an equality is
left out where its limbs do not tell the numbers apart, as those of a negative number and of an
unsigned one of another size (`Distinguishable`; see [Findings](#findings)).

### `BitFunctions`, shifts, copies and scans

One action writes or reads one limb: shifts left go down, shifts right go up, and either may
be in place. `BitsWritten`: the written span has the bits that it should; `Counted`:
`bit_width` and `countr_zero` count the bits that a number needs and its trailing zeros.

### `Euclid`, greatest common divisors

`greatest_common_divisor` (the binary algorithm) and `extended_euclidean`, one action for each
round. Coefficients are kept without signs, which alternate (`IsBelowZero`), and everything
that is written loses what is beyond the operands' width (`Fit`). `Bezout` says that this
never happens: with signs, both equations hold in each round. `Coefficients` and
`GreatestDivisor` are about what comes out.

### `BigInts`, `Arithmetic`, `Residue`: typed integers and residues

`BigInts` has the types of results: each operator of `bigint.hpp` computes how many bits its
result has and if it is signed, and `Stored` is what an object with these bits keeps of a
number. `Arithmetic` is an expression: an operator at a time, applied to an intermediate
result and an operand of any small type, and `Exact` says that types never cut anything off.

`Residue` has the operators, conversions and powers of `mod.hpp`, with `montgomery_reduce` as
one step, that of `Montgomery!Postcondition`. `Meaning`: the object that comes out has the
residue that the caller means; `Canonical`: it is reduced; `Precondition`:
`montgomery_reduce` is not called with a number that it is not for.

### `Transform`, the number theoretic transform

`Execute` takes the powers of a root from the queue's additional tensors, by `Key`, or
computes them; `WorkItem` is one work item of the kernel of an iteration, in any order with
the others; `NextKernel` waits for the last. Elements are linear forms in the inputs'
elements, so that one behaviour stands for all inputs. `Transformed`: a result has the values
of the polynomial at the powers of the root (the inverse: the coefficients), computed from
the definition of both; `NoRace`: work items write and read elements of their own.

### `Indices`, shapes and linear indices

Operators only: `Size`, `CommonShape`, `ToLinear`, `FromLinear` and `unsqueeze` are the
functions of `shape.hpp` and `index.hpp`, with a placeholder for an extent that takes any
coordinate. Beside them is what they should do: `Rank` is how many indices come before one,
in the order of coordinates, and nothing in it multiplies extents.

### `Expressions`, graphs and the execution cache

A program is a graph of expressions and a sequence of calls of the queue with some of its
nodes. `Shapes` gives each node its shape, `Repeats` is the access of a part (once or
several times), and `ExecutionCache` is `cache.hpp`: the traces that lead to an expression
(`Traces`), whether it is computed where it is used (`IsInlined`), and the order in which
the rest gets kernels of its own (`Cached`). The code tells expressions apart by their types;
here a type is the number of a node, so that one node used twice is what one variable used
twice is in C++.

### `Execution`, the computation queue

| action | code |
| --- | --- |
| `Call` | `queue::operator()`: the execution cache of a call, tensors for it |
| `Submit` | `execute_single` of the next expression, up to the submission of its kernel; the nonce goes up by the kernel's elements (`add_capability_data`) if it draws random numbers |
| `Run` | - : the SYCL runtime runs a kernel; those before it that have a buffer in common with it, which one of them writes, are done |

An element's value is the set of *facts* that it was computed from: elements of the
program's input, random elements together with the limbs drawn for them, and limbs that
were encrypted. `Evaluate` is the way a kernel takes through an expression: what is in the
cache is read from its tensor, everything else computed in place; each random element takes
the next limbs of its work item's generator, whose counter is the linear index. `Mask` is
the key stream of ciphers, with its batches of elements that fill whole blocks. `Facts`,
`Uses` and `Meaning` belong to the properties:

- `Meant`: each element has been computed from those elements that its expression says.
  `Meaning` goes over the graph without cache, kernels and linear indices.
- `OneValue`: an expression that is used several times in a call has one value there.
- `OwnLimbs`: no limb of a block serves two random elements or two encrypted limbs.
- `DistinctNonces`: kernels that draw have nonces of their own.
- `Computed`: nothing is read that was not written (see [Findings](#findings)).

`MCPrograms` has the programs; `MCExecution` is the instance for `Computed`.

### `Library`, one call

A behaviour is one call of one of the functions on long integers or residues, an expression
of typed integers, or one program of the transform or the computation queue; `function` says
which. `LongAddition`, `LongMultiplication`, `Montgomery`, `Division`, `Comparison`,
`BitFunctions`, `Euclid`, `Arithmetic`, `Residue`, `Transform` and `Execution` are instances
in it, each with its own numbers and sizes, and a step of the library is one of the instance
that the behaviour began with. Variables of the others are `Idle`; variables of several
instances are shared, which keeps states small. `MCLibrary` has the numbers for TLC.
Properties of one instance that one reader asks for
together are joined: `Postcondition` has `NoOverflow` in it, `QuotientRemainder` has
`TwoCorrections`, `OwnLimbs` has `DistinctNonces`, `BitsMeant` is `BitsWritten` and
`Counted`, `Coefficients` has `Bezout` and `GreatestDivisor`, `Meaning` has `Canonical` and
`Precondition`, and `Transformed` has `NoRace`.

### `Structures`, values and their fields

A value of a collective call is a tensor or a structure of values; its tensors are the
fields of the call. The code counts fields in three places, each with a recursion of its
own: `at` finds the field whose type and size the metadata describe, `structure_field` is
the type that `iter::collect` expects there, and `Accessor` is where the pointers come
from. `Tensors`, from left to right, is what all three should be.

### `Calls`, from C++ to the tasks of a Queue

`Collective` begins where the Queue of Rust has its arguments. This module is the way to
there: `Composed` is what an overload of `queue.hpp` hands to the C interface (metadata,
communicators, a two-dimensional array of pointers); `Checks` are the checks of
`ffi/queue.rs`, in their order; `SizesFit` and `PartiesFit` are the assertions of the
Queue behind them; `Tasks` pairs messages with pointers, for senders and receivers.
`Compiles` are the constraints of the overloads: a program is one that compiles at every
party. `memory[p]` holds what p's pointers point to, and data says who made it, in which
operation, for which field and for whom.

| action | code |
| --- | --- |
| `Call` | an overload of the C++ Queue up to the call of the C interface |
| `Omit` | the overload that never gets there (see [Findings](#findings)) |
| `Skip` | - : the party has no part in the operation |
| `Reject` | a check fails: a code that C++ throws |
| `Abort` | an assertion fails: a panic, which ends the process |
| `Spawn` | the Queue computes identifiers and spawns its tasks |
| `Send`, `Receive`, `Fail` | a task ends; its result is joined with the others |
| `Return` | all tasks have ended; C++ returns or throws |

Besides C++ programs, any other program may call the C interface: a behaviour without
`program` is one call with any arguments, which ends with its checks.

`MCCalls` has the programs and the arguments.

## Runs

| run | instance | shows |
| --- | --- | --- |
| `consistency_lossy` | 3 receivers, 1 message, 2 hashes that may differ, 1 failure | `Agreement`, `ChecksExpected`, `NothingOwed`, `NoStrandedWaiter` |
| `message_buffer` | 2 messages, 3 tasks, 3 pieces of data. Connections: 5 single runs of two parties with different files and environments; 4 pairs of runs with sessions from a file, a text and a number; a run with two messages to one party; one of 3 parties with 4 messages that wait for each other; each of the last three with one crash or lost connection | `Met`, `NoStrandedTask`, `DeliveredOnce`; `OwnRun`, `FailedIsLost`, `Settled` |
| `collective_kinds` | 3 parties: a broadcast, a multi-broadcast of 3 messages between two of them, an extended all-gather with one party that only receives, an all-to-all, a gather | `Exchanges`, `Termination` |
| `collective_inconsistent` | 3 parties: a broadcast that may be inconsistent, a gather; messages lost when a Queue is dropped | `Exchanges`, `ClosedAgree` |
| `backpressure_channels` | 3 parties, 2 broadcasts, capacity 1, 2 streams | `Termination`, `NothingLeft` |
| `library` | limbs of 3 bits. `add`, `subtract`: results of up to 3 limbs, 8 operands below and above zero, 3 places, one of them the result's. `multiply`: all sizes of operands, intermediate and result up to 4 limbs, 7 numbers. `montgomery_reduce`: moduli 1, 5, 7, 9, 63 of one and two limbs, every value that the precondition allows. `divide`: about 110 numerators and denominators of up to three limbs, with a quotient of each size that holds it and without one. Comparisons and functions on bits: 19 to 24 numbers next to the ends of limbs and of their signed halves, in up to 2 and 3 limbs. Greatest common divisors: all pairs up to 34. Typed integers: expressions of operands of up to 3 bits, results of up to 7. Residues: 11 moduli of one and two limbs, integers of up to 8 bits. Transforms: vectors of 4, 8 and 16 elements, one or two in a tensor, moduli 17, 41 and 97. The queue: 9 programs of one or two calls, with up to 8 expressions and shapes of up to 6 elements, blocks of 4 limbs | `Sums`, `Product`, `Postcondition`, `QuotientRemainder`, `Ordered`, `BitsMeant`, `Coefficients`, `Exact`, `Meaning`, `Transformed`, `Meant`, `OneValue`, `OwnLimbs` |
| `calls` | 3 parties, 14 programs of up to three operations: all overloads, structures in structures, fields of one type, messages with one counter key; 1 failing task. Single calls of the C interface (about 28000): 0 to 2 messages, rows and columns, null pointers and handles, communicators that are empty, without the caller or with a party twice | `Exchanged`, `FieldsAgree`, `SizesChecked`, `CallsAccepted`, `Termination` |
| `collective_hang` | as `collective_inconsistent` without loss | `EnsureReturns` is violated |
| `collective_loss` | a broadcast to one party | `Held` is violated |
| `backpressure_streams` | 3 parties, 225 broadcasts, the code's capacity 10 and quinn's 100 streams | `AllHeld` is violated |
| `calls_all_to_all` | the programs of `calls`, no failures | `AllToAllHolds` is violated |
| `queue_order` | the queue, with one call of `r + x` and `r` | `Computed` is violated |

Why these bounds: a check involves two parties and, to tell a receiver that has
told nothing from one that has, a third. Two messages are needed to see an answer
that vouches for one while the other is open, two operations to see a party run
ahead, and two messages with one counter key to see the counter: those are in the
programs of the `collective` runs. All orders of
commands, messages and tasks are explored. A channel with room for one command makes
every sender wait as often as possible. Symmetry is used where parties, messages
and tasks are interchangeable and only invariants are checked.

The smallest limbs in which products have carries beyond one bit have 2 bits, and the
smallest with estimates that are too large by two have 3; three limbs
give a first, an inner and a last one. The denominators have every distance to the end
of a limb. The proofs of `add`, `subtract`, `multiply`, `montgomery_reduce`, `divide`,
comparisons, greatest common divisors and functions on bits cover all bases and sizes, so the
runs need only be large enough to meet each branch.

Two runs of two parties are enough for a message that comes to a Queue of another run, early
or late: the sender may be ahead or behind, by a crash or by itself. Three parties are needed
for a party that waits for a second one, which has to connect to a third one first.

Comparison, shifts and copies take all combinations of sizes of operands and result, and of
signs, in both variants. The pairs up to 34 have consecutive Fibonacci numbers, for which the
extended algorithm takes the most rounds and has the largest coefficients. Of the transforms,
those of 8 and 16 elements have a first, a last and inner kernels; two types with vectors of
one size need different roots from the queue, and two executions of one type share them.

The programs of the queue have every expression that is modelled, drawn elements that are
used once, several times in one place, in several places, repeated by broadcasting, and in
two calls; extents that differ from each other, so that mixed up dimensions are seen; and
batches of a cipher that are full, not full, and longer than a block. All orders of calls
and kernels that the buffers allow are explored.

Deadlock is not checked, as the programs of the model stop: a state without
successor is right at their end. That they do not stop before is `Termination`.

`backpressure_streams` explores one schedule, `Scheduled` in `MCBackpressure`: the
tasks' steps in a fixed order of priority. Each step is one of `Spec`; the schedule
stops only when no task can do anything; so it is a behaviour of `Spec`.

## Fairness

`Collective`, `Backpressure`: weak fairness of the steps of each party. The
runtime (`tokio`) polls every task that is ready, and QUIC delivers what is
written to a stream as long as the connection is up. The runs with `Termination`
take connections to stay up and Queues to be dropped only after their messages are
delivered (`LossOnClose = FALSE`); `collective_loss` shows that the code does not
ensure the latter.

`Calls`: weak fairness of each party's `Step`, which leaves out `Fail`, for the same
reasons: send and receive tasks are polled until they end, and the caller's thread goes on
when they have. `Termination` asks nothing of a behaviour with a failed task, since
another party may then wait for a message that was never sent.

`Connections`: weak fairness of each party's `Step`: what the runtime does by itself, the
program's beginning and end among it, but no crash and no loss. A handshake with a party that
does not listen ends by its timeout, so `Panic` is a step like others.

## Proofs

`ConsistencyProofs`: `TypeCorrect` and `AgreementHolds` for all parties, messages,
sets of receivers and data, from `ConsistencyAssumption` (which says that the
markers `None`, `Absent` and `Vacant` are no values). `Agreement` is not inductive:
that an entry is gone says something about others only if everything on the way is
true. The inductive invariant is `AgreementInv`:

- `ChecksTrue`: a check on its way comes from another receiver of its message and
  carries the hash of what that one received;
- `EntriesTrue`: entries hold p's own data and others' hashes, and a registered
  entry has forgotten only receivers with the same data;
- `RequestsKept`: a message that was asked for is open, or its receivers agree;
- `NotifyReady`: a handler that tells others has data to tell.

Each handler is `Settle` or `Insert` of an entry, so the proof has a lemma for
these (`SettleOutcome`, `InsertOutcome`), lemmas on the methods of an entry
(`RegisterOK`, `ReceiveOK`, `ReceiveDataOK`, `CheckOK`), and one lemma per command
that brings them together.

`ConsistencyProofs` has three more properties, each with an inductive invariant of its own on
top of this one. `NoStrandedWaiterHolds`: while a Queue waits, its task has an open check
(`WaitersWait`), and an open check leaves something to come or to do. `ChecksExpectedHolds`
and `NothingOwedHolds` come from one invariant, `TellingInv`, since neither is inductive
without the other: an entry says exactly what the task was asked and given (`EntriesExact`),
so that entries that were removed leave no trace that a late check could run into; and a
check that p has not sent to q yet is one that q expects and that is not on its way
already (`UntoldExpected`).

`MessagesProofs`: `BufferTypeOK`, `MetHolds`, `DeliveredOnceHolds` and
`NoStrandedTaskHolds` for all messages, tasks and data, from the inductive invariant `BufferInv`: data
and a request for it never wait for each other (`NeverBoth`), data is found only
where it came in (`FromArrival`), requests belong to tasks that asked
(`RequestsOfTasks`), and data stays until somebody asks (`Unasked`).

`CollectiveProofs`: `CollectiveTypeOK`, `ClosedAgreeHolds` and `ExchangesHolds`, for all
programs, parties and hashes, from `CollectiveAssumption` and `NothingAssumption`. The last
one is the refinement: every step of `Collective` is one of `Exchange` or changes nothing in
it. The invariants of `ConsistencyProofs` and `MessagesProofs` are used as they are, from
instances of these modules (`CP`, `MP`): a step of `Collective` is a step of each of the two
or leaves it alone (`SameCommands`, `SameBuffer`, and the lemmas that end in `Effect`).
`CollectiveInv` adds what holds between them:

- `CountersInv`: a counter is the number of messages with its key in the operations that have
  begun. So the parties, which begin operations at different times, give a message the same
  identifier, and different messages different ones (`Expected`), although no identifier
  is ever agreed on;
- `LoopInv`, `SendInv`, `ReceiveInv`: what is behind a loop has been sent once or has a send
  task, and has a receive task under the expected identifier, which is done after the
  operation;
- `PacketInv`: data goes with the message of the transfer it was sent for;
- `CheckInv`: a receiver has asked for the check of all that it receives, and its
  consistency task was given only what was sent;
- `EnsureInv`: a Queue that has waited goes on with everything confirmed that it had received
  before, and it stays so while the operation runs;
- `ServeInv`: a connection is served by one task.

For the refinement, what a receive task gets is right by `PacketInv` and `ReceiveInv`
(`DeliverPromised`). That a party sends only if its earlier operations are through and their
broadcasts have come to all receivers the same (`SendPromised`) needs most of the rest: whoever
sends in an operation is one that called `ensure_consistency` in it (`SendersEnsure`),
everything asked for before was confirmed (`EnsureInv`, `CheckInv`), and what is confirmed is
the same everywhere (`Agreement`). TLC had checked `CollectiveInv` on the programs of the
runs before it was proved.

`NetworkProofs`: `NothingLeftHolds` and `BackpressureTypeOK`, for all parties, broadcasts,
capacities of channels and numbers of streams, from `BackpressureAssumption` and
`NothingAssumption`. What the consistency tasks do is again taken from `ConsistencyProofs`
(`CP`). `NothingLeft` says something only of the end; `NetworkInv` says of every state what
is where, and why no more of it will come:

- `DataInv`, `CheckInv`, `OnceInv`: a message waits for a stream, is on it, in the
  channel or taken, and at one place only. Data on its way has not been read; a check that
  waits for a stream is the one that the task is telling, and a check on a stream or in a
  channel is one of `Consistency`'s `checks`, to a party that receives the broadcast;
- `ReadInv`, `ChannelInv`: what the loop has passed is asked to be checked, and the command
  to wait comes behind all requests and data in the channel, as its Queue sends it when these
  are through;
- `QuietInv`: a Queue is answered only when no check that it asked for is open;
- `RoomInv`: behind the capacity of a channel there is no more than one command of each sender,
  which is what bounds a channel in `TypeOK` (`RoomOK`).

With `EntriesExact` and `ChecksExpected` of `ConsistencyProofs`, a Queue that is answered has no
entry at all, so that a check on its way to it would be unexpected (`QuietOK`): nothing can be
left. `WriteCheckStep` needs `UntoldExpected`, so that a check is not written twice. TLC had
checked `NetworkInv` on the instance of `backpressure_channels` before it was proved.

`MessagesProofs` also has `OwnRunHolds`, `FailedIsLostHolds` and `MessagesTypesHold`, for
`Messages` and its instance of `Connections` (`Net`), for all parties and scenarios that keep to
`ScenariosAssumption`: a message is between parties, each run has a setup, and a session that
is found is not `None`. This is a hypothesis of the theorems, and TLC evaluates it for the
scenarios of `message_buffer`. The runs, the messages and the number of faults have no bound.
The inductive invariant is `ConnectionsInv`:

- `PeerInv`: a Queue has the session of its run, and without a Queue there is no client,
  no command, and no message that is further than waiting;
- `CommandInv`: the channel of a client has messages that are asked, each once, so that no
  message is written a second time;
- `StreamInv`: what is on a stream has the session of the run that wrote it, and goes to a run
  that is there; `GotInv`: what was handed on is of a run that has begun;
- `UnsentInv`: a message that waits, is asked, is being written or has failed is on no stream
  and was not handed on in the present run of its sender.

`OwnRun` follows at `Serve`, where sessions are compared, from `StreamInv` and `SessionOK`: if a
session is documented, it is the one that `QueueConfig` finds. `FailedIsLost` is one case of
`UnsentInv`; by itself it is not inductive, since a message may fail from three places. TLC had
checked `ConnectionsInv` on the run before it was proved.

`WordProofs`: lemmas on the functions on limbs (`ExtendedAddCarryOK`,
`SubtractBorrowOK`, `ExtendedMultiplyAddOK`: the two parts of a result are the sum,
difference or product; no carry is ever more than a limb holds), and on limbs of
numbers (`LimbOK`, `StoreOK`, `SplitOK` and others, from facts on quotients and
remainders). They assume `WordAssumption` (a limb has two values or more) and
`PowerAssumption`, the laws of exponents for the exponents that occur: TLAPS has no
theory of powers, and TLC evaluates the assumption in each run. `NumberAssumption` says
that numbers are integers.

`LongMultiplicationProofs`: multiplication (`ProductOK`, `LongMultiplicationTypeOK`). `LoopInv`
relates the limbs that are written (`Written`, fewer than the intermediate has) to the product of
the left operand and the right one's lower limbs; in a row, the limbs up to `k` have one more
product in them and the carry counts for what follows. All this is up to multiples of the
intermediate's size (`Congruent`), as the last carries of a short result are dropped.

`MontgomeryProofs`: reduction (`PostconditionOK`, `NoOverflowOK`). `LoopInv` says that `T` is the
value plus a multiple of the modulus below `B^i` times it, divisible by `B^i`. So `T` stays
below twice the modulus times `R`, which fits into its limbs and makes one
subtraction enough. `Moduli` may be any positive numbers here; what the code requires
of a modulus is in `Allowed`.

`LibraryProofs` is about `Library`, whose properties the run `library` checks. Its last section
has `SumsHold`, `OrderedHolds`, `ProductHolds`, `PostconditionHolds`, `ExactHolds`,
`CoefficientsHold`, `QuotientRemainderHolds` and `BitsMeantHolds`. Each of them needs that a
behaviour stays with the function that it began with (`FunctionStays`) and that a step of the
library is then one of the function's own, or none (`AdditionSteps`, `ComparisonsSteps` and so
on), and a theorem about the function by itself:

- Addition (`SumsOK`, `LongAdditionTypeOK`). `Sums` speaks of the end only; `SumInv` adds that it
  holds for the limbs so far, and that from the next limb on the operands are still what they
  were, which is why a result in an operand's place does no harm.
- Comparisons (`OrderedOK`): all six of them, at run time and at compile time, for
  limbs of any size and operands of any sizes and signs. `Ordered` speaks of the end only;
  `LoopInv` says that an order's result so far is that of the numbers above limb `i`
  (`Subspan`), and `determined` that these differ; that an equality's result is about the limbs
  below (`Alike`); and that a loop at compile time goes on only as long as limbs are the same.
  The step is `DigitsDecide`: of two numbers the higher parts decide, and then the lower
  ones; beyond its end a span has only zeros or only ones, so that the highest limb, taken as
  signed, stands for the rest (`TopOK`).
- Multiplication and reduction, from the modules above: these are instances `MP` and `RP` with the
  numbers of the library, and the same as its `Multiplication` and `Reduction`
  (`SameMultiplication`, `SameReduction`).
- Integers with types (`ExactOK`). `Exact` says that the value is the one that it has for integers;
  `BigInv` adds that it is one of the type's values (`Values`), so that writing it changes nothing
  (`StoredOK`). There is a lemma for each operator, and in it the number of bits that the
  code computes for the result has to be enough: the sum of a signed and an unsigned number is
  the delicate case (`SumRoom`), and the least signed number, whose negation wraps around, still
  has its absolute value (`LeastOK`).
- Greatest common divisors (`DivisorsOK`). In the extended algorithm's loop, `RemainderInv` has
  Bezout's identity for both remainders, with the signs of the round, and that remainders and
  coefficients make both operands again as sums of products of natural numbers. So no
  coefficient is ever more than the other operand, and what is written always fits
  (`IterateFits`); at the end, when one remainder is zero, the other one divides both operands.
  In the binary algorithm's loop, `BinaryInv` says that both numbers are odd and that odd numbers
  divide both of them if they divide both operands. What is left at the end gets the twos that
  the operands have in common: no common divisor has more of them (`FewerTwos`), and the result
  is not more than an operand (`WithTwos`). Where the proof needs induction on a number, it takes
  the least element of a set of numbers (`LeastOfSet`, from the library's theorems on
  finite sets).
- Division (`DivisionOK`). `QuotientRemainder` and `TwoCorrections` speak of what comes out;
  `DivisionInv` says of each round that what is left of the numerator and the quotient's limbs
  from `window` on, times the denominator, make the numerator, and that the limbs below have room
  for the rest (`LeftOver`). Within a round, the part has one limb more than the denominator
  (`PartInv`), and the estimate is never too small, and too large by as many as there are
  corrections left at most (`EstimateInv`). It is true at first by `DigitEstimate`: the shifted
  denominator is at least half of what its limbs hold (`ScaledOK`), so that its highest limb and
  the two highest of the part tell enough. For that, `bit_width` and `limb_size_for` have to be
  what they say (`WidthCount`, `SizeOK`). A digit is written next to the limbs that are there
  (`PutStep`, `DigitRoom`), whatever is in the lower ones, and shifting back changes neither the
  quotient nor, times the scale, the remainder (`Unscaled`). `Fail` is reached only without a
  quotient, since with one its limbs would have room.
- Functions on bits (`BitFunctionsOK`). `BitsWritten` and `Counted` speak of the end only. Of a
  function that writes, `UpwardInv` and `DownwardInv` say that the limbs that it has been at are
  those of the number that is wanted (`Wanted`), and that the limbs that it has not reached are,
  in place, still those of the operand. A shift reads limbs at its own and on the side that it
  goes to, so that it never reads what it wrote; this is why `shift_left` begins at the highest
  limb. `WidthInv` says of `bit_width` that the limbs so far are only the sign's, or that the
  result is the width of the number without its sign (`Magnitude`); `ZerosInv` says of
  `countr_zero` that the result is the number of bits so far and all of them are zero, or that
  the lowest bit that is not zero is known.

`ExecutionTypeOK` and `DistinctNoncesOK` are about an instance of `Execution` (`Queue`), for all
programs. That nonces differ is not inductive; `NonceInv` adds
that those of kernels that draw lie below the queue's nonce (`NoncesBelow`). It needs that a
kernel has an element at least (`KernelSizes`), which is what `ProgramAssumption` says of
shapes; it is a hypothesis of the theorems, and TLC evaluates it for the programs of the runs.
The proof holds of nonces that do not wrap around. `Meant`, `OneValue` and `OwnLimbs` say
what recursive functions on a graph give, and are checked by TLC only.

The theorems on `Library` assume, besides `WordAssumption`, `PowerAssumption` and
`NumberAssumption`, that a limb has `limb_bit_size` bits and that each function's sizes are at
most those that there are laws of exponents for (`LibraryAssumption`); and the laws of exponents
of two, for the numbers of bits in an expression, in an operand of a divisor, in a number that is
divided, in twice a span of a function on bits, whose limbs a shift may look for, and in a limb
(`TwoAssumption`). These are facts of arithmetic, but a power is defined by recursion, which the
provers have no induction for. TLC evaluates both in the run.

`Residue`, `Transform`, `Structures`, `Calls` and liveness are checked by TLC
only. TLAPS has no proofs of liveness under fairness, such as that of `Termination` and `AllHeld`
in `Backpressure`. The definitions of `Structures` are recursive, as the code is, on values of
any depth, which the provers have no induction for.

## Findings

- `collective_hang`: an inconsistency is logged by the consistency task, but
  `ensure_consistency` never returns.
- `collective_loss`: a Queue can be dropped with its last messages unsent.
- `backpressure_streams`: a multi-broadcast of more messages than streams and
  channels hold comes to stand.
- `calls_all_to_all`: `all_to_all` with one tensor for each party
  (`hmpc/net/queue.hpp:699`) copies nothing, calls nothing and returns storage for
  results without contents. Its function of the C interface is there, but nothing calls
  it. The overloads with several values or structures do exchange.
- `queue_order`: in one call of `r + x` and `r`, the kernel of `r + x` reads `r`'s tensor
  before anything is written to it. An expression of the call comes into the cache where
  it stands in the call (`expr/cache.hpp:202` has a TODO on it), while `state` asks the
  whole cache (`comp/queue.hpp:295`). With `r` first, or used twice, all is well.

More things that the models show are no contradiction to anything written. Some calls of
`%` on `bigint` divide without memory for a quotient and yet write a limb of it, which
`Division` has as the action `Fail`: 8 % 1 with limbs of 3 bits; with limbs of 32 bits, a
modulus of 2^64 - 2^48 + 1 and some numerators. It is the assertion
`HMPC_COMPILETIME_ASSERT(index < limb_size)`, so such a call does not go unnoticed, and
`QuotientRemainder` allows it to a call without a quotient only. `Joined` in `Calls` turns one error into `multiple_errors` as soon as another task ends
after it, well or not, so that callers hardly ever see the code of the error; and the C
interface accepts a call without pointers for any party, or of a party outside of the
communicator, which then meets an assertion of the Queue (`Abort`).

Reading the code for `Comparison`, `BitFunctions`, `Arithmetic` and `Residue` brought up
more, which no run states; the models have it as the code does it, or leave such operands out:

- `equal_to` and an order may disagree on operands of different sizes of which one is signed:
  with equal limbs in the size that they have in common, 63u equals -1 and -1 is less than it.
- `has_single_bit` counts limbs that have a single bit, not bits (a TODO at
  `core/num/has_single_bit.hpp:16`).
- The sum of a signed and an unsigned integer lacks a bit if the unsigned one is not the
  shorter one (`HasRoom` in `Arithmetic`); an unsigned integer minus one of no bits is signed,
  of the same size; the negation of the least signed integer has no room.
- A conversion to a signed type with fewer bits leaves bits above the sign in the limb
  (`Stored` in `BigInts`): the sign is extended with ones only.
- A signed integer shifted right by all of its bits has no bits left, so -1 becomes 0.
- `extended_euclidean` leaves the left coefficient unreduced if the right operand divides the
  left one.
- Multiplication of signed integers does not compile.

And for `Connections`:

- A configuration file that cannot be read gives C++ a null handle. `session_from_env` then
  sets nothing and returns `false`, and `queue_init` reads the default file, with its session.
- The session of the environment (`docs/features.md:19`) is used only by a program that
  calls `session_from_env`.
- A lost connection stays in `outgoing`, and every later message to that party fails. A
  handshake that times out panics the client task, and every later message to anybody fails.
  The panic closes the connections to other parties, too: a message to one of these that was
  answered `Ok` may never arrive, while both Queues are up.

Reading the code for `Execution` brought up what no run states:

- `dec_expression` has no check that an element exists, which `enc_expression` has
  (`i < element_count`): its last batch, if it is not full, reads and writes beyond the
  tensors. The model drops these writes, and the programs decrypt full batches.
- A work item that draws more limbs than a block has goes on in the block of the next
  element. `OwnLimbs` holds up to a block for each work item, and the programs keep to it.
- The counter of 32 bits wraps around with 2^32 elements or more.
- An expression that is given to a call twice is moved from twice
  (a TODO at `comp/queue.hpp:472`).
- A matrix with a placeholder for its batch, in a product with vectors, is declared to be
  accessed once, though each of its elements is evaluated for several vectors.

## Limits

- TLS, certificates, malformed messages, those of another version or set of features, and
  messages of the wrong size are not modelled. `Connections` has the features `sessions` on
  and consistency checks off, and of a message only its name; `Collective` takes connections
  as made. The panic of the server task on a failed handshake ends that task only, which has
  done nothing yet, and is left out.
- Identifiers are injective in hash and counter, up to the wrap-around of 64 bits.
- In `Calls`, what an accepted call of another program does is not modelled, only that it
  is accepted; all errors of a task have one code; the checks of consistency are left to
  `Collective`; a shape is a size, the same for all parties.
- Parties run the same program. What happens when they do not is not modelled.
- In `LongAddition`, `LongMultiplication`, `Montgomery` and `Division`, numbers have whole
  limbs: masking of the unused bits of a last limb (`access::normal`, `unnormal`) is in
  `BigInts`, `Euclid` and `Residue`, on numbers. A span that begins within
  another one is left out. Operands of `add` and `subtract` are disjoint or the same.
- `bit_and`, `bit_or`, `bit_xor`, literals and formats are not modelled.
- `Transform` takes the root of unity that the random search finds as any of the roots that it
  may find. In `Residue`, moduli are odd, prime or not, and inverses are taken where there is one.
- `Execution` leaves out vectors, the number theoretic transform (which is in `Transform`,
  with the additional tensors), bit monomials, absolute values and expressions of shares. C++
  leaves the order of operands open; here it is left to right. Nonces and counters do not
  wrap around. That kernels with a common buffer run in order is SYCL's promise.
- In `Montgomery`, the subtraction at the end is one step; it is a call of `subtract`,
  which `LongAddition` models.

## Plan

Done: communication (`Consistency`, `MessageBuffer`, `Exchange`, `Collective`,
`Backpressure`, `Configuration`, `Connections`), the edge (`Structures`, `Calls`), long
integers (`Words`, `LongAddition`, `LongMultiplication`, `Montgomery`, `Division`,
`Comparison`, `BitFunctions`, `Euclid`), numbers (`BigInts`, `Arithmetic`, `Residue`,
`Transform`) and local computation (`Indices`, `Expressions`, `Execution`), with proofs about
`Consistency`, `MessageBuffer`, `Collective` (with the refinement of `Exchange`),
`Backpressure`, `Connections`, addition, multiplication, reduction, comparison, typed integers,
greatest common divisors, division, functions on bits and the nonces of `Execution`. Next, in
this order:

1. More proofs: that index and linear index are inverse to each other, so that the elements of
   a kernel have counters of their own (with `DistinctNonces`, the reason for `OwnLimbs`).
2. Messages of a wrong size, and programs that differ between parties, in `Collective`: who
   finds out, and who waits forever.
3. Vectors and `reduce` in `Execution`, shares (`expr/mpc/share.hpp`), and the composition of
   `Transform` with the execution cache.
4. `bit_and`, `bit_or`, `bit_xor` and literals, in `BitFunctions`.
