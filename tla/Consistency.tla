------------------------------ MODULE Consistency ------------------------------
(***************************************************************************)
(* The consistency checks of collective communication                      *)
(* (hmpc-rs/src/net/consistency.rs), one task per party, for all parties.  *)
(*                                                                         *)
(* Every party that receives a broadcast or all-gather message tells every *)
(* other receiver the hash of the data it got.  A party's Queue asks its   *)
(* task to check a message (Request) and, before it sends anything, waits  *)
(* until all checks it asked for are over (Wait).  Requests, data and      *)
(* checks reach a task in any order.                                       *)
(*                                                                         *)
(* A task takes one command at a time from its channel and does not take   *)
(* the next one while it is telling the other receivers.  Sending a        *)
(* command and taking it from the channel is one step here: the senders    *)
(* see nothing of the task but the answer to a Wait.                       *)
(***************************************************************************)
EXTENDS Naturals, FiniteSets

CONSTANTS
  Party,         \* the parties
  Key,           \* ConsistencyCheckKey: one checked message (kind, datatype, sender, id)
  Receivers,     \* Receivers[k]: the parties that k's sender sends its data to
  Hash,          \* hashes of data
  Inconsistent,  \* the messages whose data may differ between receivers
  MaxFailures,   \* bound: how many checks may fail to be sent or be lost
  None,          \* Option::None
  Absent,        \* no entry in the map of receivers
  Vacant         \* no entry in the map of checks

\* ConsistencyCheckValue; receivers maps a party to Absent, None or its hash.
Value == [received   : Hash \cup {None},
          receivers  : [Party -> Hash \cup {None, Absent}],
          registered : BOOLEAN]

ASSUME ConsistencyAssumption ==
  /\ Receivers \in [Key -> SUBSET Party]
  /\ Inconsistent \subseteq Key
  /\ MaxFailures \in Nat
  /\ Hash # {}
  /\ None \notin Hash
  /\ Absent \notin Hash
  /\ None # Absent
  /\ Vacant \notin Value

VARIABLES
  consistency,   \* consistency[p][k]: p's entry for k, or Vacant
  openRequests,  \* openRequests[p]: p's Queue waits for an answer
  notify,        \* notify[p][k]: the receivers p's task has yet to tell about k
  checks,        \* check messages on their way
  failures,      \* number of checks that were lost or could not be sent
  received,      \* history: the hash of the data p got for k, or None
  requested,     \* history: the messages p's task was asked to check
  confirmed      \* history: the messages some answer to p's Queue vouched for

vars == <<consistency, openRequests, notify, checks, failures, received, requested, confirmed>>

-----------------------------------------------------------------------------
(* ConsistencyCheckValue *)

\* The parties p expects a check of k from.
Others(p, k) == Receivers[k] \ {p}

NewRequest(rs) ==
  [received |-> None, receivers |-> [q \in Party |-> IF q \in rs THEN None ELSE Absent], registered |-> TRUE]

NewReceived(q, h) ==
  [received |-> None, receivers |-> [r \in Party |-> IF r = q THEN h ELSE Absent], registered |-> FALSE]

NewReceivedData(h) ==
  [received |-> h, receivers |-> [q \in Party |-> Absent], registered |-> FALSE]

Keys(v) == {q \in Party : v.receivers[q] # Absent}

\* A check from a party outside rs is an error: it is dropped and v stays unregistered.
Register(v, rs) ==
  IF v.registered THEN v
  ELSE [v EXCEPT !.registered = Keys(v) \subseteq rs,
                 !.receivers  = [q \in Party |-> IF q \notin rs THEN Absent
                                                 ELSE IF v.receivers[q] = Absent THEN None
                                                 ELSE v.receivers[q]]]

\* Mutants: tell the parties before the data is there; tell them only once they all told p.
RegisterReady_NoData(v, rs) == ~v.registered /\ Keys(v) \subseteq rs
RegisterReady_AllTold(v, rs) == ~v.registered /\ Keys(v) = rs /\ v.received # None

\* Register returns Ok(true): the parties can be told now.
RegisterReady(v, rs) == ~v.registered /\ Keys(v) \subseteq rs /\ v.received # None

\* The first check of a party that is expected, or may still turn out to be.
Receive(v, q, h) ==
  IF v.receivers[q] = None \/ (v.receivers[q] = Absent /\ ~v.registered)
  THEN [v EXCEPT !.receivers[q] = h]
  ELSE v

ReceiveData(v, h) == IF v.received = None THEN [v EXCEPT !.received = h] ELSE v

Arrived(v) == {q \in Party : v.receivers[q] \notin {Absent, None}}

\* Mutant: the hashes are not compared.
CheckPasses_NoCompare(v) == v.registered /\ v.received # None

\* Ok(true): every check that is there agrees with the data.
CheckPasses(v) ==
  /\ v.registered
  /\ v.received # None
  /\ \A q \in Arrived(v) : v.receivers[q] = v.received

\* Mutant: the receivers that have not told anything are dropped, too.
Check_DropPending(v) ==
  IF CheckPasses(v) THEN [v EXCEPT !.receivers = [q \in Party |-> Absent]] ELSE v

\* An error leaves all checks where they are.
Check(v) ==
  IF CheckPasses(v)
  THEN [v EXCEPT !.receivers = [q \in Party |-> IF q \in Arrived(v) THEN Absent ELSE v.receivers[q]]]
  ELSE v

\* Mutant: does not look whether parties are left.
IsDone_NotEmpty(v) == v.registered /\ v.received # None

IsDone(v) == v.registered /\ v.received # None /\ Keys(v) = {}

-----------------------------------------------------------------------------
(* The task's loop *)

Init ==
  /\ consistency = [p \in Party |-> [k \in Key |-> Vacant]]
  /\ openRequests = [p \in Party |-> FALSE]
  /\ notify = [p \in Party |-> [k \in Key |-> {}]]
  /\ checks = {}
  /\ failures = 0
  /\ received = [p \in Party |-> [k \in Key |-> None]]
  /\ requested = [p \in Party |-> {}]
  /\ confirmed = [p \in Party |-> {}]

\* p's task waits for its next command.
Idle(p) == \A k \in Key : notify[p][k] = {}

\* No check that was asked for is open in p's map of entries.
IsConsistent(entries) == \A k \in Key : entries[k] # Vacant => ~entries[k].registered

\* Mutant: looks for open checks before the entry is removed.
Settle_StaleMap(p, k, v) ==
  LET entries == [consistency[p] EXCEPT ![k] = IF IsDone(Check(v)) THEN Vacant ELSE Check(v)]
      answer  == openRequests[p] /\ IsConsistent(consistency[p])
  IN  /\ consistency' = [consistency EXCEPT ![p] = entries]
      /\ openRequests' = [openRequests EXCEPT ![p] = @ /\ ~answer]
      /\ confirmed' = [confirmed EXCEPT ![p] = IF answer THEN @ \cup requested[p] ELSE @]

\* The end of every handler that found an entry for k, now v.
Settle(p, k, v) ==
  LET entries == [consistency[p] EXCEPT ![k] = IF IsDone(Check(v)) THEN Vacant ELSE Check(v)]
      answer  == openRequests[p] /\ IsConsistent(entries)
  IN  /\ consistency' = [consistency EXCEPT ![p] = entries]
      /\ openRequests' = [openRequests EXCEPT ![p] = @ /\ ~answer]
      /\ confirmed' = [confirmed EXCEPT ![p] = IF answer THEN @ \cup requested[p] ELSE @]

\* A handler that found an entry for k, now v: tell the parties rs, then settle.
Proceed(p, k, v, rs) ==
  \/ /\ rs # {}
     /\ consistency' = [consistency EXCEPT ![p][k] = v]
     /\ notify' = [notify EXCEPT ![p][k] = rs]
     /\ UNCHANGED <<openRequests, confirmed>>
  \/ /\ rs = {}
     /\ Settle(p, k, v)
     /\ UNCHANGED notify

\* A handler that found no entry for k.
Insert(p, k, v) ==
  /\ consistency' = [consistency EXCEPT ![p][k] = v]
  /\ UNCHANGED <<openRequests, notify, confirmed>>

\* p's Queue, which does nothing else while it waits, is about to receive k.
Request(p, k) ==
  /\ Idle(p)
  /\ ~openRequests[p]
  /\ p \in Receivers[k]
  /\ k \notin requested[p]
  /\ \/ /\ consistency[p][k] = Vacant
        /\ Insert(p, k, NewRequest(Others(p, k)))
     \/ /\ consistency[p][k] # Vacant
        /\ Proceed(p, k, Register(consistency[p][k], Others(p, k)),
                   IF RegisterReady(consistency[p][k], Others(p, k)) THEN Others(p, k) ELSE {})
  /\ requested' = [requested EXCEPT ![p] = @ \cup {k}]
  /\ UNCHANGED <<checks, failures, received>>

\* What k's sender may have sent to a receiver.
Payload(k) == IF k \in Inconsistent THEN Hash ELSE {CHOOSE h \in Hash : TRUE}

\* p's server hands on k's data, with hash h.
ReceivedData(p, k, h) ==
  /\ Idle(p)
  /\ p \in Receivers[k]
  /\ received[p][k] = None
  /\ \/ /\ consistency[p][k] = Vacant
        /\ Insert(p, k, NewReceivedData(h))
     \/ /\ consistency[p][k] # Vacant
        /\ LET v == consistency[p][k]
           IN  Proceed(p, k, ReceiveData(v, h),
                       IF v.received = None /\ v.registered THEN Keys(v) ELSE {})
  /\ received' = [received EXCEPT ![p][k] = h]
  /\ UNCHANGED <<checks, failures, requested>>

\* p's server hands on another receiver's check c.
ReceivedCheck(p, c) ==
  /\ Idle(p)
  /\ c.to = p
  /\ checks' = checks \ {c}
  /\ \/ /\ consistency[p][c.key] = Vacant
        /\ Insert(p, c.key, NewReceived(c.from, c.hash))
     \/ /\ consistency[p][c.key] # Vacant
        /\ Settle(p, c.key, Receive(consistency[p][c.key], c.from, c.hash))
        /\ UNCHANGED notify
  /\ UNCHANGED <<failures, received, requested>>

\* The handler goes on to settle k when it has told all of the parties.
NotifyDone(p, k, rs) ==
  /\ notify' = [notify EXCEPT ![p][k] = rs]
  /\ \/ /\ rs # {}
        /\ UNCHANGED <<consistency, openRequests, confirmed>>
     \/ /\ rs = {}
        /\ Settle(p, k, consistency[p][k])
  /\ UNCHANGED <<received, requested>>

\* notify_parties: the client reports that the check for q is written.
NotifyParty(p, k, q) ==
  /\ q \in notify[p][k]
  /\ checks' = checks \cup {[from |-> p, to |-> q, key |-> k, hash |-> consistency[p][k].received]}
  /\ NotifyDone(p, k, notify[p][k] \ {q})
  /\ UNCHANGED failures

\* notify_parties: the client reports an error, the parties left are not told.
NotifyFails(p, k) ==
  /\ notify[p][k] # {}
  /\ failures < MaxFailures
  /\ failures' = failures + 1
  /\ NotifyDone(p, k, {})
  /\ UNCHANGED checks

\* A connection breaks down with a check on it.
LoseCheck(c) ==
  /\ failures < MaxFailures
  /\ failures' = failures + 1
  /\ checks' = checks \ {c}
  /\ UNCHANGED <<consistency, openRequests, notify, received, requested, confirmed>>

\* ensure_consistency: answered at once, or when the last open check is over.
Wait(p) ==
  /\ Idle(p)
  /\ ~openRequests[p]
  /\ \/ /\ IsConsistent(consistency[p])
        /\ confirmed' = [confirmed EXCEPT ![p] = @ \cup requested[p]]
        /\ UNCHANGED openRequests
     \/ /\ ~IsConsistent(consistency[p])
        /\ openRequests' = [openRequests EXCEPT ![p] = TRUE]
        /\ UNCHANGED confirmed
  /\ UNCHANGED <<consistency, notify, checks, failures, received, requested>>

Next ==
  \/ \E p \in Party, k \in Key :
       \/ Request(p, k)
       \/ \E h \in Payload(k) : ReceivedData(p, k, h)
       \/ \E q \in Party : NotifyParty(p, k, q)
       \/ NotifyFails(p, k)
  \/ \E c \in checks : \E p \in Party : ReceivedCheck(p, c)
  \/ \E c \in checks : LoseCheck(c)
  \/ \E p \in Party : Wait(p)

Spec == Init /\ [][Next]_vars

-----------------------------------------------------------------------------
(* Properties *)

Checks == [from : Party, to : Party, key : Key, hash : Hash]

\* The task's maps and the messages in flight hold values of the code's types.
TypeOK ==
  /\ consistency \in [Party -> [Key -> Value \cup {Vacant}]]
  /\ openRequests \in [Party -> BOOLEAN]
  /\ notify \in [Party -> [Key -> SUBSET Party]]
  /\ checks \subseteq Checks
  /\ failures \in Nat
  /\ received \in [Party -> [Key -> Hash \cup {None}]]
  /\ requested \in [Party -> SUBSET Key]
  /\ confirmed \in [Party -> SUBSET Key]

\* q has received the same data for k as p.
SameData(p, q, k) == received[p][k] \in Hash /\ received[q][k] = received[p][k]

\* All receivers of k have the data that p received.
AllAgree(p, k) == \A q \in Others(p, k) : SameData(p, q, k)

\* When ensure_consistency returns Ok (queue.rs 147-156), the data of every message
\* received before has reached all of its receivers and is the same everywhere.
Agreement == \A p \in Party : \A k \in confirmed[p] : AllAgree(p, k)

\* A Queue never waits for a task that has nothing left to wait for: waiters are
\* answered by the handler that ends the last open check (notify_requests).
NoStrandedWaiter ==
  \A p \in Party : openRequests[p] /\ Idle(p) => ~IsConsistent(consistency[p])

\* p's task can still take q's check of k: it has not come yet, and there is an entry, or
\* will be one, that it belongs to.
Expects(p, q, k) ==
  LET v == consistency[p][k]
  IN  IF v = Vacant THEN k \notin requested[p]
      ELSE v.receivers[q] = IF v.registered THEN None ELSE Absent

\* The errors MultipleChecks and UnknownCheck are for parties that do not follow the
\* protocol: a check in flight fits what its receiver has asked for or already holds,
\* and it never comes after the end of its check, to an entry nobody would remove.
ChecksExpected == \A c \in checks : Expects(c.to, c.from, c.key)

\* The inductive invariant behind Agreement.

\* A check in flight comes from a receiver of its message and tells its sender's hash.
ChecksTrue ==
  \A c \in checks : c.from \in Others(c.to, c.key) /\ received[c.from][c.key] = c.hash

\* v holds what was really received for k: p's own data and the others' hashes.
EntryTrue(p, k, v) ==
  /\ v.received # None => v.received = received[p][k]
  /\ v.registered => k \in requested[p]
  /\ Keys(v) \subseteq Others(p, k)
  /\ \A q \in Arrived(v) : v.receivers[q] = received[q][k]
  /\ v.registered => \A q \in Others(p, k) : q \in Keys(v) \/ SameData(p, q, k)

EntriesTrue ==
  \A p \in Party, k \in Key :
    consistency[p][k] # Vacant => EntryTrue(p, k, consistency[p][k])

\* A message that was asked for is open, or its receivers agree.
RequestKept(p, k) ==
  \/ consistency[p][k] # Vacant /\ consistency[p][k].registered
  \/ AllAgree(p, k)

RequestsKept == \A p \in Party : \A k \in requested[p] : RequestKept(p, k)

\* Only data that is there is told to others.
NotifyReady ==
  \A p \in Party, k \in Key : notify[p][k] # {} =>
    /\ consistency[p][k] # Vacant
    /\ consistency[p][k].received # None
    /\ p \in Receivers[k]
    /\ notify[p][k] \subseteq Others(p, k)

AgreementInv == TypeOK /\ ChecksTrue /\ EntriesTrue /\ RequestsKept /\ NotifyReady /\ Agreement

\* p was asked to check k and has its data, so that it tells the other receivers.
Ready(p, k) == k \in requested[p] /\ received[p][k] # None

OnTheWay(p, q, k) == \E c \in checks : c.from = p /\ c.to = q /\ c.key = k

\* Unless a connection fails, a receiver that has been asked to check k and has k's data
\* owes nobody: the other receivers have its check, or it is on its way, or about to be.
NothingOwed ==
  \A p \in Party, k \in Key :
    failures = 0 /\ Ready(p, k) =>
      \A q \in Others(p, k) : q \in notify[p][k] \/ OnTheWay(p, q, k) \/ ~Expects(q, p, k)

\* The inductive invariant behind ChecksExpected and NothingOwed: an entry says exactly what
\* p's task was asked and given, and a check that p has not sent is one that q expects.

EntryExact(p, k) ==
  LET v == consistency[p][k]
  IN  IF v = Vacant THEN k \in requested[p] <=> received[p][k] # None
      ELSE /\ v.received = received[p][k]
           /\ v.registered <=> k \in requested[p]
           /\ ~v.registered => \A q \in Party : v.receivers[q] # None

EntriesExact == \A p \in Party, k \in Key : EntryExact(p, k)

\* p's task is through with telling q about k.
Told(p, q, k) == Ready(p, k) /\ q \notin notify[p][k]

UntoldExpected ==
  \A p \in Party, k \in Key : p \in Receivers[k] =>
    \A q \in Others(p, k) : ~Told(p, q, k) => Expects(q, p, k) /\ ~OnTheWay(p, q, k)

NotifyRequested == \A p \in Party, k \in Key : notify[p][k] # {} => k \in requested[p]

RequestsMeant == \A p \in Party : \A k \in requested[p] : p \in Receivers[k]

TellingInv ==
  /\ EntriesExact
  /\ UntoldExpected
  /\ NotifyRequested
  /\ RequestsMeant
  /\ ChecksExpected
  /\ NothingOwed

\* The inductive invariant behind NoStrandedWaiter: a waiter has an open check.
WaitersWait == \A p \in Party : openRequests[p] => ~IsConsistent(consistency[p])

=============================================================================
