--------------------------- MODULE CollectiveProofs ---------------------------
(***************************************************************************)
(* Proofs about collective communication: for all programs of operations,  *)
(* parties and hashes, it does what Exchange promises, and what a Queue    *)
(* that is gone has received is the same everywhere.                       *)
(*                                                                         *)
(* What the consistency tasks and the message buffer do is proved in       *)
(* modules of their own, which are used here as instances.                 *)
(***************************************************************************)
EXTENDS Collective, FiniteSetTheorems, FunctionTheorems, WellFoundedInduction, TLAPS

CP == INSTANCE ConsistencyProofs WITH
        Key <- CheckKey, Receivers <- CheckReceivers, Inconsistent <- InconsistentKeys, MaxFailures <- 0
MP == INSTANCE MessagesProofs WITH
        Task <- Transfer, Data <- Content, openRequests <- openReceives,
        \* There is a message buffer only.
        Numerals <- {}, Scenarios <- {}, Idle <- None, part <- "buffer",
        scenario <- None, run <- None, queue <- None, client <- None, commands <- None,
        outgoing <- None, message <- None, streams <- None, lost <- None, faults <- None,
        got <- None

-----------------------------------------------------------------------------
(* Transfers *)

\* An operation has a kind and a finite list of messages.
LEMMA OperationOK ==
  ASSUME NEW o \in DOMAIN Program
  PROVE  /\ o \in Nat /\ o \in 1 .. Len(Program) /\ Len(Program) \in Nat
         /\ Program[o] \in Operation /\ Program[o].kind \in Kind
         /\ DOMAIN Program[o].ends = 1 .. Len(Program[o].ends)
         /\ Len(Program[o].ends) \in Nat
         /\ IsFiniteSet(DOMAIN Program[o].ends)
<1>1. Program[o] \in Operation /\ o \in Nat /\ o \in 1 .. Len(Program) /\ Len(Program) \in Nat
  BY CollectiveAssumption
<1>2. Program[o].kind \in Kind /\ Program[o].ends \in Seq(Party \cup {0})
  BY <1>1 DEF Operation
<1>3. DOMAIN Program[o].ends = 1 .. Len(Program[o].ends) /\ Len(Program[o].ends) \in Nat
  BY <1>2
<1>4. IsFiniteSet(DOMAIN Program[o].ends)
  <2> DEFINE n == Len(Program[o].ends)
  <2>1. n \in Int /\ 1 \in Int
    BY <1>3
  <2>2. DOMAIN Program[o].ends = 1 .. n
    BY <1>3
  <2> HIDE DEF n
  <2>3. IsFiniteSet(1 .. n)
    BY <2>1, FS_Interval
  <2> QED BY <2>2, <2>3
<1> QED BY <1>1, <1>2, <1>3, <1>4

\* Whether p is one of the two parties of x.
Touches(p, x) == x.from = p \/ x.to = p

\* A transfer belongs to a message of an operation, and moves data from a party to another.
LEMMA TransferOK ==
  ASSUME NEW x \in Transfer
  PROVE  /\ x.op \in DOMAIN Program /\ x.element \in DOMAIN Program[x.op].ends
         /\ <<x.from, x.to>> \in Pairs(x.op, x.element)
         /\ x \in Transfers(x.op, x.element)
         /\ x = [op |-> x.op, element |-> x.element, from |-> x.from, to |-> x.to]
         /\ x.from \in Party /\ x.to \in Party /\ x.from # x.to
         /\ x.op \in 1 .. Len(Program) /\ x.op \in Nat /\ x.element \in Nat
<1>1. PICK o \in DOMAIN Program : x \in UNION {Transfers(o, e) : e \in DOMAIN Program[o].ends}
  BY DEF Transfer
<1>2. PICK e \in DOMAIN Program[o].ends : x \in Transfers(o, e)
  BY <1>1
<1>3. PICK pair \in Pairs(o, e) : x = [op |-> o, element |-> e, from |-> pair[1], to |-> pair[2]]
  BY <1>2 DEF Transfers
<1>4. Program \in Seq(Operation) /\ o \in 1 .. Len(Program) /\ o \in Nat
  BY CollectiveAssumption
<1>5. Program[o] \in Operation
  BY <1>4
<1>6. /\ Program[o].kind \in Kind /\ Program[o].ends \in Seq(Party \cup {0})
      /\ Program[o].senders \subseteq Party /\ Program[o].receivers \subseteq Party
  BY <1>5 DEF Operation
<1>7. e \in Nat /\ Program[o].ends[e] \in Party \cup {0}
  BY <1>6
<1>8. Program[o].kind \in {"broadcast", "gather"} => Program[o].ends[e] # 0
  BY CollectiveAssumption
<1>9. pair = <<pair[1], pair[2]>> /\ pair[1] \in Party /\ pair[2] \in Party /\ pair[1] # pair[2]
  <2>1. CASE Program[o].kind = "broadcast"
    <3>1. pair \in {Program[o].ends[e]} \X (Program[o].receivers \ {Program[o].ends[e]})
      BY <2>1 DEF Pairs
    <3> QED BY <1>6, <1>7, <1>8, <2>1, <3>1
  <2>2. CASE Program[o].kind = "gather"
    <3>1. pair \in (Program[o].senders \ {Program[o].ends[e]}) \X {Program[o].ends[e]}
      BY <2>2 DEF Pairs
    <3> QED BY <1>6, <1>7, <1>8, <2>2, <3>1
  <2>3. CASE Program[o].kind \notin {"broadcast", "gather"}
    <3>1. pair \in {q \in Program[o].senders \X Program[o].receivers : q[1] # q[2]}
      BY <2>3 DEF Pairs
    <3> QED BY <1>6, <3>1
  <2> QED BY <2>1, <2>2, <2>3
<1> QED
  BY <1>2, <1>3, <1>4, <1>7, <1>9

\* Transfers differ in the operation, the message or a party.
LEMMA TransferEqual ==
  ASSUME NEW x \in Transfer, NEW y \in Transfer,
         x.op = y.op, x.element = y.element, x.from = y.from, x.to = y.to
  PROVE  x = y
BY TransferOK

\* Between which parties data moves depends on no more than the identifier is hashed from.
LEMMA SamePairs ==
  ASSUME NEW o \in DOMAIN Program, NEW e \in DOMAIN Program[o].ends,
         NEW m \in DOMAIN Program, NEW f \in DOMAIN Program[m].ends,
         CounterKey(o, e) = CounterKey(m, f)
  PROVE  Pairs(o, e) = Pairs(m, f) /\ Program[o].kind = Program[m].kind
<1>1. Program[o] \in Operation /\ Program[m] \in Operation
  BY CollectiveAssumption
<1>2. /\ Program[o].kind = Program[m].kind
      /\ Program[o].senders = Program[m].senders
      /\ Program[o].receivers = Program[m].receivers
      /\ Program[o].ends[e] = Program[m].ends[f]
  BY <1>1 DEF CounterKey, Operation
<1> QED
  BY <1>2 DEF Pairs

\* Every pair of parties of a message has its transfer.
LEMMA TransferOfPair ==
  ASSUME NEW o \in DOMAIN Program, NEW e \in DOMAIN Program[o].ends, NEW pair \in Pairs(o, e)
  PROVE  [op |-> o, element |-> e, from |-> pair[1], to |-> pair[2]] \in Transfer
BY DEF Transfer, Transfers

\* What the set of a message's transfers holds are transfers.
LEMMA TransfersOK ==
  ASSUME NEW x \in Transfer, NEW y \in Transfers(x.op, x.element)
  PROVE  y \in Transfer /\ y.op = x.op /\ y.element = x.element
<1>1. x.op \in DOMAIN Program /\ x.element \in DOMAIN Program[x.op].ends
  BY TransferOK
<1> QED
  BY <1>1 DEF Transfer, Transfers

-----------------------------------------------------------------------------
(* Identifiers *)

\* There are finitely many messages.
LEMMA UsesFinite ==
  /\ IsFiniteSet(UNION {{<<o, e>> : e \in DOMAIN Program[o].ends} : o \in DOMAIN Program})
  /\ IsFiniteSet(CounterKeys)
  /\ \A key : IsFiniteSet(Uses(key))
<1> DEFINE uses(o) == {<<o, e>> : e \in DOMAIN Program[o].ends}
           keys(o) == {CounterKey(o, e) : e \in DOMAIN Program[o].ends}
           all     == UNION {uses(o) : o \in DOMAIN Program}
<1>1. IsFiniteSet(DOMAIN Program)
  BY CollectiveAssumption, FS_Interval
<1>2. ASSUME NEW o \in DOMAIN Program
      PROVE  IsFiniteSet(uses(o)) /\ IsFiniteSet(keys(o))
  <2> DEFINE ends == DOMAIN Program[o].ends
  <2>1. IsFiniteSet(ends)
    BY OperationOK
  <2> DEFINE f == [e \in ends |-> <<o, e>>]
             g == [e \in ends |-> CounterKey(o, e)]
  <2>2. f \in Surjection(ends, uses(o)) /\ g \in Surjection(ends, keys(o))
    BY DEF Surjection
  <2> HIDE DEF f, g
  <2> QED BY <2>1, <2>2, FS_Surjection
<1>3. /\ IsFiniteSet({uses(o) : o \in DOMAIN Program})
      /\ IsFiniteSet({keys(o) : o \in DOMAIN Program})
  <2> DEFINE f == [o \in DOMAIN Program |-> uses(o)]
             g == [o \in DOMAIN Program |-> keys(o)]
             usesOf == {uses(o) : o \in DOMAIN Program}
             keysOf == {keys(o) : o \in DOMAIN Program}
  <2>1. f \in Surjection(DOMAIN Program, usesOf) /\ g \in Surjection(DOMAIN Program, keysOf)
    BY DEF Surjection
  <2> HIDE DEF f, g, usesOf, keysOf
  <2>2. IsFiniteSet(usesOf) /\ IsFiniteSet(keysOf)
    BY <1>1, <2>1, FS_Surjection
  <2> QED BY <2>2 DEF usesOf, keysOf
<1>4. IsFiniteSet(all) /\ IsFiniteSet(UNION {keys(o) : o \in DOMAIN Program})
  BY <1>2, <1>3, FS_UNION
<1>5. ASSUME NEW key PROVE IsFiniteSet(Uses(key))
  <2>1. Uses(key) \subseteq all
    BY DEF Uses
  <2> QED BY <1>4, <2>1, FS_Subset
<1> QED
  BY <1>4, <1>5 DEF CounterKeys

\* Hashes tell keys apart.
LEMMA KeyHashOK == \A key, other \in CounterKeys : KeyHash[key] = KeyHash[other] => key = other
<1> DEFINE range == 1 .. Cardinality(CounterKeys)
           Distinct(f) == \A key, other \in CounterKeys : f[key] = f[other] => key = other
<1>1. ExistsBijection(range, CounterKeys)
  BY UsesFinite, FS_CardinalityType
<1>2. ExistsBijection(CounterKeys, range)
  BY <1>1, Fun_ExistsBijSymmetric
<1>3. PICK f \in [CounterKeys -> range] : Distinct(f)
  BY <1>2 DEF ExistsBijection, Bijection, Injection, IsInjective
<1>4. Distinct(CHOOSE g \in [CounterKeys -> range] : Distinct(g))
  BY <1>3
<1> QED
  BY <1>4 DEF KeyHash

\* The identifier of x's message.
Identifier(x) == <<KeyHash[CounterKey(x.op, x.element)], CountUpTo(x)>>

\* The messages that are counted up to that of x.
CountedUpTo(x) ==
  {u \in Uses(CounterKey(x.op, x.element)) : u[1] < x.op \/ (u[1] = x.op /\ u[2] <= x.element)}

\* Messages come one after the other, so that no two of one key have the same number.
LEMMA CountsDiffer ==
  ASSUME NEW x \in Transfer, NEW y \in Transfer,
         CounterKey(x.op, x.element) = CounterKey(y.op, y.element),
         x.op < y.op \/ (x.op = y.op /\ x.element < y.element)
  PROVE  CountUpTo(x) # CountUpTo(y)
<1>1. /\ x.op \in DOMAIN Program /\ x.element \in DOMAIN Program[x.op].ends
      /\ y.op \in DOMAIN Program /\ y.element \in DOMAIN Program[y.op].ends
      /\ x.op \in Nat /\ y.op \in Nat /\ x.element \in Nat /\ y.element \in Nat
  BY TransferOK
<1> DEFINE key == CounterKey(y.op, y.element)
           u   == <<y.op, y.element>>
<1>2. IsFiniteSet(CountedUpTo(y))
  <2>1. CountedUpTo(y) \subseteq Uses(key)
    BY DEF CountedUpTo
  <2> QED BY <2>1, UsesFinite, FS_Subset
<1>3. \A v \in Uses(key) : v[1] \in Nat /\ v[2] \in Nat
  <2>1. \A o \in DOMAIN Program : o \in Nat /\ DOMAIN Program[o].ends \subseteq Nat
    BY OperationOK
  <2> QED BY <2>1 DEF Uses
<1>4. CountedUpTo(x) \subseteq CountedUpTo(y)
  BY <1>1, <1>3 DEF CountedUpTo
<1>5. u \in CountedUpTo(y)
  BY <1>1 DEF CountedUpTo, Uses
<1>6. u \notin CountedUpTo(x)
  BY <1>1 DEF CountedUpTo
<1>7. Cardinality(CountedUpTo(x)) # Cardinality(CountedUpTo(y))
  BY <1>2, <1>4, <1>5, <1>6, FS_Subset
<1> QED
  BY <1>7 DEF CountUpTo, CountedUpTo

\* An identifier belongs to one message only.
LEMMA IdentifierOK ==
  ASSUME NEW x \in Transfer, NEW y \in Transfer, Identifier(x) = Identifier(y)
  PROVE  x.op = y.op /\ x.element = y.element
<1>1. /\ x.op \in DOMAIN Program /\ x.element \in DOMAIN Program[x.op].ends
      /\ y.op \in DOMAIN Program /\ y.element \in DOMAIN Program[y.op].ends
      /\ x.op \in Nat /\ y.op \in Nat /\ x.element \in Nat /\ y.element \in Nat
  BY TransferOK
<1>2. KeyHash[CounterKey(x.op, x.element)] = KeyHash[CounterKey(y.op, y.element)]
      /\ CountUpTo(x) = CountUpTo(y)
  BY DEF Identifier
<1>3. CounterKey(x.op, x.element) \in CounterKeys /\ CounterKey(y.op, y.element) \in CounterKeys
  BY <1>1 DEF CounterKeys
<1>4. CounterKey(x.op, x.element) = CounterKey(y.op, y.element)
  BY <1>2, <1>3, KeyHashOK
<1> QED
  BY <1>1, <1>2, <1>4, CountsDiffer

\* A message names the transfer that it is for.
LEMMA ExpectedOK ==
  /\ \A x \in Transfer :
       /\ Expected(x) \in Message
       /\ Expected(x) = [kind |-> Program[x.op].kind, sender |-> x.from, receiver |-> x.to,
                         id |-> Identifier(x)]
  /\ \A x, y \in Transfer : Expected(x) = Expected(y) => x = y
<1>1. \A x \in Transfer :
        Expected(x) = [kind |-> Program[x.op].kind, sender |-> x.from, receiver |-> x.to,
                       id |-> Identifier(x)]
  BY DEF Expected, ToMessage, Identifier
<1>2. ASSUME NEW x \in Transfer, NEW y \in Transfer, Expected(x) = Expected(y) PROVE x = y
  <2>1. x.from = y.from /\ x.to = y.to /\ Identifier(x) = Identifier(y)
    BY <1>1, <1>2
  <2> QED BY <2>1, IdentifierOK, TransferEqual
<1> QED
  BY <1>1, <1>2 DEF Message

-----------------------------------------------------------------------------
(* Operations *)

\* A set of numbers has a least one.
LEMMA LeastNumber ==
  ASSUME NEW S \in SUBSET Nat, S # {}
  PROVE  \E n \in S : \A m \in S : n <= m
<1>1. PICK n \in S : \A m \in S : ~(<<m, n>> \in OpToRel(<, Nat))
  BY NatLessThanWellFounded, WFMin
<1>2. \A m \in S : ~(m < n)
  BY <1>1 DEF OpToRel
<1> QED
  BY <1>2

\* A party skips only operations without transfers of its own.
LEMMA NextOperationOK ==
  ASSUME NEW p \in Party, NEW o \in 0 .. Len(Program)
  PROVE  /\ NextOperation(p, o) \in 1 .. Len(Program) + 1
         /\ NextOperation(p, o) > o
         /\ \A x \in Transfer : x.op > o /\ x.op < NextOperation(p, o) => ~Touches(p, x)
<1> DEFINE range == (o + 1) .. (Len(Program) + 1)
           Due(n)  == n <= Len(Program) => p \in Members(n)
           Next1(n) == Due(n) /\ \A m \in (o + 1) .. (n - 1) : p \notin Members(m)
           due     == {n \in range : Due(n)}
<1>1. Len(Program) \in Nat /\ o \in Nat
  BY CollectiveAssumption
<1>2. Len(Program) + 1 \in due /\ due \subseteq Nat
  BY <1>1
<1>3. PICK n \in due : \A m \in due : n <= m
  BY <1>2, LeastNumber
<1>4. n \in range /\ Next1(n)
  <2>1. ASSUME NEW m \in (o + 1) .. (n - 1) PROVE p \notin Members(m)
    <3>1. m \in range /\ m < n /\ n \in Nat /\ m \in Nat
      BY <1>1, <1>3
    <3>2. m \notin due
      BY <1>3, <3>1
    <3> QED BY <3>1, <3>2
  <2> QED BY <1>3, <2>1
<1> DEFINE next == NextOperation(p, o)
<1>5. next = CHOOSE m \in range : Next1(m)
  BY DEF NextOperation
<1>6. next \in range /\ Next1(next)
  BY <1>4, <1>5
<1> HIDE DEF next
<1>7. \A x \in Transfer : Touches(p, x) => p \in Members(x.op)
  BY DEF Members, Touches
<1>8. ASSUME NEW x \in Transfer, x.op > o, x.op < next PROVE ~Touches(p, x)
  <2>1. x.op \in Nat /\ next \in Int
    <3>1. x.op \in Nat
      BY TransferOK
    <3>2. next \in Int
      BY <1>1, <1>6
    <3> QED BY <3>1, <3>2
  <2>2. x.op \in (o + 1) .. (next - 1)
    BY <1>1, <1>8, <2>1
  <2> QED BY <1>6, <1>7, <2>2
<1> QED
  BY <1>1, <1>6, <1>8 DEF next

\* A party that is going to send waits for consistency.
LEMMA SendersEnsure ==
  ASSUME NEW x \in Transfer
  PROVE  Ensures(x.from, x.op)
<1>1. x.op \in DOMAIN Program /\ x.element \in DOMAIN Program[x.op].ends
      /\ <<x.from, x.to>> \in Pairs(x.op, x.element) /\ x.from # x.to
  BY TransferOK
<1>2. Program[x.op] \in Operation
  BY <1>1, CollectiveAssumption
<1>3. Program[x.op].kind \in Kind
  BY <1>2 DEF Operation
<1>4. CASE Program[x.op].kind = "broadcast"
  BY <1>1, <1>4 DEF Ensures, Pairs
<1>5. CASE Program[x.op].kind = "gather"
  BY <1>1, <1>5 DEF Ensures, Pairs
<1>6. CASE Program[x.op].kind = "all_gather"
  BY <1>1, <1>6 DEF Ensures, Pairs
<1>7. CASE Program[x.op].kind = "all_to_all"
  BY <1>1, <1>7 DEF Ensures, Pairs
<1> QED
  BY <1>3, <1>4, <1>5, <1>6, <1>7 DEF Kind

-----------------------------------------------------------------------------
(* Checks *)

\* The key under which the receivers of x's data check it.
KeyOf(x) == ToCheckKey(Expected(x))

\* Transfers that are to carry the same data have one key, and no others have it.
LEMMA KeyOfOK ==
  ASSUME NEW x \in Transfer
  PROVE  /\ KeyOf(x) = [kind |-> Program[x.op].kind, sender |-> x.from, id |-> Identifier(x)]
         /\ \A y \in Transfer : KeyOf(x) = KeyOf(y) =>
              x.op = y.op /\ x.element = y.element /\ x.from = y.from
         /\ \A y \in SameSource[x] : y \in Transfer /\ Checked(x.op) /\ KeyOf(y) = KeyOf(x)
                                     /\ y.op = x.op /\ y.element = x.element /\ y.from = x.from
         /\ Checked(x.op) => KeyOf(x) \in CheckKey
<1>1. \A y \in Transfer :
        KeyOf(y) = [kind |-> Program[y.op].kind, sender |-> y.from, id |-> Identifier(y)]
  BY ExpectedOK DEF KeyOf, ToCheckKey
<1>2. \A y \in Transfer : KeyOf(x) = KeyOf(y) =>
        x.op = y.op /\ x.element = y.element /\ x.from = y.from
  <2> SUFFICES ASSUME NEW y \in Transfer, KeyOf(x) = KeyOf(y)
               PROVE  x.op = y.op /\ x.element = y.element /\ x.from = y.from
    OBVIOUS
  <2>1. Identifier(x) = Identifier(y) /\ x.from = y.from
    BY <1>1
  <2> QED BY <2>1, IdentifierOK
<1>3. \A y \in SameSource[x] :
        y \in Transfer /\ Checked(x.op) /\ y.op = x.op /\ y.element = x.element /\ y.from = x.from
  BY DEF SameSource
<1>4. \A y \in SameSource[x] : KeyOf(y) = KeyOf(x)
  <2> SUFFICES ASSUME NEW y \in SameSource[x] PROVE KeyOf(y) = KeyOf(x)
    OBVIOUS
  <2>1. Identifier(x) = Identifier(y)
    BY <1>3 DEF Identifier, CountUpTo
  <2> QED BY <1>1, <1>3, <2>1
<1>5. Checked(x.op) => KeyOf(x) \in CheckKey
  <2>1. Expected(x) \in Message /\ Expected(x).kind = Program[x.op].kind
    BY ExpectedOK
  <2> QED BY <2>1 DEF KeyOf, CheckKey, Checked
<1> QED
  BY <1>1, <1>2, <1>3, <1>4, <1>5

\* The receivers of a message are those of the transfers with its key.
LEMMA CheckReceiversOK ==
  /\ CheckReceivers \in [CheckKey -> SUBSET Party]
  /\ \A x \in Transfer : Checked(x.op) => x.to \in CheckReceivers[KeyOf(x)]
<1>1. \A m \in Message : m.receiver \in Party
  <2> SUFFICES ASSUME NEW x \in Transfer PROVE Expected(x).receiver \in Party
    BY DEF Message
  <2>1. Expected(x).receiver = x.to
    BY ExpectedOK
  <2> QED BY <2>1, TransferOK
<1>2. ASSUME NEW x \in Transfer, Checked(x.op) PROVE x.to \in CheckReceivers[KeyOf(x)]
  <2>1. Expected(x) \in Message /\ ToCheckKey(Expected(x)) = KeyOf(x) /\ Expected(x).receiver = x.to
    BY ExpectedOK DEF KeyOf
  <2> QED BY <1>2, <2>1, KeyOfOK DEF CheckReceivers
<1> QED
  BY <1>1, <1>2 DEF CheckReceivers

\* What the modules of the consistency checks and of the message buffer assume.
LEMMA Assumptions == CP!ConsistencyAssumption /\ MP!MessageBufferAssumption
<1>1. InconsistentKeys \subseteq CheckKey
  BY KeyOfOK DEF InconsistentKeys, KeyOf
<1>2. CP!Value = CC!Value
  BY DEF CP!Value, CC!Value
<1>3. CP!ConsistencyAssumption
  BY <1>1, <1>2, CheckReceiversOK, CollectiveAssumption, NothingAssumption DEF CP!ConsistencyAssumption
<1>4. MP!MessageBufferAssumption
  BY NothingAssumption DEF MP!MessageBufferAssumption
<1> QED BY <1>3, <1>4

-----------------------------------------------------------------------------
(* What the instances do *)

\* Every command of a consistency task is that of the module with the proofs.
LEMMA SameCommands ==
  /\ CC!Init <=> CP!Init
  /\ \A p, k : CC!Request(p, k) <=> CP!Request(p, k)
  /\ \A p, k, h : CC!ReceivedData(p, k, h) <=> CP!ReceivedData(p, k, h)
  /\ \A p, c : CC!ReceivedCheck(p, c) <=> CP!ReceivedCheck(p, c)
  /\ \A p, k, q : CC!NotifyParty(p, k, q) <=> CP!NotifyParty(p, k, q)
  /\ \A p : CC!Wait(p) <=> CP!Wait(p)
  /\ \A p, k : CC!AllAgree(p, k) <=> CP!AllAgree(p, k)
  /\ CC!TypeOK <=> CP!TypeOK
<1> USE DEF CC!Idle, CP!Idle, CC!IsConsistent, CP!IsConsistent, CC!Settle, CP!Settle,
            CC!Check, CP!Check, CC!CheckPasses, CP!CheckPasses, CC!Arrived, CP!Arrived,
            CC!IsDone, CP!IsDone, CC!Keys, CP!Keys, CC!Insert, CP!Insert, CC!Proceed, CP!Proceed,
            CC!Others, CP!Others
<1>1. CC!Init <=> CP!Init
  BY Zenon DEF CC!Init, CP!Init
<1>2. ASSUME NEW p, NEW k PROVE CC!Request(p, k) <=> CP!Request(p, k)
  BY Zenon DEF CC!Request, CP!Request, CC!NewRequest, CP!NewRequest, CC!Register, CP!Register,
               CC!RegisterReady, CP!RegisterReady
<1>3. ASSUME NEW p, NEW k, NEW h PROVE CC!ReceivedData(p, k, h) <=> CP!ReceivedData(p, k, h)
  BY Zenon DEF CC!ReceivedData, CP!ReceivedData, CC!NewReceivedData, CP!NewReceivedData,
               CC!ReceiveData, CP!ReceiveData
<1>4. ASSUME NEW p, NEW c PROVE CC!ReceivedCheck(p, c) <=> CP!ReceivedCheck(p, c)
  BY Zenon DEF CC!ReceivedCheck, CP!ReceivedCheck, CC!NewReceived, CP!NewReceived,
               CC!Receive, CP!Receive
<1>5. ASSUME NEW p, NEW k, NEW q PROVE CC!NotifyParty(p, k, q) <=> CP!NotifyParty(p, k, q)
  BY Zenon DEF CC!NotifyParty, CP!NotifyParty, CC!NotifyDone, CP!NotifyDone
<1>6. ASSUME NEW p PROVE CC!Wait(p) <=> CP!Wait(p)
  BY Zenon DEF CC!Wait, CP!Wait
<1>7. ASSUME NEW p, NEW k PROVE CC!AllAgree(p, k) <=> CP!AllAgree(p, k)
  BY Zenon DEF CC!AllAgree, CP!AllAgree, CC!SameData, CP!SameData
<1>8. CC!TypeOK <=> CP!TypeOK
  BY Zenon DEF CC!TypeOK, CP!TypeOK, CC!Value, CP!Value, CC!Checks, CP!Checks
<1> QED BY <1>1, <1>2, <1>3, <1>4, <1>5, <1>6, <1>7, <1>8

\* So is every command of the message buffer.
LEMMA SameBuffer ==
  /\ MB!Init <=> MP!Init
  /\ \A x, m : MB!Receive(x, m) <=> MP!Receive(x, m)
  /\ \A m, d : MB!Received(m, d) <=> MP!Received(m, d)
  /\ MB!TypeOK <=> MP!TypeOK
<1>1. MB!Init <=> MP!Init
  BY Zenon DEF MB!Init, MP!Init
<1>2. ASSUME NEW x, NEW m PROVE MB!Receive(x, m) <=> MP!Receive(x, m)
  BY Zenon DEF MB!Receive, MP!Receive
<1>3. ASSUME NEW m, NEW d PROVE MB!Received(m, d) <=> MP!Received(m, d)
  BY Zenon DEF MB!Received, MP!Received
<1>4. MB!TypeOK <=> MP!TypeOK
  BY Zenon DEF MB!TypeOK, MP!TypeOK, MB!Status, MP!Status
<1> QED BY <1>1, <1>2, <1>3, <1>4

\* What a command does to the waiting Queues: when one is answered, the answer vouches for
\* all that its task was asked to check before.
Answers ==
  \A p \in Party :
    /\ confirmed[p] \subseteq confirmed'[p]
    /\ openRequests'[p] => openRequests[p]
    /\ openRequests[p] /\ ~openRequests'[p] => requested[p] \subseteq confirmed'[p]

\* The end of a handler.
LEMMA SettleAnswers ==
  ASSUME CP!TypeOK, NEW p \in Party, NEW k, NEW v, CP!Settle(p, k, v)
  PROVE  Answers
<1> DEFINE entries == [consistency[p] EXCEPT ![k] = IF CP!IsDone(CP!Check(v)) THEN Vacant ELSE CP!Check(v)]
           answer  == openRequests[p] /\ CP!IsConsistent(entries)
<1>1. /\ openRequests' = [openRequests EXCEPT ![p] = @ /\ ~answer]
      /\ confirmed' = [confirmed EXCEPT ![p] = IF answer THEN @ \cup requested[p] ELSE @]
  BY DEF CP!Settle
<1>2. openRequests \in [Party -> BOOLEAN] /\ confirmed \in [Party -> SUBSET CheckKey]
  BY DEF CP!TypeOK
<1> HIDE DEF answer
<1>3. \A q \in Party \ {p} : openRequests'[q] = openRequests[q] /\ confirmed'[q] = confirmed[q]
  BY <1>1, <1>2
<1>4. openRequests'[p] <=> openRequests[p] /\ ~answer
  BY Zenon, <1>1, <1>2
<1>5. confirmed'[p] = IF answer THEN confirmed[p] \cup requested[p] ELSE confirmed[p]
  BY <1>1, <1>2
<1> QED
  BY <1>3, <1>4, <1>5 DEF Answers

\* Request asks p's task for one more check, while its Queue does not wait.
LEMMA RequestEffect ==
  ASSUME CP!AgreementInv, NEW p \in Party, NEW k \in CheckKey, CC!Request(p, k)
  PROVE  /\ CP!AgreementInv' /\ Answers
         /\ requested' = [requested EXCEPT ![p] = @ \cup {k}]
         /\ received' = received
<1>1. CP!Request(p, k) /\ CP!ConsistencyAssumption
  BY SameCommands, Assumptions
<1>2. CP!AgreementInv'
  BY <1>1, CP!RequestStep, CP!ActionKeeps
<1>3. CP!TypeOK
  BY DEF CP!AgreementInv
<1>4. requested' = [requested EXCEPT ![p] = @ \cup {k}] /\ received' = received
  BY <1>1 DEF CP!Request
<1>5. Answers
  <2>1. CASE UNCHANGED <<openRequests, confirmed>>
    BY <2>1 DEF Answers
  <2>2. CASE ~UNCHANGED <<openRequests, confirmed>>
    <3>1. \E v : CP!Settle(p, k, v)
      BY <1>1, <2>2 DEF CP!Request, CP!Insert, CP!Proceed
    <3> QED BY <1>3, <3>1, SettleAnswers
  <2> QED BY <2>1, <2>2
<1> QED BY <1>2, <1>4, <1>5

\* ReceivedData hands p's task its data for k.
LEMMA ReceivedDataEffect ==
  ASSUME CP!AgreementInv, NEW p \in Party, NEW k \in CheckKey, NEW h \in Hash,
         CC!ReceivedData(p, k, h)
  PROVE  /\ CP!AgreementInv' /\ Answers
         /\ requested' = requested
         /\ received' = [received EXCEPT ![p][k] = h]
<1>1. CP!ReceivedData(p, k, h) /\ CP!ConsistencyAssumption
  BY SameCommands, Assumptions
<1>2. CP!AgreementInv'
  BY <1>1, CP!ReceivedDataStep, CP!ActionKeeps
<1>3. CP!TypeOK
  BY DEF CP!AgreementInv
<1>4. requested' = requested /\ received' = [received EXCEPT ![p][k] = h]
  BY <1>1 DEF CP!ReceivedData
<1>5. Answers
  <2>1. CASE UNCHANGED <<openRequests, confirmed>>
    BY <2>1 DEF Answers
  <2>2. CASE ~UNCHANGED <<openRequests, confirmed>>
    <3>1. \E v : CP!Settle(p, k, v)
      BY <1>1, <2>2 DEF CP!ReceivedData, CP!Insert, CP!Proceed
    <3> QED BY <1>3, <3>1, SettleAnswers
  <2> QED BY <2>1, <2>2
<1> QED BY <1>2, <1>4, <1>5

\* ReceivedCheck and the handlers' telling of receivers leave what was asked and received.
LEMMA OtherEffect ==
  ASSUME CP!AgreementInv, NEW p \in Party,
         \/ \E c \in checks : CC!ReceivedCheck(p, c)
         \/ \E k \in CheckKey : \E q \in notify[p][k] : CC!NotifyParty(p, k, q)
  PROVE  /\ CP!AgreementInv' /\ Answers
         /\ requested' = requested
         /\ received' = received
<1>1. CP!ConsistencyAssumption /\ CP!TypeOK
  BY Assumptions DEF CP!AgreementInv
<1>2. ASSUME NEW c \in checks, CC!ReceivedCheck(p, c)
      PROVE  CP!AgreementInv' /\ Answers /\ requested' = requested /\ received' = received
  <2>1. CP!ReceivedCheck(p, c) /\ c.key \in CheckKey
    BY <1>1, <1>2, SameCommands DEF CP!TypeOK, CP!Checks
  <2>2. CP!AgreementInv'
    BY <1>1, <2>1, CP!ReceivedCheckStep, CP!ActionKeeps
  <2>3. requested' = requested /\ received' = received
    BY <2>1 DEF CP!ReceivedCheck
  <2>4. Answers
    <3>1. CASE UNCHANGED <<openRequests, confirmed>>
      BY <3>1 DEF Answers
    <3>2. CASE ~UNCHANGED <<openRequests, confirmed>>
      <4>1. \E v : CP!Settle(p, c.key, v)
        BY <2>1, <3>2 DEF CP!ReceivedCheck, CP!Insert
      <4> QED BY <1>1, <4>1, SettleAnswers
    <3> QED BY <3>1, <3>2
  <2> QED BY <2>2, <2>3, <2>4
<1>3. ASSUME NEW k \in CheckKey, NEW q \in notify[p][k], CC!NotifyParty(p, k, q)
      PROVE  CP!AgreementInv' /\ Answers /\ requested' = requested /\ received' = received
  <2>1. CP!NotifyParty(p, k, q) /\ q \in Party
    BY <1>1, <1>3, SameCommands DEF CP!TypeOK
  <2>2. CP!AgreementInv'
    BY <1>1, <2>1, CP!NotifyPartyStep, CP!ActionKeeps
  <2>3. requested' = requested /\ received' = received
    BY <2>1 DEF CP!NotifyParty, CP!NotifyDone
  <2>4. Answers
    <3>1. CASE UNCHANGED <<openRequests, confirmed>>
      BY <3>1 DEF Answers
    <3>2. CASE ~UNCHANGED <<openRequests, confirmed>>
      <4>1. \E v : CP!Settle(p, k, v)
        BY <2>1, <3>2 DEF CP!NotifyParty, CP!NotifyDone
      <4> QED BY <1>1, <4>1, SettleAnswers
    <3> QED BY <3>1, <3>2
  <2> QED BY <2>2, <2>3, <2>4
<1> QED BY <1>2, <1>3

\* ensure_consistency is answered at once, for all that was asked before, or waits.
LEMMA WaitEffect ==
  ASSUME CP!AgreementInv, NEW p \in Party, CC!Wait(p)
  PROVE  /\ CP!AgreementInv'
         /\ requested' = requested /\ received' = received
         /\ \A q \in Party : confirmed[q] \subseteq confirmed'[q]
         /\ \A q \in Party \ {p} : openRequests'[q] = openRequests[q]
         /\ ~openRequests'[p] => requested[p] \subseteq confirmed'[p]
<1>1. CP!Wait(p) /\ CP!ConsistencyAssumption /\ CP!TypeOK
  BY SameCommands, Assumptions DEF CP!AgreementInv
<1>2. CP!AgreementInv'
  BY <1>1, CP!WaitKeeps
<1>3. openRequests \in [Party -> BOOLEAN] /\ confirmed \in [Party -> SUBSET CheckKey]
  BY <1>1 DEF CP!TypeOK
<1>4. /\ requested' = requested /\ received' = received
      /\ \/ /\ confirmed' = [confirmed EXCEPT ![p] = @ \cup requested[p]]
            /\ openRequests' = openRequests
         \/ /\ openRequests' = [openRequests EXCEPT ![p] = TRUE]
            /\ confirmed' = confirmed
  BY <1>1 DEF CP!Wait
<1> QED BY <1>2, <1>3, <1>4

\* When the Queue of a party goes down, checks may get lost, but nothing else changes.
LEMMA LossKeeps ==
  ASSUME CP!AgreementInv, NEW lost \in SUBSET checks, checks' = checks \ lost,
         UNCHANGED <<consistency, openRequests, notify, failures, received, requested, confirmed>>
  PROVE  CP!AgreementInv'
<1>1. CP!TypeOK' /\ CP!ChecksTrue'
  BY DEF CP!AgreementInv, CP!TypeOK, CP!ChecksTrue
<1>2. CP!EntriesTrue'
  BY DEF CP!AgreementInv, CP!EntriesTrue, CP!EntryTrue, CP!SameData
<1>3. CP!RequestsKept' /\ CP!NotifyReady' /\ CP!Agreement'
  BY DEF CP!AgreementInv, CP!RequestsKept, CP!RequestKept, CP!NotifyReady, CP!Agreement,
         CP!AllAgree, CP!SameData
<1> QED BY <1>1, <1>2, <1>3 DEF CP!AgreementInv

\* As long as none of its variables changes, all that is known of the checks stays known.
LEMMA ChecksUnchanged ==
  ASSUME CP!AgreementInv, UNCHANGED consistencyVars
  PROVE  CP!AgreementInv' /\ Answers
<1>1. CP!ConsistencyAssumption
  BY Assumptions
<1>2. UNCHANGED <<consistency, openRequests, notify, checks, failures, received, requested, confirmed>>
  BY DEF consistencyVars
<1>3. CP!AgreementInv'
  BY <1>2, LossKeeps
<1>4. Answers
  BY <1>2 DEF Answers
<1> QED BY <1>3, <1>4

\* A receive task asks the buffer, and gets what has come in for its message.
LEMMA ReceiveEffect ==
  ASSUME MP!BufferInv, NEW x \in Transfer, NEW m \in Message, MB!Receive(x, m)
  PROVE  /\ MP!BufferInv'
         /\ asked' = [asked EXCEPT ![x] = m] /\ arrived' = arrived
         /\ \A y \in Transfer : task[y] = "done" => task'[y] = "done"
         /\ \/ result' = result
            \/ /\ result[x] = None /\ messageBuffer[m] # None
               /\ [message |-> m, data |-> messageBuffer[m]] \in arrived
               /\ result' = [result EXCEPT ![x] = messageBuffer[m]]
<1>1. MP!Receive(x, m) /\ MP!MessageBufferAssumption /\ MP!TypeOK
  BY SameBuffer, Assumptions DEF MP!BufferInv
<1>2. MP!BufferInv'
  BY <1>1, MP!ReceiveBuffered, MP!ReceiveOpen
<1>3. asked' = [asked EXCEPT ![x] = m] /\ arrived' = arrived
  BY <1>1 DEF MP!Receive
<1>4. task \in [Transfer -> MP!Status]
  BY <1>1 DEF MP!TypeOK
<1>5. CASE messageBuffer[m] # None
  <2>1. task[x] # "done" /\ result[x] = None
    BY <1>1 DEF MP!Receive, MP!TypeOK
  <2>2. [message |-> m, data |-> messageBuffer[m]] \in arrived
    BY <1>5 DEF MP!BufferInv, MP!FromArrival
  <2>3. \/ task' = task /\ result' = result
        \/ task' = [task EXCEPT ![x] = "done"] /\ result' = [result EXCEPT ![x] = messageBuffer[m]]
    BY <1>1, <1>5 DEF MP!Receive
  <2> QED BY <1>2, <1>3, <1>4, <1>5, <2>1, <2>2, <2>3
<1>6. CASE messageBuffer[m] = None
  <2>1. task' = [u \in Transfer |-> IF u = x /\ task[u] = "idle" THEN "waiting"
                                    ELSE IF u = openReceives[m] /\ task[u] = "waiting" THEN "closed"
                                    ELSE task[u]]
        /\ result' = result
    BY <1>1, <1>6 DEF MP!Receive
  <2> QED BY <1>2, <1>3, <1>4, <2>1
<1> QED BY <1>5, <1>6

\* The server hands on data, which the task gets that waits for its message.
LEMMA ReceivedEffect ==
  ASSUME MP!BufferInv, NEW m \in Message, NEW d \in Content, MB!Received(m, d)
  PROVE  /\ MP!BufferInv'
         /\ asked' = asked /\ arrived' = arrived \cup {[message |-> m, data |-> d]}
         /\ \A y \in Transfer : task[y] = "done" => task'[y] = "done"
         /\ \/ result' = result
            \/ \E u \in Transfer : /\ asked[u] = m /\ task[u] = "waiting" /\ result[u] = None
                                   /\ result' = [result EXCEPT ![u] = d]
<1>1. MP!Received(m, d) /\ MP!MessageBufferAssumption /\ MP!TypeOK
  BY SameBuffer, Assumptions DEF MP!BufferInv
<1>2. MP!BufferInv'
  BY <1>1, MP!ReceivedKeeps
<1>3. asked' = asked /\ arrived' = arrived \cup {[message |-> m, data |-> d]}
  BY <1>1 DEF MP!Received
<1>4. task \in [Transfer -> MP!Status]
  BY <1>1 DEF MP!TypeOK
<1>5. CASE task' = task /\ result' = result
  BY <1>2, <1>3, <1>5
<1>6. CASE ~UNCHANGED <<task, result>>
  <2> DEFINE u == openReceives[m]
  <2>1. /\ u # None /\ task[u] = "waiting"
        /\ task' = [task EXCEPT ![u] = "done"]
        /\ result' = [result EXCEPT ![u] = d]
    BY <1>1, <1>6 DEF MP!Received
  <2>2. u \in Transfer /\ asked[u] = m /\ result[u] = None
    BY <1>1, <2>1 DEF MP!BufferInv, MP!TypeOK, MP!RequestsOfTasks
  <2> QED BY <1>2, <1>3, <1>4, <2>1, <2>2
<1> QED BY <1>5, <1>6

\* As long as none of its variables changes, all that is known of the buffer stays known.
LEMMA BufferUnchanged ==
  ASSUME MP!BufferInv, UNCHANGED bufferVars
  PROVE  MP!BufferInv'
<1>1. UNCHANGED MP!vars
  BY DEF bufferVars, MP!vars
<1> QED BY <1>1, Assumptions, MP!NextKeepsBuffer

-----------------------------------------------------------------------------
(* The inductive invariant *)

\* p has begun operation o.
Begun(p, o) == o < operation[p] \/ (o = operation[p] /\ phase[p] = "running")

\* The round of the loop in which p starts x.
RoundWith(p, x) ==
  [element |-> x.element, other |-> RoundOf(p, x), id |-> Identifier(x),
   transfers |-> {y \in Transfers(x.op, x.element) : Touches(p, y) /\ RoundOf(p, y) = RoundOf(p, x)}]

RoundsOf(p, o) == {RoundWith(p, x) : x \in {y \in Transfer : y.op = o /\ Touches(p, y)}}

\* p's loop has yet to come to x.
Left(p, x) == \E round \in todo[p] : x \in round.transfers

\* p's loop is past x.
Spawned(p, x) == Begun(p, x.op) /\ ~Left(p, x)

\* The state of the Queues and of the network.
Types ==
  /\ operation \in [Party -> 1 .. Len(Program) + 1]
  /\ phase \in [Party -> {"start", "waiting", "running", "closed"}]
  /\ counters \in [Party -> [CounterKeys -> Nat]]
  /\ todo \in [Party -> SUBSET {RoundWith(p, x) : p \in Party, x \in Transfer}]
  /\ sending \in [Party -> SUBSET [message : Message, origin : Transfer]]
  /\ network \subseteq Packet
  /\ serving \subseteq Packet
  /\ sent \in [Transfer -> Hash \cup {None}]

\* The parties' counters agree, on the keys that they use: a counter is the number of
\* messages with its key in the operations that have begun.
CountersInv ==
  \A p \in Party : \A x \in Transfer : Touches(p, x) =>
    LET key == CounterKey(x.op, x.element)
    IN  counters[p][key] = Cardinality({u \in Uses(key) : Begun(p, u[1])})

\* A loop goes over the current operation's transfers, under the right identifiers.
LoopInv ==
  \A p \in Party :
    /\ todo[p] \subseteq RoundsOf(p, operation[p])
    /\ phase[p] = "running" => operation[p] <= Len(Program)
    /\ phase[p] # "running" => todo[p] = {} /\ sending[p] = {}

\* Data that p's loop is past is sent, once, or there is a send task for it.
SendInv ==
  /\ \A p \in Party : \A s \in sending[p] :
       /\ s.message = Expected(s.origin)
       /\ s.origin.from = p /\ s.origin.op = operation[p]
       /\ ~Left(p, s.origin)
       /\ sent[s.origin] = None
  /\ \A x \in Transfer : Spawned(x.from, x) =>
       sent[x] # None \/ \E s \in sending[x.from] : s.origin = x
  /\ \A x \in Transfer : sent[x] # None => Spawned(x.from, x)

\* Data that p's loop is past has a receive task, which is done after the operation.
ReceiveInv ==
  \A x \in Transfer :
    /\ asked[x] # None => asked[x] = Expected(x)
    /\ asked[x] # None <=> Spawned(x.to, x)
    /\ x.op < operation[x.to] => task[x] = "done"

\* Data goes with the message of the transfer that it was sent for.
Genuine(message, content) == message = Expected(content.origin) /\ sent[content.origin] = content.hash

PacketInv ==
  /\ \A n \in network \cup serving : Genuine(n.message, n.content)
  /\ \A a \in arrived : Genuine(a.message, a.data)

\* The receivers have asked for a check of what they receive, and a consistency task has
\* been given only what was sent.
CheckInv ==
  /\ \A x \in Transfer : Checked(x.op) /\ asked[x] # None => KeyOf(x) \in requested[x.to]
  /\ \A p \in Party, k \in CheckKey : received[p][k] # None =>
       \E x \in Transfer : x.to = p /\ Checked(x.op) /\ KeyOf(x) = k /\ sent[x] = received[p][k]

\* A Queue that waited goes on with all confirmed that it received before.
EnsureInv ==
  \A p \in Party :
    /\ openRequests[p] => phase[p] = "waiting"
    /\ phase[p] = "closed" \/ (phase[p] = "waiting" /\ ~openRequests[p]) =>
         requested[p] \subseteq confirmed[p]
    /\ phase[p] = "running" /\ Ensures(p, operation[p]) =>
         \A x \in Transfer : x.to = p /\ x.op < operation[p] /\ Checked(x.op) =>
           KeyOf(x) \in confirmed[p]

\* A connection is served by one task.
ServeInv ==
  \A n, m \in serving :
    n.message.sender = m.message.sender /\ n.message.receiver = m.message.receiver => n = m

CollectiveInv ==
  /\ Types /\ CountersInv /\ LoopInv /\ SendInv /\ ReceiveInv /\ PacketInv /\ CheckInv
  /\ EnsureInv /\ ServeInv
  /\ CP!AgreementInv /\ MP!BufferInv

-----------------------------------------------------------------------------
(* What is untouched stays true *)

\* Steps outside of the loops.
LEMMA QueueKept ==
  ASSUME CollectiveInv,
         UNCHANGED <<operation, counters, todo, sending, sent, bufferVars>>,
         phase' \in [Party -> {"start", "waiting", "running", "closed"}],
         \A p \in Party : phase'[p] = "running" <=> phase[p] = "running"
  PROVE  CountersInv' /\ LoopInv' /\ SendInv' /\ ReceiveInv' /\ MP!BufferInv'
<1>1. /\ operation' = operation /\ counters' = counters /\ todo' = todo /\ sending' = sending
      /\ sent' = sent /\ task' = task /\ asked' = asked
  BY DEF bufferVars
<1>2. \A p \in Party : \A o : Begun(p, o)' <=> Begun(p, o)
  BY <1>1 DEF Begun
<1>3. \A p \in Party : \A x : (Left(p, x)' <=> Left(p, x)) /\ (Spawned(p, x)' <=> Spawned(p, x))
  BY <1>1, <1>2 DEF Left, Spawned
<1>4. CountersInv'
  <2> SUFFICES ASSUME NEW p \in Party, NEW x \in Transfer, Touches(p, x)
               PROVE  LET key == CounterKey(x.op, x.element)
                      IN  counters'[p][key] = Cardinality({u \in Uses(key) : Begun(p, u[1])'})
    BY DEF CountersInv
  <2> DEFINE key == CounterKey(x.op, x.element)
  <2>1. {u \in Uses(key) : Begun(p, u[1])'} = {u \in Uses(key) : Begun(p, u[1])}
    BY <1>2
  <2> QED BY <1>1, <2>1 DEF CollectiveInv, CountersInv
<1>5. LoopInv'
  BY <1>1 DEF CollectiveInv, LoopInv
<1>6. \A x \in Transfer : x.from \in Party /\ x.to \in Party
  BY TransferOK
<1>7. SendInv'
  BY <1>1, <1>3, <1>6 DEF CollectiveInv, SendInv
<1>8. ReceiveInv'
  BY <1>1, <1>3, <1>6 DEF CollectiveInv, ReceiveInv
<1> QED BY <1>4, <1>5, <1>7, <1>8, BufferUnchanged DEF CollectiveInv

\* Packets that are still there are genuine as long as what is sent is not sent again.
LEMMA PacketsKept ==
  ASSUME Types, PacketInv,
         \A x \in Transfer : sent[x] # None => sent'[x] = sent[x],
         network' \cup serving' \subseteq network \cup serving, arrived' = arrived,
         MP!TypeOK
  PROVE  PacketInv'
<1>1. ASSUME NEW content \in Content, NEW message, Genuine(message, content)
      PROVE  Genuine(message, content)'
  <2>1. content.origin \in Transfer /\ content.hash \in Hash
    BY DEF Content
  <2> QED BY <1>1, <2>1, NothingAssumption DEF Genuine
<1>2. \A n \in network \cup serving : n.content \in Content
  BY DEF Types, Packet
<1>3. \A a \in arrived : a.data \in Content
  BY DEF MP!TypeOK
<1> QED BY <1>1, <1>2, <1>3 DEF PacketInv

\* The consistency tasks answer only Queues that wait, and vouch for what they asked for.
LEMMA EnsureKept ==
  ASSUME EnsureInv, Answers, phase' = phase, operation' = operation,
         \A p \in Party : requested'[p] = requested[p] \/ phase[p] = "running"
  PROVE  EnsureInv'
<1>1. ASSUME NEW p \in Party
      PROVE  /\ openRequests'[p] => phase'[p] = "waiting"
             /\ phase'[p] = "closed" \/ (phase'[p] = "waiting" /\ ~openRequests'[p]) =>
                  requested'[p] \subseteq confirmed'[p]
             /\ phase'[p] = "running" /\ Ensures(p, operation'[p]) =>
                  \A x \in Transfer : x.to = p /\ x.op < operation'[p] /\ Checked(x.op) =>
                    KeyOf(x) \in confirmed'[p]
  <2>1. /\ confirmed[p] \subseteq confirmed'[p]
        /\ openRequests'[p] => openRequests[p]
        /\ openRequests[p] /\ ~openRequests'[p] => requested[p] \subseteq confirmed'[p]
    BY DEF Answers
  <2> QED BY <2>1 DEF EnsureInv
<1> QED BY <1>1 DEF EnsureInv

\* A check that was asked for stays so, and what a task was given is still what was sent.
LEMMA CheckKept ==
  ASSUME Types, CheckInv, CP!TypeOK,
         \A x \in Transfer : sent[x] # None => sent'[x] = sent[x],
         asked' = asked, requested' = requested, received' = received
  PROVE  CheckInv'
<1>1. ASSUME NEW p \in Party, NEW k \in CheckKey, received'[p][k] # None
      PROVE  \E x \in Transfer :
               x.to = p /\ Checked(x.op) /\ KeyOf(x) = k /\ sent'[x] = received'[p][k]
  BY <1>1 DEF CheckInv
<1>2. \A x \in Transfer : Checked(x.op) /\ asked'[x] # None => KeyOf(x) \in requested'[x.to]
  BY DEF CheckInv
<1> QED BY <1>1, <1>2 DEF CheckInv

-----------------------------------------------------------------------------
(* Steps outside of the loops *)

\* ensure_consistency.
LEMMA EnsureStep ==
  ASSUME CollectiveInv, NEW p \in Party, Ensure(p)
  PROVE  CollectiveInv'
<1>1. /\ phase[p] = "start" /\ phase' = [phase EXCEPT ![p] = "waiting"] /\ CC!Wait(p)
      /\ UNCHANGED <<operation, counters, todo, sending, network, serving, sent, bufferVars>>
  BY DEF Ensure, netVars
<1>2. /\ CP!AgreementInv' /\ CP!TypeOK
      /\ requested' = requested /\ received' = received
      /\ \A q \in Party : confirmed[q] \subseteq confirmed'[q]
      /\ \A q \in Party \ {p} : openRequests'[q] = openRequests[q]
      /\ ~openRequests'[p] => requested[p] \subseteq confirmed'[p]
  BY <1>1, WaitEffect DEF CollectiveInv, CP!AgreementInv
<1>3. /\ phase' \in [Party -> {"start", "waiting", "running", "closed"}]
      /\ phase'[p] = "waiting" /\ \A q \in Party \ {p} : phase'[q] = phase[q]
  BY <1>1 DEF CollectiveInv, Types
<1>4. CountersInv' /\ LoopInv' /\ SendInv' /\ ReceiveInv' /\ MP!BufferInv'
  BY <1>1, <1>3, QueueKept
<1>5. Types' /\ ServeInv'
  BY <1>1, <1>3 DEF CollectiveInv, Types, ServeInv
<1>6. arrived' = arrived /\ asked' = asked
  BY <1>1 DEF bufferVars
<1>7. PacketInv' /\ CheckInv'
  BY <1>1, <1>2, <1>6, PacketsKept, CheckKept DEF CollectiveInv, MP!BufferInv
<1>8. EnsureInv'
  BY <1>1, <1>2, <1>3 DEF CollectiveInv, EnsureInv
<1> QED BY <1>2, <1>4, <1>5, <1>7, <1>8 DEF CollectiveInv

\* Drop for Queue.
LEMMA CloseStep ==
  ASSUME CollectiveInv, NEW p \in Party, Close(p)
  PROVE  CollectiveInv'
<1>1. PICK packets \in SUBSET network, lost \in SUBSET checks :
        network' = network \ packets /\ checks' = checks \ lost
  BY DEF Close
<1>2. /\ phase[p] = "waiting" /\ ~openRequests[p]
      /\ phase' = [phase EXCEPT ![p] = "closed"]
      /\ UNCHANGED <<operation, counters, todo, sending, serving, sent, bufferVars>>
      /\ UNCHANGED <<consistency, openRequests, notify, failures, received, requested, confirmed>>
  BY DEF Close
<1>3. CP!AgreementInv' /\ CP!TypeOK
  BY <1>1, <1>2, LossKeeps DEF CollectiveInv, CP!AgreementInv
<1>4. /\ phase' \in [Party -> {"start", "waiting", "running", "closed"}]
      /\ phase'[p] = "closed" /\ \A q \in Party \ {p} : phase'[q] = phase[q]
  BY <1>2 DEF CollectiveInv, Types
<1>5. CountersInv' /\ LoopInv' /\ SendInv' /\ ReceiveInv' /\ MP!BufferInv'
  BY <1>2, <1>4, QueueKept
<1>6. Types' /\ ServeInv'
  BY <1>1, <1>2, <1>4 DEF CollectiveInv, Types, ServeInv
<1>7. arrived' = arrived /\ asked' = asked
  BY <1>2 DEF bufferVars
<1>8. PacketInv' /\ CheckInv'
  BY <1>1, <1>2, <1>3, <1>7, PacketsKept, CheckKept DEF CollectiveInv, MP!BufferInv
<1>9. EnsureInv'
  BY <1>2, <1>4 DEF CollectiveInv, EnsureInv
<1> QED BY <1>3, <1>5, <1>6, <1>8, <1>9 DEF CollectiveInv

\* A check reaches a consistency task, or the task sends one.
LEMMA ConsistencyTaskStep ==
  ASSUME CollectiveInv, NEW p \in Party,
         Notify(p) \/ \E c \in checks : ServeCheck(p, c)
  PROVE  CollectiveInv'
<1>1. /\ UNCHANGED <<operation, phase, counters, todo, sending, network, serving, sent, bufferVars>>
      /\ \/ \E c \in checks : CC!ReceivedCheck(p, c)
         \/ \E k \in CheckKey : \E q \in notify[p][k] : CC!NotifyParty(p, k, q)
  BY DEF Notify, ServeCheck, queueVars, netVars
<1>2. /\ CP!AgreementInv' /\ CP!TypeOK /\ Answers
      /\ requested' = requested /\ received' = received
  BY <1>1, OtherEffect DEF CollectiveInv, CP!AgreementInv
<1>3. CountersInv' /\ LoopInv' /\ SendInv' /\ ReceiveInv' /\ MP!BufferInv'
  BY <1>1, QueueKept DEF CollectiveInv, Types
<1>4. Types' /\ ServeInv'
  BY <1>1 DEF CollectiveInv, Types, ServeInv
<1>5. arrived' = arrived /\ asked' = asked
  BY <1>1 DEF bufferVars
<1>6. PacketInv' /\ CheckInv'
  BY <1>1, <1>2, <1>5, PacketsKept, CheckKept DEF CollectiveInv, MP!BufferInv
<1>7. EnsureInv'
  BY <1>1, <1>2, EnsureKept DEF CollectiveInv
<1> QED BY <1>2, <1>3, <1>4, <1>6, <1>7 DEF CollectiveInv

\* handle_connection gives checked data to the consistency task first.
LEMMA ServeDataStep ==
  ASSUME CollectiveInv, NEW p \in Party, NEW n \in network, ServeData(p, n)
  PROVE  CollectiveInv'
<1> DEFINE x == n.content.origin
           k == ToCheckKey(n.message)
           h == n.content.hash
<1>1. /\ n.message.receiver = p /\ Free(p, n.message.sender) /\ SupportsCheck(n.message.kind)
      /\ network' = network \ {n} /\ serving' = serving \cup {n}
      /\ CC!ReceivedData(p, k, h)
      /\ UNCHANGED <<operation, phase, counters, todo, sending, sent, bufferVars>>
  BY DEF ServeData, queueVars
<1>2. /\ x \in Transfer /\ h \in Hash /\ n.message = Expected(x) /\ sent[x] = h
      /\ n.message \in Message
  BY DEF CollectiveInv, Types, Packet, Content, PacketInv, Genuine
<1>3. x.to = p /\ Checked(x.op) /\ KeyOf(x) = k /\ k \in CheckKey
  BY <1>1, <1>2, ExpectedOK DEF Checked, KeyOf, CheckKey
<1> HIDE DEF x, k, h
<1>4. /\ CP!AgreementInv' /\ CP!TypeOK /\ Answers
      /\ requested' = requested /\ received' = [received EXCEPT ![p][k] = h]
  BY <1>1, <1>2, <1>3, ReceivedDataEffect DEF CollectiveInv, CP!AgreementInv
<1>5. CountersInv' /\ LoopInv' /\ SendInv' /\ ReceiveInv' /\ MP!BufferInv'
  BY <1>1, QueueKept DEF CollectiveInv, Types
<1>6. Types'
  BY <1>1 DEF CollectiveInv, Types
<1>7. ServeInv'
  BY <1>1 DEF CollectiveInv, ServeInv, Free
<1>8. arrived' = arrived /\ asked' = asked
  BY <1>1 DEF bufferVars
<1>9. PacketInv'
  BY <1>1, <1>8, PacketsKept DEF CollectiveInv, MP!BufferInv
<1>10. CheckInv'
  <2>1. received \in [Party -> [CheckKey -> Hash \cup {None}]]
    BY <1>4 DEF CP!TypeOK
  <2>2. \A q \in Party, l \in CheckKey :
          received'[q][l] = IF q = p /\ l = k THEN h ELSE received[q][l]
    BY <1>3, <1>4, <2>1
  <2>3. ASSUME NEW q \in Party, NEW l \in CheckKey, received'[q][l] # None
        PROVE  \E y \in Transfer :
                 y.to = q /\ Checked(y.op) /\ KeyOf(y) = l /\ sent'[y] = received'[q][l]
    <3>1. CASE q = p /\ l = k
      BY <1>1, <1>2, <1>3, <2>2, <3>1
    <3>2. CASE ~(q = p /\ l = k)
      BY <1>1, <2>2, <2>3, <3>2 DEF CollectiveInv, CheckInv
    <3> QED BY <3>1, <3>2
  <2>4. \A y \in Transfer : Checked(y.op) /\ asked'[y] # None => KeyOf(y) \in requested'[y.to]
    BY <1>4, <1>8 DEF CollectiveInv, CheckInv
  <2> QED BY <2>3, <2>4 DEF CheckInv
<1>11. EnsureInv'
  BY <1>1, <1>4, EnsureKept DEF CollectiveInv
<1> QED BY <1>4, <1>5, <1>6, <1>7, <1>9, <1>10, <1>11 DEF CollectiveInv

\* What a receive task got is what was sent for it.
LEMMA ResultGenuine ==
  ASSUME CollectiveInv, NEW x \in Transfer, result[x] # None
  PROVE  /\ result[x] \in Content /\ result[x].origin = x
         /\ result[x].hash = sent[x] /\ sent[x] \in Hash
<1>1. [message |-> asked[x], data |-> result[x]] \in arrived /\ result[x] \in Content
  BY DEF CollectiveInv, MP!BufferInv, MP!FromArrival, MP!TypeOK
<1>2. Genuine(asked[x], result[x])
  BY <1>1 DEF CollectiveInv, PacketInv
<1>3. result[x].origin \in Transfer /\ result[x].hash \in Hash
  BY <1>1 DEF Content
<1>4. asked[x] # None
  <2>1. asked[x] = Expected(result[x].origin)
    BY <1>2 DEF Genuine
  <2>2. asked[x] \in Message
    BY <1>3, <2>1, ExpectedOK
  <2> QED BY <2>2, NothingAssumption
<1>5. asked[x] = Expected(x)
  BY <1>4 DEF CollectiveInv, ReceiveInv
<1>6. result[x].origin = x
  BY <1>2, <1>3, <1>5, ExpectedOK DEF Genuine
<1> QED BY <1>1, <1>2, <1>3, <1>6 DEF Genuine

\* handle_connection gives data to the message buffer.
LEMMA ServeBufferStep ==
  ASSUME CollectiveInv, NEW p \in Party, NEW n \in network \cup serving, ServeBuffer(p, n)
  PROVE  CollectiveInv'
<1> DEFINE m == n.message
           d == n.content
<1>1. /\ network' = network \ {n} /\ serving' = serving \ {n}
      /\ MB!Received(m, d)
      /\ UNCHANGED <<operation, phase, counters, todo, sending, sent, consistencyVars>>
  BY DEF ServeBuffer, queueVars
<1>2. m \in Message /\ d \in Content /\ Genuine(m, d)
  BY DEF CollectiveInv, Types, Packet, PacketInv
<1> HIDE DEF m, d
<1>3. /\ MP!BufferInv' /\ MP!TypeOK
      /\ asked' = asked /\ arrived' = arrived \cup {[message |-> m, data |-> d]}
      /\ \A y \in Transfer : task[y] = "done" => task'[y] = "done"
  BY <1>1, <1>2, ReceivedEffect DEF CollectiveInv, MP!BufferInv
<1>4. CP!AgreementInv' /\ CP!TypeOK /\ Answers /\ requested' = requested /\ received' = received
  BY <1>1, ChecksUnchanged DEF CollectiveInv, CP!AgreementInv, consistencyVars
<1>5. \A q \in Party : \A o : Begun(q, o)' <=> Begun(q, o)
  BY <1>1 DEF Begun
<1>6. \A q \in Party : \A x : (Left(q, x)' <=> Left(q, x)) /\ (Spawned(q, x)' <=> Spawned(q, x))
  BY <1>1, <1>5 DEF Left, Spawned
<1>7. \A x \in Transfer : x.from \in Party /\ x.to \in Party
  BY TransferOK
<1>8. Types' /\ ServeInv' /\ LoopInv'
  BY <1>1 DEF CollectiveInv, Types, ServeInv, LoopInv
<1>9. CountersInv'
  <2> SUFFICES ASSUME NEW q \in Party, NEW x \in Transfer, Touches(q, x)
               PROVE  LET key == CounterKey(x.op, x.element)
                      IN  counters'[q][key] = Cardinality({u \in Uses(key) : Begun(q, u[1])'})
    BY DEF CountersInv
  <2> DEFINE key == CounterKey(x.op, x.element)
  <2>1. {u \in Uses(key) : Begun(q, u[1])'} = {u \in Uses(key) : Begun(q, u[1])}
    BY <1>5
  <2> QED BY <1>1, <2>1 DEF CollectiveInv, CountersInv
<1>10. SendInv'
  BY <1>1, <1>6, <1>7 DEF CollectiveInv, SendInv
<1>11. ReceiveInv'
  BY <1>1, <1>3, <1>6, <1>7 DEF CollectiveInv, ReceiveInv
<1>12. PacketInv'
  <2>1. \A message, content : Genuine(message, content)' <=> Genuine(message, content)
    BY <1>1 DEF Genuine
  <2>2. \A a \in arrived' : a \in arrived \/ (a.message = m /\ a.data = d)
    BY <1>3
  <2> QED BY <1>1, <1>2, <2>1, <2>2 DEF CollectiveInv, PacketInv
<1>13. CheckInv'
  BY <1>1, <1>3, <1>4, CheckKept DEF CollectiveInv
<1>14. EnsureInv'
  BY <1>1, <1>4, EnsureKept DEF CollectiveInv
<1> QED
  BY <1>3, <1>4, <1>8, <1>9, <1>10, <1>11, <1>12, <1>13, <1>14 DEF CollectiveInv

-----------------------------------------------------------------------------
(* Steps of the loops *)

\* A send task is done.
LEMMA SendStep ==
  ASSUME CollectiveInv, NEW p \in Party, NEW s \in sending[p], NEW h \in Hash, Send(p, s, h)
  PROVE  CollectiveInv'
<1> DEFINE x == s.origin
           n == [message |-> s.message, content |-> [origin |-> x, hash |-> h]]
<1>1. /\ sending' = [sending EXCEPT ![p] = @ \ {s}]
      /\ network' = network \cup {n}
      /\ sent' = [sent EXCEPT ![x] = h]
      /\ UNCHANGED <<operation, phase, counters, todo, serving, consistencyVars, bufferVars>>
  BY DEF Send
<1>2. /\ x \in Transfer /\ s.message = Expected(x) /\ s.message \in Message
      /\ x.from = p /\ x.op = operation[p] /\ ~Left(p, x) /\ sent[x] = None
  BY DEF CollectiveInv, Types, SendInv
<1>3. phase[p] = "running"
  BY DEF CollectiveInv, LoopInv
<1>4. n \in Packet /\ n.message = Expected(x) /\ n.content.origin = x /\ n.content.hash = h
  BY <1>2 DEF Packet, Content
<1> HIDE DEF n, x
<1>5. /\ sent \in [Transfer -> Hash \cup {None}]
      /\ sent'[x] = h /\ h # None /\ \A y \in Transfer \ {x} : sent'[y] = sent[y]
  BY <1>1, <1>2, NothingAssumption DEF CollectiveInv, Types
<1>6. /\ sending'[p] = sending[p] \ {s}
      /\ \A q \in Party \ {p} : sending'[q] = sending[q]
      /\ \A q \in Party : sending'[q] \subseteq sending[q]
  BY <1>1 DEF CollectiveInv, Types
<1>7. Types' /\ ServeInv'
  BY <1>1, <1>2, <1>4 DEF CollectiveInv, Types, ServeInv
<1>8. \A q \in Party : \A o : Begun(q, o)' <=> Begun(q, o)
  BY <1>1 DEF Begun
<1>9. \A q \in Party : \A y : (Left(q, y)' <=> Left(q, y)) /\ (Spawned(q, y)' <=> Spawned(q, y))
  BY <1>1, <1>8 DEF Left, Spawned
<1>10. \A y \in Transfer : y.from \in Party /\ y.to \in Party
  BY TransferOK
<1>11. CountersInv'
  <2> SUFFICES ASSUME NEW q \in Party, NEW y \in Transfer, Touches(q, y)
               PROVE  LET key == CounterKey(y.op, y.element)
                      IN  counters'[q][key] = Cardinality({u \in Uses(key) : Begun(q, u[1])'})
    BY DEF CountersInv
  <2> DEFINE key == CounterKey(y.op, y.element)
  <2>1. {u \in Uses(key) : Begun(q, u[1])'} = {u \in Uses(key) : Begun(q, u[1])}
    BY <1>8
  <2> QED BY <1>1, <2>1 DEF CollectiveInv, CountersInv
<1>12. LoopInv'
  BY <1>1, <1>3, <1>6 DEF CollectiveInv, LoopInv
<1>13. SendInv'
  <2>1. ASSUME NEW q \in Party, NEW r \in sending'[q]
        PROVE  /\ r.message = Expected(r.origin)
               /\ r.origin.from = q /\ r.origin.op = operation'[q]
               /\ ~Left(q, r.origin)'
               /\ sent'[r.origin] = None
    <3>1. r \in sending[q] /\ r \in [message : Message, origin : Transfer]
      BY <1>6 DEF CollectiveInv, Types
    <3>2. /\ r.message = Expected(r.origin)
          /\ r.origin.from = q /\ r.origin.op = operation[q]
          /\ ~Left(q, r.origin)
          /\ sent[r.origin] = None
      BY <3>1 DEF CollectiveInv, SendInv
    <3>3. r.origin # x
      <4> SUFFICES ASSUME r.origin = x PROVE FALSE
        OBVIOUS
      <4>1. q = p /\ r.message = s.message /\ s.origin = x
        BY <1>2, <3>2 DEF x
      <4>2. s \in [message : Message, origin : Transfer]
        BY DEF CollectiveInv, Types
      <4>3. r = s
        BY <3>1, <4>1, <4>2
      <4> QED BY <1>6, <4>1, <4>3
    <3> QED BY <1>1, <1>5, <1>9, <3>1, <3>2, <3>3
  <2>2. ASSUME NEW y \in Transfer, Spawned(y.from, y)'
        PROVE  sent'[y] # None \/ \E r \in sending'[y.from] : r.origin = y
    <3>1. sent[y] # None \/ \E r \in sending[y.from] : r.origin = y
      BY <1>9, <1>10, <2>2 DEF CollectiveInv, SendInv
    <3>2. y # x => sent'[y] = sent[y]
      BY <1>5
    <3>3. ASSUME y # x, NEW r \in sending[y.from], r.origin = y PROVE r \in sending'[y.from]
      BY <1>6, <1>10, <3>3 DEF x
    <3> QED BY <1>5, <3>1, <3>2, <3>3
  <2>3. ASSUME NEW y \in Transfer, sent'[y] # None PROVE Spawned(y.from, y)'
    <3>1. CASE y = x
      BY <1>2, <1>3, <1>9, <3>1 DEF Spawned, Begun
    <3>2. CASE y # x
      BY <1>5, <1>9, <1>10, <2>3, <3>2 DEF CollectiveInv, SendInv
    <3> QED BY <3>1, <3>2
  <2> QED BY <2>1, <2>2, <2>3 DEF SendInv
<1>14. asked' = asked /\ task' = task /\ arrived' = arrived
  BY <1>1 DEF bufferVars
<1>15. ReceiveInv'
  BY <1>1, <1>9, <1>10, <1>14 DEF CollectiveInv, ReceiveInv
<1>16. \A y \in Transfer : sent[y] # None => sent'[y] = sent[y]
  BY <1>2, <1>5
<1>17. MP!BufferInv' /\ MP!TypeOK
  BY <1>1, BufferUnchanged DEF CollectiveInv, MP!BufferInv
<1>18. PacketInv'
  <2>1. \A content \in Content : \A message : Genuine(message, content) => Genuine(message, content)'
    BY <1>16, NothingAssumption DEF Genuine, Content
  <2>2. \A r \in network \cup serving : r.content \in Content
    BY DEF CollectiveInv, Types, Packet
  <2>3. \A a \in arrived : a.data \in Content
    BY <1>17 DEF MP!TypeOK
  <2>4. Genuine(n.message, n.content)'
    BY <1>4, <1>5 DEF Genuine
  <2> QED BY <1>1, <1>14, <2>1, <2>2, <2>3, <2>4 DEF CollectiveInv, PacketInv
<1>19. CP!AgreementInv' /\ CP!TypeOK /\ Answers /\ requested' = requested /\ received' = received
  BY <1>1, ChecksUnchanged DEF CollectiveInv, CP!AgreementInv, consistencyVars
<1>20. CheckInv'
  BY <1>14, <1>16, <1>19, CheckKept DEF CollectiveInv
<1>21. EnsureInv'
  BY <1>1, <1>19, EnsureKept DEF CollectiveInv
<1> QED
  BY <1>7, <1>11, <1>12, <1>13, <1>15, <1>17, <1>18, <1>19, <1>20, <1>21 DEF CollectiveInv

\* Messages with one key move data between the same parties.
LEMMA UsesTouch ==
  ASSUME NEW x \in Transfer, NEW u \in Uses(CounterKey(x.op, x.element))
  PROVE  \E y \in Transfer : y.op = u[1] /\ y.element = u[2] /\ y.from = x.from /\ y.to = x.to
<1> DEFINE key == CounterKey(x.op, x.element)
<1>1. PICK o \in DOMAIN Program :
        \E e \in DOMAIN Program[o].ends : CounterKey(o, e) = key /\ u = <<o, e>>
  BY DEF Uses
<1>2. PICK e \in DOMAIN Program[o].ends : CounterKey(o, e) = key /\ u = <<o, e>>
  BY <1>1
<1>3. x.op \in DOMAIN Program /\ x.element \in DOMAIN Program[x.op].ends
      /\ <<x.from, x.to>> \in Pairs(x.op, x.element)
  BY TransferOK
<1>4. <<x.from, x.to>> \in Pairs(o, e)
  BY <1>2, <1>3, SamePairs
<1> DEFINE y == [op |-> o, element |-> e, from |-> x.from, to |-> x.to]
<1>5. y \in Transfer
  BY <1>4, TransferOfPair
<1> QED BY <1>2, <1>5

\* collect_tasks.
LEMMA FinishStep ==
  ASSUME CollectiveInv, NEW p \in Party, Finish(p)
  PROVE  CollectiveInv'
<1> DEFINE o    == operation[p]
           next == NextOperation(p, o)
<1>1. /\ phase[p] = "running" /\ todo[p] = {} /\ sending[p] = {}
      /\ \A x \in Transfer : x.op = o /\ x.to = p => task[x] = "done"
      /\ operation' = [operation EXCEPT ![p] = next]
      /\ phase' = [phase EXCEPT ![p] = "start"]
      /\ UNCHANGED <<counters, todo, sending, network, serving, sent, consistencyVars, bufferVars>>
  BY DEF Finish, netVars
<1>2. o \in 1 .. Len(Program) + 1 /\ o <= Len(Program) /\ Len(Program) \in Nat
  BY <1>1, CollectiveAssumption DEF CollectiveInv, Types, LoopInv
<1>3. o \in 0 .. Len(Program) /\ o \in Nat
  BY <1>2
<1>4. /\ next \in 1 .. Len(Program) + 1 /\ next > o
      /\ \A x \in Transfer : x.op > o /\ x.op < next => ~Touches(p, x)
  BY <1>3, NextOperationOK
<1> HIDE DEF next
<1>5. next \in Nat
  BY <1>2, <1>4
<1>6. /\ operation'[p] = next /\ phase'[p] = "start"
      /\ \A q \in Party \ {p} : operation'[q] = operation[q] /\ phase'[q] = phase[q]
  BY <1>1 DEF CollectiveInv, Types
<1>7. Types' /\ ServeInv'
  BY <1>1, <1>4 DEF CollectiveInv, Types, ServeInv
<1>8. \A q \in Party : \A x \in Transfer : Touches(q, x) =>
        (Begun(q, x.op)' <=> Begun(q, x.op)) /\ (x.op < operation'[p] /\ q = p => x.op <= o)
  <2> SUFFICES ASSUME NEW q \in Party, NEW x \in Transfer, Touches(q, x)
               PROVE  (Begun(q, x.op)' <=> Begun(q, x.op)) /\ (x.op < operation'[p] /\ q = p => x.op <= o)
    OBVIOUS
  <2>1. x.op \in Nat
    BY TransferOK
  <2>2. CASE q = p
    <3>1. Begun(q, x.op) <=> x.op <= o
      BY <1>1, <1>3, <2>1, <2>2 DEF Begun
    <3>2. Begun(q, x.op)' <=> x.op < next
      BY <1>6, <2>2 DEF Begun
    <3>3. x.op < next <=> x.op <= o
      BY <1>3, <1>4, <1>5, <2>1, <2>2
    <3> QED BY <1>6, <3>1, <3>2, <3>3
  <2>3. CASE q # p
    BY <1>6, <2>3 DEF Begun
  <2> QED BY <2>2, <2>3
<1>9. \A q \in Party : \A x \in Transfer : Touches(q, x) => (Spawned(q, x)' <=> Spawned(q, x))
  BY <1>1, <1>8 DEF Spawned, Left
<1>10. \A x \in Transfer :
         x.from \in Party /\ x.to \in Party /\ Touches(x.from, x) /\ Touches(x.to, x)
  BY TransferOK DEF Touches
<1>11. CountersInv'
  <2> SUFFICES ASSUME NEW q \in Party, NEW x \in Transfer, Touches(q, x)
               PROVE  LET key == CounterKey(x.op, x.element)
                      IN  counters'[q][key] = Cardinality({u \in Uses(key) : Begun(q, u[1])'})
    BY DEF CountersInv
  <2> DEFINE key == CounterKey(x.op, x.element)
  <2>1. ASSUME NEW u \in Uses(key) PROVE Begun(q, u[1])' <=> Begun(q, u[1])
    <3>1. PICK y \in Transfer : y.op = u[1] /\ y.from = x.from /\ y.to = x.to
      BY UsesTouch
    <3> QED BY <1>8, <3>1 DEF Touches
  <2>2. {u \in Uses(key) : Begun(q, u[1])'} = {u \in Uses(key) : Begun(q, u[1])}
    BY <2>1
  <2> QED BY <1>1, <2>2 DEF CollectiveInv, CountersInv
<1>12. LoopInv'
  BY <1>1, <1>6 DEF CollectiveInv, LoopInv
<1>13. SendInv'
  <2>1. \A q \in Party : \A s \in sending'[q] : q # p
    BY <1>1
  <2>2. \A q \in Party : \A x : Left(q, x)' <=> Left(q, x)
    BY <1>1 DEF Left
  <2> QED BY <1>1, <1>6, <1>9, <1>10, <2>1, <2>2 DEF CollectiveInv, SendInv
<1>14. asked' = asked /\ task' = task /\ arrived' = arrived
  BY <1>1 DEF bufferVars
<1>15. ReceiveInv'
  <2> SUFFICES ASSUME NEW x \in Transfer
               PROVE  /\ asked'[x] # None => asked'[x] = Expected(x)
                      /\ asked'[x] # None <=> Spawned(x.to, x)'
                      /\ x.op < operation'[x.to] => task'[x] = "done"
    BY DEF ReceiveInv
  <2>1. x.op < operation'[x.to] => task[x] = "done"
    <3>1. CASE x.to = p
      <4>1. x.op \in Nat /\ (x.op < operation'[p] => x.op <= o)
        BY <1>8, <1>10, <3>1, TransferOK
      <4>2. x.op < o => task[x] = "done"
        BY <3>1 DEF CollectiveInv, ReceiveInv
      <4> QED BY <1>1, <1>3, <3>1, <4>1, <4>2
    <3>2. CASE x.to # p
      BY <1>6, <1>10, <3>2 DEF CollectiveInv, ReceiveInv
    <3> QED BY <3>1, <3>2
  <2> QED BY <1>9, <1>10, <1>14, <2>1 DEF CollectiveInv, ReceiveInv
<1>16. MP!BufferInv' /\ MP!TypeOK
  BY <1>1, BufferUnchanged DEF CollectiveInv, MP!BufferInv
<1>17. CP!AgreementInv' /\ CP!TypeOK /\ requested' = requested /\ received' = received
       /\ openRequests' = openRequests /\ confirmed' = confirmed
  BY <1>1, ChecksUnchanged DEF CollectiveInv, CP!AgreementInv, consistencyVars
<1>18. PacketInv' /\ CheckInv'
  BY <1>1, <1>14, <1>16, <1>17, PacketsKept, CheckKept DEF CollectiveInv
<1>19. EnsureInv'
  BY <1>1, <1>6, <1>17 DEF CollectiveInv, EnsureInv
<1> QED
  BY <1>7, <1>11, <1>12, <1>13, <1>15, <1>16, <1>17, <1>18, <1>19 DEF CollectiveInv

\* The messages with a key in the operations before o.
UsesBefore(key, o) == {u \in Uses(key) : u[1] < o}

\* Some messages of one operation, counted after those of the operations before.
LEMMA CountMore ==
  ASSUME NEW key, NEW o \in DOMAIN Program, NEW D \in SUBSET DOMAIN Program[o].ends
  PROVE  LET messages == {f \in D : CounterKey(o, f) = key}
             counted  == {u \in Uses(key) : u[1] < o \/ (u[1] = o /\ u[2] \in D)}
         IN  /\ Cardinality(counted) = Cardinality(UsesBefore(key, o)) + Cardinality(messages)
             /\ Cardinality(UsesBefore(key, o)) \in Nat /\ Cardinality(messages) \in Nat
<1> DEFINE messages == {f \in D : CounterKey(o, f) = key}
           before   == UsesBefore(key, o)
           these    == {<<o, f>> : f \in messages}
           counted  == {u \in Uses(key) : u[1] < o \/ (u[1] = o /\ u[2] \in D)}
<1>1. o \in Nat
  BY CollectiveAssumption
<1>2. IsFiniteSet(before) /\ IsFiniteSet(these) /\ these \subseteq Uses(key)
  <2>1. these \subseteq Uses(key)
    BY DEF Uses
  <2>2. before \subseteq Uses(key)
    BY DEF UsesBefore
  <2> QED BY <2>1, <2>2, UsesFinite, FS_Subset
<1>3. IsFiniteSet(messages) /\ Cardinality(messages) = Cardinality(these)
  <2> DEFINE f == [e \in messages |-> <<o, e>>]
  <2>1. f \in Bijection(messages, these)
    BY DEF Bijection, Injection, Surjection, IsInjective
  <2>2. ExistsBijection(messages, these)
    BY <2>1 DEF ExistsBijection
  <2>3. ExistsBijection(these, messages)
    BY <2>2, Fun_ExistsBijSymmetric
  <2> HIDE DEF messages, these
  <2> QED BY <1>2, <2>3, FS_Bijection
<1>4. counted = before \cup these
  <2>1. ASSUME NEW u \in Uses(key), u[1] = o, u[2] \in D PROVE u \in these
    <3>1. PICK m \in DOMAIN Program :
            \E e \in DOMAIN Program[m].ends : CounterKey(m, e) = key /\ u = <<m, e>>
      BY DEF Uses
    <3>2. PICK e \in DOMAIN Program[m].ends : CounterKey(m, e) = key /\ u = <<m, e>>
      BY <3>1
    <3> QED BY <2>1, <3>2
  <2>2. \A u \in these : u \in Uses(key) /\ u[1] = o /\ u[2] \in D
    BY <1>2
  <2> QED BY <2>1, <2>2 DEF UsesBefore
<1>5. before \cap these = {}
  BY <1>1 DEF UsesBefore
<1> HIDE DEF messages, before, these, counted
<1>6. Cardinality(counted) = Cardinality(before) + Cardinality(these)
  <2>1. Cardinality(before \cap these) = 0
    BY <1>5, FS_EmptySet
  <2>2. Cardinality(before) \in Nat /\ Cardinality(these) \in Nat
    BY <1>2, FS_CardinalityType
  <2>3. Cardinality(before \cup these)
          = Cardinality(before) + Cardinality(these) - Cardinality(before \cap these)
    BY <1>2, FS_Union
  <2> QED BY <1>4, <2>1, <2>2, <2>3
<1>7. Cardinality(before) \in Nat /\ Cardinality(messages) \in Nat
  BY <1>2, <1>3, FS_CardinalityType
<1> QED BY <1>3, <1>6, <1>7 DEF messages, before, counted

\* The identifier that p's Queue gives to a message is the one that all parties expect.
LEMMA NextIDOK ==
  ASSUME CollectiveInv, NEW p \in Party, phase[p] # "running",
         NEW x \in Transfer, x.op = operation[p], Touches(p, x)
  PROVE  NextID(p, x.op, x.element) = Identifier(x)
<1> DEFINE o   == x.op
           e   == x.element
           key == CounterKey(o, e)
           ends == DOMAIN Program[o].ends
<1>1. o \in DOMAIN Program /\ e \in ends /\ e \in Nat /\ o \in Nat
  BY TransferOK
<1>2. counters[p][key] = Cardinality(UsesBefore(key, o))
  <2>1. \A u : Begun(p, u) <=> u < o
    BY DEF Begun
  <2>2. {u \in Uses(key) : Begun(p, u[1])} = UsesBefore(key, o)
    BY <2>1 DEF UsesBefore
  <2> QED BY <2>2 DEF CollectiveInv, CountersInv
<1>3. 1 .. e \subseteq ends /\ \A f \in ends : f \in 1 .. e <=> f <= e
  <2>1. ends = 1 .. Len(Program[o].ends) /\ Len(Program[o].ends) \in Nat
    BY <1>1, OperationOK
  <2> QED BY <1>1, <2>1
<1> DEFINE counted == {u \in Uses(key) : u[1] < o \/ (u[1] = o /\ u[2] \in 1 .. e)}
<1>4. Cardinality(counted)
        = Cardinality(UsesBefore(key, o)) + Cardinality({f \in 1 .. e : CounterKey(o, f) = key})
  BY <1>1, <1>3, CountMore
<1>5. counted = {u \in Uses(key) : u[1] < o \/ (u[1] = o /\ u[2] <= e)}
  <2>1. \A u \in Uses(key) : u[1] = o => u[2] \in ends
    BY DEF Uses
  <2> QED BY <1>3, <2>1
<1>6. CountUpTo(x) = Cardinality(counted)
  BY <1>5 DEF CountUpTo
<1> QED BY <1>2, <1>4, <1>6 DEF NextID, Identifier

\* A round starts transfers of one party and one message, all under their identifiers.
LEMMA RoundOK ==
  ASSUME NEW p \in Party, NEW x \in Transfer, Touches(p, x)
  PROVE  /\ x \in RoundWith(p, x).transfers
         /\ \A y \in RoundWith(p, x).transfers :
              /\ y \in Transfer /\ y.op = x.op /\ Touches(p, y)
              /\ RoundWith(p, y) = RoundWith(p, x)
              /\ ToMessage(y, RoundWith(p, x).id) = Expected(y)
<1>1. x \in RoundWith(p, x).transfers
  BY TransferOK DEF RoundWith
<1>2. ASSUME NEW y \in RoundWith(p, x).transfers
      PROVE  /\ y \in Transfer /\ y.op = x.op /\ Touches(p, y)
             /\ RoundWith(p, y) = RoundWith(p, x)
             /\ ToMessage(y, RoundWith(p, x).id) = Expected(y)
  <2>1. y \in Transfers(x.op, x.element) /\ Touches(p, y) /\ RoundOf(p, y) = RoundOf(p, x)
    BY DEF RoundWith
  <2>2. y \in Transfer /\ y.op = x.op /\ y.element = x.element
    BY <2>1, TransfersOK
  <2>3. Identifier(y) = Identifier(x)
    BY <2>2 DEF Identifier, CountUpTo
  <2>4. RoundWith(p, y) = RoundWith(p, x)
    BY <2>1, <2>2, <2>3 DEF RoundWith
  <2>5. ToMessage(y, RoundWith(p, x).id) = Expected(y)
    BY <2>3 DEF RoundWith, Expected, ToMessage, Identifier
  <2> QED BY <2>1, <2>2, <2>4, <2>5
<1> QED BY <1>1, <1>2

\* The rounds of an operation are those with the identifiers that all parties expect.
LEMMA RoundsOK ==
  ASSUME CollectiveInv, NEW p \in Party, phase[p] # "running"
  PROVE  Rounds(p, operation[p]) = RoundsOf(p, operation[p])
<1> DEFINE o  == operation[p]
           mine == {y \in Transfer : y.op = o /\ Touches(p, y)}
           round(x) == [element |-> x.element, other |-> RoundOf(p, x), id |-> NextID(p, o, x.element),
                        transfers |-> {y \in Transfers(o, x.element) :
                                         (y.from = p \/ y.to = p) /\ RoundOf(p, y) = RoundOf(p, x)}]
<1>1. \A x \in mine : round(x) = RoundWith(p, x)
  <2> SUFFICES ASSUME NEW x \in mine PROVE round(x) = RoundWith(p, x)
    OBVIOUS
  <2>1. NextID(p, o, x.element) = Identifier(x)
    BY NextIDOK
  <2> QED BY <2>1 DEF RoundWith, Touches
<1>2. mine = {y \in Transfer : y.op = o /\ (y.from = p \/ y.to = p)}
  BY DEF Touches
<1>3. Rounds(p, o) = {round(x) : x \in mine}
  BY <1>2 DEF Rounds
<1>4. RoundsOf(p, o) = {RoundWith(p, x) : x \in mine}
  BY DEF RoundsOf
<1> HIDE DEF round, mine
<1> QED BY <1>1, <1>3, <1>4

\* The counters go on by the messages of the operation that begins.
LEMMA BeginCounts ==
  ASSUME CollectiveInv, NEW p \in Party, Begin(p)
  PROVE  CountersInv'
<1> DEFINE o == operation[p]
<1>1. /\ phase[p] # "running" /\ o <= Len(Program)
      /\ counters' = [counters EXCEPT ![p] = [key \in DOMAIN @ |->
                        @[key] + Cardinality({e \in DOMAIN Program[o].ends : CounterKey(o, e) = key})]]
      /\ phase' = [phase EXCEPT ![p] = "running"]
      /\ operation' = operation
  BY CollectiveAssumption DEF Begin, MayBegin, AtEnd, CollectiveInv, Types
<1>2. o \in DOMAIN Program /\ o \in Nat
  BY <1>1, CollectiveAssumption DEF CollectiveInv, Types
<1>3. /\ phase'[p] = "running" /\ \A q \in Party \ {p} : phase'[q] = phase[q]
      /\ \A q \in Party \ {p} : counters'[q] = counters[q]
      /\ \A key \in CounterKeys : counters'[p][key]
           = counters[p][key] + Cardinality({e \in DOMAIN Program[o].ends : CounterKey(o, e) = key})
  BY <1>1 DEF CollectiveInv, Types
<1> SUFFICES ASSUME NEW q \in Party, NEW x \in Transfer, Touches(q, x)
             PROVE  LET key == CounterKey(x.op, x.element)
                    IN  counters'[q][key] = Cardinality({u \in Uses(key) : Begun(q, u[1])'})
  BY DEF CountersInv
<1> DEFINE key == CounterKey(x.op, x.element)
<1>4. counters[q][key] = Cardinality({u \in Uses(key) : Begun(q, u[1])})
  BY DEF CollectiveInv, CountersInv
<1>5. key \in CounterKeys
  <2>1. x.op \in DOMAIN Program /\ x.element \in DOMAIN Program[x.op].ends
    BY TransferOK
  <2> QED BY <2>1 DEF CounterKeys
<1>6. CASE q # p
  <2>1. \A u : Begun(q, u)' <=> Begun(q, u)
    BY <1>1, <1>3, <1>6 DEF Begun
  <2>2. {u \in Uses(key) : Begun(q, u[1])'} = {u \in Uses(key) : Begun(q, u[1])}
    BY <2>1
  <2> QED BY <1>3, <1>4, <1>6, <2>2
<1>7. CASE q = p
  <2> DEFINE ends    == DOMAIN Program[o].ends
             counted == {u \in Uses(key) : u[1] < o \/ (u[1] = o /\ u[2] \in ends)}
  <2>1. {u \in Uses(key) : Begun(p, u[1])} = UsesBefore(key, o)
    BY <1>1 DEF Begun, UsesBefore
  <2>2. {u \in Uses(key) : Begun(p, u[1])'} = counted
    <3>1. \A u \in Uses(key) : u[1] = o => u[2] \in ends
      BY DEF Uses
    <3>2. \A u : Begun(p, u)' <=> u < o \/ u = o
      BY <1>1, <1>3 DEF Begun
    <3> QED BY <3>1, <3>2
  <2>3. Cardinality(counted)
          = Cardinality(UsesBefore(key, o)) + Cardinality({e \in ends : CounterKey(o, e) = key})
    BY <1>2, CountMore
  <2> HIDE DEF key, counted
  <2>4. counters'[q][key] = counters[p][key] + Cardinality({e \in ends : CounterKey(o, e) = key})
    BY <1>3, <1>5, <1>7
  <2>5. counters[p][key] = Cardinality(UsesBefore(key, o))
    BY <1>4, <1>7, <2>1
  <2>6. {u \in Uses(key) : Begun(q, u[1])'} = counted
    BY <1>7, <2>2
  <2> HIDE DEF ends
  <2>7. counters'[q][key] = Cardinality({u \in Uses(key) : Begun(q, u[1])'})
    BY <2>3, <2>4, <2>5, <2>6
  <2> QED BY <2>7 DEF key
<1> QED BY <1>6, <1>7

\* An operation begins.
LEMMA BeginStep ==
  ASSUME CollectiveInv, NEW p \in Party, Begin(p)
  PROVE  CollectiveInv'
<1> DEFINE o == operation[p]
<1>1. /\ phase[p] # "running" /\ o <= Len(Program) /\ MayBegin(p)
      /\ counters' = [counters EXCEPT ![p] = [key \in DOMAIN @ |->
                        @[key] + Cardinality({e \in DOMAIN Program[o].ends : CounterKey(o, e) = key})]]
      /\ todo' = [todo EXCEPT ![p] = Rounds(p, o)]
      /\ phase' = [phase EXCEPT ![p] = "running"]
      /\ UNCHANGED <<operation, sending, network, serving, sent, consistencyVars, bufferVars>>
  BY CollectiveAssumption DEF Begin, MayBegin, AtEnd, CollectiveInv, Types, netVars
<1>2. o \in DOMAIN Program /\ o \in Nat
  BY <1>1, CollectiveAssumption DEF CollectiveInv, Types
<1>3. /\ phase'[p] = "running" /\ \A q \in Party \ {p} : phase'[q] = phase[q]
      /\ todo'[p] = RoundsOf(p, o) /\ \A q \in Party \ {p} : todo'[q] = todo[q]
  BY <1>1, RoundsOK DEF CollectiveInv, Types
<1>4. counters' \in [Party -> [CounterKeys -> Nat]]
  <2> DEFINE more(key) == Cardinality({e \in DOMAIN Program[o].ends : CounterKey(o, e) = key})
  <2>1. \A key : more(key) \in Nat
    BY <1>2, OperationOK, FS_Subset, FS_CardinalityType
  <2>2. counters' = [counters EXCEPT ![p] = [key \in DOMAIN @ |-> @[key] + more(key)]]
    BY <1>1
  <2> HIDE DEF more
  <2> QED BY <2>1, <2>2 DEF CollectiveInv, Types
<1>5. Types' /\ ServeInv'
  <2>1. RoundsOf(p, o) \subseteq {RoundWith(q, x) : q \in Party, x \in Transfer}
    BY DEF RoundsOf
  <2>2. todo' \in [Party -> SUBSET {RoundWith(q, x) : q \in Party, x \in Transfer}]
    BY <1>1, <2>1, RoundsOK DEF CollectiveInv, Types
  <2> QED BY <1>1, <1>4, <2>2 DEF CollectiveInv, Types, ServeInv
<1>6. \A x \in Transfer :
        x.from \in Party /\ x.to \in Party /\ Touches(x.from, x) /\ Touches(x.to, x)
  BY TransferOK DEF Touches
<1>7. \A q \in Party : \A x \in Transfer : Touches(q, x) => (Spawned(q, x)' <=> Spawned(q, x))
  <2> SUFFICES ASSUME NEW q \in Party, NEW x \in Transfer, Touches(q, x)
               PROVE  Spawned(q, x)' <=> Spawned(q, x)
    OBVIOUS
  <2>1. CASE q # p
    BY <1>1, <1>3, <2>1 DEF Spawned, Begun, Left
  <2>2. CASE q = p /\ x.op = o
    <3>1. ~Spawned(q, x)
      BY <1>1, <1>2, <2>2 DEF Spawned, Begun
    <3>2. RoundWith(p, x) \in todo'[p]
      BY <1>3, <2>2 DEF RoundsOf
    <3>3. Left(p, x)'
      BY <2>2, <3>2, RoundOK DEF Left
    <3> QED BY <2>2, <3>1, <3>3 DEF Spawned
  <2>3. CASE q = p /\ x.op # o
    <3>1. todo[p] = {}
      BY <1>1 DEF CollectiveInv, LoopInv
    <3>2. ~Left(p, x)
      BY <3>1 DEF Left
    <3>3. ~Left(p, x)'
      <4> SUFFICES ASSUME NEW round \in todo'[p], x \in round.transfers PROVE FALSE
        BY DEF Left
      <4>1. PICK y \in Transfer : y.op = o /\ Touches(p, y) /\ round = RoundWith(p, y)
        BY <1>3 DEF RoundsOf
      <4> QED BY <2>3, <4>1, RoundOK
    <3>4. Begun(p, x.op)' <=> Begun(p, x.op)
      BY <1>1, <2>3 DEF Begun
    <3> QED BY <2>3, <3>2, <3>3, <3>4 DEF Spawned
  <2> QED BY <2>1, <2>2, <2>3
<1>8. CountersInv'
  BY BeginCounts
<1>9. LoopInv'
  BY <1>1, <1>3 DEF CollectiveInv, LoopInv
<1>10. SendInv'
  <2>1. \A q \in Party : \A s \in sending'[q] : q # p
    BY <1>1 DEF CollectiveInv, LoopInv
  <2>2. \A q \in Party \ {p} : \A x : Left(q, x)' <=> Left(q, x)
    BY <1>3 DEF Left
  <2> QED BY <1>1, <1>6, <1>7, <2>1, <2>2 DEF CollectiveInv, SendInv
<1>11. asked' = asked /\ task' = task /\ arrived' = arrived
  BY <1>1 DEF bufferVars
<1>12. ReceiveInv'
  BY <1>1, <1>6, <1>7, <1>11 DEF CollectiveInv, ReceiveInv
<1>13. MP!BufferInv' /\ MP!TypeOK
  BY <1>1, BufferUnchanged DEF CollectiveInv, MP!BufferInv
<1>14. CP!AgreementInv' /\ CP!TypeOK /\ requested' = requested /\ received' = received
       /\ openRequests' = openRequests /\ confirmed' = confirmed
  BY <1>1, ChecksUnchanged DEF CollectiveInv, CP!AgreementInv, consistencyVars
<1>15. PacketInv' /\ CheckInv'
  BY <1>1, <1>11, <1>13, <1>14, PacketsKept, CheckKept DEF CollectiveInv
<1>16. EnsureInv'
  <2>1. ~openRequests[p]
    BY <1>1 DEF MayBegin, CollectiveInv, EnsureInv
  <2>2. ASSUME Ensures(p, o), NEW x \in Transfer, x.to = p, x.op < o, Checked(x.op)
        PROVE  KeyOf(x) \in confirmed[p]
    <3>1. requested[p] \subseteq confirmed[p]
      BY <1>1, <2>2 DEF MayBegin, CollectiveInv, EnsureInv
    <3>2. task[x] = "done"
      BY <2>2 DEF CollectiveInv, ReceiveInv
    <3>3. asked[x] \in Message
      BY <3>2 DEF CollectiveInv, MP!BufferInv, MP!RequestsOfTasks
    <3>4. KeyOf(x) \in requested[p]
      BY <2>2, <3>3, NothingAssumption DEF CollectiveInv, CheckInv
    <3> QED BY <3>1, <3>4
  <2> QED BY <1>1, <1>3, <1>14, <2>1, <2>2 DEF CollectiveInv, EnsureInv
<1> QED
  BY <1>5, <1>8, <1>9, <1>10, <1>12, <1>13, <1>14, <1>15, <1>16 DEF CollectiveInv

\* The next round of a loop: what it starts is, from then on, under way.
LEMMA LoopStep ==
  ASSUME CollectiveInv, NEW p \in Party, NEW round \in todo[p], Loop(p, round)
  PROVE  CollectiveInv'
<1> DEFINE o == operation[p]
           T == round.transfers
           outgoing == {x \in T : x.from = p}
           incoming == T \ outgoing
           new == {[message |-> ToMessage(x, round.id), origin |-> x] : x \in outgoing}
<1>1. /\ sending' = [sending EXCEPT ![p] = @ \cup new]
      /\ todo' = [todo EXCEPT ![p] = @ \ {round}]
      /\ UNCHANGED <<operation, phase, counters, network, serving, sent>>
      /\ \/ incoming = {} /\ UNCHANGED <<consistencyVars, bufferVars>>
         \/ \E x \in incoming :
              /\ MB!Receive(x, ToMessage(x, round.id))
              /\ IF Checked(x.op) THEN CC!Request(p, ToCheckKey(ToMessage(x, round.id)))
                                  ELSE UNCHANGED consistencyVars
  BY DEF Loop, netVars
<1>2. phase[p] = "running" /\ round \in RoundsOf(p, o)
  BY DEF CollectiveInv, LoopInv
<1>3. PICK start \in Transfer : start.op = o /\ Touches(p, start) /\ round = RoundWith(p, start)
  BY <1>2 DEF RoundsOf
<1>4. \A y \in T :
        /\ y \in Transfer /\ y.op = o /\ Touches(p, y)
        /\ RoundWith(p, y) = round
        /\ ToMessage(y, round.id) = Expected(y)
  BY <1>3, RoundOK
<1>5. \A r \in todo[p] : \A y \in r.transfers : r = RoundWith(p, y)
  <2> SUFFICES ASSUME NEW r \in todo[p], NEW y \in r.transfers PROVE r = RoundWith(p, y)
    OBVIOUS
  <2>1. PICK x \in Transfer : Touches(p, x) /\ r = RoundWith(p, x)
    BY DEF CollectiveInv, LoopInv, RoundsOf
  <2> QED BY <2>1, RoundOK
<1>6. /\ todo'[p] = todo[p] \ {round} /\ \A q \in Party \ {p} : todo'[q] = todo[q]
      /\ sending'[p] = sending[p] \cup new /\ \A q \in Party \ {p} : sending'[q] = sending[q]
  BY <1>1 DEF CollectiveInv, Types
<1>7. \A q \in Party : \A y : Left(q, y)' <=> Left(q, y) /\ ~(q = p /\ y \in T)
  <2> SUFFICES ASSUME NEW q \in Party, NEW y
               PROVE  Left(q, y)' <=> Left(q, y) /\ ~(q = p /\ y \in T)
    OBVIOUS
  <2>1. CASE q # p
    BY <1>6, <2>1 DEF Left
  <2>2. CASE q = p
    <3>1. ASSUME y \in T, NEW r \in todo'[p], y \in r.transfers PROVE FALSE
      BY <1>4, <1>5, <1>6, <3>1
    <3>2. Left(p, y) /\ y \notin T => Left(p, y)'
      BY <1>6 DEF Left
    <3>3. Left(p, y)' => Left(p, y)
      BY <1>6 DEF Left
    <3> QED BY <2>2, <3>1, <3>2, <3>3 DEF Left
  <2> QED BY <2>1, <2>2
<1>8. \A q \in Party : \A m : Begun(q, m)' <=> Begun(q, m)
  BY <1>1 DEF Begun
<1>9. \A y \in T : Left(p, y) /\ Begun(p, y.op)
  BY <1>2, <1>4 DEF Left, Begun
<1>10. \A q \in Party : \A y : Spawned(q, y)' <=> Spawned(q, y) \/ (q = p /\ y \in T)
  BY <1>7, <1>8, <1>9 DEF Spawned
<1>11. \A y \in Transfer : y.from \in Party /\ y.to \in Party /\ y.from # y.to
  BY TransferOK
<1>12. \A x \in incoming : x \in Transfer /\ x.to = p /\ \A y \in T : y.to = p => y = x
  <2> SUFFICES ASSUME NEW x \in incoming
               PROVE  x \in Transfer /\ x.to = p /\ \A y \in T : y.to = p => y = x
    OBVIOUS
  <2>1. x \in Transfer /\ x.to = p
    BY <1>4 DEF Touches
  <2>2. ASSUME NEW y \in T, y.to = p PROVE y = x
    <3>1. y \in Transfer /\ RoundWith(p, y) = RoundWith(p, x) /\ y.op = x.op
      BY <1>4
    <3>2. y.element = x.element /\ RoundOf(p, y) = RoundOf(p, x)
      BY <3>1 DEF RoundWith
    <3>3. y.from = x.from
      BY <2>1, <2>2, <3>2 DEF RoundOf
    <3> QED BY <2>1, <2>2, <3>1, <3>2, <3>3, TransferEqual
  <2> QED BY <2>1, <2>2
<1>13. \A y \in T : y.to = p => y \in incoming
  BY <1>4, <1>11
<1> DEFINE ChecksAsked ==
             /\ CP!AgreementInv' /\ CP!TypeOK /\ Answers /\ received' = received
             /\ \A q \in Party : /\ requested[q] \subseteq requested'[q]
                                 /\ requested'[q] = requested[q] \/ q = p
             /\ \A x \in incoming : Checked(x.op) => KeyOf(x) \in requested'[p]
           DataAsked ==
             /\ MP!BufferInv' /\ MP!TypeOK /\ arrived' = arrived
             /\ \A y \in Transfer : task[y] = "done" => task'[y] = "done"
             /\ \A y \in Transfer : asked'[y] = IF y \in incoming THEN Expected(y) ELSE asked[y]
<1>14. ChecksAsked
  <2>1. CASE incoming = {} /\ UNCHANGED consistencyVars
    <3>1. requested' = requested /\ received' = received
      BY <2>1 DEF consistencyVars
    <3> QED BY <2>1, <3>1, ChecksUnchanged DEF CollectiveInv, CP!AgreementInv
  <2>2. ASSUME NEW x \in incoming, Checked(x.op),
               CC!Request(p, ToCheckKey(ToMessage(x, round.id)))
        PROVE  ChecksAsked
    <3>1. x \in Transfer /\ KeyOf(x) \in CheckKey /\ CC!Request(p, KeyOf(x))
      BY <1>4, <1>12, <2>2, KeyOfOK DEF KeyOf
    <3>2. /\ CP!AgreementInv' /\ Answers /\ CP!TypeOK
          /\ requested' = [requested EXCEPT ![p] = @ \cup {KeyOf(x)}]
          /\ received' = received
      BY <3>1, RequestEffect DEF CollectiveInv, CP!AgreementInv
    <3>3. requested \in [Party -> SUBSET CheckKey]
      BY <3>2 DEF CP!TypeOK
    <3>4. /\ requested'[p] = requested[p] \cup {KeyOf(x)}
          /\ \A q \in Party \ {p} : requested'[q] = requested[q]
      BY <3>2, <3>3
    <3>5. \A y \in incoming : y = x
      BY <1>12
    <3> QED BY <3>2, <3>4, <3>5
  <2>3. ASSUME NEW x \in incoming, ~Checked(x.op), UNCHANGED consistencyVars
        PROVE  ChecksAsked
    <3>1. requested' = requested /\ received' = received
      BY <2>3 DEF consistencyVars
    <3>2. \A y \in incoming : y = x
      BY <1>12
    <3> QED BY <2>3, <3>1, <3>2, ChecksUnchanged DEF CollectiveInv, CP!AgreementInv
  <2> QED BY <1>1, <2>1, <2>2, <2>3
<1>15. DataAsked
  <2>1. CASE incoming = {} /\ UNCHANGED bufferVars
    <3>1. arrived' = arrived /\ task' = task /\ asked' = asked
      BY <2>1 DEF bufferVars
    <3> QED BY <2>1, <3>1, BufferUnchanged DEF CollectiveInv, MP!BufferInv
  <2>2. ASSUME NEW x \in incoming, MB!Receive(x, ToMessage(x, round.id))
        PROVE  DataAsked
    <3>1. x \in Transfer /\ Expected(x) \in Message /\ MB!Receive(x, Expected(x))
      BY <1>4, <1>12, <2>2, ExpectedOK
    <3>2. /\ MP!BufferInv' /\ MP!TypeOK
          /\ asked' = [asked EXCEPT ![x] = Expected(x)] /\ arrived' = arrived
          /\ \A y \in Transfer : task[y] = "done" => task'[y] = "done"
      BY <3>1, ReceiveEffect DEF CollectiveInv, MP!BufferInv
    <3>3. \A y \in incoming : y = x
      BY <1>12
    <3>4. asked \in [Transfer -> Message \cup {None}]
      BY <3>2 DEF MP!TypeOK
    <3> QED BY <3>1, <3>2, <3>3, <3>4
  <2> QED BY <1>1, <2>1, <2>2
<1> HIDE DEF incoming, outgoing, T
<1>16. \A s \in new : s.origin \in T /\ s.origin \in Transfer /\ s.origin.from = p
                      /\ s.message = Expected(s.origin) /\ s \in [message : Message, origin : Transfer]
  BY <1>4, ExpectedOK DEF outgoing
<1>17. \A x \in T : x.from = p => \E s \in new : s.origin = x
  <2> SUFFICES ASSUME NEW x \in T, x.from = p PROVE \E s \in new : s.origin = x
    OBVIOUS
  <2>1. [message |-> ToMessage(x, round.id), origin |-> x] \in new
    BY DEF outgoing
  <2> HIDE DEF new
  <2> QED BY <2>1
<1> HIDE DEF new
<1>18. Types' /\ ServeInv'
  BY <1>1, <1>16 DEF CollectiveInv, Types, ServeInv
<1>19. CountersInv'
  <2> SUFFICES ASSUME NEW q \in Party, NEW y \in Transfer, Touches(q, y)
               PROVE  LET key == CounterKey(y.op, y.element)
                      IN  counters'[q][key] = Cardinality({u \in Uses(key) : Begun(q, u[1])'})
    BY DEF CountersInv
  <2> DEFINE key == CounterKey(y.op, y.element)
  <2>1. {u \in Uses(key) : Begun(q, u[1])'} = {u \in Uses(key) : Begun(q, u[1])}
    BY <1>8
  <2> QED BY <1>1, <2>1 DEF CollectiveInv, CountersInv
<1>20. LoopInv'
  BY <1>1, <1>2, <1>6 DEF CollectiveInv, LoopInv
<1>21. SendInv'
  <2>1. \A x \in T : x.from = p => sent[x] = None
    BY <1>4, <1>9 DEF CollectiveInv, SendInv, Spawned
  <2>2. ASSUME NEW q \in Party, NEW s \in sending'[q]
        PROVE  /\ s.message = Expected(s.origin)
               /\ s.origin.from = q /\ s.origin.op = operation'[q]
               /\ ~Left(q, s.origin)'
               /\ sent'[s.origin] = None
    <3>1. CASE s \in sending[q]
      BY <1>1, <1>7, <3>1 DEF CollectiveInv, SendInv
    <3>2. CASE q = p /\ s \in new
      BY <1>1, <1>4, <1>7, <1>16, <2>1, <3>2
    <3> QED BY <1>6, <3>1, <3>2
  <2>3. ASSUME NEW x \in Transfer, Spawned(x.from, x)'
        PROVE  sent'[x] # None \/ \E s \in sending'[x.from] : s.origin = x
    <3>1. CASE Spawned(x.from, x)
      BY <1>1, <1>6, <1>11, <3>1 DEF CollectiveInv, SendInv
    <3>2. CASE x.from = p /\ x \in T
      BY <1>6, <1>17, <3>2
    <3> QED BY <1>10, <1>11, <2>3, <3>1, <3>2
  <2>4. \A x \in Transfer : sent'[x] # None => Spawned(x.from, x)'
    BY <1>1, <1>10, <1>11 DEF CollectiveInv, SendInv
  <2> QED BY <2>2, <2>3, <2>4 DEF SendInv
<1>22. ReceiveInv'
  <2> SUFFICES ASSUME NEW x \in Transfer
               PROVE  /\ asked'[x] # None => asked'[x] = Expected(x)
                      /\ asked'[x] # None <=> Spawned(x.to, x)'
                      /\ x.op < operation'[x.to] => task'[x] = "done"
    BY DEF ReceiveInv
  <2>1. /\ asked[x] # None => asked[x] = Expected(x)
        /\ asked[x] # None <=> Spawned(x.to, x)
        /\ x.op < operation[x.to] => task[x] = "done"
    BY DEF CollectiveInv, ReceiveInv
  <2>2. x \in incoming <=> x.to = p /\ x \in T
    BY <1>12, <1>13 DEF incoming
  <2>3. Expected(x) # None
    BY ExpectedOK, NothingAssumption
  <2> QED BY <1>1, <1>10, <1>11, <1>15, <2>1, <2>2, <2>3
<1>23. PacketInv'
  BY <1>1, <1>15, PacketsKept DEF CollectiveInv
<1>24. CheckInv'
  <2>1. ASSUME NEW x \in Transfer, Checked(x.op), asked'[x] # None
        PROVE  KeyOf(x) \in requested'[x.to]
    <3>1. CASE x \in incoming
      BY <1>12, <1>14, <2>1, <3>1
    <3>2. CASE x \notin incoming
      BY <1>11, <1>14, <1>15, <2>1, <3>2 DEF CollectiveInv, CheckInv
    <3> QED BY <3>1, <3>2
  <2> QED BY <1>1, <1>14, <2>1 DEF CollectiveInv, CheckInv
<1>25. EnsureInv'
  BY <1>1, <1>2, <1>14, EnsureKept DEF CollectiveInv
<1> QED
  BY <1>14, <1>15, <1>18, <1>19, <1>20, <1>21, <1>22, <1>23, <1>24, <1>25 DEF CollectiveInv

-----------------------------------------------------------------------------
(* The invariant holds *)

\* At the start no operation has begun.
LEMMA InitCollective == Init => CollectiveInv
<1> SUFFICES ASSUME Init PROVE CollectiveInv
  OBVIOUS
<1>1. CP!AgreementInv /\ MP!BufferInv
  BY SameCommands, SameBuffer, Assumptions, CP!InitAgrees, MP!InitBuffer DEF Init
<1>2. \A p \in Party :
        /\ operation[p] \in 1 .. Len(Program) + 1
        /\ \A x \in Transfer : x.op < operation[p] => ~Touches(p, x)
  <2> SUFFICES ASSUME NEW p \in Party
               PROVE  /\ operation[p] \in 1 .. Len(Program) + 1
                      /\ \A x \in Transfer : x.op < operation[p] => ~Touches(p, x)
    OBVIOUS
  <2>1. operation[p] = NextOperation(p, 0) /\ 0 \in 0 .. Len(Program)
    BY CollectiveAssumption DEF Init
  <2>2. ASSUME NEW x \in Transfer PROVE x.op > 0
    <3>1. x.op \in DOMAIN Program
      BY TransferOK
    <3>2. x.op \in 1 .. Len(Program) /\ Len(Program) \in Nat
      BY <3>1, OperationOK
    <3> QED BY <3>2
  <2> QED BY <2>1, <2>2, NextOperationOK
<1>3. \A p \in Party : \A x \in Transfer : Touches(p, x) => ~Begun(p, x.op)
  BY <1>2 DEF Begun, Init
<1>4. \A x \in Transfer :
        x.from \in Party /\ x.to \in Party /\ Touches(x.from, x) /\ Touches(x.to, x)
  BY TransferOK DEF Touches
<1>5. Types
  <2>1. operation \in [Party -> 1 .. Len(Program) + 1]
    BY <1>2 DEF Init
  <2> QED BY <2>1 DEF Types, Init
<1>6. CountersInv
  <2> SUFFICES ASSUME NEW p \in Party, NEW x \in Transfer, Touches(p, x)
               PROVE  LET key == CounterKey(x.op, x.element)
                      IN  counters[p][key] = Cardinality({u \in Uses(key) : Begun(p, u[1])})
    BY DEF CountersInv
  <2> DEFINE key == CounterKey(x.op, x.element)
  <2>1. x.op \in DOMAIN Program /\ x.element \in DOMAIN Program[x.op].ends
    BY TransferOK
  <2>2. counters[p][key] = 0
    BY <2>1 DEF Init, CounterKeys
  <2>3. ASSUME NEW u \in Uses(key) PROVE ~Begun(p, u[1])
    <3>1. PICK y \in Transfer : y.op = u[1] /\ y.from = x.from /\ y.to = x.to
      BY UsesTouch
    <3> QED BY <1>3, <3>1 DEF Touches
  <2>4. {u \in Uses(key) : Begun(p, u[1])} = {}
    BY <2>3
  <2> QED BY <2>2, <2>4, FS_EmptySet
<1>7. LoopInv
  BY DEF LoopInv, Init
<1>8. SendInv /\ ReceiveInv
  <2>1. \A x \in Transfer : ~Spawned(x.from, x) /\ ~Spawned(x.to, x) /\ ~(x.op < operation[x.to])
    BY <1>2, <1>3, <1>4 DEF Spawned
  <2>2. \A x \in Transfer : sent[x] = None /\ asked[x] = None
    BY DEF Init, MB!Init
  <2> QED BY <2>1, <2>2 DEF SendInv, ReceiveInv, Init
<1>9. PacketInv /\ CheckInv
  BY DEF PacketInv, CheckInv, Init, MB!Init, CC!Init
<1>10. EnsureInv /\ ServeInv
  BY DEF EnsureInv, ServeInv, Init, CC!Init
<1> QED
  BY <1>1, <1>5, <1>6, <1>7, <1>8, <1>9, <1>10 DEF CollectiveInv

\* What is sent is data.
LEMMA PayloadOK == \A s : Payload(s) \subseteq Hash
<1>1. Hash # {}
  BY CollectiveAssumption
<1>2. (CHOOSE h \in Hash : TRUE) \in Hash
  BY <1>1
<1> QED BY <1>2 DEF Payload

\* Every step of a party keeps the invariant.
LEMMA NextKeepsCollective == CollectiveInv /\ [Next]_vars => CollectiveInv'
<1> SUFFICES ASSUME CollectiveInv, [Next]_vars PROVE CollectiveInv'
  OBVIOUS
<1>1. ASSUME NEW p \in Party, Step(p) PROVE CollectiveInv'
  <2>1. CASE Ensure(p) \/ Begin(p) \/ Finish(p) \/ Close(p)
    BY <2>1, EnsureStep, BeginStep, FinishStep, CloseStep
  <2>2. ASSUME NEW round \in todo[p], Loop(p, round) PROVE CollectiveInv'
    BY <2>2, LoopStep
  <2>3. ASSUME NEW s \in sending[p], NEW h \in Payload(s), Send(p, s, h) PROVE CollectiveInv'
    BY <2>3, PayloadOK, SendStep
  <2>4. ASSUME NEW n \in network, ServeData(p, n) PROVE CollectiveInv'
    BY <2>4, ServeDataStep
  <2>5. ASSUME NEW n \in network \cup serving, ServeBuffer(p, n) PROVE CollectiveInv'
    BY <2>5, ServeBufferStep
  <2>6. CASE Notify(p) \/ \E c \in checks : ServeCheck(p, c)
    BY <2>6, ConsistencyTaskStep
  <2> QED BY <1>1, <2>1, <2>2, <2>3, <2>4, <2>5, <2>6 DEF Step
<1>2. CASE UNCHANGED vars
  <2>1. UNCHANGED <<operation, phase, counters, todo, sending, network, serving, sent>>
        /\ UNCHANGED consistencyVars /\ UNCHANGED bufferVars
    BY <1>2 DEF vars, queueVars, netVars
  <2>2. CountersInv' /\ LoopInv' /\ SendInv' /\ ReceiveInv' /\ MP!BufferInv'
    BY <2>1, QueueKept DEF CollectiveInv, Types
  <2>3. CP!AgreementInv' /\ CP!TypeOK /\ Answers
    BY <2>1, ChecksUnchanged DEF CollectiveInv, CP!AgreementInv
  <2>4. arrived' = arrived /\ asked' = asked /\ requested' = requested /\ received' = received
    BY <2>1 DEF bufferVars, consistencyVars
  <2>5. PacketInv' /\ CheckInv' /\ EnsureInv'
    BY <2>1, <2>3, <2>4, PacketsKept, CheckKept, EnsureKept DEF CollectiveInv, MP!BufferInv
  <2>6. Types' /\ ServeInv'
    BY <2>1 DEF CollectiveInv, Types, ServeInv
  <2> QED BY <2>2, <2>3, <2>5, <2>6 DEF CollectiveInv
<1> QED BY <1>1, <1>2 DEF Next

LEMMA CollectiveInvHolds == Spec => []CollectiveInv
BY InitCollective, NextKeepsCollective, PTL DEF Spec

-----------------------------------------------------------------------------
(* What follows *)

\* Queues, tasks, buffer and checks hold values of the code's types; what a loop has left,
\* sends and receives are transfers of the program, under messages that the parties expect,
\* and one task serves a connection (queue.rs, server.rs 33-77).
THEOREM CollectiveTypeOK == Spec => []TypeOK
<1>1. CollectiveInv => TypeOK
  <2> SUFFICES ASSUME CollectiveInv PROVE TypeOK
    OBVIOUS
  <2>1. CC!TypeOK /\ MB!TypeOK
    BY SameCommands, SameBuffer DEF CollectiveInv, CP!AgreementInv, MP!BufferInv
  <2>2. ASSUME NEW p \in Party, NEW round \in todo[p] PROVE round.transfers \subseteq Transfer
    <3>1. PICK x \in Transfer : Touches(p, x) /\ round = RoundWith(p, x)
      BY DEF CollectiveInv, LoopInv, RoundsOf
    <3> QED BY <3>1, RoundOK
  <2>3. \A p \in Party : \A s \in sending[p] : s.message \in Message /\ s.origin \in Transfer
    BY DEF CollectiveInv, Types
  <2> QED BY <2>1, <2>2, <2>3 DEF TypeOK, CollectiveInv, Types, ServeInv
<1> QED BY <1>1, CollectiveInvHolds, PTL

\* A Queue that is gone had waited for the checks of all that it received (Drop, queue.rs
\* 679-685), and what these confirmed is the same at all receivers.
THEOREM ClosedAgreeHolds == Spec => []ClosedAgree
<1>1. CollectiveInv => ClosedAgree
  <2> SUFFICES ASSUME CollectiveInv, NEW p \in Party, phase[p] = "closed", NEW k \in requested[p]
               PROVE  CC!AllAgree(p, k)
    BY DEF ClosedAgree
  <2>1. k \in confirmed[p]
    BY DEF CollectiveInv, EnsureInv
  <2>2. CP!AllAgree(p, k)
    BY <2>1 DEF CollectiveInv, CP!AgreementInv, CP!Agreement
  <2> QED BY <2>2, SameCommands
<1> QED BY <1>1, CollectiveInvHolds, PTL

-----------------------------------------------------------------------------
(* Collective communication does what Exchange promises *)

\* The data that x's receive task holds as that of x.
Holding ==
  [x \in Transfer |-> IF result[x] = None THEN None
                      ELSE IF result[x].origin = x THEN result[x].hash
                      ELSE Absent]

\* The numbers of operations are natural numbers.
LEMMA OperationsOK ==
  ASSUME CollectiveInv
  PROVE  (\A x \in Transfer : x.op \in Nat) /\ (\A p \in Party : operation[p] \in Nat)
<1>1. \A x \in Transfer : x.op \in Nat
  BY TransferOK
<1>2. Len(Program) + 1 \in Nat
  <2>1. Program \in Seq(Operation)
    BY CollectiveAssumption
  <2> QED BY <2>1
<1>3. \A p \in Party : operation[p] \in 1 .. Len(Program) + 1
  BY DEF CollectiveInv, Types
<1> DEFINE last == Len(Program) + 1
<1> HIDE DEF last
<1>4. \A p \in Party : operation[p] \in 1 .. last /\ last \in Nat
  BY <1>2, <1>3 DEF last
<1> QED BY <1>1, <1>4

\* A party has all the data of the operations before its current one: its own is sent, and
\* that of the others is held.
LEMMA ThroughBefore ==
  ASSUME CollectiveInv, NEW p \in Party, NEW o \in Nat, o <= operation[p]
  PROVE  Exchanged!Through(p, o)
<1> SUFFICES ASSUME NEW y \in Transfer, y.op < o
             PROVE  (y.from = p => sent[y] # None) /\ (y.to = p => Holding[y] # None)
  BY DEF Exchanged!Through, Holding
<1>1. y.op \in Nat /\ operation[p] \in Nat
  BY OperationsOK
<1>2. y.op < operation[p]
  BY <1>1
<1>3. ASSUME y.from = p PROVE sent[y] # None
  <2>1. ~Left(p, y)
    <3> SUFFICES ASSUME NEW round \in todo[p], y \in round.transfers PROVE FALSE
      BY DEF Left
    <3>1. PICK x \in Transfer : x.op = operation[p] /\ Touches(p, x) /\ round = RoundWith(p, x)
      BY DEF CollectiveInv, LoopInv, RoundsOf
    <3>2. y.op = operation[p]
      BY <3>1, RoundOK
    <3> QED BY <1>1, <1>2, <3>2
  <2>2. Spawned(y.from, y)
    BY <1>2, <1>3, <2>1 DEF Spawned, Begun
  <2>3. \A s \in sending[p] : s.origin # y
    BY <1>1, <1>2 DEF CollectiveInv, SendInv
  <2> QED BY <1>3, <2>2, <2>3 DEF CollectiveInv, SendInv
<1>4. ASSUME y.to = p PROVE Holding[y] # None
  <2>1. task[y] = "done"
    BY <1>2, <1>4 DEF CollectiveInv, ReceiveInv
  <2>2. result[y] # None
    BY <2>1 DEF CollectiveInv, MP!BufferInv, MP!TypeOK
  <2> QED BY <2>2, ResultGenuine, NothingAssumption DEF Holding
<1> QED BY <1>3, <1>4

\* A party that sends had its consistency ensured: what it got in earlier operations is the
\* data that was sent to all receivers.
LEMMA AgreedBefore ==
  ASSUME CollectiveInv, NEW x \in Transfer, x.op = operation[x.from], phase[x.from] = "running"
  PROVE  Exchanged!Agreed(x.from, x.op)
<1> DEFINE p == x.from
<1> SUFFICES ASSUME NEW y \in Transfer, y.op < x.op, y.to = p, NEW z \in SameSource[y]
             PROVE  sent[z] = sent[y]
  BY DEF Exchanged!Agreed
<1> DEFINE k == KeyOf(y)
<1>1. p \in Party
  BY TransferOK
<1>2. /\ z \in Transfer /\ Checked(y.op) /\ KeyOf(z) = k /\ k \in CheckKey
      /\ z.op = y.op /\ z.element = y.element /\ z.from = y.from
  BY KeyOfOK
<1>3. k \in confirmed[p]
  BY <1>1, <1>2, SendersEnsure DEF CollectiveInv, EnsureInv
<1>4. \A q \in CP!Others(p, k) : CP!SameData(p, q, k)
  BY <1>1, <1>3 DEF CollectiveInv, CP!AgreementInv, CP!Agreement, CP!AllAgree
<1>5. ASSUME z.to # p PROVE sent[z] = sent[y]
  <2>1. z.to \in CP!Others(p, k) /\ z.to \in Party
    BY <1>2, <1>5, CheckReceiversOK, TransferOK DEF CP!Others
  <2>2. received[p][k] # None /\ received[z.to][k] = received[p][k]
    BY <1>4, <2>1, NothingAssumption DEF CP!SameData
  <2>3. \A q \in Party : received[q][k] # None =>
          \E w \in Transfer : w.to = q /\ Checked(w.op) /\ KeyOf(w) = k /\ sent[w] = received[q][k]
    BY <1>2 DEF CollectiveInv, CheckInv
  <2>4. PICK w \in Transfer : w.to = z.to /\ KeyOf(w) = k /\ sent[w] = received[p][k]
    BY <2>1, <2>2, <2>3
  <2>5. PICK v \in Transfer : v.to = p /\ KeyOf(v) = k /\ sent[v] = received[p][k]
    BY <1>1, <2>2, <2>3
  <2>6. w = z
    <3>1. w.op = z.op /\ w.element = z.element /\ w.from = z.from
      BY <1>2, <2>4, KeyOfOK
    <3> QED BY <1>2, <2>4, <3>1, TransferEqual
  <2>7. v = y
    <3>1. v.op = y.op /\ v.element = y.element /\ v.from = y.from
      BY <2>5, KeyOfOK
    <3> QED BY <2>5, <3>1, TransferEqual
  <2> QED BY <2>4, <2>5, <2>6, <2>7
<1>6. ASSUME z.to = p PROVE sent[z] = sent[y]
  <2>1. z = y
    BY <1>2, <1>6, TransferEqual
  <2> QED BY <2>1
<1> QED BY <1>5, <1>6

\* A send task gives the network the data of one transfer, for the first time.
LEMMA SendPromised ==
  ASSUME CollectiveInv, NEW p \in Party, NEW s \in sending[p], NEW h \in Hash, Send(p, s, h)
  PROVE  Exchanged!Next
<1> DEFINE x == s.origin
<1>1. /\ x \in Transfer /\ x.from = p /\ x.op = operation[p] /\ sent[x] = None
      /\ phase[p] = "running"
  BY DEF CollectiveInv, Types, SendInv, LoopInv
<1>2. sent' = [sent EXCEPT ![x] = h] /\ UNCHANGED bufferVars
  BY DEF Send
<1> HIDE DEF x
<1>3. x.op \in Nat
  BY <1>1, TransferOK
<1>4. Exchanged!Through(x.from, x.op)
  BY <1>1, <1>3, ThroughBefore
<1>5. Exchanged!Agreed(x.from, x.op)
  BY <1>1, AgreedBefore
<1>6. Holding' = Holding
  BY <1>2 DEF Holding, bufferVars
<1>7. Exchanged!Send(x, h)
  BY <1>1, <1>2, <1>4, <1>5, <1>6 DEF Exchanged!Send, Holding
<1> QED BY <1>1, <1>7 DEF Exchanged!Next

\* A receive task gets the data that was sent for its transfer, after those of the
\* operations before.
LEMMA DeliverPromised ==
  ASSUME CollectiveInv, NEW x \in Transfer, NEW d \in Content,
         Genuine(Expected(x), d), result[x] = None, x.op <= operation[x.to],
         result' = [result EXCEPT ![x] = d], sent' = sent
  PROVE  Exchanged!Next
<1>1. d.origin = x /\ d.hash \in Hash /\ sent[x] = d.hash
  <2>1. d.origin \in Transfer /\ d.hash \in Hash
    BY DEF Content
  <2> QED BY <2>1, ExpectedOK DEF Genuine
<1>2. result \in [Transfer -> Content \cup {None}]
  BY DEF CollectiveInv, MP!BufferInv, MP!TypeOK
<1>3. Holding' = [Holding EXCEPT ![x] = sent[x]]
  <2>1. /\ result'[x] = d /\ d # None
        /\ \A y \in Transfer \ {x} : result'[y] = result[y]
    BY <1>2, NothingAssumption
  <2>2. \A y \in Transfer : Holding'[y] = IF y = x THEN sent[x] ELSE Holding[y]
    BY <1>1, <2>1 DEF Holding
  <2>3. Holding' = [y \in Transfer |-> Holding'[y]] /\ Holding = [y \in Transfer |-> Holding[y]]
    BY DEF Holding
  <2>4. Holding' = [y \in Transfer |-> IF y = x THEN sent[x] ELSE Holding[y]]
    BY <2>2, <2>3
  <2> QED BY <2>3, <2>4
<1>4. Holding[x] = None /\ sent[x] # None
  BY <1>1, NothingAssumption DEF Holding
<1>5. Exchanged!Through(x.to, x.op)
  BY TransferOK, ThroughBefore
<1>6. Exchanged!Deliver(x)
  BY <1>3, <1>4, <1>5 DEF Exchanged!Deliver, Holding
<1> QED BY <1>6 DEF Exchanged!Next

\* A step without a send task's or a receive task's end changes nothing that is promised.
LEMMA NothingPromised ==
  ASSUME sent' = sent, result' = result
  PROVE  UNCHANGED Exchanged!vars
BY DEF Exchanged!vars

\* The data of a receive task is there when it asks for it.
LEMMA LoopPromised ==
  ASSUME CollectiveInv, NEW p \in Party, NEW round \in todo[p], Loop(p, round)
  PROVE  [Exchanged!Next]_(Exchanged!vars)
<1> DEFINE outgoing == {x \in round.transfers : x.from = p}
<1>1. /\ sent' = sent
      /\ \/ UNCHANGED bufferVars
         \/ \E x \in round.transfers \ outgoing : MB!Receive(x, ToMessage(x, round.id))
  BY DEF Loop
<1>2. CASE UNCHANGED bufferVars
  <2>1. result' = result
    BY <1>2 DEF bufferVars
  <2> QED BY <1>1, <2>1, NothingPromised
<1>3. ASSUME NEW x \in round.transfers \ outgoing, MB!Receive(x, ToMessage(x, round.id))
      PROVE  [Exchanged!Next]_(Exchanged!vars)
  <2>1. PICK start \in Transfer :
          start.op = operation[p] /\ Touches(p, start) /\ round = RoundWith(p, start)
    BY DEF CollectiveInv, LoopInv, RoundsOf
  <2>2. /\ x \in Transfer /\ x.op = operation[p] /\ x.to = p
        /\ MB!Receive(x, Expected(x)) /\ Expected(x) \in Message
    BY <1>3, <2>1, RoundOK, ExpectedOK DEF Touches
  <2>3. CASE result' = result
    BY <1>1, <2>3, NothingPromised
  <2>4. CASE result' # result
    <3> DEFINE m == Expected(x)
               d == messageBuffer[m]
    <3>1. /\ result[x] = None /\ d # None /\ [message |-> m, data |-> d] \in arrived
          /\ result' = [result EXCEPT ![x] = d]
      BY <2>2, <2>4, ReceiveEffect DEF CollectiveInv
    <3>2. d \in Content
      BY <2>2, <3>1 DEF CollectiveInv, MP!BufferInv, MP!TypeOK
    <3>3. Genuine(m, d)
      BY <3>1 DEF CollectiveInv, PacketInv
    <3>4. x.op <= operation[x.to]
      BY <2>2, OperationsOK
    <3> QED BY <1>1, <2>2, <3>1, <3>2, <3>3, <3>4, DeliverPromised
  <2> QED BY <2>3, <2>4
<1> QED BY <1>1, <1>2, <1>3

\* A receive task waits for the data that the server hands on.
LEMMA ServePromised ==
  ASSUME CollectiveInv, NEW p \in Party, NEW n \in network \cup serving, ServeBuffer(p, n)
  PROVE  [Exchanged!Next]_(Exchanged!vars)
<1>1. sent' = sent /\ MB!Received(n.message, n.content)
  BY DEF ServeBuffer
<1>2. n.message \in Message /\ n.content \in Content /\ Genuine(n.message, n.content)
  BY DEF CollectiveInv, Types, Packet, PacketInv
<1>3. CASE result' = result
  BY <1>1, <1>3, NothingPromised
<1>4. CASE result' # result
  <2>1. PICK x \in Transfer : /\ asked[x] = n.message /\ result[x] = None
                              /\ result' = [result EXCEPT ![x] = n.content]
    BY <1>1, <1>2, <1>4, ReceivedEffect DEF CollectiveInv
  <2>2. asked[x] # None /\ asked[x] = Expected(x) /\ Spawned(x.to, x)
    BY <1>2, <2>1, NothingAssumption DEF CollectiveInv, ReceiveInv
  <2>3. x.op <= operation[x.to]
    <3>1. x.op \in Nat /\ x.to \in Party /\ operation[x.to] \in Nat
      BY OperationsOK, TransferOK
    <3> QED BY <2>2, <3>1 DEF Spawned, Begun
  <2> QED BY <1>1, <1>2, <2>1, <2>2, <2>3, DeliverPromised
<1> QED BY <1>3, <1>4

\* Collective communication implements Exchange: every receive task gets the data that was
\* sent for it, once; a party sends in an operation only when it is through with those
\* before, and what it got in them is the same for all receivers (ensure_consistency and
\* the multi operations of queue.rs).
THEOREM ExchangesHolds == Spec => Exchanges
<1>1. Init => Exchanged!Init
  BY DEF Init, MB!Init, Exchanged!Init
<1>2. CollectiveInv /\ [Next]_vars => [Exchanged!Next]_(Exchanged!vars)
  <2> SUFFICES ASSUME CollectiveInv, [Next]_vars PROVE [Exchanged!Next]_(Exchanged!vars)
    OBVIOUS
  <2>1. ASSUME NEW p \in Party, Step(p) PROVE [Exchanged!Next]_(Exchanged!vars)
    <3>1. CASE Ensure(p) \/ Begin(p) \/ Finish(p) \/ Close(p)
      <4>1. sent' = sent /\ UNCHANGED bufferVars
        BY <3>1 DEF Ensure, Begin, Finish, Close
      <4> QED BY <4>1, NothingPromised DEF bufferVars
    <3>2. ASSUME NEW round \in todo[p], Loop(p, round) PROVE [Exchanged!Next]_(Exchanged!vars)
      BY <3>2, LoopPromised
    <3>3. ASSUME NEW s \in sending[p], NEW h \in Payload(s), Send(p, s, h) PROVE Exchanged!Next
      BY <3>3, PayloadOK, SendPromised
    <3>4. ASSUME NEW n \in network \cup serving, ServeBuffer(p, n)
          PROVE  [Exchanged!Next]_(Exchanged!vars)
      BY <3>4, ServePromised
    <3>5. CASE \/ Notify(p)
               \/ \E n \in network : ServeData(p, n)
               \/ \E c \in checks : ServeCheck(p, c)
      <4>1. sent' = sent /\ UNCHANGED bufferVars
        BY <3>5 DEF Notify, ServeData, ServeCheck
      <4> QED BY <4>1, NothingPromised DEF bufferVars
    <3> QED BY <2>1, <3>1, <3>2, <3>3, <3>4, <3>5 DEF Step
  <2>2. CASE UNCHANGED vars
    <3>1. sent' = sent /\ result' = result
      BY <2>2 DEF vars, bufferVars
    <3> QED BY <3>1, NothingPromised
  <2> QED BY <2>1, <2>2 DEF Next
<1> QED BY <1>1, <1>2, CollectiveInvHolds, PTL DEF Spec, Exchanges, Exchanged!Spec

=============================================================================
