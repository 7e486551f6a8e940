---------------------------- MODULE NetworkProofs ----------------------------
(***************************************************************************)
(* Proofs about the tasks between a Queue and the network: when a          *)
(* multi-broadcast is over, nothing is left in a channel, on a stream or   *)
(* with a task, for any parties, broadcasts, channels and streams.         *)
(*                                                                         *)
(* What the consistency tasks do is proved in ConsistencyProofs, which is  *)
(* used here as an instance.                                               *)
(***************************************************************************)
EXTENDS Backpressure, FiniteSetTheorems, FunctionTheorems, TLAPS

CP == INSTANCE ConsistencyProofs WITH
        Receivers <- [k \in Key |-> Others(Sender[k])], Inconsistent <- {}, MaxFailures <- 0

------------------------------------------------------------------------------
(* What is where *)

Data(k)  == [type |-> "data", key |-> k]
Check(k) == [type |-> "check", key |-> k]

InStream(q, p, m) == \E i \in DOMAIN streams[q][p] : streams[q][p][i] = m
InChannel(p, c)   == \E i \in DOMAIN channel[p] : channel[p][i] = c

\* The command to wait is not taken yet.
Ordered(p) == \E i \in DOMAIN channel[p] : channel[p][i].type = "wait"

\* The types of queues, channels and streams.  (Those of TypeOK without the channels' length)
Types ==
  /\ phase \in [Party -> {"loop", "wait", "closed"}]
  /\ next \in [Party -> 1 .. Len(Sender) + 1]
  /\ channel \in [Party -> Seq(Command)]
  /\ \A p \in Party : \A i \in DOMAIN channel[p] :
       channel[p][i].type # "wait" => channel[p][i].key \in Key
  /\ opening \in [Party -> [Party -> SUBSET Message]]
  /\ streams \in [Party -> [Party -> Seq(Message)]]
  /\ \A p, q \in Party : Len(streams[p][q]) <= Credit
  /\ read \in [Party -> SUBSET Key]

\* Of the commands of one sender, one at most is beyond the channel's capacity.
RoomInv ==
  \A p \in Party : \A i, j \in DOMAIN channel[p] :
    i > Capacity /\ j > Capacity /\ channel[p][i].from = channel[p][j].from => i = j

\* The loop is through when the Queue waits, and then all data has been read.
ReadInv ==
  \A p \in Party :
    /\ \A k \in read[p] : k < next[Sender[k]]
    /\ phase[p] # "loop" => next[p] \notin Key /\ \A k \in Key : Sender[k] # p => k \in read[p]

\* Data is where it is once, and comes from the sender's loop.
DataInv ==
  \A p, q \in Party, k \in Key :
    /\ Data(k) \in opening[q][p] \/ InStream(q, p, Data(k)) =>
         Sender[k] = q /\ q # p /\ k < next[q] /\ k \notin read[p]
    /\ Data(k) \in opening[q][p] => phase[q] = "loop" /\ ~InStream(q, p, Data(k))

\* A check that waits for a stream is the one that the consistency task is telling, and a
\* check that is written is on its way to a receiver, once.
CheckInv ==
  \A p, q \in Party, k \in Key :
    LET c == [type |-> "check", key |-> k, from |-> q]
    IN  /\ Check(k) \in opening[q][p] => p \in notify[q][k]
        /\ InStream(q, p, Check(k)) \/ InChannel(p, c) => CP!OnTheWay(q, p, k) /\ Sender[k] # p
        /\ ~(InStream(q, p, Check(k)) /\ InChannel(p, c))

\* Nothing is twice on a stream, and no check twice in a channel.
OnceInv ==
  /\ \A p, q \in Party : \A i, j \in DOMAIN streams[q][p] :
       streams[q][p][i] = streams[q][p][j] => i = j
  /\ \A p \in Party : \A i, j \in DOMAIN channel[p] :
       channel[p][i].type = "check" /\ channel[p][i] = channel[p][j] => i = j

\* What p's loop has passed has been asked to be checked, and the command to wait comes after
\* all that the loop and the data have asked of the task.
ChannelInv ==
  \A p \in Party :
    /\ \A k \in Key : k < next[p] /\ Sender[k] # p =>
         k \in requested[p] \/ InChannel(p, [type |-> "request", key |-> k, from |-> p])
    /\ phase[p] # "wait" => ~Ordered(p)
    /\ phase[p] # "loop" =>
         \A i \in DOMAIN channel[p] : channel[p][i].type \in {"request", "data"} =>
           \E j \in DOMAIN channel[p] : i < j /\ channel[p][j].type = "wait"

\* p's Queue has been told that its checks are over, or will not ask.
Answered(p) == phase[p] # "loop" /\ ~Ordered(p) /\ ~openRequests[p]

\* A Queue is told so when no check that was asked for is open, and is gone only then.
QuietInv ==
  \A p \in Party :
    /\ Answered(p) => CP!IsConsistent(consistency[p])
    /\ phase[p] = "closed" => Answered(p)

NetworkInv ==
  /\ Types /\ RoomInv /\ ReadInv /\ DataInv /\ CheckInv /\ OnceInv /\ ChannelInv /\ QuietInv
  /\ CP!AgreementInv /\ CP!TellingInv

------------------------------------------------------------------------------
(* Broadcasts, commands and sequences *)

\* Broadcasts are numbered, and their senders are parties.
LEMMA KeysOK ==
  /\ Len(Sender) \in Nat /\ Key = 1 .. Len(Sender) /\ Key \subseteq Nat
  /\ \A k \in Key : Sender[k] \in Party
BY BackpressureAssumption DEF Key

\* The receivers of a broadcast that p's task has to do with.
LEMMA OthersOK ==
  ASSUME NEW p \in Party, NEW k \in Key
  PROVE  /\ CP!Others(p, k) = Party \ {Sender[k], p}
         /\ CP!Others(p, k) \subseteq Party
BY DEF CP!Others, Others

\* What the proofs about consistency tasks assume.
LEMMA Assumptions == CP!ConsistencyAssumption
<1>1. CP!Value = CC!Value
  BY DEF CP!Value, CC!Value
<1>2. [k \in Key |-> Others(Sender[k])] \in [Key -> SUBSET Party]
  BY DEF Others
<1> QED BY <1>1, <1>2, NothingAssumption DEF CP!ConsistencyAssumption

\* Every command of a consistency task is that of the module with the proofs.
LEMMA SameCommands ==
  /\ CC!Init <=> CP!Init
  /\ \A p, k : CC!Request(p, k) <=> CP!Request(p, k)
  /\ \A p, k, h : CC!ReceivedData(p, k, h) <=> CP!ReceivedData(p, k, h)
  /\ \A p, c : CC!ReceivedCheck(p, c) <=> CP!ReceivedCheck(p, c)
  /\ \A p, k, q : CC!NotifyParty(p, k, q) <=> CP!NotifyParty(p, k, q)
  /\ \A p : CC!Wait(p) <=> CP!Wait(p)
  /\ \A k : CC!Payload(k) = CP!Payload(k)
  /\ CC!TypeOK <=> CP!TypeOK
<1> USE DEF CC!Idle, CP!Idle, CC!IsConsistent, CP!IsConsistent, CC!Settle, CP!Settle,
            CC!Check, CP!Check, CC!CheckPasses, CP!CheckPasses, CC!Arrived, CP!Arrived,
            CC!IsDone, CP!IsDone, CC!Keys, CP!Keys, CC!Insert, CP!Insert, CC!Proceed, CP!Proceed,
            CC!Others, CP!Others
<1>1. CC!Init <=> CP!Init
  BY Zenon DEF CC!Init, CP!Init
<1>2. ASSUME NEW p, NEW k PROVE CC!Request(p, k) <=> CP!Request(p, k)
  BY Zenon DEF CC!Request, CP!Request, CC!NewRequest, CP!NewRequest, CC!Register, CP!Register,
               CC!RegisterReady, CP!RegisterReady
<1>3. ASSUME NEW p, NEW k, NEW h PROVE CC!ReceivedData(p, k, h) <=> CP!ReceivedData(p, k, h)
  BY Zenon DEF CC!ReceivedData, CP!ReceivedData, CC!NewReceivedData, CP!NewReceivedData,
               CC!ReceiveData, CP!ReceiveData
<1>4. ASSUME NEW p, NEW c PROVE CC!ReceivedCheck(p, c) <=> CP!ReceivedCheck(p, c)
  BY Zenon DEF CC!ReceivedCheck, CP!ReceivedCheck, CC!NewReceived, CP!NewReceived,
               CC!Receive, CP!Receive
<1>5. ASSUME NEW p, NEW k, NEW q PROVE CC!NotifyParty(p, k, q) <=> CP!NotifyParty(p, k, q)
  BY Zenon DEF CC!NotifyParty, CP!NotifyParty, CC!NotifyDone, CP!NotifyDone
<1>6. ASSUME NEW p PROVE CC!Wait(p) <=> CP!Wait(p)
  BY Zenon DEF CC!Wait, CP!Wait
<1>7. ASSUME NEW k PROVE CC!Payload(k) = CP!Payload(k)
  BY Zenon DEF CC!Payload, CP!Payload
<1>8. CC!TypeOK <=> CP!TypeOK
  BY Zenon DEF CC!TypeOK, CP!TypeOK, CC!Value, CP!Value, CC!Checks, CP!Checks
<1> QED BY <1>1, <1>2, <1>3, <1>4, <1>5, <1>6, <1>7, <1>8

\* Whatever a consistency task does, what is known of the tasks stays true.
LEMMA ChecksKept ==
  ASSUME CP!AgreementInv, CP!TellingInv, [CP!Next]_(CP!vars)
  PROVE  CP!AgreementInv' /\ CP!TellingInv'
<1>1. CP!AgreementInv'
  BY Assumptions, CP!NextKeeps
<1> QED BY <1>1, Assumptions, CP!NextTells

\* As long as none of its variables changes, it stays true, too.
LEMMA ChecksUnchanged ==
  ASSUME CP!AgreementInv, CP!TellingInv, UNCHANGED consistencyVars
  PROVE  CP!AgreementInv' /\ CP!TellingInv'
BY ChecksKept DEF consistencyVars, CP!vars

\* What is put at the end of a channel or a stream is what it has more.
LEMMA AppendOK ==
  ASSUME NEW S, NEW s \in Seq(S), NEW e \in S
  PROVE  LET t == Append(s, e)
         IN  /\ t \in Seq(S) /\ Len(s) \in Nat /\ Len(t) = Len(s) + 1
             /\ DOMAIN s = 1 .. Len(s) /\ DOMAIN t = 1 .. Len(s) + 1
             /\ \A i \in DOMAIN s : i \in DOMAIN t /\ t[i] = s[i]
             /\ t[Len(s) + 1] = e
             /\ \A x : (\E i \in DOMAIN t : t[i] = x) <=> (\E i \in DOMAIN s : s[i] = x) \/ x = e
<1> DEFINE t == Append(s, e)
<1>1. /\ t \in Seq(S) /\ Len(s) \in Nat /\ Len(t) = Len(s) + 1
      /\ DOMAIN s = 1 .. Len(s) /\ DOMAIN t = 1 .. Len(s) + 1
      /\ \A i \in DOMAIN s : i \in DOMAIN t /\ t[i] = s[i]
      /\ t[Len(s) + 1] = e
  OBVIOUS
<1> HIDE DEF t
<1>2. \A x : (\E i \in DOMAIN t : t[i] = x) <=> (\E i \in DOMAIN s : s[i] = x) \/ x = e
  BY <1>1
<1> QED BY <1>1, <1>2 DEF t

\* What is taken from the front of a channel or a stream is what it has less.
LEMMA TailOK ==
  ASSUME NEW S, NEW s \in Seq(S), s # <<>>
  PROVE  LET t == Tail(s)
         IN  /\ t \in Seq(S) /\ Len(t) = Len(s) - 1 /\ Len(s) \in Nat
             /\ DOMAIN s = 1 .. Len(s) /\ DOMAIN t = 1 .. Len(s) - 1
             /\ \A i \in DOMAIN t : i + 1 \in DOMAIN s /\ t[i] = s[i + 1]
             /\ 1 \in DOMAIN s /\ Head(s) = s[1] /\ Head(s) \in S
             /\ \A x : (\E i \in DOMAIN t : t[i] = x) => \E i \in DOMAIN s : s[i] = x
             /\ \A x : (\E i \in DOMAIN s : s[i] = x) => x = Head(s) \/ \E i \in DOMAIN t : t[i] = x
<1> DEFINE t == Tail(s)
<1>1. /\ t \in Seq(S) /\ Len(t) = Len(s) - 1 /\ Len(s) \in Nat
      /\ DOMAIN s = 1 .. Len(s) /\ DOMAIN t = 1 .. Len(s) - 1
      /\ \A i \in DOMAIN t : i + 1 \in DOMAIN s /\ t[i] = s[i + 1]
      /\ 1 \in DOMAIN s /\ Head(s) = s[1] /\ Head(s) \in S
  OBVIOUS
<1> HIDE DEF t
<1>2. \A x : (\E i \in DOMAIN t : t[i] = x) => \E i \in DOMAIN s : s[i] = x
  BY <1>1
<1>3. ASSUME NEW i \in DOMAIN s, i # 1 PROVE i - 1 \in DOMAIN t /\ t[i - 1] = s[i]
  BY <1>1, <1>3
<1>4. \A x : (\E i \in DOMAIN s : s[i] = x) => x = Head(s) \/ \E i \in DOMAIN t : t[i] = x
  BY <1>1, <1>3
<1> QED BY <1>1, <1>2, <1>4 DEF t

------------------------------------------------------------------------------
(* Steps of the consistency tasks *)

\* A task has only its own entries and requests.
Local(p) ==
  \A q \in Party : q # p =>
    /\ consistency'[q] = consistency[q] /\ openRequests'[q] = openRequests[q]
    /\ notify'[q] = notify[q] /\ requested'[q] = requested[q]

\* A task answers its Queue when no check is open.
Answering(p) ==
  /\ openRequests'[p] => openRequests[p]
  /\ openRequests[p] /\ ~openRequests'[p] => CP!IsConsistent(consistency'[p])

\* The end of a handler.
LEMMA SettleEffect ==
  ASSUME CP!TypeOK, NEW p \in Party, NEW k \in Key, NEW v, CP!Settle(p, k, v)
  PROVE  /\ \A q \in Party : q # p =>
              consistency'[q] = consistency[q] /\ openRequests'[q] = openRequests[q]
         /\ Answering(p)
<1> DEFINE entries == [consistency[p] EXCEPT ![k] = IF CP!IsDone(CP!Check(v)) THEN Vacant ELSE CP!Check(v)]
           answer  == openRequests[p] /\ CP!IsConsistent(entries)
<1>1. /\ consistency' = [consistency EXCEPT ![p] = entries]
      /\ openRequests' = [openRequests EXCEPT ![p] = @ /\ ~answer]
  BY DEF CP!Settle
<1> HIDE DEF entries
<1>2. /\ consistency'[p] = entries /\ (openRequests'[p] <=> openRequests[p] /\ ~answer)
      /\ \A q \in Party : q # p =>
           consistency'[q] = consistency[q] /\ openRequests'[q] = openRequests[q]
  BY <1>1 DEF CP!TypeOK
<1> QED BY <1>2 DEF Answering

\* A handler that inserts an entry.
LEMMA InsertEffect ==
  ASSUME CP!TypeOK, NEW p \in Party, NEW k \in Key, NEW v, CP!Insert(p, k, v)
  PROVE  /\ \A q \in Party : q # p =>
              consistency'[q] = consistency[q] /\ openRequests'[q] = openRequests[q]
         /\ Answering(p) /\ notify' = notify
BY DEF CP!TypeOK, CP!Insert, Answering

\* A handler that may tell the other receivers.
LEMMA ProceedEffect ==
  ASSUME CP!TypeOK, NEW p \in Party, NEW k \in Key, NEW v, NEW rs, CP!Proceed(p, k, v, rs)
  PROVE  /\ \A q \in Party : q # p =>
              /\ consistency'[q] = consistency[q] /\ openRequests'[q] = openRequests[q]
              /\ notify'[q] = notify[q]
         /\ Answering(p)
<1>1. CASE rs # {}
  BY <1>1 DEF CP!TypeOK, CP!Proceed, Answering
<1>2. CASE rs = {}
  BY <1>2, SettleEffect DEF CP!Proceed
<1> QED BY <1>1, <1>2

\* The Queue asks for a check.
LEMMA RequestEffect ==
  ASSUME CP!TypeOK, NEW p \in Party, NEW k \in Key, CP!Request(p, k)
  PROVE  /\ CP!Idle(p) /\ Local(p) /\ checks' = checks
         /\ requested'[p] = requested[p] \cup {k}
<1>1. /\ \A q \in Party : q # p =>
           /\ consistency'[q] = consistency[q] /\ openRequests'[q] = openRequests[q]
           /\ notify'[q] = notify[q]
  BY InsertEffect, ProceedEffect DEF CP!Request
<1> QED BY <1>1 DEF CP!TypeOK, CP!Request, Local

\* The server hands on data.
LEMMA ReceivedDataEffect ==
  ASSUME CP!TypeOK, NEW p \in Party, NEW k \in Key, NEW h, CP!ReceivedData(p, k, h)
  PROVE  CP!Idle(p) /\ Local(p) /\ checks' = checks /\ requested' = requested
<1>1. /\ \A q \in Party : q # p =>
           /\ consistency'[q] = consistency[q] /\ openRequests'[q] = openRequests[q]
           /\ notify'[q] = notify[q]
  BY InsertEffect, ProceedEffect DEF CP!ReceivedData
<1> QED BY <1>1 DEF CP!TypeOK, CP!ReceivedData, Local

\* The server hands on a check.
LEMMA ReceivedCheckEffect ==
  ASSUME CP!TypeOK, NEW p \in Party, NEW c \in checks, CP!ReceivedCheck(p, c)
  PROVE  /\ CP!Idle(p) /\ Local(p) /\ Answering(p) /\ notify' = notify
         /\ c.to = p /\ checks' = checks \ {c} /\ requested' = requested
<1>1. c.key \in Key
  BY DEF CP!TypeOK, CP!Checks
<1>2. /\ \A q \in Party : q # p =>
           consistency'[q] = consistency[q] /\ openRequests'[q] = openRequests[q]
      /\ Answering(p) /\ notify' = notify
  BY <1>1, InsertEffect, SettleEffect DEF CP!ReceivedCheck
<1> QED BY <1>2 DEF CP!ReceivedCheck, Local

\* The client has written a check.
LEMMA NotifyPartyEffect ==
  ASSUME CP!TypeOK, NEW p \in Party, NEW k \in Key, NEW q \in Party, CP!NotifyParty(p, k, q)
  PROVE  /\ Local(p) /\ Answering(p) /\ requested' = requested
         /\ q \in notify[p][k] /\ notify'[p][k] = notify[p][k] \ {q}
         /\ \A l \in Key : l # k => notify'[p][l] = notify[p][l]
         /\ \E c : /\ checks' = checks \cup {c}
                   /\ c.from = p /\ c.to = q /\ c.key = k
<1>1. /\ notify' = [notify EXCEPT ![p][k] = notify[p][k] \ {q}]
      /\ requested' = requested
      /\ \/ UNCHANGED <<consistency, openRequests>>
         \/ CP!Settle(p, k, consistency[p][k])
  BY DEF CP!NotifyParty, CP!NotifyDone
<1>2. /\ \A r \in Party : r # p =>
           consistency'[r] = consistency[r] /\ openRequests'[r] = openRequests[r]
      /\ Answering(p)
  <2>1. CASE UNCHANGED <<consistency, openRequests>>
    BY <2>1 DEF Answering
  <2>2. CASE CP!Settle(p, k, consistency[p][k])
    BY <2>2, SettleEffect
  <2> QED BY <1>1, <2>1, <2>2
<1>3. /\ notify'[p][k] = notify[p][k] \ {q}
      /\ \A l \in Key : l # k => notify'[p][l] = notify[p][l]
      /\ \A r \in Party : r # p => notify'[r] = notify[r]
  BY <1>1 DEF CP!TypeOK
<1>4. \E c : /\ checks' = checks \cup {c}
             /\ c.from = p /\ c.to = q /\ c.key = k
  <2> DEFINE c == [from |-> p, to |-> q, key |-> k, hash |-> consistency[p][k].received]
  <2> WITNESS c
  <2> QED BY DEF CP!NotifyParty
<1>5. q \in notify[p][k]
  BY DEF CP!NotifyParty
<1> QED BY <1>1, <1>2, <1>3, <1>4, <1>5 DEF Local

\* The Queue waits, or is answered at once.
LEMMA WaitEffect ==
  ASSUME CP!TypeOK, NEW p \in Party, CP!Wait(p)
  PROVE  /\ CP!Idle(p) /\ Local(p) /\ checks' = checks /\ requested' = requested
         /\ notify' = notify /\ consistency' = consistency
         /\ openRequests'[p] \/ CP!IsConsistent(consistency[p])
BY DEF CP!TypeOK, CP!Wait, Local

\* A Queue that was told that its checks are over, or is gone, has nothing to come.
LEMMA QuietOK ==
  ASSUME NetworkInv, NEW p \in Party, Answered(p)
  PROVE  /\ \A k \in Key : Sender[k] # p => k \in requested[p] /\ consistency[p][k] = Vacant
         /\ \A q \in Party, k \in Key : Sender[k] # p => ~CP!OnTheWay(q, p, k)
         /\ \A k \in Key : notify[p][k] = {}
<1>1. ASSUME NEW k \in Key, Sender[k] # p PROVE k \in requested[p]
  <2>1. next[p] = Len(Sender) + 1
    BY KeysOK DEF NetworkInv, Types, ReadInv, Answered
  <2>2. k < next[p]
    BY <2>1, KeysOK
  <2>3. ~InChannel(p, [type |-> "request", key |-> k, from |-> p])
    BY DEF NetworkInv, ChannelInv, Answered, Ordered, InChannel
  <2> QED BY <1>1, <2>2, <2>3 DEF NetworkInv, ChannelInv
<1>2. ASSUME NEW k \in Key, Sender[k] # p PROVE consistency[p][k] = Vacant
  <2>1. CP!EntryExact(p, k) /\ CP!IsConsistent(consistency[p])
    BY DEF NetworkInv, CP!TellingInv, CP!EntriesExact, QuietInv
  <2> QED BY <1>1, <1>2, <2>1 DEF CP!EntryExact, CP!IsConsistent
<1>3. ASSUME NEW q \in Party, NEW k \in Key, Sender[k] # p PROVE ~CP!OnTheWay(q, p, k)
  <2> SUFFICES ASSUME NEW c \in checks, c.from = q, c.to = p, c.key = k PROVE FALSE
    BY DEF CP!OnTheWay
  <2>1. CP!Expects(p, q, k)
    BY DEF NetworkInv, CP!TellingInv, CP!ChecksExpected
  <2> QED BY <1>1, <1>2, <1>3, <2>1 DEF CP!Expects
<1>4. ASSUME NEW k \in Key PROVE notify[p][k] = {}
  <2> SUFFICES ASSUME notify[p][k] # {} PROVE FALSE
    OBVIOUS
  <2>1. consistency[p][k] # Vacant /\ p \in [l \in Key |-> Others(Sender[l])][k]
    BY DEF NetworkInv, CP!AgreementInv, CP!NotifyReady
  <2>2. Sender[k] # p
    BY <2>1 DEF Others
  <2> QED BY <1>2, <2>1, <2>2
<1> QED BY <1>1, <1>2, <1>3, <1>4

------------------------------------------------------------------------------
(* Steps of the Queue *)

\* A check is no data.
LEMMA MessagesDiffer ==
  \A k, l : Data(k) # Check(l) /\ (Data(k) = Data(l) => k = l) /\ (Check(k) = Check(l) => k = l)
BY DEF Data, Check

\* Counters of loops are numbers.
LEMMA NextOK ==
  ASSUME Types, NEW p \in Party
  PROVE  next[p] \in Nat /\ next[p] \in 1 .. Len(Sender) + 1
BY KeysOK DEF Types

\* While a task does nothing and no command comes, its Queue stays answered or not.
LEMMA QuietKept ==
  ASSUME QuietInv, UNCHANGED <<phase, channel, consistency, openRequests>>
  PROVE  QuietInv'
<1>1. \A p \in Party : Answered(p)' <=> Answered(p)
  BY DEF Answered, Ordered
<1>2. \A p \in Party : CP!IsConsistent(consistency[p])' <=> CP!IsConsistent(consistency[p])
  BY DEF CP!IsConsistent
<1> QED BY <1>1, <1>2 DEF QuietInv

\* A broadcast of p gives its client data that is not there yet.
LEMMA BroadcastStep ==
  ASSUME NetworkInv, NEW p \in Party, Broadcast(p)
  PROVE  NetworkInv'
<1> DEFINE b == next[p]
<1>1. /\ phase' = phase /\ channel' = channel /\ streams' = streams /\ read' = read
      /\ UNCHANGED consistencyVars
      /\ phase[p] = "loop" /\ b \in Key /\ Sender[b] = p
  BY DEF Broadcast
<1>2. /\ next'[p] = b + 1
      /\ \A q \in Party : q # p => next'[q] = next[q]
      /\ next' \in [Party -> 1 .. Len(Sender) + 1]
  BY <1>1, KeysOK DEF Broadcast, NetworkInv, Types
<1>3. /\ opening' \in [Party -> [Party -> SUBSET Message]]
      /\ \A q \in Party :
           opening'[p][q] = IF q = p THEN opening[p][q] ELSE opening[p][q] \cup {Data(b)}
      /\ \A r \in Party : r # p => opening'[r] = opening[r]
  <2> DEFINE row == [q \in Party |-> IF q = p THEN opening[p][q] ELSE opening[p][q] \cup {Data(b)}]
  <2>1. opening \in [Party -> [Party -> SUBSET Message]] /\ opening' = [opening EXCEPT ![p] = row]
    BY DEF Broadcast, NetworkInv, Types, Data
  <2>2. Data(b) \in Message
    BY <1>1 DEF Data, Message
  <2>3. row \in [Party -> SUBSET Message]
    BY <2>1, <2>2
  <2>4. \A q \in Party : row[q] = IF q = p THEN opening[p][q] ELSE opening[p][q] \cup {Data(b)}
    OBVIOUS
  <2> HIDE DEF row
  <2> QED BY <2>1, <2>3, <2>4
<1>4. Types'
  BY <1>1, <1>2, <1>3 DEF NetworkInv, Types
<1>5. RoomInv' /\ OnceInv'
  BY <1>1 DEF NetworkInv, RoomInv, OnceInv
<1>6. \A q \in Party : next[q] \in Nat /\ next'[q] \in Nat /\ next[q] <= next'[q]
  BY <1>2, NextOK DEF NetworkInv
<1> HIDE DEF b
<1>7. ReadInv'
  <2>1. ASSUME NEW q \in Party, NEW k \in read[q] PROVE k < next'[Sender[k]]
    <3>1. k \in Key /\ k < next[Sender[k]]
      BY <2>1 DEF NetworkInv, Types, ReadInv
    <3>2. k \in Nat /\ Sender[k] \in Party
      BY <3>1, KeysOK
    <3> QED BY <1>6, <3>1, <3>2
  <2> QED BY <1>1, <1>2, <2>1 DEF NetworkInv, ReadInv
<1>8. ASSUME NEW q \in Party, NEW r \in Party, NEW m \in opening'[q][r]
      PROVE  m \in opening[q][r] \/ (q = p /\ r # p /\ m = Data(b))
  <2>1. CASE q = p
    BY <1>3, <1>8, <2>1
  <2>2. CASE q # p
    BY <1>3, <1>8, <2>2
  <2> QED BY <2>1, <2>2
<1>9. DataInv'
  <2> SUFFICES ASSUME NEW r \in Party, NEW q \in Party, NEW k \in Key
               PROVE  /\ Data(k) \in opening'[q][r] \/ InStream(q, r, Data(k)) =>
                           Sender[k] = q /\ q # r /\ k < next'[q] /\ k \notin read[r]
                      /\ Data(k) \in opening'[q][r] => phase[q] = "loop" /\ ~InStream(q, r, Data(k))
    BY <1>1 DEF DataInv, InStream
  <2>1. /\ Data(k) \in opening[q][r] \/ InStream(q, r, Data(k)) =>
             Sender[k] = q /\ q # r /\ k < next[q] /\ k \notin read[r]
        /\ Data(k) \in opening[q][r] => phase[q] = "loop" /\ ~InStream(q, r, Data(k))
    BY DEF NetworkInv, DataInv
  <2>2. k \in Nat /\ next[q] \in Nat /\ (k < next[q] => k < next'[q])
    BY <1>6, KeysOK
  <2>3. CASE Data(k) \in opening'[q][r] /\ Data(k) \notin opening[q][r]
    <3>1. q = p /\ r # p /\ k = b
      BY <1>8, <2>3, MessagesDiffer
    <3>2. k < next'[q] /\ ~(k < next[q])
      BY <1>2, <2>2, <3>1 DEF b
    <3>3. k \notin read[r]
      BY <1>1, <3>1, <3>2 DEF NetworkInv, ReadInv
    <3> QED BY <1>1, <2>1, <3>1, <3>2, <3>3
  <2> QED BY <2>1, <2>2, <2>3
<1>10. CheckInv'
  <2>1. ASSUME NEW q \in Party, NEW r \in Party, NEW k \in Key, Check(k) \in opening'[q][r]
        PROVE  Check(k) \in opening[q][r]
    BY <1>8, <2>1, MessagesDiffer
  <2> QED BY <1>1, <2>1 DEF NetworkInv, CheckInv, InStream, InChannel, consistencyVars, CP!OnTheWay
<1>11. ChannelInv'
  <2>1. \A q \in Party, k \in Key : k < next'[q] /\ Sender[k] # q => k < next[q]
    BY <1>1, <1>2, <1>6, KeysOK DEF b
  <2> QED BY <1>1, <2>1 DEF NetworkInv, ChannelInv, InChannel, Ordered, consistencyVars
<1>12. QuietInv'
  BY <1>1, QuietKept DEF NetworkInv, consistencyVars
<1>13. CP!AgreementInv' /\ CP!TellingInv'
  BY <1>1, ChecksUnchanged DEF NetworkInv
<1> QED BY <1>4, <1>5, <1>7, <1>9, <1>10, <1>11, <1>12, <1>13 DEF NetworkInv

\* A channel with a command more at its end, from somebody whose last one had room.
LEMMA PutOK ==
  ASSUME Types, RoomInv, OnceInv, NEW p \in Party, NEW c \in Command, Put(p, c), Admitted(p, c.from),
         c.type # "wait" => c.key \in Key,
         c.type = "check" => ~InChannel(p, c)
  PROVE  /\ channel' \in [Party -> Seq(Command)]
         /\ \A q \in Party : \A i \in DOMAIN channel'[q] :
              channel'[q][i].type # "wait" => channel'[q][i].key \in Key
         /\ RoomInv'
         /\ \A q \in Party : \A i, j \in DOMAIN channel'[q] :
              channel'[q][i].type = "check" /\ channel'[q][i] = channel'[q][j] => i = j
         /\ \A q \in Party : q # p => channel'[q] = channel[q]
         /\ \A d : InChannel(p, d)' <=> InChannel(p, d) \/ d = c
         /\ Ordered(p)' <=> Ordered(p) \/ c.type = "wait"
         /\ \A i \in DOMAIN channel[p] : i \in DOMAIN channel'[p] /\ channel'[p][i] = channel[p][i]
         /\ \E l \in DOMAIN channel'[p] :
              /\ channel'[p][l] = c
              /\ \A i \in DOMAIN channel'[p] : i # l => i \in DOMAIN channel[p] /\ i < l
<1> DEFINE s == channel[p]
           t == Append(s, c)
           l == Len(s) + 1
<1>1. s \in Seq(Command)
  BY DEF Types
<1>2. /\ t \in Seq(Command) /\ Len(s) \in Nat /\ Len(t) = Len(s) + 1
      /\ DOMAIN s = 1 .. Len(s) /\ DOMAIN t = 1 .. Len(s) + 1
      /\ \A i \in DOMAIN s : i \in DOMAIN t /\ t[i] = s[i]
      /\ t[Len(s) + 1] = c
      /\ \A x : (\E i \in DOMAIN t : t[i] = x) <=> (\E i \in DOMAIN s : s[i] = x) \/ x = c
  BY <1>1, AppendOK
<1>3. channel'[p] = t /\ \A q \in Party : q # p => channel'[q] = channel[q]
  BY DEF Put, Types
<1>4. channel' \in [Party -> Seq(Command)]
  BY <1>2 DEF Put, Types
<1>5. s = channel[p]
  OBVIOUS
<1> HIDE DEF s, t
<1>6. /\ l \in DOMAIN t /\ t[l] = c
      /\ \A i \in DOMAIN t : i # l => i \in DOMAIN s /\ i < l /\ t[i] = s[i]
  BY <1>2
<1>7. \A q \in Party : \A i \in DOMAIN channel'[q] :
        channel'[q][i].type # "wait" => channel'[q][i].key \in Key
  <2> SUFFICES ASSUME NEW i \in DOMAIN t, t[i].type # "wait" PROVE t[i].key \in Key
    BY <1>3 DEF Types
  <2> QED BY <1>5, <1>6 DEF Types
<1>8. RoomInv'
  <2> SUFFICES ASSUME NEW i \in DOMAIN t, NEW j \in DOMAIN t, i > Capacity, j > Capacity,
                      t[i].from = t[j].from
               PROVE  i = j
    BY <1>3 DEF RoomInv
  <2>1. \A m \in DOMAIN s : s[m].from = c.from => ~(m > Capacity)
    BY SMTT(30), <1>2, <1>5, BackpressureAssumption DEF Admitted
  <2>2. CASE i = l \/ j = l
    BY <1>6, <2>1, <2>2
  <2>3. CASE i # l /\ j # l
    BY <1>5, <1>6, <2>3 DEF RoomInv
  <2> QED BY <2>2, <2>3
<1>9. \A q \in Party : \A i, j \in DOMAIN channel'[q] :
        channel'[q][i].type = "check" /\ channel'[q][i] = channel'[q][j] => i = j
  <2> SUFFICES ASSUME NEW i \in DOMAIN t, NEW j \in DOMAIN t, t[i].type = "check", t[i] = t[j]
               PROVE  i = j
    BY <1>3 DEF OnceInv
  <2>1. CASE i = l \/ j = l
    BY <1>5, <1>6, <2>1 DEF InChannel
  <2>2. CASE i # l /\ j # l
    BY <1>5, <1>6, <2>2 DEF OnceInv
  <2> QED BY <2>1, <2>2
<1>10. \A d : InChannel(p, d)' <=> InChannel(p, d) \/ d = c
  BY <1>2, <1>3, <1>5 DEF InChannel
<1>11. Ordered(p)' <=> Ordered(p) \/ c.type = "wait"
  BY <1>2, <1>3, <1>5, <1>6 DEF Ordered
<1>12. \A i \in DOMAIN channel[p] : i \in DOMAIN channel'[p] /\ channel'[p][i] = channel[p][i]
  BY <1>2, <1>3, <1>5
<1>13. \E m \in DOMAIN channel'[p] :
         /\ channel'[p][m] = c
         /\ \A i \in DOMAIN channel'[p] : i # m => i \in DOMAIN channel[p] /\ i < m
  BY <1>3, <1>5, <1>6
<1> QED BY <1>3, <1>4, <1>7, <1>8, <1>9, <1>10, <1>11, <1>12, <1>13

\* What happens elsewhere does not matter to a Queue that is answered.
LEMMA QuietLocal ==
  ASSUME QuietInv, NEW q \in Party, phase'[q] = phase[q], channel'[q] = channel[q],
         consistency'[q] = consistency[q], openRequests'[q] = openRequests[q]
  PROVE  /\ Answered(q)' => CP!IsConsistent(consistency[q])'
         /\ phase'[q] = "closed" => Answered(q)'
<1>1. Answered(q)' <=> Answered(q)
  BY DEF Answered, Ordered
<1>2. CP!IsConsistent(consistency[q])' <=> CP!IsConsistent(consistency[q])
  BY DEF CP!IsConsistent
<1> QED BY <1>1, <1>2 DEF QuietInv

\* The same of what the channel has of the loop.
LEMMA ChannelLocal ==
  ASSUME ChannelInv, NEW q \in Party, phase'[q] = phase[q], channel'[q] = channel[q],
         next'[q] = next[q], requested[q] \subseteq requested'[q]
  PROVE  /\ \A k \in Key : k < next'[q] /\ Sender[k] # q =>
              \/ k \in requested'[q]
              \/ InChannel(q, [type |-> "request", key |-> k, from |-> q])'
         /\ phase'[q] # "wait" => ~Ordered(q)'
         /\ phase'[q] # "loop" =>
              \A i \in DOMAIN channel'[q] : channel'[q][i].type \in {"request", "data"} =>
                \E j \in DOMAIN channel'[q] : i < j /\ channel'[q][j].type = "wait"
BY DEF ChannelInv, InChannel, Ordered

\* Commands that are no checks do not matter to the checks.
LEMMA CheckKept ==
  ASSUME CheckInv, NEW p \in Party, NEW c, c.type # "check",
         UNCHANGED <<opening, streams, notify, checks>>,
         \A q \in Party : q # p => channel'[q] = channel[q],
         \A d : InChannel(p, d)' <=> InChannel(p, d) \/ d = c
  PROVE  CheckInv'
<1>1. \A r \in Party : \A d : d # c => (InChannel(r, d)' <=> InChannel(r, d))
  <2>1. ASSUME NEW r \in Party, r # p, NEW d PROVE InChannel(r, d)' <=> InChannel(r, d)
    BY <2>1 DEF InChannel
  <2> QED BY <2>1
<1>2. \A k, q : [type |-> "check", key |-> k, from |-> q] # c
  OBVIOUS
<1>4. \A q, r \in Party, k \in Key :
        /\ CP!OnTheWay(q, r, k)' <=> CP!OnTheWay(q, r, k)
        /\ InStream(q, r, Check(k))' <=> InStream(q, r, Check(k))
  BY DEF CP!OnTheWay, InStream
<1>5. \A p1, q \in Party, k \in Key :
        LET d == [type |-> "check", key |-> k, from |-> q]
        IN  /\ Check(k) \in opening'[q][p1] => p1 \in notify'[q][k]
            /\ InStream(q, p1, Check(k))' \/ InChannel(p1, d)' =>
                 CP!OnTheWay(q, p1, k)' /\ Sender[k] # p1
            /\ ~(InStream(q, p1, Check(k))' /\ InChannel(p1, d)')
  <2> SUFFICES ASSUME NEW p1 \in Party, NEW q \in Party, NEW k \in Key,
                      NEW d, d = [type |-> "check", key |-> k, from |-> q]
               PROVE  /\ Check(k) \in opening'[q][p1] => p1 \in notify'[q][k]
                      /\ InStream(q, p1, Check(k))' \/ InChannel(p1, d)' =>
                           CP!OnTheWay(q, p1, k)' /\ Sender[k] # p1
                      /\ ~(InStream(q, p1, Check(k))' /\ InChannel(p1, d)')
    OBVIOUS
  <2>1. /\ Check(k) \in opening[q][p1] => p1 \in notify[q][k]
        /\ InStream(q, p1, Check(k)) \/ InChannel(p1, d) => CP!OnTheWay(q, p1, k) /\ Sender[k] # p1
        /\ ~(InStream(q, p1, Check(k)) /\ InChannel(p1, d))
    BY DEF CheckInv
  <2>2. InChannel(p1, d)' <=> InChannel(p1, d)
    BY <1>1, <1>2
  <2> QED BY <1>4, <2>1, <2>2
<1> QED BY <1>5 DEF CheckInv, Check

\* A broadcast of another party: a request is put in the channel.
LEMMA ReceiveStep ==
  ASSUME NetworkInv, NEW p \in Party, Receive(p)
  PROVE  NetworkInv'
<1> DEFINE b == next[p]
           c == [type |-> "request", key |-> b, from |-> p]
<1>1. /\ phase' = phase /\ opening' = opening /\ streams' = streams /\ read' = read
      /\ UNCHANGED consistencyVars
      /\ phase[p] = "loop" /\ b \in Key /\ Sender[b] # p
      /\ Put(p, c) /\ Admitted(p, p)
  BY DEF Receive, netVars
<1>2. /\ next'[p] = b + 1
      /\ \A q \in Party : q # p => next'[q] = next[q]
      /\ next' \in [Party -> 1 .. Len(Sender) + 1]
  BY <1>1, KeysOK DEF Receive, NetworkInv, Types
<1>3. /\ c \in Command /\ c.type = "request" /\ c.key = b /\ c.from = p
  BY <1>1 DEF Command
<1> HIDE DEF c
<1>4. /\ channel' \in [Party -> Seq(Command)]
      /\ \A q \in Party : \A i \in DOMAIN channel'[q] :
           channel'[q][i].type # "wait" => channel'[q][i].key \in Key
      /\ RoomInv'
      /\ \A q \in Party : \A i, j \in DOMAIN channel'[q] :
           channel'[q][i].type = "check" /\ channel'[q][i] = channel'[q][j] => i = j
      /\ \A q \in Party : q # p => channel'[q] = channel[q]
      /\ \A d : InChannel(p, d)' <=> InChannel(p, d) \/ d = c
      /\ Ordered(p)' <=> Ordered(p) \/ c.type = "wait"
  BY <1>1, <1>3, PutOK DEF NetworkInv
<1>5. Types' /\ OnceInv'
  BY <1>1, <1>2, <1>4 DEF NetworkInv, Types, OnceInv
<1>6. \A q \in Party : next[q] \in Nat /\ next'[q] \in Nat /\ next[q] <= next'[q]
  BY <1>2, NextOK DEF NetworkInv
<1>7. ReadInv'
  <2>1. ASSUME NEW q \in Party, NEW k \in read[q] PROVE k < next'[Sender[k]]
    <3>1. k \in Key /\ k < next[Sender[k]]
      BY <2>1 DEF NetworkInv, Types, ReadInv
    <3>2. k \in Nat /\ Sender[k] \in Party
      BY <3>1, KeysOK
    <3> QED BY <1>6, <3>1, <3>2
  <2> QED BY <1>1, <1>2, <2>1 DEF NetworkInv, ReadInv
<1>8. DataInv'
  <2>1. \A q \in Party, k \in Key : k < next[q] => k < next'[q]
    BY <1>6, KeysOK
  <2> QED BY <1>1, <2>1 DEF NetworkInv, DataInv, InStream
<1>9. CheckInv'
  BY <1>1, <1>3, <1>4, CheckKept DEF NetworkInv, consistencyVars
<1>10. ChannelInv'
  <2> SUFFICES ASSUME NEW q \in Party
               PROVE  /\ \A k \in Key : k < next'[q] /\ Sender[k] # q =>
                           \/ k \in requested'[q]
                           \/ InChannel(q, [type |-> "request", key |-> k, from |-> q])'
                      /\ phase'[q] # "wait" => ~Ordered(q)'
                      /\ phase'[q] # "loop" =>
                           \A i \in DOMAIN channel'[q] : channel'[q][i].type \in {"request", "data"} =>
                             \E j \in DOMAIN channel'[q] : i < j /\ channel'[q][j].type = "wait"
    BY DEF ChannelInv
  <2>1. requested' = requested
    BY <1>1 DEF consistencyVars
  <2>2. CASE q # p
    BY <1>1, <1>2, <1>4, <2>1, <2>2, ChannelLocal DEF NetworkInv
  <2>3. CASE q = p
    <3>1. ASSUME NEW k \in Key, k < next'[p], Sender[k] # p
          PROVE  k \in requested[p] \/ InChannel(p, [type |-> "request", key |-> k, from |-> p])'
      <4>1. CASE k = b
        BY <1>4, <4>1 DEF c
      <4>2. CASE k # b
        <5>1. k < next[p]
          BY <1>2, <1>6, <3>1, <4>2, KeysOK
        <5> QED BY <1>4, <3>1, <5>1 DEF NetworkInv, ChannelInv
      <4> QED BY <4>1, <4>2
    <3>2. ~Ordered(p)'
      BY <1>1, <1>3, <1>4 DEF NetworkInv, ChannelInv
    <3> QED BY <1>1, <2>1, <2>3, <3>1, <3>2
  <2> QED BY <2>2, <2>3
<1>11. QuietInv'
  <2>1. \A q \in Party : q # p =>
          /\ Answered(q)' => CP!IsConsistent(consistency[q])'
          /\ phase'[q] = "closed" => Answered(q)'
    BY <1>1, <1>4, QuietLocal DEF NetworkInv, consistencyVars
  <2>2. ~Answered(p)' /\ phase'[p] # "closed"
    BY <1>1 DEF Answered
  <2> QED BY <2>1, <2>2 DEF QuietInv
<1>12. CP!AgreementInv' /\ CP!TellingInv'
  BY <1>1, ChecksUnchanged DEF NetworkInv
<1> QED BY <1>4, <1>5, <1>7, <1>8, <1>9, <1>10, <1>11, <1>12 DEF NetworkInv

\* The Queue is through with its loop and waits.
LEMMA DropStep ==
  ASSUME NetworkInv, NEW p \in Party, Drop(p)
  PROVE  NetworkInv'
<1> DEFINE c == [type |-> "wait", key |-> 0, from |-> p]
<1>1. /\ next' = next /\ opening' = opening /\ streams' = streams /\ read' = read
      /\ UNCHANGED consistencyVars
      /\ phase[p] = "loop" /\ next[p] \notin Key
      /\ \A q \in Party : \A m \in opening[p][q] : m.type # "data"
      /\ \A k \in Key : Sender[k] # p => k \in read[p]
      /\ Put(p, c) /\ Admitted(p, p)
  BY DEF Drop, netVars
<1>2. /\ phase' \in [Party -> {"loop", "wait", "closed"}]
      /\ phase'[p] = "wait" /\ \A q \in Party : q # p => phase'[q] = phase[q]
  BY DEF Drop, NetworkInv, Types
<1>3. c \in Command /\ c.type = "wait" /\ c.from = p
  BY DEF Command
<1> HIDE DEF c
<1>4. /\ channel' \in [Party -> Seq(Command)]
      /\ \A q \in Party : \A i \in DOMAIN channel'[q] :
           channel'[q][i].type # "wait" => channel'[q][i].key \in Key
      /\ RoomInv'
      /\ \A q \in Party : \A i, j \in DOMAIN channel'[q] :
           channel'[q][i].type = "check" /\ channel'[q][i] = channel'[q][j] => i = j
      /\ \A q \in Party : q # p => channel'[q] = channel[q]
      /\ \A d : InChannel(p, d)' <=> InChannel(p, d) \/ d = c
      /\ Ordered(p)' <=> Ordered(p) \/ c.type = "wait"
      /\ \E l \in DOMAIN channel'[p] :
           /\ channel'[p][l] = c
           /\ \A i \in DOMAIN channel'[p] : i # l => i \in DOMAIN channel[p] /\ i < l
  BY <1>1, <1>3, PutOK DEF NetworkInv
<1>5. Types' /\ OnceInv'
  BY <1>1, <1>2, <1>4 DEF NetworkInv, Types, OnceInv
<1>6. ReadInv'
  BY <1>1, <1>2 DEF NetworkInv, ReadInv
<1>7. DataInv'
  <2>1. \A q \in Party, k \in Key : Data(k) \notin opening[p][q]
    BY <1>1 DEF Data
  <2> QED BY <1>1, <1>2, <2>1 DEF NetworkInv, DataInv, InStream
<1>8. CheckInv'
  BY <1>1, <1>3, <1>4, CheckKept DEF NetworkInv, consistencyVars
<1>9. ChannelInv'
  <2> SUFFICES ASSUME NEW q \in Party
               PROVE  /\ \A k \in Key : k < next'[q] /\ Sender[k] # q =>
                           \/ k \in requested'[q]
                           \/ InChannel(q, [type |-> "request", key |-> k, from |-> q])'
                      /\ phase'[q] # "wait" => ~Ordered(q)'
                      /\ phase'[q] # "loop" =>
                           \A i \in DOMAIN channel'[q] : channel'[q][i].type \in {"request", "data"} =>
                             \E j \in DOMAIN channel'[q] : i < j /\ channel'[q][j].type = "wait"
    BY DEF ChannelInv
  <2>1. requested' = requested
    BY <1>1 DEF consistencyVars
  <2>2. CASE q # p
    BY <1>1, <1>2, <1>4, <2>1, <2>2, ChannelLocal DEF NetworkInv
  <2>3. CASE q = p
    <3>1. \A k \in Key : k < next[p] /\ Sender[k] # p =>
            k \in requested[p] \/ InChannel(p, [type |-> "request", key |-> k, from |-> p])'
      BY <1>4 DEF NetworkInv, ChannelInv
    <3>2. \A i \in DOMAIN channel'[p] : channel'[p][i].type \in {"request", "data"} =>
            \E j \in DOMAIN channel'[p] : i < j /\ channel'[p][j].type = "wait"
      BY <1>3, <1>4
    <3> QED BY <1>1, <1>2, <2>1, <2>3, <3>1, <3>2
  <2> QED BY <2>2, <2>3
<1>10. QuietInv'
  <2>1. \A q \in Party : q # p =>
          /\ Answered(q)' => CP!IsConsistent(consistency[q])'
          /\ phase'[q] = "closed" => Answered(q)'
    BY <1>1, <1>2, <1>4, QuietLocal DEF NetworkInv, consistencyVars
  <2>2. ~Answered(p)' /\ phase'[p] # "closed"
    BY <1>2, <1>3, <1>4 DEF Answered
  <2> QED BY <2>1, <2>2 DEF QuietInv
<1>11. CP!AgreementInv' /\ CP!TellingInv'
  BY <1>1, ChecksUnchanged DEF NetworkInv
<1> QED BY <1>4, <1>5, <1>6, <1>7, <1>8, <1>9, <1>10, <1>11 DEF NetworkInv

\* The Queue is answered and gone.
LEMMA CloseStep ==
  ASSUME NetworkInv, NEW p \in Party, Close(p)
  PROVE  NetworkInv'
<1>1. /\ next' = next /\ channel' = channel /\ opening' = opening /\ streams' = streams
      /\ read' = read /\ UNCHANGED consistencyVars
      /\ phase[p] = "wait" /\ ~Ordered(p) /\ ~openRequests[p]
  BY DEF Close, netVars, Ordered
<1>2. /\ phase' \in [Party -> {"loop", "wait", "closed"}]
      /\ phase'[p] = "closed" /\ \A q \in Party : q # p => phase'[q] = phase[q]
  BY DEF Close, NetworkInv, Types
<1>3. Types' /\ OnceInv' /\ RoomInv' /\ ReadInv'
  BY <1>1, <1>2 DEF NetworkInv, Types, OnceInv, RoomInv, ReadInv
<1>4. DataInv'
  BY <1>1, <1>2 DEF NetworkInv, DataInv, InStream
<1>5. CheckInv'
  BY <1>1 DEF NetworkInv, CheckInv, InStream, InChannel, consistencyVars, CP!OnTheWay
<1>6. ChannelInv'
  BY <1>1, <1>2 DEF NetworkInv, ChannelInv, InChannel, Ordered, consistencyVars
<1>7. QuietInv'
  <2>1. \A q \in Party : q # p =>
          /\ Answered(q)' => CP!IsConsistent(consistency[q])'
          /\ phase'[q] = "closed" => Answered(q)'
    BY <1>1, <1>2, QuietLocal DEF NetworkInv, consistencyVars
  <2>2. Answered(p)
    BY <1>1 DEF Answered
  <2>3. Answered(p)'
    BY <1>1, <1>2 DEF Answered, Ordered, consistencyVars
  <2>4. CP!IsConsistent(consistency[p])'
    BY <1>1, <2>2 DEF NetworkInv, QuietInv, CP!IsConsistent, consistencyVars
  <2> QED BY <2>1, <2>3, <2>4 DEF QuietInv
<1>8. CP!AgreementInv' /\ CP!TellingInv'
  BY <1>1, ChecksUnchanged DEF NetworkInv
<1> QED BY <1>3, <1>4, <1>5, <1>6, <1>7, <1>8 DEF NetworkInv
------------------------------------------------------------------------------
(* Steps of the consistency task and of the client *)

\* The parties that a task has to tell are parties.
LEMMA NotifyParties ==
  ASSUME NetworkInv, NEW p \in Party, NEW k \in Key
  PROVE  notify[p][k] \subseteq Party /\ (notify[p][k] # {} => Sender[k] # p)
<1>1. notify[p][k] \subseteq Party
  BY DEF NetworkInv, CP!AgreementInv, CP!TypeOK
<1>2. notify[p][k] # {} => p \in [l \in Key |-> Others(Sender[l])][k]
  BY DEF NetworkInv, CP!AgreementInv, CP!NotifyReady
<1> QED BY <1>1, <1>2 DEF Others

\* The task gives its client a check for a receiver that it has to tell.
LEMMA AskStep ==
  ASSUME NetworkInv, NEW p \in Party, Ask(p)
  PROVE  NetworkInv'
<1>1. /\ phase' = phase /\ next' = next /\ channel' = channel /\ streams' = streams
      /\ read' = read /\ UNCHANGED consistencyVars
  BY DEF Ask, queueVars
<1>2. PICK k \in Key : \E q \in notify[p][k] :
        opening' = [opening EXCEPT ![p][q] = @ \cup {Check(k)}]
  BY DEF Ask, Check
<1>3. PICK q \in notify[p][k] : opening' = [opening EXCEPT ![p][q] = @ \cup {Check(k)}]
  BY <1>2
<1>4. q \in Party
  BY NotifyParties
<1>5. Check(k) \in Message
  BY DEF Check, Message
<1> DEFINE c == Check(k)
<1> HIDE DEF c
<1>6. opening' = [opening EXCEPT ![p][q] = @ \cup {c}] /\ c \in Message
  BY <1>3, <1>5 DEF c
<1>7. /\ opening' \in [Party -> [Party -> SUBSET Message]]
      /\ \A a, b \in Party : \A x :
           x \in opening'[a][b] <=> x \in opening[a][b] \/ (a = p /\ b = q /\ x = c)
  BY <1>4, <1>6 DEF NetworkInv, Types
<1>8. Types' /\ RoomInv' /\ ReadInv' /\ OnceInv'
  BY <1>1, <1>7 DEF NetworkInv, Types, RoomInv, ReadInv, OnceInv
<1>9. DataInv'
  <2>1. \A l : Data(l) # c
    BY MessagesDiffer DEF c
  <2>2. \A a, b \in Party, l \in Key : Data(l) \in opening'[a][b] <=> Data(l) \in opening[a][b]
    BY <1>7, <2>1
  <2> QED BY <1>1, <2>2 DEF NetworkInv, DataInv, InStream
<1>10. CheckInv'
  <2>1. \A l : Check(l) = c => l = k
    BY MessagesDiffer DEF c
  <2>2. \A a, b \in Party, l \in Key : Check(l) \in opening[a][b] => b \in notify[a][l]
    BY DEF NetworkInv, CheckInv
  <2>3. \A a, b \in Party, l \in Key : Check(l) \in opening'[a][b] => b \in notify[a][l]
    BY <1>7, <2>1, <2>2
  <2> QED BY <1>1, <2>3 DEF NetworkInv, CheckInv, InStream, InChannel, consistencyVars, CP!OnTheWay
<1>11. ChannelInv'
  BY <1>1 DEF NetworkInv, ChannelInv, InChannel, Ordered, consistencyVars
<1>12. QuietInv'
  BY <1>1, QuietKept DEF NetworkInv, consistencyVars
<1>13. CP!AgreementInv' /\ CP!TellingInv'
  BY <1>1, ChecksUnchanged DEF NetworkInv
<1> QED BY <1>8, <1>9, <1>10, <1>11, <1>12, <1>13 DEF NetworkInv

\* What is written is at the end of its stream, and does not wait for one any longer.
LEMMA WriteOK ==
  ASSUME Types, OnceInv, NEW p \in Party, NEW q \in Party, NEW m \in Message,
         Len(streams[p][q]) < Credit, ~InStream(p, q, m),
         opening' = [opening EXCEPT ![p][q] = @ \ {m}],
         streams' = [streams EXCEPT ![p][q] = Append(@, m)]
  PROVE  /\ opening' \in [Party -> [Party -> SUBSET Message]]
         /\ streams' \in [Party -> [Party -> Seq(Message)]]
         /\ \A a, b \in Party : Len(streams'[a][b]) <= Credit
         /\ OnceInv' \/ channel' # channel
         /\ \A a, b \in Party : \A x :
              /\ x \in opening'[a][b] <=> x \in opening[a][b] /\ ~(a = p /\ b = q /\ x = m)
              /\ InStream(a, b, x)' <=> InStream(a, b, x) \/ (a = p /\ b = q /\ x = m)
<1> DEFINE s == streams[p][q]
           t == Append(s, m)
<1>1. s \in Seq(Message)
  BY DEF Types
<1>2. /\ t \in Seq(Message) /\ Len(s) \in Nat /\ Len(t) = Len(s) + 1
      /\ DOMAIN s = 1 .. Len(s) /\ DOMAIN t = 1 .. Len(s) + 1
      /\ \A i \in DOMAIN s : i \in DOMAIN t /\ t[i] = s[i]
      /\ t[Len(s) + 1] = m
      /\ \A x : (\E i \in DOMAIN t : t[i] = x) <=> (\E i \in DOMAIN s : s[i] = x) \/ x = m
  BY <1>1, AppendOK
<1>3. streams'[p][q] = t /\ \A a, b \in Party : ~(a = p /\ b = q) => streams'[a][b] = streams[a][b]
  BY DEF Types
<1>4. streams' \in [Party -> [Party -> Seq(Message)]]
  BY <1>2 DEF Types
<1>5. /\ opening' \in [Party -> [Party -> SUBSET Message]]
      /\ \A a, b \in Party : \A x :
           x \in opening'[a][b] <=> x \in opening[a][b] /\ ~(a = p /\ b = q /\ x = m)
  BY DEF Types
<1>6. s = streams[p][q]
  OBVIOUS
<1> HIDE DEF s, t
<1>7. \A a, b \in Party : Len(streams'[a][b]) <= Credit
  BY <1>2, <1>3, <1>6, BackpressureAssumption DEF Types
<1>8. \A a, b \in Party : \A x :
        InStream(a, b, x)' <=> InStream(a, b, x) \/ (a = p /\ b = q /\ x = m)
  BY <1>2, <1>3, <1>6 DEF InStream
<1>9. \A i, j \in DOMAIN t : t[i] = t[j] => i = j
  <2> SUFFICES ASSUME NEW i \in DOMAIN t, NEW j \in DOMAIN t, t[i] = t[j] PROVE i = j
    OBVIOUS
  <2>1. \A l \in DOMAIN t : l = Len(s) + 1 \/ (l \in DOMAIN s /\ t[l] = s[l])
    BY <1>2
  <2>2. \A l \in DOMAIN s : s[l] # m
    BY <1>6 DEF InStream
  <2>3. \A l, n \in DOMAIN s : s[l] = s[n] => l = n
    BY <1>6 DEF OnceInv
  <2> QED BY <1>2, <2>1, <2>2, <2>3
<1>10. \A a, b \in Party : \A i, j \in DOMAIN streams'[a][b] :
         streams'[a][b][i] = streams'[a][b][j] => i = j
  BY <1>3, <1>9 DEF OnceInv
<1>11. channel' = channel => OnceInv'
  BY <1>10 DEF OnceInv
<1> QED BY <1>4, <1>5, <1>7, <1>8, <1>11

\* A Queue that waits for its answer gets it from the step that makes its task's checks be over.
LEMMA QuietAnswer ==
  ASSUME NEW p \in Party, ~Answered(p), phase[p] # "closed", phase'[p] = phase[p],
         Ordered(p)' <=> Ordered(p), Answering(p)
  PROVE  /\ Answered(p)' => CP!IsConsistent(consistency[p])'
         /\ phase'[p] = "closed" => Answered(p)'
<1>1. Answered(p)' => CP!IsConsistent(consistency'[p])
  BY DEF Answered, Answering
<1>2. CP!IsConsistent(consistency'[p]) => CP!IsConsistent(consistency[p])'
  BY DEF CP!IsConsistent
<1> QED BY <1>1, <1>2

\* A task of the client writes data that its loop has given it.
LEMMA WriteDataStep ==
  ASSUME NetworkInv, NEW p \in Party, NEW q \in Party, NEW m, Write(p, q, m), m.type # "check"
  PROVE  NetworkInv'
<1>1. /\ phase' = phase /\ next' = next /\ channel' = channel /\ read' = read
      /\ UNCHANGED consistencyVars
      /\ Len(streams[p][q]) < Credit /\ m \in opening[p][q]
      /\ opening' = [opening EXCEPT ![p][q] = @ \ {m}]
      /\ streams' = [streams EXCEPT ![p][q] = Append(@, m)]
  BY DEF Write, queueVars
<1>2. m \in Message
  BY <1>1 DEF NetworkInv, Types
<1>3. PICK k \in Key : m = Data(k)
  BY <1>2 DEF Message, Data
<1>4. ~InStream(p, q, m)
  BY <1>1, <1>3 DEF NetworkInv, DataInv
<1>5. /\ opening' \in [Party -> [Party -> SUBSET Message]]
      /\ streams' \in [Party -> [Party -> Seq(Message)]]
      /\ \A a, b \in Party : Len(streams'[a][b]) <= Credit
      /\ OnceInv'
      /\ \A a, b \in Party : \A x :
           /\ x \in opening'[a][b] <=> x \in opening[a][b] /\ ~(a = p /\ b = q /\ x = m)
           /\ InStream(a, b, x)' <=> InStream(a, b, x) \/ (a = p /\ b = q /\ x = m)
  BY <1>1, <1>2, <1>4, WriteOK DEF NetworkInv
<1>6. Types' /\ RoomInv' /\ ReadInv'
  BY <1>1, <1>5 DEF NetworkInv, Types, RoomInv, ReadInv
<1>7. DataInv'
  <2> SUFFICES ASSUME NEW b \in Party, NEW a \in Party, NEW l \in Key
               PROVE  /\ Data(l) \in opening'[a][b] \/ InStream(a, b, Data(l))' =>
                           Sender[l] = a /\ a # b /\ l < next[a] /\ l \notin read[b]
                      /\ Data(l) \in opening'[a][b] => phase[a] = "loop" /\ ~InStream(a, b, Data(l))'
    BY <1>1 DEF DataInv, Data
  <2>1. /\ Data(l) \in opening[a][b] \/ InStream(a, b, Data(l)) =>
             Sender[l] = a /\ a # b /\ l < next[a] /\ l \notin read[b]
        /\ Data(l) \in opening[a][b] => phase[a] = "loop" /\ ~InStream(a, b, Data(l))
    BY DEF NetworkInv, DataInv
  <2> QED BY <1>1, <1>5, <2>1
<1>8. CheckInv'
  <2>1. \A a, b \in Party, l \in Key :
          /\ Check(l) \in opening'[a][b] => Check(l) \in opening[a][b]
          /\ InStream(a, b, Check(l))' <=> InStream(a, b, Check(l))
    BY <1>3, <1>5, MessagesDiffer
  <2>2. \A d : \A b \in Party : InChannel(b, d)' <=> InChannel(b, d)
    BY <1>1 DEF InChannel
  <2>3. \A a, b \in Party, l \in Key : CP!OnTheWay(a, b, l)' <=> CP!OnTheWay(a, b, l)
    BY <1>1 DEF CP!OnTheWay, consistencyVars
  <2>4. notify' = notify
    BY <1>1 DEF consistencyVars
  <2> QED BY <2>1, <2>2, <2>3, <2>4 DEF NetworkInv, CheckInv
<1>9. ChannelInv'
  BY <1>1 DEF NetworkInv, ChannelInv, InChannel, Ordered, consistencyVars
<1>10. QuietInv'
  BY <1>1, QuietKept DEF NetworkInv, consistencyVars
<1>11. CP!AgreementInv' /\ CP!TellingInv'
  BY <1>1, ChecksUnchanged DEF NetworkInv
<1> QED BY <1>5, <1>6, <1>7, <1>8, <1>9, <1>10, <1>11 DEF NetworkInv

\* A task of the client writes a check and answers the consistency task, which goes on.
LEMMA WriteCheckStep ==
  ASSUME NetworkInv, NEW p \in Party, NEW q \in Party, NEW m, Write(p, q, m), m.type = "check"
  PROVE  NetworkInv'
<1>1. /\ phase' = phase /\ next' = next /\ channel' = channel /\ read' = read
      /\ phase[p] # "closed"
      /\ Len(streams[p][q]) < Credit /\ m \in opening[p][q]
      /\ opening' = [opening EXCEPT ![p][q] = @ \ {m}]
      /\ streams' = [streams EXCEPT ![p][q] = Append(@, m)]
      /\ CC!NotifyParty(p, m.key, q)
  BY DEF Write, queueVars, Running
<1>2. m \in Message
  BY <1>1 DEF NetworkInv, Types
<1>3. PICK k \in Key : m = Check(k)
  BY <1>2 DEF Message, Check
<1>4. m.key = k
  BY <1>3 DEF Check
<1> HIDE DEF Check, Data
<1>5. CP!NotifyParty(p, k, q)
  BY <1>1, <1>4, SameCommands
<1>6. CP!TypeOK
  BY DEF NetworkInv, CP!AgreementInv
<1>7. /\ Local(p) /\ Answering(p) /\ requested' = requested
      /\ q \in notify[p][k] /\ notify'[p][k] = notify[p][k] \ {q}
      /\ \A l \in Key : l # k => notify'[p][l] = notify[p][l]
      /\ \E c : /\ checks' = checks \cup {c}
                /\ c.from = p /\ c.to = q /\ c.key = k
  BY <1>5, <1>6, NotifyPartyEffect
<1>8. \A a, b \in Party, l \in Key :
        CP!OnTheWay(a, b, l)' <=> CP!OnTheWay(a, b, l) \/ (a = p /\ b = q /\ l = k)
  BY <1>7 DEF CP!OnTheWay
<1>9. Sender[k] # p /\ q \in Party \ {Sender[k], p}
  <2>1. q \in CP!Others(p, k) /\ notify[p][k] # {}
    BY <1>7 DEF NetworkInv, CP!AgreementInv, CP!NotifyReady
  <2> QED BY <2>1, OthersOK, NotifyParties
<1>10. ~CP!OnTheWay(p, q, k)
  <2>1. p \in [l \in Key |-> Others(Sender[l])][k] /\ q \in CP!Others(p, k)
    BY <1>9, OthersOK DEF Others
  <2>2. ~CP!Told(p, q, k)
    BY <1>7 DEF CP!Told
  <2> QED BY <2>1, <2>2 DEF NetworkInv, CP!TellingInv, CP!UntoldExpected
<1>11. /\ ~InStream(p, q, m)
       /\ ~InChannel(q, [type |-> "check", key |-> k, from |-> p])
  BY <1>3, <1>10 DEF NetworkInv, CheckInv
<1>12. /\ opening' \in [Party -> [Party -> SUBSET Message]]
       /\ streams' \in [Party -> [Party -> Seq(Message)]]
       /\ \A a, b \in Party : Len(streams'[a][b]) <= Credit
       /\ OnceInv'
       /\ \A a, b \in Party : \A x :
            /\ x \in opening'[a][b] <=> x \in opening[a][b] /\ ~(a = p /\ b = q /\ x = m)
            /\ InStream(a, b, x)' <=> InStream(a, b, x) \/ (a = p /\ b = q /\ x = m)
  BY <1>1, <1>2, <1>11, WriteOK DEF NetworkInv
<1>13. Types' /\ RoomInv' /\ ReadInv'
  BY <1>1, <1>12 DEF NetworkInv, Types, RoomInv, ReadInv
<1>14. DataInv'
  <2>1. \A l : Data(l) # m
    BY <1>3, MessagesDiffer
  <2>2. \A a, b \in Party, l \in Key :
          /\ Data(l) \in opening'[a][b] <=> Data(l) \in opening[a][b]
          /\ InStream(a, b, Data(l))' <=> InStream(a, b, Data(l))
    BY <1>12, <2>1
  <2> QED BY <1>1, <2>2 DEF NetworkInv, DataInv
<1>15. CheckInv'
  <2> SUFFICES ASSUME NEW b \in Party, NEW a \in Party, NEW l \in Key,
                      NEW d, d = [type |-> "check", key |-> l, from |-> a]
               PROVE  /\ Check(l) \in opening'[a][b] => b \in notify'[a][l]
                      /\ InStream(a, b, Check(l))' \/ InChannel(b, d)' =>
                           CP!OnTheWay(a, b, l)' /\ Sender[l] # b
                      /\ ~(InStream(a, b, Check(l))' /\ InChannel(b, d)')
    BY DEF CheckInv, Check
  <2>1. /\ Check(l) \in opening[a][b] => b \in notify[a][l]
        /\ InStream(a, b, Check(l)) \/ InChannel(b, d) => CP!OnTheWay(a, b, l) /\ Sender[l] # b
        /\ ~(InStream(a, b, Check(l)) /\ InChannel(b, d))
    BY DEF NetworkInv, CheckInv
  <2>2. InChannel(b, d)' <=> InChannel(b, d)
    BY <1>1 DEF InChannel
  <2>3. /\ Check(l) \in opening'[a][b] <=>
             Check(l) \in opening[a][b] /\ ~(a = p /\ b = q /\ Check(l) = m)
        /\ InStream(a, b, Check(l))' <=>
             InStream(a, b, Check(l)) \/ (a = p /\ b = q /\ Check(l) = m)
    BY <1>12
  <2>4. Check(l) = m <=> l = k
    BY <1>3, MessagesDiffer
  <2>5. a # p => notify'[a] = notify[a]
    BY <1>7 DEF Local
  <2>6. ~(a = p /\ b = q /\ l = k /\ InChannel(b, d))
    BY <1>11
  <2> QED BY <1>7, <1>8, <1>9, <2>1, <2>2, <2>3, <2>4, <2>5, <2>6
<1>16. ChannelInv'
  <2>1. \A a \in Party : requested[a] \subseteq requested'[a]
    BY <1>7
  <2> QED BY <1>1, <2>1, ChannelLocal DEF NetworkInv, ChannelInv
<1>17. QuietInv'
  <2>1. \A a \in Party : a # p =>
          /\ Answered(a)' => CP!IsConsistent(consistency[a])'
          /\ phase'[a] = "closed" => Answered(a)'
    BY <1>1, <1>7, QuietLocal DEF NetworkInv, Local
  <2>2. ~Answered(p)
    BY <1>7, QuietOK
  <2>3. /\ Answered(p)' => CP!IsConsistent(consistency[p])'
        /\ phase'[p] = "closed" => Answered(p)'
    BY <1>1, <1>7, <2>2, QuietAnswer DEF Ordered
  <2> QED BY <2>1, <2>3 DEF QuietInv
<1>18. CP!AgreementInv' /\ CP!TellingInv'
  BY <1>5, ChecksKept DEF NetworkInv, CP!Next
<1> QED BY <1>12, <1>13, <1>14, <1>15, <1>16, <1>17, <1>18 DEF NetworkInv

------------------------------------------------------------------------------
(* Steps of the server and of the consistency task's channel *)

\* p's server takes the front of its stream from q.
Taken(p, q) == streams' = [streams EXCEPT ![q][p] = Tail(@)]

\* What is read is at the front of its stream, and not on it any longer.
LEMMA StreamOK ==
  ASSUME Types, OnceInv, NEW p \in Party, NEW q \in Party, streams[q][p] # <<>>,
         NEW m \in Message, m = Head(streams[q][p]), Taken(p, q)
  PROVE  /\ streams' \in [Party -> [Party -> Seq(Message)]]
         /\ \A a, b \in Party : Len(streams'[a][b]) <= Credit
         /\ \A a, b \in Party : \A i, j \in DOMAIN streams'[a][b] :
              streams'[a][b][i] = streams'[a][b][j] => i = j
         /\ InStream(q, p, m)
         /\ \A a, b \in Party : \A x :
              InStream(a, b, x)' <=> InStream(a, b, x) /\ ~(a = q /\ b = p /\ x = m)
<1> DEFINE s == streams[q][p]
           t == Tail(s)
<1>1. s \in Seq(Message) /\ s # <<>>
  BY DEF Types
<1>2. /\ t \in Seq(Message) /\ Len(t) = Len(s) - 1 /\ Len(s) \in Nat
      /\ DOMAIN s = 1 .. Len(s) /\ DOMAIN t = 1 .. Len(s) - 1
      /\ \A i \in DOMAIN t : i + 1 \in DOMAIN s /\ t[i] = s[i + 1]
      /\ 1 \in DOMAIN s /\ Head(s) = s[1] /\ Head(s) \in Message
      /\ \A x : (\E i \in DOMAIN t : t[i] = x) => \E i \in DOMAIN s : s[i] = x
      /\ \A x : (\E i \in DOMAIN s : s[i] = x) => x = Head(s) \/ \E i \in DOMAIN t : t[i] = x
  BY <1>1, TailOK
<1>3. streams'[q][p] = t /\ \A a, b \in Party : ~(a = q /\ b = p) => streams'[a][b] = streams[a][b]
  BY DEF Types, Taken
<1>4. streams' \in [Party -> [Party -> Seq(Message)]]
  BY <1>2 DEF Types, Taken
<1>5. s = streams[q][p] /\ m = Head(s)
  OBVIOUS
<1> HIDE DEF s, t
<1>6. \A a, b \in Party : Len(streams'[a][b]) <= Credit
  <2>1. Len(s) <= Credit
    BY <1>5 DEF Types
  <2>2. Len(t) <= Credit
    BY <1>2, <2>1, BackpressureAssumption
  <2> QED BY <1>3, <2>2 DEF Types
<1>7. \A i, j \in DOMAIN s : s[i] = s[j] => i = j
  BY <1>5 DEF OnceInv
<1>8. \A i \in DOMAIN t : t[i] # m
  <2> SUFFICES ASSUME NEW i \in DOMAIN t, t[i] = m PROVE FALSE
    OBVIOUS
  <2>1. i + 1 \in DOMAIN s /\ 1 \in DOMAIN s /\ s[i + 1] = s[1]
    BY <1>2, <1>5
  <2>2. i + 1 = 1
    BY <1>7, <2>1
  <2> QED BY <1>2, <2>2
<1>9. \A i, j \in DOMAIN t : t[i] = t[j] => i = j
  <2> SUFFICES ASSUME NEW i \in DOMAIN t, NEW j \in DOMAIN t, t[i] = t[j] PROVE i = j
    OBVIOUS
  <2>1. i + 1 = j + 1
    BY <1>2, <1>7
  <2> QED BY <1>2, <2>1
<1>10. \A a, b \in Party : \A i, j \in DOMAIN streams'[a][b] :
         streams'[a][b][i] = streams'[a][b][j] => i = j
  BY <1>3, <1>9 DEF OnceInv
<1>11. \A x : (\E i \in DOMAIN t : t[i] = x) <=> (\E i \in DOMAIN s : s[i] = x) /\ x # m
  BY <1>2, <1>5, <1>8
<1>12. \A a, b \in Party : \A x :
         InStream(a, b, x)' <=> InStream(a, b, x) /\ ~(a = q /\ b = p /\ x = m)
  <2>1. ASSUME NEW x PROVE InStream(q, p, x)' <=> InStream(q, p, x) /\ x # m
    BY <1>3, <1>5, <1>11 DEF InStream
  <2>2. ASSUME NEW a \in Party, NEW b \in Party, NEW x, ~(a = q /\ b = p)
        PROVE  InStream(a, b, x)' <=> InStream(a, b, x)
    BY <1>3, <2>2 DEF InStream
  <2> QED BY <2>1, <2>2
<1>13. m \in Message /\ InStream(q, p, m)
  BY <1>2, <1>5 DEF InStream
<1> QED BY <1>4, <1>6, <1>10, <1>12, <1>13

\* The server reads a stream and begins to hand on what it has read.
LEMMA ReadStep ==
  ASSUME NetworkInv, NEW p \in Party, NEW q \in Party, Read(p, q)
  PROVE  NetworkInv'
<1>1. PICK m : m = Head(streams[q][p])
  OBVIOUS
<1> DEFINE c == [type |-> m.type, key |-> m.key, from |-> q]
<1>2. /\ phase' = phase /\ next' = next /\ opening' = opening /\ UNCHANGED consistencyVars
      /\ phase[p] # "closed" /\ Admitted(p, q) /\ streams[q][p] # <<>>
      /\ Put(p, c)
      /\ read' = [read EXCEPT ![p] = IF m.type = "data" THEN @ \cup {m.key} ELSE @]
      /\ streams' = [streams EXCEPT ![q][p] = Tail(@)]
  BY <1>1 DEF Read, queueVars, Running
<1>3. /\ streams' \in [Party -> [Party -> Seq(Message)]]
      /\ \A a, b \in Party : Len(streams'[a][b]) <= Credit
      /\ \A a, b \in Party : \A i, j \in DOMAIN streams'[a][b] :
           streams'[a][b][i] = streams'[a][b][j] => i = j
      /\ m \in Message /\ InStream(q, p, m)
      /\ \A a, b \in Party : \A x :
           InStream(a, b, x)' <=> InStream(a, b, x) /\ ~(a = q /\ b = p /\ x = m)
  <2>1. Types /\ OnceInv
    BY DEF NetworkInv
  <2>2. streams[q][p] # <<>> /\ Taken(p, q)
    BY <1>2 DEF Taken
  <2>3. m \in Message
    BY <1>1, <2>1, <2>2, TailOK DEF Types
  <2>4. streams' \in [Party -> [Party -> Seq(Message)]]
    BY <1>1, <2>1, <2>2, <2>3, StreamOK
  <2>5. \A a, b \in Party : Len(streams'[a][b]) <= Credit
    BY <1>1, <2>1, <2>2, <2>3, StreamOK
  <2>6. \A a, b \in Party : \A i, j \in DOMAIN streams'[a][b] :
           streams'[a][b][i] = streams'[a][b][j] => i = j
    BY <1>1, <2>1, <2>2, <2>3, StreamOK
  <2>7. InStream(q, p, m)
    BY <1>1, <2>1, <2>2, <2>3, StreamOK
  <2>8. \A a, b \in Party : \A x :
           InStream(a, b, x)' <=> InStream(a, b, x) /\ ~(a = q /\ b = p /\ x = m)
    BY SMTT(30), <1>1, <2>1, <2>2, <2>3, StreamOK
  <2> QED BY <1>1, <2>1, <2>2, <2>3, <2>4, <2>5, <2>6, <2>7, <2>8
<1>4. PICK k \in Key : /\ m.key = k
                       /\ \/ m = Data(k) /\ m.type = "data"
                          \/ m = Check(k) /\ m.type = "check"
  BY <1>3 DEF Message, Data, Check
<1> HIDE DEF Data, Check
<1>5. /\ c \in Command /\ c.type = m.type /\ c.key = k /\ c.from = q
      /\ m.type = "check" => c = [type |-> "check", key |-> k, from |-> q]
  BY <1>4 DEF Command
<1> HIDE DEF c
<1>6. m.type = "check" =>
        /\ CP!OnTheWay(q, p, k) /\ Sender[k] # p
        /\ ~InChannel(p, [type |-> "check", key |-> k, from |-> q])
  BY <1>3, <1>4 DEF NetworkInv, CheckInv
<1>7. m.type = "data" =>
        /\ Sender[k] = q /\ q # p /\ k < next[q] /\ k \notin read[p]
        /\ Data(k) \notin opening[q][p] /\ phase[p] = "loop"
  BY <1>3, <1>4 DEF NetworkInv, DataInv, ReadInv, Types
<1>8. /\ channel' \in [Party -> Seq(Command)]
      /\ \A a \in Party : \A i \in DOMAIN channel'[a] :
           channel'[a][i].type # "wait" => channel'[a][i].key \in Key
      /\ RoomInv'
      /\ \A a \in Party : \A i, j \in DOMAIN channel'[a] :
           channel'[a][i].type = "check" /\ channel'[a][i] = channel'[a][j] => i = j
      /\ \A a \in Party : a # p => channel'[a] = channel[a]
      /\ \A d : InChannel(p, d)' <=> InChannel(p, d) \/ d = c
      /\ Ordered(p)' <=> Ordered(p) \/ c.type = "wait"
      /\ \A i \in DOMAIN channel[p] : i \in DOMAIN channel'[p] /\ channel'[p][i] = channel[p][i]
      /\ \E l \in DOMAIN channel'[p] :
           /\ channel'[p][l] = c
           /\ \A i \in DOMAIN channel'[p] : i # l => i \in DOMAIN channel[p] /\ i < l
  BY <1>2, <1>4, <1>5, <1>6, PutOK DEF NetworkInv
<1>9. /\ read' \in [Party -> SUBSET Key]
      /\ \A a \in Party : \A l : l \in read'[a] <=>
           l \in read[a] \/ (a = p /\ l = k /\ m.type = "data")
  BY <1>2, <1>4 DEF NetworkInv, Types
<1>10. Types' /\ OnceInv'
  BY <1>2, <1>3, <1>8, <1>9 DEF NetworkInv, Types, OnceInv
<1>11. ReadInv'
  BY <1>2, <1>7, <1>9 DEF NetworkInv, ReadInv
<1>12. DataInv'
  <2> SUFFICES ASSUME NEW b \in Party, NEW a \in Party, NEW l \in Key
               PROVE  /\ Data(l) \in opening[a][b] \/ InStream(a, b, Data(l))' =>
                           Sender[l] = a /\ a # b /\ l < next[a] /\ l \notin read'[b]
                      /\ Data(l) \in opening[a][b] => phase[a] = "loop" /\ ~InStream(a, b, Data(l))'
    BY <1>2 DEF DataInv
  <2>1. /\ Data(l) \in opening[a][b] \/ InStream(a, b, Data(l)) =>
             Sender[l] = a /\ a # b /\ l < next[a] /\ l \notin read[b]
        /\ Data(l) \in opening[a][b] => phase[a] = "loop" /\ ~InStream(a, b, Data(l))
    BY DEF NetworkInv, DataInv
  <2>2. InStream(a, b, Data(l))' <=> InStream(a, b, Data(l)) /\ ~(a = q /\ b = p /\ Data(l) = m)
    BY <1>3
  <2>3. l \in read'[b] => l \in read[b] \/ (b = p /\ l = k /\ m = Data(k) /\ m.type = "data")
    BY <1>4, <1>9, MessagesDiffer
  <2> QED BY <1>7, <2>1, <2>2, <2>3
<1>13. CheckInv'
  <2> SUFFICES ASSUME NEW b \in Party, NEW a \in Party, NEW l \in Key,
                      NEW d, d = [type |-> "check", key |-> l, from |-> a]
               PROVE  /\ Check(l) \in opening[a][b] => b \in notify[a][l]
                      /\ InStream(a, b, Check(l))' \/ InChannel(b, d)' =>
                           CP!OnTheWay(a, b, l) /\ Sender[l] # b
                      /\ ~(InStream(a, b, Check(l))' /\ InChannel(b, d)')
    BY <1>2 DEF CheckInv, consistencyVars, CP!OnTheWay, Check
  <2>1. /\ Check(l) \in opening[a][b] => b \in notify[a][l]
        /\ InStream(a, b, Check(l)) \/ InChannel(b, d) => CP!OnTheWay(a, b, l) /\ Sender[l] # b
        /\ ~(InStream(a, b, Check(l)) /\ InChannel(b, d))
    BY DEF NetworkInv, CheckInv
  <2>2. InStream(a, b, Check(l))' <=> InStream(a, b, Check(l)) /\ ~(a = q /\ b = p /\ Check(l) = m)
    BY <1>3
  <2>3. b # p => (InChannel(b, d)' <=> InChannel(b, d))
    BY <1>8 DEF InChannel
  <2>4. b = p => (InChannel(b, d)' <=> InChannel(b, d) \/ d = c)
    BY <1>8
  <2>5. d = c => m.type = "check" /\ a = q /\ l = k /\ m = Check(l)
    BY <1>4, <1>5
  <2>6. d = c => CP!OnTheWay(q, p, k) /\ Sender[k] # p
    BY <1>6, <2>5
  <2> QED BY <2>1, <2>2, <2>3, <2>4, <2>5, <2>6
<1>14. ChannelInv'
  <2> SUFFICES ASSUME NEW a \in Party
               PROVE  /\ \A l \in Key : l < next'[a] /\ Sender[l] # a =>
                           \/ l \in requested'[a]
                           \/ InChannel(a, [type |-> "request", key |-> l, from |-> a])'
                      /\ phase'[a] # "wait" => ~Ordered(a)'
                      /\ phase'[a] # "loop" =>
                           \A i \in DOMAIN channel'[a] : channel'[a][i].type \in {"request", "data"} =>
                             \E j \in DOMAIN channel'[a] : i < j /\ channel'[a][j].type = "wait"
    BY DEF ChannelInv
  <2>1. requested' = requested
    BY <1>2 DEF consistencyVars
  <2>2. CASE a # p
    BY <1>2, <1>8, <2>1, <2>2, ChannelLocal DEF NetworkInv
  <2>3. CASE a = p
    <3>1. \A l \in Key : l < next[p] /\ Sender[l] # p =>
            l \in requested[p] \/ InChannel(p, [type |-> "request", key |-> l, from |-> p])'
      BY <1>8 DEF NetworkInv, ChannelInv
    <3>2. phase[p] # "wait" => ~Ordered(p)'
      BY <1>4, <1>5, <1>8 DEF NetworkInv, ChannelInv
    <3>3. ASSUME phase[p] # "loop", NEW i \in DOMAIN channel'[p],
                 channel'[p][i].type \in {"request", "data"}
          PROVE  \E j \in DOMAIN channel'[p] : i < j /\ channel'[p][j].type = "wait"
      <4>1. c.type = "check"
        BY <1>4, <1>5, <1>7, <3>3
      <4>2. i \in DOMAIN channel[p] /\ channel'[p][i] = channel[p][i]
        BY <1>8, <3>3, <4>1
      <4>3. \E j \in DOMAIN channel[p] : i < j /\ channel[p][j].type = "wait"
        BY <3>3, <4>2 DEF NetworkInv, ChannelInv
      <4> QED BY <1>8, <4>3
    <3> QED BY <1>2, <2>1, <2>3, <3>1, <3>2, <3>3
  <2> QED BY <2>2, <2>3
<1>15. QuietInv'
  <2>1. \A a \in Party : a # p =>
          /\ Answered(a)' => CP!IsConsistent(consistency[a])'
          /\ phase'[a] = "closed" => Answered(a)'
    BY <1>2, <1>8, QuietLocal DEF NetworkInv, consistencyVars
  <2>2. Answered(p)' <=> Answered(p)
    BY <1>2, <1>4, <1>5, <1>8 DEF Answered, consistencyVars
  <2>3. CP!IsConsistent(consistency[p])' <=> CP!IsConsistent(consistency[p])
    BY <1>2 DEF CP!IsConsistent, consistencyVars
  <2> QED BY <1>2, <2>1, <2>2, <2>3 DEF NetworkInv, QuietInv
<1>16. CP!AgreementInv' /\ CP!TellingInv'
  BY <1>2, ChecksUnchanged DEF NetworkInv
<1> QED BY <1>8, <1>10, <1>11, <1>12, <1>13, <1>14, <1>15, <1>16 DEF NetworkInv

\* What is known of channels when p's task has taken c from its own.
Shorter(p, c) ==
  /\ channel' \in [Party -> Seq(Command)]
  /\ \A a \in Party : \A i \in DOMAIN channel'[a] :
       channel'[a][i].type # "wait" => channel'[a][i].key \in Key
  /\ RoomInv'
  /\ \A a \in Party : \A i, j \in DOMAIN channel'[a] :
       channel'[a][i].type = "check" /\ channel'[a][i] = channel'[a][j] => i = j
  /\ \A a \in Party : a # p => channel'[a] = channel[a]
  /\ \A d : InChannel(p, d)' => InChannel(p, d)
  /\ \A d : InChannel(p, d) => d = c \/ InChannel(p, d)'
  /\ InChannel(p, c) /\ (c.type = "check" => ~InChannel(p, c)')
  /\ c.type # "wait" => c.key \in Key /\ (Ordered(p)' <=> Ordered(p))
  /\ Ordered(p)' => Ordered(p)
  /\ phase[p] # "loop" => \A i \in DOMAIN channel'[p] :
       channel'[p][i].type \in {"request", "data"} =>
         \E j \in DOMAIN channel'[p] : i < j /\ channel'[p][j].type = "wait"
  /\ phase[p] # "loop" /\ c.type \in {"request", "data"} => Ordered(p)'

LEMMA ShorterOK ==
  ASSUME NetworkInv, NEW p \in Party, channel[p] # <<>>, NEW c \in Command, c = Head(channel[p]),
         channel' = [channel EXCEPT ![p] = Tail(@)]
  PROVE  Shorter(p, c)
<1> DEFINE s == channel[p]
           t == Tail(s)
<1>1. s \in Seq(Command) /\ s # <<>>
  BY DEF NetworkInv, Types
<1>2. /\ t \in Seq(Command) /\ Len(t) = Len(s) - 1 /\ Len(s) \in Nat
      /\ DOMAIN s = 1 .. Len(s) /\ DOMAIN t = 1 .. Len(s) - 1
      /\ \A i \in DOMAIN t : i + 1 \in DOMAIN s /\ t[i] = s[i + 1]
      /\ 1 \in DOMAIN s /\ Head(s) = s[1]
      /\ \A x : (\E i \in DOMAIN t : t[i] = x) => \E i \in DOMAIN s : s[i] = x
      /\ \A x : (\E i \in DOMAIN s : s[i] = x) => x = Head(s) \/ \E i \in DOMAIN t : t[i] = x
  BY <1>1, TailOK
<1>3. channel'[p] = t /\ \A a \in Party : a # p => channel'[a] = channel[a]
  BY DEF NetworkInv, Types
<1>4. channel' \in [Party -> Seq(Command)]
  BY <1>2 DEF NetworkInv, Types
<1>5. s = channel[p] /\ c = s[1]
  BY <1>2
<1> HIDE DEF s, t
<1>6. \A i \in DOMAIN s : i # 1 => i - 1 \in DOMAIN t /\ t[i - 1] = s[i]
  <2> SUFFICES ASSUME NEW i \in DOMAIN s, i # 1 PROVE i - 1 \in DOMAIN t /\ t[i - 1] = s[i]
    OBVIOUS
  <2>1. i - 1 \in DOMAIN t /\ (i - 1) + 1 = i
    BY <1>2
  <2> QED BY <1>2, <2>1
<1>7. \A a \in Party : \A i \in DOMAIN channel'[a] :
        channel'[a][i].type # "wait" => channel'[a][i].key \in Key
  <2>1. \A i \in DOMAIN t : t[i].type # "wait" => t[i].key \in Key
    BY SMTT(30), <1>2, <1>5 DEF NetworkInv, Types
  <2> QED BY <1>3, <2>1 DEF NetworkInv, Types
<1>8. RoomInv'
  <2>1. RoomInv
    BY DEF NetworkInv
  <2>2. ASSUME NEW i \in DOMAIN t, NEW j \in DOMAIN t, i > Capacity, j > Capacity,
               t[i].from = t[j].from
        PROVE  i = j
    <3>1. /\ i + 1 \in DOMAIN s /\ j + 1 \in DOMAIN s /\ s[i + 1].from = s[j + 1].from
          /\ i + 1 > Capacity /\ j + 1 > Capacity /\ i \in Nat /\ j \in Nat
      BY <1>2, <2>2, BackpressureAssumption
    <3>2. i + 1 = j + 1
      BY <1>5, <2>1, <3>1 DEF RoomInv
    <3> QED BY <3>1, <3>2
  <2> SUFFICES ASSUME NEW a \in Party, NEW i \in DOMAIN channel'[a], NEW j \in DOMAIN channel'[a],
                      i > Capacity, j > Capacity, channel'[a][i].from = channel'[a][j].from
               PROVE  i = j
    BY DEF RoomInv
  <2>3. CASE a = p
    BY <1>3, <2>2, <2>3
  <2>4. CASE a # p
    BY <1>3, <2>1, <2>4 DEF RoomInv
  <2> QED BY <2>3, <2>4
<1>9. \A i, j \in DOMAIN s : s[i].type = "check" /\ s[i] = s[j] => i = j
  BY <1>5 DEF NetworkInv, OnceInv
<1>10. \A a \in Party : \A i, j \in DOMAIN channel'[a] :
         channel'[a][i].type = "check" /\ channel'[a][i] = channel'[a][j] => i = j
  <2> SUFFICES ASSUME NEW i \in DOMAIN t, NEW j \in DOMAIN t, t[i].type = "check", t[i] = t[j]
               PROVE  i = j
    BY <1>3 DEF NetworkInv, OnceInv
  <2>1. /\ i + 1 \in DOMAIN s /\ j + 1 \in DOMAIN s /\ s[i + 1] = s[j + 1]
        /\ s[i + 1].type = "check"
    BY <1>2
  <2>2. i + 1 = j + 1
    BY <1>9, <2>1
  <2> QED BY <1>2, <2>2
<1>11. \A d : InChannel(p, d)' => InChannel(p, d)
  BY <1>2, <1>3, <1>5 DEF InChannel
<1>12. \A d : InChannel(p, d) => d = c \/ InChannel(p, d)'
  BY <1>2, <1>3, <1>5 DEF InChannel
<1>13. InChannel(p, c)
  BY <1>2, <1>5 DEF InChannel
<1>14. ASSUME c.type = "check" PROVE ~InChannel(p, c)'
  <2> SUFFICES ASSUME NEW i \in DOMAIN t, t[i] = c PROVE FALSE
    BY <1>3 DEF InChannel
  <2>1. i + 1 \in DOMAIN s /\ 1 \in DOMAIN s /\ s[i + 1] = s[1] /\ s[1].type = "check"
    BY <1>2, <1>5, <1>14
  <2>2. i + 1 = 1
    BY <1>9, <2>1
  <2> QED BY <1>2, <2>2
<1>15. c.type # "wait" => c.key \in Key
  BY <1>2, <1>5 DEF NetworkInv, Types
<1>16. Ordered(p)' <=> \E i \in DOMAIN t : t[i].type = "wait"
  BY <1>3 DEF Ordered
<1>17. Ordered(p) <=> \E i \in DOMAIN s : s[i].type = "wait"
  BY <1>5 DEF Ordered
<1>18. Ordered(p)' => Ordered(p)
  BY <1>2, <1>16, <1>17
<1>19. c.type # "wait" /\ Ordered(p) => Ordered(p)'
  BY <1>5, <1>6, <1>16, <1>17
<1>20. ASSUME phase[p] # "loop", NEW i \in DOMAIN s, s[i].type \in {"request", "data"}
       PROVE  \E j \in DOMAIN s : i < j /\ s[j].type = "wait"
  BY <1>5, <1>20 DEF NetworkInv, ChannelInv
<1>21. ASSUME phase[p] # "loop", NEW i \in DOMAIN t, t[i].type \in {"request", "data"}
       PROVE  \E j \in DOMAIN t : i < j /\ t[j].type = "wait"
  <2>1. i + 1 \in DOMAIN s /\ s[i + 1].type \in {"request", "data"} /\ i \in Nat
    BY <1>2, <1>21
  <2>2. PICK j \in DOMAIN s : i + 1 < j /\ s[j].type = "wait"
    BY <1>20, <1>21, <2>1
  <2>3. j - 1 \in DOMAIN t /\ t[j - 1] = s[j] /\ i < j - 1
    BY <1>2, <1>6, <2>1, <2>2
  <2> QED BY <2>2, <2>3
<1>22. phase[p] # "loop" => \A i \in DOMAIN channel'[p] :
         channel'[p][i].type \in {"request", "data"} =>
           \E j \in DOMAIN channel'[p] : i < j /\ channel'[p][j].type = "wait"
  BY <1>3, <1>21
<1>23. ASSUME phase[p] # "loop", c.type \in {"request", "data"} PROVE Ordered(p)'
  <2>1. PICK j \in DOMAIN s : 1 < j /\ s[j].type = "wait"
    BY <1>2, <1>5, <1>20, <1>23
  <2> QED BY <1>6, <1>16, <2>1
<1> QED BY <1>3, <1>4, <1>7, <1>8, <1>10, <1>11, <1>12, <1>13, <1>14, <1>15, <1>18, <1>19,
           <1>22, <1>23 DEF Shorter

\* What the commands have in common that p's task takes from its channel.
LEMMA TakeOK ==
  ASSUME NetworkInv, NEW p \in Party, NEW c \in Command, Shorter(p, c),
         phase[p] # "closed", UNCHANGED <<phase, next, opening, streams, read>>,
         Local(p), requested[p] \subseteq requested'[p],
         c.type = "request" => c.key \in requested'[p],
         \A k \in Key : \A q \in Party : Check(k) \in opening[p][q] => q \in notify'[p][k],
         \A a, b \in Party, k \in Key :
           InStream(a, b, Check(k)) \/ InChannel(b, [type |-> "check", key |-> k, from |-> a])' =>
             CP!OnTheWay(a, b, k)',
         Answered(p)' => CP!IsConsistent(consistency[p])',
         [CP!Next]_(CP!vars)
  PROVE  NetworkInv'
<1>1. /\ channel' \in [Party -> Seq(Command)]
      /\ \A a \in Party : \A i \in DOMAIN channel'[a] :
           channel'[a][i].type # "wait" => channel'[a][i].key \in Key
      /\ RoomInv'
      /\ \A a \in Party : \A i, j \in DOMAIN channel'[a] :
           channel'[a][i].type = "check" /\ channel'[a][i] = channel'[a][j] => i = j
  BY DEF Shorter
<1>2. /\ \A a \in Party : a # p => channel'[a] = channel[a]
      /\ \A d : InChannel(p, d)' => InChannel(p, d)
      /\ \A d : InChannel(p, d) => d = c \/ InChannel(p, d)'
  BY DEF Shorter
<1>3. Types' /\ OnceInv'
  BY <1>1 DEF NetworkInv, Types, OnceInv
<1>4. ReadInv'
  BY DEF NetworkInv, ReadInv
<1>5. DataInv'
  BY DEF NetworkInv, DataInv, InStream
<1>6. CheckInv'
  <2> SUFFICES ASSUME NEW b \in Party, NEW a \in Party, NEW k \in Key,
                      NEW d, d = [type |-> "check", key |-> k, from |-> a]
               PROVE  /\ Check(k) \in opening[a][b] => b \in notify'[a][k]
                      /\ InStream(a, b, Check(k)) \/ InChannel(b, d)' =>
                           CP!OnTheWay(a, b, k)' /\ Sender[k] # b
                      /\ ~(InStream(a, b, Check(k)) /\ InChannel(b, d)')
    BY DEF CheckInv, Check, InStream
  <2>1. /\ Check(k) \in opening[a][b] => b \in notify[a][k]
        /\ InStream(a, b, Check(k)) \/ InChannel(b, d) => CP!OnTheWay(a, b, k) /\ Sender[k] # b
        /\ ~(InStream(a, b, Check(k)) /\ InChannel(b, d))
    BY DEF NetworkInv, CheckInv
  <2>2. InChannel(b, d)' => InChannel(b, d)
    <3>1. CASE b = p
      BY <1>2, <3>1
    <3>2. CASE b # p
      BY <1>2, <3>2 DEF InChannel
    <3> QED BY <3>1, <3>2
  <2>3. a # p => notify'[a] = notify[a]
    BY DEF Local
  <2>4. InStream(a, b, Check(k)) \/ InChannel(b, d)' => CP!OnTheWay(a, b, k)'
    OBVIOUS
  <2>5. a = p => (Check(k) \in opening[a][b] => b \in notify'[a][k])
    OBVIOUS
  <2> QED BY <2>1, <2>2, <2>3, <2>4, <2>5
<1>7. ChannelInv'
  <2> SUFFICES ASSUME NEW a \in Party
               PROVE  /\ \A l \in Key : l < next'[a] /\ Sender[l] # a =>
                           \/ l \in requested'[a]
                           \/ InChannel(a, [type |-> "request", key |-> l, from |-> a])'
                      /\ phase'[a] # "wait" => ~Ordered(a)'
                      /\ phase'[a] # "loop" =>
                           \A i \in DOMAIN channel'[a] : channel'[a][i].type \in {"request", "data"} =>
                             \E j \in DOMAIN channel'[a] : i < j /\ channel'[a][j].type = "wait"
    BY DEF ChannelInv
  <2>1. CASE a # p
    <3>1. requested'[a] = requested[a] /\ channel'[a] = channel[a]
      BY <1>2, <2>1 DEF Local
    <3> QED BY <3>1, ChannelLocal DEF NetworkInv
  <2>2. CASE a = p
    <3>1. ASSUME NEW l \in Key, l < next[p], Sender[l] # p
          PROVE  \/ l \in requested'[p]
                 \/ InChannel(p, [type |-> "request", key |-> l, from |-> p])'
      <4>1. PICK d : d = [type |-> "request", key |-> l, from |-> p]
        OBVIOUS
      <4>2. l \in requested[p] \/ InChannel(p, d)
        BY <3>1, <4>1 DEF NetworkInv, ChannelInv
      <4>3. InChannel(p, d) => d = c \/ InChannel(p, d)'
        BY <1>2
      <4>4. d = c => l \in requested'[p]
        BY <4>1
      <4> QED BY <4>1, <4>2, <4>3, <4>4
    <3>2. phase[p] # "wait" => ~Ordered(p)'
      BY DEF NetworkInv, ChannelInv, Shorter
    <3>3. phase[p] # "loop" =>
            \A i \in DOMAIN channel'[p] : channel'[p][i].type \in {"request", "data"} =>
              \E j \in DOMAIN channel'[p] : i < j /\ channel'[p][j].type = "wait"
      BY DEF Shorter
    <3> QED BY <2>2, <3>1, <3>2, <3>3
  <2> QED BY <2>1, <2>2
<1>8. QuietInv'
  <2>1. \A a \in Party : a # p =>
          /\ Answered(a)' => CP!IsConsistent(consistency[a])'
          /\ phase'[a] = "closed" => Answered(a)'
    BY <1>2, QuietLocal DEF NetworkInv, Local
  <2> QED BY <2>1 DEF QuietInv
<1>9. CP!AgreementInv' /\ CP!TellingInv'
  BY ChecksKept DEF NetworkInv
<1> QED BY <1>1, <1>3, <1>4, <1>5, <1>6, <1>7, <1>8, <1>9 DEF NetworkInv

\* A task that takes a command has nobody left to tell.
LEMMA IdleOK ==
  ASSUME NetworkInv, NEW p \in Party, CP!Idle(p)
  PROVE  \A k \in Key : \A q \in Party : Check(k) \notin opening[p][q]
<1>1. \A k \in Key : \A q \in Party : Check(k) \in opening[p][q] => q \in notify[p][k]
  BY DEF NetworkInv, CheckInv
<1> QED BY <1>1 DEF CP!Idle

\* The checks on their way that are written are those of before, if no check is taken.
LEMMA WayKept ==
  ASSUME NetworkInv, NEW p \in Party, NEW c, Shorter(p, c), checks' = checks
  PROVE  \A a, b \in Party, k \in Key :
           InStream(a, b, Check(k)) \/ InChannel(b, [type |-> "check", key |-> k, from |-> a])' =>
             CP!OnTheWay(a, b, k)'
<1> SUFFICES ASSUME NEW a \in Party, NEW b \in Party, NEW k \in Key,
                    NEW d, d = [type |-> "check", key |-> k, from |-> a],
                    InStream(a, b, Check(k)) \/ InChannel(b, d)'
             PROVE  CP!OnTheWay(a, b, k)'
  OBVIOUS
<1>1. InChannel(b, d)' => InChannel(b, d)
  <2>1. CASE b = p
    BY <2>1 DEF Shorter
  <2>2. CASE b # p
    BY <2>2 DEF Shorter, InChannel
  <2> QED BY <2>1, <2>2
<1>2. CP!OnTheWay(a, b, k)
  BY <1>1 DEF NetworkInv, CheckInv
<1> QED BY <1>2 DEF CP!OnTheWay

\* The task is asked for a check, or gets data: its Queue is not answered yet.
LEMMA TakeAskedStep ==
  ASSUME NetworkInv, NEW p \in Party, NEW c \in Command, Shorter(p, c), phase[p] # "closed",
         UNCHANGED <<phase, next, opening, streams, read>>,
         \/ c.type = "request" /\ CC!Request(p, c.key)
         \/ c.type = "data" /\ \E h \in CC!Payload(c.key) : CC!ReceivedData(p, c.key, h)
  PROVE  NetworkInv'
<1>1. c.key \in Key /\ CP!TypeOK
  BY DEF Shorter, NetworkInv, CP!AgreementInv
<1>2. \/ c.type = "request" /\ CP!Request(p, c.key)
      \/ c.type = "data" /\ \E h \in CP!Payload(c.key) : CP!ReceivedData(p, c.key, h)
  BY SameCommands
<1>3. [CP!Next]_(CP!vars)
  BY <1>1, <1>2 DEF CP!Next
<1>4. /\ CP!Idle(p) /\ Local(p) /\ checks' = checks /\ requested[p] \subseteq requested'[p]
      /\ c.type = "request" => c.key \in requested'[p]
  <2>1. CASE c.type = "request" /\ CP!Request(p, c.key)
    BY <1>1, <2>1, RequestEffect
  <2>2. CASE c.type = "data" /\ \E h \in CP!Payload(c.key) : CP!ReceivedData(p, c.key, h)
    BY <1>1, <2>2, ReceivedDataEffect
  <2> QED BY <1>2, <2>1, <2>2
<1>5. \A k \in Key : \A q \in Party : Check(k) \in opening[p][q] => q \in notify'[p][k]
  BY <1>4, IdleOK
<1>6. \A a, b \in Party, k \in Key :
        InStream(a, b, Check(k)) \/ InChannel(b, [type |-> "check", key |-> k, from |-> a])' =>
          CP!OnTheWay(a, b, k)'
  BY <1>4, WayKept
<1>7. ~Answered(p)'
  BY <1>2 DEF Answered, Shorter
<1> QED BY <1>3, <1>4, <1>5, <1>6, <1>7, TakeOK

\* The task gets a check: the command in the channel is the check's only copy.
LEMMA TakeCheckStep ==
  ASSUME NetworkInv, NEW p \in Party, NEW c \in Command, Shorter(p, c), phase[p] # "closed",
         UNCHANGED <<phase, next, opening, streams, read>>,
         c.type = "check", NEW check \in checks,
         check.from = c.from, check.to = p, check.key = c.key, CC!ReceivedCheck(p, check)
  PROVE  NetworkInv'
<1>1. c.key \in Key /\ c.from \in Party /\ CP!TypeOK
  BY DEF Shorter, NetworkInv, CP!AgreementInv, Command
<1>2. CP!ReceivedCheck(p, check)
  BY SameCommands
<1>3. [CP!Next]_(CP!vars)
  BY <1>2 DEF CP!Next
<1>4. /\ CP!Idle(p) /\ Local(p) /\ Answering(p) /\ notify' = notify
      /\ checks' = checks \ {check} /\ requested' = requested
  BY <1>1, <1>2, ReceivedCheckEffect
<1>5. \A k \in Key : \A q \in Party : Check(k) \in opening[p][q] => q \in notify'[p][k]
  BY <1>4, IdleOK
<1>6. c = [type |-> "check", key |-> c.key, from |-> c.from]
  BY DEF Command
<1>7. InChannel(p, c) /\ ~InChannel(p, c)' /\ (Ordered(p)' <=> Ordered(p))
  BY DEF Shorter
<1>8. ~InStream(c.from, p, Check(c.key)) /\ CP!OnTheWay(c.from, p, c.key) /\ Sender[c.key] # p
  BY <1>1, <1>6, <1>7 DEF NetworkInv, CheckInv
<1>9. ASSUME NEW a \in Party, NEW b \in Party, NEW k \in Key,
             NEW d, d = [type |-> "check", key |-> k, from |-> a],
             InStream(a, b, Check(k)) \/ InChannel(b, d)'
      PROVE  CP!OnTheWay(a, b, k)'
  <2>1. InChannel(b, d)' => InChannel(b, d)
    <3>1. CASE b = p
      BY <3>1 DEF Shorter
    <3>2. CASE b # p
      BY <3>2 DEF Shorter, InChannel
    <3> QED BY <3>1, <3>2
  <2>2. CP!OnTheWay(a, b, k)
    BY <1>9, <2>1 DEF NetworkInv, CheckInv
  <2>3. ~(a = c.from /\ b = p /\ k = c.key)
    <3> SUFFICES ASSUME a = c.from, b = p, k = c.key PROVE FALSE
      OBVIOUS
    <3>1. d = c
      BY <1>6, <1>9
    <3> QED BY <1>7, <1>8, <1>9, <3>1
  <2>4. PICK e \in checks : e.from = a /\ e.to = b /\ e.key = k
    BY <2>2 DEF CP!OnTheWay
  <2>5. e \in checks'
    BY <1>4, <2>3, <2>4
  <2> QED BY <2>4, <2>5 DEF CP!OnTheWay
<1>10. \A a, b \in Party, k \in Key :
         InStream(a, b, Check(k)) \/ InChannel(b, [type |-> "check", key |-> k, from |-> a])' =>
           CP!OnTheWay(a, b, k)'
  BY <1>9
<1>11. ~Answered(p)
  BY <1>1, <1>8, QuietOK
<1>12. Answered(p)' => CP!IsConsistent(consistency[p])'
  BY <1>4, <1>7, <1>11, QuietAnswer
<1> QED BY <1>3, <1>4, <1>5, <1>10, <1>12, TakeOK

\* The task gets the command to wait, and answers at once if no check is open.
LEMMA TakeWaitStep ==
  ASSUME NetworkInv, NEW p \in Party, NEW c \in Command, Shorter(p, c), phase[p] # "closed",
         UNCHANGED <<phase, next, opening, streams, read>>, c.type = "wait", CC!Wait(p)
  PROVE  NetworkInv'
<1>1. CP!Wait(p) /\ CP!TypeOK
  BY SameCommands DEF NetworkInv, CP!AgreementInv
<1>2. [CP!Next]_(CP!vars)
  BY <1>1 DEF CP!Next
<1>3. /\ CP!Idle(p) /\ Local(p) /\ checks' = checks /\ requested' = requested
      /\ notify' = notify /\ consistency' = consistency
      /\ openRequests'[p] \/ CP!IsConsistent(consistency[p])
  BY <1>1, WaitEffect
<1>4. \A k \in Key : \A q \in Party : Check(k) \in opening[p][q] => q \in notify'[p][k]
  BY <1>3, IdleOK
<1>5. \A a, b \in Party, k \in Key :
        InStream(a, b, Check(k)) \/ InChannel(b, [type |-> "check", key |-> k, from |-> a])' =>
          CP!OnTheWay(a, b, k)'
  BY <1>3, WayKept
<1>6. Answered(p)' => CP!IsConsistent(consistency[p])'
  BY <1>3 DEF Answered, CP!IsConsistent
<1> QED BY <1>2, <1>3, <1>4, <1>5, <1>6, TakeOK

\* The task takes the next command.
LEMMA TakeStep ==
  ASSUME NetworkInv, NEW p \in Party, Take(p)
  PROVE  NetworkInv'
<1>1. PICK c : c = Head(channel[p])
  OBVIOUS
<1>2. /\ phase[p] # "closed" /\ channel[p] # <<>>
      /\ channel' = [channel EXCEPT ![p] = Tail(@)]
      /\ UNCHANGED <<phase, next, opening, streams, read>>
  BY DEF Take, Running, queueVars, netVars
<1>3. \/ \/ c.type = "request" /\ CC!Request(p, c.key)
         \/ c.type = "data" /\ \E h \in CC!Payload(c.key) : CC!ReceivedData(p, c.key, h)
      \/ /\ c.type = "check"
         /\ \E check \in checks :
              /\ check.from = c.from /\ check.to = p /\ check.key = c.key
              /\ CC!ReceivedCheck(p, check)
      \/ c.type = "wait" /\ CC!Wait(p)
  BY <1>1 DEF Take
<1>4. c \in Command
  BY <1>1, <1>2, TailOK DEF NetworkInv, Types
<1>5. Shorter(p, c)
  BY <1>1, <1>2, <1>4, ShorterOK
<1> QED BY <1>2, <1>3, <1>4, <1>5, TakeAskedStep, TakeCheckStep, TakeWaitStep

------------------------------------------------------------------------------
(* The invariant *)

\* At first nothing is anywhere and every Queue is at the beginning of its loop.
LEMMA InitNetwork == Init => NetworkInv
<1> SUFFICES ASSUME Init PROVE NetworkInv
  OBVIOUS
<1>1. /\ \A p \in Party : phase[p] = "loop" /\ next[p] = 1 /\ channel[p] = <<>> /\ read[p] = {}
      /\ \A p, q \in Party : opening[p][q] = {} /\ streams[p][q] = <<>>
  BY DEF Init
<1>2. \A p, q \in Party : Len(streams[p][q]) <= Credit
  BY <1>1, BackpressureAssumption
<1>3. \A p, q \in Party : \A m : ~InStream(p, q, m) /\ ~InChannel(p, m)
  BY <1>1 DEF InStream, InChannel
<1>4. Types
  <2>1. /\ channel \in [Party -> Seq(Command)]
        /\ opening \in [Party -> [Party -> SUBSET Message]]
        /\ streams \in [Party -> [Party -> Seq(Message)]]
    BY DEF Init
  <2>2. /\ phase \in [Party -> {"loop", "wait", "closed"}]
        /\ next \in [Party -> 1 .. Len(Sender) + 1]
        /\ read \in [Party -> SUBSET Key]
    BY KeysOK DEF Init
  <2> QED BY <1>1, <1>2, <2>1, <2>2 DEF Types
<1>5. RoomInv /\ OnceInv
  BY <1>1 DEF RoomInv, OnceInv
<1>6. ReadInv
  BY <1>1 DEF ReadInv
<1>7. DataInv
  BY <1>1, <1>3 DEF DataInv
<1>8. CheckInv
  BY <1>1, <1>3 DEF CheckInv
<1>9. ChannelInv
  BY <1>1, KeysOK DEF ChannelInv, Ordered
<1>10. QuietInv
  BY <1>1 DEF QuietInv, Answered
<1>11. CP!AgreementInv /\ CP!TellingInv
  <2>1. CP!Init
    BY SameCommands DEF Init
  <2> QED BY <2>1, Assumptions, CP!InitAgrees, CP!InitTells
<1> QED BY <1>4, <1>5, <1>6, <1>7, <1>8, <1>9, <1>10, <1>11 DEF NetworkInv

\* Every step keeps the invariant.
LEMMA NextNetwork == NetworkInv /\ [Next]_vars => NetworkInv'
<1> SUFFICES ASSUME NetworkInv, [Next]_vars PROVE NetworkInv'
  OBVIOUS
<1>1. ASSUME NEW p \in Party, Step(p) PROVE NetworkInv'
  <2>1. ASSUME NEW q \in Party, NEW m, Write(p, q, m) PROVE NetworkInv'
    BY <2>1, WriteDataStep, WriteCheckStep
  <2>2. ASSUME NEW q \in Party, Read(p, q) PROVE NetworkInv'
    BY <2>2, ReadStep
  <2> QED BY <1>1, <2>1, <2>2, BroadcastStep, ReceiveStep, DropStep, CloseStep, TakeStep, AskStep
             DEF Step
<1>2. CASE UNCHANGED vars
  <2>1. /\ UNCHANGED <<phase, next, channel, opening, streams, read>>
        /\ UNCHANGED consistencyVars
    BY <1>2 DEF vars, queueVars, netVars
  <2>2. Types' /\ RoomInv' /\ ReadInv' /\ OnceInv'
    BY <2>1 DEF NetworkInv, Types, RoomInv, ReadInv, OnceInv
  <2>3. DataInv'
    BY <2>1 DEF NetworkInv, DataInv, InStream
  <2>4. CheckInv'
    BY <2>1 DEF NetworkInv, CheckInv, InStream, InChannel, consistencyVars, CP!OnTheWay
  <2>5. ChannelInv'
    BY <2>1 DEF NetworkInv, ChannelInv, InChannel, Ordered, consistencyVars
  <2>6. QuietInv'
    BY <2>1, QuietKept DEF NetworkInv, consistencyVars
  <2>7. CP!AgreementInv' /\ CP!TellingInv'
    BY <2>1, ChecksUnchanged DEF NetworkInv
  <2> QED BY <2>2, <2>3, <2>4, <2>5, <2>6, <2>7 DEF NetworkInv
<1> QED BY <1>1, <1>2 DEF Next

LEMMA NetworkKept == Spec => []NetworkInv
BY InitNetwork, NextNetwork, PTL DEF Spec

------------------------------------------------------------------------------
(* Nothing is left *)

\* Commands that nobody asks for any longer are none.
LEMMA NoCommandLeft ==
  ASSUME NetworkInv, NEW p \in Party, Answered(p)
  PROVE  channel[p] = <<>>
<1> SUFFICES ASSUME channel[p] # <<>> PROVE FALSE
  OBVIOUS
<1>1. PICK c : c = Head(channel[p])
  OBVIOUS
<1>2. c \in Command /\ 1 \in DOMAIN channel[p] /\ channel[p][1] = c
  BY <1>1, TailOK DEF NetworkInv, Types
<1>3. c.type # "wait"
  BY <1>2 DEF Answered, Ordered
<1>4. c.type \notin {"request", "data"}
  BY <1>2 DEF NetworkInv, ChannelInv, Answered, Ordered
<1>5. /\ c.type = "check" /\ c.from \in Party /\ c.key \in Key
      /\ c = [type |-> "check", key |-> c.key, from |-> c.from]
  BY <1>2, <1>3, <1>4 DEF Command, NetworkInv, Types
<1>6. InChannel(p, [type |-> "check", key |-> c.key, from |-> c.from])
  BY <1>2, <1>5 DEF InChannel
<1>7. CP!OnTheWay(c.from, p, c.key) /\ Sender[c.key] # p
  BY <1>5, <1>6 DEF NetworkInv, CheckInv
<1> QED BY <1>5, <1>7, QuietOK

\* No task of a client that is gone waits for a stream.
LEMMA NoMessageLeft ==
  ASSUME NetworkInv, NEW p \in Party, NEW q \in Party, Answered(p)
  PROVE  opening[p][q] = {}
<1> SUFFICES ASSUME NEW m \in opening[p][q] PROVE FALSE
  OBVIOUS
<1>1. PICK k \in Key : m = Data(k) \/ m = Check(k)
  <2>1. m \in Message
    BY DEF NetworkInv, Types
  <2> QED BY <2>1 DEF Message, Data, Check
<1>2. m # Data(k)
  BY DEF NetworkInv, DataInv, Answered
<1>3. m # Check(k)
  <2>1. notify[p][k] = {}
    BY QuietOK
  <2>2. Check(k) \in opening[p][q] => q \in notify[p][k]
    BY DEF NetworkInv, CheckInv
  <2> QED BY <2>1, <2>2
<1> QED BY <1>1, <1>2, <1>3

\* No stream is left that nobody reads: its reader would still wait for the data or the check.
LEMMA NoStreamLeft ==
  ASSUME NetworkInv, NEW p \in Party, NEW q \in Party, Answered(q)
  PROVE  streams[p][q] = <<>>
<1> SUFFICES ASSUME streams[p][q] # <<>> PROVE FALSE
  OBVIOUS
<1>1. PICK m : m = Head(streams[p][q])
  OBVIOUS
<1>2. m \in Message /\ InStream(p, q, m)
  BY <1>1, TailOK DEF NetworkInv, Types, InStream
<1>3. PICK k \in Key : m = Data(k) \/ m = Check(k)
  BY <1>2 DEF Message, Data, Check
<1>4. m # Data(k)
  BY <1>2 DEF NetworkInv, DataInv, ReadInv, Answered
<1>5. m # Check(k)
  <2> SUFFICES ASSUME m = Check(k) PROVE FALSE
    OBVIOUS
  <2>1. CP!OnTheWay(p, q, k) /\ Sender[k] # q
    BY <1>2 DEF NetworkInv, CheckInv
  <2> QED BY <2>1, QuietOK
<1> QED BY <1>3, <1>4, <1>5

\* When all Queues are dropped, no channel, no stream and no task of a client has anything left
\* that a party would be told and nobody waits for: queue.rs answers ensure_consistency only
\* when all of its checks are over, and every check that is sent is waited for.
THEOREM NothingLeftHolds == Spec => []NothingLeft
<1>1. NetworkInv => NothingLeft
  <2> SUFFICES ASSUME NetworkInv, AllClosed, NEW p \in Party, NEW q \in Party
               PROVE  channel[p] = <<>> /\ opening[p][q] = {} /\ streams[p][q] = <<>>
    BY DEF NothingLeft
  <2>1. Answered(p) /\ Answered(q)
    BY DEF AllClosed, NetworkInv, QuietInv
  <2> QED BY <2>1, NoCommandLeft, NoMessageLeft, NoStreamLeft
<1> QED BY <1>1, NetworkKept, PTL

\* Of the parties' servers and the Queue each has one command at most beyond the capacity.
LEMMA RoomOK ==
  ASSUME Types, RoomInv, NEW p \in Party
  PROVE  Len(channel[p]) <= Capacity + Cardinality(Party)
<1> DEFINE n == Len(channel[p])
           S == Capacity + 1 .. n
           f == [i \in S |-> channel[p][i].from]
<1>1. /\ n \in Nat /\ DOMAIN channel[p] = 1 .. n
      /\ \A i \in 1 .. n : channel[p][i] \in Command
  BY DEF Types
<1>2. Capacity \in Nat /\ IsFiniteSet(Party) /\ Cardinality(Party) \in Nat
  BY BackpressureAssumption, FS_CardinalityType
<1> SUFFICES ASSUME n > Capacity + Cardinality(Party) PROVE FALSE
  BY <1>1, <1>2
<1> HIDE DEF n
<1>3. IsFiniteSet(S) /\ Cardinality(S) = n - Capacity
  <2>1. Capacity + 1 \in Int /\ n \in Int /\ ~(Capacity + 1 > n)
    BY <1>1, <1>2
  <2>2. IsFiniteSet(S) /\ Cardinality(S) = n - (Capacity + 1) + 1
    BY <2>1, FS_Interval
  <2> QED BY <1>1, <1>2, <2>2
<1>4. \A i \in S : i \in 1 .. n /\ i > Capacity
  BY <1>1, <1>2
<1>5. f \in [S -> Party]
  BY <1>1, <1>4 DEF Command
<1>6. Cardinality(Party) < Cardinality(S)
  BY <1>1, <1>2, <1>3
<1> HIDE DEF S, f
<1>7. PICK i \in S, j \in S : i # j /\ f[i] = f[j]
  <2>1. IsFiniteSet(Party) /\ IsFiniteSet(S)
    BY <1>2, <1>3
  <2> QED BY <2>1, <1>5, <1>6, FS_PigeonHole
<1>8. /\ i \in DOMAIN channel[p] /\ j \in DOMAIN channel[p] /\ i > Capacity /\ j > Capacity
      /\ channel[p][i].from = channel[p][j].from
  BY <1>1, <1>4, <1>7 DEF f
<1> QED BY <1>7, <1>8 DEF RoomInv

\* Channels, streams and tasks hold values of the code's types, and the channels have room for
\* the commands that wait.
THEOREM BackpressureTypeOK == Spec => []TypeOK
<1>1. NetworkInv => TypeOK
  <2> SUFFICES ASSUME NetworkInv PROVE TypeOK
    OBVIOUS
  <2>1. CC!TypeOK
    BY SameCommands DEF NetworkInv, CP!AgreementInv
  <2>2. \A p \in Party : Len(channel[p]) <= Capacity + Cardinality(Party)
    BY RoomOK DEF NetworkInv
  <2> QED BY <2>1, <2>2 DEF NetworkInv, Types, TypeOK
<1> QED BY <1>1, NetworkKept, PTL

==============================================================================
