--------------------------- MODULE ConsistencyProofs ---------------------------
(***************************************************************************)
(* Proofs about Consistency for every set of parties and messages.         *)
(***************************************************************************)
EXTENDS Consistency, TLAPS

\* The constructors of ConsistencyCheckValue make values of its type.
LEMMA ConstructorsOK ==
  ASSUME NEW p \in Party, NEW k \in Key, NEW q \in Party, NEW h \in Hash
  PROVE  /\ NewRequest(Others(p, k)) \in Value
         /\ NewReceived(q, h) \in Value
         /\ NewReceivedData(h) \in Value
  BY ConsistencyAssumption DEF NewRequest, NewReceived, NewReceivedData, Value, Others

\* register: the data stays, and only the expected parties have an entry afterwards.
LEMMA RegisterOK ==
  ASSUME NEW v \in Value, NEW rs \in SUBSET Party
  PROVE  /\ Register(v, rs) \in Value
         /\ Register(v, rs).received = v.received
         /\ v.registered => Register(v, rs) = v
         /\ ~v.registered =>
              /\ Register(v, rs).registered <=> Keys(v) \subseteq rs
              /\ Keys(Register(v, rs)) = rs
              /\ Arrived(Register(v, rs)) = Arrived(v) \cap rs
              /\ \A q \in Arrived(v) \cap rs : Register(v, rs).receivers[q] = v.receivers[q]
<1>1. CASE v.registered
  BY <1>1 DEF Register, Value
<1>2. CASE ~v.registered
  <2> DEFINE f == [q \in Party |-> IF q \notin rs THEN Absent
                                   ELSE IF v.receivers[q] = Absent THEN None
                                   ELSE v.receivers[q]]
             b == Keys(v) \subseteq rs
  <2>1. Register(v, rs) = [v EXCEPT !.registered = b, !.receivers = f]
    BY <1>2 DEF Register
  <2>2. /\ f \in [Party -> Hash \cup {None, Absent}]
        /\ \A q \in Party : f[q] # Absent <=> q \in rs
        /\ \A q \in Party : f[q] \notin {Absent, None} <=> q \in rs /\ v.receivers[q] \notin {Absent, None}
        /\ \A q \in Arrived(v) \cap rs : f[q] = v.receivers[q]
    BY ConsistencyAssumption DEF Value, Arrived
  <2>3. b \in BOOLEAN
    OBVIOUS
  <2> HIDE DEF f, b
  <2>4. /\ Register(v, rs) \in Value
        /\ Register(v, rs).received = v.received
        /\ Register(v, rs).registered = b
        /\ Register(v, rs).receivers = f
    BY <2>1, <2>2, <2>3 DEF Value
  <2>5. Keys(Register(v, rs)) = rs /\ Arrived(Register(v, rs)) = Arrived(v) \cap rs
    BY <2>2, <2>4 DEF Keys, Arrived
  <2>6. Register(v, rs).registered <=> Keys(v) \subseteq rs
    BY <2>4 DEF b
  <2> QED
    BY <1>2, <2>2, <2>4, <2>5, <2>6
<1> QED
  BY <1>1, <1>2

\* receive: nothing but the entry of q changes, and only to h.
LEMMA ReceiveOK ==
  ASSUME NEW v \in Value, NEW q \in Party, NEW h \in Hash
  PROVE  /\ Receive(v, q, h) \in Value
         /\ Receive(v, q, h).received = v.received
         /\ Receive(v, q, h).registered = v.registered
         /\ Keys(v) \subseteq Keys(Receive(v, q, h))
         /\ Keys(Receive(v, q, h)) \subseteq Keys(v) \cup {q}
         /\ \A r \in Arrived(Receive(v, q, h)) :
              \/ r \in Arrived(v) /\ Receive(v, q, h).receivers[r] = v.receivers[r]
              \/ r = q /\ Receive(v, q, h).receivers[r] = h
  BY ConsistencyAssumption DEF Receive, Value, Keys, Arrived

\* receive_data: only the data changes, and only when there was none.
LEMMA ReceiveDataOK ==
  ASSUME NEW v \in Value, NEW h \in Hash
  PROVE  /\ ReceiveData(v, h) \in Value
         /\ ReceiveData(v, h).received = IF v.received = None THEN h ELSE v.received
         /\ ReceiveData(v, h).registered = v.registered
         /\ ReceiveData(v, h).receivers = v.receivers
  BY ConsistencyAssumption DEF ReceiveData, Value

\* check: a party leaves the map of receivers only when its hash is that of the data.
LEMMA CheckOK ==
  ASSUME NEW v \in Value
  PROVE  /\ Check(v) \in Value
         /\ Check(v).received = v.received
         /\ Check(v).registered = v.registered
         /\ Keys(Check(v)) \subseteq Keys(v)
         /\ Arrived(Check(v)) \subseteq Arrived(v)
         /\ \A q \in Keys(Check(v)) : Check(v).receivers[q] = v.receivers[q]
         /\ \A q \in Keys(v) \ Keys(Check(v)) :
              q \in Arrived(v) /\ v.receivers[q] = v.received /\ v.received \in Hash
  BY ConsistencyAssumption DEF Check, CheckPasses, Value, Keys, Arrived

-----------------------------------------------------------------------------
(* Steps *)

\* Data once received stays, and requests are only added, here for k at p.
Grow(p, k) ==
  /\ received' \in [Party -> [Key -> Hash \cup {None}]]
  /\ requested' \in [Party -> SUBSET Key]
  /\ \A q \in Party, l \in Key : received[q][l] # None => received'[q][l] = received[q][l]
  /\ \A q \in Party : requested[q] \subseteq requested'[q]
  /\ \A q \in Party : \A l \in requested'[q] : l \in requested[q] \/ (q = p /\ l = k)

\* Only p's entry for k changes, to what is true of k; answers come from a map without
\* open checks.
Outcome(p, k) ==
  /\ consistency' \in [Party -> [Key -> Value \cup {Vacant}]]
  /\ openRequests' \in [Party -> BOOLEAN]
  /\ confirmed' \in [Party -> SUBSET Key]
  /\ \A q \in Party, l \in Key : q # p \/ l # k => consistency'[q][l] = consistency[q][l]
  /\ consistency'[p][k] # Vacant => EntryTrue(p, k, consistency[p][k])'
  /\ k \in requested'[p] => RequestKept(p, k)'
  /\ \A q \in Party : \/ confirmed'[q] = confirmed[q]
                     \/ /\ confirmed'[q] = confirmed[q] \cup requested[q]
                        /\ IsConsistent(consistency[q])'

\* Receivers that agree go on to agree: ReceivedData never replaces data.
LEMMA SameDataKept ==
  ASSUME TypeOK, NEW p \in Party, NEW k \in Key, Grow(p, k)
  PROVE  /\ \A q, r \in Party, l \in Key : SameData(q, r, l) => SameData(q, r, l)'
         /\ \A q \in Party, l \in Key : AllAgree(q, l) => AllAgree(q, l)'
<1>1. \A q, r \in Party, l \in Key : SameData(q, r, l) => SameData(q, r, l)'
  BY ConsistencyAssumption DEF TypeOK, Grow, SameData
<1>2. \A q \in Party, l \in Key : AllAgree(q, l) => AllAgree(q, l)'
  BY <1>1, ConsistencyAssumption DEF AllAgree, Others
<1> QED
  BY <1>1, <1>2

\* What an entry of the map says stays true while other data and requests come in.
LEMMA EntryTrueKept ==
  ASSUME TypeOK, NEW p \in Party, NEW k \in Key, Grow(p, k),
         NEW q \in Party, NEW l \in Key, NEW v \in Value, EntryTrue(q, l, v)
  PROVE  EntryTrue(q, l, v)'
<1>1. v.received # None => v.received = received'[q][l]
  BY ConsistencyAssumption DEF TypeOK, Grow, EntryTrue, Value
<1>2. v.registered => l \in requested'[q]
  BY DEF TypeOK, Grow, EntryTrue, Value
<1>3. \A r \in Arrived(v) : v.receivers[r] = received'[r][l]
  BY ConsistencyAssumption DEF TypeOK, Grow, EntryTrue, Value, Arrived
<1>4. v.registered => \A r \in Others(q, l) : r \in Keys(v) \/ SameData(q, r, l)'
  BY SameDataKept, ConsistencyAssumption DEF EntryTrue, Others
<1> QED
  BY <1>1, <1>2, <1>3, <1>4 DEF EntryTrue

\* A step of p on k keeps the parts of the invariant that are about entries and answers.
LEMMA StepKeeps ==
  ASSUME TypeOK, EntriesTrue, RequestsKept, Agreement,
         NEW p \in Party, NEW k \in Key, Grow(p, k), Outcome(p, k)
  PROVE  EntriesTrue' /\ RequestsKept' /\ Agreement'
<1>1. EntriesTrue'
  <2> SUFFICES ASSUME NEW q \in Party, NEW l \in Key, consistency'[q][l] # Vacant
               PROVE  EntryTrue(q, l, consistency[q][l])'
    BY DEF EntriesTrue
  <2>1. CASE q = p /\ l = k
    BY <2>1 DEF Outcome
  <2>2. CASE q # p \/ l # k
    <3>1. consistency'[q][l] = consistency[q][l]
      BY <2>2 DEF Outcome
    <3>2. PICK v \in Value : v = consistency[q][l]
      BY <3>1 DEF TypeOK
    <3>3. EntryTrue(q, l, v)
      BY <3>1, <3>2 DEF EntriesTrue
    <3>4. EntryTrue(q, l, v)'
      BY <3>3, EntryTrueKept
    <3> QED
      BY <3>1, <3>2, <3>4 DEF EntryTrue
  <2> QED
    BY <2>1, <2>2
<1>2. RequestsKept'
  <2> SUFFICES ASSUME NEW q \in Party, NEW l \in requested'[q]
               PROVE  RequestKept(q, l)'
    BY DEF RequestsKept
  <2>1. l \in Key
    BY DEF Grow
  <2>2. CASE q = p /\ l = k
    BY <2>2 DEF Outcome
  <2>3. CASE q # p \/ l # k
    <3>1. l \in requested[q]
      BY <2>3 DEF Grow
    <3>2. RequestKept(q, l)
      BY <3>1 DEF RequestsKept
    <3>3. consistency'[q][l] = consistency[q][l]
      BY <2>1, <2>3 DEF Outcome
    <3>4. AllAgree(q, l) => AllAgree(q, l)'
      BY <2>1, SameDataKept
    <3> QED
      BY <3>2, <3>3, <3>4 DEF RequestKept
  <2> QED
    BY <2>2, <2>3
<1>3. Agreement'
  <2> SUFFICES ASSUME NEW q \in Party, NEW l \in confirmed'[q]
               PROVE  AllAgree(q, l)'
    BY DEF Agreement
  <2>1. l \in Key
    BY DEF Outcome
  <2>2. CASE l \in confirmed[q]
    BY <2>1, <2>2, SameDataKept DEF Agreement
  <2>3. CASE l \in requested[q] /\ IsConsistent(consistency[q])'
    <3>1. RequestKept(q, l)'
      BY <1>2, <2>3 DEF RequestsKept, Grow
    <3> QED
      BY <2>1, <2>3, <3>1 DEF RequestKept, IsConsistent
  <2> QED
    BY <2>2, <2>3 DEF Outcome
<1> QED
  BY <1>1, <1>2, <1>3

\* Settling an entry that holds the truth leaves the truth, or nothing once all agree.
LEMMA SettleOutcome ==
  ASSUME TypeOK, NEW p \in Party, NEW k \in Key, NEW v \in Value,
         Grow(p, k), Settle(p, k, v), EntryTrue(p, k, v)',
         k \in requested'[p] => v.registered \/ AllAgree(p, k)'
  PROVE  Outcome(p, k)
<1> DEFINE w == IF IsDone(Check(v)) THEN Vacant ELSE Check(v)
           entries == [consistency[p] EXCEPT ![k] = w]
           answer == openRequests[p] /\ IsConsistent(entries)
<1>1. /\ consistency' = [consistency EXCEPT ![p] = entries]
      /\ openRequests' = [openRequests EXCEPT ![p] = @ /\ ~answer]
      /\ confirmed' = [confirmed EXCEPT ![p] = IF answer THEN @ \cup requested[p] ELSE @]
  BY DEF Settle
<1>2. PICK c \in Value : c = Check(v)
  BY CheckOK
<1>3. EntryTrue(p, k, c)'
  <2>1. /\ c.received = v.received
        /\ c.registered = v.registered
        /\ Keys(c) \subseteq Keys(v)
        /\ Arrived(c) \subseteq Arrived(v)
        /\ \A q \in Keys(c) : c.receivers[q] = v.receivers[q]
        /\ \A q \in Keys(v) \ Keys(c) : q \in Arrived(v) /\ v.receivers[q] = v.received /\ v.received \in Hash
    BY <1>2, CheckOK
  <2>2. \A q \in Arrived(c) : q \in Keys(c)
    BY DEF Arrived, Keys
  <2>3. \A q \in Arrived(c) : c.receivers[q] = received'[q][k]
    BY <2>1, <2>2 DEF EntryTrue
  <2>4. v.registered => \A q \in Others(p, k) : q \in Keys(c) \/ SameData(p, q, k)'
    <3> SUFFICES ASSUME v.registered, NEW q \in Others(p, k), q \in Keys(v), q \notin Keys(c)
                 PROVE  SameData(p, q, k)'
      BY DEF EntryTrue
    <3>1. v.receivers[q] = received'[q][k] /\ v.receivers[q] = v.received /\ v.received \in Hash
      BY <2>1 DEF EntryTrue
    <3>2. v.received = received'[p][k]
      BY <3>1, ConsistencyAssumption DEF EntryTrue
    <3> QED
      BY <3>1, <3>2 DEF SameData
  <2> QED
    BY <2>1, <2>3, <2>4 DEF EntryTrue
<1>4. IsDone(c) => AllAgree(p, k)'
  BY <1>3 DEF IsDone, EntryTrue, AllAgree
<1>5. entries \in [Key -> Value \cup {Vacant}] /\ w \in Value \cup {Vacant}
  BY <1>2 DEF TypeOK
<1>6. /\ consistency' \in [Party -> [Key -> Value \cup {Vacant}]]
      /\ openRequests' \in [Party -> BOOLEAN]
      /\ confirmed' \in [Party -> SUBSET Key]
  <2> HIDE DEF entries, answer
  <2> QED
    BY <1>1, <1>5 DEF TypeOK
<1>7. consistency'[p] = entries /\ consistency'[p][k] = w
  BY <1>1, <1>5 DEF TypeOK
<1>8. \A q \in Party, l \in Key : q # p \/ l # k => consistency'[q][l] = consistency[q][l]
  BY <1>1 DEF TypeOK
<1>9. consistency'[p][k] # Vacant => EntryTrue(p, k, consistency[p][k])'
  BY <1>2, <1>3, <1>7 DEF EntryTrue
<1>10. k \in requested'[p] => RequestKept(p, k)'
  <2>1. CASE IsDone(c)
    BY <1>4, <2>1 DEF RequestKept
  <2>2. CASE ~IsDone(c)
    BY <1>2, <1>7, <2>2, CheckOK, ConsistencyAssumption DEF RequestKept
  <2> QED
    BY <2>1, <2>2
<1>11. \A q \in Party : \/ confirmed'[q] = confirmed[q]
                       \/ /\ confirmed'[q] = confirmed[q] \cup requested[q]
                          /\ IsConsistent(consistency[q])'
  <2> SUFFICES ASSUME NEW q \in Party, confirmed'[q] # confirmed[q]
               PROVE  /\ confirmed'[q] = confirmed[q] \cup requested[q]
                      /\ IsConsistent(consistency[q])'
    OBVIOUS
  <2>1. q = p /\ answer
    <3> HIDE DEF answer
    <3> QED
      BY <1>1 DEF TypeOK
  <2> QED
    BY <1>1, <1>7, <2>1 DEF TypeOK, IsConsistent
<1> QED
  BY <1>6, <1>8, <1>9, <1>10, <1>11 DEF Outcome

\* The Entry::Vacant branch of a handler.
LEMMA InsertOutcome ==
  ASSUME TypeOK, NEW p \in Party, NEW k \in Key, NEW v \in Value,
         Grow(p, k), Insert(p, k, v), EntryTrue(p, k, v)',
         k \in requested'[p] => v.registered \/ AllAgree(p, k)'
  PROVE  Outcome(p, k) /\ notify' = notify
<1>1. /\ consistency' \in [Party -> [Key -> Value \cup {Vacant}]]
      /\ consistency'[p][k] = v
      /\ \A q \in Party, l \in Key : q # p \/ l # k => consistency'[q][l] = consistency[q][l]
  BY DEF Insert, TypeOK
<1>2. k \in requested'[p] => RequestKept(p, k)'
  BY <1>1, ConsistencyAssumption DEF RequestKept
<1>3. EntryTrue(p, k, consistency[p][k])'
  BY <1>1 DEF EntryTrue
<1> QED
  BY <1>1, <1>2, <1>3 DEF Insert, Outcome, TypeOK

\* Whom p's task still has to tell about k.
NotifyOutcome(p, k) ==
  /\ notify' \in [Party -> [Key -> SUBSET Party]]
  /\ \A q \in Party, l \in Key : q # p \/ l # k => notify'[q][l] = notify[q][l]
  /\ notify'[p][k] # {} =>
       /\ consistency'[p][k] # Vacant
       /\ consistency'[p][k].received # None
       /\ p \in Receivers[k]
       /\ notify'[p][k] \subseteq Others(p, k)

\* notify_parties runs only with data that is there (data() does not panic).
LEMMA NotifyKept ==
  ASSUME NotifyReady, NEW p \in Party, NEW k \in Key, Outcome(p, k), NotifyOutcome(p, k)
  PROVE  NotifyReady'
<1> SUFFICES ASSUME NEW q \in Party, NEW l \in Key, notify'[q][l] # {}
             PROVE  /\ consistency'[q][l] # Vacant
                    /\ consistency'[q][l].received # None
                    /\ q \in Receivers[l]
                    /\ notify'[q][l] \subseteq Others(q, l)
  BY DEF NotifyReady
<1>1. CASE q = p /\ l = k
  BY <1>1 DEF NotifyOutcome
<1>2. CASE q # p \/ l # k
  <2>1. notify'[q][l] = notify[q][l] /\ consistency'[q][l] = consistency[q][l]
    BY <1>2 DEF NotifyOutcome, Outcome
  <2> QED
    BY <2>1 DEF NotifyReady
<1> QED
  BY <1>1, <1>2

\* The Entry::Occupied branch of a handler: notify_parties, check and notify_requests.
LEMMA ProceedOutcome ==
  ASSUME TypeOK, NEW p \in Party, NEW k \in Key, NEW v \in Value, NEW rs \in SUBSET Others(p, k),
         Idle(p), p \in Receivers[k], rs # {} => v.received # None,
         Grow(p, k), Proceed(p, k, v, rs), EntryTrue(p, k, v)',
         k \in requested'[p] => v.registered \/ AllAgree(p, k)'
  PROVE  Outcome(p, k) /\ NotifyOutcome(p, k)
<1>1. CASE rs # {}
  <2>1. consistency' = [consistency EXCEPT ![p][k] = v]
    BY <1>1 DEF Proceed
  <2>2. /\ consistency' \in [Party -> [Key -> Value \cup {Vacant}]]
        /\ consistency'[p][k] = v
        /\ \A q \in Party, l \in Key : q # p \/ l # k => consistency'[q][l] = consistency[q][l]
    BY <2>1 DEF TypeOK
  <2>3. openRequests' = openRequests /\ confirmed' = confirmed
    BY <1>1 DEF Proceed
  <2>4. k \in requested'[p] => RequestKept(p, k)'
    BY <2>2, ConsistencyAssumption DEF RequestKept
  <2>5. EntryTrue(p, k, consistency[p][k])'
    BY <2>2 DEF EntryTrue
  <2>6. Outcome(p, k)
    BY <2>2, <2>3, <2>4, <2>5 DEF Outcome, TypeOK
  <2>7. notify' = [notify EXCEPT ![p][k] = rs]
    BY <1>1 DEF Proceed
  <2>8. rs \in SUBSET Party
    BY ConsistencyAssumption DEF Others
  <2>9. notify' \in [Party -> [Key -> SUBSET Party]] /\ notify'[p][k] = rs
    BY <2>7, <2>8 DEF TypeOK
  <2>10. \A q \in Party, l \in Key : q # p \/ l # k => notify'[q][l] = notify[q][l]
    BY <2>7 DEF TypeOK
  <2> QED
    BY <1>1, <2>2, <2>6, <2>9, <2>10, ConsistencyAssumption DEF NotifyOutcome
<1>2. CASE rs = {}
  <2>1. Settle(p, k, v) /\ notify' = notify
    BY <1>2 DEF Proceed
  <2>2. Outcome(p, k)
    BY <2>1, SettleOutcome
  <2> QED
    BY <2>1, <2>2 DEF NotifyOutcome, Idle, TypeOK
<1> QED
  BY <1>1, <1>2

-----------------------------------------------------------------------------
(* Actions *)

\* What every action establishes for the message it is about.
ActionOutcome(p, k) ==
  /\ Grow(p, k)
  /\ Outcome(p, k)
  /\ NotifyOutcome(p, k)
  /\ checks' \subseteq Checks
  /\ ChecksTrue'
  /\ failures' \in Nat

\* Checks in flight stay true when no check is sent.
LEMMA ChecksKept ==
  ASSUME TypeOK, ChecksTrue, NEW p \in Party, NEW k \in Key, Grow(p, k), checks' \subseteq checks
  PROVE  checks' \subseteq Checks /\ ChecksTrue'
<1> SUFFICES ASSUME NEW c \in checks'
             PROVE  /\ c \in Checks
                    /\ c.from \in Others(c.to, c.key)
                    /\ received'[c.from][c.key] = c.hash
  BY DEF ChecksTrue
<1>1. c \in Checks /\ c \in checks
  BY DEF TypeOK
<1>2. received[c.from][c.key] = c.hash /\ c.from \in Others(c.to, c.key)
  BY <1>1 DEF ChecksTrue
<1>3. received[c.from][c.key] # None /\ c.from \in Party /\ c.key \in Key
  BY <1>1, <1>2, ConsistencyAssumption DEF Checks
<1> QED
  BY <1>1, <1>2, <1>3 DEF Grow

\* ConsistencyCheckCommand::Request.
LEMMA RequestStep ==
  ASSUME AgreementInv, NEW p \in Party, NEW k \in Key, Request(p, k)
  PROVE  ActionOutcome(p, k)
<1> DEFINE rs == Others(p, k)
<1>1. Grow(p, k)
  BY DEF AgreementInv, TypeOK, Request, Grow
<1>2. k \in requested'[p] /\ received' = received
  BY DEF AgreementInv, TypeOK, Request
<1>3. rs \in SUBSET Party
  BY ConsistencyAssumption DEF Others
<1>4. Outcome(p, k) /\ NotifyOutcome(p, k)
  <2>1. CASE consistency[p][k] = Vacant
    <3>1. PICK v \in Value : v = NewRequest(rs)
      BY ConstructorsOK, ConsistencyAssumption DEF NewRequest, Value
    <3>2. v.received = None /\ v.registered /\ Keys(v) = rs /\ Arrived(v) = {}
      BY <1>3, <3>1, ConsistencyAssumption DEF NewRequest, Keys, Arrived
    <3>3. EntryTrue(p, k, v)'
      BY <1>2, <3>2 DEF EntryTrue
    <3>4. Insert(p, k, v)
      BY <2>1, <3>1 DEF Request
    <3>5. Outcome(p, k) /\ notify' = notify
      BY <1>1, <3>2, <3>3, <3>4, InsertOutcome DEF AgreementInv
    <3> QED
      BY <3>5 DEF NotifyOutcome, Request, Idle, AgreementInv, TypeOK
  <2>2. CASE consistency[p][k] # Vacant
    <3>1. PICK v \in Value : v = consistency[p][k]
      BY <2>2 DEF AgreementInv, TypeOK
    <3>2. EntryTrue(p, k, v)
      BY <2>2, <3>1 DEF AgreementInv, EntriesTrue
    <3>3. ~v.registered /\ Keys(v) \subseteq rs
      BY <3>2 DEF EntryTrue, Request
    <3>4. PICK w \in Value : w = Register(v, rs)
      BY <1>3, RegisterOK
    <3>5. /\ w.received = v.received
          /\ w.registered
          /\ Keys(w) = rs
          /\ Arrived(w) = Arrived(v) \cap rs
          /\ \A q \in Arrived(w) : w.receivers[q] = v.receivers[q]
      BY <1>3, <3>3, <3>4, RegisterOK
    <3>6. EntryTrue(p, k, w)'
      BY <1>2, <3>2, <3>5 DEF EntryTrue
    <3>7. PICK to \in SUBSET rs : to = IF RegisterReady(v, rs) THEN rs ELSE {}
      OBVIOUS
    <3>8. Proceed(p, k, w, to)
      BY <2>2, <3>1, <3>4, <3>7 DEF Request
    <3>9. to # {} => w.received # None
      BY <3>5, <3>7 DEF RegisterReady
    <3> QED
      BY <1>1, <3>5, <3>6, <3>8, <3>9, ProceedOutcome DEF Request, AgreementInv
  <2> QED
    BY <2>1, <2>2
<1>5. checks' \subseteq Checks /\ ChecksTrue'
  BY <1>1, ChecksKept DEF Request, AgreementInv
<1> QED
  BY <1>1, <1>4, <1>5 DEF ActionOutcome, Request, AgreementInv, TypeOK

\* ConsistencyCheckCommand::ReceivedData.
LEMMA ReceivedDataStep ==
  ASSUME AgreementInv, NEW p \in Party, NEW k \in Key, NEW h \in Hash, ReceivedData(p, k, h)
  PROVE  ActionOutcome(p, k)
<1>1. Grow(p, k)
  BY DEF AgreementInv, TypeOK, ReceivedData, Grow
<1>2. requested' = requested /\ received'[p][k] = h /\ received[p][k] = None
  BY DEF AgreementInv, TypeOK, ReceivedData
<1>3. k \in requested'[p] =>
        (consistency[p][k] # Vacant /\ consistency[p][k].registered) \/ AllAgree(p, k)'
  BY <1>1, <1>2, SameDataKept DEF AgreementInv, RequestsKept, RequestKept
<1>4. Outcome(p, k) /\ NotifyOutcome(p, k)
  <2>1. CASE consistency[p][k] = Vacant
    <3>1. PICK v \in Value : v = NewReceivedData(h)
      BY ConstructorsOK
    <3>2. v.received = h /\ ~v.registered /\ Keys(v) = {} /\ Arrived(v) = {}
      BY <3>1, ConsistencyAssumption DEF NewReceivedData, Keys, Arrived
    <3>3. EntryTrue(p, k, v)'
      BY <1>2, <3>2 DEF EntryTrue
    <3>4. Insert(p, k, v)
      BY <2>1, <3>1 DEF ReceivedData
    <3>5. Outcome(p, k) /\ notify' = notify
      BY <1>1, <1>3, <2>1, <3>2, <3>3, <3>4, InsertOutcome DEF AgreementInv
    <3> QED
      BY <3>5 DEF NotifyOutcome, ReceivedData, Idle, AgreementInv, TypeOK
  <2>2. CASE consistency[p][k] # Vacant
    <3>1. PICK v \in Value : v = consistency[p][k]
      BY <2>2 DEF AgreementInv, TypeOK
    <3>2. EntryTrue(p, k, v)
      BY <2>2, <3>1 DEF AgreementInv, EntriesTrue
    <3>3. v.received = None
      BY <1>2, <3>2 DEF EntryTrue
    <3>4. PICK w \in Value : w = ReceiveData(v, h)
      BY ReceiveDataOK
    <3>5. w.received = h /\ w.registered = v.registered /\ w.receivers = v.receivers
      BY <3>3, <3>4, ReceiveDataOK
    <3>6. Keys(w) = Keys(v) /\ Arrived(w) = Arrived(v)
      BY <3>5 DEF Keys, Arrived
    <3>7. EntryTrue(p, k, v)'
      BY <1>1, <3>2, EntryTrueKept DEF AgreementInv
    <3>8. EntryTrue(p, k, w)'
      BY <1>2, <3>5, <3>6, <3>7 DEF EntryTrue
    <3>9. PICK to \in SUBSET Others(p, k) :
            to = IF v.received = None /\ v.registered THEN Keys(v) ELSE {}
      BY <3>2 DEF EntryTrue
    <3>10. Proceed(p, k, w, to)
      BY <2>2, <3>1, <3>4, <3>9 DEF ReceivedData
    <3>11. w.received # None
      BY <3>5, ConsistencyAssumption
    <3>12. k \in requested'[p] => w.registered \/ AllAgree(p, k)'
      BY <1>3, <3>1, <3>5
    <3> QED
      BY <1>1, <3>8, <3>10, <3>11, <3>12, ProceedOutcome DEF ReceivedData, AgreementInv
  <2> QED
    BY <2>1, <2>2
<1>5. checks' \subseteq Checks /\ ChecksTrue'
  BY <1>1, ChecksKept DEF ReceivedData, AgreementInv
<1> QED
  BY <1>1, <1>4, <1>5 DEF ActionOutcome, ReceivedData, AgreementInv, TypeOK

\* ConsistencyCheckCommand::ReceivedCheck.
LEMMA ReceivedCheckStep ==
  ASSUME AgreementInv, NEW p \in Party, NEW c \in checks, ReceivedCheck(p, c)
  PROVE  ActionOutcome(p, c.key)
<1> DEFINE k == c.key
<1>1. c \in Checks /\ c.to = p /\ k \in Key /\ c.from \in Party /\ c.hash \in Hash
  BY DEF AgreementInv, TypeOK, Checks, ReceivedCheck
<1>2. c.from \in Others(p, k) /\ received[c.from][k] = c.hash
  BY <1>1 DEF AgreementInv, ChecksTrue
<1>3. received' = received /\ requested' = requested
  BY DEF ReceivedCheck
<1>4. Grow(p, k)
  BY <1>3 DEF Grow, AgreementInv, TypeOK
<1>5. k \in requested'[p] =>
        (consistency[p][k] # Vacant /\ consistency[p][k].registered) \/ AllAgree(p, k)'
  BY <1>1, <1>3, <1>4, SameDataKept DEF AgreementInv, RequestsKept, RequestKept
<1>6. Outcome(p, k) /\ notify' = notify
  <2>1. CASE consistency[p][k] = Vacant
    <3>1. PICK v \in Value : v = NewReceived(c.from, c.hash)
      BY <1>1, ConstructorsOK
    <3>2. /\ v.received = None
          /\ ~v.registered
          /\ Keys(v) = {c.from}
          /\ \A q \in Arrived(v) : q = c.from /\ v.receivers[q] = c.hash
      BY <1>1, <3>1, ConsistencyAssumption DEF NewReceived, Keys, Arrived
    <3>3. EntryTrue(p, k, v)'
      BY <1>2, <1>3, <3>2 DEF EntryTrue
    <3>4. Insert(p, k, v)
      BY <2>1, <3>1 DEF ReceivedCheck
    <3> QED
      BY <1>1, <1>4, <1>5, <2>1, <3>2, <3>3, <3>4, InsertOutcome DEF AgreementInv
  <2>2. CASE consistency[p][k] # Vacant
    <3>1. PICK v \in Value : v = consistency[p][k]
      BY <1>1, <2>2 DEF AgreementInv, TypeOK
    <3>2. EntryTrue(p, k, v)
      BY <1>1, <2>2, <3>1 DEF AgreementInv, EntriesTrue
    <3> DEFINE q == c.from
               h == c.hash
    <3>3. q \in Party /\ h \in Hash
      BY <1>1
    <3> HIDE DEF q, h
    <3>4. PICK w \in Value : w = Receive(v, q, h)
      BY <3>3, ReceiveOK
    <3>5. /\ w.received = v.received
          /\ w.registered = v.registered
          /\ Keys(v) \subseteq Keys(w)
          /\ Keys(w) \subseteq Keys(v) \cup {q}
          /\ \A r \in Arrived(w) :
               \/ r \in Arrived(v) /\ w.receivers[r] = v.receivers[r]
               \/ r = q /\ w.receivers[r] = h
      BY <3>3, <3>4, ReceiveOK
    <3>6. q \in Others(p, k) /\ received'[q][k] = h
      BY <1>2, <1>3 DEF q, h
    <3>7. EntryTrue(p, k, v)'
      BY <1>1, <1>4, <3>2, EntryTrueKept DEF AgreementInv
    <3>8. EntryTrue(p, k, w)'
      BY <3>5, <3>6, <3>7 DEF EntryTrue
    <3>9. Settle(p, k, w) /\ notify' = notify
      BY <2>2, <3>1, <3>4 DEF ReceivedCheck, q, h
    <3>10. k \in requested'[p] => w.registered \/ AllAgree(p, k)'
      BY <1>5, <3>1, <3>5
    <3> QED
      BY <1>1, <1>4, <3>8, <3>9, <3>10, SettleOutcome DEF AgreementInv
  <2> QED
    BY <2>1, <2>2
<1>7. NotifyOutcome(p, k)
  BY <1>1, <1>6 DEF NotifyOutcome, ReceivedCheck, Idle, AgreementInv, TypeOK
<1>8. checks' \subseteq Checks /\ ChecksTrue'
  BY <1>1, <1>4, ChecksKept DEF ReceivedCheck, AgreementInv
<1> QED
  BY <1>4, <1>6, <1>7, <1>8 DEF ActionOutcome, ReceivedCheck, AgreementInv, TypeOK

\* Common to NotifyParty and NotifyFails: rs are the parties left to tell.
LEMMA NotifyDoneOutcome ==
  ASSUME AgreementInv, NEW p \in Party, NEW k \in Key, NEW rs \in SUBSET Party,
         notify[p][k] # {}, rs \subseteq notify[p][k], NotifyDone(p, k, rs)
  PROVE  Grow(p, k) /\ Outcome(p, k) /\ NotifyOutcome(p, k)
<1>1. Grow(p, k)
  BY DEF NotifyDone, Grow, AgreementInv, TypeOK
<1>2. consistency[p][k] # Vacant /\ consistency[p][k].received # None
      /\ p \in Receivers[k] /\ notify[p][k] \subseteq Others(p, k)
  BY DEF AgreementInv, NotifyReady
<1>3. PICK v \in Value : v = consistency[p][k]
  BY <1>2 DEF AgreementInv, TypeOK
<1>4. EntryTrue(p, k, v)
  BY <1>2, <1>3 DEF AgreementInv, EntriesTrue
<1>5. EntryTrue(p, k, v)'
  BY <1>1, <1>4, EntryTrueKept DEF AgreementInv
<1>6. k \in requested'[p] => v.registered \/ AllAgree(p, k)'
  BY <1>1, <1>3, SameDataKept DEF NotifyDone, AgreementInv, RequestsKept, RequestKept
<1>7. notify' = [notify EXCEPT ![p][k] = rs]
  BY DEF NotifyDone
<1>8. notify' \in [Party -> [Key -> SUBSET Party]] /\ notify'[p][k] = rs
      /\ \A q \in Party, l \in Key : q # p \/ l # k => notify'[q][l] = notify[q][l]
  BY <1>7 DEF AgreementInv, TypeOK
<1>9. CASE rs # {}
  <2>1. consistency' = consistency /\ openRequests' = openRequests /\ confirmed' = confirmed
    BY <1>9 DEF NotifyDone
  <2>2. EntryTrue(p, k, consistency[p][k])'
    BY <1>3, <1>5, <2>1 DEF EntryTrue
  <2>3. k \in requested'[p] => RequestKept(p, k)'
    BY <1>2, <1>3, <1>6, <2>1 DEF RequestKept
  <2>4. Outcome(p, k)
    BY <2>1, <2>2, <2>3 DEF Outcome, AgreementInv, TypeOK
  <2> QED
    BY <1>1, <1>2, <1>8, <2>1, <2>4 DEF NotifyOutcome
<1>10. CASE rs = {}
  <2>1. Settle(p, k, v)
    BY <1>3, <1>10 DEF NotifyDone
  <2>2. Outcome(p, k)
    BY <1>1, <1>5, <1>6, <2>1, SettleOutcome DEF AgreementInv
  <2> QED
    BY <1>1, <1>8, <1>10, <2>2 DEF NotifyOutcome
<1> QED
  BY <1>9, <1>10

\* notify_parties has written one check.
LEMMA NotifyPartyStep ==
  ASSUME AgreementInv, NEW p \in Party, NEW k \in Key, NEW q \in Party, NotifyParty(p, k, q)
  PROVE  ActionOutcome(p, k)
<1>1. q \in notify[p][k] /\ NotifyDone(p, k, notify[p][k] \ {q}) /\ failures' = failures
  BY DEF NotifyParty
<1>2. notify[p][k] \in SUBSET Party
  BY DEF AgreementInv, TypeOK
<1>3. Grow(p, k) /\ Outcome(p, k) /\ NotifyOutcome(p, k)
  BY <1>1, <1>2, NotifyDoneOutcome DEF NotifyParty
<1> DEFINE c == [from |-> p, to |-> q, key |-> k, hash |-> consistency[p][k].received]
<1>4. checks' = checks \cup {c} /\ received' = received
  BY DEF NotifyParty, NotifyDone
<1>5. PICK v \in Value : v = consistency[p][k] /\ v.received # None /\ EntryTrue(p, k, v)
                       /\ q \in Others(p, k) /\ p \in Receivers[k]
  BY <1>1 DEF AgreementInv, TypeOK, NotifyReady, EntriesTrue
<1>6. v.received \in Hash /\ received[p][k] = v.received
  BY <1>5 DEF Value, EntryTrue
<1>7. c \in Checks
  BY <1>5, <1>6 DEF Checks
<1>8. checks' \subseteq Checks
  BY <1>4, <1>7 DEF AgreementInv, TypeOK
<1>9. p \in Others(q, k)
  BY <1>5 DEF Others
<1>10. ChecksTrue'
  BY <1>4, <1>5, <1>6, <1>9 DEF AgreementInv, ChecksTrue
<1> QED
  BY <1>1, <1>3, <1>8, <1>10 DEF ActionOutcome, AgreementInv, TypeOK

\* notify_parties gives up; the handler goes on.
LEMMA NotifyFailsStep ==
  ASSUME AgreementInv, NEW p \in Party, NEW k \in Key, NotifyFails(p, k)
  PROVE  ActionOutcome(p, k)
<1>1. Grow(p, k) /\ Outcome(p, k) /\ NotifyOutcome(p, k)
  BY NotifyDoneOutcome DEF NotifyFails
<1>2. checks' \subseteq Checks /\ ChecksTrue'
  BY <1>1, ChecksKept DEF NotifyFails, AgreementInv
<1>3. failures' \in Nat
  BY DEF NotifyFails, AgreementInv, TypeOK
<1> QED
  BY <1>1, <1>2, <1>3 DEF ActionOutcome

\* An action that establishes ActionOutcome keeps the invariant.
LEMMA ActionKeeps ==
  ASSUME AgreementInv, NEW p \in Party, NEW k \in Key, ActionOutcome(p, k)
  PROVE  AgreementInv'
<1>1. EntriesTrue' /\ RequestsKept' /\ Agreement'
  BY StepKeeps DEF AgreementInv, ActionOutcome
<1>2. NotifyReady'
  BY NotifyKept DEF AgreementInv, ActionOutcome
<1>3. TypeOK'
  BY DEF ActionOutcome, Grow, Outcome, NotifyOutcome, TypeOK
<1> QED
  BY <1>1, <1>2, <1>3 DEF AgreementInv, ActionOutcome

\* LoseCheck: a lost check changes nothing that is already known.
LEMMA LoseCheckKeeps ==
  ASSUME AgreementInv, NEW c \in checks, LoseCheck(c)
  PROVE  AgreementInv'
<1>1. TypeOK' /\ ChecksTrue'
  BY DEF LoseCheck, AgreementInv, TypeOK, ChecksTrue
<1>2. EntriesTrue'
  BY DEF LoseCheck, AgreementInv, EntriesTrue, EntryTrue, SameData
<1>3. RequestsKept' /\ NotifyReady' /\ Agreement'
  BY DEF LoseCheck, AgreementInv, RequestsKept, RequestKept, NotifyReady, Agreement, AllAgree, SameData
<1> QED
  BY <1>1, <1>2, <1>3 DEF AgreementInv

\* ConsistencyCheckCommand::Wait: without open checks, all that was asked for agrees.
LEMMA WaitKeeps ==
  ASSUME AgreementInv, NEW p \in Party, Wait(p)
  PROVE  AgreementInv'
<1>1. TypeOK' /\ ChecksTrue'
  BY DEF Wait, AgreementInv, TypeOK, ChecksTrue
<1>2. EntriesTrue'
  BY DEF Wait, AgreementInv, EntriesTrue, EntryTrue, SameData
<1>3. RequestsKept' /\ NotifyReady'
  BY DEF Wait, AgreementInv, RequestsKept, RequestKept, NotifyReady, AllAgree, SameData
<1>4. Agreement'
  <2> SUFFICES ASSUME NEW q \in Party, NEW k \in confirmed'[q]
               PROVE  AllAgree(q, k)'
    BY DEF Agreement
  <2>1. AllAgree(q, k) => AllAgree(q, k)'
    BY DEF Wait, AllAgree, SameData
  <2>2. CASE k \in confirmed[q]
    BY <2>1, <2>2 DEF AgreementInv, Agreement
  <2>3. CASE k \notin confirmed[q]
    <3>1. q = p /\ IsConsistent(consistency[p]) /\ k \in requested[p] /\ k \in Key
      BY <2>3 DEF Wait, AgreementInv, TypeOK
    <3> QED
      BY <2>1, <3>1 DEF AgreementInv, RequestsKept, RequestKept, IsConsistent
  <2> QED
    BY <2>2, <2>3
<1> QED
  BY <1>1, <1>2, <1>3, <1>4 DEF AgreementInv

\* Before the first command the maps are empty and nothing is vouched for.
LEMMA InitAgrees == Init => AgreementInv
<1> SUFFICES ASSUME Init PROVE AgreementInv
  OBVIOUS
<1>1. TypeOK
  BY DEF Init, TypeOK
<1>2. ChecksTrue /\ EntriesTrue /\ RequestsKept /\ NotifyReady /\ Agreement
  BY DEF Init, ChecksTrue, EntriesTrue, RequestsKept, NotifyReady, Agreement
<1> QED
  BY <1>1, <1>2 DEF AgreementInv

\* Every step of every party's task, and every loss, keeps the invariant.
LEMMA NextKeeps == AgreementInv /\ [Next]_vars => AgreementInv'
<1> SUFFICES ASSUME AgreementInv, [Next]_vars PROVE AgreementInv'
  OBVIOUS
<1>1. ASSUME NEW p \in Party, NEW k \in Key, Request(p, k) PROVE AgreementInv'
  BY <1>1, RequestStep, ActionKeeps
<1>2. ASSUME NEW p \in Party, NEW k \in Key, NEW h \in Payload(k), ReceivedData(p, k, h)
      PROVE  AgreementInv'
  <2>1. h \in Hash
    BY ConsistencyAssumption DEF Payload
  <2> QED
    BY <1>2, <2>1, ReceivedDataStep, ActionKeeps
<1>3. ASSUME NEW p \in Party, NEW k \in Key, NEW q \in Party, NotifyParty(p, k, q)
      PROVE  AgreementInv'
  BY <1>3, NotifyPartyStep, ActionKeeps
<1>4. ASSUME NEW p \in Party, NEW k \in Key, NotifyFails(p, k) PROVE AgreementInv'
  BY <1>4, NotifyFailsStep, ActionKeeps
<1>5. ASSUME NEW c \in checks, NEW p \in Party, ReceivedCheck(p, c) PROVE AgreementInv'
  <2>1. c.key \in Key
    BY DEF AgreementInv, TypeOK, Checks
  <2> QED
    BY <1>5, <2>1, ReceivedCheckStep, ActionKeeps
<1>6. ASSUME NEW c \in checks, LoseCheck(c) PROVE AgreementInv'
  BY <1>6, LoseCheckKeeps
<1>7. ASSUME NEW p \in Party, Wait(p) PROVE AgreementInv'
  BY <1>7, WaitKeeps
<1>8. CASE UNCHANGED vars
  BY <1>8 DEF vars, AgreementInv, TypeOK, ChecksTrue, EntriesTrue, EntryTrue, RequestsKept,
              RequestKept, NotifyReady, Agreement, AllAgree, SameData
<1> QED
  BY <1>1, <1>2, <1>3, <1>4, <1>5, <1>6, <1>7, <1>8 DEF Next

-----------------------------------------------------------------------------
(* Waiters: an open request comes with an open check *)

\* An entry that stays, with its check open if it was, keeps p's and the others' waiters waiting.
LEMMA StoreWaits ==
  ASSUME TypeOK, WaitersWait, NEW p \in Party, NEW k \in Key, NEW v \in Value,
         consistency[p][k] # Vacant => (consistency[p][k].registered => v.registered),
         consistency' = [consistency EXCEPT ![p][k] = v], openRequests' = openRequests
  PROVE  WaitersWait'
<1> SUFFICES ASSUME NEW q \in Party, openRequests'[q]
             PROVE  \E l \in Key : consistency'[q][l] # Vacant /\ consistency'[q][l].registered
  BY DEF WaitersWait, IsConsistent
<1>1. PICK l \in Key : consistency[q][l] # Vacant /\ consistency[q][l].registered
  BY DEF WaitersWait, IsConsistent
<1>2. v # Vacant
  BY ConsistencyAssumption
<1>3. consistency'[q][l] = IF q = p /\ l = k THEN v ELSE consistency[q][l]
  BY DEF TypeOK
<1> QED
  BY <1>1, <1>2, <1>3

\* notify_requests looks at the map as the handler leaves it.
LEMMA SettleWaits ==
  ASSUME TypeOK, WaitersWait, NEW p \in Party, NEW k \in Key, NEW v, Settle(p, k, v)
  PROVE  WaitersWait'
<1> DEFINE entries == [consistency[p] EXCEPT ![k] = IF IsDone(Check(v)) THEN Vacant ELSE Check(v)]
           answer  == openRequests[p] /\ IsConsistent(entries)
<1>1. /\ consistency' = [consistency EXCEPT ![p] = entries]
      /\ openRequests' = [openRequests EXCEPT ![p] = @ /\ ~answer]
  BY DEF Settle
<1>2. ASSUME NEW q \in Party, q # p PROVE openRequests'[q] = openRequests[q] /\ consistency'[q] = consistency[q]
  BY <1>1, <1>2 DEF TypeOK
<1>3. consistency'[p] = entries /\ (openRequests'[p] => openRequests[p] /\ ~answer)
  BY <1>1 DEF TypeOK
<1>4. openRequests'[p] => ~IsConsistent(consistency[p])'
  BY <1>3 DEF IsConsistent
<1>5. ASSUME NEW q \in Party, q # p PROVE openRequests'[q] => ~IsConsistent(consistency[q])'
  BY <1>2, <1>5 DEF WaitersWait, IsConsistent
<1> QED
  BY <1>4, <1>5 DEF WaitersWait

\* Both ends of a handler that found an entry.
LEMMA ProceedWaits ==
  ASSUME TypeOK, WaitersWait, NEW p \in Party, NEW k \in Key, NEW v \in Value, NEW rs,
         consistency[p][k].registered => v.registered, Proceed(p, k, v, rs)
  PROVE  WaitersWait'
<1>1. CASE rs # {}
  BY <1>1, StoreWaits DEF Proceed
<1>2. CASE rs = {}
  BY <1>2, SettleWaits DEF Proceed
<1> QED
  BY <1>1, <1>2

\* No step takes the open checks of a waiter away without answering it.
LEMMA NextWaits == TypeOK /\ WaitersWait /\ [Next]_vars => WaitersWait'
<1> SUFFICES ASSUME TypeOK, WaitersWait, [Next]_vars PROVE WaitersWait'
  OBVIOUS
<1>1. ASSUME NEW p \in Party, NEW k \in Key, Request(p, k) PROVE WaitersWait'
  <2>1. Others(p, k) \in SUBSET Party
    BY ConsistencyAssumption DEF Others
  <2>2. CASE consistency[p][k] = Vacant
    <3>1. PICK v \in Value : v = NewRequest(Others(p, k))
      BY <2>1, ConsistencyAssumption DEF NewRequest, Value
    <3> QED
      BY <1>1, <2>2, <3>1, StoreWaits DEF Request, Insert
  <2>3. CASE consistency[p][k] # Vacant
    <3>1. PICK v \in Value : v = consistency[p][k]
      BY <2>3 DEF TypeOK
    <3>2. PICK w \in Value : w = Register(v, Others(p, k))
      BY <2>1, RegisterOK
    <3>3. v.registered => w.registered
      BY <2>1, <3>2, RegisterOK
    <3> QED
      BY <1>1, <2>3, <3>1, <3>2, <3>3, ProceedWaits DEF Request
  <2> QED
    BY <2>2, <2>3
<1>2. ASSUME NEW p \in Party, NEW k \in Key, NEW h \in Payload(k), ReceivedData(p, k, h)
      PROVE  WaitersWait'
  <2>1. h \in Hash
    BY ConsistencyAssumption DEF Payload
  <2>2. CASE consistency[p][k] = Vacant
    <3>1. PICK v \in Value : v = NewReceivedData(h)
      BY <2>1, ConsistencyAssumption DEF NewReceivedData, Value
    <3> QED
      BY <1>2, <2>2, <3>1, StoreWaits DEF ReceivedData, Insert
  <2>3. CASE consistency[p][k] # Vacant
    <3>1. PICK v \in Value : v = consistency[p][k]
      BY <2>3 DEF TypeOK
    <3>2. PICK w \in Value : w = ReceiveData(v, h) /\ w.registered = v.registered
      BY <2>1, ReceiveDataOK
    <3> QED
      BY <1>2, <2>3, <3>1, <3>2, ProceedWaits DEF ReceivedData
  <2> QED
    BY <2>2, <2>3
<1>3. ASSUME NEW p \in Party, NEW k \in Key, NEW rs, NotifyDone(p, k, rs) PROVE WaitersWait'
  <2>1. CASE rs = {}
    BY <1>3, <2>1, SettleWaits DEF NotifyDone
  <2>2. CASE rs # {}
    BY <1>3, <2>2 DEF NotifyDone, WaitersWait, IsConsistent
  <2> QED
    BY <2>1, <2>2
<1>4. ASSUME NEW p \in Party, NEW c \in checks, ReceivedCheck(p, c) PROVE WaitersWait'
  <2>1. c.key \in Key /\ c.from \in Party /\ c.hash \in Hash
    BY DEF TypeOK, Checks
  <2>2. CASE consistency[p][c.key] = Vacant
    <3>1. PICK v \in Value : v = NewReceived(c.from, c.hash)
      BY <2>1, ConsistencyAssumption DEF NewReceived, Value
    <3> QED
      BY <1>4, <2>1, <2>2, <3>1, StoreWaits DEF ReceivedCheck, Insert
  <2>3. CASE consistency[p][c.key] # Vacant
    BY <1>4, <2>1, <2>3, SettleWaits DEF ReceivedCheck
  <2> QED
    BY <2>2, <2>3
<1>5. ASSUME NEW c \in checks, LoseCheck(c) PROVE WaitersWait'
  BY <1>5 DEF LoseCheck, WaitersWait, IsConsistent
<1>6. ASSUME NEW p \in Party, Wait(p) PROVE WaitersWait'
  BY <1>6 DEF Wait, WaitersWait, IsConsistent, TypeOK
<1>7. CASE UNCHANGED vars
  BY <1>7 DEF vars, WaitersWait, IsConsistent
<1> QED
  BY <1>1, <1>2, <1>3, <1>4, <1>5, <1>6, <1>7 DEF Next, NotifyParty, NotifyFails

-----------------------------------------------------------------------------
(* Telling: a check is sent once, to a party that still expects it *)

\* v says exactly what p's task was asked and given about k.
ValueExact(p, k, v) ==
  /\ v.received = received[p][k]
  /\ v.registered <=> k \in requested[p]
  /\ ~v.registered => \A q \in Party : v.receivers[q] # None

\* An entry v has room for a check of q.
Takes(v, q) == v.receivers[q] = IF v.registered THEN None ELSE Absent

\* p's entry for k changes to what v says, or is gone because v says it is over.
EntryOutcome(p, k, v) ==
  /\ \A q \in Party, l \in Key : q # p \/ l # k => consistency'[q][l] = consistency[q][l]
  /\ EntryExact(p, k)'
  /\ \A q \in Party : Expects(p, q, k)' <=> Takes(v, q)

\* An entry that is stored as it is.
LEMMA StoreExact ==
  ASSUME TypeOK, NEW p \in Party, NEW k \in Key, NEW v \in Value, ValueExact(p, k, v)',
         consistency' = [consistency EXCEPT ![p][k] = v]
  PROVE  EntryOutcome(p, k, v)
<1>1. consistency'[p][k] = v /\ v # Vacant
  BY ConsistencyAssumption DEF TypeOK
<1>2. \A q \in Party, l \in Key : q # p \/ l # k => consistency'[q][l] = consistency[q][l]
  BY DEF TypeOK
<1>3. EntryExact(p, k)'
  BY <1>1 DEF EntryExact, ValueExact
<1>4. \A q \in Party : Expects(p, q, k)' <=> Takes(v, q)
  BY <1>1 DEF Expects, Takes
<1> QED
  BY <1>2, <1>3, <1>4 DEF EntryOutcome

\* check drops only what has arrived, and the entry goes when nothing else is left.
LEMMA SettleExact ==
  ASSUME TypeOK, NEW p \in Party, NEW k \in Key, NEW v \in Value, ValueExact(p, k, v)',
         Settle(p, k, v)
  PROVE  EntryOutcome(p, k, v)
<1>1. PICK c \in Value : c = Check(v)
  BY CheckOK
<1>2. /\ c.received = v.received
      /\ c.registered = v.registered
      /\ Keys(c) \subseteq Keys(v)
      /\ \A q \in Keys(c) : c.receivers[q] = v.receivers[q]
      /\ \A q \in Keys(v) \ Keys(c) : q \in Arrived(v)
  BY <1>1, CheckOK
<1>3. ~v.registered => c = v
  BY <1>1 DEF Check, CheckPasses
<1>4. ASSUME NEW q \in Party PROVE Takes(c, q) <=> Takes(v, q)
  <2>1. CASE ~v.registered
    BY <1>3, <2>1 DEF Takes
  <2>2. CASE v.registered
    BY <1>2, <2>2, ConsistencyAssumption DEF Takes, Keys, Arrived
  <2> QED
    BY <2>1, <2>2
<1>5. ValueExact(p, k, c)'
  BY <1>2, <1>3 DEF ValueExact
<1> DEFINE w == IF IsDone(c) THEN Vacant ELSE c
<1>6. consistency' = [consistency EXCEPT ![p] = [@ EXCEPT ![k] = w]]
  BY <1>1 DEF Settle
<1>7. consistency'[p][k] = w
  BY <1>6 DEF TypeOK
<1>8. \A q \in Party, l \in Key : q # p \/ l # k => consistency'[q][l] = consistency[q][l]
  BY <1>6 DEF TypeOK
<1>9. CASE IsDone(c)
  <2>1. c.registered /\ c.received # None /\ Keys(c) = {} /\ consistency'[p][k] = Vacant
    BY <1>7, <1>9 DEF IsDone
  <2>2. k \in requested'[p] /\ received'[p][k] # None
    BY <1>5, <2>1 DEF ValueExact
  <2>3. EntryExact(p, k)'
    BY <2>1, <2>2 DEF EntryExact
  <2>4. \A q \in Party : ~Expects(p, q, k)'
    BY <2>1, <2>2 DEF Expects
  <2>5. \A q \in Party : ~Takes(c, q)
    BY <2>1, ConsistencyAssumption DEF Takes, Keys
  <2> QED
    BY <1>4, <1>8, <2>3, <2>4, <2>5 DEF EntryOutcome
<1>10. CASE ~IsDone(c)
  <2>1. consistency'[p][k] = c /\ c # Vacant
    BY <1>7, <1>10, ConsistencyAssumption
  <2>2. EntryExact(p, k)'
    BY <1>5, <2>1 DEF EntryExact, ValueExact
  <2>3. \A q \in Party : Expects(p, q, k)' <=> Takes(c, q)
    BY <2>1 DEF Expects, Takes
  <2> QED
    BY <1>4, <1>8, <2>2, <2>3 DEF EntryOutcome
<1> QED
  BY <1>9, <1>10

\* Whom p's task has to tell about k, rs, changes nothing for other messages.
NotifyOnly(p, k, rs) ==
  /\ \A q \in Party, l \in Key : q # p \/ l # k => notify'[q][l] = notify[q][l]
  /\ notify'[p][k] = rs

\* Both ends of a handler that found an entry.
LEMMA ProceedExact ==
  ASSUME TypeOK, NEW p \in Party, NEW k \in Key, NEW v \in Value, NEW rs, Idle(p),
         ValueExact(p, k, v)', Proceed(p, k, v, rs)
  PROVE  EntryOutcome(p, k, v) /\ NotifyOnly(p, k, rs)
<1>1. CASE rs # {}
  <2>1. consistency' = [consistency EXCEPT ![p][k] = v] /\ notify' = [notify EXCEPT ![p][k] = rs]
    BY <1>1 DEF Proceed
  <2>2. EntryOutcome(p, k, v)
    BY <2>1, StoreExact
  <2>3. NotifyOnly(p, k, rs)
    BY <2>1 DEF NotifyOnly, TypeOK
  <2> QED
    BY <2>2, <2>3
<1>2. CASE rs = {}
  BY <1>2, SettleExact DEF Proceed, NotifyOnly, Idle
<1> QED
  BY <1>1, <1>2

\* What a step of p on k does for the others: told are the parties whose checks it took.
TellOutcome(p, k, told) ==
  /\ \A q \in Party, l \in Key : q # p \/ l # k =>
       /\ consistency'[q][l] = consistency[q][l]
       /\ notify'[q][l] = notify[q][l]
       /\ received'[q][l] = received[q][l]
       /\ l \in requested'[q] <=> l \in requested[q]
  /\ EntryExact(p, k)'
  /\ notify'[p][k] # {} => k \in requested'[p]
  /\ k \in requested'[p] => p \in Receivers[k]
  /\ \A q \in Others(p, k) \ told : Expects(p, q, k)' <=> Expects(p, q, k)
  /\ \A q \in told : ~Expects(p, q, k)' /\ OnTheWay(q, p, k) /\ ~OnTheWay(q, p, k)'
  /\ \A q \in Others(p, k) : Told(p, q, k) => Told(p, q, k)'
  /\ \A q \in Others(p, k) : Told(p, q, k)' => Told(p, q, k) \/ OnTheWay(p, q, k)' \/ failures' # 0
  /\ \A c \in checks : c \notin checks' => c.to = p /\ c.key = k /\ c.from \in told
  /\ \A c \in checks' : c \notin checks =>
       /\ c.from = p
       /\ c.key = k
       /\ c.to \in Others(p, k)
       /\ p \in Receivers[k]
       /\ Told(p, c.to, k)' /\ ~Told(p, c.to, k)
  /\ failures' = 0 => failures = 0

\* A step with that outcome keeps the parts of the invariant about entries and checks.
LEMMA TellKeeps ==
  ASSUME TypeOK, TypeOK', ChecksTrue, TellingInv, NEW p \in Party, NEW k \in Key, NEW told \in SUBSET Party,
         TellOutcome(p, k, told)
  PROVE  TellingInv'
<1>1. ASSUME NEW q \in Party, NEW l \in Key, q # p \/ l # k
      PROVE  /\ EntryExact(q, l)' <=> EntryExact(q, l)
             /\ Ready(q, l)' <=> Ready(q, l)
             /\ \A r : Expects(q, r, l)' <=> Expects(q, r, l)
             /\ \A r : Told(q, r, l)' <=> Told(q, r, l)
  <2>1. /\ consistency'[q][l] = consistency[q][l]
        /\ notify'[q][l] = notify[q][l]
        /\ received'[q][l] = received[q][l]
        /\ l \in requested'[q] <=> l \in requested[q]
    BY <1>1 DEF TellOutcome
  <2>2. EntryExact(q, l)' <=> EntryExact(q, l)
    BY <2>1 DEF EntryExact
  <2>3. Ready(q, l)' <=> Ready(q, l)
    BY <2>1 DEF Ready
  <2>4. \A r : Expects(q, r, l)' <=> Expects(q, r, l)
    BY <2>1 DEF Expects
  <2> QED
    BY <2>1, <2>2, <2>3, <2>4 DEF Told
<1>2. \A c \in checks : c.from \in Others(c.to, c.key) /\ c.from \in Party /\ c.to \in Party /\ c.key \in Key
                        /\ c.from # c.to
  BY DEF TypeOK, ChecksTrue, Checks, Others
<1>3. RequestsMeant'
  BY DEF TellingInv, RequestsMeant, TellOutcome, TypeOK
<1>4. EntriesExact'
  BY <1>1 DEF TellingInv, EntriesExact, TellOutcome
<1>5. NotifyRequested'
  BY DEF TellingInv, NotifyRequested, TellOutcome
<1>6. ChecksExpected'
  <2> SUFFICES ASSUME NEW c \in checks' PROVE Expects(c.to, c.from, c.key)'
    BY DEF ChecksExpected
  <2>1. CASE c \in checks
    <3>1. Expects(c.to, c.from, c.key)
      BY <2>1 DEF TellingInv, ChecksExpected
    <3>2. CASE c.to = p /\ c.key = k
      <4>1. OnTheWay(c.from, p, k)'
        BY <3>2 DEF OnTheWay
      <4>2. c.from \in Others(p, k) \ told
        BY <1>2, <2>1, <3>2, <4>1 DEF TellOutcome
      <4> QED
        BY <3>1, <3>2, <4>2 DEF TellOutcome
    <3>3. CASE c.to # p \/ c.key # k
      BY <1>1, <1>2, <2>1, <3>1, <3>3
    <3> QED
      BY <3>2, <3>3
  <2>2. CASE c \notin checks
    <3>1. c.from = p /\ c.key = k /\ c.to \in Others(p, k) /\ p \in Receivers[k]
          /\ ~Told(p, c.to, k) /\ Told(p, c.to, k)'
      BY <2>2 DEF TellOutcome
    <3>2. c.to \in Party /\ c.to # p
      BY <3>1, ConsistencyAssumption DEF Others
    <3>3. Expects(c.to, p, k)
      BY <3>1 DEF TellingInv, UntoldExpected
    <3> QED
      BY <1>1, <3>1, <3>2, <3>3
  <2> QED
    BY <2>1, <2>2
<1>7. UntoldExpected'
  <2> SUFFICES ASSUME NEW q \in Party, NEW l \in Key, NEW r \in Others(q, l), q \in Receivers[l],
                      ~Told(q, r, l)'
               PROVE  Expects(r, q, l)' /\ ~OnTheWay(q, r, l)'
    BY DEF UntoldExpected
  <2>1. r \in Party /\ r # q
    BY ConsistencyAssumption DEF Others
  <2>2. ~Told(q, r, l)
    BY <1>1 DEF TellOutcome
  <2>3. Expects(r, q, l) /\ ~OnTheWay(q, r, l)
    BY <2>2 DEF TellingInv, UntoldExpected
  <2>4. Expects(r, q, l)'
    <3>1. CASE r = p /\ l = k
      <4>1. q \in Others(p, k) \ told
        BY <2>1, <2>3, <3>1 DEF Others, TellOutcome
      <4> QED
        BY <2>3, <3>1, <4>1 DEF TellOutcome
    <3>2. CASE r # p \/ l # k
      BY <1>1, <2>1, <2>3, <3>2
    <3> QED
      BY <3>1, <3>2
  <2>5. ~OnTheWay(q, r, l)'
    BY <2>3 DEF OnTheWay, TellOutcome
  <2> QED
    BY <2>4, <2>5
<1>8. NothingOwed'
  <2> SUFFICES ASSUME NEW q \in Party, NEW l \in Key, NEW r \in Others(q, l),
                      failures' = 0, Ready(q, l)', r \notin notify'[q][l],
                      ~OnTheWay(q, r, l)'
               PROVE  ~Expects(r, q, l)'
    BY DEF NothingOwed
  <2>1. r \in Party /\ r # q
    BY ConsistencyAssumption DEF Others
  <2>2. Told(q, r, l)'
    BY DEF Told
  <2>3. Told(q, r, l)
    BY <1>1, <2>2 DEF TellOutcome
  <2>4. q \in Receivers[l]
    BY <1>3 DEF Ready, RequestsMeant
  <2>5. CASE OnTheWay(q, r, l)
    <3>1. r = p /\ l = k /\ q \in told
      BY <2>5 DEF OnTheWay, TellOutcome
    <3> QED
      BY <3>1 DEF TellOutcome
  <2>6. CASE ~OnTheWay(q, r, l)
    <3>1. failures = 0
      BY DEF TellOutcome
    <3>2. ~Expects(r, q, l)
      BY <2>3, <2>6, <3>1 DEF TellingInv, NothingOwed, Told
    <3>3. CASE r = p /\ l = k
      <4>1. q \in Others(p, k)
        BY <2>1, <2>4, <3>3 DEF Others
      <4> QED
        BY <3>2, <3>3, <4>1 DEF TellOutcome
    <3>4. CASE r # p \/ l # k
      BY <1>1, <2>1, <3>2, <3>4
    <3> QED
      BY <3>3, <3>4
  <2> QED
    BY <2>5, <2>6
<1> QED
  BY <1>3, <1>4, <1>5, <1>6, <1>7, <1>8 DEF TellingInv


\* ConsistencyCheckCommand::Request: p tells all other receivers if it has the data.
LEMMA RequestTells ==
  ASSUME AgreementInv, TellingInv, NEW p \in Party, NEW k \in Key, Request(p, k)
  PROVE  TellOutcome(p, k, {})
<1>1. /\ Idle(p) /\ notify[p][k] = {}
      /\ p \in Receivers[k] /\ k \notin requested[p] /\ k \in requested'[p]
      /\ received' = received /\ checks' = checks /\ failures' = failures
      /\ \A q \in Party, l \in Key : q # p \/ l # k => (l \in requested'[q] <=> l \in requested[q])
  BY DEF Request, Idle, AgreementInv, TypeOK
<1>2. EntryExact(p, k)
  BY DEF TellingInv, EntriesExact
<1>3. Others(p, k) \in SUBSET Party
  BY ConsistencyAssumption DEF Others
<1>4. \E v \in Value :
        /\ EntryOutcome(p, k, v)
        /\ NotifyOnly(p, k, IF received[p][k] # None THEN Others(p, k) ELSE {})
        /\ \A q \in Others(p, k) : Takes(v, q) <=> Expects(p, q, k)
  <2>1. CASE consistency[p][k] = Vacant
    <3>1. PICK v \in Value : v = NewRequest(Others(p, k))
      BY ConstructorsOK, <1>3, ConsistencyAssumption DEF NewRequest, Value
    <3>2. v.received = None /\ v.registered /\ \A q \in Others(p, k) : v.receivers[q] = None
      BY <1>3, <3>1 DEF NewRequest
    <3>3. received[p][k] = None
      BY <1>1, <1>2, <2>1 DEF EntryExact
    <3>4. ValueExact(p, k, v)'
      BY <1>1, <3>2, <3>3 DEF ValueExact
    <3>5. consistency' = [consistency EXCEPT ![p][k] = v] /\ notify' = notify
      BY <2>1, <3>1 DEF Request, Insert
    <3>6. EntryOutcome(p, k, v)
      BY <3>4, <3>5, StoreExact DEF AgreementInv
    <3>7. NotifyOnly(p, k, {})
      BY <1>1, <3>5 DEF NotifyOnly
    <3>8. \A q \in Others(p, k) : Takes(v, q) /\ Expects(p, q, k)
      BY <1>1, <2>1, <3>2 DEF Takes, Expects
    <3> QED
      BY <3>3, <3>6, <3>7, <3>8
  <2>2. CASE consistency[p][k] # Vacant
    <3>1. PICK v \in Value : v = consistency[p][k]
      BY <2>2 DEF AgreementInv, TypeOK
    <3>2. /\ v.received = received[p][k]
          /\ ~v.registered
          /\ \A q \in Party : v.receivers[q] # None
      BY <1>1, <1>2, <2>2, <3>1 DEF EntryExact
    <3>3. Keys(v) \subseteq Others(p, k)
      BY <2>2, <3>1 DEF AgreementInv, EntriesTrue, EntryTrue
    <3>4. PICK w \in Value : w = Register(v, Others(p, k))
      BY <1>3, RegisterOK
    <3>5. /\ w.received = v.received
          /\ w.registered
          /\ Keys(w) = Others(p, k)
          /\ Arrived(w) = Arrived(v) \cap Others(p, k)
      BY <1>3, <3>2, <3>3, <3>4, RegisterOK
    <3>6. ValueExact(p, k, w)'
      BY <1>1, <3>2, <3>5 DEF ValueExact
    <3>7. RegisterReady(v, Others(p, k)) <=> received[p][k] # None
      BY <3>2, <3>3 DEF RegisterReady
    <3>8. Proceed(p, k, w, IF received[p][k] # None THEN Others(p, k) ELSE {})
      BY <2>2, <3>1, <3>4, <3>7 DEF Request
    <3>9. EntryOutcome(p, k, w) /\ NotifyOnly(p, k, IF received[p][k] # None THEN Others(p, k) ELSE {})
      BY <1>1, <3>6, <3>8, ProceedExact DEF AgreementInv
    <3>10. ASSUME NEW q \in Others(p, k) PROVE Takes(w, q) <=> Expects(p, q, k)
      <4>1. Expects(p, q, k) <=> v.receivers[q] = Absent
        BY <2>2, <3>1, <3>2 DEF Expects
      <4>2. Takes(w, q) <=> w.receivers[q] = None
        BY <3>5 DEF Takes
      <4>3. w.receivers[q] # Absent /\ (q \in Arrived(w) <=> q \in Arrived(v))
        BY <3>5 DEF Keys
      <4> QED
        BY <1>3, <3>2, <4>1, <4>2, <4>3 DEF Arrived
    <3> QED
      BY <3>9, <3>10
  <2> QED
    BY <2>1, <2>2
<1>5. /\ EntryExact(p, k)'
      /\ \A q \in Party, l \in Key : q # p \/ l # k =>
           consistency'[q][l] = consistency[q][l] /\ notify'[q][l] = notify[q][l]
      /\ \A q \in Others(p, k) : Expects(p, q, k)' <=> Expects(p, q, k)
  BY <1>3, <1>4 DEF EntryOutcome, NotifyOnly
<1>6. \A q \in Others(p, k) : ~Told(p, q, k) /\ ~Told(p, q, k)'
  BY <1>1, <1>4 DEF NotifyOnly, Told, Ready
<1> QED
  BY <1>1, <1>5, <1>6 DEF TellOutcome

\* ConsistencyCheckCommand::ReceivedData: p tells all other receivers if it was asked.
LEMMA ReceivedDataTells ==
  ASSUME AgreementInv, TellingInv, NEW p \in Party, NEW k \in Key, NEW h \in Hash,
         ReceivedData(p, k, h)
  PROVE  TellOutcome(p, k, {})
<1>1. /\ Idle(p) /\ notify[p][k] = {}
      /\ received[p][k] = None /\ received'[p][k] = h
      /\ requested' = requested /\ checks' = checks /\ failures' = failures
      /\ \A q \in Party, l \in Key : q # p \/ l # k => received'[q][l] = received[q][l]
  BY DEF ReceivedData, Idle, AgreementInv, TypeOK
<1>2. EntryExact(p, k)
  BY DEF TellingInv, EntriesExact
<1>3. Others(p, k) \in SUBSET Party
  BY ConsistencyAssumption DEF Others
<1>4. \E v \in Value :
        /\ EntryOutcome(p, k, v)
        /\ NotifyOnly(p, k, IF k \in requested[p] THEN Others(p, k) ELSE {})
        /\ \A q \in Others(p, k) : Takes(v, q) <=> Expects(p, q, k)
  <2>1. CASE consistency[p][k] = Vacant
    <3>1. PICK v \in Value : v = NewReceivedData(h)
      BY ConstructorsOK
    <3>2. v.received = h /\ ~v.registered /\ \A q \in Party : v.receivers[q] = Absent
      BY <3>1 DEF NewReceivedData
    <3>3. k \notin requested[p]
      BY <1>1, <1>2, <2>1 DEF EntryExact
    <3>4. ValueExact(p, k, v)'
      BY <1>1, <3>2, <3>3, ConsistencyAssumption DEF ValueExact
    <3>5. consistency' = [consistency EXCEPT ![p][k] = v] /\ notify' = notify
      BY <2>1, <3>1 DEF ReceivedData, Insert
    <3>6. EntryOutcome(p, k, v)
      BY <3>4, <3>5, StoreExact DEF AgreementInv
    <3>7. NotifyOnly(p, k, {})
      BY <1>1, <3>5 DEF NotifyOnly
    <3>8. \A q \in Others(p, k) : Takes(v, q) /\ Expects(p, q, k)
      BY <1>3, <2>1, <3>2, <3>3 DEF Takes, Expects
    <3> QED
      BY <3>3, <3>6, <3>7, <3>8
  <2>2. CASE consistency[p][k] # Vacant
    <3>1. PICK v \in Value : v = consistency[p][k]
      BY <2>2 DEF AgreementInv, TypeOK
    <3>2. /\ v.received = None
          /\ v.registered <=> k \in requested[p]
          /\ ~v.registered => \A q \in Party : v.receivers[q] # None
      BY <1>1, <1>2, <2>2, <3>1 DEF EntryExact
    <3>3. v.registered => Keys(v) = Others(p, k)
      <4>1. EntryTrue(p, k, v)
        BY <2>2, <3>1 DEF AgreementInv, EntriesTrue
      <4>2. \A q \in Others(p, k) : ~SameData(p, q, k)
        BY <1>1, ConsistencyAssumption DEF SameData
      <4> QED
        BY <4>1, <4>2 DEF EntryTrue
    <3>4. PICK w \in Value : w = ReceiveData(v, h)
      BY ReceiveDataOK
    <3>5. w.received = h /\ w.registered = v.registered /\ w.receivers = v.receivers
      BY <3>2, <3>4, ReceiveDataOK
    <3>6. ValueExact(p, k, w)'
      BY <1>1, <3>2, <3>5 DEF ValueExact
    <3>7. Proceed(p, k, w, IF v.received = None /\ v.registered THEN Keys(v) ELSE {})
      BY <2>2, <3>1, <3>4 DEF ReceivedData
    <3>8. Proceed(p, k, w, IF k \in requested[p] THEN Others(p, k) ELSE {})
      BY <3>2, <3>3, <3>7
    <3>9. EntryOutcome(p, k, w) /\ NotifyOnly(p, k, IF k \in requested[p] THEN Others(p, k) ELSE {})
      BY <1>1, <3>6, <3>8, ProceedExact DEF AgreementInv
    <3>10. \A q \in Others(p, k) : Takes(w, q) <=> Expects(p, q, k)
      BY <2>2, <3>1, <3>5 DEF Takes, Expects
    <3> QED
      BY <3>9, <3>10
  <2> QED
    BY <2>1, <2>2
<1>5. /\ EntryExact(p, k)'
      /\ \A q \in Party, l \in Key : q # p \/ l # k =>
           consistency'[q][l] = consistency[q][l] /\ notify'[q][l] = notify[q][l]
      /\ \A q \in Others(p, k) : Expects(p, q, k)' <=> Expects(p, q, k)
  BY <1>3, <1>4 DEF EntryOutcome, NotifyOnly
<1>6. \A q \in Others(p, k) : ~Told(p, q, k) /\ ~Told(p, q, k)'
  BY <1>1, <1>4 DEF NotifyOnly, Told, Ready
<1>7. /\ notify'[p][k] # {} => k \in requested'[p]
      /\ k \in requested'[p] => p \in Receivers[k]
  BY <1>1, <1>4 DEF NotifyOnly, ReceivedData
<1> QED
  BY <1>1, <1>5, <1>6, <1>7 DEF TellOutcome

\* ConsistencyCheckCommand::ReceivedCheck: the check was expected, and is no more.
LEMMA ReceivedCheckTells ==
  ASSUME AgreementInv, TellingInv, NEW p \in Party, NEW c \in checks, ReceivedCheck(p, c)
  PROVE  TellOutcome(p, c.key, {c.from})
<1> DEFINE k == c.key
           q == c.from
           h == c.hash
<1>1. k \in Key /\ q \in Party /\ h \in Hash /\ c.to = p
  BY DEF ReceivedCheck, AgreementInv, TypeOK, Checks
<1>2. /\ Idle(p) /\ notify[p][k] = {} /\ checks' = checks \ {c}
      /\ received' = received /\ requested' = requested /\ failures' = failures
  BY <1>1 DEF ReceivedCheck, Idle
<1>3. \A d \in checks' : ~(d.from = q /\ d.to = p /\ d.key = k)
  <2> SUFFICES ASSUME NEW d \in checks, d.from = q, d.to = p, d.key = k PROVE d = c
    BY <1>2
  <2>1. d.hash = h
    BY DEF AgreementInv, ChecksTrue
  <2>2. c \in Checks /\ d \in Checks
    BY DEF AgreementInv, TypeOK
  <2>3. d.from = c.from /\ d.to = c.to /\ d.key = c.key /\ d.hash = c.hash
    BY <1>1, <2>1
  <2> HIDE DEF k, q, h
  <2> QED
    BY <2>2, <2>3 DEF Checks
<1>4. EntryExact(p, k) /\ Expects(p, q, k)
  BY <1>1 DEF TellingInv, EntriesExact, ChecksExpected
<1>5. OnTheWay(q, p, k) /\ ~OnTheWay(q, p, k)'
  BY <1>1, <1>3 DEF OnTheWay
<1> HIDE DEF k, q, h
<1>6. notify' = notify /\ \E v \in Value :
        /\ EntryOutcome(p, k, v)
        /\ ~Takes(v, q)
        /\ \A r \in Party \ {q} : Takes(v, r) <=> Expects(p, r, k)
  <2>1. CASE consistency[p][k] = Vacant
    <3>1. PICK v \in Value : v = NewReceived(q, h)
      BY <1>1, ConstructorsOK
    <3>2. /\ v.received = None
          /\ ~v.registered
          /\ \A r \in Party : v.receivers[r] = IF r = q THEN h ELSE Absent
      BY <3>1 DEF NewReceived
    <3>3. k \notin requested[p] /\ received[p][k] = None
      BY <1>4, <2>1 DEF EntryExact, Expects
    <3>4. ValueExact(p, k, v)'
      BY <1>1, <1>2, <3>2, <3>3, ConsistencyAssumption DEF ValueExact
    <3>5. consistency' = [consistency EXCEPT ![p][k] = v] /\ notify' = notify
      BY <2>1, <3>1 DEF ReceivedCheck, Insert, k, q, h
    <3>6. EntryOutcome(p, k, v)
      BY <1>1, <3>4, <3>5, StoreExact DEF AgreementInv
    <3>7. ~Takes(v, q)
      BY <1>1, <3>2, ConsistencyAssumption DEF Takes
    <3>8. \A r \in Party \ {q} : Takes(v, r) /\ Expects(p, r, k)
      BY <2>1, <3>2, <3>3 DEF Takes, Expects
    <3> QED
      BY <3>5, <3>6, <3>7, <3>8
  <2>2. CASE consistency[p][k] # Vacant
    <3>1. PICK v \in Value : v = consistency[p][k]
      BY <1>1, <2>2 DEF AgreementInv, TypeOK
    <3>2. ValueExact(p, k, v) /\ Takes(v, q)
      BY <1>4, <2>2, <3>1 DEF EntryExact, ValueExact, Expects, Takes
    <3>3. PICK w \in Value : w = Receive(v, q, h)
      BY <1>1, ReceiveOK
    <3>4. /\ w.received = v.received
          /\ w.registered = v.registered
          /\ \A r \in Party : w.receivers[r] = IF r = q THEN h ELSE v.receivers[r]
      BY <1>1, <3>2, <3>3 DEF Receive, Takes, Value
    <3>5. ValueExact(p, k, w)'
      BY <1>1, <1>2, <3>2, <3>4, ConsistencyAssumption DEF ValueExact
    <3>6. Settle(p, k, w) /\ notify' = notify
      BY <2>2, <3>1, <3>3 DEF ReceivedCheck, k, q, h
    <3>7. EntryOutcome(p, k, w)
      BY <1>1, <3>5, <3>6, SettleExact DEF AgreementInv
    <3>8. ~Takes(w, q)
      BY <1>1, <3>4, ConsistencyAssumption DEF Takes
    <3>9. \A r \in Party \ {q} : Takes(w, r) <=> Expects(p, r, k)
      BY <2>2, <3>1, <3>4 DEF Takes, Expects
    <3> QED
      BY <3>6, <3>7, <3>8, <3>9
  <2> QED
    BY <2>1, <2>2
<1>7. Others(p, k) \in SUBSET Party
  BY <1>1, ConsistencyAssumption DEF Others
<1>8. /\ EntryExact(p, k)'
      /\ \A r \in Party, l \in Key : r # p \/ l # k => consistency'[r][l] = consistency[r][l]
      /\ \A r \in Others(p, k) \ {q} : Expects(p, r, k)' <=> Expects(p, r, k)
      /\ ~Expects(p, q, k)'
  BY <1>1, <1>6, <1>7 DEF EntryOutcome
<1>9. \A r \in Others(p, k) : Told(p, r, k)' <=> Told(p, r, k)
  BY <1>2, <1>6 DEF Told, Ready
<1>10. k \in requested'[p] => p \in Receivers[k]
  BY <1>2 DEF TellingInv, RequestsMeant
<1> QED
  BY <1>1, <1>2, <1>5, <1>6, <1>8, <1>9, <1>10 DEF TellOutcome, k, q

\* The end of a command of notify_parties: rs are the parties left to tell.
LEMMA NotifyDoneTells ==
  ASSUME AgreementInv, TellingInv, NEW p \in Party, NEW k \in Key, NEW rs \in SUBSET Party,
         notify[p][k] # {}, rs \subseteq notify[p][k], NotifyDone(p, k, rs)
  PROVE  /\ \A q \in Party, l \in Key : q # p \/ l # k =>
              consistency'[q][l] = consistency[q][l] /\ notify'[q][l] = notify[q][l]
         /\ notify'[p][k] = rs
         /\ EntryExact(p, k)'
         /\ \A q \in Others(p, k) : Expects(p, q, k)' <=> Expects(p, q, k)
         /\ Ready(p, k) /\ Ready(p, k)'
         /\ p \in Receivers[k]
<1>1. notify' = [notify EXCEPT ![p][k] = rs] /\ received' = received /\ requested' = requested
  BY DEF NotifyDone
<1>2. NotifyOnly(p, k, rs)
  BY <1>1 DEF NotifyOnly, AgreementInv, TypeOK
<1>3. consistency[p][k] # Vacant /\ consistency[p][k].received # None /\ k \in requested[p] /\ p \in Receivers[k]
  BY DEF AgreementInv, NotifyReady, TellingInv, NotifyRequested
<1>4. PICK v \in Value : v = consistency[p][k]
  BY <1>3 DEF AgreementInv, TypeOK
<1>5. ValueExact(p, k, v) /\ EntryExact(p, k)
  BY <1>3, <1>4 DEF TellingInv, EntriesExact, EntryExact, ValueExact
<1>6. ValueExact(p, k, v)'
  BY <1>1, <1>5 DEF ValueExact
<1>7. \A q \in Others(p, k) : Takes(v, q) <=> Expects(p, q, k)
  BY <1>3, <1>4 DEF Takes, Expects
<1>8. Ready(p, k) /\ Ready(p, k)'
  BY <1>1, <1>3, <1>4, <1>5 DEF Ready, ValueExact
<1>9. CASE rs # {}
  <2>1. consistency' = consistency
    BY <1>9 DEF NotifyDone
  <2>2. EntryExact(p, k)' /\ \A q \in Others(p, k) : Expects(p, q, k)' <=> Expects(p, q, k)
    BY <1>1, <1>5, <2>1 DEF EntryExact, Expects
  <2> QED
    BY <1>2, <1>3, <1>8, <2>1, <2>2 DEF NotifyOnly
<1>10. CASE rs = {}
  <2>1. EntryOutcome(p, k, v)
    BY <1>4, <1>6, <1>10, SettleExact DEF NotifyDone, AgreementInv
  <2>2. Others(p, k) \in SUBSET Party
    BY ConsistencyAssumption DEF Others
  <2> QED
    BY <1>2, <1>3, <1>7, <1>8, <2>1, <2>2 DEF NotifyOnly, EntryOutcome
<1> QED
  BY <1>9, <1>10

\* notify_parties: a check is sent to a party that was not told before.
LEMMA NotifyPartyTells ==
  ASSUME AgreementInv, TellingInv, NEW p \in Party, NEW k \in Key, NEW q \in Party,
         NotifyParty(p, k, q)
  PROVE  TellOutcome(p, k, {})
<1> DEFINE c == [from |-> p, to |-> q, key |-> k, hash |-> consistency[p][k].received]
<1>1. /\ q \in notify[p][k] /\ NotifyDone(p, k, notify[p][k] \ {q})
      /\ checks' = checks \cup {c} /\ failures' = failures
      /\ received' = received /\ requested' = requested
  BY DEF NotifyParty, NotifyDone
<1>2. notify[p][k] \in SUBSET Party /\ notify[p][k] \subseteq Others(p, k)
  BY <1>1 DEF AgreementInv, TypeOK, NotifyReady
<1>3. /\ \A r \in Party, l \in Key : r # p \/ l # k =>
           consistency'[r][l] = consistency[r][l] /\ notify'[r][l] = notify[r][l]
      /\ notify'[p][k] = notify[p][k] \ {q}
      /\ EntryExact(p, k)'
      /\ \A r \in Others(p, k) : Expects(p, r, k)' <=> Expects(p, r, k)
      /\ Ready(p, k) /\ Ready(p, k)'
      /\ p \in Receivers[k]
  BY <1>1, <1>2, NotifyDoneTells
<1>4. OnTheWay(p, q, k)'
  <2>1. c \in checks' /\ c.from = p /\ c.to = q /\ c.key = k
    BY <1>1
  <2> HIDE DEF c
  <2> QED
    BY <2>1 DEF OnTheWay
<1>5. /\ \A r \in Others(p, k) : Told(p, r, k) => Told(p, r, k)'
      /\ \A r \in Others(p, k) : Told(p, r, k)' => Told(p, r, k) \/ OnTheWay(p, r, k)'
      /\ ~Told(p, q, k) /\ Told(p, q, k)'
  BY <1>1, <1>3, <1>4 DEF Told
<1>6. k \in requested'[p]
  BY <1>3 DEF Ready
<1>7. \A d \in checks' : d \notin checks => d.from = p /\ d.key = k /\ d.to = q
  BY <1>1
<1> HIDE DEF c
<1> QED
  BY <1>1, <1>2, <1>3, <1>5, <1>6, <1>7 DEF TellOutcome

\* notify_parties gives up: this counts as a failure, nothing is owed after it.
LEMMA NotifyFailsTells ==
  ASSUME AgreementInv, TellingInv, NEW p \in Party, NEW k \in Key, NotifyFails(p, k)
  PROVE  TellOutcome(p, k, {})
<1>1. /\ notify[p][k] # {} /\ NotifyDone(p, k, {}) /\ checks' = checks
      /\ received' = received /\ requested' = requested /\ failures' # 0
  BY DEF NotifyFails, NotifyDone, AgreementInv, TypeOK
<1>2. /\ \A r \in Party, l \in Key : r # p \/ l # k =>
           consistency'[r][l] = consistency[r][l] /\ notify'[r][l] = notify[r][l]
      /\ notify'[p][k] = {}
      /\ EntryExact(p, k)'
      /\ \A r \in Others(p, k) : Expects(p, r, k)' <=> Expects(p, r, k)
      /\ Ready(p, k) /\ Ready(p, k)'
      /\ p \in Receivers[k]
  BY <1>1, NotifyDoneTells
<1>3. \A r \in Others(p, k) : Told(p, r, k)'
  BY <1>2 DEF Told
<1> QED
  BY <1>1, <1>2, <1>3 DEF TellOutcome

\* Every step of every party's task, and every loss, keeps TellingInv.
LEMMA NextTells == AgreementInv /\ AgreementInv' /\ TellingInv /\ [Next]_vars => TellingInv'
<1> SUFFICES ASSUME AgreementInv, AgreementInv', TellingInv, [Next]_vars PROVE TellingInv'
  OBVIOUS
<1>1. ASSUME NEW p \in Party, NEW k \in Key, NEW told \in SUBSET Party, TellOutcome(p, k, told)
      PROVE  TellingInv'
  BY <1>1, TellKeeps DEF AgreementInv
<1>2. {} \in SUBSET Party
  OBVIOUS
<1>3. ASSUME NEW p \in Party, NEW k \in Key, Request(p, k) PROVE TellingInv'
  BY <1>1, <1>2, <1>3, RequestTells
<1>4. ASSUME NEW p \in Party, NEW k \in Key, NEW h \in Payload(k), ReceivedData(p, k, h)
      PROVE  TellingInv'
  <2>1. h \in Hash
    BY ConsistencyAssumption DEF Payload
  <2> QED
    BY <1>1, <1>2, <1>4, <2>1, ReceivedDataTells
<1>5. ASSUME NEW p \in Party, NEW k \in Key, NEW q \in Party, NotifyParty(p, k, q)
      PROVE  TellingInv'
  BY <1>1, <1>2, <1>5, NotifyPartyTells
<1>6. ASSUME NEW p \in Party, NEW k \in Key, NotifyFails(p, k) PROVE TellingInv'
  BY <1>1, <1>2, <1>6, NotifyFailsTells
<1>7. ASSUME NEW c \in checks, NEW p \in Party, ReceivedCheck(p, c) PROVE TellingInv'
  <2>1. c.key \in Key /\ {c.from} \in SUBSET Party
    BY DEF AgreementInv, TypeOK, Checks
  <2> QED
    BY <1>1, <1>7, <2>1, ReceivedCheckTells
<1>8. ASSUME NEW c \in checks, LoseCheck(c) PROVE TellingInv'
  <2>1. /\ checks' \subseteq checks /\ failures' # 0
        /\ UNCHANGED <<consistency, notify, received, requested>>
    BY <1>8 DEF LoseCheck, AgreementInv, TypeOK
  <2>2. \A p, q, k : OnTheWay(p, q, k)' => OnTheWay(p, q, k)
    BY <2>1 DEF OnTheWay
  <2>3. NothingOwed' /\ ChecksExpected'
    BY <2>1 DEF TellingInv, NothingOwed, ChecksExpected, Expects
  <2>4. EntriesExact' /\ NotifyRequested' /\ RequestsMeant'
    BY <2>1 DEF TellingInv, EntriesExact, EntryExact, NotifyRequested, RequestsMeant
  <2>5. UntoldExpected'
    BY <2>1, <2>2 DEF TellingInv, UntoldExpected, Told, Ready, Expects
  <2> QED
    BY <2>3, <2>4, <2>5 DEF TellingInv
<1>9. ASSUME UNCHANGED <<consistency, notify, checks, failures, received, requested>> PROVE TellingInv'
  BY <1>9 DEF TellingInv, EntriesExact, EntryExact, UntoldExpected, Told, Ready, Expects, OnTheWay,
              NotifyRequested, RequestsMeant, ChecksExpected, NothingOwed
<1>10. ASSUME NEW p \in Party, Wait(p) PROVE TellingInv'
  BY <1>9, <1>10 DEF Wait
<1>11. CASE UNCHANGED vars
  BY <1>9, <1>11 DEF vars
<1> QED
  BY <1>3, <1>4, <1>5, <1>6, <1>7, <1>8, <1>10, <1>11 DEF Next

-----------------------------------------------------------------------------
(* Theorems *)

\* For every set of parties, messages, hashes and failures: the tasks' maps hold values of
\* their types in every reachable state.
THEOREM TypeCorrect == Spec => []TypeOK
<1>1. AgreementInv => TypeOK
  BY DEF AgreementInv
<1> QED
  BY <1>1, InitAgrees, NextKeeps, PTL DEF Spec

\* Whatever order commands come in and whatever checks get lost, ensure_consistency
\* (queue.rs) returns only when the data of every message asked for before is the same at
\* all of its receivers.
THEOREM AgreementHolds == Spec => []Agreement
<1>1. AgreementInv => Agreement
  BY DEF AgreementInv
<1> QED
  BY <1>1, InitAgrees, NextKeeps, PTL DEF Spec

\* notify_requests forgets nobody: in no order of commands and losses does a Queue wait for
\* an answer while its task is idle and no check is open (consistency.rs 263-272, called
\* at 330, 375 and 428).
THEOREM NoStrandedWaiterHolds == Spec => []NoStrandedWaiter
<1>1. Init => WaitersWait
  BY DEF Init, WaitersWait
<1>2. WaitersWait => NoStrandedWaiter
  BY DEF WaitersWait, NoStrandedWaiter
<1> QED
  BY <1>1, <1>2, TypeCorrect, NextWaits, PTL DEF Spec

\* Before the first command there are no entries, and nothing is owed.
LEMMA InitTells == Init => TellingInv
<1> SUFFICES ASSUME Init PROVE TellingInv
  OBVIOUS
<1>1. ASSUME NEW p \in Party, NEW k \in Key
      PROVE  /\ consistency[p][k] = Vacant /\ notify[p][k] = {}
             /\ received[p][k] = None /\ requested[p] = {}
  BY DEF Init
<1>2. checks = {}
  BY DEF Init
<1>3. EntriesExact /\ NotifyRequested
  BY <1>1 DEF EntriesExact, EntryExact, NotifyRequested
<1>4. RequestsMeant
  BY DEF Init, RequestsMeant
<1>5. UntoldExpected
  <2>1. \A q \in Party, k \in Key : Others(q, k) \subseteq Party
    BY ConsistencyAssumption DEF Others
  <2> QED
    BY <1>1, <1>2, <2>1 DEF UntoldExpected, Expects, OnTheWay
<1>6. ChecksExpected /\ NothingOwed
  BY <1>1, <1>2 DEF ChecksExpected, NothingOwed, Ready
<1> QED
  BY <1>3, <1>4, <1>5, <1>6 DEF TellingInv

\* TellingInv holds in every reachable state, whatever is lost.
LEMMA Telling == Spec => []TellingInv
  BY InitTells, InitAgrees, NextKeeps, NextTells, PTL DEF Spec

\* Parties that follow the protocol never meet the errors UnknownCheck and MultipleChecks
\* (consistency.rs 73-123), and no check comes to an entry that was removed: a check in
\* flight is one that its receiver still expects.
THEOREM ChecksExpectedHolds == Spec => []ChecksExpected
<1>1. TellingInv => ChecksExpected
  BY DEF TellingInv
<1> QED
  BY <1>1, Telling, PTL

\* Unless a connection fails, every receiver that has been asked to check a
\* message and has its data has told the other receivers, tells them, or has yet to
\* (notify_parties, consistency.rs 222-256): no order of the commands makes it skip one.
THEOREM NothingOwedHolds == Spec => []NothingOwed
<1>1. TellingInv => NothingOwed
  BY DEF TellingInv
<1> QED
  BY <1>1, Telling, PTL

=============================================================================
