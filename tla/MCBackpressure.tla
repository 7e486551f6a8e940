---------------------------- MODULE MCBackpressure ----------------------------
(***************************************************************************)
(* Multi-broadcasts for Backpressure that TLC checks.                      *)
(***************************************************************************)
EXTENDS Backpressure

\* Each of 1 and 2 receives once and sends once.
Two == <<1, 2>>

\* One broadcast of 1, and of 2 and 3 more than fit on streams and in channels.
Crossed == [k \in 1 .. 1 + 2 * (Credit + Capacity + 2) |-> IF k = 1 THEN 1 ELSE 2 + (k % 2)]

-----------------------------------------------------------------------------
(* A schedule, Scheduled: of the steps that the tasks can do, one that comes first in a    *)
(* certain order.  All its behaviours are behaviours of Spec: the steps are Spec's, there  *)
(* are finitely many in a behaviour, and a behaviour ends only where no task can go on.    *)

Then(A, B) == A \/ (~ENABLED A /\ B)

FirstParty(A(_)) == \E p \in Party : A(p) /\ \A q \in Party : q < p => ~ENABLED A(q)

TakeRequest(p) == channel[p] # <<>> /\ Head(channel[p]).type = "request" /\ Take(p)

Loop(p) == Broadcast(p) \/ Receive(p)

WriteOf(type, p) ==
  \E q \in Party : \E m \in opening[p][q] :
    /\ m.type = type
    /\ \A n \in opening[p][q] : n.type = type => m.key <= n.key
    /\ \A r \in Party : r < q /\ Len(streams[p][r]) < Credit => \A n \in opening[p][r] : n.type # type
    /\ Write(p, q, m)

WriteData(p) == WriteOf("data", p)
WriteCheck(p) == WriteOf("check", p)

ReadFromFirst(p) == Read(p, 1)

ReadFromOthers(p) ==
  \E q \in Party : Read(p, q) /\ \A r \in Party : r < q => ~ENABLED Read(p, r)

End(p) == Drop(p) \/ Close(p)

\* The parties loop over all messages, the clients write data as long as there are streams,
\* and only then do the servers read and the consistency tasks tell each other.
Schedule ==
  Then(FirstParty(TakeRequest), Then(FirstParty(Loop), Then(FirstParty(WriteData),
  Then(FirstParty(ReadFromFirst), Then(FirstParty(Take), Then(FirstParty(Ask),
  Then(FirstParty(ReadFromOthers), Then(FirstParty(WriteCheck), FirstParty(End)))))))))

Scheduled == Init /\ [][Schedule]_vars /\ WF_vars(Schedule)

=============================================================================
