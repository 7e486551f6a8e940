------------------------------- MODULE Exchange -------------------------------
(***************************************************************************)
(* What collective communication promises, without tasks, identifiers or   *)
(* messages: a sequence of operations moves data between parties.  Every   *)
(* transfer moves one piece of data, once, and a party begins an operation *)
(* only when it is through with those before.  Data that an operation      *)
(* sends to several receivers, one broadcast, is the same for all of them  *)
(* before any receiver sends anything that may depend on it.               *)
(***************************************************************************)
EXTENDS Naturals

CONSTANTS
  Transfer,  \* records with fields op, from and to (and what else tells them apart)
  Party,     \* the parties
  Data,      \* what is transferred
  None,      \* nothing
  Broadcast  \* Broadcast[x]: the transfers that x must agree with

VARIABLES
  sent,  \* sent[x]: the data that x.from gave to the network, or None
  held   \* held[x]: the data that x.to has as the data of x, or None

vars == <<sent, held>>

Init ==
  /\ sent = [x \in Transfer |-> None]
  /\ held = [x \in Transfer |-> None]

\* p is through with the operations before the one with number o.
Through(p, o) ==
  \A y \in Transfer : y.op < o =>
    /\ y.from = p => sent[y] # None
    /\ y.to = p => held[y] # None

\* What p got before operation o is the same for all receivers.
Agreed(p, o) ==
  \A y \in Transfer : y.op < o /\ y.to = p => \A z \in Broadcast[y] : sent[z] = sent[y]

Send(x, d) ==
  /\ sent[x] = None
  /\ Through(x.from, x.op)
  /\ Agreed(x.from, x.op)
  /\ sent' = [sent EXCEPT ![x] = d]
  /\ UNCHANGED held

Deliver(x) ==
  /\ sent[x] # None
  /\ held[x] = None
  /\ Through(x.to, x.op)
  /\ held' = [held EXCEPT ![x] = sent[x]]
  /\ UNCHANGED sent

Next == \E x \in Transfer : Deliver(x) \/ \E d \in Data : Send(x, d)

Spec == Init /\ [][Next]_vars

=============================================================================
