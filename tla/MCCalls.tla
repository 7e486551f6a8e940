-------------------------------- MODULE MCCalls --------------------------------
(***************************************************************************)
(* Programs for TLC: each overload of the Queue of C++, with structures in *)
(* structures next to tensors and with fields of the same type, and calls  *)
(* one after the other whose messages have the same key.  Calls of other   *)
(* programs have all combinations of small sizes, and null pointers.       *)
(***************************************************************************)
EXTENDS Calls

All == {1, 2, 3}
Two == {1, 2}

a == Tensor("a", 32, 1)
b == Tensor("b", 32, 1)
c == Tensor("c", 16, 2)
d == Tensor("d", 32, 2)

Share(value) == Structure(<<value>>)

\* A share of a ciphertext and a tensor, and structures with tensors on both sides
Nested == <<Share(Structure(<<a, b>>)), c>>
Deep   == <<c, Structure(<<a, Structure(<<d>>), b>>)>>

Operation(kind, roots, senders, receivers, values) ==
  [kind |-> kind, roots |-> roots, senders |-> senders, receivers |-> receivers, values |-> values]

Broadcast(root, parties, values) ==
  Operation("broadcast", [v \in DOMAIN values |-> root], parties, parties, values)
Gather(root, parties, values) ==
  Operation("gather", [v \in DOMAIN values |-> root], parties, parties, values)
AllGather(senders, receivers, values) ==
  Operation("all_gather", <<>>, senders, receivers, values)
AllToAll(parties, values) == Operation("all_to_all", <<>>, parties, parties, values)

MCPrograms == {
  <<Broadcast(1, All, <<a>>), Broadcast(2, All, <<a>>)>>,
  <<Broadcast(1, Two, <<a>>), Broadcast(1, Two, <<b, d, c>>)>>,
  <<Gather(1, All, <<a>>), Gather(1, {2, 3}, <<b>>), Broadcast(1, All, <<c>>)>>,
  <<Gather(1, {2, 3}, <<a, c>>), Gather(2, {3}, <<Share(a), d>>)>>,
  <<Gather(3, {1}, Deep), Gather(3, Two, <<Share(a), c>>)>>,
  <<AllGather(All, All, <<a>>), Gather(2, {1}, <<a>>)>>,
  <<AllGather(Two, Two, <<a>>), AllGather(Two, Two, Nested)>>,
  <<AllGather({2}, Two, Deep), AllGather({1}, Two, <<c>>)>>,
  <<AllGather({2, 3}, All, <<a>>), AllGather({3}, All, <<a, c>>)>>,
  <<AllGather({2}, Two, Nested), AllGather(Two, Two, <<Share(a)>>)>>,
  <<AllGather(Two, {2, 3}, <<a>>), Broadcast(3, {2, 3}, <<a>>)>>,
  <<AllToAll(All, <<a>>)>>,
  <<AllToAll(Two, <<a>>), AllToAll(Two, <<Structure(<<b, a>>)>>)>>,
  <<AllToAll(Two, <<c, Share(a)>>), AllGather(Two, Two, <<a, b>>)>> }

Kinds == {"broadcast", "gather", "all_gather", "all_to_all"}

Communicators ==
  {Span(items) : items \in {<<>>, <<1>>, <<2>>, <<1, 2>>, <<2, 2>>}} \cup {[null |-> TRUE, items |-> <<1>>]}

Messages(kind, multi) ==
  {Span([i \in DOMAIN roots |-> [datatype |-> 32, size |-> 1, root |-> roots[i]]]) :
     roots \in IF kind \in {"broadcast", "gather"}
               THEN {<<1>>, <<2>>} \cup IF multi THEN {<<>>, <<1, 1>>, <<1, 2>>, <<2, 2>>} ELSE {}
               ELSE {<<0>>} \cup IF multi THEN {<<>>, <<0, 0>>} ELSE {}}
  \cup IF multi THEN {[null |-> TRUE, items |-> <<[datatype |-> 32, size |-> 1, root |-> 1]>>]} ELSE {}

\* One row is for one message; a broadcast has one pointer for each message.
Pointers(kind, multi) ==
  {[null |-> FALSE, items |-> [i \in 1 .. outer * inner |-> "place"], outer |-> outer, inner |-> inner] :
     outer \in IF multi /\ kind # "broadcast" THEN 0..2 ELSE {1},
     inner \in IF multi \/ kind # "broadcast" THEN 0..2 ELSE {1}}
  \cup {[null |-> TRUE, items |-> <<"place">>, outer |-> 1, inner |-> 1]}

RequestsOf(kind, multi) ==
  {[kind |-> kind, multi |-> multi, handle |-> handle, messages |-> messages, senders |-> senders,
    receivers |-> IF kind = "all_gather" THEN receivers ELSE senders,
    data |-> data, result |-> result] :
     handle \in BOOLEAN, messages \in Messages(kind, multi),
     senders \in Communicators, receivers \in IF kind = "all_gather" THEN Communicators ELSE {Span(<<>>)},
     data \in Pointers(kind, multi),
     result \in IF kind = "all_to_all" THEN Pointers(kind, multi) ELSE {to_2d_ffi(<<<<"place">>>>)}}

MCRequests == UNION {RequestsOf(kind, multi) : kind \in Kinds, multi \in BOOLEAN}

==============================================================================
