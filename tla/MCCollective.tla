----------------------------- MODULE MCCollective -----------------------------
(***************************************************************************)
(* Programs for Collective that TLC checks.                                *)
(***************************************************************************)
EXTENDS Collective

Op(kind, ends, parties) == [kind |-> kind, ends |-> ends, senders |-> parties, receivers |-> parties]

Extended(kind, ends, senders, receivers) ==
  [kind |-> kind, ends |-> ends, senders |-> senders, receivers |-> receivers]

\* 2 must not send its data before it knows that 3 got what it got from 1; it sends twice,
\* under identifiers with the same key.  In the all-gather 2 only receives.
Kinds ==
  <<Op("broadcast", <<1>>, {1, 2, 3}),
    Op("broadcast", <<1, 2, 2>>, {1, 2}),
    Extended("all_gather", <<0>>, {1, 3}, {1, 2, 3}),
    Op("all_to_all", <<0>>, {1, 2}),
    Op("gather", <<1>>, {1, 3})>>

\* What all got from 1 is gathered by 1.
Echo == <<Op("broadcast", <<1>>, {1, 2, 3}), Op("gather", <<1>>, {1, 2, 3})>>

\* 1 has nothing to wait for when it drops its Queue.
Announce == <<Op("broadcast", <<1>>, {1, 2})>>
=============================================================================
