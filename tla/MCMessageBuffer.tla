---------------------------- MODULE MCMessageBuffer ----------------------------
(***************************************************************************)
(* Messages for TLC.                                                       *)
(*                                                                         *)
(* The scenarios are single runs of two parties for each way in which a    *)
(* session may be found or not, two runs of two parties with each mixture  *)
(* of sessions from a file, a string and a value, and a run of three       *)
(* parties that wait for each other, with a fault in each of the last two. *)
(***************************************************************************)
EXTENDS Messages, TLC

CONSTANTS m1, m2, t1, t2, t3

\* Setups: a project's file and what there is beside it

Hashed(t) == [form |-> "string", of |-> t]

Project ==
  [files |-> [path \in {"fallback", "given", "environment"} |-> Hashed("project")],
   given |-> None, environment |-> None, read |-> "read",
   value |-> None, string |-> None, session_from_env |-> TRUE]

WithString(t) == [Project EXCEPT !.string = t]
WithValue(t)  == [Project EXCEPT !.value = t, !.string = "project"]

NoFile == [Project EXCEPT !.given = "given", !.files["given"] = [form |-> "unreadable"], !.value = "1"]

SingleSetups ==
  {NoFile, [NoFile EXCEPT !.value = None], WithValue("none"),
   [Project EXCEPT !.read = "read_env", !.environment = "environment",
                   !.files["environment"] = Hashed("other")],
   [Project EXCEPT !.files["fallback"] = None]}

Once  == {<<1, 2, 0>>}
Pair  == {<<1, 2, 0>>, <<2, 1, 0>>}
Twice == {<<1, 2, 0>>, <<1, 2, 1>>, <<2, 1, 0>>}
Ring  == {<<1, 3, 0>>, <<2, 3, 0>>, <<2, 1, 0>>, <<3, 1, 0>>}

MCScenarios ==
  {[sends |-> Once, setups |-> <<s>>, faults |-> 0] : s \in SingleSetups}
    \cup {[sends |-> Pair, setups |-> <<s, t>>, faults |-> 1] :
            s \in {WithValue("1"), WithString("1")}, t \in {Project, WithValue("2")}}
    \cup {[sends |-> s, setups |-> <<Project>>, faults |-> 1] : s \in {Twice, Ring}}

ASSUME Net!ScenariosAssumption
===============================================================================
