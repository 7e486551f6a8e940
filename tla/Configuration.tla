---------------------------- MODULE Configuration ----------------------------
(***************************************************************************)
(* Which configuration a Queue gets and in which session it is             *)
(* (hmpc-rs/src/net/config.rs, hmpc-rs/src/ffi/config.rs, the beginning of *)
(* hmpc-rs/src/ffi/queue.rs and Queue::new).                               *)
(*                                                                         *)
(* Of a configuration only its session is modelled.  A setup is what a     *)
(* program finds when it begins and what it does with it: the files with   *)
(* their contents, the environment, the path that is given, the function   *)
(* that reads, and whether the program asks for the session of the         *)
(* environment.                                                            *)
(***************************************************************************)
EXTENDS Naturals

CONSTANTS
  None,      \* Option::None, null
  Numerals   \* the texts that are numbers

Paths == {"fallback", "given", "environment"}

Session == [form : {"value", "parse", "string"}, of : STRING]

\* A file holds a configuration, with a session or without, or cannot be read.
Unreadable == [form |-> "unreadable"]

\* No session, or a text that is no number: the Queue is not constructed.
NoQueue == <<"no queue">>

------------------------------------------------------------------------------
(* Sessions *)

SessionValue(session) ==
  IF session.form = "string" THEN <<"digest", session.of>>
  ELSE IF session.of \in Numerals THEN <<"number", session.of>>
  ELSE NoQueue

\* Mutant: the string comes first.
try_from_env_String(setup) ==
  IF setup.string # None THEN [form |-> "string", of |-> setup.string]
  ELSE IF setup.value # None THEN [form |-> "parse", of |-> setup.value]
  ELSE None

try_from_env(setup) ==
  IF setup.value # None THEN [form |-> "parse", of |-> setup.value]
  ELSE IF setup.string # None THEN [form |-> "string", of |-> setup.string]
  ELSE None

------------------------------------------------------------------------------
(* Files *)

First(path, otherwise) == IF path # None THEN path ELSE otherwise

default_path(setup) == First(setup.environment, "fallback")

ReadPath(setup) ==
  IF setup.read = "read" THEN First(setup.given, default_path(setup))
  ELSE First(setup.environment, First(setup.given, "fallback"))

\* What the program has then: a configuration, or null.
ReadConfig(setup) == setup.files[ReadPath(setup)]

SessionFromEnv(setup, config) ==
  IF setup.session_from_env /\ config # Unreadable
  THEN First(try_from_env(setup), config)
  ELSE config

\* hmpc_ffi_net_queue_init: without a configuration, one is read from the default path.  Its
\* session is left as it is.
QueueConfig(setup) ==
  LET config == SessionFromEnv(setup, ReadConfig(setup))
  IN  IF config = Unreadable THEN setup.files[default_path(setup)] ELSE config

\* Queue::new: the session that its messages are in
NewQueue(setup) ==
  LET config == QueueConfig(setup)
  IN  IF config \in {Unreadable, None} THEN NoQueue ELSE SessionValue(config)

------------------------------------------------------------------------------
(* What the documentation says *)

\* The session of a program that asks for that of the environment is that, if there is one
\* ("HMPC_SESSION_VALUE takes precedence over HMPC_SESSION_STRING"), and otherwise that of
\* the file.
Documented(setup) ==
  LET sources == <<IF ~setup.session_from_env \/ setup.value = None
                     THEN None ELSE [form |-> "parse", of |-> setup.value],
                   IF ~setup.session_from_env \/ setup.string = None
                     THEN None ELSE [form |-> "string", of |-> setup.string],
                   ReadConfig(setup)>>
      there == {k \in DOMAIN sources : sources[k] # None}
  IN  IF ReadConfig(setup) = Unreadable \/ there = {} THEN NoQueue
      ELSE SessionValue(sources[CHOOSE k \in there : \A j \in there : k <= j])
==============================================================================
