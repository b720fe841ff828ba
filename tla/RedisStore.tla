------------------------------- MODULE RedisStore -------------------------------
(***************************************************************************)
(* RedisStore: one hiredis context for all callers.  redisCommand writes   *)
(* its command to the connection and then takes the next reply from it.    *)
(* Nothing keeps a second caller from doing the same in between, and then  *)
(* either may take either reply (that the buffers of the context could     *)
(* break altogether is left out).  After an error the context answers      *)
(* every command with NULL, and nothing connects again but a new process.  *)
(*                                                                         *)
(* The module has the state and the operations of the store; the modules   *)
(* that extend it say who calls what.                                      *)
(***************************************************************************)
EXTENDS Sequences, FiniteSets

CONSTANTS
  Callers,       \* the handlers that use the store
  Keys,          \* names of entries, without the prefix
  Values,        \* contents of entries
  Nil,           \* no entry; std::nullopt
  OK             \* the status reply

ASSUME NilAssumption == Nil \notin Values
ASSUME OKAssumption == OK \notin Values /\ OK # Nil

VARIABLES
  \* the Redis server
  data,          \* the entries
  volatile,      \* keys that have a TTL
  stray,         \* commands of lost connections that it may still execute
  \* the connection
  link,          \* it is up
  pipe,          \* commands sent and not executed
  replies,       \* replies not yet taken
  \* RedisStore
  err,           \* ctx_->err
  asked,         \* the command each caller waits for, or NoOp
  result,        \* what the last call of each caller has returned
  overlapped     \* history: two calls have been under way at once

redisVars == <<data, volatile, stray, link, pipe, replies, err, asked, result,
               overlapped>>

Op == [name : {"GET", "SET", "SETEX", "DEL"}, key : Keys, value : Values \cup {Nil}]

NoOp == [name |-> "none"]

RedisTypeOK ==
  /\ data \in [Keys -> Values \cup {Nil}]
  /\ volatile \subseteq Keys
  /\ stray \subseteq Op
  /\ link \in BOOLEAN
  /\ pipe \in Seq(Op)
  /\ replies \in Seq(Values \cup {Nil, OK})
  /\ err \in BOOLEAN
  /\ asked \in [Callers -> Op \cup {NoOp}]
  /\ result \in [Callers -> Values \cup {Nil, OK}]
  /\ overlapped \in BOOLEAN

(* connect has succeeded: main returns otherwise.                            *)
RedisInit ==
  /\ volatile = {} /\ stray = {}
  /\ link = TRUE /\ pipe = <<>> /\ replies = <<>> /\ err = FALSE
  /\ asked = [c \in Callers |-> NoOp]
  /\ result = [c \in Callers |-> Nil]
  /\ overlapped = FALSE

------------------------------------------------------------------------------
(* The commands.                                                             *)
getRaw(k)    == [name |-> "GET", key |-> k, value |-> Nil]
setRaw(k, v) == [name |-> "SET", key |-> k, value |-> v]
delRaw(k)    == [name |-> "DEL", key |-> k, value |-> Nil]
setex(k, v)  == [name |-> "SETEX", key |-> k, value |-> v]

Written(o) ==
  CASE o.name = "GET" -> data
    [] o.name = "DEL" -> [data EXCEPT ![o.key] = Nil]
    [] OTHER          -> [data EXCEPT ![o.key] = o.value]

Expiring(o) ==
  CASE o.name = "GET"   -> volatile
    [] o.name = "SETEX" -> volatile \cup {o.key}
    [] OTHER            -> volatile \ {o.key}

Given(o) == IF o.name = "GET" THEN data[o.key] ELSE OK

Idle(c) == asked[c] = NoOp

(* redisCommand, up to where it waits.                                       *)
Call(c, o) ==
  /\ Idle(c)
  /\ asked' = [asked EXCEPT ![c] = o]
  /\ pipe' = IF link /\ ~err THEN Append(pipe, o) ELSE pipe
  /\ result' = [result EXCEPT ![c] = Nil]
  /\ overlapped' = (overlapped \/ \E b \in Callers : ~Idle(b))
  /\ UNCHANGED <<data, volatile, stray, link, replies, err>>

(* What getRaw and commandOK make of a reply: a lookup wants a string.       *)
Taken(o, r) == IF o.name = "GET" /\ r = OK THEN Nil ELSE r

(* Mutant: the context is thrown away after an error and a new one made.     *)
ReturnReconnects(c) ==
  /\ ~Idle(c)
  /\ asked' = [asked EXCEPT ![c] = NoOp]
  /\ \/ /\ replies # <<>>
        /\ result' = [result EXCEPT ![c] = Taken(asked[c], Head(replies))]
        /\ replies' = Tail(replies)
        /\ UNCHANGED <<err, link>>
     \/ /\ replies = <<>> /\ ~link
        /\ result' = [result EXCEPT ![c] = Nil]
        /\ link' = TRUE
        /\ UNCHANGED <<replies, err>>
  /\ UNCHANGED <<data, volatile, stray, pipe, overlapped>>

(* Mutant: a reply is read without being taken off the connection.           *)
ReturnLeavesReply(c) ==
  /\ ~Idle(c)
  /\ asked' = [asked EXCEPT ![c] = NoOp]
  /\ \/ /\ replies # <<>>
        /\ result' = [result EXCEPT ![c] = Taken(asked[c], Head(replies))]
        /\ replies' = IF asked[c].name = "DEL" THEN replies ELSE Tail(replies)
        /\ UNCHANGED err
     \/ /\ replies = <<>> /\ (err \/ ~link)
        /\ result' = [result EXCEPT ![c] = Nil]
        /\ err' = TRUE
        /\ UNCHANGED replies
  /\ UNCHANGED <<data, volatile, stray, link, pipe, overlapped>>

(* ... and its return: with the next reply, or with NULL.                    *)
Return(c) ==
  /\ ~Idle(c)
  /\ asked' = [asked EXCEPT ![c] = NoOp]
  /\ \/ /\ replies # <<>>
        /\ result' = [result EXCEPT ![c] = Taken(asked[c], Head(replies))]
        /\ replies' = Tail(replies)
        /\ UNCHANGED err
     \/ /\ replies = <<>> /\ (err \/ ~link)
        /\ result' = [result EXCEPT ![c] = Nil]
        /\ err' = TRUE
        /\ UNCHANGED replies
  /\ UNCHANGED <<data, volatile, stray, link, pipe, overlapped>>

(* A new process: connect makes a new context.                               *)
connect ==
  /\ stray' = stray \cup {pipe[i] : i \in DOMAIN pipe}
  /\ link' = TRUE /\ pipe' = <<>> /\ replies' = <<>> /\ err' = FALSE
  /\ asked' = [c \in Callers |-> NoOp]
  /\ result' = [c \in Callers |-> Nil]
  /\ UNCHANGED <<data, volatile, overlapped>>

------------------------------------------------------------------------------
(* External: the server and the network.                                     *)
Execute ==
  /\ link /\ pipe # <<>>
  /\ data' = Written(Head(pipe))
  /\ volatile' = Expiring(Head(pipe))
  /\ replies' = Append(replies, Given(Head(pipe)))
  /\ pipe' = Tail(pipe)
  /\ UNCHANGED <<stray, link, err, asked, result, overlapped>>

LinkLost ==
  /\ link
  /\ link' = FALSE
  /\ stray' = stray \cup {pipe[i] : i \in DOMAIN pipe}
  /\ pipe' = <<>>
  /\ UNCHANGED <<data, volatile, replies, err, asked, result, overlapped>>

StrayEnds(o) ==
  /\ o \in stray
  /\ \/ data' = Written(o) /\ volatile' = Expiring(o)
     \/ UNCHANGED <<data, volatile>>
  /\ stray' = stray \ {o}
  /\ UNCHANGED <<link, pipe, replies, err, asked, result, overlapped>>

Expire(k) ==
  /\ k \in volatile
  /\ data' = [data EXCEPT ![k] = Nil]
  /\ volatile' = volatile \ {k}
  /\ UNCHANGED <<stray, link, pipe, replies, err, asked, result, overlapped>>

(* Whoever provisions the devices writes to the same server.                 *)
Provision(k, v) ==
  /\ data' = [data EXCEPT ![k] = v]
  /\ volatile' = volatile \ {k}
  /\ UNCHANGED <<stray, link, pipe, replies, err, asked, result, overlapped>>

Server ==
  \/ Execute
  \/ \E o \in stray : StrayEnds(o)
  \/ \E k \in volatile : Expire(k)

------------------------------------------------------------------------------
(* As long as no two calls have been under way at once, the store is what    *)
(* its callers take it for, lost connections and restarts included.          *)
KV == INSTANCE KeyValueStore WITH
  op     <- asked,
  phase  <- [c \in Callers |-> IF Idle(c) THEN "idle"
                               ELSE IF replies # <<>> THEN "done"
                               ELSE IF pipe # <<>> THEN "asked" ELSE "failed"],
  answer <- [c \in Callers |-> IF Idle(c) \/ replies = <<>> THEN Nil ELSE Head(replies)],
  loose  <- stray

AloneIsKeyValueStore == [][~overlapped' => KV!Next]_redisVars

==============================================================================
