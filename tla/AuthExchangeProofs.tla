--------------------------- MODULE AuthExchangeProofs ---------------------------
(***************************************************************************)
(* Proofs about AuthExchange, for any devices, connections, keys, bounds,  *)
(* losses and crashes:                                                     *)
(*   - a connection is only registered as the device at its other end, and *)
(*     gets answers that device accepts (IdentityInv);                     *)
(*   - what is left in Redis expires (CommandsInv, LookupsInv), and while  *)
(*     no two calls overlap RedisStore implements KeyValueStore, by the    *)
(*     lemmas about its operations (StoreInv);                             *)
(*   - then wake frames match the key of the device (WakeInv).             *)
(***************************************************************************)
EXTENDS AuthExchange, Integers, TLAPS

------------------------------------------------------------------------------
(* RedisStore, for any callers: each operation keeps StoreInv, which says    *)
(* what is on the connection while no two calls have overlapped, and is then *)
(* a step of KeyValueStore.                                                  *)

AtRest == pipe = <<>> /\ replies = <<>>

(* The connection while c alone waits: its command cannot be sent any more,  *)
(* is with the server, or has been answered.                                 *)
OnlyCall(c) ==
  \/ AtRest /\ (err \/ ~link)
  \/ pipe = <<asked[c]>> /\ replies = <<>> /\ link /\ ~err
  \/ \E r \in Values \cup {Nil, OK} :
       pipe = <<>> /\ replies = <<r>> /\ (asked[c].name = "GET" => r # OK)

Alone ==
  ~overlapped =>
    \/ AtRest /\ \A c \in Callers : Idle(c)
    \/ \E c \in Callers : ~Idle(c) /\ OnlyCall(c) /\ \A b \in Callers \ {c} : Idle(b)

StoreInv ==
  /\ RedisTypeOK
  /\ Alone
  /\ err => ~link

LEMMA NoOpIsNone == NoOp \notin Op
BY DEF NoOp, Op

LEMMA StoreInit ==
  ASSUME RedisInit, data \in [Keys -> Values \cup {Nil}]
  PROVE  StoreInv
<1>1. RedisTypeOK
  <2>1. pipe \in Seq(Op) /\ replies \in Seq(Values \cup {Nil, OK})
    BY DEF RedisInit
  <2> QED BY <2>1 DEF RedisInit, RedisTypeOK
<1>2. Alone /\ (err => ~link)
  BY DEF RedisInit, Alone, AtRest, Idle
<1> QED BY <1>1, <1>2 DEF StoreInv

LEMMA StoreUnchanged ==
  ASSUME StoreInv, UNCHANGED redisVars
  PROVE  StoreInv'
BY DEF StoreInv, RedisTypeOK, Alone, AtRest, OnlyCall, Idle, redisVars

(* What a command does to the entries and is answered with.                  *)
LEMMA CommandTypes ==
  ASSUME RedisTypeOK, NEW o \in Op
  PROVE  /\ Written(o) \in [Keys -> Values \cup {Nil}]
         /\ Expiring(o) \in SUBSET Keys
         /\ Given(o) \in Values \cup {Nil, OK}
         /\ o.name = "GET" => Given(o) # OK
<1>1. /\ o.name \in {"GET", "SET", "SETEX", "DEL"}
      /\ o.key \in Keys /\ o.value \in Values \cup {Nil}
  BY DEF Op
<1>2. data \in [Keys -> Values \cup {Nil}] /\ volatile \in SUBSET Keys
  BY DEF RedisTypeOK
<1>3. Written(o) \in [Keys -> Values \cup {Nil}]
  BY <1>1, <1>2 DEF Written
<1>4. Expiring(o) \in SUBSET Keys
  BY <1>1, <1>2 DEF Expiring
<1>5. Given(o) \in Values \cup {Nil, OK} /\ (o.name = "GET" => Given(o) # OK)
  BY <1>1, <1>2, OKAssumption DEF Given
<1> QED BY <1>3, <1>4, <1>5

LEMMA CommandsAgree ==
  ASSUME NEW o
  PROVE  Written(o) = KV!Written(o) /\ Expiring(o) = KV!Expiring(o) /\ Given(o) = KV!Given(o)
BY DEF Written, Expiring, Given, KV!Written, KV!Expiring, KV!Given

------------------------------------------------------------------------------
(* Each operation keeps the invariant.                                       *)
LEMMA CallKeeps ==
  ASSUME StoreInv, NEW c \in Callers, NEW o \in Op, Call(c, o)
  PROVE  StoreInv'
<1> USE DEF Call, StoreInv
<1>1. RedisTypeOK'
  BY DEF RedisTypeOK
<1>2. asked'[c] = o /\ \A b \in Callers \ {c} : asked'[b] = asked[b]
  BY DEF RedisTypeOK
<1>3. o # NoOp
  BY NoOpIsNone
<1>4. Alone'
  <2> SUFFICES ASSUME ~overlapped' PROVE OnlyCall(c)' /\ \A b \in Callers \ {c} : Idle(b)'
    BY <1>2, <1>3 DEF Alone, Idle
  <2>1. ~overlapped /\ \A b \in Callers : Idle(b)
    BY DEF RedisTypeOK
  <2>2. AtRest
    BY <2>1 DEF Alone
  <2>3. OnlyCall(c)'
    BY <2>2, <1>2 DEF OnlyCall, AtRest
  <2> QED BY <2>1, <2>3, <1>2 DEF Idle
<1> QED BY <1>1, <1>4

LEMMA TakenType ==
  ASSUME NEW o, NEW r \in Values \cup {Nil, OK}
  PROVE  Taken(o, r) \in Values \cup {Nil, OK}
BY DEF Taken

LEMMA ReturnKeeps ==
  ASSUME StoreInv, NEW c \in Callers, Return(c)
  PROVE  StoreInv'
<1> USE DEF Return, StoreInv
<1>1. RedisTypeOK'
  <2>1. CASE replies # <<>>
    <3>1. Head(replies) \in Values \cup {Nil, OK} /\ Tail(replies) \in Seq(Values \cup {Nil, OK})
      BY <2>1 DEF RedisTypeOK
    <3>2. result' \in [Callers -> Values \cup {Nil, OK}]
      BY <2>1, <3>1, TakenType DEF RedisTypeOK
    <3> QED BY <2>1, <3>1, <3>2 DEF RedisTypeOK
  <2>2. CASE replies = <<>>
    BY <2>2 DEF RedisTypeOK
  <2> QED BY <2>1, <2>2
<1>2. asked'[c] = NoOp /\ \A b \in Callers \ {c} : asked'[b] = asked[b]
  BY DEF RedisTypeOK
<1>3. Alone'
  <2> SUFFICES ASSUME ~overlapped PROVE AtRest' /\ \A b \in Callers : Idle(b)'
    BY DEF Alone
  <2>1. OnlyCall(c) /\ \A b \in Callers \ {c} : Idle(b)
    BY DEF Alone
  <2>2. UNCHANGED pipe /\ replies' = IF replies = <<>> THEN replies ELSE Tail(replies)
    OBVIOUS
  <2>3. pipe = <<>> /\ (replies # <<>> => \E r : replies = <<r>>)
    BY <2>1 DEF OnlyCall, AtRest
  <2>4. AtRest'
    BY <2>2, <2>3 DEF AtRest
  <2> QED BY <2>1, <2>4, <1>2 DEF Idle
<1>4. err' => ~link'
  OBVIOUS
<1> QED BY <1>1, <1>3, <1>4

LEMMA PipeIsOps ==
  ASSUME RedisTypeOK
  PROVE  {pipe[i] : i \in DOMAIN pipe} \subseteq Op
BY DEF RedisTypeOK

LEMMA ConnectKeeps ==
  ASSUME StoreInv, connect
  PROVE  StoreInv'
<1>1. RedisTypeOK'
  <2>1. stray' \subseteq Op
    BY PipeIsOps DEF StoreInv, RedisTypeOK, connect
  <2>2. pipe' \in Seq(Op) /\ replies' \in Seq(Values \cup {Nil, OK})
    BY DEF connect
  <2> QED BY <2>1, <2>2 DEF StoreInv, RedisTypeOK, connect
<1>2. Alone' /\ (err' => ~link')
  BY DEF Alone, AtRest, Idle, connect
<1> QED BY <1>1, <1>2 DEF StoreInv

LEMMA ExecuteKeeps ==
  ASSUME StoreInv, Execute
  PROVE  StoreInv'
<1> USE DEF Execute, StoreInv
<1>1. Head(pipe) \in Op /\ Tail(pipe) \in Seq(Op)
  BY DEF RedisTypeOK
<1>2. RedisTypeOK'
  BY <1>1, CommandTypes DEF RedisTypeOK
<1>3. Alone'
  <2> SUFFICES ASSUME ~overlapped
               PROVE  \E c \in Callers : ~Idle(c)' /\ OnlyCall(c)' /\ \A b \in Callers \ {c} : Idle(b)'
    BY DEF Alone
  <2>1. PICK c \in Callers : ~Idle(c) /\ OnlyCall(c) /\ \A b \in Callers \ {c} : Idle(b)
    BY DEF Alone, AtRest
  <2>2. pipe = <<asked[c]>> /\ replies = <<>>
    BY <2>1 DEF OnlyCall, AtRest
  <2>3. Head(pipe) = asked[c] /\ pipe' = <<>> /\ replies' = <<Given(asked[c])>>
    BY <2>2
  <2>4. OnlyCall(c)'
    BY <2>3, <1>1, CommandTypes DEF OnlyCall
  <2> QED BY <2>1, <2>4 DEF Idle
<1> QED BY <1>2, <1>3

LEMMA LinkLostKeeps ==
  ASSUME StoreInv, LinkLost
  PROVE  StoreInv'
<1>1. RedisTypeOK'
  <2>1. stray' \subseteq Op
    BY PipeIsOps DEF StoreInv, RedisTypeOK, LinkLost
  <2>2. pipe' \in Seq(Op)
    BY DEF LinkLost
  <2> QED BY <2>1, <2>2 DEF StoreInv, RedisTypeOK, LinkLost
<1>2. Alone' /\ (err' => ~link')
  BY DEF StoreInv, Alone, AtRest, OnlyCall, Idle, LinkLost
<1> QED BY <1>1, <1>2 DEF StoreInv

(* Steps that change only what the server keeps.                             *)
LEMMA ServerKeeps ==
  ASSUME StoreInv,
         data' \in [Keys -> Values \cup {Nil}], volatile' \subseteq Keys, stray' \subseteq stray,
         UNCHANGED <<link, pipe, replies, err, asked, result, overlapped>>
  PROVE  StoreInv'
BY DEF StoreInv, RedisTypeOK, Alone, AtRest, OnlyCall, Idle

LEMMA StrayKeeps ==
  ASSUME StoreInv, NEW o, StrayEnds(o)
  PROVE  StoreInv'
<1>1. o \in Op /\ RedisTypeOK
  BY DEF StoreInv, RedisTypeOK, StrayEnds
<1>2. data' \in [Keys -> Values \cup {Nil}] /\ volatile' \subseteq Keys
  BY <1>1, CommandTypes DEF StrayEnds, RedisTypeOK
<1> QED BY <1>2, ServerKeeps DEF StrayEnds

LEMMA ExpireKeeps ==
  ASSUME StoreInv, NEW k, Expire(k)
  PROVE  StoreInv'
BY ServerKeeps DEF StoreInv, RedisTypeOK, Expire

LEMMA ProvisionKeeps ==
  ASSUME StoreInv, NEW k \in Keys, NEW v \in Values \cup {Nil}, Provision(k, v)
  PROVE  StoreInv'
BY ServerKeeps DEF StoreInv, RedisTypeOK, Provision

LEMMA StoreServes ==
  ASSUME StoreInv, Server \/ \E c \in Callers : Return(c)
  PROVE  StoreInv'
BY ReturnKeeps, ExecuteKeeps, StrayKeeps, ExpireKeeps DEF Server

------------------------------------------------------------------------------
(* While no two calls overlap each operation is a step of KeyValueStore.     *)

(* Where the call of c stands, and what it will return.                      *)
Phase(c) == IF Idle(c) THEN "idle"
            ELSE IF replies # <<>> THEN "done"
            ELSE IF pipe # <<>> THEN "asked" ELSE "failed"

Answer(c) == IF Idle(c) \/ replies = <<>> THEN Nil ELSE Head(replies)

LEMMA CallIsAsk ==
  ASSUME StoreInv, NEW c \in Callers, NEW o \in Op, Call(c, o), ~overlapped'
  PROVE  KV!Ask(c)
<1> USE DEF Call, StoreInv
<1>1. asked'[c] = o /\ \A b \in Callers \ {c} : asked'[b] = asked[b]
  BY DEF RedisTypeOK
<1>2. o # NoOp
  BY NoOpIsNone
<1>3. \A b \in Callers : Idle(b)
  BY DEF RedisTypeOK
<1>4. AtRest
  BY <1>3 DEF Alone
<1>5. /\ Phase(c)' \in {"asked", "failed"}
      /\ \A b \in Callers : Phase(b) = "idle" /\ Answer(b) = Nil /\ Answer(b)' = Nil
      /\ \A b \in Callers \ {c} : Phase(b)' = "idle"
  BY <1>1, <1>2, <1>3, <1>4 DEF Phase, Answer, AtRest, Idle
<1>6. [b \in Callers |-> Phase(b)]' = [[b \in Callers |-> Phase(b)] EXCEPT ![c] = Phase(c)']
  BY <1>5
<1>7. UNCHANGED [b \in Callers |-> Answer(b)]
  BY <1>5
<1>8. asked'[c] \in Op /\ asked' = [asked EXCEPT ![c] = asked'[c]]
  BY <1>1
<1>9. /\ [b \in Callers |-> Phase(b)][c] = "idle"
      /\ [b \in Callers |-> Phase(b)]' \in
           {[[b \in Callers |-> Phase(b)] EXCEPT ![c] = "asked"],
            [[b \in Callers |-> Phase(b)] EXCEPT ![c] = "failed"]}
  BY <1>5, <1>6
<1>10. UNCHANGED <<data, volatile, stray>> /\ result' = [result EXCEPT ![c] = Nil]
  OBVIOUS
<1>11. KV!Op = Op
  BY DEF KV!Op, Op
<1> QED BY <1>7, <1>8, <1>9, <1>10, <1>11 DEF KV!Ask, Phase, Answer

LEMMA ReturnIsReturn ==
  ASSUME StoreInv, NEW c \in Callers, Return(c), ~overlapped'
  PROVE  KV!Return(c)
<1> USE DEF Return, StoreInv
<1>1. asked'[c] = NoOp /\ \A b \in Callers \ {c} : asked'[b] = asked[b]
  BY DEF RedisTypeOK
<1>2. OnlyCall(c) /\ \A b \in Callers \ {c} : Idle(b)
  BY DEF Alone
<1>3. /\ \A b \in Callers : Phase(b)' = "idle" /\ Answer(b)' = Nil
      /\ \A b \in Callers \ {c} : Phase(b) = "idle" /\ Answer(b) = Nil
  BY <1>1, <1>2 DEF Phase, Answer, Idle
<1>4. [b \in Callers |-> Phase(b)]' = [[b \in Callers |-> Phase(b)] EXCEPT ![c] = "idle"]
  BY <1>3
<1>5. [b \in Callers |-> Answer(b)]' = [[b \in Callers |-> Answer(b)] EXCEPT ![c] = Nil]
  BY <1>3
<1>6. /\ Phase(c) \in {"done", "failed"}
      /\ result' = [result EXCEPT ![c] = IF Phase(c) = "done" THEN Answer(c) ELSE Nil]
  <2>1. CASE replies # <<>>
    <3>1. Taken(asked[c], Head(replies)) = Head(replies)
      BY <2>1, <1>2 DEF OnlyCall, AtRest, Taken
    <3>2. Phase(c) = "done" /\ Answer(c) = Head(replies)
      BY <2>1 DEF Phase, Answer
    <3> QED BY <2>1, <3>1, <3>2
  <2>2. CASE replies = <<>>
    <3>1. pipe = <<>>
      BY <2>2, <1>2 DEF OnlyCall, AtRest
    <3> QED BY <2>2, <3>1 DEF Phase
  <2> QED BY <2>1, <2>2
<1> QED BY <1>4, <1>5, <1>6 DEF KV!Return, Phase, Answer, KV!NoOp, NoOp

LEMMA ExecuteIsEffect ==
  ASSUME StoreInv, Execute, ~overlapped'
  PROVE  \E c \in Callers : KV!Effect(c)
<1> USE DEF Execute, StoreInv
<1>1. PICK c \in Callers : ~Idle(c) /\ OnlyCall(c) /\ \A b \in Callers \ {c} : Idle(b)
  BY DEF Alone, AtRest
<1>2. pipe = <<asked[c]>> /\ replies = <<>>
  BY <1>1 DEF OnlyCall, AtRest
<1>3. Head(pipe) = asked[c] /\ pipe' = <<>> /\ replies' = <<Given(asked[c])>>
  BY <1>2
<1>4. /\ Phase(c) = "asked" /\ Phase(c)' = "done"
      /\ Answer(c)' = Given(asked[c])
      /\ \A b \in Callers \ {c} : /\ Phase(b) = "idle" /\ Phase(b)' = "idle"
                                  /\ Answer(b) = Nil /\ Answer(b)' = Nil
  BY <1>1, <1>2, <1>3 DEF Phase, Answer, Idle
<1>5. [b \in Callers |-> Phase(b)]' = [[b \in Callers |-> Phase(b)] EXCEPT ![c] = "done"]
  BY <1>4
<1>6. [b \in Callers |-> Answer(b)]' =
        [[b \in Callers |-> Answer(b)] EXCEPT ![c] = KV!Given(asked[c])]
  BY <1>4, CommandsAgree
<1>7. KV!Apply(asked[c])
  BY <1>3, CommandsAgree DEF KV!Apply
<1>8. UNCHANGED <<asked, result, stray>>
  OBVIOUS
<1> QED BY <1>4, <1>5, <1>6, <1>7, <1>8 DEF KV!Effect, Phase, Answer

(* What goes from the connection to the server when it is lost.              *)
LEMMA LooseIsAsked ==
  ASSUME StoreInv, ~overlapped
  PROVE  {pipe[i] : i \in DOMAIN pipe} = {asked[c] : c \in {b \in Callers : Phase(b) = "asked"}}
<1>1. CASE AtRest
  BY <1>1 DEF AtRest, Phase
<1>2. ASSUME NEW c \in Callers, ~Idle(c), OnlyCall(c), \A b \in Callers \ {c} : Idle(b)
      PROVE  {pipe[i] : i \in DOMAIN pipe} = {asked[b] : b \in {b \in Callers : Phase(b) = "asked"}}
  <2>1. CASE pipe = <<>>
    BY <2>1 DEF Phase
  <2>2. CASE pipe # <<>>
    <3>1. pipe = <<asked[c]>> /\ replies = <<>>
      BY <1>2, <2>2 DEF OnlyCall, AtRest
    <3>2. {b \in Callers : Phase(b) = "asked"} = {c}
      BY <1>2, <3>1 DEF Phase
    <3>3. DOMAIN pipe = {1} /\ pipe[1] = asked[c]
      BY <3>1
    <3> QED BY <3>2, <3>3
  <2> QED BY <2>1, <2>2
<1> QED BY <1>1, <1>2 DEF StoreInv, Alone

LEMMA LinkLostIsFail ==
  ASSUME StoreInv, LinkLost, ~overlapped'
  PROVE  KV!Fail
<1> USE DEF LinkLost
<1>1. stray' = stray \cup {asked[c] : c \in {b \in Callers : Phase(b) = "asked"}}
  BY LooseIsAsked
<1>2. \A b \in Callers : /\ Phase(b)' = IF Phase(b) = "asked" THEN "failed" ELSE Phase(b)
                         /\ Answer(b)' = Answer(b)
  BY DEF Phase, Answer, Idle
<1>3. [b \in Callers |-> Phase(b)]' =
        [c \in Callers |-> IF c \in {b \in Callers : [q \in Callers |-> Phase(q)][b] = "asked"}
                           THEN "failed" ELSE [q \in Callers |-> Phase(q)][c]]
  BY <1>2
<1>4. UNCHANGED [b \in Callers |-> Answer(b)]
  BY <1>2
<1>5. {b \in Callers : Phase(b) = "asked"} =
        {b \in Callers : [q \in Callers |-> Phase(q)][b] = "asked"}
  OBVIOUS
<1> QED BY <1>1, <1>3, <1>4, <1>5 DEF KV!Fail, Phase, Answer

LEMMA ConnectIsRestart ==
  ASSUME StoreInv, connect, ~overlapped'
  PROVE  KV!Restart
<1> USE DEF connect
<1>1. stray' = stray \cup {asked[c] : c \in {b \in Callers : Phase(b) = "asked"}}
  BY LooseIsAsked
<1>2. \A b \in Callers : Phase(b)' = "idle" /\ Answer(b)' = Nil
  BY DEF Phase, Answer, Idle
<1>3. /\ [b \in Callers |-> Phase(b)]' = [b \in Callers |-> "idle"]
      /\ [b \in Callers |-> Answer(b)]' = [b \in Callers |-> Nil]
  BY <1>2
<1>4. {b \in Callers : Phase(b) = "asked"} =
        {b \in Callers : [q \in Callers |-> Phase(q)][b] = "asked"}
  OBVIOUS
<1> QED BY <1>1, <1>3, <1>4 DEF KV!Restart, KV!NoOp, NoOp, Phase, Answer

LEMMA StrayIsLate ==
  ASSUME NEW o, StrayEnds(o)
  PROVE  KV!Late(o)
<1>1. UNCHANGED <<[b \in Callers |-> Phase(b)], [b \in Callers |-> Answer(b)]>>
  BY DEF StrayEnds, Phase, Answer, Idle
<1>2. KV!Apply(o) \/ UNCHANGED <<data, volatile>>
  BY CommandsAgree DEF StrayEnds, KV!Apply
<1> QED BY <1>1, <1>2 DEF StrayEnds, KV!Late, Phase, Answer

LEMMA ExpireIsExpire ==
  ASSUME NEW k, Expire(k)
  PROVE  KV!Expire(k)
<1>1. UNCHANGED <<[b \in Callers |-> Phase(b)], [b \in Callers |-> Answer(b)]>>
  BY DEF Expire, Phase, Answer, Idle
<1> QED BY <1>1 DEF Expire, KV!Expire, Phase, Answer

LEMMA ProvisionIsProvision ==
  ASSUME StoreInv, NEW k \in Keys, NEW v \in Values \cup {Nil}, Provision(k, v)
  PROVE  KV!Provision(k)
<1>1. UNCHANGED <<[b \in Callers |-> Phase(b)], [b \in Callers |-> Answer(b)]>>
  BY DEF Provision, Phase, Answer, Idle
<1>2. data'[k] = v /\ data' = [data EXCEPT ![k] = data'[k]]
  BY DEF Provision, StoreInv, RedisTypeOK
<1> QED BY <1>1, <1>2 DEF Provision, KV!Provision, Phase, Answer

(* Returns and steps of the server, together.                                *)
LEMMA ServedIsStep ==
  ASSUME StoreInv, Server \/ \E c \in Callers : Return(c), ~overlapped'
  PROVE  KV!Next
<1>1. ASSUME NEW c \in Callers, Return(c) PROVE KV!Next
  BY <1>1, ReturnIsReturn DEF KV!Next
<1>2. CASE Execute
  BY <1>2, ExecuteIsEffect DEF KV!Next
<1>3. ASSUME NEW o \in stray, StrayEnds(o) PROVE KV!Next
  BY <1>3, StrayIsLate DEF KV!Next
<1>4. ASSUME NEW k \in volatile, Expire(k) PROVE KV!Next
  <2>1. k \in Keys
    BY DEF StoreInv, RedisTypeOK
  <2> QED BY <1>4, <2>1, ExpireIsExpire DEF KV!Next
<1> QED BY <1>1, <1>2, <1>3, <1>4 DEF Server

------------------------------------------------------------------------------
(* Who a connection can claim to be.                                         *)

(* The handler of s works on a request that its device has made.             *)
OwnRequest(s) ==
  \E n \in 1..random[s], complete \in BOOLEAN :
    req[s] = DeviceRequest(Owner[s], n, complete)

PC == {"read", "index", "key", "online", "offline", "ended"}

IdentityTypes ==
  /\ random \in [Sessions -> Nat]
  /\ got = [s \in Sessions |-> got[s]]
  /\ pc \in [Sessions -> PC]
  /\ req = [s \in Sessions |-> req[s]]
  /\ id = [s \in Sessions |-> id[s]]
  /\ local_key = [s \in Sessions |-> local_key[s]]
  /\ device_id = [s \in Sessions |-> device_id[s]]
  /\ registered \in [Devices -> Sessions \cup {NoSession}]

WorksOnOwn ==
  \A s \in Sessions : pc[s] \in {"index", "key", "online"} => OwnRequest(s)

LoggedInAsOwn ==
  \A s \in Sessions :
    pc[s] = "online" => device_id[s] = Owner[s] /\ local_key[s] = DeviceKey[Owner[s]]

IdentityInv ==
  /\ IdentityTypes
  /\ WorksOnOwn
  /\ LoggedInAsOwn
  /\ IdentityIsOwn
  /\ AnswersAreAccepted

------------------------------------------------------------------------------
(* The fields of an authorization, complete or not.                          *)
LEMMA AuthFields ==
  ASSUME NEW n
  PROVE  /\ getAuthField(Authorization(n), "time") = {n}
         /\ getAuthField(Authorization(n), "random") = {n}
         /\ getAuthField(<<<<"time", n>>>>, "random") = {}
<1> DEFINE a == Authorization(n)
           t == <<<<"time", n>>>>
<1>1. /\ DOMAIN a = {1, 2}
      /\ a[1][1] = "time" /\ a[1][2] = n
      /\ a[2][1] = "random" /\ a[2][2] = n
  BY DEF Authorization
<1>2. DOMAIN t = {1} /\ t[1][1] = "time"
  OBVIOUS
<1>3. getAuthField(a, "time") = {n}
  <2>1. {j \in DOMAIN a : a[j][1] = "time" /\ \A k \in 1..(j - 1) : a[k][1] # "time"} = {1}
    BY <1>1
  <2> HIDE DEF a
  <2> QED BY <2>1, <1>1 DEF getAuthField
<1>4. getAuthField(a, "random") = {n}
  <2>1. {j \in DOMAIN a : a[j][1] = "random" /\ \A k \in 1..(j - 1) : a[k][1] # "random"} = {2}
    BY <1>1
  <2> HIDE DEF a
  <2> QED BY <2>1, <1>1 DEF getAuthField
<1>5. getAuthField(t, "random") = {}
  <2>1. {j \in DOMAIN t : t[j][1] = "random" /\ \A k \in 1..(j - 1) : t[k][1] # "random"} = {}
    BY <1>2
  <2> HIDE DEF t
  <2> QED BY <2>1 DEF getAuthField
<1> QED BY <1>3, <1>4, <1>5

(* What parseAuthRequestJson makes of a complete message.                    *)
LEMMA ParsedComplete ==
  ASSUME NEW json, NEW n, json.authorization = Authorization(n)
  PROVE  parseAuthRequestJson(json) =
           {[time |-> n, random |-> n, signature |-> json.signature]}
<1>1. /\ getAuthField(json.authorization, "time") = {n}
      /\ getAuthField(json.authorization, "random") = {n}
  BY AuthFields
<1>2. ASSUME NEW T, NEW R, T = {n}, R = {n}
      PROVE  {[time |-> t, random |-> r, signature |-> json.signature] : t \in T, r \in R}
               = {[time |-> n, random |-> n, signature |-> json.signature]}
  BY <1>2
<1> QED BY <1>1, <1>2 DEF parseAuthRequestJson

LEMMA ParsedIncomplete ==
  ASSUME NEW json, NEW n, json.authorization = <<<<"time", n>>>>
  PROVE  parseAuthRequestJson(json) = {}
BY AuthFields DEF parseAuthRequestJson

(* A device's request verifies for that device and its key only.             *)
LEMMA VerifiedIsOwn ==
  ASSUME NEW s \in Sessions, NEW k, OwnRequest(s), Verified(s, k)
  PROVE  /\ id[s] = Owner[s]
         /\ k = DeviceKey[Owner[s]]
<1>1. PICK n \in 1..random[s], complete \in BOOLEAN :
        req[s] = DeviceRequest(Owner[s], n, complete)
  BY DEF OwnRequest
<1> DEFINE d == Owner[s]
           plain == [authorization |-> IF complete THEN Authorization(n)
                                                   ELSE <<<<"time", n>>>>,
                     signature     |-> hmacSha256Base64(DeviceKey[d], <<d, n, n>>)]
<1>2. req[s].data = aes128CbcPkcs7Encrypt(DeviceKey[d], plain)
  BY <1>1 DEF DeviceRequest
<1>3. aes128CbcPkcs7Decrypt(k, req[s].data) \subseteq {plain}
  BY <1>2 DEF aes128CbcPkcs7Decrypt, aes128CbcPkcs7Encrypt
<1>4. PICK r \in parseAuthRequestJson(plain) : verifyAuthRequest(r, id[s], k)
  BY <1>3 DEF Verified
<1>5. complete
  <2>1. SUFFICES ASSUME ~complete PROVE FALSE
    OBVIOUS
  <2>2. plain.authorization = <<<<"time", n>>>>
    BY <2>1
  <2> QED BY <2>2, <1>4, ParsedIncomplete
<1>6. plain.authorization = Authorization(n)
  BY <1>5
<1>7. r = [time |-> n, random |-> n, signature |-> plain.signature]
  BY <1>4, <1>6, ParsedComplete
<1>8. plain.signature = hmacSha256Base64(DeviceKey[d], <<d, n, n>>)
  OBVIOUS
<1>9. hmacSha256Base64(DeviceKey[d], <<d, n, n>>) = hmacSha256Base64(k, <<id[s], n, n>>)
  BY <1>4, <1>7, <1>8 DEF verifyAuthRequest
<1> QED BY <1>9 DEF hmacSha256Base64

(* The random of a request is the number of one the device has made.         *)
LEMMA RandomIsOwn ==
  ASSUME NEW s \in Sessions, NEW k, OwnRequest(s),
         NEW json \in aes128CbcPkcs7Decrypt(k, req[s].data),
         NEW r \in parseAuthRequestJson(json)
  PROVE  r.random \in 1..random[s]
<1>1. PICK n \in 1..random[s], complete \in BOOLEAN :
        req[s] = DeviceRequest(Owner[s], n, complete)
  BY DEF OwnRequest
<1> DEFINE d == Owner[s]
           plain == [authorization |-> IF complete THEN Authorization(n)
                                                   ELSE <<<<"time", n>>>>,
                     signature     |-> hmacSha256Base64(DeviceKey[d], <<d, n, n>>)]
<1>2. req[s].data = aes128CbcPkcs7Encrypt(DeviceKey[d], plain)
  BY <1>1 DEF DeviceRequest
<1>3. json = plain
  BY <1>2 DEF aes128CbcPkcs7Decrypt, aes128CbcPkcs7Encrypt
<1>4. complete
  <2>1. SUFFICES ASSUME ~complete PROVE FALSE
    OBVIOUS
  <2>2. plain.authorization = <<<<"time", n>>>>
    BY <2>1
  <2> QED BY <2>2, <1>3, ParsedIncomplete
<1>5. plain.authorization = Authorization(n)
  BY <1>4
<1>6. r = [time |-> n, random |-> n, signature |-> plain.signature]
  BY <1>3, <1>5, ParsedComplete
<1> QED BY <1>1, <1>6

(* A device accepts the answer that is made with its id and its key.         *)
LEMMA ResponseIsAccepted ==
  ASSUME NEW d, NEW n
  PROVE  DeviceAccepts(d, n, buildAuthResponse(d, DeviceKey[d], n))
<1> DEFINE k == DeviceKey[d]
           json == [random        |-> n,
                    authorization |-> Authorization(n),
                    signature     |-> hmacSha256Base64(k, <<d, n, n>>)]
           response == buildAuthResponse(d, k, n)
           r == [time |-> n, random |-> n, signature |-> json.signature]
<1>1. d \in aes128CbcPkcs7Decrypt(k, response.devid)
  BY DEF aes128CbcPkcs7Decrypt, aes128CbcPkcs7Encrypt, buildAuthResponse
<1>2. json \in aes128CbcPkcs7Decrypt(k, response.data)
  BY DEF aes128CbcPkcs7Decrypt, aes128CbcPkcs7Encrypt, buildAuthResponse
<1>3. parseAuthRequestJson(json) = {r}
  <2>1. json.authorization = Authorization(n)
    OBVIOUS
  <2> HIDE DEF json
  <2> QED BY <2>1, ParsedComplete
<1>4. verifyAuthRequest(r, d, k)
  BY DEF verifyAuthRequest
<1>5. json.random = n
  OBVIOUS
<1> HIDE DEF json, response, r
<1> QED BY <1>1, <1>2, <1>3, <1>4, <1>5 DEF DeviceAccepts, response

------------------------------------------------------------------------------
(* The initial state, and steps that change nothing of it.                   *)
LEMMA IdentityInit == Init => IdentityInv
<1> SUFFICES ASSUME Init PROVE IdentityInv
  OBVIOUS
<1> USE DEF Init
<1>1. IdentityTypes
  BY NoSessionAssumption DEF IdentityTypes, PC
<1>2. WorksOnOwn /\ LoggedInAsOwn
  BY DEF WorksOnOwn, LoggedInAsOwn
<1>3. IdentityIsOwn
  BY DEF IdentityIsOwn
<1>4. AnswersAreAccepted
  BY DEF AnswersAreAccepted
<1> QED BY <1>1, <1>2, <1>3, <1>4 DEF IdentityInv

IdentityVars == <<random, got, pc, req, id, local_key, device_id, registered>>

LEMMA IdentityUnchanged ==
  ASSUME IdentityInv, UNCHANGED IdentityVars
  PROVE  IdentityInv'
BY DEF IdentityVars, IdentityInv, IdentityTypes, WorksOnOwn, OwnRequest, LoggedInAsOwn,
       IdentityIsOwn, AnswersAreAccepted

(* A handler of s that goes to a place outside the login, or stays.          *)
LEMMA IdentityLeaves ==
  ASSUME IdentityInv, NEW s \in Sessions, NEW p \in {"read", "offline", "ended"},
         pc' = [pc EXCEPT ![s] = p],
         UNCHANGED <<random, got, req, id, local_key, device_id>>,
         registered' \in [Devices -> Sessions \cup {NoSession}],
         \A d \in Devices : registered'[d] \in {registered[d], NoSession}
  PROVE  IdentityInv'
<1> USE DEF IdentityInv
<1>1. IdentityTypes'
  BY DEF IdentityTypes, PC
<1>2. WorksOnOwn'
  BY DEF WorksOnOwn, OwnRequest, IdentityTypes
<1>3. LoggedInAsOwn'
  BY DEF LoggedInAsOwn, IdentityTypes
<1>4. IdentityIsOwn'
  BY DEF IdentityIsOwn
<1>5. AnswersAreAccepted'
  BY DEF AnswersAreAccepted
<1> QED BY <1>1, <1>2, <1>3, <1>4, <1>5

(* The steps of a login.                                                     *)
LEMMA IdentityRequest ==
  ASSUME IdentityInv, NEW s \in Sessions, NEW complete \in BOOLEAN,
         handleLowPowerAuthReq(s, complete)
  PROVE  IdentityInv'
<1> USE DEF IdentityInv, handleLowPowerAuthReq
<1>1. /\ random' = [random EXCEPT ![s] = random[s] + 1]
      /\ req' = [req EXCEPT ![s] = DeviceRequest(Owner[s], random'[s], complete)]
      /\ pc' = [pc EXCEPT ![s] = "index"]
      /\ UNCHANGED <<got, id, local_key, device_id, registered>>
  OBVIOUS
<1>2. IdentityTypes'
  <2> USE DEF IdentityTypes, PC
  <2>1. random' \in [Sessions -> Nat] /\ pc' \in [Sessions -> PC]
    BY <1>1
  <2>2. req' = [q \in Sessions |-> req'[q]]
    BY <1>1, Zenon
  <2> QED BY <1>1, <2>1, <2>2
<1>3. OwnRequest(s)'
  <2>1. random'[s] \in 1..random'[s]
    BY <1>1 DEF IdentityTypes
  <2>2. req'[s] = DeviceRequest(Owner[s], random'[s], complete)
    BY <1>1, Zenon DEF IdentityTypes
  <2> QED BY <2>1, <2>2 DEF OwnRequest
<1>4. WorksOnOwn'
  <2> SUFFICES ASSUME NEW q \in Sessions, pc'[q] \in {"index", "key", "online"}, q # s
               PROVE  OwnRequest(q)'
    BY <1>3 DEF WorksOnOwn
  <2>1. pc'[q] = pc[q] /\ req'[q] = req[q] /\ random'[q] = random[q]
    BY <1>1 DEF IdentityTypes
  <2> QED BY <2>1 DEF WorksOnOwn, OwnRequest
<1>5. LoggedInAsOwn'
  BY <1>1 DEF LoggedInAsOwn, IdentityTypes
<1>6. IdentityIsOwn'
  BY <1>1 DEF IdentityIsOwn
<1>7. AnswersAreAccepted'
  <2> SUFFICES ASSUME NEW q \in Sessions, NEW response \in got[q]
               PROVE  \E n \in 1..random'[q] : DeviceAccepts(Owner[q], n, response)
    BY <1>1 DEF AnswersAreAccepted
  <2>1. random'[q] \in Nat /\ random[q] \in Nat /\ random'[q] >= random[q]
    BY <1>1 DEF IdentityTypes
  <2>2. PICK n \in 1..random[q] : DeviceAccepts(Owner[q], n, response)
    BY DEF AnswersAreAccepted
  <2>3. n \in 1..random'[q]
    BY <2>1, <2>2
  <2> QED BY <2>2, <2>3
<1> QED BY <1>2, <1>4, <1>5, <1>6, <1>7

LEMMA IdentityLookup ==
  ASSUME IdentityInv, NEW s \in Sessions, resolveLocalKey(s)
  PROVE  IdentityInv'
<1> USE DEF IdentityInv, resolveLocalKey
<1>1. /\ pc[s] = "index" /\ pc' = [pc EXCEPT ![s] = "key"]
      /\ id' = [id EXCEPT ![s] = result[s]]
      /\ UNCHANGED <<random, got, req, local_key, device_id, registered>>
  BY DEF deviceVars
<1>2. IdentityTypes'
  <2>1. id' = [q \in Sessions |-> id'[q]]
    BY <1>1, Zenon DEF IdentityTypes
  <2> QED BY <1>1, <2>1 DEF IdentityTypes, PC
<1>3. WorksOnOwn'
  BY <1>1 DEF WorksOnOwn, OwnRequest, IdentityTypes
<1>4. LoggedInAsOwn'
  BY <1>1 DEF LoggedInAsOwn, IdentityTypes
<1>5. IdentityIsOwn' /\ AnswersAreAccepted'
  BY <1>1 DEF IdentityIsOwn, AnswersAreAccepted
<1> QED BY <1>2, <1>3, <1>4, <1>5

LEMMA IdentityRegistered ==
  ASSUME IdentityInv, NEW s \in Sessions, registerOnlineState(s)
  PROVE  IdentityInv'
<1> USE DEF IdentityInv, registerOnlineState
<1>1. /\ pc[s] = "key" /\ pc' = [pc EXCEPT ![s] = "online"]
      /\ local_key' = [local_key EXCEPT ![s] = FoundKey(s)]
      /\ device_id' = [device_id EXCEPT ![s] = id[s]]
      /\ registered' = [registered EXCEPT ![id[s]] = s]
      /\ UNCHANGED <<random, got, req, id>>
  BY DEF deviceVars
<1>2. id[s] = Owner[s] /\ FoundKey(s) = DeviceKey[Owner[s]] /\ Owner[s] \in Devices
  <2>1. OwnRequest(s)
    BY <1>1 DEF WorksOnOwn
  <2>2. Verified(s, FoundKey(s))
    OBVIOUS
  <2> QED BY <2>1, <2>2, VerifiedIsOwn, OwnerAssumption
<1>3. IdentityTypes'
  <2>1. registered' \in [Devices -> Sessions \cup {NoSession}] /\ pc' \in [Sessions -> PC]
    BY <1>1, <1>2 DEF IdentityTypes, PC
  <2>2. device_id' = [q \in Sessions |-> device_id'[q]]
    BY <1>1, Zenon DEF IdentityTypes
  <2>3. local_key' = [q \in Sessions |-> local_key'[q]]
    BY <1>1, Zenon DEF IdentityTypes
  <2> QED BY <1>1, <2>1, <2>2, <2>3 DEF IdentityTypes
<1>4. WorksOnOwn'
  BY <1>1 DEF WorksOnOwn, OwnRequest, IdentityTypes
<1>5. device_id'[s] = Owner[s] /\ local_key'[s] = DeviceKey[Owner[s]]
  <2>1. device_id'[s] = id[s]
    BY <1>1, Zenon DEF IdentityTypes
  <2>2. local_key'[s] = FoundKey(s)
    BY <1>1, Zenon DEF IdentityTypes
  <2> QED BY <2>1, <2>2, <1>2
<1>6. \A q \in Sessions \ {s} : /\ device_id'[q] = device_id[q]
                               /\ local_key'[q] = local_key[q] /\ pc'[q] = pc[q]
  BY <1>1 DEF IdentityTypes
<1>7. LoggedInAsOwn'
  BY <1>5, <1>6 DEF LoggedInAsOwn
<1>8. IdentityIsOwn'
  <2>1. \A d \in Devices : registered'[d] # NoSession => Owner[registered'[d]] = d
    BY <1>1, <1>2 DEF IdentityIsOwn, IdentityTypes
  <2> QED BY <1>5, <1>6, <2>1 DEF IdentityIsOwn
<1>9. AnswersAreAccepted'
  BY <1>1 DEF AnswersAreAccepted
<1> QED BY <1>3, <1>4, <1>7, <1>8, <1>9

LEMMA IdentityAnswer ==
  ASSUME IdentityInv, NEW s \in Sessions, SendAuthResp(s)
  PROVE  IdentityInv'
<1> USE DEF IdentityInv, SendAuthResp
<1>1. /\ pc[s] = "online" /\ pc' = [pc EXCEPT ![s] = "read"]
      /\ req' = [req EXCEPT ![s] = NoRequest]
      /\ id' = [id EXCEPT ![s] = Nil]
      /\ local_key' = [local_key EXCEPT ![s] = Nil]
      /\ UNCHANGED <<random, device_id, registered>>
  OBVIOUS
<1>2. PICK json \in aes128CbcPkcs7Decrypt(local_key[s], req[s].data) :
        \E r \in parseAuthRequestJson(json) :
          got' = IF conn[s] = "open"
                 THEN [got EXCEPT ![s] =
                         got[s] \cup {buildAuthResponse(device_id[s], local_key[s], r.random)}]
                 ELSE got
  OBVIOUS
<1>3. PICK r \in parseAuthRequestJson(json) :
          got' = IF conn[s] = "open"
                 THEN [got EXCEPT ![s] =
                         got[s] \cup {buildAuthResponse(device_id[s], local_key[s], r.random)}]
                 ELSE got
  BY <1>2
<1>4. OwnRequest(s) /\ device_id[s] = Owner[s] /\ local_key[s] = DeviceKey[Owner[s]]
  BY <1>1 DEF WorksOnOwn, LoggedInAsOwn
<1>5. r.random \in 1..random[s]
  BY <1>4, RandomIsOwn
<1>6. DeviceAccepts(Owner[s], r.random, buildAuthResponse(device_id[s], local_key[s], r.random))
  BY <1>4, ResponseIsAccepted
<1>7. IdentityTypes'
  <2>1. got' = [q \in Sessions |-> got'[q]]
    BY <1>3, Zenon DEF IdentityTypes
  <2>2. req' = [q \in Sessions |-> req'[q]]
    BY <1>1, Zenon DEF IdentityTypes
  <2>3. id' = [q \in Sessions |-> id'[q]]
    BY <1>1, Zenon DEF IdentityTypes
  <2>4. local_key' = [q \in Sessions |-> local_key'[q]]
    BY <1>1, Zenon DEF IdentityTypes
  <2>5. pc' \in [Sessions -> PC]
    BY <1>1 DEF IdentityTypes, PC
  <2> QED BY <1>1, <2>1, <2>2, <2>3, <2>4, <2>5 DEF IdentityTypes
<1>8. \A q \in Sessions \ {s} : /\ pc'[q] = pc[q] /\ req'[q] = req[q]
                               /\ local_key'[q] = local_key[q]
  BY <1>1 DEF IdentityTypes
<1>9. pc'[s] = "read"
  BY <1>1 DEF IdentityTypes
<1>10. WorksOnOwn'
  <2> SUFFICES ASSUME NEW q \in Sessions \ {s}, pc[q] \in {"index", "key", "online"}
               PROVE  OwnRequest(q)'
    BY <1>8, <1>9 DEF WorksOnOwn
  <2> QED BY <1>1, <1>8 DEF WorksOnOwn, OwnRequest
<1>11. LoggedInAsOwn'
  BY <1>1, <1>8, <1>9 DEF LoggedInAsOwn
<1>12. IdentityIsOwn'
  BY <1>1 DEF IdentityIsOwn
<1>13. AnswersAreAccepted'
  <2> SUFFICES ASSUME NEW q \in Sessions, NEW response \in got'[q]
               PROVE  \E n \in 1..random[q] : DeviceAccepts(Owner[q], n, response)
    BY <1>1 DEF AnswersAreAccepted
  <2>1. CASE response \in got[q]
    BY <2>1 DEF AnswersAreAccepted
  <2>2. CASE response \notin got[q]
    <3>1. q = s /\ response = buildAuthResponse(device_id[s], local_key[s], r.random)
      BY <1>3, <2>2 DEF IdentityTypes
    <3> QED BY <3>1, <1>5, <1>6
  <2> QED BY <2>1, <2>2
<1> QED BY <1>7, <1>10, <1>11, <1>12, <1>13

LEMMA IdentityCrash ==
  ASSUME IdentityInv, CrashAndRestart
  PROVE  IdentityInv'
<1> USE DEF IdentityInv, CrashAndRestart, deviceVars
<1>1. IdentityTypes'
  BY NoSessionAssumption DEF IdentityTypes, PC
<1>2. WorksOnOwn' /\ LoggedInAsOwn'
  BY DEF WorksOnOwn, LoggedInAsOwn
<1>3. IdentityIsOwn'
  BY DEF IdentityIsOwn
<1>4. AnswersAreAccepted'
  BY DEF AnswersAreAccepted
<1> QED BY <1>1, <1>2, <1>3, <1>4

(* Every step preserves the invariant.                                       *)
LEMMA IdentityStep ==
  ASSUME IdentityInv, [Next]_vars
  PROVE  IdentityInv'
<1> USE DEF deviceVars, sessionVars, UnchangedLocals
<1>1. ASSUME NEW s \in Sessions, Accept(s) \/ ConnectionLost(s)
      PROVE  IdentityInv'
  BY <1>1, IdentityUnchanged DEF IdentityVars, Accept, ConnectionLost
<1>2. ASSUME NEW s \in Sessions, NEW complete \in BOOLEAN, handleLowPowerAuthReq(s, complete)
      PROVE  IdentityInv'
  BY <1>2, IdentityRequest
<1>3. ASSUME NEW s \in Sessions, UnknownDevice(s) \/ SignatureFailed(s)
      PROVE  IdentityInv'
  BY <1>3, IdentityLeaves DEF UnknownDevice, SignatureFailed, Refuse, IdentityInv, IdentityTypes
<1>4. ASSUME NEW s \in Sessions, resolveLocalKey(s)
      PROVE  IdentityInv'
  BY <1>4, IdentityLookup
<1>5. ASSUME NEW s \in Sessions, registerOnlineState(s)
      PROVE  IdentityInv'
  BY <1>5, IdentityRegistered
<1>6. ASSUME NEW s \in Sessions, SendAuthResp(s)
      PROVE  IdentityInv'
  BY <1>6, IdentityAnswer
<1>7. ASSUME NEW s \in Sessions, handleDisconnect(s)
      PROVE  IdentityInv'
  <2>1. CASE device_id[s] = Nil
    BY <1>7, <2>1, IdentityLeaves DEF handleDisconnect, IdentityInv, IdentityTypes
  <2>2. CASE device_id[s] # Nil
    <3>1. registered' = [registered EXCEPT ![device_id[s]] = NoSession]
      BY <1>7, <2>2 DEF handleDisconnect
    <3>2. /\ registered' \in [Devices -> Sessions \cup {NoSession}]
          /\ \A d \in Devices : registered'[d] \in {registered[d], NoSession}
      BY <3>1 DEF IdentityInv, IdentityTypes
    <3> QED BY <1>7, <2>2, <3>2, IdentityLeaves DEF handleDisconnect
  <2> QED BY <2>1, <2>2
<1>8. ASSUME NEW s \in Sessions, Disconnected(s)
      PROVE  IdentityInv'
  BY <1>8, IdentityLeaves DEF Disconnected, IdentityInv, IdentityTypes
<1>9. CASE WakeHandler
  BY <1>9, IdentityUnchanged
     DEF IdentityVars, WakeHandler, sendLowPowerWake, LocalKeyNotFound, LocalKeyFound, SendWakeup
<1>10. CASE CrashAndRestart
  BY <1>10, IdentityCrash
<1>11. ASSUME NEW d \in Devices, NEW k \in Secrets, setLocalKeyForDev(d, k)
       PROVE  IdentityInv'
  BY <1>11, IdentityUnchanged DEF IdentityVars, setLocalKeyForDev
<1>12. CASE RedisLost \/ RedisStep
  BY <1>12, IdentityUnchanged DEF IdentityVars, RedisLost, RedisStep
<1>13. CASE UNCHANGED vars
  BY <1>13, IdentityUnchanged DEF IdentityVars, vars
<1> QED
  BY <1>1, <1>2, <1>3, <1>4, <1>5, <1>6, <1>7, <1>8, <1>9, <1>10, <1>11, <1>12, <1>13
     DEF Next, Handler

LEMMA IdentityInvariant == Spec => []IdentityInv
BY IdentityInit, IdentityStep, PTL DEF Spec

(* IdentityIsOwn: the signature check keeps a connection from being          *)
(* registered as any device but its own, even with replies of other callers  *)
(* and a wrong index.                                                        *)
THEOREM ConnectionsAreThemselves == Spec => []IdentityIsOwn
<1>1. IdentityInv => IdentityIsOwn
  BY DEF IdentityInv
<1> QED BY <1>1, IdentityInvariant, PTL

(* AnswersAreAccepted: handleLowPowerAuthReq answers with the key it has     *)
(* verified the request with.                                                *)
THEOREM DevicesAcceptAnswers == Spec => []AnswersAreAccepted
<1>1. IdentityInv => AnswersAreAccepted
  BY DEF IdentityInv
<1> QED BY <1>1, IdentityInvariant, PTL

------------------------------------------------------------------------------
(* What the handlers ask of Redis: lookups, and writes to entries that       *)
(* expire.                                                                   *)
Entries == {"online", "pending_wake"} \X Values

Commands ==
  {o \in Op : o.name = "GET" \/ (o.name \in {"SETEX", "DEL"} /\ o.key \in Entries)}

CommandsInv ==
  /\ StoreInv
  /\ pipe \in Seq(Commands)
  /\ stray \subseteq Commands
  /\ asked \in [Callers -> Commands \cup {NoOp}]
  /\ volatile \subseteq Entries
  /\ LeftoversExpire

(* A handler that has looked something up finds a value or nothing.          *)
LookupsInv ==
  /\ \A s \in Sessions : pc[s] \in {"index", "key"} =>
       IF Idle(s) THEN result[s] \in Values \cup {Nil} ELSE asked[s].name = "GET"
  /\ wake.at = "key" =>
       wake.device \in Devices /\ wake.session \in Sessions /\ Owner[wake.session] = wake.device
  /\ wake.at = "pending" => wake.session \in Sessions

LEMMA HandlersCommands ==
  ASSUME NEW v \in Values
  PROVE  /\ {getDeviceIdByEncryptedId(v), getLocalKey(v), setOffline(v), setOnline(v),
             savePendingWake(v)} \subseteq Commands
         /\ getDeviceIdByEncryptedId(v).name = "GET" /\ getLocalKey(v).name = "GET"
BY KeysAssumption, ValuesAssumption
   DEF getDeviceIdByEncryptedId, getLocalKey, setOffline, setOnline, savePendingWake,
       getRaw, delRaw, setex, Commands, Entries, Op

(* What a command of the handlers leaves in Redis has a TTL.                 *)
LEMMA CommandsExpire ==
  ASSUME CommandsInv, NEW o \in Commands,
         data' = Written(o), volatile' = Expiring(o)
  PROVE  LeftoversExpire' /\ volatile' \subseteq Entries
<1>1. /\ data \in [Keys -> Values \cup {Nil}] /\ volatile \subseteq Entries
      /\ o.key \in Keys
      /\ \A k \in Entries : data[k] # Nil => k \in volatile
      /\ Entries \subseteq Keys
  BY KeysAssumption
     DEF CommandsInv, StoreInv, RedisTypeOK, Commands, Op, LeftoversExpire, Entries
<1>2. CASE o.name = "GET"
  BY <1>1, <1>2 DEF Written, Expiring, LeftoversExpire, Entries
<1>3. CASE o.name = "DEL"
  <2>1. data' = [data EXCEPT ![o.key] = Nil] /\ volatile' = volatile \ {o.key}
    BY <1>3 DEF Written, Expiring
  <2> QED BY <1>1, <2>1 DEF LeftoversExpire, Entries
<1>4. CASE o.name = "SETEX"
  <2>1. data' = [data EXCEPT ![o.key] = o.value] /\ volatile' = volatile \cup {o.key}
    BY <1>4 DEF Written, Expiring
  <2>2. o.key \in Entries
    BY <1>4 DEF Commands
  <2> QED BY <1>1, <2>1, <2>2 DEF LeftoversExpire, Entries
<1> QED BY <1>2, <1>3, <1>4 DEF Commands

(* What a step may do to the store.                                          *)
StoreStep ==
  \/ UNCHANGED redisVars
  \/ \E c \in Callers, o \in Commands : Call(c, o)
  \/ connect
  \/ LinkLost
  \/ \E d \in Devices, k \in Secrets : Provision(<<"local_key", d>>, k)
  \/ Server \/ \E c \in Callers : Return(c)

LEMMA StepsOfStore ==
  ASSUME IdentityInv, LookupsInv, [Next]_vars
  PROVE  StoreStep
<1> USE CallersAssumption, ValuesAssumption, OwnerAssumption
<1>1. ASSUME NEW c \in Callers, NEW o \in Commands, Call(c, o) PROVE StoreStep
  BY <1>1 DEF StoreStep
<1>2. ASSUME NEW s \in Sessions, Accept(s) \/ ConnectionLost(s) \/ UnknownDevice(s)
                                 \/ SignatureFailed(s) \/ SendAuthResp(s) \/ Disconnected(s)
      PROVE  StoreStep
  BY <1>2 DEF StoreStep, Accept, ConnectionLost, UnknownDevice, SignatureFailed, Refuse,
              SendAuthResp, Disconnected
<1>3. ASSUME NEW s \in Sessions, NEW complete \in BOOLEAN, handleLowPowerAuthReq(s, complete)
      PROVE  StoreStep
  <2>1. Call(s, getDeviceIdByEncryptedId(req'[s].devid)) /\ req'[s].devid = Owner[s]
    BY <1>3, Zenon DEF handleLowPowerAuthReq, IdentityInv, IdentityTypes, DeviceRequest
  <2> QED BY <1>1, <2>1, HandlersCommands
<1>4. ASSUME NEW s \in Sessions, resolveLocalKey(s) PROVE StoreStep
  <2>1. result[s] \in Values
    BY <1>4 DEF resolveLocalKey, LookupsInv
  <2> QED BY <1>1, <1>4, <2>1, HandlersCommands DEF resolveLocalKey
<1>5. ASSUME NEW s \in Sessions, registerOnlineState(s) PROVE StoreStep
  <2>1. pc[s] = "key" /\ Verified(s, FoundKey(s)) /\ Call(s, setOnline(id[s]))
    BY <1>5 DEF registerOnlineState
  <2>2. id[s] = Owner[s]
    BY <2>1, VerifiedIsOwn DEF IdentityInv, WorksOnOwn
  <2> QED BY <1>1, <2>1, <2>2, HandlersCommands
<1>6. ASSUME NEW s \in Sessions, handleDisconnect(s) PROVE StoreStep
  <2>1. CASE device_id[s] = Nil
    BY <1>6, <2>1 DEF handleDisconnect, StoreStep
  <2>2. CASE device_id[s] # Nil
    <3>1. device_id[s] = Owner[s] /\ Call(s, setOffline(device_id[s]))
      BY <1>6, <2>2 DEF handleDisconnect, IdentityInv, IdentityIsOwn
    <3> QED BY <1>1, <3>1, HandlersCommands
  <2> QED BY <2>1, <2>2
<1>7. CASE WakeHandler
  <2>1. ASSUME NEW d \in Devices, sendLowPowerWake(d) PROVE StoreStep
    BY <1>1, <2>1, HandlersCommands DEF sendLowPowerWake
  <2>2. CASE LocalKeyNotFound \/ SendWakeup
    BY <2>2 DEF StoreStep, LocalKeyNotFound, SendWakeup
  <2>3. CASE LocalKeyFound
    <3>1. wake.device \in Values /\ Call(Backend, savePendingWake(wake.device))
      BY <2>3 DEF LocalKeyFound, LookupsInv
    <3> QED BY <1>1, <3>1, HandlersCommands
  <2> QED BY <1>7, <2>1, <2>2, <2>3 DEF WakeHandler
<1>8. CASE CrashAndRestart
  BY <1>8 DEF StoreStep, CrashAndRestart
<1>9. ASSUME NEW d \in Devices, NEW k \in Secrets, setLocalKeyForDev(d, k) PROVE StoreStep
  BY <1>9 DEF StoreStep, setLocalKeyForDev
<1>10. CASE RedisLost \/ RedisStep
  BY <1>10 DEF StoreStep, RedisLost, RedisStep
<1>11. CASE UNCHANGED vars
  BY <1>11 DEF StoreStep, vars
<1> QED
  BY <1>2, <1>3, <1>4, <1>5, <1>6, <1>7, <1>8, <1>9, <1>10, <1>11 DEF Next, Handler

LEMMA LocalKeysAreKeys ==
  ASSUME NEW v \in Values
  PROVE  <<"local_key", v>> \in Keys \ Entries
BY KeysAssumption DEF Entries

(* Each of these steps keeps what Redis holds in order.                      *)
LEMMA CommandsStep ==
  ASSUME CommandsInv, StoreStep
  PROVE  CommandsInv'
<1> USE DEF CommandsInv
<1>1. CASE UNCHANGED redisVars
  BY <1>1, StoreUnchanged DEF redisVars, LeftoversExpire
<1>2. ASSUME NEW c \in Callers, NEW o \in Commands, Call(c, o) PROVE CommandsInv'
  <2>1. StoreInv'
    BY <1>2, CallKeeps DEF Commands
  <2>2. pipe' \in Seq(Commands) /\ asked' \in [Callers -> Commands \cup {NoOp}]
    BY <1>2 DEF Call
  <2> QED BY <1>2, <2>1, <2>2 DEF Call, LeftoversExpire
<1>3. CASE connect \/ LinkLost
  <2>1. StoreInv'
    BY <1>3, ConnectKeeps, LinkLostKeeps
  <2>2. {pipe[i] : i \in DOMAIN pipe} \subseteq Commands
    OBVIOUS
  <2>3. stray' \subseteq Commands
    BY <1>3, <2>2 DEF connect, LinkLost
  <2>4. pipe' = <<>> /\ volatile' \subseteq Entries /\ LeftoversExpire'
    BY <1>3 DEF connect, LinkLost, LeftoversExpire
  <2>5. pipe' \in Seq(Commands)
    BY <2>4
  <2>6. asked' \in [Callers -> Commands \cup {NoOp}]
    BY <1>3 DEF connect, LinkLost
  <2> QED BY <2>1, <2>3, <2>4, <2>5, <2>6
<1>4. ASSUME NEW d \in Devices, NEW k \in Secrets, Provision(<<"local_key", d>>, k)
      PROVE  CommandsInv'
  <2>1. <<"local_key", d>> \in Keys \ Entries /\ k \in Values
    BY LocalKeysAreKeys, ValuesAssumption
  <2>2. StoreInv'
    BY <1>4, <2>1, ProvisionKeeps
  <2>3. LeftoversExpire'
    BY <1>4, <2>1 DEF Provision, LeftoversExpire, Entries, StoreInv, RedisTypeOK
  <2> QED BY <1>4, <2>2, <2>3 DEF Provision
<1>5. CASE Server \/ \E c \in Callers : Return(c)
  <2>1. StoreInv'
    BY <1>5, StoreServes
  <2>2. CASE Execute
    <3>1. Head(pipe) \in Commands /\ Tail(pipe) \in Seq(Commands)
      BY <2>2 DEF Execute
    <3>2. LeftoversExpire' /\ volatile' \subseteq Entries
      BY <2>2, <3>1, CommandsExpire DEF Execute
    <3> QED BY <2>1, <2>2, <3>1, <3>2 DEF Execute
  <2>3. ASSUME NEW o \in stray, StrayEnds(o) PROVE CommandsInv'
    <3>1. LeftoversExpire' /\ volatile' \subseteq Entries
      BY <2>3, CommandsExpire DEF StrayEnds, LeftoversExpire
    <3> QED BY <2>1, <2>3, <3>1 DEF StrayEnds
  <2>4. ASSUME NEW k \in volatile, Expire(k) PROVE CommandsInv'
    <3>1. LeftoversExpire'
      BY <2>4 DEF Expire, LeftoversExpire, StoreInv, RedisTypeOK
    <3> QED BY <2>1, <2>4, <3>1 DEF Expire
  <2>5. ASSUME NEW c \in Callers, Return(c) PROVE CommandsInv'
    BY <2>1, <2>5 DEF Return, LeftoversExpire
  <2> QED BY <1>5, <2>2, <2>3, <2>4, <2>5 DEF Server
<1> QED BY <1>1, <1>2, <1>3, <1>4, <1>5 DEF StoreStep

(* ... and is a step of KeyValueStore.                                       *)
LEMMA StepIsKeyValueStore ==
  ASSUME CommandsInv, StoreStep, ~overlapped'
  PROVE  KV!Next \/ UNCHANGED redisVars
<1>1. StoreInv
  BY DEF CommandsInv
<1>2. ASSUME NEW c \in Callers, NEW o \in Commands, Call(c, o) PROVE KV!Next
  BY <1>1, <1>2, CallIsAsk DEF Commands, KV!Next
<1>3. CASE connect \/ LinkLost
  BY <1>1, <1>3, ConnectIsRestart, LinkLostIsFail DEF KV!Next
<1>4. ASSUME NEW d \in Devices, NEW k \in Secrets, Provision(<<"local_key", d>>, k)
      PROVE  KV!Next
  <2>1. <<"local_key", d>> \in Keys /\ k \in Values
    BY LocalKeysAreKeys, ValuesAssumption
  <2>2. KV!Provision(<<"local_key", d>>)
    BY <1>1, <1>4, <2>1, ProvisionIsProvision
  <2> QED BY <2>1, <2>2 DEF KV!Next
<1>5. CASE Server \/ \E c \in Callers : Return(c)
  BY <1>1, <1>5, ServedIsStep
<1> QED BY <1>2, <1>3, <1>4, <1>5 DEF StoreStep

------------------------------------------------------------------------------
LEMMA LookupsInit == Init => CommandsInv /\ LookupsInv
<1> SUFFICES ASSUME Init PROVE CommandsInv /\ LookupsInv
  OBVIOUS
<1>1. data \in [Keys -> Values \cup {Nil}] /\ LeftoversExpire
  BY InitialDataAssumption DEF Init, LeftoversExpire
<1>2. StoreInv
  BY <1>1, StoreInit DEF Init
<1>3. pipe \in Seq(Commands) /\ asked \in [Callers -> Commands \cup {NoOp}]
  BY DEF Init, RedisInit
<1> QED BY <1>1, <1>2, <1>3 DEF CommandsInv, LookupsInv, Init, RedisInit, NoWake

(* A step that keeps the handler's places, and of the calls under way        *)
(* changes at most that they return.                                         *)
LEMMA LookupsStore ==
  ASSUME CommandsInv, LookupsInv, RedisStep \/ RedisLost \/ UNCHANGED vars
  PROVE  LookupsInv'
<1> USE CallersAssumption DEF sessionVars, deviceVars
<1>1. UNCHANGED <<pc, wake>>
  BY DEF RedisStep, RedisLost, vars
<1>2. CASE UNCHANGED <<asked, result>>
  BY <1>1, <1>2 DEF LookupsInv, Idle
<1>3. ASSUME NEW c \in Callers, Return(c) PROVE LookupsInv'
  <2> SUFFICES ASSUME NEW s \in Sessions, pc[s] \in {"index", "key"}
               PROVE  IF Idle(s)' THEN result'[s] \in Values \cup {Nil} ELSE asked'[s].name = "GET"
    BY <1>1 DEF LookupsInv
  <2>1. /\ asked \in [Callers -> Commands \cup {NoOp}] /\ replies \in Seq(Values \cup {Nil, OK})
        /\ result \in [Callers -> Values \cup {Nil, OK}]
    BY DEF CommandsInv, StoreInv, RedisTypeOK
  <2>2. CASE s = c
    <3>1. asked[s].name = "GET" /\ asked'[s] = NoOp
      BY <1>3, <2>1, <2>2 DEF Return, LookupsInv
    <3>2. CASE replies = <<>>
      BY <1>3, <2>1, <2>2, <3>1, <3>2 DEF Return, Idle
    <3>3. CASE replies # <<>>
      <4>1. Head(replies) \in Values \cup {Nil, OK}
        BY <2>1, <3>3
      <4>2. result'[s] = Taken(asked[s], Head(replies))
        BY <1>3, <2>1, <2>2, <3>3 DEF Return
      <4> QED BY <3>1, <4>1, <4>2 DEF Taken, Idle
    <3> QED BY <3>2, <3>3
  <2>3. CASE s # c
    BY <1>3, <2>1, <2>3 DEF Return, LookupsInv, Idle
  <2> QED BY <2>2, <2>3
<1>4. CASE Server \/ LinkLost \/ UNCHANGED vars
  BY <1>2, <1>4 DEF Server, Execute, StrayEnds, Expire, LinkLost, vars, redisVars
<1> QED BY <1>3, <1>4 DEF RedisStep, RedisLost

(* A step of one handler, which waits for a lookup at "index" and "key".     *)
LEMMA LookupsHandler ==
  ASSUME LookupsInv, NEW s \in Sessions, UNCHANGED wake,
         \A q \in Sessions \ {s} :
           pc'[q] = pc[q] /\ asked'[q] = asked[q] /\ result'[q] = result[q],
         pc'[s] \in {"index", "key"} => asked'[s] \in Commands /\ asked'[s].name = "GET"
  PROVE  LookupsInv'
<1>1. asked'[s] \in Commands => asked'[s] # NoOp
  BY NoOpIsNone DEF Commands
<1> QED BY <1>1 DEF LookupsInv, Idle

(* What a call leaves alone.                                                 *)
LEMMA CallIsOwn ==
  ASSUME CommandsInv, NEW c \in Callers, NEW o, Call(c, o)
  PROVE  /\ asked'[c] = o /\ result'[c] = Nil
         /\ \A b \in Callers \ {c} : asked'[b] = asked[b] /\ result'[b] = result[b]
BY DEF CommandsInv, StoreInv, RedisTypeOK, Call

LEMMA LookupsStep ==
  ASSUME IdentityInv, CommandsInv, LookupsInv, [Next]_vars
  PROVE  LookupsInv'
<1> USE CallersAssumption, ValuesAssumption, OwnerAssumption
<1>1. /\ pc \in [Sessions -> PC] /\ registered \in [Devices -> Sessions \cup {NoSession}]
      /\ req = [s \in Sessions |-> req[s]]
  BY DEF IdentityInv, IdentityTypes
<1>2. ASSUME NEW s \in Sessions, Accept(s) \/ ConnectionLost(s) PROVE LookupsInv'
  BY <1>2 DEF Accept, ConnectionLost, LookupsInv, redisVars, Idle
<1>3. ASSUME NEW s \in Sessions,
             UnknownDevice(s) \/ SignatureFailed(s) \/ SendAuthResp(s) \/ Disconnected(s)
      PROVE  LookupsInv'
  <2>1. UNCHANGED <<wake, asked, result>> /\ \E p \in {"read", "ended"} : pc' = [pc EXCEPT ![s] = p]
    BY <1>3 DEF UnknownDevice, SignatureFailed, Refuse, SendAuthResp, Disconnected, redisVars
  <2> QED BY <1>1, <2>1, LookupsHandler
<1>4. ASSUME NEW s \in Sessions, NEW complete \in BOOLEAN, handleLowPowerAuthReq(s, complete)
      PROVE  LookupsInv'
  <2>1. /\ Call(s, getDeviceIdByEncryptedId(req'[s].devid))
        /\ pc' = [pc EXCEPT ![s] = "index"] /\ UNCHANGED wake
    BY <1>4 DEF handleLowPowerAuthReq
  <2>2. req'[s].devid = Owner[s]
    BY <1>1, <1>4, Zenon DEF handleLowPowerAuthReq, DeviceRequest
  <2> QED BY <1>1, <2>1, <2>2, CallIsOwn, HandlersCommands, LookupsHandler
<1>5. ASSUME NEW s \in Sessions, resolveLocalKey(s) PROVE LookupsInv'
  <2>1. /\ Call(s, getLocalKey(result[s])) /\ result[s] \in Values
        /\ pc' = [pc EXCEPT ![s] = "key"] /\ UNCHANGED wake
    BY <1>5 DEF resolveLocalKey, LookupsInv
  <2> QED BY <1>1, <2>1, CallIsOwn, HandlersCommands, LookupsHandler
<1>6. ASSUME NEW s \in Sessions, registerOnlineState(s) PROVE LookupsInv'
  <2>1. Call(s, setOnline(id[s])) /\ pc' = [pc EXCEPT ![s] = "online"] /\ UNCHANGED wake
    BY <1>6 DEF registerOnlineState
  <2> QED BY <1>1, <2>1, CallIsOwn, LookupsHandler
<1>7. ASSUME NEW s \in Sessions, handleDisconnect(s) PROVE LookupsInv'
  <2>1. CASE device_id[s] = Nil
    <3>1. UNCHANGED <<wake, asked, result>> /\ pc' = [pc EXCEPT ![s] = "ended"]
      BY <1>7, <2>1 DEF handleDisconnect, redisVars
    <3> QED BY <1>1, <3>1, LookupsHandler
  <2>2. CASE device_id[s] # Nil
    <3>1. Call(s, setOffline(device_id[s])) /\ pc' = [pc EXCEPT ![s] = "offline"] /\ UNCHANGED wake
      BY <1>7, <2>2 DEF handleDisconnect
    <3> QED BY <1>1, <3>1, CallIsOwn, LookupsHandler
  <2> QED BY <2>1, <2>2
<1>8. CASE WakeHandler
  <2>1. ASSUME NEW d \in Devices, sendLowPowerWake(d) PROVE LookupsInv'
    <3>1. /\ Call(Backend, getLocalKey(d)) /\ UNCHANGED pc
          /\ registered[d] # NoSession
          /\ wake' = [at |-> "key", device |-> d, session |-> registered[d]]
      BY <2>1 DEF sendLowPowerWake, sessionVars
    <3>2. registered[d] \in Sessions /\ Owner[registered[d]] = d
      BY <1>1, <3>1 DEF IdentityInv, IdentityIsOwn
    <3>3. \A s \in Sessions : asked'[s] = asked[s] /\ result'[s] = result[s]
      BY <3>1, CallIsOwn
    <3>4. /\ wake'.at = "key" => wake'.device \in Devices /\ wake'.session \in Sessions
                                 /\ Owner[wake'.session] = wake'.device
          /\ wake'.at # "pending"
      BY <3>1, <3>2
    <3> QED BY <3>1, <3>3, <3>4 DEF LookupsInv, Idle
  <2>2. CASE LocalKeyNotFound \/ SendWakeup
    BY <2>2 DEF LocalKeyNotFound, SendWakeup, NoWake, LookupsInv, Idle, redisVars, sessionVars
  <2>3. CASE LocalKeyFound
    <3>1. /\ Call(Backend, savePendingWake(wake.device)) /\ UNCHANGED pc
          /\ wake' = [at |-> "pending", session |-> wake.session,
                      frame |-> makeWakeupFrame(result[Backend])]
          /\ wake.session \in Sessions
      BY <2>3 DEF LocalKeyFound, sessionVars, LookupsInv
    <3>2. \A s \in Sessions : asked'[s] = asked[s] /\ result'[s] = result[s]
      BY <3>1, CallIsOwn
    <3>3. wake'.at = "pending" /\ wake'.session \in Sessions
      BY <3>1
    <3> QED BY <3>1, <3>2, <3>3 DEF LookupsInv, Idle
  <2> QED BY <1>8, <2>1, <2>2, <2>3 DEF WakeHandler
<1>9. CASE CrashAndRestart
  BY <1>9 DEF CrashAndRestart, NoWake, LookupsInv
<1>10. ASSUME NEW d \in Devices, NEW k \in Secrets, setLocalKeyForDev(d, k) PROVE LookupsInv'
  BY <1>10 DEF setLocalKeyForDev, Provision, LookupsInv, Idle, sessionVars
<1>11. CASE RedisStep \/ RedisLost \/ UNCHANGED vars
  BY <1>11, LookupsStore
<1> QED
  BY <1>2, <1>3, <1>4, <1>5, <1>6, <1>7, <1>8, <1>9, <1>10, <1>11 DEF Next, Handler

LEMMA ExchangeInvariant == Spec => [](IdentityInv /\ CommandsInv /\ LookupsInv)
<1>1. Init => IdentityInv /\ CommandsInv /\ LookupsInv
  BY IdentityInit, LookupsInit
<1>2. IdentityInv /\ CommandsInv /\ LookupsInv /\ [Next]_vars
        => IdentityInv' /\ CommandsInv' /\ LookupsInv'
  BY IdentityStep, StepsOfStore, CommandsStep, LookupsStep
<1> QED BY <1>1, <1>2, PTL DEF Spec

(* LeftoversExpire: setOnline and savePendingWake give their entries a TTL   *)
(* with the same command that writes them, and no other command writes such  *)
(* an entry, however late the server executes it.                            *)
THEOREM NothingStays == Spec => []LeftoversExpire
<1>1. CommandsInv => LeftoversExpire
  BY DEF CommandsInv
<1> QED BY <1>1, ExchangeInvariant, PTL

(* AloneIsKeyValueStore: redisCommand, used by one caller at a time, does    *)
(* what the store promises, across lost connections and restarts.            *)
THEOREM AloneImplementsStore == Spec => AloneIsKeyValueStore
<1>1. IdentityInv /\ CommandsInv /\ LookupsInv /\ [Next]_vars
        => [~overlapped' => KV!Next]_redisVars
  BY StepsOfStore, StepIsKeyValueStore
<1> QED BY <1>1, ExchangeInvariant, PTL DEF Spec, AloneIsKeyValueStore

------------------------------------------------------------------------------
(* Which key a wake frame is made from.                                      *)
KeyOf(d) == data[<<"local_key", d>>]

(* Redis has no key for d, or the one of its firmware.                       *)
Good(d) == KeyOf(d) \in {Nil, DeviceKey[d]}

(* The login of s has the key in Redis, or none because Redis is lost.       *)
LoginReadsKey(s) ==
  pc[s] = "key" =>
    /\ id[s] \in Values
    /\ Idle(s) => result[s] = KeyOf(id[s]) \/ (result[s] = Nil /\ ~link)
    /\ ~Idle(s) => /\ asked[s] = getLocalKey(id[s])
                   /\ replies # <<>> => Head(replies) = KeyOf(id[s])

(* A wake reads a key only if it has asked while Redis was there.            *)
WakeReadsKey ==
  wake.at = "key" =>
    /\ Idle(Backend) /\ result[Backend] # Nil =>
         result[Backend] = KeyOf(wake.device) /\ Good(wake.device)
    /\ ~Idle(Backend) => /\ asked[Backend] = getLocalKey(wake.device)
                         /\ pipe # <<>> \/ replies # <<>> => Good(wake.device)
                         /\ replies # <<>> => Head(replies) = KeyOf(wake.device)

FrameOf(s) == makeWakeupFrame(DeviceKey[Owner[s]])

KeysMatch ==
  /\ \A d \in Devices : registered[d] # NoSession /\ link => Good(d)
  /\ \A s \in Sessions : LoginReadsKey(s)
  /\ WakeReadsKey
  /\ wake.at = "pending" => wake.frame = FrameOf(wake.session)
  /\ \A s \in Sessions : frames[s] \subseteq {FrameOf(s)}

WakeInv ==
  /\ rekeyed \in BOOLEAN /\ frames = [s \in Sessions |-> frames[s]]
  /\ ~rekeyed /\ ~overlapped => KeysMatch

LEMMA KeyTypes ==
  ASSUME CommandsInv, NEW v \in Values
  PROVE  KeyOf(v) \in Values \cup {Nil}
BY LocalKeysAreKeys DEF CommandsInv, StoreInv, RedisTypeOK, KeyOf

(* Only provisioning changes a local key.                                    *)
LEMMA KeysStay ==
  ASSUME CommandsInv, RedisStep \/ RedisLost, NEW v \in Values
  PROVE  KeyOf(v)' = KeyOf(v)
<1> DEFINE k == <<"local_key", v>>
<1>1. k \in Keys \ Entries /\ data \in [Keys -> Values \cup {Nil}]
  BY LocalKeysAreKeys DEF CommandsInv, StoreInv, RedisTypeOK
<1> HIDE DEF k
<1>2. ASSUME NEW o \in Commands, data' = Written(o)
      PROVE  data'[k] = data[k]
  <2>1. o.name = "GET" \/ (o.name \in {"SETEX", "DEL"} /\ o.key \in Entries)
    BY DEF Commands
  <2> QED BY <1>1, <1>2, <2>1 DEF Written
<1>3. CASE Execute
  <2>1. Head(pipe) \in Commands
    BY <1>3 DEF Execute, CommandsInv
  <2> QED BY <1>2, <1>3, <2>1 DEF Execute, KeyOf, k
<1>4. ASSUME NEW o \in stray, StrayEnds(o) PROVE KeyOf(v)' = KeyOf(v)
  BY <1>2, <1>4 DEF StrayEnds, KeyOf, k, CommandsInv
<1>5. ASSUME NEW q \in volatile, Expire(q) PROVE KeyOf(v)' = KeyOf(v)
  BY <1>1, <1>5 DEF Expire, KeyOf, k, CommandsInv
<1>6. CASE LinkLost \/ \E c \in Callers : Return(c)
  BY <1>6 DEF LinkLost, Return, KeyOf
<1> QED BY <1>3, <1>4, <1>5, <1>6 DEF RedisStep, RedisLost, Server

(* A call that does not overlap finds the connection at rest.                *)
LEMMA CallAtRest ==
  ASSUME CommandsInv, NEW c \in Callers, NEW o, Call(c, o), ~overlapped'
  PROVE  /\ \A b \in Callers : Idle(b)
         /\ pipe = <<>> /\ replies' = <<>>
         /\ pipe' # <<>> => link
         /\ UNCHANGED <<data, link>>
<1>1. /\ StoreInv /\ \A b \in Callers : Idle(b)
      /\ ~overlapped
  BY DEF Call, CommandsInv, StoreInv, RedisTypeOK
<1>2. AtRest
  BY <1>1 DEF StoreInv, Alone
<1> QED BY <1>1, <1>2 DEF AtRest, Call

(* A step of the handler of s.                                               *)
LEMMA MatchHandler ==
  ASSUME KeysMatch, NEW s \in Sessions,
         UNCHANGED <<data, link, replies, wake, frames>>,
         asked'[Backend] = asked[Backend], result'[Backend] = result[Backend],
         Idle(Backend) \/ UNCHANGED pipe,
         \A q \in Sessions \ {s} : /\ pc'[q] = pc[q] /\ id'[q] = id[q]
                                   /\ asked'[q] = asked[q] /\ result'[q] = result[q],
         LoginReadsKey(s)',
         \A d \in Devices : registered'[d] # NoSession /\ link => Good(d)
  PROVE  KeysMatch'
<1>1. WakeReadsKey'
  BY DEF KeysMatch, WakeReadsKey, Idle, KeyOf, Good
<1>2. \A q \in Sessions : LoginReadsKey(q)'
  BY DEF KeysMatch, LoginReadsKey, Idle, KeyOf
<1>3. \A d \in Devices : registered'[d] # NoSession /\ link' => Good(d)'
  BY DEF Good, KeyOf
<1> QED BY <1>1, <1>2, <1>3 DEF KeysMatch, FrameOf

(* A step of the wake handler.                                               *)
LEMMA MatchWake ==
  ASSUME KeysMatch,
         UNCHANGED <<data, link, replies, pc, id, registered>>,
         \A q \in Sessions : asked'[q] = asked[q] /\ result'[q] = result[q],
         WakeReadsKey',
         wake'.at = "pending" => wake'.frame = FrameOf(wake'.session),
         \A s \in Sessions : frames'[s] \subseteq {FrameOf(s)}
  PROVE  KeysMatch'
<1>1. \A q \in Sessions : LoginReadsKey(q)'
  BY DEF KeysMatch, LoginReadsKey, Idle, KeyOf
<1>2. \A d \in Devices : registered'[d] # NoSession /\ link' => Good(d)'
  BY DEF KeysMatch, Good, KeyOf
<1> QED BY <1>1, <1>2 DEF KeysMatch, FrameOf

LEMMA MatchLogin ==
  ASSUME IdentityInv, CommandsInv, LookupsInv, KeysMatch, ~overlapped',
         NEW s \in Sessions, registerOnlineState(s)
  PROVE  KeysMatch'
<1> USE CallersAssumption, OwnerAssumption, ValuesAssumption
<1>1. /\ pc[s] = "key" /\ Idle(s) /\ Verified(s, FoundKey(s))
      /\ registered' = [registered EXCEPT ![id[s]] = s]
      /\ pc' = [pc EXCEPT ![s] = "online"] /\ Call(s, setOnline(id[s]))
      /\ UNCHANGED <<id, wake, frames>>
  BY DEF registerOnlineState, deviceVars
<1>2. id[s] = Owner[s] /\ FoundKey(s) = DeviceKey[Owner[s]]
  BY <1>1, VerifiedIsOwn DEF IdentityInv, WorksOnOwn
<1>3. link => Good(Owner[s])
  BY <1>1, <1>2 DEF KeysMatch, LoginReadsKey, FoundKey, Good
<1>4. \A d \in Devices : registered'[d] # NoSession /\ link => Good(d)
  BY <1>1, <1>2, <1>3 DEF KeysMatch, IdentityInv, IdentityTypes
<1>5. /\ \A b \in Callers : Idle(b)
      /\ replies' = <<>> /\ UNCHANGED <<data, link, replies>>
  BY <1>1, CallAtRest DEF Call
<1>6. /\ pc'[s] = "online" /\ \A q \in Sessions \ {s} : pc'[q] = pc[q]
  BY <1>1 DEF IdentityInv, IdentityTypes
<1>7. \A b \in Callers \ {s} : asked'[b] = asked[b] /\ result'[b] = result[b]
  BY <1>1, CallIsOwn
<1>8. LoginReadsKey(s)'
  BY <1>6 DEF LoginReadsKey
<1> QED BY <1>1, <1>4, <1>5, <1>6, <1>7, <1>8, MatchHandler

LEMMA MatchLookup ==
  ASSUME IdentityInv, CommandsInv, LookupsInv, KeysMatch, ~overlapped',
         NEW s \in Sessions, resolveLocalKey(s)
  PROVE  KeysMatch'
<1> USE CallersAssumption
<1>1. /\ pc' = [pc EXCEPT ![s] = "key"] /\ Call(s, getLocalKey(result[s]))
      /\ id' = [id EXCEPT ![s] = result[s]] /\ result[s] \in Values
      /\ UNCHANGED <<wake, frames, registered>>
  BY DEF resolveLocalKey, deviceVars, LookupsInv
<1>2. /\ \A b \in Callers : Idle(b)
      /\ replies' = <<>> /\ UNCHANGED <<data, link, replies>>
  BY <1>1, CallAtRest DEF Call
<1>3. /\ id'[s] = result[s]
      /\ \A q \in Sessions \ {s} : pc'[q] = pc[q] /\ id'[q] = id[q]
  BY <1>1 DEF IdentityInv, IdentityTypes
<1>4. /\ asked'[s] = getLocalKey(result[s])
      /\ \A b \in Callers \ {s} : asked'[b] = asked[b] /\ result'[b] = result[b]
  BY <1>1, CallIsOwn
<1>5. ~Idle(s)'
  BY <1>1, <1>4, HandlersCommands, NoOpIsNone DEF Idle, Commands
<1>6. LoginReadsKey(s)'
  BY <1>1, <1>2, <1>3, <1>4, <1>5 DEF LoginReadsKey
<1> QED BY <1>1, <1>2, <1>3, <1>4, <1>6, MatchHandler DEF KeysMatch

(* The other steps of a handler are outside "key" and register nothing.      *)
LEMMA MatchOther ==
  ASSUME IdentityInv, CommandsInv, KeysMatch, ~overlapped', NEW s \in Sessions,
         \/ \E complete \in BOOLEAN : handleLowPowerAuthReq(s, complete)
         \/ UnknownDevice(s) \/ SignatureFailed(s) \/ SendAuthResp(s)
         \/ handleDisconnect(s) \/ Disconnected(s)
  PROVE  KeysMatch'
<1> USE CallersAssumption DEF deviceVars, sessionVars, UnchangedLocals, redisVars
<1>1. UNCHANGED <<wake, frames>>
  BY DEF handleLowPowerAuthReq, UnknownDevice, SignatureFailed, Refuse, SendAuthResp,
         handleDisconnect, Disconnected
<1>2. /\ \A q \in Sessions \ {s} : pc'[q] = pc[q] /\ id'[q] = id[q]
      /\ pc'[s] # "key"
  <2>1. \E p \in {"index", "read", "offline", "ended"} : pc' = [pc EXCEPT ![s] = p]
    BY DEF handleLowPowerAuthReq, UnknownDevice, SignatureFailed, Refuse, SendAuthResp,
           handleDisconnect, Disconnected
  <2>2. id' = id \/ id' = [id EXCEPT ![s] = Nil]
    BY DEF handleLowPowerAuthReq, UnknownDevice, SignatureFailed, Refuse, SendAuthResp,
           handleDisconnect, Disconnected
  <2> QED BY <2>1, <2>2 DEF IdentityInv, IdentityTypes
<1>3. UNCHANGED redisVars \/ \E o : Call(s, o)
  BY DEF handleLowPowerAuthReq, UnknownDevice, SignatureFailed, Refuse, SendAuthResp,
         handleDisconnect, Disconnected
<1>4. /\ UNCHANGED <<data, link, replies>>
      /\ Idle(Backend) \/ UNCHANGED pipe
      /\ \A b \in Callers \ {s} : asked'[b] = asked[b] /\ result'[b] = result[b]
  <2>1. CASE UNCHANGED redisVars
    BY <2>1
  <2>2. ASSUME NEW o, Call(s, o)
        PROVE  /\ UNCHANGED <<data, link, replies>> /\ Idle(Backend)
               /\ \A b \in Callers \ {s} : asked'[b] = asked[b] /\ result'[b] = result[b]
    BY <2>2, CallAtRest, CallIsOwn DEF Call
  <2> QED BY <1>3, <2>1, <2>2
<1>5. \A d \in Devices : registered'[d] \in {registered[d], NoSession}
  <2>1. UNCHANGED registered \/ registered' = [registered EXCEPT ![device_id[s]] = NoSession]
    BY DEF handleLowPowerAuthReq, UnknownDevice, SignatureFailed, Refuse, SendAuthResp,
           handleDisconnect, Disconnected
  <2> QED BY <2>1 DEF IdentityInv, IdentityTypes
<1>6. \A d \in Devices : registered'[d] # NoSession /\ link => Good(d)
  BY <1>5 DEF KeysMatch
<1>7. LoginReadsKey(s)'
  BY <1>2 DEF LoginReadsKey
<1> QED BY <1>1, <1>2, <1>4, <1>6, <1>7, MatchHandler

LEMMA MatchWakeHandler ==
  ASSUME IdentityInv, CommandsInv, LookupsInv, KeysMatch, ~overlapped', WakeHandler,
         frames = [s \in Sessions |-> frames[s]]
  PROVE  KeysMatch'
<1> USE CallersAssumption, ValuesAssumption DEF deviceVars, sessionVars, redisVars
<1>1. ASSUME NEW d \in Devices, sendLowPowerWake(d) PROVE KeysMatch'
  <2>1. /\ Call(Backend, getLocalKey(d)) /\ registered[d] # NoSession
        /\ UNCHANGED <<pc, id, registered, frames>>
        /\ wake' = [at |-> "key", device |-> d, session |-> registered[d]]
    BY <1>1 DEF sendLowPowerWake
  <2>2. wake'.at = "key" /\ wake'.device = d
    BY <2>1
  <2>3. /\ replies' = <<>> /\ UNCHANGED <<data, link, replies>>
        /\ pipe' # <<>> => link
    BY <2>1, CallAtRest DEF Call
  <2>4. /\ asked'[Backend] = getLocalKey(d)
        /\ \A q \in Sessions : asked'[q] = asked[q] /\ result'[q] = result[q]
    BY <2>1, CallIsOwn
  <2>5. ~Idle(Backend)'
    BY <2>4, HandlersCommands, NoOpIsNone DEF Idle, Commands
  <2>6. pipe' # <<>> => Good(d)'
    BY <2>1, <2>3 DEF KeysMatch, Good, KeyOf
  <2>7. WakeReadsKey'
    BY <2>2, <2>3, <2>4, <2>5, <2>6 DEF WakeReadsKey
  <2> QED BY <2>1, <2>2, <2>3, <2>4, <2>7, MatchWake DEF KeysMatch
<1>2. CASE LocalKeyNotFound
  <2>1. wake' = NoWake /\ UNCHANGED <<data, link, replies, pc, id, registered, asked, result, frames>>
    BY <1>2 DEF LocalKeyNotFound
  <2>2. wake'.at = "idle"
    BY <2>1 DEF NoWake
  <2> QED BY <2>1, <2>2, MatchWake DEF KeysMatch, WakeReadsKey
<1>3. CASE LocalKeyFound
  <2>1. /\ wake.at = "key" /\ Idle(Backend) /\ result[Backend] # Nil
        /\ Call(Backend, savePendingWake(wake.device))
        /\ UNCHANGED <<pc, id, registered, frames>>
        /\ wake' = [at |-> "pending", session |-> wake.session,
                    frame |-> makeWakeupFrame(result[Backend])]
    BY <1>3 DEF LocalKeyFound
  <2>2. result[Backend] = DeviceKey[Owner[wake.session]]
    BY <2>1 DEF KeysMatch, WakeReadsKey, Good, LookupsInv
  <2>3. wake'.at = "pending" /\ wake'.frame = FrameOf(wake'.session)
    BY <2>1, <2>2 DEF FrameOf
  <2>4. /\ UNCHANGED <<data, link, replies>>
        /\ \A q \in Sessions : asked'[q] = asked[q] /\ result'[q] = result[q]
    BY <2>1, CallAtRest, CallIsOwn DEF Call
  <2> QED BY <2>1, <2>3, <2>4, MatchWake DEF KeysMatch, WakeReadsKey
<1>4. CASE SendWakeup
  <2>1. /\ wake.at = "pending" /\ wake' = NoWake
        /\ UNCHANGED <<data, link, replies, pc, id, registered, asked, result>>
        /\ frames' = IF conn[wake.session] = "open"
                     THEN [frames EXCEPT ![wake.session] = frames[wake.session] \cup {wake.frame}]
                     ELSE frames
    BY <1>4 DEF SendWakeup
  <2>2. wake'.at = "idle"
    BY <2>1 DEF NoWake
  <2>3. \A s \in Sessions : frames'[s] \subseteq frames[s] \cup {FrameOf(s)}
    BY <2>1 DEF KeysMatch
  <2>4. \A s \in Sessions : frames'[s] \subseteq {FrameOf(s)}
    BY <2>3 DEF KeysMatch
  <2> QED BY <2>1, <2>2, <2>4, MatchWake DEF WakeReadsKey
<1> QED BY <1>1, <1>2, <1>3, <1>4 DEF WakeHandler

(* What a lookup of a key returns.                                           *)
LEMMA LookupReturns ==
  ASSUME CommandsInv, NEW c \in Callers, NEW v \in Values, Return(c),
         asked[c] = getLocalKey(v), replies # <<>> => Head(replies) = KeyOf(v)
  PROVE  /\ result'[c] = KeyOf(v) \/ (result'[c] = Nil /\ ~link)
         /\ replies = <<>> => result'[c] = Nil
<1>1. /\ result \in [Callers -> Values \cup {Nil, OK}] /\ (err => ~link)
  BY DEF CommandsInv, StoreInv, RedisTypeOK
<1>2. CASE replies = <<>>
  BY <1>1, <1>2 DEF Return
<1>3. CASE replies # <<>>
  <2>1. result'[c] = Taken(asked[c], KeyOf(v))
    BY <1>1, <1>3 DEF Return
  <2>2. KeyOf(v) # OK
    BY KeyTypes, OKAssumption
  <2> QED BY <1>3, <2>1, <2>2 DEF Taken
<1> QED BY <1>2, <1>3

LEMMA MatchReturn ==
  ASSUME CommandsInv, LookupsInv, KeysMatch, ~overlapped, NEW c \in Callers, Return(c),
         UNCHANGED <<pc, id, registered, wake, frames>>
  PROVE  KeysMatch'
<1> USE CallersAssumption, ValuesAssumption
<1>1. /\ ~Idle(c) /\ UNCHANGED <<data, link, pipe>>
      /\ \A b \in Callers \ {c} : Idle(b)
  BY DEF Return, CommandsInv, StoreInv, Alone
<1>2. /\ asked'[c] = NoOp
      /\ \A b \in Callers \ {c} : asked'[b] = asked[b] /\ result'[b] = result[b]
  BY DEF Return, CommandsInv, StoreInv, RedisTypeOK
<1>3. \A b \in Callers : Idle(b)'
  BY <1>1, <1>2 DEF Idle
<1>4. ASSUME NEW s \in Sessions PROVE LoginReadsKey(s)'
  <2>1. CASE s # c
    BY <1>1, <1>2, <1>3, <2>1 DEF KeysMatch, LoginReadsKey, KeyOf
  <2>2. CASE s = c /\ pc[s] = "key"
    <3>1. /\ id[s] \in Values /\ asked[s] = getLocalKey(id[s])
          /\ replies # <<>> => Head(replies) = KeyOf(id[s])
      BY <1>1, <2>2 DEF KeysMatch, LoginReadsKey
    <3>2. result'[s] = KeyOf(id[s]) \/ (result'[s] = Nil /\ ~link)
      BY <2>2, <3>1, LookupReturns
    <3> QED BY <1>1, <1>3, <3>1, <3>2 DEF LoginReadsKey, KeyOf
  <2>3. CASE s = c /\ pc[s] # "key"
    BY <2>3 DEF LoginReadsKey
  <2> QED BY <2>1, <2>2, <2>3
<1>5. WakeReadsKey'
  <2> SUFFICES ASSUME wake.at = "key", result'[Backend] # Nil
               PROVE  result'[Backend] = KeyOf(wake.device) /\ Good(wake.device)
    BY <1>1, <1>3 DEF WakeReadsKey, KeyOf, Good
  <2>1. CASE Backend # c
    BY <1>1, <1>2, <2>1 DEF KeysMatch, WakeReadsKey
  <2>2. CASE Backend = c
    <3>1. /\ wake.device \in Values /\ asked[c] = getLocalKey(wake.device)
          /\ replies # <<>> => Good(wake.device) /\ Head(replies) = KeyOf(wake.device)
      BY <1>1, <2>2 DEF KeysMatch, WakeReadsKey, LookupsInv
    <3>2. /\ result'[c] = KeyOf(wake.device) \/ result'[c] = Nil
          /\ replies = <<>> => result'[c] = Nil
      BY <3>1, LookupReturns
    <3> QED BY <2>2, <3>1, <3>2
  <2> QED BY <2>1, <2>2
<1>6. \A d \in Devices : registered'[d] # NoSession /\ link' => Good(d)'
  BY <1>1 DEF KeysMatch, Good, KeyOf
<1> QED BY <1>4, <1>5, <1>6 DEF KeysMatch, FrameOf

(* Steps of the server and the network, after which a reply is at most the   *)
(* one for the caller that waits.                                            *)
LEMMA MatchServer ==
  ASSUME CommandsInv, LookupsInv, KeysMatch, ~overlapped, Server \/ LinkLost,
         RedisStep \/ RedisLost,
         UNCHANGED <<pc, id, registered, wake, frames>>
  PROVE  KeysMatch'
<1> USE CallersAssumption, ValuesAssumption
<1>1. UNCHANGED <<asked, result>> /\ (link' => link)
  BY DEF Server, Execute, StrayEnds, Expire, LinkLost
<1>2. \A v \in Values : KeyOf(v)' = KeyOf(v)
  BY KeysStay
<1>3. \A d \in Devices : Good(d)' = Good(d)
  BY <1>2 DEF Good
<1>4. ASSUME NEW c \in Callers, NEW v \in Values, asked[c] = getLocalKey(v), ~Idle(c),
             replies # <<>> => Head(replies) = KeyOf(v)
      PROVE  /\ replies' # <<>> => Head(replies') = KeyOf(v)
             /\ pipe' # <<>> \/ replies' # <<>> => pipe # <<>> \/ replies # <<>>
  <2>1. CASE Execute
    <3>1. OnlyCall(c)
      BY <1>4 DEF CommandsInv, StoreInv, Alone
    <3>2. pipe = <<asked[c]>> /\ replies = <<>>
      BY <2>1, <3>1 DEF OnlyCall, AtRest, Execute
    <3>3. replies' = <<Given(asked[c])>>
      BY <2>1, <3>2 DEF Execute
    <3>4. Given(asked[c]) = KeyOf(v)
      BY <1>4 DEF Given, getLocalKey, getRaw, KeyOf
    <3> QED BY <3>2, <3>3, <3>4
  <2>2. CASE ~Execute
    <3>1. replies' = replies /\ pipe' \in {pipe, <<>>}
      BY <2>2 DEF Server, StrayEnds, Expire, LinkLost
    <3> QED BY <1>4, <3>1
  <2> QED BY <2>1, <2>2
<1>5. ASSUME NEW s \in Sessions PROVE LoginReadsKey(s)'
  <2> SUFFICES ASSUME pc[s] = "key" PROVE LoginReadsKey(s)'
    BY DEF LoginReadsKey
  <2>1. id[s] \in Values
    BY DEF KeysMatch, LoginReadsKey
  <2>2. CASE Idle(s)
    BY <1>1, <1>2, <2>1, <2>2 DEF KeysMatch, LoginReadsKey, Idle
  <2>3. CASE ~Idle(s)
    <3>1. asked[s] = getLocalKey(id[s]) /\ (replies # <<>> => Head(replies) = KeyOf(id[s]))
      BY <2>3 DEF KeysMatch, LoginReadsKey
    <3>2. replies' # <<>> => Head(replies') = KeyOf(id[s])
      BY <1>4, <2>1, <2>3, <3>1
    <3> QED BY <1>1, <1>2, <2>1, <2>3, <3>1, <3>2 DEF LoginReadsKey, Idle
  <2> QED BY <2>2, <2>3
<1>6. WakeReadsKey'
  <2> SUFFICES ASSUME wake.at = "key" PROVE WakeReadsKey'
    BY DEF WakeReadsKey
  <2>1. wake.device \in Devices
    BY DEF LookupsInv
  <2>2. CASE Idle(Backend)
    BY <1>1, <1>2, <1>3, <2>1, <2>2 DEF KeysMatch, WakeReadsKey, Idle
  <2>3. CASE ~Idle(Backend)
    <3>1. /\ asked[Backend] = getLocalKey(wake.device)
          /\ pipe # <<>> \/ replies # <<>> => Good(wake.device)
          /\ replies # <<>> => Head(replies) = KeyOf(wake.device)
      BY <2>3 DEF KeysMatch, WakeReadsKey
    <3>2. /\ replies' # <<>> => Head(replies') = KeyOf(wake.device)
          /\ pipe' # <<>> \/ replies' # <<>> => pipe # <<>> \/ replies # <<>>
      BY <1>4, <2>1, <2>3, <3>1
    <3> QED BY <1>1, <1>2, <1>3, <2>1, <2>3, <3>1, <3>2 DEF WakeReadsKey, Idle
  <2> QED BY <2>2, <2>3
<1>7. \A d \in Devices : registered'[d] # NoSession /\ link' => Good(d)'
  BY <1>1, <1>3 DEF KeysMatch
<1> QED BY <1>5, <1>6, <1>7 DEF KeysMatch, FrameOf

LEMMA WakeInit == Init => WakeInv
<1> SUFFICES ASSUME Init PROVE WakeInv
  OBVIOUS
<1>1. /\ rekeyed \in BOOLEAN /\ frames = [s \in Sessions |-> {}]
      /\ \A s \in Sessions : pc[s] = "read"
      /\ \A d \in Devices : registered[d] = NoSession
      /\ wake.at = "idle"
  BY DEF Init, NoWake
<1>2. KeysMatch
  BY <1>1 DEF KeysMatch, LoginReadsKey, WakeReadsKey
<1> QED BY <1>1, <1>2 DEF WakeInv

LEMMA WakeStep ==
  ASSUME IdentityInv, CommandsInv, LookupsInv, WakeInv, [Next]_vars
  PROVE  WakeInv'
<1> USE DEF deviceVars, sessionVars, UnchangedLocals
<1>1. rekeyed' \in BOOLEAN /\ frames' = [s \in Sessions |-> frames'[s]]
  <2>1. \/ UNCHANGED frames
        \/ \E s, f : frames' = [frames EXCEPT ![s] = frames[s] \cup {f}]
    BY DEF Next, Handler, Accept, ConnectionLost, handleLowPowerAuthReq, UnknownDevice,
           resolveLocalKey, SignatureFailed, registerOnlineState, SendAuthResp, Refuse,
           handleDisconnect, Disconnected, WakeHandler, sendLowPowerWake, LocalKeyNotFound,
           LocalKeyFound, SendWakeup, CrashAndRestart, setLocalKeyForDev, RedisLost,
           RedisStep, vars
  <2>2. rekeyed' \in {rekeyed, TRUE}
    BY DEF Next, Handler, Accept, ConnectionLost, handleLowPowerAuthReq, UnknownDevice,
           resolveLocalKey, SignatureFailed, registerOnlineState, SendAuthResp, Refuse,
           handleDisconnect, Disconnected, WakeHandler, sendLowPowerWake, LocalKeyNotFound,
           LocalKeyFound, SendWakeup, CrashAndRestart, setLocalKeyForDev, RedisLost,
           RedisStep, vars
  <2>3. frames' = [s \in Sessions |-> frames'[s]]
    BY <2>1, Zenon DEF WakeInv
  <2> QED BY <2>2, <2>3 DEF WakeInv
<1> SUFFICES ASSUME ~rekeyed', ~overlapped' PROVE KeysMatch'
  BY <1>1 DEF WakeInv
<1>2. ~overlapped
  <2>1. StoreStep
    BY StepsOfStore
  <2>2. overlapped \in BOOLEAN
    BY DEF CommandsInv, StoreInv, RedisTypeOK
  <2> QED BY <2>1, <2>2 DEF StoreStep, redisVars, Call, connect, LinkLost, Provision, Server,
                            Execute, StrayEnds, Expire, Return
<1>3. ~rekeyed
  BY DEF Next, Handler, Accept, ConnectionLost, handleLowPowerAuthReq, UnknownDevice,
         resolveLocalKey, SignatureFailed, registerOnlineState, SendAuthResp, Refuse,
         handleDisconnect, Disconnected, WakeHandler, sendLowPowerWake, LocalKeyNotFound,
         LocalKeyFound, SendWakeup, CrashAndRestart, setLocalKeyForDev, RedisLost,
         RedisStep, vars
<1>4. KeysMatch /\ frames = [s \in Sessions |-> frames[s]]
  BY <1>2, <1>3 DEF WakeInv
<1>5. ASSUME UNCHANGED <<redisVars, pc, id, registered, wake, frames>>
      PROVE  KeysMatch'
  BY <1>4, <1>5 DEF KeysMatch, LoginReadsKey, WakeReadsKey, KeyOf, Good, FrameOf, Idle, redisVars
<1>6. ASSUME NEW s \in Sessions, Accept(s) \/ Handler(s) \/ ConnectionLost(s)
      PROVE  KeysMatch'
  <2>1. CASE Accept(s) \/ ConnectionLost(s)
    BY <1>5, <2>1 DEF Accept, ConnectionLost
  <2>2. CASE Handler(s)
    BY <1>4, <2>2, MatchLogin, MatchLookup, MatchOther DEF Handler
  <2> QED BY <1>6, <2>1, <2>2
<1>7. CASE WakeHandler
  BY <1>4, <1>7, MatchWakeHandler
<1>8. CASE CrashAndRestart
  <2>1. /\ \A d \in Devices : registered'[d] = NoSession
        /\ \A s \in Sessions : pc'[s] # "key"
        /\ wake' = NoWake /\ UNCHANGED frames
    BY <1>8 DEF CrashAndRestart
  <2> QED BY <1>4, <2>1 DEF KeysMatch, LoginReadsKey, WakeReadsKey, NoWake, FrameOf
<1>9. CASE \E d \in Devices, k \in Secrets : setLocalKeyForDev(d, k)
  BY <1>9 DEF setLocalKeyForDev
<1>10. CASE RedisLost \/ RedisStep
  <2>1. UNCHANGED <<pc, id, registered, wake, frames>>
    BY <1>10 DEF RedisLost, RedisStep
  <2>2. CASE Server \/ LinkLost
    BY <1>2, <1>4, <1>10, <2>1, <2>2, MatchServer
  <2>3. ASSUME NEW c \in Callers, Return(c) PROVE KeysMatch'
    BY <1>2, <1>4, <2>1, <2>3, MatchReturn
  <2> QED BY <1>10, <2>2, <2>3 DEF RedisLost, RedisStep
<1>11. CASE UNCHANGED vars
  BY <1>5, <1>11 DEF vars
<1> QED BY <1>6, <1>7, <1>8, <1>9, <1>10, <1>11 DEF Next

(* WakeupMatchesKey: a frame is made from a key that is read from Redis, and *)
(* a login with another key has shown that Redis is lost, so that no read    *)
(* returns any more.                                                         *)
THEOREM WakeupsMatch == Spec => []WakeupMatchesKey
<1>1. Init => WakeInv
  BY WakeInit
<1>2. IdentityInv /\ CommandsInv /\ LookupsInv /\ WakeInv /\ [Next]_vars => WakeInv'
  BY WakeStep
<1>3. WakeInv => WakeupMatchesKey
  BY DEF WakeInv, KeysMatch, FrameOf, WakeupMatchesKey
<1> QED BY <1>1, <1>2, <1>3, ExchangeInvariant, PTL DEF Spec

==============================================================================
