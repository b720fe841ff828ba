----------------------------- MODULE KeyValueStore -----------------------------
(***************************************************************************)
(* What the callers of RedisStore rely on: each call takes effect at one   *)
(* moment between its start and its return and returns what that effect    *)
(* gave; a call that fails returns Nil, and has taken effect, may still    *)
(* take effect later, or never does.                                       *)
(***************************************************************************)
CONSTANTS
  Callers,       \* the handlers that use the store
  Keys,          \* names of entries
  Values,        \* contents of entries
  Nil,           \* no entry, and the answer of a call that failed
  OK             \* the answer of a command that is not a lookup

Op == [name : {"GET", "SET", "SETEX", "DEL"}, key : Keys, value : Values \cup {Nil}]

NoOp == [name |-> "none"]

VARIABLES
  data,          \* the entries
  volatile,      \* keys of entries that will expire
  op,            \* the operation of each call under way, or NoOp
  phase,         \* "idle", "asked", "done" (has taken effect) or "failed"
  answer,        \* what a call that is done will return
  result,        \* what the last call of each caller has returned
  loose          \* operations of failed calls that may still take effect

vars == <<data, volatile, op, phase, answer, result, loose>>

Init ==
  /\ data \in [Keys -> Values \cup {Nil}]
  /\ volatile = {}
  /\ op = [c \in Callers |-> NoOp]
  /\ phase = [c \in Callers |-> "idle"]
  /\ answer = [c \in Callers |-> Nil]
  /\ result = [c \in Callers |-> Nil]
  /\ loose = {}

(* What an operation leaves and gives.                                       *)
Written(o) ==
  CASE o.name = "GET" -> data
    [] o.name = "DEL" -> [data EXCEPT ![o.key] = Nil]
    [] OTHER          -> [data EXCEPT ![o.key] = o.value]

Expiring(o) ==
  CASE o.name = "GET"   -> volatile
    [] o.name = "SETEX" -> volatile \cup {o.key}
    [] OTHER            -> volatile \ {o.key}

Given(o) == IF o.name = "GET" THEN data[o.key] ELSE OK

Apply(o) == data' = Written(o) /\ volatile' = Expiring(o)

------------------------------------------------------------------------------
Ask(c) ==
  /\ phase[c] = "idle"
  /\ op'[c] \in Op
  /\ op' = [op EXCEPT ![c] = op'[c]]
  /\ phase' \in {[phase EXCEPT ![c] = "asked"], [phase EXCEPT ![c] = "failed"]}
  /\ result' = [result EXCEPT ![c] = Nil]
  /\ UNCHANGED <<data, volatile, answer, loose>>

Effect(c) ==
  /\ phase[c] = "asked"
  /\ Apply(op[c])
  /\ phase' = [phase EXCEPT ![c] = "done"]
  /\ answer' = [answer EXCEPT ![c] = Given(op[c])]
  /\ UNCHANGED <<op, result, loose>>

Return(c) ==
  /\ phase[c] \in {"done", "failed"}
  /\ result' = [result EXCEPT ![c] = IF phase[c] = "done" THEN answer[c] ELSE Nil]
  /\ phase' = [phase EXCEPT ![c] = "idle"]
  /\ op' = [op EXCEPT ![c] = NoOp]
  /\ answer' = [answer EXCEPT ![c] = Nil]
  /\ UNCHANGED <<data, volatile, loose>>

(* Calls that have not taken effect fail.                                    *)
Fail ==
  LET asked == {c \in Callers : phase[c] = "asked"} IN
  /\ phase' = [c \in Callers |-> IF c \in asked THEN "failed" ELSE phase[c]]
  /\ loose' = loose \cup {op[c] : c \in asked}
  /\ UNCHANGED <<data, volatile, op, answer, result>>

(* The callers are gone, and new ones begin.                                 *)
Restart ==
  /\ phase' = [c \in Callers |-> "idle"]
  /\ op' = [c \in Callers |-> NoOp]
  /\ answer' = [c \in Callers |-> Nil]
  /\ result' = [c \in Callers |-> Nil]
  /\ loose' = loose \cup {op[c] : c \in {b \in Callers : phase[b] = "asked"}}
  /\ UNCHANGED <<data, volatile>>

Late(o) ==
  /\ o \in loose
  /\ \/ Apply(o)
     \/ UNCHANGED <<data, volatile>>
  /\ loose' = loose \ {o}
  /\ UNCHANGED <<op, phase, answer, result>>

Expire(k) ==
  /\ k \in volatile
  /\ data' = [data EXCEPT ![k] = Nil]
  /\ volatile' = volatile \ {k}
  /\ UNCHANGED <<op, phase, answer, result, loose>>

(* Another client of the store writes.                                       *)
Provision(k) ==
  /\ data'[k] \in Values \cup {Nil}
  /\ data' = [data EXCEPT ![k] = data'[k]]
  /\ volatile' = volatile \ {k}
  /\ UNCHANGED <<op, phase, answer, result, loose>>

Next ==
  \/ \E c \in Callers : Ask(c) \/ Effect(c) \/ Return(c)
  \/ Fail
  \/ Restart
  \/ \E o \in loose : Late(o)
  \/ \E k \in Keys : Expire(k) \/ Provision(k)

Spec == Init /\ [][Next]_vars

==============================================================================
