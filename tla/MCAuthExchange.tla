---------------------------- MODULE MCAuthExchange ----------------------------
(* TLC instance of AuthExchange: two keys that differ after the first 16      *)
(* bytes, one of them the default secret.                                     *)
EXTENDS AuthExchange, TLC

CONSTANTS d1, ghost, long, default, json, s1, s2, http, nil, p1

MCDevices   == {d1}
MCSecrets   == {long, default}
MCValues    == MCDevices \cup MCSecrets \cup {ghost, json}
MCKeys      == {"index", "local_key", "online", "pending_wake"} \X MCValues
MCFirst16   == [v \in MCValues |-> IF v \in {long, default} THEN p1 ELSE v]
MCCrc32     == [v \in MCValues |-> v]
MCDeviceKey == [d \in MCDevices |-> default]
MCOwner     == [s \in {s1, s2} |-> d1]

(* The index may take d1 for another device; a key may be missing.            *)
MCInitialData ==
  {[k \in MCKeys |-> CASE k = <<"index", d1>> -> i
                       [] k = <<"local_key", d1>> -> l
                       [] OTHER -> nil] :
     i \in {d1, ghost}, l \in {default, long, nil}}

Symmetry == Permutations({s1, s2})
==============================================================================
