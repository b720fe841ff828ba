-------------------------- MODULE WakeManagerProofs --------------------------
(***************************************************************************)
(* Proofs about WakeManager for every set of commands, devices and         *)
(* sessions and every retry limit.  The strengthening ties each entry of   *)
(* pending_ to the event stream of its command: the stream is open, and    *)
(* retry_count is the number of retries it has reported; and each message  *)
(* and entry to the id that was made for its command.                      *)
(***************************************************************************)
EXTENDS WakeManager, TLAPS

Open == {"dispatched", "retrying"}

(* An entry stands for a command whose stream is open, and counts its        *)
(* retries; one that cannot be serialised has never been published.          *)
EntryMatchesStream ==
  \A i \in DOMAIN pending :
    IF pending[i].utf8
    THEN /\ last[pending[i].cmd] \in Open
         /\ tries[pending[i].cmd] = pending[i].retry_count
         /\ pending[i].retry_count <= MaxRetry
    ELSE last[pending[i].cmd] = "rejected"

(* No command has two entries.                                               *)
OneEntryPerCommand ==
  \A i, j \in DOMAIN pending : pending[i].cmd = pending[j].cmd => i = j

(* A command that was never issued was never retried.                        *)
UnissuedUntried == \A c \in Commands : last[c] = "none" => tries[c] = 0

StreamInv == EntryMatchesStream /\ OneEntryPerCommand /\ UnissuedUntried

(* Entries and messages carry the id of their command.                       *)
EntryHasItsId == \A i \in DOMAIN pending : id[pending[i].cmd] = i

MessageHasItsId == \A m \in wire \cup received : id[m.cmd] = m.id

(* What has been answered had been given an id, and is not new.              *)
NewHasNoId ==
  /\ \A c \in Commands : last[c] = "none" => id[c] = NoId
  /\ \A c \in answered : id[c] \in Ids

IdInv ==
  /\ EntryHasItsId /\ MessageHasItsId /\ NewHasNoId
  /\ OpenIsTracked /\ AnsweredByItsDevice

------------------------------------------------------------------------------
(* retryWake counts the retry, re-arms the time-out and changes nothing else.*)
LEMMA RetriedEntry ==
  ASSUME NEW e \in Entry
  PROVE  /\ Retried(e) \in Entry
         /\ Retried(e).cmd = e.cmd /\ Retried(e).retry_count = e.retry_count + 1
         /\ Retried(e).utf8 = e.utf8
<1>1. Retried(e) = [cmd |-> e.cmd, device_id |-> e.device_id, session |-> e.session,
                    protocol |-> e.protocol, utf8 |-> e.utf8,
                    retry_count |-> e.retry_count + 1, next_retry |-> AckTimeout]
  <2> DEFINE f == [e EXCEPT !.retry_count = e.retry_count + 1]
  <2>1. f = [cmd |-> e.cmd, device_id |-> e.device_id, session |-> e.session,
             protocol |-> e.protocol, utf8 |-> e.utf8,
             retry_count |-> e.retry_count + 1, next_retry |-> e.next_retry]
    BY DEF Entry
  <2>2. Retried(e) = [f EXCEPT !.next_retry = AckTimeout]
    BY DEF Retried
  <2> HIDE DEF f
  <2> QED BY <2>1, <2>2
<1>2. AckTimeout \in 0..AckTimeout
  BY AckTimeoutAssumption
<1> QED BY <1>1, <1>2 DEF Entry

(* The passing of time changes nothing else in an entry.                     *)
LEMMA ElapsedEntry ==
  ASSUME NEW e \in Entry, NEW n \in 0..AckTimeout
  PROVE  [e EXCEPT !.next_retry = n] \in Entry
<1>1. [e EXCEPT !.next_retry = n]
        = [cmd |-> e.cmd, device_id |-> e.device_id, session |-> e.session,
           protocol |-> e.protocol, utf8 |-> e.utf8, retry_count |-> e.retry_count,
           next_retry |-> n]
  BY DEF Entry
<1> QED BY <1>1 DEF Entry

(* What is left of pending_ has its types.                                   *)
LEMMA ErasedTypes ==
  ASSUME TypeOK, NEW ids
  PROVE  DOMAIN Without(ids) \subseteq Ids /\ Without(ids) \in [DOMAIN Without(ids) -> Entry]
BY DEF TypeOK, Without

(* What onTick leaves in pending_.                                           *)
LEMMA TickEntries ==
  ASSUME TypeOK, onTick
  PROVE  /\ DOMAIN pending' = DOMAIN pending \ Failing
         /\ \A i \in DOMAIN pending' :
              /\ pending[i] \in Entry /\ pending'[i] \in Entry
              /\ pending'[i].cmd = pending[i].cmd /\ pending'[i].utf8 = pending[i].utf8
              /\ i \in Retrying => pending'[i].retry_count = pending[i].retry_count + 1
              /\ i \notin Retrying => pending'[i] = pending[i]
<1>1. \A i \in DOMAIN pending : pending[i] \in Entry
  BY DEF TypeOK
<1>2. pending' = [i \in DOMAIN pending \ Failing |->
                    IF i \in Retrying THEN Retried(pending[i]) ELSE pending[i]]
  BY DEF onTick
<1> QED BY <1>1, <1>2, RetriedEntry

(* What onTick publishes.                                                    *)
LEMMA TickEvents ==
  ASSUME onTick
  PROVE  /\ last' = [c \in Commands |-> IF c \in CmdsOf(Failing) THEN "failed"
                                         ELSE IF c \in CmdsOf(Retrying) THEN "retrying"
                                         ELSE last[c]]
         /\ tries' = [c \in Commands |-> IF c \in CmdsOf(Retrying) THEN tries[c] + 1
                                                                   ELSE tries[c]]
<1>1. Failing \cap Due = Failing /\ Retrying \cap Due = Retrying
  BY DEF Failing, Retrying
<1> QED BY <1>1 DEF onTick, publishTick

(* Every step preserves the types.                                           *)
LEMMA TypeStep ==
  ASSUME TypeOK, [Next]_vars
  PROVE  TypeOK'
<1> USE MaxRetryAssumption, AckTimeoutAssumption, MaxMsAssumption
    DEF TypeOK, Ids, Entry, Msg, Status
<1>1. ASSUME NEW c \in Commands, NEW d \in Devices, sendWakeOffline(c, d)
      PROVE  TypeOK'
  BY <1>1 DEF sendWakeOffline, CanIssue, Reject, publishCommandEvent, wakeVars, linkVars, devVars
<1>2. ASSUME NEW c \in Commands, NEW d \in Devices, sendWakeExpired(c, d)
      PROVE  TypeOK'
  BY <1>2 DEF sendWakeExpired, CanIssue, Reject, publishCommandEvent, wakeVars, linkVars, devVars
<1>3. ASSUME NEW c \in Commands, NEW d \in Devices, sendWake(c, d)
      PROVE  TypeOK'
  BY <1>3 DEF sendWake, Routable, CanIssue, Dispatch, NewEntry, Put, publishCommandEvent, wakeVars, linkVars, devVars
<1>4. ASSUME NEW c \in Commands, NEW d \in Devices, sendLowPowerWake(c, d)
      PROVE  TypeOK'
  <2>1. CASE Dispatch(c, d, "LOWPOWER")
    BY <1>4, <2>1 DEF sendLowPowerWake, Routable, CanIssue, Dispatch, NewEntry, Put,
                      publishCommandEvent, linkVars
  <2>2. CASE Reject(c) /\ UNCHANGED registered
    BY <2>2 DEF Reject, publishCommandEvent, devVars
  <2> QED BY <1>4, <2>1, <2>2 DEF sendLowPowerWake
<1>5. ASSUME NEW m \in received, handleJsonWakeAck(m)
      PROVE  TypeOK'
  <2>1. m.cmd \in Commands
    OBVIOUS
  <2>2. UNCHANGED pending \/ \E ids : pending' = Without(ids)
    BY <1>5 DEF handleJsonWakeAck, markAck, ProcessEnds, wakeVars
  <2>3. DOMAIN pending' \subseteq Ids /\ pending' \in [DOMAIN pending' -> Entry]
    <3> HIDE DEF Entry
    <3> QED BY <2>2, ErasedTypes
  <2>4. last' \in [Commands -> Status] /\ UNCHANGED tries
    BY <1>5 DEF handleJsonWakeAck, markAck, publishCommandEvent, wakeVars
  <2>5. keys' \subseteq keys /\ down' \in BOOLEAN
    BY <1>5 DEF handleJsonWakeAck, markAck, ProcessEnds, wakeVars
  <2> HIDE DEF Entry, Status
  <2> QED BY <1>5, <2>1, <2>3, <2>4, <2>5 DEF handleJsonWakeAck, linkVars
<1>6. ASSUME NEW m \in received, handleJsonTaskDone(m)
      PROVE  TypeOK'
  <2>1. m.cmd \in Commands
    OBVIOUS
  <2>2. UNCHANGED pending \/ \E ids : pending' = Without(ids)
    BY <1>6 DEF handleJsonTaskDone, markDone, ProcessEnds, wakeVars
  <2>3. DOMAIN pending' \subseteq Ids /\ pending' \in [DOMAIN pending' -> Entry]
    <3> HIDE DEF Entry
    <3> QED BY <2>2, ErasedTypes
  <2>4. last' \in [Commands -> Status] /\ UNCHANGED tries
    BY <1>6 DEF handleJsonTaskDone, markDone, publishCommandEvent, wakeVars
  <2>5. keys' \subseteq keys /\ down' \in BOOLEAN
    BY <1>6 DEF handleJsonTaskDone, markDone, ProcessEnds, wakeVars
  <2> HIDE DEF Entry, Status
  <2> QED BY <1>6, <2>1, <2>3, <2>4, <2>5 DEF handleJsonTaskDone, linkVars
<1>7. CASE onTick
  <2>1. \A i \in DOMAIN pending : pending[i] \in Entry
    OBVIOUS
  <2>2. DOMAIN pending' \subseteq Ids /\ pending' \in [DOMAIN pending' -> Entry]
    <3>1. pending' = [i \in DOMAIN pending \ Failing |->
                        IF i \in Retrying THEN Retried(pending[i]) ELSE pending[i]]
      BY <1>7 DEF onTick
    <3>2. \A i \in DOMAIN pending \ Failing :
            (IF i \in Retrying THEN Retried(pending[i]) ELSE pending[i]) \in Entry
      BY <2>1, RetriedEntry
    <3> HIDE DEF Entry
    <3> QED BY <3>1, <3>2
  <2>3. wire' \subseteq Msg
    <3>1. Retrying \subseteq DOMAIN pending
      BY DEF Retrying, Due
    <3> QED BY <1>7, <2>1, <3>1 DEF onTick
  <2>4. last' \in [Commands -> Status] /\ tries' \in [Commands -> Nat]
    BY <1>7, TickEvents
  <2> QED BY <1>7, <2>2, <2>3, <2>4 DEF onTick, linkVars
<1>8. CASE Elapse
  <2>1. \A i \in DOMAIN pending :
          [pending[i] EXCEPT !.next_retry = IF @ > 0 THEN @ - 1 ELSE @] \in Entry
    <3> TAKE i \in DOMAIN pending
    <3> DEFINE e == pending[i]
               n == IF e.next_retry > 0 THEN e.next_retry - 1 ELSE e.next_retry
    <3>1. e \in Entry
      OBVIOUS
    <3>2. n \in 0..AckTimeout
      BY <3>1
    <3>3. [e EXCEPT !.next_retry = n] \in Entry
      <4> HIDE DEF Entry, n
      <4> QED BY <3>1, <3>2, ElapsedEntry
    <3> QED BY <3>3
  <2>2. DOMAIN pending' \subseteq Ids /\ pending' \in [DOMAIN pending' -> Entry]
    <3> HIDE DEF Entry
    <3> QED BY <1>8, <2>1 DEF Elapse
  <2>3. ms' \in Ids
    BY <1>8 DEF Elapse
  <2> QED BY <1>8, <2>2, <2>3 DEF Elapse, linkVars, devVars
<1>9. CASE KeyExpires
  BY <1>9 DEF KeyExpires, wakeVars, linkVars, devVars
<1>10. CASE Deliver
  BY <1>10 DEF Deliver, wakeVars, linkVars, devVars
<1>11. ASSUME NEW d \in Devices, NEW s \in Sessions, Connect(d, s)
      PROVE  TypeOK'
  BY <1>11 DEF Connect, wakeVars, linkVars, devVars
<1>12. ASSUME NEW s \in Sessions, SessionGone(s)
      PROVE  TypeOK'
  BY <1>12 DEF SessionGone, wakeVars, linkVars, devVars
<1>13. ASSUME NEW d \in Devices, Unregister(d)
      PROVE  TypeOK'
  BY <1>13 DEF Unregister, wakeVars, linkVars, devVars
<1>14. CASE UNCHANGED vars
  BY <1>14 DEF vars, wakeVars, linkVars, devVars
<1>15. ASSUME NEW c \in Commands, NEW d \in Devices, sendWakeThrows(c, d)
      PROVE  TypeOK'
  BY <1>15 DEF sendWakeThrows, Routable, CanIssue, NewEntry, Put, publishCommandEvent, wakeVars, linkVars, devVars
<1>16. CASE onTickThrows
  BY <1>16 DEF onTickThrows, publishTick, ProcessEnds, Without, wakeVars, linkVars, devVars
<1> QED
  BY <1>1, <1>2, <1>3, <1>4, <1>5, <1>6, <1>7, <1>8, <1>9, <1>10, <1>11, <1>12, <1>13,
     <1>14, <1>15, <1>16
  DEF Next, Request, Answer, Tick, Connections

(* A dispatched command gets an entry of its own.                            *)
LEMMA DispatchStream ==
  ASSUME TypeOK, StreamInv, NEW c \in Commands, NEW d \in Devices, NEW p,
         CanIssue(c), Dispatch(c, d, p)
  PROVE  StreamInv'
<1> USE DEF TypeOK, StreamInv, EntryMatchesStream, OneEntryPerCommand, UnissuedUntried,
        Open
<1>1. /\ DOMAIN pending' = DOMAIN pending \cup {ms}
      /\ pending'[ms].cmd = c /\ pending'[ms].retry_count = 0 /\ pending'[ms].utf8
      /\ \A i \in DOMAIN pending \ {ms} : pending'[i] = pending[i]
  BY DEF Dispatch, NewEntry, Put
<1>2. last' = [last EXCEPT ![c] = "dispatched"] /\ tries' = tries
  BY DEF Dispatch, publishCommandEvent
<1>3. \A i \in DOMAIN pending : pending[i].cmd # c /\ pending[i].cmd \in Commands
  BY DEF CanIssue, Entry
<1>4. EntryMatchesStream'
  BY <1>1, <1>2, <1>3, MaxRetryAssumption DEF CanIssue
<1>5. OneEntryPerCommand'
  BY <1>1, <1>3
<1>6. UnissuedUntried'
  BY <1>2
<1> QED BY <1>4, <1>5, <1>6

(* Every step preserves the tie between entries and event streams.           *)
LEMMA StreamStep ==
  ASSUME TypeOK, StreamInv, [Next]_vars
  PROVE  StreamInv'
<1> USE MaxRetryAssumption
    DEF TypeOK, Entry, StreamInv, EntryMatchesStream, OneEntryPerCommand, UnissuedUntried,
        Open
<1>1. ASSUME NEW c \in Commands, NEW d \in Devices, sendWakeOffline(c, d)
      PROVE  StreamInv'
  BY <1>1 DEF sendWakeOffline, CanIssue, Reject, publishCommandEvent, wakeVars, linkVars, devVars
<1>2. ASSUME NEW c \in Commands, NEW d \in Devices, sendWakeExpired(c, d)
      PROVE  StreamInv'
  BY <1>2 DEF sendWakeExpired, CanIssue, Reject, publishCommandEvent, wakeVars, linkVars, devVars
<1>3. ASSUME NEW c \in Commands, NEW d \in Devices, sendWake(c, d)
      PROVE  StreamInv'
  BY <1>3, DispatchStream DEF sendWake, Routable, CanIssue
<1>4. ASSUME NEW c \in Commands, NEW d \in Devices, sendLowPowerWake(c, d)
      PROVE  StreamInv'
  <2>1. CASE Dispatch(c, d, "LOWPOWER")
    BY <1>4, <2>1, DispatchStream DEF sendLowPowerWake, Routable, CanIssue
  <2>2. CASE Reject(c)
    BY <1>4, <2>2 DEF sendLowPowerWake, Routable, CanIssue, Reject, publishCommandEvent
  <2> QED BY <1>4, <2>1, <2>2 DEF sendLowPowerWake
<1>5. ASSUME NEW m \in received, handleJsonWakeAck(m)
      PROVE  StreamInv'
  BY <1>5 DEF handleJsonWakeAck, markAck, ProcessEnds, Without, publishCommandEvent, wakeVars, linkVars, devVars
<1>6. ASSUME NEW m \in received, handleJsonTaskDone(m)
      PROVE  StreamInv'
  BY <1>6 DEF handleJsonTaskDone, markDone, ProcessEnds, Without, publishCommandEvent, wakeVars, linkVars, devVars
<1>7. CASE onTick
  <2>1. /\ Failing \subseteq DOMAIN pending /\ Retrying \subseteq DOMAIN pending
        /\ \A i \in Retrying : pending[i].retry_count < MaxRetry
    BY DEF Failing, Retrying, Due
  <2>2. /\ DOMAIN pending' \subseteq DOMAIN pending
        /\ \A i \in DOMAIN pending' : i \notin Failing
        /\ \A i \in DOMAIN pending' : pending'[i].cmd = pending[i].cmd
    BY <1>7, TickEntries
  <2>3. ASSUME NEW i \in DOMAIN pending'
        PROVE  IF pending'[i].utf8
               THEN /\ last'[pending'[i].cmd] \in Open
                    /\ tries'[pending'[i].cmd] = pending'[i].retry_count
                    /\ pending'[i].retry_count <= MaxRetry
               ELSE last'[pending'[i].cmd] = "rejected"
    <3>1. pending[i].cmd \in Commands /\ pending[i].cmd \notin CmdsOf(Failing)
      BY <2>1, <2>2 DEF CmdsOf
    <3>2. CASE i \in Retrying
      <4>1. pending[i].cmd \in CmdsOf(Retrying) /\ pending[i].utf8
        BY <1>7, <2>1, <3>2 DEF CmdsOf, onTick, IllFormed
      <4>2. pending'[i].retry_count = pending[i].retry_count + 1 /\ pending'[i].utf8
        BY <1>7, <3>2, <4>1, TickEntries
      <4>3. last'[pending[i].cmd] = "retrying"
            /\ tries'[pending[i].cmd] = tries[pending[i].cmd] + 1
        BY <1>7, <3>1, <4>1, TickEvents
      <4> QED BY <2>1, <2>2, <3>2, <4>1, <4>2, <4>3
    <3>3. CASE i \notin Retrying
      <4>1. pending[i].cmd \notin CmdsOf(Retrying)
        BY <2>1, <2>2, <3>3 DEF CmdsOf
      <4>2. pending'[i] = pending[i]
        BY <1>7, <3>3, TickEntries
      <4>3. last'[pending[i].cmd] = last[pending[i].cmd]
            /\ tries'[pending[i].cmd] = tries[pending[i].cmd]
        BY <1>7, <3>1, <4>1, TickEvents
      <4> QED BY <2>2, <4>2, <4>3
    <3> QED BY <3>2, <3>3
  <2>6. EntryMatchesStream'
    BY <2>3
  <2>4. OneEntryPerCommand'
    BY <2>2
  <2>5. UnissuedUntried'
    <3>1. \A c \in CmdsOf(Retrying) : last'[c] # "none"
      BY <1>7, <2>1, TickEvents DEF CmdsOf, Entry
    <3> QED BY <1>7, <3>1, TickEvents
  <2> HIDE DEF EntryMatchesStream, OneEntryPerCommand, UnissuedUntried
  <2> QED BY <2>4, <2>5, <2>6
<1>8. CASE Elapse
  <2>1. ASSUME NEW i \in DOMAIN pending
        PROVE  /\ pending'[i].cmd = pending[i].cmd
               /\ pending'[i].utf8 = pending[i].utf8
               /\ pending'[i].retry_count = pending[i].retry_count
    <3> DEFINE n == IF pending[i].next_retry > 0 THEN pending[i].next_retry - 1
                    ELSE pending[i].next_retry
    <3>1. pending'[i] = [pending[i] EXCEPT !.next_retry = n]
      BY <1>8 DEF Elapse
    <3>2. pending[i] \in Entry
      OBVIOUS
    <3> HIDE DEF n
    <3> QED BY <3>1, <3>2
  <2>2. DOMAIN pending' = DOMAIN pending /\ last' = last /\ tries' = tries
    BY <1>8 DEF Elapse
  <2>3. EntryMatchesStream'
    BY <2>1, <2>2
  <2>4. OneEntryPerCommand'
    BY <2>1, <2>2
  <2>5. UnissuedUntried'
    BY <2>2
  <2> HIDE DEF EntryMatchesStream, OneEntryPerCommand, UnissuedUntried
  <2> QED BY <2>3, <2>4, <2>5
<1>9. CASE KeyExpires
  BY <1>9 DEF KeyExpires, wakeVars, linkVars, devVars
<1>10. CASE Deliver
  BY <1>10 DEF Deliver, wakeVars, linkVars, devVars
<1>11. ASSUME NEW d \in Devices, NEW s \in Sessions, Connect(d, s)
      PROVE  StreamInv'
  BY <1>11 DEF Connect, wakeVars, linkVars, devVars
<1>12. ASSUME NEW s \in Sessions, SessionGone(s)
      PROVE  StreamInv'
  BY <1>12 DEF SessionGone, wakeVars, linkVars, devVars
<1>13. ASSUME NEW d \in Devices, Unregister(d)
      PROVE  StreamInv'
  BY <1>13 DEF Unregister, wakeVars, linkVars, devVars
<1>14. CASE UNCHANGED vars
  BY <1>14 DEF vars, wakeVars, linkVars, devVars
<1>15. ASSUME NEW c \in Commands, NEW d \in Devices, sendWakeThrows(c, d)
      PROVE  StreamInv'
  <2>1. /\ DOMAIN pending' = DOMAIN pending \cup {ms}
        /\ pending'[ms].cmd = c /\ ~pending'[ms].utf8
        /\ \A i \in DOMAIN pending \ {ms} : pending'[i] = pending[i]
    BY <1>15 DEF sendWakeThrows, NewEntry, Put
  <2>2. last' = [last EXCEPT ![c] = "rejected"] /\ tries' = tries /\ last[c] = "none"
    BY <1>15 DEF sendWakeThrows, Routable, CanIssue, publishCommandEvent
  <2>3. \A i \in DOMAIN pending : pending[i].cmd # c /\ pending[i].cmd \in Commands
    BY <2>2
  <2>4. EntryMatchesStream'
    BY <2>1, <2>2, <2>3
  <2>5. OneEntryPerCommand'
    BY <2>1, <2>3
  <2>6. UnissuedUntried'
    BY <2>2
  <2> HIDE DEF EntryMatchesStream, OneEntryPerCommand, UnissuedUntried
  <2> QED BY <2>4, <2>5, <2>6
<1>16. CASE onTickThrows
  BY <1>16 DEF onTickThrows, publishTick, ProcessEnds, Without, wakeVars, linkVars, devVars
<1> QED
  BY <1>1, <1>2, <1>3, <1>4, <1>5, <1>6, <1>7, <1>8, <1>9, <1>10, <1>11, <1>12, <1>13,
     <1>14, <1>15, <1>16
  DEF Next, Request, Answer, Tick, Connections

(* A command that concludes stays concluded: nothing is published about it   *)
(* any more, for its entry is gone or another's.                             *)
LEMMA ConcludedStays ==
  ASSUME TypeOK, StreamInv, NEW c \in Commands, last[c] \in Concluded, onTick
  PROVE  last'[c] = last[c]
<1>1. /\ Failing \subseteq DOMAIN pending /\ Retrying \subseteq DOMAIN pending
      /\ \A i \in Failing \cup Retrying : pending[i].utf8
  BY DEF Failing, Retrying, Due, onTick, IllFormed
<1>2. c \notin CmdsOf(Failing) /\ c \notin CmdsOf(Retrying)
  BY <1>1 DEF CmdsOf, StreamInv, EntryMatchesStream, Open, Concluded
<1> QED BY <1>2, TickEvents

(* Every step keeps entries and messages with their ids.                     *)
LEMMA IdStep ==
  ASSUME TypeOK, StreamInv, IdInv, [Next]_vars
  PROVE  IdInv'
<1> USE DEF TypeOK, Entry, Msg, Ids, NoId, StreamInv, EntryMatchesStream, OneEntryPerCommand,
        Open, IdInv, EntryHasItsId, MessageHasItsId, NewHasNoId, OpenIsTracked, Concluded,
        AnsweredByItsDevice
<1>1. ASSUME NEW c \in Commands, NEW d \in Devices, sendWakeOffline(c, d)
      PROVE  IdInv'
  BY <1>1 DEF sendWakeOffline, CanIssue, Reject, publishCommandEvent, wakeVars, linkVars, devVars
<1>2. ASSUME NEW c \in Commands, NEW d \in Devices, sendWakeExpired(c, d)
      PROVE  IdInv'
  BY <1>2 DEF sendWakeExpired, CanIssue, Reject, publishCommandEvent, wakeVars, linkVars, devVars
<1>3. ASSUME NEW c \in Commands, NEW d \in Devices, sendWake(c, d)
      PROVE  IdInv'
  BY <1>3 DEF sendWake, Routable, CanIssue, Dispatch, NewEntry, Put, publishCommandEvent, wakeVars, linkVars, devVars
<1>4. ASSUME NEW c \in Commands, NEW d \in Devices, sendLowPowerWake(c, d)
      PROVE  IdInv'
  BY <1>4 DEF sendLowPowerWake, Routable, CanIssue, Dispatch, NewEntry, Put, Reject, publishCommandEvent, wakeVars, linkVars, devVars
<1>5. ASSUME NEW m \in received, handleJsonWakeAck(m)
      PROVE  IdInv'
  BY <1>5 DEF handleJsonWakeAck, markAck, ProcessEnds, Without, publishCommandEvent, wakeVars, linkVars, devVars
<1>6. ASSUME NEW m \in received, handleJsonTaskDone(m)
      PROVE  IdInv'
  BY <1>6 DEF handleJsonTaskDone, markDone, ProcessEnds, Without, publishCommandEvent, wakeVars, linkVars, devVars
<1>7. CASE onTick
  <2>1. Failing \subseteq DOMAIN pending /\ Retrying \subseteq DOMAIN pending
    BY DEF Failing, Retrying, Due
  <2>2. /\ DOMAIN pending' = DOMAIN pending \ Failing
        /\ \A i \in DOMAIN pending' : pending'[i].cmd = pending[i].cmd
    BY <1>7, TickEntries
  <2>3. UNCHANGED <<id, received, answered, down>>
    BY <1>7 DEF onTick
  <2>4. EntryHasItsId'
    BY <2>2, <2>3
  <2>5. MessageHasItsId'
    <3>1. \A m \in wire' : m \in wire \/ \E i \in Retrying : m.id = i /\ m.cmd = pending[i].cmd
      BY <1>7 DEF onTick
    <3> QED BY <2>1, <2>3, <3>1
  <2>6. OpenIsTracked'
    <3> SUFFICES ASSUME NEW c \in Commands, last'[c] \in {"dispatched", "retrying"}, ~down
                 PROVE  \/ id[c] \in DOMAIN pending'
                        \/ \E b \in Commands \ {c} : id[b] = id[c] /\ last'[b] \in Concluded
      BY <2>3
    <3>1. c \notin CmdsOf(Failing)
      BY <1>7, TickEvents
    <3>2. last[c] \in {"dispatched", "retrying"} \/ c \in CmdsOf(Retrying)
      BY <1>7, <3>1, TickEvents
    <3>3. CASE id[c] \in DOMAIN pending
      <4> DEFINE b == pending[id[c]].cmd
      <4>1. b \in Commands /\ id[b] = id[c]
        BY <3>3
      <4>2. CASE id[c] \in Failing
        <5>1. b \in CmdsOf(Failing)
          BY <4>2 DEF CmdsOf
        <5>2. last'[b] = "failed"
          BY <1>7, <4>1, <5>1, TickEvents
        <5> QED BY <3>1, <4>1, <5>1, <5>2
      <4> QED BY <2>2, <3>3, <4>2
    <3>4. CASE id[c] \notin DOMAIN pending
      <4>1. c \notin CmdsOf(Retrying)
        BY <2>1, <3>4 DEF CmdsOf
      <4>2. PICK b \in Commands \ {c} : id[b] = id[c] /\ last[b] \in Concluded
        BY <3>2, <3>4, <4>1
      <4> QED BY <1>7, <4>2, ConcludedStays
    <3> QED BY <3>3, <3>4
  <2>7. AnsweredByItsDevice'
    BY <1>7, <2>3, TickEvents
  <2>8. NewHasNoId'
    BY <1>7, <2>3, TickEvents
  <2> QED BY <2>4, <2>5, <2>6, <2>7, <2>8
<1>8. CASE Elapse
  BY <1>8 DEF Elapse, wakeVars, linkVars, devVars
<1>9. CASE KeyExpires
  BY <1>9 DEF KeyExpires, wakeVars, linkVars, devVars
<1>10. CASE Deliver
  BY <1>10 DEF Deliver, wakeVars, linkVars, devVars
<1>11. ASSUME NEW d \in Devices, NEW s \in Sessions, Connect(d, s)
      PROVE  IdInv'
  BY <1>11 DEF Connect, wakeVars, linkVars, devVars
<1>12. ASSUME NEW s \in Sessions, SessionGone(s)
      PROVE  IdInv'
  BY <1>12 DEF SessionGone, wakeVars, linkVars, devVars
<1>13. ASSUME NEW d \in Devices, Unregister(d)
      PROVE  IdInv'
  BY <1>13 DEF Unregister, wakeVars, linkVars, devVars
<1>14. CASE UNCHANGED vars
  BY <1>14 DEF vars, wakeVars, linkVars, devVars
<1>15. ASSUME NEW c \in Commands, NEW d \in Devices, sendWakeThrows(c, d)
      PROVE  IdInv'
  BY <1>15 DEF sendWakeThrows, Routable, CanIssue, NewEntry, Put, publishCommandEvent, wakeVars, linkVars, devVars
<1>16. CASE onTickThrows
  BY <1>16 DEF onTickThrows, publishTick, ProcessEnds, Without, wakeVars, linkVars, devVars
<1> QED
  BY <1>1, <1>2, <1>3, <1>4, <1>5, <1>6, <1>7, <1>8, <1>9, <1>10, <1>11, <1>12, <1>13,
     <1>14, <1>15, <1>16
  DEF Next, Request, Answer, Tick, Connections

(* A tick that has visited some of the entries moves each command by a step  *)
(* of its life cycle.                                                        *)
LEMMA VisitedLifecycle ==
  ASSUME TypeOK, StreamInv, NEW ids,
         \A i \in (Failing \cup Retrying) \cap ids : i \notin IllFormed,
         publishTick(ids)
  PROVE  Lifecycle!Next
<1> USE DEF TypeOK, Entry, StreamInv, EntryMatchesStream, Open
<1> DEFINE F == Failing \cap ids
           R == Retrying \cap ids
<1>1. /\ F \subseteq DOMAIN pending /\ R \subseteq DOMAIN pending
      /\ \A i \in F \cup R : pending[i].utf8
  BY DEF Failing, Retrying, Due, IllFormed
<1>2. R \cap F = {}
  BY DEF Retrying
<1>3. \A i \in DOMAIN pending : pending[i].retry_count \in Nat
  OBVIOUS
<1>4. \A i \in F : pending[i].retry_count >= MaxRetry
  BY DEF Failing
<1>5. \A i \in R : pending[i].retry_count < MaxRetry
  <2>1. \A i \in R : ~(pending[i].retry_count >= MaxRetry)
    BY DEF Retrying, Failing
  <2> QED BY <1>1, <1>3, <2>1, MaxRetryAssumption
<1>6. /\ last' = [c \in Commands |-> IF c \in CmdsOf(F) THEN "failed"
                                     ELSE IF c \in CmdsOf(R) THEN "retrying"
                                     ELSE last[c]]
      /\ tries' = [c \in Commands |-> IF c \in CmdsOf(R) THEN tries[c] + 1 ELSE tries[c]]
  BY DEF publishTick
<1> HIDE DEF F, R
<1> SUFFICES ASSUME NEW c \in Commands
             PROVE  \/ Lifecycle!Retry(c) \/ Lifecycle!Fail(c) \/ Lifecycle!Stay(c)
  BY DEF Lifecycle!Next
<1> USE DEF Lifecycle!Retry, Lifecycle!Fail, Lifecycle!Stay, Lifecycle!Open
<1>7. CASE c \in CmdsOf(F)
  <2>1. PICK i \in F : pending[i].cmd = c
    BY <1>7 DEF CmdsOf
  <2>2. last[c] \in Open /\ tries[c] = MaxRetry
    <3>1. i \in DOMAIN pending /\ pending[i].retry_count >= MaxRetry
      BY <1>1, <1>4, <2>1
    <3>2. last[c] \in Open /\ tries[c] = pending[i].retry_count
          /\ pending[i].retry_count <= MaxRetry
      BY <1>1, <3>1, <2>1
    <3>3. pending[i].retry_count = MaxRetry
      BY <3>1, <3>2, <1>3, MaxRetryAssumption
    <3> QED BY <3>2, <3>3
  <2>3. c \notin CmdsOf(R)
    BY <1>1, <1>2, <2>1 DEF CmdsOf, OneEntryPerCommand
  <2>4. last'[c] = "failed" /\ tries'[c] = tries[c]
    BY <1>6, <1>7, <2>3
  <2> QED BY <2>2, <2>4
<1>8. CASE c \notin CmdsOf(F) /\ c \in CmdsOf(R)
  <2>1. PICK i \in R : pending[i].cmd = c
    BY <1>8 DEF CmdsOf
  <2>2. last[c] \in Open /\ tries[c] < MaxRetry
    BY <1>1, <1>5, <2>1
  <2>3. last'[c] = "retrying" /\ tries'[c] = tries[c] + 1
    BY <1>6, <1>8
  <2> QED BY <2>2, <2>3
<1>9. CASE c \notin CmdsOf(F) /\ c \notin CmdsOf(R)
  BY <1>6, <1>9
<1> QED BY <1>7, <1>8, <1>9

(* Each step is a step of the life cycle of every command.                   *)
LEMMA LifecycleStep ==
  ASSUME TypeOK, StreamInv, [Next]_vars
  PROVE  [Lifecycle!Next]_(Lifecycle!vars)
<1> USE DEF TypeOK, Entry, StreamInv, EntryMatchesStream, Open, Lifecycle!Next,
        Lifecycle!vars, Lifecycle!Begin, Lifecycle!Retry, Lifecycle!Conclude,
        Lifecycle!Fail, Lifecycle!Stay, Lifecycle!Open
<1>1. ASSUME NEW c \in Commands, NEW d \in Devices, sendWakeOffline(c, d)
      PROVE  [Lifecycle!Next]_(Lifecycle!vars)
  BY <1>1 DEF sendWakeOffline, CanIssue, Reject, publishCommandEvent, wakeVars, linkVars, devVars
<1>2. ASSUME NEW c \in Commands, NEW d \in Devices, sendWakeExpired(c, d)
      PROVE  [Lifecycle!Next]_(Lifecycle!vars)
  BY <1>2 DEF sendWakeExpired, CanIssue, Reject, publishCommandEvent, wakeVars, linkVars, devVars
<1>3. ASSUME NEW c \in Commands, NEW d \in Devices, sendWake(c, d)
      PROVE  [Lifecycle!Next]_(Lifecycle!vars)
  BY <1>3 DEF sendWake, Routable, CanIssue, Dispatch, NewEntry, Put, publishCommandEvent, wakeVars, linkVars, devVars
<1>4. ASSUME NEW c \in Commands, NEW d \in Devices, sendLowPowerWake(c, d)
      PROVE  [Lifecycle!Next]_(Lifecycle!vars)
  BY <1>4 DEF sendLowPowerWake, Routable, CanIssue, Dispatch, NewEntry, Put, Reject, publishCommandEvent, wakeVars, linkVars, devVars
<1>5. ASSUME NEW m \in received, handleJsonWakeAck(m)
      PROVE  [Lifecycle!Next]_(Lifecycle!vars)
  BY <1>5 DEF handleJsonWakeAck, markAck, ProcessEnds, Without, publishCommandEvent, wakeVars, linkVars, devVars
<1>6. ASSUME NEW m \in received, handleJsonTaskDone(m)
      PROVE  [Lifecycle!Next]_(Lifecycle!vars)
  BY <1>6 DEF handleJsonTaskDone, markDone, ProcessEnds, Without, publishCommandEvent, wakeVars, linkVars, devVars
<1>7. CASE onTick
  <2>1. \A i \in (Failing \cup Retrying) \cap Due : i \notin IllFormed
    BY <1>7 DEF onTick
  <2> QED BY <1>7, <2>1, VisitedLifecycle DEF onTick
<1>8. CASE Elapse
  BY <1>8 DEF Elapse, wakeVars, linkVars, devVars
<1>9. CASE KeyExpires
  BY <1>9 DEF KeyExpires, wakeVars, linkVars, devVars
<1>10. CASE Deliver
  BY <1>10 DEF Deliver, wakeVars, linkVars, devVars
<1>11. ASSUME NEW d \in Devices, NEW s \in Sessions, Connect(d, s)
      PROVE  [Lifecycle!Next]_(Lifecycle!vars)
  BY <1>11 DEF Connect, wakeVars, linkVars, devVars
<1>12. ASSUME NEW s \in Sessions, SessionGone(s)
      PROVE  [Lifecycle!Next]_(Lifecycle!vars)
  BY <1>12 DEF SessionGone, wakeVars, linkVars, devVars
<1>13. ASSUME NEW d \in Devices, Unregister(d)
      PROVE  [Lifecycle!Next]_(Lifecycle!vars)
  BY <1>13 DEF Unregister, wakeVars, linkVars, devVars
<1>14. CASE UNCHANGED vars
  BY <1>14 DEF vars, wakeVars, linkVars, devVars
<1>15. ASSUME NEW c \in Commands, NEW d \in Devices, sendWakeThrows(c, d)
      PROVE  [Lifecycle!Next]_(Lifecycle!vars)
  BY <1>15 DEF sendWakeThrows, Routable, CanIssue, NewEntry, Put, publishCommandEvent, wakeVars, linkVars, devVars
<1>16. CASE onTickThrows
  <2>1. PICK ids \in SUBSET ((Failing \cup Retrying) \ IllFormed) : publishTick(ids)
    BY <1>16 DEF onTickThrows
  <2> QED BY <2>1, VisitedLifecycle
<1> QED
  BY <1>1, <1>2, <1>3, <1>4, <1>5, <1>6, <1>7, <1>8, <1>9, <1>10, <1>11, <1>12, <1>13,
     <1>14, <1>15, <1>16
  DEF Next, Request, Answer, Tick, Connections

------------------------------------------------------------------------------
IInv == TypeOK /\ StreamInv /\ IdInv

(* The inductive invariant holds in every reachable state.                   *)
THEOREM Invariance == Spec => []IInv
<1>1. Init => IInv
  <2> SUFFICES ASSUME Init PROVE IInv
    OBVIOUS
  <2>1. TypeOK
    <3>1. DOMAIN pending \subseteq Ids /\ pending \in [DOMAIN pending -> Entry]
      BY DEF Init
    <3>2. ms \in Ids /\ id \in [Commands -> Ids \cup {NoId}]
      BY MaxMsAssumption DEF Init, Ids
    <3>3. last \in [Commands -> Status] /\ tries \in [Commands -> Nat]
      BY DEF Init, Status
    <3> QED BY <3>1, <3>2, <3>3 DEF Init, TypeOK
  <2>2. StreamInv
    BY DEF Init, StreamInv, EntryMatchesStream, OneEntryPerCommand, UnissuedUntried
  <2>3. IdInv
    BY DEF Init, IdInv, EntryHasItsId, MessageHasItsId, NewHasNoId, OpenIsTracked,
           AnsweredByItsDevice
  <2> QED BY <2>1, <2>2, <2>3 DEF IInv
<1>2. IInv /\ [Next]_vars => IInv'
  BY TypeStep, StreamStep, IdStep DEF IInv
<1> QED BY <1>1, <1>2, PTL DEF Spec

(* pending_, the Redis keys and the event history always have their types.   *)
THEOREM TypeCorrect == Spec => []TypeOK
<1>1. IInv => TypeOK
  BY DEF IInv
<1> QED BY <1>1, Invariance, PTL

(* sendWake, onTick, markAck and markDone implement the life cycle: at most  *)
(* max_retry retries, one conclusion, "failed" only after the last retry.    *)
(* This holds even when two commands share a message id.                     *)
THEOREM LifecycleRefinement == Spec => FollowsLifecycle
<1>1. Init => Lifecycle!Init
  BY DEF Init, Lifecycle!Init
<1>2. IInv /\ [Next]_vars => [Lifecycle!Next]_(Lifecycle!vars)
  BY LifecycleStep DEF IInv
<1> QED BY <1>1, <1>2, Invariance, PTL DEF Spec, FollowsLifecycle, Lifecycle!Spec

(* Whatever sendWake, onTick, markAck and markDone do, and also when two     *)
(* commands were made in the same millisecond, an open command keeps an      *)
(* entry under its id until a command with this id concludes.                *)
THEOREM OpenCommandsAreTracked == Spec => []OpenIsTracked
<1>1. IInv => OpenIsTracked
  BY DEF IInv, IdInv
<1> QED BY <1>1, Invariance, PTL

(* markAck and markDone conclude a command only when the device of a command *)
(* with the same message id has answered.                                    *)
THEOREM ConclusionsAreAnswers == Spec => []AnsweredByItsDevice
<1>1. IInv => AnsweredByItsDevice
  BY DEF IInv, IdInv
<1> QED BY <1>1, Invariance, PTL

==============================================================================
