--------------------------- MODULE WakeThreadsProofs ---------------------------
(***************************************************************************)
(* Proofs about WakeThreads for every set of commands and connections and  *)
(* any number of workers.  Three facts hold however the handlers overlap,  *)
(* because each rests on what a handler has already done when it reaches a *)
(* step; the fourth is about one worker, which runs one handler at a time. *)
(***************************************************************************)
EXTENDS WakeThreads, FiniteSetTheorems, TLAPS

SendSteps == {"new", "second", "insert", "save", "send", "publish", "end"}
Protocols == {"JSON_LINE", "LOWPOWER"}
Statuses  == {"rejected", "dispatched", "acked", "done", "failed", "retrying"}

(* What ends a command: its entry may go once one of them is published.      *)
Answered == {"acked", "done", "failed"}

Answer == [at : {"remove", "publish", "erase"}, it : Commands, status : {"acked", "done"}]
Loop   == [at : Commands \cup {NoCommand}, todo : SUBSET Commands,
           passed : SUBSET Commands, remove : SUBSET Commands]

TypeOK ==
  /\ workers \in Nat
  /\ registered \in Sessions \cup {NoSession}
  /\ sproto \in [Sessions -> Protocols]
  /\ received \in SUBSET Commands
  /\ pending \in SUBSET Commands /\ due \in SUBSET Commands /\ keys \in SUBSET Commands
  /\ retry_count \in [Commands -> Nat]
  /\ broken \in BOOLEAN
  /\ send \in [Commands -> [at : SendSteps, session : Sessions \cup {NoSession},
                            proto : Protocols]]
  /\ ans \in [Sessions -> Answer \cup {NoAnswer}]
  /\ tick \in Loop \cup {NoTick}
  /\ events \in [Commands -> SUBSET Statuses]
  /\ sent \in [Commands -> SUBSET (Protocols \X (Sessions \cup {NoSession}))]
  /\ moved \in [Commands -> BOOLEAN]
  /\ overtaken \in SUBSET Commands

------------------------------------------------------------------------------
(* What a step of sendWake says of the steps before it.                      *)

Inserted(c) == send[c].at \in {"save", "send", "publish", "end"}

(* The map holds only what sendWake has inserted, and only entries time out. *)
EntriesInserted ==
  /\ \A c \in pending : Inserted(c)
  /\ due \subseteq pending

(* The device has only received what was sent after the entry was made, and  *)
(* after the key was written unless the tick has overtaken that.             *)
ReceivedIsSent ==
  \A c \in received : Inserted(c) /\ (send[c].at = "save" => c \in overtaken)

(* An entry stays until something that ends the command is published.        *)
EntryStays ==
  \A c \in Commands :
    c \in received \/ send[c].at \in {"save", "send", "publish"}
      => c \in pending \/ events[c] \cap Answered # {}

(* An answer under way is about a command the device has received; after     *)
(* markDone's Redis command its key is gone, or may come back because it was *)
(* overtaken, and it is erased only when the event has been published.       *)
AnswersInOrder ==
  \A s \in Sessions :
    ans[s] # NoAnswer =>
      /\ ans[s].it \in received
      /\ ans[s].at # "remove" /\ ans[s].status = "done" =>
           ans[s].it \notin keys \/ ans[s].it \in overtaken
      /\ ans[s].at = "erase" => ans[s].status \in events[ans[s].it]

(* onTick removes what it has published as failed.                           *)
RemovedIsFailed == tick # NoTick => \A c \in tick.remove : "failed" \in events[c]

(* Only a command the device has received is done.                           *)
DoneIsReceived == \A c \in Commands : "done" \in events[c] => c \in received

(* The session and the protocol of the handler, or of the entry, belong      *)
(* together, unless the registration moved or lowpower_wakeup was asked for. *)
Fits(c) == send[c].proto = sproto[send[c].session] \/ moved[c]

EntriesFit ==
  \A c \in Commands :
    /\ send[c].at \in {"insert", "save", "send", "publish"} \/ c \in pending => Fits(c)
    /\ send[c].at = "second" =>
         moved[c] \/ (registered = send[c].session /\ sproto[registered] = "LOWPOWER")
    /\ send[c].at = "new" => sent[c] = {}

------------------------------------------------------------------------------
(* One worker.  At most one handler is under way, and the iterator it holds  *)
(* has its element: nobody else could erase it.                              *)
OneHandler ==
  /\ \A c, d \in Sending : c = d
  /\ \A r, s \in Answering : r = s
  /\ Sending = {} \/ Answering = {}
  /\ tick # NoTick => Sending = {} /\ Answering = {}

IteratorsHaveElements ==
  /\ \A s \in Answering : ans[s].it \in pending
  /\ tick # NoTick => tick.at \in pending \cup {NoCommand}

AloneInv == workers = 1 => OneHandler /\ IteratorsHaveElements /\ ~broken

(* A busy answer has an iterator and a status.                               *)
LEMMA AnswerType ==
  ASSUME TypeOK, NEW s \in Sessions
  PROVE  /\ ans[s].at # "idle" => ans[s] \in Answer
         /\ ans[s] # NoAnswer <=> ans[s].at # "idle"
BY DEF TypeOK, NoAnswer, Answer

(* The handlers are idle at the start.                                       *)
LEMMA InitType == Init => TypeOK
<1> SUFFICES ASSUME Init PROVE TypeOK
  OBVIOUS
<1>1. workers \in Nat
  BY WorkersAssumption DEF Init
<1>2. send \in [Commands -> [at : SendSteps, session : Sessions \cup {NoSession},
                            proto : Protocols]]
  BY DEF Init, SendSteps, Protocols
<1> QED BY <1>1, <1>2 DEF Init, TypeOK, Protocols

(* What a rejected command leaves behind.                                    *)
LEMMA RejectTypes ==
  ASSUME TypeOK, NEW c \in Commands, Reject(c)
  PROVE  TypeOK'
<1>1. send' \in [Commands -> [at : SendSteps, session : Sessions \cup {NoSession},
                             proto : Protocols]]
  BY DEF Reject, At, TypeOK, SendSteps
<1>2. events' \in [Commands -> SUBSET Statuses]
  BY DEF Reject, publishCommandEvent, TypeOK, Statuses
<1> QED BY <1>1, <1>2 DEF Reject, TypeOK, deviceVars, mapVars,
        history

(* Every step preserves the types.                                           *)
LEMMA TypeStep ==
  ASSUME TypeOK, [Next]_vars
  PROVE  TypeOK'
<1> USE DEF TypeOK, Protocols, Statuses, SendSteps, Answer, Loop, deviceVars, mapVars,
        history
<1>1. ASSUME NEW c \in Commands, sendWakeOffline(c)
      PROVE  TypeOK'
  BY <1>1, RejectTypes DEF sendWakeOffline
<1>2. ASSUME NEW c \in Commands, NEW lowpower \in BOOLEAN, sendWake(c, lowpower)
      PROVE  TypeOK'
  BY <1>2 DEF sendWake
<1>3. ASSUME NEW c \in Commands, sendLowPowerWakeOffline(c)
      PROVE  TypeOK'
  BY <1>3, RejectTypes DEF sendLowPowerWakeOffline
<1>4. ASSUME NEW c \in Commands, sendLowPowerWake(c)
      PROVE  TypeOK'
  BY <1>4 DEF sendLowPowerWake
<1>5. ASSUME NEW c \in Commands, InsertEntry(c)
      PROVE  TypeOK'
  <2>1. send' \in [Commands -> [at : SendSteps, session : Sessions \cup {NoSession},
                                proto : Protocols]]
    BY <1>5 DEF InsertEntry, At
  <2> QED BY <1>5, <2>1 DEF InsertEntry
<1>6. ASSUME NEW c \in Commands, savePendingWake(c)
      PROVE  TypeOK'
  <2>1. send' \in [Commands -> [at : SendSteps, session : Sessions \cup {NoSession},
                                proto : Protocols]]
    BY <1>6 DEF savePendingWake, At
  <2> QED BY <1>6, <2>1 DEF savePendingWake
<1>7. ASSUME NEW c \in Commands, SendMessage(c)
      PROVE  TypeOK'
  BY <1>7 DEF SendMessage, Transmit, At
<1>8. ASSUME NEW c \in Commands, PublishDispatched(c)
      PROVE  TypeOK'
  BY <1>8 DEF PublishDispatched, At, publishCommandEvent
<1>9. ASSUME NEW c \in Commands, TimeOut(c)
      PROVE  TypeOK'
  BY <1>9 DEF TimeOut
<1>10. ASSUME NEW s \in Sessions, NEW c \in Commands, NEW status \in {"acked", "done"},
               Find(s, c, status)
      PROVE  TypeOK'
  BY <1>10 DEF Find
<1>11. ASSUME NEW s \in Sessions, Dangling(s)
      PROVE  TypeOK'
  BY <1>11 DEF Dangling
<1>12. ASSUME NEW s \in Sessions, removePendingWake(s)
      PROVE  TypeOK'
  <2>1. ans[s] \in Answer
    BY <1>12, AnswerType DEF removePendingWake
  <2>2. ans' \in [Sessions -> Answer \cup {NoAnswer}]
    BY <1>12, <2>1 DEF removePendingWake
  <2> QED BY <1>12, <2>2 DEF removePendingWake
<1>13. ASSUME NEW s \in Sessions, PublishAnswer(s)
      PROVE  TypeOK'
  BY <1>13, AnswerType DEF PublishAnswer, publishCommandEvent
<1>14. ASSUME NEW s \in Sessions, Erase(s)
      PROVE  TypeOK'
  BY <1>14 DEF Erase
<1>15. ASSUME NEW s \in Sessions, Register(s)
      PROVE  TypeOK'
  BY <1>15 DEF Register
<1>16. ASSUME StartTick
      PROVE  TypeOK'
  BY <1>16 DEF StartTick
<1>17. ASSUME TickDangling
      PROVE  TypeOK'
  BY <1>17 DEF TickDangling
<1>18. ASSUME EndTick
      PROVE  TypeOK'
  BY <1>18 DEF EndTick
<1>19. ASSUME NEW c \in Commands, PassEntry(c)
      PROVE  TypeOK'
  BY <1>19 DEF PassEntry, Passed, MayMove
<1>20. ASSUME NEW c \in Commands, FailEntry(c)
      PROVE  TypeOK'
  BY <1>20 DEF FailEntry, Passed, MayMove, publishCommandEvent
<1>21. ASSUME NEW c \in Commands, retryWake(c)
      PROVE  TypeOK'
  <2>1. c \in Commands /\ tick \in Loop /\ retry_count[c] \in Nat
    BY <1>21 DEF retryWake, MayMove
  <2>2. tick' \in Loop /\ due' \in SUBSET Commands /\ events' \in [Commands -> SUBSET Statuses]
    BY <1>21, <2>1 DEF retryWake, Passed, publishCommandEvent
  <2>3. /\ received' \in SUBSET Commands
        /\ sent' \in [Commands -> SUBSET (Protocols \X (Sessions \cup {NoSession}))]
    BY <1>21 DEF retryWake, Transmit
  <2>4. retry_count' \in [Commands -> Nat]
    BY <1>21, <2>1 DEF retryWake
  <2>5. /\ UNCHANGED <<workers, registered, sproto, pending, keys, broken, send, ans, moved>>
        /\ overtaken' \in SUBSET Commands
    BY <1>21 DEF retryWake, Transmit
  <2> QED BY <2>2, <2>3, <2>4, <2>5
<1>22. ASSUME UNCHANGED vars
      PROVE  TypeOK'
  BY <1>22 DEF vars
<1> HIDE DEF TypeOK
<1> QED
  BY <1>1, <1>2, <1>3, <1>4, <1>5, <1>6, <1>7, <1>8, <1>9, <1>10, <1>11,
     <1>12, <1>13, <1>14, <1>15, <1>16, <1>17, <1>18, <1>19, <1>20, <1>21, <1>22
  DEF Next, SendHandler, AnswerHandler, TickHandler

(* The map: insertion, erasure and timeout.                                  *)
LEMMA InsertedStep ==
  ASSUME TypeOK, EntriesInserted, [Next]_vars
  PROVE  EntriesInserted'
<1> USE DEF EntriesInserted, Inserted, TypeOK, deviceVars, mapVars,
        history
<1>1. ASSUME NEW c \in Commands, sendWakeOffline(c)
      PROVE  EntriesInserted'
  BY <1>1 DEF sendWakeOffline, Reject, At, publishCommandEvent
<1>2. ASSUME NEW c \in Commands, NEW lowpower \in BOOLEAN, sendWake(c, lowpower)
      PROVE  EntriesInserted'
  BY <1>2 DEF sendWake
<1>3. ASSUME NEW c \in Commands, sendLowPowerWakeOffline(c)
      PROVE  EntriesInserted'
  BY <1>3 DEF sendLowPowerWakeOffline, Reject, At, publishCommandEvent
<1>4. ASSUME NEW c \in Commands, sendLowPowerWake(c)
      PROVE  EntriesInserted'
  BY <1>4 DEF sendLowPowerWake
<1>5. ASSUME NEW c \in Commands, InsertEntry(c)
      PROVE  EntriesInserted'
  BY <1>5 DEF InsertEntry, At
<1>6. ASSUME NEW c \in Commands, savePendingWake(c)
      PROVE  EntriesInserted'
  BY <1>6 DEF savePendingWake, At
<1>7. ASSUME NEW c \in Commands, SendMessage(c)
      PROVE  EntriesInserted'
  BY <1>7 DEF SendMessage, Transmit, At
<1>8. ASSUME NEW c \in Commands, PublishDispatched(c)
      PROVE  EntriesInserted'
  BY <1>8 DEF PublishDispatched, At, publishCommandEvent
<1>9. ASSUME NEW c \in Commands, TimeOut(c)
      PROVE  EntriesInserted'
  BY <1>9 DEF TimeOut
<1>10. ASSUME NEW s \in Sessions, NEW c \in Commands, NEW status \in {"acked", "done"},
               Find(s, c, status)
      PROVE  EntriesInserted'
  BY <1>10 DEF Find
<1>11. ASSUME NEW s \in Sessions, Dangling(s)
      PROVE  EntriesInserted'
  BY <1>11 DEF Dangling
<1>12. ASSUME NEW s \in Sessions, removePendingWake(s)
      PROVE  EntriesInserted'
  BY <1>12 DEF removePendingWake
<1>13. ASSUME NEW s \in Sessions, PublishAnswer(s)
      PROVE  EntriesInserted'
  BY <1>13 DEF PublishAnswer, publishCommandEvent
<1>14. ASSUME NEW s \in Sessions, Erase(s)
      PROVE  EntriesInserted'
  BY <1>14 DEF Erase
<1>15. ASSUME NEW s \in Sessions, Register(s)
      PROVE  EntriesInserted'
  BY <1>15 DEF Register
<1>16. ASSUME StartTick
      PROVE  EntriesInserted'
  BY <1>16 DEF StartTick
<1>17. ASSUME TickDangling
      PROVE  EntriesInserted'
  BY <1>17 DEF TickDangling
<1>18. ASSUME EndTick
      PROVE  EntriesInserted'
  BY <1>18 DEF EndTick
<1>19. ASSUME NEW c \in Commands, PassEntry(c)
      PROVE  EntriesInserted'
  BY <1>19 DEF PassEntry, Passed, MayMove
<1>20. ASSUME NEW c \in Commands, FailEntry(c)
      PROVE  EntriesInserted'
  BY <1>20 DEF FailEntry, Passed, MayMove, publishCommandEvent
<1>21. ASSUME NEW c \in Commands, retryWake(c)
      PROVE  EntriesInserted'
  BY <1>21 DEF retryWake, Passed, MayMove, Transmit, publishCommandEvent
<1>22. ASSUME UNCHANGED vars
      PROVE  EntriesInserted'
  BY <1>22 DEF vars
<1> HIDE DEF EntriesInserted, TypeOK
<1> QED
  BY <1>1, <1>2, <1>3, <1>4, <1>5, <1>6, <1>7, <1>8, <1>9, <1>10, <1>11,
     <1>12, <1>13, <1>14, <1>15, <1>16, <1>17, <1>18, <1>19, <1>20, <1>21, <1>22
  DEF Next, SendHandler, AnswerHandler, TickHandler

(* The messages: the first one, and those of retryWake.                      *)
LEMMA ReceivedStep ==
  ASSUME TypeOK, EntriesInserted, ReceivedIsSent, [Next]_vars
  PROVE  ReceivedIsSent'
<1> USE DEF EntriesInserted, Inserted, ReceivedIsSent, TypeOK, deviceVars, mapVars,
        history
<1>1. ASSUME NEW c \in Commands, sendWakeOffline(c)
      PROVE  ReceivedIsSent'
  BY <1>1 DEF sendWakeOffline, Reject, At, publishCommandEvent
<1>2. ASSUME NEW c \in Commands, NEW lowpower \in BOOLEAN, sendWake(c, lowpower)
      PROVE  ReceivedIsSent'
  BY <1>2 DEF sendWake
<1>3. ASSUME NEW c \in Commands, sendLowPowerWakeOffline(c)
      PROVE  ReceivedIsSent'
  BY <1>3 DEF sendLowPowerWakeOffline, Reject, At, publishCommandEvent
<1>4. ASSUME NEW c \in Commands, sendLowPowerWake(c)
      PROVE  ReceivedIsSent'
  BY <1>4 DEF sendLowPowerWake
<1>5. ASSUME NEW c \in Commands, InsertEntry(c)
      PROVE  ReceivedIsSent'
  BY <1>5 DEF InsertEntry, At
<1>6. ASSUME NEW c \in Commands, savePendingWake(c)
      PROVE  ReceivedIsSent'
  BY <1>6 DEF savePendingWake, At
<1>7. ASSUME NEW c \in Commands, SendMessage(c)
      PROVE  ReceivedIsSent'
  <2>1. received' \subseteq received \cup {c} /\ overtaken' = overtaken
    BY <1>7 DEF SendMessage, Transmit
  <2>2. send' = [send EXCEPT ![c].at = "publish"]
    BY <1>7 DEF SendMessage, At
  <2>3. send'[c].at = "publish" /\ \A d \in Commands \ {c} : send'[d] = send[d]
    BY <2>2
  <2>4. ASSUME NEW d \in received'
        PROVE  Inserted(d)' /\ (send'[d].at = "save" => d \in overtaken')
    <3>1. CASE d = c
      BY <2>3, <3>1
    <3>2. CASE d # c
      <4>1. d \in received /\ d \in Commands /\ send'[d] = send[d]
        BY <2>1, <2>3, <3>2
      <4> QED BY <2>1, <4>1
    <3> QED BY <3>1, <3>2
  <2> QED BY <2>4
<1>8. ASSUME NEW c \in Commands, PublishDispatched(c)
      PROVE  ReceivedIsSent'
  BY <1>8 DEF PublishDispatched, At, publishCommandEvent
<1>9. ASSUME NEW c \in Commands, TimeOut(c)
      PROVE  ReceivedIsSent'
  BY <1>9 DEF TimeOut
<1>10. ASSUME NEW s \in Sessions, NEW c \in Commands, NEW status \in {"acked", "done"},
               Find(s, c, status)
      PROVE  ReceivedIsSent'
  BY <1>10 DEF Find
<1>11. ASSUME NEW s \in Sessions, Dangling(s)
      PROVE  ReceivedIsSent'
  BY <1>11 DEF Dangling
<1>12. ASSUME NEW s \in Sessions, removePendingWake(s)
      PROVE  ReceivedIsSent'
  BY <1>12 DEF removePendingWake
<1>13. ASSUME NEW s \in Sessions, PublishAnswer(s)
      PROVE  ReceivedIsSent'
  BY <1>13 DEF PublishAnswer, publishCommandEvent
<1>14. ASSUME NEW s \in Sessions, Erase(s)
      PROVE  ReceivedIsSent'
  BY <1>14 DEF Erase
<1>15. ASSUME NEW s \in Sessions, Register(s)
      PROVE  ReceivedIsSent'
  BY <1>15 DEF Register
<1>16. ASSUME StartTick
      PROVE  ReceivedIsSent'
  BY <1>16 DEF StartTick
<1>17. ASSUME TickDangling
      PROVE  ReceivedIsSent'
  BY <1>17 DEF TickDangling
<1>18. ASSUME EndTick
      PROVE  ReceivedIsSent'
  BY <1>18 DEF EndTick
<1>19. ASSUME NEW c \in Commands, PassEntry(c)
      PROVE  ReceivedIsSent'
  BY <1>19 DEF PassEntry, Passed, MayMove
<1>20. ASSUME NEW c \in Commands, FailEntry(c)
      PROVE  ReceivedIsSent'
  BY <1>20 DEF FailEntry, Passed, MayMove, publishCommandEvent
<1>21. ASSUME NEW c \in Commands, retryWake(c)
      PROVE  ReceivedIsSent'
  <2>1. /\ received' \subseteq received \cup {c} /\ overtaken \subseteq overtaken'
        /\ send[c].at = "save" => c \in overtaken'
        /\ send' = send /\ c \in pending
    BY <1>21 DEF retryWake, Transmit
  <2>2. Inserted(c)
    BY <2>1
  <2>3. ASSUME NEW d \in received'
        PROVE  Inserted(d)' /\ (send'[d].at = "save" => d \in overtaken')
    <3>1. CASE d = c
      BY <2>1, <2>2, <3>1
    <3>2. CASE d # c
      <4>1. d \in received
        BY <2>1, <3>2
      <4> QED BY <2>1, <4>1
    <3> QED BY <3>1, <3>2
  <2> QED BY <2>3
<1>22. ASSUME UNCHANGED vars
      PROVE  ReceivedIsSent'
  BY <1>22 DEF vars
<1> HIDE DEF ReceivedIsSent, TypeOK
<1> QED
  BY <1>1, <1>2, <1>3, <1>4, <1>5, <1>6, <1>7, <1>8, <1>9, <1>10, <1>11,
     <1>12, <1>13, <1>14, <1>15, <1>16, <1>17, <1>18, <1>19, <1>20, <1>21, <1>22
  DEF Next, SendHandler, AnswerHandler, TickHandler

(* The entry of a command that is not answered.                              *)
LEMMA StaysStep ==
  ASSUME TypeOK, EntriesInserted, AnswersInOrder, RemovedIsFailed, EntryStays, [Next]_vars
  PROVE  EntryStays'
<1> USE DEF EntriesInserted, Inserted, EntryStays, Answered, TypeOK, deviceVars, mapVars,
        history
<1>1. ASSUME NEW c \in Commands, sendWakeOffline(c)
      PROVE  EntryStays'
  BY <1>1 DEF sendWakeOffline, Reject, At, publishCommandEvent
<1>2. ASSUME NEW c \in Commands, NEW lowpower \in BOOLEAN, sendWake(c, lowpower)
      PROVE  EntryStays'
  BY <1>2 DEF sendWake
<1>3. ASSUME NEW c \in Commands, sendLowPowerWakeOffline(c)
      PROVE  EntryStays'
  BY <1>3 DEF sendLowPowerWakeOffline, Reject, At, publishCommandEvent
<1>4. ASSUME NEW c \in Commands, sendLowPowerWake(c)
      PROVE  EntryStays'
  BY <1>4 DEF sendLowPowerWake
<1>5. ASSUME NEW c \in Commands, InsertEntry(c)
      PROVE  EntryStays'
  BY <1>5 DEF InsertEntry, At
<1>6. ASSUME NEW c \in Commands, savePendingWake(c)
      PROVE  EntryStays'
  BY <1>6 DEF savePendingWake, At
<1>7. ASSUME NEW c \in Commands, SendMessage(c)
      PROVE  EntryStays'
  BY <1>7 DEF SendMessage, Transmit, At
<1>8. ASSUME NEW c \in Commands, PublishDispatched(c)
      PROVE  EntryStays'
  BY <1>8 DEF PublishDispatched, At, publishCommandEvent
<1>9. ASSUME NEW c \in Commands, TimeOut(c)
      PROVE  EntryStays'
  BY <1>9 DEF TimeOut
<1>10. ASSUME NEW s \in Sessions, NEW c \in Commands, NEW status \in {"acked", "done"},
               Find(s, c, status)
      PROVE  EntryStays'
  BY <1>10 DEF Find
<1>11. ASSUME NEW s \in Sessions, Dangling(s)
      PROVE  EntryStays'
  BY <1>11 DEF Dangling
<1>12. ASSUME NEW s \in Sessions, removePendingWake(s)
      PROVE  EntryStays'
  BY <1>12 DEF removePendingWake
<1>13. ASSUME NEW s \in Sessions, PublishAnswer(s)
      PROVE  EntryStays'
  BY <1>13 DEF PublishAnswer, publishCommandEvent
<1>14. ASSUME NEW s \in Sessions, Erase(s)
      PROVE  EntryStays'
  <2>1. events[ans[s].it] \cap {"acked", "done", "failed"} # {}
    BY <1>14, AnswerType DEF Erase, AnswersInOrder, Answer
  <2> QED BY <1>14, <2>1 DEF Erase
<1>15. ASSUME NEW s \in Sessions, Register(s)
      PROVE  EntryStays'
  BY <1>15 DEF Register
<1>16. ASSUME StartTick
      PROVE  EntryStays'
  BY <1>16 DEF StartTick
<1>17. ASSUME TickDangling
      PROVE  EntryStays'
  BY <1>17 DEF TickDangling
<1>18. ASSUME EndTick
      PROVE  EntryStays'
  <2>1. \A c \in tick.remove : events[c] \cap {"acked", "done", "failed"} # {}
    BY <1>18 DEF EndTick, MayMove, RemovedIsFailed
  <2> QED BY <1>18, <2>1 DEF EndTick
<1>19. ASSUME NEW c \in Commands, PassEntry(c)
      PROVE  EntryStays'
  BY <1>19 DEF PassEntry, Passed, MayMove
<1>20. ASSUME NEW c \in Commands, FailEntry(c)
      PROVE  EntryStays'
  BY <1>20 DEF FailEntry, Passed, MayMove, publishCommandEvent
<1>21. ASSUME NEW c \in Commands, retryWake(c)
      PROVE  EntryStays'
  BY <1>21 DEF retryWake, Passed, MayMove, Transmit, publishCommandEvent
<1>22. ASSUME UNCHANGED vars
      PROVE  EntryStays'
  BY <1>22 DEF vars
<1> HIDE DEF EntryStays, TypeOK
<1> QED
  BY <1>1, <1>2, <1>3, <1>4, <1>5, <1>6, <1>7, <1>8, <1>9, <1>10, <1>11,
     <1>12, <1>13, <1>14, <1>15, <1>16, <1>17, <1>18, <1>19, <1>20, <1>21, <1>22
  DEF Next, SendHandler, AnswerHandler, TickHandler

(* The steps of an answer.                                                   *)
LEMMA AnswersStep ==
  ASSUME TypeOK, ReceivedIsSent, AnswersInOrder, [Next]_vars
  PROVE  AnswersInOrder'
<1> USE DEF ReceivedIsSent, AnswersInOrder, TypeOK, deviceVars, mapVars,
        history
<1>1. ASSUME NEW c \in Commands, sendWakeOffline(c)
      PROVE  AnswersInOrder'
  BY <1>1 DEF sendWakeOffline, Reject, At, publishCommandEvent
<1>2. ASSUME NEW c \in Commands, NEW lowpower \in BOOLEAN, sendWake(c, lowpower)
      PROVE  AnswersInOrder'
  BY <1>2 DEF sendWake
<1>3. ASSUME NEW c \in Commands, sendLowPowerWakeOffline(c)
      PROVE  AnswersInOrder'
  BY <1>3 DEF sendLowPowerWakeOffline, Reject, At, publishCommandEvent
<1>4. ASSUME NEW c \in Commands, sendLowPowerWake(c)
      PROVE  AnswersInOrder'
  BY <1>4 DEF sendLowPowerWake
<1>5. ASSUME NEW c \in Commands, InsertEntry(c)
      PROVE  AnswersInOrder'
  BY <1>5 DEF InsertEntry, At
<1>6. ASSUME NEW c \in Commands, savePendingWake(c)
      PROVE  AnswersInOrder'
  BY <1>6 DEF savePendingWake, At
<1>7. ASSUME NEW c \in Commands, SendMessage(c)
      PROVE  AnswersInOrder'
  BY <1>7 DEF SendMessage, Transmit, At
<1>8. ASSUME NEW c \in Commands, PublishDispatched(c)
      PROVE  AnswersInOrder'
  BY <1>8 DEF PublishDispatched, At, publishCommandEvent
<1>9. ASSUME NEW c \in Commands, TimeOut(c)
      PROVE  AnswersInOrder'
  BY <1>9 DEF TimeOut
<1>10. ASSUME NEW s \in Sessions, NEW c \in Commands, NEW status \in {"acked", "done"},
               Find(s, c, status)
      PROVE  AnswersInOrder'
  BY <1>10 DEF Find
<1>11. ASSUME NEW s \in Sessions, Dangling(s)
      PROVE  AnswersInOrder'
  BY <1>11 DEF Dangling
<1>12. ASSUME NEW s \in Sessions, removePendingWake(s)
      PROVE  AnswersInOrder'
  <2>1. ans[s] \in Answer /\ ans[s] # NoAnswer
    BY <1>12, AnswerType DEF removePendingWake
  <2>2. ans'[s].it = ans[s].it /\ ans'[s].status = ans[s].status
    BY <1>12, <2>1 DEF removePendingWake, Answer
  <2> QED BY <1>12, <2>1, <2>2 DEF removePendingWake, Answer
<1>13. ASSUME NEW s \in Sessions, PublishAnswer(s)
      PROVE  AnswersInOrder'
  <2>1. ans[s] \in Answer /\ ans[s] # NoAnswer
    BY <1>13, AnswerType DEF PublishAnswer
  <2>2. ans'[s].it = ans[s].it /\ ans'[s].status = ans[s].status
    BY <1>13, <2>1 DEF PublishAnswer, Answer
  <2> QED BY <1>13, <2>1, <2>2 DEF PublishAnswer, publishCommandEvent, Answer
<1>14. ASSUME NEW s \in Sessions, Erase(s)
      PROVE  AnswersInOrder'
  BY <1>14 DEF Erase
<1>15. ASSUME NEW s \in Sessions, Register(s)
      PROVE  AnswersInOrder'
  BY <1>15 DEF Register
<1>16. ASSUME StartTick
      PROVE  AnswersInOrder'
  BY <1>16 DEF StartTick
<1>17. ASSUME TickDangling
      PROVE  AnswersInOrder'
  BY <1>17 DEF TickDangling
<1>18. ASSUME EndTick
      PROVE  AnswersInOrder'
  BY <1>18 DEF EndTick
<1>19. ASSUME NEW c \in Commands, PassEntry(c)
      PROVE  AnswersInOrder'
  BY <1>19 DEF PassEntry, Passed, MayMove
<1>20. ASSUME NEW c \in Commands, FailEntry(c)
      PROVE  AnswersInOrder'
  BY <1>20 DEF FailEntry, Passed, MayMove, publishCommandEvent
<1>21. ASSUME NEW c \in Commands, retryWake(c)
      PROVE  AnswersInOrder'
  BY <1>21 DEF retryWake, Passed, MayMove, Transmit, publishCommandEvent
<1>22. ASSUME UNCHANGED vars
      PROVE  AnswersInOrder'
  BY <1>22 DEF vars
<1> HIDE DEF AnswersInOrder, TypeOK
<1> QED
  BY <1>1, <1>2, <1>3, <1>4, <1>5, <1>6, <1>7, <1>8, <1>9, <1>10, <1>11,
     <1>12, <1>13, <1>14, <1>15, <1>16, <1>17, <1>18, <1>19, <1>20, <1>21, <1>22
  DEF Next, SendHandler, AnswerHandler, TickHandler

(* The list of onTick.                                                       *)
LEMMA RemovedStep ==
  ASSUME TypeOK, RemovedIsFailed, [Next]_vars
  PROVE  RemovedIsFailed'
<1> USE DEF RemovedIsFailed, TypeOK, deviceVars, mapVars,
        history
<1>1. ASSUME NEW c \in Commands, sendWakeOffline(c)
      PROVE  RemovedIsFailed'
  BY <1>1 DEF sendWakeOffline, Reject, At, publishCommandEvent
<1>2. ASSUME NEW c \in Commands, NEW lowpower \in BOOLEAN, sendWake(c, lowpower)
      PROVE  RemovedIsFailed'
  BY <1>2 DEF sendWake
<1>3. ASSUME NEW c \in Commands, sendLowPowerWakeOffline(c)
      PROVE  RemovedIsFailed'
  BY <1>3 DEF sendLowPowerWakeOffline, Reject, At, publishCommandEvent
<1>4. ASSUME NEW c \in Commands, sendLowPowerWake(c)
      PROVE  RemovedIsFailed'
  BY <1>4 DEF sendLowPowerWake
<1>5. ASSUME NEW c \in Commands, InsertEntry(c)
      PROVE  RemovedIsFailed'
  BY <1>5 DEF InsertEntry, At
<1>6. ASSUME NEW c \in Commands, savePendingWake(c)
      PROVE  RemovedIsFailed'
  BY <1>6 DEF savePendingWake, At
<1>7. ASSUME NEW c \in Commands, SendMessage(c)
      PROVE  RemovedIsFailed'
  BY <1>7 DEF SendMessage, Transmit, At
<1>8. ASSUME NEW c \in Commands, PublishDispatched(c)
      PROVE  RemovedIsFailed'
  BY <1>8 DEF PublishDispatched, At, publishCommandEvent
<1>9. ASSUME NEW c \in Commands, TimeOut(c)
      PROVE  RemovedIsFailed'
  BY <1>9 DEF TimeOut
<1>10. ASSUME NEW s \in Sessions, NEW c \in Commands, NEW status \in {"acked", "done"},
               Find(s, c, status)
      PROVE  RemovedIsFailed'
  BY <1>10 DEF Find
<1>11. ASSUME NEW s \in Sessions, Dangling(s)
      PROVE  RemovedIsFailed'
  BY <1>11 DEF Dangling
<1>12. ASSUME NEW s \in Sessions, removePendingWake(s)
      PROVE  RemovedIsFailed'
  BY <1>12 DEF removePendingWake
<1>13. ASSUME NEW s \in Sessions, PublishAnswer(s)
      PROVE  RemovedIsFailed'
  BY <1>13 DEF PublishAnswer, publishCommandEvent
<1>14. ASSUME NEW s \in Sessions, Erase(s)
      PROVE  RemovedIsFailed'
  BY <1>14 DEF Erase
<1>15. ASSUME NEW s \in Sessions, Register(s)
      PROVE  RemovedIsFailed'
  BY <1>15 DEF Register
<1>16. ASSUME StartTick
      PROVE  RemovedIsFailed'
  BY <1>16 DEF StartTick
<1>17. ASSUME TickDangling
      PROVE  RemovedIsFailed'
  BY <1>17 DEF TickDangling
<1>18. ASSUME EndTick
      PROVE  RemovedIsFailed'
  BY <1>18 DEF EndTick
<1>19. ASSUME NEW c \in Commands, PassEntry(c)
      PROVE  RemovedIsFailed'
  BY <1>19 DEF PassEntry, Passed, MayMove
<1>20. ASSUME NEW c \in Commands, FailEntry(c)
      PROVE  RemovedIsFailed'
  BY <1>20 DEF FailEntry, Passed, MayMove, publishCommandEvent
<1>21. ASSUME NEW c \in Commands, retryWake(c)
      PROVE  RemovedIsFailed'
  BY <1>21 DEF retryWake, Passed, MayMove, Transmit, publishCommandEvent
<1>22. ASSUME UNCHANGED vars
      PROVE  RemovedIsFailed'
  BY <1>22 DEF vars
<1> HIDE DEF RemovedIsFailed, TypeOK
<1> QED
  BY <1>1, <1>2, <1>3, <1>4, <1>5, <1>6, <1>7, <1>8, <1>9, <1>10, <1>11,
     <1>12, <1>13, <1>14, <1>15, <1>16, <1>17, <1>18, <1>19, <1>20, <1>21, <1>22
  DEF Next, SendHandler, AnswerHandler, TickHandler

(* The events of markDone.                                                   *)
LEMMA DoneStep ==
  ASSUME TypeOK, AnswersInOrder, DoneIsReceived, [Next]_vars
  PROVE  DoneIsReceived'
<1> USE DEF AnswersInOrder, DoneIsReceived, TypeOK, deviceVars, mapVars,
        history
<1>1. ASSUME NEW c \in Commands, sendWakeOffline(c)
      PROVE  DoneIsReceived'
  BY <1>1 DEF sendWakeOffline, Reject, At, publishCommandEvent
<1>2. ASSUME NEW c \in Commands, NEW lowpower \in BOOLEAN, sendWake(c, lowpower)
      PROVE  DoneIsReceived'
  BY <1>2 DEF sendWake
<1>3. ASSUME NEW c \in Commands, sendLowPowerWakeOffline(c)
      PROVE  DoneIsReceived'
  BY <1>3 DEF sendLowPowerWakeOffline, Reject, At, publishCommandEvent
<1>4. ASSUME NEW c \in Commands, sendLowPowerWake(c)
      PROVE  DoneIsReceived'
  BY <1>4 DEF sendLowPowerWake
<1>5. ASSUME NEW c \in Commands, InsertEntry(c)
      PROVE  DoneIsReceived'
  BY <1>5 DEF InsertEntry, At
<1>6. ASSUME NEW c \in Commands, savePendingWake(c)
      PROVE  DoneIsReceived'
  BY <1>6 DEF savePendingWake, At
<1>7. ASSUME NEW c \in Commands, SendMessage(c)
      PROVE  DoneIsReceived'
  BY <1>7 DEF SendMessage, Transmit, At
<1>8. ASSUME NEW c \in Commands, PublishDispatched(c)
      PROVE  DoneIsReceived'
  BY <1>8 DEF PublishDispatched, At, publishCommandEvent
<1>9. ASSUME NEW c \in Commands, TimeOut(c)
      PROVE  DoneIsReceived'
  BY <1>9 DEF TimeOut
<1>10. ASSUME NEW s \in Sessions, NEW c \in Commands, NEW status \in {"acked", "done"},
               Find(s, c, status)
      PROVE  DoneIsReceived'
  BY <1>10 DEF Find
<1>11. ASSUME NEW s \in Sessions, Dangling(s)
      PROVE  DoneIsReceived'
  BY <1>11 DEF Dangling
<1>12. ASSUME NEW s \in Sessions, removePendingWake(s)
      PROVE  DoneIsReceived'
  BY <1>12 DEF removePendingWake
<1>13. ASSUME NEW s \in Sessions, PublishAnswer(s)
      PROVE  DoneIsReceived'
  <2>1. ans[s] \in Answer /\ ans[s] # NoAnswer
    BY <1>13, AnswerType DEF PublishAnswer
  <2> QED BY <1>13, <2>1 DEF PublishAnswer, publishCommandEvent, Answer
<1>14. ASSUME NEW s \in Sessions, Erase(s)
      PROVE  DoneIsReceived'
  BY <1>14 DEF Erase
<1>15. ASSUME NEW s \in Sessions, Register(s)
      PROVE  DoneIsReceived'
  BY <1>15 DEF Register
<1>16. ASSUME StartTick
      PROVE  DoneIsReceived'
  BY <1>16 DEF StartTick
<1>17. ASSUME TickDangling
      PROVE  DoneIsReceived'
  BY <1>17 DEF TickDangling
<1>18. ASSUME EndTick
      PROVE  DoneIsReceived'
  BY <1>18 DEF EndTick
<1>19. ASSUME NEW c \in Commands, PassEntry(c)
      PROVE  DoneIsReceived'
  BY <1>19 DEF PassEntry, Passed, MayMove
<1>20. ASSUME NEW c \in Commands, FailEntry(c)
      PROVE  DoneIsReceived'
  BY <1>20 DEF FailEntry, Passed, MayMove, publishCommandEvent
<1>21. ASSUME NEW c \in Commands, retryWake(c)
      PROVE  DoneIsReceived'
  BY <1>21 DEF retryWake, Passed, MayMove, Transmit, publishCommandEvent
<1>22. ASSUME UNCHANGED vars
      PROVE  DoneIsReceived'
  BY <1>22 DEF vars
<1> HIDE DEF DoneIsReceived, TypeOK
<1> QED
  BY <1>1, <1>2, <1>3, <1>4, <1>5, <1>6, <1>7, <1>8, <1>9, <1>10, <1>11,
     <1>12, <1>13, <1>14, <1>15, <1>16, <1>17, <1>18, <1>19, <1>20, <1>21, <1>22
  DEF Next, SendHandler, AnswerHandler, TickHandler

(* The keys of finished commands.                                            *)
LEMMA KeysStep ==
  ASSUME TypeOK, ReceivedIsSent, AnswersInOrder, DoneIsReceived, LeftKeyWasOvertaken, [Next]_vars
  PROVE  LeftKeyWasOvertaken'
<1> USE DEF ReceivedIsSent, AnswersInOrder, DoneIsReceived, LeftKeyWasOvertaken, TypeOK, deviceVars, mapVars,
        history
<1>1. ASSUME NEW c \in Commands, sendWakeOffline(c)
      PROVE  LeftKeyWasOvertaken'
  BY <1>1 DEF sendWakeOffline, Reject, At, publishCommandEvent
<1>2. ASSUME NEW c \in Commands, NEW lowpower \in BOOLEAN, sendWake(c, lowpower)
      PROVE  LeftKeyWasOvertaken'
  BY <1>2 DEF sendWake
<1>3. ASSUME NEW c \in Commands, sendLowPowerWakeOffline(c)
      PROVE  LeftKeyWasOvertaken'
  BY <1>3 DEF sendLowPowerWakeOffline, Reject, At, publishCommandEvent
<1>4. ASSUME NEW c \in Commands, sendLowPowerWake(c)
      PROVE  LeftKeyWasOvertaken'
  BY <1>4 DEF sendLowPowerWake
<1>5. ASSUME NEW c \in Commands, InsertEntry(c)
      PROVE  LeftKeyWasOvertaken'
  BY <1>5 DEF InsertEntry, At
<1>6. ASSUME NEW c \in Commands, savePendingWake(c)
      PROVE  LeftKeyWasOvertaken'
  BY <1>6 DEF savePendingWake, At
<1>7. ASSUME NEW c \in Commands, SendMessage(c)
      PROVE  LeftKeyWasOvertaken'
  BY <1>7 DEF SendMessage, Transmit, At
<1>8. ASSUME NEW c \in Commands, PublishDispatched(c)
      PROVE  LeftKeyWasOvertaken'
  BY <1>8 DEF PublishDispatched, At, publishCommandEvent
<1>9. ASSUME NEW c \in Commands, TimeOut(c)
      PROVE  LeftKeyWasOvertaken'
  BY <1>9 DEF TimeOut
<1>10. ASSUME NEW s \in Sessions, NEW c \in Commands, NEW status \in {"acked", "done"},
               Find(s, c, status)
      PROVE  LeftKeyWasOvertaken'
  BY <1>10 DEF Find
<1>11. ASSUME NEW s \in Sessions, Dangling(s)
      PROVE  LeftKeyWasOvertaken'
  BY <1>11 DEF Dangling
<1>12. ASSUME NEW s \in Sessions, removePendingWake(s)
      PROVE  LeftKeyWasOvertaken'
  BY <1>12 DEF removePendingWake
<1>13. ASSUME NEW s \in Sessions, PublishAnswer(s)
      PROVE  LeftKeyWasOvertaken'
  <2>1. ans[s] \in Answer /\ ans[s] # NoAnswer
    BY <1>13, AnswerType DEF PublishAnswer
  <2> QED BY <1>13, <2>1 DEF PublishAnswer, publishCommandEvent, Answer
<1>14. ASSUME NEW s \in Sessions, Erase(s)
      PROVE  LeftKeyWasOvertaken'
  BY <1>14 DEF Erase
<1>15. ASSUME NEW s \in Sessions, Register(s)
      PROVE  LeftKeyWasOvertaken'
  BY <1>15 DEF Register
<1>16. ASSUME StartTick
      PROVE  LeftKeyWasOvertaken'
  BY <1>16 DEF StartTick
<1>17. ASSUME TickDangling
      PROVE  LeftKeyWasOvertaken'
  BY <1>17 DEF TickDangling
<1>18. ASSUME EndTick
      PROVE  LeftKeyWasOvertaken'
  BY <1>18 DEF EndTick
<1>19. ASSUME NEW c \in Commands, PassEntry(c)
      PROVE  LeftKeyWasOvertaken'
  BY <1>19 DEF PassEntry, Passed, MayMove
<1>20. ASSUME NEW c \in Commands, FailEntry(c)
      PROVE  LeftKeyWasOvertaken'
  BY <1>20 DEF FailEntry, Passed, MayMove, publishCommandEvent
<1>21. ASSUME NEW c \in Commands, retryWake(c)
      PROVE  LeftKeyWasOvertaken'
  BY <1>21 DEF retryWake, Passed, MayMove, Transmit, publishCommandEvent
<1>22. ASSUME UNCHANGED vars
      PROVE  LeftKeyWasOvertaken'
  BY <1>22 DEF vars
<1> HIDE DEF LeftKeyWasOvertaken, TypeOK
<1> QED
  BY <1>1, <1>2, <1>3, <1>4, <1>5, <1>6, <1>7, <1>8, <1>9, <1>10, <1>11,
     <1>12, <1>13, <1>14, <1>15, <1>16, <1>17, <1>18, <1>19, <1>20, <1>21, <1>22
  DEF Next, SendHandler, AnswerHandler, TickHandler

(* Session and protocol of an entry.                                         *)
LEMMA FitStep ==
  ASSUME TypeOK, EntriesInserted, EntriesFit, [Next]_vars
  PROVE  EntriesFit'
<1> USE DEF EntriesInserted, EntriesFit, Fits, Inserted, Sending, Protocols, TypeOK, deviceVars, mapVars,
        history
<1>1. ASSUME NEW c \in Commands, sendWakeOffline(c)
      PROVE  EntriesFit'
  BY <1>1 DEF sendWakeOffline, Reject, At, publishCommandEvent
<1>2. ASSUME NEW c \in Commands, NEW lowpower \in BOOLEAN, sendWake(c, lowpower)
      PROVE  EntriesFit'
  BY <1>2 DEF sendWake
<1>3. ASSUME NEW c \in Commands, sendLowPowerWakeOffline(c)
      PROVE  EntriesFit'
  BY <1>3 DEF sendLowPowerWakeOffline, Reject, At, publishCommandEvent
<1>4. ASSUME NEW c \in Commands, sendLowPowerWake(c)
      PROVE  EntriesFit'
  BY <1>4 DEF sendLowPowerWake
<1>5. ASSUME NEW c \in Commands, InsertEntry(c)
      PROVE  EntriesFit'
  BY <1>5 DEF InsertEntry, At
<1>6. ASSUME NEW c \in Commands, savePendingWake(c)
      PROVE  EntriesFit'
  BY <1>6 DEF savePendingWake, At
<1>7. ASSUME NEW c \in Commands, SendMessage(c)
      PROVE  EntriesFit'
  BY <1>7 DEF SendMessage, Transmit, At
<1>8. ASSUME NEW c \in Commands, PublishDispatched(c)
      PROVE  EntriesFit'
  BY <1>8 DEF PublishDispatched, At, publishCommandEvent
<1>9. ASSUME NEW c \in Commands, TimeOut(c)
      PROVE  EntriesFit'
  BY <1>9 DEF TimeOut
<1>10. ASSUME NEW s \in Sessions, NEW c \in Commands, NEW status \in {"acked", "done"},
               Find(s, c, status)
      PROVE  EntriesFit'
  BY <1>10 DEF Find
<1>11. ASSUME NEW s \in Sessions, Dangling(s)
      PROVE  EntriesFit'
  BY <1>11 DEF Dangling
<1>12. ASSUME NEW s \in Sessions, removePendingWake(s)
      PROVE  EntriesFit'
  BY <1>12 DEF removePendingWake
<1>13. ASSUME NEW s \in Sessions, PublishAnswer(s)
      PROVE  EntriesFit'
  BY <1>13 DEF PublishAnswer, publishCommandEvent
<1>14. ASSUME NEW s \in Sessions, Erase(s)
      PROVE  EntriesFit'
  BY <1>14 DEF Erase
<1>15. ASSUME NEW s \in Sessions, Register(s)
      PROVE  EntriesFit'
  BY <1>15 DEF Register
<1>16. ASSUME StartTick
      PROVE  EntriesFit'
  BY <1>16 DEF StartTick
<1>17. ASSUME TickDangling
      PROVE  EntriesFit'
  BY <1>17 DEF TickDangling
<1>18. ASSUME EndTick
      PROVE  EntriesFit'
  BY <1>18 DEF EndTick
<1>19. ASSUME NEW c \in Commands, PassEntry(c)
      PROVE  EntriesFit'
  BY <1>19 DEF PassEntry, Passed, MayMove
<1>20. ASSUME NEW c \in Commands, FailEntry(c)
      PROVE  EntriesFit'
  BY <1>20 DEF FailEntry, Passed, MayMove, publishCommandEvent
<1>21. ASSUME NEW c \in Commands, retryWake(c)
      PROVE  EntriesFit'
  BY <1>21 DEF retryWake, Passed, MayMove, Transmit, publishCommandEvent
<1>22. ASSUME UNCHANGED vars
      PROVE  EntriesFit'
  BY <1>22 DEF vars
<1> HIDE DEF EntriesFit, TypeOK
<1> QED
  BY <1>1, <1>2, <1>3, <1>4, <1>5, <1>6, <1>7, <1>8, <1>9, <1>10, <1>11,
     <1>12, <1>13, <1>14, <1>15, <1>16, <1>17, <1>18, <1>19, <1>20, <1>21, <1>22
  DEF Next, SendHandler, AnswerHandler, TickHandler

(* Session and protocol of what was sent.                                    *)
LEMMA SentStep ==
  ASSUME TypeOK, EntriesInserted, EntriesFit, SentInItsProtocol, [Next]_vars
  PROVE  SentInItsProtocol'
<1> USE DEF EntriesInserted, EntriesFit, Fits, SentInItsProtocol, TypeOK, deviceVars, mapVars,
        history
<1>1. ASSUME NEW c \in Commands, sendWakeOffline(c)
      PROVE  SentInItsProtocol'
  BY <1>1 DEF sendWakeOffline, Reject, At, publishCommandEvent
<1>2. ASSUME NEW c \in Commands, NEW lowpower \in BOOLEAN, sendWake(c, lowpower)
      PROVE  SentInItsProtocol'
  BY <1>2 DEF sendWake
<1>3. ASSUME NEW c \in Commands, sendLowPowerWakeOffline(c)
      PROVE  SentInItsProtocol'
  BY <1>3 DEF sendLowPowerWakeOffline, Reject, At, publishCommandEvent
<1>4. ASSUME NEW c \in Commands, sendLowPowerWake(c)
      PROVE  SentInItsProtocol'
  BY <1>4 DEF sendLowPowerWake
<1>5. ASSUME NEW c \in Commands, InsertEntry(c)
      PROVE  SentInItsProtocol'
  BY <1>5 DEF InsertEntry, At
<1>6. ASSUME NEW c \in Commands, savePendingWake(c)
      PROVE  SentInItsProtocol'
  BY <1>6 DEF savePendingWake, At
<1>7. ASSUME NEW c \in Commands, SendMessage(c)
      PROVE  SentInItsProtocol'
  BY <1>7 DEF SendMessage, Transmit, At
<1>8. ASSUME NEW c \in Commands, PublishDispatched(c)
      PROVE  SentInItsProtocol'
  BY <1>8 DEF PublishDispatched, At, publishCommandEvent
<1>9. ASSUME NEW c \in Commands, TimeOut(c)
      PROVE  SentInItsProtocol'
  BY <1>9 DEF TimeOut
<1>10. ASSUME NEW s \in Sessions, NEW c \in Commands, NEW status \in {"acked", "done"},
               Find(s, c, status)
      PROVE  SentInItsProtocol'
  BY <1>10 DEF Find
<1>11. ASSUME NEW s \in Sessions, Dangling(s)
      PROVE  SentInItsProtocol'
  BY <1>11 DEF Dangling
<1>12. ASSUME NEW s \in Sessions, removePendingWake(s)
      PROVE  SentInItsProtocol'
  BY <1>12 DEF removePendingWake
<1>13. ASSUME NEW s \in Sessions, PublishAnswer(s)
      PROVE  SentInItsProtocol'
  BY <1>13 DEF PublishAnswer, publishCommandEvent
<1>14. ASSUME NEW s \in Sessions, Erase(s)
      PROVE  SentInItsProtocol'
  BY <1>14 DEF Erase
<1>15. ASSUME NEW s \in Sessions, Register(s)
      PROVE  SentInItsProtocol'
  BY <1>15 DEF Register
<1>16. ASSUME StartTick
      PROVE  SentInItsProtocol'
  BY <1>16 DEF StartTick
<1>17. ASSUME TickDangling
      PROVE  SentInItsProtocol'
  BY <1>17 DEF TickDangling
<1>18. ASSUME EndTick
      PROVE  SentInItsProtocol'
  BY <1>18 DEF EndTick
<1>19. ASSUME NEW c \in Commands, PassEntry(c)
      PROVE  SentInItsProtocol'
  BY <1>19 DEF PassEntry, Passed, MayMove
<1>20. ASSUME NEW c \in Commands, FailEntry(c)
      PROVE  SentInItsProtocol'
  BY <1>20 DEF FailEntry, Passed, MayMove, publishCommandEvent
<1>21. ASSUME NEW c \in Commands, retryWake(c)
      PROVE  SentInItsProtocol'
  BY <1>21 DEF retryWake, Passed, MayMove, Transmit, publishCommandEvent
<1>22. ASSUME UNCHANGED vars
      PROVE  SentInItsProtocol'
  BY <1>22 DEF vars
<1> HIDE DEF SentInItsProtocol, TypeOK
<1> QED
  BY <1>1, <1>2, <1>3, <1>4, <1>5, <1>6, <1>7, <1>8, <1>9, <1>10, <1>11,
     <1>12, <1>13, <1>14, <1>15, <1>16, <1>17, <1>18, <1>19, <1>20, <1>21, <1>22
  DEF Next, SendHandler, AnswerHandler, TickHandler

(* A handler that starts on the one worker finds no other under way.         *)
LEMMA SoleWorker ==
  ASSUME OneHandler, workers = 1, CanRun
  PROVE  Sending = {} /\ Answering = {} /\ tick = NoTick
<1>1. Cardinality(Sending) \in Nat /\ (Cardinality(Sending) = 0 => Sending = {})
  <2>1. Sending = {} \/ \E c \in Commands : Sending = {c}
    BY DEF OneHandler, Sending
  <2>2. IsFiniteSet(Sending)
    BY <2>1, FS_EmptySet, FS_Singleton
  <2> QED BY <2>2, FS_CardinalityType, FS_EmptySet
<1>2. Cardinality(Answering) \in Nat /\ (Cardinality(Answering) = 0 => Answering = {})
  <2>1. Answering = {} \/ \E s \in Sessions : Answering = {s}
    BY DEF OneHandler, Answering
  <2>2. IsFiniteSet(Answering)
    BY <2>1, FS_EmptySet, FS_Singleton
  <2> QED BY <2>2, FS_CardinalityType, FS_EmptySet
<1> QED BY <1>1, <1>2 DEF CanRun

(* One worker: handlers take turns, so that none erases an entry that the    *)
(* iterator of another points to.                                            *)
LEMMA AloneStep ==
  ASSUME TypeOK, EntriesInserted, AloneInv, [Next]_vars
  PROVE  AloneInv'
<1> SUFFICES ASSUME workers = 1
             PROVE  OneHandler' /\ IteratorsHaveElements' /\ ~broken'
  <2>1. workers' = workers
    BY DEF Next, SendHandler, AnswerHandler, TickHandler, vars, Reject, Transmit,
         deviceVars, mapVars, history, Dangling, EndTick, Erase, FailEntry, Find, InsertEntry, PassEntry,
         PublishAnswer, PublishDispatched, Register, SendMessage, StartTick,
         TickDangling, TimeOut, removePendingWake, retryWake, savePendingWake,
         sendLowPowerWake, sendLowPowerWakeOffline, sendWake, sendWakeOffline
  <2> QED BY <2>1 DEF AloneInv
<1> USE DEF AloneInv, OneHandler, IteratorsHaveElements, Sending, Answering,
           NoAnswer, deviceVars, mapVars, history
<1>1. ASSUME NEW c \in Commands, sendWakeOffline(c)
      PROVE  OneHandler' /\ IteratorsHaveElements' /\ ~broken'
  <2>1. Sending = {} /\ Answering = {} /\ tick = NoTick
    BY <1>1, SoleWorker DEF sendWakeOffline
  <2> QED BY <1>1, <2>1 DEF sendWakeOffline, Reject, At, publishCommandEvent, TypeOK
<1>2. ASSUME NEW c \in Commands, NEW lowpower \in BOOLEAN, sendWake(c, lowpower)
      PROVE  OneHandler' /\ IteratorsHaveElements' /\ ~broken'
  <2>1. Sending = {} /\ Answering = {} /\ tick = NoTick
    BY <1>2, SoleWorker DEF sendWake
  <2> QED BY <1>2, <2>1 DEF sendWake, TypeOK
<1>3. ASSUME NEW c \in Commands, sendLowPowerWakeOffline(c)
      PROVE  OneHandler' /\ IteratorsHaveElements' /\ ~broken'
  BY <1>3 DEF sendLowPowerWakeOffline, Reject, At, publishCommandEvent, TypeOK
<1>4. ASSUME NEW c \in Commands, sendLowPowerWake(c)
      PROVE  OneHandler' /\ IteratorsHaveElements' /\ ~broken'
  BY <1>4 DEF sendLowPowerWake, TypeOK
<1>5. ASSUME NEW c \in Commands, InsertEntry(c)
      PROVE  OneHandler' /\ IteratorsHaveElements' /\ ~broken'
  BY <1>5 DEF InsertEntry, At, TypeOK
<1>6. ASSUME NEW c \in Commands, savePendingWake(c)
      PROVE  OneHandler' /\ IteratorsHaveElements' /\ ~broken'
  BY <1>6 DEF savePendingWake, At, TypeOK
<1>7. ASSUME NEW c \in Commands, SendMessage(c)
      PROVE  OneHandler' /\ IteratorsHaveElements' /\ ~broken'
  BY <1>7 DEF SendMessage, Transmit, At, TypeOK
<1>8. ASSUME NEW c \in Commands, PublishDispatched(c)
      PROVE  OneHandler' /\ IteratorsHaveElements' /\ ~broken'
  BY <1>8 DEF PublishDispatched, At, publishCommandEvent, TypeOK
<1>9. ASSUME NEW c \in Commands, TimeOut(c)
      PROVE  OneHandler' /\ IteratorsHaveElements' /\ ~broken'
  BY <1>9 DEF TimeOut, TypeOK
<1>10. ASSUME NEW s \in Sessions, NEW c \in Commands, NEW status \in {"acked", "done"},
               Find(s, c, status)
      PROVE  OneHandler' /\ IteratorsHaveElements' /\ ~broken'
  <2>1. Sending = {} /\ Answering = {} /\ tick = NoTick
    BY <1>10, SoleWorker DEF Find
  <2> QED BY <1>10, <2>1 DEF Find, TypeOK
<1>11. ASSUME NEW s \in Sessions, Dangling(s)
      PROVE  OneHandler' /\ IteratorsHaveElements' /\ ~broken'
  BY <1>11 DEF Dangling, TypeOK
<1>12. ASSUME NEW s \in Sessions, removePendingWake(s)
      PROVE  OneHandler' /\ IteratorsHaveElements' /\ ~broken'
  BY <1>12 DEF removePendingWake, TypeOK
<1>13. ASSUME NEW s \in Sessions, PublishAnswer(s)
      PROVE  OneHandler' /\ IteratorsHaveElements' /\ ~broken'
  BY <1>13 DEF PublishAnswer, publishCommandEvent, TypeOK
<1>14. ASSUME NEW s \in Sessions, Erase(s)
      PROVE  OneHandler' /\ IteratorsHaveElements' /\ ~broken'
  BY <1>14 DEF Erase, TypeOK
<1>15. ASSUME NEW s \in Sessions, Register(s)
      PROVE  OneHandler' /\ IteratorsHaveElements' /\ ~broken'
  BY <1>15 DEF Register, TypeOK
<1>16. ASSUME StartTick
      PROVE  OneHandler' /\ IteratorsHaveElements' /\ ~broken'
  <2>1. Sending = {} /\ Answering = {} /\ tick = NoTick
    BY <1>16, SoleWorker DEF StartTick
  <2> QED BY <1>16, <2>1 DEF StartTick, TypeOK
<1>17. ASSUME TickDangling
      PROVE  OneHandler' /\ IteratorsHaveElements' /\ ~broken'
  <2>1. FALSE
    BY <1>17 DEF TickDangling, MayMove
  <2> QED BY <2>1
<1>18. ASSUME EndTick
      PROVE  OneHandler' /\ IteratorsHaveElements' /\ ~broken'
  <2>1. tick # NoTick /\ Sending = {} /\ Answering = {}
    BY <1>18 DEF EndTick, MayMove
  <2> QED BY <1>18, <2>1 DEF EndTick
<1>19. ASSUME NEW c \in Commands, PassEntry(c)
      PROVE  OneHandler' /\ IteratorsHaveElements' /\ ~broken'
  BY <1>19 DEF PassEntry, Passed, MayMove, TypeOK
<1>20. ASSUME NEW c \in Commands, FailEntry(c)
      PROVE  OneHandler' /\ IteratorsHaveElements' /\ ~broken'
  <2>1. tick # NoTick /\ tick \in Loop /\ c \in pending
    BY <1>20 DEF FailEntry, MayMove, TypeOK, EntriesInserted
  <2>2. tick'.at = c
    BY <1>20, <2>1 DEF FailEntry, Passed, Loop
  <2>3. UNCHANGED <<pending, send, ans, broken>>
    BY <1>20 DEF FailEntry
  <2> QED BY <2>1, <2>2, <2>3
<1>21. ASSUME NEW c \in Commands, retryWake(c)
      PROVE  OneHandler' /\ IteratorsHaveElements' /\ ~broken'
  <2>1. tick # NoTick /\ tick \in Loop /\ c \in pending
    BY <1>21 DEF retryWake, MayMove, TypeOK, EntriesInserted
  <2>2. tick'.at = c
    BY <1>21, <2>1 DEF retryWake, Passed, Loop
  <2>3. UNCHANGED <<pending, send, ans, broken>>
    BY <1>21 DEF retryWake
  <2> QED BY <2>1, <2>2, <2>3
<1>22. ASSUME UNCHANGED vars
      PROVE  OneHandler' /\ IteratorsHaveElements' /\ ~broken'
  BY <1>22 DEF vars, TypeOK
<1> HIDE DEF OneHandler, IteratorsHaveElements
<1> QED
  BY <1>1, <1>2, <1>3, <1>4, <1>5, <1>6, <1>7, <1>8, <1>9, <1>10, <1>11,
     <1>12, <1>13, <1>14, <1>15, <1>16, <1>17, <1>18, <1>19, <1>20, <1>21, <1>22
  DEF Next, SendHandler, AnswerHandler, TickHandler

------------------------------------------------------------------------------
OrderInv ==
  /\ EntriesInserted /\ ReceivedIsSent /\ EntryStays
  /\ AnswersInOrder /\ RemovedIsFailed
  /\ DoneIsReceived /\ LeftKeyWasOvertaken

FitInv == EntriesFit /\ SentInItsProtocol

IInv == TypeOK /\ OrderInv /\ FitInv /\ AloneInv

(* Nothing is under way at the start, and nothing has been sent.             *)
LEMMA InitIInv == Init => IInv
<1> SUFFICES ASSUME Init PROVE IInv
  OBVIOUS
<1>1. \A c \in Commands : send[c].at = "new" /\ sent[c] = {} /\ events[c] = {}
  BY DEF Init
<1>2. OrderInv
  BY <1>1 DEF Init, OrderInv, EntriesInserted, ReceivedIsSent, EntryStays, AnswersInOrder,
              RemovedIsFailed, DoneIsReceived, LeftKeyWasOvertaken
<1>3. FitInv
  BY <1>1 DEF Init, FitInv, EntriesFit, SentInItsProtocol
<1>4. AloneInv
  BY <1>1 DEF Init, AloneInv, OneHandler, IteratorsHaveElements, Sending, Answering, NoAnswer
<1> QED BY <1>2, <1>3, <1>4, InitType DEF IInv

(* The inductive invariant holds in every reachable state.                   *)
THEOREM Invariance == Spec => []IInv
<1>1. IInv /\ [Next]_vars => IInv'
  <2> SUFFICES ASSUME IInv, [Next]_vars PROVE IInv'
    OBVIOUS
  <2> USE DEF IInv, OrderInv, FitInv
  <2>1. TypeOK'
    BY TypeStep
  <2>2. OrderInv'
    BY InsertedStep, ReceivedStep, StaysStep, AnswersStep, RemovedStep, DoneStep, KeysStep
  <2>3. FitInv'
    BY FitStep, SentStep
  <2>4. AloneInv'
    BY AloneStep
  <2> QED BY <2>1, <2>2, <2>3, <2>4
<1> QED BY <1>1, InitIInv, PTL DEF Spec

(* Handlers, map and history always have their types.                        *)
THEOREM TypeCorrect == Spec => []TypeOK
<1>1. IInv => TypeOK
  BY DEF IInv
<1> QED BY <1>1, Invariance, PTL

(* sendWake inserts the entry before it sends, and markAck, markDone and     *)
(* onTick publish before they erase: on any number of workers an answer to a *)
(* command that is still open finds the entry.                               *)
THEOREM AnswersFindEntries == Spec => []AnswerFindsEntry
<1>1. IInv => AnswerFindsEntry
  BY DEF IInv, OrderInv, EntryStays, AnswerFindsEntry, TypeOK, Answered
<1> QED BY <1>1, Invariance, PTL

(* savePendingWake comes before the first message and removePendingWake      *)
(* before the "done" event: a retry that overtakes savePendingWake is the    *)
(* only interleaving that leaves the key of a finished command.              *)
THEOREM LeftKeysWereOvertaken == Spec => []LeftKeyWasOvertaken
<1>1. IInv => LeftKeyWasOvertaken
  BY DEF IInv, OrderInv
<1> QED BY <1>1, Invariance, PTL

(* sendWake and sendLowPowerWake use the session together with its protocol, *)
(* whatever the registration does in between; the two ways out are the       *)
(* request for lowpower_wakeup and a registration that moved.                *)
THEOREM MessagesFitConnections == Spec => []SentInItsProtocol
<1>1. IInv => SentInItsProtocol
  BY DEF IInv, FitInv
<1> QED BY <1>1, Invariance, PTL

(* pending_ has no lock; with worker_threads = 1 it needs none.              *)
THEOREM OneWorkerNeedsNoLock == Spec => []AloneIsUnbroken
<1>1. IInv => AloneIsUnbroken
  BY DEF IInv, AloneInv, AloneIsUnbroken
<1> QED BY <1>1, Invariance, PTL

==============================================================================
