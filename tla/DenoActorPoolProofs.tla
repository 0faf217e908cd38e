------------------------- MODULE DenoActorPoolProofs -------------------------
(***************************************************************************)
(* The invariants of DenoActorPool, for any number of calls, of actors and *)
(* of callbacks, and for every way calls are nested.  Liveness stays with  *)
(* TLC.                                                                    *)
(***************************************************************************)
EXTENDS DenoActorPool, SequenceTheorems, WellFoundedInduction, TLAPS

USE NoCallAssumption, BoundsAssumption, ParentAssumption DEF Actors, Places, Stages

-----------------------------------------------------------------------------
(* What the proofs of several steps need                                   *)

LEMMA HasActor ==
    ASSUME StateOK, Given, NEW k \in Calls, pc[k] \notin {"new", "scan"}
    PROVE  actor[k] \in Actors
  BY DEF StateOK, Given

(* A step that changes neither who relays nor which answers are due.       *)
LEMMA RelaySame ==
    ASSUME StateOK, Given, Relaying,
           \A j \in Calls : Relays(j)' <=> Relays(j),
           \A j \in Calls : Relays(j) => actor'[j] = actor[j],
           \A a \in Actors : AnswerDue(a)' <=> AnswerDue(a)
    PROVE  Relaying'
<1>1. \A j \in Calls : Relays(j) => actor[j] \in Actors
  BY HasActor DEF Relays
<1>2. \A j \in Calls : Relays(j)' => AnswerDue(actor[j])'
  BY <1>1 DEF Relaying, AnswerDue
<1>3. \A i, j \in Calls : Relays(i)' /\ Relays(j)' /\ actor'[i] = actor'[j] => i = j
  BY DEF Relaying
<1>4. \A a \in Actors : AnswerDue(a)' => \E j \in Calls : actor'[j] = a /\ Relays(j)'
  BY DEF Relaying
<1> QED BY <1>2, <1>3, <1>4 DEF Relaying

-----------------------------------------------------------------------------
(* Looking at an actor of the pool                                         *)

LEMMA IsBusyEffect ==
    ASSUME StateOK, NEW k \in Calls, is_busy(k)
    PROVE  /\ probe \in 1..size /\ pc[k] = "scan"
           /\ \/ probe' = probe + 1 /\ UNCHANGED <<pc, actor>>
              \/ /\ pc' = [pc EXCEPT ![k] = "send"]
                 /\ actor' = [actor EXCEPT ![k] = probe]
                 /\ UNCHANGED probe
           /\ UNCHANGED <<result, headers, size, thread, cur, busy, queue, callback, lockq,
                          storage, budget>>
  BY DEF StateOK, is_busy, actors

LEMMA IsBusyState ==
    ASSUME StateOK, NEW k \in Calls, is_busy(k)
    PROVE  StateOK'
<1>1. actor \in [Calls -> 0..MaxActors] /\ size \in 0..MaxActors
  BY DEF StateOK
<1>2. actor' \in [Calls -> 0..MaxActors]
  BY <1>1, IsBusyEffect
<1>3. probe' \in 1..(MaxActors + 1)
  BY <1>1, IsBusyEffect
<1> QED BY <1>2, <1>3, IsBusyEffect DEF StateOK

LEMMA IsBusyGiven ==
    ASSUME StateOK, Given, NEW k \in Calls, is_busy(k)
    PROVE  Given'
<1>1. actor \in [Calls -> 0..MaxActors] /\ size \in 0..MaxActors /\ DOMAIN pc = Calls
  BY DEF StateOK
<1> QED BY <1>1, IsBusyEffect DEF Given

LEMMA IsBusyRelaying ==
    ASSUME StateOK, Given, Relaying, NEW k \in Calls, is_busy(k)
    PROVE  Relaying'
<1>1. \A j \in Calls : pc'[j] = pc[j] \/ (j = k /\ pc[k] = "scan" /\ pc'[k] = "send")
  BY IsBusyEffect DEF StateOK
<1>2. \A j \in Calls \ {k} : actor'[j] = actor[j]
  BY IsBusyEffect DEF StateOK
<1>3. \A a \in Actors : AnswerDue(a)' <=> AnswerDue(a)
  BY IsBusyEffect DEF AnswerDue
<1> QED BY <1>1, <1>2, <1>3, IsBusyEffect, RelaySame DEF Relays

-----------------------------------------------------------------------------
(* Sending the call                                                        *)

LEMMA SendCallState ==
    ASSUME StateOK, NEW k \in Calls, send_call(k)
    PROVE  StateOK'
<1>1. /\ pc \in [Calls -> Places]
      /\ result \in [Calls -> {"none", "value", "closed"}]
      /\ queue \in [Actors -> Calls \cup {NoCall}]
  BY DEF StateOK
<1>2. pc' \in [Calls -> Places]
  BY <1>1 DEF send_call
<1>3. result' \in [Calls -> {"none", "value", "closed"}] /\ queue' \in [Actors -> Calls \cup {NoCall}]
  BY <1>1 DEF send_call
<1> QED BY <1>2, <1>3 DEF StateOK, send_call

LEMMA SendCallEffect ==
    ASSUME StateOK, Given, NEW k \in Calls, send_call(k)
    PROVE  /\ pc[k] = "send" /\ actor[k] \in Actors
           /\ \A j \in Calls \ {k} : pc'[j] = pc[j] /\ result'[j] = result[j]
           /\ \A a \in Actors : queue[a] # NoCall => queue'[a] = queue[a]
           /\ (pc'[k] = "done" \/ (pc'[k] = "lock" /\ queue'[actor[k]] = k))
           /\ UNCHANGED <<actor, headers, probe, size, thread, cur, busy, callback, lockq,
                          storage, budget>>
<1>1. pc[k] = "send" /\ actor[k] \in Actors
  BY HasActor DEF send_call
<1>2. DOMAIN pc = Calls /\ DOMAIN result = Calls /\ DOMAIN queue = Actors
  BY DEF StateOK
<1>3. UNCHANGED <<actor, headers, probe, size, thread, cur, busy, callback, lockq, storage,
                  budget>>
  BY DEF send_call
<1>4. CASE /\ pc' = [pc EXCEPT ![k] = "done"]
           /\ result' = [result EXCEPT ![k] = "closed"]
           /\ queue' = queue
  BY <1>1, <1>2, <1>3, <1>4
<1>5. CASE /\ pc' = [pc EXCEPT ![k] = "lock"]
           /\ queue[actor[k]] = NoCall /\ queue' = [queue EXCEPT ![actor[k]] = k]
           /\ result' = result
  BY <1>1, <1>2, <1>3, <1>5
<1> QED BY <1>4, <1>5 DEF send_call

LEMMA SendCallGiven ==
    ASSUME StateOK, Given, NEW k \in Calls, send_call(k)
    PROVE  Given'
  BY SendCallEffect DEF Given

LEMMA SendCallCall ==
    ASSUME StateOK, Given, CallAccountedFor, NEW k \in Calls, send_call(k)
    PROVE  CallAccountedFor'
  BY SendCallEffect, HasActor DEF CallAccountedFor

LEMMA SendCallRelaying ==
    ASSUME StateOK, Given, Relaying, NEW k \in Calls, send_call(k)
    PROVE  Relaying'
<1>1. \A j \in Calls : Relays(j)' <=> Relays(j)
  BY SendCallEffect DEF Relays
<1>2. UNCHANGED actor /\ \A a \in Actors : AnswerDue(a)' <=> AnswerDue(a)
  BY SendCallEffect DEF AnswerDue
<1> QED BY <1>1, <1>2, RelaySame
-----------------------------------------------------------------------------
(* The function ends                                                       *)

LEMMA SendResultEffect ==
    ASSUME StateOK, Executing, NEW a \in Actors, send_result(a)
    PROVE  /\ thread[a] = "run" /\ cur[a] \in Calls
           /\ storage' = [storage EXCEPT ![a] = {}]
           /\ thread' = [thread EXCEPT ![a] = "done"] \/ thread' = [thread EXCEPT ![a] = "dead"]
           /\ \/ /\ result' = [result EXCEPT ![cur[a]] = "value"]
                 /\ headers' = [headers EXCEPT ![cur[a]] = storage[a]]
                 /\ queue' = queue
              \/ /\ result' = [k \in Calls |-> IF queue[a] = k THEN "closed" ELSE result[k]]
                 /\ headers' = headers
                 /\ queue' = [queue EXCEPT ![a] = NoCall]
           /\ UNCHANGED <<pc, actor, probe, size, cur, busy, callback, lockq, budget>>
<1>1. cur[a] \in Calls
  BY DEF StateOK, Executing, send_result
<1> QED BY <1>1 DEF send_result, take, panic

LEMMA SendResultState ==
    ASSUME StateOK, Executing, NEW a \in Actors, send_result(a)
    PROVE  StateOK'
<1>1. /\ result \in [Calls -> {"none", "value", "closed"}]
      /\ headers \in [Calls -> SUBSET Calls]
      /\ storage \in [Actors -> SUBSET Calls]
      /\ thread \in [Actors -> Stages]
      /\ queue \in [Actors -> Calls \cup {NoCall}]
  BY DEF StateOK
<1>2. storage' \in [Actors -> SUBSET Calls]
  BY <1>1, SendResultEffect
<1>3. thread' \in [Actors -> Stages]
  BY <1>1, SendResultEffect
<1>4. result' \in [Calls -> {"none", "value", "closed"}]
  BY <1>1, SendResultEffect
<1>5. headers' \in [Calls -> SUBSET Calls]
  BY <1>1, SendResultEffect
<1>6. queue' \in [Actors -> Calls \cup {NoCall}]
  BY <1>1, SendResultEffect
<1> QED BY <1>2, <1>3, <1>4, <1>5, <1>6, SendResultEffect, SMTT(20) DEF StateOK

LEMMA SendResultHeaders ==
    ASSUME StateOK, Executing, OwnHeaders, NEW a \in Actors, send_result(a)
    PROVE  OwnHeaders'
<1>1. DOMAIN headers = Calls
  BY DEF StateOK
<1>2. \A k \in Calls : headers'[k] = headers[k] \/ (k = cur[a] /\ headers'[k] = storage[a])
  BY <1>1, SendResultEffect
<1> QED BY <1>2 DEF OwnHeaders, Executing

LEMMA SendResultCall ==
    ASSUME StateOK, Given, Executing, CallAccountedFor, NEW a \in Actors, send_result(a)
    PROVE  CallAccountedFor'
<1>1. DOMAIN result = Calls /\ DOMAIN queue = Actors
  BY DEF StateOK
<1>2. \A k \in Calls : result[k] # "none" => result'[k] # "none"
  BY <1>1, SendResultEffect
<1>3. \A k \in Calls, b \in Actors : queue[b] = k => queue'[b] = k \/ result'[k] # "none"
  BY <1>1, SendResultEffect, SMTT(20)
<1> QED BY <1>2, <1>3, SendResultEffect, HasActor DEF CallAccountedFor

LEMMA SendResultRelaying ==
    ASSUME StateOK, Given, Executing, Relaying, NEW a \in Actors, send_result(a)
    PROVE  Relaying'
<1>1. DOMAIN thread = Actors
  BY DEF StateOK
<1>2. /\ \A b \in Actors \ {a} : thread'[b] = thread[b]
      /\ thread[a] # "callback" /\ thread'[a] # "callback"
  BY <1>1, SendResultEffect
<1>3. \A b \in Actors : AnswerDue(b)' <=> AnswerDue(b)
  BY <1>2, SendResultEffect DEF AnswerDue
<1>4. \A j \in Calls : Relays(j)' <=> Relays(j)
  BY SendResultEffect DEF Relays
<1> QED BY <1>3, <1>4, SendResultEffect, RelaySame

-----------------------------------------------------------------------------
(* Other steps that take more than their definition                        *)

LEMMA RelayCallbackRelaying ==
    ASSUME StateOK, Given, Executing, Relaying, NEW k \in Calls, relay_callback(k) PROVE Relaying'
<1>1. /\ pc[k] = "wait" /\ actor[k] \in Actors /\ callback[actor[k]] # NoCall
      /\ pc' = [pc EXCEPT ![k] = "relayed"] /\ callback' = [callback EXCEPT ![actor[k]] = NoCall]
      /\ UNCHANGED <<actor, thread>>
  BY HasActor DEF relay_callback, Holds
<1>2. thread[actor[k]] = "callback" /\ ~AnswerDue(actor[k])
  BY <1>1 DEF Executing, AnswerDue
<1>3. \A j \in Calls : Relays(j)' <=> j = k \/ Relays(j)
  BY <1>1 DEF Relays, StateOK
<1>4. \A b \in Actors : AnswerDue(b)' <=> b = actor[k] \/ AnswerDue(b)
  BY <1>1, <1>2 DEF AnswerDue, StateOK
<1>5. \A j \in Calls : Relays(j) => actor[j] \in Actors /\ actor[j] # actor[k]
  BY <1>2, HasActor DEF Relaying, Relays
<1>6. \A j \in Calls : Relays(j)' => AnswerDue(actor[j])'
  BY <1>1, <1>3, <1>4, <1>5 DEF Relaying, AnswerDue
<1> QED BY <1>1, <1>3, <1>4, <1>5, <1>6 DEF Relaying

LEMMA ReceiveResultRelaying ==
    ASSUME StateOK, Given, Executing, Relaying, NEW k \in Calls, receive_result(k) PROVE Relaying'
<1>1. /\ pc[k] = "wait" /\ pc' = [pc EXCEPT ![k] = "done"]
      /\ UNCHANGED <<actor, thread, callback>>
  BY DEF receive_result, Holds
<1>2. \A j \in Calls : Relays(j)' <=> Relays(j)
  BY <1>1 DEF Relays, StateOK
<1>3. \A a \in Actors : AnswerDue(a)' <=> AnswerDue(a)
  BY <1>1 DEF AnswerDue
<1> QED BY <1>1, <1>2, <1>3, RelaySame

LEMMA UnmarkBusyExecuting ==
    ASSUME StateOK, Executing, NEW a \in Actors, unmark_busy(a) PROVE Executing'
<1>1. /\ thread[a] = "done" /\ thread' = [thread EXCEPT ![a] = "idle"]
      /\ cur' = [cur EXCEPT ![a] = NoCall]
      /\ UNCHANGED <<callback, storage>>
  BY DEF unmark_busy
<1>2. storage[a] = {} /\ callback[a] = NoCall
  BY <1>1 DEF Executing
<1>3. DOMAIN thread = Actors /\ DOMAIN cur = Actors
  BY DEF StateOK
<1> QED BY <1>1, <1>2, <1>3 DEF Executing

-----------------------------------------------------------------------------
(* One lemma per part of the invariant, one step per action                *)

LEMMA StateStep ==
    ASSUME StateOK, Given, Executing, [Next]_vars
    PROVE  StateOK'
<1> USE DEF StateOK, Given, Executing, callers, actors
<1>1. ASSUME NEW k \in Calls, get_executor(k)
      PROVE  StateOK'
  BY <1>1 DEF get_executor, Due
<1>2. ASSUME NEW k \in Calls, is_busy(k)
      PROVE  StateOK'
  BY <1>2, IsBusyState
<1>3. ASSUME NEW k \in Calls, create_actor(k)
      PROVE  StateOK'
  BY <1>3 DEF create_actor
<1>4. ASSUME NEW k \in Calls, send_call(k)
      PROVE  StateOK'
  BY <1>4, SendCallState
<1>5. ASSUME NEW k \in Calls, lock_receiver(k)
      PROVE  StateOK'
  BY <1>5 DEF lock_receiver
<1>6. ASSUME NEW k \in Calls, relay_callback(k)
      PROVE  StateOK'
  BY <1>6 DEF relay_callback, Holds
<1>7. ASSUME NEW k \in Calls, process_callback(k)
      PROVE  StateOK'
  BY <1>7 DEF process_callback
<1>8. ASSUME NEW k \in Calls, receive_result(k)
      PROVE  StateOK'
  BY <1>8 DEF receive_result, Holds
<1>9. ASSUME NEW k \in Calls, disconnect(k)
      PROVE  StateOK'
  BY <1>9 DEF disconnect, Task, InFlight, Ended
<1>10. ASSUME NEW a \in Actors, load_module(a)
      PROVE  StateOK'
  <2>1. CASE thread' = [thread EXCEPT ![a] = "idle"] /\ UNCHANGED <<queue, result>>
    BY <1>10, <2>1 DEF load_module, panic
  <2>2. CASE panic(a)
    BY <1>10, <2>2 DEF load_module, panic
  <2> QED BY <1>10, <2>1, <2>2 DEF load_module
<1>11. ASSUME NEW a \in Actors, receive_call(a)
      PROVE  StateOK'
  BY <1>11 DEF receive_call
<1>12. ASSUME NEW a \in Actors, begin_call(a)
      PROVE  StateOK'
  BY <1>12 DEF begin_call, take
<1>13. ASSUME NEW a \in Actors, add_header(a)
      PROVE  StateOK'
  BY <1>13 DEF add_header
<1>14. ASSUME NEW a \in Actors, op_exograph_execute_query(a)
      PROVE  StateOK'
  BY <1>14 DEF op_exograph_execute_query
<1>15. ASSUME NEW a \in Actors, send_result(a)
      PROVE  StateOK'
  BY <1>15, SendResultState
<1>16. ASSUME NEW a \in Actors, unmark_busy(a)
      PROVE  StateOK'
  BY <1>16 DEF unmark_busy
<1>17. CASE UNCHANGED vars
  BY <1>17 DEF vars
<1> QED
  BY <1>1, <1>2, <1>3, <1>4, <1>5, <1>6, <1>7, <1>8, <1>9, <1>10, <1>11, <1>12, <1>13, <1>14, <1>15, <1>16, <1>17 DEF Next, Caller, Thread, Quiescent

LEMMA GivenStep ==
    ASSUME StateOK, Given, Relaying, [Next]_vars
    PROVE  Given'
<1> USE DEF StateOK, Given, Relaying, Relays, AnswerDue, callers, actors
<1>1. ASSUME NEW k \in Calls, get_executor(k)
      PROVE  Given'
  BY <1>1 DEF get_executor, Due
<1>2. ASSUME NEW k \in Calls, is_busy(k)
      PROVE  Given'
  BY <1>2, IsBusyGiven
<1>3. ASSUME NEW k \in Calls, create_actor(k)
      PROVE  Given'
  BY <1>3 DEF create_actor
<1>4. ASSUME NEW k \in Calls, send_call(k)
      PROVE  Given'
  BY <1>4, SendCallGiven
<1>5. ASSUME NEW k \in Calls, lock_receiver(k)
      PROVE  Given'
  BY <1>5 DEF lock_receiver
<1>6. ASSUME NEW k \in Calls, relay_callback(k)
      PROVE  Given'
  BY <1>6 DEF relay_callback, Holds
<1>7. ASSUME NEW k \in Calls, process_callback(k)
      PROVE  Given'
  BY <1>7 DEF process_callback
<1>8. ASSUME NEW k \in Calls, receive_result(k)
      PROVE  Given'
  BY <1>8 DEF receive_result, Holds
<1>9. ASSUME NEW k \in Calls, disconnect(k)
      PROVE  Given'
  BY <1>9 DEF disconnect, Task, InFlight, Ended
<1>10. ASSUME NEW a \in Actors, load_module(a)
      PROVE  Given'
  BY <1>10 DEF load_module, panic
<1>11. ASSUME NEW a \in Actors, receive_call(a)
      PROVE  Given'
  BY <1>11 DEF receive_call
<1>12. ASSUME NEW a \in Actors, begin_call(a)
      PROVE  Given'
  BY <1>12 DEF begin_call, take
<1>13. ASSUME NEW a \in Actors, add_header(a)
      PROVE  Given'
  BY <1>13 DEF add_header
<1>14. ASSUME NEW a \in Actors, op_exograph_execute_query(a)
      PROVE  Given'
  BY <1>14 DEF op_exograph_execute_query
<1>15. ASSUME NEW a \in Actors, send_result(a)
      PROVE  Given'
  BY <1>15 DEF send_result, panic, take
<1>16. ASSUME NEW a \in Actors, unmark_busy(a)
      PROVE  Given'
  BY <1>16 DEF unmark_busy
<1>17. CASE UNCHANGED vars
  BY <1>17 DEF vars
<1> QED
  BY <1>1, <1>2, <1>3, <1>4, <1>5, <1>6, <1>7, <1>8, <1>9, <1>10, <1>11, <1>12, <1>13, <1>14, <1>15, <1>16, <1>17 DEF Next, Caller, Thread, Quiescent

LEMMA ExecutingStep ==
    ASSUME StateOK, Given, Executing, Relaying, [Next]_vars
    PROVE  Executing'
<1> USE DEF StateOK, Given, Executing, Relaying, Relays, AnswerDue, callers, actors
<1>1. ASSUME NEW k \in Calls, get_executor(k)
      PROVE  Executing'
  BY <1>1 DEF get_executor, Due
<1>2. ASSUME NEW k \in Calls, is_busy(k)
      PROVE  Executing'
  BY <1>2 DEF is_busy
<1>3. ASSUME NEW k \in Calls, create_actor(k)
      PROVE  Executing'
  BY <1>3 DEF create_actor
<1>4. ASSUME NEW k \in Calls, send_call(k)
      PROVE  Executing'
  BY <1>4 DEF send_call
<1>5. ASSUME NEW k \in Calls, lock_receiver(k)
      PROVE  Executing'
  BY <1>5 DEF lock_receiver
<1>6. ASSUME NEW k \in Calls, relay_callback(k)
      PROVE  Executing'
  BY <1>6 DEF relay_callback, Holds
<1>7. ASSUME NEW k \in Calls, process_callback(k)
      PROVE  Executing'
  BY <1>7 DEF process_callback
<1>8. ASSUME NEW k \in Calls, receive_result(k)
      PROVE  Executing'
  BY <1>8 DEF receive_result, Holds
<1>9. ASSUME NEW k \in Calls, disconnect(k)
      PROVE  Executing'
  BY <1>9 DEF disconnect, Task, InFlight, Ended
<1>10. ASSUME NEW a \in Actors, load_module(a)
      PROVE  Executing'
  BY <1>10 DEF load_module, panic
<1>11. ASSUME NEW a \in Actors, receive_call(a)
      PROVE  Executing'
  BY <1>11 DEF receive_call
<1>12. ASSUME NEW a \in Actors, begin_call(a)
      PROVE  Executing'
  BY <1>12 DEF begin_call, take
<1>13. ASSUME NEW a \in Actors, add_header(a)
      PROVE  Executing'
  BY <1>13 DEF add_header
<1>14. ASSUME NEW a \in Actors, op_exograph_execute_query(a)
      PROVE  Executing'
  BY <1>14 DEF op_exograph_execute_query
<1>15. ASSUME NEW a \in Actors, send_result(a)
      PROVE  Executing'
  BY <1>15 DEF send_result, panic, take
<1>16. ASSUME NEW a \in Actors, unmark_busy(a)
      PROVE  Executing'
  BY <1>16, UnmarkBusyExecuting
<1>17. CASE UNCHANGED vars
  BY <1>17 DEF vars
<1> QED
  BY <1>1, <1>2, <1>3, <1>4, <1>5, <1>6, <1>7, <1>8, <1>9, <1>10, <1>11, <1>12, <1>13, <1>14, <1>15, <1>16, <1>17 DEF Next, Caller, Thread, Quiescent

LEMMA AnsweredStep ==
    ASSUME StateOK, Executing, Answered, [Next]_vars
    PROVE  Answered'
<1> USE DEF StateOK, Executing, Answered, callers, actors
<1>1. ASSUME NEW k \in Calls, get_executor(k)
      PROVE  Answered'
  BY <1>1 DEF get_executor, Due
<1>2. ASSUME NEW k \in Calls, is_busy(k)
      PROVE  Answered'
  BY <1>2 DEF is_busy
<1>3. ASSUME NEW k \in Calls, create_actor(k)
      PROVE  Answered'
  BY <1>3 DEF create_actor
<1>4. ASSUME NEW k \in Calls, send_call(k)
      PROVE  Answered'
  BY <1>4 DEF send_call
<1>5. ASSUME NEW k \in Calls, lock_receiver(k)
      PROVE  Answered'
  BY <1>5 DEF lock_receiver
<1>6. ASSUME NEW k \in Calls, relay_callback(k)
      PROVE  Answered'
  BY <1>6 DEF relay_callback, Holds
<1>7. ASSUME NEW k \in Calls, process_callback(k)
      PROVE  Answered'
  BY <1>7 DEF process_callback
<1>8. ASSUME NEW k \in Calls, receive_result(k)
      PROVE  Answered'
  BY <1>8 DEF receive_result, Holds
<1>9. ASSUME NEW k \in Calls, disconnect(k)
      PROVE  Answered'
  BY <1>9 DEF disconnect, Task, InFlight, Ended
<1>10. ASSUME NEW a \in Actors, load_module(a)
      PROVE  Answered'
  BY <1>10 DEF load_module, panic
<1>11. ASSUME NEW a \in Actors, receive_call(a)
      PROVE  Answered'
  BY <1>11 DEF receive_call
<1>12. ASSUME NEW a \in Actors, begin_call(a)
      PROVE  Answered'
  BY <1>12 DEF begin_call, take
<1>13. ASSUME NEW a \in Actors, add_header(a)
      PROVE  Answered'
  BY <1>13 DEF add_header
<1>14. ASSUME NEW a \in Actors, op_exograph_execute_query(a)
      PROVE  Answered'
  BY <1>14 DEF op_exograph_execute_query
<1>15. ASSUME NEW a \in Actors, send_result(a)
      PROVE  Answered'
  BY <1>15 DEF send_result, panic, take
<1>16. ASSUME NEW a \in Actors, unmark_busy(a)
      PROVE  Answered'
  BY <1>16 DEF unmark_busy
<1>17. CASE UNCHANGED vars
  BY <1>17 DEF vars
<1> QED
  BY <1>1, <1>2, <1>3, <1>4, <1>5, <1>6, <1>7, <1>8, <1>9, <1>10, <1>11, <1>12, <1>13, <1>14, <1>15, <1>16, <1>17 DEF Next, Caller, Thread, Quiescent

LEMMA OwnHeadersStep ==
    ASSUME StateOK, Executing, OwnHeaders, [Next]_vars
    PROVE  OwnHeaders'
<1> USE DEF StateOK, Executing, OwnHeaders, callers, actors
<1>1. ASSUME NEW k \in Calls, get_executor(k)
      PROVE  OwnHeaders'
  BY <1>1 DEF get_executor, Due
<1>2. ASSUME NEW k \in Calls, is_busy(k)
      PROVE  OwnHeaders'
  BY <1>2 DEF is_busy
<1>3. ASSUME NEW k \in Calls, create_actor(k)
      PROVE  OwnHeaders'
  BY <1>3 DEF create_actor
<1>4. ASSUME NEW k \in Calls, send_call(k)
      PROVE  OwnHeaders'
  BY <1>4 DEF send_call
<1>5. ASSUME NEW k \in Calls, lock_receiver(k)
      PROVE  OwnHeaders'
  BY <1>5 DEF lock_receiver
<1>6. ASSUME NEW k \in Calls, relay_callback(k)
      PROVE  OwnHeaders'
  BY <1>6 DEF relay_callback, Holds
<1>7. ASSUME NEW k \in Calls, process_callback(k)
      PROVE  OwnHeaders'
  BY <1>7 DEF process_callback
<1>8. ASSUME NEW k \in Calls, receive_result(k)
      PROVE  OwnHeaders'
  BY <1>8 DEF receive_result, Holds
<1>9. ASSUME NEW k \in Calls, disconnect(k)
      PROVE  OwnHeaders'
  BY <1>9 DEF disconnect, Task, InFlight, Ended
<1>10. ASSUME NEW a \in Actors, load_module(a)
      PROVE  OwnHeaders'
  BY <1>10 DEF load_module, panic
<1>11. ASSUME NEW a \in Actors, receive_call(a)
      PROVE  OwnHeaders'
  BY <1>11 DEF receive_call
<1>12. ASSUME NEW a \in Actors, begin_call(a)
      PROVE  OwnHeaders'
  BY <1>12 DEF begin_call, take
<1>13. ASSUME NEW a \in Actors, add_header(a)
      PROVE  OwnHeaders'
  BY <1>13 DEF add_header
<1>14. ASSUME NEW a \in Actors, op_exograph_execute_query(a)
      PROVE  OwnHeaders'
  BY <1>14 DEF op_exograph_execute_query
<1>15. ASSUME NEW a \in Actors, send_result(a)
      PROVE  OwnHeaders'
  BY <1>15, SendResultHeaders
<1>16. ASSUME NEW a \in Actors, unmark_busy(a)
      PROVE  OwnHeaders'
  BY <1>16 DEF unmark_busy
<1>17. CASE UNCHANGED vars
  BY <1>17 DEF vars
<1> QED
  BY <1>1, <1>2, <1>3, <1>4, <1>5, <1>6, <1>7, <1>8, <1>9, <1>10, <1>11, <1>12, <1>13, <1>14, <1>15, <1>16, <1>17 DEF Next, Caller, Thread, Quiescent

LEMMA CallStep ==
    ASSUME StateOK, Given, Executing, Answered, CallAccountedFor, [Next]_vars
    PROVE  CallAccountedFor'
<1> USE DEF StateOK, Given, Executing, Answered, CallAccountedFor, callers, actors
<1>1. ASSUME NEW k \in Calls, get_executor(k)
      PROVE  CallAccountedFor'
  BY <1>1 DEF get_executor, Due
<1>2. ASSUME NEW k \in Calls, is_busy(k)
      PROVE  CallAccountedFor'
  BY <1>2 DEF is_busy
<1>3. ASSUME NEW k \in Calls, create_actor(k)
      PROVE  CallAccountedFor'
  BY <1>3 DEF create_actor
<1>4. ASSUME NEW k \in Calls, send_call(k)
      PROVE  CallAccountedFor'
  BY <1>4, SendCallCall
<1>5. ASSUME NEW k \in Calls, lock_receiver(k)
      PROVE  CallAccountedFor'
  BY <1>5 DEF lock_receiver
<1>6. ASSUME NEW k \in Calls, relay_callback(k)
      PROVE  CallAccountedFor'
  BY <1>6 DEF relay_callback, Holds
<1>7. ASSUME NEW k \in Calls, process_callback(k)
      PROVE  CallAccountedFor'
  BY <1>7 DEF process_callback
<1>8. ASSUME NEW k \in Calls, receive_result(k)
      PROVE  CallAccountedFor'
  BY <1>8 DEF receive_result, Holds
<1>9. ASSUME NEW k \in Calls, disconnect(k)
      PROVE  CallAccountedFor'
  BY <1>9 DEF disconnect, Task, InFlight, Ended
<1>10. ASSUME NEW a \in Actors, load_module(a)
      PROVE  CallAccountedFor'
  <2>1. CASE thread' = [thread EXCEPT ![a] = "idle"] /\ UNCHANGED <<queue, result>>
    BY <1>10, <2>1 DEF load_module, panic
  <2>2. CASE panic(a)
    BY <1>10, <2>2 DEF load_module, panic
  <2> QED BY <1>10, <2>1, <2>2 DEF load_module
<1>11. ASSUME NEW a \in Actors, receive_call(a)
      PROVE  CallAccountedFor'
  BY <1>11 DEF receive_call
<1>12. ASSUME NEW a \in Actors, begin_call(a)
      PROVE  CallAccountedFor'
  BY <1>12 DEF begin_call, take
<1>13. ASSUME NEW a \in Actors, add_header(a)
      PROVE  CallAccountedFor'
  BY <1>13 DEF add_header
<1>14. ASSUME NEW a \in Actors, op_exograph_execute_query(a)
      PROVE  CallAccountedFor'
  BY <1>14 DEF op_exograph_execute_query
<1>15. ASSUME NEW a \in Actors, send_result(a)
      PROVE  CallAccountedFor'
  BY <1>15, SendResultCall
<1>16. ASSUME NEW a \in Actors, unmark_busy(a)
      PROVE  CallAccountedFor'
  BY <1>16 DEF unmark_busy
<1>17. CASE UNCHANGED vars
  BY <1>17 DEF vars
<1> QED
  BY <1>1, <1>2, <1>3, <1>4, <1>5, <1>6, <1>7, <1>8, <1>9, <1>10, <1>11, <1>12, <1>13, <1>14, <1>15, <1>16, <1>17 DEF Next, Caller, Thread, Quiescent

LEMMA RelayingStep ==
    ASSUME StateOK, Given, Executing, Relaying, [Next]_vars
    PROVE  Relaying'
<1> USE DEF StateOK, Given, Executing, Relaying, Relays, AnswerDue, callers, actors
<1>1. ASSUME NEW k \in Calls, get_executor(k)
      PROVE  Relaying'
  BY <1>1 DEF get_executor, Due
<1>2. ASSUME NEW k \in Calls, is_busy(k)
      PROVE  Relaying'
  BY <1>2, IsBusyRelaying
<1>3. ASSUME NEW k \in Calls, create_actor(k)
      PROVE  Relaying'
  BY <1>3 DEF create_actor
<1>4. ASSUME NEW k \in Calls, send_call(k)
      PROVE  Relaying'
  BY <1>4, SendCallRelaying
<1>5. ASSUME NEW k \in Calls, lock_receiver(k)
      PROVE  Relaying'
  BY <1>5 DEF lock_receiver
<1>6. ASSUME NEW k \in Calls, relay_callback(k)
      PROVE  Relaying'
  BY <1>6, RelayCallbackRelaying
<1>7. ASSUME NEW k \in Calls, process_callback(k)
      PROVE  Relaying'
  BY <1>7 DEF process_callback
<1>8. ASSUME NEW k \in Calls, receive_result(k)
      PROVE  Relaying'
  BY <1>8, ReceiveResultRelaying
<1>9. ASSUME NEW k \in Calls, disconnect(k)
      PROVE  Relaying'
  BY <1>9 DEF disconnect, Task, InFlight, Ended
<1>10. ASSUME NEW a \in Actors, load_module(a)
      PROVE  Relaying'
  <2>1. CASE thread' = [thread EXCEPT ![a] = "idle"] /\ UNCHANGED <<queue, result>>
    BY <1>10, <2>1 DEF load_module, panic
  <2>2. CASE panic(a)
    BY <1>10, <2>2 DEF load_module, panic
  <2> QED BY <1>10, <2>1, <2>2 DEF load_module
<1>11. ASSUME NEW a \in Actors, receive_call(a)
      PROVE  Relaying'
  BY <1>11 DEF receive_call
<1>12. ASSUME NEW a \in Actors, begin_call(a)
      PROVE  Relaying'
  BY <1>12 DEF begin_call, take
<1>13. ASSUME NEW a \in Actors, add_header(a)
      PROVE  Relaying'
  BY <1>13 DEF add_header
<1>14. ASSUME NEW a \in Actors, op_exograph_execute_query(a)
      PROVE  Relaying'
  BY <1>14 DEF op_exograph_execute_query
<1>15. ASSUME NEW a \in Actors, send_result(a)
      PROVE  Relaying'
  BY <1>15, SendResultRelaying
<1>16. ASSUME NEW a \in Actors, unmark_busy(a)
      PROVE  Relaying'
  BY <1>16 DEF unmark_busy
<1>17. CASE UNCHANGED vars
  BY <1>17 DEF vars
<1> QED
  BY <1>1, <1>2, <1>3, <1>4, <1>5, <1>6, <1>7, <1>8, <1>9, <1>10, <1>11, <1>12, <1>13, <1>14, <1>15, <1>16, <1>17 DEF Next, Caller, Thread, Quiescent

-----------------------------------------------------------------------------
(* Leaving the queue of a lock: what the recursion of Leave computes       *)

(* Induction, with a set in place of the predicate.                        *)
LEMMA LeastNatural ==
    ASSUME NEW T, T \subseteq Nat, T # {}
    PROVE  \E x \in T : \A y \in T : x <= y
<1>1. PICK x \in T : \A y \in T : ~(<<y, x>> \in OpToRel(<, Nat))
  BY NatLessThanWellFounded, WFMin
<1>2. ASSUME NEW y \in T PROVE x <= y
  <2>1. ~(y < x)
    BY <1>1 DEF OpToRel
  <2> QED BY <2>1
<1> QED BY <1>2

LEMMA UpTo ==
    ASSUME NEW N \in Nat, NEW Good, 0 \in Good,
           \A n \in 1..N : n - 1 \in Good => n \in Good
    PROVE  0..N \subseteq Good
<1> SUFFICES ASSUME (0..N) \ Good # {} PROVE FALSE
  OBVIOUS
<1>1. PICK x \in (0..N) \ Good : \A y \in (0..N) \ Good : x <= y
  <2>1. (0..N) \ Good \subseteq Nat
    OBVIOUS
  <2> QED BY <2>1, LeastNatural
<1>2. x \in 1..N
  BY <1>1
<1>3. x - 1 \in Good
  BY <1>1, <1>2
<1> QED BY <1>1, <1>2, <1>3

LeftAt(q, S, f, n) ==
    IF n = 0 THEN <<>> ELSE IF q[n] \in S THEN f[n - 1] ELSE Append(f[n - 1], q[n])

SolvesLeft(f, q, S, N) == f = [n \in 0..N |-> LeftAt(q, S, f, n)]

LEMMA LeftExists ==
    ASSUME NEW q, NEW S, NEW N \in Nat
    PROVE  \E f : SolvesLeft(f, q, S, N)
<1> DEFINE Good == {k \in Nat : \E f : f = [n \in 0..k |-> LeftAt(q, S, f, n)]}
<1>1. 0 \in Good
  <2> DEFINE f == [n \in 0..0 |-> <<>>]
  <2>1. f = [n \in 0..0 |-> LeftAt(q, S, f, n)]
    BY DEF LeftAt
  <2> QED BY <2>1
<1>2. ASSUME NEW k \in 1..N, k - 1 \in Good
      PROVE  k \in Good
  <2>1. PICK f : f = [n \in 0..(k - 1) |-> LeftAt(q, S, f, n)]
    BY <1>2
  <2> DEFINE g == [n \in 0..k |-> IF n = k THEN LeftAt(q, S, f, k) ELSE f[n]]
  <2>2. ASSUME NEW n \in 0..k
        PROVE  g[n] = LeftAt(q, S, g, n)
    <3>1. n # 0 => g[n - 1] = f[n - 1]
      OBVIOUS
    <3>2. LeftAt(q, S, g, n) = LeftAt(q, S, f, n)
      <4> HIDE DEF g
      <4> QED BY <3>1, Zenon DEF LeftAt
    <3>3. CASE n = k
      BY <3>2, <3>3
    <3>4. CASE n # k
      <4>1. g[n] = f[n] /\ n \in 0..(k - 1)
        BY <3>4
      <4>2. f[n] = LeftAt(q, S, f, n)
        <5> HIDE DEF g
        <5> QED BY <2>1, <4>1
      <4> QED BY <3>2, <4>1, <4>2
    <3> QED BY <3>3, <3>4
  <2>3. g = [n \in 0..k |-> LeftAt(q, S, g, n)]
    <3>1. g = [n \in 0..k |-> g[n]]
      OBVIOUS
    <3> HIDE DEF g
    <3> QED BY <2>2, <3>1
  <2> HIDE DEF g
  <2> QED BY <2>3
<1> HIDE DEF Good
<1>3. N \in Good
  BY <1>1, <1>2, UpTo
<1> QED BY <1>3 DEF Good, SolvesLeft

Members(q) == {q[i] : i \in DOMAIN q}
Distinct(q) == \A i, j \in DOMAIN q : q[i] = q[j] => i = j

LEMMA AppendMembers ==
    ASSUME NEW T, NEW q \in Seq(T), NEW x \in T, x \notin Members(q), Distinct(q)
    PROVE  /\ Append(q, x) \in Seq(T)
           /\ Members(Append(q, x)) = Members(q) \cup {x}
           /\ Distinct(Append(q, x))
<1>1. Append(q, x) \in Seq(T) /\ Len(q) \in Nat /\ DOMAIN q = 1..Len(q)
  OBVIOUS
<1>2. DOMAIN Append(q, x) = 1..(Len(q) + 1)
  OBVIOUS
<1>3. Append(q, x)[Len(q) + 1] = x /\ \A i \in 1..Len(q) : Append(q, x)[i] = q[i]
  OBVIOUS
<1>4. Members(Append(q, x)) = Members(q) \cup {x}
  <2>1. \A y \in Members(Append(q, x)) : y \in Members(q) \cup {x}
    BY <1>1, <1>2, <1>3 DEF Members
  <2>2. \A y \in Members(q) \cup {x} : y \in Members(Append(q, x))
    BY <1>1, <1>2, <1>3 DEF Members
  <2> QED BY <2>1, <2>2
<1>5. Distinct(Append(q, x))
  <2> SUFFICES ASSUME NEW i \in 1..(Len(q) + 1), NEW j \in 1..(Len(q) + 1),
                      Append(q, x)[i] = Append(q, x)[j]
               PROVE  i = j
    BY <1>2 DEF Distinct
  <2>1. CASE i = Len(q) + 1 /\ j # Len(q) + 1
    BY <1>1, <1>3, <2>1 DEF Members
  <2>2. CASE i # Len(q) + 1 /\ j = Len(q) + 1
    BY <1>1, <1>3, <2>2 DEF Members
  <2>3. CASE i \in 1..Len(q) /\ j \in 1..Len(q)
    BY <1>1, <1>3, <2>3 DEF Distinct
  <2> QED BY <1>1, <2>1, <2>2, <2>3
<1> QED BY <1>1, <1>4, <1>5

LEMMA TailMembers ==
    ASSUME NEW T, NEW q \in Seq(T), q # <<>>, Distinct(q)
    PROVE  /\ Tail(q) \in Seq(T)
           /\ Members(Tail(q)) = Members(q) \ {Head(q)}
           /\ Distinct(Tail(q))
<1>1. Tail(q) \in Seq(T) /\ Len(q) \in Nat \ {0} /\ DOMAIN q = 1..Len(q) /\ Head(q) = q[1]
  OBVIOUS
<1>2. DOMAIN Tail(q) = 1..(Len(q) - 1) /\ \A i \in 1..(Len(q) - 1) : Tail(q)[i] = q[i + 1]
  OBVIOUS
<1>3. \A i \in 1..(Len(q) - 1) : i + 1 \in 1..Len(q) /\ i + 1 # 1
  BY <1>1
<1>4. Distinct(Tail(q))
  <2> SUFFICES ASSUME NEW i \in 1..(Len(q) - 1), NEW j \in 1..(Len(q) - 1), Tail(q)[i] = Tail(q)[j]
               PROVE  i = j
    BY <1>2 DEF Distinct
  <2>1. i + 1 = j + 1
    BY <1>1, <1>2, <1>3 DEF Distinct
  <2> QED BY <2>1
<1>5. \A y \in Members(Tail(q)) : y \in Members(q) \ {Head(q)}
  BY <1>1, <1>2, <1>3 DEF Members, Distinct
<1>6. \A y \in Members(q) \ {Head(q)} : y \in Members(Tail(q))
  <2> TAKE y \in Members(q) \ {Head(q)}
  <2>1. PICK i \in 1..Len(q) : y = q[i] /\ i # 1
    BY <1>1 DEF Members
  <2>2. i - 1 \in 1..(Len(q) - 1) /\ (i - 1) + 1 = i
    BY <1>1, <2>1
  <2> QED BY <1>2, <2>1, <2>2 DEF Members
<1> QED BY <1>1, <1>4, <1>5, <1>6

LEMMA LeaveMembers ==
    ASSUME NEW T, NEW q \in Seq(T), NEW S, Distinct(q)
    PROVE  /\ Leave(q, S) \in Seq(T)
           /\ Members(Leave(q, S)) = Members(q) \ S
           /\ Distinct(Leave(q, S))
<1> DEFINE N == Len(q)
           left == CHOOSE f : f = [n \in 0..N |-> LeftAt(q, S, f, n)]
           upto(n) == {q[i] : i \in 1..n}
           Right(n) == /\ left[n] \in Seq(T)
                       /\ Members(left[n]) = upto(n) \ S
                       /\ Distinct(left[n])
           Good == {n \in 0..N : Right(n)}
<1>1. N \in Nat /\ DOMAIN q = 1..N /\ \A i \in 1..N : q[i] \in T
  OBVIOUS
<1>2. left = [n \in 0..N |-> LeftAt(q, S, left, n)]
  <2> HIDE DEF N
  <2>1. \E f : SolvesLeft(f, q, S, N)
    BY <1>1, LeftExists
  <2> QED BY <2>1, Zenon DEF SolvesLeft
<1>3. Leave(q, S) = left[N]
  BY Zenon DEF Leave, LeftAt
<1> HIDE DEF left, N
<1>4. \A n \in 0..N : left[n] = LeftAt(q, S, left, n)
  BY <1>2
<1>5. 0 \in Good
  <2>1. left[0] = <<>>
    BY <1>1, <1>4 DEF LeftAt
  <2>2. upto(0) = {} /\ Members(<<>>) = {} /\ Distinct(<<>>) /\ <<>> \in Seq(T)
    BY DEF Members, Distinct
  <2>3. Right(0)
    <3> HIDE DEF upto
    <3> QED BY <2>1, <2>2
  <2>4. 0 \in 0..N
    BY <1>1
  <2> HIDE DEF Right
  <2> QED BY <2>3, <2>4
<1>6. ASSUME NEW n \in 1..N, n - 1 \in Good
      PROVE  n \in Good
  <2> DEFINE before == left[n - 1]
  <2>1. /\ before \in Seq(T) /\ Members(before) = upto(n - 1) \ S /\ Distinct(before)
    BY <1>6
  <2>2. left[n] = IF q[n] \in S THEN before ELSE Append(before, q[n])
    BY <1>1, <1>4 DEF LeftAt
  <2>3. upto(n) = upto(n - 1) \cup {q[n]}
    <3>1. 1..n = (1..(n - 1)) \cup {n}
      OBVIOUS
    <3> QED BY <3>1
  <2>4. q[n] \in T /\ q[n] \notin upto(n - 1)
    BY <1>1 DEF Distinct
  <2> HIDE DEF before, upto
  <2>5. CASE q[n] \in S
    <3>1. Right(n)
      BY <2>1, <2>2, <2>3, <2>5
    <3> HIDE DEF Right
    <3> QED BY <1>1, <3>1
  <2>6. CASE q[n] \notin S
    <3>1. q[n] \notin Members(before)
      BY <2>1, <2>4
    <3>2. /\ Append(before, q[n]) \in Seq(T) /\ Distinct(Append(before, q[n]))
          /\ Members(Append(before, q[n])) = Members(before) \cup {q[n]}
      BY <2>1, <2>4, <3>1, AppendMembers
    <3>3. left[n] = Append(before, q[n]) /\ Members(left[n]) = upto(n) \ S
      BY <2>1, <2>2, <2>3, <2>6, <3>2, Zenon
    <3>4. Right(n)
      BY <3>2, <3>3, Zenon
    <3> HIDE DEF Right
    <3> QED BY <1>1, <3>4
  <2> QED BY <2>5, <2>6
<1> HIDE DEF Good
<1>7. N \in Good
  <2>1. 0..N \subseteq Good
    BY <1>1, <1>5, <1>6, UpTo
  <2> QED BY <1>1, <2>1
<1>8. upto(N) = Members(q)
  BY <1>1 DEF Members
<1> QED BY <1>3, <1>7, <1>8 DEF Good

-----------------------------------------------------------------------------
(* The locks                                                               *)

InLine(a) == {k \in Calls : actor[k] = a /\ pc[k] \in {"wait", "process"}}

LocksOK ==
    /\ lockq \in [Actors -> Seq(Calls)]
    /\ \A a \in Actors : Distinct(lockq[a]) /\ Members(lockq[a]) = InLine(a)

LEMMA LocksAccountedFor == LocksOK => LockAccountedFor /\ lockq \in [Actors -> Seq(Calls)]
  BY DEF LocksOK, LockAccountedFor, Distinct, Members, InLine

(* A step that does not touch the locks, and moves no one into line or out *)
(* of it.                                                                  *)
LEMMA LocksSame ==
    ASSUME LocksOK, UNCHANGED lockq,
           \A k \in Calls : pc'[k] \in {"wait", "process"} <=> pc[k] \in {"wait", "process"},
           \A k \in Calls : pc[k] \in {"wait", "process"} => actor'[k] = actor[k]
    PROVE  LocksOK'
<1>1. \A a \in Actors : InLine(a)' = InLine(a)
  BY DEF InLine
<1> QED BY <1>1 DEF LocksOK

(* One lock changes, as does its line.                                     *)
LEMMA LockChanges ==
    ASSUME LocksOK, NEW k \in Calls, actor[k] \in Actors, UNCHANGED actor, NEW q \in Seq(Calls),
           lockq' = [lockq EXCEPT ![actor[k]] = q],
           \A j \in Calls \ {k} : pc'[j] = pc[j],
           Distinct(q), Members(q) = InLine(actor[k])'
    PROVE  LocksOK'
<1>1. \A a \in Actors \ {actor[k]} : InLine(a)' = InLine(a)
  BY DEF InLine
<1>2. lockq' \in [Actors -> Seq(Calls)]
  BY DEF LocksOK
<1>3. \A a \in Actors \ {actor[k]} : lockq'[a] = lockq[a]
  BY DEF LocksOK
<1>4. lockq'[actor[k]] = q
  BY DEF LocksOK
<1>5. ASSUME NEW a \in Actors
      PROVE  Distinct(lockq'[a]) /\ Members(lockq'[a]) = InLine(a)'
  <2>1. CASE a = actor[k]
    BY <1>4, <2>1
  <2>2. CASE a # actor[k]
    BY <1>1, <1>3, <2>2 DEF LocksOK
  <2> QED BY <2>1, <2>2
<1> QED BY <1>2, <1>5 DEF LocksOK

LEMMA LockReceiverLocks ==
    ASSUME StateOK, Given, LocksOK, NEW k \in Calls, lock_receiver(k)
    PROVE  LocksOK'
<1> DEFINE q == lockq[actor[k]]
<1>1. actor[k] \in Actors /\ pc[k] \in {"lock", "relayed"}
  BY HasActor DEF lock_receiver
<1>2. q \in Seq(Calls) /\ Distinct(q) /\ Members(q) = InLine(actor[k])
  BY <1>1 DEF LocksOK
<1>3. k \notin Members(q)
  BY <1>1, <1>2 DEF InLine
<1>4. /\ UNCHANGED actor /\ \A j \in Calls \ {k} : pc'[j] = pc[j]
      /\ pc'[k] \in {"wait", "process"}
      /\ lockq' = [lockq EXCEPT ![actor[k]] = Append(q, k)]
  BY <1>1 DEF lock_receiver, StateOK
<1>5. InLine(actor[k])' = InLine(actor[k]) \cup {k}
  BY <1>4 DEF InLine
<1> HIDE DEF q
<1>6. /\ Append(q, k) \in Seq(Calls) /\ Distinct(Append(q, k))
      /\ Members(Append(q, k)) = Members(q) \cup {k}
  BY <1>2, <1>3, AppendMembers
<1> QED BY <1>1, <1>2, <1>4, <1>5, <1>6, LockChanges

(* The holder leaves.                                                      *)
LEMMA ReleaseLocks ==
    ASSUME StateOK, Given, LocksOK, NEW k \in Calls, Holds(k), UNCHANGED actor,
           lockq' = [lockq EXCEPT ![actor[k]] = Tail(@)],
           \A j \in Calls \ {k} : pc'[j] = pc[j], pc'[k] \notin {"wait", "process"}
    PROVE  LocksOK'
<1> DEFINE q == lockq[actor[k]]
<1>1. actor[k] \in Actors /\ q # <<>> /\ Head(q) = k
  BY HasActor DEF Holds
<1>2. q \in Seq(Calls) /\ Distinct(q) /\ Members(q) = InLine(actor[k])
  BY <1>1 DEF LocksOK
<1>3. InLine(actor[k])' = InLine(actor[k]) \ {k}
  BY DEF InLine
<1>4. lockq' = [lockq EXCEPT ![actor[k]] = Tail(q)]
  OBVIOUS
<1> HIDE DEF q
<1>5. Tail(q) \in Seq(Calls) /\ Distinct(Tail(q)) /\ Members(Tail(q)) = Members(q) \ {Head(q)}
  BY <1>1, <1>2, TailMembers
<1> QED BY <1>1, <1>2, <1>3, <1>4, <1>5, LockChanges

LEMMA DisconnectLocks ==
    ASSUME StateOK, LocksOK, NEW k \in Calls, disconnect(k)
    PROVE  LocksOK'
<1>1. /\ UNCHANGED actor
      /\ pc' = [c \in Calls |-> IF c \in Task(k) THEN "gone" ELSE pc[c]]
      /\ lockq' = [a \in Actors |-> Leave(lockq[a], Task(k))]
  BY DEF disconnect
<1>2. ASSUME NEW a \in Actors
      PROVE  /\ lockq'[a] \in Seq(Calls) /\ Distinct(lockq'[a])
             /\ Members(lockq'[a]) = Members(lockq[a]) \ Task(k)
  <2>1. lockq'[a] = Leave(lockq[a], Task(k)) /\ lockq[a] \in Seq(Calls) /\ Distinct(lockq[a])
    BY <1>1 DEF LocksOK
  <2> QED BY <2>1, LeaveMembers
<1>3. \A a \in Actors : InLine(a)' = InLine(a) \ Task(k)
  BY <1>1 DEF InLine
<1>4. lockq' \in [Actors -> Seq(Calls)]
  <2>1. lockq' = [a \in Actors |-> lockq'[a]]
    BY <1>1
  <2> QED BY <1>2, <2>1
<1>5. \A a \in Actors : Members(lockq'[a]) = InLine(a)'
  BY <1>2, <1>3 DEF LocksOK
<1> QED BY <1>2, <1>4, <1>5 DEF LocksOK

LEMMA LocksStep ==
    ASSUME StateOK, Given, LocksOK, [Next]_vars
    PROVE  LocksOK'
<1> USE DEF callers, actors
<1>1. ASSUME NEW k \in Calls, get_executor(k)
      PROVE  LocksOK'
  <2>1. /\ UNCHANGED lockq
        /\ \A j \in Calls : pc'[j] \in {"wait", "process"} <=> pc[j] \in {"wait", "process"}
        /\ \A j \in Calls : pc[j] \in {"wait", "process"} => actor'[j] = actor[j]
    BY <1>1 DEF get_executor, Due, StateOK
  <2> QED BY <2>1, LocksSame
<1>2. ASSUME NEW k \in Calls, is_busy(k)
      PROVE  LocksOK'
  <2>1. /\ UNCHANGED lockq
        /\ \A j \in Calls : pc'[j] \in {"wait", "process"} <=> pc[j] \in {"wait", "process"}
        /\ \A j \in Calls : pc[j] \in {"wait", "process"} => actor'[j] = actor[j]
    BY <1>2 DEF is_busy, StateOK
  <2> QED BY <2>1, LocksSame
<1>3. ASSUME NEW k \in Calls, create_actor(k)
      PROVE  LocksOK'
  <2>1. /\ UNCHANGED lockq
        /\ \A j \in Calls : pc'[j] \in {"wait", "process"} <=> pc[j] \in {"wait", "process"}
        /\ \A j \in Calls : pc[j] \in {"wait", "process"} => actor'[j] = actor[j]
    BY <1>3 DEF create_actor, StateOK
  <2> QED BY <2>1, LocksSame
<1>4. ASSUME NEW k \in Calls, send_call(k)
      PROVE  LocksOK'
  <2>1. /\ UNCHANGED lockq
        /\ \A j \in Calls : pc'[j] \in {"wait", "process"} <=> pc[j] \in {"wait", "process"}
        /\ \A j \in Calls : pc[j] \in {"wait", "process"} => actor'[j] = actor[j]
    BY <1>4 DEF send_call, StateOK
  <2> QED BY <2>1, LocksSame
<1>5. ASSUME NEW k \in Calls, lock_receiver(k)
      PROVE  LocksOK'
  BY <1>5, LockReceiverLocks
<1>6. ASSUME NEW k \in Calls, relay_callback(k)
      PROVE  LocksOK'
  <2>1. /\ Holds(k) /\ UNCHANGED actor /\ lockq' = [lockq EXCEPT ![actor[k]] = Tail(@)]
        /\ \A j \in Calls \ {k} : pc'[j] = pc[j]
        /\ pc'[k] \notin {"wait", "process"}
    BY <1>6 DEF relay_callback, StateOK
  <2> QED BY <2>1, ReleaseLocks
<1>7. ASSUME NEW k \in Calls, process_callback(k)
      PROVE  LocksOK'
  <2>1. /\ UNCHANGED lockq
        /\ \A j \in Calls : pc'[j] \in {"wait", "process"} <=> pc[j] \in {"wait", "process"}
        /\ \A j \in Calls : pc[j] \in {"wait", "process"} => actor'[j] = actor[j]
    BY <1>7 DEF process_callback, StateOK
  <2> QED BY <2>1, LocksSame
<1>8. ASSUME NEW k \in Calls, receive_result(k)
      PROVE  LocksOK'
  <2>1. /\ Holds(k) /\ UNCHANGED actor /\ lockq' = [lockq EXCEPT ![actor[k]] = Tail(@)]
        /\ \A j \in Calls \ {k} : pc'[j] = pc[j]
        /\ pc'[k] \notin {"wait", "process"}
    BY <1>8 DEF receive_result, StateOK
  <2> QED BY <2>1, ReleaseLocks
<1>9. ASSUME NEW k \in Calls, disconnect(k)
      PROVE  LocksOK'
  BY <1>9, DisconnectLocks
<1>10. ASSUME NEW a \in Actors, load_module(a)
      PROVE  LocksOK'
  <2>1. UNCHANGED <<lockq, pc, actor>>
    BY <1>10 DEF load_module, panic
  <2> QED BY <2>1, LocksSame
<1>11. ASSUME NEW a \in Actors, receive_call(a)
      PROVE  LocksOK'
  <2>1. UNCHANGED <<lockq, pc, actor>>
    BY <1>11 DEF receive_call
  <2> QED BY <2>1, LocksSame
<1>12. ASSUME NEW a \in Actors, begin_call(a)
      PROVE  LocksOK'
  <2>1. UNCHANGED <<lockq, pc, actor>>
    BY <1>12 DEF begin_call, take
  <2> QED BY <2>1, LocksSame
<1>13. ASSUME NEW a \in Actors, add_header(a)
      PROVE  LocksOK'
  <2>1. UNCHANGED <<lockq, pc, actor>>
    BY <1>13 DEF add_header
  <2> QED BY <2>1, LocksSame
<1>14. ASSUME NEW a \in Actors, op_exograph_execute_query(a)
      PROVE  LocksOK'
  <2>1. UNCHANGED <<lockq, pc, actor>>
    BY <1>14 DEF op_exograph_execute_query
  <2> QED BY <2>1, LocksSame
<1>15. ASSUME NEW a \in Actors, send_result(a)
      PROVE  LocksOK'
  <2>1. UNCHANGED <<lockq, pc, actor>>
    BY <1>15 DEF send_result, panic, take
  <2> QED BY <2>1, LocksSame
<1>16. ASSUME NEW a \in Actors, unmark_busy(a)
      PROVE  LocksOK'
  <2>1. UNCHANGED <<lockq, pc, actor>>
    BY <1>16 DEF unmark_busy
  <2> QED BY <2>1, LocksSame
<1>17. CASE UNCHANGED vars
  <2>1. UNCHANGED <<lockq, pc, actor>>
    BY <1>17 DEF vars
  <2> QED BY <2>1, LocksSame
<1> QED
  BY <1>1, <1>2, <1>3, <1>4, <1>5, <1>6, <1>7, <1>8, <1>9, <1>10, <1>11, <1>12, <1>13, <1>14, <1>15, <1>16, <1>17 DEF Next, Caller, Thread, Quiescent

-----------------------------------------------------------------------------
(* The theorems                                                            *)

LEMMA PoolInvInit == Init => PoolInv
<1> SUFFICES ASSUME Init
             PROVE  PoolInv
  OBVIOUS
<1>1. StateOK
  BY DEF Init, StateOK
<1>2. Given /\ Executing /\ Answered
  BY DEF Init, Given, Executing, Answered
<1>3. Relaying
  BY DEF Init, Relaying, Relays, AnswerDue
<1>4. OwnHeaders /\ CallAccountedFor
  BY DEF Init, OwnHeaders, CallAccountedFor
<1> QED BY <1>1, <1>2, <1>3, <1>4 DEF PoolInv

LEMMA PoolInvHolds == Spec => []PoolInv
<1>1. PoolInv /\ [Next]_vars => PoolInv'
  BY StateStep, GivenStep, ExecutingStep, AnsweredStep, RelayingStep, OwnHeadersStep,
     CallStep DEF PoolInv
<1> QED BY <1>1, PoolInvInit, PTL DEF Spec

LEMMA LocksHold == Spec => []LocksOK
<1>1. Init => LocksOK
  <2> SUFFICES ASSUME Init
               PROVE  LocksOK
    OBVIOUS
  <2>1. \A a \in Actors : InLine(a) = {}
    BY DEF Init, InLine
  <2>2. Members(<<>>) = {} /\ Distinct(<<>>)
    BY DEF Members, Distinct
  <2>3. lockq = [a \in Actors |-> <<>>] /\ <<>> \in Seq(Calls)
    BY DEF Init
  <2>4. lockq \in [Actors -> Seq(Calls)] /\ \A a \in Actors : lockq[a] = <<>>
    BY <2>3, Zenon
  <2> QED BY <2>1, <2>2, <2>4, Zenon DEF LocksOK
<1>2. PoolInv /\ LocksOK /\ [Next]_vars => LocksOK'
  BY LocksStep DEF PoolInv
<1> QED BY <1>1, <1>2, PoolInvHolds, PTL DEF Spec

(***************************************************************************)
(* Every variable keeps its type: no caller is given an actor that is not  *)
(* in the pool, no function makes more callbacks than it may, and the      *)
(* queues of the locks hold those who use them (below).                    *)
(***************************************************************************)
THEOREM TypeCorrect == Spec => []TypeOK
<1>1. PoolInv /\ LocksOK => TypeOK
  BY LocksAccountedFor DEF PoolInv, TypeOK
<1> QED BY <1>1, PoolInvHolds, LocksHold, PTL

(***************************************************************************)
(* The lock of a callback receiver is asked for again by a caller that has *)
(* just released it, by callers that share the actor and by nested calls,  *)
(* and is left by whole requests at once when one is dropped: still its    *)
(* queue holds exactly those who use it, each of them once.                *)
(***************************************************************************)
THEOREM LockAccountedForHolds == Spec => []LockAccountedFor
  BY LocksHold, LocksAccountedFor, PTL

(***************************************************************************)
(* DenoModule::take: whatever calls an actor has executed before, and      *)
(* however they ended, the headers that come with a result are those the   *)
(* called function added.                                                  *)
(***************************************************************************)
THEOREM OwnHeadersHolds == Spec => []OwnHeaders
  BY PoolInvHolds, PTL DEF PoolInv

(***************************************************************************)
(* However many callers share an actor because it did not look busy yet,   *)
(* and whichever of them are dropped: a call that was sent waits in the    *)
(* channel, executes, or has its result or the news that the thread died.  *)
(***************************************************************************)
THEOREM CallAccountedForHolds == Spec => []CallAccountedFor
  BY PoolInvHolds, PTL DEF PoolInv

(***************************************************************************)
(* A callback that left the channel is in the hands of exactly one caller  *)
(* of that actor, though any caller may take it, not only the one whose    *)
(* function made it; and no caller processes what no function awaits.      *)
(***************************************************************************)
THEOREM CallbackAccountedForHolds == Spec => []CallbackAccountedFor
<1>1. PoolInv => CallbackAccountedFor
  <2> SUFFICES ASSUME PoolInv, NEW a \in Actors
               PROVE  LET processing == {k \in Calls : actor[k] = a /\ Relays(k)} IN
                      IF AnswerDue(a) THEN \E k \in Calls : processing = {k}
                      ELSE processing = {}
    BY DEF CallbackAccountedFor, Relays, AnswerDue
  <2>1. CASE AnswerDue(a)
    <3>1. PICK k \in Calls : actor[k] = a /\ Relays(k)
      BY <2>1 DEF PoolInv, Relaying
    <3>2. \A j \in Calls : actor[j] = a /\ Relays(j) => j = k
      BY <3>1 DEF PoolInv, Relaying
    <3> QED BY <2>1, <3>1, <3>2
  <2>2. CASE ~AnswerDue(a)
    BY <2>2 DEF PoolInv, Relaying
  <2> QED BY <2>1, <2>2
<1> QED BY <1>1, PoolInvHolds, PTL
=============================================================================
