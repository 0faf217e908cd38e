---------------------------- MODULE DenoActorPool ----------------------------
(***************************************************************************)
(* The pool of Deno actors of one script: callers (operations, interceptors*)
(* and RPC methods implemented in JavaScript) pick an actor that does not  *)
(* look busy, send it their call and relay its callbacks; the actor's own  *)
(* thread runs one call after the other.                                   *)
(*                                                                         *)
(* A caller is one task: DenoExecutor::execute polls DenoActor::execute    *)
(* and handles callbacks in between, so it is in one place at a time.  An  *)
(* actor is a thread.  Everything they share is in the variables below:    *)
(* the call channel, the callback channel with its lock, the busy flag.    *)
(***************************************************************************)
EXTENDS Integers, Sequences

CONSTANTS
    Calls,         \* the calls made
    NoCall,
    Parent,        \* the call during whose callback a call is made, or NoCall
    Faults,        \* a subset of {"disconnect", "load"}
    MaxActors,     \* bound: actors of the pool; with one per call it never binds
    MaxCallbacks   \* bound: callbacks of one function

Actors == 1..MaxActors

ASSUME NoCallAssumption == NoCall \notin Calls
(* Bound: nested calls make no nested calls.                               *)
ASSUME ParentAssumption ==
    /\ Parent \in [Calls -> Calls \cup {NoCall}]
    /\ \A k \in Calls : Parent[k] # NoCall => Parent[Parent[k]] = NoCall
ASSUME FaultsAssumption == Faults \subseteq {"disconnect", "load"}
ASSUME BoundsAssumption == MaxActors \in Nat \ {0} /\ MaxCallbacks \in Nat

VARIABLES
    (* the callers *)
    pc,        \* where the caller is
    actor,     \* the actor it was given (0: none yet)
    result,    \* what final_result_receiver holds
    headers,   \* the R that came with the result, as the calls it stems from
    probe,     \* the actor under inspection in get_executor
    (* the actors *)
    size,      \* number of actors in the pool
    thread,    \* where the actor's thread is
    cur,       \* the call it executes
    busy,      \* the busy flag
    queue,     \* the call channel (capacity 1)
    callback,  \* the callback channel (capacity 1): the call that sent
    lockq,     \* the lock of the callback receiver: holder, then waiters
    storage,   \* the R in the module's op_state
    budget     \* callbacks each function may still make

callers == <<pc, actor, result, headers, probe>>
actors  == <<size, thread, cur, busy, queue, callback, lockq, storage, budget>>
vars    == <<callers, actors>>

Places == {"new", "scan", "send", "lock", "wait", "relayed", "process", "done", "gone"}
Stages == {"none", "load", "idle", "taken", "run", "callback", "done", "dead"}

(* All but the locks.                                                     *)
StateOK ==
    /\ pc \in [Calls -> Places]
    /\ actor \in [Calls -> 0..MaxActors]
    /\ result \in [Calls -> {"none", "value", "closed"}]
    /\ headers \in [Calls -> SUBSET Calls]
    /\ probe \in 1..(MaxActors + 1)
    /\ size \in 0..MaxActors
    /\ thread \in [Actors -> Stages]
    /\ cur \in [Actors -> Calls \cup {NoCall}]
    /\ busy \in [Actors -> BOOLEAN]
    /\ queue \in [Actors -> Calls \cup {NoCall}]
    /\ callback \in [Actors -> Calls \cup {NoCall}]
    /\ storage \in [Actors -> SUBSET Calls]
    /\ budget \in [Calls -> 0..MaxCallbacks]

(***************************************************************************)
(* The lock of the callback receiver is taken in turn by those who use it: *)
(* a caller is in line, once and at its own actor, exactly while it waits  *)
(* for its result or processes a callback.  So none waits that is not in   *)
(* line, and none that has its result or was dropped keeps the lock.       *)
(***************************************************************************)
LockAccountedFor ==
    \A a \in Actors :
      /\ \A i, j \in DOMAIN lockq[a] : lockq[a][i] = lockq[a][j] => i = j
      /\ {lockq[a][i] : i \in DOMAIN lockq[a]} =
         {k \in Calls : actor[k] = a /\ pc[k] \in {"wait", "process"}}

(***************************************************************************)
(* The type invariant, with the queues of the locks as exact as that.      *)
(***************************************************************************)
TypeOK == StateOK /\ lockq \in [Actors -> Seq(Calls)] /\ LockAccountedFor

Init ==
    /\ pc = [k \in Calls |-> "new"]
    /\ actor = [k \in Calls |-> 0]
    /\ result = [k \in Calls |-> "none"]
    /\ headers = [k \in Calls |-> {}]
    /\ probe = 1
    /\ size = 0
    /\ thread = [a \in Actors |-> "none"]
    /\ cur = [a \in Actors |-> NoCall]
    /\ busy = [a \in Actors |-> FALSE]
    /\ queue = [a \in Actors |-> NoCall]
    /\ callback = [a \in Actors |-> NoCall]
    /\ lockq = [a \in Actors |-> <<>>]
    /\ storage = [a \in Actors |-> {}]
    /\ budget = [k \in Calls |-> MaxCallbacks]

Ended(k) == pc[k] \in {"done", "gone"}
InFlight(k) == pc[k] # "new" /\ ~Ended(k)
Holds(k) == pc[k] = "wait" /\ lockq[actor[k]] # <<>> /\ Head(lockq[actor[k]]) = k

-----------------------------------------------------------------------------
(* The caller                                                              *)

(* A call is made by a request, or by the processing of a callback.        *)
Due(k) == pc[k] = "new" /\ (Parent[k] # NoCall => pc[Parent[k]] = "process")

(* get_executor takes the lock of the pool map...                          *)
get_executor(k) ==
    /\ Due(k)
    /\ \A j \in Calls : pc[j] # "scan"
    /\ pc' = [pc EXCEPT ![k] = "scan"]
    /\ probe' = 1
    /\ UNCHANGED <<actor, result, headers, actors>>

(* ... looks at one actor after the other for one that is not busy ...     *)
is_busy(k) ==
    /\ pc[k] = "scan" /\ probe <= size
    /\ IF busy[probe]
       THEN /\ probe' = probe + 1
            /\ UNCHANGED <<pc, actor>>
       ELSE /\ pc' = [pc EXCEPT ![k] = "send"]
            /\ actor' = [actor EXCEPT ![k] = probe]
            /\ UNCHANGED probe
    /\ UNCHANGED <<result, headers, actors>>

(* ... and else makes a new one, whose thread begins to load the module.   *)
create_actor(k) ==
    /\ pc[k] = "scan" /\ probe > size /\ size < MaxActors
    /\ size' = size + 1
    /\ thread' = [thread EXCEPT ![size + 1] = "load"]
    /\ pc' = [pc EXCEPT ![k] = "send"]
    /\ actor' = [actor EXCEPT ![k] = size + 1]
    /\ UNCHANGED <<result, headers, probe, cur, busy, queue, callback, lockq, storage, budget>>

(* DenoActor::execute sends the call, or finds that the thread has ended.  *)
send_call(k) ==
    /\ pc[k] = "send"
    /\ LET a == actor[k] IN
       \/ /\ thread[a] = "dead"
          /\ pc' = [pc EXCEPT ![k] = "done"]
          /\ result' = [result EXCEPT ![k] = "closed"]
          /\ UNCHANGED queue
       \/ /\ thread[a] # "dead" /\ queue[a] = NoCall
          /\ pc' = [pc EXCEPT ![k] = "lock"]
          /\ queue' = [queue EXCEPT ![a] = k]
          /\ UNCHANGED result
    /\ UNCHANGED <<actor, headers, probe, size, thread, cur, busy, callback, lockq, storage,
                   budget>>

(* Ask for the lock of the callback receiver, which is granted in turn.    *)
lock_receiver(k) ==
    /\ pc[k] \in {"lock", "relayed"}
    /\ lockq' = [lockq EXCEPT ![actor[k]] = Append(@, k)]
    /\ pc' = [pc EXCEPT ![k] = IF @ = "lock" THEN "wait" ELSE "process"]
    /\ UNCHANGED <<actor, result, headers, probe, size, thread, cur, busy, queue, callback,
                   storage, budget>>

(* MUTANT: the guard of the receiver lives across the loop, which asks for *)
(* the lock again.                                                         *)
relay_callback_guarded(k) ==
    /\ Holds(k) /\ callback[actor[k]] # NoCall
    /\ callback' = [callback EXCEPT ![actor[k]] = NoCall]
    /\ pc' = [pc EXCEPT ![k] = "relayed"]
    /\ UNCHANGED <<actor, result, headers, probe, size, thread, cur, busy, queue, lockq, storage,
                   budget>>

(***************************************************************************)
(* The select of DenoActor::execute, first arm: a callback is forwarded to *)
(* the executor of k and the lock is released.  It is asked for again      *)
(* before the executor gets to process the callback.                       *)
(***************************************************************************)
relay_callback(k) ==
    /\ Holds(k) /\ callback[actor[k]] # NoCall
    /\ callback' = [callback EXCEPT ![actor[k]] = NoCall]
    /\ lockq' = [lockq EXCEPT ![actor[k]] = Tail(@)]
    /\ pc' = [pc EXCEPT ![k] = "relayed"]
    /\ UNCHANGED <<actor, result, headers, probe, size, thread, cur, busy, queue, storage, budget>>

(* process_callback ends, after a nested call if it made one, and answers  *)
(* the op that waits in the actor's thread.                                *)
process_callback(k) ==
    /\ pc[k] = "process"
    /\ \A c \in Calls : Parent[c] = k => ~InFlight(c)
    /\ pc' = [pc EXCEPT ![k] = "wait"]
    /\ thread' = [thread EXCEPT ![actor[k]] = "run"]
    /\ UNCHANGED <<actor, result, headers, probe, size, cur, busy, queue, callback, lockq,
                   storage, budget>>

(* MUTANT: the lock is not released when the result is in.                 *)
receive_result_locked(k) ==
    /\ Holds(k) /\ (result[k] # "none" \/ thread[actor[k]] = "dead")
    /\ pc' = [pc EXCEPT ![k] = "done"]
    /\ UNCHANGED <<actor, result, headers, probe, actors>>

(* The other arm: the result, or the end of either channel.                *)
receive_result(k) ==
    /\ Holds(k)
    /\ \/ /\ result[k] # "none"
          /\ UNCHANGED result
       \/ /\ thread[actor[k]] = "dead"
          /\ result' = [result EXCEPT ![k] = "closed"]
    /\ pc' = [pc EXCEPT ![k] = "done"]
    /\ lockq' = [lockq EXCEPT ![actor[k]] = Tail(@)]
    /\ UNCHANGED <<actor, headers, probe, size, thread, cur, busy, queue, callback, storage, budget>>

(* The request's task and everything it is in the midst of.                *)
Task(k) == {c \in Calls : (c = k \/ Parent[c] = k) /\ InFlight(c)}

(* The queue q of a lock when those in S leave it.                         *)
Leave(q, S) ==
    LET left[n \in 0..Len(q)] ==
          IF n = 0 THEN <<>>
          ELSE IF q[n] \in S THEN left[n - 1] ELSE Append(left[n - 1], q[n])
    IN  left[Len(q)]

(* MUTANT: the op is not told that its answer will not come.               *)
disconnect_silent(k) ==
    /\ "disconnect" \in Faults
    /\ Parent[k] = NoCall /\ InFlight(k) /\ \A c \in Task(k) : pc[c] # "scan"
    /\ pc' = [c \in Calls |-> IF c \in Task(k) THEN "gone" ELSE pc[c]]
    /\ lockq' = [a \in Actors |-> Leave(lockq[a], Task(k))]
    /\ UNCHANGED <<actor, result, headers, probe, size, thread, cur, busy, queue, callback, storage, budget>>

(***************************************************************************)
(* The request's task is dropped at an await point: it leaves the locks,   *)
(* and the op whose callback it was processing gets an error for answer.   *)
(***************************************************************************)
disconnect(k) ==
    /\ "disconnect" \in Faults
    /\ Parent[k] = NoCall /\ InFlight(k) /\ \A c \in Task(k) : pc[c] # "scan"
    /\ pc' = [c \in Calls |-> IF c \in Task(k) THEN "gone" ELSE pc[c]]
    /\ lockq' = [a \in Actors |-> Leave(lockq[a], Task(k))]
    /\ thread' = [a \in Actors |->
                    IF \E c \in Task(k) : actor[c] = a /\ pc[c] \in {"relayed", "process"}
                    THEN "run" ELSE thread[a]]
    /\ UNCHANGED <<actor, result, headers, probe, size, cur, busy, queue, callback, storage, budget>>

-----------------------------------------------------------------------------
(* The actor's thread                                                      *)

(* MUTANT: the caller of the dropped call is not told.                     *)
panic_quiet(a) ==
    /\ thread' = [thread EXCEPT ![a] = "dead"]
    /\ queue' = [queue EXCEPT ![a] = NoCall]
    /\ UNCHANGED result

(* The thread panics.  The call waiting in its channel is dropped.         *)
panic(a) ==
    /\ thread' = [thread EXCEPT ![a] = "dead"]
    /\ queue' = [queue EXCEPT ![a] = NoCall]
    /\ result' = [k \in Calls |-> IF queue[a] = k THEN "closed" ELSE result[k]]

(* DenoModule::new.                                                        *)
load_module(a) ==
    /\ thread[a] = "load"
    /\ \/ /\ thread' = [thread EXCEPT ![a] = "idle"]
          /\ UNCHANGED <<queue, result>>
       \/ /\ "load" \in Faults
          /\ panic(a)
    /\ UNCHANGED <<pc, actor, headers, probe, size, cur, busy, callback, lockq, storage, budget>>

receive_call(a) ==
    /\ thread[a] = "idle" /\ queue[a] # NoCall
    /\ thread' = [thread EXCEPT ![a] = "taken"]
    /\ cur' = [cur EXCEPT ![a] = queue[a]]
    /\ queue' = [queue EXCEPT ![a] = NoCall]
    /\ UNCHANGED <<callers, size, busy, callback, lockq, storage, budget>>

(* MUTANT: the headers are read and not taken out.                         *)
take_peek(a) == UNCHANGED storage

(* DenoModule::take of the R.                                              *)
take(a) == storage' = [storage EXCEPT ![a] = {}]

begin_call(a) ==
    /\ thread[a] = "taken"
    /\ thread' = [thread EXCEPT ![a] = "run"]
    /\ busy' = [busy EXCEPT ![a] = TRUE]
    /\ take(a)
    /\ UNCHANGED <<callers, size, cur, queue, callback, lockq, budget>>

add_header(a) ==
    /\ thread[a] = "run" /\ cur[a] \notin storage[a]
    /\ storage' = [storage EXCEPT ![a] = @ \cup {cur[a]}]
    /\ UNCHANGED <<callers, size, thread, cur, busy, queue, callback, lockq, budget>>

(* The function makes a callback (executeQuery, proceed) and awaits it.    *)
op_exograph_execute_query(a) ==
    /\ thread[a] = "run" /\ budget[cur[a]] > 0
    /\ thread' = [thread EXCEPT ![a] = "callback"]
    /\ callback' = [callback EXCEPT ![a] = cur[a]]
    /\ budget' = [budget EXCEPT ![cur[a]] = @ - 1]
    /\ UNCHANGED <<callers, size, cur, busy, queue, lockq, storage>>

(* The function ends.  If its caller is gone the send fails and panics.    *)
send_result(a) ==
    /\ thread[a] = "run"
    /\ take(a)
    /\ \/ /\ pc[cur[a]] # "gone"
          /\ result' = [result EXCEPT ![cur[a]] = "value"]
          /\ headers' = [headers EXCEPT ![cur[a]] = storage[a]]
          /\ thread' = [thread EXCEPT ![a] = "done"]
          /\ UNCHANGED queue
       \/ /\ pc[cur[a]] = "gone"
          /\ panic(a)
          /\ UNCHANGED headers
    /\ UNCHANGED <<pc, actor, probe, size, cur, busy, callback, lockq, budget>>

unmark_busy(a) ==
    /\ thread[a] = "done"
    /\ thread' = [thread EXCEPT ![a] = "idle"]
    /\ busy' = [busy EXCEPT ![a] = FALSE]
    /\ cur' = [cur EXCEPT ![a] = NoCall]
    /\ UNCHANGED <<callers, size, queue, callback, lockq, storage, budget>>

-----------------------------------------------------------------------------
Caller(k) ==
    \/ get_executor(k) \/ is_busy(k) \/ create_actor(k) \/ lock_receiver(k)
    \/ relay_callback(k) \/ process_callback(k) \/ receive_result(k)

Thread(a) ==
    \/ load_module(a) \/ receive_call(a) \/ begin_call(a) \/ add_header(a)
    \/ op_exograph_execute_query(a) \/ send_result(a) \/ unmark_busy(a)

(* Every caller has its result; nested calls need not have been made.      *)
Quiescent ==
    /\ \A k \in Calls : Ended(k) \/ (pc[k] = "new" /\ Parent[k] # NoCall)
    /\ UNCHANGED vars

Next ==
    \/ \E k \in Calls : Caller(k) \/ send_call(k) \/ disconnect(k)
    \/ \E a \in Actors : Thread(a)
    \/ Quiescent

(***************************************************************************)
(* Fairness: the runtime polls tasks that can go on and the threads run.   *)
(* A channel serves its waiting senders in turn, hence SF for send_call.   *)
(* A request need never arrive and a callback need make no nested call, so *)
(* nothing forces get_executor out of "new".                               *)
(***************************************************************************)
Fairness ==
    /\ \A k \in Calls : WF_vars(pc[k] # "new" /\ Caller(k)) /\ SF_vars(send_call(k))
    /\ \A a \in Actors : WF_vars(Thread(a))

Spec == Init /\ [][Next]_vars
FairSpec == Spec /\ Fairness

-----------------------------------------------------------------------------
(* Properties                                                              *)

(***************************************************************************)
(* A call that was sent is never lost: it is in the channel of its actor,  *)
(* or executing, or its result (or the news that there is none) is in.     *)
(***************************************************************************)
CallAccountedFor ==
    \A k \in Calls :
      pc[k] \in {"lock", "wait", "relayed", "process"} =>
        queue[actor[k]] = k \/ cur[actor[k]] = k \/ result[k] # "none"

(***************************************************************************)
(* A function that awaits a callback will be answered: the callback is in  *)
(* the channel, or exactly one caller, which uses this actor, processes it.*)
(***************************************************************************)
CallbackAccountedFor ==
    \A a \in Actors :
      LET processing == {k \in Calls : actor[k] = a /\ pc[k] \in {"relayed", "process"}} IN
      IF thread[a] = "callback" /\ callback[a] = NoCall
      THEN \E k \in Calls : processing = {k}
      ELSE processing = {}

(***************************************************************************)
(* The headers returned with a result were set by the function that was    *)
(* called, not by an earlier one in the same actor (DenoModule::take).     *)
(***************************************************************************)
OwnHeaders == \A k \in Calls : headers[k] \subseteq {k}

(***************************************************************************)
(* Callers that share an actor, wait for its lock, process each other's    *)
(* callbacks and make nested calls never wait for each other in a circle:  *)
(* every call ends.                                                        *)
(***************************************************************************)
EveryCallEnds == \A k \in Calls : InFlight(k) ~> Ended(k)

-----------------------------------------------------------------------------
(* Inductive invariants                                                    *)

(* A caller has an actor of the pool from the end of get_executor on.      *)
Given ==
    /\ \A k \in Calls : actor[k] <= size /\ (actor[k] = 0 <=> pc[k] \in {"new", "scan"})
    /\ \A a \in Actors : thread[a] = "none" <=> a > size

(* What the thread of an actor executes, and whose headers it has stored.  *)
Executing ==
    \A a \in Actors :
      /\ thread[a] \in {"none", "load", "idle"} => cur[a] = NoCall
      /\ thread[a] \in {"taken", "run", "callback", "done"} => cur[a] # NoCall
      /\ storage[a] \subseteq {cur[a]}
      /\ storage[a] # {} => thread[a] \in {"run", "callback"}
      /\ callback[a] # NoCall => thread[a] = "callback"

(* No one's call is forgotten before there is a result.                    *)
Answered == \A a \in Actors : thread[a] = "done" => result[cur[a]] # "none"

(* CallbackAccountedFor, caller by caller.                                 *)
Relays(k) == pc[k] \in {"relayed", "process"}
AnswerDue(a) == thread[a] = "callback" /\ callback[a] = NoCall
Relaying ==
    /\ \A k \in Calls : Relays(k) => AnswerDue(actor[k])
    /\ \A j, k \in Calls : Relays(j) /\ Relays(k) /\ actor[j] = actor[k] => j = k
    /\ \A a \in Actors : AnswerDue(a) => \E k \in Calls : actor[k] = a /\ Relays(k)

PoolInv ==
    /\ StateOK /\ Given /\ Executing /\ Answered /\ Relaying
    /\ OwnHeaders /\ CallAccountedFor
=============================================================================
