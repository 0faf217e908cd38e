---------------------- MODULE RequestTransactionProofs ----------------------
(***************************************************************************)
(* Proofs about RequestTransaction for every set of requests and clients   *)
(* and every bound.  First what holds of connections and transactions;     *)
(* then atomicity: every request other than a bare JavaScript call through *)
(* RPC is atomic, and what the response says of the database is so:        *)
(* success means committed, an error means nothing is, and the server      *)
(* implements AtomicRequests.                                              *)
(***************************************************************************)
EXTENDS RequestTransaction, TLAPS

(* Type correctness of the outcome helpers. *)
LEMMA QueryDoneType ==
    ASSUME TypeOK, NEW r \in Requests, NEW ok \in BOOLEAN, QueryDone(r, ok)
    PROVE  /\ pc' \in [Requests -> Places]
           /\ results' \in [Requests -> SUBSET Outcomes]
           /\ calls' \in [Requests -> 0..MaxCalls]
           /\ steps' \in [Requests -> 0..MaxSteps]
           /\ internal' \in [Requests -> {"no", "now", "failed", "done"}]
<1> USE BoundsAssumption
<1>1. CASE internal[r] = "now"
  BY <1>1 DEF QueryDone, GoOn, TypeOK, Places, Outcomes
<1>2. CASE internal[r] # "now"
  BY <1>2 DEF QueryDone, GoOn, EndOp, TypeOK, Places, Outcomes
<1> QED BY <1>1, <1>2

LEMMA FinalizeType ==
    ASSUME TypeOK, NEW r \in Requests, NEW commit \in BOOLEAN, NEW ok \in BOOLEAN,
           finalize(r, commit, ok), client[r] # NoClient \/ status[r] # "Active"
    PROVE  /\ status' \in [Requests -> {"Idle", "Active", "Finalized"}]
           /\ tx' \in [Clients -> {"none", "open", "aborted", "closed"}]
           /\ pending' \in [Clients -> SUBSET Writes]
           /\ durable' \in SUBSET Writes
<1>1. CASE status[r] # "Active"
  BY <1>1 DEF finalize, TypeOK
<1>2. CASE status[r] = "Active"
  <2>1. client[r] \in Clients
    BY <1>2 DEF TypeOK
  <2>2. pending[client[r]] \subseteq Writes
    BY <2>1 DEF TypeOK
  <2> QED BY <1>2, <2>1, <2>2 DEF finalize, TypeOK
<1> QED BY <1>1, <1>2

(* Every step preserves the types; the only precondition beyond them is    *)
(* that an active holder has a client.                                     *)
LEMMA TypeStep ==
    ASSUME TypeOK, Holding, [Next]_vars
    PROVE  TypeOK'
<1> USE BoundsAssumption
<1>1. CASE UNCHANGED vars
  BY <1>1 DEF TypeOK, vars, request, holder, server
<1>2. ASSUME NEW r \in Requests, Resolve(r)
      PROVE  TypeOK'
  <2>1. ASSUME NEW n \in 0..MaxOps, resolve_operations(r, n) PROVE TypeOK'
    BY <2>1 DEF resolve_operations, TypeOK, Places, server
  <2>2. ASSUME NEW n \in 0..MaxOps, handle_batch(r, n) PROVE TypeOK'
    <3>1. CASE n = 0
      BY <2>2, <3>1 DEF handle_batch, TypeOK, Places, server
    <3>2. CASE n # 0
      <4>1. /\ pc' = [pc EXCEPT ![r] = "ops"]
            /\ left' = [left EXCEPT ![r] = n]
            /\ needs' = [needs EXCEPT ![r] = TRUE]
            /\ UNCHANGED <<entry, results, running, calls, steps, internal, reply,
                           status, client, server>>
        BY <2>2, <3>2 DEF handle_batch
      <4> QED BY <4>1 DEF TypeOK, Places, server
    <3> QED BY <3>1, <3>2
  <2>3. CASE handle_single(r)
    BY <2>3 DEF handle_single, TypeOK, Places, holder, server
  <2>4. CASE resolve_without_database(r)
    BY <2>4 DEF resolve_without_database, TypeOK, Places, holder, server
  <2>5. ASSUME NEW how \in {"postgres", "script", "module"}, resolve_operation(r, how)
        PROVE  TypeOK'
    BY <2>5 DEF resolve_operation, TypeOK, Places, server
  <2>6. CASE return_from_script(r)
    BY <2>6 DEF return_from_script, EndOp, TypeOK, Places, Outcomes, holder, server
  <2>7. ASSUME NEW ensure \in BOOLEAN, extract_context_field(r, ensure) PROVE TypeOK'
    BY <2>7 DEF extract_context_field, TypeOK, Places, server
  <2>8. ASSUME NEW n \in 1..MaxSteps, NEW ensure \in BOOLEAN, execute_query(r, n, ensure)
        PROVE  TypeOK'
    BY <2>8 DEF execute_query, TypeOK, Places, server
  <2> QED BY <1>2, <2>1, <2>2, <2>3, <2>4, <2>5, <2>6, <2>7, <2>8 DEF Resolve
<1>3. ASSUME NEW r \in Requests, Database(r)
      PROVE  TypeOK'
  <2>1. CASE with_tx(r)
    BY <2>1, QueryDoneType DEF with_tx, GoOn, TypeOK, Places, holder, server
  <2>2. CASE get_client_fails(r)
    BY <2>2, QueryDoneType DEF get_client_fails, TypeOK, holder, server
  <2>3. CASE begin_transaction(r)
    <3>1. CASE QueryDone(r, FALSE) /\ UNCHANGED <<tx, status>>
      BY <2>3, <3>1, QueryDoneType DEF begin_transaction, TypeOK
    <3>2. CASE GoOn(r, "step") /\ UNCHANGED <<steps, internal, tx, status>>
      BY <2>3, <3>2 DEF begin_transaction, GoOn, TypeOK, Places
    <3>3. CASE /\ GoOn(r, "step") /\ UNCHANGED <<steps, internal>>
               /\ tx' = [tx EXCEPT ![client[r]] = "open"]
               /\ status' = [status EXCEPT ![r] = "Active"]
      BY <2>3, <3>3 DEF begin_transaction, GoOn, TypeOK, Places
    <3> QED BY <2>3, <3>1, <3>2, <3>3 DEF begin_transaction
  <2>4. CASE execute_step(r)
    <3>1. Write(r, issued[r] + 1) \in Writes
      BY DEF TypeOK, Writes, Write
    <3>2. /\ pending' \in [Clients -> SUBSET Writes]
          /\ durable' \in SUBSET Writes
          /\ issued' \in [Requests -> Nat]
      <4>1. CASE internal[r] = "now"
        BY <2>4, <4>1 DEF execute_step, Perform, TypeOK
      <4>2. CASE internal[r] # "now" /\ tx[client[r]] = "none"
        BY <2>4, <3>1, <4>2 DEF execute_step, Perform, TypeOK
      <4>3. CASE internal[r] # "now" /\ tx[client[r]] # "none"
        BY <2>4, <3>1, <4>3 DEF execute_step, Perform, TypeOK
      <4> QED BY <4>1, <4>2, <4>3
    <3>3. /\ steps' \in [Requests -> 0..MaxSteps]
          /\ pc' \in [Requests -> Places]
      <4>1. steps[r] \in 1..MaxSteps
        BY <2>4 DEF TypeOK, Holding, execute_step
      <4> QED BY <2>4, <4>1 DEF execute_step, TypeOK, Places
    <3> QED BY <2>4, <3>2, <3>3 DEF execute_step, TypeOK, holder
  <2>5. CASE step_fails(r)
    <3>1. Write(r, issued[r] + 1) \in Writes
      BY DEF TypeOK, Writes, Write
    <3>2. /\ tx' \in [Clients -> {"none", "open", "aborted", "closed"}]
          /\ pending' \in [Clients -> SUBSET Writes]
          /\ durable' \in SUBSET Writes
          /\ issued' \in [Requests -> Nat]
      BY <2>5, <3>1 DEF step_fails, TypeOK, server
    <3> QED BY <2>5, <3>2, QueryDoneType DEF step_fails, TypeOK, holder
  <2>6. CASE convert_rows(r)
    BY <2>6, QueryDoneType DEF convert_rows, TypeOK, holder, server
  <2>7. CASE finalize_internal(r)
    BY <2>7 DEF finalize_internal, GoOn, EndOp, TypeOK, Places, Outcomes, holder, server
  <2> QED BY <1>3, <2>1, <2>2, <2>3, <2>4, <2>5, <2>6, <2>7 DEF Database
<1>4. ASSUME NEW r \in Requests, NEW commit \in BOOLEAN, NEW ok \in BOOLEAN,
             NEW a \in SUBSET {"ok", "error"}, Respond(r, commit, ok, a), pc[r] = "ops"
      PROVE  TypeOK'
  <2>1. client[r] # NoClient \/ status[r] # "Active"
    BY <1>4 DEF Holding
  <2> QED BY <1>4, <2>1, FinalizeType DEF Respond, TypeOK, Places
<1>5. ASSUME NEW r \in Requests, Release(r)
      PROVE  TypeOK'
  BY <1>5 DEF Release, TypeOK, Places
<1>6. ASSUME NEW r \in Requests, Finish(r)
      PROVE  TypeOK'
  <2>1. CASE finish_graphql(r)
    BY <2>1, <1>4 DEF finish_graphql, Resolved
  <2>2. CASE finish_single(r)
    BY <2>2, <1>4 DEF finish_single, Resolved
  <2>3. CASE finish_batch(r)
    <3>1. results[r] \subseteq {"ok"} => results[r] \in SUBSET {"ok", "error"}
      OBVIOUS
    <3> QED BY <2>3, <3>1, <1>4 DEF finish_batch, Resolved
  <2>4. CASE drop(r)
    BY <2>4, <1>5 DEF drop
  <2> QED BY <1>6, <2>1, <2>2, <2>3, <2>4 DEF Finish
<1>7. ASSUME NEW r \in Requests, NEW c \in Clients, get_client(r, c)
      PROVE  TypeOK'
  BY <1>7 DEF get_client, TypeOK, Places
<1> QED
  BY <1>1, <1>2, <1>3, <1>5, <1>6, <1>7 DEF Next, Step, disconnect, Quiescent

-----------------------------------------------------------------------------
(***************************************************************************)
(* Isolation.  A pooled connection whose request was dropped half way is   *)
(* the one way to lose it.                                                 *)
(***************************************************************************)
NoOrphans == ~(Pooled /\ "disconnect" \in Faults)

(* Where a finished query may take its request.                            *)
LEMMA QueryDoneGoes ==
    ASSUME TypeOK, NEW r \in Requests, NEW ok \in BOOLEAN, QueryDone(r, ok)
    PROVE  /\ pc'[r] \in {"ops", "op", "internal"}
           /\ \A q \in Requests \ {r} : pc'[q] = pc[q] /\ steps'[q] = steps[q]
BY DEF QueryDone, GoOn, EndOp, TypeOK

(* Steps of r that leave the holder and the sessions alone.                *)
LEMMA QuietStep ==
    ASSUME SessionInv, TypeOK', NEW r \in Requests,
           UNCHANGED <<status, client, tx, pending>>,
           \A q \in Requests \ {r} : pc'[q] = pc[q] /\ steps'[q] = steps[q],
           pc[r] \notin {"drop", "gone"},
           pc'[r] \notin {"new", "gone"},
           pc'[r] \in {"with_tx", "begin", "step"} => steps'[r] > 0,
           pc'[r] \in {"begin", "step", "convert"} => client[r] # NoClient,
           pc'[r] = "drop" => client[r] = NoClient
    PROVE  SessionInv'
<1>1. ExclusiveClient' /\ Settled' /\ Isolation'
  BY DEF SessionInv, ExclusiveClient, Settled, Isolation, Free
<1>2. Holding'
  BY DEF SessionInv, Holding
<1>3. HolderKnows'
  BY DEF SessionInv, HolderKnows, Holding
<1> QED BY <1>1, <1>2, <1>3 DEF SessionInv

LEMMA SessionResolve ==
    ASSUME SessionInv, TypeOK', NEW r \in Requests, Resolve(r)
    PROVE  SessionInv'
<1> USE DEF server, holder
<1>0. TypeOK /\ (pc[r] = "new" => client[r] = NoClient)
  BY DEF SessionInv, Holding
<1>1. ASSUME NEW n \in 0..MaxOps, resolve_operations(r, n) PROVE SessionInv'
  BY <1>0, <1>1, QuietStep DEF resolve_operations, TypeOK
<1>2. ASSUME NEW n \in 0..MaxOps, handle_batch(r, n) PROVE SessionInv'
  BY <1>0, <1>2, QuietStep DEF handle_batch, TypeOK
<1>3. CASE handle_single(r)
  BY <1>0, <1>3, QuietStep DEF handle_single, TypeOK
<1>4. CASE resolve_without_database(r)
  BY <1>0, <1>4, QuietStep DEF resolve_without_database, TypeOK
<1>5. ASSUME NEW how \in {"postgres", "script", "module"}, resolve_operation(r, how)
      PROVE  SessionInv'
  BY <1>0, <1>5, QuietStep DEF resolve_operation, TypeOK
<1>6. CASE return_from_script(r)
  BY <1>0, <1>6, QuietStep DEF return_from_script, EndOp, TypeOK
<1>7. ASSUME NEW ensure \in BOOLEAN, extract_context_field(r, ensure) PROVE SessionInv'
  BY <1>0, <1>7, QuietStep DEF extract_context_field, TypeOK
<1>8. ASSUME NEW n \in 1..MaxSteps, NEW ensure \in BOOLEAN, execute_query(r, n, ensure)
      PROVE  SessionInv'
  BY <1>0, <1>8, QuietStep, BoundsAssumption DEF execute_query, TypeOK
<1> QED BY Resolve(r), <1>1, <1>2, <1>3, <1>4, <1>5, <1>6, <1>7, <1>8 DEF Resolve

(***************************************************************************)
(* Steps of r on the session of its own client c: the other sessions and   *)
(* holders stay, the new writes are its own, and c is inside a transaction *)
(* only if r is active and unanswered.                                     *)
(***************************************************************************)
LEMMA OwnSession ==
    ASSUME SessionInv, TypeOK', NEW r \in Requests, NEW c \in Clients,
           client[r] = c, client' = client,
           Holding',
           \A d \in Clients \ {c} : tx'[d] = tx[d] /\ pending'[d] = pending[d],
           \A q \in Requests \ {r} : status'[q] = status[q] /\ pc'[q] = pc[q],
           \A w \in pending'[c] : w \in pending[c] \/ w[1] = r,
           tx'[c] \notin InTx => pending'[c] = {},
           status'[r] # "Active" \/ pc'[r] = "drop" => tx'[c] \notin InTx
    PROVE  SessionInv'
<1>1. ExclusiveClient'
  BY DEF SessionInv, ExclusiveClient
<1>2. ~Free(c)
  BY DEF Free
<1>3. \A q \in Requests \ {r} : client[q] # c
  BY NoClientAssumption DEF SessionInv, ExclusiveClient
<1>4. HolderKnows'
  <2>1. ASSUME NEW q \in Requests, client'[q] # NoClient,
               status'[q] # "Active" \/ pc'[q] = "drop"
        PROVE  tx'[client'[q]] \notin InTx
    <3>1. CASE q = r
      BY <2>1, <3>1
    <3>2. CASE q # r
      <4>1. client[q] \in Clients \ {c}
        BY <2>1, <3>2, <1>3 DEF SessionInv, TypeOK
      <4> QED BY <2>1, <3>2, <4>1 DEF SessionInv, HolderKnows
    <3> QED BY <3>1, <3>2
  <2> QED BY <2>1 DEF HolderKnows
<1>5. Settled'
  BY DEF SessionInv, Settled
<1>6. Isolation'
  <2>1. \A d \in Clients : Free(d)' <=> Free(d)
    BY DEF Free
  <2> QED BY <1>2, <2>1 DEF SessionInv, Isolation, InTx, TypeOK
<1> QED BY <1>1, <1>4, <1>5, <1>6 DEF SessionInv

LEMMA SessionDatabase ==
    ASSUME SessionInv, TypeOK', NEW r \in Requests, Database(r)
    PROVE  SessionInv'
<1> USE DEF server, holder
<1>0. TypeOK
  BY DEF SessionInv
<1>1. CASE with_tx(r)
  <2>1. CASE QueryDone(r, FALSE)
    BY <1>0, <1>1, <2>1, QuietStep, QueryDoneGoes DEF with_tx
  <2>2. CASE /\ client[r] # NoClient /\ GoOn(r, "begin")
             /\ UNCHANGED <<steps, internal>>
    <3>1. steps[r] > 0
      BY <1>1 DEF with_tx, SessionInv, Holding
    <3> QED BY <1>0, <1>1, <2>2, <3>1, QuietStep DEF with_tx, GoOn, TypeOK
  <2> QED BY <1>1, <2>1, <2>2 DEF with_tx
<1>2. CASE get_client_fails(r)
  BY <1>0, <1>2, QuietStep, QueryDoneGoes DEF get_client_fails
<1>3. CASE begin_transaction(r)
  <2>1. client[r] \in Clients /\ steps[r] > 0
    BY <1>0, <1>3 DEF begin_transaction, SessionInv, Holding, TypeOK
  <2>2. CASE QueryDone(r, FALSE) /\ UNCHANGED <<tx, status>>
    BY <1>0, <1>3, <2>2, QuietStep, QueryDoneGoes DEF begin_transaction
  <2>3. CASE GoOn(r, "step") /\ UNCHANGED <<steps, internal, tx, status>>
    BY <1>0, <1>3, <2>1, <2>3, QuietStep, NoClientAssumption
       DEF begin_transaction, GoOn, TypeOK
  <2>4. CASE /\ GoOn(r, "step") /\ UNCHANGED <<steps, internal>>
             /\ tx' = [tx EXCEPT ![client[r]] = "open"]
             /\ status' = [status EXCEPT ![r] = "Active"]
    <3>1. client' = client /\ pending' = pending
      BY <1>3 DEF begin_transaction
    <3>2. Holding'
      BY <1>0, <2>1, <2>4, <3>1, NoClientAssumption DEF SessionInv, Holding, GoOn, TypeOK
    <3>3. tx'[client[r]] = "open" /\ status'[r] = "Active" /\ pc'[r] = "step"
      BY <1>0, <2>1, <2>4 DEF GoOn, TypeOK
    <3>4. \A q \in Requests \ {r} : status'[q] = status[q] /\ pc'[q] = pc[q]
      BY <1>0, <2>4 DEF GoOn, TypeOK
    <3>5. \A d \in Clients \ {client[r]} : tx'[d] = tx[d]
      BY <1>0, <2>4 DEF TypeOK
    <3> QED BY <2>1, <3>1, <3>2, <3>3, <3>4, <3>5, OwnSession DEF InTx
  <2> QED BY <1>3, <2>2, <2>3, <2>4 DEF begin_transaction
<1>4. CASE execute_step(r)
  <2>1. client[r] \in Clients /\ steps[r] \in Nat \ {0}
    BY <1>0, <1>4, BoundsAssumption DEF execute_step, SessionInv, Holding, TypeOK
  <2>2. /\ client' = client /\ tx' = tx /\ status' = status
        /\ \A q \in Requests \ {r} : pc'[q] = pc[q] /\ steps'[q] = steps[q]
        /\ pc'[r] \in {"convert", "step"} /\ (pc'[r] = "step" => steps'[r] > 0)
    BY <1>0, <1>4, <2>1 DEF execute_step, TypeOK
  <2>3. Holding'
    BY <1>4, <2>1, <2>2, NoClientAssumption DEF SessionInv, Holding, execute_step
  <2>4. /\ \A d \in Clients \ {client[r]} : pending'[d] = pending[d]
        /\ \A w \in pending'[client[r]] : w \in pending[client[r]] \/ w[1] = r
        /\ tx[client[r]] \notin InTx => pending'[client[r]] = pending[client[r]]
    <3>1. Write(r, issued[r] + 1)[1] = r
      BY DEF Write
    <3>2. \/ UNCHANGED pending
          \/ /\ pending' = [pending EXCEPT ![client[r]] = @ \cup {Write(r, issued[r] + 1)}]
             /\ tx[client[r]] \in InTx
      BY <1>4 DEF execute_step, Perform, InTx
    <3> QED BY <1>0, <2>1, <3>1, <3>2 DEF TypeOK
  <2>5. /\ tx[client[r]] \notin InTx => pending[client[r]] = {}
        /\ status[r] # "Active" => tx[client[r]] \notin InTx
    BY <2>1, NoClientAssumption DEF SessionInv, Settled, HolderKnows
  <2> QED BY <2>1, <2>2, <2>3, <2>4, <2>5, OwnSession
<1>5. CASE step_fails(r)
  <2>1. client[r] \in Clients
    BY <1>0, <1>5 DEF step_fails, SessionInv, Holding, TypeOK
  <2>2. /\ pc'[r] \in {"ops", "op", "internal"}
        /\ client' = client /\ status' = status
        /\ \A q \in Requests \ {r} : pc'[q] = pc[q] /\ steps'[q] = steps[q]
    BY <1>0, <1>5, QueryDoneGoes DEF step_fails
  <2>3. Holding'
    BY <1>5, <2>1, <2>2, NoClientAssumption DEF SessionInv, Holding, step_fails
  <2>4. /\ \A d \in Clients \ {client[r]} : tx'[d] = tx[d] /\ pending'[d] = pending[d]
        /\ \/ /\ tx'[client[r]] \in InTx <=> tx[client[r]] \in InTx
              /\ pending' = pending
           \/ tx'[client[r]] \notin InTx /\ pending'[client[r]] = {}
    BY <1>0, <1>5, <2>1 DEF step_fails, InTx, TypeOK
  <2>5. /\ tx[client[r]] \notin InTx => pending[client[r]] = {}
        /\ status[r] # "Active" => tx[client[r]] \notin InTx
    BY <2>1, NoClientAssumption DEF SessionInv, Settled, HolderKnows
  <2> QED BY <2>1, <2>2, <2>3, <2>4, <2>5, OwnSession
<1>6. CASE convert_rows(r)
  BY <1>0, <1>6, QuietStep, QueryDoneGoes DEF convert_rows
<1>7. CASE finalize_internal(r)
  BY <1>0, <1>7, QuietStep DEF finalize_internal, GoOn, EndOp, TypeOK
<1> QED BY Database(r), <1>1, <1>2, <1>3, <1>4, <1>5, <1>6, <1>7 DEF Database

LEMMA SessionClient ==
    ASSUME SessionInv, TypeOK', NEW r \in Requests, NEW c \in Clients, get_client(r, c)
    PROVE  SessionInv'
<1>0. TypeOK /\ status[r] # "Active" /\ tx[c] \notin InTx /\ pending[c] = {}
  BY DEF SessionInv, Holding, Isolation, Settled, get_client, InTx
<1>1. /\ client' = [client EXCEPT ![r] = c] /\ status' = status /\ pending' = pending
      /\ pc' = [pc EXCEPT ![r] = "begin"] /\ steps' = steps
      /\ \A d \in Clients \ {c} : tx'[d] = tx[d]
      /\ tx'[c] \notin InTx
      /\ \A q \in Requests : client[q] # c
  BY <1>0 DEF get_client, Free, TypeOK, InTx
<1>2. client[r] = NoClient /\ pc[r] = "with_tx"
  BY DEF get_client
<1>3. ExclusiveClient'
  BY <1>0, <1>1 DEF SessionInv, ExclusiveClient, TypeOK
<1>4. Holding'
  BY <1>0, <1>1, <1>2, NoClientAssumption DEF SessionInv, Holding, TypeOK
<1>5. HolderKnows'
  <2>1. ASSUME NEW q \in Requests, q # r, client'[q] # NoClient
        PROVE  /\ client'[q] = client[q] /\ pc'[q] = pc[q]
               /\ tx'[client[q]] = tx[client[q]]
    BY <2>1, <1>0, <1>1 DEF TypeOK
  <2>2. client'[r] = c
    BY <1>0, <1>1 DEF TypeOK
  <2> QED BY <1>1, <2>1, <2>2 DEF SessionInv, HolderKnows
<1>6. Settled'
  BY <1>0, <1>1 DEF SessionInv, Settled
<1>7. Isolation'
  <2>1. ASSUME NEW d \in Clients, NEW w \in pending'[d] PROVE client'[w[1]] = d
    <3>1. d # c /\ client[w[1]] = d /\ w[1] \in Requests
      BY <2>1, <1>0, <1>1 DEF SessionInv, Isolation, TypeOK, Writes
    <3>2. w[1] # r
      BY <3>1, <1>2, NoClientAssumption
    <3> QED BY <1>0, <1>1, <3>1, <3>2 DEF TypeOK
  <2>2. ASSUME NEW d \in Clients, Free(d)' PROVE tx'[d] \in {"none", "closed"}
    <3>1. client'[r] = c /\ \A q \in Requests \ {r} : client'[q] = client[q]
      BY <1>0, <1>1 DEF TypeOK
    <3>2. d # c /\ Free(d)
      BY <2>2, <3>1, <1>2, NoClientAssumption DEF Free
    <3> QED BY <1>1, <3>2 DEF SessionInv, Isolation
  <2> QED BY <2>1, <2>2 DEF Isolation
<1> QED BY <1>3, <1>4, <1>5, <1>6, <1>7 DEF SessionInv

LEMMA SessionRespond ==
    ASSUME SessionInv, TypeOK', NEW r \in Requests, NEW commit \in BOOLEAN,
           NEW ok \in BOOLEAN, NEW a, Respond(r, commit, ok, a), pc[r] = "ops"
    PROVE  SessionInv'
<1>0. TypeOK
  BY DEF SessionInv
<1>1. /\ client' = client /\ steps' = steps /\ pc'[r] = "drop"
      /\ \A q \in Requests \ {r} : status'[q] = status[q] /\ pc'[q] = pc[q]
  BY <1>0 DEF Respond, finalize, TypeOK
<1>2. Holding'
  <2>1. status[r] # "Active" => status'[r] # "Active"
    BY <1>0 DEF Respond, finalize, TypeOK
  <2> QED BY <1>1, <2>1 DEF SessionInv, Holding
<1>3. CASE status[r] # "Active"
  <2>1. tx' = tx /\ pending' = pending /\ status'[r] = "Finalized"
    BY <1>0, <1>3 DEF Respond, finalize, TypeOK
  <2>2. CASE client[r] = NoClient
    <3>1. ExclusiveClient' /\ Settled' /\ Isolation'
      BY <1>1, <2>1 DEF SessionInv, ExclusiveClient, Settled, Isolation, Free
    <3>2. HolderKnows'
      BY <1>1, <2>1, <2>2 DEF SessionInv, HolderKnows
    <3> QED BY <1>2, <3>1, <3>2 DEF SessionInv
  <2>3. CASE client[r] # NoClient
    <3>1. client[r] \in Clients
      BY <1>0, <2>3 DEF TypeOK
    <3>2. tx[client[r]] \notin InTx /\ pending[client[r]] = {}
      BY <1>3, <2>3, <3>1 DEF SessionInv, HolderKnows, Settled
    <3> QED BY <1>1, <1>2, <2>1, <3>1, <3>2, OwnSession
  <2> QED BY <2>2, <2>3
<1>4. CASE status[r] = "Active"
  <2>1. client[r] \in Clients
    BY <1>0, <1>4 DEF SessionInv, Holding, TypeOK
  <2>2. tx[client[r]] = "closed" => pending[client[r]] = {}
    BY <2>1 DEF SessionInv, Settled, InTx
  <2>3. /\ \A d \in Clients \ {client[r]} : tx'[d] = tx[d] /\ pending'[d] = pending[d]
        /\ tx'[client[r]] \notin InTx /\ pending'[client[r]] = {}
    BY <1>0, <1>4, <2>1, <2>2 DEF Respond, finalize, TypeOK, InTx
  <2> QED BY <1>1, <1>2, <2>1, <2>3, OwnSession
<1> QED BY <1>3, <1>4

(* The client goes back clean: closed with the connection, or finalized.   *)
LEMMA SessionRelease ==
    ASSUME SessionInv, TypeOK', NEW r \in Requests, Release(r),
           Pooled => pc[r] = "drop"
    PROVE  SessionInv'
<1>0. TypeOK
  BY DEF SessionInv
<1>1. /\ client' = [client EXCEPT ![r] = NoClient] /\ status' = status
      /\ pc' = [pc EXCEPT ![r] = "gone"]
      /\ steps' = [steps EXCEPT ![r] = 0]
      /\ \A q \in Requests \ {r} : client'[q] = client[q]
      /\ client'[r] = NoClient
  BY <1>0 DEF Release, TypeOK
<1>2. /\ \A d \in Clients \ {client[r]} : tx'[d] = tx[d] /\ pending'[d] = pending[d]
      /\ client[r] \in Clients => tx'[client[r]] \notin InTx /\ pending'[client[r]] = {}
  <2>1. CASE client[r] = NoClient
    BY <2>1, <1>0, NoClientAssumption DEF Release
  <2>2. CASE client[r] # NoClient /\ ~Pooled
    BY <2>2, <1>0 DEF Release, TypeOK, InTx
  <2>3. CASE client[r] # NoClient /\ Pooled
    <3>1. client[r] \in Clients /\ tx[client[r]] \notin InTx /\ pending[client[r]] = {}
      BY <2>3, <1>0 DEF SessionInv, HolderKnows, Settled, TypeOK
    <3> QED BY <2>3, <3>1 DEF Release
  <2> QED BY <2>1, <2>2, <2>3
<1>3. ExclusiveClient'
  BY <1>0, <1>1 DEF SessionInv, ExclusiveClient, TypeOK
<1>4. Holding'
  BY <1>0, <1>1 DEF SessionInv, Holding, TypeOK
<1>5. Settled'
  BY <1>2 DEF SessionInv, Settled
<1>6. HolderKnows'
  <2>1. ASSUME NEW q \in Requests, client'[q] # NoClient,
               status'[q] # "Active" \/ pc'[q] = "drop"
        PROVE  tx'[client'[q]] \notin InTx
    <3>1. q # r /\ client'[q] = client[q] /\ client[q] \in Clients /\ pc'[q] = pc[q]
      BY <2>1, <1>0, <1>1 DEF TypeOK
    <3>2. client[q] # client[r]
      BY <2>1, <3>1 DEF SessionInv, ExclusiveClient
    <3> QED BY <2>1, <1>1, <1>2, <3>1, <3>2 DEF SessionInv, HolderKnows
  <2> QED BY <2>1 DEF HolderKnows
<1>7. Isolation'
  <2>1. ASSUME NEW d \in Clients, NEW w \in pending'[d] PROVE client'[w[1]] = d
    <3>1. d # client[r] /\ client[w[1]] = d /\ w[1] \in Requests
      BY <2>1, <1>0, <1>2 DEF SessionInv, Isolation, TypeOK, Writes
    <3> QED BY <1>1, <3>1
  <2>2. ASSUME NEW d \in Clients, Free(d)' PROVE tx'[d] \in {"none", "closed"}
    <3>1. CASE d = client[r]
      BY <3>1, <1>2 DEF TypeOK, InTx
    <3>2. CASE d # client[r]
      <4>1. Free(d)
        BY <2>2, <3>2, <1>1 DEF Free
      <4> QED BY <1>2, <3>2, <4>1 DEF SessionInv, Isolation
    <3> QED BY <3>1, <3>2
  <2> QED BY <2>1, <2>2 DEF Isolation
<1> QED BY <1>3, <1>4, <1>5, <1>6, <1>7 DEF SessionInv

LEMMA SessionInit ==
    ASSUME Init
    PROVE  SessionInv
<1>1. TypeOK
  <2>1. entry \in [Requests -> AllEntries]
    BY EntriesAssumption DEF Init
  <2>2. /\ left \in [Requests -> 0..MaxOps]
        /\ calls \in [Requests -> 0..MaxCalls]
        /\ steps \in [Requests -> 0..MaxSteps]
        /\ issued \in [Requests -> Nat]
    BY BoundsAssumption DEF Init
  <2>3. /\ results \in [Requests -> SUBSET Outcomes]
        /\ reply \in [Requests -> SUBSET {"ok", "error"}]
        /\ pending \in [Clients -> SUBSET Writes]
        /\ durable \in SUBSET Writes
    BY DEF Init
  <2> QED BY <2>1, <2>2, <2>3 DEF Init, TypeOK, Places
<1>2. ExclusiveClient /\ Holding /\ HolderKnows
  BY DEF Init, ExclusiveClient, Holding, HolderKnows
<1>3. Settled /\ Isolation
  BY DEF Init, Settled, Isolation
<1> QED BY <1>1, <1>2, <1>3 DEF SessionInv

LEMMA SessionStep ==
    ASSUME NoOrphans, SessionInv, [Next]_vars
    PROVE  SessionInv'
<1>0. TypeOK'
  BY TypeStep DEF SessionInv
<1>1. CASE UNCHANGED vars
  BY <1>1 DEF SessionInv, TypeOK, ExclusiveClient, Holding, HolderKnows, Settled,
              Isolation, Free, vars, request, holder, server
<1>2. ASSUME NEW r \in Requests, Finish(r)
      PROVE  SessionInv'
  <2>1. CASE finish_graphql(r)
    BY <1>0, <2>1, SessionRespond DEF finish_graphql, Resolved
  <2>2. CASE finish_single(r)
    BY <1>0, <2>2, SessionRespond DEF finish_single, Resolved
  <2>3. CASE finish_batch(r)
    BY <1>0, <2>3, SessionRespond DEF finish_batch, Resolved
  <2>4. CASE drop(r)
    BY <1>0, <2>4, SessionRelease DEF drop
  <2> QED BY <1>2, <2>1, <2>2, <2>3, <2>4 DEF Finish
<1>3. ASSUME NEW r \in Requests, disconnect(r)
      PROVE  SessionInv'
  BY <1>0, <1>3, SessionRelease DEF disconnect, NoOrphans
<1> QED
  BY <1>0, <1>1, <1>2, <1>3, SessionResolve, SessionDatabase, SessionClient
     DEF Next, Step, Quiescent

(***************************************************************************)
(* Type correctness of the specification, where no connection is orphaned. *)
(* The invariant behind it ties each session to the one holder that may    *)
(* decide over it.                                                         *)
(***************************************************************************)
THEOREM TypeCorrect ==
    ASSUME NoOrphans
    PROVE  Spec => []TypeOK
<1>1. Init => SessionInv
  BY SessionInit
<1>2. SessionInv /\ [Next]_vars => SessionInv'
  BY SessionStep
<1>3. SessionInv => TypeOK
  BY DEF SessionInv
<1> QED BY <1>1, <1>2, <1>3, PTL DEF Spec

(***************************************************************************)
(* Isolation, for any number of requests and clients and any other faults: *)
(* unless pooled connections are orphaned by dropped requests, no request  *)
(* commits or rolls back the writes of another, and every client a request *)
(* receives is outside a transaction.                                      *)
(***************************************************************************)
THEOREM IsolationHolds ==
    ASSUME NoOrphans
    PROVE  Spec => []Isolation
<1>1. Init => SessionInv
  BY SessionInit
<1>2. SessionInv /\ [Next]_vars => SessionInv'
  BY SessionStep
<1>3. SessionInv => Isolation
  BY DEF SessionInv
<1> QED BY <1>1, <1>2, <1>3, PTL DEF Spec

(***************************************************************************)
(* The internal requests made for context fields never spend the holder:   *)
(* while a request still has queries to send, its holder is not finalized. *)
(***************************************************************************)
THEOREM NeverSpentHolds ==
    ASSUME NoOrphans
    PROVE  Spec => []NeverSpent
<1>1. Init => SessionInv
  BY SessionInit
<1>2. SessionInv /\ [Next]_vars => SessionInv'
  BY SessionStep
<1>3. SessionInv => NeverSpent
  BY DEF SessionInv, Holding, NeverSpent
<1> QED BY <1>1, <1>2, <1>3, PTL DEF Spec

-----------------------------------------------------------------------------
(* Atomicity                                                               *)

(* A request that has written nothing has nothing to show.                 *)
LEMMA IssuedNothing ==
    ASSUME NEW r \in Requests, issued[r] = 0
    PROVE  IssuedBy(r) = {}
BY DEF IssuedBy

(* One more write of r.                                                    *)
LEMMA IssuedOneMore ==
    ASSUME TypeOK, NEW r \in Requests, issued' = [issued EXCEPT ![r] = @ + 1]
    PROVE  /\ IssuedBy(r)' = IssuedBy(r) \cup {Write(r, issued[r] + 1)}
           /\ \A q \in Requests \ {r} : IssuedBy(q)' = IssuedBy(q)
<1>1. issued[r] \in Nat /\ issued'[r] = issued[r] + 1
  BY DEF TypeOK
<1>2. 1..(issued[r] + 1) = (1..issued[r]) \cup {issued[r] + 1}
  BY <1>1
<1>3. IssuedBy(r)' = {Write(r, n) : n \in 1..(issued[r] + 1)}
  BY <1>1 DEF IssuedBy, Write
<1>4. \A q \in Requests \ {r} : issued'[q] = issued[q]
  BY DEF TypeOK
<1> QED BY <1>2, <1>3, <1>4 DEF IssuedBy, Write

(* What a step leaves alone at a request.                                  *)
Untouched(q) ==
    /\ pc'[q] = pc[q] /\ entry'[q] = entry[q] /\ left'[q] = left[q]
    /\ running'[q] = running[q] /\ steps'[q] = steps[q] /\ internal'[q] = internal[q]
    /\ needs'[q] = needs[q] /\ status'[q] = status[q] /\ issued'[q] = issued[q]

(* The other requests are not affected by a step of r.                     *)
LEMMA Frame ==
    ASSUME SessionInv, NEW q \in Requests, RequestInv(q), Untouched(q),
           client'[q] = client[q],
           client[q] # NoClient =>
             /\ tx'[client[q]] = tx[client[q]]
             /\ pending'[client[q]] = pending[client[q]],
           DurableOf(q)' = DurableOf(q)
    PROVE  RequestInv(q)'
<1>1. IssuedBy(q)' = IssuedBy(q) /\ (Bare(q)' <=> Bare(q))
  BY DEF Untouched, IssuedBy, Write, Bare
<1>2. SingleOperation(q)' /\ OneStatement(q)'
  BY <1>1 DEF RequestInv, SingleOperation, OneStatement, Untouched
<1>3. PendingIsAll(q)'
  <2>1. CASE client[q] = NoClient
    <3>1. ~(status[q] = "Active" /\ pc[q] \notin {"drop", "gone"})
      BY <2>1 DEF SessionInv, Holding
    <3> QED BY <2>1, <3>1 DEF PendingIsAll, Untouched
  <2>2. CASE client[q] # NoClient
    BY <2>2, <1>1 DEF RequestInv, PendingIsAll, Untouched
  <2> QED BY <2>1, <2>2
<1>4. NothingEarly(q)'
  BY <1>1 DEF RequestInv, NothingEarly, Untouched
<1> QED BY <1>1, <1>2, <1>3, <1>4 DEF RequestInv

(***************************************************************************)
(* A step of r in the router or the resolvers: holder and server stay, but *)
(* the flag may be raised.                                                 *)
(***************************************************************************)
LEMMA ResolverStep ==
    ASSUME SessionInv, NEW r \in Requests, RequestInv(r),
           UNCHANGED <<status, client, server>>,
           Bare(r) => Bare(r)',
           needs[r] => needs'[r],
           needs'[r] \in BOOLEAN,
           SingleOperation(r)',
           pc[r] \notin {"step", "convert", "drop", "gone"},
           pc'[r] \notin {"step", "convert", "gone"},
           pc[r] = "ops" => left[r] > 0
    PROVE  RequestInv(r)'
<1>0. TypeOK /\ status[r] # "Finalized" /\ needs[r] \in BOOLEAN
  BY DEF SessionInv, Holding, TypeOK
<1>1. /\ IssuedBy(r)' = IssuedBy(r) /\ DurableOf(r)' = DurableOf(r)
      /\ issued' = issued
  BY DEF IssuedBy, DurableOf, Write, server
<1>2. ~Bare(r) => DurableOf(r) \in {{}, IssuedBy(r)}
  BY DEF RequestInv
<1>3. OneStatement(r)'
  BY <1>1 DEF RequestInv, OneStatement
<1>4. PendingIsAll(r)'
  BY <1>1 DEF RequestInv, PendingIsAll, server
<1>5. NothingEarly(r)'
  <2>1. CASE needs[r] \/ status[r] = "Active" \/ needs'[r] = needs[r]
    BY <2>1, <1>0, <1>1 DEF RequestInv, NothingEarly
  <2>2. CASE ~needs[r] /\ status[r] = "Idle" /\ needs'[r] # needs[r]
    <3>1. ~Bare(r) => issued[r] = 0
      BY <2>2 DEF RequestInv, OneStatement
    <3> QED BY <1>1, <1>2, <3>1, IssuedNothing DEF NothingEarly
  <2> QED BY <1>0, <2>1, <2>2 DEF TypeOK
<1> QED BY <1>1, <1>2, <1>3, <1>4, <1>5 DEF RequestInv

LEMMA AtomicResolve ==
    ASSUME SessionInv, NEW r \in Requests, RequestInv(r), Resolve(r)
    PROVE  RequestInv(r)'
<1> USE DEF server, holder
<1>0. TypeOK
  BY DEF SessionInv
<1>1. ASSUME NEW n \in 0..MaxOps, resolve_operations(r, n) PROVE RequestInv(r)'
  <2>1. /\ pc[r] = "new" /\ pc'[r] = "ops" /\ left'[r] = n /\ needs'[r] = (n > 1)
        /\ entry'[r] = entry[r] /\ running'[r] = running[r] /\ entry[r] = "graphql"
        /\ UNCHANGED <<status, client, server>> /\ needs'[r] \in BOOLEAN
    BY <1>0, <1>1 DEF resolve_operations, TypeOK
  <2>2. ~needs'[r] => n <= 1
    <3>1. ~(n > 1) => n <= 1
      BY BoundsAssumption
    <3> QED BY <2>1, <3>1, Zenon
  <2>3. ~Bare(r) /\ ~Bare(r)' /\ ~needs[r]
    BY <2>1 DEF Bare, RequestInv, SingleOperation
  <2>4. SingleOperation(r)'
    BY <2>1, <2>2, <2>3 DEF SingleOperation, Working
  <2> QED BY <2>1, <2>3, <2>4, ResolverStep
<1>2. ASSUME NEW n \in 0..MaxOps, handle_batch(r, n) PROVE RequestInv(r)'
  <2>1. /\ pc[r] = "new" /\ entry[r] = "batch"
        /\ (pc'[r] = "drop" /\ needs'[r] = needs[r]) \/ (pc'[r] = "ops" /\ needs'[r])
        /\ entry'[r] = entry[r] /\ running'[r] = running[r]
        /\ UNCHANGED <<status, client, server>> /\ needs'[r] \in BOOLEAN
    BY <1>0, <1>2 DEF handle_batch, TypeOK
  <2>2. ~Bare(r) /\ ~Bare(r)'
    BY <2>1 DEF Bare
  <2>3. SingleOperation(r)'
    BY <2>1, <2>2 DEF SingleOperation, Working
  <2> QED BY <2>1, <2>2, <2>3, ResolverStep
<1>3. CASE handle_single(r)
  <2>1. /\ pc[r] = "new" /\ entry[r] = "rpc"
        /\ pc'[r] = "drop" \/ (pc'[r] = "ops" /\ left'[r] = 1)
        /\ entry'[r] = entry[r] /\ running'[r] = running[r] /\ needs' = needs
        /\ UNCHANGED <<status, client, server>> /\ needs'[r] \in BOOLEAN
    BY <1>0, <1>3 DEF handle_single, TypeOK
  <2>2. ~Bare(r)
    BY <2>1 DEF RequestInv, SingleOperation, Bare
  <2>3. ~Bare(r)'
    BY <2>1, <2>2 DEF Bare
  <2>4. SingleOperation(r)'
    BY <2>1, <2>3 DEF SingleOperation, Working
  <2> QED BY <2>1, <2>2, <2>4, ResolverStep
<1>4. CASE resolve_without_database(r)
  <2>1. /\ pc[r] = "ops" /\ left[r] \in Nat \ {0} /\ left'[r] = left[r] - 1 /\ pc'[r] = "ops"
        /\ entry'[r] = entry[r] /\ running'[r] = running[r] /\ needs' = needs
        /\ UNCHANGED <<status, client, server>> /\ needs'[r] \in BOOLEAN
    BY <1>0, <1>4, BoundsAssumption DEF resolve_without_database, TypeOK
  <2>2. ~Bare(r) /\ ~Bare(r)'
    BY <2>1 DEF Bare, RequestInv, SingleOperation
  <2>3. SingleOperation(r)'
    BY <2>1, <2>2 DEF RequestInv, SingleOperation, Working
  <2> QED BY <2>1, <2>2, <2>3, ResolverStep
<1>5. ASSUME NEW how \in {"postgres", "script", "module"}, resolve_operation(r, how)
      PROVE  RequestInv(r)'
  <2>1. left[r] \in Nat \ {0} /\ left'[r] = left[r] - 1
    BY <1>0, <1>5, BoundsAssumption DEF resolve_operation, TypeOK
  <2>2. /\ entry'[r] = entry[r] /\ running'[r] = how /\ pc'[r] = "op" /\ pc[r] = "ops"
        /\ needs'[r] = (needs[r] \/ how = "script") /\ needs[r] \in BOOLEAN
        /\ how = "script" => entry[r] = "graphql"
        /\ how = "module" => entry[r] # "graphql"
    BY <1>0, <1>5 DEF resolve_operation, TypeOK
  <2>3. ~Bare(r)
    BY <2>1 DEF RequestInv, SingleOperation
  <2>4. ~needs[r] \/ entry[r] = "rpc" => left'[r] = 0
    BY <2>1, <2>2 DEF RequestInv, SingleOperation
  <2>5. (~needs'[r] => ~needs[r] /\ how # "script") /\ (needs[r] => needs'[r])
    BY <2>2, Zenon
  <2>6. ~needs'[r] /\ ~Bare(r)' => how = "postgres"
    <3>1. entry[r] = "batch" => needs[r]
      BY <2>2 DEF RequestInv, SingleOperation
    <3>2. entry[r] \in AllEntries
      BY <1>0 DEF TypeOK
    <3> QED BY <2>2, <2>5, <3>1, <3>2 DEF Bare, AllEntries
  <2>7. SingleOperation(r)'
    <3>1. entry[r] = "batch" => needs'[r]
      BY <2>2, <2>5 DEF RequestInv, SingleOperation
    <3>2. Bare(r)' => entry[r] = "rpc"
      BY <2>2 DEF Bare
    <3> QED BY <2>2, <2>4, <2>5, <2>6, <3>1, <3>2 DEF SingleOperation, Working
  <2>8. UNCHANGED <<status, client, server>> /\ needs'[r] \in BOOLEAN
    BY <1>0, <1>5 DEF resolve_operation, TypeOK
  <2>9. pc[r] = "ops" /\ pc'[r] = "op" /\ left[r] > 0
    BY <2>1, <2>2
  <2> QED BY <2>3, <2>5, <2>7, <2>8, <2>9, ResolverStep
<1>6. CASE return_from_script(r)
  <2>1. /\ pc[r] = "op" /\ pc'[r] = "ops" /\ left'[r] = left[r]
        /\ entry'[r] = entry[r] /\ running'[r] = running[r] /\ needs' = needs
        /\ UNCHANGED <<status, client, server>> /\ needs'[r] \in BOOLEAN
    BY <1>0, <1>6 DEF return_from_script, EndOp, TypeOK
  <2>2. Bare(r)' <=> Bare(r)
    BY <2>1 DEF Bare
  <2>3. SingleOperation(r)'
    BY <2>1, <2>2 DEF RequestInv, SingleOperation, Working
  <2> QED BY <2>1, <2>2, <2>3, ResolverStep
<1>7. ASSUME NEW ensure \in BOOLEAN, extract_context_field(r, ensure) PROVE RequestInv(r)'
  <2>1. /\ pc[r] = "op" /\ pc'[r] = "with_tx" /\ left'[r] = left[r]
        /\ entry'[r] = entry[r] /\ running'[r] = running[r]
        /\ needs'[r] = (needs[r] \/ ensure)
        /\ UNCHANGED <<status, client, server>> /\ needs'[r] \in BOOLEAN
    BY <1>0, <1>7 DEF extract_context_field, TypeOK
  <2>2. Bare(r)' <=> Bare(r)
    BY <2>1 DEF Bare
  <2>3. SingleOperation(r)'
    BY <2>1, <2>2 DEF RequestInv, SingleOperation, Working
  <2> QED BY <2>1, <2>2, <2>3, ResolverStep
<1>8. ASSUME NEW n \in 1..MaxSteps, NEW ensure \in BOOLEAN, execute_query(r, n, ensure)
      PROVE  RequestInv(r)'
  <2>1. /\ pc[r] = "op" /\ pc'[r] = "with_tx" /\ left'[r] = left[r]
        /\ entry'[r] = entry[r] /\ running'[r] = running[r]
        /\ needs'[r] = (needs[r] \/ ensure)
        /\ UNCHANGED <<status, client, server>> /\ needs'[r] \in BOOLEAN
    BY <1>0, <1>8 DEF execute_query, TypeOK
  <2>2. Bare(r)' <=> Bare(r)
    BY <2>1 DEF Bare
  <2>3. SingleOperation(r)'
    BY <2>1, <2>2 DEF RequestInv, SingleOperation, Working
  <2> QED BY <2>1, <2>2, <2>3, ResolverStep
<1> QED BY Resolve(r), <1>1, <1>2, <1>3, <1>4, <1>5, <1>6, <1>7, <1>8 DEF Resolve

(* Where the end of a query takes r.                                       *)
LEMMA QueryEnd ==
    ASSUME SessionInv, NEW r \in Requests, RequestInv(r), NEW ok \in BOOLEAN,
           pc[r] \in Working, QueryDone(r, ok),
           UNCHANGED <<entry, left, running, needs>>
    PROVE  /\ pc'[r] \in {"ops", "op", "internal"}
           /\ internal[r] # "now" /\ running[r] = "postgres" => pc'[r] = "ops"
           /\ SingleOperation(r)'
           /\ Bare(r)' <=> Bare(r)
<1>1. /\ pc'[r] \in {"ops", "op", "internal"}
      /\ internal[r] # "now" /\ running[r] = "postgres" => pc'[r] = "ops"
  BY DEF QueryDone, GoOn, EndOp, SessionInv, TypeOK
<1>2. Bare(r)' <=> Bare(r)
  BY DEF Bare
<1>3. SingleOperation(r)'
  BY <1>1, <1>2 DEF RequestInv, SingleOperation, Working
<1> QED BY <1>1, <1>2, <1>3

(* Steps that leave the holder and the server alone.                       *)
LEMMA SettledStep ==
    ASSUME SessionInv, NEW r \in Requests, RequestInv(r),
           UNCHANGED <<needs, status, client, tx, pending, durable, issued>>,
           pc[r] \notin {"drop", "gone"}, SingleOperation(r)', OneStatement(r)',
           Bare(r)' <=> Bare(r)
    PROVE  RequestInv(r)'
<1>1. IssuedBy(r)' = IssuedBy(r) /\ DurableOf(r)' = DurableOf(r)
  BY DEF IssuedBy, DurableOf, Write
<1>2. PendingIsAll(r)'
  BY <1>1 DEF RequestInv, PendingIsAll
<1>3. NothingEarly(r)'
  BY <1>1 DEF RequestInv, NothingEarly
<1> QED BY <1>1, <1>2, <1>3 DEF RequestInv

(* Before its first statement an idle request has written nothing.         *)
LEMMA NothingYet ==
    ASSUME NEW r \in Requests, RequestInv(r), status[r] = "Idle", ~Bare(r),
           pc[r] \in {"with_tx", "begin", "step", "internal"}
    PROVE  issued[r] = 0 /\ IssuedBy(r) = {} /\ DurableOf(r) = {}
<1>1. issued[r] = 0
  BY DEF RequestInv, OneStatement
<1>2. IssuedBy(r) = {}
  BY <1>1, IssuedNothing
<1> QED BY <1>1, <1>2 DEF RequestInv

LEMMA AtomicBegin ==
    ASSUME SessionInv, NEW r \in Requests, RequestInv(r), begin_transaction(r)
    PROVE  RequestInv(r)'
<1>0. TypeOK /\ client[r] \in Clients /\ steps[r] \in Nat \ {0} /\ pc[r] = "begin"
  BY BoundsAssumption DEF begin_transaction, SessionInv, Holding, TypeOK
<1>1. UNCHANGED <<entry, left, running, needs, client, pending, durable, issued>>
  BY DEF begin_transaction
<1>2. CASE QueryDone(r, FALSE) /\ UNCHANGED <<tx, status>>
  <2>1. /\ pc'[r] \in {"ops", "op", "internal"} /\ SingleOperation(r)'
        /\ Bare(r)' <=> Bare(r)
    BY <1>0, <1>1, <1>2, QueryEnd DEF Working
  <2>2. OneStatement(r)'
    BY <1>0, <1>1, <1>2, <2>1, NothingYet DEF OneStatement
  <2> QED BY <1>0, <1>1, <1>2, <2>1, <2>2, SettledStep
<1>3. CASE /\ ~((steps[r] > 1 \/ needs[r]) /\ status[r] = "Idle")
           /\ GoOn(r, "step") /\ UNCHANGED <<steps, internal, tx, status>>
  <2>1. pc'[r] = "step" /\ (Bare(r)' <=> Bare(r))
    BY <1>0, <1>1, <1>3 DEF GoOn, TypeOK, Bare
  <2>2. SingleOperation(r)'
    BY <1>0, <1>1, <2>1 DEF RequestInv, SingleOperation, Working
  <2>3. status[r] = "Idle" => ~needs[r] /\ steps[r] = 1
    BY <1>0, <1>3
  <2>4. OneStatement(r)'
    BY <1>0, <1>1, <1>3, <2>1, <2>3, NothingYet DEF OneStatement
  <2> QED BY <1>0, <1>1, <1>3, <2>1, <2>2, <2>4, SettledStep
<1>4. CASE /\ status[r] = "Idle" /\ GoOn(r, "step") /\ UNCHANGED <<steps, internal>>
           /\ tx' = [tx EXCEPT ![client[r]] = "open"]
           /\ status' = [status EXCEPT ![r] = "Active"]
  <2>1. /\ pc'[r] = "step" /\ status'[r] = "Active" /\ tx'[client[r]] = "open"
        /\ Bare(r)' <=> Bare(r)
    BY <1>0, <1>1, <1>4 DEF GoOn, TypeOK, Bare
  <2>2. SingleOperation(r)'
    BY <1>0, <1>1, <2>1 DEF RequestInv, SingleOperation, Working
  <2>3. OneStatement(r)'
    BY <2>1 DEF OneStatement
  <2>4. pending[client[r]] = {}
    BY <1>0, <1>4, NoClientAssumption DEF SessionInv, HolderKnows, Settled
  <2>5. IssuedBy(r)' = IssuedBy(r) /\ DurableOf(r)' = DurableOf(r)
    BY <1>1 DEF IssuedBy, DurableOf, Write
  <2>6. ~Bare(r) => IssuedBy(r) = {} /\ DurableOf(r) = {}
    BY <1>0, <1>4, NothingYet
  <2>7. PendingIsAll(r)'
    BY <1>1, <2>1, <2>4, <2>5, <2>6 DEF PendingIsAll
  <2>8. NothingEarly(r)' /\ (~Bare(r)' => DurableOf(r)' \in {{}, IssuedBy(r)'})
    BY <2>1, <2>5, <2>6 DEF NothingEarly
  <2> QED BY <2>2, <2>3, <2>7, <2>8 DEF RequestInv
<1> QED BY <1>2, <1>3, <1>4 DEF begin_transaction

LEMMA AtomicQuery ==
    ASSUME SessionInv, NEW r \in Requests, RequestInv(r),
           with_tx(r) \/ get_client_fails(r) \/ convert_rows(r) \/ finalize_internal(r)
    PROVE  RequestInv(r)'
<1> USE DEF server, holder
<1>0. TypeOK /\ status[r] # "Finalized"
  BY DEF SessionInv, Holding, with_tx, get_client_fails, convert_rows, finalize_internal
<1>1. UNCHANGED <<entry, left, running, needs, status, client, tx, pending, durable, issued>>
  BY DEF with_tx, get_client_fails, convert_rows, finalize_internal
<1>2. CASE with_tx(r) \/ get_client_fails(r)
  <2>1. pc[r] = "with_tx" /\ (QueryDone(r, FALSE) \/ GoOn(r, "begin"))
    BY <1>2 DEF with_tx, get_client_fails
  <2>2. /\ pc'[r] \in {"begin", "ops", "op", "internal"} /\ SingleOperation(r)'
        /\ Bare(r)' <=> Bare(r)
    <3>1. CASE QueryDone(r, FALSE)
      BY <1>1, <2>1, <3>1, QueryEnd DEF Working
    <3>2. CASE GoOn(r, "begin")
      BY <1>0, <1>1, <2>1, <3>2 DEF GoOn, TypeOK, RequestInv, SingleOperation, Bare, Working
    <3> QED BY <2>1, <3>1, <3>2
  <2>3. OneStatement(r)'
    BY <1>1, <2>1, <2>2, NothingYet DEF OneStatement
  <2> QED BY <1>1, <2>1, <2>2, <2>3, SettledStep
<1>3. CASE convert_rows(r)
  <2>1. pc[r] = "convert" /\ \E ok \in BOOLEAN : QueryDone(r, ok)
    BY <1>3 DEF convert_rows
  <2>2. /\ pc'[r] \in {"ops", "op", "internal"} /\ SingleOperation(r)'
        /\ Bare(r)' <=> Bare(r)
        /\ internal[r] # "now" /\ running[r] = "postgres" => pc'[r] = "ops"
    BY <1>1, <2>1, QueryEnd DEF Working
  <2>3. status[r] = "Idle" /\ ~Bare(r) /\ issued[r] # 0
          => /\ ~needs[r] /\ issued[r] = 1 /\ internal[r] # "now"
             /\ running[r] = "postgres" /\ left[r] = 0
    BY <2>1 DEF RequestInv, OneStatement, SingleOperation, Working
  <2>4. OneStatement(r)'
    BY <1>1, <2>1, <2>2, <2>3 DEF OneStatement
  <2> QED BY <1>1, <2>1, <2>2, <2>4, SettledStep
<1>4. CASE finalize_internal(r)
  <2>1. pc[r] = "internal" /\ pc'[r] \in {"op", "ops"} /\ (Bare(r)' <=> Bare(r))
    BY <1>0, <1>1, <1>4 DEF finalize_internal, GoOn, EndOp, TypeOK, Bare
  <2>2. SingleOperation(r)'
    BY <1>1, <2>1 DEF RequestInv, SingleOperation, Working
  <2>3. OneStatement(r)'
    BY <1>1, <2>1, NothingYet DEF OneStatement
  <2> QED BY <1>1, <2>1, <2>2, <2>3, SettledStep
<1> QED BY <1>2, <1>3, <1>4

(* A committed write of r joins the writes of r, and of nobody else.       *)
LEMMA DurableOneMore ==
    ASSUME NEW r \in Requests, durable' = durable \cup {Write(r, issued[r] + 1)}
    PROVE  /\ DurableOf(r)' = DurableOf(r) \cup {Write(r, issued[r] + 1)}
           /\ \A q \in Requests \ {r} : DurableOf(q)' = DurableOf(q)
<1>1. Write(r, issued[r] + 1)[1] = r
  BY DEF Write
<1> QED BY <1>1 DEF DurableOf

LEMMA AtomicExecute ==
    ASSUME SessionInv, NEW r \in Requests, RequestInv(r), execute_step(r)
    PROVE  RequestInv(r)'
<1> USE DEF holder
<1>0. /\ TypeOK /\ client[r] \in Clients /\ steps[r] \in Nat \ {0} /\ pc[r] = "step"
      /\ status[r] # "Finalized" /\ tx[client[r]] \in {"none", "open"} /\ issued[r] \in Nat
  BY BoundsAssumption DEF execute_step, SessionInv, Holding, TypeOK
<1>1. /\ UNCHANGED <<entry, left, running, internal, needs, status, client, tx>>
      /\ pc'[r] = IF steps[r] = 1 THEN "convert" ELSE "step"
      /\ steps'[r] = steps[r] - 1
  BY <1>0 DEF execute_step, TypeOK
<1>2. Bare(r)' <=> Bare(r)
  BY <1>1 DEF Bare
<1>3. SingleOperation(r)'
  BY <1>0, <1>1, <1>2 DEF RequestInv, SingleOperation, Working
<1>4. status[r] = "Idle" => ~needs[r] /\ steps[r] = 1
  BY <1>0 DEF RequestInv, OneStatement
<1>5. CASE internal[r] = "now"
  <2>1. UNCHANGED <<pending, durable, issued>>
    BY <1>5 DEF execute_step, Perform
  <2>2. OneStatement(r)'
    BY <1>0, <1>1, <1>2, <1>4, <2>1, NothingYet DEF OneStatement
  <2> QED BY <1>0, <1>1, <1>2, <1>3, <2>1, <2>2, SettledStep
<1>6. CASE internal[r] # "now" /\ tx[client[r]] = "none"
  <2>1. /\ issued' = [issued EXCEPT ![r] = @ + 1] /\ UNCHANGED pending
        /\ durable' = durable \cup {Write(r, issued[r] + 1)}
    BY <1>6 DEF execute_step, Perform
  <2>2. status[r] = "Idle"
    BY <1>0, <1>6 DEF RequestInv, PendingIsAll, TypeOK
  <2>3. ~Bare(r) => issued[r] = 0 /\ IssuedBy(r) = {} /\ DurableOf(r) = {}
    BY <1>0, <2>2, NothingYet
  <2>4. issued'[r] = issued[r] + 1
    BY <1>0, <2>1 DEF TypeOK
  <2>5. OneStatement(r)'
    BY <1>1, <1>2, <1>4, <1>6, <2>2, <2>3, <2>4 DEF OneStatement
  <2>6. PendingIsAll(r)' /\ NothingEarly(r)'
    BY <1>1, <1>4, <1>6, <2>2 DEF PendingIsAll, NothingEarly
  <2>7. ~Bare(r)' => DurableOf(r)' \in {{}, IssuedBy(r)'}
    BY <1>0, <1>2, <2>1, <2>3, IssuedOneMore, DurableOneMore
  <2> QED BY <1>3, <2>5, <2>6, <2>7 DEF RequestInv
<1>7. CASE internal[r] # "now" /\ tx[client[r]] = "open"
  <2>1. /\ issued' = [issued EXCEPT ![r] = @ + 1] /\ UNCHANGED durable
        /\ pending' = [pending EXCEPT ![client[r]] = @ \cup {Write(r, issued[r] + 1)}]
    BY <1>7 DEF execute_step, Perform
  <2>2. status[r] = "Active"
    BY <1>0, <1>7, NoClientAssumption DEF SessionInv, HolderKnows, InTx
  <2>3. ~Bare(r) => DurableOf(r) = {} /\ pending[client[r]] = IssuedBy(r)
    BY <1>0, <1>7, <2>2, NoClientAssumption DEF RequestInv, NothingEarly, PendingIsAll
  <2>4. DurableOf(r)' = DurableOf(r)
    BY <2>1 DEF DurableOf
  <2>5. OneStatement(r)'
    BY <1>1, <2>2 DEF OneStatement
  <2>6. PendingIsAll(r)'
    <3>1. pending'[client[r]] = pending[client[r]] \cup {Write(r, issued[r] + 1)}
      BY <1>0, <2>1 DEF TypeOK
    <3>2. ~Bare(r) => pending'[client[r]] = IssuedBy(r)'
      BY <1>0, <2>1, <2>3, <3>1, IssuedOneMore
    <3> QED BY <1>1, <1>2, <1>7, <3>2 DEF PendingIsAll
  <2>7. NothingEarly(r)' /\ (~Bare(r)' => DurableOf(r)' \in {{}, IssuedBy(r)'})
    BY <1>2, <2>3, <2>4 DEF NothingEarly
  <2> QED BY <1>3, <2>5, <2>6, <2>7 DEF RequestInv
<1> QED BY <1>0, <1>5, <1>6, <1>7

LEMMA AtomicFailure ==
    ASSUME SessionInv, NEW r \in Requests, RequestInv(r), step_fails(r)
    PROVE  RequestInv(r)'
<1> USE DEF server, holder
<1>0. /\ TypeOK /\ client[r] \in Clients /\ pc[r] = "step"
      /\ status[r] \in {"Idle", "Active"} /\ issued[r] \in Nat
  BY DEF step_fails, SessionInv, Holding, TypeOK
<1>1. UNCHANGED <<entry, left, running, needs, status, client>> /\ QueryDone(r, FALSE)
  BY DEF step_fails
<1>2. /\ pc'[r] \in {"ops", "op", "internal"} /\ SingleOperation(r)'
      /\ Bare(r)' <=> Bare(r)
      /\ internal[r] # "now" /\ running[r] = "postgres" => pc'[r] = "ops"
  BY <1>0, <1>1, QueryEnd DEF Working
<1>3. /\ status[r] = "Idle" => ~needs[r]
      /\ status[r] = "Active" => tx[client[r]] # "none"
      /\ ~needs[r] /\ ~Bare(r) => running[r] = "postgres" /\ left[r] = 0
  BY <1>0 DEF RequestInv, OneStatement, PendingIsAll, SingleOperation, Working
<1>4. CASE UNCHANGED <<durable, issued>>
  <2>1. /\ tx[client[r]] # "none" => tx'[client[r]] # "none"
        /\ tx'[client[r]] = "open" => tx' = tx /\ pending' = pending
    BY <1>0, <1>4 DEF step_fails, TypeOK
  <2>2. IssuedBy(r)' = IssuedBy(r) /\ DurableOf(r)' = DurableOf(r)
    BY <1>4 DEF IssuedBy, DurableOf, Write
  <2>3. OneStatement(r)'
    BY <1>0, <1>1, <1>2, <1>4, NothingYet DEF OneStatement
  <2>4. PendingIsAll(r)'
    BY <1>0, <1>1, <1>2, <1>3, <2>1, <2>2 DEF RequestInv, PendingIsAll
  <2>5. NothingEarly(r)' /\ (~Bare(r)' => DurableOf(r)' \in {{}, IssuedBy(r)'})
    BY <1>0, <1>1, <1>2, <2>2 DEF RequestInv, NothingEarly
  <2> QED BY <1>2, <2>3, <2>4, <2>5 DEF RequestInv
<1>5. CASE /\ tx[client[r]] = "none" /\ internal[r] # "now"
           /\ tx' = [tx EXCEPT ![client[r]] = "closed"]
           /\ durable' = durable \cup {Write(r, issued[r] + 1)}
           /\ issued' = [issued EXCEPT ![r] = @ + 1]
  <2>1. status[r] = "Idle"
    BY <1>0, <1>3, <1>5
  <2>2. ~Bare(r) => issued[r] = 0 /\ IssuedBy(r) = {} /\ DurableOf(r) = {}
    BY <1>0, <2>1, NothingYet
  <2>3. issued'[r] = issued[r] + 1 /\ tx'[client[r]] = "closed"
    BY <1>0, <1>5 DEF TypeOK
  <2>4. OneStatement(r)'
    BY <1>1, <1>2, <1>3, <1>5, <2>1, <2>2, <2>3 DEF OneStatement
  <2>5. PendingIsAll(r)' /\ NothingEarly(r)'
    BY <1>1, <1>3, <2>1, <2>3 DEF PendingIsAll, NothingEarly
  <2>6. ~Bare(r)' => DurableOf(r)' \in {{}, IssuedBy(r)'}
    BY <1>0, <1>2, <1>5, <2>2, IssuedOneMore, DurableOneMore
  <2> QED BY <1>2, <2>4, <2>5, <2>6 DEF RequestInv
<1> QED BY <1>4, <1>5 DEF step_fails

LEMMA AtomicClient ==
    ASSUME SessionInv, NEW r \in Requests, RequestInv(r), NEW c \in Clients, get_client(r, c)
    PROVE  RequestInv(r)'
<1>0. TypeOK /\ pc[r] = "with_tx" /\ status[r] = "Idle" /\ tx[c] \in {"none", "closed"}
  BY DEF get_client, SessionInv, Holding, Isolation, TypeOK
<1>1. /\ UNCHANGED <<entry, left, running, steps, internal, needs, status, durable, issued>>
      /\ pc'[r] = "begin" /\ client'[r] = c /\ tx'[c] = "none"
  BY <1>0 DEF get_client, TypeOK
<1>2. Bare(r)' <=> Bare(r)
  BY <1>1 DEF Bare
<1>3. SingleOperation(r)'
  BY <1>0, <1>1, <1>2 DEF RequestInv, SingleOperation, Working
<1>4. OneStatement(r)'
  BY <1>0, <1>1, <1>2, NothingYet DEF OneStatement
<1>5. PendingIsAll(r)'
  BY <1>0, <1>1 DEF PendingIsAll
<1>6. IssuedBy(r)' = IssuedBy(r) /\ DurableOf(r)' = DurableOf(r)
  BY <1>1 DEF IssuedBy, DurableOf, Write
<1>7. NothingEarly(r)' /\ (~Bare(r)' => DurableOf(r)' \in {{}, IssuedBy(r)'})
  BY <1>0, <1>1, <1>2, <1>6 DEF RequestInv, NothingEarly
<1> QED BY <1>3, <1>4, <1>5, <1>7 DEF RequestInv

(* The transaction of r holds the writes of r only.                        *)
LEMMA PendingOwn ==
    ASSUME SessionInv, NEW r \in Requests, client[r] \in Clients
    PROVE  \A w \in pending[client[r]] : w[1] = r
<1>1. ASSUME NEW w \in pending[client[r]] PROVE w[1] = r
  <2>1. w[1] \in Requests /\ client[w[1]] = client[r]
    BY DEF SessionInv, TypeOK, Isolation, Writes
  <2> QED BY <2>1, NoClientAssumption DEF SessionInv, ExclusiveClient
<1> QED BY <1>1

LEMMA AtomicRespond ==
    ASSUME SessionInv, SessionInv', NEW r \in Requests, RequestInv(r),
           NEW commit \in BOOLEAN, NEW ok \in BOOLEAN, NEW a,
           Respond(r, commit, ok, a), pc[r] = "ops"
    PROVE  RequestInv(r)'
<1>0. TypeOK /\ status[r] \in {"Idle", "Active"}
  BY DEF SessionInv, Holding, TypeOK
<1>1. /\ UNCHANGED <<entry, left, running, needs, client, issued>> /\ pc'[r] = "drop"
      /\ status'[r] # "Idle"
  BY <1>0 DEF Respond, finalize, TypeOK
<1>2. Bare(r)' <=> Bare(r)
  BY <1>1 DEF Bare
<1>3. SingleOperation(r)'
  BY <1>1, <1>2 DEF RequestInv, SingleOperation, Working
<1>4. OneStatement(r)' /\ NothingEarly(r)'
  BY <1>1 DEF OneStatement, NothingEarly
<1>5. PendingIsAll(r)'
  BY <1>1 DEF SessionInv, HolderKnows, PendingIsAll, InTx
<1>6. IssuedBy(r)' = IssuedBy(r)
  BY <1>1 DEF IssuedBy, Write
<1>7. ~Bare(r) => DurableOf(r)' \in {{}, IssuedBy(r)}
  <2>1. CASE durable' = durable
    BY <2>1 DEF DurableOf, RequestInv
  <2>2. CASE /\ status[r] = "Active" /\ tx[client[r]] = "open"
             /\ durable' = durable \cup pending[client[r]]
    <3>1. client[r] \in Clients
      BY <1>0, <2>2 DEF SessionInv, Holding, TypeOK
    <3>2. DurableOf(r)' = DurableOf(r) \cup pending[client[r]]
      BY <2>2, <3>1, PendingOwn DEF DurableOf
    <3>3. ~Bare(r) => DurableOf(r) = {} /\ pending[client[r]] = IssuedBy(r)
      BY <2>2, <3>1, NoClientAssumption DEF RequestInv, NothingEarly, PendingIsAll
    <3> QED BY <3>2, <3>3
  <2> QED BY <2>1, <2>2 DEF Respond, finalize
<1> QED BY <1>2, <1>3, <1>4, <1>5, <1>6, <1>7 DEF RequestInv

LEMMA AtomicRelease ==
    ASSUME SessionInv, NEW r \in Requests, RequestInv(r), Release(r)
    PROVE  RequestInv(r)'
<1>0. TypeOK
  BY DEF SessionInv
<1>1. /\ UNCHANGED <<entry, running, needs, status, durable, issued>>
      /\ pc'[r] = "gone" /\ left'[r] = 0 /\ client'[r] = NoClient
  BY <1>0 DEF Release, TypeOK
<1>2. Bare(r)' <=> Bare(r)
  BY <1>1 DEF Bare
<1>3. IssuedBy(r)' = IssuedBy(r) /\ DurableOf(r)' = DurableOf(r)
  BY <1>1 DEF IssuedBy, DurableOf, Write
<1>4. SingleOperation(r)' /\ OneStatement(r)' /\ PendingIsAll(r)' /\ NothingEarly(r)'
  BY <1>1, <1>2 DEF SingleOperation, OneStatement, PendingIsAll, NothingEarly, Working
<1> QED BY <1>2, <1>3, <1>4 DEF RequestInv

(***************************************************************************)
(* What any step of r leaves to the other requests: all of their control   *)
(* state, their holders, the sessions they hold and their writes.          *)
(***************************************************************************)
Apart(q) ==
    /\ Untouched(q) /\ client'[q] = client[q]
    /\ client[q] # NoClient =>
         /\ tx'[client[q]] = tx[client[q]]
         /\ pending'[client[q]] = pending[client[q]]
    /\ DurableOf(q)' = DurableOf(q)

LEMMA ApartResolve ==
    ASSUME SessionInv, NEW r \in Requests, Resolve(r), NEW q \in Requests \ {r}
    PROVE  Apart(q)
<1> USE DEF server, holder
<1>1. UNCHANGED <<status, client, tx, pending, durable, issued>>
  BY DEF Resolve, resolve_operations, handle_batch, handle_single, resolve_without_database,
         resolve_operation, return_from_script, extract_context_field, execute_query
<1>2. Untouched(q)
  <2> USE <1>1 DEF Untouched, SessionInv, TypeOK
  <2>1. CASE \E n \in 0..MaxOps : resolve_operations(r, n)
    BY <2>1 DEF resolve_operations
  <2>2. CASE \E n \in 0..MaxOps : handle_batch(r, n)
    BY <2>2 DEF handle_batch
  <2>3. CASE handle_single(r) \/ resolve_without_database(r)
    BY <2>3 DEF handle_single, resolve_without_database
  <2>4. CASE \E how \in {"postgres", "script", "module"} : resolve_operation(r, how)
    BY <2>4 DEF resolve_operation
  <2>5. CASE return_from_script(r)
    BY <2>5 DEF return_from_script, EndOp
  <2>6. CASE \E ensure \in BOOLEAN : extract_context_field(r, ensure)
    BY <2>6 DEF extract_context_field
  <2>7. CASE \E n \in 1..MaxSteps, ensure \in BOOLEAN : execute_query(r, n, ensure)
    BY <2>7 DEF execute_query
  <2> QED BY <2>1, <2>2, <2>3, <2>4, <2>5, <2>6, <2>7 DEF Resolve
<1> QED BY <1>1, <1>2 DEF Apart, DurableOf

(* A step of r on its own session.                                         *)
LEMMA ApartSession ==
    ASSUME SessionInv, NEW r \in Requests, NEW q \in Requests \ {r},
           Untouched(q), client'[q] = client[q],
           \A d \in Clients \ {client[r]} : tx'[d] = tx[d] /\ pending'[d] = pending[d],
           \A w \in durable' : w \in durable \/ w[1] = r,
           durable \subseteq durable'
    PROVE  Apart(q)
<1>1. client[q] # NoClient => client[q] \in Clients \ {client[r]}
  BY DEF SessionInv, ExclusiveClient, TypeOK
<1>2. DurableOf(q)' = DurableOf(q)
  BY DEF DurableOf
<1> QED BY <1>1, <1>2 DEF Apart

LEMMA ApartDatabase ==
    ASSUME SessionInv, NEW r \in Requests, Database(r), NEW q \in Requests \ {r}
    PROVE  Apart(q)
<1> USE DEF server, holder
<1>0. TypeOK /\ Write(r, issued[r] + 1)[1] = r
  BY DEF SessionInv, Write
<1>1. \A ok \in BOOLEAN : QueryDone(r, ok) =>
        pc'[q] = pc[q] /\ steps'[q] = steps[q] /\ internal'[q] = internal[q]
  BY <1>0 DEF QueryDone, GoOn, EndOp, TypeOK
<1>2. \A place : GoOn(r, place) => pc'[q] = pc[q]
  BY <1>0 DEF GoOn, TypeOK
<1>3. CASE with_tx(r) \/ get_client_fails(r) \/ convert_rows(r)
  <2>1. Untouched(q)
    BY <1>1, <1>2, <1>3 DEF with_tx, get_client_fails, convert_rows, Untouched
  <2> QED BY <1>3, <2>1, ApartSession DEF with_tx, get_client_fails, convert_rows
<1>4. CASE begin_transaction(r)
  <2>1. Untouched(q)
    BY <1>0, <1>1, <1>2, <1>4 DEF begin_transaction, Untouched, TypeOK
  <2>2. \A d \in Clients \ {client[r]} : tx'[d] = tx[d] /\ pending'[d] = pending[d]
    BY <1>0, <1>4, ZenonT(40) DEF begin_transaction, TypeOK
  <2> QED BY <1>4, <2>1, <2>2, ApartSession DEF begin_transaction
<1>5. CASE execute_step(r)
  <2>1. Untouched(q)
    BY <1>0, <1>5 DEF execute_step, Perform, Untouched, TypeOK
  <2>2. \A d \in Clients \ {client[r]} : tx'[d] = tx[d] /\ pending'[d] = pending[d]
    BY <1>0, <1>5 DEF execute_step, Perform, TypeOK
  <2>3. durable' = durable \/ durable' = durable \cup {Write(r, issued[r] + 1)}
    BY <1>5 DEF execute_step, Perform
  <2> QED BY <1>0, <1>5, <2>1, <2>2, <2>3, ApartSession DEF execute_step
<1>6. CASE step_fails(r)
  <2>1. Untouched(q)
    BY <1>0, <1>1, <1>6, ZenonT(40) DEF step_fails, Untouched, TypeOK
  <2>2. \A d \in Clients \ {client[r]} : tx'[d] = tx[d] /\ pending'[d] = pending[d]
    BY <1>0, <1>6 DEF step_fails, TypeOK
  <2>3. durable' = durable \/ durable' = durable \cup {Write(r, issued[r] + 1)}
    BY <1>6 DEF step_fails
  <2> QED BY <1>0, <1>6, <2>1, <2>2, <2>3, ApartSession DEF step_fails
<1>7. CASE finalize_internal(r)
  <2>1. Untouched(q)
    BY <1>0, <1>7 DEF finalize_internal, GoOn, EndOp, Untouched, TypeOK
  <2> QED BY <1>7, <2>1, ApartSession DEF finalize_internal
<1> QED BY <1>3, <1>4, <1>5, <1>6, <1>7 DEF Database

LEMMA ApartClient ==
    ASSUME SessionInv, NEW r \in Requests, NEW c \in Clients, get_client(r, c),
           NEW q \in Requests \ {r}
    PROVE  Apart(q)
<1>0. TypeOK
  BY DEF SessionInv
<1>1. Untouched(q) /\ client'[q] = client[q] /\ durable' = durable /\ pending' = pending
  BY <1>0 DEF get_client, Untouched, TypeOK
<1>2. client[q] # NoClient => client[q] \in Clients \ {c}
  BY <1>0 DEF get_client, Free, TypeOK
<1>3. \A d \in Clients \ {c} : tx'[d] = tx[d]
  BY <1>0 DEF get_client, TypeOK
<1> QED BY <1>1, <1>2, <1>3 DEF Apart, DurableOf

LEMMA ApartRespond ==
    ASSUME SessionInv, NEW r \in Requests, NEW commit \in BOOLEAN, NEW ok \in BOOLEAN,
           NEW a, Respond(r, commit, ok, a), pc[r] = "ops", NEW q \in Requests \ {r}
    PROVE  Apart(q)
<1>0. TypeOK
  BY DEF SessionInv
<1>1. Untouched(q) /\ client' = client
  BY <1>0 DEF Respond, finalize, Untouched, TypeOK
<1>2. \A d \in Clients \ {client[r]} : tx'[d] = tx[d] /\ pending'[d] = pending[d]
  BY <1>0 DEF Respond, finalize, TypeOK
<1>3. /\ durable \subseteq durable'
      /\ \A w \in durable' : w \in durable \/ w[1] = r
  <2>1. CASE durable' = durable
    BY <2>1
  <2>2. CASE status[r] = "Active" /\ durable' = durable \cup pending[client[r]]
    <3>1. client[r] \in Clients
      BY <1>0, <2>2 DEF SessionInv, Holding, TypeOK
    <3> QED BY <2>2, <3>1, PendingOwn
  <2> QED BY <2>1, <2>2 DEF Respond, finalize
<1> QED BY <1>1, <1>2, <1>3, ApartSession

LEMMA ApartRelease ==
    ASSUME SessionInv, NEW r \in Requests, Release(r), NEW q \in Requests \ {r}
    PROVE  Apart(q)
<1>0. TypeOK
  BY DEF SessionInv
<1>1. Untouched(q) /\ client'[q] = client[q] /\ durable' = durable
  BY <1>0 DEF Release, Untouched, TypeOK
<1>2. \A d \in Clients \ {client[r]} : tx'[d] = tx[d] /\ pending'[d] = pending[d]
  BY <1>0 DEF Release, TypeOK
<1> QED BY <1>1, <1>2, ApartSession

-----------------------------------------------------------------------------
LEMMA AtomicInit ==
    ASSUME Init
    PROVE  AtomicInv
<1>1. ASSUME NEW r \in Requests PROVE RequestInv(r)
  <2>1. /\ pc[r] = "new" /\ running[r] = "postgres" /\ ~needs[r] /\ status[r] = "Idle"
        /\ client[r] = NoClient /\ issued[r] = 0 /\ DurableOf(r) = {} /\ left[r] = 0
    BY DEF Init, DurableOf
  <2> QED BY <2>1 DEF RequestInv, SingleOperation, OneStatement, PendingIsAll, NothingEarly,
                      Bare, Working
<1> QED BY <1>1, SessionInit DEF AtomicInv

(* A step of r keeps the invariant at r and at every other request.        *)
LEMMA AtomicOne ==
    ASSUME AtomicInv, NEW r \in Requests, RequestInv(r)', \A q \in Requests \ {r} : Apart(q)
    PROVE  \A q \in Requests : RequestInv(q)'
<1>1. ASSUME NEW q \in Requests \ {r} PROVE RequestInv(q)'
  BY <1>1, Frame DEF AtomicInv, Apart
<1> QED BY <1>1

LEMMA AtomicStep ==
    ASSUME NoOrphans, AtomicInv, [Next]_vars
    PROVE  AtomicInv'
<1>0. SessionInv /\ SessionInv' /\ \A r \in Requests : RequestInv(r)
  BY SessionStep DEF AtomicInv
<1>1. CASE UNCHANGED vars
  <2>1. ASSUME NEW q \in Requests PROVE RequestInv(q)'
    BY <1>0, <1>1, Frame
       DEF Untouched, DurableOf, vars, request, holder, server
  <2> QED BY <1>0, <2>1 DEF AtomicInv
<1>2. ASSUME NEW r \in Requests, Resolve(r) PROVE AtomicInv'
  BY <1>0, <1>2, AtomicResolve, ApartResolve, AtomicOne DEF AtomicInv
<1>3. ASSUME NEW r \in Requests, Database(r) PROVE AtomicInv'
  <2>1. RequestInv(r)'
    BY <1>0, <1>3, AtomicQuery, AtomicBegin, AtomicExecute, AtomicFailure DEF Database
  <2> QED BY <1>0, <1>3, <2>1, ApartDatabase, AtomicOne DEF AtomicInv
<1>4. ASSUME NEW r \in Requests, Finish(r) PROVE AtomicInv'
  <2>1. ASSUME NEW commit \in BOOLEAN, NEW ok \in BOOLEAN, NEW a,
               Respond(r, commit, ok, a), pc[r] = "ops"
        PROVE  AtomicInv'
    BY <1>0, <2>1, AtomicRespond, ApartRespond, AtomicOne DEF AtomicInv
  <2>2. CASE finish_graphql(r)
    BY <2>1, <2>2 DEF finish_graphql, Resolved
  <2>3. CASE finish_single(r)
    BY <2>1, <2>3 DEF finish_single, Resolved
  <2>4. CASE finish_batch(r)
    BY <2>1, <2>4 DEF finish_batch, Resolved
  <2>5. CASE drop(r)
    BY <1>0, <2>5, AtomicRelease, ApartRelease, AtomicOne DEF drop, AtomicInv
  <2> QED BY <1>4, <2>2, <2>3, <2>4, <2>5 DEF Finish
<1>5. ASSUME NEW r \in Requests, disconnect(r) PROVE AtomicInv'
  BY <1>0, <1>5, AtomicRelease, ApartRelease, AtomicOne DEF disconnect, AtomicInv
<1>6. ASSUME NEW r \in Requests, NEW c \in Clients, get_client(r, c) PROVE AtomicInv'
  BY <1>0, <1>6, AtomicClient, ApartClient, AtomicOne DEF AtomicInv
<1> QED BY <1>1, <1>2, <1>3, <1>4, <1>5, <1>6 DEF Next, Step, Quiescent

(***************************************************************************)
(* Atomicity, for any number of requests, clients, fields, batch items,    *)
(* queries and statements, under every failure the model has: unless       *)
(* pooled connections are orphaned, the committed writes of a request are  *)
(* none or all of those it has performed.                                  *)
(***************************************************************************)
THEOREM AllOrNothingHolds ==
    ASSUME NoOrphans
    PROVE  Spec => []AllOrNothing
<1>1. Init => AtomicInv
  BY AtomicInit
<1>2. AtomicInv /\ [Next]_vars => AtomicInv'
  BY AtomicStep
<1>3. AtomicInv => AllOrNothing
  BY DEF AtomicInv, RequestInv, AllOrNothing
<1> QED BY <1>1, <1>2, <1>3, PTL DEF Spec

-----------------------------------------------------------------------------
(* What FinalizedIsFinal says of one request.                              *)
Final(q) ==
    status[q] = "Finalized" =>
      /\ status'[q] = "Finalized"
      /\ issued'[q] = issued[q]
      /\ DurableOf(q)' = DurableOf(q)

(* The steps before the response and the response itself find the holder   *)
(* not yet finalized, and a release touches neither status nor writes.     *)
LEMMA FinalStep ==
    ASSUME SessionInv, [Next]_vars
    PROVE  \A q \in Requests : Final(q)
<1>1. CASE UNCHANGED vars
  BY <1>1 DEF Final, DurableOf, vars, request, holder, server
<1>2. ASSUME NEW r \in Requests, \A q \in Requests \ {r} : Apart(q),
             status[r] # "Finalized" \/ UNCHANGED <<status, durable, issued>>
      PROVE  \A q \in Requests : Final(q)
  BY <1>2 DEF Final, Apart, Untouched, DurableOf
<1>3. ASSUME NEW r \in Requests, Resolve(r) PROVE \A q \in Requests : Final(q)
  <2>1. UNCHANGED <<status, durable, issued>>
    BY <1>3 DEF Resolve, resolve_operations, handle_batch, handle_single,
         resolve_without_database, resolve_operation, return_from_script,
         extract_context_field, execute_query, server, holder
  <2> QED BY <1>2, <1>3, <2>1, ApartResolve
<1>4. ASSUME NEW r \in Requests, Database(r) PROVE \A q \in Requests : Final(q)
  <2>1. pc[r] \notin {"drop", "gone"}
    BY <1>4 DEF Database, with_tx, get_client_fails, begin_transaction, execute_step,
                step_fails, convert_rows, finalize_internal
  <2>2. status[r] # "Finalized"
    BY <2>1 DEF SessionInv, Holding
  <2> QED BY <1>2, <1>4, <2>2, ApartDatabase
<1>5. ASSUME NEW r \in Requests, Finish(r) PROVE \A q \in Requests : Final(q)
  <2>1. ASSUME NEW commit \in BOOLEAN, NEW ok \in BOOLEAN, NEW a,
               Respond(r, commit, ok, a), pc[r] = "ops"
        PROVE  \A q \in Requests : Final(q)
    <3>1. status[r] # "Finalized"
      BY <2>1 DEF SessionInv, Holding
    <3> QED BY <1>2, <2>1, <3>1, ApartRespond
  <2>2. CASE finish_graphql(r)
    BY <2>1, <2>2 DEF finish_graphql, Resolved
  <2>3. CASE finish_single(r)
    BY <2>1, <2>3 DEF finish_single, Resolved
  <2>4. CASE finish_batch(r)
    BY <2>1, <2>4 DEF finish_batch, Resolved
  <2>5. CASE drop(r)
    BY <1>2, <2>5, ApartRelease DEF drop, Release
  <2> QED BY <1>5, <2>2, <2>3, <2>4, <2>5 DEF Finish
<1>6. ASSUME NEW r \in Requests, disconnect(r) PROVE \A q \in Requests : Final(q)
  BY <1>2, <1>6, ApartRelease DEF disconnect, Release
<1>7. ASSUME NEW r \in Requests, NEW c \in Clients, get_client(r, c)
      PROVE  \A q \in Requests : Final(q)
  BY <1>2, <1>7, ApartClient DEF get_client
<1> QED BY <1>1, <1>3, <1>4, <1>5, <1>6, <1>7 DEF Next, Step, Quiescent

(***************************************************************************)
(* The end of a transaction is final, whatever the other requests and the  *)
(* connections do afterwards.                                              *)
(***************************************************************************)
THEOREM FinalizedIsFinalHolds ==
    ASSUME NoOrphans
    PROVE  Spec => FinalizedIsFinal
<1>1. Init => SessionInv
  BY SessionInit
<1>2. SessionInv /\ [Next]_vars => SessionInv'
  BY SessionStep
<1>3. SessionInv /\ [Next]_vars =>
        [\A r \in Requests :
           status[r] = "Finalized" =>
             /\ status'[r] = "Finalized"
             /\ issued'[r] = issued[r]
             /\ DurableOf(r)' = DurableOf(r)]_vars
  BY FinalStep DEF Final
<1> QED BY <1>1, <1>2, <1>3, PTL DEF Spec, FinalizedIsFinal

-----------------------------------------------------------------------------
(* The response                                                            *)

(* A failed finalize is reported, or there is none.                        *)
Reported == Entries \subseteq {"graphql"} \/ Faults \cap {"rejected", "lost"} = {}
Uncaught == "caught" \notin Faults

Connected == "lost" \notin Faults => \A c \in Clients : tx[c] # "closed"

-----------------------------------------------------------------------------
(* The other requests                                                      *)

LEMMA QueryDoneElsewhere ==
    ASSUME TypeOK, NEW r \in Requests, NEW ok \in BOOLEAN, QueryDone(r, ok)
    PROVE  \A q \in Requests \ {r} : results'[q] = results[q]
  BY DEF QueryDone, GoOn, EndOp, TypeOK

LEMMA DatabaseElsewhere ==
    ASSUME TypeOK, NEW r \in Requests, Database(r), NEW q \in Requests \ {r}
    PROVE  results'[q] = results[q] /\ reply' = reply
<1> USE QueryDoneElsewhere
<1>1. CASE with_tx(r)
  BY <1>1 DEF with_tx, GoOn
<1>2. CASE get_client_fails(r)
  BY <1>2 DEF get_client_fails
<1>3. CASE begin_transaction(r)
  BY <1>3 DEF begin_transaction, GoOn
<1>4. CASE execute_step(r)
  BY <1>4 DEF execute_step
<1>5. CASE step_fails(r)
  BY <1>5 DEF step_fails
<1>6. CASE convert_rows(r)
  BY <1>6 DEF convert_rows
<1>7. CASE finalize_internal(r)
  BY <1>7 DEF finalize_internal, GoOn, EndOp, TypeOK
<1> QED BY <1>1, <1>2, <1>3, <1>4, <1>5, <1>6, <1>7 DEF Database

LEMMA ResolveElsewhere ==
    ASSUME TypeOK, NEW r \in Requests, Resolve(r), NEW q \in Requests \ {r}
    PROVE  results'[q] = results[q] /\ reply'[q] = reply[q]
<1> USE DEF TypeOK
<1>1. CASE \E n \in 0..MaxOps : resolve_operations(r, n)
  BY <1>1 DEF resolve_operations
<1>2. CASE \E n \in 0..MaxOps : handle_batch(r, n)
  BY <1>2 DEF handle_batch
<1>3. CASE handle_single(r) \/ resolve_without_database(r)
  BY <1>3 DEF handle_single, resolve_without_database
<1>4. CASE \E how \in {"postgres", "script", "module"} : resolve_operation(r, how)
  BY <1>4 DEF resolve_operation
<1>5. CASE return_from_script(r)
  BY <1>5 DEF return_from_script, EndOp
<1>6. CASE \E ensure \in BOOLEAN : extract_context_field(r, ensure)
  BY <1>6 DEF extract_context_field
<1>7. CASE \E n \in 1..MaxSteps, ensure \in BOOLEAN : execute_query(r, n, ensure)
  BY <1>7 DEF execute_query
<1> QED BY <1>1, <1>2, <1>3, <1>4, <1>5, <1>6, <1>7 DEF Resolve

LEMMA AckFrame ==
    ASSUME SessionInv, NEW q \in Requests, AckInv(q), Apart(q),
           results'[q] = results[q], reply'[q] = reply[q]
    PROVE  AckInv(q)'
<1>1. IssuedBy(q)' = IssuedBy(q)
  BY DEF Apart, Untouched, IssuedBy, Write
<1>2. status[q] = "Active" /\ pc[q] # "gone" => client[q] # NoClient
  BY DEF SessionInv, Holding
<1>3. Unanswered(q)' /\ AbortShows(q)'
  BY DEF AckInv, Unanswered, AbortShows, Apart, Untouched
<1>4. NoneMissing(q)'
  BY <1>1, <1>2 DEF AckInv, NoneMissing, Apart, Untouched
<1> QED BY <1>1, <1>3, <1>4 DEF AckInv, Apart

-----------------------------------------------------------------------------
(* Success means committed                                                 *)

(* The resolver adds results and touches nothing else.                     *)
LEMMA ResolveEffect ==
    ASSUME TypeOK, NEW r \in Requests, Resolve(r)
    PROVE  /\ UNCHANGED <<status, client, tx, pending, durable, issued>>
           /\ pc[r] \in {"new", "ops", "op"}
           /\ results[r] \subseteq results'[r]
           /\ reply'[r] = reply[r] \/ (reply'[r] = {"error"} /\ pc'[r] = "drop")
<1> USE DEF server, holder, TypeOK
<1>1. CASE \E n \in 0..MaxOps : resolve_operations(r, n)
  BY <1>1 DEF resolve_operations
<1>2. CASE \E n \in 0..MaxOps : handle_batch(r, n)
  BY <1>2 DEF handle_batch
<1>3. CASE handle_single(r)
  BY <1>3 DEF handle_single
<1>4. CASE resolve_without_database(r)
  BY <1>4 DEF resolve_without_database
<1>5. CASE \E how \in {"postgres", "script", "module"} : resolve_operation(r, how)
  BY <1>5 DEF resolve_operation
<1>6. CASE return_from_script(r)
  BY <1>6 DEF return_from_script, EndOp
<1>7. CASE \E ensure \in BOOLEAN : extract_context_field(r, ensure)
  BY <1>7 DEF extract_context_field
<1>8. CASE \E n \in 1..MaxSteps, ensure \in BOOLEAN : execute_query(r, n, ensure)
  BY <1>8 DEF execute_query
<1> QED BY <1>1, <1>2, <1>3, <1>4, <1>5, <1>6, <1>7, <1>8 DEF Resolve

LEMMA AckResolve ==
    ASSUME SessionInv, NEW r \in Requests, AckInv(r), Resolve(r)
    PROVE  AckInv(r)'
<1>0. TypeOK
  BY DEF SessionInv
<1>1. IssuedBy(r)' = IssuedBy(r) /\ DurableOf(r)' = DurableOf(r)
  BY <1>0, ResolveEffect DEF IssuedBy, DurableOf, Write
<1>2. reply[r] = {}
  BY <1>0, ResolveEffect DEF AckInv, Unanswered
<1>3. Unanswered(r)' /\ "ok" \notin reply'[r]
  BY <1>0, <1>2, ResolveEffect DEF Unanswered
<1>4. NoneMissing(r)'
  BY <1>0, <1>1, ResolveEffect DEF AckInv, NoneMissing
<1>5. AbortShows(r)'
  BY <1>0, ResolveEffect DEF AckInv, AbortShows
<1> QED BY <1>3, <1>4, <1>5 DEF AckInv

(* A query that fails is a result, or the failure of a context query.      *)
LEMMA QueryFails ==
    ASSUME TypeOK, Uncaught, NEW r \in Requests, QueryDone(r, FALSE)
    PROVE  "error" \in results'[r] \/ (pc'[r] = "internal" /\ internal'[r] = "failed")
  BY DEF Uncaught, QueryDone, GoOn, EndOp, TypeOK

LEMMA QueryKeepsResults ==
    ASSUME TypeOK, NEW r \in Requests, NEW ok \in BOOLEAN, QueryDone(r, ok)
    PROVE  results[r] \subseteq results'[r] /\ pc'[r] \notin {"drop", "gone"}
  BY DEF QueryDone, GoOn, EndOp, TypeOK

(* Steps that leave the holder and the server alone.                       *)
LEMMA AckQuery ==
    ASSUME SessionInv, Uncaught, NEW r \in Requests, AckInv(r),
           with_tx(r) \/ get_client_fails(r) \/ convert_rows(r) \/ finalize_internal(r)
    PROVE  AckInv(r)'
<1> USE DEF holder, server
<1>0. TypeOK
  BY DEF SessionInv
<1>1. UNCHANGED <<reply, status, client, tx, pending, durable, issued>>
  BY DEF with_tx, get_client_fails, convert_rows, finalize_internal
<1>2. IssuedBy(r)' = IssuedBy(r) /\ DurableOf(r)' = DurableOf(r)
  BY <1>1 DEF IssuedBy, DurableOf, Write
<1>3. pc[r] \notin {"drop", "gone"}
  BY DEF with_tx, get_client_fails, convert_rows, finalize_internal
<1>4. NoneMissing(r)' /\ Unanswered(r)'
  BY <1>1, <1>2, <1>3 DEF AckInv, NoneMissing, Unanswered
<1>5. AbortShows(r)'
  <2>1. CASE with_tx(r) \/ get_client_fails(r) \/ convert_rows(r)
    <3>1. results[r] \subseteq results'[r] /\ pc[r] # "internal"
      BY <1>0, <2>1, QueryKeepsResults DEF with_tx, get_client_fails, convert_rows, GoOn
    <3> QED BY <1>1, <1>3, <3>1 DEF AckInv, AbortShows
  <2>2. CASE finalize_internal(r)
    <3>1. /\ results[r] \subseteq results'[r]
          /\ internal[r] = "failed" => "error" \in results'[r]
      BY <1>0, <2>2 DEF finalize_internal, GoOn, EndOp, TypeOK
    <3> QED BY <1>1, <1>3, <3>1 DEF AckInv, AbortShows
  <2> QED BY <2>1, <2>2
<1> QED BY <1>1, <1>2, <1>4, <1>5 DEF AckInv

LEMMA AckBegin ==
    ASSUME SessionInv, NEW r \in Requests, AckInv(r), begin_transaction(r)
    PROVE  AckInv(r)'
<1>0. TypeOK /\ client[r] \in Clients /\ pc[r] = "begin"
  BY DEF begin_transaction, SessionInv, Holding, TypeOK
<1>1. UNCHANGED <<reply, client, pending, durable, issued>>
  BY DEF begin_transaction
<1>2. IssuedBy(r)' = IssuedBy(r) /\ DurableOf(r)' = DurableOf(r)
  BY <1>1 DEF IssuedBy, DurableOf, Write
<1>3. CASE UNCHANGED <<tx, status>> /\ results[r] \subseteq results'[r]
  BY <1>0, <1>1, <1>2, <1>3 DEF AckInv, Unanswered, NoneMissing, AbortShows
<1>4. CASE /\ status[r] = "Idle" /\ status'[r] = "Active"
           /\ tx[client[r]] \in {"none", "open"} /\ tx'[client[r]] = "open"
  <2>1. tx[client[r]] = "none" /\ pending[client[r]] = {}
    BY <1>0, <1>4, NoClientAssumption DEF SessionInv, HolderKnows, Settled, InTx
  <2>2. DurableOf(r) = IssuedBy(r)
    BY <1>0, <1>4 DEF AckInv, NoneMissing
  <2> QED BY <1>0, <1>1, <1>2, <1>4, <2>1, <2>2 DEF AckInv, Unanswered, NoneMissing, AbortShows
<1>5. \/ UNCHANGED <<tx, status>> /\ (QueryDone(r, FALSE) \/ GoOn(r, "step"))
      \/ /\ status[r] = "Idle" /\ status' = [status EXCEPT ![r] = "Active"]
         /\ tx[client[r]] \in {"none", "open"} /\ tx' = [tx EXCEPT ![client[r]] = "open"]
  BY DEF begin_transaction
<1>6. QueryDone(r, FALSE) \/ GoOn(r, "step") => results[r] \subseteq results'[r]
  BY <1>0, QueryKeepsResults DEF GoOn
<1>7. DOMAIN status = Requests /\ DOMAIN tx = Clients
  BY <1>0 DEF TypeOK
<1> QED BY <1>0, <1>3, <1>4, <1>5, <1>6, <1>7

LEMMA AckExecute ==
    ASSUME SessionInv, NEW r \in Requests, RequestInv(r), AckInv(r), execute_step(r)
    PROVE  AckInv(r)'
<1> USE DEF holder
<1>0. /\ TypeOK /\ client[r] \in Clients /\ pc[r] = "step" /\ status[r] # "Finalized"
      /\ tx[client[r]] \in {"none", "open"} /\ issued[r] \in Nat
  BY DEF execute_step, SessionInv, Holding, TypeOK
<1>1. UNCHANGED <<results, reply, status, client, tx>> /\ pc'[r] \notin {"drop", "gone"}
  BY <1>0 DEF execute_step, TypeOK
<1>2. reply[r] = {} /\ Unanswered(r)' /\ AbortShows(r)'
  BY <1>0, <1>1 DEF AckInv, Unanswered, AbortShows
<1>3. CASE internal[r] = "now"
  <2>1. UNCHANGED <<pending, durable, issued>>
    BY <1>3 DEF execute_step, Perform
  <2>2. IssuedBy(r)' = IssuedBy(r) /\ DurableOf(r)' = DurableOf(r)
    BY <2>1 DEF IssuedBy, DurableOf, Write
  <2> QED BY <1>0, <1>1, <1>2, <2>1, <2>2 DEF AckInv, NoneMissing
<1>4. CASE internal[r] # "now" /\ tx[client[r]] = "none"
  <2>1. /\ issued' = [issued EXCEPT ![r] = @ + 1]
        /\ durable' = durable \cup {Write(r, issued[r] + 1)}
    BY <1>4 DEF execute_step, Perform
  <2>2. status[r] = "Idle"
    BY <1>0, <1>4 DEF RequestInv, PendingIsAll, TypeOK
  <2>3. DurableOf(r) = IssuedBy(r)
    BY <1>0, <2>2 DEF AckInv, NoneMissing
  <2>4. DurableOf(r)' = IssuedBy(r)'
    BY <1>0, <2>1, <2>3, IssuedOneMore, DurableOneMore
  <2> QED BY <1>1, <1>2, <2>2, <2>4 DEF AckInv, NoneMissing
<1>5. CASE internal[r] # "now" /\ tx[client[r]] = "open"
  <2>1. /\ issued' = [issued EXCEPT ![r] = @ + 1] /\ UNCHANGED durable
        /\ pending' = [pending EXCEPT ![client[r]] = @ \cup {Write(r, issued[r] + 1)}]
    BY <1>5 DEF execute_step, Perform
  <2>2. status[r] = "Active"
    BY <1>0, <1>5, NoClientAssumption DEF SessionInv, HolderKnows, InTx
  <2>3. DurableOf(r) \cup pending[client[r]] = IssuedBy(r)
    BY <1>0, <1>5, <2>2 DEF AckInv, NoneMissing
  <2>4. DurableOf(r)' = DurableOf(r)
    BY <2>1 DEF DurableOf
  <2>5. pending'[client[r]] = pending[client[r]] \cup {Write(r, issued[r] + 1)}
    BY <1>0, <2>1 DEF TypeOK
  <2>6. DurableOf(r)' \cup pending'[client[r]] = IssuedBy(r)'
    BY <1>0, <2>1, <2>3, <2>4, <2>5, IssuedOneMore, ZenonT(40)
  <2> QED BY <1>1, <1>2, <2>2, <2>6 DEF AckInv, NoneMissing
<1> QED BY <1>0, <1>3, <1>4, <1>5

LEMMA AckFailure ==
    ASSUME SessionInv, Uncaught, NEW r \in Requests, AckInv(r), step_fails(r)
    PROVE  AckInv(r)'
<1> USE DEF holder, server
<1>0. TypeOK /\ client[r] \in Clients /\ pc[r] = "step" /\ status[r] # "Finalized"
  BY DEF step_fails, SessionInv, Holding, TypeOK
<1>1. UNCHANGED <<reply, status, client>> /\ QueryDone(r, FALSE)
  BY DEF step_fails
<1>2. reply[r] = {} /\ Unanswered(r)'
  BY <1>0, <1>1 DEF AckInv, Unanswered
<1>3. AbortShows(r)'
  BY <1>0, <1>1, QueryFails DEF AbortShows
<1>4. NoneMissing(r)'
  <2>1. CASE UNCHANGED <<pending, durable, issued>> /\ (tx' = tx \/ tx'[client[r]] # "open")
    <3>1. IssuedBy(r)' = IssuedBy(r) /\ DurableOf(r)' = DurableOf(r)
      BY <2>1 DEF IssuedBy, DurableOf, Write
    <3> QED BY <1>0, <1>1, <2>1, <3>1 DEF AckInv, NoneMissing
  <2>2. CASE UNCHANGED <<durable, issued>> /\ tx'[client[r]] = "closed"
    <3>1. IssuedBy(r)' = IssuedBy(r) /\ DurableOf(r)' = DurableOf(r)
      BY <2>2 DEF IssuedBy, DurableOf, Write
    <3> QED BY <1>0, <1>1, <2>2, <3>1 DEF AckInv, NoneMissing
  <2>3. CASE /\ tx'[client[r]] = "closed"
             /\ durable' = durable \cup {Write(r, issued[r] + 1)}
             /\ issued' = [issued EXCEPT ![r] = @ + 1]
    <3>1. status[r] = "Idle" => DurableOf(r)' = IssuedBy(r)'
      BY <1>0, <2>3, IssuedOneMore, DurableOneMore DEF AckInv, NoneMissing
    <3> QED BY <1>1, <2>3, <3>1 DEF NoneMissing
  <2> QED BY <1>0, <2>1, <2>2, <2>3 DEF step_fails, TypeOK
<1> QED BY <1>1, <1>2, <1>3, <1>4 DEF AckInv

LEMMA AckDatabase ==
    ASSUME SessionInv, Uncaught, NEW r \in Requests, RequestInv(r), AckInv(r), Database(r)
    PROVE  AckInv(r)'
  BY AckQuery, AckBegin, AckExecute, AckFailure DEF Database

LEMMA AckClient ==
    ASSUME SessionInv, NEW r \in Requests, AckInv(r), NEW c \in Clients, get_client(r, c)
    PROVE  AckInv(r)'
<1>0. TypeOK /\ pc[r] = "with_tx" /\ status[r] = "Idle" /\ tx[c] \in {"none", "closed"}
  BY DEF get_client, SessionInv, Holding, Isolation, TypeOK
<1>1. /\ UNCHANGED <<reply, results, status, pending, durable, issued>>
      /\ client'[r] = c /\ tx'[c] = "none" /\ pc'[r] = "begin"
  BY <1>0 DEF get_client, TypeOK
<1>2. IssuedBy(r)' = IssuedBy(r) /\ DurableOf(r)' = DurableOf(r)
  BY <1>1 DEF IssuedBy, DurableOf, Write
<1> QED BY <1>0, <1>1, <1>2 DEF AckInv, Unanswered, NoneMissing, AbortShows

LEMMA AckRelease ==
    ASSUME TypeOK, NEW r \in Requests, AckInv(r), Release(r)
    PROVE  AckInv(r)'
<1>1. UNCHANGED <<reply, durable, issued>> /\ pc'[r] = "gone"
  BY DEF Release, TypeOK
<1>2. IssuedBy(r)' = IssuedBy(r) /\ DurableOf(r)' = DurableOf(r)
  BY <1>1 DEF IssuedBy, DurableOf, Write
<1> QED BY <1>1, <1>2 DEF AckInv, Unanswered, NoneMissing, AbortShows

LEMMA AckRespond ==
    ASSUME SessionInv, NEW r \in Requests, RequestInv(r), AckInv(r),
           NEW commit \in BOOLEAN, NEW ok \in BOOLEAN, NEW a,
           Respond(r, commit, ok, a), pc[r] = "ops",
           "ok" \in a => commit /\ ok /\ "error" \notin results[r]
    PROVE  AckInv(r)'
<1>0. TypeOK /\ status[r] \in {"Idle", "Active"}
  BY DEF SessionInv, Holding, TypeOK
<1>1. UNCHANGED issued /\ pc'[r] = "drop" /\ reply'[r] = a
  BY <1>0 DEF Respond, TypeOK
<1>2. IssuedBy(r)' = IssuedBy(r)
  BY <1>1 DEF IssuedBy, Write
<1>3. Unanswered(r)' /\ NoneMissing(r)' /\ AbortShows(r)'
  BY <1>1 DEF Unanswered, NoneMissing, AbortShows
<1>4. ASSUME "ok" \in a
      PROVE  DurableOf(r)' = IssuedBy(r)
  <2>1. CASE status[r] = "Idle"
    <3>1. durable' = durable
      BY <2>1 DEF Respond, finalize
    <3> QED BY <2>1, <3>1 DEF AckInv, NoneMissing, DurableOf
  <2>2. CASE status[r] = "Active"
    <3>1. client[r] \in Clients /\ client[r] # NoClient
      BY <1>0, <2>2 DEF SessionInv, Holding, TypeOK
    <3>2. tx[client[r]] # "closed"
      BY <1>4, <2>2 DEF Respond, finalize
    <3>3. tx[client[r]] # "aborted"
      BY <1>4, <3>1 DEF AckInv, AbortShows
    <3>4. tx[client[r]] = "open"
      BY <1>0, <2>2, <3>1, <3>2, <3>3 DEF RequestInv, PendingIsAll, TypeOK
    <3>5. durable' = durable \cup pending[client[r]]
      BY <1>4, <2>2, <3>4 DEF Respond, finalize
    <3>6. DurableOf(r)' = DurableOf(r) \cup pending[client[r]]
      BY <3>1, <3>5, PendingOwn DEF DurableOf
    <3> QED BY <2>2, <3>4, <3>6 DEF AckInv, NoneMissing
  <2> QED BY <1>0, <2>1, <2>2
<1> QED BY <1>1, <1>2, <1>3, <1>4 DEF AckInv

(* Where no connection is lost, none is closed.                            *)
LEMMA ConnectedStep ==
    ASSUME SessionInv, Connected, [Next]_vars
    PROVE  Connected'
<1> USE DEF Connected, server, holder
<1>0. TypeOK
  BY DEF SessionInv
<1>1. CASE UNCHANGED vars
  BY <1>1 DEF vars
<1>2. ASSUME NEW r \in Requests, Resolve(r) PROVE Connected'
  BY <1>0, <1>2, ResolveEffect
<1>3. ASSUME NEW r \in Requests, Database(r) PROVE Connected'
  <2>1. CASE with_tx(r) \/ get_client_fails(r) \/ convert_rows(r) \/ finalize_internal(r)
    BY <2>1 DEF with_tx, get_client_fails, convert_rows, finalize_internal
  <2>2. CASE begin_transaction(r)
    <3>1. tx' = tx \/ tx' = [tx EXCEPT ![client[r]] = "open"]
      BY <2>2 DEF begin_transaction
    <3> QED BY <1>0, <3>1 DEF TypeOK
  <2>3. CASE execute_step(r)
    BY <2>3 DEF execute_step
  <2>4. CASE step_fails(r)
    BY <1>0, <2>4 DEF step_fails, TypeOK
  <2> QED BY <1>3, <2>1, <2>2, <2>3, <2>4 DEF Database
<1>4. ASSUME NEW r \in Requests, Finish(r) PROVE Connected'
  <2>1. ASSUME NEW commit \in BOOLEAN, NEW ok \in BOOLEAN, NEW a, Respond(r, commit, ok, a)
        PROVE  Connected'
    BY <1>0, <2>1 DEF Respond, finalize, TypeOK
  <2>2. CASE drop(r)
    BY <1>0, <2>2 DEF drop, Release, TypeOK
  <2> QED BY <1>4, <2>1, <2>2 DEF Finish, finish_graphql, finish_single, finish_batch
<1>5. ASSUME NEW r \in Requests, disconnect(r) PROVE Connected'
  BY <1>0, <1>5 DEF disconnect, Release, TypeOK
<1>6. ASSUME NEW r \in Requests, NEW c \in Clients, get_client(r, c) PROVE Connected'
  BY <1>0, <1>6 DEF get_client, TypeOK
<1> QED BY <1>1, <1>2, <1>3, <1>4, <1>5, <1>6 DEF Next, Step, Quiescent

(* The router of a request does not change.                                *)
LEMMA EntryStep ==
    ASSUME entry \in [Requests -> Entries], [Next]_vars
    PROVE  entry' \in [Requests -> Entries]
<1> USE DEF request
<1>1. CASE UNCHANGED vars
  BY <1>1 DEF vars
<1>2. ASSUME NEW r \in Requests, Step(r) PROVE entry' = entry
  <2>1. CASE Resolve(r)
    BY <2>1 DEF Resolve, resolve_operations, handle_batch, handle_single,
         resolve_without_database, resolve_operation, return_from_script,
         extract_context_field, execute_query
  <2>2. CASE Database(r)
    BY <2>2 DEF Database, with_tx, get_client_fails, begin_transaction, execute_step,
         step_fails, convert_rows, finalize_internal
  <2>3. CASE Finish(r)
    BY <2>3 DEF Finish, finish_graphql, finish_single, finish_batch, Respond, drop, Release
  <2> QED BY <1>2, <2>1, <2>2, <2>3 DEF Step
<1>3. ASSUME NEW r \in Requests, disconnect(r) \/ \E c \in Clients : get_client(r, c)
      PROVE  entry' = entry
  BY <1>3 DEF disconnect, Release, get_client
<1> QED BY <1>1, <1>2, <1>3 DEF Next, Quiescent

Acked ==
    /\ AtomicInv /\ Connected /\ entry \in [Requests -> Entries]
    /\ \A r \in Requests : AckInv(r)

(* A COMMIT fails only where a connection is lost or the server rejects it.*)
LEMMA FinalizeSucceeds ==
    ASSUME Connected, TypeOK, NEW r \in Requests, NEW commit \in BOOLEAN, NEW ok \in BOOLEAN,
           finalize(r, commit, ok), Faults \cap {"rejected", "lost"} = {},
           status[r] = "Active" => client[r] \in Clients
    PROVE  ok
  BY DEF finalize, Connected, TypeOK

LEMMA AckFinish ==
    ASSUME Reported, Acked, NEW r \in Requests, Finish(r)
    PROVE  AckInv(r)'
<1>0. SessionInv /\ TypeOK /\ RequestInv(r) /\ AckInv(r) /\ Connected
  BY DEF Acked, AtomicInv, SessionInv
<1>1. pc[r] = "ops" /\ status[r] = "Active" => client[r] \in Clients
  BY <1>0 DEF SessionInv, Holding, TypeOK
<1>2. CASE finish_graphql(r)
  <2>1. PICK ok \in BOOLEAN :
          Respond(r, "error" \notin results[r], ok,
                  IF "error" \notin results[r] /\ ok THEN {"ok"} ELSE {"error"})
    BY <1>2 DEF finish_graphql
  <2> QED BY <1>0, <1>2, <2>1, AckRespond DEF finish_graphql, Resolved
<1>3. CASE finish_single(r)
  <2>1. PICK ok \in BOOLEAN :
          Respond(r, "error" \notin results[r], ok,
                  IF results[r] = {"ok"} THEN {"ok"} ELSE {"error"})
    BY <1>3 DEF finish_single
  <2>2. ok
    BY <1>0, <1>1, <1>3, <2>1, FinalizeSucceeds
       DEF Reported, Acked, Respond, finish_single, Resolved
  <2>3. /\ pc[r] = "ops" /\ ("error" \notin results[r]) \in BOOLEAN
        /\ "ok" \in (IF results[r] = {"ok"} THEN {"ok"} ELSE {"error"})
             => "error" \notin results[r]
    BY <1>3 DEF finish_single, Resolved
  <2> QED BY <1>0, <2>1, <2>2, <2>3, AckRespond
<1>4. CASE finish_batch(r)
  <2>1. PICK ok \in BOOLEAN :
          Respond(r, results[r] \subseteq {"ok"}, ok,
                  IF results[r] \subseteq {"ok"} THEN results[r] ELSE {"error"})
    BY <1>4 DEF finish_batch
  <2>2. ok
    BY <1>0, <1>1, <1>4, <2>1, FinalizeSucceeds
       DEF Reported, Acked, Respond, finish_batch, Resolved
  <2> QED BY <1>0, <1>4, <2>1, <2>2, AckRespond DEF finish_batch, Resolved
<1>5. CASE drop(r)
  BY <1>0, <1>5, AckRelease DEF drop
<1> QED BY <1>2, <1>3, <1>4, <1>5 DEF Finish

LEMMA FinishElsewhere ==
    ASSUME TypeOK, NEW r \in Requests, Finish(r) \/ disconnect(r), NEW q \in Requests \ {r}
    PROVE  results'[q] = results[q] /\ reply'[q] = reply[q]
<1>1. ASSUME NEW commit \in BOOLEAN, NEW ok \in BOOLEAN, NEW a, Respond(r, commit, ok, a)
      PROVE  results'[q] = results[q] /\ reply'[q] = reply[q]
  BY <1>1 DEF Respond, TypeOK
<1>2. ASSUME Release(r)
      PROVE  results'[q] = results[q] /\ reply'[q] = reply[q]
  BY <1>2 DEF Release, TypeOK
<1> QED BY <1>1, <1>2
        DEF Finish, finish_graphql, finish_single, finish_batch, drop, disconnect

LEMMA FinishApart ==
    ASSUME SessionInv, NEW r \in Requests, Finish(r) \/ disconnect(r), NEW q \in Requests \ {r}
    PROVE  Apart(q)
<1>1. ASSUME NEW commit \in BOOLEAN, NEW ok \in BOOLEAN, NEW a,
             Respond(r, commit, ok, a), pc[r] = "ops"
      PROVE  Apart(q)
  BY <1>1, ApartRespond
<1>2. CASE finish_graphql(r)
  BY <1>1, <1>2 DEF finish_graphql, Resolved
<1>3. CASE finish_single(r)
  BY <1>1, <1>3 DEF finish_single, Resolved
<1>4. CASE finish_batch(r)
  BY <1>1, <1>4 DEF finish_batch, Resolved
<1>5. CASE drop(r) \/ disconnect(r)
  BY <1>5, ApartRelease DEF drop, disconnect
<1> QED BY <1>2, <1>3, <1>4, <1>5 DEF Finish

(***************************************************************************)
(* Whatever step r makes: what the other requests have, results and        *)
(* answers included, stays.                                                *)
(***************************************************************************)
Moves(r) == Step(r) \/ disconnect(r) \/ \E c \in Clients : get_client(r, c)

LEMMA Elsewhere ==
    ASSUME SessionInv, NEW r \in Requests, Moves(r), NEW q \in Requests \ {r}
    PROVE  Apart(q) /\ results'[q] = results[q] /\ reply'[q] = reply[q]
<1>0. TypeOK
  BY DEF SessionInv
<1>1. CASE Resolve(r)
  BY <1>0, <1>1, ApartResolve, ResolveElsewhere
<1>2. CASE Database(r)
  BY <1>0, <1>2, ApartDatabase, DatabaseElsewhere
<1>3. CASE Finish(r) \/ disconnect(r)
  BY <1>0, <1>3, FinishApart, FinishElsewhere
<1>4. CASE \E c \in Clients : get_client(r, c)
  BY <1>4, ApartClient DEF get_client
<1> QED BY <1>1, <1>2, <1>3, <1>4 DEF Moves, Step

LEMMA AckedStep ==
    ASSUME NoOrphans, Uncaught, Reported, Acked, [Next]_vars
    PROVE  Acked'
<1>0. SessionInv /\ TypeOK /\ \A r \in Requests : RequestInv(r) /\ AckInv(r)
  BY DEF Acked, AtomicInv, SessionInv
<1>1. AtomicInv' /\ Connected' /\ entry' \in [Requests -> Entries]
  BY <1>0, AtomicStep, ConnectedStep, EntryStep DEF Acked
<1>2. ASSUME NEW r \in Requests, AckInv(r)', Moves(r)
      PROVE  Acked'
  BY <1>0, <1>1, <1>2, Elsewhere, AckFrame DEF Acked
<1>3. CASE UNCHANGED vars
  <2>1. ASSUME NEW q \in Requests PROVE AckInv(q)'
    BY <1>0, <1>3, AckFrame DEF Apart, Untouched, DurableOf, vars, request, holder, server
  <2> QED BY <1>1, <2>1 DEF Acked
<1>4. ASSUME NEW r \in Requests, Step(r) PROVE AckInv(r)'
  BY <1>0, <1>4, AckResolve, AckDatabase, AckFinish DEF Step
<1>5. ASSUME NEW r \in Requests, disconnect(r) PROVE AckInv(r)'
  BY <1>0, <1>5, AckRelease DEF disconnect
<1>6. ASSUME NEW r \in Requests, NEW c \in Clients, get_client(r, c) PROVE AckInv(r)'
  BY <1>0, <1>6, AckClient
<1> QED BY <1>2, <1>3, <1>4, <1>5, <1>6 DEF Next, Moves, Quiescent

LEMMA AckedInit ==
    ASSUME Init
    PROVE  Acked
<1>1. ASSUME NEW r \in Requests PROVE AckInv(r)
  <2>1. /\ reply[r] = {} /\ client[r] = NoClient /\ status[r] = "Idle"
        /\ issued[r] = 0 /\ DurableOf(r) = {}
    BY DEF Init, DurableOf
  <2> QED BY <2>1, IssuedNothing DEF AckInv, Unanswered, NoneMissing, AbortShows
<1>2. Connected /\ entry \in [Requests -> Entries]
  BY DEF Init, Connected
<1> QED BY <1>1, <1>2, AtomicInit DEF Acked

(***************************************************************************)
(* A success in the response means that every write is committed: on the   *)
(* GraphQL router under every failure, and on all routers where no COMMIT  *)
(* fails, which the RPC router only logs.  It takes that JavaScript code   *)
(* hides no failed query: COMMIT ends an aborted transaction quietly.      *)
(***************************************************************************)
THEOREM AckedIsDurableHolds ==
    ASSUME NoOrphans, Uncaught, Reported
    PROVE  Spec => []AckedIsDurable
<1>1. Init => Acked
  BY AckedInit
<1>2. Acked /\ [Next]_vars => Acked'
  BY AckedStep
<1>3. Acked => AckedIsDurable
  BY DEF Acked, AckInv, AckedIsDurable
<1> QED BY <1>1, <1>2, <1>3, PTL DEF Spec

-----------------------------------------------------------------------------
(* An error means that nothing is committed                                *)

(* Where the connection breaks, the outcome of a COMMIT is unknown; where  *)
(* the rows of a statement outside a transaction cannot be converted, the  *)
(* statement has taken effect.                                             *)
Sure == Faults \cap {"lost", "convert"} = {}

LEMMA ErrFrame ==
    ASSUME NEW q \in Requests, ErrInv(q), Apart(q),
           results'[q] = results[q], reply'[q] = reply[q]
    PROVE  ErrInv(q)'
<1>1. Unanswered(q)' /\ OneResult(q)'
  BY DEF ErrInv, Unanswered, OneResult, Apart, Untouched
<1>2. Bare(q)' <=> Bare(q)
  BY DEF Bare, Apart, Untouched
<1>3. WrittenIsOk(q)'
  BY <1>2 DEF ErrInv, WrittenIsOk, Apart, Untouched
<1> QED BY <1>1, <1>2, <1>3 DEF ErrInv, Apart

(* A request that has not come to its first statement has written nothing. *)
LEMMA UnwrittenYet ==
    ASSUME NEW r \in Requests, RequestInv(r), ~Bare(r), status[r] = "Idle",
           pc[r] \in {"new", "op"} \/ (pc[r] = "ops" /\ left[r] # 0)
    PROVE  issued[r] = 0 /\ DurableOf(r) = {}
<1>1. issued[r] = 0
  BY DEF RequestInv, OneStatement
<1> QED BY <1>1, IssuedNothing DEF RequestInv

LEMMA NewIsIdle ==
    ASSUME SessionInv, NEW r \in Requests, pc[r] = "new"
    PROVE  status[r] = "Idle"
  BY DEF SessionInv, Holding, TypeOK

(* One more result of the one operation of r.                              *)
LEMMA ErrResolve ==
    ASSUME SessionInv, NEW r \in Requests, RequestInv(r), ErrInv(r), Resolve(r)
    PROVE  ErrInv(r)'
<1> USE DEF server, holder
<1>0. TypeOK /\ left[r] \in Nat /\ UNCHANGED <<status, durable, issued>>
  BY ResolveEffect, BoundsAssumption DEF SessionInv, TypeOK
<1>1. pc[r] \in {"new", "ops", "op"} /\ reply[r] = {} /\ DurableOf(r)' = DurableOf(r)
  BY <1>0, ResolveEffect DEF ErrInv, Unanswered, DurableOf
<1>2. ASSUME reply' = reply, OneResult(r)', WrittenIsOk(r)'
      PROVE  ErrInv(r)'
  BY <1>1, <1>2 DEF ErrInv, Unanswered
<1>3. pc[r] = "new" => ~needs[r] /\ ~Bare(r) /\ results[r] = {}
  BY DEF RequestInv, SingleOperation, ErrInv, OneResult, Bare
<1>4. pc[r] = "new" => /\ ~needs[r] /\ results[r] = {} /\ status[r] = "Idle"
                       /\ issued[r] = 0 /\ DurableOf(r) = {}
  BY <1>3, NewIsIdle, UnwrittenYet
<1>5. CASE \E n \in 0..MaxOps : resolve_operations(r, n)
  <2>1. /\ pc[r] = "new" /\ pc'[r] = "ops" /\ left'[r] > 0 /\ entry'[r] = "graphql"
        /\ UNCHANGED <<results, reply>>
    BY <1>0, <1>5 DEF resolve_operations, TypeOK
  <2> QED BY <1>0, <1>2, <1>4, <2>1 DEF OneResult, WrittenIsOk, Working
<1>6. CASE \E n \in 0..MaxOps : handle_batch(r, n)
  <2>1. /\ pc[r] = "new" /\ entry[r] = "batch" /\ UNCHANGED <<entry, results>>
        /\ \/ pc'[r] = "drop" /\ reply'[r] = {"error"}
           \/ pc'[r] = "ops" /\ needs'[r] /\ reply' = reply
    BY <1>0, <1>6 DEF handle_batch, TypeOK
  <2>2. CASE pc'[r] = "drop" /\ reply'[r] = {"error"}
    BY <1>0, <1>1, <1>4, <2>1, <2>2 DEF ErrInv, Unanswered, OneResult, WrittenIsOk, Working
  <2>3. CASE pc'[r] = "ops" /\ needs'[r] /\ reply' = reply
    BY <1>0, <1>2, <1>4, <2>1, <2>3 DEF OneResult, WrittenIsOk, Working
  <2> QED BY <2>1, <2>2, <2>3
<1>7. CASE handle_single(r)
  <2>1. /\ pc[r] = "new" /\ UNCHANGED <<entry, results, reply, needs>>
        /\ pc'[r] = "drop" \/ (pc'[r] = "ops" /\ left'[r] = 1)
    BY <1>0, <1>7 DEF handle_single, TypeOK
  <2> QED BY <1>0, <1>2, <1>4, <2>1 DEF OneResult, WrittenIsOk, Working
<1>8. CASE resolve_without_database(r)
  <2>1. /\ pc[r] = "ops" /\ left[r] > 0 /\ left'[r] = left[r] - 1
        /\ UNCHANGED <<pc, entry, running, reply, needs>>
        /\ \/ entry[r] = "batch" /\ results' = results
           \/ \E o \in Outcomes : results'[r] = results[r] \cup {o}
    BY <1>0, <1>8 DEF resolve_without_database, TypeOK
  <2>2. ~Bare(r) /\ (Bare(r)' <=> Bare(r))
    BY <2>1 DEF RequestInv, SingleOperation, Bare
  <2>3. status[r] = "Idle" => issued[r] = 0
    BY <2>1, <2>2, UnwrittenYet
  <2>4. ~needs[r] \/ entry[r] = "rpc" => left[r] = 1 /\ results[r] = {} /\ entry[r] # "batch"
    BY <1>0, <2>1 DEF RequestInv, SingleOperation, ErrInv, OneResult
  <2>5. OneResult(r)'
    BY <2>1, <2>4 DEF OneResult, Working
  <2>6. WrittenIsOk(r)'
    BY <1>0, <2>1, <2>2, <2>3, <2>4 DEF ErrInv, WrittenIsOk
  <2> QED BY <1>2, <2>1, <2>5, <2>6
<1>9. CASE \E how \in {"postgres", "script", "module"} : resolve_operation(r, how)
  <2>1. /\ pc[r] = "ops" /\ left[r] > 0 /\ pc'[r] = "op" /\ (needs[r] => needs'[r])
        /\ UNCHANGED <<entry, results, reply>>
    BY <1>0, <1>9 DEF resolve_operation, TypeOK
  <2> QED BY <1>2, <2>1 DEF ErrInv, OneResult, WrittenIsOk, Working
<1>10. CASE return_from_script(r)
  <2>1. /\ pc[r] = "op" /\ running[r] # "postgres" /\ pc'[r] = "ops"
        /\ \E o \in {"ok", "error"} : results'[r] = results[r] \cup {o}
        /\ UNCHANGED <<entry, left, running, reply, needs>>
    BY <1>0, <1>10 DEF return_from_script, EndOp, TypeOK
  <2>2. ~needs[r] \/ entry[r] = "rpc" => left[r] = 0 /\ results[r] = {}
    BY <2>1 DEF RequestInv, SingleOperation, ErrInv, OneResult, Working
  <2>3. ~Bare(r) /\ status[r] = "Idle" => issued[r] = 0
    BY <2>1, UnwrittenYet
  <2>4. OneResult(r)'
    BY <2>1, <2>2 DEF OneResult, Working, Outcomes
  <2>5. WrittenIsOk(r)'
    BY <1>0, <2>1, <2>2, <2>3 DEF WrittenIsOk, Bare
  <2> QED BY <1>2, <2>1, <2>4, <2>5
<1>11. CASE \/ \E ensure \in BOOLEAN : extract_context_field(r, ensure)
            \/ \E n \in 1..MaxSteps, ensure \in BOOLEAN : execute_query(r, n, ensure)
  <2>1. /\ pc[r] = "op" /\ pc'[r] = "with_tx" /\ (needs[r] => needs'[r])
        /\ UNCHANGED <<entry, results, reply>>
    BY <1>0, <1>11 DEF extract_context_field, execute_query, TypeOK
  <2> QED BY <1>2, <2>1 DEF ErrInv, OneResult, WrittenIsOk, Working
<1> QED BY <1>5, <1>6, <1>7, <1>8, <1>9, <1>10, <1>11 DEF Resolve

(* A query ends with one more result, or the operation goes on.            *)
LEMMA QueryResult ==
    ASSUME TypeOK, NEW r \in Requests, NEW ok \in BOOLEAN, QueryDone(r, ok)
    PROVE  \/ pc'[r] \in {"op", "internal"} /\ results' = results
           \/ pc'[r] = "ops" /\ results'[r] = results[r] \cup {IF ok THEN "ok" ELSE "error"}
<1>1. ASSUME NEW o, EndOp(r, o)
      PROVE  pc'[r] = "ops" /\ results'[r] = results[r] \cup {o}
  BY <1>1 DEF EndOp, TypeOK
<1>2. ASSUME NEW place, GoOn(r, place)
      PROVE  pc'[r] = place /\ results' = results
  BY <1>2 DEF GoOn, TypeOK
<1> QED BY <1>1, <1>2 DEF QueryDone

(* A step of a query that keeps the invariant if no write is denied.       *)
LEMMA ErrQuery ==
    ASSUME TypeOK, NEW r \in Requests, RequestInv(r), ErrInv(r), pc[r] \in Working,
           UNCHANGED <<entry, left, running, reply, needs>>, pc'[r] # "drop",
           status'[r] = status[r] \/ status'[r] = "Active",
           \/ pc'[r] \in Working /\ results'[r] = results[r]
           \/ /\ pc'[r] = "ops"
              /\ \E o \in {"ok", "error"} :
                   /\ results'[r] = results[r] \cup {o}
                   /\ ~Bare(r) /\ status'[r] = "Idle" /\ issued'[r] # 0
                        => o = "ok" /\ results[r] = {}
    PROVE  ErrInv(r)'
<1>1. reply'[r] = {}
  BY DEF ErrInv, Unanswered, Working
<1>2. ~needs[r] \/ entry[r] = "rpc" => left[r] = 0 /\ results[r] = {}
  BY DEF RequestInv, SingleOperation, ErrInv, OneResult
<1>3. OneResult(r)'
  BY <1>2 DEF OneResult, Outcomes, Working
<1>4. WrittenIsOk(r)'
  <2>1. CASE pc'[r] \in Working
    BY <2>1 DEF WrittenIsOk, Working
  <2>2. CASE pc'[r] = "ops"
    <3>1. PICK o \in {"ok", "error"} :
            /\ results'[r] = results[r] \cup {o}
            /\ ~Bare(r) /\ status'[r] = "Idle" /\ issued'[r] # 0 => o = "ok" /\ results[r] = {}
      BY <2>2 DEF Working
    <3> QED BY <1>2, <2>2, <3>1 DEF WrittenIsOk, Bare
  <2> QED BY <2>1, <2>2
<1> QED BY <1>1, <1>3, <1>4 DEF ErrInv, Unanswered

LEMMA ErrDatabase ==
    ASSUME SessionInv, Sure, NEW r \in Requests, RequestInv(r), ErrInv(r), Database(r)
    PROVE  ErrInv(r)'
<1> USE DEF server, holder
<1>0. TypeOK
  BY DEF SessionInv
<1>1. pc[r] \in Working /\ UNCHANGED <<entry, left, running, reply, needs>>
  BY DEF Database, with_tx, get_client_fails, begin_transaction, execute_step, step_fails,
         convert_rows, finalize_internal, Working
<1>2. ASSUME QueryDone(r, FALSE), issued' = issued, status' = status,
             pc[r] \in {"with_tx", "begin", "step"}
      PROVE  ErrInv(r)'
  <2>1. ~Bare(r) /\ status[r] = "Idle" => issued[r] = 0
    BY <1>2, NothingYet
  <2>2. \/ pc'[r] \in Working /\ results'[r] = results[r]
        \/ pc'[r] = "ops" /\ results'[r] = results[r] \cup {"error"}
    BY <1>0, <1>2, QueryResult DEF Working
  <2> QED BY <1>0, <1>1, <1>2, <2>1, <2>2, ErrQuery DEF Working
<1>3. ASSUME NEW place \in Working, GoOn(r, place), status'[r] \in {status[r], "Active"}
      PROVE  ErrInv(r)'
  <2>1. pc'[r] \in Working /\ results'[r] = results[r]
    BY <1>0, <1>3 DEF GoOn, TypeOK
  <2> QED BY <1>0, <1>1, <1>3, <2>1, ErrQuery DEF Working
<1>4. CASE with_tx(r) \/ get_client_fails(r)
  BY <1>2, <1>3, <1>4 DEF with_tx, get_client_fails, Working
<1>5. CASE begin_transaction(r)
  <2>1. /\ issued' = issued /\ pc[r] = "begin"
        /\ \/ QueryDone(r, FALSE) /\ status' = status
           \/ GoOn(r, "step") /\ (status' = status \/ status' = [status EXCEPT ![r] = "Active"])
    BY <1>5 DEF begin_transaction
  <2> QED BY <1>0, <1>2, <1>3, <2>1 DEF Working, TypeOK
<1>6. CASE execute_step(r)
  <2>1. pc'[r] \in {"step", "convert"} /\ results' = results /\ status' = status
    BY <1>0, <1>6 DEF execute_step, TypeOK
  <2> QED BY <1>0, <1>1, <2>1, ErrQuery DEF Working
<1>7. CASE step_fails(r)
  <2>1. QueryDone(r, FALSE) /\ issued' = issued /\ status' = status /\ pc[r] = "step"
    BY <1>7 DEF step_fails, Sure
  <2> QED BY <1>2, <2>1
<1>8. CASE convert_rows(r)
  <2>1. QueryDone(r, TRUE) /\ issued' = issued /\ status' = status /\ pc[r] = "convert"
    BY <1>8 DEF convert_rows, Sure
  <2>2. ~Bare(r) /\ status[r] = "Idle" /\ issued[r] # 0 => results[r] = {}
    BY <2>1 DEF RequestInv, OneStatement, ErrInv, OneResult, Working
  <2>3. \/ pc'[r] \in Working /\ results'[r] = results[r]
        \/ pc'[r] = "ops" /\ results'[r] = results[r] \cup {"ok"}
    BY <1>0, <2>1, QueryResult DEF Working
  <2> QED BY <1>0, <1>1, <2>1, <2>2, <2>3, ErrQuery DEF Working
<1>9. CASE finalize_internal(r)
  <2>1. /\ issued' = issued /\ status' = status /\ pc[r] = "internal"
        /\ \/ pc'[r] = "op" /\ results'[r] = results[r]
           \/ pc'[r] = "ops" /\ results'[r] = results[r] \cup {"error"}
    BY <1>0, <1>9 DEF finalize_internal, GoOn, EndOp, TypeOK
  <2>2. ~Bare(r) /\ status[r] = "Idle" => issued[r] = 0
    BY <2>1, NothingYet
  <2> QED BY <1>0, <1>1, <2>1, <2>2, ErrQuery DEF Working
<1> QED BY <1>4, <1>5, <1>6, <1>7, <1>8, <1>9 DEF Database

LEMMA ErrClient ==
    ASSUME SessionInv, NEW r \in Requests, RequestInv(r), ErrInv(r), NEW c \in Clients,
           get_client(r, c)
    PROVE  ErrInv(r)'
<1>0. TypeOK
  BY DEF SessionInv
<1>1. /\ pc[r] = "with_tx" /\ pc'[r] = "begin"
      /\ UNCHANGED <<entry, left, running, reply, needs, results, status>>
  BY <1>0 DEF get_client, TypeOK
<1> QED BY <1>0, <1>1, ErrQuery DEF Working

LEMMA ErrRelease ==
    ASSUME TypeOK, NEW r \in Requests, ErrInv(r), Release(r)
    PROVE  ErrInv(r)'
<1>1. UNCHANGED <<entry, running, reply, durable>> /\ pc'[r] = "gone"
  BY DEF Release, TypeOK
<1>2. DurableOf(r)' = DurableOf(r) /\ (Bare(r)' <=> Bare(r))
  BY <1>1 DEF DurableOf, Bare
<1> QED BY <1>1, <1>2 DEF ErrInv, Unanswered, OneResult, WrittenIsOk, Working

LEMMA ErrRespond ==
    ASSUME SessionInv, Sure, NEW r \in Requests, RequestInv(r), RequestInv(r)', ErrInv(r),
           NEW commit \in BOOLEAN, NEW ok \in BOOLEAN, NEW a,
           Respond(r, commit, ok, a), pc[r] = "ops",
           "error" \in a => ~commit \/ ~ok \/ issued[r] = 0,
           results[r] = {"ok"} /\ ok => "error" \notin a
    PROVE  ErrInv(r)'
<1>0. TypeOK /\ status[r] \in {"Idle", "Active"}
  BY DEF SessionInv, Holding, TypeOK
<1>1. UNCHANGED <<entry, running, issued>> /\ pc'[r] = "drop" /\ reply'[r] = a
  BY <1>0 DEF Respond, TypeOK
<1>2. Unanswered(r)' /\ OneResult(r)' /\ WrittenIsOk(r)'
  BY <1>1 DEF Unanswered, OneResult, WrittenIsOk, Working
<1>3. Bare(r)' <=> Bare(r)
  BY <1>1 DEF Bare
<1>4. ASSUME "error" \in a, ~Bare(r)
      PROVE  DurableOf(r)' = {}
  <2>1. CASE issued[r] = 0
    <3>1. IssuedBy(r)' = {}
      BY <1>1, <2>1 DEF IssuedBy
    <3> QED BY <1>3, <1>4, <3>1 DEF RequestInv
  <2>2. CASE status[r] = "Idle" /\ issued[r] # 0
    <3>1. results[r] = {"ok"}
      BY <1>4, <2>2 DEF ErrInv, WrittenIsOk
    <3>2. ok
      BY <2>2 DEF Respond, finalize
    <3> QED BY <1>4, <3>1, <3>2
  <2>3. CASE status[r] = "Active" /\ issued[r] # 0
    <3>1. DurableOf(r) = {}
      BY <1>4, <2>3 DEF RequestInv, NothingEarly
    <3>2. ~commit \/ ~ok
      BY <1>4, <2>3
    <3>3. durable' = durable
      BY <2>3, <3>2 DEF Respond, finalize, Sure
    <3> QED BY <3>1, <3>3 DEF DurableOf
  <2> QED BY <1>0, <2>1, <2>2, <2>3
<1> QED BY <1>1, <1>2, <1>3, <1>4 DEF ErrInv

ErrorInv == AtomicInv /\ \A r \in Requests : ErrInv(r)

LEMMA ErrFinish ==
    ASSUME Sure, ErrorInv, AtomicInv', NEW r \in Requests, Finish(r)
    PROVE  ErrInv(r)'
<1>0. SessionInv /\ TypeOK /\ RequestInv(r) /\ RequestInv(r)' /\ ErrInv(r)
  BY DEF ErrorInv, AtomicInv, SessionInv
<1>1. CASE finish_graphql(r)
  <2>1. PICK ok \in BOOLEAN :
          Respond(r, "error" \notin results[r], ok,
                  IF "error" \notin results[r] /\ ok THEN {"ok"} ELSE {"error"})
    BY <1>1 DEF finish_graphql
  <2>2. pc[r] = "ops" /\ ("error" \notin results[r]) \in BOOLEAN
    BY <1>1 DEF finish_graphql, Resolved
  <2> QED BY <1>0, <2>1, <2>2, ErrRespond
<1>2. CASE finish_single(r)
  <2>1. PICK ok \in BOOLEAN :
          Respond(r, "error" \notin results[r], ok,
                  IF results[r] = {"ok"} THEN {"ok"} ELSE {"error"})
    BY <1>2 DEF finish_single
  <2>2. pc[r] = "ops" /\ ("error" \notin results[r]) \in BOOLEAN
    BY <1>2 DEF finish_single, Resolved
  <2>3. \E o \in Outcomes : results[r] = {o}
    BY <1>0, <1>2 DEF finish_single, Resolved, ErrInv, OneResult
  <2>4. results[r] # {"ok"} => "error" \in results[r] \/ issued[r] = 0
    BY <1>0, <1>2, <2>3 DEF finish_single, Resolved, ErrInv, WrittenIsOk, Outcomes
  <2> QED BY <1>0, <2>1, <2>2, <2>4, ErrRespond
<1>3. CASE finish_batch(r)
  <2>1. PICK ok \in BOOLEAN :
          Respond(r, results[r] \subseteq {"ok"}, ok,
                  IF results[r] \subseteq {"ok"} THEN results[r] ELSE {"error"})
    BY <1>3 DEF finish_batch
  <2>2. pc[r] = "ops" /\ (results[r] \subseteq {"ok"}) \in BOOLEAN
    BY <1>3 DEF finish_batch, Resolved
  <2> QED BY <1>0, <2>1, <2>2, ErrRespond
<1>4. CASE drop(r)
  BY <1>0, <1>4, ErrRelease DEF drop
<1> QED BY <1>1, <1>2, <1>3, <1>4 DEF Finish

LEMMA ErrorStep ==
    ASSUME NoOrphans, Sure, ErrorInv, [Next]_vars
    PROVE  ErrorInv'
<1>0. SessionInv /\ TypeOK /\ AtomicInv' /\ \A r \in Requests : RequestInv(r) /\ ErrInv(r)
  BY AtomicStep DEF ErrorInv, AtomicInv, SessionInv
<1>1. ASSUME NEW r \in Requests, ErrInv(r)', Moves(r)
      PROVE  ErrorInv'
  BY <1>0, <1>1, Elsewhere, ErrFrame DEF ErrorInv
<1>2. CASE UNCHANGED vars
  <2>1. ASSUME NEW q \in Requests PROVE ErrInv(q)'
    BY <1>0, <1>2, ErrFrame DEF Apart, Untouched, DurableOf, vars, request, holder, server
  <2> QED BY <1>0, <2>1 DEF ErrorInv
<1>3. ASSUME NEW r \in Requests, Step(r) PROVE ErrInv(r)'
  BY <1>0, <1>3, ErrResolve, ErrDatabase, ErrFinish DEF Step
<1>4. ASSUME NEW r \in Requests, disconnect(r) PROVE ErrInv(r)'
  BY <1>0, <1>4, ErrRelease DEF disconnect
<1>5. ASSUME NEW r \in Requests, NEW c \in Clients, get_client(r, c) PROVE ErrInv(r)'
  BY <1>0, <1>5, ErrClient
<1> QED BY <1>1, <1>2, <1>3, <1>4, <1>5 DEF Next, Moves, Quiescent

LEMMA ErrorInit ==
    ASSUME Init
    PROVE  ErrorInv
<1>1. ASSUME NEW r \in Requests PROVE ErrInv(r)
  <2>1. /\ pc[r] = "new" /\ reply[r] = {} /\ results[r] = {}
    BY DEF Init
  <2> QED BY <2>1 DEF ErrInv, Unanswered, OneResult, WrittenIsOk
<1> QED BY <1>1, AtomicInit DEF ErrorInv

(***************************************************************************)
(* An error in the response means that no write is committed, on every     *)
(* router, also when JavaScript code hides failed queries, and when the    *)
(* error is an unknown method in a batch or a COMMIT the server rejects:   *)
(* where connections do not break and rows can be converted.               *)
(***************************************************************************)
THEOREM ErrorLeavesNothingHolds ==
    ASSUME NoOrphans, Sure
    PROVE  Spec => []ErrorLeavesNothing
<1>1. Init => ErrorInv
  BY ErrorInit
<1>2. ErrorInv /\ [Next]_vars => ErrorInv'
  BY ErrorStep
<1>3. ErrorInv => ErrorLeavesNothing
  BY DEF ErrorInv, ErrInv, ErrorLeavesNothing
<1> QED BY <1>1, <1>2, <1>3, PTL DEF Spec

-----------------------------------------------------------------------------
(* The server implements AtomicRequests                                    *)

NoRpc == "rpc" \notin Entries

LEMMA NeverBare ==
    ASSUME NoRpc, Acked, NEW r \in Requests
    PROVE  ~Bare(r)
  BY DEF NoRpc, Acked, Bare

LEMMA PrivateYet ==
    ASSUME Acked, NEW r \in Requests, pc[r] \notin {"drop", "gone"}, DurableOf(r) = {}
    PROVE  Atomic!Private(r)
  BY DEF Acked, AckInv, Unanswered, DurableOf, Atomic!Private

LEMMA AllIsIssued ==
    ASSUME NEW r \in Requests
    PROVE  Atomic!All(r) = IssuedBy(r)
  BY DEF Atomic!All, IssuedBy, Write

(* A statement outside a transaction is the first of its request.          *)
LEMMA ImplementsAutocommit ==
    ASSUME NoRpc, Acked, NEW r \in Requests, pc[r] = "step", status[r] = "Idle",
           issued' = [issued EXCEPT ![r] = @ + 1], reply' = reply,
           durable' = durable \cup {Write(r, issued[r] + 1)}
    PROVE  Atomic!Next
<1>1. RequestInv(r) /\ ~Bare(r)
  BY NeverBare DEF Acked, AtomicInv
<1>2. issued[r] = 0 /\ DurableOf(r) = {}
  BY <1>1, NothingYet
<1>3. Atomic!Private(r)
  BY <1>2, PrivateYet
<1>4. Atomic!Perform(r)
  BY <1>2, <1>3 DEF Atomic!Perform, Write
<1> QED BY <1>4 DEF Atomic!Next

LEMMA ImplementsExecute ==
    ASSUME NoRpc, Acked, NEW r \in Requests, execute_step(r)
    PROVE  Atomic!Next \/ UNCHANGED Atomic!vars
<1>0. /\ TypeOK /\ client[r] \in Clients /\ pc[r] = "step" /\ status[r] # "Finalized"
      /\ tx[client[r]] \in {"none", "open"} /\ RequestInv(r) /\ ~Bare(r) /\ SessionInv
  BY NeverBare DEF execute_step, SessionInv, Holding, TypeOK, Acked, AtomicInv
<1>1. reply' = reply
  BY DEF execute_step
<1>2. CASE internal[r] = "now"
  BY <1>1, <1>2 DEF execute_step, Perform, Atomic!vars
<1>3. CASE internal[r] # "now" /\ tx[client[r]] = "none"
  <2>1. status[r] = "Idle"
    BY <1>0, <1>3 DEF RequestInv, PendingIsAll, TypeOK
  <2> QED BY <1>0, <1>1, <1>3, <2>1, ImplementsAutocommit DEF execute_step, Perform
<1>4. CASE internal[r] # "now" /\ tx[client[r]] = "open"
  <2>1. status[r] = "Active"
    BY <1>0, <1>4, NoClientAssumption DEF SessionInv, HolderKnows, InTx
  <2>2. DurableOf(r) = {}
    BY <1>0, <2>1 DEF RequestInv, NothingEarly
  <2>3. Atomic!Private(r)
    BY <1>0, <2>2, PrivateYet
  <2>4. Atomic!Perform(r)
    BY <1>1, <1>4, <2>3 DEF execute_step, Perform, Atomic!Perform
  <2> QED BY <2>4 DEF Atomic!Next
<1> QED BY <1>0, <1>2, <1>3, <1>4

LEMMA ImplementsDatabase ==
    ASSUME NoRpc, Acked, NEW r \in Requests, Database(r)
    PROVE  Atomic!Next \/ UNCHANGED Atomic!vars
<1> USE DEF server, holder
<1>1. CASE \/ with_tx(r) \/ get_client_fails(r) \/ begin_transaction(r)
           \/ convert_rows(r) \/ finalize_internal(r)
  BY <1>1 DEF with_tx, get_client_fails, begin_transaction, convert_rows, finalize_internal,
              Atomic!vars
<1>2. CASE execute_step(r)
  BY <1>2, ImplementsExecute
<1>3. CASE step_fails(r)
  <2>1. \/ UNCHANGED <<durable, issued>>
        \/ /\ tx[client[r]] = "none"
           /\ durable' = durable \cup {Write(r, issued[r] + 1)}
           /\ issued' = [issued EXCEPT ![r] = @ + 1]
    BY <1>3 DEF step_fails
  <2>2. reply' = reply /\ pc[r] = "step"
    BY <1>3 DEF step_fails
  <2>3. tx[client[r]] = "none" => status[r] = "Idle"
    BY <2>2 DEF Acked, AtomicInv, SessionInv, TypeOK, Holding, RequestInv, PendingIsAll
  <2> QED BY <2>1, <2>2, <2>3, ImplementsAutocommit DEF Atomic!vars
<1> QED BY <1>1, <1>2, <1>3 DEF Database

LEMMA ImplementsRespond ==
    ASSUME NoRpc, Acked, Acked', NEW r \in Requests, NEW commit \in BOOLEAN,
           NEW ok \in BOOLEAN, NEW a \in SUBSET {"ok", "error"},
           Respond(r, commit, ok, a), pc[r] = "ops"
    PROVE  Atomic!Next
<1>0. SessionInv /\ TypeOK /\ RequestInv(r) /\ ~Bare(r) /\ reply[r] = {}
  BY NeverBare DEF Acked, AtomicInv, SessionInv, AckInv, Unanswered
<1>1. reply' = [reply EXCEPT ![r] = a] /\ issued' = issued
  BY DEF Respond
<1>2. durable' = durable \/ (Atomic!Private(r) /\ durable' = durable \cup Atomic!All(r))
  <2>1. CASE durable' = durable
    BY <2>1
  <2>2. CASE /\ status[r] = "Active" /\ tx[client[r]] = "open"
             /\ durable' = durable \cup pending[client[r]]
    <3>1. client[r] \in Clients /\ client[r] # NoClient
      BY <1>0, <2>2 DEF SessionInv, Holding, TypeOK
    <3>2. DurableOf(r) = {} /\ pending[client[r]] = IssuedBy(r)
      BY <1>0, <2>2, <3>1 DEF RequestInv, NothingEarly, PendingIsAll
    <3> QED BY <2>2, <3>2, PrivateYet, AllIsIssued
  <2> QED BY <2>1, <2>2 DEF Respond, finalize
<1>3. "ok" \in a => Atomic!All(r) \subseteq durable'
  <2>1. reply'[r] = a /\ IssuedBy(r)' = IssuedBy(r)
    BY <1>0, <1>1 DEF TypeOK, IssuedBy, Write
  <2>2. "ok" \in a => DurableOf(r)' = IssuedBy(r)
    BY <2>1 DEF Acked, AckInv
  <2> QED BY <2>2, AllIsIssued DEF DurableOf
<1>4. Atomic!Answer(r, a)
  BY <1>0, <1>1, <1>2, <1>3 DEF Atomic!Answer
<1> QED BY <1>4 DEF Atomic!Next

LEMMA ImplementsFinish ==
    ASSUME NoRpc, Acked, Acked', NEW r \in Requests, Finish(r)
    PROVE  Atomic!Next \/ UNCHANGED Atomic!vars
<1>1. CASE finish_graphql(r)
  BY <1>1, ImplementsRespond DEF finish_graphql, Resolved
<1>2. CASE finish_single(r)
  BY <1>2 DEF finish_single, Resolved, NoRpc, Acked
<1>3. CASE finish_batch(r)
  <2>1. ASSUME NEW commit \in BOOLEAN, commit = (results[r] \subseteq {"ok"})
        PROVE  (IF commit THEN results[r] ELSE {"error"}) \in SUBSET {"ok", "error"}
    BY <2>1
  <2> QED BY <1>3, <2>1, ImplementsRespond DEF finish_batch, Resolved
<1>4. CASE drop(r)
  BY <1>4 DEF drop, Release, Atomic!vars
<1> QED BY <1>1, <1>2, <1>3, <1>4 DEF Finish

LEMMA ImplementsResolve ==
    ASSUME Acked, NEW r \in Requests, Resolve(r)
    PROVE  Atomic!Next \/ UNCHANGED Atomic!vars
<1>0. TypeOK /\ AckInv(r)
  BY DEF Acked, AtomicInv, SessionInv
<1>1. UNCHANGED <<durable, issued>> /\ pc[r] \notin {"drop", "gone"}
  BY <1>0, ResolveEffect
<1>2. reply' = reply \/ reply' = [reply EXCEPT ![r] = {"error"}]
  BY DEF Resolve, resolve_operations, handle_batch, handle_single, resolve_without_database,
         resolve_operation, return_from_script, extract_context_field, execute_query
<1>3. CASE reply' = reply
  BY <1>1, <1>3 DEF Atomic!vars
<1>4. CASE reply' = [reply EXCEPT ![r] = {"error"}]
  <2>1. Atomic!Answer(r, {"error"})
    BY <1>0, <1>1, <1>4 DEF Atomic!Answer, AckInv, Unanswered
  <2> QED BY <2>1 DEF Atomic!Next
<1> QED BY <1>2, <1>3, <1>4

(***************************************************************************)
(* Refinement: seen from the sender of a request, with its connections,    *)
(* transactions and failures hidden, the server behaves as AtomicRequests  *)
(* says, for every number of requests, clients, fields and statements.     *)
(***************************************************************************)
THEOREM ImplementsAtomicRequests ==
    ASSUME NoOrphans, Uncaught, Reported, NoRpc
    PROVE  Spec => AtomicSpec
<1>1. Init => Acked
  BY AckedInit
<1>2. Acked /\ [Next]_vars => Acked'
  BY AckedStep
<1>3. Init => Atomic!Init
  BY DEF Init, Atomic!Init
<1>4. ASSUME Acked, Acked', [Next]_vars
      PROVE  [Atomic!Next]_(Atomic!vars)
  <2>1. CASE UNCHANGED vars
    BY <2>1 DEF vars, request, server, Atomic!vars
  <2>2. ASSUME NEW r \in Requests, Step(r) PROVE Atomic!Next \/ UNCHANGED Atomic!vars
    BY <1>4, <2>2, ImplementsResolve, ImplementsDatabase, ImplementsFinish DEF Step
  <2>3. ASSUME NEW r \in Requests, disconnect(r) \/ \E c \in Clients : get_client(r, c)
        PROVE  UNCHANGED Atomic!vars
    BY <2>3 DEF disconnect, Release, get_client, Atomic!vars
  <2> QED BY <1>4, <2>1, <2>2, <2>3 DEF Next, Quiescent
<1> QED BY <1>1, <1>2, <1>3, <1>4, PTL DEF Spec, AtomicSpec, Atomic!Spec
=============================================================================
