------------------------- MODULE RequestTransaction -------------------------
(***************************************************************************)
(* The life of an HTTP request in the Exograph server, seen from the       *)
(* database: how the routers (GraphQL/MCP, JSON-RPC, JSON-RPC batch) drive *)
(* the request's TransactionHolder, how the holder takes a client from the *)
(* DatabaseClientManager, and what PostgreSQL makes of the BEGIN, COMMIT,  *)
(* ROLLBACK and data statements it receives on that client.                *)
(*                                                                         *)
(* Requests run concurrently; every await point of the code is a step      *)
(* boundary.  Within one request everything is sequential: fields and      *)
(* batch items are resolved one after the other.                           *)
(***************************************************************************)
EXTENDS Integers

CONSTANTS
    Requests,   \* the external requests
    Clients,    \* the connections the DatabaseClientManager can hand out
    NoClient,   \* TransactionState.client = None
    Pooled,     \* DatabaseClientManager::Pooled (else ::Direct)
    Entries,    \* the routers in use: a subset of {"graphql", "rpc", "batch"}
    Faults,     \* which of AllFaults can happen
    MaxOps,     \* bound: top-level fields of a query, items of a batch
    MaxCalls,   \* bound: queries a JavaScript function issues
    MaxSteps    \* bound: steps of a TransactionScript

AllEntries == {"graphql", "rpc", "batch"}

(***************************************************************************)
(* "sql"        the server rejects a statement                             *)
(* "precheck"   a Precheck step does not return exactly one row            *)
(* "convert"    a result row is not a string (PgBackend::execute)          *)
(* "rejected"   the server rejects a COMMIT (a deferred constraint)        *)
(* "lost"       the connection to PostgreSQL breaks                        *)
(* "caught"     JavaScript code catches a failed query and carries on      *)
(* "disconnect" the request's future is dropped before it ends: the HTTP   *)
(*              client goes away, or the task panics                       *)
(***************************************************************************)
AllFaults ==
    {"sql", "precheck", "convert", "rejected", "lost", "caught", "disconnect"}

ASSUME NoClientAssumption == NoClient \notin Clients
ASSUME PooledAssumption == Pooled \in BOOLEAN
ASSUME EntriesAssumption == Entries \subseteq AllEntries
ASSUME FaultsAssumption == Faults \subseteq AllFaults
ASSUME BoundsAssumption ==
    /\ MaxOps \in Nat \ {0}
    /\ MaxCalls \in Nat \ {0}
    /\ MaxSteps \in Nat \ {0}

VARIABLES
    (* the request, as its router sees it *)
    pc,         \* where the request is
    entry,      \* the router that took it
    left,       \* top-level operations not yet resolved
    results,    \* outcomes of the operations resolved so far
    running,    \* what resolves the current operation
    calls,      \* queries the current operation may still issue
    steps,      \* statements left in the current TransactionScript
    internal,   \* the @query context extraction of the request
    reply,      \* outcomes in the response
    (* its TransactionHolder *)
    needs,      \* needs_transaction
    status,     \* TransactionState.status
    client,     \* TransactionState.client
    (* PostgreSQL *)
    tx,         \* transaction state of the session behind a client
    pending,    \* writes of the session's open transaction
    durable,    \* committed writes
    issued      \* number of writes a request's statements performed

request == <<pc, entry, left, results, running, calls, steps, internal, reply>>
holder  == <<needs, status, client>>
server  == <<tx, pending, durable, issued>>
vars    == <<request, holder, server>>

Outcomes == {"ok", "error", "absent"}
Places ==
    {"new", "ops", "op", "with_tx", "begin", "step", "convert", "internal",
     "drop", "gone"}

(* The nth write of request r. *)
Write(r, n) == <<r, n>>
Writes      == Requests \X (Nat \ {0})
IssuedBy(r) == {Write(r, n) : n \in 1..issued[r]}
DurableOf(r) == {w \in durable : w[1] = r}

TypeOK ==
    /\ pc \in [Requests -> Places]
    /\ entry \in [Requests -> AllEntries]
    /\ left \in [Requests -> 0..MaxOps]
    /\ results \in [Requests -> SUBSET Outcomes]
    /\ running \in [Requests -> {"postgres", "script", "module"}]
    /\ calls \in [Requests -> 0..MaxCalls]
    /\ steps \in [Requests -> 0..MaxSteps]
    /\ internal \in [Requests -> {"no", "now", "failed", "done"}]
    /\ reply \in [Requests -> SUBSET {"ok", "error"}]
    /\ needs \in [Requests -> BOOLEAN]
    /\ status \in [Requests -> {"Idle", "Active", "Finalized"}]
    /\ client \in [Requests -> Clients \cup {NoClient}]
    /\ tx \in [Clients -> {"none", "open", "aborted", "closed"}]
    /\ pending \in [Clients -> SUBSET Writes]
    /\ durable \in SUBSET Writes
    /\ issued \in [Requests -> Nat]

Init ==
    /\ pc = [r \in Requests |-> "new"]
    /\ entry \in [Requests -> Entries]
    /\ left = [r \in Requests |-> 0]
    /\ results = [r \in Requests |-> {}]
    /\ running = [r \in Requests |-> "postgres"]
    /\ calls = [r \in Requests |-> 0]
    /\ steps = [r \in Requests |-> 0]
    /\ internal = [r \in Requests |-> "no"]
    /\ reply = [r \in Requests |-> {}]
    /\ needs = [r \in Requests |-> FALSE]
    /\ status = [r \in Requests |-> "Idle"]
    /\ client = [r \in Requests |-> NoClient]
    /\ tx = [c \in Clients |-> "none"]
    /\ pending = [c \in Clients |-> {}]
    /\ durable = {}
    /\ issued = [r \in Requests |-> 0]

-----------------------------------------------------------------------------
(* Outcomes of an operation and of the queries it issues.                  *)

(* The current operation ends with outcome o; the next one follows.        *)
EndOp(r, o) ==
    /\ pc' = [pc EXCEPT ![r] = "ops"]
    /\ results' = [results EXCEPT ![r] = @ \cup {o}]
    /\ calls' = [calls EXCEPT ![r] = 0]

GoOn(r, place) == pc' = [pc EXCEPT ![r] = place] /\ UNCHANGED <<results, calls>>

(***************************************************************************)
(* What the caller of PgBackend::execute does with its result.  An         *)
(* internal (@query) request first goes through finalize_transaction.  A   *)
(* Postgres operation ends with the result; a JavaScript function goes on  *)
(* after a success, and after a failure it has caught.                     *)
(***************************************************************************)
QueryDone(r, ok) ==
    /\ steps' = [steps EXCEPT ![r] = 0]
    /\ \/ /\ internal[r] = "now"
          /\ internal' = [internal EXCEPT ![r] = IF ok THEN "now" ELSE "failed"]
          /\ GoOn(r, "internal")
       \/ /\ internal[r] # "now"
          /\ UNCHANGED internal
          /\ \/ /\ running[r] = "postgres"
                /\ EndOp(r, IF ok THEN "ok" ELSE "error")
             \/ /\ running[r] # "postgres"
                /\ ok \/ "caught" \in Faults
                /\ GoOn(r, "op")
             \/ /\ running[r] # "postgres" /\ ~ok
                /\ EndOp(r, "error")

-----------------------------------------------------------------------------
(* Routers and resolvers                                                   *)

(* MUTANT: only a query with more than two fields gets a transaction.      *)
resolve_operations_off_by_one(r, n) ==
    /\ pc[r] = "new" /\ entry[r] = "graphql" /\ n > 0
    /\ pc' = [pc EXCEPT ![r] = "ops"]
    /\ left' = [left EXCEPT ![r] = n]
    /\ needs' = [needs EXCEPT ![r] = n > 2]
    /\ UNCHANGED <<entry, results, running, calls, steps, internal, reply,
                   status, client, server>>

(***************************************************************************)
(* GraphQLRouter::route up to the first field: a query with several        *)
(* top-level fields needs a transaction.  MCP's execute_query tool enters  *)
(* at resolve_in_memory_for_payload and behaves alike.                     *)
(***************************************************************************)
resolve_operations(r, n) ==
    /\ pc[r] = "new" /\ entry[r] = "graphql" /\ n > 0
    /\ pc' = [pc EXCEPT ![r] = "ops"]
    /\ left' = [left EXCEPT ![r] = n]
    /\ needs' = [needs EXCEPT ![r] = n > 1]
    /\ UNCHANGED <<entry, results, running, calls, steps, internal, reply,
                   status, client, server>>

(* RpcRouter::handle_single: a notification is dropped without being run.  *)
handle_single(r) ==
    /\ pc[r] = "new" /\ entry[r] = "rpc"
    /\ \/ /\ pc' = [pc EXCEPT ![r] = "ops"]
          /\ left' = [left EXCEPT ![r] = 1]
       \/ /\ pc' = [pc EXCEPT ![r] = "drop"]
          /\ UNCHANGED left
    /\ UNCHANGED <<entry, results, running, calls, steps, internal, reply,
                   holder, server>>

(* MUTANT: the items of a batch do not share a transaction.                *)
handle_batch_no_ensure(r, n) ==
    /\ pc[r] = "new" /\ entry[r] = "batch" /\ n > 0
    /\ pc' = [pc EXCEPT ![r] = "ops"]
    /\ left' = [left EXCEPT ![r] = n]
    /\ UNCHANGED <<entry, results, running, calls, steps, internal, reply, holder, server>>

(* RpcRouter::handle_batch up to the first item.                           *)
handle_batch(r, n) ==
    /\ pc[r] = "new" /\ entry[r] = "batch"
    /\ IF n = 0
       THEN /\ pc' = [pc EXCEPT ![r] = "drop"]
            /\ reply' = [reply EXCEPT ![r] = {"error"}]
            /\ UNCHANGED <<left, needs>>
       ELSE /\ pc' = [pc EXCEPT ![r] = "ops"]
            /\ left' = [left EXCEPT ![r] = n]
            /\ needs' = [needs EXCEPT ![r] = TRUE]
            /\ UNCHANGED reply
    /\ UNCHANGED <<entry, results, running, calls, steps, internal,
                   status, client, server>>

(* MUTANT: the loop over the operations runs once too often.               *)
resolve_without_database_overrun(r) ==
    /\ pc[r] = "ops"
    /\ left' = [left EXCEPT ![r] = @ - 1]
    /\ UNCHANGED <<pc, entry, results, running, calls, steps, internal, reply, holder, server>>

(***************************************************************************)
(* An operation that does not reach the database: introspection,           *)
(* rpc.discover, a notification in a batch (which leaves no result), an    *)
(* invalid item, an operation denied or unknown.  Only the RPC router      *)
(* tells "no such method" (Ok(None)) from an error.                        *)
(***************************************************************************)
resolve_without_database(r) ==
    /\ pc[r] = "ops" /\ left[r] > 0
    /\ left' = [left EXCEPT ![r] = @ - 1]
    /\ \/ /\ entry[r] = "batch"
          /\ UNCHANGED results
       \/ \E o \in Outcomes :
            /\ o = "absent" => entry[r] # "graphql"
            /\ results' = [results EXCEPT ![r] = @ \cup {o}]
    /\ UNCHANGED <<pc, entry, running, calls, steps, internal, reply,
                   holder, server>>

(***************************************************************************)
(* Start of an operation that may reach the database.  A Postgres          *)
(* operation issues one query.  A GraphQL operation that is intercepted or *)
(* implemented in JavaScript ("script") sets the flag; a JavaScript method *)
(* called through RPC ("module") does not.                                 *)
(***************************************************************************)
resolve_operation(r, how) ==
    /\ pc[r] = "ops" /\ left[r] > 0
    /\ how = "script" => entry[r] = "graphql"
    /\ how = "module" => entry[r] # "graphql"
    /\ left' = [left EXCEPT ![r] = @ - 1]
    /\ pc' = [pc EXCEPT ![r] = "op"]
    /\ running' = [running EXCEPT ![r] = how]
    /\ calls' = [calls EXCEPT ![r] = IF how = "postgres" THEN 1 ELSE MaxCalls]
    /\ needs' = [needs EXCEPT ![r] = @ \/ how = "script"]
    /\ UNCHANGED <<entry, results, steps, internal, reply, status, client, server>>

(* The JavaScript function returns or throws.                              *)
return_from_script(r) ==
    /\ pc[r] = "op" /\ running[r] # "postgres"
    /\ \E o \in {"ok", "error"} : EndOp(r, o)
    /\ UNCHANGED <<entry, left, running, steps, internal, reply, holder, server>>

(* A query of the current operation: a script of n steps.  The flag is     *)
(* raised when the query a JavaScript method sends has several fields or   *)
(* an intercepted one.                                                     *)
execute_query(r, n, ensure) ==
    /\ pc[r] = "op" /\ calls[r] > 0
    /\ ensure => running[r] = "module"
    /\ pc' = [pc EXCEPT ![r] = "with_tx"]
    /\ calls' = [calls EXCEPT ![r] = @ - 1]
    /\ steps' = [steps EXCEPT ![r] = n]
    /\ needs' = [needs EXCEPT ![r] = @ \/ ensure]
    /\ UNCHANGED <<entry, left, results, running, internal, reply, status, client, server>>

(***************************************************************************)
(* QueryExtractor: a context field defined by a query is computed by an    *)
(* internal request that shares the holder; the field it selects may be    *)
(* intercepted.  The value is cached, so this happens once per request.    *)
(***************************************************************************)
extract_context_field(r, ensure) ==
    /\ pc[r] = "op" /\ internal[r] = "no"
    /\ internal' = [internal EXCEPT ![r] = "now"]
    /\ pc' = [pc EXCEPT ![r] = "with_tx"]
    /\ steps' = [steps EXCEPT ![r] = 1]
    /\ needs' = [needs EXCEPT ![r] = @ \/ ensure]
    /\ UNCHANGED <<entry, left, results, running, calls, reply, status, client, server>>

-----------------------------------------------------------------------------
(* TransactionHolder                                                       *)

(* with_tx when it has nothing to wait for: the holder is spent, or it     *)
(* already has its client.                                                 *)
with_tx(r) ==
    /\ pc[r] = "with_tx"
    /\ \/ /\ status[r] = "Finalized"
          /\ QueryDone(r, FALSE)
       \/ /\ status[r] # "Finalized" /\ client[r] # NoClient
          /\ GoOn(r, "begin")
          /\ UNCHANGED <<steps, internal>>
    /\ UNCHANGED <<entry, left, running, reply, holder, server>>

Free(c) == \A r \in Requests : client[r] # c

(***************************************************************************)
(* ensure_client: wait for a client.  With RecyclingMethod::Fast the pool  *)
(* replaces a closed connection and hands out any other as it is.          *)
(***************************************************************************)
get_client(r, c) ==
    /\ pc[r] = "with_tx" /\ status[r] # "Finalized" /\ client[r] = NoClient
    /\ Free(c)
    /\ client' = [client EXCEPT ![r] = c]
    /\ tx' = [tx EXCEPT ![c] = IF @ = "closed" THEN "none" ELSE @]
    /\ pc' = [pc EXCEPT ![r] = "begin"]
    /\ UNCHANGED <<entry, left, results, running, calls, steps, internal, reply,
                   needs, status, pending, durable, issued>>

(* The connection cannot be established.                                   *)
get_client_fails(r) ==
    /\ "lost" \in Faults
    /\ pc[r] = "with_tx" /\ status[r] # "Finalized" /\ client[r] = NoClient
    /\ QueryDone(r, FALSE)
    /\ UNCHANGED <<entry, left, running, reply, holder, server>>

(***************************************************************************)
(* begin_transaction, when the script or the flag asks for it.  The server *)
(* refuses BEGIN on a broken connection and in an aborted transaction, and *)
(* answers it with a mere warning in an open one.                          *)
(***************************************************************************)
begin_transaction(r) ==
    /\ pc[r] = "begin"
    /\ LET c == client[r] IN
       IF (steps[r] > 1 \/ needs[r]) /\ status[r] = "Idle"
       THEN \/ /\ tx[c] \in {"none", "open"}
               /\ tx' = [tx EXCEPT ![c] = "open"]
               /\ status' = [status EXCEPT ![r] = "Active"]
               /\ GoOn(r, "step")
               /\ UNCHANGED <<steps, internal>>
            \/ /\ tx[c] \in {"aborted", "closed"}
               /\ QueryDone(r, FALSE)
               /\ UNCHANGED <<tx, status>>
       ELSE /\ GoOn(r, "step")
            /\ UNCHANGED <<steps, internal, tx, status>>
    /\ UNCHANGED <<entry, left, running, reply, needs, client,
                   pending, durable, issued>>

(* The server performs a statement of r: at once outside a transaction.  A *)
(* context query only reads.                                               *)
Perform(r) ==
    LET c == client[r]
        w == Write(r, issued[r] + 1)
    IN  IF internal[r] = "now"
        THEN UNCHANGED <<pending, durable, issued>>
        ELSE /\ issued' = [issued EXCEPT ![r] = @ + 1]
             /\ IF tx[c] = "none"
                THEN durable' = durable \cup {w} /\ UNCHANGED pending
                ELSE pending' = [pending EXCEPT ![c] = @ \cup {w}] /\ UNCHANGED durable

(* execute_transaction_script: one step succeeds.                          *)
execute_step(r) ==
    /\ pc[r] = "step"
    /\ tx[client[r]] \in {"none", "open"}
    /\ Perform(r)
    /\ steps' = [steps EXCEPT ![r] = @ - 1]
    /\ pc' = [pc EXCEPT ![r] = IF steps[r] = 1 THEN "convert" ELSE "step"]
    /\ UNCHANGED <<entry, left, results, running, calls, internal, reply, holder, tx>>

(***************************************************************************)
(* A step fails and the rest of the script is skipped.  A failed precheck  *)
(* is a SELECT the server has no objection to.                             *)
(***************************************************************************)
step_fails(r) ==
    /\ pc[r] = "step"
    /\ LET c == client[r] IN
       \/ /\ "sql" \in Faults /\ tx[c] \in {"none", "open"}
          /\ tx' = [tx EXCEPT ![c] = IF @ = "open" THEN "aborted" ELSE @]
          /\ UNCHANGED <<pending, durable, issued>>
       \/ /\ "precheck" \in Faults /\ tx[c] \in {"none", "open"} /\ steps[r] > 1
          /\ UNCHANGED server
       \/ /\ tx[c] \in {"aborted", "closed"}
          /\ UNCHANGED server
       \/ /\ "lost" \in Faults /\ tx[c] # "closed"
          /\ tx' = [tx EXCEPT ![c] = "closed"]
          /\ pending' = [pending EXCEPT ![c] = {}]
          /\ \/ UNCHANGED <<durable, issued>>
             \/ /\ tx[c] = "none" /\ internal[r] # "now"
                /\ durable' = durable \cup {Write(r, issued[r] + 1)}
                /\ issued' = [issued EXCEPT ![r] = @ + 1]
    /\ QueryDone(r, FALSE)
    /\ UNCHANGED <<entry, left, running, reply, holder>>

(* PgBackend::execute turns the rows into strings; the resolver wants at   *)
(* most one.                                                               *)
convert_rows(r) ==
    /\ pc[r] = "convert"
    /\ \/ QueryDone(r, TRUE)
       \/ "convert" \in Faults /\ QueryDone(r, FALSE)
    /\ UNCHANGED <<entry, left, running, reply, holder, server>>

(* MUTANT: after an error the holder is spent, but no ROLLBACK is sent.    *)
finalize_no_rollback(r, commit, ok) ==
    /\ ok
    /\ status' = [status EXCEPT ![r] = "Finalized"]
    /\ IF status[r] = "Active" /\ commit /\ tx[client[r]] # "closed"
       THEN /\ tx' = [tx EXCEPT ![client[r]] = "none"]
            /\ pending' = [pending EXCEPT ![client[r]] = {}]
            /\ durable' = durable \cup pending[client[r]]
       ELSE UNCHANGED <<tx, pending, durable>>

(***************************************************************************)
(* finalize(commit), with result ok.  COMMIT ends an aborted transaction   *)
(* as ROLLBACK does, and reports no error.  An error leaves the status.    *)
(***************************************************************************)
finalize(r, commit, ok) ==
    LET c == client[r]
        written == IF commit /\ tx[c] = "open" THEN pending[c] ELSE {}
    IN
    \/ /\ status[r] # "Active" /\ ok
       /\ status' = [status EXCEPT ![r] = "Finalized"]
       /\ UNCHANGED <<tx, pending, durable>>
    \/ /\ status[r] = "Active" /\ ok /\ tx[c] # "closed"
       /\ status' = [status EXCEPT ![r] = "Finalized"]
       /\ tx' = [tx EXCEPT ![c] = "none"]
       /\ pending' = [pending EXCEPT ![c] = {}]
       /\ durable' = durable \cup written
    \/ /\ status[r] = "Active" /\ ~ok
       /\ \/ /\ "rejected" \in Faults /\ commit /\ tx[c] = "open"
             /\ tx' = [tx EXCEPT ![c] = "none"]
             /\ pending' = [pending EXCEPT ![c] = {}]
             /\ UNCHANGED durable
          \/ /\ "lost" \in Faults /\ tx[c] # "closed"
             /\ tx' = [tx EXCEPT ![c] = "closed"]
             /\ pending' = [pending EXCEPT ![c] = {}]
             /\ durable' \in {durable, durable \cup written}
          \/ /\ tx[c] = "closed"
             /\ UNCHANGED <<tx, pending, durable>>
       /\ UNCHANGED status

(* MUTANT: the internal request finalizes the holder it shares.            *)
finalize_internal_shared(r) ==
    /\ pc[r] = "internal"
    /\ internal' = [internal EXCEPT ![r] = "done"]
    /\ finalize(r, internal[r] = "now", TRUE)
    /\ GoOn(r, "op")
    /\ UNCHANGED <<entry, left, running, steps, reply, needs, client, issued>>

(* finalize_transaction of an internal request leaves the holder alone.    *)
finalize_internal(r) ==
    /\ pc[r] = "internal"
    /\ internal' = [internal EXCEPT ![r] = "done"]
    /\ \/ /\ internal[r] = "now"
          /\ GoOn(r, "op")
       \/ /\ internal[r] = "failed"
          /\ EndOp(r, "error")
    /\ UNCHANGED <<entry, left, running, steps, reply, holder, server>>

-----------------------------------------------------------------------------
(* Responses                                                               *)

(* All operations of r are resolved: finalize, and answer with a.          *)
Respond(r, commit, ok, a) ==
    /\ finalize(r, commit, ok)
    /\ reply' = [reply EXCEPT ![r] = a]
    /\ pc' = [pc EXCEPT ![r] = "drop"]
    /\ UNCHANGED <<entry, left, results, running, calls, steps, internal,
                   needs, client, issued>>

Resolved(r, e) == pc[r] = "ops" /\ left[r] = 0 /\ entry[r] = e

(* MUTANT: a failed COMMIT goes unreported.                                *)
finish_graphql_unreported(r) ==
    /\ Resolved(r, "graphql")
    /\ \E ok \in BOOLEAN :
         Respond(r, "error" \notin results[r], ok,
                 IF "error" \notin results[r] THEN {"ok"} ELSE {"error"})

(* GraphQL reports a failed finalize.                                      *)
finish_graphql(r) ==
    /\ Resolved(r, "graphql")
    /\ LET commit == "error" \notin results[r] IN
       \E ok \in BOOLEAN :
         Respond(r, commit, ok, IF commit /\ ok THEN {"ok"} ELSE {"error"})

(* A single RPC call only logs a failed finalize.                          *)
finish_single(r) ==
    /\ Resolved(r, "rpc")
    /\ \E ok \in BOOLEAN :
         Respond(r, "error" \notin results[r], ok,
                 IF results[r] = {"ok"} THEN {"ok"} ELSE {"error"})

(* MUTANT: an unknown method does not count as a failure of the batch.     *)
finish_batch_absent_is_fine(r) ==
    /\ Resolved(r, "batch")
    /\ \E ok \in BOOLEAN :
         Respond(r, "error" \notin results[r], ok,
                 IF results[r] \subseteq {"ok"} THEN results[r] ELSE {"error"})

(* A batch too; unless all items succeeded, each result becomes an error.  *)
finish_batch(r) ==
    /\ Resolved(r, "batch")
    /\ LET all_succeeded == results[r] \subseteq {"ok"} IN
       \E ok \in BOOLEAN :
         Respond(r, all_succeeded, ok, IF all_succeeded THEN results[r] ELSE {"error"})

(* MUTANT: the client is never given back.                                 *)
Release_leak(r) ==
    /\ pc' = [pc EXCEPT ![r] = "gone"]
    /\ UNCHANGED <<entry, left, results, running, calls, steps, internal, reply,
                   holder, server>>

(***************************************************************************)
(* The RequestContext and with it the holder and its client are dropped: a *)
(* direct connection closes, a pooled one goes back as it is.              *)
(***************************************************************************)
Release(r) ==
    /\ pc' = [pc EXCEPT ![r] = "gone"]
    /\ client' = [client EXCEPT ![r] = NoClient]
    /\ IF Pooled \/ client[r] = NoClient
       THEN UNCHANGED <<tx, pending>>
       ELSE /\ tx' = [tx EXCEPT ![client[r]] = "none"]
            /\ pending' = [pending EXCEPT ![client[r]] = {}]
    /\ left' = [left EXCEPT ![r] = 0]
    /\ calls' = [calls EXCEPT ![r] = 0]
    /\ steps' = [steps EXCEPT ![r] = 0]
    /\ results' = [results EXCEPT ![r] = {}]
    /\ internal' = [internal EXCEPT ![r] = "no"]
    /\ UNCHANGED <<entry, running, reply, needs, status, durable, issued>>

drop(r) == pc[r] = "drop" /\ Release(r)

(* The future is dropped at an await point, before the response.           *)
disconnect(r) ==
    /\ "disconnect" \in Faults
    /\ pc[r] \notin {"new", "drop", "gone"}
    /\ Release(r)

-----------------------------------------------------------------------------
Resolve(r) ==
    \/ \E n \in 0..MaxOps : resolve_operations(r, n) \/ handle_batch(r, n)
    \/ handle_single(r)
    \/ resolve_without_database(r)
    \/ \E how \in {"postgres", "script", "module"} : resolve_operation(r, how)
    \/ return_from_script(r)
    \/ \E ensure \in BOOLEAN : extract_context_field(r, ensure)
    \/ \E n \in 1..MaxSteps, ensure \in BOOLEAN : execute_query(r, n, ensure)

Database(r) ==
    \/ with_tx(r)
    \/ get_client_fails(r)
    \/ begin_transaction(r)
    \/ execute_step(r)
    \/ step_fails(r)
    \/ convert_rows(r)
    \/ finalize_internal(r)

Finish(r) == finish_graphql(r) \/ finish_single(r) \/ finish_batch(r) \/ drop(r)

Step(r) == Resolve(r) \/ Database(r) \/ Finish(r)

(* Every request has been served.                                          *)
Quiescent == (\A r \in Requests : pc[r] = "gone") /\ UNCHANGED vars

Next ==
    \/ \E r \in Requests :
         Step(r) \/ disconnect(r) \/ \E c \in Clients : get_client(r, c)
    \/ Quiescent

(***************************************************************************)
(* Fairness: the async runtime polls every ready task, and the pool's      *)
(* waiters are served in turn.  The bound MaxCalls stands for "JavaScript  *)
(* functions end".                                                         *)
(***************************************************************************)
Fairness ==
    \A r \in Requests :
      /\ WF_vars(pc[r] # "new" /\ Step(r))
      /\ SF_vars(\E c \in Clients : get_client(r, c))

Spec == Init /\ [][Next]_vars
FairSpec == Spec /\ Fairness

-----------------------------------------------------------------------------
(* Properties                                                              *)

(* The single RPC calls of a JavaScript method: nothing asks for a         *)
(* transaction on their behalf.                                            *)
Bare(r) == entry[r] = "rpc" /\ running[r] = "module"

(***************************************************************************)
(* TransactionHolder and DatabasePool: the uncommitted writes in a session *)
(* belong to the request that holds its client now, so no COMMIT or        *)
(* ROLLBACK decides over another request's writes; and a client no request *)
(* holds is not inside a transaction.                                      *)
(***************************************************************************)
Isolation ==
    \A c \in Clients :
      /\ \A w \in pending[c] : client[w[1]] = c
      /\ Free(c) => tx[c] \in {"none", "closed"}

(***************************************************************************)
(* A client is held by at most one request, although requests wait for,    *)
(* take and return clients concurrently (DatabasePool::get_client).        *)
(***************************************************************************)
ExclusiveClient ==
    \A r, q \in Requests : client[r] = client[q] => r = q \/ client[r] = NoClient

(***************************************************************************)
(* "each submitted operation is atomic": at any time, also half way        *)
(* through a request and after a failure at any point, either all writes   *)
(* the request performed are committed or none is.                         *)
(***************************************************************************)
AllOrNothing ==
    \A r \in Requests : ~Bare(r) => DurableOf(r) \in {{}, IssuedBy(r)}

(***************************************************************************)
(* A success in the response means that every write the request performed  *)
(* is committed (the router finalizes before it answers).                  *)
(***************************************************************************)
AckedIsDurable ==
    \A r \in Requests : "ok" \in reply[r] => DurableOf(r) = IssuedBy(r)

(***************************************************************************)
(* An error response means that none of the writes of the request is       *)
(* committed: not those of the operations before the failed one, nor those *)
(* of the operations after it.                                             *)
(***************************************************************************)
ErrorLeavesNothing ==
    \A r \in Requests : "error" \in reply[r] /\ ~Bare(r) => DurableOf(r) = {}

(***************************************************************************)
(* No query of a request finds its holder already finalized: the internal  *)
(* requests made for context fields do not end the transaction of the      *)
(* request they serve (RequestContext::finalize_transaction).              *)
(***************************************************************************)
NeverSpent == \A r \in Requests : pc[r] = "with_tx" => status[r] # "Finalized"

(***************************************************************************)
(* The status only moves forward, and from the end of the transaction on   *)
(* nothing of the request changes in the database.                         *)
(***************************************************************************)
FinalizedIsFinal ==
    [][\A r \in Requests :
         status[r] = "Finalized" =>
           /\ status'[r] = "Finalized"
           /\ issued'[r] = issued[r]
           /\ DurableOf(r)' = DurableOf(r)]_vars

(***************************************************************************)
(* Every request that has started ends, however small the pool, and gives  *)
(* its client back.                                                        *)
(***************************************************************************)
EveryRequestEnds ==
    \A r \in Requests : pc[r] # "new" ~> pc[r] = "gone" /\ client[r] = NoClient

(***************************************************************************)
(* test_drop_without_finalize_rolls_back: the writes of a request dropped  *)
(* inside its transaction are never committed.                             *)
(***************************************************************************)
DroppedRollsBack ==
    \A r \in Requests :
      pc[r] = "gone" /\ reply[r] = {} /\ status[r] = "Active" => DurableOf(r) = {}

-----------------------------------------------------------------------------
(* Inductive invariants                                                    *)

InTx == {"open", "aborted"}
Working == {"op", "with_tx", "begin", "step", "convert", "internal"}

(* A request holds a client while it talks to the database, and then has   *)
(* statements to run.                                                      *)
Holding ==
    \A r \in Requests :
      /\ pc[r] \in {"with_tx", "begin", "step"} => steps[r] > 0
      /\ pc[r] \in {"begin", "step", "convert"} => client[r] # NoClient
      /\ status[r] = "Active" /\ pc[r] # "gone" => client[r] # NoClient
      /\ pc[r] \in {"new", "gone"} => client[r] = NoClient
      /\ pc[r] \notin {"drop", "gone"} => status[r] # "Finalized"

(* The server is inside a transaction only if the holder believes so, and  *)
(* no longer once the response is on its way.                              *)
HolderKnows ==
    \A r \in Requests :
      client[r] # NoClient /\ (status[r] # "Active" \/ pc[r] = "drop")
        => tx[client[r]] \notin InTx

(* Outside a transaction nothing is pending.                               *)
Settled == \A c \in Clients : tx[c] \notin InTx => pending[c] = {}

SessionInv ==
    TypeOK /\ ExclusiveClient /\ Holding /\ HolderKnows /\ Settled /\ Isolation

(* Without the flag, a request is a single Postgres operation, or a single *)
(* RPC call.                                                               *)
SingleOperation(r) ==
    /\ pc[r] = "new" => ~needs[r] /\ running[r] = "postgres"
    /\ entry[r] = "batch" /\ pc[r] \notin {"new", "drop", "gone"} => needs[r]
    /\ Bare(r) => left[r] = 0
    /\ ~needs[r] \/ entry[r] = "rpc" =>
         /\ pc[r] = "ops" => left[r] <= 1
         /\ pc[r] \in Working => left[r] = 0
    /\ ~needs[r] /\ ~Bare(r) /\ pc[r] \in Working => running[r] = "postgres"

(* Outside a transaction, a request has at most the one statement of its   *)
(* one operation behind it.                                                *)
OneStatement(r) ==
    status[r] = "Idle" =>
      /\ pc[r] \in {"step", "convert"} => ~needs[r]
      /\ pc[r] = "step" => steps[r] = 1
      /\ ~Bare(r) =>
           \/ issued[r] = 0
           \/ pc[r] \in {"drop", "gone"}
           \/ ~needs[r] /\ issued[r] = 1 /\ pc[r] = "convert" /\ internal[r] # "now"
           \/ ~needs[r] /\ issued[r] = 1 /\ pc[r] = "ops" /\ left[r] = 0

(* The server does not leave a transaction before the response, and what   *)
(* it will commit is all the request did.                                  *)
PendingIsAll(r) ==
    /\ status[r] = "Active" /\ pc[r] \notin {"drop", "gone"} => tx[client[r]] # "none"
    /\ client[r] # NoClient /\ ~Bare(r) /\ tx[client[r]] = "open"
         => pending[client[r]] = IssuedBy(r)

(* Before the response, nothing of a transaction is visible.               *)
NothingEarly(r) ==
    pc[r] \notin {"drop", "gone"} /\ ~Bare(r) /\ (needs[r] \/ status[r] = "Active")
      => DurableOf(r) = {}

RequestInv(r) ==
    /\ SingleOperation(r) /\ OneStatement(r) /\ PendingIsAll(r) /\ NothingEarly(r)
    /\ ~Bare(r) => DurableOf(r) \in {{}, IssuedBy(r)}

AtomicInv == SessionInv /\ \A r \in Requests : RequestInv(r)

(* The response brings the answer, and nothing before it does.             *)
Unanswered(r) == pc[r] \notin {"drop", "gone"} => reply[r] = {}

(* Unless the server has given up the transaction, every write of r is     *)
(* committed or pending in it.                                             *)
NoneMissing(r) ==
    pc[r] \notin {"drop", "gone"} =>
      /\ status[r] = "Idle" => DurableOf(r) = IssuedBy(r)
      /\ status[r] = "Active" /\ tx[client[r]] = "open"
           => DurableOf(r) \cup pending[client[r]] = IssuedBy(r)

(* Where JavaScript code does not hide errors, an aborted transaction      *)
(* shows in the results, or is about to.                                   *)
AbortShows(r) ==
    pc[r] \notin {"drop", "gone"} /\ client[r] # NoClient /\ tx[client[r]] = "aborted"
      => "error" \in results[r] \/ (pc[r] = "internal" /\ internal[r] = "failed")

AckInv(r) ==
    /\ Unanswered(r) /\ NoneMissing(r) /\ AbortShows(r)
    /\ "ok" \in reply[r] => DurableOf(r) = IssuedBy(r)

(* The one operation of a request without the flag, and of a single RPC    *)
(* call, leaves one result.                                                *)
OneResult(r) ==
    ~needs[r] \/ entry[r] = "rpc" =>
      /\ pc[r] \in Working \cup {"new"} => results[r] = {}
      /\ pc[r] = "ops" => IF left[r] = 0 THEN \E o \in Outcomes : results[r] = {o}
                          ELSE results[r] = {}

(* Where neither the connection nor the conversion of rows fails, a write  *)
(* outside a transaction is a success; where an RPC method is unknown,     *)
(* there has been no write.                                                *)
WrittenIsOk(r) ==
    /\ ~Bare(r) /\ status[r] = "Idle" /\ issued[r] # 0 /\ pc[r] = "ops" => results[r] = {"ok"}
    /\ entry[r] = "rpc" /\ pc[r] = "ops" /\ left[r] > 0 => status[r] = "Idle"
    /\ entry[r] = "rpc" /\ pc[r] = "ops" /\ "absent" \in results[r] => issued[r] = 0

ErrInv(r) ==
    /\ Unanswered(r) /\ OneResult(r) /\ WrittenIsOk(r)
    /\ "error" \in reply[r] /\ ~Bare(r) => DurableOf(r) = {}

(***************************************************************************)
(* The server implements AtomicRequests.                                   *)
(***************************************************************************)
Atomic == INSTANCE AtomicRequests
            WITH Answers <- SUBSET {"ok", "error"},
                 work <- issued, store <- durable, answer <- reply

AtomicSpec == Atomic!Spec
=============================================================================
