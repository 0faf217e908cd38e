-------------------------- MODULE GuardedOperation --------------------------
(* One intercepted GraphQL operation per request, from the interception tree *)
(* to the statements on the documents: before, around and after              *)
(* interceptors, the access checks of the Postgres resolver, the prechecks   *)
(* and the statement itself, while other requests run and the projects       *)
(* change hands.                                                             *)
(*                                                                           *)
(* A deployment is a pair of rules (query and mutation), the operations that *)
(* its schema offers and the tree that `ordered` weaves for them: the number *)
(* of before, around and after interceptors.                                 *)
(* Interceptors are user code: each may return or throw, an around           *)
(* interceptor may also proceed any number of times.                         *)
EXTENDS AccessSolver

CONSTANTS Clients,      \* the requests, one operation each
          Identities,   \* the claims a token can carry: [id, role]
          Requests,     \* the operations: [kind, id, input]
          Deployments,  \* [query, mutation, offers, before, around, after]
          Databases,    \* what the tables hold at the start: [documents, projects]
          MaxProceeds,  \* bound: calls of proceed() in one request
          MaxTransfers  \* bound: projects that change hands

(* What the parser and the type checker accept: rules of the schema, inputs  *)
(* of the fields' types; a token that can be read has no unreadable claim.   *)
ASSUME DeploymentsAssumption ==
    \A d \in Deployments :
        /\ d.query \in Rules /\ d.mutation \in Rules
        /\ d.before \in Nat /\ d.around \in Nat /\ d.after \in Nat
ASSUME RequestsAssumption ==
    \A r \in Requests :
        /\ r.kind \in {"query", "create", "update", "delete"}
        /\ DOMAIN r.input \subseteq {"owner", "public", "project"}
        /\ "owner" \in DOMAIN r.input => r.input["owner"] \in Users
        /\ "public" \in DOMAIN r.input => r.input["public"] \in {"true", "false"}
        /\ "project" \in DOMAIN r.input => r.input["project"] \in Projects
ASSUME IdentitiesAssumption ==
    \A i \in Identities : i["id"] \in Users \cup {Missing} /\ i["role"] # Failed
ASSUME BoundsAssumption == IsFiniteSet(Clients) /\ MaxProceeds \in Nat

Gone == [owner |-> Missing, public |-> "false", project |-> Missing]
NoRequest == [kind |-> "none", id |-> 0, input |-> <<>>]
Anonymous == [id |-> Missing, role |-> Missing]
NoPlan == [outcome |-> "none", precheck |-> True, entity |-> True]

Rows == [owner: Users, public: {"true", "false"}, project: Projects]

ASSUME DatabasesAssumption ==
    \A db \in Databases :
        /\ IsFiniteSet(DOMAIN db.documents)
        /\ \A i \in DOMAIN db.documents : db.documents[i] \in Rows
        /\ db.projects \in [Projects -> Users]

VARIABLES deployment, \* the rules and the tree
          documents,  \* the committed documents: id -> row
          projects,   \* the committed projects: project -> owner
          pc,         \* where each request is: [at, n]
          request,    \* its operation
          token,      \* its token: "valid", "absent" or "expired"
          identity,   \* the claims of its token
          claims,     \* JwtExtractor.extracted_claims: "unread" or "read"
          plan,       \* the predicates of the operation
          row,        \* the row a create will insert
          hits,       \* the documents its statement matched
          work,       \* what its transaction wrote: id -> row
          aborted,    \* whether a statement of its transaction failed
          ran,        \* how much ran: [before, core, after, proceeds]
          answer,     \* the result being handed outwards
          basis,      \* the projects as its last check saw them
          transfers

vars == <<deployment, documents, projects, pc, request, token, identity, claims, plan, row,
          hits, work, aborted, ran, answer, basis, transfers>>

At(c, at, n) == pc[c] = [at |-> at, n |-> n]
Go(c, at, n) == pc' = [pc EXCEPT ![c] = [at |-> at, n |-> n]]

(***************************************************************************)
(* InterceptedOperation::resolve on the tree.  The around interceptors are *)
(* folded from the first declared outwards, so the outermost is the last.  *)
(* An error inside reaches the interceptor around it as an exception, which *)
(* it may swallow; with none around it, it ends the operation.             *)
(***************************************************************************)
(* Takes the operation itself for one more around interceptor.               *)
Inwards_nested(c, n) == Go(c, "around", n)

Inwards(c, n) == IF n = 0 THEN Go(c, "check", 0) ELSE Go(c, "around", n)

BeforeFrom(c, n) ==
    IF n = deployment.before THEN Inwards(c, deployment.around) ELSE Go(c, "before", n)

AfterFrom(c, n) ==
    IF n = deployment.after THEN Go(c, "finish", 0) ELSE Go(c, "after", n)

Outwards(c, n, result) ==
    /\ answer' = [answer EXCEPT ![c] = result]
    /\ IF n < deployment.around THEN Go(c, "around", n + 1)
       ELSE IF result = "ok" THEN AfterFrom(c, 0)
       ELSE Go(c, "finish", 0)

receive(c) ==
    /\ At(c, "idle", 0)
    /\ \E r \in Requests, i \in Identities \cup {Anonymous} :
         /\ r.kind \in deployment.offers
         /\ request' = [request EXCEPT ![c] = r]
         /\ identity' = [identity EXCEPT ![c] = i]
         /\ token' = [token EXCEPT ![c] = IF i = Anonymous THEN "absent" ELSE "valid"]
    /\ BeforeFrom(c, 0)
    /\ UNCHANGED <<deployment, documents, projects, claims, plan, row, hits, work, aborted, ran,
                   answer, basis, transfers>>

(* A token expires at any time; it is looked at by a check only.             *)
expire(c) ==
    /\ token[c] = "valid" /\ At(c, "check", 0)
    /\ token' = [token EXCEPT ![c] = "expired"]
    /\ UNCHANGED <<deployment, documents, projects, pc, request, identity, claims, plan, row, hits,
                   work, aborted, ran, answer, basis, transfers>>

Throw(c) ==
    /\ answer' = [answer EXCEPT ![c] = "error"]
    /\ Go(c, "finish", 0)
    /\ UNCHANGED ran

(* Goes on to the operation when a before interceptor throws.                *)
before_ignored(c) ==
    /\ pc[c].at = "before"
    /\ \/ BeforeFrom(c, pc[c].n + 1) /\ ran' = [ran EXCEPT ![c].before = @ + 1]
       \/ BeforeFrom(c, pc[c].n + 1) /\ UNCHANGED ran
    /\ UNCHANGED answer
    /\ UNCHANGED <<deployment, documents, projects, request, token, identity, claims, plan, row, hits,
                   work, aborted, basis, transfers>>

before(c) ==
    /\ pc[c].at = "before"
    /\ \/ /\ ran' = [ran EXCEPT ![c].before = @ + 1]
          /\ BeforeFrom(c, pc[c].n + 1)
          /\ UNCHANGED answer
       \/ Throw(c)
    /\ UNCHANGED <<deployment, documents, projects, request, token, identity, claims, plan, row, hits,
                   work, aborted, basis, transfers>>

around(c) ==
    /\ pc[c].at = "around"
    /\ \/ /\ ran[c].proceeds < MaxProceeds                       \* Operation.proceed()
          /\ ran' = [ran EXCEPT ![c].proceeds = @ + 1]
          /\ Inwards(c, pc[c].n - 1)
          /\ UNCHANGED answer
       \/ \E result \in {"ok", "error"} :                        \* returns or throws
            Outwards(c, pc[c].n, result) /\ UNCHANGED ran
    /\ UNCHANGED <<deployment, documents, projects, request, token, identity, claims, plan, row, hits,
                   work, aborted, basis, transfers>>

after(c) ==
    /\ pc[c].at = "after"
    /\ \/ /\ ran' = [ran EXCEPT ![c].after = @ + 1]
          /\ AfterFrom(c, pc[c].n + 1)
          /\ UNCHANGED answer
       \/ Throw(c)
    /\ UNCHANGED <<deployment, documents, projects, request, token, identity, claims, plan, row, hits,
                   work, aborted, basis, transfers>>

(***************************************************************************)
(* The context of a request.  The token is read when a rule first needs a  *)
(* claim, and a successful reading is kept for the rest of the request; a  *)
(* token that is not valid any more is an error each time.                 *)
(***************************************************************************)
(* Reads the token again for every check.                                    *)
Context_uncached(c) ==
    IF token[c] = "expired" THEN [id |-> Failed, role |-> Failed] ELSE identity[c]

Context(c) ==
    IF claims[c] = "unread" /\ token[c] = "expired"
    THEN [id |-> Failed, role |-> Failed] ELSE identity[c]

Checked(c, context) ==
    LET r == request[c]
        selection == check_access("query", context, <<>>, deployment.query)
        main == check_access(r.kind, context, r.input, deployment.mutation)
    IN  IF r.kind = "query" \/ selection.outcome # "ok" THEN selection ELSE main

(* map_single: the input, with the defaults of the fields it leaves out; a   *)
(* default that cannot be read is left out like one that is missing.         *)
NewRow(c, context) ==
    LET Given(f, default) == IF f \in DOMAIN request[c].input THEN request[c].input[f] ELSE default
    IN  [owner   |-> Given("owner", IF context["id"] = Failed THEN Missing ELSE context["id"]),
         public  |-> Given("public", Missing),
         project |-> Given("project", Missing)]

(* PostgresMutation::resolve and PostgresQuery::resolve: a mutation checks   *)
(* first what it will return.                                                *)
check(c) ==
    LET failing == [id |-> Failed, role |-> Failed]
        checked == Checked(c, Context(c))
        reads == \/ Checked(c, failing).outcome = "error"
                 \/ request[c].kind = "create" /\ "owner" \notin DOMAIN request[c].input
    IN  /\ At(c, "check", 0)
        /\ ran' = [ran EXCEPT ![c].core = @ + 1]
        /\ claims' = [claims EXCEPT ![c] =
                IF reads /\ checked.outcome # "error" /\ Context(c) # failing THEN "read" ELSE @]
        /\ plan' = [plan EXCEPT ![c] = checked]
        /\ row' = [row EXCEPT ![c] = IF request[c].kind = "create" /\ checked.outcome = "ok"
                                    THEN NewRow(c, Context(c)) ELSE Gone]
        /\ basis' = [basis EXCEPT ![c] = projects]
        /\ IF checked.outcome = "ok" THEN Go(c, "precheck", 0) /\ UNCHANGED answer
           ELSE Outwards(c, 0, checked.outcome)
        /\ UNCHANGED <<deployment, documents, projects, request, token, identity, hits, work,
                       aborted, transfers>>

(***************************************************************************)
(* The statements.  A statement of a failed transaction fails.  A precheck *)
(* passes when it selects exactly one row of the table that all its column *)
(* paths start from; True needs no query.                                  *)
(***************************************************************************)
Over(new, old) == [i \in DOMAIN new \cup DOMAIN old |-> IF i \in DOMAIN new THEN new[i] ELSE old[i]]
Current(c) == Over(work[c], documents)
View(r, owners) ==
    [owner |-> r.owner, public |-> r.public, projectOwner |-> owners[r.project]]
Live(table) == {i \in DOMAIN table : table[i] # Gone}

(* add_precheck_queries unwraps the error of a predicate whose column paths  *)
(* start from several tables: the panic ends the request, past interceptors. *)
precheck(c) ==
    LET p == plan[c].precheck
        selected ==
            IF Leads(p) = {"projects"}
            THEN {q \in Projects : SelectsProject(p, [id |-> q, owner |-> projects[q]])}
            ELSE {i \in Live(Current(c)) : SelectsDocument(p, View(Current(c)[i], projects))}
        passes == p = True \/ (~aborted[c] /\ Cardinality(selected) = 1)
    IN  /\ At(c, "precheck", 0)
        /\ basis' = [basis EXCEPT ![c] = projects]
        /\ \/ /\ ~OneLead(p)
              /\ answer' = [answer EXCEPT ![c] = "panic"]
              /\ Go(c, "finish", 0)
           \/ /\ OneLead(p)
              /\ IF passes THEN Go(c, "statement", 0) /\ UNCHANGED answer
                 ELSE Outwards(c, 0, IF aborted[c] THEN "error" ELSE "authorization")
        /\ UNCHANGED <<deployment, documents, projects, request, token, identity, claims, plan, row,
                       hits, work, aborted, ran, transfers>>

(* The documents the statement matches in its snapshot.                      *)
Matches(c) ==
    LET table == Current(c) IN
    {i \in Live(table) :
        /\ request[c].kind # "query" => i = request[c].id
        /\ Holds(plan[c].entity, View(table[i], projects))}

(* INSERT: a field that is missing violates NOT NULL.  No other statement of *)
(* these operations can fail, and a request has one operation, so only an    *)
(* insert meets a transaction that has failed.                               *)
insert(c) ==
    LET used == DOMAIN documents \cup UNION {DOMAIN work[d] : d \in Clients}
        id == CHOOSE i \in 1 .. Cardinality(used) + 1 : i \notin used
        valid == ~aborted[c] /\ Missing \notin {row[c].owner, row[c].public, row[c].project}
    IN  /\ At(c, "statement", 0) /\ request[c].kind = "create"
        /\ work' = [work EXCEPT ![c] = IF valid THEN Over([i \in {id} |-> row[c]], @) ELSE @]
        /\ aborted' = [aborted EXCEPT ![c] = ~valid]
        /\ Outwards(c, 0, IF valid THEN "ok" ELSE "error")
        /\ UNCHANGED <<deployment, documents, projects, request, token, identity, claims, plan,
                       row, hits, ran, basis, transfers>>

select(c) ==
    /\ At(c, "statement", 0) /\ request[c].kind = "query"
    /\ hits' = [hits EXCEPT ![c] = Matches(c)]
    /\ Outwards(c, 0, "ok")
    /\ UNCHANGED <<deployment, documents, projects, request, token, identity, claims, plan, row,
                   work, aborted, ran, basis, transfers>>

(* UPDATE or DELETE: the snapshot first, then the write, which waits for a   *)
(* row that another transaction has written.                                 *)
scan(c) ==
    /\ At(c, "statement", 0) /\ request[c].kind \in {"update", "delete"}
    /\ hits' = [hits EXCEPT ![c] = Matches(c)]
    /\ Go(c, "write", 0)
    /\ UNCHANGED <<deployment, documents, projects, request, token, identity, claims, plan, row,
                   work, aborted, ran, answer, basis, transfers>>

(* After the wait PostgreSQL looks at the new version of the row: a          *)
(* condition on the row itself is evaluated again, a subselect over a joined *)
(* table keeps the answer of the snapshot.                                   *)
Written(c) ==
    {i \in hits[c] \cap Live(Current(c)) :
        \/ "document.project" \in plan[c].entity.paths
        \/ Holds(plan[c].entity, View(Current(c)[i], projects))}

write(c) ==
    LET new(r) == IF request[c].kind = "delete" THEN Gone
                  ELSE [f \in DOMAIN r |-> IF f \in DOMAIN request[c].input
                                           THEN request[c].input[f] ELSE r[f]]
    IN  /\ At(c, "write", 0)
        /\ \A d \in Clients \ {c} : hits[c] \cap DOMAIN work[d] = {}
        /\ work' = [work EXCEPT ![c] = Over([i \in Written(c) |-> new(Current(c)[i])], @)]
        /\ Outwards(c, 0, "ok")
        /\ UNCHANGED <<deployment, documents, projects, request, token, identity, claims, plan, row,
                       hits, aborted, ran, basis, transfers>>

(* The transaction commits on a success; PostgreSQL rolls a failed one back, *)
(* and nothing of a panicked request is committed.                           *)
finish(c) ==
    /\ At(c, "finish", 0)
    /\ documents' = IF answer[c] = "ok" /\ ~aborted[c] THEN Current(c) ELSE documents
    /\ work' = [work EXCEPT ![c] = <<>>]
    /\ Go(c, "done", 0)
    /\ request' = [request EXCEPT ![c] = NoRequest]             \* and all it kept is dropped
    /\ token' = [token EXCEPT ![c] = "absent"]
    /\ identity' = [identity EXCEPT ![c] = Anonymous]
    /\ claims' = [claims EXCEPT ![c] = "unread"]
    /\ plan' = [plan EXCEPT ![c] = NoPlan]
    /\ row' = [row EXCEPT ![c] = Gone]
    /\ hits' = [hits EXCEPT ![c] = {}]
    /\ aborted' = [aborted EXCEPT ![c] = FALSE]
    /\ basis' = [basis EXCEPT ![c] = <<>>]
    /\ UNCHANGED <<deployment, projects, ran, answer, transfers>>

(* Another request gives a project to another user.                          *)
transfer(p, u) ==
    /\ transfers < MaxTransfers
    /\ projects[p] # u
    /\ projects' = [projects EXCEPT ![p] = u]
    /\ transfers' = transfers + 1
    /\ UNCHANGED <<deployment, documents, pc, request, token, identity, claims, plan, row, hits, work,
                   aborted, ran, answer, basis>>

AllDone ==
    /\ \A c \in Clients : pc[c].at = "done"
    /\ UNCHANGED vars

Init ==
    /\ deployment \in Deployments
    /\ \E db \in Databases : documents = db.documents /\ projects = db.projects
    /\ pc = [c \in Clients |-> [at |-> "idle", n |-> 0]]
    /\ request = [c \in Clients |-> NoRequest]
    /\ token = [c \in Clients |-> "absent"]
    /\ identity = [c \in Clients |-> Anonymous]
    /\ claims = [c \in Clients |-> "unread"]
    /\ plan = [c \in Clients |-> NoPlan]
    /\ row = [c \in Clients |-> Gone]
    /\ hits = [c \in Clients |-> {}]
    /\ work = [c \in Clients |-> <<>>]
    /\ aborted = [c \in Clients |-> FALSE]
    /\ ran = [c \in Clients |-> [before |-> 0, core |-> 0, after |-> 0, proceeds |-> 0]]
    /\ answer = [c \in Clients |-> "none"]
    /\ basis = [c \in Clients |-> <<>>]
    /\ transfers = 0

Next ==
    \/ \E c \in Clients :
         \/ receive(c) \/ expire(c)
         \/ before(c) \/ around(c) \/ after(c)
         \/ check(c) \/ precheck(c)
         \/ insert(c) \/ select(c) \/ scan(c) \/ write(c)
         \/ finish(c)
    \/ \E p \in Projects, u \in Users : transfer(p, u)
    \/ AllDone

Spec == Init /\ [][Next]_vars

(***************************************************************************)
(* The properties.                                                         *)
(***************************************************************************)
Stages == {"idle", "before", "around", "check", "precheck", "statement", "write", "after",
           "finish", "done"}

(* The variables hold what their comments say; only the tree's own around    *)
(* interceptors run.                                                         *)
TypeOK ==
    /\ deployment \in Deployments
    /\ \A i \in DOMAIN documents : documents[i] \in Rows \cup {Gone}
    /\ projects \in [Projects -> Users]
    /\ \A c \in Clients :
         /\ pc[c].at \in Stages
         /\ pc[c].at = "around" => pc[c].n \in 1 .. deployment.around
         /\ token[c] \in {"valid", "absent", "expired"}
         /\ claims[c] \in {"read", "unread"}
         /\ plan[c].outcome \in {"none", "ok", "authorization", "error"}
         /\ \A i \in DOMAIN work[c] : work[c][i] \in Rows \cup {Gone}
         /\ aborted[c] \in BOOLEAN
         /\ ran[c].proceeds \in 0 .. MaxProceeds
         /\ answer[c] \in {"none", "ok", "authorization", "error", "panic"}

(* What the solver leaves to PostgreSQL is the rule: the documents that a    *)
(* query returns, or that an update or a delete matches, are exactly those   *)
(* the rule grants to the caller in the snapshot of the statement, whatever  *)
(* part of the rule was decided beforehand and whichever claims are missing  *)
(* (database_solver.rs and the short circuits of access_solver.rs).          *)
ActsWithinRule ==
    [][\A c \in Clients :
         At(c, "statement", 0) /\ pc'[c] # pc[c] /\ request[c].kind # "create" =>
           LET query == request[c].kind = "query"
               expr == IF query THEN deployment.query ELSE deployment.mutation
           IN  hits'[c] = {i \in Live(Current(c)) :
                             /\ query \/ i = request[c].id
                             /\ Grants(identity[c], View(Current(c)[i], projects), expr)}]_vars

(* "Access control expressions act as invariants": under the documented rule *)
(* for owners and administrators, a caller who is not an administrator       *)
(* commits changes to documents it owns only and leaves every document it    *)
(* wrote its own, whatever other requests commit between its check, its      *)
(* statement and its commit.                                                 *)
OwnersKeep ==
    [][\A c \in Clients :
         /\ pc[c].at = "finish" /\ pc'[c].at = "done"
         /\ deployment.mutation = OwnerRule
         /\ identity[c].role # "admin"
         => \A i \in DOMAIN documents' :
              i \notin DOMAIN documents \/ documents'[i] # documents[i] =>
                /\ i \in DOMAIN documents => documents[i].owner = identity[c].id
                /\ documents'[i] # Gone => documents'[i].owner = identity[c].id]_vars

(* A document is inserted only if the rule granted it to the caller, with    *)
(* its defaults filled in, when its precheck ran: on the projects as they    *)
(* were then, of which the input named one.                                  *)
CreatesAllowed ==
    [][\A c \in Clients :
         At(c, "statement", 0) /\ request[c].kind = "create" /\ work'[c] # work[c] =>
           Grants(identity[c], View(row[c], basis[c]), deployment.mutation)]_vars

(* "Not authorized" without asking the database is said only when no row     *)
(* could have been granted: no document at all for a query or a delete, no   *)
(* document that agrees with the input and its default for a create.         *)
RefusesOnlyWithoutGrants ==
    [][\A c \in Clients :
         /\ At(c, "check", 0) /\ plan'[c].outcome = "authorization"
         /\ request[c].kind # "update"
         => LET Agrees(v) ==
                  \/ request[c].kind # "create"
                  \/ /\ v.owner = NewRow(c, Context(c)).owner
                     /\ "public" \in DOMAIN request[c].input => v.public = request[c].input["public"]
            IN  \/ \A v \in Views : ~Grants(identity[c], v, deployment.query)
                \/ /\ request[c].kind # "query"
                   /\ \A v \in Views :
                        Agrees(v) => ~Grants(identity[c], v, deployment.mutation)]_vars

(* The tree is respected: the operation, and so any write, comes after all   *)
(* the before interceptors have returned; the after interceptors come only   *)
(* once; a success has been through every interceptor of both lists, and     *)
(* through the operation itself unless an around interceptor stood in.       *)
Woven ==
    \A c \in Clients :
        /\ ran[c].core > 0 \/ DOMAIN work[c] # {} => ran[c].before = deployment.before
        /\ ran[c].after \in 0 .. deployment.after
        /\ pc[c].at = "done" /\ answer[c] = "ok" =>
             /\ ran[c].before = deployment.before /\ ran[c].after = deployment.after
             /\ deployment.around = 0 => ran[c].core = 1

(* A request keeps the identity it was first checked with: once the claims   *)
(* have been read, the token expiring in the middle of the request fails no  *)
(* later check of it, such as those of a second proceed().                   *)
IdentityKept == \A c \in Clients : claims[c] = "read" => plan[c].outcome # "error"
=============================================================================
