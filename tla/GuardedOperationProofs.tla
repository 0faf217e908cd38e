----------------------- MODULE GuardedOperationProofs -----------------------
(* Proofs about GuardedOperation: the interception tree is respected, a      *)
(* request keeps its identity, and what the requests read and write is what  *)
(* the rules grant, for any number of requests, any interception tree and    *)
(* any interleaving.                                                         *)
EXTENDS GuardedOperation, AccessSolverProofs

(***************************************************************************)
(* The inductive invariant.                                                *)
(***************************************************************************)
Domains ==
    /\ DOMAIN pc = Clients /\ DOMAIN request = Clients /\ DOMAIN token = Clients
    /\ DOMAIN identity = Clients /\ DOMAIN claims = Clients /\ DOMAIN plan = Clients
    /\ DOMAIN row = Clients /\ DOMAIN hits = Clients /\ DOMAIN work = Clients
    /\ DOMAIN aborted = Clients /\ DOMAIN ran = Clients /\ DOMAIN answer = Clients
    /\ DOMAIN basis = Clients

IsTable(table) == IsFiniteSet(DOMAIN table) /\ \A i \in DOMAIN table : table[i] \in Rows \cup {Gone}

Tables ==
    /\ deployment \in Deployments
    /\ IsTable(documents)
    /\ projects \in [Projects -> Users]

(* The row of a create before the database has accepted it.                  *)
Drafts == [owner: Users \cup {Missing}, public: {"true", "false", Missing},
           project: Projects \cup {Missing}]

Answers == {"none", "ok", "authorization", "error"}

Typed(c) ==
    /\ token[c] \in {"valid", "absent", "expired"}
    /\ claims[c] \in {"read", "unread"}
    /\ plan[c].outcome \in Answers
    /\ row[c] \in Drafts
    /\ IsTable(work[c])
    /\ aborted[c] \in BOOLEAN
    /\ pc[c].at \notin {"idle", "done"} => request[c] \in Requests
    /\ identity[c] \in Identities \cup {Anonymous}

(* How far a request is in the tree d of its operation, at p: what ran says, *)
(* what its answer a can be, and whether it may have written (w).            *)
Weave(d, p, r, a, w) ==
    /\ p \in [at: Stages, n: Nat]
    /\ r \in [before: Nat, core: Nat, after: Nat, proceeds: 0 .. MaxProceeds]
    /\ a \in Answers \cup {"panic"}
    /\ p.at = "idle" => r.before = 0 /\ r.core = 0 /\ r.after = 0 /\ w = {}
    /\ p.at = "before" => p.n < d.before /\ r.before = p.n /\ r.core = 0 /\ r.after = 0 /\ w = {}
    /\ p.at = "around" => p.n \in 1 .. d.around
    /\ p.at \in {"around", "check", "precheck", "statement", "write"} =>
         r.before = d.before /\ r.after = 0
    /\ p.at = "check" /\ d.around = 0 => r.core = 0
    /\ p.at \in {"precheck", "statement", "write"} /\ d.around = 0 => r.core = 1
    /\ p.at = "after" =>
         /\ p.n < d.after /\ r.after = p.n /\ r.before = d.before /\ a = "ok"
         /\ d.around = 0 => r.core = 1
    /\ p.at \in {"finish", "done"} =>
         /\ r.after \in 0 .. d.after
         /\ r.core > 0 \/ w # {} => r.before = d.before
         /\ a = "ok" => /\ r.before = d.before /\ r.after = d.after
                        /\ d.around = 0 => r.core = 1

InTree(c) == Weave(deployment, pc[c], ran[c], answer[c], DOMAIN work[c])

(* Claims that have been read are those that every later check reads.        *)
ClaimsHold(c) ==
    claims[c] = "read" =>
        /\ pc[c].at \notin {"idle", "done"}
        /\ Checked(c, identity[c]).outcome # "error"
        /\ plan[c].outcome # "error"

(* The predicates in use, and the row to insert, are those of the caller, or *)
(* of a caller whose token cannot be read.                                   *)
PlannedFor(c, context) ==
    /\ plan[c] = Checked(c, context)
    /\ request[c].kind = "create" /\ plan[c].outcome = "ok" => row[c] = NewRow(c, context)

Planned(c) ==
    /\ plan[c].outcome # "none" =>
         /\ pc[c].at \notin {"idle", "done"}
         /\ PlannedFor(c, identity[c]) \/ (Context(c) = Failing /\ PlannedFor(c, Failing))
    /\ pc[c].at \in {"precheck", "statement", "write"} => plan[c].outcome = "ok"

(* The precheck had one lead table at most, and if that was the projects, it *)
(* passed on the projects that it saw.                                       *)
Selected(p, owners) == {q \in Projects : SelectsProject(p, [id |-> q, owner |-> owners[q]])}
PassedOn(p, owners) ==
    /\ OneLead(p)
    /\ p = True \/ (Leads(p) = {"projects"} => Cardinality(Selected(p, owners)) = 1)

Passed(c) ==
    pc[c].at \in {"statement", "write"} =>
        /\ basis[c] \in [Projects -> Users]
        /\ PassedOn(plan[c].precheck, basis[c])

(* Under the rule for owners and administrators, the documents that another  *)
(* caller has written were, and are, its own.                                *)
WritesOwn(c) ==
    deployment.mutation = OwnerRule /\ identity[c].role # "admin" =>
        \A i \in DOMAIN work[c] :
            /\ i \in DOMAIN documents => documents[i].owner = identity[c].id
            /\ work[c][i] # Gone => work[c][i].owner = identity[c].id

(* A row that one transaction has written, no other one has.                 *)
Disjoint == \A c, d \in Clients : c # d => DOMAIN work[c] \cap DOMAIN work[d] = {}

Inv ==
    /\ Domains /\ Tables
    /\ \A c \in Clients : Typed(c) /\ InTree(c) /\ ClaimsHold(c) /\ Planned(c) /\ Passed(c)

Mutates(c) == pc[c].at = "write" => request[c].kind \in {"update", "delete"}

OwnInv == Disjoint /\ \A c \in Clients : Mutates(c) /\ WritesOwn(c)


(***************************************************************************)
(* Frames: a request changes nothing of another one.                       *)
(***************************************************************************)
Acts(c) ==
    \/ receive(c) \/ expire(c)
    \/ before(c) \/ around(c) \/ after(c)
    \/ check(c) \/ precheck(c)
    \/ insert(c) \/ select(c) \/ scan(c) \/ write(c)
    \/ finish(c)

Only(c, f, g) == DOMAIN g = Clients /\ \A d \in Clients \ {c} : g[d] = f[d]

Kept(d) ==
    /\ pc'[d] = pc[d] /\ request'[d] = request[d] /\ token'[d] = token[d]
    /\ identity'[d] = identity[d] /\ claims'[d] = claims[d] /\ plan'[d] = plan[d]
    /\ row'[d] = row[d] /\ hits'[d] = hits[d] /\ work'[d] = work[d]
    /\ aborted'[d] = aborted[d] /\ ran'[d] = ran[d] /\ answer'[d] = answer[d]
    /\ basis'[d] = basis[d]

LEMMA ExceptOnly ==
    ASSUME NEW f, DOMAIN f = Clients, NEW c \in Clients, NEW v, NEW g, g = [f EXCEPT ![c] = v]
    PROVE  Only(c, f, g) /\ g[c] = v
  BY DEF Only

LEMMA SameOnly ==
    ASSUME NEW f, DOMAIN f = Clients, NEW c, NEW g, g = f
    PROVE  Only(c, f, g)
  BY DEF Only

LEMMA GoMoves ==
    ASSUME DOMAIN pc = Clients, NEW c \in Clients, NEW at, NEW n, Go(c, at, n)
    PROVE  Only(c, pc, pc') /\ pc'[c] = [at |-> at, n |-> n]
  BY ExceptOnly DEF Go

LEMMA InwardsMoves ==
    ASSUME DOMAIN pc = Clients, NEW c \in Clients, NEW n, Inwards(c, n)
    PROVE  /\ Only(c, pc, pc')
           /\ pc'[c] = IF n = 0 THEN [at |-> "check", n |-> 0] ELSE [at |-> "around", n |-> n]
  BY GoMoves DEF Inwards

LEMMA BeforeMoves ==
    ASSUME DOMAIN pc = Clients, NEW c \in Clients, NEW n, BeforeFrom(c, n)
    PROVE  /\ Only(c, pc, pc')
           /\ pc'[c] = IF n # deployment.before THEN [at |-> "before", n |-> n]
                       ELSE IF deployment.around = 0 THEN [at |-> "check", n |-> 0]
                       ELSE [at |-> "around", n |-> deployment.around]
  BY GoMoves, InwardsMoves DEF BeforeFrom

LEMMA AfterMoves ==
    ASSUME DOMAIN pc = Clients, NEW c \in Clients, NEW n, AfterFrom(c, n)
    PROVE  /\ Only(c, pc, pc')
           /\ pc'[c] = IF n = deployment.after THEN [at |-> "finish", n |-> 0]
                       ELSE [at |-> "after", n |-> n]
  BY GoMoves DEF AfterFrom

LEMMA OutwardsMoves ==
    ASSUME DOMAIN pc = Clients, DOMAIN answer = Clients, NEW c \in Clients, NEW n, NEW result,
           Outwards(c, n, result)
    PROVE  /\ Only(c, pc, pc') /\ Only(c, answer, answer')
           /\ answer'[c] = result
           /\ pc'[c] = IF n < deployment.around THEN [at |-> "around", n |-> n + 1]
                       ELSE IF result = "ok" /\ deployment.after # 0 THEN [at |-> "after", n |-> 0]
                       ELSE [at |-> "finish", n |-> 0]
<1>1. answer' = [answer EXCEPT ![c] = result]
  BY DEF Outwards
<1>2. Only(c, answer, answer') /\ answer'[c] = result
  BY <1>1, ExceptOnly
<1>3. CASE n < deployment.around
  BY <1>2, <1>3, GoMoves DEF Outwards
<1>4. CASE ~(n < deployment.around) /\ result = "ok"
  BY <1>2, <1>4, AfterMoves DEF Outwards
<1>5. CASE ~(n < deployment.around) /\ result # "ok"
  BY <1>2, <1>5, GoMoves DEF Outwards
<1> QED
  BY <1>3, <1>4, <1>5

LEMMA ThrowMoves ==
    ASSUME DOMAIN pc = Clients, DOMAIN answer = Clients, NEW c \in Clients, Throw(c)
    PROVE  /\ Only(c, pc, pc') /\ Only(c, answer, answer')
           /\ answer'[c] = "error" /\ pc'[c] = [at |-> "finish", n |-> 0]
           /\ ran' = ran
<1>1. answer' = [answer EXCEPT ![c] = "error"] /\ Go(c, "finish", 0) /\ ran' = ran
  BY Zenon DEF Throw
<1>2. Only(c, answer, answer') /\ answer'[c] = "error"
  BY <1>1, ExceptOnly
<1>3. Only(c, pc, pc') /\ pc'[c] = [at |-> "finish", n |-> 0]
  BY <1>1, GoMoves
<1> QED
  BY <1>1, <1>2, <1>3

LEMMA Targets ==
    ASSUME DOMAIN pc = Clients, DOMAIN answer = Clients, NEW c \in Clients, NEW n
    PROVE  /\ \A at : Go(c, at, n) => pc'[c].at = at
           /\ Inwards(c, n) => pc'[c].at \in {"check", "around"}
           /\ BeforeFrom(c, n) => pc'[c].at \in {"before", "check", "around"}
           /\ AfterFrom(c, n) => pc'[c].at \in {"after", "finish"}
           /\ \A result : Outwards(c, n, result) => pc'[c].at \in {"around", "after", "finish"}
           /\ Throw(c) => pc'[c].at = "finish"
<1>1. ASSUME NEW at, NEW m, Go(c, at, m) PROVE pc'[c].at = at
  <2>1. pc'[c] = [at |-> at, n |-> m]
    BY <1>1, GoMoves, ZenonT(40)
  <2> QED
    BY <2>1
<1>2. Inwards(c, n) => pc'[c].at \in {"check", "around"}
  BY <1>1 DEF Inwards
<1>3. BeforeFrom(c, n) => pc'[c].at \in {"before", "check", "around"}
  BY <1>1 DEF BeforeFrom, Inwards
<1>4. \A m : AfterFrom(c, m) => pc'[c].at \in {"after", "finish"}
  BY <1>1 DEF AfterFrom
<1>5. \A result : Outwards(c, n, result) => pc'[c].at \in {"around", "after", "finish"}
  BY <1>1, <1>4 DEF Outwards
<1>6. Throw(c) => pc'[c].at = "finish"
  BY <1>1 DEF Throw
<1> QED
  BY <1>1, <1>2, <1>3, <1>4, <1>5, <1>6

Frame(c) ==
    /\ Only(c, pc, pc') /\ Only(c, request, request') /\ Only(c, token, token')
    /\ Only(c, identity, identity') /\ Only(c, claims, claims') /\ Only(c, plan, plan')
    /\ Only(c, row, row') /\ Only(c, hits, hits') /\ Only(c, work, work')
    /\ Only(c, aborted, aborted') /\ Only(c, ran, ran') /\ Only(c, answer, answer')
    /\ Only(c, basis, basis')

LEMMA FrameIsKept ==
    ASSUME NEW c, Frame(c)
    PROVE  Domains' /\ \A d \in Clients \ {c} : Kept(d)
  BY ZenonT(40) DEF Frame, Only, Domains, Kept

LEMMA ActsFrame ==
    ASSUME Domains, NEW c \in Clients, Acts(c)
    PROVE  Frame(c) /\ deployment' = deployment /\ projects' = projects
<1> USE DEF Domains
<1>1. CASE receive(c)
  <2>1. PICK r \in Requests, i \in Identities \cup {Anonymous} :
             /\ r.kind \in deployment.offers
             /\ request' = [request EXCEPT ![c] = r]
             /\ identity' = [identity EXCEPT ![c] = i]
             /\ token' = [token EXCEPT ![c] = IF i = Anonymous THEN "absent" ELSE "valid"]
    BY <1>1, Zenon DEF receive
  <2>2. Only(c, request, request') /\ Only(c, identity, identity') /\ Only(c, token, token')
    BY <2>1, ExceptOnly
  <2> QED
    BY <1>1, <2>2, SameOnly, BeforeMoves DEF receive, Frame
<1>2. CASE expire(c)
  BY <1>2, SameOnly, ExceptOnly DEF expire, Frame
<1>3. CASE before(c)
  <2>1. Only(c, ran, ran')
    BY <1>3, SameOnly, ThrowMoves DEF before, Only
  <2>2. Only(c, pc, pc') /\ Only(c, answer, answer')
    BY <1>3, SameOnly, ThrowMoves, BeforeMoves DEF before
  <2> QED
    BY <1>3, <2>1, <2>2, SameOnly DEF before, Frame
<1>4. CASE around(c)
  <2>1. Only(c, ran, ran')
    BY <1>4, SameOnly DEF around, Only
  <2>2. Only(c, pc, pc') /\ Only(c, answer, answer')
    BY <1>4, SameOnly, InwardsMoves, OutwardsMoves DEF around
  <2> QED
    BY <1>4, <2>1, <2>2, SameOnly DEF around, Frame
<1>5. CASE after(c)
  <2>1. Only(c, ran, ran')
    BY <1>5, SameOnly, ThrowMoves DEF after, Only
  <2>2. Only(c, pc, pc') /\ Only(c, answer, answer')
    BY <1>5, SameOnly, ThrowMoves, AfterMoves DEF after
  <2> QED
    BY <1>5, <2>1, <2>2, SameOnly DEF after, Frame
<1>6. CASE check(c)
  <2>1. Only(c, ran, ran') /\ Only(c, claims, claims') /\ Only(c, plan, plan')
        /\ Only(c, row, row') /\ Only(c, basis, basis')
    BY <1>6 DEF check, Only
  <2>2. Only(c, pc, pc') /\ Only(c, answer, answer')
    BY <1>6, SameOnly, GoMoves, OutwardsMoves DEF check
  <2> QED
    BY <1>6, <2>1, <2>2, SameOnly DEF check, Frame
<1>7. CASE precheck(c)
  <2>1. Only(c, pc, pc') /\ Only(c, answer, answer')
    BY <1>7, SameOnly, ExceptOnly, GoMoves, OutwardsMoves DEF precheck
  <2> QED
    BY <1>7, <2>1, SameOnly, ExceptOnly DEF precheck, Frame
<1>8. CASE insert(c)
  <2>1. Only(c, work, work') /\ Only(c, aborted, aborted')
    BY <1>8 DEF insert, Only
  <2>2. Only(c, pc, pc') /\ Only(c, answer, answer')
    BY <1>8, OutwardsMoves DEF insert
  <2> QED
    BY <1>8, <2>1, <2>2, SameOnly DEF insert, Frame
<1>9. CASE select(c)
  BY <1>9, SameOnly, ExceptOnly, OutwardsMoves DEF select, Frame
<1>10. CASE scan(c)
  BY <1>10, SameOnly, ExceptOnly, GoMoves DEF scan, Frame
<1>11. CASE write(c)
  <2>1. Only(c, work, work')
    BY <1>11 DEF write, Only
  <2>2. Only(c, pc, pc') /\ Only(c, answer, answer')
    BY <1>11, OutwardsMoves DEF write
  <2> QED
    BY <1>11, <2>1, <2>2, SameOnly DEF write, Frame
<1>12. CASE finish(c)
  BY <1>12, SameOnly, ExceptOnly, GoMoves DEF finish, Frame
<1> QED
  BY <1>1, <1>2, <1>3, <1>4, <1>5, <1>6, <1>7, <1>8, <1>9, <1>10, <1>11, <1>12 DEF Acts


Client(c) == Typed(c) /\ InTree(c) /\ ClaimsHold(c) /\ Planned(c) /\ Passed(c)

LEMMA KeptClient ==
    ASSUME NEW d, Kept(d), deployment' = deployment, Client(d)
    PROVE  Client(d)'
<1>1. Typed(d)'
  BY DEF Client, Typed, Kept
<1>2. InTree(d)'
  BY Zenon DEF Client, InTree, Kept
<1>3. \A x : Checked(d, x)' = Checked(d, x)
  BY SMT DEF Checked, Kept
<1>4. \A x : NewRow(d, x)' = NewRow(d, x)
  BY Zenon DEF NewRow, Kept
<1>5. Context(d)' = Context(d)
  BY Zenon DEF Context, Kept
<1>6. ClaimsHold(d)'
  BY <1>3, Zenon DEF Client, ClaimsHold, Kept
<1>7. \A x : PlannedFor(d, x)' <=> PlannedFor(d, x)
  BY <1>3, <1>4, Zenon DEF PlannedFor, Kept
<1>8. Planned(d)'
  BY <1>5, <1>7, Zenon DEF Client, Planned, Kept
<1>9. Passed(d)'
  BY Zenon DEF Client, Passed, Kept
<1> QED
  BY <1>1, <1>2, <1>6, <1>8, <1>9 DEF Client

(***************************************************************************)
(* The interception tree.                                                  *)
(***************************************************************************)
LEMMA WeaveOutwards ==
    ASSUME NEW d \in Deployments, NEW r, NEW p, NEW n \in 0 .. d.around, NEW result \in Answers, NEW w,
           r \in [before: Nat, core: Nat, after: Nat, proceeds: 0 .. MaxProceeds],
           r.before = d.before, r.after = 0, d.around = 0 => r.core = 1,
           p = IF n < d.around THEN [at |-> "around", n |-> n + 1]
               ELSE IF result = "ok" /\ d.after # 0 THEN [at |-> "after", n |-> 0]
               ELSE [at |-> "finish", n |-> 0]
    PROVE  Weave(d, p, r, result, w)
<1>1. d.before \in Nat /\ d.around \in Nat /\ d.after \in Nat
  BY DeploymentsAssumption
<1>2. CASE n < d.around
  <2>1. p = [at |-> "around", n |-> n + 1]
    BY <1>2
  <2> QED
    BY <1>1, <1>2, <2>1 DEF Weave, Stages
<1>3. CASE ~(n < d.around) /\ result = "ok" /\ d.after # 0
  <2>1. p = [at |-> "after", n |-> 0]
    BY <1>3
  <2> QED
    BY <1>1, <1>3, <2>1 DEF Weave, Stages
<1>4. CASE ~(n < d.around) /\ ~(result = "ok" /\ d.after # 0)
  <2>1. p = [at |-> "finish", n |-> 0]
    BY <1>4
  <2> QED
    BY <1>1, <1>4, <2>1 DEF Weave, Stages
<1> QED
  BY <1>2, <1>3, <1>4

LEMMA WeaveBefore ==
    ASSUME NEW d \in Deployments, NEW r, NEW p, NEW n \in Nat, NEW a \in Answers \cup {"panic"}, NEW w,
           r \in [before: Nat, core: Nat, after: Nat, proceeds: 0 .. MaxProceeds],
           n <= d.before, r.before = n, r.after = 0, r.core = 0, w = {},
           p = IF n # d.before THEN [at |-> "before", n |-> n]
               ELSE IF d.around = 0 THEN [at |-> "check", n |-> 0]
               ELSE [at |-> "around", n |-> d.around]
    PROVE  Weave(d, p, r, a, w)
<1>1. d.before \in Nat /\ d.around \in Nat /\ d.after \in Nat
  BY DeploymentsAssumption
<1>2. CASE n # d.before
  <2>1. p = [at |-> "before", n |-> n]
    BY <1>2
  <2> QED
    BY <1>1, <1>2, <2>1 DEF Weave, Stages
<1>3. CASE n = d.before /\ d.around = 0
  <2>1. p = [at |-> "check", n |-> 0]
    BY <1>3
  <2> QED
    BY <1>1, <1>3, <2>1 DEF Weave, Stages
<1>4. CASE n = d.before /\ d.around # 0
  <2>1. p = [at |-> "around", n |-> d.around]
    BY <1>4
  <2> QED
    BY <1>1, <1>4, <2>1 DEF Weave, Stages
<1> QED
  BY <1>2, <1>3, <1>4

LEMMA WeaveThrow ==
    ASSUME NEW d \in Deployments, NEW p, NEW r, NEW a, NEW w, NEW q,
           Weave(d, p, r, a, w), p.at \in {"before", "after"},
           q = [at |-> "finish", n |-> 0]
    PROVE  Weave(d, q, r, "error", w)
<1>1. d.before \in Nat /\ d.around \in Nat /\ d.after \in Nat
  BY DeploymentsAssumption
<1> QED
  BY <1>1 DEF Weave, Stages, Answers


RanType == [before: Nat, core: Nat, after: Nat, proceeds: 0 .. MaxProceeds]

LEMMA AccessOutcome ==
    ASSUME NEW p, NEW q, NEW a, a = Access(p, q)
    PROVE  /\ a.outcome \in {"ok", "authorization", "error"}
           /\ a.outcome = "ok" =>
                /\ a.precheck = p /\ a.entity = q
                /\ p # Error /\ p # False /\ q # Error /\ q # False
           /\ a.outcome = "authorization" => p = False \/ q = False
<1>1. CASE Error \in {p, q}
  BY <1>1 DEF Access
<1>2. CASE Error \notin {p, q} /\ False \in {p, q}
  BY <1>2 DEF Access
<1>3. CASE Error \notin {p, q} /\ False \notin {p, q}
  BY <1>3 DEF Access
<1> QED
  BY <1>1, <1>2, <1>3

LEMMA CheckedOutcome ==
    ASSUME NEW c, NEW x, request[c] \in Requests
    PROVE  Checked(c, x).outcome \in {"ok", "authorization", "error"}
<1>1. ASSUME NEW kind \in {"query", "create", "update", "delete"}, NEW input, NEW expr
      PROVE  check_access(kind, x, input, expr).outcome \in {"ok", "authorization", "error"}
  <2>1. CASE kind = "query"
    BY <2>1, AccessOutcome DEF check_access, check_retrieve_access
  <2>2. CASE kind = "create"
    BY <2>2, AccessOutcome DEF check_access, check_create_access
  <2>3. CASE kind = "update"
    BY <2>3, AccessOutcome DEF check_access, check_update_access
  <2>4. CASE kind = "delete"
    BY <2>4, AccessOutcome DEF check_access, check_delete_access
  <2> QED
    BY <2>1, <2>2, <2>3, <2>4
<1>2. request[c].kind \in {"query", "create", "update", "delete"}
  BY RequestsAssumption
<1> QED
  BY <1>1, <1>2 DEF Checked

LEMMA ActsInTree ==
    ASSUME Domains, Tables, NEW c \in Clients, Client(c), Acts(c)
    PROVE  InTree(c)'
<1> DEFINE d == deployment
           p == pc[c]
           r == ran[c]
<1>1. d \in Deployments /\ d.before \in Nat /\ d.around \in Nat /\ d.after \in Nat
  BY DeploymentsAssumption DEF Tables
<1>2. Weave(d, p, r, answer[c], DOMAIN work[c])
  BY DEF Client, InTree
<1>3. /\ DOMAIN pc = Clients /\ DOMAIN answer = Clients /\ DOMAIN ran = Clients
      /\ d' = d
  BY ActsFrame DEF Domains
<1>4. r \in RanType /\ answer[c] \in Answers \cup {"panic"} /\ p.n \in Nat
  BY <1>2 DEF Weave, RanType
<1> USE DEF InTree
<1>5. CASE receive(c)
  <2>1. ran' = ran /\ answer' = answer /\ work' = work /\ BeforeFrom(c, 0) /\ p.at = "idle"
    BY <1>5 DEF receive, At
  <2>2. r.before = 0 /\ r.core = 0 /\ r.after = 0 /\ DOMAIN work[c] = {}
    BY <1>2, <2>1 DEF Weave
  <2>3. pc'[c] = IF 0 # d.before THEN [at |-> "before", n |-> 0]
                 ELSE IF d.around = 0 THEN [at |-> "check", n |-> 0]
                 ELSE [at |-> "around", n |-> d.around]
    BY <1>3, <2>1, BeforeMoves
  <2>4. 0 <= d.before
    BY <1>1
  <2>5. Weave(d, pc'[c], r, answer[c], DOMAIN work[c])
    BY <1>1, <1>4, <2>2, <2>3, <2>4, WeaveBefore DEF RanType
  <2> QED
    BY <1>3, <2>1, <2>5, Zenon
<1>6. CASE expire(c)
  BY <1>2, <1>3, <1>6, Zenon DEF expire
<1>7. CASE before(c)
  <2>1. p.at = "before" /\ work' = work
    BY <1>7 DEF before
  <2>2. CASE Throw(c)
    BY <1>1, <1>2, <1>3, <2>1, <2>2, ThrowMoves, WeaveThrow
  <2>3. CASE /\ ran' = [ran EXCEPT ![c].before = @ + 1]
             /\ BeforeFrom(c, p.n + 1)
             /\ answer' = answer
    <3> DEFINE q == ran'[c]
               m == p.n + 1
    <3>1. q = [r EXCEPT !.before = r.before + 1]
      BY <1>3, <2>3
    <3>2. p.n < d.before /\ r.before = p.n /\ r.core = 0 /\ r.after = 0 /\ DOMAIN work[c] = {}
      BY <1>2, <2>1 DEF Weave
    <3>3. q \in RanType /\ q.before = m /\ q.core = 0 /\ q.after = 0 /\ m \in Nat /\ m <= d.before
      BY <1>1, <1>4, <3>1, <3>2 DEF RanType
    <3>4. pc'[c] = IF m # d.before THEN [at |-> "before", n |-> m]
                   ELSE IF d.around = 0 THEN [at |-> "check", n |-> 0]
                   ELSE [at |-> "around", n |-> d.around]
      BY <1>3, <2>3, BeforeMoves
    <3> HIDE DEF q, m
    <3>5. Weave(d, pc'[c], q, answer[c], DOMAIN work[c])
      BY <1>1, <1>4, <3>2, <3>3, <3>4, WeaveBefore DEF RanType
    <3> QED
      BY <1>3, <2>1, <2>3, <3>5 DEF q
  <2> QED
    BY <1>7, <2>2, <2>3 DEF before
<1>8. CASE around(c)
  <2>1. p.at = "around" /\ work' = work
    BY <1>8 DEF around
  <2>2. p.n \in 1 .. d.around /\ r.before = d.before /\ r.after = 0
    BY <1>2, <2>1 DEF Weave
  <2>3. CASE /\ r.proceeds < MaxProceeds
             /\ ran' = [ran EXCEPT ![c].proceeds = @ + 1]
             /\ Inwards(c, p.n - 1)
             /\ answer' = answer
    <3> DEFINE q == ran'[c]
               m == p.n - 1
    <3>1. q = [r EXCEPT !.proceeds = r.proceeds + 1]
      BY <1>3, <2>3
    <3>2. q \in RanType /\ q.before = d.before /\ q.after = 0
      BY <1>4, <2>2, <2>3, <3>1, BoundsAssumption DEF RanType
    <3>3. pc'[c] = IF m = 0 THEN [at |-> "check", n |-> 0] ELSE [at |-> "around", n |-> m]
      BY <1>3, <2>3, InwardsMoves
    <3>4. m = 0 \/ m \in 1 .. d.around
      BY <1>1, <2>2
    <3>5. d.around # 0
      BY <1>1, <2>2
    <3> HIDE DEF q, m
    <3>6. Weave(d, pc'[c], q, answer[c], DOMAIN work[c])
      <4>1. CASE m = 0
        BY <1>1, <1>4, <3>2, <3>3, <3>5, <4>1 DEF Weave, RanType, Stages
      <4>2. CASE m # 0
        BY <1>1, <1>4, <3>2, <3>3, <3>4, <3>5, <4>2 DEF Weave, RanType, Stages
      <4> QED
        BY <4>1, <4>2
    <3> QED
      BY <1>3, <2>1, <2>3, <3>6 DEF q
  <2>4. CASE \E result \in {"ok", "error"} : Outwards(c, p.n, result) /\ ran' = ran
    <3>1. PICK result \in {"ok", "error"} : Outwards(c, p.n, result) /\ ran' = ran
      BY <2>4
    <3>2. d.around = 0 => r.core = 1
      BY <1>1, <2>2
    <3>3. result \in Answers /\ p.n \in 0 .. d.around
      BY <2>2 DEF Answers
    <3>4. Weave(d, pc'[c], r, result, DOMAIN work[c])
      BY <1>1, <1>3, <1>4, <2>2, <3>1, <3>2, <3>3, OutwardsMoves, WeaveOutwards DEF RanType
    <3>5. answer'[c] = result
      BY <1>3, <3>1, OutwardsMoves
    <3> QED
      BY <1>3, <2>1, <3>1, <3>4, <3>5
  <2> QED
    BY <1>8, <2>3, <2>4 DEF around
<1>9. CASE after(c)
  <2>1. p.at = "after" /\ work' = work
    BY <1>9 DEF after
  <2>2. CASE Throw(c)
    BY <1>1, <1>2, <1>3, <2>1, <2>2, ThrowMoves, WeaveThrow
  <2>3. CASE /\ ran' = [ran EXCEPT ![c].after = @ + 1]
             /\ AfterFrom(c, p.n + 1)
             /\ answer' = answer
    <3> DEFINE q == ran'[c]
               m == p.n + 1
    <3>1. q = [r EXCEPT !.after = r.after + 1]
      BY <1>3, <2>3
    <3>2. /\ p.n < d.after /\ r.after = p.n /\ r.before = d.before /\ answer[c] = "ok"
          /\ d.around = 0 => r.core = 1
      BY <1>2, <2>1 DEF Weave
    <3>3. /\ q \in RanType /\ q.before = d.before /\ q.after = m /\ m \in Nat /\ m <= d.after
          /\ d.around = 0 => q.core = 1
      BY <1>1, <1>4, <3>1, <3>2 DEF RanType
    <3>4. pc'[c] = IF m = d.after THEN [at |-> "finish", n |-> 0] ELSE [at |-> "after", n |-> m]
      BY <1>3, <2>3, AfterMoves
    <3> HIDE DEF q, m
    <3>5. Weave(d, pc'[c], q, answer[c], DOMAIN work[c])
      <4>1. CASE m = d.after
        <5>1. pc'[c] = [at |-> "finish", n |-> 0]
          BY <3>4, <4>1
        <5> QED
          BY <1>1, <1>4, <3>2, <3>3, <4>1, <5>1 DEF Weave, RanType, Stages
      <4>2. CASE m # d.after
        <5>1. pc'[c] = [at |-> "after", n |-> m]
          BY <3>4, <4>2
        <5> QED
          BY <1>1, <1>4, <3>2, <3>3, <4>2, <5>1 DEF Weave, RanType, Stages
      <4> QED
        BY <4>1, <4>2
    <3> QED
      BY <1>3, <2>1, <2>3, <3>5 DEF q
  <2> QED
    BY <1>9, <2>2, <2>3 DEF after
<1>10. ASSUME NEW result \in Answers, NEW q, q \in RanType, q.before = d.before, q.after = 0,
              d.around = 0 => q.core = 1,
              Outwards(c, 0, result), ran'[c] = q
       PROVE  InTree(c)'
  <2>1. /\ pc'[c] = IF 0 < d.around THEN [at |-> "around", n |-> 0 + 1]
                    ELSE IF result = "ok" /\ d.after # 0 THEN [at |-> "after", n |-> 0]
                    ELSE [at |-> "finish", n |-> 0]
        /\ answer'[c] = result
    BY <1>3, <1>10, OutwardsMoves
  <2>2. 0 \in 0 .. d.around
    BY <1>1
  <2>3. Weave(d, pc'[c], q, result, DOMAIN work'[c])
    BY <1>1, <1>10, <2>1, <2>2, WeaveOutwards DEF RanType
  <2> QED
    BY <1>3, <1>10, <2>1, <2>3, Zenon
<1>11. ASSUME NEW q, q \in RanType, q.before = d.before, q.after = 0,
              d.around = 0 => q.core = 1, ran'[c] = q,
              NEW at \in {"precheck", "statement", "write"}, Go(c, at, 0), answer' = answer
       PROVE  InTree(c)'
  <2>1. pc'[c] = [at |-> at, n |-> 0]
    BY <1>3, <1>11, GoMoves
  <2>2. Weave(d, pc'[c], q, answer[c], DOMAIN work'[c])
    BY <1>1, <1>4, <1>11, <2>1 DEF Weave, RanType, Stages
  <2> QED
    BY <1>3, <1>11, <2>2, Zenon
<1>12. CASE check(c)
  <2>1. p.at = "check" /\ ran' = [ran EXCEPT ![c].core = @ + 1]
    BY <1>12 DEF check, At
  <2> DEFINE q == ran'[c]
  <2>2. q = [r EXCEPT !.core = r.core + 1]
    BY <1>3, <2>1
  <2>3. r.before = d.before /\ r.after = 0 /\ (d.around = 0 => r.core = 0)
    BY <1>2, <2>1 DEF Weave
  <2>4. q \in RanType /\ q.before = d.before /\ q.after = 0 /\ (d.around = 0 => q.core = 1)
    BY <1>1, <1>4, <2>2, <2>3 DEF RanType
  <2>5. Checked(c, Context(c)).outcome \in Answers
    BY <2>1, CheckedOutcome DEF Client, Typed, Answers
  <2>6. \/ Go(c, "precheck", 0) /\ answer' = answer
        \/ Outwards(c, 0, Checked(c, Context(c)).outcome)
    BY <1>12, Zenon DEF check
  <2> HIDE DEF q
  <2> QED
    BY <1>10, <1>11, <2>4, <2>5, <2>6 DEF q
<1>13. CASE p.at \in {"precheck", "statement", "write"} /\ ran' = ran
  <2>1. r.before = d.before /\ r.after = 0 /\ (d.around = 0 => r.core = 1)
    BY <1>2, <1>13 DEF Weave
  <2>2. ran'[c] = r
    BY <1>13
  <2>3. CASE precheck(c)
    <3>1. \/ Go(c, "statement", 0) /\ answer' = answer
          \/ Outwards(c, 0, "error")
          \/ Outwards(c, 0, "authorization")
          \/ answer' = [answer EXCEPT ![c] = "panic"] /\ Go(c, "finish", 0)
      BY <2>3 DEF precheck
    <3>2. CASE answer' = [answer EXCEPT ![c] = "panic"] /\ Go(c, "finish", 0)
      <4>1. answer'[c] = "panic" /\ pc'[c] = [at |-> "finish", n |-> 0]
        BY <1>3, <3>2, GoMoves
      <4>2. Weave(d, pc'[c], r, "panic", DOMAIN work'[c])
        BY <1>1, <1>4, <2>1, <4>1 DEF Weave, RanType, Stages
      <4> QED
        BY <1>3, <2>2, <4>1, <4>2, Zenon
    <3> QED
      BY <1>4, <1>10, <1>11, <2>1, <2>2, <3>1, <3>2 DEF Answers
  <2>4. CASE insert(c)
    <3>1. Outwards(c, 0, "ok") \/ Outwards(c, 0, "error")
      BY <2>4 DEF insert
    <3> QED
      BY <1>4, <1>10, <2>1, <2>2, <3>1 DEF Answers
  <2>5. CASE select(c) \/ write(c)
    <3>1. Outwards(c, 0, "ok")
      BY <2>5 DEF select, write
    <3> QED
      BY <1>4, <1>10, <2>1, <2>2, <3>1 DEF Answers
  <2>6. CASE scan(c)
    <3>1. Go(c, "write", 0) /\ answer' = answer
      BY <2>6 DEF scan
    <3> QED
      BY <1>4, <1>11, <2>1, <2>2, <3>1
  <2>7. \/ precheck(c) \/ insert(c) \/ select(c) \/ write(c) \/ scan(c)
    BY <1>13 DEF Acts, receive, expire, before, around, after, check, finish, At
  <2> QED
    BY <2>3, <2>4, <2>5, <2>6, <2>7
<1>14. CASE finish(c)
  <2>1. p.at = "finish" /\ Go(c, "done", 0) /\ ran' = ran /\ answer' = answer
    BY <1>14 DEF finish, At
  <2>2. work'[c] = <<>>
    BY <1>14, ExceptOnly DEF finish, Domains
  <2>3. pc'[c] = [at |-> "done", n |-> 0]
    BY <1>3, <2>1, GoMoves
  <2>4. Weave(d, pc'[c], r, answer[c], DOMAIN work'[c])
    BY <1>1, <1>2, <2>1, <2>2, <2>3 DEF Weave, Stages
  <2> QED
    BY <1>3, <2>1, <2>4, Zenon
<1> QED
  <2>1. precheck(c) \/ insert(c) \/ select(c) \/ scan(c) \/ write(c) =>
          p.at \in {"precheck", "statement", "write"} /\ ran' = ran
    BY DEF precheck, insert, select, scan, write, At
  <2> QED
    BY <1>5, <1>6, <1>7, <1>8, <1>9, <1>12, <1>13, <1>14, <2>1, Zenon DEF Acts


(***************************************************************************)
(* Identity and plan.                                                      *)
(***************************************************************************)
LEMMA FailingIdentity ==
    ASSUME NEW i \in Identities \cup {Anonymous}
    PROVE  i # Failing /\ Caller(i) /\ i["id"] \in Users \cup {Missing}
<1>1. Missing # Failed
  BY DEF Missing, Failed
<1>2. CASE i \in Identities
  <2>1. i["id"] \in Users \cup {Missing} /\ i["role"] # Failed
    BY <1>2, IdentitiesAssumption
  <2>2. i["id"] # Failed
    BY <1>1, <2>1, UsersAssumption
  <2> QED
    BY <2>1, <2>2 DEF Caller, Failing
<1>3. CASE i = Anonymous
  BY <1>1, <1>3 DEF Anonymous, Caller, Failing
<1> QED
  BY <1>2, <1>3

LEMMA ContextIs ==
    ASSUME NEW c
    PROVE  /\ Context(c) = identity[c] \/ Context(c) = Failing
           /\ claims[c] = "read" => Context(c) = identity[c]
  BY DEF Context, Failing

(* All but these keep what a request was asked and who asks.                 *)
Stays(c) ==
    /\ request'[c] = request[c] /\ identity'[c] = identity[c] /\ claims'[c] = claims[c]
    /\ plan'[c] = plan[c] /\ row'[c] = row[c]
    /\ token'[c] = token[c] \/ (token[c] = "valid" /\ token'[c] = "expired")
    /\ pc[c].at \notin {"idle", "done"} /\ pc'[c].at \notin {"idle", "done"}

LEMMA OthersStay ==
    ASSUME Domains, NEW c \in Clients, Acts(c)
    PROVE  receive(c) \/ check(c) \/ finish(c) \/ Stays(c)
<1> USE DEF Domains
<1>1. CASE expire(c)
  <2>1. token'[c] = "expired"
    BY <1>1, ExceptOnly DEF expire
  <2> QED
    BY <1>1, <2>1 DEF expire, Stays, At
<1>2. CASE before(c) \/ around(c) \/ after(c)
  <2>1. pc'[c].at \notin {"idle", "done"}
    <3>1. CASE before(c)
      BY <3>1, Targets DEF before
    <3>2. CASE around(c)
      BY <3>2, Targets DEF around
    <3>3. CASE after(c)
      BY <3>3, Targets DEF after
    <3> QED
      BY <1>2, <3>1, <3>2, <3>3
  <2> QED
    BY <1>2, <2>1 DEF before, around, after, Stays
<1>3. CASE precheck(c) \/ insert(c) \/ select(c) \/ scan(c) \/ write(c)
  <2>1. pc'[c].at \notin {"idle", "done"}
    <3>1. CASE precheck(c)
      BY <3>1, Targets DEF precheck
    <3>2. CASE insert(c)
      BY <3>2, Targets DEF insert
    <3>3. CASE select(c)
      BY <3>3, Targets DEF select
    <3>4. CASE scan(c)
      BY <3>4, Targets DEF scan
    <3>5. CASE write(c)
      BY <3>5, Targets DEF write
    <3> QED
      BY <1>3, <3>1, <3>2, <3>3, <3>4, <3>5
  <2>2. pc[c].at \notin {"idle", "done"}
    BY <1>3 DEF precheck, insert, select, scan, write, At
  <2>3. /\ request' = request /\ identity' = identity /\ claims' = claims
        /\ plan' = plan /\ row' = row /\ token' = token
    BY <1>3 DEF precheck, insert, select, scan, write
  <2> QED
    BY <2>1, <2>2, <2>3, Zenon DEF Stays
<1> QED
  BY <1>1, <1>2, <1>3 DEF Acts

LEMMA CheckEffect ==
    ASSUME Domains, NEW c \in Clients, check(c)
    PROVE  /\ pc[c].at = "check" /\ pc'[c].at \notin {"idle", "done", "statement", "write"}
           /\ request'[c] = request[c] /\ identity'[c] = identity[c] /\ token'[c] = token[c]
           /\ plan'[c] = Checked(c, Context(c))
           /\ request[c].kind = "create" /\ plan'[c].outcome = "ok" =>
                row'[c] = NewRow(c, Context(c))
           /\ request[c].kind # "create" \/ plan'[c].outcome # "ok" => row'[c] = Gone
           /\ claims'[c] = claims[c] \/
                (claims'[c] = "read" /\ plan'[c].outcome # "error" /\ Context(c) # Failing)
           /\ pc'[c].at = "precheck" => plan'[c].outcome = "ok"
<1> DEFINE checked == Checked(c, Context(c))
<1> USE DEF Domains
<1>1. plan'[c] = checked
  BY Zenon, ExceptOnly DEF check
<1>2. /\ request[c].kind = "create" /\ plan'[c].outcome = "ok" =>
           row'[c] = NewRow(c, Context(c))
      /\ request[c].kind # "create" \/ plan'[c].outcome # "ok" => row'[c] = Gone
  <2>1. row' = [row EXCEPT ![c] = IF request[c].kind = "create" /\ checked.outcome = "ok"
                                  THEN NewRow(c, Context(c)) ELSE Gone]
    BY Zenon DEF check
  <2>2. row'[c] = IF request[c].kind = "create" /\ checked.outcome = "ok"
                  THEN NewRow(c, Context(c)) ELSE Gone
    BY <2>1, ExceptOnly, Zenon
  <2> QED
    BY <1>1, <2>2, Zenon
<1>3. claims'[c] = claims[c] \/
        (claims'[c] = "read" /\ plan'[c].outcome # "error" /\ Context(c) # Failing)
  <2> DEFINE reads == \/ Checked(c, Failing).outcome = "error"
                      \/ request[c].kind = "create" /\ "owner" \notin DOMAIN request[c].input
  <2>1. claims' = [claims EXCEPT ![c] =
                IF reads /\ checked.outcome # "error" /\ Context(c) # Failing THEN "read" ELSE claims[c]]
    BY Zenon DEF check, Failing
  <2>2. claims'[c] = IF reads /\ checked.outcome # "error" /\ Context(c) # Failing
                     THEN "read" ELSE claims[c]
    BY <2>1, ExceptOnly, Zenon
  <2> QED
    BY <1>1, <2>2, Zenon
<1>4. /\ pc[c].at = "check" /\ request' = request /\ identity' = identity /\ token' = token
      /\ IF checked.outcome = "ok" THEN Go(c, "precheck", 0) /\ UNCHANGED answer
         ELSE Outwards(c, 0, checked.outcome)
  BY DEF check, At
<1>5. CASE checked.outcome = "ok"
  BY <1>1, <1>2, <1>3, <1>4, <1>5, Targets
<1>6. CASE checked.outcome # "ok"
  BY <1>1, <1>2, <1>3, <1>4, <1>6, Targets
<1> QED
  BY <1>5, <1>6

LEMMA FinishEffect ==
    ASSUME Domains, NEW c \in Clients, finish(c)
    PROVE  /\ pc[c].at = "finish" /\ pc'[c].at = "done" /\ plan'[c].outcome = "none"
           /\ request'[c] = NoRequest /\ token'[c] = "absent" /\ identity'[c] = Anonymous
           /\ claims'[c] = "unread" /\ plan'[c] = NoPlan /\ row'[c] = Gone
           /\ work'[c] = <<>> /\ aborted'[c] = FALSE
<1>1. pc[c].at = "finish" /\ pc'[c].at = "done"
  <2>1. Go(c, "done", 0) /\ At(c, "finish", 0)
    BY DEF finish
  <2>2. pc'[c].at = "done"
    BY <2>1, Targets, Zenon DEF Domains
  <2> QED
    BY <2>1, <2>2 DEF At
<1>2. plan'[c] = NoPlan
  BY DEF finish, Domains
<1>3. plan'[c].outcome = "none"
  BY <1>2 DEF NoPlan
<1>4. /\ request'[c] = NoRequest /\ token'[c] = "absent" /\ identity'[c] = Anonymous
      /\ claims'[c] = "unread" /\ row'[c] = Gone /\ work'[c] = <<>> /\ aborted'[c] = FALSE
  BY ExceptOnly DEF finish, Domains
<1> QED
  BY <1>1, <1>2, <1>3, <1>4, Zenon

LEMMA ReceiveEffect ==
    ASSUME Domains, NEW c \in Clients, receive(c)
    PROVE  /\ pc[c].at = "idle" /\ pc'[c].at \in {"before", "around", "check"}
           /\ request'[c] \in Requests /\ identity'[c] \in Identities \cup {Anonymous}
           /\ token'[c] \in {"absent", "valid"}
           /\ claims' = claims /\ plan' = plan /\ row' = row /\ work' = work
           /\ aborted' = aborted /\ documents' = documents
<1> USE DEF Domains
<1>1. PICK r \in Requests, i \in Identities \cup {Anonymous} :
             /\ r.kind \in deployment.offers
             /\ request' = [request EXCEPT ![c] = r]
             /\ identity' = [identity EXCEPT ![c] = i]
             /\ token' = [token EXCEPT ![c] = IF i = Anonymous THEN "absent" ELSE "valid"]
  BY Zenon DEF receive
<1>2. request'[c] = r /\ identity'[c] = i /\ token'[c] \in {"absent", "valid"}
  BY <1>1, ExceptOnly
<1>3. pc[c].at = "idle" /\ pc'[c].at \in {"before", "around", "check"}
  BY Targets DEF receive, At
<1> QED
  BY <1>2, <1>3 DEF receive


LEMMA ActsClaims ==
    ASSUME Domains, Tables, NEW c \in Clients, Client(c), Acts(c)
    PROVE  ClaimsHold(c)'
<1>1. ClaimsHold(c) /\ deployment' = deployment /\ identity[c] \in Identities \cup {Anonymous}
  BY ActsFrame DEF Client, Typed
<1>2. CASE receive(c)
  BY <1>1, <1>2, ReceiveEffect DEF ClaimsHold
<1>3. CASE finish(c)
  BY <1>3, FinishEffect DEF ClaimsHold
<1>5. CASE Stays(c)
  <2>1. Checked(c, identity[c])' = Checked(c, identity[c])
    BY <1>1, <1>5, SMT DEF Stays, Checked
  <2> QED
    BY <1>1, <1>5, <2>1 DEF Stays, ClaimsHold
<1>6. CASE check(c)
  <2> SUFFICES ASSUME claims'[c] = "read" PROVE ClaimsHold(c)'
    BY DEF ClaimsHold
  <2>1. Checked(c, identity[c])' = Checked(c, identity[c])
    <3>1. request'[c] = request[c] /\ identity'[c] = identity[c]
      BY <1>6, CheckEffect
    <3> QED
      BY <1>1, <3>1, SMT DEF Checked
  <2>2. Context(c) = identity[c]
    BY <1>6, CheckEffect, ContextIs
  <2>3. Checked(c, identity[c]).outcome # "error"
    BY <1>1, <1>6, <2>2, CheckEffect DEF ClaimsHold
  <2> QED
    BY <1>6, <2>1, <2>2, <2>3, CheckEffect DEF ClaimsHold
<1> QED
  BY <1>2, <1>3, <1>5, <1>6, OthersStay

LEMMA ActsPlanned ==
    ASSUME Domains, Tables, NEW c \in Clients, Client(c), Acts(c)
    PROVE  Planned(c)'
<1>1. /\ Planned(c) /\ deployment' = deployment /\ identity[c] \in Identities \cup {Anonymous}
      /\ plan[c].outcome \in Answers
  BY ActsFrame DEF Client, Typed
<1>2. CASE receive(c)
  BY <1>1, <1>2, ReceiveEffect DEF Planned
<1>3. CASE finish(c)
  BY <1>3, FinishEffect DEF Planned
<1>4. ASSUME request'[c] = request[c]
      PROVE  /\ \A x : Checked(c, x)' = Checked(c, x)
             /\ \A x : NewRow(c, x)' = NewRow(c, x)
  <2>1. \A x : Checked(c, x)' = Checked(c, x)
    BY <1>1, <1>4, SMT DEF Checked
  <2>2. \A x : NewRow(c, x)' = NewRow(c, x)
    BY <1>4, Zenon DEF NewRow
  <2> QED
    BY <2>1, <2>2
<1>5. CASE Stays(c) /\ ~check(c)
  <2>1. \A x : PlannedFor(c, x) => PlannedFor(c, x)'
    BY <1>4, <1>5, Zenon DEF PlannedFor, Stays
  <2>2. Context(c) = Failing => Context(c)' = Failing
    <3>1. identity[c] # Failing
      BY <1>1, FailingIdentity
    <3> QED
      BY <1>5, <3>1 DEF Stays, Context, Failing
  <2>3. pc'[c].at \in {"precheck", "statement", "write"} =>
          pc[c].at \in {"precheck", "statement", "write"}
    <3>1. CASE expire(c)
      BY <3>1 DEF expire
    <3>2. CASE before(c)
      BY <3>2, Targets DEF before, Domains
    <3>3. CASE around(c)
      BY <3>3, Targets DEF around, Domains
    <3>4. CASE after(c)
      BY <3>4, Targets DEF after, Domains
    <3>5. CASE precheck(c) \/ insert(c) \/ select(c) \/ scan(c) \/ write(c)
      BY <3>5 DEF precheck, insert, select, scan, write, At
    <3>6. CASE receive(c)
      BY <1>5, <3>6, ReceiveEffect DEF Stays
    <3>7. CASE finish(c)
      BY <1>5, <3>7, FinishEffect DEF Stays
    <3> QED
      BY <1>5, <3>1, <3>2, <3>3, <3>4, <3>5, <3>6, <3>7 DEF Acts
  <2>4. plan[c].outcome # "none" =>
          PlannedFor(c, identity[c]) \/ (Context(c) = Failing /\ PlannedFor(c, Failing))
    BY <1>1, Zenon DEF Planned
  <2>5. plan[c].outcome # "none" =>
          PlannedFor(c, identity[c])' \/ (Context(c)' = Failing /\ PlannedFor(c, Failing)')
    <3>1. PlannedFor(c, identity[c]) => PlannedFor(c, identity[c])'
      BY <1>4, <1>5, Zenon DEF PlannedFor, Stays
    <3> QED
      BY <2>1, <2>2, <2>4, <3>1, Zenon
  <2> QED
    BY <1>1, <1>5, <2>3, <2>5, Zenon DEF Planned, Stays
<1>6. CASE check(c)
  <2>1. /\ request'[c] = request[c] /\ identity'[c] = identity[c] /\ token'[c] = token[c]
        /\ plan'[c] = Checked(c, Context(c))
        /\ request[c].kind = "create" /\ plan'[c].outcome = "ok" => row'[c] = NewRow(c, Context(c))
    BY <1>6, CheckEffect, Zenon
  <2>2. CASE Context(c) = identity[c]
    <3>1. PlannedFor(c, identity[c])'
      BY <1>4, <2>1, <2>2, Zenon DEF PlannedFor
    <3> QED
      BY <1>6, <3>1, CheckEffect DEF Planned
  <2>3. CASE Context(c) = Failing
    <3>1. PlannedFor(c, Failing)'
      BY <1>4, <2>1, <2>3, Zenon DEF PlannedFor
    <3>2. claims'[c] = claims[c]
      BY <1>6, <2>3, CheckEffect
    <3>3. Context(c)' = Failing
      BY <2>1, <2>3, <3>2, Zenon DEF Context
    <3> QED
      BY <1>6, <3>1, <3>3, CheckEffect DEF Planned
  <2> QED
    BY <2>2, <2>3, ContextIs
<1> QED
  BY <1>2, <1>3, <1>5, <1>6, OthersStay


LEMMA ActsPassed ==
    ASSUME Domains, Tables, NEW c \in Clients, Client(c), Acts(c)
    PROVE  Passed(c)'
<1> USE DEF Domains
<1>1. Passed(c) /\ projects \in [Projects -> Users] /\ projects' = projects
  BY ActsFrame DEF Client, Tables
<1>2. CASE precheck(c)
  <2>1. basis'[c] = projects /\ plan' = plan
    BY <1>2, ExceptOnly DEF precheck
  <2>2. CASE Outwards(c, 0, IF aborted[c] THEN "error" ELSE "authorization")
    BY <2>2, Targets DEF Passed
  <2>3. CASE PassedOn(plan[c].precheck, projects)
    BY <1>1, <2>1, <2>3, Zenon DEF Passed
  <2>4. CASE Go(c, "finish", 0)
    BY <2>4, Targets DEF Passed
  <2>5. \/ PassedOn(plan[c].precheck, projects)
        \/ Outwards(c, 0, IF aborted[c] THEN "error" ELSE "authorization")
        \/ Go(c, "finish", 0)
    BY <1>2, Zenon DEF precheck, PassedOn, Selected
  <2> QED
    BY <2>2, <2>3, <2>4, <2>5
<1>3. CASE scan(c)
  <2>1. pc[c].at = "statement" /\ plan' = plan /\ basis' = basis
    BY <1>3 DEF scan, At
  <2> QED
    BY <1>1, <2>1, Zenon DEF Passed
<1>4. CASE expire(c)
  BY <1>1, <1>4, Zenon DEF expire, Passed
<1>5. CASE ~precheck(c) /\ ~scan(c) /\ ~expire(c)
  <2> SUFFICES pc'[c].at \notin {"statement", "write"}
    BY DEF Passed
  <2>1. CASE receive(c)
    BY <2>1, ReceiveEffect
  <2>2. CASE check(c)
    BY <2>2, CheckEffect
  <2>3. CASE finish(c)
    BY <2>3, FinishEffect
  <2>4. CASE before(c)
    BY <2>4, Targets DEF before
  <2>5. CASE around(c)
    BY <2>5, Targets DEF around
  <2>6. CASE after(c)
    BY <2>6, Targets DEF after
  <2>7. CASE insert(c)
    BY <2>7, Targets DEF insert
  <2>8. CASE select(c)
    BY <2>8, Targets DEF select
  <2>9. CASE write(c)
    BY <2>9, Targets DEF write
  <2> QED
    BY <1>5, <2>1, <2>2, <2>3, <2>4, <2>5, <2>6, <2>7, <2>8, <2>9 DEF Acts
<1> QED
  BY <1>2, <1>3, <1>4, <1>5

(***************************************************************************)
(* The tables and the transactions' writes.                                *)
(***************************************************************************)
LEMMA OverTable ==
    ASSUME NEW new, NEW old, IsTable(new), IsTable(old)
    PROVE  /\ IsTable(Over(new, old))
           /\ DOMAIN Over(new, old) = DOMAIN new \cup DOMAIN old
           /\ \A i \in DOMAIN new : Over(new, old)[i] = new[i]
           /\ \A i \in DOMAIN old \ DOMAIN new : Over(new, old)[i] = old[i]
<1>1. /\ DOMAIN Over(new, old) = DOMAIN new \cup DOMAIN old
      /\ \A i \in DOMAIN new : Over(new, old)[i] = new[i]
      /\ \A i \in DOMAIN old \ DOMAIN new : Over(new, old)[i] = old[i]
  BY DEF Over
<1>2. IsFiniteSet(DOMAIN new \cup DOMAIN old)
  BY FS_Union DEF IsTable
<1> QED
  BY <1>1, <1>2 DEF IsTable

LEMMA EmptyTable == IsTable(<<>>) /\ DOMAIN <<>> = {}
<1>1. DOMAIN <<>> = {}
  OBVIOUS
<1>2. IsFiniteSet(DOMAIN <<>>)
  BY <1>1, FS_EmptySet
<1> QED
  BY <1>1, <1>2 DEF IsTable

LEMMA WrittenRows ==
    ASSUME Tables, NEW c, Typed(c), request[c] \in Requests,
           NEW new, new = [i \in Written(c) |->
             IF request[c].kind = "delete" THEN Gone
             ELSE [f \in DOMAIN Current(c)[i] |-> IF f \in DOMAIN request[c].input
                                                  THEN request[c].input[f] ELSE Current(c)[i][f]]]
    PROVE  IsTable(new) /\ DOMAIN new = Written(c) /\ Written(c) \subseteq DOMAIN Current(c)
<1>1. IsTable(Current(c))
  BY OverTable DEF Tables, Typed, Current
<1>2. Written(c) \subseteq Live(Current(c)) /\ Live(Current(c)) \subseteq DOMAIN Current(c)
  BY Zenon DEF Written, Live
<1>3. IsFiniteSet(Written(c))
  BY <1>1, <1>2, FS_Subset DEF IsTable
<1>4. DOMAIN new = Written(c)
  OBVIOUS
<1>5. ASSUME NEW i \in Written(c) PROVE new[i] \in Rows \cup {Gone}
  <2> DEFINE r == Current(c)[i]
             input == request[c].input
             changed == [f \in DOMAIN r |-> IF f \in DOMAIN input THEN input[f] ELSE r[f]]
  <2>1. r \in Rows
    BY <1>1, <1>2 DEF Live, IsTable
  <2>2. /\ "owner" \in DOMAIN input => input["owner"] \in Users
        /\ "public" \in DOMAIN input => input["public"] \in {"true", "false"}
        /\ "project" \in DOMAIN input => input["project"] \in Projects
    BY RequestsAssumption
  <2>3. new[i] = IF request[c].kind = "delete" THEN Gone ELSE changed
    BY <1>5, Zenon
  <2> HIDE DEF r, input
  <2>4. changed \in Rows
    BY <2>1, <2>2 DEF Rows
  <2> QED
    BY <2>3, <2>4
<1> QED
  BY <1>2, <1>3, <1>4, <1>5 DEF IsTable


(* What a write leaves: its transaction's changes over its earlier ones.     *)
LEMMA WriteEffect ==
    ASSUME Domains, Tables, NEW c \in Clients, Client(c), write(c)
    PROVE  \E new :
             /\ new = [i \in Written(c) |->
                  IF request[c].kind = "delete" THEN Gone
                  ELSE [f \in DOMAIN Current(c)[i] |-> IF f \in DOMAIN request[c].input
                                                       THEN request[c].input[f] ELSE Current(c)[i][f]]]
             /\ IsTable(new) /\ DOMAIN new = Written(c)
             /\ work'[c] = Over(new, work[c])
<1> DEFINE new == [i \in Written(c) |->
                  IF request[c].kind = "delete" THEN Gone
                  ELSE [f \in DOMAIN Current(c)[i] |-> IF f \in DOMAIN request[c].input
                                                       THEN request[c].input[f] ELSE Current(c)[i][f]]]
<1>1. work' = [work EXCEPT ![c] = Over(new, work[c])]
  BY Zenon DEF write
<1>2. work'[c] = Over(new, work[c])
  BY <1>1, ExceptOnly, Zenon DEF Domains
<1>3. request[c] \in Requests
  BY DEF write, At, Client, Typed
<1>4. IsTable(new) /\ DOMAIN new = Written(c)
  BY <1>3, WrittenRows, Zenon DEF Client
<1> QED
  BY <1>2, <1>4, Zenon

Used == DOMAIN documents \cup UNION {DOMAIN work[d] : d \in Clients}

(* The sequence gives every row an id of its own.                            *)
LEMMA FreshId ==
    ASSUME Domains, Tables, \A d \in Clients : IsTable(work[d])
    PROVE  (CHOOSE i \in 1 .. Cardinality(Used) + 1 : i \notin Used) \notin Used
<1> DEFINE n == Cardinality(Used)
<1>1. IsFiniteSet(UNION {DOMAIN work[d] : d \in Clients})
  <2> DEFINE f == [d \in Clients |-> DOMAIN work[d]]
             sets == {DOMAIN work[d] : d \in Clients}
  <2>1. sets = {f[d] : d \in Clients} /\ f \in [Clients -> sets]
    OBVIOUS
  <2>2. f \in Surjection(Clients, sets)
    BY <2>1 DEF Surjection
  <2>3. \A s \in sets : IsFiniteSet(s)
    BY DEF IsTable
  <2> HIDE DEF f, sets
  <2>4. IsFiniteSet(UNION sets)
    <3>1. IsFiniteSet(sets)
      BY <2>2, BoundsAssumption, FS_Surjection
    <3> QED
      BY <2>3, <3>1, FS_UNION
  <2> QED
    BY <2>4 DEF sets
<1>2. IsFiniteSet(Used)
  BY <1>1, FS_Union DEF Used, Tables, IsTable
<1>3. n \in Nat
  BY <1>2, FS_CardinalityType
<1>4. IsFiniteSet(1 .. n + 1) /\ Cardinality(1 .. n + 1) = n + 1
  BY <1>3, FS_Interval
<1>5. ~(1 .. n + 1 \subseteq Used)
  <2> SUFFICES ASSUME 1 .. n + 1 \subseteq Used PROVE FALSE
    OBVIOUS
  <2>1. Cardinality(1 .. n + 1) <= n
    BY <1>2, FS_Subset
  <2> QED
    BY <1>3, <1>4, <2>1
<1>6. \E i \in 1 .. n + 1 : i \notin Used
  BY <1>5
<1> QED
  BY <1>6

LEMMA InsertEffect ==
    ASSUME Domains, Tables, \A d \in Clients : Client(d), NEW c \in Clients, insert(c)
    PROVE  /\ aborted'[c] \in BOOLEAN
           /\ pc[c].at = "statement" /\ request[c].kind = "create"
           /\ \/ work'[c] = work[c]
              \/ \E id : /\ id \notin Used
                         /\ IsTable([i \in {id} |-> row[c]])
                         /\ row[c] \in Rows
                         /\ Missing \notin {row[c].owner, row[c].public, row[c].project}
                         /\ work'[c] = Over([i \in {id} |-> row[c]], work[c])
<1> DEFINE id == CHOOSE i \in 1 .. Cardinality(Used) + 1 : i \notin Used
           valid == ~aborted[c] /\ Missing \notin {row[c].owner, row[c].public, row[c].project}
           new == [i \in {id} |-> row[c]]
<1>1. /\ work' = [work EXCEPT ![c] = IF valid THEN Over(new, work[c]) ELSE work[c]]
      /\ aborted' = [aborted EXCEPT ![c] = ~valid]
  BY Zenon DEF insert, Used
<1>2. /\ work'[c] = IF valid THEN Over(new, work[c]) ELSE work[c]
      /\ aborted'[c] = ~valid
  BY <1>1, ExceptOnly, Zenon DEF Domains
<1>3. aborted'[c] \in BOOLEAN
  BY <1>2, Zenon
<1>4. pc[c].at = "statement" /\ request[c].kind = "create"
  BY DEF insert, At
<1>5. CASE ~valid
  BY <1>2, <1>3, <1>4, <1>5, Zenon
<1>6. CASE valid
  <2>1. id \notin Used
    BY FreshId DEF Client, Typed
  <2>2. row[c] \in Rows
    BY <1>6 DEF Client, Typed, Drafts, Rows
  <2>3. IsFiniteSet(DOMAIN new)
    BY FS_Singleton
  <2> HIDE DEF id
  <2>4. IsTable(new)
    BY <2>2, <2>3 DEF IsTable
  <2>5. work'[c] = Over(new, work[c])
    BY <1>2, <1>6, Zenon
  <2> QED
    BY <1>3, <1>4, <1>6, <2>1, <2>2, <2>4, <2>5, Zenon
<1> QED
  BY <1>5, <1>6

LEMMA DraftsOfInput ==
    ASSUME NEW c, request[c] \in Requests, NEW x, x["id"] \in Users \cup {Missing, Failed}
    PROVE  NewRow(c, x) \in Drafts
<1> DEFINE input == request[c].input
           o == IF "owner" \in DOMAIN input THEN input["owner"]
                ELSE IF x["id"] = Failed THEN Missing ELSE x["id"]
           b == IF "public" \in DOMAIN input THEN input["public"] ELSE Missing
           q == IF "project" \in DOMAIN input THEN input["project"] ELSE Missing
<1>1. NewRow(c, x) = [owner |-> o, public |-> b, project |-> q]
  BY Zenon DEF NewRow
<1>2. o \in Users \cup {Missing} /\ b \in {"true", "false", Missing} /\ q \in Projects \cup {Missing}
  BY RequestsAssumption
<1> QED
  BY <1>1, <1>2 DEF Drafts

LEMMA ActsTyped ==
    ASSUME Inv, NEW c \in Clients, Acts(c)
    PROVE  Typed(c)'
<1> USE DEF Domains
<1>1. Domains /\ Tables /\ Client(c) /\ Typed(c) /\ \A d \in Clients : Client(d)
  BY DEF Inv, Client
<1>2. Gone \in Drafts
  BY DEF Gone, Drafts, Missing
<1>3. CASE receive(c)
  BY <1>1, <1>3, ReceiveEffect DEF Typed
<1>4. CASE finish(c)
  <2>1. IsTable(work'[c])
    BY <1>1, <1>4, FinishEffect, EmptyTable
  <2> QED
    BY <1>1, <1>2, <1>4, <2>1, FinishEffect DEF Typed, Answers
<1>5. CASE check(c)
  <2>1. pc[c].at = "check" /\ work' = work /\ aborted' = aborted
    BY <1>5 DEF check, At
  <2>2. request[c] \in Requests
    BY <1>1, <2>1 DEF Typed
  <2>3. Context(c)["id"] \in Users \cup {Missing, Failed}
    BY <1>1, ContextIs, FailingIdentity DEF Typed, Failing
  <2>4. row'[c] \in Drafts
    BY <1>1, <1>2, <1>5, <2>2, <2>3, CheckEffect, DraftsOfInput
  <2>5. plan'[c].outcome \in Answers
    BY <1>1, <1>5, <2>2, CheckEffect, CheckedOutcome DEF Answers
  <2>6. request'[c] = request[c] /\ identity'[c] = identity[c] /\ token'[c] = token[c]
        /\ claims'[c] \in {claims[c], "read"}
    BY <1>1, <1>5, CheckEffect
  <2> QED
    BY <1>1, <2>1, <2>2, <2>4, <2>5, <2>6 DEF Typed
<1>6. CASE Stays(c) /\ ~finish(c)
  <2>1. CASE write(c)
    <3>1. PICK new : IsTable(new) /\ work'[c] = Over(new, work[c])
      BY <1>1, <2>1, WriteEffect, Zenon
    <3>2. IsTable(work[c])
      BY <1>1 DEF Typed
    <3>3. IsTable(work'[c])
      <4>1. IsTable(Over(new, work[c]))
        BY <3>1, <3>2, OverTable
      <4> QED
        BY <3>1, <4>1
    <3> QED
      BY <1>1, <1>6, <2>1, <3>3 DEF Typed, Stays, write
  <2>2. CASE insert(c)
    <3>1. IsTable(work'[c])
      <4>1. CASE work'[c] = work[c]
        BY <1>1, <4>1 DEF Typed
      <4>2. CASE work'[c] # work[c]
        <5>1. PICK id : /\ IsTable([i \in {id} |-> row[c]])
                        /\ work'[c] = Over([i \in {id} |-> row[c]], work[c])
          BY <1>1, <2>2, <4>2, InsertEffect, Zenon
        <5>2. IsTable(work[c])
          BY <1>1 DEF Typed
        <5> DEFINE new == [i \in {id} |-> row[c]]
        <5> HIDE DEF new
        <5>3. IsTable(new) /\ work'[c] = Over(new, work[c])
          BY <5>1 DEF new
        <5>4. IsTable(Over(new, work[c]))
          BY <5>2, <5>3, OverTable
        <5> QED
          BY <5>3, <5>4
      <4> QED
        BY <4>1, <4>2
    <3>2. aborted'[c] \in BOOLEAN
      BY <1>1, <2>2, InsertEffect, Zenon
    <3> QED
      BY <1>1, <1>6, <3>1, <3>2 DEF Typed, Stays
  <2>3. CASE work' = work /\ aborted' = aborted
    BY <1>1, <1>6, <2>3 DEF Typed, Stays
  <2>4. write(c) \/ insert(c) \/ (work' = work /\ aborted' = aborted)
    BY <1>6 DEF Acts, receive, expire, before, around, after, check, precheck, select, scan
  <2> QED
    BY <2>1, <2>2, <2>3, <2>4
<1> QED
  BY <1>1, <1>3, <1>4, <1>5, <1>6, OthersStay


LEMMA DocumentsChange ==
    ASSUME NEW c, Acts(c)
    PROVE  documents' = documents \/ (finish(c) /\ documents' = Current(c))
<1>1. CASE finish(c)
  BY <1>1 DEF finish
<1>2. CASE ~finish(c)
  BY <1>2 DEF Acts, receive, expire, before, around, after, check, precheck, insert, select, scan,
              write
<1> QED
  BY <1>1, <1>2

LEMMA ActsTables ==
    ASSUME Inv, NEW c \in Clients, Acts(c)
    PROVE  Tables'
<1>1. Domains /\ Tables /\ Typed(c)
  BY DEF Inv
<1>2. deployment' = deployment /\ projects' = projects
  BY <1>1, ActsFrame
<1>3. IsTable(documents')
  <2>1. IsTable(documents) /\ IsTable(work[c])
    BY <1>1 DEF Tables, Typed
  <2>2. IsTable(Current(c))
    BY <2>1, OverTable DEF Current
  <2> QED
    BY <2>1, <2>2, DocumentsChange
<1> QED
  BY <1>1, <1>2, <1>3 DEF Tables

LEMMA InitInv == Init => Inv
<1> SUFFICES ASSUME Init PROVE Inv
  OBVIOUS
<1>1. Domains
  BY DEF Init, Domains
<1>2. Tables
  <2>1. PICK db \in Databases : documents = db.documents /\ projects = db.projects
    BY DEF Init
  <2> QED
    BY <2>1, DatabasesAssumption DEF Init, Tables, IsTable
<1>3. ASSUME NEW c \in Clients PROVE Client(c)
  <2>1. /\ pc[c] = [at |-> "idle", n |-> 0] /\ request[c] = NoRequest /\ token[c] = "absent"
        /\ identity[c] = Anonymous /\ claims[c] = "unread" /\ plan[c] = NoPlan /\ row[c] = Gone
        /\ work[c] = <<>> /\ aborted[c] = FALSE /\ answer[c] = "none"
        /\ ran[c] = [before |-> 0, core |-> 0, after |-> 0, proceeds |-> 0]
    BY <1>3 DEF Init
  <2>2. pc[c].at = "idle" /\ plan[c].outcome = "none"
    BY <2>1 DEF NoPlan
  <2>3. Gone \in Drafts
    BY DEF Gone, Drafts, Missing
  <2>4. Typed(c)
    BY <2>1, <2>2, <2>3, EmptyTable DEF Typed, Answers
  <2>5. InTree(c)
    <3>1. DOMAIN work[c] = {}
      BY <2>1, EmptyTable
    <3> HIDE DEF Init
    <3> QED
      BY <2>1, <3>1, BoundsAssumption DEF InTree, Weave, Stages, Answers
  <2>6. ClaimsHold(c) /\ Planned(c) /\ Passed(c)
    BY <2>1, <2>2 DEF ClaimsHold, Planned, Passed
  <2> QED
    BY <2>4, <2>5, <2>6 DEF Client
<1> QED
  BY <1>1, <1>2, <1>3 DEF Inv, Client

LEMMA NextInv == Inv /\ [Next]_vars => Inv'
<1> SUFFICES ASSUME Inv, [Next]_vars PROVE Inv'
  OBVIOUS
<1>1. Domains /\ Tables /\ \A c \in Clients : Client(c)
  BY DEF Inv, Client
<1>2. CASE \E c \in Clients : Acts(c)
  <2>1. PICK c \in Clients : Acts(c)
    BY <1>2
  <2>2. /\ Domains' /\ deployment' = deployment
        /\ \A d \in Clients \ {c} : Kept(d)
    BY <1>1, <2>1, ActsFrame, FrameIsKept
  <2>3. Client(c)'
    BY <1>1, <2>1, ActsTyped, ActsInTree, ActsClaims, ActsPlanned, ActsPassed DEF Client
  <2>4. \A d \in Clients \ {c} : Client(d)'
    BY <1>1, <2>2, KeptClient
  <2>5. Tables'
    BY <2>1, ActsTables
  <2> QED
    BY <2>2, <2>3, <2>4, <2>5 DEF Inv, Client
<1>3. CASE \E p \in Projects, u \in Users : transfer(p, u)
  <2>1. PICK p \in Projects, u \in Users : transfer(p, u)
    BY <1>3
  <2>2. /\ Domains' /\ deployment' = deployment /\ \A d : Kept(d)
    BY <1>1, <2>1 DEF transfer, Domains, Kept
  <2>3. Tables'
    BY <1>1, <2>1 DEF transfer, Tables
  <2> QED
    BY <1>1, <2>2, <2>3, KeptClient DEF Inv, Client
<1>4. CASE UNCHANGED vars
  <2>1. /\ Domains' /\ deployment' = deployment /\ \A d : Kept(d)
    BY <1>1, <1>4 DEF vars, Domains, Kept
  <2>2. Tables'
    BY <1>1, <1>4 DEF vars, Tables
  <2> QED
    BY <1>1, <2>1, <2>2, KeptClient DEF Inv, Client
<1> QED
  BY <1>2, <1>3, <1>4 DEF Next, AllDone, Acts

LEMMA Invariance == Spec => []Inv
  BY InitInv, NextInv, PTL DEF Spec

(* The variables hold what their comments say in every reachable state, for  *)
(* any tree and any number of requests: in particular no request writes a    *)
(* row that is not one of the schema, and only the tree's own around         *)
(* interceptors run.                                                         *)
THEOREM TypeCorrect == Spec => []TypeOK
<1>1. Inv => TypeOK
  BY DEF Inv, Tables, Typed, InTree, Weave, IsTable, TypeOK, Answers
<1> QED
  BY <1>1, Invariance, PTL

(* The interception tree is respected: no write before the before            *)
(* interceptors have returned, no success past an interceptor that did not   *)
(* run (InterceptedOperation::resolve).                                      *)
THEOREM WovenHolds == Spec => []Woven
<1>1. Inv => Woven
  <2> SUFFICES ASSUME Inv, NEW c \in Clients
               PROVE  /\ ran[c].core > 0 \/ DOMAIN work[c] # {} => ran[c].before = deployment.before
                      /\ ran[c].after \in 0 .. deployment.after
                      /\ pc[c].at = "done" /\ answer[c] = "ok" =>
                           /\ ran[c].before = deployment.before /\ ran[c].after = deployment.after
                           /\ deployment.around = 0 => ran[c].core = 1
    BY DEF Woven
  <2>1. InTree(c) /\ deployment.after \in Nat
    BY DeploymentsAssumption DEF Inv, Tables
  <2> QED
    BY <2>1 DEF InTree, Weave, Stages
<1> QED
  BY <1>1, Invariance, PTL

(* Once the claims of a token have been read, no later check of the request  *)
(* fails because the token has expired (JwtExtractor.extracted_claims).      *)
THEOREM IdentityKeptHolds == Spec => []IdentityKept
<1>1. Inv => IdentityKept
  BY DEF Inv, ClaimsHold, IdentityKept
<1> QED
  BY <1>1, Invariance, PTL


(***************************************************************************)
(* What a request reads and writes.                                        *)
(***************************************************************************)
LEMMA CheckedOk ==
    ASSUME NEW c, NEW x, request[c] \in Requests, Checked(c, x).outcome = "ok",
           NEW p, p = Checked(c, x)
    PROVE  /\ request[c].kind = "query" =>
                p.entity = solve_database(x, deployment.query).res /\ p.entity # Error
           /\ request[c].kind \in {"update", "delete"} =>
                p.entity = solve_database(x, deployment.mutation).res /\ p.entity # Error
           /\ request[c].kind \in {"create", "update"} =>
                /\ p.precheck = solve_precheck(x, request[c].input, deployment.mutation).res
                /\ p.precheck \notin {Error, False}
<1> DEFINE r == request[c]
           selection == check_access("query", x, <<>>, deployment.query)
           main == check_access(r.kind, x, r.input, deployment.mutation)
           pre == solve_precheck(x, r.input, deployment.mutation).res
           db == solve_database(x, deployment.mutation).res
<1>1. p = IF r.kind = "query" \/ selection.outcome # "ok" THEN selection ELSE main
  BY Zenon DEF Checked
<1>2. r.kind \in {"query", "create", "update", "delete"} /\ p.outcome = "ok"
  BY RequestsAssumption
<1>3. CASE r.kind = "query"
  <2>1. p = Access(True, solve_database(x, deployment.query).res)
    BY <1>1, <1>3 DEF check_access, check_retrieve_access
  <2>2. p.entity = solve_database(x, deployment.query).res /\ p.entity # Error
    BY <1>2, <2>1, AccessOutcome
  <2> QED
    BY <1>3, <2>2
<1>4. CASE r.kind = "create"
  <2>1. p = Access(pre, True)
    BY <1>1, <1>4 DEF check_access, check_create_access
  <2>2. p.precheck = pre /\ pre \notin {Error, False}
    BY <1>2, <2>1, AccessOutcome
  <2> QED
    BY <1>4, <2>2
<1>5. CASE r.kind = "update"
  <2>1. p = IF pre \in {False, Error} THEN Access(pre, True) ELSE Access(pre, db)
    BY <1>1, <1>5 DEF check_access, check_update_access
  <2>2. p = Access(pre, db) /\ pre \notin {Error, False}
    BY <1>2, <2>1, AccessOutcome
  <2>3. p.precheck = pre /\ p.entity = db /\ db # Error
    BY <1>2, <2>2, AccessOutcome
  <2> QED
    BY <1>5, <2>2, <2>3
<1>6. CASE r.kind = "delete"
  <2>1. p = Access(True, db)
    BY <1>1, <1>6 DEF check_access, check_delete_access
  <2>2. p.entity = db /\ db # Error
    BY <1>2, <2>1, AccessOutcome
  <2> QED
    BY <1>6, <2>2
<1> QED
  BY <1>2, <1>3, <1>4, <1>5, <1>6

(* The plan of a request that has been let through is that of its caller.    *)
LEMMA PlanOfCaller ==
    ASSUME Inv, NEW c \in Clients, pc[c].at \in {"precheck", "statement", "write"}
    PROVE  \E x : /\ Caller(identity[c]) /\ ContextOf(x, identity[c])
                  /\ request[c] \in Requests /\ Checked(c, x).outcome = "ok"
                  /\ plan[c] = Checked(c, x)
                  /\ request[c].kind = "create" => row[c] = NewRow(c, x)
<1>1. Planned(c) /\ Typed(c)
  BY DEF Inv
<1>2. plan[c].outcome = "ok" /\ request[c] \in Requests /\ Caller(identity[c])
  BY <1>1, FailingIdentity DEF Planned, Typed
<1>3. PlannedFor(c, identity[c]) \/ PlannedFor(c, Failing)
  BY <1>1, <1>2 DEF Planned
<1> QED
  BY <1>2, <1>3, Zenon DEF PlannedFor, ContextOf

LEMMA EntityIsRule ==
    ASSUME NegatesSimpleOnly, Inv, NEW c \in Clients,
           pc[c].at \in {"precheck", "statement", "write"}, request[c].kind # "create",
           NEW expr,
           expr = IF request[c].kind = "query" THEN deployment.query ELSE deployment.mutation,
           NEW v \in Views
    PROVE  Holds(plan[c].entity, v) <=> Grants(identity[c], v, expr)
<1>1. PICK x : /\ Caller(identity[c]) /\ ContextOf(x, identity[c])
               /\ request[c] \in Requests /\ Checked(c, x).outcome = "ok"
               /\ plan[c] = Checked(c, x)
  BY PlanOfCaller, Zenon
<1>2. request[c].kind \in {"query", "update", "delete"}
  BY <1>1, RequestsAssumption
<1>3. plan[c].entity = solve_database(x, expr).res /\ plan[c].entity # Error
  BY <1>1, <1>2, CheckedOk
<1>4. expr \in Rules
  BY DeploymentsAssumption DEF Inv, Tables
<1> QED
  BY <1>1, <1>3, <1>4, DatabaseSolverIsExact, Zenon

LEMMA ViewOfRow ==
    ASSUME Inv, NEW c \in Clients, NEW i \in Live(Current(c))
    PROVE  View(Current(c)[i], projects) \in Views /\ Current(c)[i] \in Rows
<1>1. IsTable(documents) /\ IsTable(work[c]) /\ projects \in [Projects -> Users]
  BY DEF Inv, Tables, Typed
<1>2. IsTable(Current(c))
  BY <1>1, OverTable DEF Current
<1>3. Current(c)[i] \in Rows
  BY <1>2 DEF IsTable, Live
<1> QED
  BY <1>1, <1>3 DEF View, Views, Rows

(* The only steps from a statement are its own.                              *)
LEMMA StepsOf ==
    ASSUME Inv, [Next]_vars, NEW c \in Clients, ~Kept(c)
    PROVE  Acts(c)
<1>1. CASE \E d \in Clients : Acts(d)
  <2>1. PICK d \in Clients : Acts(d)
    BY <1>1
  <2>2. \A e \in Clients \ {d} : Kept(e)
    BY <2>1, ActsFrame, FrameIsKept DEF Inv
  <2> QED
    BY <2>1, <2>2
<1>2. CASE \E p \in Projects, u \in Users : transfer(p, u)
  BY <1>2 DEF transfer, Kept
<1>3. CASE UNCHANGED vars
  BY <1>3 DEF vars, Kept
<1> QED
  BY <1>1, <1>2, <1>3 DEF Next, AllDone, Acts

LEMMA StatementReads ==
    ASSUME NegatesSimpleOnly, Inv, [Next]_vars, NEW c \in Clients,
           At(c, "statement", 0), pc'[c] # pc[c], request[c].kind # "create",
           NEW expr, expr = IF request[c].kind = "query" THEN deployment.query ELSE deployment.mutation
    PROVE  hits'[c] = {i \in Live(Current(c)) :
                         /\ request[c].kind = "query" \/ i = request[c].id
                         /\ Grants(identity[c], View(Current(c)[i], projects), expr)}
<1>1. Acts(c) /\ pc[c].at = "statement"
  BY StepsOf DEF Kept, At
<1>2. select(c) \/ scan(c)
  BY <1>1 DEF Acts, receive, expire, before, around, after, check, precheck, insert, write, finish,
              At
<1>3. hits'[c] = Matches(c)
  BY <1>2, ExceptOnly DEF select, scan, Inv, Domains
<1>4. \A i \in Live(Current(c)) :
        Holds(plan[c].entity, View(Current(c)[i], projects)) <=>
          Grants(identity[c], View(Current(c)[i], projects), expr)
  BY <1>1, EntityIsRule, ViewOfRow
<1>5. Matches(c) = {i \in Live(Current(c)) :
                      /\ request[c].kind # "query" => i = request[c].id
                      /\ Holds(plan[c].entity, View(Current(c)[i], projects))}
  BY Zenon DEF Matches
<1> QED
  BY <1>3, <1>4, <1>5, Zenon

(* What a query returns, and what an update or a delete matches, is what the *)
(* rule grants to the caller, for every rule that negates comparisons only.  *)
THEOREM ActsWithinRuleHolds ==
    ASSUME NegatesSimpleOnly
    PROVE  Spec => ActsWithinRule
<1>1. Inv /\ [Next]_vars =>
        \A c \in Clients :
          At(c, "statement", 0) /\ pc'[c] # pc[c] /\ request[c].kind # "create" =>
            LET query == request[c].kind = "query"
                expr == IF query THEN deployment.query ELSE deployment.mutation
            IN  hits'[c] = {i \in Live(Current(c)) :
                             /\ query \/ i = request[c].id
                             /\ Grants(identity[c], View(Current(c)[i], projects), expr)}
  BY StatementReads, Zenon
<1> QED
  BY <1>1, Invariance, PTL DEF Spec, ActsWithinRule


LEMMA RowOfInput ==
    ASSUME NEW c, NEW x
    PROVE  LET input == request[c].input IN
           /\ NewRow(c, x).owner =
                IF "owner" \in DOMAIN input THEN input["owner"]
                ELSE IF x["id"] = Failed THEN Missing ELSE x["id"]
           /\ NewRow(c, x).public = IF "public" \in DOMAIN input THEN input["public"] ELSE Missing
           /\ NewRow(c, x).project = IF "project" \in DOMAIN input THEN input["project"] ELSE Missing
<1> DEFINE input == request[c].input
           o == IF "owner" \in DOMAIN input THEN input["owner"]
                ELSE IF x["id"] = Failed THEN Missing ELSE x["id"]
           b == IF "public" \in DOMAIN input THEN input["public"] ELSE Missing
           q == IF "project" \in DOMAIN input THEN input["project"] ELSE Missing
<1>1. NewRow(c, x) = [owner |-> o, public |-> b, project |-> q]
  BY Zenon DEF NewRow
<1> HIDE DEF o, b, q
<1>2. NewRow(c, x).owner = o /\ NewRow(c, x).public = b /\ NewRow(c, x).project = q
  BY <1>1
<1> QED
  BY <1>2 DEF o, b, q

LEMMA InsertIsGranted ==
    ASSUME NegatesFieldsOnly, Inv, [Next]_vars, NEW c \in Clients,
           At(c, "statement", 0), request[c].kind = "create", work'[c] # work[c]
    PROVE  Grants(identity[c], View(row[c], basis[c]), deployment.mutation)
<1> DEFINE input == request[c].input
           v == View(row[c], basis[c])
           p == plan[c].precheck
<1>1. Acts(c) /\ pc[c].at = "statement"
  BY StepsOf DEF Kept, At
<1>2. insert(c)
  BY <1>1 DEF Acts, receive, expire, before, around, after, check, precheck, select, scan, write,
              finish, At
<1>3. row[c] \in Rows /\ Missing \notin {row[c].owner, row[c].public, row[c].project}
  <2>1. Domains /\ Tables /\ \A d \in Clients : Client(d)
    BY DEF Inv, Client
  <2> QED
    BY <1>2, <2>1, InsertEffect, Zenon
<1>4. PICK x : /\ Caller(identity[c]) /\ ContextOf(x, identity[c])
               /\ request[c] \in Requests /\ Checked(c, x).outcome = "ok"
               /\ plan[c] = Checked(c, x)
               /\ request[c].kind = "create" => row[c] = NewRow(c, x)
  BY <1>1, PlanOfCaller, Zenon
<1>5. p = solve_precheck(x, input, deployment.mutation).res /\ p # Error /\ p # False
  BY <1>4, CheckedOk
<1>6. /\ basis[c] \in [Projects -> Users]
      /\ PassedOn(p, basis[c])
  BY <1>1 DEF Inv, Passed
<1>7. /\ "public" \in DOMAIN input /\ row[c].public = input["public"]
      /\ "project" \in DOMAIN input /\ row[c].project = input["project"]
      /\ row[c].owner = resolve_value(x, input, "owner")
  BY <1>3, <1>4, RowOfInput DEF resolve_value
<1>8. /\ v.owner = row[c].owner /\ v.public = row[c].public
      /\ v.projectOwner = basis[c][row[c].project] /\ v \in Views
  BY <1>3, <1>6 DEF View, Views, Rows
<1>9. "projectOwner" \notin DOMAIN input /\ input["project"] \in Projects
  BY <1>4, <1>7, RequestsAssumption
<1>10. MadeFrom(v, x, input)
  BY <1>7, <1>8, <1>9 DEF MadeFrom
<1>11. deployment.mutation \in Rules
  BY DeploymentsAssumption DEF Inv, Tables
<1> HIDE DEF v, p, input
<1>12. /\ (p = True \/ Cardinality(Selected(p, basis[c])) = 1)
               <=> Grants(identity[c], v, deployment.mutation)
       /\ p \in {True, False} \/ Leads(p) = {"projects"}
  <2>1. v.projectOwner = basis[c][input["project"]]
    BY <1>7, <1>8
  <2>2. ContextOf(x, identity[c]) /\ Caller(identity[c])
    BY <1>4
  <2> DEFINE owners == basis[c]
             who == identity[c]
             expr == deployment.mutation
  <2>3. /\ owners \in [Projects -> Users] /\ v.projectOwner = owners[input["project"]]
        /\ expr \in Rules /\ p = solve_precheck(x, input, expr).res /\ OneLead(p)
    BY <1>5, <1>6, <1>11, <2>1 DEF PassedOn
  <2> HIDE DEF owners, who, expr
  <2>4. Caller(who) /\ ContextOf(x, who)
    BY <2>2 DEF who
  <2>5. /\ (p = True \/ Cardinality({q \in Projects :
                            SelectsProject(p, [id |-> q, owner |-> owners[q]])}) = 1)
               <=> Grants(who, v, expr)
        /\ p \in {True, False} \/ Leads(p) = {"projects"}
    BY <1>5, <1>10, <2>3, <2>4, PrecheckSolverIsExact
  <2> QED
    BY <2>5, Zenon DEF Selected, owners, who, expr
<1>13. Grants(identity[c], v, deployment.mutation)
  BY <1>5, <1>6, <1>12 DEF PassedOn
<1> QED
  BY <1>13 DEF v

(* A document is inserted only if the rule granted it when its precheck ran, *)
(* for every rule that negates conditions on fields only: where a comparison *)
(* of two paths is not decided that way, the precheck has panicked instead.  *)
THEOREM CreatesAllowedHolds ==
    ASSUME NegatesFieldsOnly
    PROVE  Spec => CreatesAllowed
<1>1. Inv /\ [Next]_vars =>
        \A c \in Clients :
          At(c, "statement", 0) /\ request[c].kind = "create" /\ work'[c] # work[c] =>
            Grants(identity[c], View(row[c], basis[c]), deployment.mutation)
  BY InsertIsGranted
<1> QED
  BY <1>1, Invariance, PTL DEF Spec, CreatesAllowed

LEMMA CheckedRefused ==
    ASSUME NEW c, NEW x, request[c] \in Requests, request[c].kind # "update",
           Checked(c, x).outcome = "authorization"
    PROVE  \/ solve_database(x, deployment.query).res = False
           \/ /\ request[c].kind = "delete"
              /\ solve_database(x, deployment.mutation).res = False
           \/ /\ request[c].kind = "create"
              /\ solve_precheck(x, request[c].input, deployment.mutation).res = False
<1> DEFINE r == request[c]
           p == Checked(c, x)
           selection == check_access("query", x, <<>>, deployment.query)
           main == check_access(r.kind, x, r.input, deployment.mutation)
<1>1. p = selection \/ (r.kind # "query" /\ p = main)
  BY Zenon DEF Checked
<1>2. r.kind \in {"query", "create", "delete"}
  BY RequestsAssumption
<1>3. True # False
  BY ConstantShape
<1>4. CASE p = selection
  <2>1. p = Access(True, solve_database(x, deployment.query).res)
    BY <1>4 DEF check_access, check_retrieve_access
  <2> HIDE DEF p
  <2> QED
    BY <1>3, <2>1, AccessOutcome DEF p
<1>5. CASE r.kind = "create" /\ p = main
  <2>1. p = Access(solve_precheck(x, r.input, deployment.mutation).res, True)
    BY <1>5 DEF check_access, check_create_access
  <2> HIDE DEF p
  <2> QED
    BY <1>3, <1>5, <2>1, AccessOutcome DEF p
<1>6. CASE r.kind = "delete" /\ p = main
  <2>1. p = Access(True, solve_database(x, deployment.mutation).res)
    BY <1>6 DEF check_access, check_delete_access
  <2> HIDE DEF p
  <2> QED
    BY <1>3, <1>6, <2>1, AccessOutcome DEF p
<1> QED
  BY <1>1, <1>2, <1>4, <1>5, <1>6


(* Whose check it was that refused a request which is about to be checked.   *)
LEMMA RefusalContext ==
    ASSUME Inv, [Next]_vars, NEW c \in Clients,
           At(c, "check", 0), plan'[c].outcome = "authorization"
    PROVE  \E x : /\ Caller(identity[c]) /\ ContextOf(x, identity[c]) /\ request[c] \in Requests
                  /\ Checked(c, x).outcome = "authorization"
                  /\ x = Failing => Context(c) = Failing
<1>1. Domains /\ Planned(c) /\ Typed(c) /\ pc[c].at = "check"
  BY DEF Inv, At
<1>2. request[c] \in Requests /\ Caller(identity[c]) /\ identity[c] # Failing
  BY <1>1, FailingIdentity DEF Typed
<1>3. CASE plan'[c] = plan[c]
  <2>1. PlannedFor(c, identity[c]) \/ (Context(c) = Failing /\ PlannedFor(c, Failing))
    BY <1>1, <1>3 DEF Planned
  <2>2. CASE PlannedFor(c, identity[c])
    BY <1>2, <1>3, <2>2, Zenon DEF PlannedFor, ContextOf
  <2>3. CASE Context(c) = Failing /\ PlannedFor(c, Failing)
    BY <1>2, <1>3, <2>3, Zenon DEF PlannedFor, ContextOf
  <2> QED
    BY <2>1, <2>2, <2>3
<1>4. CASE check(c)
  <2>1. plan'[c] = Checked(c, Context(c))
    BY <1>1, <1>4, CheckEffect, Zenon
  <2>2. Context(c) = identity[c] \/ Context(c) = Failing
    BY ContextIs
  <2> QED
    BY <1>2, <2>1, <2>2, Zenon DEF ContextOf
<1>5. CASE Acts(c) /\ ~check(c)
  <2>1. ~receive(c) /\ ~finish(c)
    BY <1>1 DEF receive, finish, At
  <2>2. Stays(c)
    BY <1>1, <1>5, <2>1, OthersStay
  <2> QED
    BY <1>3, <2>2 DEF Stays
<1>6. CASE ~Acts(c)
  BY <1>3, <1>6, StepsOf DEF Kept
<1> QED
  BY <1>4, <1>5, <1>6

LEMMA RefusalIsDue ==
    ASSUME NegatesFieldsOnly, PairsWithoutPublic, Inv, [Next]_vars, NEW c \in Clients,
           At(c, "check", 0), plan'[c].outcome = "authorization", request[c].kind # "update"
    PROVE  LET Agrees(v) ==
                 \/ request[c].kind # "create"
                 \/ /\ v.owner = NewRow(c, Context(c)).owner
                    /\ "public" \in DOMAIN request[c].input => v.public = request[c].input["public"]
           IN  \/ \A v \in Views : ~Grants(identity[c], v, deployment.query)
               \/ /\ request[c].kind # "query"
                  /\ \A v \in Views : Agrees(v) => ~Grants(identity[c], v, deployment.mutation)
<1> DEFINE input == request[c].input
           who == identity[c]
           Agrees(v) == \/ request[c].kind # "create"
                        \/ /\ v.owner = NewRow(c, Context(c)).owner
                           /\ "public" \in DOMAIN input => v.public = input["public"]
<1>1. PICK x : /\ Caller(who) /\ ContextOf(x, who) /\ request[c] \in Requests
               /\ Checked(c, x).outcome = "authorization"
               /\ x = Failing => Context(c) = Failing
  BY RefusalContext, Zenon
<1>2. deployment.query \in Rules /\ deployment.mutation \in Rules
  BY DeploymentsAssumption DEF Inv, Tables
<1>3. NegatesSimpleOnly
  BY DEF NegatesFieldsOnly, NegatesSimpleOnly
<1>4. False # Error /\ \A v : ~Holds(False, v)
  BY ConstantShape DEF Holds
<1>5. ASSUME NEW expr \in Rules, solve_database(x, expr).res = False
      PROVE  \A v \in Views : ~Grants(who, v, expr)
  <2> SUFFICES ASSUME NEW v \in Views PROVE ~Grants(who, v, expr)
    OBVIOUS
  <2>1. Holds(solve_database(x, expr).res, v) <=> Grants(who, v, expr)
    BY <1>1, <1>3, <1>4, <1>5, DatabaseSolverIsExact, Zenon
  <2> QED
    BY <1>4, <1>5, <2>1, Zenon
<1>6. CASE solve_database(x, deployment.query).res = False
  BY <1>2, <1>5, <1>6
<1>7. CASE request[c].kind = "delete" /\ solve_database(x, deployment.mutation).res = False
  BY <1>2, <1>5, <1>7
<1>8. CASE request[c].kind = "create" /\ solve_precheck(x, input, deployment.mutation).res = False
  <2> SUFFICES ASSUME NEW v \in Views, Agrees(v) PROVE ~Grants(who, v, deployment.mutation)
    BY <1>8
  <2>1. /\ v.owner = NewRow(c, Context(c)).owner
        /\ "public" \in DOMAIN input => v.public = input["public"]
    BY <1>8
  <2>2. "projectOwner" \notin DOMAIN input
    BY <1>1, RequestsAssumption
  <2>3. v.owner \in Users /\ v.owner # Missing
    BY UsersAssumption DEF Views
  <2>4. v.owner = resolve_value(x, input, "owner")
    <3>1. CASE "owner" \in DOMAIN input
      BY <2>1, <3>1, RowOfInput DEF resolve_value
    <3>2. CASE "owner" \notin DOMAIN input
      <4>1. Context(c)["id"] # Failed /\ v.owner = Context(c)["id"]
        BY <2>1, <2>3, <3>2, RowOfInput
      <4>2. Context(c) # Failing
        BY <4>1 DEF Failing
      <4>3. Context(c) = who /\ x = who
        BY <1>1, <4>2, ContextIs DEF ContextOf
      <4> QED
        BY <3>2, <4>1, <4>3 DEF resolve_value
    <3> QED
      BY <3>1, <3>2
  <2>5. AgreesWith(v, x, input)
    BY <2>1, <2>2, <2>4 DEF AgreesWith
  <2> HIDE DEF input, who
  <2> QED
    BY <1>1, <1>2, <1>8, <2>5, PrecheckRefusesOnlyUngranted
<1> QED
  BY <1>1, <1>6, <1>7, <1>8, CheckedRefused, Zenon

(* "Not authorized" is said without asking the database only if no row could *)
(* have been granted, whichever of the request's checks said it.             *)
THEOREM RefusesOnlyWithoutGrantsHolds ==
    ASSUME NegatesFieldsOnly, PairsWithoutPublic
    PROVE  Spec => RefusesOnlyWithoutGrants
<1>1. Inv /\ [Next]_vars =>
        \A c \in Clients :
         /\ At(c, "check", 0) /\ plan'[c].outcome = "authorization"
         /\ request[c].kind # "update"
         => LET Agrees(v) ==
                  \/ request[c].kind # "create"
                  \/ /\ v.owner = NewRow(c, Context(c)).owner
                     /\ "public" \in DOMAIN request[c].input => v.public = request[c].input["public"]
            IN  \/ \A v \in Views : ~Grants(identity[c], v, deployment.query)
                \/ /\ request[c].kind # "query"
                   /\ \A v \in Views :
                        Agrees(v) => ~Grants(identity[c], v, deployment.mutation)
  BY RefusalIsDue, Zenon
<1> QED
  BY <1>1, Invariance, PTL DEF Spec, RefusesOnlyWithoutGrants


(***************************************************************************)
(* The rule for owners and administrators, for a caller who is none.       *)
(***************************************************************************)
OwnerIsCaller == Eq(Path("owner"), Ctx("id"))
CallerIsAdmin == Eq(Ctx("role"), Lit("admin"))

LEMMA OwnerRuleParts ==
    ASSUME OwnerRule \in Rules
    PROVE  /\ OwnerIsCaller \in Comparisons /\ CallerIsAdmin \in Comparisons
           /\ OwnerRule.op = "or" /\ OwnerRule.left = OwnerIsCaller
           /\ OwnerRule.right = CallerIsAdmin
<1>1. /\ OwnerRule.op = "or" /\ OwnerRule.left = OwnerIsCaller /\ OwnerRule.right = CallerIsAdmin
  BY DEF OwnerRule, Or, OwnerIsCaller, CallerIsAdmin
<1>2. Operands(OwnerRule) = {OwnerIsCaller, CallerIsAdmin}
  BY <1>1 DEF Operands
<1>3. OwnerIsCaller \in Rules /\ CallerIsAdmin \in Rules
  BY <1>2, RulesAssumption
<1>4. OwnerIsCaller.op = "eq" /\ CallerIsAdmin.op = "eq"
  BY DEF OwnerIsCaller, CallerIsAdmin, Eq
<1> QED
  BY <1>1, <1>3, <1>4 DEF Comparisons

(* The rule comes to its first half, or to an error.                         *)
LEMMA OwnerRuleSolved ==
    ASSUME OwnerRule \in Rules, NEW rel, NEW universe,
           rel[CallerIsAdmin] \in {Solved(Error), Unsolvable(False), Solved(False)},
           NEW p, p = solve(rel, universe)[OwnerRule].res
    PROVE  p = rel[OwnerIsCaller].res \/ p = Error
<1> DEFINE s == solve(rel, universe)
           a == rel[OwnerIsCaller]
           b == rel[CallerIsAdmin]
<1>1. \A x \in Rules : s[x] = SolveLogical(rel, universe, s, x)
  BY SolveEquation, Zenon
<1>2. OwnerIsCaller \in Rules /\ CallerIsAdmin \in Rules
  BY OwnerRuleParts DEF Comparisons
<1> HIDE DEF s
<1>3. s[OwnerIsCaller] = a /\ s[CallerIsAdmin] = b
  BY <1>1, OwnerRuleParts DEF SolveLogical, Comparisons
<1>4. s[OwnerRule] = IF a = Solved(True) THEN a ELSE Then(a, Then(b, SolutionOr(a, b)))
  BY <1>1, <1>3, OwnerRuleParts DEF SolveLogical
<1>5. b.res = Error \/ b.res = False
  BY SolutionShape, Zenon
<1>6. SolutionOr(a, b).res = PredicateOr(a.res, b.res)
  BY Zenon DEF SolutionOr
<1>7. b.res = False => PredicateOr(a.res, b.res) = a.res
  BY ConstantShape DEF PredicateOr
<1>8. p = s[OwnerRule].res
  BY DEF s
<1> HIDE DEF a, b
<1>9. \/ s[OwnerRule] = a
      \/ s[OwnerRule] = b /\ b.res = Error
      \/ s[OwnerRule] = SolutionOr(a, b) /\ b.res # Error
  BY <1>4, Zenon DEF Then
<1> QED
  BY <1>5, <1>6, <1>7, <1>8, <1>9 DEF a


LEMMA AdminComparison ==
    ASSUME NEW x, x["role"] # "admin", NEW input
    PROVE  /\ database_relational_op(x, CallerIsAdmin)
                \in {Solved(Error), Unsolvable(False), Solved(False)}
           /\ precheck_relational_op(x, input, CallerIsAdmin)
                \in {Solved(Error), Unsolvable(False), Solved(False)}
<1> DEFINE e == CallerIsAdmin
           Value(prim) == reduce_common_primitive_expression(x, prim)
           Commons == {prim \in {e.left, e.right} : IsCommon(prim)}
           Reduced(prim) == IF IsCommon(prim) THEN reduce_common_primitive_expression(x, prim)
                            ELSE input[prim.name]
           Common == {prim \in {e.left, e.right} : IsCommon(prim) \/ prim.name \in DOMAIN input}
           Paths == {e.left, e.right} \ Common
<1>1. e.op = "eq" /\ e.left = Ctx("role") /\ e.right = Lit("admin")
  BY DEF CallerIsAdmin, Eq
<1>2. /\ IsCommon(Ctx("role")) /\ IsCommon(Lit("admin"))
      /\ Value(Ctx("role")) = x["role"] /\ Value(Lit("admin")) = "admin"
  BY DEF IsCommon, Ctx, Lit, reduce_common_primitive_expression
<1>3. {e.left, e.right} = Commons /\ {e.left, e.right} = Common /\ Paths = {}
  BY <1>1, <1>2
<1>4. Reduced(e.left) = x["role"] /\ Reduced(e.right) = "admin"
  BY <1>1, <1>2
<1>5. ~Compare(e.op, x["role"], "admin")
  BY <1>1 DEF Compare
<1>6. Bool(Compare(e.op, x["role"], "admin")) = False
  BY <1>5, Zenon DEF Bool
<1>7. database_relational_op(x, e) =
        IF \E prim \in Commons : Value(prim) = Failed THEN Solved(Error)
        ELSE IF \E prim \in Commons : Value(prim) = Missing THEN Unsolvable(False)
        ELSE Solved(Bool(Compare(e.op, Value(e.left), Value(e.right))))
  <2> HIDE DEF e
  <2> QED
    BY <1>3, Zenon DEF database_relational_op, database_missing
<1>8. precheck_relational_op(x, input, e) =
        IF \E prim \in Common : Reduced(prim) = Failed THEN Solved(Error)
        ELSE IF \E prim \in Common : Reduced(prim) = Missing THEN Unsolvable(False)
        ELSE Solved(Bool(Compare(e.op, Reduced(e.left), Reduced(e.right))))
  <2> HIDE DEF e
  <2> QED
    BY <1>3 DEF precheck_relational_op
<1> HIDE DEF e
<1>9. database_relational_op(x, e) \in {Solved(Error), Unsolvable(False), Solved(False)}
  BY <1>1, <1>2, <1>6, <1>7, Zenon
<1>10. precheck_relational_op(x, input, e) \in {Solved(Error), Unsolvable(False), Solved(False)}
  BY <1>4, <1>6, <1>8, Zenon
<1> QED
  BY <1>9, <1>10 DEF e

(* The rows it leaves to PostgreSQL are the caller's own, and the condition  *)
(* is one on the row itself.                                                 *)
LEMMA OwnerRuleDatabase ==
    ASSUME OwnerRule \in Rules, NEW who, NEW x, ContextOf(x, who), who["role"] # "admin",
           NEW p, p = solve_database(x, OwnerRule).res, p # Error
    PROVE  "document.project" \notin p.paths /\ \A v : Holds(p, v) => v.owner = who["id"]
<1> DEFINE rel == [e \in Comparisons |-> database_relational_op(x, e)]
           e == OwnerIsCaller
           Value(prim) == reduce_common_primitive_expression(x, prim)
           Commons == {prim \in {e.left, e.right} : IsCommon(prim)}
           Read == {IF prim.name = "projectOwner" THEN "document.project" ELSE "document" :
                      prim \in {e.left, e.right} \ Commons}
           Side(prim, view) == IF IsCommon(prim) THEN Value(prim) ELSE view[prim.name]
           rows == {v \in Views : Compare(e.op, Side(e.left, v), Side(e.right, v))}
           d == database_relational_op(x, e)
<1>1. x["role"] # "admin"
  BY DEF ContextOf, Failing, Failed
<1>2. rel[OwnerIsCaller] = d /\ rel[CallerIsAdmin] = database_relational_op(x, CallerIsAdmin)
  BY OwnerRuleParts
<1>3. p = d.res
  <2> HIDE DEF rel, d
  <2>1. p = solve(rel, Views)[OwnerRule].res
    BY Zenon DEF solve_database, rel
  <2>2. rel[CallerIsAdmin] \in {Solved(Error), Unsolvable(False), Solved(False)}
    BY <1>1, <1>2, AdminComparison
  <2> QED
    BY <1>2, <2>1, <2>2, OwnerRuleSolved
<1>4. e.op = "eq" /\ e.left = Path("owner") /\ e.right = Ctx("id")
  BY DEF OwnerIsCaller, Eq
<1>5. /\ ~IsCommon(Path("owner")) /\ IsCommon(Ctx("id")) /\ Value(Ctx("id")) = x["id"]
      /\ Path("owner").name = "owner"
  BY DEF IsCommon, Ctx, Path, reduce_common_primitive_expression
<1>6. d = IF \E prim \in Commons : Value(prim) = Failed THEN Solved(Error)
          ELSE IF \E prim \in Commons : Value(prim) = Missing THEN Unsolvable(False)
          ELSE IF {e.left, e.right} = Commons
          THEN Solved(Bool(Compare(e.op, Value(e.left), Value(e.right))))
          ELSE IF e.left = e.right THEN Solved(Bool(e.op = "eq"))
          ELSE Solved(Sql(rows, Read))
  <2> HIDE DEF e
  <2> QED
    BY Zenon DEF database_relational_op, database_missing
<1> HIDE DEF e, d, rel
<1>7. /\ Commons = {Ctx("id")} /\ {e.left, e.right} # Commons /\ e.left # e.right
      /\ Read = {"document"}
  <2>1. Commons = {Ctx("id")} /\ {e.left, e.right} \ Commons = {Path("owner")}
    BY <1>4, <1>5
  <2>2. Path("owner") \in {e.left, e.right}
    BY <1>4
  <2>3. Path("owner").name # "projectOwner"
    BY <1>5
  <2>4. Read = {"document"}
    BY <2>1, <2>3
  <2>5. e.left # e.right
    BY <1>4, <1>5
  <2> QED
    BY <2>1, <2>2, <2>4, <2>5, Zenon
<1>8. \/ d \in {Solved(Error), Unsolvable(False)}
      \/ d = Solved(Sql(rows, {"document"})) /\ x["id"] # Failed
  BY <1>5, <1>6, <1>7, Zenon
<1>9. \A v \in rows : v.owner = x["id"]
  BY <1>4, <1>5 DEF Compare
<1> HIDE DEF rows
<1>10. CASE d \in {Solved(Error), Unsolvable(False)}
  <2>1. p = False
    BY <1>3, <1>10, SolutionShape, Zenon
  <2> QED
    BY <2>1, ConstantShape DEF False, Holds, True
<1>11. CASE d = Solved(Sql(rows, {"document"})) /\ x["id"] # Failed
  <2>1. p = Sql(rows, {"document"})
    BY <1>3, <1>11, SolutionShape, Zenon
  <2>2. x["id"] = who["id"]
    BY <1>11 DEF ContextOf, Failing
  <2>3. "document.project" \notin p.paths /\ p.rows = rows /\ p # True
    BY <2>1, SqlShape DEF Sql
  <2> QED
    BY <1>9, <2>2, <2>3 DEF Holds
<1> QED
  BY <1>8, <1>10, <1>11


(* The input it lets through makes the caller the owner.                     *)
LEMMA OwnerRulePrecheck ==
    ASSUME OwnerRule \in Rules, NEW who, NEW x, ContextOf(x, who), who["role"] # "admin", NEW input,
           NEW p, p = solve_precheck(x, input, OwnerRule).res, p # Error, p # False
    PROVE  x = who /\ resolve_value(x, input, "owner") = who["id"]
<1> DEFINE rel == [e \in Comparisons |-> precheck_relational_op(x, input, e)]
           e == OwnerIsCaller
           Reduced(prim) == IF IsCommon(prim) THEN reduce_common_primitive_expression(x, prim)
                            ELSE input[prim.name]
           Common == {prim \in {e.left, e.right} : IsCommon(prim) \/ prim.name \in DOMAIN input}
           Paths == {e.left, e.right} \ Common
           d == precheck_relational_op(x, input, e)
           found == resolve_value(x, input, "owner")
<1>1. x["role"] # "admin"
  BY DEF ContextOf, Failing, Failed
<1>2. rel[OwnerIsCaller] = d /\ rel[CallerIsAdmin] = precheck_relational_op(x, input, CallerIsAdmin)
  BY OwnerRuleParts
<1>3. p = d.res
  <2> HIDE DEF rel, d
  <2>1. p = solve(rel, Readings)[OwnerRule].res
    BY Zenon DEF solve_precheck, rel
  <2>2. rel[CallerIsAdmin] \in {Solved(Error), Unsolvable(False), Solved(False)}
    BY <1>1, <1>2, AdminComparison
  <2> QED
    BY <1>2, <2>1, <2>2, OwnerRuleSolved
<1>4. e.op = "eq" /\ e.left = Path("owner") /\ e.right = Ctx("id")
  BY DEF OwnerIsCaller, Eq
<1>5. /\ ~IsCommon(Path("owner")) /\ IsCommon(Ctx("id")) /\ Reduced(Ctx("id")) = x["id"]
      /\ Path("owner").name = "owner" /\ Path("owner") # Ctx("id")
  BY DEF IsCommon, Ctx, Path, reduce_common_primitive_expression
<1>6. d \notin {Solved(Error), Unsolvable(False), Solved(False)}
  <2> HIDE DEF d
  <2> QED
    BY <1>3, SolutionShape, Zenon
<1>7. d = IF \E prim \in Common : Reduced(prim) = Failed THEN Solved(Error)
          ELSE IF \E prim \in Common : Reduced(prim) = Missing THEN Unsolvable(False)
          ELSE IF Paths = {} THEN Solved(Bool(Compare(e.op, Reduced(e.left), Reduced(e.right))))
          ELSE process_path_common_expr(x, input, e.op, e.left.name, Reduced(e.right))
  <2>1. e.right \in Common
    BY <1>4, <1>5
  <2> HIDE DEF e
  <2> QED
    BY <2>1 DEF precheck_relational_op
<1> HIDE DEF e, d, rel
<1>8. Ctx("id") \in Common
  BY <1>4, <1>5
<1>9. x["id"] # Failed /\ x["id"] # Missing
  BY <1>5, <1>6, <1>7, <1>8, Zenon
<1>10. x = who
  BY <1>9 DEF ContextOf, Failing
<1>11. found = x["id"]
  <2>1. CASE "owner" \in DOMAIN input
    <3>1. Paths = {} /\ found = input["owner"] /\ Reduced(e.left) = input["owner"]
          /\ Reduced(e.right) = x["id"]
      BY <1>4, <1>5, <2>1 DEF resolve_value
    <3>2. d = Solved(Bool(Compare(e.op, Reduced(e.left), Reduced(e.right))))
      BY <1>6, <1>7, <3>1, Zenon
    <3>3. d = Solved(Bool(Compare("eq", found, x["id"])))
      BY <1>4, <3>1, <3>2, Zenon
    <3>4. Compare("eq", found, x["id"])
      BY <1>6, <3>3, Zenon DEF Bool
    <3> QED
      BY <3>4 DEF Compare
  <2>2. CASE "owner" \notin DOMAIN input
    BY <2>2 DEF resolve_value
  <2> QED
    BY <2>1, <2>2
<1> QED
  BY <1>10, <1>11

(* The plan of such a caller, once let through.                              *)
LEMMA OwnerPlan ==
    ASSUME Inv, NEW c \in Clients, pc[c].at \in {"precheck", "statement", "write"},
           deployment.mutation = OwnerRule, identity[c].role # "admin"
    PROVE  /\ request[c] \in Requests
           /\ request[c].kind \in {"update", "delete"} =>
                /\ "document.project" \notin plan[c].entity.paths
                /\ \A v : Holds(plan[c].entity, v) => v.owner = identity[c].id
           /\ request[c].kind = "update" /\ "owner" \in DOMAIN request[c].input =>
                request[c].input["owner"] = identity[c].id
           /\ request[c].kind = "create" => row[c].owner = identity[c].id
<1> DEFINE who == identity[c]
           input == request[c].input
<1>1. PICK x : /\ Caller(who) /\ ContextOf(x, who)
               /\ request[c] \in Requests /\ Checked(c, x).outcome = "ok"
               /\ plan[c] = Checked(c, x)
               /\ request[c].kind = "create" => row[c] = NewRow(c, x)
  BY PlanOfCaller, Zenon
<1>2. OwnerRule \in Rules /\ who["role"] # "admin"
  BY DeploymentsAssumption DEF Inv, Tables
<1>3. ASSUME request[c].kind \in {"update", "delete"}
      PROVE  /\ "document.project" \notin plan[c].entity.paths
             /\ \A v : Holds(plan[c].entity, v) => v.owner = who["id"]
  <2>1. plan[c].entity = solve_database(x, OwnerRule).res /\ plan[c].entity # Error
    BY <1>1, <1>3, CheckedOk
  <2> HIDE DEF who
  <2> QED
    BY <1>1, <1>2, <2>1, OwnerRuleDatabase
<1>4. ASSUME request[c].kind \in {"create", "update"}
      PROVE  x = who /\ resolve_value(x, input, "owner") = who["id"]
  <2> DEFINE p == plan[c].precheck
  <2>1. p = solve_precheck(x, input, OwnerRule).res /\ p # Error /\ p # False
    BY <1>1, <1>4, CheckedOk
  <2> HIDE DEF who, input, p
  <2> QED
    BY <1>1, <1>2, <2>1, OwnerRulePrecheck
<1>5. ASSUME request[c].kind = "update", "owner" \in DOMAIN input
      PROVE  input["owner"] = who["id"]
  BY <1>4, <1>5 DEF resolve_value
<1>6. ASSUME request[c].kind = "create"
      PROVE  row[c].owner = who["id"]
  <2>1. row[c].owner = IF "owner" \in DOMAIN input THEN input["owner"]
                       ELSE IF x["id"] = Failed THEN Missing ELSE x["id"]
    BY <1>1, <1>6, RowOfInput
  <2>2. who["id"] # Failed
    BY <1>1 DEF Caller
  <2> QED
    BY <1>4, <1>6, <2>1, <2>2 DEF resolve_value
<1> QED
  BY <1>1, <1>3, <1>5, <1>6


LEMMA ActsMutates ==
    ASSUME Inv, NEW c \in Clients, Mutates(c), Acts(c)
    PROVE  Mutates(c)'
<1> USE DEF Domains
<1>1. Domains
  BY DEF Inv
<1>2. CASE scan(c)
  BY <1>2 DEF scan, Mutates
<1>3. CASE expire(c)
  BY <1>3 DEF expire, Mutates
<1>4. CASE ~scan(c) /\ ~expire(c)
  <2> SUFFICES pc'[c].at # "write"
    BY DEF Mutates
  <2>1. CASE receive(c) \/ check(c) \/ finish(c)
    BY <1>1, <2>1, ReceiveEffect, CheckEffect, FinishEffect
  <2>2. CASE before(c) \/ around(c) \/ after(c)
    BY <1>1, <2>2, Targets DEF before, around, after
  <2>3. CASE precheck(c)
    BY <1>1, <2>3, Targets DEF precheck
  <2>4. CASE insert(c)
    BY <1>1, <2>4, Targets DEF insert
  <2>5. CASE select(c) \/ write(c)
    BY <1>1, <2>5, Targets DEF select, write
  <2> QED
    BY <1>4, <2>1, <2>2, <2>3, <2>4, <2>5 DEF Acts
<1> QED
  BY <1>2, <1>3, <1>4

(* What the owner of a written document was, and is.                         *)
LEMMA WriteIsOwn ==
    ASSUME Inv, NEW c \in Clients, Mutates(c), write(c),
           deployment.mutation = OwnerRule, identity[c].role # "admin",
           NEW i \in Written(c)
    PROVE  /\ Current(c)[i].owner = identity[c].id
           /\ work'[c][i] # Gone => work'[c][i].owner = identity[c].id
           /\ DOMAIN work'[c] = Written(c) \cup DOMAIN work[c]
           /\ \A j \in DOMAIN work[c] \ Written(c) : work'[c][j] = work[c][j]
<1> DEFINE r == Current(c)[i]
           input == request[c].input
<1>1. Domains /\ Tables /\ Client(c) /\ IsTable(work[c]) /\ pc[c].at = "write"
  BY DEF Inv, Client, Typed, write, At
<1>2. request[c].kind \in {"update", "delete"}
  BY <1>1 DEF Mutates
<1>3. /\ "document.project" \notin plan[c].entity.paths
      /\ \A v : Holds(plan[c].entity, v) => v.owner = identity[c].id
      /\ request[c].kind = "update" /\ "owner" \in DOMAIN input => input["owner"] = identity[c].id
  BY <1>1, <1>2, OwnerPlan
<1>4. i \in Live(Current(c)) /\ Holds(plan[c].entity, View(r, projects))
  BY <1>3 DEF Written
<1>5. View(r, projects).owner = r.owner
  BY DEF View
<1>6. r.owner = identity[c].id /\ r \in Rows
  BY <1>3, <1>4, <1>5, ViewOfRow
<1>7. PICK new :
             /\ new = [j \in Written(c) |->
                  IF request[c].kind = "delete" THEN Gone
                  ELSE [f \in DOMAIN Current(c)[j] |-> IF f \in DOMAIN request[c].input
                                                       THEN request[c].input[f] ELSE Current(c)[j][f]]]
             /\ IsTable(new) /\ DOMAIN new = Written(c)
             /\ work'[c] = Over(new, work[c])
  BY <1>1, WriteEffect, Zenon
<1>8. /\ DOMAIN work'[c] = Written(c) \cup DOMAIN work[c]
      /\ work'[c][i] = new[i]
      /\ \A j \in DOMAIN work[c] \ Written(c) : work'[c][j] = work[c][j]
  <2> DEFINE over == Over(new, work[c])
  <2>1. /\ DOMAIN over = DOMAIN new \cup DOMAIN work[c]
        /\ \A j \in DOMAIN new : over[j] = new[j]
        /\ \A j \in DOMAIN work[c] \ DOMAIN new : over[j] = work[c][j]
    <3>1. IsTable(new)
      BY <1>7, Zenon
    <3> QED
      BY <1>1, <3>1, OverTable, ZenonT(40)
  <2>2. work'[c] = over
    BY <1>7
  <2> HIDE DEF over
  <2> QED
    BY <1>7, <2>1, <2>2
<1>9. new[i] = IF request[c].kind = "delete" THEN Gone
               ELSE [f \in DOMAIN r |-> IF f \in DOMAIN input THEN input[f] ELSE r[f]]
  BY <1>7, Zenon
<1> HIDE DEF r, input
<1>10. new[i] # Gone => new[i].owner = identity[c].id
  <2>1. "owner" \in DOMAIN r
    BY <1>6 DEF Rows
  <2>2. CASE request[c].kind = "update"
    <3>1. new[i]["owner"] = IF "owner" \in DOMAIN input THEN input["owner"] ELSE r["owner"]
      BY <1>9, <2>1, <2>2
    <3> QED
      BY <1>3, <1>6, <2>2, <3>1
  <2> QED
    BY <1>2, <1>9, <2>2
<1> QED
  BY <1>6, <1>8, <1>10 DEF r

LEMMA InsertIsOwn ==
    ASSUME Inv, NEW c \in Clients, insert(c), work'[c] # work[c]
    PROVE  \E id : /\ id \notin Used
                   /\ DOMAIN work'[c] = {id} \cup DOMAIN work[c]
                   /\ work'[c][id] = row[c]
                   /\ \A j \in DOMAIN work[c] : work'[c][j] = work[c][j]
<1>1. Domains /\ Tables /\ IsTable(work[c]) /\ \A d \in Clients : Client(d)
  BY DEF Inv, Client, Typed
<1>2. PICK id : /\ id \notin Used
                /\ IsTable([i \in {id} |-> row[c]])
                /\ work'[c] = Over([i \in {id} |-> row[c]], work[c])
  BY <1>1, InsertEffect, Zenon
<1> DEFINE new == [i \in {id} |-> row[c]]
<1>3. DOMAIN new = {id} /\ new[id] = row[c]
  OBVIOUS
<1>4. id \notin DOMAIN work[c]
  BY <1>2 DEF Used
<1> HIDE DEF new
<1>5. IsTable(new) /\ work'[c] = Over(new, work[c])
  BY <1>2 DEF new
<1>6. /\ DOMAIN work'[c] = {id} \cup DOMAIN work[c]
      /\ work'[c][id] = row[c]
      /\ \A j \in DOMAIN work[c] \ {id} : work'[c][j] = work[c][j]
  <2> DEFINE over == Over(new, work[c])
  <2>1. /\ DOMAIN over = DOMAIN new \cup DOMAIN work[c]
        /\ \A j \in DOMAIN new : over[j] = new[j]
        /\ \A j \in DOMAIN work[c] \ DOMAIN new : over[j] = work[c][j]
    BY <1>1, <1>5, OverTable
  <2>2. work'[c] = over
    BY <1>5
  <2> HIDE DEF over
  <2> QED
    BY <1>3, <2>1, <2>2
<1> QED
  BY <1>2, <1>4, <1>6

LEMMA WorkChange ==
    ASSUME NEW c, Acts(c)
    PROVE  work' = work \/ write(c) \/ insert(c) \/ finish(c)
  BY DEF Acts, receive, expire, before, around, after, check, precheck, select, scan


LEMMA ActsDisjoint ==
    ASSUME Inv, OwnInv, NEW c \in Clients, Acts(c)
    PROVE  Disjoint'
<1>1. Domains /\ Disjoint
  BY DEF Inv, OwnInv
<1>2. \A d \in Clients \ {c} : work'[d] = work[d]
  BY <1>1, ActsFrame, FrameIsKept DEF Kept
<1>3. ASSUME \A d \in Clients \ {c} : DOMAIN work'[c] \cap DOMAIN work[d] = {}
      PROVE  Disjoint'
  BY <1>1, <1>2, <1>3 DEF Disjoint
<1>4. CASE work' = work
  BY <1>1, <1>4 DEF Disjoint
<1>5. CASE finish(c)
  BY <1>1, <1>3, <1>5, FinishEffect, EmptyTable
<1>6. CASE insert(c)
  <2>1. CASE work'[c] = work[c]
    BY <1>1, <1>3, <2>1 DEF Disjoint
  <2>2. CASE work'[c] # work[c]
    <3>1. PICK id : id \notin Used /\ DOMAIN work'[c] = {id} \cup DOMAIN work[c]
      BY <1>6, <2>2, InsertIsOwn, Zenon
    <3>2. \A d \in Clients : id \notin DOMAIN work[d]
      BY <3>1 DEF Used
    <3> QED
      BY <1>1, <1>3, <3>1, <3>2 DEF Disjoint
  <2> QED
    BY <2>1, <2>2
<1>7. CASE write(c)
  <2>1. Domains /\ Tables /\ Client(c) /\ IsTable(work[c])
    BY DEF Inv, Client, Typed
  <2>2. PICK new : IsTable(new) /\ DOMAIN new = Written(c) /\ work'[c] = Over(new, work[c])
    BY <1>7, <2>1, WriteEffect, Zenon
  <2>3. DOMAIN Over(new, work[c]) = DOMAIN new \cup DOMAIN work[c]
    BY <2>1, <2>2, OverTable
  <2>4. DOMAIN work'[c] = Written(c) \cup DOMAIN work[c]
    BY <2>2, <2>3
  <2>5. Written(c) \subseteq hits[c]
    BY Zenon DEF Written
  <2>6. \A d \in Clients \ {c} : hits[c] \cap DOMAIN work[d] = {}
    BY <1>7 DEF write
  <2> QED
    BY <1>1, <1>3, <2>4, <2>5, <2>6 DEF Disjoint
<1> QED
  BY <1>4, <1>5, <1>6, <1>7, WorkChange

LEMMA ActsWritesOwn ==
    ASSUME Inv, OwnInv, NEW c \in Clients, Acts(c), NEW d \in Clients
    PROVE  WritesOwn(d)'
<1>1. Domains /\ Tables /\ Disjoint /\ WritesOwn(d) /\ Mutates(c) /\ deployment' = deployment
  BY ActsFrame DEF Inv, OwnInv
<1>2. CASE d # c
  <2>1. work'[d] = work[d] /\ identity'[d] = identity[d]
    BY <1>1, <1>2, ActsFrame, FrameIsKept DEF Kept
  <2>2. ASSUME NEW i \in DOMAIN work[d], i \in DOMAIN documents'
        PROVE  i \in DOMAIN documents /\ documents'[i] = documents[i]
    <3>1. i \notin DOMAIN work[c]
      BY <1>1, <1>2, <2>2 DEF Disjoint
    <3>2. DOMAIN Current(c) = DOMAIN work[c] \cup DOMAIN documents
          /\ \A j \in DOMAIN documents \ DOMAIN work[c] : Current(c)[j] = documents[j]
      BY DEF Current, Over
    <3> QED
      BY <2>2, <3>1, <3>2, DocumentsChange
  <2> QED
    BY <1>1, <2>1, <2>2 DEF WritesOwn
<1>3. CASE d = c
  <2>1. CASE receive(c)
    <3>1. DOMAIN work[c] = {} /\ work' = work
      BY <1>1, <2>1, ReceiveEffect DEF Inv, InTree, Weave
    <3> QED
      BY <1>3, <3>1 DEF WritesOwn
  <2>2. CASE finish(c)
    BY <1>1, <1>3, <2>2, FinishEffect, EmptyTable DEF WritesOwn
  <2>3. CASE ~receive(c) /\ ~finish(c)
    <3>1. documents' = documents /\ identity'[c] = identity[c]
      BY <1>1, <2>3, DocumentsChange, OthersStay, CheckEffect DEF Stays
    <3>2. CASE work' = work
      BY <1>1, <1>3, <3>1, <3>2 DEF WritesOwn
    <3> SUFFICES ASSUME deployment.mutation = OwnerRule, identity[c].role # "admin",
                        NEW i \in DOMAIN work'[c]
                 PROVE  /\ i \in DOMAIN documents => documents[i].owner = identity[c].id
                        /\ work'[c][i] # Gone => work'[c][i].owner = identity[c].id
      BY <1>1, <1>3, <3>1 DEF WritesOwn
    <3>3. \A j \in DOMAIN work[c] :
            /\ j \in DOMAIN documents => documents[j].owner = identity[c].id
            /\ work[c][j] # Gone => work[c][j].owner = identity[c].id
      BY <1>1, <1>3 DEF WritesOwn
    <3>4. CASE insert(c)
      <4>1. CASE work'[c] = work[c]
        BY <3>3, <4>1
      <4>2. CASE work'[c] # work[c]
        <5>1. PICK id : /\ id \notin Used
                        /\ DOMAIN work'[c] = {id} \cup DOMAIN work[c]
                        /\ work'[c][id] = row[c]
                        /\ \A j \in DOMAIN work[c] : work'[c][j] = work[c][j]
          BY <3>4, <4>2, InsertIsOwn, Zenon
        <5>2. pc[c].at = "statement" /\ request[c].kind = "create"
          BY <3>4 DEF insert, At
        <5>3. row[c].owner = identity[c].id
          BY <5>2, OwnerPlan
        <5>4. id \notin DOMAIN documents
          BY <5>1 DEF Used
        <5> QED
          BY <3>3, <5>1, <5>3, <5>4
      <4> QED
        BY <4>1, <4>2
    <3>5. CASE write(c)
      <4>1. CASE i \in Written(c)
        <5>1. /\ Current(c)[i].owner = identity[c].id
              /\ work'[c][i] # Gone => work'[c][i].owner = identity[c].id
          BY <1>1, <3>5, <4>1, WriteIsOwn
        <5>2. i \in DOMAIN documents \ DOMAIN work[c] => Current(c)[i] = documents[i]
          BY DEF Current, Over
        <5> QED
          BY <3>3, <5>1, <5>2
      <4>2. CASE i \notin Written(c)
        <5>1. Domains /\ Tables /\ Client(c) /\ IsTable(work[c])
          BY DEF Inv, Client, Typed
        <5>2. PICK new : IsTable(new) /\ DOMAIN new = Written(c) /\ work'[c] = Over(new, work[c])
          BY <3>5, <5>1, WriteEffect, Zenon
        <5>3. /\ DOMAIN Over(new, work[c]) = DOMAIN new \cup DOMAIN work[c]
              /\ \A j \in DOMAIN work[c] \ DOMAIN new : Over(new, work[c])[j] = work[c][j]
          BY <5>1, <5>2, OverTable, ZenonT(40)
        <5>4. i \in DOMAIN work[c] /\ work'[c][i] = work[c][i]
          BY <4>2, <5>2, <5>3
        <5> QED
          BY <3>3, <5>4
      <4> QED
        BY <4>1, <4>2
    <3> QED
      BY <2>3, <3>2, <3>3, <3>4, <3>5, WorkChange
  <2> QED
    BY <2>1, <2>2, <2>3
<1> QED
  BY <1>2, <1>3

LEMMA NextOwn == Inv /\ OwnInv /\ [Next]_vars => OwnInv'
<1> SUFFICES ASSUME Inv, OwnInv, [Next]_vars PROVE OwnInv'
  OBVIOUS
<1>1. CASE \E c \in Clients : Acts(c)
  <2>1. PICK c \in Clients : Acts(c)
    BY <1>1
  <2>2. \A d \in Clients \ {c} : Kept(d)
    BY <2>1, ActsFrame, FrameIsKept DEF Inv
  <2>3. \A d \in Clients : Mutates(d)'
    BY <2>1, <2>2, ActsMutates DEF OwnInv, Mutates, Kept
  <2> QED
    BY <2>1, <2>3, ActsDisjoint, ActsWritesOwn DEF OwnInv
<1>2. CASE \E p \in Projects, u \in Users : transfer(p, u)
  BY <1>2 DEF transfer, OwnInv, Disjoint, Mutates, WritesOwn
<1>3. CASE UNCHANGED vars
  BY <1>3 DEF vars, OwnInv, Disjoint, Mutates, WritesOwn
<1> QED
  BY <1>1, <1>2, <1>3 DEF Next, AllDone, Acts

LEMMA InitOwn == Init => OwnInv
<1> SUFFICES ASSUME Init PROVE OwnInv
  OBVIOUS
<1>1. ASSUME NEW c \in Clients PROVE work[c] = <<>> /\ pc[c] = [at |-> "idle", n |-> 0]
  BY <1>1 DEF Init
<1> QED
  BY <1>1, EmptyTable DEF OwnInv, Disjoint, Mutates, WritesOwn

LEMMA OwnInvariance == Spec => []OwnInv
  BY Invariance, InitOwn, NextOwn, PTL DEF Spec

LEMMA CommitIsOwn ==
    ASSUME Inv, OwnInv, [Next]_vars, NEW c \in Clients,
           pc[c].at = "finish", pc'[c].at = "done",
           deployment.mutation = OwnerRule, identity[c].role # "admin",
           NEW i \in DOMAIN documents', i \notin DOMAIN documents \/ documents'[i] # documents[i]
    PROVE  /\ i \in DOMAIN documents => documents[i].owner = identity[c].id
           /\ documents'[i] # Gone => documents'[i].owner = identity[c].id
<1>1. Acts(c)
  BY StepsOf DEF Kept
<1>2. documents' = Current(c)
  BY <1>1, DocumentsChange
<1>3. i \in DOMAIN work[c] /\ documents'[i] = work[c][i]
  BY <1>2 DEF Current, Over
<1> QED
  BY <1>3 DEF OwnInv, WritesOwn

(* "Access control expressions act as invariants": whoever is not an         *)
(* administrator commits changes to its own documents only, and leaves them  *)
(* its own, whatever other requests commit between its check, its statement  *)
(* and its commit.                                                           *)
THEOREM OwnersKeepHolds == Spec => OwnersKeep
<1>1. Inv /\ OwnInv /\ [Next]_vars =>
        \A c \in Clients :
         /\ pc[c].at = "finish" /\ pc'[c].at = "done"
         /\ deployment.mutation = OwnerRule
         /\ identity[c].role # "admin"
         => \A i \in DOMAIN documents' :
              i \notin DOMAIN documents \/ documents'[i] # documents[i] =>
                /\ i \in DOMAIN documents => documents[i].owner = identity[c].id
                /\ documents'[i] # Gone => documents'[i].owner = identity[c].id
  BY CommitIsOwn
<1> QED
  BY <1>1, Invariance, OwnInvariance, PTL DEF Spec, OwnersKeep
=============================================================================
