--------------------------- MODULE NestedMutation ---------------------------
(* Mutations with nested data: how create, update and delete, with the rows  *)
(* they create, update and delete below the ones they are about, become a    *)
(* transaction script, and how the script is executed one statement at a     *)
(* time, later steps taking the keys that earlier ones returned, while       *)
(* another request runs a script of its own on the same tables.              *)
(*                                                                           *)
(* The tables are venues, the concerts of a venue and the artists of a       *)
(* concert.  The key of a venue is a tuple that the client chooses, of one   *)
(* column or of several; concerts and artists have a serial key.  A row is   *)
(* [val, up]: its data, and the row its foreign key refers to.  A request is *)
(* one of                                                                    *)
(*   [kind "create", prechecks, rows]                                        *)
(*   [kind "update", prechecks, where, set, concerts]                        *)
(*   [kind "delete", prechecks, where]                                       *)
(* `where' is a set of values of venues and `set' the value they get, or     *)
(* Unset.  `concerts' is <<>> or <<[create, update, delete]>>, each a list   *)
(* (an object counts as a list of one): [prechecks, rows], [id, val], ids.   *)
(* The rows of a create are a forest in preorder: each is [table, pk, val,   *)
(* up], `up' being the index of the row it is nested in, 0 for none.         *)
(*                                                                           *)
(* What the access rules come to for a user is [read, venues, update,        *)
(* delete, allow]: the values of the venues it may read, of the venues and   *)
(* concerts it may act upon, and of the venues it may give concerts.         *)
(* `prechecks' says how many of the prechecks are not trivially true.        *)
EXTENDS Integers, FiniteSets, SequencesExt

CONSTANTS Clients,    \* the requests, one mutation each
          Requests,   \* what they may ask for
          Users,      \* on whose behalf
          Databases   \* what the tables hold at the start

IsSequence(s) == Len(s) \in Nat /\ s = [i \in 1 .. Len(s) |-> s[i]]

Unset == "unset"
NoMutation == [kind |-> "none"]
Gone  == [val |-> "gone", up |-> <<>>]
ParentTable(table) == IF table = "artists" THEN "concerts" ELSE "venues"

(* Each row comes after the one it is nested in, which is of the table its   *)
(* foreign key refers to; the outermost are of the given table.              *)
Forest(rows, table) ==
    /\ IsSequence(rows)
    /\ \A i \in DOMAIN rows :
         /\ rows[i].up \in 0 .. i - 1
         /\ rows[i].up = 0 => rows[i].table = table
         /\ rows[i].up # 0 =>
              rows[i].table # "venues" /\ rows[rows[i].up].table = ParentTable(rows[i].table)

ASSUME RequestsAssumption ==
    \A r \in Requests :
        /\ r.kind \in {"create", "update", "delete"}
        /\ r.prechecks \in Nat
        /\ r.kind = "create" => Forest(r.rows, "venues")
        /\ r.kind = "update" => r.set # Gone.val
        /\ r.kind = "update" /\ r.concerts # <<>> =>
             LET arg == r.concerts[1] IN
             /\ IsSequence(arg.create) /\ IsSequence(arg.update) /\ IsSequence(arg.delete)
             /\ \A i \in DOMAIN arg.create :
                  arg.create[i].prechecks \in Nat /\ Forest(arg.create[i].rows, "concerts")

(* Every reference is to a row.                                              *)
Intact(table) ==
    \A k \in DOMAIN table : table[k] # Gone /\ table[k].up # <<>> =>
        table[k].up \in DOMAIN table /\ table[table[k].up] # Gone

ASSUME DatabasesAssumption == \A d \in Databases : IsFiniteSet(DOMAIN d) /\ Intact(d)

VARIABLES db,        \* the committed rows: <<table, pk>> -> row
          serial,    \* the last serial key given out
          mutation,  \* the abstract operation each request comes to
          script,    \* TransactionScript
          results,   \* TransactionContext: the keys each step returned
          pending,   \* the statements of the current step still to run
          work,      \* what its transaction wrote: <<table, pk>> -> row
          at,        \* where each request is
          matched,   \* the venues its root statement was about
          admitted   \* those of them its access rule lets it create concerts for

vars == <<db, serial, mutation, script, results, pending, work, at, matched, admitted>>

(***************************************************************************)
(* The abstract operation: the data argument taken apart, and every part   *)
(* restricted by the access rule it falls under.  A rule that no row can   *)
(* satisfy is an error.                                                    *)
(***************************************************************************)
check_access(rule) == rule # {}

compute_nested_update(arg, user) ==
    [i \in DOMAIN arg.update |->
        [id |-> arg.update[i].id, val |-> arg.update[i].val, rule |-> user.update]]
compute_nested_delete(arg, user) ==
    [i \in DOMAIN arg.delete |-> [id |-> arg.delete[i], rule |-> user.delete]]

create_operation(r, user) ==
    [kind |-> "create", prechecks |-> r.prechecks, rows |-> r.rows, read |-> user.read]

update_operation(r, user) ==
    LET nested == r.concerts # <<>>           \* a set of inserts, even if it is empty
        arg == r.concerts[1]
    IN  [kind |-> "update", prechecks |-> r.prechecks, read |-> user.read,
         where |-> r.where \cap user.venues, set |-> r.set, nested |-> nested,
         updates |-> IF nested THEN compute_nested_update(arg, user) ELSE <<>>,
         creates |-> IF nested THEN arg.create ELSE <<>>, allow |-> user.allow,
         deletes |-> IF nested THEN compute_nested_delete(arg, user) ELSE <<>>]

delete_operation(r, user) ==
    [kind |-> "delete", prechecks |-> r.prechecks, read |-> user.read,
     where |-> r.where \cap user.venues]

abstract_operation(r, user) ==
    CASE r.kind = "update" -> update_operation(r, user)
      [] r.kind = "delete" -> delete_operation(r, user)
      [] r.kind = "create" -> create_operation(r, user)

(* The select that answers the mutation falls under the rule for reading.    *)
Authorized(r, user) ==
    /\ check_access(user.read)
    /\ r.kind # "create" => check_access(user.venues)
    /\ r.kind = "update" => \A i \in DOMAIN r.concerts :
         /\ r.concerts[i].update # <<>> => check_access(user.update)
         /\ r.concerts[i].delete # <<>> => check_access(user.delete)

(***************************************************************************)
(* The script.  A step's id is its position; `prev' and `of' are ids.      *)
(***************************************************************************)
add_precheck_queries(n) == [i \in 1 .. n |-> [op |-> "precheck"]]

(* Binds every row to the step around the outermost one.                     *)
insert_row_flat(rows, base, parent) ==
    [i \in DOMAIN rows |->
        [op |-> "insert", table |-> rows[i].table, pk |-> rows[i].pk, val |-> rows[i].val,
         prev |-> parent]]

(* insert_row, insert_self_row and insert_nested_row: a row takes its        *)
(* foreign key from the step that inserts the row around it, one that is     *)
(* outermost from the step it is nested in, if any.  (A row that has its     *)
(* foreign key already keeps it; those of a nested argument never have.)     *)
insert_row(rows, base, parent) ==
    [i \in DOMAIN rows |->
        [op |-> "insert", table |-> rows[i].table, pk |-> rows[i].pk, val |-> rows[i].val,
         prev |-> IF rows[i].up = 0 THEN parent ELSE base + rows[i].up]]

(* The insertion strategy: prechecks, the rows, and the selection of the     *)
(* outermost ones by the first key that each of their steps returned, as far *)
(* as its own rule `read' goes: <<values>>, or <<>> if it has none, like     *)
(* that of a nested insertion.                                               *)
insert_script(start, create, parent, read) ==
    LET base == start + create.prechecks
        roots == {i \in DOMAIN create.rows : create.rows[i].up = 0}
    IN  add_precheck_queries(create.prechecks)
        \o insert_row(create.rows, base, parent)
        \o <<[op |-> "selectFirst", table |-> create.rows[1].table, of |-> {base + i : i \in roots},
              read |-> read]>>

(* Each insertion numbers its steps from the end of the script so far.       *)
insert_scripts(upto, creates, parent) ==
    LET script_with[n \in 0 .. Len(creates)] ==
            IF n = 0 THEN upto
            ELSE script_with[n - 1]
                 \o insert_script(Len(script_with[n - 1]), creates[n], parent, <<>>)
    IN  script_with[Len(creates)]

(* The multi-statement strategy of updates.                                  *)
update_script(m) ==
    LET root == m.prechecks + 1
        upto == add_precheck_queries(m.prechecks)
                \o <<[op |-> IF m.set = Unset THEN "rootSelect" ELSE "update",
                      where |-> m.where, set |-> m.set, read |-> <<>>]>>
                \o [i \in DOMAIN m.updates |->
                      [op |-> "nestedUpdate", prev |-> root, id |-> m.updates[i].id,
                       val |-> m.updates[i].val, rule |-> m.updates[i].rule]]
                \o <<[op |-> "filter", prev |-> root, allow |-> m.allow]>>
        filter == Len(upto)
    IN  insert_scripts(upto, m.creates, filter)
        \o [i \in DOMAIN m.deletes |->
              [op |-> "nestedDelete", prev |-> root, id |-> m.deletes[i].id,
               rule |-> m.deletes[i].rule]]
        \o <<[op |-> "selectAll", of |-> root, read |-> <<m.read>>]>>

(* The strategies: an update without nested data is one statement that also  *)
(* selects what it returns, and so is a delete.                              *)
to_transaction_script(m) ==
    CASE m.kind = "create" -> insert_script(0, m, 0, <<m.read>>)
      [] m.kind = "update" /\ m.nested -> update_script(m)
      [] m.kind = "update" /\ ~m.nested ->
           add_precheck_queries(m.prechecks)
           \o <<[op |-> "update", where |-> m.where, set |-> m.set, read |-> <<m.read>>]>>
      [] m.kind = "delete" ->
           add_precheck_queries(m.prechecks)
           \o <<[op |-> "delete", where |-> m.where, read |-> <<m.read>>]>>

(***************************************************************************)
(* Resolution: a step becomes the statements to run, from the results of   *)
(* the steps before it.                                                    *)
(***************************************************************************)

(* One statement for each row that the previous step returned; of an insert  *)
(* one statement for all of them, none when there are none.                  *)
resolve(step, rs) ==
    CASE step.op \in {"nestedUpdate", "nestedDelete"} ->
           [j \in DOMAIN rs[step.prev] |->
              [do |-> step.op, key |-> <<"concerts", step.id>>, rule |-> step.rule,
               up |-> <<"venues", rs[step.prev][j]>>,
               val |-> IF step.op = "nestedUpdate" THEN step.val ELSE "gone"]]
      [] step.op = "filter" ->
           <<[do |-> "filter", keys |-> Range(rs[step.prev]), allow |-> step.allow]>>
      [] step.op = "insert" /\ step.prev = 0 ->
           <<[do |-> "insert", table |-> step.table, pk |-> step.pk, val |-> step.val,
              ups |-> <<<<>>>>]>>
      [] step.op = "insert" /\ step.prev # 0 ->
           IF rs[step.prev] = <<>> THEN <<>>
           ELSE <<[do |-> "insert", table |-> step.table, pk |-> step.pk, val |-> step.val,
                   ups |-> [j \in DOMAIN rs[step.prev] |->
                              <<ParentTable(step.table), rs[step.prev][j]>>]]>>
      [] step.op = "selectFirst" ->
           <<[do |-> "select", table |-> step.table, keys |-> {rs[i][1] : i \in step.of},
              read |-> step.read]>>
      [] step.op = "selectAll" ->
           <<[do |-> "select", table |-> "venues", keys |-> Range(rs[step.of]),
              read |-> step.read]>>
      [] step.op = "precheck" -> <<[do |-> "precheck"]>>
      [] step.op \in {"rootSelect", "delete"} ->
           <<[do |-> step.op, where |-> step.where, read |-> step.read]>>
      [] step.op = "update" ->
           <<[do |-> "update", where |-> step.where, set |-> step.set, read |-> step.read]>>

(* resolve_value indexes the rows of a step; a row that is not there is a    *)
(* panic.                                                                    *)
Panics(step, rs) == step.op = "selectFirst" /\ \E i \in step.of : rs[i] = <<>>

(***************************************************************************)
(* PostgreSQL: what a statement finds, writes and returns, when it waits   *)
(* for the other transaction, and when it violates a key.  A statement     *)
(* that had to wait sees what was committed meanwhile.                     *)
(***************************************************************************)
Over(new, old) == [k \in DOMAIN new \cup DOMAIN old |-> IF k \in DOMAIN new THEN new[k] ELSE old[k]]
Current(c) == Over(work[c], db)
Live(c) == {k \in DOMAIN Current(c) : Current(c)[k] # Gone}
Venues(c, vals) == {k \in Live(c) : k[1] = "venues" /\ Current(c)[k].val \in vals}

(* Forgets the condition on the parent row.                                  *)
Nested_any(c, s) == {s.key} \cap Live(c)

Nested(c, s) ==
    {k \in {s.key} \cap Live(c) : Current(c)[k].up = s.up /\ Current(c)[k].val \in s.rule}

NewKeys(s) ==
    [j \in DOMAIN s.ups |-> <<s.table, IF s.pk = <<>> THEN <<serial + j>> ELSE s.pk>>]

Writes(c, s) ==
    CASE s.do = "update" -> [k \in Venues(c, s.where) |-> [val |-> s.set, up |-> Current(c)[k].up]]
      [] s.do = "delete" -> [k \in Venues(c, s.where) |-> Gone]
      [] s.do = "nestedUpdate" -> [k \in Nested(c, s) |-> [val |-> s.val, up |-> Current(c)[k].up]]
      [] s.do = "nestedDelete" -> [k \in Nested(c, s) |-> Gone]
      [] s.do = "insert" ->
           [k \in Range(NewKeys(s)) |->
              [val |-> s.val, up |-> s.ups[CHOOSE j \in DOMAIN s.ups : NewKeys(s)[j] = k]]]
      [] OTHER -> <<>>

(* Compares with ALL of the keys instead.                                    *)
EqAny_all(pk, keys) == \A i \in DOMAIN pk : \A key \in keys : pk[i] = key[i]

(* col1 = ANY(...) AND col2 = ANY(...): the keys are compared column by      *)
(* column.                                                                   *)
EqAny(pk, keys) == \A i \in DOMAIN pk : \E key \in keys : pk[i] = key[i]

Readable(read, val) == read = <<>> \/ val \in read[1]

(* A select reads rows as they are; one that comes WITH an update or a       *)
(* delete reads the rows as updated, or as they were.                        *)
Selected(c, s) ==
    CASE s.do = "filter" -> {k[2] : k \in {v \in Venues(c, s.allow) : EqAny(v[2], s.keys)}}
      [] s.do = "select" ->
           {k[2] : k \in {l \in Live(c) : /\ l[1] = s.table /\ EqAny(l[2], s.keys)
                                         /\ Readable(s.read, Current(c)[l].val)}}
      [] OTHER ->
           {k[2] : k \in {v \in Venues(c, s.where) :
              Readable(s.read, IF s.do = "update" THEN s.set ELSE Current(c)[v].val)}}

Matches(c, s) == {<<"venues", k[2]>> : k \in Venues(c, s.where)}

Returned(c, s) ==
    CASE s.do \in {"nestedUpdate", "nestedDelete"} -> <<>>       \* RETURNING nothing
      [] s.do = "insert" -> [j \in DOMAIN s.ups |-> NewKeys(s)[j][2]]
      [] OTHER -> SetToSeq(Selected(c, s))

(* A row the other has written; a new reference to a row the other deletes;  *)
(* a deletion of a row the other refers to.                                  *)
WaitsFor(c, d) ==
    /\ at[c] = "run"
    /\ LET writes == Writes(c, Head(pending[c])) IN
       \E k \in DOMAIN writes :
         \/ k \in DOMAIN work[d]
         \/ writes[k].up \in DOMAIN work[d] /\ work[d][writes[k].up] = Gone
         \/ writes[k] = Gone /\ \E x \in DOMAIN work[d] : work[d][x].up = k
Waits(c) == \E d \in Clients \ {c} : WaitsFor(c, d)

Violates(c, s) ==
    LET writes == Writes(c, s)
        after == Over(writes, Current(c))
        live == {k \in DOMAIN after : after[k] # Gone}
    IN  \/ s.do = "insert" /\ DOMAIN writes \cap Live(c) # {}
        \/ \E k \in DOMAIN writes \cap live : after[k].up # <<>> /\ after[k].up \notin live
        \/ \E k \in DOMAIN writes \ live : \E x \in live : after[x].up = k

(***************************************************************************)
(* execute_transaction_script.                                             *)
(***************************************************************************)
receive(c) ==
    /\ at[c] = "idle"
    /\ \E r \in Requests, user \in Users :
         LET m == abstract_operation(r, user) IN
         /\ Authorized(r, user)
         /\ mutation' = [mutation EXCEPT ![c] = m]
         /\ script' = [script EXCEPT ![c] = to_transaction_script(m)]
    /\ at' = [at EXCEPT ![c] = "next"]
    /\ UNCHANGED <<db, serial, results, pending, work, matched, admitted>>

(* What the rules say of the data of a create or an update is decided        *)
(* elsewhere.                                                                *)
refuse(c) ==
    /\ at[c] = "idle"
    /\ \E r \in Requests, user \in Users : r.kind # "delete" \/ ~Authorized(r, user)
    /\ at' = [at EXCEPT ![c] = "failed"]
    /\ UNCHANGED <<db, serial, mutation, script, results, pending, work, matched, admitted>>

next_step(c) ==
    LET n == Len(results[c]) + 1
        step == script[c][n]
        statements == resolve(step, results[c])
    IN  /\ at[c] = "next" /\ n <= Len(script[c])
        /\ ~Panics(step, results[c])
        /\ pending' = [pending EXCEPT ![c] = statements]
        /\ results' = [results EXCEPT ![c] = IF statements = <<>> THEN Append(@, <<>>) ELSE @]
        /\ at' = [at EXCEPT ![c] = IF statements = <<>> THEN "next" ELSE "run"]
        /\ UNCHANGED <<db, serial, mutation, script, work, matched, admitted>>

panic(c) ==
    /\ at[c] = "next" /\ Len(results[c]) < Len(script[c])
    /\ Panics(script[c][Len(results[c]) + 1], results[c])
    /\ at' = [at EXCEPT ![c] = "panicked"]
    /\ UNCHANGED <<db, serial, mutation, script, results, pending, work, matched, admitted>>

(* Does not notice the end of a step.                                        *)
Done_endless(c, rows) ==
    /\ pending' = [pending EXCEPT ![c] = Tail(@)]
    /\ results' = [results EXCEPT ![c] = Append(@, rows)]
    /\ UNCHANGED at

(* The result of the last statement of a step is the result of the step.     *)
Done(c, rows) ==
    /\ pending' = [pending EXCEPT ![c] = Tail(@)]
    /\ results' = [results EXCEPT ![c] = IF Len(pending[c]) = 1 THEN Append(@, rows) ELSE @]
    /\ at' = [at EXCEPT ![c] = IF Len(pending[c]) = 1 THEN "next" ELSE "run"]

Fail(c) ==
    /\ at' = [at EXCEPT ![c] = "failed"]
    /\ UNCHANGED <<db, serial, mutation, script, results, pending, work, matched, admitted>>

(* What a precheck finds is decided elsewhere.                               *)
precheck(c) ==
    /\ at[c] = "run" /\ Head(pending[c]).do = "precheck"
    /\ \/ Done(c, <<<<"true">>>>)
          /\ UNCHANGED <<db, serial, mutation, script, work, matched, admitted>>
       \/ Fail(c)

run_query(c) ==
    LET s == Head(pending[c])
    IN  /\ at[c] = "run" /\ s.do # "precheck"
        /\ ~Waits(c) /\ ~Violates(c, s)
        /\ work' = [work EXCEPT ![c] = Over(Writes(c, s), @)]
        /\ serial' = IF s.do = "insert" /\ s.pk = <<>> THEN serial + Len(s.ups) ELSE serial
        /\ Done(c, Returned(c, s))
        /\ matched' = [matched EXCEPT ![c] =
              IF s.do \in {"rootSelect", "update", "delete"} THEN @ \cup Matches(c, s)
              ELSE IF s.do = "insert" /\ s.table = "venues" THEN @ \cup Range(NewKeys(s))
              ELSE @]
        /\ admitted' = [admitted EXCEPT ![c] =
              IF s.do = "filter" THEN matched[c] \cap Venues(c, s.allow) ELSE @]
        /\ UNCHANGED <<db, mutation, script>>

violation(c) ==
    /\ at[c] = "run" /\ Head(pending[c]).do # "precheck"
    /\ ~Waits(c) /\ Violates(c, Head(pending[c]))
    /\ Fail(c)

(* Two transactions that wait for each other: PostgreSQL fails one.          *)
deadlock(c) ==
    /\ \E d \in Clients \ {c} : WaitsFor(c, d) /\ WaitsFor(d, c)
    /\ Fail(c)

(* The last result is the answer, and the transaction is committed; after an *)
(* error it is rolled back, after a panic it ends with its connection (what  *)
(* happens if that is pooled is RequestTransaction's matter).                *)
finish(c) ==
    /\ \/ /\ at[c] = "next" /\ Len(results[c]) = Len(script[c])
          /\ db' = Current(c)
       \/ /\ at[c] \in {"failed", "panicked"}
          /\ UNCHANGED db
    /\ at' = [at EXCEPT ![c] = "done"]
    /\ work' = [work EXCEPT ![c] = <<>>]
    /\ mutation' = [mutation EXCEPT ![c] = NoMutation]           \* and all it kept is dropped
    /\ script' = [script EXCEPT ![c] = <<>>]
    /\ results' = [results EXCEPT ![c] = <<>>]
    /\ pending' = [pending EXCEPT ![c] = <<>>]
    /\ matched' = [matched EXCEPT ![c] = {}]
    /\ admitted' = [admitted EXCEPT ![c] = {}]
    /\ UNCHANGED serial

AllDone == (\A c \in Clients : at[c] = "done") /\ UNCHANGED vars

Init ==
    /\ db \in Databases
    /\ serial = Cardinality(DOMAIN db)
    /\ mutation = [c \in Clients |-> NoMutation]
    /\ script = [c \in Clients |-> <<>>]
    /\ results = [c \in Clients |-> <<>>]
    /\ pending = [c \in Clients |-> <<>>]
    /\ work = [c \in Clients |-> <<>>]
    /\ at = [c \in Clients |-> "idle"]
    /\ matched = [c \in Clients |-> {}]
    /\ admitted = [c \in Clients |-> {}]

Next ==
    \/ \E c \in Clients :
         \/ receive(c) \/ refuse(c) \/ next_step(c) \/ panic(c)
         \/ precheck(c) \/ run_query(c) \/ violation(c) \/ deadlock(c)
         \/ finish(c)
    \/ AllDone

Spec == Init /\ [][Next]_vars

(***************************************************************************)
(* The properties.                                                         *)
(***************************************************************************)

(* The variables hold what their comments say; a step that is being run has  *)
(* a statement left, and every reference in the tables is to a row.          *)
TypeOK ==
    /\ Intact(db)
    /\ \A c \in Clients :
         /\ at[c] \in {"idle", "next", "run", "failed", "panicked", "done"}
         /\ Len(results[c]) <= Len(script[c])
         /\ at[c] = "run" => pending[c] # <<>> /\ Len(results[c]) < Len(script[c])
         /\ admitted[c] \subseteq matched[c]

Complete(c) == at[c] = "next" /\ script[c] # <<>> /\ Len(results[c]) = Len(script[c])
New(c) == {k \in DOMAIN work[c] \cap Live(c) : k \notin DOMAIN db \/ db[k] = Gone}
Below(c, k) == {x \in New(c) : work[c][x].up = k}

(* Nested data goes where the mutation says: when the script has run, each   *)
(* venue that the update matched and the rule admits has one new concert per *)
(* `create', each with its artists, no other row got one, and a created      *)
(* venue has the rows nested in it (the step ids that insert_row and         *)
(* TemplateInsert::resolve pass on, across prechecks and several parents).   *)
CreatesInPlace ==
    \A c \in Clients : Complete(c) =>
        LET m == mutation[c]
            Concerts == {k \in New(c) : k[1] = "concerts"}
            Like(v, val) == {k \in Concerts : work[c][k].up = v /\ work[c][k].val = val}
        IN  /\ m.kind = "update" /\ m.nested =>
                 /\ \A k \in Concerts : work[c][k].up \in admitted[c]
                 /\ \A v \in admitted[c], i \in DOMAIN m.creates :
                      LET val == m.creates[i].rows[1].val IN
                      /\ Cardinality(Like(v, val)) =
                         Cardinality({j \in DOMAIN m.creates : m.creates[j].rows[1].val = val})
                      /\ \A k \in Like(v, val) :
                           Cardinality(Below(c, k)) = Len(m.creates[i].rows) - 1
            /\ m.kind = "create" => \A i \in DOMAIN m.rows : m.rows[i].table = "venues" =>
                 /\ <<"venues", m.rows[i].pk>> \in New(c)
                 /\ Cardinality(Below(c, <<"venues", m.rows[i].pk>>)) =
                    Cardinality({j \in DOMAIN m.rows : m.rows[j].up = i})

(* A nested update or delete reaches only the concerts that the input names, *)
(* that hang from a venue the mutation matched and that the user's rule for  *)
(* concerts admits, also when the input names a concert of another venue or  *)
(* the other request has just changed it (the predicates that                *)
(* compute_nested_update_object_arg, TemplateUpdate and TemplateDelete put   *)
(* together for each row).                                                   *)
TouchesOwnOnly ==
    [][\A c \in Clients : \A k \in DOMAIN work'[c] \cap Live(c) :
         LET m == mutation[c]
             row == Current(c)[k]
         IN  k[1] = "concerts" /\ work'[c][k] # row =>
               /\ row.up \in matched[c]
               /\ \E n \in Range(m.updates) \cup Range(m.deletes) :
                    n.id = k[2] /\ row.val \in n.rule]_vars

(* The answer is about what the mutation was about: when the script has run, *)
(* it has exactly those of the venues that were created, matched or deleted  *)
(* that are there (a delete: were there) and that the user may read, as they *)
(* are by then, whatever the nested steps and other requests did ("`pk IN    *)
(* (update_pk1, update_pk2, ...)`", multi_statement_strategy.rs, and "add    *)
(* access-control predicates in `compute_select`", postgres_mutation.rs).    *)
AnswersMatched ==
    [][\A c \in Clients : ~Complete(c) /\ Complete(c)' =>
         LET read == mutation[c].read
             Shown(k) == IF mutation[c].kind = "delete" THEN Current(c)[k].val \in read
                         ELSE k \in Live(c)' /\ Current(c)'[k].val \in read
         IN  {<<"venues", k>> : k \in Range(Last(results'[c]))} =
             {k \in matched'[c] : Shown(k)}]_vars
=============================================================================
