------------------------------ MODULE Catalog ------------------------------
(***************************************************************************)
(* The catalog of the PostgreSQL database that migrations run against: for *)
(* each statement a migration contains, when PostgreSQL refuses it and     *)
(* what it does otherwise, the implicit drops included.  External to the   *)
(* repository.  Refusals that depend on the rows (a NOT NULL column added  *)
(* to a table that has some, duplicates under a new unique constraint) are *)
(* left to the caller, which lets any migration be refused.                *)
(***************************************************************************)
EXTENDS SchemaSpec

EmptyCatalog == [tables |-> <<>>, enums |-> <<>>, functions |-> <<>>,
                 seqs |-> {}, extensions |-> {}, schemas |-> {"public"}]

Without(f, S) == [x \in DOMAIN f \ S |-> f[x]]
With(f, x, v) == [y \in DOMAIN f \cup {x} |-> IF y = x THEN v ELSE f[y]]

Has(db, t, c)  == t \in DOMAIN db.tables /\ c \in DOMAIN db.tables[t].cols
Pk(db, t)      == {c \in DOMAIN db.tables[t].cols : db.tables[t].cols[c].pk}
Referred(db, t) == \E u \in DOMAIN db.tables : \E c \in Range(db.tables[u].cols) :
                      \E r \in c.refs : r.table = t
Indices(db, schema) == UNION {DOMAIN db.tables[t].indices :
                         t \in {u \in DOMAIN db.tables : u[1] = schema}}
Constraints(db, t) == DOMAIN named_unique_constraints(db.tables[t].cols)

(* The type and the default of a column exist. *)
Known(db, col) ==
    /\ col.typ \in Enums => col.typ \in DOMAIN db.enums
    /\ col.typ \in Extensions => col.typ \in db.extensions
    /\ col.default \in Seqs => col.default \in db.seqs

(* A dropped column takes its indices, its unique constraints, its foreign *)
(* keys and, when it belongs to it, the primary key along.                 *)
LoseColumns(table, S) ==
    LET lost  == Keep(table.cols, S)
        names == UNION {c.uniques : c \in Range(lost)}
        keys  == {r.group : r \in UNION {c.refs : c \in Range(lost)}}
        nopk  == \E c \in Range(lost) : c.pk
    IN  IF S = {} THEN table
        ELSE [table EXCEPT
           !.cols = [c \in DOMAIN table.cols \ S |->
                       [table.cols[c] EXCEPT !.uniques = @ \ names,
                                             !.refs = {r \in @ : r.group \notin keys},
                                             !.pk = @ /\ ~nopk]],
           !.indices = Keep(@, {i \in DOMAIN @ : @[i] \cap S = {}})]

(* A dropped table takes the foreign keys of others that refer to it along.*)
WithoutReferences(table, S) ==
    IF \A c \in Range(table.cols) : \A r \in c.refs : r.table \notin S THEN table
    ELSE [table EXCEPT !.cols = [c \in DOMAIN table.cols |->
        [table.cols[c] EXCEPT !.refs = {r \in @ : r.table \notin S}]]]

LoseTables(tables, S) ==
    [t \in DOMAIN tables \ S |-> WithoutReferences(tables[t], S)]

(* The references to a table follow when it is renamed. *)
RenamedReferences(table, t, u) ==
    IF \A c \in Range(table.cols) : \A r \in c.refs : r.table # t THEN table
    ELSE [table EXCEPT !.cols = [c \in DOMAIN table.cols |->
        [table.cols[c] EXCEPT !.refs = {[r EXCEPT !.table = IF @ = t THEN u ELSE @] : r \in @}]]]

MoveTable(tables, t, u) ==
    [x \in (DOMAIN tables \ {t}) \cup {u} |->
        RenamedReferences(tables[IF x = u THEN t ELSE x], t, u)]

(* A column as ADD COLUMN and CREATE TABLE leave it: its constraints come  *)
(* later, and a primary key is not nullable.                               *)
Bare(col, born) ==
    [col EXCEPT !.uniques = {}, !.refs = {}, !.born = born, !.nullable = @ /\ ~col.pk]

(* RENAME TO takes a name without a schema: the table stays in its own,    *)
(* and a qualified name is a syntax error.                                 *)
Landing(s) == <<s.t[1], s.n[2]>>

Refuses(db, s) ==
    LET t == s.t  n == s.n
        table == db.tables[t]
        missing == t \notin DOMAIN db.tables
    IN
    CASE s.op = "DeleteSequence"  -> n \in {c.default : c \in Columns(db.tables)}
      [] s.op = "RemoveExtension" -> n \in {c.typ : c \in Columns(db.tables)}
      [] s.op = "CreateEnum"      -> n \in DOMAIN db.enums
      [] s.op = "DeleteEnum"      -> n \notin DOMAIN db.enums
      [] s.op = "CreateTable"     -> \/ ~missing
                                     \/ t[1] \notin db.schemas
                                     \/ \E c \in Range(s.v.cols) : ~Known(db, c)
      [] s.op = "DeleteTable"     -> missing
      [] s.op = "RenameTable"     -> \/ missing
                                     \/ Landing(s) \in DOMAIN db.tables
                                     \/ n[1] # "public"
      (* a name without a schema: the sequence is looked for in "public" *)
      [] s.op = "RenameSequence"  -> t[1] # "public" \/ ~Has(db, <<t[1], s.v[2]>>, n)
      [] s.op = "CreateColumn"    -> \/ missing \/ Has(db, t, n)
                                     \/ ~Known(db, s.v)
                                     \/ s.v.pk /\ Pk(db, t) # {}
      [] s.op = "DeleteColumn"    -> ~Has(db, t, n) \/ (n \in Pk(db, t) /\ Referred(db, t))
      [] s.op = "CreateIndex"     -> \/ missing \/ n \in Indices(db, t[1])
                                     \/ ~(s.v \subseteq DOMAIN table.cols)
      [] s.op = "DeleteIndex"     -> n \notin Indices(db, "public")
      [] s.op \in {"SetColumnDefaultValue", "UnsetColumnDefaultValue",
                   "SetNotNull", "UnsetNotNull"}
                                  -> ~Has(db, t, n) \/ (n \in Pk(db, t) /\ s.op = "UnsetNotNull")
      [] s.op = "CreateUniqueConstraint" ->
             missing \/ n \in Constraints(db, t) \/ ~(s.v \subseteq DOMAIN table.cols)
      [] s.op = "RemoveUniqueConstraint" -> missing
      [] s.op = "DropUniqueConstraint"   -> missing \/ n \notin Constraints(db, t)
      [] s.op = "CreateForeignKeyReference" ->
             \/ missing
             \/ \E c \in s.v.cols : ~Has(db, t, c)
             \/ s.v.table \notin DOMAIN db.tables
             \/ <<t, n[2]>> \in DOMAIN foreign_key_references(table.cols)
             \/ {db.tables[s.v.table].cols[c].typ : c \in Pk(db, s.v.table)}
                  # {table.cols[c].typ : c \in s.v.cols}
      [] s.op = "CreateFunction"  -> n \in DOMAIN db.functions
      [] s.op = "DeleteFunction"  -> \/ n \notin DOMAIN db.functions
                                     \/ \E u \in DOMAIN db.tables : n \in db.tables[u].triggers
      [] s.op = "CreateTrigger"   -> missing \/ n \in table.triggers \/ n \notin DOMAIN db.functions
      [] s.op = "DeleteTrigger"   -> missing \/ n \notin table.triggers
      [] OTHER -> FALSE

(* Statements that alter one table, and the table they make of it; tick    *)
(* dates the data of new columns.                                          *)
TableStatements ==
    {"CreateColumn", "DeleteColumn", "CreateIndex", "SetColumnDefaultValue",
     "UnsetColumnDefaultValue", "SetNotNull", "UnsetNotNull", "CreateUniqueConstraint",
     "RemoveUniqueConstraint", "DropUniqueConstraint", "CreateForeignKeyReference",
     "CreateTrigger", "DeleteTrigger"}

(* Constraint n, if any columns are left to it, is on the columns cols. *)
Unique(table, n, cols) ==
    [table EXCEPT !.cols = [c \in DOMAIN table.cols |->
        [table.cols[c] EXCEPT !.uniques = IF c \in cols THEN @ \cup {n} ELSE @ \ {n}]]]

Altered(table, s, tick) ==
    LET n == s.n
        Column(col) == [table EXCEPT !.cols = [table.cols EXCEPT ![n] = col]]
        col == table.cols[n]
    IN
    CASE s.op = "CreateColumn" ->
             [table EXCEPT !.cols = With(@, n, Bare(s.v, <<tick, s.t, n>>))]
      [] s.op = "DeleteColumn"            -> LoseColumns(table, {n})
      [] s.op = "CreateIndex"             -> [table EXCEPT !.indices = With(@, n, s.v)]
      [] s.op = "SetColumnDefaultValue"   -> Column([col EXCEPT !.default = s.v.default])
      [] s.op = "UnsetColumnDefaultValue" -> Column([col EXCEPT !.default = "none"])
      [] s.op = "SetNotNull"              -> Column([col EXCEPT !.nullable = FALSE])
      [] s.op = "UnsetNotNull"            -> Column([col EXCEPT !.nullable = TRUE])
      [] s.op = "CreateUniqueConstraint"  -> Unique(table, n, s.v)
      [] s.op \in {"RemoveUniqueConstraint", "DropUniqueConstraint"} -> Unique(table, n, {})
      [] s.op = "CreateForeignKeyReference" ->
             [table EXCEPT !.cols = [c \in DOMAIN table.cols |->
                 IF c \in s.v.cols
                 THEN [table.cols[c] EXCEPT !.refs =
                         @ \cup {[group |-> <<s.t, n[2]>>, table |-> s.v.table]}]
                 ELSE table.cols[c]]]
      [] s.op = "CreateTrigger"           -> [table EXCEPT !.triggers = @ \cup {n}]
      [] s.op = "DeleteTrigger"           -> [table EXCEPT !.triggers = @ \ {n}]

(* The tables after a statement that is not refused. *)
Tables(tables, s, tick) ==
    LET t == s.t  n == s.n IN
    CASE s.op \in TableStatements -> [tables EXCEPT ![t] = Altered(@, s, tick)]
      [] s.op = "DeleteSchema"    -> LoseTables(tables, {u \in DOMAIN tables : u[1] = n})
      [] s.op = "DeleteEnum"      ->
             [u \in DOMAIN tables |->
                LoseColumns(tables[u], {c \in DOMAIN tables[u].cols : tables[u].cols[c].typ = n})]
      [] s.op = "CreateTable"     ->
             With(tables, t,
                  [managed |-> TRUE, indices |-> <<>>, triggers |-> {},
                   cols |-> [c \in DOMAIN s.v.cols |-> Bare(s.v.cols[c], <<tick, t, c>>)]])
      [] s.op = "DeleteTable"     -> LoseTables(tables, {t})
      [] s.op = "RenameTable"     -> MoveTable(tables, t, Landing(s))
      [] s.op = "DeleteIndex"     ->
             [u \in DOMAIN tables |->
                IF u[1] = "public" THEN [tables[u] EXCEPT !.indices = Without(@, {n})]
                ELSE tables[u]]
      [] OTHER -> tables

(* The rest of the catalog. *)
Effect(db, s, tick) ==
    LET n == s.n IN
    [tables     |-> Tables(db.tables, s, tick),
     enums      |-> CASE s.op = "CreateEnum" -> With(db.enums, n, s.v)
                      [] s.op = "DeleteEnum" -> Without(db.enums, {n})
                      [] s.op = "DeleteSchema" -> Keep(db.enums, {e \in DOMAIN db.enums : e[1] # n})
                      [] OTHER -> db.enums,
     functions  |-> CASE s.op \in {"CreateFunction", "CreateOrReplaceFunction"} ->
                           With(db.functions, n, s.v)
                      [] s.op = "DeleteFunction" -> Without(db.functions, {n})
                      [] OTHER -> db.functions,
     seqs       |-> CASE s.op = "CreateSequence" -> db.seqs \cup {n}
                      [] s.op = "DeleteSequence" -> db.seqs \ {n}
                      [] OTHER -> db.seqs,
     extensions |-> CASE s.op = "CreateExtension" -> db.extensions \cup {n}
                      [] s.op = "RemoveExtension" -> db.extensions \ {n}
                      [] OTHER -> db.extensions,
     schemas    |-> CASE s.op = "CreateSchema" -> db.schemas \cup {n}
                      [] s.op = "DeleteSchema" -> db.schemas \ {n}
                      [] OTHER -> db.schemas]

(* The next statement of a transaction, after which it is refused or not. *)
Executed(before, s, tick) ==
    IF ~before.ok \/ Refuses(before.db, s) THEN [db |-> before.db, ok |-> FALSE]
    ELSE [db |-> Effect(before.db, s, tick), ok |-> TRUE]

(* The statements of one transaction, up to the first that is refused. *)
Run(db, stmts, tick) ==
    LET ran[i \in 0..Len(stmts)] ==
          IF i = 0 THEN [db |-> db, ok |-> TRUE] ELSE Executed(ran[i - 1], stmts[i], tick)
    IN  ran[Len(stmts)]
=============================================================================
