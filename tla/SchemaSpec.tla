----------------------------- MODULE SchemaSpec -----------------------------
(***************************************************************************)
(* What a migration does to a schema, as pure operators: the difference    *)
(* between the schema read from the database and the schema a model needs  *)
(* (libs/exo-sql/pg-schema), the statements of that difference, and what   *)
(* the differences mean to `exo schema verify`.                            *)
(*                                                                         *)
(* A DatabaseSpec is a record                                              *)
(*   tables     name -> [managed, cols, indices, triggers]                 *)
(*   enums      name -> variants                                           *)
(*   functions  name -> body                                               *)
(* where a column is [typ, pk, nullable, default, uniques, refs, born].    *)
(* The catalog of a live database has the same shape and three more        *)
(* fields (seqs, extensions, schemas).  Names:                             *)
(*  - tables and enums have a SchemaObjectName, here <<schema, name>>, and *)
(*    so has every type; the schema of those that are built in is "";      *)
(*  - a trigger and its function are named after the table they were made  *)
(*    for (exograph_on_update_T, exograph_update_T), so both are a table   *)
(*    name here;                                                           *)
(*  - a foreign key's group is <<<<>>, g>> in a model; in the database it  *)
(*    is read back as the name of the constraint, T_g_fk, here <<T, g>>;   *)
(*  - a default is "none", "serial" (which has no DEFAULT clause), the     *)
(*    name of a sequence, or a value;                                      *)
(*  - `born' identifies the data of a live column; no comparison reads it. *)
(***************************************************************************)
EXTENDS Integers, Sequences, FiniteSets, SequencesExt

CONSTANTS
    Enums,       \* names of enum types
    Seqs,        \* names of explicit sequences
    Extensions   \* names of types that an extension provides

Ordered(S) == SetToSeq(S)
Each(f) ==
    LET s == Ordered({x \in DOMAIN f : f[x] # <<>>})
    IN  FlattenSeq([i \in DOMAIN s |-> f[s[i]]])
Keep(f, S) == [x \in DOMAIN f \cap S |-> f[x]]
Op(op, t, n, v) == [op |-> op, t |-> t, n |-> n, v |-> v]

(* The spec of a model: a table with columns to keep in sync on update     *)
(* gets a trigger and its function.                                        *)
from_database(model) ==
    LET synced == {t \in DOMAIN model.tables : model.tables[t].sync # {}}
    IN  [tables    |-> [t \in DOMAIN model.tables |->
                          [managed  |-> model.tables[t].managed,
                           cols     |-> model.tables[t].cols,
                           indices  |-> model.tables[t].indices,
                           triggers |-> {t} \cap synced]],
         enums     |-> model.enums,
         functions |-> [t \in synced |-> model.tables[t].sync]]

-----------------------------------------------------------------------------
(* Scope: the schemas a migration looks at. *)

required_schemas(tables) ==
    {t[1] : t \in {u \in DOMAIN tables : tables[u].managed}} \ {"public"}

from_specs_schemas(new) ==
    required_schemas(new.tables)
      \cup {s \in {"public"} : \E t \in DOMAIN new.tables : t[1] = s}

(* Mutant: the scope is computed but not applied. *)
InScope_everything(f, scope) == f

InScope(f, scope) == Keep(f, {x \in DOMAIN f : x[1] \in scope})

(* The triggers found for a table: the query compares the bare name of a   *)
(* trigger's table with the qualified name of this one, so it finds none   *)
(* outside "public" and, in it, also those of namesakes in other schemas.  *)
TriggersRead(tables, t) ==
    UNION {tables[u].triggers : u \in {v \in DOMAIN tables : t = <<"public", v[2]>>}}

(* The schema of a live database as a migration reads it: tables and enums *)
(* of the scope, and every function of Exograph whatever its table.        *)
from_live_database(db, scope) ==
    [tables    |-> [t \in DOMAIN InScope(db.tables, scope) |->
                      [db.tables[t] EXCEPT !.triggers = TriggersRead(db.tables, t)]],
     enums     |-> InScope(db.enums, scope),
     functions |-> db.functions]

(* Reading is an error when a table of the scope refers to one outside it. *)
Readable(db, scope) ==
    \A t \in DOMAIN InScope(db.tables, scope) : \A c \in Range(db.tables[t].cols) :
        \A r \in c.refs : r.table[1] \in scope

-----------------------------------------------------------------------------
(* What the tables of a spec need besides themselves. *)

Columns(tables) == UNION {Range(tables[t].cols) : t \in DOMAIN tables}
Managed(tables) == Keep(tables, {t \in DOMAIN tables : tables[t].managed})

(* Mutant: the sequence of a default is taken to exist. *)
required_sequences_none(tables) == {}

required_sequences(tables) == {c.default : c \in Columns(Managed(tables))} \cap Seqs
required_extensions(tables) == {c.typ : c \in Columns(tables)} \cap Extensions

named_unique_constraints(cols) ==
    [n \in UNION {cols[c].uniques : c \in DOMAIN cols} |->
        {c \in DOMAIN cols : n \in cols[c].uniques}]

foreign_key_references(cols) ==
    [g \in {r.group : r \in UNION {cols[c].refs : c \in DOMAIN cols}} |->
        {c \in DOMAIN cols : \E r \in cols[c].refs : r.group = g}]

has_single_pk(cols) == Cardinality({c \in DOMAIN cols : cols[c].pk}) = 1

-----------------------------------------------------------------------------
(* Differences of columns, indices, tables and whole databases. *)

differs_only_in_reference_column(old, new) ==
    /\ old.refs # {}
    /\ new.refs # {}
    /\ old.refs # new.refs
    /\ [old EXCEPT !.typ = "", !.refs = {}, !.born = 0] =
       [new EXCEPT !.typ = "", !.refs = {}, !.born = 0]

(* A column as its statement writes it: a primary key is part of it only   *)
(* when the column is all of the key, and NOT NULL is left out of a        *)
(* primary key either way.                                                 *)
column_to_sql(col, single) ==
    [col EXCEPT !.pk = @ /\ single, !.nullable = @ \/ (col.pk /\ ~single)]

(* Mutant: the name a reference is read back with counts as a change. *)
column_diff_by_group(t, c, old, new, single) ==
    IF [old EXCEPT !.born = 0, !.uniques = {}] # [new EXCEPT !.born = 0, !.uniques = {}]
    THEN <<Op("DeleteColumn", t, c, old), Op("CreateColumn", t, c, column_to_sql(new, single))>>
    ELSE <<>>

(* At most one kind of change is made at a time: a new column, else the    *)
(* nullability, else the default.                                          *)
column_diff(t, c, old, new, single) ==
    IF \/ (old.typ # new.typ \/ old.refs # new.refs)
             /\ ~differs_only_in_reference_column(old, new)
       \/ old.pk # new.pk
    THEN <<Op("DeleteColumn", t, c, old),
           Op("CreateColumn", t, c, column_to_sql(new, single))>>
    ELSE IF old.nullable # new.nullable
    THEN <<Op(IF new.nullable THEN "UnsetNotNull" ELSE "SetNotNull", t, c, old)>>
    ELSE IF old.default # new.default
    THEN <<Op(IF new.default \in {"none", "serial"} THEN "UnsetColumnDefaultValue"
                                      ELSE "SetColumnDefaultValue", t, c, new)>>
    ELSE <<>>

(* The index of `indices' that stands for index n on cols, by name or by   *)
(* what it covers.                                                         *)
SameIndex(indices, n, cols) ==
    {m \in DOMAIN indices : m = n \/ indices[m] = cols}

indices_diff(t, old, new) ==
    Each([n \in DOMAIN old |->
        LET same == SameIndex(new, n, old[n])
        IN  IF same = {} THEN <<Op("DeleteIndex", t, n, old[n])>>
            ELSE LET m == CHOOSE m \in same : TRUE
                 IN  IF new[m] = old[n] THEN <<>>
                     ELSE <<Op("DeleteIndex", t, n, old[n]),
                            Op("CreateIndex", t, m, new[m])>>])
    \o Each([n \in {m \in DOMAIN new : SameIndex(old, m, new[m]) = {}} |->
        <<Op("CreateIndex", t, n, new[n])>>])

matching_column_group(groups, n, cols) ==
    IF n \in DOMAIN groups THEN {groups[n]} ELSE {g \in Range(groups) : g = cols}

uniques_diff(t, old, new) ==
    Each([n \in {m \in DOMAIN old : matching_column_group(new, m, old[m]) = {}} |->
        <<Op("RemoveUniqueConstraint", t, n, {})>>])
    \o Each([n \in {m \in DOMAIN new : matching_column_group(old, m, new[m]) # {new[m]}} |->
        (IF matching_column_group(old, n, new[n]) = {} THEN <<>>
         ELSE <<Op("RemoveUniqueConstraint", t, n, {})>>)
        \o <<Op("CreateUniqueConstraint", t, n, new[n])>>])

triggers_diff(t, old, new) ==
    Each([n \in old \ new |-> <<Op("DeleteTrigger", t, n, {})>>])
    \o Each([n \in new \ old |-> <<Op("CreateTrigger", t, n, {})>>])

(* A reference is only ever added, and only when no reference of the table *)
(* stays within its columns.                                               *)
CreateReference(t, cols, g) ==
    LET members == foreign_key_references(cols)[g]
        c == CHOOSE c \in members : TRUE
    IN  Op("CreateForeignKeyReference", t, g,
           [cols |-> members, table |-> (CHOOSE r \in cols[c].refs : r.group = g).table])

references_diff(t, old, new) ==
    LET before == foreign_key_references(old)
        after  == foreign_key_references(new)
        added  == {g \in DOMAIN after \ DOMAIN before :
                      \A h \in DOMAIN before : ~(before[h] \subseteq after[g])}
    IN  Each([g \in added |-> <<CreateReference(t, new, g)>>])

columns_diff(t, old, new) ==
    Each([c \in DOMAIN old |->
        IF c \in DOMAIN new THEN column_diff(t, c, old[c], new[c], has_single_pk(new))
        ELSE <<Op("DeleteColumn", t, c, old[c])>>])
    \o Each([c \in DOMAIN new \ DOMAIN old |->
        <<Op("CreateColumn", t, c, column_to_sql(new[c], has_single_pk(new)))>>])

table_diff(t, old, new) ==
    IF ~new.managed THEN <<>>
    ELSE columns_diff(t, old.cols, new.cols)
         \o indices_diff(t, old.indices, new.indices)
         \o uniques_diff(t, named_unique_constraints(old.cols),
                            named_unique_constraints(new.cols))
         \o triggers_diff(t, old.triggers, new.triggers)
         \o references_diff(t, old.cols, new.cols)

(* An enum whose variants changed is created again, as it was. *)
enums_diff(old, new) ==
    Each([e \in DOMAIN old |->
        IF e \notin DOMAIN new THEN <<Op("DeleteEnum", "", e, old[e])>>
        ELSE IF old[e] # new[e] THEN <<Op("CreateEnum", "", e, old[e])>>
        ELSE <<>>])
    \o Each([e \in DOMAIN new \ DOMAIN old |-> <<Op("CreateEnum", "", e, new[e])>>])

tables_diff(old, new) ==
    Each([t \in DOMAIN old |->
        IF t \in DOMAIN new THEN table_diff(t, old[t], new[t])
        ELSE <<Op("DeleteTable", t, "", old[t])>>])
    \o Each([t \in DOMAIN Managed(new) \ DOMAIN old |-> <<Op("CreateTable", t, "", new[t])>>])

functions_diff(old, new) ==
    Each([f \in DOMAIN old |->
        IF f \notin DOMAIN new THEN <<Op("DeleteFunction", "", f, {})>>
        ELSE IF old[f] # new[f] THEN <<Op("CreateOrReplaceFunction", "", f, new[f])>>
        ELSE <<>>])
    \o Each([f \in DOMAIN new \ DOMAIN old |-> <<Op("CreateFunction", "", f, new[f])>>])

(* sort_by with a comparison that only orders a CreateFunction before a    *)
(* CreateTrigger.  The library sorts up to 20 elements by insertion, so a  *)
(* CreateFunction moves left past the CreateTriggers immediately before it *)
(* and no further.                                                         *)
insert_change(sorted, op) ==
    LET stop == CHOOSE i \in 0..Len(sorted) :
                  /\ \A j \in (i + 1)..Len(sorted) : sorted[j].op = "CreateTrigger"
                  /\ i = 0 \/ sorted[i].op # "CreateTrigger"
    IN  IF op.op # "CreateFunction" THEN Append(sorted, op)
        ELSE SubSeq(sorted, 1, stop) \o <<op>> \o SubSeq(sorted, stop + 1, Len(sorted))

sort_changes(changes) ==
    LET sorted[n \in 0..Len(changes)] ==
          IF n = 0 THEN <<>> ELSE insert_change(sorted[n - 1], changes[n])
    IN  sorted[Len(changes)]

Named(op, S) == Each([n \in S |-> <<Op(op, "", n, {})>>])

(* Tables and enums are cut to the scope; functions are not. *)
diff(old, new, scope) ==
    LET before == InScope(old.tables, scope)
        after  == InScope(new.tables, scope)
    IN  sort_changes(
            Named("CreateExtension", required_extensions(after) \ required_extensions(before))
            \o Named("CreateSchema", required_schemas(after) \ required_schemas(before))
            \o Named("CreateSequence", required_sequences(after) \ required_sequences(before))
            \o Named("DeleteSequence", required_sequences(before) \ required_sequences(after))
            \o enums_diff(InScope(old.enums, scope), InScope(new.enums, scope))
            \o tables_diff(before, after)
            \o functions_diff(old.functions, new.functions)
            \o Named("RemoveExtension", required_extensions(before) \ required_extensions(after))
            \o Named("DeleteSchema", required_schemas(before) \ required_schemas(after)))

-----------------------------------------------------------------------------
(* Statements.  A statement is a SchemaOp; one op may stand for several    *)
(* statements, some to be run before or after those of all the other ops.  *)

creation_sql(t, table) ==
    Each([n \in DOMAIN named_unique_constraints(table.cols) |->
        <<Op("CreateUniqueConstraint", t, n, named_unique_constraints(table.cols)[n])>>])
    \o Each([g \in DOMAIN foreign_key_references(table.cols) |->
        <<CreateReference(t, table.cols, g)>>])
    \o Each([n \in DOMAIN table.indices |-> <<Op("CreateIndex", t, n, table.indices[n])>>])
    \o Each([n \in table.triggers |-> <<Op("CreateTrigger", t, n, {})>>])

deletion_sql(t, table) ==
    Each([n \in DOMAIN named_unique_constraints(table.cols) |->
        <<Op("DropUniqueConstraint", t, n, {})>>])

to_sql(op) ==
    CASE op.op = "CreateTable" ->
            [pre |-> <<>>, main |-> <<op>>, post |-> creation_sql(op.t, op.v)]
      [] op.op = "DeleteTable" ->
            [pre |-> deletion_sql(op.t, op.v), main |-> <<op>>, post |-> <<>>]
      [] op.op \in {"CreateForeignKeyReference", "DeleteEnum"} ->
            [pre |-> <<>>, main |-> <<>>, post |-> <<op>>]
      [] OTHER -> [pre |-> <<>>, main |-> <<op>>, post |-> <<>>]

(* Mutant: dropping a column is not listed. *)
is_destructive_columns_apart(op) ==
    op.op \in {"DeleteSchema", "DeleteTable", "RemoveExtension", "DeleteEnum", "DeleteSequence"}

is_destructive(op) ==
    op.op \in {"DeleteSchema", "DeleteTable", "DeleteColumn", "RemoveExtension",
               "DeleteEnum", "DeleteSequence"}

(* The statements of an op; approved are the tables whose deletion the     *)
(* user has chosen.                                                        *)
Marked(stmts, op, approved) ==
    [i \in DOMAIN stmts |->
       [sql |-> stmts[i],
        destructive |-> is_destructive(op) /\ ~(op.op = "DeleteTable" /\ op.t \in approved)]]

from_diffs(ops, approved) ==
    LET phase(p) == FlattenSeq([i \in DOMAIN ops |-> Marked(to_sql(ops[i])[p], ops[i], approved)])
    IN  phase("pre") \o phase("main") \o phase("post")

(* Mutant: a missing index is taken for one too many. *)
error_string_indices(op) ==
    op.op \notin {"DeleteSchema", "DeleteSequence", "DeleteTable", "DeleteEnum",
                  "DeleteIndex", "RemoveExtension", "DeleteColumn", "CreateIndex"}

(* Does verify report this difference? *)
error_string(op) ==
    \/ op.op \notin {"DeleteSchema", "DeleteSequence", "DeleteTable", "DeleteEnum",
                     "DeleteIndex", "RemoveExtension", "DeleteColumn"}
    \/ op.op = "DeleteColumn" /\ ~op.v.nullable

verify(db, model) ==
    LET new   == from_database(model)
        scope == from_specs_schemas(new)
        ops   == diff(from_live_database(db, scope), new, scope)
    IN  Readable(db, scope) /\ \A i \in DOMAIN ops : ~error_string(ops[i])
=============================================================================
