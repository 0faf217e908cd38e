--------------------------- MODULE SchemaMigration ---------------------------
(***************************************************************************)
(* `exo schema migrate' and the other commands that change the schema of a *)
(* database, run by several processes against one database.  A command     *)
(* reads the schema, asks the user about tables that the model no longer   *)
(* has, makes a list of statements and runs it in one transaction.  The    *)
(* schema is not locked between reading and running: another command may   *)
(* have changed it in between.                                             *)
(***************************************************************************)
EXTENDS Catalog

CONSTANTS
    Procs,          \* processes that run commands
    Models,         \* the models the project has had, by name
    ModelOf,        \* name -> tables and enums
    FileNames,      \* names of models' tables that a file of interactions gives
    MaxMigrations,  \* bound on the successful migrations of a behaviour
    MaxCommands     \* bound on the commands of a behaviour

ASSUME BoundsAssumption == MaxMigrations \in Nat /\ MaxCommands \in Nat

VARIABLES
    db,        \* the catalog
    tick,      \* successful migrations so far
    commands,  \* commands started so far
    cmd,       \* process -> the command it runs
    streak     \* the model migrated to last and how many times in a row,
               \* each time from a schema read after the previous time

vars == <<db, tick, commands, cmd, streak>>

Idle == [at |-> "idle"]
NoModel == "none"
EmptyModel == [tables |-> <<>>, enums |-> <<>>]

SchemasOf(catalog) ==
    {t[1] : t \in DOMAIN catalog.tables} \cup catalog.schemas

(* Models are finite. *)
IsColumn(c) ==
    /\ DOMAIN c = {"typ", "pk", "nullable", "default", "uniques", "refs", "born"}
    /\ IsFiniteSet(c.uniques)
    /\ IsFiniteSet(c.refs)
    /\ \A r \in c.refs : DOMAIN r = {"group", "table"}

ASSUME ModelsAssumption ==
    /\ NoModel \notin Models
    /\ \A m \in Models :
          /\ IsFiniteSet(DOMAIN ModelOf[m].tables)
          /\ IsFiniteSet(DOMAIN ModelOf[m].enums)
          /\ \A t \in DOMAIN ModelOf[m].tables :
                /\ t = <<t[1], t[2]>>
                /\ IsFiniteSet(DOMAIN ModelOf[m].tables[t].cols)
                /\ IsFiniteSet(DOMAIN ModelOf[m].tables[t].indices)
                /\ \A c \in DOMAIN ModelOf[m].tables[t].cols : IsColumn(ModelOf[m].tables[t].cols[c])

(* A table that is renamed keeps its schema (Landing). *)
ModelNames == UNION {DOMAIN ModelOf[m].tables : m \in Models}
TableNames == {<<t[1], u[2]>> : t \in ModelNames, u \in ModelNames}

ASSUME FileNamesAssumption == FileNames \subseteq ModelNames

-----------------------------------------------------------------------------
(* Making the list of statements. *)

OpTables(ops, name) == {ops[i].t : i \in {j \in DOMAIN ops : ops[j].op = name}}

(* DatabaseSpec::with_table_renamed: the table gets its new name and every *)
(* reference to it follows ...                                             *)
with_table_renamed(spec, t, u) ==
    IF t \notin DOMAIN spec.tables THEN spec
    ELSE [spec EXCEPT !.tables = MoveTable(@, t, u)]

(* ... with the ops it returns: the sequences of serial columns, which are *)
(* named after the table, are renamed as well.                             *)
rename_ops(spec, t, u) ==
    IF t \notin DOMAIN spec.tables THEN <<>>
    ELSE LET cols == spec.tables[t].cols
         IN  <<Op("RenameTable", t, u, {})>>
             \o Each([c \in {k \in DOMAIN cols : cols[k].default = "serial"} |->
                       <<Op("RenameSequence", t, c, u)>>])

Renames(actions) == {a \in Range(actions) : a.do = "rename"}
Deleted(actions) == {a.t : a \in {b \in Range(actions) : b.do = "delete"}}

(* The renames come first; what is left is compared with the model. *)
apply_table_actions(old, new, actions, scope) ==
    LET renamed[n \in 0..Len(actions)] ==
          IF n = 0 THEN old
          ELSE IF actions[n].do = "rename"
          THEN with_table_renamed(renamed[n - 1], actions[n].t, actions[n].to)
          ELSE renamed[n - 1]
        ops == FlattenSeq([i \in DOMAIN actions |->
                 IF actions[i].do = "rename"
                 THEN rename_ops(renamed[i - 1], actions[i].t, actions[i].to) ELSE <<>>])
    IN  from_diffs(ops \o diff(renamed[Len(actions)], new, scope), Deleted(actions))

(* Mutant: tables the user has been asked about are not left out. *)
delete_tables_again(old, new, actions, scope) ==
    OpTables(diff(old, new, scope), "DeleteTable")

(* Tables that get_table_actions still has to ask about, and the new       *)
(* tables that are not yet the target of a rename.                         *)
delete_tables(old, new, actions, scope) ==
    OpTables(diff(old, new, scope), "DeleteTable") \ {a.t : a \in Range(actions)}

create_tables(old, new, actions, scope) ==
    OpTables(diff(old, new, scope), "CreateTable") \ {a.to : a \in Renames(actions)}

(* The prompt offers the latter; a file of predefined interactions may     *)
(* give any other.  (A name that the database has a table of is refused    *)
(* when the table is renamed.)                                             *)
rename_targets(old, new, actions, scope) ==
    create_tables(old, new, actions, scope) \cup (FileNames \ DOMAIN old.tables)

-----------------------------------------------------------------------------
(* The commands. *)

Start(p) == cmd[p].at = "idle" /\ commands < MaxCommands /\ commands' = commands + 1

(* A command whose list is made: nothing to do, or ready to run it. *)
Planned(m, stmts, permit, actions, base) ==
    IF stmts = <<>> THEN Idle
    ELSE [at |-> "ready", model |-> m, plan |-> stmts, permit |-> permit,
          actions |-> actions, base |-> base]

(* exo schema migrate --non-interactive, exo yolo and exo dev (which run   *)
(* it with all changes allowed once the user agrees): read and plan.  An   *)
(* error of the reading ends the command.                                  *)
from_db_and_model(p, m, permit) ==
    /\ Start(p)
    /\ LET new   == from_database(ModelOf[m])
           scope == from_specs_schemas(new)
           old   == from_live_database(db, scope)
       IN  cmd' = [cmd EXCEPT ![p] =
              IF Readable(db, scope)
              THEN Planned(m, from_diffs(diff(old, new, scope), {}), permit, <<>>, tick)
              ELSE Idle]
    /\ UNCHANGED <<db, tick, streak>>

(* exo schema migrate: read, then ask. *)
migrate_interactively(p, m, permit) ==
    /\ Start(p)
    /\ LET scope == from_specs_schemas(from_database(ModelOf[m]))
       IN  cmd' = [cmd EXCEPT ![p] =
              IF Readable(db, scope)
              THEN [at |-> "asking", model |-> m, old |-> from_live_database(db, scope),
                    permit |-> permit, actions |-> <<>>, base |-> tick]
              ELSE Idle]
    /\ UNCHANGED <<db, tick, streak>>

(* One table at a time: the user keeps it, deletes it or says which table  *)
(* it has become.                                                          *)
handle_table_delete(p) ==
    /\ cmd[p].at = "asking"
    /\ LET k     == cmd[p]
           new   == from_database(ModelOf[k.model])
           scope == from_specs_schemas(new)
           asked == delete_tables(k.old, new, k.actions, scope)
           Add(a) == cmd' = [cmd EXCEPT ![p].actions = Append(@, a)]
       IN  /\ asked # {}
           /\ LET t == Head(Ordered(asked))
              IN  \/ Add([do |-> "defer", t |-> t, to |-> t])
                  \/ Add([do |-> "delete", t |-> t, to |-> t])
                  \/ \E u \in rename_targets(k.old, new, k.actions, scope) :
                        Add([do |-> "rename", t |-> t, to |-> u])
    /\ UNCHANGED <<db, tick, commands, streak>>

finish_asking(p) ==
    /\ cmd[p].at = "asking"
    /\ LET k     == cmd[p]
           new   == from_database(ModelOf[k.model])
           scope == from_specs_schemas(new)
       IN  /\ delete_tables(k.old, new, k.actions, scope) = {}
           /\ cmd' = [cmd EXCEPT ![p] =
                 Planned(k.model, apply_table_actions(k.old, new, k.actions, scope),
                         k.permit, k.actions, k.base)]
    /\ UNCHANGED <<db, tick, commands, streak>>

(* The user leaves a prompt, or the process is stopped before it commits;  *)
(* the same for a list that is written to a file and not run.              *)
abandon(p) ==
    /\ cmd[p].at # "idle"
    /\ cmd' = [cmd EXCEPT ![p] = Idle]
    /\ UNCHANGED <<db, tick, commands, streak>>

(* wipe_database: migrate everything to nothing. *)
wipe_database(p) ==
    /\ Start(p)
    /\ LET old == from_live_database(db, SchemasOf(db))
           none == from_database(EmptyModel)
       IN  cmd' = [cmd EXCEPT ![p] =
              Planned(NoModel, from_diffs(diff(old, none, SchemasOf(db)), {}), TRUE, <<>>, tick)]
    /\ UNCHANGED <<db, tick, streak>>

(* One transaction.  The first destructive statement without permission    *)
(* ends it with an error, like the first statement that is refused.        *)
Outcome(k) ==
    LET stmts == [i \in DOMAIN k.plan |-> k.plan[i].sql]
        r     == Run(db, stmts, tick + 1)
    IN  [r EXCEPT !.ok = @ /\ (k.permit \/ \A i \in DOMAIN k.plan : ~k.plan[i].destructive)]

apply(p) ==
    /\ cmd[p].at = "ready"
    /\ tick < MaxMigrations
    /\ LET k == cmd[p]
           r == Outcome(k)
       IN  IF r.ok
           THEN /\ db' = r.db
                /\ tick' = tick + 1
                /\ streak' = [model |-> k.model,
                              n |-> IF k.base # tick \/ Renames(k.actions) # {} THEN 0
                                    ELSE IF k.model = streak.model THEN streak.n + 1 ELSE 1]
           ELSE UNCHANGED <<db, tick, streak>>
    /\ cmd' = [cmd EXCEPT ![p] = Idle]
    /\ UNCHANGED commands

-----------------------------------------------------------------------------
Init ==
    /\ db = EmptyCatalog
    /\ tick = 0
    /\ commands = 0
    /\ cmd = [p \in Procs |-> Idle]
    /\ streak = [model |-> NoModel, n |-> 0]

Step(p) ==
    \/ \E m \in Models, permit \in BOOLEAN :
          from_db_and_model(p, m, permit) \/ migrate_interactively(p, m, permit)
    \/ wipe_database(p)
    \/ handle_table_delete(p)
    \/ finish_asking(p)
    \/ abandon(p)
    \/ apply(p)

Next == \E p \in Procs : Step(p)

Spec == Init /\ [][Next]_vars

-----------------------------------------------------------------------------
(* The user is asked once about a table, and of tables the database had.   *)
AskedOnce(k) ==
    /\ \A i, j \in DOMAIN k.actions : k.actions[i].t = k.actions[j].t => i = j
    /\ \A a \in Range(k.actions) : a.t \in DOMAIN k.old.tables

(* Type invariant; every foreign key refers to a table that exists, and    *)
(* the questions of a command come to an end (get_table_actions).          *)
TypeOK ==
    /\ tick \in 0..MaxMigrations
    /\ commands \in 0..MaxCommands
    /\ \A p \in Procs : /\ cmd[p].at \in {"idle", "asking", "ready"}
                         /\ cmd[p].at = "asking" => AskedOnce(cmd[p])
    /\ DOMAIN db.tables \subseteq TableNames
    /\ \A c \in Columns(db.tables) : \A r \in c.refs : r.table \in DOMAIN db.tables

Data(tables) == {c.born : c \in Columns(tables)}

(* The command of p runs its list with success. *)
Applies(p) == cmd[p].at = "ready" /\ cmd'[p].at = "idle" /\ db' # db

(* Tables that the user renamed into another schema, where they do not     *)
(* arrive: under its new name such a table can be in the place of one that *)
(* is to be deleted.                                                       *)
Displaced(actions) == {a.t : a \in {b \in Renames(actions) : b.t[1] # b.to[1]}}

(* Without --allow-destructive-changes a migration loses the data of no    *)
(* column, but for those of tables the user has just chosen to delete:     *)
(* also when the schema has changed since it was read and when tables are  *)
(* renamed (Migration::apply, apply_table_actions).                        *)
NothingLostUnasked ==
    [][\A p \in Procs : Applies(p) /\ ~cmd[p].permit =>
          Data(db.tables) \ Data(db'.tables) \subseteq
             Data(Keep(db.tables, Deleted(cmd[p].actions) \cup Displaced(cmd[p].actions)))]_vars

(* A migration leaves the tables of schemas outside its scope as they are: *)
(* two applications may share a database (MigrationScope::FromNewSpec).    *)
ScopeRespected ==
    [][\A p \in Procs : Applies(p) /\ cmd[p].model # NoModel =>
          LET scope == from_specs_schemas(from_database(ModelOf[cmd[p].model]))
          IN  \A t \in DOMAIN db.tables : t[1] \notin scope =>
                 t \in DOMAIN db'.tables /\ db'.tables[t] = db.tables[t]]_vars

(* What ScopeRespected takes for granted of the models, for otherwise a    *)
(* CASCADE reaches beyond the scope (a reference or a type from outside of *)
(* the scope of a model into it), or an unqualified DROP INDEX does (a     *)
(* model without a table in "public").                                     *)
Scope(m) == from_specs_schemas(from_database(ModelOf[m]))
Linked(from, to) == \A m \in Models : from \notin Scope(m) => to \notin Scope(m)

SelfContained ==
    \A m \in Models :
       /\ "public" \in Scope(m)
       /\ \A t \in DOMAIN ModelOf[m].tables : \A c \in Range(ModelOf[m].tables[t].cols) :
             /\ Linked(t[1], c.typ[1])
             /\ \A r \in c.refs : Linked(t[1], r.table[1])

PlanFor(m) ==
    LET new   == from_database(ModelOf[m])
        scope == from_specs_schemas(new)
    IN  from_diffs(diff(from_live_database(db, scope), new, scope), {})

(* Migrating to the same model twice in a row settles: the third finds the *)
(* schema up to date.  Once is not enough: a column that is dropped and    *)
(* created again loses its index, its unique constraint and its foreign    *)
(* key, and nullability hides a change of the default (diff).              *)
Settles ==
    streak.n >= 2 => Readable(db, Scope(streak.model)) /\ PlanFor(streak.model) = <<>>

(* Tables whose trigger is not found when it is read back (TriggersRead).  *)
Unread(new) ==
    {t \in DOMAIN Managed(new.tables) : t[1] # "public" /\ new.tables[t].triggers # {}}

(* From an empty database one migration is enough, and PostgreSQL refuses  *)
(* none of its statements, whatever the references between the tables, in  *)
(* and across schemas, and the types, sequences and schemas they need (the *)
(* order of diff and of from_diffs).  What it leaves is exactly to create, *)
(* again, the triggers of tables outside "public".                         *)
CreatesFromNothing ==
    db = EmptyCatalog => \A m \in Models :
        LET new   == from_database(ModelOf[m])
            scope == from_specs_schemas(new)
            plan  == PlanFor(m)
            r     == Run(db, [i \in DOMAIN plan |-> plan[i].sql], 1)
        IN  /\ r.ok /\ Readable(r.db, scope)
            /\ Range(diff(from_live_database(r.db, scope), new, scope)) =
               {Op("CreateTrigger", t, t, {}) : t \in Unread(new)}

(* The database has what the queries of the model rely on.  The target and *)
(* the type of a foreign key column are left out: diff never compares them *)
(* (differs_only_in_reference_column).                                     *)
Usable(new) ==
    /\ \A e \in DOMAIN new.enums : e \in DOMAIN db.enums /\ db.enums[e] = new.enums[e]
    /\ \A f \in DOMAIN new.functions :
          f \in DOMAIN db.functions /\ db.functions[f] = new.functions[f]
    /\ \A t \in DOMAIN Managed(new.tables) :
          /\ t \in DOMAIN db.tables
          /\ LET have == db.tables[t]  want == new.tables[t]
             IN  /\ want.triggers \subseteq have.triggers
                 /\ Range(want.indices) \subseteq Range(have.indices)
                 /\ Range(named_unique_constraints(want.cols)) =
                    Range(named_unique_constraints(have.cols))
                 /\ \A c \in DOMAIN have.cols \ DOMAIN want.cols : have.cols[c].nullable
                 /\ \A c \in DOMAIN want.cols :
                      /\ c \in DOMAIN have.cols
                      /\ \A a \in {"pk", "nullable", "default"} :
                            have.cols[c][a] = want.cols[c][a]
                      /\ have.cols[c].refs = {} <=> want.cols[c].refs = {}
                      /\ want.cols[c].refs = {} => have.cols[c].typ = want.cols[c].typ

Verified == \A m \in Models : verify(db, ModelOf[m]) => Usable(from_database(ModelOf[m]))

(* A model that exo schema verify accepts can be served, also when extra   *)
(* tables, columns and indices are about (Migration::verify).  Looked at   *)
(* between commands: abandon leads there, with the same database, from any *)
(* state in which a command is on its way.                                 *)
VerifiedIsUsable == (\A p \in Procs : cmd[p].at = "idle") => Verified

(* What VerifiedIsUsable takes for granted of the models: the scope covers *)
(* the enums, and an index is named after what it covers (of two indices   *)
(* under one name, diff may find the other).                               *)
EnumsInScope == \A m \in Models : \A e \in DOMAIN ModelOf[m].enums : e[1] \in Scope(m)

IsModelIndex(n, cols) ==
    \E m \in Models : \E t \in DOMAIN ModelOf[m].tables :
        n \in DOMAIN ModelOf[m].tables[t].indices /\ ModelOf[m].tables[t].indices[n] = cols

IndexNamesTell ==
    \A m \in Models : \A t \in DOMAIN ModelOf[m].tables :
        \A n \in DOMAIN ModelOf[m].tables[t].indices : \A k \in Models :
            \A u \in DOMAIN ModelOf[k].tables :
                n \in DOMAIN ModelOf[k].tables[u].indices =>
                    ModelOf[k].tables[u].indices[n] = ModelOf[m].tables[t].indices[n]

(* A trigger is created after its function (the sort at the end of diff).  *)
TriggersAfterFunctions ==
    \A p \in Procs : cmd[p].at = "ready" =>
        LET plan == cmd[p].plan
        IN  \A i, j \in DOMAIN plan :
               /\ plan[i].sql.op = "CreateFunction"
               /\ plan[j].sql.op = "CreateTrigger"
               /\ plan[i].sql.n = plan[j].sql.n
               => i < j
=============================================================================
