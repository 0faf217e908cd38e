-------------------------- MODULE MCSchemaMigration --------------------------
(***************************************************************************)
(* A project whose model goes through several versions.                    *)
(***************************************************************************)
EXTENDS SchemaMigration

\* Processes are interchangeable.
ProcSymmetry == Permutations(Procs)

\* Tables of the schema that a model has by default, and models without enums.
users  == <<"public", "users">>
todos  == <<"public", "todos">>
tasks  == <<"public", "tasks">>
plain(tables) == [tables |-> tables, enums |-> <<>>]

col(typ, nullable, default) ==
    [typ |-> <<"", typ>>, pk |-> FALSE, nullable |-> nullable, default |-> default,
     uniques |-> {}, refs |-> {}, born |-> 0]
id == [col("int", FALSE, "serial") EXCEPT !.pk = TRUE]
ref(t, nullable) ==
    [col("int", nullable, "none") EXCEPT !.refs =
        {[group |-> <<<<>>, t>>, table |-> <<"public", t>>]}]
key == [col("uuid", FALSE, "generated") EXCEPT !.pk = TRUE]
entry ==
    [col("uuid", TRUE, "none") EXCEPT !.refs =
        {[group |-> <<<<>>, "entry">>, table |-> <<"audit", "entries">>]}]
unique(c, n) == [c EXCEPT !.uniques = {n}]
table(cols, indices, sync) ==
    [managed |-> TRUE, cols |-> cols, indices |-> indices, sync |-> sync]
mood == <<"public", "mood">>

Users == table([id |-> id, name |-> unique(col("string", FALSE, "none"), "u_name")], <<>>, {})

Todos(title, owner) ==
    table([id |-> id, title |-> title, owner |-> owner], [i_title |-> {"title"}], {})

MCModels == {"first", "typed", "renamed", "other", "audited"}
MCModelOf == [
    first |-> plain(users :> Users
        @@ todos :> Todos(col("string", FALSE, "none"), ref("users", FALSE))),
    \* the title has another type; users have moods and places
    typed |-> [
        tables |-> users :> [Users EXCEPT !.cols = @ @@
                        [mood |-> [col("", TRUE, "none") EXCEPT !.typ = mood],
                         place |-> col("vector", TRUE, "none")]]
            @@ todos :> Todos(unique(col("int", FALSE, "seq"), "u_title"), ref("users", FALSE)),
        enums |-> mood :> {"up", "down"}],
    \* todos are now called tasks, and their owner becomes optional; so does the name of a
    \* user, which gets a default
    renamed |-> plain(
        users :> [Users EXCEPT !.cols.name = unique(col("string", TRUE, "value"), "u_name")]
        @@ tasks :> Todos(col("string", FALSE, "none"), ref("users", TRUE))),
    \* another application: people record when they change, and it has a schema of its own
    other |-> plain(
        <<"public", "people">> :>
            table([id |-> id, at |-> col("time", FALSE, "now")], <<>>, {"at"})
        @@ <<"audit", "log">> :>
            table([id |-> id, who |-> col("string", TRUE, "none")], [i_who |-> {"who"}], {})),
    \* users refer to entries of another schema, which record when they change
    audited |-> plain(
        users :> [Users EXCEPT !.cols = @ @@ [entry |-> entry]]
        @@ <<"audit", "entries">> :>
            table([id |-> key, at |-> col("time", FALSE, "now")], <<>>, {"at"})),
    \* the first model when todos record their changes and a table is added
    stamped |-> plain(users :> Users
        @@ todos :> [Todos(col("string", FALSE, "none"), ref("users", FALSE))
                       EXCEPT !.sync = {"title"}]
        @@ <<"public", "labels">> :> table([id |-> id], <<>>, {}))]

StampedModels == {"first", "stamped"}

\* What the theorems suppose of the models holds of these.
ASSUME WithinTheorems == SelfContained /\ EnumsInScope /\ IndexNamesTell

MCEnums == {mood}
MCFileNames == {<<"public", "people">>}
MCExtensions == {<<"", "vector">>}
=============================================================================
