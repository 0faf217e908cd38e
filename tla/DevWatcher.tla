----------------------------- MODULE DevWatcher -----------------------------
(***************************************************************************)
(* `exo dev' and `exo yolo': a watcher that rebuilds the model whenever    *)
(* its files change, brings the database up to date and starts a server on *)
(* the result (crates/cli: util/watcher.rs, commands/dev.rs, yolo.rs).     *)
(*                                                                         *)
(* The files change while a build runs, the callback before a start reads  *)
(* them a second time, and the new server starts before the old one is     *)
(* killed.  A version of the files is a number; Version 0 is none.         *)
(***************************************************************************)
EXTENDS Integers

CONSTANTS
    Modes,      \* the commands considered, of "dev" and "yolo"
    MaxSaves    \* bound on the changes to the files

ASSUME ModeAssumption == Modes \subseteq {"dev", "yolo"} /\ MaxSaves \in Nat

VARIABLES
    mode,     \* the command
    saved,    \* the files: their version and whether it can be built
    dirty,    \* changes the file watcher has not handed over yet
    queued,   \* the channel to the loop holds a batch of changes
    pc,       \* where the loop is
    built,    \* the version the current build has read
    ir,       \* the version in target/index.exo_ir
    model,    \* the version the callback has read
    schema,   \* the version the database is migrated to
    waived,   \* the user, an option or an error let a server start without
    env,      \* the callback returned the environment for the server
    server,   \* the server the loop holds
    next,     \* the server just started
    sigint    \* an interrupt waits in its channel

files  == <<mode, saved, dirty, queued>>
start  == <<built, ir, model, schema, waived, env>>
vars   == <<mode, saved, dirty, queued, pc, built, ir, model, schema, waived, env,
            server, next, sigint>>

Versions == 0..(MaxSaves + 1)
None == [st |-> "none", version |-> 0, env |-> TRUE]
Alive(s) == s.st \in {"starting", "serving"}

-----------------------------------------------------------------------------
(* The files and the channel. *)

save(ok) ==
    /\ saved.v <= MaxSaves
    /\ saved' = [v |-> saved.v + 1, ok |-> ok]
    /\ dirty' = TRUE
    /\ UNCHANGED <<mode, queued, pc, start, server, next, sigint>>

(* blocking_send to a channel of one place; later changes accumulate.  A   *)
(* batch without a change (of accesses, of errors) does nothing to the     *)
(* loop and is left out; so are changes the file system never reports.     *)
debounce ==
    /\ dirty /\ ~queued
    /\ dirty' = FALSE
    /\ queued' = TRUE
    /\ UNCHANGED <<mode, saved, pc, start, server, next, sigint>>

-----------------------------------------------------------------------------
(* build_and_start_server *)

Goto(l) == pc' = l

(* Mutant: the servers are spawned without kill_on_drop. *)
exit_orphan ==
    /\ Goto("exited")
    /\ UNCHANGED server
    /\ next' = None

(* An error returned to start_watcher ends it; kill_on_drop ends the       *)
(* servers it holds.                                                       *)
exit ==
    /\ Goto("exited")
    /\ server' = None
    /\ next' = None

(* SIGINT: dev has not cleared EXIT_ON_SIGINT and exits from the handler,  *)
(* without drops; its servers get the signal from the terminal themselves. *)
interrupt ==
    /\ pc # "exited"
    /\ \/ /\ mode = "dev"
          /\ exit
          /\ UNCHANGED sigint
       \/ /\ mode = "yolo" /\ ~sigint
          /\ sigint' = TRUE
          /\ UNCHANGED <<pc, server, next>>
    /\ UNCHANGED <<files, start>>

(* An unrecoverable error of the build, of a script or of the spawn. *)
fail ==
    /\ pc \in {"build", "write", "scripts"}
    /\ exit
    /\ UNCHANGED <<files, start, sigint>>

(* A parser error gives no server; it is replaced all the same. *)
build_read ==
    /\ pc = "build"
    /\ built' = saved.v
    /\ Goto(IF saved.ok THEN "write" ELSE "replace")
    /\ UNCHANGED <<files, ir, model, schema, waived, env, server, next, sigint>>

build_write ==
    /\ pc = "write"
    /\ ir' = built
    /\ waived' = FALSE
    /\ Goto("prestart")
    /\ UNCHANGED <<files, built, model, schema, env, server, next, sigint>>

(* The callback returns: with the environment, or with an error that is    *)
(* only printed.                                                           *)
Return(ok) ==
    /\ env' = ok
    /\ Goto("scripts")

(* The database cannot be reached, the files no longer parse, a prompt is  *)
(* left with Escape, the seed is refused.                                  *)
prestart_error ==
    /\ pc \in {"prestart", "asking", "failed", "seed"}
    /\ Return(FALSE)
    /\ waived' = TRUE
    /\ UNCHANGED <<files, built, ir, model, schema, server, next, sigint>>

(* Mutant: the model is read by the first callback only. *)
verify_once ==
    /\ pc = "prestart" /\ saved.ok
    /\ model' = IF model = 0 THEN saved.v ELSE model
    /\ IF mode = "dev" /\ schema = model' THEN Return(TRUE)
       ELSE Goto("migrate") /\ UNCHANGED env
    /\ UNCHANGED <<files, built, ir, schema, waived, server, next, sigint>>

(* Reads the files again and compares them with the database (dev) or      *)
(* goes on to migrate at once (yolo).                                      *)
verify ==
    /\ pc = "prestart" /\ saved.ok
    /\ model' = saved.v
    /\ IF mode = "dev" /\ schema = saved.v THEN Return(TRUE)
       ELSE Goto("migrate") /\ UNCHANGED env
    /\ UNCHANGED <<files, built, ir, schema, waived, server, next, sigint>>

(* Without destructive changes, and in yolo, without asking. *)
apply_migration ==
    /\ pc \in {"migrate", "confirmed"}
    /\ schema' = model
    /\ IF mode = "dev" THEN Return(TRUE) ELSE Goto("seed") /\ UNCHANGED env
    /\ UNCHANGED <<files, built, ir, model, waived, server, next, sigint>>

(* dev asks before it makes destructive changes. *)
ask ==
    /\ pc = "migrate" /\ mode = "dev"
    /\ Goto("asking")
    /\ UNCHANGED <<files, start, server, next, sigint>>

confirm ==
    /\ pc = "asking"
    /\ Goto("confirmed")
    /\ UNCHANGED <<files, start, server, next, sigint>>

(* The transaction fails and nothing has changed. *)
migration_refused ==
    /\ pc \in {"migrate", "confirmed"}
    /\ Goto("failed")
    /\ UNCHANGED <<files, start, server, next, sigint>>

(* dev re-verifies after a pause, a failure and a refusal to confirm. *)
retry ==
    /\ pc \in {"asking", "failed"} /\ mode = "dev"
    /\ Goto("prestart")
    /\ UNCHANGED <<files, start, server, next, sigint>>

(* yolo can wipe the database and set it up again, now without the seed. *)
wipe_database ==
    /\ pc = "failed" /\ mode = "yolo"
    /\ schema' = 0
    /\ Goto("prestart")
    /\ UNCHANGED <<files, built, ir, model, waived, env, server, next, sigint>>

(* Continue with the old schema (or --ignore-migration-errors, or after a  *)
(* pause in yolo), and Exit: the loop sees the interrupt once the server   *)
(* has been started.                                                       *)
go_on(quit) ==
    /\ pc \in {"asking", "failed"}
    /\ quit => (pc = "asking" \/ mode = "yolo")
    /\ Return(TRUE)
    /\ waived' = TRUE
    /\ sigint' = (sigint \/ quit)
    /\ UNCHANGED <<files, built, ir, model, schema, server, next>>

(* yolo runs the seed before every start. *)
seed ==
    /\ pc = "seed"
    /\ Return(TRUE)
    /\ UNCHANGED <<files, built, ir, model, schema, waived, server, next, sigint>>

(* The scripts of the stage have run. *)
spawn ==
    /\ pc = "scripts"
    /\ next' = [st |-> "starting", version |-> 0, env |-> env]
    /\ Goto("replace")
    /\ UNCHANGED <<files, start, server, sigint>>

(* Mutant: what came in during the build is taken to be part of it. *)
replace_drained ==
    /\ pc = "replace"
    /\ server' = next
    /\ next' = None
    /\ queued' = FALSE
    /\ Goto("select")
    /\ UNCHANGED <<mode, saved, dirty, start, sigint>>

(* `server = ...': the new handle is stored and the old one dropped. *)
replace ==
    /\ pc = "replace"
    /\ server' = next
    /\ next' = None
    /\ Goto("select")
    /\ UNCHANGED <<files, start, sigint>>

-----------------------------------------------------------------------------
(* The loop of start_watcher. *)

change ==
    /\ pc = "select" /\ queued
    /\ queued' = FALSE
    /\ Goto("build")
    /\ UNCHANGED <<mode, saved, dirty, start, server, next, sigint>>

(* Mutant: a dead server is reported and the loop goes on. *)
server_death_ignored ==
    /\ pc = "select" /\ server.st = "dead"
    /\ server' = None
    /\ UNCHANGED <<files, pc, start, next, sigint>>

server_death ==
    /\ pc = "select" /\ server.st = "dead"
    /\ exit
    /\ UNCHANGED <<files, start, sigint>>

ctrl_c ==
    /\ pc = "select" /\ sigint
    /\ exit
    /\ sigint' = FALSE
    /\ UNCHANGED <<files, start>>

-----------------------------------------------------------------------------
(* The servers: they load the IR file, bind the port and may die. *)

Started(s, other) ==
    [s EXCEPT !.st = IF other.st = "serving" THEN "dead" ELSE "serving",
              !.version = ir]

load_and_bind ==
    \/ /\ server.st = "starting"
       /\ server' = Started(server, next)
       /\ UNCHANGED <<files, pc, start, next, sigint>>
    \/ /\ next.st = "starting"
       /\ next' = Started(next, server)
       /\ UNCHANGED <<files, pc, start, server, sigint>>

die ==
    \/ /\ Alive(server)
       /\ server' = [server EXCEPT !.st = "dead"]
       /\ UNCHANGED <<files, pc, start, next, sigint>>
    \/ /\ Alive(next)
       /\ next' = [next EXCEPT !.st = "dead"]
       /\ UNCHANGED <<files, pc, start, server, sigint>>

-----------------------------------------------------------------------------
Init ==
    /\ mode \in Modes
    /\ saved = [v |-> 1, ok |-> TRUE]
    /\ dirty = FALSE /\ queued = FALSE
    /\ pc = "build"
    /\ built = 0 /\ ir = 0 /\ model = 0 /\ schema = 0
    /\ waived = FALSE /\ env = TRUE
    /\ server = None /\ next = None
    /\ sigint = FALSE

Callback ==
    \/ verify \/ apply_migration \/ ask \/ confirm \/ migration_refused
    \/ retry \/ wipe_database \/ (\E quit \in BOOLEAN : go_on(quit))
    \/ seed \/ prestart_error

Loop == build_read \/ build_write \/ Callback \/ spawn \/ replace
          \/ change \/ server_death \/ ctrl_c \/ fail

Next ==
    \/ \E ok \in BOOLEAN : save(ok)
    \/ debounce
    \/ interrupt
    \/ Loop
    \/ load_and_bind
    \/ die

Spec == Init /\ [][Next]_vars
             /\ WF_vars(debounce) /\ WF_vars(Loop) /\ WF_vars(load_and_bind)

-----------------------------------------------------------------------------
(* The watcher answers for its servers: the one just started is apart from *)
(* the one held only until it replaces it, and none outlives the watcher,  *)
(* whichever error, signal or death ends it (kill_on_drop).                *)
HeldServers ==
    /\ pc # "replace" => next = None
    /\ pc = "exited" => server = None

(* Type invariant, with the servers as exact as that. *)
TypeOK ==
    /\ mode \in Modes
    /\ saved \in [v : Versions, ok : BOOLEAN]
    /\ pc \in {"build", "write", "prestart", "migrate", "asking", "confirmed", "failed",
               "seed", "scripts", "replace", "select", "exited"}
    /\ {built, ir, model, schema} \subseteq Versions
    /\ {dirty, queued, waived, env, sigint} \subseteq BOOLEAN
    /\ {server, next} \subseteq
         [st : {"none", "starting", "serving", "dead"}, version : Versions, env : BOOLEAN]
    /\ HeldServers

(* The loop waits and knows of no change. *)
Quiet == pc = "select" /\ ~dirty /\ ~queued

(* No change is lost: when the watcher rests, the server it has started    *)
(* serves the files as they are, and there is none when they cannot be     *)
(* built, although files change while a build reads them (start_watcher).  *)
ServesLatest ==
    Quiet => IF saved.ok THEN /\ server.st # "none"
                              /\ server.st = "serving" => server.version = saved.v
             ELSE server.st = "none"

(* When the watcher rests, the database is migrated to the version that is *)
(* served, although the callback reads the files again after the build     *)
(* has, unless the user or an error let it be (dev.rs, yolo.rs).           *)
SchemaOfServed ==
    Quiet /\ server.st = "serving" /\ ~waived => schema = server.version

(* Once the files stop changing, the watcher ends or comes to serve them,  *)
(* unless it keeps asking the user (start_watcher, build_and_start_server).*)
ComesToServe ==
    \/ []<>(pc \in {"asking", "failed"})
    \/ <>[](\/ pc = "exited"
            \/ Quiet /\ (saved.ok => server.st = "serving" /\ server.version = saved.v))
-----------------------------------------------------------------------------
(* What makes the two invariants inductive.  A build that no change has    *)
(* overtaken has read the files as they are; only the server of the last   *)
(* build loads the file that build has written; and the callback that      *)
(* returns without a waiver leaves the schema of the files it has read.    *)

(* The watcher has handed over every change, and the loop has taken it.    *)
Fresh == ~dirty /\ ~queued

Underway == {"prestart", "migrate", "asking", "confirmed", "failed", "seed", "scripts"}

(* The last build has got as far as a server: it is due, just started, or  *)
(* held by the loop.                                                       *)
Succeeded ==
    \/ pc \in Underway
    \/ pc = "replace" /\ next.st # "none"
    \/ pc = "select" /\ server.st # "none"

BuiltIsSaved == Fresh /\ pc \notin {"build", "exited"} => built = saved.v

SucceededIsOk ==
    Fresh /\ pc \notin {"build", "exited"} => (saved.ok <=> (pc = "write" \/ Succeeded))

IrIsBuilt == Succeeded => ir = built

ServesIr ==
    /\ next.st = "serving" => next.version = ir
    /\ pc = "select" /\ server.st = "serving" => server.version = ir

ModelIsSaved ==
    Fresh /\ pc \in {"migrate", "asking", "confirmed", "failed", "seed"} => model = saved.v

SchemaIsSaved ==
    Fresh /\ Succeeded /\ ~waived /\ pc \in {"seed", "scripts", "replace", "select"}
      => schema = saved.v

WatchInv ==
    /\ TypeOK /\ BuiltIsSaved /\ SucceededIsOk /\ IrIsBuilt
    /\ ServesIr /\ ModelIsSaved /\ SchemaIsSaved
=============================================================================
