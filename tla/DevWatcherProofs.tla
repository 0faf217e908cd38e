-------------------------- MODULE DevWatcherProofs --------------------------
(* The watcher of `exo dev' and `exo yolo': at rest it serves the files as   *)
(* they are, on a database migrated to them, for any number of changes.      *)
EXTENDS DevWatcher, TLAPS

ServerType ==
    [st : {"none", "starting", "serving", "dead"}, version : Versions, env : BOOLEAN]

(* A server that has loaded the IR file serves that version, or dies because *)
(* the port is taken.                                                        *)
LEMMA LoadType ==
    ASSUME NEW s \in ServerType, NEW other, ir \in Versions
    PROVE  /\ Started(s, other) \in ServerType
           /\ Started(s, other).st \in {"serving", "dead"}
           /\ Started(s, other).version = ir
BY DEF ServerType, Started

LEMMA NoneType == None \in ServerType
BY ModeAssumption DEF None, ServerType, Versions

LEMMA InitType == Init => TypeOK
<1> SUFFICES ASSUME Init PROVE TypeOK
  OBVIOUS
<1>1. {0, 1} \subseteq Versions
  BY ModeAssumption DEF Versions
<1>2. saved \in [v : Versions, ok : BOOLEAN]
  BY <1>1 DEF Init
<1> QED
  BY <1>1, <1>2, NoneType DEF Init, TypeOK, HeldServers, ServerType

LEMMA StepType ==
    ASSUME TypeOK, Next
    PROVE  TypeOK'
<1> USE ModeAssumption, NoneType DEF TypeOK, HeldServers, Goto, files, start, Versions, ServerType
<1>1. CASE \E ok \in BOOLEAN : save(ok)
  BY <1>1 DEF save
<1>2. CASE debounce
  BY <1>2 DEF debounce
<1>3. CASE interrupt
  BY <1>3 DEF interrupt, exit
<1>4. CASE build_read
  BY <1>4 DEF build_read
<1>5. CASE build_write
  BY <1>5 DEF build_write
<1>6. CASE verify
  BY <1>6, ZenonT(40) DEF verify, Return
<1>7. CASE apply_migration
  BY <1>7, ZenonT(40) DEF apply_migration, Return
<1>8. CASE ask
  BY <1>8 DEF ask
<1>9. CASE confirm
  BY <1>9 DEF confirm
<1>10. CASE migration_refused
  BY <1>10 DEF migration_refused
<1>11. CASE retry
  BY <1>11 DEF retry
<1>12. CASE wipe_database
  BY <1>12 DEF wipe_database
<1>13. CASE \E quit \in BOOLEAN : go_on(quit)
  BY <1>13 DEF go_on, Return
<1>14. CASE seed
  BY <1>14 DEF seed, Return
<1>15. CASE prestart_error
  BY <1>15 DEF prestart_error, Return
<1>16. CASE spawn
  BY <1>16 DEF spawn
<1>17. CASE replace
  BY <1>17 DEF replace
<1>18. CASE change
  BY <1>18 DEF change
<1>19. CASE server_death
  BY <1>19 DEF server_death, exit
<1>20. CASE ctrl_c
  BY <1>20 DEF ctrl_c, exit
<1>21. CASE fail
  BY <1>21 DEF fail, exit
<1>22. CASE load_and_bind
  BY <1>22, LoadType DEF load_and_bind, None
<1>23. CASE die
  BY <1>23 DEF die, Alive, None
<1> QED
  BY <1>1, <1>2, <1>3, <1>4, <1>5, <1>6, <1>7, <1>8, <1>9, <1>10, <1>11,
     <1>12, <1>13, <1>14, <1>15, <1>16, <1>17, <1>18, <1>19, <1>20, <1>21,
     <1>22, <1>23 DEF Next, Loop, Callback

(* The state of every variable of the watcher, for any number of changes.    *)
THEOREM TypeCorrect == Spec => []TypeOK
<1>1. ASSUME TypeOK, [Next]_vars
      PROVE  TypeOK'
  <2>1. CASE Next
    BY <1>1, <2>1, StepType
  <2>2. CASE UNCHANGED vars
    BY <1>1, <2>2 DEF TypeOK, HeldServers, vars
  <2> QED
    BY <1>1, <2>1, <2>2
<1> QED
  BY <1>1, InitType, PTL DEF Spec

-----------------------------------------------------------------------------
(* The inductive invariant, one step per action: a change makes the watcher  *)
(* dirty before it can make anything stale, and only `change', which leads   *)
(* to a new build, clears the last trace of it.                              *)
LEMMA StepKeeps ==
    ASSUME WatchInv, Next, TypeOK'
    PROVE  WatchInv'
<1> USE DEF WatchInv, TypeOK, Goto, files, start, None, Underway, Fresh, Succeeded,
            HeldServers, BuiltIsSaved, SucceededIsOk, IrIsBuilt, ServesIr,
            ModelIsSaved, SchemaIsSaved, ServerType
<1>1. CASE \E ok \in BOOLEAN : save(ok)
  BY <1>1 DEF save
<1>2. CASE debounce
  BY <1>2 DEF debounce
<1>3. CASE interrupt
  BY <1>3 DEF interrupt, exit
<1>4. CASE build_read
  BY <1>4 DEF build_read
<1>5. CASE build_write
  BY <1>5 DEF build_write
<1>6. CASE verify
  BY <1>6 DEF verify, Return
<1>7. CASE apply_migration
  BY <1>7 DEF apply_migration, Return
<1>8. CASE ask
  BY <1>8 DEF ask
<1>9. CASE confirm
  BY <1>9 DEF confirm
<1>10. CASE migration_refused
  BY <1>10 DEF migration_refused
<1>11. CASE retry
  BY <1>11 DEF retry
<1>12. CASE wipe_database
  BY <1>12 DEF wipe_database
<1>13. CASE \E quit \in BOOLEAN : go_on(quit)
  BY <1>13 DEF go_on, Return
<1>14. CASE seed
  BY <1>14 DEF seed, Return
<1>15. CASE prestart_error
  BY <1>15 DEF prestart_error, Return
<1>16. CASE spawn
  BY <1>16 DEF spawn
<1>17. CASE replace
  BY <1>17 DEF replace
<1>18. CASE change
  BY <1>18 DEF change
<1>19. CASE server_death
  BY <1>19 DEF server_death, exit
<1>20. CASE ctrl_c
  BY <1>20 DEF ctrl_c, exit
<1>21. CASE fail
  BY <1>21 DEF fail, exit
<1>22. CASE load_and_bind
  <2>1. CASE server.st = "starting" /\ server' = Started(server, next)
               /\ UNCHANGED <<files, pc, start, next, sigint>>
    BY <2>1, LoadType
  <2>2. CASE next.st = "starting" /\ next' = Started(next, server)
               /\ UNCHANGED <<files, pc, start, server, sigint>>
    BY <2>2, LoadType
  <2> QED
    BY <1>22, <2>1, <2>2 DEF load_and_bind
<1>23. CASE die
  BY <1>23 DEF die, Alive
<1> QED
  BY <1>1, <1>2, <1>3, <1>4, <1>5, <1>6, <1>7, <1>8, <1>9, <1>10, <1>11,
     <1>12, <1>13, <1>14, <1>15, <1>16, <1>17, <1>18, <1>19, <1>20, <1>21,
     <1>22, <1>23 DEF Next, Loop, Callback

LEMMA WatchInvariant == Spec => []WatchInv
<1>1. Init => WatchInv
  BY InitType DEF Init, WatchInv, None, Underway, Fresh, Succeeded, HeldServers,
     BuiltIsSaved, SucceededIsOk, IrIsBuilt, ServesIr, ModelIsSaved, SchemaIsSaved
<1>2. ASSUME WatchInv, [Next]_vars
      PROVE  WatchInv'
  <2>1. CASE Next
    BY <1>2, <2>1, StepType, StepKeeps DEF WatchInv
  <2>2. CASE UNCHANGED vars
    BY <1>2, <2>2 DEF vars, WatchInv, TypeOK, Fresh, Succeeded, HeldServers,
       BuiltIsSaved, SucceededIsOk, IrIsBuilt, ServesIr, ModelIsSaved, SchemaIsSaved
  <2> QED
    BY <1>2, <2>1, <2>2
<1> QED
  BY <1>1, <1>2, PTL DEF Spec

-----------------------------------------------------------------------------
(* No change is lost, however the changes fall between the reading of a      *)
(* build, the debouncing and the loop: when the watcher rests, the server it *)
(* holds serves the files as they are (start_watcher).                       *)
THEOREM ServesLatestHolds == Spec => []ServesLatest
<1>1. WatchInv => ServesLatest
  BY DEF WatchInv, ServesLatest, Quiet, Fresh, BuiltIsSaved, SucceededIsOk, IrIsBuilt,
     ServesIr, Succeeded, Underway
<1> QED
  BY <1>1, WatchInvariant, PTL

(* At rest the database has the schema that the server expects, unless the   *)
(* user or an error let it start without, although the callback before the   *)
(* start reads the files a second time (dev.rs, yolo.rs).                    *)
THEOREM SchemaOfServedHolds == Spec => []SchemaOfServed
<1>1. WatchInv => SchemaOfServed
  BY DEF WatchInv, SchemaOfServed, Quiet, Fresh, BuiltIsSaved, IrIsBuilt, ServesIr,
     SchemaIsSaved, Succeeded
<1> QED
  BY <1>1, WatchInvariant, PTL
=============================================================================
