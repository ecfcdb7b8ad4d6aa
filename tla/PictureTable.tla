---------------------------- MODULE PictureTable ----------------------------
(* A table whose rows refer to pictures, the pictures themselves in S3, and   *)
(* the programs that write both: the importers utils/products.go and          *)
(* utils/users.go, and utils/migrate_media.go, in any number of runs.         *)
(*                                                                            *)
(* The products table has a thumbnail and a gallery per row and is updated    *)
(* whatever became of the pictures; the users table has an avatar per row and *)
(* is updated only after the avatar is stored.  PostgreSQL, S3 and the sites  *)
(* the pictures come from are external.  A reference is the picture's web     *)
(* address or the name its object is stored under, /media/<bucket>/<folder>/  *)
(* <name>/<slot>: bucket, folder and file extension are left out.             *)
EXTENDS Integers, Sequences, FiniteSets

CONSTANTS Items,         \* products by external_id, users by email
          ImportName,    \* what the importer names each item's objects after
          Gallery,       \* pictures of an item beside its first
          AlwaysUpdate,  \* MigrateProducts (TRUE) or MigrateUsers (FALSE)
          Feeds,         \* the item lists the external API may answer with
          BatchSize,     \* rows an importer upserts per batch
          Workers,       \* goroutines of a migrator
          Imports,       \* importer runs
          Migrators,     \* migrator runs
          Web            \* the reference of a picture not in S3

NoRepeats(list) ==
  \A j, k \in 1..Len(list) : list[j] = list[k] => j = k

ASSUME PicturesAssumption ==
  /\ Gallery \in Nat
  /\ AlwaysUpdate \in BOOLEAN
  /\ BatchSize \in Nat \ {0}
  /\ Workers \in Nat \ {0}
  /\ Feeds \subseteq {list \in Seq(Items) : NoRepeats(list)}
  /\ \A e, f \in Items : ImportName[e] = ImportName[f] => e = f
  /\ Web \notin Nat \cup {ImportName[e] : e \in Items}

VARIABLES
  rowId,     \* the BIGSERIAL id of each item's row, 0 without a row
  lastId,    \* the last value of that sequence
  pics,      \* the references in each row, per slot
  objects,   \* the bucket: which item's picture is under which name and slot
  ipc,       \* where each importer run is
  feed,      \* the items it has fetched
  pos,       \* how many of them it has been through
  shot,      \* the slot of the next picture
  fetched,   \* the references it will write
  mpc,       \* where each migrator run is
  cancelled, \* its context is done: timeout or signal
  queue,     \* the items in its jobs channel
  step,      \* the slot at which a worker is with each item
  held,      \* the references it read, as far as they are replaced
  counted    \* the items successCount stands for

tableVars == <<rowId, lastId, pics>>
importVars == <<ipc, feed, pos, shot, fetched>>
migratorVars == <<mpc, cancelled, queue, step, held, counted>>
vars == <<tableVars, objects, importVars, migratorVars>>

Slots == 0..Gallery
Names == Nat \cup {ImportName[e] : e \in Items}
AllWeb == [s \in Slots |-> Web]

(* A worker's place with an item: at a slot, at the UPDATE, not at work.      *)
AtUpdate == Gallery + 1
Idle == Gallery + 2

TypeOK ==
  /\ rowId \in [Items -> Nat]
  /\ lastId \in Nat
  /\ pics \in [Items -> [Slots -> Names \cup {Web}]]
  /\ objects \subseteq [name : Names, slot : Slots, of : Items]
  /\ ipc \in [Imports -> {"new", "fetch", "upsert", "done"}]
  /\ feed \in [Imports -> Feeds \cup {<< >>}]
  /\ pos \in [Imports -> Nat]
  /\ shot \in [Imports -> Slots]
  /\ fetched \in [Imports -> [Items -> [Slots -> Names \cup {Web}]]]
  /\ mpc \in [Migrators -> {"new", "run", "none", "done", "dead"}]
  /\ cancelled \in [Migrators -> BOOLEAN]
  /\ queue \in [Migrators -> SUBSET Items]
  /\ step \in [Migrators -> [Items -> 0..Idle]]
  /\ held \in [Migrators -> [Items -> [Slots -> Names \cup {Web}]]]
  /\ counted \in [Migrators -> SUBSET Items]

Init ==
  /\ rowId = [e \in Items |-> 0]
  /\ lastId = 0
  /\ pics = [e \in Items |-> AllWeb]
  /\ objects = {}
  /\ ipc = [i \in Imports |-> "new"]
  /\ feed = [i \in Imports |-> << >>]
  /\ pos = [i \in Imports |-> 0]
  /\ shot = [i \in Imports |-> 0]
  /\ fetched = [i \in Imports |-> [e \in Items |-> AllWeb]]
  /\ mpc = [m \in Migrators |-> "new"]
  /\ cancelled = [m \in Migrators |-> FALSE]
  /\ queue = [m \in Migrators |-> {}]
  /\ step = [m \in Migrators |-> [e \in Items |-> Idle]]
  /\ held = [m \in Migrators |-> [e \in Items |-> AllWeb]]
  /\ counted = [m \in Migrators |-> {}]

-----------------------------------------------------------------------------
(* PutObject replaces what is under the name.                                 *)
Put(name, s, e) ==
  {o \in objects : o.name # name \/ o.slot # s} \cup {[name |-> name, slot |-> s, of |-> e]}

-----------------------------------------------------------------------------
(* An importer: fetch the list, store the pictures, upsert the rows.          *)

(* The API answers; without -upload-s3 the pictures stay where they are.      *)
StartImport(i) ==
  /\ ipc[i] = "new"
  /\ \E list \in Feeds : feed' = [feed EXCEPT ![i] = list]
  /\ \E upload \in BOOLEAN : ipc' = [ipc EXCEPT ![i] = IF upload THEN "fetch" ELSE "upsert"]
  /\ UNCHANGED <<tableVars, objects, pos, shot, fetched, migratorVars>>

(* The item whose pictures are being stored.                                  *)
Current(i) == feed[i][pos[i] + 1]

(* A slip: objects named after the position in the answer.                    *)
KeyByPosition(i) == pos[i] + 1

ImportKey(i) == ImportName[Current(i)]

(* A slip: one slot too many.                                                 *)
NextShotLate(i) ==
  /\ shot' = [shot EXCEPT ![i] = IF @ > Gallery THEN 0 ELSE @ + 1]
  /\ pos' = [pos EXCEPT ![i] = IF shot[i] > Gallery THEN @ + 1 ELSE @]

NextShot(i) ==
  /\ shot' = [shot EXCEPT ![i] = IF @ = Gallery THEN 0 ELSE @ + 1]
  /\ pos' = [pos EXCEPT ![i] = IF shot[i] = Gallery THEN @ + 1 ELSE @]

FetchPicture(i) ==
  /\ ipc[i] = "fetch"
  /\ pos[i] < Len(feed[i])
  /\ objects' = Put(ImportKey(i), shot[i], Current(i))
  /\ fetched' = [fetched EXCEPT ![i][Current(i)][shot[i]] = ImportKey(i)]
  /\ NextShot(i)
  /\ UNCHANGED <<tableVars, ipc, feed, migratorVars>>

(* A slip: the stored name is used although the upload failed.                *)
TrustUpload(i) ==
  /\ ipc[i] = "fetch"
  /\ pos[i] < Len(feed[i])
  /\ fetched' = [fetched EXCEPT ![i][Current(i)][shot[i]] = ImportKey(i)]
  /\ NextShot(i)
  /\ UNCHANGED <<tableVars, objects, ipc, feed, migratorVars>>

(* Download or upload fails (an upload may have arrived): the web address     *)
(* stays.                                                                     *)
MissPicture(i) ==
  /\ ipc[i] = "fetch"
  /\ pos[i] < Len(feed[i])
  /\ objects' \in {objects, Put(ImportKey(i), shot[i], Current(i))}
  /\ NextShot(i)
  /\ UNCHANGED <<tableVars, ipc, feed, fetched, migratorVars>>

EndFetch(i) ==
  /\ ipc[i] = "fetch"
  /\ pos[i] = Len(feed[i])
  /\ ipc' = [ipc EXCEPT ![i] = "upsert"]
  /\ pos' = [pos EXCEPT ![i] = 0]
  /\ UNCHANGED <<tableVars, objects, feed, shot, fetched, migratorVars>>

(* The next batch: positions in the feed, and the items there.                *)
ChunkEnd(i) == IF pos[i] + BatchSize > Len(feed[i]) THEN Len(feed[i]) ELSE pos[i] + BatchSize
Chunk(i) == {feed[i][k] : k \in (pos[i] + 1)..ChunkEnd(i)}

(* INSERT ... ON CONFLICT DO UPDATE for the batch, one implicit transaction:  *)
(* rows that exist keep their id, yet every item draws one from the sequence. *)
Upserted(i) ==
  LET Drawn(e) == lastId - pos[i] + CHOOSE k \in (pos[i] + 1)..ChunkEnd(i) : feed[i][k] = e
  IN  /\ rowId' = [e \in Items |->
                     IF e \in Chunk(i) /\ rowId[e] = 0 THEN Drawn(e) ELSE rowId[e]]
      /\ pics' = [e \in Items |-> IF e \in Chunk(i) THEN fetched[i][e] ELSE pics[e]]
      /\ lastId' = lastId + ChunkEnd(i) - pos[i]

UpsertChunk(i) ==
  /\ ipc[i] = "upsert"
  /\ pos[i] < Len(feed[i])
  /\ Upserted(i)
  /\ pos' = [pos EXCEPT ![i] = ChunkEnd(i)]
  /\ UNCHANGED <<objects, ipc, feed, shot, fetched, migratorVars>>

(* The process ends; what it had in memory is forgotten.                      *)
Exit(i) ==
  /\ ipc' = [ipc EXCEPT ![i] = "done"]
  /\ feed' = [feed EXCEPT ![i] = << >>]
  /\ pos' = [pos EXCEPT ![i] = 0]
  /\ shot' = [shot EXCEPT ![i] = 0]
  /\ fetched' = [fetched EXCEPT ![i] = [e \in Items |-> AllWeb]]

(* The batch was applied, but the importer is not told and stops.             *)
UpsertUnacknowledged(i) ==
  /\ ipc[i] = "upsert"
  /\ pos[i] < Len(feed[i])
  /\ Upserted(i)
  /\ Exit(i)
  /\ UNCHANGED <<objects, migratorVars>>

(* The batch is rolled back, all but the ids drawn, and the importer stops.   *)
UpsertFails(i) ==
  /\ ipc[i] = "upsert"
  /\ pos[i] < Len(feed[i])
  /\ \E drawn \in 0..(ChunkEnd(i) - pos[i]) : lastId' = lastId + drawn
  /\ Exit(i)
  /\ UNCHANGED <<rowId, pics, objects, migratorVars>>

EndImport(i) ==
  /\ ipc[i] = "upsert"
  /\ pos[i] = Len(feed[i])
  /\ Exit(i)
  /\ UNCHANGED <<tableVars, objects, migratorVars>>

(* The API or the schema step fails, or the process is killed.                *)
AbandonImport(i) ==
  /\ ipc[i] # "done"
  /\ Exit(i)
  /\ UNCHANGED <<tableVars, objects, migratorVars>>

-----------------------------------------------------------------------------
(* A migrator: MigrateProducts or MigrateUsers.                               *)

(* The rows the query selects: only the first reference is looked at.         *)
Pending == {e \in Items : rowId[e] # 0 /\ pics[e][0] = Web}

StartMigration(m) ==
  /\ mpc[m] = "new"
  /\ mpc' = [mpc EXCEPT ![m] = IF Pending = {} THEN "none" ELSE "run"]
  /\ queue' = [queue EXCEPT ![m] = Pending]
  /\ held' = [held EXCEPT ![m] = [e \in Items |-> IF e \in Pending THEN pics[e] ELSE AllWeb]]
  /\ UNCHANGED <<tableVars, objects, importVars, cancelled, step, counted>>

Busy(m) == {e \in Items : step[m][e] # Idle}

(* A free worker looks at its context and takes the next job, in id order.    *)
TakeJob(m, e) ==
  /\ mpc[m] = "run"
  /\ ~cancelled[m]
  /\ Cardinality(Busy(m)) < Workers
  /\ e \in queue[m]
  /\ \A f \in queue[m] : rowId[e] <= rowId[f]
  /\ queue' = [queue EXCEPT ![m] = @ \ {e}]
  /\ step' = [step EXCEPT ![m][e] = 0]
  /\ UNCHANGED <<tableVars, objects, importVars, mpc, cancelled, held, counted>>

GoOn(m, e) == step' = [step EXCEPT ![m][e] = @ + 1]

(* The worker is through with the item.                                       *)
Drop(m, e) ==
  /\ step' = [step EXCEPT ![m][e] = Idle]
  /\ held' = [held EXCEPT ![m][e] = AllWeb]

(* The reference does not start with "http".                                  *)
KeepReference(m, e) ==
  /\ step[m][e] \in Slots
  /\ held[m][e][step[m][e]] # Web
  /\ GoOn(m, e)
  /\ UNCHANGED <<tableVars, objects, importVars, mpc, cancelled, queue, held, counted>>

StorePicture(m, e) ==
  /\ step[m][e] \in Slots
  /\ held[m][e][step[m][e]] = Web
  /\ ~cancelled[m]
  /\ objects' = Put(rowId[e], step[m][e], e)
  /\ held' = [held EXCEPT ![m][e][step[m][e]] = rowId[e]]
  /\ GoOn(m, e)
  /\ UNCHANGED <<tableVars, importVars, mpc, cancelled, queue, counted>>

(* A slip: the users' worker goes on to the UPDATE after a failure.           *)
MissAndGoOn(m, e) ==
  /\ step[m][e] \in Slots
  /\ held[m][e][step[m][e]] = Web
  /\ GoOn(m, e)
  /\ UNCHANGED <<tableVars, objects, importVars, mpc, cancelled, queue, held, counted>>

(* Download or upload fails (an upload may have arrived): a product keeps the *)
(* web address, a user is left as it is.                                      *)
LosePicture(m, e) ==
  /\ step[m][e] \in Slots
  /\ held[m][e][step[m][e]] = Web
  /\ objects' \in {objects, Put(rowId[e], step[m][e], e)}
  /\ \/ AlwaysUpdate /\ GoOn(m, e) /\ UNCHANGED held
     \/ ~AlwaysUpdate /\ Drop(m, e)
  /\ UNCHANGED <<tableVars, importVars, mpc, cancelled, queue, counted>>

(* UPDATE ... WHERE id, whatever is in the row by now.                        *)
UpdateRow(m, e) ==
  /\ step[m][e] = AtUpdate
  /\ ~cancelled[m]
  /\ pics' = [pics EXCEPT ![e] = held[m][e]]
  /\ counted' = [counted EXCEPT ![m] = @ \cup {e}]
  /\ Drop(m, e)
  /\ UNCHANGED <<rowId, lastId, objects, importVars, mpc, cancelled, queue>>

(* The UPDATE returns an error; it may have been applied.                     *)
UpdateFails(m, e) ==
  /\ step[m][e] = AtUpdate
  /\ pics' \in {pics, [pics EXCEPT ![e] = held[m][e]]}
  /\ Drop(m, e)
  /\ UNCHANGED <<rowId, lastId, objects, importVars, mpc, cancelled, queue, counted>>

(* A slip: waiting for the channel to be drained by workers that have gone.   *)
AwaitDrained(m) ==
  /\ mpc[m] = "run"
  /\ Busy(m) = {}
  /\ queue[m] = {}
  /\ mpc' = [mpc EXCEPT ![m] = "done"]
  /\ UNCHANGED <<tableVars, objects, importVars, cancelled, queue, step, held, counted>>

(* wg.Wait() returns: every worker has found the channel empty or its context *)
(* done.                                                                      *)
EndMigration(m) ==
  /\ mpc[m] = "run"
  /\ Busy(m) = {}
  /\ queue[m] = {} \/ cancelled[m]
  /\ mpc' = [mpc EXCEPT ![m] = "done"]
  /\ UNCHANGED <<tableVars, objects, importVars, cancelled, queue, step, held, counted>>

(* The 15 minutes are over, or a signal arrives.                              *)
CancelMigration(m) ==
  /\ mpc[m] = "run"
  /\ ~cancelled[m]
  /\ cancelled' = [cancelled EXCEPT ![m] = TRUE]
  /\ UNCHANGED <<tableVars, objects, importVars, mpc, queue, step, held, counted>>

KillMigrator(m) ==
  /\ mpc[m] = "run"
  /\ mpc' = [mpc EXCEPT ![m] = "dead"]
  /\ step' = [step EXCEPT ![m] = [e \in Items |-> Idle]]
  /\ held' = [held EXCEPT ![m] = [e \in Items |-> AllWeb]]
  /\ queue' = [queue EXCEPT ![m] = {}]
  /\ UNCHANGED <<tableVars, objects, importVars, cancelled, counted>>

-----------------------------------------------------------------------------
Import(i) ==
  \/ StartImport(i) \/ FetchPicture(i) \/ MissPicture(i) \/ EndFetch(i)
  \/ UpsertChunk(i) \/ UpsertUnacknowledged(i) \/ UpsertFails(i) \/ EndImport(i)

Work(m, e) ==
  \/ TakeJob(m, e) \/ KeepReference(m, e) \/ StorePicture(m, e) \/ LosePicture(m, e)
  \/ UpdateRow(m, e) \/ UpdateFails(m, e)

Next ==
  \/ \E i \in Imports : Import(i) \/ AbandonImport(i)
  \/ \E m \in Migrators :
       \/ StartMigration(m) \/ EndMigration(m) \/ CancelMigration(m) \/ KillMigrator(m)
       \/ \E e \in Items : Work(m, e)

Spec == Init /\ [][Next]_vars

(* A program that runs goes on: every HTTP, S3 and database call returns, by  *)
(* its timeout or the deadline of the context.                                *)
Fairness ==
  /\ \A i \in Imports : WF_vars(ipc[i] # "new" /\ Import(i))
  /\ \A m \in Migrators : WF_vars(EndMigration(m) \/ \E e \in Items : Work(m, e))

FairSpec == Spec /\ Fairness

-----------------------------------------------------------------------------
(* A row never refers to an object that is not there: the importer            *)
(* (uploadImageToS3) and the migrator write a /media/ reference only after    *)
(* PutObject has returned, whatever fails and whoever else writes.            *)
ReferencesResolve ==
  \A e \in Items, s \in Slots :
    pics[e][s] # Web => \E o \in objects : o.name = pics[e][s] /\ o.slot = s

(* Another item's external_id is this row's id, or the other way round.       *)
IdsCross(e) ==
  \E f \in Items \ {e} : ImportName[f] = rowId[e] \/ ImportName[e] = rowId[f]

(* products.go names objects after external_id, migrate_media.go after id,    *)
(* under the same folder: a row may show another product's picture, but only  *)
(* one whose ids cross with its own.  Users have a uuid where products have   *)
(* the external_id and always show their own.                                 *)
OwnPictures ==
  \A e \in Items, s \in Slots : \A o \in objects :
    pics[e][s] # Web /\ o.name = pics[e][s] /\ o.slot = s => o.of = e \/ IdsCross(e)

(* MigrateUsers skips a user whose avatar it could not store: however runs    *)
(* overlap, only an import ever turns a stored avatar back to its web address.*)
AvatarsKept ==
  [][\A e \in Items :
       pics[e][0] # Web /\ pics'[e][0] = Web
         => \E i \in Imports : ipc[i] = "upsert" /\ e \in Chunk(i) /\ Upserted(i)]_vars

(* What MigrateUsers counts as migrated has been stored, under its own id.    *)
CountedIsStored ==
  \A m \in Migrators : \A e \in counted[m] :
    \E o \in objects : o.name = rowId[e] /\ o.slot = 0

(* Every run ends, also when its context does: wg.Wait() does not hang.       *)
RunsEnd ==
  /\ \A i \in Imports : ipc[i] \in {"fetch", "upsert"} ~> ipc[i] = "done"
  /\ \A m \in Migrators : mpc[m] = "run" ~> mpc[m] \in {"done", "dead"}

(* Taskfile.yml:52 describes the migrator as "Migrate existing media from     *)
(* PostgreSQL to RustFS S3": when it finds nothing left to do, no picture is  *)
(* left outside.  It does not hold: a row is selected by its thumbnail alone  *)
(* and pictures of the gallery that failed are never tried again.             *)
NothingPendingMeansMigrated ==
  [][\A m \in Migrators :
       mpc[m] # "none" /\ mpc'[m] = "none"
         => \A e \in Items, s \in Slots : rowId[e] # 0 => pics[e][s] # Web]_vars
-----------------------------------------------------------------------------
(* The invariant the proofs rest on.                                          *)

(* The names an item's objects go by: the importer's and the migrator's.      *)
GoesBy(e, name) == name = ImportName[e] \/ (rowId[e] # 0 /\ name = rowId[e])

Stored(name, s) == \E o \in objects : o.name = name /\ o.slot = s

(* References in rows, and those on their way into rows, name what is stored. *)
ReferencesStored ==
  /\ ReferencesResolve
  /\ \A i \in Imports, e \in Items, s \in Slots :
       fetched[i][e][s] # Web => Stored(fetched[i][e][s], s)
  /\ \A m \in Migrators, e \in Items, s \in Slots :
       held[m][e][s] # Web => Stored(held[m][e][s], s)

(* ... and name it as one of the item's own.                                  *)
ReferencesNamed ==
  /\ \A e \in Items, s \in Slots : pics[e][s] # Web => GoesBy(e, pics[e][s])
  /\ \A i \in Imports, e \in Items, s \in Slots :
       fetched[i][e][s] # Web => fetched[i][e][s] = ImportName[e]
  /\ \A m \in Migrators, e \in Items, s \in Slots :
       held[m][e][s] # Web => GoesBy(e, held[m][e][s])

ObjectsNamed == \A o \in objects : GoesBy(o.of, o.name)

IdsDistinct ==
  /\ \A e \in Items : rowId[e] <= lastId
  /\ \A e, f \in Items : rowId[e] # 0 /\ rowId[e] = rowId[f] => e = f

(* A migrator works on rows that exist.                                       *)
JobsHaveRows ==
  \A m \in Migrators, e \in Items : e \in queue[m] \/ step[m][e] # Idle => rowId[e] # 0

PictureInv ==
  /\ TypeOK
  /\ ReferencesStored
  /\ ReferencesNamed
  /\ ObjectsNamed
  /\ IdsDistinct
  /\ JobsHaveRows
(* MigrateUsers takes up rows whose avatar is outside, and goes on to the     *)
(* UPDATE only with an avatar that it has stored under the row's id.          *)
AvatarsInHand ==
  \A m \in Migrators, e \in Items :
    /\ mpc[m] = "new" => step[m][e] = Idle
    /\ e \in queue[m] => step[m][e] = Idle /\ held[m][e][0] = Web
    /\ step[m][e] = 0 => held[m][e][0] = Web
    /\ step[m][e] \in 1..AtUpdate => held[m][e][0] = rowId[e]
    /\ e \in counted[m] => rowId[e] # 0

UsersInv == PictureInv /\ AvatarsInHand /\ CountedIsStored
=============================================================================
