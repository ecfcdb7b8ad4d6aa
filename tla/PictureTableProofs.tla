------------------------ MODULE PictureTableProofs ------------------------
(* PictureTable keeps its promises for every set of items, runs and workers,  *)
(* every feed and every gallery.  PictureInv is inductive: one lemma per      *)
(* conjunct, one step per action.                                             *)
EXTENDS PictureTable, TLAPS

(* What PutObject leaves in the bucket.                                       *)
LEMMA PutEffect ==
  ASSUME objects \subseteq [name : Names, slot : Slots, of : Items],
         NEW n \in Names, NEW s \in Slots, NEW e \in Items
  PROVE  /\ Put(n, s, e) \subseteq [name : Names, slot : Slots, of : Items]
         /\ \E o \in Put(n, s, e) : o.name = n /\ o.slot = s
         /\ \A o \in Put(n, s, e) : o \in objects \/ (o.name = n /\ o.slot = s /\ o.of = e)
         /\ \A o \in objects : \E p \in Put(n, s, e) : p.name = o.name /\ p.slot = o.slot
<1>1. [name |-> n, slot |-> s, of |-> e] \in Put(n, s, e)
  BY DEF Put
<1>2. ASSUME NEW o \in objects
      PROVE  \E p \in Put(n, s, e) : p.name = o.name /\ p.slot = o.slot
  <2>1. CASE o.name = n /\ o.slot = s
    BY <1>1, <2>1
  <2>2. CASE ~(o.name = n /\ o.slot = s)
    BY <2>2 DEF Put
  <2> QED
    BY <2>1, <2>2
<1>3. Put(n, s, e) \subseteq [name : Names, slot : Slots, of : Items]
  BY DEF Put
<1>4. \A o \in Put(n, s, e) : o \in objects \/ (o.name = n /\ o.slot = s /\ o.of = e)
  BY DEF Put
<1> QED
  BY <1>1, <1>2, <1>3, <1>4

(* The item an importer is at, and the ends of its next batch.                *)
LEMMA FeedFacts ==
  ASSUME TypeOK, NEW i \in Imports, pos[i] < Len(feed[i])
  PROVE  /\ pos[i] \in Nat /\ Len(feed[i]) \in Nat
         /\ \A k \in 1..Len(feed[i]) : feed[i][k] \in Items
         /\ Current(i) \in Items
         /\ ChunkEnd(i) \in Nat /\ pos[i] < ChunkEnd(i) /\ ChunkEnd(i) <= Len(feed[i])
<1>1. feed[i] \in Seq(Items)
  BY PicturesAssumption DEF TypeOK
<1>2. pos[i] \in Nat /\ Len(feed[i]) \in Nat
  BY <1>1 DEF TypeOK
<1>3. \A k \in 1..Len(feed[i]) : feed[i][k] \in Items
  BY <1>1
<1>4. Current(i) \in Items
  BY <1>2, <1>3 DEF Current
<1>5. ChunkEnd(i) \in Nat /\ pos[i] < ChunkEnd(i) /\ ChunkEnd(i) <= Len(feed[i])
  BY <1>2, PicturesAssumption DEF ChunkEnd
<1> QED
  BY <1>2, <1>3, <1>4, <1>5

(* A batch gives new rows fresh and distinct ids and old rows their own.      *)
LEMMA UpsertEffect ==
  ASSUME TypeOK, NEW i \in Imports, pos[i] < Len(feed[i]), Upserted(i)
  PROVE  /\ rowId' \in [Items -> Nat]
         /\ lastId' \in Nat /\ lastId < lastId'
         /\ pics' = [e \in Items |-> IF e \in Chunk(i) THEN fetched[i][e] ELSE pics[e]]
         /\ \A e \in Items : rowId[e] # 0 => rowId'[e] = rowId[e]
         /\ \A e \in Items : rowId'[e] # rowId[e] => lastId < rowId'[e] /\ rowId'[e] <= lastId'
         /\ \A e, f \in Items :
              rowId'[e] # rowId[e] /\ rowId'[f] # rowId[f] /\ rowId'[e] = rowId'[f] => e = f
<1> DEFINE Place(e) == CHOOSE k \in (pos[i] + 1)..ChunkEnd(i) : feed[i][k] = e
<1>1. /\ rowId' = [e \in Items |->
                     IF e \in Chunk(i) /\ rowId[e] = 0 THEN lastId - pos[i] + Place(e) ELSE rowId[e]]
      /\ pics' = [e \in Items |-> IF e \in Chunk(i) THEN fetched[i][e] ELSE pics[e]]
      /\ lastId' = lastId + ChunkEnd(i) - pos[i]
  BY DEF Upserted
<1>2. /\ pos[i] \in Nat /\ ChunkEnd(i) \in Nat
      /\ pos[i] < ChunkEnd(i)
      /\ lastId \in Nat /\ rowId \in [Items -> Nat]
  BY FeedFacts DEF TypeOK
<1>3. \A e \in Chunk(i) : Place(e) \in (pos[i] + 1)..ChunkEnd(i) /\ feed[i][Place(e)] = e
  BY DEF Chunk
<1> HIDE DEF Place
<1>4. \A e \in Chunk(i) : Place(e) \in Int /\ pos[i] + 1 <= Place(e) /\ Place(e) <= ChunkEnd(i)
  BY <1>2, <1>3
<1>5. rowId' \in [Items -> Nat]
  BY <1>1, <1>2, <1>4
<1>6. lastId' \in Nat /\ lastId < lastId'
  BY <1>1, <1>2
<1>7. \A e \in Items : rowId[e] # 0 => rowId'[e] = rowId[e]
  BY <1>1
<1>8. \A e \in Items : rowId'[e] # rowId[e] =>
        e \in Chunk(i) /\ rowId'[e] = lastId - pos[i] + Place(e)
  BY <1>1
<1>9. \A e \in Items : rowId'[e] # rowId[e] => lastId < rowId'[e] /\ rowId'[e] <= lastId'
  BY <1>1, <1>2, <1>4, <1>8
<1>10. ASSUME NEW e \in Items, NEW f \in Items,
              rowId'[e] # rowId[e], rowId'[f] # rowId[f], rowId'[e] = rowId'[f]
       PROVE  e = f
  <2>1. Place(e) = Place(f)
    BY <1>2, <1>4, <1>8, <1>10
  <2> QED
    BY <1>3, <1>8, <1>10, <2>1
<1> QED
  BY <1>1, <1>5, <1>6, <1>7, <1>9, <1>10

(* Constants are where they are used.                                         *)
LEMMA ConstantFacts ==
  /\ Gallery \in Nat
  /\ \A s \in Slots : s \in Nat /\ s <= Gallery
  /\ \A s \in Nat : s <= Gallery => s \in Slots
  /\ 0 \in Slots /\ Idle \notin Slots /\ AtUpdate \notin Slots
  /\ AtUpdate \in 0..Idle /\ Idle \in 0..Idle /\ Slots \subseteq 0..Idle
  /\ \A s \in Slots : s + 1 \in 0..Idle /\ s + 1 # Idle
  /\ \A s \in Slots : s # Gallery => s + 1 \in Slots
  /\ Nat \subseteq Names
  /\ \A e \in Items : ImportName[e] \in Names
  /\ AllWeb \in [Slots -> Names \cup {Web}]
  /\ Web \notin Names
  BY PicturesAssumption DEF Slots, Names, AllWeb, Idle, AtUpdate

(* Every action keeps the types.                                              *)
LEMMA PictureTypes ==
  ASSUME PictureInv, Next
  PROVE  TypeOK'
<1> USE PicturesAssumption DEF PictureInv, tableVars, importVars, migratorVars
<1>1. ASSUME NEW i \in Imports, StartImport(i) PROVE TypeOK'
  <2>1. PICK list \in Feeds : feed' = [feed EXCEPT ![i] = list]
    BY <1>1 DEF StartImport
  <2>2. PICK upload \in BOOLEAN : ipc' = [ipc EXCEPT ![i] = IF upload THEN "fetch" ELSE "upsert"]
    BY <1>1 DEF StartImport
  <2> QED
    BY <1>1, <2>1, <2>2 DEF StartImport, TypeOK
<1>2. ASSUME NEW i \in Imports, FetchPicture(i) PROVE TypeOK'
  <2>1. /\ Current(i) \in Items
        /\ ImportKey(i) \in Names
        /\ shot[i] \in Slots
    BY <1>2, FeedFacts, ConstantFacts DEF FetchPicture, TypeOK, ImportKey
  <2>2. objects' \subseteq [name : Names, slot : Slots, of : Items]
    BY <1>2, <2>1, PutEffect DEF FetchPicture, TypeOK
  <2>3. pos' \in [Imports -> Nat] /\ shot' \in [Imports -> Slots]
    <3>1. pos' = [pos EXCEPT ![i] = IF shot[i] = Gallery THEN pos[i] + 1 ELSE pos[i]]
      BY <1>2 DEF FetchPicture, NextShot
    <3>2. shot' = [shot EXCEPT ![i] = IF shot[i] = Gallery THEN 0 ELSE shot[i] + 1]
      BY <1>2 DEF FetchPicture, NextShot
    <3>3. (IF shot[i] = Gallery THEN pos[i] + 1 ELSE pos[i]) \in Nat
      BY DEF TypeOK
    <3>4. (IF shot[i] = Gallery THEN 0 ELSE shot[i] + 1) \in Slots
      BY <2>1, ConstantFacts
    <3> QED
      BY <3>1, <3>2, <3>3, <3>4 DEF TypeOK
  <2>4. fetched' \in [Imports -> [Items -> [Slots -> Names \cup {Web}]]]
    BY <1>2, <2>1 DEF FetchPicture, TypeOK
  <2> QED
    BY <1>2, <2>2, <2>3, <2>4 DEF FetchPicture, TypeOK
<1>3. ASSUME NEW i \in Imports, MissPicture(i) PROVE TypeOK'
  <2>1. /\ Current(i) \in Items
        /\ ImportKey(i) \in Names
        /\ shot[i] \in Slots
    BY <1>3, FeedFacts, ConstantFacts DEF MissPicture, TypeOK, ImportKey
  <2>2. objects' \subseteq [name : Names, slot : Slots, of : Items]
    BY <1>3, <2>1, PutEffect DEF MissPicture, TypeOK
  <2>3. pos' \in [Imports -> Nat] /\ shot' \in [Imports -> Slots]
    <3>1. pos' = [pos EXCEPT ![i] = IF shot[i] = Gallery THEN pos[i] + 1 ELSE pos[i]]
      BY <1>3 DEF MissPicture, NextShot
    <3>2. shot' = [shot EXCEPT ![i] = IF shot[i] = Gallery THEN 0 ELSE shot[i] + 1]
      BY <1>3 DEF MissPicture, NextShot
    <3>3. (IF shot[i] = Gallery THEN pos[i] + 1 ELSE pos[i]) \in Nat
      BY DEF TypeOK
    <3>4. (IF shot[i] = Gallery THEN 0 ELSE shot[i] + 1) \in Slots
      BY <2>1, ConstantFacts
    <3> QED
      BY <3>1, <3>2, <3>3, <3>4 DEF TypeOK
  <2> QED
    BY <1>3, <2>2, <2>3 DEF MissPicture, TypeOK
<1>4. ASSUME NEW i \in Imports, EndFetch(i) PROVE TypeOK'
  BY <1>4, ConstantFacts DEF EndFetch, TypeOK
<1>5. ASSUME NEW i \in Imports, UpsertChunk(i) PROVE TypeOK'
  <2>1. rowId' \in [Items -> Nat] /\ lastId' \in Nat
    BY <1>5, UpsertEffect DEF UpsertChunk
  <2>2. pics' \in [Items -> [Slots -> Names \cup {Web}]]
    <3>1. pics' = [e \in Items |-> IF e \in Chunk(i) THEN fetched[i][e] ELSE pics[e]]
      BY <1>5, UpsertEffect DEF UpsertChunk
    <3> QED
      BY <3>1 DEF TypeOK
  <2>3. ChunkEnd(i) \in Nat
    BY <1>5, FeedFacts DEF UpsertChunk
  <2> QED
    BY <1>5, <2>1, <2>2, <2>3, ConstantFacts DEF UpsertChunk, TypeOK
<1>6. ASSUME NEW i \in Imports, UpsertUnacknowledged(i) PROVE TypeOK'
  <2>1. rowId' \in [Items -> Nat] /\ lastId' \in Nat
    BY <1>6, UpsertEffect DEF UpsertUnacknowledged
  <2>2. pics' \in [Items -> [Slots -> Names \cup {Web}]]
    <3>1. pics' = [e \in Items |-> IF e \in Chunk(i) THEN fetched[i][e] ELSE pics[e]]
      BY <1>6, UpsertEffect DEF UpsertUnacknowledged
    <3> QED
      BY <3>1 DEF TypeOK
  <2>3. ChunkEnd(i) \in Nat
    BY <1>6, FeedFacts DEF UpsertUnacknowledged
  <2> QED
    BY <1>6, <2>1, <2>2, <2>3, ConstantFacts DEF UpsertUnacknowledged, TypeOK, Exit
<1>7. ASSUME NEW i \in Imports, UpsertFails(i) PROVE TypeOK'
  <2>1. PICK drawn \in 0..(ChunkEnd(i) - pos[i]) : lastId' = lastId + drawn
    BY <1>7 DEF UpsertFails
  <2>2. ChunkEnd(i) \in Nat /\ pos[i] \in Nat
    BY <1>7, FeedFacts DEF UpsertFails
  <2>3. lastId' \in Nat
    BY <2>1, <2>2 DEF TypeOK
  <2> QED
    BY <1>7, <2>3, ConstantFacts DEF UpsertFails, TypeOK, Exit
<1>8. ASSUME NEW i \in Imports, EndImport(i) PROVE TypeOK'
  BY <1>8, ConstantFacts DEF EndImport, TypeOK, Exit
<1>9. ASSUME NEW i \in Imports, AbandonImport(i) PROVE TypeOK'
  BY <1>9, ConstantFacts DEF AbandonImport, TypeOK, Exit
<1>10. ASSUME NEW m \in Migrators, StartMigration(m) PROVE TypeOK'
  BY <1>10, ConstantFacts DEF StartMigration, TypeOK, Pending
<1>11. ASSUME NEW m \in Migrators, EndMigration(m) PROVE TypeOK'
  BY <1>11, ConstantFacts DEF EndMigration, TypeOK
<1>12. ASSUME NEW m \in Migrators, CancelMigration(m) PROVE TypeOK'
  BY <1>12, ConstantFacts DEF CancelMigration, TypeOK
<1>13. ASSUME NEW m \in Migrators, KillMigrator(m) PROVE TypeOK'
  BY <1>13, ConstantFacts DEF KillMigrator, TypeOK
<1>14. ASSUME NEW m \in Migrators, NEW e \in Items, TakeJob(m, e) PROVE TypeOK'
  BY <1>14, ConstantFacts DEF TakeJob, TypeOK
<1>15. ASSUME NEW m \in Migrators, NEW e \in Items, KeepReference(m, e) PROVE TypeOK'
  BY <1>15, ConstantFacts DEF KeepReference, TypeOK, GoOn
<1>16. ASSUME NEW m \in Migrators, NEW e \in Items, StorePicture(m, e) PROVE TypeOK'
  <2>1. rowId[e] \in Names /\ step[m][e] \in Slots
    BY <1>16, ConstantFacts DEF StorePicture, TypeOK
  <2>2. objects' \subseteq [name : Names, slot : Slots, of : Items]
    BY <1>16, <2>1, PutEffect DEF StorePicture, TypeOK
  <2>3. held' \in [Migrators -> [Items -> [Slots -> Names \cup {Web}]]]
    BY <1>16, <2>1 DEF StorePicture, TypeOK
  <2>4. step' \in [Migrators -> [Items -> 0..Idle]]
    BY <1>16, <2>1, ConstantFacts DEF StorePicture, GoOn, TypeOK
  <2> QED
    BY <1>16, <2>2, <2>3, <2>4 DEF StorePicture, TypeOK
<1>17. ASSUME NEW m \in Migrators, NEW e \in Items, LosePicture(m, e) PROVE TypeOK'
  <2>1. rowId[e] \in Names /\ step[m][e] \in Slots
    BY <1>17, ConstantFacts DEF LosePicture, TypeOK
  <2>2. objects' \subseteq [name : Names, slot : Slots, of : Items]
    BY <1>17, <2>1, PutEffect DEF LosePicture, TypeOK
  <2>3. /\ held' \in [Migrators -> [Items -> [Slots -> Names \cup {Web}]]]
        /\ step' \in [Migrators -> [Items -> 0..Idle]]
    <3>1. CASE GoOn(m, e) /\ UNCHANGED held
      BY <2>1, <3>1, ConstantFacts DEF GoOn, TypeOK
    <3>2. CASE Drop(m, e)
      BY <3>2, ConstantFacts DEF Drop, TypeOK
    <3> QED
      BY <1>17, <3>1, <3>2 DEF LosePicture
  <2> QED
    BY <1>17, <2>2, <2>3 DEF LosePicture, TypeOK
<1>18. ASSUME NEW m \in Migrators, NEW e \in Items, UpdateRow(m, e) PROVE TypeOK'
  BY <1>18, ConstantFacts DEF UpdateRow, TypeOK, Drop
<1>19. ASSUME NEW m \in Migrators, NEW e \in Items, UpdateFails(m, e) PROVE TypeOK'
  <2>1. pics' \in [Items -> [Slots -> Names \cup {Web}]]
    <3>1. CASE pics' = pics
      BY <3>1 DEF TypeOK
    <3>2. CASE pics' = [pics EXCEPT ![e] = held[m][e]]
      BY <3>2 DEF TypeOK
    <3> QED
      BY <1>19, <3>1, <3>2 DEF UpdateFails
  <2> QED
    BY <1>19, <2>1, ConstantFacts DEF UpdateFails, Drop, TypeOK
<1> QED
  BY <1>1, <1>2, <1>3, <1>4, <1>5, <1>6, <1>7, <1>8, <1>9, <1>10, <1>11, <1>12, <1>13, <1>14, <1>15, <1>16, <1>17, <1>18, <1>19 DEF Next, Import, Work

(* Ids stay distinct and behind the sequence.                                 *)
LEMMA PictureIds ==
  ASSUME PictureInv, Next
  PROVE  IdsDistinct'
<1> USE PicturesAssumption DEF PictureInv, tableVars, importVars, migratorVars
<1>1. ASSUME NEW i \in Imports, StartImport(i) PROVE IdsDistinct'
  BY <1>1 DEF StartImport, IdsDistinct
<1>2. ASSUME NEW i \in Imports, FetchPicture(i) PROVE IdsDistinct'
  BY <1>2 DEF FetchPicture, IdsDistinct
<1>3. ASSUME NEW i \in Imports, MissPicture(i) PROVE IdsDistinct'
  BY <1>3 DEF MissPicture, IdsDistinct
<1>4. ASSUME NEW i \in Imports, EndFetch(i) PROVE IdsDistinct'
  BY <1>4 DEF EndFetch, IdsDistinct
<1>5. ASSUME NEW i \in Imports, UpsertChunk(i) PROVE IdsDistinct'
  <2>1. /\ \A e \in Items : rowId[e] # 0 => rowId'[e] = rowId[e]
        /\ \A e \in Items : rowId'[e] # rowId[e] => lastId < rowId'[e] /\ rowId'[e] <= lastId'
        /\ \A e, f \in Items :
             rowId'[e] # rowId[e] /\ rowId'[f] # rowId[f] /\ rowId'[e] = rowId'[f] => e = f
        /\ lastId < lastId' /\ lastId \in Nat /\ lastId' \in Nat
        /\ rowId \in [Items -> Nat] /\ rowId' \in [Items -> Nat]
    BY <1>5, UpsertEffect DEF UpsertChunk, TypeOK
  <2> QED
    BY <2>1 DEF IdsDistinct
<1>6. ASSUME NEW i \in Imports, UpsertUnacknowledged(i) PROVE IdsDistinct'
  <2>1. /\ \A e \in Items : rowId[e] # 0 => rowId'[e] = rowId[e]
        /\ \A e \in Items : rowId'[e] # rowId[e] => lastId < rowId'[e] /\ rowId'[e] <= lastId'
        /\ \A e, f \in Items :
             rowId'[e] # rowId[e] /\ rowId'[f] # rowId[f] /\ rowId'[e] = rowId'[f] => e = f
        /\ lastId < lastId' /\ lastId \in Nat /\ lastId' \in Nat
        /\ rowId \in [Items -> Nat] /\ rowId' \in [Items -> Nat]
    BY <1>6, UpsertEffect DEF UpsertUnacknowledged, TypeOK
  <2> QED
    BY <2>1 DEF IdsDistinct
<1>7. ASSUME NEW i \in Imports, UpsertFails(i) PROVE IdsDistinct'
  <2>1. PICK drawn \in 0..(ChunkEnd(i) - pos[i]) : lastId' = lastId + drawn
    BY <1>7 DEF UpsertFails
  <2>2. ChunkEnd(i) \in Nat /\ pos[i] \in Nat
    BY <1>7, FeedFacts DEF UpsertFails
  <2>3. lastId' \in Nat /\ lastId <= lastId'
    BY <2>1, <2>2 DEF TypeOK
  <2> QED
    BY <1>7, <2>3 DEF UpsertFails, IdsDistinct, TypeOK
<1>8. ASSUME NEW i \in Imports, EndImport(i) PROVE IdsDistinct'
  BY <1>8 DEF EndImport, IdsDistinct
<1>9. ASSUME NEW i \in Imports, AbandonImport(i) PROVE IdsDistinct'
  BY <1>9 DEF AbandonImport, IdsDistinct
<1>10. ASSUME NEW m \in Migrators, StartMigration(m) PROVE IdsDistinct'
  BY <1>10 DEF StartMigration, IdsDistinct
<1>11. ASSUME NEW m \in Migrators, EndMigration(m) PROVE IdsDistinct'
  BY <1>11 DEF EndMigration, IdsDistinct
<1>12. ASSUME NEW m \in Migrators, CancelMigration(m) PROVE IdsDistinct'
  BY <1>12 DEF CancelMigration, IdsDistinct
<1>13. ASSUME NEW m \in Migrators, KillMigrator(m) PROVE IdsDistinct'
  BY <1>13 DEF KillMigrator, IdsDistinct
<1>14. ASSUME NEW m \in Migrators, NEW e \in Items, TakeJob(m, e) PROVE IdsDistinct'
  BY <1>14 DEF TakeJob, IdsDistinct
<1>15. ASSUME NEW m \in Migrators, NEW e \in Items, KeepReference(m, e) PROVE IdsDistinct'
  BY <1>15 DEF KeepReference, IdsDistinct
<1>16. ASSUME NEW m \in Migrators, NEW e \in Items, StorePicture(m, e) PROVE IdsDistinct'
  BY <1>16 DEF StorePicture, IdsDistinct
<1>17. ASSUME NEW m \in Migrators, NEW e \in Items, LosePicture(m, e) PROVE IdsDistinct'
  BY <1>17 DEF LosePicture, IdsDistinct
<1>18. ASSUME NEW m \in Migrators, NEW e \in Items, UpdateRow(m, e) PROVE IdsDistinct'
  BY <1>18 DEF UpdateRow, IdsDistinct
<1>19. ASSUME NEW m \in Migrators, NEW e \in Items, UpdateFails(m, e) PROVE IdsDistinct'
  BY <1>19 DEF UpdateFails, IdsDistinct
<1> QED
  BY <1>1, <1>2, <1>3, <1>4, <1>5, <1>6, <1>7, <1>8, <1>9, <1>10, <1>11, <1>12, <1>13, <1>14, <1>15, <1>16, <1>17, <1>18, <1>19 DEF Next, Import, Work

(* A row, once there, keeps its id.                                           *)
LEMMA RowsKept ==
  ASSUME TypeOK, Next
  PROVE  \A e \in Items : rowId[e] # 0 => rowId'[e] = rowId[e]
<1> USE DEF tableVars, importVars, migratorVars
<1>1. ASSUME NEW i \in Imports, UpsertChunk(i) \/ UpsertUnacknowledged(i)
      PROVE  \A e \in Items : rowId[e] # 0 => rowId'[e] = rowId[e]
  BY <1>1, UpsertEffect DEF UpsertChunk, UpsertUnacknowledged
<1>2. ASSUME NEW i \in Imports, Import(i) \/ AbandonImport(i),
             ~(UpsertChunk(i) \/ UpsertUnacknowledged(i))
      PROVE  rowId' = rowId
  BY <1>2 DEF Import, StartImport, FetchPicture, MissPicture, EndFetch, UpsertFails, EndImport, AbandonImport
<1>3. ASSUME NEW m \in Migrators,
             \/ StartMigration(m) \/ EndMigration(m) \/ CancelMigration(m) \/ KillMigrator(m)
             \/ \E e \in Items : Work(m, e)
      PROVE  rowId' = rowId
  BY <1>3 DEF StartMigration, EndMigration, CancelMigration, KillMigrator, Work, TakeJob,
              KeepReference, StorePicture, LosePicture, UpdateRow, UpdateFails
<1> QED
  BY <1>1, <1>2, <1>3 DEF Next

(* A migrator works on rows that exist.                                       *)
LEMMA PictureJobs ==
  ASSUME PictureInv, Next
  PROVE  JobsHaveRows'
<1> USE PicturesAssumption DEF PictureInv, tableVars, importVars, migratorVars
<1>1. ASSUME NEW i \in Imports, StartImport(i) PROVE JobsHaveRows'
  BY <1>1, RowsKept DEF StartImport, JobsHaveRows, TypeOK
<1>2. ASSUME NEW i \in Imports, FetchPicture(i) PROVE JobsHaveRows'
  BY <1>2, RowsKept DEF FetchPicture, JobsHaveRows, TypeOK
<1>3. ASSUME NEW i \in Imports, MissPicture(i) PROVE JobsHaveRows'
  BY <1>3, RowsKept DEF MissPicture, JobsHaveRows, TypeOK
<1>4. ASSUME NEW i \in Imports, EndFetch(i) PROVE JobsHaveRows'
  BY <1>4, RowsKept DEF EndFetch, JobsHaveRows, TypeOK
<1>5. ASSUME NEW i \in Imports, UpsertChunk(i) PROVE JobsHaveRows'
  BY <1>5, RowsKept DEF UpsertChunk, JobsHaveRows, TypeOK
<1>6. ASSUME NEW i \in Imports, UpsertUnacknowledged(i) PROVE JobsHaveRows'
  BY <1>6, RowsKept DEF UpsertUnacknowledged, JobsHaveRows, TypeOK, Exit
<1>7. ASSUME NEW i \in Imports, UpsertFails(i) PROVE JobsHaveRows'
  BY <1>7, RowsKept DEF UpsertFails, JobsHaveRows, TypeOK, Exit
<1>8. ASSUME NEW i \in Imports, EndImport(i) PROVE JobsHaveRows'
  BY <1>8, RowsKept DEF EndImport, JobsHaveRows, TypeOK, Exit
<1>9. ASSUME NEW i \in Imports, AbandonImport(i) PROVE JobsHaveRows'
  BY <1>9, RowsKept DEF AbandonImport, JobsHaveRows, TypeOK, Exit
<1>10. ASSUME NEW m \in Migrators, StartMigration(m) PROVE JobsHaveRows'
  BY <1>10, RowsKept DEF StartMigration, JobsHaveRows, TypeOK, Pending
<1>11. ASSUME NEW m \in Migrators, EndMigration(m) PROVE JobsHaveRows'
  BY <1>11, RowsKept DEF EndMigration, JobsHaveRows, TypeOK
<1>12. ASSUME NEW m \in Migrators, CancelMigration(m) PROVE JobsHaveRows'
  BY <1>12, RowsKept DEF CancelMigration, JobsHaveRows, TypeOK
<1>13. ASSUME NEW m \in Migrators, KillMigrator(m) PROVE JobsHaveRows'
  BY <1>13, RowsKept DEF KillMigrator, JobsHaveRows, TypeOK
<1>14. ASSUME NEW m \in Migrators, NEW e \in Items, TakeJob(m, e) PROVE JobsHaveRows'
  BY <1>14, RowsKept DEF TakeJob, JobsHaveRows, TypeOK, Idle
<1>15. ASSUME NEW m \in Migrators, NEW e \in Items, KeepReference(m, e) PROVE JobsHaveRows'
  <2>1. step[m][e] # Idle
    BY <1>15, ConstantFacts DEF KeepReference
  <2>2. rowId[e] # 0
    BY <2>1 DEF JobsHaveRows
  <2>3. \A n \in Migrators, g \in Items : n # m \/ g # e => step'[n][g] = step[n][g]
    BY <1>15 DEF KeepReference, GoOn, Drop, TypeOK
  <2>4. queue' = queue /\ rowId' = rowId
    BY <1>15 DEF KeepReference
  <2> QED
    BY <2>2, <2>3, <2>4 DEF JobsHaveRows
<1>16. ASSUME NEW m \in Migrators, NEW e \in Items, StorePicture(m, e) PROVE JobsHaveRows'
  <2>1. step[m][e] # Idle
    BY <1>16, ConstantFacts DEF StorePicture
  <2>2. rowId[e] # 0
    BY <2>1 DEF JobsHaveRows
  <2>3. \A n \in Migrators, g \in Items : n # m \/ g # e => step'[n][g] = step[n][g]
    BY <1>16 DEF StorePicture, GoOn, Drop, TypeOK
  <2>4. queue' = queue /\ rowId' = rowId
    BY <1>16 DEF StorePicture
  <2> QED
    BY <2>2, <2>3, <2>4 DEF JobsHaveRows
<1>17. ASSUME NEW m \in Migrators, NEW e \in Items, LosePicture(m, e) PROVE JobsHaveRows'
  <2>1. step[m][e] # Idle
    BY <1>17, ConstantFacts DEF LosePicture
  <2>2. rowId[e] # 0
    BY <2>1 DEF JobsHaveRows
  <2>3. \A n \in Migrators, g \in Items : n # m \/ g # e => step'[n][g] = step[n][g]
    BY <1>17 DEF LosePicture, GoOn, Drop, TypeOK
  <2>4. queue' = queue /\ rowId' = rowId
    BY <1>17 DEF LosePicture
  <2> QED
    BY <2>2, <2>3, <2>4 DEF JobsHaveRows
<1>18. ASSUME NEW m \in Migrators, NEW e \in Items, UpdateRow(m, e) PROVE JobsHaveRows'
  BY <1>18, RowsKept DEF UpdateRow, JobsHaveRows, TypeOK, Drop, Idle
<1>19. ASSUME NEW m \in Migrators, NEW e \in Items, UpdateFails(m, e) PROVE JobsHaveRows'
  BY <1>19, RowsKept DEF UpdateFails, JobsHaveRows, TypeOK, Drop, Idle
<1> QED
  BY <1>1, <1>2, <1>3, <1>4, <1>5, <1>6, <1>7, <1>8, <1>9, <1>10, <1>11, <1>12, <1>13, <1>14, <1>15, <1>16, <1>17, <1>18, <1>19 DEF Next, Import, Work

(* An object goes by a name of the item it shows.                             *)
LEMMA PictureObjects ==
  ASSUME PictureInv, Next
  PROVE  ObjectsNamed'
<1> USE PicturesAssumption DEF PictureInv, tableVars, importVars, migratorVars
<1>1. ASSUME NEW i \in Imports, StartImport(i) PROVE ObjectsNamed'
  BY <1>1, RowsKept DEF StartImport, ObjectsNamed, GoesBy, TypeOK
<1>2. ASSUME NEW i \in Imports, FetchPicture(i) PROVE ObjectsNamed'
  <2>1. ImportKey(i) \in Names /\ Current(i) \in Items /\ shot[i] \in Slots /\ GoesBy(Current(i), ImportKey(i))
    BY <1>2, FeedFacts, ConstantFacts DEF FetchPicture, TypeOK, ImportKey, GoesBy
  <2>2. \A o \in objects' : o \in objects \/ (o.name = ImportKey(i) /\ o.slot = shot[i] /\ o.of = Current(i))
    BY <1>2, <2>1, PutEffect DEF FetchPicture, TypeOK
  <2>3. rowId' = rowId
    BY <1>2 DEF FetchPicture
  <2> QED
    BY <2>1, <2>2, <2>3 DEF ObjectsNamed, GoesBy
<1>3. ASSUME NEW i \in Imports, MissPicture(i) PROVE ObjectsNamed'
  <2>1. ImportKey(i) \in Names /\ Current(i) \in Items /\ shot[i] \in Slots /\ GoesBy(Current(i), ImportKey(i))
    BY <1>3, FeedFacts, ConstantFacts DEF MissPicture, TypeOK, ImportKey, GoesBy
  <2>2. \A o \in objects' : o \in objects \/ (o.name = ImportKey(i) /\ o.slot = shot[i] /\ o.of = Current(i))
    BY <1>3, <2>1, PutEffect DEF MissPicture, TypeOK
  <2>3. rowId' = rowId
    BY <1>3 DEF MissPicture
  <2> QED
    BY <2>1, <2>2, <2>3 DEF ObjectsNamed, GoesBy
<1>4. ASSUME NEW i \in Imports, EndFetch(i) PROVE ObjectsNamed'
  BY <1>4, RowsKept DEF EndFetch, ObjectsNamed, GoesBy, TypeOK
<1>5. ASSUME NEW i \in Imports, UpsertChunk(i) PROVE ObjectsNamed'
  BY <1>5, RowsKept DEF UpsertChunk, ObjectsNamed, GoesBy, TypeOK
<1>6. ASSUME NEW i \in Imports, UpsertUnacknowledged(i) PROVE ObjectsNamed'
  BY <1>6, RowsKept DEF UpsertUnacknowledged, ObjectsNamed, GoesBy, TypeOK
<1>7. ASSUME NEW i \in Imports, UpsertFails(i) PROVE ObjectsNamed'
  BY <1>7, RowsKept DEF UpsertFails, ObjectsNamed, GoesBy, TypeOK
<1>8. ASSUME NEW i \in Imports, EndImport(i) PROVE ObjectsNamed'
  BY <1>8, RowsKept DEF EndImport, ObjectsNamed, GoesBy, TypeOK
<1>9. ASSUME NEW i \in Imports, AbandonImport(i) PROVE ObjectsNamed'
  BY <1>9, RowsKept DEF AbandonImport, ObjectsNamed, GoesBy, TypeOK
<1>10. ASSUME NEW m \in Migrators, StartMigration(m) PROVE ObjectsNamed'
  BY <1>10, RowsKept DEF StartMigration, ObjectsNamed, GoesBy, TypeOK
<1>11. ASSUME NEW m \in Migrators, EndMigration(m) PROVE ObjectsNamed'
  BY <1>11, RowsKept DEF EndMigration, ObjectsNamed, GoesBy, TypeOK
<1>12. ASSUME NEW m \in Migrators, CancelMigration(m) PROVE ObjectsNamed'
  BY <1>12, RowsKept DEF CancelMigration, ObjectsNamed, GoesBy, TypeOK
<1>13. ASSUME NEW m \in Migrators, KillMigrator(m) PROVE ObjectsNamed'
  BY <1>13, RowsKept DEF KillMigrator, ObjectsNamed, GoesBy, TypeOK
<1>14. ASSUME NEW m \in Migrators, NEW e \in Items, TakeJob(m, e) PROVE ObjectsNamed'
  BY <1>14, RowsKept DEF TakeJob, ObjectsNamed, GoesBy, TypeOK
<1>15. ASSUME NEW m \in Migrators, NEW e \in Items, KeepReference(m, e) PROVE ObjectsNamed'
  BY <1>15, RowsKept DEF KeepReference, ObjectsNamed, GoesBy, TypeOK
<1>16. ASSUME NEW m \in Migrators, NEW e \in Items, StorePicture(m, e) PROVE ObjectsNamed'
  <2>1. rowId[e] \in Names /\ e \in Items /\ step[m][e] \in Slots /\ GoesBy(e, rowId[e])
    BY <1>16, ConstantFacts DEF StorePicture, TypeOK, JobsHaveRows, GoesBy, Idle, Slots
  <2>2. \A o \in objects' : o \in objects \/ (o.name = rowId[e] /\ o.slot = step[m][e] /\ o.of = e)
    BY <1>16, <2>1, PutEffect DEF StorePicture, TypeOK
  <2>3. rowId' = rowId
    BY <1>16 DEF StorePicture
  <2> QED
    BY <2>1, <2>2, <2>3 DEF ObjectsNamed, GoesBy
<1>17. ASSUME NEW m \in Migrators, NEW e \in Items, LosePicture(m, e) PROVE ObjectsNamed'
  <2>1. rowId[e] \in Names /\ e \in Items /\ step[m][e] \in Slots /\ GoesBy(e, rowId[e])
    BY <1>17, ConstantFacts DEF LosePicture, TypeOK, JobsHaveRows, GoesBy, Idle, Slots
  <2>2. \A o \in objects' : o \in objects \/ (o.name = rowId[e] /\ o.slot = step[m][e] /\ o.of = e)
    BY <1>17, <2>1, PutEffect DEF LosePicture, TypeOK
  <2>3. rowId' = rowId
    BY <1>17 DEF LosePicture
  <2> QED
    BY <2>1, <2>2, <2>3 DEF ObjectsNamed, GoesBy
<1>18. ASSUME NEW m \in Migrators, NEW e \in Items, UpdateRow(m, e) PROVE ObjectsNamed'
  BY <1>18, RowsKept DEF UpdateRow, ObjectsNamed, GoesBy, TypeOK
<1>19. ASSUME NEW m \in Migrators, NEW e \in Items, UpdateFails(m, e) PROVE ObjectsNamed'
  BY <1>19, RowsKept DEF UpdateFails, ObjectsNamed, GoesBy, TypeOK
<1> QED
  BY <1>1, <1>2, <1>3, <1>4, <1>5, <1>6, <1>7, <1>8, <1>9, <1>10, <1>11, <1>12, <1>13, <1>14, <1>15, <1>16, <1>17, <1>18, <1>19 DEF Next, Import, Work

(* Nothing is ever removed from the bucket.                                   *)
LEMMA ObjectsStay ==
  ASSUME TypeOK, JobsHaveRows, Next
  PROVE  \A o \in objects : \E p \in objects' : p.name = o.name /\ p.slot = o.slot
<1> USE DEF tableVars, importVars, migratorVars
<1>1. ASSUME NEW i \in Imports, FetchPicture(i) \/ MissPicture(i)
      PROVE  \A o \in objects : \E p \in objects' : p.name = o.name /\ p.slot = o.slot
  <2>1. ImportKey(i) \in Names /\ Current(i) \in Items /\ shot[i] \in Slots
    BY <1>1, FeedFacts, ConstantFacts DEF FetchPicture, MissPicture, ImportKey, TypeOK
  <2>2. objects' \in {objects, Put(ImportKey(i), shot[i], Current(i))}
    BY <1>1 DEF FetchPicture, MissPicture
  <2>3. CASE objects' = Put(ImportKey(i), shot[i], Current(i))
    <3>1. \A o \in objects : \E p \in Put(ImportKey(i), shot[i], Current(i)) :
            p.name = o.name /\ p.slot = o.slot
      BY <2>1, PutEffect DEF TypeOK
    <3> QED
      BY <2>3, <3>1
  <2>4. CASE objects' = objects
    BY <2>4
  <2> QED
    BY <2>2, <2>3, <2>4
<1>2. ASSUME NEW m \in Migrators, NEW e \in Items, StorePicture(m, e) \/ LosePicture(m, e)
      PROVE  \A o \in objects : \E p \in objects' : p.name = o.name /\ p.slot = o.slot
  <2>1. rowId[e] \in Names /\ step[m][e] \in Slots
    BY <1>2, ConstantFacts DEF StorePicture, LosePicture, TypeOK
  <2>2. objects' \in {objects, Put(rowId[e], step[m][e], e)}
    BY <1>2 DEF StorePicture, LosePicture
  <2>3. CASE objects' = Put(rowId[e], step[m][e], e)
    <3>1. \A o \in objects : \E p \in Put(rowId[e], step[m][e], e) :
            p.name = o.name /\ p.slot = o.slot
      BY <2>1, PutEffect DEF TypeOK
    <3> QED
      BY <2>3, <3>1
  <2>4. CASE objects' = objects
    BY <2>4
  <2> QED
    BY <2>2, <2>3, <2>4
<1>3. ASSUME NEW i \in Imports, Import(i) \/ AbandonImport(i),
             ~(FetchPicture(i) \/ MissPicture(i))
      PROVE  objects' = objects
  BY <1>3 DEF Import, StartImport, EndFetch, UpsertChunk, UpsertUnacknowledged, UpsertFails,
              EndImport, AbandonImport
<1>4. ASSUME NEW m \in Migrators,
             StartMigration(m) \/ EndMigration(m) \/ CancelMigration(m) \/ KillMigrator(m)
      PROVE  objects' = objects
  BY <1>4 DEF StartMigration, EndMigration, CancelMigration, KillMigrator
<1>5. ASSUME NEW m \in Migrators, NEW e \in Items, Work(m, e),
             ~(StorePicture(m, e) \/ LosePicture(m, e))
      PROVE  objects' = objects
  BY <1>5 DEF Work, TakeJob, KeepReference, UpdateRow, UpdateFails
<1> QED
  BY <1>1, <1>2, <1>3, <1>4, <1>5 DEF Next

(* A reference, in a row or on its way there, names the item's own.           *)
LEMMA PictureNames ==
  ASSUME PictureInv, Next
  PROVE  ReferencesNamed'
<1> USE PicturesAssumption DEF PictureInv, tableVars, importVars, migratorVars
<1>1. ASSUME NEW i \in Imports, StartImport(i) PROVE ReferencesNamed'
  BY <1>1, RowsKept DEF StartImport, ReferencesNamed, GoesBy, TypeOK
<1>2. ASSUME NEW i \in Imports, FetchPicture(i) PROVE ReferencesNamed'
  <2>1. Current(i) \in Items /\ shot[i] \in Slots
    BY <1>2, FeedFacts DEF FetchPicture, TypeOK
  <2>2. \A j \in Imports, e \in Items, s \in Slots :
          fetched'[j][e][s] = fetched[j][e][s] \/ fetched'[j][e][s] = ImportName[e]
    BY <1>2, <2>1 DEF FetchPicture, ImportKey, TypeOK
  <2> QED
    BY <1>2, <2>2 DEF FetchPicture, ReferencesNamed, GoesBy
<1>3. ASSUME NEW i \in Imports, MissPicture(i) PROVE ReferencesNamed'
  BY <1>3, RowsKept DEF MissPicture, ReferencesNamed, GoesBy, TypeOK
<1>4. ASSUME NEW i \in Imports, EndFetch(i) PROVE ReferencesNamed'
  BY <1>4, RowsKept DEF EndFetch, ReferencesNamed, GoesBy, TypeOK
<1>5. ASSUME NEW i \in Imports, UpsertChunk(i) PROVE ReferencesNamed'
  <2>1. \A e \in Items : pics'[e] = pics[e] \/ pics'[e] = fetched[i][e]
    BY <1>5, UpsertEffect DEF UpsertChunk
  <2>2. \A e \in Items : \A name : GoesBy(e, name) => GoesBy(e, name)'
    BY <1>5, UpsertEffect DEF UpsertChunk, GoesBy
  <2>3. \A e \in Items, s \in Slots : pics'[e][s] # Web => GoesBy(e, pics'[e][s])
    BY <2>1 DEF ReferencesNamed, GoesBy
  <2>4. \A j \in Imports, e \in Items, s \in Slots :
          fetched'[j][e][s] = fetched[j][e][s] \/ fetched'[j][e][s] = Web
    BY <1>5 DEF UpsertChunk, Exit, AllWeb, TypeOK
  <2>5. held' = held
    BY <1>5 DEF UpsertChunk
  <2> QED
    BY <2>2, <2>3, <2>4, <2>5 DEF ReferencesNamed
<1>6. ASSUME NEW i \in Imports, UpsertUnacknowledged(i) PROVE ReferencesNamed'
  <2>1. \A e \in Items : pics'[e] = pics[e] \/ pics'[e] = fetched[i][e]
    BY <1>6, UpsertEffect DEF UpsertUnacknowledged
  <2>2. \A e \in Items : \A name : GoesBy(e, name) => GoesBy(e, name)'
    BY <1>6, UpsertEffect DEF UpsertUnacknowledged, GoesBy
  <2>3. \A e \in Items, s \in Slots : pics'[e][s] # Web => GoesBy(e, pics'[e][s])
    BY <2>1 DEF ReferencesNamed, GoesBy
  <2>4. \A j \in Imports, e \in Items, s \in Slots :
          fetched'[j][e][s] = fetched[j][e][s] \/ fetched'[j][e][s] = Web
    BY <1>6 DEF UpsertUnacknowledged, Exit, AllWeb, TypeOK
  <2>5. held' = held
    BY <1>6 DEF UpsertUnacknowledged
  <2> QED
    BY <2>2, <2>3, <2>4, <2>5 DEF ReferencesNamed
<1>7. ASSUME NEW i \in Imports, UpsertFails(i) PROVE ReferencesNamed'
  BY <1>7, RowsKept DEF UpsertFails, ReferencesNamed, GoesBy, TypeOK, Exit, AllWeb
<1>8. ASSUME NEW i \in Imports, EndImport(i) PROVE ReferencesNamed'
  BY <1>8, RowsKept DEF EndImport, ReferencesNamed, GoesBy, TypeOK, Exit, AllWeb
<1>9. ASSUME NEW i \in Imports, AbandonImport(i) PROVE ReferencesNamed'
  BY <1>9, RowsKept DEF AbandonImport, ReferencesNamed, GoesBy, TypeOK, Exit, AllWeb
<1>10. ASSUME NEW m \in Migrators, StartMigration(m) PROVE ReferencesNamed'
  BY <1>10, RowsKept DEF StartMigration, ReferencesNamed, GoesBy, TypeOK, Pending, AllWeb
<1>11. ASSUME NEW m \in Migrators, EndMigration(m) PROVE ReferencesNamed'
  BY <1>11, RowsKept DEF EndMigration, ReferencesNamed, GoesBy, TypeOK
<1>12. ASSUME NEW m \in Migrators, CancelMigration(m) PROVE ReferencesNamed'
  BY <1>12, RowsKept DEF CancelMigration, ReferencesNamed, GoesBy, TypeOK
<1>13. ASSUME NEW m \in Migrators, KillMigrator(m) PROVE ReferencesNamed'
  BY <1>13, RowsKept DEF KillMigrator, ReferencesNamed, GoesBy, TypeOK, AllWeb
<1>14. ASSUME NEW m \in Migrators, NEW e \in Items, TakeJob(m, e) PROVE ReferencesNamed'
  BY <1>14, RowsKept DEF TakeJob, ReferencesNamed, GoesBy, TypeOK
<1>15. ASSUME NEW m \in Migrators, NEW e \in Items, KeepReference(m, e) PROVE ReferencesNamed'
  BY <1>15, RowsKept DEF KeepReference, ReferencesNamed, GoesBy, TypeOK, GoOn
<1>16. ASSUME NEW m \in Migrators, NEW e \in Items, StorePicture(m, e) PROVE ReferencesNamed'
  <2>1. step[m][e] # Idle /\ step[m][e] \in Slots
    BY <1>16, ConstantFacts DEF StorePicture
  <2>2. rowId[e] # 0
    BY <2>1 DEF JobsHaveRows
  <2>3. \A n \in Migrators, g \in Items, s \in Slots :
          held'[n][g][s] = held[n][g][s] \/ (g = e /\ held'[n][g][s] = rowId[e])
    BY <1>16, <2>1 DEF StorePicture, TypeOK
  <2> QED
    BY <1>16, <2>2, <2>3 DEF StorePicture, ReferencesNamed, GoesBy
<1>17. ASSUME NEW m \in Migrators, NEW e \in Items, LosePicture(m, e) PROVE ReferencesNamed'
  <2>1. \A n \in Migrators, g \in Items, s \in Slots :
          held'[n][g][s] = held[n][g][s] \/ held'[n][g][s] = Web
    <3>1. CASE UNCHANGED held
      BY <3>1
    <3>2. CASE Drop(m, e)
      BY <3>2 DEF Drop, AllWeb, TypeOK
    <3> QED
      BY <1>17, <3>1, <3>2 DEF LosePicture
  <2> QED
    BY <1>17, <2>1 DEF LosePicture, ReferencesNamed, GoesBy
<1>18. ASSUME NEW m \in Migrators, NEW e \in Items, UpdateRow(m, e) PROVE ReferencesNamed'
  <2>1. \A n \in Migrators, g \in Items, s \in Slots :
          held'[n][g][s] = held[n][g][s] \/ held'[n][g][s] = Web
    BY <1>18 DEF UpdateRow, Drop, AllWeb, TypeOK
  <2>2. \A g \in Items : pics'[g] = pics[g] \/ (g = e /\ pics'[g] = held[m][e])
    BY <1>18 DEF UpdateRow, TypeOK
  <2> QED
    BY <1>18, <2>1, <2>2 DEF UpdateRow, ReferencesNamed, GoesBy
<1>19. ASSUME NEW m \in Migrators, NEW e \in Items, UpdateFails(m, e) PROVE ReferencesNamed'
  <2>1. \A n \in Migrators, g \in Items, s \in Slots :
          held'[n][g][s] = held[n][g][s] \/ held'[n][g][s] = Web
    BY <1>19 DEF UpdateFails, Drop, AllWeb, TypeOK
  <2>2. \A g \in Items : pics'[g] = pics[g] \/ (g = e /\ pics'[g] = held[m][e])
    BY <1>19 DEF UpdateFails, TypeOK
  <2> QED
    BY <1>19, <2>1, <2>2 DEF UpdateFails, ReferencesNamed, GoesBy
<1> QED
  BY <1>1, <1>2, <1>3, <1>4, <1>5, <1>6, <1>7, <1>8, <1>9, <1>10, <1>11, <1>12, <1>13, <1>14, <1>15, <1>16, <1>17, <1>18, <1>19 DEF Next, Import, Work

(* A reference, in a row or on its way there, names something stored.         *)
LEMMA PictureStored ==
  ASSUME PictureInv, Next
  PROVE  ReferencesStored'
<1> USE PicturesAssumption DEF PictureInv, tableVars, importVars, migratorVars
<1>1. ASSUME NEW i \in Imports, StartImport(i) PROVE ReferencesStored'
  BY <1>1, ObjectsStay DEF StartImport, ReferencesStored, ReferencesResolve, Stored, TypeOK
<1>2. ASSUME NEW i \in Imports, FetchPicture(i) PROVE ReferencesStored'
  <2>1. /\ Current(i) \in Items /\ shot[i] \in Slots /\ ImportKey(i) \in Names
    BY <1>2, FeedFacts, ConstantFacts DEF FetchPicture, TypeOK, ImportKey
  <2>2. \A j \in Imports, e \in Items, s \in Slots :
          \/ fetched'[j][e][s] = fetched[j][e][s]
          \/ fetched'[j][e][s] = ImportKey(i) /\ s = shot[i]
    BY <1>2, <2>1 DEF FetchPicture, TypeOK
  <2>3. \E o \in objects' : o.name = ImportKey(i) /\ o.slot = shot[i]
    BY <1>2, <2>1, PutEffect DEF FetchPicture, TypeOK
  <2>4. pics' = pics /\ held' = held
    BY <1>2 DEF FetchPicture
  <2> QED
    BY <2>2, <2>3, <2>4, ObjectsStay DEF ReferencesStored, ReferencesResolve, Stored
<1>3. ASSUME NEW i \in Imports, MissPicture(i) PROVE ReferencesStored'
  <2>1. pics' = pics /\ held' = held /\ fetched' = fetched
    BY <1>3 DEF MissPicture
  <2> QED
    BY <2>1, ObjectsStay DEF ReferencesStored, ReferencesResolve, Stored
<1>4. ASSUME NEW i \in Imports, EndFetch(i) PROVE ReferencesStored'
  BY <1>4, ObjectsStay DEF EndFetch, ReferencesStored, ReferencesResolve, Stored, TypeOK
<1>5. ASSUME NEW i \in Imports, UpsertChunk(i) PROVE ReferencesStored'
  <2>1. \A e \in Items : pics'[e] = pics[e] \/ pics'[e] = fetched[i][e]
    BY <1>5, UpsertEffect DEF UpsertChunk
  <2>2. \A j \in Imports, e \in Items, s \in Slots :
          fetched'[j][e][s] = fetched[j][e][s] \/ fetched'[j][e][s] = Web
    BY <1>5 DEF UpsertChunk, Exit, AllWeb, TypeOK
  <2>3. held' = held /\ objects' = objects
    BY <1>5 DEF UpsertChunk
  <2> QED
    BY <2>1, <2>2, <2>3 DEF ReferencesStored, ReferencesResolve, Stored
<1>6. ASSUME NEW i \in Imports, UpsertUnacknowledged(i) PROVE ReferencesStored'
  <2>1. \A e \in Items : pics'[e] = pics[e] \/ pics'[e] = fetched[i][e]
    BY <1>6, UpsertEffect DEF UpsertUnacknowledged
  <2>2. \A j \in Imports, e \in Items, s \in Slots :
          fetched'[j][e][s] = fetched[j][e][s] \/ fetched'[j][e][s] = Web
    BY <1>6 DEF UpsertUnacknowledged, Exit, AllWeb, TypeOK
  <2>3. held' = held /\ objects' = objects
    BY <1>6 DEF UpsertUnacknowledged
  <2> QED
    BY <2>1, <2>2, <2>3 DEF ReferencesStored, ReferencesResolve, Stored
<1>7. ASSUME NEW i \in Imports, UpsertFails(i) PROVE ReferencesStored'
  BY <1>7, ObjectsStay DEF UpsertFails, ReferencesStored, ReferencesResolve, Stored, TypeOK, Exit, AllWeb
<1>8. ASSUME NEW i \in Imports, EndImport(i) PROVE ReferencesStored'
  BY <1>8, ObjectsStay DEF EndImport, ReferencesStored, ReferencesResolve, Stored, TypeOK, Exit, AllWeb
<1>9. ASSUME NEW i \in Imports, AbandonImport(i) PROVE ReferencesStored'
  BY <1>9, ObjectsStay DEF AbandonImport, ReferencesStored, ReferencesResolve, Stored, TypeOK, Exit, AllWeb
<1>10. ASSUME NEW m \in Migrators, StartMigration(m) PROVE ReferencesStored'
  BY <1>10, ObjectsStay DEF StartMigration, ReferencesStored, ReferencesResolve, Stored, TypeOK, Pending, AllWeb
<1>11. ASSUME NEW m \in Migrators, EndMigration(m) PROVE ReferencesStored'
  BY <1>11, ObjectsStay DEF EndMigration, ReferencesStored, ReferencesResolve, Stored, TypeOK
<1>12. ASSUME NEW m \in Migrators, CancelMigration(m) PROVE ReferencesStored'
  BY <1>12, ObjectsStay DEF CancelMigration, ReferencesStored, ReferencesResolve, Stored, TypeOK
<1>13. ASSUME NEW m \in Migrators, KillMigrator(m) PROVE ReferencesStored'
  BY <1>13, ObjectsStay DEF KillMigrator, ReferencesStored, ReferencesResolve, Stored, TypeOK, AllWeb
<1>14. ASSUME NEW m \in Migrators, NEW e \in Items, TakeJob(m, e) PROVE ReferencesStored'
  BY <1>14, ObjectsStay DEF TakeJob, ReferencesStored, ReferencesResolve, Stored, TypeOK
<1>15. ASSUME NEW m \in Migrators, NEW e \in Items, KeepReference(m, e) PROVE ReferencesStored'
  BY <1>15, ObjectsStay DEF KeepReference, ReferencesStored, ReferencesResolve, Stored, TypeOK, GoOn
<1>16. ASSUME NEW m \in Migrators, NEW e \in Items, StorePicture(m, e) PROVE ReferencesStored'
  <2>1. rowId[e] \in Names /\ step[m][e] \in Slots
    BY <1>16, ConstantFacts DEF StorePicture, TypeOK
  <2>2. \A n \in Migrators, g \in Items, s \in Slots :
          \/ held'[n][g][s] = held[n][g][s]
          \/ held'[n][g][s] = rowId[e] /\ s = step[m][e]
    BY <1>16, <2>1 DEF StorePicture, TypeOK
  <2>3. \E o \in objects' : o.name = rowId[e] /\ o.slot = step[m][e]
    BY <1>16, <2>1, PutEffect DEF StorePicture, TypeOK
  <2>4. pics' = pics /\ fetched' = fetched
    BY <1>16 DEF StorePicture
  <2> QED
    BY <2>2, <2>3, <2>4, ObjectsStay DEF ReferencesStored, ReferencesResolve, Stored
<1>17. ASSUME NEW m \in Migrators, NEW e \in Items, LosePicture(m, e) PROVE ReferencesStored'
  <2>1. \A n \in Migrators, g \in Items, s \in Slots :
          held'[n][g][s] = held[n][g][s] \/ held'[n][g][s] = Web
    <3>1. CASE UNCHANGED held
      BY <3>1
    <3>2. CASE Drop(m, e)
      BY <3>2 DEF Drop, AllWeb, TypeOK
    <3> QED
      BY <1>17, <3>1, <3>2 DEF LosePicture
  <2> QED
    BY <1>17, <2>1, ObjectsStay DEF LosePicture, ReferencesStored, ReferencesResolve, Stored
<1>18. ASSUME NEW m \in Migrators, NEW e \in Items, UpdateRow(m, e) PROVE ReferencesStored'
  <2>1. \A n \in Migrators, g \in Items, s \in Slots :
          held'[n][g][s] = held[n][g][s] \/ held'[n][g][s] = Web
    BY <1>18 DEF UpdateRow, Drop, AllWeb, TypeOK
  <2>2. \A g \in Items : pics'[g] = pics[g] \/ (g = e /\ pics'[g] = held[m][e])
    BY <1>18 DEF UpdateRow, TypeOK
  <2> QED
    BY <1>18, <2>1, <2>2 DEF UpdateRow, ReferencesStored, ReferencesResolve, Stored
<1>19. ASSUME NEW m \in Migrators, NEW e \in Items, UpdateFails(m, e) PROVE ReferencesStored'
  <2>1. \A n \in Migrators, g \in Items, s \in Slots :
          held'[n][g][s] = held[n][g][s] \/ held'[n][g][s] = Web
    BY <1>19 DEF UpdateFails, Drop, AllWeb, TypeOK
  <2>2. \A g \in Items : pics'[g] = pics[g] \/ (g = e /\ pics'[g] = held[m][e])
    BY <1>19 DEF UpdateFails, TypeOK
  <2> QED
    BY <1>19, <2>1, <2>2 DEF UpdateFails, ReferencesStored, ReferencesResolve, Stored
<1> QED
  BY <1>1, <1>2, <1>3, <1>4, <1>5, <1>6, <1>7, <1>8, <1>9, <1>10, <1>11, <1>12, <1>13, <1>14, <1>15, <1>16, <1>17, <1>18, <1>19 DEF Next, Import, Work

(* The invariant holds of empty tables and an empty bucket.                   *)
LEMMA PictureInit ==
  ASSUME Init PROVE PictureInv
<1>1. TypeOK
  BY ConstantFacts DEF Init, TypeOK
<1> QED
  BY <1>1, ConstantFacts DEF Init, PictureInv, ReferencesStored, ReferencesResolve, ReferencesNamed,
     ObjectsNamed, IdsDistinct, JobsHaveRows, AllWeb

(* PictureInv is an invariant, whatever the constants.                        *)
THEOREM PictureInvariance == Spec => []PictureInv
<1>1. PictureInv /\ UNCHANGED vars => PictureInv'
  BY DEF vars, tableVars, importVars, migratorVars, PictureInv, TypeOK, ReferencesStored, ReferencesResolve,
     Stored, ReferencesNamed, GoesBy, ObjectsNamed, IdsDistinct, JobsHaveRows
<1>2. PictureInv /\ Next => PictureInv'
  BY PictureTypes, PictureIds, PictureJobs, PictureObjects, PictureNames, PictureStored DEF PictureInv
<1> QED
  BY PictureInit, <1>1, <1>2, PTL DEF Spec

(* Every variable keeps its type.                                             *)
THEOREM PictureTypeCorrect == Spec => []TypeOK
<1>1. PictureInv => TypeOK
  BY DEF PictureInv
<1> QED
  BY PictureInvariance, <1>1, PTL

(* No row ever refers to an object that is not in the bucket.                 *)
THEOREM NoDanglingReference == Spec => []ReferencesResolve
<1>1. PictureInv => ReferencesResolve
  BY DEF PictureInv, ReferencesStored
<1> QED
  BY PictureInvariance, <1>1, PTL

(* A row shows its own pictures unless ids cross: two items that share a name *)
(* share it as importer's name of the one and row id of the other.            *)
THEOREM PicturesAreOwn == Spec => []OwnPictures
<1>1. PictureInv => OwnPictures
  <2> SUFFICES ASSUME PictureInv, NEW e \in Items, NEW s \in Slots, NEW o \in objects,
                      pics[e][s] # Web, o.name = pics[e][s], o.of # e
               PROVE  IdsCross(e)
    BY DEF OwnPictures
  <2>1. o.of \in Items
    BY DEF PictureInv, TypeOK
  <2>2. GoesBy(e, o.name) /\ GoesBy(o.of, o.name)
    BY DEF PictureInv, ReferencesNamed, ObjectsNamed
  <2>3. ~(rowId[e] # 0 /\ rowId[e] = rowId[o.of])
    BY <2>1 DEF PictureInv, IdsDistinct
  <2>4. ImportName[e] # ImportName[o.of]
    BY <2>1, PicturesAssumption
  <2> QED
    BY <2>1, <2>2, <2>3, <2>4 DEF GoesBy, IdsCross
<1> QED
  BY PictureInvariance, <1>1, PTL
-----------------------------------------------------------------------------
(* MigrateUsers: what only holds where a failure leaves the row alone.        *)

(* Where a worker is that does not take a job: at a slot or at the UPDATE.    *)
LEMMA WorkerWhere ==
  ASSUME NEW m, NEW e, Work(m, e), ~TakeJob(m, e)
  PROVE  step[m][e] \in Slots \cup {AtUpdate} /\ queue' = queue /\ mpc' = mpc
BY DEF Work, KeepReference, StorePicture, LosePicture, UpdateRow, UpdateFails, migratorVars

(* The places of a worker, as numbers.                                        *)
LEMMA PlaceFacts ==
  /\ AtUpdate \in 1..AtUpdate /\ AtUpdate # 0 /\ AtUpdate # Idle
  /\ Idle # 0 /\ Idle \notin 1..AtUpdate
  /\ \A s \in Slots : s # Idle /\ s + 1 # 0 /\ (s # 0 => s \in 1..AtUpdate)
BY ConstantFacts DEF AtUpdate, Idle

(* AvatarsInHand is kept by every step of such a table.                       *)
LEMMA PictureAvatars ==
  ASSUME AlwaysUpdate = FALSE, PictureInv, AvatarsInHand, Next
  PROVE  AvatarsInHand'
<1> USE DEF tableVars, importVars, migratorVars
<1>0. /\ TypeOK /\ JobsHaveRows
      /\ \A e \in Items : rowId[e] # 0 => rowId'[e] = rowId[e]
  BY RowsKept DEF PictureInv
<1>1. ASSUME NEW m \in Migrators, NEW e \in Items
      PROVE  step[m][e] \in 1..AtUpdate => rowId[e] # 0
  BY <1>0, ConstantFacts DEF JobsHaveRows, Idle, AtUpdate
<1>2. ASSUME UNCHANGED <<mpc, queue, step, held, counted>>
      PROVE  AvatarsInHand'
  BY <1>0, <1>1, <1>2 DEF AvatarsInHand
<1>3. ASSUME NEW i \in Imports, Import(i) \/ AbandonImport(i)
      PROVE  UNCHANGED <<mpc, queue, step, held, counted>>
  BY <1>3 DEF Import, StartImport, FetchPicture, MissPicture, EndFetch, UpsertChunk,
              UpsertUnacknowledged, UpsertFails, EndImport, AbandonImport
<1>4. ASSUME NEW m \in Migrators, StartMigration(m)
      PROVE  AvatarsInHand'
  BY <1>0, <1>1, <1>4, ConstantFacts DEF StartMigration, AvatarsInHand, TypeOK, Pending, AllWeb, Idle, AtUpdate
<1>5. ASSUME NEW m \in Migrators, EndMigration(m) \/ CancelMigration(m)
      PROVE  AvatarsInHand'
  BY <1>0, <1>1, <1>5 DEF EndMigration, CancelMigration, AvatarsInHand, TypeOK
<1>6. ASSUME NEW m \in Migrators, KillMigrator(m)
      PROVE  AvatarsInHand'
  BY <1>0, <1>1, <1>6, ConstantFacts DEF KillMigrator, AvatarsInHand, TypeOK, AllWeb, Idle, AtUpdate
<1>7. ASSUME NEW m \in Migrators, NEW e \in Items, Work(m, e),
             \A n \in Migrators, g \in Items : n # m \/ g # e =>
               step'[n][g] = step[n][g] /\ held'[n][g] = held[n][g],
             \A n \in Migrators : queue'[n] \subseteq queue[n],
             \A n \in Migrators : \A g \in counted'[n] : g \in counted[n] \/ g = e,
             rowId[e] # 0,
             /\ e \in queue'[m] => step'[m][e] = Idle /\ held'[m][e][0] = Web
             /\ step'[m][e] = 0 => held'[m][e][0] = Web
             /\ step'[m][e] \in 1..AtUpdate => held'[m][e][0] = rowId[e]
      PROVE  AvatarsInHand'
  <2>1. mpc' = mpc /\ (mpc[m] = "new" => FALSE)
    <3>1. CASE TakeJob(m, e)
      BY <3>1 DEF TakeJob
    <3>2. CASE ~TakeJob(m, e)
      BY <1>7, <3>2, WorkerWhere, PlaceFacts DEF AvatarsInHand
    <3> QED
      BY <3>1, <3>2
  <2> QED
    BY <1>0, <1>1, <1>7, <2>1 DEF AvatarsInHand
<1>8. ASSUME NEW m \in Migrators, NEW e \in Items, Work(m, e)
      PROVE  AvatarsInHand'
  <2>1. CASE TakeJob(m, e)
    <3>1. e \in queue[m] /\ rowId[e] # 0 /\ held[m][e][0] = Web
      BY <1>0, <2>1 DEF TakeJob, JobsHaveRows, AvatarsInHand
    <3>2. step' = [step EXCEPT ![m][e] = 0] /\ held' = held /\ counted' = counted
      BY <2>1 DEF TakeJob
    <3>3. /\ \A n \in Migrators : queue'[n] \subseteq queue[n]
          /\ e \notin queue'[m]
      BY <1>0, <2>1 DEF TakeJob, TypeOK
    <3>4. /\ step'[m][e] = 0
          /\ \A n \in Migrators, g \in Items : n # m \/ g # e => step'[n][g] = step[n][g]
      BY <1>0, <3>2 DEF TypeOK
    <3> QED
      BY <1>7, <1>8, <3>1, <3>2, <3>3, <3>4
  <2>2. CASE ~TakeJob(m, e)
    <3>1. step[m][e] # Idle /\ rowId[e] # 0 /\ e \notin queue[m]
      BY <1>0, <1>8, <2>2, WorkerWhere, PlaceFacts DEF JobsHaveRows, AvatarsInHand
    <3>2. queue' = queue
      BY <1>8, <2>2, WorkerWhere
    <3>3. \A n \in Migrators : \A g \in counted'[n] : g \in counted[n] \/ g = e
      <4>1. counted' \in {counted, [counted EXCEPT ![m] = @ \cup {e}]}
        BY <1>8, <2>2 DEF Work, KeepReference, StorePicture, LosePicture, UpdateRow, UpdateFails
      <4>2. counted \in [Migrators -> SUBSET Items]
        BY <1>0 DEF TypeOK
      <4>3. CASE counted' = [counted EXCEPT ![m] = @ \cup {e}]
        <5>1. \A n \in Migrators : counted'[n] = IF n = m THEN counted[m] \cup {e} ELSE counted[n]
          BY <4>2, <4>3
        <5> QED
          BY <5>1
      <4> QED
        BY <4>1, <4>3
    <3>4. CASE KeepReference(m, e)
      <4>1. step[m][e] \in Slots /\ step[m][e] # 0
        BY <3>4 DEF KeepReference, AvatarsInHand
      <4>2. step[m][e] \in 1..AtUpdate /\ held' = held
        BY <3>4, <4>1, ConstantFacts DEF KeepReference, AtUpdate, Slots
      <4>3. /\ step'[m][e] = step[m][e] + 1
            /\ \A n \in Migrators, g \in Items : n # m \/ g # e => step'[n][g] = step[n][g]
        BY <1>0, <3>4 DEF KeepReference, GoOn, TypeOK
      <4>4. step'[m][e] # 0 /\ held'[m][e][0] = rowId[e]
        BY <4>2, <4>3, ConstantFacts DEF AvatarsInHand, AtUpdate
      <4> QED
        BY <1>7, <1>8, <3>1, <3>2, <3>3, <4>2, <4>3, <4>4
    <3>5. CASE StorePicture(m, e)
      <4>1. step[m][e] \in Slots /\ 0 \in Slots
        BY <3>5, ConstantFacts DEF StorePicture
      <4>2. /\ step'[m][e] = step[m][e] + 1
            /\ \A n \in Migrators, g \in Items : n # m \/ g # e => step'[n][g] = step[n][g]
        BY <1>0, <3>5 DEF StorePicture, GoOn, TypeOK
      <4>3. held' = [held EXCEPT ![m][e][step[m][e]] = rowId[e]]
        BY <3>5 DEF StorePicture
      <4>4. /\ \A n \in Migrators, g \in Items : n # m \/ g # e => held'[n][g] = held[n][g]
            /\ held'[m][e][0] = IF step[m][e] = 0 THEN rowId[e] ELSE held[m][e][0]
        BY <1>0, <4>1, <4>3 DEF TypeOK
      <4>5. step'[m][e] # 0 /\ held'[m][e][0] = rowId[e]
        BY <4>1, <4>2, <4>4, ConstantFacts DEF AvatarsInHand, AtUpdate, Slots
      <4> QED
        BY <1>7, <1>8, <3>1, <3>2, <3>3, <4>2, <4>4, <4>5
    <3>6. CASE LosePicture(m, e) \/ UpdateRow(m, e) \/ UpdateFails(m, e)
      <4>1. Drop(m, e)
        BY <3>6 DEF LosePicture, UpdateRow, UpdateFails
      <4>2. /\ step'[m][e] = Idle
            /\ \A n \in Migrators, g \in Items :
                 n # m \/ g # e => step'[n][g] = step[n][g] /\ held'[n][g] = held[n][g]
        BY <1>0, <4>1 DEF Drop, TypeOK
      <4>3. Idle # 0 /\ Idle \notin 1..AtUpdate
        BY ConstantFacts DEF Idle, AtUpdate
      <4> QED
        BY <1>7, <1>8, <3>1, <3>2, <3>3, <4>2, <4>3
    <3> QED
      BY <1>8, <2>2, <3>4, <3>5, <3>6 DEF Work
  <2> QED
    BY <2>1, <2>2
<1> QED
  BY <1>2, <1>3, <1>4, <1>5, <1>6, <1>8 DEF Next

(* A row that is counted is one whose avatar the worker had just stored; ids  *)
(* and objects stay.                                                          *)
LEMMA PictureCounts ==
  ASSUME AlwaysUpdate = FALSE, PictureInv, AvatarsInHand, CountedIsStored, Next
  PROVE  CountedIsStored'
<1> USE DEF tableVars, importVars, migratorVars
<1>1. /\ \A e \in Items : rowId[e] # 0 => rowId'[e] = rowId[e]
      /\ \A o \in objects : \E p \in objects' : p.name = o.name /\ p.slot = o.slot
      /\ TypeOK
  BY RowsKept, ObjectsStay DEF PictureInv
<1>2. ASSUME NEW m \in Migrators, NEW e \in counted[m]
      PROVE  \E o \in objects' : o.name = rowId'[e] /\ o.slot = 0
  <2>1. e \in Items /\ rowId[e] # 0
    BY <1>1, <1>2 DEF TypeOK, AvatarsInHand
  <2>2. PICK o \in objects : o.name = rowId[e] /\ o.slot = 0
    BY <1>2 DEF CountedIsStored
  <2> QED
    BY <1>1, <2>1, <2>2
<1>3. ASSUME NEW m \in Migrators, NEW e \in Items, UpdateRow(m, e)
      PROVE  CountedIsStored'
  <2>1. held[m][e][0] = rowId[e] /\ rowId[e] # 0 /\ rowId[e] \in Nat
    <3>1. step[m][e] = AtUpdate
      BY <1>3 DEF UpdateRow
    <3> QED
      BY <1>1, <3>1, PlaceFacts DEF AvatarsInHand, PictureInv, JobsHaveRows, TypeOK
  <2>2. Stored(rowId[e], 0)
    BY <2>1, ConstantFacts, PicturesAssumption DEF PictureInv, ReferencesStored
  <2>3. rowId' = rowId /\ objects' = objects
    BY <1>3 DEF UpdateRow
  <2>4. \A n \in Migrators : \A g \in counted'[n] : g \in counted[n] \/ g = e
    BY <1>1, <1>3 DEF UpdateRow, TypeOK
  <2> QED
    BY <1>2, <2>2, <2>3, <2>4 DEF CountedIsStored, Stored
<1>4. ASSUME NEW i \in Imports, Import(i) \/ AbandonImport(i)
      PROVE  counted' = counted
  BY <1>4 DEF Import, StartImport, FetchPicture, MissPicture, EndFetch, UpsertChunk,
              UpsertUnacknowledged, UpsertFails, EndImport, AbandonImport
<1>5. ASSUME NEW m \in Migrators,
             StartMigration(m) \/ EndMigration(m) \/ CancelMigration(m) \/ KillMigrator(m)
      PROVE  counted' = counted
  BY <1>5 DEF StartMigration, EndMigration, CancelMigration, KillMigrator
<1>6. ASSUME NEW m \in Migrators, NEW e \in Items, Work(m, e), ~UpdateRow(m, e)
      PROVE  counted' = counted
  BY <1>6 DEF Work, TakeJob, KeepReference, StorePicture, LosePicture, UpdateFails
<1>7. counted' = counted => CountedIsStored'
  BY <1>2 DEF CountedIsStored
<1> QED
  BY <1>3, <1>4, <1>5, <1>6, <1>7 DEF Next

(* For users, PictureInv and the two together are an invariant.               *)
THEOREM UsersInvariance ==
  ASSUME AlwaysUpdate = FALSE
  PROVE  Spec => []UsersInv
<1>1. Init => UsersInv
  BY PictureInit, ConstantFacts DEF Init, UsersInv, AvatarsInHand, CountedIsStored, AtUpdate, Idle, AllWeb
<1>2. UsersInv /\ PictureInv' /\ [Next]_vars => UsersInv'
  <2>1. CASE UNCHANGED vars
    BY <2>1 DEF vars, tableVars, importVars, migratorVars, UsersInv, AvatarsInHand, CountedIsStored
  <2>2. CASE Next
    BY <2>2, PictureAvatars, PictureCounts DEF UsersInv
  <2> QED
    BY <2>1, <2>2
<1> QED
  BY <1>1, <1>2, PictureInvariance, PTL DEF Spec

(* What MigrateUsers counts as migrated has been stored, however its runs and *)
(* the imports overlap.                                                       *)
THEOREM CountsAreTrue ==
  ASSUME AlwaysUpdate = FALSE
  PROVE  Spec => []CountedIsStored
<1>1. UsersInv => CountedIsStored
  BY DEF UsersInv
<1> QED
  BY UsersInvariance, <1>1, PTL

(* No migrator, however stale its job, puts the web address of an avatar back *)
(* over a stored one: only the upsert of an import does.                      *)
THEOREM AvatarsStay ==
  ASSUME AlwaysUpdate = FALSE
  PROVE  Spec => AvatarsKept
<1> USE DEF tableVars, importVars, migratorVars
<1> DEFINE Kept ==
      \A e \in Items :
        pics[e][0] # Web /\ pics'[e][0] = Web
          => \E i \in Imports : ipc[i] = "upsert" /\ e \in Chunk(i) /\ Upserted(i)
<1>1. ASSUME UsersInv, Next
      PROVE  Kept
  <2>0. TypeOK
    BY <1>1 DEF UsersInv, PictureInv
  <2>1. ASSUME NEW i \in Imports, UpsertChunk(i) \/ UpsertUnacknowledged(i)
        PROVE  Kept
    <3>1. ipc[i] = "upsert" /\ Upserted(i) /\ pos[i] < Len(feed[i])
      BY <2>1 DEF UpsertChunk, UpsertUnacknowledged
    <3>2. \A e \in Items : e \notin Chunk(i) => pics'[e] = pics[e]
      BY <2>0, <3>1, UpsertEffect
    <3> QED
      BY <3>1, <3>2
  <2>2. ASSUME NEW i \in Imports, Import(i) \/ AbandonImport(i),
               ~(UpsertChunk(i) \/ UpsertUnacknowledged(i))
        PROVE  pics' = pics
    BY <2>2 DEF Import, StartImport, FetchPicture, MissPicture, EndFetch, UpsertFails, EndImport, AbandonImport
  <2>3. ASSUME NEW m \in Migrators,
               StartMigration(m) \/ EndMigration(m) \/ CancelMigration(m) \/ KillMigrator(m)
        PROVE  pics' = pics
    BY <2>3 DEF StartMigration, EndMigration, CancelMigration, KillMigrator
  <2>4. ASSUME NEW m \in Migrators, NEW e \in Items, Work(m, e),
               ~(UpdateRow(m, e) \/ UpdateFails(m, e))
        PROVE  pics' = pics
    BY <2>4 DEF Work, TakeJob, KeepReference, StorePicture, LosePicture
  <2>5. ASSUME NEW m \in Migrators, NEW e \in Items, UpdateRow(m, e) \/ UpdateFails(m, e)
        PROVE  Kept
    <3>1. pics' \in {pics, [pics EXCEPT ![e] = held[m][e]]}
      BY <2>5 DEF UpdateRow, UpdateFails
    <3>2. held[m][e][0] = rowId[e] /\ rowId[e] \in Nat
      <4>1. step[m][e] = AtUpdate
        BY <2>5 DEF UpdateRow, UpdateFails
      <4> QED
        BY <1>1, <2>0, <4>1, PlaceFacts DEF UsersInv, AvatarsInHand, TypeOK
    <3>3. held[m][e][0] # Web
      BY <3>2, PicturesAssumption
    <3> QED
      BY <2>0, <3>1, <3>3 DEF TypeOK
  <2> QED
    BY <1>1, <2>1, <2>2, <2>3, <2>4, <2>5 DEF Next
<1>2. UNCHANGED vars => Kept
  BY DEF vars
<1>3. UsersInv /\ [Next]_vars => [Kept]_vars
  BY <1>1, <1>2
<1> QED
  BY UsersInvariance, <1>3, PTL DEF Spec, AvatarsKept
=============================================================================
