-------------------------- MODULE StockImportProofs --------------------------
(* What orders may rely on while imports set the stock, for any number of     *)
(* requests and importers, any feeds and any size of batch.  StockInv is      *)
(* inductive: what orders do keeps it by OrderServiceProofs, which asks only  *)
(* that others leave alone the rows orders have locked.                       *)
EXTENDS StockImport, OrderServiceProofs, SequenceTheorems

(* What the API answers names each product at most once.                      *)
LEMMA FeedFacts ==
  ASSUME NEW f \in StockFeeds
  PROVE  /\ Len(f) \in Nat
         /\ \A k \in 1..Len(f) : f[k].id \in Products /\ f[k].stock \in Nat
         /\ \A j, k \in 1..Len(f) : f[j].id = f[k].id => j = k
<1> DEFINE Entity == [id : Products, stock : Nat]
<1>1. f \in Seq(Entity)
  BY ImportAssumption
<1>2. Len(f) \in Nat /\ \A k \in 1..Len(f) : f[k] \in Entity
  <2> HIDE DEF Entity
  <2> QED
    BY <1>1, ElementOfSeq, LenProperties
<1> QED
  BY <1>2, ImportAssumption

(* A batch is a part of its feed, no longer than BatchSize.                   *)
LEMMA ChunkFacts ==
  ASSUME ImportTypeOK, ImportersInStep, NEW i \in Imports, ipc[i] \in {"upsert", "orphan"}
  PROVE  /\ feed[i] \in StockFeeds /\ Len(feed[i]) \in Nat
         /\ pos[i] \in Nat /\ written[i] \in Nat /\ ChunkEnd(i) \in Nat
         /\ pos[i] + written[i] <= ChunkEnd(i) /\ ChunkEnd(i) <= Len(feed[i])
         /\ ChunkEnd(i) <= pos[i] + BatchSize
<1>1. feed[i] \in StockFeeds /\ pos[i] + written[i] <= ChunkEnd(i)
  BY DEF ImportersInStep
<1>2. Len(feed[i]) \in Nat
  BY <1>1, FeedFacts
<1>3. pos[i] \in Nat /\ written[i] \in 0..BatchSize /\ BatchSize \in Nat
  BY ImportAssumption DEF ImportTypeOK
<1> QED
  BY <1>1, <1>2, <1>3 DEF ChunkEnd

(* The row an importer is about to write is a product, and not of its batch.  *)
LEMMA NextEntityFacts ==
  ASSUME ImportTypeOK, ImportersInStep, NEW i \in Imports, Writing(i)
  PROVE  /\ NextEntity(i).id \in Products
         /\ NextEntity(i).id \notin BatchRows(i)
         /\ pos[i] + written[i] + 1 \in 1..Len(feed[i])
         /\ pos[i] + written[i] + 1 <= ChunkEnd(i)
<1>1. /\ feed[i] \in StockFeeds /\ Len(feed[i]) \in Nat
      /\ pos[i] \in Nat /\ written[i] \in Nat /\ ChunkEnd(i) \in Nat
      /\ pos[i] + written[i] < ChunkEnd(i) /\ ChunkEnd(i) <= Len(feed[i])
  BY ChunkFacts DEF Writing
<1>2. pos[i] + written[i] + 1 \in 1..Len(feed[i]) /\ pos[i] + written[i] + 1 <= ChunkEnd(i)
  BY <1>1
<1>3. \A k \in (pos[i] + 1)..(pos[i] + written[i]) :
         k \in 1..Len(feed[i]) /\ k # pos[i] + written[i] + 1
  BY <1>1
<1>4. /\ \A k \in 1..Len(feed[i]) : feed[i][k].id \in Products
      /\ \A j, k \in 1..Len(feed[i]) : feed[i][j].id = feed[i][k].id => j = k
  BY <1>1, FeedFacts
<1> QED
  BY <1>2, <1>3, <1>4 DEF NextEntity, BatchRows

(* Orders lock free rows and free their own: what others hold, they hold on.  *)
LEMMA OrdersLeaveOthers ==
  ASSUME OrdersInv(Holders), OrdersStep, NEW i \in Imports, NEW p \in Products
  PROVE  owner'[p] = i <=> owner[p] = i
<1> USE DEF Undo, Apply, dbVars
<1>0. owner \in [Products -> Holders] /\ i \notin Requests /\ i # NoTx
  BY ImportAssumption DEF OrdersInv, TypedWith
<1>1. ASSUME NEW r \in Requests, Proceed(r) PROVE owner'[p] = i <=> owner[p] = i
  <2>1. CASE SelectForUpdate(r)
    BY <1>0, <2>1 DEF SelectForUpdate, LockFree
  <2>2. CASE UpdateStock(r)
    <3>1. Target(r) \in Products
      BY <2>2 DEF OrdersInv, CheckedStock, UpdateStock
    <3> QED
      BY <1>0, <2>2, <3>1 DEF UpdateStock, LockFree
  <2>3. CASE Commit(r)
    BY <1>0, <2>3 DEF Commit
  <2>4. CASE Unwind(r)
    BY <1>0, <2>4 DEF Unwind, Rollback
  <2>5. CASE \/ DecodeFails(r) \/ Receive(r) \/ Begin(r) \/ SkipLine(r) \/ UnknownProduct(r)
             \/ EmptyOrder(r) \/ InsertOrder(r) \/ InsertItems(r) \/ Publish(r) \/ Answer(r)
    BY <2>5 DEF DecodeFails, Receive, Begin, SkipLine, UnknownProduct, EmptyOrder,
                InsertOrder, InsertItems, Publish, Answer
  <2> QED
    BY <1>1, <2>1, <2>2, <2>3, <2>4, <2>5 DEF Proceed
<1>2. ASSUME NEW r \in Requests, Falter(r) PROVE owner'[p] = i <=> owner[p] = i
  BY <1>0, <1>2 DEF Falter, BeginFails, StatementError, ConnectionLost, CommitInterrupted,
                    PublishFails
<1>3. ASSUME NEW r \in Requests, Beaten(r) PROVE owner'[p] = i <=> owner[p] = i
  BY <1>0, <1>3 DEF Beaten
<1>4. ASSUME NEW r \in Requests, ServerSettles(r) PROVE owner'[p] = i <=> owner[p] = i
  BY <1>0, <1>4 DEF ServerSettles, ServerAbort, InDoubtCommit
<1>5. ASSUME NEW r \in Requests, Broker(r) \/ Cancel(r) PROVE owner'[p] = i <=> owner[p] = i
  BY <1>5 DEF Broker, BrokerAppend, BrokerAckLost, BrokerGiveUp, Cancel
<1>6. ASSUME NEW pod \in Pods, Dies(pod) PROVE owner'[p] = i <=> owner[p] = i
  BY <1>6 DEF Dies
<1> QED
  BY <1>1, <1>2, <1>3, <1>4, <1>5, <1>6 DEF OrdersStep

(* The order that a circle of waits costs was waiting for a row.              *)
LEMMA OrderVictimEffect ==
  ASSUME NEW r \in Requests, OrderVictim(r)
  PROVE  Beaten(r) /\ UNCHANGED importVars
<1>1. r \notin Imports
  BY ImportAssumption
<1>2. Waiting(r)
  BY <1>1 DEF OrderVictim, InMixedCycle, MixedCycle, WaitsFor
<1> QED
  BY <1>2 DEF OrderVictim, Waiting, Beaten

-----------------------------------------------------------------------------
(* The initial states.                                                        *)
LEMMA StockInitStep == StockInit => StockInv
<1> SUFFICES ASSUME StockInit PROVE StockInv
  OBVIOUS
<1>1. OrdersInv(Holders)
  <2>1. OrdersInv(Requests \cup {NoTx})
    BY InitStep DEF StockInit, IndInv
  <2>2. TypedWith(Holders)
    BY <2>1 DEF OrdersInv, TypedWith, Holders
  <2> QED
    BY <2>1, <2>2 DEF OrdersInv
<1>2. \A i \in Imports : ipc[i] = "fetch" /\ feed[i] = << >> /\ pos[i] = 0 /\ written[i] = 0
  BY DEF StockInit
<1>3. ImportTypeOK
  BY <1>1, <1>2, ImportAssumption DEF StockInit, ImportTypeOK, ImportStates, OrdersInv
<1>4. ImportersInStep
  BY <1>2 DEF ImportersInStep
<1>5. RowsOfBatches
  BY <1>2, ImportAssumption DEF StockInit, Init, RowsOfBatches, BatchRows
<1> QED
  BY <1>1, <1>3, <1>4, <1>5 DEF StockInv

(* What happens to orders keeps StockInv.                                     *)
LEMMA OrdersKeepStock ==
  ASSUME StockInv, OrdersStep, UNCHANGED importVars
  PROVE  StockInv'
<1>1. OrdersInv(Holders)'
  BY OrdersInvStep DEF StockInv, Holders
<1>2. ImportTypeOK'
  BY <1>1 DEF StockInv, ImportTypeOK, OrdersInv, importVars
<1>3. ImportersInStep'
  BY DEF StockInv, ImportersInStep, ChunkEnd, importVars
<1>4. RowsOfBatches'
  BY OrdersLeaveOthers DEF StockInv, RowsOfBatches, BatchRows, importVars
<1> QED
  BY <1>1, <1>2, <1>3, <1>4 DEF StockInv

(* No order has locked a row that an importer holds, and no stock is negative.*)
LEMMA StockFacts ==
  ASSUME StockInv
  PROVE  /\ owner \in [Products -> Holders]
         /\ stock \in [Products -> Nat]
         /\ Imports \cap (Requests \cup {NoTx}) = {}
  BY ImportAssumption DEF StockInv, OrdersInv, TypedWith, NoOversell

(* An importer that ends leaves no trace but the stock it has set: no row of  *)
(* an order, and no lock of its own.                                          *)
LEMMA EndsKeep ==
  ASSUME StockInv, NEW i \in Imports, Ends(i), Freed(i), UNCHANGED handlerVars,
         stock' \in [Products -> Nat],
         \A p \in Products : owner[p] \in Requests => stock'[p] = stock[p]
  PROVE  StockInv'
<1>1. /\ owner' \in [Products -> Holders]
      /\ \A p \in Products : owner'[p] # i
      /\ \A p \in Products : \A x \in Requests \cup Imports : x # i => (owner'[p] = x <=> owner[p] = x)
  <2>1. /\ owner \in [Products -> Holders] /\ i # NoTx /\ NoTx \in Holders
        /\ NoTx \notin Requests \cup Imports
        /\ owner' = [p \in Products |-> IF owner[p] = i THEN NoTx ELSE owner[p]]
    BY StockFacts, ServiceAssumption DEF Freed, Holders
  <2> QED
    BY <2>1
<1>2. OrdersInv(Holders)'
  <2>1. \A p \in Products : \A r \in Requests : owner'[p] = r <=> owner[p] = r
    BY <1>1, StockFacts
  <2>2. Requests \cup {NoTx} \subseteq Holders /\ OrdersInv(Holders)
    BY DEF Holders, StockInv
  <2> QED
    BY <1>1, <2>1, <2>2, OthersKeep DEF handlerVars, replyVars, busVars
<1>3. /\ ipc'[i] = "ended" /\ feed'[i] = << >> /\ pos'[i] = 0 /\ written'[i] = 0
      /\ \A j \in Imports \ {i} : /\ ipc'[j] = ipc[j] /\ feed'[j] = feed[j]
                                /\ pos'[j] = pos[j] /\ written'[j] = written[j]
  BY DEF StockInv, ImportTypeOK, Ends
<1>4. ImportTypeOK'
  <2>1. /\ ipc' \in [Imports -> ImportStates]
        /\ feed' \in [Imports -> StockFeeds \cup {<< >>}]
        /\ pos' \in [Imports -> Nat]
        /\ written' \in [Imports -> 0..BatchSize]
    BY ImportAssumption DEF StockInv, ImportTypeOK, Ends, ImportStates
  <2>2. \A j \in Imports : pos'[j] + written'[j] <= Len(feed'[j])
    BY <1>3 DEF StockInv, ImportTypeOK
  <2> QED
    BY <1>2, <2>1, <2>2 DEF ImportTypeOK, OrdersInv
<1>5. ImportersInStep'
  BY <1>3 DEF StockInv, ImportersInStep, ChunkEnd
<1>6. RowsOfBatches'
  BY <1>1, <1>3 DEF StockInv, RowsOfBatches, BatchRows
<1> QED
  BY <1>2, <1>4, <1>5, <1>6 DEF StockInv

(* An importer with nothing written holds no row to free.                     *)
LEMMA NothingHeld ==
  ASSUME StockInv, NEW i \in Imports, written[i] = 0, UNCHANGED owner
  PROVE  Freed(i)
<1>1. BatchRows(i) = {}
  BY DEF BatchRows, StockInv, ImportTypeOK
<1>2. \A p \in Products : owner[p] # i
  BY <1>1 DEF StockInv, RowsOfBatches
<1> QED
  BY <1>2, StockFacts DEF Freed

-----------------------------------------------------------------------------
(* One lemma per step of an importer.                                         *)
LEMMA FetchKeeps ==
  ASSUME StockInv, NEW i \in Imports, FetchProducts(i)
  PROVE  StockInv'
<1>1. PICK f \in StockFeeds : feed' = [feed EXCEPT ![i] = f]
  BY DEF FetchProducts
<1>2. /\ ipc'[i] = "upsert" /\ feed'[i] = f /\ pos'[i] = 0 /\ written'[i] = 0
      /\ feed[i] = << >> /\ pos[i] = 0 /\ written[i] = 0
      /\ \A j \in Imports \ {i} : /\ ipc'[j] = ipc[j] /\ feed'[j] = feed[j]
                                /\ pos'[j] = pos[j] /\ written'[j] = written[j]
  BY <1>1 DEF StockInv, ImportTypeOK, ImportersInStep, FetchProducts
<1>3. Len(f) \in Nat /\ BatchSize \in Nat \ {0}
  BY FeedFacts, ImportAssumption
<1>4. OrdersInv(Holders)' /\ owner' = owner
  <2>1. OrdersInv(Holders)'
    BY StockFacts, OthersKeep DEF StockInv, Holders, FetchProducts, vars, replyVars, busVars
  <2> QED
    BY <2>1 DEF FetchProducts, vars
<1>5. ImportTypeOK'
  <2>1. ipc' \in [Imports -> ImportStates] /\ feed' \in [Imports -> StockFeeds \cup {<< >>}]
    BY <1>1 DEF StockInv, ImportTypeOK, FetchProducts, ImportStates
  <2>2. pos'[i] + written'[i] <= Len(feed'[i])
    BY <1>2, <1>3
  <2>3. \A j \in Imports \ {i} : pos'[j] + written'[j] <= Len(feed'[j])
    BY <1>2 DEF StockInv, ImportTypeOK
  <2> QED
    BY <1>4, <2>1, <2>2, <2>3 DEF StockInv, ImportTypeOK, OrdersInv, FetchProducts
<1>6. ImportersInStep'
  <2>1. 0 \in BatchStarts(f)
    BY <1>3 DEF BatchStarts
  <2>2. pos'[i] + written'[i] <= ChunkEnd(i)'
    BY <1>2, <1>3 DEF ChunkEnd
  <2> QED
    BY <1>2, <2>1, <2>2 DEF StockInv, ImportersInStep, ChunkEnd
<1>7. RowsOfBatches'
  BY <1>2, <1>4 DEF StockInv, RowsOfBatches, BatchRows
<1> QED
  BY <1>4, <1>5, <1>6, <1>7 DEF StockInv

(* The row becomes one of the batch's as its lock becomes the importer's.     *)
LEMMA UpsertKeeps ==
  ASSUME StockInv, NEW i \in Imports, UpsertRow(i)
  PROVE  StockInv'
<1> DEFINE q == NextEntity(i).id
<1>0. ImportTypeOK /\ ImportersInStep /\ RowsOfBatches
  BY DEF StockInv
<1>1. /\ q \in Products
      /\ pos[i] + written[i] + 1 \in 1..Len(feed[i])
      /\ pos[i] + written[i] + 1 <= ChunkEnd(i)
  BY <1>0, NextEntityFacts DEF UpsertRow
<1>2. /\ feed[i] \in StockFeeds /\ Len(feed[i]) \in Nat
      /\ pos[i] \in Nat /\ written[i] \in Nat /\ ChunkEnd(i) \in Nat
      /\ ChunkEnd(i) <= pos[i] + BatchSize
      /\ ipc[i] \in {"upsert", "orphan"}
  BY <1>0, ChunkFacts DEF UpsertRow, Writing
<1>3. /\ LockFree(i, q) /\ owner' = [owner EXCEPT ![q] = i]
      /\ written' = [written EXCEPT ![i] = @ + 1]
      /\ UNCHANGED <<handlerVars, stock, ipc, feed, pos>>
  BY DEF UpsertRow
<1>4. /\ written'[i] = written[i] + 1
      /\ \A j \in Imports \ {i} : written'[j] = written[j]
  BY <1>0, <1>3 DEF ImportTypeOK
<1> HIDE DEF q
<1>5. OrdersInv(Holders)'
  <2>1. owner' \in [Products -> Holders]
    BY <1>1, <1>3, StockFacts DEF Holders
  <2>2. \A p \in Products : \A r \in Requests : owner'[p] = r <=> owner[p] = r
    <3>1. owner[q] \in {i, NoTx}
      BY <1>3 DEF LockFree
    <3>2. i \notin Requests /\ NoTx \notin Requests
      BY StockFacts, ServiceAssumption
    <3>3. \A p \in Products : owner'[p] = IF p = q THEN i ELSE owner[p]
      BY <1>3, StockFacts
    <3>4. \A r \in Requests : r # i /\ r # NoTx
      BY <3>2
    <3> QED
      BY <3>1, <3>3, <3>4
  <2> QED
    BY <1>3, <2>1, <2>2, StockFacts, OthersKeep
    DEF StockInv, Holders, handlerVars, replyVars, busVars
<1>6. ImportTypeOK'
  <2>1. written[i] + 1 \in 0..BatchSize
    <3>1. BatchSize \in Nat
      BY ImportAssumption
    <3>2. pos[i] + written[i] + 1 <= pos[i] + BatchSize
      BY <1>1, <1>2, <3>1
    <3> QED
      BY <1>2, <3>1, <3>2
  <2>2. written' \in [Imports -> 0..BatchSize]
    BY <1>0, <1>3, <2>1 DEF ImportTypeOK
  <2>3. \A j \in Imports : pos'[j] + written'[j] <= Len(feed'[j])
    BY <1>0, <1>1, <1>2, <1>3, <1>4 DEF ImportTypeOK
  <2> QED
    BY <1>0, <1>3, <1>5, <2>2, <2>3 DEF ImportTypeOK, OrdersInv
<1>7. ImportersInStep'
  <2>1. pos'[i] + written'[i] <= ChunkEnd(i)'
    BY <1>1, <1>2, <1>3, <1>4 DEF ChunkEnd
  <2>2. \A j \in Imports \ {i} : written'[j] = written[j] /\ ChunkEnd(j)' = ChunkEnd(j)
    BY <1>3, <1>4 DEF ChunkEnd
  <2> QED
    BY <1>0, <1>2, <1>3, <2>1, <2>2 DEF ImportersInStep
<1>8. RowsOfBatches'
  <2>1. BatchRows(i)' = BatchRows(i) \cup {q}
    <3>1. (pos'[i] + 1)..(pos'[i] + written'[i])
            = (pos[i] + 1)..(pos[i] + written[i]) \cup {pos[i] + written[i] + 1}
      BY <1>2, <1>3, <1>4
    <3> QED
      BY <1>3, <3>1 DEF BatchRows, NextEntity, q
  <2>2. \A j \in Imports \ {i} : BatchRows(j)' = BatchRows(j)
    BY <1>3, <1>4 DEF BatchRows
  <2>3. \A p \in Products : owner'[p] = IF p = q THEN i ELSE owner[p]
    BY <1>3, StockFacts
  <2>4. \A j \in Imports \ {i} : q \notin BatchRows(j)
    BY <1>0, <1>1, <1>3, StockFacts DEF LockFree, RowsOfBatches
  <2> QED
    BY <1>0, <1>1, <2>1, <2>2, <2>3, <2>4 DEF RowsOfBatches
<1> QED
  BY <1>5, <1>6, <1>7, <1>8 DEF StockInv

(* What a batch puts in a row is what the API said of it.                     *)
LEMMA BatchStockType ==
  ASSUME ImportTypeOK, ImportersInStep, NEW i \in Imports, ipc[i] \in {"upsert", "orphan"},
         NEW p \in BatchRows(i)
  PROVE  BatchStock(i, p) \in Nat
<1>1. PICK k \in (pos[i] + 1)..(pos[i] + written[i]) : feed[i][k].id = p
  BY DEF BatchRows
<1> DEFINE c == CHOOSE n \in (pos[i] + 1)..(pos[i] + written[i]) : feed[i][n].id = p
<1>2. c \in (pos[i] + 1)..(pos[i] + written[i])
  BY <1>1
<1> HIDE DEF c
<1>3. c \in 1..Len(feed[i])
  BY <1>2, ChunkFacts
<1>4. feed[i][c].stock \in Nat
  BY <1>3, ChunkFacts, FeedFacts
<1> QED
  BY <1>4 DEF BatchStock, c

(* The end of a batch is the start of the next one, or the end of the feed.   *)
LEMMA NextBatch ==
  ASSUME ImportTypeOK, ImportersInStep, NEW i \in Imports, ipc[i] = "upsert",
         pos[i] < Len(feed[i])
  PROVE  ChunkEnd(i) \in BatchStarts(feed[i]) \cup {Len(feed[i])}
<1>1. /\ Len(feed[i]) \in Nat /\ pos[i] \in Nat /\ BatchSize \in Nat \ {0}
  BY ChunkFacts, ImportAssumption
<1>2. pos[i] \in BatchStarts(feed[i])
  BY <1>1 DEF ImportersInStep
<1>3. PICK k \in 0..Len(feed[i]) : pos[i] = k * BatchSize
  BY <1>2 DEF BatchStarts
<1>4. CASE pos[i] + BatchSize > Len(feed[i])
  BY <1>4 DEF ChunkEnd
<1>5. CASE pos[i] + BatchSize <= Len(feed[i])
  <2>1. k * BatchSize + BatchSize = (k + 1) * BatchSize /\ k <= k * BatchSize
    BY <1>1, <1>3
  <2>2. k + 1 \in 0..Len(feed[i])
    BY <1>1, <1>3, <1>5, <2>1
  <2>3. pos[i] + BatchSize \in BatchStarts(feed[i])
    BY <1>3, <2>1, <2>2 DEF BatchStarts
  <2> QED
    BY <1>1, <1>5, <2>3 DEF ChunkEnd
<1> QED
  BY <1>1, <1>4, <1>5

(* A batch sets the rows it holds, which no order has locked.                 *)
LEMMA CommittedStock ==
  ASSUME StockInv, NEW i \in Imports, CommitBatch(i)
  PROVE  /\ stock' \in [Products -> Nat]
         /\ \A p \in Products : owner[p] \in Requests => stock'[p] = stock[p]
<1>1. stock' = [p \in Products |-> IF p \in BatchRows(i) THEN BatchStock(i, p) ELSE stock[p]]
  BY DEF CommitBatch
<1>2. \A p \in BatchRows(i) : BatchStock(i, p) \in Nat
  BY BatchStockType DEF StockInv, CommitBatch
<1>3. \A p \in Products : p \in BatchRows(i) => owner[p] = i
  BY DEF StockInv, RowsOfBatches
<1> QED
  BY <1>1, <1>2, <1>3, StockFacts

(* The batch is the stock, its rows are free and the next one is due.         *)
LEMMA CommitKeeps ==
  ASSUME StockInv, NEW i \in Imports, CommitBatch(i)
  PROVE  StockInv'
<1>0. ImportTypeOK /\ ImportersInStep /\ RowsOfBatches
  BY DEF StockInv
<1>1. CASE ipc[i] = "orphan" /\ Ends(i)
  BY <1>1, CommittedStock, EndsKeep DEF CommitBatch
<1>2. CASE /\ ipc[i] = "upsert"
           /\ pos' = [pos EXCEPT ![i] = ChunkEnd(i)]
           /\ written' = [written EXCEPT ![i] = 0]
           /\ UNCHANGED <<ipc, feed>>
  <2>1. /\ feed[i] \in StockFeeds /\ Len(feed[i]) \in Nat /\ ChunkEnd(i) \in Nat
        /\ ChunkEnd(i) <= Len(feed[i])
        /\ BatchSize \in Nat \ {0}
    BY <1>0, <1>2, ChunkFacts, ImportAssumption
  <2>2. /\ pos'[i] = ChunkEnd(i) /\ written'[i] = 0
        /\ \A j \in Imports \ {i} : pos'[j] = pos[j] /\ written'[j] = written[j]
    BY <1>0, <1>2 DEF ImportTypeOK
  <2>3. /\ owner' \in [Products -> Holders]
        /\ \A p \in Products : owner'[p] # i
        /\ \A p \in Products : \A x \in Requests \cup Imports :
              x # i => (owner'[p] = x <=> owner[p] = x)
    <3>1. /\ owner \in [Products -> Holders] /\ i # NoTx /\ NoTx \in Holders
          /\ NoTx \notin Requests \cup Imports
          /\ owner' = [p \in Products |-> IF owner[p] = i THEN NoTx ELSE owner[p]]
      BY StockFacts, ServiceAssumption DEF CommitBatch, Freed, Holders
    <3> QED
      BY <3>1
  <2>4. OrdersInv(Holders)'
    <3>1. \A p \in Products : \A r \in Requests : owner'[p] = r <=> owner[p] = r
      BY <2>3, StockFacts
    <3>2. Requests \cup {NoTx} \subseteq Holders /\ OrdersInv(Holders)
      BY DEF Holders, StockInv
    <3> QED
      BY <2>3, <3>1, <3>2, CommittedStock, OthersKeep
      DEF CommitBatch, handlerVars, replyVars, busVars
  <2>5. ImportTypeOK'
    <3>1. pos' \in [Imports -> Nat] /\ written' \in [Imports -> 0..BatchSize]
      BY <1>0, <1>2, <2>1 DEF ImportTypeOK
    <3>2. \A j \in Imports : pos'[j] + written'[j] <= Len(feed'[j])
      BY <1>0, <1>2, <2>1, <2>2 DEF ImportTypeOK
    <3> QED
      BY <1>0, <1>2, <2>4, <3>1, <3>2 DEF ImportTypeOK, OrdersInv
  <2>6. ImportersInStep'
    <3>1. pos'[i] \in BatchStarts(feed[i]) \cup {Len(feed[i])}
      BY <1>0, <1>2, <2>2, NextBatch DEF CommitBatch
    <3>2. pos'[i] + written'[i] <= ChunkEnd(i)'
      BY <1>2, <2>1, <2>2 DEF ChunkEnd
    <3>3. \A j \in Imports \ {i} : pos'[j] = pos[j] /\ written'[j] = written[j]
                                /\ ChunkEnd(j)' = ChunkEnd(j)
      BY <1>2, <2>2 DEF ChunkEnd
    <3> QED
      BY <1>0, <1>2, <2>1, <3>1, <3>2, <3>3 DEF ImportersInStep
  <2>7. RowsOfBatches'
    <3>1. BatchRows(i)' = {}
      BY <2>1, <2>2 DEF BatchRows
    <3>2. \A j \in Imports \ {i} : BatchRows(j)' = BatchRows(j)
      BY <1>2, <2>2 DEF BatchRows
    <3> QED
      BY <1>0, <2>3, <3>1, <3>2 DEF RowsOfBatches
  <2> QED
    BY <2>4, <2>5, <2>6, <2>7 DEF StockInv
<1> QED
  BY <1>1, <1>2 DEF CommitBatch

(* A batch that is rolled back, and an importer that ends between two.        *)
LEMMA RolledBackKeeps ==
  ASSUME StockInv, NEW i \in Imports,
         ImportVictim(i) \/ ServerDropsBatch(i)
  PROVE  StockInv'
  BY StockFacts, EndsKeep DEF ImportVictim, ServerDropsBatch

(* Nothing is written of a feed that is through.                              *)
LEMMA EndKeeps ==
  ASSUME StockInv, NEW i \in Imports, EndImport(i)
  PROVE  StockInv'
<1>1. written[i] = 0
  <2>1. /\ pos[i] = Len(feed[i]) /\ pos[i] \in Nat /\ written[i] \in 0..BatchSize
        /\ pos[i] + written[i] <= Len(feed[i]) /\ BatchSize \in Nat
    BY ImportAssumption DEF StockInv, ImportTypeOK, EndImport
  <2> QED
    BY <2>1
<1>2. Freed(i) /\ Ends(i) /\ UNCHANGED <<handlerVars, stock>>
  BY <1>1, NothingHeld DEF EndImport, vars, handlerVars
<1> QED
  BY <1>2, StockFacts, EndsKeep

(* The batch of an importer that is gone is as it was.                        *)
LEMMA GoneKeeps ==
  ASSUME StockInv, NEW i \in Imports, ImporterGone(i)
  PROVE  StockInv'
<1>1. CASE written[i] = 0 /\ Ends(i)
  <2>1. Freed(i) /\ UNCHANGED <<handlerVars, stock>>
    BY <1>1, NothingHeld DEF ImporterGone, vars, handlerVars
  <2> QED
    BY <1>1, <2>1, StockFacts, EndsKeep
<1>2. CASE /\ ipc[i] = "upsert" /\ pos[i] < Len(feed[i])
           /\ ipc' = [ipc EXCEPT ![i] = "orphan"]
           /\ UNCHANGED <<feed, pos, written>>
  <2>1. OrdersInv(Holders)' /\ owner' = owner
    <3>1. OrdersInv(Holders)'
      BY StockFacts, OthersKeep DEF StockInv, Holders, ImporterGone, vars, replyVars, busVars
    <3> QED
      BY <3>1 DEF ImporterGone, vars
  <2>2. ImportTypeOK'
    BY <1>2, <2>1 DEF StockInv, ImportTypeOK, ImportStates, OrdersInv
  <2>3. ImportersInStep'
    BY <1>2 DEF StockInv, ImportTypeOK, ImportersInStep, ChunkEnd
  <2>4. RowsOfBatches'
    BY <1>2, <2>1 DEF StockInv, RowsOfBatches, BatchRows
  <2> QED
    BY <2>1, <2>2, <2>3, <2>4 DEF StockInv
<1> QED
  BY <1>1, <1>2 DEF ImporterGone

(* Importers and orders together keep StockInv, and so does standing still.   *)
LEMMA StockInvStep == StockInv /\ [StockNext]_stockVars => StockInv'
<1> SUFFICES ASSUME StockInv, [StockNext]_stockVars PROVE StockInv'
  OBVIOUS
<1>1. CASE Next /\ UNCHANGED importVars
  BY <1>1, StepsOfOrders, OrdersKeepStock
<1>2. ASSUME NEW r \in Requests, OrderVictim(r) PROVE StockInv'
  BY <1>2, OrderVictimEffect, OrdersKeepStock DEF OrdersStep
<1>3. ASSUME NEW i \in Imports, ImportStep(i) PROVE StockInv'
  BY <1>3, FetchKeeps, UpsertKeeps, CommitKeeps, RolledBackKeeps, EndKeeps, GoneKeeps
  DEF ImportStep, BatchGoesOn
<1>4. CASE UNCHANGED stockVars
  <2>1. OrdersInv(Holders)'
    BY <1>4, StockFacts, OthersKeep DEF StockInv, Holders, stockVars, vars, replyVars, busVars
  <2>2. ImportTypeOK' /\ ImportersInStep' /\ RowsOfBatches'
    BY <1>4, <2>1 DEF StockInv, ImportTypeOK, OrdersInv, ImportersInStep, ChunkEnd, RowsOfBatches,
                      BatchRows, stockVars, importVars, vars
  <2> QED
    BY <2>1, <2>2 DEF StockInv
<1> QED
  BY <1>1, <1>2, <1>3, <1>4 DEF StockNext

(* Imports never disturb what orders rest on: with any number of both in      *)
(* flight no row is oversold, no checked stock changes under its lock, and an *)
(* importer holds the rows of its batch and no others.                        *)
THEOREM ImportInvariance == StockSpec => []StockInv
BY StockInitStep, StockInvStep, PTL DEF StockSpec

(* Not even imports make Create sell what is not there: no stock they set is  *)
(* under what an open transaction has already taken.                          *)
THEOREM NoOversellUnderImports == StockSpec => []NoOversell
<1>1. StockInv => NoOversell
  BY DEF StockInv, OrdersInv
<1> QED
  BY <1>1, ImportInvariance, PTL

-----------------------------------------------------------------------------
(* An importer whose batch is sorted, waiting for a row, waits for a greater  *)
(* id than those of the rows it holds.                                        *)
LEMMA ImportersClimb ==
  ASSUME StockInv, NEW i \in Imports, Writing(i), AscendingBatch(i),
         NEW p \in Products, owner[p] = i
  PROVE  p < NextEntity(i).id
<1>1. ImportTypeOK /\ ImportersInStep /\ p \in BatchRows(i)
  BY DEF StockInv, RowsOfBatches
<1>2. PICK k \in (pos[i] + 1)..(pos[i] + written[i]) : feed[i][k].id = p
  BY <1>1 DEF BatchRows
<1> DEFINE n == pos[i] + written[i] + 1
<1>3. /\ Len(feed[i]) \in Nat /\ pos[i] \in Nat /\ written[i] \in Nat /\ ChunkEnd(i) \in Nat
      /\ ChunkEnd(i) <= pos[i] + BatchSize /\ BatchSize \in Nat
      /\ n \in 1..Len(feed[i]) /\ n <= ChunkEnd(i)
  BY <1>1, ChunkFacts, NextEntityFacts, ImportAssumption DEF Writing
<1>4. k \in 1..Len(feed[i]) /\ pos[i] < k /\ k < n /\ n <= pos[i] + BatchSize
  BY <1>2, <1>3
<1>5. p <= NextEntity(i).id
  BY <1>2, <1>3, <1>4 DEF AscendingBatch, NextEntity
<1>6. p # NextEntity(i).id
  BY <1>1, NextEntityFacts
<1>7. p \in Nat /\ NextEntity(i).id \in Nat
  BY <1>1, NextEntityFacts, CatalogueAssumption
<1> QED
  BY <1>5, <1>6, <1>7

(* So a circle of importers and orders has one that was not sorted.           *)
LEMMA MixedCyclesFollow == StockInv => CyclesNeedDisorder
<1> SUFFICES ASSUME StockInv, NEW S \in SUBSET (Requests \cup Imports), MixedCycle(S),
                    \A r \in S \cap Requests : Ascending(cart[r]),
                    \A i \in S \cap Imports : AscendingBatch(i)
             PROVE  FALSE
  BY DEF CyclesNeedDisorder
<1> DEFINE wants == [x \in S |-> IF x \in Imports THEN NextEntity(x).id ELSE Target(x)]
<1>1. \A x \in S : \E p \in Products : WaitsFor(x, p) /\ owner[p] \in S
  BY DEF MixedCycle
<1>2. ASSUME NEW x \in S
      PROVE  /\ wants[x] \in Products /\ owner[wants[x]] \in S
             /\ \A p \in Products : owner[p] = x => p < wants[x]
  <2>1. PICK q \in Products : WaitsFor(x, q) /\ owner[q] \in S
    BY <1>1
  <2>2. wants[x] = q
    BY <2>1 DEF WaitsFor
  <2>3. CASE x \in Imports
    BY <2>1, <2>2, <2>3, ImportersClimb DEF WaitsFor
  <2>4. CASE x \notin Imports
    <3>1. x \in Requests /\ Waiting(x) /\ Target(x) = q
      BY <2>1, <2>4 DEF WaitsFor
    <3>2. Ascending(cart[x]) /\ OrdersInv(Holders)
      BY <3>1 DEF StockInv
    <3> QED
      BY <2>1, <2>2, <3>1, <3>2, WaitersClimb
  <2> QED
    BY <2>3, <2>4
<1>3. S # {} /\ wants \in [S -> Products]
  <2>1. S # {}
    BY DEF MixedCycle
  <2> QED
    BY <1>2, <2>1
<1> HIDE DEF wants
<1> QED
  BY <1>2, <1>3, NoClimbingCircle

(* Imports and orders sorted by product id never deadlock, whatever the feed  *)
(* as a whole is like.                                                        *)
THEOREM SortedBatchesNeverDeadlock == StockSpec => []CyclesNeedDisorder
BY MixedCyclesFollow, ImportInvariance, PTL

-----------------------------------------------------------------------------
(* The refinement of RestockedLedger, whose operators on carts are those of   *)
(* CartDemand, ...                                                            *)
LEMMA SameRestockedDemand ==
  ASSUME NEW c, NEW p
  PROVE  Restocked!TotalDemand(c, p) = TotalDemand(c, p)
  BY Zenon DEF Restocked!TotalDemand, TotalDemand, Restocked!Demand, Demand,
     Restocked!LineDemand, LineDemand, Restocked!EffectiveQty, EffectiveQty,
     Restocked!ResolveProductID, ResolveProductID

(* ... and who accepts the same carts.                                        *)
LEMMA SameRestockedFulfillable ==
  ASSUME NEW c, NEW a
  PROVE  Restocked!Fulfillable(c, a) <=> Fulfillable(c, a)
  BY SameRestockedDemand DEF Restocked!Fulfillable, Fulfillable, Restocked!KnownLine, KnownLine,
     Restocked!ResolveProductID, ResolveProductID

(* A step of that ledger, or none.                                            *)
RestockedStepped == Restocked!RestockedNext \/ UNCHANGED Restocked!restockedVars

(* Who is refused is not yet answered; who was refused has no order.          *)
LEMMA RefusedFacts ==
  ASSUME OrdersInv(Holders)
  PROVE  /\ TurnedDown = Refusing \cup {r \in Requests : status[r] = 400}
         /\ \A r \in Refusing : status[r] = 0
         /\ \A r \in Requests : status[r] = 400 => r \notin Committed
         /\ status \in [Requests -> {0, 201, 400, 500}]
<1>1. TypedWith(Holders) /\ TxOfAnswer
  BY DEF OrdersInv
<1> QED
  BY <1>1 DEF TypedWith, TxOfAnswer, TurnedDown, Refusing, Committed

(* What happens to orders is a step of that ledger: a refusal whose pod is    *)
(* killed is forgotten there.                                                 *)
LEMMA RestockedOrderStep ==
  ASSUME StockInv, OrdersStep
  PROVE  RestockedStepped
<1> USE DEF RestockedStepped, Restocked!RestockedNext
<1>0. OrdersInv(Holders) /\ Requests \cup {NoTx} \subseteq Holders
  BY DEF StockInv, Holders
<1>1. Outcome
  BY <1>0, OutcomeStep
<1>2. /\ TurnedDown = Refusing \cup {r \in Requests : status[r] = 400}
      /\ TurnedDown' = Refusing' \cup {r \in Requests : status'[r] = 400}
      /\ \A r \in Refusing : status[r] = 0
      /\ \A r \in Requests : status[r] = 400 => r \notin Committed
      /\ status \in [Requests -> {0, 201, 400, 500}]
  BY <1>0, RefusedFacts DEF TurnedDown, Refusing
<1>3. CASE Quiet
  <2>1. /\ UNCHANGED <<cart, stock, status, Committed>>
        /\ TurnedDown' = TurnedDown \ (TurnedDown \ TurnedDown')
        /\ TurnedDown \ TurnedDown' \in SUBSET {r \in TurnedDown : status[r] = 0}
    BY <1>2, <1>3 DEF Quiet
  <2>2. Restocked!Forget
    BY <2>1 DEF Restocked!Forget
  <2> QED
    BY <2>2
<1>4. ASSUME NEW r \in Requests, TurnsDown(r) PROVE RestockedStepped
  <2>1. /\ UNCHANGED <<cart, stock, status, Committed>>
        /\ r \notin Committed \cup TurnedDown /\ status[r] = 0
        /\ TurnedDown' = TurnedDown \cup {r}
        /\ ~Fulfillable(cart[r], stock)
    BY <1>2, <1>4 DEF TurnsDown
  <2>2. Restocked!TurnDown(r)
    BY <2>1, SameRestockedFulfillable DEF Restocked!TurnDown, Restocked!Undecided
  <2> QED
    BY <2>2
<1>5. ASSUME NEW r \in Requests, Places(r) PROVE RestockedStepped
  <2>1. TurnedDown' = TurnedDown /\ r \notin Committed \cup TurnedDown
    BY <1>2, <1>5 DEF Places
  <2>2. Restocked!Place(r)
    BY <1>5, <2>1, SameRestockedDemand, SameRestockedFulfillable
    DEF Places, Restocked!Place, Restocked!Undecided
  <2> QED
    BY <2>2
<1>6. ASSUME NEW r \in Requests, NEW s \in {201, 400, 500}, Answers(r, s) PROVE RestockedStepped
  <2>1. /\ UNCHANGED <<cart, stock, Committed>> /\ status[r] = 0
        /\ status' = [status EXCEPT ![r] = s]
        /\ Refusing' = Refusing \ {r}
    BY <1>6 DEF Answers
  <2>2. \A x \in Requests : status'[x] = IF x = r THEN s ELSE status[x]
    BY <1>2, <2>1
  <2>3. CASE s # 400 \/ r \in Refusing
    <3>1. TurnedDown' = TurnedDown
      BY <1>2, <1>6, <2>1, <2>2, <2>3 DEF Answers
    <3>2. \/ s = 201 /\ r \in Committed
          \/ s = 400 /\ r \in TurnedDown
          \/ s = 500
      BY <1>2, <1>6, <2>3 DEF Answers
    <3>3. s \in {500} \cup (IF r \in Committed THEN {201} ELSE {})
                    \cup (IF r \in TurnedDown THEN {400} ELSE {})
      BY <3>2
    <3>4. Restocked!Answer(r)
      <4> DEFINE Due == {500} \cup (IF r \in Committed THEN {201} ELSE {})
                           \cup (IF r \in TurnedDown THEN {400} ELSE {})
      <4>0. s \in Due /\ status' = [status EXCEPT ![r] = s]
        BY <2>1, <3>3
      <4>1. \E t \in Due : status' = [status EXCEPT ![r] = t]
        <5> HIDE DEF Due
        <5> QED
          BY <4>0, Zenon
      <4> QED
        BY <2>1, <3>1, <4>1, Zenon DEF Restocked!Answer
    <3> QED
      BY <3>4
  <2>4. CASE s = 400 /\ r \notin Refusing
    <3>1. r \in Garbled /\ r \notin Committed \cup TurnedDown
      BY <1>2, <1>6, <2>1, <2>4 DEF Answers
    <3>2. TurnedDown' = TurnedDown \cup {r}
      BY <1>2, <2>1, <2>2, <2>4
    <3>3. Restocked!TurnDown(r)
      BY <2>1, <2>4, <3>1, <3>2 DEF Restocked!TurnDown, Restocked!Undecided
    <3> QED
      BY <3>3
  <2> QED
    BY <2>3, <2>4
<1> QED
  BY <1>1, <1>3, <1>4, <1>5, <1>6 DEF Outcome

(* The batch an importer commits is one of those its feed is cut into.        *)
LEMMA CommitsABatch ==
  ASSUME StockInv, NEW i \in Imports, CommitBatch(i)
  PROVE  \E f \in StockFeeds : \E b \in BatchesOf(f) :
           stock' = [p \in Products |-> IF p \in DOMAIN AsStock(b) THEN AsStock(b)[p] ELSE stock[p]]
<1> DEFINE f == feed[i]
           b == SubSeq(f, pos[i] + 1, ChunkEnd(i))
           n == written[i]
<1>0. ImportTypeOK /\ ImportersInStep
  BY DEF StockInv
<1>1. /\ f \in StockFeeds /\ Len(f) \in Nat
      /\ pos[i] \in Nat /\ n \in Nat /\ ChunkEnd(i) = pos[i] + n
      /\ ChunkEnd(i) <= Len(f) /\ pos[i] < Len(f)
      /\ pos[i] \in BatchStarts(f)
  BY <1>0, ChunkFacts DEF CommitBatch, ImportersInStep
<1>2. b \in BatchesOf(f)
  <2>1. pos[i] \in BatchStarts(f) \cap 0..(Len(f) - 1)
    BY <1>1
  <2> QED
    BY <2>1 DEF BatchesOf, ChunkEnd
<1>3. Len(b) = n /\ \A k \in 1..n : b[k] = f[pos[i] + k]
  <2> DEFINE Entity == {f[k] : k \in 1..Len(f)}
  <2>1. \A k \in (pos[i] + 1)..ChunkEnd(i) : f[k] \in Entity
    BY <1>1
  <2>2. pos[i] + 1 \in Int /\ ChunkEnd(i) \in Int
    BY <1>1
  <2>3. /\ Len(b) = IF pos[i] + 1 <= ChunkEnd(i) THEN ChunkEnd(i) - (pos[i] + 1) + 1 ELSE 0
        /\ \A k \in 1..(ChunkEnd(i) - (pos[i] + 1) + 1) : b[k] = f[pos[i] + 1 + k - 1]
    <3> HIDE DEF Entity, f
    <3> QED
      BY <2>1, <2>2, SubSeqProperties
  <2>4. ChunkEnd(i) - (pos[i] + 1) + 1 = n /\ (pos[i] + 1 <= ChunkEnd(i) \/ n = 0)
    BY <1>1
  <2>5. \A k \in 1..n : pos[i] + 1 + k - 1 = pos[i] + k
    BY <1>1
  <2> HIDE DEF b, f
  <2> QED
    BY <1>1, <2>3, <2>4, <2>5
<1> HIDE DEF b, f, n
<1>4. \A j, k \in 1..Len(f) : f[j].id = f[k].id => j = k
  BY <1>1, FeedFacts
<1>5. DOMAIN AsStock(b) = BatchRows(i)
  <2>1. DOMAIN AsStock(b) = {f[pos[i] + k].id : k \in 1..n}
    BY <1>3 DEF AsStock
  <2>2. \A k \in 1..n : pos[i] + k \in (pos[i] + 1)..(pos[i] + n)
    BY <1>1
  <2>3. \A k \in (pos[i] + 1)..(pos[i] + n) : k - pos[i] \in 1..n /\ pos[i] + (k - pos[i]) = k
    BY <1>1
  <2>4. BatchRows(i) = {f[k].id : k \in (pos[i] + 1)..(pos[i] + n)}
    BY DEF BatchRows, f, n
  <2> QED
    BY <2>1, <2>2, <2>3, <2>4
<1>6. ASSUME NEW p \in BatchRows(i) PROVE AsStock(b)[p] = BatchStock(i, p)
  <2> DEFINE c == CHOOSE k \in (pos[i] + 1)..(pos[i] + n) : f[k].id = p
             d == CHOOSE k \in 1..Len(b) : b[k].id = p
  <2>1. c \in (pos[i] + 1)..(pos[i] + n) /\ f[c].id = p
    BY DEF BatchRows, f, n
  <2>2. AsStock(b)[p] = b[d].stock
    BY <1>5 DEF AsStock
  <2>3. d \in 1..Len(b) /\ b[d].id = p
    BY <1>5 DEF AsStock
  <2>4. BatchStock(i, p) = f[c].stock
    BY DEF BatchStock, f, n
  <2> HIDE DEF c, d
  <2>5. d \in 1..n /\ b[d] = f[pos[i] + d]
    BY <1>3, <2>3
  <2>6. c \in 1..Len(f) /\ pos[i] + d \in 1..Len(f)
    BY <1>1, <2>1, <2>5
  <2>7. c = pos[i] + d
    BY <1>4, <2>1, <2>3, <2>5, <2>6
  <2> QED
    BY <2>2, <2>4, <2>5, <2>7
<1>7. stock' = [p \in Products |-> IF p \in BatchRows(i) THEN BatchStock(i, p) ELSE stock[p]]
  BY DEF CommitBatch
<1>8. stock' = [p \in Products |-> IF p \in DOMAIN AsStock(b) THEN AsStock(b)[p] ELSE stock[p]]
  BY <1>5, <1>6, <1>7
<1> QED
  BY <1>1, <1>2, <1>8

(* Steps that orders and their clients do not see.                            *)
LEMMA UnseenSteps ==
  ASSUME UNCHANGED <<cart, pc, tx, status>>
  PROVE  Committed' = Committed /\ TurnedDown' = TurnedDown
  BY DEF Committed, TurnedDown

(* What an importer does is to restock, or nothing.                           *)
LEMMA RestockedImportStep ==
  ASSUME StockInv, NEW i \in Imports, ImportStep(i)
  PROVE  RestockedStepped
<1>1. CASE CommitBatch(i)
  <2>0. PICK f \in StockFeeds : \E b \in BatchesOf(f) :
          stock' = [p \in Products |-> IF p \in DOMAIN AsStock(b) THEN AsStock(b)[p] ELSE stock[p]]
    BY <1>1, CommitsABatch
  <2>1. PICK b \in BatchesOf(f) :
          stock' = [p \in Products |-> IF p \in DOMAIN AsStock(b) THEN AsStock(b)[p] ELSE stock[p]]
    BY <2>0
  <2>2. AsStock(b) \in {AsStock(x) : x \in UNION {BatchesOf(g) : g \in StockFeeds}}
    BY <2>1
  <2>3. UNCHANGED <<cart, status, Committed, TurnedDown>>
    BY <1>1, UnseenSteps DEF CommitBatch, handlerVars
  <2>4. Restocked!Restock
    <3> HIDE DEF AsStock, BatchesOf
    <3> QED
      BY <2>1, <2>2, <2>3 DEF Restocked!Restock
  <2> QED
    BY <2>4 DEF RestockedStepped, Restocked!RestockedNext
<1>2. CASE ~CommitBatch(i)
  <2>1. UNCHANGED <<handlerVars, stock>>
    BY <1>2 DEF ImportStep, BatchGoesOn, FetchProducts, UpsertRow, ImportVictim, EndImport,
                ImporterGone, ServerDropsBatch, handlerVars, vars
  <2>2. UNCHANGED <<cart, stock, status, Committed, TurnedDown>>
    BY <2>1, UnseenSteps DEF handlerVars
  <2> QED
    BY <2>2 DEF RestockedStepped, Restocked!restockedVars
<1> QED
  BY <1>1, <1>2

(* Orders keep the promise of RestockedLedger whatever is imported under      *)
(* them: carts are taken whole from the stock of that instant, refusals had   *)
(* their reason, and a batch is applied whole.                                *)
THEOREM ImportsKeepThePromise == StockSpec => KeepsPromise
<1>1. StockInit => Restocked!RestockedInit
  BY DEF StockInit, Init, Restocked!RestockedInit, Committed, TurnedDown
<1>2. StockInv /\ [StockNext]_stockVars => [Restocked!RestockedNext]_(Restocked!restockedVars)
  <2>1. ASSUME StockInv, StockNext PROVE [Restocked!RestockedNext]_(Restocked!restockedVars)
    <3>1. CASE Next /\ UNCHANGED importVars
      BY <2>1, <3>1, StepsOfOrders, RestockedOrderStep DEF RestockedStepped
    <3>2. ASSUME NEW r \in Requests, OrderVictim(r) PROVE RestockedStepped
      BY <2>1, <3>2, OrderVictimEffect, RestockedOrderStep DEF OrdersStep
    <3>3. ASSUME NEW i \in Imports, ImportStep(i) PROVE RestockedStepped
      BY <2>1, <3>3, RestockedImportStep
    <3> QED
      BY <2>1, <3>1, <3>2, <3>3 DEF StockNext, RestockedStepped
  <2>2. ASSUME UNCHANGED stockVars PROVE UNCHANGED Restocked!restockedVars
    BY <2>2, UnseenSteps DEF stockVars, vars, Restocked!restockedVars
  <2> QED
    BY <2>1, <2>2
<1> QED
  BY <1>1, <1>2, ImportInvariance, PTL DEF StockSpec, KeepsPromise, Restocked!RestockedSpec
=============================================================================
