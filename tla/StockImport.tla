----------------------------- MODULE StockImport -----------------------------
(* utils/products.go beside the order-service: ProductsParser.UpsertBatch     *)
(* writes the products table in batches of one transaction each, setting the  *)
(* stock column to what the external API said (stock = EXCLUDED.stock), while *)
(* orders lock and decrement the same rows.                                   *)
(*                                                                            *)
(* An importer is known by its run, and owns row locks like a request.  Only  *)
(* the upserts of rows that exist are modelled: no order can touch a row that *)
(* an import has yet to insert.                                               *)
EXTENDS OrderServiceProperties

CONSTANTS Imports,     \* importer runs
          StockFeeds,  \* what the API may answer: sequences of [id, stock]
          BatchSize    \* rows per batch

ASSUME ImportAssumption ==
  /\ Imports \cap (Requests \cup {NoTx}) = {}
  /\ StockFeeds \subseteq Seq([id : Products, stock : Nat])
  /\ \A f \in StockFeeds : \A j, k \in 1..Len(f) : f[j].id = f[k].id => j = k
  /\ BatchSize \in Nat \ {0}

VARIABLES
  ipc,      \* where each importer is
  feed,     \* the entities it has parsed
  pos,      \* how many of them are committed
  written   \* how many of them its transaction has upserted beyond those

importVars == <<ipc, feed, pos, written>>
stockVars == <<vars, importVars>>
handlerVars == <<cart, pc, cancelled, done, tx, items, status, counted, event, delivered>>

(* An importer fetches, sends its batches, and ends; it is orphaned when it   *)
(* is gone, by a signal, its timeout or a kill, with a batch sent.            *)
ImportStates == {"fetch", "upsert", "orphan", "ended"}

Holders == Requests \cup Imports \cup {NoTx}

ImportTypeOK ==
  /\ TypedWith(Holders)
  /\ ipc \in [Imports -> ImportStates]
  /\ feed \in [Imports -> StockFeeds \cup {<< >>}]
  /\ pos \in [Imports -> Nat]
  /\ written \in [Imports -> 0..BatchSize]
  /\ \A i \in Imports : pos[i] + written[i] <= Len(feed[i])

StockInit ==
  /\ Init
  /\ ipc = [i \in Imports |-> "fetch"]
  /\ feed = [i \in Imports |-> << >>]
  /\ pos = [i \in Imports |-> 0]
  /\ written = [i \in Imports |-> 0]

-----------------------------------------------------------------------------
(* The batch that is being written: chunk := products[i:end].                 *)
WholeFeed(i) == Len(feed[i])   \* a slip: one transaction for all batches

ChunkEnd(i) ==
  IF pos[i] + BatchSize > Len(feed[i]) THEN Len(feed[i]) ELSE pos[i] + BatchSize

NextEntity(i) == feed[i][pos[i] + written[i] + 1]
Writing(i) == ipc[i] \in {"upsert", "orphan"} /\ pos[i] + written[i] < ChunkEnd(i)

(* The rows its transaction has changed, and the stock it puts there.         *)
BatchRows(i) == {feed[i][k].id : k \in (pos[i] + 1)..(pos[i] + written[i])}
BatchStock(i, p) ==
  feed[i][CHOOSE k \in (pos[i] + 1)..(pos[i] + written[i]) : feed[i][k].id = p].stock

Freed(i) == owner' = [p \in Products |-> IF owner[p] = i THEN NoTx ELSE owner[p]]

(* The process is over, its list forgotten.                                   *)
Ends(i) ==
  /\ ipc' = [ipc EXCEPT ![i] = "ended"]
  /\ feed' = [feed EXCEPT ![i] = << >>]
  /\ pos' = [pos EXCEPT ![i] = 0]
  /\ written' = [written EXCEPT ![i] = 0]

(* Who waits for whose lock, importers and requests alike.                    *)
WaitsFor(x, p) ==
  IF x \in Imports THEN Writing(x) /\ NextEntity(x).id = p /\ ~LockFree(x, p)
                   ELSE Waiting(x) /\ Target(x) = p

MixedCycle(S) ==
  /\ S # {}
  /\ \A x \in S : \E p \in Products : WaitsFor(x, p) /\ owner[p] \in S
  /\ \A x \in S : \E y \in S : \E p \in Products : WaitsFor(y, p) /\ owner[p] = x

InMixedCycle(x) == \E S \in SUBSET (Requests \cup Imports) : x \in S /\ MixedCycle(S)

-----------------------------------------------------------------------------
(* The API answers; the list may be old by the time it is written.            *)
FetchProducts(i) ==
  /\ ipc[i] = "fetch"
  /\ \E f \in StockFeeds : feed' = [feed EXCEPT ![i] = f]
  /\ ipc' = [ipc EXCEPT ![i] = "upsert"]
  /\ UNCHANGED <<vars, pos, written>>

(* A slip: rows written without regard to who has locked them.                *)
OverwriteRow(i) ==
  /\ Writing(i)
  /\ owner' = [owner EXCEPT ![NextEntity(i).id] = i]
  /\ written' = [written EXCEPT ![i] = @ + 1]
  /\ UNCHANGED <<handlerVars, stock, ipc, feed, pos>>

(* INSERT ... ON CONFLICT DO UPDATE waits for the row and locks it.           *)
UpsertRow(i) ==
  /\ Writing(i)
  /\ LockFree(i, NextEntity(i).id)
  /\ owner' = [owner EXCEPT ![NextEntity(i).id] = i]
  /\ written' = [written EXCEPT ![i] = @ + 1]
  /\ UNCHANGED <<handlerVars, stock, ipc, feed, pos>>

(* A slip: the next batch counted on from the rows of the last one.           *)
CommitWithoutReset(i) ==
  /\ ipc[i] = "upsert"
  /\ pos[i] < Len(feed[i])
  /\ pos[i] + written[i] = ChunkEnd(i)
  /\ pos' = [pos EXCEPT ![i] = ChunkEnd(i)]
  /\ Freed(i)
  /\ UNCHANGED <<handlerVars, stock, ipc, feed, written>>

(* The end of the pipeline commits the batch; an orphan's batch is its last.  *)
CommitBatch(i) ==
  /\ ipc[i] \in {"upsert", "orphan"}
  /\ pos[i] < Len(feed[i])
  /\ pos[i] + written[i] = ChunkEnd(i)
  /\ stock' = [p \in Products |-> IF p \in BatchRows(i) THEN BatchStock(i, p) ELSE stock[p]]
  /\ Freed(i)
  /\ \/ /\ ipc[i] = "upsert"
        /\ pos' = [pos EXCEPT ![i] = ChunkEnd(i)]
        /\ written' = [written EXCEPT ![i] = 0]
        /\ UNCHANGED <<ipc, feed>>
     \/ ipc[i] = "orphan" /\ Ends(i)
  /\ UNCHANGED handlerVars

(* A slip: the error of a batch ends the program without closing the batch.   *)
StopWithoutRollback(i) ==
  /\ ipc[i] = "upsert"
  /\ InMixedCycle(i)
  /\ Ends(i)
  /\ UNCHANGED vars

(* The batch is the victim of a deadlock, is rolled back, and the importer    *)
(* stops with what earlier batches have committed.                            *)
ImportVictim(i) ==
  /\ InMixedCycle(i)
  /\ Freed(i)
  /\ Ends(i)
  /\ UNCHANGED <<handlerVars, stock>>

(* An order is the victim.                                                    *)
OrderVictim(r) ==
  /\ InMixedCycle(r)
  /\ SetTx(r, "aborted")
  /\ Undo(r)
  /\ Goto(r, "fail")
  /\ UNCHANGED <<cart, cancelled, done, replyVars, busVars, importVars>>

EndImport(i) ==
  /\ ipc[i] = "upsert"
  /\ pos[i] = Len(feed[i])
  /\ Ends(i)
  /\ UNCHANGED vars

(* The importer is gone: between two batches that is its end, else the server *)
(* has the whole batch and may go on with it.                                 *)
ImporterGone(i) ==
  /\ ipc[i] \in {"fetch", "upsert"}
  /\ \/ ipc[i] = "upsert" /\ pos[i] < Len(feed[i])
        /\ ipc' = [ipc EXCEPT ![i] = "orphan"]
        /\ UNCHANGED <<feed, pos, written>>
     \/ written[i] = 0 /\ Ends(i)
  /\ UNCHANGED vars

(* The server finds out and rolls the batch back.                             *)
ServerDropsBatch(i) ==
  /\ ipc[i] = "orphan"
  /\ Freed(i)
  /\ Ends(i)
  /\ UNCHANGED <<handlerVars, stock>>

-----------------------------------------------------------------------------
(* What the server does with a batch it has, and what the importer does.      *)
BatchGoesOn(i) == UpsertRow(i) \/ CommitBatch(i) \/ ImportVictim(i)
ImportStep(i) ==
  FetchProducts(i) \/ BatchGoesOn(i) \/ EndImport(i) \/ ImporterGone(i) \/ ServerDropsBatch(i)

StockNext ==
  \/ Next /\ UNCHANGED importVars
  \/ \E r \in Requests : OrderVictim(r)
  \/ \E i \in Imports : ImportStep(i)

StockSpec == StockInit /\ [][StockNext]_stockVars

(* As in OrderService; and PostgreSQL goes on with a batch, an importer goes  *)
(* on or is gone.                                                             *)
StockFairness ==
  /\ \A r \in Requests :
       /\ WF_stockVars(Proceed(r) /\ UNCHANGED importVars)
       /\ WF_stockVars(cancelled[r] /\ Falter(r) /\ UNCHANGED importVars)
       /\ WF_stockVars(OrderVictim(r))
       /\ WF_stockVars(ServerSettles(r) /\ UNCHANGED importVars)
       /\ WF_stockVars(Broker(r) /\ UNCHANGED importVars)
  /\ \A i \in Imports : WF_stockVars(BatchGoesOn(i) \/ EndImport(i))

FairStockSpec == StockSpec /\ StockFairness

-----------------------------------------------------------------------------
(* What an import sets at once: a batch of a feed.                            *)
BatchStarts(f) == {k * BatchSize : k \in 0..Len(f)}
BatchesOf(f) ==
  {SubSeq(f, n + 1, IF n + BatchSize > Len(f) THEN Len(f) ELSE n + BatchSize) :
     n \in BatchStarts(f) \cap 0..(Len(f) - 1)}
AsStock(b) ==
  [p \in {b[k].id : k \in 1..Len(b)} |-> b[CHOOSE k \in 1..Len(b) : b[k].id = p].stock]

TurnedDown == {r \in Requests : pc[r] = "refuse" \/ status[r] = 400}

Restocked == INSTANCE RestockedLedger WITH
  placed <- Committed,
  turnedDown <- TurnedDown,
  answer <- status,
  Batches <- {AsStock(b) : b \in UNION {BatchesOf(f) : f \in StockFeeds}}

(* Orders keep the promise of RestockedLedger while imports set the stock     *)
(* under them: carts are taken whole from what the stock is at that instant,  *)
(* never from what it was at the check of order_repo.go:115 if an import has  *)
(* set it since; refusals had their reason; and batches are applied whole.    *)
KeepsPromise == Restocked!RestockedSpec

(* The order in which an import's current batch locks its rows.               *)
AscendingBatch(i) ==
  \A j, k \in 1..Len(feed[i]) :
     pos[i] < j /\ j < k /\ k <= pos[i] + BatchSize => feed[i][j].id <= feed[i][k].id

(* Imports and orders do wait for one another in circles, and only if a cart  *)
(* or a batch in the circle names its rows out of order: the feed as a whole  *)
(* need not be sorted, for a batch's locks go with its transaction.           *)
CyclesNeedDisorder ==
  \A S \in SUBSET (Requests \cup Imports) :
    MixedCycle(S) => \/ \E r \in S \cap Requests : ~Ascending(cart[r])
                     \/ \E i \in S \cap Imports : ~AscendingBatch(i)

-----------------------------------------------------------------------------
(* The invariant the proofs rest on: an importer with a feed is at the start  *)
(* of one of its batches, and goes no further than the batch it writes.       *)
ImportersInStep ==
  \A i \in Imports :
    IF ipc[i] \in {"upsert", "orphan"}
    THEN /\ feed[i] \in StockFeeds
         /\ pos[i] \in BatchStarts(feed[i]) \cup {Len(feed[i])}
         /\ pos[i] + written[i] <= ChunkEnd(i)
         /\ ipc[i] = "orphan" => pos[i] < Len(feed[i])
    ELSE feed[i] = << >> /\ pos[i] = 0 /\ written[i] = 0

(* An importer holds exactly the rows of the batch that it has written.       *)
RowsOfBatches ==
  \A i \in Imports, p \in Products : owner[p] = i <=> p \in BatchRows(i)

StockInv == ImportTypeOK /\ ImportersInStep /\ RowsOfBatches /\ OrdersInv(Holders)

(* An import that has started to write ends, waiting for orders and other     *)
(* imports or beaten by them.                                                 *)
ImportsEnd == \A i \in Imports : ipc[i] = "upsert" ~> ipc[i] = "ended"
=============================================================================
