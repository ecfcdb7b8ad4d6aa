--------------------------- MODULE RestockedLedger ---------------------------
(* What POST /api/orders promises while importers set the stock: as in        *)
(* OrderLedger an order takes its whole cart at one instant; but stock may    *)
(* come back, so a 400 only says that at some instant while the request was   *)
(* being served the stock could not meet the cart.                            *)
EXTENDS CartDemand

CONSTANTS Requests,   \* the POST /api/orders requests
          Garbled,    \* those whose body is not a CreateOrderRequest
          Batches     \* what an import may set at once: stock by product

VARIABLES cart,       \* the cart of each request
          stock,      \* the stock column of each product
          placed,     \* the requests whose order exists
          turnedDown, \* the requests that are being, or have been, refused
          answer      \* the status each request was given, 0 before

restockedVars == <<cart, stock, placed, turnedDown, answer>>

RestockedInit ==
  /\ cart \in [Requests -> Carts]
  /\ stock = InitStock
  /\ placed = {}
  /\ turnedDown = {}
  /\ answer = [r \in Requests |-> 0]

Undecided(r) == r \notin placed \cup turnedDown

Place(r) ==
  /\ Undecided(r)
  /\ r \notin Garbled
  /\ answer[r] \in {0, 500}
  /\ Fulfillable(cart[r], stock)
  /\ placed' = placed \cup {r}
  /\ stock' = [p \in Products |-> stock[p] - TotalDemand(cart[r], p)]
  /\ UNCHANGED <<cart, turnedDown, answer>>

(* A garbled body is refused at once, a cart when the stock does not meet it. *)
TurnDown(r) ==
  /\ Undecided(r)
  /\ answer[r] = 0
  /\ r \in Garbled \/ ~Fulfillable(cart[r], stock)
  /\ turnedDown' = turnedDown \cup {r}
  /\ answer' \in {answer, [answer EXCEPT ![r] = 400]}
  /\ UNCHANGED <<cart, stock, placed>>

Answer(r) ==
  /\ answer[r] = 0
  /\ \E s \in {500} \cup (IF r \in placed THEN {201} ELSE {})
                    \cup (IF r \in turnedDown THEN {400} ELSE {}) :
       answer' = [answer EXCEPT ![r] = s]
  /\ UNCHANGED <<cart, stock, placed, turnedDown>>

(* A pod is killed: what it was about to refuse is never answered.            *)
Forget ==
  /\ \E S \in SUBSET {r \in turnedDown : answer[r] = 0} : turnedDown' = turnedDown \ S
  /\ UNCHANGED <<cart, stock, placed, answer>>

Restock ==
  /\ \E b \in Batches :
       stock' = [p \in Products |-> IF p \in DOMAIN b THEN b[p] ELSE stock[p]]
  /\ UNCHANGED <<cart, placed, turnedDown, answer>>

RestockedNext ==
  \/ Restock
  \/ Forget
  \/ \E r \in Requests : Place(r) \/ TurnDown(r) \/ Answer(r)

RestockedSpec == RestockedInit /\ [][RestockedNext]_restockedVars
=============================================================================
