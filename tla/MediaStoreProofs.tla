-------------------------- MODULE MediaStoreProofs --------------------------
(* MediaStore keeps its promises for any servers, programs, uploads, clocks   *)
(* and browsers: MediaInv is inductive, and the answers are timely and the    *)
(* uploads kept because of it.                                                *)
EXTENDS MediaStore, TLAPS

(* What PutObject changes for the bucket, and for the requests under way.     *)
LEMMA PutEffect ==
  ASSUME MediaTypeOK, SinceIsKept,
         NEW n \in Names, NEW c \in Contents, Put(n, c)
  PROVE  /\ object' \in [Names -> Contents \cup {None}]
         /\ \A m \in Names : object'[m] = IF m = n THEN c ELSE object[m]
         /\ since' \in [Viewers -> SUBSET (Contents \cup {None})]
         /\ \A v \in Viewers : since[v] \subseteq since'[v]
         /\ \A v \in Viewers : rpc[v] \in {"stat", "body"} => object'[wanted[v]] \in since'[v]
<1>1. object \in [Names -> Contents \cup {None}] /\ wanted \in [Viewers -> Names]
      /\ since \in [Viewers -> SUBSET (Contents \cup {None})]
  BY DEF MediaTypeOK
<1>2. object' = [object EXCEPT ![n] = c]
  BY DEF Put
<1>3. \A m \in Names : object'[m] = IF m = n THEN c ELSE object[m]
  BY <1>1, <1>2
<1>4. since' = [v \in Viewers |->
                  IF rpc[v] \in {"stat", "body"} /\ wanted[v] = n THEN since[v] \cup {c}
                                                                  ELSE since[v]]
  BY DEF Put
<1>5. \A v \in Viewers : since[v] \subseteq since'[v]
  BY <1>4
<1>6. since' \in [Viewers -> SUBSET (Contents \cup {None})]
  BY <1>1, <1>4
<1>7. ASSUME NEW v \in Viewers, rpc[v] \in {"stat", "body"}
      PROVE  object'[wanted[v]] \in since'[v]
  <2>1. wanted[v] \in Names
    BY <1>1
  <2>2. CASE wanted[v] = n
    BY <1>3, <1>4, <1>7, <2>1, <2>2
  <2>3. CASE wanted[v] # n
    BY <1>3, <1>4, <1>7, <2>1, <2>3 DEF SinceIsKept
  <2> QED
    BY <2>2, <2>3
<1> QED
  BY <1>1, <1>2, <1>3, <1>5, <1>6, <1>7

(* What a program that starts or stops leaves alone is all MediaInv is about. *)
LEMMA BootKeepsInv ==
  ASSUME MediaInv,
         boot' \in [Programs -> {"check", "make", "run", "failed"}],
         failures' \in 0..MaxFailures, bucket' \in BOOLEAN,
         UNCHANGED <<object, uploadVars, viewVars, since>>
  PROVE  MediaInv'
BY DEF MediaInv, MediaTypeOK, UploadsOwnNames, CreatedIsThere, SinceIsKept, AnswersAreTimely,
       Drawers, uploadVars, viewVars

(* The steps of EnsureBucket, and servers that stop.                          *)
LEMMA StartStep ==
  ASSUME MediaInv, NEW p \in Programs, Boot(p) \/ BucketFails(p) \/ (p \in Servers /\ StopServer(p))
  PROVE  MediaInv'
<1>1. /\ boot \in [Programs -> {"check", "make", "run", "failed"}]
      /\ failures \in 0..MaxFailures /\ bucket \in BOOLEAN
  BY DEF MediaInv, MediaTypeOK
<1>2. AfterError(p) \in {"check", "make", "run", "failed"}
  BY DEF AfterError
<1>3. boot' \in [Programs -> {"check", "make", "run", "failed"}]
  BY <1>1, <1>2 DEF Boot, LookForBucket, MakeBucket, BucketTaken, BucketFails, StopServer
<1>4. failures' \in 0..MaxFailures
  BY <1>1, MediaAssumption DEF Boot, LookForBucket, MakeBucket, BucketTaken, BucketFails, StopServer
<1>5. bucket' \in BOOLEAN
  BY <1>1 DEF Boot, LookForBucket, MakeBucket, BucketTaken, BucketFails, StopServer
<1>6. UNCHANGED <<object, uploadVars, viewVars, since>>
  BY DEF Boot, LookForBucket, MakeBucket, BucketTaken, BucketFails, StopServer
<1> QED
  BY <1>3, <1>4, <1>5, <1>6, BootKeepsInv

(* Importers and migrators write under fixed names only.                      *)
LEMMA StorePictureStep ==
  ASSUME MediaInv, NEW p \in Programs, StorePicture(p)
  PROVE  MediaInv'
<1>1. PICK n \in Fixed, c \in Pictures : Put(n, c)
  BY DEF StorePicture
<1>2. n \in Names /\ n \notin Instants /\ c \in Contents /\ c # None
  BY MediaAssumption DEF Names, Contents
<1>3. UNCHANGED <<bucket, bootVars, uploadVars, viewVars>>
  BY DEF StorePicture
<1>4. /\ object' \in [Names -> Contents \cup {None}]
      /\ \A m \in Names : object'[m] = IF m = n THEN c ELSE object[m]
      /\ since' \in [Viewers -> SUBSET (Contents \cup {None})]
      /\ \A v \in Viewers : since[v] \subseteq since'[v]
      /\ \A v \in Viewers : rpc[v] \in {"stat", "body"} => object'[wanted[v]] \in since'[v]
  BY <1>1, <1>2, PutEffect DEF MediaInv
<1>5. MediaTypeOK'
  BY <1>3, <1>4 DEF MediaInv, MediaTypeOK, bootVars, uploadVars, viewVars
<1>6. \A t \in Instants : t \in Names /\ object'[t] = object[t]
  BY <1>2, <1>4 DEF Names
<1>7. UploadsOwnNames'
  BY <1>3, <1>6 DEF MediaInv, UploadsOwnNames, Drawers, uploadVars, viewVars
<1>8. CreatedIsThere'
  BY <1>3, <1>6 DEF MediaInv, MediaTypeOK, CreatedIsThere, uploadVars
<1>9. SinceIsKept' /\ AnswersAreTimely'
  BY <1>3, <1>4 DEF MediaInv, SinceIsKept, AnswersAreTimely, viewVars
<1> QED
  BY <1>3, <1>5, <1>7, <1>8, <1>9 DEF MediaInv, uploadVars

(* A name that is drawn is nobody's object yet, or an earlier drawer's.       *)
LEMMA DrawNameStep ==
  ASSUME MediaInv, NEW u \in Uploads, DrawName(u)
  PROVE  MediaInv'
<1>1. PICK t \in Instants : drawn' = [drawn EXCEPT ![u] = t]
  BY DEF DrawName
<1>2. /\ upc[u] = "new" /\ upc' = [upc EXCEPT ![u] = "put"]
      /\ UNCHANGED <<bucket, object, bootVars, viewVars, since>>
  BY DEF DrawName
<1>3. upc \in [Uploads -> {"new", "put", "created", "failed"}] /\ drawn \in [Uploads -> Instants \cup {None}]
  BY DEF MediaInv, MediaTypeOK
<1>4. MediaTypeOK'
  BY <1>1, <1>2, <1>3 DEF MediaInv, MediaTypeOK, bootVars, viewVars
<1>5. t # None
  BY MediaAssumption DEF Names
<1>6. \A w \in Uploads : w # u => drawn'[w] = drawn[w] /\ upc'[w] = upc[w]
  BY <1>1, <1>2, <1>3
<1>7. drawn'[u] = t /\ upc'[u] = "put"
  BY <1>1, <1>2, <1>3
<1>8. \A w \in Uploads : drawn'[w] = None <=> upc'[w] = "new"
  BY <1>5, <1>6, <1>7 DEF MediaInv
<1>9. \A s \in Instants : Drawers(s) \subseteq Drawers(s)'
  <2> SUFFICES ASSUME NEW s \in Instants, NEW w \in Uploads, drawn[w] = s
               PROVE  drawn'[w] = s
    BY DEF Drawers
  <2>1. s # None
    BY MediaAssumption DEF Names
  <2>2. drawn[u] = None
    BY <1>2 DEF MediaInv
  <2> QED
    BY <1>6, <2>1, <2>2
<1>10. UploadsOwnNames'
  BY <1>2, <1>9 DEF MediaInv, UploadsOwnNames, viewVars
<1>11. CreatedIsThere'
  BY <1>2, <1>6, <1>7 DEF MediaInv, CreatedIsThere
<1>12. SinceIsKept' /\ AnswersAreTimely'
  BY <1>2 DEF MediaInv, SinceIsKept, AnswersAreTimely, viewVars
<1> QED
  BY <1>4, <1>8, <1>10, <1>11, <1>12 DEF MediaInv

(* An upload writes under the name it drew, and is there when it is answered. *)
LEMMA UploadStep ==
  ASSUME MediaInv, NEW u \in Uploads, StoreUpload(u) \/ LoseUpload(u)
  PROVE  MediaInv'
<1>1. /\ upc \in [Uploads -> {"new", "put", "created", "failed"}]
      /\ drawn \in [Uploads -> Instants \cup {None}]
      /\ object \in [Names -> Contents \cup {None}]
  BY DEF MediaInv, MediaTypeOK
<1>2. /\ upc[u] = "put"
      /\ UNCHANGED <<bucket, bootVars, drawn, viewVars>>
      /\ Put(drawn[u], u) \/ UNCHANGED <<object, since>>
      /\ \E l \in {"created", "failed"} : upc' = [upc EXCEPT ![u] = l] /\ (l = "created" => Put(drawn[u], u))
  BY DEF StoreUpload, LoseUpload, ObjectName
<1>3. drawn[u] \in Instants /\ drawn[u] \in Names /\ u \in Contents /\ u # None
  BY <1>1, <1>2, MediaAssumption DEF MediaInv, Names, Contents
<1>4. upc' \in [Uploads -> {"new", "put", "created", "failed"}]
      /\ \A w \in Uploads : w # u => upc'[w] = upc[w]
  BY <1>1, <1>2
<1>5. upc'[u] \in {"created", "failed"}
  BY <1>1, <1>2
<1>6. \A w \in Uploads : drawn'[w] = None <=> upc'[w] = "new"
  BY <1>2, <1>4, <1>5 DEF MediaInv
<1>7. \A t \in Instants : Drawers(t)' = Drawers(t)
  BY <1>2 DEF Drawers
<1>8. CASE Put(drawn[u], u)
  <2>1. /\ object' \in [Names -> Contents \cup {None}]
        /\ \A m \in Names : object'[m] = IF m = drawn[u] THEN u ELSE object[m]
        /\ since' \in [Viewers -> SUBSET (Contents \cup {None})]
        /\ \A v \in Viewers : since[v] \subseteq since'[v]
        /\ \A v \in Viewers : rpc[v] \in {"stat", "body"} => object'[wanted[v]] \in since'[v]
    BY <1>3, <1>8, PutEffect DEF MediaInv
  <2>2. MediaTypeOK'
    BY <1>2, <1>4, <2>1 DEF MediaInv, MediaTypeOK, bootVars, viewVars
  <2>3. u \in Drawers(drawn[u])
    BY DEF Drawers
  <2>4. \A t \in Instants : t \in Names
    BY DEF Names
  <2>5. UploadsOwnNames'
    BY <1>2, <1>7, <2>1, <2>3, <2>4 DEF MediaInv, UploadsOwnNames, viewVars
  <2>6. \A w \in Uploads : upc'[w] # "new" => drawn[w] \in Names
    BY <1>1, <1>2, <1>6, <2>4
  <2>7. CreatedIsThere'
    BY <1>2, <1>3, <1>4, <2>1, <2>6 DEF MediaInv, CreatedIsThere
  <2>8. SinceIsKept' /\ AnswersAreTimely'
    BY <1>2, <2>1 DEF MediaInv, SinceIsKept, AnswersAreTimely, viewVars
  <2> QED
    BY <1>6, <2>2, <2>5, <2>7, <2>8 DEF MediaInv
<1>9. CASE ~Put(drawn[u], u)
  <2>1. UNCHANGED <<object, since>> /\ upc'[u] = "failed"
    BY <1>1, <1>2, <1>9
  <2>2. MediaTypeOK'
    BY <1>2, <1>4, <2>1 DEF MediaInv, MediaTypeOK, bootVars, viewVars
  <2>3. UploadsOwnNames'
    BY <1>2, <1>7, <2>1 DEF MediaInv, UploadsOwnNames, viewVars
  <2>4. CreatedIsThere'
    BY <1>2, <1>4, <2>1 DEF MediaInv, CreatedIsThere
  <2>5. SinceIsKept' /\ AnswersAreTimely'
    BY <1>2, <2>1 DEF MediaInv, SinceIsKept, AnswersAreTimely, viewVars
  <2> QED
    BY <1>6, <2>2, <2>3, <2>4, <2>5 DEF MediaInv
<1> QED
  BY <1>8, <1>9

(* What a request changes, unless it brings a body, touches one viewer only.  *)
LEMMA ViewStep ==
  ASSUME MediaInv, NEW v \in Viewers,
         Request(v) \/ StatObject(v) \/ NotFound(v) \/ BreakBody(v) \/ ReadBody(v)
  PROVE  MediaInv'
<1>1. /\ object \in [Names -> Contents \cup {None}]
      /\ rpc \in [Viewers -> {"idle", "stat", "body", "shown"}]
      /\ wanted \in [Viewers -> Names]
      /\ tag \in [Viewers -> Contents \cup {None}]
      /\ since \in [Viewers -> SUBSET (Contents \cup {None})]
      /\ copy \in [Viewers -> [tag : Contents \cup {None}, body : Contents \cup {None}]]
  BY DEF MediaInv, MediaTypeOK
<1>2. UNCHANGED <<bucket, object, bootVars, uploadVars, wanted>>
  BY DEF Request, StatObject, HeadersOf, NotFound, BreakBody, ReadBody
<1>3. object[wanted[v]] \in Contents \cup {None}
  BY <1>1
<1>4. CASE Request(v)
  <2>1. /\ rpc' = [rpc EXCEPT ![v] = "stat"]
        /\ since' = [since EXCEPT ![v] = {object[wanted[v]]}]
        /\ tag' = tag /\ copy' = copy
    BY <1>4 DEF Request
  <2>2. MediaTypeOK'
    BY <1>1, <1>2, <1>3, <2>1 DEF MediaInv, MediaTypeOK, bootVars, uploadVars
  <2>3. UploadsOwnNames' /\ CreatedIsThere' /\ SinceIsKept' /\ AnswersAreTimely'
    BY <1>1, <1>2, <2>1 DEF MediaInv, UploadsOwnNames, CreatedIsThere, SinceIsKept,
                           AnswersAreTimely, Drawers, uploadVars
  <2> QED
    BY <1>2, <2>2, <2>3 DEF MediaInv, uploadVars
<1>5. ASSUME NEW how \in {"idle", "shown"}, Ends(v, how), UNCHANGED copy,
             how = "shown" => copy[v].body \in since[v]
      PROVE  MediaInv'
  <2>1. /\ rpc' = [rpc EXCEPT ![v] = how]
        /\ tag' = [tag EXCEPT ![v] = None]
        /\ since' = [since EXCEPT ![v] = IF how = "shown" THEN since[v] ELSE {}]
    BY <1>5 DEF Ends
  <2>2. MediaTypeOK'
    BY <1>1, <1>2, <1>5, <2>1 DEF MediaInv, MediaTypeOK, bootVars, uploadVars
  <2>3. UploadsOwnNames' /\ CreatedIsThere'
    BY <1>1, <1>2, <1>5, <2>1 DEF MediaInv, UploadsOwnNames, CreatedIsThere, Drawers, uploadVars
  <2>4. SinceIsKept' /\ AnswersAreTimely'
    BY <1>1, <1>2, <1>5, <2>1 DEF MediaInv, SinceIsKept, AnswersAreTimely
  <2> QED
    BY <1>2, <2>2, <2>3, <2>4 DEF MediaInv, uploadVars
<1>6. CASE NotFound(v) \/ BreakBody(v)
  BY <1>5, <1>6 DEF NotFound, BreakBody
<1>7. CASE StatObject(v)
  <2>1. rpc[v] = "stat" /\ object[wanted[v]] # None /\ HeadersOf(v) /\ UNCHANGED copy
    BY <1>7 DEF StatObject, HeadersOf
  <2>2. CASE Ends(v, "shown") /\ NotModified(v)
    <3>1. copy[v].body = object[wanted[v]]
      BY <2>2 DEF NotModified, MediaInv, AnswersAreTimely
    <3>2. copy[v].body \in since[v]
      BY <2>1, <3>1 DEF MediaInv, SinceIsKept
    <3> QED
      BY <1>5, <2>1, <2>2, <3>2
  <2>3. CASE Ends(v, "idle")
    BY <1>5, <2>1, <2>3
  <2>4. CASE /\ rpc' = [rpc EXCEPT ![v] = "body"]
             /\ tag' = [tag EXCEPT ![v] = object[wanted[v]]]
             /\ UNCHANGED since
    <3>1. MediaTypeOK'
      BY <1>1, <1>2, <1>3, <2>1, <2>4 DEF MediaInv, MediaTypeOK, bootVars, uploadVars
    <3>2. UploadsOwnNames' /\ CreatedIsThere'
      BY <1>1, <1>2, <2>1, <2>4 DEF MediaInv, UploadsOwnNames, CreatedIsThere, Drawers, uploadVars
    <3>3. SinceIsKept' /\ AnswersAreTimely'
      BY <1>1, <1>2, <2>1, <2>4 DEF MediaInv, SinceIsKept, AnswersAreTimely
    <3> QED
      BY <1>2, <3>1, <3>2, <3>3 DEF MediaInv, uploadVars
  <2> QED
    BY <2>1, <2>2, <2>3, <2>4 DEF HeadersOf
<1>8. CASE ReadBody(v)
  <2>1. /\ rpc[v] = "body" /\ object[wanted[v]] = tag[v]
        /\ copy' = [copy EXCEPT ![v] = [tag |-> tag[v], body |-> object[wanted[v]]]]
        /\ rpc' = [rpc EXCEPT ![v] = "shown"]
        /\ tag' = [tag EXCEPT ![v] = None]
    BY <1>8 DEF ReadBody, Ends
  <2>2. since' = [since EXCEPT ![v] = since[v]]
    BY <1>8 DEF ReadBody, Ends
  <2>3. MediaTypeOK'
    BY <1>1, <1>2, <1>3, <2>1, <2>2 DEF MediaInv, MediaTypeOK, bootVars, uploadVars
  <2>4. UploadsOwnNames' /\ CreatedIsThere'
    BY <1>1, <1>2, <2>1 DEF MediaInv, UploadsOwnNames, CreatedIsThere, Drawers, uploadVars
  <2>5. SinceIsKept' /\ AnswersAreTimely'
    BY <1>1, <1>2, <2>1, <2>2 DEF MediaInv, SinceIsKept, AnswersAreTimely
  <2> QED
    BY <1>2, <2>3, <2>4, <2>5 DEF MediaInv, uploadVars
<1> QED
  BY <1>4, <1>6, <1>7, <1>8

(* MediaInv holds at the start and is kept by every step.                     *)
THEOREM MediaInvariance == MediaSpec => []MediaInv
<1>1. MediaInit => MediaInv
  <2> SUFFICES ASSUME MediaInit
               PROVE  MediaInv
    OBVIOUS
  <2>1. MediaTypeOK
    <3>1. bucket \in BOOLEAN /\ object \in [Names -> Contents \cup {None}] /\ wanted \in [Viewers -> Names]
      BY DEF MediaInit
    <3>2. failures \in 0..MaxFailures
      BY MediaAssumption DEF MediaInit
    <3>3. /\ boot \in [Programs -> {"check", "make", "run", "failed"}]
          /\ upc \in [Uploads -> {"new", "put", "created", "failed"}]
          /\ drawn \in [Uploads -> Instants \cup {None}]
      BY DEF MediaInit
    <3>4. /\ rpc \in [Viewers -> {"idle", "stat", "body", "shown"}]
          /\ \A v \in Viewers : rpc[v] = "body" => tag[v] # None
      BY DEF MediaInit
    <3>5. /\ tag \in [Viewers -> Contents \cup {None}]
          /\ since \in [Viewers -> SUBSET (Contents \cup {None})]
      BY DEF MediaInit
    <3>6. copy \in [Viewers -> [tag : Contents \cup {None}, body : Contents \cup {None}]]
      BY DEF MediaInit
    <3> QED
      BY <3>1, <3>2, <3>3, <3>4, <3>5, <3>6 DEF MediaTypeOK
  <2>2. UploadsOwnNames /\ CreatedIsThere /\ SinceIsKept /\ AnswersAreTimely
    BY DEF MediaInit, UploadsOwnNames, CreatedIsThere, SinceIsKept, AnswersAreTimely, Names
  <2> QED
    BY <2>1, <2>2 DEF MediaInv, MediaInit
<1>2. MediaInv /\ [MediaNext]_mediaVars => MediaInv'
  <2> SUFFICES ASSUME MediaInv, [MediaNext]_mediaVars
               PROVE  MediaInv'
    OBVIOUS
  <2>1. ASSUME NEW p \in Programs, Boot(p) \/ BucketFails(p)
        PROVE  MediaInv'
    BY <2>1, StartStep
  <2>2. ASSUME NEW p \in Programs, StorePicture(p)
        PROVE  MediaInv'
    BY <2>2, StorePictureStep
  <2>3. ASSUME NEW s \in Servers, StopServer(s)
        PROVE  MediaInv'
    BY <2>3, StartStep DEF Programs
  <2>4. ASSUME NEW u \in Uploads, DrawName(u) \/ StoreUpload(u) \/ LoseUpload(u)
        PROVE  MediaInv'
    BY <2>4, DrawNameStep, UploadStep
  <2>5. ASSUME NEW v \in Viewers, View(v)
        PROVE  MediaInv'
    BY <2>5, ViewStep DEF View
  <2>6. CASE UNCHANGED mediaVars
    BY <2>6 DEF mediaVars, bootVars, uploadVars, viewVars, MediaInv, MediaTypeOK, UploadsOwnNames,
                CreatedIsThere, SinceIsKept, AnswersAreTimely, Drawers
  <2> QED
    BY <2>1, <2>2, <2>3, <2>4, <2>5, <2>6 DEF MediaNext
<1> QED
  BY <1>1, <1>2, PTL DEF MediaSpec

(* A body shown is the object the browser asked for, at an instant of the     *)
(* request, whatever is overwritten meanwhile.                                *)
THEOREM TimelyAnswers == MediaSpec => []AnswersAreTimely
<1>1. MediaInv => AnswersAreTimely
  BY DEF MediaInv
<1> QED
  BY <1>1, MediaInvariance, PTL

(* An upload that was answered stays under its name, and no browser shows     *)
(* anything else there, unless its instant was drawn twice.                   *)
THEOREM UploadsStay == MediaSpec => []UploadsKept
<1>1. MediaInv => UploadsKept
  <2> SUFFICES ASSUME MediaInv, NEW u \in Uploads, upc[u] = "created",
                      \A w \in Uploads \ {u} : drawn[w] # drawn[u]
               PROVE  /\ object[ObjectName(u)] = u
                      /\ \A v \in Viewers : wanted[v] = ObjectName(u) => copy[v].body \in {None, u}
    BY DEF UploadsKept
  <2>1. drawn[u] \in Instants
    BY DEF MediaInv, MediaTypeOK
  <2>2. Drawers(drawn[u]) = {u}
    BY DEF Drawers
  <2>3. object[drawn[u]] = u
    BY <2>1, <2>2 DEF MediaInv, UploadsOwnNames, CreatedIsThere
  <2>4. \A v \in Viewers : wanted[v] = drawn[u] => copy[v].body \in {None, u}
    BY <2>1, <2>2 DEF MediaInv, UploadsOwnNames
  <2> QED
    BY <2>3, <2>4 DEF ObjectName
<1> QED
  BY <1>1, MediaInvariance, PTL
=============================================================================
