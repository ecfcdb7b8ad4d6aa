----------------------------- MODULE MediaStore -----------------------------
(* The media-service (services/media-service) in front of its S3 bucket: how  *)
(* the bucket comes to be, POST /api/media/upload, and GET /media/... with    *)
(* the copies that browsers keep.  Beside it the programs of utils/ make the  *)
(* same bucket and overwrite pictures in it under names that do not change    *)
(* (PictureTable says which).                                                 *)
(*                                                                            *)
(* An object is its content, which its ETag stands for.  Bucket, folder and   *)
(* extension of a name are left out.  S3, minio-go and browsers are external. *)
EXTENDS FiniteSets, Naturals

CONSTANTS Servers,     \* media-service pods
          Migrators,   \* runs of utils/migrate_media.go
          Importers,   \* runs of utils/products.go and users.go with -upload-s3
          Uploads,     \* POST requests, each with a file of its own
          Instants,    \* what UnixNano may be: wall clocks of several pods
          Pictures,    \* what the other programs store,
          Fixed,       \* and under which names
          Viewers,     \* browsers, each with one address it shows
          None,
          MaxFailures  \* bound: S3 calls of starting programs that fail, and stops

Names == Instants \cup Fixed
Contents == Uploads \cup Pictures
Programs == Servers \cup Migrators \cup Importers

ASSUME MediaAssumption ==
  /\ Uploads \cap Pictures = {}
  /\ Instants \cap Fixed = {}
  /\ None \notin Names \cup Contents
  /\ MaxFailures \in Nat

VARIABLES
  bucket,    \* it exists
  object,    \* what is stored under each name
  boot,      \* where each program is
  failures,
  upc,       \* where each upload is
  drawn,     \* the instant it read from the clock
  rpc,       \* where each viewer's request is, "idle" when it showed nothing
  wanted,    \* the name it asks for
  tag,       \* the ETag its handler was told, before the body
  since,     \* what was under the name while the request ran
  copy       \* the viewer's copy: the ETag it came with, and the body

bootVars == <<boot, failures>>
uploadVars == <<upc, drawn>>
viewVars == <<rpc, wanted, tag, copy>>
mediaVars == <<bucket, object, bootVars, uploadVars, viewVars, since>>

MediaTypeOK ==
  /\ bucket \in BOOLEAN
  /\ object \in [Names -> Contents \cup {None}]
  /\ boot \in [Programs -> {"check", "make", "run", "failed"}]
  /\ failures \in 0..MaxFailures
  /\ upc \in [Uploads -> {"new", "put", "created", "failed"}]
  /\ drawn \in [Uploads -> Instants \cup {None}]
  /\ rpc \in [Viewers -> {"idle", "stat", "body", "shown"}]
  /\ wanted \in [Viewers -> Names]
  /\ tag \in [Viewers -> Contents \cup {None}]
  /\ since \in [Viewers -> SUBSET (Contents \cup {None})]
  /\ copy \in [Viewers -> [tag : Contents \cup {None}, body : Contents \cup {None}]]
  /\ \A v \in Viewers : rpc[v] = "body" => tag[v] # None

MediaInit ==
  /\ bucket = FALSE
  /\ object = [n \in Names |-> None]
  /\ boot = [p \in Programs |-> "check"]
  /\ failures = 0
  /\ upc = [u \in Uploads |-> "new"]
  /\ drawn = [u \in Uploads |-> None]
  /\ rpc = [v \in Viewers |-> "idle"]
  /\ wanted \in [Viewers -> Names]
  /\ tag = [v \in Viewers |-> None]
  /\ since = [v \in Viewers |-> {}]
  /\ copy = [v \in Viewers |-> [tag |-> None, body |-> None]]

-----------------------------------------------------------------------------
(* EnsureBucket, the same check and creation in four programs.                *)

(* A slip: the bucket made without a look.                                    *)
MakeUnseen(p) ==
  /\ boot[p] = "check"
  /\ boot' = [boot EXCEPT ![p] = "make"]
  /\ UNCHANGED <<bucket, object, failures, uploadVars, viewVars, since>>

LookForBucket(p) ==
  /\ boot[p] = "check"
  /\ boot' = [boot EXCEPT ![p] = IF bucket THEN "run" ELSE "make"]
  /\ UNCHANGED <<bucket, object, failures, uploadVars, viewVars, since>>

MakeBucket(p) ==
  /\ boot[p] = "make"
  /\ ~bucket
  /\ bucket' = TRUE
  /\ boot' = [boot EXCEPT ![p] = "run"]
  /\ UNCHANGED <<object, failures, uploadVars, viewVars, since>>

(* What a program does about an error: the service exits and is restarted, a  *)
(* migrator exits, an importer takes no notice.                               *)
AfterError(p) ==
  IF p \in Servers THEN "check" ELSE IF p \in Migrators THEN "failed" ELSE "run"

(* Another program has made it since: some S3 servers take that for an error. *)
BucketTaken(p) ==
  /\ boot[p] = "make"
  /\ bucket
  /\ boot' \in {[boot EXCEPT ![p] = s] : s \in {AfterError(p), "run"}}
  /\ UNCHANGED <<bucket, object, failures, uploadVars, viewVars, since>>

(* A call fails; MakeBucket may have had its effect.                          *)
BucketFails(p) ==
  /\ boot[p] \in {"check", "make"}
  /\ failures < MaxFailures
  /\ failures' = failures + 1
  /\ boot' = [boot EXCEPT ![p] = AfterError(p)]
  /\ bucket' \in {bucket, bucket \/ boot[p] = "make"}
  /\ UNCHANGED <<object, uploadVars, viewVars, since>>

(* A server is told to stop, or killed, and started again.                    *)
StopServer(s) ==
  /\ boot[s] = "run"
  /\ failures < MaxFailures
  /\ failures' = failures + 1
  /\ boot' = [boot EXCEPT ![s] = "check"]
  /\ UNCHANGED <<bucket, object, uploadVars, viewVars, since>>

Serving == \E s \in Servers : boot[s] = "run"

-----------------------------------------------------------------------------
(* PutObject, which requests that are under way may see.                      *)
Put(n, c) ==
  /\ bucket
  /\ object' = [object EXCEPT ![n] = c]
  /\ since' = [v \in Viewers |->
                 IF rpc[v] \in {"stat", "body"} /\ wanted[v] = n THEN since[v] \cup {c} ELSE since[v]]

(* An importer or a migrator stores a picture, in place of an earlier one.    *)
StorePicture(p) ==
  /\ p \notin Servers
  /\ boot[p] = "run"
  /\ \E n \in Fixed, c \in Pictures : Put(n, c)
  /\ UNCHANGED <<bucket, bootVars, uploadVars, viewVars>>

(* Upload: the name is taken from the clock, then the file is stored.         *)
FileName(u) == CHOOSE n \in Instants : TRUE   \* a slip: named as by the client
ObjectName(u) == drawn[u]

DrawName(u) ==
  /\ upc[u] = "new"
  /\ Serving
  /\ \E t \in Instants : drawn' = [drawn EXCEPT ![u] = t]
  /\ upc' = [upc EXCEPT ![u] = "put"]
  /\ UNCHANGED <<bucket, object, bootVars, viewVars, since>>

StoreUpload(u) ==
  /\ upc[u] = "put"
  /\ Put(ObjectName(u), u)
  /\ upc' = [upc EXCEPT ![u] = "created"]
  /\ UNCHANGED <<bucket, bootVars, drawn, viewVars>>

(* 500, or no answer: the object may be there, under a name nobody is told.   *)
LoseUpload(u) ==
  /\ upc[u] = "put"
  /\ upc' = [upc EXCEPT ![u] = "failed"]
  /\ Put(ObjectName(u), u) \/ UNCHANGED <<object, since>>
  /\ UNCHANGED <<bucket, bootVars, drawn, viewVars>>

-----------------------------------------------------------------------------
(* ServeMedia.                                                                *)

(* A browser asks (again: its copy expired, or the page is reloaded), with    *)
(* the ETag of its copy in If-None-Match.                                     *)
Request(v) ==
  /\ rpc[v] \notin {"stat", "body"}
  /\ Serving
  /\ rpc' = [rpc EXCEPT ![v] = "stat"]
  /\ since' = [since EXCEPT ![v] = {object[wanted[v]]}]
  /\ UNCHANGED <<bucket, object, bootVars, uploadVars, wanted, tag, copy>>

(* The request ends; only what came with something to show is kept track of.  *)
Ends(v, how) ==
  /\ rpc' = [rpc EXCEPT ![v] = how]
  /\ tag' = [tag EXCEPT ![v] = None]
  /\ since' = [since EXCEPT ![v] = IF how = "shown" THEN @ ELSE {}]

AnyValidator(v) == copy[v].tag # None   \* a slip: If-None-Match given, not compared
NotModified(v) == copy[v].tag # None /\ copy[v].tag = object[wanted[v]]

(* 304, and the copy is shown; or the headers, which end a HEAD.              *)
HeadersOf(v) ==
  /\ \/ NotModified(v) /\ Ends(v, "shown")
     \/ ~NotModified(v) /\ Ends(v, "idle")
     \/ /\ ~NotModified(v)
        /\ rpc' = [rpc EXCEPT ![v] = "body"]
        /\ tag' = [tag EXCEPT ![v] = object[wanted[v]]]
        /\ UNCHANGED since
  /\ UNCHANGED <<bucket, object, bootVars, uploadVars, wanted, copy>>

(* A slip: no Stat, and GetObject alone reports nothing missing.              *)
TrustGetObject(v) ==
  /\ rpc[v] = "stat"
  /\ HeadersOf(v)

StatObject(v) ==
  /\ rpc[v] = "stat"
  /\ object[wanted[v]] # None
  /\ HeadersOf(v)

(* 404, also for any error of S3.                                             *)
NotFound(v) ==
  /\ rpc[v] = "stat"
  /\ Ends(v, "idle")
  /\ UNCHANGED <<bucket, object, bootVars, uploadVars, wanted, copy>>

(* A slip: a body asked for by name, whatever the ETag said.                  *)
ReadAnyBody(v) ==
  /\ rpc[v] = "body"
  /\ object[wanted[v]] # None
  /\ copy' = [copy EXCEPT ![v] = [tag |-> tag[v], body |-> object[wanted[v]]]]
  /\ Ends(v, "shown")
  /\ UNCHANGED <<bucket, object, bootVars, uploadVars, wanted>>

(* The body, a second request to S3, with If-Match: <ETag>; the browser keeps *)
(* a copy, for a year and immutable, as Cache-Control tells it.               *)
ReadBody(v) ==
  /\ rpc[v] = "body"
  /\ object[wanted[v]] = tag[v]
  /\ copy' = [copy EXCEPT ![v] = [tag |-> tag[v], body |-> object[wanted[v]]]]
  /\ Ends(v, "shown")
  /\ UNCHANGED <<bucket, object, bootVars, uploadVars, wanted>>

(* The ETag no longer matches, or the body breaks off: StreamCopy's error is  *)
(* discarded, and the body is shorter than its Content-Length.                *)
BreakBody(v) ==
  /\ rpc[v] = "body"
  /\ Ends(v, "idle")
  /\ UNCHANGED <<bucket, object, bootVars, uploadVars, wanted, copy>>

-----------------------------------------------------------------------------
Boot(p) == LookForBucket(p) \/ MakeBucket(p) \/ BucketTaken(p)
View(v) == Request(v) \/ StatObject(v) \/ NotFound(v) \/ ReadBody(v) \/ BreakBody(v)

MediaNext ==
  \/ \E p \in Programs : Boot(p) \/ BucketFails(p) \/ StorePicture(p)
  \/ \E s \in Servers : StopServer(s)
  \/ \E u \in Uploads : DrawName(u) \/ StoreUpload(u) \/ LoseUpload(u)
  \/ \E v \in Viewers : View(v)

(* A program that starts goes on, and the kubelet starts a pod that exited.   *)
MediaSpec == MediaInit /\ [][MediaNext]_mediaVars /\ \A p \in Programs : WF_mediaVars(Boot(p))

-----------------------------------------------------------------------------
(* ServeMedia asks S3 twice (s3.go:101, 119) and a browser revalidates a copy *)
(* by the ETag it came with, while the object is overwritten (also with what  *)
(* it was before): a body that is shown, new or confirmed by a 304, is one    *)
(* that was under the name while the request ran, and goes by its own ETag.   *)
AnswersAreTimely ==
  \A v \in Viewers :
    /\ rpc[v] = "shown" => copy[v].body \in since[v]
    /\ copy[v].tag = copy[v].body

(* Copies are immutable to browsers (media.go:86), so an upload must never be *)
(* replaced: what a 201 named can be had under that name, and no browser      *)
(* shows anything else there, unless another upload has read the same instant *)
(* from its clock (media.go:118).                                             *)
UploadsKept ==
  \A u \in Uploads : upc[u] = "created" =>
    \/ /\ object[ObjectName(u)] = u
       /\ \A v \in Viewers : wanted[v] = ObjectName(u) => copy[v].body \in {None, u}
    \/ \E w \in Uploads \ {u} : drawn[w] = drawn[u]

(* However starting programs race for the bucket, a loser that exits finds it *)
(* when it is restarted: every server comes to serve, with the bucket there.  *)
ServersComeUp == \A s \in Servers : []<>(boot[s] = "run" /\ bucket)
-----------------------------------------------------------------------------
(* The invariant the proofs rest on.                                          *)

(* What may ever be under a name of the clock: uploads that drew it.          *)
Drawers(t) == {u \in Uploads : drawn[u] = t}

(* Objects, copies, and ETags on their way are of uploads that drew the name. *)
UploadsOwnNames ==
  /\ \A t \in Instants : object[t] \in Drawers(t) \cup {None}
  /\ \A v \in Viewers : wanted[v] \in Instants =>
       {copy[v].body, tag[v]} \subseteq Drawers(wanted[v]) \cup {None}

CreatedIsThere ==
  \A u \in Uploads : upc[u] = "created" => object[drawn[u]] # None

(* A request that runs knows what is under the name now, and has been since.  *)
SinceIsKept ==
  \A v \in Viewers : rpc[v] \in {"stat", "body"} => object[wanted[v]] \in since[v]

MediaInv ==
  /\ MediaTypeOK
  /\ UploadsOwnNames
  /\ CreatedIsThere
  /\ SinceIsKept
  /\ AnswersAreTimely
  /\ \A u \in Uploads : drawn[u] = None <=> upc[u] = "new"
=============================================================================
