------------------------------- MODULE CloudFS -------------------------------
(***************************************************************************)
(* What the three object-store backends have in common: the bucket, the    *)
(* requests in flight, the way a method of the WebDAV handler uses a       *)
(* webdav.FileSystem, and the operations S3, GCS and Azure write alike     *)
(* (Stat, checkMkdir and Mkdir, OpenFile for writing).  S3FS, GCSFS and    *)
(* AzureFS add RemoveAll and Rename, where they differ.                    *)
(*                                                                         *)
(* Every call of the cloud API is one atomic step.  It succeeds, fails     *)
(* without effect, or takes effect while its answer is lost; a failure     *)
(* that the state of the bucket does not explain is counted in faults.     *)
(***************************************************************************)
EXTENDS Keys, FiniteSets

CONSTANTS
    Client,        \* users with at most one request in flight each
    Server,        \* processes serving the same bucket
    Request,       \* the requests the users may send
    Seed,          \* the buckets the servers may start with
    MaxRequests,   \* bound: requests sent
    MaxFaults,     \* bound: failed calls of the cloud API
    MaxCrashes,    \* bound: server processes that die
    PageSize,      \* keys in one page of a listing
    BatchLimit,    \* keys one batch deletion accepts
    MaxKeyLen      \* longest key the store accepts, in parts

VARIABLES
    objects,       \* the bucket: the content of every key it holds
    call,          \* the goroutine serving each client's request
    sent, faults, crashes

vars == <<objects, call, sent, faults, crashes>>

\* The content of a directory marker, of type application/x-directory.
Marker == 0

IsStore(o) ==
    /\ o = [k \in DOMAIN o |-> o[k]]
    /\ DOMAIN o \subseteq Key \ {<<Empty>>} /\ IsFiniteSet(DOMAIN o)
    /\ \A k \in DOMAIN o : o[k] \in Nat

\* A PUT has a body; over stands for an Overwrite header of "T".
RequestType == [op : {"PUT", "DELETE", "MKCOL", "MOVE"},
                path : Path, dst : Path, over : BOOLEAN]

ASSUME RequestAssumption ==
    /\ Request \subseteq RequestType
    /\ \A r \in Request : r.op = "MOVE" => r.path # r.dst

ASSUME SeedAssumption == \A o \in Seed : IsStore(o)

ASSUME BoundAssumption ==
    /\ MaxRequests \in Nat /\ MaxFaults \in Nat /\ MaxCrashes \in Nat
    /\ PageSize \in Nat \ {0} /\ BatchLimit \in Nat \ {0} /\ MaxKeyLen \in Nat

Status == {0, 201, 204, 403, 404, 405, 409, 412, 423}

\* Where a goroutine stands: the call of the lock table or of the cloud API
\* it makes next.
PC == {"idle", "LockDst", "StatFile", "StatMarker", "StatList", "PutMarker",
       "OpenMarker", "OpenList", "Upload", "RmFile", "RmList", "RmBatch",
       "RmKey", "MvFile", "MvFileDelete", "MvList", "MvCopy", "MvBatch",
       "MvDelete"}

CallType ==
    [pc : PC, req : RequestType, server : Server \cup {0},
     at : Path,                 \* the path Stat or RemoveAll works on
     body : Nat,                \* what a PUT uploads
     cursor : Seq(Name \cup {Empty}), more : BOOLEAN,   \* the paginator
     todo : SUBSET (Key \ {<<Empty>>}),   \* listed, and not yet handled
     del : SUBSET (Key \ {<<Empty>>}),    \* toDelete
     errFile : BOOLEAN,         \* errFile # nil; in Azure, minus deletedAny
     created : BOOLEAN,         \* a MOVE found no destination
     reply : Status]            \* the answer to the last request

NoRequest == [op |-> "DELETE", path |-> <<>>, dst |-> <<>>, over |-> FALSE]

Quiet == [pc |-> "idle", req |-> NoRequest, server |-> 0, at |-> <<>>,
          body |-> 0, cursor |-> <<>>, more |-> FALSE, todo |-> {},
          del |-> {}, errFile |-> FALSE, created |-> FALSE, reply |-> 0]

Init ==
    /\ objects \in Seed
    /\ call = [c \in Client |-> Quiet]
    /\ sent = 0 /\ faults = 0 /\ crashes = 0

----------------------------------------------------------------------------
\* The goroutine of client c.

Active(c) == call[c].pc # "idle"

At(c, pc) == call[c].pc = pc

Become(c, l) == call' = [call EXCEPT ![c] = l]

Goto(c, pc) == Become(c, [call[c] EXCEPT !.pc = pc])

Answer(c, status) == Become(c, [Quiet EXCEPT !.reply = status])

\* A storage call makes one call of the cloud API.
Serving == UNCHANGED <<sent, crashes>>

----------------------------------------------------------------------------
\* The cloud API.

Works == faults' = faults

Breaks == faults < MaxFaults /\ faults' = faults + 1

Storable(k) == k # <<Empty>> /\ Len(k) <= MaxKeyLen

Write(k, v) ==
    objects' = [j \in DOMAIN objects \cup {k} |-> IF j = k THEN v ELSE objects[j]]

Erase(K) == objects' = [k \in DOMAIN objects \ K |-> objects[k]]

HeadOk(k) == k \in DOMAIN objects /\ Works /\ UNCHANGED objects

HeadErr(k) ==
    /\ UNCHANGED objects
    /\ \/ k \notin DOMAIN objects /\ Works
       \/ Breaks

Listed(d) == {k \in DOMAIN objects : Under(k, d)}

\* A listing of at most one key finds any.
AnyOk(d) == Listed(d) # {} /\ Works /\ UNCHANGED objects

AnyErr(d) ==
    /\ UNCHANGED objects
    /\ \/ Listed(d) = {} /\ Works
       \/ Breaks

PutOk(k, v) == Storable(k) /\ Write(k, v) /\ Works

PutErr(k, v) ==
    \/ ~Storable(k) /\ UNCHANGED objects /\ Works
    \/ Storable(k) /\ (Write(k, v) \/ UNCHANGED objects) /\ Breaks

CopyOk(j, k) == j \in DOMAIN objects /\ PutOk(k, objects[j])

CopyMissing(j) == j \notin DOMAIN objects /\ UNCHANGED objects /\ Works

CopyErr(j, k) == j \in DOMAIN objects /\ PutErr(k, objects[j])

\* Listings come in pages, in key order.  What a paginator at cursor has not
\* listed yet, and the page that ends with the key last: the first PageSize
\* of them, or all.
\* Mutant: the paginator starts over.
RestFromStart(d, cursor) == Listed(d)

Rest(d, cursor) == {k \in Listed(d) : Before(cursor, k)}

Page(d, cursor, last) ==
    {k \in Rest(d, cursor) : k = last \/ Before(k, last)}

IsPageEnd(d, cursor, last) ==
    LET rest == Rest(d, cursor)
        page == Page(d, cursor, last)
    IN
    /\ Cardinality(page) <= PageSize
    /\ page = rest \/ Cardinality(page) = PageSize
    /\ \A k \in rest \ page : Before(last, k)

\* The key a page hands out next.
First(K) == CHOOSE k \in K : \A j \in K \ {k} : Before(k, j)

\* Mutant: the keys of a page are kept without the prefix they share.
NextPageRelative(c, d) ==
    LET cursor == call[c].cursor
        rest == Rest(d, cursor)
    IN
    {[call[c] EXCEPT
         !.todo = {SubSeq(k, Len(d), Len(k)) : k \in Page(d, cursor, last)},
         !.cursor = last, !.more = Page(d, cursor, last) # rest] :
        last \in {k \in rest \cup {cursor} : IsPageEnd(d, cursor, k)}}

\* What the goroutine of c knows after the next page of the listing under d.
NextPage(c, d) ==
    LET cursor == call[c].cursor
        rest == Rest(d, cursor)
    IN
    {[call[c] EXCEPT !.todo = Page(d, cursor, last), !.cursor = last,
                     !.more = Page(d, cursor, last) # rest] :
        last \in {k \in rest \cup {cursor} : IsPageEnd(d, cursor, k)}}

----------------------------------------------------------------------------
\* The lock table of a process (webdav.NewMemLS): a method that changes a
\* path holds a temporary lock of depth zero on it while it runs.

\* Mutant: a MOVE locks its source alone.
HeldSourceOnly(c) == IF ~Active(c) THEN {} ELSE {call[c].req.path}

Held(c) ==
    IF ~Active(c) THEN {}
    ELSE IF call[c].req.op = "MOVE" /\ ~At(c, "LockDst")
         THEN {call[c].req.path, call[c].req.dst}
         ELSE {call[c].req.path}

Locked(s, p) == \E d \in Client : call[d].server = s /\ p \in Held(d)

\* The first storage call of a method, once its locks are held.
Entry(r) == IF r.op = "PUT" THEN "OpenMarker" ELSE "StatFile"

Target(r) == IF r.op = "MOVE" THEN r.dst ELSE r.path

\* Handler.ServeHTTP up to the lock on the request's path.
Begin(c, s, r) ==
    /\ ~Active(c) /\ sent < MaxRequests
    /\ sent' = sent + 1
    /\ UNCHANGED <<objects, faults, crashes>>
    /\ IF Locked(s, r.path) THEN Answer(c, 423)
       ELSE Become(c, [Quiet EXCEPT
                !.pc = IF r.op = "MOVE" THEN "LockDst" ELSE Entry(r),
                !.req = r, !.server = s, !.at = Target(r),
                !.body = IF r.op = "PUT" THEN sent + 1 ELSE 0])

\* confirmLocks locks the destination of a MOVE second.
LockDst(c) ==
    /\ At(c, "LockDst") /\ Serving /\ UNCHANGED <<objects, faults>>
    /\ IF Locked(call[c].server, call[c].req.dst) THEN Answer(c, 423)
       ELSE Goto(c, Entry(call[c].req))

----------------------------------------------------------------------------
\* What a method does with the answer of a storage call.

\* handleDelete: 404 when Stat fails, else RemoveAll.
DeleteStatted(c, kind) ==
    /\ call[c].req.op = "DELETE"
    /\ IF kind = "none" THEN Answer(c, 404) ELSE Goto(c, "RmFile")

\* moveFiles: RemoveAll of what is at the destination, then Rename.
\* Mutant: the Overwrite header is not looked at.
MoveStattedOverwrites(c, kind) ==
    /\ call[c].req.op = "MOVE"
    /\ IF kind = "none"
       THEN Become(c, [call[c] EXCEPT !.pc = "MvFile", !.created = TRUE])
       ELSE Goto(c, "RmFile")

MoveStatted(c, kind) ==
    /\ call[c].req.op = "MOVE"
    /\ IF kind = "none"
       THEN Become(c, [call[c] EXCEPT !.pc = "MvFile", !.created = TRUE])
       ELSE IF call[c].req.over THEN Goto(c, "RmFile") ELSE Answer(c, 412)

\* checkMkdir: the target must not exist, its parent must be a folder.
\* Mutant: the parent may be a file.
MkdirStattedAnyParent(c, kind) ==
    LET path == call[c].req.path IN
    /\ call[c].req.op = "MKCOL"
    /\ IF call[c].at = path
       THEN IF kind # "none" THEN Answer(c, 405)
            ELSE IF Len(path) = 1 THEN Goto(c, "PutMarker")
            ELSE Become(c, [call[c] EXCEPT !.pc = "StatFile",
                                           !.at = ParentDir(path)])
       ELSE IF kind # "none" THEN Goto(c, "PutMarker") ELSE Answer(c, 409)

MkdirStatted(c, kind) ==
    LET path == call[c].req.path IN
    /\ call[c].req.op = "MKCOL"
    /\ IF call[c].at = path
       THEN IF kind # "none" THEN Answer(c, 405)
            ELSE IF Len(path) = 1 THEN Goto(c, "PutMarker")
            ELSE Become(c, [call[c] EXCEPT !.pc = "StatFile",
                                           !.at = ParentDir(path)])
       ELSE IF kind = "dir" THEN Goto(c, "PutMarker") ELSE Answer(c, 409)

Statted(c, kind) ==
    DeleteStatted(c, kind) \/ MoveStatted(c, kind) \/ MkdirStatted(c, kind)

\* RemoveAll returned.
Removed(c, err) ==
    IF call[c].req.op = "MOVE"
    THEN IF err THEN Answer(c, 403)
         ELSE Become(c, [call[c] EXCEPT !.pc = "MvFile", !.errFile = FALSE,
                  !.cursor = <<>>, !.more = FALSE, !.todo = {}, !.del = {}])
    ELSE Answer(c, IF err THEN 405 ELSE 204)

\* Rename returned.
Renamed(c, err) ==
    Answer(c, IF err THEN 403 ELSE IF call[c].created THEN 201 ELSE 204)

----------------------------------------------------------------------------
\* Stat: the exact key, the marker, any object below.  An error counts as
\* absence.

StatFile(c) ==
    LET k == KeyFor(call[c].at) IN
    /\ At(c, "StatFile") /\ Serving
    /\ \/ k = RootKey /\ UNCHANGED <<objects, faults>> /\ Statted(c, "dir")
       \/ k # RootKey /\ HeadOk(k) /\ Statted(c, "file")
       \/ k # RootKey /\ HeadErr(k) /\ Goto(c, "StatMarker")

\* Mutant: a folder without a marker does not exist.
StatMarkerOnly(c) ==
    LET d == AddSlash(KeyFor(call[c].at)) IN
    /\ At(c, "StatMarker") /\ Serving
    /\ \/ HeadOk(d) /\ Statted(c, "dir")
       \/ HeadErr(d) /\ Statted(c, "none")

StatMarker(c) ==
    LET d == AddSlash(KeyFor(call[c].at)) IN
    /\ At(c, "StatMarker") /\ Serving
    /\ \/ HeadOk(d) /\ Statted(c, "dir")
       \/ HeadErr(d) /\ Goto(c, "StatList")

StatList(c) ==
    LET d == AddSlash(KeyFor(call[c].at)) IN
    /\ At(c, "StatList") /\ Serving
    /\ \/ AnyOk(d) /\ Statted(c, "dir")
       \/ AnyErr(d) /\ Statted(c, "none")

\* Mkdir after checkMkdir.
PutMarker(c) ==
    LET d == DirKeyFor(call[c].req.path) IN
    /\ At(c, "PutMarker") /\ Serving
    /\ \/ PutOk(d, Marker) /\ Answer(c, 201)
       \/ PutErr(d, Marker) /\ Answer(c, 405)

----------------------------------------------------------------------------
\* PUT: OpenFile with O_CREATE and O_TRUNC, the copy of the body, Close.  A
\* folder opens as a directory, and its Write fails.

OpenMarker(c) ==
    LET k == KeyFor(call[c].req.path) IN
    /\ At(c, "OpenMarker") /\ Serving
    /\ \/ k = RootKey /\ UNCHANGED <<objects, faults>> /\ Answer(c, 405)
       \/ k # RootKey /\ HeadOk(WithSlash(k)) /\ Answer(c, 405)
       \/ k # RootKey /\ HeadErr(WithSlash(k)) /\ Goto(c, "OpenList")

OpenList(c) ==
    LET d == WithSlash(KeyFor(call[c].req.path)) IN
    /\ At(c, "OpenList") /\ Serving
    /\ \/ AnyOk(d) /\ Answer(c, 405)
       \/ AnyErr(d) /\ Goto(c, "Upload")

\* The object appears when Close completes the upload.
Upload(c) ==
    LET k == KeyFor(call[c].req.path) IN
    /\ At(c, "Upload") /\ Serving
    /\ \/ PutOk(k, call[c].body) /\ Answer(c, 201)
       \/ PutErr(k, call[c].body) /\ Answer(c, 405)

----------------------------------------------------------------------------
\* Where Rename puts the objects below its source.

OldDir(r) == AddSlash(KeyFor(r.path))

NewDir(r) == AddSlash(KeyFor(r.dst))

NewKey(r, k) == Rebase(k, OldDir(r), NewDir(r))

----------------------------------------------------------------------------
\* A process dies: its requests and its lock table are gone.
Crash(s) ==
    /\ crashes < MaxCrashes /\ crashes' = crashes + 1
    /\ \E c \in Client : call[c].server = s
    /\ call' = [c \in Client |-> IF call[c].server = s THEN Quiet ELSE call[c]]
    /\ UNCHANGED <<objects, sent, faults>>

\* Every request is sent and answered: nothing is left to do.
AllServed ==
    /\ sent = MaxRequests /\ \A c \in Client : ~Active(c)
    /\ UNCHANGED vars

\* The steps of c's goroutine that every backend shares.
SharedStep(c) ==
    \/ LockDst(c)
    \/ StatFile(c) \/ StatMarker(c) \/ StatList(c) \/ PutMarker(c)
    \/ OpenMarker(c) \/ OpenList(c) \/ Upload(c)

----------------------------------------------------------------------------
\* The type invariant.
TypeOK ==
    /\ IsStore(objects)
    /\ call \in [Client -> CallType]
    /\ sent \in 0..MaxRequests
    /\ faults \in 0..MaxFaults
    /\ crashes \in 0..MaxCrashes

----------------------------------------------------------------------------
\* Workloads.

PathsOf(r) == IF r.op = "MOVE" THEN {r.path, r.dst} ELSE {r.path}

\* No request works inside a folder a MOVE names, or on a parent of it.
MovesApart ==
    \A q, r \in Request : \A p \in PathsOf(q), t \in PathsOf(r) :
        q.op = "MOVE" => p = t \/ Apart(p, t)

\* No request works inside a folder another one names.
PathsApart ==
    \A q, r \in Request : \A p \in PathsOf(q), t \in PathsOf(r) :
        p = t \/ Apart(p, t)

----------------------------------------------------------------------------
\* Properties.

\* Two requests a process serves at the same time never work on the same
\* path, the destination of a MOVE included (webdav.NewMemLS, server.go:50).
LockExclusion ==
    \A c, d \in Client :
        /\ c # d /\ call[c].server = call[d].server
        /\ Active(c) /\ ~At(c, "LockDst") /\ Active(d) /\ ~At(d, "LockDst")
        => PathsOf(call[c].req) \cap PathsOf(call[d].req) = {}

\* c's request was asked to replace or remove what is at key k.
Asked(c, k) ==
    LET r == call[c].req IN
    /\ Active(c)
    /\ \/ r.op = "DELETE" /\ Covers(r.path, k)
       \/ r.op = "PUT" /\ k = KeyFor(r.path)
       \/ r.op = "MOVE" /\ Covers(r.dst, k)

\* c's request moves the object at key k to j.
Moves(c, k, j) ==
    LET r == call[c].req IN
    /\ Active(c) /\ r.op = "MOVE"
    /\ \/ k = KeyFor(r.path) /\ j = KeyFor(r.dst)
       \/ Under(k, OldDir(r)) /\ j = NewKey(r, k)

\* Whatever a key holds stays there, unless a request in flight was asked to
\* remove it, or moves it and has it at the new key already.
KeptOrAsked ==
    \A k \in DOMAIN objects :
        \/ k \in DOMAIN objects' /\ objects'[k] = objects[k]
        \/ \E c \in Client :
             \/ Asked(c, k)
             \/ \E j \in DOMAIN objects' :
                   Moves(c, k, j) /\ objects'[j] = objects[k]

\* No upload, folder or file is ever lost by the way: whatever fails, and
\* whoever dies in the middle (Rename, s3.go:252; RemoveAll, s3.go:206).
ContentKept == [][KeptOrAsked]_vars

\* While a MOVE without "Overwrite: T" holds its locks, nothing that is at its
\* destination changes, unless another request was asked to change it
\* (moveFiles relies on Stat to find out, s3.go:308-350).
OverwriteKept ==
    \A c \in Client :
      /\ Active(c) /\ ~At(c, "LockDst")
      /\ call[c].req.op = "MOVE" /\ ~call[c].req.over
      => \A k \in DOMAIN objects : Covers(call[c].req.dst, k) =>
            \/ k \in DOMAIN objects' /\ objects'[k] = objects[k]
            \/ \E d \in Client \ {c} : Asked(d, k)

\* c's request is answered with one of these statuses by this step.
Answers(c, op, statuses) ==
    /\ Active(c) /\ call[c].req.op = op
    /\ call'[c].pc = "idle" /\ call'[c].reply \in statuses

\* A DELETE answered with success leaves neither the object of that name nor
\* anything below it (RemoveAll, s3.go:205).
DeleteEmptied ==
    \A c \in Client : Answers(c, "DELETE", {204}) =>
        \A k \in DOMAIN objects' : ~Covers(call[c].req.path, k)

\* A MOVE answered with success leaves nothing at its source (Rename,
\* s3.go:251: "copies src to dst then deletes src").
SourceEmptied ==
    \A c \in Client : Answers(c, "MOVE", {201, 204}) =>
        \A k \in DOMAIN objects' : ~Covers(call[c].req.path, k)

\* A DELETE answered with 404 had nothing to delete: the three calls of Stat
\* do not overlook what was there (s3.go:308-350).
WasAbsent ==
    \A c \in Client : Answers(c, "DELETE", {404}) =>
        \A k \in DOMAIN objects : ~Covers(call[c].req.path, k)

\* An MKCOL that succeeds creates the folder: nothing was at its path, and
\* its parent is a folder when the marker appears (checkMkdir,
\* filesystem.go:48-50).
MkdirAllowed ==
    \A c \in Client : Answers(c, "MKCOL", {201}) =>
        LET p == call[c].req.path IN
        /\ \A k \in DOMAIN objects : ~Covers(p, k)
        /\ Len(p) > 1 => Listed(AddSlash(KeyFor(ParentDir(p)))) # {}

\* DeleteEmptied, whatever call of the cloud API fails.
DeleteLeavesNothing == [][DeleteEmptied]_vars

\* MkdirAllowed, whatever call of the cloud API fails.
MkdirChecked == [][MkdirAllowed]_vars

\* As long as no call of the cloud API has failed, the answers of DELETE,
\* MOVE and MKCOL say what happened, whatever the interleaving and whoever
\* died: DeleteEmptied.
DeleteSound == [][faults' = 0 => DeleteEmptied]_vars

\* SourceEmptied, as long as no call has failed.
MoveSound == [][faults' = 0 => SourceEmptied]_vars

\* WasAbsent, as long as no call has failed.
NotFoundSound == [][faults' = 0 => WasAbsent]_vars

\* MkdirAllowed, as long as no call has failed.
MkdirSound == [][faults' = 0 => MkdirAllowed]_vars

\* OverwriteKept, as long as no call has failed.
OverwriteSound == [][faults' = 0 => OverwriteKept]_vars

\* Keys outside the configured prefix are never touched (s3.go:26, "optional
\* key prefix inside the bucket").
PrefixContained ==
    [][\A k \in DOMAIN objects \cup DOMAIN objects' :
        ~Under(k, RootKey) =>
            /\ k \in DOMAIN objects /\ k \in DOMAIN objects'
            /\ objects'[k] = objects[k]]_vars

\* Every request is answered, or dies with its process: listings end, and a
\* Rename that lists its own copies comes to an end.
EveryRequestEnds == \A c \in Client : Active(c) ~> ~Active(c)
=============================================================================
