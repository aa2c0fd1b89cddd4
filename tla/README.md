# TLA+ project for cloud-webdav-server

cloud-webdav-server puts a WebDAV interface in front of a local directory, S3,
Google Cloud Storage or Azure Blob Storage.  An object store has no folders, no
rename and no transactions: the storage backends build them out of single calls
of the cloud API, while other requests run in between, calls fail, and the
process may die.  That is what the modules here describe and check.

## Inventory

| part | state | operations | what makes it correct |
|---|---|---|---|
| storage backends `internal/storage/{s3,gcs,azure}.go` | none of their own; the bucket, shared with every other process | `Mkdir`, `OpenFile` (read, write) with `Write`/`Close`, `RemoveAll`, `Rename`, `Stat`, `Readdir` | nothing is lost that nobody asked to remove; an answer says what happened; keys stay inside the prefix; every operation ends |
| local backend `internal/storage/local.go` | the file system | `webdav.Dir` | left to the operating system |
| MKCOL checks, backend choice `internal/storage/filesystem.go` | none | `New`, `checkMkdir` | 405 on an existing target, 409 without a parent folder |
| WebDAV handler and lock table (`golang.org/x/net/webdav`, installed in `internal/server/server.go`) | locks, in memory | one handler per method | two requests on one path exclude each other |
| directory listing `internal/server/dirlist.go` | none | `ServeHTTP` | a listing shows what is there; no lock protects it |
| middlewares `internal/server/middleware.go`, `errors.go` | the request context | logging, headers, health, download, CORS, browser block, authentication and permissions | who answers, and what the ones behind see |
| permissions `internal/permissions/manager.go` | the folder rules, fixed at startup | `Check`, `Realm`, `RequiresAuth` | the rule of the longest matching folder decides |
| authentication `internal/auth` | the lazily made OIDC provider and verifier | `Chain`, Basic, LDAP, OIDC | first success wins; initialisation happens once |
| configuration `internal/config` | none after startup | `Load`, `ParseFolderPermissions` | rules mean what they say |
| startup and shutdown `cmd/server/main.go`, `server.go` | the HTTP server | `New`, `ensureFolders`, `Start` | folders exist before requests; shutdown waits ten seconds |

A request passes the middlewares, then `dirListHandler`, which answers a GET of
a folder itself and hands everything else to the WebDAV handler.  The handler
locks the paths of the request, calls the backend, and unlocks.  Everything
below the handler runs in the goroutine of its request, except the upload, which
a second goroutine reads from a pipe.

The hard behaviours are mostly in the backends: `RemoveAll`, `Rename`, `Stat`
and `checkMkdir` are sequences of calls that see different moments of the
bucket; a folder is not locked when something below it changes; errors are
dropped or taken for absence; listings come in pages; processes on other
machines share the bucket and not the locks.  Around them, uploads pass through
a pipe with a goroutine at each end, requests share an OIDC client that is made
without a lock, and replicas create the same folders when they start.
`PROJECT.json` lists the hazards line by line, each with the properties that
would catch it going wrong.

## Modules

| module | models |
|---|---|
| `Keys` | how paths become object keys: `keyFor`, `dirKeyFor`, the slashes added elsewhere, the key `Rename` gives an object, the order of a listing |
| `CloudFS` | the bucket and the calls of the cloud API; the requests in flight and their temporary locks; what PUT, DELETE, MKCOL and MOVE do with the backend's answers; `Stat`, `checkMkdir`, `Mkdir`, `OpenFile` for writing; a process that dies; the properties |
| `S3FS`, `GCSFS`, `AzureFS` | `RemoveAll` and `Rename` of each backend, and the next-state relation |
| `Workload`, `MCS3FS`, `MCGCSFS`, `MCAzureFS` | requests, buckets and prefix of the small instances TLC checks |
| `Listing`, `MCListing` | a GET in `dirListHandler`: `Stat`, `OpenFile` and the three `Readdir`s, among writes by others |
| `AtomicFile` | what uploads and downloads of one file promise, abstractly |
| `Transfer`, `MCTransfer` | `Write`, the pipe, the upload goroutine, `Close`, the `storage.Writer` of GCS, and downloads; implements `AtomicFile` |
| `Permissions` | `FOLDER_PERMISSIONS`, the manager's `New` and `Check`, and what the documentation promises of them |
| `Startup` | `main`, `ensureFolders` on replicas that share a bucket, exits, crashes and restarts |
| `Access` | a request in the middlewares: the chain of authenticators, OIDC's `init`, the permission check for the raw path, what the WebDAV handler does to the folders |
| `Service`, `MCService` | `Startup` and `Access` together under one configuration |
| `Keys_proofs`, `CloudFS_proofs` | lemmas about the keys and their order, about the shared steps, and about the steps GCS and Azure have in common |
| `S3FS_proofs`, `GCSFS_proofs`, `AzureFS_proofs` | the theorems about each backend: types, locks, prefix, what is kept, what the answers promise |
| `Listing_proofs`, `Transfer_proofs`, `Service_proofs` | the proofs about `Listing`, `Transfer` and `Service` |

`S3FS`, `GCSFS` and `AzureFS` extend `CloudFS`, which extends `Keys`; `Listing`
extends `Keys` and models the bucket as a set of keys.  `Service` extends
`Access`, which extends `Startup`, which extends `Permissions`.  In `Service` the
WebDAV handler is one step, `Dav`, that says which folders may come and go;
how it does that is in the modules above, which need not know who asked.

### The bucket: Keys, CloudFS, S3FS, GCSFS, AzureFS

`objects` is the bucket: a function from keys to contents.  A key is the
sequence of parts between the slashes, so the folder marker `t/d/` ends in an
empty part and differs from the object `t/d`, and the string `""` has one empty
part.  `call[c]` is the goroutine that serves client `c`: `pc` names the
call it makes next, `at` the path `Stat` or `RemoveAll` works on, `cursor` and
`more` the paginator, `todo` what is left of a page (or what an iterator has
fetched and not handed out), `del` is `toDelete`, `errFile` tells whether that
variable is set, `created` whether a MOVE answers 201 or 204.  Every call of the
cloud API is one step, named after the operation and the call: `StatFile`,
`StatMarker`, `StatList`, `PutMarker`, `OpenMarker`, `OpenList`, `Upload`,
`RmFile`, `RmList`, `RmBatch` (S3), `RmKey` (GCS, Azure), `MvFile`,
`MvFileDelete`, `MvList`, `MvCopy`, `MvBatch` (S3), `MvDelete` (GCS, Azure).
The Go code between two calls touches nothing shared and belongs to the step
before it.

A call succeeds, fails without effect, or takes effect while its answer is
lost.  A failure that the state of the bucket explains (a missing key, a key too
long, a batch too large) is free; any other is counted in `faults`.  A request
that is cancelled looks like a call that fails.  On Azure an error counts as a
missing blob when its text contains "404", and the text quotes the URL of the
blob, for a copy that of its destination: `Name404` are the names with that
text in them.

`Crash(s)` ends every request of process `s` and forgets its locks: a process
that is killed, or whose `Shutdown` ran out of its ten seconds.  A call it had
given up takes effect before the crash or never.

`Rename` of S3 hands the key of the source to the store in a header that the
store decodes (`s3.go:259`, `s3.go:288`), without encoding it.  `Decoded` is what
a name becomes, and `CopySource` the key whose object is copied.  A name that
cannot be decoded, or is decoded to one that nobody uses, becomes a number that
is no name: the copy fails as that of a missing object does.  A name that
decodes to one with a slash in it is such a name here.

The handler is external.  `Begin` and `LockDst` model its temporary locks: depth
zero, the source of a MOVE first, its destination second, 423 when either is
taken.  No client sends LOCK or an If header in these instances.

### A listing: Listing

`get` is the goroutine of one GET, `objects` a set of keys, for contents do not
matter here.  `again` and `dav` tell which of the calls of `ServeHTTP` is under
way and whether the request was handed on to the WebDAV handler.  `Change` is a
write or a deletion by anybody else.  A listing with a delimiter is the set of
entries below the prefix in the order of the store; `FoldersFirst` and
`FilesFirst` are the two orders in which the backends add the entries of a page.
`ever` and `always` are history variables: what the folder held at some moment
of the request, and at every moment.

### A file: AtomicFile, Transfer

`put[p]` holds both goroutines of an upload: `pc` is the one of the request,
`up` the one that uploads, `sent` and `eof` the pipe between them.  The body
of an upload is `Size` chunks, and `<<p, n>>` stands for its first `n`, so a
truncated object can be told from a whole one.  `Phase` maps an upload to
the states of `AtomicFile`: it replaces the content once, with as much as it was
sent, and may be created only if that was all.

### Who may, and when: Permissions, Startup, Access, Service

A path is the sequence of what stands between its slashes; `Bytes` gives the
length of the string of a rule's path, because that is what the manager sorts
by, and the assumption `FolderAssumption` says what is true of strings: a path is
shorter than one below it.  The path of a request is raw, as it is in the URL
(`middleware.go:163`): a part may be a name, nothing (`Void`; a trailing slash is
an empty last part) or two dots (`Up`).  The manager matches that path as it
stands; the storage works on what `Clean` makes of it (`s3.go:82`).  `config` is
what the environment says: the rules, the enabled authenticators, three
switches.  `proc[p]` is the main goroutine of a process, with the rule and the
depth `ensureFolders` has come to.  `folders` is the part of the bucket it looks
at.  `req[c]` is the goroutine of a request; `user` is the variable of
`authPermMiddleware`.  The two assignments at the end of OIDC's `init` are two
steps in either order: no lock or channel orders them for another goroutine.

A request that is let through may remove folders, those of rules included, and
make others: `Emptied` and `Filled` say which, method by method, and `Dav` takes
any part of them, for a call may fail in the middle.  `lost[p]` is a history
variable: the folders of rules that requests have removed since `p` began to
start.

### Abstractions

In the modules of the bucket, of listings and of files paths are clean, as the
`path.Clean` of every storage method leaves them; the raw ones are in `Service`.
A PUT has a body: an empty one
reaches the same calls but its `Write`, and a PUT to a folder is answered with
405 because `Write` fails.  Names are numbers and a listing sorts by part; the
order of the bytes of real keys differs where a name contains a byte below the
slash, which changes the order of a page and not what the pages hold together.
Contents are the number of the PUT that wrote them, so that two writes are never
confused.  In the modules of the bucket an upload appears at once when `Close`
finishes; `Transfer` shows what that takes.  Rules are written as the
documentation does, with a leading slash and without a trailing one.  A password
or a token is right or wrong.

## Properties

The bucket:

* `LockExclusion`: two requests of one process never work on the same path,
  crossing MOVEs included.
* `ContentKept`: whatever a key holds stays, unless a request in flight was
  asked to remove it, or moves it and has it at its new key already.  It holds
  at every step, so it covers every failure and every crash between two steps.
* `DeletesOnlyCopies`: why it holds for S3's `Rename`: all that waits in
  `toDelete` is at the destination with the same content, up to the deletion.
* `DeleteSound`, `MoveSound`, `NotFoundSound`, `MkdirSound`, `OverwriteSound`:
  as long as no call has failed, what an answer or a header promises about the
  bucket holds at the moment of the answer, whatever the interleaving and
  whoever died.  `DeleteLeavesNothing` and `MkdirChecked` are the same promises
  without that condition, and only runs that expect a violation check them.
* `PrefixContained`: keys outside the prefix never change.
* `EveryRequestEnds`: every request is answered or dies with its process.

A listing:

* `NoPhantom` and `NothingOverlooked`: a listing shows only what was there at
  some moment, and every name that was there all the time, although its pages
  are of different moments.
* `NamesOnce`: an object and a folder of one name are shown once.
* `SteadyAnswer`: when nothing changes and nothing fails, `Stat` and `OpenFile`,
  which look in opposite orders, agree on the answer: a listing of a folder, the
  content of a file, 404 for nothing.  A path that is a file and a folder at once
  is excluded.

A file:

* `ImplementsFile`: `Transfer` implements `AtomicFile`, in which an upload replaces
  the content at most once, and never after its answer.
* `TimeOfContent`: the time, and so the ETag, of a download belongs to its
  content; on GCS, where it comes from a second call, it may be newer or missing.
* `EveryPutEnds`: nobody waits for ever at either end of the pipe.

The service:

* `Authorized`: what reaches the WebDAV handler is permitted by the documented
  policy to nobody in particular or to a user the request's credentials vouch
  for.  The policy (`Wins`, `Grants`) is stated without sorting and without the
  order of the manager's checks.  It is stated for each path the storage works
  on, the clean one of the URL and the Destination of a COPY or MOVE, on the
  condition that the same rules hold for it as for the raw path of the URL
  (`Alike`).  The manager looks at no other path, and nothing under `src/`
  establishes the condition.
* `NoFalseChallenge`: nobody with good credentials is asked for a password
  unless a call to OIDC or LDAP has failed; a user of `BASIC_USERS`, whom the
  chain comes to last, is not even then.
* `HalfInit`: the window in which a token meets a nil verifier is the one
  between the two assignments of `init`, and never outlasts it.
* `FoldersReady`: a process that serves has all the folders of its rules, but
  those that a request has removed since it began to start.
* `EveryProcessStarts`: every process serves again and again, although replicas
  that create the same folders make each other exit.

## Runs

| run | question | bounds |
|---|---|---|
| `s3`, `gcs`, `azure` | is anything lost, and do the answers say what happened, when a call fails and a process dies? | 3 clients, 3 requests on whole paths, pages of one key, 1 failed call, 1 crash; a folder with markers and without, beside a file, inside a folder nobody names |
| `s3_ends` | does every request end, a folder moved below itself included? | 2 clients, 2 requests, pages of one key, 1 failed call, 1 crash, keys of up to 6 parts |
| `listing` | what does a GET answer while others write? | each backend; 7 requests, 2 buckets, pages of 2 entries, 2 changes, 1 failed call |
| `transfer` | are uploads and downloads atomic, and do they end? | each backend; 2 uploads of 2 chunks, 1 download, 2 failed calls, breaks and crashes anywhere |
| `service` | who gets in, and when? | 2 processes, 2 clients, 4 configurations, 2 buckets, 1 failed call, 1 crash; one of the requests may delete, make, move or copy a folder of a rule |
| `s3_nested` | an upload into a folder that is being moved | 2 requests, nothing fails: `ContentKept` is violated |
| `s3_encoded` | a MOVE of `a%20b` beside `a b` | 2 clients, nothing fails: `ContentKept` is violated |
| `s3_remove` | a batch deletion that leaves keys behind | 1 failed call: `DeleteLeavesNothing` is violated |
| `s3_mkcol` | one failed HEAD under an MKCOL | 1 failed call: `MkdirChecked` is violated |
| `listing_root` | the root of a bucket without a prefix | nothing fails: `NothingOverlooked` is violated, the listing is empty |

The bounds: two requests are what it takes to interleave a check with a change,
the third meets what the first two leave behind, and a folder of three keys on
pages of one key has a first, a middle and a last page.  One failed call, at any
place, separates every error path from the normal one.  `BatchLimit` is reached
in `s3_ends`, where a folder that is moved into itself grows: beyond it `Rename`
and `RemoveAll` answer with an error.  In `s3`, `gcs` and `azure` no folder is that
large.  `MaxKeyLen` ends the MOVE into its own subfolder, and is never reached
elsewhere.  Clients are interchangeable, and `SYMMETRY` is used only where the
properties are invariants and action properties.  In `listing` two changes are
enough to turn a file into a folder, or to add to a page that was read and to
delete from one that was not.  In `transfer` two uploads overlap in every way,
and two chunks make a body that can break in the middle.  In `service` the
configurations nest rules in both orders of strictness, name one folder twice,
have a long name above a short one in bytes, enable two authenticators in two
combinations and none, and hold one rule set that does not load; one client
sends any request, those that change the folder of a rule included, while the
other brings OIDC up; `Frontend` lets requests reach
one process only, for the requests of two processes share nothing but what
`folders` has.

`AllServed` lets a run of the bucket stop when all its requests are answered, so
that TLC's deadlock check finds a goroutine that cannot go on; `Done` does
the same in `listing`.  `transfer` and `service` stop when all requests are
answered, and there `EveryPutEnds` and `EveryProcessStarts` say that nobody
stops before.

### What the passing runs leave out on purpose

The requests of `s3`, `gcs` and `azure` have paths that are equal or apart, but
for a new folder below a file: with an upload below a folder that is moved
`ContentKept` does not hold, and `s3_nested` shows how.  The promises of the
answers hold up to the first failed call: with one, `Stat` takes an error for
absence (`s3_mkcol`; a MOVE that must not overwrite then overwrites in the same
way), the error of the deletion after a single copy is dropped, a batch may
be deleted in part (`s3_remove`), and Azure forgets the first error of a
`RemoveAll` whose next deletion succeeds (`azure.go:217`): a blob that could not
be deleted beside a folder that could is left behind by a DELETE answered with
204.  It takes two failed calls to get there, one of them under the upload that
puts the blob beside the folder.  One failure counts as none, because the state
of the bucket explains it: a name that is too long, which no destination of the
passing runs has.  On Azure the copy of a file to such a name, if "404" is in
it, is taken for that of a folder (`azure.go:460`), finds nothing to move, and
the MOVE is answered with 201.  `OverwriteSound` speaks of a MOVE from the
moment it has its locks: what changes before is no news to it.  `NotFoundSound`,
`MkdirSound` and the locks are the same code for all backends and are checked
with S3.  The parent folder of an MKCOL in these runs always keeps an object.
In `s3` one name cannot be decoded by the store, so that its `Rename` stops half
way; no name decodes to another one, for then a MOVE loses a file
(`s3_encoded`).

In `listing` the prefix is not empty; `listing_root` shows why.  `SteadyAnswer`
says nothing of a path that is a file and a folder at once: `Stat` finds the file
first and `OpenFile` the folder, so a GET gets 405, where `dirlist.go:22` and
`server.go:58` promise a listing instead of 405.

In `service` the bucket never holds a file in the place of a folder, and the
condition of `Authorized` is not established by the code: nothing between the URL
and the manager cleans the path, and the manager is never asked about a
Destination.  Where a rule ends between the raw path and the clean one, or
between the path and its Destination, the property claims nothing.

### Fairness

`EveryRequestEnds` assumes weak fairness of each goroutine's next step: the Go
scheduler runs every goroutine, and every call of the SDKs returns, with an
answer or an error, because they give up after their timeouts and retries.
`EveryPutEnds` assumes the same of both goroutines of an upload, and of the
client that it goes on sending or its connection breaks: `ReadTimeout` is thirty
minutes (`server.go:87`).  `EveryProcessStarts` assumes that a process takes its
next step and that its supervisor starts it again when it has exited
(`restart: unless-stopped`, or the Deployment); failed calls and crashes are
finitely many.  No fairness is assumed of clients, of crashes or of failures.

## Proofs

Of the S3 backend, for every set of clients, servers and requests, every
prefix and all bounds, from the assumptions named in `Keys` and `CloudFS`: names
are not empty, the prefix is made of names, the handler refuses a MOVE onto its
own source, the bucket starts with finitely many keys, none of them empty, and
contents, the bounds are numbers.

* `TypeCorrect`: `Spec => []TypeOK`.  Its core is in `Keys_proofs`: the keys
  composed by `keyFor`, `dirKeyFor` and `Rename` are keys, with their lengths and
  parts (`KeyForKey`, `AddSlashKey`, `RebaseKey`).
* `Invariance`: `Spec => []IInv`, where `IInv` is `TypeOK`, `LockInv` and
  `CallInv` of every goroutine.
* `LocksExclude`: `Spec => []LockExclusion`.  `LockExclusion` alone is not
  inductive: it is silent about the source a MOVE holds while it waits for its
  destination.  `LockInv` says that the paths held by two requests of one
  process are disjoint, those included.  Every step of a goroutine past its
  locks `Goes`: it keeps its request and its process, or ends; so its locks can
  only shrink, and only `Begin` and `LockDst` have to be looked at.
* `StaysInPrefix`: `Spec => PrefixContained`.  `CallInv` knows that what a
  goroutine has listed lies below the folder it removes or moves (`ListInv`);
  a key composed from a path starts with the prefix, and `Rename` puts whatever
  it moves below its destination (`RebaseUnder`, `UnderTransitive`).

* `DeletesCopies` and `LosesNothing`: `Spec => []DeletesOnlyCopies` and
  `Spec => ContentKept`, for one process (`OneServer`; two have no locks in
  common, and lose an upload to a MOVE of its path), for requests that do not
  work inside a folder a MOVE names or on a parent of it (`MovesApart`;
  otherwise `s3_nested` refutes it), for names of which S3 decodes none to
  another one (`DecodesApart`; otherwise `s3_encoded` refutes it), and for buckets
  in which a key that ends in a slash is a folder marker (`SeedMarkers`).  The
  run `s3` satisfies all four; uploads and new folders may lie below a folder that is deleted.
  `ContentKept` is not inductive: whether `MvBatch` loses something depends on
  copies made many steps earlier.  A copy
  is then of the object it was meant to be of, or fails (`CopySourceSame`).
  `KeptInv` adds to `IInv` that what a goroutine is going to delete is copied
  (`CopyInv`), that markers are markers (`Markers`: a second MKCOL
  writes what is there already), and that requests are served by a process.  `CopyInv` outlives the steps of others
  because a step changes only keys its own request covers (`StepOwns`), the
  locks keep the paths of two requests distinct, distinct paths are then apart,
  and apart paths cover no common key (`NotOwn`, `ApartCovers`).  It outlives
  the goroutine's own copies because source and destination are apart
  (`MoveDisjoint`) and `Rename` maps no two keys to one (`RebaseInjective`).

Of the GCS and Azure backends, from the same assumptions (and that the names
with "404" in them are names), the same theorems but `DeletesCopies`.  The two
delete and move one object after the other and differ in which errors they drop.
`CloudFS_proofs` states what they have in common as a step, `EachNext`, that
leaves those errors open, and proves everything of it once; `NextSimulates` in
`GCSFS_proofs` and `AzureFS_proofs` shows that each step of the backend is one of
its steps.

* `Invariance`: `Spec => []EachInv`.  `EachInv` adds to `IInv` that a goroutine
  which is about to handle a listed object has one.  This is where the order of
  keys matters: the next object is `First(todo)`, and that `First` chooses a member
  rests on a least key in every finite set of keys (`FirstKey`: `Before` is a
  total order, and a finite set has a minimal element).
* `TypeCorrect`, `LocksExclude` and `StaysInPrefix` follow as for S3.
* `LosesNothing`, under `OneServer`, `MovesApart` and `SeedMarkers`.  `EachKept`
  says that an object which `Rename` deletes next has its copy (`EachCopyInv`); a
  single step lies between copy and deletion, so what others do in between is
  all there is to show.

What the answers promise, of all three backends, for one process (`OneServer`)
and requests of which none works inside a folder another one names
(`PathsApart`), from the same assumptions.  The instances `s3`, `gcs` and
`azure` satisfy these hypotheses and those below.

* `DeletesAll`, `OverwritesNothing`, and for S3 `FindsAll`: `Spec =>
  DeleteSound`, `Spec => OverwriteSound`, `Spec => NotFoundSound`.  A promise is
  made in one step and rests on what many steps before it have seen, so it needs
  an invariant about them.  `SeenInv` says of each goroutine, as long as no call
  has failed, that what its calls found out is still so: where `Stat` has seen
  no object or no marker there is none, and whatever is left below a folder that
  is removed is in hand or ahead of the cursor (`InHand`), so that the last page
  leaves nothing.  `NewInv` says that what a `Rename` has still to copy has
  nothing at its new key: `Stat` saw nothing at the destination, or `RemoveAll`
  has cleared it, and no two keys have one copy (`RebaseInjective`).  Both
  outlive the steps of others by the argument of `ContentKept`: the locks keep
  the paths of two requests distinct, distinct paths are apart, and a step
  changes only keys its own request covers (`OthersAsBefore`).
* `MovesAll`: `Spec => MoveSound`, when moreover no path of a request starts out
  as both an object and a folder (`SeedClashless`), on S3 no name decodes to
  another one (`DecodesApart`), and on Azure the name of
  every destination can be stored (`KeysFit`; otherwise the failed copy of a file
  may be taken for that of a folder).  `Rename` moves the object or what is
  below it, never both, so a path that is both loses only its object.  The proof
  shows that none ever becomes both (`Clashless`):
  an upload and an MKCOL look first, a `Rename` writes where `Stat` saw nothing
  or `RemoveAll` has cleared (`GoneInv`), and it lists below its source only
  when there is no object of that name (`MissedInv`, `ListsMissing`).
  `MovedInv` says that what is left at the source is in hand or still to be
  listed.
* `MakesFolders`, of S3: `Spec => MkdirSound`, when moreover the parent of a new
  folder stays one (`ParentsStay`: something in it is no request's business, or
  no request removes anything from it).  No lock protects the parent, so without
  this it may lose its last object between `checkMkdir` and the marker.
  `ParentInv` follows the two `Stat`s of `checkMkdir`, and `SeenInv` keeps
  the path vacant that the first one found vacant.

Of `Transfer`, for any number of uploads and downloads, bodies of any size, all
bounds and each backend, from `TransferAssumption` (the bounds are numbers, the
old content is nobody's upload):

* `Invariance`, `TypeCorrect`: `Spec => []IInv`, where `IInv` is `TypeOK`,
  `Consistent` of every upload (what each goroutine knows of the other end of
  the pipe) and `Held` of every download (what it has read is no newer than the
  object).
* `TimesAgree`: `TimeOfContent` follows.
* `Implements`: `Spec => ImplementsFile`.  Each step gives one upload a new record
  whose `Phase` moves as `AtomicFile` lets it (`Moves`), reads the file once, or
  leaves the abstract state alone.  `Consistent` is what makes it true: an
  upload whose copy has not failed has sent everything when it waits, and one
  that has not stored anything has an error.

Of `Listing`, for each backend, folders and pages of any size, and any number of
changes and failed calls, from `ListingAssumption` (types of the constants):

* `Invariance`, `TypeCorrect`: `Spec => []IInv`.  `NothingOverlooked` speaks of
  the last page only.  `IInv` says of every page before it that an entry which
  always was in the folder has its name collected or is still ahead of the
  cursor, and that the folder as it is now lies between the two histories.
* `ShowsNoPhantom` and `OverlooksNothing`, for a prefix that is set (without one
  the listing of the root is empty: `listing_root`), and `ListsNamesOnce` follow.
  `SameFolder` shows that `Readdir` asks for the folder the user sees,
  `CollectKeeps` that both orders of adding a page keep the names distinct and
  drop none.
* `AnswersAgree`: `Spec => []SteadyAnswer`.  The invariant, `Knows`, says of every call of
  `Stat` and `OpenFile` what those before it have found out; it is about the
  bucket as it is, so it needs the bucket to be `Steady`.

Of `Service`, for every set of rules, users, paths, processes, clients and
requests, from `FolderAssumption`, `UserAssumption` and `ServiceAssumption` (types
of the constants):

* `PolicyHolds`: `Spec => []Authorized`.  `FoundWins` shows that the first match
  in a list sorted by bytes is the rule that wins: of two folders that hold a
  path one is above the other (`NestedPaths`), and the one below is longer.
  `AllowsPermitted` takes the manager's checks to the policy.  `Sound` ties the
  user that is checked to the credentials of the request through the chain;
  without it nothing does.  `PermittedAlike` carries the policy from the raw path
  to any path that the same rules hold for.
* `ChallengesOnlyStrangers`: `Spec => []NoFalseChallenge`, by the invariant that
  none of the authenticators passed over would have vouched for the request
  (`Refused`): of all of them while no call has failed, of Basic always, when the empty name is
  no user of `BASIC_USERS` and none of the directory.  `LDAPAuth` refuses an
  empty name, and `BASIC_USERS` would take one: its user would be accepted, and
  the permission check would take that user for nobody and ask again.
* `InitWindow`: `Spec => []HalfInit`, with the invariant that a request which has
  yet to set the provider has set the verifier.
* `FoldersThere`: `Spec => []FoldersReady`, with the invariant that every rule
  behind the one at hand has its folder, or has lost it to a request since
  (`Behind`, `There`).  A step of startup removes no folder (`ThereStays`), and what
  a request removes is lost to every process (`DavBehind`).
* `TypeCorrect`: `Spec => []TypeOK`, `SortedRules` for the rules.

Model-checked only: liveness (`EveryRequestEnds`, `EveryPutEnds`,
`EveryProcessStarts`), for which the prover has no rule.  `DeleteLeavesNothing`
and `MkdirChecked` do not hold: the runs that violate them show why.

## Not modelled

* LOCK, UNLOCK, COPY, PROPFIND and PROPPATCH, but for what they do to folders in
  `Access`: the handler is external, and the storage calls these make are in
  `CloudFS` and `Listing` already; a COPY is reads and uploads.
* The log line: it changes nothing.  Reading the code is enough to see that the
  user in it is always empty: `authPermMiddleware` puts the name into the context
  of a copy of the request (`middleware.go:166`), and `loggingMiddleware` reads
  that of the original (`middleware.go:45`), though `docs/docker.md:235` has the
  authenticated user logged.
* Folders that somebody removes from the bucket behind the service's back.
* Copies of Azure that are pending when their source is deleted: whether they
  are is the store's choice, and the code does not look.
* `AuthCodeURL` and `Exchange` of OIDC: nothing under `src/` calls them.
* The parsing of environment variables but for the rules, the local backend,
  which is the operating system's, and formatting, templates, headers and
  deployment files.
