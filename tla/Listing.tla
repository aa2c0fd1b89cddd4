------------------------------- MODULE Listing -------------------------------
(***************************************************************************)
(* A GET that dirListHandler answers: Stat once or twice, then OpenFile    *)
(* and Readdir for a folder, or the WebDAV handler's OpenFile for a file.  *)
(* No lock is held: other requests, here single writes and deletions of    *)
(* keys, come between any two calls of the cloud API.                      *)
(*                                                                         *)
(* An entry <<name, TRUE>> of a listing is a folder, <<name, FALSE>> a     *)
(* file.  With a delimiter the store lists entries too: what follows the   *)
(* next slash of a key is cut off (a common prefix).                       *)
(***************************************************************************)
EXTENDS Keys, FiniteSets

CONSTANTS
    Backend,       \* "s3", "gcs", "azure": the backends to look at
    Request,       \* the GETs: a path, and whether it ends in a slash
    Seed,          \* the buckets: sets of keys
    Touched,       \* the keys other requests write and delete
    MaxChanges,    \* bound: writes and deletions while the GET runs
    MaxFaults,     \* bound: failed calls of the cloud API
    PageSize       \* entries in one page of a listing

VARIABLES
    backend, objects,
    get,           \* the goroutine of the GET
    ever, always,  \* history: entries of the folder at some moment of the
                   \* GET, and at every moment
    changes, faults

vars == <<backend, objects, get, ever, always, changes, faults>>

ASSUME ListingAssumption ==
    /\ Backend \subseteq {"s3", "gcs", "azure"}
    /\ Request \subseteq [path : Path, slash : BOOLEAN]
    /\ \A K \in Seed : K \subseteq Key
    /\ Touched \subseteq Key
    /\ MaxChanges \in Nat /\ MaxFaults \in Nat /\ PageSize \in Nat \ {0}

Entry == (Name \cup {Empty}) \X BOOLEAN

Answer == {"none", "redirect", "listing", "content", "notFound",
           "notAllowed", "failed"}

GetType ==
    [pc : {"idle", "StatFile", "StatMarker", "StatList", "OpenMarker",
           "OpenList", "Download", "Readdir", "done"},
     req : [path : Path, slash : BOOLEAN],
     again : BOOLEAN,              \* the second Stat of ServeHTTP
     dav : BOOLEAN,                \* handed on to the WebDAV handler
     cursor : Entry \cup {<<-1, TRUE>>},
     infos : SUBSET (Name \X BOOLEAN),    \* what Readdir has collected
     answer : Answer]

\* The entries directly below d among the keys K.  That of the marker of d
\* itself has no name.
EntriesOf(K, d) ==
    {<<k[Len(d)], Len(k) > Len(d)>> : k \in {j \in K : Under(j, d)}}

Named(E) == {e \in E : e[1] # Empty}

\* The folder the GET is about, as the user sees it.
Folder == IF get.req.path = <<>> THEN RootKey ELSE AddSlash(KeyFor(get.req.path))

Init ==
    /\ backend \in Backend /\ objects \in Seed
    /\ get = [pc |-> "idle", req |-> [path |-> <<>>, slash |-> TRUE],
              again |-> FALSE, dav |-> FALSE, cursor |-> <<-1, TRUE>>,
              infos |-> {}, answer |-> "none"]
    /\ ever = {} /\ always = {} /\ changes = 0 /\ faults = 0

----------------------------------------------------------------------------
At(pc) == get.pc = pc

Goto(pc) == get' = [get EXCEPT !.pc = pc]

Reply(answer) == get' = [get EXCEPT !.pc = "done", !.answer = answer]

Works == UNCHANGED <<backend, objects, ever, always, changes, faults>>

Breaks ==
    /\ faults < MaxFaults /\ faults' = faults + 1
    /\ UNCHANGED <<backend, objects, ever, always, changes>>

Running == get.pc \notin {"idle", "done"}

\* Another request writes or deletes one object.
Change ==
    /\ Running /\ changes < MaxChanges /\ changes' = changes + 1
    /\ \E k \in Touched : objects' \in {objects \cup {k}, objects \ {k}}
    /\ LET now == Named(EntriesOf(objects', Folder)) IN
       ever' = ever \cup now /\ always' = always \cap now
    /\ UNCHANGED <<backend, get, faults>>

----------------------------------------------------------------------------
\* dirListHandler.ServeHTTP.

Begin(r) ==
    /\ At("idle")
    /\ get' = [get EXCEPT !.pc = "StatFile", !.req = r, !.again = r.slash]
    /\ LET now == Named(EntriesOf(objects, Folder')) IN
       ever' = now /\ always' = now
    /\ UNCHANGED <<backend, objects, changes, faults>>

\* Mutant: whatever exists is listed.
StattedAny(kind) ==
    IF ~get.again
    THEN IF kind = "dir" THEN Reply("redirect")
         ELSE get' = [get EXCEPT !.pc = "StatFile", !.again = TRUE]
    ELSE get' = [get EXCEPT !.pc = "OpenMarker", !.dav = kind = "none"]

\* What a Stat that found kind leads to.
Statted(kind) ==
    IF ~get.again
    THEN IF kind = "dir" THEN Reply("redirect")
         ELSE get' = [get EXCEPT !.pc = "StatFile", !.again = TRUE]
    ELSE get' = [get EXCEPT !.pc = "OpenMarker", !.dav = kind # "dir"]

\* What an OpenFile that found kind leads to: Readdir fails on a file.
Opened(kind) ==
    IF get.dav
    THEN Reply(CASE kind = "dir" -> "notAllowed"
                 [] kind = "file" -> "content"
                 [] kind = "none" -> "notFound")
    ELSE IF kind = "dir" THEN Goto("Readdir") ELSE Reply("failed")

----------------------------------------------------------------------------
\* Stat looks for the object, the marker, and anything below, in this order.

Found(K) == K \cap objects # {} /\ Works

Missed(K) == (K \cap objects = {} /\ Works) \/ Breaks

Below(d) == {k \in objects : Under(k, d)}

StatFile ==
    LET k == KeyFor(get.req.path) IN
    /\ At("StatFile")
    /\ \/ k = RootKey /\ Works /\ Statted("dir")
       \/ k # RootKey /\ Found({k}) /\ Statted("file")
       \/ k # RootKey /\ Missed({k}) /\ Goto("StatMarker")

StatMarker ==
    LET d == AddSlash(KeyFor(get.req.path)) IN
    /\ At("StatMarker")
    /\ \/ Found({d}) /\ Statted("dir")
       \/ Missed({d}) /\ Goto("StatList")

StatList ==
    LET K == Below(AddSlash(KeyFor(get.req.path))) IN
    /\ At("StatList")
    /\ \/ Found(K) /\ Statted("dir")
       \/ Missed(K) /\ Statted("none")

\* OpenFile looks for the folder first, and for the object last.

OpenMarker ==
    LET k == KeyFor(get.req.path) IN
    /\ At("OpenMarker")
    /\ \/ k = RootKey /\ Works /\ Opened("dir")
       \/ k # RootKey /\ Found({WithSlash(k)}) /\ Opened("dir")
       \/ k # RootKey /\ Missed({WithSlash(k)}) /\ Goto("OpenList")

OpenList ==
    LET K == Below(WithSlash(KeyFor(get.req.path))) IN
    /\ At("OpenList")
    /\ \/ Found(K) /\ Opened("dir")
       \/ Missed(K) /\ Goto("Download")

Download ==
    LET k == KeyFor(get.req.path) IN
    /\ At("Download")
    /\ \/ Found({k}) /\ Opened("file")
       \/ Missed({k}) /\ Opened("none")

----------------------------------------------------------------------------
\* Readdir.

\* A file sorts before the folder of its name: "x" before "x/".
Precedes(e, f) == e[1] < f[1] \/ (e[1] = f[1] /\ ~e[2] /\ f[2])

Seen(E) == {e[1] : e \in E}

\* Mutant: the folder's own marker is not skipped.
AddAll(infos, E) == infos \cup {e \in E : e[1] \notin Seen(infos)}

\* Mutant: nobody remembers the names of other pages.
AddTwice(infos, E) == infos \cup Named(E)

\* The entries of E that have a name not seen yet are added.
Add(infos, E) == infos \cup {e \in Named(E) : e[1] \notin Seen(infos)}

\* A page of S3 and Azure holds the common prefixes and the objects apart.
FoldersFirst(infos, page) ==
    Add(Add(infos, {e \in page : e[2]}), {e \in page : ~e[2]})

\* The iterator of GCS hands out the objects of a page, then its prefixes.
FilesFirst(infos, page) ==
    Add(Add(infos, {e \in page : ~e[2]}), {e \in page : e[2]})

Collect(infos, page) ==
    IF backend = "gcs" THEN FilesFirst(infos, page) ELSE FoldersFirst(infos, page)

\* Mutant: the first page is the only one.
NoMorePagesEver(page, rest) == TRUE

NoMorePages(page, rest) == page = rest

\* One page: the next PageSize entries after the cursor, or all there are.
ReadPage ==
    LET rest == {e \in EntriesOf(objects, WithSlash(KeyFor(get.req.path))) :
                     Precedes(get.cursor, e)} IN
    \/ /\ Works
       /\ \E page \in SUBSET rest :
             /\ Cardinality(page) <= PageSize
             /\ page = rest \/ Cardinality(page) = PageSize
             /\ \A e \in page, f \in rest \ page : Precedes(e, f)
             /\ LET l == [get EXCEPT !.infos = Collect(@, page)] IN
                IF NoMorePages(page, rest)
                THEN get' = [l EXCEPT !.pc = "done", !.answer = "listing"]
                ELSE \E e \in page :
                       /\ \A f \in page \ {e} : Precedes(f, e)
                       /\ get' = [l EXCEPT !.cursor = e]
    \/ Breaks /\ Reply("failed")

ReaddirS3 == At("Readdir") /\ backend = "s3" /\ ReadPage

ReaddirGCS == At("Readdir") /\ backend = "gcs" /\ ReadPage

ReaddirAzure == At("Readdir") /\ backend = "azure" /\ ReadPage

----------------------------------------------------------------------------
Step ==
    \/ StatFile \/ StatMarker \/ StatList
    \/ OpenMarker \/ OpenList \/ Download
    \/ ReaddirS3 \/ ReaddirGCS \/ ReaddirAzure

Done == At("done") /\ UNCHANGED vars

Next == (\E r \in Request : Begin(r)) \/ Step \/ Change \/ Done

Spec == Init /\ [][Next]_vars

----------------------------------------------------------------------------
\* The type invariant.
TypeOK ==
    /\ backend \in Backend /\ objects \subseteq Key
    /\ get \in GetType
    /\ ever \subseteq Entry /\ always \subseteq Entry
    /\ changes \in 0..MaxChanges /\ faults \in 0..MaxFaults

Steady == changes = 0 /\ faults = 0

\* A listing shows nothing that was not there at some moment of the request
\* (the pages of Readdir are of different moments; dirlist.go:83-97).
NoPhantom == get.answer = "listing" => get.infos \subseteq ever

\* A listing leaves out no name that was there from beginning to end, whatever
\* is written around it between two pages (Readdir; s3.go:403, gcs.go:326,
\* azure.go:369).
NothingOverlooked ==
    get.answer = "listing" => Seen(always) \subseteq Seen(get.infos)

\* No name is listed twice, although an object and a folder may share one.
NamesOnce == \A e, f \in get.infos : e[1] = f[1] => e = f

\* When nothing changes and nothing fails, the calls of Stat and OpenFile,
\* which look for file and folder in opposite orders, agree: a folder is
\* redirected to or listed, a file is sent, and the root is a folder, marker
\* or not (dirlist.go:72-102, s3.go:117-150, 308-350).  Said only of a path
\* that names one thing: where an object and a folder share a name, the code
\* answers 405, and neither lists the one nor sends the other.
SteadyAnswer ==
    LET file == get.req.path # <<>> /\ KeyFor(get.req.path) \in objects
        folder == get.req.path = <<>> \/ Below(Folder) # {}
    IN  At("done") /\ Steady /\ ~(file /\ folder) =>
          get.answer = IF file THEN "content"
                       ELSE IF ~folder THEN "notFound"
                       ELSE IF get.req.slash THEN "listing" ELSE "redirect"
=============================================================================
