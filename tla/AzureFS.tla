------------------------------- MODULE AzureFS -------------------------------
(***************************************************************************)
(* The Azure backend: RemoveAll and Rename of AzureFileSystem, on top of   *)
(* what CloudFS shares between backends.  Blobs are deleted one by one, as *)
(* in GCS; RemoveAll keeps the error of its first deletion, until another  *)
(* one succeeds.  errFile is errFile # nil /\ ~deletedAny.  A copy is one  *)
(* step: StartCopyFromURL is taken to answer when the copy is made.        *)
(***************************************************************************)
EXTENDS CloudFS

CONSTANT Name404    \* the names that contain the text "404"

ASSUME Name404Assumption == Name404 \subseteq Name

\* Deleting a missing blob is an error.
DeleteOk(k) == k \in DOMAIN objects /\ Erase({k}) /\ Works

DeleteErr(k) ==
    \/ k \notin DOMAIN objects /\ UNCHANGED objects /\ Works
    \/ k \in DOMAIN objects /\ (Erase({k}) \/ UNCHANGED objects) /\ Breaks

\* isNotFound of an error that is none: the text of an error quotes the URL
\* of the blob the call was made for, which is the destination of a copy.
Reads404(k) == \E i \in DOMAIN k : k[i] \in Name404

----------------------------------------------------------------------------
\* RemoveAll.

RmFile(c) ==
    LET k == KeyFor(call[c].at) IN
    /\ At(c, "RmFile") /\ Serving
    /\ \/ DeleteOk(k) /\ Goto(c, "RmList")
       \/ DeleteErr(k)
          /\ Become(c, [call[c] EXCEPT !.pc = "RmList", !.errFile = TRUE])

\* Mutant: the pager is not asked for more.
RmNextFirstPage(c, l) ==
    IF l.todo # {} THEN Become(c, [l EXCEPT !.pc = "RmKey"])
    ELSE Removed(c, l.errFile)

\* The page goes on, or the pager has another one, or the work is done.
RmNext(c, l) ==
    IF l.todo # {} THEN Become(c, [l EXCEPT !.pc = "RmKey"])
    ELSE IF l.more THEN Become(c, [l EXCEPT !.pc = "RmList"])
    ELSE Removed(c, l.errFile)

RmList(c) ==
    /\ At(c, "RmList") /\ Serving
    /\ \/ /\ Works /\ UNCHANGED objects
          /\ \E l \in NextPage(c, WithSlash(KeyFor(call[c].at))) : RmNext(c, l)
       \/ Breaks /\ UNCHANGED objects /\ Removed(c, TRUE)

RmKey(c) ==
    LET k == First(call[c].todo) IN
    /\ At(c, "RmKey") /\ Serving
    /\ \/ DeleteOk(k)
          /\ RmNext(c, [call[c] EXCEPT !.todo = @ \ {k}, !.errFile = FALSE])
       \/ DeleteErr(k) /\ Removed(c, TRUE)

----------------------------------------------------------------------------
\* Rename: copy one blob; when there is none of that name, or the error reads
\* like it, copy and delete the blobs below it one by one.

\* Mutant: every error counts as a missing blob, and the source is deleted.
MvFileUnchecked(c) ==
    LET src == KeyFor(call[c].req.path)
        dst == KeyFor(call[c].req.dst)
    IN
    /\ At(c, "MvFile") /\ Serving
    /\ \/ (CopyOk(src, dst) \/ CopyErr(src, dst)) /\ Goto(c, "MvFileDelete")
       \/ CopyMissing(src) /\ Goto(c, "MvList")

MvFile(c) ==
    LET src == KeyFor(call[c].req.path)
        dst == KeyFor(call[c].req.dst)
    IN
    /\ At(c, "MvFile") /\ Serving
    /\ \/ CopyOk(src, dst) /\ Goto(c, "MvFileDelete")
       \/ CopyMissing(src) /\ Goto(c, "MvList")
       \/ CopyErr(src, dst) /\ Reads404(dst) /\ Goto(c, "MvList")
       \/ CopyErr(src, dst) /\ ~Reads404(dst) /\ Renamed(c, TRUE)

\* The error of this deletion is dropped.
MvFileDelete(c) ==
    LET src == KeyFor(call[c].req.path) IN
    /\ At(c, "MvFileDelete") /\ Serving
    /\ DeleteOk(src) \/ DeleteErr(src)
    /\ Renamed(c, FALSE)

\* Mutant: the pager is not asked for more.
MvNextFirstPage(c, l) ==
    IF l.todo # {} THEN Become(c, [l EXCEPT !.pc = "MvCopy"])
    ELSE Renamed(c, FALSE)

\* With nothing left to list, Rename succeeds, whether it moved anything.
MvNext(c, l) ==
    IF l.todo # {} THEN Become(c, [l EXCEPT !.pc = "MvCopy"])
    ELSE IF l.more THEN Become(c, [l EXCEPT !.pc = "MvList"])
    ELSE Renamed(c, FALSE)

MvList(c) ==
    /\ At(c, "MvList") /\ Serving
    /\ \/ /\ Works /\ UNCHANGED objects
          /\ \E l \in NextPage(c, OldDir(call[c].req)) : MvNext(c, l)
       \/ Breaks /\ UNCHANGED objects /\ Renamed(c, TRUE)

MvCopy(c) ==
    LET k == First(call[c].todo)
        dst == NewKey(call[c].req, k)
    IN
    /\ At(c, "MvCopy") /\ Serving
    /\ \/ CopyOk(k, dst) /\ Goto(c, "MvDelete")
       \/ (CopyMissing(k) \/ CopyErr(k, dst)) /\ Renamed(c, TRUE)

MvDelete(c) ==
    LET k == First(call[c].todo) IN
    /\ At(c, "MvDelete") /\ Serving
    /\ \/ DeleteOk(k) /\ MvNext(c, [call[c] EXCEPT !.todo = @ \ {k}])
       \/ DeleteErr(k) /\ Renamed(c, TRUE)

----------------------------------------------------------------------------
\* What Azure writes like the other backends.

Stat(c) == StatFile(c) \/ StatMarker(c) \/ StatList(c)

Mkdir(c) == PutMarker(c)

OpenFile(c) == OpenMarker(c) \/ OpenList(c) \/ Upload(c)

Step(c) ==
    \/ LockDst(c) \/ Stat(c) \/ Mkdir(c) \/ OpenFile(c)
    \/ RmFile(c) \/ RmList(c) \/ RmKey(c)
    \/ MvFile(c) \/ MvFileDelete(c) \/ MvList(c) \/ MvCopy(c) \/ MvDelete(c)

Next ==
    \/ \E c \in Client, s \in Server, r \in Request : Begin(c, s, r)
    \/ \E c \in Client : Step(c)
    \/ \E s \in Server : Crash(s)
    \/ AllServed

Spec == Init /\ [][Next]_vars
=============================================================================
