-------------------------------- MODULE GCSFS --------------------------------
(***************************************************************************)
(* The GCS backend: RemoveAll and Rename of GCSFileSystem, on top of what  *)
(* CloudFS shares between backends.  Objects are deleted one by one while  *)
(* the iterator lists them; todo is what is left of its page.              *)
(***************************************************************************)
EXTENDS CloudFS

\* Deleting a missing object is an error.
DeleteOk(k) == k \in DOMAIN objects /\ Erase({k}) /\ Works

DeleteErr(k) ==
    \/ k \notin DOMAIN objects /\ UNCHANGED objects /\ Works
    \/ k \in DOMAIN objects /\ (Erase({k}) \/ UNCHANGED objects) /\ Breaks

----------------------------------------------------------------------------
\* RemoveAll.  The error of deleting the object of that name is dropped.

RmFile(c) ==
    LET k == KeyFor(call[c].at) IN
    /\ At(c, "RmFile") /\ Serving
    /\ DeleteOk(k) \/ DeleteErr(k)
    /\ Goto(c, "RmList")

\* Mutant: the iteration ends with the first page.
RmNextFirstPage(c, l) ==
    IF l.todo # {} THEN Become(c, [l EXCEPT !.pc = "RmKey"])
    ELSE Removed(c, FALSE)

\* The iterator goes on: within its page, with the next one, or it is done.
RmNext(c, l) ==
    IF l.todo # {} THEN Become(c, [l EXCEPT !.pc = "RmKey"])
    ELSE IF l.more THEN Become(c, [l EXCEPT !.pc = "RmList"])
    ELSE Removed(c, FALSE)

RmList(c) ==
    /\ At(c, "RmList") /\ Serving
    /\ \/ /\ Works /\ UNCHANGED objects
          /\ \E l \in NextPage(c, WithSlash(KeyFor(call[c].at))) : RmNext(c, l)
       \/ Breaks /\ UNCHANGED objects /\ Removed(c, TRUE)

RmKey(c) ==
    LET k == First(call[c].todo) IN
    /\ At(c, "RmKey") /\ Serving
    /\ \/ DeleteOk(k) /\ RmNext(c, [call[c] EXCEPT !.todo = @ \ {k}])
       \/ DeleteErr(k) /\ Removed(c, TRUE)

----------------------------------------------------------------------------
\* Mutant: the source is deleted although the copy failed.
MvFileUnchecked(c) ==
    LET src == KeyFor(call[c].req.path)
        dst == KeyFor(call[c].req.dst)
    IN
    /\ At(c, "MvFile") /\ Serving
    /\ \/ (CopyOk(src, dst) \/ CopyErr(src, dst)) /\ Goto(c, "MvFileDelete")
       \/ CopyMissing(src) /\ Goto(c, "MvList")

\* Rename: copy one object; when there is none of that name, copy and delete
\* the objects below it one by one.

MvFile(c) ==
    LET src == KeyFor(call[c].req.path)
        dst == KeyFor(call[c].req.dst)
    IN
    /\ At(c, "MvFile") /\ Serving
    /\ \/ CopyOk(src, dst) /\ Goto(c, "MvFileDelete")
       \/ CopyMissing(src) /\ Goto(c, "MvList")
       \/ CopyErr(src, dst) /\ Renamed(c, TRUE)

\* The error of this deletion is dropped.
MvFileDelete(c) ==
    LET src == KeyFor(call[c].req.path) IN
    /\ At(c, "MvFileDelete") /\ Serving
    /\ DeleteOk(src) \/ DeleteErr(src)
    /\ Renamed(c, FALSE)

\* Mutant: only the first page is moved.
MvNextFirstPage(c, l) ==
    IF l.todo # {} THEN Become(c, [l EXCEPT !.pc = "MvCopy"])
    ELSE Renamed(c, FALSE)

\* With nothing left to list, Rename succeeds, whether it moved anything.
MvNext(c, l) ==
    IF l.todo # {} THEN Become(c, [l EXCEPT !.pc = "MvCopy"])
    ELSE IF l.more THEN Become(c, [l EXCEPT !.pc = "MvList"])
    ELSE Renamed(c, FALSE)

MvList(c) ==
    /\ At(c, "MvList") /\ Serving
    /\ \/ /\ Works /\ UNCHANGED objects
          /\ \E l \in NextPage(c, OldDir(call[c].req)) : MvNext(c, l)
       \/ Breaks /\ UNCHANGED objects /\ Renamed(c, TRUE)

MvCopy(c) ==
    LET k == First(call[c].todo)
        dst == NewKey(call[c].req, k)
    IN
    /\ At(c, "MvCopy") /\ Serving
    /\ \/ CopyOk(k, dst) /\ Goto(c, "MvDelete")
       \/ (CopyMissing(k) \/ CopyErr(k, dst)) /\ Renamed(c, TRUE)

MvDelete(c) ==
    LET k == First(call[c].todo) IN
    /\ At(c, "MvDelete") /\ Serving
    /\ \/ DeleteOk(k) /\ MvNext(c, [call[c] EXCEPT !.todo = @ \ {k}])
       \/ DeleteErr(k) /\ Renamed(c, TRUE)

----------------------------------------------------------------------------
\* What GCS writes like the other backends.

Stat(c) == StatFile(c) \/ StatMarker(c) \/ StatList(c)

Mkdir(c) == PutMarker(c)

OpenFile(c) == OpenMarker(c) \/ OpenList(c) \/ Upload(c)

Step(c) ==
    \/ LockDst(c) \/ Stat(c) \/ Mkdir(c) \/ OpenFile(c)
    \/ RmFile(c) \/ RmList(c) \/ RmKey(c)
    \/ MvFile(c) \/ MvFileDelete(c) \/ MvList(c) \/ MvCopy(c) \/ MvDelete(c)

Next ==
    \/ \E c \in Client, s \in Server, r \in Request : Begin(c, s, r)
    \/ \E c \in Client : Step(c)
    \/ \E s \in Server : Crash(s)
    \/ AllServed

Spec == Init /\ [][Next]_vars
=============================================================================
