-------------------------------- MODULE S3FS --------------------------------
(***************************************************************************)
(* The S3 backend: RemoveAll and Rename of S3FileSystem, on top of what    *)
(* CloudFS shares between backends.                                        *)
(***************************************************************************)
EXTENDS CloudFS

CONSTANT Decoded   \* what S3 makes of a name when it decodes a CopySource

ASSUME DecodedAssumption == Decoded \in [Name -> Nat \ {Empty}]

\* The key whose object S3 copies for a CopySource of bucket + "/" + key: the
\* code does not encode it, and S3 decodes it, "%20" and "+" to a space.  A
\* name that cannot be decoded becomes one that is no Name.
CopySource(key) ==
    [i \in DOMAIN key |-> IF key[i] = Empty THEN Empty ELSE Decoded[key[i]]]

----------------------------------------------------------------------------
\* DeleteObject succeeds on a missing key; the SDK refuses an empty one.
DeleteOk(k) == k # <<Empty>> /\ Erase({k}) /\ Works

DeleteErr(k) ==
    \/ k = <<Empty>> /\ UNCHANGED objects /\ Works
    \/ k # <<Empty>> /\ (Erase({k}) \/ UNCHANGED objects) /\ Breaks

\* DeleteObjects accepts a limited number of keys.  Its answer may list keys
\* it could not delete, which no caller looks at.
BatchOk(K) ==
    /\ Cardinality(K) <= BatchLimit
    /\ \/ Erase(K) /\ Works
       \/ \E J \in SUBSET K \ {K} : Erase(J) /\ Breaks

BatchErr(K) ==
    \/ Cardinality(K) > BatchLimit /\ UNCHANGED objects /\ Works
    \/ Cardinality(K) <= BatchLimit /\ (Erase(K) \/ UNCHANGED objects) /\ Breaks

----------------------------------------------------------------------------
\* RemoveAll: the object of that name, then a batch of all below it.

RmFile(c) ==
    LET k == KeyFor(call[c].at) IN
    /\ At(c, "RmFile") /\ Serving
    /\ \/ DeleteOk(k) /\ Goto(c, "RmList")
       \/ DeleteErr(k)
          /\ Become(c, [call[c] EXCEPT !.pc = "RmList", !.errFile = TRUE])

\* Mutant: the keys of a page are kept without the prefix they share.
RmListedRelative(c, page, last, lastPage) ==
    LET d == WithSlash(KeyFor(call[c].at))
        l == [call[c] EXCEPT
                !.del = @ \cup {SubSeq(k, Len(d), Len(k)) : k \in page},
                !.cursor = last]
    IN
    IF ~lastPage THEN Become(c, l)
    ELSE IF l.del # {} THEN Become(c, [l EXCEPT !.pc = "RmBatch"])
    ELSE Removed(c, l.errFile)

\* Mutant: only the first page is deleted.
RmListedFirstPage(c, page, last, lastPage) ==
    LET l == [call[c] EXCEPT !.del = @ \cup page, !.cursor = last] IN
    IF l.del # {} THEN Become(c, [l EXCEPT !.pc = "RmBatch"])
    ELSE Removed(c, l.errFile)

\* What follows the page of the listing that ends with last.
RmListed(c, page, last, lastPage) ==
    LET l == [call[c] EXCEPT !.del = @ \cup page, !.cursor = last] IN
    IF ~lastPage THEN Become(c, l)
    ELSE IF l.del # {} THEN Become(c, [l EXCEPT !.pc = "RmBatch"])
    ELSE Removed(c, l.errFile)

RmList(c) ==
    LET d == WithSlash(KeyFor(call[c].at))
        cursor == call[c].cursor
        rest == Rest(d, cursor)
    IN
    /\ At(c, "RmList") /\ Serving /\ UNCHANGED objects
    /\ \/ /\ Works
          /\ \E last \in rest \cup {cursor} :
                /\ IsPageEnd(d, cursor, last)
                /\ RmListed(c, Page(d, cursor, last), last,
                            Page(d, cursor, last) = rest)
       \/ Breaks /\ Removed(c, TRUE)

RmBatch(c) ==
    /\ At(c, "RmBatch") /\ Serving
    /\ \/ BatchOk(call[c].del) /\ Removed(c, FALSE)
       \/ BatchErr(call[c].del) /\ Removed(c, TRUE)

----------------------------------------------------------------------------
\* Rename: copy one object, or else every object below the source, page by
\* page; then delete what was copied.

\* Mutant: the source is deleted although the copy failed.
MvFileUnchecked(c) ==
    LET src == CopySource(KeyFor(call[c].req.path))
        dst == KeyFor(call[c].req.dst)
    IN
    /\ At(c, "MvFile") /\ Serving
    /\ \/ (CopyOk(src, dst) \/ CopyErr(src, dst)) /\ Goto(c, "MvFileDelete")
       \/ CopyMissing(src) /\ Goto(c, "MvList")

\* Any error of the first copy is taken for a missing object.
MvFile(c) ==
    LET src == CopySource(KeyFor(call[c].req.path))
        dst == KeyFor(call[c].req.dst)
    IN
    /\ At(c, "MvFile") /\ Serving
    /\ \/ CopyOk(src, dst) /\ Goto(c, "MvFileDelete")
       \/ (CopyMissing(src) \/ CopyErr(src, dst)) /\ Goto(c, "MvList")

\* The error of this deletion is dropped.
MvFileDelete(c) ==
    LET src == KeyFor(call[c].req.path) IN
    /\ At(c, "MvFileDelete") /\ Serving
    /\ DeleteOk(src) \/ DeleteErr(src)
    /\ Renamed(c, FALSE)

\* Mutant: only the first page is moved.
MvNextFirstPage(c, l) ==
    IF l.todo # {} THEN Become(c, [l EXCEPT !.pc = "MvCopy"])
    ELSE IF l.del # {} THEN Become(c, [l EXCEPT !.pc = "MvBatch"])
    ELSE Renamed(c, TRUE)

\* With no object left to copy: the next page, the batch, or the error of
\* the first copy.
MvNext(c, l) ==
    IF l.todo # {} THEN Become(c, [l EXCEPT !.pc = "MvCopy"])
    ELSE IF l.more THEN Become(c, [l EXCEPT !.pc = "MvList"])
    ELSE IF l.del # {} THEN Become(c, [l EXCEPT !.pc = "MvBatch"])
    ELSE Renamed(c, TRUE)

MvList(c) ==
    LET d == OldDir(call[c].req)
        cursor == call[c].cursor
        rest == Rest(d, cursor)
    IN
    /\ At(c, "MvList") /\ Serving /\ UNCHANGED objects
    /\ \/ /\ Works
          /\ \E last \in rest \cup {cursor} :
                /\ IsPageEnd(d, cursor, last)
                /\ MvNext(c, [call[c] EXCEPT
                       !.todo = Page(d, cursor, last), !.cursor = last,
                       !.more = Page(d, cursor, last) # rest])
       \/ Breaks /\ Renamed(c, TRUE)

\* Mutant: an object that could not be copied is deleted with the others.
MvCopyUnchecked(c) ==
    /\ At(c, "MvCopy") /\ Serving
    /\ \E k \in call[c].todo :
        /\ \A j \in call[c].todo \ {k} : Before(k, j)
        /\ LET src == CopySource(k)
               dst == NewKey(call[c].req, k)
           IN
           /\ CopyOk(src, dst) \/ CopyMissing(src) \/ CopyErr(src, dst)
           /\ MvNext(c, [call[c] EXCEPT !.todo = @ \ {k}, !.del = @ \cup {k}])

\* The objects of a page are copied in its order.
MvCopy(c) ==
    /\ At(c, "MvCopy") /\ Serving
    /\ \E k \in call[c].todo :
        /\ \A j \in call[c].todo \ {k} : Before(k, j)
        /\ LET src == CopySource(k)
               dst == NewKey(call[c].req, k)
           IN
           \/ /\ CopyOk(src, dst)
              /\ MvNext(c, [call[c] EXCEPT !.todo = @ \ {k},
                                           !.del = @ \cup {k}])
           \/ (CopyMissing(src) \/ CopyErr(src, dst)) /\ Renamed(c, TRUE)

MvBatch(c) ==
    /\ At(c, "MvBatch") /\ Serving
    /\ \/ BatchOk(call[c].del) /\ Renamed(c, FALSE)
       \/ BatchErr(call[c].del) /\ Renamed(c, TRUE)

----------------------------------------------------------------------------
Step(c) ==
    \/ SharedStep(c)
    \/ RmFile(c) \/ RmList(c) \/ RmBatch(c)
    \/ MvFile(c) \/ MvFileDelete(c) \/ MvList(c) \/ MvCopy(c) \/ MvBatch(c)

Next ==
    \/ \E c \in Client, s \in Server, r \in Request : Begin(c, s, r)
    \/ \E c \in Client : Step(c)
    \/ \E s \in Server : Crash(s)
    \/ AllServed

Spec == Init /\ [][Next]_vars

\* The Go scheduler runs every goroutine, and every call of the cloud API
\* returns: the SDKs give up after their timeouts and retries.
Fairness == \A c \in Client : WF_vars(Step(c))

FairSpec == Spec /\ Fairness

----------------------------------------------------------------------------
\* What a Rename is about to delete has its copy at the destination, up to
\* the last moment, although nothing but the two locks keeps others away
\* (s3.go:283-302).
DeletesOnlyCopies ==
    \A c \in Client : call[c].pc \in {"MvList", "MvCopy", "MvBatch"} =>
        \A k \in call[c].del :
            LET j == NewKey(call[c].req, k) IN
            k \in DOMAIN objects =>
                j \in DOMAIN objects /\ objects[j] = objects[k]
=============================================================================
