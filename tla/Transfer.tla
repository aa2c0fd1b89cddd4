------------------------------ MODULE Transfer ------------------------------
(***************************************************************************)
(* Uploads and downloads of one object.  On S3 and Azure the goroutine of  *)
(* a PUT writes into a pipe that an upload goroutine reads (OpenFile,      *)
(* Write, Close); on GCS it writes into a storage.Writer.  handlePut       *)
(* copies the body, closes the file even if the copy has failed, and       *)
(* answers 201 when neither has.  Uploads overlap: they come from several  *)
(* replicas, or from before and after a lock is given up.                  *)
(*                                                                         *)
(* <<p, n>> is the first n chunks of what upload p is sent.  The time of   *)
(* the object counts its versions.                                         *)
(***************************************************************************)
EXTENDS Integers

CONSTANTS
    Backend,       \* "s3", "gcs", "azure": the backends to look at
    Put, Get,      \* the requests
    Size,          \* chunks in a body
    MaxFaults,     \* bound: failed calls of the cloud API
    Old            \* an upload of long ago, whose body the object holds

VARIABLES
    backend,
    body, time,    \* the object
    put,           \* put[p]: the two goroutines of an upload and their pipe
    get,           \* get[g]: the goroutine of a download
    faults

vars == <<backend, body, time, put, get, faults>>

ASSUME TransferAssumption ==
    /\ Backend \subseteq {"s3", "gcs", "azure"}
    /\ Size \in Nat /\ MaxFaults \in Nat
    /\ Old \notin Put

Body == (Put \cup {Old}) \X (0..Size)

PutType ==
    [pc : {"idle", "copy", "write", "close", "wait", "done"},
     sent : 0..Size,           \* chunks that Write has delivered
     copyErr : BOOLEAN,        \* io.Copy has failed
     up : {"none", "read", "shut", "sent"},    \* the upload goroutine
     eof : BOOLEAN,            \* pw.Close
     err : BOOLEAN,            \* what UploadObject returned
     stored : BOOLEAN,         \* history: it has replaced the object
     answer : {"none", "created", "refused"}]

GetType ==
    [pc : {"idle", "attrs", "done"},
     body : SUBSET Body,       \* {} or what was downloaded
     time : Nat,               \* 0 is the zero time
     at : Nat]                 \* history: the time of that body

Piped == backend # "gcs"

Init ==
    /\ backend \in Backend
    /\ body = <<Old, Size>> /\ time = 1
    /\ put = [p \in Put |->
                [pc |-> "idle", sent |-> 0, copyErr |-> FALSE, up |-> "none",
                 eof |-> FALSE, err |-> FALSE, stored |-> FALSE,
                 answer |-> "none"]]
    /\ get = [g \in Get |-> [pc |-> "idle", body |-> {}, time |-> 0, at |-> 0]]
    /\ faults = 0

----------------------------------------------------------------------------
At(p, pc) == put[p].pc = pc

Become(p, r) == put' = [put EXCEPT ![p] = r]

Works == UNCHANGED <<backend, get, faults>>

Breaks ==
    faults < MaxFaults /\ faults' = faults + 1 /\ UNCHANGED backend

\* The object is replaced by what upload p was sent.
Store(p) == body' = <<p, put[p].sent>> /\ time' = time + 1

Keep == UNCHANGED <<body, time>>

----------------------------------------------------------------------------
\* The goroutine of the request.

\* OpenFile for writing.  On S3 and Azure it starts the upload goroutine.
Open(p) ==
    /\ At(p, "idle")
    /\ Become(p, [put[p] EXCEPT !.pc = "copy",
                                !.up = IF Piped THEN "read" ELSE "none"])
    /\ Keep /\ Works

\* io.Copy has read a chunk of the body and calls Write.
NextChunk(p) ==
    /\ At(p, "copy") /\ put[p].sent < Size
    /\ Become(p, [put[p] EXCEPT !.pc = "write"])
    /\ Keep /\ Works

BodyEnds(p) ==
    /\ At(p, "copy") /\ put[p].sent = Size
    /\ Become(p, [put[p] EXCEPT !.pc = "close"])
    /\ Keep /\ Works

\* The client goes away in the middle of the body.
BodyBreaks(p) ==
    /\ At(p, "copy") /\ put[p].sent < Size
    /\ Become(p, [put[p] EXCEPT !.pc = "close", !.copyErr = TRUE])
    /\ Keep /\ Works

\* Write returns the error the upload goroutine has left in the pipe.
WriteFails(p) ==
    /\ At(p, "write") /\ put[p].up \in {"shut", "sent"}
    /\ Become(p, [put[p] EXCEPT !.pc = "close", !.copyErr = TRUE])
    /\ Keep /\ Works

\* Close: pw.Close(), then the receive from uploadDone.
ClosePipe(p) ==
    /\ At(p, "close") /\ Piped
    /\ Become(p, [put[p] EXCEPT !.pc = "wait", !.eof = TRUE])
    /\ Keep /\ Works

\* Mutant: the copy error is forgotten.
OutcomeOfClose(p) == IF put[p].err THEN "refused" ELSE "created"

\* What handlePut answers after a copyErr or an error of Close.
Outcome(p) ==
    IF put[p].copyErr \/ put[p].err THEN "refused" ELSE "created"

Finish(p) ==
    /\ At(p, "wait") /\ put[p].up = "sent"
    /\ Become(p, [put[p] EXCEPT !.pc = "done", !.answer = Outcome(p)])
    /\ Keep /\ Works

----------------------------------------------------------------------------
\* The upload goroutine of S3 and Azure.

\* Mutant: a chunk of an attempt that failed stays in the object when it is
\* sent again.
TakeTwice(p) ==
    /\ put[p].up = "read" /\ At(p, "write")
    /\ \E n \in 1..2 :
          Become(p, [put[p] EXCEPT !.pc = "copy", !.sent = @ + n])
    /\ Keep /\ Works

\* A read of the pipe takes a chunk; only then does the Write return.
Take(p) ==
    /\ put[p].up = "read" /\ At(p, "write")
    /\ Become(p, [put[p] EXCEPT !.pc = "copy", !.sent = @ + 1])
    /\ Keep /\ Works

\* It has read EOF and completes the upload; pr.CloseWithError.
Complete(p) ==
    /\ put[p].up = "read" /\ put[p].eof
    /\ Store(p)
    /\ \E err \in BOOLEAN :
          /\ Become(p, [put[p] EXCEPT !.up = "shut", !.err = err,
                                      !.stored = TRUE])
          /\ IF err THEN Breaks /\ UNCHANGED get ELSE Works

\* Mutant: the pipe is left open, so nobody is told.
AbortSilently(p) ==
    /\ put[p].up = "read"
    /\ Become(p, [put[p] EXCEPT !.up = "none", !.err = TRUE])
    /\ Keep
    /\ (Breaks /\ UNCHANGED get) \/ (put[p].copyErr /\ Works)

\* It fails: a call of the cloud API, or the context of a request whose
\* client is gone.
Abort(p) ==
    /\ put[p].up = "read"
    /\ Become(p, [put[p] EXCEPT !.up = "shut", !.err = TRUE])
    /\ Keep
    /\ (Breaks /\ UNCHANGED get) \/ (put[p].copyErr /\ Works)

\* done <- err: the channel has room for one result.
Send(p) ==
    /\ put[p].up = "shut"
    /\ Become(p, [put[p] EXCEPT !.up = "sent"])
    /\ Keep /\ Works

----------------------------------------------------------------------------
\* GCS: Write and Close of the storage.Writer.  Once a Write has failed there
\* is nothing left to complete.

WriteGCS(p) ==
    /\ At(p, "write") /\ ~Piped /\ Keep
    /\ \/ Become(p, [put[p] EXCEPT !.pc = "copy", !.sent = @ + 1]) /\ Works
       \/ /\ Become(p, [put[p] EXCEPT !.pc = "close", !.copyErr = TRUE,
                                       !.err = TRUE])
          /\ Breaks /\ UNCHANGED get

CloseGCS(p) ==
    /\ At(p, "close") /\ ~Piped
    /\ \E err, stored \in BOOLEAN :
          /\ IF put[p].err THEN err /\ ~stored ELSE err \/ stored
          /\ IF stored THEN Store(p) ELSE Keep
          /\ Become(p, [put[p] EXCEPT !.pc = "wait", !.up = "sent",
                                      !.err = err, !.stored = stored])
          /\ IF err /\ ~put[p].copyErr THEN Breaks /\ UNCHANGED get ELSE Works

----------------------------------------------------------------------------
\* The process dies: an unfinished upload leaves nothing.
Crash(p) ==
    /\ put[p].pc \notin {"idle", "done"}
    /\ Become(p, [put[p] EXCEPT !.pc = "done", !.answer = "refused",
                                !.up = "none"])
    /\ Keep /\ Works

----------------------------------------------------------------------------
\* Downloads: OpenFile for reading.

\* Mutant: the time is asked for in a second call on every backend.
DownloadThenHead(g) ==
    /\ get[g].pc = "idle"
    /\ get' = [get EXCEPT ![g] =
                 [pc |-> "attrs", body |-> {body}, time |-> 0, at |-> time]]
    /\ Keep /\ UNCHANGED <<backend, put, faults>>

\* The whole object is read at once, with its time on S3 and Azure.
Download(g) ==
    /\ get[g].pc = "idle"
    /\ get' = [get EXCEPT ![g] =
                 [pc |-> IF Piped THEN "done" ELSE "attrs", body |-> {body},
                  time |-> IF Piped THEN time ELSE 0, at |-> time]]
    /\ Keep /\ UNCHANGED <<backend, put, faults>>

DownloadFails(g) ==
    /\ get[g].pc = "idle" /\ Breaks
    /\ get' = [get EXCEPT ![g].pc = "done"]
    /\ Keep /\ UNCHANGED put

\* Attrs on GCS: a second call, whose error is dropped.
Attrs(g) ==
    /\ get[g].pc = "attrs"
    /\ \/ /\ get' = [get EXCEPT ![g].pc = "done", ![g].time = time]
          /\ UNCHANGED <<backend, faults>>
       \/ get' = [get EXCEPT ![g].pc = "done"] /\ Breaks
    /\ Keep /\ UNCHANGED put

----------------------------------------------------------------------------
Request(p) ==
    \/ NextChunk(p) \/ BodyEnds(p) \/ BodyBreaks(p) \/ WriteFails(p)
    \/ ClosePipe(p) \/ Finish(p) \/ WriteGCS(p) \/ CloseGCS(p)

Upload(p) == Take(p) \/ Complete(p) \/ Abort(p) \/ Send(p)

Reader(g) == Download(g) \/ DownloadFails(g) \/ Attrs(g)

Next ==
    \/ \E p \in Put : Open(p) \/ Request(p) \/ Upload(p) \/ Crash(p)
    \/ \E g \in Get : Reader(g)

Spec == Init /\ [][Next]_vars

\* Goroutines run; a client goes on sending, or its connection breaks.
Fairness == \A p \in Put : WF_vars(Request(p)) /\ WF_vars(Upload(p))

FairSpec == Spec /\ Fairness

----------------------------------------------------------------------------
\* The type invariant.
TypeOK ==
    /\ backend \in Backend
    /\ body \in Body /\ time \in Nat
    /\ put \in [Put -> PutType]
    /\ get \in [Get -> GetType]
    /\ faults \in 0..MaxFaults

\* What the two goroutines of an upload know of each other.
Consistent(r) ==
    /\ r.pc = "idle" => r.up = "none"
    /\ r.pc = "write" => r.sent < Size
    /\ r.pc \in {"idle", "copy", "write", "close"} => ~r.eof /\ ~r.stored
    /\ r.pc # "done" => r.answer = "none"
    /\ r.pc = "done" => r.up \in {"none", "sent"} /\ r.answer # "none"
    /\ r.up = "read" => ~r.stored
    /\ r.up \in {"shut", "sent"} /\ ~r.stored => r.err
    /\ r.pc \in {"close", "wait"} /\ ~r.copyErr => r.sent = Size

\* The time a download reports, which the ETag is made of, is that of its
\* content on S3 and Azure; on GCS, where a second call asks for it, it may be
\* newer or missing, and is never older (gcs.go:146-162).
TimeOfContent ==
    \A g \in Get : get[g].pc = "done" /\ get[g].body # {} =>
        IF Piped THEN get[g].time = get[g].at
        ELSE get[g].time = 0 \/ get[g].time >= get[g].at

\* Uploads and downloads are those of an atomic file: see AtomicFile.  A body
\* that breaks off may be stored as far as it came, but never with a 201.
Phase(r) ==
    IF r.pc = "idle" THEN "idle"
    ELSE IF r.pc = "done" THEN r.answer
    ELSE IF ~r.stored THEN "open"
    ELSE IF r.sent = Size THEN "whole" ELSE "part"

File == INSTANCE AtomicFile WITH
            content <- body, state <- [p \in Put |-> Phase(put[p])],
            got <- [g \in Get |-> get[g].body], Old <- <<Old, Size>>

ImplementsFile == File!Spec

\* Every upload is answered: an upload goroutine that fails early unblocks
\* Write, and Close receives a result (s3.go:155-165, 368-377).
EveryPutEnds == \A p \in Put : At(p, "copy") ~> At(p, "done")
=============================================================================
