------------------------------- MODULE UvStream -------------------------------
(***************************************************************************)
(* One TCP stream of a libuv loop (src/unix/stream.c, and uv__tcp_connect()*)
(* of src/unix/tcp.c): connecting, the queue of writes, shutdown, reading, *)
(* and what uv_close() leaves to the end of the iteration.  The handlers   *)
(* call user code in the middle, which may use the stream or close it, so  *)
(* an action is the code between two callbacks.  The poll reports reading  *)
(* and writing one by one, as kqueue does, and is in UvPoll; what the      *)
(* socket makes of a write is open.                                        *)
(***************************************************************************)
EXTENDS Naturals, Sequences, FiniteSets, SequencesExt

CONSTANTS Writes,      \* write requests
          MaxSize,     \* bound: bytes of a write
          Batch        \* writes that uv__write() finishes in one go (33)

ASSUME StreamAssumption == /\ IsFiniteSet(Writes)
                           /\ MaxSize \in Nat /\ Batch \in Nat \ {0}

VARIABLES
  conn,          \* the socket and stream->connect_req
  delayedError,
  flags,         \* UV_HANDLE_READABLE, UV_HANDLE_WRITABLE
  isReading,     \* UV_HANDLE_READING: POLLIN is watched just as long
  watchOut,      \* POLLOUT is watched
  fedStream,     \* uv__io_feed()
  writeQueue, completedQueue,
  left,          \* bytes of each write that the socket has not taken
  freed,         \* writes whose buffers were released: req->bufs is NULL
  queueSize,     \* stream->write_queue_size
  answeringW,    \* the completed writes uv__write_callbacks() has taken
  shutReq, isShut,
  isClosing, isClosed,
  at,            \* which callback runs, or where its caller is
  caller,        \* the handler whose part that is
  submitted, answered   \* history: writes accepted, write callbacks made

connVars == <<conn, delayedError>>
watchVars == <<isReading, watchOut, fedStream>>
writeVars == <<writeQueue, completedQueue, left, freed, queueSize>>
endVars == <<shutReq, isShut, isClosing, isClosed>>
placeVars == <<at, caller>>
historyVars == <<submitted, answered>>
streamVars == <<connVars, flags, watchVars, writeVars, answeringW, endVars, placeVars,
                historyVars>>

StreamTypeOK ==
  /\ conn \in {"none", "connecting", "connected", "failed", "cancelled"}
  /\ delayedError \in BOOLEAN /\ flags \in SUBSET {"readable", "writable"}
  /\ isReading \in BOOLEAN /\ watchOut \in BOOLEAN /\ fedStream \in BOOLEAN
  /\ writeQueue \in Seq(Writes) /\ completedQueue \in Seq(Writes)
  /\ left \in [Writes -> 0..MaxSize] /\ freed \in SUBSET Writes
  /\ queueSize \in 0..Cardinality(Writes) * MaxSize
  /\ answeringW \in Seq(Writes)
  /\ shutReq \in BOOLEAN /\ isShut \in BOOLEAN
  /\ isClosing \in BOOLEAN /\ isClosed \in BOOLEAN
  /\ at \in {"loop", "written", "answering", "connectCb", "writeCb", "shutCb", "readCb",
             "readErrorCb", "closeCb"}
  /\ caller \in {"io", "connect", "destroy"}
  /\ submitted \in Seq(Writes) /\ answered \in Seq(Writes)

\* A new stream, or one that uv_accept() has opened.
StreamInit ==
  /\ \/ conn = "none" /\ flags = {}
     \/ conn = "connected" /\ flags = {"readable", "writable"}
  /\ delayedError = FALSE
  /\ isReading = FALSE /\ watchOut = FALSE /\ fedStream = FALSE
  /\ writeQueue = <<>> /\ completedQueue = <<>>
  /\ left = [r \in Writes |-> 0] /\ freed = {} /\ queueSize = 0
  /\ answeringW = <<>>
  /\ shutReq = FALSE /\ isShut = FALSE /\ isClosing = FALSE /\ isClosed = FALSE
  /\ at = "loop" /\ caller = "io"
  /\ submitted = <<>> /\ answered = <<>>

-----------------------------------------------------------------------------
\* uv__write()

\* The bytes of some writes, of which each has so many to go: <<write, place>>.
Bytes(writes, sizes) == {b \in writes \X (1..MaxSize) : b[2] <= sizes[b[1]]}

\* The socket takes the first done writes of the queue, and of the next one a part,
\* or nothing, or it is an error; sizes and total are the bytes that are left before,
\* fed tells whether the stream is fed already.
WritesOut(queue, sizes, total, fed) ==
  \E done \in 0..Len(queue) :
    LET finished == SubSeq(queue, 1, done)
        rest == SubSeq(queue, done + 1, Len(queue))
        taken == Cardinality(Bytes(ToSet(finished), sizes))
        after == [r \in Writes |-> IF Contains(finished, r) THEN 0 ELSE sizes[r]]
        Completes(writes) == /\ completedQueue' = completedQueue \o writes
                             /\ fedStream' = (fed \/ writes # <<>>)
    IN
    /\ done <= Batch
    /\ done > 0 => conn = "connected"
    /\ freed' = freed \cup ToSet(finished)
    /\ \/ /\ done \in {Len(queue), Batch}
          /\ Completes(finished)
          /\ writeQueue' = rest /\ left' = after /\ queueSize' = total - taken
          /\ UNCHANGED watchOut
       \/ /\ done \notin {Len(queue), Batch} /\ conn = "connected"
          /\ Completes(finished)
          /\ \E part \in {0} \cup 0..(sizes[Head(rest)] - 1) :
               /\ left' = [after EXCEPT ![Head(rest)] = @ - part]
               /\ queueSize' = total - taken - part
          /\ writeQueue' = rest
          /\ watchOut' = TRUE
       \/ /\ done \notin {Len(queue), Batch}
          /\ Completes(Append(finished, Head(rest)))
          /\ writeQueue' = Tail(rest) /\ left' = after /\ queueSize' = total - taken
          /\ watchOut' = FALSE

-----------------------------------------------------------------------------
\* What the user calls.

UserRuns == at \notin {"written", "answering"}

HasSocket == conn # "none" /\ ~isClosing

\* uv_tcp_connect(): under way, or refused, which is told in the next iteration.
Connect ==
  /\ UserRuns /\ conn = "none" /\ ~isClosing
  /\ conn' = "connecting" /\ flags' = {"readable", "writable"}
  /\ delayedError' \in BOOLEAN
  /\ watchOut' = TRUE
  /\ fedStream' = (fedStream \/ delayedError')
  /\ UNCHANGED <<isReading, writeVars, answeringW, endVars, placeVars, historyVars>>

\* uv_write2(): at once if no byte is waiting, unless the stream is connecting.
Write(r, size) ==
  /\ UserRuns /\ HasSocket /\ "writable" \in flags /\ ~Contains(submitted, r)
  /\ submitted' = Append(submitted, r)
  /\ LET queue == Append(writeQueue, r)
         sizes == [left EXCEPT ![r] = size]
     IN  IF conn # "connecting" /\ queueSize = 0
         THEN WritesOut(queue, sizes, size, fedStream)
         ELSE /\ writeQueue' = queue /\ left' = sizes
              /\ queueSize' = queueSize + size
              /\ watchOut' = (watchOut \/ conn # "connecting")
              /\ UNCHANGED <<completedQueue, freed, fedStream>>
  /\ UNCHANGED <<connVars, flags, isReading, answeringW, endVars, placeVars, answered>>

\* uv_shutdown(), of a stream that is connected.
Shutdown ==
  /\ UserRuns /\ HasSocket /\ conn # "connecting"
  /\ "writable" \in flags /\ ~isShut /\ ~shutReq
  /\ shutReq' = TRUE /\ flags' = flags \ {"writable"}
  /\ fedStream' = (fedStream \/ writeQueue = <<>>)
  /\ UNCHANGED <<connVars, isReading, watchOut, writeVars, answeringW, isShut,
                 isClosing, isClosed, placeVars, historyVars>>

\* uv_read_start(), uv_read_stop()
ReadStart ==
  /\ UserRuns /\ HasSocket /\ ~isReading /\ "readable" \in flags
  /\ isReading' = TRUE
  /\ UNCHANGED <<connVars, flags, watchOut, fedStream, writeVars, answeringW, endVars,
                 placeVars, historyVars>>

ReadStop ==
  /\ UserRuns /\ isReading
  /\ isReading' = FALSE
  /\ UNCHANGED <<connVars, flags, watchOut, fedStream, writeVars, answeringW, endVars,
                 placeVars, historyVars>>

\* uv_close(), uv__stream_close()
CloseStream ==
  /\ UserRuns /\ ~isClosing
  /\ isClosing' = TRUE
  /\ flags' = {} /\ isReading' = FALSE /\ watchOut' = FALSE /\ fedStream' = FALSE
  /\ UNCHANGED <<connVars, writeVars, answeringW, shutReq, isShut, isClosed, placeVars,
                 historyVars>>

UserOfStream == \/ Connect \/ Shutdown \/ ReadStart \/ ReadStop \/ CloseStream
                \/ \E r \in Writes, size \in 0..MaxSize : Write(r, size)

-----------------------------------------------------------------------------
\* uv__stream_io()

\* The poll calls it, or uv__run_pending(): then the stream is not fed any more.
CalledWith(fed) == /\ at = "loop" /\ ~isClosing
                   /\ \/ watchOut /\ fed = fedStream
                      \/ fedStream /\ fed = FALSE

\* uv__stream_connect(): the outcome is known, or still is not.
ConnectEnds(error) ==
  /\ conn' = IF error THEN "failed" ELSE "connected"
  /\ delayedError' = FALSE
  /\ watchOut' = (watchOut /\ ~error /\ writeQueue # <<>>)
  /\ at' = "connectCb" /\ caller' = "connect"

StreamConnects ==
  /\ conn = "connecting"
  /\ \E fed \in BOOLEAN : /\ CalledWith(fed) \/ (at = "loop" /\ isReading /\ fed = fedStream)
                          /\ fedStream' = fed
  /\ \/ ConnectEnds(TRUE)
     \/ ~delayedError /\ ConnectEnds(FALSE)
     \/ ~delayedError /\ UNCHANGED <<conn, delayedError, watchOut, at, caller>>
  /\ UNCHANGED <<flags, isReading, writeVars, answeringW, endVars, historyVars>>

StreamWrites ==
  /\ conn # "connecting"
  /\ \E fed \in BOOLEAN : /\ CalledWith(fed)
                          /\ WritesOut(writeQueue, left, queueSize, fed)
  /\ at' = "written" /\ caller' = "io"
  /\ UNCHANGED <<connVars, flags, isReading, answeringW, endVars, historyVars>>

\* uv__read(): data or nothing yet, the end, or an error.  The poll reports what is
\* left to read again.
StreamReads ==
  /\ at = "loop" /\ isReading /\ conn # "connecting"
  /\ \/ at' = "readCb" /\ UNCHANGED <<isReading, flags>>
     \/ at' = "readCb" /\ isReading' = FALSE /\ UNCHANGED flags
     \/ at' = "readErrorCb" /\ flags' = {} /\ UNCHANGED isReading
  /\ caller' = "io"
  /\ UNCHANGED <<connVars, watchOut, fedStream, writeVars, answeringW, endVars,
                 historyVars>>

\* uv__write_callbacks() takes the completed writes ...
TakesCompleted ==
  /\ at = "written"
  /\ answeringW' = completedQueue /\ completedQueue' = <<>>
  /\ at' = "answering"
  /\ UNCHANGED <<connVars, flags, watchVars, writeQueue, left, freed, queueSize,
                 endVars, caller, historyVars>>

\* Mutant: the bytes of a write that failed stay counted.
AnswersWriteOnly ==
  /\ at = "answering" /\ answeringW # <<>>
  /\ LET r == Head(answeringW) IN
       /\ freed' = freed \cup {r}
       /\ answered' = Append(answered, r)
  /\ answeringW' = Tail(answeringW)
  /\ at' = "writeCb"
  /\ UNCHANGED <<connVars, flags, watchVars, writeQueue, completedQueue, left,
                 queueSize, endVars, caller, submitted>>

\* ... and calls back for each; the bytes of one that failed are given up only now.
AnswersWrite ==
  /\ at = "answering" /\ answeringW # <<>>
  /\ LET r == Head(answeringW) IN
       /\ queueSize' = IF r \in freed THEN queueSize ELSE queueSize - left[r]
       /\ freed' = freed \cup {r}
       /\ answered' = Append(answered, r)
  /\ answeringW' = Tail(answeringW)
  /\ at' = "writeCb"
  /\ UNCHANGED <<connVars, flags, watchVars, writeQueue, completedQueue, left,
                 endVars, caller, submitted>>

\* uv__drain()
Drain ==
  /\ watchOut' = (watchOut /\ isClosing)
  /\ IF shutReq /\ (isClosing \/ ~isShut)
     THEN /\ shutReq' = FALSE
          /\ isShut' \in IF isClosing THEN {isShut} ELSE BOOLEAN
          /\ at' = "shutCb"
     ELSE /\ at' = IF caller = "destroy" THEN "closeCb" ELSE "loop"
          /\ UNCHANGED <<shutReq, isShut>>

EndsAnswers ==
  /\ at = "answering" /\ answeringW = <<>>
  /\ IF caller = "destroy" \/ (caller = "io" /\ writeQueue = <<>>)
     THEN Drain
     ELSE at' = "loop" /\ UNCHANGED <<watchOut, shutReq, isShut>>
  /\ UNCHANGED <<connVars, flags, isReading, fedStream, writeVars, answeringW,
                 isClosing, isClosed, caller, historyVars>>

\* uv__stream_flush_write_queue(), then uv__write_callbacks().
FlushesWrites ==
  /\ completedQueue' = completedQueue \o writeQueue /\ writeQueue' = <<>>
  /\ at' = "written"

\* uv__stream_destroy(), at the end of the iteration.
Destroys ==
  /\ at = "loop" /\ isClosing /\ ~isClosed
  /\ isClosed' = TRUE /\ caller' = "destroy"
  /\ IF conn = "connecting" THEN at' = "connectCb" /\ UNCHANGED <<writeQueue, completedQueue>>
                            ELSE FlushesWrites
  /\ UNCHANGED <<connVars, flags, watchVars, left, freed, queueSize, answeringW, shutReq,
                 isShut, isClosing, historyVars>>

ConnectCbReturns ==
  /\ at = "connectCb"
  /\ conn' = IF caller = "destroy" THEN "cancelled" ELSE conn
  /\ IF caller = "destroy" \/ (conn = "failed" /\ ~isClosing)
     THEN FlushesWrites
     ELSE at' = "loop" /\ UNCHANGED <<writeQueue, completedQueue>>
  /\ UNCHANGED <<delayedError, flags, watchVars, left, freed, queueSize, answeringW,
                 endVars, caller, historyVars>>

CbReturns ==
  /\ \/ at = "writeCb" /\ at' = "answering" /\ UNCHANGED isReading
     \/ at = "shutCb" /\ UNCHANGED isReading
        /\ at' = IF caller = "destroy" THEN "closeCb" ELSE "loop"
     \/ at \in {"readCb", "closeCb"} /\ at' = "loop" /\ UNCHANGED isReading
     \/ at = "readErrorCb" /\ at' = "loop" /\ isReading' = FALSE
  /\ UNCHANGED <<connVars, flags, watchOut, fedStream, writeVars, answeringW, endVars,
                 caller, historyVars>>

HandlerGoesOn == \/ TakesCompleted \/ AnswersWrite \/ EndsAnswers \/ ConnectCbReturns
                 \/ CbReturns

StreamNext == \/ UserOfStream \/ StreamConnects \/ StreamWrites \/ StreamReads
              \/ Destroys \/ HandlerGoesOn

StreamSpec == StreamInit /\ [][StreamNext]_streamVars

-----------------------------------------------------------------------------
\* Properties.

\* The size of the queue is that of the writes the socket has yet to take and of
\* those that failed and were not answered, so that it is 0 when all are answered.
QueueSizeIsWaiting ==
  queueSize = Cardinality(Bytes(ToSet(submitted) \ freed, left))

\* Whenever user code elsewhere or the poll runs, a write that waits will be tried
\* again: the poll watches for it, or the stream is fed; if the stream is being
\* closed, nothing calls it any more.
WaitingIsWatched ==
  at = "loop" => IF isClosing THEN ~watchOut /\ ~fedStream /\ ~isReading
                 ELSE writeQueue # <<>> => watchOut \/ fedStream

\* Writes are answered in the order in which they were made, each once.
AnsweredInOrder == IsPrefix(answered, submitted)

\* When the close callback runs every write, and the shutdown, has been answered.
ClosedAnswersAll == at = "closeCb" => answered = submitted /\ ~shutReq /\ queueSize = 0

\* A write that has been finished, or has failed, has yet to be answered.
AnswerIsOwed == completedQueue # <<>>
=============================================================================
