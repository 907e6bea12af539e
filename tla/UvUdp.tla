-------------------------------- MODULE UvUdp --------------------------------
(***************************************************************************)
(* A uv_udp_t handle of libuv (src/unix/udp.c).  A datagram is sent in the *)
(* call if none waits, and queued otherwise; a request that was sent waits *)
(* on a second queue for the loop, which calls back.  User code runs       *)
(* between the loop's actions and in the callbacks, where it may send,     *)
(* stop and close.  recvmmsg() and sendmmsg() are not built on the BSDs.   *)
(***************************************************************************)
EXTENDS Naturals, Sequences, FiniteSets, SequencesExt

CONSTANTS Sends,      \* datagrams to send, each in one call
          RecvBatch   \* receives of one event: 32 in the source

ASSUME UdpAssumption == IsFiniteSet(Sends) /\ RecvBatch \in Nat \ {0}

VARIABLES
  udpOpen,        \* io_watcher.fd # -1
  wants,          \* io_watcher.pevents: "in" and "out"
  udpFed,         \* the watcher is in loop->pending_queue
  udpActive,      \* uv__is_active(handle)
  recvCb,         \* recv_cb and alloc_cb are set
  receiving,      \* receives that uv__udp_recvmsg() may still do
  sendQueue, sentQueue,   \* write_queue, write_completed_queue
  sendCount,      \* send_queue_count
  processing,     \* UV_HANDLE_UDP_PROCESSING
  callback,       \* the user's callback that runs: "none", "recv" or "send"
  udpClosing, udpFinishing, udpClosed,
  given,          \* history: the datagrams in the order of the calls
  asked,          \* history: those of uv_udp_send(), which have a request
  departed,       \* history: those the system took (or refused), in its order
  replied         \* history: the requests whose callback was called

socketVars == <<udpOpen, wants, udpFed, udpActive>>
recvVars == <<recvCb, receiving>>
queues == <<sendQueue, sentQueue, sendCount>>
udpEnd == <<udpClosing, udpFinishing, udpClosed>>
udpHistory == <<given, asked, departed, replied>>
udpVars == <<socketVars, recvVars, queues, processing, callback, udpEnd, udpHistory>>

UdpTypeOK ==
  /\ udpOpen \in BOOLEAN /\ wants \in SUBSET {"in", "out"}
  /\ udpFed \in BOOLEAN /\ udpActive \in BOOLEAN
  /\ recvCb \in BOOLEAN /\ receiving \in 0..RecvBatch
  /\ sendQueue \in Seq(Sends) /\ sentQueue \in Seq(Sends)
  /\ sendCount \in 0..Cardinality(Sends)
  /\ processing \in BOOLEAN /\ callback \in {"none", "recv", "send"}
  /\ udpClosing \in BOOLEAN /\ udpFinishing \in BOOLEAN /\ udpClosed \in BOOLEAN
  /\ given \in Seq(Sends) /\ asked \in Seq(Sends)
  /\ departed \in Seq(Sends) /\ replied \in Seq(Sends)

UdpInit ==
  /\ udpOpen = FALSE /\ wants = {} /\ udpFed = FALSE /\ udpActive = FALSE
  /\ recvCb = FALSE /\ receiving = 0
  /\ sendQueue = <<>> /\ sentQueue = <<>> /\ sendCount = 0
  /\ processing = FALSE /\ callback = "none"
  /\ udpClosing = FALSE /\ udpFinishing = FALSE /\ udpClosed = FALSE
  /\ given = <<>> /\ asked = <<>> /\ departed = <<>> /\ replied = <<>>

-----------------------------------------------------------------------------
\* The user: in a callback, or when the loop does nothing.

UdpUser == ~udpClosing /\ (callback # "none" \/ ~processing)

\* uv__udp_sendmsg(): the system takes, or refuses for good, some of the queue, each
\* datagram as a whole, until it would block; the requests wait to be called.
SendsDatagrams(queue, fedBefore) ==
  \E k \in 0..Len(queue) :
    /\ sendQueue' = SubSeq(queue, k + 1, Len(queue))
    /\ sentQueue' = sentQueue \o SubSeq(queue, 1, k)
    /\ departed' = departed \o SubSeq(queue, 1, k)
    /\ udpFed' = (fedBefore \/ k > 0)

\* uv__udp_send(): the socket is made if there is none.
UdpSend(r) ==
  /\ UdpUser /\ r \notin ToSet(given)
  /\ given' = Append(given, r) /\ asked' = Append(asked, r)
  /\ sendCount' = sendCount + 1 /\ udpActive' = TRUE /\ udpOpen' = TRUE
  /\ IF sendCount = 0 /\ ~processing
     THEN /\ SendsDatagrams(Append(sendQueue, r), udpFed)
          /\ wants' = IF sendQueue' = <<>> THEN wants ELSE wants \cup {"out"}
     ELSE /\ sendQueue' = Append(sendQueue, r) /\ wants' = wants \cup {"out"}
          /\ UNCHANGED <<sentQueue, departed, udpFed>>
  /\ UNCHANGED <<recvVars, processing, callback, udpEnd, replied>>

\* uv__udp_try_send() "already sending a message" fails, and so it may for another
\* reason, which changes nothing but that there is a socket now.
UdpTrySend(r) ==
  /\ UdpUser /\ r \notin ToSet(given) /\ sendCount = 0
  /\ udpOpen' = TRUE
  /\ \/ given' = Append(given, r) /\ departed' = Append(departed, r)
     \/ UNCHANGED <<given, departed>>
  /\ UNCHANGED <<wants, udpFed, udpActive, recvVars, queues, processing, callback,
                 udpEnd, asked, replied>>

\* uv__udp_recv_start()
UdpRecvStart ==
  /\ UdpUser /\ "in" \notin wants
  /\ udpOpen' = TRUE /\ recvCb' = TRUE
  /\ wants' = wants \cup {"in"} /\ udpActive' = TRUE
  /\ UNCHANGED <<udpFed, receiving, queues, processing, callback, udpEnd, udpHistory>>

\* uv__udp_recv_stop()
UdpRecvStop ==
  /\ UdpUser
  /\ wants' = wants \ {"in"} /\ recvCb' = FALSE
  /\ udpActive' = (udpActive /\ "out" \in wants)
  /\ UNCHANGED <<udpOpen, udpFed, receiving, queues, processing, callback, udpEnd,
                 udpHistory>>

\* uv_close(), uv__udp_close()
UdpClose ==
  /\ UdpUser
  /\ udpClosing' = TRUE
  /\ wants' = {} /\ udpFed' = FALSE /\ udpActive' = FALSE /\ udpOpen' = FALSE
  /\ UNCHANGED <<recvVars, queues, processing, callback, udpFinishing, udpClosed,
                 udpHistory>>

-----------------------------------------------------------------------------
\* The loop.

UdpIdle == callback = "none" /\ ~processing

\* uv__udp_recvmsg() calls back with a datagram, an error, or nothing.
UdpReceives ==
  /\ UdpIdle /\ "in" \in wants
  /\ callback' = "recv" /\ receiving' = RecvBatch - 1
  /\ UNCHANGED <<socketVars, recvCb, queues, processing, udpEnd, udpHistory>>

\* There is another one if the callback has neither stopped nor closed the handle.
RecvReturns ==
  /\ callback = "recv"
  /\ \/ /\ receiving > 0 /\ udpOpen /\ recvCb
        /\ receiving' = receiving - 1 /\ UNCHANGED callback
     \/ receiving' = 0 /\ callback' = "none"
  /\ UNCHANGED <<socketVars, recvCb, queues, processing, udpEnd, udpHistory>>

\* uv__udp_io() with POLLOUT, from the poll: it sends, and goes on to call back.
UdpWrites ==
  /\ UdpIdle /\ "out" \in wants
  /\ SendsDatagrams(sendQueue, udpFed) /\ processing' = TRUE
  /\ UNCHANGED <<udpOpen, wants, udpActive, recvVars, sendCount, callback, udpEnd,
                 given, asked, replied>>

\* The same from uv__run_pending(), for a watcher that was fed; it may feed it again.
UdpRunsPending ==
  /\ UdpIdle /\ udpFed
  /\ SendsDatagrams(sendQueue, FALSE)
  /\ processing' = TRUE
  /\ UNCHANGED <<udpOpen, wants, udpActive, recvVars, sendCount, callback, udpEnd,
                 given, asked, replied>>

\* uv__udp_run_completed(): the next callback.
CallsSender ==
  /\ processing /\ callback = "none" /\ sentQueue # <<>>
  /\ sentQueue' = Tail(sentQueue) /\ sendCount' = sendCount - 1
  /\ replied' = Append(replied, Head(sentQueue))
  /\ callback' = "send"
  /\ UNCHANGED <<socketVars, recvVars, sendQueue, processing, udpEnd, given,
                 asked, departed>>

SenderReturns ==
  /\ callback = "send" /\ callback' = "none"
  /\ UNCHANGED <<socketVars, recvVars, queues, processing, udpEnd, udpHistory>>

\* Its end; in uv__udp_finish_close() the handle is closed then.
RunCompletedEnds ==
  /\ processing /\ callback = "none" /\ sentQueue = <<>>
  /\ processing' = FALSE
  /\ IF sendQueue = <<>>
     THEN wants' = wants \ {"out"} /\ udpActive' = (udpActive /\ "in" \in wants)
     ELSE UNCHANGED <<wants, udpActive>>
  /\ udpClosed' = udpFinishing
  /\ recvCb' = (recvCb /\ ~udpFinishing)
  /\ UNCHANGED <<udpOpen, udpFed, receiving, queues, callback, udpClosing,
                 udpFinishing, udpHistory>>

\* uv__udp_finish_close(): what is still to be sent is cancelled, behind what was.
FinishesUdp ==
  /\ UdpIdle /\ udpClosing /\ ~udpFinishing
  /\ udpFinishing' = TRUE /\ processing' = TRUE
  /\ sentQueue' = sentQueue \o sendQueue /\ sendQueue' = <<>>
  /\ UNCHANGED <<socketVars, recvVars, sendCount, callback, udpClosing, udpClosed,
                 udpHistory>>

UdpGoesOn == RecvReturns \/ CallsSender \/ SenderReturns \/ RunCompletedEnds \/ FinishesUdp

UdpNext ==
  \/ \E r \in Sends : UdpSend(r) \/ UdpTrySend(r)
  \/ UdpRecvStart \/ UdpRecvStop \/ UdpClose
  \/ UdpReceives \/ UdpWrites \/ UdpRunsPending \/ UdpGoesOn

UdpSpec == UdpInit /\ [][UdpNext]_udpVars

-----------------------------------------------------------------------------
\* Properties.

\* What was given and waits is counted; what is to be sent is watched for, and what
\* was sent has the loop on its way; a handle that watches keeps the loop alive.
SendsAreWatched ==
  /\ sendCount = Len(sendQueue) + Len(sentQueue)
  /\ sendQueue # <<>> /\ ~udpClosing => "out" \in wants
  /\ sentQueue # <<>> => udpFed \/ processing \/ udpClosing
  /\ wants # {} => udpActive /\ udpOpen

\* Datagrams leave in the order of the calls, those of uv_udp_try_send() too, the
\* requests are replied in that order, and all of them before the close callback.
DatagramsKeepOrder ==
  /\ IsPrefix(departed, given) /\ IsPrefix(replied, asked)
  /\ udpClosed => replied = asked

\* Requests that were sent, and a handle that is being closed, have yet to be called.
UdpIsOwed == sentQueue # <<>> \/ (udpClosing /\ ~udpClosed)
=============================================================================
