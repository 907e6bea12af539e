------------------------------ MODULE UvServer ------------------------------
(***************************************************************************)
(* A listening stream of libuv (uv__server_io() and uv_accept() in         *)
(* src/unix/stream.c).  One accepted connection at a time is parked in the *)
(* handle until the user takes it, and as long as nobody is told of the    *)
(* next.  When the process has no descriptor left, a spare one is given up *)
(* to accept what waits and close it again.                                *)
(***************************************************************************)
EXTENDS Naturals, FiniteSets

CONSTANTS Conns,      \* connections that clients make
          NoConn,     \* accepted_fd = -1
          MaxFiles    \* descriptors the process may have for what is modelled here

ASSUME ServerAssumption == IsFiniteSet(Conns) /\ NoConn \notin Conns /\ MaxFiles \in Nat

VARIABLES
  listening,      \* uv_listen() has been called
  watchesServer,  \* POLLIN of the server's watcher
  backlog,        \* connections that the kernel holds
  accepted,       \* accepted_fd
  owned,          \* connections that the user's handles have
  dropped,        \* connections that were closed
  spare,          \* loop->emfile_fd is open
  elsewhere,      \* another thread holds a descriptor more
  connecting,     \* connection_cb runs
  serverClosing,
  misused         \* history: see ServerListens

files == <<spare, elsewhere>>
serverVars == <<listening, watchesServer, backlog, accepted, owned, dropped, files,
                connecting, serverClosing, misused>>

Count(b) == IF b THEN 1 ELSE 0

FilesOpen == Cardinality(owned) + Count(accepted # NoConn) + Count(spare) + Count(elsewhere)

ServerTypeOK ==
  /\ listening \in BOOLEAN /\ watchesServer \in BOOLEAN
  /\ backlog \in SUBSET Conns /\ accepted \in Conns \cup {NoConn}
  /\ owned \in SUBSET Conns /\ dropped \in SUBSET Conns
  /\ spare \in BOOLEAN /\ elsewhere \in BOOLEAN /\ connecting \in BOOLEAN
  /\ serverClosing \in BOOLEAN
  /\ misused \in SUBSET {"listenedTwice", "acceptFailed"}

ServerInit ==
  /\ listening = FALSE /\ watchesServer = FALSE
  /\ backlog = {} /\ accepted = NoConn /\ owned = {} /\ dropped = {}
  /\ spare = (MaxFiles > 0) /\ elsewhere = FALSE
  /\ connecting = FALSE /\ serverClosing = FALSE /\ misused = {}

-----------------------------------------------------------------------------
\* The user, in connection_cb or not.

\* uv_listen(), uv__tcp_listen(); nothing keeps it from being called again.
Listen ==
  /\ ~serverClosing
  /\ listening' = TRUE /\ watchesServer' = TRUE
  /\ misused' = IF accepted = NoConn \/ connecting THEN misused
              ELSE misused \cup {"listenedTwice"}
  /\ UNCHANGED <<backlog, accepted, owned, dropped, files, connecting, serverClosing>>

\* uv_accept(); only if it succeeds the server is watched again.
AcceptSucceeds ==
  /\ accepted # NoConn
  /\ owned' = owned \cup {accepted} /\ accepted' = NoConn
  /\ watchesServer' = TRUE
  /\ UNCHANGED <<listening, backlog, dropped, files, connecting, serverClosing, misused>>

\* The client handle has a descriptor already, or an option cannot be set.
AcceptFails ==
  /\ accepted # NoConn
  /\ dropped' = dropped \cup {accepted} /\ accepted' = NoConn
  /\ misused' = IF watchesServer THEN misused ELSE misused \cup {"acceptFailed"}
  /\ UNCHANGED <<listening, watchesServer, backlog, owned, files, connecting,
                 serverClosing>>

\* uv__stream_init() of any stream sees to it that there is a spare descriptor.
InitsStream ==
  /\ ~spare /\ FilesOpen < MaxFiles /\ spare' = TRUE
  /\ UNCHANGED <<listening, watchesServer, backlog, accepted, owned, dropped, elsewhere,
                 connecting, serverClosing, misused>>

ClosesConn(c) ==
  /\ c \in owned /\ owned' = owned \ {c} /\ dropped' = dropped \cup {c}
  /\ UNCHANGED <<listening, watchesServer, backlog, accepted, files, connecting,
                 serverClosing, misused>>

\* uv__stream_close(); the kernel drops what the descriptor had in store.
CloseServer ==
  /\ ~serverClosing /\ serverClosing' = TRUE /\ watchesServer' = FALSE
  /\ dropped' = dropped \cup backlog \cup ({accepted} \ {NoConn})
  /\ backlog' = {} /\ accepted' = NoConn
  /\ UNCHANGED <<listening, owned, files, connecting, misused>>

-----------------------------------------------------------------------------
\* Others.

ConnArrives(c) ==
  /\ listening /\ ~serverClosing /\ c \notin backlog \cup owned \cup dropped \cup {accepted}
  /\ backlog' = backlog \cup {c}
  /\ UNCHANGED <<listening, watchesServer, accepted, owned, dropped, files, connecting,
                 serverClosing, misused>>

OthersOpenOrClose ==
  /\ elsewhere \/ FilesOpen < MaxFiles
  /\ elsewhere' = ~elsewhere
  /\ UNCHANGED <<listening, watchesServer, backlog, accepted, owned, dropped, spare,
                 connecting, serverClosing, misused>>

-----------------------------------------------------------------------------
\* The loop: uv__server_io().

ServerIsCalled == watchesServer /\ backlog # {} /\ ~connecting

AcceptsConn(c) ==
  /\ ServerIsCalled /\ c \in backlog /\ FilesOpen < MaxFiles
  /\ accepted' = c /\ backlog' = backlog \ {c} /\ connecting' = TRUE
  /\ UNCHANGED <<listening, watchesServer, owned, dropped, files, serverClosing, misused>>

\* uv__emfile_trick(): what waits is accepted and closed, one by one, and the spare
\* descriptor opened again; an error of accept() ends it early, and another thread may
\* be faster to take the descriptor, before, in between or after.
ShedsLoad ==
  /\ ServerIsCalled /\ FilesOpen >= MaxFiles /\ spare
  /\ \E shed \in SUBSET backlog : dropped' = dropped \cup shed /\ backlog' = backlog \ shed
  /\ elsewhere' \in {elsewhere, TRUE}
  /\ spare' = (elsewhere' = elsewhere)
  /\ UNCHANGED <<listening, watchesServer, accepted, owned, connecting, serverClosing,
                 misused>>

\* connection_cb returns: if the user has not yet called uv_accept() nobody is told
\* of another connection until it does.
ConnectionCbReturns ==
  /\ connecting /\ connecting' = FALSE
  /\ watchesServer' = (watchesServer /\ accepted = NoConn)
  /\ UNCHANGED <<listening, backlog, accepted, owned, dropped, files, serverClosing, misused>>

ServerLoop == ShedsLoad \/ ConnectionCbReturns \/ \E c \in Conns : AcceptsConn(c)

ServerNext == \/ Listen \/ AcceptSucceeds \/ AcceptFails \/ InitsStream \/ CloseServer
              \/ OthersOpenOrClose \/ ServerLoop
              \/ \E c \in Conns : ConnArrives(c) \/ ClosesConn(c)

ServerSpec == ServerInit /\ [][ServerNext]_serverVars

-----------------------------------------------------------------------------
\* Properties.

\* A server that listens is told of connections, or has one parked and is not told,
\* so that accepted_fd is -1 when uv__server_io() asserts it.  Two calls of the user
\* break it: uv_listen() again while a connection is parked, and a uv_accept() that
\* fails after the callback has returned, which leaves the server deaf for good.
ServerListens ==
  /\ "acceptFailed" \notin misused =>
       (listening /\ ~serverClosing => watchesServer \/ accepted # NoConn)
  /\ "listenedTwice" \notin misused => ~(ServerIsCalled /\ accepted # NoConn)
=============================================================================
