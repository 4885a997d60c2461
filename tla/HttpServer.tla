----------------------------- MODULE HttpServer -----------------------------
(***************************************************************************)
(* serve_http() (src/server/Http.cpp) and ProtocolService::respond()       *)
(* (src/server/Server.cpp): connections served by a pool of threads, MCP   *)
(* sessions shared by all of them, and a main thread that polls, expires   *)
(* connections and finally stops the server.                               *)
(*                                                                         *)
(* One mutex guards the sessions for the whole of a request; a tool call   *)
(* takes time, everything else under that mutex is one action.  Another    *)
(* guards the table of sockets.  A client is anybody with the token: it    *)
(* sends any request it can name, on any connection, or nothing at all.    *)
(* Times are ages that stop growing where they no longer matter.           *)
(***************************************************************************)
EXTENDS Integers, FiniteSets, Sequences

CONSTANTS
  Conns,        \* bound: the connections ever made
  Fds,          \* descriptors the kernel gives to them
  Workers,      \* threads of the pool
  Backlog,      \* connections that may wait for one
  Lifetime,     \* age at which a connection is shut down
  MaxSessions,  \* sessions at a time
  Idle,         \* age beyond which an unused session is forgotten
  MaxSessionIds,\* bound: sessions ever opened
  MaxRequests,  \* bound: requests ever sent
  Requests      \* what clients send, apart from the session

Ids       == 1..MaxSessionIds
NoSession == 0
NoConn    == "none"
NoFd      == "none"
Revisions == {"2025-06-18", "2025-11-25"}
Kinds     == {"get", "delete", "malformed", "initialize", "bad initialize", "initialized", "tool"}

RequestType ==
  [kind : Kinds, header : Revisions \cup {"none", "unsupported"},
   revision : Revisions \cup {"older"}]

ASSUME HttpAssumption ==
  /\ \A n \in {Workers, Lifetime, MaxSessions, MaxSessionIds} : n \in Nat \ {0}
  /\ Backlog \in Nat /\ Idle \in Nat /\ MaxRequests \in Nat
  /\ Requests \subseteq RequestType
  /\ NoConn \notin Conns /\ NoFd \notin Fds

VARIABLES
  listening,  \* the listener thread accepts connections
  queue,      \* the pool's tasks, connections without a thread
  conns,      \* connections and the threads that serve them
  sockets,    \* sockets_: how long ago each descriptor was entered, Absent if it is not
  stopping,   \* stopping_
  main,       \* where the main thread is
  sessions,   \* session of each ID handed out so far
  minted,     \* IDs handed out
  agreed,     \* Impl::protocol_version, what the tools report
  busy,       \* who holds the sessions' mutex across a tool call
  asked       \* requests sent so far

vars == <<listening, queue, conns, sockets, stopping, main, sessions, minted, agreed, busy,
          asked>>

Absent    == -1
NoRequest == [kind |-> "none", header |-> "none", revision |-> "none", session |-> NoSession]
NewConn   == [pc |-> "new", fd |-> NoFd, shut |-> FALSE, request |-> NoRequest]
NoEntry   == [phase |-> "absent", revision |-> "none", idle |-> 0]

Open(i) == sessions[i].phase # "absent"
Older(age, limit) == IF age < limit THEN age + 1 ELSE age

-----------------------------------------------------------------------------
(* Connections: the listener, the pool and process_and_close_socket().     *)

NetUnchanged == <<sessions, minted, agreed>>

\* A thread of the pool is with the connection.
Served(c) == conns[c].pc \in {"reading", "waiting", "inside", "closing"}

FdFree(f) == \A c \in Conns : conns[c].pc = "done" \/ conns[c].fd # f

\* The listener accepts; a full queue closes the connection.
Accept(c, f) ==
  /\ listening /\ conns[c].pc = "new" /\ FdFree(f)
  /\ IF Len(queue) < Backlog
     THEN /\ conns' = [conns EXCEPT ![c].pc = "queued", ![c].fd = f]
          /\ queue' = Append(queue, c)
     ELSE conns' = [conns EXCEPT ![c].pc = "done"] /\ UNCHANGED queue
  /\ UNCHANGED <<listening, sockets, stopping, main, busy, asked, NetUnchanged>>

\* A thread takes the connection; one that comes too late is closed at once.
Register(c) ==
  /\ queue # <<>> /\ Head(queue) = c
  /\ Cardinality({d \in Conns : Served(d)}) < Workers
  /\ queue' = Tail(queue)
  /\ IF stopping
     THEN conns' = [conns EXCEPT ![c].pc = "done"] /\ UNCHANGED sockets
     ELSE /\ conns' = [conns EXCEPT ![c].pc = "reading"]
          /\ sockets' = [sockets EXCEPT ![conns[c].fd] = IF @ = Absent THEN 0 ELSE @]
  /\ UNCHANGED <<listening, stopping, main, busy, asked, NetUnchanged>>

\* Requests on their way that may open a session.
Opening ==
  {c \in Conns : conns[c].request.kind = "initialize" /\ conns[c].request.session = NoSession}

\* A request arrives whole, passes the token check and is routed to /mcp.
Ask(c, r, session) ==
  /\ conns[c].pc = "reading" /\ ~conns[c].shut
  /\ asked < MaxRequests /\ asked' = asked + 1
  /\ r.kind = "initialize" /\ session = NoSession => minted + Cardinality(Opening) < MaxSessionIds
  /\ conns' = [conns EXCEPT ![c].pc = "waiting",
                            ![c].request = [kind |-> r.kind, header |-> r.header,
                                            revision |-> r.revision, session |-> session]]
  /\ UNCHANGED <<listening, queue, sockets, stopping, main, busy, NetUnchanged>>

\* The client goes, is too slow for the library, or the socket was shut down.
Leave(c) ==
  /\ conns[c].pc = "reading"
  /\ conns' = [conns EXCEPT ![c].pc = "closing"]
  /\ UNCHANGED <<listening, queue, sockets, stopping, main, busy, asked, NetUnchanged>>

\* Mutant: the descriptor stays in the table.
CloseMutant(c) ==
  /\ conns[c].pc = "closing"
  /\ conns' = [conns EXCEPT ![c].pc = "done"]
  /\ UNCHANGED <<listening, queue, sockets, stopping, main, busy, asked, NetUnchanged>>

\* The table forgets the descriptor before the kernel may give it out again.
Close(c) ==
  /\ conns[c].pc = "closing"
  /\ conns' = [conns EXCEPT ![c].pc = "done"]
  /\ sockets' = [sockets EXCEPT ![conns[c].fd] = Absent]
  /\ UNCHANGED <<listening, queue, stopping, main, busy, asked, NetUnchanged>>

-----------------------------------------------------------------------------
(* The main thread.                                                        *)

MainUnchanged == <<queue, minted, agreed, sessions, busy, asked>>

\* shutdown(fd) reaches whoever has the descriptor now.
ShutDown(fds) ==
  conns' = [c \in Conns |-> IF conns[c].fd \in fds /\ conns[c].pc # "done"
                            THEN [conns[c] EXCEPT !.shut = TRUE] ELSE conns[c]]

Entered == {f \in Fds : sockets[f] # Absent}

Expire ==
  /\ main = "polling"
  /\ ShutDown({f \in Entered : sockets[f] >= Lifetime})
  /\ UNCHANGED <<listening, sockets, stopping, main, MainUnchanged>>

Signal ==
  /\ main = "polling" /\ main' = "stop"
  /\ UNCHANGED <<listening, conns, sockets, stopping, MainUnchanged>>

\* server.stop() closes the listener only.
StopListening ==
  /\ main = "stop" /\ main' = "expire"
  /\ listening' = FALSE
  /\ UNCHANGED <<conns, sockets, stopping, MainUnchanged>>

\* Mutant: the connections that still wait for a thread are forgotten.
ExpireAllMutant ==
  /\ main = "expire" /\ main' = "join"
  /\ ShutDown(Entered)
  /\ UNCHANGED <<listening, sockets, stopping, MainUnchanged>>

ExpireAll ==
  /\ main = "expire" /\ main' = "join"
  /\ stopping' = TRUE
  /\ ShutDown(Entered)
  /\ UNCHANGED <<listening, sockets, MainUnchanged>>

\* The listener thread ends when the pool has no task left.
Join ==
  /\ main = "join" /\ main' = "shutdown"
  /\ \A c \in Conns : conns[c].pc \in {"new", "done"}
  /\ UNCHANGED <<listening, conns, sockets, stopping, MainUnchanged>>

\* service.shutdown()
Shutdown ==
  /\ main = "shutdown" /\ main' = "done"
  /\ UNCHANGED <<listening, conns, sockets, stopping, MainUnchanged>>

-----------------------------------------------------------------------------
(* The endpoint.                                                           *)

ServiceUnchanged == <<listening, queue, sockets, stopping, main, asked>>

\* Sessions idle for too long are forgotten whenever a request comes in.
Swept == [i \in Ids |-> IF Open(i) /\ sessions[i].idle > Idle THEN NoEntry ELSE sessions[i]]

OpenIn(ss) == {i \in Ids : ss[i].phase # "absent"}

\* The request gets the mutex.
Enter(c) == conns[c].pc = "waiting" /\ busy = NoConn

Reply(c) == conns' = [conns EXCEPT ![c].pc = "reading", ![c].request = NoRequest]

\* A request with a session header names an open session and its revision.
Admitted(r) ==
  /\ r.header # "unsupported"
  /\ r.session # NoSession =>
       r.session \in OpenIn(Swept) /\ r.header \in {"none", Swept[r.session].revision}

Touched(r) ==
  IF r.session = NoSession THEN Swept ELSE [Swept EXCEPT ![r.session].idle = 0]

PhaseOf(r) == IF r.session = NoSession THEN "new" ELSE sessions[r.session].phase

\* 400 or 404: only the expiry has happened.
EndpointRefuses(c) ==
  /\ Enter(c) /\ ~Admitted(conns[c].request)
  /\ sessions' = Swept
  /\ Reply(c)
  /\ UNCHANGED <<minted, agreed, busy, ServiceUnchanged>>

Endpoint(c, kind) ==
  /\ Enter(c) /\ Admitted(conns[c].request) /\ conns[c].request.kind = kind

\* 405, 415, 406 and JSON-RPC errors leave the session as it is; so does a
\* notification nobody expects.
EndpointIgnores(c) ==
  /\ LET r == conns[c].request
     IN /\ \/ \E kind \in {"get", "malformed", "bad initialize"} : Endpoint(c, kind)
           \/ Endpoint(c, "delete") /\ PhaseOf(r) = "new"
           \/ Endpoint(c, "initialize") /\ PhaseOf(r) # "new"
           \/ Endpoint(c, "initialized") /\ PhaseOf(r) # "initialized"
           \/ Endpoint(c, "tool") /\ PhaseOf(r) # "ready"
        /\ sessions' = Touched(r)
  /\ Reply(c)
  /\ UNCHANGED <<minted, agreed, busy, ServiceUnchanged>>

EndpointDelete(c) ==
  /\ Endpoint(c, "delete") /\ conns[c].request.session # NoSession
  /\ sessions' = [Swept EXCEPT ![conns[c].request.session] = NoEntry]
  /\ Reply(c)
  /\ UNCHANGED <<minted, agreed, busy, ServiceUnchanged>>

\* 503
EndpointFull(c) ==
  /\ Endpoint(c, "initialize") /\ conns[c].request.session = NoSession
  /\ Cardinality(OpenIn(Swept)) >= MaxSessions
  /\ sessions' = Swept
  /\ Reply(c)
  /\ UNCHANGED <<minted, agreed, busy, ServiceUnchanged>>

\* Any revision but the older supported one is answered with the latest.
Negotiated(r) == IF r.revision = "2025-06-18" THEN "2025-06-18" ELSE "2025-11-25"

\* The fresh session becomes one of the table; its revision is not agreed yet
\* when respond() copies it.
EndpointInitialize(c) ==
  /\ Endpoint(c, "initialize") /\ conns[c].request.session = NoSession
  /\ Cardinality(OpenIn(Swept)) < MaxSessions
  /\ minted' = minted + 1
  /\ sessions' = [Swept EXCEPT ![minted + 1] =
                    [phase |-> "initialized", revision |-> Negotiated(conns[c].request), idle |-> 0]]
  /\ agreed' = "none"
  /\ Reply(c)
  /\ UNCHANGED <<busy, ServiceUnchanged>>

EndpointInitialized(c) ==
  /\ Endpoint(c, "initialized") /\ PhaseOf(conns[c].request) = "initialized"
  /\ sessions' = [Touched(conns[c].request) EXCEPT ![conns[c].request.session].phase = "ready"]
  /\ Reply(c)
  /\ UNCHANGED <<minted, agreed, busy, ServiceUnchanged>>

\* Mutant: the revision is the one negotiated last.
ToolBeginsMutant(c) ==
  /\ Endpoint(c, "tool") /\ PhaseOf(conns[c].request) = "ready"
  /\ sessions' = Touched(conns[c].request)
  /\ busy' = c
  /\ conns' = [conns EXCEPT ![c].pc = "inside"]
  /\ UNCHANGED <<minted, agreed, ServiceUnchanged>>

\* A tool call holds the mutex until it returns.
ToolBegins(c) ==
  /\ Endpoint(c, "tool") /\ PhaseOf(conns[c].request) = "ready"
  /\ sessions' = Touched(conns[c].request)
  /\ agreed' = sessions[conns[c].request.session].revision
  /\ busy' = c
  /\ conns' = [conns EXCEPT ![c].pc = "inside"]
  /\ UNCHANGED <<minted, ServiceUnchanged>>

ToolReturns(c) ==
  /\ busy = c /\ busy' = NoConn
  /\ Reply(c)
  /\ UNCHANGED <<sessions, minted, agreed, ServiceUnchanged>>

-----------------------------------------------------------------------------
Init ==
  /\ listening = TRUE /\ queue = <<>>
  /\ conns = [c \in Conns |-> NewConn]
  /\ sockets = [f \in Fds |-> Absent]
  /\ stopping = FALSE /\ main = "polling"
  /\ sessions = [i \in Ids |-> NoEntry]
  /\ minted = 0 /\ agreed = "none" /\ busy = NoConn
  /\ asked = 0

Tick ==
  /\ main # "done"
  /\ sockets' = [f \in Fds |-> IF sockets[f] = Absent THEN Absent ELSE Older(sockets[f], Lifetime)]
  /\ sessions' = [i \in Ids |-> IF Open(i) THEN [sessions[i] EXCEPT !.idle = Older(@, Idle + 1)]
                                ELSE sessions[i]]
  /\ UNCHANGED <<listening, queue, conns, stopping, main, minted, agreed, busy, asked>>

Main == Expire \/ StopListening \/ ExpireAll \/ Join \/ Shutdown

\* What the thread of a connection does by itself.
Serve(c) ==
  \/ Register(c) \/ Close(c)
  \/ EndpointRefuses(c) \/ EndpointIgnores(c) \/ EndpointDelete(c) \/ EndpointFull(c)
  \/ EndpointInitialize(c) \/ EndpointInitialized(c) \/ ToolBegins(c) \/ ToolReturns(c)

\* The server has returned.
AtRest == main = "done" /\ UNCHANGED vars

Next ==
  \/ Tick \/ Main \/ Signal \/ AtRest
  \/ \E c \in Conns :
       \/ Serve(c) \/ Leave(c)
       \/ \E f \in Fds : Accept(c, f)
       \/ \E r \in Requests, i \in 0..minted : Ask(c, r, i)

Spec == Init /\ [][Next]_vars

-----------------------------------------------------------------------------
\* The table of sockets holds the descriptors of the connections that are being
\* served and no other, so that an expiry never hits a stranger that was given
\* the same number, and never before its time.
SocketsOwned ==
  /\ Entered = {conns[c].fd : c \in {d \in Conns : Served(d)}}
  /\ \A c \in Conns : conns[c].shut => conns[c].fd \in Entered \/ conns[c].pc = "done"

\* A tool runs only for a session that was initialized, announced itself and is
\* still open, reports the revision that session agreed on whatever the others
\* negotiate in between, and keeps its session from expiring under it.
ToolInItsSession ==
  \A c \in Conns : conns[c].pc = "inside" =>
    LET s == conns[c].request.session
    IN /\ s \in OpenIn(sessions)
       /\ sessions[s].phase = "ready" /\ agreed = sessions[s].revision

\* Once the main thread waits for the pool no client can hold it up: every
\* connection still served has lost its socket, also one that was waiting for a
\* thread, or had just been given one, when the signal came; and the jobs are
\* shut down only when no request can start another.
NobodyHoldsTheStop ==
  /\ main = "join" => \A c \in Conns : Served(c) => conns[c].shut
  /\ main \in {"shutdown", "done"} => \A c \in Conns : ~Served(c) /\ conns[c].pc # "queued"

-----------------------------------------------------------------------------
(* The inductive invariant behind the three.                               *)

Pcs   == {"new", "queued", "reading", "waiting", "inside", "closing", "done"}
Mains == {"polling", "stop", "expire", "join", "shutdown", "done"}

RoutedType ==
  [kind : Kinds \cup {"none"}, header : Revisions \cup {"none", "unsupported"},
   revision : Revisions \cup {"older", "none"}, session : Nat]

ConnType == [pc : Pcs, fd : Fds \cup {NoFd}, shut : BOOLEAN, request : RoutedType]

SessionType ==
  [phase : {"absent", "initialized", "ready"}, revision : Revisions \cup {"none"}, idle : Nat]

TypeOK ==
  /\ listening \in BOOLEAN /\ stopping \in BOOLEAN /\ main \in Mains
  /\ queue \in Seq(Conns)
  /\ conns \in [Conns -> ConnType]
  /\ sockets \in [Fds -> Nat \cup {Absent}]
  /\ sessions \in [Ids -> SessionType]
  /\ minted \in Nat

\* The connection holds a descriptor of its own.
Alive(c) == conns[c].pc \notin {"new", "done"}

ConnInv ==
  \A c \in Conns :
    /\ conns[c].pc = "new" => conns[c].fd = NoFd
    /\ Alive(c) => conns[c].fd \in Fds
    /\ conns[c].shut => Served(c) \/ conns[c].pc = "done"
    /\ \A d \in Conns : Alive(c) /\ Alive(d) /\ conns[c].fd = conns[d].fd => c = d

\* The pool's tasks are connections nobody serves, each of them once.
QueueInv ==
  /\ \A i \in 1..Len(queue) : conns[queue[i]].pc = "queued"
  /\ \A i, k \in 1..Len(queue) : queue[i] = queue[k] => i = k

\* Only the connection whose tool runs holds the sessions' mutex.
BusyInv == \A c \in Conns : conns[c].pc = "inside" <=> busy = c

StopInv ==
  /\ main \in {"expire", "join", "shutdown", "done"} => ~listening
  /\ main \in {"join", "shutdown", "done"} => stopping

IInv == /\ TypeOK /\ ConnInv /\ QueueInv /\ BusyInv /\ StopInv
        /\ SocketsOwned /\ ToolInItsSession /\ NobodyHoldsTheStop
=============================================================================
