------------------------------ MODULE HttpProofs ------------------------------
(***************************************************************************)
(* What HttpServer checks on a small instance, for any number of           *)
(* connections, descriptors, threads, sessions and requests: the table of  *)
(* sockets, the session of a tool call and the order of the shutdown.      *)
(*                                                                         *)
(* IInv (in HttpServer) is inductive.  Its parts fall into two groups that *)
(* few actions disturb together: where each connection is (Places) and     *)
(* whose tool runs (Tools).                                                *)
(***************************************************************************)
EXTENDS HttpServer, TLAPS

ServedPcs == {"reading", "waiting", "inside", "closing"}

Places == ConnInv /\ QueueInv /\ StopInv /\ SocketsOwned /\ NobodyHoldsTheStop
Tools  == BusyInv /\ ToolInItsSession

-----------------------------------------------------------------------------
(* Types.                                                                  *)

LEMMA RequestKept ==
  ASSUME TypeOK, NEW c \in Conns
  PROVE  conns[c] \in ConnType /\ conns[c].request \in RoutedType
BY DEF TypeOK, ConnType

LEMMA NoEntryType == NoEntry \in SessionType /\ NoRequest \in RoutedType
BY DEF NoEntry, SessionType, NoRequest, RoutedType, NoSession

LEMMA SweptType ==
  ASSUME TypeOK
  PROVE  /\ Swept \in [Ids -> SessionType]
         /\ \A i \in OpenIn(Swept) : i \in Ids /\ Swept[i] = sessions[i]
<1>1. \A i \in Ids : Swept[i] = sessions[i] \/ Swept[i] = NoEntry
  BY DEF Swept
<1>2. Swept \in [Ids -> SessionType]
  BY NoEntryType DEF Swept, TypeOK
<1> QED
  BY <1>1, <1>2 DEF OpenIn, NoEntry

LEMMA TouchedType ==
  ASSUME TypeOK, NEW r
  PROVE  Touched(r) \in [Ids -> SessionType]
BY SweptType DEF Touched, SessionType

\* A connection that was replied to, asked, or moved on.
LEMMA ConnsType ==
  ASSUME TypeOK, NEW c \in Conns, NEW pc \in Pcs, NEW request \in RoutedType
  PROVE  [conns EXCEPT ![c].pc = pc, ![c].request = request] \in [Conns -> ConnType]
BY DEF TypeOK, ConnType

LEMMA MovedType ==
  ASSUME TypeOK, NEW c \in Conns, NEW pc \in Pcs
  PROVE  [conns EXCEPT ![c].pc = pc] \in [Conns -> ConnType]
BY DEF TypeOK, ConnType

LEMMA ReplyType ==
  ASSUME TypeOK, NEW c \in Conns, Reply(c)
  PROVE  conns' \in [Conns -> ConnType]
BY ConnsType, NoEntryType DEF Reply, Pcs

LEMMA ShutDownType ==
  ASSUME TypeOK, NEW fds, ShutDown(fds)
  PROVE  conns' \in [Conns -> ConnType]
BY DEF TypeOK, ConnType, ShutDown

LEMMA TypeEndpoint ==
  ASSUME TypeOK, NEW c \in Conns,
         \/ EndpointRefuses(c) \/ EndpointIgnores(c) \/ EndpointDelete(c) \/ EndpointFull(c)
         \/ EndpointInitialize(c) \/ EndpointInitialized(c) \/ ToolBegins(c) \/ ToolReturns(c)
  PROVE  TypeOK'
<1> DEFINE r == conns[c].request
<1>1. /\ Swept \in [Ids -> SessionType] /\ Touched(r) \in [Ids -> SessionType]
      /\ r \in RoutedType
  BY SweptType, TouchedType, RequestKept
<1>2. UNCHANGED ServiceUnchanged
  BY DEF EndpointRefuses, EndpointIgnores, EndpointDelete, EndpointFull, EndpointInitialize,
         EndpointInitialized, ToolBegins, ToolReturns
<1>3. conns' \in [Conns -> ConnType]
  <2>1. CASE Reply(c)
    BY <2>1, ReplyType
  <2>2. CASE conns' = [conns EXCEPT ![c].pc = "inside"]
    BY <2>2, MovedType DEF Pcs
  <2> QED
    BY <2>1, <2>2 DEF EndpointRefuses, EndpointIgnores, EndpointDelete, EndpointFull,
                      EndpointInitialize, EndpointInitialized, ToolBegins, ToolReturns
<1>4. sessions' \in [Ids -> SessionType]
  <2>1. CASE EndpointDelete(c)
    BY <1>1, <2>1, NoEntryType DEF EndpointDelete
  <2>2. CASE EndpointInitialize(c)
    <3>1. [phase |-> "initialized", revision |-> Negotiated(r), idle |-> 0] \in SessionType
      BY DEF Negotiated, SessionType, Revisions
    <3> QED
      BY <1>1, <2>2, <3>1 DEF EndpointInitialize
  <2>3. CASE EndpointInitialized(c)
    BY <1>1, <2>3 DEF EndpointInitialized, SessionType
  <2>4. CASE ToolReturns(c)
    BY <2>4 DEF ToolReturns, TypeOK
  <2>5. CASE EndpointRefuses(c) \/ EndpointIgnores(c) \/ EndpointFull(c) \/ ToolBegins(c)
    BY <1>1, <2>5 DEF EndpointRefuses, EndpointIgnores, EndpointFull, ToolBegins
  <2> QED
    BY <2>1, <2>2, <2>3, <2>4, <2>5
<1>5. minted' \in Nat
  <2>1. minted' = minted \/ minted' = minted + 1
    BY DEF EndpointRefuses, EndpointIgnores, EndpointDelete, EndpointFull,
           EndpointInitialize, EndpointInitialized, ToolBegins, ToolReturns
  <2> QED
    BY <2>1 DEF TypeOK
<1> QED
  BY <1>2, <1>3, <1>4, <1>5 DEF TypeOK, ServiceUnchanged

LEMMA TypeConnections ==
  ASSUME TypeOK, NEW c \in Conns, Register(c) \/ Close(c) \/ Leave(c)
  PROVE  TypeOK'
<1>1. conns' \in [Conns -> ConnType]
  <2>1. PICK pc \in Pcs : conns' = [conns EXCEPT ![c].pc = pc]
    BY DEF Register, Close, Leave, Pcs
  <2> QED
    BY <2>1, MovedType
<1>2. queue' \in Seq(Conns)
  <2>1. CASE Register(c)
    BY <2>1 DEF Register, TypeOK
  <2> QED
    BY <2>1 DEF Close, Leave, TypeOK
<1>3. sockets' \in [Fds -> Nat \cup {Absent}]
  BY DEF Register, Close, Leave, TypeOK, Absent
<1> QED
  BY <1>1, <1>2, <1>3 DEF Register, Close, Leave, TypeOK, NetUnchanged

LEMMA TypeAccept ==
  ASSUME TypeOK, NEW c \in Conns, NEW f \in Fds, Accept(c, f)
  PROVE  TypeOK'
<1>1. CASE Len(queue) < Backlog
  <2>1. conns' = [conns EXCEPT ![c].pc = "queued", ![c].fd = f] /\ queue' = Append(queue, c)
    BY <1>1 DEF Accept
  <2>2. conns' \in [Conns -> ConnType]
    BY <2>1 DEF TypeOK, ConnType, Pcs
  <2>3. queue' \in Seq(Conns)
    BY <2>1 DEF TypeOK
  <2> QED
    BY <2>2, <2>3 DEF Accept, TypeOK, NetUnchanged
<1>2. CASE ~(Len(queue) < Backlog)
  <2>1. conns' \in [Conns -> ConnType] /\ queue' = queue
    BY <1>2, MovedType DEF Accept, Pcs
  <2> QED
    BY <2>1 DEF Accept, TypeOK, NetUnchanged
<1> QED
  BY <1>1, <1>2

LEMMA TypeAsk ==
  ASSUME TypeOK, NEW c \in Conns, NEW r \in Requests, NEW i \in 0..minted, Ask(c, r, i)
  PROVE  TypeOK'
<1> DEFINE request == [kind |-> r.kind, header |-> r.header, revision |-> r.revision, session |-> i]
<1>1. r \in RequestType /\ i \in Nat
  BY HttpAssumption DEF TypeOK
<1>2. request \in RoutedType
  BY <1>1 DEF RequestType, RoutedType
<1>3. conns' = [conns EXCEPT ![c].pc = "waiting", ![c].request = request]
  BY DEF Ask
<1> HIDE DEF request
<1>4. conns' \in [Conns -> ConnType]
  BY <1>2, <1>3, ConnsType DEF Pcs
<1> QED
  BY <1>4 DEF Ask, TypeOK, NetUnchanged

LEMMA TypeMain ==
  ASSUME TypeOK, Main \/ Signal
  PROVE  TypeOK'
<1>1. conns' \in [Conns -> ConnType]
  BY ShutDownType DEF TypeOK, Main, Signal, Expire, StopListening, ExpireAll, Join, Shutdown
<1> QED
  BY <1>1 DEF TypeOK, Main, Signal, Expire, StopListening, ExpireAll, Join, Shutdown, Mains,
              MainUnchanged

LEMMA TypeTick ==
  ASSUME TypeOK, Tick
  PROVE  TypeOK'
<1>1. sockets' \in [Fds -> Nat \cup {Absent}]
  BY HttpAssumption DEF Tick, TypeOK, Older
<1>2. \A i \in Ids : [sessions[i] EXCEPT !.idle = Older(@, Idle + 1)] \in SessionType
  <2> SUFFICES ASSUME NEW i \in Ids
               PROVE  [sessions[i] EXCEPT !.idle = Older(@, Idle + 1)] \in SessionType
    OBVIOUS
  <2>1. sessions[i] \in SessionType
    BY DEF TypeOK
  <2>2. Older(sessions[i].idle, Idle + 1) \in Nat
    BY <2>1, HttpAssumption DEF SessionType, Older
  <2> QED
    BY <2>1, <2>2 DEF SessionType
<1>3. sessions' \in [Ids -> SessionType]
  BY <1>2 DEF Tick, TypeOK
<1> QED
  BY <1>1, <1>3 DEF Tick, TypeOK

LEMMA TypeStep ==
  ASSUME TypeOK, [Next]_vars
  PROVE  TypeOK'
<1>1. CASE UNCHANGED vars
  BY <1>1 DEF vars, TypeOK
<1>2. CASE Tick
  BY <1>2, TypeTick
<1>3. CASE Main \/ Signal
  BY <1>3, TypeMain
<1>4. ASSUME NEW c \in Conns, Serve(c) \/ Leave(c) PROVE TypeOK'
  BY <1>4, TypeConnections, TypeEndpoint DEF Serve
<1>5. ASSUME NEW c \in Conns, NEW f \in Fds, Accept(c, f) PROVE TypeOK'
  BY <1>5, TypeAccept
<1>6. ASSUME NEW c \in Conns, NEW r \in Requests, NEW i \in 0..minted, Ask(c, r, i) PROVE TypeOK'
  BY <1>6, TypeAsk
<1> QED
  BY <1>1, <1>2, <1>3, <1>4, <1>5, <1>6 DEF Next, AtRest

-----------------------------------------------------------------------------
(* Where each connection is.                                               *)

\* Nothing moves to or from a thread, and the table keeps its descriptors.
LEMMA PlacesKept ==
  ASSUME Places,
         \A c \in Conns :
           /\ conns'[c].fd = conns[c].fd /\ conns'[c].shut = conns[c].shut
           /\ conns'[c].pc = conns[c].pc \/ {conns[c].pc, conns'[c].pc} \subseteq ServedPcs,
         Entered' = Entered, UNCHANGED <<listening, queue, stopping, main>>,
         queue \in Seq(Conns)
  PROVE  Places'
<1>1. \A c \in Conns : /\ Served(c)' <=> Served(c)
                       /\ Alive(c)' <=> Alive(c)
                       /\ \A pc \in {"new", "queued", "done"} : conns'[c].pc = pc <=> conns[c].pc = pc
  BY DEF Served, Alive, ServedPcs
<1>2. ConnInv'
  BY <1>1 DEF Places, ConnInv
<1>3. QueueInv'
  BY <1>1 DEF Places, QueueInv
<1>4. StopInv'
  BY DEF Places, StopInv
<1>5. SocketsOwned'
  BY <1>1 DEF Places, SocketsOwned
<1>6. NobodyHoldsTheStop'
  BY <1>1 DEF Places, NobodyHoldsTheStop
<1> QED
  BY <1>2, <1>3, <1>4, <1>5, <1>6 DEF Places

\* The requests of a connection and their answers.
LEMMA PlacesServed ==
  ASSUME Places, TypeOK, NEW c \in Conns,
         \/ Leave(c) \/ \E r \in Requests, i \in 0..minted : Ask(c, r, i)
         \/ EndpointRefuses(c) \/ EndpointIgnores(c) \/ EndpointDelete(c) \/ EndpointFull(c)
         \/ EndpointInitialize(c) \/ EndpointInitialized(c) \/ ToolBegins(c)
         \/ ToolReturns(c) /\ BusyInv
  PROVE  Places'
<1>1. UNCHANGED <<listening, queue, sockets, stopping, main>>
  BY DEF Leave, Ask, EndpointRefuses, EndpointIgnores, EndpointDelete, EndpointFull,
         EndpointInitialize, EndpointInitialized, ToolBegins, ToolReturns, ServiceUnchanged
<1>2. /\ conns[c].pc \in ServedPcs
      /\ \E pc \in ServedPcs :
           \/ \E request : conns' = [conns EXCEPT ![c].pc = pc, ![c].request = request]
           \/ conns' = [conns EXCEPT ![c].pc = pc]
  BY DEF Leave, Ask, EndpointRefuses, EndpointIgnores, EndpointDelete, EndpointFull, Endpoint, Enter,
         EndpointInitialize, EndpointInitialized, ToolBegins, ToolReturns, Reply, BusyInv, ServedPcs
<1>3. \A d \in Conns :
        /\ conns'[d].fd = conns[d].fd /\ conns'[d].shut = conns[d].shut
        /\ conns'[d].pc = conns[d].pc \/ {conns[d].pc, conns'[d].pc} \subseteq ServedPcs
  <2>1. PICK pc \in ServedPcs :
          \/ \E request : conns' = [conns EXCEPT ![c].pc = pc, ![c].request = request]
          \/ conns' = [conns EXCEPT ![c].pc = pc]
    BY <1>2
  <2> QED
    BY <1>2, <2>1 DEF TypeOK, ConnType
<1> QED
  BY <1>1, <1>3, PlacesKept DEF Entered, TypeOK

\* The listener gives a queued connection a descriptor that nobody holds.
LEMMA PlacesAccept ==
  ASSUME Places, TypeOK, NEW c \in Conns, NEW f \in Fds, Accept(c, f)
  PROVE  Places'
<1>0. /\ UNCHANGED <<listening, sockets, stopping, main>> /\ listening /\ conns[c].pc = "new"
      /\ \A d \in Conns : Alive(d) => conns[d].fd # f
      /\ ~conns[c].shut /\ c \in Conns /\ ~Served(c) /\ ~Alive(c)
      /\ \A i \in 1..Len(queue) : queue[i] # c
  BY DEF Accept, FdFree, Alive, Served, Places, ConnInv, QueueInv, TypeOK, ConnType
<1>1. CASE Len(queue) < Backlog
  <2>1. /\ conns' = [conns EXCEPT ![c].pc = "queued", ![c].fd = f] /\ queue' = Append(queue, c)
        /\ queue \in Seq(Conns)
    BY <1>1 DEF Accept, TypeOK
  <2>2. /\ \A d \in Conns \ {c} : conns'[d] = conns[d]
        /\ conns'[c].pc = "queued" /\ conns'[c].fd = f /\ ~conns'[c].shut
    BY <1>0, <2>1 DEF TypeOK, ConnType
  <2>3. \A d \in Conns : Served(d)' <=> Served(d) /\ d # c
    BY <1>0, <2>2 DEF Served
  <2>4. ConnInv'
    BY <1>0, <2>2, <2>3 DEF Places, ConnInv, Alive, Served
  <2>5. QueueInv'
    <3>1. /\ Len(queue') = Len(queue) + 1 /\ Len(queue) \in Nat
          /\ \A i \in 1..Len(queue) : queue'[i] = queue[i] /\ queue[i] \in Conns
          /\ queue'[Len(queue) + 1] = c
      BY <2>1
    <3>2. \A i \in 1..Len(queue)' : conns'[queue'[i]].pc = "queued"
      BY <1>0, <2>2, <3>1 DEF Places, QueueInv
    <3>3. \A i, k \in 1..Len(queue)' : queue'[i] = queue'[k] => i = k
      BY <1>0, <3>1 DEF Places, QueueInv
    <3> QED
      BY <3>2, <3>3 DEF QueueInv
  <2>6. SocketsOwned'
    BY <1>0, <2>2, <2>3 DEF Places, SocketsOwned, Entered
  <2>7. NobodyHoldsTheStop' /\ StopInv'
    BY <1>0, <2>2, <2>3 DEF Places, StopInv, NobodyHoldsTheStop
  <2> QED
    BY <2>4, <2>5, <2>6, <2>7 DEF Places
<1>2. CASE ~(Len(queue) < Backlog)
  <2>1. conns' = [conns EXCEPT ![c].pc = "done"] /\ queue' = queue /\ queue \in Seq(Conns)
    BY <1>2 DEF Accept, TypeOK
  <2>2. /\ \A d \in Conns \ {c} : conns'[d] = conns[d]
        /\ conns'[c].pc = "done" /\ ~conns'[c].shut
    BY <1>0, <2>1 DEF TypeOK, ConnType
  <2>3. \A d \in Conns : (Served(d)' <=> Served(d)) /\ (Alive(d)' <=> Alive(d))
    BY <1>0, <2>2 DEF Served, Alive
  <2>4. ConnInv'
    BY <1>0, <2>2, <2>3 DEF Places, ConnInv, Alive, Served
  <2>5. QueueInv'
    BY <1>0, <2>1, <2>2 DEF Places, QueueInv
  <2>6. SocketsOwned'
    BY <1>0, <2>2, <2>3 DEF Places, SocketsOwned, Entered
  <2>7. NobodyHoldsTheStop' /\ StopInv'
    BY <1>0, <2>2, <2>3 DEF Places, StopInv, NobodyHoldsTheStop
  <2> QED
    BY <2>4, <2>5, <2>6, <2>7 DEF Places
<1> QED
  BY <1>1, <1>2

\* A thread takes the oldest task, and enters its descriptor unless it is too late.
LEMMA PlacesRegister ==
  ASSUME Places, TypeOK, NEW c \in Conns, Register(c)
  PROVE  Places'
<1>0. /\ UNCHANGED <<listening, stopping, main>>
      /\ queue \in Seq(Conns) /\ queue # <<>> /\ c = queue[1] /\ queue' = Tail(queue)
      /\ conns[c].pc = "queued" /\ conns[c].fd \in Fds /\ ~conns[c].shut
      /\ ~Served(c) /\ Alive(c) /\ conns[c] \in ConnType
  BY DEF Register, Places, ConnInv, QueueInv, TypeOK, Alive, Served
<1>1. /\ Len(queue) \in Nat \ {0} /\ Len(queue') = Len(queue) - 1
      /\ \A i \in 1..Len(queue') : /\ queue'[i] = queue[i + 1] /\ queue[i + 1] \in Conns
                                   /\ queue'[i] # c
  BY <1>0 DEF Places, QueueInv
<1>2. PICK pc \in {"reading", "done"} : conns' = [conns EXCEPT ![c].pc = pc]
  BY DEF Register
<1>3. /\ \A d \in Conns \ {c} : conns'[d] = conns[d]
      /\ conns'[c].pc = pc /\ conns'[c].fd = conns[c].fd /\ ~conns'[c].shut
  BY <1>0, <1>2 DEF TypeOK, ConnType
<1>4. QueueInv'
  <2>1. \A i \in 1..Len(queue') : conns'[queue'[i]].pc = "queued"
    BY <1>0, <1>1, <1>3 DEF Places, QueueInv
  <2>2. \A i, k \in 1..Len(queue') : queue'[i] = queue'[k] => i = k
    BY <1>0, <1>1 DEF Places, QueueInv
  <2> QED
    BY <2>1, <2>2 DEF QueueInv
<1>5. CASE stopping
  <2>1. pc = "done" /\ UNCHANGED sockets
    BY <1>0, <1>3, <1>5 DEF Register, TypeOK, ConnType
  <2>2. \A d \in Conns : Served(d)' <=> Served(d)
    BY <1>0, <1>3, <2>1 DEF Served
  <2>3. ConnInv'
    BY <1>0, <1>3, <2>1, <2>2 DEF Places, ConnInv, Alive, Served
  <2>4. SocketsOwned'
    BY <1>0, <1>3, <2>1, <2>2 DEF Places, SocketsOwned, Entered
  <2>5. NobodyHoldsTheStop' /\ StopInv'
    BY <1>0, <1>3, <2>1, <2>2 DEF Places, StopInv, NobodyHoldsTheStop
  <2> QED
    BY <1>4, <2>3, <2>4, <2>5 DEF Places
<1>6. CASE ~stopping
  <2>1. /\ conns'[c].pc = "reading" /\ conns[c].fd \in Fds
        /\ sockets' = [sockets EXCEPT ![conns[c].fd] = IF @ = Absent THEN 0 ELSE @]
    BY <1>0, <1>6 DEF Register, TypeOK, ConnType
  <2>2. \A d \in Conns : Served(d)' <=> Served(d) \/ d = c
    BY <1>0, <1>3, <2>1 DEF Served
  <2>3. ConnInv'
    BY <1>0, <1>3, <2>1, <2>2 DEF Places, ConnInv, Alive, Served
  <2>4. Entered' = Entered \cup {conns[c].fd}
    BY <2>1 DEF Entered, Absent, TypeOK
  <2>5. SocketsOwned'
    BY <1>0, <1>3, <2>1, <2>2, <2>4 DEF Places, SocketsOwned
  <2>6. NobodyHoldsTheStop' /\ StopInv'
    BY <1>0, <1>6 DEF Places, StopInv, NobodyHoldsTheStop
  <2> QED
    BY <1>4, <2>3, <2>5, <2>6 DEF Places
<1> QED
  BY <1>5, <1>6

\* Only the connection that closes has its descriptor: no other is forgotten.
LEMMA PlacesClose ==
  ASSUME Places, TypeOK, NEW c \in Conns, Close(c)
  PROVE  Places'
<1>0. /\ UNCHANGED <<listening, queue, stopping, main>> /\ conns[c].pc = "closing"
      /\ conns' = [conns EXCEPT ![c].pc = "done"] /\ queue \in Seq(Conns)
      /\ sockets' = [sockets EXCEPT ![conns[c].fd] = Absent]
      /\ Alive(c) /\ Served(c) /\ conns[c].fd \in Fds
      /\ \A d \in Conns : Served(d) => Alive(d)
  BY DEF Close, TypeOK, Alive, Served, Places, ConnInv
<1>1. /\ \A d \in Conns \ {c} : conns'[d] = conns[d]
      /\ conns'[c].pc = "done" /\ conns'[c].fd = conns[c].fd
  BY <1>0 DEF TypeOK, ConnType
<1>2. \A d \in Conns : (Served(d)' <=> Served(d) /\ d # c) /\ (Alive(d)' <=> Alive(d) /\ d # c)
  BY <1>0, <1>1 DEF Served, Alive
<1>3. Entered' = Entered \ {conns[c].fd}
  BY <1>0 DEF Entered, TypeOK
<1>4. ConnInv'
  BY <1>1, <1>2 DEF Places, ConnInv
<1>5. QueueInv'
  BY <1>0, <1>1 DEF Places, QueueInv
<1>6. SocketsOwned'
  <2>1. \A d \in Conns \ {c} : Served(d) => conns[d].fd # conns[c].fd
    BY <1>0 DEF Places, ConnInv
  <2>2. Entered' = {conns'[d].fd : d \in {e \in Conns : Served(e)'}}
    BY <1>1, <1>2, <1>3, <2>1 DEF Places, SocketsOwned
  <2>3. \A d \in Conns : conns'[d].shut => conns'[d].fd \in Entered' \/ conns'[d].pc = "done"
    BY <1>1, <1>2, <2>2 DEF Places, ConnInv
  <2> QED
    BY <2>2, <2>3 DEF SocketsOwned
<1>7. NobodyHoldsTheStop' /\ StopInv'
  BY <1>0, <1>1, <1>2 DEF Places, StopInv, NobodyHoldsTheStop
<1> QED
  BY <1>4, <1>5, <1>6, <1>7 DEF Places

\* shutdown() of descriptors in the table reaches connections that are served.
LEMMA ShutDownServed ==
  ASSUME Places, TypeOK, NEW fds, fds \subseteq Entered, ShutDown(fds)
  PROVE  \A c \in Conns :
           /\ conns'[c].fd = conns[c].fd /\ conns'[c].pc = conns[c].pc
           /\ conns'[c].shut <=> conns[c].shut \/ (Served(c) /\ conns[c].fd \in fds)
<1> SUFFICES ASSUME NEW c \in Conns
             PROVE  /\ conns'[c].fd = conns[c].fd /\ conns'[c].pc = conns[c].pc
                    /\ conns'[c].shut <=> conns[c].shut \/ (Served(c) /\ conns[c].fd \in fds)
  OBVIOUS
<1>1. conns'[c] = IF conns[c].fd \in fds /\ conns[c].pc # "done"
                  THEN [conns[c] EXCEPT !.shut = TRUE] ELSE conns[c]
  BY DEF ShutDown
<1>2. conns[c] \in ConnType
  BY DEF TypeOK
<1>3. conns[c].fd \in fds /\ conns[c].pc # "done" <=> Served(c) /\ conns[c].fd \in fds
  <2>1. ASSUME conns[c].fd \in fds, conns[c].pc # "done" PROVE Served(c)
    <3>1. PICK d \in Conns : Served(d) /\ conns[d].fd = conns[c].fd
      BY <2>1 DEF Places, SocketsOwned
    <3>2. conns[c].fd \in Fds /\ NoFd \notin Fds
      BY <2>1, HttpAssumption DEF Entered
    <3>3. Alive(c) /\ Alive(d)
      BY <2>1, <3>1, <3>2 DEF Alive, Served, Places, ConnInv
    <3> QED
      BY <3>1, <3>3 DEF Places, ConnInv
  <2> QED
    BY <2>1 DEF Served
<1> QED
  BY <1>1, <1>2, <1>3 DEF ConnType

LEMMA PlacesMain ==
  ASSUME Places, TypeOK, Main \/ Signal
  PROVE  Places'
<1>0. queue \in Seq(Conns) /\ UNCHANGED <<queue, sockets>> /\ Entered' = Entered
  BY DEF TypeOK, Main, Signal, Expire, StopListening, ExpireAll, Join, Shutdown, MainUnchanged,
         Entered
<1>1. ASSUME NEW fds, fds \subseteq Entered, ShutDown(fds)
      PROVE  ConnInv' /\ QueueInv' /\ SocketsOwned' /\ \A c \in Conns : Served(c)' <=> Served(c)
  <2>1. \A c \in Conns :
          /\ conns'[c].fd = conns[c].fd /\ conns'[c].pc = conns[c].pc
          /\ conns'[c].shut <=> conns[c].shut \/ (Served(c) /\ conns[c].fd \in fds)
    BY <1>1, ShutDownServed
  <2>2. \A c \in Conns : (Served(c)' <=> Served(c)) /\ (Alive(c)' <=> Alive(c))
    BY <2>1 DEF Served, Alive
  <2>3. ConnInv'
    BY <2>1, <2>2 DEF Places, ConnInv
  <2>4. QueueInv'
    BY <1>0, <2>1 DEF Places, QueueInv
  <2>5. SocketsOwned'
    BY <1>0, <1>1, <2>1, <2>2 DEF Places, SocketsOwned
  <2> QED
    BY <2>2, <2>3, <2>4, <2>5
<1>2. CASE Expire
  <2>1. /\ UNCHANGED <<listening, stopping, main>> /\ main = "polling"
        /\ ConnInv' /\ QueueInv' /\ SocketsOwned'
    BY <1>1, <1>2 DEF Expire
  <2> QED
    BY <2>1 DEF Places, StopInv, NobodyHoldsTheStop
<1>3. CASE ExpireAll
  <2>1. ShutDown(Entered) /\ main' = "join" /\ stopping' /\ UNCHANGED listening /\ main = "expire"
    BY <1>3 DEF ExpireAll
  <2>2. ConnInv' /\ QueueInv' /\ SocketsOwned' /\ \A c \in Conns : Served(c)' <=> Served(c)
    BY <1>1, <2>1
  <2>3. \A c \in Conns : Served(c) => conns'[c].shut
    BY <2>1, ShutDownServed DEF Places, SocketsOwned
  <2>4. NobodyHoldsTheStop' /\ StopInv'
    BY <2>1, <2>2, <2>3 DEF Places, StopInv, NobodyHoldsTheStop
  <2> QED
    BY <2>2, <2>4 DEF Places
<1>4. CASE StopListening \/ Signal \/ Shutdown \/ Join
  <2>1. UNCHANGED conns
    BY <1>4 DEF StopListening, Signal, Shutdown, Join
  <2>2. ConnInv' /\ QueueInv' /\ SocketsOwned'
    BY <1>0, <2>1 DEF Places, ConnInv, QueueInv, SocketsOwned, Served, Alive
  <2>3. NobodyHoldsTheStop' /\ StopInv'
    BY <1>4, <2>1 DEF Places, StopInv, NobodyHoldsTheStop, StopListening, Signal, Shutdown, Join,
                      Served
  <2> QED
    BY <2>2, <2>3 DEF Places
<1> QED
  BY <1>2, <1>3, <1>4 DEF Main

LEMMA PlacesTick ==
  ASSUME Places, TypeOK, Tick
  PROVE  Places'
<1>1. UNCHANGED <<listening, queue, conns, stopping, main>>
  BY DEF Tick
<1>2. \A f \in Fds : sockets'[f] = Absent <=> sockets[f] = Absent
  BY HttpAssumption DEF Tick, TypeOK, Absent, Older
<1> QED
  BY <1>1, <1>2, PlacesKept DEF Entered, TypeOK

LEMMA PlacesStep ==
  ASSUME Places, TypeOK, BusyInv, [Next]_vars
  PROVE  Places'
<1>1. CASE UNCHANGED vars
  BY <1>1, PlacesKept DEF vars, Entered, TypeOK
<1>2. CASE Tick
  BY <1>2, PlacesTick
<1>3. CASE Main \/ Signal
  BY <1>3, PlacesMain
<1>4. ASSUME NEW c \in Conns, Register(c) PROVE Places'
  BY <1>4, PlacesRegister
<1>5. ASSUME NEW c \in Conns, Close(c) PROVE Places'
  BY <1>5, PlacesClose
<1>6. ASSUME NEW c \in Conns, NEW f \in Fds, Accept(c, f) PROVE Places'
  BY <1>6, PlacesAccept
<1>7. ASSUME NEW c \in Conns, NEW r \in Requests, NEW i \in 0..minted, Ask(c, r, i) PROVE Places'
  BY <1>7, PlacesServed
<1>8. ASSUME NEW c \in Conns,
             \/ Leave(c) \/ EndpointRefuses(c) \/ EndpointIgnores(c) \/ EndpointDelete(c)
             \/ EndpointFull(c) \/ EndpointInitialize(c) \/ EndpointInitialized(c)
             \/ ToolBegins(c) \/ ToolReturns(c)
      PROVE  Places'
  BY <1>8, PlacesServed
<1> QED
  BY <1>1, <1>2, <1>3, <1>4, <1>5, <1>6, <1>7, <1>8 DEF Next, Serve, AtRest

-----------------------------------------------------------------------------
(* Whose tool runs.                                                        *)

\* No connection enters or leaves a tool, and sessions only grow older.
LEMMA ToolsKept ==
  ASSUME Tools,
         \A c \in Conns : /\ conns'[c].pc = "inside" <=> conns[c].pc = "inside"
                          /\ conns[c].pc = "inside" => conns'[c].request = conns[c].request,
         UNCHANGED <<busy, agreed>>,
         \A i \in Ids : /\ sessions'[i].phase = sessions[i].phase
                        /\ sessions'[i].revision = sessions[i].revision
  PROVE  Tools'
<1>1. BusyInv'
  BY DEF Tools, BusyInv
<1>2. ToolInItsSession'
  BY DEF Tools, ToolInItsSession, OpenIn
<1> QED
  BY <1>1, <1>2 DEF Tools

\* The mutex is free, before the request and after it: nobody's tool runs.
LEMMA ToolsFree ==
  ASSUME Tools, TypeOK, NEW c \in Conns, Enter(c), Reply(c), UNCHANGED busy
  PROVE  Tools'
<1>1. busy = NoConn /\ NoConn \notin Conns
  BY HttpAssumption DEF Enter
<1>2. \A d \in Conns : conns[d].pc # "inside"
  BY <1>1 DEF Tools, BusyInv
<1>3. \A d \in Conns : conns'[d].pc # "inside"
  BY <1>2 DEF Reply, TypeOK, ConnType
<1> QED
  BY <1>1, <1>3 DEF Tools, BusyInv, ToolInItsSession

LEMMA ToolsBegin ==
  ASSUME Tools, TypeOK, NEW c \in Conns, ToolBegins(c)
  PROVE  Tools'
<1> DEFINE r == conns[c].request
           s == r.session
<1>0. /\ busy = NoConn /\ NoConn \notin Conns /\ busy' = c
      /\ conns' = [conns EXCEPT ![c].pc = "inside"]
      /\ agreed' = sessions[s].revision /\ sessions' = Touched(r)
      /\ Admitted(r) /\ PhaseOf(r) = "ready" /\ r \in RoutedType
  BY HttpAssumption, RequestKept DEF ToolBegins, Endpoint, Enter
<1>1. /\ \A d \in Conns \ {c} : conns'[d] = conns[d] /\ conns'[d].pc # "inside"
      /\ conns'[c].pc = "inside" /\ conns'[c].request = r
  BY <1>0 DEF Tools, BusyInv, TypeOK, ConnType
<1>2. s # NoSession /\ sessions[s].phase = "ready"
  BY <1>0 DEF PhaseOf
<1>3. s \in Ids /\ Swept[s] = sessions[s] /\ Swept \in [Ids -> SessionType]
  BY <1>0, <1>2, SweptType DEF Admitted
<1>4. sessions'[s].phase = "ready" /\ sessions'[s].revision = sessions[s].revision
  BY <1>0, <1>2, <1>3 DEF Touched, SessionType
<1>5. BusyInv'
  BY <1>0, <1>1 DEF BusyInv
<1>6. ToolInItsSession'
  BY <1>0, <1>1, <1>3, <1>4 DEF ToolInItsSession, OpenIn
<1> QED
  BY <1>5, <1>6 DEF Tools

LEMMA ToolsEnd ==
  ASSUME Tools, TypeOK, NEW c \in Conns, ToolReturns(c)
  PROVE  Tools'
<1>1. \A d \in Conns : conns'[d].pc # "inside"
  BY DEF ToolReturns, Reply, Tools, BusyInv, TypeOK, ConnType
<1> QED
  BY <1>1, HttpAssumption DEF ToolReturns, Tools, BusyInv, ToolInItsSession

LEMMA ToolsTick ==
  ASSUME Tools, TypeOK, Tick
  PROVE  Tools'
<1>1. \A i \in Ids : /\ sessions'[i].phase = sessions[i].phase
                     /\ sessions'[i].revision = sessions[i].revision
  BY DEF Tick, TypeOK, SessionType
<1> QED
  BY <1>1, ToolsKept DEF Tick

\* Connections come, move and go outside the endpoint.
LEMMA ToolsOutside ==
  ASSUME Tools, TypeOK, QueueInv, NEW c \in Conns,
         \/ Register(c) \/ Close(c) \/ Leave(c) \/ (\E f \in Fds : Accept(c, f))
         \/ \E r \in Requests, i \in 0..minted : Ask(c, r, i)
  PROVE  Tools'
<1>1. UNCHANGED <<busy, agreed, sessions>>
  BY DEF Register, Close, Leave, Accept, Ask, NetUnchanged
<1>2. /\ \A d \in Conns \ {c} : conns'[d] = conns[d]
      /\ conns'[c].pc # "inside"
  BY DEF Register, Close, Leave, Accept, Ask, TypeOK, ConnType
<1>3. conns[c].pc # "inside"
  <2>1. CASE Register(c)
    BY <2>1 DEF Register, QueueInv, TypeOK
  <2> QED
    BY <2>1 DEF Close, Leave, Accept, Ask
<1> QED
  BY <1>1, <1>2, <1>3, ToolsKept

LEMMA ToolsMain ==
  ASSUME Tools, TypeOK, Main \/ Signal
  PROVE  Tools'
<1>1. UNCHANGED <<busy, agreed, sessions>>
  BY DEF Main, Signal, Expire, StopListening, ExpireAll, Join, Shutdown, MainUnchanged
<1>2. \A c \in Conns : conns'[c].pc = conns[c].pc /\ conns'[c].request = conns[c].request
  <2>1. CASE UNCHANGED conns
    BY <2>1
  <2>2. ASSUME NEW fds, ShutDown(fds)
        PROVE  \A c \in Conns : conns'[c].pc = conns[c].pc /\ conns'[c].request = conns[c].request
    BY <2>2 DEF ShutDown, TypeOK, ConnType
  <2> QED
    BY <2>1, <2>2 DEF Main, Signal, Expire, StopListening, ExpireAll, Join, Shutdown
<1> QED
  BY <1>1, <1>2, ToolsKept

LEMMA ToolsStep ==
  ASSUME Tools, TypeOK, QueueInv, [Next]_vars
  PROVE  Tools'
<1>1. CASE UNCHANGED vars
  BY <1>1, ToolsKept DEF vars
<1>2. CASE Tick
  BY <1>2, ToolsTick
<1>3. CASE Main \/ Signal
  BY <1>3, ToolsMain
<1>4. ASSUME NEW c \in Conns, Register(c) \/ Close(c) \/ Leave(c) PROVE Tools'
  BY <1>4, ToolsOutside
<1>5. ASSUME NEW c \in Conns, NEW f \in Fds, Accept(c, f) PROVE Tools'
  BY <1>5, ToolsOutside
<1>6. ASSUME NEW c \in Conns, NEW r \in Requests, NEW i \in 0..minted, Ask(c, r, i) PROVE Tools'
  BY <1>6, ToolsOutside
<1>7. ASSUME NEW c \in Conns,
             \/ EndpointRefuses(c) \/ EndpointIgnores(c) \/ EndpointDelete(c) \/ EndpointFull(c)
             \/ EndpointInitialize(c) \/ EndpointInitialized(c)
      PROVE  Tools'
  <2>1. Enter(c) /\ Reply(c) /\ UNCHANGED busy
    BY <1>7 DEF EndpointRefuses, EndpointIgnores, EndpointDelete, EndpointFull,
                EndpointInitialize, EndpointInitialized, Endpoint
  <2> QED
    BY <2>1, ToolsFree
<1>8. ASSUME NEW c \in Conns, ToolBegins(c) \/ ToolReturns(c) PROVE Tools'
  BY <1>8, ToolsBegin, ToolsEnd
<1> QED
  BY <1>1, <1>2, <1>3, <1>4, <1>5, <1>6, <1>7, <1>8 DEF Next, Serve, AtRest

-----------------------------------------------------------------------------
(* Theorems.                                                               *)

LEMMA Initially == Init => IInv
<1> SUFFICES ASSUME Init PROVE IInv
  OBVIOUS
<1>1. TypeOK
  <2>1. NewConn \in ConnType
    BY NoEntryType DEF ConnType, NewConn, Pcs
  <2>2. conns \in [Conns -> ConnType] /\ sessions \in [Ids -> SessionType]
    BY <2>1, NoEntryType DEF Init
  <2>3. sockets \in [Fds -> Nat \cup {Absent}]
    BY DEF Init
  <2>4. listening \in BOOLEAN /\ stopping \in BOOLEAN /\ main \in Mains /\ minted \in Nat
    BY DEF Init, Mains
  <2>5. queue = <<>> /\ <<>> \in Seq(Conns)
    BY DEF Init
  <2> QED
    BY <2>2, <2>3, <2>4, <2>5 DEF TypeOK
<1>2. \A c \in Conns : conns[c].pc = "new" /\ conns[c].fd = NoFd /\ ~conns[c].shut
  BY DEF Init, NewConn
<1>3. Entered = {} /\ queue = <<>> /\ busy = NoConn /\ main = "polling"
  BY DEF Init, Entered
<1>4. Places
  BY <1>2, <1>3 DEF Places, ConnInv, QueueInv, StopInv, SocketsOwned, NobodyHoldsTheStop, Served,
                    Alive
<1>5. Tools
  BY <1>2, <1>3, HttpAssumption DEF Tools, BusyInv, ToolInItsSession
<1> QED
  BY <1>1, <1>4, <1>5 DEF IInv, Places, Tools

LEMMA Inductive == IInv /\ [Next]_vars => IInv'
<1> SUFFICES ASSUME IInv, [Next]_vars PROVE IInv'
  OBVIOUS
<1>1. TypeOK /\ Places /\ Tools /\ BusyInv /\ QueueInv
  BY DEF IInv, Places, Tools
<1>2. TypeOK'
  BY <1>1, TypeStep
<1>3. Places'
  BY <1>1, PlacesStep
<1>4. Tools'
  BY <1>1, ToolsStep
<1> QED
  BY <1>2, <1>3, <1>4 DEF IInv, Places, Tools

\* The invariant of the server: connections, descriptors, tasks of the pool, the
\* mutex of the sessions and the order of the shutdown (serve_http()).
THEOREM HttpInvariant == Spec => []IInv
BY Initially, Inductive, PTL DEF Spec

\* The table of sockets holds exactly the descriptors of the connections that
\* are served, so expire_connections() never reaches a stranger that was given
\* a number again.
THEOREM SocketsAlwaysOwned == Spec => []SocketsOwned
<1>1. IInv => SocketsOwned
  BY DEF IInv
<1> QED
  BY <1>1, HttpInvariant, PTL

\* A tool runs in a ready, open session and reports that session's revision,
\* whatever the other sessions do (ProtocolService::respond()).
THEOREM ToolAlwaysInItsSession == Spec => []ToolInItsSession
<1>1. IInv => ToolInItsSession
  BY DEF IInv
<1> QED
  BY <1>1, HttpInvariant, PTL

\* No client holds a stopping server up, and the jobs are shut down after the
\* last request (the end of serve_http()).
THEOREM NobodyEverHoldsTheStop == Spec => []NobodyHoldsTheStop
<1>1. IInv => NobodyHoldsTheStop
  BY DEF IInv
<1> QED
  BY <1>1, HttpInvariant, PTL

=============================================================================
