----------------------------- MODULE Connections -----------------------------
(***************************************************************************)
(* Transport admission and the deadlines of connections and requests       *)
(* (connections.rs, BoundedProxy of proxy.rs).  A connection holds one     *)
(* slot of a process-wide Capacity until it is closed.  Whatever state it  *)
(* is left in by a silent client, some timer runs that closes it: the TLS  *)
(* handshake's, the start of HTTP/2, its idleness, or the deadline of the  *)
(* request it is reading or serving.                                       *)
(*                                                                         *)
(* A timer that has elapsed and an event that has arrived are states of    *)
(* their own, and the select that waits for both takes either: it polls    *)
(* its branches in random order.  How long the timers run is left out.     *)
(***************************************************************************)
EXTENDS Naturals, FiniteSets

CONSTANTS
  Connections,
  Streams,      \* concurrent streams of an HTTP/2 connection
  First,        \* the one stream that an HTTP/1 connection has at a time
  Clients,
  ClientOf,     \* the client of each connection
  MAX,          \* connections in all (1024)
  PER_CLIENT    \* connections of a client (64)

ASSUME ConnectionConstants ==
  /\ IsFiniteSet(Connections)
  /\ First \in Streams
  /\ ClientOf \in [Connections -> Clients]
  /\ MAX \in Nat /\ PER_CLIENT \in Nat

VARIABLES
  phase,    \* closed, handshake, starting (HTTP/2, no request yet) or open
  kind,     \* plain, h1 (over TLS) or h2
  ready,    \* the value of the watch that the first request sets
  started,  \* the 10 s for the first request have elapsed
  permits,  \* slots taken for the connection and not given back
  stream    \* request of each stream, with its deadline

connection == <<phase, kind, ready, started, permits, stream>>

\* sent: the deadline in the watch of the request; armed: the one that its
\* expiration waits for; elapsed: that one has passed.
NoRequest == [phase |-> "none", sent |-> "header", armed |-> "header", elapsed |-> FALSE]
Reading == [NoRequest EXCEPT !.phase = "reading"]

ConnectionInit ==
  /\ phase = [c \in Connections |-> "closed"]
  /\ kind = [c \in Connections |-> "plain"]
  /\ ready = [c \in Connections |-> FALSE]
  /\ started = [c \in Connections |-> FALSE]
  /\ permits = [c \in Connections |-> 0]
  /\ stream = [c \in Connections |-> [s \in Streams |-> NoRequest]]

-----------------------------------------------------------------------------
(* Slots.                                                                   *)

Open(c) == phase[c] # "closed"
Holding(cs) == {c \in cs : permits[c] > 0}

\* Connections::acquire, that is Capacity::try_acquire.
CanAcquire(c) ==
  /\ Cardinality(Holding(Connections)) < MAX
  /\ Cardinality(Holding({d \in Connections : ClientOf[d] = ClientOf[c]})) < PER_CLIENT

\* The stream, or the future of process_new, is dropped.
Close(c) ==
  /\ phase' = [phase EXCEPT ![c] = "closed"]
  /\ permits' = [permits EXCEPT ![c] = 0]
  /\ ready' = [ready EXCEPT ![c] = FALSE]
  /\ started' = [started EXCEPT ![c] = FALSE]
  /\ UNCHANGED kind

\* An HTTP/1 connection reads requests from its start; process_new_http sets
\* the deadline of 60 s before it has read anything.
Begin(c, k) ==
  IF k = "h2"
    THEN phase' = [phase EXCEPT ![c] = "starting"] /\ UNCHANGED stream
    ELSE /\ phase' = [phase EXCEPT ![c] = "open"]
         /\ stream' = [stream EXCEPT ![c][First] = Reading]

\* A plaintext connection is admitted by ConnectionProxy::process_new.
AcceptPlain(c) ==
  /\ ~Open(c)
  /\ \A s \in Streams : stream[c][s].phase = "none"
  /\ CanAcquire(c)
  /\ permits' = [permits EXCEPT ![c] = @ + 1]
  /\ kind' = [kind EXCEPT ![c] = "plain"]
  /\ Begin(c, "plain")
  /\ UNCHANGED <<ready, started>>

\* PreTlsProcess::process: a TLS connection is admitted before its handshake.
AcceptTls(c) ==
  /\ ~Open(c)
  /\ \A s \in Streams : stream[c][s].phase = "none"
  /\ CanAcquire(c)
  /\ permits' = [permits EXCEPT ![c] = @ + 1]
  /\ \E k \in {"h1", "h2"} : kind' = [kind EXCEPT ![c] = k]
  /\ phase' = [phase EXCEPT ![c] = "handshake"]
  /\ UNCHANGED <<ready, started, stream>>

\* Mutant: process_new takes a slot for every connection.
HandshakeAcquires(c) ==
  /\ phase[c] = "handshake"
  /\ permits' = [permits EXCEPT ![c] = @ + 1]
  /\ Begin(c, kind[c])
  /\ UNCHANGED <<kind, ready, started>>

\* The handshake completes; process_new leaves the slot to the stream's guard.
Handshake(c) ==
  /\ phase[c] = "handshake"
  /\ Begin(c, kind[c])
  /\ UNCHANGED <<kind, ready, started, permits>>

\* It fails, or exceeds Pingora's 60 s.
HandshakeFails(c) ==
  /\ phase[c] = "handshake"
  /\ Close(c)
  /\ UNCHANGED stream

-----------------------------------------------------------------------------
(* The start of HTTP/2: startup_deadline.                                   *)

StartupElapses(c) ==
  /\ phase[c] = "starting"
  /\ ~started[c]
  /\ started' = [started EXCEPT ![c] = TRUE]
  /\ UNCHANGED <<phase, kind, ready, permits, stream>>

\* Mutant: the wait for readiness has no deadline.
StartupWaits(c) ==
  /\ phase[c] = "starting"
  /\ ready[c]
  /\ phase' = [phase EXCEPT ![c] = "open"]
  /\ UNCHANGED <<kind, ready, started, permits, stream>>

\* The select: the deadline drops the connection, readiness lifts it.
StartupDeadline(c) ==
  /\ phase[c] = "starting"
  /\ \/ started[c] /\ Close(c) /\ UNCHANGED stream
     \/ /\ ready[c]
        /\ phase' = [phase EXCEPT ![c] = "open"]
        /\ UNCHANGED <<kind, ready, started, permits, stream>>

\* Pingora closes an HTTP/2 connection that has had no request for 30 s.
IdleTimeout(c) ==
  /\ phase[c] = "open" /\ kind[c] = "h2"
  /\ \A s \in Streams : stream[c][s].phase = "none"
  /\ Close(c)
  /\ UNCHANGED stream

-----------------------------------------------------------------------------
(* Requests: BoundedProxy::process_new_http.                                *)

\* A new stream of an HTTP/2 connection; the first one makes it ready.
Request(c, s) ==
  /\ phase[c] \in {"starting", "open"} /\ kind[c] = "h2"
  /\ stream[c][s].phase = "none"
  /\ stream' = [stream EXCEPT ![c][s] = Reading]
  /\ ready' = [ready EXCEPT ![c] = TRUE]
  /\ UNCHANGED <<phase, kind, started, permits>>

\* A request ends.  HTTP/1 goes on to the next one or closes; the tasks of a
\* closed HTTP/2 connection end by themselves.
Ends(c, s, kept) ==
  IF kind[c] # "h2" /\ ~kept
    THEN Close(c) /\ stream' = [stream EXCEPT ![c][s] = NoRequest]
    ELSE /\ stream' = [stream EXCEPT ![c][s] = IF kind[c] = "h2" THEN NoRequest ELSE Reading]
         /\ UNCHANGED <<phase, kind, ready, started, permits>>

\* The header is complete: the request is refused, or routed to a site whose
\* timeout, if it has one, replaces the 60 s.
Route(c, s) ==
  /\ stream[c][s].phase = "reading"
  /\ \/ \E kept \in BOOLEAN : Ends(c, s, kept)
     \/ /\ \E d \in {"site", "off"} :
             stream' = [stream EXCEPT ![c][s].phase = "routed", ![c][s].sent = d]
        /\ UNCHANGED <<phase, kind, ready, started, permits>>

\* The handler or the backend has answered.
Respond(c, s) ==
  /\ stream[c][s].phase = "routed"
  /\ \E kept \in BOOLEAN : Ends(c, s, kept)

\* Time: the deadline that is armed passes.
Elapse(c, s) ==
  /\ stream[c][s].phase # "none"
  /\ stream[c][s].armed # "off" /\ ~stream[c][s].elapsed
  /\ stream' = [stream EXCEPT ![c][s].elapsed = TRUE]
  /\ UNCHANGED <<phase, kind, ready, started, permits>>

\* Mutant: the deadline is for the header only.
ExpirationOfHeader(c, s) ==
  /\ stream[c][s].phase = "reading"
  /\ stream[c][s].elapsed
  /\ Ends(c, s, FALSE)

\* The loop of the expiration: a deadline in the watch is armed, one that has
\* passed ends the request.
Expiration(c, s) ==
  /\ stream[c][s].phase # "none"
  /\ \/ /\ stream[c][s].sent # stream[c][s].armed
        /\ stream' = [stream EXCEPT ![c][s].armed = stream[c][s].sent,
                                    ![c][s].elapsed = FALSE]
        /\ UNCHANGED <<phase, kind, ready, started, permits>>
     \/ stream[c][s].elapsed /\ Ends(c, s, FALSE)

-----------------------------------------------------------------------------
\* The client goes away, or the connection breaks.
Disconnect(c) ==
  /\ Open(c)
  /\ Close(c)
  /\ stream' = IF kind[c] = "h2" THEN stream
               ELSE [stream EXCEPT ![c] = [s \in Streams |-> NoRequest]]

Timers(c) ==
  \/ HandshakeFails(c)
  \/ StartupElapses(c)
  \/ StartupDeadline(c)
  \/ IdleTimeout(c)

ClientActs(c) ==
  \/ AcceptPlain(c)
  \/ AcceptTls(c)
  \/ Handshake(c)
  \/ Disconnect(c)
  \/ \E s \in Streams : Request(c, s) \/ Route(c, s)

ConnectionNext ==
  \E c \in Connections :
    \/ ClientActs(c)
    \/ Timers(c)
    \/ \E s \in Streams : Respond(c, s) \/ Elapse(c, s) \/ Expiration(c, s)

\* Timers elapse and futures are polled.  Nothing is assumed of clients and
\* backends.
Fairness ==
  \A c \in Connections :
    /\ WF_connection(HandshakeFails(c))
    /\ WF_connection(StartupElapses(c))
    /\ WF_connection(StartupDeadline(c))
    /\ WF_connection(IdleTimeout(c))
    /\ \A s \in Streams : WF_connection(Elapse(c, s)) /\ WF_connection(Expiration(c, s))

ConnectionSpec == ConnectionInit /\ [][ConnectionNext]_connection /\ Fairness

-----------------------------------------------------------------------------
Deadlines == {"header", "site", "off"}

\* Phases and deadlines are known ones, and only HTTP/2 has several streams.
ConnectionTypeOK ==
  /\ phase \in [Connections -> {"closed", "handshake", "starting", "open"}]
  /\ kind \in [Connections -> {"plain", "h1", "h2"}]
  /\ ready \in [Connections -> BOOLEAN] /\ started \in [Connections -> BOOLEAN]
  /\ permits \in [Connections -> Nat]
  /\ stream \in [Connections -> [Streams ->
       [phase : {"none", "reading", "routed"}, sent : Deadlines, armed : Deadlines,
        elapsed : BOOLEAN]]]
  /\ \A c \in Connections, s \in Streams :
       kind[c] # "h2" /\ stream[c][s].phase # "none" => s = First /\ phase[c] = "open"

(***************************************************************************)
(* An open connection of either listener holds exactly one slot, a closed  *)
(* one none, and all of them together stay within the limits for the       *)
(* process and per client (Connections, ConnectionGuard).                  *)
(***************************************************************************)
OneSlotEach ==
  /\ \A c \in Connections : permits[c] = IF Open(c) THEN 1 ELSE 0
  /\ Cardinality({c \in Connections : Open(c)}) <= MAX
  /\ \A k \in Clients :
       Cardinality({c \in Connections : Open(c) /\ ClientOf[c] = k}) <= PER_CLIENT

Untimed(c) == \E s \in Streams : stream[c][s].phase = "routed" /\ stream[c][s].sent = "off"

(***************************************************************************)
(* A silent client does not keep its slot: unless a client keeps acting,   *)
(* or has a request whose site has no timeout, its connection is closed    *)
(* again and again, in whatever state it stopped.                          *)
(***************************************************************************)
SilentIsClosed ==
  \A c \in Connections :
    \/ []<>(~Open(c) \/ Untimed(c))
    \/ []<><<ClientActs(c)>>_connection

(***************************************************************************)
(* A request whose site has a timeout ends, though its connection may be   *)
(* gone, its backend silent, and the deadline of its header have passed    *)
(* while it was being routed.                                              *)
(***************************************************************************)
TimedRequestsEnd ==
  \A c \in Connections, s \in Streams :
    (stream[c][s].phase = "routed" /\ stream[c][s].sent = "site")
      ~> stream[c][s].phase # "routed"
===============================================================================
