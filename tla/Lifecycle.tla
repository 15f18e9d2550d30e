----------------------------- MODULE Lifecycle ------------------------------
(***************************************************************************)
(* The life of the process (main.rs, server/shutdown.rs, server/mod.rs,    *)
(* server/tls.rs, server/admin.rs): listeners, connections, WebSocket      *)
(* tunnels, the minute flush of the statistics, and the graceful shutdown  *)
(* that waits for all of them but the tunnels, for a grace period at most. *)
(*                                                                         *)
(* Whatever must end before the shutdown is complete holds a clone of the  *)
(* ShutdownSignal; the last clone dropped closes the channel shutdown()    *)
(* listens on.  Time is abstract: the grace timer may fire at any moment   *)
(* after the shutdown began.                                               *)
(***************************************************************************)
EXTENDS Naturals, FiniteSets

CONSTANTS
  Listeners,     \* HTTP, HTTPS and admin listeners
  TlsListeners,  \* those that start with a TLS handshake
  Conns,         \* connections (slots, reused)
  MaxBytes       \* bound on the traffic of connections, and of each tunnel

ASSUME LifeAssumption == TlsListeners \subseteq Listeners /\ MaxBytes \in Nat

VARIABLES
  main,      \* run(): serving, draining, final, flushing, exited
  stop,      \* the watch channel of Shutdown
  result,    \* what shutdown() returned: clean, forced, or none yet
  listener,  \* accept(): at the select, past the signal check, asleep, ended
  conn,      \* a connection's task
  tunnel,    \* the task handle_upgrade_response spawned, and its bytes
  flusher,   \* flush_stats
  mutex,     \* the history mutex: free, or held by a flush
  seen,      \* per flush, the counters as it read them
  counted,   \* traffic in the counters
  filed,     \* traffic in the stats file
  \* History, read by properties only.
  served,    \* traffic of connections
  late,      \* per listener, connections accepted after the shutdown began
  finalOk    \* the flush on exit succeeded

sys == <<main, stop, result, listener, conn, tunnel, flusher, mutex, seen, counted, filed>>
vars == <<sys, served, late, finalOk>>

Flushes == {"flusher", "main"}

\* The type of every variable; the mutex is held exactly while a flush runs.
TypeOK ==
  /\ main \in {"serving", "draining", "final", "flushing", "exited"}
  /\ stop \in BOOLEAN
  /\ result \in {"none", "clean", "forced"}
  /\ listener \in [Listeners -> {"select", "polled", "asleep", "ended"}]
  /\ conn \in [Conns -> {"none", "handshake", "idle", "busy", "closing"}]
  /\ tunnel \in [Conns -> [state : {"none", "open", "closed", "lost"}, bytes : Nat]]
  /\ flusher \in {"waiting", "blocked", "flushing", "ended"}
  /\ mutex \in Flushes \cup {"free"}
  /\ mutex = "flusher" <=> flusher = "flushing"
  /\ mutex = "main" <=> main = "flushing"
  /\ seen \in [Flushes -> Nat]
  /\ {counted, filed, served} \subseteq Nat
  /\ late \in [Listeners -> Nat]
  /\ finalOk \in BOOLEAN

Init ==
  /\ main = "serving"
  /\ stop = FALSE
  /\ result = "none"
  /\ listener = [l \in Listeners |-> "select"]
  /\ conn = [c \in Conns |-> "none"]
  /\ tunnel = [c \in Conns |-> [state |-> "none", bytes |-> 0]]
  /\ flusher = "waiting"
  /\ mutex = "free"
  /\ seen = [f \in Flushes |-> 0]
  /\ counted = 0 /\ filed = 0 /\ served = 0
  /\ late = [l \in Listeners |-> 0]
  /\ finalOk = FALSE

\* Tasks run until the runtime is dropped at the end of main.
Running == main # "exited"

\* The holders of a ShutdownSignal other than run() itself.
HoldersButConns ==
  {l \in Listeners : listener[l] # "ended"}
    \cup (IF flusher = "ended" THEN {} ELSE {"flusher"})

HoldersButFlusher ==
  {l \in Listeners : listener[l] # "ended"} \cup {c \in Conns : conn[c] # "none"}

Holders ==
  {l \in Listeners : listener[l] # "ended"}
    \cup {c \in Conns : conn[c] # "none"}
    \cup (IF flusher = "ended" THEN {} ELSE {"flusher"})

-----------------------------------------------------------------------------
(* accept(): the select is biased, the signal is looked at first. *)

SelectUnbiased(l) ==
  /\ Running
  /\ listener[l] = "select"
  /\ listener' = [listener EXCEPT ![l] = "polled"]
  /\ UNCHANGED <<main, stop, result, conn, tunnel, flusher, mutex, seen,
                 counted, filed, served, late, finalOk>>

SelectSignalUnset(l) ==
  /\ Running
  /\ listener[l] = "select"
  /\ ~stop
  /\ listener' = [listener EXCEPT ![l] = "polled"]
  /\ UNCHANGED <<main, stop, result, conn, tunnel, flusher, mutex, seen,
                 counted, filed, served, late, finalOk>>

\* The signal fired: accept returns None, the listener's task ends.
ListenerStops(l) ==
  /\ Running
  /\ listener[l] = "select"
  /\ stop
  /\ listener' = [listener EXCEPT ![l] = "ended"]
  /\ UNCHANGED <<main, stop, result, conn, tunnel, flusher, mutex, seen,
                 counted, filed, served, late, finalOk>>

\* A connection is waiting: its task is spawned with a clone of the signal.
Accept(l, c) ==
  /\ Running
  /\ listener[l] = "polled"
  /\ conn[c] = "none"
  /\ conn' = [conn EXCEPT ![c] = IF l \in TlsListeners THEN "handshake" ELSE "idle"]
  /\ listener' = [listener EXCEPT ![l] = "select"]
  /\ late' = [late EXCEPT ![l] = IF stop THEN @ + 1 ELSE @]
  /\ UNCHANGED <<main, stop, result, tunnel, flusher, mutex, seen,
                 counted, filed, served, finalOk>>

\* Nothing to accept; a transient error puts the loop to sleep for 5 ms, during
\* which the signal is not looked at; any other error ends the listener.
AcceptElse(l, outcome) ==
  /\ Running
  /\ listener[l] = "polled"
  /\ listener' = [listener EXCEPT ![l] = outcome]
  /\ UNCHANGED <<main, stop, result, conn, tunnel, flusher, mutex, seen,
                 counted, filed, served, late, finalOk>>

Wake(l) ==
  /\ Running
  /\ listener[l] = "asleep"
  /\ listener' = [listener EXCEPT ![l] = "select"]
  /\ UNCHANGED <<main, stop, result, conn, tunnel, flusher, mutex, seen,
                 counted, filed, served, late, finalOk>>

-----------------------------------------------------------------------------
(* A connection's task: serve_connection, after the handshake for TLS. *)

Move(c, from, to) ==
  /\ Running
  /\ conn[c] = from
  /\ conn' = [conn EXCEPT ![c] = to]

\* The handshake is not raced with the signal; it may fail, time out or be an
\* ACME challenge, which ends the task.
Handshake(c, to) ==
  /\ to \in {"idle", "none"}
  /\ Move(c, "handshake", to)
  /\ UNCHANGED <<main, stop, result, listener, tunnel, flusher, mutex, seen,
                 counted, filed, served, late, finalOk>>

Request(c) ==
  /\ served < MaxBytes
  /\ Move(c, "idle", "busy")
  /\ UNCHANGED <<main, stop, result, listener, tunnel, flusher, mutex, seen,
                 counted, filed, served, late, finalOk>>

\* The response body is counted as it is sent.
Respond(c) ==
  /\ \/ Move(c, "busy", "idle")
     \/ Move(c, "closing", "none")
  /\ counted' = counted + 1
  /\ served' = served + 1
  /\ UNCHANGED <<main, stop, result, listener, tunnel, flusher, mutex, seen,
                 filed, late, finalOk>>

\* graceful_shutdown: an idle connection closes, a busy one after its response.
GracefulShutdown(c) ==
  /\ stop
  /\ \/ Move(c, "idle", "none")
     \/ Move(c, "busy", "closing")
  /\ UNCHANGED <<main, stop, result, listener, tunnel, flusher, mutex, seen,
                 counted, filed, served, late, finalOk>>

\* The client closes the connection.
ClientGone(c) ==
  /\ \E from \in {"idle", "busy", "closing"} : Move(c, from, "none")
  /\ UNCHANGED <<main, stop, result, listener, tunnel, flusher, mutex, seen,
                 counted, filed, served, late, finalOk>>

\* handle_upgrade_response: the connection's task ends and a task of its own,
\* without a signal, copies in both directions.
Upgrade(c) ==
  /\ tunnel[c].state = "none"
  /\ \E from \in {"busy", "closing"} : Move(c, from, "none")
  /\ tunnel' = [tunnel EXCEPT ![c].state = "open"]
  /\ UNCHANGED <<main, stop, result, listener, flusher, mutex, seen,
                 counted, filed, served, late, finalOk>>

TunnelCopies(c) ==
  /\ Running
  /\ tunnel[c].state = "open"
  /\ tunnel[c].bytes < MaxBytes
  /\ tunnel' = [tunnel EXCEPT ![c].bytes = @ + 1]
  /\ UNCHANGED <<main, stop, result, listener, conn, flusher, mutex, seen,
                 counted, filed, served, late, finalOk>>

\* copy_bidirectional returns the byte counts only when both directions ended
\* without an error.
TunnelCloses(c, ok) ==
  /\ Running
  /\ tunnel[c].state = "open"
  /\ counted' = IF ok THEN counted + tunnel[c].bytes ELSE counted
  /\ tunnel' = [tunnel EXCEPT ![c].state =
                  IF ok \/ tunnel[c].bytes = 0 THEN "closed" ELSE "lost"]
  /\ UNCHANGED <<main, stop, result, listener, conn, flusher, mutex, seen,
                 filed, served, late, finalOk>>

-----------------------------------------------------------------------------
(* flush_stats: the flush itself runs on a blocking thread, which the end of *)
(* the runtime waits for.                                                    *)

Tick ==
  /\ Running
  /\ flusher = "waiting"
  /\ flusher' = "blocked"
  /\ UNCHANGED <<main, stop, result, listener, conn, tunnel, mutex, seen,
                 counted, filed, served, late, finalOk>>

FlushBegins ==
  /\ flusher = "blocked"
  /\ mutex = "free"
  /\ mutex' = "flusher"
  /\ seen' = [seen EXCEPT !["flusher"] = counted]
  /\ flusher' = "flushing"
  /\ UNCHANGED <<main, stop, result, listener, conn, tunnel,
                 counted, filed, served, late, finalOk>>

FlushEnds(ok) ==
  /\ flusher = "flushing"
  /\ filed' = IF ok THEN seen["flusher"] ELSE filed
  /\ mutex' = "free"
  /\ flusher' = IF Running THEN "waiting" ELSE "ended"
  /\ UNCHANGED <<main, stop, result, listener, conn, tunnel, seen,
                 counted, served, late, finalOk>>

FlusherStops ==
  /\ Running
  /\ stop
  /\ flusher = "waiting"
  /\ flusher' = "ended"
  /\ UNCHANGED <<main, stop, result, listener, conn, tunnel, mutex, seen,
                 counted, filed, served, late, finalOk>>

-----------------------------------------------------------------------------
(* run(): wait for a signal or for a listener to end, shut down, flush. *)

ShutdownBegins ==
  /\ main = "serving"
  /\ main' = "draining"
  /\ stop' = TRUE
  /\ UNCHANGED <<result, listener, conn, tunnel, flusher, mutex, seen,
                 counted, filed, served, late, finalOk>>

\* A listener that ended on its own has the same effect as a signal; its error
\* is returned at the end.
ServerEnded ==
  /\ \E l \in Listeners : listener[l] = "ended"
  /\ ShutdownBegins

\* Shutdown::shutdown sees the channel closed, or its timeout first.
Drained ==
  /\ main = "draining"
  /\ Holders = {}
  /\ main' = "final"
  /\ result' = "clean"
  /\ UNCHANGED <<stop, listener, conn, tunnel, flusher, mutex, seen,
                 counted, filed, served, late, finalOk>>

GraceAfterRequests ==
  /\ main = "draining"
  /\ \A c \in Conns : conn[c] \in {"none", "idle"}
  /\ main' = "final"
  /\ result' = "forced"
  /\ UNCHANGED <<stop, listener, conn, tunnel, flusher, mutex, seen,
                 counted, filed, served, late, finalOk>>

GraceExpires ==
  /\ main = "draining"
  /\ main' = "final"
  /\ result' = "forced"
  /\ UNCHANGED <<stop, listener, conn, tunnel, flusher, mutex, seen,
                 counted, filed, served, late, finalOk>>

FinalFlushUnlocked ==
  /\ main = "final"
  /\ mutex' = "main"
  /\ seen' = [seen EXCEPT !["main"] = counted]
  /\ main' = "flushing"
  /\ UNCHANGED <<stop, result, listener, conn, tunnel, flusher,
                 counted, filed, served, late, finalOk>>

FinalFlushBegins ==
  /\ main = "final"
  /\ mutex = "free"
  /\ mutex' = "main"
  /\ seen' = [seen EXCEPT !["main"] = counted]
  /\ main' = "flushing"
  /\ UNCHANGED <<stop, result, listener, conn, tunnel, flusher,
                 counted, filed, served, late, finalOk>>

\* run returns and the runtime is dropped, and with it every task but a flush
\* on its blocking thread.
Exit(ok) ==
  /\ main = "flushing"
  /\ filed' = IF ok THEN seen["main"] ELSE filed
  /\ finalOk' = ok
  /\ mutex' = "free"
  /\ main' = "exited"
  /\ listener' = [l \in Listeners |-> "ended"]
  /\ conn' = [c \in Conns |-> "none"]
  /\ flusher' = IF flusher \in {"blocked", "flushing"} THEN flusher ELSE "ended"
  /\ UNCHANGED <<stop, result, tunnel, seen, counted, served, late>>

-----------------------------------------------------------------------------
Connection(c) ==
  \/ \E to \in {"idle", "none"} : Handshake(c, to)
  \/ Request(c) \/ Respond(c) \/ GracefulShutdown(c) \/ ClientGone(c)
  \/ Upgrade(c) \/ TunnelCopies(c)
  \/ \E ok \in BOOLEAN : TunnelCloses(c, ok)

Listener(l) ==
  \/ SelectSignalUnset(l) \/ ListenerStops(l) \/ Wake(l)
  \/ \E c \in Conns : Accept(l, c)
  \/ \E outcome \in {"select", "asleep", "ended"} : AcceptElse(l, outcome)

Flush == FlushBegins \/ \E ok \in BOOLEAN : FlushEnds(ok)

FinalFlush == FinalFlushBegins \/ \E ok \in BOOLEAN : Exit(ok)

Next ==
  \/ \E l \in Listeners : Listener(l)
  \/ \E c \in Conns : Connection(c)
  \/ Tick \/ FlusherStops \/ Flush
  \/ ShutdownBegins \/ ServerEnded \/ Drained \/ GraceExpires
  \/ FinalFlush

Spec == Init /\ [][Next]_vars

\* The grace timer fires and file writes end.  No fairness for connections,
\* clients or upstream servers.
FairSpec ==
  /\ Spec
  /\ WF_vars(Drained \/ GraceExpires)
  /\ WF_vars(Flush)
  /\ SF_vars(FinalFlush)

-----------------------------------------------------------------------------
(* Properties *)

\* When shutdown() reports that everything finished, no listener, connection
\* or flush is left and none can appear, although listeners clone the signal
\* for connections they accept while the shutdown begins (Shutdown::shutdown).
DrainedClean ==
  result = "clean" =>
    /\ \A l \in Listeners : listener[l] = "ended"
    /\ \A c \in Conns : conn[c] = "none"
    /\ flusher = "ended"

\* A listener takes at most one more connection once the shutdown has begun:
\* the one it was about to accept (accept, biased select).
OneLateAccept == \A l \in Listeners : late[l] <= 1

\* After a clean shutdown whose flush succeeded, the file has all the traffic
\* of connections (run flushes after shutdown() has returned).
CleanExitFiled ==
  main = "exited" /\ result = "clean" /\ finalOk => filed >= served

\* The file never goes back, also when the flush on exit overlaps a minute
\* flush that the grace period did not wait for (Stats::flush_on).
FileGrows == [][filed' >= filed]_vars

\* A shutdown that began ends, whatever connections and tunnels do
\* (SHUTDOWN_GRACE, run).
ShutdownEnds == stop ~> (main = "exited")

(* The inductive invariant behind the safety properties. *)

\* What a flush read is newer than the file, and the flush on exit after a
\* clean shutdown read the traffic of every connection.
Accounts ==
  /\ served <= counted
  /\ filed <= counted
  /\ \A f \in Flushes : mutex = f => filed <= seen[f] /\ seen[f] <= counted
  /\ main = "flushing" /\ result = "clean" => served <= seen["main"]

\* A listener past the signal check has accepted nothing late.
LateOnce == \A l \in Listeners : ~stop \/ listener[l] = "polled" => late[l] = 0

LifeInv ==
  /\ TypeOK
  /\ DrainedClean
  /\ LateOnce
  /\ OneLateAccept
  /\ Accounts
  /\ CleanExitFiled

(* A statement of the documentation. *)

\* README: "WebSocket traffic is counted when the connection closes."
WebSocketsCounted == \A c \in Conns : tunnel[c].state # "lost"
=============================================================================
