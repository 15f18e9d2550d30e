--------------------------- MODULE LifecycleProofs ---------------------------
(***************************************************************************)
(* Proofs of the safety properties of Lifecycle for every set of listeners *)
(* and connections and any amount of traffic.                              *)
(***************************************************************************)
EXTENDS Lifecycle, TLAPS

\* Initially nothing is accepted, counted or filed.
LEMMA InitInv == Init => LifeInv
<1> SUFFICES ASSUME Init PROVE LifeInv
  OBVIOUS
<1>1. TypeOK
  <2>1. tunnel \in [Conns -> [state : {"none", "open", "closed", "lost"}, bytes : Nat]]
    BY DEF Init
  <2>2. /\ listener \in [Listeners -> {"select", "polled", "asleep", "ended"}]
        /\ conn \in [Conns -> {"none", "handshake", "idle", "busy", "closing"}]
        /\ late \in [Listeners -> Nat]
    BY DEF Init
  <2>3. seen \in [Flushes -> Nat] /\ {counted, filed, served} \subseteq Nat
    BY DEF Init
  <2>4. /\ mutex \in Flushes \cup {"free"}
        /\ mutex = "flusher" <=> flusher = "flushing"
        /\ mutex = "main" <=> main = "flushing"
    BY DEF Init
  <2> QED BY <2>1, <2>2, <2>3, <2>4 DEF Init, TypeOK
<1>2. DrainedClean /\ LateOnce /\ OneLateAccept
  BY DEF Init, DrainedClean, LateOnce, OneLateAccept
<1>3. Accounts /\ CleanExitFiled
  BY DEF Init, Accounts, CleanExitFiled, Flushes
<1> QED BY <1>1, <1>2, <1>3 DEF LifeInv

\* A listener's step: connections are the only thing it can add, and only
\* while it has not ended.
LEMMA ListenerInv ==
  ASSUME LifeInv, NEW l \in Listeners, Listener(l)
  PROVE  LifeInv'
<1> USE DEF LifeInv
<1>1. CASE SelectSignalUnset(l)
  <2>1. TypeOK'
    BY <1>1 DEF TypeOK, SelectSignalUnset
  <2>2. DrainedClean'
    BY <1>1 DEF DrainedClean, TypeOK, SelectSignalUnset
  <2>3. LateOnce' /\ OneLateAccept'
    BY <1>1 DEF LateOnce, OneLateAccept, TypeOK, SelectSignalUnset
  <2>4. Accounts' /\ CleanExitFiled'
    BY <1>1 DEF Accounts, CleanExitFiled, DrainedClean, TypeOK, SelectSignalUnset
  <2> QED BY <2>1, <2>2, <2>3, <2>4
<1>2. CASE ListenerStops(l)
  <2>1. TypeOK'
    BY <1>2 DEF TypeOK, ListenerStops
  <2>2. DrainedClean'
    BY <1>2 DEF DrainedClean, TypeOK, ListenerStops
  <2>3. LateOnce' /\ OneLateAccept'
    BY <1>2 DEF LateOnce, OneLateAccept, TypeOK, ListenerStops
  <2>4. Accounts' /\ CleanExitFiled'
    BY <1>2 DEF Accounts, CleanExitFiled, DrainedClean, TypeOK, ListenerStops
  <2> QED BY <2>1, <2>2, <2>3, <2>4
<1>3. CASE Wake(l)
  <2>1. TypeOK'
    BY <1>3 DEF TypeOK, Wake
  <2>2. DrainedClean'
    BY <1>3 DEF DrainedClean, TypeOK, Wake
  <2>3. LateOnce' /\ OneLateAccept'
    BY <1>3 DEF LateOnce, OneLateAccept, TypeOK, Wake
  <2>4. Accounts' /\ CleanExitFiled'
    BY <1>3 DEF Accounts, CleanExitFiled, DrainedClean, TypeOK, Wake
  <2> QED BY <2>1, <2>2, <2>3, <2>4
<1>4. ASSUME NEW c \in Conns, Accept(l, c) PROVE LifeInv'
  <2>1. TypeOK'
    BY <1>4 DEF TypeOK, Accept
  <2>2. DrainedClean'
    BY <1>4 DEF DrainedClean, TypeOK, Accept
  <2>3. LateOnce' /\ OneLateAccept'
    BY <1>4 DEF LateOnce, OneLateAccept, TypeOK, Accept
  <2>4. Accounts' /\ CleanExitFiled'
    BY <1>4 DEF Accounts, CleanExitFiled, DrainedClean, TypeOK, Accept
  <2> QED BY <2>1, <2>2, <2>3, <2>4
<1>5. ASSUME NEW outcome \in {"select", "asleep", "ended"}, AcceptElse(l, outcome) PROVE LifeInv'
  <2>1. TypeOK'
    BY <1>5 DEF TypeOK, AcceptElse
  <2>2. DrainedClean'
    BY <1>5 DEF DrainedClean, TypeOK, AcceptElse
  <2>3. LateOnce' /\ OneLateAccept'
    BY <1>5 DEF LateOnce, OneLateAccept, TypeOK, AcceptElse
  <2>4. Accounts' /\ CleanExitFiled'
    BY <1>5 DEF Accounts, CleanExitFiled, DrainedClean, TypeOK, AcceptElse
  <2> QED BY <2>1, <2>2, <2>3, <2>4
<1> QED BY <1>1, <1>2, <1>3, <1>4, <1>5 DEF Listener

\* A connection's step: traffic is served while the connection holds a
\* signal, and counted in the same step.
LEMMA ConnectionInv ==
  ASSUME LifeInv, NEW c \in Conns, Connection(c)
  PROVE  LifeInv'
<1> USE DEF LifeInv
<1>1. ASSUME NEW to \in {"idle", "none"}, Handshake(c, to) PROVE LifeInv'
  <2>1. TypeOK'
    BY <1>1 DEF TypeOK, Handshake, Move
  <2>2. DrainedClean'
    BY <1>1 DEF DrainedClean, TypeOK, Handshake, Move
  <2>3. LateOnce' /\ OneLateAccept'
    BY <1>1 DEF LateOnce, OneLateAccept, TypeOK, Handshake, Move
  <2>4. Accounts' /\ CleanExitFiled'
    BY <1>1 DEF Accounts, CleanExitFiled, DrainedClean, TypeOK, Handshake, Move
  <2> QED BY <2>1, <2>2, <2>3, <2>4
<1>2. CASE Request(c)
  <2>1. TypeOK'
    BY <1>2 DEF TypeOK, Request, Move
  <2>2. DrainedClean'
    BY <1>2 DEF DrainedClean, TypeOK, Request, Move
  <2>3. LateOnce' /\ OneLateAccept'
    BY <1>2 DEF LateOnce, OneLateAccept, TypeOK, Request, Move
  <2>4. Accounts' /\ CleanExitFiled'
    BY <1>2 DEF Accounts, CleanExitFiled, DrainedClean, TypeOK, Request, Move
  <2> QED BY <2>1, <2>2, <2>3, <2>4
<1>3. CASE Respond(c)
  <2>1. TypeOK'
    BY <1>3 DEF TypeOK, Respond, Move
  <2>2. DrainedClean'
    BY <1>3 DEF DrainedClean, TypeOK, Respond, Move
  <2>3. LateOnce' /\ OneLateAccept'
    BY <1>3 DEF LateOnce, OneLateAccept, TypeOK, Respond, Move
  <2>4. Accounts' /\ CleanExitFiled'
    BY <1>3 DEF Accounts, CleanExitFiled, DrainedClean, TypeOK, Respond, Move
  <2> QED BY <2>1, <2>2, <2>3, <2>4
<1>4. CASE GracefulShutdown(c)
  <2>1. TypeOK'
    BY <1>4 DEF TypeOK, GracefulShutdown, Move
  <2>2. DrainedClean'
    BY <1>4 DEF DrainedClean, TypeOK, GracefulShutdown, Move
  <2>3. LateOnce' /\ OneLateAccept'
    BY <1>4 DEF LateOnce, OneLateAccept, TypeOK, GracefulShutdown, Move
  <2>4. Accounts' /\ CleanExitFiled'
    BY <1>4 DEF Accounts, CleanExitFiled, DrainedClean, TypeOK, GracefulShutdown, Move
  <2> QED BY <2>1, <2>2, <2>3, <2>4
<1>5. CASE ClientGone(c)
  <2>1. TypeOK'
    BY <1>5 DEF TypeOK, ClientGone, Move
  <2>2. DrainedClean'
    BY <1>5 DEF DrainedClean, TypeOK, ClientGone, Move
  <2>3. LateOnce' /\ OneLateAccept'
    BY <1>5 DEF LateOnce, OneLateAccept, TypeOK, ClientGone, Move
  <2>4. Accounts' /\ CleanExitFiled'
    BY <1>5 DEF Accounts, CleanExitFiled, DrainedClean, TypeOK, ClientGone, Move
  <2> QED BY <2>1, <2>2, <2>3, <2>4
<1>6. CASE Upgrade(c)
  <2>1. TypeOK'
    BY <1>6 DEF TypeOK, Upgrade, Move
  <2>2. DrainedClean'
    BY <1>6 DEF DrainedClean, TypeOK, Upgrade, Move
  <2>3. LateOnce' /\ OneLateAccept'
    BY <1>6 DEF LateOnce, OneLateAccept, TypeOK, Upgrade, Move
  <2>4. Accounts' /\ CleanExitFiled'
    BY <1>6 DEF Accounts, CleanExitFiled, DrainedClean, TypeOK, Upgrade, Move
  <2> QED BY <2>1, <2>2, <2>3, <2>4
<1>7. CASE TunnelCopies(c)
  <2>1. TypeOK'
    BY <1>7 DEF TypeOK, TunnelCopies
  <2>2. DrainedClean'
    BY <1>7 DEF DrainedClean, TypeOK, TunnelCopies
  <2>3. LateOnce' /\ OneLateAccept'
    BY <1>7 DEF LateOnce, OneLateAccept, TypeOK, TunnelCopies
  <2>4. Accounts' /\ CleanExitFiled'
    BY <1>7 DEF Accounts, CleanExitFiled, DrainedClean, TypeOK, TunnelCopies
  <2> QED BY <2>1, <2>2, <2>3, <2>4
<1>8. ASSUME NEW ok \in BOOLEAN, TunnelCloses(c, ok) PROVE LifeInv'
  <2>1. TypeOK'
    BY <1>8 DEF TypeOK, TunnelCloses
  <2>2. DrainedClean'
    BY <1>8 DEF DrainedClean, TypeOK, TunnelCloses
  <2>3. LateOnce' /\ OneLateAccept'
    BY <1>8 DEF LateOnce, OneLateAccept, TypeOK, TunnelCloses
  <2>4. Accounts' /\ CleanExitFiled'
    BY <1>8 DEF Accounts, CleanExitFiled, DrainedClean, TypeOK, TunnelCloses
  <2> QED BY <2>1, <2>2, <2>3, <2>4
<1> QED BY <1>1, <1>2, <1>3, <1>4, <1>5, <1>6, <1>7, <1>8 DEF Connection

\* The minute flush: the mutex keeps it apart from the flush on exit.
LEMMA FlusherInv ==
  ASSUME LifeInv, Tick \/ FlusherStops \/ Flush
  PROVE  LifeInv'
<1> USE DEF LifeInv
<1>1. CASE Tick
  <2>1. TypeOK'
    BY <1>1 DEF TypeOK, Tick
  <2>2. DrainedClean'
    BY <1>1 DEF DrainedClean, TypeOK, Tick
  <2>3. LateOnce' /\ OneLateAccept'
    BY <1>1 DEF LateOnce, OneLateAccept, TypeOK, Tick
  <2>4. Accounts' /\ CleanExitFiled'
    BY <1>1 DEF Accounts, CleanExitFiled, DrainedClean, TypeOK, Tick
  <2> QED BY <2>1, <2>2, <2>3, <2>4
<1>2. CASE FlusherStops
  <2>1. TypeOK'
    BY <1>2 DEF TypeOK, FlusherStops
  <2>2. DrainedClean'
    BY <1>2 DEF DrainedClean, TypeOK, FlusherStops
  <2>3. LateOnce' /\ OneLateAccept'
    BY <1>2 DEF LateOnce, OneLateAccept, TypeOK, FlusherStops
  <2>4. Accounts' /\ CleanExitFiled'
    BY <1>2 DEF Accounts, CleanExitFiled, DrainedClean, TypeOK, FlusherStops
  <2> QED BY <2>1, <2>2, <2>3, <2>4
<1>3. CASE FlushBegins
  <2>1. TypeOK'
    BY <1>3 DEF TypeOK, FlushBegins, Flushes
  <2>2. DrainedClean'
    BY <1>3 DEF DrainedClean, TypeOK, FlushBegins, Flushes
  <2>3. LateOnce' /\ OneLateAccept'
    BY <1>3 DEF LateOnce, OneLateAccept, TypeOK, FlushBegins, Flushes
  <2>4. Accounts' /\ CleanExitFiled'
    BY <1>3 DEF Accounts, CleanExitFiled, DrainedClean, TypeOK, FlushBegins, Flushes
  <2> QED BY <2>1, <2>2, <2>3, <2>4
<1>4. ASSUME NEW ok \in BOOLEAN, FlushEnds(ok) PROVE LifeInv'
  <2>1. TypeOK'
    BY <1>4 DEF TypeOK, FlushEnds, Running, Flushes
  <2>2. DrainedClean'
    BY <1>4 DEF DrainedClean, TypeOK, FlushEnds, Running, Flushes
  <2>3. LateOnce' /\ OneLateAccept'
    BY <1>4 DEF LateOnce, OneLateAccept, TypeOK, FlushEnds, Running, Flushes
  <2>4. Accounts' /\ CleanExitFiled'
    BY <1>4 DEF Accounts, CleanExitFiled, DrainedClean, TypeOK, FlushEnds, Running, Flushes
  <2> QED BY <2>1, <2>2, <2>3, <2>4
<1> QED BY <1>1, <1>2, <1>3, <1>4 DEF Flush

\* The steps of run().
LEMMA MainInv ==
  ASSUME LifeInv, ShutdownBegins \/ ServerEnded \/ Drained \/ GraceExpires \/ FinalFlush
  PROVE  LifeInv'
<1> USE DEF LifeInv
<1>1. CASE ShutdownBegins
  <2>1. TypeOK'
    BY <1>1 DEF TypeOK, ShutdownBegins
  <2>2. DrainedClean'
    BY <1>1 DEF DrainedClean, TypeOK, ShutdownBegins
  <2>3. LateOnce' /\ OneLateAccept'
    BY <1>1 DEF LateOnce, OneLateAccept, TypeOK, ShutdownBegins
  <2>4. Accounts' /\ CleanExitFiled'
    BY <1>1 DEF Accounts, CleanExitFiled, DrainedClean, TypeOK, ShutdownBegins
  <2> QED BY <2>1, <2>2, <2>3, <2>4
<1>2. CASE Drained
  <2>1. TypeOK'
    BY <1>2 DEF TypeOK, Drained, Holders
  <2>2. DrainedClean'
    BY <1>2 DEF DrainedClean, TypeOK, Drained, Holders
  <2>3. LateOnce' /\ OneLateAccept'
    BY <1>2 DEF LateOnce, OneLateAccept, TypeOK, Drained, Holders
  <2>4. Accounts' /\ CleanExitFiled'
    BY <1>2 DEF Accounts, CleanExitFiled, DrainedClean, TypeOK, Drained, Holders
  <2> QED BY <2>1, <2>2, <2>3, <2>4
<1>3. CASE GraceExpires
  <2>1. TypeOK'
    BY <1>3 DEF TypeOK, GraceExpires
  <2>2. DrainedClean'
    BY <1>3 DEF DrainedClean, TypeOK, GraceExpires
  <2>3. LateOnce' /\ OneLateAccept'
    BY <1>3 DEF LateOnce, OneLateAccept, TypeOK, GraceExpires
  <2>4. Accounts' /\ CleanExitFiled'
    BY <1>3 DEF Accounts, CleanExitFiled, DrainedClean, TypeOK, GraceExpires
  <2> QED BY <2>1, <2>2, <2>3, <2>4
<1>4. CASE FinalFlushBegins
  <2>1. TypeOK'
    BY <1>4 DEF TypeOK, FinalFlushBegins, Flushes
  <2>2. DrainedClean'
    BY <1>4 DEF DrainedClean, TypeOK, FinalFlushBegins, Flushes
  <2>3. LateOnce' /\ OneLateAccept'
    BY <1>4 DEF LateOnce, OneLateAccept, TypeOK, FinalFlushBegins, Flushes
  <2>4. Accounts' /\ CleanExitFiled'
    BY <1>4 DEF Accounts, CleanExitFiled, DrainedClean, TypeOK, FinalFlushBegins, Flushes
  <2> QED BY <2>1, <2>2, <2>3, <2>4
<1>5. ASSUME NEW ok \in BOOLEAN, Exit(ok) PROVE LifeInv'
  <2>1. TypeOK'
    BY <1>5 DEF TypeOK, Exit, Flushes
  <2>2. DrainedClean'
    BY <1>5 DEF DrainedClean, TypeOK, Exit, Flushes
  <2>3. LateOnce' /\ OneLateAccept'
    BY <1>5 DEF LateOnce, OneLateAccept, TypeOK, Exit, Flushes
  <2>4. Accounts' /\ CleanExitFiled'
    BY <1>5 DEF Accounts, CleanExitFiled, DrainedClean, TypeOK, Exit, Flushes
  <2> QED BY <2>1, <2>2, <2>3, <2>4
<1> QED BY <1>1, <1>2, <1>3, <1>4, <1>5 DEF ServerEnded, FinalFlush

\* Every step, and a step that changes nothing, preserves the invariant.
LEMMA NextInv == LifeInv /\ [Next]_vars => LifeInv'
<1> SUFFICES ASSUME LifeInv, [Next]_vars PROVE LifeInv'
  OBVIOUS
<1>1. CASE Next
  BY <1>1, ListenerInv, ConnectionInv, FlusherInv, MainInv DEF Next
<1>2. CASE UNCHANGED vars
  <2> USE <1>2 DEF LifeInv, vars, sys
  <2>1. TypeOK'
    BY DEF TypeOK
  <2>2. DrainedClean' /\ LateOnce' /\ OneLateAccept'
    BY DEF DrainedClean, LateOnce, OneLateAccept
  <2>3. Accounts' /\ CleanExitFiled'
    BY DEF Accounts, CleanExitFiled
  <2> QED BY <2>1, <2>2, <2>3
<1> QED BY <1>1, <1>2

-----------------------------------------------------------------------------
(* The theorems. *)

\* LifeInv holds in every reachable state, for every instance.
THEOREM LifeInvariant == Spec => []LifeInv
  BY InitInv, NextInv, PTL DEF Spec

\* The variables keep their types, and the mutex is held exactly while a
\* flush runs (Stats::flush_on).
THEOREM TypeCorrect == Spec => []TypeOK
<1>1. LifeInv => TypeOK
  BY DEF LifeInv
<1> QED BY <1>1, LifeInvariant, PTL

\* A shutdown reported as complete has nothing left running
\* (Shutdown::shutdown).
THEOREM ShutdownIsClean == Spec => []DrainedClean
<1>1. LifeInv => DrainedClean
  BY DEF LifeInv
<1> QED BY <1>1, LifeInvariant, PTL

\* A listener accepts at most one connection after the shutdown began
\* (accept, biased select).
THEOREM OneAcceptAfterStop == Spec => []OneLateAccept
<1>1. LifeInv => OneLateAccept
  BY DEF LifeInv
<1> QED BY <1>1, LifeInvariant, PTL

\* A clean exit whose flush succeeded has filed all traffic of connections
\* (run).
THEOREM CleanExitLosesNothing == Spec => []CleanExitFiled
<1>1. LifeInv => CleanExitFiled
  BY DEF LifeInv
<1> QED BY <1>1, LifeInvariant, PTL

\* Only the ends of the two flushes write the file, and each holds the mutex
\* since it read the counters.
LEMMA FiledGrows == LifeInv /\ [Next]_vars => filed' >= filed
<1> SUFFICES ASSUME LifeInv, [Next]_vars PROVE filed' >= filed
  OBVIOUS
<1>1. filed \in Nat /\ seen["flusher"] \in Nat /\ seen["main"] \in Nat
      /\ (flusher = "flushing" => filed <= seen["flusher"])
      /\ (main = "flushing" => filed <= seen["main"])
  BY DEF LifeInv, TypeOK, Accounts, Flushes
<1>2. ASSUME NEW ok \in BOOLEAN, FlushEnds(ok) PROVE filed' >= filed
  BY <1>1, <1>2 DEF FlushEnds
<1>3. ASSUME NEW ok \in BOOLEAN, Exit(ok) PROVE filed' >= filed
  BY <1>1, <1>3 DEF Exit
<1>4. ASSUME UNCHANGED filed PROVE filed' >= filed
  BY <1>1, <1>4
<1>5. ASSUME NEW l \in Listeners, Listener(l) PROVE UNCHANGED filed
  BY <1>5 DEF Listener, SelectSignalUnset, ListenerStops, Wake, Accept, AcceptElse
<1>6. ASSUME NEW c \in Conns, Connection(c) PROVE UNCHANGED filed
  BY <1>6 DEF Connection, Handshake, Request, Respond, GracefulShutdown, ClientGone, Upgrade,
              TunnelCopies, TunnelCloses
<1>7. ASSUME Tick \/ FlusherStops \/ FlushBegins \/ ShutdownBegins \/ ServerEnded \/ Drained
             \/ GraceExpires \/ FinalFlushBegins
      PROVE  UNCHANGED filed
  BY <1>7 DEF Tick, FlusherStops, FlushBegins, ShutdownBegins, ServerEnded, Drained,
              GraceExpires, FinalFlushBegins
<1>8. CASE UNCHANGED vars
  BY <1>4, <1>8 DEF vars, sys
<1> QED BY <1>2, <1>3, <1>4, <1>5, <1>6, <1>7, <1>8 DEF Next, Flush, FinalFlush

\* The stats file never goes back, also when the flush on exit overlaps a
\* minute flush (Stats::flush_on).
THEOREM FileNeverShrinks == Spec => FileGrows
<1>1. LifeInv /\ [Next]_vars => [filed' >= filed]_vars
  BY FiledGrows
<1> QED BY <1>1, LifeInvariant, PTL DEF Spec, FileGrows
==============================================================================
