------------------------ MODULE TunnelServerProofs -------------------------
(***************************************************************************)
(* For any number of connections, any timeout, any chunk bound below it    *)
(* and any number of chunks: TunnelServer is type correct, an evicted      *)
(* handler acts on one frame at most, and a throttled session is never     *)
(* collected by the sweep.                                                 *)
(***************************************************************************)
EXTENDS TunnelServer, TLAPS

\* A connection that has not come in has no handler.
OffIsIdle == \A c \in Conns : client[c] = "off" => handler[c] = "none"

\* A session exists only from Register on.
SessionRegistered == \A c \in sessions : handler[c] \notin {"none", "control", "handshake"}

\* A handler that acted late has no session left and is between frames.
LateIsLast ==
    \A c \in Conns : late[c] # 0 =>
        late[c] = 1 /\ c \notin sessions /\ handler[c] \in {"serving", "ended"}

\* The heartbeat of a throttled session is no older than its current chunk.
ThrottleAge ==
    \A c \in sessions : handler[c] = "throttle" => age[c] <= waited[c]

\* A throttled handler has a chunk left to wait for.
ThrottleLeft == \A c \in Conns : handler[c] = "throttle" => left[c] \in 1 .. MaxChunks

ServerInv ==
    TypeOK /\ OffIsIdle /\ SessionRegistered /\ LateIsLast /\ ThrottleAge /\ ThrottleLeft

\* Init establishes the invariant.
LEMMA InitServerInv == Init => ServerInv
  BY ServerAssumption
  DEF Init, ServerInv, TypeOK, OffIsIdle, SessionRegistered, LateIsLast, ThrottleAge,
      ThrottleLeft, HandlerStates

\* Every step keeps the types.
LEMMA StepServerTypeOK == TypeOK /\ ThrottleLeft /\ [Next]_vars => TypeOK'
<1> SUFFICES ASSUME TypeOK, ThrottleLeft, [Next]_vars PROVE TypeOK'
  OBVIOUS
<1> USE ServerAssumption DEF TypeOK, HandlerStates, wireVars, timeVars
<1>1. ASSUME NEW c \in Conns, Accept(c) PROVE TypeOK'
  BY <1>1 DEF Accept, Goto
<1>2. ASSUME NEW c \in Conns, ControlStream(c) \/ ControlFails(c) PROVE TypeOK'
  BY <1>2 DEF ControlStream, ControlFails, Goto
<1>3. ASSUME NEW c \in Conns, HandshakeFails(c) \/ Register(c) PROVE TypeOK'
  BY <1>3 DEF HandshakeFails, Register, Goto
<1>4. ASSUME NEW c \in Conns, SendSuccess(c) \/ SendSuccessFails(c) PROVE TypeOK'
  BY <1>4 DEF SendSuccess, SendSuccessFails, Goto
<1>5. ASSUME NEW c \in Conns, ReadFrame(c) \/ ReadControl(c) PROVE TypeOK'
  BY <1>5 DEF ReadFrame, ReadControl, EndLoop, Remove, Goto
<1>6. ASSUME NEW c \in Conns, ReadEof(c) \/ ReadError(c) \/ PongFails(c) PROVE TypeOK'
  BY <1>6 DEF ReadEof, ReadError, PongFails, EndLoop, Remove, Goto
<1>7. ASSUME NEW c \in Conns, ThrottleChunk(c) PROVE TypeOK'
  BY <1>7 DEF ThrottleChunk, Goto, ThrottleLeft
<1>8. ASSUME NEW c \in Conns, Act(c) PROVE TypeOK'
  BY <1>8 DEF Act, CountLate, Goto
<1>9. ASSUME NEW c \in Conns, SweepRemove(c) PROVE TypeOK'
  BY <1>9 DEF SweepRemove, Remove
<1>10. ASSUME NEW c \in Conns, IngressOpen(c) \/ RelayEnds(c) \/ Flush(c) \/ FlushFails(c)
       PROVE TypeOK'
  BY <1>10 DEF IngressOpen, RelayEnds, Flush, FlushFails
<1>11. ASSUME NEW c \in Conns, ClientHandshake(c) \/ ClientLeaves(c) \/ ClientEof(c)
       PROVE TypeOK'
  BY <1>11 DEF ClientHandshake, ClientLeaves, ClientEof
<1>12. CASE SweepCollect
  BY <1>12 DEF SweepCollect
<1>13. CASE Tick
  BY <1>13 DEF Tick
<1>14. CASE UNCHANGED vars
  BY <1>14 DEF vars
<1>15. QED
  BY <1>1, <1>2, <1>3, <1>4, <1>5, <1>6, <1>7, <1>8, <1>9, <1>10, <1>11, <1>12, <1>13, <1>14
  DEF Next, Handler

\* Every step keeps the rest of the invariant.
LEMMA StepServerInv == ServerInv /\ [Next]_vars => ServerInv'
<1> SUFFICES ASSUME ServerInv, [Next]_vars PROVE ServerInv'
  OBVIOUS
<1>0. TypeOK'
  BY StepServerTypeOK DEF ServerInv
<1> DEFINE Rest == OffIsIdle /\ SessionRegistered /\ LateIsLast /\ ThrottleAge /\ ThrottleLeft
<1> SUFFICES Rest'
  BY <1>0 DEF ServerInv
<1> USE <1>0, ServerAssumption
    DEF ServerInv, TypeOK, HandlerStates, wireVars, timeVars,
        OffIsIdle, SessionRegistered, LateIsLast, ThrottleAge, ThrottleLeft
<1>1. ASSUME NEW c \in Conns, Accept(c) PROVE Rest'
  BY <1>1 DEF Accept, Goto
<1>2. ASSUME NEW c \in Conns, ControlStream(c) \/ ControlFails(c) PROVE Rest'
  BY <1>2 DEF ControlStream, ControlFails, Goto
<1>3. ASSUME NEW c \in Conns, HandshakeFails(c) \/ Register(c) PROVE Rest'
  BY <1>3 DEF HandshakeFails, Register, Goto
<1>4. ASSUME NEW c \in Conns, SendSuccess(c) \/ SendSuccessFails(c) PROVE Rest'
  BY <1>4 DEF SendSuccess, SendSuccessFails, Goto
<1>5. ASSUME NEW c \in Conns, ReadFrame(c) \/ ReadControl(c) PROVE Rest'
  BY <1>5 DEF ReadFrame, ReadControl, EndLoop, Remove, Goto
<1>6. ASSUME NEW c \in Conns, ReadEof(c) \/ ReadError(c) \/ PongFails(c) PROVE Rest'
  BY <1>6 DEF ReadEof, ReadError, PongFails, EndLoop, Remove, Goto
<1>7. ASSUME NEW c \in Conns, ThrottleChunk(c) PROVE Rest'
  BY <1>7 DEF ThrottleChunk, Goto
<1>8. ASSUME NEW c \in Conns, Act(c) PROVE Rest'
  BY <1>8 DEF Act, CountLate, Goto
<1>9. ASSUME NEW c \in Conns, SweepRemove(c) PROVE Rest'
  BY <1>9 DEF SweepRemove, Remove
<1>10. ASSUME NEW c \in Conns, IngressOpen(c) \/ RelayEnds(c) \/ Flush(c) \/ FlushFails(c)
       PROVE Rest'
  BY <1>10 DEF IngressOpen, RelayEnds, Flush, FlushFails
<1>11. ASSUME NEW c \in Conns, ClientHandshake(c) \/ ClientLeaves(c) \/ ClientEof(c)
       PROVE Rest'
  BY <1>11 DEF ClientHandshake, ClientLeaves, ClientEof
<1>12. CASE SweepCollect
  BY <1>12 DEF SweepCollect
<1>13. CASE Tick
  BY <1>13 DEF Tick
<1>14. CASE UNCHANGED vars
  BY <1>14 DEF vars
<1>15. QED
  BY <1>1, <1>2, <1>3, <1>4, <1>5, <1>6, <1>7, <1>8, <1>9, <1>10, <1>11, <1>12, <1>13, <1>14
  DEF Next, Handler

\* A sweep that collects a session finds it older than the timeout, which the
\* session of a throttled handler cannot be.
LEMMA StepNotCollected ==
    ServerInv /\ [Next]_vars => \A c \in to_remove' \ to_remove : handler[c] # "throttle"
<1> SUFFICES ASSUME ServerInv, [Next]_vars, NEW c \in to_remove' \ to_remove
             PROVE handler[c] # "throttle"
  OBVIOUS
<1>1. SweepCollect
  BY DEF Next, Handler, Accept, ControlStream, ControlFails, ReadControl,
     HandshakeFails, Register, SendSuccess, SendSuccessFails,
     ReadFrame, ReadEof, ReadError, ThrottleChunk, Act, PongFails, SweepRemove, IngressOpen,
     RelayEnds, Flush, FlushFails, ClientHandshake, ClientLeaves, ClientEof, Tick, vars
<1>2. c \in sessions /\ age[c] > Timeout
  BY <1>1 DEF SweepCollect
<1>3. waited[c] <= Timeout /\ age[c] \in Nat /\ waited[c] \in Nat
  BY <1>2, ServerAssumption DEF ServerInv, TypeOK
<1>4. QED
  BY <1>2, <1>3, ServerAssumption DEF ServerInv, ThrottleAge

\* The inductive invariant holds.
THEOREM ServerInvariant == Spec => []ServerInv
<1>1. QED
  BY InitServerInv, StepServerInv, PTL DEF Spec

\* The server is type correct.
THEOREM ServerTypeCorrect == Spec => []TypeOK
<1>1. ServerInv => TypeOK
  BY DEF ServerInv
<1>2. QED
  BY <1>1, ServerInvariant, PTL

\* A handler that lost its session acts on the frame it holds and on no other.
THEOREM EvictedHandlerStops == Spec => []LateFrames
<1>1. ServerInv => LateFrames
  BY DEF ServerInv, LateIsLast, LateFrames, TypeOK
<1>2. QED
  BY <1>1, ServerInvariant, PTL

\* However long a throttle lasts, its session is never collected as stale.
THEOREM LongThrottleSurvives == Spec => ThrottleNotCollected
<1>1. ServerInv /\ [Next]_vars => [\A c \in to_remove' \ to_remove : handler[c] # "throttle"]_vars
  BY StepNotCollected
<1>2. QED
  BY <1>1, ServerInvariant, PTL DEF Spec, ThrottleNotCollected
=============================================================================
