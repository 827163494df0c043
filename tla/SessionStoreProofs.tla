------------------------- MODULE SessionStoreProofs -------------------------
(***************************************************************************)
(* The session store is correct for any number of sessions, tunnels and    *)
(* readers and any timeout: its invariants hold and it implements the      *)
(* atomic registry.                                                        *)
(***************************************************************************)
EXTENDS SessionStore, TLAPS

\* A session in the store belongs to a handler that is past add.
LiveHandlerRuns == \A s \in sessions : handler[s] = "running"

\* A handler between the two steps of add or of remove holds the index entry,
\* and its session is not in the store.
BusyHandlerHoldsIndex ==
    \A s \in Ids : handler[s] \in {"claimed", "unindexing"} =>
        tunnel_index[TunnelOf[s]] = s /\ s \notin sessions

\* So does the cleanup task between the two steps of its remove, and the
\* handler of that session is not itself taking it out.
BusySweepHoldsIndex ==
    /\ sweep = "unindex" <=> removing # NoId
    /\ removing # NoId =>
           /\ tunnel_index[TunnelOf[removing]] = removing
           /\ removing \notin sessions
           /\ handler[removing] \in {"running", "done"}

\* The inductive strengthening: a session that is being added or taken out has
\* exactly one task working on it, which alone may drop its index entry.
StoreInv ==
    /\ TypeOK
    /\ LiveSessionReachable
    /\ HeldTunnelHasOwner
    /\ LiveHandlerRuns
    /\ BusyHandlerHoldsIndex
    /\ BusySweepHoldsIndex

\* The store starts empty, so nothing is registered or being worked on.
LEMMA InitStoreInv == Init => StoreInv
  BY StoreAssumption DEF Init, StoreInv, TypeOK, LiveSessionReachable, HeldTunnelHasOwner,
     LiveHandlerRuns, BusyHandlerHoldsIndex, BusySweepHoldsIndex, HandlerStates, SweepStates

\* Every step of every task keeps the types.
LEMMA StepTypeOK == TypeOK /\ [Next]_vars => TypeOK'
  <1> SUFFICES ASSUME TypeOK, [Next]_vars PROVE TypeOK'
    OBVIOUS
  <1> USE StoreAssumption DEF TypeOK, HandlerStates, SweepStates, storeVars, sweepVars, readVars
  <1>1. ASSUME NEW s \in Ids, AddClaim(s) PROVE TypeOK'
    BY <1>1 DEF AddClaim
  <1>2. ASSUME NEW s \in Ids, AddInsert(s) PROVE TypeOK'
    BY <1>2 DEF AddInsert
  <1>3. ASSUME NEW s \in Ids, Heartbeat(s) PROVE TypeOK'
    BY <1>3 DEF Heartbeat
  <1>4. ASSUME NEW s \in Ids, RemoveSession(s) PROVE TypeOK'
    BY <1>4 DEF RemoveSession
  <1>5. ASSUME NEW s \in Ids, RemoveIndex(s) PROVE TypeOK'
    BY <1>5 DEF RemoveIndex
  <1>6. CASE SweepStart
    BY <1>6 DEF SweepStart
  <1>7. CASE SweepCollected
    BY <1>7 DEF SweepCollected
  <1>8. CASE SweepUnindex
    BY <1>8 DEF SweepUnindex
  <1>9. ASSUME NEW s \in Ids, SweepVisit(s) PROVE TypeOK'
    BY <1>9 DEF SweepVisit
  <1>10. ASSUME NEW s \in Ids, SweepRemove(s) PROVE TypeOK'
    BY <1>10 DEF SweepRemove
  <1>11. ASSUME NEW r \in Readers, LookupSession(r) PROVE TypeOK'
    BY <1>11 DEF LookupSession
  <1>12. ASSUME NEW r \in Readers, NEW t \in Tunnels, LookupIndex(r, t) PROVE TypeOK'
    BY <1>12 DEF LookupIndex
  <1>13. CASE Tick
    BY <1>13 DEF Tick
  <1>14. CASE UNCHANGED vars
    BY <1>14 DEF vars
  <1>15. QED
    BY <1>1, <1>2, <1>3, <1>4, <1>5, <1>6, <1>7, <1>8, <1>9, <1>10, <1>11, <1>12, <1>13,
       <1>14 DEF Next, Sweep

\* Every step keeps the inductive invariant.  Only the steps that write one of
\* the two maps, or start or end an operation, can disturb it.
LEMMA StepStoreInv == StoreInv /\ [Next]_vars => StoreInv'
  <1> SUFFICES ASSUME StoreInv, [Next]_vars PROVE StoreInv'
    OBVIOUS
  <1>0. TypeOK'
    BY StepTypeOK DEF StoreInv
  <1> USE StoreAssumption, <1>0 DEF StoreInv, TypeOK, LiveSessionReachable, HeldTunnelHasOwner,
      LiveHandlerRuns, BusyHandlerHoldsIndex, BusySweepHoldsIndex, storeVars, sweepVars
  <1>1. ASSUME NEW s \in Ids, AddClaim(s) PROVE StoreInv'
    BY <1>1 DEF AddClaim
  <1>2. ASSUME NEW s \in Ids, AddInsert(s) PROVE StoreInv'
    BY <1>2 DEF AddInsert
  <1>3. ASSUME NEW s \in Ids, Heartbeat(s) PROVE StoreInv'
    BY <1>3 DEF Heartbeat
  <1>4. ASSUME NEW s \in Ids, RemoveSession(s) PROVE StoreInv'
    BY <1>4 DEF RemoveSession
  <1>5. ASSUME NEW s \in Ids, RemoveIndex(s) PROVE StoreInv'
    BY <1>5 DEF RemoveIndex
  <1>6. CASE SweepStart
    BY <1>6 DEF SweepStart
  <1>7. CASE SweepCollected
    BY <1>7 DEF SweepCollected
  <1>8. CASE SweepUnindex
    BY <1>8 DEF SweepUnindex
  <1>9. ASSUME NEW s \in Ids, SweepVisit(s) PROVE StoreInv'
    BY <1>9 DEF SweepVisit
  <1>10. ASSUME NEW s \in Ids, SweepRemove(s) PROVE StoreInv'
    BY <1>10 DEF SweepRemove
  <1>11. ASSUME NEW r \in Readers, LookupSession(r) PROVE StoreInv'
    BY <1>11 DEF LookupSession
  <1>12. ASSUME NEW r \in Readers, NEW t \in Tunnels, LookupIndex(r, t) PROVE StoreInv'
    BY <1>12 DEF LookupIndex
  <1>13. CASE Tick
    BY <1>13 DEF Tick
  <1>14. CASE UNCHANGED vars
    BY <1>14 DEF vars
  <1>15. QED
    BY <1>1, <1>2, <1>3, <1>4, <1>5, <1>6, <1>7, <1>8, <1>9, <1>10, <1>11, <1>12, <1>13,
       <1>14 DEF Next, Sweep

\* The invariants of the session store hold in every reachable state.
THEOREM StoreInvariant == Spec => []StoreInv
  BY InitStoreInv, StepStoreInv, PTL DEF Spec

\* Every session in the store is found under its tunnel id, and no index entry
\* is left behind, for any number of sessions, tunnels and readers.
THEOREM StoreSafety == Spec => [](LiveSessionReachable /\ HeldTunnelHasOwner)
  <1>1. StoreInv => LiveSessionReachable /\ HeldTunnelHasOwner
    BY DEF StoreInv
  <1>2. QED
    BY <1>1, StoreInvariant, PTL

\* The second half on its own: a tunnel id that is held always has a session,
\* or a task between its two steps, that will free it.
THEOREM HeldTunnelOwned == Spec => []HeldTunnelHasOwner
  BY StoreSafety, PTL

\* The variables of the store keep their types.
THEOREM StoreTypeCorrect == Spec => []TypeOK
  <1>1. StoreInv => TypeOK
    BY DEF StoreInv
  <1>2. QED
    BY <1>1, StoreInvariant, PTL

-----------------------------------------------------------------------------
(* The refinement: each step of the store is one step of the registry, or  *)
(* none.                                                                   *)

\* The empty store is the empty registry.
LEMMA InitRegistry == Init => Registry!Init
  BY StoreAssumption DEF Init, Registry!Init, phase

\* Two functions that differ at one point only.
LEMMA ExceptOne ==
    ASSUME NEW S, NEW f, NEW g, f = [x \in S |-> f[x]], g = [x \in S |-> g[x]],
           NEW s \in S, \A x \in S \ {s} : g[x] = f[x]
    PROVE  g = [f EXCEPT ![s] = g[s]]
  OBVIOUS

\* A step that changes the phase of one session only is a move of the registry.
LEMMA MoveOne ==
    ASSUME NEW s \in Ids, NEW from, NEW to, phase[s] = from, phase'[s] = to,
           \A x \in Ids \ {s} : phase'[x] = phase[x], UNCHANGED answer
    PROVE  Registry!Move(s, from, to)
  <1>1. phase = [x \in Ids |-> phase[x]]
    BY DEF phase
  <1>2. phase' = [x \in Ids |-> phase'[x]]
    BY DEF phase
  <1>3. phase' = [phase EXCEPT ![s] = to]
    BY <1>1, <1>2, ExceptOne
  <1>4. QED
    BY <1>3 DEF Registry!Move

\* The handler and the cleanup task move one session of the registry at a time.
LEMMA StepRegistry ==
    StoreInv /\ StoreInv' /\ [Next]_vars => [Registry!Next]_(Registry!rvars)
  <1> SUFFICES ASSUME StoreInv, StoreInv', [Next]_vars
               PROVE  [Registry!Next]_(Registry!rvars)
    OBVIOUS
  <1> USE StoreAssumption DEF StoreInv, TypeOK, LiveSessionReachable, HeldTunnelHasOwner,
      LiveHandlerRuns, BusyHandlerHoldsIndex, BusySweepHoldsIndex, HandlerStates,
      storeVars, sweepVars, readVars
  <1>1. ASSUME NEW s \in Ids, AddClaim(s) PROVE Registry!Claim(s) \/ Registry!Refuse(s)
    <2>1. CASE tunnel_index[TunnelOf[s]] = NoId
      <3>1. ~Registry!Taken(TunnelOf[s])
        BY <1>1, <2>1 DEF AddClaim, Registry!Taken, Registry!Holds, phase
      <3>2. Registry!Move(s, "idle", "claimed")
        BY <1>1, <2>1, MoveOne DEF AddClaim, phase
      <3>3. QED
        BY <3>1, <3>2 DEF Registry!Claim
    <2>2. CASE tunnel_index[TunnelOf[s]] # NoId
      <3>1. tunnel_index[TunnelOf[s]] # s
        BY <1>1, <2>2 DEF AddClaim
      <3>2. Registry!Taken(TunnelOf[s])
        BY <1>1, <2>2 DEF AddClaim, Registry!Taken, Registry!Holds, phase
      <3>3. Registry!Move(s, "idle", "refused")
        BY <1>1, <2>2, <3>1, MoveOne DEF AddClaim, phase
      <3>4. QED
        BY <3>2, <3>3 DEF Registry!Refuse
    <2>3. QED
      BY <2>1, <2>2
  <1>2. ASSUME NEW s \in Ids, AddInsert(s) PROVE Registry!Publish(s)
    BY <1>2, MoveOne DEF AddInsert, Registry!Publish, phase
  <1>3. ASSUME NEW s \in Ids, Heartbeat(s) PROVE UNCHANGED <<phase, answer>>
    BY <1>3 DEF Heartbeat, phase
  <1>4. ASSUME NEW s \in Ids, RemoveSession(s)
        PROVE  Registry!Retract(s) \/ UNCHANGED <<phase, answer>>
    <2>1. CASE s \in sessions
      BY <1>4, <2>1, MoveOne DEF RemoveSession, Registry!Retract, phase
    <2>2. CASE s \notin sessions
      BY <1>4, <2>2 DEF RemoveSession, phase
    <2>3. QED
      BY <2>1, <2>2
  <1>5. ASSUME NEW s \in Ids, RemoveIndex(s) PROVE Registry!Release(s)
    BY <1>5, MoveOne DEF RemoveIndex, Registry!Release, phase
  <1>6. CASE SweepStart \/ SweepCollected \/ Tick \/ UNCHANGED vars
    BY <1>6 DEF SweepStart, SweepCollected, Tick, vars, phase, Registry!rvars
  <1>7. ASSUME SweepUnindex PROVE Registry!Release(removing)
    BY <1>7, MoveOne DEF SweepUnindex, Registry!Release, phase
  <1>8. ASSUME NEW s \in Ids, SweepVisit(s) PROVE UNCHANGED <<phase, answer>>
    BY <1>8 DEF SweepVisit, phase
  <1>9. ASSUME NEW s \in Ids, SweepRemove(s)
        PROVE  Registry!Retract(s) \/ UNCHANGED <<phase, answer>>
    <2>1. CASE s \in sessions
      BY <1>9, <2>1, MoveOne DEF SweepRemove, Registry!Retract, phase
    <2>2. CASE s \notin sessions
      BY <1>9, <2>2 DEF SweepRemove, phase
    <2>3. QED
      BY <2>1, <2>2
  <1>10. ASSUME NEW r \in Readers, LookupSession(r) PROVE Registry!Lookup(r, reading[r])
    <2> DEFINE id == tunnel_index[reading[r]]
    <2>1. UNCHANGED phase
      BY <1>10 DEF LookupSession, phase
    <2>2. CASE id \in sessions
      <3>1. id \in Ids /\ TunnelOf[id] = reading[r] /\ phase[id] = "published"
        BY <1>10, <2>2 DEF LookupSession, phase
      <3>2. QED
        BY <1>10, <2>1, <2>2, <3>1 DEF LookupSession, Registry!Lookup
    <2>3. CASE id \notin sessions
      <3>1. \A s \in Ids : TunnelOf[s] = reading[r] => phase[s] # "published"
        BY <1>10, <2>3 DEF LookupSession, phase
      <3>2. QED
        BY <1>10, <2>1, <2>3, <3>1 DEF LookupSession, Registry!Lookup
    <2>4. QED
      BY <2>2, <2>3
  <1>11. ASSUME NEW r \in Readers, NEW t \in Tunnels, LookupIndex(r, t)
         PROVE  Registry!Lookup(r, t) \/ UNCHANGED <<phase, answer>>
    BY <1>11 DEF LookupIndex, Registry!Lookup, phase
  <1>12. ASSUME SweepUnindex PROVE removing \in Ids
    BY <1>12 DEF SweepUnindex
  <1>13. ASSUME NEW r \in Readers, LookupSession(r) PROVE reading[r] \in Tunnels
    BY <1>13 DEF LookupSession
  <1>14. QED
    BY <1>1, <1>2, <1>3, <1>4, <1>5, <1>6, <1>7, <1>8, <1>9, <1>10, <1>11, <1>12, <1>13
    DEF Next, Sweep, Registry!Next, Registry!rvars

\* The two unlocked maps behave as one atomic registry.
THEOREM StoreImplementsRegistry == Spec => ImplementsRegistry
  BY InitRegistry, StepRegistry, StoreInvariant, PTL DEF Spec, ImplementsRegistry, Registry!Spec
=============================================================================
