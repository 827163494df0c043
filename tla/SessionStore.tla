---------------------------- MODULE SessionStore ----------------------------
(***************************************************************************)
(* ferrotunnel-core/src/tunnel/session.rs: SessionStore, two concurrent    *)
(* maps (tunnel_index and sessions) that no lock spans.  Every access to   *)
(* one of the maps is one step; an operation that touches both is two, and *)
(* any other task may run in between.  The tasks are the connection        *)
(* handlers (one per session), the periodic cleanup task and the ingress   *)
(* tasks that look a session up by its tunnel id.                          *)
(***************************************************************************)
EXTENDS Naturals, FiniteSets

CONSTANTS
    Ids,        \* session ids (Uuid::new_v4: never used twice)
    Tunnels,    \* tunnel ids
    TunnelOf,   \* Session.tunnel_id, fixed when the session is created
    Readers,    \* ingress tasks
    NoId,       \* no session
    NoTunnel,   \* no tunnel
    Timeout,    \* session_timeout
    MaxTime     \* bound on the clock

ASSUME StoreAssumption ==
    /\ NoId \notin Ids
    /\ NoTunnel \notin Tunnels
    /\ TunnelOf \in [Ids -> Tunnels]
    /\ Timeout \in Nat
    /\ MaxTime \in Nat

VARIABLES
    tunnel_index,   \* tunnel id -> session id
    sessions,       \* the ids that are keys of the sessions map
    last_heartbeat, \* Session.last_heartbeat
    handler,        \* where the handler task of each session is
    sweep,          \* where the cleanup task is
    sweep_now,      \* its `now`
    to_visit,       \* the keys its iteration has not reached
    to_remove,      \* its `to_remove`
    removing,       \* the session whose index entry it has still to remove
    reading,        \* the index entry a reader holds a guard on
    answer,         \* the last answer of each reader
    clock

vars == <<tunnel_index, sessions, last_heartbeat, handler, sweep, sweep_now,
          to_visit, to_remove, removing, reading, answer, clock>>
storeVars == <<tunnel_index, sessions, last_heartbeat>>
sweepVars == <<sweep, sweep_now, to_visit, to_remove, removing>>
readVars  == <<reading, answer>>

HandlerStates == {"new", "claimed", "running", "unindexing", "refused", "done"}
SweepStates   == {"idle", "collect", "remove", "unindex"}

\* A DashMap guard held by a reader keeps writers off the entry.
Guarded(t) == \E r \in Readers : reading[r] = t

Init ==
    /\ tunnel_index = [t \in Tunnels |-> NoId]
    /\ sessions = {}
    /\ last_heartbeat = [s \in Ids |-> 0]
    /\ handler = [s \in Ids |-> "new"]
    /\ sweep = "idle"
    /\ sweep_now = 0
    /\ to_visit = {}
    /\ to_remove = {}
    /\ removing = NoId
    /\ reading = [r \in Readers |-> NoTunnel]
    /\ answer = [r \in Readers |-> NoId]
    /\ clock = 0

-----------------------------------------------------------------------------
(* SessionStore::add, called once by each handler with a fresh Session.    *)

\* Fault: the new session is stamped one unit in the past.
AddClaimBackdated(s) ==
    /\ handler[s] = "new"
    /\ ~Guarded(TunnelOf[s])
    /\ tunnel_index[TunnelOf[s]] \in {NoId, s}
    /\ tunnel_index' = [tunnel_index EXCEPT ![TunnelOf[s]] = s]
    /\ last_heartbeat' = [last_heartbeat EXCEPT ![s] = clock - 1]
    /\ handler' = [handler EXCEPT ![s] = "claimed"]
    /\ UNCHANGED <<sessions, sweepVars, readVars, clock>>

\* The tunnel id is claimed through the entry API: check and insert in one
\* step.  The session was stamped with the current time when it was built.
AddClaim(s) ==
    /\ handler[s] = "new"
    /\ ~Guarded(TunnelOf[s])
    /\ IF tunnel_index[TunnelOf[s]] \in {NoId, s}
       THEN /\ tunnel_index' = [tunnel_index EXCEPT ![TunnelOf[s]] = s]
            /\ last_heartbeat' = [last_heartbeat EXCEPT ![s] = clock]
            /\ handler' = [handler EXCEPT ![s] = "claimed"]
       ELSE /\ handler' = [handler EXCEPT ![s] = "refused"]
            /\ UNCHANGED <<tunnel_index, last_heartbeat>>
    /\ UNCHANGED <<sessions, sweepVars, readVars, clock>>

AddInsert(s) ==
    /\ handler[s] = "claimed"
    /\ sessions' = sessions \cup {s}
    /\ handler' = [handler EXCEPT ![s] = "running"]
    /\ UNCHANGED <<tunnel_index, last_heartbeat, sweepVars, readVars, clock>>

-----------------------------------------------------------------------------
(* The handler touches its session for every frame, through get_mut; when  *)
(* the session is gone it stops.                                           *)

Heartbeat(s) ==
    /\ handler[s] = "running"
    /\ IF s \in sessions
       THEN /\ last_heartbeat' = [last_heartbeat EXCEPT ![s] = clock]
            /\ UNCHANGED handler
       ELSE /\ handler' = [handler EXCEPT ![s] = "done"]
            /\ UNCHANGED last_heartbeat
    /\ UNCHANGED <<tunnel_index, sessions, sweepVars, readVars, clock>>

-----------------------------------------------------------------------------
(* SessionStore::remove by the handler.                                    *)

\* Fault: the handler's remove leaves the index alone.
RemoveSessionOnly(s) ==
    /\ handler[s] = "running"
    /\ sessions' = sessions \ {s}
    /\ handler' = [handler EXCEPT ![s] = "done"]
    /\ UNCHANGED <<tunnel_index, last_heartbeat, sweepVars, readVars, clock>>

\* sessions.remove: only the task that takes the session out goes on.
RemoveSession(s) ==
    /\ handler[s] = "running"
    /\ sessions' = sessions \ {s}
    /\ handler' = [handler EXCEPT ![s] = IF s \in sessions THEN "unindexing" ELSE "done"]
    /\ UNCHANGED <<tunnel_index, last_heartbeat, sweepVars, readVars, clock>>

\* tunnel_index.remove, whatever session the entry names by now.
RemoveIndex(s) ==
    /\ handler[s] = "unindexing"
    /\ ~Guarded(TunnelOf[s])
    /\ tunnel_index' = [tunnel_index EXCEPT ![TunnelOf[s]] = NoId]
    /\ handler' = [handler EXCEPT ![s] = "done"]
    /\ UNCHANGED <<sessions, last_heartbeat, sweepVars, readVars, clock>>

-----------------------------------------------------------------------------
(* SessionStore::cleanup_stale_sessions, run by one periodic task.         *)

SweepStart ==
    /\ sweep = "idle"
    /\ sweep' = "collect"
    /\ sweep_now' = clock
    /\ to_visit' = Ids
    /\ UNCHANGED <<storeVars, handler, to_remove, removing, readVars, clock>>

\* One step of the iteration: a key is looked at when the iteration gets to
\* it.  duration_since saturates at zero.
SweepVisit(s) ==
    /\ sweep = "collect"
    /\ s \in to_visit
    /\ to_visit' = to_visit \ {s}
    /\ to_remove' = IF s \in sessions /\ sweep_now > last_heartbeat[s] + Timeout
                    THEN to_remove \cup {s}
                    ELSE to_remove
    /\ UNCHANGED <<storeVars, handler, sweep, sweep_now, removing, readVars, clock>>

\* The iteration is over (`now` is not used again); with an empty to_remove
\* this ends the call.
SweepCollected ==
    /\ sweep = "collect"
    /\ to_visit = {}
    /\ sweep' = IF to_remove = {} THEN "idle" ELSE "remove"
    /\ sweep_now' = 0
    /\ UNCHANGED <<storeVars, handler, to_visit, to_remove, removing, readVars, clock>>

\* Fault: the index entry is dropped also when the session was already gone.
SweepRemoveAlways(s) ==
    /\ sweep = "remove"
    /\ s \in to_remove
    /\ to_remove' = to_remove \ {s}
    /\ sessions' = sessions \ {s}
    /\ sweep' = "unindex"
    /\ removing' = s
    /\ UNCHANGED <<tunnel_index, last_heartbeat, handler, sweep_now, to_visit, readVars, clock>>

\* self.remove(&id), first map: the heartbeat is not looked at again.
SweepRemove(s) ==
    /\ sweep = "remove"
    /\ s \in to_remove
    /\ to_remove' = to_remove \ {s}
    /\ sessions' = sessions \ {s}
    /\ IF s \in sessions
       THEN sweep' = "unindex" /\ removing' = s
       ELSE /\ sweep' = IF to_remove = {s} THEN "idle" ELSE "remove"
            /\ UNCHANGED removing
    /\ UNCHANGED <<tunnel_index, last_heartbeat, handler, sweep_now, to_visit, readVars, clock>>

\* Fault: the sweep leaves the index alone.
SweepUnindexNot ==
    /\ sweep = "unindex"
    /\ removing' = NoId
    /\ sweep' = IF to_remove = {} THEN "idle" ELSE "remove"
    /\ UNCHANGED <<storeVars, handler, sweep_now, to_visit, to_remove, readVars, clock>>

\* self.remove(&id), second map.
SweepUnindex ==
    /\ sweep = "unindex"
    /\ ~Guarded(TunnelOf[removing])
    /\ tunnel_index' = [tunnel_index EXCEPT ![TunnelOf[removing]] = NoId]
    /\ removing' = NoId
    /\ sweep' = IF to_remove = {} THEN "idle" ELSE "remove"
    /\ UNCHANGED <<sessions, last_heartbeat, handler, sweep_now, to_visit, to_remove, readVars, clock>>

-----------------------------------------------------------------------------
(* SessionStore::get_by_tunnel_id: the index guard is held until the       *)
(* session has been looked up.                                             *)

LookupIndex(r, t) ==
    /\ reading[r] = NoTunnel
    /\ IF tunnel_index[t] = NoId
       THEN answer' = [answer EXCEPT ![r] = NoId] /\ UNCHANGED reading
       ELSE reading' = [reading EXCEPT ![r] = t] /\ UNCHANGED answer
    /\ UNCHANGED <<storeVars, handler, sweepVars, clock>>

\* Fault: the index alone is believed.
LookupSessionIndexed(r) ==
    /\ reading[r] # NoTunnel
    /\ answer' = [answer EXCEPT ![r] = tunnel_index[reading[r]]]
    /\ reading' = [reading EXCEPT ![r] = NoTunnel]
    /\ UNCHANGED <<storeVars, handler, sweepVars, clock>>

LookupSession(r) ==
    /\ reading[r] # NoTunnel
    /\ answer' = [answer EXCEPT ![r] =
                     IF tunnel_index[reading[r]] \in sessions
                     THEN tunnel_index[reading[r]] ELSE NoId]
    /\ reading' = [reading EXCEPT ![r] = NoTunnel]
    /\ UNCHANGED <<storeVars, handler, sweepVars, clock>>

Tick ==
    /\ clock < MaxTime
    /\ clock' = clock + 1
    /\ UNCHANGED <<storeVars, handler, sweepVars, readVars>>

-----------------------------------------------------------------------------
Sweep == \/ SweepStart \/ SweepCollected \/ SweepUnindex
         \/ \E s \in Ids : SweepVisit(s) \/ SweepRemove(s)

Next ==
    \/ \E s \in Ids : \/ AddClaim(s) \/ AddInsert(s) \/ Heartbeat(s)
                      \/ RemoveSession(s) \/ RemoveIndex(s)
    \/ Sweep
    \/ \E r \in Readers : LookupSession(r) \/ \E t \in Tunnels : LookupIndex(r, t)
    \/ Tick

Spec == Init /\ [][Next]_vars

\* A task that has started an operation of the store finishes it: no step of
\* an operation waits for another task other than a reader, whose own next
\* step is always enabled.
FairSpec ==
    /\ Spec
    /\ \A s \in Ids : WF_vars(AddInsert(s)) /\ SF_vars(RemoveIndex(s))
    /\ SF_vars(SweepUnindex)
    /\ \A r \in Readers : WF_vars(LookupSession(r))

-----------------------------------------------------------------------------
(* Properties.                                                             *)

\* The variables keep their types.
TypeOK ==
    /\ tunnel_index \in [Tunnels -> Ids \cup {NoId}]
    /\ sessions \subseteq Ids
    /\ last_heartbeat \in [Ids -> Nat]
    /\ handler \in [Ids -> HandlerStates]
    /\ sweep \in SweepStates
    /\ sweep_now \in Nat
    /\ to_visit \subseteq Ids
    /\ to_remove \subseteq Ids
    /\ removing \in Ids \cup {NoId}
    /\ reading \in [Readers -> Tunnels \cup {NoTunnel}]
    /\ answer \in [Readers -> Ids \cup {NoId}]
    /\ clock \in Nat

\* Every session in the store is found under its tunnel id.  remove drops the
\* index entry of a tunnel without looking at whom it names; that must never
\* hit the entry of a session that took the tunnel over in the meantime,
\* although the handler and the cleanup task may remove the same session.
LiveSessionReachable == \A s \in sessions : tunnel_index[TunnelOf[s]] = s

\* An index entry is never orphaned: it names a session of that tunnel that is
\* in the store, or one a task is still adding or taking out.  Otherwise the
\* tunnel id would be refused as taken with nothing left that frees it.
HeldTunnelHasOwner ==
    \A t \in Tunnels : tunnel_index[t] # NoId =>
        LET s == tunnel_index[t] IN
        /\ TunnelOf[s] = t
        /\ s \in sessions \/ handler[s] \in {"claimed", "unindexing"} \/ removing = s

\* The refinement mapping: the phase of a session as the two maps show it.
phase == [s \in Ids |->
    IF tunnel_index[TunnelOf[s]] = s
    THEN IF s \in sessions THEN "published"
         ELSE IF handler[s] = "claimed" THEN "claimed" ELSE "retracted"
    ELSE IF handler[s] = "new" THEN "idle"
         ELSE IF handler[s] = "refused" THEN "refused" ELSE "released"]

Registry == INSTANCE SessionRegistry WITH phase <- phase, answer <- answer

\* The store implements the atomic registry: add and remove take effect at one
\* step each, a refused add had a holder, a session that was taken out never
\* comes back, and a lookup answers with the session registered at that moment.
ImplementsRegistry == Registry!Spec

\* A tunnel id whose session was taken out of the store, by the handler or by
\* the cleanup task, becomes free again.
TunnelIdFreed ==
    \A s \in Ids : phase[s] = "retracted" ~> phase[s] = "released"

\* The comment on cleanup_stale_sessions: it removes "stale sessions that
\* haven't sent a heartbeat within the timeout".
EvictsOnlyStale ==
    [][\A s \in Ids : SweepRemove(s) /\ s \in sessions
                        => clock > last_heartbeat[s] + Timeout]_vars
=============================================================================
