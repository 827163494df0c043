-------------------------- MODULE SessionRegistry --------------------------
(***************************************************************************)
(* What the session store promises the rest of the server, with every      *)
(* operation atomic.  A tunnel id is a lease: one session at a time holds  *)
(* it, only its holder is ever found by a lookup, and a session goes       *)
(* through its phases once, in order, and never comes back.                *)
(***************************************************************************)
CONSTANTS
    Ids,        \* session ids, one per accepted handshake
    Tunnels,    \* tunnel ids
    TunnelOf,   \* the tunnel id of each session
    Readers,    \* tasks that look sessions up by tunnel id
    NoId        \* the answer of a lookup that finds nothing

VARIABLES
    phase,      \* where each session is in its life
    answer      \* the last answer each reader got

rvars == <<phase, answer>>

Phases == {"idle", "claimed", "published", "retracted", "released", "refused"}

Holds(s) == phase[s] \in {"claimed", "published", "retracted"}

Taken(t) == \E s \in Ids : TunnelOf[s] = t /\ Holds(s)

Move(s, from, to) ==
    /\ phase[s] = from
    /\ phase' = [phase EXCEPT ![s] = to]
    /\ UNCHANGED answer

Init ==
    /\ phase = [s \in Ids |-> "idle"]
    /\ answer = [r \in Readers |-> NoId]

Claim(s) == ~Taken(TunnelOf[s]) /\ Move(s, "idle", "claimed")

Refuse(s) == Taken(TunnelOf[s]) /\ Move(s, "idle", "refused")

Publish(s) == Move(s, "claimed", "published")

Retract(s) == Move(s, "published", "retracted")

Release(s) == Move(s, "retracted", "released")

\* A lookup answers with the published session of the tunnel, or nothing
\* when no session of that tunnel is published.
Lookup(r, t) ==
    /\ \/ \E s \in Ids : /\ TunnelOf[s] = t
                         /\ phase[s] = "published"
                         /\ answer' = [answer EXCEPT ![r] = s]
       \/ /\ \A s \in Ids : TunnelOf[s] = t => phase[s] # "published"
          /\ answer' = [answer EXCEPT ![r] = NoId]
    /\ UNCHANGED phase

Next ==
    \/ \E s \in Ids : Claim(s) \/ Refuse(s) \/ Publish(s) \/ Retract(s) \/ Release(s)
    \/ \E r \in Readers, t \in Tunnels : Lookup(r, t)

Spec == Init /\ [][Next]_rvars
=============================================================================
