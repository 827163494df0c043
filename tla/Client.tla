------------------------------- MODULE Client -------------------------------
(***************************************************************************)
(* The client as its user holds it: ferrotunnel::Client with start, stop,  *)
(* shutdown and drop, any of whose futures the user may drop, and the      *)
(* `ferrotunnel client` command, one task in a process of its own.         *)
(***************************************************************************)
EXTENDS TunnelClient

VARIABLE
    handle  \* the Client: its task and shutdown_tx, the call under way (on
            \* which task) and what the last call returned (about which task)

clientVars == <<handle>>

Handles == [task : Tasks \cup {0}, tx : Tasks \cup {0}, call : {"none", "start", "shutdown", "dropped"},
            of : Tasks \cup {0}, ret : {"none", "ok", "error", "timeout", "already", "down"}]

NewHandle == [task |-> 0, tx |-> 0, call |-> "none", of |-> 0, ret |-> "none"]

\* The process of the command line starts with its task.
InitClient ==
    LET cli == setup.client.kind = "cli" /\ CT.type # "error"
    IN /\ task = [t \in Tasks |-> IF cli /\ t = 1 THEN Spawned ELSE NoTask]
       /\ handle = [NewHandle EXCEPT !.task = IF cli THEN 1 ELSE 0]

Idle == setup.client.kind = "facade" /\ CT.type # "error" /\ handle.call = "none"
May(call) == call \in setup.calls

\* shutdown_tx.take() and send(true), which a task that has ended never sees.
Signalled(f) == IF handle.tx = 0 \/ ~Running(handle.tx) THEN f ELSE [f EXCEPT ![handle.tx].signalled = TRUE]

NextTask == CHOOSE t \in Tasks : task[t].state = "none" /\ \A u \in Tasks : u < t => task[u].state # "none"

Start ==
    /\ Idle /\ May("start")
    /\ \E t \in Tasks : task[t].state = "none"
    /\ IF handle.task # 0
       THEN handle' = [handle EXCEPT !.ret = "already", !.of = 0] /\ UNCHANGED task
       ELSE /\ task' = [task EXCEPT ![NextTask] = Spawned]
            /\ handle' = [handle EXCEPT !.task = NextTask, !.tx = NextTask, !.call = "start",
                                        !.of = NextTask, !.ret = "none"]
    /\ UNCHANGED <<setup, conn, run, left>>

Starting == handle.call = "start"
Return(r) == handle' = [handle EXCEPT !.call = "none", !.ret = r]

\* info_rx yields the TunnelInfo, or finds its sender dropped.
StartReturns ==
    /\ Starting
    /\ \/ task[handle.of].info = "sent" /\ Return("ok")
       \/ task[handle.of].info = "dropped" /\ Return("error")
    /\ UNCHANGED sharedVars

\* Fault: the task of a start that timed out is let go.
TimeoutDetaches ==
    /\ Starting /\ setup.client.timed
    /\ task[handle.of].info = "held"
    /\ handle' = [handle EXCEPT !.task = 0, !.tx = 0, !.call = "none", !.ret = "timeout"]
    /\ UNCHANGED sharedVars

\* startup_timeout passes: the task is signalled and aborted, the handle can
\* start again.
StartTimeout ==
    /\ Starting /\ setup.client.timed
    /\ task[handle.of].info = "held"
    /\ task' = [Signalled(task) EXCEPT ![handle.task].aborted = Running(handle.task)]
    /\ handle' = [handle EXCEPT !.task = 0, !.tx = 0, !.call = "none", !.ret = "timeout"]
    /\ UNCHANGED <<setup, conn, run, left>>

Stop ==
    /\ Idle /\ May("stop") /\ handle.tx # 0
    /\ task' = Signalled(task)
    /\ handle' = [handle EXCEPT !.tx = 0]
    /\ UNCHANGED <<setup, conn, run, left>>

\* The task is taken out of the handle before it is waited for.
Shutdown ==
    /\ Idle /\ May("shutdown") /\ handle.task # 0
    /\ task' = Signalled(task)
    /\ handle' = [handle EXCEPT !.task = 0, !.tx = 0, !.call = "shutdown", !.of = handle.task,
                                !.ret = "none"]
    /\ UNCHANGED <<setup, conn, run, left>>

ShutdownReturns ==
    /\ handle.call = "shutdown"
    /\ ~Running(handle.of)
    /\ Return("down")
    /\ UNCHANGED sharedVars

\* The user drops the future of a call that waits.
Cancel ==
    /\ May("cancel") /\ handle.call \in {"start", "shutdown"}
    /\ handle' = [handle EXCEPT !.call = "none", !.of = 0]
    /\ UNCHANGED sharedVars

Drop ==
    /\ Idle /\ May("drop")
    /\ task' = Signalled(task)
    /\ handle' = [handle EXCEPT !.task = 0, !.tx = 0, !.call = "dropped"]
    /\ UNCHANGED <<setup, conn, run, left>>

\* Ctrl-C ends the process, and with it everything the client holds.
CtrlC ==
    /\ setup.client.kind = "cli" /\ May("ctrl_c")
    /\ Running(1)
    /\ task' = [task EXCEPT ![1] = Ended(@)]
    /\ conn' = Tidy([c \in Conns |-> IF conn[c].client = "none" THEN conn[c]
                                     ELSE [conn[c] EXCEPT !.client = "closed"]])
    /\ UNCHANGED <<setup, run, left, handle>>

ClientCalls ==
    Start \/ StartReturns \/ StartTimeout \/ Stop \/ Shutdown \/ ShutdownReturns \/ Cancel \/ Drop \/ CtrlC
=============================================================================
