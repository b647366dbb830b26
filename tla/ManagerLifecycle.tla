-------------------------- MODULE ManagerLifecycle --------------------------
(***************************************************************************)
(* The life of a manager process (cmd/manager/main.go) and of the read API *)
(* server in it (internal/api/server.go, Start): a goroutine that listens, *)
(* a select on its error and on the end of the context, and a graceful     *)
(* shutdown.  The controller runtime that starts and stops the two         *)
(* runnables, the worker and the server, is external: it ends when one of  *)
(* them returns an error or a signal arrives, cancels the context, and     *)
(* waits for both, but no longer than its grace period.                    *)
(***************************************************************************)
EXTENDS Naturals

CONSTANTS Clients   \* each sends at most one request

VARIABLES
    proc,      \* "starting", "running", "stopping", "exited"
    code,      \* exit code, or what Manager.Start is going to return
    done,      \* the context is cancelled
    signalled, \* a signal arrived
    cut,       \* the process ended without waiting for its runnables
    start,     \* Server.Start: "", "select", "shutdown", "returned", "failed"
    listener,  \* its goroutine: "", "spawned", "serving", "ended", "failed"
    worker,    \* the controller's worker: "idle" or "busy"
    request    \* by client: "none", "open", "answered", "dropped", "refused"

vars == <<proc, code, done, signalled, cut, start, listener, worker, request>>

Init ==
    /\ proc = "starting" /\ code = 0 /\ done = FALSE /\ signalled = FALSE /\ cut = FALSE
    /\ start = "" /\ listener = "" /\ worker = "idle"
    /\ request = [c \in Clients |-> "none"]

(* The error is logged, and main comes to its end.                         *)
ExitsQuietly(exitCode) ==
    /\ proc' = "exited"
    /\ code' = 0
    /\ request' = [c \in Clients |-> IF request[c] = "open" THEN "dropped" ELSE request[c]]

(* The end of the process takes its open connections with it.              *)
Exits(exitCode) ==
    /\ proc' = "exited"
    /\ code' = exitCode
    /\ request' = [c \in Clients |-> IF request[c] = "open" THEN "dropped" ELSE request[c]]

(* A step of main before the manager runs fails.                           *)
StartUpFails ==
    /\ proc = "starting"
    /\ Exits(1)
    /\ UNCHANGED <<done, signalled, cut, start, listener, worker>>

(* The server waits for its listener, which nobody started.                *)
StartManagerDeaf ==
    /\ proc = "starting"
    /\ proc' = "running"
    /\ start' = "select"
    /\ UNCHANGED <<code, done, signalled, cut, listener, worker, request>>

StartManager ==
    /\ proc = "starting"
    /\ proc' = "running"
    /\ start' = "select"
    /\ listener' = "spawned"
    /\ UNCHANGED <<code, done, signalled, cut, worker, request>>

Alive == proc \in {"running", "stopping"}

(* A second signal ends the process at once.                               *)
Signal ==
    /\ Alive
    /\ IF signalled
       THEN Exits(1) /\ cut' = TRUE /\ UNCHANGED <<done, signalled>>
       ELSE /\ signalled' = TRUE /\ done' = TRUE
            /\ UNCHANGED <<proc, code, cut, request>>
    /\ UNCHANGED <<start, listener, worker>>
-----------------------------------------------------------------------------
(* Server.Start.                                                           *)

Listening ==
    /\ Alive
    /\ listener = "spawned"
    /\ listener' = IF start \in {"shutdown", "returned"} THEN "ended" ELSE "serving"
    /\ UNCHANGED <<proc, code, done, signalled, cut, start, worker, request>>

(* The port is taken, or Accept fails for good.                            *)
ListenerFails ==
    /\ Alive
    /\ listener \in {"spawned", "serving"}
    /\ start \notin {"shutdown", "returned"}
    /\ listener' = "failed"
    /\ UNCHANGED <<proc, code, done, signalled, cut, start, worker, request>>

(* Shutdown closes the listener and goes on to wait for the connections.   *)
SelectDone ==
    /\ Alive
    /\ start = "select"
    /\ done
    /\ start' = "shutdown"
    /\ listener' = IF listener = "serving" THEN "ended" ELSE listener
    /\ UNCHANGED <<proc, code, done, signalled, cut, worker, request>>

(* The error is taken for the end of the server.                           *)
SelectErrIgnored ==
    /\ Alive
    /\ start = "select"
    /\ listener = "failed"
    /\ start' = "returned"
    /\ UNCHANGED <<proc, code, done, signalled, cut, listener, worker, request>>

(* The goroutine sends nil or ErrServerClosed only after Shutdown, when    *)
(* the select is over: the error it finds here is a failure.               *)
SelectErr ==
    /\ Alive
    /\ start = "select"
    /\ listener = "failed"
    /\ start' = "failed"
    /\ UNCHANGED <<proc, code, done, signalled, cut, listener, worker, request>>

(* Close instead of Shutdown: connections are cut.                         *)
CloseReturns ==
    /\ Alive
    /\ start = "shutdown"
    /\ start' = "returned"
    /\ request' = [c \in Clients |-> IF request[c] = "open" THEN "dropped" ELSE request[c]]
    /\ UNCHANGED <<proc, code, done, signalled, cut, listener, worker>>

ShutdownReturns ==
    /\ Alive
    /\ start = "shutdown"
    /\ \A c \in Clients : request[c] # "open"
    /\ start' = "returned"
    /\ UNCHANGED <<proc, code, done, signalled, cut, listener, worker, request>>
-----------------------------------------------------------------------------
(* The rest of the process.                                                *)

Arrive(c) ==
    /\ Alive
    /\ request[c] = "none"
    /\ request' = [request EXCEPT ![c] = IF listener = "serving" THEN "open" ELSE "refused"]
    /\ UNCHANGED <<proc, code, done, signalled, cut, start, listener, worker>>

Answer(c) ==
    /\ Alive
    /\ request[c] = "open"
    /\ request' = [request EXCEPT ![c] = "answered"]
    /\ UNCHANGED <<proc, code, done, signalled, cut, start, listener, worker>>

Work ==
    /\ Alive
    /\ \/ worker = "idle" /\ ~done /\ worker' = "busy"
       \/ worker = "busy" /\ worker' = "idle"
    /\ UNCHANGED <<proc, code, done, signalled, cut, start, listener, request>>

(* Manager.Start waits for a signal or a runnable's error, and takes one   *)
(* of the two if both are there.                                           *)
StopOnSignal ==
    /\ proc = "running"
    /\ signalled
    /\ proc' = "stopping"
    /\ UNCHANGED <<code, done, signalled, cut, start, listener, worker, request>>

(* A runnable returned an error: everything else is stopped.               *)
RunnableFailed ==
    /\ proc = "running"
    /\ start = "failed"
    /\ proc' = "stopping"
    /\ code' = 1
    /\ done' = TRUE
    /\ UNCHANGED <<signalled, cut, start, listener, worker, request>>

AllStopped ==
    /\ proc = "stopping"
    /\ start \in {"returned", "failed"}
    /\ worker = "idle"
    /\ Exits(code)
    /\ UNCHANGED <<done, signalled, cut, start, listener, worker>>

GraceEnds ==
    /\ proc = "stopping"
    /\ start = "shutdown" \/ worker = "busy"
    /\ Exits(1)
    /\ cut' = TRUE
    /\ UNCHANGED <<done, signalled, start, listener, worker>>

Server == Listening \/ SelectDone \/ SelectErr \/ ShutdownReturns
Runtime == StopOnSignal \/ RunnableFailed \/ AllStopped \/ GraceEnds

Next ==
    \/ StartUpFails \/ StartManager \/ Signal \/ ListenerFails
    \/ Server \/ Runtime \/ Work
    \/ \E c \in Clients : Arrive(c) \/ Answer(c)

Spec == Init /\ [][Next]_vars

(* The scheduler runs the goroutines, and the grace period ends.  No       *)
(* client need ever read its answer, no signal need come.                  *)
FairSpec == Spec /\ WF_vars(StartManager) /\ WF_vars(Server) /\ WF_vars(Runtime)
-----------------------------------------------------------------------------
(* The types of the process's state: only a process that ends has an       *)
(* error, and Start never waits for a goroutine that was not started.      *)
TypeOK ==
    /\ proc \in {"starting", "running", "stopping", "exited"} /\ code \in {0, 1}
    /\ start \in {"", "select", "shutdown", "returned", "failed"}
    /\ listener \in {"", "spawned", "serving", "ended", "failed"}
    /\ worker \in {"idle", "busy"}
    /\ code = 1 => proc \in {"stopping", "exited"}
    /\ start = "" <=> listener = ""
    /\ request \in [Clients -> {"none", "open", "answered", "dropped", "refused"}]

(* A request that was accepted is answered before a signal ends the        *)
(* process, unless the grace period or a second signal cuts it short, or   *)
(* the listener itself had failed (server.go:45-46, "shuts the HTTP server *)
(* down gracefully").                                                      *)
ShutdownIsGraceful ==
    (\E c \in Clients : request[c] = "dropped") => cut \/ listener = "failed"

(* A process that nobody told to end ends with an error, whichever of its  *)
(* parts failed and whatever was under way, so that it is restarted        *)
(* (server.go:60-64, main.go:143-146).                                     *)
ExitTellsFailure == proc = "exited" /\ ~signalled => code = 1

(* A manager whose read API failed does not go on without it: the process  *)
(* ends (server.go:60-64, main.go:143-146).                                *)
NeverWithoutReadAPI == listener = "failed" ~> proc = "exited"
=============================================================================
