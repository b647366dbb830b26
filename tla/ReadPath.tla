------------------------------ MODULE ReadPath ------------------------------
(***************************************************************************)
(* How a PlatformMap reaches the browser: the store that the controller    *)
(* keeps (StatusRegister), the cache of a manager that follows it with a   *)
(* delay, the read API on top of that cache (internal/api/server.go), and  *)
(* the dashboard that polls it (ui/src/api/client.ts, usePlatformMap.ts,   *)
(* App.tsx).  The query library the dashboard uses is external: it keeps   *)
(* the last data when a fetch fails, and retries a fetch before it gives   *)
(* up.                                                                     *)
(***************************************************************************)
EXTENDS PlatformMapObjects, Sequences

CONSTANTS
    Managers,   \* the pods behind the Service of the read API
    Polled,     \* the map the dashboard shows
    MaxRetries, \* retries of a failed fetch: 3 by default of the library
    MaxLog,     \* bound: versions of the polled map
    MaxFaults   \* bound: manager restarts and failing requests

ASSUME RetriesAssumption == MaxRetries \in Nat

ASSUME LogAssumption == MaxLog \in Nat \ {0}

VARIABLES
    shown, created, world,  \* the store: see StatusRegister
    log,     \* the versions the polled map had, the current one last
    pos,     \* by manager, the version in its cache; 0 while it does not serve
    calls,   \* the dashboard's fetches: Idle, Asked, or a response
    ui,      \* the state of its query
    faults   \* number of faults so far

storeVars == <<shown, created, world>>
vars == <<shown, created, world, log, pos, calls, ui, faults>>

Store == INSTANCE StatusRegister

Idle  == [kind |-> "idle", at |-> 0]
Asked == [kind |-> "asked", at |-> 0]
Failed == [kind |-> "failed", at |-> 0]
Slots == {1, 2}   \* fetches under way; the library uses one

Init ==
    /\ Store!Init
    /\ log = <<shown[Polled]>>
    /\ pos = [m \in Managers |-> 1]
    /\ calls = [n \in Slots |-> Idle]
    /\ ui = [at |-> 0, error |-> "", failures |-> 0]
    /\ faults = 0

Fault == faults < MaxFaults /\ faults' = faults + 1

StoreStep ==
    /\ Len(log) < MaxLog
    /\ Store!Next
    /\ log' = IF shown'[Polled] = shown[Polled] THEN log ELSE Append(log, shown'[Polled])
    /\ UNCHANGED <<pos, calls, ui, faults>>

CatchUp(m) ==
    /\ pos[m] \in 1..(Len(log) - 1)
    /\ pos' = [pos EXCEPT ![m] = @ + 1]
    /\ UNCHANGED <<storeVars, log, calls, ui, faults>>

GoDown(m) ==
    /\ pos[m] # 0
    /\ Fault
    /\ pos' = [pos EXCEPT ![m] = 0]
    /\ UNCHANGED <<storeVars, log, calls, ui>>

(* A manager serves once its cache has listed the store.                   *)
ComeUp(m) ==
    /\ pos[m] = 0
    /\ pos' = [pos EXCEPT ![m] = Len(log)]
    /\ UNCHANGED <<storeVars, log, calls, ui, faults>>
-----------------------------------------------------------------------------
(* The read API.  Encoding is kept as the version that was read.           *)

(* Every error of the read is answered like a missing object.              *)
errorStatusAlways404(isNotFound) == 404

errorStatus(isNotFound) == IF isNotFound THEN 404 ELSE 500

(* A missing object is encoded as an empty one.                            *)
readStatusOfEmpty(obj) == 200

readStatus(obj) == IF Exists(obj) THEN 200 ELSE errorStatus(TRUE)

(* What the client makes of a response.                                    *)
clientKind(status) ==
    CASE status = 200 -> "ok"
      [] status = 404 -> "notFound"
      [] OTHER        -> "failed"

getPlatformMap(m, n) ==
    /\ calls[n] = Asked
    /\ pos[m] # 0
    /\ \/ /\ calls' = [calls EXCEPT ![n] = [kind |-> clientKind(readStatus(log[pos[m]])),
                                            at   |-> pos[m]]]
          /\ UNCHANGED faults
       \/ /\ Fault
          /\ calls' = [calls EXCEPT ![n] = [kind |-> clientKind(errorStatus(FALSE)), at |-> 0]]
    /\ UNCHANGED <<storeVars, log, pos, ui>>

(* The request reaches no manager, or its answer is lost.                  *)
Unreachable(n) ==
    /\ calls[n] # Idle
    /\ calls[n] # Failed
    /\ \/ Fault
       \/ calls[n] = Asked /\ (\E m \in Managers : pos[m] = 0) /\ UNCHANGED faults
    /\ calls' = [calls EXCEPT ![n] = Failed]
    /\ UNCHANGED <<storeVars, log, pos, ui>>
-----------------------------------------------------------------------------
(* The dashboard.                                                          *)

(* A fetch on every tick of a timer, whatever is under way.                *)
PollOnTimer ==
    /\ \E n \in Slots :
          /\ calls[n] = Idle
          /\ calls' = [calls EXCEPT ![n] = Asked]
    /\ ui' = IF ui.at = 0 THEN [ui EXCEPT !.error = ""] ELSE ui
    /\ UNCHANGED <<storeVars, log, pos, faults>>

PollUntilError ==
    /\ \A n \in Slots : calls[n] = Idle
    /\ ui.error = ""
    /\ calls' = [calls EXCEPT ![1] = Asked]
    /\ UNCHANGED <<storeVars, log, pos, ui, faults>>

(* The interval passes: one fetch at a time.  Without data the query shows *)
(* as loading again.                                                       *)
Poll ==
    /\ \A n \in Slots : calls[n] = Idle
    /\ calls' = [calls EXCEPT ![1] = Asked]
    /\ ui' = IF ui.at = 0 THEN [ui EXCEPT !.error = ""] ELSE ui
    /\ UNCHANGED <<storeVars, log, pos, faults>>

Succeed(n) ==
    /\ calls[n].kind = "ok"
    /\ ui' = [at |-> calls[n].at, error |-> "", failures |-> 0]
    /\ calls' = [calls EXCEPT ![n] = Idle]
    /\ UNCHANGED <<storeVars, log, pos, faults>>

Retry(n) ==
    /\ calls[n].kind \in {"notFound", "failed"}
    /\ ui.failures < MaxRetries
    /\ ui' = [ui EXCEPT !.failures = @ + 1]
    /\ calls' = [calls EXCEPT ![n] = Asked]
    /\ UNCHANGED <<storeVars, log, pos, faults>>

GiveUp(n) ==
    /\ calls[n].kind \in {"notFound", "failed"}
    /\ ui.failures = MaxRetries
    /\ ui' = [ui EXCEPT !.error = calls[n].kind, !.failures = 0]
    /\ calls' = [calls EXCEPT ![n] = Idle]
    /\ UNCHANGED <<storeVars, log, pos, faults>>

(* What App renders in its main area; "topology" also opens the panels.    *)
Rendered ==
    LET data == ui.at # 0
        reconciled == data /\ log[ui.at].status.uid # 0
    IN  (IF ~data /\ ui.error = "" THEN {"loading"} ELSE {})
          \cup (IF ui.error = "notFound" THEN {"apply a PlatformMap"} ELSE {})
          \cup (IF ui.error = "failed" THEN {"failed to load"} ELSE {})
          \cup (IF data /\ ~reconciled THEN {"not yet reconciled"} ELSE {})
          \cup (IF reconciled THEN {"topology"} ELSE {})

Manager(m) == CatchUp(m) \/ GoDown(m) \/ ComeUp(m) \/ \E n \in Slots : getPlatformMap(m, n)

Dashboard == Poll \/ \E n \in Slots : Succeed(n) \/ Retry(n) \/ GiveUp(n)

Next ==
    \/ StoreStep
    \/ \E m \in Managers : Manager(m)
    \/ \E n \in Slots : Unreachable(n)
    \/ Dashboard

Spec == Init /\ [][Next]_vars

(* Watch events arrive, the Deployment restarts a manager, a request is    *)
(* answered or fails, and the library's timers fire.                       *)
FairSpec ==
    /\ Spec
    /\ \A m \in Managers : WF_vars(CatchUp(m)) /\ WF_vars(ComeUp(m))
    /\ \A n \in Slots :
          /\ WF_vars(Unreachable(n) \/ \E m \in Managers : getPlatformMap(m, n))
          /\ WF_vars(Succeed(n) \/ Retry(n) \/ GiveUp(n))
    /\ WF_vars(Poll)
-----------------------------------------------------------------------------
(* The types of the composition's state.                                   *)
TypeOK ==
    /\ Len(log) \in 1..MaxLog /\ log[Len(log)] = shown[Polled]
    /\ \A m \in Managers : pos[m] \in 0..Len(log)
    /\ \A n \in Slots : /\ calls[n].kind \in {"idle", "asked", "ok", "notFound", "failed"}
                        /\ calls[n].kind = "ok" => Exists(log[calls[n].at])
    /\ ui.at \in 0..Len(log) /\ ui.failures \in 0..MaxRetries
    /\ ui.error \in {"", "notFound", "failed"}

(* With one manager "apply a PlatformMap" is told only of a map that was   *)
(* missing in the store, at some moment no earlier than what is shown; no  *)
(* failure of the server or the network is told that way                   *)
(* (client.ts:27-32).                                                      *)
NotFoundIsHonest ==
    ui.error = "notFound" =>
        \E v \in 1..Len(log) : v >= ui.at /\ ~Exists(log[v])

(* With one manager what the dashboard shows never gets older, across      *)
(* restarts, retries and lost answers (usePlatformMap.ts:25-30).           *)
ViewNeverGoesBack == [][ui'.at >= ui.at]_vars

(* When the map no longer changes, the dashboard comes to tell its state   *)
(* and goes on telling it: its topology, that it is not reconciled yet, or *)
(* that there is no map (App.tsx:73 and 85, "it will appear here           *)
(* automatically", "this refreshes automatically").                        *)
UpToDate ==
    IF Exists(shown[Polled])
    THEN /\ ui.at # 0 /\ log[ui.at] = shown[Polled]
         /\ Rendered = {IF shown[Polled].status.uid # 0 THEN "topology" ELSE "not yet reconciled"}
    ELSE "apply a PlatformMap" \in Rendered

ViewCatchesUp == <>[](Exists(shown[Polled]) => UpToDate) /\ []<>UpToDate
=============================================================================
