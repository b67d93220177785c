--------------------------- MODULE SidecarServer ---------------------------
(* The sidecar's server (sidecar.py: _WorkflowHTTPServer) under its          *)
(* single-instance lock: it takes sidecar.lock, binds a port, and writes     *)
(* sidecar-endpoint.json, from which clients learn where it is; closing      *)
(* removes the endpoint that is its own, then the lock.                      *)
EXTENDS InstanceLock

CONSTANT Ports

VARIABLES
    endpoint,  \* what sidecar-endpoint.json says, NoEndpoint when it is gone
    server,    \* how far each process's server is
    port       \* the port it bound

serverVars == <<endpoint, server, port>>
lockedServerVars == <<lockVars, serverVars>>

NoEndpoint == <<>>
Endpoint(p) == <<p, port[p]>>

ServerInit ==
    /\ LockInit
    /\ endpoint = NoEndpoint
    /\ server = [p \in Pids |-> "none"]
    /\ port \in [Pids -> Ports]

(* The steps of the lock itself: before there is a server, and the unlink   *)
(* at the end of release.                                                   *)
UseLock(p) ==
    /\ Begin(p) \/ (server[p] = "none" /\ Calls(p)) \/ Remove(p)
    /\ UNCHANGED serverVars

To(p, stage) == server' = [server EXCEPT ![p] = stage] /\ UNCHANGED lockVars

Bound == {port[q] : q \in {r \in Pids : server[r] \in {"bound", "serving", "clearing"}}}

Bind(p) ==
    /\ pc[p] = "owned" /\ server[p] = "none"
    /\ \E n \in Ports \ Bound : port' = [port EXCEPT ![p] = n]
    /\ To(p, "bound")
    /\ UNCHANGED endpoint

(* _atomic_json                                                             *)
WriteEndpoint(p) ==
    /\ server[p] = "bound"
    /\ endpoint' = Endpoint(p)
    /\ To(p, "serving")
    /\ UNCHANGED port

(* The port is in use, or the endpoint cannot be written.                   *)
FailToStart(p) ==
    /\ pc[p] = "owned" /\ server[p] \in {"none", "bound"}
    /\ To(p, "closed")
    /\ UNCHANGED <<endpoint, port>>

(* server_close                                                             *)
ReadEndpoint(p) ==
    /\ server[p] = "serving"
    /\ To(p, IF endpoint = Endpoint(p) THEN "clearing" ELSE "closed")
    /\ UNCHANGED <<endpoint, port>>

ClearEndpoint(p) ==
    /\ server[p] = "clearing"
    /\ endpoint' = NoEndpoint
    /\ To(p, "closed")
    /\ UNCHANGED port

(* Variant: the lock is given up before the endpoint is cleared. *)
LetGo_First(p) ==
    /\ server[p] \in {"clearing", "closed"}
    /\ Release(p)
    /\ UNCHANGED serverVars

LetGo(p) ==
    /\ server[p] = "closed"
    /\ Release(p)
    /\ UNCHANGED serverVars

ServerCrash(p) ==
    /\ Die(p)
    /\ server' = [server EXCEPT ![p] = "none"]
    /\ UNCHANGED <<endpoint, port>>

ServerNext == \E p \in Pids :
    \/ UseLock(p) \/ Bind(p) \/ WriteEndpoint(p) \/ FailToStart(p)
    \/ ReadEndpoint(p) \/ ClearEndpoint(p) \/ LetGo(p) \/ ServerCrash(p)

ServerSpec == ServerInit /\ [][ServerNext]_lockedServerVars
-----------------------------------------------------------------------------
(* While a server answers, the endpoint file names it, whichever servers    *)
(* failed to start, closed or died before it, and unless two recoveries of  *)
(* one lock met (sidecar.py:519-567).                                       *)
EndpointNamesServer ==
    ~raced => \A p \in Pids : server[p] = "serving" => endpoint = Endpoint(p)
=============================================================================
