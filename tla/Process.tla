------------------------------ MODULE Process ------------------------------
(***************************************************************************)
(* The state of one service process, and what it owes to those who send it *)
(* requests: that it serves only with a configuration that was checked,    *)
(* and finishes what it has accepted.  Lifecycle says how it starts and    *)
(* stops.                                                                  *)
(***************************************************************************)
CONSTANT Rpc  \* requests the process is sent

VARIABLES
  svc,      \* which service
  env,      \* its environment, until the configuration is loaded
  disabled, \* what the loaded configuration disables
  pc,       \* the next step of the configuration or the startup
  life,     \* "load", "init", "serving", "leaving" (the gateway after Serve), "exited"
  how,      \* how it has ended
  sig,      \* the signal handler
  funcs,    \* shutdown functions that are registered
  closing,  \* shutdown functions that run
  closed,   \* shutdown functions that have ended
  server,   \* "open", "draining", "stopped"
  deadline, \* of the shutdown: "ahead", "passed"
  requests, \* the requests
  sent      \* signals sent

-----------------------------------------------------------------------------
(* What the loaders of a service let through: a limiter whose interval     *)
(* rounds to zero, an empty port where the tag says "required" and not     *)
(* "notEmpty", and in auth and quota every number.                         *)
MayLack ==
  [auth |-> {"limiter", "login", "throttle", "cache", "tokens"},
   users |-> {"limiter", "port"}, metadata |-> {"limiter", "port"},
   storage |-> {"limiter", "port"}, gateway |-> {}, authz |-> {}, quota |-> {"flush"}]

(* A service that serves lacks nothing else because of its configuration:  *)
(* the loaders have refused every other value.                             *)
StartedIsChecked == life = "serving" => disabled \subseteq MayLack[svc]

(* A request that was accepted is not cut off by a process that ends by    *)
(* itself before the deadline of its shutdown, wherever the signal came;   *)
(* and the gateway, which closes its clients only after the server, does   *)
(* not take them away from a request either.                               *)
RequestsFinish ==
  \A r \in Rpc :
    /\ requests[r] = "cut" => how = "killed" \/ deadline = "passed" \/ "limiter" \in disabled
    /\ requests[r] = "broken" /\ svc = "gateway" => deadline = "passed"
=============================================================================
