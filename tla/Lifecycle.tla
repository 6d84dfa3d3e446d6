----------------------------- MODULE Lifecycle -----------------------------
(***************************************************************************)
(* Start and shutdown of a service process: the startup sequence with the  *)
(* shutdown functions it registers, the signal handler, the closer that    *)
(* runs the functions concurrently under a deadline, and the server that   *)
(* drains its requests.                                                    *)
(*                                                                         *)
(*   shared/pkg/go-kit/closer          auth, metadata, users, storage      *)
(*   shared/pkg/py_kit/closer          authz                               *)
(*   shared/pkg/rust-kit ... closer    quota                               *)
(*   services/*/internal/app           the startup of the Go services      *)
(*                                                                         *)
(* One process of any of the seven services; which one is chosen in Init.  *)
(* A shutdown function other than that of the server is one step that may  *)
(* also never end.                                                         *)
(***************************************************************************)
EXTENDS Naturals, Sequences, Config, Process

CONSTANT MaxSignals  \* bound: SIGINT or SIGTERM the process is sent

ASSUME SignalAssumption == MaxSignals \in Nat

-----------------------------------------------------------------------------
(* The startup of each service: the .env file and the loaders of its       *)
(* configuration, which end it at the first variable they refuse, then the *)
(* steps of its app in their order.  A step named in Closable registers    *)
(* its shutdown function.                                                  *)

AuthConfig     == <<"env", "logger", "grpc", "user_client", "redis", "jwt", "security", "tracing",
                    "metrics", "rate_limiter">>
UsersConfig    == <<"env", "logger", "grpc", "pg", "tracing", "metrics", "rate_limiter">>
MetadataConfig == <<"env", "logger", "grpc", "pg", "kafka", "tracing", "metrics", "rate_limiter">>
StorageConfig  == <<"env", "logger", "grpc", "storage", "tracing", "metrics", "rate_limiter">>
GatewayConfig  == <<"env", "http", "metadata", "storage", "logger", "tracing", "metrics">>
AuthzConfig    == <<"numbers">>
QuotaConfig    == <<"defaults">>

AuthDeps     == <<"users client", "redis pool">>
MetadataDeps == <<"pg", "sarama client", "producer">>
UsersDeps    == <<"pg">>
GatewayDeps  == <<"grpc clients">>

AuthStartup     == <<"zap", "closer", "metrics", "server">> \o AuthDeps \o <<"tracer">>
MetadataStartup == <<"zap", "closer", "metrics", "server">> \o MetadataDeps \o <<"tracer">>
UsersStartup    == <<"zap", "closer", "metrics", "server">> \o UsersDeps \o <<"tracer">>
StorageStartup  == <<"zap", "closer", "metrics", "storage metrics", "server", "tracer">>
GatewayStartup  == <<"zap", "tracer", "metrics">> \o GatewayDeps \o <<"http", "signals">>
QuotaStartup    == <<"redis", "load", "reflection", "telemetry", "signals">>
AuthzStartup    == <<"otel", "closer", "tracer", "metrics", "neo4j", "server", "port">>

(* Steps that only register something. *)
GoRegistration   == {"closer", "server", "grpc clients", "signals"}
PyRegistration   == {"closer", "server", "tracer", "metrics"}
RustRegistration == {"telemetry", "signals"}
Registration(service, step) ==
  step \in CASE service = "authz" -> PyRegistration
             [] service = "quota" -> RustRegistration
             [] OTHER             -> GoRegistration

Loading ==
  [auth |-> AuthConfig, metadata |-> MetadataConfig, users |-> UsersConfig,
   storage |-> StorageConfig, gateway |-> GatewayConfig, quota |-> QuotaConfig,
   authz |-> AuthzConfig]

Startup ==
  [auth |-> AuthStartup, metadata |-> MetadataStartup, users |-> UsersStartup,
   storage |-> StorageStartup, gateway |-> GatewayStartup, quota |-> QuotaStartup,
   authz |-> AuthzStartup]

Service  == DOMAIN Startup
GoServer == {"auth", "metadata", "users", "storage"}

(* What requests use, and the rest of what is closed. *)
Dependency == {"users client", "redis pool", "pg", "sarama client", "producer",
               "grpc clients", "neo4j"}
Closable == Dependency \cup {"metrics", "storage metrics", "tracer", "telemetry", "server"}

vars == <<svc, env, disabled, pc, life, how, sig, funcs, closing, closed, server, deadline,
          requests, sent>>
closer == <<funcs, closing, closed>>
config == <<env, disabled>>

Running == {r \in Rpc : requests[r] = "running"}

Init ==
  /\ svc \in Service
  /\ env \in Environments(svc) /\ disabled = {}
  /\ pc = 1
  /\ life = "load" /\ how = "none"
  /\ sig = "default"
  /\ funcs = {} /\ closing = {} /\ closed = {}
  /\ server = "open"
  /\ deadline = "ahead"
  /\ requests = [r \in Rpc |-> "idle"]
  /\ sent = 0

(* The end of the process takes its requests with it. *)
Exit(why) ==
  /\ life' = "exited" /\ how' = why
  /\ requests' = [r \in Rpc |-> IF requests[r] = "running" THEN "cut" ELSE requests[r]]

-----------------------------------------------------------------------------
(* Startup *)

(* Python runs the handler of a signal on the main thread, between two     *)
(* steps.                                                                  *)
MainRuns == svc = "authz" => sig # "closing"

(* A loader returns its part of the configuration.  Nothing but the loaders *)
(* reads the environment.                                                  *)
LoadStep ==
  /\ life = "load"
  /\ Loading[svc][pc] # "env" => Loaders(svc, env)[Loading[svc][pc]]
  /\ IF pc < Len(Loading[svc])
       THEN pc' = pc + 1 /\ UNCHANGED <<config, life>>
       ELSE /\ pc' = 1 /\ life' = "init"
            /\ env' = <<>> /\ disabled' = Disabled(svc, env)
  /\ UNCHANGED <<svc, how, sig, closer, server, deadline, requests, sent>>

(* The .env file is malformed, or a loader refuses a variable. *)
LoadFail ==
  /\ life = "load"
  /\ Loading[svc][pc] # "env" => ~Loaders(svc, env)[Loading[svc][pc]]
  /\ svc # "quota"
  /\ Exit("failed")
  /\ UNCHANGED <<svc, config, pc, sig, closer, server, deadline, sent>>

InitStep ==
  /\ life = "init" /\ pc <= Len(Startup[svc]) /\ MainRuns
  /\ pc' = pc + 1
  /\ LET step == Startup[svc][pc] IN
     /\ funcs' = IF step \in Closable THEN funcs \cup {step} ELSE funcs
     /\ sig' = CASE step = "closer"  -> IF svc = "authz" THEN "waiting" ELSE "starting"
                 [] step = "signals" -> IF svc = "quota" THEN "starting" ELSE "waiting"
                 [] OTHER            -> sig
  /\ UNCHANGED <<svc, config, life, how, closing, closed, server, deadline, requests, sent>>

(* A step returns an error or panics.  Only the gateway closes what it has. *)
InitFail ==
  /\ life = "init" /\ pc <= Len(Startup[svc]) /\ MainRuns
  /\ ~Registration(svc, Startup[svc][pc])
  /\ IF svc = "gateway" /\ funcs # {}
       THEN /\ life' = "leaving" /\ how' = "failed"
            /\ closing' = funcs /\ funcs' = {}
            /\ UNCHANGED requests
       ELSE Exit("failed") /\ UNCHANGED <<closing, funcs>>
  /\ UNCHANGED <<svc, config, pc, sig, closed, server, deadline, sent>>

(* The goroutine of Configure gets to signal.Notify. *)
Notify ==
  /\ life \in {"init", "serving"} /\ sig = "starting" /\ svc # "quota"
  /\ sig' = "waiting"
  /\ UNCHANGED <<svc, config, pc, life, how, closer, server, deadline, requests, sent>>

(* quota installs its handler when the server first polls the shutdown. *)
WaitForSignal ==
  /\ life = "serving" /\ sig = "starting" /\ svc = "quota"
  /\ sig' = "waiting"
  /\ UNCHANGED <<svc, config, pc, life, how, closer, server, deadline, requests, sent>>

(* Run returns the error of Listen or Serve; storage only logs it. *)
RunFails == Exit(IF svc = "storage" THEN "normal" ELSE "failed")

(* Listen and Serve.  A gRPC server of Go that was stopped before refuses  *)
(* to serve.                                                               *)
Serve ==
  /\ life = "init" /\ pc > Len(Startup[svc]) /\ MainRuns
  /\ IF server = "stopped"
       THEN RunFails
       ELSE life' = "serving" /\ UNCHANGED <<how, requests>>
  /\ UNCHANGED <<svc, config, pc, sig, closer, server, deadline, sent>>

(* The port is in use.  authz has bound it already. *)
ListenFail ==
  /\ life = "init" /\ pc > Len(Startup[svc]) /\ svc # "authz"
  /\ IF svc = "gateway"
       THEN /\ life' = "leaving" /\ how' = "failed"
            /\ closing' = funcs /\ funcs' = {}
            /\ UNCHANGED requests
       ELSE RunFails /\ UNCHANGED <<closing, funcs>>
  /\ UNCHANGED <<svc, config, pc, sig, closed, server, deadline, sent>>

-----------------------------------------------------------------------------
(* Signals and the closer *)

(* SIGINT or SIGTERM.  Without a handler, also before it is installed and  *)
(* in Go once it has returned, the signal ends the process.                *)
Signal ==
  /\ life \in {"load", "init", "serving"} /\ sent < MaxSignals
  /\ sent' = sent + 1
  /\ \/ /\ sig \in {"default", "starting"} \/ (sig = "done" /\ svc \in GoServer)
        /\ Exit("killed")
        /\ UNCHANGED <<sig, closing, funcs>>
     \/ /\ sig = "waiting"
        /\ sig' = "closing"
        /\ IF svc = "gateway" THEN UNCHANGED <<closing, funcs>>
           ELSE closing' = funcs /\ funcs' = {}
        /\ UNCHANGED <<life, how, requests>>
     \/ /\ sig = "closing" \/ (sig = "done" /\ svc \notin GoServer)
        /\ UNCHANGED <<sig, closing, funcs, life, how, requests>>
  /\ UNCHANGED <<svc, config, pc, closed, server, deadline>>

(* One of the concurrent functions of CloseAll. *)
CloseFunc(n) ==
  /\ life # "exited" /\ n \in closing \ {"server"}
  /\ closing' = closing \ {n}
  /\ closed' = closed \cup {n}
  /\ UNCHANGED <<svc, config, pc, life, how, sig, funcs, server, deadline, requests, sent>>

(* The server is asked to stop: its function is running, or the gateway's  *)
(* Run and quota's Serve have seen the signal.                             *)
StopRequested ==
  \/ "server" \in closing
  \/ svc \in {"gateway", "quota"} /\ sig = "closing"

(* GracefulStop, stop(grace) or Shutdown begins: no new requests.  grpc of *)
(* Python has nothing to stop before the start.                            *)
StopAccepting ==
  /\ life # "exited" /\ StopRequested /\ server = "open"
  /\ svc # "quota" /\ (svc = "gateway" => life = "serving")
  /\ IF svc = "authz" /\ life = "init"
       THEN closing' = closing \ {"server"} /\ UNCHANGED server
       ELSE server' = "draining" /\ UNCHANGED closing
  /\ UNCHANGED <<svc, config, pc, life, how, sig, funcs, closed, deadline, requests, sent>>

(* Mutant of Drained: Stop instead of GracefulStop. *)
DrainedAtOnce ==
  /\ life # "exited" /\ server = "draining"
  /\ server' = "stopped"
  /\ closing' = closing \ {"server"}
  /\ UNCHANGED <<svc, config, pc, life, how, sig, funcs, closed, deadline, requests, sent>>

(* The last request has ended. *)
Drained ==
  /\ life # "exited" /\ server = "draining" /\ Running = {}
  /\ server' = "stopped"
  /\ closing' = closing \ {"server"}
  /\ UNCHANGED <<svc, config, pc, life, how, sig, funcs, closed, deadline, requests, sent>>

(* Mutant of Overdue: the gateway's Shutdown has no deadline. *)
OverdueOnlyAuthz ==
  /\ life # "exited" /\ server = "draining" /\ Running # {}
  /\ svc = "authz"
  /\ server' = "stopped" /\ deadline' = "passed"
  /\ closing' = closing \ {"server"}
  /\ requests' = [r \in Rpc |-> IF requests[r] = "running" THEN "cut" ELSE requests[r]]
  /\ UNCHANGED <<svc, config, pc, life, how, sig, funcs, closed, sent>>

(* authz: the grace of stop passes.  gateway: Shutdown runs out of time    *)
(* and Close drops the connections, while the handlers go on.              *)
Overdue ==
  /\ life # "exited" /\ server = "draining" /\ Running # {}
  /\ svc \in {"authz", "gateway"}
  /\ server' = "stopped" /\ deadline' = "passed"
  /\ closing' = closing \ {"server"}
  /\ requests' = IF svc = "gateway" THEN requests
            ELSE [r \in Rpc |-> IF requests[r] = "running" THEN "cut" ELSE requests[r]]
  /\ UNCHANGED <<svc, config, pc, life, how, sig, funcs, closed, sent>>

(* CloseAll returns: everything is closed, or the timeout has passed and   *)
(* the functions are left to themselves.                                   *)
CloseAllReturns ==
  /\ life \in {"init", "serving"} /\ svc \notin {"gateway", "quota"} /\ sig = "closing"
  /\ sig' = "done"
  /\ UNCHANGED <<svc, config, pc, life, how, closer, server, deadline, requests, sent>>

(* The same for quota, whose server begins to drain only then. *)
ShutdownReturns ==
  /\ life = "serving" /\ svc = "quota" /\ sig = "closing"
  /\ sig' = "done"
  /\ server' = "draining"
  /\ UNCHANGED <<svc, config, pc, life, how, closer, deadline, requests, sent>>

-----------------------------------------------------------------------------
(* Requests and the end of the process *)

RpcStart(r) ==
  /\ life = "serving" /\ server = "open" /\ requests[r] \in {"idle", "broken"}
  /\ requests' = [requests EXCEPT ![r] = "running"]
  /\ UNCHANGED <<svc, config, pc, life, how, sig, closer, server, deadline, sent>>

RpcEnd(r) ==
  /\ life # "exited" /\ requests[r] = "running"
  /\ "limiter" \in disabled => svc = "storage"
  /\ requests' = [requests EXCEPT ![r] = "idle"]
  /\ UNCHANGED <<svc, config, pc, life, how, sig, closer, server, deadline, sent>>

(* Without a limiter the interceptor of unary RPCs panics, and the process *)
(* with it; only storage has RPCs that are not unary.                      *)
RpcPanics(r) ==
  /\ life = "serving" /\ requests[r] = "running" /\ "limiter" \in disabled
  /\ Exit("crashed")
  /\ UNCHANGED <<svc, config, pc, sig, closer, server, deadline, sent>>

(* The request finds something it uses closed, and ends in an error. *)
RpcBreaks(r) ==
  /\ life # "exited" /\ requests[r] = "running" /\ closed \cap Dependency # {}
  /\ requests' = [requests EXCEPT ![r] = "broken"]
  /\ UNCHANGED <<svc, config, pc, life, how, sig, closer, server, deadline, sent>>

(* Serve returns once the server has stopped, and main with it: nothing    *)
(* waits for CloseAll.                                                     *)
ServeReturns ==
  /\ life = "serving" /\ server = "stopped" /\ MainRuns
  /\ svc # "gateway"
  /\ Exit("normal")
  /\ UNCHANGED <<svc, config, pc, sig, closer, server, deadline, sent>>

(* The gateway's Run returns and closes what is registered. *)
CloseResources ==
  /\ life = "serving" /\ svc = "gateway" /\ server = "stopped"
  /\ life' = "leaving"
  /\ closing' = funcs /\ funcs' = {}
  /\ UNCHANGED <<svc, config, pc, how, sig, closed, server, deadline, requests, sent>>

(* ... and the process ends, with an error when Shutdown had one. *)
GatewayExit ==
  /\ life = "leaving"
  /\ Exit(IF how = "failed" \/ deadline = "passed" THEN "failed" ELSE "normal")
  /\ UNCHANGED <<svc, config, pc, sig, closer, server, deadline, sent>>

(* Nothing is left to happen. *)
Ended == life = "exited" /\ UNCHANGED vars

Next ==
  \/ LoadStep \/ LoadFail \/ InitStep \/ InitFail \/ Notify \/ WaitForSignal \/ Serve \/ ListenFail
  \/ Signal \/ (\E n \in Closable : CloseFunc(n)) \/ StopAccepting
  \/ Drained \/ Overdue \/ CloseAllReturns \/ ShutdownReturns
  \/ \E r \in Rpc : RpcStart(r) \/ RpcEnd(r) \/ RpcPanics(r) \/ RpcBreaks(r)
  \/ ServeReturns \/ CloseResources \/ GatewayExit
  \/ Ended

Spec == Init /\ [][Next]_vars

(* The startup goes on, handlers get to run, deadlines pass, and servers   *)
(* notice that they are drained.  A shutdown function may hang; a request  *)
(* ends, except where the code has a deadline for it.                      *)
FairSpec ==
  /\ Spec
  /\ WF_vars(LoadStep \/ LoadFail) /\ WF_vars(InitStep \/ InitFail)
  /\ WF_vars(Notify) /\ WF_vars(WaitForSignal) /\ WF_vars(Serve)
  /\ WF_vars(StopAccepting) /\ WF_vars(Drained) /\ WF_vars(Overdue)
  /\ WF_vars(CloseAllReturns) /\ WF_vars(ShutdownReturns) /\ WF_vars(ServeReturns)
  /\ WF_vars(CloseResources) /\ WF_vars(GatewayExit)
  /\ \A r \in Rpc : WF_vars(svc \notin {"authz", "gateway"} /\ (RpcEnd(r) \/ RpcPanics(r)))

-----------------------------------------------------------------------------
(* Properties *)

(* A server that is asked to stop brings the process to its end, even when *)
(* shutdown functions hang.                                                *)
ShutdownEnds ==
  (StopRequested /\ (svc = "authz" => life = "serving")) ~> life = "exited"
=============================================================================
