------------------------------- MODULE Config -------------------------------
(***************************************************************************)
(* The configuration of the services: what each loader of environment      *)
(* variables requires, converts and refuses, and which values that it lets *)
(* through disable a part of the service later.                            *)
(*                                                                         *)
(*   services/*/internal/config/env    auth, users, metadata, storage,     *)
(*                                     gateway                             *)
(*   services/authz/internal/config.py, services/quota/src/config.rs       *)
(*                                                                         *)
(* An environment e gives each variable one of the kinds of values that    *)
(* the loaders and the code behind them tell apart: "unset", "empty",      *)
(* "junk" (text where a number, a duration or a flag is expected), "neg",  *)
(* "zero", "tiny" (1, or 1 ns), "huge" (beyond what the code converts it   *)
(* to or expects of it) and "ok".  Variables that are text with a default  *)
(* cannot be wrong and are left out.                                       *)
(***************************************************************************)
EXTENDS FiniteSets

(* env.Parse on the tags of a struct, for the variables in S. *)
Required(e, S) == \A v \in S : e[v] # "unset"
NotEmpty(e, S) == \A v \in S : e[v] \notin {"unset", "empty"}
Parses(e, S)   == \A v \in S : e[v] # "junk"

(* What the loaders test themselves. *)
Positive(e, S)  == \A v \in S : e[v] \notin {"neg", "zero"}
InRange(e, S)   == Positive(e, S) /\ \A v \in S : e[v] # "huge"

Otel    == {"OTEL_SERVICE_NAME", "OTEL_EXPORTER_OTLP_ENDPOINT", "OTEL_ENVIRONMENT"}
Logging == {"LOGGER_AS_JSON", "LOGGER_ENABLE_OLTP"}
Listen  == {"GRPC_HOST", "GRPC_PORT"}
Limiter == {"RATE_LIMITER_LIMIT", "RATE_LIMITER_PERIOD"}
PGParts == {"PG_HOST", "PG_PORT_INNER", "PG_DATABASE_NAME", "PG_USER", "PG_PASSWORD"}
Kafka   == {"KAFKA_BOOTSTRAP", "KAFKA_OBJECT_DELETED_TOPIC", "KAFKA_BUCKET_DELETED_TOPIC"}

-----------------------------------------------------------------------------
(* The loaders: TRUE when the constructor returns a configuration.  Every  *)
(* service has a copy of its own, and the copies differ.                   *)

AuthLogger(e)      == Required(e, Otel \cup Logging \cup {"LOGGER_LEVEL"}) /\ Parses(e, Logging)
AuthGRPC(e)        == NotEmpty(e, Listen)
AuthUserGRPC(e)    == NotEmpty(e, {"USER_SERVER_GRPC_HOST", "USER_SERVER_GRPC_PORT"})
AuthRedis(e)       == /\ NotEmpty(e, {"CACHE_HOST", "INTERNAL_CACHE_PORT", "EXTERNAL_CACHE_PORT"})
                      /\ Parses(e, {"CACHE_MAX_IDLE", "CACHE_CONNECTION_TIMEOUT", "CACHE_IDLE_TIMEOUT"})
AuthJWT(e)         == /\ NotEmpty(e, {"REFRESH_TOKEN_SECRET", "ACCESS_TOKEN_SECRET"})
                      /\ Parses(e, {"REFRESH_TOKEN_TTL", "ACCESS_TOKEN_TTL"})
AuthSecurity(e)    == Parses(e, {"SECURITY_MAX_LOGIN_ATTEMPTS", "SECURITY_LOGIN_ATTEMPTS_WINDOW"})
AuthTracing(e)     == TRUE
AuthMetrics(e)     == /\ Required(e, Otel \cup {"OTEL_SERVICE_VERSION", "OTEL_METRICS_PUSH_TIMEOUT"})
                      /\ Parses(e, {"OTEL_METRICS_PUSH_TIMEOUT"})
AuthRateLimiter(e) == Parses(e, Limiter) /\ Positive(e, Limiter)

UsersLogger(e)      == Required(e, Otel \cup Logging \cup {"LOGGER_LEVEL"}) /\ Parses(e, Logging)
UsersGRPC(e)        == Required(e, Listen)
UsersPG(e)          == /\ Parses(e, {"PG_TIMEOUT", "PG_LOGGING"})
                       /\ e["PG_DSN"] = "ok" \/ NotEmpty(e, PGParts)
UsersTracing(e)     == TRUE
UsersMetrics(e)     == /\ Required(e, Otel \cup {"OTEL_SERVICE_VERSION", "OTEL_METRICS_PUSH_TIMEOUT"})
                       /\ Parses(e, {"OTEL_METRICS_PUSH_TIMEOUT"})
UsersRateLimiter(e) == Parses(e, Limiter) /\ Positive(e, Limiter)

MetadataLogger(e)      == Required(e, Otel \cup Logging \cup {"LOGGER_LEVEL"}) /\ Parses(e, Logging)
MetadataGRPC(e)        == Required(e, Listen)
MetadataPG(e)          == /\ Parses(e, {"PG_TIMEOUT", "PG_LOGGING"})
                          /\ e["PG_DSN"] = "ok" \/ NotEmpty(e, PGParts)
MetadataKafka(e)       == Required(e, Kafka)
MetadataTracing(e)     == TRUE
MetadataMetrics(e)     == /\ Required(e, Otel \cup {"OTEL_SERVICE_VERSION", "OTEL_METRICS_PUSH_TIMEOUT"})
                          /\ Parses(e, {"OTEL_METRICS_PUSH_TIMEOUT"})
MetadataRateLimiter(e) == Parses(e, Limiter) /\ Positive(e, Limiter)

StorageLogger(e)      == Required(e, Otel \cup Logging \cup {"LOGGER_LEVEL"}) /\ Parses(e, Logging)
StorageGRPC(e)        == Required(e, Listen)
StorageStorage(e)     == /\ Parses(e, {"STORAGE_RETRIEVE_CHUNK_SIZE_BYTES"})
                         /\ InRange(e, {"STORAGE_RETRIEVE_CHUNK_SIZE_BYTES"})
StorageTracing(e)     == TRUE
StorageMetrics(e)     == /\ Required(e, Otel \cup {"OTEL_SERVICE_VERSION", "OTEL_METRICS_PUSH_TIMEOUT"})
                         /\ Parses(e, {"OTEL_METRICS_PUSH_TIMEOUT"})
StorageRateLimiter(e) == Parses(e, Limiter) /\ Positive(e, Limiter)

(* Mutant of GatewayMetadata: the timeout is parsed and not tested. *)
GatewayMetadataUntested(e) == Parses(e, {"METADATA_RPC_TIMEOUT"})

GatewayHTTP(e)     == TRUE
GatewayMetadata(e) == Parses(e, {"METADATA_RPC_TIMEOUT"}) /\ Positive(e, {"METADATA_RPC_TIMEOUT"})
GatewayStorage(e)  == /\ Parses(e, {"STORAGE_RETRIEVE_CHUNK_SIZE_BYTES"})
                      /\ InRange(e, {"STORAGE_RETRIEVE_CHUNK_SIZE_BYTES"})
GatewayLogger(e)   == Parses(e, Logging)
GatewayTracing(e)  == Parses(e, {"OTEL_ENABLED"})
GatewayMetrics(e)  == /\ Parses(e, {"OTEL_ENABLED", "OTEL_METRICS_PUSH_TIMEOUT"})
                      /\ Positive(e, {"OTEL_METRICS_PUSH_TIMEOUT"})

AuthzNumbers(e) == Parses(e, {"REDIS_PORT", "OTEL_METRICS_PUSH_INTERVAL"})

(* quota replaces what it cannot parse by the default, and refuses nothing. *)
VarParse(e, v) == IF e[v] \in {"unset", "junk", "neg", "huge"} THEN "ok" ELSE e[v]

(* The loaders of a service by the name of their startup step. *)
Loaders(service, e) ==
  CASE service = "auth" ->
         [logger |-> AuthLogger(e), grpc |-> AuthGRPC(e), user_client |-> AuthUserGRPC(e),
          redis |-> AuthRedis(e), jwt |-> AuthJWT(e), security |-> AuthSecurity(e),
          tracing |-> AuthTracing(e), metrics |-> AuthMetrics(e), rate_limiter |-> AuthRateLimiter(e)]
    [] service = "users" ->
         [logger |-> UsersLogger(e), grpc |-> UsersGRPC(e), pg |-> UsersPG(e),
          tracing |-> UsersTracing(e), metrics |-> UsersMetrics(e), rate_limiter |-> UsersRateLimiter(e)]
    [] service = "metadata" ->
         [logger |-> MetadataLogger(e), grpc |-> MetadataGRPC(e), pg |-> MetadataPG(e),
          kafka |-> MetadataKafka(e), tracing |-> MetadataTracing(e), metrics |-> MetadataMetrics(e),
          rate_limiter |-> MetadataRateLimiter(e)]
    [] service = "storage" ->
         [logger |-> StorageLogger(e), grpc |-> StorageGRPC(e), storage |-> StorageStorage(e),
          tracing |-> StorageTracing(e), metrics |-> StorageMetrics(e),
          rate_limiter |-> StorageRateLimiter(e)]
    [] service = "gateway" ->
         [http |-> GatewayHTTP(e), metadata |-> GatewayMetadata(e), storage |-> GatewayStorage(e),
          logger |-> GatewayLogger(e), tracing |-> GatewayTracing(e), metrics |-> GatewayMetrics(e)]
    [] service = "authz" -> [numbers |-> AuthzNumbers(e)]
    [] service = "quota" -> [defaults |-> TRUE]

-----------------------------------------------------------------------------
(* What a value that was let through does to the service. *)

(* Period divided by Limit, in whole nanoseconds, is zero: there is no     *)
(* limiter, and the first unary RPC panics.                                *)
LimiterIsNil(e) ==
  \/ e["RATE_LIMITER_PERIOD"] \in {"neg", "zero", "tiny"}
  \/ e["RATE_LIMITER_LIMIT"] \in {"neg", "zero", "huge"}

(* The conversion to int8 leaves a maximum that is not positive. *)
NoAttemptAllowed(e) == e["SECURITY_MAX_LOGIN_ATTEMPTS"] \in {"neg", "zero", "huge"}

(* The expiry is given to Redis in whole seconds: the counter is gone.     *)
WindowIsZero(e) == e["SECURITY_LOGIN_ATTEMPTS_WINDOW"] \in {"neg", "zero", "tiny"}

(* Every connection is asked for with a context that has expired. *)
CacheUnreachable(e) == e["CACHE_CONNECTION_TIMEOUT"] \in {"neg", "zero"}

(* A token is expired when it is issued. *)
TokensExpired(e) == \E v \in {"REFRESH_TOKEN_TTL", "ACCESS_TOKEN_TTL"} : e[v] \in {"neg", "zero"}

(* The listener picks a port of its own. *)
AnyPort(e) == e["GRPC_PORT"] = "empty"

(* A chunk that is empty, or larger than a message may be. *)
BadChunk(e) == e["STORAGE_RETRIEVE_CHUNK_SIZE_BYTES"] \in {"neg", "zero", "huge"}

(* Every call of metadata has passed its deadline. *)
MetadataUnreachable(e) == e["METADATA_RPC_TIMEOUT"] \in {"neg", "zero"}

(* tokio::time::interval panics in the task that persists the usage. *)
FlushPanics(e) == VarParse(e, "REDIS_FLUSH_INTERVAL_MS") = "zero"

Part == {"limiter", "port", "login", "throttle", "cache", "tokens", "chunks", "metadata client", "flush"}

Disabled(service, e) ==
  LET GoServer == {"auth", "users", "metadata", "storage"}
      On(part, cond) == IF cond THEN {part} ELSE {}
  IN  On("limiter", service \in GoServer /\ LimiterIsNil(e))
        \cup On("port", service \in GoServer /\ AnyPort(e))
        \cup On("login", service = "auth" /\ NoAttemptAllowed(e))
        \cup On("throttle", service = "auth" /\ WindowIsZero(e))
        \cup On("cache", service = "auth" /\ CacheUnreachable(e))
        \cup On("tokens", service = "auth" /\ TokensExpired(e))
        \cup On("chunks", service \in {"storage", "gateway"} /\ BadChunk(e))
        \cup On("metadata client", service = "gateway" /\ MetadataUnreachable(e))
        \cup On("flush", service = "quota" /\ FlushPanics(e))

-----------------------------------------------------------------------------
(* The environments a service is started in: everything is as it should    *)
(* be, but for one variable; a database is given by its DSN or in parts.   *)

Flags(service) ==
  [auth |-> Logging, users |-> Logging \cup {"PG_LOGGING"}, metadata |-> Logging \cup {"PG_LOGGING"},
   storage |-> Logging, gateway |-> Logging \cup {"OTEL_ENABLED"}, authz |-> {}, quota |-> {}][service]

Numbers(service) ==
  LET Common == Limiter \cup {"OTEL_METRICS_PUSH_TIMEOUT"} IN
  [auth     |-> Common \cup {"CACHE_MAX_IDLE", "CACHE_CONNECTION_TIMEOUT", "CACHE_IDLE_TIMEOUT",
                             "REFRESH_TOKEN_TTL", "ACCESS_TOKEN_TTL", "SECURITY_MAX_LOGIN_ATTEMPTS",
                             "SECURITY_LOGIN_ATTEMPTS_WINDOW"},
   users    |-> Common \cup {"PG_TIMEOUT"},
   metadata |-> Common \cup {"PG_TIMEOUT"},
   storage  |-> Common \cup {"STORAGE_RETRIEVE_CHUNK_SIZE_BYTES"},
   gateway  |-> {"OTEL_METRICS_PUSH_TIMEOUT", "METADATA_RPC_TIMEOUT", "STORAGE_RETRIEVE_CHUNK_SIZE_BYTES"},
   authz    |-> {"REDIS_PORT", "OTEL_METRICS_PUSH_INTERVAL"},
   quota    |-> {"REDIS_FLUSH_INTERVAL_MS"}][service]

Texts(service) ==
  LET Common == Otel \cup Listen \cup {"LOGGER_LEVEL", "OTEL_SERVICE_VERSION"} IN
  [auth     |-> Common \cup {"USER_SERVER_GRPC_HOST", "USER_SERVER_GRPC_PORT", "CACHE_HOST",
                             "INTERNAL_CACHE_PORT", "EXTERNAL_CACHE_PORT", "REFRESH_TOKEN_SECRET",
                             "ACCESS_TOKEN_SECRET"},
   users    |-> Common \cup PGParts,
   metadata |-> Common \cup PGParts \cup Kafka,
   storage  |-> Common,
   gateway  |-> {}, authz |-> {}, quota |-> {}][service]

Environments(service) ==
  LET Vars == Flags(service) \cup Numbers(service) \cup Texts(service) \cup {"PG_DSN"}
      Right == [v \in Vars |-> "ok"]
      Bases == {Right} \cup (IF "PG_HOST" \in Vars THEN {[Right EXCEPT !["PG_DSN"] = "unset"]} ELSE {})
  IN  Bases
        \cup {[b EXCEPT ![v] = x] : b \in Bases, v \in Flags(service), x \in {"unset", "junk"}}
        \cup {[b EXCEPT ![v] = x] : b \in Bases, v \in Numbers(service),
                                    x \in {"unset", "junk", "neg", "zero", "tiny", "huge"}}
        \cup {[b EXCEPT ![v] = x] : b \in Bases, v \in Texts(service), x \in {"unset", "empty"}}
=============================================================================
