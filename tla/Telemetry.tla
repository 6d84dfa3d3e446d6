----------------------------- MODULE Telemetry -----------------------------
(***************************************************************************)
(* What the services record of a request: the spans of its trace, the      *)
(* counts of requests and responses, and the lines of the logs.            *)
(*                                                                         *)
(*   shared/pkg/go-kit/tracing, middleware/metrics, middleware/validation, *)
(*   metric, logger, contextx/traceIDctx                                   *)
(*   shared/pkg/py_kit/tracing, middleware, metric, logger                 *)
(*   shared/pkg/rust-kit/src/middleware, telemetry                         *)
(*   services/gateway/internal/observability, client/storage               *)
(*                                                                         *)
(* A request is a journey: its first hop is the service that its caller    *)
(* reached, the others are the calls which that service makes, one after   *)
(* the other.  A hop passes the interceptors of its service on the way in  *)
(* and, in reverse, on the way out.  One request is followed: spans belong *)
(* to one request, and counts of several add up.                           *)
(***************************************************************************)
EXTENDS Naturals, Sequences

None == "none"

(* No span, and the one that the caller of the request may have. *)
NoSpan == <<0, "none">>
Remote == <<0, "remote">>

-----------------------------------------------------------------------------
(* Interceptors of the servers, outermost first *)

UnaryChain  == <<"limit", "metrics", "codes", "trace">>
StreamChain == <<"smetrics", "codes">>
AuthzChain  == <<"pytrace", "pymetrics">>
QuotaChain  == <<"layer">>
HttpChain   == <<"http">>

Unary(svc)  == [svc |-> svc, chain |-> UnaryChain, call |-> "unary"]
Stream(way) == [svc |-> "storage", chain |-> StreamChain, call |-> way]
Gateway     == [svc |-> "gateway", chain |-> HttpChain, call |-> "unary"]

Journeys ==
  [Get   |-> <<Gateway, Unary("metadata"), Stream("retrieve")>>,
   Put   |-> <<Gateway, Unary("metadata"), Stream("store"), Unary("metadata")>>,
   Login |-> <<Unary("auth"), Unary("users")>>,
   Call  |-> <<Unary("metadata")>>,
   Check |-> <<[svc |-> "authz", chain |-> AuthzChain, call |-> "unary"]>>,
   Quota |-> <<[svc |-> "quota", chain |-> QuotaChain, call |-> "unary"]>>]

VARIABLES
  setup,   \* the configuration: what the services were started with
  hop,     \* the hops of the request: where it is, and what it carries
  call,    \* the calls of the first hop, as it sees them
  span,    \* the spans that were started
  watch,   \* the goroutines that wait for the end of a stream
  gone,    \* "yes" when the caller of the first hop went away
  counted, \* per hop: requests, and the labels of responses
  lines    \* what the logs got

vars == <<setup, hop, call, span, watch, gone, counted, lines>>

journey == Journeys[setup.journey]
Hops    == DOMAIN journey
Calls   == Hops \ {1}

-----------------------------------------------------------------------------
(* Setup of the providers *)

(* The levels of the logs, the least important one first. *)
Levels == <<"debug", "info", "warn", "error">>
Known(name) == \E n \in DOMAIN Levels : Levels[n] = name
Rank(l) == CHOOSE n \in DOMAIN Levels : Levels[n] = l

(* A level nobody knows is info. *)
ParseLevel(name) == IF Known(name) THEN name ELSE "info"

(* quota takes it for the name of a module, and has nothing of its own.    *)
EnvFilter(level) == Known(setup.level) /\ Rank(level) >= Rank(setup.level)

(* The tracer of a service and its propagator.  The Go services do not     *)
(* start without one, but the gateway can be told not to trace; authz goes *)
(* on without the packages of OpenTelemetry; quota has no propagator, and  *)
(* its spans, whose level is info, are only exported to an OTLP endpoint.  *)
InitTracer(svc) == svc = "gateway" => setup.tracing = "on"
PyInitTracer    == setup.packages = "installed"
RustInitTracer  == setup.otlp = "on" /\ EnvFilter("info")
Traces(svc) ==
  CASE svc = "authz" -> PyInitTracer
    [] svc = "quota" -> RustInitTracer
    [] OTHER         -> InitTracer(svc)

(* The instruments: a counter that was not made counts nothing, nor does   *)
(* one of quota when nothing is exported.                                  *)
PyInitMetrics   == setup.packages = "installed"
RustInitMetrics == setup.otlp = "on"
Instruments(svc) ==
  /\ svc = "authz" => PyInitMetrics
  /\ svc = "quota" => RustInitMetrics

(* Where the lines go.  Without its exporter a Go service logs to stdout,  *)
(* authz does without the packages, and quota does not start.              *)
BuildCores     == {"stdout"} \cup (IF setup.otlp = "on" THEN {"otlp"} ELSE {})
PyHandlers     == {"stdout"} \cup (IF setup.otlp # "off" /\ setup.packages = "installed" THEN {"otlp"} ELSE {})
RustSubscriber == {"stdout"} \cup (IF setup.otlp = "on" THEN {"otlp"} ELSE {})

LoggerInit   == [level |-> ParseLevel(setup.level), sinks |-> BuildCores]
PyLoggerInit == [level |-> ParseLevel(setup.level), sinks |-> PyHandlers]
RustInit     == [level |-> ParseLevel(setup.level), sinks |-> IF Known(setup.level) THEN RustSubscriber ELSE {}]

Logger(svc) ==
  CASE svc = "authz" -> PyLoggerInit
    [] svc = "quota" -> RustInit
    [] OTHER         -> LoggerInit

(* otlp: the exporter of the logs is off, on, or cannot be created.  One   *)
(* level goes with each, to bound the number of setups; in quota any does. *)
Setups ==
  {s \in [journey : DOMAIN Journeys, remote : {NoSpan, Remote}, tracing : {"on", "off"},
          packages : {"installed", "missing"}, level : {"debug", "info", "error", "verbose"},
          otlp : {"off", "on", "broken"}] :
     /\ s.tracing = "off" => s.journey \in {"Get", "Put"}
     /\ s.packages = "missing" => s.journey = "Check"
     /\ s.journey = "Quota" => s.otlp # "broken"
     /\ s.journey # "Quota" =>
          <<s.level, s.otlp>> \in {<<"info", "on">>, <<"error", "broken">>, <<"verbose", "off">>}}

Init ==
  /\ setup \in Setups
  /\ hop = [h \in Hops |-> [way |-> "idle", at |-> 0, md |-> NoSpan, ctx |-> NoSpan, answer |-> None]]
  /\ call = [c \in Calls |-> None]
  /\ span = {}
  /\ watch = [c \in Calls |-> None]
  /\ gone = "no"
  /\ counted = [h \in Hops |-> [requests |-> 0, responses |-> <<>>]]
  /\ lines = {}

-----------------------------------------------------------------------------
(* Spans *)

(* The trace of a span is named after its first span. *)
TraceOf(parent) ==
  IF \E s \in span : s.name = parent THEN (CHOOSE s \in span : s.name = parent).trace ELSE parent

NewSpan(name, parent) ==
  [name |-> name, parent |-> parent, trace |-> IF parent = NoSpan THEN name ELSE TraceOf(parent),
   ends |-> 0, marked |-> "no"]

Start(name, parent) == span' = span \cup {NewSpan(name, parent)}

(* End, with an error or without one. *)
Ended(spans, name, err) ==
  {IF s.name = name THEN [s EXCEPT !.ends = @ + 1, !.marked = IF err = "yes" THEN err ELSE @] ELSE s
     : s \in spans}

-----------------------------------------------------------------------------
(* Lines *)

(* The field trace_id of a line: in Go it is the id of the span. *)
FieldsFromContext(ctx)   == ctx
CurrentTraceContext(ctx) == IF PyInitTracer THEN ctx ELSE NoSpan
LogFields(svc, ctx) ==
  CASE svc = "authz" -> CurrentTraceContext(ctx)
    [] svc = "quota" -> NoSpan
    [] OTHER         -> FieldsFromContext(ctx)

(* Each core that is enabled for the level gets the line and its fields. *)
Written(h, from, level, ctx) ==
  LET log == Logger(journey[h].svc) IN
  IF Rank(level) < Rank(log.level) THEN {}
  ELSE {[hop |-> h, from |-> from, level |-> level, sink |-> k, span |-> LogFields(journey[h].svc, ctx)]
          : k \in log.sinks}

-----------------------------------------------------------------------------
(* Interceptors *)

Down(h, layer) ==
  hop[h].way = "down" /\ hop[h].at <= Len(journey[h].chain) /\ journey[h].chain[hop[h].at] = layer
Up(h, layer) ==
  hop[h].way = "up" /\ hop[h].at > 0 /\ journey[h].chain[hop[h].at] = layer

Handling(h) == hop[h].way = "down" /\ hop[h].at > Len(journey[h].chain)

In(h)  == hop' = [hop EXCEPT ![h].at = @ + 1]
Out(h) == hop' = [hop EXCEPT ![h].at = @ - 1]

RateLimiterInterceptor(h) ==
  /\ \/ Down(h, "limit") /\ In(h)
     \/ Down(h, "limit") /\ hop' = [hop EXCEPT ![h].way = "up", ![h].at = 0, ![h].answer = "error"]
     \/ Up(h, "limit") /\ Out(h)
  /\ UNCHANGED <<setup, call, span, watch, gone, counted, lines>>

IncRequestCounter(h) ==
  counted' = [counted EXCEPT ![h].requests = IF Instruments(journey[h].svc) THEN @ + 1 ELSE @]
IncResponseCounter(h, status) ==
  counted' = [counted EXCEPT ![h].responses = IF Instruments(journey[h].svc) THEN Append(@, status) ELSE @]

Label(answer) == IF answer = "ok" THEN "success" ELSE "error"

Counting(h, layer) ==
  /\ \/ Down(h, layer) /\ In(h) /\ IncRequestCounter(h)
     \/ Up(h, layer) /\ Out(h) /\ IncResponseCounter(h, Label(hop[h].answer))
  /\ UNCHANGED <<setup, call, span, watch, gone, lines>>

(* Mutant of MetricsInterceptor: an error returns before it is counted. *)
MetricsInterceptorEarlyReturn(h) ==
  /\ \/ Down(h, "metrics") /\ In(h) /\ IncRequestCounter(h)
     \/ Up(h, "metrics") /\ Out(h) /\
          IF hop[h].answer = "ok" THEN IncResponseCounter(h, "success") ELSE UNCHANGED counted
  /\ UNCHANGED <<setup, call, span, watch, gone, lines>>

MetricsInterceptor(h) == Counting(h, "metrics")

StreamMetricsInterceptor(h) == Counting(h, "smetrics")

MetricsServerInterceptor(h) == Counting(h, "pymetrics")

MetricsLayer(h) == Counting(h, "layer")

(* The caller of quota went away: tonic drops the future of the request,   *)
(* and its span with it.                                                   *)
DropFuture(h) ==
  /\ journey[h].svc = "quota" /\ gone = "yes" /\ Handling(h)
  /\ hop' = [hop EXCEPT ![h].way = "up", ![h].at = 0, ![h].answer = "dropped"]
  /\ span' = Ended(span, <<h, "work">>, "no")
  /\ UNCHANGED <<setup, call, watch, gone, counted, lines>>

(* handleError is outside the interceptor that traces: its line has no     *)
(* span.  A status is passed on without a line.                            *)
ErrorCodesInterceptor(h) ==
  /\ \/ Down(h, "codes") /\ In(h) /\ UNCHANGED lines
     \/ /\ Up(h, "codes")
        /\ hop' = [hop EXCEPT ![h].at = @ - 1, ![h].answer = IF @ = "ok" THEN @ ELSE "error"]
        /\ lines' = lines \cup
             CASE hop[h].answer = "raw"   -> Written(h, "codes", "error", NoSpan)
               [] hop[h].answer = "typed" -> Written(h, "codes", "info", NoSpan)
               [] OTHER                   -> {}
  /\ UNCHANGED <<setup, call, span, watch, gone, counted>>

(* Extract: the span that the caller put into the metadata.  The span of   *)
(* the hop is the context of the handler, AddTraceIDToResponse included.   *)
UnaryServerInterceptor(h) ==
  /\ \/ /\ Down(h, "trace")
        /\ Start(<<h, "server">>, hop[h].md)
        /\ hop' = [hop EXCEPT ![h].at = @ + 1, ![h].ctx = <<h, "server">>]
     \/ /\ Up(h, "trace")
        /\ span' = Ended(span, <<h, "server">>, "no")
        /\ hop' = [hop EXCEPT ![h].at = @ - 1, ![h].ctx = NoSpan]
  /\ UNCHANGED <<setup, call, watch, gone, counted, lines>>

(* Without the packages the handler is called as it is. *)
TracingServerInterceptor(h) ==
  /\ \/ /\ Down(h, "pytrace")
        /\ IF PyInitTracer THEN Start(<<h, "server">>, hop[h].md) ELSE UNCHANGED span
        /\ hop' = [hop EXCEPT ![h].at = @ + 1, ![h].ctx = <<h, "server">>]
     \/ /\ Up(h, "pytrace")
        /\ span' = Ended(span, <<h, "server">>, IF hop[h].answer = "ok" THEN "no" ELSE "yes")
        /\ hop' = [hop EXCEPT ![h].at = @ - 1, ![h].ctx = NoSpan]
  /\ UNCHANGED <<setup, call, watch, gone, counted, lines>>

(* The answer of the gateway: what the first WriteHeader or Write said, or *)
(* 200 when nothing was written; "abort" is a body that was cut short.     *)
StatusWriter(answer) ==
  CASE answer \in {"ok", "abort"} -> "200"
    [] answer = "typed"           -> "4xx"
    [] OTHER                      -> "5xx"

NewHTTPHandler(h) ==
  /\ \/ /\ Down(h, "http")
        /\ IF Traces("gateway") THEN Start(<<h, "server">>, hop[h].md) ELSE UNCHANGED span
        /\ hop' = [hop EXCEPT ![h].at = @ + 1, ![h].ctx = IF Traces("gateway") THEN <<h, "server">> ELSE NoSpan]
        /\ UNCHANGED counted
     \/ /\ Up(h, "http")
        /\ counted' = [counted EXCEPT ![h] = [requests |-> 1, responses |-> <<StatusWriter(hop[h].answer)>>]]
        /\ span' = Ended(span, <<h, "server">>,
                         IF hop[h].answer = "abort" \/ StatusWriter(hop[h].answer) = "5xx" THEN "yes" ELSE "no")
        /\ hop' = [hop EXCEPT ![h].at = @ - 1, ![h].ctx = NoSpan]
  /\ UNCHANGED <<setup, call, watch, gone, lines>>

-----------------------------------------------------------------------------
(* Handlers *)

Return(h, answer) ==
  [hop EXCEPT ![h].way = "up", ![h].at = Len(journey[h].chain), ![h].answer = answer]

(* Services whose handler opens a span of its own; those that quota opens  *)
(* in its layers are one here.  It has no server span, and what the caller *)
(* sent is not read.                                                       *)
OwnSpan(h) == journey[h].svc \in {"auth", "users", "authz", "quota"}

StartSpan(h) ==
  /\ Handling(h) /\ OwnSpan(h) /\ hop[h].ctx # <<h, "work">>
  /\ IF Traces(journey[h].svc) THEN Start(<<h, "work">>, hop[h].ctx) ELSE UNCHANGED span
  /\ hop' = [hop EXCEPT ![h].ctx = <<h, "work">>]
  /\ UNCHANGED <<setup, call, watch, gone, counted, lines>>

(* The level of a line; those of quota say why it refuses. *)
LineLevel(h, answer) ==
  IF journey[h].svc = "quota" THEN "debug" ELSE IF answer = "raw" THEN "error" ELSE "info"

(* A service that calls no other: it answers, and may log.  In users       *)
(* ValidateCredentials leaves its span open when the credentials could not *)
(* be read, and its answer is no error.                                    *)
Serve(h) ==
  /\ Handling(h) /\ (h > 1 \/ Len(journey) = 1)
  /\ OwnSpan(h) => hop[h].ctx = <<h, "work">>
  /\ \E answer \in {"ok", "typed", "raw", "error"} :
       /\ journey[h].svc = "users" => answer \in {"ok", "raw"}
       /\ hop' = Return(h, IF journey[h].svc = "users" THEN "ok" ELSE answer)
       /\ span' = IF journey[h].svc = "users" /\ answer = "raw" THEN span
                  ELSE Ended(span, <<h, "work">>,
                             IF journey[h].svc = "authz" /\ answer # "ok" THEN "yes" ELSE "no")
       /\ lines' \in {lines, lines \cup Written(h, "handler", LineLevel(h, answer), hop[h].ctx)}
  /\ UNCHANGED <<setup, call, watch, gone, counted>>

(* A service that calls others answers when it refuses the request, a call *)
(* failed or all are done, and none is open.  auth ends its span before    *)
(* that.  A GET whose body is on the wire has its status already.          *)
Caller == Len(journey) > 1

Conclude ==
  /\ Caller /\ Handling(1) /\ \A c \in Calls : call[c] \notin {"open", "reading", "cut"}
  /\ hop[1].ctx = <<1, "work">> => call[2] # None
  /\ \E answer \in {"ok", "typed", "raw"} :
       /\ answer = "ok" => \A c \in Calls : call[c] \in {"ok", "read"}
       /\ answer # "ok" => \A c \in Calls : call[c] # "read"
       /\ hop' = Return(1, answer)
       /\ lines' = lines \cup IF answer = "raw" THEN Written(1, "handler", "error", hop[1].ctx) ELSE {}
  /\ span' = Ended(span, <<1, "work">>, "no")
  /\ UNCHANGED <<setup, call, watch, gone, counted>>

-----------------------------------------------------------------------------
(* Calls *)

(* The next call: those before it succeeded. *)
NextCall(c) ==
  /\ Handling(1) /\ call[c] = None /\ \A d \in Calls : d < c => call[d] = "ok"
  /\ OwnSpan(1) => hop[1].ctx = <<1, "work">>

(* Inject: the client's span, or nothing, goes into the metadata. *)
Begin(c) ==
  hop' = [hop EXCEPT ![c].way = "down", ![c].at = 1,
                     ![c].md = IF Traces(journey[1].svc) THEN <<c, "client">> ELSE NoSpan]

ClientSpan(c) ==
  IF Traces(journey[1].svc) THEN Start(<<c, "client">>, hop[1].ctx) ELSE UNCHANGED span

(* The context of a call: CreateVersion runs to its end without the        *)
(* caller; calls to metadata have a timeout.                               *)
Done(c) ==
  \/ gone = "yes" /\ ~(setup.journey = "Put" /\ c = 4)
  \/ journey[1].svc = "gateway" /\ journey[c].svc = "metadata"

(* Mutant of UnaryClientInterceptor: the context is injected before the    *)
(* client's span is in it.                                                 *)
UnaryClientInterceptorInjectsFirst(c) ==
  /\ journey[c].call = "unary"
  /\ \/ /\ NextCall(c) /\ ClientSpan(c)
        /\ hop' = [hop EXCEPT ![c].way = "down", ![c].at = 1,
                              ![c].md = IF Traces(journey[1].svc) THEN hop[1].ctx ELSE NoSpan]
        /\ call' = [call EXCEPT ![c] = "open"]
     \/ /\ call[c] = "open" /\ (hop[c].way = "over" \/ Done(c))
        /\ span' = Ended(span, <<c, "client">>, "no")
        /\ call' = [call EXCEPT ![c] = IF hop[c].way = "over" /\ hop[c].answer = "ok" THEN "ok" ELSE "failed"]
        /\ UNCHANGED hop
  /\ UNCHANGED <<setup, watch, gone, counted, lines>>

UnaryClientInterceptor(c) ==
  /\ journey[c].call = "unary"
  /\ \/ NextCall(c) /\ ClientSpan(c) /\ Begin(c) /\ call' = [call EXCEPT ![c] = "open"]
     \/ /\ call[c] = "open" /\ (hop[c].way = "over" \/ Done(c))
        /\ span' = Ended(span, <<c, "client">>, "no")
        /\ call' = [call EXCEPT ![c] = IF hop[c].way = "over" /\ hop[c].answer = "ok" THEN "ok" ELSE "failed"]
        /\ UNCHANGED hop
  /\ UNCHANGED <<setup, watch, gone, counted, lines>>

(* The stream is open and somebody waits for its end, or there is none.    *)
StreamClientInterceptor(c) ==
  /\ journey[c].call # "unary" /\ NextCall(c)
  /\ \/ /\ ClientSpan(c) /\ Begin(c)
        /\ call' = [call EXCEPT ![c] = "open"]
        /\ watch' = [watch EXCEPT ![c] = "waiting"]
     \/ /\ span' = IF Traces("gateway")
                     THEN Ended(span \cup {NewSpan(<<c, "client">>, hop[1].ctx)}, <<c, "client">>, "yes")
                     ELSE span
        /\ call' = [call EXCEPT ![c] = "failed"]
        /\ UNCHANGED <<hop, watch>>
  /\ UNCHANGED <<setup, gone, counted, lines>>

(* finish: the first one ends the span; done is closed.                    *)
Finish(c, err) ==
  IF watch[c] = "waiting"
    THEN span' = Ended(span, <<c, "client">>, err) /\ watch' = [watch EXCEPT ![c] = "closed"]
    ELSE UNCHANGED <<span, watch>>

(* RecvMsg returns an error or the end of the stream, or the response of a *)
(* store.  It fails when the context is done.  The end may come before the *)
(* first byte that metadata announced.                                     *)
RecvMsg(c) ==
  /\ call[c] \in {"open", "reading"} /\ journey[c].call # "unary"
  /\ \/ /\ hop[c].way = "over" /\ hop[c].answer = "ok"
        /\ Finish(c, "no")
        /\ \E seen \in {"ok", "failed"} :
             /\ seen = "failed" => journey[c].call = "retrieve" /\ call[c] = "open"
             /\ call' = [call EXCEPT ![c] = IF @ = "reading" THEN "read" ELSE seen]
     \/ /\ (hop[c].way = "over" /\ hop[c].answer # "ok") \/ gone = "yes"
        /\ Finish(c, "yes")
        /\ call' = [call EXCEPT ![c] = IF @ = "reading" THEN "cut" ELSE "failed"]
  /\ UNCHANGED <<setup, hop, gone, counted, lines>>

(* The first message of a retrieve; the body is written from now on. *)
RecvFirst(c) ==
  /\ call[c] = "open" /\ journey[c].call = "retrieve" /\ (hop[c].way = "over" => hop[c].answer = "ok")
  /\ call' = [call EXCEPT ![c] = "reading"]
  /\ UNCHANGED <<setup, hop, span, watch, gone, counted, lines>>

(* A message cannot be sent, for a reason that is not the server's. *)
SendMsg(c) ==
  /\ call[c] = "open" /\ journey[c].call = "store"
  /\ Finish(c, "yes")
  /\ call' = [call EXCEPT ![c] = "failed"]
  /\ UNCHANGED <<setup, hop, gone, counted, lines>>

(* The gateway stops on its own account: the body of a PUT cannot be read, *)
(* or a GET does not get what metadata announced.  Its deferred cancel is  *)
(* left to the goroutine.                                                  *)
StopEarly(c) ==
  /\ journey[c].call # "unary"
  /\ \/ call[c] = "open" /\ journey[c].call = "store" /\ call' = [call EXCEPT ![c] = "failed"]
     \/ call[c] = "reading" /\ call' = [call EXCEPT ![c] = "cut"]
  /\ UNCHANGED <<setup, hop, span, watch, gone, counted, lines>>

(* The body was cut short, or its last byte cannot be written: the handler *)
(* panics with http.ErrAbortHandler.                                       *)
Abort ==
  /\ Caller /\ Handling(1) /\ \E c \in Calls : call[c] \in {"cut", "read"}
  /\ hop' = Return(1, "abort")
  /\ lines' = lines \cup Written(1, "handler", "error", hop[1].ctx)
  /\ UNCHANGED <<setup, call, span, watch, gone, counted>>

(* The goroutine of a stream: the context is done, which the caller or the *)
(* end of Store and of the body bring about, or done is closed.            *)
StreamContextDone(c) == gone = "yes" \/ call[c] \in {"failed", "cut"} \/ hop[1].way \in {"up", "over"}

(* Mutant of Watch: nobody waits for the context. *)
WatchClosedOnly(c) ==
  /\ watch[c] = "closed" /\ watch' = [watch EXCEPT ![c] = "ended"]
  /\ UNCHANGED <<setup, hop, call, span, gone, counted, lines>>

Watch(c) ==
  /\ \/ watch[c] = "closed" /\ watch' = [watch EXCEPT ![c] = "ended"] /\ UNCHANGED span
     \/ /\ watch[c] = "waiting" /\ StreamContextDone(c)
        /\ span' = Ended(span, <<c, "client">>, "no")
        /\ watch' = [watch EXCEPT ![c] = "ended"]
  /\ UNCHANGED <<setup, hop, call, gone, counted, lines>>

-----------------------------------------------------------------------------
Request ==
  /\ hop[1].way = "idle"
  /\ hop' = [hop EXCEPT ![1].way = "down", ![1].at = 1, ![1].md = setup.remote]
  /\ UNCHANGED <<setup, call, span, watch, gone, counted, lines>>

(* The last interceptor is left. *)
Respond(h) ==
  /\ hop[h].way = "up" /\ hop[h].at = 0
  /\ hop' = [hop EXCEPT ![h].way = "over"]
  /\ UNCHANGED <<setup, call, span, watch, gone, counted, lines>>

CallerLeaves ==
  /\ gone = "no" /\ hop[1].way \in {"down", "up"}
  /\ gone' = "yes"
  /\ UNCHANGED <<setup, hop, call, span, watch, counted, lines>>

(* All hops are over: nothing more is asked of a service. *)
Settled == (\A h \in Hops : hop[h].way \in {"idle", "over"}) /\ hop[1].way = "over"

Rest == Settled /\ UNCHANGED vars

Server(h) ==
  \/ RateLimiterInterceptor(h) \/ MetricsInterceptor(h) \/ StreamMetricsInterceptor(h)
  \/ ErrorCodesInterceptor(h)
  \/ UnaryServerInterceptor(h) \/ TracingServerInterceptor(h) \/ MetricsServerInterceptor(h)
  \/ MetricsLayer(h) \/ DropFuture(h) \/ NewHTTPHandler(h) \/ StartSpan(h) \/ Serve(h) \/ Respond(h)

Client(c) ==
  \/ UnaryClientInterceptor(c) \/ StreamClientInterceptor(c) \/ RecvFirst(c) \/ RecvMsg(c)
  \/ SendMsg(c) \/ StopEarly(c)

Next ==
  \/ Request \/ CallerLeaves \/ Conclude \/ Abort \/ Rest
  \/ \E h \in Hops : Server(h)
  \/ \E c \in Calls : Client(c) \/ Watch(c)

(* Goroutines and tasks run; that the caller leaves is not assumed. *)
Spec == Init /\ [][Next]_vars

FairSpec ==
  /\ Spec /\ WF_vars(Request) /\ WF_vars(Conclude) /\ WF_vars(Abort)
  /\ \A n \in 1..4 :
       /\ WF_vars(n \in Hops /\ Server(n))
       /\ WF_vars(n \in Calls /\ Client(n))
       /\ WF_vars(n \in Calls /\ Watch(n))

-----------------------------------------------------------------------------
(* Properties *)

SpanOf(name) == CHOOSE s \in span : s.name = name
Has(name)    == \E s \in span : s.name = name

(* Under whose span a span belongs: the call that brought the request to   *)
(* this hop, or the handler that opened it.  quota has nobody's span.      *)
Expected(name) ==
  LET h == name[1] IN
  CASE name[2] = "server" -> IF h = 1 THEN setup.remote ELSE <<h, "client">>
    [] name[2] = "work"   -> IF journey[h].svc = "quota" THEN NoSpan ELSE <<h, "server">>
    [] name[2] = "client" -> IF OwnSpan(1) THEN <<1, "work">> ELSE <<1, "server">>

(* The spans of a request, of all services it passes, are one trace: the   *)
(* caller's if it has one, and each span is under the one that caused it;  *)
(* a line that a handler logs names its span.  There are two exceptions    *)
(* and no others.  A gateway that does not trace breaks the trace.  quota  *)
(* starts a trace of its own, whatever its caller sent, and its lines name *)
(* no span.                                                                *)
OneTrace ==
  (journey[1].svc = "gateway" => setup.tracing = "on") =>
    /\ \A s, t \in span : s.trace = t.trace
    /\ setup.remote = Remote =>
         \A s \in span : s.trace = Remote <=> journey[s.name[1]].svc # "quota"
    /\ \A s \in span : s.parent = Expected(s.name)
    /\ \A l \in lines : l.from = "handler" /\ Has(<<l.hop, "server">>) =>
         l.span \in {<<l.hop, "server">>, <<l.hop, "work">>}

(* A hop inside its metrics interceptor. *)
Inside(h) ==
  LET chain == journey[h].chain
      m == CHOOSE n \in DOMAIN chain : chain[n] \in {"metrics", "smetrics", "pymetrics", "layer", "http"}
  IN \/ hop[h].way = "down" /\ hop[h].at > m
     \/ hop[h].way = "up" /\ hop[h].at >= m

(* The counts can be trusted: a service has as many requests as responses  *)
(* and requests under way, however a request ends, except those of quota   *)
(* that were dropped with their caller; a response counts as an error when *)
(* it is one.  A request that the gateway counts as a success and whose    *)
(* span has no error was carried out by the services it called; and the    *)
(* span of a stream has an error only if the stream failed, not because    *)
(* the gateway stopped reading.                                            *)
BooksBalance ==
  /\ \A h \in Hops : journey[h].svc # "gateway" /\ Instruments(journey[h].svc) =>
       counted[h].requests = Len(counted[h].responses)
                               + (IF Inside(h) \/ hop[h].answer = "dropped" THEN 1 ELSE 0)
  /\ \A h \in Hops : hop[h].way = "over" /\ journey[h].svc # "gateway" /\ counted[h].responses # <<>> =>
       (counted[h].responses = <<"success">>) = (hop[h].answer = "ok")
  /\ journey[1].svc = "gateway" /\ hop[1].way = "over" /\ counted[1].responses = <<"200">>
       /\ Has(<<1, "server">>) /\ SpanOf(<<1, "server">>).marked = "no" =>
       \A c \in Calls : hop[c].answer = "ok" /\ call[c] \in {"ok", "read"}
  /\ \A c \in Calls : journey[c].call = "retrieve" /\ Has(<<c, "client">>) /\ gone = "no"
       /\ SpanOf(<<c, "client">>).marked = "yes" => call[c] = "failed" \/ hop[c].answer # "ok"

(* A span is ended once, whoever notices the end of a stream first; and    *)
(* when the request is over every span is ended and no goroutine waits for *)
(* a stream, also when the gateway stopped reading.  The span that         *)
(* ValidateCredentials opens is not ended when nothing could be read.      *)
SpansEnd ==
  /\ [](\A s \in span : s.ends <= 1)
  /\ hop[1].way = "over" ~>
       /\ \A s \in span : s.ends = 1 \/ (s.name[2] = "work" /\ journey[s.name[1]].svc = "users")
       /\ \A n \in 1..4 : n \in Calls => watch[n] \in {None, "ended"}
=============================================================================
