------------------------------- MODULE Server -------------------------------
(***************************************************************************)
(* The life of the API process, around the requests of Broker: it waits    *)
(* for Postgres, serves requests and runs the aggregation worker, and on   *)
(* SIGTERM drains the requests, waits for the worker and closes the        *)
(* connection pool, all of it against one shutdown timer.                  *)
(*                                                                         *)
(* Sources: cmd/app/main.go (run), internal/app/deps.go (BuildDeps),       *)
(* internal/router/router.go (New), internal/config/config.go (Mode),      *)
(* internal/database/postgres.go (Connect, ping) and internal/scheduler/   *)
(* scheduler.go (Run).                                                     *)
(*                                                                         *)
(* External: http.Server.Shutdown refuses new requests and waits for the   *)
(* open ones without cancelling them; pgxpool's Close refuses new          *)
(* acquisitions and waits for the connections that are out.                *)
(***************************************************************************)
EXTENDS Broker

CONSTANT Retries     \* attempts to reach Postgres (DB_CONNECT_RETRIES)

ASSUME RetriesAssumption == Retries \in Int   \* validate does not look at it

VARIABLES
    mode,        \* APP_MODE
    srv,         \* where run() stands
    attempt,     \* pings sent
    signalled,   \* ctx is cancelled
    worker,      \* the scheduler goroutine: "query" holds a connection
    req,         \* publishing requests: "tx" holds a connection
    exit         \* how run() returns

lifeVars == <<mode, srv, attempt, signalled, worker, exit>>
allVars == <<vars, lifeVars, req>>

Over == srv = "ended"

RunsAPI == mode \in {"api", "all"}
RunsWorker == mode \in {"worker", "all"}

ServerInit ==
    /\ Init
    /\ mode \in {"api", "worker", "all"}
    /\ srv = "connect" /\ attempt = 1 /\ signalled = FALSE
    /\ worker = "off" /\ exit = "none"
    /\ req = [p \in Pubs |-> "new"]

Return(how) == srv' = "close" /\ exit' = how

-----------------------------------------------------------------------------
(* Start-up *)

\* The ping fails for good, or the signal comes before the next attempt.
PingFails ==
    /\ srv = "connect"
    /\ IF attempt >= Retries \/ signalled
       THEN Return("error") /\ UNCHANGED attempt
       ELSE attempt' = attempt + 1 /\ UNCHANGED <<srv, exit>>
    /\ UNCHANGED <<vars, req, mode, signalled, worker>>

\* BuildDeps refuses what the API is configured with.
BuildFails ==
    /\ srv = "connect" /\ RunsAPI
    /\ Return("error")
    /\ UNCHANGED <<vars, req, mode, attempt, signalled, worker>>

\* The worker, if there is one, starts its first pass without waiting for a
\* tick; the server listens in every mode.
Up ==
    /\ srv = "connect" /\ ~ signalled
    /\ srv' = "up" /\ worker' = IF RunsWorker THEN "pass" ELSE "off"
    /\ UNCHANGED <<vars, req, mode, attempt, signalled, exit>>

-----------------------------------------------------------------------------
(* Requests and the worker *)

\* Faulty variant of Accepting: the listener stays open during the shutdown.
AcceptingLate == srv \in {"up", "drain", "wait"} /\ RunsAPI

\* The listener is open until Shutdown; a process that is only a worker has no
\* route to the events.
Accepting == srv = "up" /\ RunsAPI

\* A request that records events takes a connection for its transaction.
Begin(p) ==
    /\ Accepting
    /\ req[p] = "new"
    /\ req' = [req EXCEPT ![p] = "tx"]
    /\ UNCHANGED <<vars, lifeVars>>

\* The transaction commits, and what it stored is published; or it fails.
Answered(p) ==
    /\ ~ Over
    /\ req[p] = "tx"
    /\ \E r \in {"publish", "failed"} : req' = [req EXCEPT ![p] = r]
    /\ UNCHANGED <<vars, lifeVars>>

Finished(p) ==
    \/ req[p] = "failed"
    \/ req[p] = "publish" /\ PubAt(p, "idle") /\ count[p] = MaxEvents

Working(p) ==
    /\ ~ Over
    /\ req[p] = "publish"
    /\ (\E u \in Users : StartPublish(p, u)) \/ PubStep(p)
    /\ UNCHANGED <<lifeVars, req>>

Connected(s) ==
    /\ Accepting
    /\ \E u \in Users : Open(s, u)
    /\ UNCHANGED <<lifeVars, req>>

Streaming(s) ==
    /\ ~ Over
    /\ StreamStep(s) \/ Deliver(s) \/ Leave(s)
    /\ UNCHANGED <<lifeVars, req>>

WorkerMove(from, to) ==
    /\ ~ Over /\ worker = from /\ worker' = to
    /\ UNCHANGED <<vars, req, mode, srv, attempt, signalled, exit>>

\* A pass takes a connection for each statement or transaction and gives it
\* back; once the context is cancelled or the pool closing, it gets none.
Tick == WorkerMove("idle", "pass")
Query == srv = "up" /\ ~ signalled /\ WorkerMove("pass", "query")
QueryEnds == WorkerMove("query", "pass")
PassEnds == WorkerMove("pass", "idle")
WorkerStops == signalled /\ WorkerMove("idle", "stopped")

-----------------------------------------------------------------------------
(* Shutdown *)

\* NotifyContext cancels ctx.
Signal ==
    /\ ~ Over /\ ~ signalled
    /\ signalled' = TRUE
    /\ UNCHANGED <<vars, req, mode, srv, attempt, worker, exit>>

\* run sees it and calls Shutdown, which closes the listener: requests that
\* came in after the signal are served like any other.
BeginShutdown ==
    /\ srv = "up" /\ signalled
    /\ srv' = "drain"
    /\ UNCHANGED <<vars, req, mode, attempt, signalled, worker, exit>>

\* ListenAndServe returns an error: run returns it without any shutdown, and
\* may do so although the signal has come (select takes either).
ListenFails ==
    /\ srv = "up"
    /\ Return("error")
    /\ UNCHANGED <<vars, req, mode, attempt, signalled, worker>>

\* No request is open: Shutdown returns nil.
Quiesced ==
    /\ \A p \in Pubs : req[p] = "new" \/ Finished(p)
    /\ \A s \in Streams : StreamAt(s, "new") \/ StreamAt(s, "gone")

Drained ==
    /\ srv = "drain" /\ Quiesced
    /\ srv' = "wait"
    /\ UNCHANGED <<vars, req, mode, attempt, signalled, worker, exit>>

\* Faulty variant of DrainTimeout: Shutdown is called without a deadline.
DrainForever == FALSE /\ UNCHANGED allVars

\* The timer fires first: an error, and nobody waits for the worker.
DrainTimeout ==
    /\ srv = "drain"
    /\ Return("error")
    /\ UNCHANGED <<vars, req, mode, attempt, signalled, worker>>

\* The worker stopped, or the timer fired: "stopped gracefully" either way.
WorkerAwaited ==
    /\ srv = "wait"
    /\ Return("graceful")
    /\ UNCHANGED <<vars, req, mode, attempt, signalled, worker>>

\* The deferred pool.Close: every connection must have come back.
ClosePool ==
    /\ srv = "close"
    /\ worker # "query" /\ \A p \in Pubs : req[p] # "tx"
    /\ srv' = "ended"
    /\ UNCHANGED <<vars, req, mode, attempt, signalled, worker, exit>>

MainStep ==
    \/ PingFails \/ BuildFails \/ Up \/ ListenFails
    \/ BeginShutdown \/ Drained \/ DrainTimeout \/ WorkerAwaited \/ ClosePool

WorkerStep == QueryEnds \/ PassEnds \/ WorkerStops

ServerNext ==
    \/ MainStep \/ Signal \/ Tick \/ Query \/ WorkerStep
    \/ \E p \in Pubs : Begin(p) \/ Answered(p) \/ Working(p)
    \/ \E s \in Streams : Connected(s) \/ Streaming(s)

\* Goroutines that can run do, the shutdown timer fires and Postgres answers
\* a transaction or a pass.  Nothing is assumed of the clients: a stream may
\* stay open, and unread, for ever.
ServerSpec ==
    /\ ServerInit /\ [][ServerNext]_allVars
    /\ WF_allVars(BeginShutdown \/ Drained \/ DrainTimeout \/ WorkerAwaited \/ ClosePool)
    /\ WF_allVars(PingFails \/ Up) /\ WF_allVars(WorkerStep)
    /\ \A p \in Pubs : WF_allVars(Answered(p)) /\ WF_allVars(Working(p))
    /\ \A s \in Streams :
        /\ WF_allVars(~ Over /\ (Register(s) \/ Unregister(s) \/ Close(s)) /\ UNCHANGED <<lifeVars, req>>)
        /\ SF_allVars(~ Over /\ Lock(s) /\ UNCHANGED <<lifeVars, req>>)

-----------------------------------------------------------------------------
(* Properties *)

\* A process that says it stopped gracefully has cut nobody off: every request
\* it accepted was answered and every stream closed (run:98-113).
GracefulCutsNobody == exit = "graceful" => Quiesced

\* Requests that record events are answered and abandoned streams closed,
\* whatever other clients do, unless the process ends first.
RequestsEnd ==
    /\ \A p \in Pubs : req[p] = "tx" ~> Finished(p) \/ Over
    /\ \A s \in Streams : StreamAt(s, "leave") ~> StreamAt(s, "gone") \/ Over

\* After the signal the process ends, whatever the clients do: an open stream
\* delays it by the shutdown timeout and no more.
ShutdownEnds == signalled ~> Over
=============================================================================
