------------------------------- MODULE Server -------------------------------
(***************************************************************************)
(* The server process: cmd/server/main.go and internal/api (server.go,     *)
(* grpc.go, the middleware chain of middleware.go).  It is configured from *)
(* a file and the environment, serves HTTP or gRPC, passes requests        *)
(* through the middleware to the core service, and shuts down on a signal  *)
(* or when serving fails.                                                  *)
(*                                                                         *)
(* Goroutines: main (main to Run), the serving one, one per request and,   *)
(* with gRPC, the one of GracefulStop.  The core service is the subject of *)
(* VectorService and the rate limiter of RateLimiter; here a call has one  *)
(* of the outcomes of its kind, and a write goes through the places where  *)
(* it holds the mutex that Close waits for.  net/http and grpc are         *)
(* external.                                                               *)
(***************************************************************************)
EXTENDS Configuration, Sequences, FiniteSets

CONSTANTS
  Request,        \* the requests that can be in progress
  Files, Envs,    \* the configuration files and the environments to start in
  Keys,           \* the API keys a request may carry; Unset is none
  None

\* A file that parses has values of the types of Config; a variable of the
\* environment may be blank or not parse.
ASSUME ServerAssumption ==
  /\ None \notin {0, 1, 2} /\ Junk \notin Envs
  /\ \A file \in Files \ {Junk} : \A f \in DOMAIN file : Typed(f, file[f])
  /\ \A env \in Envs : \A f \in DOMAIN env : env[f] \in {Unset, Junk} \/ Typed(f, env[f])
  /\ \A file \in Files \ {Junk}, env \in Envs : ServerOptions(Load(file, env)) # None

VARIABLES
  file, env,      \* what the process was started with
  srv,            \* the Server's settings
  main,           \* where the main goroutine is
  err,            \* what Run returns
  exit,           \* exit status of the process, None while it runs
  signalled,      \* the context of signal.NotifyContext is done
  stopping,       \* Shutdown, GracefulStop or Stop was called
  expired,        \* the grace period of 10 s is over
  serving,        \* where the serving goroutine is
  errCh,          \* the channel of runHTTP and runGRPC, of capacity 1
  stopped,        \* gRPC: GracefulStop has returned
  closed,         \* the result of Service.Close
  req,            \* the requests
  pending         \* writes that no fsync has covered: pendingOps of the log
                  \* or, with the file store, which has no log, its pending

startVars == <<file, env, srv>>
mainVars == <<main, err, exit, signalled, stopping, expired, stopped, closed>>
serveVars == <<serving, errCh>>
vars == <<startVars, mainVars, serveVars, req, pending>>

\* A listing is answered as a search is; a batch as a call for one vector.
Ops == {"health", "ready", "add", "delete", "get", "search"}
Writes == {"add", "delete"}
Public == {"health", "ready"}

\* What the core service answers to a call.  "invalid" stands for the five
\* validation errors; the handlers answer it, too, for a body or a cursor
\* that does not decode.  (An id that is empty is "invalid" over gRPC; over HTTP
\* the path then names no vector, and the answer is "not_found".)  "wrong_dim"
\* is the ANN index refusing a vector of another dimension than its own, which
\* it does in either search mode, as the service always keeps one.
ReadinessCheck == {"ok", "not_ready"}   \* are the directories writable now?
Outcomes(op) ==
  CASE op = "health" -> {"ok"}
    [] op = "ready"  -> ReadinessCheck
    [] op = "add"    -> {"ok", "exists", "invalid", "wrong_dim", "failed"}
    [] op = "search" -> {"ok", "invalid"}
    [] op \in {"get", "delete"} -> {"ok", "not_found", "invalid", "failed"}

AllOutcomes == {"ok", "not_ready", "exists", "not_found", "invalid", "wrong_dim", "failed"}

Idle == [at |-> "idle"]
Answered == [at |-> "answered"]
Running == exit = None
GRPC == srv["protocol"] = "grpc"
OnDisk == srv["vectorStore"] \in {"disk", "file"}

\* The places of a handler that writes, under Service.persistMu.
WritePlaces == {"write", "written", "undo", "sync", "save", "truncate"}
Inside(r) == req[r].at \in {"handler"} \cup WritePlaces
Active(r) == Inside(r) \/ req[r].at \in {"accepted", "returning"}
Writing == \E r \in Request : req[r].at \in WritePlaces
\* A handler is in a call of the disk and holds the mutex of the log or of the
\* file store, which Close takes too.
Locked == \E r \in Request : req[r].at \in {"write", "undo", "sync", "truncate"}

Init ==
  /\ file \in Files /\ env \in Envs
  /\ srv = None /\ main = "load" /\ err = "none" /\ exit = None
  /\ signalled = FALSE /\ stopping = FALSE /\ expired = FALSE
  /\ serving = "none" /\ errCh = <<>> /\ stopped = FALSE /\ closed = "no"
  /\ req = [r \in Request |-> Idle] /\ pending = 0

----------------------------------------------------------------------------
(* Start.                                                                  *)

\* mustExecute ends the process when the file is no YAML.
LoadFails ==
  /\ Running /\ main = "load" /\ file = Junk
  /\ main' = "exited" /\ exit' = 1
  /\ UNCHANGED <<startVars, err, signalled, stopping, expired, stopped, closed,
                 serveVars, req, pending>>

BuildServer ==
  /\ Running /\ main = "load" /\ file # Junk
  /\ srv' = ServerOptions(Load(file, env))
  /\ main' = "run"
  /\ UNCHANGED <<file, env, err, exit, signalled, stopping, expired, stopped,
                 closed, serveVars, req, pending>>

\* Run starts the serving goroutine; with gRPC it binds the port first.
StartServing ==
  /\ Running /\ main = "run"
  /\ main' = "select" /\ serving' = "start"
  /\ UNCHANGED <<startVars, err, exit, signalled, stopping, expired, stopped,
                 closed, errCh, req, pending>>

\* The port is taken, or (gRPC) the certificate cannot be loaded.
StartFails(why) ==
  /\ Running /\ main = "run" /\ GRPC
  /\ why = "tls" => srv["tlsEnabled"]
  /\ main' = "close" /\ err' = why
  /\ UNCHANGED <<startVars, exit, signalled, stopping, expired, stopped, closed,
                 serveVars, req, pending>>

----------------------------------------------------------------------------
(* The serving goroutine.                                                  *)

Return(result) ==
  /\ Len(errCh) < 1
  /\ errCh' = Append(errCh, result) /\ serving' = "returned"
  /\ UNCHANGED <<startVars, mainVars, req, pending>>

\* ListenAndServe or Serve begins; after a call of Shutdown or Stop it
\* returns at once, which grpc reports as another error than a closed listener.
ServeBegin ==
  /\ Running /\ serving = "start" /\ ~stopping
  /\ serving' = "serving"
  /\ UNCHANGED <<startVars, mainVars, errCh, req, pending>>
ServeTooLate ==
  /\ Running /\ serving = "start" /\ stopping
  /\ Return(IF GRPC THEN "stopped" ELSE "closed")
ServeFails ==
  /\ Running /\ ~stopping
  /\ serving = "serving" \/ (serving = "start" /\ ~GRPC)
  /\ Return("serve")
\* http returns as soon as the listener is closed, grpc when it has stopped.
ServeEnds ==
  /\ Running /\ serving = "serving" /\ stopping
  /\ GRPC => stopped \/ expired
  /\ Return(IF GRPC THEN "none" ELSE "closed")

----------------------------------------------------------------------------
(* Shutdown.                                                               *)

Signal ==
  /\ Running /\ main \in {"run", "select"} /\ ~signalled
  /\ signalled' = TRUE
  /\ UNCHANGED <<startVars, main, err, exit, stopping, expired, stopped, closed,
                 serveVars, req, pending>>

\* The first case of the select: no request is accepted any more.
BeginShutdown ==
  /\ Running /\ main = "select" /\ signalled
  /\ main' = "drain" /\ stopping' = TRUE
  /\ UNCHANGED <<startVars, err, exit, signalled, expired, stopped, closed,
                 serveVars, req, pending>>

\* Shutdown, or GracefulStop in its goroutine, waits for the requests.
Drained == main = "drain" /\ \A r \in Request : ~Active(r)

GracefulStop ==
  /\ Running /\ Drained /\ GRPC /\ ~stopped
  /\ stopped' = TRUE
  /\ UNCHANGED <<startVars, main, err, exit, signalled, stopping, expired, closed,
                 serveVars, req, pending>>
\* Mutant of ShutdownReturns: runHTTP calls Close in the place of Shutdown, and
\* runGRPC does not wait for GracefulStop.
ShutdownReturnsAtOnce ==
  /\ Running /\ main = "drain"
  /\ main' = "await"
  /\ UNCHANGED <<startVars, err, exit, signalled, stopping, expired, stopped, closed,
                 serveVars, req, pending>>
ShutdownReturns ==
  /\ Running /\ main = "drain"
  /\ IF GRPC THEN stopped ELSE Drained
  /\ main' = "await"
  /\ UNCHANGED <<startVars, err, exit, signalled, stopping, expired, stopped, closed,
                 serveVars, req, pending>>

\* Mutant of GraceEnds: there is no time limit.
GraceEndsNever == FALSE /\ UNCHANGED vars
\* 10 s are over: Shutdown returns an error and so does runHTTP; runGRPC calls
\* Stop, which closes the connections, and waits for Serve.
GraceEnds ==
  /\ Running /\ main = "drain"
  /\ expired' = TRUE
  /\ IF GRPC THEN main' = "await" /\ UNCHANGED err
             ELSE main' = "close" /\ err' = "timeout"
  /\ UNCHANGED <<startVars, exit, signalled, stopping, stopped, closed,
                 serveVars, req, pending>>

\* The errors that runHTTP and runGRPC ignore.
Ignored == {"none"} \cup IF GRPC THEN {} ELSE {"closed"}
\* <-errCh, after the shutdown or in the select.
TakeResult ==
  /\ Running /\ main \in {"select", "await"} /\ errCh # <<>>
  /\ err' = IF Head(errCh) \in Ignored THEN "none" ELSE Head(errCh)
  /\ errCh' = Tail(errCh) /\ main' = "close"
  /\ UNCHANGED <<startVars, exit, signalled, stopping, expired, stopped, closed,
                 serving, req, pending>>

\* The deferred Close waits for the mutex and syncs the log or the file store;
\* closing the store's file may fail, too.  The error is dropped.
Close(result) ==
  /\ Running /\ main = "close" /\ ~Locked
  /\ closed' = result /\ main' = "exit"
  /\ \/ pending' = 0 /\ (result = "failed" => OnDisk)
     \/ pending > 0 /\ result = "failed" /\ UNCHANGED pending
  /\ UNCHANGED <<startVars, err, exit, signalled, stopping, expired, stopped,
                 serveVars, req>>

\* runServer: logFatalf if Run returned an error.
Exit ==
  /\ Running /\ main = "exit"
  /\ exit' = IF err = "none" THEN 0 ELSE 1
  /\ main' = "exited"
  /\ UNCHANGED <<startVars, err, signalled, stopping, expired, stopped, closed,
                 serveVars, req, pending>>

----------------------------------------------------------------------------
(* Requests.                                                               *)

Step(r, state) == req' = [req EXCEPT ![r] = state] /\ UNCHANGED <<startVars, mainVars, serveVars>>

\* On a new connection, or on one that outlives a failed listener.
Accept(r, op, key) ==
  /\ Running /\ serving \in {"serving", "returned"} /\ ~stopping /\ req[r] = Idle
  /\ op = "ready" => ~GRPC
  /\ Step(r, [at |-> "accepted", op |-> op, key |-> key])
  /\ UNCHANGED pending

\* authMiddleware and grpcAuthInterceptor.
KeyRequired(op) ==
  /\ op \notin Public /\ srv["authKey"] # Unset
  /\ srv["authEnabled"] /\ (GRPC => srv["grpcAuth"])
MayEnter(r) == KeyRequired(req[r].op) => req[r].key = srv["authKey"]

\* rateLimitMiddleware comes before authMiddleware; gRPC has no limiter.
Limited(r) == ~GRPC /\ srv["rateLimitRPS"] > 0 /\ req[r].op \notin Public
Refuse(r) ==
  /\ Running /\ req[r].at = "accepted"
  /\ Limited(r) \/ ~MayEnter(r)
  /\ Step(r, Answered) /\ UNCHANGED pending
Enter(r) ==
  /\ Running /\ req[r].at = "accepted" /\ MayEnter(r)
  /\ Step(r, [req[r] EXCEPT !.at = "handler"]) /\ UNCHANGED pending

\* Mutant of HTTPStatus: DeleteVectorHandler has no case for ErrVectorNotFound.
HTTPStatusDelete(op, outcome) ==
  CASE outcome = "ok"                          -> "200"
    [] op = "add" /\ outcome = "exists"        -> "409"
    [] op = "get" /\ outcome = "not_found"     -> "404"
    [] outcome = "invalid"                     -> "400"
    [] outcome = "not_ready"                   -> "503"
    [] OTHER                                   -> "500"

\* What the HTTP handlers answer, all success codes taken together.
HTTPStatus(op, outcome) ==
  CASE outcome = "ok"                                        -> "200"
    [] op = "add" /\ outcome = "exists"                      -> "409"
    [] op \in {"get", "delete"} /\ outcome = "not_found"     -> "404"
    [] outcome = "invalid"                                   -> "400"
    [] outcome = "not_ready"                                 -> "503"
    [] OTHER                                                 -> "500"
\* grpcStatusFromError.
GRPCCode(outcome) ==
  CASE outcome = "ok"        -> "OK"
    [] outcome = "exists"    -> "AlreadyExists"
    [] outcome = "not_found" -> "NotFound"
    [] outcome = "invalid"   -> "InvalidArgument"
    [] OTHER                 -> "Internal"

GoTo(r, place) == Step(r, [req[r] EXCEPT !.at = place])
Finish(r, outcome) ==
  Step(r, [at |-> "returning", outcome |-> outcome,
           code |-> IF GRPC THEN GRPCCode(outcome) ELSE HTTPStatus(req[r].op, outcome)])

\* The service has answered a call that wrote nothing.  A write that is refused
\* has waited for persistMu, unless its arguments are invalid; the ANN index
\* refuses a vector before the log is written, but after the file store is.
Handle(r, outcome) ==
  /\ Running /\ req[r].at = "handler" /\ outcome \in Outcomes(req[r].op)
  /\ req[r].op \in Writes =>
       /\ outcome # "ok" /\ (outcome = "failed" => req[r].op = "delete")
       /\ outcome = "wrong_dim" => ~OnDisk
       /\ outcome = "invalid" \/ ~Writing
  /\ Finish(r, outcome) /\ UNCHANGED pending

\* pending after AppendWALBatch of one line, or a record of the file store: the
\* write may fail, and the fsync that is due may.  The file store syncs again
\* if it compacts, and the compaction may fail.
Unsynced == pending + 1
Lines(result) ==
  {IF result = "failed" THEN pending
   ELSE IF Unsynced >= srv["syncEvery"] THEN 0 ELSE Unsynced}
  \cup {n \in {Unsynced} : result = "failed" /\ (OnDisk \/ n >= srv["syncEvery"])}
  \cup {n \in {0} : OnDisk}

BeginWrite(r) ==
  /\ Running /\ req[r].at = "handler" /\ req[r].op \in Writes /\ ~Writing
  /\ GoTo(r, "write") /\ UNCHANGED pending
Write(r, result) ==
  /\ Running /\ req[r].at = "write" /\ pending' \in Lines(result)
  /\ IF result = "ok" THEN GoTo(r, "written") ELSE Finish(r, "failed")

\* Then nothing more; or the vector that the file store has is taken out again,
\* as the ANN index refused it; or maybeSnapshot, if there is a log and it is due.
AfterWrite(r) ==
  /\ Running /\ req[r].at = "written" /\ UNCHANGED pending
  /\ \/ Finish(r, "ok")
     \/ OnDisk /\ req[r].op = "add" /\ GoTo(r, "undo")
     \/ ~OnDisk /\ GoTo(r, "sync")
Undo(r) ==
  /\ Running /\ req[r].at = "undo"
  /\ pending' \in Lines("ok") \cup Lines("failed")
  /\ Finish(r, "wrong_dim")

\* maybeSnapshot: Sync, SaveSnapshot (without the mutex) and TruncateWAL.
SyncLog(r, result) ==
  /\ Running /\ req[r].at = "sync"
  /\ IF result = "ok" THEN pending' = 0 /\ GoTo(r, "save")
                      ELSE pending > 0 /\ UNCHANGED pending /\ Finish(r, "failed")
SaveSnapshot(r, result) ==
  /\ Running /\ req[r].at = "save" /\ UNCHANGED pending
  /\ IF result = "ok" THEN GoTo(r, "truncate") ELSE Finish(r, "failed")
TruncateWAL(r, result) ==
  /\ Running /\ req[r].at = "truncate"
  /\ pending' = IF result = "ok" THEN 0 ELSE pending
  /\ Finish(r, result)

\* An exact search (with ANN: the fallback or a sampled one) whose query is longer
\* than a vector indexes out of range.  net/http recovers and drops the
\* connection; grpc does not, nor does a worker of an ANN batch: the process dies.
HandlerPanics(r, dies) ==
  /\ Running /\ req[r].at = "handler" /\ req[r].op = "search"
  /\ GRPC => dies
  /\ dies => GRPC \/ srv["mode"] = "ann"
  /\ req' = [req EXCEPT ![r] = [at |-> "dropped"]]
  /\ IF dies THEN exit' = 2 /\ main' = "exited" ELSE UNCHANGED <<exit, main>>
  /\ UNCHANGED <<startVars, err, signalled, stopping, expired, stopped, closed,
                 serveVars, pending>>

\* The answer goes out, unless Stop has closed the connection.
Respond(r) ==
  /\ Running /\ req[r].at = "returning"
  /\ Step(r, IF GRPC /\ expired THEN [at |-> "dropped"] ELSE Answered)
  /\ UNCHANGED pending

----------------------------------------------------------------------------
RequestStep(r) ==
  \/ \E op \in Ops, key \in Keys : Accept(r, op, key)
  \/ Refuse(r) \/ Enter(r) \/ Respond(r)
  \/ \E dies \in BOOLEAN : HandlerPanics(r, dies)
  \/ \E outcome \in AllOutcomes : Handle(r, outcome)
  \/ BeginWrite(r) \/ AfterWrite(r) \/ Undo(r)
  \/ \E result \in {"ok", "failed"} :
       Write(r, result) \/ SyncLog(r, result) \/ SaveSnapshot(r, result) \/ TruncateWAL(r, result)

MainStep ==
  \/ LoadFails \/ BuildServer \/ StartServing \/ BeginShutdown \/ ShutdownReturns
  \/ TakeResult \/ Exit
  \/ \E why \in {"bind", "tls"} : StartFails(why)
  \/ \E result \in {"ok", "failed"} : Close(result)
ServingStep == ServeBegin \/ ServeTooLate \/ ServeEnds

Next ==
  \/ MainStep \/ ServingStep \/ ServeFails \/ Signal \/ GracefulStop \/ GraceEnds
  \/ \E r \in Request : RequestStep(r)

\* Goroutines are scheduled and the timer fires; nothing is assumed of the
\* clients, of the handlers, of the disk or of a signal.
Spec == /\ Init /\ [][Next]_vars
        /\ WF_vars(MainStep) /\ WF_vars(ServingStep)
        /\ WF_vars(GracefulStop) /\ WF_vars(GraceEnds)

----------------------------------------------------------------------------
\* Types, and which places of main, the channel and the exit status go together.
ServerTypeOK ==
  /\ main \in {"load", "run", "select", "drain", "await", "close", "exit", "exited"}
  /\ err \in {"none", "bind", "tls", "serve", "stopped", "timeout"}
  /\ exit \in {None, 0, 1, 2} /\ (exit = None <=> main # "exited")
  /\ serving \in {"none", "start", "serving", "returned"}
  /\ errCh = <<>> \/ (Len(errCh) = 1 /\ serving = "returned")
  /\ closed \in {"no", "ok", "failed"}
  /\ srv = None => main \in {"load", "exited"}
  /\ pending \in Nat

\* The first of four places that names a key: authentication's key before the
\* server's, the environment before the file.
Given(source, f) == IF source # Junk /\ f \in DOMAIN source THEN source[f] ELSE Unset
TheKey == Or(Given(env, "authKey"), Or(Given(file, "authKey"),
          Or(Given(env, "apiKey"), Given(file, "apiKey"))))
InProduction == Or(Given(env, "profile"), Given(file, "profile")) = "production"
Mode(f) == Or(Given(env, f), Given(file, f))
PrivateMode(f) == IF f = "dirMode" THEN 448 ELSE 384

\* In production a key that is configured anywhere protects every vector
\* operation of either protocol: no handler runs for a request without it.
KeyProtects ==
  \A r \in Request :
    Inside(r) /\ req[r].op \notin Public /\ InProduction /\ TheKey # Unset
      => req[r].key = TheKey

\* Whatever file and environment hold, the server works with settings in
\* range.  A file mode is never 0; in production it is private (0700, 0600) if
\* nothing or the default's own text is configured.  (Any other text is taken
\* for what it parses to: "755" stays public, as do "0" and what does not parse.)
SettingsInRange ==
  srv # None =>
    /\ \A f \in Positive \cup Duration : srv[f] > 0
    /\ srv["rateLimitRPS"] >= 0 /\ srv["annEvalSampleRate"] \in 0 .. 100
    /\ srv["grpcEnabled"] <=> GRPC
    /\ \A f \in {"dirMode", "fileMode"} :
         /\ srv[f] > 0
         /\ InProduction /\ Mode(f) \in {Unset, DefaultConfig[f]} => srv[f] = PrivateMode(f)

\* The answer tells the client what became of its call: success, a conflict, a
\* missing vector, an argument that the validation refused, or an internal
\* error.  An internal error is a failure of the disk or, which the client
\* cannot tell from it, a vector of the wrong dimension.
AnswerTellsOutcome ==
  \A r \in Request : req[r].at = "returning" =>
    req[r].outcome \in
      CASE req[r].code \in {"200", "OK"} -> {"ok"}
        [] req[r].code \in {"409", "AlreadyExists"} -> {"exists"}
        [] req[r].code \in {"404", "NotFound"} -> {"not_found"}
        [] req[r].code \in {"400", "InvalidArgument"} -> {"invalid"}
        [] req[r].code \in {"503"} -> {"not_ready"}
        [] req[r].code \in {"500", "Internal"} -> {"failed", "wrong_dim"}

\* An exit with status 0 within the grace period has cut off no request, and no
\* line of the log or record of the file store waits for its fsync, unless Close
\* failed.  The types are part of it.
CleanExitLosesNothing ==
  /\ ServerTypeOK
  /\ exit = 0 /\ ~expired =>
       /\ \A r \in Request : ~Active(r)
       /\ closed = "ok" => pending = 0

\* After a signal the process ends, also when a handler never returns, unless
\* it hangs in a call of the disk with the mutex that Close waits for.
ShutdownCompletes == []<>(~Locked) => (signalled ~> exit # None)
=============================================================================
