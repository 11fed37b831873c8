------------------------------- MODULE Server -------------------------------
(***************************************************************************)
(* The life of the process: run of cmd/server/main.go with newStores and   *)
(* newCaches, Open of internal/store/postgres/db.go, and the goroutines    *)
(* that NewRouter of internal/api/router.go starts.  Requests and          *)
(* background tasks are cut down to using the database or Redis and to     *)
(* ending; a request may also hang.  Whether a connection is usable is     *)
(* what the stores say of it: not yet made, open or closed.                *)
(***************************************************************************)

CONSTANTS
    Requests,   \* HTTP requests, each served at most once
    Tasks       \* background tasks: a tick of the chat outbox, a global cleanup

ServerAssumption == Requests \cap Tasks = {}

VARIABLES
    pc,         \* where run has got to
    db, redis,  \* the two connections
    listener,   \* the goroutine of ListenAndServe
    errCh,      \* whether errCh holds an error
    stop,       \* whether the channel stop holds a signal
    late,       \* whether the 10 s of Shutdown have passed
    work,       \* work[w]: a request or a task that is new, running or over
    broken,     \* history: work that met a connection that was closed
    killed      \* history: whether a signal ended the process before Notify

vars == <<pc, db, redis, listener, errCh, stop, late, work, broken, killed>>
connVars == <<db, redis>>
netVars == <<listener, errCh, late>>
workVars == <<work, broken>>

Startup == {"load", "open", "pingDb", "schema", "client", "ping", "ably", "serve", "notify"}

Init ==
    /\ pc = "load"
    /\ db = "none" /\ redis = "none"
    /\ listener = "none" /\ errCh = FALSE /\ stop = FALSE /\ late = FALSE
    /\ work = [w \in Requests \union Tasks |-> "new"]
    /\ broken = {} /\ killed = FALSE

Running(ws) == {w \in ws : work[w] = "running"}

----------------------------------------------------------------------------
(* Start-up                                                                *)

\* config.Load; the checks of the two backends; sql.Open and NewClient only
\* parse the address; NewService wants a root key.
Starts(from, to) ==
    /\ pc = from /\ pc' = to
    /\ UNCHANGED <<netVars, stop, workVars, killed>>

Load == Starts("load", "open") /\ UNCHANGED connVars
OpenDb == Starts("open", "pingDb") /\ db' = "open" /\ UNCHANGED redis
PingDb == Starts("pingDb", "schema") /\ UNCHANGED connVars
InitSchema == Starts("schema", "client") /\ UNCHANGED connVars
NewClient == Starts("client", "ping") /\ redis' = "open" /\ UNCHANGED db
Ping == Starts("ping", "ably") /\ UNCHANGED connVars
NewService == Starts("ably", "serve") /\ UNCHANGED connVars

\* Before run has its first defer.
FailsEarly ==
    /\ pc \in {"load", "open"}
    /\ pc' = "exit"
    /\ UNCHANGED <<connVars, netVars, stop, workVars, killed>>

\* Open closes the database it could not reach or could not give its tables.
OpenFails ==
    /\ pc \in {"pingDb", "schema"}
    /\ db' = "closed"
    /\ pc' = "exit"
    /\ UNCHANGED <<redis, netVars, stop, workVars, killed>>

\* newCaches fails, closing the client it may have made; st.db.Close is deferred.
CachesFail ==
    /\ pc \in {"client", "ping"}
    /\ redis' = IF pc = "ping" THEN "closed" ELSE redis
    /\ pc' = "closeDb"
    /\ UNCHANGED <<db, netVars, stop, workVars, killed>>

\* NewService fails: both closes are deferred.
ServiceFails ==
    /\ pc = "ably"
    /\ pc' = "closeRedis"
    /\ UNCHANGED <<connVars, netVars, stop, workVars, killed>>

\* NewRouter, which starts the ticker of the outbox, and the goroutine of the listener.
Serve ==
    /\ pc = "serve"
    /\ listener' = "starting"
    /\ pc' = "notify"
    /\ UNCHANGED <<connVars, errCh, late, stop, workVars, killed>>

Notify == Starts("notify", "select") /\ UNCHANGED connVars

----------------------------------------------------------------------------
(* Serving and shutting down                                               *)

\* SIGINT or SIGTERM.  Before signal.Notify it ends the process; later it waits
\* in stop, which has room for one.
Signal ==
    /\ pc # "exit"
    /\ IF pc \in Startup
       THEN pc' = "exit" /\ killed' = TRUE /\ UNCHANGED stop
       ELSE stop' = TRUE /\ UNCHANGED <<pc, killed>>
    /\ UNCHANGED <<connVars, netVars, workVars>>

Listens ==
    /\ listener = "starting" /\ pc # "exit"
    /\ listener' = "up"
    /\ UNCHANGED <<pc, connVars, errCh, late, stop, workVars, killed>>

\* The address is taken, or Accept fails for good.
ListenFails ==
    /\ listener \in {"starting", "up"} /\ pc # "exit"
    /\ listener' = "down" /\ errCh' = TRUE
    /\ UNCHANGED <<pc, connVars, late, stop, workVars, killed>>

\* The select: an error of the listener.  Requests go on while run returns.
SelectErr ==
    /\ pc = "select" /\ errCh
    /\ pc' = "closeRedis"
    /\ UNCHANGED <<connVars, netVars, stop, workVars, killed>>

\* The select: a signal.  Shutdown closes the listener, one that has not begun too.
SelectStop ==
    /\ pc = "select" /\ stop
    /\ listener' = "down"
    /\ pc' = "shutdown"
    /\ UNCHANGED <<connVars, errCh, late, stop, workVars, killed>>

\* The 10 s of the context given to Shutdown are over.
Deadline ==
    /\ pc = "shutdown" /\ ~late
    /\ late' = TRUE
    /\ UNCHANGED <<pc, connVars, listener, errCh, stop, workVars, killed>>

\* Slip: Shutdown is given a context without a deadline.
ShutdownPatient ==
    /\ pc = "shutdown"
    /\ Running(Requests) = {}
    /\ pc' = "closeRedis"
    /\ UNCHANGED <<connVars, netVars, stop, workVars, killed>>
\* Slip: the listener is closed and the requests are not waited for.
ShutdownAtOnce ==
    /\ pc = "shutdown"
    /\ pc' = "closeRedis"
    /\ UNCHANGED <<connVars, netVars, stop, workVars, killed>>
\* Shutdown returns when no request is left or its context is done.
Shutdown ==
    /\ pc = "shutdown"
    /\ Running(Requests) = {} \/ late
    /\ pc' = "closeRedis"
    /\ UNCHANGED <<connVars, netVars, stop, workVars, killed>>

\* The deferred ca.close and then st.db.Close; main ends the process.
CloseRedis == Starts("closeRedis", "closeDb") /\ redis' = "closed" /\ UNCHANGED db
CloseDb == Starts("closeDb", "exit") /\ db' = "closed" /\ UNCHANGED redis

----------------------------------------------------------------------------
(* Requests and background tasks                                           *)

\* A request is accepted; the ticker fires, or a login starts a cleanup.
WorkBegins(w) ==
    /\ pc # "exit" /\ work[w] = "new"
    /\ IF w \in Requests THEN listener = "up" ELSE listener # "none"
    /\ work' = [work EXCEPT ![w] = "running"]
    /\ UNCHANGED <<pc, connVars, netVars, stop, broken, killed>>

\* A query or a command: on a closed connection it is an error.
WorkUses(w) ==
    /\ pc # "exit" /\ work[w] = "running"
    /\ broken' = IF "closed" \in {db, redis} THEN broken \union {w} ELSE broken
    /\ UNCHANGED <<pc, connVars, netVars, stop, work, killed>>

WorkEnds(w) ==
    /\ pc # "exit" /\ work[w] = "running"
    /\ work' = [work EXCEPT ![w] = "over"]
    /\ UNCHANGED <<pc, connVars, netVars, stop, broken, killed>>

----------------------------------------------------------------------------
Exited == pc = "exit" /\ UNCHANGED vars

\* What run itself does once a signal no longer ends the process.
Run == SelectErr \/ SelectStop \/ Shutdown \/ CloseRedis \/ CloseDb

Next ==
    \/ Load \/ OpenDb \/ PingDb \/ InitSchema \/ NewClient \/ Ping \/ NewService
    \/ FailsEarly \/ OpenFails \/ CachesFail \/ ServiceFails \/ Serve \/ Notify
    \/ Signal \/ Listens \/ ListenFails \/ Deadline \/ Run
    \/ \E w \in Requests \union Tasks : WorkBegins(w) \/ WorkUses(w) \/ WorkEnds(w)
    \/ Exited

\* The goroutine of run is scheduled and time passes.  Nothing makes a request end.
Spec == Init /\ [][Next]_vars /\ WF_vars(Run) /\ WF_vars(Deadline)

----------------------------------------------------------------------------
(* Properties                                                              *)

\* On whichever of its returns run is left, every connection it made is closed.
ReturnsClosed == pc = "exit" /\ ~killed => "open" \notin {db, redis}

\* No request meets a closed connection, for Shutdown waits for the requests before
\* the deferred closes.  Excused: requests that outlive the 10 s, and those served
\* when the listener fails, for run then returns at once.  Background tasks are
\* not waited for at all.
ServedWhole == broken \cap Requests # {} => late \/ errCh

\* Connections are closed at the end, and not before.
ClosesInOrder == ReturnsClosed /\ ServedWhole

\* A signal ends the process whatever the requests do: one that hangs holds it up
\* for 10 s.  So does a listener that cannot serve.
Ends == (stop \/ errCh) /\ pc \notin Startup ~> pc = "exit"
=============================================================================
