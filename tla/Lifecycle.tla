------------------------------ MODULE Lifecycle ------------------------------
(***************************************************************************)
(* The life of the API process: main.go with config.Load, db.Connect and   *)
(* the server it starts and stops.  Four kinds of goroutines share the     *)
(* pool and the listener: main itself, the one that waits for a signal,    *)
(* the hourly ticker, and one for every request.                           *)
(*                                                                         *)
(* Fiber and the pool are external.  Listen returns as soon as Shutdown    *)
(* has closed the listener, while Shutdown waits for the open requests.    *)
(* Shutdown does nothing if there is no listener yet.  Close refuses new   *)
(* connections and waits for those in use.  When main returns, the process *)
(* ends, whatever the other goroutines are doing.                          *)
(*                                                                         *)
(* Two things keep a connection for ever: a handler that panics inside     *)
(* TenantTx, and a mail server that does not answer, for which SendMail    *)
(* waits without a limit while POST /invites is in its transaction.        *)
(***************************************************************************)
EXTENDS Naturals, FiniteSets

CONSTANTS
  Incoming,     \* the requests, each sent once
  Pruner,       \* the ticker's goroutine
  PoolSize,     \* cfg.MaxConns of db.go
  MaxBouts      \* bound: how often a request takes a connection

ASSUME PoolAssumption == PoolSize \in Nat \ {0} /\ MaxBouts \in Nat \ {0}
ASSUME PrunerAssumption == Pruner \notin Incoming

VARIABLES
  main,       \* how far main has come
  listener,   \* the server's listener
  pool,       \* the pool of connections
  stopper,    \* the goroutine that waits for a signal
  quit,       \* the channel of signals: whether its one place is taken
  pc,         \* each request: progress
  left,       \* each request: how often it will still take a connection
  holders     \* who has a connection of the pool

lifecycleVars == <<main, listener, pool, stopper, quit, pc, left, holders>>
process == <<main, listener, pool, stopper, quit>>
work == <<pc, left, holders>>

\* log.Fatalf; the end of main; SIGTERM before signal.Notify.
Over == {"fatal", "exited", "killed"}

\* Every variable stays in its range, and the pool within its limit.
LifecycleTypeOK ==
  /\ main \in {"config", "connect", "starting", "ready", "serving", "returned", "closing"} \cup Over
  /\ listener \in {"none", "open", "closed"}
  /\ pool \in {"none", "open", "closed"}
  /\ stopper \in {"none", "waiting", "stopping", "draining", "done"}
  /\ quit \in BOOLEAN
  /\ pc \in [Incoming -> {"idle", "open", "answered", "panicked", "hung"}]
  /\ left \in [Incoming -> 0..MaxBouts]
  /\ holders \subseteq Incoming \cup {Pruner}
  /\ Cardinality(holders) <= PoolSize

LifecycleInit ==
  /\ main = "config" /\ listener = "none" /\ pool = "none"
  /\ stopper = "none" /\ quit = FALSE
  /\ pc = [r \in Incoming |-> "idle"]
  /\ left = [r \in Incoming |-> 0]
  /\ holders = {}

-----------------------------------------------------------------------------
(* main.                                                                   *)

\* DATABASE_URL or JWT_SECRET may be missing.
Load ==
  /\ main = "config"
  /\ main' \in {"connect", "fatal"}
  /\ UNCHANGED <<listener, pool, stopper, quit, work>>

\* The URL may be wrong; if the ping fails, the pool is closed again.
Connect ==
  /\ main = "connect"
  /\ \/ main' = "starting" /\ pool' = "open"
     \/ main' = "fatal" /\ pool' \in {"none", "closed"}
  /\ UNCHANGED <<listener, stopper, quit, work>>

Notify ==
  /\ main = "starting"
  /\ main' = "ready" /\ stopper' = "waiting"
  /\ UNCHANGED <<listener, pool, quit, work>>

\* The port may be taken; then main goes on to its end.
Listen ==
  /\ main = "ready"
  /\ \/ main' = "serving" /\ listener' = "open"
     \/ main' = "returned" /\ UNCHANGED listener
  /\ UNCHANGED <<pool, stopper, quit, work>>

ListenReturns ==
  /\ main = "serving" /\ listener = "closed"
  /\ main' = "returned"
  /\ UNCHANGED <<listener, pool, stopper, quit, work>>

\* The deferred pool.Close.
Close ==
  /\ main = "returned"
  /\ main' = "closing" /\ pool' = "closed"
  /\ UNCHANGED <<listener, stopper, quit, work>>

\* Deviation: pool.Close is not deferred.
ExitAtOnce ==
  /\ main \in {"returned", "closing"}
  /\ main' = "exited"
  /\ UNCHANGED <<listener, pool, stopper, quit, work>>

Exit ==
  /\ main = "closing" /\ holders = {}
  /\ main' = "exited"
  /\ UNCHANGED <<listener, pool, stopper, quit, work>>

Main == Load \/ Connect \/ Notify \/ Listen \/ ListenReturns \/ Close \/ Exit

-----------------------------------------------------------------------------
(* Signals.                                                                *)

\* Before Notify a signal kills the process; later ones are dropped while the
\* channel is full.
Signal ==
  /\ main \notin Over
  /\ IF stopper = "none" THEN main' = "killed" /\ UNCHANGED quit
     ELSE quit' = TRUE /\ UNCHANGED main
  /\ UNCHANGED <<listener, pool, stopper, work>>

\* The goroutine reads the channel once.
TakeSignal ==
  /\ stopper = "waiting" /\ quit
  /\ stopper' = "stopping" /\ quit' = FALSE
  /\ UNCHANGED <<main, listener, pool, work>>

Shutdown ==
  /\ stopper = "stopping"
  /\ IF listener = "open" THEN listener' = "closed" /\ stopper' = "draining"
     ELSE stopper' = "done" /\ UNCHANGED listener
  /\ UNCHANGED <<main, pool, quit, work>>

ShutdownReturns ==
  /\ stopper = "draining"
  /\ \A r \in Incoming : pc[r] \notin {"open", "hung"}
  /\ stopper' = "done"
  /\ UNCHANGED <<main, listener, pool, quit, work>>

Stopper == TakeSignal \/ Shutdown \/ ShutdownReturns

-----------------------------------------------------------------------------
(* The requests and the ticker.  A handler holds a connection for a        *)
(* statement or a transaction; between two of them it holds none.          *)

Accept(r) ==
  /\ pc[r] = "idle" /\ listener = "open"
  /\ pc' = [pc EXCEPT ![r] = "open"]
  /\ \E n \in 1..MaxBouts : left' = [left EXCEPT ![r] = n]
  /\ UNCHANGED <<process, holders>>

Wants(w) ==
  /\ w \notin holders
  /\ IF w = Pruner THEN main \in {"ready", "serving", "returned", "closing"}
     ELSE pc[w] = "open" /\ left[w] > 0

\* Deviation: the pool has no limit.
AcquireUnlimited(w) ==
  /\ Wants(w)
  /\ pool = "open"
  /\ holders' = holders \cup {w}
  /\ left' = [r \in Incoming |-> IF r = w THEN left[r] - 1 ELSE left[r]]
  /\ UNCHANGED <<process, pc>>

Acquire(w) ==
  /\ Wants(w)
  /\ pool = "open" /\ Cardinality(holders) < PoolSize
  /\ holders' = holders \cup {w}
  /\ left' = [r \in Incoming |-> IF r = w THEN left[r] - 1 ELSE left[r]]
  /\ UNCHANGED <<process, pc>>

\* Those who have a connection and are still at work.
Working == {w \in holders : w = Pruner \/ pc[w] = "open"}

\* Deviation: an error of the handler is answered without ROLLBACK.
ReleaseOrForget(w) ==
  /\ w \in Working
  /\ \/ holders' = holders \ {w} /\ UNCHANGED <<left, pc>>
     \/ w # Pruner /\ pc' = [pc EXCEPT ![w] = "answered"] /\ UNCHANGED <<left, holders>>
  /\ UNCHANGED process

\* After the statement or the transaction, or after an error in it.
Release(w) ==
  /\ w \in Working
  /\ holders' = holders \ {w}
  /\ \E more \in BOOLEAN :
       left' = [r \in Incoming |-> IF r = w /\ ~more THEN 0 ELSE left[r]]
  /\ UNCHANGED <<process, pc>>

\* Recover answers 500, and nobody has the transaction that was left open.
Panics(r) ==
  /\ r \in Working
  /\ pc' = [pc EXCEPT ![r] = "panicked"]
  /\ UNCHANGED <<process, left, holders>>

\* The mail server does not answer.
MailHangs(r) ==
  /\ r \in Working
  /\ pc' = [pc EXCEPT ![r] = "hung"]
  /\ UNCHANGED <<process, left, holders>>

\* The connections that are kept for ever.
KeptForEver == {r \in Incoming : r \in holders /\ pc[r] \in {"panicked", "hung"}}

\* The pool is closed: an error, and the answer is 500.
AcquireFails(r) ==
  /\ Wants(r) /\ pool = "closed"
  /\ left' = [left EXCEPT ![r] = 0]
  /\ UNCHANGED <<process, pc, holders>>

Answer(r) ==
  /\ pc[r] = "open" /\ left[r] = 0 /\ r \notin holders
  /\ pc' = [pc EXCEPT ![r] = "answered"]
  /\ UNCHANGED <<process, left, holders>>

Request(r) == Release(r) \/ AcquireFails(r) \/ Answer(r)

-----------------------------------------------------------------------------

LifecycleNext ==
  /\ main \notin Over
  /\ \/ Main \/ Signal \/ Stopper
     \/ \E r \in Incoming : Accept(r) \/ Acquire(r) \/ Request(r) \/ Panics(r) \/ MailHangs(r)
     \/ Acquire(Pruner) \/ Release(Pruner)

LifecycleSpec == LifecycleInit /\ [][LifecycleNext]_lifecycleVars

\* The goroutines run, PostgreSQL answers, and the pool serves those who wait in turn.
\* Nobody has to send a request or a signal; nothing keeps a handler from a panic, or the
\* mail server from hanging.
LifecycleFairness ==
  /\ WF_lifecycleVars(main \notin Over /\ Main)
  /\ WF_lifecycleVars(main \notin Over /\ Stopper)
  /\ WF_lifecycleVars(main \notin Over /\ Release(Pruner))
  /\ \A r \in Incoming : /\ WF_lifecycleVars(main \notin Over /\ Request(r))
                         /\ SF_lifecycleVars(main \notin Over /\ Acquire(r))
FairLifecycleSpec == LifecycleSpec /\ LifecycleFairness

-----------------------------------------------------------------------------
(* Properties.                                                             *)

\* However the process ends, it cuts no statement and no transaction in two: main
\* closes the pool last, and the pool waits for who holds a connection.
EndCutsNoTransaction == main \in Over => holders = {}

\* The first signal that comes while the server listens ends the process, although
\* requests, the ticker and the pool are waited for on the way; unless a panic or a mail
\* server that hangs has kept a connection, and nothing else does that.
SignalWhileServingStops ==
  main = "serving" /\ stopper = "waiting" /\ quit ~> main = "exited" \/ KeptForEver # {}

\* Nobody waits for a connection for ever, not even when the pool closes meanwhile, as
\* long as one is left that is not kept: whoever was accepted gets an answer, or waits
\* for the mail server, or the process ends first.
AcceptedIsAnswered ==
  \A r \in Incoming :
    pc[r] = "open" ~> pc[r] # "open" \/ main = "exited" \/ Cardinality(KeptForEver) = PoolSize

\* main.go:72 "Graceful shutdown on SIGINT / SIGTERM.": whoever was accepted has an
\* answer when the process exits.
ShutdownIsGraceful == main = "exited" => \A r \in Incoming : pc[r] \notin {"open", "hung"}

\* main.go:72 again: a signal ends the process.
SignalStops == quit ~> main \in Over

-----------------------------------------------------------------------------
(* The inductive invariant behind the first.                               *)

\* Until signal.Notify, and when main ends before it, nothing has been served.
NothingIsServedBeforeNotify ==
  /\ stopper = "none" => main \in {"config", "connect", "starting", "fatal", "killed"}
  /\ main \in {"config", "connect", "starting", "fatal", "killed"} =>
       /\ stopper = "none" /\ listener = "none" /\ holders = {}
       /\ \A r \in Incoming : pc[r] = "idle"

LInv ==
  /\ LifecycleTypeOK
  /\ IsFiniteSet(holders)
  /\ NothingIsServedBeforeNotify
  /\ EndCutsNoTransaction

===============================================================================
