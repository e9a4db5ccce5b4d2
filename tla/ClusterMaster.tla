---------------------------- MODULE ClusterMaster ----------------------------
(***************************************************************************)
(* The master process of the cluster: it forks workers at boot and under   *)
(* load, replaces those that exit unexpectedly, drains one at a time when  *)
(* the load is low or memory short, pauses restarts after a crash loop, and*)
(* stops with its workers on a signal or a fatal error.                    *)
(*                                                                         *)
(* Loads and trends only matter through what they make the master do, so   *)
(* the plan of a scaling round is any plan.  Times are events: a throttle, *)
(* a block or a crash of the failure window ends at any moment.            *)
(*                                                                         *)
(* The cluster module of Node takes a worker off its list when it has seen *)
(* both the end of its process and the end of its channel, in either order;*)
(* the messages of a worker arrive before the end of its channel.  When the*)
(* master disconnects the cluster, the workers with a channel come off the *)
(* list at once, and the callback that ends the master is called the next  *)
(* time that a worker is taken off and the list is empty.                  *)
(***************************************************************************)
EXTENDS Naturals, FiniteSets

CONSTANTS
  Worker,         \* bound: workers whose process or channel has not ended yet
  MinWorkers,
  MaxWorkers,
  InitialWorkers,
  MaxAttempts     \* unexpected exits in the window before restarts are blocked

ASSUME ClusterAssumption ==
  /\ IsFiniteSet(Worker)
  /\ MinWorkers \in Nat /\ MaxWorkers \in Nat /\ InitialWorkers \in Nat
  /\ 1 <= MinWorkers /\ InitialWorkers <= MaxWorkers
  /\ MaxAttempts \in Nat

VARIABLES
  proc,        \* each worker's process: none, up or dead
  exited,      \* workers whose exit event the master has handled
  closed,      \* workers whose channel the master has seen close
  told,        \* workers with a message "port in use" under way
  portTaken,   \* workers the master has that message of
  draining,    \* state.drainingWorkers
  intentional, \* state.intentionalExits
  cut,         \* workers the stopping master disconnected: they are off the list
  rolling,     \* state.rollingRestartInProgress
  throttled,   \* a restart was attempted within the throttle time
  blocked,     \* restarts are blocked for now
  locked,      \* state.fatalStartupLockReason is set
  crashes,     \* unexpected exits in the failure window
  graceful,    \* gracefulShutdownScheduled
  failing,     \* state.fatalShutdownScheduled
  gone,        \* the master has exited
  overtaken,   \* history: since the graceful stop, an exit was handled before
               \* the end of the worker's channel
  excused      \* capacity was lost in one of the ways the code has no answer to

events == <<exited, closed, told>>
marks  == <<draining, intentional, rolling>>
limits == <<throttled, blocked, locked, crashes, portTaken>>
ending == <<cut, graceful, failing, gone, overtaken>>
masterVars == <<proc, events, marks, limits, ending, excused>>

Running == {w \in Worker : proc[w] = "up"}
Forked == {w \in Worker : proc[w] # "none"}
Listed == Forked \ cut    \* cluster.workers
Spare == Worker \ Forked

MasterInit ==
  /\ \E S \in SUBSET Worker :
       /\ Cardinality(S) <= InitialWorkers
       /\ proc = [w \in Worker |-> IF w \in S THEN "up" ELSE "none"]
       /\ excused = (Cardinality(S) < MinWorkers)
  /\ exited = {} /\ closed = {} /\ told = {} /\ portTaken = {}
  /\ draining = {} /\ intentional = {} /\ cut = {} /\ rolling = FALSE
  /\ throttled = FALSE /\ blocked = FALSE /\ locked = FALSE /\ crashes = 0
  /\ graceful = FALSE /\ failing = FALSE /\ gone = FALSE /\ overtaken = FALSE
-----------------------------------------------------------------------------
(* The workers and the clock.                                              *)
End(w) ==
  /\ ~gone /\ proc[w] = "up"
  /\ proc' = [proc EXCEPT ![w] = "dead"]
  /\ UNCHANGED <<events, marks, limits, ending, excused>>

(* A worker that cannot bind the port says so and shuts down.              *)
Report(w) ==
  /\ ~gone /\ proc[w] = "up" /\ w \notin closed
  /\ told' = told \cup {w}
  /\ UNCHANGED <<proc, exited, closed, marks, limits, ending, excused>>

TimePasses ==
  /\ ~gone
  /\ \/ throttled /\ throttled' = FALSE /\ UNCHANGED <<blocked, crashes, rolling>>
     \/ blocked /\ blocked' = FALSE /\ UNCHANGED <<throttled, crashes, rolling>>
     \/ crashes > 0 /\ crashes' = crashes - 1 /\ UNCHANGED <<throttled, blocked, rolling>>
     \/ rolling /\ rolling' = FALSE /\ UNCHANGED <<throttled, blocked, crashes>>
  /\ UNCHANGED <<proc, events, draining, intentional, locked, portTaken, ending, excused>>
-----------------------------------------------------------------------------
(* The cluster module forgets the workers of S, and those of new are forked*)
Pool(S, new) ==
  /\ proc' = [v \in Worker |-> IF v \in new THEN "up" ELSE IF v \in S THEN "none" ELSE proc[v]]
  /\ closed' = closed \ S
  /\ cut' = cut \ S

(* safeFork: one new worker, or none when it is refused or the fork fails. *)
MayFork(seen) == ~locked /\ ~blocked /\ Cardinality(Listed \ (seen \cup closed)) < MaxWorkers
SafeFork(new, seen) ==
  new = {} \/ (MayFork(seen) /\ \E n \in Spare : new = {n})

(* Too few workers are left for a reason in why.                           *)
Lost(why) == excused' = ((excused \/ why) /\ Cardinality(Running') < MinWorkers)

(* The exit event of a worker that did not report the port: in the last    *)
(* case of an unexpected exit, the throttle passes between the attempt to  *)
(* replace the worker and the test of the minimum.                         *)
CrashLoop == crashes >= MaxAttempts
BelowMinimum(left) == ~locked /\ ~blocked /\ Cardinality(left) < MinWorkers

Unexpected(w, S, new) ==
  /\ crashes' = IF CrashLoop THEN MaxAttempts + 1 ELSE crashes + 1
  /\ UNCHANGED intentional
  /\ \/ CrashLoop /\ new = {} /\ blocked' = TRUE /\ UNCHANGED throttled
     \/ ~CrashLoop /\ UNCHANGED blocked
        /\ \/ ~throttled /\ SafeFork(new, exited \cup {w}) /\ throttled' = TRUE
           \/ throttled /\ new = {} /\ UNCHANGED throttled
           \/ throttled /\ BelowMinimum(Listed \ S) /\ SafeFork(new, exited \cup {w}) /\ throttled' = TRUE
  /\ Lost(new = {})

\* Variant for the checks: the exit of a drained worker is final.
ExpectedIsFinal(w, S, new) ==
  /\ intentional' = intentional \ {w}
  /\ new = {}
  /\ UNCHANGED <<throttled, blocked, crashes>>
  /\ Lost(blocked \/ locked \/ (exited \cup {w}) \ S # {})

Expected(w, S, new) ==
  /\ intentional' = intentional \ {w}
  /\ IF BelowMinimum(Listed \ S) /\ ~throttled
     THEN SafeFork(new, exited \cup {w}) /\ throttled' = TRUE
     ELSE new = {} /\ UNCHANGED throttled
  /\ UNCHANGED <<blocked, crashes>>
  /\ Lost(blocked \/ locked \/ (exited \cup {w}) \ S # {}
            \/ (BelowMinimum(Listed \ S) /\ new = {}))

(* The last worker reported the port: a fatal error of the master.         *)
PortTaken(S, new) ==
  /\ new = {}
  /\ locked' = TRUE
  /\ failing' = (failing \/ Listed \ S = {})
  /\ rolling' = (rolling /\ Listed \ S # {})
  /\ intentional' = intentional \ S
  /\ UNCHANGED <<throttled, blocked, crashes>>
  /\ Lost(TRUE)

(* The exit event of a worker.  It is taken off the list first if its      *)
(* channel was seen to close, and a stopping master exits when none is left*)
(* then; its handler goes on otherwise, also if the list was empty before. *)
Exit(w) ==
  /\ ~gone /\ proc[w] = "dead" /\ w \notin exited
  /\ \E S \in {closed \cap {w}}, new \in {{}} \cup {{n} : n \in Spare} :
       /\ Pool(S, new)
       /\ exited' = (exited \cup {w}) \ S
       /\ draining' = draining \ {w}
       /\ portTaken' = portTaken \ {w}
       /\ gone' = (S # {} /\ Listed \ S = {} /\ (graceful \/ failing))
       /\ overtaken' = (overtaken \/ (graceful /\ S = {}))
       /\ IF w \in portTaken THEN PortTaken(S, new)
          ELSE /\ gone' => new = {}
               /\ IF w \in intentional THEN Expected(w, S, new) ELSE Unexpected(w, S, new)
               /\ UNCHANGED <<locked, failing, rolling>>
       /\ UNCHANGED <<told, graceful>>

(* The end of a worker's channel.                                          *)
Close(w) ==
  /\ ~gone /\ w \in Forked \ (closed \cup told)
  /\ proc[w] = "dead" \/ w \in cut
  /\ IF w \in exited
     THEN /\ Pool({w}, {})
          /\ exited' = exited \ {w}
          /\ draining' = draining \ {w}
          /\ intentional' = intentional \ {w}
          /\ portTaken' = portTaken \ {w}
          /\ gone' = (Listed \ {w} = {} /\ (graceful \/ failing))
     ELSE /\ closed' = closed \cup {w}
          /\ UNCHANGED <<proc, exited, draining, intentional, portTaken, cut, gone>>
  /\ UNCHANGED <<told, rolling, throttled, blocked, locked, crashes, graceful, failing, overtaken, excused>>

(* The master receives the message "port in use".                          *)
Receive(w) ==
  /\ ~gone /\ w \in told
  /\ told' = told \ {w}
  /\ portTaken' = portTaken \cup {w}
  /\ locked' = TRUE /\ blocked' = TRUE
  /\ UNCHANGED <<proc, exited, closed, marks, throttled, crashes, ending, excused>>
-----------------------------------------------------------------------------
(* rollingRestartOne: one worker is told to shut down, and killed if it    *)
(* does not.                                                               *)
Drain(workers) ==
  /\ ~rolling /\ rolling' = TRUE
  /\ Cardinality(workers \ draining) > MinWorkers
  /\ \E w \in workers \ draining :
       draining' = draining \cup {w} /\ intentional' = intentional \cup {w}

(* A worker's message that its memory is short.                            *)
MemoryPressure ==
  /\ ~gone /\ Forked \ closed # {}
  /\ Drain(Listed)
  /\ UNCHANGED <<proc, events, limits, ending, excused>>

\* Variant for the checks: a stop that does not end the scaling rounds.
ScaleToTheEnd ==
  /\ ~gone
  /\ \E new \in {{}} \cup {{n} : n \in Spare} :
       /\ SafeFork(new, exited)
       /\ new # {} => Cardinality(Listed) < MaxWorkers
       /\ Pool({}, new)
       /\ Drain(Listed \cup new) \/ UNCHANGED marks
  /\ Lost(FALSE)
  /\ UNCHANGED <<exited, told, limits, graceful, failing, gone, overtaken>>
(* evaluateScale, with any plan: at most one worker more, at most one less.*)
(* Both shutdowns end its timer.                                           *)
EvaluateScale ==
  /\ ~graceful /\ ~failing /\ ~gone
  /\ \E new \in {{}} \cup {{n} : n \in Spare} :
       /\ SafeFork(new, exited)
       /\ new # {} => Cardinality(Listed) < MaxWorkers
       /\ Pool({}, new)
       /\ Drain(Listed \cup new) \/ UNCHANGED marks
  /\ Lost(FALSE)
  /\ UNCHANGED <<exited, told, limits, graceful, failing, gone, overtaken>>

(* cluster.disconnect: every worker with a channel comes off the list.  If *)
(* the list is empty then, the callback of an earlier stop ends the master.*)
Disconnect ==
  /\ cut' = cut \cup (Listed \ closed)
  /\ gone' = ((graceful \/ failing) /\ Listed # {} /\ Listed \subseteq cut')

\* Variant for the checks: a graceful stop that does not expect the exits.
StopUnannounced ==
  /\ ~gone /\ ~graceful /\ graceful' = TRUE
  /\ rolling' = FALSE
  /\ Disconnect
  /\ UNCHANGED <<proc, events, draining, intentional, limits, failing, overtaken, excused>>
(* shutdownGracefully, on a signal or the supervisor's message.            *)
ShutdownGracefully ==
  /\ ~gone /\ ~graceful /\ graceful' = TRUE
  /\ rolling' = FALSE
  /\ intentional' = intentional \cup Listed
  /\ Disconnect
  /\ UNCHANGED <<proc, events, draining, limits, failing, overtaken, excused>>

(* shutdownMasterDueToFatalError, on an uncaught exception of the master.  *)
ShutdownFatally ==
  /\ ~gone /\ ~failing /\ failing' = TRUE
  /\ rolling' = FALSE
  /\ Disconnect
  /\ UNCHANGED <<proc, events, draining, intentional, limits, graceful, overtaken, excused>>

(* A stopping master exits after a time, whatever its workers do.          *)
ForceExit ==
  /\ ~gone /\ (graceful \/ failing) /\ gone' = TRUE
  /\ UNCHANGED <<proc, events, marks, limits, cut, graceful, failing, overtaken, excused>>

MasterNext ==
  \/ \E w \in Worker : End(w) \/ Report(w) \/ Receive(w) \/ Close(w) \/ Exit(w)
  \/ TimePasses \/ MemoryPressure \/ EvaluateScale
  \/ ShutdownGracefully \/ ShutdownFatally \/ ForceExit

MasterSpec == MasterInit /\ [][MasterNext]_masterVars
-----------------------------------------------------------------------------
(* The sets speak of workers that have not ended, and flags are flags.     *)
MasterTypeOK ==
  /\ proc \in [Worker -> {"none", "up", "dead"}]
  /\ exited \subseteq Forked /\ closed \subseteq Forked /\ told \subseteq Forked
  /\ portTaken \subseteq Forked /\ draining \subseteq Forked /\ intentional \subseteq Forked
  /\ cut \subseteq Forked
  /\ rolling \in BOOLEAN /\ throttled \in BOOLEAN /\ blocked \in BOOLEAN /\ locked \in BOOLEAN
  /\ graceful \in BOOLEAN /\ failing \in BOOLEAN /\ gone \in BOOLEAN
  /\ overtaken \in BOOLEAN /\ excused \in BOOLEAN
  /\ crashes \in 0..MaxAttempts + 1

(* When the master has handled every exit it was told of, it has at least  *)
(* the minimum of workers, but for the losses it does not make good: a     *)
(* crash while restarts were throttled, any exit while they were blocked or*)
(* given up, a failed fork, the exit of a drained worker while restarts    *)
(* were throttled after such a failure, and its exit while the cluster     *)
(* module still listed a dead worker.  In particular draining, alone or    *)
(* with a crash that was made good, never leaves too few workers.  Nothing *)
(* is said of a master that stops: it is to lose its workers.              *)
MinimumKept ==
  ~graceful /\ ~failing /\ {w \in Worker : proc[w] = "dead"} \subseteq exited
    => Cardinality(Running) >= MinWorkers \/ excused

(* There are never more worker processes than the cap allows, although     *)
(* safeFork and the scaling rounds count the list: a stopping master takes *)
(* workers off it that are still running, and goes on answering exits with *)
(* new workers.                                                            *)
WorkerCap == Cardinality(Running) <= MaxWorkers

(* A gracefully stopping master forks a worker in one way only: it handles *)
(* an exit before the end of that worker's channel, when its list is empty *)
(* and the exit handler restores the minimum.  As long as the channels end *)
(* first, the exits are expected and the master is gone with the first of  *)
(* them that leaves nothing on the list.  (A fatal error of the master is  *)
(* excluded: it does not expect the exits of its workers.)                 *)
StopsForGood ==
  [][graceful /\ ~failing' /\ ~overtaken' => Running' \subseteq Running]_masterVars
=============================================================================
