--------------------------- MODULE DriverThreads ---------------------------
(***************************************************************************)
(* The threads of a netcore::CoreDriver: the driver's own thread, its send *)
(* and receive workers, and the thread that created the driver, which      *)
(* starts, stops and deletes it.  started() and finished() are emitted in  *)
(* the driver's thread; the workers live in the creator's thread, so their *)
(* slots parentStarted and parentFinished are queued and run in the        *)
(* creator's event loop.                                                   *)
(*                                                                         *)
(* External (QThread): start() clears the quit flag and does nothing if    *)
(* the thread runs; quit() sets it, also before exec(); exec() returns     *)
(* once it is set; wait() returns when the thread is not running.          *)
(***************************************************************************)
EXTENDS Naturals, SequencesExt

CONSTANTS MaxSessions \* bound: calls of start() that start a thread

ThreadsAssumption == MaxSessions \in Nat

Workers == {"send", "recv"}

VARIABLES
    sessions,   \* number of starts so far
    driverPc,   \* where the driver's thread is
    driverQuit, \* its quit flag
    events,     \* queued slot calls of the creator's event loop
    creatorPc,  \* where the creator's thread is
    joining,    \* the worker whose stop() the creator is in
    workerPc,   \* where each worker's thread is
    workerQuit, \* their quit flags
    mRunning    \* their m_running

driverVars == <<sessions, driverPc, driverQuit>>
creatorVars == <<creatorPc, joining>>
workerVars == <<workerPc, workerQuit, mRunning>>
vars == <<driverVars, events, creatorVars, workerVars>>

Init ==
    /\ sessions = 0
    /\ driverPc = "off"
    /\ driverQuit = FALSE
    /\ events = <<>>
    /\ creatorPc = "loop"
    /\ joining \in Workers
    /\ workerPc = [w \in Workers |-> "off"]
    /\ workerQuit = [w \in Workers |-> FALSE]
    /\ mRunning = [w \in Workers |-> FALSE]

\* Mutation of Calls: a signal is connected twice.
CallsTwice(slot) ==
    <<[slot |-> slot, worker |-> "send"], [slot |-> slot, worker |-> "recv"],
      [slot |-> slot, worker |-> "send"], [slot |-> slot, worker |-> "recv"]>>

\* The slot calls that a signal of the driver queues, in the order of connect().
Calls(slot) == <<[slot |-> slot, worker |-> "send"], [slot |-> slot, worker |-> "recv"]>>
-----------------------------------------------------------------------------
(* The creator: CoreDriver::start, stop and the destructor.                *)

DriverStart ==
    /\ creatorPc = "loop"
    /\ driverPc = "off"
    /\ sessions < MaxSessions
    /\ sessions' = sessions + 1
    /\ driverPc' = "starting"
    /\ driverQuit' = FALSE
    /\ UNCHANGED <<events, creatorVars, workerVars>>

\* stop(), also called first by the destructor: quit() and wait().
DriverStop(then) ==
    /\ creatorPc = "loop"
    /\ driverQuit' = TRUE
    /\ creatorPc' = then
    /\ UNCHANGED <<sessions, driverPc, events, joining, workerVars>>

\* wait() returns: stop() ends, or the destructor goes on to delete the messages
\* and the members.
DriverJoined ==
    /\ driverPc = "off"
    /\ \/ creatorPc = "stop" /\ creatorPc' = "loop"
       \/ creatorPc = "delete" /\ creatorPc' = "deleted"
    /\ UNCHANGED <<driverVars, events, joining, workerVars>>

(* The creator's event loop: the workers' slots.                           *)

\* parentStarted: start().
ParentStarted ==
    /\ creatorPc = "loop"
    /\ events # <<>> /\ Head(events).slot = "started"
    /\ LET w == Head(events).worker
       IN  /\ workerPc' = [workerPc EXCEPT ![w] = IF @ = "off" THEN "entered" ELSE @]
           /\ workerQuit' = [workerQuit EXCEPT ![w] = @ /\ workerPc[w] # "off"]
    /\ events' = Tail(events)
    /\ UNCHANGED <<driverVars, creatorVars, mRunning>>

\* parentFinished: stop(), m_running = false.
ParentFinished ==
    /\ creatorPc = "loop"
    /\ events # <<>> /\ Head(events).slot = "finished"
    /\ mRunning' = [mRunning EXCEPT ![Head(events).worker] = FALSE]
    /\ joining' = Head(events).worker
    /\ creatorPc' = "quitWorker"
    /\ events' = Tail(events)
    /\ UNCHANGED <<driverVars, workerPc, workerQuit>>

\* Mutation of QuitWorker: stop() does not call quit().
NoQuitWorker ==
    /\ creatorPc = "quitWorker"
    /\ creatorPc' = "joinWorker"
    /\ UNCHANGED <<driverVars, events, joining, workerVars>>

\* stop(), quit().
QuitWorker ==
    /\ creatorPc = "quitWorker"
    /\ workerQuit' = [workerQuit EXCEPT ![joining] = TRUE]
    /\ creatorPc' = "joinWorker"
    /\ UNCHANGED <<driverVars, events, joining, workerPc, mRunning>>

\* Mutation of WorkerJoined: stop() does not call wait().
WorkerNotJoined ==
    /\ creatorPc = "joinWorker"
    /\ creatorPc' = "loop"
    /\ UNCHANGED <<driverVars, events, joining, workerVars>>

\* stop(), wait() returns.
WorkerJoined ==
    /\ creatorPc = "joinWorker"
    /\ workerPc[joining] = "off"
    /\ creatorPc' = "loop"
    /\ UNCHANGED <<driverVars, events, joining, workerVars>>
-----------------------------------------------------------------------------
(* The driver's thread: QThread's start, CoreDriver::run, QThread's end.   *)

DriverStarted ==
    /\ driverPc = "starting"
    /\ driverPc' = "startup"
    /\ events' = events \o Calls("started")
    /\ UNCHANGED <<sessions, driverQuit, creatorVars, workerVars>>

DriverStartup ==
    /\ driverPc = "startup"
    /\ driverPc' = "exec"
    /\ UNCHANGED <<sessions, driverQuit, events, creatorVars, workerVars>>

DriverExec ==
    /\ driverPc = "exec"
    /\ driverQuit
    /\ driverPc' = "shutdown"
    /\ UNCHANGED <<sessions, driverQuit, events, creatorVars, workerVars>>

DriverShutdown ==
    /\ driverPc = "shutdown"
    /\ driverPc' = "finishing"
    /\ UNCHANGED <<sessions, driverQuit, events, creatorVars, workerVars>>

DriverFinished ==
    /\ driverPc = "finishing"
    /\ driverPc' = "off"
    /\ events' = events \o Calls("finished")
    /\ UNCHANGED <<sessions, driverQuit, creatorVars, workerVars>>
-----------------------------------------------------------------------------
(* A worker's thread: run().                                               *)

\* m_running = true
WorkerEnter(w) ==
    /\ workerPc[w] = "entered"
    /\ workerPc' = [workerPc EXCEPT ![w] = "loop"]
    /\ mRunning' = [mRunning EXCEPT ![w] = TRUE]
    /\ UNCHANGED <<driverVars, events, creatorVars, workerQuit>>

\* while (m_running)
WorkerLoop(w) ==
    /\ workerPc[w] = "loop"
    /\ workerPc' = [workerPc EXCEPT ![w] = IF mRunning[w] THEN "call" ELSE "exec"]
    /\ UNCHANGED <<driverVars, events, creatorVars, workerQuit, mRunning>>

\* internalThreadRecvFunction or internalThreadSendFunction, and the sleep.
WorkerCall(w) ==
    /\ workerPc[w] = "call"
    /\ workerPc' = [workerPc EXCEPT ![w] = "loop"]
    /\ UNCHANGED <<driverVars, events, creatorVars, workerQuit, mRunning>>

\* exec()
WorkerExec(w) ==
    /\ workerPc[w] = "exec"
    /\ workerQuit[w]
    /\ workerPc' = [workerPc EXCEPT ![w] = "off"]
    /\ UNCHANGED <<driverVars, events, creatorVars, workerQuit, mRunning>>
-----------------------------------------------------------------------------
EventLoop == ParentStarted \/ ParentFinished \/ QuitWorker \/ WorkerJoined \/ DriverJoined

DriverThread ==
    DriverStarted \/ DriverStartup \/ DriverExec \/ DriverShutdown \/ DriverFinished

Worker(w) == WorkerEnter(w) \/ WorkerLoop(w) \/ WorkerCall(w) \/ WorkerExec(w)

\* The driver is gone and its threads, if they can, have ended.
Deleted == creatorPc = "deleted" /\ UNCHANGED vars

Next ==
    \/ DriverStart
    \/ \E then \in {"stop", "delete"} : DriverStop(then)
    \/ EventLoop
    \/ DriverThread
    \/ \E w \in Workers : Worker(w)
    \/ Deleted

\* Threads are scheduled, the driver's functions return; no one has to start or
\* stop the driver.
Spec ==
    /\ Init /\ [][Next]_vars
    /\ WF_vars(EventLoop) /\ WF_vars(DriverThread)
    /\ \A w \in Workers : WF_vars(Worker(w))
-----------------------------------------------------------------------------
TypeOK ==
    /\ sessions \in 0 .. MaxSessions
    /\ driverPc \in {"off", "starting", "startup", "exec", "shutdown", "finishing"}
    /\ driverQuit \in BOOLEAN
    /\ events \in Seq([slot : {"started", "finished"}, worker : Workers])
    /\ Len(events) <= 4 * sessions
    /\ creatorPc \in {"loop", "stop", "delete", "deleted", "quitWorker", "joinWorker"}
    /\ joining \in Workers
    /\ workerPc \in [Workers -> {"off", "entered", "loop", "call", "exec"}]
    /\ workerQuit \in [Workers -> BOOLEAN]
    /\ mRunning \in [Workers -> BOOLEAN]

\* Once the creator has handled its events, both workers run if the driver's thread
\* runs, and neither if it does not, however often it was started and stopped in
\* between and whatever was still queued then.
WorkersFollowDriver ==
    creatorPc = "loop" /\ events = <<>> =>
        \A w \in Workers : workerPc[w] # "off" <=> driverPc \notin {"off", "starting"}

\* The stop() of a worker ends, if its thread was past m_running = true when
\* stop() set it to false.
StopEndsOnceEntered ==
    \A w \in Workers :
        (creatorPc = "quitWorker" /\ joining = w /\ workerPc[w] # "entered" /\ ~mRunning[w])
            ~> (creatorPc = "loop")

\* "stop() quit&wait ok": the stop() of a worker ends.
StopEnds == (creatorPc = "quitWorker") ~> (creatorPc = "loop")

\* "Should delete remaining messages": when the destructor does, and destroys the
\* workers, their threads have ended.
NoThreadAtDelete == creatorPc = "deleted" => \A w \in Workers : workerPc[w] = "off"
=============================================================================
