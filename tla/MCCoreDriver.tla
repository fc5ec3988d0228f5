---------------------------- MODULE MCCoreDriver ----------------------------
(***************************************************************************)
(* The new stack: a queue of CoreDriver, which the theorems are about; the *)
(* threads of a CoreDriver; and the threads of the driver manager above it *)
(* with its scheduler.  They share no state: each behaviour is of one part *)
(* and leaves the others as they are.                                      *)
(***************************************************************************)
EXTENDS CoreDriverQueue

CONSTANTS MaxSessions, Modules, Variables, ScriptVariables, Configured

\* A module with two variables and a script variable, and one with one variable.
CONSTANTS m1, m2, a, b, s, c

TwoFiles == [m \in Modules |-> IF m = m1 THEN <<a, s, b>> ELSE <<c>>]

VARIABLES
    part,
    sessions, driverPc, driverQuit, events, creatorPc, joining, workerPc, workerQuit, mRunning,
    scheduleList, schedModules, connected, starts, managerPc, quitting, scheduler, signals,
    guiPc, readerPc, readerRunning, message, modules, active, silent, missed

Threads == INSTANCE DriverThreads
Manager == INSTANCE DriverManager
             WITH sessions <- starts, events <- signals, mRunning <- readerRunning

ASSUME MCAssumption == Threads!ThreadsAssumption /\ Manager!DriverManagerAssumption

threadVars  == <<sessions, driverPc, driverQuit, events, creatorPc, joining, workerPc,
                 workerQuit, mRunning>>
managerVars == <<scheduleList, schedModules, connected, starts, managerPc, quitting, scheduler,
                 signals, guiPc, readerPc, readerRunning, message, modules, active, silent,
                 missed>>
driverVars  == <<part, vars, threadVars, managerVars>>

\* Bound: a part that does not move has one initial state.
DriverInit ==
    /\ part \in {"queue", "threads", "manager"}
    /\ Init /\ Threads!Init /\ Manager!Init
    /\ part # "queue" => direction = "recv" /\ maxSize = 0
    /\ part # "threads" => joining = "send"
    /\ part # "manager" => message = m1

DriverNext ==
    /\ UNCHANGED part
    /\ IF part = "queue"   THEN Next         ELSE UNCHANGED vars
    /\ IF part = "threads" THEN Threads!Next ELSE UNCHANGED threadVars
    /\ IF part = "manager" THEN Manager!Next ELSE UNCHANGED managerVars

\* The fairness of CoreDriverQueue and of DriverThreads, each in its part.
DriverFairness ==
    /\ WF_vars(part = "queue" /\ TakesMutex)
    /\ \A r \in Receivers : WF_vars(part = "queue" /\ Receive(r))
    /\ WF_threadVars(part = "threads" /\ Threads!EventLoop)
    /\ WF_threadVars(part = "threads" /\ Threads!DriverThread)
    /\ \A w \in {"send", "recv"} : WF_threadVars(part = "threads" /\ Threads!Worker(w))

DriverSpec == DriverInit /\ [][DriverNext]_driverVars /\ DriverFairness

\* The properties, as they are explained in the modules of the parts.

\* The queue keeps neither a message nor the mutex for ever.
QueueLive == EverythingTaken /\ PushWaitsForTurn

\* Threads follow the driver and the manager once all signals are handled.
ThreadsFollow ==
    /\ Threads!TypeOK /\ Threads!WorkersFollowDriver
    /\ Manager!TypeOK /\ Manager!ReaderFollowsManager

\* A stop() that comes after the worker set m_running ends.
StopEndsOnceEntered == Threads!StopEndsOnceEntered

\* What is polled while the reader and the manager's thread interleave.
ScheduleExact == Manager!ScheduleSound /\ Manager!ActiveScheduled
=============================================================================
