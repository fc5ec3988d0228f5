--------------------------- MODULE DriverManager ---------------------------
(***************************************************************************)
(* netcore::NETVDriverManager with its NETVScheduler, and the three threads*)
(* that use them: the GUI thread starts and stops the manager and handles  *)
(* its queued started() and finished() signals; the manager's thread owns  *)
(* the scheduler, whose timers poll variables and look for silent modules; *)
(* the reader thread takes the messages of the driver and adds modules.    *)
(*                                                                         *)
(* What runs with m_mutex held is one action.  schedulerUpdate holds the   *)
(* scheduler's mutex only; so do the changes of the list it looks at.      *)
(*                                                                         *)
(* NETVScheduler has the list, the modules and the connections of          *)
(* NetworkScheduler, of which it is a copy with a mutex.  Nothing in the   *)
(* new stack changes the variables of a module, or deactivates one.        *)
(***************************************************************************)
EXTENDS NetworkScheduler

CONSTANTS Modules,     \* device identifiers
          Configured,  \* the variables of each module's configuration file
          MaxSessions  \* bound: starts of the manager

DriverManagerAssumption ==
    /\ Configured \in [Modules -> Seq(Variables)]
    /\ \A m \in Modules : IsInjective(Configured[m])
    /\ \A m, n \in Modules : m # n => Range(Configured[m]) \cap Range(Configured[n]) = {}
    /\ MaxSessions \in Nat

VARIABLES
    sessions,   \* number of starts so far
    managerPc,  \* where the manager's thread is
    quitting,   \* its quit flag
    scheduler,  \* m_scheduler is not NULL
    events,     \* the manager's signals that the GUI thread has to handle
    guiPc,      \* where the GUI thread is
    readerPc,   \* where the reader's thread is
    mRunning,   \* its m_running
    message,    \* the module whose ALIVE answer the reader has
    modules,    \* m_modules
    active,     \* NETVModule::m_active
    silent,     \* modules not heard for more than 5 s
    missed      \* history: modules found, or back, while there was no scheduler

managerVars == <<sessions, managerPc, quitting, scheduler>>
guiVars == <<events, guiPc>>
readerVars == <<readerPc, mRunning, message>>
moduleVars == <<modules, active, silent, missed>>
vars == <<schedVars, managerVars, guiVars, readerVars, moduleVars>>

VariablesOf(S) == UNION {Range(Configured[m]) : m \in S}

Init ==
    /\ SchedInit
    /\ sessions = 0
    /\ managerPc = "off"
    /\ quitting = FALSE
    /\ scheduler = FALSE
    /\ events = <<>>
    /\ guiPc = "loop"
    /\ readerPc = "off"
    /\ mRunning = FALSE
    /\ message \in Modules
    /\ modules = {}
    /\ active = [m \in Modules |-> FALSE]
    /\ silent = {}
    /\ missed = {}
-----------------------------------------------------------------------------
(* The GUI thread.                                                         *)

\* onStartButtonClicked: start(), which does nothing while the thread runs.
Start ==
    /\ guiPc = "loop"
    /\ managerPc = "off"
    /\ sessions < MaxSessions
    /\ sessions' = sessions + 1
    /\ managerPc' = "starting"
    /\ quitting' = FALSE
    /\ UNCHANGED <<schedVars, scheduler, guiVars, readerVars, moduleVars>>

\* onStopButtonClicked: quit(), without wait().
Stop ==
    /\ guiPc = "loop"
    /\ quitting' = TRUE
    /\ UNCHANGED <<schedVars, sessions, managerPc, scheduler, guiVars, readerVars, moduleVars>>

\* managerThreadStarted
ManagerThreadStarted ==
    /\ guiPc = "loop"
    /\ events # <<>> /\ Head(events) = "started"
    /\ events' = Tail(events)
    /\ readerPc' = IF readerPc = "off" THEN "entered" ELSE readerPc
    /\ UNCHANGED <<schedVars, managerVars, guiPc, mRunning, message, moduleVars>>

\* managerThreadFinished, up to wait().
ManagerThreadFinished ==
    /\ guiPc = "loop"
    /\ events # <<>> /\ Head(events) = "finished"
    /\ events' = Tail(events)
    /\ IF readerPc = "off" THEN UNCHANGED <<mRunning, guiPc>>
                           ELSE mRunning' = FALSE /\ guiPc' = "wait"
    /\ UNCHANGED <<schedVars, managerVars, readerPc, message, moduleVars>>

\* Mutation of ReaderJoined: managerThreadFinished does not wait.
ReaderNotJoined ==
    /\ guiPc = "wait"
    /\ guiPc' = "loop"
    /\ UNCHANGED <<schedVars, managerVars, events, readerVars, moduleVars>>

\* managerThreadFinished, wait() returns.
ReaderJoined ==
    /\ guiPc = "wait"
    /\ readerPc = "off"
    /\ guiPc' = "loop"
    /\ UNCHANGED <<schedVars, managerVars, events, readerVars, moduleVars>>
-----------------------------------------------------------------------------
(* The manager's thread: QThread's start, run(), QThread's end.            *)

ManagerStarted ==
    /\ managerPc = "starting"
    /\ managerPc' = "startup"
    /\ events' = Append(events, "started")
    /\ UNCHANGED <<schedVars, sessions, quitting, scheduler, guiPc, readerVars, moduleVars>>

\* startup: a new scheduler, that knows no module.
Startup ==
    /\ managerPc = "startup"
    /\ managerPc' = "exec"
    /\ scheduler' = TRUE
    /\ UNCHANGED <<schedVars, sessions, quitting, guiVars, readerVars, moduleVars>>

\* schedulerUpdate
SchedulerUpdate ==
    /\ managerPc = "exec"
    /\ scheduleList # <<>>
    /\ NextRound(Variables)
    /\ UNCHANGED <<schedModules, connected, managerVars, guiVars, readerVars, moduleVars>>

\* Mutation of SchedulerWatchdog: the scheduler is not told.
WatchdogOnlyMarks ==
    /\ managerPc = "exec"
    /\ active' = [m \in Modules |-> active[m] /\ m \notin modules \cap silent]
    /\ UNCHANGED <<schedVars, managerVars, guiVars, readerVars, modules, silent, missed>>

\* schedulerWatchdog and watchdogTimeout
SchedulerWatchdog ==
    /\ managerPc = "exec"
    /\ LET stale == modules \cap silent
       IN  /\ active' = [m \in Modules |-> active[m] /\ m \notin stale]
           /\ SchedRemoveModules(stale, VariablesOf(stale), {})
    /\ UNCHANGED <<managerVars, guiVars, readerVars, modules, silent, missed>>

\* The event loop returns.
Exec ==
    /\ managerPc = "exec"
    /\ quitting
    /\ managerPc' = "shutdown"
    /\ UNCHANGED <<schedVars, sessions, quitting, scheduler, guiVars, readerVars, moduleVars>>

\* Mutation of Shutdown: the scheduler is kept for the next start.
ShutdownKeepsScheduler ==
    /\ managerPc = "shutdown"
    /\ managerPc' = "finishing"
    /\ modules' = {}
    /\ active' = [m \in Modules |-> FALSE]
    /\ missed' = {}
    /\ UNCHANGED <<schedVars, sessions, quitting, scheduler, guiVars, readerVars, silent>>

\* shutdown: the scheduler is deleted, and with it its connections, then the modules
\* are; the thread handles their deleteLater before it ends.
Shutdown ==
    /\ managerPc = "shutdown"
    /\ managerPc' = "finishing"
    /\ scheduler' = FALSE
    /\ scheduleList' = <<>> /\ schedModules' = {} /\ connected' = {}
    /\ modules' = {}
    /\ active' = [m \in Modules |-> FALSE]
    /\ missed' = {}
    /\ UNCHANGED <<sessions, quitting, guiVars, readerVars, silent>>

ManagerFinished ==
    /\ managerPc = "finishing"
    /\ managerPc' = "off"
    /\ events' = Append(events, "finished")
    /\ UNCHANGED <<schedVars, sessions, quitting, scheduler, guiPc, readerVars, moduleVars>>
-----------------------------------------------------------------------------
(* The reader's thread: run().                                             *)

\* m_running = true
ReaderEnter ==
    /\ readerPc = "entered"
    /\ readerPc' = "loop"
    /\ mRunning' = TRUE
    /\ UNCHANGED <<schedVars, managerVars, guiVars, message, moduleVars>>

\* while (m_running)
ReaderLoop ==
    /\ readerPc = "loop"
    /\ readerPc' = IF mRunning THEN "recv" ELSE "off"
    /\ UNCHANGED <<schedVars, managerVars, guiVars, mRunning, message, moduleVars>>

\* recvMessage: the driver has nothing, or a message that adds no module, or an
\* ALIVE answer, which may wait in its queue since before the last stop.
ReaderRecv ==
    /\ readerPc = "recv"
    /\ \/ readerPc' = "loop" /\ UNCHANGED message
       \/ readerPc' = "process" /\ message' \in Modules
    /\ UNCHANGED <<schedVars, managerVars, guiVars, mRunning, moduleVars>>

\* process: setUpdateTime, and the scheduler if there is one.  A module that is new
\* or inactive becomes active and is added to the scheduler.
Found(m) ==
    /\ active' = [active EXCEPT ![m] = TRUE]
    /\ IF scheduler THEN SchedAddModule(m, Configured[m]) /\ missed' = missed \ {m}
                    ELSE UNCHANGED schedVars /\ missed' = missed \cup {m}

\* Mutation of ReaderProcess: a module that was inactive is not scheduled again.
ReaderProcessForgets ==
    /\ readerPc = "process"
    /\ readerPc' = "loop"
    /\ silent' = silent \ {message}
    /\ modules' = modules \cup {message}
    /\ IF message \in modules THEN UNCHANGED <<schedVars, missed>>
                                   /\ active' = [active EXCEPT ![message] = TRUE]
                              ELSE Found(message)
    /\ UNCHANGED <<managerVars, guiVars, mRunning, message>>

ReaderProcess ==
    /\ readerPc = "process"
    /\ readerPc' = "loop"
    /\ silent' = silent \ {message}
    /\ modules' = modules \cup {message}
    /\ IF message \in modules /\ active[message]
       THEN UNCHANGED <<schedVars, active, missed>>
       ELSE Found(message)
    /\ UNCHANGED <<managerVars, guiVars, mRunning, message>>

\* More than 5 s pass without an answer.
Silence ==
    /\ \E m \in modules : silent' = silent \cup {m}
    /\ UNCHANGED <<schedVars, managerVars, guiVars, readerVars, modules, active, missed>>
-----------------------------------------------------------------------------
Gui == Start \/ Stop \/ ManagerThreadStarted \/ ManagerThreadFinished \/ ReaderJoined

Manager ==
    \/ ManagerStarted \/ Startup \/ SchedulerUpdate \/ SchedulerWatchdog
    \/ Exec \/ Shutdown \/ ManagerFinished

Reader == ReaderEnter \/ ReaderLoop \/ ReaderRecv \/ ReaderProcess

Next == Gui \/ Manager \/ Reader \/ Silence

Spec == Init /\ [][Next]_vars
-----------------------------------------------------------------------------
TypeOK ==
    /\ scheduleList \in Seq(Variables \ ScriptVariables)
    /\ schedModules \subseteq Modules
    /\ connected \subseteq Variables
    /\ sessions \in 0 .. MaxSessions
    /\ managerPc \in {"off", "starting", "startup", "exec", "shutdown", "finishing"}
    /\ quitting \in BOOLEAN
    /\ scheduler \in BOOLEAN
    /\ scheduler <=> managerPc \in {"exec", "shutdown"}
    /\ events \in Seq({"started", "finished"}) /\ Len(events) <= 2 * sessions
    /\ guiPc \in {"loop", "wait"}
    /\ readerPc \in {"off", "entered", "loop", "recv", "process"}
    /\ mRunning \in BOOLEAN
    /\ message \in Modules
    /\ modules \subseteq Modules /\ silent \subseteq Modules
    /\ missed \subseteq modules
    /\ active \in [Modules -> BOOLEAN]

\* The reader adds modules while the manager's thread polls, declares modules silent
\* or shuts down: the variables in the schedule list always belong to modules that
\* exist and are active, each is there once (removeModule, shutdown, process).
ScheduleSound ==
    /\ schedModules \subseteq {m \in modules : active[m]}
    /\ Range(scheduleList) \subseteq VariablesOf(schedModules)
    /\ IsInjective(scheduleList)

\* All variables of an active module are polled, wherever the stops, starts and
\* silences fell, unless it was found while m_scheduler was NULL: startup adds no
\* module, and a module that is active is not added again (process, addModule).
ActiveScheduled ==
    scheduler => \A m \in modules \ missed :
        active[m] => Range(Configured[m]) \ ScriptVariables \subseteq Range(scheduleList)

\* Once the GUI thread has handled the signals, the reader runs if the manager's
\* thread does, and does not if not (managerThreadStarted, managerThreadFinished).
ReaderFollowsManager ==
    guiPc = "loop" /\ events = <<>> => (readerPc # "off" <=> managerPc \notin {"off", "starting"})
=============================================================================
