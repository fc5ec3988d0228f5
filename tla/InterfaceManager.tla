-------------------------- MODULE InterfaceManager --------------------------
(***************************************************************************)
(* NETVInterfaceManager with its NetworkScheduler: discovery of modules by *)
(* their ALIVE answers, the watchdog that declares silent modules          *)
(* inactive, the configurations of the modules and the polling of their    *)
(* variables.  Everything runs in the GUI thread's event loop: an action   *)
(* is the handling of one event, message, timer or user request, with all  *)
(* the slots it triggers.                                                  *)
(***************************************************************************)
EXTENDS NetworkScheduler, Integers

CONSTANTS Modules,       \* device identifiers
          Configurations,\* per module, the lists of variables it may be given
          SilenceLimit,  \* seconds of silence the watchdog accepts (5)
          DayLength,     \* seconds in a day: a QTime counts from midnight
          CrossMidnight  \* bound: whether the modelled period includes midnight

\* A variable is an object of one module, and is once in its configuration.
ASSUME ManagerAssumption ==
    /\ Configurations \in [Modules -> SUBSET Seq(Variables)]
    /\ \A m \in Modules : \A c \in Configurations[m] :
        /\ IsInjective(c)
        /\ \A n \in Modules \ {m} : \A d \in Configurations[n] : Range(c) \cap Range(d) = {}
    /\ SilenceLimit \in Nat
    /\ DayLength \in Nat \ {0}
    /\ CrossMidnight \in BOOLEAN

VARIABLES
    modules,     \* m_modules: the modules that exist
    active,      \* NetworkModule::m_active
    conf,        \* ModuleConfiguration::m_variables of each module
    activated,   \* the variables with m_activated
    updateTime,  \* NetworkModule::m_lastUpdateTime, a time of day
    now,         \* QTime::currentTime()
    watchdogDue, \* the 1 s watchdog timer has elapsed and not been handled
    silence      \* seconds since the module was heard, whatever the clock says

timeVars == <<updateTime, now, watchdogDue, silence>>
vars == <<schedVars, modules, active, conf, activated, timeVars>>

\* silence is counted up to one second more than any test looks at.
SilenceCap == SilenceLimit + 2

VariablesOf(S) == UNION {Range(conf[m]) : m \in S}

Init ==
    /\ SchedInit
    /\ modules = {}
    /\ active = [m \in Modules |-> FALSE]
    /\ conf = [m \in Modules |-> <<>>]
    /\ activated = {}
    /\ updateTime = [m \in Modules |-> 0]
    /\ now = 0
    /\ watchdogDue = FALSE
    /\ silence = [m \in Modules |-> 0]

Heard(m) ==
    /\ updateTime' = [updateTime EXCEPT ![m] = now]
    /\ silence' = [silence EXCEPT ![m] = 0]
    /\ UNCHANGED <<now, watchdogDue>>

\* processCANMessage, ALIVE answer of an unknown module: it is created with the
\* configuration found for it, if any, and added to the scheduler.
NewModule(m) ==
    /\ m \notin modules
    /\ \E c \in Configurations[m] :
        /\ modules' = modules \cup {m}
        /\ active' = [active EXCEPT ![m] = TRUE]
        /\ conf' = [conf EXCEPT ![m] = c]
        /\ activated' = activated \cup Range(c)
        /\ SchedAddModule(m, c)
    /\ Heard(m)

\* processCANMessage, ALIVE answer of a known module.
Alive(m) ==
    /\ m \in modules
    /\ Heard(m)
    /\ active' = [active EXCEPT ![m] = TRUE]
    /\ IF active[m] THEN UNCHANGED schedVars ELSE SchedAddModule(m, conf[m])
    /\ UNCHANGED <<modules, conf, activated>>

\* Mutation of Stale: the limit itself is too long a silence.
StaleAtLimit(m) == now - updateTime[m] >= SilenceLimit

\* Mutation of Stale: one more second is granted.
StaleLate(m) == now - updateTime[m] > SilenceLimit + 1

\* getUpdateTime().secsTo(QTime::currentTime()) > 5
Stale(m) == now - updateTime[m] > SilenceLimit

\* Mutation of Watchdog: modules that are already inactive are passed over.
WatchdogOnce ==
    LET stale == {m \in modules : active[m] /\ Stale(m)}
    IN  /\ watchdogDue
        /\ active' = [m \in Modules |-> active[m] /\ m \notin stale]
        /\ SchedRemoveModules(stale, VariablesOf(stale), {})
        /\ watchdogDue' = FALSE
        /\ UNCHANGED <<modules, conf, activated, updateTime, now, silence>>

\* watchdogTimeout: every stale module is (again) declared inactive and removed
\* from the scheduler.
Watchdog ==
    LET stale == {m \in modules : Stale(m)}
    IN  /\ watchdogDue
        /\ active' = [m \in Modules |-> active[m] /\ m \notin stale]
        /\ SchedRemoveModules(stale, VariablesOf(stale), {})
        /\ watchdogDue' = FALSE
        /\ UNCHANGED <<modules, conf, activated, updateTime, now, silence>>

\* A second passes; the GUI thread handles a due timer before the next one.
Tick ==
    /\ ~watchdogDue
    /\ ~CrossMidnight => now + 1 < DayLength
    /\ now' = (now + 1) % DayLength
    /\ watchdogDue' = TRUE
    /\ silence' = [m \in Modules |-> IF silence[m] < SilenceCap THEN silence[m] + 1
                                                                ELSE SilenceCap]
    /\ UNCHANGED <<schedVars, modules, active, conf, activated, updateTime>>

\* schedulerUpdate.
Poll ==
    /\ scheduleList # <<>>
    /\ NextRound(activated)
    /\ UNCHANGED <<schedModules, connected, modules, active, conf, activated, timeVars>>

\* ModuleVariable::setActivated, which emits variableActivated when it changes.
SetActivated(v, on) ==
    /\ v \in VariablesOf(modules)
    /\ on # (v \in activated)
    /\ activated' = IF on THEN activated \cup {v} ELSE activated \ {v}
    /\ SchedActivated(v, on)
    /\ UNCHANGED <<modules, active, conf, timeVars>>

\* ModuleConfiguration::loadConfiguration: every variable is removed, then those
\* of the file are added.  A file that is not a configuration leaves none.
LoadConfiguration(m) ==
    /\ m \in modules
    /\ \E c \in Configurations[m] \cup {<<>>} :
        /\ conf' = [conf EXCEPT ![m] = c]
        /\ activated' = (activated \ Range(conf[m])) \cup Range(c)
        /\ SchedReload(m, conf[m], c)
    /\ UNCHANGED <<modules, active, timeVars>>

\* ModuleConfiguration::addVariable, by the user or a script.
AddVariable(m, v) ==
    /\ m \in modules
    /\ v \notin VariablesOf(modules)
    /\ \E c \in Configurations[m] : v \in Range(c)
    /\ conf' = [conf EXCEPT ![m] = Append(@, v)]
    /\ activated' = activated \cup {v}
    /\ SchedReload(m, <<>>, <<v>>)
    /\ UNCHANGED <<modules, active, timeVars>>

\* removeModule: out of the manager, out of the scheduler, then deleted with its
\* variables (aboutToDestroy finds none of them in the list any more).
RemoveModule(m) ==
    /\ m \in modules
    /\ modules' = modules \ {m}
    /\ SchedRemoveModules({m}, Range(conf[m]), Range(conf[m]))
    /\ activated' = activated \ Range(conf[m])
    /\ conf' = [conf EXCEPT ![m] = <<>>]
    /\ active' = [active EXCEPT ![m] = FALSE]
    /\ updateTime' = [updateTime EXCEPT ![m] = 0]
    /\ silence' = [silence EXCEPT ![m] = 0]
    /\ UNCHANGED <<now, watchdogDue>>

Next ==
    \/ \E m \in Modules : NewModule(m) \/ Alive(m) \/ LoadConfiguration(m) \/ RemoveModule(m)
    \/ \E m \in Modules, v \in Variables : AddVariable(m, v)
    \/ \E v \in Variables, on \in BOOLEAN : SetActivated(v, on)
    \/ Poll
    \/ Watchdog
    \/ Tick

\* The two timers are served; no one is obliged to answer or to click.
Spec == Init /\ [][Next]_vars /\ WF_vars(Poll) /\ WF_vars(Watchdog)
-----------------------------------------------------------------------------
TypeOK ==
    /\ scheduleList \in Seq(Variables)
    /\ schedModules \subseteq modules
    /\ connected \subseteq Variables \ ScriptVariables
    /\ modules \subseteq Modules
    /\ active \in [Modules -> BOOLEAN]
    /\ conf \in [Modules -> Seq(Variables)]
    /\ activated \subseteq VariablesOf(modules)
    /\ updateTime \in [Modules -> 0 .. DayLength - 1]
    /\ now \in 0 .. DayLength - 1
    /\ watchdogDue \in BOOLEAN
    /\ silence \in [Modules -> 0 .. SilenceCap]

\* The schedule list never holds a pointer to a variable that has been deleted,
\* whatever the order of removals, reloads and activations.
NoDangling == Range(scheduleList) \subseteq VariablesOf(modules)

\* "Make sure variable is scheduled only once."
ScheduledOnce == IsInjective(scheduleList)

\* While a module answers, each variable the user has activated is polled.
ActiveVariablesPolled ==
    \A m \in modules : active[m] =>
        (Range(conf[m]) \cap activated) \ ScriptVariables \subseteq Range(scheduleList)

\* A module that answers is never declared inactive: the watchdog only
\* deactivates after more than SilenceLimit seconds of silence.
NoFalseAlarm ==
    [][\A m \in modules \cap modules' :
          active[m] /\ ~active'[m] => silence[m] > SilenceLimit]_vars

\* "Scan for inactive modules": once the watchdog has run, no module that has
\* been silent for more than SilenceLimit seconds is active.
SilenceDetected ==
    ~watchdogDue => \A m \in modules : active[m] => silence[m] <= SilenceLimit

\* "Remove a module for scheduling": when the watchdog has run, no variable of an
\* inactive module is polled, even one that was activated again in the meantime
\* (removeScheduledVariable leaves a deactivated variable connected).
InactiveUnscheduled ==
    [][watchdogDue /\ ~watchdogDue' =>
          \A m \in modules' : ~active'[m] =>
              Range(conf'[m]) \cap Range(scheduleList') = {}]_vars

\* A variable that stays in the list has its turn again and again, however often
\* the others are activated and deactivated, and modules come and go; unless a
\* configuration is loaded again for ever, which starts from the first variable.
NoStarvation ==
    \/ \E m \in Modules : []<><<LoadConfiguration(m)>>_vars
    \/ \A v \in Variables :
          []<>(\/ v \notin Range(scheduleList)
               \/ scheduleList # <<>> /\ Head(scheduleList) = v)

\* The schedule list between events: no variable twice, none that is gone, none of a
\* module that answers missing.
ScheduleExact == TypeOK /\ NoDangling /\ ScheduledOnce /\ ActiveVariablesPolled

\* The watchdog declares no module silent that is not, and polls none that is.
WatchdogExact == NoFalseAlarm /\ InactiveUnscheduled
=============================================================================
