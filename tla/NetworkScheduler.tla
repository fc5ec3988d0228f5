-------------------------- MODULE NetworkScheduler --------------------------
(***************************************************************************)
(* NetworkScheduler: the list of variables that are polled in turn, and    *)
(* the Qt connections through which modules, configurations and variables  *)
(* change it.  Every method runs in the GUI thread, called by the manager  *)
(* or by a signal; the definitions below are the effect of one call on the *)
(* scheduler's state, and InterfaceManager makes the calls.                *)
(*                                                                         *)
(* m_modules and the connections to a module's configuration (variableAdded,*)
(* variableRemoved) are made and dropped together: schedModules is both.   *)
(* A variable's two connections (variableActivated, aboutToDestroy) are    *)
(* also made and dropped together; connecting twice has the effect of      *)
(* connecting once on the list, so connected is a set.                     *)
(***************************************************************************)
EXTENDS Selection, SequencesExt

CONSTANTS Variables,      \* the ModuleVariable objects
          ScriptVariables \* those with memType >= SCRIPT_VARIABLE

ASSUME SchedulerAssumption == ScriptVariables \subseteq Variables

VARIABLES scheduleList, \* m_variableScheduleList
          schedModules, \* m_modules
          connected     \* variables whose signals the scheduler receives

schedVars == <<scheduleList, schedModules, connected>>

SchedInit ==
    /\ scheduleList = <<>>
    /\ schedModules = {}
    /\ connected = {}

\* list without the variables of S (QList::removeAll for each of them).
Without(list, S) == Only(list, Range(list) \ S)

\* Mutation of Schedulable: the list is not searched for the variable.
SchedulableAgain(list, v) == v \notin ScriptVariables

\* The guard of addScheduledVariable.
Schedulable(list, v) == v \notin Range(list) /\ v \notin ScriptVariables

\* The variables of new that addScheduledVariable accepts and connects.
NewlyConnected(list, new) == {v \in Range(new) : Schedulable(list, v)}

\* addScheduledVariable for the variables of new, in order (they are distinct).
Enqueue(list, new) == list \o Only(new, NewlyConnected(list, new))

AddScheduled(new) ==
    /\ scheduleList' = Enqueue(scheduleList, new)
    /\ connected' = connected \cup NewlyConnected(scheduleList, new)

\* addModule: the variables of a configuration conf.
SchedAddModule(m, conf) ==
    /\ IF m \notin schedModules
       THEN AddScheduled(conf)
       ELSE UNCHANGED <<scheduleList, connected>>
    /\ schedModules' = schedModules \cup {m}

\* Mutation of SchedRemoveModules: m_modules keeps the module.
SchedRemoveVariablesOnly(S, vs, deleted) ==
    /\ scheduleList' = Without(scheduleList, vs)
    /\ connected' = connected \ ((Range(scheduleList) \cap vs) \cup deleted)
    /\ UNCHANGED schedModules

\* Mutation of SchedRemoveModules: the variables are disconnected, not removed.
SchedRemoveConnectionsOnly(S, vs, deleted) ==
    /\ connected' = connected \ ((Range(scheduleList) \cap vs) \cup deleted)
    /\ schedModules' = schedModules \ S
    /\ UNCHANGED scheduleList

\* removeModule for the modules of S, whose variables are vs, of which the caller
\* then deletes some.  A variable that is not in the list keeps its connections
\* until it is deleted.
SchedRemoveModules(S, vs, deleted) ==
    /\ scheduleList' = Without(scheduleList, vs)
    /\ connected' = connected \ ((Range(scheduleList) \cap vs) \cup deleted)
    /\ schedModules' = schedModules \ S

\* The variables of old are deleted and those of new are created in module m:
\* variableRemoved and aboutToDestroy reach the scheduler for some of the old
\* ones, variableAdded for the new ones if it knows the module.
SchedReload(m, old, new) ==
    LET told == IF m \in schedModules THEN Range(old) ELSE Range(old) \cap connected
        list == Without(scheduleList, told)
    IN  /\ scheduleList' = IF m \in schedModules THEN Enqueue(list, new) ELSE list
        /\ connected' = (connected \ Range(old))
                            \cup (IF m \in schedModules THEN NewlyConnected(list, new) ELSE {})
        /\ UNCHANGED schedModules

\* variableActivated(activated, v), if the signal is connected.
SchedActivated(v, on) ==
    /\ IF v \in connected
       THEN IF on THEN AddScheduled(<<v>>)
                  ELSE scheduleList' = Without(scheduleList, {v}) /\ UNCHANGED connected
       ELSE UNCHANGED <<scheduleList, connected>>
    /\ UNCHANGED schedModules

\* Mutation of NextRound: a variable that stays is put back at the front.
NextRoundFront(active) == scheduleList' = scheduleList

\* schedulerUpdate: the first variable is polled and goes to the end of the
\* list, or leaves it when it is not activated.
NextRound(active) ==
    LET v == Head(scheduleList)
    IN  scheduleList' = IF v \in active THEN Append(Tail(scheduleList), v)
                                        ELSE Tail(scheduleList)
=============================================================================
