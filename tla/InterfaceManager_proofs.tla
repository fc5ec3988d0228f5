----------------------- MODULE InterfaceManager_proofs -----------------------
(***************************************************************************)
(* Theorems about InterfaceManager, for every set of modules, of variables *)
(* and of configurations, every limit and every length of the day.         *)
(*                                                                         *)
(* What is polled is right because the scheduler's connections are: they   *)
(* include every variable in the list and every one of a module that       *)
(* answers, so that neither the deletion of the first nor the activation   *)
(* of the second escapes it.                                               *)
(***************************************************************************)
EXTENDS InterfaceManager, SequenceLemmas

\* The variables a module may be given.
Owned(m) == UNION {Range(c) : c \in Configurations[m]}

Belongs ==
    \A m \in Modules :
        /\ Range(conf[m]) \subseteq Owned(m) /\ IsInjective(conf[m])
        /\ m \notin modules => conf[m] = <<>> /\ ~active[m]
        /\ active[m] <=> m \in schedModules

Connections ==
    /\ Range(scheduleList) \subseteq connected
    /\ connected \subseteq VariablesOf(modules)
    /\ \A m \in modules : active[m] => Range(conf[m]) \ ScriptVariables \subseteq connected
-----------------------------------------------------------------------------
(* The operators on the schedule list.                                     *)

\* removeAll takes every occurrence out and leaves the rest.
LEMMA WithoutIs ==
    ASSUME NEW list \in Seq(Variables), NEW S
    PROVE  /\ Without(list, S) \in Seq(Variables)
           /\ Range(Without(list, S)) = Range(list) \ S
           /\ IsInjective(list) => IsInjective(Without(list, S))
  BY OnlyOutside DEF Without

\* addScheduledVariable adds what is not there, and no script variable.
LEMMA EnqueueIs ==
    ASSUME NEW list \in Seq(Variables), NEW new \in Seq(Variables)
    PROVE  /\ Enqueue(list, new) \in Seq(Variables)
           /\ Range(Enqueue(list, new)) = Range(list) \cup (Range(new) \ ScriptVariables)
           /\ IsInjective(list) /\ IsInjective(new) => IsInjective(Enqueue(list, new))
           /\ NewlyConnected(list, new) = Range(new) \ (Range(list) \cup ScriptVariables)
  <1> DEFINE N == NewlyConnected(list, new)
  <1>1. N = Range(new) \ (Range(list) \cup ScriptVariables)
    BY DEF NewlyConnected, Schedulable
  <1>2. Enqueue(list, new) = list \o Only(new, N)
    BY DEF Enqueue
  <1> HIDE DEF N
  <1>3. /\ list \o Only(new, N) \in Seq(Variables)
        /\ Range(list \o Only(new, N)) = Range(list) \cup N
        /\ IsInjective(list) /\ IsInjective(new) => IsInjective(list \o Only(new, N))
    BY <1>1, Joined
  <1>4. Range(list) \cup N = Range(list) \cup (Range(new) \ ScriptVariables)
    BY <1>1
  <1>5. N = NewlyConnected(list, new)
    BY DEF N
  <1> QED BY <1>1, <1>2, <1>3, <1>4, <1>5

\* Modules have no variable in common.
LEMMA Disjoint ==
    ASSUME NEW m \in Modules, NEW n \in Modules, m # n
    PROVE  Owned(m) \cap Owned(n) = {}
  BY ManagerAssumption DEF Owned

LEMMA OfConfiguration ==
    ASSUME NEW m \in Modules, NEW c \in Configurations[m]
    PROVE  c \in Seq(Variables) /\ Range(c) \subseteq Owned(m) /\ Range(c) \subseteq Variables
           /\ IsInjective(c)
  <1>1. c \in Seq(Variables) /\ IsInjective(c)
    BY ManagerAssumption
  <1>2. Range(c) \subseteq Variables
    BY <1>1, InRange
  <1> QED BY <1>1, <1>2 DEF Owned
-----------------------------------------------------------------------------
(* The variables that are polled.                                          *)

\* The part of the invariant about modules, variables and the list.
PollTypeOK ==
    /\ scheduleList \in Seq(Variables)
    /\ schedModules \subseteq modules
    /\ connected \subseteq Variables \ ScriptVariables
    /\ modules \subseteq Modules
    /\ active \in [Modules -> BOOLEAN]
    /\ conf \in [Modules -> Seq(Variables)]
    /\ activated \subseteq VariablesOf(modules)

PollInv == PollTypeOK /\ ScheduledOnce /\ ActiveVariablesPolled /\ Belongs /\ Connections

LEMMA PollInvInit == Init => PollInv
  <1> SUFFICES ASSUME Init PROVE PollInv
    OBVIOUS
  <1> USE DEF Init, SchedInit
  <1>1. scheduleList \in Seq(Variables) /\ Range(scheduleList) = {} /\ IsInjective(scheduleList)
    BY RangeEmpty DEF IsInjective
  <1>2. \A m \in Modules : conf[m] = <<>> /\ Range(conf[m]) = {} /\ IsInjective(conf[m])
    BY RangeEmpty DEF IsInjective
  <1>3. conf \in [Modules -> Seq(Variables)]
    OBVIOUS
  <1> QED BY <1>1, <1>2, <1>3 DEF PollInv, PollTypeOK, ScheduledOnce, ActiveVariablesPolled,
                                  Belongs, Connections

\* A module's configuration lies with its variables, in VariablesOf.
LEMMA Variable ==
    ASSUME NEW S, NEW v
    PROVE  v \in VariablesOf(S) <=> \E m \in S : v \in Range(conf[m])
  BY DEF VariablesOf

LEMMA NewModuleKeeps ==
    ASSUME PollInv, NEW m \in Modules, NewModule(m) PROVE PollInv'
  <1> USE DEF PollInv
  <1>1. PICK c \in Configurations[m] :
          /\ modules' = modules \cup {m}
          /\ active' = [active EXCEPT ![m] = TRUE]
          /\ conf' = [conf EXCEPT ![m] = c]
          /\ activated' = activated \cup Range(c)
          /\ SchedAddModule(m, c)
    BY DEF NewModule
  <1>2. /\ c \in Seq(Variables) /\ Range(c) \subseteq Owned(m) /\ Range(c) \subseteq Variables
        /\ IsInjective(c)
    BY OfConfiguration
  <1>3. m \notin modules /\ m \notin schedModules
    BY DEF NewModule, PollTypeOK
  <1>4. /\ scheduleList' = Enqueue(scheduleList, c)
        /\ connected' = connected \cup NewlyConnected(scheduleList, c)
        /\ schedModules' = schedModules \cup {m}
    BY <1>1, <1>3 DEF SchedAddModule, AddScheduled
  <1>5. /\ scheduleList' \in Seq(Variables)
        /\ Range(scheduleList') = Range(scheduleList) \cup (Range(c) \ ScriptVariables)
        /\ IsInjective(scheduleList')
        /\ connected' = connected \cup (Range(c) \ (Range(scheduleList) \cup ScriptVariables))
    BY <1>2, <1>4, EnqueueIs DEF PollTypeOK, ScheduledOnce
  <1>6. /\ conf' \in [Modules -> Seq(Variables)] /\ conf'[m] = c
        /\ \A n \in Modules \ {m} : conf'[n] = conf[n]
        /\ active' \in [Modules -> BOOLEAN] /\ active'[m]
        /\ \A n \in Modules \ {m} : active'[n] <=> active[n]
    BY <1>1, <1>2 DEF PollTypeOK
  <1>7. VariablesOf(modules)' = VariablesOf(modules) \cup Range(c)
    BY <1>1, <1>3, <1>6 DEF VariablesOf, PollTypeOK
  <1>8. PollTypeOK'
    BY <1>1, <1>2, <1>4, <1>5, <1>6, <1>7 DEF PollTypeOK
  <1>9. ActiveVariablesPolled'
    BY <1>1, <1>5, <1>6 DEF ActiveVariablesPolled, PollTypeOK
  <1>10. Belongs'
    BY <1>1, <1>2, <1>4, <1>6 DEF Belongs
  <1>11. Connections'
    BY <1>1, <1>5, <1>6, <1>7 DEF Connections, PollTypeOK
  <1> QED BY <1>5, <1>8, <1>9, <1>10, <1>11 DEF ScheduledOnce

LEMMA AliveKeeps ==
    ASSUME PollInv, NEW m \in Modules, Alive(m) PROVE PollInv'
  <1> USE DEF PollInv
  <1>1. /\ m \in modules /\ UNCHANGED <<modules, conf, activated>>
        /\ active' = [active EXCEPT ![m] = TRUE]
        /\ conf[m] \in Seq(Variables)
    BY DEF Alive, PollTypeOK
  <1>2. /\ active' \in [Modules -> BOOLEAN] /\ active'[m]
        /\ \A n \in Modules \ {m} : active'[n] <=> active[n]
        /\ VariablesOf(modules)' = VariablesOf(modules)
    BY <1>1 DEF PollTypeOK, VariablesOf
  <1>3. CASE active[m]
    <2>1. UNCHANGED schedVars
      BY <1>3 DEF Alive
    <2> QED BY <1>1, <1>2, <1>3, <2>1 DEF schedVars, PollTypeOK, ScheduledOnce,
               ActiveVariablesPolled, Belongs, Connections
  <1>4. CASE ~active[m]
    <2>1. m \notin schedModules
      BY <1>4 DEF Belongs
    <2>2. /\ scheduleList' = Enqueue(scheduleList, conf[m])
          /\ connected' = connected \cup NewlyConnected(scheduleList, conf[m])
          /\ schedModules' = schedModules \cup {m}
      BY <1>4, <2>1 DEF Alive, SchedAddModule, AddScheduled
    <2>3. /\ scheduleList' \in Seq(Variables)
          /\ Range(scheduleList') = Range(scheduleList) \cup (Range(conf[m]) \ ScriptVariables)
          /\ IsInjective(scheduleList')
          /\ connected' = connected
                            \cup (Range(conf[m]) \ (Range(scheduleList) \cup ScriptVariables))
      BY <1>1, <2>2, EnqueueIs DEF PollTypeOK, ScheduledOnce, Belongs
    <2>4. Range(conf[m]) \subseteq VariablesOf(modules) /\ Range(conf[m]) \subseteq Variables
      BY <1>1, InRange DEF VariablesOf
    <2>5. PollTypeOK'
      BY <1>1, <1>2, <2>2, <2>3, <2>4 DEF PollTypeOK
    <2>6. ActiveVariablesPolled'
      BY <1>1, <1>2, <2>3 DEF ActiveVariablesPolled, PollTypeOK
    <2>7. Belongs'
      BY <1>1, <1>2, <2>2 DEF Belongs
    <2>8. Connections'
      BY <1>1, <1>2, <2>3, <2>4 DEF Connections, PollTypeOK
    <2> QED BY <2>3, <2>5, <2>6, <2>7, <2>8 DEF ScheduledOnce
  <1> QED BY <1>3, <1>4

LEMMA SetActivatedKeeps ==
    ASSUME PollInv, NEW v \in Variables, NEW on \in BOOLEAN, SetActivated(v, on) PROVE PollInv'
  <1> USE DEF PollInv
  <1>1. /\ v \in VariablesOf(modules) /\ UNCHANGED <<modules, active, conf, schedModules>>
        /\ activated' = IF on THEN activated \cup {v} ELSE activated \ {v}
        /\ VariablesOf(modules)' = VariablesOf(modules)
    BY DEF SetActivated, SchedActivated, VariablesOf
  <1>2. CASE v \in connected /\ on
    <2>1. <<v>> \in Seq(Variables) /\ Range(<<v>>) = {v} /\ IsInjective(<<v>>)
      BY Singleton
    <2>2. /\ scheduleList' = Enqueue(scheduleList, <<v>>)
          /\ connected' = connected \cup NewlyConnected(scheduleList, <<v>>)
      BY <1>2 DEF SetActivated, SchedActivated, AddScheduled
    <2> DEFINE new == <<v>>
    <2> HIDE DEF new
    <2>3. new \in Seq(Variables) /\ Range(new) = {v} /\ IsInjective(new)
          /\ scheduleList' = Enqueue(scheduleList, new)
          /\ connected' = connected \cup NewlyConnected(scheduleList, new)
      BY <2>1, <2>2 DEF new
    <2>4. /\ scheduleList' \in Seq(Variables)
          /\ Range(scheduleList') = Range(scheduleList) \cup ({v} \ ScriptVariables)
          /\ IsInjective(scheduleList')
          /\ connected' = connected \cup ({v} \ (Range(scheduleList) \cup ScriptVariables))
      BY <2>3, EnqueueIs DEF PollTypeOK, ScheduledOnce
    <2>5. connected' = connected
      BY <1>2, <2>4
    <2>6. Range(scheduleList') = Range(scheduleList) \cup {v}
      BY <1>2, <2>4 DEF PollTypeOK
    <2>7. PollTypeOK'
      BY <1>1, <1>2, <2>4, <2>5 DEF PollTypeOK
    <2> QED BY <1>1, <1>2, <2>4, <2>5, <2>6, <2>7
            DEF ActiveVariablesPolled, Belongs, Connections, ScheduledOnce
  <1>3. CASE v \in connected /\ ~on
    <2>1. scheduleList' = Without(scheduleList, {v}) /\ UNCHANGED connected
      BY <1>3 DEF SetActivated, SchedActivated
    <2>2. /\ scheduleList' \in Seq(Variables)
          /\ Range(scheduleList') = Range(scheduleList) \ {v}
          /\ IsInjective(scheduleList')
      BY <2>1, WithoutIs DEF PollTypeOK, ScheduledOnce
    <2>3. PollTypeOK'
      BY <1>1, <1>3, <2>1, <2>2 DEF PollTypeOK
    <2> QED BY <1>1, <1>3, <2>1, <2>2, <2>3
            DEF ActiveVariablesPolled, Belongs, Connections, ScheduledOnce
  <1>4. CASE v \notin connected
    <2>1. UNCHANGED <<scheduleList, connected>>
      BY <1>4 DEF SetActivated, SchedActivated
    <2>2. PollTypeOK'
      BY <1>1, <2>1 DEF PollTypeOK
    <2> QED BY <1>1, <1>4, <2>1, <2>2
            DEF ActiveVariablesPolled, Belongs, Connections, ScheduledOnce
  <1> QED BY <1>2, <1>3, <1>4

LEMMA PollKeeps == ASSUME PollInv, Poll PROVE PollInv'
  <1> USE DEF PollInv
  <1> DEFINE v == Head(scheduleList)
             rest == Tail(scheduleList)
  <1>1. /\ UNCHANGED <<schedModules, connected, modules, active, conf, activated>>
        /\ scheduleList # <<>>
        /\ scheduleList' = IF v \in activated THEN Append(rest, v) ELSE rest
        /\ VariablesOf(modules)' = VariablesOf(modules)
    BY DEF Poll, NextRound, VariablesOf
  <1>2. /\ v \in Variables /\ rest \in Seq(Variables)
        /\ Range(scheduleList) = {v} \cup Range(rest)
        /\ IsInjective(rest) /\ v \notin Range(rest)
    BY <1>1, HeadAndTail DEF PollTypeOK, ScheduledOnce
  <1> HIDE DEF v, rest
  <1>3. /\ Append(rest, v) \in Seq(Variables) /\ IsInjective(Append(rest, v))
        /\ Range(Append(rest, v)) = {v} \cup Range(rest)
    BY <1>2, RangeAppend, InjectiveAppend, AppendProperties
  <1>4. /\ scheduleList' \in Seq(Variables) /\ IsInjective(scheduleList')
        /\ Range(scheduleList') \subseteq Range(scheduleList)
        /\ Range(scheduleList) \cap activated \subseteq Range(scheduleList')
    BY <1>1, <1>2, <1>3
  <1>5. PollTypeOK'
    BY <1>1, <1>4 DEF PollTypeOK
  <1> QED BY <1>1, <1>4, <1>5 DEF ActiveVariablesPolled, Belongs, Connections, ScheduledOnce

\* Variables of the others are not touched when those of m are.
LEMMA OthersUntouched ==
    ASSUME Belongs, NEW m \in Modules, NEW n \in Modules, m # n
    PROVE  Range(conf[m]) \cap Range(conf[n]) = {}
  BY Disjoint DEF Belongs

LEMMA LoadConfigurationKeeps ==
    ASSUME PollInv, NEW m \in Modules, LoadConfiguration(m) PROVE PollInv'
  <1> USE DEF PollInv
  <1>1. PICK c \in Configurations[m] \cup {<<>>} :
          /\ conf' = [conf EXCEPT ![m] = c]
          /\ activated' = (activated \ Range(conf[m])) \cup Range(c)
          /\ SchedReload(m, conf[m], c)
    BY DEF LoadConfiguration
  <1>2. /\ c \in Seq(Variables) /\ Range(c) \subseteq Owned(m) /\ Range(c) \subseteq Variables
        /\ IsInjective(c)
    <2>1. CASE c = <<>>
      BY <2>1, RangeEmpty DEF IsInjective
    <2>2. CASE c \in Configurations[m]
      BY <2>2, OfConfiguration
    <2> QED BY <2>1, <2>2
  <1>3. m \in modules /\ UNCHANGED <<modules, active, schedModules>>
    BY <1>1 DEF LoadConfiguration, SchedReload
  <1> DEFINE R == Range(conf[m])
             told == IF m \in schedModules THEN R ELSE R \cap connected
             list == Without(scheduleList, told)
  <1>4. /\ scheduleList' = IF m \in schedModules THEN Enqueue(list, c) ELSE list
        /\ connected' = (connected \ R)
                            \cup (IF m \in schedModules THEN NewlyConnected(list, c) ELSE {})
    BY <1>1 DEF SchedReload
  <1>5. /\ list \in Seq(Variables) /\ IsInjective(list)
        /\ Range(list) = Range(scheduleList) \ told
    BY WithoutIs DEF PollTypeOK, ScheduledOnce
  <1>6. Range(list) = Range(scheduleList) \ R
    BY <1>5 DEF Connections
  <1> HIDE DEF list, told, R
  <1>7. /\ scheduleList' \in Seq(Variables) /\ IsInjective(scheduleList')
        /\ Range(scheduleList') = (Range(scheduleList) \ R)
              \cup (IF m \in schedModules THEN Range(c) \ ScriptVariables ELSE {})
        /\ connected' = (connected \ R)
              \cup (IF m \in schedModules
                      THEN Range(c) \ ((Range(scheduleList) \ R) \cup ScriptVariables) ELSE {})
    BY <1>2, <1>4, <1>5, <1>6, EnqueueIs
  <1>8. /\ conf' \in [Modules -> Seq(Variables)] /\ conf'[m] = c
        /\ \A n \in Modules \ {m} : conf'[n] = conf[n]
    BY <1>1, <1>2 DEF PollTypeOK
  <1>9. \A n \in Modules \ {m} : Range(conf[n]) \cap R = {}
    BY OthersUntouched DEF R
  <1>10. VariablesOf(modules)' = (VariablesOf(modules) \ R) \cup Range(c)
    <2>1. \A v : v \in VariablesOf(modules) <=> \E n \in modules : v \in Range(conf[n])
      BY DEF VariablesOf
    <2>2. \A v : v \in VariablesOf(modules)' <=> \E n \in modules : v \in Range(conf'[n])
      BY <1>3 DEF VariablesOf
    <2>3. modules \subseteq Modules /\ Range(conf'[m]) = Range(c) /\ R = Range(conf[m])
      BY <1>8 DEF PollTypeOK, R
    <2>4. ASSUME NEW v
          PROVE  v \in VariablesOf(modules)' <=> v \in (VariablesOf(modules) \ R) \cup Range(c)
      BY <1>3, <1>8, <1>9, <2>1, <2>2, <2>3
    <2> QED BY <2>4
  <1>11. PollTypeOK'
    BY <1>1, <1>2, <1>3, <1>7, <1>8, <1>10 DEF PollTypeOK, R
  <1>12. ActiveVariablesPolled'
    <2>1. ASSUME NEW n \in modules, active[n]
          PROVE  (Range(conf'[n]) \cap activated') \ ScriptVariables \subseteq Range(scheduleList')
      <3>1. CASE n = m
        <4>1. m \in schedModules
          BY <2>1, <3>1 DEF Belongs, PollTypeOK
        <4> QED BY <1>7, <1>8, <3>1, <4>1
      <3>2. CASE n # m
        <4>1. n \in Modules /\ conf'[n] = conf[n] /\ Range(conf[n]) \cap R = {}
          BY <1>8, <1>9, <3>2 DEF PollTypeOK
        <4>2. ASSUME NEW v \in Range(conf[n]), v \in activated', v \notin ScriptVariables
              PROVE  v \in Range(scheduleList')
          <5>1. v \notin Range(c)
            BY <1>2, <4>1, Disjoint, <3>2 DEF Belongs
          <5>2. v \in activated
            BY <1>1, <4>2, <5>1
          <5> QED BY <1>7, <2>1, <4>1, <4>2, <5>2 DEF ActiveVariablesPolled
        <4> QED BY <4>1, <4>2
      <3> QED BY <3>1, <3>2
    <2> QED BY <1>3, <2>1 DEF ActiveVariablesPolled
  <1>13. Belongs'
    BY <1>2, <1>3, <1>8 DEF Belongs
  <1>14. Connections'
    <2>1. ASSUME NEW n \in modules, active[n]
          PROVE  Range(conf'[n]) \ ScriptVariables \subseteq connected'
      <3>1. CASE n = m
        <4>1. m \in schedModules
          BY <2>1, <3>1 DEF Belongs, PollTypeOK
        <4> QED BY <1>7, <1>8, <3>1, <4>1 DEF Connections
      <3>2. CASE n # m
        BY <1>7, <1>8, <1>9, <2>1, <3>2 DEF Connections, PollTypeOK
      <3> QED BY <3>1, <3>2
    <2> QED BY <1>3, <1>7, <1>10, <2>1 DEF Connections
  <1> QED BY <1>7, <1>11, <1>12, <1>13, <1>14 DEF ScheduledOnce

LEMMA AddVariableKeeps ==
    ASSUME PollInv, NEW m \in Modules, NEW v \in Variables, AddVariable(m, v) PROVE PollInv'
  <1> USE DEF PollInv
  <1>1. /\ m \in modules /\ UNCHANGED <<modules, active, schedModules>>
        /\ v \notin VariablesOf(modules) /\ v \in Owned(m)
        /\ conf' = [conf EXCEPT ![m] = Append(conf[m], v)]
        /\ activated' = activated \cup {v}
    BY DEF AddVariable, SchedReload, Owned
  <1> DEFINE R == Range(conf[m])
             list == Without(scheduleList, {})
             new == <<v>>
  <1>2. new \in Seq(Variables) /\ Range(new) = {v} /\ IsInjective(new)
    BY Singleton
  <1> HIDE DEF new
  <1>3. /\ scheduleList' = IF m \in schedModules THEN Enqueue(list, new) ELSE list
        /\ connected' = connected \cup (IF m \in schedModules THEN NewlyConnected(list, new) ELSE {})
    <2>1. SchedReload(m, <<>>, new)
      BY DEF AddVariable, new
    <2> QED BY <2>1, RangeEmpty DEF SchedReload
  <1>4. /\ list \in Seq(Variables) /\ IsInjective(list)
        /\ Range(list) = Range(scheduleList)
    BY WithoutIs DEF PollTypeOK, ScheduledOnce
  <1> HIDE DEF list, R
  <1>5. v \notin R /\ v \notin Range(scheduleList) /\ v \notin connected
    BY <1>1 DEF VariablesOf, Connections, R
  <1>6. /\ scheduleList' \in Seq(Variables) /\ IsInjective(scheduleList')
        /\ Range(scheduleList') = Range(scheduleList)
              \cup (IF m \in schedModules THEN {v} \ ScriptVariables ELSE {})
        /\ connected' = connected
              \cup (IF m \in schedModules THEN {v} \ ScriptVariables ELSE {})
    BY <1>2, <1>3, <1>4, <1>5, EnqueueIs
  <1>7. /\ Append(conf[m], v) \in Seq(Variables) /\ IsInjective(Append(conf[m], v))
        /\ Range(Append(conf[m], v)) = R \cup {v}
    <2>1. conf[m] \in Seq(Variables) /\ IsInjective(conf[m])
      BY <1>1 DEF PollTypeOK, Belongs
    <2> QED BY <2>1, <1>5, RangeAppend, InjectiveAppend, AppendProperties DEF R
  <1>8. /\ conf' \in [Modules -> Seq(Variables)] /\ Range(conf'[m]) = R \cup {v}
        /\ IsInjective(conf'[m])
        /\ \A n \in Modules \ {m} : conf'[n] = conf[n]
    BY <1>1, <1>7 DEF PollTypeOK
  <1>9. VariablesOf(modules)' = VariablesOf(modules) \cup {v}
    <2>1. \A x : x \in VariablesOf(modules) <=> \E n \in modules : x \in Range(conf[n])
      BY DEF VariablesOf
    <2>2. \A x : x \in VariablesOf(modules)' <=> \E n \in modules : x \in Range(conf'[n])
      BY <1>1 DEF VariablesOf
    <2>3. modules \subseteq Modules /\ R = Range(conf[m])
      BY DEF PollTypeOK, R
    <2>4. ASSUME NEW x
          PROVE  x \in VariablesOf(modules)' <=> x \in VariablesOf(modules) \cup {v}
      BY <1>1, <1>8, <2>1, <2>2, <2>3
    <2> QED BY <2>4
  <1>10. PollTypeOK'
    BY <1>1, <1>6, <1>8, <1>9 DEF PollTypeOK
  <1>11. ActiveVariablesPolled' /\ Connections'
    <2>1. ASSUME NEW n \in modules, active[n]
          PROVE  /\ (Range(conf'[n]) \cap activated') \ ScriptVariables \subseteq Range(scheduleList')
                 /\ Range(conf'[n]) \ ScriptVariables \subseteq connected'
      <3>1. n \in Modules /\ n \in schedModules /\ Range(conf[n]) \subseteq VariablesOf(modules)
            /\ (Range(conf[n]) \cap activated) \ ScriptVariables \subseteq Range(scheduleList)
            /\ Range(conf[n]) \ ScriptVariables \subseteq connected
        BY <2>1 DEF PollTypeOK, Belongs, VariablesOf, ActiveVariablesPolled, Connections
      <3>2. CASE n = m
        BY <1>1, <1>6, <1>8, <3>1, <3>2 DEF R
      <3>3. CASE n # m
        BY <1>1, <1>6, <1>8, <3>1, <3>3
      <3> QED BY <3>2, <3>3
    <2> QED BY <1>1, <1>6, <1>9, <2>1 DEF ActiveVariablesPolled, Connections
  <1>12. Belongs'
    BY <1>1, <1>8 DEF Belongs, R
  <1> QED BY <1>6, <1>10, <1>11, <1>12 DEF ScheduledOnce

LEMMA RemoveModuleKeeps ==
    ASSUME PollInv, NEW m \in Modules, RemoveModule(m) PROVE PollInv'
  <1> USE DEF PollInv
  <1> DEFINE R == Range(conf[m])
  <1>1. /\ m \in modules /\ modules' = modules \ {m}
        /\ conf' = [conf EXCEPT ![m] = <<>>]
        /\ active' = [active EXCEPT ![m] = FALSE]
        /\ activated' = activated \ R
        /\ scheduleList' = Without(scheduleList, R)
        /\ connected' = connected \ ((Range(scheduleList) \cap R) \cup R)
        /\ schedModules' = schedModules \ {m}
    BY DEF RemoveModule, SchedRemoveModules
  <1>2. /\ scheduleList' \in Seq(Variables) /\ IsInjective(scheduleList')
        /\ Range(scheduleList') = Range(scheduleList) \ R
    BY <1>1, WithoutIs DEF PollTypeOK, ScheduledOnce
  <1> HIDE DEF R
  <1>3. /\ conf' \in [Modules -> Seq(Variables)] /\ conf'[m] = <<>> /\ Range(conf'[m]) = {}
        /\ IsInjective(conf'[m])
        /\ \A n \in Modules \ {m} : conf'[n] = conf[n]
        /\ active' \in [Modules -> BOOLEAN] /\ ~active'[m]
        /\ \A n \in Modules \ {m} : active'[n] <=> active[n]
    BY <1>1, RangeEmpty DEF PollTypeOK, IsInjective
  <1>4. \A n \in Modules \ {m} : Range(conf[n]) \cap R = {}
    BY OthersUntouched DEF R
  <1>5. VariablesOf(modules)' = VariablesOf(modules) \ R
    <2>1. \A x : x \in VariablesOf(modules) <=> \E n \in modules : x \in Range(conf[n])
      BY DEF VariablesOf
    <2>2. \A x : x \in VariablesOf(modules)' <=> \E n \in modules \ {m} : x \in Range(conf'[n])
      BY <1>1 DEF VariablesOf
    <2>3. modules \subseteq Modules /\ R = Range(conf[m])
      BY DEF PollTypeOK, R
    <2>4. ASSUME NEW x
          PROVE  x \in VariablesOf(modules)' <=> x \in VariablesOf(modules) \ R
      BY <1>1, <1>3, <1>4, <2>1, <2>2, <2>3
    <2> QED BY <2>4
  <1>6. PollTypeOK'
    BY <1>1, <1>2, <1>3, <1>5 DEF PollTypeOK
  <1>7. ActiveVariablesPolled' /\ Connections'
    BY <1>1, <1>2, <1>3, <1>4, <1>5 DEF ActiveVariablesPolled, Connections, PollTypeOK
  <1>8. Belongs'
    BY <1>1, <1>3 DEF Belongs
  <1> QED BY <1>2, <1>6, <1>7, <1>8 DEF ScheduledOnce

LEMMA WatchdogKeeps == ASSUME PollInv, Watchdog PROVE PollInv'
  <1> USE DEF PollInv
  <1> DEFINE stale == {m \in modules : Stale(m)}
             R == VariablesOf(stale)
  <1>1. /\ UNCHANGED <<modules, conf, activated>>
        /\ active' = [m \in Modules |-> active[m] /\ m \notin stale]
        /\ scheduleList' = Without(scheduleList, R)
        /\ connected' = connected \ (Range(scheduleList) \cap R)
        /\ schedModules' = schedModules \ stale
    BY DEF Watchdog, SchedRemoveModules
  <1>2. /\ scheduleList' \in Seq(Variables) /\ IsInjective(scheduleList')
        /\ Range(scheduleList') = Range(scheduleList) \ R
    BY <1>1, WithoutIs DEF PollTypeOK, ScheduledOnce
  <1>3. stale \subseteq modules /\ modules \subseteq Modules
    BY DEF PollTypeOK
  <1>4. \A n \in modules \ stale : Range(conf[n]) \cap R = {}
    BY <1>3, OthersUntouched DEF VariablesOf
  <1> HIDE DEF stale, R
  <1>5. /\ active' \in [Modules -> BOOLEAN]
        /\ \A n \in Modules : active'[n] <=> active[n] /\ n \notin stale
        /\ VariablesOf(modules)' = VariablesOf(modules)
    BY <1>1 DEF VariablesOf, PollTypeOK
  <1>6. PollTypeOK'
    BY <1>1, <1>2, <1>5 DEF PollTypeOK
  <1>7. ActiveVariablesPolled' /\ Connections'
    BY <1>1, <1>2, <1>3, <1>4, <1>5 DEF ActiveVariablesPolled, Connections
  <1>8. Belongs'
    BY <1>1, <1>3, <1>5 DEF Belongs
  <1> QED BY <1>2, <1>6, <1>7, <1>8 DEF ScheduledOnce

LEMMA PollInvStep == PollInv /\ [Next]_vars => PollInv'
  <1> SUFFICES ASSUME PollInv, [Next]_vars PROVE PollInv'
    OBVIOUS
  <1>1. CASE Tick \/ UNCHANGED vars
    <2>1. UNCHANGED <<schedVars, modules, active, conf, activated>>
      BY <1>1 DEF Tick, vars
    <2> QED BY <2>1 DEF schedVars, PollInv, PollTypeOK, ScheduledOnce, ActiveVariablesPolled,
                        Belongs, Connections, VariablesOf
  <1> QED BY <1>1, NewModuleKeeps, AliveKeeps, LoadConfigurationKeeps, RemoveModuleKeeps,
             AddVariableKeeps, SetActivatedKeeps, PollKeeps, WatchdogKeeps DEF Next
-----------------------------------------------------------------------------
(* The watchdog.                                                           *)

TimeTypeOK ==
    /\ updateTime \in [Modules -> 0 .. DayLength - 1]
    /\ now \in 0 .. DayLength - 1
    /\ watchdogDue \in BOOLEAN
    /\ silence \in [Modules -> 0 .. SilenceCap]

\* Within a day the clock tells how long a module has been silent, and only modules
\* that have been silent too long are inactive.
Clock ==
    \A m \in modules :
        /\ updateTime[m] <= now
        /\ silence[m] = IF now - updateTime[m] < SilenceCap THEN now - updateTime[m]
                                                           ELSE SilenceCap
        /\ ~active[m] => Stale(m)

TimeInv == TimeTypeOK /\ (~CrossMidnight => Clock /\ SilenceDetected)

\* The time of day stays below the length of the day.
LEMMA NextSecond ==
    ASSUME now \in 0 .. DayLength - 1
    PROVE  /\ (now + 1) % DayLength \in 0 .. DayLength - 1
           /\ now + 1 < DayLength => (now + 1) % DayLength = now + 1
  <1>1. DayLength \in Nat /\ DayLength > 0 /\ now \in Nat
    BY ManagerAssumption
  <1> QED BY <1>1

LEMMA TimeInvInit == Init => TimeInv
  <1> SUFFICES ASSUME Init PROVE TimeInv
    OBVIOUS
  <1>1. 0 \in 0 .. DayLength - 1 /\ 0 \in 0 .. SilenceCap
    BY ManagerAssumption DEF SilenceCap
  <1>2. TimeTypeOK /\ modules = {}
    BY <1>1 DEF Init, TimeTypeOK
  <1> QED BY <1>2 DEF TimeInv, Clock, SilenceDetected

LEMMA TimeInvStep == PollInv /\ TimeInv /\ [Next]_vars => TimeInv'
  <1> SUFFICES ASSUME PollInv, TimeInv, [Next]_vars PROVE TimeInv'
    OBVIOUS
  <1> USE DEF TimeInv
  <1>0. SilenceLimit \in Nat /\ DayLength \in Nat \ {0} /\ SilenceCap = SilenceLimit + 2
        /\ modules \subseteq Modules /\ active \in [Modules -> BOOLEAN]
    BY ManagerAssumption DEF SilenceCap, PollInv, PollTypeOK
  <1>1. ASSUME NEW m \in Modules, NewModule(m) \/ Alive(m)
        PROVE  TimeInv'
    <2>1. /\ updateTime' = [updateTime EXCEPT ![m] = now]
          /\ silence' = [silence EXCEPT ![m] = 0]
          /\ UNCHANGED <<now, watchdogDue>>
          /\ modules' = modules \cup {m}
          /\ active' = [active EXCEPT ![m] = TRUE]
      BY <1>1 DEF NewModule, Alive, Heard
    <2>2. TimeTypeOK'
      BY <1>0, <2>1 DEF TimeTypeOK
    <2>3. ASSUME ~CrossMidnight
          PROVE  Clock' /\ SilenceDetected'
      BY <1>0, <2>1, <2>3 DEF TimeTypeOK, Clock, SilenceDetected, Stale
    <2> QED BY <2>2, <2>3
  <1>2. ASSUME NEW m \in Modules, RemoveModule(m)
        PROVE  TimeInv'
    <2>1. /\ updateTime' = [updateTime EXCEPT ![m] = 0]
          /\ silence' = [silence EXCEPT ![m] = 0]
          /\ UNCHANGED <<now, watchdogDue>>
          /\ modules' = modules \ {m}
          /\ active' = [active EXCEPT ![m] = FALSE]
      BY <1>2 DEF RemoveModule
    <2>2. TimeTypeOK'
      BY <1>0, <2>1 DEF TimeTypeOK
    <2>3. ASSUME ~CrossMidnight
          PROVE  Clock' /\ SilenceDetected'
      BY <1>0, <2>1, <2>3 DEF TimeTypeOK, Clock, SilenceDetected, Stale
    <2> QED BY <2>2, <2>3
  <1>3. CASE Watchdog
    <2>1. /\ UNCHANGED <<modules, updateTime, now, silence>>
          /\ active' = [m \in Modules |-> active[m] /\ m \notin {n \in modules : Stale(n)}]
          /\ watchdogDue' = FALSE
      BY <1>3 DEF Watchdog
    <2>2. TimeTypeOK'
      BY <2>1 DEF TimeTypeOK
    <2>3. \A m \in modules : active'[m] <=> active[m] /\ ~Stale(m)
      BY <1>0, <2>1
    <2>4. \A m \in modules : Stale(m)' <=> Stale(m)
      BY <2>1 DEF Stale
    <2>5. ASSUME ~CrossMidnight
          PROVE  Clock' /\ SilenceDetected'
      <3>1. Clock'
        BY <2>1, <2>3, <2>4, <2>5 DEF Clock
      <3>2. ASSUME NEW m \in modules, active'[m]
            PROVE  silence[m] <= SilenceLimit
        BY <1>0, <2>3, <2>5, <3>2 DEF Clock, Stale, TimeTypeOK
      <3> QED BY <2>1, <3>1, <3>2 DEF SilenceDetected
    <2> QED BY <2>2, <2>5
  <1>4. CASE Tick
    <2>1. /\ UNCHANGED <<modules, active, updateTime>>
          /\ now' = (now + 1) % DayLength
          /\ ~CrossMidnight => now + 1 < DayLength
          /\ watchdogDue' = TRUE
          /\ silence' = [m \in Modules |-> IF silence[m] < SilenceCap THEN silence[m] + 1
                                                                     ELSE SilenceCap]
      BY <1>4 DEF Tick
    <2>2. TimeTypeOK'
      <3>1. now' \in 0 .. DayLength - 1
        BY <2>1, NextSecond DEF TimeTypeOK
      <3> QED BY <1>0, <2>1, <3>1 DEF TimeTypeOK
    <2>3. ASSUME ~CrossMidnight
          PROVE  Clock' /\ SilenceDetected'
      <3>1. now' = now + 1 /\ now \in Nat
        BY <1>0, <2>1, <2>3, NextSecond DEF TimeTypeOK
      <3>2. ASSUME NEW m \in modules
            PROVE  /\ updateTime[m] <= now'
                   /\ silence'[m] = IF now' - updateTime[m] < SilenceCap THEN now' - updateTime[m]
                                                                        ELSE SilenceCap
                   /\ ~active[m] => now' - updateTime[m] > SilenceLimit
        <4>1. /\ m \in Modules /\ updateTime[m] \in Nat /\ silence[m] \in Nat
              /\ updateTime[m] <= now
              /\ silence[m] = IF now - updateTime[m] < SilenceCap THEN now - updateTime[m]
                                                                  ELSE SilenceCap
              /\ ~active[m] => now - updateTime[m] > SilenceLimit
          BY <1>0, <2>3 DEF TimeTypeOK, Clock, Stale
        <4>2. silence'[m] = IF silence[m] < SilenceCap THEN silence[m] + 1 ELSE SilenceCap
          BY <2>1, <4>1
        <4> QED BY <1>0, <3>1, <4>1, <4>2
      <3> QED BY <2>1, <3>2 DEF Clock, Stale, SilenceDetected
    <2> QED BY <2>2, <2>3
  <1>5. CASE \/ \E m \in Modules : LoadConfiguration(m)
             \/ \E m \in Modules, v \in Variables : AddVariable(m, v)
             \/ \E v \in Variables, on \in BOOLEAN : SetActivated(v, on)
             \/ Poll
             \/ UNCHANGED vars
    <2>1. UNCHANGED <<modules, active, updateTime, now, watchdogDue, silence>>
      BY <1>5 DEF LoadConfiguration, AddVariable, SetActivated, Poll, vars, timeVars
    <2> QED BY <2>1 DEF TimeTypeOK, Clock, SilenceDetected, Stale
  <1> QED BY <1>1, <1>2, <1>3, <1>4, <1>5 DEF Next
-----------------------------------------------------------------------------
(* The theorems.                                                           *)

\* The schedule list between events: no variable twice, none that has been deleted,
\* none of a module that answers missing (NetworkScheduler and the slots of
\* NETVInterfaceManager that change it).
THEOREM Scheduled == Spec => []ScheduleExact
  <1>1. PollInv /\ TimeInv => ScheduleExact
    <2> SUFFICES ASSUME PollInv, TimeInv PROVE ScheduleExact
      OBVIOUS
    <2>1. NoDangling
      BY DEF PollInv, Connections, NoDangling
    <2>2. TypeOK
      BY DEF PollInv, PollTypeOK, TimeInv, TimeTypeOK, TypeOK
    <2> QED BY <2>1, <2>2 DEF ScheduleExact, PollInv
  <1> QED BY <1>1, PollInvInit, PollInvStep, TimeInvInit, TimeInvStep, PTL DEF Spec

\* Within a day, no module that has been silent for more than the limit is active
\* once watchdogTimeout has run.
THEOREM Detected == ASSUME ~CrossMidnight PROVE Spec => []SilenceDetected
  <1>1. TimeInv => SilenceDetected
    BY DEF TimeInv
  <1> QED BY <1>1, PollInvInit, PollInvStep, TimeInvInit, TimeInvStep, PTL DEF Spec

\* Within a day, watchdogTimeout deactivates no module that has answered within the
\* limit, and leaves no variable of an inactive module in the list.
THEOREM Watched == ASSUME ~CrossMidnight PROVE Spec => WatchdogExact
  <1> DEFINE Alarm == \A m \in modules \cap modules' :
                         active[m] /\ ~active'[m] => silence[m] > SilenceLimit
             Clean == watchdogDue /\ ~watchdogDue' =>
                         \A m \in modules' : ~active'[m] =>
                             Range(conf'[m]) \cap Range(scheduleList') = {}
  <1>1. ASSUME PollInv, TimeInv, [Next]_vars
        PROVE  [Alarm]_vars /\ [Clean]_vars
    <2>0. /\ modules \subseteq Modules /\ active \in [Modules -> BOOLEAN]
          /\ scheduleList \in Seq(Variables)
          /\ SilenceLimit \in Nat
      BY <1>1, ManagerAssumption DEF PollInv, PollTypeOK
    <2>1. CASE Watchdog
      <3>1. /\ UNCHANGED <<modules, conf, silence>>
            /\ active' = [m \in Modules |-> active[m] /\ m \notin {n \in modules : Stale(n)}]
            /\ scheduleList' = Without(scheduleList, VariablesOf({n \in modules : Stale(n)}))
        BY <2>1 DEF Watchdog, SchedRemoveModules
      <3>2. \A m \in modules : active'[m] <=> active[m] /\ ~Stale(m)
        BY <2>0, <3>1
      <3>3. ASSUME NEW m \in modules, ~active'[m]
            PROVE  Stale(m)
        BY <1>1, <3>2, <3>3 DEF TimeInv, Clock
      <3>4. ASSUME NEW m \in modules, Stale(m)
            PROVE  silence[m] > SilenceLimit
        BY <1>1, <2>0, <3>4 DEF TimeInv, TimeTypeOK, Clock, Stale, SilenceCap
      <3>5. Range(scheduleList') \cap VariablesOf({n \in modules : Stale(n)}) = {}
        BY <2>0, <3>1, WithoutIs
      <3>6. Alarm
        BY <3>3, <3>4
      <3>7. Clean
        BY <3>1, <3>3, <3>5 DEF VariablesOf
      <3> QED BY <3>6, <3>7
    <2>2. CASE Next /\ ~Watchdog
      <3>1. ~(watchdogDue /\ ~watchdogDue')
        BY <2>2 DEF Next, NewModule, Alive, Heard, LoadConfiguration, RemoveModule, AddVariable,
                    SetActivated, Poll, Tick, timeVars
      <3>2. ASSUME NEW m \in modules \cap modules', active[m]
            PROVE  active'[m]
        BY <2>0, <2>2, <3>2 DEF Next, NewModule, Alive, LoadConfiguration, RemoveModule,
                    AddVariable, SetActivated, Poll, Tick
      <3> QED BY <3>1, <3>2
    <2> QED BY <1>1, <2>1, <2>2
  <1>2. [][Alarm]_vars /\ [][Clean]_vars => WatchdogExact
    BY DEF WatchdogExact, NoFalseAlarm, InactiveUnscheduled
  <1> HIDE DEF Alarm, Clean
  <1> QED BY <1>1, <1>2, PollInvInit, PollInvStep, TimeInvInit, TimeInvStep, PTL DEF Spec
=============================================================================
