------------------------------ MODULE Desktop ------------------------------
(***************************************************************************)
(* The main window and its plugins, all in the GUI thread: what happens to *)
(* the items, windows, curves, log rows, sliders and script objects of a   *)
(* module when it comes, falls silent, gets other variables or goes, and   *)
(* who deletes it.  Every view holds plain pointers to modules and          *)
(* variables; only signals tell it that one is destroyed.                  *)
(*                                                                         *)
(* A module is its address, which is used again after a delete; variable i *)
(* of the module at a is <<a, i>>.  Events that are posted are delivered   *)
(* before the user does anything else.                                     *)
(***************************************************************************)
EXTENDS Integers, Sequences, FiniteSets, Functions, Selection

CONSTANTS
    Managers,    \* NETVInterfaceManager objects
    Addresses,   \* of NetworkModule objects
    Devices,     \* device ids, those above 255 are of pseudo modules
    Slots,       \* indexes of variables
    MaxShown, MaxWindows, MaxLog
                 \* bounds: places of variables in views and times a variable is put into the
                 \* table, configuration windows, length of logs

DesktopAssumption == Devices \cup Slots \cup {MaxShown, MaxWindows, MaxLog} \subseteq Nat

VARIABLES
    m_interfaceManagerList,
    listed,     \* m_modules of each manager
    modules,    \* the modules that exist
    items,      \* m_modules of the view: is the cross of the module's item shown?
    engine,     \* "modules" of the script engine
    heard,      \* managers whose handler the console plugin observes
    windows,    \* modules with an open configuration window
    m_scopeView,\* the scope: is it there, its m_curves, those to be deleted
    posted,     \* addCurve events on their way
    table,      \* the table of the logger
    sliders,    \* variables with a slider
    seen        \* values a row received while logging since its log was
                \* empty; -1 for a variable that was added again   (history)

core == <<m_interfaceManagerList, listed, modules, items>>
plugins == <<engine, heard, windows, m_scopeView, posted, table, sliders, seen>>
vars == <<core, plugins>>

IsPseudo(device) == device > 255

\* A map with another value, and without some keys.
With(map, key, value) == [k \in DOMAIN map \cup {key} |-> IF k = key THEN value ELSE map[k]]
Without(map, gone) == Restrict(map, DOMAIN map \ gone)

Module(device, active, variables) ==
    [device |-> device, active |-> active, variables |-> variables]

VariablesOf(mods, these) == UNION {{a} \X mods[a].variables : a \in these}
Living == VariablesOf(modules, DOMAIN modules)

\* The places where variables are shown, which are bounded.
Shown == Len(m_scopeView.curves) + Len(posted) + Len(table.rows) + Cardinality(sliders)
Idle  == posted = <<>> /\ m_scopeView.dying = {}

-----------------------------------------------------------------------------
(* The scope: addCurve and removeCurve.                                    *)

NoScope == [open |-> FALSE, curves |-> <<>>, dying |-> {}]

addCurve(scope, variable) ==
    IF variable \in Range(scope.curves) THEN scope
    ELSE [scope EXCEPT !.curves = Append(@, variable)]

\* aboutToDestroy of the variable: the curve leaves the list at once.
removeCurve(scope, gone) ==
    [open |-> scope.open, curves |-> Only(scope.curves, Range(scope.curves) \ gone),
     dying |-> scope.dying \ gone]

(* The table of the logger: which row a variable has, what the rows show,  *)
(* how long its log is and how often it is connected.                      *)

EmptyMap == [v \in {} |-> 0]

Table(rows, m_variableMap, m_logValues, wired, m_logEnabled) ==
    [rows |-> rows, m_variableMap |-> m_variableMap, m_logValues |-> m_logValues,
     wired |-> wired, m_logEnabled |-> m_logEnabled]

addVariable(t, v) ==
    IF v \in DOMAIN t.m_variableMap THEN t
    ELSE Table(Append(t.rows, v), With(t.m_variableMap, v, Len(t.rows) + 1),
               With(t.m_logValues, v, 0),
               With(t.wired, v, 1 + IF v \in DOMAIN t.wired THEN t.wired[v] ELSE 0),
               t.m_logEnabled)

RowsWithout(rows, index) == SubSeq(rows, 1, index - 1) \o SubSeq(rows, index + 1, Len(rows))

\* The row goes.  (The code keeps its log for the file that is saved; it is left
\* out here, because addVariable replaces it by an empty one.)
removeVariable(t, v) ==
    IF v \notin DOMAIN t.m_variableMap THEN t
    ELSE LET index == t.m_variableMap[v]
         IN  Table(RowsWithout(t.rows, index),
                   [w \in DOMAIN t.m_variableMap \ {v} |->
                       IF t.m_variableMap[w] > index THEN t.m_variableMap[w] - 1
                                                     ELSE t.m_variableMap[w]],
                   Without(t.m_logValues, {v}), t.wired, t.m_logEnabled)

\* aboutToDestroy of one variable after the other: rows go (here in their order),
\* and the connections with the variables.
variableDestroyed(t, gone) ==
    LET left[n \in 0 .. Len(t.rows)] ==
            IF n = 0 THEN t
            ELSE IF t.rows[n] \in gone THEN removeVariable(left[n - 1], t.rows[n])
                                       ELSE left[n - 1]
        last == left[Len(t.rows)]
    IN  Table(last.rows, last.m_variableMap, last.m_logValues, Without(last.wired, gone),
              last.m_logEnabled)

\* valueChanged, once for each connection.
variableValueChanged(t, v) ==
    IF v \in DOMAIN t.m_variableMap /\ t.m_logEnabled
    THEN [t EXCEPT !.m_logValues = With(@, v, t.m_logValues[v] + t.wired[v])]
    ELSE t

-----------------------------------------------------------------------------
\* Variables are deleted: each says aboutToDestroy.
VariablesGone(gone) ==
    /\ m_scopeView' = removeCurve(m_scopeView, gone)
    /\ table' = variableDestroyed(table, gone)
    /\ sliders' = sliders \ gone
    /\ seen' = Without(seen, gone)

\* Modules are deleted, with their configurations; their windows close.
Deleted(gone) ==
    /\ modules' = Without(modules, gone)
    /\ windows' = windows \ gone
    /\ VariablesGone(VariablesOf(modules, gone))

\* moduleAdded and moduleRemoved of the view: the script engine looks at its
\* modules again.
updateEngineVariables == engine' = DOMAIN items'

Init ==
    /\ m_interfaceManagerList = {} /\ listed = [mgr \in Managers |-> {}]
    /\ modules = EmptyMap /\ items = EmptyMap /\ engine = {}
    /\ heard = {} /\ windows = {} /\ sliders = {}
    /\ m_scopeView = [NoScope EXCEPT !.open = TRUE] /\ posted = <<>>
    /\ table = Table(<<>>, EmptyMap, EmptyMap, EmptyMap, FALSE)
    /\ seen = EmptyMap

-----------------------------------------------------------------------------
(* Interfaces.                                                             *)

addNETVInterfaceManager(mgr) ==
    /\ Idle /\ mgr \notin m_interfaceManagerList
    /\ m_interfaceManagerList' = m_interfaceManagerList \cup {mgr}
    /\ heard' = heard \cup {mgr}
    /\ UNCHANGED <<listed, modules, items, engine, windows, m_scopeView, posted, table, sliders,
                   seen>>

\* Its destructor removes its modules, one after the other; for each the view
\* deletes the item and tells the plugins before the module is deleted.
removeNETVInterfaceManager(mgr) ==
    /\ Idle /\ mgr \in m_interfaceManagerList
    /\ m_interfaceManagerList' = m_interfaceManagerList \ {mgr}
    /\ heard' = heard \ {mgr}
    /\ listed' = [listed EXCEPT ![mgr] = {}]
    /\ items' = Without(items, listed[mgr])
    /\ Deleted(listed[mgr])
    /\ updateEngineVariables
    /\ UNCHANGED posted

(* Modules.                                                                *)

New(a, device, active, variables) ==
    /\ a \notin DOMAIN modules
    /\ modules' = With(modules, a, Module(device, active, variables))
    /\ items' = With(items, a, ~active)
    /\ updateEngineVariables
    /\ UNCHANGED <<m_interfaceManagerList, heard, windows, m_scopeView, posted, table, sliders,
                   seen>>

\* NETVInterfaceManager::addModule, for a device that the manager has no module of.
addModule(mgr, a, device, variables) ==
    /\ mgr \in m_interfaceManagerList /\ ~IsPseudo(device)
    /\ \A b \in listed[mgr] : modules[b].device /= device
    /\ listed' = [listed EXCEPT ![mgr] = @ \cup {a}]
    /\ New(a, device, TRUE, variables)

HasDevice(device) == \E b \in DOMAIN items : modules[b].device = device

\* createPseudoModule of a script.
createPseudoModule(a, device) ==
    /\ IsPseudo(device) /\ ~HasDevice(device)
    /\ New(a, device, FALSE, {})
    /\ UNCHANGED listed

\* The watchdog, or an answer of a silent module, and moduleActive of the view.
moduleActive(a, active) ==
    /\ modules' = [modules EXCEPT ![a] = Module(@.device, active, @.variables)]
    /\ items' = [items EXCEPT ![a] = ~active]
    /\ UNCHANGED <<m_interfaceManagerList, listed, plugins>>

\* Mutation of removeModule: the item goes last, after moduleRemoved.
removeModuleItemLast(a) ==
    /\ Idle /\ items[a]
    /\ items' = Without(items, {a})
    /\ listed' = [mgr \in Managers |-> listed[mgr] \ {a}]
    /\ engine' = DOMAIN items
    /\ Deleted({a})
    /\ UNCHANGED <<m_interfaceManagerList, heard, posted>>

\* The cross of an item: the item goes, the plugins are told, then every manager
\* is asked to delete the module; the view deletes a pseudo module itself.
removeModule(a) ==
    /\ Idle /\ items[a]
    /\ items' = Without(items, {a})
    /\ listed' = [mgr \in Managers |->
                     IF mgr \in m_interfaceManagerList /\ ~IsPseudo(modules[a].device)
                     THEN listed[mgr] \ {a} ELSE listed[mgr]]
    /\ Deleted({a})
    /\ updateEngineVariables
    /\ UNCHANGED <<m_interfaceManagerList, heard, posted>>

(* Variables.                                                              *)

\* createScriptVariable, and a new variable by the configuration window.
AddVariable(a, i) ==
    /\ Idle /\ i \notin modules[a].variables
    /\ modules' = [modules EXCEPT ![a] = Module(@.device, @.active, @.variables \cup {i})]
    /\ UNCHANGED <<m_interfaceManagerList, listed, items, heard, windows, m_scopeView, posted,
                   table, sliders, seen>>

createScriptVariable(a, i) == AddVariable(a, i) /\ updateEngineVariables
newVariableClicked(a, i)   == a \in windows /\ AddVariable(a, i) /\ UNCHANGED engine

\* loadConfiguration by the window: all variables go and those of a file come.
loadConfiguration(a, variables) ==
    /\ Idle /\ a \in windows
    /\ modules' = [modules EXCEPT ![a] = Module(@.device, @.active, variables)]
    /\ VariablesGone(VariablesOf(modules, {a}))
    /\ UNCHANGED <<m_interfaceManagerList, listed, items, engine, heard, windows, posted>>

\* A variable has a new value.
ValueChanged(v) ==
    /\ v \in DOMAIN table.m_variableMap => table.m_logValues[v] < MaxLog
    /\ table' = variableValueChanged(table, v)
    /\ seen' = IF v \in DOMAIN table.m_variableMap /\ table.m_logEnabled /\ seen[v] >= 0
               THEN With(seen, v, seen[v] + 1) ELSE seen
    /\ UNCHANGED <<core, engine, heard, windows, m_scopeView, posted, sliders>>

-----------------------------------------------------------------------------
(* What the user opens and closes.                                         *)

moduleDoubleClicked(a) ==
    /\ Idle /\ Cardinality(windows) < MaxWindows /\ windows' = windows \cup {a}
    /\ UNCHANGED <<core, engine, heard, m_scopeView, posted, table, sliders, seen>>

CloseWindow(a) ==
    /\ Idle /\ windows' = windows \ {a}
    /\ UNCHANGED <<core, engine, heard, m_scopeView, posted, table, sliders, seen>>

\* A variable can be pointed at in a window, in the logger and by a script.
Pointed == VariablesOf(modules, windows) \cup Range(table.rows)
              \cup VariablesOf(modules, DOMAIN items)

\* scopeRequest: the scope is made if it is not there; a script posts several.
scopeRequest(v) ==
    /\ Shown < MaxShown /\ m_scopeView.dying = {}
    /\ m_scopeView' = [m_scopeView EXCEPT !.open = TRUE]
    /\ posted' = Append(posted, v)
    /\ UNCHANGED <<core, engine, heard, windows, table, sliders, seen>>

\* ScopeView::event
Deliver ==
    /\ posted /= <<>>
    /\ posted' = Tail(posted)
    /\ m_scopeView' = addCurve(m_scopeView, Head(posted))
    /\ UNCHANGED <<core, engine, heard, windows, table, sliders, seen>>

\* removeVariableClicked: the curve is deleted later and leaves the list then.
removeVariableClicked(v) ==
    /\ Idle /\ m_scopeView' = [m_scopeView EXCEPT !.dying = {v}]
    /\ UNCHANGED <<core, engine, heard, windows, posted, table, sliders, seen>>

destroyCurve(v) ==
    /\ m_scopeView' = removeCurve(m_scopeView, {v})
    /\ UNCHANGED <<core, engine, heard, windows, posted, table, sliders, seen>>

\* The window of the scope is closed.
scopeDestroyed ==
    /\ Idle /\ m_scopeView.open /\ m_scopeView' = NoScope
    /\ UNCHANGED <<core, engine, heard, windows, posted, table, sliders, seen>>

\* dropEvent of the table; the log starts empty.
dropEvent(v) ==
    /\ Idle /\ Shown < MaxShown /\ (v \in DOMAIN table.wired => table.wired[v] < MaxShown)
    /\ table' = addVariable(table, v)
    /\ seen' = IF v \in DOMAIN table.m_variableMap THEN seen
               ELSE With(seen, v, IF v \in DOMAIN table.wired THEN -1 ELSE 0)
    /\ UNCHANGED <<core, engine, heard, windows, m_scopeView, posted, sliders>>

\* The delete key.
keyPressEvent(v) ==
    /\ Idle /\ table' = removeVariable(table, v)
    /\ seen' = Without(seen, {v})
    /\ UNCHANGED <<core, engine, heard, windows, m_scopeView, posted, sliders>>

setLogging(state) ==
    /\ Idle /\ table' = [table EXCEPT !.m_logEnabled = state]
    /\ UNCHANGED <<core, engine, heard, windows, m_scopeView, posted, sliders, seen>>

clearLogs ==
    /\ Idle /\ table' = [table EXCEPT !.m_logValues = [v \in DOMAIN @ |-> 0]]
    /\ seen' = [v \in DOMAIN seen |-> IF seen[v] = -1 THEN -1 ELSE 0]
    /\ UNCHANGED <<core, engine, heard, windows, m_scopeView, posted, sliders>>

addSliderControl(v) ==
    /\ Shown < MaxShown /\ sliders' = sliders \cup {v}
    /\ UNCHANGED <<core, engine, heard, windows, m_scopeView, posted, table, seen>>

CloseSlider(v) ==
    /\ Idle /\ sliders' = sliders \ {v}
    /\ UNCHANGED <<core, engine, heard, windows, m_scopeView, posted, table, seen>>

Next ==
    \/ \E mgr \in Managers : addNETVInterfaceManager(mgr) \/ removeNETVInterfaceManager(mgr)
    \/ \E mgr \in Managers, a \in Addresses, device \in Devices, variables \in SUBSET Slots :
          addModule(mgr, a, device, variables)
    \/ \E a \in Addresses, device \in Devices : createPseudoModule(a, device)
    \/ \E mgr \in Managers : \E a \in listed[mgr] : moduleActive(a, ~modules[a].active)
    \/ \E a \in DOMAIN items :
          \/ removeModule(a) \/ moduleDoubleClicked(a)
          \/ \E i \in Slots : createScriptVariable(a, i)
    \/ \E a \in windows :
          \/ CloseWindow(a)
          \/ \E i \in Slots : newVariableClicked(a, i)
          \/ \E variables \in SUBSET Slots : loadConfiguration(a, variables)
    \/ \E v \in Living : ValueChanged(v)
    \/ \E v \in Pointed : scopeRequest(v) \/ dropEvent(v) \/ addSliderControl(v)
    \/ Deliver
    \/ \E v \in Range(m_scopeView.curves) : removeVariableClicked(v)
    \/ \E v \in m_scopeView.dying : destroyCurve(v)
    \/ scopeDestroyed
    \/ \E v \in Range(table.rows) : keyPressEvent(v)
    \/ \E state \in BOOLEAN : setLogging(state)
    \/ clearLogs
    \/ \E v \in sliders : CloseSlider(v)

Spec == Init /\ [][Next]_vars

-----------------------------------------------------------------------------
\* Whoever removes a module - the user at its cross, the destructor of its
\* interface, a script's pseudo module at its cross - it leaves the manager, the
\* view and the script engine together, is deleted once and nothing refers to it
\* any more: a module exists if and only if it has an item and an engine object,
\* and is in just one manager, or in none when it is a pseudo module.
ModulesAgree ==
    /\ DOMAIN items = DOMAIN modules
    /\ engine = DOMAIN modules
    /\ UNION {listed[mgr] : mgr \in m_interfaceManagerList}
          = {a \in DOMAIN modules : ~IsPseudo(modules[a].device)}
    /\ \A mgr1, mgr2 \in Managers : mgr1 /= mgr2 => listed[mgr1] \cap listed[mgr2] = {}
    /\ heard = m_interfaceManagerList

\* The cross is there to remove a module when, and only when, the module does not
\* answer: one that is polled is not removed by the user.
CrossWhenSilent == \A a \in DOMAIN items : items[a] = ~modules[a].active

\* No view shows a variable or a module that was deleted: the scope's curves,
\* the events on their way to it, the logger's rows and the sliders all go, or
\* never come, with the variable.
ViewsAlive ==
    /\ Range(m_scopeView.curves) \cup Range(posted) \cup Range(table.rows) \cup sliders \subseteq Living
    /\ windows \subseteq DOMAIN modules

\* The map of the logger leads every variable to the row that shows it, whatever
\* rows were removed before, and the log of a variable that was put into the table
\* once has every value once.
LoggerExact ==
    /\ DOMAIN table.m_variableMap = Range(table.rows)
    /\ \A v \in DOMAIN table.m_variableMap :
          /\ table.m_variableMap[v] \in DOMAIN table.rows /\ table.rows[table.m_variableMap[v]] = v
          /\ seen[v] >= 0 => table.m_logValues[v] = seen[v]
=============================================================================
