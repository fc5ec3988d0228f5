---------------------------- MODULE Preferences ----------------------------
(***************************************************************************)
(* The preferences file: NetworkViewer keeps the list of its interfaces in *)
(* it, netvconsole opens the same interfaces.  Saving truncates the file    *)
(* and then writes it; the program may die in between, and netvconsole may *)
(* read it then.  Drivers are libraries, found when a program starts.      *)
(*                                                                         *)
(* An interface is <<device name, update period>>; its arguments go with   *)
(* the name.                                                               *)
(***************************************************************************)
EXTENDS Integers, Sequences, Selection

CONSTANTS
    Drivers,       \* names of devices
    Periods,
    MaxInterfaces, MaxChanges   \* bounds of the model

\* No device is named like what stands for no device, or for a file without a map.
PreferencesAssumption ==
    /\ {MaxInterfaces, MaxChanges} \subseteq Nat
    /\ {"", "broken", "absent"} \cap Drivers = {}

VARIABLES
    installed,  \* drivers whose library is found
    gui,        \* "down", "loading", "saving", "idle"
    next,       \* what follows the save in progress
    m_map,      \* the preferences in memory
    managers,   \* m_interfaceManagerList
    m_file,     \* the preferences file
    console,    \* interfaces netvconsole opened; Down when it does not run
    changes,    \* changes by the user so far                           (history)
    savedList,  \* the interfaces when the list was written last        (history)
    diedSaving  \* NetworkViewer died in a save, or started after that  (history)

vars == <<installed, gui, next, m_map, managers, m_file, console, changes, savedList, diedSaving>>

\* Keys: nb_interface (-1 when not there), name_i with args_i and updatePeriod_i,
\* and the device of the selector dialog.
NoEntry == <<"", 0>>
Down    == <<NoEntry>>
NoMap   == [nb |-> -1, entries |-> [i \in 1 .. MaxInterfaces |-> NoEntry], device |-> ""]
Broken  == [NoMap EXCEPT !.device = "broken"]
Absent  == [NoMap EXCEPT !.device = "absent"]

\* createDevice: NULL for a device that no library registered.
createDevice(name) == {d \in {name} : d \in installed}

\* Interfaces that can be opened, in order: of a list, and of a map (loadUserPrefs of
\* the view and of netvconsole).  An entry that is not there has no device.
Available(list) == Only(list, {e \in Drivers \X Periods : createDevice(e[1]) /= {}})
Interfaces(map) == Available(SubSeq(map.entries, 1, map.nb))

\* Mutation of saveUserPrefs: the number is not written when interfaces go.
saveUserPrefsGrowing(map, list) ==
    [map EXCEPT !.nb = IF Len(list) > @ THEN Len(list) ELSE @,
                !.entries = [i \in DOMAIN @ |-> IF i <= Len(list) THEN list[i] ELSE @[i]]]

\* NETVInterfaceManagerView::saveUserPrefs: keys beyond the number stay.
saveUserPrefs(map, list) ==
    [nb |-> Len(list),
     entries |-> [i \in 1 .. MaxInterfaces |-> IF i <= Len(list) THEN list[i] ELSE map.entries[i]],
     device |-> map.device]

\* UserPreferences::load: a file that is there empties the map, also when its
\* content is no good.
load(map) ==
    CASE m_file = Absent -> map
      [] m_file = Broken -> NoMap
      [] OTHER -> m_file

Loaded == m_file \notin {Absent, Broken}

Init ==
    /\ installed = Drivers
    /\ gui = "down" /\ next = "idle" /\ m_map = NoMap /\ managers = <<>>
    /\ m_file = Absent /\ console = Down
    /\ changes = 0 /\ savedList = <<>> /\ diedSaving = FALSE

-----------------------------------------------------------------------------
\* UserPreferences::save, its two steps: open truncates, the stream writes when
\* the file is closed.
Truncate(map, after) ==
    /\ m_map' = map /\ m_file' = Broken
    /\ gui' = "saving" /\ next' = after

Written ==
    /\ gui = "saving"
    /\ m_file' = m_map /\ gui' = next
    /\ UNCHANGED <<installed, next, m_map, managers, console, changes, savedList, diedSaving>>

\* NetworkViewerApp::loadPrefs: when there is nothing to load a file is made.
loadPrefs ==
    /\ gui = "down"
    /\ IF Loaded
       THEN /\ m_map' = load(NoMap) /\ gui' = "loading"
            /\ UNCHANGED <<m_file, next>>
       ELSE Truncate(load(NoMap), "loading")
    /\ managers' = <<>>
    /\ savedList' = IF diedSaving /\ ~Loaded THEN <<>> ELSE savedList
    /\ diedSaving' = (diedSaving /\ Loaded)
    /\ UNCHANGED <<installed, console, changes>>

\* NETVInterfaceManagerView::loadUserPrefs, when the view is made.
loadUserPrefs ==
    /\ gui = "loading"
    /\ m_map' = load(m_map)
    /\ managers' = Interfaces(m_map')
    /\ gui' = "idle"
    /\ UNCHANGED <<installed, next, m_file, console, changes, savedList, diedSaving>>

-----------------------------------------------------------------------------
(* The user changes the list; each attempt saves it.                       *)

Change(list) ==
    /\ gui = "idle" /\ changes < MaxChanges
    /\ changes' = changes + 1
    /\ managers' = list /\ savedList' = list
    /\ Truncate(saveUserPrefs(m_map, list), "idle")
    /\ UNCHANGED <<installed, console, diedSaving>>

\* addButtonClicked; without a device nothing is added.
addButtonClicked(name, period) ==
    /\ Len(managers) < MaxInterfaces
    /\ Change(IF createDevice(name) = {} THEN managers
              ELSE Append(managers, <<name, period>>))

\* removeButtonClicked; i = 0: no item is selected.
removeButtonClicked(i) ==
    Change(IF i = 0 THEN managers
           ELSE SubSeq(managers, 1, i - 1) \o SubSeq(managers, i + 1, Len(managers)))

\* itemDoubleClicked: another period.
itemDoubleClicked(i, period) == Change([managers EXCEPT ![i] = <<@[1], period>>])

\* DeviceSelectorDialog: another device is looked at; this saves the map as well.
comboActivated(name) ==
    /\ gui = "idle" /\ changes < MaxChanges /\ createDevice(name) /= {}
    /\ changes' = changes + 1
    /\ Truncate([m_map EXCEPT !.device = name], "idle")
    /\ UNCHANGED <<installed, managers, console, savedList, diedSaving>>

-----------------------------------------------------------------------------
\* The program ends, in a save or not.
Ends ==
    /\ gui /= "down"
    /\ gui' = "down" /\ m_map' = NoMap /\ managers' = <<>>
    /\ diedSaving' = (diedSaving \/ gui = "saving")
    /\ UNCHANGED <<installed, next, m_file, console, changes, savedList>>

\* netvconsole starts and opens the interfaces of the file, once.
ConsoleStarts ==
    /\ console = Down
    /\ console' = Interfaces(load(NoMap))
    /\ UNCHANGED <<installed, gui, next, m_map, managers, m_file, changes, savedList, diedSaving>>

\* Libraries come and go while no program runs (recursiveScan looks at the
\* start only).
Install(drivers) ==
    /\ gui = "down" /\ console = Down
    /\ installed' = drivers
    /\ UNCHANGED <<gui, next, m_map, managers, m_file, console, changes, savedList, diedSaving>>

ConsoleEnds ==
    /\ console /= Down /\ console' = Down
    /\ UNCHANGED <<installed, gui, next, m_map, managers, m_file, changes, savedList, diedSaving>>

Next ==
    \/ Written \/ loadPrefs \/ loadUserPrefs \/ Ends \/ ConsoleStarts \/ ConsoleEnds
    \/ \E name \in Drivers : comboActivated(name)
    \/ \E name \in Drivers, period \in Periods : addButtonClicked(name, period)
    \/ \E i \in 0 .. Len(managers) : removeButtonClicked(i)
    \/ \E i \in DOMAIN managers, period \in Periods : itemDoubleClicked(i, period)
    \/ \E drivers \in SUBSET Drivers : Install(drivers)

Spec == Init /\ [][Next]_vars

-----------------------------------------------------------------------------
\* A session begins with the interfaces that the list had when it was saved last
\* and whose driver is there, in order and with their periods, unless
\* NetworkViewer died in a save; then it begins with none.
SessionRestored ==
    [][loadUserPrefs => managers' = IF diedSaving THEN <<>> ELSE Available(savedList)]_vars

\* netvconsole opens what NetworkViewer saved last, or nothing at all: nothing
\* when it comes in the middle of a save, or after one that was cut short.
ConsoleAgrees ==
    [][console' /= Down /\ ConsoleStarts =>
          console' = IF gui = "saving" \/ diedSaving THEN <<>> ELSE Available(savedList)]_vars

\* What is kept of the interfaces does not depend on who reads it.
PreferencesKept == SessionRestored /\ ConsoleAgrees
=============================================================================
