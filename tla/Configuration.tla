--------------------------- MODULE Configuration ---------------------------
(***************************************************************************)
(* The configuration of a module - its identity and the table of its       *)
(* variables - and the XML files it is saved to and loaded from.  Two       *)
(* programs share the files: NetworkViewer (the legacy stack, where the    *)
(* user edits the table) and the netcore stack, whose classes              *)
(* NETVModuleConfiguration and NETVVariable do the same but write other    *)
(* tags.  A module that is found on the bus loads the one file made for    *)
(* its project, if there is just one.  A program may die while it saves.   *)
(*                                                                         *)
(* Numbers are as in VariableTypes: a byte has Byte values.  The text of a *)
(* value is the number in decimal, <<n>>, or nothing, <<>>.                *)
(***************************************************************************)
EXTENDS VariableTypes, FiniteSets

CONSTANTS
    Names,       \* names the user gives to variables
    Kind,        \* the type and memory of a variable with a name
    Projects, Devices, \* project and device ids of modules
    UserValues,  \* what the user enters
    Files,       \* the files of the directory of configurations
    OldFiles,    \* what is in them in the beginning
    MaxVariables, MaxEdits \* bounds of the model

ConfigurationAssumption ==
    /\ \A n \in Names : Kind[n].type \in Types /\ Kind[n].mem \in {"ram", "eeprom", "script"}
    /\ Projects \cup Devices \subseteq Nat /\ UserValues \subseteq Int
    /\ {MaxVariables, MaxEdits} \subseteq Nat

VARIABLES
    program,    \* "NetworkViewer" or "netcore"
    config,     \* its configuration, of no module when projectID is -1
    disk,       \* the content of the files
    found,      \* project and device of the module on the bus       (history)
    snapshot,   \* the table when a file was saved                   (history)
    loaded,     \* the file the table was loaded from, until an edit (history)
    edits       \* changes of tables so far                         (history)

vars == <<program, config, disk, found, snapshot, loaded, edits>>

NoFile == "none"

\* A value that is a QByteArray, for bytes that are not the digits of a number: it
\* converts to 0, and so does its text.
RawBytes == <<0, "bytes">>

-----------------------------------------------------------------------------
(* Variables.                                                              *)

\* The constructor.
NETVVariable(type, name, mem, offset) ==
    [type |-> type, name |-> name, mem |-> mem, offset |-> offset,
     value |-> Invalid, deviceID |-> -1]

\* The copy constructor, which copies everything.
Copied(variable) == variable

\* setValue(const QString &): text that is no number of the type counts as 0;
\* the one-byte types are read as two-byte numbers, and cut.
setValueText(type, n) ==
    LET read == CASE type = "sint8" -> "sint16"
                  [] type = "uint8" -> "uint16"
                  [] OTHER -> type
    IN  Wrapped(type, IF n \in TypeRange(read) THEN n ELSE 0)

\* loadXML; a file from before there was a memType has RAM variables.
loadXML(element) ==
    [NETVVariable(element.type, element.name,
                  IF element.memType = {} THEN "ram" ELSE CHOOSE mem \in element.memType : TRUE,
                  element.offset)
        EXCEPT !.value = IF element.text = <<>> THEN Invalid
                         ELSE <<setValueText(element.type, element.text[1])>>]

\* saveXML, with the tag of each stack.
saveXML(variable, tag) ==
    [tag |-> tag, type |-> variable.type, name |-> variable.name,
     memType |-> {variable.mem}, offset |-> variable.offset, text |-> variable.value]

ModuleVariable_saveXML(variable) == saveXML(variable, "ModuleVariable")
NETVVariable_saveXML(variable)   == saveXML(variable, "NETVVariable")

-----------------------------------------------------------------------------
(* Configurations.                                                         *)

\* The default constructor.  The name of the last file, which only the dialogs
\* of the view start from, is left out.
Untitled == [projectID |-> -1, deviceID |-> 0, variables |-> <<>>]

\* addVariable: the variable learns the device of its module.
addVariable(c, variable) ==
    [c EXCEPT !.variables = Append(@, [variable EXCEPT !.deviceID = c.deviceID])]

\* The copy constructor.
CopyOf(c) ==
    FoldLeft(LAMBDA copy, v : addVariable(copy, Copied(v)), [c EXCEPT !.variables = <<>>],
             c.variables)

\* A file that is not there, and one that is empty or cut short.
Absent == [root |-> "absent", projectID |-> -1, deviceID |-> 0, elements |-> <<>>]
Broken == [Absent EXCEPT !.root = "broken"]

\* saveConfiguration: the document of a configuration.
ModuleConfiguration_saveConfiguration(c) ==
    [root |-> "ModuleConfiguration", projectID |-> c.projectID, deviceID |-> c.deviceID,
     elements |-> [i \in DOMAIN c.variables |-> ModuleVariable_saveXML(c.variables[i])]]

NETVModuleConfiguration_saveConfiguration(c) ==
    [root |-> "NETVModuleConfiguration", projectID |-> c.projectID, deviceID |-> c.deviceID,
     elements |-> [i \in DOMAIN c.variables |-> NETVVariable_saveXML(c.variables[i])]]

Document(c) == IF program = "NetworkViewer" THEN ModuleConfiguration_saveConfiguration(c)
                                            ELSE NETVModuleConfiguration_saveConfiguration(c)

\* loadConfiguration, with the tags that it knows: the variables are removed
\* before the content of the file is looked at.
LoadFrom(c, f, variablesOnly, roots, tags) ==
    LET doc     == disk[f]
        emptied == [c EXCEPT !.variables = <<>>]
        named   == IF variablesOnly THEN emptied
                   ELSE [emptied EXCEPT !.projectID = doc.projectID, !.deviceID = doc.deviceID]
    IN  CASE doc.root = "absent" -> c
          [] doc.root \notin {"absent"} \cup roots -> emptied
          [] doc.root \in roots ->
                FoldLeft(LAMBDA acc, element : addVariable(acc, loadXML(element)), named,
                         SelectSeq(doc.elements, LAMBDA element : element.tag \in tags))

OwnTags == [roots |-> {"ModuleConfiguration"}, tags |-> {"ModuleVariable"}]
AllTags == [roots |-> {"ModuleConfiguration", "NETVModuleConfiguration"},
            tags  |-> {"ModuleVariable", "NETVVariable"}]

ModuleConfiguration_loadConfiguration(c, f, variablesOnly) ==
    LoadFrom(c, f, variablesOnly, OwnTags.roots, OwnTags.tags)

NETVModuleConfiguration_loadConfiguration(c, f, variablesOnly) ==
    LoadFrom(c, f, variablesOnly, AllTags.roots, AllTags.tags)

\* Mutation of loadConfiguration: the identity in the file is always taken.
loadConfigurationWhole(c, f, variablesOnly) ==
    IF program = "NetworkViewer" THEN ModuleConfiguration_loadConfiguration(c, f, FALSE)
                                 ELSE NETVModuleConfiguration_loadConfiguration(c, f, FALSE)

loadConfiguration(c, f, variablesOnly) ==
    IF program = "NetworkViewer" THEN ModuleConfiguration_loadConfiguration(c, f, variablesOnly)
                                 ELSE NETVModuleConfiguration_loadConfiguration(c, f, variablesOnly)

\* scanConfigurations: every file is loaded to see what project it is for.
scanConfigurations(project) ==
    {f \in Files : loadConfiguration(Untitled, f, FALSE).projectID = project}

\* The constructor for a module that was found.
ModuleConfiguration(project, device) ==
    LET c       == [Untitled EXCEPT !.projectID = project, !.deviceID = device]
        matches == scanConfigurations(project)
    IN  IF Cardinality(matches) = 1 THEN loadConfiguration(c, CHOOSE f \in matches : TRUE, TRUE)
                                    ELSE c

-----------------------------------------------------------------------------
(* The table of the view.                                                  *)

\* The columns of a row that come from the file (data, DisplayRole).
Row(variable) ==
    <<variable.name, variable.type, variable.mem, variable.offset>>

\* Mutation of SuggestedOffset: every variable counts for one byte.
SuggestedOffsetBytes(c) == Len(c.variables)

\* AddVariableDialog: the variables that are there fill the memory.
SuggestedOffset(c) == FoldLeft(LAMBDA n, v : n + Length(v.type), 0, c.variables)

\* setData, for the value (the activation is in InterfaceManager).
setData(c, i, n) == [c EXCEPT !.variables[i].value = <<n>>]

-----------------------------------------------------------------------------
Init ==
    /\ program \in {"NetworkViewer", "netcore"}
    /\ config = Untitled
    /\ disk = OldFiles
    /\ found = <<-1, 0>>
    /\ edits = 0
    /\ snapshot = [f \in Files |-> [i \in DOMAIN OldFiles[f].elements |->
                                       loadXML(OldFiles[f].elements[i])]]
    /\ loaded = NoFile

HasModule == config.projectID /= -1

\* A module is found on the bus; its configuration is copied into the module.
Found(project, device) ==
    /\ ~HasModule
    /\ config' = CopyOf(ModuleConfiguration(project, device))
    /\ found' = <<project, device>>
    /\ loaded' = IF Cardinality(scanConfigurations(project)) = 1
                 THEN CHOOSE f \in scanConfigurations(project) : TRUE ELSE NoFile
    /\ UNCHANGED <<program, disk, snapshot, edits>>

\* The program ends, and one of the two is started.
Restart ==
    /\ program' \in {"NetworkViewer", "netcore"}
    /\ config' = Untitled /\ found' = <<-1, 0>> /\ loaded' = NoFile
    /\ UNCHANGED <<disk, snapshot, edits>>

Changes == edits < MaxEdits /\ edits' = edits + 1

\* newVariableClicked, with the offset that the dialog suggests.
newVariableClicked(name) ==
    /\ HasModule /\ Len(config.variables) < MaxVariables
    /\ config' = addVariable(config, NETVVariable(Kind[name].type, name, Kind[name].mem,
                                                  SuggestedOffset(config)))
    /\ loaded' = NoFile
    /\ Changes /\ UNCHANGED <<program, disk, found, snapshot>>

\* The user edits a row.
Edit(i, n) ==
    /\ config' = setData(config, i, n)
    /\ loaded' = NoFile
    /\ Changes /\ UNCHANGED <<program, disk, found, snapshot>>

\* A message brings the value: NetworkViewer decodes it, setValue(const unsigned
\* char *, int) ...
ModuleVariable_setValue(variable, bytes) ==
    [variable EXCEPT !.value = FromBytes(variable.type, bytes)]

\* ... the manager of the netcore stack calls setValue(const QByteArray &), which
\* keeps the bytes as they are.
NETVVariable_setValue(variable, bytes) == [variable EXCEPT !.value = RawBytes]

setValue(variable, bytes) ==
    IF program = "NetworkViewer" THEN ModuleVariable_setValue(variable, bytes)
                                 ELSE NETVVariable_setValue(variable, bytes)

Received(i, bytes) ==
    /\ Len(bytes) = Length(config.variables[i].type)
    /\ config' = [config EXCEPT !.variables[i] = setValue(@, bytes)]
    /\ loaded' = NoFile
    /\ Changes /\ UNCHANGED <<program, disk, found, snapshot>>

\* The view's saveConfiguration ...
saveConfiguration(f) ==
    /\ HasModule
    /\ disk' = [disk EXCEPT ![f] = Document(config)]
    /\ snapshot' = [snapshot EXCEPT ![f] = config.variables]
    /\ loaded' = IF loaded = f THEN NoFile ELSE loaded
    /\ UNCHANGED <<program, config, found, edits>>

\* ... in which the program may die, when the file is truncated already.
DiesSaving(f) ==
    /\ HasModule
    /\ disk' = [disk EXCEPT ![f] = Broken]
    /\ config' = Untitled /\ found' = <<-1, 0>> /\ loaded' = NoFile
    /\ UNCHANGED <<program, snapshot, edits>>

\* The view's loadConfiguration: variables only, and every value is set again
\* by the user, so that it is written to the module.
Load(f) ==
    /\ HasModule
    /\ config' = loadConfiguration(config, f, TRUE)
    /\ loaded' = IF disk[f].root = "absent" THEN loaded ELSE f
    /\ UNCHANGED <<program, disk, found, snapshot, edits>>

Next ==
    \/ Restart
    \/ \E project \in Projects, device \in Devices : Found(project, device)
    \/ \E name \in Names : newVariableClicked(name)
    \/ \E i \in DOMAIN config.variables :
          \/ \E n \in UserValues : Edit(i, n)
          \/ \E bytes \in [1 .. Length(config.variables[i].type) -> 0 .. Byte - 1] : Received(i, bytes)
    \/ \E f \in Files : saveConfiguration(f) \/ DiesSaving(f) \/ Load(f)

Spec == Init /\ [][Next]_vars

-----------------------------------------------------------------------------
Readable(doc) == \/ doc.root = "ModuleConfiguration"
                 \/ program = "netcore" /\ doc.root = "NETVModuleConfiguration"

\* The numbers a file keeps: those of the type, and those of the one-byte types
\* that a two-byte type has.
Keeps(v) ==
    \/ v.value = Invalid
    \/ v.value[1] \in TypeRange(v.type)
    \/ v.type = "sint8" /\ v.value[1] \in TypeRange("sint16")
    \/ v.type = "uint8" /\ v.value[1] \in TypeRange("uint16")

\* A table that comes from a file is the one that was saved: the same rows, and
\* the same bytes for the module where the file can keep the number.  From a
\* file of the netcore stack NetworkViewer gets no variables at all, and nobody
\* gets any from one that is cut short.
TableAsSaved ==
    loaded /= NoFile =>
        LET now    == config.variables
            before == snapshot[loaded]
        IN  IF Readable(disk[loaded])
            THEN /\ Len(now) = Len(before)
                 /\ \A i \in DOMAIN now :
                       /\ Row(now[i]) = Row(before[i])
                       /\ Keeps(before[i]) =>
                             ToBytes(now[i].type, now[i].value)
                                 = ToBytes(before[i].type, before[i].value)
            ELSE now = <<>>

\* Files never change which module the configuration is of, and every variable
\* belongs to that module, wherever it came from.
IdentityKept ==
    /\ <<config.projectID, config.deviceID>> = found
    /\ \A i \in DOMAIN config.variables : config.variables[i].deviceID = found[2]

Bytes(variable) == variable.offset .. variable.offset + Length(variable.type) - 1

\* Variables added at the suggested offset share no byte, in files neither.
NoOverlap ==
    \A i, j \in DOMAIN config.variables :
        i /= j => Bytes(config.variables[i]) \cap Bytes(config.variables[j]) = {}

\* The table survives files: what a session saved, the next one finds, in a
\* memory where no two variables share a byte.
FilesFaithful == TableAsSaved /\ IdentityKept /\ NoOverlap

\* A message that brings a value brings the one the module would be sent back: what
\* "UPDATING VALUE" (NETVDriverManager.cpp:146) promises.
ValueAsReceived ==
    [][\A i \in DOMAIN config.variables :
          \A bytes \in [1 .. Length(config.variables[i].type) -> 0 .. Byte - 1] :
             Received(i, bytes) =>
                ToBytes(config.variables[i].type, config'.variables[i].value) = bytes]_vars
=============================================================================
