---------------------------- MODULE OscGenerator ----------------------------
(***************************************************************************)
(* The C code that osc_generator writes for a configuration file:          *)
(* read_osc turns an OSC packet into a message that sets or asks for a     *)
(* variable, sprintf_osc a message of the module into an OSC packet.       *)
(*                                                                         *)
(* A packet is its path, its format ("i", or "" for a question) and the    *)
(* four bytes of its int32, high byte first.  The configuration and device *)
(* names of a path are left out: they are the same for all variables.      *)
(***************************************************************************)
EXTENDS Configuration

\* What osc_generator reads: it is linked with the legacy stack.
Generated(f) == LoadFrom(Untitled, f, TRUE, OwnTags.roots, OwnTags.tags).variables

Named(variables, path) == {i \in DOMAIN variables : variables[i].name = path}

\* write_variable_interface: the messages that read_osc may send.  All variables
\* are written to RAM at their offset, the first one with the name; for a path
\* that no variable has, a message with uninitialised fields is sent.
read_osc(variables, packet, anything) ==
    LET is == Named(variables, packet.path)
        v  == variables[CHOOSE i \in is : \A j \in is : i <= j]
        message == [remote |-> packet.format = "", cmd |-> v.offset,
                    data |-> IF packet.format = "" THEN <<>>
                             ELSE [k \in 1 .. Length(v.type) |-> packet.arg[5 - k]]]
    IN  IF is = {} THEN anything ELSE {message}

\* Mutation of SignByte: no sign is propagated.
SignByteZero(type, data) == 0

\* The bytes above those of the message.
SignByte(type, data) ==
    IF type \in {"sint8", "sint16"} /\ data[Length(type)] >= Byte \div 2 THEN Byte - 1 ELSE 0

\* read_variable_interface: the packet of a message, for the RAM variables; with
\* two at the same offset the code does not compile.
sprintf_osc(variables, message) ==
    {[path |-> variables[i].name, format |-> "i",
      arg  |-> [k \in 1 .. 4 |-> IF 5 - k <= Length(variables[i].type) THEN message.data[5 - k]
                                 ELSE SignByte(variables[i].type, message.data)]]
        : i \in {j \in DOMAIN variables :
                    variables[j].mem = "ram" /\ variables[j].offset = message.cmd}}

-----------------------------------------------------------------------------
\* The int32 of an OSC packet for a number.
Int32(n) == Reverse(ToBytes("uint32", <<n>>))

\* A number sent by OSC arrives in the module as the bytes of the variable's type,
\* and what the module answers comes back as the same number, with its sign: for
\* the RAM variables of every file with no name twice.
OscFaithful ==
    \A f \in Files :
        LET variables == Generated(f)
        IN  \A i \in DOMAIN variables :
                LET v == variables[i]
                IN  v.mem = "ram" /\ Named(variables, v.name) = {i} =>
                        \A n \in TypeRange(v.type) :
                            LET packet == [path |-> v.name, format |-> "i", arg |-> Int32(n)]
                                sent   == read_osc(variables, packet, {})
                            IN  /\ {m.data : m \in sent} = {ToBytes(v.type, <<n>>)}
                                /\ UNION {sprintf_osc(variables, m) : m \in sent} = {packet}
=============================================================================
