--------------------------- MODULE VariableTypes ---------------------------
(***************************************************************************)
(* The integer types of ModuleVariable and their conversions from and to   *)
(* the bytes of a message, low byte first.  A byte has Byte values (256 in *)
(* the code, fewer in the runs).  A value is the QVariant m_value: <<x>>    *)
(* for an integer x, or Invalid (nothing set yet), which converts to 0.    *)
(***************************************************************************)
EXTENDS Integers, SequencesExt

CONSTANT Byte

ASSUME ByteAssumption == Byte \in Nat \ {0, 1}

Types == {"uint8", "sint8", "uint16", "sint16", "uint32", "sint32"}

Invalid == <<>>

Signed(type) == type \in {"sint8", "sint16", "sint32"}

\* getLength
Length(type) ==
    CASE type \in {"uint8", "sint8"}   -> 1
      [] type \in {"uint16", "sint16"} -> 2
      [] type \in {"uint32", "sint32"} -> 4

\* What a byte counts at each place, and what the bytes before it can hold.
Place[i \in 0 .. 4] == IF i = 0 THEN 1 ELSE Byte * Place[i - 1]

Modulus(type) == Place[Length(type)]

\* The values of a type.
TypeRange(type) == IF Signed(type) THEN -(Modulus(type) \div 2) .. (Modulus(type) - 1) \div 2
                                   ELSE 0 .. Modulus(type) - 1

\* QVariant::toInt
ToInt(value) == IF value = Invalid THEN 0 ELSE value[1]

\* Mutation of ToBytes: a value that does not fit is not cut to the type.
ToBytesUncut(type, value) ==
    [i \in 1 .. Length(type) |->
        IF i = Length(type) THEN ToInt(value) \div Place[i - 1]
                            ELSE (ToInt(value) \div Place[i - 1]) % Byte]

\* toByteArray: the low bytes of the value.
ToBytes(type, value) ==
    [i \in 1 .. Length(type) |-> (ToInt(value) \div Place[i - 1]) % Byte]

\* The unsigned number that the bytes make.
Number(bytes) ==
    LET upTo[i \in 0 .. Len(bytes)] ==
            IF i = 0 THEN 0 ELSE upTo[i - 1] + bytes[i] * Place[i - 1]
    IN  upTo[Len(bytes)]

\* Mutation of FromBytes: every type is read as an unsigned one.
FromBytesUnsigned(type, bytes) == <<Number(bytes)>>

\* setValue(const unsigned char *, ...): the bytes read as the type.
FromBytes(type, bytes) ==
    LET n == Number(bytes)
    IN  <<IF n \in TypeRange(type) THEN n ELSE n - Modulus(type)>>

\* Reference: the value of the type that is equal modulo its size.
Wrapped(type, x) ==
    CHOOSE y \in TypeRange(type) : (y - x) % Modulus(type) = 0
=============================================================================
