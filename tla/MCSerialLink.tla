---------------------------- MODULE MCSerialLink ----------------------------
(* Values for SerialLink: the program asks for the first byte of the board's *)
(* table, or sets it.                                                        *)
EXTENDS SerialLink

MCMessages == {<<Read, 0, 0>>, <<Write, 0, 1>>}
=============================================================================
