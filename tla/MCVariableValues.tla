-------------------------- MODULE MCVariableValues --------------------------
EXTENDS VariableValues

\* A word, its high byte as a signed variable of its own, and a script variable.
TwoBytes ==
    [word |-> [type |-> "uint16", mem |-> "ram", offset |-> 0],
     high |-> [type |-> "sint8", mem |-> "ram", offset |-> 1]]

WordAndHigh == <<"word", "high">>

OneFile == {[word |-> <<2>>, high |-> Invalid]}
BeyondTypes == {-1}
SmallSlider == {0, 1}
=============================================================================
