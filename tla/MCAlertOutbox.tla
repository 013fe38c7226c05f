---------------------------- MODULE MCAlertOutbox ----------------------------
EXTENDS AlertOutbox

\* One rule fires twice, the second time as a critical alert.
MCScript == << [key |-> <<"rule">>, critical |-> FALSE, immediate |-> FALSE],
               [key |-> <<"rule">>, critical |-> TRUE,  immediate |-> FALSE] >>
=============================================================================
