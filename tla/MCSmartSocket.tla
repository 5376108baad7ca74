---------------------------- MODULE MCSmartSocket ----------------------------
EXTENDS SmartSocket

\* Every phase lasts one tick.
OneTick == [p \in Active |-> 1]

===============================================================================
