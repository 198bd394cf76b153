--------------------------- MODULE MCDrillSystem ---------------------------
EXTENDS DrillSystem

\* Drills of an instance and of a group, with and without a mapping or a
\* target of their own, and one the validation refuses.
MCRequests ==
  {[kind |-> "instance", target |-> "auto", mapped |-> FALSE],
   [kind |-> "group", target |-> "auto", mapped |-> TRUE],
   [kind |-> "instance", target |-> Source, mapped |-> FALSE],
   [kind |-> "invalid", target |-> "auto", mapped |-> FALSE]}

\* A plain drill of an instance.
PlainRequest == {[kind |-> "instance", target |-> "auto", mapped |-> FALSE]}
=============================================================================
