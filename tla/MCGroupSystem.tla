--------------------------- MODULE MCGroupSystem ---------------------------
EXTENDS GroupSystem

CONSTANTS a, b

\* Two levels, and one level with two instances.
TwoLevels == {<<<<a>>, <<b>>>>, <<<<a, b>>>>}

\* A failover and its cancel, or a part of that, and a drill.
GroupScripts == {<<"failover", "cancel">>, <<"drill">>}
=============================================================================
