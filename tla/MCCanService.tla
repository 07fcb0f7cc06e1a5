--------------------------- MODULE MCCanService ---------------------------
\* Bit 0 is a standard bit, bit 1 an extended one, bit 2 neither.
EXTENDS CanService

StdFilter == [ide |-> FALSE, id |-> {0}, mask |-> {0}]
ExtFilter == [ide |-> TRUE, id |-> {1}, mask |-> {0, 1}]
Bad == {[ide |-> FALSE, id |-> {0}, mask |-> {1}], [ide |-> TRUE, id |-> {2}, mask |-> {}]}

Filters == {StdFilter, ExtFilter} \cup Bad
Frames  == {[ide |-> FALSE, id |-> {0}], [ide |-> FALSE, id |-> {}], [ide |-> TRUE, id |-> {1}]}
Sends   == [ide : {TRUE}, id : {{1}, {0, 2}}, hasData : BOOLEAN, len : {0, 9}]
=============================================================================
