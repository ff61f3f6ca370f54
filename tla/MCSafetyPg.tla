----------------------------- MODULE MCSafetyPg -----------------------------
\* Instances of SafetyPg for TLC.
EXTENDS SafetyPg

CONSTANTS b1, b2, i1, i2, O1, o1, o2   \* O1 and o1 are one order in upper and lower case

MCTextOrder  == <<O1, o1, o2>>
MCUuidOf     == [o \in Orders |-> IF o = O1 THEN o1 ELSE o]
MCOrderCalls == {[o \in os |-> 1] : os \in {{O1}, {O1, o1}, {o1, o2}}}
MCReports    == {[id |-> i1, batches |-> <<b1, b2>>, orders |-> {}],
                 [id |-> i2, batches |-> <<b2, b1>>, orders |-> {o2}]}
OneBatch     == {[id |-> i1, batches |-> <<b1>>, orders |-> {}]}
NoOrders     == <<>>
=============================================================================
