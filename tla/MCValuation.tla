---------------------------- MODULE MCValuation -----------------------------
EXTENDS Valuation

\* One fault and a light, and more faults than are itemised.
SomeFaults == {[told |-> "listed", items |-> 1, lights |-> TRUE],
               [told |-> "listed", items |-> 7, lights |-> FALSE]}
=============================================================================
