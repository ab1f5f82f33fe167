----------------------------- MODULE MCSignals -----------------------------
EXTENDS Signals, TLC

CONSTANTS c1, c2, c3, w1, w2

SameLines == [e \in Endpoints |-> {"cts"}]
TwoSets == [e \in Endpoints |-> IF e = "f" THEN {"cts"} ELSE {"cts", "rts"}]
Home == [c \in Clients |-> IF c = c3 THEN "f" ELSE "e"]

\* Those of one endpoint are alike, and so are the watchers.
Alike == {f @@ g : f \in Permutations({c1, c2}), g \in Permutations(Watchers)}
=============================================================================
