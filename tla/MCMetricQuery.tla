--------------------------- MODULE MCMetricQuery ---------------------------
\* A small instance of MetricQuery for TLC.
EXTENDS MetricQuery

\* Two series of one instance, one of another, one without an instance, one
\* whose instance is empty and one without labels.
MCSeries == {[instance |-> "a", labels |-> "instance=a,disk=1"],
             [instance |-> "a", labels |-> "instance=a,disk=2"],
             [instance |-> "b", labels |-> "instance=b"],
             [instance |-> NoLabel, labels |-> "job=x"],
             [instance |-> "", labels |-> "instance="],
             [instance |-> NoLabel, labels |-> ""]}
MCValues == {-1, 0, 1, 2}
=============================================================================
