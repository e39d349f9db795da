----------------------------- MODULE MetricQuery -----------------------------
(***************************************************************************)
(* One inspection item on a metric store: the Execute of the Prometheus    *)
(* executor (biz/executor/prometheus.go) and of the VictoriaMetrics one    *)
(* (biz/executor/vm.go), from the query to the verdict.  The two are       *)
(* copies of each other that differ in what they read of an answer.        *)
(*                                                                         *)
(* The store is external: a query fails or is answered by any answer the   *)
(* HTTP API can give, in which no two series have the same labels.  An     *)
(* answer's numbers are integers, which keep what float64 comparisons      *)
(* tell apart, and NaN.                                                    *)
(***************************************************************************)
EXTENDS Integers, Sequences

CONSTANTS
    Series,         \* label sets: the instance label and all labels, joined
    NoLabel,        \* the instance label of a series without one
    Values,         \* numbers that samples and thresholds take
    NaN,            \* the number that compares with nothing
    Text,           \* any text that is not a number
    None,           \* no threshold: absent, not a string or not a number
    MaxSamples,     \* bound: samples of a vector
    MaxStreams,     \* bound: series of a matrix
    MaxPoints       \* bound: points of a series

ASSUME MetricConstants ==
    /\ Series \subseteq [instance : STRING \cup {NoLabel}, labels : STRING]
    /\ NoLabel \notin STRING
    /\ Values \subseteq Int
    /\ NaN \notin Int /\ Text \notin Int /\ None \notin Int
    /\ MaxSamples \in Nat /\ MaxStreams \in Nat /\ MaxPoints \in Nat

VARIABLES
    executor,           \* which of the two executors runs
    threshold,          \* Params["threshold"] as it parses
    pc,                 \* control state of Execute
    answer,             \* queryResult
    value,              \* the single value that parsing returns
    values,             \* allValues: instance to value
    left,               \* instances the range over allValues has yet to visit
    exceedingNodes, highestValue, highestInstance,
    status, message     \* of the result

vars == <<executor, threshold, pc, answer, value, values, left, exceedingNodes,
          highestValue, highestInstance, status, message>>
request == <<executor, threshold>>
scan == <<exceedingNodes, highestValue, highestInstance>>

Executors == {"prometheus", "victoriaMetrics"}
Numbers == Values \cup {NaN}

\* Sequences of at most n streams, each with its own labels and one of the
\* given sequences of points.
Streams(n, points) ==
    {s \in UNION {[1..k -> [metric : Series, points : points]] : k \in 0..n} :
        \A i, j \in DOMAIN s : i # j => s[i].metric # s[j].metric}

\* The answers of the stores; "other" is any type the code does not know.
Answers ==
    [type : {"vector"}, streams : Streams(MaxSamples, [1..1 -> Numbers])]
    \cup
    [type : {"matrix"},
     streams : Streams(MaxStreams, UNION {[1..k -> Numbers] : k \in 0..MaxPoints})]
    \cup
    [type : {"scalar", "string"}, single : Numbers \cup {Text}]
    \cup
    [type : {"other"}]

\* The name a sample gets from executor e: its instance, else all its labels,
\* else a word.  An instance label that is there and empty is a name for
\* VictoriaMetrics and none for Prometheus.
Instance(e, metric) ==
    IF \/ metric.instance = NoLabel
       \/ metric.instance = "" /\ e = "prometheus"
    THEN IF metric.labels # "" THEN metric.labels ELSE "unknown"
    ELSE metric.instance

Names == {Instance(e, m) : e \in Executors, m \in Series}

\* The comparison of the parsed value with the parsed threshold.
Exceeds(v, t) == v \in Int /\ t \in Int /\ v > t

Init ==
    /\ executor \in Executors
    /\ threshold \in Numbers \cup {None}
    /\ pc = "query"
    /\ answer = [type |-> "other"]
    /\ value = Text
    /\ values = [k \in {} |-> NaN]
    /\ left = {}
    /\ exceedingNodes = {} /\ highestValue = 0 /\ highestInstance = ""
    /\ status = "normal" /\ message = ""

-----------------------------------------------------------------------------
\* (A mutated form: the first sample of an instance stays.)
Collect_First(e, streams) ==
    [k \in {Instance(e, streams[i].metric) : i \in DOMAIN streams} |->
        LET first == CHOOSE i \in DOMAIN streams :
                        /\ Instance(e, streams[i].metric) = k
                        /\ \A j \in DOMAIN streams :
                               Instance(e, streams[j].metric) = k => i <= j
        IN  streams[first].points[1]]

\* allValues of a vector: assigning in order, the last sample of a name stays.
Collect(e, streams) ==
    [k \in {Instance(e, streams[i].metric) : i \in DOMAIN streams} |->
        LET last == CHOOSE i \in DOMAIN streams :
                        /\ Instance(e, streams[i].metric) = k
                        /\ \A j \in DOMAIN streams :
                               Instance(e, streams[j].metric) = k => j <= i
        IN  streams[last].points[1]]

\* The single value of an answer, kept "for backward compatibility": without
\* data it is "0" for Prometheus and no number for VictoriaMetrics, and of a
\* matrix the one takes the last and the other the first point.
Single(a) ==
    IF a.type \in {"scalar", "string"} THEN a.single
    ELSE IF a.type = "other" THEN Text
    ELSE IF a.streams = <<>> \/ a.streams[1].points = <<>>
    THEN IF executor = "prometheus" THEN 0 ELSE Text
    ELSE LET points == a.streams[1].points
         IN  IF executor = "prometheus" THEN points[Len(points)] ELSE points[1]

\* Every early return with an error.
Fail ==
    /\ status' = "failed" /\ message' = "error"
    /\ pc' = "done"
    /\ UNCHANGED <<request, answer, value, values, left, scan>>

\* The query is missing, cannot be sent, fails, outlives its timeout or is
\* answered with an error status.
QueryFails == pc = "query" /\ Fail

QueryReturns ==
    /\ pc = "query"
    /\ answer' \in Answers
    /\ pc' = "parse"
    /\ UNCHANGED <<request, value, values, left, scan, status, message>>

\* Prometheus refuses a type it does not know; the JSON that VictoriaMetrics
\* sends may not decode.
ParseFails ==
    /\ pc = "parse"
    /\ executor = "prometheus" => answer.type = "other"
    /\ Fail

\* parsePrometheusResult and parseVMResult; only the names and values of a
\* vector are read afterwards.  VictoriaMetrics' text, [time, text], does not
\* decode into the string that parseVMResult wants.
Parse ==
    /\ pc = "parse"
    /\ answer.type # (IF executor = "prometheus" THEN "other" ELSE "string")
    /\ value' = Single(answer)
    /\ values' = IF answer.type = "vector" THEN Collect(executor, answer.streams)
                                           ELSE values
    /\ pc' = "check"
    /\ UNCHANGED <<request, answer, left, scan, status, message>>

NoThreshold ==
    /\ pc = "check"
    /\ threshold = None
    /\ pc' = "done"
    /\ UNCHANGED <<request, answer, value, values, left, scan, status, message>>

\* (A mutated form: the range starts after some node.)
CheckNodes_SkipsOne ==
    /\ pc = "check"
    /\ threshold # None
    /\ answer.type = "vector" /\ DOMAIN values # {}
    /\ \E k \in DOMAIN values : left' = DOMAIN values \ {k}
    /\ pc' = "nodes"
    /\ UNCHANGED <<request, answer, value, values, scan, status, message>>

\* A vector with samples: the nodes are looked through.
CheckNodes ==
    /\ pc = "check"
    /\ threshold # None
    /\ answer.type = "vector" /\ DOMAIN values # {}
    /\ left' = DOMAIN values
    /\ pc' = "nodes"
    /\ UNCHANGED <<request, answer, value, values, scan, status, message>>

\* (A mutated form: the name follows every node above the threshold.)
Visit_LastName(k) ==
    /\ pc = "nodes"
    /\ left' = left \ {k}
    /\ IF Exceeds(values[k], threshold)
       THEN /\ exceedingNodes' = exceedingNodes \cup {k}
            /\ highestInstance' = k
            /\ highestValue' = IF values[k] > highestValue THEN values[k]
                                                           ELSE highestValue
       ELSE UNCHANGED scan
    /\ UNCHANGED <<request, pc, answer, value, values, status, message>>

\* One step of the range over allValues, which has no order.
Visit(k) ==
    /\ pc = "nodes"
    /\ left' = left \ {k}
    /\ IF Exceeds(values[k], threshold)
       THEN /\ exceedingNodes' = exceedingNodes \cup {k}
            /\ IF values[k] > highestValue
               THEN highestValue' = values[k] /\ highestInstance' = k
               ELSE UNCHANGED <<highestValue, highestInstance>>
       ELSE UNCHANGED scan
    /\ UNCHANGED <<request, pc, answer, value, values, status, message>>

\* Only Prometheus says that all nodes are within the threshold.
NodesDone ==
    /\ pc = "nodes"
    /\ left = {}
    /\ IF exceedingNodes # {}
       THEN status' = "warning" /\ message' = "nodes exceed"
       ELSE /\ message' = IF executor = "prometheus" THEN "all within" ELSE message
            /\ UNCHANGED status
    /\ pc' = "done"
    /\ UNCHANGED <<request, answer, value, values, left, scan>>

\* Everything else is judged by the single value, if it is a number.
CheckValue ==
    /\ pc = "check"
    /\ threshold # None
    /\ ~(answer.type = "vector" /\ DOMAIN values # {})
    /\ IF Exceeds(value, threshold)
       THEN status' = "warning" /\ message' = "value exceeds"
       ELSE /\ message' = IF executor = "prometheus" /\ value # Text
                          THEN "value within" ELSE message
            /\ UNCHANGED status
    /\ pc' = "done"
    /\ UNCHANGED <<request, answer, value, values, left, scan>>

Next ==
    \/ QueryFails   \/ QueryReturns \/ ParseFails   \/ Parse
    \/ NoThreshold  \/ CheckNodes   \/ NodesDone    \/ CheckValue
    \/ \E k \in left : Visit(k)

Spec == Init /\ [][Next]_vars

-----------------------------------------------------------------------------
(***************************************************************************)
(* Properties.                                                             *)
(***************************************************************************)

TypeOK ==
    /\ executor \in Executors
    /\ threshold \in Numbers \cup {None}
    /\ pc \in {"query", "parse", "check", "nodes", "done"}
    /\ answer \in Answers
    /\ DOMAIN values \subseteq Names
    /\ \A k \in DOMAIN values : values[k] \in Numbers
    /\ left \subseteq DOMAIN values
    /\ exceedingNodes \subseteq DOMAIN values
    /\ highestValue \in Int
    /\ highestInstance \in Names \cup {""}
    /\ status \in {"normal", "warning", "failed"}

\* The verdict on a vector: whatever order the map is ranged over, an item
\* whose answer has samples warns exactly when the last sample of some
\* instance is above the threshold (Execute and parse of both executors).
LastSampleDecides ==
    pc = "done" /\ status # "failed" /\ answer.type = "vector"
                /\ answer.streams # <<>> =>
        (status = "warning" <=>
            \E i \in DOMAIN answer.streams :
                /\ Exceeds(answer.streams[i].points[1], threshold)
                /\ \A j \in DOMAIN answer.streams :
                    j > i => Instance(executor, answer.streams[j].metric)
                                # Instance(executor, answer.streams[i].metric))

\* The message of a warning on a vector names the node with the highest value
\* and shows that value, in every order of visits, when the threshold is not
\* negative.  (highestValue starts at 0, so below a negative threshold nodes
\* can exceed and none be named.)
NamesHighest ==
    pc = "done" /\ message = "nodes exceed" /\ threshold >= 0 =>
        /\ highestInstance \in exceedingNodes
        /\ values[highestInstance] = highestValue
        /\ \A k \in DOMAIN values : ~Exceeds(values[k], highestValue)

\* An answer that "all nodes are within the threshold" (prometheus.go) means
\* that no sample of the query was above it.
AllWithin ==
    pc = "done" /\ message = "all within" =>
        \A i \in DOMAIN answer.streams :
            ~Exceeds(answer.streams[i].points[1], threshold)

\* What holds of that answer: it is true of a query that gives every
\* instance one series (as the label the samples are collected by expects).
AllWithinOnePerInstance ==
    pc = "done" /\ message = "all within"
        /\ (\A i, j \in DOMAIN answer.streams :
                Instance(executor, answer.streams[i].metric)
                        = Instance(executor, answer.streams[j].metric)
                    => i = j)
        => AllWithin
=============================================================================
