------------------------- MODULE MetricQueryProofs -------------------------
(***************************************************************************)
(* Theorems about MetricQuery, for any series, numbers and sizes of        *)
(* answers, and any order in which Go ranges over a map.                   *)
(***************************************************************************)
EXTENDS MetricQuery, WellFoundedInduction, TLAPS

\* A vector that has samples.
Vector == answer.type = "vector" /\ answer.streams # <<>>

\* Before the loop nothing is decided.
Fresh ==
    pc \in {"query", "parse", "check"} =>
        /\ status = "normal" /\ message = ""
        /\ left = {}
        /\ exceedingNodes = {} /\ highestValue = 0 /\ highestInstance = ""

\* The map is that of the answer.
Parsed ==
    /\ answer \in Answers
    /\ (pc \in {"check", "nodes"} \/ (pc = "done" /\ status # "failed"))
        => (answer.type = "vector" => values = Collect(executor, answer.streams))

\* What the loop knows of the nodes it has visited: which of them exceed the
\* threshold, and the highest of their values if one is above 0.
Scanned ==
    /\ left \subseteq DOMAIN values
    /\ exceedingNodes \subseteq DOMAIN values \ left
    /\ \A k \in DOMAIN values \ left :
        k \in exceedingNodes <=> Exceeds(values[k], threshold)
    /\ highestValue \in Int /\ highestValue >= 0
    /\ \A k \in exceedingNodes : values[k] <= highestValue
    /\ \/ highestValue = 0
       \/ highestInstance \in exceedingNodes /\ values[highestInstance] = highestValue

Looping ==
    /\ pc = "nodes" => Vector /\ Scanned /\ status = "normal" /\ message = ""
    /\ message = "nodes exceed" =>
        Scanned /\ left = {} /\ exceedingNodes # {}

Verdict ==
    pc = "done" /\ status # "failed" /\ Vector =>
        (status = "warning" <=>
            \E k \in DOMAIN values : Exceeds(values[k], threshold))

\* What is known when all is said to be within the threshold.
Within ==
    message = "all within" => pc = "done" /\ status = "normal" /\ Vector

QueryInv ==
    /\ threshold \in Numbers \cup {None}
    /\ pc \in {"query", "parse", "check", "nodes", "done"}
    /\ Fresh /\ Parsed /\ Looping /\ Verdict /\ Within

-----------------------------------------------------------------------------
\* The shape of a vector.
LEMMA VectorShape ==
    ASSUME NEW a \in Answers, a.type = "vector"
    PROVE  \E n \in Nat :
                a.streams \in [1..n -> [metric : Series, points : [1..1 -> Numbers]]]
<1>1. a \in [type : {"vector"}, streams : Streams(MaxSamples, [1..1 -> Numbers])]
    BY DEF Answers
<1> QED BY <1>1, MetricConstants DEF Streams

\* A non-empty set of positions has a last one.
LEMMA LastOne ==
    ASSUME NEW n \in Nat, NEW T \in SUBSET (1..n), T # {}
    PROVE  \E i \in T : \A j \in T : j <= i
<1> DEFINE S == {n - i : i \in T}
<1>1. PICK t \in T : TRUE
    OBVIOUS
<1>2. S \in SUBSET Nat /\ n - t \in S
    OBVIOUS
<1>3. PICK m \in S : \A s \in S : m <= s
    <2> HIDE DEF S
    <2>1. PICK m \in S : \A s \in S : ~(<<s, m>> \in OpToRel(<, Nat))
        BY <1>2, WFMin, NatLessThanWellFounded, Zenon
    <2>2. \A s \in S : ~(s < m)
        BY <1>2, <2>1 DEF OpToRel
    <2> QED BY <1>2, <2>2
<1>4. PICK i \in T : m = n - i
    OBVIOUS
<1>5. ASSUME NEW j \in T PROVE j <= i
    <2>1. n - j \in S
        OBVIOUS
    <2>2. n - i <= n - j
        BY <1>3, <1>4, <2>1
    <2> QED BY <2>2
<1> QED BY <1>5

\* What is in the map of a vector: the last sample of every name.
LEMMA Collected ==
    ASSUME NEW a \in Answers, a.type = "vector"
    PROVE  /\ DOMAIN Collect(executor, a.streams) =
                {Instance(executor, a.streams[i].metric) : i \in DOMAIN a.streams}
           /\ \A k \in DOMAIN Collect(executor, a.streams) :
                \E i \in DOMAIN a.streams :
                    /\ Instance(executor, a.streams[i].metric) = k
                    /\ \A j \in DOMAIN a.streams :
                           Instance(executor, a.streams[j].metric) = k => j <= i
                    /\ Collect(executor, a.streams)[k] = a.streams[i].points[1]
<1> DEFINE s == a.streams
<1>1. PICK n \in Nat : DOMAIN s = 1..n
    BY VectorShape
<1> HIDE DEF s
<1>2. DOMAIN Collect(executor, s) = {Instance(executor, s[i].metric) : i \in DOMAIN s}
    BY DEF Collect
<1>3. ASSUME NEW k \in DOMAIN Collect(executor, s)
      PROVE  \E i \in DOMAIN s :
                /\ Instance(executor, s[i].metric) = k
                /\ \A j \in DOMAIN s : Instance(executor, s[j].metric) = k => j <= i
                /\ Collect(executor, s)[k] = s[i].points[1]
    <2> DEFINE T == {i \in 1..n : Instance(executor, s[i].metric) = k}
               P(i) == /\ Instance(executor, s[i].metric) = k
                       /\ \A j \in DOMAIN s : Instance(executor, s[j].metric) = k => j <= i
               last == CHOOSE i \in DOMAIN s : P(i)
    <2>1. T \in SUBSET (1..n) /\ T # {}
        BY <1>1, <1>2
    <2>2. \E i \in DOMAIN s : P(i)
        <3>1. PICK i \in T : \A j \in T : j <= i
            <4> HIDE DEF T
            <4> QED BY <2>1, LastOne
        <3> QED BY <1>1, <3>1
    <2>3. last \in DOMAIN s /\ P(last)
        <3> HIDE DEF P
        <3> QED BY <2>2
    <2>4. Collect(executor, s)[k] = s[last].points[1]
        BY <1>2 DEF Collect
    <2> HIDE DEF last
    <2> QED BY <2>3, <2>4
<1> QED BY <1>2, <1>3 DEF s

\* Some value in the map exceeds a threshold exactly when the last sample of
\* some name does.
LEMMA CollectedExceeds ==
    ASSUME NEW a \in Answers, a.type = "vector", NEW t
    PROVE  (\E k \in DOMAIN Collect(executor, a.streams) :
                Exceeds(Collect(executor, a.streams)[k], t))
            <=> \E i \in DOMAIN a.streams :
                    /\ Exceeds(a.streams[i].points[1], t)
                    /\ \A j \in DOMAIN a.streams :
                        j > i => Instance(executor, a.streams[j].metric)
                                    # Instance(executor, a.streams[i].metric)
<1> DEFINE s == a.streams
           C == Collect(executor, a.streams)
           Name(i) == Instance(executor, s[i].metric)
<1>1. PICK n \in Nat : DOMAIN s = 1..n
    BY VectorShape
<1>2. /\ DOMAIN C = {Name(i) : i \in DOMAIN s}
      /\ \A k \in DOMAIN C : \E i \in DOMAIN s :
            /\ Name(i) = k
            /\ \A j \in DOMAIN s : Name(j) = k => j <= i
            /\ C[k] = s[i].points[1]
    BY Collected
<1> HIDE DEF s, C, Name
<1>3. ASSUME NEW k \in DOMAIN C, Exceeds(C[k], t)
      PROVE  \E i \in DOMAIN s : /\ Exceeds(s[i].points[1], t)
                                 /\ \A j \in DOMAIN s : j > i => Name(j) # Name(i)
    <2>1. PICK i \in DOMAIN s :
            /\ Name(i) = k
            /\ \A j \in DOMAIN s : Name(j) = k => j <= i
            /\ C[k] = s[i].points[1]
        BY <1>2
    <2>2. \A j \in DOMAIN s : j > i => Name(j) # Name(i)
        BY <1>1, <2>1
    <2> QED BY <1>3, <2>1, <2>2
<1>4. ASSUME NEW i \in DOMAIN s, Exceeds(s[i].points[1], t),
             \A j \in DOMAIN s : j > i => Name(j) # Name(i)
      PROVE  \E k \in DOMAIN C : Exceeds(C[k], t)
    <2>1. Name(i) \in DOMAIN C
        BY <1>2
    <2>2. PICK l \in DOMAIN s :
            /\ Name(l) = Name(i)
            /\ \A j \in DOMAIN s : Name(j) = Name(i) => j <= l
            /\ C[Name(i)] = s[l].points[1]
        BY <1>2, <2>1
    <2>3. l = i
        BY <1>1, <1>4, <2>2
    <2> QED BY <1>4, <2>1, <2>2, <2>3
<1> QED BY <1>3, <1>4 DEF s, C, Name

-----------------------------------------------------------------------------
LEMMA QueryInvInit == Init => QueryInv
<1> SUFFICES ASSUME Init PROVE QueryInv
    OBVIOUS
<1>1. answer \in Answers /\ answer.type # "vector"
    BY DEF Init, Answers
<1>2. message # "nodes exceed" /\ pc = "query" /\ status = "normal"
    BY DEF Init
<1>3. Parsed /\ Looping /\ Verdict /\ Within
    BY <1>1, <1>2 DEF Init, Parsed, Looping, Verdict, Within
<1>4. Fresh
    BY DEF Init, Fresh
<1>5. threshold \in Numbers \cup {None}
    BY DEF Init
<1> QED
    BY <1>2, <1>3, <1>4, <1>5 DEF QueryInv

\* One visit of the loop.
LEMMA VisitStep ==
    ASSUME Scanned, pc = "nodes", NEW k \in left, Visit(k)
    PROVE  Scanned'
<1>1. UNCHANGED <<values, threshold>> /\ left' = left \ {k}
    BY DEF Visit, request
<1>2. CASE ~Exceeds(values[k], threshold)
    <2>1. UNCHANGED scan
        BY <1>2 DEF Visit
    <2> QED BY <1>1, <1>2, <2>1 DEF Scanned, scan
<1>3. CASE Exceeds(values[k], threshold)
    <2>1. exceedingNodes' = exceedingNodes \cup {k} /\ values[k] \in Int
        BY <1>3 DEF Visit, Exceeds
    <2>2. /\ left' \subseteq DOMAIN values
          /\ exceedingNodes' \subseteq DOMAIN values \ left'
          /\ \A n \in DOMAIN values \ left' :
                n \in exceedingNodes' <=> Exceeds(values[n], threshold)
        BY <1>1, <1>3, <2>1 DEF Scanned
    <2>3. CASE values[k] > highestValue
        <3>1. highestValue' = values[k] /\ highestInstance' = k
            BY <1>3, <2>3 DEF Visit
        <3>2. \A n \in exceedingNodes : values[n] \in Int
            BY DEF Scanned, Exceeds
        <3> QED BY <1>1, <2>1, <2>2, <2>3, <3>1, <3>2 DEF Scanned
    <2>4. CASE ~(values[k] > highestValue)
        <3>1. UNCHANGED <<highestValue, highestInstance>>
            BY <1>3, <2>4 DEF Visit
        <3> QED BY <1>1, <2>1, <2>2, <2>4, <3>1 DEF Scanned
    <2> QED BY <2>3, <2>4
<1> QED BY <1>2, <1>3

LEMMA WithinStep == QueryInv /\ [Next]_vars => Within'
<1> SUFFICES ASSUME QueryInv, [Next]_vars PROVE Within'
    OBVIOUS
<1>1. CASE NodesDone
    BY <1>1 DEF NodesDone, QueryInv, Looping, Within, Vector
<1>2. CASE CheckNodes \/ \E k \in left : Visit(k)
    BY <1>2 DEF CheckNodes, Visit, QueryInv, Fresh, Looping, Within
<1>3. CASE CheckValue
    BY <1>3 DEF CheckValue, QueryInv, Fresh, Within
<1>4. CASE NoThreshold \/ Parse \/ QueryReturns
    BY <1>4 DEF NoThreshold, Parse, QueryReturns, QueryInv, Fresh, Within
<1>5. CASE QueryFails \/ ParseFails
    BY <1>5 DEF QueryFails, ParseFails, Fail, Within
<1>6. CASE UNCHANGED vars
    BY <1>6 DEF vars, QueryInv, Within, Vector
<1> QED BY <1>1, <1>2, <1>3, <1>4, <1>5, <1>6 DEF Next

LEMMA QueryInvStep == QueryInv /\ [Next]_vars => QueryInv'
<1> SUFFICES ASSUME QueryInv, [Next]_vars PROVE QueryInv'
    OBVIOUS
<1>w. Within'
    BY WithinStep
<1> USE <1>w DEF QueryInv, request
<1>1. ASSUME Fail, pc \in {"query", "parse"} PROVE QueryInv'
    BY <1>1 DEF Fail, Fresh, Parsed, Looping, Verdict
<1>2. ASSUME QueryFails PROVE QueryInv'
    BY <1>1, <1>2 DEF QueryFails
<1>3. ASSUME ParseFails PROVE QueryInv'
    BY <1>1, <1>3 DEF ParseFails
<1>4. ASSUME QueryReturns PROVE QueryInv'
    BY <1>4 DEF QueryReturns, scan, Fresh, Parsed, Looping, Verdict
<1>5. ASSUME Parse PROVE QueryInv'
    BY <1>5 DEF Parse, scan, Fresh, Parsed, Looping, Verdict
<1>6. ASSUME NoThreshold PROVE QueryInv'
    <2>1. \A k \in DOMAIN values : ~Exceeds(values[k], threshold)
        BY <1>6, MetricConstants DEF NoThreshold, Exceeds
    <2> QED BY <1>6, <2>1
        DEF NoThreshold, scan, Fresh, Parsed, Looping, Verdict, Vector
<1>7. ASSUME CheckNodes PROVE QueryInv'
    <2>1. /\ answer.type = "vector" /\ values = Collect(executor, answer.streams)
          /\ DOMAIN values # {}
        BY <1>7 DEF CheckNodes, Parsed
    <2>2. answer.streams # <<>>
        <3>1. DOMAIN values = {Instance(executor, answer.streams[i].metric) :
                                i \in DOMAIN answer.streams}
            BY <2>1, Collected DEF Parsed
        <3>2. DOMAIN answer.streams # {}
            BY <2>1, <3>1
        <3> QED BY <3>2
    <2>3. Scanned'
        <3>1. /\ left' = DOMAIN values /\ UNCHANGED values
              /\ exceedingNodes' = {} /\ highestValue' = 0
            BY <1>7 DEF CheckNodes, scan, Fresh
        <3> QED BY <3>1 DEF Scanned
    <2> QED BY <1>7, <2>1, <2>2, <2>3
        DEF CheckNodes, scan, Fresh, Parsed, Looping, Verdict, Vector
<1>8. ASSUME NEW k \in left, Visit(k) PROVE QueryInv'
    <2>1. pc = "nodes" /\ Scanned
        BY <1>8 DEF Visit, Looping
    <2>2. Scanned'
        BY <1>8, <2>1, VisitStep
    <2> QED BY <1>8, <2>1, <2>2
        DEF Visit, Fresh, Parsed, Looping, Verdict, Vector
<1>9. ASSUME NodesDone PROVE QueryInv'
    <2>1. pc = "nodes" /\ left = {} /\ Scanned /\ Vector /\ status = "normal"
        BY <1>9 DEF NodesDone, Looping
    <2>2. Scanned'
        BY <1>9, <2>1 DEF NodesDone, scan, Scanned
    <2>3. (\E k \in DOMAIN values : Exceeds(values[k], threshold))
            <=> exceedingNodes # {}
        BY <2>1 DEF Scanned
    <2>4. CASE exceedingNodes # {}
        BY <1>9, <2>1, <2>2, <2>3, <2>4
        DEF NodesDone, scan, Fresh, Parsed, Looping, Verdict, Vector
    <2>5. CASE exceedingNodes = {}
        <3>1. message' # "nodes exceed" /\ status' = "normal"
            BY <1>9, <2>1, <2>5 DEF NodesDone, Looping
        <3> QED BY <1>9, <2>1, <2>2, <2>3, <2>5, <3>1
            DEF NodesDone, scan, Fresh, Parsed, Looping, Verdict, Vector
    <2> QED BY <2>4, <2>5
<1>10. ASSUME CheckValue PROVE QueryInv'
    <2>1. ~Vector
        <3>1. SUFFICES ASSUME Vector PROVE FALSE
            OBVIOUS
        <3>2. values = Collect(executor, answer.streams) /\ answer.type = "vector"
            BY <1>10, <3>1 DEF CheckValue, Parsed, Vector
        <3>3. DOMAIN values = {Instance(executor, answer.streams[i].metric) :
                                i \in DOMAIN answer.streams}
            BY <3>2, Collected DEF Parsed
        <3>4. DOMAIN answer.streams # {}
            <4>1. PICK n \in Nat : answer.streams \in
                    [1..n -> [metric : Series, points : [1..1 -> Numbers]]]
                BY <3>2, VectorShape DEF Parsed
            <4>2. n # 0
                BY <3>1, <4>1 DEF Vector
            <4> QED BY <4>1, <4>2
        <3> QED BY <1>10, <3>2, <3>3, <3>4 DEF CheckValue
    <2>2. message' # "nodes exceed"
        BY <1>10 DEF CheckValue, Fresh
    <2> QED BY <1>10, <2>1, <2>2
        DEF CheckValue, scan, Fresh, Parsed, Looping, Verdict, Vector
<1>11. CASE UNCHANGED vars
    BY <1>11 DEF vars, Fresh, Parsed, Looping, Scanned, Verdict, Vector
<1> QED
    BY <1>2, <1>3, <1>4, <1>5, <1>6, <1>7, <1>8, <1>9, <1>10, <1>11 DEF Next

-----------------------------------------------------------------------------
\* The invariant of a metric item's Execute.
THEOREM QueryInvariant == Spec => []QueryInv
<1> QED BY QueryInvInit, QueryInvStep, PTL DEF Spec

\* The map of a vector has numbers under names.
LEMMA CollectTypes ==
    ASSUME executor \in Executors, NEW a \in Answers, a.type = "vector"
    PROVE  /\ DOMAIN Collect(executor, a.streams) \subseteq Names
           /\ \A k \in DOMAIN Collect(executor, a.streams) :
                Collect(executor, a.streams)[k] \in Numbers
<1> DEFINE s == a.streams
           C == Collect(executor, a.streams)
<1>1. PICK n \in Nat : s \in [1..n -> [metric : Series, points : [1..1 -> Numbers]]]
    BY VectorShape
<1>2. \A i \in DOMAIN s : s[i].metric \in Series /\ s[i].points[1] \in Numbers
    BY <1>1
<1>3. DOMAIN C = {Instance(executor, s[i].metric) : i \in DOMAIN s}
    BY Collected
<1>4. \A k \in DOMAIN C : \E i \in DOMAIN s : C[k] = s[i].points[1]
    BY Collected
<1> HIDE DEF s, C
<1>5. DOMAIN C \subseteq Names
    BY <1>2, <1>3 DEF Names
<1>6. \A k \in DOMAIN C : C[k] \in Numbers
    BY <1>2, <1>4
<1> QED BY <1>5, <1>6 DEF s, C

LEMMA TypesStep ==
    ASSUME TypeOK, QueryInv, [Next]_vars
    PROVE  TypeOK'
<1> USE DEF TypeOK, request, scan
<1>1. CASE QueryReturns
    BY <1>1 DEF QueryReturns
<1>2. CASE Parse
    <2>1. /\ DOMAIN values' \subseteq Names
          /\ \A k \in DOMAIN values' : values'[k] \in Numbers
        <3>1. CASE answer.type = "vector"
            BY <1>2, <3>1, CollectTypes DEF Parse
        <3>2. CASE answer.type # "vector"
            BY <1>2, <3>2 DEF Parse
        <3> QED BY <3>1, <3>2
    <2>2. left' = {} /\ exceedingNodes' = {}
        BY <1>2 DEF Parse, QueryInv, Fresh
    <2>3. /\ pc' = "check"
          /\ UNCHANGED <<executor, threshold, answer, highestValue, highestInstance,
                         status>>
        BY <1>2 DEF Parse
    <2> QED BY <2>1, <2>2, <2>3
<1>3. CASE QueryFails \/ ParseFails
    BY <1>3 DEF QueryFails, ParseFails, Fail
<1>4. CASE NoThreshold \/ CheckNodes \/ NodesDone \/ CheckValue
    BY <1>4 DEF NoThreshold, CheckNodes, NodesDone, CheckValue
<1>5. ASSUME NEW k \in left, Visit(k) PROVE TypeOK'
    <2>1. /\ k \in DOMAIN values /\ k \in Names
          /\ left' = left \ {k}
          /\ UNCHANGED <<executor, threshold, pc, answer, values, status>>
        BY <1>5 DEF Visit
    <2>2. /\ exceedingNodes' \subseteq DOMAIN values
          /\ highestValue' \in Int
          /\ highestInstance' \in Names \cup {""}
        BY <1>5, <2>1 DEF Visit, Exceeds
    <2> QED BY <2>1, <2>2
<1>6. CASE UNCHANGED vars
    BY <1>6 DEF vars
<1> QED BY <1>1, <1>2, <1>3, <1>4, <1>5, <1>6 DEF Next

\* The variables of a metric item's Execute keep their types.
THEOREM QueryTypes == Spec => []TypeOK
<1>1. Init => TypeOK
    <2> SUFFICES ASSUME Init PROVE TypeOK
        OBVIOUS
    <2>1. answer \in Answers
        BY DEF Init, Answers
    <2>2. DOMAIN values = {} /\ left = {} /\ exceedingNodes = {}
        BY DEF Init
    <2>3. /\ executor \in Executors /\ threshold \in Numbers \cup {None}
          /\ pc = "query" /\ status = "normal"
          /\ highestValue = 0 /\ highestInstance = ""
        BY DEF Init
    <2>4. DOMAIN values \subseteq Names /\ \A k \in DOMAIN values : values[k] \in Numbers
        BY <2>2
    <2>5. left \subseteq DOMAIN values /\ exceedingNodes \subseteq DOMAIN values
        BY <2>2
    <2>6. 0 \in Int
        OBVIOUS
    <2> QED BY <2>1, <2>3, <2>4, <2>5, <2>6, Zenon DEF TypeOK
<1> QED BY <1>1, TypesStep, QueryInvariant, PTL DEF Spec

\* An item on a vector warns exactly when the last sample of some instance
\* is above the threshold (the Execute of both metric executors).
THEOREM VerdictIsLastSample == Spec => []LastSampleDecides
<1>1. QueryInv => LastSampleDecides
    <2> SUFFICES ASSUME QueryInv, pc = "done", status # "failed",
                        answer.type = "vector", answer.streams # <<>>
                 PROVE  status = "warning" <=>
                            \E i \in DOMAIN answer.streams :
                                /\ Exceeds(answer.streams[i].points[1], threshold)
                                /\ \A j \in DOMAIN answer.streams :
                                    j > i => Instance(executor, answer.streams[j].metric)
                                                # Instance(executor, answer.streams[i].metric)
        BY DEF LastSampleDecides
    <2>1. answer \in Answers /\ values = Collect(executor, answer.streams)
        BY DEF QueryInv, Parsed
    <2>2. status = "warning" <=>
            \E k \in DOMAIN values : Exceeds(values[k], threshold)
        BY DEF QueryInv, Verdict, Vector
    <2> QED BY <2>1, <2>2, CollectedExceeds
<1> QED BY <1>1, QueryInvariant, PTL

\* "All nodes are within the threshold" is true when every instance has one
\* series (prometheus.go; mq_within shows it false otherwise).
THEOREM WithinIsTrue == Spec => []AllWithinOnePerInstance
<1>1. QueryInv => AllWithinOnePerInstance
    <2> DEFINE s == answer.streams
               Name(i) == Instance(executor, s[i].metric)
               High(i) == Exceeds(s[i].points[1], threshold)
    <2>0. SUFFICES ASSUME QueryInv, message = "all within",
                              \A i, j \in DOMAIN s : Name(i) = Name(j) => i = j,
                              NEW i \in DOMAIN s
                       PROVE  ~High(i)
        BY DEF AllWithinOnePerInstance, AllWithin
    <2>1. /\ answer \in Answers /\ answer.type = "vector"
          /\ values = Collect(executor, s)
          /\ ~\E k \in DOMAIN values : Exceeds(values[k], threshold)
        BY <2>0 DEF QueryInv, Within, Parsed, Verdict, Vector
    <2>2. ~\E n \in DOMAIN s :
                High(n) /\ \A j \in DOMAIN s : j > n => Name(j) # Name(n)
        BY <2>1, CollectedExceeds
    <2>3. PICK n \in Nat : DOMAIN s = 1..n
        BY <2>1, VectorShape
    <2>4. ASSUME NEW j \in DOMAIN s, j > i PROVE Name(j) # Name(i)
        <3>1. i # j
            BY <2>3, <2>4
        <3> QED BY <2>0, <3>1
    <2> QED BY <2>2, <2>4
<1> QED BY <1>1, QueryInvariant, PTL

\* A number above the threshold of a scan is at most the highest value.
LEMMA HighestIsTop ==
    ASSUME Scanned, left = {}, exceedingNodes # {}, threshold \in Int, threshold >= 0
    PROVE  /\ highestInstance \in exceedingNodes
           /\ values[highestInstance] = highestValue
           /\ \A k \in DOMAIN values : ~Exceeds(values[k], highestValue)
<1>1. \A k \in DOMAIN values :
        k \in exceedingNodes <=> values[k] \in Int /\ values[k] > threshold
    BY DEF Scanned, Exceeds
<1>2. /\ exceedingNodes \subseteq DOMAIN values
      /\ highestValue \in Int
      /\ \A k \in exceedingNodes : values[k] <= highestValue
      /\ \/ highestValue = 0
         \/ highestInstance \in exceedingNodes /\ values[highestInstance] = highestValue
    BY DEF Scanned
<1>3. PICK n \in exceedingNodes : TRUE
    OBVIOUS
<1>4. values[n] \in Int /\ values[n] > threshold /\ values[n] <= highestValue
    BY <1>1, <1>2, <1>3
<1>5. highestValue > threshold
    BY <1>2, <1>4
<1>6. ASSUME NEW k \in DOMAIN values, values[k] \in Int, values[k] > highestValue
      PROVE  FALSE
    <2>1. values[k] > threshold
        BY <1>2, <1>5, <1>6
    <2>2. k \in exceedingNodes
        BY <1>1, <1>6, <2>1
    <2>3. values[k] <= highestValue
        BY <1>2, <2>2
    <2> QED BY <1>2, <1>6, <2>3
<1> QED BY <1>2, <1>5, <1>6 DEF Exceeds

\* A warning about nodes names the highest of them, in whatever order they
\* were looked through (the loop over allValues).
THEOREM WarningNamesHighest == Spec => []NamesHighest
<1>1. QueryInv => NamesHighest
    <2> SUFFICES ASSUME QueryInv, message = "nodes exceed", threshold >= 0
                 PROVE  /\ highestInstance \in exceedingNodes
                        /\ values[highestInstance] = highestValue
                        /\ \A k \in DOMAIN values : ~Exceeds(values[k], highestValue)
        BY DEF NamesHighest
    <2>1. Scanned /\ left = {} /\ exceedingNodes # {}
        BY DEF QueryInv, Looping
    <2>2. threshold \in Int
        BY <2>1 DEF Scanned, Exceeds
    <2> QED BY <2>1, <2>2, HighestIsTop
<1> QED BY <1>1, QueryInvariant, PTL
=============================================================================
