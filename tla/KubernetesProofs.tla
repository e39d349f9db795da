--------------------------- MODULE KubernetesProofs ---------------------------
(***************************************************************************)
(* Proofs about KubernetesExecutor, for clusters of any size that change   *)
(* in any way while they are read.                                         *)
(***************************************************************************)
EXTENDS KubernetesExecutor, TLAPS, FiniteSetTheorems

\* Healthy and unhealthy states are different states an object can be in.
LEMMA StateFacts ==
  /\ Unhealthy(op) \subseteq States(op)
  /\ Healthy(op) \subseteq States(op)
  /\ Unhealthy(op) \cap Healthy(op) = {}
  /\ op \in Operations => Absent \notin States(op)
BY KubernetesConstants DEF States, Unhealthy, Healthy, Ready

LEMMA ServiceStates ==
  op = "check_services" => /\ States(op) = {"up", "down"}
                           /\ Unhealthy(op) = {"down"}
                           /\ Healthy(op) \subseteq {"up"}
BY DEF States, Unhealthy, Healthy

\* What has been unhealthy (healthy) all along is so now, and was so when it
\* was looked at.
Lasting ==
    /\ sick \subseteq In(cluster, Unhealthy(op))
    /\ well \subseteq In(cluster, Healthy(op))
Seen ==
    \A m \in Names : saw[m] # Absent =>
        /\ m \in sick => saw[m] \in Unhealthy(op)
        /\ m \in well => saw[m] \in Healthy(op)

\* Nothing that lasts is forgotten: it has been looked at or is to be.
Covered ==
    \A m \in (sick \cup well) \cap Scope : m \in todo \/ saw[m] # Absent

Fresh == saw = Nothing /\ skipped = {} /\ todo = {}

Progress ==
    /\ pc = "start" => Fresh
    /\ pc = "call" => op \in Operations /\ Fresh /\ Lasting
    /\ pc = "endpoints" =>
            op = "check_services" /\ Lasting /\ Seen /\ Covered
    /\ pc = "tally" =>
            op \in Operations /\ Lasting /\ Seen /\ Covered /\ todo = {}

Results == LastingIssuesShow /\ CountsFit

IInv == TypeOK /\ Progress /\ Results

-----------------------------------------------------------------------------
LEMMA InTypes ==
  ASSUME NEW view, NEW states
  PROVE  In(view, states) \subseteq Names /\ IsFiniteSet(In(view, states))
                /\ Cardinality(In(view, states)) \in Nat
<1>1. In(view, states) \subseteq Names
  BY DEF In
<1> QED  BY <1>1, KubernetesConstants, FS_Subset, FS_CardinalityType


LEMMA FailTypes ==
  ASSUME NEW s \in {"critical", "failed"}, Fail(s)
  PROVE  pc' = "done" /\ answer' \in Answers /\ answer'.error
<1>1. Nothing \in Views
  BY DEF Nothing, Views
<1> QED  BY <1>1 DEF Fail, Answers, NoAnswer

LEMMA TypesStep == TypeOK /\ Progress /\ [Next]_vars => TypeOK'
<1> SUFFICES ASSUME TypeOK, Progress, [Next]_vars PROVE TypeOK'
  OBVIOUS
<1>0. op' = op /\ Answers' = Answers /\ Views' = Views
  BY DEF Next, Start, List, Get, CallFails, Tally, EndpointsRead, Endpoints,
         EndpointsFail, Change, vars, input, Answers, Views, States, Ready
<1> USE KubernetesConstants, <1>0 DEF TypeOK, input, history
<1>1. CASE Start
  <2>1. sick' \subseteq Names /\ well' \subseteq Names
    BY <1>1, InTypes DEF Start
  <2>2. pc' \in {"call", "done"} /\ answer' \in Answers
    BY <1>1, FailTypes DEF Start
  <2> QED  BY <1>1, <2>1, <2>2 DEF Start
<1>2. CASE List
  BY <1>2, InTypes DEF List, Listed, Existing, Views
<1>3. CASE Get
  <2>1. CASE cluster[target] = Absent
    BY <1>3, <2>1, FailTypes DEF Get
  <2>2. CASE cluster[target] # Absent
    BY <1>3, <2>2 DEF Get, Listed, Views
  <2> QED  BY <2>1, <2>2
<1>4. CASE CallFails
  BY <1>4, FailTypes DEF CallFails
<1>5. CASE Tally
  <2>1. /\ Cardinality(In(saw, Healthy(op))) \in Nat
        /\ Cardinality(Existing(saw)) \in Nat
        /\ Cardinality(Issues) \in Nat
    BY InTypes DEF Existing, Issues
  <2>2. answer'.details \in Views
    BY <1>5 DEF Tally, Views
  <2>3. answer' \in Answers
    BY <1>5, <2>1, <2>2 DEF Tally, Answers
  <2> QED  BY <1>5, <2>3 DEF Tally
<1>6. CASE EndpointsRead
  BY <1>6 DEF EndpointsRead
<1>7. ASSUME NEW m \in Names, Endpoints(m) PROVE TypeOK'
  BY <1>7, ServiceStates DEF Endpoints, Progress, Views
<1>8. ASSUME NEW m \in Names, EndpointsFail(m) PROVE TypeOK'
  <2>1. CASE target = NoName
    BY <1>8, <2>1 DEF EndpointsFail
  <2>2. CASE target # NoName
    BY <1>8, <2>2, FailTypes DEF EndpointsFail
  <2> QED  BY <2>1, <2>2
<1>9. ASSUME NEW m \in Names, Change(m) PROVE TypeOK'
  BY <1>9, InTypes DEF Change, Views
<1>10. CASE UNCHANGED vars
  BY <1>10 DEF vars
<1> QED
  BY <1>1, <1>2, <1>3, <1>4, <1>5, <1>6, <1>7, <1>8, <1>9, <1>10 DEF Next
LEMMA InitHolds == Init => IInv
<1> SUFFICES ASSUME Init PROVE IInv
  OBVIOUS
<1>1. TypeOK
  BY DEF Init, TypeOK, Views, Nothing, Answers, NoAnswer
<1>2. Progress
  BY DEF Init, Progress, Fresh
<1>3. Results
  BY DEF Init, Results, LastingIssuesShow, CountsFit, Answered
<1> QED  BY <1>1, <1>2, <1>3 DEF IInv

-----------------------------------------------------------------------------
(* What is known of the objects read.                                      *)

\* A list, or one object that is there, covers all that lasts.
LEMMA ListedStep ==
  ASSUME TypeOK, pc = "call", Progress, NEW names \in SUBSET Names,
         Listed(names), UNCHANGED <<input, cluster, skipped, history>>,
         (sick \cup well) \cap Scope \subseteq names
  PROVE  Progress'
<1>1. op \in Operations /\ Fresh /\ Lasting
  BY DEF Progress
<1>2. Lasting' /\ op' = op /\ Scope' = Scope
  BY <1>1 DEF Lasting, In, Scope, input, history
<1>3. CASE op = "check_services"
  <2>1. pc' = "endpoints" /\ todo' = names /\ saw' = Nothing
    BY <1>1, <1>3 DEF Listed, Fresh
  <2>2. Seen'
    BY <2>1 DEF Seen, Nothing
  <2>3. Covered'
    BY <1>2, <2>1 DEF Covered, history
  <2> QED  BY <1>2, <1>3, <2>1, <2>2, <2>3 DEF Progress
<1>4. CASE op # "check_services"
  <2>1. /\ pc' = "tally" /\ todo' = {}
        /\ \A m \in Names : saw'[m] = IF m \in names THEN cluster[m]
                                                     ELSE Absent
    BY <1>1, <1>4 DEF Listed, Fresh
  <2>2. Seen'
    <3> SUFFICES ASSUME NEW m \in Names, saw'[m] # Absent
                 PROVE  /\ m \in sick => saw'[m] \in Unhealthy(op)
                        /\ m \in well => saw'[m] \in Healthy(op)
      BY <1>2 DEF Seen, history
    <3>1. saw'[m] = cluster[m]
      BY <2>1
    <3> QED  BY <1>1, <3>1 DEF Lasting, In
  <2>3. Covered'
    <3> SUFFICES ASSUME NEW m \in (sick \cup well) \cap Scope
                 PROVE  saw'[m] # Absent
      BY <1>2 DEF Covered, history
    <3>1. m \in Names /\ m \in names
      BY DEF TypeOK
    <3>2. cluster[m] \in States(op)
      BY <1>1, StateFacts DEF Lasting, In
    <3> QED  BY <1>1, <2>1, <3>1, <3>2, StateFacts
  <2> QED  BY <1>1, <1>2, <2>1, <2>2, <2>3 DEF Progress
<1> QED  BY <1>3, <1>4

\* One more service is read, or left out.
LEMMA EndpointsSteps ==
  ASSUME TypeOK, pc = "endpoints", Progress, NEW n \in Names,
         \/ Endpoints(n)
         \/ EndpointsFail(n) /\ target = NoName
  PROVE  Progress'
<1>1. op = "check_services" /\ Lasting /\ Seen /\ Covered
  BY DEF Progress
<1>2. Lasting' /\ op' = op /\ pc' = pc /\ history' = history
  BY <1>1 DEF Lasting, In, input, history, Endpoints, EndpointsFail
<1>3. CASE Endpoints(n)
  <2>1. /\ saw' = [saw EXCEPT ![n] = IF cluster[n] = "up" THEN "up"
                                                          ELSE "down"]
        /\ todo' = todo \ {n} /\ Scope' = Scope
    BY <1>3 DEF Endpoints, Scope, input
  <2>2. /\ \A m \in Names \ {n} : saw'[m] = saw[m]
        /\ saw'[n] = IF cluster[n] = "up" THEN "up" ELSE "down"
    BY <2>1 DEF TypeOK, Views
  <2>3. /\ n \in sick => saw'[n] \in Unhealthy(op)
        /\ n \in well => saw'[n] \in Healthy(op)
    BY <1>1, <2>2, ServiceStates DEF Lasting, In
  <2>4. Seen'
    BY <1>1, <1>2, <2>2, <2>3 DEF Seen, history
  <2>5. saw'[n] # Absent
    BY <1>1, <2>2, ServiceStates, StateFacts DEF Operations
  <2>6. Covered'
    BY <1>1, <1>2, <2>1, <2>2, <2>5 DEF Covered, history, TypeOK
  <2> QED  BY <1>1, <1>2, <2>4, <2>6 DEF Progress
<1>4. CASE EndpointsFail(n) /\ target = NoName
  <2>1. /\ saw' = saw /\ todo' = todo \ {n}
        /\ skipped' = skipped \cup {n}
        /\ target' = target
    BY <1>4 DEF EndpointsFail, input
  <2>2. Scope' = Scope \ {n}
    BY <1>2, <1>4, <2>1 DEF Scope
  <2>3. Seen'
    BY <1>1, <1>2, <2>1 DEF Seen, history
  <2>4. Covered'
    BY <1>1, <1>2, <2>1, <2>2 DEF Covered, history
  <2> QED  BY <1>1, <1>2, <2>3, <2>4 DEF Progress
<1> QED  BY <1>3, <1>4
LEMMA ProgressStep == TypeOK /\ Progress /\ [Next]_vars => Progress'
<1> SUFFICES ASSUME TypeOK, Progress, [Next]_vars PROVE Progress'
  OBVIOUS
<1>1. CASE Start
  <2>1. CASE op \in Operations
    <3>1. pc' = "call" /\ op' = op /\ Fresh'
      BY <1>1, <2>1 DEF Start, Progress, Fresh, Nothing, input
    <3>2. Lasting'
      BY <1>1 DEF Start, Lasting, In, input
    <3> QED  BY <2>1, <3>1, <3>2 DEF Progress
  <2>2. CASE op \notin Operations
    BY <1>1, <2>2 DEF Start, Fail, Progress
  <2> QED  BY <2>1, <2>2
<1>2. CASE List
  <2> DEFINE names == IF op = "check_services"
                      THEN Existing(cluster) \ Builtin ELSE Existing(cluster)
  <2>1. pc = "call" /\ Lasting
    BY <1>2 DEF List, Progress
  <2>2. names \in SUBSET Names
    BY InTypes DEF Existing
  <2>3. sick \cup well \subseteq Existing(cluster)
    BY <2>1, StateFacts DEF Lasting, Existing, In
  <2>4. (sick \cup well) \cap Scope \subseteq names
    BY <1>2, <2>3 DEF List, Scope
  <2>5. Listed(names) /\ UNCHANGED <<input, cluster, skipped, history>>
    BY <1>2 DEF List
  <2> QED  BY <2>1, <2>2, <2>4, <2>5, ListedStep
<1>3. CASE Get
  <2>1. CASE cluster[target] = Absent
    BY <1>3, <2>1 DEF Get, Fail, Progress
  <2>2. CASE cluster[target] # Absent
    <3>1. /\ pc = "call" /\ {target} \in SUBSET Names
          /\ Listed({target})
          /\ UNCHANGED <<input, cluster, skipped, history>>
          /\ (sick \cup well) \cap Scope \subseteq {target}
      BY <1>3, <2>2 DEF Get, TypeOK, Scope
    <3> QED  BY <3>1, ListedStep
  <2> QED  BY <2>1, <2>2
<1>4. CASE CallFails
  BY <1>4 DEF CallFails, Fail, Progress
<1>5. CASE Tally
  BY <1>5 DEF Tally, Progress
<1>6. CASE EndpointsRead
  <2>1. /\ pc = "endpoints" /\ pc' = "tally"
        /\ UNCHANGED <<input, cluster, saw, todo, skipped, history>>
        /\ todo = {}
    BY <1>6 DEF EndpointsRead
  <2>2. op = "check_services" /\ Lasting /\ Seen /\ Covered
    BY <2>1 DEF Progress
  <2> QED
    BY <2>1, <2>2
    DEF Progress, Lasting, In, Seen, Covered, Scope, input, history, Operations
<1>7. ASSUME NEW n \in Names, Endpoints(n) PROVE Progress'
  BY <1>7, EndpointsSteps DEF Endpoints
<1>8. ASSUME NEW n \in Names, EndpointsFail(n) PROVE Progress'
  <2>1. CASE target = NoName
    BY <1>8, <2>1, EndpointsSteps DEF EndpointsFail
  <2>2. CASE target # NoName
    BY <1>8, <2>2 DEF EndpointsFail, Fail, Progress
  <2> QED  BY <2>1, <2>2
<1>9. ASSUME NEW n \in Names, Change(n) PROVE Progress'
  <2>1. /\ pc \in {"call", "endpoints"} /\ pc' = pc /\ Lasting
        /\ UNCHANGED <<input, saw, todo, skipped>>
        /\ sick' \subseteq sick /\ well' \subseteq well
    BY <1>9 DEF Change, Progress
  <2>2. Lasting'
    BY <1>9 DEF Change, Lasting, In, input
  <2>3. Fresh => Fresh'
    BY <2>1 DEF Fresh, Nothing
  <2>4. Seen => Seen'
    BY <2>1 DEF Seen, input
  <2>5. Covered => Covered'
    BY <2>1 DEF Covered, Scope, input
  <2> QED  BY <2>1, <2>2, <2>3, <2>4, <2>5 DEF Progress, input
<1>10. CASE UNCHANGED vars
  BY <1>10 DEF vars, Progress, Fresh, Nothing, Lasting, In, Seen, Covered,
                Scope, input, history
<1> QED
  BY <1>1, <1>2, <1>3, <1>4, <1>5, <1>6, <1>7, <1>8, <1>9, <1>10 DEF Next

-----------------------------------------------------------------------------
(* The answer.                                                             *)

\* What lasts and is in scope has been seen as what it is.
LEMMA SeenRight ==
  ASSUME TypeOK, pc = "tally", Progress
  PROVE  /\ sick \cap Scope \subseteq In(saw, Unhealthy(op))
         /\ well \cap Scope \subseteq In(saw, Healthy(op))
         /\ \A m \in well : saw[m] \in Healthy(op) \cup {Absent}
<1>1. Seen /\ Covered /\ todo = {} /\ op \in Operations
  BY DEF Progress
<1>2. \A m \in (sick \cup well) \cap Scope : m \in Names /\ saw[m] # Absent
  BY <1>1 DEF Covered, TypeOK
<1>3. /\ sick \cap Scope \subseteq In(saw, Unhealthy(op))
      /\ well \cap Scope \subseteq In(saw, Healthy(op))
  BY <1>1, <1>2 DEF Seen, In
<1>4. \A m \in well : saw[m] \in Healthy(op) \cup {Absent}
  BY <1>1 DEF Seen, TypeOK
<1> QED  BY <1>3, <1>4

\* The counting.
LEMMA TallyRight ==
  ASSUME TypeOK, Progress, Tally
  PROVE  Results'
<1>1. /\ pc = "tally" /\ UNCHANGED <<input, cluster, saw, skipped, history>>
      /\ answer'.ok = Cardinality(In(saw, Healthy(op)))
      /\ answer'.total = Cardinality(Existing(saw))
      /\ answer'.issues = Cardinality(Issues)
      /\ \A m \in Names : answer'.details[m] =
            IF saw[m] \in Detailed THEN saw[m] ELSE Absent
      /\ answer'.status = "normal" => Issues = {}
  BY DEF Tally
<1>2. Scope' = Scope /\ sick' = sick /\ well' = well /\ op' = op
  BY <1>1 DEF Scope, input, history
<1> DEFINE Good == In(saw, Healthy(op))
           Bad == sick \cap Scope
<1>3. /\ Bad \subseteq Issues /\ well \cap Scope \subseteq Good
      /\ \A m \in well : saw[m] \in Healthy(op) \cup {Absent}
  BY <1>1, SeenRight DEF Issues
<1>4. LastingIssuesShow'
  <2>1. ASSUME NEW m \in Bad PROVE answer'.details[m] \in Unhealthy(op)
    <3>1. m \in Names /\ saw[m] \in Unhealthy(op) /\ Issues # {}
      BY <1>3 DEF Issues, In
    <3>2. Unhealthy(op) \subseteq Detailed
      BY <3>1, StateFacts DEF Detailed
    <3> QED  BY <1>1, <3>1, <3>2
  <2>2. Cardinality(Bad) <= answer'.issues
    <3>1. IsFiniteSet(Issues)
      BY InTypes DEF Issues
    <3> QED  BY <1>1, <1>3, <3>1, FS_Subset
  <2>3. Bad # {} => answer'.status # "normal"
    BY <1>1, <1>3
  <2>4. ASSUME NEW m \in well
        PROVE  answer'.details[m] \in Healthy(op) \cup {Absent}
    <3>1. m \in Names
      BY DEF TypeOK
    <3> QED  BY <1>1, <1>3, <3>1
  <2>5. Unhealthy(op)' = Unhealthy(op) /\ Healthy(op)' = Healthy(op)
    BY <1>2
  <2> QED  BY <1>2, <2>1, <2>2, <2>3, <2>4, <2>5 DEF LastingIssuesShow
<1>5. CountsFit'
  <2>1. /\ Good \cap Bad = {} /\ Good \cup Bad \subseteq Existing(saw)
    BY <1>3, StateFacts DEF Issues, Existing, In
  <2>2. /\ IsFiniteSet(Good) /\ Cardinality(Good) \in Nat
        /\ IsFiniteSet(Existing(saw)) /\ Cardinality(Existing(saw)) \in Nat
        /\ IsFiniteSet(Issues)
    BY InTypes DEF Existing, Issues
  <2>3. IsFiniteSet(Bad) /\ Cardinality(Bad) \in Nat
    BY <1>3, <2>2, FS_Subset, FS_CardinalityType
  <2>4. Cardinality(well \cap Scope) <= Cardinality(Good)
    BY <1>3, <2>2, FS_Subset
  <2>5. Cardinality(Good \cup Bad) = Cardinality(Good) + Cardinality(Bad)
    <3>1. Cardinality(Good \cap Bad) = 0
      BY <2>1, FS_EmptySet
    <3> HIDE DEF Good, Bad
    <3>2. Cardinality(Good \cup Bad) =
            Cardinality(Good) + Cardinality(Bad) - Cardinality(Good \cap Bad)
      BY <2>2, <2>3, FS_Union
    <3> QED  BY <2>2, <2>3, <3>1, <3>2
  <2>6. Cardinality(Good \cup Bad) <= Cardinality(Existing(saw))
    BY <2>1, <2>2, FS_Subset
  <2>7. /\ Cardinality(well \cap Scope) <= answer'.ok
        /\ answer'.ok <= answer'.total - Cardinality(sick \cap Scope)
    <3>1. answer'.ok = Cardinality(Good)
          /\ answer'.total = Cardinality(Existing(saw))
      BY <1>1
    <3>2. Cardinality(Good) + Cardinality(Bad) <= Cardinality(Existing(saw))
      BY <2>5, <2>6
    <3> HIDE DEF Good
    <3> QED  BY <2>2, <2>3, <2>4, <3>1, <3>2
  <2> QED  BY <1>2, <2>7 DEF CountsFit
<1> QED  BY <1>4, <1>5 DEF Results

\* No other step makes an answer that is not an error, or touches one.
LEMMA ResultsStep == IInv /\ [Next]_vars => Results'
<1> SUFFICES ASSUME IInv, [Next]_vars PROVE Results'
  OBVIOUS
<1> USE DEF IInv
<1>1. CASE Tally
  BY <1>1, TallyRight
<1>2. CASE UNCHANGED vars
  BY <1>2 DEF Results, LastingIssuesShow, CountsFit, Answered, Scope,
               vars, input, history
<1>3. CASE Next /\ ~Tally
  <2>1. ~Answered'
    <3>1. CASE pc' # "done"
      BY <3>1 DEF Answered
    <3>2. CASE pc' = "done"
      <4>1. PICK s \in {"critical", "failed"} : Fail(s)
        BY <1>3, <3>2 DEF Next, Start, List, Get, Listed, CallFails,
            EndpointsRead, Endpoints, EndpointsFail, Change
      <4>2. answer'.error
        BY <4>1, FailTypes
      <4> QED  BY <4>2 DEF Answered
    <3> QED  BY <3>1, <3>2
  <2> QED  BY <2>1 DEF Results, LastingIssuesShow, CountsFit
<1> QED  BY <1>1, <1>2, <1>3

\* TypeOK, what is known on the way and the answer hold together.
THEOREM InspectionInvariant == Spec => []IInv
<1>1. IInv /\ [Next]_vars => IInv'
  BY TypesStep, ProgressStep, ResultsStep DEF IInv
<1> QED  BY InitHolds, <1>1, PTL DEF Spec

\* The variables of an inspection keep their types.
THEOREM InspectionTypes == Spec => []TypeOK
<1>1. IInv => TypeOK
  BY DEF IInv
<1> QED  BY <1>1, InspectionInvariant, PTL

\* LastingIssuesShow: Execute never calls a cluster normal that had an issue
\* from the beginning of the inspection to its end.
THEOREM LastingShow == Spec => []LastingIssuesShow
<1>1. IInv => LastingIssuesShow
  BY DEF IInv, Results
<1> QED  BY InspectionInvariant, <1>1, PTL

\* CountsFit: the counts of an answer fit the objects that did not change.
THEOREM CountsSafe == Spec => []CountsFit
<1>1. IInv => CountsFit
  BY DEF IInv, Results
<1> QED  BY InspectionInvariant, <1>1, PTL
=============================================================================
