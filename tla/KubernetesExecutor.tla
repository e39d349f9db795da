-------------------------- MODULE KubernetesExecutor -------------------------
(***************************************************************************)
(* One call of KubernetesExecutor.Execute (biz/executor/kubenetes.go): the *)
(* inspection of the nodes of a cluster, or of the pods, deployments or    *)
(* services of one namespace, while the cluster changes.  Nodes, pods and  *)
(* deployments are read with one call of the API; services with one call   *)
(* for the services and one more for the endpoints of each.                *)
(*                                                                         *)
(* The API server is external.  Its calls run under a context with the     *)
(* timeout of the executor, so each ends with an answer or an error.       *)
(***************************************************************************)
EXTENDS Integers, FiniteSets

CONSTANTS
    Names,          \* names of objects
    Builtin,        \* the service "kubernetes", if the namespace is default
    MaxReplicas,    \* bound: replicas of a deployment
    NoName,         \* no deployment or service is named in the request
    Absent          \* the state of an object that does not exist

VARIABLES
    op,         \* the parameter operation
    target,     \* the parameter deployment or service
    cluster,    \* what the API server has: the state of each object
    pc,         \* control state of Execute
    saw,        \* the state in which Execute has seen each object
    todo,       \* services whose endpoints are still to be read
    answer,     \* what Execute returns
    \* For the properties:
    skipped,    \* services left out because their endpoints were not read
    sick, well  \* objects that have been unhealthy, healthy all along

input == <<op, target>>
history == <<sick, well>>
vars == <<input, cluster, pc, saw, todo, answer, skipped, history>>

Operations == {"get_nodes", "get_pods", "check_deployments",
               "check_services"}

Ready == [ready : 0..MaxReplicas, replicas : 0..MaxReplicas]

\* The states of the objects an operation looks at.  A pod whose phase is
\* neither Running, Pending nor Failed is "other"; a service has endpoints
\* with an address (up) or not (down).
States(o) ==
    CASE o = "get_nodes"         -> {"ready", "notReady"}
      [] o = "get_pods"          -> {"Running", "Pending", "Failed", "other"}
      [] o = "check_deployments" -> Ready
      [] o = "check_services"    -> {"up", "down"}
      [] OTHER                   -> {}

ASSUME KubernetesConstants ==
    /\ IsFiniteSet(Names)
    /\ Builtin \subseteq Names
    /\ NoName \notin Names
    /\ MaxReplicas \in Nat
    /\ \A o \in Operations : Absent \notin States(o)

\* The states that are counted as an issue.
Unhealthy(o) ==
    CASE o = "get_nodes"         -> {"notReady"}
      [] o = "get_pods"          -> {"Pending", "Failed"}
      [] o = "check_deployments" -> {s \in Ready : s.ready < s.replicas}
      [] o = "check_services"    -> {"down"}
      [] OTHER                   -> {}

\* Issues of pods that are critical, and states of pods that are neither an
\* issue nor in order.
Critical(o) == IF o = "get_pods" THEN {"Failed"} ELSE {}
Other(o) == IF o = "get_pods" THEN {"other"} ELSE {}

\* The states that are counted as in order.
Healthy(o) == States(o) \ (Unhealthy(o) \cup Other(o))

In(view, states) == {n \in Names : view[n] \in states}
Existing(view) == In(view, States(op))

Views == [Names -> States(op) \cup {Absent}]
Nothing == [n \in Names |-> Absent]

\* ok and total are the counts of the value, "ok/total"; the message gives the
\* number of issues, or says that all objects are in order, exactly with the
\* status normal.  The details tell of some objects in which state they are.
Answers == [status : {"none", "normal", "warning", "critical", "failed"},
            error : BOOLEAN, ok : Nat, total : Nat, issues : Nat,
            details : Views]
NoAnswer == [status |-> "none", error |-> FALSE, ok |-> 0, total |-> 0,
             issues |-> 0, details |-> Nothing]

TypeOK ==
    /\ op \in Operations \cup {"missing", "unsupported"}
    /\ target \in Names \cup {NoName}
    /\ cluster \in Views
    /\ pc \in {"start", "call", "endpoints", "tally", "done"}
    /\ saw \in Views
    /\ todo \subseteq Names
    /\ answer \in Answers
    /\ skipped \subseteq Names
    /\ sick \subseteq Names
    /\ well \subseteq Names

Init ==
    /\ op \in Operations \cup {"missing", "unsupported"}
    /\ target \in (IF op \in {"check_deployments", "check_services"}
                   THEN Names \cup {NoName} ELSE {NoName})
    /\ cluster \in Views
    /\ pc = "start"
    /\ saw = Nothing
    /\ todo = {}
    /\ answer = NoAnswer
    /\ skipped = {}
    /\ sick = {} /\ well = {}

-----------------------------------------------------------------------------
\* (Two mutated forms.  The flag hasEndpoints is not reset for the next
\* service; a service whose endpoints cannot be read has some.)
Endpoints_Sticky(n) ==
    /\ pc = "endpoints"
    /\ n \in todo
    /\ saw' = [saw EXCEPT ![n] =
                    IF cluster[n] = "up" \/ In(saw, {"up"}) # {} THEN "up"
                    ELSE "down"]
    /\ todo' = todo \ {n}
    /\ UNCHANGED <<input, cluster, pc, answer, skipped, history>>

EndpointsFail_Up(n) ==
    /\ pc = "endpoints"
    /\ n \in todo
    /\ saw' = [saw EXCEPT ![n] = "up"]
    /\ todo' = todo \ {n}
    /\ UNCHANGED <<input, cluster, pc, answer, skipped, history>>

-----------------------------------------------------------------------------
Fail(status) ==
    /\ answer' = [NoAnswer EXCEPT !.status = status, !.error = TRUE]
    /\ pc' = "done"

\* Execute looks at the operation.
Start ==
    /\ pc = "start"
    /\ IF op \in Operations
       THEN pc' = "call" /\ UNCHANGED answer
       ELSE Fail("failed")
    /\ sick' = In(cluster, Unhealthy(op))
    /\ well' = In(cluster, Healthy(op))
    /\ UNCHANGED <<input, cluster, saw, todo, skipped>>

\* The API answers the first call: a list of nodes, pods or deployments is
\* all there is to know; of services it is the names.
Listed(names) ==
    IF op = "check_services"
    THEN pc' = "endpoints" /\ todo' = names /\ UNCHANGED saw
    ELSE /\ pc' = "tally"
         /\ saw' = [n \in Names |-> IF n \in names THEN cluster[n]
                                                   ELSE Absent]
         /\ UNCHANGED todo

List ==
    /\ pc = "call" /\ target = NoName
    /\ Listed(IF op = "check_services" THEN Existing(cluster) \ Builtin
                                       ELSE Existing(cluster))
    /\ UNCHANGED <<input, cluster, answer, skipped, history>>

\* With a name, only that object is read; not to be found is critical.
Get ==
    /\ pc = "call" /\ target # NoName
    /\ IF cluster[target] = Absent
       THEN Fail("critical") /\ UNCHANGED <<saw, todo>>
       ELSE Listed({target}) /\ UNCHANGED answer
    /\ UNCHANGED <<input, cluster, skipped, history>>

CallFails ==
    /\ pc = "call"
    /\ Fail("failed")
    /\ UNCHANGED <<input, cluster, saw, todo, skipped, history>>

\* The endpoints of service n are read; a service that is gone by now, like
\* one that has no Endpoints object, counts as one without endpoints.
Endpoints(n) ==
    /\ pc = "endpoints"
    /\ n \in todo
    /\ saw' = [saw EXCEPT ![n] = IF cluster[n] = "up" THEN "up" ELSE "down"]
    /\ todo' = todo \ {n}
    /\ UNCHANGED <<input, cluster, pc, answer, skipped, history>>

\* Reading them fails: in a list the service is left out with a warning in
\* the log, alone it is an error.
EndpointsFail(n) ==
    /\ pc = "endpoints"
    /\ n \in todo
    /\ IF target = NoName
       THEN /\ todo' = todo \ {n}
            /\ skipped' = skipped \cup {n}
            /\ UNCHANGED <<pc, answer>>
       ELSE Fail("failed") /\ UNCHANGED <<todo, skipped>>
    /\ UNCHANGED <<input, cluster, saw, history>>

EndpointsRead ==
    /\ pc = "endpoints" /\ todo = {}
    /\ pc' = "tally"
    /\ UNCHANGED <<input, cluster, saw, todo, answer, skipped, history>>

\* The states whose objects are in the details: all of them, for deployments
\* and services; if there is an issue, those that are not in order, for nodes
\* and pods.
Issues == In(saw, Unhealthy(op))
Detailed ==
    IF op \in {"check_deployments", "check_services"} THEN States(op)
    ELSE IF Issues = {} THEN {}
    ELSE Unhealthy(op) \cup Other(op)

\* The counting and the answer.
Tally ==
    /\ pc = "tally"
    /\ pc' = "done"
    /\ answer' =
        [status  |-> IF Issues = {} THEN "normal"
                     ELSE IF In(saw, Critical(op)) # {} THEN "critical"
                     ELSE "warning",
         error   |-> FALSE,
         ok      |-> Cardinality(In(saw, Healthy(op))),
         total   |-> Cardinality(Existing(saw)),
         issues  |-> Cardinality(Issues),
         details |-> [n \in Names |-> IF saw[n] \in Detailed THEN saw[n]
                                                             ELSE Absent]]
    /\ UNCHANGED <<input, cluster, saw, todo, skipped, history>>

\* The cluster changes: an object appears, changes its state or is deleted.
Change(n) ==
    /\ pc \in {"call", "endpoints"}
    /\ \E s \in States(op) \cup {Absent} : cluster' = [cluster EXCEPT ![n] = s]
    /\ sick' = sick \cap In(cluster', Unhealthy(op))
    /\ well' = well \cap In(cluster', Healthy(op))
    /\ UNCHANGED <<input, pc, saw, todo, answer, skipped>>

Next ==
    \/ Start     \/ List           \/ Get    \/ CallFails
    \/ Tally     \/ EndpointsRead
    \/ \E n \in Names : Endpoints(n) \/ EndpointsFail(n) \/ Change(n)

Spec == Init /\ [][Next]_vars

-----------------------------------------------------------------------------
(***************************************************************************)
(* Properties.                                                             *)
(***************************************************************************)

\* What an answer without an error is about.
Scope == (IF target # NoName THEN {target}
          ELSE IF op = "check_services" THEN Names \ Builtin
          ELSE Names) \ skipped

Answered == pc = "done" /\ ~answer.error

\* Whatever else happens in the cluster between the calls: an object that was
\* unhealthy from the beginning to the end is in the details as unhealthy and
\* counted in the message, and the answer is not normal and does not say
\* "all"; one that was healthy from the beginning to the end is never shown
\* in another state.  Only services whose endpoints could not be read are
\* passed over.
LastingIssuesShow ==
    LET lasting == sick \cap Scope
    IN  Answered =>
            /\ \A n \in lasting : answer.details[n] \in Unhealthy(op)
            /\ Cardinality(lasting) <= answer.issues
            /\ lasting # {} => answer.status # "normal"
            /\ \A n \in well : answer.details[n] \in Healthy(op) \cup {Absent}

\* The counts x/y fit what the cluster was like: x includes every object that
\* was healthy throughout, and no object that was unhealthy throughout.
CountsFit ==
    Answered =>
        /\ Cardinality(well \cap Scope) <= answer.ok
        /\ answer.ok <= answer.total - Cardinality(sick \cap Scope)
=============================================================================
