-------------------------- MODULE ExecuteTaskProofs --------------------------
(***************************************************************************)
(* Theorems about ExecuteTask, for requests of any length, any item types  *)
(* and any configured executors.                                           *)
(***************************************************************************)
EXTENDS ExecuteTask, TLAPS, SequenceTheorems

\* The results so far are those of the first items, and no failure among
\* them has been converted into anything else.
Results ==
    /\ Len(results) <= Len(items)
    /\ \A i \in DOMAIN results :
        /\ results[i].item = i
        /\ results[i].outcome \in {"noExecutor", "error", "critical", "failed"}
            => results[i].status = "failed"

\* Where Run is says how far it has come: in the loop nothing is decided, and
\* after it the status tells whether items were dropped.
Progress ==
    /\ pc \in {"new", "loop", "execute"} => status = "completed"
    /\ pc = "execute" => Len(results) < Len(items)
    /\ pc \in {"end", "done"} =>
        IF status = "completed" THEN Len(results) = Len(items)
                                ELSE /\ Len(results) < Len(items)
                                     /\ ctx = "deadline"

Told ==
    pc = "done" => \/ status = "failed" \/ message = "failures"
                   \/ \A i \in DOMAIN results : results[i].status # "failed"

RunInv == TypeOK /\ Results /\ Progress /\ Told

LEMMA Lengths ==
    ASSUME TypeOK
    PROVE  /\ items \in Seq(Types)
           /\ Len(items) \in Nat /\ Len(items) <= MaxItems
           /\ Len(results) \in Nat /\ DOMAIN results = 1..Len(results)
<1>1. PICK k \in 0..MaxItems : items \in [1..k -> Types]
    BY DEF TypeOK, Requests
<1>2. k \in Nat /\ k <= MaxItems
    BY ExecuteConstants
<1>3. items \in Seq(Types) /\ Len(items) = k
    BY <1>1, <1>2
<1> DEFINE R == [item : 1..MaxItems, outcome : Outcomes,
                 status : ResultStatuses]
<1>4. results \in Seq(R)
    BY DEF TypeOK
<1> HIDE DEF R
<1>5. Len(results) \in Nat /\ DOMAIN results = 1..Len(results)
    BY <1>4
<1> QED BY <1>2, <1>3, <1>5

LEMMA RunInvInit == Init => RunInv
<1> SUFFICES ASSUME Init PROVE RunInv
    OBVIOUS
<1> DEFINE R == [item : 1..MaxItems, outcome : Outcomes,
                 status : ResultStatuses]
<1>1. TypeOK
    <2>1. results \in Seq(R)
        <3> HIDE DEF R
        <3> QED BY EmptySeq DEF Init
    <2> QED BY <2>1 DEF Init, TypeOK, Messages
<1>2. Len(results) = 0 /\ DOMAIN results = {}
    <2>1. Len(<<>>) = 0
        BY EmptySeq
    <2>2. DOMAIN results = 1..Len(results)
        BY <1>1, Lengths
    <2>3. results = <<>>
        BY DEF Init
    <2>4. Len(results) = 0
        BY <2>1, <2>3, Zenon
    <2> QED BY <2>2, <2>4
<1>3. Results
    BY <1>1, <1>2, Lengths DEF Results
<1>4. Progress /\ Told
    BY DEF Init, Progress, Told
<1> QED BY <1>1, <1>3, <1>4 DEF RunInv

\* One more result, for the current item.
LEMMA RecordStep ==
    ASSUME RunInv, NEW o \in Outcomes, NEW s \in ResultStatuses, Record(o, s),
           Len(results) < Len(items), UNCHANGED items,
           o \in {"noExecutor", "error", "critical", "failed"} => s = "failed"
    PROVE  /\ results' \in Seq([item : 1..MaxItems, outcome : Outcomes,
                                status : ResultStatuses])
           /\ Results'
<1> DEFINE R == [item : 1..MaxItems, outcome : Outcomes,
                 status : ResultStatuses]
           new == [item |-> Current, outcome |-> o, status |-> s]
<1>1. /\ Len(items) \in Nat /\ Len(items) <= MaxItems
      /\ Len(results) \in Nat /\ DOMAIN results = 1..Len(results)
    BY Lengths DEF RunInv
<1>2. new \in R /\ new.item = Len(results) + 1 /\ new.outcome = o /\ new.status = s
    BY <1>1, ExecuteConstants DEF Current
<1>3. results \in Seq(R) /\ results' = Append(results, new)
    BY DEF RunInv, TypeOK, Record
<1> HIDE DEF R, new
<1>4. /\ results' \in Seq(R)
      /\ Len(results') = Len(results) + 1
      /\ DOMAIN results' = 1..Len(results) + 1
      /\ \A i \in 1..Len(results) : results'[i] = results[i]
      /\ results'[Len(results) + 1] = new
    BY <1>1, <1>2, <1>3
<1>5. \A i \in DOMAIN results' : i \in DOMAIN results \/ i = Len(results) + 1
    BY <1>1, <1>4
<1>6. Len(results') <= Len(items')
    BY <1>1, <1>4
<1>7. ASSUME NEW i \in DOMAIN results'
      PROVE  /\ results'[i].item = i
             /\ results'[i].outcome \in {"noExecutor", "error", "critical", "failed"}
                    => results'[i].status = "failed"
    <2>1. CASE i \in DOMAIN results
        BY <1>1, <1>4, <2>1 DEF RunInv, Results
    <2>2. CASE i = Len(results) + 1
        BY <1>2, <1>4, <2>2
    <2> QED BY <1>5, <2>1, <2>2
<1>8. Results'
    BY <1>6, <1>7 DEF Results
<1> QED BY <1>4, <1>8 DEF R

LEMMA RunInvStep == RunInv /\ [Next]_vars => RunInv'
<1> SUFFICES ASSUME RunInv, [Next]_vars PROVE RunInv'
    OBVIOUS
<1> USE DEF RunInv, Progress, Told
<1>1. /\ Len(items) \in Nat /\ Len(results) \in Nat
      /\ DOMAIN results = 1..Len(results)
    BY Lengths
<1>2. ASSUME Accept PROVE RunInv'
    BY <1>2 DEF Accept, TypeOK, Results
<1>3. ASSUME Deadline PROVE RunInv'
    BY <1>3 DEF Deadline, TypeOK, Results
<1>4. ASSUME Interrupt PROVE RunInv'
    <2>1. Len(results) < Len(items)
        BY <1>1, <1>4 DEF Interrupt, Current
    <2>2. TypeOK' /\ Results'
        BY <1>4 DEF Interrupt, TypeOK, Results, Messages
    <2> QED BY <1>4, <2>1, <2>2 DEF Interrupt
<1>5. ASSUME NoExecutor PROVE RunInv'
    <2>1. Len(results) < Len(items)
        BY <1>1, <1>5 DEF NoExecutor, Current
    <2>2. /\ results' \in Seq([item : 1..MaxItems, outcome : Outcomes,
                               status : ResultStatuses])
          /\ Results'
        BY <1>5, <2>1, RecordStep DEF NoExecutor, Outcomes, ResultStatuses
    <2> QED BY <1>5, <2>2 DEF NoExecutor, TypeOK
<1>6. ASSUME Execute PROVE RunInv'
    BY <1>1, <1>6 DEF Execute, TypeOK, Results, Current
<1>7. ASSUME ExecuteReturns PROVE RunInv'
    <2>1. PICK o \in Outcomes, s \in ResultStatuses :
            /\ Record(o, s)
            /\ o \in {"noExecutor", "error", "critical", "failed"} => s = "failed"
        <3>1. CASE Record("error", "failed")
            BY <3>1 DEF Outcomes, ResultStatuses
        <3>2. ASSUME NEW v \in Verdicts, Record(v, ConvertResultStatus(v))
              PROVE  \E o \in Outcomes, s \in ResultStatuses :
                        /\ Record(o, s)
                        /\ o \in {"noExecutor", "error", "critical", "failed"}
                            => s = "failed"
            <4>1. /\ ConvertResultStatus(v) \in ResultStatuses
                  /\ v \in {"noExecutor", "error", "critical", "failed"}
                        => ConvertResultStatus(v) = "failed"
                BY DEF Verdicts, ConvertResultStatus, ResultStatuses
            <4>2. v \in Outcomes
                BY DEF Outcomes
            <4> QED BY <3>2, <4>1, <4>2
        <3> QED BY <1>7, <3>1, <3>2 DEF ExecuteReturns
    <2>2. /\ results' \in Seq([item : 1..MaxItems, outcome : Outcomes,
                               status : ResultStatuses])
          /\ Results'
        BY <1>7, <2>1, RecordStep DEF ExecuteReturns
    <2> QED BY <1>7, <2>2 DEF ExecuteReturns, TypeOK
<1>8. ASSUME LoopEnds PROVE RunInv'
    BY <1>1, <1>8 DEF LoopEnds, TypeOK, Results, Current
<1>9. ASSUME Finish PROVE RunInv'
    <2>1. message' = IF /\ status # "failed"
                        /\ \E i \in DOMAIN results : results[i].status = "failed"
                     THEN "failures" ELSE "completed"
        BY <1>9 DEF Finish
    <2>2. message' \in Messages
        BY <2>1 DEF Messages
    <2> QED BY <1>9, <2>1, <2>2 DEF Finish, TypeOK, Results
<1>10. CASE UNCHANGED vars
    BY <1>10 DEF vars, TypeOK, Results
<1> QED
    BY <1>2, <1>3, <1>4, <1>5, <1>6, <1>7, <1>8, <1>9, <1>10 DEF Next

-----------------------------------------------------------------------------
\* The invariant of ExecuteTaskService.Run, with the types of its variables.
THEOREM RunInvariant == Spec => []RunInv
<1> QED BY RunInvInit, RunInvStep, PTL DEF Spec

\* The variables of Run keep their types.
THEOREM RunTypes == Spec => []TypeOK
<1>1. RunInv => TypeOK
    BY DEF RunInv
<1> QED BY <1>1, RunInvariant, PTL

\* An answer "completed" has one result for each item, in order; "failed" is
\* answered only when the deadline cut the loop short (ExecuteTaskService.Run).
THEOREM RunDropsNothing == Spec => []NothingDropped
<1>1. RunInv => NothingDropped
    BY DEF RunInv, Results, Progress, NothingDropped
<1> QED BY <1>1, RunInvariant, PTL

\* No item's failure is lost on its way into the answer
\* (convertResultStatus and the end of Run).
THEOREM RunShowsFailures == Spec => []FailuresShow
<1>1. RunInv => FailuresShow
    BY DEF RunInv, TypeOK, Results, Told, FailuresShow
<1> QED BY <1>1, RunInvariant, PTL
=============================================================================
