--------------------------- MODULE AlertRulesProofs --------------------------
(***************************************************************************)
(* Theorems about AlertRules, for every set of requests and rule names and *)
(* every bound on the number of writes.                                    *)
(*                                                                         *)
(* The argument: versions only grow (VersionsBound), so a write gives a    *)
(* rule a version that no request has seen or been given; hence a version  *)
(* that is still current names the object it was read with (SawFits) or    *)
(* written with (AckFits).                                                 *)
(***************************************************************************)
EXTENDS AlertRules, TLAPS

\* No rule has a version that was not given out.
VersionsBound == \A k \in Keys : store[k].rv <= rev

\* The request that each API call belongs to.
OpFits(r) ==
    /\ pc[r] = "create" => req[r].op = "create"
    /\ pc[r] = "check"  => req[r].op \in {"get", "update", "delete"}
    /\ pc[r] = "read"   => req[r].op = "update"
    /\ pc[r] = "update" => req[r].op = "update" /\ req[r].content = "json"
    /\ pc[r] = "delete" => req[r].op = "delete"
    /\ pc[r] = "list"   => req[r].op = "list"
    /\ pc[r] \in {"vm", "prometheus"} => req[r].op = "sync"

\* Calls that name a rule name one that can exist.
KeyFits(r) ==
    (\/ pc[r] \in {"create", "check", "read", "update", "delete"}
     \/ pc[r] = "ok" /\ req[r].op \in {"create", "update"})
        => Key(r) \in Keys

\* What an update has read is the current rule if the version is current.
SawFits(r) ==
    pc[r] = "update" =>
        /\ saw[r].rv # 0
        /\ saw[r].rv <= rev
        /\ store[Key(r)].rv = saw[r].rv => store[Key(r)] = saw[r]

\* What an acknowledged request wrote is stored if its version is current.
Stored(r) ==
    /\ store[Key(r)].spec.by = r
    /\ (store[Key(r)].spec.form = "wrapped") = (req[r].content = "expr")
    /\ store[Key(r)].managed
AckFits(r) ==
    pc[r] = "ok" /\ req[r].op \in {"create", "update"} =>
        /\ wrote[r] # 0
        /\ wrote[r] <= rev
        /\ store[Key(r)].rv = wrote[r] => Stored(r)

\* A create has content.
ContentFits(r) == pc[r] = "create" => req[r].content # "empty"

ReqInv(r) == OpFits(r) /\ ContentFits(r) /\ KeyFits(r) /\ SawFits(r) /\ AckFits(r)

RuleInv == TypeOK /\ VersionsBound /\ \A r \in Reqs : ReqInv(r)

-----------------------------------------------------------------------------
(***************************************************************************)
(* Types.                                                                  *)
(***************************************************************************)

LEMMA RequestTypes ==
    ASSUME NEW q \in Requests
    PROVE  /\ q.op \in {"create", "update", "get", "delete", "list", "sync"}
           /\ q.content \in Contents
           /\ q.name \in Names \cup {""}
           /\ q.filter \in BOOLEAN
<1> DEFINE R1 == Request({"create", "update"}, Types, Names \cup {""},
                         Contents, {FALSE})
           R2 == Request({"get", "delete"}, Types, Names \cup {""}, {"empty"},
                         {FALSE})
           R3 == Request({"list"}, Types, {""}, {"empty"}, BOOLEAN)
           R4 == Request({"sync"}, {""}, {""}, {"empty"}, BOOLEAN)
<1>1. q \in R1 \/ q \in R2 \/ q \in R3 \/ q \in R4
    <2>1. Requests = UNION {R1, R2, R3, R4}
        BY DEF Requests
    <2> HIDE DEF R1, R2, R3, R4
    <2> QED BY <2>1
<1>2. CASE q \in R1 BY <1>2 DEF Request, Contents
<1>3. CASE q \in R2 BY <1>3 DEF Request, Contents
<1>4. CASE q \in R3 BY <1>4 DEF Request, Contents
<1>5. CASE q \in R4 BY <1>5 DEF Request, Contents
<1> QED BY <1>1, <1>2, <1>3, <1>4, <1>5

\* What Begin leaves of a request.
LEMMA KeptIsRequest ==
    ASSUME NEW q \in Requests
    PROVE  /\ Kept(q) \in Requests
           /\ Kept(q).op = q.op
           /\ FirstCall(q) # "error" => Kept(q) = q
<1> DEFINE blank == [op |-> q.op, type |-> "", name |-> "",
                     content |-> "empty", filter |-> FALSE]
<1>1. q.op \in {"create", "update", "get", "delete", "list", "sync"}
    BY RequestTypes
<1>2. CASE q.op \in {"create", "update"}
    <2>1. blank \in Request({"create", "update"}, Types, Names \cup {""},
                            Contents, {FALSE})
        BY <1>2 DEF Request, Types, Contents
    <2>2. blank \in Requests
        BY <2>1 DEF Requests
    <2> QED BY <2>2 DEF Kept
<1>3. CASE q.op \in {"get", "delete"}
    <2>1. blank \in Request({"get", "delete"}, Types, Names \cup {""}, {"empty"},
                            {FALSE})
        BY <1>3 DEF Request, Types
    <2>2. blank \in Requests
        BY <2>1 DEF Requests
    <2> QED BY <2>2 DEF Kept
<1>4. CASE q.op = "list"
    <2>1. blank \in Request({"list"}, Types, {""}, {"empty"}, BOOLEAN)
        BY <1>4 DEF Request, Types
    <2>2. blank \in Requests
        BY <2>1 DEF Requests
    <2> QED BY <2>2 DEF Kept
<1>5. CASE q.op = "sync"
    <2>1. blank \in Request({"sync"}, {""}, {""}, {"empty"}, BOOLEAN)
        BY <1>5 DEF Request
    <2>2. blank \in Requests
        BY <2>1 DEF Requests
    <2> QED BY <2>2 DEF Kept
<1> QED BY <1>1, <1>2, <1>3, <1>4, <1>5

LEMMA AbsentIsObject == Absent \in Objects
BY RuleConstants DEF Absent, Objects, Specs

LEMMA PutTypes ==
    ASSUME TypeOK, NEW r \in Reqs, NEW form \in {"json", "wrapped"},
           NEW c \in BOOLEAN, Put(r, form, c)
    PROVE  /\ store' \in [Keys -> Objects]
           /\ rev' \in 0..MaxRev
           /\ wrote' \in [Reqs -> 0..MaxRev]
<1> DEFINE new == [spec |-> [by |-> r, form |-> form], rv |-> rev',
                   managed |-> TRUE, configMap |-> c]
<1>1. rev' = rev + 1 /\ rev' \in 0..MaxRev
    BY RuleConstants DEF TypeOK, Put, NewRev
<1>2. new \in Objects
    BY <1>1 DEF Objects, Specs
<1>3. store' = [store EXCEPT ![Key(r)] = new]
    BY DEF Put
<1>4. wrote' = [wrote EXCEPT ![r] = rev']
    BY DEF Put
<1> QED
    BY <1>1, <1>2, <1>3, <1>4 DEF TypeOK

LEMMA AnswerTypes ==
    ASSUME TypeOK, NEW r \in Reqs,
           NEW a \in {"new"} \cup Calls \cup Answers, Answer(r, a)
    PROVE  pc' \in [Reqs -> {"new"} \cup Calls \cup Answers]
BY DEF TypeOK, Answer

\* A call that names an operation belongs to a request.
LEMMA CalledIsRequest ==
    ASSUME TypeOK, NEW r \in Reqs, OpFits(r), pc[r] \in Calls
    PROVE  /\ req[r] \in Requests
           /\ req[r].content \in Contents
<1>1. req[r].op # "none"
    BY DEF OpFits, Calls
<1>2. req[r] \in Requests \cup {NoRequest}
    BY DEF TypeOK
<1>3. NoRequest.op = "none"
    BY DEF NoRequest
<1>4. req[r] \in Requests
    BY <1>1, <1>2, <1>3
<1> QED BY <1>4, RequestTypes

LEMMA TypeStep ==
    ASSUME TypeOK, \A r \in Reqs : OpFits(r) /\ KeyFits(r), [Next]_vars
    PROVE  TypeOK'
<1> DEFINE PCs == {"new"} \cup Calls \cup Answers
<1>1. ASSUME NEW r \in Reqs, Begin(r) PROVE TypeOK'
    <2>1. PICK q \in Requests : /\ req' = [req EXCEPT ![r] = Kept(q)]
                                /\ Answer(r, FirstCall(q))
        BY <1>1 DEF Begin
    <2>2. FirstCall(q) \in PCs
        BY RequestTypes DEF FirstCall, Calls, Answers
    <2>3. pc' \in [Reqs -> PCs]
        BY <2>1, <2>2, AnswerTypes
    <2>4. req' \in [Reqs -> Requests \cup {NoRequest}]
        BY <2>1, KeptIsRequest DEF TypeOK
    <2> QED BY <1>1, <2>3, <2>4 DEF TypeOK, Begin
<1>2. ASSUME NEW r \in Reqs, CreateCall(r) PROVE TypeOK'
    <2>1. pc' \in [Reqs -> PCs]
        BY <1>2 DEF CreateCall, AnswerWrite, TypeOK, Answers
    <2>2. PICK form \in {"json", "wrapped"} : Put(r, form, FALSE)
        BY <1>2 DEF CreateCall
    <2> QED BY <1>2, <2>1, <2>2, PutTypes DEF TypeOK, CreateCall
<1>3. ASSUME NEW r \in Reqs, GetCall(r) \/ CheckCall(r) PROVE TypeOK'
    <2>1. \E a \in PCs : Answer(r, a)
        BY <1>3 DEF GetCall, CheckCall, Calls, Answers
    <2>2. store[Key(r)] \in Objects
        BY <1>3 DEF GetCall, CheckCall, KeyFits, TypeOK
    <2>3. pc' \in [Reqs -> PCs]
        BY <2>1, AnswerTypes
    <2>4. saw' \in [Reqs -> Objects]
        BY <1>3, <2>2 DEF GetCall, CheckCall, TypeOK
    <2> QED BY <1>3, <2>3, <2>4 DEF TypeOK, GetCall, CheckCall
<1>4. ASSUME NEW r \in Reqs, ReadCall(r) PROVE TypeOK'
    <2>1. req[r].content \in Contents
        BY <1>4, CalledIsRequest DEF ReadCall, Calls
    <2>2. \E a \in PCs : Answer(r, a)
        BY <1>4, <2>1 DEF ReadCall, Contents, Calls, Answers
    <2>3. store[Key(r)] \in Objects
        BY <1>4 DEF ReadCall, KeyFits, TypeOK
    <2>4. pc' \in [Reqs -> PCs]
        BY <2>2, AnswerTypes
    <2>5. saw' \in [Reqs -> Objects]
        BY <1>4, <2>3 DEF ReadCall, TypeOK
    <2> QED BY <1>4, <2>4, <2>5 DEF TypeOK, ReadCall
<1>5. ASSUME NEW r \in Reqs, UpdateCall(r) PROVE TypeOK'
    <2>1. pc' \in [Reqs -> PCs]
        BY <1>5 DEF UpdateCall, AnswerWrite, TypeOK, Answers
    <2>2. saw[r].configMap \in BOOLEAN
        BY DEF TypeOK, Objects
    <2>3. Put(r, "json", saw[r].configMap)
        BY <1>5 DEF UpdateCall
    <2> QED BY <1>5, <2>1, <2>2, <2>3, PutTypes DEF TypeOK, UpdateCall
<1>6. ASSUME NEW r \in Reqs, DeleteCall(r) PROVE TypeOK'
    <2>1. pc' \in [Reqs -> PCs]
        BY <1>6 DEF DeleteCall, AnswerWrite, TypeOK, Answers
    <2>2. rev' = rev
        BY <1>6 DEF DeleteCall
    <2>3. store' \in [Keys -> Objects]
        BY <1>6, AbsentIsObject DEF DeleteCall, TypeOK
    <2> QED BY <1>6, <2>1, <2>2, <2>3 DEF TypeOK, DeleteCall
<1>7. ASSUME NEW r \in Reqs, ListCall(r) PROVE TypeOK'
    <2>1. pc' \in [Reqs -> PCs]
        BY <1>7, AnswerTypes DEF ListCall, Answers
    <2>2. found' \in [Reqs -> SUBSET Keys]
        BY <1>7 DEF ListCall, Matching, TypeOK
    <2> QED BY <1>7, <2>1, <2>2 DEF TypeOK, ListCall
<1>8. ASSUME NEW r \in Reqs, SyncList(r) PROVE TypeOK'
    <2>1. pc' \in [Reqs -> PCs]
        BY <1>8, AnswerTypes DEF SyncList, AfterList, Calls, Answers
    <2>2. found' \in [Reqs -> SUBSET Keys]
        BY <1>8 DEF SyncList, Matching, TypeOK
    <2> QED BY <1>8, <2>1, <2>2 DEF TypeOK, SyncList
<1>9. ASSUME NEW r \in Reqs, SyncListFails(r) PROVE TypeOK'
    <2>1. pc' \in [Reqs -> PCs]
        BY <1>9, AnswerTypes DEF SyncListFails, AfterList, Calls, Answers
    <2>2. missed' \in [Reqs -> SUBSET {"vm", "prometheus"}]
        BY <1>9 DEF SyncListFails, TypeOK
    <2> QED BY <1>9, <2>1, <2>2 DEF TypeOK, SyncListFails
<1>10. ASSUME NEW r \in Reqs, CallFails(r) PROVE TypeOK'
    <2>1. pc' \in [Reqs -> PCs]
        BY <1>10, AnswerTypes DEF CallFails, Answers
    <2> QED BY <1>10, <2>1 DEF TypeOK, CallFails
<1>11. ASSUME NEW k \in Keys, Foreign(k) PROVE TypeOK'
    <2>1. rev' \in 0..MaxRev
        BY <1>11, RuleConstants DEF Foreign, NewRev, TypeOK
    <2>2. store' \in [Keys -> Objects]
        <3>1. CASE store' = [store EXCEPT ![k] = Absent]
            BY <3>1, AbsentIsObject DEF TypeOK
        <3>2. ASSUME NEW m \in BOOLEAN, NEW c \in BOOLEAN,
                     store' = [store EXCEPT ![k] =
                        [spec |-> [by |-> NoReq, form |-> "json"],
                         rv |-> NewRev, managed |-> m, configMap |-> c]],
                     rev' = NewRev
              PROVE  store' \in [Keys -> Objects]
            BY <2>1, <3>2 DEF TypeOK, Objects, Specs, NewRev
        <3> QED BY <1>11, <3>1, <3>2 DEF Foreign
    <2> QED BY <1>11, <2>1, <2>2 DEF TypeOK, Foreign
<1>12. CASE UNCHANGED vars
    BY <1>12 DEF TypeOK, vars
<1> QED
    BY <1>1, <1>2, <1>3, <1>4, <1>5, <1>6, <1>7, <1>8, <1>9, <1>10, <1>11,
       <1>12 DEF Next

-----------------------------------------------------------------------------
(***************************************************************************)
(* Every write is newer than everything before it.                         *)
(***************************************************************************)

\* What a step can do to a rule: nothing, remove it, or give it a version
\* that was not given out before.
Changed(k) ==
    store'[k] = store[k] \/ store'[k] = Absent \/ store'[k].rv > rev

LEMMA StoreStep ==
    ASSUME TypeOK, VersionsBound, \A r \in Reqs : OpFits(r) /\ KeyFits(r),
           [Next]_vars
    PROVE  /\ rev' >= rev
           /\ \A k \in Keys : Changed(k)
           /\ VersionsBound'
<1> USE RuleConstants
<1>a. Absent.rv = 0
    BY DEF Absent
<1>1. ASSUME UNCHANGED <<store, rev>>
      PROVE  /\ rev' >= rev
             /\ \A k \in Keys : Changed(k)
             /\ VersionsBound'
    BY <1>1 DEF TypeOK, VersionsBound, Changed
<1>2. ASSUME NEW k \in Keys, NEW v \in Objects, store' = [store EXCEPT ![k] = v],
             \/ rev' = rev /\ v = Absent
             \/ rev' = rev + 1 /\ v.rv = rev + 1
      PROVE  /\ rev' >= rev
             /\ \A j \in Keys : Changed(j)
             /\ VersionsBound'
    <2>1. \A j \in Keys : store'[j] = IF j = k THEN v ELSE store[j]
        BY <1>2 DEF TypeOK
    <2>2. \A j \in Keys : store[j].rv \in 0..MaxRev
        BY DEF TypeOK, Objects
    <2> QED BY <1>a, <1>2, <2>1, <2>2 DEF TypeOK, VersionsBound, Changed
<1>3. ASSUME NEW r \in Reqs, CreateCall(r) \/ UpdateCall(r)
      PROVE  \E k \in Keys, v \in Objects :
                /\ rev' = rev + 1 /\ store' = [store EXCEPT ![k] = v]
                /\ v.rv = rev + 1
    <2>1. Key(r) \in Keys
        BY <1>3 DEF CreateCall, UpdateCall, KeyFits
    <2>2. PICK form \in {"json", "wrapped"}, c \in BOOLEAN : Put(r, form, c)
        <3>1. saw[r].configMap \in BOOLEAN
            BY DEF TypeOK, Objects
        <3> QED BY <1>3, <3>1 DEF CreateCall, UpdateCall
    <2> DEFINE v == [spec |-> [by |-> r, form |-> form], rv |-> rev + 1,
                     managed |-> TRUE, configMap |-> c]
    <2>3. /\ rev' = rev + 1
          /\ rev + 1 \in 0..MaxRev
          /\ store' = [store EXCEPT ![Key(r)] = v]
        BY <2>2 DEF Put, NewRev, TypeOK
    <2>4. v \in Objects /\ v.rv = rev + 1
        BY <2>3 DEF Objects, Specs
    <2> HIDE DEF v
    <2> QED BY <2>1, <2>3, <2>4
<1>4. ASSUME NEW r \in Reqs, DeleteCall(r)
      PROVE  /\ Key(r) \in Keys
             /\ rev' = rev /\ store' = [store EXCEPT ![Key(r)] = Absent]
    BY <1>4 DEF DeleteCall, KeyFits
<1>5. ASSUME NEW k \in Keys, Foreign(k)
      PROVE  \E v \in Objects :
                /\ store' = [store EXCEPT ![k] = v]
                /\ \/ rev' = rev /\ v = Absent
                   \/ rev' = rev + 1 /\ v.rv = rev + 1
    <2>1. CASE rev' = rev /\ store' = [store EXCEPT ![k] = Absent]
        BY <2>1, AbsentIsObject
    <2>2. ASSUME rev < MaxRev PROVE rev + 1 \in 0..MaxRev
        BY <2>2 DEF TypeOK
    <2>3. ASSUME NEW m \in BOOLEAN, NEW c \in BOOLEAN,
                 store' = [store EXCEPT ![k] =
                    [spec |-> [by |-> NoReq, form |-> "json"],
                     rv |-> NewRev, managed |-> m, configMap |-> c]],
                 rev < MaxRev
          PROVE  \E v \in Objects : store' = [store EXCEPT ![k] = v]
                                    /\ v.rv = rev + 1
        <3> DEFINE v == [spec |-> [by |-> NoReq, form |-> "json"],
                         rv |-> rev + 1, managed |-> m, configMap |-> c]
        <3>1. v \in Objects /\ v.rv = rev + 1
            BY <2>2, <2>3 DEF Objects, Specs
        <3>2. store' = [store EXCEPT ![k] = v]
            BY <2>3 DEF NewRev
        <3> HIDE DEF v
        <3> QED BY <3>1, <3>2
    <2> QED BY <1>5, <2>1, <2>3 DEF Foreign, NewRev
<1>6. CASE UNCHANGED <<store, rev>>
    BY <1>1, <1>6
<1>7. CASE \E r \in Reqs : CreateCall(r) \/ UpdateCall(r)
    BY <1>2, <1>3, <1>7
<1>8. CASE \E r \in Reqs : DeleteCall(r)
    BY <1>2, <1>4, <1>8, AbsentIsObject
<1>9. CASE \E k \in Keys : Foreign(k)
    BY <1>2, <1>5, <1>9
<1> QED
    BY <1>6, <1>7, <1>8, <1>9
    DEF Next, vars, Begin, GetCall, CheckCall, ReadCall, ListCall, SyncList,
        SyncListFails, CallFails

-----------------------------------------------------------------------------
(***************************************************************************)
(* The invariant.                                                          *)
(***************************************************************************)

\* The steps of others cannot break what a request relies on.
LEMMA OthersKeep ==
    ASSUME RuleInv, [Next]_vars, NEW r \in Reqs,
           UNCHANGED <<req[r], pc[r], saw[r], wrote[r]>>
    PROVE  ReqInv(r)'
<1>1. ReqInv(r) /\ TypeOK
    BY DEF RuleInv
<1>2. /\ rev' >= rev
      /\ \A k \in Keys : Changed(k)
    BY StoreStep DEF RuleInv, ReqInv
<1>3. Key(r)' = Key(r)
    BY DEF Key
<1>4. OpFits(r)' /\ ContentFits(r)' /\ KeyFits(r)'
    BY <1>1, <1>3 DEF ReqInv, OpFits, ContentFits, KeyFits
<1>5. /\ saw[r].rv \in Nat /\ wrote[r] \in Nat /\ rev \in Nat
      /\ TypeOK' => rev' \in Nat
    BY <1>1, RuleConstants DEF TypeOK, Objects
<1>6. TypeOK'
    BY TypeStep DEF RuleInv, ReqInv
<1>7. Absent.rv = 0
    BY DEF Absent
<1>8. \A k \in Keys : store'[k].rv \in Nat
    BY <1>6, RuleConstants DEF TypeOK, Objects
<1>9. SawFits(r)'
    BY <1>1, <1>2, <1>3, <1>5, <1>6, <1>7, <1>8
    DEF ReqInv, SawFits, KeyFits, Changed
<1>10. AckFits(r)'
    BY <1>1, <1>2, <1>3, <1>5, <1>6, <1>7, <1>8
    DEF ReqInv, AckFits, Stored, KeyFits, Changed
<1> QED BY <1>4, <1>9, <1>10 DEF ReqInv

\* A request's own step.
LEMMA OwnKeeps ==
    ASSUME RuleInv, NEW r \in Reqs,
           \/ Begin(r)      \/ CreateCall(r) \/ CheckCall(r) \/ ReadCall(r)
           \/ UpdateCall(r) \/ DeleteCall(r) \/ ListCall(r)  \/ SyncList(r)
           \/ SyncListFails(r) \/ GetCall(r)  \/ CallFails(r)
    PROVE  ReqInv(r)'
<1> USE DEF ReqInv, OpFits, ContentFits, KeyFits, SawFits, AckFits
<1>1. ReqInv(r) /\ TypeOK
    BY DEF RuleInv
<1>2. /\ pc \in [Reqs -> {"new"} \cup Calls \cup Answers]
      /\ req \in [Reqs -> Requests \cup {NoRequest}]
      /\ saw \in [Reqs -> Objects] /\ wrote \in [Reqs -> 0..MaxRev]
      /\ store \in [Keys -> Objects] /\ rev \in Nat
    BY <1>1, RuleConstants DEF TypeOK
<1>3. CASE Begin(r)
    <2>1. PICK q \in Requests : /\ req' = [req EXCEPT ![r] = Kept(q)]
                                /\ Answer(r, FirstCall(q))
        BY <1>3 DEF Begin
    <2>2. req'[r] = Kept(q) /\ pc'[r] = FirstCall(q)
        BY <1>2, <2>1 DEF Answer
    <2>3. CASE FirstCall(q) = "error"
        BY <2>2, <2>3
    <2>4. CASE FirstCall(q) # "error"
        <3>1. req'[r] = q /\ Valid(q)
            BY <2>2, <2>4, KeptIsRequest DEF FirstCall
        <3>2. q.op = "sync" => FirstCall(q) = "vm"
            BY <3>1 DEF FirstCall
        <3>3. q.op # "sync" =>
                /\ GVROf(q.type) \in GVRs
                /\ FirstCall(q) = IF q.op \in {"create", "list"} THEN q.op
                                                                ELSE "check"
            BY <2>4, <3>1 DEF FirstCall
        <3>4. q.op \notin {"list", "sync"} => Key(r)' \in Keys
            BY <3>1, <3>3, RequestTypes DEF Key, Keys, Valid
        <3>5. q.op = "create" => q.content # "empty"
            BY <3>1 DEF Valid
        <3> QED BY <2>2, <3>1, <3>2, <3>3, <3>4, <3>5, RequestTypes
    <2> QED BY <2>3, <2>4
<1>4. CASE CreateCall(r)
    <2>1. /\ req' = req /\ Key(r)' = Key(r)
          /\ pc'[r] \in {"ok", "error"}
          /\ Key(r) \in Keys
        BY <1>1, <1>2, <1>4 DEF CreateCall, AnswerWrite, Key
    <2>2. req[r].content \in {"json", "expr"}
        BY <1>1, <1>4, CalledIsRequest DEF CreateCall, Calls, Contents
    <2>3. /\ wrote'[r] = rev + 1 /\ rev' = rev + 1
          /\ store'[Key(r)] =
                [spec |-> [by |-> r, form |-> IF req[r].content = "json"
                                              THEN "json" ELSE "wrapped"],
                 rv |-> rev + 1, managed |-> TRUE, configMap |-> FALSE]
        BY <1>2, <1>4, <2>1 DEF CreateCall, Put, NewRev
    <2>4. Stored(r)'
        BY <2>1, <2>2, <2>3 DEF Stored
    <2> QED BY <1>2, <2>1, <2>3, <2>4
<1>5. CASE CheckCall(r)
    <2>1. /\ req' = req /\ Key(r)' = Key(r)
          /\ req[r].op \in {"update", "delete"}
          /\ Key(r) \in Keys
          /\ pc'[r] = IF req[r].op = "update" THEN "read" ELSE "delete"
        BY <1>1, <1>2, <1>5 DEF CheckCall, Key, Answer
    <2>2. CASE req[r].op = "update"
        <3>1. pc'[r] = "read" BY <2>1, <2>2
        <3> QED BY <2>1, <2>2, <3>1
    <2>3. CASE req[r].op = "delete"
        <3>1. pc'[r] = "delete" BY <2>1, <2>3
        <3> QED BY <2>1, <2>3, <3>1
    <2> QED BY <2>1, <2>2, <2>3
<1>12. CASE GetCall(r)
    <2>1. req' = req /\ req[r].op = "get" /\ pc'[r] = "ok"
        BY <1>1, <1>2, <1>12 DEF GetCall, Answer
    <2> QED BY <2>1
<1>6. CASE ReadCall(r)
    <2>1. /\ req' = req /\ Key(r)' = Key(r) /\ store' = store /\ rev' = rev
          /\ req[r].op = "update"
          /\ Key(r) \in Keys
          /\ saw'[r] = store[Key(r)]
          /\ saw'[r].rv # 0
        BY <1>1, <1>2, <1>6 DEF ReadCall, Key, Exists
    <2>2. pc'[r] = CASE req[r].content = "empty" -> "error"
                     [] req[r].content = "expr"  -> "panic"
                     [] req[r].content = "json"  -> "update"
        BY <1>2, <1>6 DEF ReadCall, Answer
    <2>3. req[r].content \in Contents
        BY <1>1, <1>6, CalledIsRequest DEF ReadCall, Calls
    <2>4. CASE req[r].content = "empty"
        <3>1. pc'[r] = "error" BY <2>2, <2>4
        <3> QED BY <3>1
    <2>5. CASE req[r].content = "expr"
        <3>1. pc'[r] = "panic" BY <2>2, <2>5
        <3> QED BY <3>1
    <2>6. CASE req[r].content = "json"
        <3>1. pc'[r] = "update" BY <2>2, <2>6
        <3>2. saw'[r].rv <= rev
            BY <2>1 DEF RuleInv, VersionsBound
        <3> QED BY <2>1, <2>6, <3>1, <3>2
    <2> QED BY <2>3, <2>4, <2>5, <2>6 DEF Contents
<1>7. CASE UpdateCall(r)
    <2>1. /\ req' = req /\ Key(r)' = Key(r)
          /\ pc'[r] \in {"ok", "error"}
          /\ Key(r) \in Keys
          /\ req[r].content = "json"
        BY <1>1, <1>2, <1>7 DEF UpdateCall, AnswerWrite, Key
    <2>2. /\ wrote'[r] = rev + 1 /\ rev' = rev + 1
          /\ store'[Key(r)] =
                [spec |-> [by |-> r, form |-> "json"],
                 rv |-> rev + 1, managed |-> TRUE, configMap |-> saw[r].configMap]
        BY <1>2, <1>7, <2>1 DEF UpdateCall, Put, NewRev
    <2>3. Stored(r)'
        BY <2>1, <2>2 DEF Stored
    <2> QED BY <1>2, <2>1, <2>2, <2>3
<1>8. CASE DeleteCall(r)
    <2>1. /\ req' = req /\ req[r].op = "delete"
          /\ pc'[r] \in {"ok", "error"}
        BY <1>1, <1>2, <1>8 DEF DeleteCall, AnswerWrite
    <2> QED BY <2>1
<1>9. CASE ListCall(r)
    <2>1. req' = req /\ req[r].op = "list" /\ pc'[r] = "ok"
        BY <1>1, <1>2, <1>9 DEF ListCall, Answer
    <2> QED BY <2>1
<1>10. CASE SyncList(r) \/ SyncListFails(r)
    <2>1. /\ req' = req /\ req[r].op = "sync"
          /\ pc'[r] \in {"prometheus", "ok"}
        BY <1>1, <1>2, <1>10 DEF SyncList, SyncListFails, AfterList, Answer
    <2> QED BY <2>1
<1>11. CASE CallFails(r)
    <2>1. pc'[r] = "error"
        BY <1>2, <1>11 DEF CallFails, Answer
    <2> QED BY <2>1
<1> QED BY <1>3, <1>4, <1>5, <1>6, <1>7, <1>8, <1>9, <1>10, <1>11, <1>12

LEMMA RuleInvInit == Init => RuleInv
<1> SUFFICES ASSUME Init PROVE RuleInv
    OBVIOUS
<1>1. TypeOK
    BY AbsentIsObject, RuleConstants DEF Init, TypeOK
<1>2. VersionsBound
    BY DEF Init, VersionsBound, Absent
<1>3. ASSUME NEW r \in Reqs PROVE ReqInv(r)
    BY DEF Init, ReqInv, OpFits, ContentFits, KeyFits, SawFits, AckFits
<1> QED BY <1>1, <1>2, <1>3 DEF RuleInv

LEMMA RuleInvStep == RuleInv /\ [Next]_vars => RuleInv'
<1> SUFFICES ASSUME RuleInv, [Next]_vars PROVE RuleInv'
    OBVIOUS
<1>1. TypeOK'
    BY TypeStep DEF RuleInv, ReqInv
<1>2. VersionsBound'
    BY StoreStep DEF RuleInv, ReqInv
<1>3. ASSUME NEW r \in Reqs PROVE ReqInv(r)'
    <2>1. CASE UNCHANGED <<req[r], pc[r], saw[r], wrote[r]>>
        BY <2>1, OthersKeep
    <2>2. CASE \/ Begin(r)      \/ CreateCall(r) \/ CheckCall(r) \/ ReadCall(r)
               \/ UpdateCall(r) \/ DeleteCall(r) \/ ListCall(r)  \/ SyncList(r)
               \/ SyncListFails(r) \/ GetCall(r)  \/ CallFails(r)
        BY <2>2, OwnKeeps
    <2>3. ASSUME NEW s \in Reqs, s # r,
                 \/ Begin(s)      \/ CreateCall(s) \/ CheckCall(s) \/ ReadCall(s)
                 \/ UpdateCall(s) \/ DeleteCall(s) \/ ListCall(s)  \/ SyncList(s)
                 \/ SyncListFails(s) \/ GetCall(s)  \/ CallFails(s)
          PROVE  UNCHANGED <<req[r], pc[r], saw[r], wrote[r]>>
        BY <2>3 DEF RuleInv, TypeOK, Begin, CreateCall, GetCall, CheckCall, ReadCall,
            UpdateCall, DeleteCall, ListCall, SyncList, SyncListFails,
            CallFails, AfterList, Answer, AnswerWrite, Put
    <2>4. (UNCHANGED vars \/ \E k \in Keys : Foreign(k))
            => UNCHANGED <<req[r], pc[r], saw[r], wrote[r]>>
        BY DEF vars, Foreign
    <2> QED BY <2>1, <2>2, <2>3, <2>4 DEF Next
<1> QED BY <1>1, <1>2, <1>3 DEF RuleInv

-----------------------------------------------------------------------------
(***************************************************************************)
(* The theorems.                                                           *)
(***************************************************************************)

\* The invariant holds in every state: k8s_manager.go's calls, whatever
\* other clients do between them.
THEOREM RulesInvariant == Spec => []RuleInv
<1> QED BY RuleInvInit, RuleInvStep, PTL DEF Spec

\* The variables keep their types (all requests of biz/service/*_alert_rule.go).
THEOREM RulesTypeCorrect == Spec => []TypeOK
<1>1. RuleInv => TypeOK
    BY DEF RuleInv
<1> QED BY <1>1, RulesInvariant, PTL

\* An update that holds the current version of a rule holds the current rule
\* (UpdateRule's read-modify-write).
THEOREM VersionsNameObjects == Spec => []VersionIsObject
<1>1. RuleInv => VersionIsObject
    BY DEF RuleInv, ReqInv, SawFits, VersionIsObject
<1> QED BY <1>1, RulesInvariant, PTL

\* What a create or update acknowledged is what is stored under the version
\* it was given (CreateRule and UpdateRule).
THEOREM AcksAreStored == Spec => []AckedIsStored
<1>1. RuleInv => AckedIsStored
    <2> SUFFICES ASSUME RuleInv, NEW r \in Reqs, pc[r] = "ok",
                        req[r].op \in {"create", "update"}
                 PROVE  /\ wrote[r] # 0
                        /\ store[Key(r)].rv = wrote[r] =>
                            /\ store[Key(r)].spec.by = r
                            /\ (store[Key(r)].spec.form = "wrapped") =
                                    (req[r].content = "expr")
                            /\ Key(r) \in Matching(Key(r)[1], FALSE)
        BY DEF AckedIsStored
    <2>1. /\ wrote[r] # 0 /\ Key(r) \in Keys
          /\ store[Key(r)].rv = wrote[r] => Stored(r)
        BY DEF RuleInv, ReqInv, AckFits, KeyFits
    <2> QED BY <2>1 DEF Stored, Matching, Exists
<1> QED BY <1>1, RulesInvariant, PTL

\* No update loses a write that came between its read and its own write, or
\* brings a deleted rule back (UpdateRule, conflicting clients).
THEOREM UpdatesLoseNothing == Spec => NoLostUpdate
<1>1. ASSUME RuleInv, [Next]_vars, NEW r \in Reqs,
             pc[r] = "update", pc'[r] # "update", store' # store
      PROVE  /\ store[Key(r)] = saw[r]
             /\ Exists(Key(r))
             /\ store'[Key(r)].configMap = store[Key(r)].configMap
    <2>1. UpdateCall(r)
        BY <1>1 DEF Next, vars, RuleInv, TypeOK, Begin, CreateCall, GetCall, CheckCall,
            ReadCall, DeleteCall, ListCall, SyncList, SyncListFails,
            CallFails, AfterList, Answer, AnswerWrite, Foreign, UpdateCall
    <2>2. Key(r) \in Keys /\ store \in [Keys -> Objects]
        BY <1>1 DEF RuleInv, ReqInv, KeyFits, TypeOK
    <2>3. store[Key(r)] = saw[r]
        BY <1>1, <2>1 DEF RuleInv, ReqInv, SawFits, UpdateCall
    <2>4. store'[Key(r)].configMap = saw[r].configMap
        BY <2>1, <2>2 DEF UpdateCall, Put
    <2> QED BY <2>1, <2>3, <2>4 DEF UpdateCall
<1>2. RuleInv /\ [Next]_vars =>
        \A r \in Reqs : pc[r] = "update" /\ pc'[r] # "update" /\ store' # store =>
            /\ store[Key(r)] = saw[r]
            /\ Exists(Key(r))
            /\ store'[Key(r)].configMap = store[Key(r)].configMap
    BY <1>1
<1> QED BY <1>2, RulesInvariant, PTL DEF Spec, NoLostUpdate

-----------------------------------------------------------------------------
(***************************************************************************)
(* What a panic leaves.                                                    *)
(***************************************************************************)

\* A request has written nothing before it is answered, and what it has not
\* written is in no rule.
WritesFit(r) ==
    /\ pc[r] \notin {"ok", "error"} => wrote[r] = 0
    /\ wrote[r] = 0 => \A k \in Keys : store[k].spec.by # r
    /\ pc[r] = "panic" => req[r].op = "update" /\ req[r].content = "expr"

EndInv == \A r \in Reqs : WritesFit(r)

\* A request does not move in the steps of others.
LEMMA OthersWait ==
    ASSUME TypeOK, NEW r \in Reqs, NEW s \in Reqs, s # r,
           \/ Begin(s)      \/ CreateCall(s) \/ CheckCall(s) \/ ReadCall(s)
           \/ UpdateCall(s) \/ DeleteCall(s) \/ ListCall(s)  \/ SyncList(s)
           \/ SyncListFails(s) \/ GetCall(s)  \/ CallFails(s)
    PROVE  UNCHANGED <<req[r], pc[r], saw[r], wrote[r], found[r], missed[r]>>
BY DEF TypeOK, Begin, CreateCall, GetCall, CheckCall, ReadCall,
       UpdateCall, DeleteCall, ListCall, SyncList, SyncListFails,
       CallFails, AfterList, Answer, AnswerWrite, Put

\* A rule gets its author from the request that writes it.
LEMMA AuthorStep ==
    ASSUME RuleInv, [Next]_vars, NEW r \in Reqs, NEW k \in Keys,
           store'[k].spec.by = r, store[k].spec.by # r
    PROVE  CreateCall(r) \/ UpdateCall(r)
<1>1. store' # store
    OBVIOUS
<1>2. store \in [Keys -> Objects] /\ r # NoReq
    BY RuleConstants DEF RuleInv, TypeOK
<1>3. Absent.spec.by = NoReq
    BY DEF Absent
<1>4. ASSUME NEW j \in Keys, Foreign(j) PROVE FALSE
    BY <1>2, <1>3, <1>4 DEF Foreign
<1>5. ASSUME NEW s \in Reqs, DeleteCall(s) PROVE FALSE
    BY <1>2, <1>3, <1>5 DEF DeleteCall, RuleInv, ReqInv, KeyFits
<1>6. ASSUME NEW s \in Reqs, CreateCall(s) \/ UpdateCall(s) PROVE s = r
    <2>1. Key(s) \in Keys
        BY <1>6 DEF CreateCall, UpdateCall, RuleInv, ReqInv, KeyFits
    <2>2. PICK f, c : Put(s, f, c)
        BY <1>6 DEF CreateCall, UpdateCall
    <2> QED BY <1>2, <2>1, <2>2 DEF Put
<1> QED
    BY <1>1, <1>4, <1>5, <1>6
    DEF Next, vars, Begin, GetCall, CheckCall, ReadCall, ListCall, SyncList,
        SyncListFails, CallFails

LEMMA EndInvInit == Init => EndInv
<1> SUFFICES ASSUME Init PROVE EndInv
    OBVIOUS
<1>1. ASSUME NEW r \in Reqs PROVE WritesFit(r)
    <2>1. pc[r] = "new" /\ wrote[r] = 0
        BY DEF Init
    <2>2. ASSUME NEW k \in Keys PROVE store[k].spec.by # r
        <3>1. Absent.spec.by = NoReq
            BY DEF Absent
        <3>2. store[k] = Absent
            BY DEF Init
        <3> QED BY <3>1, <3>2, RuleConstants
    <2> QED BY <2>1, <2>2 DEF WritesFit
<1> QED BY <1>1 DEF EndInv

LEMMA WritesFitStep ==
    ASSUME RuleInv, NEW r \in Reqs, WritesFit(r), [Next]_vars
    PROVE  WritesFit(r)'
<1>1. TypeOK /\ ReqInv(r)
    BY DEF RuleInv
<1>2. CASE CreateCall(r) \/ UpdateCall(r)
    <2>1. pc'[r] \in {"ok", "error"}
        BY <1>1, <1>2 DEF CreateCall, UpdateCall, AnswerWrite, TypeOK
    <2>2. wrote'[r] # 0
        BY <1>1, <1>2, RuleConstants DEF CreateCall, UpdateCall, Put, NewRev, TypeOK
    <2> QED BY <2>1, <2>2 DEF WritesFit
<1>3. CASE ~(CreateCall(r) \/ UpdateCall(r))
    <2>1. \A k \in Keys : store'[k].spec.by = r => store[k].spec.by = r
        BY <1>3, AuthorStep
    <2>2. CASE UNCHANGED <<req[r], pc[r], wrote[r]>>
        BY <2>1, <2>2 DEF WritesFit
    <2>3. CASE ReadCall(r)
        <3>1. wrote' = wrote /\ req' = req /\ pc[r] = "read"
            BY <2>3 DEF ReadCall
        <3>2. req[r].content \in Contents
            BY <1>1, <3>1, CalledIsRequest DEF ReqInv, Calls
        <3>3. pc'[r] = "panic" => req[r].content = "expr"
            BY <1>1, <2>3, <3>2 DEF ReadCall, Answer, TypeOK, Contents
        <3> QED BY <1>1, <2>1, <3>1, <3>3 DEF WritesFit, ReqInv, OpFits
    <2>4. CASE Begin(r)
        <3>1. pc'[r] # "panic" /\ wrote' = wrote /\ pc[r] = "new"
            BY <1>1, <2>4, RequestTypes DEF Begin, FirstCall, Answer, TypeOK
        <3> QED BY <2>1, <3>1 DEF WritesFit
    <2>5. CASE DeleteCall(r) \/ CheckCall(r) \/ ListCall(r) \/ GetCall(r)
               \/ CallFails(r) \/ SyncList(r) \/ SyncListFails(r)
        <3>1. /\ wrote' = wrote /\ pc[r] \in Calls
              /\ pc'[r] # "panic"
            BY <1>1, <2>5
            DEF DeleteCall, CheckCall, ListCall, GetCall, CallFails, SyncList,
                SyncListFails, AfterList, Answer, AnswerWrite, TypeOK, Calls
        <3> QED BY <2>1, <3>1 DEF WritesFit, Calls
    <2>6. CASE UNCHANGED vars \/ \E k \in Keys : Foreign(k)
        BY <2>2, <2>6 DEF vars, Foreign
    <2> QED BY <1>1, <1>3, <2>2, <2>3, <2>4, <2>5, <2>6, OthersWait DEF Next
<1> QED BY <1>2, <1>3

LEMMA EndAlways == Spec => [](RuleInv /\ EndInv)
<1>1. RuleInv /\ EndInv /\ [Next]_vars => EndInv'
    BY WritesFitStep DEF EndInv
<1> QED BY <1>1, EndInvInit, RulesInvariant, PTL DEF Spec

\* Only the fallback of an update panics, and nothing of that request is in
\* any rule (UpdateRule, between its read and its write).
THEOREM PanicsLeaveNothing == Spec => []PanicsWriteNothing
<1>1. EndInv => PanicsWriteNothing
    BY DEF EndInv, WritesFit, PanicsWriteNothing
<1> QED BY <1>1, EndAlways, PTL

-----------------------------------------------------------------------------
(***************************************************************************)
(* AlertRules implements RuleContract.                                     *)
(***************************************************************************)

\* A version is all that tells a rule from no rule.
LEMMA RuleIsThere ==
    ASSUME TypeOK, NEW k \in Keys
    PROVE  (RuleAt(k) # NoRule) = Exists(k)
<1>1. store[k].spec.form \in {"json", "wrapped"}
    BY DEF TypeOK, Objects, Specs
<1>2. NoRule.form = "none"
    BY DEF NoRule
<1>3. CASE Exists(k)
    <2>1. RuleAt(k).form = store[k].spec.form
        BY <1>3 DEF RuleAt
    <2> QED BY <1>1, <1>2, <1>3, <2>1
<1>4. CASE ~Exists(k)
    BY <1>4 DEF RuleAt, Exists
<1> QED BY <1>3, <1>4 DEF Exists

LEMMA FindsIsExists ==
    ASSUME TypeOK, NEW r \in Reqs, Key(r) \in Keys
    PROVE  Contract!Finds(r) = Exists(Key(r))
<1>1. AskOf(req[r]).key = Key(r)
    BY DEF AskOf, Key
<1>2. [k \in Keys |-> RuleAt(k)][Key(r)] = RuleAt(Key(r))
    OBVIOUS
<1>3. (RuleAt(Key(r)) # NoRule) = Exists(Key(r))
    BY RuleIsThere
<1>4. Contract!Finds(r) = (Key(r) \in Keys /\ RuleAt(Key(r)) # NoRule)
    BY <1>1, <1>2 DEF Contract!Finds
<1> QED BY <1>3, <1>4

\* A call that is not the last one is not seen.
LEMMA NextCallStutters ==
    ASSUME TypeOK, NEW r \in Reqs, pc[r] \in Calls, NEW c \in Calls,
           Answer(r, c), UNCHANGED <<store, req>>
    PROVE  UNCHANGED Contract!vars
<1>1. \A s \in Reqs : AnswerOf(s)' = AnswerOf(s)
    BY DEF AnswerOf, Answer, TypeOK
<1>2. \A k \in Keys : RuleAt(k)' = RuleAt(k)
    BY DEF RuleAt, Exists
<1> QED BY <1>1, <1>2 DEF Contract!vars

\* The answer ends the request.
LEMMA AnswerIsSeen ==
    ASSUME TypeOK, NEW r \in Reqs, pc[r] \in Calls, NEW a \in Answers,
           Answer(r, a)
    PROVE  /\ AnswerOf(r) = "open"
           /\ [s \in Reqs |-> AnswerOf(s)']
                = [[s \in Reqs |-> AnswerOf(s)] EXCEPT ![r] = a]
<1>1. a \notin Calls
    BY DEF Answers, Calls
<1>2. pc' = [pc EXCEPT ![r] = a] /\ pc \in [Reqs -> {"new"} \cup Calls \cup Answers]
    BY DEF Answer, TypeOK
<1>3. \A s \in Reqs : AnswerOf(s)' = IF s = r THEN a ELSE AnswerOf(s)
    BY <1>1, <1>2 DEF AnswerOf
<1>4. AnswerOf(r) = "open"
    BY DEF AnswerOf
<1> QED BY <1>3, <1>4

LEMMA FinishIsSeen ==
    ASSUME TypeOK, NEW r \in Reqs, pc[r] \in Calls, NEW a \in Answers,
           Answer(r, a), UNCHANGED <<store, req>>
    PROVE  Contract!Finish(r, a)
<1>1. \A k \in Keys : RuleAt(k)' = RuleAt(k)
    BY DEF RuleAt, Exists
<1> QED BY <1>1, AnswerIsSeen DEF Contract!Finish

\* A write to the store is a write of the contract.
LEMMA WriteIsSeen ==
    ASSUME TypeOK, NEW r \in Reqs, pc[r] \in Calls, Key(r) \in Keys,
           AnswerWrite(r), req' = req, NEW rule,
           \A k \in Keys : RuleAt(k)' = IF k = Key(r) THEN rule ELSE RuleAt(k)
    PROVE  Contract!Write(r, rule)
<1>1. AskOf(req[r]).key = Key(r)
    BY DEF AskOf, Key
<1>2. PICK a \in {"ok", "error"} : Answer(r, a)
    BY DEF AnswerWrite, Answer
<1>3. /\ AnswerOf(r) = "open"
      /\ [s \in Reqs |-> AnswerOf(s)']
            = [[s \in Reqs |-> AnswerOf(s)] EXCEPT ![r] = a]
    BY <1>2, AnswerIsSeen DEF Answers
<1>4. [k \in Keys |-> RuleAt(k)']
        = [[k \in Keys |-> RuleAt(k)] EXCEPT ![Key(r)] = rule]
    OBVIOUS
<1>5. [s \in Reqs |-> AskOf(req[s])'] = [s \in Reqs |-> AskOf(req[s])]
    OBVIOUS
<1> QED BY <1>1, <1>3, <1>4, <1>5 DEF Contract!Write

LEMMA PutIsSeen ==
    ASSUME TypeOK, NEW r \in Reqs, NEW form \in {"json", "wrapped"},
           NEW c \in BOOLEAN, Put(r, form, c), Key(r) \in Keys
    PROVE  \A k \in Keys : RuleAt(k)' =
             IF k = Key(r) THEN [by |-> r, form |-> form, managed |-> TRUE,
                                 configMap |-> c]
                           ELSE RuleAt(k)
<1>1. rev' \in Int /\ rev' # 0
    BY RuleConstants DEF TypeOK, Put, NewRev
<1>2. \A k \in Keys : store'[k] =
        IF k = Key(r) THEN [spec |-> [by |-> r, form |-> form], rv |-> rev',
                            managed |-> TRUE, configMap |-> c]
                      ELSE store[k]
    BY DEF TypeOK, Put
<1>3. ASSUME NEW k \in Keys, k = Key(r)
      PROVE  RuleAt(k)' = [by |-> r, form |-> form, managed |-> TRUE,
                           configMap |-> c]
    <2>1. /\ store'[k].rv # 0
          /\ store'[k].spec.by = r
          /\ store'[k].spec.form = form
          /\ store'[k].managed = TRUE
          /\ store'[k].configMap = c
        BY <1>1, <1>2, <1>3
    <2> QED BY <2>1 DEF RuleAt, Exists
<1>4. ASSUME NEW k \in Keys, k # Key(r) PROVE RuleAt(k)' = RuleAt(k)
    BY <1>2, <1>4 DEF RuleAt, Exists
<1> QED BY <1>3, <1>4

\* What the call of a request is to the contract.
LEMMA BeginIsAsk ==
    ASSUME RuleInv, NEW r \in Reqs, Begin(r)
    PROVE  Contract!Ask(r)
<1>1. PICK q \in Requests : /\ req' = [req EXCEPT ![r] = Kept(q)]
                            /\ Answer(r, FirstCall(q))
    BY DEF Begin
<1>2. /\ Kept(q).op \in {"create", "update", "get", "delete", "list", "sync"}
      /\ Kept(q).content \in Contents
      /\ Kept(q).name \in Names \cup {""}
    BY KeptIsRequest, RequestTypes
<1>3. AskOf(Kept(q)) \in Asks
    <2>1. GVROf(Kept(q).type) \in GVRs \cup {"unsupported"}
        BY DEF GVROf, GVRs
    <2>2. AskOf(Kept(q)).form \in {"json", "wrapped", "none"}
        BY <1>2 DEF AskOf, Contents
    <2> QED BY <1>2, <2>1, <2>2 DEF AskOf, Asks
<1>4. TypeOK /\ pc[r] = "new"
    BY DEF RuleInv, Begin
<1>5. pc' = [pc EXCEPT ![r] = pc'[r]] /\ pc'[r] \in {"error"} \cup Calls
    BY <1>1, <1>4, RequestTypes DEF FirstCall, Answer, TypeOK, Calls
<1>6. AnswerOf(r) = "new" /\ AnswerOf(r)' \in {"open", "error"}
    BY <1>4, <1>5 DEF AnswerOf, Calls
<1>7. [s \in Reqs |-> AnswerOf(s)']
        = [[s \in Reqs |-> AnswerOf(s)] EXCEPT ![r] = AnswerOf(r)']
    BY <1>4, <1>5 DEF AnswerOf, TypeOK
<1>8. [s \in Reqs |-> AskOf(req[s])']
        = [[s \in Reqs |-> AskOf(req[s])] EXCEPT ![r] = AskOf(Kept(q))]
    BY <1>1, <1>4 DEF TypeOK
<1>9. \A k \in Keys : RuleAt(k)' = RuleAt(k)
    BY DEF Begin, RuleAt, Exists
<1> QED BY <1>3, <1>6, <1>7, <1>8, <1>9 DEF Contract!Ask

LEMMA CreateIsCreate ==
    ASSUME RuleInv, NEW r \in Reqs, CreateCall(r)
    PROVE  Contract!Create(r)
<1> DEFINE form == IF req[r].content = "json" THEN "json" ELSE "wrapped"
<1>1. /\ TypeOK /\ Key(r) \in Keys /\ pc[r] \in Calls
      /\ req[r].op = "create" /\ req[r].content \in {"json", "expr"}
    BY CalledIsRequest DEF CreateCall, RuleInv, ReqInv, OpFits, KeyFits,
        ContentFits, Calls, Contents
<1>2. AskOf(req[r]).op = "create" /\ AskOf(req[r]).form = form
    BY <1>1 DEF AskOf
<1>3. Contract!Agents(r, FALSE) = [by |-> r, form |-> form, managed |-> TRUE,
                                   configMap |-> FALSE]
    BY <1>2 DEF Contract!Agents
<1>4. \A k \in Keys : RuleAt(k)' =
        IF k = Key(r) THEN Contract!Agents(r, FALSE) ELSE RuleAt(k)
    BY <1>1, <1>3, PutIsSeen DEF CreateCall
<1>5. Contract!Write(r, Contract!Agents(r, FALSE))
    BY <1>1, <1>4, WriteIsSeen DEF CreateCall
<1>6. ~Contract!Finds(r)
    BY <1>1, FindsIsExists DEF CreateCall
<1> QED BY <1>2, <1>5, <1>6 DEF Contract!Create, Contract!Forms

\* The write of an update is the whole update: the version shows that the
\* rule is still the one that was read.
LEMMA UpdateIsUpdate ==
    ASSUME RuleInv, NEW r \in Reqs, UpdateCall(r)
    PROVE  Contract!Update(r)
<1> DEFINE c == saw[r].configMap
<1>1. /\ TypeOK /\ Key(r) \in Keys /\ pc[r] \in Calls
      /\ req[r].op = "update" /\ req[r].content = "json"
      /\ store[Key(r)] = saw[r] /\ Exists(Key(r)) /\ c \in BOOLEAN
    BY DEF UpdateCall, RuleInv, ReqInv, OpFits, KeyFits, SawFits, Calls,
        TypeOK, Objects
<1>2. AskOf(req[r]).op = "update" /\ AskOf(req[r]).form = "json"
      /\ AskOf(req[r]).key = Key(r)
    BY <1>1 DEF AskOf, Key
<1>3. [k \in Keys |-> RuleAt(k)][AskOf(req[r]).key].configMap = c
    BY <1>1, <1>2 DEF RuleAt
<1>4. Contract!Agents(r, c) = [by |-> r, form |-> "json", managed |-> TRUE,
                               configMap |-> c]
    BY <1>2 DEF Contract!Agents
<1>5. \A k \in Keys : RuleAt(k)' =
        IF k = Key(r) THEN Contract!Agents(r, c) ELSE RuleAt(k)
    BY <1>1, <1>4, PutIsSeen DEF UpdateCall
<1>6. Contract!Write(r, Contract!Agents(r, c))
    BY <1>1, <1>5, WriteIsSeen DEF UpdateCall
<1>7. Contract!Finds(r)
    BY <1>1, FindsIsExists
<1> QED BY <1>2, <1>3, <1>6, <1>7 DEF Contract!Update

LEMMA DeleteIsDelete ==
    ASSUME RuleInv, NEW r \in Reqs, DeleteCall(r)
    PROVE  Contract!Delete(r)
<1>1. /\ TypeOK /\ Key(r) \in Keys /\ pc[r] \in Calls
      /\ req[r].op = "delete" /\ Exists(Key(r))
    BY DEF DeleteCall, RuleInv, ReqInv, OpFits, KeyFits, Calls
<1>2. \A k \in Keys : RuleAt(k)' = IF k = Key(r) THEN NoRule ELSE RuleAt(k)
    BY <1>1 DEF DeleteCall, RuleAt, Exists, Absent, TypeOK
<1>3. Contract!Write(r, NoRule)
    BY <1>1, <1>2, WriteIsSeen DEF DeleteCall
<1>4. AskOf(req[r]).op = "delete"
    BY <1>1 DEF AskOf
<1> QED BY <1>1, <1>3, <1>4, FindsIsExists DEF Contract!Delete

LEMMA ForeignIsForeign ==
    ASSUME RuleInv, NEW k \in Keys, Foreign(k)
    PROVE  Contract!Foreign(k)
<1>1. TypeOK /\ NewRev # 0
    BY RuleConstants DEF RuleInv, TypeOK, NewRev
<1>2. UNCHANGED <<[r \in Reqs |-> AskOf(req[r])], [r \in Reqs |-> AnswerOf(r)]>>
    BY DEF Foreign, AnswerOf
<1>3. CASE store' = [store EXCEPT ![k] = Absent]
    <2>1. [j \in Keys |-> RuleAt(j)'] = [[j \in Keys |-> RuleAt(j)] EXCEPT ![k] = NoRule]
        BY <1>1, <1>3 DEF RuleAt, Exists, Absent, TypeOK
    <2> QED BY <1>2, <2>1 DEF Contract!Foreign
<1>4. ASSUME NEW m \in BOOLEAN, NEW c \in BOOLEAN,
             store' = [store EXCEPT ![k] =
                [spec |-> [by |-> NoReq, form |-> "json"], rv |-> NewRev,
                 managed |-> m, configMap |-> c]]
      PROVE  Contract!Foreign(k)
    <2> DEFINE rule == [by |-> NoReq, form |-> "json", managed |-> m,
                        configMap |-> c]
    <2>2. \A j \in Keys : RuleAt(j)' = IF j = k THEN rule ELSE RuleAt(j)
        BY <1>1, <1>4 DEF RuleAt, Exists, TypeOK
    <2>3. [j \in Keys |-> RuleAt(j)'] = [[j \in Keys |-> RuleAt(j)] EXCEPT ![k] = rule]
        BY <2>2
    <2>4. rule \in Contract!ForeignRules
        BY DEF Contract!ForeignRules
    <2> QED BY <1>2, <2>3, <2>4 DEF Contract!Foreign
<1> QED BY <1>3, <1>4 DEF Foreign

\* The calls that do not write: a read before a write is not seen, the last
\* one ends the request.
LEMMA ReadsAreLooks ==
    ASSUME RuleInv, NEW r \in Reqs,
           \/ GetCall(r)  \/ CheckCall(r) \/ ReadCall(r) \/ ListCall(r)
           \/ SyncList(r) \/ SyncListFails(r) \/ CallFails(r)
    PROVE  \/ UNCHANGED Contract!vars
           \/ Contract!Look(r) \/ Contract!Refuse(r) \/ Contract!Panic(r)
<1>1. TypeOK /\ ReqInv(r)
    BY DEF RuleInv
<1>2. AskOf(req[r]).op = req[r].op
    BY DEF AskOf
<1>3. CASE GetCall(r)
    <2>1. Contract!Finish(r, "ok")
        BY <1>1, <1>3, FinishIsSeen DEF GetCall, Calls, Answers
    <2>2. Contract!Finds(r)
        BY <1>1, <1>3, FindsIsExists DEF GetCall, ReqInv, KeyFits
    <2> QED BY <1>2, <1>3, <2>1, <2>2 DEF GetCall, Contract!Look
<1>4. CASE CheckCall(r)
    BY <1>1, <1>4, NextCallStutters DEF CheckCall, Calls
<1>5. CASE ReadCall(r)
    <2>1. /\ pc[r] = "read" /\ UNCHANGED <<store, req>>
          /\ req[r].op = "update" /\ req[r].content \in Contents
        BY <1>1, <1>5, CalledIsRequest DEF ReadCall, ReqInv, OpFits, Calls
    <2>2. CASE req[r].content = "json"
        BY <1>1, <1>5, <2>1, <2>2, NextCallStutters DEF ReadCall, Calls
    <2>3. CASE req[r].content = "empty"
        BY <1>1, <1>2, <1>5, <2>1, <2>3, FinishIsSeen
        DEF ReadCall, Calls, Answers, Contract!Refuse
    <2>4. CASE req[r].content = "expr"
        <3>1. Contract!Finish(r, "panic")
            BY <1>1, <1>5, <2>1, <2>4, FinishIsSeen DEF ReadCall, Calls, Answers
        <3>2. AskOf(req[r]).form = "wrapped"
            BY <2>4 DEF AskOf
        <3> QED BY <1>2, <2>1, <3>1, <3>2 DEF Contract!Panic
    <2> QED BY <2>1, <2>2, <2>3, <2>4 DEF Contents
<1>6. CASE ListCall(r)
    BY <1>1, <1>2, <1>6, FinishIsSeen
    DEF ListCall, ReqInv, OpFits, Calls, Answers, Contract!Look
<1>7. CASE SyncList(r) \/ SyncListFails(r)
    <2>1. /\ pc[r] \in {"vm", "prometheus"} /\ AfterList(r)
          /\ UNCHANGED <<store, req>>
        BY <1>7 DEF SyncList, SyncListFails
    <2>2. CASE pc[r] = "vm"
        BY <1>1, <2>1, <2>2, NextCallStutters DEF AfterList, Calls
    <2>3. CASE pc[r] = "prometheus"
        BY <1>1, <1>2, <2>1, <2>3, FinishIsSeen
        DEF AfterList, ReqInv, OpFits, Calls, Answers, Contract!Look
    <2> QED BY <2>1, <2>2, <2>3
<1>8. CASE CallFails(r)
    BY <1>1, <1>2, <1>8, FinishIsSeen
    DEF CallFails, ReqInv, OpFits, Calls, Answers, Contract!Refuse
<1> QED BY <1>3, <1>4, <1>5, <1>6, <1>7, <1>8

\* The requests implement the contract: the calls of k8s_manager.go that come
\* before a write cannot be told from one atomic step on the rule.
THEOREM RulesKeepContract == Spec => KeepsRules
<1>1. Init => Contract!Init
    BY DEF Init, Contract!Init, RuleAt, Exists, Absent, AnswerOf, Calls
<1>2. RuleInv /\ [Next]_vars => [Contract!Next]_(Contract!vars)
    <2> SUFFICES ASSUME RuleInv, [Next]_vars
                 PROVE  [Contract!Next]_(Contract!vars)
        OBVIOUS
    <2>1. ASSUME NEW r \in Reqs, Begin(r) PROVE Contract!Next
        BY <2>1, BeginIsAsk DEF Contract!Next
    <2>2. ASSUME NEW r \in Reqs, CreateCall(r) PROVE Contract!Next
        BY <2>2, CreateIsCreate DEF Contract!Next
    <2>3. ASSUME NEW r \in Reqs, UpdateCall(r) PROVE Contract!Next
        BY <2>3, UpdateIsUpdate DEF Contract!Next
    <2>4. ASSUME NEW r \in Reqs, DeleteCall(r) PROVE Contract!Next
        BY <2>4, DeleteIsDelete DEF Contract!Next
    <2>5. ASSUME NEW k \in Keys, Foreign(k) PROVE Contract!Next
        BY <2>5, ForeignIsForeign DEF Contract!Next
    <2>6. ASSUME NEW r \in Reqs,
                 \/ GetCall(r)  \/ CheckCall(r) \/ ReadCall(r) \/ ListCall(r)
                 \/ SyncList(r) \/ SyncListFails(r) \/ CallFails(r)
          PROVE  [Contract!Next]_(Contract!vars)
        BY <2>6, ReadsAreLooks DEF Contract!Next
    <2>7. CASE UNCHANGED vars
        BY <2>7 DEF vars, Contract!vars, RuleAt, Exists, AnswerOf
    <2> QED BY <2>1, <2>2, <2>3, <2>4, <2>5, <2>6, <2>7 DEF Next
<1> QED BY <1>1, <1>2, RulesInvariant, PTL DEF Spec, KeepsRules, Contract!Spec

=============================================================================
