----------------------------- MODULE AlertRules ------------------------------
(***************************************************************************)
(* The alert-rule services (biz/service/*_alert_rule.go) and the manager   *)
(* they share (biz/dal/alertrule/k8s_manager.go).  The agent keeps no      *)
(* rules: every request is a short chain of calls to the Kubernetes API,   *)
(* and requests of several clients, kubectl and failing calls interleave   *)
(* between the links.  The API server is external: it is modelled by the   *)
(* optimistic concurrency the calls rely on (a new resourceVersion with    *)
(* every write, Update refused when the version is stale, Create when the  *)
(* name exists, Get and Delete when it does not).                          *)
(*                                                                         *)
(* One namespace is modelled: an empty one means "monitoring" in every     *)
(* call.                                                                   *)
(***************************************************************************)
EXTENDS Integers

CONSTANTS
    Reqs,       \* the requests
    Names,      \* the non-empty rule names in use
    NoReq,      \* the author of specs that no request wrote
    MaxRev      \* bound: creations and updates in one behaviour

ASSUME RuleConstants == NoReq \notin Reqs /\ MaxRev \in Nat

VARIABLES
    store,  \* the rule objects of the API server
    rev,    \* the last resourceVersion given to an object
    req,    \* what each request asks for
    pc,     \* the next API call of each request, or how it was answered
    saw,    \* the object a request has read
    wrote,  \* the resourceVersion a request's own write was given
    found,  \* the rules in the answer of a list or sync
    missed  \* the lists of a sync that did not get through

vars == <<store, rev, req, pc, saw, wrote, found, missed>>

GVRs == {"vmrules", "prometheusrules"}
Keys == GVRs \X Names

\* rule.Content: empty, a JSON object, or anything else (a bare expression).
Contents == {"empty", "json", "expr"}

\* A spec is told apart by its author; "wrapped" is the single-alert group
\* that CreateRule builds around content that is not JSON.
Specs == [by : Reqs \cup {NoReq}, form : {"json", "wrapped"}]

\* managed: the labels app and managed-by; configMap: the label config-map.
Objects == [spec : Specs, rv : 0..MaxRev, managed : BOOLEAN,
            configMap : BOOLEAN]
Absent == [spec |-> [by |-> NoReq, form |-> "json"], rv |-> 0,
           managed |-> FALSE, configMap |-> FALSE]

Types == {"", "vm", "victoriaMetrics", "prometheus"}

\* A request.  filter: config_map is given.  The fields that an operation
\* does not look at have one value.
Request(ops, types, names, contents, filters) ==
    [op : ops, type : types, name : names, content : contents,
     filter : filters]
Requests ==
    UNION {Request({"create", "update"}, Types, Names \cup {""}, Contents,
                   {FALSE}),
           Request({"get", "delete"}, Types, Names \cup {""}, {"empty"},
                   {FALSE}),
           Request({"list"}, Types, {""}, {"empty"}, BOOLEAN),
           Request({"sync"}, {""}, {""}, {"empty"}, BOOLEAN)}
NoRequest == [op |-> "none", type |-> "", name |-> "", content |-> "empty",
              filter |-> FALSE]

\* What every service checks before it calls the manager.
Valid(q) ==
    /\ q.type # "" \/ q.op = "sync"
    /\ q.name # "" \/ q.op \in {"list", "sync"}
    /\ q.content # "empty" \/ q.op # "create"

\* getGVRByType.
GVROf(type) == IF type = "victoriaMetrics" THEN "vmrules"
               ELSE IF type = "prometheus" THEN "prometheusrules"
               ELSE "unsupported"

Key(r) == <<GVROf(req[r].type), req[r].name>>
Exists(k) == store[k].rv # 0

\* The next API call of a request; a sync lists the types "vm" and
\* "prometheus", one after the other.
Calls == {"create", "check", "read", "update", "delete", "list", "vm",
          "prometheus"}
Answers == {"ok", "error", "panic"}

TypeOK ==
    /\ store \in [Keys -> Objects]
    /\ rev \in 0..MaxRev
    /\ req \in [Reqs -> Requests \cup {NoRequest}]
    /\ pc \in [Reqs -> {"new"} \cup Calls \cup Answers]
    /\ saw \in [Reqs -> Objects]
    /\ wrote \in [Reqs -> 0..MaxRev]
    /\ found \in [Reqs -> SUBSET Keys]
    /\ missed \in [Reqs -> SUBSET {"vm", "prometheus"}]

Init ==
    /\ store = [k \in Keys |-> Absent]
    /\ rev = 0
    /\ req = [r \in Reqs |-> NoRequest]
    /\ pc = [r \in Reqs |-> "new"]
    /\ saw = [r \in Reqs |-> Absent]
    /\ wrote = [r \in Reqs |-> 0]
    /\ found = [r \in Reqs |-> {}]
    /\ missed = [r \in Reqs |-> {}]

-----------------------------------------------------------------------------
(***************************************************************************)
(* The API server, as the calls see it.                                    *)
(***************************************************************************)

\* Every object written gets the next version number of the whole store.  (A
\* removal gives a version to no object that stays.)
NewRev == rev + 1

Put(r, form, configMap) ==
    /\ rev < MaxRev
    /\ rev' = NewRev
    /\ wrote' = [wrote EXCEPT ![r] = rev']
    /\ store' = [store EXCEPT ![Key(r)] =
            [spec |-> [by |-> r, form |-> form], rv |-> rev',
             managed |-> TRUE, configMap |-> configMap]]

\* The answer to a write may be lost on its way back.
AnswerWrite(r) == \E a \in {"ok", "error"} : pc' = [pc EXCEPT ![r] = a]

Answer(r, a) == pc' = [pc EXCEPT ![r] = a]

\* The objects that match the label selector of list and sync.
Matching(gvr, filter) ==
    {k \in Keys : /\ k[1] = gvr
                  /\ Exists(k)
                  /\ store[k].managed
                  /\ filter => store[k].configMap}

-----------------------------------------------------------------------------
(***************************************************************************)
(* Mutated forms of some definitions: plausible bugs that the properties   *)
(* must detect.  No specification uses them.                               *)
(***************************************************************************)

\* The update is sent without the resourceVersion that was read.
UpdateCall_Blind(r) ==
    /\ pc[r] = "update"
    /\ Exists(Key(r))
    /\ Put(r, "json", saw[r].configMap)
    /\ AnswerWrite(r)
    /\ UNCHANGED <<req, saw, found, missed>>

\* Content that is not JSON is stored as it is.
CreateCall_NoWrap(r) ==
    /\ pc[r] = "create"
    /\ ~Exists(Key(r))
    /\ Put(r, "json", FALSE)
    /\ AnswerWrite(r)
    /\ UNCHANGED <<req, saw, found, missed>>

\* The labels of the rule are replaced instead of added to.
UpdateCall_NewLabels(r) ==
    /\ pc[r] = "update"
    /\ Exists(Key(r))
    /\ store[Key(r)].rv = saw[r].rv
    /\ Put(r, "json", FALSE)
    /\ AnswerWrite(r)
    /\ UNCHANGED <<req, saw, found, missed>>

\* Empty content goes the way of content that is not JSON.
ReadCall_EmptyToo(r) ==
    /\ pc[r] = "read"
    /\ Exists(Key(r))
    /\ saw' = [saw EXCEPT ![r] = store[Key(r)]]
    /\ Answer(r, IF req[r].content = "json" THEN "update" ELSE "panic")
    /\ UNCHANGED <<store, rev, req, wrote, found, missed>>

-----------------------------------------------------------------------------
(***************************************************************************)
(* The requests.                                                           *)
(***************************************************************************)

\* What a request comes to before its first API call: validation, then
\* getGVRByType (which sync reaches once for each list).
FirstCall(q) ==
    IF ~Valid(q) THEN "error"
    ELSE IF q.op = "sync" THEN "vm"
    ELSE IF GVROf(q.type) \notin GVRs THEN "error"
    ELSE IF q.op \in {"create", "list"} THEN q.op
    ELSE "check"

\* What matters of a request from then on: nothing but the operation, of one
\* that is refused at once.
Kept(q) ==
    IF FirstCall(q) = "error"
    THEN [op |-> q.op, type |-> "", name |-> "", content |-> "empty",
          filter |-> FALSE]
    ELSE q

\* A client's request.
Begin(r) ==
    /\ pc[r] = "new"
    /\ \E q \in Requests : /\ req' = [req EXCEPT ![r] = Kept(q)]
                           /\ Answer(r, FirstCall(q))
    /\ UNCHANGED <<store, rev, saw, wrote, found, missed>>

\* CreateRule: content that is not JSON is wrapped into a rule group.
CreateCall(r) ==
    /\ pc[r] = "create"
    /\ ~Exists(Key(r))
    /\ Put(r, IF req[r].content = "json" THEN "json" ELSE "wrapped", FALSE)
    /\ AnswerWrite(r)
    /\ UNCHANGED <<req, saw, found, missed>>

\* GetRule is all that get does, and what update and delete begin with.
GetCall(r) ==
    /\ pc[r] = "check" /\ req[r].op = "get"
    /\ Exists(Key(r))
    /\ saw' = [saw EXCEPT ![r] = store[Key(r)]]
    /\ Answer(r, "ok")
    /\ UNCHANGED <<store, rev, req, wrote, found, missed>>

CheckCall(r) ==
    /\ pc[r] = "check" /\ req[r].op \in {"update", "delete"}
    /\ Exists(Key(r))
    /\ saw' = [saw EXCEPT ![r] = store[Key(r)]]
    /\ Answer(r, IF req[r].op = "update" THEN "read" ELSE "delete")
    /\ UNCHANGED <<store, rev, req, wrote, found, missed>>

\* UpdateRule reads the object once more.  Empty content is an error; the
\* spec built for content that is not JSON makes SetNestedMap panic (it
\* cannot deep-copy a []map[string]interface{}).
ReadCall(r) ==
    /\ pc[r] = "read"
    /\ Exists(Key(r))
    /\ saw' = [saw EXCEPT ![r] = store[Key(r)]]
    /\ Answer(r, CASE req[r].content = "empty" -> "error"
                   [] req[r].content = "expr"  -> "panic"
                   [] req[r].content = "json"  -> "update")
    /\ UNCHANGED <<store, rev, req, wrote, found, missed>>

\* The object that was read goes back with the new spec and the agent's
\* labels; a version that is not the current one is a conflict.
UpdateCall(r) ==
    /\ pc[r] = "update"
    /\ Exists(Key(r))
    /\ store[Key(r)].rv = saw[r].rv
    /\ Put(r, "json", saw[r].configMap)
    /\ AnswerWrite(r)
    /\ UNCHANGED <<req, saw, found, missed>>

\* DeleteRule: whatever has the name now is deleted.
DeleteCall(r) ==
    /\ pc[r] = "delete"
    /\ Exists(Key(r))
    /\ store' = [store EXCEPT ![Key(r)] = Absent]
    /\ AnswerWrite(r)
    /\ UNCHANGED <<rev, req, saw, wrote, found, missed>>

ListCall(r) ==
    /\ pc[r] = "list"
    /\ found' = [found EXCEPT ![r] =
                    Matching(GVROf(req[r].type), req[r].filter)]
    /\ Answer(r, "ok")
    /\ UNCHANGED <<store, rev, req, saw, wrote, missed>>

\* One round of sync's loop over the types.  A type that getGVRByType does
\* not know is skipped like a list that fails.
AfterList(r) == Answer(r, IF pc[r] = "vm" THEN "prometheus" ELSE "ok")
SyncList(r) ==
    /\ pc[r] \in {"vm", "prometheus"}
    /\ found' = [found EXCEPT ![r] =
                    @ \cup Matching(GVROf(pc[r]), req[r].filter)]
    /\ AfterList(r)
    /\ UNCHANGED <<store, rev, req, saw, wrote, missed>>
SyncListFails(r) ==
    /\ pc[r] \in {"vm", "prometheus"}
    /\ GVROf(pc[r]) \in GVRs
    /\ missed' = [missed EXCEPT ![r] = @ \cup {pc[r]}]
    /\ AfterList(r)
    /\ UNCHANGED <<store, rev, req, saw, wrote, found>>

\* A call that is refused (exists, not found, conflict) or does not get
\* through ends the request with an error; nothing is retried.
CallFails(r) ==
    /\ pc[r] \in {"create", "check", "read", "update", "delete", "list"}
    /\ Answer(r, "error")
    /\ UNCHANGED <<store, rev, req, saw, wrote, found, missed>>

\* Somebody else (kubectl, an operator, another agent) writes or removes a
\* rule.
Foreign(k) ==
    /\ \/ /\ Exists(k)
          /\ store' = [store EXCEPT ![k] = Absent]
          /\ rev' = rev
       \/ /\ rev < MaxRev
          /\ rev' = NewRev
          /\ \E m, c \in BOOLEAN :
                store' = [store EXCEPT ![k] =
                    [spec |-> [by |-> NoReq, form |-> "json"], rv |-> NewRev,
                     managed |-> m, configMap |-> c]]
    /\ UNCHANGED <<req, pc, saw, wrote, found, missed>>

Next ==
    \/ \E r \in Reqs :
        \/ Begin(r)       \/ CreateCall(r)  \/ CheckCall(r)  \/ ReadCall(r)
        \/ UpdateCall(r)  \/ DeleteCall(r)  \/ ListCall(r)   \/ SyncList(r)
        \/ SyncListFails(r)                 \/ GetCall(r)    \/ CallFails(r)
    \/ \E k \in Keys : Foreign(k)

Spec == Init /\ [][Next]_vars

-----------------------------------------------------------------------------
(***************************************************************************)
(* Properties.                                                             *)
(***************************************************************************)

\* The version names the object: a request about to send its update that
\* holds the current version of a rule holds the current rule, also when the
\* rule was deleted and created again since it was read.  (What UpdateRule's
\* read-modify-write relies on.)
VersionIsObject ==
    \A r \in Reqs :
        pc[r] = "update" /\ store[Key(r)].rv = saw[r].rv
            => store[Key(r)] = saw[r]

\* No lost update: when an update request changes a rule, the rule it
\* replaces is the very one the request has read, so no write in between is
\* lost, a deleted rule is not brought back, and its other labels survive.
NoLostUpdate ==
    [][\A r \in Reqs :
        pc[r] = "update" /\ pc'[r] # "update" /\ store' # store =>
            /\ store[Key(r)] = saw[r]
            /\ Exists(Key(r))
            /\ store'[Key(r)].configMap = store[Key(r)].configMap]_vars

\* What was acknowledged was written: as long as a rule still has the
\* version a create or update gave it, it holds that request's content in
\* the form the request asked for, and list and sync find it.
AckedIsStored ==
    \A r \in Reqs :
        pc[r] = "ok" /\ req[r].op \in {"create", "update"} =>
            /\ wrote[r] # 0
            /\ store[Key(r)].rv = wrote[r] =>
                /\ store[Key(r)].spec.by = r
                /\ (store[Key(r)].spec.form = "wrapped") =
                        (req[r].content = "expr")
                /\ Key(r) \in Matching(Key(r)[1], FALSE)

\* sync_alert_rule.go says it syncs all alert rules of the cluster and lists
\* the types vm and prometheus: unless the list of a type did not get
\* through, a sync without a filter finds the agent's rules of that type.
SyncFindsAll ==
    [][\A r \in Reqs :
        /\ pc[r] \in {"vm", "prometheus"} /\ pc'[r] # pc[r]
        /\ ~req[r].filter
        /\ missed'[r] = missed[r]
        => {k \in Keys :
                /\ k[1] = (IF pc[r] = "vm" THEN "vmrules"
                                           ELSE "prometheusrules")
                /\ Exists(k) /\ store[k].managed} \subseteq found'[r]]_vars

\* The requests as RuleContract sees them: a rule without its version, a
\* request that is open from its first API call to its answer.
NoRule == [by |-> NoReq, form |-> "none", managed |-> FALSE,
           configMap |-> FALSE]
RuleAt(k) ==
    IF Exists(k) THEN [by |-> store[k].spec.by, form |-> store[k].spec.form,
                       managed |-> store[k].managed,
                       configMap |-> store[k].configMap]
                 ELSE NoRule
AskOf(q) ==
    [op |-> q.op, key |-> <<GVROf(q.type), q.name>>,
     form |-> CASE q.content = "json"  -> "json"
                [] q.content = "expr"  -> "wrapped"
                [] q.content = "empty" -> "none"]
Asks == [op : {"create", "update", "get", "delete", "list", "sync"},
         key : (GVRs \cup {"unsupported"}) \X (Names \cup {""}),
         form : {"json", "wrapped", "none"}]
AnswerOf(r) == IF pc[r] \in Calls THEN "open" ELSE pc[r]

Contract == INSTANCE RuleContract WITH
    NoAsk  <- AskOf(NoRequest),
    rules  <- [k \in Keys |-> RuleAt(k)],
    ask    <- [r \in Reqs |-> AskOf(req[r])],
    answer <- [r \in Reqs |-> AnswerOf(r)]

\* The requests implement RuleContract: whatever calls of other requests,
\* other clients and failures come between the reads and the write of one
\* request, it takes effect at most once, in one step, on the rule it names,
\* and an update changes nothing but the content it was asked to change.
KeepsRules == Contract!Spec

\* k8s_manager.go says that an update whose content is not JSON falls back
\* to a simplified rule, as a create does: no request panics.
FallbackWorks == \A r \in Reqs : pc[r] # "panic"

\* What holds of panics instead: they come from an update with a bare
\* expression only, and leave nothing of that request in any rule.
PanicsWriteNothing ==
    \A r \in Reqs : pc[r] = "panic" =>
        /\ req[r].op = "update" /\ req[r].content = "expr"
        /\ \A k \in Keys : store[k].spec.by # r
=============================================================================
