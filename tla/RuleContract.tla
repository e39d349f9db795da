---------------------------- MODULE RuleContract -----------------------------
(***************************************************************************)
(* What the alert-rule requests promise to a client: a store of rules in   *)
(* which every request takes effect at most once, in one step, before it   *)
(* is answered, and only on the rule it names.  Versions, the reads that   *)
(* precede a write and the calls in between are not seen.  A request that  *)
(* is answered with an error may have taken effect (the answer to its      *)
(* write was lost); one that is answered "ok" has.                         *)
(***************************************************************************)
CONSTANTS
    Reqs,   \* the requests
    Keys,   \* the rules' kinds and names
    Asks,   \* what can be asked: records with op, key and form
    NoAsk,  \* what a request asks before it is made
    NoReq,  \* the author of rules that no request wrote
    NoRule  \* where there is no rule

VARIABLES
    rules,  \* the rule of each key, or NoRule
    ask,    \* what each request asks for
    answer  \* "new", "open", or how the request was answered

vars == <<rules, ask, answer>>

Forms == {"json", "wrapped"}

\* Rules that somebody else wrote.
ForeignRules == [by : {NoReq}, form : {"json"}, managed : BOOLEAN,
                 configMap : BOOLEAN]

\* The request names a rule that is there.
Finds(r) == ask[r].key \in Keys /\ rules[ask[r].key] # NoRule

Init ==
    /\ rules = [k \in Keys |-> NoRule]
    /\ ask = [r \in Reqs |-> NoAsk]
    /\ answer = [r \in Reqs |-> "new"]

Ask(r) ==
    /\ answer[r] = "new"
    /\ \E a \in {"open", "error"} : answer' = [answer EXCEPT ![r] = a]
    /\ ask'[r] \in Asks
    /\ ask' = [ask EXCEPT ![r] = ask'[r]]
    /\ UNCHANGED rules

\* A write takes effect and is answered, if the answer gets through.
Write(r, rule) ==
    /\ answer[r] = "open"
    /\ ask[r].key \in Keys
    /\ rules' = [rules EXCEPT ![ask[r].key] = rule]
    /\ \E a \in {"ok", "error"} : answer' = [answer EXCEPT ![r] = a]
    /\ UNCHANGED ask

Agents(r, configMap) ==
    [by |-> r, form |-> ask[r].form, managed |-> TRUE, configMap |-> configMap]

\* A create makes a rule where there is none.
Create(r) ==
    /\ ask[r].op = "create" /\ ask[r].form \in Forms
    /\ ~Finds(r)
    /\ Write(r, Agents(r, FALSE))

\* An update replaces the content of a rule and keeps its other labels.
Update(r) ==
    /\ ask[r].op = "update" /\ ask[r].form = "json"
    /\ Finds(r)
    /\ Write(r, Agents(r, rules[ask[r].key].configMap))

Delete(r) ==
    /\ ask[r].op = "delete"
    /\ Finds(r)
    /\ Write(r, NoRule)

Finish(r, a) ==
    /\ answer[r] = "open"
    /\ answer' = [answer EXCEPT ![r] = a]
    /\ UNCHANGED <<rules, ask>>

\* What only looks is answered without a write; a get has found a rule.
Look(r) ==
    /\ \/ ask[r].op \in {"list", "sync"}
       \/ ask[r].op = "get" /\ Finds(r)
    /\ Finish(r, "ok")

\* A sync is never refused.
Refuse(r) == ask[r].op # "sync" /\ Finish(r, "error")
Panic(r)  == ask[r].op = "update" /\ ask[r].form = "wrapped" /\ Finish(r, "panic")

Foreign(k) ==
    /\ UNCHANGED <<ask, answer>>
    /\ rules'[k] \in ForeignRules \cup {NoRule}
    /\ rules' = [rules EXCEPT ![k] = rules'[k]]

Next ==
    \/ \E r \in Reqs : Ask(r)  \/ Create(r) \/ Update(r) \/ Delete(r)
                    \/ Look(r) \/ Refuse(r) \/ Panic(r)
    \/ \E k \in Keys : Foreign(k)

Spec == Init /\ [][Next]_vars
=============================================================================
