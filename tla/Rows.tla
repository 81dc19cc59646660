-------------------------------- MODULE Rows --------------------------------
(***************************************************************************)
(* The REST requests that write rows of several users: the scanner's       *)
(* rules, the alert subscriptions of their hits, and the strategy configs. *)
(* Postgres runs READ COMMITTED: a request reads, and commits later what   *)
(* its constraints then allow.  A request that is refused changes nothing. *)
(***************************************************************************)
EXTENDS Integers, FiniteSets

CONSTANTS
    Users,
    Targets,    \* telegram chats
    Scopes,     \* (strategy, instrument, timeframe)
    Params,     \* values of a config's params
    MaxRequests,    \* bound: requests on rules, and hits of the scan worker
    MaxEdits    \* bound: requests on configs

ASSUME RowsAssumption == MaxRequests \in Nat /\ MaxEdits \in Nat

VARIABLES
    rules,      \* scan_rules: [id, user, enabled]
    hits,       \* rule ids of scan_hits
    subs,       \* alert_subscriptions: [id, user, rule, target, before]
    configs,    \* strategy_configs: [id, user, scope, params, enabled]
    requests,   \* requests that have read and not committed
    issued      \* requests so far, which number the rows they insert

rvars == <<rules, hits, subs, configs, requests, issued>>

RowsInit ==
    /\ rules = {} /\ hits = {} /\ subs = {} /\ configs = {}
    /\ requests = {} /\ issued = 0

Issue == issued < MaxRequests /\ issued' = issued + 1
Begin(r) == Issue /\ requests' = requests \cup {r}
Ends(r) == requests' = requests \ {r} /\ UNCHANGED issued

-----------------------------------------------------------------------------
(* Rules, by their owner only.                                              *)

Owned(u, id) == \E x \in rules : x.id = id /\ x.user = u

CreateRule(u, e) ==
    /\ Issue
    /\ rules' = rules \cup {[id |-> issued + 1, user |-> u, enabled |-> e]}
    /\ UNCHANGED <<hits, subs, configs, requests>>

\* The scan worker records a hit of an enabled rule.
RecordHit(id) ==
    /\ Issue
    /\ \E x \in rules : x.id = id /\ x.enabled
    /\ hits' = hits \cup {id}
    /\ UNCHANGED <<rules, subs, configs, requests>>

\* "op" is "delete", "enable" or "disable".
AskRule(u, id, op) ==
    /\ Owned(u, id)
    /\ Begin([op |-> op, user |-> u, rule |-> id])
    /\ UNCHANGED <<rules, hits, subs, configs>>

\* The update of a rule that has been deleted since finds no row and fails.
UpdateRule(r) ==
    /\ r.op \in {"enable", "disable"}
    /\ rules' = {IF x.id = r.rule THEN [x EXCEPT !.enabled = r.op = "enable"] ELSE x : x \in rules}
    /\ Ends(r) /\ UNCHANGED <<hits, subs, configs>>

\* Subscriptions go with their rule; a rule that has hits is refused by their
\* foreign key, which does not cascade.
DeleteRule(r) ==
    /\ r.op = "delete"
    /\ IF r.rule \in hits THEN UNCHANGED <<rules, subs>>
       ELSE /\ rules' = {x \in rules : x.id # r.rule}
            /\ subs' = {s \in subs : s.rule # r.rule}
    /\ Ends(r) /\ UNCHANGED <<hits, configs>>

-----------------------------------------------------------------------------
(* Subscriptions: three reads, then the insert.                             *)

\* "before" is the chat's subscriptions when the request began.
AskSubscription(u, id, t) ==
    /\ Owned(u, id)
    /\ Begin([op |-> "subscribe", at |-> "foreign", user |-> u, rule |-> id, target |-> t,
              n |-> issued + 1, before |-> {s.id : s \in {x \in subs : x.target = t}}])
    /\ UNCHANGED <<rules, hits, subs, configs>>

Foreign(r) == \E s \in subs : s.target = r.target /\ s.user # r.user
Same(r, s) == s.user = r.user /\ s.rule = r.rule /\ s.target = r.target

\* Mutant of CheckForeign: only this rule's subscriptions are looked at.
CheckForeignOfRule(r) ==
    /\ r.op = "subscribe" /\ r.at = "foreign"
    /\ requests' = (requests \ {r}) \cup
                   IF \E s \in subs : s.target = r.target /\ s.user # r.user /\ s.rule = r.rule
                   THEN {} ELSE {[r EXCEPT !.at = "same"]}
    /\ UNCHANGED <<rules, hits, subs, configs, issued>>

\* A chat another user has subscribed is refused.
CheckForeign(r) ==
    /\ r.op = "subscribe" /\ r.at = "foreign"
    /\ requests' = (requests \ {r}) \cup
                   IF Foreign(r) THEN {} ELSE {[r EXCEPT !.at = "same"]}
    /\ UNCHANGED <<rules, hits, subs, configs, issued>>

\* One's own subscription is returned as it is.
CheckSame(r) ==
    /\ r.op = "subscribe" /\ r.at = "same"
    /\ requests' = (requests \ {r}) \cup
                   IF \E s \in subs : Same(r, s) THEN {} ELSE {[r EXCEPT !.at = "insert"]}
    /\ UNCHANGED <<rules, hits, subs, configs, issued>>

\* The foreign key and the unique constraint have the last word.
Subscribe(r) ==
    /\ r.op = "subscribe" /\ r.at = "insert"
    /\ subs' = IF (\E x \in rules : x.id = r.rule) /\ ~\E s \in subs : Same(r, s)
               THEN subs \cup {[id |-> r.n, user |-> r.user, rule |-> r.rule,
                                target |-> r.target, before |-> r.before]}
               ELSE subs
    /\ Ends(r) /\ UNCHANGED <<rules, hits, configs>>

\* A subscription's owner never changes, so that its read can be of any moment.
Unsubscribe(u, id) ==
    /\ Issue
    /\ \E s \in subs : s.id = id /\ s.user = u
    /\ subs' = {s \in subs : s.id # id}
    /\ UNCHANGED <<rules, hits, configs, requests>>

-----------------------------------------------------------------------------
(* Strategy configs: the POST finds a row by its scope, the PATCH by its id. *)

\* Mutant of Existing: a row of another scope will do.
ExistingAny(u, sc) == {c \in configs : c.user = u}

Existing(u, sc) == {c \in configs : c.user = u /\ c.scope = sc}

\* A request is alone as long as no other of its user's is in flight.
OfUser(u) == {r \in requests : r.op = "config" /\ r.user = u}
BeginConfig(r) ==
    /\ issued < MaxEdits /\ issued' = issued + 1
    /\ requests' = (requests \ OfUser(r.user)) \cup
                   {[q EXCEPT !.alone = FALSE] : q \in OfUser(r.user)} \cup {r}
    /\ UNCHANGED <<rules, hits, subs, configs>>

AskConfig(u, sc, p, e) ==
    BeginConfig([op |-> "config", user |-> u, n |-> issued + 1, by |-> "scope", saw |-> Existing(u, sc),
                 scope |-> sc, params |-> p, enabled |-> e, alone |-> OfUser(u) = {}])

PatchConfig(u, c, sc, p, e) ==
    /\ c.user = u
    /\ BeginConfig([op |-> "config", user |-> u, n |-> issued + 1, by |-> "id", saw |-> {c},
                    scope |-> sc, params |-> p, enabled |-> e, alone |-> OfUser(u) = {}])

\* The ORM writes the columns that differ from what it read.
Updated(r, s, c) ==
    [c EXCEPT !.scope = IF r.scope = s.scope THEN @ ELSE r.scope,
              !.params = IF r.params = s.params THEN @ ELSE r.params,
              !.enabled = IF r.enabled = s.enabled THEN @ ELSE r.enabled]

Written(r) ==
    IF r.saw = {} THEN configs \cup {[id |-> r.n, user |-> r.user, scope |-> r.scope,
                                      params |-> r.params, enabled |-> r.enabled]}
    ELSE LET s == CHOOSE s \in r.saw : TRUE
         IN {IF c.id = s.id THEN Updated(r, s, c) ELSE c : c \in configs}

OnePerScope(cs) == \A a, b \in cs : a.user = b.user /\ a.scope = b.scope => a = b

CommitConfig(r) ==
    /\ r.op = "config"
    /\ configs' = IF OnePerScope(Written(r)) THEN Written(r) ELSE configs
    /\ Ends(r) /\ UNCHANGED <<rules, hits, subs>>

ConfigNext ==
    \/ \E u \in Users, sc \in Scopes, p \in Params, e \in BOOLEAN :
        \/ AskConfig(u, sc, p, e)
        \/ \E c \in configs : PatchConfig(u, c, sc, p, e)
    \/ \E r \in requests : CommitConfig(r)

RuleNext ==
    \/ \E u \in Users, id \in 1 .. MaxRequests :
        \/ \E e \in BOOLEAN : CreateRule(u, e)
        \/ \E op \in {"delete", "enable", "disable"} : AskRule(u, id, op)
        \/ Unsubscribe(u, id)
        \/ \E t \in Targets : AskSubscription(u, id, t)
    \/ \E id \in 1 .. MaxRequests : RecordHit(id)
    \/ \E r \in requests :
        \/ UpdateRule(r)
        \/ DeleteRule(r)
        \/ CheckForeign(r)
        \/ CheckSame(r)
        \/ Subscribe(r)

-----------------------------------------------------------------------------
(* Properties.                                                              *)

\* The rows are what the tables' keys and constraints allow.
RowsTypeOK ==
    /\ \A x \in rules : x.id \in 1 .. issued /\ x.user \in Users
    /\ \A a, b \in subs : a.id = b.id => a = b
    /\ OnePerScope(configs)

\* api/alert_subscriptions.py:22-24, migration 0006: whatever requests cross, a
\* subscription is of a rule that is there and that its user owns, and a hit
\* keeps its rule.
NothingDangles ==
    /\ \A s \in subs : Owned(s.user, s.rule)
    /\ \A id \in hits : \E x \in rules : x.id = id

\* api/alert_subscriptions.py:25-26: a chat "is owned by the first user to
\* register it".  Two users can only share one when their requests crossed:
\* neither subscription was there when the other one's request began.
SharedOnlyByRacing ==
    \A a, b \in subs :
        a.target = b.target /\ a.user # b.user => a.id \notin b.before /\ b.id \notin a.before

\* api/alert_subscriptions.py, api/scanner.py: overlapping requests of several
\* users leave rules, hits and subscriptions as sequential ones would, but for
\* the owner of a chat that two of them registered at once.
RowsSound == NothingDangles /\ SharedOnlyByRacing

\* api/strategies.py:90-93: a POST that no other request of its user crossed
\* leaves the one row of its scope as it asked, and a PATCH does or is refused.
ToggleTakesEffect ==
    [][\A r \in {q \in requests : q.op = "config" /\ OfUser(q.user)' = {}} :
          r.alone /\ (r.by = "scope" \/ configs' # configs) =>
              \E c \in configs' : /\ c.user = r.user /\ c.scope = r.scope
                                  /\ c.params = r.params /\ c.enabled = r.enabled]_rvars
=============================================================================
