---------------------------- MODULE RetryPolicy ----------------------------
(***************************************************************************)
(* RetryPolicyService: the retry rules, in the database and in the cache.  *)
(*                                                                         *)
(* Administrators create and update rules over HTTP; the retry engine      *)
(* looks up the enabled rule of an acquirer (getConfiguration).  Both go   *)
(* through get, which answers from the cache when there is an entry, and   *)
(* only the lookup of the engine stores what it read.  update writes the   *)
(* cache without waiting for it, create does not touch it.                 *)
(*                                                                         *)
(* Steps are cut at the awaits.  A list of rules is represented by its     *)
(* first element, or NoRule when it is empty: nothing in the service reads *)
(* more of it.  Requests that CheckCountryInterceptor, the DTOs or the     *)
(* check of the id refuse, and GET requests, change no state.              *)
(***************************************************************************)
EXTENDS Naturals

CONSTANTS
    Ids,            \* identifiers of rules
    NoId,           \* the id of a rule that has not been stored
    Countries,
    Country,        \* appConfig.country, the country lookups are about
    Acquirers,
    Contents,       \* what else a rule holds: its times and fail codes
    Keep,           \* a field that the body of an update leaves out
    Creations,      \* the bodies of POST requests
    Changes,        \* the bodies of PATCH requests
    Absent,         \* no entry in the cache
    NoRule,         \* an empty list of rules
    Admins,         \* requests that may be alive at once
    Readers,        \* lookups of the engine that may be alive at once
    MongoMayFail,   \* whether a database call may be rejected
    CacheMayFail,   \* whether a cache call may be rejected
    MayCrash,       \* whether a process may be killed
    EntriesExpire,  \* whether entries of the cache have a lifetime
    MaxRequests     \* bound: requests received in all

Body ==
    [country : Countries, acquirer : Acquirers, enabled : BOOLEAN,
     content : Contents]

PartialBody ==
    [country : Countries \union {Keep}, acquirer : Acquirers \union {Keep},
     enabled : BOOLEAN \union {Keep}, content : Contents \union {Keep}]

Rule ==
    [id : Ids, country : Countries, acquirer : Acquirers, enabled : BOOLEAN,
     content : Contents]

ASSUME PolicyAssumption ==
    /\ NoId \notin Ids
    /\ Country \in Countries
    /\ Creations \subseteq Body
    /\ Changes \subseteq PartialBody
    /\ NoRule \notin Rule
    /\ Absent \notin Rule \union {NoRule}
    /\ MaxRequests \in Nat

VARIABLES
    rules,      \* the documents of the collection of rules
    cache,      \* cache[k]: the rule cached under k, NoRule or Absent
    req,        \* req[a]: the request a, and the await it is at
    issued,     \* issued[a]: cache calls of a that nobody waits for
    look,       \* look[l]: lookup l of the engine, and the await it is at
    seen,       \* history: every enabled rule there has ever been
    disturbed,  \* history: see Disturbance
    requests    \* the number of requests received

vars == <<rules, cache, req, issued, look, seen, disturbed, requests>>

(* generateKey joins the values of the filter in the order of its names.   *)
Key == [acquirer : Acquirers, country : Countries, enabled : BOOLEAN]

KeyFor(country, acquirer, enabled) ==
    [acquirer |-> acquirer, country |-> country, enabled |-> enabled]

KeyOf(rule) == KeyFor(rule.country, rule.acquirer, rule.enabled)

Answers == Rule \union {NoRule}

CacheCall ==
    [op : {"set"}, key : Key, rule : Rule] \union
    [op : {"delete"}, key : Key]

(* country and acquirer: those the rule will have if the request succeeds, *)
(* which throwErrorIfActiveRuleExists looks for.                           *)
Request ==
    [pc : {"finding"}, id : Ids, body : Changes] \union
    [pc : {"checking", "querying", "writing"}, id : {NoId}, body : Creations,
     country : Countries, acquirer : Acquirers] \union
    [pc : {"checking", "querying", "writing"}, id : Ids, body : Changes,
     country : Countries, acquirer : Acquirers]

Idle == [pc |-> "idle"]

Lookup ==
    [pc : {"reading", "querying"}, key : Key] \union
    [pc : {"storing", "answered"}, key : Key, rule : Answers]

TypeOK ==
    /\ rules \subseteq Rule
    /\ cache \in [Key -> Answers \union {Absent}]
    /\ req \in [Admins -> Request \union {Idle}]
    /\ issued \in [Admins -> SUBSET CacheCall]
    /\ look \in [Readers -> Lookup \union {Idle}]
    /\ seen \subseteq Rule
    /\ disturbed \in BOOLEAN
    /\ requests \in 0 .. MaxRequests

Init ==
    /\ rules = {}
    /\ cache = [k \in Key |-> Absent]
    /\ req = [a \in Admins |-> Idle]
    /\ issued = [a \in Admins |-> {}]
    /\ look = [l \in Readers |-> Idle]
    /\ seen = {}
    /\ disturbed = FALSE
    /\ requests = 0
-----------------------------------------------------------------------------
(* A mutant of the next definition: find without the filter on enabled.    *)
MatchingDisabledToo(k) ==
    {rule \in rules : rule.country = k.country /\ rule.acquirer = k.acquirer}

(* find(filter) with the fields of a key.                                  *)
Matching(k) == {rule \in rules : KeyOf(rule) = k}

(* The first rule a find may return, or NoRule.                            *)
First(k) == IF Matching(k) = {} THEN {NoRule} ELSE Matching(k)

Enabled(ruleSet) == {rule \in ruleSet : rule.enabled}

(* Once the history of the rules shows one of the two, the check for       *)
(* another active rule has nothing to go by: a request that overlaps with  *)
(* another or with its cache calls, or a lookup that caches an empty list  *)
(* or a rule that is no longer there.                                      *)
Overlap(a) == \E b \in Admins \ {a} : req[b] # Idle \/ issued[b] # {}

Disturbance(now) == disturbed' = (disturbed \/ now)

(* A request name is used again when its cache calls are done.             *)
Received(a) ==
    /\ requests < MaxRequests
    /\ req[a] = Idle
    /\ issued[a] = {}
    /\ requests' = requests + 1
    /\ Disturbance(Overlap(a))
    /\ UNCHANGED <<rules, cache, issued, look, seen>>

ReceiveCreate(a) ==
    /\ Received(a)
    /\ \E body \in Creations :
        req' = [req EXCEPT ![a] =
            [pc |-> "checking", id |-> NoId, body |-> body,
             country |-> body.country, acquirer |-> body.acquirer]]

ReceiveUpdate(a) ==
    /\ Received(a)
    /\ \E body \in Changes, id \in Ids :
        req' = [req EXCEPT ![a] = [pc |-> "finding", id |-> id, body |-> body]]

(* update: get({_id}) finds no entry, since nothing is cached under an id, *)
(* and asks the database.  No rule with this id: the request is refused.   *)
Or(value, default) == IF value = Keep THEN default ELSE value

RuleNotFound(a) ==
    /\ req[a].pc = "finding"
    /\ \A rule \in rules : rule.id # req[a].id
    /\ req' = [req EXCEPT ![a] = Idle]
    /\ UNCHANGED <<rules, cache, issued, look, seen, disturbed, requests>>

RuleFound(a) ==
    /\ req[a].pc = "finding"
    /\ \E rule \in rules :
        /\ rule.id = req[a].id
        /\ req' = [req EXCEPT ![a] =
            [pc |-> "checking", id |-> rule.id, body |-> req[a].body,
             country |-> Or(req[a].body.country, rule.country),
             acquirer |-> Or(req[a].body.acquirer, rule.acquirer)]]
    /\ UNCHANGED <<rules, cache, issued, look, seen, disturbed, requests>>

(* throwErrorIfActiveRuleExists, when get has answered with first.         *)
SlotOf(a) == KeyFor(req[a].country, req[a].acquirer, TRUE)

(* A mutant of the next definition: only creations are judged.             *)
JudgeCreationsOnly(a, first) ==
    req' = [req EXCEPT ![a] =
        IF first = NoRule \/ req[a].id # NoId
        THEN [req[a] EXCEPT !.pc = "writing"] ELSE Idle]

Judge(a, first) ==
    req' = [req EXCEPT ![a] =
        IF first = NoRule THEN [req[a] EXCEPT !.pc = "writing"]
        ELSE IF first.id = req[a].id THEN [req[a] EXCEPT !.pc = "writing"]
        ELSE Idle]

(* A mutant of the next action: an entry, whatever it holds, lets the      *)
(* request pass.                                                           *)
CheckCachedPasses(a) ==
    /\ req[a].pc = "checking"
    /\ cache[SlotOf(a)] # Absent
    /\ req' = [req EXCEPT ![a].pc = "writing"]
    /\ UNCHANGED <<rules, cache, issued, look, seen, disturbed, requests>>

CheckCached(a) ==
    /\ req[a].pc = "checking"
    /\ cache[SlotOf(a)] # Absent
    /\ Judge(a, cache[SlotOf(a)])
    /\ UNCHANGED <<rules, cache, issued, look, seen, disturbed, requests>>

CheckMisses(a) ==
    /\ req[a].pc = "checking"
    /\ cache[SlotOf(a)] = Absent
    /\ req' = [req EXCEPT ![a].pc = "querying"]
    /\ UNCHANGED <<rules, cache, issued, look, seen, disturbed, requests>>

CheckStored(a) ==
    /\ req[a].pc = "querying"
    /\ \E first \in First(SlotOf(a)) : Judge(a, first)
    /\ UNCHANGED <<rules, cache, issued, look, seen, disturbed, requests>>

Store(ruleSet) ==
    /\ rules' = ruleSet
    /\ seen' = seen \union Enabled(ruleSet)

(* saveData: a document with an id of its own.  A call that is rejected    *)
(* after the database has applied it ends the request in the same way.     *)
CreateStored(a) ==
    /\ req[a].pc = "writing"
    /\ req[a].id = NoId
    /\ \E id \in Ids :
        /\ \A rule \in rules : rule.id # id
        /\ LET body == req[a].body
           IN  Store(rules \union {[id |-> id, country |-> body.country,
                                    acquirer |-> body.acquirer,
                                    enabled |-> body.enabled,
                                    content |-> body.content]})
    /\ req' = [req EXCEPT ![a] = Idle]
    /\ UNCHANGED <<cache, issued, look, disturbed, requests>>

(* updateData: the fields of the body are set, the others stay as they are *)
(* in the database now.                                                    *)
Updated(rule, body) ==
    [id |-> rule.id,
     country |-> Or(body.country, rule.country),
     acquirer |-> Or(body.acquirer, rule.acquirer),
     enabled |-> Or(body.enabled, rule.enabled),
     content |-> Or(body.content, rule.content)]

(* Mutants of the next definition: the parts of the key swapped, and the   *)
(* rule always cached as an enabled one.                                   *)
CacheCallsForSwapped(response) ==
    {[op |-> "delete",
      key |-> KeyFor(response.acquirer, response.country, ~response.enabled)],
     [op |-> "set", rule |-> response,
      key |-> KeyFor(response.acquirer, response.country, response.enabled)]}

CacheCallsForEnabled(response) ==
    {[op |-> "set", rule |-> response,
      key |-> KeyFor(response.country, response.acquirer, TRUE)]}

(* The cache calls update issues with the response of the database.        *)
CacheCallsFor(response) ==
    {[op |-> "delete",
      key |-> KeyFor(response.country, response.acquirer, ~response.enabled)],
     [op |-> "set", key |-> KeyOf(response), rule |-> response]}

(* The update is applied.  When the call is rejected all the same, the     *)
(* request ends in the catch of update and issues no cache call.           *)
UpdateStored(a) ==
    /\ req[a].pc = "writing"
    /\ \E rule \in rules :
        /\ rule.id = req[a].id
        /\ LET response == Updated(rule, req[a].body)
           IN  /\ Store((rules \ {rule}) \union {response})
               /\ \/ issued' = [issued EXCEPT ![a] = CacheCallsFor(response)]
                  \/ MongoMayFail /\ UNCHANGED issued
    /\ req' = [req EXCEPT ![a] = Idle]
    /\ UNCHANGED <<cache, look, disturbed, requests>>

(* An awaited call is rejected without effect.                             *)
RequestFails(a) ==
    /\ \/ MongoMayFail /\ req[a].pc \in {"finding", "querying", "writing"}
       \/ CacheMayFail /\ req[a].pc \in {"finding", "checking"}
    /\ req' = [req EXCEPT ![a] = Idle]
    /\ UNCHANGED <<rules, cache, issued, look, seen, disturbed, requests>>

Serve(a) ==
    \/ RuleNotFound(a) \/ RuleFound(a)
    \/ CheckCached(a) \/ CheckMisses(a) \/ CheckStored(a)
    \/ CreateStored(a) \/ UpdateStored(a) \/ RequestFails(a)
-----------------------------------------------------------------------------
(* The cache calls of update, in any order and at any later time.          *)
Apply(call) ==
    cache' = [cache EXCEPT
                ![call.key] = IF call.op = "set" THEN call.rule ELSE Absent]

CallDone(a, call) == issued' = [issued EXCEPT ![a] = @ \ {call}]

CallApplied(a, call) ==
    /\ Apply(call)
    /\ CallDone(a, call)
    /\ UNCHANGED <<rules, req, look, seen, disturbed, requests>>

(* Nobody looks at the outcome of the calls (Promise.allSettled).          *)
CallLost(a, call) ==
    /\ CacheMayFail
    /\ CallDone(a, call)
    /\ UNCHANGED <<rules, cache, req, look, seen, disturbed, requests>>

(* A mutant of the next action: entries of active rules have no lifetime.  *)
ExpireDisabledOnly(k) ==
    /\ EntriesExpire /\ ~k.enabled
    /\ cache[k] # Absent
    /\ cache' = [cache EXCEPT ![k] = Absent]
    /\ UNCHANGED <<rules, req, issued, look, seen, disturbed, requests>>

Expire(k) ==
    /\ EntriesExpire
    /\ cache[k] # Absent
    /\ cache' = [cache EXCEPT ![k] = Absent]
    /\ UNCHANGED <<rules, req, issued, look, seen, disturbed, requests>>

(* The process of a request dies, with its cache calls; the process of a   *)
(* lookup dies.                                                            *)
Crash(a) ==
    /\ MayCrash
    /\ req[a] # Idle \/ issued[a] # {}
    /\ req' = [req EXCEPT ![a] = Idle]
    /\ issued' = [issued EXCEPT ![a] = {}]
    /\ UNCHANGED <<rules, cache, look, seen, disturbed, requests>>
-----------------------------------------------------------------------------
(* getConfiguration of the engine: get({country, enabled: true, acquirer}, *)
(* true), of whose answer it takes the first element.                      *)
LookAt(l, state) ==
    /\ look' = [look EXCEPT ![l] = state]
    /\ UNCHANGED <<rules, req, issued, seen, requests>>

LookupStarts(l) ==
    /\ look[l].pc \in {"idle", "answered"}
    /\ \E acquirer \in Acquirers :
        LookAt(l, [pc |-> "reading", key |-> KeyFor(Country, acquirer, TRUE)])
    /\ UNCHANGED <<cache, disturbed>>

LookupHits(l) ==
    LET k == look[l].key
    IN  /\ look[l].pc = "reading"
        /\ cache[k] # Absent
        /\ LookAt(l, [pc |-> "answered", key |-> k, rule |-> cache[k]])
        /\ UNCHANGED <<cache, disturbed>>

LookupMisses(l) ==
    LET k == look[l].key
    IN  /\ look[l].pc = "reading"
        /\ cache[k] = Absent
        /\ LookAt(l, [pc |-> "querying", key |-> k])
        /\ UNCHANGED <<cache, disturbed>>

LookupFinds(l) ==
    LET k == look[l].key
    IN  /\ look[l].pc = "querying"
        /\ \E first \in First(k) :
                LookAt(l, [pc |-> "storing", key |-> k, rule |-> first])
        /\ UNCHANGED <<cache, disturbed>>

(* What was read goes into the cache, whatever has happened since.         *)
LookupStores(l) ==
    LET k == look[l].key
        found == look[l].rule
    IN  /\ look[l].pc = "storing"
        /\ cache' = [cache EXCEPT ![k] = found]
        /\ Disturbance(found \notin Matching(k))
        /\ LookAt(l, [pc |-> "answered", key |-> k, rule |-> found])

(* getConfiguration throws, and the engine gets no answer (RuleLookupFails *)
(* of RetryEngine); or its process dies.                                   *)
LookupFails(l) ==
    /\ MayCrash \/ CacheMayFail \/ MongoMayFail
    /\ look[l].pc \in {"reading", "querying", "storing"}
    /\ LookAt(l, Idle)
    /\ UNCHANGED <<cache, disturbed>>

LookUp(l) ==
    \/ LookupHits(l) \/ LookupMisses(l) \/ LookupFinds(l) \/ LookupStores(l)
    \/ LookupFails(l)
-----------------------------------------------------------------------------
Next ==
    \/ \E a \in Admins :
        \/ ReceiveCreate(a) \/ ReceiveUpdate(a) \/ Serve(a) \/ Crash(a)
        \/ \E call \in issued[a] : CallApplied(a, call) \/ CallLost(a, call)
    \/ \E k \in Key : Expire(k)
    \/ \E l \in Readers : LookupStarts(l) \/ LookUp(l)

Spec == Init /\ [][Next]_vars

(* Awaited and issued calls settle, and entries with a lifetime go.        *)
Fairness ==
    /\ \A a \in Admins :
        /\ WF_vars(Serve(a))
        /\ WF_vars(\E call \in issued[a] :
                        CallApplied(a, call) \/ CallLost(a, call))
    /\ \A l \in Readers : WF_vars(LookUp(l))
    /\ EntriesExpire => \A k \in Key : WF_vars(Expire(k))

FairSpec == Spec /\ Fairness
-----------------------------------------------------------------------------
(* Properties.                                                             *)

(* "Another active rule with acquirer ... and country ... already exists": *)
(* create and update refuse a second active rule.                          *)
OneActiveRule ==
    \A r, s \in Enabled(rules) : KeyOf(r) = KeyOf(s) => r.id = s.id

(* The check does refuse it as long as requests come one at a time and the *)
(* lookups of the engine have cached neither an empty list nor an old rule.*)
CheckHolds == ~disturbed => OneActiveRule

(* The inductive form of CheckHolds.  Undisturbed, an entry of the cache,  *)
(* old or not, rules out an active rule with any other id; so does a       *)
(* request that has passed the check, and a set that is on its way; and    *)
(* requests come one at a time, so that what one has read still holds.     *)
Excludes(k, id) == \A rule \in Matching(k) : rule.id = id

EntriesExclude ==
    \A k \in Key : k.enabled /\ cache[k] # Absent =>
        cache[k] # NoRule /\ Excludes(k, cache[k].id)

CallsExclude ==
    \A a \in Admins : \A call \in issued[a] :
        call.op = "set" /\ call.key.enabled =>
            Excludes(call.key, call.rule.id)

OneAtATime ==
    /\ \A a, b \in Admins : a # b =>
        \/ req[a] = Idle /\ issued[a] = {}
        \/ req[b] = Idle /\ issued[b] = {}
    /\ \A a \in Admins : req[a] # Idle => issued[a] = {}

OwnIds == \A r, s \in rules : r.id = s.id => r = s

SlotKnown ==
    \A a \in Admins : req[a].pc \in {"checking", "querying", "writing"} =>
        /\ req[a].id = NoId =>
             /\ req[a].country = req[a].body.country
             /\ req[a].acquirer = req[a].body.acquirer
        /\ \A rule \in rules : rule.id = req[a].id =>
             /\ req[a].country = Or(req[a].body.country, rule.country)
             /\ req[a].acquirer = Or(req[a].body.acquirer, rule.acquirer)

PassedExclude ==
    \A a \in Admins :
        /\ req[a].pc = "querying" =>
             cache[SlotOf(a)] \in Matching(SlotOf(a)) \union {Absent}
        /\ req[a].pc = "writing" =>
             /\ Excludes(SlotOf(a), req[a].id)
             /\ cache[SlotOf(a)] # Absent => cache[SlotOf(a)].id = req[a].id

CheckInv ==
    ~disturbed => /\ OneActiveRule
                  /\ EntriesExclude
                  /\ CallsExclude
                  /\ OneAtATime
                  /\ OwnIds
                  /\ SlotKnown
                  /\ PassedExclude

(* The service implements RuleRegister: whatever requests, lookups, faults *)
(* and crashes do to each other, a lookup answers with a rule that is or   *)
(* was active for its acquirer and country, or with none.                  *)
NoAnswer == [key |-> Absent, rule |-> NoRule]

Register == INSTANCE RuleRegister WITH
    Keys <- Key,
    inForce <- [k \in Key |-> {r \in Enabled(rules) : KeyOf(r) = k}],
    past <- [k \in Key |-> {r \in seen : KeyOf(r) = k}],
    answer <- [l \in Readers |->
                 IF look[l].pc = "answered"
                 THEN [key |-> look[l].key, rule |-> look[l].rule]
                 ELSE NoAnswer]

ImplementsRegister == Register!Spec

(* Why it does: what the cache, a call on its way to it or a lookup holds  *)
(* under the key of an enabled rule was such a rule.                       *)
WasActive(k, rule) ==
    rule # NoRule => KeyOf(rule) = k /\ (k.enabled => rule \in seen)

OnlyPastRules ==
    /\ Enabled(rules) \subseteq seen
    /\ \A k \in Key : cache[k] # Absent => WasActive(k, cache[k])
    /\ \A a \in Admins : \A call \in issued[a] :
            call.op = "set" => WasActive(call.key, call.rule)
    /\ \A l \in Readers :
        /\ look[l].pc # "idle" => look[l].key.enabled
        /\ look[l].pc \in {"storing", "answered"} =>
             WasActive(look[l].key, look[l].rule)

(* When requests stop, old rules are used up in the end: every lookup then *)
(* answers with a rule that is active, or with none when there is none.    *)
(* It is the lifetime of the entries that brings this about.               *)
Current(k, rule) == rule \in First(k)

EventuallyCurrent ==
    <>[][\A l \in Readers :
            look'[l].pc = "answered" /\ look'[l] # look[l] =>
                Current(look'[l].key, look'[l].rule)]_look
=============================================================================
