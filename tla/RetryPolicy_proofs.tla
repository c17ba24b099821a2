------------------------- MODULE RetryPolicy_proofs -------------------------
(***************************************************************************)
(* Theorems about RetryPolicy, for all requests, lookups, rules and        *)
(* acquirers: its types, when the check for another active rule holds, and *)
(* that it implements RuleRegister.                                        *)
(***************************************************************************)
EXTENDS RetryPolicy, TLAPS

LEMMA KeyType ==
  /\ \A country \in Countries, acquirer \in Acquirers, enabled \in BOOLEAN :
        KeyFor(country, acquirer, enabled) \in Key
  /\ \A rule \in Rule : KeyOf(rule) \in Key
BY DEF Rule, Key, KeyFor, KeyOf

LEMMA UpdatedType ==
  ASSUME NEW rule \in Rule, NEW body \in Changes
  PROVE  /\ Updated(rule, body) \in Rule
         /\ Or(body.country, rule.country) \in Countries
         /\ Or(body.acquirer, rule.acquirer) \in Acquirers
BY PolicyAssumption DEF Updated, Or, Rule, PartialBody

LEMMA CacheCallsType ==
  ASSUME NEW rule \in Rule
  PROVE  CacheCallsFor(rule) \subseteq CacheCall
<1>1. KeyFor(rule.country, rule.acquirer, ~rule.enabled) \in Key
  BY KeyType DEF Rule
<1>2. KeyOf(rule) \in Key
  BY KeyType
<1>3. QED
  BY <1>1, <1>2 DEF CacheCallsFor, CacheCall

LEMMA StoreType ==
  ASSUME TypeOK, NEW ruleSet \in SUBSET Rule, Store(ruleSet)
  PROVE  rules' \subseteq Rule /\ seen' \subseteq Rule
BY DEF TypeOK, Store, Enabled

LEMMA ServeType ==
  ASSUME TypeOK, NEW a \in Admins, Serve(a)
  PROVE  TypeOK'
<1>1. CASE RuleNotFound(a)
  BY <1>1 DEF RuleNotFound, TypeOK
<1>2. CASE RuleFound(a)
  <2>1. PICK rule \in rules :
          /\ rule.id = req[a].id
          /\ req' = [req EXCEPT ![a] =
              [pc |-> "checking", id |-> rule.id, body |-> req[a].body,
               country |-> Or(req[a].body.country, rule.country),
               acquirer |-> Or(req[a].body.acquirer, rule.acquirer)]]
    BY <1>2 DEF RuleFound
  <2>2. rule \in Rule /\ rule.id \in Ids
    BY DEF TypeOK, Rule
  <2>3. req[a].body \in Changes
    BY <1>2 DEF RuleFound, TypeOK, Request, Idle
  <2>4. req' \in [Admins -> Request \union {Idle}]
    BY <2>1, <2>2, <2>3, UpdatedType DEF TypeOK, Request
  <2>5. QED
    BY <1>2, <2>4 DEF RuleFound, TypeOK
<1>3. ASSUME req[a].pc \in {"checking", "querying"},
             NEW first, Judge(a, first)
      PROVE  req' \in [Admins -> Request \union {Idle}]
  <2>1. req[a] \in Request /\ [req[a] EXCEPT !.pc = "writing"] \in Request
    BY <1>3 DEF TypeOK, Request, Idle
  <2>2. QED
    BY <1>3, <2>1 DEF Judge, TypeOK
<1>4. CASE CheckCached(a)
  BY <1>3, <1>4 DEF CheckCached, TypeOK
<1>5. CASE CheckMisses(a)
  <2>1. [req[a] EXCEPT !.pc = "querying"] \in Request
    BY <1>5 DEF CheckMisses, TypeOK, Request, Idle
  <2>2. QED
    BY <1>5, <2>1 DEF CheckMisses, TypeOK
<1>6. CASE CheckStored(a)
  BY <1>3, <1>6 DEF CheckStored, TypeOK
<1>7. CASE CreateStored(a)
  <2>1. req[a].body \in Body
    BY <1>7, PolicyAssumption DEF CreateStored, TypeOK, Request, Idle
  <2>2. rules' \subseteq Rule /\ seen' \subseteq Rule
    BY <1>7, <2>1, StoreType DEF CreateStored, TypeOK, Rule, Body
  <2>3. QED
    BY <1>7, <2>2 DEF CreateStored, TypeOK
<1>8. CASE UpdateStored(a)
  <2>1. PICK rule \in rules :
          /\ rule.id = req[a].id
          /\ Store((rules \ {rule}) \union {Updated(rule, req[a].body)})
          /\ \/ issued' = [issued EXCEPT
                   ![a] = CacheCallsFor(Updated(rule, req[a].body))]
             \/ UNCHANGED issued
    BY <1>8 DEF UpdateStored
  <2>2. rule \in Rule /\ req[a].body \in Changes
    BY <1>8, <2>1, PolicyAssumption DEF UpdateStored, TypeOK, Request, Idle, Rule
  <2>3. Updated(rule, req[a].body) \in Rule
    BY <2>2, UpdatedType
  <2>4. rules' \subseteq Rule /\ seen' \subseteq Rule
    BY <2>1, <2>3, StoreType DEF TypeOK
  <2>5. issued' \in [Admins -> SUBSET CacheCall]
    BY <2>1, <2>3, CacheCallsType DEF TypeOK
  <2>6. QED
    BY <1>8, <2>4, <2>5 DEF UpdateStored, TypeOK
<1>9. CASE RequestFails(a)
  BY <1>9 DEF RequestFails, TypeOK
<1>10. QED
  BY <1>1, <1>2, <1>4, <1>5, <1>6, <1>7, <1>8, <1>9 DEF Serve

LEMMA FirstType ==
  ASSUME TypeOK, NEW k
  PROVE  First(k) \subseteq Answers
BY DEF TypeOK, First, Matching, Answers

LEMMA LookUpType ==
  ASSUME TypeOK, NEW l \in Readers, LookUp(l)
  PROVE  TypeOK'
<1>1. look[l].pc \in {"reading", "querying", "storing"} => look[l].key \in Key
  BY DEF TypeOK, Lookup, Idle
<1>2. CASE LookupHits(l)
  BY <1>1, <1>2 DEF LookupHits, LookAt, TypeOK, Lookup
<1>3. CASE LookupMisses(l)
  BY <1>1, <1>3 DEF LookupMisses, LookAt, TypeOK, Lookup
<1>4. CASE LookupFinds(l)
  BY <1>1, <1>4, FirstType DEF LookupFinds, LookAt, TypeOK, Lookup
<1>5. CASE LookupStores(l)
  <2>1. look[l].rule \in Answers
    BY <1>5 DEF LookupStores, TypeOK, Lookup, Idle
  <2>2. QED
    BY <1>1, <1>5, <2>1 DEF LookupStores, LookAt, Disturbance, TypeOK, Lookup
<1>6. CASE LookupFails(l)
  BY <1>6 DEF LookupFails, LookAt, TypeOK
<1>7. QED
  BY <1>2, <1>3, <1>4, <1>5, <1>6 DEF LookUp

LEMMA TypeStep ==
  ASSUME TypeOK, [Next]_vars
  PROVE  TypeOK'
<1>1. ASSUME NEW a \in Admins, ReceiveCreate(a) PROVE TypeOK'
  <2>1. PICK body \in Creations :
          req' = [req EXCEPT ![a] =
            [pc |-> "checking", id |-> NoId, body |-> body,
             country |-> body.country, acquirer |-> body.acquirer]]
    BY <1>1 DEF ReceiveCreate
  <2>2. req' \in [Admins -> Request \union {Idle}]
    BY <2>1, PolicyAssumption DEF TypeOK, Request, Body
  <2>3. QED
    BY <1>1, <2>2, PolicyAssumption
       DEF ReceiveCreate, Received, Disturbance, TypeOK
<1>2. ASSUME NEW a \in Admins, ReceiveUpdate(a) PROVE TypeOK'
  <2>1. req' \in [Admins -> Request \union {Idle}]
    BY <1>2 DEF ReceiveUpdate, TypeOK, Request
  <2>2. QED
    BY <1>2, <2>1, PolicyAssumption
       DEF ReceiveUpdate, Received, Disturbance, TypeOK
<1>3. ASSUME NEW a \in Admins, Serve(a) PROVE TypeOK'
  BY <1>3, ServeType
<1>4. ASSUME NEW a \in Admins, Crash(a) PROVE TypeOK'
  BY <1>4 DEF Crash, TypeOK
<1>5. ASSUME NEW a \in Admins, NEW call \in issued[a],
             CallApplied(a, call) \/ CallLost(a, call)
      PROVE  TypeOK'
  <2>1. call \in CacheCall
    BY DEF TypeOK
  <2>2. call.key \in Key /\ (call.op = "set" => call.rule \in Answers)
    BY <2>1 DEF CacheCall, Answers
  <2>3. CASE CallApplied(a, call)
    BY <2>2, <2>3 DEF CallApplied, Apply, CallDone, TypeOK
  <2>4. CASE CallLost(a, call)
    BY <2>4 DEF CallLost, CallDone, TypeOK
  <2>5. QED
    BY <1>5, <2>3, <2>4
<1>6. ASSUME NEW k \in Key, Expire(k) PROVE TypeOK'
  BY <1>6 DEF Expire, TypeOK
<1>7. ASSUME NEW l \in Readers, LookupStarts(l) PROVE TypeOK'
  <2>1. PICK acquirer \in Acquirers :
          LookAt(l, [pc |-> "reading", key |-> KeyFor(Country, acquirer, TRUE)])
    BY <1>7 DEF LookupStarts
  <2>2. KeyFor(Country, acquirer, TRUE) \in Key
    BY KeyType, PolicyAssumption
  <2>3. look' \in [Readers -> Lookup \union {Idle}]
    BY <2>1, <2>2 DEF LookAt, TypeOK, Lookup
  <2>4. QED
    BY <1>7, <2>1, <2>3 DEF LookupStarts, LookAt, TypeOK
<1>8. ASSUME NEW l \in Readers, LookUp(l) PROVE TypeOK'
  BY <1>8, LookUpType
<1>9. CASE UNCHANGED vars
  BY <1>9 DEF vars, TypeOK
<1>10. QED
  BY <1>1, <1>2, <1>3, <1>4, <1>5, <1>6, <1>7, <1>8, <1>9 DEF Next

(* The service keeps its rules, cache entries and calls in their types.    *)
THEOREM TypeCorrect == Spec => []TypeOK
<1>1. Init => TypeOK
  <2>1. 0 \in 0 .. MaxRequests
    BY PolicyAssumption
  <2>2. QED
    BY <2>1 DEF Init, TypeOK
<1>2. TypeOK /\ [Next]_vars => TypeOK'
  BY TypeStep
<1>3. QED
  BY <1>1, <1>2, PTL DEF Spec
-----------------------------------------------------------------------------
(* The rules a lookup can answer with.                                     *)

(* A find returns rules that are in the collection, under the key.         *)
LEMMA FirstWasActive ==
  ASSUME TypeOK, OnlyPastRules, NEW k, NEW first \in First(k)
  PROVE  WasActive(k, first)
BY PolicyAssumption
   DEF TypeOK, OnlyPastRules, First, Matching, WasActive, Enabled, KeyOf, KeyFor

(* What is written to the collection is recorded as seen.                  *)
LEMMA SeenGrows ==
  ASSUME [Next]_vars
  PROVE  /\ seen \subseteq seen'
         /\ UNCHANGED <<rules, seen>> \/ seen' = seen \union Enabled(rules')
<1>1. ASSUME NEW a \in Admins, Serve(a)
      PROVE  /\ seen \subseteq seen'
             /\ UNCHANGED <<rules, seen>> \/ seen' = seen \union Enabled(rules')
  BY <1>1 DEF Serve, RuleNotFound, RuleFound, CheckCached, CheckMisses,
              CheckStored, CreateStored, UpdateStored, RequestFails, Store
<1>2. ASSUME ~\E a \in Admins : Serve(a) PROVE UNCHANGED <<rules, seen>>
  BY <1>2 DEF Next, ReceiveCreate, ReceiveUpdate, Received, Crash, CallApplied,
              CallLost, Expire, LookupStarts, LookUp, LookupHits, LookupMisses,
              LookupFinds, LookupStores, LookupFails, LookAt, vars
<1>3. QED
  BY <1>1, <1>2

LEMMA PastServeStep ==
  ASSUME TypeOK, OnlyPastRules, seen \subseteq seen', NEW a \in Admins, Serve(a)
  PROVE  /\ UNCHANGED <<cache, look>>
         /\ \A b \in Admins : \A call \in issued'[b] :
                call.op = "set" => WasActive(call.key, call.rule)'
<1>1. UNCHANGED <<cache, look>>
  BY DEF Serve, RuleNotFound, RuleFound, CheckCached, CheckMisses,
         CheckStored, CreateStored, UpdateStored, RequestFails
<1>2. CASE UNCHANGED issued
  BY <1>1, <1>2 DEF OnlyPastRules, WasActive
<1>3. ASSUME NEW rule \in Rule,
             Enabled({rule}) \subseteq seen',
             issued' = [issued EXCEPT ![a] = CacheCallsFor(rule)]
      PROVE  \A b \in Admins : \A call \in issued'[b] :
                call.op = "set" => WasActive(call.key, call.rule)'
  <2>1. \A call \in CacheCallsFor(rule) :
            call.op = "set" => call.key = KeyOf(rule) /\ call.rule = rule
    BY DEF CacheCallsFor
  <2>2. KeyOf(rule).enabled => rule \in seen'
    BY <1>3 DEF KeyOf, KeyFor, Enabled
  <2>3. \A b \in Admins \ {a} : issued'[b] = issued[b]
    BY <1>3 DEF TypeOK
  <2>4. issued'[a] = CacheCallsFor(rule)
    BY <1>3 DEF TypeOK
  <2>5. QED
    BY <2>1, <2>2, <2>3, <2>4 DEF OnlyPastRules, WasActive
<1>4. CASE ~UNCHANGED issued
  <2>1. UpdateStored(a)
    BY <1>4 DEF Serve, RuleNotFound, RuleFound, CheckCached, CheckMisses,
                CheckStored, CreateStored, RequestFails
  <2>2. PICK rule \in rules :
          /\ rule.id = req[a].id
          /\ Store((rules \ {rule}) \union {Updated(rule, req[a].body)})
          /\ issued' = [issued EXCEPT
                  ![a] = CacheCallsFor(Updated(rule, req[a].body))]
    BY <2>1, <1>4 DEF UpdateStored
  <2>3. rule \in Rule /\ req[a].body \in Changes
    BY <2>1, <2>2, PolicyAssumption
       DEF UpdateStored, TypeOK, Request, Idle, Rule
  <2>4. Updated(rule, req[a].body) \in Rule
    BY <2>3, UpdatedType
  <2>5. Enabled({Updated(rule, req[a].body)}) \subseteq seen'
    BY <2>2 DEF Store, Enabled
  <2>6. QED
    BY <1>1, <1>3, <2>2, <2>4, <2>5
<1>5. QED
  BY <1>1, <1>2, <1>4

LookersPast ==
  \A l \in Readers :
    /\ look[l].pc # "idle" => look[l].key.enabled
    /\ look[l].pc \in {"storing", "answered"} =>
         WasActive(look[l].key, look[l].rule)

LEMMA PastLookStep ==
  ASSUME TypeOK, OnlyPastRules, UNCHANGED seen,
         NEW l \in Readers, LookUp(l) \/ LookupStarts(l)
  PROVE  /\ \A k \in Key : cache'[k] # Absent => WasActive(k, cache'[k])
         /\ LookersPast'
<1> DEFINE k == look[l].key
<1>1. look[l].pc \in {"reading", "querying", "storing"}
        => k \in Key /\ k.enabled
  BY DEF TypeOK, Lookup, Idle, OnlyPastRules
<1>2. /\ \A key \in Key : cache[key] # Absent => WasActive(key, cache[key])
      /\ LookersPast
  BY DEF OnlyPastRules, LookersPast
<1>3. \A key, rule : WasActive(key, rule) => WasActive(key, rule)'
  BY DEF WasActive
<1>4. ASSUME NEW state, LookAt(l, state),
             state.pc # "idle" => state.key.enabled,
             state.pc \in {"storing", "answered"} =>
                WasActive(state.key, state.rule)
      PROVE  LookersPast'
  BY <1>2, <1>3, <1>4 DEF LookAt, LookersPast, TypeOK
<1>5. CASE LookupStarts(l)
  <2>1. PICK acquirer \in Acquirers :
          LookAt(l, [pc |-> "reading", key |-> KeyFor(Country, acquirer, TRUE)])
    BY <1>5 DEF LookupStarts
  <2>2. KeyFor(Country, acquirer, TRUE).enabled
    BY DEF KeyFor
  <2>3. LookersPast'
    BY <1>4, <2>1, <2>2
  <2>4. QED
    BY <1>2, <1>3, <1>5, <2>3 DEF LookupStarts
<1>6. CASE LookupHits(l)
  <2>1. WasActive(k, cache[k]) /\ k.enabled
    BY <1>1, <1>2, <1>6 DEF LookupHits
  <2>2. LookersPast'
    BY <1>4, <1>6, <2>1 DEF LookupHits
  <2>3. QED
    BY <1>2, <1>3, <1>6, <2>2 DEF LookupHits
<1>7. CASE LookupMisses(l)
  <2>1. LookersPast'
    BY <1>1, <1>4, <1>7 DEF LookupMisses
  <2>2. QED
    BY <1>2, <1>3, <1>7, <2>1 DEF LookupMisses
<1>8. CASE LookupFinds(l)
  <2>1. PICK first \in First(k) :
          LookAt(l, [pc |-> "storing", key |-> k, rule |-> first])
    BY <1>8 DEF LookupFinds
  <2>2. WasActive(k, first) /\ k.enabled
    BY <1>1, <1>8, FirstWasActive DEF LookupFinds
  <2>3. LookersPast'
    BY <1>4, <2>1, <2>2
  <2>4. QED
    BY <1>2, <1>3, <1>8, <2>3 DEF LookupFinds
<1>9. CASE LookupStores(l)
  <2>1. WasActive(k, look[l].rule) /\ k.enabled
    BY <1>1, <1>2, <1>9 DEF LookupStores, LookersPast
  <2>2. LookersPast'
    BY <1>4, <1>9, <2>1 DEF LookupStores
  <2>3. cache' = [cache EXCEPT ![k] = look[l].rule]
    BY <1>9 DEF LookupStores
  <2>4. QED
    BY <1>2, <1>3, <2>1, <2>2, <2>3 DEF TypeOK
<1>10. CASE LookupFails(l)
  <2>1. LookersPast'
    BY <1>4, <1>10 DEF LookupFails, Idle
  <2>2. QED
    BY <1>2, <1>3, <1>10, <2>1 DEF LookupFails
<1>11. QED
  BY <1>5, <1>6, <1>7, <1>8, <1>9, <1>10 DEF LookUp

LEMMA PastStep ==
  ASSUME TypeOK, OnlyPastRules, [Next]_vars
  PROVE  OnlyPastRules'
<1>1. /\ seen \subseteq seen'
      /\ Enabled(rules') \subseteq seen'
  BY SeenGrows DEF OnlyPastRules
<1>2. \A k, rule : WasActive(k, rule) => WasActive(k, rule)'
  BY <1>1 DEF WasActive
<1>3. ASSUME UNCHANGED <<cache, issued, look>> PROVE OnlyPastRules'
  BY <1>1, <1>2, <1>3 DEF OnlyPastRules, Enabled
<1>4. ASSUME NEW a \in Admins, ReceiveCreate(a) \/ ReceiveUpdate(a)
      PROVE  OnlyPastRules'
  BY <1>3, <1>4 DEF ReceiveCreate, ReceiveUpdate, Received
<1>5. ASSUME NEW a \in Admins, Serve(a) PROVE OnlyPastRules'
  <2>1. /\ UNCHANGED <<cache, look>>
        /\ \A b \in Admins : \A call \in issued'[b] :
                call.op = "set" => WasActive(call.key, call.rule)'
    BY <1>1, <1>5, PastServeStep
  <2>2. QED
    BY <1>1, <1>2, <2>1 DEF OnlyPastRules, Enabled
<1>6. ASSUME NEW a \in Admins, Crash(a) PROVE OnlyPastRules'
  <2>1. \A b \in Admins : issued'[b] \subseteq issued[b]
    BY <1>6 DEF Crash, TypeOK
  <2>2. QED
    BY <1>1, <1>2, <1>6, <2>1 DEF Crash, OnlyPastRules, Enabled
<1>7. ASSUME NEW a \in Admins, NEW call \in issued[a],
             CallApplied(a, call) \/ CallLost(a, call)
      PROVE  OnlyPastRules'
  <2>1. \A b \in Admins : issued'[b] \subseteq issued[b]
    BY <1>7 DEF CallApplied, CallLost, CallDone, TypeOK
  <2>2. \A k \in Key : cache'[k] # Absent => WasActive(k, cache'[k])
    BY <1>7 DEF CallApplied, CallLost, Apply, OnlyPastRules, TypeOK
  <2>3. UNCHANGED look
    BY <1>7 DEF CallApplied, CallLost
  <2>4. QED
    BY <1>1, <1>2, <2>1, <2>2, <2>3 DEF OnlyPastRules, Enabled
<1>8. ASSUME NEW k \in Key, Expire(k) PROVE OnlyPastRules'
  <2>1. \A key \in Key : cache'[key] # Absent => cache'[key] = cache[key]
    BY <1>8 DEF Expire, TypeOK
  <2>2. QED
    BY <1>1, <1>2, <1>8, <2>1 DEF Expire, OnlyPastRules, Enabled
<1>9. ASSUME NEW l \in Readers, LookUp(l) \/ LookupStarts(l)
      PROVE  OnlyPastRules'
  <2>1. UNCHANGED <<rules, seen, issued>>
    BY <1>9 DEF LookUp, LookupStarts, LookupHits, LookupMisses, LookupFinds,
                LookupStores, LookupFails, LookAt
  <2>2. /\ \A k \in Key : cache'[k] # Absent => WasActive(k, cache'[k])
        /\ LookersPast'
    BY <1>9, <2>1, PastLookStep
  <2>3. QED
    BY <1>1, <1>2, <2>1, <2>2 DEF OnlyPastRules, LookersPast, Enabled
<1>10. CASE UNCHANGED vars
  BY <1>3, <1>10 DEF vars
<1>11. QED
  BY <1>4, <1>5, <1>6, <1>7, <1>8, <1>9, <1>10 DEF Next

(* In any deployment, with any faults, what the cache holds for the        *)
(* engine, and what a lookup answers, was an active rule of the acquirer.  *)
THEOREM PastRulesOnly == Spec => []OnlyPastRules
<1>1. Init => OnlyPastRules
  BY DEF Init, OnlyPastRules, Enabled, Idle
<1>2. TypeOK /\ OnlyPastRules /\ [Next]_vars => OnlyPastRules'
  BY PastStep
<1>3. QED
  BY <1>1, <1>2, TypeCorrect, PTL DEF Spec
-----------------------------------------------------------------------------
(* The refinement of RuleRegister.                                         *)

(* A write to the collection is a Change, for the rules it puts in force   *)
(* are recorded as past ones.                                              *)
LEMMA RegisterChange ==
  ASSUME seen' = seen \union Enabled(rules'), UNCHANGED look
  PROVE  Register!Change
<1> DEFINE in(ruleSet, k) == {r \in ruleSet : KeyOf(r) = k}
<1>1. [k \in Key |-> in(seen', k)] =
        [k \in Key |-> in(seen, k) \union in(Enabled(rules'), k)]
  OBVIOUS
<1>2. Enabled(rules)' = Enabled(rules')
  BY DEF Enabled
<1>3. QED
  BY <1>1, <1>2 DEF Register!Change

(* The answer of l, as RuleRegister sees it.                               *)
Said(state) ==
  IF state.pc = "answered" THEN [key |-> state.key, rule |-> state.rule]
  ELSE NoAnswer

LEMMA RegisterLook ==
  ASSUME TypeOK, UNCHANGED <<rules, seen>>,
         NEW l \in Readers, NEW state, LookAt(l, state),
         \/ Said(state) \in {NoAnswer, Said(look[l])}
         \/ \E k \in Key : /\ state.pc = "answered"
                           /\ state.key = k
                           /\ WasActive(k, state.rule)
                           /\ k.enabled
  PROVE  [Register!Next]_Register!vars
<1> DEFINE answers == [r \in Readers |-> Said(look[r])]
           past == [k \in Key |-> {r \in seen : KeyOf(r) = k}]
           inForce == [k \in Key |-> {r \in Enabled(rules) : KeyOf(r) = k}]
<1>1. answers' = [answers EXCEPT ![l] = Said(state)]
  BY DEF LookAt, TypeOK, Said
<1>2. UNCHANGED <<inForce, past>>
  BY DEF Enabled
<1>3. CASE Said(state) = NoAnswer
  <2>1. Register!Ask(l)
    BY <1>1, <1>2, <1>3 DEF Register!Ask, Said
  <2>2. QED
    BY <2>1 DEF Register!Next
<1>4. CASE Said(state) = Said(look[l])
  <2>1. answers' = answers
    BY <1>1, <1>4
  <2>2. QED
    BY <1>2, <2>1 DEF Register!vars, Said
<1>5. ASSUME NEW k \in Key, state.pc = "answered", state.key = k,
             WasActive(k, state.rule), k.enabled
      PROVE  [Register!Next]_Register!vars
  <2>1. state.rule \in past[k] \union {NoRule}
    BY <1>5 DEF WasActive
  <2>2. Said(state) = [key |-> k, rule |-> state.rule]
    BY <1>5 DEF Said
  <2>3. Register!Answer(l, k)
    BY <1>1, <1>2, <2>1, <2>2 DEF Register!Answer, Said
  <2>4. QED
    BY <2>3 DEF Register!Next
<1>6. QED
  BY <1>3, <1>4, <1>5

LEMMA RegisterStep ==
  ASSUME TypeOK, OnlyPastRules, [Next]_vars
  PROVE  [Register!Next]_Register!vars
<1>1. ASSUME UNCHANGED <<rules, seen, look>> PROVE UNCHANGED Register!vars
  BY <1>1 DEF Register!vars, Enabled
<1>2. ASSUME NEW a \in Admins, Serve(a) PROVE [Register!Next]_Register!vars
  <2>1. UNCHANGED look
    BY <1>2 DEF Serve, RuleNotFound, RuleFound, CheckCached, CheckMisses,
                CheckStored, CreateStored, UpdateStored, RequestFails
  <2>2. UNCHANGED <<rules, seen>> \/ seen' = seen \union Enabled(rules')
    BY SeenGrows
  <2>3. QED
    BY <1>1, <2>1, <2>2, RegisterChange DEF Register!Next
<1>3. ASSUME NEW l \in Readers, LookUp(l) \/ LookupStarts(l)
      PROVE  [Register!Next]_Register!vars
  <2>1. UNCHANGED <<rules, seen>>
    BY <1>3 DEF LookUp, LookupStarts, LookupHits, LookupMisses, LookupFinds,
                LookupStores, LookupFails, LookAt
  <2>2. look[l].pc \in {"reading", "querying", "storing"}
          => look[l].key \in Key /\ look[l].key.enabled
    BY DEF TypeOK, Lookup, Idle, OnlyPastRules
  <2>3. \/ \E state : LookAt(l, state) /\ Said(state) = NoAnswer
        \/ \E state : /\ LookAt(l, state)
                      /\ state.pc = "answered"
                      /\ state.key \in Key /\ state.key.enabled
                      /\ WasActive(state.key, state.rule)
    <3>1. CASE LookupStarts(l)
      BY <3>1 DEF LookupStarts, Said
    <3>2. CASE LookupHits(l)
      BY <2>2, <3>2 DEF LookupHits, OnlyPastRules
    <3>3. CASE LookupMisses(l)
      BY <3>3 DEF LookupMisses, Said
    <3>4. CASE LookupFinds(l)
      BY <3>4 DEF LookupFinds, Said
    <3>5. CASE LookupStores(l)
      BY <2>2, <3>5 DEF LookupStores, OnlyPastRules
    <3>6. CASE LookupFails(l)
      BY <3>6 DEF LookupFails, Said, Idle
    <3>7. QED
      BY <1>3, <3>1, <3>2, <3>3, <3>4, <3>5, <3>6 DEF LookUp
  <2>4. QED
    BY <2>1, <2>3, RegisterLook
<1>4. CASE UNCHANGED <<rules, seen, look>>
  BY <1>1, <1>4
<1>5. CASE ~UNCHANGED <<rules, seen, look>>
  <2>1. \/ \E a \in Admins : Serve(a)
        \/ \E l \in Readers : LookUp(l) \/ LookupStarts(l)
    BY <1>5 DEF Next, ReceiveCreate, ReceiveUpdate, Received, Crash,
                CallApplied, CallLost, Expire, vars
  <2>2. QED
    BY <1>2, <1>3, <2>1
<1>6. QED
  BY <1>4, <1>5

(* Whatever requests, lookups, failing calls, crashes and expiring entries *)
(* do to each other, getConfiguration answers the engine as a register of  *)
(* rules that may be behind the database, and never with anything else.    *)
THEOREM RegisterRefinement == Spec => ImplementsRegister
<1>1. Init => Register!Init
  BY DEF Init, Register!Init, Enabled, Idle
<1>2. TypeOK /\ OnlyPastRules /\ [Next]_vars => [Register!Next]_Register!vars
  BY RegisterStep
<1>3. QED
  BY <1>1, <1>2, TypeCorrect, PastRulesOnly, PTL
     DEF Spec, ImplementsRegister, Register!Spec
-----------------------------------------------------------------------------
(* The check for another active rule.                                      *)

(* The parts of CheckInv, which hold as long as nothing has disturbed the  *)
(* check.                                                                  *)
CheckParts ==
  /\ OneActiveRule /\ EntriesExclude /\ CallsExclude /\ OneAtATime
  /\ OwnIds /\ SlotKnown /\ PassedExclude

(* Steps that only end requests, drop cache calls or drop entries.         *)
LEMMA CheckFewer ==
  ASSUME TypeOK, CheckParts, UNCHANGED rules,
         \A b \in Admins : req'[b] \in {req[b], Idle},
         \A b \in Admins : issued'[b] \subseteq issued[b],
         \A k \in Key : cache'[k] \in {cache[k], Absent}
  PROVE  CheckParts'
<1>1. OneActiveRule' /\ OwnIds'
  BY DEF CheckParts, OneActiveRule, OwnIds, Enabled
<1>2. \A k, id : Excludes(k, id) => Excludes(k, id)'
  BY DEF Excludes, Matching
<1>3. EntriesExclude' /\ CallsExclude'
  BY <1>2 DEF CheckParts, EntriesExclude, CallsExclude
<1>4. OneAtATime'
  BY DEF CheckParts, OneAtATime
<1>5. SlotKnown'
  BY DEF CheckParts, SlotKnown, Idle
<1>6. ASSUME NEW a \in Admins, req'[a].pc \in {"querying", "writing"}
      PROVE  /\ req'[a] = req[a]
             /\ SlotOf(a)' = SlotOf(a)
             /\ SlotOf(a) \in Key
             /\ cache'[SlotOf(a)] \in {cache[SlotOf(a)], Absent}
  <2>1. req'[a] = req[a]
    BY <1>6 DEF Idle
  <2>2. req[a].country \in Countries /\ req[a].acquirer \in Acquirers
    BY <1>6, <2>1 DEF TypeOK, Request, Idle
  <2>3. SlotOf(a) \in Key
    BY <2>2, KeyType DEF SlotOf
  <2>4. QED
    BY <2>1, <2>3 DEF SlotOf
<1>7. PassedExclude'
  BY <1>2, <1>6 DEF CheckParts, PassedExclude, Matching
<1>8. QED
  BY <1>1, <1>3, <1>4, <1>5, <1>7 DEF CheckParts

(* a is the only request, and has no cache calls on their way.             *)
Alone(a) ==
  /\ issued[a] = {}
  /\ \A b \in Admins \ {a} : req[b] = Idle /\ issued[b] = {}

LEMMA ServedAlone ==
  ASSUME CheckParts, NEW a \in Admins, req[a] # Idle
  PROVE  Alone(a)
BY DEF CheckParts, OneAtATime, Alone

(* The only request goes on to a state that knows its slot, and has passed *)
(* the check when it says so.                                              *)
LEMMA CheckGoesOn ==
  ASSUME TypeOK, CheckParts, UNCHANGED <<rules, cache, issued>>,
         NEW a \in Admins, Alone(a),
         NEW state, req' = [req EXCEPT ![a] = state],
         SlotKnown',
         LET slot == KeyFor(state.country, state.acquirer, TRUE)
         IN  /\ state.pc = "querying" => cache[slot] = Absent
             /\ state.pc = "writing" =>
                  /\ Excludes(slot, state.id)
                  /\ cache[slot] # Absent => cache[slot].id = state.id
  PROVE  CheckParts'
<1>1. req'[a] = state /\ \A b \in Admins \ {a} : req'[b] = Idle
  BY DEF TypeOK, Alone
<1>2. \A k, id : Excludes(k, id) => Excludes(k, id)'
  BY DEF Excludes, Matching
<1>3. OneActiveRule' /\ OwnIds'
  BY DEF CheckParts, OneActiveRule, OwnIds, Enabled
<1>4. EntriesExclude' /\ CallsExclude'
  BY <1>2 DEF CheckParts, EntriesExclude, CallsExclude
<1>5. OneAtATime'
  BY <1>1 DEF Alone, OneAtATime
<1>6. PassedExclude'
  <2>1. SlotOf(a)' = KeyFor(state.country, state.acquirer, TRUE)
    BY <1>1 DEF SlotOf
  <2>2. \A b \in Admins \ {a} : req'[b].pc \notin {"querying", "writing"}
    BY <1>1 DEF Idle
  <2>3. QED
    BY <1>1, <1>2, <2>1, <2>2 DEF PassedExclude
<1>7. QED
  BY <1>3, <1>4, <1>5, <1>6 DEF CheckParts

LEMMA CheckReceived ==
  ASSUME TypeOK, CheckParts, ~disturbed',
         NEW a \in Admins, ReceiveCreate(a) \/ ReceiveUpdate(a)
  PROVE  CheckParts'
<1>1. Alone(a)
  BY DEF ReceiveCreate, ReceiveUpdate, Received, Disturbance, Overlap, Alone
<1>2. UNCHANGED <<rules, cache, issued>>
  BY DEF ReceiveCreate, ReceiveUpdate, Received
<1>3. CASE ReceiveCreate(a)
  <2>1. PICK body \in Creations :
          req' = [req EXCEPT ![a] =
            [pc |-> "checking", id |-> NoId, body |-> body,
             country |-> body.country, acquirer |-> body.acquirer]]
    BY <1>3 DEF ReceiveCreate
  <2>2. \A rule \in rules : rule.id # NoId
    BY PolicyAssumption DEF TypeOK, Rule
  <2>3. SlotKnown'
    BY <1>1, <1>2, <2>1, <2>2 DEF SlotKnown, TypeOK, Alone, Idle
  <2>4. QED
    BY <1>1, <1>2, <2>1, <2>3, CheckGoesOn
<1>4. CASE ReceiveUpdate(a)
  <2>1. PICK body \in Changes, id \in Ids :
          req' = [req EXCEPT ![a] =
                    [pc |-> "finding", id |-> id, body |-> body]]
    BY <1>4 DEF ReceiveUpdate
  <2>2. SlotKnown'
    BY <1>1, <2>1 DEF SlotKnown, TypeOK, Alone, Idle
  <2>3. QED
    BY <1>1, <1>2, <2>1, <2>2, CheckGoesOn
<1>5. QED
  BY <1>3, <1>4

LEMMA CheckFound ==
  ASSUME TypeOK, CheckParts, NEW a \in Admins, RuleFound(a)
  PROVE  CheckParts'
<1>1. Alone(a) /\ UNCHANGED <<rules, cache, issued>>
  BY ServedAlone DEF RuleFound, Idle
<1>2. PICK rule \in rules :
        /\ rule.id = req[a].id
        /\ req' = [req EXCEPT ![a] =
            [pc |-> "checking", id |-> rule.id, body |-> req[a].body,
             country |-> Or(req[a].body.country, rule.country),
             acquirer |-> Or(req[a].body.acquirer, rule.acquirer)]]
  BY DEF RuleFound
<1>3. \A r \in rules : r.id = rule.id => r = rule
  BY DEF CheckParts, OwnIds
<1>4. rule.id # NoId
  BY PolicyAssumption DEF TypeOK, Rule
<1>5. SlotKnown'
  BY <1>1, <1>2, <1>3, <1>4 DEF SlotKnown, TypeOK, Alone, Idle
<1>6. QED
  BY <1>1, <1>2, <1>5, CheckGoesOn

(* Of the rules under the key of an active rule, none has another id.      *)
LEMMA MatchExcludes ==
  ASSUME OneActiveRule, NEW k, k.enabled, NEW rule \in Matching(k)
  PROVE  Excludes(k, rule.id)
BY DEF OneActiveRule, Excludes, Matching, Enabled, KeyOf, KeyFor

LEMMA CheckJudged ==
  ASSUME TypeOK, CheckParts,
         NEW a \in Admins, CheckCached(a) \/ CheckMisses(a) \/ CheckStored(a)
  PROVE  CheckParts'
<1> DEFINE slot == SlotOf(a)
<1>1. Alone(a) /\ UNCHANGED <<rules, cache, issued>>
  BY ServedAlone DEF CheckCached, CheckMisses, CheckStored, Idle
<1>2. req[a].pc \in {"checking", "querying"}
  BY DEF CheckCached, CheckMisses, CheckStored
<1>3. /\ req[a] \in Request
      /\ req[a].country \in Countries /\ req[a].acquirer \in Acquirers
  BY <1>2 DEF TypeOK, Request, Idle
<1>4. slot \in Key /\ slot.enabled
  BY <1>3, KeyType DEF SlotOf, KeyFor
<1>5. ASSUME NEW pc \in {"querying", "writing"},
             req' = [req EXCEPT ![a] = [req[a] EXCEPT !.pc = pc]],
             pc = "querying" => cache[slot] = Absent,
             pc = "writing" =>
                /\ Excludes(slot, req[a].id)
                /\ cache[slot] # Absent => cache[slot].id = req[a].id
      PROVE  CheckParts'
  <2> DEFINE state == [req[a] EXCEPT !.pc = pc]
  <2>1. /\ state.pc = pc /\ state.id = req[a].id
        /\ state.body = req[a].body
        /\ state.country = req[a].country /\ state.acquirer = req[a].acquirer
    BY <1>2, <1>3 DEF Request
  <2>2. req' = [req EXCEPT ![a] = state]
    BY <1>5
  <2> HIDE DEF state
  <2>3. SlotKnown'
    <3>1. req'[a] = state /\ \A b \in Admins \ {a} : req'[b] = req[b]
      BY <2>2 DEF TypeOK
    <3>2. UNCHANGED rules
      BY <1>1
    <3>3. SlotKnown
      BY DEF CheckParts
    <3>4. QED
      BY <1>2, <2>1, <3>1, <3>2, <3>3 DEF SlotKnown
  <2>4. slot = KeyFor(state.country, state.acquirer, TRUE)
    BY <2>1 DEF SlotOf
  <2>5. QED
    BY <1>1, <1>5, <2>1, <2>2, <2>3, <2>4, CheckGoesOn
<1>6. ASSUME NEW first, Judge(a, first),
             first = NoRule \/ first.id = req[a].id =>
                /\ Excludes(slot, req[a].id)
                /\ cache[slot] # Absent => cache[slot].id = req[a].id
      PROVE  CheckParts'
  <2>1. CASE first = NoRule \/ first.id = req[a].id
    <3>1. req' = [req EXCEPT ![a] = [req[a] EXCEPT !.pc = "writing"]]
      BY <1>6, <2>1 DEF Judge
    <3>2. QED
      BY <1>5, <1>6, <2>1, <3>1
  <2>2. CASE ~(first = NoRule \/ first.id = req[a].id)
    <3>1. req' = [req EXCEPT ![a] = Idle]
      BY <1>6, <2>2 DEF Judge
    <3>2. QED
      BY <1>1, <3>1, CheckFewer DEF TypeOK
  <2>3. QED
    BY <2>1, <2>2
<1>7. CASE CheckCached(a)
  <2>1. cache[slot] # NoRule /\ Excludes(slot, cache[slot].id)
    BY <1>4, <1>7 DEF CheckCached, CheckParts, EntriesExclude
  <2>2. QED
    BY <1>6, <1>7, <2>1 DEF CheckCached
<1>8. CASE CheckMisses(a)
  <2>1. req' = [req EXCEPT ![a] = [req[a] EXCEPT !.pc = "querying"]]
    BY <1>8 DEF CheckMisses
  <2>2. QED
    BY <1>5, <1>8, <2>1 DEF CheckMisses
<1>9. CASE CheckStored(a)
  <2>1. PICK first \in First(slot) : Judge(a, first)
    BY <1>9 DEF CheckStored
  <2>2. cache[slot] \in Matching(slot) \union {Absent}
    BY <1>9 DEF CheckStored, CheckParts, PassedExclude
  <2>3. CASE Matching(slot) = {}
    BY <1>6, <2>1, <2>2, <2>3 DEF Excludes
  <2>4. CASE Matching(slot) # {}
    <3>1. first \in Matching(slot) /\ first # NoRule
      BY <2>1, <2>4, PolicyAssumption DEF First, Matching, TypeOK
    <3>2. Excludes(slot, first.id)
      BY <1>4, <3>1, MatchExcludes DEF CheckParts
    <3>3. QED
      BY <1>6, <2>1, <2>2, <3>1, <3>2 DEF Excludes
  <2>5. QED
    BY <2>3, <2>4
<1>10. QED
  BY <1>7, <1>8, <1>9

(* The only request ends and stores rule: in place of the one with its id, *)
(* if there is one, and under a key that excludes every other rule.        *)
LEMMA CheckWritten ==
  ASSUME TypeOK, CheckParts, NEW a \in Admins, Alone(a),
         UNCHANGED cache, req' = [req EXCEPT ![a] = Idle],
         NEW rule \in Rule,
         rules' = {r \in rules : r.id # rule.id} \union {rule},
         \A b \in Admins \ {a} : issued'[b] = issued[b],
         \A call \in issued'[a] :
            call.op = "set" => call.key = KeyOf(rule) /\ call.rule = rule,
         rule.enabled =>
            /\ Excludes(KeyOf(rule), rule.id)
            /\ cache[KeyOf(rule)] # Absent => cache[KeyOf(rule)].id = rule.id
  PROVE  CheckParts'
<1>1. \A b \in Admins : req'[b] = Idle
  BY DEF TypeOK, Alone
<1>2. \A b \in Admins \ {a} : issued'[b] = {}
  BY DEF Alone
<1>3. SlotKnown' /\ PassedExclude' /\ OneAtATime'
  BY <1>1, <1>2 DEF SlotKnown, PassedExclude, OneAtATime, Idle
<1>4. OwnIds'
  BY DEF CheckParts, OwnIds
<1>5. \A k : Matching(k)' \subseteq Matching(k) \union {rule}
  BY DEF Matching
<1>6. \A k, id : Excludes(k, id) /\ (KeyOf(rule) = k => rule.id = id)
                    => Excludes(k, id)'
  <2>1. TAKE k, id
  <2>2. HAVE Excludes(k, id) /\ (KeyOf(rule) = k => rule.id = id)
  <2>3. \A r \in rules' : r \in rules \/ r = rule
    OBVIOUS
  <2>4. QED
    BY <2>2, <2>3 DEF Excludes, Matching
<1>7. \A k : k.enabled /\ KeyOf(rule) = k => rule.enabled
  BY DEF KeyOf, KeyFor
<1>8. OneActiveRule'
  <2>1. rule.enabled => \A r \in rules : KeyOf(r) = KeyOf(rule) => r.id = rule.id
    BY DEF Excludes, Matching
  <2>2. \A r, s \in rules :
            r.enabled /\ s.enabled /\ KeyOf(r) = KeyOf(s) => r.id = s.id
    BY DEF CheckParts, OneActiveRule, Enabled
  <2>3. \A r \in rules' : r = rule \/ r \in rules
    OBVIOUS
  <2>4. ASSUME NEW r \in rules', NEW s \in rules',
               r.enabled, s.enabled, KeyOf(r) = KeyOf(s)
        PROVE  r.id = s.id
    BY <2>1, <2>2, <2>3, <2>4
  <2>5. QED
    BY <2>4 DEF OneActiveRule, Enabled
<1>9. EntriesExclude'
  <2>1. EntriesExclude
    BY DEF CheckParts
  <2>2. SUFFICES ASSUME NEW k \in Key, k.enabled, cache[k] # Absent
                 PROVE  cache[k] # NoRule /\ Excludes(k, cache[k].id)'
    BY DEF EntriesExclude
  <2>3. cache[k] # NoRule /\ Excludes(k, cache[k].id)
    BY <2>1, <2>2 DEF EntriesExclude
  <2>4. KeyOf(rule) = k => cache[k].id = rule.id
    BY <1>7, <2>2
  <2>5. QED
    BY <1>6, <2>3, <2>4
<1>10. CallsExclude'
  <2>1. SUFFICES ASSUME NEW call \in issued'[a],
                        call.op = "set", call.key.enabled
                 PROVE  Excludes(call.key, call.rule.id)'
    BY <1>2 DEF CallsExclude
  <2>2. call.key = KeyOf(rule) /\ call.rule = rule
    BY <2>1
  <2>3. Excludes(KeyOf(rule), rule.id)
    BY <1>7, <2>1, <2>2
  <2>4. QED
    BY <1>6, <2>2, <2>3
<1>11. QED
  BY <1>3, <1>4, <1>8, <1>9, <1>10 DEF CheckParts

LEMMA CheckCreated ==
  ASSUME TypeOK, CheckParts, NEW a \in Admins, CreateStored(a)
  PROVE  CheckParts'
<1> DEFINE body == req[a].body
           slot == SlotOf(a)
<1>1. Alone(a)
  BY ServedAlone DEF CreateStored, Idle
<1>2. PICK id \in Ids :
        /\ \A rule \in rules : rule.id # id
        /\ rules' = rules \union {[id |-> id, country |-> body.country,
                                   acquirer |-> body.acquirer,
                                   enabled |-> body.enabled,
                                   content |-> body.content]}
  BY DEF CreateStored, Store
<1> DEFINE new == [id |-> id, country |-> body.country,
                   acquirer |-> body.acquirer, enabled |-> body.enabled,
                   content |-> body.content]
<1>3. body \in Body
  BY PolicyAssumption DEF CreateStored, TypeOK, Request, Idle
<1>4. new \in Rule
  BY <1>3 DEF Body, Rule
<1>5. slot \in Key /\ slot.enabled /\ (new.enabled => KeyOf(new) = slot)
  <2>1. req[a].country = body.country /\ req[a].acquirer = body.acquirer
    BY DEF CreateStored, CheckParts, SlotKnown
  <2>2. slot = KeyFor(body.country, body.acquirer, TRUE)
    BY <2>1 DEF SlotOf
  <2>3. body.country \in Countries /\ body.acquirer \in Acquirers
    BY <1>3 DEF Body
  <2>4. body.enabled = TRUE \/ body.enabled = FALSE
    BY <1>3 DEF Body
  <2>5. /\ new.country = body.country /\ new.acquirer = body.acquirer
        /\ new.enabled = body.enabled
    OBVIOUS
  <2>6. slot \in Key /\ slot.enabled
    <3>1. slot \in Key
      BY <2>2, <2>3, KeyType
    <3>2. slot.enabled
      BY <2>2 DEF KeyFor
    <3>3. QED
      BY <3>1, <3>2
  <2> HIDE DEF new
  <2>7. new.enabled => KeyOf(new) = slot
    BY <2>2, <2>4, <2>5 DEF KeyOf
  <2>8. QED
    BY <2>6, <2>7
<1>6. Matching(slot) = {}
  <2>1. Excludes(slot, NoId)
    BY DEF CreateStored, CheckParts, PassedExclude
  <2>2. \A rule \in rules : rule.id # NoId
    BY PolicyAssumption DEF TypeOK, Rule
  <2>3. QED
    BY <2>1, <2>2 DEF Excludes, Matching
<1>7. cache[slot] = Absent
  <2>1. cache[slot] # Absent => cache[slot].id = NoId
    BY DEF CreateStored, CheckParts, PassedExclude
  <2>2. cache[slot] # Absent => cache[slot] \in Rule
    BY <1>5 DEF CheckParts, EntriesExclude, TypeOK, Answers
  <2>3. QED
    BY <2>1, <2>2, PolicyAssumption DEF Rule
<1>8. UNCHANGED <<cache, issued>> /\ req' = [req EXCEPT ![a] = Idle]
  BY DEF CreateStored
<1>9. new.id = id
  OBVIOUS
<1> HIDE DEF new
<1>10. rules' = {r \in rules : r.id # new.id} \union {new}
  BY <1>2, <1>9 DEF new
<1>11. issued'[a] = {}
  BY <1>1, <1>8 DEF Alone
<1>12. QED
  BY <1>1, <1>4, <1>5, <1>6, <1>7, <1>8, <1>10, <1>11, CheckWritten
     DEF Excludes

LEMMA CheckUpdated ==
  ASSUME TypeOK, CheckParts, NEW a \in Admins, UpdateStored(a)
  PROVE  CheckParts'
<1> DEFINE body == req[a].body
           slot == SlotOf(a)
<1>1. Alone(a)
  BY ServedAlone DEF UpdateStored, Idle
<1>2. PICK rule \in rules :
        /\ rule.id = req[a].id
        /\ rules' = (rules \ {rule}) \union {Updated(rule, body)}
        /\ \/ issued' = [issued EXCEPT ![a] = CacheCallsFor(Updated(rule, body))]
           \/ UNCHANGED issued
  BY DEF UpdateStored, Store
<1> DEFINE response == Updated(rule, body)
<1>3. rule \in Rule /\ body \in Changes
  BY <1>2, PolicyAssumption DEF UpdateStored, TypeOK, Request, Idle, Rule
<1>4. response \in Rule /\ response.id = req[a].id
  BY <1>2, <1>3, UpdatedType DEF Updated
<1>5. response.enabled => KeyOf(response) = slot
  <2>1. /\ req[a].country = Or(body.country, rule.country)
        /\ req[a].acquirer = Or(body.acquirer, rule.acquirer)
    BY <1>2 DEF UpdateStored, CheckParts, SlotKnown
  <2>2. response.country = req[a].country /\ response.acquirer = req[a].acquirer
    BY <2>1 DEF Updated
  <2>3. response.enabled = TRUE \/ response.enabled = FALSE
    BY <1>4 DEF Rule
  <2>4. QED
    BY <2>2, <2>3 DEF SlotOf, KeyOf
<1>6. /\ Excludes(slot, req[a].id)
      /\ cache[slot] # Absent => cache[slot].id = req[a].id
  BY DEF UpdateStored, CheckParts, PassedExclude
<1>7. UNCHANGED cache /\ req' = [req EXCEPT ![a] = Idle]
  BY DEF UpdateStored
<1>8. \A call \in CacheCallsFor(response) :
        call.op = "set" => call.key = KeyOf(response) /\ call.rule = response
  BY DEF CacheCallsFor
<1> HIDE DEF response
<1>9. rules' = {r \in rules : r.id # response.id} \union {response}
  <2>1. \A r \in rules : r.id = response.id <=> r = rule
    BY <1>2, <1>4 DEF CheckParts, OwnIds
  <2>2. rules' = (rules \ {rule}) \union {response}
    BY <1>2 DEF response
  <2>3. QED
    BY <2>1, <2>2
<1>10. \A b \in Admins \ {a} : issued'[b] = issued[b]
  BY <1>2 DEF TypeOK
<1>11. \A call \in issued'[a] :
        call.op = "set" => call.key = KeyOf(response) /\ call.rule = response
  <2>1. CASE UNCHANGED issued
    BY <1>1, <2>1 DEF Alone
  <2>2. CASE issued' = [issued EXCEPT ![a] = CacheCallsFor(response)]
    BY <1>8, <2>2 DEF TypeOK
  <2>3. QED
    BY <1>2, <2>1, <2>2 DEF response
<1>12. QED
  BY <1>1, <1>4, <1>5, <1>6, <1>7, <1>9, <1>10, <1>11, CheckWritten

LEMMA CheckApplied ==
  ASSUME TypeOK, CheckParts,
         NEW a \in Admins, NEW call \in issued[a], CallApplied(a, call)
  PROVE  CheckParts'
<1>1. \A b \in Admins : req[b] = Idle
  BY DEF CheckParts, OneAtATime
<1>2. UNCHANGED <<rules, req>>
  BY DEF CallApplied
<1>3. \A b \in Admins : issued'[b] \subseteq issued[b]
  BY DEF CallApplied, CallDone, TypeOK
<1>4. call \in CacheCall
  BY DEF TypeOK
<1>5. OneActiveRule' /\ OwnIds'
  BY <1>2 DEF CheckParts, OneActiveRule, OwnIds, Enabled
<1>6. SlotKnown' /\ PassedExclude'
  BY <1>1, <1>2 DEF SlotKnown, PassedExclude, Idle
<1>7. OneAtATime'
  BY <1>1, <1>2, <1>3 DEF CheckParts, OneAtATime
<1>8. \A k, id : Excludes(k, id) => Excludes(k, id)'
  BY <1>2 DEF Excludes, Matching
<1>9. CallsExclude'
  BY <1>3, <1>8 DEF CheckParts, CallsExclude
<1>10. EntriesExclude'
  <2>1. \A k \in Key : k # call.key => cache'[k] = cache[k]
    BY DEF CallApplied, Apply, TypeOK
  <2>2. CASE call.op = "set"
    <3>1. call.rule \in Rule /\ call.key \in Key
      BY <1>4, <2>2 DEF CacheCall
    <3>2. cache'[call.key] = call.rule
      BY <2>2, <3>1 DEF CallApplied, Apply, TypeOK
    <3>3. call.key.enabled => Excludes(call.key, call.rule.id)
      BY <2>2 DEF CheckParts, CallsExclude
    <3>4. call.rule # NoRule
      BY <3>1, PolicyAssumption
    <3>5. QED
      BY <1>8, <2>1, <3>2, <3>3, <3>4 DEF CheckParts, EntriesExclude
  <2>3. CASE call.op # "set"
    <3>1. call.key \in Key => cache'[call.key] = Absent
      BY <2>3 DEF CallApplied, Apply, TypeOK
    <3>2. QED
      BY <1>8, <2>1, <3>1 DEF CheckParts, EntriesExclude
  <2>4. QED
    BY <2>2, <2>3
<1>11. QED
  BY <1>5, <1>6, <1>7, <1>9, <1>10 DEF CheckParts

LEMMA CheckCaches ==
  ASSUME TypeOK, CheckParts, ~disturbed', NEW l \in Readers, LookupStores(l)
  PROVE  CheckParts'
<1> DEFINE k == look[l].key
           found == look[l].rule
<1>1. UNCHANGED <<rules, req, issued>> /\ found \in Matching(k)
  BY DEF LookupStores, LookAt, Disturbance
<1>2. k \in Key /\ found # NoRule
  BY <1>1, PolicyAssumption DEF LookupStores, TypeOK, Lookup, Idle, Matching
<1>3. /\ cache'[k] = found
      /\ \A key \in Key : key # k => cache'[key] = cache[key]
  BY <1>2 DEF LookupStores, TypeOK
<1>4. OneActiveRule' /\ OwnIds' /\ SlotKnown' /\ OneAtATime'
  BY <1>1 DEF CheckParts, OneActiveRule, OwnIds, SlotKnown, OneAtATime, Enabled
<1>5. \A key, id : Excludes(key, id) => Excludes(key, id)'
  BY <1>1 DEF Excludes, Matching
<1>6. CallsExclude'
  BY <1>1, <1>5 DEF CheckParts, CallsExclude
<1>7. EntriesExclude'
  <2>1. k.enabled => Excludes(k, found.id)
    BY <1>1, MatchExcludes DEF CheckParts
  <2>2. QED
    BY <1>2, <1>3, <1>5, <2>1 DEF CheckParts, EntriesExclude
<1>8. PassedExclude'
  <2>1. SUFFICES ASSUME NEW a \in Admins, req[a].pc \in {"querying", "writing"}
                 PROVE  /\ req[a].pc = "querying" =>
                             cache'[SlotOf(a)] \in Matching(SlotOf(a)) \union {Absent}
                        /\ req[a].pc = "writing" =>
                             /\ Excludes(SlotOf(a), req[a].id)
                             /\ cache'[SlotOf(a)] # Absent =>
                                  cache'[SlotOf(a)].id = req[a].id
    BY <1>1, <1>5 DEF PassedExclude, SlotOf, Matching
  <2>2. SlotOf(a) \in Key
    <3>1. req[a].country \in Countries /\ req[a].acquirer \in Acquirers
      BY <2>1 DEF TypeOK, Request, Idle
    <3>2. QED
      BY <3>1, KeyType DEF SlotOf
  <2>3. CASE SlotOf(a) # k
    BY <1>3, <2>1, <2>2, <2>3 DEF CheckParts, PassedExclude
  <2>4. CASE SlotOf(a) = k
    BY <1>1, <1>3, <2>1, <2>4 DEF CheckParts, PassedExclude, Excludes
  <2>5. QED
    BY <2>3, <2>4
<1>9. QED
  BY <1>4, <1>6, <1>7, <1>8 DEF CheckParts

LEMMA CheckStep ==
  ASSUME TypeOK, CheckInv, [Next]_vars
  PROVE  CheckInv'
<1>1. SUFFICES ASSUME ~disturbed' PROVE CheckParts'
  BY DEF CheckInv, CheckParts
<1>2. ~disturbed
  BY <1>1 DEF Next, ReceiveCreate, ReceiveUpdate, Received, Serve, RuleNotFound,
              RuleFound, CheckCached, CheckMisses, CheckStored, CreateStored,
              UpdateStored, RequestFails, Crash, CallApplied, CallLost, Expire,
              LookupStarts, LookUp, LookupHits, LookupMisses, LookupFinds,
              LookupStores, LookupFails, Disturbance, vars
<1>3. CheckParts
  BY <1>2 DEF CheckInv, CheckParts
<1>4. ASSUME NEW a \in Admins, ReceiveCreate(a) \/ ReceiveUpdate(a)
      PROVE  CheckParts'
  BY <1>1, <1>3, <1>4, CheckReceived
<1>5. ASSUME NEW a \in Admins, Serve(a) PROVE CheckParts'
  <2>1. CASE RuleNotFound(a) \/ RequestFails(a)
    <3>1. UNCHANGED <<rules, cache, issued>> /\ req' = [req EXCEPT ![a] = Idle]
      BY <2>1 DEF RuleNotFound, RequestFails
    <3>2. QED
      BY <1>3, <3>1, CheckFewer DEF TypeOK
  <2>2. CASE RuleFound(a)
    BY <1>3, <2>2, CheckFound
  <2>3. CASE CheckCached(a) \/ CheckMisses(a) \/ CheckStored(a)
    BY <1>3, <2>3, CheckJudged
  <2>4. CASE CreateStored(a)
    BY <1>3, <2>4, CheckCreated
  <2>5. CASE UpdateStored(a)
    BY <1>3, <2>5, CheckUpdated
  <2>6. QED
    BY <1>5, <2>1, <2>2, <2>3, <2>4, <2>5 DEF Serve
<1>6. ASSUME NEW a \in Admins, Crash(a) PROVE CheckParts'
  BY <1>3, <1>6, CheckFewer DEF Crash, TypeOK
<1>7. ASSUME NEW a \in Admins, NEW call \in issued[a], CallApplied(a, call)
      PROVE  CheckParts'
  BY <1>3, <1>7, CheckApplied
<1>8. ASSUME NEW a \in Admins, NEW call \in issued[a], CallLost(a, call)
      PROVE  CheckParts'
  BY <1>3, <1>8, CheckFewer DEF CallLost, CallDone, TypeOK
<1>9. ASSUME NEW k \in Key, Expire(k) PROVE CheckParts'
  BY <1>3, <1>9, CheckFewer DEF Expire, TypeOK
<1>10. ASSUME NEW l \in Readers, LookUp(l) \/ LookupStarts(l)
       PROVE  CheckParts'
  <2>1. CASE LookupStores(l)
    BY <1>1, <1>3, <2>1, CheckCaches
  <2>2. CASE ~LookupStores(l)
    <3>1. UNCHANGED <<rules, cache, req, issued>>
      BY <1>10, <2>2 DEF LookUp, LookupStarts, LookupHits, LookupMisses,
                         LookupFinds, LookupFails, LookAt
    <3>2. QED
      BY <1>3, <3>1, CheckFewer
  <2>3. QED
    BY <2>1, <2>2
<1>11. CASE UNCHANGED vars
  BY <1>3, <1>11, CheckFewer DEF vars
<1>12. QED
  BY <1>4, <1>5, <1>6, <1>7, <1>8, <1>9, <1>10, <1>11 DEF Next

(* The strengthened check holds in every reachable state: undisturbed,     *)
(* cache entries, cache calls and requests that have passed the check each *)
(* exclude an active rule with another id.                                 *)
THEOREM CheckInvAlways == Spec => []CheckInv
<1>1. Init => CheckInv
  BY DEF Init, CheckInv, OneActiveRule, EntriesExclude, CallsExclude, OneAtATime,
         OwnIds, SlotKnown, PassedExclude, Enabled, Idle
<1>2. TypeOK /\ CheckInv /\ [Next]_vars => CheckInv'
  BY CheckStep
<1>3. QED
  BY <1>1, <1>2, TypeCorrect, PTL DEF Spec

(* Requests that come one at a time are refused when they would make a     *)
(* second rule active, as long as no lookup of the engine has cached an    *)
(* empty list or an old rule: for any number of rules and requests, with   *)
(* failing calls, crashes and expiring entries.                            *)
THEOREM CheckHoldsAlways == Spec => []CheckHolds
<1>1. CheckInv => CheckHolds
  BY DEF CheckInv, CheckHolds
<1>2. QED
  BY <1>1, CheckInvAlways, PTL
=============================================================================
