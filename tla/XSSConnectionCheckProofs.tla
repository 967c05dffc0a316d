---------------------- MODULE XSSConnectionCheckProofs ----------------------
(***************************************************************************)
(* Theorems about the domains of XSSDomains and the checks of              *)
(* XSSConnectionCheck, for any hosts, any requests, any number of dialogs  *)
(* open at once and any number of sessions.                                *)
(***************************************************************************)
EXTENDS XSSConnectionCheck, TLAPS

-----------------------------------------------------------------------------
(***************************************************************************)
(* Domains.                                                                *)
(***************************************************************************)

\* A host of two labels and more ends in its own tail of two labels.
LEMMA TailOfDotted ==
  ASSUME NEW host \in Seq(Labels), Dotted(host)
  PROVE  /\ DomainTail(host) = SubSeq(host, Len(host) - 1, Len(host))
         /\ Len(DomainTail(host)) = 2
  <1>1. Len(host) \in Nat /\ Len(host) >= 2
    BY DEF Dotted
  <1>2. CASE Len(host) = 2
    <2>1. DomainTail(host) = host
      BY <1>2 DEF DomainTail
    <2>2. Len(host) - 1 = 1
      BY <1>2
    <2>3. SubSeq(host, 1, Len(host)) = host
      OBVIOUS
    <2> QED
      BY <1>2, <2>1, <2>2, <2>3
  <1>3. CASE Len(host) > 2
    <2>1. DomainTail(host) = SubSeq(host, Len(host) - 1, Len(host))
      BY <1>1, <1>3 DEF DomainTail
    <2>2. Len(SubSeq(host, Len(host) - 1, Len(host))) = 2
      BY <1>1, <1>3
    <2> QED
      BY <2>1, <2>2
  <1>4. \A n \in Nat : n >= 2 => n = 2 \/ n > 2
    OBVIOUS
  <1> QED
    BY <1>1, <1>2, <1>3, <1>4, Zenon

\* The comparison of the code is the one its comment states, and agrees with
\* the names under which answers are stored, wherever both hosts have a dot
\* (domainStrEquals, getDomainFromURI): equal means the same last two labels
\* or the same address, whichever of the two hosts is asked.
THEOREM DomainsAgree ==
  ASSUME NEW this \in Hosts, NEW other \in Hosts, Dotted(this), Dotted(other)
  PROVE  DomainStrEquals(this, other) <=> GetDomain(this) = GetDomain(other)
  <1>1. this \in Seq(Labels) /\ other \in Seq(Labels)
    BY HostsAssumption
  <1>2. EndsIn(other, DomainTail(this)) <=> DomainTail(other) = DomainTail(this)
    <2>1. Len(DomainTail(this)) = 2
      BY <1>1, TailOfDotted
    <2>2. DomainTail(other) = SubSeq(other, Len(other) - 1, Len(other))
      BY <1>1, TailOfDotted
    <2>3. Len(other) \in Nat /\ Len(other) >= 2
      BY <1>1 DEF Dotted
    <2>4. Len(other) - Len(DomainTail(this)) + 1 = Len(other) - 1
      BY <2>1, <2>3
    <2> QED
      BY <2>1, <2>2, <2>3, <2>4 DEF EndsIn
  <1>3. CASE this \in Addresses /\ other \in Addresses
    BY <1>3 DEF DomainStrEquals, GetDomain
  <1>4. CASE this \notin Addresses /\ other \notin Addresses
    BY <1>2, <1>4 DEF DomainStrEquals, GetDomain
  <1>5. CASE this \in Addresses /\ other \notin Addresses
    <2>1. DomainTail(this) # DomainTail(other)
      BY <1>5, NoNumericDomain
    <2>2. Len(this) = 4
      BY <1>5, AddressesAssumption
    <2>3. Len(DomainTail(other)) = 2
      BY <1>1, TailOfDotted
    <2> QED
      BY <1>2, <1>5, <2>1, <2>2, <2>3 DEF DomainStrEquals, GetDomain
  <1>6. CASE this \notin Addresses /\ other \in Addresses
    <2>1. DomainTail(this) # DomainTail(other)
      BY <1>6, NoNumericDomain
    <2>2. Len(other) = 4
      BY <1>6, AddressesAssumption
    <2>3. Len(DomainTail(this)) = 2
      BY <1>1, TailOfDotted
    <2> QED
      BY <1>2, <1>6, <2>1, <2>2, <2>3 DEF DomainStrEquals, GetDomain
  <1> QED
    BY <1>3, <1>4, <1>5, <1>6

-----------------------------------------------------------------------------
(***************************************************************************)
(* Type correctness.                                                       *)
(***************************************************************************)

Waiting == [kind : Kinds, req : Requests, choice : Endings \cup {"none"}]

LEMMA PairType == \A req \in Requests : PairOf(req) \in Pairs
  BY DEF Pairs

\* Getting the permission manager changes the store by starting it at most:
\* every rule is then one that was in memory or in the file, or unknown.
LEMMA ServiceEffect ==
  ASSUME TypeOK, Service
  PROVE  /\ open' = TRUE
         /\ rules' \in [Pairs -> Store!Rule]
         /\ saved' = saved
         /\ open => rules' = rules
         /\ \A p \in Pairs : rules'[p] \in {rules[p], saved[p], "unknown"}
  <1>1. CASE open
    BY <1>1 DEF TypeOK, Service, store
  <1>2. CASE ~open
    BY <1>2 DEF TypeOK, Service, Store!Open, Store!Rule
  <1> QED
    BY <1>1, <1>2

\* What the answer of a dialog can do to the store.
LEMMA StoreForEffect ==
  ASSUME TypeOK, NEW kind \in Kinds, NEW p \in Pairs, NEW choice \in Endings,
         StoreFor(kind, p, choice)
  PROVE  /\ open' = open
         /\ saved' = saved
         /\ rules' \in [Pairs -> Store!Rule]
         /\ \A q \in Pairs \ {p} : rules'[q] = rules[q]
         /\ kind = "policy" /\ choice = "yesAlways" =>
               open /\ rules'[p] = Store!Join(rules[p], "allow")
         /\ choice = "noAlways" => open /\ rules'[p] = Store!Join(rules[p], "deny")
         /\ choice # "noAlways" /\ (kind # "policy" \/ choice # "yesAlways") =>
               rules' = rules
  <1>1. \A r \in Store!Rule, d \in {"allow", "deny"} : Store!Join(r, d) \in Store!Rule
    BY DEF Store!Join, Store!Rule
  <1>2. CASE kind = "policy" /\ choice = "yesAlways"
    BY <1>1, <1>2 DEF TypeOK, StoreFor, Store!Decide
  <1>3. CASE choice = "noAlways"
    BY <1>1, <1>3 DEF TypeOK, StoreFor, Store!Decide
  <1>4. CASE choice # "noAlways" /\ (kind # "policy" \/ choice # "yesAlways")
    BY <1>4 DEF TypeOK, StoreFor, store
  <1> QED
    BY <1>2, <1>3, <1>4

LEMMA InitType == Init => TypeOK
  <1> SUFFICES ASSUME Init PROVE TypeOK
    OBVIOUS
  <1>1. rules \in [Pairs -> Store!Rule] /\ saved \in [Pairs -> Store!Rule]
    BY DEF Init, Store!DInit, Store!NoRules, Store!Rule
  <1>2. asking \in Seq(Waiting) /\ Len(asking) <= MaxOpen
    BY MaxOpenAssumption DEF Init
  <1>3. given \in [Pairs -> SUBSET (Kinds \X ForGood)]
        /\ ever \in [Pairs -> SUBSET {"allow", "deny"}]
    BY DEF Init
  <1> QED
    BY <1>1, <1>2, <1>3 DEF Init, TypeOK, Store!DInit, Waiting

\* The record of a decision.
LEMMA DecidedType ==
  ASSUME NEW verdict \in {"accept", "reject"}, NEW req \in Requests,
         NEW tainted \in BOOLEAN, NEW checked \in BOOLEAN,
         NEW choice \in Endings \cup {"none"},
         Decided(verdict, req, tainted, checked, choice)
  PROVE  /\ last' \in Decision
         /\ last'.verdict = verdict /\ last'.req = req /\ last'.tainted = tainted
         /\ last'.checked = checked /\ last'.choice = choice
  BY DEF Decided, Decision

\* The check a dialog belongs to.
LEMMA TopOfAsking ==
  ASSUME TypeOK, asking # <<>>
  PROVE  /\ asking[Len(asking)] \in Waiting
         /\ SubSeq(asking, 1, Len(asking) - 1) \in Seq(Waiting)
         /\ Len(SubSeq(asking, 1, Len(asking) - 1)) <= MaxOpen
  <1>1. asking \in Seq(Waiting) /\ Len(asking) <= MaxOpen /\ MaxOpen \in Nat
    BY MaxOpenAssumption DEF TypeOK, Waiting
  <1>2. Len(asking) \in Nat /\ Len(asking) > 0
    BY <1>1
  <1> QED
    BY <1>1, <1>2

\* A question ends, one way or the other.
LEMMA EndingType ==
  ASSUME TypeOK, NEW i \in DOMAIN asking, NEW choice \in Endings,
         asking' = [asking EXCEPT ![i].choice = choice],
         UNCHANGED <<store, env, last, given, ever>>
  PROVE  TypeOK'
  <1>1. asking \in Seq(Waiting)
    BY DEF TypeOK, Waiting
  <1>2. asking[i] \in Waiting
    BY <1>1
  <1>3. [asking[i] EXCEPT !.choice = choice] \in Waiting
    BY <1>2 DEF Waiting
  <1>4. asking' = [asking EXCEPT ![i] = [asking[i] EXCEPT !.choice = choice]]
    OBVIOUS
  <1>5. asking' \in Seq(Waiting) /\ Len(asking') = Len(asking)
    BY <1>1, <1>3, <1>4
  <1> QED
    BY <1>5 DEF TypeOK, store, Waiting

LEMMA NextType == TypeOK /\ [Next]_vars => TypeOK'
  <1> SUFFICES ASSUME TypeOK, [Next]_vars PROVE TypeOK'
    OBVIOUS
  <1>1. ASSUME NEW req \in Requests, NEW tainted \in BOOLEAN, CheckIsSkipped(req, tainted)
        PROVE  TypeOK'
    <2>1. last' \in Decision
      BY <1>1, DecidedType DEF CheckIsSkipped
    <2> QED
      BY <1>1, <2>1 DEF CheckIsSkipped, TypeOK, store
  <1>2. ASSUME NEW kind \in Kinds, NEW req \in Requests, NEW tainted \in BOOLEAN,
               CheckIsDecided(kind, req, tainted)
        PROVE  TypeOK'
    <2>1. last' \in Decision
      <3>1. \E verdict \in {"accept", "reject"} : Decided(verdict, req, tainted, TRUE, "none")
        BY <1>2 DEF CheckIsDecided
      <3> QED
        BY <3>1, DecidedType
    <2>2. Service
      BY <1>2 DEF CheckIsDecided
    <2>3. open' \in BOOLEAN /\ rules' \in [Pairs -> Store!Rule] /\ saved' = saved
      BY <2>2, ServiceEffect
    <2> QED
      BY <1>2, <2>1, <2>3 DEF CheckIsDecided, TypeOK
  <1>3. ASSUME NEW kind \in Kinds, NEW req \in Requests, CheckAsks(kind, req)
        PROVE  TypeOK'
    <2>1. Service
      BY <1>3 DEF CheckAsks
    <2>2. open' \in BOOLEAN /\ rules' \in [Pairs -> Store!Rule] /\ saved' = saved
      BY <2>1, ServiceEffect
    <2>3. asking' \in Seq(Waiting) /\ Len(asking') <= MaxOpen
      <3>1. [kind |-> kind, req |-> req, choice |-> "none"] \in Waiting
        BY DEF Waiting
      <3>2. asking \in Seq(Waiting) /\ Len(asking) < MaxOpen /\ MaxOpen \in Nat
        BY <1>3, MaxOpenAssumption DEF CheckAsks, TypeOK, Waiting
      <3> DEFINE check == [kind |-> kind, req |-> req, choice |-> "none"]
      <3>3. asking' = Append(asking, check)
        BY <1>3 DEF CheckAsks
      <3> HIDE DEF check
      <3> QED
        BY <3>1, <3>2, <3>3 DEF check
    <2> QED
      BY <1>3, <2>2, <2>3 DEF CheckAsks, TypeOK, Waiting
  <1>4. ASSUME NEW i \in DOMAIN asking, NEW choice \in Choices, Answer(i, choice)
        PROVE  TypeOK'
    BY <1>4, EndingType DEF Answer, Endings
  <1>9. ASSUME NEW i \in DOMAIN asking, QuestionFails(i)
        PROVE  TypeOK'
    BY <1>9, EndingType DEF QuestionFails, Endings
  <1>5. ASSUME CheckReturns PROVE TypeOK'
    <2> DEFINE check == asking[Len(asking)]
    <2> DEFINE pair == PairOf(check.req)
    <2>1. check \in Waiting /\ check.choice # "none" /\ asking # <<>>
      BY <1>5, TopOfAsking DEF CheckReturns
    <2>2. check.kind \in Kinds /\ check.req \in Requests /\ check.choice \in Endings
      BY <2>1 DEF Waiting
    <2>3. pair \in Pairs
      BY <2>2, PairType
    <2>4. asking' \in Seq(Waiting) /\ Len(asking') <= MaxOpen
      BY <1>5, <2>1, TopOfAsking DEF CheckReturns
    <2>5. StoreFor(check.kind, pair, check.choice)
      BY <1>5 DEF CheckReturns
    <2>6. open' \in BOOLEAN /\ rules' \in [Pairs -> Store!Rule] /\ saved' = saved
      BY <2>2, <2>3, <2>5, StoreForEffect DEF TypeOK
    <2>7. last' \in Decision
      <3>1. \E verdict \in {"accept", "reject"} :
               Decided(verdict, check.req, TRUE, TRUE, check.choice)
        BY <1>5 DEF CheckReturns
      <3> QED
        BY <2>2, <3>1, DecidedType
    <2>8. given' \in [Pairs -> SUBSET (Kinds \X ForGood)]
      <3>1. given' = given \/ (/\ check.choice \in ForGood
                               /\ given' = [given EXCEPT ![pair] =
                                              @ \cup {<<check.kind, check.choice>>}])
        BY <1>5 DEF CheckReturns
      <3> QED
        BY <2>2, <2>3, <3>1 DEF TypeOK
    <2>9. ever' \in [Pairs -> SUBSET {"allow", "deny"}]
      BY <1>5, <2>3 DEF CheckReturns, TypeOK
    <2> QED
      BY <1>5, <2>4, <2>6, <2>7, <2>8, <2>9 DEF CheckReturns, TypeOK, Waiting
  <1>6. CASE AnswersAreSaved
    <2>1. saved' \in [Pairs -> Store!Rule]
      BY <1>6 DEF AnswersAreSaved, Store!Save, Store!Storable, Store!Rule, TypeOK
    <2> QED
      BY <1>6, <2>1 DEF AnswersAreSaved, Store!Save, TypeOK
  <1>7. CASE SessionEnds
    <2>1. open' \in BOOLEAN /\ rules' \in [Pairs -> Store!Rule]
      BY <1>7 DEF SessionEnds, Store!Close, Store!TornSave, Store!NoRules, Store!Rule
    <2>2. saved' \in [Pairs -> Store!Rule]
      BY <1>7 DEF SessionEnds, Store!Close, Store!TornSave, TypeOK
    <2>3. asking' \in Seq(Waiting) /\ Len(asking') <= MaxOpen
      BY <1>7, MaxOpenAssumption DEF SessionEnds
    <2>4. given' \in [Pairs -> SUBSET (Kinds \X ForGood)]
      BY <1>7 DEF SessionEnds
    <2> QED
      BY <1>7, <2>1, <2>2, <2>3, <2>4 DEF SessionEnds, TypeOK, Waiting
  <1>8. CASE UNCHANGED vars
    BY <1>8 DEF vars, store, TypeOK
  <1> QED
    BY <1>1, <1>2, <1>3, <1>4, <1>5, <1>6, <1>7, <1>8, <1>9 DEF Next

\* The permission manager, the open dialogs and the histories keep their types.
THEOREM TypeCorrect == Spec => []TypeOK
  BY InitType, NextType, PTL DEF Spec

-----------------------------------------------------------------------------
(***************************************************************************)
(* The inductive invariant.                                                *)
(***************************************************************************)

\* Where both hosts have a dot, either check sees a request as one within a
\* domain exactly if it is one.
LEMMA EqualIsSameDomain ==
  ASSUME NEW kind \in Kinds, NEW req \in Requests, Dotted(req.caller), Dotted(req.called)
  PROVE  DomainEqual(kind, req) <=> GetDomain(req.caller) = GetDomain(req.called)
  <1>1. req.caller \in Hosts /\ req.called \in Hosts
    BY RequestsAssumption
  <1> QED
    BY <1>1, DomainsAgree DEF DomainEqual

\* What is invariant of the store when the permission manager is started or
\* just used.
LEMMA ServiceInv ==
  ASSUME TypeOK, AnswersAreGiven, GivenIsStored, Service, UNCHANGED <<given, ever>>
  PROVE  AnswersAreGiven' /\ GivenIsStored'
  <1>1. AnswersAreGiven'
    BY ServiceEffect DEF AnswersAreGiven
  <1>2. GivenIsStored'
    BY ServiceEffect DEF GivenIsStored
  <1> QED
    BY <1>1, <1>2

LEMMA InitInv == Init => IInv
  <1> SUFFICES ASSUME Init PROVE IInv
    OBVIOUS
  <1>1. TypeOK
    BY InitType
  <1>2. AnswersAreGiven
    BY DEF Init, Store!DInit, Store!NoRules, AnswersAreGiven
  <1>3. GivenIsStored
    BY DEF Init, GivenIsStored
  <1>4. asking = <<>> /\ last = NoDecision
    BY DEF Init
  <1> QED
    BY <1>1, <1>2, <1>3, <1>4 DEF IInv, LeaksAreApproved, RejectionsHaveReasons, DenialBinds

\* A check that needs no question.
LEMMA DecidedInv ==
  ASSUME IInv, TypeOK', NEW kind \in Kinds, NEW req \in Requests, NEW tainted \in BOOLEAN,
         CheckIsDecided(kind, req, tainted)
  PROVE  IInv'
  <1> DEFINE pair == PairOf(req)
  <1> DEFINE stored == Store!Tested(rules'[pair])
  <1> DEFINE rule == AfterEnvironment(stored)
  <1> DEFINE effective == IF rule = "unknown" /\ tainted THEN stored ELSE rule
  <1>1. Service /\ UNCHANGED <<env, asking, given, ever>>
    BY DEF CheckIsDecided
  <1>2. pair \in Pairs
    BY PairType
  <1>3. AnswersAreGiven' /\ GivenIsStored' /\ open'
    BY <1>1, ServiceInv, ServiceEffect DEF IInv
  <1>4. rules'[pair] \in Store!Rule
    BY <1>1, <1>2, ServiceEffect DEF IInv
  <1>5. \/ DomainEqual(kind, req) /\ Decided("accept", req, tainted, TRUE, "none")
        \/ /\ ~DomainEqual(kind, req)
           /\ ~tainted \/ effective # "unknown"
           /\ Decided(IF effective = "deny" THEN "reject" ELSE "accept",
                      req, tainted, TRUE, "none")
    BY DEF CheckIsDecided
  <1>6. PICK verdict \in {"accept", "reject"} : Decided(verdict, req, tainted, TRUE, "none")
    BY <1>5
  <1>7. /\ last'.verdict = verdict /\ last'.req = req /\ last'.tainted = tainted
        /\ last'.checked = TRUE /\ last'.choice = "none"
    BY <1>6, DecidedType
  <1>8. \/ DomainEqual(kind, req) /\ verdict = "accept"
        \/ /\ ~DomainEqual(kind, req)
           /\ ~tainted \/ effective # "unknown"
           /\ verdict = IF effective = "deny" THEN "reject" ELSE "accept"
    BY <1>5, <1>6 DEF Decided
  <1>9. /\ rule \in {"unknown", "allow", stored}
        /\ rule = "allow" /\ stored # "allow" => env.silent
        /\ rule = "unknown" => stored = "unknown" \/ env.delayed
        /\ rule # "unknown" => rule = stored \/ stored = "unknown"
    BY DEF AfterEnvironment
  <1>10. /\ stored \in {"unknown", "allow", "deny"}
         /\ stored = "allow" => rules'[pair] = "allow"
         /\ stored = "deny" <=> rules'[pair] \in {"deny", "both"}
    BY <1>4 DEF Store!Tested, Store!Rule
  <1>11. LeaksAreApproved'
    <2> SUFFICES ASSUME verdict = "accept", tainted, Dotted(req.caller), Dotted(req.called),
                        GetDomain(req.caller) # GetDomain(req.called), ~env.silent
                 PROVE  "allow" \in ever[pair]
      BY <1>1, <1>7 DEF LeaksAreApproved, CrossDomain
    <2>1. effective # "unknown" /\ effective # "deny"
      BY <1>8, EqualIsSameDomain
    <2>2. stored = "allow"
      BY <2>1, <1>9, <1>10
    <2> QED
      BY <2>2, <1>1, <1>2, <1>3, <1>10 DEF AnswersAreGiven
  <1>12. RejectionsHaveReasons'
    <2> SUFFICES ASSUME verdict = "reject" PROVE "deny" \in ever[pair]
      BY <1>1, <1>7 DEF RejectionsHaveReasons
    <2>1. effective = "deny"
      BY <1>8
    <2>2. stored = "deny"
      BY <2>1, <1>9, <1>10
    <2> QED
      BY <2>2, <1>1, <1>2, <1>3, <1>10 DEF AnswersAreGiven
  <1>13. DenialBinds'
    <2> SUFFICES ASSUME verdict = "accept", Dotted(req.caller), Dotted(req.called),
                        GetDomain(req.caller) # GetDomain(req.called),
                        NEW k \in Kinds, <<k, "noAlways">> \in given[pair]
                 PROVE  ~tainted /\ env.delayed
      BY <1>1, <1>7 DEF DenialBinds, CrossDomain
    <2>1. effective # "deny"
      BY <1>8, EqualIsSameDomain
    <2>2. stored = "deny"
      BY <1>1, <1>2, <1>3, <1>10 DEF GivenIsStored
    <2> QED
      BY <2>1, <2>2, <1>9
  <1> QED
    BY <1>1, <1>3, <1>11, <1>12, <1>13 DEF IInv

\* The innermost check gets its answer.
LEMMA ReturnsInv ==
  ASSUME IInv, TypeOK', CheckReturns
  PROVE  IInv'
  <1> DEFINE check == asking[Len(asking)]
  <1> DEFINE pair == PairOf(check.req)
  <1> DEFINE choice == check.choice
  <1>1. TypeOK /\ asking # <<>> /\ open
    BY DEF IInv, CheckReturns
  <1>2. check.kind \in Kinds /\ check.req \in Requests /\ choice \in Endings
    BY <1>1, TopOfAsking DEF CheckReturns, Waiting
  <1>3. pair \in Pairs
    BY <1>2, PairType
  <1>4. StoreFor(check.kind, pair, choice) /\ UNCHANGED env
    BY DEF CheckReturns
  <1> DEFINE verdict == IF choice \in Allowing THEN "accept" ELSE "reject"
  <1>5. /\ last'.verdict = verdict /\ last'.req = check.req /\ last'.tainted = TRUE
        /\ last'.choice = choice
    <2>1. Decided(verdict, check.req, TRUE, TRUE, choice)
      BY DEF CheckReturns
    <2> QED
      BY <2>1, <1>2, DecidedType
  <1>6. /\ given' \in [Pairs -> SUBSET (Kinds \X ForGood)]
        /\ ever' \in [Pairs -> SUBSET {"allow", "deny"}]
        /\ given \in [Pairs -> SUBSET (Kinds \X ForGood)]
        /\ ever \in [Pairs -> SUBSET {"allow", "deny"}]
        /\ rules \in [Pairs -> Store!Rule] /\ saved \in [Pairs -> Store!Rule]
    BY <1>1 DEF TypeOK
  <1>7. /\ \A p \in Pairs : ever[p] \subseteq ever'[p]
        /\ choice = "yesAlways" => "allow" \in ever'[pair]
        /\ choice = "noAlways" => "deny" \in ever'[pair]
    BY <1>3, <1>6 DEF CheckReturns, ForGood, Allowing
  <1>8. /\ \A p \in Pairs \ {pair} : given'[p] = given[p]
        /\ given'[pair] \subseteq given[pair] \cup {<<check.kind, choice>>}
    BY <1>3, <1>6 DEF CheckReturns
  <1>9. /\ open' = open
        /\ saved' = saved
        /\ \A q \in Pairs \ {pair} : rules'[q] = rules[q]
        /\ check.kind = "policy" /\ choice = "yesAlways" =>
              rules'[pair] = Store!Join(rules[pair], "allow")
        /\ choice = "noAlways" => rules'[pair] = Store!Join(rules[pair], "deny")
        /\ choice # "noAlways" /\ (check.kind # "policy" \/ choice # "yesAlways") =>
              rules' = rules
    <2> HIDE DEF pair, choice, check
    <2> QED
      BY <1>1, <1>2, <1>3, <1>4, StoreForEffect
  <1>10. /\ Store!Join(rules[pair], "allow") \in {"allow", "both"}
         /\ Store!Join(rules[pair], "deny") \in {"deny", "both"}
         /\ Store!Join(rules[pair], "allow") = "both" => rules[pair] \in {"deny", "both"}
         /\ Store!Join(rules[pair], "deny") = "both" => rules[pair] \in {"allow", "both"}
         /\ rules[pair] \in {"deny", "both"} => Store!Join(rules[pair], "deny") \in {"deny", "both"}
                                              /\ Store!Join(rules[pair], "allow") = "both"
         /\ rules[pair] \in {"allow", "both"} => Store!Join(rules[pair], "deny") = "both"
    BY <1>3, <1>6 DEF Store!Join, Store!Rule
  <1>11. AnswersAreGiven'
    <2> SUFFICES ASSUME NEW p \in Pairs, NEW r \in {rules'[p], saved'[p]}
                 PROVE  /\ r \in {"allow", "both"} => "allow" \in ever'[p]
                        /\ r \in {"deny", "both"} => "deny" \in ever'[p]
      BY DEF AnswersAreGiven
    <2>1. CASE r \in {rules[p], saved[p]}
      BY <2>1, <1>7 DEF IInv, AnswersAreGiven
    <2>2. CASE p = pair /\ check.kind = "policy" /\ choice = "yesAlways" /\ r = rules'[p]
      <3>1. rules[pair] \in {"deny", "both"} => "deny" \in ever'[pair]
        BY <1>3, <1>7 DEF IInv, AnswersAreGiven
      <3> QED
        BY <3>1, <2>2, <1>7, <1>9, <1>10
    <2>3. CASE p = pair /\ choice = "noAlways" /\ r = rules'[p]
      <3>1. rules[pair] \in {"allow", "both"} => "allow" \in ever'[pair]
        BY <1>3, <1>7 DEF IInv, AnswersAreGiven
      <3> QED
        BY <3>1, <2>3, <1>7, <1>9, <1>10
    <2> QED
      BY <2>1, <2>2, <2>3, <1>9
  <1>12. GivenIsStored'
    <2> SUFFICES ASSUME NEW p \in Pairs, NEW kind \in Kinds
                 PROVE  /\ <<kind, "noAlways">> \in given'[p] =>
                              open' /\ rules'[p] \in {"deny", "both"}
                        /\ <<"policy", "yesAlways">> \in given'[p] =>
                              open' /\ rules'[p] \in {"allow", "both"}
      BY DEF GivenIsStored
    <2>1. CASE p # pair
      BY <2>1, <1>8, <1>9 DEF IInv, GivenIsStored
    <2>2. CASE p = pair
      <3>1. <<kind, "noAlways">> \in given[pair] => rules[pair] \in {"deny", "both"}
        BY <1>3 DEF IInv, GivenIsStored
      <3>2. <<"policy", "yesAlways">> \in given[pair] => rules[pair] \in {"allow", "both"}
        BY <1>3 DEF IInv, GivenIsStored, Kinds
      <3>3. ASSUME <<kind, "noAlways">> \in given'[pair]
            PROVE  rules'[pair] \in {"deny", "both"}
        <4>1. choice = "noAlways" \/ <<kind, "noAlways">> \in given[pair]
          BY <3>3, <1>8
        <4> QED
          BY <4>1, <3>1, <1>9, <1>10
      <3>4. ASSUME <<"policy", "yesAlways">> \in given'[pair]
            PROVE  rules'[pair] \in {"allow", "both"}
        <4>1. \/ check.kind = "policy" /\ choice = "yesAlways"
              \/ <<"policy", "yesAlways">> \in given[pair]
          BY <3>4, <1>8
        <4> QED
          BY <4>1, <3>2, <1>9, <1>10
      <3> QED
        BY <2>2, <3>3, <3>4, <1>1, <1>9
    <2> QED
      BY <2>1, <2>2
  <1>13. LeaksAreApproved' /\ RejectionsHaveReasons' /\ DenialBinds'
    BY <1>2, <1>5 DEF LeaksAreApproved, RejectionsHaveReasons, DenialBinds, Endings, Choices
  <1>14. asking' # <<>> => open'
    BY <1>1, <1>9
  <1> QED
    BY <1>11, <1>12, <1>13, <1>14 DEF IInv

LEMMA NextInv == IInv /\ [Next]_vars => IInv'
  <1> SUFFICES ASSUME IInv, [Next]_vars PROVE IInv'
    OBVIOUS
  <1>1. TypeOK'
    BY NextType DEF IInv
  <1> USE <1>1
  <1>2. ASSUME NEW req \in Requests, NEW tainted \in BOOLEAN, CheckIsSkipped(req, tainted)
        PROVE  IInv'
    <2>1. last'.verdict = "accept" /\ last'.checked = FALSE
      BY <1>2, DecidedType DEF CheckIsSkipped
    <2>2. UNCHANGED <<open, rules, saved, env, asking, given, ever>>
      BY <1>2 DEF CheckIsSkipped, store
    <2>3. AnswersAreGiven' /\ GivenIsStored' /\ (asking' # <<>> => open')
      BY <2>2 DEF IInv, AnswersAreGiven, GivenIsStored
    <2>4. LeaksAreApproved' /\ RejectionsHaveReasons' /\ DenialBinds'
      BY <2>1 DEF LeaksAreApproved, RejectionsHaveReasons, DenialBinds, CrossDomain
    <2> QED
      BY <2>3, <2>4 DEF IInv
  <1>3. ASSUME NEW kind \in Kinds, NEW req \in Requests, NEW tainted \in BOOLEAN,
               CheckIsDecided(kind, req, tainted)
        PROVE  IInv'
    BY <1>3, DecidedInv
  <1>4. ASSUME NEW kind \in Kinds, NEW req \in Requests, CheckAsks(kind, req)
        PROVE  IInv'
    <2>1. Service /\ UNCHANGED <<env, last, given, ever>>
      BY <1>4 DEF CheckAsks
    <2>2. AnswersAreGiven' /\ GivenIsStored' /\ open'
      BY <2>1, ServiceInv, ServiceEffect DEF IInv
    <2>3. LeaksAreApproved' /\ RejectionsHaveReasons' /\ DenialBinds'
      BY <2>1 DEF IInv, LeaksAreApproved, RejectionsHaveReasons, DenialBinds
    <2> QED
      BY <2>2, <2>3 DEF IInv
  <1>5. ASSUME NEW i \in DOMAIN asking, NEW choice \in Choices, Answer(i, choice)
        PROVE  IInv'
    <2>1. UNCHANGED <<open, rules, saved, env, last, given, ever>>
      BY <1>5 DEF Answer, store
    <2>2. asking # <<>>
      OBVIOUS
    <2>3. AnswersAreGiven' /\ GivenIsStored' /\ (asking' # <<>> => open')
      BY <2>1, <2>2 DEF IInv, AnswersAreGiven, GivenIsStored
    <2>4. LeaksAreApproved' /\ RejectionsHaveReasons' /\ DenialBinds'
      BY <2>1 DEF IInv, LeaksAreApproved, RejectionsHaveReasons, DenialBinds
    <2> QED
      BY <2>3, <2>4 DEF IInv
  <1>10. ASSUME NEW i \in DOMAIN asking, QuestionFails(i)
         PROVE  IInv'
    <2>1. UNCHANGED <<open, rules, saved, env, last, given, ever>>
      BY <1>10 DEF QuestionFails, store
    <2>2. asking # <<>>
      OBVIOUS
    <2>3. AnswersAreGiven' /\ GivenIsStored' /\ (asking' # <<>> => open')
      BY <2>1, <2>2 DEF IInv, AnswersAreGiven, GivenIsStored
    <2>4. LeaksAreApproved' /\ RejectionsHaveReasons' /\ DenialBinds'
      BY <2>1 DEF IInv, LeaksAreApproved, RejectionsHaveReasons, DenialBinds
    <2> QED
      BY <2>3, <2>4 DEF IInv
  <1>6. CASE CheckReturns
    BY <1>6, ReturnsInv
  <1>7. CASE AnswersAreSaved
    <2>1. UNCHANGED <<open, rules, env, asking, last, given, ever>>
      BY <1>7 DEF AnswersAreSaved, Store!Save
    <2>2. \A p \in Pairs : saved'[p] \in {rules[p], "unknown"}
      BY <1>7 DEF AnswersAreSaved, Store!Save, Store!Storable
    <2>3. AnswersAreGiven' /\ GivenIsStored' /\ (asking' # <<>> => open')
      BY <2>1, <2>2 DEF IInv, AnswersAreGiven, GivenIsStored
    <2>4. LeaksAreApproved' /\ RejectionsHaveReasons' /\ DenialBinds'
      BY <2>1 DEF IInv, LeaksAreApproved, RejectionsHaveReasons, DenialBinds
    <2> QED
      BY <2>3, <2>4 DEF IInv
  <1>8. CASE SessionEnds
    <2>1. /\ rules' = Store!NoRules /\ asking' = <<>> /\ last' = NoDecision
          /\ given' = [p \in Pairs |-> {}] /\ UNCHANGED ever
      BY <1>8 DEF SessionEnds, Store!Close, Store!TornSave
    <2>2. \A p \in Pairs :
             \/ saved'[p] \in {saved[p], rules[p], "unknown"}
             \/ saved'[p] = "allow" /\ rules[p] = "both"
      BY <1>8 DEF SessionEnds, Store!Close, Store!TornSave, Store!Torn
    <2>3. AnswersAreGiven'
      <3> SUFFICES ASSUME NEW p \in Pairs, NEW r \in {rules'[p], saved'[p]}
                   PROVE  /\ r \in {"allow", "both"} => "allow" \in ever[p]
                          /\ r \in {"deny", "both"} => "deny" \in ever[p]
        BY <2>1 DEF AnswersAreGiven
      <3>1. \/ r \in {saved[p], rules[p], "unknown"}
            \/ r = "allow" /\ rules[p] = "both"
        BY <2>1, <2>2 DEF Store!NoRules
      <3> QED
        BY <3>1 DEF IInv, AnswersAreGiven
    <2>4. GivenIsStored' /\ LeaksAreApproved' /\ RejectionsHaveReasons' /\ DenialBinds'
      BY <2>1 DEF GivenIsStored, LeaksAreApproved, RejectionsHaveReasons, DenialBinds
    <2> QED
      BY <2>1, <2>3, <2>4 DEF IInv
  <1>9. CASE UNCHANGED vars
    BY <1>9 DEF vars, store, IInv, AnswersAreGiven, GivenIsStored, LeaksAreApproved,
       RejectionsHaveReasons, DenialBinds
  <1> QED
    BY <1>2, <1>3, <1>4, <1>5, <1>6, <1>7, <1>8, <1>9, <1>10 DEF Next

THEOREM InductiveInvariant == Spec => []IInv
  BY InitInv, NextInv, PTL DEF Spec

-----------------------------------------------------------------------------
(***************************************************************************)
(* The properties.                                                         *)
(***************************************************************************)

\* No tainted request reaches another domain behind the user's back.
THEOREM LeaksAreApprovedAlways == Spec => []LeaksAreApproved
  <1>1. IInv => LeaksAreApproved
    BY DEF IInv
  <1> QED
    BY <1>1, InductiveInvariant, PTL

\* No request is stopped but by a "no" of the user or by the failure of its own
\* question.
THEOREM RejectionsHaveReasonsAlways == Spec => []RejectionsHaveReasons
  <1>1. IInv => RejectionsHaveReasons
    BY DEF IInv
  <1> QED
    BY <1>1, InductiveInvariant, PTL

\* A permanent denial stops every later request of its session.
THEOREM DenialBindsAlways == Spec => []DenialBinds
  <1>1. IInv => DenialBinds
    BY DEF IInv
  <1> QED
    BY <1>1, InductiveInvariant, PTL

\* A dialog opens only for a pair without an answer for good that was stored.
LEMMA AsksOnlyUnanswered ==
  ASSUME IInv, NEW kind \in Kinds, NEW req \in Requests, CheckAsks(kind, req)
  PROVE  given[PairOf(req)] \subseteq {<<"form", "yesAlways">>}
  <1> DEFINE pair == PairOf(req)
  <1>1. pair \in Pairs /\ given[pair] \subseteq Kinds \X ForGood /\ rules[pair] \in Store!Rule
    BY PairType DEF IInv, TypeOK
  <1>2. open => rules' = rules
    BY ServiceEffect DEF IInv, CheckAsks
  <1>3. open => rules[pair] = "unknown"
    BY <1>1, <1>2 DEF CheckAsks, Store!Tested, Store!Rule
  <1>4. \A k \in Kinds : <<k, "noAlways">> \notin given[pair]
    BY <1>1, <1>3 DEF IInv, GivenIsStored
  <1>5. <<"policy", "yesAlways">> \notin given[pair]
    BY <1>1, <1>3 DEF IInv, GivenIsStored, Kinds
  <1> QED
    BY <1>1, <1>4, <1>5 DEF Kinds, ForGood

\* No question is asked again after an answer for good that was stored.
THEOREM StoredAnswersEndQuestionsAlways == Spec => StoredAnswersEndQuestions
  <1>1. IInv /\ [Next]_vars =>
          [\A kind \in Kinds, req \in Requests :
             CheckAsks(kind, req) => given[PairOf(req)] \subseteq {<<"form", "yesAlways">>}]_vars
    BY AsksOnlyUnanswered
  <1> QED
    BY <1>1, InductiveInvariant, PTL DEF Spec, StoredAnswersEndQuestions

=============================================================================
