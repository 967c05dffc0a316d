------------------------- MODULE XSSConnectionCheck -------------------------
(***************************************************************************)
(* The two places where a request to another domain is checked: the        *)
(* content policy service, for everything a page loads                     *)
(* (content/base/src/nsContentPolicy.cpp), and the form element, for what  *)
(* it submits (content/html/content/src/nsHTMLFormElement.cpp).  Both ask  *)
(* the permission manager and, where it has no answer for a tainted        *)
(* request, the user.                                                      *)
(*                                                                         *)
(* The question is a modal dialog with an event loop of its own, so other  *)
(* requests are checked while it is open, some of them with a dialog again.*)
(* The user may answer the dialogs in any order, but the innermost check   *)
(* is the only one that can go on: checks return in the reverse order.     *)
(*                                                                         *)
(* The permission manager is XSSDecisionStore, which it implements.        *)
(***************************************************************************)
EXTENDS XSSDomains

CONSTANTS
    Requests,     \* the [caller, called] hosts of the requests
    MaxOpen,      \* bound: dialogs open at once
    StartupErrors \* see XSSDecisionStore

ASSUME RequestsAssumption == Requests \subseteq [caller : Hosts, called : Hosts]
ASSUME MaxOpenAssumption == MaxOpen \in Nat \ {0}
ASSUME StartupErrorsType == StartupErrors \in BOOLEAN

\* The key of the table for a request.
PairOf(req) == <<GetDomain(req.caller), GetDomain(req.called)>>
Pairs == {PairOf(req) : req \in Requests}

VARIABLES
    open, rules, saved, \* the permission manager
    env,    \* XSS_USERINTERACTION=0 (silent), XSS_DONTCHECKTAINT=1 (delayed)
    asking, \* the checks that wait for their dialog, the innermost one last
    last,   \* history: the last decision
    given,  \* history: pair |-> [kind, choice] of its "always" answers this session
    ever    \* history: pair |-> its "always" answers in all sessions

store == <<open, rules, saved>>
vars  == <<store, env, asking, last, given, ever>>

Store == INSTANCE XSSDecisionStore

-----------------------------------------------------------------------------

\* Who checks: the content policy or the form.
Kinds == {"policy", "form"}

\* The buttons.  Closing the dialog's window counts as "noAlways" (button 1).
Choices == {"yes", "yesAlways", "no", "noAlways"}
Allowing == {"yes", "yesAlways"}
ForGood == {"yesAlways", "noAlways"}

\* How a question ends: with a button, or without an answer of the user, because
\* ConfirmExXSS fails or brings back the number of no button.
Endings == Choices \cup {"failed"}

Check == [kind : Kinds, req : Requests]

Decision == [verdict : {"accept", "reject"}, req : Requests, tainted : BOOLEAN,
             checked : BOOLEAN, choice : Endings \cup {"none"}]

NoDecision == [verdict |-> "none"]

TypeOK ==
    /\ open \in BOOLEAN
    /\ rules \in [Pairs -> Store!Rule]
    /\ saved \in [Pairs -> Store!Rule]
    /\ env \in [silent : BOOLEAN, delayed : BOOLEAN]
    /\ asking \in Seq([kind : Kinds, req : Requests, choice : Endings \cup {"none"}])
    /\ Len(asking) <= MaxOpen
    /\ last \in Decision \cup {NoDecision}
    /\ given \in [Pairs -> SUBSET (Kinds \X ForGood)]
    /\ ever \in [Pairs -> SUBSET {"allow", "deny"}]

Init ==
    /\ Store!DInit
    /\ env \in [silent : BOOLEAN, delayed : BOOLEAN]
    /\ asking = <<>>
    /\ last = NoDecision
    /\ given = [p \in Pairs |-> {}]
    /\ ever = [p \in Pairs |-> {}]

\* The policy asks the called URI, the form the URI of its document.
DomainEqual(kind, req) ==
    IF kind = "policy" THEN DomainStrEquals(req.called, req.caller)
    ELSE DomainStrEquals(req.caller, req.called)

\* The permission manager is created by the first check that needs it.
Service == IF open THEN UNCHANGED store ELSE Store!Open

\* What the two environment variables make of the stored answer.
AfterEnvironment(rule) ==
    IF env.delayed THEN "unknown"
    ELSE IF env.silent /\ rule = "unknown" THEN "allow"
    ELSE rule

Decided(verdict, req, tainted, checked, choice) ==
    last' = [verdict |-> verdict, req |-> req, tainted |-> tainted,
             checked |-> checked, choice |-> choice]

\* A check that misses a node, a document, a window, a prompter, a host or the
\* permission manager lets the request through: "breaking expected behaviour
\* is bad".
CheckIsSkipped(req, tainted) ==
    /\ Decided("accept", req, tainted, FALSE, "none")
    /\ UNCHANGED <<store, env, asking, given, ever>>

\* A check that needs no question.  A stored answer is used for untainted
\* requests as well; for a tainted one it is read again, because the
\* environment may have hidden it.
CheckIsDecided(kind, req, tainted) ==
    /\ Service
    /\ LET stored == Store!Tested(rules'[PairOf(req)])
           rule == AfterEnvironment(stored)
           effective == IF rule = "unknown" /\ tainted THEN stored ELSE rule
       IN IF DomainEqual(kind, req)
          THEN Decided("accept", req, tainted, TRUE, "none")
          ELSE /\ ~tainted \/ effective # "unknown"
               /\ Decided(IF effective = "deny" THEN "reject" ELSE "accept",
                          req, tainted, TRUE, "none")
    /\ UNCHANGED <<env, asking, given, ever>>

\* Mutant: the answer is not read again before the question.
AsksWithoutSecondTest(kind, req) ==
    /\ Len(asking) < MaxOpen
    /\ Service
    /\ ~DomainEqual(kind, req)
    /\ AfterEnvironment(Store!Tested(rules'[PairOf(req)])) = "unknown"
    /\ asking' = Append(asking, [kind |-> kind, req |-> req, choice |-> "none"])
    /\ UNCHANGED <<env, last, given, ever>>

\* A tainted request to another domain without a stored answer: the dialog
\* opens.
CheckAsks(kind, req) ==
    /\ Len(asking) < MaxOpen
    /\ Service
    /\ ~DomainEqual(kind, req)
    /\ LET stored == Store!Tested(rules'[PairOf(req)])
       IN AfterEnvironment(stored) = "unknown" /\ stored = "unknown"
    /\ asking' = Append(asking, [kind |-> kind, req |-> req, choice |-> "none"])
    /\ UNCHANGED <<env, last, given, ever>>

\* The user answers one of the open dialogs.
Answer(i, choice) ==
    /\ asking[i].choice = "none"
    /\ asking' = [asking EXCEPT ![i].choice = choice]
    /\ UNCHANGED <<store, env, last, given, ever>>

\* One of them ends without an answer.
QuestionFails(i) ==
    /\ asking[i].choice = "none"
    /\ asking' = [asking EXCEPT ![i].choice = "failed"]
    /\ UNCHANGED <<store, env, last, given, ever>>

\* Mutant: the button is stored instead of the permission.
StoreForButton(kind, pair, choice) ==
    IF choice \in ForGood THEN Store!Decide(pair, choice) ELSE UNCHANGED store

\* Mutant: the plain "no" falls through to the case that stores a denial.
StoreForFallsThrough(kind, pair, choice) ==
    IF kind = "policy" /\ choice = "yesAlways" THEN Store!Decide(pair, "allow")
    ELSE IF choice \in {"no", "noAlways"} THEN Store!Decide(pair, "deny")
    ELSE UNCHANGED store

\* Mutant: the form's case for "no, always" breaks out early as well.
StoreForBreaksEarly(kind, pair, choice) ==
    IF kind = "policy" /\ choice = "yesAlways" THEN Store!Decide(pair, "allow")
    ELSE IF kind = "policy" /\ choice = "noAlways" THEN Store!Decide(pair, "deny")
    ELSE UNCHANGED store

\* What a choice stores.  The form's case for "yes, always" breaks out of the
\* switch before its call of add().
StoreFor(kind, pair, choice) ==
    IF kind = "policy" /\ choice = "yesAlways" THEN Store!Decide(pair, "allow")
    ELSE IF choice = "noAlways" THEN Store!Decide(pair, "deny")
    ELSE UNCHANGED store

\* The innermost check goes on with what its dialog ended with.  A question that
\* failed rejects the request and stores nothing.
CheckReturns ==
    /\ asking # <<>>
    /\ LET check == asking[Len(asking)]
           pair == PairOf(check.req)
           choice == check.choice
       IN /\ choice # "none"
          /\ asking' = SubSeq(asking, 1, Len(asking) - 1)
          /\ StoreFor(check.kind, pair, choice)
          /\ Decided(IF choice \in Allowing THEN "accept" ELSE "reject",
                     check.req, TRUE, TRUE, choice)
          /\ given' = IF choice \in ForGood
                      THEN [given EXCEPT ![pair] = @ \cup {<<check.kind, choice>>}]
                      ELSE given
          /\ ever' = IF choice \in ForGood
                     THEN [ever EXCEPT ![pair] =
                             @ \cup {IF choice \in Allowing THEN "allow" ELSE "deny"}]
                     ELSE ever
    /\ UNCHANGED env

\* The manager writes its file.
AnswersAreSaved == Store!Save /\ UNCHANGED <<env, asking, last, given, ever>>

\* The session ends, at any moment, in the middle of a write or not; the
\* process takes its dialogs along, and the next one may get another environment.
SessionEnds ==
    /\ Store!Close \/ Store!TornSave
    /\ asking' = <<>>
    /\ last' = NoDecision
    /\ given' = [p \in Pairs |-> {}]
    /\ env' \in [silent : BOOLEAN, delayed : BOOLEAN]
    /\ UNCHANGED ever

Next ==
    \/ \E req \in Requests, tainted \in BOOLEAN : CheckIsSkipped(req, tainted)
    \/ \E kind \in Kinds, req \in Requests, tainted \in BOOLEAN :
          CheckIsDecided(kind, req, tainted)
    \/ \E kind \in Kinds, req \in Requests : CheckAsks(kind, req)
    \/ \E i \in DOMAIN asking, choice \in Choices : Answer(i, choice)
    \/ \E i \in DOMAIN asking : QuestionFails(i)
    \/ CheckReturns
    \/ AnswersAreSaved
    \/ SessionEnds

Spec == Init /\ [][Next]_vars

-----------------------------------------------------------------------------
(***************************************************************************)
(* Properties.                                                             *)
(***************************************************************************)

\* What the user was promised a say in: a request that was checked, between
\* hosts of different domains.
CrossDomain(decision) ==
    /\ decision.checked
    /\ GetDomain(decision.req.caller) # GetDomain(decision.req.called)

\* A tainted request reaches another domain only if the user said yes to it,
\* or said "yes, always" to its pair of domains once, in whatever session and
\* whatever crashes, torn files and other dialogs came in between, or switched
\* the questions off.  Hosts without a dot are left out: see
\* EqualMeansSameDomain.
LeaksAreApproved ==
    last # NoDecision /\ last.verdict = "accept" /\ last.tainted /\ CrossDomain(last)
        /\ Dotted(last.req.caller) /\ Dotted(last.req.called) =>
            \/ last.choice \in Allowing
            \/ "allow" \in ever[PairOf(last.req)]
            \/ env.silent

\* "breaking expected behaviour is bad": a request is stopped for three reasons
\* only.  The user said no to it, the question about it failed, or the user said
\* "no, always" to its pair of domains in some session.  An untainted request is
\* stopped for the third reason only, and a question that failed stops no other
\* request than its own.
RejectionsHaveReasons ==
    last # NoDecision /\ last.verdict = "reject" =>
        \/ last.choice \in Choices \ Allowing /\ last.tainted
        \/ last.choice = "failed" /\ last.tainted
        \/ "deny" \in ever[PairOf(last.req)]

\* After a "no, always" in this session, given in this or that dialog, both
\* checks stop every further request of the pair, unless it is untainted and
\* the environment wants taint to be looked at first.  (A dialog of the pair
\* that was open already still lets its own request through.)
DenialBinds ==
    last # NoDecision /\ last.verdict = "accept" /\ last.choice = "none"
        /\ CrossDomain(last) /\ Dotted(last.req.caller) /\ Dotted(last.req.called)
        /\ (\E kind \in Kinds : <<kind, "noAlways">> \in given[PairOf(last.req)]) =>
            ~last.tainted /\ env.delayed

\* No question is asked about a pair the user has answered for good in this
\* session, except where the answer was the form's "yes, always".
StoredAnswersEndQuestions ==
    [][\A kind \in Kinds, req \in Requests :
          CheckAsks(kind, req) => given[PairOf(req)] \subseteq {<<"form", "yesAlways">>}]_vars

-----------------------------------------------------------------------------
(***************************************************************************)
(* The inductive invariant behind these properties: how the table and the  *)
(* file are tied to what the user said.                                    *)
(***************************************************************************)

\* Every stored answer, in memory or in the file, was given once.
AnswersAreGiven ==
    \A p \in Pairs : \A r \in {rules[p], saved[p]} :
        /\ r \in {"allow", "both"} => "allow" \in ever[p]
        /\ r \in {"deny", "both"} => "deny" \in ever[p]

\* What was answered for good in this session is in memory, but for the form's
\* "yes, always".
GivenIsStored ==
    \A p \in Pairs, kind \in Kinds :
        /\ <<kind, "noAlways">> \in given[p] => open /\ rules[p] \in {"deny", "both"}
        /\ <<"policy", "yesAlways">> \in given[p] => open /\ rules[p] \in {"allow", "both"}

IInv ==
    /\ TypeOK
    /\ AnswersAreGiven
    /\ GivenIsStored
    /\ asking # <<>> => open
    /\ LeaksAreApproved
    /\ RejectionsHaveReasons
    /\ DenialBinds

-----------------------------------------------------------------------------
(***************************************************************************)
(* What comments of the code say and the code does not do.                 *)
(***************************************************************************)

\* "yes, always-button" ... "user allowed it always": an "always" answer of
\* either kind ends the questions about its pair for this session.
AlwaysEndsQuestions ==
    [][\A kind \in Kinds, req \in Requests :
          CheckAsks(kind, req) => given[PairOf(req)] = {}]_vars

\* "A domain is equal, if the last 2 parts are equal": what passes a check as
\* a request within its domain has the same domain on both sides.
EqualMeansSameDomain ==
    last # NoDecision /\ last.verdict = "accept" /\ last.tainted /\ CrossDomain(last) =>
        \/ last.choice \in Allowing
        \/ "allow" \in ever[PairOf(last.req)]
        \/ env.silent

=============================================================================
