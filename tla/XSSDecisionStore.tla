-------------------------- MODULE XSSDecisionStore --------------------------
(***************************************************************************)
(* What the host connect permission manager promises to the rest of the    *)
(* browser (nsIXSSHostConnectPermissionManager.idl): a store of permanent  *)
(* answers, one per (calling domain, called domain) pair, that lives in    *)
(* memory while the service exists and is saved now and then.              *)
(*                                                                         *)
(* This is the abstract specification: no hash tables, timers, file lines  *)
(* or events.  XSSHostPermissions implements it, and XSSConnectionCheck    *)
(* uses its operators as its view of the service.                          *)
(***************************************************************************)

CONSTANTS
    Pairs,        \* the (calling domain, called domain) pairs
    StartupErrors \* TRUE: the file may be unreadable when the service starts

VARIABLES
    open,  \* the service exists
    rules, \* the answers in memory
    saved  \* the answers a restart would find

dvars == <<open, rules, saved>>

(***************************************************************************)
(* A pair can hold both answers: add() never takes the opposite one away.  *)
(***************************************************************************)
Rule == {"unknown", "allow", "deny", "both"}

NoRules == [p \in Pairs |-> "unknown"]

\* What adding the answer d to the rule r makes of it.
Join(r, d) == IF r \in {"unknown", d} THEN d ELSE "both"

\* The value testPermission returns: a denial wins over an approval.
Tested(r) == IF r = "both" THEN "deny" ELSE r

\* What is left of a rule after a save and a restart: a pair with both
\* answers comes back with none.
Storable(r) == IF r = "both" THEN "unknown" ELSE r

\* What a save that was cut short can leave of a rule.
Torn(r) == IF r = "both" THEN {"unknown", "allow"} ELSE {"unknown", r}

-----------------------------------------------------------------------------

DInit ==
    /\ open = FALSE
    /\ rules = NoRules
    /\ saved = NoRules

\* The service starts with what was saved; where the file could not be read
\* completely it starts with a part of it.
Open ==
    /\ ~open
    /\ open' = TRUE
    /\ \/ rules' = saved
       \/ /\ StartupErrors
          /\ \E S \in SUBSET Pairs :
                rules' = [p \in Pairs |-> IF p \in S THEN saved[p] ELSE "unknown"]
    /\ UNCHANGED saved

\* One permanent answer.
Decide(p, d) ==
    /\ open
    /\ rules' = [rules EXCEPT ![p] = Join(@, d)]
    /\ UNCHANGED <<open, saved>>

\* All answers are saved at once.
Save ==
    /\ open
    /\ saved' = [p \in Pairs |-> Storable(rules[p])]
    /\ UNCHANGED <<open, rules>>

\* The service goes away and forgets; what was saved stays.
Close ==
    /\ open
    /\ open' = FALSE
    /\ rules' = NoRules
    /\ UNCHANGED saved

\* A crash during the very first save keeps a part of the answers.
TornSave ==
    /\ open
    /\ saved = NoRules
    /\ open' = FALSE
    /\ rules' = NoRules
    /\ saved' \in [Pairs -> Rule]
    /\ \A p \in Pairs : saved'[p] \in Torn(rules[p])

DNext ==
    \/ Open
    \/ \E p \in Pairs, d \in {"allow", "deny"} : Decide(p, d)
    \/ Save
    \/ Close
    \/ TornSave

DSpec == DInit /\ [][DNext]_dvars

=============================================================================
