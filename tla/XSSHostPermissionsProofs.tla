---------------------- MODULE XSSHostPermissionsProofs ----------------------
(***************************************************************************)
(* Theorems about the permission manager of XSSHostPermissions, for any    *)
(* set of pairs, any set of timers and any number of sessions.             *)
(***************************************************************************)
EXTENDS XSSHostPermissions, TLAPS

-----------------------------------------------------------------------------
(***************************************************************************)
(* Lines and sets of permissions.                                          *)
(***************************************************************************)

\* What Write prints for a set names answers only.
LEMMA LineType == \A set : Line(set) \subseteq Answers
  BY DEF Line

\* What Read makes of a line is a set of integers the table can hold.
LEMMA ParsedType == \A line \in SUBSET Answers : Parsed(line) \subseteq Stored
  BY DEF Parsed, Stored

\* LazyWrite leaves the manager with a timer that is in the list.
LEMMA LazyWriteArms ==
  ASSUME TypeOK, LazyWrite
  PROVE  /\ mWriteTimer' \in Timers
         /\ mWriteTimer' \in armed'
         /\ armed' \subseteq Timers
  BY DEF TypeOK, LazyWrite, FreeTimers

-----------------------------------------------------------------------------
(***************************************************************************)
(* Type correctness.                                                       *)
(***************************************************************************)

LEMMA InitType == Init => TypeOK
  <1> SUFFICES ASSUME Init PROVE TypeOK
    OBVIOUS
  <1>1. posted \in [Timers -> 0 .. MaxPosted]
    BY MaxPostedAssumption DEF Init, NonePosted
  <1>2. mHostTable \in [Pairs -> SUBSET Stored] /\ file \in [Pairs -> SUBSET Answers]
    BY DEF Init, EmptyTable, EmptyFile
  <1> QED
    BY <1>1, <1>2 DEF Init, TypeOK

\* The process is gone: what is left has its type.
LEMMA GoneType ==
  ASSUME ProcessGone, file' \in [Pairs -> SUBSET Answers], fileExists' \in BOOLEAN
  PROVE  TypeOK'
  <1>1. posted' \in [Timers -> 0 .. MaxPosted]
    BY MaxPostedAssumption DEF ProcessGone, NonePosted
  <1>2. mHostTable' \in [Pairs -> SUBSET Stored]
    BY DEF ProcessGone, EmptyTable
  <1> QED
    BY <1>1, <1>2 DEF ProcessGone, TypeOK

LEMMA NextType == TypeOK /\ [Next]_vars => TypeOK'
  <1> SUFFICES ASSUME TypeOK, [Next]_vars PROVE TypeOK'
    OBVIOUS
  <1>1. ASSUME NEW p \in Pairs, NEW permission \in Answers, Add(p, permission)
        PROVE  TypeOK'
    <2>1. mHostTable' \in [Pairs -> SUBSET Stored]
      BY <1>1 DEF Add, TypeOK, Stored
    <2> QED
      BY <1>1, <2>1, LazyWriteArms DEF Add, TypeOK, disk
  <1>2. ASSUME NEW t \in Timers, TimerExpires(t) PROVE TypeOK'
    <2>1. posted' \in [Timers -> 0 .. MaxPosted]
      BY <1>2, MaxPostedAssumption DEF TimerExpires, TypeOK
    <2> QED
      BY <1>2, <2>1 DEF TimerExpires, TypeOK, manager, disk, history
  <1>3. ASSUME NEW t \in Timers, DoLazyWrite(t) PROVE TypeOK'
    <2>1. posted' \in [Timers -> 0 .. MaxPosted]
      BY <1>3, MaxPostedAssumption DEF DoLazyWrite, TypeOK
    <2>2. Contents(mHostTable) \in [Pairs -> SUBSET Answers]
      BY DEF Contents, Line
    <2>3. /\ file' \in [Pairs -> SUBSET Answers]
          /\ fileExists' \in BOOLEAN
          /\ mChangedList' \in BOOLEAN
          /\ writeFailed' \in BOOLEAN
      BY <1>3, <2>2
      DEF DoLazyWrite, Write, WriteSkips, WriteFails, WriteSucceeds, TypeOK, disk
    <2> QED
      BY <1>3, <2>1, <2>3 DEF DoLazyWrite, TypeOK
  <1>4. CASE Create
    <2>1. mHostTable' \in [Pairs -> SUBSET Stored]
      <3>1. PICK S : mHostTable' = [p \in Pairs |-> IF p \in S THEN Parsed(file[p]) ELSE {}]
        BY <1>4 DEF Create
      <3>2. \A p \in Pairs : Parsed(file[p]) \in SUBSET Stored
        BY ParsedType DEF TypeOK
      <3> QED
        BY <3>1, <3>2
    <2>2. mWriteTimer' \in Timers \cup {NoTimer} /\ armed' \subseteq Timers
      BY <1>4, LazyWriteArms DEF Create, TypeOK
    <2>3. mPermissionsFile' \in BOOLEAN /\ readAll' \in BOOLEAN
      BY <1>4 DEF Create
    <2> QED
      BY <1>4, <2>1, <2>2, <2>3 DEF Create, TypeOK, disk
  <1>5. CASE Destroy
    <2>1. posted' \in [Timers -> 0 .. MaxPosted]
      BY <1>5, MaxPostedAssumption DEF Destroy, TypeOK
    <2>2. mHostTable' \in [Pairs -> SUBSET Stored]
      BY <1>5 DEF Destroy, EmptyTable
    <2> QED
      BY <1>5, <2>1, <2>2 DEF Destroy, TypeOK, disk, history
  <1>6. CASE Exit
    BY <1>6, GoneType DEF Exit, TypeOK, disk
  <1>7. ASSUME NEW t \in Timers, CrashInFirstWrite(t) PROVE TypeOK'
    BY <1>7, GoneType DEF CrashInFirstWrite
  <1>8. CASE UNCHANGED vars
    BY <1>8 DEF vars, manager, timing, disk, history, TypeOK
  <1> QED
    BY <1>1, <1>2, <1>3, <1>4, <1>5, <1>6, <1>7, <1>8 DEF Next

\* Every variable of the manager keeps its type.
THEOREM TypeCorrect == Spec => []TypeOK
  <1>1. Init => TypeOK
    BY InitType
  <1>2. TypeOK /\ [Next]_vars => TypeOK'
    BY NextType
  <1> QED
    BY <1>1, <1>2, PTL DEF Spec

-----------------------------------------------------------------------------
(***************************************************************************)
(* An unsaved answer has a timer.                                          *)
(***************************************************************************)

LEMMA NextUnsaved ==
  TypeOK /\ UnsavedHasTimer /\ [Next]_vars => UnsavedHasTimer'
  <1> SUFFICES ASSUME TypeOK, UnsavedHasTimer, [Next]_vars
               PROVE  UnsavedHasTimer'
    OBVIOUS
  <1> USE DEF UnsavedHasTimer
  <1>1. ASSUME NEW p \in Pairs, NEW permission \in Answers, Add(p, permission)
        PROVE  UnsavedHasTimer'
    BY <1>1, LazyWriteArms, NoTimerAssumption DEF Add
  <1>2. ASSUME NEW t \in Timers, TimerExpires(t) PROVE UnsavedHasTimer'
    <2> SUFFICES ASSUME phase = "up", mChangedList, ~writeFailed
                 PROVE  /\ mWriteTimer # NoTimer
                        /\ mWriteTimer \in armed' \/ posted'[mWriteTimer] > 0
      BY <1>2 DEF TimerExpires, manager, history
    <2>1. CASE t = mWriteTimer
      BY <1>2, <2>1, NoTimerAssumption DEF TimerExpires, TypeOK
    <2>2. CASE t # mWriteTimer
      BY <1>2, <2>2 DEF TimerExpires, TypeOK
    <2> QED
      BY <2>1, <2>2
  <1>3. ASSUME NEW t \in Timers, DoLazyWrite(t) PROVE UnsavedHasTimer'
    BY <1>3 DEF DoLazyWrite, Write, WriteSkips, WriteFails, WriteSucceeds
  <1>4. CASE Create
    BY <1>4 DEF Create
  <1>5. CASE Destroy
    BY <1>5 DEF Destroy
  <1>6. CASE Exit
    BY <1>6 DEF Exit, ProcessGone
  <1>7. ASSUME NEW t \in Timers, CrashInFirstWrite(t) PROVE UnsavedHasTimer'
    BY <1>7 DEF CrashInFirstWrite, ProcessGone
  <1>8. CASE UNCHANGED vars
    BY <1>8 DEF vars, manager, timing, disk, history
  <1> QED
    BY <1>1, <1>2, <1>3, <1>4, <1>5, <1>6, <1>7, <1>8 DEF Next

\* No answer waits in memory without a timer that will try to write it, for
\* any interleaving of answers, expiring timers and waiting events.
THEOREM UnsavedHasTimerAlways == Spec => []UnsavedHasTimer
  <1>1. Init => UnsavedHasTimer
    BY DEF Init, UnsavedHasTimer
  <1>2. TypeOK /\ UnsavedHasTimer /\ [Next]_vars => UnsavedHasTimer'
    BY NextUnsaved
  <1> QED
    BY <1>1, <1>2, TypeCorrect, PTL DEF Spec

-----------------------------------------------------------------------------
(***************************************************************************)
(* What the manager believes to be saved is saved.                         *)
(***************************************************************************)

LEMMA NextBelieved ==
  TypeOK /\ NothingBelievedSavedIsLost /\ [Next]_vars => NothingBelievedSavedIsLost'
  <1> SUFFICES ASSUME TypeOK, NothingBelievedSavedIsLost, [Next]_vars
               PROVE  NothingBelievedSavedIsLost'
    OBVIOUS
  <1> USE DEF NothingBelievedSavedIsLost
  <1>1. ASSUME NEW p \in Pairs, NEW permission \in Answers, Add(p, permission)
        PROVE  NothingBelievedSavedIsLost'
    BY <1>1 DEF Add
  <1>2. ASSUME NEW t \in Timers, TimerExpires(t)
        PROVE  NothingBelievedSavedIsLost'
    BY <1>2 DEF TimerExpires, manager, disk
  <1>3. ASSUME NEW t \in Timers, DoLazyWrite(t)
        PROVE  NothingBelievedSavedIsLost'
    <2>1. CASE WriteSkips
      BY <1>3, <2>1 DEF DoLazyWrite, WriteSkips, disk
    <2>2. CASE WriteFails
      BY <2>2 DEF WriteFails
    <2>3. CASE WriteSucceeds
      <3>1. mHostTable' = mHostTable /\ file' = Contents(mHostTable)
        BY <1>3, <2>3 DEF DoLazyWrite, WriteSucceeds
      <3> QED
        BY <3>1 DEF Contents
    <2> QED
      BY <1>3, <2>1, <2>2, <2>3 DEF DoLazyWrite, Write
  <1>4. CASE Create
    <2>1. PICK S : mHostTable' = [p \in Pairs |-> IF p \in S THEN Parsed(file[p]) ELSE {}]
      BY <1>4 DEF Create
    <2>2. file' = file
      BY <1>4 DEF Create, disk
    <2>3. ASSUME NEW p \in Pairs PROVE Line(mHostTable'[p]) \subseteq file'[p]
      BY <2>1, <2>2, <2>3 DEF Line, Parsed, Answers, BothDigits, ALLOW_CONNECT, DENY_CONNECT
    <2> QED
      BY <2>3
  <1>5. CASE Destroy
    BY <1>5 DEF Destroy
  <1>6. CASE Exit
    BY <1>6 DEF Exit, ProcessGone
  <1>7. ASSUME NEW t \in Timers, CrashInFirstWrite(t)
        PROVE  NothingBelievedSavedIsLost'
    BY <1>7 DEF CrashInFirstWrite, ProcessGone
  <1>8. CASE UNCHANGED vars
    BY <1>8 DEF vars, manager, timing, disk, history
  <1> QED
    BY <1>1, <1>2, <1>3, <1>4, <1>5, <1>6, <1>7, <1>8 DEF Next

\* An unset change flag means that the file has every single answer.
THEOREM BelievedSavedIsSaved == Spec => []NothingBelievedSavedIsLost
  <1>1. Init => NothingBelievedSavedIsLost
    BY DEF Init, NothingBelievedSavedIsLost
  <1>2. TypeOK /\ NothingBelievedSavedIsLost /\ [Next]_vars
          => NothingBelievedSavedIsLost'
    BY NextBelieved
  <1> QED
    BY <1>1, <1>2, TypeCorrect, PTL DEF Spec

-----------------------------------------------------------------------------
(***************************************************************************)
(* Steps within a session.                                                 *)
(***************************************************************************)

\* Within a session only Add changes the table, and it only adds to it.
LEMMA TableOnlyGrows ==
  ASSUME TypeOK, [Next]_vars, phase = "up", phase' = "up", NEW p \in Pairs
  PROVE  mHostTable[p] \subseteq mHostTable'[p]
  <1>1. ASSUME NEW q \in Pairs, NEW permission \in Answers, Add(q, permission)
        PROVE  mHostTable[p] \subseteq mHostTable'[p]
    BY <1>1 DEF Add, TypeOK
  <1>2. ASSUME NEW t \in Timers, TimerExpires(t)
        PROVE  mHostTable[p] \subseteq mHostTable'[p]
    BY <1>2 DEF TimerExpires, manager
  <1>3. ASSUME NEW t \in Timers, DoLazyWrite(t)
        PROVE  mHostTable[p] \subseteq mHostTable'[p]
    BY <1>3 DEF DoLazyWrite
  <1>4. ~Create /\ ~Destroy /\ ~Exit
    BY DEF Create, Destroy, Exit, ProcessGone
  <1>5. ASSUME NEW t \in Timers PROVE ~CrashInFirstWrite(t)
    BY DEF CrashInFirstWrite, ProcessGone
  <1>6. CASE UNCHANGED vars
    BY <1>6 DEF vars, manager
  <1> QED
    BY <1>1, <1>2, <1>3, <1>4, <1>5, <1>6 DEF Next

\* TestPermission is monotone in the set of stored integers.
LEMMA TestPermissionMonotone ==
  ASSUME NEW S, NEW T, S \subseteq T
  PROVE  TestPermission(T) >= TestPermission(S)
  BY DEF TestPermission, ALLOW_CONNECT, DENY_CONNECT

\* No answer of the permission manager is ever taken back within a session.
THEOREM AnswersNeverWeakenAlways == Spec => AnswersNeverWeaken
  <1>1. TypeOK /\ [Next]_vars =>
          [phase = "up" /\ phase' = "up" =>
              \A p \in Pairs :
                TestPermission(mHostTable'[p]) >= TestPermission(mHostTable[p])]_vars
    BY TableOnlyGrows, TestPermissionMonotone
  <1> QED
    BY <1>1, TypeCorrect, PTL DEF Spec, AnswersNeverWeaken

\* The strengthening WritesKeepStoredAnswers rests on: in a session that read
\* the whole file, what the file says of a pair is also in the table, but for
\* the lines with both digits.
FileInTable ==
    phase = "up" /\ readAll =>
        \A p \in Pairs : file[p] = Answers \/ file[p] \subseteq mHostTable[p]

LEMMA NextFileInTable == TypeOK /\ FileInTable /\ [Next]_vars => FileInTable'
  <1> SUFFICES ASSUME TypeOK, FileInTable, [Next]_vars, phase' = "up", readAll',
                      NEW p \in Pairs
               PROVE  file'[p] = Answers \/ file'[p] \subseteq mHostTable'[p]
    BY DEF FileInTable
  <1> USE DEF FileInTable
  <1>1. ASSUME NEW q \in Pairs, NEW permission \in Answers, Add(q, permission)
        PROVE  file'[p] = Answers \/ file'[p] \subseteq mHostTable'[p]
    <2>1. /\ file'[p] = file[p]
          /\ file[p] = Answers \/ file[p] \subseteq mHostTable[p]
      BY <1>1 DEF Add, disk
    <2>2. mHostTable[p] \subseteq mHostTable'[p]
      BY <1>1 DEF Add, TypeOK
    <2> QED
      BY <2>1, <2>2
  <1>2. ASSUME NEW t \in Timers, TimerExpires(t)
        PROVE  file'[p] = Answers \/ file'[p] \subseteq mHostTable'[p]
    BY <1>2 DEF TimerExpires, manager, disk, history
  <1>3. ASSUME NEW t \in Timers, DoLazyWrite(t)
        PROVE  file'[p] = Answers \/ file'[p] \subseteq mHostTable'[p]
    <2>1. CASE file' = file
      BY <1>3, <2>1 DEF DoLazyWrite
    <2>2. CASE file' = Contents(mHostTable)
      BY <1>3, <2>2 DEF DoLazyWrite, Contents, Line
    <2> QED
      BY <1>3, <2>1, <2>2
      DEF DoLazyWrite, Write, WriteSkips, WriteFails, WriteSucceeds, disk
  <1>4. CASE Create
    <2>1. mHostTable'[p] = Parsed(file[p])
      BY <1>4 DEF Create
    <2>2. file'[p] = file[p]
      BY <1>4 DEF Create, disk
    <2> QED
      BY <2>1, <2>2 DEF Parsed
  <1>5. ~Destroy /\ ~Exit
    BY DEF Destroy, Exit, ProcessGone
  <1>6. ASSUME NEW t \in Timers PROVE ~CrashInFirstWrite(t)
    BY DEF CrashInFirstWrite, ProcessGone
  <1>7. CASE UNCHANGED vars
    BY <1>7 DEF vars, manager, disk, history
  <1> QED
    BY <1>1, <1>2, <1>3, <1>4, <1>5, <1>6, <1>7 DEF Next

\* In a session that read the whole file no write takes a single answer out of
\* it.
THEOREM WritesKeepStoredAnswersAlways == Spec => WritesKeepStoredAnswers
  <1>1. Init => FileInTable
    BY DEF Init, FileInTable
  <1>2. TypeOK /\ FileInTable /\ [Next]_vars => FileInTable'
    BY NextFileInTable
  <1>3. Spec => []FileInTable
    BY <1>1, <1>2, TypeCorrect, PTL DEF Spec
  <1>4. TypeOK /\ FileInTable /\ [Next]_vars =>
          [phase = "up" /\ phase' = "up" /\ readAll =>
              \A p \in Pairs : file[p] \subseteq file'[p] \/ file[p] = Answers]_vars
    <2> SUFFICES ASSUME TypeOK, FileInTable, [Next]_vars,
                        phase = "up", phase' = "up", readAll, NEW p \in Pairs
                 PROVE  file[p] \subseteq file'[p] \/ file[p] = Answers
      OBVIOUS
    <2>1. CASE file' = file
      BY <2>1
    <2>2. ASSUME NEW t \in Timers, DoLazyWrite(t)
          PROVE  file[p] \subseteq file'[p] \/ file[p] = Answers
      <3>1. CASE file' = Contents(mHostTable)
        BY <3>1 DEF FileInTable, Contents, Line, TypeOK
      <3> QED
        BY <2>1, <2>2, <3>1
        DEF DoLazyWrite, Write, WriteSkips, WriteFails, WriteSucceeds, disk
    <2>3. ASSUME NEW t \in Timers PROVE ~CrashInFirstWrite(t)
      BY DEF CrashInFirstWrite, ProcessGone
    <2> QED
      BY <2>1, <2>2, <2>3
      DEF Next, Add, TimerExpires, Create, Destroy, Exit, vars, disk
  <1> QED
    BY <1>3, <1>4, TypeCorrect, PTL DEF Spec, WritesKeepStoredAnswers

-----------------------------------------------------------------------------
(***************************************************************************)
(* Refinement.                                                             *)
(***************************************************************************)

\* Before the first write there is nothing in the file.
NoFileNoAnswers == ~fileExists => file = EmptyFile

\* Outside a session nothing is in the table.
NoSessionNoTable == phase # "up" => mHostTable = EmptyTable

LEMMA NextRefInv ==
  TypeOK /\ NoFileNoAnswers /\ NoSessionNoTable /\ [Next]_vars
    => NoFileNoAnswers' /\ NoSessionNoTable'
  <1> SUFFICES ASSUME TypeOK, NoFileNoAnswers, NoSessionNoTable, [Next]_vars
               PROVE  NoFileNoAnswers' /\ NoSessionNoTable'
    OBVIOUS
  <1> USE DEF NoFileNoAnswers, NoSessionNoTable
  <1>1. CASE \E p \in Pairs, permission \in Answers : Add(p, permission)
    BY <1>1 DEF Add, disk, EmptyFile
  <1>2. CASE \E t \in Timers : TimerExpires(t)
    BY <1>2 DEF TimerExpires, manager, disk, EmptyFile, EmptyTable
  <1>3. CASE \E t \in Timers : DoLazyWrite(t)
    BY <1>3
    DEF DoLazyWrite, Write, WriteSkips, WriteFails, WriteSucceeds, disk, EmptyFile
  <1>4. CASE Create
    BY <1>4 DEF Create, disk, EmptyFile
  <1>5. CASE Destroy
    BY <1>5 DEF Destroy, disk, EmptyFile, EmptyTable
  <1>6. CASE Exit
    BY <1>6 DEF Exit, ProcessGone, disk, EmptyFile, EmptyTable
  <1>7. CASE \E t \in Timers : CrashInFirstWrite(t)
    BY <1>7 DEF CrashInFirstWrite, ProcessGone, EmptyTable
  <1>8. CASE UNCHANGED vars
    BY <1>8 DEF vars, manager, disk, EmptyFile, EmptyTable
  <1> QED
    BY <1>1, <1>2, <1>3, <1>4, <1>5, <1>6, <1>7, <1>8 DEF Next

\* The abstract values of the table and of the file.
rulesBar == [p \in Pairs |-> RuleOf(mHostTable[p])]
savedBar == [p \in Pairs |-> RuleOf(Parsed(file[p]))]

\* Writing a set and reading the line back stores its rule.
LEMMA StoredLine ==
  ASSUME NEW S \in SUBSET Stored
  PROVE  RuleOf(Parsed(Line(S))) = Store!Storable(RuleOf(S))
  BY DEF RuleOf, Parsed, Line, Store!Storable, Stored, Answers, BothDigits,
         ALLOW_CONNECT, DENY_CONNECT

\* What a cut line is read back as.
LEMMA TornLine ==
  ASSUME NEW S \in SUBSET Stored,
         NEW line \in {{}, Line(S), Line(S) \ {DENY_CONNECT}}
  PROVE  RuleOf(Parsed(line)) \in Store!Torn(RuleOf(S))
  BY DEF RuleOf, Parsed, Line, Store!Torn, Stored, Answers, BothDigits,
         ALLOW_CONNECT, DENY_CONNECT

\* Adding an answer to a set joins it to the rule.
LEMMA JoinedRule ==
  ASSUME NEW S \in SUBSET Stored, NEW permission \in Answers
  PROVE  RuleOf(S \cup {permission})
           = Store!Join(RuleOf(S), IF permission = DENY_CONNECT THEN "deny" ELSE "allow")
  BY DEF RuleOf, Store!Join, Stored, Answers, BothDigits, ALLOW_CONNECT, DENY_CONNECT

\* An empty table and an empty file hold no rules.
LEMMA EmptyRules ==
  /\ mHostTable = EmptyTable => rulesBar = Store!NoRules
  /\ file = EmptyFile => savedBar = Store!NoRules
  BY DEF rulesBar, savedBar, Store!NoRules, EmptyTable, EmptyFile, RuleOf, Parsed,
         Answers, ALLOW_CONNECT, DENY_CONNECT

\* Every step of the manager is a step of the abstract store, or leaves it.
LEMMA NextRefines ==
  TypeOK /\ NoFileNoAnswers /\ NoSessionNoTable /\ NoSessionNoTable' /\ [Next]_vars
    => [Store!DNext]_(Store!dvars)
  <1> SUFFICES ASSUME TypeOK, NoFileNoAnswers, NoSessionNoTable, NoSessionNoTable',
                      [Next]_vars
               PROVE  [Store!DNext]_(Store!dvars)
    OBVIOUS
  <1> DEFINE same == /\ (phase = "up") = (phase = "up")'
                     /\ rulesBar' = rulesBar
                     /\ savedBar' = savedBar
  <1>0. same => [Store!DNext]_(Store!dvars)
    BY DEF Store!dvars, rulesBar, savedBar
  <1>1. ASSUME NEW p \in Pairs, NEW permission \in Answers, Add(p, permission)
        PROVE  [Store!DNext]_(Store!dvars)
    <2> DEFINE d == IF permission = DENY_CONNECT THEN "deny" ELSE "allow"
    <2>1. rulesBar' = [rulesBar EXCEPT ![p] = Store!Join(@, d)]
      <3>1. mHostTable' = [mHostTable EXCEPT ![p] = @ \cup {permission}]
        BY <1>1 DEF Add
      <3>2. \A q \in Pairs : mHostTable[q] \in SUBSET Stored
        BY DEF TypeOK
      <3>3. RuleOf(mHostTable[p] \cup {permission}) = Store!Join(RuleOf(mHostTable[p]), d)
        BY <3>2, JoinedRule
      <3> QED
        BY <3>1, <3>3 DEF rulesBar, TypeOK
    <2>2. savedBar' = savedBar
      BY <1>1 DEF Add, disk, savedBar
    <2>3. Store!Decide(p, d)
      BY <1>1, <2>1, <2>2 DEF Add, Store!Decide, rulesBar, savedBar
    <2> QED
      BY <2>3 DEF Store!DNext
  <1>2. ASSUME NEW t \in Timers, TimerExpires(t) PROVE [Store!DNext]_(Store!dvars)
    BY <1>0, <1>2 DEF TimerExpires, manager, disk, rulesBar, savedBar
  <1>3. ASSUME NEW t \in Timers, DoLazyWrite(t) PROVE [Store!DNext]_(Store!dvars)
    <2>1. rulesBar' = rulesBar /\ phase = "up" /\ phase' = "up"
      BY <1>3 DEF DoLazyWrite, rulesBar
    <2>2. CASE file' = file
      BY <1>0, <2>1, <2>2 DEF savedBar
    <2>3. CASE WriteSucceeds
      <3>1. savedBar' = [p \in Pairs |-> Store!Storable(rulesBar[p])]
        <4>1. file' = [p \in Pairs |-> Line(mHostTable[p])]
          BY <2>3 DEF WriteSucceeds, Contents
        <4>2. \A p \in Pairs :
                RuleOf(Parsed(file'[p])) = Store!Storable(RuleOf(mHostTable[p]))
          BY <4>1, StoredLine DEF TypeOK
        <4> QED
          BY <4>2 DEF savedBar, rulesBar
      <3>2. Store!Save
        BY <2>1, <3>1 DEF Store!Save, rulesBar, savedBar
      <3> QED
        BY <3>2 DEF Store!DNext
    <2> QED
      BY <1>3, <2>2, <2>3 DEF DoLazyWrite, Write, WriteSkips, WriteFails, disk
  <1>4. CASE Create
    <2>1. PICK S \in (IF StartupErrors THEN SUBSET Pairs ELSE {Pairs}) :
             mHostTable' = [p \in Pairs |-> IF p \in S THEN Parsed(file[p]) ELSE {}]
      BY <1>4 DEF Create
    <2>2. phase # "up" /\ phase' = "up" /\ savedBar' = savedBar
      BY <1>4 DEF Create, disk, savedBar
    <2>3. rulesBar' = [p \in Pairs |-> IF p \in S THEN savedBar[p] ELSE "unknown"]
      BY <2>1 DEF rulesBar, savedBar, RuleOf, Answers, ALLOW_CONNECT, DENY_CONNECT
    <2>4. CASE S = Pairs
      <3>1. rulesBar' = savedBar
        BY <2>3, <2>4 DEF savedBar
      <3> QED
        BY <2>2, <3>1 DEF Store!Open, Store!DNext, rulesBar, savedBar
    <2>5. CASE S # Pairs
      <3>1. StartupErrors /\ S \in SUBSET Pairs
        BY <2>1, <2>5
      <3> QED
        BY <2>2, <2>3, <3>1 DEF Store!Open, Store!DNext, rulesBar, savedBar
    <2> QED
      BY <2>4, <2>5
  <1>5. ASSUME phase = "up", phase' # "up", UNCHANGED disk
        PROVE  [Store!DNext]_(Store!dvars)
    <2>1. rulesBar' = [p \in Pairs |-> "unknown"]
      BY <1>5 DEF NoSessionNoTable, EmptyTable, rulesBar, RuleOf, Answers,
                  ALLOW_CONNECT, DENY_CONNECT
    <2>2. savedBar' = savedBar
      BY <1>5 DEF disk, savedBar
    <2> QED
      BY <1>5, <2>1, <2>2
      DEF Store!Close, Store!DNext, Store!NoRules, rulesBar, savedBar
  <1>6. CASE Destroy
    BY <1>5, <1>6 DEF Destroy
  <1>7. CASE Exit
    <2>1. CASE phase = "up"
      BY <1>5, <1>7, <2>1 DEF Exit, ProcessGone
    <2>2. CASE phase # "up"
      <3>1. mHostTable' = mHostTable /\ file' = file /\ phase' # "up"
        BY <1>7, <2>2 DEF Exit, ProcessGone, disk, NoSessionNoTable
      <3> QED
        BY <1>0, <2>2, <3>1 DEF rulesBar, savedBar
    <2> QED
      BY <2>1, <2>2
  <1>8. ASSUME NEW t \in Timers, CrashInFirstWrite(t) PROVE [Store!DNext]_(Store!dvars)
    <2>1. phase = "up" /\ phase' # "up"
      BY <1>8 DEF CrashInFirstWrite, ProcessGone
    <2>2. rulesBar' = [p \in Pairs |-> "unknown"]
      BY <2>1 DEF NoSessionNoTable, EmptyTable, rulesBar, RuleOf, Answers,
                  ALLOW_CONNECT, DENY_CONNECT
    <2>3. savedBar = Store!NoRules
      BY <1>8, EmptyRules DEF CrashInFirstWrite, NoFileNoAnswers
    <2>4. \A p \in Pairs : savedBar'[p] \in Store!Torn(rulesBar[p])
      <3>1. \A p \in Pairs :
              file'[p] \in {{}, Line(mHostTable[p]), Line(mHostTable[p]) \ {DENY_CONNECT}}
        BY <1>8 DEF CrashInFirstWrite
      <3> QED
        BY <3>1, TornLine DEF savedBar, rulesBar, TypeOK
    <2>5. savedBar' \in [Pairs -> Store!Rule]
      BY DEF savedBar, RuleOf, Store!Rule
    <2> QED
      BY <2>1, <2>2, <2>3, <2>4, <2>5
      DEF Store!TornSave, Store!DNext, Store!NoRules, rulesBar, savedBar
  <1>9. CASE UNCHANGED vars
    BY <1>0, <1>9 DEF vars, manager, disk, rulesBar, savedBar
  <1> QED
    BY <1>1, <1>2, <1>3, <1>4, <1>6, <1>7, <1>8, <1>9 DEF Next

\* The permission manager, with its timers, events and file, implements the
\* abstract store of answers.
THEOREM ImplementsStoreAlways == Spec => ImplementsStore
  <1>1. Init => Store!DInit
    <2> SUFFICES ASSUME Init PROVE Store!DInit
      OBVIOUS
    <2> QED
      BY EmptyRules DEF Init, Store!DInit, rulesBar, savedBar
  <1>2. Init => NoFileNoAnswers /\ NoSessionNoTable
    BY DEF Init, NoFileNoAnswers, NoSessionNoTable
  <1>3. TypeOK /\ NoFileNoAnswers /\ NoSessionNoTable /\ [Next]_vars
          => NoFileNoAnswers' /\ NoSessionNoTable'
    BY NextRefInv
  <1>4. Spec => [](NoFileNoAnswers /\ NoSessionNoTable)
    BY <1>2, <1>3, TypeCorrect, PTL DEF Spec
  <1>5. TypeOK /\ NoFileNoAnswers /\ NoSessionNoTable /\ NoSessionNoTable' /\ [Next]_vars
          => [Store!DNext]_(Store!dvars)
    BY NextRefines
  <1> QED
    BY <1>1, <1>4, <1>5, TypeCorrect, PTL DEF Spec, ImplementsStore, Store!DSpec

=============================================================================
