------------------------- MODULE XSSHostPermissions -------------------------
(***************************************************************************)
(* The XSS host connect permission manager                                 *)
(* (netwerk/base/src/nsXSSHostConnectPermissionManager.cpp): the table of  *)
(* permanent answers, the change flag, the lazy-write timer and the file   *)
(* xsshostconnectperm.1, over any number of browser sessions.              *)
(*                                                                         *)
(* Two threads touch it.  The main thread runs Add, the timer callback,    *)
(* start-up and the destructor; the timer thread (xpcom/threads) takes an  *)
(* expired timer off its list and posts an event to the main thread, which *)
(* handles it later, when another Add may already have re-armed the timer. *)
(***************************************************************************)
EXTENDS Naturals

CONSTANTS
    Pairs,        \* the (calling domain, called domain) pairs
    Timers,       \* the timer objects a session can have alive at once
    NoTimer,      \* mWriteTimer = 0
    MaxPosted,    \* bound: events of one timer waiting in the event queue
    StartupErrors \* TRUE: profile directory or file may be unreadable at start

ASSUME NoTimerAssumption == NoTimer \notin Timers
ASSUME MaxPostedAssumption == MaxPosted \in Nat \ {0}
ASSUME StartupErrorsType == StartupErrors \in BOOLEAN

VARIABLES
    phase,        \* "absent": no instance; "up"; "destroyed": the destructor ran
    mHostTable,   \* pair |-> the set of integers stored for it ({}: no entry)
    mChangedList, \* the table changed since it was read or written
    mWriteTimer,  \* the timer the manager holds
    mPermissionsFile, \* the manager knows where its file is
    armed,        \* the timers in the timer thread's list
    posted,       \* timer |-> its events in the main thread's queue
    file,         \* pair |-> the permissions its line in the file names
    fileExists,   \* the file is there
    writeFailed,  \* history: the last write since the last Add failed
    readAll       \* history: this session read the whole file at its start

manager == <<mHostTable, mChangedList, mWriteTimer, mPermissionsFile>>
timing  == <<armed, posted>>
disk    == <<file, fileExists>>
history == <<writeFailed, readAll>>
vars    == <<phase, manager, timing, disk, history>>

-----------------------------------------------------------------------------
(***************************************************************************)
(* Permissions.  Add stores the integer it is given next to those already  *)
(* there.  The callers add ALLOW_CONNECT and DENY_CONNECT; a line written  *)
(* for a pair with both of them reads "12", and that is the third integer  *)
(* that can get into the table.                                            *)
(***************************************************************************)
ALLOW_CONNECT == 1
DENY_CONNECT  == 2
BothDigits    == 12

Answers == {ALLOW_CONNECT, DENY_CONNECT}
Stored  == Answers \cup {BothDigits}

EmptyTable == [p \in Pairs |-> {}]
EmptyFile  == [p \in Pairs |-> {}]
NonePosted == [t \in Timers |-> 0]

\* TestPermission on a set of stored integers, 0 being UNKNOWN_CONNECT.
TestPermission(set) ==
    IF DENY_CONNECT \in set THEN DENY_CONNECT
    ELSE IF ALLOW_CONNECT \in set THEN ALLOW_CONNECT
    ELSE 0

\* Mutant: Write prints every stored integer.
LineOfAll(set) == set

\* The third field Write prints for a set: the digits of the answers in it,
\* nothing for any other integer.
Line(set) == set \cap Answers

\* Mutant: Read takes the error flag of ToInteger the wrong way round.
ParsedNever(line) == {}

\* The set Read makes of a third field: one integer, or no entry where the
\* field is empty (the line then has two parts).
Parsed(line) ==
    IF line = {} THEN {}
    ELSE IF line = Answers THEN {BothDigits}
    ELSE line

Contents(tab) == [p \in Pairs |-> Line(tab[p])]

TypeOK ==
    /\ phase \in {"absent", "up", "destroyed"}
    /\ mHostTable \in [Pairs -> SUBSET Stored]
    /\ mChangedList \in BOOLEAN
    /\ mWriteTimer \in Timers \cup {NoTimer}
    /\ mPermissionsFile \in BOOLEAN
    /\ armed \subseteq Timers
    /\ posted \in [Timers -> 0 .. MaxPosted]
    /\ file \in [Pairs -> SUBSET Answers]
    /\ fileExists \in BOOLEAN
    /\ writeFailed \in BOOLEAN
    /\ readAll \in BOOLEAN

-----------------------------------------------------------------------------

Init ==
    /\ phase = "absent"
    /\ mHostTable = EmptyTable
    /\ mChangedList = FALSE
    /\ mWriteTimer = NoTimer
    /\ mPermissionsFile = FALSE
    /\ armed = {}
    /\ posted = NonePosted
    /\ file = EmptyFile
    /\ fileExists = FALSE
    /\ writeFailed = FALSE
    /\ readAll = FALSE

\* A timer object nobody refers to any more, or a new one.
FreeTimers == {t \in Timers : t \notin armed /\ posted[t] = 0}

\* Mutant: the new timer is never initialised.
LazyWriteUninitialised ==
    \/ /\ mWriteTimer # NoTimer
       /\ armed' = armed \cup {mWriteTimer}
       /\ UNCHANGED mWriteTimer
    \/ /\ mWriteTimer = NoTimer
       /\ mWriteTimer' \in FreeTimers
       /\ UNCHANGED armed

\* LazyWrite: start the two-second delay again, or create a timer.  SetDelay
\* puts the timer back in the timer thread's list, also when the timer has
\* already been taken off the list and its event waits in the queue.
LazyWrite ==
    \/ /\ mWriteTimer # NoTimer
       /\ armed' = armed \cup {mWriteTimer}
       /\ UNCHANGED mWriteTimer
    \/ /\ mWriteTimer = NoTimer
       /\ \E t \in FreeTimers :
             /\ mWriteTimer' = t
             /\ armed' = armed \cup {t}

\* Mutant: the write is only scheduled for a pair that is new in the table.
AddSchedulesNewPairs(p, permission) ==
    /\ phase = "up"
    /\ mHostTable' = [mHostTable EXCEPT ![p] = @ \cup {permission}]
    /\ mChangedList' = TRUE
    /\ IF mHostTable[p] = {} THEN LazyWrite ELSE UNCHANGED <<mWriteTimer, armed>>
    /\ writeFailed' = FALSE
    /\ UNCHANGED <<phase, mPermissionsFile, posted, disk, readAll>>

\* Mutant: the new answer replaces the old one.
AddReplaces(p, permission) ==
    /\ phase = "up"
    /\ mHostTable' = [mHostTable EXCEPT ![p] = {permission}]
    /\ mChangedList' = TRUE
    /\ LazyWrite
    /\ writeFailed' = FALSE
    /\ UNCHANGED <<phase, mPermissionsFile, posted, disk, readAll>>

\* add(fromHost, toHost, permission).
Add(p, permission) ==
    /\ phase = "up"
    /\ mHostTable' = [mHostTable EXCEPT ![p] = @ \cup {permission}]
    /\ mChangedList' = TRUE
    /\ LazyWrite
    /\ writeFailed' = FALSE
    /\ UNCHANGED <<phase, mPermissionsFile, posted, disk, readAll>>

\* The timer thread: the delay is over, the timer leaves the list and an
\* event for it is posted to the main thread.
TimerExpires(t) ==
    /\ t \in armed
    /\ posted[t] < MaxPosted
    /\ armed' = armed \ {t}
    /\ posted' = [posted EXCEPT ![t] = @ + 1]
    /\ UNCHANGED <<phase, manager, disk, history>>

\* Write has nothing to do.
WriteSkips ==
    /\ ~mChangedList
    /\ UNCHANGED <<mChangedList, disk, writeFailed>>

\* Mutant: the change flag goes down although Finish() failed.
WriteFailsSilently ==
    /\ mChangedList
    /\ writeFailed' = TRUE
    /\ mChangedList' = FALSE
    /\ UNCHANGED disk

\* Write gives up: no file, no stream, or Finish() reports an error and
\* leaves the old file alone.
WriteFails ==
    /\ mChangedList
    /\ writeFailed' = TRUE
    /\ UNCHANGED <<mChangedList, disk>>

\* Write replaces the file.
WriteSucceeds ==
    /\ mChangedList
    /\ mPermissionsFile
    /\ file' = Contents(mHostTable)
    /\ fileExists' = TRUE
    /\ mChangedList' = FALSE
    /\ writeFailed' = FALSE

Write == WriteSkips \/ WriteFails \/ WriteSucceeds

\* The main thread handles an event of timer t: Write(), then mWriteTimer = 0.
\* A timer whose last reference is the timer thread's list is cancelled when
\* that other reference goes (nsTimerImpl::Release): the one mWriteTimer held,
\* and t itself once its event is destroyed.
DoLazyWrite(t) ==
    /\ phase = "up"
    /\ posted[t] > 0
    /\ Write
    /\ mWriteTimer' = NoTimer
    /\ posted' = [posted EXCEPT ![t] = @ - 1]
    /\ armed' = {u \in armed : posted'[u] > 0}
    /\ UNCHANGED <<phase, mHostTable, mPermissionsFile, readAll>>

\* Create and Init: build the table from the lines of the file.  Every line
\* goes through Add, so the timer is armed if there is one, and the change flag
\* is reset at the end.  An error of Read is ignored: the table then has the
\* lines read so far.
Create ==
    /\ phase = "absent"
    /\ phase' = "up"
    /\ mPermissionsFile' \in (IF StartupErrors THEN BOOLEAN ELSE {TRUE})
    /\ \E S \in IF StartupErrors THEN SUBSET Pairs ELSE {Pairs} :
          /\ ~mPermissionsFile' => S = {}
          /\ mHostTable' = [p \in Pairs |-> IF p \in S THEN Parsed(file[p]) ELSE {}]
          /\ readAll' = (S = Pairs)
    /\ mChangedList' = FALSE
    /\ IF mHostTable' = EmptyTable
       THEN mWriteTimer' = NoTimer /\ armed' = armed
       ELSE LazyWrite
    /\ writeFailed' = FALSE
    /\ UNCHANGED <<posted, disk>>

\* Mutant: the destructor writes the table after emptying it.
DestroyWritesEmptyTable ==
    /\ phase = "up"
    /\ phase' = "destroyed"
    /\ mHostTable' = EmptyTable
    /\ mChangedList' = TRUE
    /\ mWriteTimer' = NoTimer
    /\ armed' = armed \ {mWriteTimer}
    /\ posted' = [t \in Timers |-> IF t = mWriteTimer THEN 0 ELSE posted[t]]
    /\ file' = EmptyFile
    /\ UNCHANGED <<mPermissionsFile, fileExists, history>>

\* The destructor: Cancel() takes the timer off the list and makes its waiting
\* events do nothing; the table is emptied (which marks it changed); the file
\* is not written.
Destroy ==
    /\ phase = "up"
    /\ phase' = "destroyed"
    /\ mHostTable' = EmptyTable
    /\ mChangedList' = TRUE
    /\ mWriteTimer' = NoTimer
    /\ armed' = armed \ {mWriteTimer}
    /\ posted' = [t \in Timers |-> IF t = mWriteTimer THEN 0 ELSE posted[t]]
    /\ UNCHANGED <<mPermissionsFile, disk, history>>

\* The memory of the process is gone.
ProcessGone ==
    /\ phase' = "absent"
    /\ mHostTable' = EmptyTable
    /\ mChangedList' = FALSE
    /\ mWriteTimer' = NoTimer
    /\ mPermissionsFile' = FALSE
    /\ armed' = {}
    /\ posted' = NonePosted
    /\ writeFailed' = FALSE
    /\ readAll' = FALSE

\* The process ends after the destructor, or dies at any moment before it.
Exit ==
    /\ phase # "absent"
    /\ ProcessGone
    /\ UNCHANGED disk

\* The process dies inside Write.  Where the file already exists the new
\* contents are in another file, which is only moved over the old one at the
\* end; the very first write goes to the file itself, and leaves complete
\* lines and at most a line cut between its two digits.
CrashInFirstWrite(t) ==
    /\ phase = "up"
    /\ posted[t] > 0
    /\ mChangedList
    /\ mPermissionsFile
    /\ ~fileExists
    /\ fileExists' = TRUE
    /\ file' \in [Pairs -> SUBSET Answers]
    /\ \A p \in Pairs :
          file'[p] \in {{}, Line(mHostTable[p]), Line(mHostTable[p]) \ {DENY_CONNECT}}
    /\ ProcessGone

Next ==
    \/ \E p \in Pairs, permission \in Answers : Add(p, permission)
    \/ \E t \in Timers : TimerExpires(t)
    \/ \E t \in Timers : DoLazyWrite(t)
    \/ Create
    \/ Destroy
    \/ Exit
    \/ \E t \in Timers : CrashInFirstWrite(t)

Spec == Init /\ [][Next]_vars

\* The timer thread serves its list and the main thread its event queue.
Fairness ==
    \A t \in Timers : WF_vars(TimerExpires(t)) /\ WF_vars(DoLazyWrite(t))

FairSpec == Spec /\ Fairness

-----------------------------------------------------------------------------
(***************************************************************************)
(* Safety.                                                                 *)
(***************************************************************************)

\* An answer that is not yet in the file is on its way there: whenever the
\* table has changed and no write has failed since, the manager holds a timer
\* that is in the timer thread's list or has an event in the queue, whatever
\* stray events of earlier timers have done to mWriteTimer in between
\* (LazyWrite, DoLazyWrite).
UnsavedHasTimer ==
    phase = "up" /\ mChangedList /\ ~writeFailed =>
        /\ mWriteTimer # NoTimer
        /\ mWriteTimer \in armed \/ posted[mWriteTimer] > 0

\* When the change flag is down, every pair with one answer in memory has that
\* answer in the file: no failed, skipped or torn write and no partial read
\* makes the manager believe that it saved what it did not (Write, Read).
NothingBelievedSavedIsLost ==
    phase = "up" /\ ~mChangedList =>
        \A p \in Pairs :
            Line(mHostTable[p]) # Answers => Line(mHostTable[p]) \subseteq file[p]

\* While the service lives, a permanent answer is never taken back: what
\* TestPermission returns for a pair only moves from unknown to an answer and
\* from allow to deny (Add keeps the sets, TestPermission lets deny win).
AnswersNeverWeaken ==
    [][phase = "up" /\ phase' = "up" =>
          \A p \in Pairs :
              TestPermission(mHostTable'[p]) >= TestPermission(mHostTable[p])]_vars

\* In a session that read the whole file, a write never drops a single answer
\* from the file (Read at start-up and Write together).
WritesKeepStoredAnswers ==
    [][phase = "up" /\ phase' = "up" /\ readAll =>
          \A p \in Pairs : file[p] \subseteq file'[p] \/ file[p] = Answers]_vars

(***************************************************************************)
(* Liveness.                                                               *)
(***************************************************************************)

\* Once the user stops giving permanent answers, the changed table reaches the
\* file unless a write fails or the session ends first (the delay may start
\* again with every Add, so without the premise a write can be put off).
SavedEventually ==
    (<>[][\A p \in Pairs, permission \in Answers : ~Add(p, permission)]_vars)
        => ((phase = "up" /\ mChangedList)
                ~> (phase # "up" \/ ~mChangedList \/ writeFailed))

-----------------------------------------------------------------------------
(***************************************************************************)
(* Refinement: the table and the file as the abstract store sees them.     *)
(***************************************************************************)
RuleOf(set) ==
    IF Answers \subseteq set THEN "both"
    ELSE IF DENY_CONNECT \in set THEN "deny"
    ELSE IF ALLOW_CONNECT \in set THEN "allow"
    ELSE "unknown"

Store == INSTANCE XSSDecisionStore WITH
    open  <- (phase = "up"),
    rules <- [p \in Pairs |-> RuleOf(mHostTable[p])],
    saved <- [p \in Pairs |-> RuleOf(Parsed(file[p]))]

\* The permission manager implements the store its interface promises.
ImplementsStore == Store!DSpec

-----------------------------------------------------------------------------
(***************************************************************************)
(* What the comments and the interface say, where the code does otherwise. *)
(***************************************************************************)

\* The interface: the manager is "used to persistenly store permissions for
\* permanent allow/deny".  An answer whose pair is in the file of a session
\* that starts without errors is still an answer: a pair for which the user
\* gave permanent answers and whose line was written is not unknown.
WrittenAnswersComeBack ==
    [][Create /\ readAll' =>
          \A p \in Pairs : file[p] # {} => TestPermission(mHostTable'[p]) # 0]_vars
=============================================================================
