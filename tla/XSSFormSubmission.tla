------------------------- MODULE XSSFormSubmission -------------------------
(***************************************************************************)
(* How one form element is submitted                                       *)
(* (content/html/content/src/nsHTMLFormElement.cpp), and what becomes of   *)
(* it while one of its submissions waits for the user's answer.            *)
(*                                                                         *)
(* Everything runs on the main thread, but other code gets its turn in the *)
(* middle of the form's methods: scripts in click and submit handlers,     *)
(* scripts of a javascript: action, and whatever the event loop of the     *)
(* modal question (ConfirmExXSS) delivers.  All of it may call the form    *)
(* again.  The call stack is explicit: "frames" holds the calls that have  *)
(* not returned, the innermost one last, and only that one goes on.        *)
(*                                                                         *)
(* What the check in front of a submission decides is the subject of       *)
(* XSSConnectionCheck; here a check passes, rejects or asks.               *)
(***************************************************************************)
EXTENDS Integers, Sequences

CONSTANTS
    Own,       \* actions in the domain of the document
    Foreign,   \* actions in other domains
    Scripts,   \* javascript: actions
    Targets,   \* targets, each with a docshell of its own
    Requests,  \* bound: the requests in flight at once
    MaxFrames, \* bound: calls that have not returned
    MaxBuilt,  \* bound: submissions built
    None

Actions == Own \cup Foreign \cup Scripts

ASSUME ActionsAssumption ==
    /\ Own \cap Foreign = {} /\ Own \cap Scripts = {} /\ Foreign \cap Scripts = {}
    /\ Actions \cap Targets = {}
ASSUME NoneAssumption == None \notin Actions \cup Targets \cup Requests
ASSUME BoundsAssumption == MaxFrames \in Nat /\ MaxBuilt \in Nat

VARIABLES
    mIsSubmitting, mDeferSubmission, mGeneratingSubmit,
    mSubmitInitiatedFromUserInput,
    mPendingSubmission, \* the deferred submission, or None
    mSubmittingRequest, \* the request the form waits for, or None
    mWebProgress,       \* the docshell it listens to, or None
    formTainted,        \* the taint of the form element
    action, target,     \* the attributes
    inDocument,         \* mDocument is not null
    frames,             \* the calls that have not returned
    listening,          \* the docshells the form is registered with
    inFlight,           \* request |-> its docshell, or None
    built,              \* the number of submissions built
    crashed,
    lastSent,           \* history: what was handed to the docshell last
    left                \* history: the deferred submission that the handlers which
                        \* returned last have left behind, or 0

submitting == <<mIsSubmitting, mSubmittingRequest, mWebProgress, listening>>
building == <<mSubmitInitiatedFromUserInput, mPendingSubmission, formTainted, built>>
events == <<mDeferSubmission, mGeneratingSubmit, left>>
content == <<action, target, inDocument>>
vars == <<submitting, building, events, content, frames, inFlight, crashed, lastSent>>

-----------------------------------------------------------------------------

\* What BuildSubmission collects; "user" is whether user input was handled.
Submission == [number : 1..MaxBuilt, tainted : BOOLEAN, user : BOOLEAN]

\* Where other code can run: handlers, the question, javascript: actions.
Open == {"click", "event", "dialog", "javascript"}

\* The points of SubmitSubmission.
InSubmission == {"submit", "dialog", "send", "javascript"}

Places == Open \cup InSubmission \cup {"eventEnds", "flushed", "setAction", "setTarget"}

\* "value" is the URL of the action, the target or the attribute to be set,
\* "asked" the URL the user or a stored answer approved, "user" whether the call
\* handles user input.
Frame == [at : Places, sub : Submission \cup {None},
          value : Actions \cup Targets \cup {None},
          asked : Foreign \cup {None}, user : BOOLEAN]

Call(at, value, user) ==
    [at |-> at, sub |-> None, value |-> value, asked |-> None, user |-> user]
Submit(sub) ==
    [at |-> "submit", sub |-> sub, value |-> None, asked |-> None, user |-> FALSE]

\* "scripted": tainted and not started by the user.
Sent == [to : Actions, asked : Foreign \cup {None}, scripted : BOOLEAN]

TypeOK ==
    /\ mIsSubmitting \in BOOLEAN /\ mDeferSubmission \in BOOLEAN
    /\ mGeneratingSubmit \in BOOLEAN /\ mSubmitInitiatedFromUserInput \in BOOLEAN
    /\ mPendingSubmission \in Submission \cup {None}
    /\ mSubmittingRequest \in Requests \cup {None}
    /\ mWebProgress \in Targets \cup {None}
    /\ formTainted \in BOOLEAN
    /\ action \in Actions /\ target \in Targets /\ inDocument \in BOOLEAN
    /\ frames \in Seq(Frame) /\ Len(frames) <= MaxFrames
    /\ listening \in SUBSET Targets
    /\ inFlight \in [Requests -> Targets \cup {None}]
    /\ built \in 0..MaxBuilt
    /\ crashed \in BOOLEAN
    /\ lastSent \in Sent \cup {None}
    /\ left \in 0..MaxBuilt

Init ==
    /\ mIsSubmitting = FALSE /\ mDeferSubmission = FALSE
    /\ mGeneratingSubmit = FALSE /\ mSubmitInitiatedFromUserInput = FALSE
    /\ mPendingSubmission = None
    /\ mSubmittingRequest = None /\ mWebProgress = None
    /\ formTainted = FALSE
    /\ action \in Actions /\ target \in Targets /\ inDocument = TRUE
    /\ frames = <<>>
    /\ listening = {}
    /\ inFlight = [r \in Requests |-> None]
    /\ built = 0
    /\ crashed = FALSE
    /\ lastSent = None
    /\ left = 0

-----------------------------------------------------------------------------
(***************************************************************************)
(* The call stack.                                                         *)
(***************************************************************************)

Top == frames[Len(frames)]
At(place) == ~crashed /\ frames # <<>> /\ Top.at = place
Callers == SubSeq(frames, 1, Len(frames) - 1)

\* Other code runs, and there is room for n more calls: the call it makes and
\* those that follow when its handlers return, so that the bound lets every
\* call return.
OthersRun(n) ==
    /\ ~crashed
    /\ frames # <<>> => Top.at \in Open
    /\ Len(frames) + n <= MaxFrames

\* IsHandlingUserInput: a counter that a nested event loop leaves alone.
HandlingUserInput == \E i \in DOMAIN frames : frames[i].user

-----------------------------------------------------------------------------
(***************************************************************************)
(* The parts of the actions.                                               *)
(***************************************************************************)

ForgetCurrentSubmission ==
    /\ mIsSubmitting' = FALSE
    /\ mSubmittingRequest' = None
    /\ mWebProgress' = None
    /\ listening' = listening \ {mWebProgress}

\* SubmitSubmission gives up and leaves the request and the listener alone.
StopSubmitting ==
    /\ mIsSubmitting' = FALSE
    /\ UNCHANGED <<mSubmittingRequest, mWebProgress, listening>>

\* DoSubmit: "pending" is the deferred submission its caller has left,
\* "deferred" the value of mDeferSubmission.
DoSubmit(tainted, user, pending, deferred, callers) ==
    IF mIsSubmitting
    THEN /\ mPendingSubmission' = pending
         /\ frames' = callers
         /\ UNCHANGED <<submitting, mSubmitInitiatedFromUserInput, formTainted, built>>
    ELSE LET sub == [number |-> built + 1, tainted |-> tainted, user |-> user]
         IN /\ built < MaxBuilt
            /\ built' = built + 1
            /\ formTainted' = (formTainted \/ tainted)
            /\ mSubmitInitiatedFromUserInput' = user
            /\ mPendingSubmission' = IF deferred THEN sub ELSE pending
            /\ mIsSubmitting' = ~deferred
            /\ frames' = IF deferred THEN callers ELSE Append(callers, Submit(sub))
            /\ UNCHANGED <<mSubmittingRequest, mWebProgress, listening>>

\* What may follow when the handlers of an event return.
Follows == {"submit", "flush", "nothing"}

\* The deferred submission, which handlers leave behind if nothing follows.
PendingNumber == IF mPendingSubmission = None THEN 0 ELSE mPendingSubmission.number

\* FlushPendingSubmission, the two calls it has in front of it.
Flush(callers) ==
    frames' = IF mPendingSubmission = None THEN callers
              ELSE Append(Append(callers, Call("flushed", None, FALSE)),
                          Submit(mPendingSubmission))

-----------------------------------------------------------------------------
(***************************************************************************)
(* What scripts and the user do to the form.                               *)
(***************************************************************************)

\* Mutant: the older submission stays.
SubmitKeepsPending(tainted, user) ==
    /\ OthersRun(1) /\ inDocument
    /\ DoSubmit(tainted, user \/ HandlingUserInput, mPendingSubmission, mDeferSubmission, frames)
    /\ UNCHANGED <<events, content, inFlight, crashed, lastSent>>

\* form.submit(), also from the handler of an event of another window.
ScriptSubmits(tainted, user) ==
    /\ OthersRun(1) /\ inDocument
    /\ DoSubmit(tainted, user \/ HandlingUserInput, None, mDeferSubmission, frames)
    /\ left' = 0
    /\ UNCHANGED <<mDeferSubmission, mGeneratingSubmit, content, inFlight, crashed, lastSent>>

\* SetAttr for the action or the target: a deferred submission goes out with
\* the old value first.
SetAttr(place, value) ==
    /\ OthersRun(3)
    /\ \/ place = "setAction" /\ value \in Actions
       \/ place = "setTarget" /\ value \in Targets
    /\ Flush(Append(frames, Call(place, value, FALSE)))
    /\ UNCHANGED <<submitting, building, events, content, inFlight, crashed, lastSent>>

\* Mutant: the two attributes are mixed up.
SetAttrEndsMixedUp(tainted) ==
    /\ At("setAction") \/ At("setTarget")
    /\ ForgetCurrentSubmission
    /\ action' = IF Top.at = "setTarget" THEN Top.value ELSE action
    /\ target' = IF Top.at = "setAction" THEN Top.value ELSE target
    /\ formTainted' = (formTainted \/ tainted)
    /\ frames' = Callers
    /\ UNCHANGED <<mSubmitInitiatedFromUserInput, mPendingSubmission, built, events,
                   inDocument, inFlight, crashed, lastSent>>

\* Its second half; the value may carry taint.
SetAttrEnds(tainted) ==
    /\ At("setAction") \/ At("setTarget")
    /\ ForgetCurrentSubmission
    /\ action' = IF Top.at = "setAction" THEN Top.value ELSE action
    /\ target' = IF Top.at = "setTarget" THEN Top.value ELSE target
    /\ formTainted' = (formTainted \/ tainted)
    /\ frames' = Callers
    /\ UNCHANGED <<mSubmitInitiatedFromUserInput, mPendingSubmission, built, events,
                   inDocument, inFlight, crashed, lastSent>>

\* SetDocument: the form leaves its document or comes back.
SetDocument ==
    /\ OthersRun(0)
    /\ inDocument' = ~inDocument
    /\ IF inDocument THEN ForgetCurrentSubmission ELSE UNCHANGED submitting
    /\ UNCHANGED <<building, events, action, target, frames, inFlight, crashed, lastSent>>

\* The submit event: HandleDOMEvent up to its handlers.  Recursive calls are
\* ignored.
SubmitEvent(user) ==
    /\ OthersRun(3) /\ ~mGeneratingSubmit
    /\ mGeneratingSubmit' = TRUE
    /\ mDeferSubmission' = TRUE
    /\ frames' = Append(frames, Call("event", None, user))
    /\ UNCHANGED <<submitting, building, content, inFlight, crashed, lastSent, left>>

\* The handlers return.  A deferred submission is forgotten and a new one built
\* ("submit"), or flushed if they cancelled the event ("flush"); if one of them
\* failed it stays where it is ("nothing").
SubmitHandlersReturn(follows, tainted) ==
    LET callers == Append(Callers, Call("eventEnds", None, Top.user))
    IN /\ At("event")
       /\ mDeferSubmission' = FALSE
       /\ \/ /\ follows = "submit"
             /\ Len(frames) + 1 <= MaxFrames
             /\ DoSubmit(tainted, HandlingUserInput, None, FALSE, callers)
             /\ left' = 0
          \/ /\ follows = "flush"
             /\ Len(frames) + 2 <= MaxFrames
             /\ Flush(callers)
             /\ left' = 0
             /\ UNCHANGED <<submitting, building>>
          \/ /\ follows = "nothing"
             /\ frames' = callers
             /\ left' = PendingNumber
             /\ UNCHANGED <<submitting, building>>
       /\ UNCHANGED <<mGeneratingSubmit, content, inFlight, crashed, lastSent>>

\* HandleDOMEvent returns.
SubmitEventEnds ==
    /\ At("eventEnds")
    /\ mGeneratingSubmit' = FALSE
    /\ frames' = Callers
    /\ UNCHANGED <<submitting, building, mDeferSubmission, content, inFlight, crashed, lastSent,
                   left>>

\* A click on a submit button of the form, up to its handlers.
Click(user) ==
    /\ OthersRun(3)
    /\ mDeferSubmission' = TRUE
    /\ frames' = Append(frames, Call("click", None, user))
    /\ UNCHANGED <<submitting, building, mGeneratingSubmit, content, inFlight, crashed, lastSent,
                   left>>

\* The handlers return and have left the button in the form, which ends the
\* deferral.  The submit event follows ("submit"), unless the form handles one
\* already; a deferred submission is flushed ("flush") if they cancelled the click or
\* an input is no submit button any more; and "nothing" follows if one of them failed,
\* the pres shell is gone or a button element is no submit button any more.
ClickHandlersReturn(follows) ==
    /\ At("click")
    /\ \/ /\ follows = "submit" /\ ~mGeneratingSubmit
          /\ frames' = Append(Callers, Call("event", None, Top.user))
          /\ mGeneratingSubmit' = TRUE
          /\ mDeferSubmission' = TRUE
          /\ left' = 0
       \/ /\ follows = "submit" /\ mGeneratingSubmit
          /\ frames' = Callers
          /\ mDeferSubmission' = FALSE
          /\ UNCHANGED <<mGeneratingSubmit, left>>
       \/ /\ follows = "flush"
          /\ Len(frames) + 1 <= MaxFrames
          /\ Flush(Callers)
          /\ mDeferSubmission' = FALSE
          /\ left' = 0
          /\ UNCHANGED mGeneratingSubmit
       \/ /\ follows = "nothing"
          /\ frames' = Callers
          /\ mDeferSubmission' = FALSE
          /\ left' = PendingNumber
          /\ UNCHANGED mGeneratingSubmit
    /\ UNCHANGED <<submitting, building, content, inFlight, crashed, lastSent>>

\* The handlers have removed the button: it has no form any more and can
\* neither end the deferral nor flush.
ClickHandlersRemoveButton ==
    /\ At("click")
    /\ frames' = Callers
    /\ UNCHANGED <<submitting, building, events, content, inFlight, crashed, lastSent>>

-----------------------------------------------------------------------------
(***************************************************************************)
(* SubmitSubmission.                                                       *)
(***************************************************************************)

\* GetActionURL: without a document there is no action, and a URL that must not
\* be loaded is an error.
ActionIsMissing ==
    /\ At("submit")
    /\ \/ ~inDocument /\ StopSubmitting
       \/ inDocument /\ ForgetCurrentSubmission
    /\ frames' = Callers
    /\ UNCHANGED <<building, events, content, inFlight, crashed, lastSent>>

\* Only tainted submissions that were not started by the user are in question.
MustBeAsked ==
    /\ action \in Foreign
    /\ Top.sub.tainted \/ formTainted
    /\ ~mSubmitInitiatedFromUserInput

\* The top call goes on at another place, with the action as its URL.
GoOn(place, asked) ==
    frames' = Append(Callers, [Top EXCEPT !.at = place, !.value = action, !.asked = asked])

\* Nothing to ask about, or a stored answer lets the submission pass.
CheckPasses ==
    /\ At("submit") /\ inDocument
    /\ GoOn("send", IF MustBeAsked THEN action ELSE None)
    /\ UNCHANGED <<submitting, building, events, content, inFlight, crashed, lastSent>>

\* A stored answer stops the submission.
CheckRejects ==
    /\ At("submit") /\ inDocument /\ action \in Foreign
    /\ StopSubmitting
    /\ frames' = Callers
    /\ UNCHANGED <<building, events, content, inFlight, crashed, lastSent>>

\* The question is put to the user.
CheckAsks ==
    /\ At("submit") /\ inDocument /\ MustBeAsked
    /\ GoOn("dialog", None)
    /\ UNCHANGED <<submitting, building, events, content, inFlight, crashed, lastSent>>

\* Mutant: the action is read again after the question.
UserAllowsRereads ==
    /\ At("dialog")
    /\ frames' = Append(Callers, [Top EXCEPT !.at = "send", !.value = action,
                                             !.asked = Top.value])
    /\ UNCHANGED <<submitting, building, events, content, inFlight, crashed, lastSent>>

\* The answer is yes; the submission goes on with the URL it has asked about.
UserAllows ==
    /\ At("dialog")
    /\ frames' = Append(Callers, [Top EXCEPT !.at = "send", !.asked = Top.value])
    /\ UNCHANGED <<submitting, building, events, content, inFlight, crashed, lastSent>>

\* Mutant: the denied form stays marked as submitting.
UserDeniesKeepsMark ==
    /\ At("dialog")
    /\ frames' = Callers
    /\ UNCHANGED <<submitting, building, events, content, inFlight, crashed, lastSent>>

\* The answer is no, or there is none.
UserDenies ==
    /\ At("dialog")
    /\ StopSubmitting
    /\ frames' = Callers
    /\ UNCHANGED <<building, events, content, inFlight, crashed, lastSent>>

\* The observers cancel the submission.
ObserversCancel ==
    /\ At("send") /\ inDocument
    /\ StopSubmitting
    /\ frames' = Callers
    /\ UNCHANGED <<building, events, content, inFlight, crashed, lastSent>>

\* NotifySubmitObservers calls mDocument without looking.
NoDocumentForObservers ==
    /\ At("send") /\ ~inDocument
    /\ crashed' = TRUE
    /\ UNCHANGED <<submitting, building, events, content, frames, inFlight, lastSent>>

Record == lastSent' = [to |-> Top.value, asked |-> Top.asked,
                       scripted |-> Top.sub.tainted /\ ~Top.sub.user]

\* What follows SubmitTo with request r at docshell t: the form waits for it.
\* Where it is registered already, AddProgressListener fails.
Listen(r, t) ==
    /\ inFlight' = [inFlight EXCEPT ![r] = t]
    /\ IF t \in listening
       THEN /\ mIsSubmitting' = FALSE
            /\ mSubmittingRequest' = None
            /\ mWebProgress' = None
            /\ listening' = listening \ {t}
       ELSE /\ mSubmittingRequest' = r
            /\ mWebProgress' = t
            /\ listening' = listening \cup {t}
            /\ UNCHANGED mIsSubmitting

\* SubmitTo fails, or finds no docshell, or its request is answered already.
SentWithoutRequest ==
    /\ At("send") /\ inDocument /\ Top.value \notin Scripts
    /\ Record
    /\ ForgetCurrentSubmission
    /\ frames' = Callers
    /\ UNCHANGED <<building, events, content, inFlight, crashed>>

\* SubmitTo leaves a pending request.
SentWithRequest(r) ==
    /\ At("send") /\ inDocument /\ Top.value \notin Scripts
    /\ inFlight[r] = None
    /\ Record
    /\ Listen(r, target)
    /\ frames' = Callers
    /\ UNCHANGED <<building, events, content, crashed>>

\* SubmitTo runs a javascript: action, and keeps the target it has read.
\* "they may synchronously call submit()".
ScriptActionRuns ==
    /\ At("send") /\ inDocument /\ Top.value \in Scripts
    /\ Record
    /\ mIsSubmitting' = FALSE
    /\ mSubmittingRequest' = None
    /\ frames' = Append(Callers,
                    [Top EXCEPT !.at = "javascript", !.value = target,
                                !.user = mSubmitInitiatedFromUserInput])
    /\ UNCHANGED <<mWebProgress, listening, building, events, content, inFlight, crashed>>

\* The script returns; its result may be a document that is loaded.
ScriptActionEnds ==
    /\ At("javascript")
    /\ \/ ForgetCurrentSubmission /\ UNCHANGED inFlight
       \/ \E r \in Requests : inFlight[r] = None /\ Listen(r, Top.value)
    /\ frames' = Callers
    /\ UNCHANGED <<building, events, content, crashed, lastSent>>


\* FlushPendingSubmission returns.
FlushEnds ==
    /\ At("flushed")
    /\ mPendingSubmission' = None
    /\ frames' = Callers
    /\ left' = 0
    /\ UNCHANGED <<submitting, mSubmitInitiatedFromUserInput, formTainted, built,
                   mDeferSubmission, mGeneratingSubmit, content, inFlight, crashed, lastSent>>

\* A request stops, and OnStateChange is told if the form is registered.
RequestStops(r) ==
    /\ OthersRun(0)
    /\ inFlight[r] # None
    /\ inFlight' = [inFlight EXCEPT ![r] = None]
    /\ IF inFlight[r] \in listening /\ r = mSubmittingRequest
       THEN ForgetCurrentSubmission
       ELSE UNCHANGED submitting
    /\ UNCHANGED <<building, events, content, frames, crashed, lastSent>>

PageActs ==
    \/ \E tainted, user \in BOOLEAN : ScriptSubmits(tainted, user)
    \/ \E value \in Actions \cup Targets, place \in {"setAction", "setTarget"} :
          SetAttr(place, value)
    \/ SetDocument
    \/ \E user \in BOOLEAN : SubmitEvent(user) \/ Click(user)

CallsReturn ==
    \/ \E tainted \in BOOLEAN : SetAttrEnds(tainted)
    \/ \E follows \in Follows, tainted \in BOOLEAN : SubmitHandlersReturn(follows, tainted)
    \/ SubmitEventEnds
    \/ \E follows \in Follows : ClickHandlersReturn(follows)
    \/ ClickHandlersRemoveButton
    \/ FlushEnds

SubmissionGoesOn ==
    \/ ActionIsMissing \/ CheckPasses \/ CheckRejects \/ CheckAsks
    \/ UserAllows \/ UserDenies
    \/ ObserversCancel \/ NoDocumentForObservers
    \/ SentWithoutRequest \/ ScriptActionRuns \/ ScriptActionEnds
    \/ \E r \in Requests : SentWithRequest(r)

Next ==
    \/ PageActs
    \/ CallsReturn
    \/ SubmissionGoesOn
    \/ \E r \in Requests : RequestStops(r)

Spec == Init /\ [][Next]_vars

\* The innermost call of n goes on or returns.
CallAt(n) == Len(frames) = n /\ (CallsReturn \/ SubmissionGoesOn)

\* No call goes on for ever, however often other code runs inside of it: the
\* engine stops a script that runs too long, an open question gets its answer
\* from the queue of events, which is served in order, and so does a request
\* that stops.
Fairness ==
    /\ \A n \in 1..MaxFrames : SF_vars(CallAt(n))
    /\ \A r \in Requests : SF_vars(RequestStops(r))

FairSpec == Spec /\ Fairness

-----------------------------------------------------------------------------
(***************************************************************************)
(* Properties.                                                             *)
(***************************************************************************)

\* The form listens for the end of a request that is in flight.
Waiting ==
    /\ mSubmittingRequest # None
    /\ mWebProgress \in listening
    /\ inFlight[mSubmittingRequest] = mWebProgress

\* What goes to another domain, tainted and not started by the user, goes to
\* the very URL that was approved for it, whatever scripts did to the form's
\* attributes, its other submissions and the flag
\* mSubmitInitiatedFromUserInput, of which there is one per form, in between.
ScriptedLeaksAreAsked ==
    lastSent # None =>
        (lastSent.to \in Foreign /\ lastSent.scripted => lastSent.asked = lastSent.to)

\* The form stays usable: outside of all calls it is marked as submitting only
\* while it listens for the end of a request that is in flight, and never as
\* generating a submit event.
FormStaysUsable ==
    frames = <<>> /\ ~crashed =>
        /\ ~mGeneratingSubmit
        /\ mIsSubmitting => Waiting

\* "if there are scripted submissions, the latest one will be deferred": a
\* deferred submission is the one built last, so the form's flags are its own.
LatestIsDeferred ==
    mPendingSubmission # None =>
        /\ mPendingSubmission.number = built
        /\ mPendingSubmission.user = mSubmitInitiatedFromUserInput

\* A form that is submitting becomes free again, whatever becomes of the
\* question, the request and the calls in between.
FormComesFree == mIsSubmitting ~> ~mIsSubmitting \/ crashed

\* Outside of all calls submissions are deferred: the form's last click handler
\* has removed the button.
DeferralIsLeft == frames = <<>> /\ mDeferSubmission

\* Outside of all calls submission n is deferred, because handlers failed, lost
\* their pres shell or changed their button to another type.
IsLeftBehind(n) == frames = <<>> /\ left = n


-----------------------------------------------------------------------------
(***************************************************************************)
(* The inductive invariant behind these properties.                        *)
(***************************************************************************)

\* What each call carries.
FrameOK(f) ==
    /\ f.at \in InSubmission => f.sub \in Submission
    /\ f.at = "dialog" => f.value \in Foreign
    /\ f.at = "send" =>
          /\ f.value \in Actions
          /\ f.value \in Foreign /\ f.sub.tainted /\ ~f.sub.user => f.asked = f.value
    /\ f.at = "setAction" => f.value \in Actions
    /\ f.at \in {"setTarget", "javascript"} => f.value \in Targets

\* Where no other code runs: only the top call can be there.
Busy == {"submit", "send"}

\* The submit event is being handled.
InEvent == {"event", "eventEnds"}

Has(fs, places) == \E i \in 1..Len(fs) : fs[i].at \in places

FramesOK(fs) ==
    /\ fs \in Seq(Frame)
    /\ \A i \in 1..Len(fs) : FrameOK(fs[i])
    /\ \A i \in 1..Len(fs) : fs[i].at \in Busy => i = Len(fs)
    /\ \A i, j \in 1..Len(fs) : fs[i].at \in InEvent /\ fs[j].at \in InEvent => i = j

IInv ==
    /\ TypeOK
    /\ FramesOK(frames)
    /\ frames # <<>> /\ Top.at = "submit" => mSubmitInitiatedFromUserInput = Top.sub.user
    /\ LatestIsDeferred
    /\ mGeneratingSubmit <=> Has(frames, InEvent)
    /\ mIsSubmitting => Has(frames, InSubmission) \/ Waiting
    /\ ScriptedLeaksAreAsked

-----------------------------------------------------------------------------
(***************************************************************************)
(* What a comment of the code says and the code does not do.               *)
(***************************************************************************)

\* "No doc means don't submit": the document is there wherever it is used.
NoDocumentMeansNoSubmission == ~crashed

=============================================================================
