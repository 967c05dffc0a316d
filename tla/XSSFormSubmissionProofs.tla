---------------------- MODULE XSSFormSubmissionProofs ----------------------
(***************************************************************************)
(* Proofs about XSSFormSubmission, for any number of nested calls,         *)
(* submissions, requests and targets.                                      *)
(*                                                                         *)
(* The call stack changes at its end only, so the proofs rest on two       *)
(* lemmas: what holds of the callers when the top call is taken off, and   *)
(* what has to hold of a call that is put on.                              *)
(***************************************************************************)
EXTENDS XSSFormSubmission, SequenceTheorems, TLAPS

USE ActionsAssumption, NoneAssumption, BoundsAssumption

\* No call can be put on a busy one.
NotBusy(fs) == fs = <<>> \/ fs[Len(fs)].at \notin Busy

\* The check of a submission looks at the flag of the right submission.
FlagIsRight(fs, user) ==
    fs # <<>> /\ fs[Len(fs)].at = "submit" => user = fs[Len(fs)].sub.user

-----------------------------------------------------------------------------
(***************************************************************************)
(* The call stack.                                                         *)
(***************************************************************************)

\* Taking the top call off a stack: the callers are in order, none is busy.
LEMMA PopFrames ==
    ASSUME NEW fs, FramesOK(fs), fs # <<>>
    PROVE  LET cs == SubSeq(fs, 1, Len(fs) - 1)
           IN /\ FramesOK(cs) /\ NotBusy(cs)
              /\ Len(cs) = Len(fs) - 1
              /\ fs[Len(fs)] \in Frame /\ FrameOK(fs[Len(fs)])
              /\ fs[Len(fs)].at \in InEvent => ~Has(cs, InEvent)
              /\ Has(fs, InEvent) <=> Has(cs, InEvent) \/ fs[Len(fs)].at \in InEvent
              /\ Has(fs, InSubmission) <=>
                    Has(cs, InSubmission) \/ fs[Len(fs)].at \in InSubmission
  <1> DEFINE cs == SubSeq(fs, 1, Len(fs) - 1)
  <1>1. fs \in Seq(Frame) /\ Len(fs) \in Nat \ {0}
    BY DEF FramesOK
  <1>2. cs \in Seq(Frame) /\ Len(cs) = Len(fs) - 1 /\ \A i \in 1..Len(cs) : cs[i] = fs[i]
    <2> DEFINE n == Len(fs) - 1
    <2>1. n \in Nat /\ \A i \in 1..n : fs[i] \in Frame
      BY <1>1
    <2> HIDE DEF n
    <2>2. /\ SubSeq(fs, 1, n) \in Seq(Frame)
          /\ Len(SubSeq(fs, 1, n)) = IF 1 <= n THEN n - 1 + 1 ELSE 0
          /\ \A i \in 1..(n - 1 + 1) : SubSeq(fs, 1, n)[i] = fs[1 + i - 1]
      BY <2>1, SubSeqProperties
    <2>3. Len(SubSeq(fs, 1, n)) = n
      BY <2>1, <2>2
    <2>4. \A i \in 1..n : SubSeq(fs, 1, n)[i] = fs[i]
      BY <2>1, <2>2
    <2>5. QED
      BY <2>2, <2>3, <2>4 DEF n
  <1>3. 1..Len(fs) = (1..Len(cs)) \cup {Len(fs)} /\ Len(fs) \notin 1..Len(cs)
    BY <1>1, <1>2
  <1> HIDE DEF cs
  <1>4. fs[Len(fs)] \in Frame /\ FrameOK(fs[Len(fs)])
    BY <1>1, <1>3 DEF FramesOK
  <1>5. ASSUME NEW i \in 1..Len(cs)
        PROVE  FrameOK(cs[i]) /\ cs[i].at \notin Busy
    BY <1>2, <1>3 DEF FramesOK
  <1>6. FramesOK(cs)
    <2>1. \A i, j \in 1..Len(cs) : cs[i].at \in InEvent /\ cs[j].at \in InEvent => i = j
      BY <1>2, <1>3 DEF FramesOK
    <2>2. QED
      BY <1>2, <1>5, <2>1 DEF FramesOK
  <1>7. NotBusy(cs)
    <2>1. CASE cs = <<>>
      BY <2>1 DEF NotBusy
    <2>2. CASE cs # <<>>
      <3>1. Len(cs) \in 1..Len(cs)
        BY <1>2, <2>2
      <3>2. QED
        BY <3>1, <1>5 DEF NotBusy
    <2>3. QED
      BY <2>1, <2>2
  <1>8. fs[Len(fs)].at \in InEvent => ~Has(cs, InEvent)
    BY <1>2, <1>3 DEF FramesOK, Has
  <1>9. ASSUME NEW S
        PROVE  Has(fs, S) <=> Has(cs, S) \/ fs[Len(fs)].at \in S
    BY <1>2, <1>3 DEF Has
  <1>10. QED
    BY <1>2, <1>4, <1>6, <1>7, <1>8, <1>9 DEF cs

\* Putting a call on a stack.
LEMMA PushFrame ==
    ASSUME NEW fs, FramesOK(fs), NotBusy(fs),
           NEW f \in Frame, FrameOK(f),
           f.at \in InEvent => ~Has(fs, InEvent)
    PROVE  LET gs == Append(fs, f)
           IN /\ FramesOK(gs)
              /\ Len(gs) = Len(fs) + 1 /\ gs # <<>> /\ gs[Len(gs)] = f
              /\ f.at \notin Busy => NotBusy(gs)
              /\ Has(gs, InEvent) <=> Has(fs, InEvent) \/ f.at \in InEvent
              /\ Has(gs, InSubmission) <=> Has(fs, InSubmission) \/ f.at \in InSubmission
  <1> DEFINE gs == Append(fs, f)
  <1>1. fs \in Seq(Frame) /\ Len(fs) \in Nat
    BY DEF FramesOK
  <1>2. /\ gs \in Seq(Frame) /\ Len(gs) = Len(fs) + 1 /\ gs[Len(gs)] = f
        /\ \A i \in 1..Len(fs) : gs[i] = fs[i]
    BY <1>1
  <1>3. 1..Len(gs) = (1..Len(fs)) \cup {Len(gs)} /\ Len(gs) \notin 1..Len(fs)
    BY <1>1, <1>2
  <1>4. gs # <<>>
    BY <1>1, <1>2
  <1> HIDE DEF gs
  <1>5. \A i \in 1..Len(gs) : FrameOK(gs[i])
    BY <1>2, <1>3 DEF FramesOK
  <1>6. \A i \in 1..Len(fs) : fs[i].at \notin Busy
    <2>1. ASSUME NEW i \in 1..Len(fs), fs[i].at \in Busy
          PROVE  FALSE
      <3>1. i = Len(fs)
        BY <2>1 DEF FramesOK
      <3>2. fs # <<>>
        BY <2>1, <1>1
      <3>3. QED
        BY <2>1, <3>1, <3>2 DEF NotBusy
    <2>2. QED
      BY <2>1
  <1>7. \A i \in 1..Len(gs) : gs[i].at \in Busy => i = Len(gs)
    BY <1>2, <1>3, <1>6
  <1>8. \A i, j \in 1..Len(gs) : gs[i].at \in InEvent /\ gs[j].at \in InEvent => i = j
    BY <1>2, <1>3 DEF FramesOK, Has
  <1>9. ASSUME NEW S
        PROVE  Has(gs, S) <=> Has(fs, S) \/ f.at \in S
    BY <1>2, <1>3 DEF Has
  <1>10. FramesOK(gs)
    BY <1>2, <1>5, <1>7, <1>8 DEF FramesOK
  <1>11. f.at \notin Busy => NotBusy(gs)
    BY <1>2 DEF NotBusy
  <1>12. QED
    BY <1>2, <1>4, <1>9, <1>10, <1>11 DEF gs

-----------------------------------------------------------------------------
(***************************************************************************)
(* The parts of the actions.                                               *)
(***************************************************************************)

\* The callers of the innermost call, and that call itself.
LEMMA CallersFacts ==
    ASSUME IInv, frames # <<>>
    PROVE  /\ FramesOK(Callers) /\ NotBusy(Callers)
           /\ Len(Callers) = Len(frames) - 1 /\ Len(frames) \in Nat
           /\ Top \in Frame /\ FrameOK(Top)
           /\ Top.at \in InEvent => ~Has(Callers, InEvent)
           /\ Has(frames, InEvent) <=> Has(Callers, InEvent) \/ Top.at \in InEvent
           /\ Has(frames, InSubmission) <=> Has(Callers, InSubmission) \/ Top.at \in InSubmission
  <1>1. FramesOK(frames)
    BY DEF IInv
  <1>2. Len(frames) \in Nat
    BY <1>1 DEF FramesOK
  <1>3. QED
    BY <1>1, <1>2, PopFrames DEF Callers, Top

\* A stack on which no call waits to check its submission.
LEMMA NotBusyFlag ==
    ASSUME NEW fs, NotBusy(fs), NEW user
    PROVE  FlagIsRight(fs, user)
  BY DEF NotBusy, FlagIsRight, Busy

\* DoSubmit without a deferred submission: the one it builds is the latest, and
\* either deferred or on its way.
LEMMA DoSubmitFacts ==
    ASSUME TypeOK,
           NEW tainted \in BOOLEAN, NEW user \in BOOLEAN, NEW deferred \in BOOLEAN,
           NEW cs, FramesOK(cs), NotBusy(cs), Len(cs) + 1 <= MaxFrames,
           DoSubmit(tainted, user, None, deferred, cs)
    PROVE  /\ FramesOK(frames') /\ Len(frames') <= MaxFrames
           /\ FlagIsRight(frames', mSubmitInitiatedFromUserInput')
           /\ LatestIsDeferred'
           /\ Has(frames', InEvent) <=> Has(cs, InEvent)
           /\ mIsSubmitting' =>
                 Has(frames', InSubmission) \/ (mIsSubmitting /\ frames' = cs)
           /\ mIsSubmitting' \in BOOLEAN /\ mSubmitInitiatedFromUserInput' \in BOOLEAN
           /\ mPendingSubmission' \in Submission \cup {None}
           /\ formTainted' \in BOOLEAN /\ built' \in 0..MaxBuilt
           /\ UNCHANGED <<mSubmittingRequest, mWebProgress, listening>>
  <1>1. Len(cs) \in Nat
    BY DEF FramesOK
  <1>2. CASE mIsSubmitting
    <2>1. frames' = cs /\ mPendingSubmission' = None
      BY <1>2 DEF DoSubmit
    <2>2. UNCHANGED <<submitting, mSubmitInitiatedFromUserInput, formTainted, built>>
      BY <1>2 DEF DoSubmit
    <2>3. LatestIsDeferred'
      BY <2>1 DEF LatestIsDeferred
    <2>4. QED
      BY <1>1, <1>2, <2>1, <2>2, <2>3, NotBusyFlag DEF TypeOK, submitting
  <1>3. CASE ~mIsSubmitting
    <2> DEFINE sub == [number |-> built + 1, tainted |-> tainted, user |-> user]
    <2>1. /\ built < MaxBuilt
          /\ built' = built + 1
          /\ formTainted' = (formTainted \/ tainted)
          /\ mSubmitInitiatedFromUserInput' = user
          /\ mPendingSubmission' = IF deferred THEN sub ELSE None
          /\ mIsSubmitting' = ~deferred
          /\ frames' = IF deferred THEN cs ELSE Append(cs, Submit(sub))
          /\ UNCHANGED <<mSubmittingRequest, mWebProgress, listening>>
      BY <1>3 DEF DoSubmit
    <2>2. sub \in Submission /\ built' \in 0..MaxBuilt
      BY <2>1 DEF TypeOK, Submission
    <2>3. sub.number = built + 1 /\ sub.user = user
      OBVIOUS
    <2> HIDE DEF sub
    <2>4. LatestIsDeferred'
      BY <2>1, <2>3 DEF LatestIsDeferred
    <2>5. CASE deferred
      BY <1>1, <2>1, <2>2, <2>4, <2>5, NotBusyFlag DEF TypeOK
    <2>6. CASE ~deferred
      <3>1. Submit(sub) \in Frame /\ FrameOK(Submit(sub))
        BY <2>2 DEF Submit, Frame, FrameOK, Places, Open, InSubmission
      <3>2. /\ Submit(sub).at = "submit" /\ Submit(sub).sub = sub
            /\ "submit" \notin InEvent /\ "submit" \in InSubmission
        BY DEF Submit, InEvent, InSubmission
      <3>3. frames' = Append(cs, Submit(sub))
        BY <2>1, <2>6
      <3>4. /\ FramesOK(frames') /\ Len(frames') = Len(cs) + 1
            /\ frames' # <<>> /\ frames'[Len(frames')] = Submit(sub)
            /\ Has(frames', InEvent) <=> Has(cs, InEvent)
            /\ Has(frames', InSubmission)
        BY <3>1, <3>2, <3>3, PushFrame
      <3>5. FlagIsRight(frames', mSubmitInitiatedFromUserInput')
        BY <2>1, <2>3, <3>2, <3>4 DEF FlagIsRight
      <3>6. QED
        BY <1>1, <2>1, <2>2, <2>4, <2>6, <3>4, <3>5 DEF TypeOK
    <2>7. QED
      BY <2>5, <2>6
  <1>4. QED
    BY <1>2, <1>3

\* FlushPendingSubmission: what it sends is checked with its own flag.
LEMMA FlushFacts ==
    ASSUME TypeOK, LatestIsDeferred,
           NEW cs, FramesOK(cs), NotBusy(cs), Len(cs) + 2 <= MaxFrames,
           Flush(cs)
    PROVE  /\ FramesOK(frames') /\ Len(frames') <= MaxFrames
           /\ FlagIsRight(frames', mSubmitInitiatedFromUserInput)
           /\ Has(frames', InEvent) <=> Has(cs, InEvent)
           /\ Has(cs, InSubmission) => Has(frames', InSubmission)
  <1>1. Len(cs) \in Nat
    BY DEF FramesOK
  <1>2. CASE mPendingSubmission = None
    <2>1. frames' = cs
      BY <1>2 DEF Flush
    <2>2. QED
      BY <1>1, <2>1, NotBusyFlag DEF TypeOK
  <1>3. CASE mPendingSubmission # None
    <2> DEFINE f == Call("flushed", None, FALSE)
               g == Submit(mPendingSubmission)
    <2>1. frames' = Append(Append(cs, f), g)
      BY <1>3 DEF Flush
    <2>2. mPendingSubmission \in Submission
      BY <1>3 DEF TypeOK
    <2>3. f \in Frame /\ FrameOK(f) /\ f.at = "flushed"
      BY DEF Call, Frame, FrameOK, Places, Open, InSubmission
    <2>4. g \in Frame /\ FrameOK(g) /\ g.at = "submit" /\ g.sub = mPendingSubmission
      BY <2>2 DEF Submit, Frame, FrameOK, Places, Open, InSubmission
    <2>5. "flushed" \notin InEvent /\ "flushed" \notin Busy /\ "submit" \notin InEvent
      BY DEF InEvent, Busy
    <2> HIDE DEF f, g
    <2>6. /\ FramesOK(Append(cs, f)) /\ NotBusy(Append(cs, f))
          /\ Len(Append(cs, f)) = Len(cs) + 1
          /\ Has(Append(cs, f), InEvent) <=> Has(cs, InEvent)
          /\ Has(cs, InSubmission) => Has(Append(cs, f), InSubmission)
      BY <2>3, <2>5, PushFrame
    <2>7. /\ FramesOK(frames') /\ Len(frames') = Len(cs) + 1 + 1
          /\ frames'[Len(frames')] = g
          /\ Has(frames', InEvent) <=> Has(cs, InEvent)
          /\ Has(cs, InSubmission) => Has(frames', InSubmission)
      BY <2>1, <2>4, <2>5, <2>6, PushFrame
    <2>8. FlagIsRight(frames', mSubmitInitiatedFromUserInput)
      BY <1>3, <2>4, <2>7 DEF FlagIsRight, LatestIsDeferred
    <2>9. QED
      BY <1>1, <2>7, <2>8 DEF TypeOK
  <1>4. QED
    BY <1>2, <1>3

\* ForgetCurrentSubmission leaves nothing to wait for.
LEMMA ForgetFacts ==
    ASSUME TypeOK, ForgetCurrentSubmission
    PROVE  /\ ~mIsSubmitting' /\ mIsSubmitting' \in BOOLEAN
           /\ mSubmittingRequest' \in Requests \cup {None}
           /\ mWebProgress' \in Targets \cup {None}
           /\ listening' \in SUBSET Targets
  BY DEF TypeOK, ForgetCurrentSubmission

\* After SubmitTo the form is not marked, or it listens for its request.
LEMMA ListenFacts ==
    ASSUME TypeOK, NEW r \in Requests, NEW t \in Targets, Listen(r, t)
    PROVE  /\ mIsSubmitting' \in BOOLEAN
           /\ mSubmittingRequest' \in Requests \cup {None}
           /\ mWebProgress' \in Targets \cup {None}
           /\ listening' \in SUBSET Targets
           /\ inFlight' \in [Requests -> Targets \cup {None}]
           /\ mIsSubmitting' => Waiting'
  <1>1. inFlight' \in [Requests -> Targets \cup {None}] /\ inFlight'[r] = t
    BY DEF TypeOK, Listen
  <1>2. r # None
    OBVIOUS
  <1>3. CASE t \in listening
    BY <1>1, <1>3 DEF TypeOK, Listen
  <1>4. CASE t \notin listening
    <2>1. mSubmittingRequest' = r /\ mWebProgress' = t /\ listening' = listening \cup {t}
      BY <1>4 DEF Listen
    <2>2. Waiting'
      BY <1>1, <1>2, <2>1 DEF Waiting
    <2>3. mIsSubmitting' = mIsSubmitting
      BY <1>4 DEF Listen
    <2>4. QED
      BY <1>1, <2>1, <2>2, <2>3 DEF TypeOK
  <1>5. QED
    BY <1>3, <1>4

-----------------------------------------------------------------------------
(***************************************************************************)
(* The steps of SubmitSubmission: the call ends, or goes on elsewhere.     *)
(***************************************************************************)

\* What the steps of SubmitSubmission leave well-typed.
StateOfRequests ==
    /\ mIsSubmitting \in BOOLEAN
    /\ mSubmittingRequest \in Requests \cup {None}
    /\ mWebProgress \in Targets \cup {None}
    /\ listening \in SUBSET Targets
    /\ inFlight \in [Requests -> Targets \cup {None}]
    /\ crashed \in BOOLEAN
    /\ lastSent \in Sent \cup {None}

\* A call ends that is no handler of the submit event.
LEMMA CallEnds ==
    ASSUME IInv, frames # <<>>, Top.at \notin InEvent, frames' = Callers,
           UNCHANGED <<building, events, content>>,
           StateOfRequests', ScriptedLeaksAreAsked',
           mIsSubmitting' => Has(Callers, InSubmission) \/ Waiting'
    PROVE  IInv'
  <1>1. /\ FramesOK(frames') /\ NotBusy(frames') /\ Len(frames') <= MaxFrames
        /\ Has(frames', InEvent) <=> Has(frames, InEvent)
    BY CallersFacts DEF IInv, TypeOK
  <1>2. FlagIsRight(frames', mSubmitInitiatedFromUserInput')
    BY <1>1, NotBusyFlag
  <1>3. TypeOK'
    BY <1>1 DEF IInv, TypeOK, StateOfRequests, FramesOK, building, events, content
  <1>4. LatestIsDeferred'
    BY DEF IInv, LatestIsDeferred, building
  <1>5. mGeneratingSubmit' <=> Has(frames', InEvent)
    BY <1>1 DEF IInv, events
  <1>6. QED
    BY <1>1, <1>2, <1>3, <1>4, <1>5 DEF IInv, FlagIsRight, Top

\* A call of SubmitSubmission goes on at another place.
LEMMA CallGoesOn ==
    ASSUME IInv, frames # <<>>, Top.at \in InSubmission,
           NEW f \in Frame, FrameOK(f), f.at \in {"dialog", "send", "javascript"},
           frames' = Append(Callers, f),
           UNCHANGED <<building, events, content>>,
           StateOfRequests', ScriptedLeaksAreAsked'
    PROVE  IInv'
  <1>1. /\ Top.at \notin InEvent /\ f.at \notin InEvent
        /\ f.at \in InSubmission /\ f.at # "submit"
    BY DEF InEvent, InSubmission
  <1>2. /\ FramesOK(frames') /\ Len(frames') <= MaxFrames
        /\ frames'[Len(frames')] = f
        /\ Has(frames', InEvent) <=> Has(frames, InEvent)
        /\ Has(frames', InSubmission)
    BY <1>1, CallersFacts, PushFrame DEF IInv, TypeOK
  <1>3. FlagIsRight(frames', mSubmitInitiatedFromUserInput')
    BY <1>1, <1>2 DEF FlagIsRight
  <1>4. TypeOK'
    BY <1>2 DEF IInv, TypeOK, StateOfRequests, FramesOK, building, events, content
  <1>5. LatestIsDeferred'
    BY DEF IInv, LatestIsDeferred, building
  <1>6. mGeneratingSubmit' <=> Has(frames', InEvent)
    BY <1>2 DEF IInv, events
  <1>7. QED
    BY <1>2, <1>3, <1>4, <1>5, <1>6 DEF IInv, FlagIsRight, Top

\* What a step leaves as it is, stays well-typed.
LEMMA RequestsStay ==
    ASSUME IInv
    PROVE  StateOfRequests
  BY DEF IInv, TypeOK, StateOfRequests

\* Every step of SubmitSubmission preserves the invariant.
LEMMA SubmissionStep ==
    ASSUME IInv, SubmissionGoesOn
    PROVE  IInv'
  <1>1. StateOfRequests /\ TypeOK /\ ScriptedLeaksAreAsked
    BY RequestsStay DEF IInv
  <1>2. /\ InEvent = {"event", "eventEnds"}
        /\ InSubmission = {"submit", "dialog", "send", "javascript"}
    BY DEF InEvent, InSubmission
  <1>3. ASSUME StopSubmitting, frames # <<>>, Top.at \notin InEvent, frames' = Callers,
               UNCHANGED <<building, events, content, inFlight, crashed, lastSent>>
        PROVE  IInv'
    <2>1. StateOfRequests' /\ ~mIsSubmitting'
      BY <1>1, <1>3 DEF StateOfRequests, StopSubmitting
    <2>2. ScriptedLeaksAreAsked'
      BY <1>1, <1>3 DEF ScriptedLeaksAreAsked
    <2>3. QED
      BY <1>3, <2>1, <2>2, CallEnds
  <1>4. ASSUME ForgetCurrentSubmission, frames # <<>>, Top.at \notin InEvent,
               frames' = Callers, UNCHANGED <<building, events, content, inFlight, crashed>>,
               lastSent' \in Sent \cup {None}, ScriptedLeaksAreAsked'
        PROVE  IInv'
    <2>1. StateOfRequests' /\ ~mIsSubmitting'
      BY <1>1, <1>4, ForgetFacts DEF StateOfRequests
    <2>2. QED
      BY <1>4, <2>1, CallEnds
  <1>5. ASSUME NEW r \in Requests, NEW t \in Targets, Listen(r, t),
               frames # <<>>, Top.at \notin InEvent, frames' = Callers,
               UNCHANGED <<building, events, content, crashed>>,
               lastSent' \in Sent \cup {None}, ScriptedLeaksAreAsked'
        PROVE  IInv'
    <2>1. StateOfRequests' /\ (mIsSubmitting' => Waiting')
      BY <1>1, <1>5, ListenFacts DEF StateOfRequests
    <2>2. QED
      BY <1>5, <2>1, CallEnds
  <1>6. ASSUME At("send"), Record
        PROVE  lastSent' \in Sent \cup {None} /\ ScriptedLeaksAreAsked'
    <2>1. Top \in Frame /\ FrameOK(Top) /\ Top.at = "send"
      BY <1>6, CallersFacts DEF At
    <2>2. /\ Top.sub \in Submission /\ Top.value \in Actions /\ Top.asked \in Foreign \cup {None}
          /\ Top.value \in Foreign /\ Top.sub.tainted /\ ~Top.sub.user => Top.asked = Top.value
      BY <2>1, <1>2 DEF FrameOK, Frame
    <2>3. lastSent' = [to |-> Top.value, asked |-> Top.asked,
                       scripted |-> Top.sub.tainted /\ ~Top.sub.user]
      BY <1>6 DEF Record
    <2>4. (Top.sub.tainted /\ ~Top.sub.user) \in BOOLEAN
      BY <2>2 DEF Submission
    <2>5. lastSent' \in Sent
      BY <2>2, <2>3, <2>4 DEF Sent
    <2>6. ScriptedLeaksAreAsked'
      BY <2>2, <2>3 DEF ScriptedLeaksAreAsked
    <2>7. QED
      BY <2>5, <2>6
  <1>7. CASE ActionIsMissing
    <2>1. frames # <<>> /\ Top.at \notin InEvent /\ frames' = Callers
      BY <1>2, <1>7 DEF ActionIsMissing, At
    <2>2. UNCHANGED <<building, events, content, inFlight, crashed, lastSent>>
      BY <1>7 DEF ActionIsMissing
    <2>3. lastSent' \in Sent \cup {None} /\ ScriptedLeaksAreAsked'
      BY <1>1, <2>2 DEF StateOfRequests, ScriptedLeaksAreAsked
    <2>4. StopSubmitting \/ ForgetCurrentSubmission
      BY <1>7 DEF ActionIsMissing
    <2>5. QED
      BY <1>3, <1>4, <2>1, <2>2, <2>3, <2>4
  <1>8. CASE CheckRejects
    BY <1>2, <1>3, <1>8 DEF CheckRejects, At
  <1>9. CASE UserDenies
    BY <1>2, <1>3, <1>9 DEF UserDenies, At
  <1>10. CASE ObserversCancel
    BY <1>2, <1>3, <1>10 DEF ObserversCancel, At
  <1>11. CASE SentWithoutRequest
    BY <1>2, <1>4, <1>6, <1>11 DEF SentWithoutRequest, At
  <1>12. ASSUME NEW r \in Requests, SentWithRequest(r)
         PROVE  IInv'
    <2>1. target \in Targets
      BY <1>1 DEF TypeOK
    <2>2. QED
      BY <1>2, <1>5, <1>6, <1>12, <2>1 DEF SentWithRequest, At
  <1>13. ASSUME UNCHANGED <<submitting, building, events, content, inFlight, crashed, lastSent>>
         PROVE  StateOfRequests' /\ ScriptedLeaksAreAsked'
    BY <1>1, <1>13 DEF StateOfRequests, ScriptedLeaksAreAsked, submitting
  <1>14. CASE CheckPasses
    <2> DEFINE asked == IF MustBeAsked THEN action ELSE None
               f == [Top EXCEPT !.at = "send", !.value = action, !.asked = asked]
    <2>1. Top \in Frame /\ FrameOK(Top) /\ Top.at = "submit" /\ frames # <<>>
      BY <1>14, CallersFacts DEF CheckPasses, At
    <2>2. mSubmitInitiatedFromUserInput = Top.sub.user
      BY <2>1 DEF IInv
    <2>3. Top.sub \in Submission
      BY <1>2, <2>1 DEF FrameOK
    <2>4. action \in Actions /\ asked \in Foreign \cup {None}
      BY <1>1 DEF TypeOK, MustBeAsked
    <2>5. f \in Frame
      BY <2>1, <2>4 DEF Frame, Places, InSubmission
    <2>6. f.at = "send" /\ f.value = action /\ f.sub = Top.sub /\ f.asked = asked
      BY <2>1 DEF Frame
    <2>7. action \in Foreign /\ Top.sub.tainted /\ ~Top.sub.user => asked = action
      BY <2>2 DEF MustBeAsked
    <2>8. FrameOK(f)
      BY <2>3, <2>4, <2>6, <2>7 DEF FrameOK
    <2>9. frames' = Append(Callers, f)
      BY <1>14 DEF CheckPasses, GoOn
    <2> HIDE DEF f
    <2>10. QED
      BY <1>2, <1>13, <1>14, <2>1, <2>5, <2>6, <2>8, <2>9, CallGoesOn DEF CheckPasses
  <1>15. CASE CheckAsks
    <2> DEFINE f == [Top EXCEPT !.at = "dialog", !.value = action, !.asked = None]
    <2>1. Top \in Frame /\ FrameOK(Top) /\ Top.at = "submit" /\ frames # <<>>
      BY <1>15, CallersFacts DEF CheckAsks, At
    <2>2. Top.sub \in Submission
      BY <1>2, <2>1 DEF FrameOK
    <2>3. action \in Foreign
      BY <1>15 DEF CheckAsks, MustBeAsked
    <2>4. f \in Frame
      BY <2>1, <2>3 DEF Frame, Places, InSubmission, Actions
    <2>5. f.at = "dialog" /\ f.value = action /\ f.sub = Top.sub
      BY <2>1 DEF Frame
    <2>6. FrameOK(f)
      BY <2>2, <2>3, <2>5 DEF FrameOK
    <2>7. frames' = Append(Callers, f)
      BY <1>15 DEF CheckAsks, GoOn
    <2> HIDE DEF f
    <2>8. QED
      BY <1>2, <1>13, <1>15, <2>1, <2>4, <2>5, <2>6, <2>7, CallGoesOn DEF CheckAsks
  <1>16. CASE UserAllows
    <2> DEFINE f == [Top EXCEPT !.at = "send", !.asked = Top.value]
    <2>1. Top \in Frame /\ FrameOK(Top) /\ Top.at = "dialog" /\ frames # <<>>
      BY <1>16, CallersFacts DEF UserAllows, At
    <2>2. Top.sub \in Submission /\ Top.value \in Foreign
      BY <1>2, <2>1 DEF FrameOK
    <2>3. f \in Frame
      BY <2>1, <2>2 DEF Frame, Places, InSubmission
    <2>4. f.at = "send" /\ f.value = Top.value /\ f.asked = Top.value /\ f.sub = Top.sub
      BY <2>1 DEF Frame
    <2>5. FrameOK(f)
      BY <2>2, <2>4 DEF FrameOK, Actions
    <2>6. frames' = Append(Callers, f)
      BY <1>16 DEF UserAllows
    <2> HIDE DEF f
    <2>7. QED
      BY <1>2, <1>13, <1>16, <2>1, <2>3, <2>4, <2>5, <2>6, CallGoesOn DEF UserAllows
  <1>17. CASE NoDocumentForObservers
    <2>1. frames' = frames /\ UNCHANGED <<submitting, building, events, content, inFlight, lastSent>>
          /\ crashed' = TRUE
      BY <1>17 DEF NoDocumentForObservers
    <2>2. TypeOK' /\ LatestIsDeferred' /\ ScriptedLeaksAreAsked' /\ (Waiting' <=> Waiting)
      BY <1>1, <2>1 DEF IInv, TypeOK, LatestIsDeferred, ScriptedLeaksAreAsked, Waiting,
                        submitting, building, events, content
    <2>3. mIsSubmitting' = mIsSubmitting /\ mGeneratingSubmit' = mGeneratingSubmit
          /\ mSubmitInitiatedFromUserInput' = mSubmitInitiatedFromUserInput
      BY <2>1 DEF submitting, building, events
    <2>4. QED
      BY <2>1, <2>2, <2>3 DEF IInv, Top
  <1>18. CASE ScriptActionRuns
    <2> DEFINE f == [Top EXCEPT !.at = "javascript", !.value = target,
                                !.user = mSubmitInitiatedFromUserInput]
    <2>1. Top \in Frame /\ FrameOK(Top) /\ Top.at = "send" /\ frames # <<>>
      BY <1>18, CallersFacts DEF ScriptActionRuns, At
    <2>2. Top.sub \in Submission
      BY <1>2, <2>1 DEF FrameOK
    <2>3. target \in Targets /\ mSubmitInitiatedFromUserInput \in BOOLEAN
      BY <1>1 DEF TypeOK
    <2>4. f \in Frame
      BY <2>1, <2>3 DEF Frame, Places, InSubmission
    <2>5. f.at = "javascript" /\ f.value = target /\ f.sub = Top.sub
      BY <2>1 DEF Frame
    <2>6. FrameOK(f)
      BY <2>2, <2>3, <2>5 DEF FrameOK
    <2>7. frames' = Append(Callers, f)
      BY <1>18 DEF ScriptActionRuns
    <2>8. lastSent' \in Sent \cup {None} /\ ScriptedLeaksAreAsked'
      BY <1>6, <1>18 DEF ScriptActionRuns
    <2>9. StateOfRequests'
      BY <1>1, <1>18, <2>8 DEF StateOfRequests, ScriptActionRuns
    <2> HIDE DEF f
    <2>10. QED
      BY <1>2, <1>18, <2>1, <2>4, <2>5, <2>6, <2>7, <2>8, <2>9, CallGoesOn DEF ScriptActionRuns
  <1>19. CASE ScriptActionEnds
    <2>1. /\ frames # <<>> /\ Top.at = "javascript" /\ frames' = Callers
          /\ UNCHANGED <<building, events, content, crashed, lastSent>>
      BY <1>19 DEF ScriptActionEnds, At
    <2>2. Top.value \in Targets
      BY <2>1, CallersFacts DEF FrameOK
    <2>3. lastSent' \in Sent \cup {None} /\ ScriptedLeaksAreAsked'
      BY <1>1, <2>1 DEF StateOfRequests, ScriptedLeaksAreAsked
    <2>4. CASE ForgetCurrentSubmission /\ UNCHANGED inFlight
      BY <1>2, <1>4, <2>1, <2>3, <2>4
    <2>5. CASE \E r \in Requests : Listen(r, Top.value)
      BY <1>2, <1>5, <2>1, <2>2, <2>3, <2>5
    <2>6. QED
      BY <1>19, <2>4, <2>5 DEF ScriptActionEnds
  <1>20. QED
    BY <1>7, <1>8, <1>9, <1>10, <1>11, <1>12, <1>14, <1>15, <1>16, <1>17, <1>18, <1>19
       DEF SubmissionGoesOn

-----------------------------------------------------------------------------
(***************************************************************************)
(* The other steps.                                                        *)
(***************************************************************************)

\* Where other code runs, a call can be put on the stack.
LEMMA OthersRunFacts ==
    ASSUME IInv, NEW n \in Nat, OthersRun(n)
    PROVE  /\ FramesOK(frames) /\ NotBusy(frames)
           /\ Len(frames) \in Nat /\ Len(frames) + n <= MaxFrames
  <1>1. FramesOK(frames)
    BY DEF IInv
  <1>2. Len(frames) \in Nat
    BY <1>1 DEF FramesOK
  <1>3. NotBusy(frames)
    BY DEF OthersRun, NotBusy, Top, Open, Busy
  <1>4. QED
    BY <1>1, <1>2, <1>3 DEF OthersRun

\* A call without a submission can be put on the stack.
LEMMA CallFacts ==
    ASSUME NEW place \in Places \ InSubmission, NEW value \in Actions \cup Targets \cup {None},
           NEW user \in BOOLEAN,
           place = "setAction" => value \in Actions,
           place = "setTarget" => value \in Targets
    PROVE  LET f == Call(place, value, user)
           IN /\ f \in Frame /\ FrameOK(f) /\ f.at = place
              /\ f.at \notin Busy /\ f.at \notin InSubmission
  <1>1. place \notin Busy
    BY DEF Busy, InSubmission
  <1>2. QED
    BY <1>1 DEF Call, Frame, FrameOK, InSubmission

\* What scripts, the user and the documents do preserves the invariant.
LEMMA PageStep ==
    ASSUME IInv, PageActs
    PROVE  IInv'
  <1>1. TypeOK /\ LatestIsDeferred /\ ScriptedLeaksAreAsked
    BY DEF IInv
  <1>2. ASSUME NEW tainted \in BOOLEAN, NEW user \in BOOLEAN, ScriptSubmits(tainted, user)
        PROVE  IInv'
    <2>1. /\ FramesOK(frames) /\ NotBusy(frames) /\ Len(frames) + 1 <= MaxFrames
          /\ left' = 0 /\ 0 \in 0..MaxBuilt
          /\ UNCHANGED <<mDeferSubmission, mGeneratingSubmit, content, inFlight, crashed, lastSent>>
      BY <1>2, OthersRunFacts DEF ScriptSubmits
    <2>2. (user \/ HandlingUserInput) \in BOOLEAN /\ mDeferSubmission \in BOOLEAN
      BY <1>1 DEF TypeOK, HandlingUserInput
    <2>3. DoSubmit(tainted, user \/ HandlingUserInput, None, mDeferSubmission, frames)
      BY <1>2 DEF ScriptSubmits
    <2>4. /\ FramesOK(frames') /\ Len(frames') <= MaxFrames
          /\ FlagIsRight(frames', mSubmitInitiatedFromUserInput')
          /\ LatestIsDeferred'
          /\ Has(frames', InEvent) <=> Has(frames, InEvent)
          /\ mIsSubmitting' => Has(frames', InSubmission) \/ (mIsSubmitting /\ frames' = frames)
          /\ mIsSubmitting' \in BOOLEAN /\ mSubmitInitiatedFromUserInput' \in BOOLEAN
          /\ mPendingSubmission' \in Submission \cup {None}
          /\ formTainted' \in BOOLEAN /\ built' \in 0..MaxBuilt
          /\ UNCHANGED <<mSubmittingRequest, mWebProgress, listening>>
      BY <1>1, <2>1, <2>2, <2>3, DoSubmitFacts
    <2>5. TypeOK' /\ ScriptedLeaksAreAsked'
      BY <1>1, <2>1, <2>4 DEF TypeOK, FramesOK, ScriptedLeaksAreAsked, events, content
    <2>6. mIsSubmitting' => Has(frames', InSubmission) \/ Waiting'
      BY <2>1, <2>4 DEF IInv, Waiting
    <2>7. mGeneratingSubmit' <=> Has(frames', InEvent)
      BY <2>1, <2>4 DEF IInv, events
    <2>8. QED
      BY <2>4, <2>5, <2>6, <2>7 DEF IInv, FlagIsRight, Top
  <1>3. ASSUME NEW value \in Actions \cup Targets, NEW place \in {"setAction", "setTarget"},
               SetAttr(place, value)
        PROVE  IInv'
    <2> DEFINE f == Call(place, value, FALSE)
    <2>1. /\ FramesOK(frames) /\ NotBusy(frames) /\ Len(frames) + 3 <= MaxFrames
          /\ Len(frames) \in Nat
          /\ UNCHANGED <<submitting, building, events, content, inFlight, crashed, lastSent>>
      BY <1>3, OthersRunFacts DEF SetAttr
    <2>2. place \in Places \ InSubmission /\ place \notin InEvent
      BY DEF Places, InSubmission, InEvent
    <2>3. f \in Frame /\ FrameOK(f) /\ f.at = place /\ f.at \notin Busy /\ f.at \notin InSubmission
      <3>1. (place = "setAction" => value \in Actions) /\ (place = "setTarget" => value \in Targets)
        BY <1>3 DEF SetAttr
      <3>2. QED
        BY <2>2, <3>1, CallFacts
    <2> HIDE DEF f
    <2>4. Flush(Append(frames, f))
      BY <1>3 DEF SetAttr, f
    <2>5. /\ FramesOK(Append(frames, f)) /\ NotBusy(Append(frames, f))
          /\ Len(Append(frames, f)) = Len(frames) + 1
          /\ Has(Append(frames, f), InEvent) <=> Has(frames, InEvent)
          /\ Has(frames, InSubmission) => Has(Append(frames, f), InSubmission)
      BY <2>1, <2>2, <2>3, PushFrame
    <2>6. Len(Append(frames, f)) + 2 <= MaxFrames
      BY <2>1, <2>5
    <2>7. /\ FramesOK(frames') /\ Len(frames') <= MaxFrames
          /\ FlagIsRight(frames', mSubmitInitiatedFromUserInput)
          /\ Has(frames', InEvent) <=> Has(frames, InEvent)
          /\ Has(frames, InSubmission) => Has(frames', InSubmission)
      BY <1>1, <2>4, <2>5, <2>6, FlushFacts
    <2>8. TypeOK' /\ ScriptedLeaksAreAsked' /\ LatestIsDeferred'
      BY <1>1, <2>1, <2>7 DEF TypeOK, FramesOK, ScriptedLeaksAreAsked, LatestIsDeferred,
                              submitting, building, events, content
    <2>9. mIsSubmitting' => Has(frames', InSubmission) \/ Waiting'
      BY <2>1, <2>7 DEF IInv, Waiting, submitting
    <2>10. mGeneratingSubmit' <=> Has(frames', InEvent)
      BY <2>1, <2>7 DEF IInv, events
    <2>11. mSubmitInitiatedFromUserInput' = mSubmitInitiatedFromUserInput
      BY <2>1 DEF building
    <2>12. QED
      BY <2>7, <2>8, <2>9, <2>10, <2>11 DEF IInv, FlagIsRight, Top
  <1>4. CASE SetDocument
    <2>1. /\ frames' = frames /\ inDocument' = ~inDocument
          /\ UNCHANGED <<building, events, action, target, inFlight, crashed, lastSent>>
          /\ ForgetCurrentSubmission \/ UNCHANGED submitting
      BY <1>4 DEF SetDocument
    <2>2. LatestIsDeferred' /\ ScriptedLeaksAreAsked'
      BY <1>1, <2>1 DEF LatestIsDeferred, ScriptedLeaksAreAsked, building
    <2>3. CASE ForgetCurrentSubmission
      <3>1. TypeOK' /\ ~mIsSubmitting'
        BY <1>1, <2>1, <2>3, ForgetFacts DEF TypeOK, building, events
      <3>2. QED
        BY <2>1, <2>2, <3>1 DEF IInv, Top, building, events
    <2>4. CASE UNCHANGED submitting
      <3>1. TypeOK' /\ (Waiting' <=> Waiting)
        BY <1>1, <2>1, <2>4 DEF TypeOK, Waiting, submitting, building, events
      <3>2. QED
        BY <2>1, <2>2, <2>4, <3>1 DEF IInv, Top, submitting, building, events
    <2>5. QED
      BY <2>1, <2>3, <2>4
  <1>5. ASSUME NEW place \in {"event", "click"}, NEW user \in BOOLEAN,
               OthersRun(3),
               place = "event" => ~mGeneratingSubmit,
               mGeneratingSubmit' = (mGeneratingSubmit \/ place = "event"),
               mDeferSubmission' = TRUE,
               frames' = Append(frames, Call(place, None, user)),
               UNCHANGED <<submitting, building, content, inFlight, crashed, lastSent, left>>
        PROVE  IInv'
    <2> DEFINE f == Call(place, None, user)
    <2>1. FramesOK(frames) /\ NotBusy(frames) /\ Len(frames) + 1 <= MaxFrames
      BY <1>5, OthersRunFacts, BoundsAssumption DEF FramesOK
    <2>2. place \in Places \ InSubmission /\ (place \in InEvent <=> place = "event")
      BY DEF Places, Open, InSubmission, InEvent
    <2>3. f \in Frame /\ FrameOK(f) /\ f.at = place /\ f.at \notin Busy /\ f.at \notin InSubmission
      BY <2>2, CallFacts
    <2>4. f.at \in InEvent => ~Has(frames, InEvent)
      BY <1>5, <2>2, <2>3 DEF IInv
    <2> HIDE DEF f
    <2>5. /\ FramesOK(frames') /\ NotBusy(frames') /\ Len(frames') = Len(frames) + 1
          /\ Has(frames', InEvent) <=> Has(frames, InEvent) \/ f.at \in InEvent
          /\ Has(frames', InSubmission) <=> Has(frames, InSubmission)
      BY <1>5, <2>1, <2>3, <2>4, PushFrame DEF f
    <2>6. FlagIsRight(frames', mSubmitInitiatedFromUserInput')
      BY <2>5, NotBusyFlag
    <2>7. TypeOK'
      BY <1>1, <1>5, <2>1, <2>5 DEF TypeOK, FramesOK, submitting, building, content
    <2>8. ScriptedLeaksAreAsked' /\ LatestIsDeferred' /\ (Waiting' <=> Waiting)
      BY <1>1, <1>5 DEF ScriptedLeaksAreAsked, LatestIsDeferred, Waiting, submitting, building
    <2>9. mGeneratingSubmit' <=> Has(frames', InEvent)
      BY <1>5, <2>2, <2>3, <2>5 DEF IInv
    <2>10. mIsSubmitting' => Has(frames', InSubmission) \/ Waiting'
      BY <1>5, <2>5, <2>8 DEF IInv, submitting
    <2>11. QED
      BY <2>5, <2>6, <2>7, <2>8, <2>9, <2>10 DEF IInv, FlagIsRight, Top
  <1>6. ASSUME NEW user \in BOOLEAN, SubmitEvent(user)
        PROVE  IInv'
    BY <1>1, <1>5, <1>6 DEF SubmitEvent, TypeOK
  <1>7. ASSUME NEW user \in BOOLEAN, Click(user)
        PROVE  IInv'
    BY <1>1, <1>5, <1>7 DEF Click, TypeOK
  <1>8. QED
    BY <1>2, <1>3, <1>4, <1>6, <1>7 DEF PageActs

\* The history variable records the number of a submission.
LEMMA PendingNumberFact ==
    ASSUME TypeOK
    PROVE  PendingNumber \in 0..MaxBuilt /\ 0 \in 0..MaxBuilt
  BY DEF TypeOK, PendingNumber, Submission

\* The calls in front of SubmitSubmission return and preserve the invariant.
LEMMA ReturnStep ==
    ASSUME IInv, CallsReturn
    PROVE  IInv'
  <1>1. TypeOK /\ LatestIsDeferred /\ ScriptedLeaksAreAsked /\ StateOfRequests
    BY RequestsStay DEF IInv
  <1>2. ASSUME NEW tainted \in BOOLEAN, SetAttrEnds(tainted)
        PROVE  IInv'
    <2>1. /\ frames # <<>> /\ Top.at \in {"setAction", "setTarget"} /\ frames' = Callers
          /\ ForgetCurrentSubmission
          /\ action' = IF Top.at = "setAction" THEN Top.value ELSE action
          /\ target' = IF Top.at = "setTarget" THEN Top.value ELSE target
          /\ formTainted' = (formTainted \/ tainted)
          /\ UNCHANGED <<mSubmitInitiatedFromUserInput, mPendingSubmission, built, events,
                         inDocument, inFlight, crashed, lastSent>>
      BY <1>2 DEF SetAttrEnds, At
    <2>2. action' \in Actions /\ target' \in Targets
      BY <1>1, <2>1, CallersFacts DEF FrameOK, TypeOK
    <2>3. /\ FramesOK(frames') /\ NotBusy(frames') /\ Len(frames') <= MaxFrames
          /\ Has(frames', InEvent) <=> Has(frames, InEvent)
      BY <1>1, <2>1, CallersFacts DEF TypeOK, InEvent
    <2>4. FlagIsRight(frames', mSubmitInitiatedFromUserInput')
      BY <2>3, NotBusyFlag
    <2>5. TypeOK' /\ ~mIsSubmitting'
      BY <1>1, <2>1, <2>2, <2>3, ForgetFacts DEF TypeOK, FramesOK, events
    <2>6. LatestIsDeferred' /\ ScriptedLeaksAreAsked' /\ mGeneratingSubmit' = mGeneratingSubmit
      BY <1>1, <2>1 DEF LatestIsDeferred, ScriptedLeaksAreAsked, events
    <2>7. QED
      BY <2>3, <2>4, <2>5, <2>6 DEF IInv, FlagIsRight, Top
  <1>3. ASSUME NEW follows \in Follows, NEW tainted \in BOOLEAN,
               SubmitHandlersReturn(follows, tainted)
        PROVE  IInv'
    <2> DEFINE f == Call("eventEnds", None, Top.user)
               cs == Append(Callers, f)
    <2>1. /\ frames # <<>> /\ Top.at = "event" /\ mDeferSubmission' = FALSE
          /\ left' \in 0..MaxBuilt
          /\ UNCHANGED <<mGeneratingSubmit, content, inFlight, crashed, lastSent>>
      BY <1>1, <1>3, PendingNumberFact DEF SubmitHandlersReturn, At, Follows
    <2>2. /\ "event" \in InEvent /\ "event" \notin InSubmission
          /\ "eventEnds" \in InEvent /\ "eventEnds" \in Places \ InSubmission
      BY DEF InEvent, InSubmission, Places
    <2>3. /\ FramesOK(Callers) /\ NotBusy(Callers) /\ Len(Callers) = Len(frames) - 1
          /\ Len(frames) \in Nat
          /\ Top.user \in BOOLEAN /\ ~Has(Callers, InEvent) /\ Has(frames, InEvent)
          /\ Has(frames, InSubmission) <=> Has(Callers, InSubmission)
      BY <2>1, <2>2, CallersFacts DEF Frame
    <2>4. f \in Frame /\ FrameOK(f) /\ f.at = "eventEnds" /\ f.at \notin Busy
      BY <2>2, <2>3, CallFacts
    <2> HIDE DEF f
    <2>5. /\ FramesOK(cs) /\ NotBusy(cs) /\ Len(cs) = Len(frames)
          /\ Has(cs, InEvent)
          /\ Has(cs, InSubmission) <=> Has(frames, InSubmission)
      BY <2>2, <2>3, <2>4, PushFrame
    <2>6. CASE follows = "flush"
      <3>1. Len(cs) + 2 <= MaxFrames /\ Flush(cs) /\ UNCHANGED <<submitting, building>>
        BY <1>3, <2>5, <2>6 DEF SubmitHandlersReturn, f
      <3> HIDE DEF cs
      <3>2. /\ FramesOK(frames') /\ Len(frames') <= MaxFrames
            /\ FlagIsRight(frames', mSubmitInitiatedFromUserInput)
            /\ Has(frames', InEvent) <=> Has(cs, InEvent)
            /\ Has(cs, InSubmission) => Has(frames', InSubmission)
        BY <1>1, <2>5, <3>1, FlushFacts
      <3>3. TypeOK'
        BY <1>1, <2>1, <3>1, <3>2 DEF TypeOK, FramesOK, submitting, building, content
      <3>4. ScriptedLeaksAreAsked' /\ LatestIsDeferred' /\ (Waiting' <=> Waiting)
        BY <1>1, <2>1, <3>1 DEF ScriptedLeaksAreAsked, LatestIsDeferred, Waiting,
                                submitting, building
      <3>5. mIsSubmitting' => Has(frames', InSubmission) \/ Waiting'
        BY <2>5, <3>1, <3>2, <3>4 DEF IInv, submitting
      <3>6. mGeneratingSubmit' <=> Has(frames', InEvent)
        BY <2>1, <2>3, <2>5, <3>2 DEF IInv
      <3>7. mSubmitInitiatedFromUserInput' = mSubmitInitiatedFromUserInput
        BY <3>1 DEF building
      <3>8. QED
        BY <3>2, <3>3, <3>4, <3>5, <3>6, <3>7 DEF IInv, FlagIsRight, Top
    <2>7. CASE follows = "submit"
      <3>1. /\ Len(cs) + 1 <= MaxFrames
            /\ DoSubmit(tainted, HandlingUserInput, None, FALSE, cs)
        BY <1>3, <2>5, <2>7 DEF SubmitHandlersReturn, f
      <3>2. HandlingUserInput \in BOOLEAN
        BY DEF HandlingUserInput
      <3> HIDE DEF cs
      <3>3. /\ FramesOK(frames') /\ Len(frames') <= MaxFrames
            /\ FlagIsRight(frames', mSubmitInitiatedFromUserInput')
            /\ LatestIsDeferred'
            /\ Has(frames', InEvent) <=> Has(cs, InEvent)
            /\ mIsSubmitting' => Has(frames', InSubmission) \/ (mIsSubmitting /\ frames' = cs)
            /\ mIsSubmitting' \in BOOLEAN /\ mSubmitInitiatedFromUserInput' \in BOOLEAN
            /\ mPendingSubmission' \in Submission \cup {None}
            /\ formTainted' \in BOOLEAN /\ built' \in 0..MaxBuilt
            /\ UNCHANGED <<mSubmittingRequest, mWebProgress, listening>>
        BY <1>1, <2>5, <3>1, <3>2, DoSubmitFacts
      <3>4. TypeOK' /\ ScriptedLeaksAreAsked'
        BY <1>1, <2>1, <3>3 DEF TypeOK, FramesOK, ScriptedLeaksAreAsked, content
      <3>5. mIsSubmitting' => Has(frames', InSubmission) \/ Waiting'
        BY <2>1, <2>5, <3>3 DEF IInv, Waiting
      <3>6. mGeneratingSubmit' <=> Has(frames', InEvent)
        BY <2>1, <2>3, <2>5, <3>3 DEF IInv
      <3>7. QED
        BY <3>3, <3>4, <3>5, <3>6 DEF IInv, FlagIsRight, Top
    <2>8. CASE follows = "nothing"
      <3>1. frames' = cs /\ UNCHANGED <<submitting, building>>
        BY <1>3, <2>8 DEF SubmitHandlersReturn, f
      <3> HIDE DEF cs
      <3>2. TypeOK'
        BY <1>1, <2>1, <2>3, <2>5, <3>1 DEF TypeOK, FramesOK, submitting, building, content
      <3>3. ScriptedLeaksAreAsked' /\ LatestIsDeferred' /\ (Waiting' <=> Waiting)
        BY <1>1, <2>1, <3>1 DEF ScriptedLeaksAreAsked, LatestIsDeferred, Waiting,
                                submitting, building
      <3>4. mIsSubmitting' => Has(frames', InSubmission) \/ Waiting'
        BY <2>5, <3>1, <3>3 DEF IInv, submitting
      <3>5. mGeneratingSubmit' <=> Has(frames', InEvent)
        BY <2>1, <2>3, <2>5, <3>1 DEF IInv
      <3>6. FlagIsRight(frames', mSubmitInitiatedFromUserInput')
        BY <2>5, <3>1, NotBusyFlag
      <3>7. QED
        BY <2>5, <3>1, <3>2, <3>3, <3>4, <3>5, <3>6 DEF IInv, FlagIsRight, Top
    <2>9. QED
      BY <2>6, <2>7, <2>8 DEF Follows
  <1>4. CASE SubmitEventEnds
    <2>1. /\ frames # <<>> /\ Top.at = "eventEnds" /\ mGeneratingSubmit' = FALSE
          /\ frames' = Callers
          /\ UNCHANGED <<submitting, building, mDeferSubmission, content, inFlight,
                         crashed, lastSent, left>>
      BY <1>4 DEF SubmitEventEnds, At
    <2>2. "eventEnds" \in InEvent /\ "eventEnds" \notin InSubmission
      BY DEF InEvent, InSubmission
    <2>3. /\ FramesOK(frames') /\ NotBusy(frames') /\ Len(frames') <= MaxFrames
          /\ ~Has(frames', InEvent)
          /\ Has(frames', InSubmission) <=> Has(frames, InSubmission)
      BY <1>1, <2>1, <2>2, CallersFacts DEF TypeOK
    <2>4. FlagIsRight(frames', mSubmitInitiatedFromUserInput')
      BY <2>3, NotBusyFlag
    <2>5. TypeOK'
      BY <1>1, <2>1, <2>3 DEF TypeOK, FramesOK, submitting, building, content
    <2>6. LatestIsDeferred' /\ ScriptedLeaksAreAsked' /\ (Waiting' <=> Waiting)
      BY <1>1, <2>1 DEF LatestIsDeferred, ScriptedLeaksAreAsked, Waiting, submitting, building
    <2>7. mIsSubmitting' => Has(frames', InSubmission) \/ Waiting'
      BY <2>1, <2>3, <2>6 DEF IInv, submitting
    <2>8. QED
      BY <2>1, <2>3, <2>4, <2>5, <2>6, <2>7 DEF IInv, FlagIsRight, Top
  <1>5. ASSUME NEW follows \in Follows, ClickHandlersReturn(follows)
        PROVE  IInv'
    <2>1. /\ frames # <<>> /\ Top.at = "click"
          /\ left' \in 0..MaxBuilt
          /\ UNCHANGED <<submitting, building, content, inFlight, crashed, lastSent>>
      BY <1>1, <1>5, PendingNumberFact DEF ClickHandlersReturn, At, Follows, TypeOK
    <2>2. "click" \notin InEvent /\ "click" \notin InSubmission
      BY DEF InEvent, InSubmission
    <2>3. /\ FramesOK(Callers) /\ NotBusy(Callers) /\ Len(Callers) = Len(frames) - 1
          /\ Len(frames) \in Nat /\ Len(frames) <= MaxFrames
          /\ Top.user \in BOOLEAN
          /\ Has(frames, InEvent) <=> Has(Callers, InEvent)
          /\ Has(frames, InSubmission) <=> Has(Callers, InSubmission)
      BY <1>1, <2>1, <2>2, CallersFacts DEF Frame, TypeOK
    <2>4. ASSUME FramesOK(frames'), Len(frames') <= MaxFrames,
                 FlagIsRight(frames', mSubmitInitiatedFromUserInput),
                 mGeneratingSubmit' <=> Has(frames', InEvent),
                 mGeneratingSubmit' \in BOOLEAN, mDeferSubmission' \in BOOLEAN,
                 Has(Callers, InSubmission) => Has(frames', InSubmission)
          PROVE  IInv'
      <3>1. TypeOK'
        BY <1>1, <2>1, <2>4 DEF TypeOK, FramesOK, submitting, building, content
      <3>2. ScriptedLeaksAreAsked' /\ LatestIsDeferred' /\ (Waiting' <=> Waiting)
        BY <1>1, <2>1 DEF ScriptedLeaksAreAsked, LatestIsDeferred, Waiting, submitting, building
      <3>3. mIsSubmitting' => Has(frames', InSubmission) \/ Waiting'
        BY <2>1, <2>3, <2>4, <3>2 DEF IInv, submitting
      <3>4. mSubmitInitiatedFromUserInput' = mSubmitInitiatedFromUserInput
        BY <2>1 DEF building
      <3>5. QED
        BY <2>4, <3>1, <3>2, <3>3, <3>4 DEF IInv, FlagIsRight, Top
    <2>5. CASE follows = "flush"
      <3>1. /\ Len(Callers) + 2 <= MaxFrames /\ Flush(Callers)
            /\ mDeferSubmission' = FALSE /\ UNCHANGED mGeneratingSubmit
        BY <1>5, <2>3, <2>5 DEF ClickHandlersReturn
      <3>2. /\ FramesOK(frames') /\ Len(frames') <= MaxFrames
            /\ FlagIsRight(frames', mSubmitInitiatedFromUserInput)
            /\ Has(frames', InEvent) <=> Has(Callers, InEvent)
            /\ Has(Callers, InSubmission) => Has(frames', InSubmission)
        BY <1>1, <2>3, <3>1, FlushFacts
      <3>3. mGeneratingSubmit' <=> Has(frames', InEvent)
        BY <2>3, <3>1, <3>2 DEF IInv
      <3>4. QED
        BY <1>1, <2>4, <3>1, <3>2, <3>3 DEF TypeOK
    <2>6. CASE follows = "nothing" \/ (follows = "submit" /\ mGeneratingSubmit)
      <3>1. frames' = Callers /\ mDeferSubmission' = FALSE /\ UNCHANGED mGeneratingSubmit
        BY <1>5, <2>6 DEF ClickHandlersReturn
      <3>2. mGeneratingSubmit' <=> Has(frames', InEvent)
        BY <2>3, <3>1 DEF IInv
      <3>3. FramesOK(frames') /\ NotBusy(frames')
        BY <2>3, <3>1
      <3>4. FlagIsRight(frames', mSubmitInitiatedFromUserInput)
        BY <3>3, NotBusyFlag
      <3>5. Len(frames') <= MaxFrames
        BY <1>1, <2>3, <3>1 DEF TypeOK, FramesOK
      <3>6. mGeneratingSubmit' \in BOOLEAN /\ mDeferSubmission' \in BOOLEAN
        BY <1>1, <3>1 DEF TypeOK
      <3>7. Has(Callers, InSubmission) => Has(frames', InSubmission)
        BY <3>1
      <3>8. QED
        BY <2>4, <3>2, <3>3, <3>4, <3>5, <3>6, <3>7
    <2>7. CASE follows = "submit" /\ ~mGeneratingSubmit
      <3> DEFINE f == Call("event", None, Top.user)
      <3>1. frames' = Append(Callers, f) /\ mGeneratingSubmit' = TRUE /\ mDeferSubmission' = TRUE
        BY <1>5, <2>7 DEF ClickHandlersReturn
      <3>2. "event" \in Places \ InSubmission /\ "event" \in InEvent
        BY DEF Places, Open, InSubmission, InEvent
      <3>3. f \in Frame /\ FrameOK(f) /\ f.at = "event" /\ f.at \notin Busy
        BY <2>3, <3>2, CallFacts
      <3>4. ~Has(Callers, InEvent)
        BY <2>3, <2>7 DEF IInv
      <3> HIDE DEF f
      <3>5. /\ FramesOK(frames') /\ NotBusy(frames') /\ Len(frames') = Len(Callers) + 1
            /\ Has(frames', InEvent)
            /\ Has(Callers, InSubmission) => Has(frames', InSubmission)
        BY <2>3, <3>1, <3>2, <3>3, <3>4, PushFrame
      <3>6. QED
        BY <2>3, <2>4, <3>1, <3>5, NotBusyFlag
    <2>8. QED
      BY <1>1, <2>5, <2>6, <2>7 DEF Follows, TypeOK
  <1>6. CASE ClickHandlersRemoveButton
    <2>1. /\ frames # <<>> /\ Top.at = "click" /\ frames' = Callers
          /\ UNCHANGED <<submitting, building, events, content, inFlight, crashed, lastSent>>
      BY <1>6 DEF ClickHandlersRemoveButton, At
    <2>2. "click" \notin InEvent /\ "click" \notin InSubmission
      BY DEF InEvent, InSubmission
    <2>3. StateOfRequests' /\ ScriptedLeaksAreAsked' /\ (Waiting' <=> Waiting)
      BY <1>1, <2>1 DEF StateOfRequests, ScriptedLeaksAreAsked, Waiting, submitting
    <2>4. mIsSubmitting' => Has(Callers, InSubmission) \/ Waiting'
      BY <2>1, <2>2, <2>3, CallersFacts DEF IInv, submitting
    <2>5. QED
      BY <2>1, <2>2, <2>3, <2>4, CallEnds
  <1>7. CASE FlushEnds
    <2>1. /\ frames # <<>> /\ Top.at = "flushed" /\ mPendingSubmission' = None
          /\ frames' = Callers
          /\ left' = 0 /\ 0 \in 0..MaxBuilt
          /\ UNCHANGED <<submitting, mSubmitInitiatedFromUserInput, formTainted, built,
                         mDeferSubmission, mGeneratingSubmit,
                         content, inFlight, crashed, lastSent>>
      BY <1>7 DEF FlushEnds, At
    <2>2. "flushed" \notin InEvent /\ "flushed" \notin InSubmission
      BY DEF InEvent, InSubmission
    <2>3. /\ FramesOK(frames') /\ NotBusy(frames') /\ Len(frames') <= MaxFrames
          /\ Has(frames', InEvent) <=> Has(frames, InEvent)
          /\ Has(frames', InSubmission) <=> Has(frames, InSubmission)
      BY <1>1, <2>1, <2>2, CallersFacts DEF TypeOK
    <2>4. FlagIsRight(frames', mSubmitInitiatedFromUserInput')
      BY <2>3, NotBusyFlag
    <2>5. TypeOK'
      BY <1>1, <2>1, <2>3 DEF TypeOK, FramesOK, submitting, events, content
    <2>6. LatestIsDeferred' /\ ScriptedLeaksAreAsked' /\ (Waiting' <=> Waiting)
      BY <1>1, <2>1 DEF LatestIsDeferred, ScriptedLeaksAreAsked, Waiting, submitting
    <2>7. /\ mIsSubmitting' => Has(frames', InSubmission) \/ Waiting'
          /\ mGeneratingSubmit' <=> Has(frames', InEvent)
      BY <2>1, <2>3, <2>6 DEF IInv, submitting, events
    <2>8. QED
      BY <2>3, <2>4, <2>5, <2>6, <2>7 DEF IInv, FlagIsRight, Top
  <1>8. QED
    BY <1>2, <1>3, <1>4, <1>5, <1>6, <1>7 DEF CallsReturn

\* The end of a request preserves the invariant: a form that waits for it is
\* told.
LEMMA StopStep ==
    ASSUME IInv, NEW r \in Requests, RequestStops(r)
    PROVE  IInv'
  <1>1. TypeOK /\ LatestIsDeferred /\ ScriptedLeaksAreAsked
    BY DEF IInv
  <1>2. /\ inFlight' = [inFlight EXCEPT ![r] = None] /\ frames' = frames
        /\ UNCHANGED <<building, events, content, crashed, lastSent>>
    BY DEF RequestStops
  <1>3. inFlight' \in [Requests -> Targets \cup {None}]
    BY <1>1, <1>2 DEF TypeOK
  <1>4. LatestIsDeferred' /\ ScriptedLeaksAreAsked'
    BY <1>1, <1>2 DEF LatestIsDeferred, ScriptedLeaksAreAsked, building
  <1>5. CASE inFlight[r] \in listening /\ r = mSubmittingRequest
    <2>1. ForgetCurrentSubmission
      BY <1>5 DEF RequestStops
    <2>2. TypeOK' /\ ~mIsSubmitting'
      BY <1>1, <1>2, <1>3, <2>1, ForgetFacts DEF TypeOK, building, events, content
    <2>3. QED
      BY <1>2, <1>4, <2>2 DEF IInv, Top, building, events
  <1>6. CASE ~(inFlight[r] \in listening /\ r = mSubmittingRequest)
    <2>1. UNCHANGED submitting
      BY <1>6 DEF RequestStops
    <2>2. TypeOK'
      BY <1>1, <1>2, <1>3, <2>1 DEF TypeOK, submitting, building, events, content
    <2>3. Waiting => Waiting'
      <3>1. SUFFICES ASSUME Waiting PROVE Waiting'
        OBVIOUS
      <3>2. mSubmittingRequest \in Requests /\ r # mSubmittingRequest
        BY <1>1, <1>6, <3>1 DEF Waiting, TypeOK
      <3>3. inFlight'[mSubmittingRequest] = inFlight[mSubmittingRequest]
        BY <1>1, <1>2, <3>2 DEF TypeOK
      <3>4. QED
        BY <2>1, <3>1, <3>3 DEF Waiting, submitting
    <2>4. QED
      BY <1>2, <1>4, <2>1, <2>2, <2>3 DEF IInv, Top, submitting, building, events
  <1>7. QED
    BY <1>5, <1>6

-----------------------------------------------------------------------------
(***************************************************************************)
(* The theorems.                                                           *)
(***************************************************************************)

\* The invariant holds in all states of the form element.
THEOREM InductiveInvariant == Spec => []IInv
  <1>1. Init => IInv
    <2>1. SUFFICES ASSUME Init PROVE IInv
      OBVIOUS
    <2>2. TypeOK
      <3>1. frames \in Seq(Frame) /\ Len(frames) = 0
        BY <2>1 DEF Init
      <3>2. Len(frames) <= MaxFrames /\ built \in 0..MaxBuilt
        BY <2>1, <3>1 DEF Init
      <3>3. inFlight \in [Requests -> Targets \cup {None}]
        BY <2>1 DEF Init
      <3>4. QED
        BY <2>1, <3>1, <3>2, <3>3 DEF Init, TypeOK
    <2>3. FramesOK(frames) /\ ~Has(frames, InEvent)
      <3>1. frames = <<>> /\ Len(frames) = 0 /\ 1..Len(frames) = {}
        BY <2>1 DEF Init
      <3>2. frames \in Seq(Frame)
        BY <3>1
      <3>3. ~Has(frames, InEvent)
        BY <3>1 DEF Has
      <3>4. FramesOK(frames)
        BY <3>1, <3>2 DEF FramesOK
      <3>5. QED
        BY <3>3, <3>4
    <2>4. QED
      BY <2>1, <2>2, <2>3 DEF Init, IInv, LatestIsDeferred, ScriptedLeaksAreAsked
  <1>2. IInv /\ [Next]_vars => IInv'
    <2>1. SUFFICES ASSUME IInv, [Next]_vars PROVE IInv'
      OBVIOUS
    <2>2. CASE Next
      BY <2>1, <2>2, PageStep, ReturnStep, SubmissionStep, StopStep DEF Next
    <2>3. CASE UNCHANGED vars
      BY <2>1, <2>3 DEF IInv, TypeOK, Top, LatestIsDeferred, ScriptedLeaksAreAsked, Waiting,
                        vars, submitting, building, events, content
    <2>4. QED
      BY <2>1, <2>2, <2>3
  <1>3. QED
    BY <1>1, <1>2, PTL DEF Spec

\* Type correctness of the form element and its call stack.
THEOREM TypeCorrect == Spec => []TypeOK
  <1>1. IInv => TypeOK
    BY DEF IInv
  <1>2. QED
    BY <1>1, InductiveInvariant, PTL

\* A tainted submission to another domain that the user has not started goes to
\* the URL that was approved (SubmitSubmission), however deep the calls nest.
THEOREM ScriptedLeaksAreAskedAlways == Spec => []ScriptedLeaksAreAsked
  <1>1. IInv => ScriptedLeaksAreAsked
    BY DEF IInv
  <1>2. QED
    BY <1>1, InductiveInvariant, PTL

\* A deferred submission is the one built last (DoSubmit, Submit).
THEOREM LatestIsDeferredAlways == Spec => []LatestIsDeferred
  <1>1. IInv => LatestIsDeferred
    BY DEF IInv
  <1>2. QED
    BY <1>1, InductiveInvariant, PTL

\* No path through the form's methods leaves it marked as submitting, but for
\* one that waits for its request (SubmitSubmission, OnStateChange), nor as
\* generating a submit event (HandleDOMEvent).
THEOREM FormStaysUsableAlways == Spec => []FormStaysUsable
  <1>1. IInv => FormStaysUsable
    <2>1. SUFFICES ASSUME IInv, frames = <<>> PROVE ~mGeneratingSubmit /\ (mIsSubmitting => Waiting)
      BY DEF FormStaysUsable
    <2>2. ~Has(frames, InEvent) /\ ~Has(frames, InSubmission)
      BY <2>1 DEF Has
    <2>3. QED
      BY <2>1, <2>2 DEF IInv
  <1>2. QED
    BY <1>1, InductiveInvariant, PTL

=============================================================================
