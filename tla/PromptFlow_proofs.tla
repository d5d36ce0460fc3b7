------------------------- MODULE PromptFlow_proofs -------------------------
(* Theorems about PromptFlow for every set of apps and aliases and every      *)
(* hold time, and that it implements PromptSlot, with their proofs.           *)
EXTENDS PromptFlow, SequenceTheorems, WellFoundedInduction, TLAPS

-----------------------------------------------------------------------------
(* A nonempty set of natural numbers has a least element. *)

LEMMA LeastNat ==
  ASSUME NEW T, T \subseteq Nat, T # {}
  PROVE  \E n \in T : \A m \in T : n <= m
<1>1. PICK n \in T : \A m \in T : ~(<<m, n>> \in OpToRel(<, Nat))
  BY NatLessThanWellFounded, WFMin
<1>2. \A m \in T : ~(m < n)
  BY <1>1 DEF OpToRel
<1> QED BY <1>2

(* Removing the deferred prompts that overlap a resolved one.  The function   *)
(* inside WithoutOverlap is shown to exist and to return sequences, by taking *)
(* the smallest length for which it would not.                                *)

IsKept(kept, S, s, p) ==
  /\ WithoutOverlap(s, p) = kept[Len(s)]
  /\ \A n \in 0..Len(s) : kept[n] \in Seq(S)
  /\ kept[0] = <<>>
  /\ \A n \in 1..Len(s) :
       kept[n] = IF Overlap(s[n], p) THEN kept[n-1] ELSE Append(kept[n-1], s[n])

LEMMA WithoutOverlapSteps ==
  ASSUME NEW S, NEW s \in Seq(S), NEW p
  PROVE  \E kept : IsKept(kept, S, s, p)
<1> DEFINE Step(g, n) == IF n = 0 THEN <<>>
                         ELSE IF Overlap(s[n], p) THEN g[n-1] ELSE Append(g[n-1], s[n])
<1> DEFINE Good(n) == \E g \in [0..n -> Seq(S)] : \A i \in 0..n : g[i] = Step(g, i)
<1> DEFINE Bad == {n \in Nat : n <= Len(s) /\ ~Good(n)}
<1>0. Len(s) \in Nat /\ \A i \in 1..Len(s) : s[i] \in S
  BY LenProperties, ElementOfSeq
<1>1. Bad = {}
  <2> SUFFICES ASSUME Bad # {} PROVE FALSE
    OBVIOUS
  <2>1. PICK n \in Bad : \A m \in Bad : n <= m
    <3>1. Bad \subseteq Nat
      OBVIOUS
    <3> HIDE DEF Bad
    <3> QED BY <3>1, LeastNat
  <2>2. CASE n = 0
    <3>1. [i \in 0..0 |-> <<>>] \in [0..0 -> Seq(S)]
      BY EmptySeq
    <3>2. \A i \in 0..0 : [j \in 0..0 |-> <<>>][i] = Step([j \in 0..0 |-> <<>>], i)
      OBVIOUS
    <3>3. Good(0)
      BY <3>1, <3>2
    <3> QED BY <2>1, <2>2, <3>3
  <2>3. CASE n # 0
    <3>1. n \in Nat /\ n <= Len(s) /\ n - 1 \in Nat
      <4> HIDE DEF Good
      <4> QED BY <2>3
    <3>2. Good(n - 1)
      <4>1. n - 1 \notin Bad
        <5> HIDE DEF Bad
        <5> QED BY <2>1, <3>1
      <4> HIDE DEF Good
      <4> QED BY <4>1, <3>1, <1>0
    <3>3. PICK g \in [0..(n-1) -> Seq(S)] : \A i \in 0..(n-1) : g[i] = Step(g, i)
      BY <3>2
    <3> DEFINE h == [i \in 0..n |-> IF i <= n - 1 THEN g[i]
                                    ELSE IF Overlap(s[n], p) THEN g[n-1]
                                         ELSE Append(g[n-1], s[n])]
    <3>4. s[n] \in S /\ g[n-1] \in Seq(S)
      BY <3>1, <1>0, <2>3
    <3>5. Append(g[n-1], s[n]) \in Seq(S)
      BY <3>4, AppendProperties
    <3>6. h \in [0..n -> Seq(S)]
      BY <3>1, <3>4, <3>5
    <3>7. ASSUME NEW i \in 0..n PROVE h[i] = Step(h, i)
      <4>1. CASE i = 0
        BY <4>1, <3>1, <3>3
      <4>2. CASE i # 0 /\ i <= n - 1
        <5>1. i \in 0..(n-1) /\ i - 1 \in 0..(n-1) /\ i - 1 \in 0..n
          BY <4>2, <3>1
        <5>2. h[i] = g[i] /\ h[i-1] = g[i-1]
          BY <5>1, <3>1
        <5>3. g[i] = Step(g, i)
          BY <5>1, <3>3
        <5> HIDE DEF h
        <5> QED BY <5>2, <5>3
      <4>3. CASE i = n
        BY <4>3, <3>1, <2>3
      <4> QED BY <4>1, <4>2, <4>3, <3>1
    <3>8. Good(n)
      <4> HIDE DEF h
      <4> QED BY <3>6, <3>7
    <3> QED BY <3>8, <2>1
  <2> QED BY <2>2, <2>3
<1>2. Good(Len(s))
  <2> HIDE DEF Good
  <2>1. SUFFICES ASSUME ~Good(Len(s)) PROVE FALSE
    OBVIOUS
  <2>2. Len(s) \in Bad
    BY <1>0, <2>1
  <2> QED BY <1>1, <2>2
<1> DEFINE kept == CHOOSE f : f = [n \in 0..Len(s) |-> Step(f, n)]
<1>3. \E f : f = [n \in 0..Len(s) |-> Step(f, n)]
  <2>1. PICK g \in [0..Len(s) -> Seq(S)] : \A i \in 0..Len(s) : g[i] = Step(g, i)
    BY <1>2
  <2>2. g = [n \in 0..Len(s) |-> Step(g, n)]
    BY <2>1
  <2> QED BY <2>2
<1>4. kept = [n \in 0..Len(s) |-> Step(kept, n)]
  BY <1>3
<1>5. \A n \in 0..Len(s) : kept[n] \in Seq(S)
  <2> DEFINE Untyped == {n \in Nat : n <= Len(s) /\ kept[n] \notin Seq(S)}
  <2> HIDE DEF kept
  <2>1. Untyped = {}
    <3> SUFFICES ASSUME Untyped # {} PROVE FALSE
      OBVIOUS
    <3>1. PICK n \in Untyped : \A m \in Untyped : n <= m
      <4>1. Untyped \subseteq Nat
        OBVIOUS
      <4> HIDE DEF Untyped
      <4> QED BY <4>1, LeastNat
    <3>2. kept[n] = Step(kept, n)
      <4>1. n \in 0..Len(s)
        BY <3>1, <1>0
      <4> HIDE DEF Step, Untyped
      <4> QED BY <4>1, <1>4
    <3>3. n # 0
      BY <3>1, <3>2, EmptySeq
    <3>4. kept[n-1] \in Seq(S) /\ s[n] \in S
      BY <3>1, <3>3, <1>0
    <3>5. Append(kept[n-1], s[n]) \in Seq(S)
      BY <3>4, AppendProperties
    <3> QED BY <3>1, <3>2, <3>3, <3>4, <3>5
  <2> QED BY <2>1, <1>0
<1>6. WithoutOverlap(s, p) = kept[Len(s)]
  BY DEF WithoutOverlap
<1>7. kept[0] = <<>>
  <2>1. 0 \in 0..Len(s)
    BY <1>0
  <2> HIDE DEF kept
  <2>2. kept[0] = Step(kept, 0)
    <3> HIDE DEF Step
    <3> QED BY <1>4, <2>1
  <2> QED BY <2>2
<1>8. ASSUME NEW n \in 1..Len(s)
      PROVE  kept[n] = IF Overlap(s[n], p) THEN kept[n-1] ELSE Append(kept[n-1], s[n])
  <2>1. n \in 0..Len(s) /\ n # 0
    BY <1>0
  <2> HIDE DEF kept
  <2>2. kept[n] = Step(kept, n)
    <3> HIDE DEF Step
    <3> QED BY <1>4, <2>1
  <2> QED BY <2>1, <2>2
<1> HIDE DEF kept
<1>9. IsKept(kept, S, s, p)
  BY <1>5, <1>6, <1>7, <1>8 DEF IsKept
<1> QED BY <1>9

LEMMA WithoutOverlapType ==
  ASSUME NEW S, NEW s \in Seq(S), NEW p
  PROVE  WithoutOverlap(s, p) \in Seq(S)
<1>1. PICK kept : IsKept(kept, S, s, p)
  BY WithoutOverlapSteps
<1> QED BY <1>1, LenProperties DEF IsKept

-----------------------------------------------------------------------------
(* Type correctness *)

\* The frames that the actions build are frames.
LEMMA PollFrames ==
  /\ IdlePoll \in PollFrame
  /\ \A pc \in {"loop", "dashboardAuth", "exitAuth"} : [IdlePoll EXCEPT !.pc = pc] \in PollFrame
  /\ \A f \in PollFrame : [f EXCEPT !.pc = "issueResult"] \in PollFrame
  /\ \A p \in Prompt : [pc |-> "issueBox", prompt |-> p] \in PollFrame
BY DEF PollFrame, IdlePoll

LEMMA ResultFrames ==
  /\ NoResult \in ResultFrame
  /\ \A p \in Prompt \union {NoPrompt} : \A ok \in BOOLEAN :
       [pc |-> "begin", prompt |-> p, success |-> ok, launched |-> FALSE, raised |-> FALSE]
         \in ResultFrame
  /\ \A f \in ResultFrame : \A pc \in {"launch", "launchBox", "release", "pending"} :
       [f EXCEPT !.pc = pc] \in ResultFrame
  /\ \A f \in ResultFrame : [f EXCEPT !.pc = "release", !.launched = TRUE] \in ResultFrame
  /\ \A f \in ResultFrame : [f EXCEPT !.pc = "release", !.raised = TRUE] \in ResultFrame
BY DEF ResultFrame, NoResult

LEMMA MessageHead ==
  ASSUME TypeOK, ui_queue # <<>>
  PROVE  /\ Head(ui_queue) \in Message
         /\ Tail(ui_queue) \in Seq(Message)
         /\ Head(ui_queue).type = "PROMPT" => Head(ui_queue).payload \in Prompt
<1>1. Head(ui_queue) \in Message /\ Tail(ui_queue) \in Seq(Message)
  BY HeadTailProperties DEF TypeOK
<1> QED BY <1>1 DEF Message, PromptMsg, ExitMsg

\* Whatever queue q its message goes to, _process_pending_prompts keeps the types.
LEMMA ProcessPendingType ==
  ASSUME TypeOK, NEW q \in Seq(Message), ProcessPending(q)
  PROVE  /\ (prompt_in_progress \in BOOLEAN)'
         /\ (prompting_apps \in SUBSET Aliases)'
         /\ (prompt_cooldowns \in [Aliases -> Nat])'
         /\ (pending_prompts \in Seq(Prompt))'
         /\ (ui_queue \in Seq(Message))'
<1>1. CASE UNCHANGED controllerVars /\ ui_queue' = q
  BY <1>1 DEF TypeOK, controllerVars
<1>2. CASE /\ pending_prompts # <<>>
           /\ StartPrompt(Head(pending_prompts))
           /\ pending_prompts' = Tail(pending_prompts)
           /\ ui_queue' = Append(q, PromptMsg(Head(pending_prompts)))
           /\ UNCHANGED prompt_cooldowns
  <2>1. Head(pending_prompts) \in Prompt /\ Tail(pending_prompts) \in Seq(Prompt)
    BY <1>2, HeadTailProperties DEF TypeOK
  <2>2. TrackedAliases(Head(pending_prompts)) \subseteq Aliases
    BY <2>1, AppsAssumption DEF TrackedAliases, Prompt
  <2>3. PromptMsg(Head(pending_prompts)) \in Message
    BY <2>1 DEF Message
  <2>4. Append(q, PromptMsg(Head(pending_prompts))) \in Seq(Message)
    BY <2>3, AppendProperties
  <2> QED BY <1>2, <2>1, <2>2, <2>4 DEF TypeOK, StartPrompt
<1> QED BY <1>1, <1>2 DEF ProcessPending

\* Every step keeps the types.
LEMMA TypeStep == ASSUME TypeOK, [Next]_vars PROVE TypeOK'
<1> USE DEF TypeOK, controllerVars, uiVars
<1>1. ASSUME Tick PROVE TypeOK'
  BY <1>1 DEF Tick
<1>2. ASSUME NEW p \in Prompt, InterceptDefer(p) PROVE TypeOK'
  BY <1>2, AppendProperties DEF InterceptDefer
<1>3. ASSUME NEW p \in Prompt, InterceptStart(p) PROVE TypeOK'
  BY <1>3, AppsAssumption DEF InterceptStart, StartPrompt, TrackedAliases, Prompt
<1>4. ASSUME MonitorPut PROVE TypeOK'
  BY <1>4, AppendProperties DEF MonitorPut, Message, PromptMsg
<1>5. ASSUME PollStart PROVE TypeOK'
  BY <1>5, PollFrames DEF PollStart
<1>6. ASSUME PollEmpty PROVE TypeOK'
  BY <1>6, PollFrames DEF PollEmpty, ReturnFromPoll, BelowPoll
<1>7. ASSUME PollPrompt PROVE TypeOK'
  <2> DEFINE p == Head(ui_queue).payload
  <2> USE DEF ReturnFromPoll, BelowPoll
  <2>1. /\ Head(ui_queue) \in Message /\ Tail(ui_queue) \in Seq(Message) /\ p \in Prompt
    BY <1>7, MessageHead DEF PollPrompt, NextIs
  <2>2. CASE dialog # NoPrompt /\ dialog_exists
    <3>1. Append(Tail(ui_queue), Head(ui_queue)) \in Seq(Message)
      BY <2>1, AppendProperties
    <3> QED BY <1>7, <2>2, <3>1, PollFrames DEF PollPrompt
  <2>3. CASE ~(dialog # NoPrompt /\ dialog_exists) /\ ~prompt_in_progress
    <3>1. ProcessPending(Tail(ui_queue)) \/ (ui_queue' = Tail(ui_queue) /\ UNCHANGED controllerVars)
      BY <1>7, <2>3 DEF PollPrompt
    <3>2. UNCHANGED <<poll, dialog, dialog_exists, top, hand, polling, result, running>>
      BY <1>7, <2>3 DEF PollPrompt
    <3> QED BY <2>1, <3>1, <3>2, ProcessPendingType
  <2>4. CASE ~(dialog # NoPrompt /\ dialog_exists) /\ prompt_in_progress
    BY <1>7, <2>1, <2>4, PollFrames DEF PollPrompt, ShowIssue, OpenDialog
  <2> QED BY <2>2, <2>3, <2>4
<1>8. ASSUME PollPromptRaises PROVE TypeOK'
  BY <1>8, MessageHead, PollFrames DEF PollPromptRaises, NextIs, ReturnFromPoll, BelowPoll
<1>9. ASSUME PollExit PROVE TypeOK'
  BY <1>9, MessageHead, PollFrames DEF PollExit, NextIs
<1>10. ASSUME ResultBegin PROVE TypeOK'
  BY <1>10, ResultFrames DEF ResultBegin, AtResult
<1>11. ASSUME ResultBeginRaises PROVE TypeOK'
  BY <1>11, PollFrames, ResultFrames DEF ResultBeginRaises, RaiseFromResult, BelowResult
<1>12. ASSUME Launch PROVE TypeOK'
  BY <1>12, ResultFrames DEF Launch, AtResult
<1>13. ASSUME ResultRelease PROVE TypeOK'
  <2>1. (pending_prompts \in Seq(Prompt))'
    BY <1>13, WithoutOverlapType DEF ResultRelease
  <2>2. HoldTime \in Nat
    BY TimingAssumption DEF HoldTime
  <2>3. (prompt_cooldowns \in [Aliases -> Nat])'
    BY <1>13, <2>2 DEF ResultRelease
  <2>4. /\ (prompting_apps \in SUBSET Aliases)'
        /\ (prompt_in_progress \in BOOLEAN)'
        /\ UNCHANGED <<hand, ui_queue, dialog, dialog_exists, running>>
    BY <1>13 DEF ResultRelease, RaiseFromResult
  <2>5. /\ (poll \in PollFrame)'
        /\ (polling \in BOOLEAN)'
        /\ (result \in ResultFrame)'
        /\ (top \in {"mainloop", "poll", "result"})'
    BY <1>13, PollFrames, ResultFrames DEF ResultRelease, RaiseFromResult, AtResult, BelowResult
  <2> QED BY <2>1, <2>3, <2>4, <2>5
<1>14. ASSUME ResultReleaseRaises PROVE TypeOK'
  BY <1>14, PollFrames, ResultFrames DEF ResultReleaseRaises, RaiseFromResult, BelowResult
<1>15. ASSUME ResultPending PROVE TypeOK'
  <2>1. ProcessPending(ui_queue) /\ ReturnFromResult /\ UNCHANGED <<hand, running>>
    BY <1>15 DEF ResultPending
  <2>2. /\ (dialog \in Prompt \union {NoPrompt})' /\ (dialog_exists \in BOOLEAN)'
        /\ (poll \in PollFrame)'
        /\ (polling \in BOOLEAN)' /\ (result = NoResult)' /\ (top \in {"mainloop", "poll", "result"})'
    BY <2>1, PollFrames DEF ReturnFromResult, BelowResult
  <2> QED BY <2>1, <2>2, ProcessPendingType, ResultFrames
<1>16. ASSUME ResultPendingRaises PROVE TypeOK'
  BY <1>16, PollFrames, ResultFrames DEF ResultPendingRaises, RaiseFromResult, BelowResult
<1>17. ASSUME RequestExit PROVE TypeOK'
  BY <1>17, AppendProperties DEF RequestExit, Message, ExitMsg
<1>18. ASSUME AuthDialogCloses PROVE TypeOK'
  BY <1>18, PollFrames DEF AuthDialogCloses
<1>19. ASSUME ExitConfirmed PROVE TypeOK'
  BY <1>19 DEF ExitConfirmed
<1>20. ASSUME DismissIssue PROVE TypeOK'
  <2>1. poll.prompt \in Prompt \union {NoPrompt}
    BY DEF PollFrame
  <2> QED BY <1>20, <2>1, PollFrames, ResultFrames DEF DismissIssue, CallResult
<1>21. ASSUME AnswerDialog PROVE TypeOK'
  <2>1. PICK success \in BOOLEAN : CallResult(dialog, success)
    BY <1>21 DEF AnswerDialog
  <2>2. (result \in ResultFrame)' /\ (top \in {"mainloop", "poll", "result"})'
    BY <2>1, ResultFrames DEF CallResult
  <2> QED BY <1>21, <2>2 DEF AnswerDialog
<1>22. ASSUME DismissLaunchBox PROVE TypeOK'
  BY <1>22, ResultFrames DEF DismissLaunchBox, AtResult
<1>23. ASSUME PollExitRaises PROVE TypeOK'
  BY <1>23, MessageHead, PollFrames DEF PollExitRaises, NextIs, ReturnFromPoll, BelowPoll
<1>24. ASSUME ExitRaises PROVE TypeOK'
  BY <1>24, PollFrames DEF ExitRaises, ReturnFromPoll, BelowPoll
<1>30. ASSUME UNCHANGED vars PROVE TypeOK'
  BY <1>30 DEF vars
<1> QED
  BY <1>1, <1>2, <1>3, <1>4, <1>5, <1>6, <1>7, <1>8, <1>9, <1>10, <1>11, <1>12, <1>13, <1>14, <1>15,
     <1>16, <1>17, <1>18, <1>19, <1>20, <1>21, <1>22, <1>23, <1>24, <1>30
  DEF Next, Monitor, PollStep, ResultStep, User, Exited

\* Every variable always has its type.
THEOREM TypeCorrect == Spec => []TypeOK
<1>1. Init => TypeOK
  <2>1. <<>> \in Seq(Prompt) /\ <<>> \in Seq(Message)
    BY EmptySeq
  <2> SUFFICES ASSUME Init PROVE TypeOK
    OBVIOUS
  <2>2. pending_prompts \in Seq(Prompt) /\ ui_queue \in Seq(Message)
    BY <2>1, Zenon DEF Init
  <2>3. poll \in PollFrame /\ result \in ResultFrame
    BY PollFrames, ResultFrames DEF Init
  <2>4. /\ prompting_apps \in SUBSET Aliases
        /\ prompt_cooldowns \in [Aliases -> Nat]
        /\ hand \in Prompt \union {NoPrompt}
        /\ dialog \in Prompt \union {NoPrompt}
        /\ top \in {"mainloop", "poll", "result"}
    BY DEF Init
  <2>5. /\ prompt_in_progress \in BOOLEAN
        /\ dialog_exists \in BOOLEAN
        /\ polling \in BOOLEAN
        /\ running \in BOOLEAN
    BY DEF Init
  <2> QED BY <2>2, <2>3, <2>4, <2>5 DEF TypeOK
<1>2. TypeOK /\ [Next]_vars => TypeOK'
  BY TypeStep
<1> QED BY <1>1, <1>2, PTL DEF Spec

-----------------------------------------------------------------------------
(* At most one prompt is outstanding *)

PromptsIn(q) == {i \in DOMAIN q : q[i].type = "PROMPT"}
AtMostOne(S) == \A i, j \in S : i = j

\* What the queue operations do to the positions of the PROMPT messages.
LEMMA AppendPrompt ==
  ASSUME NEW q \in Seq(Message), NEW p, PromptsIn(q) = {}
  PROVE  AtMostOne(PromptsIn(Append(q, PromptMsg(p))))
BY AppendProperties DEF PromptsIn, AtMostOne

LEMMA AppendExit ==
  ASSUME NEW q \in Seq(Message)
  PROVE  PromptsIn(Append(q, ExitMsg)) = PromptsIn(q)
<1>1. /\ Len(Append(q, ExitMsg)) = Len(q) + 1
      /\ \A i \in 1..Len(q) : Append(q, ExitMsg)[i] = q[i]
      /\ Append(q, ExitMsg)[Len(q) + 1] = ExitMsg
      /\ DOMAIN q = 1..Len(q)
      /\ DOMAIN Append(q, ExitMsg) = 1..(Len(q) + 1)
      /\ Len(q) \in Nat
  BY AppendProperties, LenProperties
<1>2. ExitMsg.type # "PROMPT"
  BY DEF ExitMsg
<1> QED BY <1>1, <1>2 DEF PromptsIn

LEMMA TailPrompts ==
  ASSUME NEW q \in Seq(Message), q # <<>>, AtMostOne(PromptsIn(q))
  PROVE  /\ AtMostOne(PromptsIn(Tail(q)))
         /\ PromptsIn(Tail(q)) # {} => PromptsIn(q) # {}
         /\ Head(q).type = "PROMPT" => PromptsIn(q) # {} /\ PromptsIn(Tail(q)) = {}
<1>1. /\ Len(q) \in Nat /\ Len(q) # 0
      /\ DOMAIN q = 1..Len(q)
      /\ DOMAIN Tail(q) = 1..(Len(q) - 1)
      /\ \A i \in 1..(Len(q) - 1) : Tail(q)[i] = q[i + 1]
      /\ Head(q) = q[1]
  BY HeadTailProperties, LenProperties
<1>2. \A i \in PromptsIn(Tail(q)) : i + 1 \in PromptsIn(q) /\ i \in 1..(Len(q) - 1)
  BY <1>1 DEF PromptsIn
<1>3. Head(q).type = "PROMPT" => 1 \in PromptsIn(q)
  BY <1>1 DEF PromptsIn
<1> QED BY <1>1, <1>2, <1>3 DEF AtMostOne

\* A message that the head returns to the end of the queue is still the only one.
LEMMA RotatePrompt ==
  ASSUME NEW q \in Seq(Message), q # <<>>, AtMostOne(PromptsIn(q)), Head(q) \in Message,
         Head(q).type = "PROMPT"
  PROVE  AtMostOne(PromptsIn(Append(Tail(q), Head(q))))
<1>1. PromptsIn(Tail(q)) = {} /\ Tail(q) \in Seq(Message)
  BY TailPrompts, HeadTailProperties
<1>2. PICK p : Head(q) = PromptMsg(p)
  BY DEF Message, ExitMsg, PromptMsg
<1> QED BY <1>1, <1>2, AppendPrompt

\* Somebody has, or is answering, a prompt that is no longer in the queue.
Shown == dialog_exists \/ IssueOnScreen \/ Deciding

LEMMA SinglePromptAlt ==
  SinglePrompt <=>
    /\ AtMostOne(QueuedPrompts)
    /\ InHand => QueuedPrompts = {} /\ ~Shown
    /\ QueuedPrompts # {} => ~Shown
    /\ dialog_exists => ~IssueOnScreen /\ ~Deciding
    /\ IssueOnScreen => ~Deciding
    /\ (InHand \/ QueuedPrompts # {} \/ Shown) => prompt_in_progress
BY DEF SinglePrompt, AtMostOne, Shown

\* _process_pending_prompts starts a prompt only if none is outstanding.
LEMMA ProcessPendingSingle ==
  ASSUME TypeOK, NEW q \in Seq(Message), AtMostOne(PromptsIn(q)), ProcessPending(q),
         PromptsIn(q) # {} => prompt_in_progress
  PROVE  /\ AtMostOne(PromptsIn(ui_queue'))
         /\ (PromptsIn(ui_queue') # {} => prompt_in_progress')
         /\ \/ UNCHANGED controllerVars /\ ui_queue' = q
            \/ ~prompt_in_progress /\ prompt_in_progress'
<1>1. CASE UNCHANGED controllerVars /\ ui_queue' = q
  BY <1>1 DEF controllerVars
<1>2. CASE /\ ~prompt_in_progress
           /\ StartPrompt(Head(pending_prompts))
           /\ ui_queue' = Append(q, PromptMsg(Head(pending_prompts)))
  BY <1>2, AppendPrompt DEF StartPrompt
<1> QED BY <1>1, <1>2 DEF ProcessPending

LEMMA SinglePromptStep ==
  ASSUME TypeOK, SinglePrompt, [Next]_vars
  PROVE  SinglePrompt'
<1> DEFINE Q == QueuedPrompts
<1> USE DEF controllerVars, uiVars
<1>0. /\ Q = PromptsIn(ui_queue)
      /\ Q' = PromptsIn(ui_queue')
      /\ ui_queue \in Seq(Message)
      /\ poll \in PollFrame
      /\ result \in ResultFrame
  BY DEF QueuedPrompts, PromptsIn, TypeOK
<1>a. AtMostOne(Q) /\ (InHand => Q = {} /\ ~Shown) /\ (Q # {} => ~Shown)
  BY SinglePromptAlt
<1>b. /\ dialog_exists => ~IssueOnScreen /\ ~Deciding
      /\ IssueOnScreen => ~Deciding
      /\ (InHand \/ Q # {} \/ Shown) => prompt_in_progress
  BY SinglePromptAlt
<1> SUFFICES /\ AtMostOne(Q')
             /\ (InHand' => Q' = {} /\ ~Shown') /\ (Q' # {} => ~Shown')
             /\ dialog_exists' => ~IssueOnScreen' /\ ~Deciding'
             /\ IssueOnScreen' => ~Deciding'
             /\ (InHand' \/ Q' # {} \/ Shown') => prompt_in_progress'
  <2>1. QueuedPrompts' = Q'
    OBVIOUS
  <2> HIDE DEF Q
  <2> QED BY <2>1 DEF SinglePrompt, AtMostOne, Shown
<1> HIDE DEF Q
<1> USE DEF InHand, Shown, IssueOnScreen, Deciding
<1>s. ASSUME UNCHANGED <<ui_queue, hand, prompt_in_progress>>
      PROVE  Q' = Q /\ InHand' = InHand
  BY <1>s, <1>0
<1>1. CASE Tick
  <2>1. Q' = Q /\ InHand' = InHand /\ UNCHANGED prompt_in_progress
    BY <1>1, <1>s DEF Tick
  <2> QED BY <1>1, <2>1, <1>0, <1>a, <1>b DEF Tick
<1>2. CASE \E p \in Prompt : InterceptDefer(p)
  BY <1>2, <1>s, <1>a, <1>b DEF InterceptDefer
<1>3. CASE \E p \in Prompt : InterceptStart(p)
  <2>1. Q' = Q /\ ~prompt_in_progress /\ prompt_in_progress'
    BY <1>3, <1>0 DEF InterceptStart, StartPrompt
  <2>2. UNCHANGED <<dialog_exists, poll, result>>
    BY <1>3 DEF InterceptStart
  <2> QED BY <2>1, <2>2, <1>a, <1>b
<1>4. CASE MonitorPut
  <2>1. InHand /\ ~InHand' /\ Q = {} /\ ~Shown
    BY <1>4, <1>a DEF MonitorPut
  <2>2. AtMostOne(Q')
    BY <1>4, <2>1, <1>0, AppendPrompt DEF MonitorPut
  <2> QED BY <1>4, <2>1, <2>2, <1>b DEF MonitorPut
<1>5. CASE PollStart
  <2>1. Q' = Q /\ InHand' = InHand /\ UNCHANGED prompt_in_progress
    BY <1>5, <1>s DEF PollStart
  <2> QED BY <1>5, <2>1, <1>0, <1>a, <1>b DEF PollStart, IdlePoll, PollFrame
<1>6. CASE PollEmpty
  <2>1. Q' = Q /\ InHand' = InHand /\ UNCHANGED prompt_in_progress
    BY <1>6, <1>s DEF PollEmpty
  <2> QED BY <1>6, <2>1, <1>0, <1>a, <1>b DEF PollEmpty, ReturnFromPoll, IdlePoll
<1>7. CASE PollPrompt
  <2> USE DEF ReturnFromPoll, IdlePoll
  <2>1. /\ ui_queue # <<>> /\ Head(ui_queue).type = "PROMPT" /\ poll.pc = "loop"
        /\ UNCHANGED <<hand, result>>
    BY <1>7 DEF PollPrompt, InPollLoop, NextIs
  <2>2. Q # {} /\ PromptsIn(Tail(ui_queue)) = {} /\ ~Shown /\ ~InHand /\ prompt_in_progress
    BY <2>1, <1>0, <1>a, <1>b, TailPrompts
  <2>3. ui_queue' = Tail(ui_queue) /\ UNCHANGED controllerVars
    BY <1>7, <2>2 DEF PollPrompt
  <2>4. Q' = {} /\ ~InHand'
    BY <2>1, <2>2, <2>3, <1>0
  <2>5. /\ dialog_exists' => poll'.pc # "issueBox"
        /\ ~Deciding'
    <3>1. ShowIssue(Head(ui_queue).payload) \/ OpenDialog(Head(ui_queue).payload)
      BY <1>7, <2>2 DEF PollPrompt
    <3>2. CASE ShowIssue(Head(ui_queue).payload)
      BY <3>2, <2>1, <2>2 DEF ShowIssue
    <3>3. CASE OpenDialog(Head(ui_queue).payload)
      <4>1. poll'.pc # "issueBox"
        BY <3>3 DEF OpenDialog
      <4> QED BY <4>1, <2>1, <2>2
    <3> QED BY <3>1, <3>2, <3>3
  <2> QED BY <2>2, <2>3, <2>4, <2>5 DEF AtMostOne
<1>8. CASE PollPromptRaises
  <2>1. /\ ui_queue # <<>> /\ Head(ui_queue).type = "PROMPT"
        /\ ui_queue' = Tail(ui_queue) /\ poll' = IdlePoll
        /\ UNCHANGED <<controllerVars, hand, dialog_exists, result>>
    BY <1>8 DEF PollPromptRaises, NextIs, ReturnFromPoll
  <2>2. Q # {} /\ PromptsIn(Tail(ui_queue)) = {} /\ ~Shown /\ ~InHand
    BY <2>1, <1>0, <1>a, TailPrompts
  <2>3. Q' = {}
    BY <2>1, <2>2, <1>0
  <2> QED BY <2>1, <2>2, <2>3 DEF AtMostOne, IdlePoll
<1>9. CASE PollExit
  <2>1. /\ ui_queue # <<>> /\ ui_queue' = Tail(ui_queue)
        /\ poll'.pc = "exitAuth" /\ poll.pc = "loop"
        /\ UNCHANGED <<controllerVars, hand, dialog_exists, result>>
    BY <1>9 DEF PollExit, NextIs, InPollLoop, IdlePoll
  <2>2. AtMostOne(Q') /\ (Q' # {} => Q # {})
    BY <2>1, <1>0, <1>a, TailPrompts
  <2> QED BY <2>1, <2>2, <1>a, <1>b
<1>10. CASE ResultBegin
  <2>1. Q' = Q /\ InHand' = InHand /\ UNCHANGED prompt_in_progress
    BY <1>10, <1>s DEF ResultBegin
  <2> QED BY <1>10, <2>1, <1>0, <1>a, <1>b DEF ResultBegin, InResult, AtResult, ResultFrame
<1>11. CASE ResultBeginRaises
  <2>1. Q' = Q /\ InHand' = InHand /\ UNCHANGED prompt_in_progress
    BY <1>11, <1>s DEF ResultBeginRaises, RaiseFromResult
  <2> QED BY <1>11, <2>1, <1>0, <1>a, <1>b DEF ResultBeginRaises, InResult, RaiseFromResult, NoResult, IdlePoll
<1>12. CASE Launch
  <2>1. Q' = Q /\ InHand' = InHand /\ UNCHANGED prompt_in_progress
    BY <1>12, <1>s DEF Launch
  <2> QED BY <1>12, <2>1, <1>0, <1>a, <1>b DEF Launch, InResult, AtResult, ResultFrame
<1>13. CASE ResultRelease
  <2>1. Deciding /\ result'.pc \in {"none", "pending"}
    BY <1>13, <1>0 DEF ResultRelease, InResult, RaiseFromResult, NoResult, AtResult, ResultFrame
  <2>2. Q' = Q /\ UNCHANGED <<hand, dialog_exists>> /\ (poll'.pc = "issueBox" => IssueOnScreen)
    BY <1>13, <1>0 DEF ResultRelease, RaiseFromResult, IdlePoll
  <2> QED BY <2>1, <2>2, <1>a, <1>b
<1>14. CASE ResultReleaseRaises
  <2>1. Q' = Q /\ InHand' = InHand /\ UNCHANGED prompt_in_progress
    BY <1>14, <1>s DEF ResultReleaseRaises, RaiseFromResult
  <2> QED BY <1>14, <2>1, <1>0, <1>a, <1>b DEF ResultReleaseRaises, InResult, RaiseFromResult, NoResult, IdlePoll
<1>15. CASE ResultPending
  <2>1. ProcessPending(ui_queue) /\ result' = NoResult /\ UNCHANGED hand
    BY <1>15 DEF ResultPending, ReturnFromResult
  <2>2. /\ AtMostOne(Q')
        /\ Q' # {} => prompt_in_progress'
        /\ \/ UNCHANGED controllerVars /\ ui_queue' = ui_queue
           \/ ~prompt_in_progress /\ prompt_in_progress'
    BY <2>1, <1>0, <1>a, <1>b, ProcessPendingSingle
  <2>3. (dialog_exists' => dialog_exists) /\ (poll'.pc = "issueBox" => IssueOnScreen)
    BY <1>15 DEF ResultPending, ReturnFromResult, IdlePoll
  <2>4. ~Deciding'
    BY <2>1 DEF NoResult
  <2>5. CASE UNCHANGED controllerVars /\ ui_queue' = ui_queue
    BY <2>1, <2>2, <2>3, <2>4, <2>5, <1>0, <1>a, <1>b
  <2>6. CASE ~prompt_in_progress /\ prompt_in_progress'
    BY <2>1, <2>2, <2>3, <2>4, <2>6, <1>a, <1>b
  <2> QED BY <2>2, <2>5, <2>6
<1>16. CASE ResultPendingRaises
  <2>1. Q' = Q /\ InHand' = InHand /\ UNCHANGED prompt_in_progress
    BY <1>16, <1>s DEF ResultPendingRaises, RaiseFromResult
  <2> QED BY <1>16, <2>1, <1>0, <1>a, <1>b DEF ResultPendingRaises, InResult, RaiseFromResult, NoResult, IdlePoll
<1>17. CASE RequestExit
  <2>1. Q' = Q
    BY <1>17, <1>0, AppendExit DEF RequestExit
  <2> QED BY <1>17, <2>1, <1>a, <1>b DEF RequestExit
<1>18. CASE AuthDialogCloses
  <2>1. Q' = Q /\ InHand' = InHand /\ UNCHANGED prompt_in_progress
    BY <1>18, <1>s DEF AuthDialogCloses
  <2> QED BY <1>18, <2>1, <1>0, <1>a, <1>b DEF AuthDialogCloses, AuthDialogOpen, IdlePoll
<1>19. CASE ExitConfirmed
  <2>1. Q' = Q /\ InHand' = InHand /\ UNCHANGED prompt_in_progress
    BY <1>19, <1>s DEF ExitConfirmed
  <2> QED BY <1>19, <2>1, <1>0, <1>a, <1>b DEF ExitConfirmed
<1>20. CASE DismissIssue
  <2>1. Q' = Q /\ InHand' = InHand /\ UNCHANGED prompt_in_progress
    BY <1>20, <1>s DEF DismissIssue
  <2> QED BY <1>20, <2>1, <1>0, <1>a, <1>b DEF DismissIssue, CallResult, PollFrame
<1>21. CASE AnswerDialog
  <2>1. Q' = Q /\ InHand' = InHand /\ UNCHANGED prompt_in_progress
    BY <1>21, <1>s DEF AnswerDialog
  <2> QED BY <1>21, <2>1, <1>0, <1>a, <1>b DEF AnswerDialog, CallResult
<1>22. CASE DismissLaunchBox
  <2>1. Q' = Q /\ InHand' = InHand /\ UNCHANGED prompt_in_progress
    BY <1>22, <1>s DEF DismissLaunchBox
  <2> QED BY <1>22, <2>1, <1>0, <1>a, <1>b DEF DismissLaunchBox, InResult, AtResult, ResultFrame
<1>23. CASE PollExitRaises
  <2>1. /\ ui_queue # <<>> /\ ui_queue' = Tail(ui_queue)
        /\ poll'.pc = "idle" /\ poll.pc = "loop"
        /\ UNCHANGED <<controllerVars, hand, dialog_exists, result>>
    BY <1>23 DEF PollExitRaises, NextIs, InPollLoop, ReturnFromPoll, IdlePoll
  <2>2. AtMostOne(Q') /\ (Q' # {} => Q # {})
    BY <2>1, <1>0, <1>a, TailPrompts
  <2> QED BY <2>1, <2>2, <1>a, <1>b
<1>24. CASE ExitRaises
  <2>1. Q' = Q /\ InHand' = InHand /\ UNCHANGED prompt_in_progress
    BY <1>24, <1>s DEF ExitRaises
  <2> QED BY <1>24, <2>1, <1>0, <1>a, <1>b DEF ExitRaises, ReturnFromPoll, IdlePoll
<1>30. CASE UNCHANGED vars
  BY <1>30, <1>s, <1>a, <1>b DEF vars
<1> QED
  BY <1>1, <1>2, <1>3, <1>4, <1>5, <1>6, <1>7, <1>8, <1>9, <1>10, <1>11, <1>12, <1>13, <1>14, <1>15,
     <1>16, <1>17, <1>18, <1>19, <1>20, <1>21, <1>22, <1>23, <1>24, <1>30
  DEF Next, Monitor, PollStep, ResultStep, User, Exited

\* At most one prompt is outstanding and the flag is set as long as one is, whatever the
\* apps, their shared aliases, the hold times, and whatever raises.
THEOREM AtMostOnePrompt == Spec => []SinglePrompt
<1>1. Init => SinglePrompt
  BY DEF Init, SinglePrompt, InHand, QueuedPrompts, IssueOnScreen, Deciding, IdlePoll, NoResult
<1>2. TypeOK /\ SinglePrompt /\ [Next]_vars => SinglePrompt'
  BY SinglePromptStep
<1> QED BY <1>1, <1>2, TypeCorrect, PTL DEF Spec

-----------------------------------------------------------------------------
(* Where the outstanding prompt is                                             *)

Only(c, p) == IF c THEN {p} ELSE {}
Payloads(q) == {q[i].payload : i \in PromptsIn(q)}

\* What is shown or decided is a prompt, and on_prompt_result starts a deferred prompt
\* only as the innermost frame, when no dialog is left.
Genuine ==
  /\ dialog_exists => dialog \in Prompt
  /\ IssueOnScreen => poll.prompt \in Prompt
  /\ Deciding => result.prompt \in Prompt
  /\ result.pc = "pending" => top = "result" /\ ~dialog_exists

LEMMA NoPromptIsNone == NoPrompt \notin Prompt
BY AppsAssumption DEF NoPrompt, Prompt

Parts ==
  Only(InHand, hand) \union Payloads(ui_queue) \union Only(dialog_exists, dialog)
    \union Only(IssueOnScreen, poll.prompt) \union Only(Deciding, result.prompt)

LEMMA OutstandingParts == TypeOK /\ Genuine => Outstanding = Parts
<1> SUFFICES ASSUME TypeOK, Genuine PROVE Outstanding = Parts
  OBVIOUS
<1>1. \A i \in PromptsIn(ui_queue) : ui_queue[i].payload \in Prompt
  BY ElementOfSeq DEF TypeOK, PromptsIn, Message, PromptMsg, ExitMsg
<1>2. InHand <=> hand \in Prompt
  BY NoPromptIsNone DEF TypeOK, InHand
<1>3. Outstanding = {p \in Prompt : \/ hand = p
                                    \/ p \in Payloads(ui_queue)
                                    \/ dialog_exists /\ dialog = p
                                    \/ IssueOnScreen /\ poll.prompt = p
                                    \/ Deciding /\ result.prompt = p}
  BY DEF Outstanding, QueuedPrompts, PromptsIn, Payloads
<1>4. Payloads(ui_queue) \subseteq Prompt
  BY <1>1 DEF Payloads
<1> QED BY <1>2, <1>3, <1>4 DEF Genuine, Only, Parts

\* At most one place has a prompt.
LEMMA OnePlace ==
  ASSUME SinglePrompt
  PROVE  /\ InHand => Payloads(ui_queue) = {} /\ ~Shown
         /\ Payloads(ui_queue) # {} => ~Shown
         /\ (InHand \/ Payloads(ui_queue) # {} \/ Shown) => prompt_in_progress
         /\ dialog_exists => ~IssueOnScreen /\ ~Deciding
         /\ IssueOnScreen => ~Deciding
<1>1. (Payloads(ui_queue) = {}) <=> (QueuedPrompts = {})
  BY DEF Payloads, QueuedPrompts, PromptsIn
<1> QED BY <1>1, SinglePromptAlt

LEMMA FreeMeansNone ==
  ASSUME TypeOK, SinglePrompt, Genuine, ~prompt_in_progress
  PROVE  Outstanding = {}
BY OutstandingParts, OnePlace DEF Shown, Only, Parts

\* The queue operations on the payloads.
LEMMA PayloadsAppendPrompt ==
  ASSUME NEW q \in Seq(Message), NEW p
  PROVE  Payloads(Append(q, PromptMsg(p))) = Payloads(q) \union {p}
<1> DEFINE r == Append(q, PromptMsg(p))
<1>1. /\ Len(q) \in Nat
      /\ \A i \in 1..Len(q) : r[i] = q[i]
      /\ r[Len(q) + 1] = PromptMsg(p)
      /\ DOMAIN q = 1..Len(q)
      /\ DOMAIN r = 1..(Len(q) + 1)
  BY AppendProperties, LenProperties
<1>2. PromptMsg(p).type = "PROMPT" /\ PromptMsg(p).payload = p
  BY DEF PromptMsg
<1> HIDE DEF r
<1>3. PromptsIn(r) = PromptsIn(q) \union {Len(q) + 1}
  BY <1>1, <1>2 DEF PromptsIn
<1>4. \A i \in PromptsIn(q) : r[i] = q[i]
  BY <1>1 DEF PromptsIn
<1>5. Payloads(r) = Payloads(q) \union {p}
  BY <1>1, <1>2, <1>3, <1>4 DEF Payloads
<1> QED BY <1>5 DEF r

LEMMA PayloadsAppendExit ==
  ASSUME NEW q \in Seq(Message)
  PROVE  Payloads(Append(q, ExitMsg)) = Payloads(q)
<1>1. PromptsIn(Append(q, ExitMsg)) = PromptsIn(q)
  BY AppendExit
<1>2. \A i \in PromptsIn(q) : Append(q, ExitMsg)[i] = q[i]
  BY AppendProperties, LenProperties DEF PromptsIn
<1> QED BY <1>1, <1>2 DEF Payloads

LEMMA PayloadsTail ==
  ASSUME NEW q \in Seq(Message), q # <<>>
  PROVE  /\ Head(q).type = "PROMPT" => Payloads(q) = Payloads(Tail(q)) \union {Head(q).payload}
         /\ Head(q).type # "PROMPT" => Payloads(q) = Payloads(Tail(q))
<1>1. /\ Len(q) \in Nat /\ Len(q) # 0
      /\ DOMAIN q = 1..Len(q)
      /\ DOMAIN Tail(q) = 1..(Len(q) - 1)
      /\ \A i \in 1..(Len(q) - 1) : Tail(q)[i] = q[i + 1]
      /\ Head(q) = q[1]
  BY HeadTailProperties, LenProperties
<1>2. \A i \in PromptsIn(Tail(q)) : i + 1 \in PromptsIn(q) /\ Tail(q)[i] = q[i + 1]
  BY <1>1 DEF PromptsIn
<1>3. \A j \in PromptsIn(q) : j # 1 => j - 1 \in PromptsIn(Tail(q)) /\ Tail(q)[j - 1] = q[j]
  <2> TAKE j \in PromptsIn(q)
  <2> HAVE j # 1
  <2>1. j \in 1..Len(q) /\ j - 1 \in 1..(Len(q) - 1) /\ (j - 1) + 1 = j
    BY <1>1 DEF PromptsIn
  <2> QED BY <2>1, <1>1 DEF PromptsIn
<1>4. 1 \in PromptsIn(q) <=> Head(q).type = "PROMPT"
  BY <1>1 DEF PromptsIn
<1>5. Payloads(Tail(q)) \subseteq Payloads(q)
  BY <1>2 DEF Payloads
<1>6. \A x \in Payloads(q) : x \in Payloads(Tail(q)) \/ (1 \in PromptsIn(q) /\ x = Head(q).payload)
  <2> TAKE x \in Payloads(q)
  <2>1. PICK j \in PromptsIn(q) : x = q[j].payload
    BY DEF Payloads
  <2>2. CASE j = 1
    BY <2>1, <2>2, <1>1
  <2>3. CASE j # 1
    BY <2>1, <2>3, <1>3 DEF Payloads
  <2> QED BY <2>2, <2>3
<1>7. 1 \in PromptsIn(q) => Head(q).payload \in Payloads(q)
  BY <1>1 DEF Payloads
<1> QED BY <1>4, <1>5, <1>6, <1>7
-----------------------------------------------------------------------------
(* What is on the screen is a prompt                                           *)

LEMMA GenuineStep ==
  ASSUME TypeOK, SinglePrompt, Genuine, [Next]_vars
  PROVE  Genuine'
<1> USE DEF IssueOnScreen, Deciding, controllerVars, uiVars
<1>0. poll \in PollFrame /\ result \in ResultFrame
  BY DEF TypeOK
<1>1. ASSUME UNCHANGED <<dialog, dialog_exists, poll, result, top>> PROVE Genuine'
  BY <1>1 DEF Genuine
<1>2. CASE Tick \/ MonitorPut \/ RequestExit \/ ExitConfirmed \/ UNCHANGED vars
  BY <1>1, <1>2 DEF Tick, MonitorPut, RequestExit, ExitConfirmed, vars
<1>3. CASE \E p \in Prompt : InterceptDefer(p) \/ InterceptStart(p)
  BY <1>1, <1>3 DEF InterceptDefer, InterceptStart
<1>4. CASE PollStart
  BY <1>4, <1>0 DEF PollStart, IdlePoll, Genuine
<1>5. CASE PollEmpty
  BY <1>5, <1>0 DEF PollEmpty, InPollLoop, ReturnFromPoll, BelowPoll, IdlePoll, Genuine
<1>6. CASE PollPrompt
  <2>1. ui_queue # <<>> /\ Head(ui_queue).type = "PROMPT" /\ top = "poll" /\ result' = result
    BY <1>6 DEF PollPrompt, InPollLoop, NextIs
  <2>2. prompt_in_progress /\ ~dialog_exists /\ Head(ui_queue).payload \in Prompt
    <3>1. PromptsIn(ui_queue) # {} /\ PromptsIn(ui_queue) = QueuedPrompts
      BY <2>1, HeadTailProperties, LenProperties DEF PromptsIn, QueuedPrompts, TypeOK
    <3> QED BY <2>1, <3>1, SinglePromptAlt, MessageHead DEF Shown
  <2>3. ShowIssue(Head(ui_queue).payload) \/ OpenDialog(Head(ui_queue).payload)
    BY <1>6, <2>2 DEF PollPrompt
  <2>4. result.pc # "pending"
    BY <2>1 DEF Genuine
  <2> QED BY <2>1, <2>2, <2>3, <2>4 DEF ShowIssue, OpenDialog, ReturnFromPoll, IdlePoll, Genuine
<1>7. CASE PollPromptRaises
  BY <1>7 DEF PollPromptRaises, InPollLoop, ReturnFromPoll, IdlePoll, Genuine
<1>8. CASE PollExit
  BY <1>8 DEF PollExit, InPollLoop, IdlePoll, Genuine
<1>9. CASE ResultBegin
  BY <1>9, <1>0 DEF ResultBegin, InResult, AtResult, ResultFrame, Genuine
<1>10. CASE ResultBeginRaises \/ ResultReleaseRaises \/ ResultPendingRaises
  BY <1>10 DEF ResultBeginRaises, ResultReleaseRaises, ResultPendingRaises, RaiseFromResult,
               NoResult, IdlePoll, Genuine
<1>11. CASE Launch
  BY <1>11, <1>0 DEF Launch, InResult, AtResult, ResultFrame, Genuine
<1>12. CASE ResultRelease
  <2>1. Deciding /\ ~dialog_exists /\ top = "result"
    BY <1>12, SinglePromptAlt DEF ResultRelease, InResult, Shown
  <2>2. CASE result.raised
    BY <1>12, <2>1, <2>2 DEF ResultRelease, RaiseFromResult, NoResult, IdlePoll, Genuine
  <2>3. CASE ~result.raised
    BY <1>12, <1>0, <2>1, <2>3 DEF ResultRelease, AtResult, ResultFrame, Genuine
  <2> QED BY <2>2, <2>3
<1>13. CASE ResultPending
  BY <1>13 DEF ResultPending, ReturnFromResult, NoResult, IdlePoll, Genuine
<1>14. CASE AuthDialogCloses
  BY <1>14 DEF AuthDialogCloses, AuthDialogOpen, IdlePoll, Genuine
<1>15. CASE DismissIssue
  BY <1>15, <1>0 DEF DismissIssue, CallResult, PollFrame, Genuine
<1>16. CASE AnswerDialog
  BY <1>16 DEF AnswerDialog, CallResult, Genuine
<1>17. CASE DismissLaunchBox
  BY <1>17, <1>0 DEF DismissLaunchBox, InResult, AtResult, ResultFrame, Genuine
<1>18. CASE PollExitRaises \/ ExitRaises
  BY <1>18 DEF PollExitRaises, ExitRaises, InPollLoop, AuthDialogOpen, ReturnFromPoll, IdlePoll,
               Genuine
<1> QED
  BY <1>2, <1>3, <1>4, <1>5, <1>6, <1>7, <1>8, <1>9, <1>10, <1>11, <1>12, <1>13, <1>14, <1>15,
     <1>16, <1>17, <1>18
  DEF Next, Monitor, PollStep, ResultStep, User, Exited

\* The invariants so far, together.
Basic == TypeOK /\ SinglePrompt /\ Genuine

LEMMA AlwaysBasic == Spec => []Basic
<1>1. Init => Genuine
  BY DEF Init, Genuine, IssueOnScreen, Deciding, IdlePoll, NoResult
<1>2. TypeOK /\ SinglePrompt /\ Genuine /\ [Next]_vars => Genuine'
  BY GenuineStep
<1> QED BY <1>1, <1>2, TypeCorrect, AtMostOnePrompt, PTL DEF Spec, Basic

-----------------------------------------------------------------------------
(* What a step does to the outstanding prompt                                  *)

\* The steps that take the prompt from one place to the next, or do not touch it.
Moves ==
  \/ MonitorPut \/ PollStart \/ PollEmpty \/ PollPrompt \/ PollExit \/ PollExitRaises
  \/ ResultBegin \/ Launch \/ ResultPendingRaises
  \/ RequestExit \/ AuthDialogCloses \/ ExitConfirmed \/ ExitRaises
  \/ DismissIssue \/ AnswerDialog \/ DismissLaunchBox

\* The steps by which an exception drops it.
Loses == PollPromptRaises \/ ResultBeginRaises \/ ResultReleaseRaises

LEMMA BasicStep ==
  ASSUME Basic, [Next]_vars
  PROVE  Basic'
BY TypeStep, SinglePromptStep, GenuineStep DEF Basic

LEMMA BothParts ==
  ASSUME Basic, [Next]_vars
  PROVE  Outstanding = Parts /\ Outstanding' = Parts'
<1>1. Outstanding = Parts
  BY OutstandingParts DEF Basic
<1>2. (TypeOK /\ Genuine => Outstanding = Parts)'
  BY OutstandingParts, PTL
<1> QED BY <1>1, <1>2, BasicStep DEF Basic

LEMMA MovesStep ==
  ASSUME Basic, [Next]_vars, Moves
  PROVE  Outstanding' = Outstanding /\ UNCHANGED controllerVars
<1>0. TypeOK /\ SinglePrompt /\ Genuine
  BY DEF Basic
<1>a. poll \in PollFrame /\ result \in ResultFrame /\ ui_queue \in Seq(Message)
  BY <1>0 DEF TypeOK
<1>b. Outstanding = Parts /\ Outstanding' = Parts'
  BY BothParts
<1>c. /\ InHand => Payloads(ui_queue) = {} /\ ~Shown
      /\ Payloads(ui_queue) # {} => ~Shown
      /\ (InHand \/ Payloads(ui_queue) # {} \/ Shown) => prompt_in_progress
      /\ dialog_exists => ~IssueOnScreen /\ ~Deciding
      /\ IssueOnScreen => ~Deciding
  BY <1>0, OnePlace
<1> USE DEF IssueOnScreen, Deciding, InHand, Only, Shown, Parts
<1>1. CASE MonitorPut
  <2>1. Payloads(ui_queue') = Payloads(ui_queue) \union {hand}
    BY <1>1, <1>a, PayloadsAppendPrompt DEF MonitorPut
  <2> QED BY <1>1, <1>b, <2>1 DEF MonitorPut, uiVars
<1>2. CASE PollStart
  BY <1>2, <1>a, <1>b DEF PollStart, IdlePoll
<1>3. CASE PollEmpty
  BY <1>3, <1>b DEF PollEmpty, InPollLoop, ReturnFromPoll, IdlePoll
<1>4. CASE PollPrompt
  <2> DEFINE p == Head(ui_queue).payload
  <2>1. ui_queue # <<>> /\ Head(ui_queue).type = "PROMPT" /\ UNCHANGED <<hand, result>>
    BY <1>4 DEF PollPrompt, NextIs
  <2>2. Payloads(ui_queue) = Payloads(Tail(ui_queue)) \union {p}
    BY <2>1, <1>a, PayloadsTail
  <2>3. Payloads(Tail(ui_queue)) = {}
    <3>1. PromptsIn(Tail(ui_queue)) = {}
      <4>1. AtMostOne(PromptsIn(ui_queue))
        BY <1>0, SinglePromptAlt DEF QueuedPrompts, PromptsIn
      <4> QED BY <4>1, <2>1, <1>a, TailPrompts
    <3> QED BY <3>1 DEF Payloads
  <2>4. ~InHand /\ ~Shown /\ prompt_in_progress
    BY <2>2, <1>c
  <2>5. ui_queue' = Tail(ui_queue) /\ UNCHANGED controllerVars
    BY <1>4, <2>4 DEF PollPrompt
  <2>6. ShowIssue(p) \/ OpenDialog(p)
    BY <1>4, <2>4 DEF PollPrompt
  <2> HIDE DEF p
  <2>7. CASE ShowIssue(p)
    BY <2>1, <2>2, <2>3, <2>4, <2>5, <2>7, <1>b DEF ShowIssue
  <2>8. CASE OpenDialog(p)
    BY <2>1, <2>2, <2>3, <2>4, <2>5, <2>8, <1>b DEF OpenDialog, ReturnFromPoll, IdlePoll
  <2> QED BY <2>5, <2>6, <2>7, <2>8
<1>5. CASE PollExit
  <2>1. Payloads(ui_queue') = Payloads(ui_queue)
    BY <1>5, <1>a, PayloadsTail DEF PollExit, NextIs
  <2> QED BY <1>5, <1>b, <2>1 DEF PollExit, InPollLoop, IdlePoll
<1>6. CASE ResultBegin
  BY <1>6, <1>a, <1>b DEF ResultBegin, InResult, AtResult, ResultFrame
<1>7. CASE Launch
  BY <1>7, <1>a, <1>b DEF Launch, InResult, AtResult, ResultFrame
<1>8. CASE ResultPendingRaises
  BY <1>8, <1>b DEF ResultPendingRaises, InResult, RaiseFromResult, NoResult, IdlePoll
<1>9. CASE RequestExit
  <2>1. Payloads(ui_queue') = Payloads(ui_queue)
    BY <1>9, <1>a, PayloadsAppendExit DEF RequestExit
  <2> QED BY <1>9, <1>b, <2>1 DEF RequestExit, uiVars
<1>10. CASE AuthDialogCloses
  BY <1>10, <1>b DEF AuthDialogCloses, AuthDialogOpen, IdlePoll
<1>11. CASE ExitConfirmed
  BY <1>11, <1>b DEF ExitConfirmed
<1>12. CASE DismissIssue
  BY <1>12, <1>a, <1>b, <1>c DEF DismissIssue, CallResult, PollFrame
<1>13. CASE AnswerDialog
  BY <1>13, <1>a, <1>b, <1>c DEF AnswerDialog, CallResult
<1>14. CASE DismissLaunchBox
  BY <1>14, <1>a, <1>b DEF DismissLaunchBox, InResult, AtResult, ResultFrame
<1>15. CASE PollExitRaises
  <2>1. Payloads(ui_queue') = Payloads(ui_queue)
    BY <1>15, <1>a, PayloadsTail DEF PollExitRaises, NextIs
  <2> QED BY <1>15, <1>b, <2>1 DEF PollExitRaises, InPollLoop, ReturnFromPoll, IdlePoll
<1>16. CASE ExitRaises
  BY <1>16, <1>b DEF ExitRaises, AuthDialogOpen, ReturnFromPoll, IdlePoll
<1> QED
  BY <1>1, <1>2, <1>3, <1>4, <1>5, <1>6, <1>7, <1>8, <1>9, <1>10, <1>11, <1>12, <1>13, <1>14,
     <1>15, <1>16
  DEF Moves

LEMMA LosesStep ==
  ASSUME Basic, [Next]_vars, Loses
  PROVE  /\ Outstanding' = {} /\ UNCHANGED controllerVars
         /\ StoreMayRaise \/ DialogMayRaise
<1>0. /\ TypeOK /\ Genuine /\ ui_queue \in Seq(Message)
      /\ Outstanding' = Parts'
  BY BothParts DEF Basic, TypeOK
<1>c. /\ InHand => Payloads(ui_queue) = {} /\ ~Shown
      /\ Payloads(ui_queue) # {} => ~Shown
      /\ dialog_exists => ~IssueOnScreen /\ ~Deciding
      /\ IssueOnScreen => ~Deciding
  BY OnePlace DEF Basic
<1> USE DEF IssueOnScreen, Deciding, InHand, Only, Shown, Parts, controllerVars
<1>1. CASE PollPromptRaises
  <2>1. /\ ui_queue # <<>> /\ Head(ui_queue).type = "PROMPT" /\ ui_queue' = Tail(ui_queue)
        /\ UNCHANGED <<hand, dialog_exists, result>> /\ poll' = IdlePoll /\ DialogMayRaise
        /\ UNCHANGED <<prompt_in_progress, prompting_apps, prompt_cooldowns, pending_prompts>>
    BY <1>1 DEF PollPromptRaises, NextIs, ReturnFromPoll
  <2>2. Payloads(ui_queue) # {}
    BY <2>1, <1>0, PayloadsTail
  <2>3. Payloads(Tail(ui_queue)) = {}
    <3>1. AtMostOne(PromptsIn(ui_queue))
      BY SinglePromptAlt DEF QueuedPrompts, PromptsIn, Basic
    <3>2. PromptsIn(Tail(ui_queue)) = {}
      BY <3>1, <2>1, <1>0, TailPrompts
    <3> QED BY <3>2 DEF Payloads
  <2> QED BY <2>1, <2>2, <2>3, <1>0, <1>c DEF IdlePoll
<1>2. CASE ResultBeginRaises
  BY <1>2, <1>0, <1>c DEF ResultBeginRaises, InResult, RaiseFromResult, NoResult, IdlePoll,
                          ResolveMayRaise
<1>3. CASE ResultReleaseRaises
  BY <1>3, <1>0, <1>c DEF ResultReleaseRaises, InResult, RaiseFromResult, NoResult, IdlePoll,
                          ResolveMayRaise
<1> QED BY <1>1, <1>2, <1>3 DEF Loses

LEMMA ReleaseStep ==
  ASSUME Basic, [Next]_vars, ResultRelease
  PROVE  /\ result.prompt \in Prompt
         /\ Outstanding = {result.prompt}
         /\ Outstanding' = {}
<1>0. /\ TypeOK /\ Genuine /\ poll \in PollFrame /\ result \in ResultFrame
      /\ Outstanding = Parts /\ Outstanding' = Parts'
  BY BothParts DEF Basic, TypeOK
<1>c. /\ InHand => Payloads(ui_queue) = {} /\ ~Shown
      /\ Payloads(ui_queue) # {} => ~Shown
      /\ dialog_exists => ~IssueOnScreen /\ ~Deciding
      /\ IssueOnScreen => ~Deciding
  BY OnePlace DEF Basic
<1> USE DEF IssueOnScreen, Deciding, InHand, Only, Shown, Parts
<1>1. Deciding /\ UNCHANGED <<hand, ui_queue>>
  BY DEF ResultRelease, InResult
<1>2. dialog_exists' = dialog_exists /\ (IssueOnScreen' => IssueOnScreen) /\ ~Deciding'
  BY <1>0 DEF ResultRelease, RaiseFromResult, NoResult, IdlePoll, AtResult, ResultFrame
<1>3. ~InHand /\ Payloads(ui_queue) = {} /\ ~dialog_exists /\ ~IssueOnScreen
  BY <1>1, <1>c
<1>4. result.prompt \in Prompt
  BY <1>1, <1>0 DEF Genuine
<1> QED BY <1>0, <1>1, <1>2, <1>3, <1>4

LEMMA StartStep ==
  ASSUME Basic, [Next]_vars, NEW p \in Prompt, InterceptStart(p)
  PROVE  Outstanding = {} /\ Outstanding' = {p}
<1>1. Outstanding = {}
  BY FreeMeansNone DEF Basic, InterceptStart
<1>2. Outstanding = Parts /\ Outstanding' = Parts'
  BY BothParts
<1>3. p # NoPrompt
  BY NoPromptIsNone
<1> QED BY <1>1, <1>2, <1>3 DEF InterceptStart, Parts, Only, InHand, IssueOnScreen, Deciding, uiVars

LEMMA StillStep ==
  ASSUME Basic, [Next]_vars, Tick \/ UNCHANGED vars \/ \E p \in Prompt : InterceptDefer(p)
  PROVE  Outstanding' = Outstanding
<1>1. Outstanding = Parts /\ Outstanding' = Parts'
  BY BothParts
<1>2. UNCHANGED <<hand, ui_queue, dialog, dialog_exists, poll, result>>
  BY DEF Tick, InterceptDefer, vars, uiVars
<1> QED BY <1>1, <1>2 DEF Parts, InHand, IssueOnScreen, Deciding

\* on_prompt_result ends: the first deferred prompt is asked, if it may be.
LEMMA PendingStep ==
  ASSUME Basic, [Next]_vars, ResultPending
  PROVE  \/ Outstanding' = Outstanding /\ UNCHANGED controllerVars
         \/ /\ ~prompt_in_progress /\ pending_prompts # <<>>
            /\ ~OnHold(Head(pending_prompts))
            /\ Head(pending_prompts) \in Prompt
            /\ StartPrompt(Head(pending_prompts))
            /\ pending_prompts' = Tail(pending_prompts)
            /\ UNCHANGED prompt_cooldowns
            /\ Outstanding = {} /\ Outstanding' = {Head(pending_prompts)}
<1>0. /\ TypeOK /\ Genuine /\ ui_queue \in Seq(Message)
      /\ Outstanding = Parts /\ Outstanding' = Parts'
  BY BothParts DEF Basic, TypeOK
<1>1. /\ ProcessPending(ui_queue) /\ hand' = hand /\ result' = NoResult
      /\ ~dialog_exists /\ ~dialog_exists' /\ ~Deciding
      /\ IssueOnScreen' => IssueOnScreen /\ poll'.prompt = poll.prompt
      /\ IssueOnScreen => IssueOnScreen'
  BY <1>0 DEF ResultPending, ReturnFromResult, InResult, Genuine, IssueOnScreen, Deciding, IdlePoll
<1> DEFINE p == Head(pending_prompts)
<1>2. CASE ui_queue' = ui_queue /\ UNCHANGED controllerVars
  <2>1. Deciding' = FALSE /\ InHand' = InHand
    BY <1>1 DEF Deciding, NoResult, InHand
  <2> QED BY <1>0, <1>1, <1>2, <2>1 DEF Parts, Only
<1>3. CASE /\ pending_prompts # <<>> /\ ~prompt_in_progress
           /\ ~OnHold(p) /\ StartPrompt(p)
           /\ pending_prompts' = Tail(pending_prompts)
           /\ ui_queue' = Append(ui_queue, PromptMsg(p))
           /\ UNCHANGED prompt_cooldowns
  <2>1. p \in Prompt
    BY <1>0, <1>3, HeadTailProperties DEF TypeOK
  <2>2. Outstanding = {}
    BY <1>3, FreeMeansNone DEF Basic
  <2>3. Payloads(ui_queue') = Payloads(ui_queue) \union {p}
    BY <1>0, <1>3, PayloadsAppendPrompt
  <2>4. ~InHand /\ ~IssueOnScreen /\ Payloads(ui_queue) = {}
    BY <1>3, OnePlace DEF Basic, Shown
  <2>5. ~InHand' /\ ~IssueOnScreen' /\ ~Deciding'
    BY <1>1, <2>4 DEF InHand, Deciding, NoResult
  <2>6. Outstanding' = {p}
    BY <1>0, <1>1, <2>3, <2>4, <2>5 DEF Parts, Only
  <2> QED BY <1>3, <2>1, <2>2, <2>6
<1> QED BY <1>1, <1>2, <1>3 DEF ProcessPending

-----------------------------------------------------------------------------
(* Which aliases are being asked about                                         *)

LEMMA AliasesNonempty ==
  ASSUME NEW p \in Prompt
  PROVE  TrackedAliases(p) \subseteq Aliases /\ TrackedAliases(p) # {}
BY AppsAssumption DEF Prompt, TrackedAliases

LEMMA PromptingExactStep ==
  ASSUME Basic, PromptingExact, [Next]_vars
  PROVE  PromptingExact'
<1> USE DEF PromptingExact
<1>1. ASSUME Outstanding' = Outstanding, UNCHANGED <<prompt_in_progress, prompting_apps>>
      PROVE  PromptingExact'
  BY <1>1 DEF TrackedAliases
<1>2. CASE Moves
  BY <1>1, <1>2, MovesStep DEF controllerVars
<1>3. CASE Loses
  BY <1>3, LosesStep DEF controllerVars
<1>4. CASE Tick \/ UNCHANGED vars \/ \E p \in Prompt : InterceptDefer(p)
  <2>1. UNCHANGED <<prompt_in_progress, prompting_apps>>
    BY <1>4 DEF Tick, InterceptDefer, vars, controllerVars
  <2> QED BY <1>1, <1>4, <2>1, StillStep
<1>5. ASSUME NEW p \in Prompt, InterceptStart(p) PROVE PromptingExact'
  BY <1>5, StartStep DEF InterceptStart, StartPrompt, TrackedAliases
<1>6. CASE ResultRelease
  BY <1>6, ReleaseStep DEF ResultRelease
<1>7. CASE ResultPending
  <2>1. CASE Outstanding' = Outstanding /\ UNCHANGED controllerVars
    BY <1>1, <2>1 DEF controllerVars
  <2>2. CASE /\ ~prompt_in_progress
             /\ StartPrompt(Head(pending_prompts))
             /\ Outstanding' = {Head(pending_prompts)}
    BY <2>2 DEF StartPrompt, TrackedAliases
  <2> QED BY <1>7, <2>1, <2>2, PendingStep
<1> QED
  BY <1>2, <1>3, <1>4, <1>5, <1>6, <1>7
  DEF Next, Monitor, PollStep, ResultStep, User, Exited, Moves, Loses

LEMMA InitNone == Init => Outstanding = {}
<1> SUFFICES ASSUME Init PROVE \A p \in Prompt : p \notin Outstanding
  BY DEF Outstanding
<1>1. \A p \in Prompt : hand # p
  BY NoPromptIsNone DEF Init
<1>2. QueuedPrompts = {} /\ ~dialog_exists /\ ~IssueOnScreen /\ ~Deciding
  BY DEF Init, QueuedPrompts, IssueOnScreen, Deciding, IdlePoll, NoResult
<1> QED BY <1>1, <1>2 DEF Outstanding

\* prompting_apps holds the aliases of the outstanding prompt and no others.
THEOREM AlwaysPromptingExact == Spec => []PromptingExact
<1>1. Init => PromptingExact
  BY InitNone DEF Init, PromptingExact
<1>2. Basic /\ PromptingExact /\ [Next]_vars => PromptingExact'
  BY PromptingExactStep
<1> QED BY <1>1, <1>2, AlwaysBasic, PTL DEF Spec

LEMMA HoldRespectedStep ==
  ASSUME Basic, PromptingExact, HoldRespected, [Next]_vars
  PROVE  HoldRespected'
<1> USE DEF HoldRespected
<1>1. ASSUME UNCHANGED <<prompting_apps, prompt_cooldowns>> PROVE HoldRespected'
  BY <1>1
<1>2. CASE Moves
  BY <1>1, <1>2, MovesStep DEF controllerVars
<1>3. CASE Loses
  BY <1>1, <1>3, LosesStep DEF controllerVars
<1>4. CASE UNCHANGED vars \/ \E p \in Prompt : InterceptDefer(p)
  BY <1>1, <1>4 DEF InterceptDefer, vars, controllerVars
<1>5. CASE Tick
  BY <1>5 DEF Tick, Basic, TypeOK
<1>6. ASSUME NEW p \in Prompt, InterceptStart(p) PROVE HoldRespected'
  <2>1. prompting_apps = {}
    BY <1>6 DEF InterceptStart, PromptingExact
  <2>2. \A a \in TrackedAliases(p) : prompt_cooldowns[a] = 0
    BY <1>6, AliasesNonempty DEF InterceptStart, OnHold, Basic, TypeOK
  <2> QED BY <1>6, <2>1, <2>2 DEF InterceptStart, StartPrompt
<1>7. CASE ResultRelease
  <2>1. prompting_apps' = {}
    BY <1>7, ReleaseStep DEF ResultRelease, PromptingExact
  <2> QED BY <2>1
<1>8. CASE ResultPending
  <2>1. CASE UNCHANGED controllerVars
    BY <1>1, <2>1 DEF controllerVars
  <2>2. CASE /\ ~prompt_in_progress /\ ~OnHold(Head(pending_prompts))
             /\ Head(pending_prompts) \in Prompt
             /\ StartPrompt(Head(pending_prompts)) /\ UNCHANGED prompt_cooldowns
    <3>1. \A a \in TrackedAliases(Head(pending_prompts)) : prompt_cooldowns[a] = 0
      BY <2>2, AliasesNonempty DEF OnHold, Basic, TypeOK
    <3> QED BY <2>2, <3>1 DEF StartPrompt, PromptingExact
  <2> QED BY <1>8, <2>1, <2>2, PendingStep
<1> QED
  BY <1>2, <1>3, <1>4, <1>5, <1>6, <1>7, <1>8
  DEF Next, Monitor, PollStep, ResultStep, User, Exited, Moves, Loses

\* Nobody is asked about an app that is on hold.
THEOREM AlwaysHoldRespected == Spec => []HoldRespected
<1>1. Init => HoldRespected
  BY DEF Init, HoldRespected
<1>2. Basic /\ PromptingExact /\ HoldRespected /\ [Next]_vars => HoldRespected'
  BY HoldRespectedStep
<1> QED BY <1>1, <1>2, AlwaysBasic, AlwaysPromptingExact, PTL DEF Spec

\* If nothing can raise, the flag is set only while there is a prompt to answer.
THEOREM FlagAlwaysMeansPrompt ==
  ASSUME ~StoreMayRaise, ~DialogMayRaise
  PROVE  Spec => []FlagMeansPrompt
<1>1. Init => FlagMeansPrompt
  BY DEF Init, FlagMeansPrompt
<1>2. Basic /\ FlagMeansPrompt /\ [Next]_vars => FlagMeansPrompt'
  <2> SUFFICES ASSUME Basic, FlagMeansPrompt, [Next]_vars PROVE FlagMeansPrompt'
    OBVIOUS
  <2> USE DEF FlagMeansPrompt
  <2>1. CASE Moves
    BY <2>1, MovesStep DEF controllerVars
  <2>2. CASE Loses
    BY <2>2, LosesStep
  <2>3. CASE Tick \/ UNCHANGED vars \/ \E p \in Prompt : InterceptDefer(p)
    <3>1. UNCHANGED prompt_in_progress
      BY <2>3 DEF Tick, InterceptDefer, vars, controllerVars
    <3> QED BY <2>3, <3>1, StillStep
  <2>4. ASSUME NEW p \in Prompt, InterceptStart(p) PROVE FlagMeansPrompt'
    BY <2>4, StartStep
  <2>5. CASE ResultRelease
    BY <2>5 DEF ResultRelease
  <2>6. CASE ResultPending
    BY <2>6, PendingStep DEF controllerVars
  <2> QED
    BY <2>1, <2>2, <2>3, <2>4, <2>5, <2>6
    DEF Next, Monitor, PollStep, ResultStep, User, Exited, Moves, Loses
<1> QED BY <1>1, <1>2, AlwaysBasic, PTL DEF Spec
-----------------------------------------------------------------------------
(* The deferred prompts                                                        *)

Entries(s) == {s[i] : i \in DOMAIN s}
Distinct(s) == \A i, j \in DOMAIN s : i # j => ~Overlap(s[i], s[j])


LEMMA AppendEntries ==
  ASSUME NEW S, NEW s \in Seq(S), NEW x \in S
  PROVE  /\ Entries(Append(s, x)) = Entries(s) \union {x}
         /\ (Distinct(s) /\ \A q \in Entries(s) : ~Overlap(q, x)) => Distinct(Append(s, x))
<1> DEFINE t == Append(s, x)
<1>1. /\ Len(s) \in Nat
      /\ DOMAIN s = 1..Len(s)
      /\ DOMAIN t = 1..(Len(s) + 1)
      /\ \A i \in 1..Len(s) : t[i] = s[i]
      /\ t[Len(s) + 1] = x
  BY AppendProperties, LenProperties
<1> HIDE DEF t
<1>2. DOMAIN t = DOMAIN s \union {Len(s) + 1} /\ Len(s) + 1 \notin DOMAIN s
  BY <1>1
<1>3. Entries(t) = Entries(s) \union {x}
  BY <1>1, <1>2 DEF Entries
<1>4. ASSUME Distinct(s), \A q \in Entries(s) : ~Overlap(q, x) PROVE Distinct(t)
  <2> SUFFICES ASSUME NEW i \in DOMAIN t, NEW j \in DOMAIN t, i # j PROVE ~Overlap(t[i], t[j])
    BY DEF Distinct
  <2>1. CASE i \in DOMAIN s /\ j \in DOMAIN s
    BY <1>1, <1>4, <2>1 DEF Distinct
  <2>2. CASE i \in DOMAIN s /\ j = Len(s) + 1
    BY <1>1, <1>4, <2>2 DEF Entries
  <2>3. CASE j \in DOMAIN s /\ i = Len(s) + 1
    <3>1. ~Overlap(t[j], t[i])
      BY <1>1, <1>4, <2>3 DEF Entries
    <3> QED BY <3>1 DEF Overlap
  <2> QED BY <1>2, <2>1, <2>2, <2>3
<1> QED BY <1>3, <1>4 DEF t

LEMMA TailEntries ==
  ASSUME NEW s \in Seq(Prompt), s # <<>>, Distinct(s)
  PROVE  /\ Head(s) \in Entries(s)
         /\ Entries(Tail(s)) = Entries(s) \ {Head(s)}
         /\ Distinct(Tail(s))
<1>1. /\ Len(s) \in Nat /\ Len(s) # 0
      /\ DOMAIN s = 1..Len(s)
      /\ DOMAIN Tail(s) = 1..(Len(s) - 1)
      /\ \A i \in 1..(Len(s) - 1) : Tail(s)[i] = s[i + 1]
      /\ Head(s) = s[1]
      /\ \A i \in 1..Len(s) : s[i] \in Prompt
  BY HeadTailProperties, LenProperties, ElementOfSeq
<1>2. 1 \in DOMAIN s
  BY <1>1
<1>3. \A i \in DOMAIN Tail(s) : i + 1 \in DOMAIN s /\ i + 1 # 1 /\ Tail(s)[i] = s[i + 1]
  BY <1>1
<1>4. \A j \in DOMAIN s : j # 1 => j - 1 \in DOMAIN Tail(s) /\ Tail(s)[j - 1] = s[j]
  BY <1>1
<1>5. \A q \in Prompt : Overlap(q, q)
  BY AliasesNonempty DEF Overlap
<1>6. \A j \in DOMAIN s : j # 1 => s[j] # s[1]
  BY <1>1, <1>2, <1>5 DEF Distinct
<1>7. Head(s) \in Entries(s)
  BY <1>1, <1>2 DEF Entries
<1>8. ASSUME NEW q \in Entries(Tail(s)) PROVE q \in Entries(s) \ {Head(s)}
  BY <1>1, <1>3, <1>6 DEF Entries
<1>9. ASSUME NEW q \in Entries(s), q # Head(s) PROVE q \in Entries(Tail(s))
  <2>1. PICK j \in DOMAIN s : q = s[j]
    BY DEF Entries
  <2> QED BY <1>1, <1>4, <1>9, <2>1 DEF Entries
<1>10. Distinct(Tail(s))
  <2> SUFFICES ASSUME NEW i \in DOMAIN Tail(s), NEW j \in DOMAIN Tail(s), i # j
               PROVE  ~Overlap(Tail(s)[i], Tail(s)[j])
    BY DEF Distinct
  <2>1. i + 1 # j + 1
    BY <1>1
  <2> QED BY <2>1, <1>3 DEF Distinct
<1> QED BY <1>7, <1>8, <1>9, <1>10

\* What is left of s are its entries that share no alias with p.
LEMMA WithoutOverlapEntries ==
  ASSUME NEW s \in Seq(Prompt), NEW p, Distinct(s)
  PROVE  /\ Entries(WithoutOverlap(s, p)) = {q \in Entries(s) : ~Overlap(q, p)}
         /\ Distinct(WithoutOverlap(s, p))
<1> DEFINE Left(n) == {s[i] : i \in {k \in 1..n : ~Overlap(s[k], p)}}
<1>0. /\ Len(s) \in Nat /\ DOMAIN s = 1..Len(s)
      /\ \A i \in 1..Len(s) : s[i] \in Prompt
  BY LenProperties, ElementOfSeq
<1>a. PICK kept : IsKept(kept, Prompt, s, p)
  BY WithoutOverlapSteps
<1>1. /\ WithoutOverlap(s, p) = kept[Len(s)]
      /\ \A n \in 0..Len(s) : kept[n] \in Seq(Prompt)
      /\ kept[0] = <<>>
      /\ \A n \in 1..Len(s) :
           kept[n] = IF Overlap(s[n], p) THEN kept[n-1] ELSE Append(kept[n-1], s[n])
  BY <1>a DEF IsKept
<1> DEFINE Good(n) == Entries(kept[n]) = Left(n) /\ Distinct(kept[n])
<1> DEFINE Bad == {n \in Nat : n <= Len(s) /\ ~Good(n)}
<1>2. Bad = {}
  <2> SUFFICES ASSUME Bad # {} PROVE FALSE
    OBVIOUS
  <2>1. PICK n \in Bad : \A m \in Bad : n <= m
    <3>1. Bad \subseteq Nat
      OBVIOUS
    <3> HIDE DEF Bad
    <3> QED BY <3>1, LeastNat
  <2>2. n \in Nat /\ n <= Len(s) /\ ~Good(n)
    OBVIOUS
  <2>3. n # 0
    <3>1. Good(0)
      BY <1>1 DEF Entries, Distinct
    <3> HIDE DEF Good
    <3> QED BY <2>2, <3>1
  <2>4. n \in 1..Len(s) /\ n - 1 \in Nat /\ n - 1 \in 0..Len(s) /\ n - 1 <= Len(s)
    BY <2>2, <2>3, <1>0
  <2>5. Good(n - 1)
    <3>1. n - 1 \notin Bad
      <4> HIDE DEF Bad
      <4> QED BY <2>1, <2>4, <1>0
    <3> HIDE DEF Good
    <3> QED BY <3>1, <2>4
  <2>6. kept[n - 1] \in Seq(Prompt) /\ s[n] \in Prompt
    BY <1>0, <1>1, <2>4
  <2>7. 1..n = 1..(n - 1) \union {n}
    BY <2>4
  <2>8. CASE Overlap(s[n], p)
    <3>1. kept[n] = kept[n - 1]
      BY <1>1, <2>4, <2>8
    <3>2. Left(n) = Left(n - 1)
      BY <2>7, <2>8
    <3> QED BY <2>2, <2>5, <3>1, <3>2
  <2>9. CASE ~Overlap(s[n], p)
    <3>1. kept[n] = Append(kept[n - 1], s[n])
      BY <1>1, <2>4, <2>9
    <3>2. Left(n) = Left(n - 1) \union {s[n]}
      BY <2>7, <2>9
    <3>3. \A q \in Left(n - 1) : ~Overlap(q, s[n])
      <4>1. \A k \in 1..(n - 1) : k \in DOMAIN s /\ n \in DOMAIN s /\ k # n
        BY <1>0, <2>4
      <4> QED BY <4>1 DEF Distinct
    <3>4. Good(n)
      <4> HIDE DEF Left
      <4> QED BY <2>5, <2>6, <3>1, <3>2, <3>3, AppendEntries
    <3> HIDE DEF Good
    <3> QED BY <2>2, <3>4
  <2> QED BY <2>8, <2>9
<1>3. Good(Len(s))
  <2> SUFFICES ASSUME ~Good(Len(s)) PROVE FALSE
    OBVIOUS
  <2>1. Len(s) \in Bad
    <3> HIDE DEF Good
    <3> QED BY <1>0
  <2> HIDE DEF Bad
  <2> QED BY <1>2, <2>1
<1>4. Left(Len(s)) = {q \in Entries(s) : ~Overlap(q, p)}
  BY <1>0 DEF Entries
<1> HIDE DEF Left
<1> QED BY <1>1, <1>3, <1>4
LEMMA DeferredEntries == Deferred = Entries(pending_prompts)
BY DEF Deferred, Entries

LEMMA PendingAlt == PendingDistinct <=> Distinct(pending_prompts)
BY DEF PendingDistinct, Distinct

\* What a step does to the deferred prompts.
LEMMA DeferStep ==
  ASSUME Basic, PendingDistinct, NEW p \in Prompt, InterceptDefer(p)
  PROVE  /\ Distinct(pending_prompts')
         /\ Entries(pending_prompts') = Entries(pending_prompts) \union {p}
<1>1. pending_prompts \in Seq(Prompt) /\ Distinct(pending_prompts)
  BY PendingAlt DEF Basic, TypeOK
<1>2. \A q \in Entries(pending_prompts) : ~Overlap(q, p)
  BY DEF InterceptDefer, HasPendingPrompt, Entries
<1>3. pending_prompts' = Append(pending_prompts, p)
  BY DEF InterceptDefer
<1> QED BY <1>1, <1>2, <1>3, AppendEntries

LEMMA ReleaseDeferred ==
  ASSUME Basic, PendingDistinct, ResultRelease
  PROVE  /\ Distinct(pending_prompts')
         /\ Entries(pending_prompts') = {q \in Entries(pending_prompts) : ~Overlap(q, result.prompt)}
<1>1. pending_prompts \in Seq(Prompt) /\ Distinct(pending_prompts)
  BY PendingAlt DEF Basic, TypeOK
<1>2. pending_prompts' = WithoutOverlap(pending_prompts, result.prompt)
  BY DEF ResultRelease
<1> QED BY <1>1, <1>2, WithoutOverlapEntries

LEMMA PendingDistinctStep ==
  ASSUME Basic, PendingDistinct, [Next]_vars
  PROVE  Distinct(pending_prompts')
<1>0. Distinct(pending_prompts) /\ pending_prompts \in Seq(Prompt)
  BY PendingAlt DEF Basic, TypeOK
<1>1. CASE Moves
  BY <1>0, <1>1, MovesStep DEF controllerVars
<1>2. CASE Loses
  BY <1>0, <1>2, LosesStep DEF controllerVars
<1>3. CASE Tick \/ UNCHANGED vars \/ \E p \in Prompt : InterceptStart(p)
  BY <1>0, <1>3 DEF Tick, InterceptStart, vars, controllerVars
<1>4. ASSUME NEW p \in Prompt, InterceptDefer(p) PROVE Distinct(pending_prompts')
  BY <1>4, DeferStep
<1>5. CASE ResultRelease
  BY <1>5, ReleaseDeferred
<1>6. CASE ResultPending
  <2>1. \/ UNCHANGED controllerVars
        \/ pending_prompts # <<>> /\ pending_prompts' = Tail(pending_prompts)
    BY <1>6, PendingStep
  <2> QED BY <1>0, <2>1, TailEntries DEF controllerVars
<1> QED
  BY <1>1, <1>2, <1>3, <1>4, <1>5, <1>6
  DEF Next, Monitor, PollStep, ResultStep, User, Exited, Moves, Loses

\* Two deferred prompts never share an alias.
THEOREM AlwaysPendingDistinct == Spec => []PendingDistinct
<1>1. Init => PendingDistinct
  BY DEF Init, PendingDistinct
<1>2. Basic /\ PendingDistinct /\ [Next]_vars => PendingDistinct'
  <2> SUFFICES ASSUME Basic, PendingDistinct, [Next]_vars PROVE PendingDistinct'
    OBVIOUS
  <2> QED BY PendingDistinctStep DEF PendingDistinct, Distinct
<1> QED BY <1>1, <1>2, AlwaysBasic, PTL DEF Spec

-----------------------------------------------------------------------------
(* The refinement                                                              *)

LEMMA InitImplements == Init => Slot!Init
<1> SUFFICES ASSUME Init PROVE Slot!Init
  OBVIOUS
<1>1. Outstanding = {}
  BY InitNone
<1>2. Deferred = {} /\ Held = {} /\ prompt_in_progress = FALSE
  BY DEF Init, Deferred, Held
<1> QED BY <1>1, <1>2 DEF Slot!Init

LEMMA StepImplements ==
  ASSUME Basic, PromptingExact, PendingDistinct, [Next]_vars
  PROVE  [Slot!Next]_(Slot!vars)
<1>0. Slot!Prompt = Prompt
  BY DEF Slot!Prompt, Prompt
<1>s. ASSUME Outstanding' = Outstanding, UNCHANGED controllerVars PROVE UNCHANGED Slot!vars
  BY <1>s DEF controllerVars, Slot!vars, Deferred, Held
<1>h. \A p \in Prompt : Slot!HeldOff(p) <=> OnHold(p)
  BY AliasesNonempty DEF Slot!HeldOff, OnHold, Held, TrackedAliases
<1>o. \A p, q : Slot!Shares(p, q) <=> Overlap(p, q)
  BY DEF Slot!Shares, Overlap, TrackedAliases
<1>1. CASE Moves
  BY <1>1, <1>s, MovesStep
<1>2. CASE Loses
  <2>1. /\ Outstanding' = {} /\ UNCHANGED <<prompt_in_progress, Deferred, Held>>
        /\ StoreMayRaise \/ DialogMayRaise
    BY <1>2, LosesStep DEF controllerVars, Deferred, Held
  <2> QED BY <2>1 DEF Slot!Next, Slot!Lose
<1>3. CASE UNCHANGED vars
  BY <1>3, <1>s, StillStep DEF vars
<1>4. CASE Tick
  <2>1. Outstanding' = Outstanding /\ UNCHANGED <<prompt_in_progress, Deferred>>
    BY <1>4, StillStep DEF Tick, Deferred
  <2>2. Held' \in SUBSET Held
    BY <1>4 DEF Tick, Held, Basic, TypeOK
  <2> QED BY <2>1, <2>2 DEF Slot!Next, Slot!Expire
<1>5. ASSUME NEW p \in Prompt, InterceptDefer(p) PROVE Slot!Next
  <2>1. /\ prompt_in_progress
        /\ \A q \in Outstanding : ~Overlap(p, q)
    <3>1. Outstanding \subseteq Prompt
      BY DEF Outstanding
    <3> QED BY <1>5, <3>1 DEF InterceptDefer, AlreadyPrompting, PromptingExact, Overlap
  <2>2. \A q \in Deferred : ~Overlap(p, q)
    BY <1>5 DEF InterceptDefer, HasPendingPrompt, Overlap, Deferred
  <2>3. Deferred' = Deferred \union {p}
    BY <1>5, DeferStep DEF Deferred, Entries
  <2>4. Outstanding' = Outstanding /\ UNCHANGED <<prompt_in_progress, Held>>
    BY <1>5, StillStep DEF InterceptDefer, Held
  <2>5. Slot!Defer(p)
    BY <2>1, <2>2, <2>3, <2>4, <1>o DEF Slot!Defer
  <2> QED BY <1>0, <2>5 DEF Slot!Next
<1>6. ASSUME NEW p \in Prompt, InterceptStart(p) PROVE Slot!Next
  <2>1. ~prompt_in_progress /\ prompt_in_progress' = TRUE /\ ~OnHold(p)
    BY <1>6 DEF InterceptStart, StartPrompt
  <2>2. UNCHANGED <<Deferred, Held>>
    BY <1>6 DEF InterceptStart, Deferred, Held
  <2>3. Slot!Accept(p)
    BY <1>6, <2>1, <2>2, <1>h, StartStep DEF Slot!Accept
  <2> QED BY <1>0, <2>3 DEF Slot!Next
<1>7. CASE ResultRelease
  <2> DEFINE p == result.prompt
  <2>1. p \in Prompt /\ Outstanding = {p} /\ Outstanding' = {} /\ prompt_in_progress' = FALSE
    BY <1>7, ReleaseStep DEF ResultRelease
  <2>2. Deferred' = {q \in Deferred : ~Overlap(q, p)}
    BY <1>7, ReleaseDeferred DEF Deferred, Entries
  <2>3. Held' \in {Held, Held \union AliasesOf[p.app]}
    <3>1. TrackedAliases(p) = AliasesOf[p.app] /\ TrackedAliases(p) \subseteq Aliases
      BY <2>1, AliasesNonempty DEF TrackedAliases
    <3>2. \A a \in Aliases : prompt_cooldowns'[a] =
            IF HoldTime > 0 /\ a \in TrackedAliases(p) THEN HoldTime ELSE prompt_cooldowns[a]
      BY <1>7 DEF ResultRelease
    <3>3. CASE HoldTime > 0
      BY <3>1, <3>2, <3>3 DEF Held
    <3>4. CASE ~(HoldTime > 0)
      BY <3>2, <3>4 DEF Held
    <3> QED BY <3>3, <3>4
  <2>4. Slot!Resolve(p)
    <3> HIDE DEF p
    <3> QED BY <2>1, <2>2, <2>3, <1>o DEF Slot!Resolve
  <2> QED BY <1>0, <2>1, <2>4 DEF Slot!Next
<1>8. CASE ResultPending
  <2> DEFINE p == Head(pending_prompts)
  <2>1. CASE Outstanding' = Outstanding /\ UNCHANGED controllerVars
    BY <2>1, <1>s
  <2>2. CASE /\ ~prompt_in_progress /\ pending_prompts # <<>> /\ ~OnHold(p) /\ p \in Prompt
             /\ StartPrompt(p) /\ pending_prompts' = Tail(pending_prompts)
             /\ UNCHANGED prompt_cooldowns /\ Outstanding' = {p}
    <3>1. p \in Deferred /\ Deferred' = Deferred \ {p}
      <4>1. pending_prompts \in Seq(Prompt) /\ Distinct(pending_prompts)
        BY PendingAlt DEF Basic, TypeOK
      <4>2. p \in Entries(pending_prompts) /\ Entries(Tail(pending_prompts)) = Entries(pending_prompts) \ {p}
        BY <4>1, <2>2, TailEntries
      <4> HIDE DEF p
      <4> QED BY <2>2, <4>2 DEF Deferred, Entries
    <3>2. prompt_in_progress' = TRUE /\ UNCHANGED Held
      BY <2>2 DEF StartPrompt, Held
    <3>3. Slot!Promote(p)
      <4> HIDE DEF p
      <4> QED BY <2>2, <3>1, <3>2, <1>h DEF Slot!Promote
    <3> HIDE DEF p
    <3> QED BY <1>0, <2>2, <3>3 DEF Slot!Next
  <2> QED BY <1>8, <2>1, <2>2, PendingStep
<1> QED
  BY <1>1, <1>2, <1>3, <1>4, <1>5, <1>6, <1>7, <1>8
  DEF Next, Monitor, PollStep, ResultStep, User, Exited, Moves, Loses

\* The records of de-duplication are exact, nobody is asked within a hold, and no two
\* deferred prompts share an alias, whatever raises.
THEOREM AlwaysDeduplicated == Spec => []Deduplication
BY AlwaysPromptingExact, AlwaysHoldRespected, AlwaysPendingDistinct, PTL DEF Deduplication


\* PromptFlow implements PromptSlot: at every step the threads, the queue and the
\* dialogs do to the one slot what the slot allows, or nothing.
THEOREM FlowImplementsSlot == Spec => ImplementsSlot
<1>1. Basic /\ PromptingExact /\ PendingDistinct /\ [Next]_vars => [Slot!Next]_(Slot!vars)
  BY StepImplements
<1> QED
  BY <1>1, InitImplements, AlwaysBasic, AlwaysPromptingExact, AlwaysPendingDistinct, PTL
  DEF Spec, ImplementsSlot, Slot!Spec
=============================================================================
