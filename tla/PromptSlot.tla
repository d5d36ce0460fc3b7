----------------------------- MODULE PromptSlot -----------------------------
(* What the controller promises about prompts, without threads, queue and     *)
(* dialogs: one slot for the prompt the user has to answer, and a set of       *)
(* deferred ones.  A prompt leaves the slot only when it is resolved, a        *)
(* deferred one waits until it gets the slot or a result for one of its own    *)
(* aliases makes it pointless.                                                 *)
CONSTANTS
  Apps,        \* the locked-app records
  Aliases,     \* their aliases
  AliasesOf,   \* app -> its aliases
  CanLose      \* may an exception lose the prompt in the slot?

VARIABLES
  slot,        \* the prompt being asked, as a set of at most one
  busy,        \* is the slot taken?  A lost prompt leaves it so
  waiting,     \* the deferred prompts
  held         \* the aliases nobody is asked about for a while

vars == <<slot, busy, waiting, held>>

Prompt == [app : Apps, issue : BOOLEAN]

Shares(p, q) == AliasesOf[p.app] \cap AliasesOf[q.app] # {}
HeldOff(p) == AliasesOf[p.app] \cap held # {}

Init == slot = {} /\ busy = FALSE /\ waiting = {} /\ held = {}

Accept(p) ==
  /\ ~busy
  /\ ~HeldOff(p)
  /\ slot' = {p}
  /\ busy' = TRUE
  /\ UNCHANGED <<waiting, held>>

Defer(p) ==
  /\ busy
  /\ \A q \in slot \union waiting : ~Shares(p, q)
  /\ waiting' = waiting \union {p}
  /\ UNCHANGED <<slot, busy, held>>

Promote(p) ==
  /\ ~busy
  /\ p \in waiting
  /\ ~HeldOff(p)
  /\ slot' = {p}
  /\ busy' = TRUE
  /\ waiting' = waiting \ {p}
  /\ UNCHANGED held

\* The user has answered, the launch has succeeded or not.
Resolve(p) ==
  /\ slot = {p}
  /\ slot' = {}
  /\ busy' = FALSE
  /\ waiting' = {q \in waiting : ~Shares(q, p)}
  /\ held' \in {held, held \union AliasesOf[p.app]}

Expire ==
  /\ held' \in SUBSET held
  /\ UNCHANGED <<slot, busy, waiting>>

Lose ==
  /\ CanLose
  /\ slot' = {}
  /\ UNCHANGED <<busy, waiting, held>>

Next ==
  \/ \E p \in Prompt : Accept(p) \/ Defer(p) \/ Promote(p) \/ Resolve(p)
  \/ Expire
  \/ Lose

Spec == Init /\ [][Next]_vars
=============================================================================
