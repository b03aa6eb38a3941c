----------------------------- MODULE Deployment -----------------------------
(***************************************************************************)
(* What the capability gate promises its callers.  A call decides for each *)
(* of its streams, at one instant and by what the stream still demands     *)
(* then, whether the device carries it as it is, without what was waived,  *)
(* or not at all; only in the second case does the stream change.  A call  *)
(* may fail, but not between its decisions.                                *)
(***************************************************************************)
CONSTANTS
  Streams,
  Capabilities,
  Demands     \* stream -> the capabilities it demands when it is resolved

Calls ==
  [ able   : SUBSET Capabilities,                \* what the device is known to do
    waived : SUBSET (Streams \X Capabilities),   \* what each stream may go without
    gated  : BOOLEAN ]                           \* whether gates are to be scheduled

VARIABLES
  taken,      \* stream -> the capabilities it has lost since it was resolved
  phase,      \* "idle", or a call that is "open", "delivered" or "failed"
  call,       \* what the call offers
  answer,     \* stream -> "none", "open", "deployed" or "refused"
  features    \* the capabilities a delivered plan configures

promiseVars == <<taken, phase, call, answer, features>>

Nothing == [s \in Streams |-> "none"]

Init ==
  /\ taken = [s \in Streams |-> {}]
  /\ phase = "idle"
  /\ answer = Nothing
  /\ features = {}

Resolve(s) ==
  /\ phase = "idle"
  /\ taken' = [taken EXCEPT ![s] = {}]
  /\ UNCHANGED <<phase, call, answer, features>>

Submit ==
  /\ phase = "idle" /\ phase' = "open"
  /\ call' \in Calls
  /\ answer' \in [Streams -> {"none", "open"}]
  /\ UNCHANGED <<taken, features>>

Needed(s)  == Demands[s] \ taken[s]
Missing(s) == Needed(s) \ call.able
Waived(s)  == { c \in Capabilities : <<s, c>> \in call.waived }

Decide(s, verdict) ==
  /\ phase = "open"
  /\ answer[s] = "open"
  /\ answer' = [answer EXCEPT ![s] = verdict]
  /\ UNCHANGED <<phase, call, features>>

Carry(s) ==
  /\ Decide(s, "deployed")
  /\ Missing(s) = {}
  /\ UNCHANGED taken

Degrade(s) ==
  /\ Decide(s, "deployed")
  /\ Missing(s) # {} /\ Missing(s) \subseteq Waived(s)
  /\ taken' = [taken EXCEPT ![s] = @ \cup Missing(s)]

Refuse(s) ==
  /\ Decide(s, "refused")
  /\ ~ (Missing(s) \subseteq Waived(s))
  /\ UNCHANGED taken

Undecided == { s \in Streams : answer[s] = "open" }
Deployed  == { s \in Streams : answer[s] = "deployed" }

\* What the deployed streams still demand is configured, the gates if they are
\* asked for; preemption sorts every stream of the port, and is configured where
\* the device has it.
Deliver ==
  /\ phase = "open" /\ phase' = "delivered"
  /\ Undecided = {}
  /\ LET demanded == (UNION { Needed(s) : s \in Deployed })
                        \ (IF call.gated THEN {} ELSE {"tas"})
     IN  demanded \subseteq features' /\ features' \subseteq demanded \cup {"preemption"}
  /\ features' \subseteq call.able
  /\ Deployed = {} => features' = {}
  /\ UNCHANGED <<taken, call, answer>>

Fail ==
  /\ phase = "open" /\ phase' = "failed"
  /\ Undecided = {} \/ \A s \in Streams : answer[s] \in {"none", "open"}
  /\ UNCHANGED <<taken, call, answer, features>>

Collect ==
  /\ phase \in {"delivered", "failed"} /\ phase' = "idle"
  /\ answer' = Nothing
  /\ features' = {}
  /\ UNCHANGED taken

Next ==
  \/ \E s \in Streams : Resolve(s) \/ Carry(s) \/ Degrade(s) \/ Refuse(s)
  \/ Submit \/ Deliver \/ Fail \/ Collect

Spec == Init /\ [][Next]_promiseVars
=============================================================================
