----------------------------- MODULE AttemptFate -----------------------------
(***************************************************************************)
(* What the mailbox promises the two sides of an inference attempt: its    *)
(* fate is decided once, either by a host's answer or by the runner's      *)
(* timeout, and from then on neither side is told, or acts on, the other   *)
(* outcome.  An attempt no host was ever asked about may be given up as    *)
(* void; nothing is answered to it then.                                   *)
(***************************************************************************)
CONSTANT Attempts

VARIABLES
  fate,       \* fate[a]: "open" until it is decided, then "abandoned", "void" or the answer
  concluded,  \* concluded[a]: what the run durably made of the attempt
  told        \* told[a]: what the host that answered was told

fateVars == <<fate, concluded, told>>

Init ==
  /\ fate = [a \in Attempts |-> "open"]
  /\ concluded = [a \in Attempts |-> "none"]
  /\ told = [a \in Attempts |-> "none"]

\* The answer that decides the fate is told so in the same step.
Answer(a) ==
  /\ fate[a] = "open"
  /\ \E answer \in {"ok", "error"} : fate' = [fate EXCEPT ![a] = answer]
  /\ told' = [told EXCEPT ![a] = "stored"]
  /\ UNCHANGED concluded

Abandon(a) ==
  /\ fate[a] = "open"
  /\ fate' = [fate EXCEPT ![a] = "abandoned"]
  /\ UNCHANGED <<concluded, told>>

\* The claim failed or was orphaned before a host could be asked.
GiveUp(a) ==
  /\ fate[a] = "open" /\ concluded[a] = "none"
  /\ fate' = [fate EXCEPT ![a] = "void"]
  /\ concluded' = [concluded EXCEPT ![a] = "failed"]
  /\ UNCHANGED told

AnswerLate(a) ==
  /\ fate[a] = "abandoned"
  /\ told[a] = "none"
  /\ told' = [told EXCEPT ![a] = "discarded"]
  /\ UNCHANGED <<fate, concluded>>

\* Work is accepted, or fails with what the host reported, or is given up as a timeout.
Conclude(a) ==
  /\ concluded[a] = "none"
  /\ \/ fate[a] = "ok" /\ concluded' = [concluded EXCEPT ![a] = "accepted"]
     \/ fate[a] = "abandoned" /\ concluded' = [concluded EXCEPT ![a] = "timeout"]
     \/ fate[a] \notin {"open", "void"} /\ concluded' = [concluded EXCEPT ![a] = "failed"]
  /\ UNCHANGED <<fate, told>>

Next ==
  \E a \in Attempts : Answer(a) \/ Abandon(a) \/ GiveUp(a) \/ AnswerLate(a) \/ Conclude(a)

Spec == Init /\ [][Next]_fateVars
=============================================================================
