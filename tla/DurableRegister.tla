--------------------------- MODULE DurableRegister ---------------------------
(***************************************************************************)
(* What the live-state store promises: a register that survives power      *)
(* loss.  A store request replaces the content in one step or, when power  *)
(* fails first, not at all; nothing else ever changes it.                  *)
(***************************************************************************)
CONSTANT Content

VARIABLES
  stored,    \* what the next power-up restores
  requested  \* the content of the request in progress, or {}

vars == <<stored, requested>>

Init ==
  /\ stored \in Content
  /\ requested = {}

Request(c) ==
  /\ requested = {}
  /\ requested' = {c}
  /\ UNCHANGED stored

Perform ==
  /\ requested # {}
  /\ stored' \in requested
  /\ requested' = {}

Abandon ==
  /\ requested # {}
  /\ requested' = {}
  /\ UNCHANGED stored

Next == (\E c \in Content : Request(c)) \/ Perform \/ Abandon

Spec == Init /\ [][Next]_vars
=============================================================================
