------------------------------ MODULE AlarmLog ------------------------------
(***************************************************************************)
(* What event reporting promises about one object, without values, limits, *)
(* delays or a clock: the object is in a state; a change of state produces *)
(* at most one entry, which names the state that was left and the state    *)
(* that was entered; entries are only ever added at the end, once, and     *)
(* only their acknowledgement changes afterwards.                          *)
(***************************************************************************)
EXTENDS Naturals, Sequences

CONSTANTS States, Normal, Nothing

VARIABLES state, log, owed

alVars == <<state, log, owed>>

AlarmLogInit == state = Normal /\ log = <<>> /\ owed = Nothing

\* The state changes; whether that is reported is a matter of configuration.
Move(to) ==
  /\ owed = Nothing /\ to # state
  /\ state' = to
  /\ owed' \in {Nothing, [from |-> state, to |-> to]}
  /\ UNCHANGED log

Deliver ==
  /\ owed # Nothing
  /\ log' = Append(log, [from |-> owed.from, to |-> owed.to, acked |-> FALSE])
  /\ owed' = Nothing
  /\ UNCHANGED state

\* States are not stored: they can be forgotten, and so can an entry that is
\* not written yet.
Forget ==
  /\ state' \in {state, Normal}
  /\ owed' \in {owed, Nothing}
  /\ UNCHANGED log

Acknowledge ==
  /\ \E i \in DOMAIN log : log' = [log EXCEPT ![i] = [@ EXCEPT !.acked = TRUE]]
  /\ UNCHANGED <<state, owed>>

AlarmLogNext == (\E to \in States : Move(to)) \/ Deliver \/ Forget \/ Acknowledge

AlarmLogSpec == AlarmLogInit /\ [][AlarmLogNext]_alVars
=============================================================================
