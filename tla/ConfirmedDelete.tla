--------------------------- MODULE ConfirmedDelete ---------------------------
(***************************************************************************)
(* What the cascade-destructive tools promise (docs/ARCHITECTURE.md,       *)
(* "Layer 3"): a target disappears only at the hand of a call that echoed  *)
(* a token some preview had shown, and that names this very target; the    *)
(* call is armed by one such token, and fires at most once.                *)
(***************************************************************************)

CONSTANTS Calls,      \* tool calls
          Targets,    \* what may be destroyed
          TokensOf    \* TokensOf[t]: the confirmation tokens that name target t

VARIABLES alive,      \* targets that still exist
          shown,      \* tokens that previews have shown
          armed       \* armed[c]: the <<target, token>> call c may act on: {} or one pair

vars == <<alive, shown, armed>>

Init == /\ alive \subseteq Targets
        /\ shown = {}
        /\ armed = [c \in Calls |-> {}]

\* A preview returns one token, of some target.
Show == /\ \E token \in shown' : /\ shown' = shown \union {token}
                                /\ \E t \in Targets : token \in TokensOf[t]
        /\ UNCHANGED <<alive, armed>>

Arm(c, t, token) == /\ armed[c] = {}
                    /\ token \in TokensOf[t]
                    /\ armed' = [armed EXCEPT ![c] = {<<t, token>>}]
                    /\ UNCHANGED <<alive, shown>>

Fire(c, t, token) == /\ armed[c] = {<<t, token>>}
                     /\ alive' \in {alive, alive \ {t}}
                     /\ armed' = [armed EXCEPT ![c] = {}]
                     /\ UNCHANGED shown

Next == \/ Show
        \/ \E c \in Calls, t \in Targets, token \in shown : Arm(c, t, token) \/ Fire(c, t, token)

Spec == Init /\ [][Next]_vars
=============================================================================
