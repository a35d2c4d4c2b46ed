---------------------------- MODULE MCLedHolder ----------------------------
(* A native and a compatibility client of a DXP2800 GT holder. *)
EXTENDS LedHolder

\* A blinking light under autonomous effects.
MCEffects == {[lights |-> [l \in Lights |-> [body |-> "orig", mode |-> "blink"]], flow |-> 0]}

\* Or a steady one without them.
MCFirst ==
    MCEffects \cup {[lights |-> [l \in Lights |-> [body |-> "orig", mode |-> "on"]], flow |-> 1]}
=============================================================================
