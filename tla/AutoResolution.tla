--------------------------- MODULE AutoResolution ---------------------------
(***************************************************************************)
(* What the mirror of Polymarket promises about money (STL-01): a market's *)
(* bets are paid without an admin only on the outcome that the UMA oracle  *)
(* confirmed, and only after a grace period that began once, after the     *)
(* oracle had resolved.  An admin may pay on any outcome and take it back. *)
(***************************************************************************)
CONSTANTS Markets, None

VARIABLES
    oracle,     \* "open", "resolved" (no clear price yet), or the winner
    grace,      \* "none", "running", "over"
    paid        \* who paid the market's bets and on what, or None

vars == <<oracle, grace, paid>>

Outcome == {"YES", "NO"}

Init ==
    /\ oracle = [m \in Markets |-> "open"]
    /\ grace = [m \in Markets |-> "none"]
    /\ paid = [m \in Markets |-> None]

Resolve(m, verdict) ==
    /\ oracle[m] \in {"open", "resolved"}
    /\ oracle' = [oracle EXCEPT ![m] = verdict]
    /\ UNCHANGED <<grace, paid>>

StartGrace(m) ==
    /\ oracle[m] # "open" /\ grace[m] = "none"
    /\ grace' = [grace EXCEPT ![m] = "running"]
    /\ UNCHANGED <<oracle, paid>>

GraceElapses(m) ==
    /\ grace[m] = "running"
    /\ grace' = [grace EXCEPT ![m] = "over"]
    /\ UNCHANGED <<oracle, paid>>

AutoPay(m) ==
    /\ paid[m] = None /\ grace[m] = "over" /\ oracle[m] \in Outcome
    /\ paid' = [paid EXCEPT ![m] = <<"uma", oracle[m]>>]
    /\ UNCHANGED <<oracle, grace>>

OverridePay(m, w) ==
    /\ paid[m] = None
    /\ paid' = [paid EXCEPT ![m] = <<"admin", w>>]
    /\ UNCHANGED <<oracle, grace>>

TakeBack(m) ==
    /\ paid[m] # None
    /\ paid' = [paid EXCEPT ![m] = None]
    /\ UNCHANGED <<oracle, grace>>

Next == \E m \in Markets :
    \/ \E verdict \in {"resolved"} \cup Outcome : Resolve(m, verdict)
    \/ StartGrace(m) \/ GraceElapses(m) \/ AutoPay(m) \/ TakeBack(m)
    \/ \E w \in Outcome : OverridePay(m, w)

Spec == Init /\ [][Next]_vars
=============================================================================
