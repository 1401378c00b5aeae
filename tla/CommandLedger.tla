---------------------------- MODULE CommandLedger ----------------------------
(***************************************************************************)
(* What the replay window promises the host: every issued command is       *)
(* executed at most once, in the order of issue, and its verdict is given  *)
(* once and for all.                                                       *)
(***************************************************************************)
EXTENDS Integers

CONSTANTS Verdicts, NoVerdict

VARIABLES
    issued,     \* how many commands the host has issued; they are 0..issued-1
    verdict     \* serial -> verdict of its execution, or NoVerdict

vars == <<issued, verdict>>

Executed == {n \in DOMAIN verdict : verdict[n] # NoVerdict}

Init ==
    /\ issued = 0
    /\ \A n \in DOMAIN verdict : verdict[n] = NoVerdict

Issue ==
    /\ issued' = issued + 1
    /\ UNCHANGED verdict

Execute(n) ==
    /\ n < issued
    /\ \A k \in Executed : k < n
    /\ verdict'[n] \in Verdicts
    /\ verdict' = [verdict EXCEPT ![n] = verdict'[n]]
    /\ UNCHANGED issued

Next == Issue \/ \E n \in DOMAIN verdict : Execute(n)

Spec == Init /\ [][Next]_vars
=============================================================================
