---------------------------- MODULE ClientLoad -----------------------------
(***************************************************************************)
(* What a swagger client promises the code that waits for it: the load     *)
(* ends once, built or failed, or is lost without a word; and              *)
(* whoever listens, before or after, hears how it ended, once, and nothing *)
(* else.                                                                   *)
(***************************************************************************)
CONSTANTS Listeners, Callback   \* the listeners; the one that is a callback

VARIABLES
    outcome,      \* "none", "built", "failed" or "lost"
    listening,    \* those who have asked to hear
    heard         \* listener -> what it heard, or "none"

lvars == <<outcome, listening, heard>>

Init == /\ outcome = "none"
        /\ listening \in {{}, {Callback}}
        /\ heard = [l \in Listeners |-> "none"]

Listen(l) == /\ l \notin listening /\ listening' = listening \cup {l}
             /\ UNCHANGED <<outcome, heard>>

\* a callback hears in the turn that ends the load
End(o) == /\ outcome = "none" /\ o # "none" /\ outcome' = o
          /\ heard' = IF Callback \in listening /\ o # "lost"
                      THEN [heard EXCEPT ![Callback] = o] ELSE heard
          /\ UNCHANGED listening

Hear(l) == /\ l \in listening \ {Callback} /\ heard[l] = "none"
           /\ outcome \in {"built", "failed"}
           /\ heard' = [heard EXCEPT ![l] = outcome]
           /\ UNCHANGED <<outcome, listening>>

Ends == \E o \in {"built", "failed", "lost"} : End(o)

Next == Ends \/ \E l \in Listeners : Listen(l) \/ Hear(l)

\* the load ends, and everyone who asked hears of it unless it is lost
Told(l) == l \in listening /\ outcome \in {"built", "failed"} ~> heard[l] = outcome
Liveness == <>(outcome # "none") /\ \A l \in Listeners : Told(l)

Spec == Init /\ [][Next]_lvars /\ Liveness
=============================================================================
