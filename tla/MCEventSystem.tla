---------------------------- MODULE MCEventSystem ----------------------------
(* Two events and two subscriptions: one to everything, one to the type of  *)
(* the first event only.                                                    *)
EXTENDS EventSystem

CONSTANTS e1, e2, all, one

EventDef == {e1, e2}
SubscriptionDef == {all, one}
MatchesDef == [e \in EventDef |-> IF e = e1 THEN {all, one} ELSE {all}]
=============================================================================
