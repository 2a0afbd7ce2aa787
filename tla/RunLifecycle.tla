---------------------------- MODULE RunLifecycle ----------------------------
(***************************************************************************)
(* What the queue promises about one assistant run, to somebody who sees   *)
(* neither leases nor workers nor events: a run is admitted once, is tried *)
(* a bounded number of times, and ends once; asking to cancel it narrows   *)
(* how it can end.  Runs move independently, so one step of the queue may  *)
(* move several.                                                           *)
(***************************************************************************)
EXTENDS Naturals

CONSTANTS Runs, MaxTries

VARIABLES
    phase,  \* new, waiting, trying, one of the ends, gone
    tries,  \* how often the run was handed out
    wanted  \* somebody asked for its cancellation

vars == <<phase, tries, wanted>>

Ends == {"succeeded", "failed", "cancelled", "expired"}

Init ==
    /\ phase = [r \in Runs |-> "new"]
    /\ tries = [r \in Runs |-> 0]
    /\ wanted = [r \in Runs |-> FALSE]

Same(r) == /\ phase'[r] = phase[r]
           /\ tries'[r] = tries[r]
           /\ wanted'[r] = wanted[r]

Admit(r) == /\ phase[r] = "new" /\ phase'[r] = "waiting"
            /\ tries'[r] = 0 /\ ~wanted'[r]

Try(r) == /\ phase[r] = "waiting" /\ phase'[r] = "trying"
          /\ tries[r] < MaxTries /\ tries'[r] = tries[r] + 1
          /\ wanted'[r] = wanted[r]

\* An attempt was lost; another one is left and nobody wants to stop.
Retry(r) == /\ phase[r] = "trying" /\ phase'[r] = "waiting"
            /\ tries[r] < MaxTries /\ tries'[r] = tries[r]
            /\ ~wanted[r] /\ ~wanted'[r]

Want(r) == /\ phase[r] \in {"waiting", "trying"} /\ phase'[r] = phase[r]
           /\ tries'[r] = tries[r] /\ wanted'[r]

End(r) == /\ phase[r] \in {"waiting", "trying"}
          /\ phase'[r] \in Ends
          /\ phase[r] = "waiting" => phase'[r] = "cancelled"
          /\ phase'[r] = "expired" => tries[r] = MaxTries
          /\ wanted[r] => phase'[r] \in {"cancelled", "failed"}
          /\ tries'[r] = tries[r] /\ wanted'[r] = wanted[r]

Forget(r) == /\ phase[r] \in Ends /\ phase'[r] = "gone"
             /\ tries'[r] = 0 /\ ~wanted'[r]

Step(r) == Admit(r) \/ Try(r) \/ Retry(r) \/ Want(r) \/ End(r) \/ Forget(r)

Next == \A r \in Runs : Step(r) \/ Same(r)

Spec == Init /\ [][Next]_vars
=============================================================================
