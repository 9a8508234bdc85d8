---------------------------- MODULE RunConcurrent ----------------------------
(***************************************************************************)
(* service.Handler.RunConcurrent (service/service_handler.go): a hook runs *)
(* for one service first, then concurrently for all others but one, and    *)
(* last for that one.  An error ends it after the hooks that are already   *)
(* running.  What a hook does is left open here; modules whose handlers    *)
(* call RunConcurrent are shown to implement this one.                     *)
(***************************************************************************)
CONSTANTS Services, First, Last   \* First and Last need not be installed

VARIABLES
  st,   \* the hook of each service: "todo", "running", "ok" or "err"
  ret   \* what RunConcurrent returned: "none" yet, "ok" or "err"

rcVars == <<st, ret>>

Init == st = [s \in Services |-> "todo"] /\ ret = "none"

Middle == Services \ {First, Last}

Ok(S) == \A s \in S : st[s] = "ok"

CanStart(s) ==
  \/ s = First
  \/ s \in Middle /\ Ok(Services \cap {First})
  \/ s = Last /\ Ok(Services \ {Last})

\* A hook is called; it may end at once.
Start(s) ==
  /\ ret = "none" /\ st[s] = "todo" /\ CanStart(s)
  /\ \E r \in {"running", "ok", "err"} : st' = [st EXCEPT ![s] = r]
  /\ UNCHANGED ret

\* A hook returns.
Finish(s) ==
  /\ st[s] = "running"
  /\ \E r \in {"ok", "err"} : st' = [st EXCEPT ![s] = r]
  /\ UNCHANGED ret

\* An error is returned once every started goroutine has ended, and all of the
\* concurrent ones have been started unless the first service failed.
Failed ==
  /\ \E s \in Services : st[s] = "err"
  /\ \A s \in Services : st[s] # "running"
  /\ Ok(Services \cap {First}) => \A s \in Middle : st[s] # "todo"

\* RunConcurrent returns.
Return ==
  /\ ret = "none"
  /\ \/ Ok(Services) /\ ret' = "ok"
     \/ Failed /\ ret' = "err"
  /\ UNCHANGED st

Next ==
  \/ \E s \in Services : Start(s) \/ Finish(s)
  \/ Return

Spec == Init /\ [][Next]_rcVars
=============================================================================
