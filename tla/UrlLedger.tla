------------------------------ MODULE UrlLedger ------------------------------
(***************************************************************************)
(* What the listener of an IMAP URL may expect: it is told once that the   *)
(* URL starts and once that it ends, in this order, whatever connections   *)
(* the URL is tried on and however often it waits in the queue.  Only a    *)
(* cancelled URL may end without having started.                           *)
(***************************************************************************)
CONSTANTS
  Urls,
  Local        \* URLs that the offline store may answer

VARIABLES
  told,        \* per URL: what its listener knows
  cancelled    \* URLs that were cancelled

vars == <<told, cancelled>>

Init == told = [u \in Urls |-> "new"] /\ cancelled = {}

Becomes(u, from, to) ==
  /\ told[u] = from
  /\ told' = [told EXCEPT ![u] = to]
  /\ UNCHANGED cancelled

Ask(u) == Becomes(u, "new", "asked")

\* The caller gets an error instead.
Refuse(u) == Becomes(u, "new", "refused")

Start(u) == Becomes(u, "asked", "started")

Stop(u) == Becomes(u, "started", "stopped")

Answer(u) ==
  /\ u \in Local
  /\ \E from \in {"new", "asked", "started"} : Becomes(u, from, "stopped")

Cancel(u) ==
  /\ told[u] \in {"asked", "started"}
  /\ cancelled' = cancelled \cup {u}
  /\ UNCHANGED told

\* Queued URLs that were cancelled are ended together.
Abort ==
  \E U \in SUBSET cancelled :
    /\ \A u \in U : told[u] \in {"asked", "started"}
    /\ told' = [u \in Urls |-> IF u \in U THEN "stopped" ELSE told[u]]
    /\ UNCHANGED cancelled

Next ==
  \/ \E u \in Urls : Ask(u) \/ Refuse(u) \/ Start(u) \/ Stop(u) \/ Answer(u) \/ Cancel(u)
  \/ Abort

Spec == Init /\ [][Next]_vars
==============================================================================
