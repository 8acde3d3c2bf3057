------------------------------- MODULE Outbox --------------------------------
(***************************************************************************)
(* What a user may expect of the folder of unsent messages: a message      *)
(* leaves it only when the server has accepted it or the user throws it    *)
(* away, whatever fails and however often sending is asked for.            *)
(***************************************************************************)
CONSTANT Msgs

VARIABLES
  unsent,      \* messages in the folder
  accepted,    \* messages a server has accepted, once or more
  discarded    \* messages the user has thrown away

vars == <<unsent, accepted, discarded>>

Init == unsent = {} /\ accepted = {} /\ discarded = {}

Save(m) ==
  /\ m \notin unsent \cup accepted \cup discarded
  /\ unsent' = unsent \cup {m}
  /\ UNCHANGED <<accepted, discarded>>

\* The server may have the message long before the folder is told.
Accept(m) ==
  /\ m \in unsent \cup discarded
  /\ accepted' = accepted \cup {m}
  /\ UNCHANGED <<unsent, discarded>>

Remove(m) ==
  /\ m \in unsent /\ m \in accepted
  /\ unsent' = unsent \ {m}
  /\ UNCHANGED <<accepted, discarded>>

Discard(m) ==
  /\ m \in unsent
  /\ unsent' = unsent \ {m}
  /\ discarded' = discarded \cup {m}
  /\ UNCHANGED accepted

Next == \E m \in Msgs : Save(m) \/ Accept(m) \/ Remove(m) \/ Discard(m)

Spec == Init /\ [][Next]_vars
==============================================================================
