-------------------------- MODULE MCImapConnections --------------------------
(***************************************************************************)
(* Small instances of ImapConnections: two connections at most, and URLs   *)
(* about the inbox and another folder.                                     *)
(***************************************************************************)
EXTENDS ImapConnections, TLC

CONSTANTS inbox, drafts, open1, open2, open3, append, subscribe1, subscribe2, fetch,
          c1, c2, c3, c4, c5, c6

KindOf == [u \in Urls |-> CASE u = append -> "prefer"
                             [] u \in {subscribe1, subscribe2} -> "subscribe"
                             [] u = fetch -> "plain"
                             [] OTHER -> "select"]
\* What a step does to a connection does not depend on which it is; a new one
\* may be any that is unused.
Identities == Permutations(Connections)

AboutFolder == [u \in Urls |-> IF u \in {open1, fetch} THEN inbox ELSE drafts]
==============================================================================
