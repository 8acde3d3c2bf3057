------------------------------ MODULE MCAutoSync ------------------------------
(***************************************************************************)
(* Small instances of AutoSync: the inbox and another folder of a server.  *)
(***************************************************************************)
EXTENDS AutoSync

CONSTANTS inbox, list

MCServerOf == [f \in Folders |-> "one"]

MCKind == [f \in Folders |-> IF f = inbox THEN "inbox" ELSE "plain"]

MCOrder == <<inbox, list>>

MCHome == [m \in Messages |-> IF m \in {1, 9} THEN inbox ELSE list]

\* With a GroupSize of 5, messages 1 and 9 make two groups.  Message 8 is over
\* a FirstGroupSizeLimit of 6.
MCSize ==
  [m \in Messages |-> CASE m = 1 -> 2
                        [] m = 2 -> 3
                        [] m = 9 -> 4
                        [] m = 8 -> 8]

\* Whenever the user is away, all folders are due again.
AllDue == {Folders}
===============================================================================
