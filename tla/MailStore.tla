------------------------------ MODULE MailStore ------------------------------
(***************************************************************************)
(* What a user may expect of local mail folders, whatever the program does *)
(* to their files: a folder's mail is what was delivered to it and not     *)
(* deleted by the user.  Compaction and reparsing are invisible; a crash   *)
(* may at its worst empty one folder, whose mail is left in a file that    *)
(* the program never looks at again, and none of it shows up elsewhere.    *)
(***************************************************************************)
CONSTANTS
  Folders,    \* local mail folders
  Msgs,       \* messages
  FirstMail   \* the mail every folder holds at the start

VARIABLES
  mail,       \* per folder: the messages it holds
  deleted,    \* messages the user has deleted
  stranded    \* messages no folder shows, in a file without a folder

vars == <<mail, deleted, stranded>>

Init == mail = FirstMail /\ deleted = {} /\ stranded = {}

Deliver(f, m) ==
  /\ \A g \in Folders : m \notin mail[g]
  /\ m \notin deleted \cup stranded
  /\ mail' = [mail EXCEPT ![f] = @ \cup {m}]
  /\ UNCHANGED <<deleted, stranded>>

Delete(f, m) ==
  /\ m \in mail[f]
  /\ mail' = [mail EXCEPT ![f] = @ \ {m}]
  /\ deleted' = deleted \cup {m}
  /\ UNCHANGED stranded

\* The program died in the middle of replacing the mailbox of f.
Strand(f) ==
  /\ mail[f] # {}
  /\ mail' = [mail EXCEPT ![f] = {}]
  /\ stranded' = stranded \cup mail[f]
  /\ UNCHANGED deleted

Next ==
  \/ \E f \in Folders, m \in Msgs : Deliver(f, m) \/ Delete(f, m)
  \/ \E f \in Folders : Strand(f)

Spec == Init /\ [][Next]_vars
==============================================================================
