---------------------------- MODULE MCCopyService ----------------------------
(***************************************************************************)
(* Small instances of CopyService.  Two folders messages come from (inbox, *)
(* junk), two they go to (archive, trash), and two folders (work, team)    *)
(* that can be copied under archive, where their copies are archiveWork    *)
(* and archiveTeam.                                                        *)
(***************************************************************************)
EXTENDS CopyService

CONSTANTS inbox, junk, archive, trash, work, team, archiveWork, archiveTeam,
          draft, sent

MCFolders ==
  {inbox, junk, archive, trash, work, team, archiveWork, archiveTeam}

MCParentOf ==
  [f \in MCFolders |->
     IF f \in {archiveWork, archiveTeam} THEN archive ELSE NoFolder]

\* A copied folder keeps its name; "other" stands for names nobody compares.
MCLeafName ==
  [f \in MCFolders |->
     CASE f \in {work, archiveWork} -> "work"
       [] f \in {team, archiveTeam} -> "team"
       [] OTHER -> "other"]

------------------------------------------------------------------------------
(***************************************************************************)
(* nsMsgCopyService::CopyMessages groups the messages by their folder,     *)
(* scanning the array from its end: while messages are left, the folder of *)
(* the last one becomes a source and takes all its messages.               *)
(***************************************************************************)
GroupByFolder(folderOfMsg) ==
  FoldRight(LAMBDA f, found : IF Contains(found, f) THEN found
                                                    ELSE Append(found, f),
            folderOfMsg, <<>>)

\* CopyMessages with messages of the given folders, src being the folder the
\* caller names as the source.
Messages(src, folderOfMsg, dst) ==
  [type |-> "messages", src |-> src, dst |-> dst,
   sources |-> GroupByFolder(folderOfMsg)]

Folder(src, dst) ==
  [type |-> "folders", src |-> src, dst |-> dst, sources |-> <<src>>]

\* CopyFileMessage; a message to replace adds a source of its own.
File(file, dst, replaces) ==
  [type |-> "file", src |-> file, dst |-> dst,
   sources |-> IF replaces THEN <<file>> ELSE <<>>]

\* Copies of messages that all lie in the folder named as the source, of
\* files, and of folders.
PlainSubmissions ==
  {Messages(inbox, <<inbox, inbox>>, archive), Messages(junk, <<junk>>, archive),
   Messages(inbox, <<inbox>>, trash),
   File(draft, archive, FALSE),
   File(sent, archive, TRUE), Folder(work, archive)}

\* Messages dropped from a view on several folders: the caller names the
\* folder of the first message as the source of them all.
SearchViewSubmissions ==
  {Messages(inbox, <<inbox, junk, inbox>>, archive),
   Messages(inbox, <<inbox, archive, junk>>, archive),
   Messages(inbox, <<inbox>>, trash)}

\* nsImapMoveCoalescer::PlaybackMoves when the messages are gone.
EmptySubmissions == {Messages(inbox, <<>>, archive), Messages(junk, <<junk>>, trash)}

\* Two folders dropped on the same parent folder.
FolderSubmissions == {Folder(work, archive), Folder(team, archive)}

\* Messages dropped on a folder that is itself being copied there; a folder
\* dropped on itself.
SubfolderSubmissions ==
  {Folder(work, archive), Messages(inbox, <<inbox>>, archiveWork)}
OntoItselfSubmissions == {Folder(work, work)}

MixedSubmissions ==
  {Messages(inbox, <<inbox, junk, inbox>>, archive),
   Messages(inbox, <<inbox>>, trash), Messages(inbox, <<archive>>, archive),
   Messages(inbox, <<>>, trash), File(draft, archive, FALSE),
   Folder(work, archive), Folder(team, archive)}
==============================================================================
