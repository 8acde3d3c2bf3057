----------------------------- MODULE MCSendLater -----------------------------
(***************************************************************************)
(* Small instances of SendLater: one message that is sent in the           *)
(* background and one that waits for the user, and the calls of the        *)
(* offline manager that the mail window and its dialogs make.              *)
(***************************************************************************)
EXTENDS SendLater

CONSTANTS now, later

Call(op, on) == [NoCall EXCEPT !.op = op,
                  !.send = "send" \in on, !.playback = "playback" \in on,
                  !.news = "news" \in on, !.mail = "mail" \in on,
                  !.leave = "leave" \in on]

\* Get mail or send while offline; download and synchronise; go offline.
WindowCommands == {
  Call("goOnline", {"send", "playback"}),
  Call("goOffline", {"news", "mail", "send", "leave"}), Call("goOffline", {"leave"})}
==============================================================================
