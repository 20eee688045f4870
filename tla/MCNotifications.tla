--------------------------- MODULE MCNotifications --------------------------
(* Constants for model-checking Notifications.                             *)
EXTENDS Notifications

CONSTANTS mail, chat, t1, t2

MCApps == {mail, chat}
MCSettings == {{}, Settings}
MCThreads == {t1, t2}
Plain(a, icon) == [app |-> a, replaces |-> FALSE, icon |-> icon, marks |-> {}]
MCNotices ==
  {Plain(mail, "name"), Plain(chat, "data"),
   [Plain(mail, "name") EXCEPT !.replaces = TRUE, !.marks = {"timed", "matches"}],
   [Plain(chat, "none") EXCEPT !.marks = {"low"}],
   [Plain(mail, "none") EXCEPT !.marks = {"own"}],
   [Plain(mail, "none") EXCEPT !.marks = {"hidden"}],
   [Plain(chat, "none") EXCEPT !.marks = {"malformed"}]}
=============================================================================
