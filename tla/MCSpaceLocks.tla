---------------------------- MODULE MCSpaceLocks ----------------------------
(* SpaceLocks for TLC: the desktop application's threads.                  *)
EXTENDS SpaceLocks, TLC

CONSTANTS gui1, gui2, sync, listener, exit

\* The commands of the GUI, the file server sync thread, the chat listener
\* and the exit handler.
Commands == {"connect", "disconnect", "list", "add", "delete", "share"}
AllTasks == {gui1, gui2, sync, listener, exit}
DesktopMay == [t \in Tasks |->
                 IF t = sync THEN {"list"} ELSE IF t = listener THEN {"poll"}
                 ELSE IF t = exit THEN {"shutdown_all"} ELSE Commands]
=============================================================================
