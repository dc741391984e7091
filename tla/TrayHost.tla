------------------------------ MODULE TrayHost ------------------------------
(***************************************************************************)
(* The notification-area icon of a host (service/tray_host.cpp): the       *)
(* owner's thread, which calls Start, runs the host and calls Stop         *)
(* (main.cpp, RunServiceConsoleCommand), the UI thread that Start creates, *)
(* with its hidden window and its message queue, and the user at the icon. *)
(*                                                                         *)
(* Start waits for the UI thread for five seconds: that wait may end       *)
(* before anything else has happened.  The window's creation and the icon  *)
(* may fail.  Only the owner calls Start and Stop.                         *)
(***************************************************************************)
EXTENDS Naturals, Sequences

CONSTANTS
    MaxStarts,  \* bound on the calls of Start
    MaxClicks   \* bound on right clicks waiting in the queue

ASSUME TrayAssumption == {MaxStarts, MaxClicks} \subseteq Nat \ {0}

VARIABLES
    trayState,         \* state_: Idle, Starting, Running
    hwnd,              \* hwnd_ is set
    iconAdded,         \* iconAdded_
    startError,        \* startError_ is set
    trayStopRequested, \* stopRequested_
    exitRequested,     \* exitRequested_
    joinable,          \* worker_ holds a thread
    trayOwner,         \* where the owner's thread is
    ui,                \* where the UI thread is, "none" without one
    window,            \* the hidden window exists
    icon,              \* the icon is in the notification area
    messages,          \* the UI thread's queue
    quit,              \* PostQuitMessage was called
    exits,             \* onExit calls since Start: each asks the host to stop
    starts

shared == <<trayState, hwnd, iconAdded, startError, trayStopRequested, exitRequested, joinable>>
uiVars == <<ui, window, icon, messages, quit>>
trayVars == <<shared, uiVars, trayOwner, exits, starts>>

TrayInit ==
    /\ trayState = "Idle"
    /\ hwnd = FALSE /\ iconAdded = FALSE /\ startError = FALSE
    /\ trayStopRequested = FALSE /\ exitRequested = FALSE
    /\ joinable = FALSE
    /\ trayOwner = "off"
    /\ ui = "none" /\ window = FALSE /\ icon = FALSE
    /\ messages = <<>> /\ quit = FALSE
    /\ exits = 0 /\ starts = 0

----------------------------------------------------------------------------
(* The owner's thread.                                                     *)

\* A message to a window that is gone is lost.
PostMessage(msg) == messages' = IF window THEN Append(messages, msg) ELSE messages

\* The thread may not be created.
StartTrayHost ==
    /\ trayOwner = "off" /\ starts < MaxStarts
    /\ trayState = "Idle"
    /\ starts' = starts + 1
    /\ hwnd' = FALSE /\ iconAdded' = FALSE /\ startError' = FALSE
    /\ trayStopRequested' = FALSE /\ exitRequested' = FALSE
    /\ exits' = 0
    /\ \/ /\ trayState' = "Starting"
          /\ joinable' = TRUE
          /\ ui' = "create"
          /\ trayOwner' = "waiting"
       \/ /\ UNCHANGED <<trayState, joinable, ui, trayOwner>>
    /\ UNCHANGED <<window, icon, messages, quit>>

\* wait_for: the UI thread has published its state, or five seconds have passed.
StartWakes ==
    /\ trayOwner = "waiting"
    /\ trayOwner' = "check"
    /\ UNCHANGED <<shared, uiVars, exits, starts>>

\* state_ is read after the wait, without the lock.
StartChecks ==
    /\ trayOwner = "check"
    /\ trayOwner' = IF trayState = "Running" THEN "running" ELSE "abandon"
    /\ UNCHANGED <<shared, uiVars, exits, starts>>

\* The failure path joins the UI thread; nobody has asked it to stop.
StartFails ==
    /\ trayOwner = "abandon"
    /\ joinable => ui = "gone"
    /\ joinable' = FALSE
    /\ ui' = "none"
    /\ trayOwner' = "off"
    /\ UNCHANGED <<trayState, hwnd, iconAdded, startError, trayStopRequested, exitRequested,
                   window, icon, messages, quit, exits, starts>>

\* Mutant of RequestStopFromAnyThread: the flag is set, but the window is not told.
StopPostsNothing ==
    /\ trayOwner = "running"
    /\ trayStopRequested' = TRUE
    /\ trayOwner' = "join"
    /\ UNCHANGED <<trayState, hwnd, iconAdded, startError, exitRequested, joinable,
                   ui, window, icon, quit, messages, exits, starts>>

\* RunConsole has returned: the window of time is over, Ctrl+C, or the tray's exit.
RequestStopFromAnyThread ==
    /\ trayOwner = "running"
    /\ trayStopRequested' = TRUE
    /\ IF hwnd THEN PostMessage("close") ELSE UNCHANGED messages
    /\ trayOwner' = "join"
    /\ UNCHANGED <<trayState, hwnd, iconAdded, startError, exitRequested, joinable,
                   ui, window, icon, quit, exits, starts>>

\* Mutant of StopJoinsTray: the thread is let go instead of joined.
StopDetaches ==
    /\ trayOwner = "join"
    /\ joinable' = FALSE
    /\ trayOwner' = "off"
    /\ UNCHANGED <<trayState, hwnd, iconAdded, startError, trayStopRequested, exitRequested,
                   uiVars, exits, starts>>

StopJoinsTray ==
    /\ trayOwner = "join"
    /\ joinable => ui = "gone"
    /\ joinable' = FALSE
    /\ ui' = "none"
    /\ trayOwner' = "off"
    /\ UNCHANGED <<trayState, hwnd, iconAdded, startError, trayStopRequested, exitRequested,
                   window, icon, messages, quit, exits, starts>>

----------------------------------------------------------------------------
(* The UI thread.                                                          *)

\* RegisterClassEx and CreateWindowEx.
CreateTrayWindow ==
    /\ ui = "create"
    /\ \E ok \in BOOLEAN : /\ window' = ok
                           /\ ui' = IF ok THEN "icon" ELSE "failed"
    /\ UNCHANGED <<shared, trayOwner, icon, messages, quit, exits, starts>>

\* Without the icon the window goes too.
AddIcon ==
    /\ ui = "icon"
    /\ \E ok \in BOOLEAN : /\ icon' = ok
                           /\ window' = ok
                           /\ ui' = IF ok THEN "ready" ELSE "failed"
    /\ UNCHANGED <<shared, trayOwner, messages, quit, exits, starts>>

PublishReady ==
    /\ ui \in {"ready", "failed"}
    /\ hwnd' = window
    /\ iconAdded' = icon
    /\ startError' = (ui = "failed")
    /\ trayState' = IF ui = "failed" THEN "Idle" ELSE "Running"
    /\ ui' = IF ui = "failed" THEN "gone" ELSE "published"
    /\ UNCHANGED <<trayStopRequested, exitRequested, joinable, trayOwner, window, icon, messages,
                   quit, exits, starts>>

\* A stop that came before the window was known has posted nothing.
CheckStopRequested ==
    /\ ui = "published"
    /\ ui' = "loop"
    /\ IF trayStopRequested THEN PostMessage("close") ELSE UNCHANGED messages
    /\ UNCHANGED <<shared, trayOwner, window, icon, quit, exits, starts>>

\* WM_CLOSE: the icon goes, then the window and with it what is queued for it.  An open
\* menu's own message loop dispatches it too, and the menu ends with its window.
CloseFromUiThread ==
    /\ ui \in {"loop", "menu"}
    /\ messages # <<>> /\ Head(messages) = "close"
    /\ IF hwnd
       THEN /\ icon' = FALSE /\ iconAdded' = FALSE
            /\ window' = FALSE /\ messages' = <<>>
            /\ quit' = TRUE
       ELSE /\ messages' = Tail(messages)
            /\ UNCHANGED <<icon, iconAdded, window, quit>>
    /\ ui' = "loop"
    /\ UNCHANGED <<trayState, hwnd, startError, trayStopRequested, exitRequested, joinable,
                   trayOwner, exits, starts>>

ShowTrayMenu ==
    /\ ui = "loop"
    /\ messages # <<>> /\ Head(messages) = "click"
    /\ messages' = Tail(messages)
    /\ ui' = "menu"
    /\ UNCHANGED <<shared, trayOwner, window, icon, quit, exits, starts>>

\* A click at the icon while the menu is open is dispatched by the menu's loop.
ClickInMenu ==
    /\ ui = "menu"
    /\ messages # <<>> /\ Head(messages) = "click"
    /\ messages' = Tail(messages)
    /\ UNCHANGED <<shared, trayOwner, ui, window, icon, quit, exits, starts>>

MenuDismissed ==
    /\ ui = "menu"
    /\ ui' = "loop"
    /\ UNCHANGED <<shared, trayOwner, window, icon, messages, quit, exits, starts>>

\* The menu's exit.
RequestExitFromUiThread ==
    /\ ui = "menu"
    /\ ui' = "loop"
    /\ exits' = IF exitRequested THEN exits ELSE exits + 1
    /\ exitRequested' = TRUE
    /\ IF hwnd THEN PostMessage("close") ELSE UNCHANGED messages
    /\ UNCHANGED <<trayState, hwnd, iconAdded, startError, trayStopRequested, joinable,
                   trayOwner, window, icon, quit, starts>>

\* GetMessage has returned 0.
WorkerEnds ==
    /\ ui = "loop" /\ quit
    /\ hwnd' = FALSE /\ iconAdded' = FALSE
    /\ trayState' = "Idle"
    /\ ui' = "gone"
    /\ quit' = FALSE
    /\ UNCHANGED <<startError, trayStopRequested, exitRequested, joinable, trayOwner, window, icon,
                   messages, exits, starts>>

----------------------------------------------------------------------------

RightClick ==
    /\ icon
    /\ Len(SelectSeq(messages, LAMBDA m : m = "click")) < MaxClicks
    /\ PostMessage("click")
    /\ UNCHANGED <<shared, trayOwner, ui, window, icon, quit, exits, starts>>

TrayOwnerStep ==
    \/ StartWakes \/ StartChecks \/ StartFails
    \/ RequestStopFromAnyThread \/ StopJoinsTray

\* What the UI thread does by itself, without a choice of the user's.
Worker ==
    \/ CreateTrayWindow \/ AddIcon \/ PublishReady \/ CheckStopRequested
    \/ CloseFromUiThread \/ ShowTrayMenu \/ ClickInMenu \/ WorkerEnds

\* Not an action of the code: after the last Start the tray does nothing more.
TrayDone == trayOwner = "off" /\ starts = MaxStarts /\ UNCHANGED trayVars

TrayNext ==
    \/ StartTrayHost \/ TrayOwnerStep \/ Worker
    \/ RightClick \/ MenuDismissed \/ RequestExitFromUiThread
    \/ TrayDone

\* Both threads run.  The host may run for ever and the user need not come.
TrayFairness ==
    /\ WF_trayVars(Worker)
    /\ WF_trayVars(StartWakes \/ StartChecks \/ StartFails \/ StopJoinsTray)

TraySpec == TrayInit /\ [][TrayNext]_trayVars /\ TrayFairness

----------------------------------------------------------------------------
(* Properties.                                                             *)

\* Types of the tray's members, its threads and its queue.
TrayTypeOK ==
    /\ trayState \in {"Idle", "Starting", "Running"}
    /\ {hwnd, iconAdded, startError, trayStopRequested, exitRequested, joinable,
        window, icon, quit} \subseteq BOOLEAN
    /\ trayOwner \in {"off", "waiting", "check", "abandon", "running", "join"}
    /\ ui \in {"none", "create", "icon", "ready", "failed", "published", "loop", "menu", "gone"}
    /\ messages \in Seq({"close", "click"})
    /\ exits \in Nat
    /\ starts \in 0..MaxStarts

\* "不遗留线程/窗口/图标": when Start has failed and when Stop has returned there is no UI
\* thread, no window and no icon, and the members say so.  And "onExit 至多回调一次": however
\* many menus the user opens before the window closes, the host is asked to stop once.
TrayContract ==
    /\ trayOwner = "off" =>
          /\ ui = "none" /\ ~joinable /\ ~window /\ ~icon /\ messages = <<>>
          /\ trayState = "Idle" /\ ~hwnd /\ ~iconAdded
    /\ exits <= 1

\* Start and Stop return.  The exception is a Start that gave up waiting while the window
\* came up after all: it then joins a thread that nobody has asked to stop, until the
\* user leaves from the menu.
TrayCallsReturn ==
    trayOwner \in {"waiting", "join"} ~>
        trayOwner \in {"running", "off"} \/ (trayOwner = "abandon" /\ trayState = "Running")
=============================================================================
