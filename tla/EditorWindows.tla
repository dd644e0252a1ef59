--------------------------- MODULE EditorWindows ---------------------------
(***************************************************************************)
(* The life of the native editor windows.  The interface keeps three       *)
(* tables by plugin NAME (external_plugins_settings.rs); every window is a *)
(* thread of its own (run_plugin_window) that loads the plugin, runs its   *)
(* loop and reports its end, again by name, on a channel the interface     *)
(* drains once per frame.  What flows to and from a running window is the  *)
(* subject of ParamSync.                                                   *)
(***************************************************************************)
EXTENDS Integers, Sequences

CONSTANTS Names,       \* names of plugins
          None,        \* no window
          MaxWindows   \* bound: windows ever opened

ASSUME WindowAssumption == MaxWindows \in Nat /\ None \notin 1..MaxWindows

Ids == 1..MaxWindows

VARIABLES open_plugins,   \* name -> the window whose thread is held, or None
          cmd_tx,         \* name -> the window that gets the commands, or None
          opening,        \* names shown as being opened
          gui_errors,     \* names whose editor is marked as broken
          windows,        \* the windows so far, in the order they were opened
          close_rx,       \* reports of windows that ended, oldest first
          reopened        \* history: a name was opened before its last window's end was polled

tables == <<open_plugins, cmd_tx, opening, gui_errors>>
vars == <<tables, windows, close_rx, reopened>>

Window == [name : Names, at : {"opening", "running", "leaving", "gone"},
           told : BOOLEAN,      \* Close is in its command channel
           failed : BOOLEAN]    \* its end is reported as an error

Alive(w) == windows[w].at # "gone"
Windows(n) == {w \in DOMAIN windows : windows[w].name = n}
Reports(n) == {i \in DOMAIN close_rx : windows[close_rx[i]].name = n}

Init ==
    /\ open_plugins = [n \in Names |-> None] /\ cmd_tx = open_plugins
    /\ opening = {} /\ gui_errors = {}
    /\ windows = <<>> /\ close_rx = <<>>
    /\ reopened = FALSE

-----------------------------------------------------------------------------
(* The interface's thread.                                                  *)

NewWindow(n) == [name |-> n, at |-> "opening", told |-> FALSE, failed |-> FALSE]

Enters(n, errors) ==
    /\ open_plugins[n] = None /\ n \notin opening
    /\ Len(windows) < MaxWindows
    /\ windows' = Append(windows, NewWindow(n))
    /\ open_plugins' = [open_plugins EXCEPT ![n] = Len(windows')]
    /\ cmd_tx' = [cmd_tx EXCEPT ![n] = Len(windows')]
    /\ opening' = opening \union {n}
    /\ gui_errors' = errors
    /\ reopened' = (reopened \/ Reports(n) # {} \/ \E w \in Windows(n) : Alive(w))
    /\ UNCHANGED close_rx

\* Mutant: the mark of an earlier attempt stays.
OpenPlugin_KeepsError(n) == Enters(n, gui_errors)

\* A new attempt clears the mark of the last one.  The rack's button opens a
\* plugin that is not marked, the settings panel any plugin.
OpenPlugin(n) == Enters(n, gui_errors \ {n})

Removed(table, n) == [table EXCEPT ![n] = None]

\* Mutant: the command channel is dropped without a Close in it.
ClosePlugin_NoCommand(n) ==
    /\ open_plugins[n] # None /\ n \notin gui_errors
    /\ cmd_tx' = Removed(cmd_tx, n)
    /\ open_plugins' = Removed(open_plugins, n)
    /\ opening' = opening \ {n}
    /\ UNCHANGED <<gui_errors, windows, close_rx, reopened>>

\* The rack's button, which a marked plugin does not have.  The thread is not
\* joined and its end not awaited; a window that is gone ignores the command.
ClosePlugin(n) ==
    /\ open_plugins[n] # None /\ n \notin gui_errors
    /\ windows' = IF cmd_tx[n] = None THEN windows
                  ELSE [windows EXCEPT ![cmd_tx[n]].told = TRUE]
    /\ cmd_tx' = Removed(cmd_tx, n)
    /\ open_plugins' = Removed(open_plugins, n)
    /\ opening' = opening \ {n}
    /\ UNCHANGED <<gui_errors, close_rx, reopened>>

Reported == {windows[close_rx[i]].name : i \in DOMAIN close_rx}
Failed == {windows[close_rx[i]].name :
              i \in {j \in DOMAIN close_rx : windows[close_rx[j]].failed}}
Without(table, names) == [n \in Names |-> IF n \in names THEN None ELSE table[n]]

\* Mutant: a plugin whose window ended counts as being opened for ever.
PollUpdates_StillOpening ==
    /\ close_rx # <<>> /\ close_rx' = <<>>
    /\ open_plugins' = Without(open_plugins, Reported)
    /\ cmd_tx' = Without(cmd_tx, Reported)
    /\ gui_errors' = gui_errors \union Failed
    /\ UNCHANGED <<opening, windows, reopened>>

\* The channel is drained; every report removes its name from the tables,
\* whichever window they name by now.
PollUpdates ==
    /\ close_rx # <<>> /\ close_rx' = <<>>
    /\ open_plugins' = Without(open_plugins, Reported)
    /\ cmd_tx' = Without(cmd_tx, Reported)
    /\ opening' = opening \ Reported
    /\ gui_errors' = gui_errors \union Failed
    /\ UNCHANGED <<windows, reopened>>

-----------------------------------------------------------------------------
(* The thread of a window.                                                  *)

Step(w, from, to, failed) ==
    /\ windows[w].at = from
    /\ windows' = [windows EXCEPT ![w].at = to, ![w].failed = failed]
    /\ UNCHANGED <<tables, reopened>>

\* Mutant: the windows are counted from 0.
Report_FromZero(w) == close_rx' = Append(close_rx, w - 1)
Report(w) == close_rx' = Append(close_rx, w)

\* The library, the embedding or the display refuses.
OpenFails(w) == Step(w, "opening", "gone", TRUE) /\ Report(w)

\* Mutant: what was sent while the plugin loaded is thrown away.
OpenSucceeds_DrainsCommands(w) ==
    /\ windows[w].at = "opening"
    /\ windows' = [windows EXCEPT ![w].at = "running", ![w].told = FALSE]
    /\ UNCHANGED <<tables, close_rx, reopened>>

OpenSucceeds(w) == Step(w, "opening", "running", FALSE) /\ UNCHANGED close_rx

\* The loop ends because it was told to, because the user closed the window
\* itself, or because the X server took the window or the connection away.
CloseRequested(w) ==
    windows[w].told /\ Step(w, "running", "leaving", FALSE) /\ UNCHANGED close_rx
UserClosed(w) == Step(w, "running", "leaving", FALSE) /\ UNCHANGED close_rx
Destroyed(w) == Step(w, "running", "leaving", TRUE) /\ UNCHANGED close_rx

\* Mutant: only failures are reported.
Notify_FailuresOnly(w) ==
    /\ Step(w, "leaving", "gone", windows[w].failed)
    /\ IF windows[w].failed THEN Report(w) ELSE UNCHANGED close_rx

\* The plugin and the window are gone; the interface hears of it.
Notify(w) == Step(w, "leaving", "gone", windows[w].failed) /\ Report(w)

-----------------------------------------------------------------------------
User == \E n \in Names : OpenPlugin(n) \/ ClosePlugin(n)
Load(w) == OpenFails(w) \/ OpenSucceeds(w)
Foreign(w) == UserClosed(w) \/ Destroyed(w)
Thread(w) == Load(w) \/ CloseRequested(w) \/ Foreign(w) \/ Notify(w)

Next == User \/ PollUpdates \/ \E w \in DOMAIN windows : Thread(w)

\* A timer draws a frame every 33 ms, but only while the table of open windows
\* is not empty.  Loading returns, the loop of a window reads its commands on
\* every tick, and a thread that left it goes on to its report.
AnyPluginOpen == \E n \in Names : open_plugins[n] # None
Fairness ==
    /\ WF_vars(AnyPluginOpen /\ PollUpdates)
    /\ \A w \in Ids : /\ WF_vars(w \in DOMAIN windows /\ Load(w))
                      /\ WF_vars(w \in DOMAIN windows /\ CloseRequested(w))
                      /\ WF_vars(w \in DOMAIN windows /\ Notify(w))

Spec == Init /\ [][Next]_vars /\ Fairness

-----------------------------------------------------------------------------
(* Properties.                                                              *)

TypeOK ==
    /\ open_plugins \in [Names -> Ids \union {None}]
    /\ cmd_tx \in [Names -> Ids \union {None}]
    /\ opening \subseteq Names /\ gui_errors \subseteq Names
    /\ windows \in Seq(Window) /\ Len(windows) <= MaxWindows
    /\ close_rx \in Seq(DOMAIN windows)
    /\ reopened \in BOOLEAN

\* The three tables name the same plugins, and the same windows, whatever
\* mixture of buttons and late reports wrote them (open_plugin, close_plugin
\* and poll_updates each write all three): what is shown as open can be closed,
\* and what was closed can be opened again.
TablesAgree ==
    /\ cmd_tx = open_plugins
    /\ opening = {n \in Names : open_plugins[n] # None}

\* Every window that is on its way or running can be closed and sent values
\* from the rack, unless it was told to close, left by itself, or a name was
\* opened again before the end of its last window was polled (close_plugin
\* does not wait for the thread).
InHand(w) == windows[w].at \in {"opening", "running"} /\ ~windows[w].told
WindowsAreHeld ==
    ~reopened => \A w \in DOMAIN windows : InHand(w) =>
                    open_plugins[windows[w].name] = w /\ cmd_tx[windows[w].name] = w

\* A plugin is marked as broken because of its last attempt, never while an
\* editor of it lives (open_plugin: "era de otro intento y ya no aplica").
MarksAreCurrent ==
    ~reopened => \A n \in gui_errors : \A w \in Windows(n) : ~Alive(w)

\* A window told to close ends and is reported, also if it was still loading
\* when it was told, and whatever was opened since.
ToldWindowsEnd ==
    \A w \in Ids : (w \in DOMAIN windows /\ windows[w].told)
                      ~> (w \in DOMAIN windows /\ ~Alive(w))

\* The button of a window that ended by itself goes back to "open" (dsp_rack.rs:
\* the window can be closed from the window manager and the toggle has to
\* learn of it).
EndedWindowsAreForgotten ==
    \A n \in Names, w \in Ids :
        (open_plugins[n] = w /\ w \in DOMAIN windows /\ ~Alive(w))
            ~> (open_plugins[n] # w)

=============================================================================
