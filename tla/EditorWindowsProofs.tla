------------------------ MODULE EditorWindowsProofs ------------------------
(***************************************************************************)
(* What EditorWindows.tla promises for any set of plugins and any number   *)
(* of windows.                                                             *)
(***************************************************************************)
EXTENDS EditorWindows, TLAPS

-----------------------------------------------------------------------------
(* The inductive invariant.  A report removes entries by name.  That it    *)
(* removes no living window's needs that a name whose report is on its way *)
(* has no living window (NoneBehindAReport), and that the report of one    *)
(* window never finds another of its name alive (OneAlive).                *)

NoneBehindAReport ==
    ~reopened => \A i \in DOMAIN close_rx : \A w \in DOMAIN windows :
                    windows[w].name = windows[close_rx[i]].name => ~Alive(w)

OneAlive ==
    ~reopened => \A v, w \in DOMAIN windows :
                    windows[v].name = windows[w].name /\ Alive(v) /\ Alive(w) => v = w

IInv == /\ TypeOK /\ TablesAgree
        /\ NoneBehindAReport /\ OneAlive
        /\ WindowsAreHeld /\ MarksAreCurrent

-----------------------------------------------------------------------------
(* The list of windows.                                                    *)

\* One window more.
LEMMA WindowAdded ==
    ASSUME TypeOK, NEW x \in Window, windows' = Append(windows, x),
           Len(windows) < MaxWindows
    PROVE  /\ windows' \in Seq(Window) /\ Len(windows') <= MaxWindows
           /\ Len(windows') \in Ids
           /\ DOMAIN windows' = DOMAIN windows \union {Len(windows')}
           /\ Len(windows') \notin DOMAIN windows
           /\ windows'[Len(windows')] = x
           /\ \A w \in DOMAIN windows : windows'[w] = windows[w]
BY WindowAssumption DEF TypeOK, Ids

\* No window is added, none is renamed, and none comes back to life or to hand.
Onward ==
    /\ DOMAIN windows' = DOMAIN windows
    /\ \A w \in DOMAIN windows :
          /\ windows'[w].name = windows[w].name
          /\ Alive(w)' => Alive(w)
          /\ InHand(w)' => InHand(w)

\* A window's own steps, and a Close sent to it.
LEMMA WindowStepped ==
    ASSUME TypeOK, NEW w \in DOMAIN windows, NEW from, NEW to, NEW failed \in BOOLEAN,
           Step(w, from, to, failed),
           <<from, to>> \in {<<"opening", "gone">>, <<"opening", "running">>,
                             <<"running", "leaving">>, <<"leaving", "gone">>}
    PROVE  /\ windows' \in Seq(Window) /\ Len(windows') = Len(windows)
           /\ Onward
           /\ Alive(w) /\ (to = "gone" => ~Alive(w)')
<1> DEFINE x == [windows[w] EXCEPT !.at = to, !.failed = failed]
<1>1. windows' = [windows EXCEPT ![w] = x] /\ windows[w].at = from
  BY DEF Step
<1>a. windows[w] \in Window /\ to \in {"opening", "running", "leaving", "gone"}
  BY DEF TypeOK
<1>2. windows[w] \in Window /\ x \in Window
  BY <1>a DEF Window
<1>3. x.name = windows[w].name /\ x.told = windows[w].told /\ x.at = to
  BY <1>2 DEF Window
<1> HIDE DEF x
<1>4. windows' \in Seq(Window) /\ Len(windows') = Len(windows)
      /\ DOMAIN windows' = DOMAIN windows
  BY <1>1, <1>2 DEF TypeOK
<1>5. \A v \in DOMAIN windows : windows'[v] = IF v = w THEN x ELSE windows[v]
  BY <1>1, <1>2 DEF TypeOK
<1> QED
  BY <1>1, <1>3, <1>4, <1>5 DEF Onward, Alive, InHand

LEMMA WindowTold ==
    ASSUME TypeOK, NEW n \in Names, ClosePlugin(n)
    PROVE  /\ windows' \in Seq(Window) /\ Len(windows') = Len(windows)
           /\ Onward
           /\ cmd_tx[n] \in DOMAIN windows => windows'[cmd_tx[n]].told
<1> DEFINE k == cmd_tx[n]
<1>1. CASE k = None
  <2>1. windows' = windows
    BY <1>1 DEF ClosePlugin
  <2>2. k \notin DOMAIN windows
    BY <1>1, WindowAssumption DEF TypeOK
  <2> QED
    BY <2>1, <2>2 DEF Onward, Alive, InHand, TypeOK
<1>2. CASE k # None /\ k \notin DOMAIN windows
  <2>1. windows' = windows
    BY <1>2 DEF ClosePlugin, TypeOK
  <2> QED
    BY <1>2, <2>1 DEF Onward, Alive, InHand, TypeOK
<1>3. CASE k # None /\ k \in DOMAIN windows
  <2> DEFINE x == [windows[k] EXCEPT !.told = TRUE]
  <2>1. windows' = [windows EXCEPT ![k] = x]
    BY <1>3 DEF ClosePlugin
  <2>a. windows[k] \in Window
    BY <1>3 DEF TypeOK
  <2>2. windows[k] \in Window /\ x \in Window
    BY <2>a DEF Window
  <2>3. x.name = windows[k].name /\ x.told = TRUE /\ x.at = windows[k].at
    BY <2>2 DEF Window
  <2> HIDE DEF x, k
  <2>4. windows' \in Seq(Window) /\ Len(windows') = Len(windows)
        /\ DOMAIN windows' = DOMAIN windows
    BY <1>3, <2>1, <2>2 DEF TypeOK
  <2>5. \A v \in DOMAIN windows : windows'[v] = IF v = k THEN x ELSE windows[v]
    BY <2>1, <2>2, <1>3 DEF TypeOK
  <2>6. Onward
    BY <1>3, <2>3, <2>4, <2>5 DEF Onward, Alive, InHand
  <2>7. windows'[k].told
    BY <1>3, <2>3, <2>5
  <2> QED
    BY <2>4, <2>6, <2>7 DEF k
<1> QED
  BY <1>1, <1>2, <1>3

\* A report more in the channel.
LEMMA ReportAdded ==
    ASSUME TypeOK, NEW w \in DOMAIN windows, Report(w)
    PROVE  /\ close_rx' \in Seq(DOMAIN windows)
           /\ \A i \in DOMAIN close_rx' :
                 close_rx'[i] = w \/ \E j \in DOMAIN close_rx : close_rx'[i] = close_rx[j]
BY DEF TypeOK, Report

-----------------------------------------------------------------------------
(* The steps, grouped by what they do to the tables.                       *)

\* A window's thread: the tables stay, windows go onward, and a window that
\* is reported was alive and is no more.
Goes(w) ==
    /\ Onward /\ UNCHANGED <<tables, reopened>>
    /\ \/ UNCHANGED close_rx
       \/ Report(w) /\ Alive(w) /\ ~Alive(w)'

LEMMA ThreadGoes ==
    ASSUME TypeOK, NEW w \in DOMAIN windows, Thread(w)
    PROVE  Goes(w) /\ windows' \in Seq(Window) /\ Len(windows') = Len(windows)
<1>a. windows[w] \in Window
  BY DEF TypeOK
<1>1. windows[w].failed \in BOOLEAN
  BY <1>a DEF Window
<1>2. CASE OpenFails(w)
  BY <1>2, WindowStepped DEF OpenFails, Goes, Step
<1>3. CASE OpenSucceeds(w)
  BY <1>3, WindowStepped DEF OpenSucceeds, Goes, Step
<1>4. CASE CloseRequested(w) \/ UserClosed(w)
  BY <1>4, WindowStepped DEF CloseRequested, UserClosed, Goes, Step
<1>5. CASE Destroyed(w)
  BY <1>5, WindowStepped DEF Destroyed, Goes, Step
<1>6. CASE Notify(w)
  BY <1>1, <1>6, WindowStepped DEF Notify, Goes, Step
<1> QED
  BY <1>2, <1>3, <1>4, <1>5, <1>6 DEF Thread, Load, Foreign

-----------------------------------------------------------------------------
(* Types.                                                                  *)

LEMMA TypeInit == Init => TypeOK
<1> SUFFICES ASSUME Init PROVE TypeOK
  OBVIOUS
<1>1. /\ open_plugins \in [Names -> Ids \union {None}]
      /\ cmd_tx \in [Names -> Ids \union {None}]
  BY DEF Init
<1>2. windows \in Seq(Window) /\ Len(windows) <= MaxWindows
  BY WindowAssumption DEF Init
<1>3. close_rx \in Seq(DOMAIN windows)
  BY DEF Init
<1> QED
  BY <1>1, <1>2, <1>3 DEF Init, TypeOK

LEMMA TypeStep == TypeOK /\ [Next]_vars => TypeOK'
<1> SUFFICES ASSUME TypeOK, [Next]_vars PROVE TypeOK'
  OBVIOUS
<1>1. ASSUME NEW n \in Names, OpenPlugin(n) PROVE TypeOK'
  <2>1. NewWindow(n) \in Window
    BY DEF NewWindow, Window
  <2>2. /\ windows' \in Seq(Window) /\ Len(windows') <= MaxWindows
        /\ Len(windows') \in Ids /\ DOMAIN windows \subseteq DOMAIN windows'
    BY <1>1, <2>1, WindowAdded DEF OpenPlugin, Enters
  <2>3. /\ open_plugins' \in [Names -> Ids \union {None}]
        /\ cmd_tx' \in [Names -> Ids \union {None}]
    BY <1>1, <2>2 DEF OpenPlugin, Enters, TypeOK
  <2>4. opening' \subseteq Names /\ gui_errors' \subseteq Names
    BY <1>1 DEF OpenPlugin, Enters, TypeOK
  <2>5. close_rx' \in Seq(DOMAIN windows')
    BY <1>1, <2>2 DEF OpenPlugin, Enters, TypeOK
  <2>6. reopened' \in BOOLEAN
    BY <1>1 DEF OpenPlugin, Enters, TypeOK
  <2> QED
    BY <2>2, <2>3, <2>4, <2>5, <2>6 DEF TypeOK
<1>2. ASSUME NEW n \in Names, ClosePlugin(n) PROVE TypeOK'
  <2>1. windows' \in Seq(Window) /\ Len(windows') = Len(windows) /\ Onward
    BY <1>2, WindowTold
  <2>2. /\ open_plugins' \in [Names -> Ids \union {None}]
        /\ cmd_tx' \in [Names -> Ids \union {None}]
    BY <1>2 DEF ClosePlugin, Removed, TypeOK
  <2> QED
    BY <1>2, <2>1, <2>2 DEF ClosePlugin, TypeOK, Onward
<1>3. ASSUME PollUpdates PROVE TypeOK'
  <2>a. \A j \in DOMAIN close_rx : windows[close_rx[j]] \in Window
    BY DEF TypeOK
  <2>b. \A j \in DOMAIN close_rx : windows[close_rx[j]].name \in Names
    BY <2>a DEF Window
  <2>1. Failed \subseteq Names
    BY <2>b DEF Failed
  <2>2. /\ open_plugins' \in [Names -> Ids \union {None}]
        /\ cmd_tx' \in [Names -> Ids \union {None}]
    BY <1>3 DEF PollUpdates, Without, TypeOK
  <2>3. opening' \subseteq Names /\ gui_errors' \subseteq Names
    BY <1>3, <2>1 DEF PollUpdates, TypeOK
  <2>4. close_rx' \in Seq(DOMAIN windows') /\ UNCHANGED <<windows, reopened>>
    BY <1>3 DEF PollUpdates
  <2> QED
    BY <2>2, <2>3, <2>4 DEF TypeOK
<1>4. ASSUME NEW w \in DOMAIN windows, Thread(w) PROVE TypeOK'
  <2>1. Goes(w) /\ windows' \in Seq(Window) /\ Len(windows') = Len(windows)
    BY <1>4, ThreadGoes
  <2>2. close_rx' \in Seq(DOMAIN windows')
    BY <2>1, ReportAdded DEF Goes, Onward, TypeOK
  <2> QED
    BY <2>1, <2>2 DEF Goes, TypeOK, tables
<1>5. CASE UNCHANGED vars
  BY <1>5 DEF vars, tables, TypeOK
<1> QED
  BY <1>1, <1>2, <1>3, <1>4, <1>5 DEF Next, User

\* The tables, the windows and the channel stay in their types, for every set
\* of plugins and every number of windows.
THEOREM TypeCorrect == Spec => []TypeOK
BY TypeInit, TypeStep, PTL DEF Spec

-----------------------------------------------------------------------------
(* The tables.                                                             *)

LEMMA TablesStep == TypeOK /\ TablesAgree /\ [Next]_vars => TablesAgree'
<1> SUFFICES ASSUME TypeOK, TablesAgree, [Next]_vars PROVE TablesAgree'
  OBVIOUS
<1>1. ASSUME NEW n \in Names, OpenPlugin(n) PROVE TablesAgree'
  <2>1. Len(windows') # None
    <3>1. NewWindow(n) \in Window
      BY DEF NewWindow, Window
    <3>2. Len(windows') \in Ids
      BY <1>1, <3>1, WindowAdded DEF OpenPlugin, Enters
    <3> QED
      BY <3>2, WindowAssumption DEF Ids
  <2> QED
    BY <1>1, <2>1 DEF OpenPlugin, Enters, TablesAgree, TypeOK
<1>2. ASSUME NEW n \in Names, ClosePlugin(n) PROVE TablesAgree'
  BY <1>2 DEF ClosePlugin, Removed, TablesAgree, TypeOK
<1>3. ASSUME PollUpdates PROVE TablesAgree'
  BY <1>3 DEF PollUpdates, Without, TablesAgree, TypeOK
<1>4. ASSUME NEW w \in DOMAIN windows, Thread(w) PROVE TablesAgree'
  BY <1>4, ThreadGoes DEF Goes, tables, TablesAgree
<1>5. CASE UNCHANGED vars
  BY <1>5 DEF vars, tables, TablesAgree
<1> QED
  BY <1>1, <1>2, <1>3, <1>4, <1>5 DEF Next, User

\* What the rack shows as open, what it can send a command to and what it
\* takes to be opening are the same windows (open_plugin, close_plugin and
\* poll_updates).
THEOREM Tables == Spec => []TablesAgree
<1>1. Init => TablesAgree
  BY DEF Init, TablesAgree
<1> QED
  BY <1>1, TypeCorrect, TablesStep, PTL DEF Spec

-----------------------------------------------------------------------------
(* Reports, living windows and the tables.                                 *)

\* A name that is opened while ~reopened' holds has no report on its way and no
\* living window; what is added is a window in hand.
LEMMA Opened ==
    ASSUME TypeOK, NEW n \in Names, OpenPlugin(n), ~reopened'
    PROVE  /\ ~reopened
           /\ \A i \in DOMAIN close_rx : windows[close_rx[i]].name # n
           /\ \A w \in DOMAIN windows : windows[w].name = n => ~Alive(w)
           /\ DOMAIN windows' = DOMAIN windows \union {Len(windows')}
           /\ Len(windows') \notin DOMAIN windows
           /\ windows'[Len(windows')].name = n
           /\ \A w \in DOMAIN windows : windows'[w] = windows[w]
<1>1. NewWindow(n) \in Window /\ NewWindow(n).name = n
  BY DEF NewWindow, Window
<1>2. /\ ~reopened /\ Reports(n) = {} /\ \A w \in Windows(n) : ~Alive(w)
      /\ windows' = Append(windows, NewWindow(n)) /\ Len(windows) < MaxWindows
  BY DEF OpenPlugin, Enters
<1>3. /\ DOMAIN windows' = DOMAIN windows \union {Len(windows')}
      /\ Len(windows') \notin DOMAIN windows
      /\ windows'[Len(windows')] = NewWindow(n)
      /\ \A w \in DOMAIN windows : windows'[w] = windows[w]
  BY <1>1, <1>2, WindowAdded
<1> QED
  BY <1>1, <1>2, <1>3 DEF Reports, Windows

\* Nothing reported has a living namesake.
LEMMA NoneBehindStep ==
    ASSUME TypeOK, NoneBehindAReport, OneAlive, [Next]_vars
    PROVE  NoneBehindAReport'
<1>1. ASSUME NEW n \in Names, OpenPlugin(n) PROVE NoneBehindAReport'
  <2> SUFFICES ASSUME ~reopened' PROVE NoneBehindAReport'
    BY DEF NoneBehindAReport
  <2>1. UNCHANGED close_rx /\ \A i \in DOMAIN close_rx : close_rx[i] \in DOMAIN windows
    BY <1>1 DEF OpenPlugin, Enters, TypeOK
  <2> QED
    BY <1>1, <2>1, Opened DEF NoneBehindAReport, Alive
<1>2. ASSUME NEW n \in Names, ClosePlugin(n) PROVE NoneBehindAReport'
  <2>1. UNCHANGED <<close_rx, reopened>>
        /\ \A i \in DOMAIN close_rx : close_rx[i] \in DOMAIN windows
    BY <1>2 DEF ClosePlugin, TypeOK
  <2> QED
    BY <1>2, <2>1, WindowTold DEF NoneBehindAReport, Onward
<1>3. ASSUME PollUpdates PROVE NoneBehindAReport'
  BY <1>3 DEF PollUpdates, NoneBehindAReport
<1>4. ASSUME NEW w \in DOMAIN windows, Thread(w) PROVE NoneBehindAReport'
  <2> SUFFICES ASSUME ~reopened', NEW i \in DOMAIN close_rx', NEW v \in DOMAIN windows',
                      windows'[v].name = windows'[close_rx'[i]].name
               PROVE  ~Alive(v)'
    BY DEF NoneBehindAReport
  <2>1. Goes(w)
    BY <1>4, ThreadGoes
  <2>2. ~reopened /\ v \in DOMAIN windows /\ windows'[v].name = windows[v].name
        /\ (Alive(v)' => Alive(v))
    BY <2>1 DEF Goes, Onward
  <2>3. CASE \E j \in DOMAIN close_rx : close_rx'[i] = close_rx[j]
    <3>1. PICK j \in DOMAIN close_rx : close_rx'[i] = close_rx[j]
      BY <2>3
    <3>2. close_rx[j] \in DOMAIN windows
      BY DEF TypeOK
    <3>3. windows[v].name = windows[close_rx[j]].name
      BY <2>1, <2>2, <3>1, <3>2 DEF Goes, Onward
    <3> QED
      BY <2>2, <3>3 DEF NoneBehindAReport
  <2>4. CASE ~\E j \in DOMAIN close_rx : close_rx'[i] = close_rx[j]
    <3>1. Report(w) /\ Alive(w) /\ ~Alive(w)' /\ close_rx'[i] = w
      BY <2>1, <2>4, ReportAdded DEF Goes
    <3>2. windows[v].name = windows[w].name
      BY <2>1, <2>2, <3>1 DEF Goes, Onward
    <3> QED
      BY <2>2, <3>1, <3>2 DEF OneAlive
  <2> QED
    BY <2>3, <2>4
<1>5. CASE UNCHANGED vars
  BY <1>5 DEF vars, NoneBehindAReport, Alive
<1> QED
  BY <1>1, <1>2, <1>3, <1>4, <1>5 DEF Next, User

LEMMA OneAliveStep ==
    ASSUME TypeOK, OneAlive, [Next]_vars
    PROVE  OneAlive'
<1>1. ASSUME NEW n \in Names, OpenPlugin(n) PROVE OneAlive'
  <2> SUFFICES ASSUME ~reopened' PROVE OneAlive'
    BY DEF OneAlive
  <2> QED
    BY <1>1, Opened DEF OneAlive, Alive
<1>2. ASSUME NEW n \in Names, ClosePlugin(n) PROVE OneAlive'
  <2>1. UNCHANGED reopened
    BY <1>2 DEF ClosePlugin
  <2> QED
    BY <1>2, <2>1, WindowTold DEF OneAlive, Onward
<1>3. ASSUME PollUpdates PROVE OneAlive'
  BY <1>3 DEF PollUpdates, OneAlive, Alive
<1>4. ASSUME NEW w \in DOMAIN windows, Thread(w) PROVE OneAlive'
  BY <1>4, ThreadGoes DEF Goes, Onward, OneAlive
<1>5. CASE UNCHANGED vars
  BY <1>5 DEF vars, OneAlive, Alive
<1> QED
  BY <1>1, <1>2, <1>3, <1>4, <1>5 DEF Next, User

LEMMA HeldStep ==
    ASSUME TypeOK, TablesAgree, NoneBehindAReport, WindowsAreHeld, [Next]_vars
    PROVE  WindowsAreHeld'
<1>0. \A w \in DOMAIN windows : windows[w].name \in Names
  <2>1. \A w \in DOMAIN windows : windows[w] \in Window
    BY DEF TypeOK
  <2> QED
    BY <2>1 DEF Window
<1>1. ASSUME NEW n \in Names, OpenPlugin(n) PROVE WindowsAreHeld'
  <2> SUFFICES ASSUME ~reopened', NEW w \in DOMAIN windows', InHand(w)'
               PROVE  open_plugins'[windows'[w].name] = w /\ cmd_tx'[windows'[w].name] = w
    BY DEF WindowsAreHeld
  <2>1. /\ open_plugins' = [open_plugins EXCEPT ![n] = Len(windows')]
        /\ cmd_tx' = [cmd_tx EXCEPT ![n] = Len(windows')]
    BY <1>1 DEF OpenPlugin, Enters
  <2>2. CASE w = Len(windows')
    BY <1>1, <2>1, <2>2, Opened DEF TypeOK
  <2>3. CASE w # Len(windows')
    <3>1. w \in DOMAIN windows /\ windows'[w] = windows[w] /\ ~reopened
      BY <1>1, <2>3, Opened
    <3>2. InHand(w) /\ Alive(w)
      BY <3>1 DEF InHand, Alive
    <3>3. windows[w].name # n
      BY <1>1, <3>1, <3>2, Opened
    <3> QED
      BY <1>0, <2>1, <3>1, <3>2, <3>3 DEF WindowsAreHeld, TypeOK
  <2> QED
    BY <2>2, <2>3
<1>2. ASSUME NEW n \in Names, ClosePlugin(n) PROVE WindowsAreHeld'
  <2> SUFFICES ASSUME ~reopened', NEW w \in DOMAIN windows', InHand(w)'
               PROVE  open_plugins'[windows'[w].name] = w /\ cmd_tx'[windows'[w].name] = w
    BY DEF WindowsAreHeld
  <2>1. /\ w \in DOMAIN windows /\ windows'[w].name = windows[w].name /\ InHand(w)
        /\ (cmd_tx[n] = w => windows'[w].told)
    BY <1>2, WindowTold DEF Onward
  <2>2. ~reopened
    BY <1>2 DEF ClosePlugin
  <2>3. cmd_tx[windows[w].name] = w /\ open_plugins[windows[w].name] = w
    BY <2>1, <2>2 DEF WindowsAreHeld
  <2>4. windows[w].name # n
    BY <2>1, <2>3 DEF InHand
  <2> QED
    BY <1>0, <1>2, <2>1, <2>3, <2>4 DEF ClosePlugin, Removed, TypeOK
<1>3. ASSUME PollUpdates PROVE WindowsAreHeld'
  <2> SUFFICES ASSUME ~reopened, NEW w \in DOMAIN windows, InHand(w)
               PROVE  /\ open_plugins'[windows[w].name] = w
                      /\ cmd_tx'[windows[w].name] = w
    BY <1>3 DEF WindowsAreHeld, PollUpdates, InHand
  <2>1. Alive(w)
    BY DEF InHand, Alive
  <2>2. windows[w].name \notin Reported
    BY <2>1 DEF NoneBehindAReport, Reported
  <2>3. cmd_tx[windows[w].name] = w /\ open_plugins[windows[w].name] = w
    BY DEF WindowsAreHeld
  <2> QED
    BY <1>0, <1>3, <2>2, <2>3 DEF PollUpdates, Without
<1>4. ASSUME NEW w \in DOMAIN windows, Thread(w) PROVE WindowsAreHeld'
  BY <1>4, ThreadGoes DEF Goes, Onward, tables, WindowsAreHeld
<1>5. CASE UNCHANGED vars
  BY <1>5 DEF vars, tables, WindowsAreHeld, InHand
<1> QED
  BY <1>1, <1>2, <1>3, <1>4, <1>5 DEF Next, User

LEMMA MarksStep ==
    ASSUME TypeOK, NoneBehindAReport, MarksAreCurrent, [Next]_vars
    PROVE  MarksAreCurrent'
<1>1. ASSUME NEW n \in Names, OpenPlugin(n) PROVE MarksAreCurrent'
  <2> SUFFICES ASSUME ~reopened' PROVE MarksAreCurrent'
    BY DEF MarksAreCurrent
  <2>1. gui_errors' = gui_errors \ {n}
    BY <1>1 DEF OpenPlugin, Enters
  <2> QED
    BY <1>1, <2>1, Opened DEF MarksAreCurrent, Windows, Alive
<1>2. ASSUME NEW n \in Names, ClosePlugin(n) PROVE MarksAreCurrent'
  <2>1. UNCHANGED <<gui_errors, reopened>>
    BY <1>2 DEF ClosePlugin
  <2> QED
    BY <1>2, <2>1, WindowTold DEF MarksAreCurrent, Windows, Onward
<1>3. ASSUME PollUpdates PROVE MarksAreCurrent'
  <2> SUFFICES ASSUME ~reopened, NEW n \in gui_errors', NEW w \in DOMAIN windows,
                      windows[w].name = n
               PROVE  ~Alive(w)
    BY <1>3 DEF MarksAreCurrent, Windows, PollUpdates, Alive
  <2>1. CASE n \in gui_errors
    BY <2>1 DEF MarksAreCurrent, Windows
  <2>2. CASE n \in Failed
    BY <2>2 DEF Failed, NoneBehindAReport
  <2> QED
    BY <1>3, <2>1, <2>2 DEF PollUpdates
<1>4. ASSUME NEW w \in DOMAIN windows, Thread(w) PROVE MarksAreCurrent'
  BY <1>4, ThreadGoes DEF Goes, Onward, tables, MarksAreCurrent, Windows
<1>5. CASE UNCHANGED vars
  BY <1>5 DEF vars, tables, MarksAreCurrent, Windows, Alive
<1> QED
  BY <1>1, <1>2, <1>3, <1>4, <1>5 DEF Next, User

LEMMA Inductive ==
    /\ Init => IInv
    /\ IInv /\ [Next]_vars => IInv'
<1>1. ASSUME Init PROVE IInv
  BY <1>1, TypeInit
     DEF Init, IInv, TablesAgree, NoneBehindAReport, OneAlive, WindowsAreHeld,
         MarksAreCurrent
<1>2. ASSUME IInv, [Next]_vars PROVE IInv'
  BY <1>2, TypeStep, TablesStep, NoneBehindStep, OneAliveStep, HeldStep, MarksStep
     DEF IInv
<1> QED
  BY <1>1, <1>2

\* A window that is on its way or running, and was not told to close, is the
\* one its name leads to in both tables: open_plugin, close_plugin and the
\* reports poll_updates applies never let go of it, unless a name was opened
\* again before the end of its last window was polled.
THEOREM Held == Spec => []WindowsAreHeld
<1>1. IInv => WindowsAreHeld
  BY DEF IInv
<1> QED
  BY <1>1, Inductive, PTL DEF Spec

\* Under the same condition a plugin marked as broken has no living window:
\* poll_updates marks by name only what has ended, and open_plugin clears.
THEOREM Marks == Spec => []MarksAreCurrent
<1>1. IInv => MarksAreCurrent
  BY DEF IInv
<1> QED
  BY <1>1, Inductive, PTL DEF Spec
=============================================================================
