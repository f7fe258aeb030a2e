------------------------------ MODULE Windows ------------------------------
(***************************************************************************)
(* The window manager and its clients: graphics/window.c, graphics/client.c*)
(* and the round of kernel/kernel.c that routes the input of a tick.       *)
(*                                                                         *)
(* A window is its slot of the table.  Geometry and pixels are left out: a *)
(* press lands upon any window that is shown, in any of its parts.  A      *)
(* queue keeps which entries are notices to the session ("windows",        *)
(* "notify"); every other event is an "event".                             *)
(***************************************************************************)
EXTENDS Integers, FiniteSetsExt, SequencesExt

CONSTANTS
    Program,        \* the processes that may open windows
    Slots,          \* windows the table can hold
    EventCapacity,  \* WINDOW_EVENT_CAPACITY
    Notices,        \* SYSCALL_NOTIFICATION_QUEUE
    NoProgram       \* owner of a free slot, holder of an unclaimed session

ASSUME WindowsAssumption ==
    /\ NoProgram \notin Program
    /\ {Slots, EventCapacity, Notices} \subseteq Nat \ {0}

Window == 1 .. Slots
None == 0                                                \* WINDOW_NONE
RootLayer == 0
Normal == 1
Panel == 2
Button == {"left", "right"}

VARIABLES
    screen,         \* the manager: table, stack, focus, grab, drag and queues
    buttons,        \* buttons held down
    session,        \* WindowSessionOwner
    posted,         \* WindowNotificationCount
    programs,       \* the programs that run
    awaits          \* the windows each sleeping program waits upon; {} awake

windowVars == <<screen, buttons, session, posted, programs, awaits>>

Screen == [owner : [Window -> Program \cup {NoProgram}],
           layer : [Window -> {RootLayer, Normal, Panel}],
           minimised : [Window -> BOOLEAN],
           full : [Window -> BOOLEAN],
           queue : [Window -> Seq({"event", "windows", "notify"})],
           stack : Seq(Window),
           focused : Window \cup {None},
           grabbed : Window \cup {None},
           dragged : Window \cup {None}]

Exists(s, w) == w # None /\ s.owner[w] # NoProgram
WindowsOf(c) == {w \in Window : screen.owner[w] = c}

(***************************************************************************)
(* Queues, stack and focus: operators from one screen to the next.         *)
(***************************************************************************)

(* WindowEnqueue: the newest is dropped where the queue is full.           *)
Enqueue(s, w, kind) ==
    IF Exists(s, w) /\ Len(s.queue[w]) < EventCapacity
    THEN [s EXCEPT !.queue[w] = Append(@, kind)]
    ELSE s

(* WindowNotifyRootsOf: one notice waiting is enough.                      *)
NotifyRoots(s, kind) ==
    [s EXCEPT !.queue = [w \in Window |->
        IF /\ Exists(s, w) /\ s.layer[w] = RootLayer
           /\ kind \notin ToSet(s.queue[w]) /\ Len(s.queue[w]) < EventCapacity
        THEN Append(s.queue[w], kind)
        ELSE s.queue[w]]]

(* WindowStackRemove.                                                      *)
Positions(list, w) == {i \in DOMAIN list : list[i] = w}
StackRemove(s, w) ==
    IF Positions(s.stack, w) = {} THEN s
    ELSE [s EXCEPT !.stack = RemoveAt(@, Min(Positions(@, w)))]

(* WindowStackInsert: at the top of the window's own layer, before the     *)
(* first of a higher one.                                                  *)
HigherUp(s, w) == {i \in DOMAIN s.stack : s.layer[s.stack[i]] > s.layer[w]}
StackInsert(s, w) ==
    [s EXCEPT !.stack = InsertAt(@, IF HigherUp(s, w) = {} THEN Len(@) + 1
                                    ELSE Min(HigherUp(s, w)), w)]

WindowRaise(s, w) == StackInsert(StackRemove(s, w), w)

Focusable(s, w) == Exists(s, w) /\ s.layer[w] = Normal /\ ~s.minimised[w]

(* Mutant: a minimised window may take the focus.                          *)
TopmostNormal(s) ==
    LET up == {i \in DOMAIN s.stack : s.layer[s.stack[i]] = Normal}
    IN  IF up = {} THEN None ELSE s.stack[Max(up)]

TopmostFocusable(s) ==
    LET up == {i \in DOMAIN s.stack : Focusable(s, s.stack[i])}
    IN  IF up = {} THEN None ELSE s.stack[Max(up)]

(* WindowTransferFocus: the loser is told before the gainer.               *)
TransferFocus(s, w) ==
    LET before == s.focused
        told == Enqueue(Enqueue([s EXCEPT !.focused = w], before, "event"), w, "event")
        ordinary(v) == Exists(s, v) /\ s.layer[v] = Normal
    IN  IF before = w THEN s
        ELSE IF ordinary(before) \/ ordinary(w) THEN NotifyRoots(told, "windows")
        ELSE told

Unless(held, w) == IF held = w THEN None ELSE held

(***************************************************************************)
(* The manager's operations.                                               *)
(***************************************************************************)

(* WindowCreate in a free slot, and the owner WindowClientCreate records.  *)
WindowCreate(s, w, c, layer) ==
    LET made == StackInsert([s EXCEPT !.owner[w] = c, !.layer[w] = layer,
                                      !.minimised[w] = FALSE, !.full[w] = FALSE,
                                      !.queue[w] = <<>>], w)
    IN  IF layer = Normal THEN NotifyRoots(TransferFocus(made, w), "windows") ELSE made

(* The fields of a free slot are never read and are put back to one value. *)
WindowDestroy(s, w) ==
    LET gone == [StackRemove(s, w) EXCEPT !.owner[w] = NoProgram, !.queue[w] = <<>>,
                                          !.grabbed = Unless(@, w), !.dragged = Unless(@, w),
                                          !.focused = Unless(@, w)]
        passed == IF s.focused = w THEN TransferFocus(gone, TopmostFocusable(gone)) ELSE gone
        told == IF s.layer[w] = Normal THEN NotifyRoots(passed, "windows") ELSE passed
    IN  [told EXCEPT !.layer[w] = Normal, !.minimised[w] = FALSE, !.full[w] = FALSE]

(* WindowDestroyOwnedBy, in the order of the table.                        *)
DestroyIfOwned(s, c, w) == IF s.owner[w] = c THEN WindowDestroy(s, w) ELSE s
DestroyOwnedBy(s, c) ==
    LET after[w \in 0 .. Slots] == IF w = 0 THEN s ELSE DestroyIfOwned(after[w - 1], c, w)
    IN  after[Slots]

(* Mutant: a press or a drag outlives the window's disappearance.          *)
MinimiseHeld(s, w) ==
    LET away == [s EXCEPT !.minimised[w] = TRUE]
    IN  IF s.minimised[w] THEN s
        ELSE NotifyRoots(IF s.focused = w THEN TransferFocus(away, TopmostFocusable(away))
                                          ELSE away, "windows")

WindowMinimise(s, w) ==
    LET away == [s EXCEPT !.minimised[w] = TRUE, !.grabbed = Unless(@, w),
                          !.dragged = Unless(@, w)]
    IN  IF s.minimised[w] THEN s
        ELSE NotifyRoots(IF s.focused = w THEN TransferFocus(away, TopmostFocusable(away))
                                          ELSE away, "windows")

WindowRestore(s, w) ==
    NotifyRoots(TransferFocus(WindowRaise([s EXCEPT !.minimised[w] = FALSE], w), w), "windows")

(* WindowSetFull where the new surface is obtained: the owner is told its  *)
(* size and a drag ends.                                                   *)
WindowSetFull(s, w, full) ==
    IF s.full[w] = full THEN s
    ELSE NotifyRoots(Enqueue([s EXCEPT !.full[w] = full, !.dragged = Unless(@, w)],
                             w, "event"), "windows")

(***************************************************************************)
(* Input, routed at a tick.                                                *)
(***************************************************************************)

Part == {"close", "full", "minimise", "title", "content"}
Shown(s) == {w \in Window : Exists(s, w) /\ ~s.minimised[w]}

(* WindowBeginPress upon one part of the window under the pointer; a       *)
(* window without a frame is content alone.  A press upon the control that *)
(* fills the screen may find no room for the surface.                      *)
BeginPress(s, w, part, room) ==
    LET up == IF s.layer[w] = RootLayer THEN s ELSE WindowRaise(s, w)
        at == IF s.layer[w] = Normal THEN TransferFocus(up, w) ELSE up
    IN  CASE part = "close" -> Enqueue(at, w, "event")
          [] part = "full" -> IF room THEN WindowSetFull(at, w, ~at.full[w]) ELSE at
          [] part = "minimise" -> WindowMinimise(at, w)
          [] part = "title" -> IF at.full[w] THEN at ELSE [at EXCEPT !.dragged = w]
          [] part = "content" -> Enqueue([at EXCEPT !.grabbed = w], w, "event")

(* While a press is held, its window receives movement, presses and        *)
(* releases, each an event of its own.                                     *)
HeldPress(s, moved, pressed, released, all) ==
    LET Told(u, happened) == IF happened THEN Enqueue(u, s.grabbed, "event") ELSE u
        told == Told(Told(Told(s, moved), pressed # {}), released # {})
    IN  IF all = {} THEN [told EXCEPT !.grabbed = None] ELSE told

(* WindowClientWakeAll: whoever sleeps for an event, or polls for one, is  *)
(* made runnable and looks at its queues again.                            *)
WokenAll == [c \in Program |-> {}]

(* A tick wakes the clients where it routed anything.                      *)
Routed(before, after) == IF after.queue = before.queue THEN awaits ELSE WokenAll

HandleKey ==
    /\ screen' = Enqueue(screen, screen.focused, "event")
    /\ awaits' = Routed(screen, screen')
    /\ UNCHANGED <<buttons, session, posted, programs>>

(* WindowManagerHandleMouse for a movement that leaves `all` held.         *)
HandleMouse(all, moved) ==
    LET pressed == all \ buttons
        released == buttons \ all
    IN  /\ moved \/ all # buttons
        /\ buttons' = all
        /\ \/ /\ screen.dragged # None
              /\ screen' = IF all = {} THEN [screen EXCEPT !.dragged = None] ELSE screen
           \/ /\ screen.dragged = None /\ screen.grabbed # None
              /\ screen' = HeldPress(screen, moved, pressed, released, all)
           \/ /\ screen.dragged = None /\ screen.grabbed = None /\ pressed # {}
              /\ \/ \E w \in Shown(screen), part \in Part, room \in BOOLEAN :
                       /\ screen.layer[w] # Normal => part = "content"
                       /\ screen' = BeginPress(screen, w, part, room)
                 \/ UNCHANGED screen                     \* upon no window
           \/ /\ screen.dragged = None /\ screen.grabbed = None
              /\ pressed = {} /\ released # {}
              /\ UNCHANGED screen
           \/ /\ screen.dragged = None /\ screen.grabbed = None
              /\ pressed = {} /\ released = {} /\ moved
              /\ \E w \in Shown(screen) : screen' = Enqueue(screen, w, "event")
        /\ awaits' = Routed(screen, screen')
        /\ UNCHANGED <<session, posted, programs>>

(***************************************************************************)
(* The clients' calls.  A call runs with interrupts masked, to its end or  *)
(* to its sleep.                                                           *)
(***************************************************************************)

Calls(c) == c \in programs /\ awaits[c] = {}

(* WindowClientCreate: every layer but the ordinary is the session's.      *)
ClientCreate(c, layer) ==
    LET free == {w \in Window : screen.owner[w] = NoProgram}
    IN  /\ Calls(c) /\ free # {}
        /\ layer # Normal => session = c
        /\ screen' = WindowCreate(screen, CHOOSE w \in free : \A v \in free : w <= v, c, layer)
        /\ awaits' = WokenAll
        /\ UNCHANGED <<buttons, session, posted, programs>>

ClientDestroy(c, w) ==
    /\ Calls(c) /\ w \in WindowsOf(c)
    /\ screen' = WindowDestroy(screen, w)
    /\ awaits' = WokenAll
    /\ UNCHANGED <<buttons, session, posted, programs>>

(* WindowClientState, by the owner or by the session; a surface that could *)
(* not be obtained changes nothing.                                        *)
ClientState(c, w) ==
    /\ Calls(c) /\ Exists(screen, w) /\ screen.layer[w] = Normal
    /\ screen.owner[w] = c \/ session = c
    /\ \/ screen' = WindowMinimise(screen, w)
       \/ screen' = WindowRestore(screen, w)
       \/ \E full \in BOOLEAN : screen' = WindowSetFull(screen, w, full)
    /\ awaits' = WokenAll
    /\ UNCHANGED <<buttons, session, posted, programs>>

(* WindowClientEvent for one window, or poll and SYSCALL_WINDOW_ANY for    *)
(* all of the caller's: an event is taken, or the caller sleeps.  Which of *)
(* several queues is served first is left open.                            *)
ClientTakes(c, w) ==
    /\ Calls(c) /\ w \in WindowsOf(c) /\ screen.queue[w] # <<>>
    /\ screen' = [screen EXCEPT !.queue[w] = Tail(@)]
    /\ UNCHANGED <<buttons, session, posted, programs, awaits>>

ClientSleeps(c, W) ==
    /\ Calls(c) /\ W # {} /\ W \subseteq WindowsOf(c)
    /\ \A w \in W : screen.queue[w] = <<>>
    /\ awaits' = [awaits EXCEPT ![c] = W]
    /\ UNCHANGED <<screen, buttons, session, posted, programs>>

(* A signal ends the sleep with EINTR.                                     *)
ClientInterrupted(c) ==
    /\ awaits[c] # {}
    /\ awaits' = [awaits EXCEPT ![c] = {}]
    /\ UNCHANGED <<screen, buttons, session, posted, programs>>

(* WindowClientSession: the first to ask while nobody holds it.            *)
ClaimSession(c) ==
    /\ Calls(c) /\ session = NoProgram
    /\ session' = c
    /\ UNCHANGED <<screen, buttons, posted, programs, awaits>>

(* WindowClientNotify: the oldest is dropped where the ring is full, so    *)
(* the count stays.                                                        *)
ClientNotify(c) ==
    /\ Calls(c)
    /\ posted' = IF posted = Notices THEN posted ELSE posted + 1
    /\ screen' = NotifyRoots(screen, "notify")
    /\ awaits' = WokenAll
    /\ UNCHANGED <<buttons, session, programs>>

TakeNotification(c) ==
    /\ Calls(c) /\ session = c /\ posted > 0
    /\ posted' = posted - 1
    /\ UNCHANGED <<screen, buttons, session, programs, awaits>>

(* Mutant: an ending tells nobody that the focus passed.                   *)
ExitQuietly(c) ==
    /\ c \in programs
    /\ programs' = programs \ {c}
    /\ session' = IF session = c THEN NoProgram ELSE session
    /\ screen' = DestroyOwnedBy(screen, c)
    /\ awaits' = [awaits EXCEPT ![c] = {}]
    /\ UNCHANGED <<buttons, posted>>

(* WindowClientReleaseProcess: the ending of a program, awake or killed in *)
(* its sleep, gives back the session and its windows.                      *)
ProgramExit(c) ==
    /\ c \in programs
    /\ programs' = programs \ {c}
    /\ session' = IF session = c THEN NoProgram ELSE session
    /\ screen' = DestroyOwnedBy(screen, c)
    /\ awaits' = IF WindowsOf(c) # {} THEN WokenAll ELSE [awaits EXCEPT ![c] = {}]
    /\ UNCHANGED <<buttons, posted>>

Start(c) ==
    /\ c \notin programs
    /\ programs' = programs \cup {c}
    /\ UNCHANGED <<screen, buttons, session, posted, awaits>>

(* WindowManagerInitialise, before any program has run.                    *)
WindowsInit ==
    /\ screen = [owner |-> [w \in Window |-> NoProgram],
                 layer |-> [w \in Window |-> Normal],
                 minimised |-> [w \in Window |-> FALSE],
                 full |-> [w \in Window |-> FALSE],
                 queue |-> [w \in Window |-> <<>>],
                 stack |-> <<>>,
                 focused |-> None, grabbed |-> None, dragged |-> None]
    /\ buttons = {} /\ session = NoProgram /\ posted = 0
    /\ programs = {} /\ awaits = WokenAll

WindowsNext ==
    \/ HandleKey
    \/ \E all \in SUBSET Button, moved \in BOOLEAN : HandleMouse(all, moved)
    \/ \E c \in Program :
          \/ \E layer \in {RootLayer, Normal, Panel} : ClientCreate(c, layer)
          \/ \E w \in Window : ClientDestroy(c, w) \/ ClientState(c, w) \/ ClientTakes(c, w)
          \/ \E W \in {WindowsOf(c)} \cup {{w} : w \in Window} : ClientSleeps(c, W)
          \/ ClientInterrupted(c) \/ ClaimSession(c) \/ ClientNotify(c)
          \/ TakeNotification(c) \/ ProgramExit(c) \/ Start(c)

WindowsSpec == WindowsInit /\ [][WindowsNext]_windowVars

(***************************************************************************)
(* Properties.                                                             *)
(***************************************************************************)

(* Type invariant of the module.                                           *)
WindowsTypeOK ==
    /\ screen \in Screen
    /\ \A w \in Window : Len(screen.queue[w]) <= EventCapacity
    /\ buttons \subseteq Button
    /\ session \in Program \cup {NoProgram}
    /\ posted \in 0 .. Notices
    /\ programs \subseteq Program
    /\ awaits \in [Program -> SUBSET Window]

(* A person's typing goes to the ordinary window on top of those that are  *)
(* shown, and to none only when none is shown: whatever was opened, closed,*)
(* pressed, minimised and restored by whom (WindowTopmostFocusable's       *)
(* comment), in a stack that names every window once, ordered by layer at  *)
(* every moment (WindowStackInsert's).                                     *)
KeysGoToTop ==
    /\ screen.focused = None => \A w \in Shown(screen) : screen.layer[w] # Normal
    /\ screen.focused # None =>
          /\ screen.focused \in Shown(screen) /\ screen.layer[screen.focused] = Normal
          /\ \A i, j \in DOMAIN screen.stack :
                /\ screen.stack[i] = screen.focused /\ i < j
                /\ screen.layer[screen.stack[j]] = Normal
                => screen.minimised[screen.stack[j]]
    /\ ToSet(screen.stack) = {w \in Window : Exists(screen, w)}
    /\ \A i, j \in DOMAIN screen.stack : i < j =>
          /\ screen.stack[i] # screen.stack[j]
          /\ screen.layer[screen.stack[i]] <= screen.layer[screen.stack[j]]

(* A press or a drag binds the pointer to a window that is there and is    *)
(* shown, to one window at a time, and not past the release of the last    *)
(* button; a slot taken by a new window does not inherit the binding.      *)
PointerBound ==
    /\ screen.grabbed # None => screen.grabbed \in Shown(screen) /\ screen.dragged = None
    /\ screen.dragged # None => screen.dragged \in Shown(screen) /\ ~screen.full[screen.dragged]
    /\ buttons = {} => screen.grabbed = None /\ screen.dragged = None

(* A program asleep for an event has none waiting: every path that queues  *)
(* one, the focus passed on by somebody else's ending among them, wakes    *)
(* the sleepers.                                                           *)
SleepersHaveNothing ==
    \A c \in Program : \A w \in awaits[c] : screen.owner[w] = c /\ screen.queue[w] = <<>>
=============================================================================
