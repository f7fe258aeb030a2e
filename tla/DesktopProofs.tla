--------------------------- MODULE DesktopProofs ---------------------------
(***************************************************************************)
(* What a person's typing and pointing reaches: proofs about the terminal  *)
(* (Terminal) and the window manager with its clients (Windows), for any   *)
(* number of readers, programs, windows and places in a queue.             *)
(*                                                                         *)
(*   TerminalTypeCorrect                        the queues keep their size *)
(*   WindowsTypeCorrect, FocusIsOnTop           where the keys go          *)
(*   PointerStaysBound, NoneSleepsOverEvents    the pointer and the sleepers*)
(*                                                                         *)
(* The stack of windows is reasoned about by two relations, which entries  *)
(* are listed and which stands beneath which: removal and insertion are    *)
(* stated in these, and everything after rests on them alone.              *)
(***************************************************************************)
EXTENDS Windows, Terminal, ListFacts, FiniteSetTheorems, SequenceTheorems, TLAPS

(***************************************************************************)
(* The terminal.                                                           *)
(***************************************************************************)

(* What is typed ahead of the first byte that is none of S.                *)
LEMMA LeadingIs ==
    ASSUME NEW q \in Seq(Byte), NEW S
    PROVE  /\ Leading(q, S) \in 0 .. Len(q)
           /\ \A i \in 1 .. Leading(q, S) : q[i] \in S
           /\ Leading(q, S) < Len(q) => q[Leading(q, S) + 1] \notin S
<1> DEFINE Stops(n) == (\A i \in 1 .. n : q[i] \in S) /\ (n < Len(q) => q[n + 1] \notin S)
<1>1. Len(q) \in Nat
  OBVIOUS
<1>2. \E n \in 0 .. Len(q) : Stops(n)
  <2>1. PICK others : others = {n \in Nat : n < Len(q) /\ q[n + 1] \notin S}
    OBVIOUS
  <2>2. CASE others = {}
    <3>1. \A i \in 1 .. Len(q) : q[i] \in S
      <4> TAKE i \in 1 .. Len(q)
      <4>1. i - 1 \in Nat /\ i - 1 < Len(q) /\ (i - 1) + 1 = i
        BY <1>1
      <4> QED
        BY <2>1, <2>2, <4>1
    <3> QED
      BY <1>1, <3>1
  <2>3. CASE others # {}
    <3>1. PICK n \in others : \A y \in others : n <= y
      BY <2>1, <2>3, HasLeast
    <3>2. \A i \in 1 .. n : q[i] \in S
      <4> TAKE i \in 1 .. n
      <4>1. i - 1 \in Nat /\ i - 1 < n /\ i - 1 < Len(q) /\ (i - 1) + 1 = i
        BY <1>1, <2>1, <3>1
      <4>2. i - 1 \notin others
        BY <2>1, <3>1, <4>1
      <4> QED
        BY <2>1, <4>1, <4>2
    <3> QED
      BY <1>1, <2>1, <3>1, <3>2
  <2> QED
    BY <2>2, <2>3
<1>3. Leading(q, S) = CHOOSE n \in 0 .. Len(q) : Stops(n)
  BY DEF Leading
<1> HIDE DEF Stops
<1>4. Leading(q, S) \in 0 .. Len(q) /\ Stops(Leading(q, S))
  BY <1>2, <1>3
<1> QED
  BY <1>4 DEF Stops

(* A part of a sequence that may be empty.                                 *)
LEMMA PartIs ==
    ASSUME NEW q \in Seq(Byte), NEW m \in 1 .. Len(q) + 1, NEW n \in 0 .. Len(q)
    PROVE  SubSeq(q, m, n) \in Seq(Byte) /\ Len(SubSeq(q, m, n)) <= n
  OBVIOUS

(* The two queues of bytes.                                                *)
QueuesTyped == ring \in Seq(Byte) /\ input \in Seq(Byte)

(* What a poll leaves fits the queue.                                      *)
LEMMA PolledIs ==
    ASSUME TerminalAssumption, QueuesTyped
    PROVE  Polled \in Seq(Byte) /\ Len(Polled) <= QueueCapacity
<1>1. PICK all \in Seq(Byte) : all = input \o ring
  <2>1. input \o ring \in Seq(Byte)
    BY DEF QueuesTyped
  <2> QED
    BY <2>1
<1>2. PICK n \in 0 .. Len(all) :
         n <= QueueCapacity /\ n = IF Len(all) < QueueCapacity THEN Len(all) ELSE QueueCapacity
  BY DEF TerminalAssumption
<1>3. Polled = SubSeq(all, 1, n)
  BY <1>1, <1>2 DEF Polled
<1>4. Len(SubSeq(all, 1, n)) <= n /\ SubSeq(all, 1, n) \in Seq(Byte)
  BY <1>2
<1> QED
  BY <1>2, <1>3, <1>4 DEF TerminalAssumption

(* What is left behind the signals typed, and these.                       *)
LEMMA RemainingIs ==
    ASSUME TerminalAssumption, QueuesTyped
    PROVE  /\ Remaining \in Seq(Byte) /\ Len(Remaining) <= QueueCapacity
           /\ Typed \subseteq Signal
<1>1. PICK q \in Seq(Byte) : q = Polled /\ Len(q) <= QueueCapacity
  BY PolledIs
<1>2. PICK n \in 0 .. Len(q) : n = Leading(q, Signal) /\ \A i \in 1 .. n : q[i] \in Signal
  BY LeadingIs
<1>3. Remaining = SubSeq(q, n + 1, Len(q))
  BY <1>1, <1>2 DEF Remaining
<1>4. SubSeq(q, n + 1, Len(q)) \in Seq(Byte) /\ Len(SubSeq(q, n + 1, Len(q))) <= Len(q)
  BY <1>2
<1>5. Typed \subseteq Signal
  BY <1>1, <1>2 DEF Typed
<1> QED
  BY <1>1, <1>3, <1>4, <1>5 DEF TerminalAssumption

(* What is pending after a poll.                                           *)
LEMMA SignalledIs ==
    ASSUME TerminalAssumption, TerminalTypeOK
    PROVE  Signalled \in [Reader -> SUBSET Signal]
<1>1. Typed \subseteq Signal
  BY RemainingIs DEF TerminalTypeOK, QueuesTyped
<1>2. pending \in [Reader -> SUBSET Signal]
  BY DEF TerminalTypeOK
<1> QED
  BY <1>1, <1>2 DEF Signalled

(* The processor goes to a reader or to none.                              *)
LEMMA DispatchTypes ==
    ASSUME NEW r, Dispatch(r)
    PROVE  running' \in Reader \cup {Nobody}
  BY DEF Dispatch

(* A read turned away.                                                     *)
LEMMA TurnedAwayTypes ==
    ASSUME TerminalTypeOK, NEW r \in Reader, TurnedAway(r)
    PROVE  at' \in [Reader -> Place] /\ running' \in Reader \cup {Nobody}
<1>1. at \in [Reader -> Place] /\ running \in Reader \cup {Nobody}
  BY DEF TerminalTypeOK
<1>2. CASE Returns(r)
  BY <1>1, <1>2 DEF Returns, Place, TurnedAway
<1>3. CASE at' = [at EXCEPT ![r] = "background"] /\ Dispatch(r)
  BY <1>1, <1>3, DispatchTypes DEF Place, TurnedAway
<1> QED
  BY <1>2, <1>3 DEF TurnedAway

(* A turn of the wait.                                                     *)
LEMMA TurnIs ==
    ASSUME TerminalAssumption, TerminalTypeOK, NEW r \in Reader, Turn(r)
    PROVE  TerminalTypeOK'
<1>1. /\ ring \in Seq(Byte) /\ input \in Seq(Byte) /\ foreground \in TerminalGroup \cup {Nobody}
      /\ at \in [Reader -> Place] /\ running \in Reader \cup {Nobody} /\ r # Nobody
  BY DEF TerminalTypeOK, TerminalAssumption
<1>2. PICK q \in Seq(Byte) : q = Remaining /\ Len(q) <= QueueCapacity
  BY <1>1, RemainingIs DEF QueuesTyped
<1>3. PICK now \in [Reader -> SUBSET Signal] : now = Signalled
  BY SignalledIs
<1>4. ring' = <<>> /\ pending' = now /\ UNCHANGED foreground
  BY <1>3 DEF Turn
<1>5. ring' \in Seq(Byte) /\ Len(ring') <= RingCapacity
  BY <1>4 DEF TerminalAssumption
<1>6. CASE /\ HasInput(r) /\ Returns(r)
           /\ \E n \in 1 .. Leading(Remaining, {"key"}) : input' = SubSeq(Remaining, n + 1, Len(Remaining))
  <2>1. PICK keys \in 0 .. Len(q) : keys = Leading(q, {"key"})
    BY LeadingIs
  <2>2. PICK n \in 1 .. keys : input' = SubSeq(q, n + 1, Len(q))
    BY <1>2, <1>6, <2>1
  <2>3. input' \in Seq(Byte) /\ Len(input') <= QueueCapacity
    <3>1. n + 1 \in 1 .. Len(q) + 1 /\ Len(q) \in 0 .. Len(q)
      BY <2>1, <2>2
    <3>2. SubSeq(q, n + 1, Len(q)) \in Seq(Byte) /\ Len(SubSeq(q, n + 1, Len(q))) <= Len(q)
      BY <3>1, PartIs
    <3>3. Len(SubSeq(q, n + 1, Len(q))) \in Nat /\ Len(q) \in Nat /\ QueueCapacity \in Nat
      BY <3>2 DEF TerminalAssumption
    <3> QED
      BY <1>2, <2>2, <3>2, <3>3
  <2>4. at' \in [Reader -> Place] /\ UNCHANGED running
    BY <1>1, <1>6 DEF Returns, Place
  <2> QED
    BY <1>1, <1>4, <1>5, <1>6, <2>3, <2>4 DEF TerminalTypeOK, TerminalGroup
<1>7. CASE input' = Remaining /\ at' \in [Reader -> Place]
           /\ running' \in Reader \cup {Nobody}
  BY <1>1, <1>2, <1>4, <1>5, <1>7 DEF TerminalTypeOK, TerminalGroup
<1>8. CASE input' = Remaining /\ Returns(r)
  BY <1>1, <1>7, <1>8 DEF Returns, Place
<1>9. CASE input' = Remaining /\ TurnedAway(r)
  BY <1>7, <1>9, TurnedAwayTypes
<1>10. CASE /\ input' = Remaining
            /\ \/ at' = [at EXCEPT ![r] = "yielded"] /\ Dispatch(r)
               \/ at' = [at EXCEPT ![r] = "halted"] /\ UNCHANGED running
  BY <1>1, <1>7, <1>10, DispatchTypes DEF Place
<1> QED
  BY <1>6, <1>8, <1>9, <1>10 DEF Turn

(* A read from the top of its loop.                                        *)
LEMMA TopIs ==
    ASSUME TerminalAssumption, TerminalTypeOK, NEW r \in Reader, Top(r)
    PROVE  TerminalTypeOK'
<1>1. r # Nobody
  BY DEF TerminalAssumption
<1>2. CASE TurnedAway(r) /\ UNCHANGED <<ring, input, foreground, pending>>
  BY <1>1, <1>2, TurnedAwayTypes DEF TerminalTypeOK, TerminalGroup
<1>3. CASE Returns(r) /\ UNCHANGED <<ring, input, foreground, pending>>
  BY <1>1, <1>3 DEF TerminalTypeOK, Returns, Place, TerminalGroup
<1>4. CASE ~Background(r) /\ Turn(r)
  BY <1>4, TurnIs
<1> QED
  BY <1>2, <1>3, <1>4 DEF Top

(* Every way into the loop of a read.                                      *)
LEMMA ReadIs ==
    ASSUME TerminalAssumption, TerminalTypeOK, NEW r \in Reader,
           ReadCall(r) \/ ReadResumes(r) \/ ReadContinues(r)
    PROVE  TerminalTypeOK'
<1>1. r # Nobody /\ Nobody \notin Reader
  BY DEF TerminalAssumption
<1>2. CASE ReadCall(r)
  BY <1>2, TopIs DEF ReadCall
<1>3. CASE ReadResumes(r)
  BY <1>3, TurnIs DEF ReadResumes
<1>4. CASE ReadContinues(r)
  <2>1. CASE Returns(r) /\ UNCHANGED <<ring, input, foreground, pending>>
    BY <1>1, <2>1 DEF TerminalTypeOK, Returns, Place, TerminalGroup
  <2>2. CASE Top(r)
    BY <2>2, TopIs
  <2> QED
    BY <1>4, <2>1, <2>2 DEF ReadContinues
<1> QED
  BY <1>2, <1>3, <1>4

(* A tick polls the keyboard.                                              *)
LEMMA TickIs ==
    ASSUME TerminalAssumption, TerminalTypeOK, TerminalTick
    PROVE  TerminalTypeOK'
<1>1. ring \in Seq(Byte) /\ input \in Seq(Byte)
  BY DEF TerminalTypeOK
<1>2. Remaining \in Seq(Byte) /\ Len(Remaining) <= QueueCapacity
  BY <1>1, RemainingIs DEF QueuesTyped
<1>3. Signalled \in [Reader -> SUBSET Signal]
  BY SignalledIs
<1>4. ring' \in Seq(Byte) /\ Len(ring') <= RingCapacity
  BY DEF TerminalTick, TerminalAssumption
<1>5. at' \in [Reader -> Place] /\ running' \in Reader \cup {Nobody}
  BY DispatchTypes DEF TerminalTick, TerminalTypeOK, Place
<1> QED
  BY <1>2, <1>3, <1>4, <1>5 DEF TerminalTick, TerminalTypeOK, TerminalGroup

(* The end of a reader.                                                    *)
LEMMA EndsTypes ==
    ASSUME TerminalTypeOK, NEW r \in Reader, Ends(r)
    PROVE  /\ at' \in [Reader -> Place] /\ running' \in Reader \cup {Nobody}
           /\ foreground' \in TerminalGroup \cup {Nobody}
  BY DispatchTypes DEF Ends, TerminalTypeOK, Place

(* The rest of what the programs do.                                       *)
LEMMA OthersAre ==
    ASSUME TerminalAssumption, TerminalTypeOK, NEW r \in Reader,
           \/ Delivered(r) \/ Exits(r)
           \/ \E g \in TerminalGroup : SetForegroundGroup(r, g)
           \/ \E x \in Reader : Continue(r, x)
    PROVE  TerminalTypeOK'
<1>1. CASE Delivered(r)
  <2>1. /\ UNCHANGED <<ring, input>>
        /\ pending' = [pending EXCEPT ![r] = {}]
    BY <1>1 DEF Delivered
  <2>2. pending' \in [Reader -> SUBSET Signal]
    BY <2>1 DEF TerminalTypeOK
  <2>3. /\ at' \in [Reader -> Place] /\ running' \in Reader \cup {Nobody}
        /\ foreground' \in TerminalGroup \cup {Nobody}
    <3>1. CASE UNCHANGED <<at, foreground, running>>
      BY <3>1 DEF TerminalTypeOK
    <3>2. CASE Ends(r)
      BY <3>2, EndsTypes
    <3>3. CASE at' = [at EXCEPT ![r] = "stopped"] /\ Dispatch(r) /\ UNCHANGED foreground
      BY <3>3, DispatchTypes DEF TerminalTypeOK, Place
    <3> QED
      BY <1>1, <3>1, <3>2, <3>3 DEF Delivered
  <2> QED
    BY <2>1, <2>2, <2>3 DEF TerminalTypeOK, TerminalGroup
<1>2. CASE Exits(r)
  BY <1>2, EndsTypes DEF Exits, TerminalTypeOK, TerminalGroup
<1>3. ASSUME NEW g \in TerminalGroup, SetForegroundGroup(r, g)
      PROVE  TerminalTypeOK'
  BY <1>3 DEF SetForegroundGroup, TerminalTypeOK, TerminalGroup
<1>4. ASSUME NEW x \in Reader, Continue(r, x)
      PROVE  TerminalTypeOK'
  <2>1. /\ UNCHANGED <<ring, input, foreground, running>>
        /\ pending' = [pending EXCEPT ![x] = @ \ {"TSTP"}]
        /\ at' = [at EXCEPT ![x] = IF at[x] = "stopped" THEN "user" ELSE "continued"]
    BY <1>4 DEF Continue
  <2>2. pending' \in [Reader -> SUBSET Signal]
    BY <2>1 DEF TerminalTypeOK
  <2>3. at' \in [Reader -> Place]
    BY <2>1 DEF TerminalTypeOK, Place
  <2> QED
    BY <2>1, <2>2, <2>3 DEF TerminalTypeOK, TerminalGroup
<1> QED
  BY <1>1, <1>2, <1>3, <1>4

(* A byte arrives in the ring.                                             *)
LEMMA ArrivesIs ==
    ASSUME TerminalAssumption, TerminalTypeOK, NEW b \in Byte, Arrives(b)
    PROVE  TerminalTypeOK'
<1>1. ring' \in Seq(Byte) /\ Len(ring') <= RingCapacity
  BY DEF Arrives, TerminalTypeOK, TerminalAssumption
<1> QED
  BY <1>1 DEF Arrives, TerminalTypeOK, TerminalGroup

(* Every step of the terminal.                                             *)
LEMMA TerminalStep ==
    ASSUME TerminalAssumption, TerminalTypeOK, TerminalNext
    PROVE  TerminalTypeOK'
  BY ReadIs, OthersAre, ArrivesIs, TickIs DEF TerminalNext

(* The queues never hold more than their capacity, and every reader stands *)
(* in a place it can be in.                                                *)
THEOREM TerminalTypeCorrect == TerminalSpec => []TerminalTypeOK
<1>1. TerminalInit => TerminalTypeOK
  BY TerminalAssumption DEF TerminalInit, TerminalTypeOK, Place, TerminalAssumption
<1>2. TerminalTypeOK /\ [TerminalNext]_terminalVars => TerminalTypeOK'
  <2>1. TerminalTypeOK /\ UNCHANGED terminalVars => TerminalTypeOK'
    BY DEF terminalVars, TerminalTypeOK, TerminalGroup
  <2> QED
    BY <2>1, TerminalStep, TerminalAssumption
<1> QED
  BY <1>1, <1>2, PTL DEF TerminalSpec

(***************************************************************************)
(* The screen, its queues and its focus.                                   *)
(***************************************************************************)

(* Screens whose queues are within their capacity.                         *)
Sized == {s \in Screen : \A w \in Window : Len(s.queue[w]) <= EventCapacity}

(* Two screens that differ in the queues and the focus alone.              *)
Alike(s, t) ==
    /\ t.owner = s.owner /\ t.layer = s.layer /\ t.minimised = s.minimised /\ t.full = s.full
    /\ t.stack = s.stack /\ t.grabbed = s.grabbed /\ t.dragged = s.dragged

(* The stack names every window there is, each once, in the order of the   *)
(* layers.                                                                 *)
Stacked(s) ==
    /\ \A w \in Window : Listed(s.stack, w) <=> s.owner[w] # NoProgram
    /\ \A v, u \in Window : Beneath(s.stack, v, u) => v # u /\ s.layer[v] <= s.layer[u]

(* w is the window the focus belongs to.                                   *)
TopOf(s, w) ==
    /\ w = None => \A v \in Window : ~Focusable(s, v)
    /\ w # None => /\ w \in Window /\ Focusable(s, w)
                   /\ \A u \in Window : Beneath(s.stack, w, u) => ~Focusable(s, u)

(* The pointer is bound to a window that is shown, and to one at most.     *)
Pointed(s) ==
    /\ s.grabbed # None => s.grabbed \in Shown(s) /\ s.dragged = None
    /\ s.dragged # None => s.dragged \in Shown(s) /\ ~s.full[s.dragged]

(* What holds of the screen after every operation of the manager.          *)
Good(s) == s \in Sized /\ Stacked(s) /\ TopOf(s, s.focused) /\ Pointed(s)

(* The fields of a screen and what they hold.                              *)
LEMMA ScreenFields ==
    ASSUME NEW s \in Sized
    PROVE  /\ s.owner \in [Window -> Program \cup {NoProgram}]
           /\ s.layer \in [Window -> {RootLayer, Normal, Panel}]
           /\ s.minimised \in [Window -> BOOLEAN] /\ s.full \in [Window -> BOOLEAN]
           /\ s.queue \in [Window -> Seq({"event", "windows", "notify"})]
           /\ s.stack \in Seq(Window) /\ s.focused \in Window \cup {None}
           /\ s.grabbed \in Window \cup {None} /\ s.dragged \in Window \cup {None}
           /\ \A w \in Window : Len(s.queue[w]) <= EventCapacity
  BY DEF Sized, Screen

(* Other queues within their capacity leave a screen a screen.             *)
LEMMA NewQueues ==
    ASSUME NEW s \in Sized, NEW q \in [Window -> Seq({"event", "windows", "notify"})],
           \A w \in Window : Len(q[w]) <= EventCapacity
    PROVE  /\ [s EXCEPT !.queue = q] \in Sized
           /\ Alike(s, [s EXCEPT !.queue = q]) /\ [s EXCEPT !.queue = q].focused = s.focused
           /\ [s EXCEPT !.queue = q].queue = q
  BY DEF Sized, Screen, Alike

(* So does another focus.                                                  *)
LEMMA NewFocus ==
    ASSUME NEW s \in Sized, NEW w \in Window \cup {None}
    PROVE  /\ [s EXCEPT !.focused = w] \in Sized
           /\ Alike(s, [s EXCEPT !.focused = w]) /\ [s EXCEPT !.focused = w].focused = w
  BY DEF Sized, Screen, Alike

(* The stack and the pointer's binding do not depend on the queues or the  *)
(* focus.                                                                  *)
LEMMA AlikeKeeps ==
    ASSUME NEW s, NEW t, Alike(s, t)
    PROVE  /\ Stacked(s) => Stacked(t)
           /\ \A w : TopOf(s, w) => TopOf(t, w)
           /\ Pointed(s) => Pointed(t)
           /\ \A w : Focusable(s, w) <=> Focusable(t, w)
           /\ \A w : Exists(s, w) <=> Exists(t, w)
           /\ Shown(s) = Shown(t)
  BY DEF Alike, Stacked, TopOf, Pointed, Focusable, Exists, Shown

(* Alike is transitive.                                                    *)
LEMMA AlikeChain ==
    ASSUME NEW s, NEW t, NEW u, Alike(s, t), Alike(t, u)
    PROVE  Alike(s, u)
  BY DEF Alike

(* WindowEnqueue disturbs one queue alone, within its capacity.            *)
LEMMA EnqueueIs ==
    ASSUME WindowsAssumption, NEW s \in Sized, NEW w \in Window \cup {None},
           NEW kind \in {"event", "windows", "notify"}
    PROVE  /\ Enqueue(s, w, kind) \in Sized
           /\ Alike(s, Enqueue(s, w, kind)) /\ Enqueue(s, w, kind).focused = s.focused
<1>1. CASE ~(Exists(s, w) /\ Len(s.queue[w]) < EventCapacity)
  BY <1>1 DEF Enqueue, Alike
<1>2. CASE Exists(s, w) /\ Len(s.queue[w]) < EventCapacity
  <2>1. w \in Window
    BY <1>2 DEF Exists
  <2>2. PICK q : q = [s.queue EXCEPT ![w] = Append(@, kind)]
    OBVIOUS
  <2>3. q \in [Window -> Seq({"event", "windows", "notify"})]
    BY <2>1, <2>2, ScreenFields
  <2>4. s.queue[w] \in Seq({"event", "windows", "notify"}) /\ EventCapacity \in Nat
    BY <2>1, ScreenFields DEF WindowsAssumption
  <2>5. Len(Append(s.queue[w], kind)) = Len(s.queue[w]) + 1 /\ Len(s.queue[w]) \in Nat
    BY <2>4
  <2>6. Len(Append(s.queue[w], kind)) <= EventCapacity
    BY <1>2, <2>4, <2>5
  <2>7. \A v \in Window : Len(q[v]) <= EventCapacity
    BY <2>1, <2>2, <2>6, ScreenFields
  <2>8. Enqueue(s, w, kind) = [s EXCEPT !.queue = q]
    BY <1>2, <2>2 DEF Enqueue
  <2> QED
    BY <2>3, <2>7, <2>8, NewQueues
<1> QED
  BY <1>1, <1>2

(* WindowNotifyRootsOf disturbs the queues alone, within their capacity.   *)
LEMMA NotifyRootsIs ==
    ASSUME WindowsAssumption, NEW s \in Sized, NEW kind \in {"event", "windows", "notify"}
    PROVE  /\ NotifyRoots(s, kind) \in Sized
           /\ Alike(s, NotifyRoots(s, kind)) /\ NotifyRoots(s, kind).focused = s.focused
<1> DEFINE Gets(w) == /\ Exists(s, w) /\ s.layer[w] = RootLayer
                      /\ kind \notin ToSet(s.queue[w]) /\ Len(s.queue[w]) < EventCapacity
<1>1. PICK q : q = [w \in Window |-> IF Gets(w) THEN Append(s.queue[w], kind) ELSE s.queue[w]]
  OBVIOUS
<1>2. NotifyRoots(s, kind) = [s EXCEPT !.queue = q]
  BY <1>1 DEF NotifyRoots
<1>3. \A w \in Window : Gets(w) => Len(s.queue[w]) < EventCapacity
  OBVIOUS
<1> HIDE DEF Gets
<1>4. EventCapacity \in Nat
  BY DEF WindowsAssumption
<1>5. \A w \in Window : /\ q[w] \in Seq({"event", "windows", "notify"})
                        /\ Len(q[w]) <= EventCapacity
  <2> TAKE w \in Window
  <2>1. PICK p \in Seq({"event", "windows", "notify"}) : p = s.queue[w] /\ Len(p) <= EventCapacity
    BY ScreenFields
  <2>2. Append(p, kind) \in Seq({"event", "windows", "notify"})
    OBVIOUS
  <2>3. Len(Append(p, kind)) = Len(p) + 1 /\ Len(p) \in Nat
    OBVIOUS
  <2>4. Gets(w) => Len(Append(p, kind)) <= EventCapacity
    BY <1>3, <1>4, <2>1, <2>3
  <2> QED
    BY <1>1, <2>1, <2>2, <2>4
<1>6. q \in [Window -> Seq({"event", "windows", "notify"})]
  BY <1>1, <1>5
<1> QED
  BY <1>2, <1>5, <1>6, NewQueues

(* WindowTransferFocus moves the focus and tells of it in the queues.      *)
LEMMA TransferFocusIs ==
    ASSUME WindowsAssumption, NEW s \in Sized, NEW w \in Window \cup {None}
    PROVE  /\ TransferFocus(s, w) \in Sized
           /\ Alike(s, TransferFocus(s, w)) /\ TransferFocus(s, w).focused = w
<1>1. CASE s.focused = w
  BY <1>1 DEF TransferFocus, Alike
<1>2. CASE s.focused # w
  <2>1. PICK t \in Sized : t = [s EXCEPT !.focused = w] /\ Alike(s, t) /\ t.focused = w
    BY NewFocus
  <2>2. PICK u \in Sized : u = Enqueue(t, s.focused, "event") /\ Alike(t, u) /\ u.focused = w
    <3>1. PICK f \in Window \cup {None} : f = s.focused
      BY ScreenFields
    <3>2. /\ Enqueue(t, f, "event") \in Sized /\ Alike(t, Enqueue(t, f, "event"))
          /\ Enqueue(t, f, "event").focused = t.focused
      BY EnqueueIs
    <3> QED
      BY <2>1, <3>1, <3>2
  <2>3. PICK v \in Sized : v = Enqueue(u, w, "event") /\ Alike(u, v) /\ v.focused = w
    BY <2>2, EnqueueIs
  <2>4. Alike(s, v)
    BY <2>1, <2>2, <2>3, AlikeChain
  <2>5. TransferFocus(s, w) \in {v, NotifyRoots(v, "windows")}
    BY <1>2, <2>1, <2>2, <2>3 DEF TransferFocus
  <2>6. NotifyRoots(v, "windows") \in Sized /\ Alike(v, NotifyRoots(v, "windows"))
        /\ NotifyRoots(v, "windows").focused = w
    BY <2>3, NotifyRootsIs
  <2> QED
    BY <2>3, <2>4, <2>5, <2>6, AlikeChain
<1> QED
  BY <1>1, <1>2

(* With the focus passed to the window it belongs to, all is well.         *)
LEMMA FocusSettles ==
    ASSUME WindowsAssumption, NEW s \in Sized, Stacked(s), Pointed(s), NEW w \in Window \cup {None},
           TopOf(s, w)
    PROVE  Good(TransferFocus(s, w)) /\ Alike(s, TransferFocus(s, w))
<1>1. PICK t \in Sized : t = TransferFocus(s, w) /\ Alike(s, t) /\ t.focused = w
  BY TransferFocusIs
<1> QED
  BY <1>1, AlikeKeeps DEF Good

(* A notice to the session keeps the screen good.                          *)
LEMMA NotifyKeeps ==
    ASSUME WindowsAssumption, NEW s, Good(s), NEW kind \in {"event", "windows", "notify"}
    PROVE  Good(NotifyRoots(s, kind)) /\ Alike(s, NotifyRoots(s, kind))
<1>1. s \in Sized
  BY DEF Good
<1>2. PICK t \in Sized : t = NotifyRoots(s, kind) /\ Alike(s, t) /\ t.focused = s.focused
  BY <1>1, NotifyRootsIs
<1> QED
  BY <1>2, AlikeKeeps DEF Good

(* So does an event.                                                       *)
LEMMA EnqueueKeeps ==
    ASSUME WindowsAssumption, NEW s, Good(s), NEW w \in Window \cup {None},
           NEW kind \in {"event", "windows", "notify"}
    PROVE  Good(Enqueue(s, w, kind)) /\ Alike(s, Enqueue(s, w, kind))
<1>1. s \in Sized
  BY DEF Good
<1>2. PICK t \in Sized : t = Enqueue(s, w, kind) /\ Alike(s, t) /\ t.focused = s.focused
  BY <1>1, EnqueueIs
<1> QED
  BY <1>2, AlikeKeeps DEF Good

(* WindowTopmostFocusable finds the window the focus belongs to.           *)
LEMMA TopmostIs ==
    ASSUME WindowsAssumption, NEW s \in Sized, Stacked(s)
    PROVE  TopmostFocusable(s) \in Window \cup {None} /\ TopOf(s, TopmostFocusable(s))
<1>1. PICK list \in Seq(Window) : list = s.stack
  BY ScreenFields
<1>2. PICK up : up = {i \in DOMAIN list : Focusable(s, list[i])}
  OBVIOUS
<1>3. TopmostFocusable(s) = IF up = {} THEN None ELSE list[Max(up)]
  BY <1>1, <1>2 DEF TopmostFocusable
<1>4. PICK n \in Nat : n = Len(list) /\ DOMAIN list = 1 .. n
  OBVIOUS
<1>5. up \subseteq 0 .. n /\ \A i \in up : i \in 1 .. n
  BY <1>2, <1>4
<1>6. CASE up = {}
  <2>1. \A v \in Window : ~Focusable(s, v)
    BY <1>1, <1>2, <1>6 DEF Focusable, Exists, Stacked, Listed
  <2> QED
    BY <1>3, <1>6, <2>1 DEF TopOf
<1>7. CASE up # {}
  <2>1. PICK i \in up : i = Max(up) /\ \A j \in up : i >= j
    BY <1>5, <1>7, GreatestMember
  <2>2. PICK w \in Window : w = list[i] /\ Focusable(s, w) /\ i \in 1 .. n
    <3>1. i \in 1 .. n /\ list[i] \in Window
      BY <1>4, <1>5
    <3> QED
      BY <1>2, <3>1
  <2>3. ASSUME NEW u \in Window, Beneath(list, w, u)
        PROVE  ~Focusable(s, u)
    <3>1. PICK j \in 1 .. n, k \in 1 .. n : j < k /\ list[j] = w /\ list[k] = u
      BY <1>4, <2>3 DEF Beneath
    <3>2. i = j
      <4>1. ~ (i < j) /\ ~ (j < i)
        <5>1. i < j \/ j < i => Beneath(list, w, w)
          BY <1>4, <2>2, <3>1 DEF Beneath
        <5> QED
          BY <1>1, <5>1 DEF Stacked
      <4> QED
        BY <2>2, <3>1, <4>1
    <3>3. ~ (k \in up)
      BY <1>5, <2>1, <2>2, <3>1, <3>2
    <3> QED
      BY <1>2, <1>4, <3>1, <3>3
  <2>4. w # None
    BY <2>2 DEF None, Window
  <2> QED
    BY <1>1, <1>3, <1>7, <2>1, <2>2, <2>3, <2>4 DEF TopOf
<1> QED
  BY <1>6, <1>7

(***************************************************************************)
(* WindowStackRemove and WindowStackInsert.                                *)
(***************************************************************************)

(* Two screens that differ in the stack alone.                             *)
Restacked(s, t) ==
    /\ t.owner = s.owner /\ t.layer = s.layer /\ t.minimised = s.minimised /\ t.full = s.full
    /\ t.queue = s.queue /\ t.focused = s.focused /\ t.grabbed = s.grabbed /\ t.dragged = s.dragged

(* Another stack of windows leaves a screen a screen.                      *)
LEMMA NewStack ==
    ASSUME NEW s \in Sized, NEW list \in Seq(Window)
    PROVE  /\ [s EXCEPT !.stack = list] \in Sized
           /\ Restacked(s, [s EXCEPT !.stack = list]) /\ [s EXCEPT !.stack = list].stack = list
  BY DEF Sized, Screen, Restacked

(* WindowStackRemove takes out that window alone and keeps the order of    *)
(* the rest.                                                               *)
LEMMA StackRemoveIs ==
    ASSUME NEW s \in Sized, NEW w \in Window, \A v \in Window : ~Beneath(s.stack, v, v),
           NEW t, t = StackRemove(s, w)
    PROVE  /\ t \in Sized /\ Restacked(s, t)
           /\ \A v \in Window : Listed(t.stack, v) <=> Listed(s.stack, v) /\ v # w
           /\ \A v, u \in Window : Beneath(t.stack, v, u) =>
                 Beneath(s.stack, v, u) /\ v # w /\ u # w
<1>1. PICK list \in Seq(Window) : list = s.stack
  BY ScreenFields
<1>2. PICK n \in Nat : n = Len(list) /\ DOMAIN list = 1 .. n
  OBVIOUS
<1>3. PICK places : places = Positions(list, w) /\ places = {i \in 1 .. n : list[i] = w}
  BY <1>2 DEF Positions
<1>4. CASE places = {}
  <2>1. ~Listed(list, w)
    BY <1>2, <1>3, <1>4 DEF Listed
  <2>2. \A v, u \in Window : Beneath(list, v, u) => Listed(list, v) /\ Listed(list, u)
    BY DEF Listed, Beneath
  <2>3. t = s
    BY <1>1, <1>3, <1>4 DEF StackRemove
  <2> QED
    BY <1>1, <2>1, <2>2, <2>3 DEF Restacked
<1>5. CASE places # {}
  <2>1. PICK p \in places : p = Min(places)
    <3>1. places \subseteq Nat
      BY <1>3
    <3> QED
      BY <1>5, <3>1, LeastMember
  <2>2. p \in 1 .. n /\ list[p] = w
    BY <1>3, <2>1
  <2>3. PICK r \in Seq(Window) : r = RemoveAt(list, p)
    <3>1. RemoveAt(list, p) \in Seq(Window)
      BY <1>2, <2>2, RemoveAtIs
    <3> QED
      BY <3>1
  <2>4. t = [s EXCEPT !.stack = r]
    BY <1>1, <1>3, <1>5, <2>1, <2>3 DEF StackRemove
  <2>5. t \in Sized /\ Restacked(s, t) /\ t.stack = r
    BY <2>4, NewStack
  <2>6. /\ \A v \in Window : Listed(r, v) <=> Listed(list, v) /\ v # w
        /\ \A v, u \in Window : Beneath(r, v, u) => Beneath(list, v, u) /\ v # w /\ u # w
    BY <1>1, <1>2, <2>2, <2>3, RemovedIs
  <2> QED
    BY <1>1, <2>5, <2>6
<1> QED
  BY <1>4, <1>5

(* WindowStackInsert puts the window above its own layer and below every   *)
(* higher one: what stands over it belongs to a higher layer.              *)
LEMMA StackInsertIs ==
    ASSUME NEW s \in Sized, NEW w \in Window,
           \A v, u \in Window : Beneath(s.stack, v, u) => s.layer[v] <= s.layer[u],
           NEW t, t = StackInsert(s, w)
    PROVE  /\ t \in Sized /\ Restacked(s, t)
           /\ \A v \in Window : Listed(t.stack, v) <=> Listed(s.stack, v) \/ v = w
           /\ \A v, u \in Window : Beneath(t.stack, v, u) =>
                 \/ Beneath(s.stack, v, u)
                 \/ v = w /\ Listed(s.stack, u) /\ s.layer[u] > s.layer[w]
                 \/ u = w /\ Listed(s.stack, v) /\ s.layer[v] <= s.layer[w]
<1>1. PICK list \in Seq(Window) : list = s.stack
  BY ScreenFields
<1>2. PICK n \in Nat : n = Len(list) /\ DOMAIN list = 1 .. n
  OBVIOUS
<1>3. PICK higher : higher = HigherUp(s, w) /\ higher = {i \in 1 .. n : s.layer[list[i]] > s.layer[w]}
  BY <1>1, <1>2 DEF HigherUp
<1>4. PICK p \in 1 .. n + 1 :
         /\ t = [s EXCEPT !.stack = InsertAt(list, p, w)]
         /\ \A i \in 1 .. n : i < p => i \notin higher
         /\ p = n + 1 \/ p \in higher
  <2>1. CASE higher = {}
    <3>1. t = [s EXCEPT !.stack = InsertAt(list, n + 1, w)]
      BY <1>1, <1>2, <1>3, <2>1 DEF StackInsert
    <3> QED
      BY <2>1, <3>1
  <2>2. CASE higher # {}
    <3>1. PICK m \in higher : m = Min(higher) /\ \A i \in higher : m <= i
      <4>1. higher \subseteq Nat
        BY <1>3
      <4> QED
        BY <2>2, <4>1, LeastMember
    <3>2. t = [s EXCEPT !.stack = InsertAt(list, m, w)]
      BY <1>1, <1>3, <2>2, <3>1 DEF StackInsert
    <3>3. m \in 1 .. n
      BY <1>3, <3>1
    <3>4. \A i \in 1 .. n : i < m => i \notin higher
      BY <3>1, <3>3
    <3>5. m \in 1 .. n + 1
      BY <3>3
    <3> QED
      BY <3>1, <3>2, <3>4, <3>5
  <2> QED
    BY <2>1, <2>2
<1>5. PICK r \in Seq(Window) : r = InsertAt(list, p, w)
  <2>1. InsertAt(list, p, w) \in Seq(Window)
    BY <1>2, InsertAtIs
  <2> QED
    BY <2>1
<1>6. t \in Sized /\ Restacked(s, t) /\ t.stack = r
  BY <1>4, <1>5, NewStack
<1>7. \A v \in Window : s.layer[v] \in Int
  BY ScreenFields DEF RootLayer, Normal, Panel
<1>8. \A k \in 1 .. n : k >= p => s.layer[list[k]] > s.layer[w]
  <2> TAKE k \in 1 .. n
  <2> SUFFICES ASSUME k >= p PROVE s.layer[list[k]] > s.layer[w]
    OBVIOUS
  <2>1. p \in higher /\ p \in 1 .. n
    BY <1>4
  <2>2. s.layer[list[p]] > s.layer[w]
    BY <1>3, <2>1
  <2>3. k = p \/ Beneath(list, list[p], list[k])
    BY <1>2, <2>1 DEF Beneath
  <2>4. list[p] \in Window /\ list[k] \in Window
    BY <1>2, <2>1
  <2>5. k = p \/ s.layer[list[p]] <= s.layer[list[k]]
    BY <1>1, <2>3, <2>4
  <2>6. s.layer[list[p]] \in Int /\ s.layer[list[k]] \in Int /\ s.layer[w] \in Int
    BY <1>7, <2>4
  <2>7. CASE k = p
    BY <2>2, <2>7
  <2>8. CASE s.layer[list[p]] <= s.layer[list[k]]
    BY <2>2, <2>6, <2>8
  <2> QED
    BY <2>5, <2>7, <2>8
<1>9. \A k \in 1 .. n : k < p => s.layer[list[k]] <= s.layer[w]
  <2> TAKE k \in 1 .. n
  <2>1. list[k] \in Window
    BY <1>2
  <2> QED
    BY <1>3, <1>4, <1>7, <2>1
<1>10. /\ \A v \in Window : Listed(r, v) <=> Listed(list, v) \/ v = w
       /\ \A v, u \in Window : Beneath(r, v, u) =>
                 \/ Beneath(list, v, u)
                 \/ v = w /\ \E k \in DOMAIN list : k >= p /\ list[k] = u
                 \/ u = w /\ \E k \in DOMAIN list : k < p /\ list[k] = v
  <2>1. p \in 1 .. Len(list) + 1
    BY <1>2
  <2>2. HasBesides(InsertAt(list, p, w), list, p, w)
    BY <2>1, InsertAtIs DEF HasBesides
  <2>3. HasBesides(r, list, p, w)
    BY <1>5, <2>2
  <2> QED
    BY <2>1, <2>3, AddedIs
<1>11. \A u : (\E k \in DOMAIN list : k >= p /\ list[k] = u) =>
              Listed(list, u) /\ s.layer[u] > s.layer[w]
  BY <1>2, <1>8 DEF Listed
<1>12. \A v : (\E k \in DOMAIN list : k < p /\ list[k] = v) =>
              Listed(list, v) /\ s.layer[v] <= s.layer[w]
  BY <1>2, <1>9 DEF Listed
<1> QED
  BY <1>1, <1>6, <1>10, <1>11, <1>12

(***************************************************************************)
(* Raising, minimising, restoring.                                         *)
(***************************************************************************)

(* The pointer's binding does not depend on the stack.                     *)
LEMMA RestackedKeeps ==
    ASSUME NEW s, NEW t, Restacked(s, t)
    PROVE  /\ Pointed(s) => Pointed(t)
           /\ \A w : Focusable(s, w) <=> Focusable(t, w)
           /\ \A w : Exists(s, w) <=> Exists(t, w)
           /\ Shown(s) = Shown(t)
  BY DEF Restacked, Pointed, Focusable, Exists, Shown

(* WINDOW_NONE is no slot of the table.                                    *)
LEMMA WindowIsSome == \A w \in Window : w # None
  BY DEF Window, None

(* The three layers, as numbers.                                           *)
LEMMA LayersAre ==
    ASSUME NEW s \in Sized
    PROVE  \A w \in Window : s.layer[w] \in 0 .. 2
  BY ScreenFields DEF RootLayer, Normal, Panel

(* WindowRaise: the same windows, each once, in the order of the layers;   *)
(* nothing of its own layer stands over the window raised.                 *)
LEMMA RaiseIs ==
    ASSUME NEW s \in Sized, Stacked(s), NEW w \in Window, Exists(s, w), NEW t, t = WindowRaise(s, w)
    PROVE  /\ t \in Sized /\ Restacked(s, t) /\ Stacked(t)
           /\ \A v, u \in Window : Beneath(t.stack, v, u) =>
                 \/ Beneath(s.stack, v, u) /\ v # w /\ u # w
                 \/ v = w /\ u # w /\ s.layer[u] > s.layer[w]
                 \/ u = w /\ v # w /\ s.layer[v] <= s.layer[w]
<1>1. \A v \in Window : ~Beneath(s.stack, v, v)
  BY DEF Stacked
<1>2. PICK r : r = StackRemove(s, w)
  OBVIOUS
<1>3. /\ r \in Sized /\ Restacked(s, r)
      /\ \A v \in Window : Listed(r.stack, v) <=> Listed(s.stack, v) /\ v # w
      /\ \A v, u \in Window : Beneath(r.stack, v, u) => Beneath(s.stack, v, u) /\ v # w /\ u # w
  BY <1>1, <1>2, StackRemoveIs
<1>4. \A v, u \in Window : Beneath(r.stack, v, u) => r.layer[v] <= r.layer[u]
  BY <1>3 DEF Stacked, Restacked
<1>5. t = StackInsert(r, w)
  BY <1>2 DEF WindowRaise
<1>6. /\ t \in Sized /\ Restacked(r, t)
      /\ \A v \in Window : Listed(t.stack, v) <=> Listed(r.stack, v) \/ v = w
      /\ \A v, u \in Window : Beneath(t.stack, v, u) =>
            \/ Beneath(r.stack, v, u)
            \/ v = w /\ Listed(r.stack, u) /\ r.layer[u] > r.layer[w]
            \/ u = w /\ Listed(r.stack, v) /\ r.layer[v] <= r.layer[w]
  BY <1>3, <1>4, <1>5, StackInsertIs
<1>7. Restacked(s, t) /\ r.layer = s.layer
  BY <1>3, <1>6 DEF Restacked
<1>8. \A v, u \in Window : Beneath(t.stack, v, u) =>
         \/ Beneath(s.stack, v, u) /\ v # w /\ u # w
         \/ v = w /\ u # w /\ s.layer[u] > s.layer[w]
         \/ u = w /\ v # w /\ s.layer[v] <= s.layer[w]
  BY <1>3, <1>6, <1>7
<1>9. \A v \in Window : Listed(t.stack, v) <=> s.owner[v] # NoProgram
  BY <1>3, <1>6 DEF Stacked, Exists
<1>10. \A v, u \in Window : Beneath(t.stack, v, u) => v # u /\ s.layer[v] <= s.layer[u]
  <2> TAKE v, u \in Window
  <2>1. s.layer[v] \in 0 .. 2 /\ s.layer[u] \in 0 .. 2 /\ s.layer[w] \in 0 .. 2
    BY LayersAre
  <2>2. Beneath(s.stack, v, u) => v # u /\ s.layer[v] <= s.layer[u]
    BY DEF Stacked
  <2> QED
    BY <1>8, <2>1, <2>2
<1>11. Stacked(t)
  BY <1>7, <1>9, <1>10 DEF Stacked, Restacked
<1> QED
  BY <1>6, <1>7, <1>8, <1>11

(* An ordinary window raised is the one the focus belongs to.              *)
LEMMA RaisedIsTop ==
    ASSUME NEW s \in Sized, Stacked(s), NEW w \in Window, Focusable(s, w)
    PROVE  TopOf(WindowRaise(s, w), w)
<1>1. PICK t : t = WindowRaise(s, w)
  OBVIOUS
<1>2. Exists(s, w) /\ s.layer[w] = Normal
  BY DEF Focusable
<1>3. /\ t \in Sized /\ Restacked(s, t)
      /\ \A v, u \in Window : Beneath(t.stack, v, u) =>
            \/ Beneath(s.stack, v, u) /\ v # w /\ u # w
            \/ v = w /\ u # w /\ s.layer[u] > s.layer[w]
            \/ u = w /\ v # w /\ s.layer[v] <= s.layer[w]
  BY <1>1, <1>2, RaiseIs
<1>4. \A u \in Window : Beneath(t.stack, w, u) => s.layer[u] # Normal
  <2> TAKE u \in Window
  <2>1. s.layer[u] \in 0 .. 2
    BY LayersAre
  <2> QED
    BY <1>2, <1>3, <2>1 DEF Normal
<1>5. \A u \in Window : Beneath(t.stack, w, u) => ~Focusable(t, u)
  BY <1>3, <1>4 DEF Focusable, Restacked
<1>6. Focusable(t, w)
  BY <1>3, RestackedKeeps
<1> QED
  BY <1>1, <1>5, <1>6, WindowIsSome DEF TopOf

(* An ordinary window raised and given the focus: the screen is good       *)
(* again.                                                                  *)
LEMMA RaiseFocuses ==
    ASSUME WindowsAssumption, NEW s \in Sized, Stacked(s), Pointed(s),
           NEW w \in Window, Focusable(s, w), NEW t, t = TransferFocus(WindowRaise(s, w), w)
    PROVE  /\ Good(t) /\ t.owner = s.owner /\ t.layer = s.layer /\ t.minimised = s.minimised
           /\ t.full = s.full /\ t.grabbed = s.grabbed /\ t.dragged = s.dragged
<1>1. Exists(s, w)
  BY DEF Focusable
<1>2. PICK r : r = WindowRaise(s, w)
  OBVIOUS
<1>3. r \in Sized /\ Restacked(s, r) /\ Stacked(r)
  BY <1>1, <1>2, RaiseIs
<1>4. TopOf(r, w)
  BY <1>2, RaisedIsTop
<1>5. Pointed(r)
  BY <1>3, RestackedKeeps
<1>6. Good(t) /\ Alike(r, t)
  BY <1>2, <1>3, <1>4, <1>5, FocusSettles
<1> QED
  BY <1>3, <1>6 DEF Alike, Restacked

(* A window that is not ordinary is raised without taking the focus from   *)
(* the window it belongs to.                                               *)
LEMMA RaiseKeeps ==
    ASSUME NEW s, Good(s), NEW w \in Window, Exists(s, w), s.layer[w] # Normal
    PROVE  Good(WindowRaise(s, w)) /\ Restacked(s, WindowRaise(s, w))
<1>1. PICK t : t = WindowRaise(s, w)
  OBVIOUS
<1>2. s \in Sized /\ Stacked(s) /\ Pointed(s) /\ TopOf(s, s.focused)
  BY DEF Good
<1>3. /\ t \in Sized /\ Restacked(s, t) /\ Stacked(t)
      /\ \A v, u \in Window : Beneath(t.stack, v, u) =>
            \/ Beneath(s.stack, v, u) /\ v # w /\ u # w
            \/ v = w /\ u # w /\ s.layer[u] > s.layer[w]
            \/ u = w /\ v # w /\ s.layer[v] <= s.layer[w]
  BY <1>1, <1>2, RaiseIs
<1>4. ~Focusable(s, w)
  BY DEF Focusable
<1>5. TopOf(t, s.focused)
  BY <1>2, <1>3, <1>4, RestackedKeeps DEF TopOf
<1>6. Pointed(t) /\ t.focused = s.focused
  BY <1>2, <1>3, RestackedKeeps DEF Restacked
<1> QED
  BY <1>1, <1>3, <1>5, <1>6 DEF Good

(* The pointer lets go of a window that is no longer shown.                *)
LEMMA MinimiseKeeps ==
    ASSUME WindowsAssumption, NEW s, Good(s), NEW w \in Window, Exists(s, w),
           NEW t, t = WindowMinimise(s, w)
    PROVE  /\ Good(t) /\ t.owner = s.owner /\ (s.grabbed = None => t.grabbed = None)
           /\ (s.dragged = None => t.dragged = None)
<1>1. CASE s.minimised[w]
  BY <1>1 DEF WindowMinimise
<1>2. CASE ~s.minimised[w]
  <2>1. s \in Sized /\ Stacked(s) /\ Pointed(s) /\ TopOf(s, s.focused)
    BY DEF Good
  <2>2. PICK a : a = [s EXCEPT !.minimised[w] = TRUE, !.grabbed = Unless(@, w), !.dragged = Unless(@, w)]
    OBVIOUS
  <2>3. /\ a.owner = s.owner /\ a.layer = s.layer /\ a.full = s.full /\ a.stack = s.stack
        /\ a.minimised = [s.minimised EXCEPT ![w] = TRUE] /\ a.focused = s.focused
        /\ a.grabbed = Unless(s.grabbed, w) /\ a.dragged = Unless(s.dragged, w)
        /\ a \in Sized
    BY <2>1, <2>2 DEF Sized, Screen, Unless
  <2>4. Stacked(a)
    BY <2>1, <2>3 DEF Stacked
  <2>5. Pointed(a)
    BY <2>1, <2>3, ScreenFields DEF Pointed, Shown, Exists, Unless
  <2>6. /\ ~Focusable(a, w)
        /\ \A v \in Window : v # w => (Focusable(a, v) <=> Focusable(s, v))
    BY <2>1, <2>3, ScreenFields DEF Focusable, Exists
  <2>7. (s.grabbed = None => a.grabbed = None) /\ (s.dragged = None => a.dragged = None)
    BY <2>3 DEF Unless
  <2>8. PICK b : /\ b = IF s.focused = w THEN TransferFocus(a, TopmostFocusable(a)) ELSE a
                 /\ t = NotifyRoots(b, "windows")
    BY <1>2, <2>2 DEF WindowMinimise
  <2>9. Good(b) /\ Alike(a, b)
    <3>1. CASE s.focused = w
      BY <2>3, <2>4, <2>5, <2>8, <3>1, TopmostIs, FocusSettles
    <3>2. CASE s.focused # w
      <4>1. TopOf(a, s.focused)
        BY <2>1, <2>3, <2>6, <3>2 DEF TopOf
      <4> QED
        BY <2>3, <2>4, <2>5, <2>8, <3>2, <4>1 DEF Good, Alike
    <3> QED
      BY <3>1, <3>2
  <2>10. Good(t) /\ Alike(b, t)
    BY <2>8, <2>9, NotifyKeeps
  <2> QED
    BY <2>3, <2>7, <2>9, <2>10 DEF Alike
<1> QED
  BY <1>1, <1>2

(* WindowRestore.                                                          *)
LEMMA RestoreKeeps ==
    ASSUME WindowsAssumption, NEW s, Good(s), NEW w \in Window, Exists(s, w), s.layer[w] = Normal,
           NEW t, t = WindowRestore(s, w)
    PROVE  Good(t) /\ t.owner = s.owner /\ t.grabbed = s.grabbed /\ t.dragged = s.dragged
<1>1. s \in Sized /\ Stacked(s) /\ Pointed(s)
  BY DEF Good
<1>2. PICK a : a = [s EXCEPT !.minimised[w] = FALSE]
  OBVIOUS
<1>3. /\ a.owner = s.owner /\ a.layer = s.layer /\ a.full = s.full /\ a.stack = s.stack
      /\ a.minimised = [s.minimised EXCEPT ![w] = FALSE]
      /\ a.grabbed = s.grabbed /\ a.dragged = s.dragged /\ a \in Sized
  BY <1>1, <1>2 DEF Sized, Screen
<1>4. Stacked(a)
  BY <1>1, <1>3 DEF Stacked
<1>5. Pointed(a)
  BY <1>1, <1>3, ScreenFields DEF Pointed, Shown, Exists
<1>6. Focusable(a, w)
  BY <1>1, <1>3, ScreenFields DEF Focusable, Exists
<1>7. PICK b : b = TransferFocus(WindowRaise(a, w), w)
  OBVIOUS
<1>8. Good(b) /\ b.owner = a.owner /\ b.grabbed = a.grabbed /\ b.dragged = a.dragged
  BY <1>3, <1>4, <1>5, <1>6, <1>7, RaiseFocuses
<1>9. t = NotifyRoots(b, "windows")
  BY <1>2, <1>7 DEF WindowRestore
<1>10. Good(t) /\ Alike(b, t)
  BY <1>8, <1>9, NotifyKeeps
<1> QED
  BY <1>3, <1>8, <1>10 DEF Alike

(* WindowSetFull: a drag ends with it.                                     *)
LEMMA SetFullKeeps ==
    ASSUME WindowsAssumption, NEW s, Good(s), NEW w \in Window, Exists(s, w), NEW full \in BOOLEAN,
           NEW t, t = WindowSetFull(s, w, full)
    PROVE  /\ Good(t) /\ t.owner = s.owner /\ t.grabbed = s.grabbed
           /\ (s.dragged = None => t.dragged = None)
<1>1. CASE s.full[w] = full
  BY <1>1 DEF WindowSetFull
<1>2. CASE s.full[w] # full
  <2>1. s \in Sized /\ Stacked(s) /\ Pointed(s) /\ TopOf(s, s.focused)
    BY DEF Good
  <2>2. PICK a : a = [s EXCEPT !.full[w] = full, !.dragged = Unless(@, w)]
    OBVIOUS
  <2>3. /\ a.owner = s.owner /\ a.layer = s.layer /\ a.minimised = s.minimised /\ a.stack = s.stack
        /\ a.full = [s.full EXCEPT ![w] = full] /\ a.focused = s.focused
        /\ a.grabbed = s.grabbed /\ a.dragged = Unless(s.dragged, w) /\ a \in Sized
    BY <2>1, <2>2 DEF Sized, Screen, Unless
  <2>4. Stacked(a) /\ TopOf(a, a.focused)
    BY <2>1, <2>3 DEF Stacked, TopOf, Focusable, Exists
  <2>5. Pointed(a)
    BY <2>1, <2>3, ScreenFields DEF Pointed, Shown, Exists, Unless
  <2>6. Good(a)
    BY <2>3, <2>4, <2>5 DEF Good
  <2>7. PICK b : b = Enqueue(a, w, "event") /\ Good(b) /\ Alike(a, b)
    BY <2>6, EnqueueKeeps
  <2>8. t = NotifyRoots(b, "windows")
    BY <1>2, <2>2, <2>7 DEF WindowSetFull
  <2>9. Good(t) /\ Alike(b, t)
    BY <2>7, <2>8, NotifyKeeps
  <2>10. s.dragged = None => a.dragged = None
    BY <2>3 DEF Unless
  <2> QED
    BY <2>3, <2>7, <2>9, <2>10 DEF Alike
<1> QED
  BY <1>1, <1>2

(***************************************************************************)
(* A window's beginning and end.                                           *)
(***************************************************************************)

(* The fields of a screen, by their types.                                 *)
LayerKinds == {RootLayer, Normal, Panel}
Owners == [Window -> Program \cup {NoProgram}]
Layers == [Window -> LayerKinds]
Flags == [Window -> BOOLEAN]
Queues == [Window -> Seq({"event", "windows", "notify"})]

(* WindowCreate, into a free slot: the new window is upon the stack once,  *)
(* and has the focus if it is ordinary.                                    *)
LEMMA CreateKeeps ==
    ASSUME WindowsAssumption, NEW s, Good(s), NEW w \in Window, s.owner[w] = NoProgram,
           NEW c \in Program, NEW layer \in LayerKinds,
           NEW t, t = WindowCreate(s, w, c, layer)
    PROVE  Good(t) /\ t.grabbed = s.grabbed /\ t.dragged = s.dragged
<1>1. s \in Sized /\ Stacked(s) /\ Pointed(s) /\ TopOf(s, s.focused)
  BY DEF Good
<1>2. PICK a : a = [s EXCEPT !.owner[w] = c, !.layer[w] = layer, !.minimised[w] = FALSE,
                             !.full[w] = FALSE, !.queue[w] = <<>>]
  OBVIOUS
<1>3. /\ a.owner = [s.owner EXCEPT ![w] = c] /\ a.layer = [s.layer EXCEPT ![w] = layer]
      /\ a.minimised = [s.minimised EXCEPT ![w] = FALSE] /\ a.full = [s.full EXCEPT ![w] = FALSE]
      /\ a.stack = s.stack /\ a.focused = s.focused
      /\ a.grabbed = s.grabbed /\ a.dragged = s.dragged
      /\ a.queue = [s.queue EXCEPT ![w] = <<>>]
  BY <1>1, <1>2 DEF Sized, Screen
<1>4. a \in Sized
  <2>1. a \in Screen
    <3>1. /\ [s.owner EXCEPT ![w] = c] \in Owners /\ [s.layer EXCEPT ![w] = layer] \in Layers
          /\ [s.minimised EXCEPT ![w] = FALSE] \in Flags /\ [s.full EXCEPT ![w] = FALSE] \in Flags
      BY <1>1, ScreenFields DEF Owners, Layers, LayerKinds, Flags
    <3>2. [s.queue EXCEPT ![w] = <<>>] \in Queues
      BY <1>1, ScreenFields DEF Queues
    <3>3. s \in Screen
      BY <1>1 DEF Sized
    <3>4. PICK o \in Owners, l \in Layers, m \in Flags, f \in Flags, q \in Queues :
             /\ o = [s.owner EXCEPT ![w] = c] /\ l = [s.layer EXCEPT ![w] = layer]
             /\ m = [s.minimised EXCEPT ![w] = FALSE] /\ f = [s.full EXCEPT ![w] = FALSE]
             /\ q = [s.queue EXCEPT ![w] = <<>>]
      BY <3>1, <3>2
    <3>5. a = [s EXCEPT !.owner = o, !.layer = l, !.minimised = m, !.full = f, !.queue = q]
      BY <1>2, <3>4
    <3> QED
      BY <3>3, <3>5 DEF Screen, Owners, Layers, LayerKinds, Flags, Queues
  <2>2. EventCapacity \in Nat /\ Len(<<>>) = 0
    BY DEF WindowsAssumption
  <2>3. \A v \in Window : Len(a.queue[v]) <= EventCapacity
    BY <1>1, <1>3, <2>2, ScreenFields
  <2> QED
    BY <2>1, <2>3 DEF Sized
<1>5. ~Listed(s.stack, w)
  BY <1>1 DEF Stacked
<1>6. \A v, u \in Window : Beneath(s.stack, v, u) => Listed(s.stack, v) /\ Listed(s.stack, u)
  BY DEF Listed, Beneath
<1>7. \A v, u \in Window : Beneath(s.stack, v, u) =>
         v # w /\ u # w /\ v # u /\ a.layer[v] <= a.layer[u]
  BY <1>1, <1>3, <1>5, <1>6, ScreenFields DEF Stacked
<1>8. PICK r : r = StackInsert(a, w)
  OBVIOUS
<1>9. /\ r \in Sized /\ Restacked(a, r)
      /\ \A v \in Window : Listed(r.stack, v) <=> Listed(s.stack, v) \/ v = w
      /\ \A v, u \in Window : Beneath(r.stack, v, u) =>
            \/ Beneath(s.stack, v, u)
            \/ v = w /\ Listed(s.stack, u) /\ a.layer[u] > a.layer[w]
            \/ u = w /\ Listed(s.stack, v) /\ a.layer[v] <= a.layer[w]
  <2>1. \A v, u \in Window : Beneath(a.stack, v, u) => a.layer[v] <= a.layer[u]
    BY <1>3, <1>7
  <2>2. /\ r \in Sized /\ Restacked(a, r)
        /\ \A v \in Window : Listed(r.stack, v) <=> Listed(a.stack, v) \/ v = w
        /\ \A v, u \in Window : Beneath(r.stack, v, u) =>
              \/ Beneath(a.stack, v, u)
              \/ v = w /\ Listed(a.stack, u) /\ a.layer[u] > a.layer[w]
              \/ u = w /\ Listed(a.stack, v) /\ a.layer[v] <= a.layer[w]
    BY <1>4, <1>8, <2>1, StackInsertIs
  <2> QED
    BY <1>3, <2>2
<1>10. \A v \in Window : a.layer[v] \in 0 .. 2
  BY <1>4, LayersAre
<1>11. Stacked(r)
  <2>1. \A v \in Window : Listed(r.stack, v) <=> r.owner[v] # NoProgram
    BY <1>1, <1>3, <1>9, ScreenFields DEF Stacked, Restacked, WindowsAssumption
  <2>2. \A v, u \in Window : Beneath(r.stack, v, u) => v # u /\ a.layer[v] <= a.layer[u]
    <3> TAKE v, u \in Window
    <3>1. a.layer[v] \in 0 .. 2 /\ a.layer[u] \in 0 .. 2
      BY <1>10
    <3> QED
      BY <1>5, <1>7, <1>9, <3>1
  <2> QED
    BY <1>9, <2>1, <2>2 DEF Stacked, Restacked
<1>12. \A v \in Window : v # w => (Focusable(r, v) <=> Focusable(s, v))
  BY <1>1, <1>3, <1>9, ScreenFields DEF Focusable, Exists, Restacked
<1>13. Pointed(r)
  <2>1. \A v \in Shown(s) : v # w /\ v \in Shown(r) /\ r.full[v] = s.full[v]
    <3> TAKE v \in Shown(s)
    <3>1. v \in Window /\ Exists(s, v) /\ ~s.minimised[v]
      BY DEF Shown
    <3>2. v # w
      BY <3>1 DEF Exists
    <3>3. r.owner[v] = s.owner[v] /\ r.minimised[v] = s.minimised[v] /\ r.full[v] = s.full[v]
      BY <1>1, <1>3, <1>9, <3>1, <3>2, ScreenFields DEF Restacked
    <3> QED
      BY <3>1, <3>2, <3>3 DEF Shown, Exists
  <2>2. r.grabbed = s.grabbed /\ r.dragged = s.dragged
    BY <1>3, <1>9 DEF Restacked
  <2> QED
    BY <1>1, <2>1, <2>2 DEF Pointed
<1>14. CASE layer # Normal
  <2>1. ~Focusable(r, w)
    BY <1>1, <1>3, <1>9, <1>14, ScreenFields DEF Focusable, Restacked
  <2>2. ~Focusable(s, w)
    BY DEF Focusable, Exists
  <2>3. TopOf(r, s.focused)
    <3>1. CASE s.focused = None
      BY <1>1, <1>12, <2>1, <3>1 DEF TopOf
    <3>2. CASE s.focused # None
      <4>1. s.focused \in Window /\ Focusable(s, s.focused) /\ s.focused # w
        BY <1>1, <2>2, <3>2 DEF TopOf
      <4>2. \A u \in Window : Beneath(r.stack, s.focused, u) => ~Focusable(r, u)
        <5> TAKE u \in Window
        <5>1. Beneath(r.stack, s.focused, u) => u = w \/ Beneath(s.stack, s.focused, u)
          BY <1>9, <4>1
        <5> QED
          BY <1>1, <1>12, <2>1, <3>2, <5>1 DEF TopOf
      <4> QED
        BY <1>12, <3>2, <4>1, <4>2 DEF TopOf
    <3> QED
      BY <3>1, <3>2
  <2>4. t = r
    BY <1>2, <1>8, <1>14 DEF WindowCreate
  <2> QED
    BY <1>3, <1>9, <1>11, <1>13, <2>3, <2>4 DEF Good, Restacked
<1>15. CASE layer = Normal
  <2>1. Focusable(r, w)
    BY <1>1, <1>3, <1>9, <1>15, ScreenFields, WindowIsSome DEF Focusable, Exists, Restacked, WindowsAssumption
  <2>2. \A u \in Window : Beneath(r.stack, w, u) => a.layer[u] # Normal
    <3> TAKE u \in Window
    <3>1. a.layer[u] \in 0 .. 2 /\ a.layer[w] = Normal
      BY <1>1, <1>3, <1>10, <1>15, ScreenFields
    <3> QED
      BY <1>5, <1>7, <1>9, <3>1 DEF Normal
  <2>3. TopOf(r, w)
    BY <1>9, <2>1, <2>2, WindowIsSome DEF TopOf, Focusable, Restacked
  <2>4. PICK f : f = TransferFocus(r, w) /\ Good(f) /\ Alike(r, f)
    BY <1>9, <1>11, <1>13, <2>3, FocusSettles
  <2>5. t = NotifyRoots(f, "windows")
    BY <1>2, <1>8, <1>15, <2>4 DEF WindowCreate
  <2>6. Good(t) /\ Alike(f, t)
    BY <2>4, <2>5, NotifyKeeps
  <2> QED
    BY <1>3, <1>9, <2>4, <2>6 DEF Alike, Restacked
<1> QED
  BY <1>14, <1>15

(* WindowDestroy: the slot is free, no entry of the stack, the focus or    *)
(* the pointer names it, and the focus has passed to the window it belongs *)
(* to.                                                                     *)
LEMMA DestroyKeeps ==
    ASSUME WindowsAssumption, NEW s, Good(s), NEW w \in Window, Exists(s, w),
           NEW t, t = WindowDestroy(s, w)
    PROVE  /\ Good(t) /\ t.owner = [s.owner EXCEPT ![w] = NoProgram]
           /\ (s.grabbed = None => t.grabbed = None)
           /\ (s.dragged = None => t.dragged = None)
<1>1. s \in Sized /\ Stacked(s) /\ Pointed(s) /\ TopOf(s, s.focused)
  BY DEF Good
<1>2. PICK r : r = StackRemove(s, w)
  OBVIOUS
<1>3. /\ r \in Sized /\ Restacked(s, r)
      /\ \A v \in Window : Listed(r.stack, v) <=> Listed(s.stack, v) /\ v # w
      /\ \A v, u \in Window : Beneath(r.stack, v, u) => Beneath(s.stack, v, u) /\ v # w /\ u # w
  BY <1>1, <1>2, StackRemoveIs DEF Stacked
<1>4. PICK a : a = [r EXCEPT !.owner[w] = NoProgram, !.queue[w] = <<>>,
                             !.grabbed = Unless(@, w), !.dragged = Unless(@, w),
                             !.focused = Unless(@, w)]
  OBVIOUS
<1>5. /\ a.owner = [s.owner EXCEPT ![w] = NoProgram] /\ a.layer = s.layer
      /\ a.minimised = s.minimised /\ a.full = s.full /\ a.stack = r.stack
      /\ a.queue = [s.queue EXCEPT ![w] = <<>>]
      /\ a.grabbed = Unless(s.grabbed, w) /\ a.dragged = Unless(s.dragged, w)
      /\ a.focused = Unless(s.focused, w)
  BY <1>3, <1>4 DEF Sized, Screen, Restacked
<1>6. a \in Sized
  <2>1. a \in Screen
    <3>1. /\ [r.owner EXCEPT ![w] = NoProgram] \in Owners
          /\ Unless(r.grabbed, w) \in Window \cup {None} /\ Unless(r.dragged, w) \in Window \cup {None}
          /\ Unless(r.focused, w) \in Window \cup {None}
      BY <1>3, ScreenFields DEF Owners, Unless
    <3>2. [r.queue EXCEPT ![w] = <<>>] \in Queues
      BY <1>3, ScreenFields DEF Queues
    <3>3. r \in Screen
      BY <1>3 DEF Sized
    <3>4. PICK o \in Owners, q \in Queues, g \in Window \cup {None}, d \in Window \cup {None},
               f \in Window \cup {None} :
             /\ o = [r.owner EXCEPT ![w] = NoProgram] /\ q = [r.queue EXCEPT ![w] = <<>>]
             /\ g = Unless(r.grabbed, w) /\ d = Unless(r.dragged, w) /\ f = Unless(r.focused, w)
      BY <3>1, <3>2
    <3>5. a = [r EXCEPT !.owner = o, !.queue = q, !.grabbed = g, !.dragged = d, !.focused = f]
      BY <1>4, <3>4
    <3> QED
      BY <3>3, <3>5 DEF Screen, Owners, Queues
  <2>2. EventCapacity \in Nat /\ Len(<<>>) = 0
    BY DEF WindowsAssumption
  <2>3. \A v \in Window : Len(a.queue[v]) <= EventCapacity
    BY <1>1, <1>5, <2>2, ScreenFields
  <2> QED
    BY <2>1, <2>3 DEF Sized
<1>7. Stacked(a)
  <2>1. \A v \in Window : Listed(a.stack, v) <=> a.owner[v] # NoProgram
    BY <1>1, <1>3, <1>5, ScreenFields DEF Stacked
  <2> QED
    BY <1>1, <1>3, <1>5, <2>1 DEF Stacked
<1>8. /\ \A v \in Window : v # w => (Focusable(a, v) <=> Focusable(s, v))
      /\ ~Focusable(a, w)
  BY <1>1, <1>5, ScreenFields DEF Focusable, Exists
<1>9. Pointed(a)
  BY <1>1, <1>5, ScreenFields DEF Pointed, Shown, Exists, Unless
<1>10. PICK p : p = IF s.focused = w THEN TransferFocus(a, TopmostFocusable(a)) ELSE a
  OBVIOUS
<1>11. Good(p) /\ Alike(a, p)
  <2>1. CASE s.focused = w
    BY <1>6, <1>7, <1>9, <1>10, <2>1, TopmostIs, FocusSettles
  <2>2. CASE s.focused # w
    <3>1. TopOf(a, s.focused)
      BY <1>1, <1>3, <1>5, <1>8, <2>2 DEF TopOf
    <3>2. a.focused = s.focused
      BY <1>5, <2>2 DEF Unless
    <3> QED
      BY <1>6, <1>7, <1>9, <1>10, <2>2, <3>1, <3>2 DEF Good, Alike
  <2> QED
    BY <2>1, <2>2
<1>12. PICK n : n = IF s.layer[w] = Normal THEN NotifyRoots(p, "windows") ELSE p
  OBVIOUS
<1>13. Good(n) /\ Alike(p, n)
  BY <1>11, <1>12, NotifyKeeps DEF Alike
<1>14. t = [n EXCEPT !.layer[w] = Normal, !.minimised[w] = FALSE, !.full[w] = FALSE]
  BY <1>2, <1>4, <1>10, <1>12 DEF WindowDestroy
<1>15. n \in Sized /\ Stacked(n) /\ Pointed(n) /\ TopOf(n, n.focused)
  BY <1>13 DEF Good
<1>16. /\ t.owner = n.owner /\ t.layer = [n.layer EXCEPT ![w] = Normal]
       /\ t.minimised = [n.minimised EXCEPT ![w] = FALSE]
       /\ t.full = [n.full EXCEPT ![w] = FALSE] /\ t.stack = n.stack
       /\ t.grabbed = n.grabbed /\ t.dragged = n.dragged /\ t.focused = n.focused
       /\ t \in Sized
  <2>1. /\ [n.layer EXCEPT ![w] = Normal] \in Layers
        /\ [n.minimised EXCEPT ![w] = FALSE] \in Flags /\ [n.full EXCEPT ![w] = FALSE] \in Flags
    BY <1>15, ScreenFields DEF Layers, LayerKinds, Flags
  <2>2. n \in Screen /\ \A v \in Window : Len(n.queue[v]) <= EventCapacity
    BY <1>15 DEF Sized
  <2>3. /\ t \in Screen /\ t.owner = n.owner /\ t.layer = [n.layer EXCEPT ![w] = Normal]
        /\ t.minimised = [n.minimised EXCEPT ![w] = FALSE]
        /\ t.full = [n.full EXCEPT ![w] = FALSE] /\ t.stack = n.stack /\ t.queue = n.queue
        /\ t.grabbed = n.grabbed /\ t.dragged = n.dragged /\ t.focused = n.focused
    <3>1. PICK l \in Layers, m \in Flags, f \in Flags :
             /\ l = [n.layer EXCEPT ![w] = Normal]
             /\ m = [n.minimised EXCEPT ![w] = FALSE] /\ f = [n.full EXCEPT ![w] = FALSE]
      BY <2>1
    <3>2. t = [n EXCEPT !.layer = l, !.minimised = m, !.full = f]
      BY <1>14, <3>1
    <3>3. n \in Screen
      BY <2>2
    <3>4. /\ t \in Screen
          /\ t.owner = n.owner /\ t.layer = l /\ t.minimised = m /\ t.full = f /\ t.queue = n.queue
          /\ t.stack = n.stack /\ t.grabbed = n.grabbed /\ t.dragged = n.dragged
          /\ t.focused = n.focused
      BY <3>2, <3>3 DEF Screen, Layers, LayerKinds, Flags
    <3> QED
      BY <3>1, <3>4
  <2> QED
    BY <2>2, <2>3 DEF Sized
<1>17. n.owner = [s.owner EXCEPT ![w] = NoProgram] /\ ~Exists(n, w)
  BY <1>1, <1>5, <1>11, <1>13, ScreenFields DEF Alike, Exists
<1>18. Stacked(t)
  <2>1. \A v, u \in Window : Beneath(n.stack, v, u) => Listed(n.stack, v) /\ Listed(n.stack, u)
    BY DEF Listed, Beneath
  <2>2. ~Listed(n.stack, w)
    BY <1>1, <1>15, <1>17, ScreenFields DEF Stacked
  <2> QED
    BY <1>15, <1>16, <2>1, <2>2, ScreenFields DEF Stacked
<1>19. \A v \in Window : Focusable(t, v) <=> Focusable(n, v)
  BY <1>15, <1>16, <1>17, ScreenFields DEF Focusable, Exists
<1>20. TopOf(t, t.focused)
  BY <1>15, <1>16, <1>19 DEF TopOf
<1>21. Pointed(t)
  BY <1>15, <1>16, <1>17, ScreenFields DEF Pointed, Shown, Exists
<1>22. Good(t)
  BY <1>16, <1>18, <1>20, <1>21 DEF Good
<1> QED
  BY <1>5, <1>11, <1>13, <1>16, <1>17, <1>22 DEF Alike, Unless

(***************************************************************************)
(* WindowDestroyOwnedBy, window by window in the order of the table.       *)
(***************************************************************************)

(* The screens on the way of WindowDestroyOwnedBy through the table.       *)
LEMMA OnTheWay ==
    ASSUME WindowsAssumption, NEW s, NEW c
    PROVE  \E f : /\ f = [w \in 0 .. Slots |-> IF w = 0 THEN s ELSE DestroyIfOwned(f[w - 1], c, w)]
                  /\ DestroyOwnedBy(s, c) = f[Slots]
<1> DEFINE Way(n, f) == f = [w \in 0 .. n |-> IF w = 0 THEN s ELSE DestroyIfOwned(f[w - 1], c, w)]
<1>1. Slots \in Nat
  BY DEF WindowsAssumption
<1>2. Way(0, [w \in 0 .. 0 |-> s])
  OBVIOUS
<1>3. ASSUME NEW n \in Nat \ {0}, NEW f, Way(n - 1, f)
      PROVE  \E g : Way(n, g)
  <2>1. PICK g : g = [w \in 0 .. n |-> IF w = n THEN DestroyIfOwned(f[n - 1], c, n) ELSE f[w]]
    OBVIOUS
  <2>2. n - 1 \in 0 .. n - 1 /\ n - 1 \in 0 .. n /\ n - 1 # n
    OBVIOUS
  <2>3. g[n] = DestroyIfOwned(g[n - 1], c, n)
    BY <2>1, <2>2
  <2>4. \A w \in 0 .. n : w # n => w \in 0 .. n - 1 /\ g[w] = f[w]
    BY <2>1
  <2>5. \A w \in 0 .. n - 1 : f[w] = IF w = 0 THEN s ELSE DestroyIfOwned(f[w - 1], c, w)
    BY <1>3
  <2>6. \A w \in 0 .. n : w # 0 => w - 1 \in 0 .. n /\ w - 1 # n
    OBVIOUS
  <2>7. \A w \in 0 .. n : g[w] = IF w = 0 THEN s ELSE DestroyIfOwned(g[w - 1], c, w)
    <3> TAKE w \in 0 .. n
    <3>1. CASE w = n
      BY <2>3, <3>1
    <3>2. CASE w # n /\ w = 0
      BY <2>4, <2>5, <3>2
    <3>3. CASE w # n /\ w # 0
      <4>1. g[w - 1] = f[w - 1] /\ g[w] = f[w]
        BY <2>4, <2>6, <3>3
      <4> QED
        BY <2>4, <2>5, <3>3, <4>1
    <3> QED
      BY <3>1, <3>2, <3>3
  <2> QED
    BY <2>1, <2>7
<1> HIDE DEF Way
<1>4. \E f : Way(Slots, f)
  <2>1. PICK bad : bad = {n \in Nat : ~ \E f : Way(n, f)}
    OBVIOUS
  <2>2. ASSUME bad # {}
        PROVE  FALSE
    <3>1. PICK n \in bad : \A m \in bad : n <= m
      BY <2>1, <2>2, HasLeast
    <3>2. n # 0 /\ n \in Nat
      BY <1>2, <2>1
    <3>3. n - 1 \in Nat /\ n - 1 \notin bad
      BY <3>1, <3>2
    <3>4. PICK f : Way(n - 1, f)
      BY <2>1, <3>3
    <3> QED
      BY <1>3, <2>1, <3>2, <3>4
  <2> QED
    BY <1>1, <2>1, <2>2
<1>5. PICK f : f = CHOOSE g : Way(Slots, g)
  OBVIOUS
<1>6. Way(Slots, f)
  BY <1>4, <1>5
<1>7. DestroyOwnedBy(s, c) = f[Slots]
  BY <1>5 DEF DestroyOwnedBy, Way
<1> QED
  BY <1>6, <1>7 DEF Way

(* What has become of the owners, once the first n slots were looked at.   *)
OwnersAfter(s, c, n) ==
    [w \in Window |-> IF w <= n /\ s.owner[w] = c THEN NoProgram ELSE s.owner[w]]

(* WindowDestroyOwnedBy leaves none of a program's windows and touches     *)
(* nobody else's.                                                          *)
LEMMA DestroyOwnedByIs ==
    ASSUME WindowsAssumption, NEW s, Good(s), NEW c \in Program, NEW t, t = DestroyOwnedBy(s, c)
    PROVE  /\ Good(t) /\ t.owner = OwnersAfter(s, c, Slots)
           /\ (s.grabbed = None => t.grabbed = None) /\ (s.dragged = None => t.dragged = None)
           /\ (\A w \in Window : s.owner[w] # c) => t = s
<1> DEFINE Fine(n, u) == /\ Good(u) /\ u.owner = OwnersAfter(s, c, n)
                         /\ (s.grabbed = None => u.grabbed = None)
                         /\ (s.dragged = None => u.dragged = None)
                         /\ (\A w \in Window : s.owner[w] # c) => u = s
<1>1. PICK f : /\ f = [w \in 0 .. Slots |-> IF w = 0 THEN s ELSE DestroyIfOwned(f[w - 1], c, w)]
               /\ t = f[Slots]
  BY OnTheWay
<1>2. Slots \in Nat /\ s \in Sized
  BY DEF WindowsAssumption, Good
<1>3. f[0] = s
  BY <1>1, <1>2
<1>4. Fine(0, s)
  <2>1. OwnersAfter(s, c, 0) = s.owner
    BY <1>2, ScreenFields DEF OwnersAfter, Window
  <2> QED
    BY <2>1
<1>5. ASSUME NEW n \in 1 .. Slots, NEW u, Fine(n - 1, u)
      PROVE  Fine(n, DestroyIfOwned(u, c, n))
  <2>1. n \in Window
    BY DEF Window
  <2>2. u.owner[n] = s.owner[n]
    BY <1>2, <1>5, <2>1 DEF OwnersAfter
  <2>3. CASE s.owner[n] # c
    <3>1. OwnersAfter(s, c, n) = OwnersAfter(s, c, n - 1)
      <4>1. \A w \in Window : w <= n /\ s.owner[w] = c <=> w <= n - 1 /\ s.owner[w] = c
        BY <2>3 DEF Window
      <4> QED
        BY <4>1 DEF OwnersAfter
    <3>2. DestroyIfOwned(u, c, n) = u
      BY <2>2, <2>3 DEF DestroyIfOwned
    <3> QED
      BY <1>5, <3>1, <3>2
  <2>4. CASE s.owner[n] = c
    <3>1. DestroyIfOwned(u, c, n) = WindowDestroy(u, n)
      BY <2>2, <2>4 DEF DestroyIfOwned
    <3>2. Exists(u, n)
      BY <2>1, <2>2, <2>4, WindowIsSome DEF Exists, WindowsAssumption
    <3>3. /\ Good(WindowDestroy(u, n)) /\ WindowDestroy(u, n).owner = [u.owner EXCEPT ![n] = NoProgram]
          /\ (u.grabbed = None => WindowDestroy(u, n).grabbed = None)
          /\ (u.dragged = None => WindowDestroy(u, n).dragged = None)
      BY <1>5, <2>1, <3>2, DestroyKeeps
    <3>4. [u.owner EXCEPT ![n] = NoProgram] = OwnersAfter(s, c, n)
      <4>1. \A w \in Window : w # n => (w <= n <=> w <= n - 1)
        BY DEF Window
      <4>2. u.owner = OwnersAfter(s, c, n - 1)
        BY <1>5
      <4>3. n <= n
        OBVIOUS
      <4> QED
        BY <2>1, <2>4, <4>1, <4>2, <4>3 DEF OwnersAfter
    <3> QED
      BY <1>5, <2>1, <2>4, <3>1, <3>3, <3>4
  <2> QED
    BY <2>3, <2>4
<1> HIDE DEF Fine
<1>6. \A n \in 0 .. Slots : Fine(n, f[n])
  <2>1. PICK bad : bad = {n \in Nat : n <= Slots /\ ~Fine(n, f[n])}
    OBVIOUS
  <2>2. ASSUME bad # {}
        PROVE  FALSE
    <3>1. PICK n \in bad : \A m \in bad : n <= m
      BY <2>1, <2>2, HasLeast
    <3>2. n # 0 /\ n \in 1 .. Slots
      BY <1>2, <1>3, <1>4, <2>1
    <3>3. n - 1 \in Nat /\ n - 1 \notin bad /\ n - 1 <= Slots
      BY <1>2, <3>1, <3>2
    <3>4. Fine(n - 1, f[n - 1])
      BY <2>1, <3>3
    <3>5. f[n] = DestroyIfOwned(f[n - 1], c, n)
      BY <1>1, <1>2, <3>2
    <3> QED
      BY <1>5, <2>1, <3>2, <3>4, <3>5
  <2> QED
    BY <1>2, <2>1, <2>2
<1>7. Fine(Slots, t)
  BY <1>1, <1>2, <1>6
<1> QED
  BY <1>7 DEF Fine

(***************************************************************************)
(* The pointer.                                                            *)
(***************************************************************************)

(* Letting go of the pointer.                                              *)
LEMMA LetGoKeeps ==
    ASSUME NEW s, Good(s)
    PROVE  /\ Good([s EXCEPT !.dragged = None]) /\ [s EXCEPT !.dragged = None].owner = s.owner
           /\ [s EXCEPT !.dragged = None].dragged = None
           /\ [s EXCEPT !.dragged = None].grabbed = s.grabbed
           /\ Good([s EXCEPT !.grabbed = None]) /\ [s EXCEPT !.grabbed = None].owner = s.owner
           /\ [s EXCEPT !.grabbed = None].grabbed = None
           /\ [s EXCEPT !.grabbed = None].dragged = s.dragged
<1>1. s \in Sized /\ Stacked(s) /\ Pointed(s) /\ TopOf(s, s.focused)
  BY DEF Good
<1>2. ASSUME NEW t, t = [s EXCEPT !.dragged = None]
      PROVE  Good(t) /\ t.owner = s.owner /\ t.dragged = None /\ t.grabbed = s.grabbed
  <2>1. /\ t.owner = s.owner /\ t.layer = s.layer /\ t.minimised = s.minimised /\ t.full = s.full
        /\ t.stack = s.stack /\ t.focused = s.focused /\ t.grabbed = s.grabbed
        /\ t.dragged = None /\ t \in Sized
    BY <1>1, <1>2 DEF Sized, Screen
  <2>2. Stacked(t) /\ TopOf(t, t.focused)
    BY <1>1, <2>1 DEF Stacked, TopOf, Focusable, Exists
  <2>3. Pointed(t)
    BY <1>1, <2>1 DEF Pointed, Shown, Exists
  <2> QED
    BY <2>1, <2>2, <2>3 DEF Good
<1>3. ASSUME NEW t, t = [s EXCEPT !.grabbed = None]
      PROVE  Good(t) /\ t.owner = s.owner /\ t.grabbed = None /\ t.dragged = s.dragged
  <2>1. /\ t.owner = s.owner /\ t.layer = s.layer /\ t.minimised = s.minimised /\ t.full = s.full
        /\ t.stack = s.stack /\ t.focused = s.focused /\ t.dragged = s.dragged
        /\ t.grabbed = None /\ t \in Sized
    BY <1>1, <1>3 DEF Sized, Screen
  <2>2. Stacked(t) /\ TopOf(t, t.focused)
    BY <1>1, <2>1 DEF Stacked, TopOf, Focusable, Exists
  <2>3. Pointed(t)
    BY <1>1, <2>1 DEF Pointed, Shown, Exists
  <2> QED
    BY <2>1, <2>2, <2>3 DEF Good
<1> QED
  BY <1>2, <1>3

(* A press binds the pointer to the window under it.                       *)
LEMMA BindKeeps ==
    ASSUME NEW s, Good(s), NEW w \in Shown(s), s.grabbed = None, s.dragged = None
    PROVE  /\ Good([s EXCEPT !.grabbed = w]) /\ [s EXCEPT !.grabbed = w].owner = s.owner
           /\ ~s.full[w] => Good([s EXCEPT !.dragged = w]) /\ [s EXCEPT !.dragged = w].owner = s.owner
<1>1. s \in Sized /\ Stacked(s) /\ Pointed(s) /\ TopOf(s, s.focused) /\ w \in Window
  BY DEF Good, Shown
<1>2. ASSUME NEW t, t = [s EXCEPT !.grabbed = w]
      PROVE  Good(t) /\ t.owner = s.owner
  <2>1. /\ t.owner = s.owner /\ t.layer = s.layer /\ t.minimised = s.minimised /\ t.full = s.full
        /\ t.stack = s.stack /\ t.focused = s.focused /\ t.dragged = None
        /\ t.grabbed = w /\ t \in Sized
    BY <1>1, <1>2 DEF Sized, Screen
  <2>2. Stacked(t) /\ TopOf(t, t.focused)
    BY <1>1, <2>1 DEF Stacked, TopOf, Focusable, Exists
  <2>3. Pointed(t)
    BY <1>1, <2>1 DEF Pointed, Shown, Exists
  <2> QED
    BY <2>1, <2>2, <2>3 DEF Good
<1>3. ASSUME ~s.full[w], NEW t, t = [s EXCEPT !.dragged = w]
      PROVE  Good(t) /\ t.owner = s.owner
  <2>1. /\ t.owner = s.owner /\ t.layer = s.layer /\ t.minimised = s.minimised /\ t.full = s.full
        /\ t.stack = s.stack /\ t.focused = s.focused /\ t.dragged = w
        /\ t.grabbed = None /\ t \in Sized
    BY <1>1, <1>3 DEF Sized, Screen
  <2>2. Stacked(t) /\ TopOf(t, t.focused)
    BY <1>1, <2>1 DEF Stacked, TopOf, Focusable, Exists
  <2>3. Pointed(t)
    BY <1>1, <1>3, <2>1 DEF Pointed, Shown, Exists
  <2> QED
    BY <2>1, <2>2, <2>3 DEF Good
<1> QED
  BY <1>2, <1>3

(* WindowBeginPress upon each of the window's parts.                       *)
LEMMA BeginPressKeeps ==
    ASSUME WindowsAssumption, NEW s, Good(s), NEW w \in Shown(s), NEW part \in Part,
           NEW room \in BOOLEAN, s.layer[w] # Normal => part = "content",
           s.grabbed = None, s.dragged = None, NEW t, t = BeginPress(s, w, part, room)
    PROVE  Good(t) /\ t.owner = s.owner
<1>1. w \in Window /\ Exists(s, w) /\ ~s.minimised[w]
  BY DEF Shown
<1>2. s \in Sized /\ Stacked(s) /\ Pointed(s)
  BY DEF Good
<1>3. PICK up : up = IF s.layer[w] = RootLayer THEN s ELSE WindowRaise(s, w)
  OBVIOUS
<1>4. PICK fd : fd = IF s.layer[w] = Normal THEN TransferFocus(up, w) ELSE up
  OBVIOUS
<1>5. /\ Good(fd) /\ fd.owner = s.owner /\ fd.layer = s.layer /\ fd.minimised = s.minimised
      /\ fd.full = s.full /\ fd.grabbed = None /\ fd.dragged = None
  <2>1. CASE s.layer[w] = Normal
    <3>1. Focusable(s, w)
      BY <1>1, <2>1 DEF Focusable
    <3>2. fd = TransferFocus(WindowRaise(s, w), w)
      BY <1>3, <1>4, <2>1 DEF Normal, RootLayer
    <3> QED
      BY <1>1, <1>2, <3>1, <3>2, RaiseFocuses
  <2>2. CASE s.layer[w] # Normal /\ s.layer[w] # RootLayer
    BY <1>1, <1>3, <1>4, <2>2, RaiseKeeps DEF Restacked
  <2>3. CASE s.layer[w] = RootLayer
    BY <1>3, <1>4, <2>3 DEF Normal, RootLayer
  <2> QED
    BY <2>1, <2>2, <2>3
<1>6. w \in Shown(fd) /\ Exists(fd, w)
  BY <1>1, <1>5 DEF Shown, Exists
<1>7. fd.full[w] \in BOOLEAN
  BY <1>1, <1>2, <1>5, ScreenFields
<1>8. CASE part = "close"
  <2>1. t = Enqueue(fd, w, "event")
    BY <1>3, <1>4, <1>8 DEF BeginPress
  <2>2. Good(Enqueue(fd, w, "event")) /\ Alike(fd, Enqueue(fd, w, "event"))
    BY <1>1, <1>5, EnqueueKeeps
  <2> QED
    BY <1>5, <2>1, <2>2 DEF Alike
<1>9. CASE part = "full"
  <2>1. t = IF room THEN WindowSetFull(fd, w, ~fd.full[w]) ELSE fd
    BY <1>3, <1>4, <1>9 DEF BeginPress
  <2>2. PICK full \in BOOLEAN : full = ~fd.full[w]
    BY <1>7
  <2>3. Good(WindowSetFull(fd, w, full)) /\ WindowSetFull(fd, w, full).owner = fd.owner
    BY <1>1, <1>5, <1>6, SetFullKeeps
  <2> QED
    BY <1>5, <2>1, <2>2, <2>3, Zenon
<1>10. CASE part = "minimise"
  <2>1. t = WindowMinimise(fd, w)
    BY <1>3, <1>4, <1>10 DEF BeginPress
  <2>2. Good(WindowMinimise(fd, w)) /\ WindowMinimise(fd, w).owner = fd.owner
    BY <1>1, <1>5, <1>6, MinimiseKeeps
  <2> QED
    BY <1>5, <2>1, <2>2
<1>11. CASE part = "title"
  <2>1. t = IF fd.full[w] THEN fd ELSE [fd EXCEPT !.dragged = w]
    BY <1>3, <1>4, <1>11 DEF BeginPress
  <2>2. ~fd.full[w] => Good([fd EXCEPT !.dragged = w]) /\ [fd EXCEPT !.dragged = w].owner = fd.owner
    BY <1>5, <1>6, BindKeeps
  <2>3. CASE fd.full[w]
    BY <1>5, <2>1, <2>3
  <2>4. CASE ~fd.full[w]
    BY <1>5, <2>1, <2>2, <2>4
  <2> QED
    BY <2>3, <2>4
<1>12. CASE part = "content"
  <2>1. t = Enqueue([fd EXCEPT !.grabbed = w], w, "event")
    BY <1>3, <1>4, <1>12 DEF BeginPress
  <2>2. PICK u : u = [fd EXCEPT !.grabbed = w] /\ Good(u) /\ u.owner = fd.owner
    BY <1>5, <1>6, BindKeeps
  <2>3. Good(Enqueue(u, w, "event")) /\ Alike(u, Enqueue(u, w, "event"))
    BY <1>1, <2>2, EnqueueKeeps
  <2> QED
    BY <1>5, <2>1, <2>2, <2>3 DEF Alike
<1> QED
  BY <1>8, <1>9, <1>10, <1>11, <1>12 DEF Part

(* What a held press reports, and its end with the last button.            *)
LEMMA HeldPressKeeps ==
    ASSUME WindowsAssumption, NEW s, Good(s), NEW moved \in BOOLEAN, NEW pressed, NEW released,
           NEW all, NEW t, t = HeldPress(s, moved, pressed, released, all)
    PROVE  Good(t) /\ t.owner = s.owner /\ t.dragged = s.dragged /\ (all = {} => t.grabbed = None)
<1> DEFINE Told(u, happened) == IF happened THEN Enqueue(u, s.grabbed, "event") ELSE u
<1>1. PICK g \in Window \cup {None} : g = s.grabbed
  <2>1. s \in Sized
    BY DEF Good
  <2> QED
    BY <2>1, ScreenFields
<1>2. ASSUME NEW u, Good(u), NEW happened
      PROVE  Good(Told(u, happened)) /\ Alike(u, Told(u, happened))
  <2>1. CASE happened
    <3>1. Good(Enqueue(u, g, "event")) /\ Alike(u, Enqueue(u, g, "event"))
      BY <1>2, EnqueueKeeps
    <3> QED
      BY <1>1, <2>1, <3>1
  <2>2. CASE ~happened
    BY <1>2, <2>2 DEF Alike
  <2> QED
    BY <2>1, <2>2
<1>3. PICK told : told = Told(Told(Told(s, moved), pressed # {}), released # {})
  OBVIOUS
<1>4. t = IF all = {} THEN [told EXCEPT !.grabbed = None] ELSE told
  BY <1>3 DEF HeldPress
<1> HIDE DEF Told
<1>5. Good(told) /\ Alike(s, told)
  BY <1>2, <1>3, AlikeChain
<1>6. told.owner = s.owner /\ told.dragged = s.dragged
  BY <1>5 DEF Alike
<1>7. CASE all = {}
  BY <1>4, <1>5, <1>6, <1>7, LetGoKeeps
<1> QED
  BY <1>4, <1>5, <1>6, <1>7

(***************************************************************************)
(* The steps of the desktop.                                               *)
(***************************************************************************)

(* The types of the rest of the state.                                     *)
Rest ==
    /\ buttons \subseteq Button /\ session \in Program \cup {NoProgram}
    /\ posted \in 0 .. Notices /\ programs \subseteq Program
    /\ awaits \in [Program -> SUBSET Window]

(* With no button held, the pointer is bound to nothing.                   *)
Released == buttons = {} => screen.grabbed = None /\ screen.dragged = None

(* The inductive invariant.                                                *)
WindowsInv == Good(screen) /\ Rest /\ Released /\ SleepersHaveNothing

(* Everybody awake has nothing to wait for.                                *)
LEMMA AllAwake ==
    ASSUME awaits' = WokenAll
    PROVE  SleepersHaveNothing' /\ awaits' \in [Program -> SUBSET Window]
  BY DEF WokenAll, SleepersHaveNothing

(* Input routed at a tick wakes the sleepers or leaves the queues alone.   *)
LEMMA RoutedKeeps ==
    ASSUME Rest, SleepersHaveNothing, awaits' = Routed(screen, screen'), screen'.owner = screen.owner
    PROVE  SleepersHaveNothing' /\ awaits' \in [Program -> SUBSET Window]
<1>1. CASE screen'.queue = screen.queue
  BY <1>1 DEF Routed, Rest, SleepersHaveNothing
<1>2. CASE screen'.queue # screen.queue
  BY <1>2, AllAwake DEF Routed
<1> QED
  BY <1>1, <1>2

(* Mouse input.                                                            *)
LEMMA HandleMouseKeeps ==
    ASSUME WindowsAssumption, WindowsInv, NEW all \in SUBSET Button, NEW moved \in BOOLEAN,
           HandleMouse(all, moved)
    PROVE  WindowsInv'
<1> DEFINE pressed == all \ buttons
           released == buttons \ all
<1>1. /\ buttons' = all /\ awaits' = Routed(screen, screen')
      /\ UNCHANGED <<session, posted, programs>>
  BY DEF HandleMouse
<1>2. Good(screen) /\ Pointed(screen)
  BY DEF WindowsInv, Good
<1>3. Good(screen') /\ screen'.owner = screen.owner /\ Released'
  <2>1. CASE /\ screen.dragged # None
             /\ screen' = IF all = {} THEN [screen EXCEPT !.dragged = None] ELSE screen
    <3>1. screen.grabbed = None
      BY <1>2, <2>1 DEF Pointed
    <3> QED
      BY <1>1, <1>2, <2>1, <3>1, LetGoKeeps DEF Released
  <2>2. CASE /\ screen.dragged = None /\ screen.grabbed # None
             /\ screen' = HeldPress(screen, moved, pressed, released, all)
    BY <1>1, <1>2, <2>2, HeldPressKeeps DEF Released
  <2>3. CASE /\ screen.dragged = None /\ screen.grabbed = None /\ pressed # {}
             /\ \/ \E w \in Shown(screen), part \in Part, room \in BOOLEAN :
                      /\ screen.layer[w] # Normal => part = "content"
                      /\ screen' = BeginPress(screen, w, part, room)
                \/ UNCHANGED screen
    <3>1. all # {}
      BY <2>3
    <3>2. CASE UNCHANGED screen
      BY <1>1, <1>2, <3>1, <3>2 DEF Released
    <3>3. ASSUME NEW w \in Shown(screen), NEW part \in Part, NEW room \in BOOLEAN,
                 screen.layer[w] # Normal => part = "content",
                 screen' = BeginPress(screen, w, part, room)
          PROVE  Good(screen') /\ screen'.owner = screen.owner
      BY <1>2, <2>3, <3>3, BeginPressKeeps
    <3> QED
      BY <1>1, <2>3, <3>1, <3>2, <3>3 DEF Released
  <2>4. CASE /\ screen.dragged = None /\ screen.grabbed = None /\ UNCHANGED screen
    BY <1>2, <2>4 DEF Released
  <2>5. CASE /\ screen.dragged = None /\ screen.grabbed = None
             /\ \E w \in Shown(screen) : screen' = Enqueue(screen, w, "event")
    <3>1. PICK w \in Window : screen' = Enqueue(screen, w, "event")
      BY <2>5 DEF Shown
    <3>2. Good(Enqueue(screen, w, "event")) /\ Alike(screen, Enqueue(screen, w, "event"))
      BY <1>2, EnqueueKeeps
    <3> QED
      BY <2>5, <3>1, <3>2 DEF Released, Alike
  <2> QED
    BY <2>1, <2>2, <2>3, <2>4, <2>5 DEF HandleMouse
<1>4. SleepersHaveNothing' /\ awaits' \in [Program -> SUBSET Window]
  BY <1>1, <1>3, RoutedKeeps DEF WindowsInv
<1> QED
  BY <1>1, <1>3, <1>4 DEF WindowsInv, Rest

(* A key.                                                                  *)
LEMMA HandleKeyKeeps ==
    ASSUME WindowsAssumption, WindowsInv, HandleKey
    PROVE  WindowsInv'
<1>1. Good(screen) /\ screen \in Sized
  BY DEF WindowsInv, Good
<1>2. PICK f \in Window \cup {None} : f = screen.focused
  BY <1>1, ScreenFields
<1>3. Good(Enqueue(screen, f, "event")) /\ Alike(screen, Enqueue(screen, f, "event"))
  BY <1>1, EnqueueKeeps
<1>4. Good(screen') /\ Alike(screen, screen')
  BY <1>2, <1>3 DEF HandleKey
<1>5. SleepersHaveNothing' /\ awaits' \in [Program -> SUBSET Window]
  BY <1>4, RoutedKeeps DEF WindowsInv, HandleKey, Alike
<1> QED
  BY <1>4, <1>5 DEF WindowsInv, Rest, Released, HandleKey, Alike

(* A window opened.                                                        *)
LEMMA ClientCreateKeeps ==
    ASSUME WindowsAssumption, WindowsInv, NEW c \in Program,
           NEW layer \in {RootLayer, Normal, Panel}, ClientCreate(c, layer)
    PROVE  WindowsInv'
<1>1. PICK free : free = {w \in Window : screen.owner[w] = NoProgram} /\ free # {}
  BY DEF ClientCreate
<1>2. PICK w \in free : w = CHOOSE x \in free : \A v \in free : x <= v
  <2>1. free \subseteq Nat
    BY <1>1 DEF Window
  <2>2. \E x \in free : \A v \in free : x <= v
    BY <1>1, <2>1, HasLeast
  <2> QED
    BY <2>2
<1>3. screen' = WindowCreate(screen, w, c, layer)
  BY <1>1, <1>2 DEF ClientCreate
<1>4. w \in Window /\ screen.owner[w] = NoProgram /\ Good(screen)
  BY <1>1 DEF WindowsInv
<1>5. Good(screen') /\ screen'.grabbed = screen.grabbed /\ screen'.dragged = screen.dragged
  <2>1. PICK s : s = screen
    OBVIOUS
  <2>2. w \in Window /\ s.owner[w] = NoProgram /\ Good(s)
    BY <1>4, <2>1
  <2>4. layer \in LayerKinds
    BY DEF LayerKinds
  <2>3. /\ Good(WindowCreate(s, w, c, layer))
        /\ WindowCreate(s, w, c, layer).grabbed = s.grabbed
        /\ WindowCreate(s, w, c, layer).dragged = s.dragged
    BY <2>2, <2>4, CreateKeeps
  <2> QED
    BY <1>3, <2>1, <2>3
<1>6. SleepersHaveNothing' /\ awaits' \in [Program -> SUBSET Window]
  BY AllAwake DEF ClientCreate
<1> QED
  BY <1>5, <1>6 DEF WindowsInv, Rest, Released, ClientCreate

(* A window closed.                                                        *)
LEMMA ClientDestroyKeeps ==
    ASSUME WindowsAssumption, WindowsInv, NEW c \in Program, NEW w \in Window, ClientDestroy(c, w)
    PROVE  WindowsInv'
<1>1. Exists(screen, w) /\ Good(screen)
  BY WindowIsSome DEF ClientDestroy, WindowsOf, Exists, WindowsAssumption, WindowsInv
<1>2. screen' = WindowDestroy(screen, w)
  BY DEF ClientDestroy
<1>3. /\ Good(screen') /\ (screen.grabbed = None => screen'.grabbed = None)
      /\ (screen.dragged = None => screen'.dragged = None)
  <2>1. PICK s : s = screen
    OBVIOUS
  <2>2. Exists(s, w) /\ Good(s)
    BY <1>1, <2>1
  <2>3. /\ Good(WindowDestroy(s, w))
        /\ (s.grabbed = None => WindowDestroy(s, w).grabbed = None)
        /\ (s.dragged = None => WindowDestroy(s, w).dragged = None)
    BY <2>2, DestroyKeeps, ZenonT(40)
  <2> QED
    BY <1>2, <2>1, <2>3
<1>4. SleepersHaveNothing' /\ awaits' \in [Program -> SUBSET Window]
  BY AllAwake DEF ClientDestroy
<1> QED
  BY <1>3, <1>4 DEF WindowsInv, Rest, Released, ClientDestroy

(* A window minimised, restored, or made to fill the screen or not.        *)
LEMMA ClientStateKeeps ==
    ASSUME WindowsAssumption, WindowsInv, NEW c \in Program, NEW w \in Window, ClientState(c, w)
    PROVE  WindowsInv'
<1>1. Exists(screen, w) /\ screen.layer[w] = Normal /\ Good(screen)
  BY DEF ClientState, WindowsInv
<1>2. /\ Good(screen') /\ (screen.grabbed = None => screen'.grabbed = None)
      /\ (screen.dragged = None => screen'.dragged = None)
  <2>1. CASE screen' = WindowMinimise(screen, w)
    BY <1>1, <2>1, MinimiseKeeps
  <2>2. CASE screen' = WindowRestore(screen, w)
    BY <1>1, <2>2, RestoreKeeps
  <2>3. ASSUME NEW full \in BOOLEAN, screen' = WindowSetFull(screen, w, full)
        PROVE  /\ Good(screen') /\ screen'.grabbed = screen.grabbed
               /\ (screen.dragged = None => screen'.dragged = None)
    BY <1>1, <2>3, SetFullKeeps
  <2> QED
    BY <2>1, <2>2, <2>3 DEF ClientState
<1>3. SleepersHaveNothing' /\ awaits' \in [Program -> SUBSET Window]
  BY AllAwake DEF ClientState
<1> QED
  BY <1>2, <1>3 DEF WindowsInv, Rest, Released, ClientState

(* An event taken: the queue was not empty, so nobody sleeps over it.      *)
LEMMA ClientTakesKeeps ==
    ASSUME WindowsAssumption, WindowsInv, NEW c \in Program, NEW w \in Window, ClientTakes(c, w)
    PROVE  WindowsInv'
<1>1. Good(screen) /\ screen \in Sized
  BY DEF WindowsInv, Good
<1>2. PICK q : q = [screen.queue EXCEPT ![w] = Tail(@)]
  OBVIOUS
<1>3. screen' = [screen EXCEPT !.queue = q]
  BY <1>2 DEF ClientTakes
<1>4. PICK p \in Seq({"event", "windows", "notify"}) :
         p = screen.queue[w] /\ p # <<>> /\ Len(p) <= EventCapacity
  BY <1>1, ScreenFields DEF ClientTakes
<1>5. /\ Tail(p) \in Seq({"event", "windows", "notify"}) /\ Len(Tail(p)) = Len(p) - 1
      /\ Len(p) \in Nat /\ EventCapacity \in Nat
  BY <1>4 DEF WindowsAssumption
<1>6. Len(Tail(p)) <= EventCapacity
  BY <1>4, <1>5
<1>7. q = [screen.queue EXCEPT ![w] = Tail(p)]
  BY <1>2, <1>4
<1>8. q \in [Window -> Seq({"event", "windows", "notify"})]
  BY <1>1, <1>5, <1>7, ScreenFields
<1>9. \A v \in Window : Len(q[v]) <= EventCapacity
  BY <1>1, <1>6, <1>7, ScreenFields
<1>10. /\ screen' \in Sized /\ Alike(screen, screen') /\ screen'.focused = screen.focused
       /\ screen'.queue = q
  BY <1>1, <1>3, <1>8, <1>9, NewQueues
<1>11. Good(screen')
  BY <1>1, <1>10, AlikeKeeps DEF Good
<1>12. SleepersHaveNothing'
  <2>1. /\ UNCHANGED awaits /\ awaits[c] = {} /\ screen.owner[w] = c
        /\ screen'.owner = screen.owner
    BY <1>10 DEF ClientTakes, Calls, WindowsOf, Alike
  <2>2. \A d \in Program : \A v \in awaits[d] : v # w /\ v \in Window
    BY <2>1 DEF WindowsInv, SleepersHaveNothing, Rest
  <2>3. \A d \in Program : \A v \in awaits[d] : screen'.queue[v] = screen.queue[v]
    BY <1>1, <1>7, <1>10, <2>2, ScreenFields
  <2> QED
    BY <2>1, <2>3 DEF WindowsInv, SleepersHaveNothing
<1> QED
  BY <1>10, <1>11, <1>12 DEF WindowsInv, Rest, Released, ClientTakes, Alike

(* A sleep, over queues that are empty and the caller's own.               *)
LEMMA ClientSleepsKeeps ==
    ASSUME WindowsAssumption, WindowsInv, NEW c \in Program, NEW W, ClientSleeps(c, W)
    PROVE  WindowsInv'
<1>1. /\ UNCHANGED <<screen, buttons, session, posted, programs>>
      /\ awaits' = [awaits EXCEPT ![c] = W] /\ W \subseteq Window
      /\ \A w \in W : screen.owner[w] = c /\ screen.queue[w] = <<>>
  BY DEF ClientSleeps, WindowsOf
<1>2. awaits' \in [Program -> SUBSET Window]
  BY <1>1 DEF WindowsInv, Rest
<1>3. SleepersHaveNothing'
  BY <1>1 DEF WindowsInv, Rest, SleepersHaveNothing
<1> QED
  BY <1>1, <1>2, <1>3 DEF WindowsInv, Rest, Released

(* A program's ending: its own sleep is over, and the others are woken     *)
(* where it had windows.                                                   *)
LEMMA ProgramExitKeeps ==
    ASSUME WindowsAssumption, WindowsInv, NEW c \in Program, ProgramExit(c)
    PROVE  WindowsInv'
<1>1. /\ programs' = programs \ {c} /\ session' = (IF session = c THEN NoProgram ELSE session)
      /\ screen' = DestroyOwnedBy(screen, c) /\ UNCHANGED <<buttons, posted>>
      /\ awaits' = IF WindowsOf(c) # {} THEN WokenAll ELSE [awaits EXCEPT ![c] = {}]
  BY DEF ProgramExit
<1>2. Good(screen) /\ screen \in Sized /\ awaits \in [Program -> SUBSET Window]
  BY DEF WindowsInv, Good, Rest
<1>3. /\ Good(screen') /\ (screen.grabbed = None => screen'.grabbed = None)
      /\ (screen.dragged = None => screen'.dragged = None)
      /\ (\A w \in Window : screen.owner[w] # c) => screen' = screen
  BY <1>1, <1>2, DestroyOwnedByIs
<1>4. SleepersHaveNothing' /\ awaits' \in [Program -> SUBSET Window]
  <2>1. CASE WindowsOf(c) # {}
    BY <1>1, <2>1, AllAwake
  <2>2. CASE WindowsOf(c) = {}
    <3>1. screen' = screen
      BY <1>3, <2>2 DEF WindowsOf
    <3>2. awaits' = [awaits EXCEPT ![c] = {}]
      BY <1>1, <2>2
    <3> QED
      BY <1>2, <3>1, <3>2 DEF WindowsInv, SleepersHaveNothing
  <2> QED
    BY <2>1, <2>2
<1> QED
  BY <1>1, <1>3, <1>4 DEF WindowsInv, Rest, Released

(* The calls that touch neither the stack nor the focus.                   *)
LEMMA OtherCallsKeep ==
    ASSUME WindowsAssumption, WindowsInv, NEW c \in Program,
           \/ ClientInterrupted(c) \/ ClaimSession(c) \/ ClientNotify(c)
           \/ TakeNotification(c) \/ Start(c)
    PROVE  WindowsInv'
<1>1. CASE ClientInterrupted(c)
  BY <1>1 DEF ClientInterrupted, WindowsInv, Rest, Released, SleepersHaveNothing
<1>2. CASE ClaimSession(c)
  BY <1>2 DEF ClaimSession, WindowsInv, Rest, Released, SleepersHaveNothing
<1>3. CASE ClientNotify(c)
  <2>1. posted' \in 0 .. Notices
    BY <1>3 DEF ClientNotify, WindowsInv, Rest, WindowsAssumption
  <2>2. Good(screen') /\ Alike(screen, screen')
    BY <1>3, NotifyKeeps DEF ClientNotify, WindowsInv
  <2>3. SleepersHaveNothing' /\ awaits' \in [Program -> SUBSET Window]
    BY <1>3, AllAwake DEF ClientNotify
  <2> QED
    BY <1>3, <2>1, <2>2, <2>3 DEF ClientNotify, WindowsInv, Rest, Released, Alike
<1>4. CASE TakeNotification(c)
  <2>1. posted' \in 0 .. Notices
    BY <1>4 DEF TakeNotification, WindowsInv, Rest, WindowsAssumption
  <2> QED
    BY <1>4, <2>1 DEF TakeNotification, WindowsInv, Rest, Released, SleepersHaveNothing
<1>5. CASE Start(c)
  BY <1>5 DEF Start, WindowsInv, Rest, Released, SleepersHaveNothing
<1> QED
  BY <1>1, <1>2, <1>3, <1>4, <1>5

(***************************************************************************)
(* The theorems about the window manager.                                  *)
(***************************************************************************)

(* The boot.                                                               *)
LEMMA WindowsStart ==
    ASSUME WindowsAssumption, WindowsInit
    PROVE  WindowsInv
<1>1. /\ screen.owner = [w \in Window |-> NoProgram] /\ screen.stack = <<>>
      /\ screen.focused = None /\ screen.grabbed = None /\ screen.dragged = None
      /\ screen.queue = [w \in Window |-> <<>>]
  BY DEF WindowsInit
<1>2. screen \in Sized
  <2>1. screen \in Screen
    BY DEF WindowsInit, Screen, Normal
  <2>2. EventCapacity \in Nat /\ Len(<<>>) = 0
    BY DEF WindowsAssumption
  <2> QED
    BY <1>1, <2>1, <2>2 DEF Sized
<1>3. Stacked(screen)
  BY <1>1 DEF Stacked, Listed, Beneath
<1>4. TopOf(screen, screen.focused) /\ Pointed(screen)
  BY <1>1 DEF TopOf, Pointed, Focusable, Exists
<1> QED
  BY <1>1, <1>2, <1>3, <1>4
     DEF WindowsInit, WindowsInv, Good, Rest, Released, SleepersHaveNothing, WokenAll, WindowsAssumption

(* Every step of the window manager.                                       *)
LEMMA WindowsStep ==
    ASSUME WindowsAssumption, WindowsInv, [WindowsNext]_windowVars
    PROVE  WindowsInv'
<1>1. CASE UNCHANGED windowVars
  BY <1>1 DEF windowVars, WindowsInv, Rest, Released, SleepersHaveNothing
<1>2. CASE WindowsNext
  BY <1>2, HandleKeyKeeps, HandleMouseKeeps, ClientCreateKeeps, ClientDestroyKeeps,
     ClientStateKeeps, ClientTakesKeeps, ClientSleepsKeeps, ProgramExitKeeps, OtherCallsKeep
     DEF WindowsNext
<1> QED
  BY <1>1, <1>2

(* The inductive invariant holds at every moment.                          *)
LEMMA WindowsAlways == WindowsSpec => []WindowsInv
<1>1. WindowsInit => WindowsInv
  BY WindowsStart, WindowsAssumption
<1>2. WindowsInv /\ [WindowsNext]_windowVars => WindowsInv'
  BY WindowsStep, WindowsAssumption
<1> QED
  BY <1>1, <1>2, PTL DEF WindowsSpec

(* The manager's tables are what they are declared as, and no queue holds  *)
(* more than its capacity.                                                 *)
THEOREM WindowsTypeCorrect == WindowsSpec => []WindowsTypeOK
<1>1. WindowsInv => WindowsTypeOK
  BY DEF WindowsInv, Good, Sized, Rest, WindowsTypeOK
<1> QED
  BY <1>1, WindowsAlways, PTL

(* Typing goes to the ordinary window on top of those shown, in a stack    *)
(* that names every window once and is ordered by layer (window.c:         *)
(* WindowTransferFocus, WindowStackInsert, WindowTopmostFocusable).        *)
THEOREM FocusIsOnTop == WindowsSpec => []KeysGoToTop
<1>1. WindowsInv => KeysGoToTop
  <2> SUFFICES ASSUME Good(screen) PROVE KeysGoToTop
    BY DEF WindowsInv
  <2>1. PICK list \in Seq(Window) : list = screen.stack
    BY ScreenFields DEF Good
  <2>2. Stacked(screen) /\ TopOf(screen, screen.focused) /\ screen \in Sized
    BY DEF Good
  <2>3. screen.focused = None => \A w \in Shown(screen) : screen.layer[w] # Normal
    BY <2>2 DEF TopOf, Shown, Focusable
  <2>4. screen.focused # None => /\ screen.focused \in Shown(screen)
                                 /\ screen.layer[screen.focused] = Normal
    BY <2>2 DEF TopOf, Shown, Focusable
  <2>5. \A i \in DOMAIN list : list[i] \in Window /\ Exists(screen, list[i])
    BY <2>1, <2>2, WindowIsSome DEF Stacked, Listed, Exists
  <2>6. ASSUME screen.focused # None, NEW i \in DOMAIN list, NEW j \in DOMAIN list,
               list[i] = screen.focused, i < j, screen.layer[list[j]] = Normal
        PROVE  screen.minimised[list[j]]
    <3>1. Beneath(list, screen.focused, list[j])
      BY <2>6 DEF Beneath
    <3> QED
      BY <2>1, <2>2, <2>5, <2>6, <3>1 DEF TopOf, Focusable
  <2>7. ToSet(list) = {w \in Window : Exists(screen, w)}
    BY <2>1, <2>2, <2>5, WindowIsSome DEF ToSet, Stacked, Listed, Exists
  <2>8. ASSUME NEW i \in DOMAIN list, NEW j \in DOMAIN list, i < j
        PROVE  list[i] # list[j] /\ screen.layer[list[i]] <= screen.layer[list[j]]
    <3>1. Beneath(list, list[i], list[j])
      BY <2>8 DEF Beneath
    <3> QED
      BY <2>1, <2>2, <2>5, <3>1 DEF Stacked
  <2> QED
    BY <2>1, <2>3, <2>4, <2>6, <2>7, <2>8 DEF KeysGoToTop
<1> QED
  BY <1>1, WindowsAlways, PTL

(* A held press or a drag binds the pointer to one window that is there    *)
(* and shown, until the last button is released (window.c:                 *)
(* WindowBeginPress, WindowManagerHandleMouse, WindowDestroy,              *)
(* WindowMinimise).                                                        *)
THEOREM PointerStaysBound == WindowsSpec => []PointerBound
<1>1. WindowsInv => PointerBound
  BY DEF WindowsInv, Good, Pointed, Released, PointerBound
<1> QED
  BY <1>1, WindowsAlways, PTL

(* Who sleeps for an event has none waiting: every path that queues one    *)
(* wakes the sleepers (client.c: WindowClientWakeAll, WindowClientEvent).  *)
THEOREM NoneSleepsOverEvents == WindowsSpec => []SleepersHaveNothing
<1>1. WindowsInv => SleepersHaveNothing
  BY DEF WindowsInv
<1> QED
  BY <1>1, WindowsAlways, PTL
=============================================================================
