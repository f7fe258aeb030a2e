-------------------------- MODULE ProcessorsProofs --------------------------
(***************************************************************************)
(* The start of any number of processors, with any number of areas, and    *)
(* the shootdowns of any pages: no two processors use one area, whichever  *)
(* answer late, and no translation outlives its page while none that was   *)
(* given up goes on.  Then the lock between them, and the scheduler, for   *)
(* any number of threads and channels.                                     *)
(***************************************************************************)
EXTENDS Spinlock, Processors, Scheduler, FiniteSetTheorems, TLAPS

OnTheWay == {"answered", "stacked", "entered"}
Handling == {"reads", "invalidated"}
Starts == {"answer", "online"}
Asks == {"sends", "waits"}

(* The processors that have an area.                                       *)
Owners == {p \in Application : stage[p] \in Joined}

(* An area was claimed below the count, and by one processor.              *)
Areas ==
    /\ \A p \in Application : stage[p] \in Joined => expected[p] < established
    /\ AreasApart

(* The loop waits for a processor that is declared.                        *)
InLoop == boot \in Starts => entry \in Application

(* Until one that was given up goes on: one processor at a time is on its  *)
(* way, the one the loop is at; it has claimed its area exactly when the   *)
(* count has passed what was prepared for it.                              *)
Starting ==
    /\ established <= AreaLimit
    /\ \A p \in Application : /\ stage[p] \in OnTheWay => boot \in Starts /\ p = entry
                              /\ stage[p] = "entered" => expected[p] = parameter
                              /\ stage[p] # "parked"
    /\ boot \in Starts =>
          /\ parameter < AreaLimit
          /\ \/ stage[entry] \in {"sent"} \cup OnTheWay /\ established = parameter
             \/ stage[entry] \in Joined /\ established = parameter + 1
    /\ \A p \in Application :
          p > entry \/ (p = entry /\ boot \notin Starts) \/ boot = "panic" => stage[p] = "off"

(* PerCpuEstablishedCount counts the bootstrap processor and the owners.   *)
Counted == boot # "panic" => Cardinality(Owners) = established - 1

(* Only the page of a request under way may be translated and not mapped,  *)
(* and only by another processor than the one that asks.                   *)
Translations ==
    boot # "panic" =>
        /\ \A p \in Application : stage[p] \in {"off", "sent"} => cached[p] = {}
        /\ cached[Bootstrap] \subseteq mapped
        /\ \A p \in Application : \A page \in cached[p] :
              page \in mapped \/ (boot \in Asks /\ page = address)
        /\ boot \in {"starts"} \cup Starts => "trampoline" \in mapped

(* A has answered: what each of it translates is mapped, and all the other *)
(* owners are still counted in ShootdownPending, those included whose      *)
(* controller was not enabled when the request was sent.                   *)
HaveAnswered(A) ==
    /\ A \subseteq Owners
    /\ Cardinality(Owners \ A) = unanswered
    /\ \A p \in A : /\ p \notin interrupts /\ stage[p] = "idle"
                    /\ address \in mapped \/ address \notin cached[p]

Requests ==
    /\ boot = "sends" => unanswered = established - 1
    /\ boot \notin {"waits", "panic"} =>
          interrupts = {} /\ \A p \in Application : stage[p] \notin Handling
    /\ boot = "waits" =>
          /\ \A p \in interrupts : stage[p] \in {"listens", "idle"}
          /\ \A p \in Application : stage[p] = "invalidated" =>
                address \in mapped \/ address \notin cached[p]
          /\ \E A \in SUBSET Application : HaveAnswered(A)

OnTime == Starting /\ Counted /\ Translations /\ Requests

ProcessorsInv == ProcessorsTypeOK /\ InLoop /\ Areas /\ (~late => OnTime)

-----------------------------------------------------------------------------
(* The constants, and the stages told apart.                               *)
LEMMA Constants ==
    /\ Applications \in Nat /\ AreaLimit \in Nat \ {0} /\ "trampoline" \notin Mapping
    /\ Application = 1 .. Applications /\ Bootstrap \notin Application
    /\ Machine = Application \cup {Bootstrap} /\ IsFiniteSet(Application)
<1>1. Applications \in Nat /\ AreaLimit \in Nat \ {0} /\ "trampoline" \notin Mapping
  BY ProcessorsAssumption
<1>2. IsFiniteSet(Application)
  BY <1>1, FS_Interval DEF Application
<1>3. Bootstrap \notin Application
  BY <1>1 DEF Application, Bootstrap
<1> QED
  BY <1>1, <1>2, <1>3 DEF Application, Machine

(* How the stages of an application processor divide.                      *)
LEMMA Stages ==
    /\ Joined = {"claimed", "listens", "idle", "reads", "invalidated"}
    /\ OnTheWay \cap Joined = {} /\ {"off", "sent", "parked"} \cap (OnTheWay \cup Joined) = {}
    /\ Handling \subseteq Listening
    /\ Stage = {"off", "sent", "parked"} \cup OnTheWay \cup Joined
    /\ Listening = {"listens", "idle", "reads", "invalidated"}
BY DEF Joined, Listening, OnTheWay, Handling, Stage, Kernel64

(* Counts of owners.                                                       *)
LEMMA OwnersFinite == Owners \subseteq Application /\ IsFiniteSet(Owners)
BY Constants, FS_Subset DEF Owners

(* While none that was given up goes on, the count is what is online.      *)
LEMMA OnlineIsCount == ProcessorsTypeOK /\ Starting => Online = established
BY Constants DEF ProcessorsTypeOK, Starting, Online

(* The owners and their arguments decide Areas, as the count grows.        *)
LEMMA AreasKept ==
    ASSUME ProcessorsInv, ProcessorsTypeOK', UNCHANGED established,
           \A p \in Application : stage'[p] \in Joined =>
               stage[p] \in Joined /\ expected'[p] = expected[p]
    PROVE  Areas'
BY DEF ProcessorsInv, Areas, AreasApart

(* A halted machine is in the invariant.                                   *)
LEMMA HaltedKeeps ==
    ASSUME ProcessorsInv, Halted, ProcessorsTypeOK', late' = late,
           UNCHANGED <<entry, expected, parameter>>,
           ~late => established' <= AreaLimit
    PROVE  ProcessorsInv'
<1>1. boot' = "panic" /\ \A p \in Application : stage'[p] = "off"
  BY DEF Halted
<1>2. Areas' /\ InLoop'
  BY <1>1, Stages DEF Areas, AreasApart, InLoop, Starts
<1>3. ~late' => Starting'
  BY <1>1, Stages DEF Starting, Starts, OnTheWay
<1>4. Counted' /\ Translations' /\ Requests'
  BY <1>1 DEF Counted, Translations, Requests
<1> QED
  BY <1>2, <1>3, <1>4 DEF ProcessorsInv, OnTime

-----------------------------------------------------------------------------
(* The bootstrap processor.  Passing over a declaration keeps the invariant. *)
LEMMA RefuseKeeps == ProcessorsInv /\ Refuse => ProcessorsInv'
<1> SUFFICES ASSUME ProcessorsInv, Refuse PROVE ProcessorsInv'
  OBVIOUS
<1>1. ProcessorsTypeOK /\ InLoop /\ Areas /\ (~late => OnTime)
  BY DEF ProcessorsInv
<1>2. /\ boot = "starts" /\ entry \in Application /\ entry' = entry + 1
      /\ UNCHANGED <<boot, parameter, acknowledged, established, stage, stack, expected,
                     interrupts, address, unanswered, mapped, cached, late>>
  BY DEF Refuse
<1>3. ProcessorsTypeOK'
  BY <1>1, <1>2, Constants DEF ProcessorsTypeOK
<1>4. Areas' /\ InLoop'
  BY <1>1, <1>2, <1>3, AreasKept DEF InLoop, Starts
<1> SUFFICES ASSUME ~late' PROVE OnTime'
  BY <1>3, <1>4 DEF ProcessorsInv
<1>5. Starting /\ Counted /\ Translations /\ Requests
  BY <1>1, <1>2 DEF OnTime
<1>6. Starting'
  BY <1>2, <1>5, Constants DEF Starting, Starts
<1>7. Counted' /\ Translations' /\ Requests'
  BY <1>2, <1>5 DEF Counted, Owners, Translations, Requests, HaveAnswered
<1> QED
  BY <1>6, <1>7 DEF OnTime

(* Starting the next application processor keeps the invariant.            *)
LEMMA StartProcessorKeeps == ProcessorsInv /\ StartProcessor => ProcessorsInv'
<1> SUFFICES ASSUME ProcessorsInv, StartProcessor PROVE ProcessorsInv'
  OBVIOUS
<1>1. ProcessorsTypeOK /\ InLoop /\ Areas /\ (~late => OnTime)
  BY DEF ProcessorsInv
<1>2. /\ boot = "starts" /\ entry \in Application /\ Online < AreaLimit
      /\ parameter' = Online /\ acknowledged' = FALSE
      /\ stage' = [stage EXCEPT ![entry] = "sent"] /\ boot' = "answer"
      /\ UNCHANGED <<entry, established, stack, expected, interrupts, address, unanswered,
                     mapped, cached, late>>
  BY DEF StartProcessor
<1>3. stage'[entry] = "sent"
      /\ \A p \in Application : p # entry => stage'[p] = stage[p]
  BY <1>1, <1>2 DEF ProcessorsTypeOK
<1>4. ProcessorsTypeOK'
  <2>1. stage' \in [Application -> Stage]
    BY <1>1, <1>2 DEF ProcessorsTypeOK, Stage
  <2>2. parameter' \in 0 .. AreaLimit
    BY <1>1, <1>2, Constants DEF ProcessorsTypeOK, Online
  <2> QED
    BY <1>1, <1>2, <2>1, <2>2 DEF ProcessorsTypeOK
<1>5. Areas' /\ InLoop'
  BY <1>2, <1>3, <1>4, Stages, AreasKept DEF InLoop
<1> SUFFICES ASSUME ~late' PROVE OnTime'
  BY <1>4, <1>5 DEF ProcessorsInv
<1>6. Starting /\ Counted /\ Translations /\ Requests /\ Online = established
  BY <1>1, <1>2, OnlineIsCount DEF OnTime
<1>7. stage[entry] = "off"
  BY <1>2, <1>6 DEF Starting, Starts
<1>8. Starting'
  BY <1>1, <1>2, <1>3, <1>6, Stages, Constants DEF Starting, Starts, OnTheWay
<1>9. Owners' = Owners
  BY <1>3, <1>7, Stages DEF Owners
<1>10. Counted'
  BY <1>2, <1>6, <1>9 DEF Counted
<1>11. Translations'
  BY <1>2, <1>3, <1>6, <1>7 DEF Translations, Starts, Asks
<1>12. Requests'
  BY <1>2, <1>3, <1>6 DEF Requests, Handling
<1> QED
  BY <1>8, <1>10, <1>11, <1>12 DEF OnTime

(* Giving up a processor, which goes on as it was, keeps the invariant.    *)
LEMMA GiveUpKeeps == ProcessorsInv /\ GiveUp => ProcessorsInv'
<1> SUFFICES ASSUME ProcessorsInv, GiveUp PROVE ProcessorsInv'
  OBVIOUS
<1>1. ProcessorsTypeOK /\ InLoop /\ Areas /\ (~late => OnTime)
  BY DEF ProcessorsInv
<1>2. /\ boot \in Starts /\ boot' = "starts" /\ entry' = entry + 1
      /\ late' = (late \/ stage[entry] # "sent")
      /\ UNCHANGED <<parameter, acknowledged, established, stage, stack, expected, interrupts,
                     address, unanswered, mapped, cached>>
  BY DEF GiveUp, Starts
<1>3. ProcessorsTypeOK'
  <2>1. entry' \in 1 .. Applications + 1
    BY <1>1, <1>2, Constants DEF InLoop
  <2>2. late' \in BOOLEAN
    BY <1>2
  <2> QED
    BY <1>1, <1>2, <2>1, <2>2 DEF ProcessorsTypeOK
<1>4. Areas' /\ InLoop'
  BY <1>1, <1>2, <1>3, AreasKept DEF InLoop, Starts
<1> SUFFICES ASSUME ~late' PROVE OnTime'
  BY <1>3, <1>4 DEF ProcessorsInv
<1>5. Starting /\ Counted /\ Translations /\ Requests /\ stage[entry] = "sent"
  BY <1>1, <1>2 DEF OnTime
<1>6. Starting'
  <2>1. \A p \in Application : stage[p] \notin OnTheWay
    BY <1>5, Stages DEF Starting
  <2>2. \A p \in Application : p > entry' \/ p = entry' => p > entry
    BY <1>1, <1>2, Constants DEF InLoop
  <2> QED
    BY <1>2, <1>5, <2>1, <2>2 DEF Starting, Starts
<1>7. Counted' /\ Translations'
  BY <1>2, <1>5 DEF Counted, Owners, Translations, Starts, Asks
<1>8. Requests'
  BY <1>2, <1>5 DEF Requests, Starts
<1> QED
  BY <1>6, <1>7, <1>8 DEF OnTime

(* Hearing that a processor has answered keeps the invariant.              *)
LEMMA AnsweredKeeps == ProcessorsInv /\ Answered => ProcessorsInv'
<1> SUFFICES ASSUME ProcessorsInv, Answered PROVE ProcessorsInv'
  OBVIOUS
<1>1. ProcessorsTypeOK /\ InLoop /\ Areas /\ (~late => OnTime)
  BY DEF ProcessorsInv
<1>2. /\ boot = "answer" /\ boot' = "online"
      /\ UNCHANGED <<entry, parameter, acknowledged, established, stage, stack, expected,
                     interrupts, address, unanswered, mapped, cached, late>>
  BY DEF Answered
<1>3. ProcessorsTypeOK'
  BY <1>1, <1>2 DEF ProcessorsTypeOK
<1>4. Areas' /\ InLoop'
  BY <1>1, <1>2, <1>3, AreasKept DEF InLoop, Starts
<1> SUFFICES ASSUME ~late' PROVE OnTime'
  BY <1>3, <1>4 DEF ProcessorsInv
<1>5. Starting /\ Counted /\ Translations /\ Requests
  BY <1>1, <1>2 DEF OnTime
<1>6. Starting' /\ Counted' /\ Translations' /\ Requests'
  BY <1>2, <1>5 DEF Starting, Counted, Owners, Translations, Requests, Starts, Asks
<1> QED
  BY <1>6 DEF OnTime

(* The end of the wait for processors to come online keeps the invariant.  *)
LEMMA WaitForOnlineKeeps == ProcessorsInv /\ WaitForOnline => ProcessorsInv'
<1> SUFFICES ASSUME ProcessorsInv, WaitForOnline PROVE ProcessorsInv'
  OBVIOUS
<1>1. ProcessorsTypeOK /\ InLoop /\ Areas /\ (~late => OnTime)
  BY DEF ProcessorsInv
<1>2. /\ boot = "online" /\ Online > parameter
      /\ boot' = "starts" /\ entry' = entry + 1
      /\ UNCHANGED <<parameter, acknowledged, established, stage, stack, expected,
                     interrupts, address, unanswered, mapped, cached, late>>
  BY DEF WaitForOnline
<1>3. ProcessorsTypeOK'
  BY <1>1, <1>2, Constants DEF ProcessorsTypeOK, InLoop, Starts
<1>4. Areas' /\ InLoop'
  BY <1>1, <1>2, <1>3, AreasKept DEF InLoop, Starts
<1> SUFFICES ASSUME ~late' PROVE OnTime'
  BY <1>3, <1>4 DEF ProcessorsInv
<1>5. Starting /\ Counted /\ Translations /\ Requests /\ Online = established
  BY <1>1, <1>2, OnlineIsCount DEF OnTime
<1>6. entry \in Application /\ established # parameter
  BY <1>1, <1>2, <1>5 DEF InLoop, Starts, ProcessorsTypeOK
<1>7. \A p \in Application : stage[p] \notin OnTheWay
  BY <1>2, <1>5, <1>6, Stages DEF Starting, Starts
<1>8. Starting'
  <2>1. \A p \in Application : p > entry' \/ p = entry' => p > entry
    BY <1>2, <1>6, Constants
  <2> QED
    BY <1>2, <1>5, <1>7, <2>1 DEF Starting, Starts
<1>9. Counted' /\ Translations' /\ Requests'
  BY <1>2, <1>5 DEF Counted, Owners, Translations, Requests, Starts, Asks
<1> QED
  BY <1>8, <1>9 DEF OnTime

-----------------------------------------------------------------------------
(* An application processor on its way.  The answer, of one given up among *)
(* the cases, keeps the invariant.                                         *)
LEMMA TrampolineKeeps ==
    ASSUME ProcessorsInv, NEW p \in Application, Trampoline(p)
    PROVE  ProcessorsInv'
<1>1. ProcessorsTypeOK /\ InLoop /\ Areas /\ (~late => OnTime)
  BY DEF ProcessorsInv
<1>2. /\ stage[p] = "sent" /\ "trampoline" \in mapped /\ acknowledged' = TRUE
      /\ cached' = [cached EXCEPT ![p] = {"trampoline"}]
      /\ stage' = [stage EXCEPT ![p] = "answered"]
      /\ late' = (late \/ p # entry \/ boot # "answer")
      /\ UNCHANGED <<boot, entry, parameter, established, stack, expected, interrupts,
                     address, unanswered, mapped>>
  BY DEF Trampoline
<1>3. /\ stage'[p] = "answered" /\ cached'[p] = {"trampoline"}
      /\ \A q \in Application : q # p => stage'[q] = stage[q] /\ cached'[q] = cached[q]
      /\ cached'[Bootstrap] = cached[Bootstrap]
  BY <1>1, <1>2, Constants DEF ProcessorsTypeOK
<1>4. ProcessorsTypeOK'
  <2>1. stage' \in [Application -> Stage]
    BY <1>1, <1>2 DEF ProcessorsTypeOK, Stage
  <2>2. cached' \in [Machine -> SUBSET (Mapping \cup {"trampoline"})]
    BY <1>1, <1>2 DEF ProcessorsTypeOK
  <2>3. late' \in BOOLEAN
    BY <1>2
  <2> QED
    BY <1>1, <1>2, <2>1, <2>2, <2>3 DEF ProcessorsTypeOK
<1>5. Areas' /\ InLoop'
  BY <1>1, <1>2, <1>3, <1>4, Stages, AreasKept DEF InLoop, OnTheWay
<1> SUFFICES ASSUME ~late' PROVE OnTime'
  BY <1>4, <1>5 DEF ProcessorsInv
<1>6. Starting /\ Counted /\ Translations /\ Requests
  BY <1>1, <1>2 DEF OnTime
<1>7. boot = "answer" /\ p = entry
  BY <1>2
<1>8. Starting'
  BY <1>2, <1>3, <1>6, <1>7, Stages DEF Starting, Starts, OnTheWay
<1>9. Owners' = Owners
  BY <1>2, <1>3, Stages DEF Owners, OnTheWay
<1>10. Counted'
  BY <1>2, <1>6, <1>9 DEF Counted
<1>11. Translations'
  BY <1>2, <1>3, <1>6, <1>7 DEF Translations, Starts, Asks
<1>12. Requests'
  BY <1>2, <1>3, <1>6, <1>7 DEF Requests, Handling
<1> QED
  BY <1>8, <1>10, <1>11, <1>12 DEF OnTime

(* Reading a stack and an argument keeps the invariant.                    *)
LEMMA EnterKeeps ==
    ASSUME ProcessorsInv, NEW p \in Application, LoadStack(p) \/ Enter(p)
    PROVE  ProcessorsInv'
<1>1. ProcessorsTypeOK /\ InLoop /\ Areas /\ (~late => OnTime)
  BY DEF ProcessorsInv
<1>2. /\ stage[p] \in {"answered", "stacked"}
      /\ UNCHANGED <<boot, entry, parameter, acknowledged, established, interrupts,
                     address, unanswered, mapped, cached, late>>
  BY DEF LoadStack, Enter
<1>3. PICK s \in {"stacked", "entered"} :
         /\ stage' = [stage EXCEPT ![p] = s]
         /\ s = "stacked" => stack' = [stack EXCEPT ![p] = parameter] /\ expected' = expected
         /\ s = "entered" => expected' = [expected EXCEPT ![p] = parameter] /\ stack' = stack
  BY DEF LoadStack, Enter
<1>4. /\ stage'[p] = s /\ (s = "entered" => expected'[p] = parameter)
      /\ \A q \in Application : q # p => stage'[q] = stage[q] /\ expected'[q] = expected[q]
  BY <1>1, <1>3 DEF ProcessorsTypeOK
<1>5. ProcessorsTypeOK'
  <2>1. stage' \in [Application -> Stage]
    BY <1>1, <1>3 DEF ProcessorsTypeOK, Stage, Kernel64
  <2>2. stack' \in [Application -> 0 .. AreaLimit] /\ expected' \in [Application -> 0 .. AreaLimit]
    BY <1>1, <1>3 DEF ProcessorsTypeOK
  <2> QED
    BY <1>1, <1>2, <2>1, <2>2 DEF ProcessorsTypeOK
<1>6. stage[p] \in OnTheWay /\ s \in OnTheWay
  BY <1>2 DEF OnTheWay
<1>7. Areas' /\ InLoop'
  BY <1>1, <1>2, <1>4, <1>5, <1>6, Stages, AreasKept DEF InLoop
<1> SUFFICES ASSUME ~late' PROVE OnTime'
  BY <1>5, <1>7 DEF ProcessorsInv
<1>8. Starting /\ Counted /\ Translations /\ Requests
  BY <1>1, <1>2 DEF OnTime
<1>9. boot \in Starts /\ p = entry
  BY <1>6, <1>8 DEF Starting
<1>10. Starting'
  BY <1>2, <1>4, <1>6, <1>8, <1>9, Stages DEF Starting
<1>11. Owners' = Owners
  BY <1>4, <1>6, Stages DEF Owners
<1>12. Counted'
  BY <1>2, <1>8, <1>11 DEF Counted
<1>13. Translations'
  BY <1>2, <1>4, <1>8 DEF Translations
<1>14. Requests'
  BY <1>2, <1>4, <1>8, <1>9 DEF Requests, Handling, Starts
<1> QED
  BY <1>10, <1>12, <1>13, <1>14 DEF OnTime

(* A processor without ground under it resets the machine.                 *)
LEMMA GroundLostKeeps ==
    ASSUME ProcessorsInv, NEW p \in Application, GroundLost(p)
    PROVE  ProcessorsInv'
<1>1. ProcessorsTypeOK /\ (~late => established <= AreaLimit)
  BY DEF ProcessorsInv, OnTime, Starting
<1>2. /\ Halted
      /\ UNCHANGED <<entry, parameter, acknowledged, established, stack, expected, interrupts,
                     address, unanswered, mapped, cached, late>>
  BY DEF GroundLost
<1>3. ProcessorsTypeOK'
  BY <1>1, <1>2 DEF ProcessorsTypeOK, Halted, Stage
<1> QED
  BY <1>1, <1>2, <1>3, HaltedKeeps

(* A processor that claims an area, whose index agrees or not, or finds    *)
(* none left, keeps the invariant.                                         *)
LEMMA ClaimAreaKeeps ==
    ASSUME ProcessorsInv, NEW p \in Application, ClaimArea(p)
    PROVE  ProcessorsInv'
<1>1. ProcessorsTypeOK /\ InLoop /\ Areas /\ (~late => OnTime)
  BY DEF ProcessorsInv
<1>2. /\ stage[p] = "entered" /\ established' = established + 1
      /\ UNCHANGED <<entry, parameter, acknowledged, stack, expected, interrupts, address,
                     unanswered, mapped, cached, late>>
  BY DEF ClaimArea
<1>3. \/ /\ stage' = [stage EXCEPT ![p] = "parked"] /\ boot' = boot
         /\ established >= AreaLimit
      \/ /\ stage' = [stage EXCEPT ![p] = "claimed"] /\ boot' = boot
         /\ established < AreaLimit /\ expected[p] = established
      \/ Halted /\ established < AreaLimit /\ expected[p] # established
  BY DEF ClaimArea, Agrees
<1>4. established \in Nat /\ established' \in Nat \ {0}
  BY <1>1, <1>2 DEF ProcessorsTypeOK
<1>5. ProcessorsTypeOK'
  <2>1. stage' \in [Application -> Stage] /\ boot' \in {boot, "panic"}
    BY <1>1, <1>3 DEF ProcessorsTypeOK, Stage, Kernel64, Joined, Halted
  <2> QED
    BY <1>1, <1>2, <1>4, <2>1 DEF ProcessorsTypeOK
<1>6. ASSUME ~late
      PROVE  /\ Starting /\ Counted /\ Translations /\ Requests
             /\ boot \in Starts /\ p = entry /\ parameter = established
             /\ established < AreaLimit /\ expected[p] = established
  <2>1. Starting /\ Counted /\ Translations /\ Requests
    BY <1>1, <1>6 DEF OnTime
  <2>2. boot \in Starts /\ p = entry /\ expected[p] = parameter
    BY <1>2, <2>1 DEF Starting, OnTheWay
  <2>3. parameter = established /\ parameter < AreaLimit
    BY <1>2, <2>1, <2>2, Stages DEF Starting, OnTheWay
  <2> QED
    BY <2>1, <2>2, <2>3
<1>7. CASE Halted
  <2>1. ~late => established' <= AreaLimit
    BY <1>2, <1>4, <1>6, Constants
  <2> QED
    BY <1>2, <1>5, <1>7, <2>1, HaltedKeeps
<1>8. CASE stage' = [stage EXCEPT ![p] = "parked"] /\ boot' = boot /\ established >= AreaLimit
  <2>1. \A q \in Application : stage'[q] \in Joined => stage[q] \in Joined
    BY <1>1, <1>8, Stages DEF ProcessorsTypeOK
  <2>2. \A q \in Application : stage'[q] \in Joined => expected'[q] < established'
    BY <1>1, <1>2, <1>4, <2>1 DEF Areas, ProcessorsTypeOK
  <2>3. Areas' /\ InLoop'
    BY <1>1, <1>2, <1>8, <2>1, <2>2 DEF Areas, AreasApart, InLoop
  <2>4. late
    BY <1>4, <1>6, <1>8, Constants
  <2> QED
    BY <1>2, <1>5, <2>3, <2>4 DEF ProcessorsInv
<1>9. CASE /\ stage' = [stage EXCEPT ![p] = "claimed"] /\ boot' = boot
           /\ established < AreaLimit /\ expected[p] = established
  <2>1. /\ stage'[p] = "claimed" /\ "claimed" \in Joined
        /\ \A q \in Application : q # p => stage'[q] = stage[q]
    BY <1>1, <1>9, Stages DEF ProcessorsTypeOK
  <2>2. \A q \in Application : q # p /\ stage'[q] \in Joined =>
           expected[q] < established /\ expected[q] \in Nat
    BY <1>1, <2>1 DEF Areas, ProcessorsTypeOK
  <2>3. \A q \in Application : stage'[q] \in Joined => expected'[q] < established'
    BY <1>2, <1>4, <1>9, <2>2
  <2>4. AreasApart'
    BY <1>1, <1>2, <1>4, <1>9, <2>1, <2>2 DEF Areas, AreasApart
  <2>5. Areas' /\ InLoop'
    BY <1>1, <1>2, <1>9, <2>3, <2>4 DEF Areas, InLoop
  <2> SUFFICES ASSUME ~late' PROVE OnTime'
    BY <1>5, <2>5 DEF ProcessorsInv
  <2>6. /\ Starting /\ Counted /\ Translations /\ Requests
        /\ boot \in Starts /\ p = entry /\ parameter = established
    BY <1>2, <1>6
  <2>7. established' <= AreaLimit
    BY <1>2, <1>4, <1>9, Constants
  <2>8. Starting'
    BY <1>2, <1>9, <2>1, <2>6, <2>7, Stages DEF Starting, Starts
  <2>9. p \notin Owners /\ Owners' = Owners \cup {p}
    BY <1>2, <2>1, Stages DEF Owners, OnTheWay
  <2>10. Counted'
    <3>1. boot # "panic" /\ Cardinality(Owners) = established - 1
      BY <2>6 DEF Counted, Starts
    <3>2. Cardinality(Owners \cup {p}) = Cardinality(Owners) + 1
      BY <2>9, OwnersFinite, FS_AddElement
    <3> QED
      BY <1>2, <1>4, <2>9, <3>1, <3>2 DEF Counted
  <2>11. Translations'
    BY <1>2, <1>9, <2>1, <2>6 DEF Translations
  <2>12. Requests'
    BY <1>2, <1>9, <2>1, <2>6 DEF Requests, Handling, Starts
  <2> QED
    BY <2>8, <2>10, <2>11, <2>12 DEF OnTime
<1> QED
  BY <1>3, <1>7, <1>8, <1>9

(* What an owner does leaves the others' start as it stands.               *)
LEMMA OwnersGoOn ==
    ASSUME Starting, InLoop, UNCHANGED <<boot, entry, parameter, established, expected>>,
           \A q \in Application :
               \/ stage'[q] = stage[q]
               \/ stage[q] \in Joined /\ stage'[q] \in Joined
    PROVE  Starting'
<1>1. \A q \in Application : stage'[q] # stage[q] =>
         /\ stage'[q] \notin OnTheWay /\ stage'[q] \notin {"off", "sent", "parked", "entered"}
         /\ stage[q] \in Joined /\ stage[q] # "off"
  BY Stages DEF OnTheWay
<1>2. \A p \in Application : /\ stage'[p] \in OnTheWay => boot \in Starts /\ p = entry
                             /\ stage'[p] = "entered" => expected[p] = parameter
                             /\ stage'[p] # "parked"
  BY <1>1 DEF Starting
<1>3. boot \in Starts =>
         \/ stage'[entry] \in {"sent"} \cup OnTheWay /\ established = parameter
         \/ stage'[entry] \in Joined /\ established = parameter + 1
  <2> SUFFICES ASSUME boot \in Starts
               PROVE  \/ stage'[entry] \in {"sent"} \cup OnTheWay /\ established = parameter
                      \/ stage'[entry] \in Joined /\ established = parameter + 1
    OBVIOUS
  <2>1. CASE stage'[entry] = stage[entry]
    BY <2>1 DEF Starting
  <2>2. CASE stage[entry] \in Joined /\ stage'[entry] \in Joined
    BY <2>2, Stages DEF Starting
  <2>3. entry \in Application
    BY DEF InLoop
  <2> QED
    BY <2>1, <2>2, <2>3
<1>4. \A p \in Application :
         p > entry \/ (p = entry /\ boot \notin Starts) \/ boot = "panic" => stage'[p] = "off"
  BY <1>1 DEF Starting
<1>5. /\ boot' = boot /\ entry' = entry /\ parameter' = parameter
      /\ established' = established /\ expected' = expected
  OBVIOUS
<1> QED
  BY <1>2, <1>3, <1>4, <1>5 DEF Starting

(* An owner goes on: from stage to stage, to and from the handler.         *)
LEMMA ReadyKeeps ==
    ASSUME ProcessorsInv, NEW p \in Application, Ready(p)
    PROVE  ProcessorsInv'
<1>1. ProcessorsTypeOK /\ InLoop /\ Areas /\ (~late => OnTime)
  BY DEF ProcessorsInv
<1>2. /\ stage[p] \in {"claimed", "listens"}
      /\ UNCHANGED <<boot, entry, parameter, acknowledged, established, stack, expected,
                     interrupts, address, unanswered, mapped, cached, late>>
  BY DEF Ready
<1>3. PICK s \in {"listens", "idle"} : stage' = [stage EXCEPT ![p] = s]
                                       /\ (stage[p] = "listens" => s = "idle")
  BY DEF Ready
<1>4. /\ stage'[p] = s
      /\ \A q \in Application : q # p => stage'[q] = stage[q]
  BY <1>1, <1>3 DEF ProcessorsTypeOK
<1>5. ProcessorsTypeOK'
  <2>1. stage' \in [Application -> Stage]
    BY <1>1, <1>3, Stages DEF ProcessorsTypeOK
  <2> QED
    BY <1>1, <1>2, <2>1 DEF ProcessorsTypeOK
<1>6. stage[p] \in Joined /\ s \in Joined /\ stage[p] # "off"
  BY <1>2, Stages
<1>7. \A q \in Application :
         /\ stage'[q] \in Joined <=> stage[q] \in Joined
         /\ stage'[q] \notin Joined \/ stage[q] \notin Joined => stage'[q] = stage[q]
  BY <1>4, <1>6
<1>8. Areas' /\ InLoop'
  BY <1>1, <1>2, <1>5, <1>7, AreasKept DEF InLoop
<1> SUFFICES ASSUME ~late' PROVE OnTime'
  BY <1>5, <1>8 DEF ProcessorsInv
<1>9. Starting /\ Counted /\ Translations /\ Requests
  BY <1>1, <1>2 DEF OnTime
<1>10. Starting'
  BY <1>1, <1>2, <1>7, <1>9, OwnersGoOn
<1>11. Owners' = Owners
  BY <1>7 DEF Owners
<1>12. Counted' /\ Translations'
  BY <1>2, <1>7, <1>9, <1>11, Stages DEF Counted, Translations
<1>13. Requests'
  <2>1. CASE boot # "waits"
    BY <1>2, <1>4, <1>9, <2>1 DEF Requests, Handling
  <2>2. CASE boot = "waits"
    <3>1. PICK A \in SUBSET Application : HaveAnswered(A)
      BY <1>9, <2>2 DEF Requests
    <3>2. p \notin A
      BY <1>2, <3>1 DEF HaveAnswered
    <3>3. HaveAnswered(A)'
      BY <1>2, <1>4, <1>11, <3>1, <3>2 DEF HaveAnswered
    <3>4. \A q \in interrupts' : stage'[q] \in {"listens", "idle"}
      BY <1>1, <1>2, <1>4, <1>9, <2>2 DEF Requests, ProcessorsTypeOK
    <3>5. \A q \in Application : stage'[q] = "invalidated" =>
             address' \in mapped' \/ address' \notin cached'[q]
      BY <1>2, <1>4, <1>9, <2>2 DEF Requests
    <3> QED
      BY <1>2, <2>2, <3>3, <3>4, <3>5 DEF Requests
  <2> QED
    BY <2>1, <2>2
<1> QED
  BY <1>10, <1>12, <1>13 DEF OnTime

(* A processor fills a translation of what is mapped.                      *)
LEMMA AccessKeeps ==
    ASSUME ProcessorsInv, NEW p \in Machine, NEW page \in Mapping \cup {"trampoline"},
           Access(p, page)
    PROVE  ProcessorsInv'
<1>1. ProcessorsTypeOK /\ InLoop /\ Areas /\ (~late => OnTime)
  BY DEF ProcessorsInv
<1>2. /\ page \in mapped /\ page \notin cached[p]
      /\ p # Bootstrap => stage[p] \in Kernel64
      /\ boot # "panic"
      /\ cached' = [cached EXCEPT ![p] = @ \cup {page}]
      /\ UNCHANGED <<boot, entry, parameter, acknowledged, established, stage, stack,
                     expected, interrupts, address, unanswered, mapped, late>>
  BY DEF Access
<1>3. \A q \in Machine : /\ q # p => cached'[q] = cached[q]
                         /\ cached'[q] \subseteq cached[q] \cup {page}
  BY <1>1, <1>2 DEF ProcessorsTypeOK
<1>4. ProcessorsTypeOK'
  BY <1>1, <1>2 DEF ProcessorsTypeOK
<1>5. Areas' /\ InLoop'
  BY <1>1, <1>2, <1>4, AreasKept DEF InLoop
<1> SUFFICES ASSUME ~late' PROVE OnTime'
  BY <1>4, <1>5 DEF ProcessorsInv
<1>6. Starting /\ Counted /\ Translations /\ Requests
  BY <1>1, <1>2 DEF OnTime
<1>7. Starting' /\ Counted'
  BY <1>2, <1>6 DEF Starting, Counted, Owners
<1>8. Translations'
  <2>1. \A q \in Application : stage[q] \in {"off", "sent"} => q # p
    BY <1>2, Constants DEF Kernel64, Joined, Listening
  <2> QED
    BY <1>2, <1>3, <1>6, <2>1, Constants DEF Translations
<1>9. Requests'
  <2>1. CASE boot # "waits"
    BY <1>2, <1>6, <2>1 DEF Requests
  <2>2. CASE boot = "waits"
    <3>1. PICK A \in SUBSET Application : HaveAnswered(A)
      BY <1>6, <2>2 DEF Requests
    <3>2. \A q \in Application : address \in mapped \/ address \notin cached[q] =>
                                 address \in mapped \/ address \notin cached'[q]
      BY <1>2, <1>3, Constants
    <3>3. HaveAnswered(A)'
      BY <1>2, <3>1, <3>2 DEF HaveAnswered, Owners
    <3>4. \A q \in Application : stage'[q] = "invalidated" =>
             address' \in mapped' \/ address' \notin cached'[q]
      BY <1>2, <1>6, <2>2, <3>2 DEF Requests
    <3>5. \A q \in interrupts' : stage'[q] \in {"listens", "idle"}
      BY <1>2, <1>6, <2>2 DEF Requests
    <3> QED
      BY <1>2, <2>2, <3>3, <3>4, <3>5 DEF Requests
  <2> QED
    BY <2>1, <2>2
<1> QED
  BY <1>7, <1>8, <1>9 DEF OnTime

-----------------------------------------------------------------------------
(* Shootdowns.                                                             *)
LEMMA ChangePageKeeps ==
    ASSUME ProcessorsInv, NEW page \in Mapping \cup {"trampoline"}, ChangePage(page)
    PROVE  ProcessorsInv'
<1>1. ProcessorsTypeOK /\ InLoop /\ Areas /\ (~late => OnTime)
  BY DEF ProcessorsInv
<1>2. /\ boot \in {"starts", "up"}
      /\ page = "trampoline" => boot = "starts" /\ entry > Applications
      /\ mapped' = IF page \in mapped THEN mapped \ {page} ELSE mapped \cup {page}
      /\ cached' = [cached EXCEPT ![Bootstrap] = @ \ {page}]
      /\ UNCHANGED <<entry, parameter, acknowledged, established, stage, stack, expected,
                     interrupts, late>>
  BY DEF ChangePage
<1>3. \/ Online = 1 /\ boot' = Resting /\ UNCHANGED <<address, unanswered>>
      \/ Online # 1 /\ boot' = "sends" /\ address' = page /\ unanswered' = Online - 1
  BY DEF ChangePage
<1>4. boot' \in {"starts", "up", "sends"} /\ (boot' = "starts" => "trampoline" \in mapped')
  BY <1>3 DEF Resting
<1>5. established \in Nat /\ established >= 1 /\ boot \notin Starts /\ boot \notin Asks
      /\ Online \in Int /\ boot' \notin Starts
  BY <1>1, <1>2, <1>4, Constants DEF ProcessorsTypeOK, Starts, Asks, Online
<1>6. ProcessorsTypeOK'
  <2>1. cached' \in [Machine -> SUBSET (Mapping \cup {"trampoline"})]
    BY <1>1, <1>2 DEF ProcessorsTypeOK
  <2>2. mapped' \subseteq Mapping \cup {"trampoline"}
    BY <1>1, <1>2 DEF ProcessorsTypeOK
  <2>3. address' \in Mapping \cup {"trampoline"} /\ unanswered' \in Int
    BY <1>1, <1>3, <1>5 DEF ProcessorsTypeOK
  <2> QED
    BY <1>1, <1>2, <1>4, <2>1, <2>2, <2>3 DEF ProcessorsTypeOK
<1>7. Areas' /\ InLoop'
  BY <1>2, <1>5, <1>6, AreasKept DEF InLoop
<1> SUFFICES ASSUME ~late' PROVE OnTime'
  BY <1>6, <1>7 DEF ProcessorsInv
<1>8. Starting /\ Counted /\ Translations /\ Requests /\ Online = established
  BY <1>1, <1>2, OnlineIsCount DEF OnTime
<1>9. Starting' /\ Counted'
  BY <1>2, <1>4, <1>5, <1>8 DEF Starting, Counted, Owners
<1>10. /\ \A p \in Application : cached'[p] = cached[p]
       /\ cached'[Bootstrap] = cached[Bootstrap] \ {page}
  BY <1>1, <1>2, Constants DEF ProcessorsTypeOK
<1>11. \A other : other # page => (other \in mapped' <=> other \in mapped)
  BY <1>2
<1>12. ASSUME established = 1, NEW p \in Application PROVE cached[p] = {}
  <2>1. Cardinality(Owners) = 0
    BY <1>2, <1>8, <1>12 DEF Counted
  <2>2. Owners = {}
    BY <2>1, OwnersFinite, FS_EmptySet
  <2>3. stage[p] \notin Joined /\ stage[p] \notin OnTheWay /\ stage[p] # "parked"
        /\ stage[p] \in Stage
    BY <1>1, <1>5, <1>8, <2>2 DEF Owners, Starting, ProcessorsTypeOK
  <2>4. stage[p] \in {"off", "sent"}
    BY <2>3, Stages
  <2> QED
    BY <1>2, <1>8, <2>4 DEF Translations
<1>13. Translations'
  <2>1. \A p \in Application : stage'[p] \in {"off", "sent"} => cached'[p] = {}
    BY <1>2, <1>8, <1>10 DEF Translations
  <2>2. cached'[Bootstrap] \subseteq mapped'
    BY <1>2, <1>8, <1>10, <1>11 DEF Translations
  <2>3. ASSUME NEW p \in Application, NEW other \in cached'[p]
        PROVE  other \in mapped' \/ (boot' \in Asks /\ other = address')
    <3>1. other \in cached[p] /\ other \in mapped
      BY <1>2, <1>5, <1>8, <1>10, <2>3 DEF Translations
    <3>2. established # 1
      BY <1>12, <3>1
    <3>3. boot' \in Asks /\ address' = page
      BY <1>3, <1>8, <3>2 DEF Asks
    <3> QED
      BY <1>11, <3>1, <3>3
  <2>4. boot' \in {"starts"} \cup Starts => "trampoline" \in mapped'
    BY <1>4 DEF Starts
  <2> QED
    BY <2>1, <2>2, <2>3, <2>4 DEF Translations
<1>14. Requests'
  <2>1. boot' = "sends" => unanswered' = established' - 1
    BY <1>2, <1>3, <1>8 DEF Resting
  <2>2. interrupts' = {} /\ \A p \in Application : stage'[p] \notin Handling
    BY <1>2, <1>8 DEF Requests
  <2> QED
    BY <1>4, <2>1, <2>2 DEF Requests
<1> QED
  BY <1>9, <1>13, <1>14 DEF OnTime

(* The send of a shootdown to those established keeps the invariant.       *)
LEMMA SendToOthersKeeps == ProcessorsInv /\ SendToOthers => ProcessorsInv'
<1> SUFFICES ASSUME ProcessorsInv, SendToOthers PROVE ProcessorsInv'
  OBVIOUS
<1>1. ProcessorsTypeOK /\ InLoop /\ Areas /\ (~late => OnTime)
  BY DEF ProcessorsInv
<1>2. /\ boot = "sends" /\ boot' = "waits"
      /\ interrupts' = interrupts \cup {p \in Application : stage[p] \in Listening}
      /\ UNCHANGED <<entry, parameter, acknowledged, established, stage, stack, expected,
                     address, unanswered, mapped, cached, late>>
  BY DEF SendToOthers
<1>3. ProcessorsTypeOK'
  BY <1>1, <1>2 DEF ProcessorsTypeOK
<1>4. Areas' /\ InLoop'
  BY <1>2, <1>3, AreasKept DEF InLoop, Starts
<1> SUFFICES ASSUME ~late' PROVE OnTime'
  BY <1>3, <1>4 DEF ProcessorsInv
<1>5. Starting /\ Counted /\ Translations /\ Requests
  BY <1>1, <1>2 DEF OnTime
<1>6. Starting' /\ Counted' /\ Translations'
  BY <1>2, <1>5 DEF Starting, Starts, Counted, Owners, Translations, Asks
<1>7. interrupts = {} /\ \A p \in Application : stage[p] \notin Handling
  BY <1>2, <1>5 DEF Requests
<1>8. \A p \in interrupts' : stage'[p] \in {"listens", "idle"}
  BY <1>2, <1>7, Stages DEF Handling
<1>9. \A p \in Application : stage'[p] # "invalidated"
  BY <1>2, <1>7 DEF Handling
<1>10. Owners \ {} = Owners /\ Owners' = Owners
  BY <1>2 DEF Owners
<1>11. Cardinality(Owners) = unanswered
  BY <1>2, <1>5 DEF Counted, Requests
<1>12. HaveAnswered({})'
  BY <1>2, <1>10, <1>11 DEF HaveAnswered
<1>13. \E A \in SUBSET Application : HaveAnswered(A)'
  BY <1>12
<1>14. Requests'
  BY <1>2, <1>8, <1>9, <1>13 DEF Requests
<1> QED
  BY <1>6, <1>14 DEF OnTime

(* ShootdownHandle.  Only the acknowledgement adds to those that have      *)
(* answered, and by then the page is gone.                                 *)
LEMMA HandleKeeps ==
    ASSUME ProcessorsInv, NEW p \in Application, Handle(p)
    PROVE  ProcessorsInv'
<1>1. ProcessorsTypeOK /\ InLoop /\ Areas /\ (~late => OnTime)
  BY DEF ProcessorsInv
<1>2. /\ UNCHANGED <<boot, entry, parameter, acknowledged, established, stack, expected,
                     address, mapped, late>>
      /\ stage[p] \in {"idle", "reads", "invalidated"}
      /\ unanswered' = IF stage[p] = "invalidated" THEN unanswered - 1 ELSE unanswered
      /\ interrupts' = IF stage[p] = "idle" THEN interrupts \ {p} ELSE interrupts
      /\ cached' = IF stage[p] = "reads" THEN [cached EXCEPT ![p] = @ \ {address}] ELSE cached
      /\ stage[p] = "idle" => p \in interrupts
  BY DEF Handle, Acknowledges
<1>3. PICK s : /\ stage' = [stage EXCEPT ![p] = s]
               /\ stage[p] = "idle" => s = "reads"
               /\ stage[p] = "reads" => s = "invalidated"
               /\ stage[p] = "invalidated" => s = "idle"
  BY DEF Handle
<1>4. /\ stage'[p] = s /\ s \in {"idle", "reads", "invalidated"}
      /\ \A q \in Application : q # p => stage'[q] = stage[q]
  BY <1>1, <1>2, <1>3 DEF ProcessorsTypeOK
<1>5. /\ stage[p] \in Joined /\ s \in Joined
      /\ \A q \in Application :
            /\ stage'[q] \in Joined <=> stage[q] \in Joined
            /\ stage'[q] \notin Joined \/ stage[q] \notin Joined => stage'[q] = stage[q]
  BY <1>2, <1>4, Stages
<1>6. /\ cached' \in [Machine -> SUBSET (Mapping \cup {"trampoline"})]
      /\ \A q \in Machine : cached'[q] \subseteq cached[q]
      /\ stage[p] = "reads" => address \notin cached'[p]
      /\ \A q \in Application : q # p => cached'[q] = cached[q]
      /\ stage[p] # "reads" => cached' = cached
  BY <1>1, <1>2, Constants DEF ProcessorsTypeOK
<1>7. ProcessorsTypeOK'
  <2>1. stage' \in [Application -> Stage]
    BY <1>1, <1>3, <1>5, Stages DEF ProcessorsTypeOK
  <2>2. interrupts' \subseteq Application /\ unanswered' \in Int
    BY <1>1, <1>2 DEF ProcessorsTypeOK
  <2> QED
    BY <1>1, <1>2, <1>6, <2>1, <2>2 DEF ProcessorsTypeOK
<1>8. Areas' /\ InLoop'
  BY <1>1, <1>2, <1>5, <1>7, AreasKept DEF InLoop
<1> SUFFICES ASSUME ~late' PROVE OnTime'
  BY <1>7, <1>8 DEF ProcessorsInv
<1>9. Starting /\ Counted /\ Translations /\ Requests
  BY <1>1, <1>2 DEF OnTime
<1>10. boot = "waits"
  <2>1. boot # "panic" => boot = "waits"
    BY <1>2, <1>9 DEF Requests, Handling
  <2>2. CASE boot = "panic"
    BY <1>2, <1>9, <2>2 DEF Starting
  <2> QED
    BY <2>1, <2>2
<1>11. PICK A \in SUBSET Application : HaveAnswered(A)
  BY <1>9, <1>10 DEF Requests
<1>12. Owners' = Owners /\ p \in Owners
  BY <1>5 DEF Owners
<1>13. \E B \in SUBSET Application : HaveAnswered(B)'
  <2>1. /\ A \subseteq Owners /\ Cardinality(Owners \ A) = unanswered
        /\ \A q \in A : /\ q \notin interrupts /\ stage[q] = "idle"
                        /\ address \in mapped \/ address \notin cached[q]
    BY <1>11 DEF HaveAnswered
  <2>2. p \notin A
    BY <1>2, <2>1
  <2>3. CASE stage[p] # "invalidated"
    <3>1. HaveAnswered(A)'
      BY <1>2, <1>4, <1>6, <1>12, <2>1, <2>2, <2>3 DEF HaveAnswered
    <3> QED
      BY <3>1
  <2>4. CASE stage[p] = "invalidated"
    <3>1. p \notin interrupts /\ (address \in mapped \/ address \notin cached[p])
      BY <1>9, <1>10, <2>4 DEF Requests
    <3>2. /\ A \cup {p} \subseteq Owners
          /\ \A q \in A \cup {p} : /\ q \notin interrupts' /\ stage'[q] = "idle"
                                   /\ address' \in mapped' \/ address' \notin cached'[q]
      BY <1>2, <1>3, <1>4, <1>6, <1>12, <2>1, <2>2, <2>4, <3>1
    <3>3. IsFiniteSet(Owners \ A) /\ p \in Owners \ A
      BY <1>12, <2>2, OwnersFinite, FS_Subset
    <3>4. Cardinality((Owners \ A) \ {p}) = Cardinality(Owners \ A) - 1
      BY <3>3, FS_RemoveElement
    <3>5. (Owners \ A) \ {p} = Owners \ (A \cup {p})
      OBVIOUS
    <3>6. Cardinality(Owners \ (A \cup {p})) = unanswered'
      BY <1>2, <2>1, <2>4, <3>4, <3>5
    <3>7. HaveAnswered(A \cup {p})'
      BY <1>12, <3>2, <3>6 DEF HaveAnswered
    <3>8. A \cup {p} \in SUBSET Application
      OBVIOUS
    <3> QED
      BY <3>7, <3>8
  <2> QED
    BY <2>3, <2>4
<1>14. Starting'
  BY <1>1, <1>2, <1>5, <1>9, OwnersGoOn
<1>15. Counted'
  BY <1>2, <1>9, <1>12 DEF Counted
<1>16. Translations'
  BY <1>2, <1>5, <1>6, <1>9, Stages, Constants DEF Translations
<1>17. Requests'
  <2>1. \A q \in interrupts' : stage'[q] \in {"listens", "idle"}
    BY <1>1, <1>2, <1>4, <1>9, <1>10 DEF Requests, ProcessorsTypeOK
  <2>2. \A q \in Application : stage'[q] = "invalidated" =>
           address' \in mapped' \/ address' \notin cached'[q]
    BY <1>2, <1>3, <1>4, <1>6, <1>9, <1>10, Constants DEF Requests
  <2> QED
    BY <1>2, <1>10, <1>13, <2>1, <2>2 DEF Requests
<1> QED
  BY <1>14, <1>15, <1>16, <1>17 DEF OnTime

(* The request returns when nobody is left who has not answered.           *)
LEMMA AcknowledgedKeeps == ProcessorsInv /\ Acknowledged => ProcessorsInv'
<1> SUFFICES ASSUME ProcessorsInv, Acknowledged PROVE ProcessorsInv'
  OBVIOUS
<1>1. ProcessorsTypeOK /\ InLoop /\ Areas /\ (~late => OnTime)
  BY DEF ProcessorsInv
<1>2. /\ boot = "waits" /\ unanswered = 0 /\ boot' = Resting
      /\ UNCHANGED <<entry, parameter, acknowledged, established, stage, stack, expected,
                     interrupts, address, unanswered, mapped, cached, late>>
  BY DEF Acknowledged
<1>3. boot' \in {"starts", "up"} /\ (boot' = "starts" => "trampoline" \in mapped')
  BY <1>2 DEF Resting
<1>4. ProcessorsTypeOK'
  BY <1>1, <1>2, <1>3 DEF ProcessorsTypeOK
<1>5. Areas' /\ InLoop'
  BY <1>2, <1>3, <1>4, AreasKept DEF InLoop, Starts
<1> SUFFICES ASSUME ~late' PROVE OnTime'
  BY <1>4, <1>5 DEF ProcessorsInv
<1>6. Starting /\ Counted /\ Translations /\ Requests
  BY <1>1, <1>2 DEF OnTime
<1>7. PICK A \in SUBSET Application : HaveAnswered(A)
  BY <1>2, <1>6 DEF Requests
<1>8. /\ A \subseteq Owners /\ Cardinality(Owners \ A) = 0
      /\ \A q \in A : /\ q \notin interrupts /\ stage[q] = "idle"
                      /\ address \in mapped \/ address \notin cached[q]
  BY <1>2, <1>7 DEF HaveAnswered
<1>9. Owners \ A = {}
  BY <1>8, OwnersFinite, FS_Subset, FS_EmptySet
<1>10. \A q \in Owners : /\ q \notin interrupts /\ stage[q] = "idle"
                         /\ address \in mapped \/ address \notin cached[q]
  BY <1>8, <1>9
<1>11. interrupts = {} /\ \A p \in Application : stage[p] \notin Handling
  <2>1. \A p \in interrupts : p \in Owners
    BY <1>1, <1>2, <1>6, Stages DEF Requests, Owners, ProcessorsTypeOK
  <2>2. \A p \in Application : stage[p] \in Handling => p \in Owners
    BY Stages DEF Owners, Handling
  <2> QED
    BY <1>10, <2>1, <2>2 DEF Handling
<1>12. Starting' /\ Counted'
  BY <1>2, <1>3, <1>6 DEF Starting, Starts, Counted, Owners
<1>13. Translations'
  <2>1. \A p \in Application : \A page \in cached[p] : page \in mapped
    <3> SUFFICES ASSUME NEW p \in Application, NEW page \in cached[p], page \notin mapped
                 PROVE  FALSE
      OBVIOUS
    <3>1. page = address
      BY <1>2, <1>6 DEF Translations
    <3>2. p \notin Owners
      BY <1>10, <3>1
    <3>3. stage[p] \notin OnTheWay /\ stage[p] # "parked" /\ stage[p] \in Stage
          /\ stage[p] \notin Joined
      BY <1>1, <1>2, <1>6, <3>2 DEF Starting, Starts, ProcessorsTypeOK, Owners
    <3>4. stage[p] \in {"off", "sent"}
      BY <3>3, Stages
    <3> QED
      BY <1>2, <1>6, <3>4 DEF Translations
  <2> QED
    BY <1>2, <1>3, <1>6, <2>1 DEF Translations, Starts
<1>14. Requests'
  BY <1>2, <1>3, <1>11 DEF Requests
<1> QED
  BY <1>12, <1>13, <1>14 DEF OnTime

(* A shootdown that is not answered keeps the invariant.                   *)
LEMMA UnacknowledgedKeeps == ProcessorsInv /\ Unacknowledged => ProcessorsInv'
<1> SUFFICES ASSUME ProcessorsInv, Unacknowledged PROVE ProcessorsInv'
  OBVIOUS
<1>1. ProcessorsTypeOK /\ (~late => established <= AreaLimit)
  BY DEF ProcessorsInv, OnTime, Starting
<1>2. /\ Halted
      /\ UNCHANGED <<entry, parameter, acknowledged, established, stack, expected, interrupts,
                     address, unanswered, mapped, cached, late>>
  BY DEF Unacknowledged
<1>3. ProcessorsTypeOK'
  BY <1>1, <1>2 DEF ProcessorsTypeOK, Halted, Stage
<1> QED
  BY <1>1, <1>2, <1>3, HaltedKeeps

-----------------------------------------------------------------------------
(* The machine starts in the invariant.                                    *)
LEMMA InitProcessors == ProcessorsInit => ProcessorsInv
<1> SUFFICES ASSUME ProcessorsInit PROVE ProcessorsInv
  OBVIOUS
<1>1. ProcessorsTypeOK
  <2>1. /\ entry \in 1 .. Applications + 1 /\ parameter \in 0 .. AreaLimit
        /\ established \in Nat \ {0} /\ unanswered \in Int
    BY Constants DEF ProcessorsInit
  <2>2. /\ stage \in [Application -> Stage] /\ stack \in [Application -> 0 .. AreaLimit]
        /\ expected \in [Application -> 0 .. AreaLimit]
    BY Constants DEF ProcessorsInit, Stage
  <2>3. cached \in [Machine -> SUBSET (Mapping \cup {"trampoline"})]
    BY DEF ProcessorsInit
  <2> QED
    BY <2>1, <2>2, <2>3 DEF ProcessorsInit, ProcessorsTypeOK
<1>2. Areas /\ InLoop /\ Starting
  BY Stages, Constants DEF ProcessorsInit, Areas, AreasApart, InLoop, Starting, Starts
<1>3. Counted
  <2>1. Owners = {}
    BY Stages DEF ProcessorsInit, Owners
  <2>2. Cardinality({}) = 0
    BY FS_EmptySet
  <2> QED
    BY <2>1, <2>2 DEF Counted, ProcessorsInit
<1>4. Translations
  BY Constants DEF ProcessorsInit, Translations
<1>5. Requests
  BY DEF ProcessorsInit, Requests, Handling
<1> QED
  BY <1>1, <1>2, <1>3, <1>4, <1>5 DEF ProcessorsInv, OnTime

(* Every step of the bootstrap processor and of every other, in any order, *)
(* preserves the invariant.                                                *)
THEOREM ProcessorsInductive == ProcessorsInv /\ [ProcessorsNext]_processorVars => ProcessorsInv'
<1> SUFFICES ASSUME ProcessorsInv, [ProcessorsNext]_processorVars PROVE ProcessorsInv'
  OBVIOUS
<1>1. CASE Refuse \/ StartProcessor \/ GiveUp \/ Answered \/ WaitForOnline
  BY <1>1, RefuseKeeps, StartProcessorKeeps, GiveUpKeeps, AnsweredKeeps, WaitForOnlineKeeps
<1>2. ASSUME NEW p \in Application,
             \/ Trampoline(p) \/ LoadStack(p) \/ Enter(p) \/ GroundLost(p)
             \/ ClaimArea(p) \/ Ready(p) \/ Handle(p)
      PROVE  ProcessorsInv'
  BY <1>2, TrampolineKeeps, EnterKeeps, GroundLostKeeps, ClaimAreaKeeps, ReadyKeeps, HandleKeeps
<1>3. ASSUME NEW p \in Machine, NEW page \in Mapping \cup {"trampoline"}, Access(p, page)
      PROVE  ProcessorsInv'
  BY <1>3, AccessKeeps
<1>4. ASSUME NEW page \in Mapping \cup {"trampoline"}, ChangePage(page)
      PROVE  ProcessorsInv'
  BY <1>4, ChangePageKeeps
<1>5. CASE SendToOthers \/ Acknowledged \/ Unacknowledged
  BY <1>5, SendToOthersKeeps, AcknowledgedKeeps, UnacknowledgedKeeps
<1>6. CASE UNCHANGED processorVars
  <2>1. ProcessorsTypeOK' /\ Areas' /\ InLoop'
    BY <1>6 DEF processorVars, ProcessorsInv, ProcessorsTypeOK, Areas, AreasApart, InLoop
  <2>2. ~late' => Starting' /\ Counted' /\ Translations'
    BY <1>6 DEF processorVars, ProcessorsInv, OnTime, Starting, Counted, Owners, Translations
  <2>3. ~late' => Requests'
    BY <1>6 DEF processorVars, ProcessorsInv, OnTime, Requests, HaveAnswered, Owners
  <2> QED
    BY <2>1, <2>2, <2>3 DEF ProcessorsInv, OnTime
<1>7. CASE Stopped
  BY <1>6, <1>7 DEF Stopped
<1> QED
  BY <1>1, <1>2, <1>3, <1>4, <1>5, <1>6, <1>7 DEF ProcessorsNext

(* The inductive invariant holds throughout.                               *)
LEMMA ProcessorsAlways == ProcessorsSpec => []ProcessorsInv
BY InitProcessors, ProcessorsInductive, PTL DEF ProcessorsSpec

(* The index a processor was prepared for may be a successor's by the time *)
(* it claims one (SmpInitialise, PerCpuInitialise): however many are       *)
(* declared, answer late, are given up or find no area, no two that pass   *)
(* the comparison use one area, segment, stack of faults or record.        *)
THEOREM AreasNeverShared == ProcessorsSpec => []AreasApart
<1>1. ProcessorsInv => AreasApart
  BY DEF ProcessorsInv, Areas
<1> QED
  BY <1>1, ProcessorsAlways, PTL

(* When a change of a kernel mapping returns, no processor translates what *)
(* is not mapped, whatever stage of its start each had reached when the    *)
(* request was sent (ShootdownBroadcast, ShootdownHandle), until one that  *)
(* was given up goes on.                                                   *)
THEOREM NoStaleTranslation == ProcessorsSpec => []TranslationsGone
<1>1. ProcessorsInv => TranslationsGone
  <2> SUFFICES ASSUME ProcessorsInv, ~late, boot \in {"starts", "answer", "online", "up"},
                      NEW p \in Machine
               PROVE  cached[p] \subseteq mapped
    BY DEF TranslationsGone
  <2>1. boot # "panic" /\ boot \notin Asks
    BY DEF Asks
  <2> QED
    BY <2>1, Constants DEF ProcessorsInv, OnTime, Translations
<1> QED
  BY <1>1, ProcessorsAlways, PTL

-----------------------------------------------------------------------------
(***************************************************************************)
(* Mutual exclusion of the ticket lock, for any number of processors and   *)
(* counters of any width that has more values than there are processors.   *)
(***************************************************************************)

(* The steps from one value of a counter to another, going round.          *)
Ahead(a, b) == IF b >= a THEN b - a ELSE b - a + Tickets
Holders == {p \in Cpu : stands[p] \in Holding}

(* The numbers issued and not yet admitted past are those the holders have,*)
(* each its own, and as many as there are holders.                         *)
Queued ==
    /\ Ahead(serving, ticket) = Cardinality(Holders)
    /\ \A p \in Holders : Ahead(serving, mine[p]) < Ahead(serving, ticket)
    /\ \A p, q \in Holders : mine[p] = mine[q] => p = q

(* Who is inside was served, and who has it owns it.                       *)
Served ==
    /\ \A p \in Cpu : stands[p] \in Inside => mine[p] = serving
    /\ \A p \in Cpu : owner = p <=> stands[p] = "in"

(* An attempt whose exchange would succeed finds the lock free.            *)
Attempted ==
    \A p \in Cpu : stands[p] \in Trying /\ ticket = seen[p] => serving = ticket

Masked ==
    \A p \in Cpu : stands[p] # "out" => ~enabled[p] /\ depth[p] > 0

LockInv == SpinlockTypeOK /\ Queued /\ Served /\ Attempted /\ Masked

-----------------------------------------------------------------------------

(* The holders are finitely many, and fewer than the values of a counter.  *)
LEMMA HoldersFinite ==
    /\ IsFiniteSet(Holders) /\ Cardinality(Holders) \in Nat
    /\ Tickets \in Nat /\ Tickets > 0
    /\ \A p \in Cpu : p \notin Holders => Cardinality(Holders) + 1 < Tickets
<1>1. IsFiniteSet(Cpu) /\ Cardinality(Cpu) < Tickets /\ Tickets \in Nat
  BY SpinlockAssumption
<1>2. Cardinality(Cpu) \in Nat
  BY <1>1, FS_CardinalityType
<1>3. IsFiniteSet(Holders) /\ Cardinality(Holders) \in Nat
  BY <1>1, FS_Subset, FS_CardinalityType DEF Holders
<1>4. ASSUME NEW p \in Cpu, p \notin Holders
      PROVE  Cardinality(Holders) + 1 < Tickets
  <2>1. IsFiniteSet(Cpu \ {p}) /\ Cardinality(Cpu \ {p}) = Cardinality(Cpu) - 1
    BY <1>1, FS_RemoveElement
  <2>2. Holders \subseteq Cpu \ {p}
    BY <1>4 DEF Holders
  <2>3. Cardinality(Holders) <= Cardinality(Cpu \ {p})
    BY <2>1, <2>2, FS_Subset
  <2> QED
    BY <1>1, <1>2, <1>3, <2>1, <2>3
<1> QED
  BY <1>1, <1>2, <1>3, <1>4

(* A number issued lengthens the queue by one and changes no distance of   *)
(* those in it.                                                            *)
LEMMA Issued ==
    ASSUME LockInv, NEW p \in Cpu, p \notin Holders,
           mine' = [mine EXCEPT ![p] = ticket], ticket' = Following(ticket),
           serving' = serving, Holders' = Holders \cup {p}
    PROVE  Queued'
<1>1. /\ Cardinality(Holders) + 1 < Tickets /\ Tickets \in Nat
      /\ IsFiniteSet(Holders) /\ Cardinality(Holders) \in Nat
  BY HoldersFinite
<1>2. ticket \in Counter /\ serving \in Counter /\ mine \in [Cpu -> Counter]
  BY DEF LockInv, SpinlockTypeOK
<1>3. Ahead(serving, ticket) + 1 < Tickets
  BY <1>1 DEF LockInv, Queued
<1>4. Ahead(serving, ticket') = Ahead(serving, ticket) + 1
  BY <1>1, <1>2, <1>3 DEF Ahead, Following, Counter
<1>5. Cardinality(Holders') = Cardinality(Holders) + 1
  BY <1>1, FS_AddElement
<1>6. \A q \in Holders : q # p /\ q \in Cpu /\ mine'[q] = mine[q]
  BY <1>2 DEF Holders
<1>7. mine'[p] = ticket
  BY <1>2
<1>8. \A q \in Holders : mine[q] # ticket
  BY <1>1, <1>2, <1>6 DEF LockInv, Queued, Ahead, Counter
<1>9. Ahead(serving, ticket) \in Nat
  BY <1>1, <1>2 DEF Ahead, Counter
<1>10. Ahead(serving', ticket') = Cardinality(Holders')
  BY <1>4, <1>5 DEF LockInv, Queued
<1>11. \A q \in Holders' : Ahead(serving', mine'[q]) < Ahead(serving', ticket')
  <2> SUFFICES ASSUME NEW q \in Holders'
               PROVE  Ahead(serving, mine'[q]) < Ahead(serving, ticket) + 1
    BY <1>4
  <2>1. CASE q = p
    BY <2>1, <1>7, <1>9
  <2>2. CASE q # p
    <3>1. q \in Holders /\ mine[q] \in Counter /\ mine'[q] = mine[q]
      BY <2>2, <1>2, <1>6 DEF Holders
    <3>2. Ahead(serving, mine[q]) < Ahead(serving, ticket)
      BY <3>1 DEF LockInv, Queued
    <3>3. Ahead(serving, mine[q]) \in Int
      BY <3>1, <1>1, <1>2 DEF Ahead, Counter
    <3> QED
      BY <3>1, <3>2, <3>3, <1>9
  <2> QED
    BY <2>1, <2>2
<1>12. \A q, r \in Holders' : mine'[q] = mine'[r] => q = r
  BY <1>6, <1>7, <1>8 DEF LockInv, Queued
<1> QED
  BY <1>10, <1>11, <1>12 DEF Queued

-----------------------------------------------------------------------------

(* A lock as SpinlockInitialise leaves it.                                 *)
LEMMA InitLock == SpinlockInit => LockInv
<1> SUFFICES ASSUME SpinlockInit PROVE LockInv
  OBVIOUS
<1>1. Holders = {}
  BY DEF SpinlockInit, Holders, Holding, Inside
<1>2. SpinlockTypeOK
  BY HoldersFinite DEF SpinlockInit, SpinlockTypeOK, Counter, Stand
<1>3. Queued
  BY <1>1, FS_EmptySet, HoldersFinite DEF SpinlockInit, Queued, Ahead
<1>4. Served /\ Attempted /\ Masked
  BY SpinlockAssumption DEF SpinlockInit, Served, Attempted, Masked, Inside, Trying
<1> QED
  BY <1>2, <1>3, <1>4 DEF LockInv

(* Steps that leave the counters and the numbers alone, and those who hold *)
(* one: then the queue is as it was.                                       *)
LEMMA QueueKept ==
    ASSUME LockInv, ticket' = ticket, serving' = serving, mine' = mine, Holders' = Holders
    PROVE  Queued'
BY DEF LockInv, Queued, Ahead

(* What PerCpuPushInterruptState and PerCpuPopInterruptState do to the     *)
(* fields of a processor, and to nobody else's.                            *)
Nested ==
    /\ enabled \in [Cpu -> BOOLEAN] /\ were \in [Cpu -> BOOLEAN]
    /\ depth \in [Cpu -> Nat]

(* PushInterruptState masks this processor, counts one level, and touches  *)
(* no other.                                                               *)
LEMMA PushNested ==
    ASSUME Nested, NEW p \in Cpu, PushInterruptState(p)
    PROVE  /\ Nested' /\ ~enabled'[p] /\ depth'[p] > 0
           /\ \A q \in Cpu \ {p} : enabled'[q] = enabled[q] /\ depth'[q] = depth[q]
BY DEF Nested, PushInterruptState

(* The pop of a section that was entered.                                  *)
LEMMA PopNested ==
    ASSUME Nested, NEW p \in Cpu, PopInterruptState(p), depth[p] > 0
    PROVE  /\ Nested'
           /\ \A q \in Cpu \ {p} : enabled'[q] = enabled[q] /\ depth'[q] = depth[q]
BY DEF Nested, PopInterruptState

(* A critical section without the lock.                                    *)
LEMMA SectionKeeps ==
    ASSUME LockInv, NEW p \in Cpu, Section(p)
    PROVE  LockInv'
<1>1. UNCHANGED <<ticket, serving, owner, stands, mine, seen>> /\ stands[p] = "out"
  BY DEF Section
<1>2. Holders' = Holders
  BY <1>1 DEF Holders
<1>3. Queued'
  BY <1>1, <1>2, QueueKept
<1>4. Served' /\ Attempted'
  BY <1>1 DEF LockInv, Served, Attempted
<1>5. /\ Nested'
      /\ \A q \in Cpu \ {p} : enabled'[q] = enabled[q] /\ depth'[q] = depth[q]
  <2>1. Nested
    BY DEF LockInv, SpinlockTypeOK, Nested
  <2> QED
    BY <2>1, PushNested, PopNested DEF Section
<1>6. SpinlockTypeOK'
  BY <1>1, <1>5 DEF LockInv, SpinlockTypeOK, Nested
<1>7. Masked'
  BY <1>1, <1>5 DEF LockInv, Masked
<1> QED
  BY <1>3, <1>4, <1>6, <1>7 DEF LockInv

(* SpinlockAcquire takes a number.                                         *)
LEMMA AcquireKeeps ==
    ASSUME LockInv, NEW p \in Cpu, Acquire(p)
    PROVE  LockInv'
<1>0. SpinlockTypeOK /\ stands[p] = "out"
  BY DEF LockInv, Acquire
<1>1. Holders' = Holders \cup {p} /\ p \notin Holders
  BY <1>0 DEF SpinlockTypeOK, Acquire, Holders, Holding, Inside
<1>2. Queued'
  BY <1>1, Issued DEF Acquire, Issue
<1>3. SpinlockTypeOK'
  BY <1>0, HoldersFinite DEF SpinlockTypeOK, Acquire, Issue, Following, Counter, Stand, Holding,
     PushInterruptState
<1>4. Served'
  BY <1>0 DEF LockInv, Served, Acquire, Issue, SpinlockTypeOK, Inside
<1>5. Attempted'
  BY <1>0 DEF Attempted, Acquire, Issue, NotLapped, SpinlockTypeOK, Trying
<1>6. Masked'
  BY <1>0 DEF LockInv, Masked, Acquire, SpinlockTypeOK, PushInterruptState
<1> QED
  BY <1>2, <1>3, <1>4, <1>5, <1>6 DEF LockInv

(* A number comes up, its processor becomes the owner, and the first store *)
(* of a release: who holds a number stays the same.                        *)
LEMMA ServeKeeps ==
    ASSUME LockInv, NEW p \in Cpu, Serve(p) \/ NoteAcquired(p) \/ Release(p)
    PROVE  LockInv'
<1>0. SpinlockTypeOK /\ stands[p] \in Holding
  BY DEF LockInv, Serve, NoteAcquired, Release, Holding, Inside
<1>1. Holders' = Holders /\ UNCHANGED <<ticket, serving, mine, seen, enabled, depth, were>>
  BY <1>0 DEF SpinlockTypeOK, Serve, NoteAcquired, Release, Holders, Holding, Inside
<1>2. Queued'
  BY <1>1, QueueKept
<1>3. SpinlockTypeOK'
  BY <1>0, <1>1 DEF SpinlockTypeOK, Serve, NoteAcquired, Release, Stand, Holding, Inside
<1>4. Served'
  <2>1. \A q \in Cpu : stands[q] \in Inside => mine[q] = serving
    BY DEF LockInv, Served
  <2>2. \A q \in Cpu : stands'[q] \in Inside => mine[q] = serving
    BY <1>0, <2>1 DEF SpinlockTypeOK, Serve, NoteAcquired, Release, Inside
  <2>3. \A q \in Cpu : stands[q] = "in" /\ stands[p] \in Inside => q = p
    BY <2>1 DEF LockInv, Queued, Holders, Holding, Inside
  <2>4. \A q \in Cpu : owner' = q <=> stands'[q] = "in"
    BY <1>0, <2>3, SpinlockAssumption
       DEF LockInv, Served, SpinlockTypeOK, Serve, NoteAcquired, Release, Inside
  <2> QED
    BY <1>1, <2>2, <2>4 DEF Served
<1>5. Attempted'
  BY <1>0, <1>1 DEF LockInv, Attempted, SpinlockTypeOK, Serve, NoteAcquired, Release, Trying
<1>6. Masked'
  BY <1>0, <1>1 DEF LockInv, Masked, SpinlockTypeOK, Serve, NoteAcquired, Release, Holding, Inside
<1> QED
  BY <1>2, <1>3, <1>4, <1>5, <1>6 DEF LockInv

(* The reads of SpinlockClaimIfFree, and an attempt that fails.            *)
LEMMA AttemptKeeps ==
    ASSUME LockInv, NEW p \in Cpu, TryAcquire(p) \/ TryFails(p) \/ TryFindsFree(p)
    PROVE  LockInv'
<1>0. SpinlockTypeOK /\ stands[p] \in {"out"} \cup Trying
  BY DEF LockInv, TryAcquire, TryFails, TryFindsFree, Trying
<1>1. Holders' = Holders /\ UNCHANGED <<ticket, serving, mine, owner>>
  BY <1>0 DEF SpinlockTypeOK, TryAcquire, TryFails, TryFindsFree, Holders, Holding, Inside, Trying
<1>2. Queued'
  BY <1>1, QueueKept
<1>3. SpinlockTypeOK'
  <2>1. 0 \in Counter
    BY HoldersFinite DEF Counter
  <2>2. stands[p] # "out" => depth[p] > 0
    BY DEF LockInv, Masked
  <2>3. Nested
    BY <1>0 DEF SpinlockTypeOK, Nested
  <2>4. Nested'
    <3>1. CASE TryAcquire(p)
      BY <2>3, <3>1, PushNested DEF TryAcquire
    <3>2. CASE TryFails(p)
      BY <2>2, <2>3, <3>2, PopNested DEF TryFails, Trying
    <3>3. CASE TryFindsFree(p)
      BY <2>3, <3>3 DEF TryFindsFree, Nested
    <3> QED
      BY <3>1, <3>2, <3>3
  <2>5. stands' \in [Cpu -> Stand] /\ seen' \in [Cpu -> Counter]
    BY <1>0, <2>1 DEF SpinlockTypeOK, TryAcquire, TryFails, TryFindsFree, Stand, Trying
  <2> QED
    BY <1>0, <1>1, <2>4, <2>5 DEF SpinlockTypeOK, Nested
<1>4. Served'
  BY <1>0, <1>1 DEF LockInv, Served, SpinlockTypeOK, TryAcquire, TryFails, TryFindsFree, Inside,
     Trying
<1>5. Attempted'
  BY <1>0, <1>1 DEF LockInv, Attempted, SpinlockTypeOK, TryAcquire, TryFails, TryFindsFree, Trying
<1>6. Masked'
  BY <1>0 DEF LockInv, Masked, SpinlockTypeOK, TryAcquire, TryFails, TryFindsFree, Trying,
     PushInterruptState, PopInterruptState
<1> QED
  BY <1>2, <1>3, <1>4, <1>5, <1>6 DEF LockInv

(* The exchange succeeds where nobody holds a number.                      *)
LEMMA ClaimKeeps ==
    ASSUME LockInv, NEW p \in Cpu, Claim(p)
    PROVE  LockInv'
<1>0. SpinlockTypeOK /\ stands[p] = "claims" /\ ticket = seen[p] /\ serving = ticket
  BY DEF LockInv, Claim, Attempted, Trying
<1>1. Holders = {}
  <2> SUFFICES ASSUME NEW q \in Holders PROVE FALSE
    OBVIOUS
  <2>1. Ahead(serving, mine[q]) < Ahead(serving, ticket)
    BY DEF LockInv, Queued
  <2>2. mine[q] \in Counter /\ serving \in Counter
    BY <1>0 DEF SpinlockTypeOK, Holders
  <2> QED
    BY <1>0, <2>1, <2>2, HoldersFinite DEF Ahead, Counter
<1>2. Holders' = Holders \cup {p} /\ p \notin Holders
  BY <1>0 DEF SpinlockTypeOK, Claim, Holders, Holding, Inside
<1>3. Queued'
  BY <1>2, Issued DEF Claim, Issue
<1>4. SpinlockTypeOK'
  BY <1>0, HoldersFinite DEF SpinlockTypeOK, Claim, Issue, Following, Counter, Stand, Holding, Inside
<1>5. Served'
  <2>1. \A q \in Cpu : stands[q] \notin Inside
    BY <1>1 DEF Holders, Holding
  <2> QED
    BY <1>0, <2>1 DEF LockInv, Served, Claim, Issue, SpinlockTypeOK, Inside
<1>6. Attempted'
  BY <1>0 DEF Attempted, Claim, Issue, NotLapped, SpinlockTypeOK, Trying
<1>7. Masked'
  BY <1>0 DEF LockInv, Masked, Claim, SpinlockTypeOK
<1> QED
  BY <1>3, <1>4, <1>5, <1>6, <1>7 DEF LockInv

(* The second store of a release: the queue loses its first.               *)
LEMMA AdmitNextKeeps ==
    ASSUME LockInv, NEW p \in Cpu, AdmitNext(p)
    PROVE  LockInv'
<1>0. SpinlockTypeOK /\ stands[p] = "left" /\ p \in Holders /\ mine[p] = serving
  BY DEF LockInv, AdmitNext, Served, Holders, Holding, Inside
<1>1. ticket \in Counter /\ serving \in Counter /\ mine \in [Cpu -> Counter]
  BY <1>0 DEF SpinlockTypeOK
<1>2. Holders' = Holders \ {p}
  BY <1>0 DEF SpinlockTypeOK, AdmitNext, Holders, Holding, Inside
<1>3. Ahead(serving, ticket) > 0
  <2>1. Ahead(serving, mine[p]) < Ahead(serving, ticket)
    BY <1>0 DEF LockInv, Queued
  <2>2. Ahead(serving, mine[p]) = 0
    BY <1>0, <1>1 DEF Ahead, Counter
  <2>3. Ahead(serving, ticket) \in Int
    BY <1>1, HoldersFinite DEF Ahead, Counter
  <2> QED
    BY <2>1, <2>2, <2>3
<1>4. Ahead(serving', ticket) = Ahead(serving, ticket) - 1
  BY <1>1, <1>3, HoldersFinite DEF AdmitNext, Ahead, Following, Counter
<1>5. \A q \in Holders' : /\ q \in Holders /\ mine'[q] = mine[q] /\ mine[q] \in Counter
                          /\ mine[q] # serving
  BY <1>0, <1>1, <1>2 DEF LockInv, Queued, AdmitNext, Holders
<1>6. Queued'
  <2>1. Ahead(serving', ticket') = Cardinality(Holders')
    BY <1>0, <1>2, <1>4, HoldersFinite, FS_RemoveElement DEF LockInv, Queued, AdmitNext
  <2>2. \A q \in Holders' : Ahead(serving', mine'[q]) < Ahead(serving', ticket')
    <3> SUFFICES ASSUME NEW q \in Holders'
                 PROVE  Ahead(serving', mine[q]) < Ahead(serving, ticket) - 1
      BY <1>4, <1>5 DEF AdmitNext
    <3>1. Ahead(serving, mine[q]) < Ahead(serving, ticket)
      BY <1>5 DEF LockInv, Queued
    <3>2. Ahead(serving', mine[q]) = Ahead(serving, mine[q]) - 1
      BY <1>1, <1>5, HoldersFinite DEF AdmitNext, Ahead, Following, Counter
    <3>3. Ahead(serving, mine[q]) \in Int /\ Ahead(serving, ticket) \in Int
      BY <1>1, <1>5, HoldersFinite DEF Ahead, Counter
    <3> QED
      BY <3>1, <3>2, <3>3
  <2>3. \A q, r \in Holders' : mine'[q] = mine'[r] => q = r
    BY <1>5 DEF LockInv, Queued
  <2> QED
    BY <2>1, <2>2, <2>3 DEF Queued
<1>7. SpinlockTypeOK'
  <2>1. depth[p] > 0 /\ 0 \in Counter
    BY <1>0, HoldersFinite DEF LockInv, Masked, Counter
  <2> QED
    BY <1>0, <2>1, HoldersFinite DEF SpinlockTypeOK, AdmitNext, Following, Counter, Stand,
       PopInterruptState
<1>8. Served'
  <2>1. \A q \in Cpu : stands[q] \in Inside => q = p
    BY <1>0 DEF LockInv, Served, Queued, Holders, Holding
  <2> QED
    BY <1>0, <2>1 DEF LockInv, Served, AdmitNext, SpinlockTypeOK, Inside
<1>9. Attempted'
  <2>1. serving # ticket
    BY <1>1, <1>3 DEF Ahead, Counter
  <2> QED
    BY <1>0, <2>1 DEF LockInv, Attempted, AdmitNext, SpinlockTypeOK, Trying
<1>10. Masked'
  BY <1>0 DEF LockInv, Masked, AdmitNext, SpinlockTypeOK, PopInterruptState
<1> QED
  BY <1>6, <1>7, <1>8, <1>9, <1>10 DEF LockInv

(* A step of something else.                                               *)
LEMMA StutterKeeps ==
    ASSUME LockInv, UNCHANGED lockVars
    PROVE  LockInv'
<1>1. Holders' = Holders
  BY DEF lockVars, Holders
<1>2. Queued'
  BY <1>1, QueueKept DEF lockVars
<1> QED
  BY <1>2 DEF LockInv, lockVars, SpinlockTypeOK, Served, Attempted, Masked

(* The strengthened invariant of the lock holds at every step of every     *)
(* processor (SpinlockAcquire, SpinlockTryAcquire, SpinlockRelease).       *)
THEOREM LockInductive == SpinlockSpec => []LockInv
<1>1. ASSUME LockInv, [SpinlockNext]_lockVars PROVE LockInv'
  <2>1. ASSUME NEW p \in Cpu,
               \/ Section(p) \/ Acquire(p) \/ Serve(p) \/ NoteAcquired(p)
               \/ TryAcquire(p) \/ TryFails(p) \/ TryFindsFree(p) \/ Claim(p)
               \/ Release(p) \/ AdmitNext(p)
        PROVE  LockInv'
    BY <1>1, <2>1, SectionKeeps, AcquireKeeps, ServeKeeps, AttemptKeeps, ClaimKeeps, AdmitNextKeeps
  <2> QED
    BY <1>1, <2>1, StutterKeeps DEF SpinlockNext
<1> QED
  BY <1>1, InitLock, PTL DEF SpinlockSpec

(* The ticket lock of spinlock.c excludes, whatever the number of          *)
(* processors: one is inside, the owner is who is in, and none of those    *)
(* inside, waiting or trying takes interrupts.                             *)
THEOREM Exclusion == SpinlockSpec => []LockExcludes
<1>1. LockInv => LockExcludes
  <2> SUFFICES ASSUME LockInv PROVE LockExcludes
    OBVIOUS
  <2>1. \A p, q \in Cpu : stands[p] \in Inside /\ stands[q] \in Inside => p = q
    BY DEF LockInv, Served, Queued, Holders, Holding
  <2>2. \A p \in Cpu : owner = p <=> stands[p] = "in"
    BY DEF LockInv, Served
  <2>3. \A p \in Cpu : stands[p] # "out" => ~enabled[p]
    BY DEF LockInv, Masked
  <2> QED
    BY <2>1, <2>2, <2>3 DEF LockExcludes
<1> QED
  BY <1>1, LockInductive, PTL

-----------------------------------------------------------------------------
(***************************************************************************)
(* The scheduler.                                                          *)
(***************************************************************************)

(* Queue c holds thread t.                                                 *)
Contains(c, t) == \E i \in 1 .. Len(queue[c]) : queue[c][i] = t

(* Where a processor's own thread may stand, phase by phase.  A thread     *)
(* that has been put back is READY while it is still current, and then it  *)
(* is in this processor's own queue.                                       *)
CurrentState ==
    \A c \in CPU : current[c] # Idle =>
        \/ phase[c] \in {"run", "wake"} /\ tstate[current[c]] = "RUNNING"
        \/ phase[c] \in {"resched", "place"}
             /\ tstate[current[c]] \in {"RUNNING", "BLOCKED", "EXITED"}
        \/ phase[c] = "switch"
             /\ \/ tstate[current[c]] \in {"BLOCKED", "EXITED"}
                \/ tstate[current[c]] = "READY" /\ Contains(c, current[c])

(* What has been taken off a queue is ready, and in no queue; and there is *)
(* such a thing exactly between the dequeue and the switch.                *)
NextState ==
    \A c \in CPU :
        /\ next[c] # None <=> phase[c] \in {"place", "switch"}
        /\ next[c] \in Thread => tstate[next[c]] = "READY" /\ ~queued[next[c]]

(* No two processors execute one thread, and no two have dequeued one.     *)
Apart ==
    \A c, d \in CPU : c # d =>
        /\ current[c] \in Thread => current[c] # current[d]
        /\ next[c] \in Thread => next[c] # next[d]

(* Runnable threads are somewhere, and what is in a queue is ready.        *)
Placed ==
    \A t \in Thread :
        /\ queued[t] => tstate[t] = "READY"
        /\ tstate[t] = "READY" => queued[t] \/ \E c \in CPU : next[c] = t
        /\ tstate[t] = "RUNNING" => \E c \in CPU : current[c] = t

(* User threads are of processor 0 and so is a walk of SchedulerWake; what *)
(* has a channel is a blocked user thread.                                 *)
Home ==
    /\ \A t \in User : affinity[t] \subseteq {0}
    /\ \A c \in CPU : c # 0 => /\ current[c] \notin User /\ next[c] \notin User
                               /\ \A t \in User : ~Contains(c, t)
                               /\ phase[c] # "wake"
    /\ \A t \in Thread : channel[t] # None => t \in User /\ tstate[t] = "BLOCKED"
    /\ phase[0] = "wake" => waking \in Channel

IInv ==
    /\ TypeOK
    /\ QueuedOnce
    /\ CurrentState
    /\ NextState
    /\ Apart
    /\ Placed
    /\ Home

----------------------------------------------------------------------------
(* Facts about the operators.                                              *)

(* There is a processor 0, the bootstrap processor.                        *)
LEMMA ZeroCpu == 0 \in CPU
  BY CpuAssumption DEF CPU

(* SchedulerEnqueue links at the tail and leaves the rest in place.        *)
LEMMA AppendFacts ==
    ASSUME NEW q \in Seq(Thread), NEW t \in Thread
    PROVE  /\ Append(q, t) \in Seq(Thread)
           /\ Len(q) \in Nat /\ Len(Append(q, t)) = Len(q) + 1
           /\ \A i \in 1 .. Len(q) : Append(q, t)[i] = q[i]
           /\ Append(q, t)[Len(q) + 1] = t
  OBVIOUS

(* SchedulerDequeue takes the head and leaves the rest in order.           *)
LEMMA TailFacts ==
    ASSUME NEW q \in Seq(Thread), q # <<>>
    PROVE  /\ Tail(q) \in Seq(Thread)
           /\ Head(q) = q[1] /\ Head(q) \in Thread
           /\ Len(q) \in Nat /\ Len(q) >= 1 /\ Len(Tail(q)) = Len(q) - 1
           /\ \A i \in 1 .. Len(q) - 1 : Tail(q)[i] = q[i + 1]
  OBVIOUS

(* SchedulerWithdraw unlinks one thread and leaves the rest in order.      *)
LEMMA WithoutFacts ==
    ASSUME NEW q \in Seq(Thread), NEW i \in 1 .. Len(q)
    PROVE  /\ Without(q, i) \in Seq(Thread)
           /\ Len(q) \in Nat /\ Len(Without(q, i)) = Len(q) - 1
           /\ \A j \in 1 .. Len(q) - 1 :
                 Without(q, i)[j] = IF j < i THEN q[j] ELSE q[j + 1]
  BY DEF Without

(* A queue holds a thread only if its flag is set, and a flag that is set  *)
(* has its queue.                                                          *)
LEMMA FlagMeansHeld ==
    ASSUME TypeOK, QueuedOnce
    PROVE  /\ \A c \in CPU, t \in Thread : Contains(c, t) => queued[t]
           /\ \A t \in Thread : queued[t] => \E c \in CPU : Contains(c, t)
           /\ \A c, d \in CPU, t \in Thread : Contains(c, t) /\ Contains(d, t) => c = d
  BY DEF TypeOK, QueuedOnce, Contains

(* SchedulerEnqueue of a thread in no queue keeps every thread queued once *)
(* and adds exactly that one to exactly that queue.                        *)
LEMMA EnqueueKeeps ==
    ASSUME TypeOK, QueuedOnce, NEW c \in CPU, NEW t \in Thread, ~queued[t], Enqueue(c, t)
    PROVE  /\ QueuedOnce'
           /\ queue' \in [CPU -> Seq(Thread)]
           /\ \A d \in CPU, x \in Thread :
                 Contains(d, x)' <=> (Contains(d, x) \/ (d = c /\ x = t))
  <1>1. queue[c] \in Seq(Thread) /\ \A d \in CPU : queue[d] \in Seq(Thread)
    BY DEF TypeOK
  <1>2. /\ queue'[c] = Append(queue[c], t)
        /\ \A d \in CPU : d # c => queue'[d] = queue[d]
        /\ queue' \in [CPU -> Seq(Thread)]
    BY <1>1, AppendFacts DEF Enqueue, TypeOK
  <1>3. /\ Len(queue[c]) \in Nat /\ Len(queue'[c]) = Len(queue[c]) + 1
        /\ \A i \in 1 .. Len(queue[c]) : queue'[c][i] = queue[c][i]
        /\ queue'[c][Len(queue[c]) + 1] = t
    BY <1>1, <1>2, AppendFacts
  <1>4. /\ queued' = [queued EXCEPT ![t] = TRUE]
        /\ queued \in [Thread -> BOOLEAN]
    BY DEF Enqueue, TypeOK
  <1>5. \A d \in CPU : \A i \in 1 .. Len(queue[d]) : queue[d][i] # t /\ queued[queue[d][i]]
    BY DEF QueuedOnce
  <1>a. ASSUME NEW d \in CPU, NEW i \in 1 .. Len(queue'[d])
        PROVE  \/ i \in 1 .. Len(queue[d]) /\ queue'[d][i] = queue[d][i]
               \/ d = c /\ i = Len(queue[c]) + 1 /\ queue'[d][i] = t
    <2>1. CASE d = c
      BY <2>1, <1>a, <1>3
    <2>2. CASE d # c
      BY <2>2, <1>a, <1>2
    <2>3. QED
      BY <2>1, <2>2
  <1>b. ASSUME NEW d \in CPU, NEW i \in 1 .. Len(queue[d])
        PROVE  i \in 1 .. Len(queue'[d]) /\ queue'[d][i] = queue[d][i]
    <2>1. CASE d = c
      BY <2>1, <1>b, <1>3
    <2>2. CASE d # c
      BY <2>2, <1>b, <1>2
    <2>3. QED
      BY <2>1, <2>2
  <1>c. Len(queue[c]) + 1 \in 1 .. Len(queue'[c])
    BY <1>3
  <1>d. \A d, e \in CPU : \A i \in 1 .. Len(queue[d]), j \in 1 .. Len(queue[e]) :
            queue[d][i] = queue[e][j] => d = e /\ i = j
    BY DEF QueuedOnce
  <1>6. \A d \in CPU, x \in Thread :
            Contains(d, x)' <=> (Contains(d, x) \/ (d = c /\ x = t))
    BY <1>3, <1>a, <1>b, <1>c, SMTT(20) DEF Contains
  <1>7. QueuedOnce'
    <2>1. \A d \in CPU : \A i \in 1 .. Len(queue'[d]) : queued'[queue'[d][i]]
      BY <1>a, <1>4, <1>5
    <2>2. \A x \in Thread : queued'[x] =>
             \E d \in CPU : \E i \in 1 .. Len(queue'[d]) : queue'[d][i] = x
      BY <1>4, <1>6 DEF Contains, QueuedOnce
    <2>3. ASSUME NEW d \in CPU, NEW e \in CPU,
                 NEW i \in 1 .. Len(queue'[d]), NEW j \in 1 .. Len(queue'[e]),
                 queue'[d][i] = queue'[e][j]
          PROVE  d = e /\ i = j
      <3>1. CASE queue'[d][i] = t
        <4>1. ~(i \in 1 .. Len(queue[d]) /\ queue'[d][i] = queue[d][i])
          BY <3>1, <1>5
        <4>2. ~(j \in 1 .. Len(queue[e]) /\ queue'[e][j] = queue[e][j])
          BY <3>1, <2>3, <1>5
        <4>3. QED
          BY <4>1, <4>2, <1>a
      <3>2. CASE queue'[d][i] # t
        <4>1. i \in 1 .. Len(queue[d]) /\ queue'[d][i] = queue[d][i]
          BY <3>2, <1>a
        <4>2. j \in 1 .. Len(queue[e]) /\ queue'[e][j] = queue[e][j]
          BY <3>2, <2>3, <1>a
        <4>3. queue[d][i] = queue[e][j]
          BY <4>1, <4>2, <2>3
        <4>4. QED
          BY <4>1, <4>2, <4>3, <1>d
      <3>3. QED
        BY <3>1, <3>2
    <2>4. QED
      BY <2>1, <2>2, <2>3 DEF QueuedOnce
  <1>8. QED
    BY <1>2, <1>6, <1>7

(* SchedulerDequeue keeps every thread queued once and takes exactly the   *)
(* head out.                                                               *)
LEMMA DequeueKeeps ==
    ASSUME TypeOK, QueuedOnce, NEW c \in CPU, Dequeue(c)
    PROVE  /\ QueuedOnce'
           /\ queue' \in [CPU -> Seq(Thread)]
           /\ Head(queue[c]) \in Thread /\ Contains(c, Head(queue[c]))
           /\ \A d \in CPU, x \in Thread :
                 Contains(d, x)' <=> (Contains(d, x) /\ x # Head(queue[c]))
  <1> DEFINE q == queue[c]
  <1> DEFINE t == Head(queue[c])
  <1>1. /\ q \in Seq(Thread) /\ q # <<>>
        /\ \A d \in CPU : queue[d] \in Seq(Thread)
        /\ \A d \in CPU : Len(queue[d]) \in Nat
    BY DEF TypeOK, Dequeue
  <1>2. /\ Tail(q) \in Seq(Thread)
        /\ t = q[1] /\ t \in Thread
        /\ Len(q) \in Nat /\ Len(q) >= 1 /\ Len(Tail(q)) = Len(q) - 1
        /\ \A i \in 1 .. Len(q) - 1 : Tail(q)[i] = q[i + 1]
    BY <1>1, TailFacts
  <1>3. /\ queue'[c] = Tail(q)
        /\ \A d \in CPU : d # c => queue'[d] = queue[d]
        /\ queue' \in [CPU -> Seq(Thread)]
        /\ queued' = [queued EXCEPT ![t] = FALSE]
        /\ queued \in [Thread -> BOOLEAN]
    BY <1>1, <1>2 DEF Dequeue, TypeOK
  <1> HIDE DEF q, t
  <1>4. q = queue[c]
    BY DEF q
  <1>5. \A d \in CPU : \A j \in 1 .. Len(queue[d]) : queue[d][j] = t => d = c /\ j = 1
    BY <1>1, <1>2, <1>4 DEF QueuedOnce
  <1>6. \A d \in CPU, x \in Thread : Contains(d, x)' <=> (Contains(d, x) /\ x # t)
    <2> SUFFICES ASSUME NEW d \in CPU, NEW x \in Thread
                 PROVE  Contains(d, x)' <=> (Contains(d, x) /\ x # t)
      OBVIOUS
    <2>1. CASE d # c
      BY <2>1, <1>3, <1>5 DEF Contains
    <2>2. CASE d = c
      <3>1. ASSUME NEW i \in 1 .. Len(queue'[c]), queue'[c][i] = x
            PROVE  i + 1 \in 1 .. Len(q) /\ q[i + 1] = x /\ x # t
        BY <3>1, <1>2, <1>3, <1>4, <1>5
      <3>2. ASSUME NEW i \in 1 .. Len(q), q[i] = x, x # t
            PROVE  i - 1 \in 1 .. Len(queue'[c]) /\ queue'[c][i - 1] = x
        BY <3>2, <1>2, <1>3
      <3>3. QED
        BY <2>2, <3>1, <3>2, <1>4 DEF Contains
    <2>3. QED
      BY <2>1, <2>2
  <1>7. QueuedOnce'
    <2>1. \A d \in CPU : \A i \in 1 .. Len(queue'[d]) : queued'[queue'[d][i]]
      <3> SUFFICES ASSUME NEW d \in CPU, NEW i \in 1 .. Len(queue'[d])
                   PROVE  queued'[queue'[d][i]]
        OBVIOUS
      <3>1. PICK x \in Thread : x = queue'[d][i]
        BY <1>3
      <3>2. Contains(d, x)'
        BY <3>1 DEF Contains
      <3>3. Contains(d, x) /\ x # t
        BY <3>2, <1>6
      <3>4. QED
        BY <3>1, <3>3, <1>3, FlagMeansHeld
    <2>2. \A x \in Thread : queued'[x] =>
             \E d \in CPU : \E i \in 1 .. Len(queue'[d]) : queue'[d][i] = x
      BY <1>3, <1>6, FlagMeansHeld DEF Contains
    <2>3. ASSUME NEW d \in CPU, NEW e \in CPU,
                 NEW i \in 1 .. Len(queue'[d]), NEW j \in 1 .. Len(queue'[e]),
                 queue'[d][i] = queue'[e][j]
          PROVE  d = e /\ i = j
      <3> DEFINE shift(f, k) == IF f = c THEN k + 1 ELSE k
      <3>1. ASSUME NEW f \in CPU, NEW k \in 1 .. Len(queue'[f])
            PROVE  shift(f, k) \in 1 .. Len(queue[f]) /\ queue[f][shift(f, k)] = queue'[f][k]
        <4>1. CASE f = c
          BY <4>1, <1>2, <1>3, <1>4
        <4>2. CASE f # c
          BY <4>2, <1>3
        <4>3. QED
          BY <4>1, <4>2
      <3>2. PICK a \in 1 .. Len(queue[d]) : a = shift(d, i) /\ queue[d][a] = queue'[d][i]
        BY <3>1
      <3>3. PICK b \in 1 .. Len(queue[e]) : b = shift(e, j) /\ queue[e][b] = queue'[e][j]
        BY <3>1
      <3>4. d = e /\ a = b
        BY <2>3, <3>2, <3>3 DEF QueuedOnce
      <3>5. QED
        BY <3>2, <3>3, <3>4
    <2>4. QED
      BY <2>1, <2>2, <2>3 DEF QueuedOnce
  <1>8. Contains(c, t)
    BY <1>1, <1>2, <1>4 DEF Contains
  <1>9. QED
    BY <1>2, <1>3, <1>6, <1>7, <1>8 DEF t

(* SchedulerWithdraw keeps every thread queued once and takes exactly the  *)
(* thread it was given out.                                                *)
LEMMA WithdrawKeeps ==
    ASSUME TypeOK, QueuedOnce, NEW t \in Thread, NEW n \in 1 .. Len(queue[0]),
           queue[0][n] = t,
           queue' = [queue EXCEPT ![0] = Without(@, n)],
           queued' = [queued EXCEPT ![t] = FALSE]
    PROVE  /\ QueuedOnce'
           /\ queue' \in [CPU -> Seq(Thread)]
           /\ \A d \in CPU, x \in Thread : Contains(d, x)' <=> (Contains(d, x) /\ x # t)
  <1> DEFINE q == queue[0]
  <1> DEFINE old(d, k) == IF d = 0 /\ k >= n THEN k + 1 ELSE k
  <1>1. q \in Seq(Thread) /\ 0 \in CPU /\ queue \in [CPU -> Seq(Thread)]
    BY ZeroCpu DEF TypeOK
  <1>2. /\ Without(q, n) \in Seq(Thread)
        /\ Len(q) \in Nat /\ Len(Without(q, n)) = Len(q) - 1
        /\ \A j \in 1 .. Len(q) - 1 : Without(q, n)[j] = IF j < n THEN q[j] ELSE q[j + 1]
    BY <1>1, WithoutFacts
  <1>3. /\ queue'[0] = Without(q, n)
        /\ \A d \in CPU : d # 0 => queue'[d] = queue[d]
        /\ queue' \in [CPU -> Seq(Thread)]
        /\ queued \in [Thread -> BOOLEAN]
    BY <1>1, <1>2 DEF TypeOK
  <1>4. \A d \in CPU : \A j \in 1 .. Len(queue[d]) : queue[d][j] = t => d = 0 /\ j = n
    BY <1>1 DEF QueuedOnce
  <1>5. ASSUME NEW d \in CPU, NEW k \in 1 .. Len(queue'[d])
        PROVE  old(d, k) \in 1 .. Len(queue[d]) /\ queue[d][old(d, k)] = queue'[d][k]
    <2>1. CASE d = 0
      BY <2>1, <1>2, <1>3
    <2>2. CASE d # 0
      BY <2>2, <1>3
    <2>3. QED
      BY <2>1, <2>2
  <1>6. ASSUME NEW d \in CPU, NEW k \in 1 .. Len(queue'[d])
        PROVE  queue'[d][k] # t
    <2>1. old(d, k) \in 1 .. Len(queue[d]) /\ queue[d][old(d, k)] = queue'[d][k]
      BY <1>5, <1>6
    <2>2. ~(d = 0 /\ old(d, k) = n)
      <3>1. k \in Int /\ n \in Int
        BY <1>1, <1>6
      <3>2. QED
        BY <3>1
    <2>3. QED
      BY <1>4, <2>1, <2>2
  <1>7. ASSUME NEW d \in CPU, NEW j \in 1 .. Len(queue[d]), queue[d][j] # t
        PROVE  \E k \in 1 .. Len(queue'[d]) : queue'[d][k] = queue[d][j]
    <2>1. CASE d # 0
      BY <2>1, <1>3
    <2>2. CASE d = 0 /\ j < n
      <3>1. j \in 1 .. Len(queue'[d]) /\ queue'[d][j] = queue[d][j]
        BY <2>2, <1>2, <1>3
      <3>2. QED
        BY <3>1
    <2>3. CASE d = 0 /\ j > n
      <3>1. j - 1 \in 1 .. Len(queue'[d]) /\ queue'[d][j - 1] = queue[d][j]
        BY <2>3, <1>2, <1>3
      <3>2. QED
        BY <3>1
    <2>4. d = 0 => j # n
      BY <1>7
    <2>5. QED
      BY <2>1, <2>2, <2>3, <2>4
  <1> HIDE DEF old, q
  <1>8. \A d \in CPU, x \in Thread : Contains(d, x)' <=> (Contains(d, x) /\ x # t)
    <2> SUFFICES ASSUME NEW d \in CPU, NEW x \in Thread
                 PROVE  Contains(d, x)' <=> (Contains(d, x) /\ x # t)
      OBVIOUS
    <2>1. ASSUME NEW k \in 1 .. Len(queue'[d]), queue'[d][k] = x
          PROVE  Contains(d, x) /\ x # t
      <3>1. PICK a \in 1 .. Len(queue[d]) : queue[d][a] = queue'[d][k]
        BY <1>5
      <3>2. QED
        BY <2>1, <3>1, <1>6 DEF Contains
    <2>2. ASSUME NEW j \in 1 .. Len(queue[d]), queue[d][j] = x, x # t
          PROVE  \E k \in 1 .. Len(queue'[d]) : queue'[d][k] = x
      BY <2>2, <1>7
    <2>3. QED
      BY <2>1, <2>2 DEF Contains
  <1>9. QueuedOnce'
    <2>1. \A d \in CPU : \A i \in 1 .. Len(queue'[d]) : queued'[queue'[d][i]]
      <3> SUFFICES ASSUME NEW d \in CPU, NEW i \in 1 .. Len(queue'[d])
                   PROVE  queued'[queue'[d][i]]
        OBVIOUS
      <3>1. queue'[d][i] \in Thread /\ queue'[d][i] # t
        BY <1>3, <1>6
      <3>2. queued[queue'[d][i]]
        BY <1>5 DEF QueuedOnce
      <3>3. QED
        BY <3>1, <3>2, <1>3
    <2>2. \A x \in Thread : queued'[x] =>
             \E d \in CPU : \E i \in 1 .. Len(queue'[d]) : queue'[d][i] = x
      BY <1>3, <1>8, FlagMeansHeld DEF Contains
    <2>3. ASSUME NEW d \in CPU, NEW e \in CPU,
                 NEW i \in 1 .. Len(queue'[d]), NEW j \in 1 .. Len(queue'[e]),
                 queue'[d][i] = queue'[e][j]
          PROVE  d = e /\ i = j
      <3>1. PICK a \in 1 .. Len(queue[d]) : a = old(d, i) /\ queue[d][a] = queue'[d][i]
        BY <1>5
      <3>2. PICK b \in 1 .. Len(queue[e]) : b = old(e, j) /\ queue[e][b] = queue'[e][j]
        BY <1>5
      <3>3. d = e /\ a = b
        BY <2>3, <3>1, <3>2 DEF QueuedOnce
      <3>4. QED
        BY <3>1, <3>2, <3>3 DEF old
    <2>4. QED
      BY <2>1, <2>2, <2>3 DEF QueuedOnce
  <1>10. QED
    BY <1>3, <1>8, <1>9

----------------------------------------------------------------------------
(* The scheduler begins with nothing queued and every processor idle.      *)
LEMMA InitHolds == Init => IInv
  <1> SUFFICES ASSUME Init PROVE IInv
    OBVIOUS
  <1>1. TypeOK
    BY ZeroCpu DEF Init, TypeOK, Phases
  <1>2. QueuedOnce
    BY DEF Init, QueuedOnce
  <1>3. CurrentState /\ NextState /\ Apart
    BY ThreadAssumption DEF Init, CurrentState, NextState, Apart, Idle, None
  <1>4. Placed
    BY DEF Init, Placed
  <1>5. Home
    BY ZeroCpu, ThreadAssumption DEF Init, Home, Contains, Thread, Idle, None
  <1>6. QED
    BY <1>1, <1>2, <1>3, <1>4, <1>5 DEF IInv
----------------------------------------------------------------------------
(* Every step keeps the invariant, action by action.                       *)

(* None and the idle thread are nobody's.                                  *)
LEMMA NotThreads ==
    /\ None \notin Thread /\ Idle \notin Thread /\ Idle # None /\ None \notin Channel
    /\ User \subseteq Thread
  BY ThreadAssumption, ChannelAssumption DEF Idle, None, Thread

(* SchedulerRescheduleLocked takes the head of its queue.                  *)
LEMMA DequeueStep ==
    ASSUME IInv, NEW c \in CPU, Dequeue(c) PROVE IInv'
  <1> DEFINE t == Head(queue[c])
  <1> USE NotThreads
  <1>1. /\ QueuedOnce'
        /\ queue' \in [CPU -> Seq(Thread)]
        /\ t \in Thread /\ Contains(c, t)
        /\ \A d \in CPU, x \in Thread : Contains(d, x)' <=> (Contains(d, x) /\ x # t)
    BY DequeueKeeps DEF IInv
  <1>2. /\ phase[c] = "resched" /\ phase' = [phase EXCEPT ![c] = "place"]
        /\ next' = [next EXCEPT ![c] = t]
        /\ queued' = [queued EXCEPT ![t] = FALSE]
        /\ UNCHANGED <<tstate, channel, affinity, current, waking>>
    BY DEF Dequeue
  <1> HIDE DEF t
  <1>3. TypeOK'
    BY <1>1, <1>2 DEF IInv, TypeOK, Phases
  <1>4. queued[t] /\ tstate[t] = "READY" /\ next[c] = None
        /\ (\A d \in CPU : Contains(d, t) => d = c)
    BY <1>1, <1>2, FlagMeansHeld DEF IInv, Placed, NextState
  <1>5. CurrentState'
    BY <1>1, <1>2, <1>4 DEF IInv, TypeOK, CurrentState
  <1>6. NextState'
    BY <1>1, <1>2, <1>4 DEF IInv, TypeOK, NextState
  <1>7. Apart'
    BY <1>1, <1>2, <1>4 DEF IInv, TypeOK, NextState, Apart
  <1>8. Placed'
    BY <1>1, <1>2, <1>4 DEF IInv, TypeOK, Placed
  <1>9. Home'
    BY <1>1, <1>2, <1>4 DEF IInv, TypeOK, Home, Thread
  <1>10. QED
    BY <1>1, <1>3, <1>5, <1>6, <1>7, <1>8, <1>9 DEF IInv

(* It found nothing, or the thread that leaves is not runnable: no queue   *)
(* changes.                                                                *)
LEMMA NoQueueStep ==
    ASSUME IInv, NEW c \in CPU, KeepRunning(c) \/ GoIdle(c) \/ LeaveOff(c) PROVE IInv'
  <1> USE NotThreads
  <1>1. UNCHANGED <<queue, queued, tstate, channel, affinity, current, waking>>
    BY DEF KeepRunning, GoIdle, LeaveOff, threadVars
  <1>2. QueuedOnce' /\ \A d \in CPU, x \in Thread : Contains(d, x)' <=> Contains(d, x)
    BY <1>1 DEF IInv, QueuedOnce, Contains
  <1>3. TypeOK'
    BY <1>1 DEF IInv, TypeOK, Phases, KeepRunning, GoIdle, LeaveOff
  <1>4. CurrentState'
    BY <1>1, <1>2 DEF IInv, TypeOK, CurrentState, KeepRunning, GoIdle, LeaveOff, StillRuns
  <1>a. \/ phase[c] = "resched" /\ phase' = [phase EXCEPT ![c] = "run"] /\ next' = next
        \/ /\ phase[c] = "resched" /\ phase' = [phase EXCEPT ![c] = "place"]
           /\ next' = [next EXCEPT ![c] = Idle]
        \/ phase[c] = "place" /\ phase' = [phase EXCEPT ![c] = "switch"] /\ next' = next
    BY DEF KeepRunning, GoIdle, LeaveOff
  <1>b. /\ phase \in [CPU -> Phases] /\ next \in [CPU -> Thread \cup {Idle, None}]
        /\ \A d \in CPU : d # c => phase'[d] = phase[d] /\ next'[d] = next[d]
        /\ next'[c] \in Thread => next'[c] = next[c]
        /\ next'[c] \in User => next'[c] = next[c]
        /\ phase'[c] \in {"run", "place", "switch"}
    BY <1>a DEF IInv, TypeOK
  <1>5. NextState'
    <2>1. ASSUME NEW d \in CPU
          PROVE  next'[d] # None <=> phase'[d] \in {"place", "switch"}
      <3>1. CASE d = c
        BY <3>1, <1>a, <1>b DEF IInv, NextState
      <3>2. CASE d # c
        BY <3>2, <1>b DEF IInv, NextState
      <3>3. QED
        BY <3>1, <3>2
    <2>2. \A d \in CPU : next'[d] \in Thread => tstate'[next'[d]] = "READY" /\ ~queued'[next'[d]]
      BY <1>1, <1>b DEF IInv, NextState
    <2>3. QED
      BY <2>1, <2>2 DEF NextState
  <1>6. Apart'
    BY <1>1, ZenonT(40) DEF IInv, TypeOK, Apart, KeepRunning, GoIdle, LeaveOff
  <1>7. Placed'
    BY <1>1 DEF IInv, TypeOK, Placed, NextState, KeepRunning, GoIdle, LeaveOff
  <1>8. Home'
    <2>1. ASSUME NEW d \in CPU, d # 0
          PROVE  /\ current'[d] \notin User /\ next'[d] \notin User
                 /\ \A x \in User : ~Contains(d, x)'
                 /\ phase'[d] # "wake"
      BY <2>1, <1>1, <1>2, <1>b DEF IInv, Home
    <2>2. phase'[0] = "wake" => waking' \in Channel
      BY <1>1, <1>b, ZeroCpu DEF IInv, Home
    <2>3. QED
      BY <1>1, <2>1, <2>2 DEF IInv, Home
  <1>9. QED
    BY <1>2, <1>3, <1>4, <1>5, <1>6, <1>7, <1>8 DEF IInv

(* The outgoing thread goes back on its own queue.                         *)
LEMMA PlaceBackStep ==
    ASSUME IInv, NEW c \in CPU, PlaceBack(c) PROVE IInv'
  <1> DEFINE t == current[c]
  <1> USE NotThreads
  <1>1. t \in Thread /\ tstate[t] = "RUNNING" /\ ~queued[t]
    BY DEF IInv, TypeOK, PlaceBack, Placed
  <1>2. /\ phase[c] = "place" /\ phase' = [phase EXCEPT ![c] = "switch"]
        /\ queued' = [queued EXCEPT ![t] = TRUE]
        /\ tstate' = [tstate EXCEPT ![t] = "READY"]
        /\ UNCHANGED <<channel, affinity, current, next, waking>>
    BY DEF PlaceBack, Enqueue
  <1>3. /\ QueuedOnce'
        /\ queue' \in [CPU -> Seq(Thread)]
        /\ \A d \in CPU, x \in Thread :
              Contains(d, x)' <=> (Contains(d, x) \/ (d = c /\ x = t))
    BY <1>1, EnqueueKeeps DEF IInv, PlaceBack
  <1>4. \A d \in CPU : d # c => current[d] # t
    BY <1>1 DEF IInv, Apart
  <1>5. \A d \in CPU : next[d] # t
    BY <1>1 DEF IInv, NextState
  <1>6. TypeOK'
    BY <1>1, <1>2, <1>3 DEF IInv, TypeOK, Phases
  <1>7. CurrentState'
    BY <1>1, <1>2, <1>3, <1>4 DEF IInv, TypeOK, CurrentState
  <1>8. NextState'
    BY <1>1, <1>2, <1>5 DEF IInv, TypeOK, NextState
  <1>9. Apart'
    BY <1>2 DEF IInv, Apart
  <1>10. Placed'
    BY <1>1, <1>2 DEF IInv, TypeOK, Placed
  <1>11. Home'
    BY <1>1, <1>2, <1>3 DEF IInv, TypeOK, Home
  <1>12. QED
    BY <1>3, <1>6, <1>7, <1>8, <1>9, <1>10, <1>11 DEF IInv

(* ThreadSwitchTo: the processor executes what it dequeued.                *)
LEMMA SwitchStep ==
    ASSUME IInv, NEW c \in CPU, Switch(c) PROVE IInv'
  <1> DEFINE t == next[c]
  <1> USE NotThreads
  <1>1. /\ phase[c] = "switch" /\ phase' = [phase EXCEPT ![c] = "run"]
        /\ current' = [current EXCEPT ![c] = t]
        /\ next' = [next EXCEPT ![c] = None]
        /\ tstate' = [x \in Thread |-> IF x = t THEN "RUNNING" ELSE tstate[x]]
        /\ channel' = [x \in Thread |-> IF x = t THEN None ELSE channel[x]]
        /\ UNCHANGED <<queue, queued, affinity, waking>>
    BY DEF Switch
  <1>2. /\ t \in Thread \cup {Idle}
        /\ t \in Thread => tstate[t] = "READY" /\ ~queued[t]
    BY <1>1 DEF IInv, TypeOK, NextState
  <1>3. QueuedOnce' /\ \A d \in CPU, x \in Thread : Contains(d, x)' <=> Contains(d, x)
    BY <1>1 DEF IInv, QueuedOnce, Contains
  <1>4. \A d \in CPU : current[d] \in Thread => current[d] # t
    BY <1>2, FlagMeansHeld DEF IInv, CurrentState
  <1>5. TypeOK'
    BY <1>1, <1>2 DEF IInv, TypeOK, Phases
  <1>6. CurrentState'
    BY <1>1, <1>2, <1>3, <1>4 DEF IInv, TypeOK, CurrentState
  <1>7. NextState'
    <2>1. \A d \in CPU : d # c /\ next[d] \in Thread => next[d] # t
      BY DEF IInv, Apart
    <2>2. QED
      BY <1>1, <1>2, <2>1 DEF IInv, TypeOK, NextState
  <1>8. Apart'
    BY <1>1, <1>4 DEF IInv, TypeOK, Apart
  <1>9. Placed'
    <2>1. current[c] \in Thread => tstate[current[c]] # "RUNNING"
      BY <1>1 DEF IInv, CurrentState
    <2>2. QED
      BY <1>1, <1>2, <2>1 DEF IInv, TypeOK, Placed
  <1>10. Home'
    <2>1. \A x \in Thread : channel'[x] # None => x \in User /\ tstate'[x] = "BLOCKED"
      BY <1>1, <1>2 DEF IInv, Home
    <2>2. phase'[0] = "wake" => waking' \in Channel
      BY <1>1, ZeroCpu DEF IInv, TypeOK, Home
    <2>3. ASSUME NEW d \in CPU, d # 0
          PROVE  /\ current'[d] \notin User /\ next'[d] \notin User
                 /\ \A x \in User : ~Contains(d, x)'
                 /\ phase'[d] # "wake"
      BY <2>3, <1>1, <1>3 DEF IInv, TypeOK, Home
    <2>4. QED
      BY <1>1, <2>1, <2>2, <2>3 DEF IInv, Home
  <1>11. QED
    BY <1>3, <1>5, <1>6, <1>7, <1>8, <1>9, <1>10 DEF IInv

(* A processor turns from executing to a reschedule: a tick, a yield, a    *)
(* sleep, a block or an ending.  The thread it executes may leave RUNNING, *)
(* and only a user thread of processor 0 gains a channel.                  *)
LEMMA LeaveRunStep ==
    ASSUME IInv, NEW c \in CPU, Runs(c), Reschedule(c),
           UNCHANGED <<queue, queued, affinity, current, next, waking>>,
           NEW s \in {"RUNNING", "BLOCKED", "EXITED"},
           \/ UNCHANGED tstate
           \/ current[c] \in Thread /\ tstate' = [tstate EXCEPT ![current[c]] = s],
           \/ UNCHANGED channel
           \/ /\ current[c] \in User /\ s = "BLOCKED"
              /\ tstate' = [tstate EXCEPT ![current[c]] = s]
              /\ \E ch \in Channel : channel' = [channel EXCEPT ![current[c]] = ch]
    PROVE  IInv'
  <1> USE NotThreads
  <1>1. phase[c] = "run" /\ phase' = [phase EXCEPT ![c] = "resched"]
    BY DEF Runs, Reschedule
  <1>2. QueuedOnce' /\ \A d \in CPU, x \in Thread : Contains(d, x)' <=> Contains(d, x)
    BY DEF IInv, QueuedOnce, Contains
  <1>3. TypeOK'
    <2>1. tstate' \in [Thread -> {"UNUSED", "CREATED", "READY", "RUNNING", "BLOCKED", "EXITED"}]
      BY DEF IInv, TypeOK
    <2>2. channel' \in [Thread -> Channel \cup {None}]
      BY DEF IInv, TypeOK
    <2>3. phase' \in [CPU -> Phases]
      BY <1>1 DEF IInv, TypeOK, Phases
    <2>4. QED
      BY <2>1, <2>2, <2>3 DEF IInv, TypeOK
  <1>4. current[c] \in Thread => /\ tstate[current[c]] = "RUNNING" /\ ~queued[current[c]]
                                 /\ \A d \in CPU : next[d] # current[c]
                                 /\ \A d \in CPU : d # c => current[d] # current[c]
                                 /\ channel[current[c]] = None
    BY <1>1 DEF IInv, CurrentState, Placed, NextState, Apart, Home
  <1>5. CurrentState'
    BY <1>1, <1>2, <1>4 DEF IInv, TypeOK, CurrentState
  <1>6. NextState'
    BY <1>1, <1>4 DEF IInv, TypeOK, NextState
  <1>7. Apart'
    BY DEF IInv, Apart
  <1>8. Placed'
    BY <1>4 DEF IInv, TypeOK, Placed
  <1>9. Home'
    <2>1. \A x \in Thread : channel'[x] # None => x \in User /\ tstate'[x] = "BLOCKED"
      BY <1>4 DEF IInv, TypeOK, Home
    <2>2. phase'[0] = "wake" => waking' \in Channel
      BY <1>1, ZeroCpu DEF IInv, TypeOK, Home
    <2>3. QED
      BY <1>1, <1>2, <2>1, <2>2 DEF IInv, TypeOK, Home
  <1>10. QED
    BY <1>2, <1>3, <1>5, <1>6, <1>7, <1>8, <1>9 DEF IInv

(* SchedulerAdmit, on processor 0, of a thread that has not run or that    *)
(* sleeps upon a channel.                                                  *)
LEMMA AdmitStep ==
    ASSUME IInv, NEW t \in Thread, Admit(t), phase[0] \in {"run", "wake"},
           tstate[t] = "CREATED" \/ (tstate[t] = "BLOCKED" /\ channel[t] # None),
           UNCHANGED channel \/ channel' = [channel EXCEPT ![t] = None],
           tstate[t] = "BLOCKED" => channel' = [channel EXCEPT ![t] = None],
           UNCHANGED <<affinity, current, next, phase, waking>>
    PROVE  IInv'
  <1> USE NotThreads
  <1>1. PICK c \in CPU : c \in affinity[t] /\ Enqueue(c, t) /\ ~queued[t]
    BY DEF Admit, ChooseProcessor
  <1>2. /\ queued' = [queued EXCEPT ![t] = TRUE]
        /\ tstate' = [tstate EXCEPT ![t] = "READY"]
    BY <1>1 DEF Enqueue
  <1>3. /\ QueuedOnce'
        /\ queue' \in [CPU -> Seq(Thread)]
        /\ \A d \in CPU, x \in Thread :
              Contains(d, x)' <=> (Contains(d, x) \/ (d = c /\ x = t))
    BY <1>1, EnqueueKeeps DEF IInv
  <1>4. \A d \in CPU : current[d] # t /\ next[d] # t
    <2>1. \A d \in CPU : next[d] # t
      BY DEF IInv, NextState
    <2>2. ASSUME NEW d \in CPU, current[d] = t PROVE FALSE
      <3>1. tstate[t] = "BLOCKED" /\ t \in User
        BY <2>2 DEF IInv, CurrentState, Home
      <3>2. d = 0
        BY <2>2, <3>1 DEF IInv, Home
      <3>3. QED
        BY <2>2, <3>1, <3>2, ZeroCpu DEF IInv, CurrentState
    <2>3. QED
      BY <2>1, <2>2
  <1>5. t \in User => c = 0
    BY <1>1 DEF IInv, Home
  <1>6. TypeOK'
    BY <1>2, <1>3 DEF IInv, TypeOK
  <1>7. CurrentState'
    BY <1>2, <1>3, <1>4 DEF IInv, TypeOK, CurrentState
  <1>8. NextState'
    BY <1>2, <1>4 DEF IInv, TypeOK, NextState
  <1>9. Apart'
    BY DEF IInv, Apart
  <1>10. Placed'
    BY <1>2 DEF IInv, TypeOK, Placed
  <1>11. Home'
    <2>1. \A x \in Thread : channel'[x] # None => x \in User /\ tstate'[x] = "BLOCKED"
      BY <1>2 DEF IInv, TypeOK, Home
    <2>2. QED
      BY <1>3, <1>5, <2>1 DEF IInv, TypeOK, Home
  <1>12. QED
    BY <1>3, <1>6, <1>7, <1>8, <1>9, <1>10, <1>11 DEF IInv

(* ThreadCreate: a thread nobody holds gains a state and a mask.           *)
LEMMA CreateStep ==
    ASSUME IInv, NEW t \in Thread, Create(t) PROVE IInv'
  <1> USE NotThreads
  <1>1. /\ tstate[t] = "UNUSED" /\ tstate' = [tstate EXCEPT ![t] = "CREATED"]
        /\ affinity' = [affinity EXCEPT ![t] = IF t \in User THEN {0} ELSE CPU]
        /\ UNCHANGED <<queue, queued, channel, current, next, phase, waking>>
    BY DEF Create
  <1>2. QueuedOnce' /\ \A d \in CPU, x \in Thread : Contains(d, x)' <=> Contains(d, x)
    BY <1>1 DEF IInv, QueuedOnce, Contains
  <1>3. \A d \in CPU : current[d] # t /\ next[d] # t
    BY <1>1 DEF IInv, CurrentState, NextState
  <1>4. TypeOK'
    <2>1. affinity' \in [Thread -> SUBSET CPU]
      BY <1>1, ZeroCpu DEF IInv, TypeOK
    <2>2. QED
      BY <1>1, <2>1 DEF IInv, TypeOK
  <1>5. CurrentState' /\ NextState'
    BY <1>1, <1>2, <1>3 DEF IInv, TypeOK, CurrentState, NextState
  <1>6. Apart' /\ Placed'
    BY <1>1, <1>3 DEF IInv, TypeOK, Apart, Placed
  <1>7. Home'
    <2>1. \A x \in User : affinity'[x] \subseteq {0}
      BY <1>1 DEF IInv, TypeOK, Home
    <2>2. \A x \in Thread : channel'[x] # None => x \in User /\ tstate'[x] = "BLOCKED"
      BY <1>1 DEF IInv, TypeOK, Home
    <2>3. QED
      BY <1>1, <1>2, <2>1, <2>2 DEF IInv, Home
  <1>8. QED
    BY <1>2, <1>4, <1>5, <1>6, <1>7 DEF IInv

(* SchedulerSetAffinity touches no user thread.                            *)
LEMMA SetAffinityStep ==
    ASSUME IInv, NEW t \in Thread, NEW mask \in SUBSET CPU, SetAffinity(t, mask) PROVE IInv'
  <1>1. /\ t \in Kernel /\ affinity' = [affinity EXCEPT ![t] = mask]
        /\ UNCHANGED <<queue, queued, tstate, channel, current, next, phase, waking>>
    BY DEF SetAffinity
  <1>2. TypeOK' /\ QueuedOnce'
    BY <1>1 DEF IInv, TypeOK, QueuedOnce
  <1>3. CurrentState' /\ NextState' /\ Apart' /\ Placed'
    BY <1>1 DEF IInv, CurrentState, NextState, Apart, Placed, Contains
  <1>4. \A x \in User : affinity'[x] \subseteq {0}
    BY <1>1, ThreadAssumption DEF IInv, TypeOK, Home, Thread
  <1>5. Home'
    BY <1>1, <1>4 DEF IInv, Home, Contains
  <1>6. QED
    BY <1>2, <1>3, <1>5 DEF IInv

(* SchedulerWake begins and ends: only processor 0's own place changes.    *)
LEMMA WakeStep ==
    ASSUME IInv, WakeEnd \/ \E ch \in Channel : Wake(ch) PROVE IInv'
  <1> USE NotThreads, ZeroCpu
  <1>1. UNCHANGED <<queue, queued, tstate, channel, affinity, current, next>>
    BY DEF Wake, WakeEnd, threadVars
  <1>2. \/ phase[0] = "run" /\ phase' = [phase EXCEPT ![0] = "wake"] /\ waking' \in Channel
        \/ phase[0] = "wake" /\ phase' = [phase EXCEPT ![0] = "run"] /\ waking' = None
    BY DEF Wake, WakeEnd, Runs
  <1>3. /\ phase[0] \in {"run", "wake"} /\ phase'[0] \in {"run", "wake"}
        /\ \A d \in CPU : d # 0 => phase'[d] = phase[d]
        /\ phase' \in [CPU -> Phases] /\ waking' \in Channel \cup {None}
        /\ phase'[0] = "wake" => waking' \in Channel
    BY <1>2 DEF IInv, TypeOK, Phases
  <1>4. TypeOK' /\ QueuedOnce'
    <2>1. TypeOK'
      BY <1>1, <1>3 DEF IInv, TypeOK
    <2>2. QueuedOnce'
      BY <1>1 DEF IInv, QueuedOnce
    <2>3. QED
      BY <2>1, <2>2
  <1>5. \A d \in CPU, x \in Thread : Contains(d, x)' <=> Contains(d, x)
    BY <1>1 DEF Contains
  <1>6. CurrentState'
    BY <1>1, <1>3, <1>5 DEF IInv, TypeOK, CurrentState
  <1>7. NextState'
    BY <1>1, <1>3 DEF IInv, NextState
  <1>8. Apart' /\ Placed'
    BY <1>1 DEF IInv, Apart, Placed
  <1>9. Home'
    BY <1>1, <1>3, <1>5 DEF IInv, Home
  <1>10. QED
    BY <1>4, <1>6, <1>7, <1>8, <1>9 DEF IInv

(* ThreadDestroy: whatever queue the thread was in gives it up.            *)
LEMMA DestroyStep ==
    ASSUME IInv, NEW t \in Thread, Destroy(t) PROVE IInv'
  <1> USE NotThreads, ZeroCpu
  <1>1. /\ phase[0] = "run" /\ t \in User /\ current[0] # t
        /\ tstate[t] \in {"CREATED", "READY", "EXITED"}
        /\ queued' = [queued EXCEPT ![t] = FALSE]
        /\ tstate' = [tstate EXCEPT ![t] = "UNUSED"]
        /\ channel' = [channel EXCEPT ![t] = None]
        /\ affinity' = [affinity EXCEPT ![t] = {}]
        /\ UNCHANGED <<current, next, phase, waking>>
    BY DEF Destroy, Runs
  <1>2. \A d \in CPU : current[d] # t /\ next[d] # t
    BY <1>1 DEF IInv, Home, NextState
  <1>3. /\ QueuedOnce' /\ queue' \in [CPU -> Seq(Thread)]
        /\ \A d \in CPU, x \in Thread : Contains(d, x)' <=> (Contains(d, x) /\ x # t)
    <2>1. CASE queued[t]
      <3>1. PICK n \in 1 .. Len(queue[0]) :
               queue[0][n] = t /\ queue' = [queue EXCEPT ![0] = Without(@, n)]
        BY <2>1 DEF Destroy
      <3>2. QED
        BY <3>1, <1>1, WithdrawKeeps DEF IInv
    <2>2. CASE ~queued[t]
      <3>1. queue' = queue
        BY <2>2 DEF Destroy
      <3>2. queued' = queued
        BY <2>2, <1>1 DEF IInv, TypeOK
      <3>3. \A d \in CPU : ~Contains(d, t)
        BY <2>2, FlagMeansHeld DEF IInv
      <3>4. \A d \in CPU, x \in Thread : Contains(d, x)' <=> Contains(d, x)
        BY <3>1 DEF Contains
      <3>5. QueuedOnce'
        BY <3>1, <3>2 DEF IInv, QueuedOnce
      <3>6. queue' \in [CPU -> Seq(Thread)]
        BY <3>1 DEF IInv, TypeOK
      <3>7. \A d \in CPU, x \in Thread : Contains(d, x)' <=> (Contains(d, x) /\ x # t)
        BY <3>3, <3>4
      <3>8. QED
        BY <3>5, <3>6, <3>7
    <2>3. QED
      BY <2>1, <2>2
  <1>4. TypeOK'
    BY <1>1, <1>3 DEF IInv, TypeOK
  <1>5. CurrentState'
    BY <1>1, <1>2, <1>3 DEF IInv, TypeOK, CurrentState
  <1>6. NextState'
    BY <1>1, <1>2 DEF IInv, TypeOK, NextState
  <1>7. Apart'
    BY <1>1 DEF IInv, Apart
  <1>8. Placed'
    BY <1>1, <1>2 DEF IInv, TypeOK, Placed
  <1>9. Home'
    <2>1. \A x \in User : affinity'[x] \subseteq {0}
      BY <1>1 DEF IInv, TypeOK, Home
    <2>2. \A x \in Thread : channel'[x] # None => x \in User /\ tstate'[x] = "BLOCKED"
      BY <1>1 DEF IInv, TypeOK, Home
    <2>3. QED
      BY <1>1, <1>3, <2>1, <2>2 DEF IInv, Home
  <1>10. QED
    BY <1>3, <1>4, <1>5, <1>6, <1>7, <1>8, <1>9 DEF IInv

(* The invariant is inductive: one step per action of Next.                *)
LEMMA NextKeeps == IInv /\ [Next]_vars => IInv'
  <1> USE NotThreads
  <1> SUFFICES ASSUME IInv, [Next]_vars PROVE IInv'
    OBVIOUS
  <1>1. ASSUME NEW c \in CPU, RescheduleStep(c) PROVE IInv'
    BY <1>1, DequeueStep, NoQueueStep, PlaceBackStep, SwitchStep DEF RescheduleStep
  <1>2. ASSUME NEW c \in CPU, Tick(c) \/ Yield(c) PROVE IInv'
    <2>1. /\ Runs(c) /\ Reschedule(c)
          /\ UNCHANGED <<queue, queued, tstate, channel, affinity, current, next, waking>>
      BY <1>2 DEF Tick, Yield, threadVars
    <2>2. PICK s \in {"RUNNING", "BLOCKED", "EXITED"} : s = "RUNNING"
      OBVIOUS
    <2>3. QED
      BY <2>1, <2>2, LeaveRunStep
  <1>3. ASSUME NEW c \in CPU, BlockCurrent(c) PROVE IInv'
    <2>1. /\ Runs(c) /\ Reschedule(c) /\ current[c] \in Thread
          /\ tstate' = [tstate EXCEPT ![current[c]] = "BLOCKED"]
          /\ UNCHANGED <<queue, queued, channel, affinity, current, next, waking>>
      BY <1>3 DEF BlockCurrent, Thread
    <2>2. PICK s \in {"RUNNING", "BLOCKED", "EXITED"} : s = "BLOCKED"
      OBVIOUS
    <2>3. QED
      BY <2>1, <2>2, LeaveRunStep
  <1>4. ASSUME NEW ch \in Channel, Sleep(ch) PROVE IInv'
    <2>1. /\ Runs(0) /\ Reschedule(0) /\ current[0] \in User
          /\ tstate' = [tstate EXCEPT ![current[0]] = "BLOCKED"]
          /\ channel' = [channel EXCEPT ![current[0]] = ch]
          /\ UNCHANGED <<queue, queued, affinity, current, next, waking>>
      BY <1>4 DEF Sleep
    <2>2. PICK s \in {"RUNNING", "BLOCKED", "EXITED"} : s = "BLOCKED"
      OBVIOUS
    <2>3. QED
      BY <2>1, <2>2, LeaveRunStep, ZeroCpu
  <1>5. ASSUME ExitCurrent PROVE IInv'
    <2>1. /\ Runs(0) /\ Reschedule(0) /\ current[0] \in User
          /\ tstate' = [tstate EXCEPT ![current[0]] = "EXITED"]
          /\ UNCHANGED <<queue, queued, channel, affinity, current, next, waking>>
      BY <1>5 DEF ExitCurrent
    <2>2. PICK s \in {"RUNNING", "BLOCKED", "EXITED"} : s = "EXITED"
      OBVIOUS
    <2>3. QED
      BY <2>1, <2>2, LeaveRunStep, ZeroCpu
  <1>6. ASSUME NEW t \in Thread, Launch(t) PROVE IInv'
    BY <1>6, AdmitStep DEF Launch, Runs
  <1>7. ASSUME NEW t \in Thread, WakeThread(t) PROVE IInv'
    BY <1>7, AdmitStep DEF WakeThread, Runs
  <1>8. ASSUME NEW t \in Thread, WakeSleeper(t) PROVE IInv'
    <2>1. channel[t] # None
      BY <1>8 DEF WakeSleeper, Sleeper, IInv, Home
    <2>2. QED
      BY <1>8, <2>1, AdmitStep DEF WakeSleeper, Sleeper
  <1>9. CASE UNCHANGED vars
    <2>1. UNCHANGED <<queue, queued, tstate, channel, affinity, current, next, phase, waking>>
      BY <1>9 DEF vars
    <2>2. TypeOK' /\ QueuedOnce' /\ CurrentState' /\ NextState'
      BY <2>1 DEF IInv, TypeOK, QueuedOnce, CurrentState, NextState, Contains
    <2>3. Apart' /\ Placed' /\ Home'
      BY <2>1 DEF IInv, Apart, Placed, Home, Contains
    <2>4. QED
      BY <2>2, <2>3 DEF IInv
  <1>10. QED
    BY <1>1, <1>2, <1>3, <1>4, <1>5, <1>6, <1>7, <1>8, <1>9,
       CreateStep, SetAffinityStep, WakeStep, DestroyStep DEF Next

----------------------------------------------------------------------------
(* The inductive invariant holds in every state the scheduler reaches,     *)
(* whatever the number of processors, threads and channels.                *)
THEOREM Inductive == Spec => []IInv
  <1>1. Init => IInv
    BY InitHolds
  <1>2. IInv /\ [Next]_vars => IInv'
    BY NextKeeps
  <1>3. QED
    BY <1>1, <1>2, PTL DEF Spec

(* Every field of the scheduler keeps its type.                            *)
THEOREM TypeCorrect == Spec => []TypeOK
  <1>1. IInv => TypeOK
    BY DEF IInv
  <1>2. QED
    BY <1>1, Inductive, PTL

(* No run queue is ever cyclic and no thread is ever in two: the unlocked  *)
(* test of the queued flag in SchedulerAdmit is enough.                    *)
THEOREM QueuesSound == Spec => []QueuedOnce
  <1>1. IInv => QueuedOnce
    BY DEF IInv
  <1>2. QED
    BY <1>1, Inductive, PTL

(* No two processors ever execute one thread, though SchedulerReschedule-  *)
(* Locked drops its lock before it switches.                               *)
THEOREM StacksSound == Spec => []RunsOnce
  <1>1. IInv => RunsOnce
    <2> SUFFICES ASSUME IInv, NEW c \in CPU, NEW d \in CPU, c # d,
                        NEW x \in Holds(c), x \in Holds(d)
                 PROVE  FALSE
      BY DEF RunsOnce
    <2> USE NotThreads
    <2>1. /\ x \in Thread
          /\ x = current[c] \/ x = next[c]
          /\ x = current[d] \/ x = next[d]
      BY DEF Holds, IInv, TypeOK
    <2>2. ASSUME NEW e \in CPU, NEW f \in CPU, x = current[e], x = next[f] PROVE FALSE
      <3>1. tstate[x] = "READY" /\ ~queued[x]
        BY <2>1, <2>2 DEF IInv, NextState
      <3>2. Contains(e, x)
        BY <2>1, <2>2, <3>1, ZenonT(40) DEF IInv, CurrentState
      <3>3. QED
        BY <2>1, <3>1, <3>2, FlagMeansHeld DEF IInv
    <2>3. QED
      BY <2>1, <2>2 DEF IInv, Apart
  <1>2. QED
    BY <1>1, Inductive, PTL

(* A destroyed thread is never executed and never left in a queue.         *)
THEOREM ReleasedSound == Spec => []NeverReleased
  <1>1. IInv => NeverReleased
    BY DEF IInv, NeverReleased, Holds, Placed, CurrentState, NextState
  <1>2. QED
    BY <1>1, Inductive, PTL

(* A runnable thread is always in a queue or on a processor, and one in a  *)
(* queue is held only by the processor that is putting it back.            *)
THEOREM RunnableFound == Spec => []NeverLost
  <1>1. IInv => NeverLost
    <2> SUFFICES ASSUME IInv, NEW t \in Thread
                 PROVE  /\ tstate[t] = "READY" => queued[t] \/ \E c \in CPU : next[c] = t
                        /\ tstate[t] = "RUNNING" => \E c \in CPU : current[c] = t
                        /\ queued[t] => \A c \in CPU :
                              t \in Holds(c) => current[c] = t /\ phase[c] = "switch"
      BY DEF NeverLost
    <2>1. ASSUME queued[t], NEW c \in CPU, t \in Holds(c)
          PROVE  current[c] = t /\ phase[c] = "switch"
      <3>1. tstate[t] = "READY" /\ next[c] # t
        BY <2>1 DEF IInv, Placed, NextState
      <3>2. QED
        BY <2>1, <3>1, NotThreads DEF Holds, IInv, CurrentState
    <2>2. QED
      BY <2>1 DEF IInv, Placed
  <1>2. QED
    BY <1>1, Inductive, PTL

(* A user thread never leaves the bootstrap processor.                     *)
THEOREM UserConfined == Spec => []UserStaysHome
  <1>1. IInv => UserStaysHome
    <2> SUFFICES ASSUME IInv, NEW c \in CPU, c # 0
                 PROVE  /\ Holds(c) \cap User = {}
                        /\ \A i \in 1 .. Len(queue[c]) : queue[c][i] \notin User
      BY DEF UserStaysHome
    <2>1. Holds(c) \cap User = {}
      BY DEF Holds, IInv, Home
    <2>2. \A i \in 1 .. Len(queue[c]) : queue[c][i] \notin User
      BY DEF Contains, IInv, Home
    <2>3. QED
      BY <2>1, <2>2
  <1>2. QED
    BY <1>1, Inductive, PTL
=============================================================================
