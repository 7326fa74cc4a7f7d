-------------------------- MODULE OutputWorkerProofs --------------------------
(***************************************************************************)
(* The safety properties of OutputWorker hold for every set of devices,    *)
(* every set of sequence numbers and every bound on submissions.  They are *)
(* proved together, from the inductive invariant IInv below: each of them  *)
(* leans on facts about the others.                                        *)
(*                                                                         *)
(* What is drawn for an output, RenderStage, follows in a part of its own: *)
(* it shares no state with the worker that writes it.                      *)
(***************************************************************************)
EXTENDS OutputWorker, RenderStage, FiniteSetTheorems, WellFoundedInduction,
        NaturalsInduction, TLAPS

(* What the single fields promise while a thread is at a certain place.    *)

Working == workerPc \in {"write", "record", "return"}

PlacesOK ==
  /\ Working => active.slot \in Slots /\ active.seq \in Seqs
  /\ DispatcherAt("scene") \/ DispatcherAt("commit") => dispatcher.arg \in Seqs

\* At most one configuration is queued or running, before the only shutdown.
CommandsOK ==
  /\ \A i \in DOMAIN commands :
       /\ commands[i].kind = "configure" =>
            i = 1 /\ commandPending /\ workerPc # "configure"
       /\ commands[i].kind = "shutdown" =>
            i = Len(commands) /\ closed /\ workerPc \notin {"shutdown", "stopped"}
  /\ workerPc = "configure" => commandPending
  /\ workerPc \in {"shutdown", "stopped"} => closed /\ commands = <<>>

\* A configured worker that holds no buffer has both in the queue.
BuffersOK ==
  /\ configured => slots = IF Working THEN Slots \ {active.slot} ELSE Slots
  /\ Working => active.slot \notin slots
  /\ HasFrame => pendingFrame.slot \in slots

\* A waiting render shares the schedule's Arc whenever the active one does.
SharingOK == active.shared /\ HasRender => pendingRender.shared

\* Whatever waits is newer than what has been taken; a pending frame is older
\* than the render and the schedule that came after it.
OrderOK ==
  /\ started <= accepted
  /\ HasFrame => started < pendingFrame.stamp /\ pendingFrame.stamp <= accepted
  /\ HasRender => started <= pendingRender.stamp /\ pendingRender.stamp <= accepted
  /\ HasSchedule => started <= schedule.stamp /\ schedule.stamp <= accepted
  /\ HasFrame /\ HasRender => pendingFrame.stamp < pendingRender.stamp
  /\ HasFrame /\ HasSchedule => pendingFrame.stamp < schedule.stamp

\* Only open or abandoned devices are lit, and a successful answer to the
\* shutdown call means that none is open.
DarknessOK ==
  /\ workerPc # "stopped" => lit \subseteq open \union abandoned
  /\ reply # "none" =>
       \/ DispatcherAt("configuring")
       \/ DispatcherAt("joining") /\ workerPc = "stopped"
       \/ DispatcherAt("awaiting") /\ workerPc = "stopped"
  /\ closed => dispatcher.step \in {"joining", "awaiting", "down"}
  /\ shutdownResult = "ok" => workerPc = "stopped" /\ lit \subseteq abandoned
  /\ workerPc = "stopped" /\ reply = "ok" => lit \subseteq abandoned

IInv ==
  /\ TypeOK /\ PlacesOK /\ CommandsOK
  /\ WorkNeedsOutputs /\ CloseLeadsToBlackout
  /\ BuffersOK /\ FrameAccounting /\ NoLostWakeup
  /\ SharingOK /\ PendingRenderIsCurrent
  /\ OrderOK /\ DarknessOK

-----------------------------------------------------------------------------
(* Data the actions build.                                                 *)

\* The next stamp is a stamp as long as the bound is not reached.
LEMMA NextStamp ==
  ASSUME accepted \in StampsOrNone, accepted < MaxAccepted
  PROVE  accepted + 1 \in Stamps /\ accepted + 1 \in StampsOrNone
BY OutputWorkerAssumption DEF StampsOrNone, Stamps

\* Changing whether it shares the schedule's Arc leaves an item an item.
LEMMA SharedItem ==
  ASSUME active \in Item, NEW b \in BOOLEAN
  PROVE  [active EXCEPT !.shared = b] \in Item
BY DEF Item

\* The same of a pending render, also of its freshness, and of no render.
LEMMA MarkedRender ==
  ASSUME pendingRender \in Render, NEW b \in BOOLEAN, NEW c \in BOOLEAN
  PROVE  /\ [pendingRender EXCEPT !.shared = b] \in Render
         /\ [pendingRender EXCEPT !.shared = b, !.fresh = c] \in Render
BY DEF Render

\* Giving up a shared buffer leaves a render, or none.
LEMMA UnsharedRender ==
  ASSUME pendingRender \in Render \union {NoRender}
  PROVE  [pendingRender EXCEPT !.shared = FALSE] \in Render \union {NoRender}
<1>1. CASE pendingRender \in Render
  BY <1>1, MarkedRender
<1>2. CASE pendingRender = NoRender
  <2>1. pendingRender \in [seq : {0}, stamp : {0}, shared : {FALSE},
                           fresh : {FALSE}]
    BY <1>2 DEF NoRender
  <2>2. [pendingRender EXCEPT !.shared = FALSE] = pendingRender
    BY <2>1
  <2> QED
    BY <2>2
<1> QED
  BY <1>1, <1>2

\* A command taken from the queue becomes an item of its kind.
LEMMA CommandBecomesItem ==
  ASSUME NEW c \in Command
  PROVE  CommandItem(c) \in Item /\ c.kind \in {"configure", "shutdown"}
BY DEF Command, CommandItem, Item, SeqsOrNone, StampsOrNone

\* Nothing at work is an item too.
LEMMA NoItemIsItem == NoItem \in Item
BY DEF NoItem, CommandItem, Item, SeqsOrNone, StampsOrNone

\* The first free slot is one of the free slots.
LEMMA FirstSlotIsFree ==
  ASSUME slots \subseteq Slots, slots # {}
  PROVE  FirstSlot \in slots
<1>1. \E i \in slots : \A j \in slots : i <= j
  <2>1. CASE 1 \in slots
    BY <2>1 DEF Slots
  <2>2. CASE 1 \notin slots
    <3>1. slots = {2}
      BY <2>2 DEF Slots
    <3> QED
      BY <3>1
  <2> QED
    BY <2>1, <2>2
<1> QED
  BY <1>1 DEF FirstSlot

\* A place holds one thing or none.
LEMMA CountsAreIntegers == ASSUME NEW b \in BOOLEAN PROVE One(b) \in {0, 1}
BY DEF One

\* A wakeup moves a thread to where it looks at the queue again, or nowhere.
LEMMA WakeKeepsPlaces ==
  ASSUME NEW pc
  PROVE  Wake(pc) \in {pc, "idle"}
BY DEF Wake

\* What the output thread finds when it takes a command.
LEMMA TakenCommand ==
  ASSUME TypeOK, TakeCommand
  PROVE  /\ Head(commands) \in Command /\ Tail(commands) \in Seq(Command)
         /\ active' \in Item /\ ~active'.shared
         /\ workerPc' \in {"configure", "shutdown"}
<1>1. Head(commands) \in Command /\ Tail(commands) \in Seq(Command)
  BY DEF TypeOK, TakeCommand
<1>2. active' \in Item /\ workerPc' \in {"configure", "shutdown"}
  BY <1>1, CommandBecomesItem DEF TakeCommand
<1>3. ~active'.shared
  BY DEF TakeCommand, CommandItem
<1> QED
  BY <1>1, <1>2, <1>3


-----------------------------------------------------------------------------
(* Type correctness.                                                       *)

\* Every step preserves the types, given what PlacesOK knows of the sequence
\* numbers in hand.
LEMMA TypeOKStep ==
  ASSUME TypeOK, PlacesOK, [Next]_vars
  PROVE  TypeOK'
<1> USE DEF gateVars, queueVars, statusVars, healthVars, deviceVars, workerVars,
            answerVars, callerVars, historyVars
<1>0. /\ accepted < MaxAccepted => accepted + 1 \in Stamps /\ accepted + 1 \in StampsOrNone
      /\ Wake(workerPc) \in {workerPc, "idle"}
      /\ Wake(schedulerPc) \in {schedulerPc, "idle"}
      /\ [active EXCEPT !.shared = FALSE] \in Item
      /\ One(HasFrame) \in {0, 1} /\ One(HasRender) \in {0, 1}
  BY NextStamp, WakeKeepsPlaces, SharedItem, CountsAreIntegers
     DEF TypeOK, HasFrame, HasRender
<1>1. ASSUME NEW seq \in Seqs, SubmitFrame(seq) PROVE TypeOK'
  <2>1. pendingFrame' \in Frame
    BY <1>0, <1>1, FirstSlotIsFree DEF TypeOK, SubmitFrame, HasFrame, Frame
  <2> QED
    BY <1>0, <1>1, <2>1 DEF TypeOK, SubmitFrame, EndSchedule, DetachActive, Accept, NotifyQueueChanged
<1>2. CASE RejectFrame
  BY <1>0, <1>2 DEF TypeOK, RejectFrame, EndSchedule, DetachActive
<1>3. ASSUME NEW seq \in Seqs, SubmitDirectRender(seq) PROVE TypeOK'
  <2>1. pendingRender' \in Render /\ seq \in SeqsOrNone
    BY <1>0, <1>3 DEF SubmitDirectRender, Render, SeqsOrNone
  <2> QED
    BY <1>0, <1>3, <2>1 DEF TypeOK, SubmitDirectRender, EndSchedule, DetachActive, Accept, NotifyQueueChanged
<1>4. ASSUME NEW seq \in Seqs, RejectDirectRender(seq) PROVE TypeOK'
  <2>1. pendingRender' \in Render \union {NoRender} /\ seq \in SeqsOrNone
    BY <1>4, UnsharedRender DEF TypeOK, RejectDirectRender, SeqsOrNone
  <2> QED
    BY <1>0, <1>4, <2>1 DEF TypeOK, RejectDirectRender, EndSchedule, DetachActive
<1>5. ASSUME NEW seq \in Seqs, accepted < MaxAccepted, InstallSchedule(seq)
      PROVE  /\ schedule' \in Schedule
             /\ pendingRender' \in Render \union {NoRender}
             /\ unaccounted' \in Int
             /\ accepted' \in StampsOrNone /\ active' \in Item
             /\ workerPc' \in {workerPc, "idle"}
             /\ schedulerPc' \in {schedulerPc, "idle"}
  <2>1. schedule.audio \in {0} \union AudioSeqs
    BY DEF TypeOK, Schedule, NoSchedule
  <2>2. schedule' \in Schedule
    BY <1>0, <1>5, <2>1 DEF InstallSchedule, Schedule
  <2> QED
    BY <1>0, <1>5, <2>2 DEF TypeOK, InstallSchedule, DetachActive, Accept, NotifyQueueChanged
<1>6. ASSUME NEW seq \in Seqs, SubmitScheduledRender(seq) PROVE TypeOK'
  BY <1>5, <1>6 DEF TypeOK, SubmitScheduledRender, InstallSchedule, SeqsOrNone
<1>7. ASSUME NEW seq \in Seqs, BeginScene(seq) PROVE TypeOK'
  BY <1>7 DEF TypeOK, BeginScene, Enter, SeqsOrNone
<1>8. CASE InstallScene
  <2>1. dispatcher.arg \in Seqs
    BY <1>8 DEF PlacesOK, InstallScene
  <2>2. InstallSchedule(dispatcher.arg) /\ accepted < MaxAccepted
    BY <1>8 DEF InstallScene
  <2> QED
    BY <1>5, <1>8, <2>1, <2>2 DEF TypeOK, InstallScene, InstallSchedule, Enter, SeqsOrNone
<1>9. CASE FailScene
  BY <1>9 DEF TypeOK, FailScene, Leave, Enter, SeqsOrNone
<1>10. CASE CommitScene
  BY <1>10 DEF TypeOK, CommitScene, Leave, Enter, SeqsOrNone
<1>11. ASSUME NEW seq \in AudioSeqs, SubmitAudioUpdate(seq) PROVE TypeOK'
  <2>1. schedule' \in Schedule
    BY <1>11 DEF TypeOK, SubmitAudioUpdate, HasSchedule, Schedule
  <2>2. pendingRender' \in Render \union {NoRender}
    BY <1>11, MarkedRender DEF TypeOK, SubmitAudioUpdate, HasRender
  <2> QED
    BY <1>0, <1>11, <2>1, <2>2 DEF TypeOK, SubmitAudioUpdate, DetachActive, NotifyQueueChanged
<1>12. ASSUME NEW config \in SUBSET Devices, ReserveConfigure(config) PROVE TypeOK'
  <2>1. commands' \in Seq(Command)
    BY <1>12 DEF TypeOK, ReserveConfigure, Command
  <2>2. 0 \in SeqsOrNone /\ unaccounted' \in Int /\ active' \in Item
    BY <1>0, <1>12 DEF TypeOK, ReserveConfigure, ClearWork, EndSchedule, DetachActive, SeqsOrNone
  <2>3. dispatcher' \in [step : {"free", "scene", "commit", "configuring",
                                 "joining", "awaiting", "down"}, arg : SeqsOrNone]
    BY <1>12, <2>2 DEF ReserveConfigure, Enter
  <2> QED
    BY ZenonT(60), <1>0, <1>12, <2>1, <2>2, <2>3 DEF TypeOK, ReserveConfigure, ClearWork, EndSchedule, NotifyQueueChanged
<1>13. CASE ConfigureReturns
  BY <1>13 DEF TypeOK, ConfigureReturns, Leave, Enter, SeqsOrNone
<1>14. CASE ConfigureTimesOut
  BY <1>14 DEF TypeOK, ConfigureTimesOut, Leave, Enter, SeqsOrNone
<1>15. CASE BeginShutdown
  <2>1. commands' \in Seq(Command)
    BY <1>15 DEF TypeOK, BeginShutdown, Command
  <2> QED
    BY <1>0, <1>15, <2>1 DEF TypeOK, BeginShutdown, ClearWork, EndSchedule, DetachActive, NotifyQueueChanged, Enter, SeqsOrNone
<1>16. CASE JoinScheduler
  BY <1>16 DEF TypeOK, JoinScheduler, Enter, SeqsOrNone
<1>17. CASE ShutdownReturns
  BY <1>17 DEF TypeOK, ShutdownReturns, Enter, SeqsOrNone
<1>18. CASE ShutdownTimesOut
  BY <1>18 DEF TypeOK, ShutdownTimesOut, Enter, SeqsOrNone
<1>19. CASE SchedulerPark
  BY <1>19 DEF TypeOK, SchedulerPark
<1>20. CASE ScheduleFrame
  <2>1. pendingRender' \in Render
    BY <1>20 DEF TypeOK, ScheduleFrame, HasSchedule, Schedule, Render
  <2> QED
    BY <1>0, <1>20, <2>1 DEF TypeOK, ScheduleFrame
<1>21. CASE SchedulerStop
  BY <1>21 DEF TypeOK, SchedulerStop
<1>22. CASE WorkerPark
  BY <1>22 DEF TypeOK, WorkerPark
<1>23. CASE TakeCommand
  BY <1>23, TakenCommand DEF TypeOK, TakeCommand
<1>24. CASE TakeRender
  <2>1. pendingRender \in Render /\ started' \in StampsOrNone
    BY <1>24 DEF TypeOK, TakeRender, RenderGoesFirst, HasRender, Render, StampsOrNone
  <2>2. active' \in Item /\ slots' \subseteq Slots
    <3> DEFINE slot == IF HasFrame THEN pendingFrame.slot ELSE FirstSlot
    <3>1. slot \in Slots
      BY <1>24, FirstSlotIsFree DEF TypeOK, TakeRender, HasFrame, Frame
    <3> HIDE DEF slot
    <3>2. active' = [kind |-> "render", slot |-> slot,
                     seq |-> pendingRender.seq, stamp |-> pendingRender.stamp,
                     shared |-> pendingRender.shared, config |-> {}]
          /\ slots' = slots \ {slot}
      BY <1>24 DEF TakeRender, slot
    <3> QED
      BY <2>1, <3>1, <3>2 DEF TypeOK, Item, Render, SeqsOrNone, StampsOrNone
  <2> QED
    BY <1>0, <1>24, <2>1, <2>2 DEF TypeOK, TakeRender
<1>25. CASE TakeFrame
  <2>1. pendingFrame \in Frame /\ started' \in StampsOrNone
    BY <1>25 DEF TypeOK, TakeFrame, HasFrame, Frame, StampsOrNone
  <2>2. active' \in Item /\ slots' \subseteq Slots
    BY <1>25, <2>1 DEF TypeOK, TakeFrame, Item, Frame, SeqsOrNone, StampsOrNone
  <2> QED
    BY <1>25, <2>1, <2>2 DEF TypeOK, TakeFrame
<1>26. CASE WriteFails
  BY <1>26 DEF TypeOK, WriteFails, WriteToDevices
<1>27. CASE WriteFrame
  BY <1>27 DEF TypeOK, WriteFrame, WriteToDevices, RecordFrame, Item
<1>28. CASE WriteRender
  <2>1. PICK copied \in BOOLEAN, changed \in BOOLEAN : AdvanceCycle(copied, changed)
    BY <1>28 DEF WriteRender
  <2>2. pendingRender' \in Render \union {NoRender} /\ active' \in Item
    <3>1. (active.shared /\ ~copied) \in BOOLEAN
          /\ (pendingRender.shared /\ ~copied) \in BOOLEAN
          /\ (pendingRender.fresh /\ ~changed) \in BOOLEAN
      OBVIOUS
    <3>2. HasRender => pendingRender \in Render
      BY DEF TypeOK, HasRender
    <3> QED
      BY <2>1, <3>1, <3>2, SharedItem, MarkedRender DEF TypeOK, AdvanceCycle
  <2>3. One(StalePending(changed)) \in {0, 1}
    BY DEF One
  <2> QED
    BY <1>0, <1>28, <2>1, <2>2, <2>3 DEF TypeOK, WriteRender, WriteToDevices, AdvanceCycle
<1>29. CASE RecordRender
  BY <1>29 DEF TypeOK, RecordRender, RecordFrame, Item
<1>30. CASE ReturnBuffer
  BY <1>30, NoItemIsItem DEF TypeOK, PlacesOK, Working, ReturnBuffer
<1>31. CASE OpenOutputs
  <2>1. active.config \subseteq Devices
    BY DEF TypeOK, Item
  <2>2. lit' \subseteq Devices /\ open' \subseteq Devices /\ active' \in Item
    BY <1>31, <2>1, NoItemIsItem DEF TypeOK, OpenOutputs, FinishConfigure, Blackout
  <2>3. reply' \in {"none", "ok", "err"} /\ 0 \in SeqsOrNone
    BY <1>31 DEF TypeOK, OpenOutputs, FinishConfigure, AnswerConfigure, SeqsOrNone
  <2> QED
    BY ZenonT(60), <1>31, <2>2, <2>3 DEF TypeOK, OpenOutputs, FinishConfigure
<1>32. CASE OpenOutputsFails
  BY ZenonT(60), <1>32, NoItemIsItem DEF TypeOK, OpenOutputsFails, FinishConfigure, AnswerConfigure, Blackout
<1>33. CASE ConfigureBlackoutFails
  BY ZenonT(60), <1>33, NoItemIsItem DEF TypeOK, ConfigureBlackoutFails, FinishConfigure, AnswerConfigure, Blackout
<1>34. CASE ShutDownOutputs
  <2>1. lit' \subseteq Devices /\ reply' \in {"none", "ok", "err"}
    BY <1>34 DEF TypeOK, ShutDownOutputs, Blackout
  <2>2. /\ active' \in Item /\ workerPc' = "stopped" /\ open' \subseteq Devices
        /\ opened' \in BOOLEAN /\ configured' \in BOOLEAN
        /\ UNCHANGED <<queueVars, lastSequence, sceneRevision, unaccounted,
                       abandoned, schedulerPc, dispatcher, shutdownResult,
                       historyVars>>
    BY <1>34, NoItemIsItem DEF ShutDownOutputs
  <2> QED
    BY <2>1, <2>2 DEF TypeOK
<1>35. CASE UNCHANGED vars
  BY <1>35 DEF TypeOK, vars
<1> QED
  BY <1>1, <1>2, <1>3, <1>4, <1>6, <1>7, <1>8, <1>9, <1>10, <1>11, <1>12, <1>13,
     <1>14, <1>15, <1>16, <1>17, <1>18, <1>19, <1>20, <1>21, <1>22, <1>23, <1>24,
     <1>25, <1>26, <1>27, <1>28, <1>29, <1>30, <1>31, <1>32, <1>33, <1>34, <1>35
     DEF Next, Dispatcher, FrameStream, AudioWorker, FrameScheduler,
         OutputThread, Finished

-----------------------------------------------------------------------------
(* No lost wakeup.                                                         *)

\* NoLostWakeup is inductive by itself: whoever gives a thread something to
\* do also wakes it.
LEMMA NoLostWakeupStep ==
  ASSUME TypeOK, NoLostWakeup, [Next]_vars
  PROVE  NoLostWakeup'
<1> USE DEF gateVars, queueVars, statusVars, healthVars, deviceVars, workerVars,
            answerVars, callerVars, historyVars, Leave, Enter, EndSchedule,
            ClearWork, InstallSchedule, DetachActive, Accept, Accepting,
            MayRender, NotifyQueueChanged, Wake
<1>1. CASE FailScene \/ CommitScene \/ ConfigureReturns \/ ConfigureTimesOut \/
          JoinScheduler \/ ShutdownReturns \/ ShutdownTimesOut \/
          (\E seq \in Seqs : BeginScene(seq))
  BY <1>1 DEF NoLostWakeup, HasFrame, HasRender, HasSchedule, BeginScene,
     FailScene, CommitScene, ConfigureReturns, ConfigureTimesOut,
     JoinScheduler, ShutdownReturns, ShutdownTimesOut
<1>2. CASE \E seq \in Seqs : SubmitFrame(seq)
  BY <1>2 DEF NoLostWakeup, HasFrame, HasRender, HasSchedule, SubmitFrame,
     FirstSlot
<1>3. CASE RejectFrame
  BY <1>3 DEF NoLostWakeup, HasFrame, HasRender, HasSchedule, RejectFrame
<1>4. CASE \E seq \in Seqs : SubmitDirectRender(seq)
  BY <1>4 DEF NoLostWakeup, HasFrame, HasRender, HasSchedule,
     SubmitDirectRender
<1>5. ASSUME NEW seq \in Seqs, RejectDirectRender(seq)
      PROVE  NoLostWakeup'
  <2>1. pendingRender.seq # 0
    BY <1>5, OutputWorkerAssumption DEF RejectDirectRender
  <2>2. HasRender
    BY <2>1 DEF HasRender, NoRender
  <2> QED
    BY <1>5, <2>2 DEF NoLostWakeup, HasFrame, HasSchedule, RejectDirectRender,
       EndSchedule
<1>6. CASE \E seq \in Seqs : SubmitScheduledRender(seq)
  BY <1>6 DEF NoLostWakeup, HasFrame, HasRender, HasSchedule,
     SubmitScheduledRender
<1>7. CASE InstallScene
  BY <1>7 DEF NoLostWakeup, HasFrame, HasRender, HasSchedule, InstallScene
<1>8. CASE \E seq \in AudioSeqs : SubmitAudioUpdate(seq)
  BY <1>8 DEF NoLostWakeup, HasFrame, HasRender, HasSchedule, SubmitAudioUpdate
<1>9. CASE \E config \in SUBSET Devices : ReserveConfigure(config)
  BY <1>9 DEF NoLostWakeup, HasFrame, HasRender, HasSchedule, ReserveConfigure
<1>10. CASE BeginShutdown
  BY <1>10 DEF NoLostWakeup, HasFrame, HasRender, HasSchedule, BeginShutdown
<1>11. CASE SchedulerPark
  BY <1>11 DEF NoLostWakeup, HasFrame, HasRender, HasSchedule, SchedulerPark
<1>12. CASE ScheduleFrame
  BY <1>12 DEF NoLostWakeup, HasFrame, HasRender, HasSchedule, ScheduleFrame
<1>13. CASE SchedulerStop
  BY <1>13 DEF NoLostWakeup, HasFrame, HasRender, HasSchedule, SchedulerStop
<1>14. CASE WorkerPark
  BY <1>14 DEF NoLostWakeup, HasFrame, HasRender, HasSchedule, WorkerPark
<1>15. CASE TakeCommand
  BY <1>15, TakenCommand DEF NoLostWakeup, HasSchedule, TakeCommand
<1>16. CASE TakeRender
  BY <1>16 DEF NoLostWakeup, HasFrame, HasRender, HasSchedule, TakeRender,
     RenderGoesFirst, FirstSlot
<1>17. CASE TakeFrame
  BY <1>17 DEF NoLostWakeup, HasFrame, HasRender, HasSchedule, TakeFrame,
     RenderGoesFirst
<1>18. CASE WriteFails
  BY <1>18 DEF NoLostWakeup, HasFrame, HasRender, HasSchedule, WriteFails,
     WriteToDevices
<1>19. CASE WriteFrame
  BY <1>19 DEF NoLostWakeup, HasFrame, HasRender, HasSchedule, WriteFrame,
     WriteToDevices, RecordFrame
<1>20. CASE WriteRender
  <2>1. PICK copied \in BOOLEAN, changed \in BOOLEAN :
               AdvanceCycle(copied, changed)
    BY <1>20 DEF WriteRender
  <2>2. workerPc' # "parked" /\ schedulerPc' \in {schedulerPc, "idle"}
    BY <1>20, <2>1, WakeKeepsPlaces DEF WriteRender, AdvanceCycle
  <2> QED
    BY <1>20, <2>2 DEF NoLostWakeup, HasSchedule, WriteRender
<1>21. CASE RecordRender
  BY <1>21 DEF NoLostWakeup, HasFrame, HasRender, HasSchedule, RecordRender,
     RecordFrame
<1>22. CASE ReturnBuffer
  BY <1>22 DEF NoLostWakeup, HasFrame, HasRender, HasSchedule, ReturnBuffer,
     NoItem, CommandItem
<1>23. CASE OpenOutputs
  BY <1>23 DEF NoLostWakeup, HasFrame, HasRender, HasSchedule, OpenOutputs,
     FinishConfigure, AnswerConfigure, Blackout, NoItem, CommandItem
<1>24. CASE OpenOutputsFails
  BY <1>24 DEF NoLostWakeup, HasFrame, HasRender, HasSchedule,
     OpenOutputsFails, FinishConfigure, AnswerConfigure, Blackout, NoItem,
     CommandItem
<1>25. CASE ConfigureBlackoutFails
  BY <1>25 DEF NoLostWakeup, HasFrame, HasRender, HasSchedule,
     ConfigureBlackoutFails, FinishConfigure, AnswerConfigure, Blackout,
     NoItem, CommandItem
<1>26. CASE ShutDownOutputs
  BY <1>26 DEF NoLostWakeup, HasFrame, HasRender, HasSchedule, ShutDownOutputs,
     Blackout, NoItem, CommandItem
<1>27. CASE UNCHANGED vars
  BY <1>27 DEF NoLostWakeup, HasFrame, HasRender, HasSchedule, vars
<1> QED
  BY <1>1, <1>2, <1>3, <1>4, <1>5, <1>6, <1>7, <1>8, <1>9, <1>10, <1>11, <1>12,
     <1>13, <1>14, <1>15, <1>16, <1>17, <1>18, <1>19, <1>20, <1>21, <1>22,
     <1>23, <1>24, <1>25, <1>26, <1>27
     DEF Next, Dispatcher, FrameStream, AudioWorker, FrameScheduler,
         OutputThread, Finished


-----------------------------------------------------------------------------
(* Accounting.                                                             *)

\* Every displaced, dropped, failed or rendered item is subtracted exactly
\* once: FrameAccounting is inductive by itself, given the types.
LEMMA FrameAccountingStep ==
  ASSUME TypeOK, FrameAccounting, [Next]_vars
  PROVE  FrameAccounting'
<1> USE DEF gateVars, queueVars, statusVars, healthVars, deviceVars, workerVars,
            answerVars, callerVars, historyVars, Leave, Enter, EndSchedule,
            ClearWork, InstallSchedule, DetachActive, Accept, Accepting,
            MayRender, NotifyQueueChanged, Wake
<1>1. CASE FailScene \/ CommitScene \/ ConfigureReturns \/ ConfigureTimesOut \/
          JoinScheduler \/ ShutdownReturns \/ ShutdownTimesOut \/ SchedulerPark
          \/ SchedulerStop \/ (\E seq \in Seqs : BeginScene(seq))
  BY <1>1 DEF FrameAccounting, HasFrame, HasRender, One, BeginScene, FailScene,
     CommitScene, ConfigureReturns, ConfigureTimesOut, JoinScheduler,
     ShutdownReturns, ShutdownTimesOut, SchedulerPark, SchedulerStop
<1>2. ASSUME NEW seq \in Seqs, SubmitFrame(seq)
      PROVE  FrameAccounting'
  <2>1. HasFrame' /\ ~HasRender'
    BY <1>2, OutputWorkerAssumption
       DEF SubmitFrame, HasFrame, HasRender, NoFrame
  <2>2. /\ unaccounted' = unaccounted + 1 - One(HasRender) - One(HasFrame)
        /\ workerPc' \in {workerPc, "idle"}
        /\ workerPc \in {"write", "record"} => workerPc' = workerPc
    BY <1>2 DEF SubmitFrame, NotifyQueueChanged, Wake
  <2> QED
    BY <2>1, <2>2 DEF FrameAccounting, One
<1>3. CASE RejectFrame
  BY <1>3 DEF FrameAccounting, HasFrame, HasRender, One, RejectFrame
<1>4. ASSUME NEW seq \in Seqs, SubmitDirectRender(seq)
      PROVE  FrameAccounting'
  <2>1. HasRender'
    BY <1>4, OutputWorkerAssumption DEF SubmitDirectRender, HasRender, NoRender
  <2> QED
    BY <1>4, <2>1 DEF FrameAccounting, HasFrame, One, SubmitDirectRender,
       NotifyQueueChanged, Wake
<1>5. ASSUME NEW seq \in Seqs, RejectDirectRender(seq)
      PROVE  FrameAccounting'
  <2>1. HasRender'
    BY <1>5, OutputWorkerAssumption
       DEF TypeOK, Render, NoRender, RejectDirectRender, HasRender
  <2>2. HasRender
    BY <1>5, OutputWorkerAssumption DEF NoRender, RejectDirectRender, HasRender
  <2> QED
    BY <1>5, <2>1, <2>2 DEF FrameAccounting, HasFrame, One, RejectDirectRender
<1>6. CASE \E seq \in Seqs : SubmitScheduledRender(seq)
  BY <1>6 DEF FrameAccounting, HasFrame, HasRender, One, SubmitScheduledRender
<1>7. CASE InstallScene
  BY <1>7 DEF FrameAccounting, HasFrame, HasRender, One, InstallScene
<1>8. ASSUME NEW seq \in AudioSeqs, SubmitAudioUpdate(seq)
      PROVE  FrameAccounting'
  <2>1. HasRender' <=> HasRender
    BY ZenonT(60), <1>8, MarkedRender, OutputWorkerAssumption
       DEF TypeOK, SubmitAudioUpdate, HasRender, Render, NoRender
  <2> QED
    BY <1>8, <2>1 DEF FrameAccounting, HasFrame, One, SubmitAudioUpdate,
       NotifyQueueChanged, Wake
<1>9. CASE \E config \in SUBSET Devices : ReserveConfigure(config)
  BY <1>9 DEF FrameAccounting, HasFrame, HasRender, One, ReserveConfigure
<1>10. CASE BeginShutdown
  BY <1>10 DEF FrameAccounting, HasFrame, HasRender, One, BeginShutdown
<1>11. CASE ScheduleFrame
  <2>1. HasRender'
    BY <1>11, OutputWorkerAssumption
       DEF TypeOK, ScheduleFrame, HasSchedule, Schedule, HasRender, NoRender
  <2> QED
    BY <1>11, <2>1 DEF FrameAccounting, HasFrame, One, ScheduleFrame, Wake
<1>12. CASE WorkerPark
  BY <1>12 DEF FrameAccounting, HasFrame, HasRender, One, WorkerPark
<1>13. CASE TakeCommand
  <2>1. workerPc' \notin {"write", "record"}
    BY <1>13, TakenCommand
  <2> QED
    BY <1>13, <2>1 DEF FrameAccounting, HasFrame, HasRender, One, TakeCommand
<1>14. CASE TakeRender
  BY <1>14 DEF FrameAccounting, HasFrame, HasRender, One, TakeRender,
     RenderGoesFirst, FirstSlot
<1>15. CASE TakeFrame
  BY <1>15 DEF FrameAccounting, HasFrame, HasRender, One, TakeFrame,
     RenderGoesFirst
<1>16. CASE WriteFails
  BY <1>16 DEF FrameAccounting, HasFrame, HasRender, One, WriteFails,
     WriteToDevices
<1>17. CASE WriteFrame
  BY <1>17 DEF FrameAccounting, HasFrame, HasRender, One, WriteFrame,
     WriteToDevices, RecordFrame
<1>18. CASE WriteRender
  <2>1. PICK copied \in BOOLEAN, changed \in BOOLEAN :
               AdvanceCycle(copied, changed)
    BY <1>18 DEF WriteRender
  <2>2. HasRender' <=> HasRender /\ ~StalePending(changed)
    BY <2>1, OutputWorkerAssumption
       DEF TypeOK, AdvanceCycle, HasRender, Render, NoRender
  <2>3. StalePending(changed) => HasRender
    BY DEF StalePending
  <2>4. unaccounted' = unaccounted - One(StalePending(changed))
    BY <2>1 DEF AdvanceCycle
  <2> QED
    BY <1>18, <2>2, <2>3, <2>4 DEF FrameAccounting, HasFrame, One, WriteRender
<1>19. CASE RecordRender
  BY <1>19 DEF FrameAccounting, HasFrame, HasRender, One, RecordRender,
     RecordFrame
<1>20. CASE ReturnBuffer
  BY <1>20 DEF FrameAccounting, HasFrame, HasRender, One, ReturnBuffer, NoItem,
     CommandItem
<1>21. CASE OpenOutputs
  BY <1>21 DEF FrameAccounting, HasFrame, HasRender, One, OpenOutputs,
     FinishConfigure, AnswerConfigure, Blackout, NoItem, CommandItem
<1>22. CASE OpenOutputsFails
  BY <1>22 DEF FrameAccounting, HasFrame, HasRender, One, OpenOutputsFails,
     FinishConfigure, AnswerConfigure, Blackout, NoItem, CommandItem
<1>23. CASE ConfigureBlackoutFails
  BY <1>23 DEF FrameAccounting, HasFrame, HasRender, One,
     ConfigureBlackoutFails, FinishConfigure, AnswerConfigure, Blackout,
     NoItem, CommandItem
<1>24. CASE ShutDownOutputs
  BY <1>24 DEF FrameAccounting, HasFrame, HasRender, One, ShutDownOutputs,
     Blackout, NoItem, CommandItem
<1>25. CASE UNCHANGED vars
  BY <1>25 DEF FrameAccounting, HasFrame, HasRender, One, vars
<1> QED
  BY <1>1, <1>2, <1>3, <1>4, <1>5, <1>6, <1>7, <1>8, <1>9, <1>10, <1>11, <1>12,
     <1>13, <1>14, <1>15, <1>16, <1>17, <1>18, <1>19, <1>20, <1>21, <1>22,
     <1>23, <1>24, <1>25
     DEF Next, Dispatcher, FrameStream, AudioWorker, FrameScheduler,
         OutputThread, Finished


-----------------------------------------------------------------------------
(* The waiting render is the schedule's.                                   *)

\* SharingOK is what makes PendingRenderIsCurrent inductive: a step that
\* changes the schedule's contents copies its Arc, and the waiting render
\* that still shared it is dropped.
LEMMA PendingRenderStep ==
  ASSUME TypeOK, SharingOK, PendingRenderIsCurrent, [Next]_vars
  PROVE  (SharingOK /\ PendingRenderIsCurrent)'
<1> USE DEF gateVars, queueVars, statusVars, healthVars, deviceVars, workerVars,
            answerVars, callerVars, historyVars, Leave, Enter, EndSchedule,
            ClearWork, InstallSchedule, DetachActive, Accept, Accepting,
            MayRender, NotifyQueueChanged, Wake
<1>1. CASE FailScene \/ CommitScene \/ ConfigureReturns \/ ConfigureTimesOut \/
          JoinScheduler \/ ShutdownReturns \/ ShutdownTimesOut \/ SchedulerPark
          \/ SchedulerStop \/ WorkerPark \/ WriteFails \/ WriteFrame \/
          RecordRender \/ (\E seq \in Seqs : BeginScene(seq))
  BY <1>1 DEF SharingOK, PendingRenderIsCurrent, HasRender, HasSchedule,
     BeginScene, FailScene, CommitScene, ConfigureReturns, ConfigureTimesOut,
     JoinScheduler, ShutdownReturns, ShutdownTimesOut, SchedulerPark,
     SchedulerStop, WorkerPark, WriteFails, WriteFrame, RecordRender,
     WriteToDevices, RecordFrame
<1>2. CASE \E seq \in Seqs : SubmitFrame(seq)
  BY <1>2 DEF SharingOK, PendingRenderIsCurrent, HasRender, HasSchedule,
     SubmitFrame, FirstSlot
<1>3. CASE RejectFrame
  BY <1>3 DEF SharingOK, PendingRenderIsCurrent, HasRender, HasSchedule,
     RejectFrame
<1>4. CASE \E seq \in Seqs : SubmitDirectRender(seq)
  BY <1>4 DEF SharingOK, PendingRenderIsCurrent, HasRender, HasSchedule,
     SubmitDirectRender
<1>5. CASE \E seq \in Seqs : RejectDirectRender(seq)
  BY <1>5 DEF SharingOK, PendingRenderIsCurrent, HasRender, HasSchedule,
     RejectDirectRender
<1>6. CASE \E seq \in Seqs : SubmitScheduledRender(seq)
  BY <1>6 DEF SharingOK, PendingRenderIsCurrent, HasRender, HasSchedule,
     SubmitScheduledRender
<1>7. CASE InstallScene
  BY <1>7 DEF SharingOK, PendingRenderIsCurrent, HasRender, HasSchedule,
     InstallScene
<1>8. CASE \E seq \in AudioSeqs : SubmitAudioUpdate(seq)
  BY <1>8 DEF SharingOK, PendingRenderIsCurrent, HasRender, HasSchedule,
     SubmitAudioUpdate
<1>9. CASE \E config \in SUBSET Devices : ReserveConfigure(config)
  BY <1>9 DEF SharingOK, PendingRenderIsCurrent, HasRender, HasSchedule,
     ReserveConfigure
<1>10. CASE BeginShutdown
  BY <1>10 DEF SharingOK, PendingRenderIsCurrent, HasRender, HasSchedule,
     BeginShutdown
<1>11. CASE ScheduleFrame
  BY <1>11 DEF SharingOK, PendingRenderIsCurrent, HasRender, HasSchedule,
     ScheduleFrame
<1>12. CASE TakeCommand
  BY <1>12 DEF SharingOK, PendingRenderIsCurrent, HasRender, HasSchedule,
     TakeCommand, CommandItem
<1>13. CASE TakeRender
  BY <1>13 DEF SharingOK, PendingRenderIsCurrent, HasRender, HasSchedule,
     TakeRender, RenderGoesFirst, FirstSlot
<1>14. CASE TakeFrame
  BY <1>14 DEF SharingOK, PendingRenderIsCurrent, HasRender, HasSchedule,
     TakeFrame, RenderGoesFirst
<1>15. CASE WriteRender
  <2>1. PICK copied \in BOOLEAN, changed \in BOOLEAN :
               AdvanceCycle(copied, changed)
    BY <1>15 DEF WriteRender
  <2>2. CASE changed
    <3>1. HasRender => StalePending(changed)
      BY <2>1, <2>2 DEF AdvanceCycle, StalePending, SharingOK
    <3>2. ~HasRender'
      BY <2>1, <3>1 DEF AdvanceCycle, HasRender
    <3> QED
      BY <3>2 DEF SharingOK, PendingRenderIsCurrent
  <2>3. CASE ~changed
    <3>1. HasRender' => HasRender
      BY <2>1 DEF AdvanceCycle, HasRender
    <3>2. HasRender =>
            /\ pendingRender'.seq = pendingRender.seq
            /\ pendingRender'.stamp = pendingRender.stamp
            /\ pendingRender.fresh => pendingRender'.fresh
            /\ pendingRender'.shared = (pendingRender.shared /\ ~copied)
      BY <2>1, <2>3 DEF TypeOK, AdvanceCycle, StalePending, HasRender, Render
    <3>3. active'.shared = (active.shared /\ ~copied)
      BY <2>1 DEF TypeOK, AdvanceCycle, Item
    <3>4. UNCHANGED schedule
      BY <1>15 DEF WriteRender
    <3> QED
      BY <3>1, <3>2, <3>3, <3>4
         DEF SharingOK, PendingRenderIsCurrent, HasSchedule
  <2> QED
    BY <2>2, <2>3
<1>16. CASE ReturnBuffer
  BY <1>16 DEF SharingOK, PendingRenderIsCurrent, HasRender, HasSchedule,
     ReturnBuffer, NoItem, CommandItem
<1>17. CASE OpenOutputs
  BY <1>17 DEF SharingOK, PendingRenderIsCurrent, HasRender, HasSchedule,
     OpenOutputs, FinishConfigure, AnswerConfigure, Blackout, NoItem,
     CommandItem
<1>18. CASE OpenOutputsFails
  BY <1>18 DEF SharingOK, PendingRenderIsCurrent, HasRender, HasSchedule,
     OpenOutputsFails, FinishConfigure, AnswerConfigure, Blackout, NoItem,
     CommandItem
<1>19. CASE ConfigureBlackoutFails
  BY <1>19 DEF SharingOK, PendingRenderIsCurrent, HasRender, HasSchedule,
     ConfigureBlackoutFails, FinishConfigure, AnswerConfigure, Blackout,
     NoItem, CommandItem
<1>20. CASE ShutDownOutputs
  BY <1>20 DEF SharingOK, PendingRenderIsCurrent, HasRender, HasSchedule,
     ShutDownOutputs, Blackout, NoItem, CommandItem
<1>21. CASE UNCHANGED vars
  BY <1>21 DEF SharingOK, PendingRenderIsCurrent, HasRender, HasSchedule, vars
<1> QED
  BY <1>1, <1>2, <1>3, <1>4, <1>5, <1>6, <1>7, <1>8, <1>9, <1>10, <1>11, <1>12,
     <1>13, <1>14, <1>15, <1>16, <1>17, <1>18, <1>19, <1>20, <1>21
     DEF Next, Dispatcher, FrameStream, AudioWorker, FrameScheduler,
         OutputThread, Finished


-----------------------------------------------------------------------------
(* Order.                                                                  *)

\* Stamps only grow along the way from a submission to the output thread.
\* PendingRenderIsCurrent ties the stamp of a repeated render to its
\* schedule.
LEMMA OrderStep ==
  ASSUME TypeOK, PendingRenderIsCurrent, OrderOK, [Next]_vars
  PROVE  OrderOK' /\ started' >= started
<1> USE DEF gateVars, queueVars, statusVars, healthVars, deviceVars, workerVars,
            answerVars, callerVars, historyVars, Leave, Enter, EndSchedule,
            ClearWork, InstallSchedule, DetachActive, Accept, Accepting,
            MayRender, NotifyQueueChanged, Wake
<1>0. /\ accepted \in Int /\ started \in Int
      /\ pendingFrame.stamp \in Int /\ pendingRender.stamp \in Int
      /\ schedule.stamp \in Int
  BY OutputWorkerAssumption
     DEF TypeOK, StampsOrNone, Stamps, Frame, NoFrame, Render, NoRender,
         Schedule, NoSchedule
<1>1. CASE FailScene \/ CommitScene \/ ConfigureReturns \/ ConfigureTimesOut \/
          JoinScheduler \/ ShutdownReturns \/ ShutdownTimesOut \/ SchedulerPark
          \/ SchedulerStop \/ (\E seq \in Seqs : BeginScene(seq))
  <2>1. UNCHANGED <<started, accepted, pendingFrame, pendingRender, schedule>>
    BY <1>1 DEF BeginScene, FailScene, CommitScene, ConfigureReturns,
       ConfigureTimesOut, JoinScheduler, ShutdownReturns, ShutdownTimesOut,
       SchedulerPark, SchedulerStop
  <2> QED
    BY <1>0, <2>1 DEF OrderOK, HasFrame, HasRender, HasSchedule
<1>2. CASE WorkerPark \/ TakeCommand \/ WriteFails \/ WriteFrame \/
          RecordRender \/ ReturnBuffer \/ OpenOutputs \/ OpenOutputsFails \/
          ConfigureBlackoutFails \/ ShutDownOutputs
  <2>1. UNCHANGED <<started, accepted, pendingFrame, pendingRender, schedule>>
    BY <1>2 DEF WorkerPark, TakeCommand, WriteFails, WriteFrame, RecordRender,
       ReturnBuffer, OpenOutputs, OpenOutputsFails, ConfigureBlackoutFails,
       ShutDownOutputs, FinishConfigure, WriteToDevices, RecordFrame
  <2> QED
    BY <1>0, <2>1 DEF OrderOK, HasFrame, HasRender, HasSchedule
<1>3. CASE \E seq \in Seqs : SubmitFrame(seq)
  BY <1>0, <1>3 DEF OrderOK, HasFrame, HasRender, HasSchedule, SubmitFrame,
     FirstSlot
<1>4. CASE RejectFrame
  BY <1>0, <1>4 DEF OrderOK, HasFrame, HasRender, HasSchedule, RejectFrame
<1>5. CASE \E seq \in Seqs : SubmitDirectRender(seq)
  BY <1>0, <1>5 DEF OrderOK, HasFrame, HasRender, HasSchedule,
     SubmitDirectRender
<1>6. ASSUME NEW seq \in Seqs, RejectDirectRender(seq)
      PROVE  OrderOK' /\ started' >= started
  <2>1. HasRender
    BY <1>6, OutputWorkerAssumption DEF NoRender, RejectDirectRender, HasRender
  <2>2. pendingRender'.stamp = pendingRender.stamp /\ ~HasSchedule'
    BY <1>6, <2>1 DEF TypeOK, Render, RejectDirectRender, HasRender,
       EndSchedule, HasSchedule
  <2> QED
    BY <1>0, <1>6, <2>1, <2>2 DEF OrderOK, HasFrame, RejectDirectRender
<1>7. CASE \E seq \in Seqs : SubmitScheduledRender(seq)
  BY <1>0, <1>7 DEF OrderOK, HasFrame, HasRender, HasSchedule,
     SubmitScheduledRender
<1>8. CASE InstallScene
  BY <1>0, <1>8 DEF OrderOK, HasFrame, HasRender, HasSchedule, InstallScene
<1>9. ASSUME NEW seq \in AudioSeqs, SubmitAudioUpdate(seq)
      PROVE  OrderOK' /\ started' >= started
  <2>1. schedule'.stamp = schedule.stamp
    BY <1>9 DEF TypeOK, SubmitAudioUpdate, HasSchedule, Schedule
  <2>2. HasRender' => HasRender /\ pendingRender'.stamp = pendingRender.stamp
    BY <1>9 DEF TypeOK, SubmitAudioUpdate, HasRender, Render
  <2> QED
    BY <1>0, <1>9, <2>1, <2>2
       DEF OrderOK, HasFrame, HasSchedule, SubmitAudioUpdate
<1>10. CASE \E config \in SUBSET Devices : ReserveConfigure(config)
  BY <1>0, <1>10 DEF OrderOK, HasFrame, HasRender, HasSchedule,
     ReserveConfigure
<1>11. CASE BeginShutdown
  BY <1>0, <1>11 DEF OrderOK, HasFrame, HasRender, HasSchedule, BeginShutdown
<1>12. CASE ScheduleFrame
  BY <1>0, <1>12 DEF OrderOK, HasFrame, HasRender, HasSchedule, ScheduleFrame
<1>13. CASE TakeRender
  <2>1. HasRender /\ (HasSchedule => pendingRender.stamp = schedule.stamp)
    BY <1>13 DEF TakeRender, RenderGoesFirst, PendingRenderIsCurrent
  <2>2. ~HasFrame' /\ ~HasRender'
    BY <1>13 DEF TakeRender, HasFrame, HasRender
  <2>3. UNCHANGED <<schedule, accepted>> /\ started' = pendingRender.stamp
    BY <1>13 DEF TakeRender
  <2> QED
    BY <1>0, <2>1, <2>2, <2>3 DEF OrderOK, HasSchedule
<1>14. CASE TakeFrame
  BY <1>0, <1>14 DEF OrderOK, HasFrame, HasRender, HasSchedule, TakeFrame,
     RenderGoesFirst
<1>15. CASE WriteRender
  <2>1. PICK copied \in BOOLEAN, changed \in BOOLEAN :
               AdvanceCycle(copied, changed)
    BY <1>15 DEF WriteRender
  <2>2. HasRender' => HasRender /\ pendingRender'.stamp = pendingRender.stamp
    <3>1. HasRender' => HasRender
      BY <2>1 DEF AdvanceCycle, HasRender
    <3>2. HasRender' => pendingRender'.stamp = pendingRender.stamp
      BY <2>1, <3>1 DEF TypeOK, AdvanceCycle, HasRender, Render
    <3> QED
      BY <3>1, <3>2
  <2> QED
    BY <1>0, <1>15, <2>2 DEF OrderOK, HasFrame, HasSchedule, WriteRender
<1>16. CASE UNCHANGED vars
  BY <1>0, <1>16 DEF OrderOK, HasFrame, HasRender, HasSchedule, vars
<1> QED
  BY <1>1, <1>2, <1>3, <1>4, <1>5, <1>6, <1>7, <1>8, <1>9, <1>10, <1>11, <1>12,
     <1>13, <1>14, <1>15, <1>16
     DEF Next, Dispatcher, FrameStream, AudioWorker, FrameScheduler,
         OutputThread, Finished


-----------------------------------------------------------------------------
(* The command queue.                                                      *)

\* What waits in the queue is a configuration or a shutdown.
LEMMA CommandsHaveKinds ==
  ASSUME commands \in Seq(Command)
  PROVE  \A i \in DOMAIN commands : commands[i].kind \in {"configure", "shutdown"}
BY DEF Command

\* The queue never holds more than one configuration, and nothing behind the
\* shutdown.
LEMMA CommandsStep ==
  ASSUME TypeOK, CommandsOK, [Next]_vars
  PROVE  CommandsOK'
<1> USE DEF gateVars, queueVars, statusVars, healthVars, deviceVars, workerVars,
            answerVars, callerVars, historyVars, Leave, Enter, EndSchedule,
            ClearWork, InstallSchedule, DetachActive, Accept, Accepting,
            MayRender, NotifyQueueChanged, Wake
<1>1. CASE RejectFrame \/ FailScene \/ CommitScene \/ ConfigureReturns \/
          ConfigureTimesOut \/ JoinScheduler \/ ShutdownReturns \/
          ShutdownTimesOut \/ SchedulerPark \/ SchedulerStop \/
          (\E seq \in Seqs : RejectDirectRender(seq)) \/
          (\E seq \in Seqs : BeginScene(seq))
  BY <1>1 DEF CommandsOK, RejectFrame, RejectDirectRender, BeginScene,
     FailScene, CommitScene, ConfigureReturns, ConfigureTimesOut,
     JoinScheduler, ShutdownReturns, ShutdownTimesOut, SchedulerPark,
     SchedulerStop
<1>2. CASE \E seq \in Seqs : SubmitFrame(seq)
  BY <1>2 DEF CommandsOK, SubmitFrame, FirstSlot
<1>3. CASE \E seq \in Seqs : SubmitDirectRender(seq)
  BY <1>3 DEF CommandsOK, SubmitDirectRender
<1>4. CASE \E seq \in Seqs : SubmitScheduledRender(seq)
  BY <1>4 DEF CommandsOK, SubmitScheduledRender
<1>5. CASE InstallScene
  BY <1>5 DEF CommandsOK, InstallScene
<1>6. CASE \E seq \in AudioSeqs : SubmitAudioUpdate(seq)
  BY <1>6 DEF CommandsOK, SubmitAudioUpdate
<1>7. ASSUME NEW config \in SUBSET Devices, ReserveConfigure(config)
      PROVE  CommandsOK'
  <2>1. commands = <<>>
    <3>1. \A i \in DOMAIN commands : commands[i].kind \in {"configure", "shutdown"}
      BY CommandsHaveKinds DEF TypeOK
    <3>2. DOMAIN commands = {}
      BY <1>7, <3>1 DEF CommandsOK, ReserveConfigure
    <3> QED
      BY <3>2 DEF TypeOK
  <2>2. commands' = <<[kind |-> "configure", config |-> config]>>
    BY <1>7, <2>1 DEF ReserveConfigure
  <2>3. commandPending' /\ workerPc' # "configure"
        /\ workerPc' \notin {"shutdown", "stopped"}
    BY <1>7, WakeKeepsPlaces DEF CommandsOK, ReserveConfigure, NotifyQueueChanged
  <2> QED
    BY <2>2, <2>3 DEF CommandsOK
<1>8. CASE BeginShutdown
  <2>1. /\ commands \in Seq(Command)
        /\ commands' = Append(commands, [kind |-> "shutdown", config |-> {}])
    BY <1>8 DEF TypeOK, BeginShutdown
  <2>2. /\ closed' /\ UNCHANGED commandPending
        /\ workerPc' \in {workerPc, "idle"}
        /\ workerPc' # workerPc => workerPc = "parked"
    BY <1>8 DEF BeginShutdown, NotifyQueueChanged, Wake
  <2>3. \A i \in DOMAIN commands : commands[i].kind # "shutdown"
    BY <1>8 DEF CommandsOK, BeginShutdown
  <2>4. workerPc \notin {"shutdown", "stopped"}
    BY <1>8 DEF CommandsOK, BeginShutdown
  <2>5. ASSUME NEW i \in DOMAIN commands'
        PROVE  /\ commands'[i].kind = "configure" =>
                    i = 1 /\ commandPending /\ workerPc # "configure"
               /\ commands'[i].kind = "shutdown" => i = Len(commands')
    <3>1. CASE i \in DOMAIN commands
      <4>1. commands'[i] = commands[i]
        BY <2>1, <3>1
      <4> QED
        BY <2>3, <3>1, <4>1 DEF CommandsOK
    <3>2. CASE i = Len(commands) + 1
      BY <2>1, <3>2
    <3> QED
      BY <2>1, <2>5, <3>1, <3>2
  <2> QED
    BY <2>2, <2>4, <2>5 DEF CommandsOK
<1>9. CASE ScheduleFrame
  BY <1>9 DEF CommandsOK, ScheduleFrame
<1>10. CASE WorkerPark
  BY <1>10 DEF CommandsOK, WorkerPark
<1>11. CASE TakeCommand
  <2>1. /\ commands \in Seq(Command) /\ commands # <<>>
        /\ commands' = Tail(commands) /\ workerPc' = commands[1].kind
        /\ workerPc = "idle"
        /\ UNCHANGED <<closed, commandPending>>
    BY <1>11 DEF TypeOK, TakeCommand
  <2>2. workerPc' \in {"configure", "shutdown"}
    BY <1>11, TakenCommand
  <2>3. ASSUME NEW i \in DOMAIN commands'
        PROVE  /\ commands'[i].kind # "configure"
               /\ commands'[i].kind = "shutdown" =>
                    i = Len(commands') /\ closed /\ Len(commands) > 1
    <3>1. i + 1 \in DOMAIN commands /\ commands'[i] = commands[i + 1]
          /\ Len(commands') = Len(commands) - 1
      BY <2>1, <2>3
    <3> QED
      BY <2>1, <3>1 DEF CommandsOK
  <2>4. 1 \in DOMAIN commands
    BY <2>1
  <2>5. CASE workerPc' = "configure"
    BY <2>1, <2>3, <2>4, <2>5 DEF CommandsOK
  <2>6. CASE workerPc' = "shutdown"
    <3>1. Len(commands) = 1 /\ closed
      BY <2>1, <2>4, <2>6 DEF CommandsOK
    <3>2. commands' = <<>>
      BY <2>1, <3>1
    <3> QED
      BY <2>1, <2>6, <3>1, <3>2 DEF CommandsOK
  <2> QED
    BY <2>2, <2>5, <2>6
<1>12. CASE TakeRender
  BY <1>12 DEF CommandsOK, TakeRender, RenderGoesFirst, FirstSlot
<1>13. CASE TakeFrame
  BY <1>13 DEF CommandsOK, TakeFrame, RenderGoesFirst
<1>14. CASE WriteFails
  BY <1>14 DEF CommandsOK, WriteFails, WriteToDevices
<1>15. CASE WriteFrame
  BY <1>15 DEF CommandsOK, WriteFrame, WriteToDevices, RecordFrame
<1>16. CASE WriteRender
  BY <1>16 DEF CommandsOK, WriteRender, WriteToDevices, AdvanceCycle,
     StalePending
<1>17. CASE RecordRender
  BY <1>17 DEF CommandsOK, RecordRender, RecordFrame
<1>18. CASE ReturnBuffer
  BY <1>18 DEF CommandsOK, ReturnBuffer, NoItem, CommandItem
<1>19. CASE OpenOutputs
  BY <1>19 DEF CommandsOK, OpenOutputs, FinishConfigure, AnswerConfigure,
     Blackout, NoItem, CommandItem
<1>20. CASE OpenOutputsFails
  BY <1>20 DEF CommandsOK, OpenOutputsFails, FinishConfigure, AnswerConfigure,
     Blackout, NoItem, CommandItem
<1>21. CASE ConfigureBlackoutFails
  BY <1>21 DEF CommandsOK, ConfigureBlackoutFails, FinishConfigure,
     AnswerConfigure, Blackout, NoItem, CommandItem
<1>22. CASE ShutDownOutputs
  BY <1>22 DEF CommandsOK, ShutDownOutputs, Blackout, NoItem, CommandItem
<1>23. CASE UNCHANGED vars
  BY <1>23 DEF CommandsOK, vars
<1> QED
  BY <1>1, <1>2, <1>3, <1>4, <1>5, <1>6, <1>7, <1>8, <1>9, <1>10, <1>11, <1>12,
     <1>13, <1>14, <1>15, <1>16, <1>17, <1>18, <1>19, <1>20, <1>21, <1>22,
     <1>23
     DEF Next, Dispatcher, FrameStream, AudioWorker, FrameScheduler,
         OutputThread, Finished


-----------------------------------------------------------------------------
(* The queue closes, and the outputs behind the work.                      *)

\* Once the queue is closed nothing enters it, and the shutdown command stays
\* in it until the output thread takes it.
LEMMA CloseStep ==
  ASSUME TypeOK, CommandsOK, CloseLeadsToBlackout, [Next]_vars
  PROVE  CloseLeadsToBlackout'
<1> USE DEF gateVars, queueVars, statusVars, healthVars, deviceVars, workerVars,
            answerVars, callerVars, historyVars, Leave, Enter, EndSchedule,
            ClearWork, InstallSchedule, DetachActive, Accept, Accepting,
            MayRender, NotifyQueueChanged, Wake
<1>1. CASE FailScene \/ CommitScene \/ ConfigureReturns \/ ConfigureTimesOut \/
          JoinScheduler \/ ShutdownReturns \/ ShutdownTimesOut \/ SchedulerPark
          \/ SchedulerStop \/ (\E seq \in Seqs : BeginScene(seq))
  BY <1>1 DEF CloseLeadsToBlackout, HasFrame, HasRender, HasSchedule,
     BeginScene, FailScene, CommitScene, ConfigureReturns, ConfigureTimesOut,
     JoinScheduler, ShutdownReturns, ShutdownTimesOut, SchedulerPark,
     SchedulerStop
<1>2. CASE \E seq \in Seqs : SubmitFrame(seq)
  BY <1>2 DEF CloseLeadsToBlackout, HasFrame, HasRender, HasSchedule,
     SubmitFrame, FirstSlot
<1>3. CASE RejectFrame
  BY <1>3 DEF CloseLeadsToBlackout, HasFrame, HasRender, HasSchedule,
     RejectFrame
<1>4. CASE \E seq \in Seqs : SubmitDirectRender(seq)
  BY <1>4 DEF CloseLeadsToBlackout, HasFrame, HasRender, HasSchedule,
     SubmitDirectRender
<1>5. ASSUME NEW seq \in Seqs, RejectDirectRender(seq)
      PROVE  CloseLeadsToBlackout'
  <2>1. ~closed /\ UNCHANGED closed
    BY <1>5 DEF RejectDirectRender, MayRender, Accepting
  <2> QED
    BY <2>1 DEF CloseLeadsToBlackout
<1>6. CASE \E seq \in Seqs : SubmitScheduledRender(seq)
  BY <1>6 DEF CloseLeadsToBlackout, HasFrame, HasRender, HasSchedule,
     SubmitScheduledRender
<1>7. CASE InstallScene
  BY <1>7 DEF CloseLeadsToBlackout, HasFrame, HasRender, HasSchedule,
     InstallScene
<1>8. CASE \E seq \in AudioSeqs : SubmitAudioUpdate(seq)
  BY <1>8 DEF CloseLeadsToBlackout, HasFrame, HasRender, HasSchedule,
     SubmitAudioUpdate
<1>9. CASE \E config \in SUBSET Devices : ReserveConfigure(config)
  BY <1>9 DEF CloseLeadsToBlackout, HasFrame, HasRender, HasSchedule,
     ReserveConfigure
<1>10. CASE BeginShutdown
  <2>1. /\ commands \in Seq(Command)
        /\ commands' = Append(commands, [kind |-> "shutdown", config |-> {}])
    BY <1>10 DEF TypeOK, BeginShutdown
  <2>2. /\ Len(commands) + 1 \in DOMAIN commands'
        /\ commands'[Len(commands) + 1].kind = "shutdown"
    BY <2>1
  <2> QED
    BY <1>10, <2>2 DEF CloseLeadsToBlackout, HasFrame, HasRender, HasSchedule,
       BeginShutdown, ClearWork, EndSchedule
<1>11. CASE ScheduleFrame
  BY <1>11 DEF CloseLeadsToBlackout, HasFrame, HasRender, HasSchedule,
     ScheduleFrame
<1>12. CASE WorkerPark
  BY <1>12 DEF CloseLeadsToBlackout, HasFrame, HasRender, HasSchedule,
     WorkerPark
<1>13. CASE TakeCommand
  <2>1. /\ commands \in Seq(Command) /\ commands # <<>>
        /\ commands' = Tail(commands) /\ workerPc' = commands[1].kind
        /\ workerPc = "idle"
        /\ UNCHANGED <<closed, pendingFrame, pendingRender, schedule>>
    BY <1>13 DEF TypeOK, TakeCommand
  <2>2. ASSUME NEW i \in DOMAIN commands, commands[i].kind = "shutdown", i # 1
        PROVE  i - 1 \in DOMAIN commands' /\ commands'[i - 1] = commands[i]
    BY <2>1, <2>2
  <2> QED
    BY <2>1, <2>2 DEF CloseLeadsToBlackout, HasFrame, HasRender, HasSchedule
<1>14. CASE TakeRender
  BY <1>14 DEF CloseLeadsToBlackout, HasFrame, HasRender, HasSchedule,
     TakeRender, RenderGoesFirst, FirstSlot
<1>15. CASE TakeFrame
  BY <1>15 DEF CloseLeadsToBlackout, HasFrame, HasRender, HasSchedule,
     TakeFrame, RenderGoesFirst
<1>16. CASE WriteFails
  BY <1>16 DEF CloseLeadsToBlackout, HasFrame, HasRender, HasSchedule,
     WriteFails, WriteToDevices
<1>17. CASE WriteFrame
  BY <1>17 DEF CloseLeadsToBlackout, HasFrame, HasRender, HasSchedule,
     WriteFrame, WriteToDevices, RecordFrame
<1>18. CASE WriteRender
  <2>1. PICK copied \in BOOLEAN, changed \in BOOLEAN :
               AdvanceCycle(copied, changed)
    BY <1>18 DEF WriteRender
  <2>2. HasRender' => HasRender
    BY <2>1 DEF AdvanceCycle, HasRender
  <2> QED
    BY <1>18, <2>2 DEF CloseLeadsToBlackout, HasFrame, HasSchedule, WriteRender
<1>19. CASE RecordRender
  BY <1>19 DEF CloseLeadsToBlackout, HasFrame, HasRender, HasSchedule,
     RecordRender, RecordFrame
<1>20. CASE ReturnBuffer
  BY <1>20 DEF CloseLeadsToBlackout, HasFrame, HasRender, HasSchedule,
     ReturnBuffer, NoItem, CommandItem
<1>21. CASE OpenOutputs
  BY <1>21 DEF CloseLeadsToBlackout, HasFrame, HasRender, HasSchedule,
     OpenOutputs, FinishConfigure, AnswerConfigure, NoItem, CommandItem
<1>22. CASE OpenOutputsFails
  BY <1>22 DEF CloseLeadsToBlackout, HasFrame, HasRender, HasSchedule,
     OpenOutputsFails, FinishConfigure, AnswerConfigure, NoItem, CommandItem
<1>23. CASE ConfigureBlackoutFails
  BY <1>23 DEF CloseLeadsToBlackout, HasFrame, HasRender, HasSchedule,
     ConfigureBlackoutFails, FinishConfigure, AnswerConfigure, NoItem,
     CommandItem
<1>24. CASE ShutDownOutputs
  BY <1>24 DEF CloseLeadsToBlackout, HasFrame, HasRender, HasSchedule,
     ShutDownOutputs, NoItem, CommandItem
<1>25. CASE UNCHANGED vars
  BY <1>25 DEF CloseLeadsToBlackout, HasFrame, HasRender, HasSchedule, vars
<1> QED
  BY <1>1, <1>2, <1>3, <1>4, <1>5, <1>6, <1>7, <1>8, <1>9, <1>10, <1>11, <1>12,
     <1>13, <1>14, <1>15, <1>16, <1>17, <1>18, <1>19, <1>20, <1>21, <1>22,
     <1>23, <1>24, <1>25
     DEF Next, Dispatcher, FrameStream, AudioWorker, FrameScheduler,
         OutputThread, Finished

\* A configuration that fails, and the shutdown, find the queue already
\* empty: that is what CommandsOK and CloseLeadsToBlackout are needed for.
LEMMA OutputsStep ==
  ASSUME TypeOK, CommandsOK, CloseLeadsToBlackout, WorkNeedsOutputs, [Next]_vars
  PROVE  WorkNeedsOutputs'
<1> USE DEF gateVars, queueVars, statusVars, healthVars, deviceVars, workerVars,
            answerVars, callerVars, historyVars, Leave, Enter, EndSchedule,
            ClearWork, InstallSchedule, DetachActive, Accept, Accepting,
            MayRender, NotifyQueueChanged, Wake
<1>1. CASE FailScene \/ CommitScene \/ ConfigureReturns \/ ConfigureTimesOut \/
          JoinScheduler \/ ShutdownReturns \/ ShutdownTimesOut \/ SchedulerPark
          \/ SchedulerStop \/ (\E seq \in Seqs : BeginScene(seq))
  BY <1>1 DEF WorkNeedsOutputs, HasFrame, HasRender, HasSchedule, BeginScene,
     FailScene, CommitScene, ConfigureReturns, ConfigureTimesOut,
     JoinScheduler, ShutdownReturns, ShutdownTimesOut, SchedulerPark,
     SchedulerStop
<1>2. CASE \E seq \in Seqs : SubmitFrame(seq)
  BY <1>2 DEF WorkNeedsOutputs, HasFrame, HasRender, HasSchedule, SubmitFrame,
     FirstSlot
<1>3. CASE RejectFrame
  BY <1>3 DEF WorkNeedsOutputs, HasFrame, HasRender, HasSchedule, RejectFrame
<1>4. CASE \E seq \in Seqs : SubmitDirectRender(seq)
  BY <1>4 DEF WorkNeedsOutputs, HasFrame, HasRender, HasSchedule,
     SubmitDirectRender
<1>5. CASE \E seq \in Seqs : RejectDirectRender(seq)
  BY <1>5 DEF WorkNeedsOutputs, HasFrame, HasRender, HasSchedule,
     RejectDirectRender
<1>6. CASE \E seq \in Seqs : SubmitScheduledRender(seq)
  BY <1>6 DEF WorkNeedsOutputs, HasFrame, HasRender, HasSchedule,
     SubmitScheduledRender
<1>7. CASE InstallScene
  BY <1>7 DEF WorkNeedsOutputs, HasFrame, HasRender, HasSchedule, InstallScene
<1>8. CASE \E seq \in AudioSeqs : SubmitAudioUpdate(seq)
  BY <1>8 DEF WorkNeedsOutputs, HasFrame, HasRender, HasSchedule,
     SubmitAudioUpdate
<1>9. CASE \E config \in SUBSET Devices : ReserveConfigure(config)
  BY <1>9 DEF WorkNeedsOutputs, HasFrame, HasRender, HasSchedule,
     ReserveConfigure
<1>10. CASE BeginShutdown
  BY <1>10 DEF WorkNeedsOutputs, HasFrame, HasRender, HasSchedule,
     BeginShutdown
<1>11. CASE ScheduleFrame
  BY <1>11 DEF WorkNeedsOutputs, HasFrame, HasRender, HasSchedule,
     ScheduleFrame
<1>12. CASE WorkerPark
  BY <1>12 DEF WorkNeedsOutputs, HasFrame, HasRender, HasSchedule, WorkerPark
<1>13. CASE TakeCommand
  <2>1. workerPc' \in {"configure", "shutdown"}
    BY <1>13, TakenCommand
  <2> QED
    BY <1>13, <2>1 DEF WorkNeedsOutputs, HasFrame, HasRender, HasSchedule,
       TakeCommand
<1>14. CASE TakeRender
  BY <1>14 DEF WorkNeedsOutputs, HasFrame, HasRender, HasSchedule, TakeRender,
     RenderGoesFirst, FirstSlot
<1>15. CASE TakeFrame
  BY <1>15 DEF WorkNeedsOutputs, HasFrame, HasRender, HasSchedule, TakeFrame,
     RenderGoesFirst
<1>16. CASE WriteFails
  BY <1>16 DEF WorkNeedsOutputs, HasFrame, HasRender, HasSchedule, WriteFails,
     WriteToDevices
<1>17. CASE WriteFrame
  BY <1>17 DEF WorkNeedsOutputs, HasFrame, HasRender, HasSchedule, WriteFrame,
     WriteToDevices, RecordFrame
<1>18. CASE WriteRender
  <2>1. PICK copied \in BOOLEAN, changed \in BOOLEAN :
               AdvanceCycle(copied, changed)
    BY <1>18 DEF WriteRender
  <2>2. HasRender' => HasRender
    BY <2>1 DEF AdvanceCycle, HasRender
  <2> QED
    BY <1>18, <2>2 DEF WorkNeedsOutputs, HasFrame, HasSchedule, WriteRender,
       WriteToDevices
<1>19. CASE RecordRender
  BY <1>19 DEF WorkNeedsOutputs, HasFrame, HasRender, HasSchedule,
     RecordRender, RecordFrame
<1>20. CASE ReturnBuffer
  BY <1>20 DEF WorkNeedsOutputs, HasFrame, HasRender, HasSchedule,
     ReturnBuffer, NoItem, CommandItem
<1>21. CASE OpenOutputs
  BY <1>21 DEF WorkNeedsOutputs, HasFrame, HasRender, HasSchedule, OpenOutputs,
     FinishConfigure, AnswerConfigure, NoItem, CommandItem
<1>22. CASE OpenOutputsFails
  <2>1. ~configured /\ ~HasFrame /\ ~HasRender /\ ~HasSchedule
    BY <1>22 DEF OpenOutputsFails, CommandsOK, WorkNeedsOutputs
  <2> QED
    BY <1>22, <2>1 DEF WorkNeedsOutputs, HasFrame, HasRender, HasSchedule,
       OpenOutputsFails, FinishConfigure
<1>23. CASE ConfigureBlackoutFails
  <2>1. ~configured /\ ~HasFrame /\ ~HasRender /\ ~HasSchedule
    BY <1>23 DEF ConfigureBlackoutFails, CommandsOK, WorkNeedsOutputs
  <2> QED
    BY <1>23, <2>1 DEF WorkNeedsOutputs, HasFrame, HasRender, HasSchedule,
       ConfigureBlackoutFails, FinishConfigure
<1>24. CASE ShutDownOutputs
  <2>1. closed
    BY <1>24 DEF ShutDownOutputs, CommandsOK
  <2> QED
    BY <1>24, <2>1 DEF WorkNeedsOutputs, CloseLeadsToBlackout, HasFrame, HasRender,
       HasSchedule, ShutDownOutputs
<1>25. CASE UNCHANGED vars
  BY <1>25 DEF WorkNeedsOutputs, HasFrame, HasRender, HasSchedule, vars
<1> QED
  BY <1>1, <1>2, <1>3, <1>4, <1>5, <1>6, <1>7, <1>8, <1>9, <1>10, <1>11, <1>12,
     <1>13, <1>14, <1>15, <1>16, <1>17, <1>18, <1>19, <1>20, <1>21, <1>22,
     <1>23, <1>24, <1>25
     DEF Next, Dispatcher, FrameStream, AudioWorker, FrameScheduler,
         OutputThread, Finished


-----------------------------------------------------------------------------
(* Buffers.                                                                *)

\* Whoever is on its way to the devices or to a commit holds a slot and a
\* sequence number.
LEMMA PlacesStep ==
  ASSUME TypeOK, PlacesOK, [Next]_vars
  PROVE  PlacesOK'
<1> USE DEF gateVars, queueVars, statusVars, healthVars, deviceVars, workerVars,
            answerVars, callerVars, historyVars, Leave, Enter, EndSchedule,
            ClearWork, InstallSchedule, DetachActive, Accept, Accepting,
            MayRender, NotifyQueueChanged, Wake
<1>1. CASE SchedulerPark \/ SchedulerStop
  BY <1>1 DEF PlacesOK, Working, DispatcherAt, SchedulerPark, SchedulerStop
<1>2. CASE \E seq \in Seqs : SubmitFrame(seq)
  BY <1>2 DEF PlacesOK, Working, DispatcherAt, SubmitFrame, FirstSlot
<1>3. CASE RejectFrame
  BY <1>3 DEF PlacesOK, Working, DispatcherAt, RejectFrame
<1>4. CASE \E seq \in Seqs : SubmitDirectRender(seq)
  BY <1>4 DEF PlacesOK, Working, DispatcherAt, SubmitDirectRender
<1>5. CASE \E seq \in Seqs : RejectDirectRender(seq)
  BY <1>5 DEF PlacesOK, Working, DispatcherAt, RejectDirectRender
<1>6. CASE \E seq \in Seqs : SubmitScheduledRender(seq)
  BY <1>6 DEF PlacesOK, Working, DispatcherAt, SubmitScheduledRender
<1>7. CASE \E seq \in Seqs : BeginScene(seq)
  BY <1>7 DEF PlacesOK, Working, DispatcherAt, BeginScene
<1>8. CASE InstallScene
  BY <1>8 DEF PlacesOK, Working, DispatcherAt, InstallScene
<1>9. CASE FailScene
  BY <1>9 DEF PlacesOK, Working, DispatcherAt, FailScene
<1>10. CASE CommitScene
  BY <1>10 DEF PlacesOK, Working, DispatcherAt, CommitScene
<1>11. CASE \E seq \in AudioSeqs : SubmitAudioUpdate(seq)
  BY <1>11 DEF PlacesOK, Working, DispatcherAt, SubmitAudioUpdate
<1>12. CASE \E config \in SUBSET Devices : ReserveConfigure(config)
  BY <1>12 DEF PlacesOK, Working, DispatcherAt, ReserveConfigure
<1>13. CASE ConfigureReturns
  BY <1>13 DEF PlacesOK, Working, DispatcherAt, ConfigureReturns
<1>14. CASE ConfigureTimesOut
  BY <1>14 DEF PlacesOK, Working, DispatcherAt, ConfigureTimesOut
<1>15. CASE BeginShutdown
  BY <1>15 DEF PlacesOK, Working, DispatcherAt, BeginShutdown
<1>16. CASE JoinScheduler
  BY <1>16 DEF PlacesOK, Working, DispatcherAt, JoinScheduler
<1>17. CASE ShutdownReturns
  BY <1>17 DEF PlacesOK, Working, DispatcherAt, ShutdownReturns
<1>18. CASE ShutdownTimesOut
  BY <1>18 DEF PlacesOK, Working, DispatcherAt, ShutdownTimesOut
<1>19. CASE ScheduleFrame
  BY <1>19 DEF PlacesOK, Working, DispatcherAt, ScheduleFrame
<1>20. CASE WorkerPark
  BY <1>20 DEF PlacesOK, Working, DispatcherAt, WorkerPark
<1>21. CASE TakeCommand
  <2>1. workerPc' \in {"configure", "shutdown"}
    BY <1>21, TakenCommand
  <2> QED
    BY <1>21, <2>1 DEF PlacesOK, Working, DispatcherAt, TakeCommand
<1>22. CASE TakeRender
  <2>1. pendingRender.seq \in Seqs
    BY <1>22 DEF TypeOK, TakeRender, RenderGoesFirst, HasRender, Render
  <2>2. active'.slot \in Slots /\ active'.seq \in Seqs
    BY <1>22, <2>1, FirstSlotIsFree DEF TypeOK, TakeRender, HasFrame, Frame
  <2> QED
    BY <1>22, <2>2 DEF PlacesOK, Working, DispatcherAt, TakeRender
<1>23. CASE TakeFrame
  <2>1. pendingFrame.seq \in Seqs /\ pendingFrame.slot \in Slots
    BY <1>23 DEF TypeOK, TakeFrame, HasFrame, Frame
  <2> QED
    BY <1>23, <2>1 DEF PlacesOK, Working, DispatcherAt, TakeFrame
<1>24. CASE WriteFails
  BY <1>24 DEF PlacesOK, Working, DispatcherAt, WriteFails, WriteToDevices
<1>25. CASE WriteFrame
  BY <1>25 DEF PlacesOK, Working, DispatcherAt, WriteFrame, WriteToDevices,
     RecordFrame
<1>26. CASE WriteRender
  <2>1. PICK copied \in BOOLEAN, changed \in BOOLEAN :
               AdvanceCycle(copied, changed)
    BY <1>26 DEF WriteRender
  <2>2. active'.slot = active.slot /\ active'.seq = active.seq
    BY <2>1 DEF TypeOK, AdvanceCycle, Item
  <2> QED
    BY <1>26, <2>2 DEF PlacesOK, Working, DispatcherAt, WriteRender
<1>27. CASE RecordRender
  BY <1>27 DEF PlacesOK, Working, DispatcherAt, RecordRender, RecordFrame
<1>28. CASE ReturnBuffer
  BY <1>28 DEF PlacesOK, Working, DispatcherAt, ReturnBuffer, NoItem,
     CommandItem
<1>29. CASE OpenOutputs
  BY <1>29 DEF PlacesOK, Working, DispatcherAt, OpenOutputs, FinishConfigure,
     AnswerConfigure, Blackout, NoItem, CommandItem
<1>30. CASE OpenOutputsFails
  BY <1>30 DEF PlacesOK, Working, DispatcherAt, OpenOutputsFails,
     FinishConfigure, AnswerConfigure, Blackout, NoItem, CommandItem
<1>31. CASE ConfigureBlackoutFails
  BY <1>31 DEF PlacesOK, Working, DispatcherAt, ConfigureBlackoutFails,
     FinishConfigure, AnswerConfigure, Blackout, NoItem, CommandItem
<1>32. CASE ShutDownOutputs
  BY <1>32 DEF PlacesOK, Working, DispatcherAt, ShutDownOutputs, Blackout,
     NoItem, CommandItem
<1>33. CASE UNCHANGED vars
  BY <1>33 DEF PlacesOK, Working, DispatcherAt, vars
<1> QED
  BY <1>1, <1>2, <1>3, <1>4, <1>5, <1>6, <1>7, <1>8, <1>9, <1>10, <1>11, <1>12,
     <1>13, <1>14, <1>15, <1>16, <1>17, <1>18, <1>19, <1>20, <1>21, <1>22,
     <1>23, <1>24, <1>25, <1>26, <1>27, <1>28, <1>29, <1>30, <1>31, <1>32,
     <1>33
     DEF Next, Dispatcher, FrameStream, AudioWorker, FrameScheduler,
         OutputThread, Finished

\* A buffer is in the queue or with the output thread, and a pending frame's
\* buffer stays in the queue until it is taken.
LEMMA BuffersStep ==
  ASSUME TypeOK, PlacesOK, PlacesOK', CommandsOK, WorkNeedsOutputs, WorkNeedsOutputs', CloseLeadsToBlackout, BuffersOK, [Next]_vars
  PROVE  BuffersOK'
<1> USE DEF gateVars, queueVars, statusVars, healthVars, deviceVars, workerVars,
            answerVars, callerVars, historyVars, Leave, Enter, EndSchedule,
            ClearWork, InstallSchedule, DetachActive, Accept, Accepting,
            MayRender, NotifyQueueChanged, Wake
<1>1. CASE FailScene \/ CommitScene \/ ConfigureReturns \/ ConfigureTimesOut \/
          JoinScheduler \/ ShutdownReturns \/ ShutdownTimesOut \/ SchedulerPark
          \/ SchedulerStop \/ (\E seq \in Seqs : BeginScene(seq))
  BY <1>1 DEF BuffersOK, Working, HasFrame, BeginScene, FailScene, CommitScene,
     ConfigureReturns, ConfigureTimesOut, JoinScheduler, ShutdownReturns,
     ShutdownTimesOut, SchedulerPark, SchedulerStop
<1>2. ASSUME NEW seq \in Seqs, SubmitFrame(seq)
      PROVE  BuffersOK'
  <2>1. pendingFrame'.slot \in slots
    BY <1>2, FirstSlotIsFree DEF TypeOK, SubmitFrame, BuffersOK
  <2> QED
    BY <1>2, <2>1 DEF BuffersOK, Working, SubmitFrame, EndSchedule, DetachActive,
       NotifyQueueChanged, Wake, TypeOK, Item
<1>3. CASE RejectFrame
  BY <1>3 DEF BuffersOK, Working, HasFrame, RejectFrame
<1>4. CASE \E seq \in Seqs : SubmitDirectRender(seq)
  BY <1>4 DEF BuffersOK, Working, HasFrame, SubmitDirectRender
<1>5. CASE \E seq \in Seqs : RejectDirectRender(seq)
  BY <1>5 DEF BuffersOK, Working, HasFrame, RejectDirectRender
<1>6. CASE \E seq \in Seqs : SubmitScheduledRender(seq)
  BY <1>6 DEF BuffersOK, Working, HasFrame, SubmitScheduledRender
<1>7. CASE InstallScene
  BY <1>7 DEF BuffersOK, Working, HasFrame, InstallScene
<1>8. CASE \E seq \in AudioSeqs : SubmitAudioUpdate(seq)
  BY <1>8 DEF BuffersOK, Working, HasFrame, SubmitAudioUpdate
<1>9. CASE \E config \in SUBSET Devices : ReserveConfigure(config)
  BY <1>9 DEF BuffersOK, Working, HasFrame, ReserveConfigure
<1>10. CASE BeginShutdown
  BY <1>10 DEF BuffersOK, Working, HasFrame, BeginShutdown
<1>11. CASE ScheduleFrame
  BY <1>11 DEF BuffersOK, Working, HasFrame, ScheduleFrame
<1>12. CASE WorkerPark
  BY <1>12 DEF BuffersOK, Working, HasFrame, WorkerPark
<1>13. CASE TakeCommand
  <2>1. workerPc' \in {"configure", "shutdown"}
    BY <1>13, TakenCommand
  <2> QED
    BY <1>13, <2>1 DEF BuffersOK, Working, HasFrame, TakeCommand
<1>14. CASE TakeRender
  BY <1>14 DEF BuffersOK, Working, HasFrame, TakeRender, RenderGoesFirst,
     FirstSlot
<1>15. CASE TakeFrame
  BY <1>15 DEF BuffersOK, Working, HasFrame, TakeFrame, RenderGoesFirst
<1>16. CASE WriteFails
  BY <1>16 DEF BuffersOK, Working, HasFrame, WriteFails, WriteToDevices
<1>17. CASE WriteFrame
  BY <1>17 DEF BuffersOK, Working, HasFrame, WriteFrame, WriteToDevices,
     RecordFrame
<1>18. CASE WriteRender
  BY <1>18 DEF BuffersOK, Working, HasFrame, WriteRender, WriteToDevices,
     AdvanceCycle, StalePending
<1>19. CASE RecordRender
  BY <1>19 DEF BuffersOK, Working, HasFrame, RecordRender, RecordFrame
<1>20. CASE ReturnBuffer
  <2>1. active.slot \in Slots
    BY <1>20 DEF ReturnBuffer, PlacesOK, Working
  <2>2. configured => slots' = Slots
    BY <1>20, <2>1 DEF ReturnBuffer, BuffersOK, Working
  <2> QED
    BY <1>20, <2>2 DEF BuffersOK, Working, HasFrame, ReturnBuffer
<1>21. CASE OpenOutputs
  <2>1. ~HasFrame' /\ workerPc' = "idle" /\ slots' = Slots
    BY <1>21 DEF OpenOutputs, FinishConfigure, CommandsOK, WorkNeedsOutputs,
       HasFrame
  <2> QED
    BY <2>1 DEF BuffersOK, Working
<1>22. CASE OpenOutputsFails
  <2>1. ~HasFrame' /\ workerPc' = "idle" /\ ~configured'
    BY <1>22 DEF OpenOutputsFails, FinishConfigure, CommandsOK, WorkNeedsOutputs,
       HasFrame
  <2> QED
    BY <2>1 DEF BuffersOK, Working
<1>23. CASE ConfigureBlackoutFails
  <2>1. ~HasFrame' /\ workerPc' = "idle" /\ ~configured'
    BY <1>23 DEF ConfigureBlackoutFails, FinishConfigure, CommandsOK,
       WorkNeedsOutputs, HasFrame
  <2> QED
    BY <2>1 DEF BuffersOK, Working
<1>24. CASE ShutDownOutputs
  BY <1>24 DEF BuffersOK, Working, HasFrame, ShutDownOutputs, Blackout, NoItem,
     CommandItem
<1>25. CASE UNCHANGED vars
  BY <1>25 DEF BuffersOK, Working, HasFrame, vars
<1> QED
  BY <1>1, <1>2, <1>3, <1>4, <1>5, <1>6, <1>7, <1>8, <1>9, <1>10, <1>11, <1>12,
     <1>13, <1>14, <1>15, <1>16, <1>17, <1>18, <1>19, <1>20, <1>21, <1>22,
     <1>23, <1>24, <1>25
     DEF Next, Dispatcher, FrameStream, AudioWorker, FrameScheduler,
         OutputThread, Finished


-----------------------------------------------------------------------------
(* Darkness.                                                               *)

\* Nothing outside the open set stays lit, except what a failed blackout left
\* behind.
LEMMA DarknessStep ==
  ASSUME TypeOK, CommandsOK, DarknessOK, [Next]_vars
  PROVE  DarknessOK'
<1> USE DEF gateVars, queueVars, statusVars, healthVars, deviceVars, workerVars,
            answerVars, callerVars, historyVars, Leave, Enter, EndSchedule,
            ClearWork, InstallSchedule, DetachActive, Accept, Accepting,
            MayRender, NotifyQueueChanged, Wake
<1>1. CASE RejectFrame \/ SchedulerPark \/ SchedulerStop \/
          (\E seq \in Seqs : RejectDirectRender(seq))
  BY <1>1 DEF DarknessOK, DispatcherAt, RejectFrame, RejectDirectRender,
     SchedulerPark, SchedulerStop
<1>2. CASE \E seq \in Seqs : SubmitFrame(seq)
  BY <1>2 DEF DarknessOK, DispatcherAt, SubmitFrame, FirstSlot
<1>3. CASE \E seq \in Seqs : SubmitDirectRender(seq)
  BY <1>3 DEF DarknessOK, DispatcherAt, SubmitDirectRender
<1>4. CASE \E seq \in Seqs : SubmitScheduledRender(seq)
  BY <1>4 DEF DarknessOK, DispatcherAt, SubmitScheduledRender
<1>5. CASE \E seq \in Seqs : BeginScene(seq)
  BY <1>5 DEF DarknessOK, DispatcherAt, BeginScene
<1>6. CASE InstallScene
  BY <1>6 DEF DarknessOK, DispatcherAt, InstallScene
<1>7. CASE FailScene
  BY <1>7 DEF DarknessOK, DispatcherAt, FailScene
<1>8. CASE CommitScene
  BY <1>8 DEF DarknessOK, DispatcherAt, CommitScene
<1>9. CASE \E seq \in AudioSeqs : SubmitAudioUpdate(seq)
  BY <1>9 DEF DarknessOK, DispatcherAt, SubmitAudioUpdate
<1>10. CASE \E config \in SUBSET Devices : ReserveConfigure(config)
  BY <1>10 DEF DarknessOK, DispatcherAt, ReserveConfigure
<1>11. CASE ConfigureReturns
  BY <1>11 DEF DarknessOK, DispatcherAt, ConfigureReturns
<1>12. CASE ConfigureTimesOut
  BY <1>12 DEF DarknessOK, DispatcherAt, ConfigureTimesOut
<1>13. CASE BeginShutdown
  BY <1>13 DEF DarknessOK, DispatcherAt, BeginShutdown
<1>14. CASE JoinScheduler
  BY <1>14 DEF DarknessOK, DispatcherAt, JoinScheduler
<1>15. CASE ShutdownReturns
  BY <1>15 DEF DarknessOK, DispatcherAt, ShutdownReturns
<1>16. CASE ShutdownTimesOut
  BY <1>16 DEF DarknessOK, DispatcherAt, ShutdownTimesOut
<1>17. CASE ScheduleFrame
  BY <1>17 DEF DarknessOK, DispatcherAt, ScheduleFrame
<1>18. CASE WorkerPark
  BY <1>18 DEF DarknessOK, DispatcherAt, WorkerPark
<1>19. CASE TakeCommand
  <2>1. workerPc' \in {"configure", "shutdown"}
    BY <1>19, TakenCommand
  <2> QED
    BY <1>19, <2>1 DEF DarknessOK, DispatcherAt, TakeCommand
<1>20. CASE TakeRender
  BY <1>20 DEF DarknessOK, DispatcherAt, TakeRender, RenderGoesFirst, FirstSlot
<1>21. CASE TakeFrame
  BY <1>21 DEF DarknessOK, DispatcherAt, TakeFrame, RenderGoesFirst
<1>22. CASE WriteFails
  BY <1>22 DEF DarknessOK, DispatcherAt, WriteFails, WriteToDevices
<1>23. CASE WriteFrame
  BY <1>23 DEF DarknessOK, DispatcherAt, WriteFrame, WriteToDevices,
     RecordFrame
<1>24. CASE WriteRender
  BY <1>24 DEF DarknessOK, DispatcherAt, WriteRender, WriteToDevices,
     AdvanceCycle, StalePending
<1>25. CASE RecordRender
  BY <1>25 DEF DarknessOK, DispatcherAt, RecordRender, RecordFrame
<1>26. CASE ReturnBuffer
  BY <1>26 DEF DarknessOK, DispatcherAt, ReturnBuffer, NoItem, CommandItem
<1>27. CASE OpenOutputs
  BY <1>27 DEF DarknessOK, DispatcherAt, OpenOutputs, FinishConfigure,
     AnswerConfigure, Blackout, NoItem, CommandItem
<1>28. CASE OpenOutputsFails
  BY <1>28 DEF DarknessOK, DispatcherAt, OpenOutputsFails, FinishConfigure,
     AnswerConfigure, Blackout, NoItem, CommandItem
<1>29. CASE ConfigureBlackoutFails
  BY <1>29 DEF DarknessOK, DispatcherAt, ConfigureBlackoutFails,
     FinishConfigure, AnswerConfigure, Blackout, NoItem, CommandItem
<1>30. CASE ShutDownOutputs
  <2>1. /\ workerPc = "shutdown" /\ workerPc' = "stopped"
        /\ UNCHANGED <<abandoned, closed, dispatcher, shutdownResult>>
    BY <1>30 DEF ShutDownOutputs
  <2>2. dispatcher.step \in {"joining", "awaiting", "down"}
    BY <2>1 DEF CommandsOK, DarknessOK
  <2>3. shutdownResult' # "ok"
    BY <2>1 DEF DarknessOK
  <2>4. DispatcherAt("down") => reply' = "none"
    BY <1>30, <2>1 DEF ShutDownOutputs, DarknessOK, DispatcherAt
  <2>5. reply' = "ok" => lit' \subseteq abandoned
    BY <1>30, <2>1, <2>4 DEF ShutDownOutputs, DarknessOK, Blackout
  <2> QED
    BY <2>1, <2>2, <2>3, <2>4, <2>5 DEF DarknessOK, DispatcherAt
<1>31. CASE UNCHANGED vars
  BY <1>31 DEF DarknessOK, DispatcherAt, vars
<1> QED
  BY <1>1, <1>2, <1>3, <1>4, <1>5, <1>6, <1>7, <1>8, <1>9, <1>10, <1>11, <1>12,
     <1>13, <1>14, <1>15, <1>16, <1>17, <1>18, <1>19, <1>20, <1>21, <1>22,
     <1>23, <1>24, <1>25, <1>26, <1>27, <1>28, <1>29, <1>30, <1>31
     DEF Next, Dispatcher, FrameStream, AudioWorker, FrameScheduler,
         OutputThread, Finished


-----------------------------------------------------------------------------
(* The theorems.                                                           *)

\* The invariant holds of a queue that nobody has used yet.
LEMMA InitIInv == Init => IInv
<1> SUFFICES ASSUME Init PROVE IInv
  OBVIOUS
<1>1. TypeOK
  <2>1. 0 \in SeqsOrNone /\ 0 \in StampsOrNone /\ active \in Item
    BY NoItemIsItem DEF Init, SeqsOrNone, StampsOrNone
  <2>2. commands \in Seq(Command) /\ slots \subseteq Slots
        /\ dispatcher \in [step : {"free", "scene", "commit", "configuring",
                                   "joining", "awaiting", "down"}, arg : SeqsOrNone]
    BY <2>1 DEF Init
  <2>3. open \subseteq Devices /\ lit \subseteq Devices /\ abandoned \subseteq Devices
        /\ opened \in BOOLEAN /\ configured \in BOOLEAN
        /\ commandPending \in BOOLEAN /\ closed \in BOOLEAN
    BY DEF Init
  <2> QED
    BY <2>1, <2>2, <2>3 DEF Init, TypeOK
<1>2. PlacesOK /\ CommandsOK /\ BuffersOK /\ DarknessOK
  BY DEF Init, PlacesOK, CommandsOK, BuffersOK, DarknessOK, Working,
         DispatcherAt, HasFrame
<1>3. WorkNeedsOutputs /\ CloseLeadsToBlackout /\ NoLostWakeup
      /\ FrameAccounting
  BY DEF Init, WorkNeedsOutputs, CloseLeadsToBlackout, NoLostWakeup,
         FrameAccounting, HasFrame, HasRender, HasSchedule, One
<1>4. SharingOK /\ PendingRenderIsCurrent /\ OrderOK
  BY DEF Init, SharingOK, PendingRenderIsCurrent, OrderOK, HasFrame,
         HasRender, HasSchedule
<1> QED
  BY <1>1, <1>2, <1>3, <1>4 DEF IInv

\* And every step keeps it: the types, places and commands first, on which the others rest.
LEMMA NextIInv == IInv /\ [Next]_vars => IInv'
<1> SUFFICES ASSUME IInv, [Next]_vars PROVE IInv'
  OBVIOUS
<1> USE DEF IInv
<1>1. TypeOK' /\ PlacesOK' /\ CommandsOK'
  BY TypeOKStep, PlacesStep, CommandsStep
<1>2. WorkNeedsOutputs' /\ CloseLeadsToBlackout'
  BY OutputsStep, CloseStep
<1>3. BuffersOK' /\ FrameAccounting' /\ NoLostWakeup'
  BY <1>1, <1>2, BuffersStep, FrameAccountingStep, NoLostWakeupStep
<1>4. SharingOK' /\ PendingRenderIsCurrent' /\ OrderOK' /\ DarknessOK'
  BY PendingRenderStep, OrderStep, DarknessStep
<1> QED
  BY <1>1, <1>2, <1>3, <1>4

\* The inductive invariant holds in every reachable state.
THEOREM Invariance == Spec => []IInv
BY InitIInv, NextIInv, PTL DEF Spec

\* Every variable keeps its type: the sequence numbers, buffers and commands
\* the threads of OutputWorker hand each other are always well formed.
THEOREM TypeCorrect == Spec => []TypeOK
<1>1. IInv => TypeOK
  BY DEF IInv
<1> QED
  BY <1>1, Invariance, PTL

\* RuntimeHealth counts every queued frame and render exactly once, whichever
\* of submit_frame, submit_render_ordered, configure, shutdown and the output
\* thread displaced, dropped, failed or wrote it.
THEOREM AccountingIsExact == Spec => []FrameAccounting
<1>1. IInv => FrameAccounting
  BY DEF IInv
<1> QED
  BY <1>1, Invariance, PTL

\* output_worker_loop never lacks the buffer its `expect`s rely on, and never
\* shares one with the queue.
THEOREM BuffersAreOwned == Spec => []BufferOwnership
<1>1. IInv => BufferOwnership
  <2> SUFFICES ASSUME IInv PROVE BufferOwnership
    OBVIOUS
  <2>1. Slots # {} /\ \A s \in Slots : Slots \ {s} # {}
    BY DEF Slots
  <2>2. configured => slots # {}
    BY <2>1 DEF IInv, BuffersOK, PlacesOK
  <2> QED
    BY <2>2 DEF IInv, BuffersOK, WorkNeedsOutputs, BufferOwnership, Working
<1> QED
  BY <1>1, Invariance, PTL

\* A thread parked on its condition variable has nothing to do, so none of
\* the notify_queue_changed calls is missing.
THEOREM NoWakeupIsLost == Spec => []NoLostWakeup
<1>1. IInv => NoLostWakeup
  BY DEF IInv
<1> QED
  BY <1>1, Invariance, PTL

\* What waits for the output thread shows what the schedule shows now.
THEOREM RendersAreCurrent == Spec => []PendingRenderIsCurrent
<1>1. IInv => PendingRenderIsCurrent
  BY DEF IInv
<1> QED
  BY <1>1, Invariance, PTL

\* Nothing waits for, or is written to, outputs that are not configured.
THEOREM OutputsBehindWork == Spec => []WorkNeedsOutputs
<1>1. IInv => WorkNeedsOutputs
  BY DEF IInv
<1> QED
  BY <1>1, Invariance, PTL

\* After shutdown has begun the blackout command reaches the output thread.
THEOREM ClosingLeadsToBlackout == Spec => []CloseLeadsToBlackout
<1>1. IInv => CloseLeadsToBlackout
  BY DEF IInv
<1> QED
  BY <1>1, Invariance, PTL

\* OutputWorker::shutdown returns Ok only with the LEDs dark, devices a failed
\* reconfiguration abandoned excepted.
THEOREM DarkOnceShutDown == Spec => []DarkAfterShutdown
<1>1. IInv => DarkAfterShutdown
  BY DEF IInv, DarknessOK, DarkAfterShutdown
<1> QED
  BY <1>1, Invariance, PTL

\* The devices never go back to a submission older than one already taken.
THEOREM LatestAlwaysWins == Spec => LatestWins
<1>1. IInv /\ [Next]_vars => [started' >= started]_vars
  BY OrderStep DEF IInv
<1> QED
  BY <1>1, Invariance, PTL DEF Spec, LatestWins

-----------------------------------------------------------------------------
(***************************************************************************)
(* The stage: the old scene goes, effects that stay go on, and the power   *)
(* stays within the limits.  The first needs how long a blend has still to *)
(* go (StageInv), the second that two layers at most are matched one by    *)
(* one (ReconfigureKeeps), the third that the sum of a finite set is a     *)
(* number and that finitely many fractions have a smallest one.            *)
(***************************************************************************)
\* A count of at most two layers, by whether each of them counts.
LEMMA CountOfTwo ==
  ASSUME NEW S, S \subseteq {1, 2}
  PROVE  Cardinality(S) = (IF 1 \in S THEN 1 ELSE 0) + (IF 2 \in S THEN 1 ELSE 0)
<1>1. CASE S = {}
  BY <1>1, FS_EmptySet
<1>0. Cardinality({1}) = 1 /\ Cardinality({2}) = 1
  BY FS_Singleton, Zenon
<1>2. CASE S = {1}
  BY <1>0, <1>2
<1>3. CASE S = {2}
  BY <1>0, <1>3
<1>4. CASE S = {1, 2}
  <2>1. IsFiniteSet({1}) /\ Cardinality({1}) = 1
    BY FS_Singleton
  <2>2. Cardinality({1} \cup {2}) = 2
    BY <2>1, FS_AddElement
  <2> QED
    BY <1>4, <2>2
<1> QED
  BY <1>1, <1>2, <1>3, <1>4

\* The first of at most two layers.
LEMMA FirstOfTwo ==
  ASSUME NEW S, S \subseteq {1, 2}, S # {}
  PROVE  Min(S) = IF 1 \in S THEN 1 ELSE 2
<1>1. PICK m \in S : (m = IF 1 \in S THEN 1 ELSE 2)
  OBVIOUS
<1>2. m \in Int /\ \A x \in S : x \in Int
  OBVIOUS
<1>3. \A y \in S : m <= y
  BY <1>1
<1>4. \A n \in S : (\A y \in S : n <= y) => n = m
  BY <1>1, <1>3
<1> QED
  BY <1>1, <1>3, <1>4 DEF Min

\* The smallest of two numbers.
LEMMA MinOfPair ==
  ASSUME NEW a \in Nat, NEW b \in Nat
  PROVE  Min({a, b}) = IF a <= b THEN a ELSE b
<1> DEFINE m == IF a <= b THEN a ELSE b
<1>1. m \in {a, b} /\ \A y \in {a, b} : m <= y
  OBVIOUS
<1>2. \A n \in {a, b} : (\A y \in {a, b} : n <= y) => n = m
  OBVIOUS
<1> QED
  BY <1>1, <1>2 DEF Min

-----------------------------------------------------------------------------
\* Where a renderer is: the layers are at most two, and a blend that is on will be
\* over before the duration is.
StageInv ==
  /\ DOMAIN renderer.layers \subseteq {1, 2}
  /\ since \in Nat
  /\ renderer # None =>
       /\ "left" \in DOMAIN renderer.transition /\ renderer.transition.left \in Int
       /\ renderer.transition.left > 0 => renderer.transition.left + since < Duration
  /\ OldSceneGoes

\* The stage starts empty.
LEMMA StageStarts == StageInit => StageInv
<1>1. Cardinality({}) = 0
  BY FS_EmptySet
<1>2. DOMAIN None.layers = {}
  BY DEF None
<1> QED
  BY <1>1, <1>2, StageAssumption DEF StageInit, StageInv, OldSceneGoes, None

\* A stack holds no layer, one or two.
LEMMA StackSize ==
  \A overlays \in Stacks :
    DOMAIN overlays = {} \/ DOMAIN overlays = {1} \/ DOMAIN overlays = {1, 2}
  BY DEF Stacks

\* Every request keeps the layers of the stage within their time.
LEMMA StageSteps == StageInv /\ [RenderRequest]_stageVars => StageInv'
<1> SUFFICES ASSUME StageInv, [RenderRequest]_stageVars PROVE StageInv'
  OBVIOUS
<1> USE StageAssumption
<1>1. CASE UNCHANGED <<renderer, since>>
  BY <1>1 DEF StageInv, OldSceneGoes
<1>2. ASSUME NEW geometry \in Geometries, NEW animation \in Animations, NEW revision \in Revisions,
             NEW overlays \in Stacks, NEW solid \in BOOLEAN,
             NEW frames \in 0 .. Duration \cup {Unlimited},
             RenderScene(geometry, animation, revision, overlays, solid, frames)
      PROVE  StageInv'
  <2> DEFINE r == Found(geometry)
             changed == SceneChanged(r, animation, revision)
             blend == Blend(r, changed, solid, frames)
             scene == IF solid THEN <<"solid", 0>> ELSE <<animation, revision>>
             frame == Mixed(blend, scene)
  <2>1. /\ renderer' = [geometry |-> geometry, animation |-> animation, revision |-> revision,
                      layers |-> Reconfigure(r.layers, overlays),
                      transition |-> Passed(blend), last |-> frame]
        /\ since' = IF changed \/ solid \/ r # renderer
                    THEN IF solid \/ frames = Unlimited \/ r # renderer THEN Duration + 1 ELSE 0
                    ELSE IF since > Duration THEN since ELSE since + 1
    BY <1>2 DEF RenderScene
  <2>2. (r = renderer /\ renderer # None) \/ (r = Fresh(geometry) /\ r # renderer)
    <3>1. CASE renderer.geometry = geometry
      <4>1. r = renderer
        BY <3>1 DEF Found
      <4>2. None.geometry # geometry
        BY DEF None
      <4>3. renderer # None
        BY <3>1, <4>2
      <4> HIDE DEF r
      <4> QED
        BY <4>1, <4>3
    <3>2. CASE renderer.geometry # geometry
      <4>1. r = Fresh(geometry)
        BY <3>2 DEF Found
      <4>2. Fresh(geometry).geometry = geometry
        BY DEF Fresh
      <4> QED
        BY <3>2, <4>1, <4>2
    <3> QED
      BY <3>1, <3>2
  <2>3. DOMAIN renderer'.layers \subseteq {1, 2}
    BY <2>1, StackSize DEF Reconfigure
  <2>4. since' \in Nat
    BY <2>1 DEF StageInv
  <2>5. /\ blend.left \in Int
        /\ ~(changed \/ solid \/ r # renderer) => blend = renderer.transition
        /\ solid \/ r # renderer => blend.left = -1
        /\ changed /\ ~solid /\ frames = Unlimited => blend.left = -1
        /\ changed /\ ~solid /\ frames # Unlimited => blend.left = frames /\ frames \in 0 .. Duration
    <3>1. CASE r # renderer
      BY <2>2, <3>1 DEF Blend, SceneChanged, Fresh, NoTransition
    <3>2. CASE r = renderer
      BY <2>2, <3>2 DEF Blend, SceneChanged, NoTransition, StageInv
    <3> QED
      BY <3>1, <3>2
  <2>6. /\ "left" \in DOMAIN Passed(blend) /\ Passed(blend).left \in Int
        /\ blend.left > 0 => Passed(blend).left = blend.left - 1
        /\ ~(blend.left > 0) => Passed(blend).left = -1 /\ frame = {scene}
    <3>1. CASE blend.left > 0
      <4>1. Passed(blend) = [blend EXCEPT !.left = blend.left - 1]
        BY <3>1 DEF Passed
      <4>2. "left" \in DOMAIN blend
        <5>1. r # renderer => r.transition = NoTransition
          BY <2>2 DEF Fresh
        <5>2. r = renderer => "left" \in DOMAIN r.transition
          BY <2>2 DEF StageInv
        <5>3. blend = NoTransition \/ blend = r.transition \/ blend = [source |-> r.last, left |-> frames]
          BY DEF Blend
        <5> QED
          BY <5>1, <5>2, <5>3 DEF NoTransition
      <4> QED
        BY <3>1, <4>1, <4>2, <2>5
    <3>2. CASE ~(blend.left > 0)
      BY <3>2 DEF Passed, Mixed, NoTransition
    <3> QED
      BY <3>1, <3>2
  <2> HIDE DEF r, changed, blend, frame, scene
  <2>7. renderer'.transition = Passed(blend) /\ renderer'.last = frame
    BY <2>1
  <2>8. Passed(blend).left > 0 => Passed(blend).left + since' < Duration
    BY <2>1, <2>2, <2>5, <2>6 DEF StageInv
  <2>9. since' > Duration => frame = {scene}
    BY <2>1, <2>2, <2>5, <2>6 DEF StageInv
  <2>10. Cardinality({scene}) = 1
    BY FS_Singleton
  <2>11. OldSceneGoes'
    BY <2>7, <2>9, <2>10 DEF OldSceneGoes
  <2> QED
    BY <2>3, <2>4, <2>6, <2>7, <2>8, <2>11 DEF StageInv
<1> QED
  BY <1>1, <1>2 DEF RenderRequest, stageVars

-----------------------------------------------------------------------------
\* The layers of overlay d, those of them that were there before, and what a
\* request does to them, layer by layer.
Layered(layers, d) == {i \in DOMAIN layers : layers[i].overlay = d}
Kept(layers, d) == {i \in DOMAIN layers : layers[i].overlay = d /\ ~layers[i].new}

\* configure keeps the overlays that remain in the scene, with the time they have left.
LEMMA ReconfigureKeeps ==
  ASSUME NEW layers, DOMAIN layers \subseteq {1, 2}, NEW overlays \in Stacks, NEW d
  PROVE  LET next == Reconfigure(layers, overlays)
         IN  Cardinality(Kept(next, d))
               = Min({Cardinality(Layered(layers, d)), Cardinality(Layered(next, d))})
<1> DEFINE next == Reconfigure(layers, overlays)
           Free(o, taken) == {i \in DOMAIN layers \ taken : layers[i].overlay = o}
           first == IF overlays = <<>> THEN {} ELSE FirstSame(layers, overlays[1], {})
           has(i) == i \in DOMAIN layers /\ layers[i].overlay = d
<1>1. /\ DOMAIN next = DOMAIN overlays
      /\ \A i \in DOMAIN next :
           /\ next[i].overlay = overlays[i]
           /\ next[i].new = ((IF i = 1 THEN first ELSE FirstSame(layers, overlays[i], first)) = {})
  BY DEF Reconfigure
<1>2. \A o, taken : /\ FirstSame(layers, o, taken) = {} <=> Free(o, taken) = {}
                    /\ Free(o, taken) # {} =>
                         FirstSame(layers, o, taken) = {IF 1 \in Free(o, taken) THEN 1 ELSE 2}
  <2> SUFFICES ASSUME NEW o, NEW taken
               PROVE  /\ FirstSame(layers, o, taken) = {} <=> Free(o, taken) = {}
                      /\ Free(o, taken) # {} =>
                           FirstSame(layers, o, taken) = {IF 1 \in Free(o, taken) THEN 1 ELSE 2}
    OBVIOUS
  <2>1. Free(o, taken) \subseteq {1, 2}
    OBVIOUS
  <2>2. FirstSame(layers, o, taken) = IF Free(o, taken) = {} THEN {} ELSE {Min(Free(o, taken))}
    BY DEF FirstSame
  <2> HIDE DEF Free
  <2> QED
    BY <2>1, <2>2, FirstOfTwo
<1>3. DOMAIN overlays = {} \/ (DOMAIN overlays = {1} \/ DOMAIN overlays = {1, 2})
  BY StackSize
<1>4. 1 \in DOMAIN overlays => first = FirstSame(layers, overlays[1], {})
  <2>1. DOMAIN <<>> = {}
    OBVIOUS
  <2> QED
    BY <2>1
<1> DEFINE Old == Layered(layers, d)
           New == Layered(next, d)
           Same == Kept(next, d)
<1>5. Old \subseteq {1, 2} /\ New \subseteq {1, 2} /\ Same \subseteq {1, 2}
  <2>1. DOMAIN next \subseteq {1, 2}
    BY <1>1, <1>3
  <2> HIDE DEF next
  <2> QED
    BY <2>1 DEF Layered, Kept
<1>6. /\ 1 \in New <=> 1 \in DOMAIN overlays /\ overlays[1] = d
      /\ 2 \in New <=> 2 \in DOMAIN overlays /\ overlays[2] = d
  <2> HIDE DEF next
  <2> QED
    BY <1>1 DEF Layered
<1>7. 1 \in Same <=> 1 \in New /\ Old # {}
  <2>1. Free(d, {}) = Old
    BY DEF Layered
  <2>2. 1 \in Same <=> 1 \in New /\ ~next[1].new
    BY DEF Layered, Kept
  <2>3. 1 \in New => (next[1].new <=> Free(overlays[1], {}) = {})
    <3> HIDE DEF next, Free, first
    <3> QED
      BY <1>1, <1>2, <1>4, <1>6
  <2> HIDE DEF next, Free, Old, New, Same
  <2> QED
    BY <2>1, <2>2, <2>3, <1>6
<1>8. 2 \in Same <=> 2 \in New /\ Old \ first # {}
  <2>1. Free(d, first) = Old \ first
    <3> HIDE DEF first
    <3> QED
      BY DEF Layered
  <2>2. 2 \in Same <=> 2 \in New /\ ~next[2].new
    BY DEF Layered, Kept
  <2>3. 2 \in New => (next[2].new <=> Free(overlays[2], first) = {})
    <3> HIDE DEF next, Free, first
    <3>1. 2 \in New => 2 \in DOMAIN next
      BY <1>1, <1>6
    <3>2. 2 \in DOMAIN next => next[2].new = (FirstSame(layers, overlays[2], first) = {})
      BY <1>1
    <3>3. FirstSame(layers, overlays[2], first) = {} <=> Free(overlays[2], first) = {}
      BY <1>2
    <3> QED
      BY <3>1, <3>2, <3>3
  <2> HIDE DEF next, Free, first, Old, New, Same
  <2> QED
    BY <2>1, <2>2, <2>3, <1>6
\* What the first layer takes over it takes from its own overlay alone.
<1>9. 2 \in New => /\ 1 \in New /\ Old # {} => first = {IF 1 \in Old THEN 1 ELSE 2}
                   /\ 1 \notin New \/ Old = {} => Old \ first = Old
  <2> SUFFICES ASSUME 2 \in New
               PROVE  /\ 1 \in New /\ Old # {} => first = {IF 1 \in Old THEN 1 ELSE 2}
                      /\ 1 \notin New \/ Old = {} => Old \ first = Old
    OBVIOUS
  <2>1. 1 \in DOMAIN overlays /\ first = FirstSame(layers, overlays[1], {})
    BY <1>3, <1>4, <1>6
  <2>2. Free(d, {}) = Old
    BY DEF Layered
  <2>3. ASSUME overlays[1] # d PROVE Old \ first = Old
    <3>1. first \subseteq Free(overlays[1], {})
      <4> HIDE DEF Free
      <4>1. Free(overlays[1], {}) \subseteq {1, 2}
        BY DEF Free
      <4> QED
        BY <2>1, <1>2, <4>1
    <3>2. \A i \in Free(overlays[1], {}) : i \notin Old
      BY <2>3 DEF Layered
    <3> HIDE DEF first, Free, Old
    <3> QED
      BY <3>1, <3>2
  <2> HIDE DEF next, Free, first, Old, New, Same
  <2> QED
    BY <2>1, <2>2, <2>3, <1>2, <1>6
<1> HIDE DEF next, Free, first, has, Old, New, Same
<1>10. Cardinality(Old) = (IF 1 \in Old THEN 1 ELSE 0) + (IF 2 \in Old THEN 1 ELSE 0)
  BY <1>5, CountOfTwo
<1>11. Cardinality(New) = (IF 1 \in New THEN 1 ELSE 0) + (IF 2 \in New THEN 1 ELSE 0)
  BY <1>5, CountOfTwo
<1>12. Cardinality(Same) = (IF 1 \in Same THEN 1 ELSE 0) + (IF 2 \in Same THEN 1 ELSE 0)
  BY <1>5, CountOfTwo
<1>13. Cardinality(Old) \in Nat /\ Cardinality(New) \in Nat
  BY <1>10, <1>11
<1>14. Min({Cardinality(Old), Cardinality(New)})
         = IF Cardinality(Old) <= Cardinality(New) THEN Cardinality(Old) ELSE Cardinality(New)
  BY <1>13, MinOfPair
<1>15. Cardinality(Same) = IF Cardinality(Old) <= Cardinality(New) THEN Cardinality(Old) ELSE Cardinality(New)
  <2>1. CASE Old = {}
    BY <2>1, <1>5, <1>7, <1>8, <1>10, <1>11, <1>12
  <2>2. CASE Old = {1}
    BY <2>2, <1>5, <1>7, <1>8, <1>9, <1>10, <1>11, <1>12
  <2>3. CASE Old = {2}
    BY <2>3, <1>5, <1>7, <1>8, <1>9, <1>10, <1>11, <1>12
  <2>4. CASE Old = {1, 2}
    BY <2>4, <1>5, <1>7, <1>8, <1>9, <1>10, <1>11, <1>12
  <2> QED
    BY <2>1, <2>2, <2>3, <2>4, <1>5
<1> QED
  BY <1>14, <1>15 DEF next, Old, New, Same

\* An effect that is shown goes on until its time is over.
LEMMA EffectsStay == StageInv /\ [RenderRequest]_stageVars => [EffectsKept]_stageVars
<1> SUFFICES ASSUME StageInv, RenderRequest, renderer.geometry = renderer'.geometry, NEW d \in Overlays
             PROVE  Cardinality(Kept(renderer'.layers, d))
                      = Min({Cardinality(Layered(renderer.layers, d)),
                             Cardinality(Layered(renderer'.layers, d))})
  BY DEF EffectsKept, Kept, Layered
<1>1. CASE renderer = None /\ UNCHANGED renderer
  <2>1. DOMAIN None.layers = {}
    BY DEF None
  <2>2. Kept(None.layers, d) = {} /\ Layered(None.layers, d) = {}
    BY <2>1 DEF Kept, Layered
  <2>3. Min({0, 0}) = 0
    BY MinOfPair
  <2> QED
    BY <1>1, <2>2, <2>3, FS_EmptySet
<1>2. ASSUME NEW geometry \in Geometries, NEW animation \in Animations, NEW revision \in Revisions,
             NEW overlays \in Stacks, NEW solid \in BOOLEAN,
             NEW frames \in 0 .. Duration \cup {Unlimited},
             RenderScene(geometry, animation, revision, overlays, solid, frames)
      PROVE  renderer'.layers = Reconfigure(renderer.layers, overlays)
  <2>1. renderer'.geometry = geometry /\ renderer'.layers = Reconfigure(Found(geometry).layers, overlays)
    BY <1>2 DEF RenderScene
  <2> QED
    BY <2>1 DEF Found
<1>3. ASSUME NEW overlays \in Stacks, renderer'.layers = Reconfigure(renderer.layers, overlays)
      PROVE  Cardinality(Kept(renderer'.layers, d))
               = Min({Cardinality(Layered(renderer.layers, d)),
                      Cardinality(Layered(renderer'.layers, d))})
  <2>1. DOMAIN renderer.layers \subseteq {1, 2}
    BY DEF StageInv
  <2> QED
    BY <1>3, <2>1, ReconfigureKeeps
<1> QED
  BY <1>1, <1>2, <1>3 DEF RenderRequest

-----------------------------------------------------------------------------
\* Every non-empty set of numbers has a least one.
LEMMA LeastExists ==
  ASSUME NEW T \in SUBSET Nat, T # {} PROVE \E n \in T : \A m \in T : n <= m
<1> DEFINE R == {ss \in Nat \X Nat : ss[1] < ss[2]}
<1>1. IsWellFoundedOn(OpToRel(<, Nat), Nat)
  BY NatLessThanWellFounded
<1>2. OpToRel(<, Nat) = R
  BY Zenon DEF OpToRel
<1>3. IsWellFoundedOn(R, Nat)
  BY <1>1, <1>2, Zenon
<1> HIDE DEF R
<1>4. PICK n \in T : \A m \in T : ~(<<m, n>> \in R)
  BY <1>3, WFMin
<1>5. ASSUME NEW m \in T, ~(n <= m) PROVE FALSE
  <2>1. m \in Nat /\ n \in Nat /\ m < n
    BY <1>5
  <2>2. <<m, n>> \in Nat \X Nat /\ <<m, n>>[1] = m /\ <<m, n>>[2] = n
    BY <2>1
  <2>3. <<m, n>> \in R
    BY <2>1, <2>2 DEF R
  <2> QED
    BY <2>3, <1>4, Zenon
<1> QED
  BY <1>5

\* A sum over a finite set is a number: for as long as the sets are no larger than n,
\* there is a function that adds them up.
LEMMA TotalIsNat == ASSUME NEW w \in [Outputs -> Nat] PROVE Total(w) \in Nat
<1> DEFINE pick(s) == CHOOSE x \in s : TRUE
           Sums(f, n) == /\ f \in [SUBSET Outputs -> Nat]
                         /\ \A s \in SUBSET Outputs : Cardinality(s) <= n =>
                              f[s] = IF s = {} THEN 0 ELSE w[pick(s)] + f[s \ {pick(s)}]
           Fail == {n \in Nat : ~ \E f : Sums(f, n)}
<1>1. \A s \in SUBSET Outputs : IsFiniteSet(s) /\ Cardinality(s) \in Nat
  BY StageAssumption, FS_Subset, FS_CardinalityType
<1>2. \A s \in SUBSET Outputs : s # {} =>
        /\ pick(s) \in s /\ s \ {pick(s)} \in SUBSET Outputs
        /\ Cardinality(s \ {pick(s)}) = Cardinality(s) - 1
  <2> SUFFICES ASSUME NEW s \in SUBSET Outputs, s # {}
               PROVE  /\ pick(s) \in s /\ s \ {pick(s)} \in SUBSET Outputs
                      /\ Cardinality(s \ {pick(s)}) = Cardinality(s) - 1
    OBVIOUS
  <2>1. pick(s) \in s
    OBVIOUS
  <2> HIDE DEF pick
  <2> QED
    BY <2>1, <1>1, FS_RemoveElement
<1> HIDE DEF pick
<1>3. \E f : Sums(f, 0)
  <2> DEFINE f0 == [s \in SUBSET Outputs |-> 0]
  <2>1. \A s \in SUBSET Outputs : Cardinality(s) <= 0 => s = {}
    BY <1>1, FS_EmptySet
  <2>2. Sums(f0, 0)
    BY <2>1
  <2> QED
    BY <2>2
<1>4. ASSUME NEW n \in Nat, NEW f, Sums(f, n) PROVE \E g : Sums(g, n + 1)
  <2> DEFINE g == [s \in SUBSET Outputs |->
                     IF s = {} THEN 0 ELSE w[pick(s)] + f[s \ {pick(s)}]]
  <2>1. g \in [SUBSET Outputs -> Nat]
    <3>1. \A s \in SUBSET Outputs : g[s] \in Nat
      <4> SUFFICES ASSUME NEW s \in SUBSET Outputs, s # {} PROVE w[pick(s)] + f[s \ {pick(s)}] \in Nat
        OBVIOUS
      <4>1. w[pick(s)] \in Nat /\ f[s \ {pick(s)}] \in Nat
        BY <1>2, <1>4
      <4> QED
        BY <4>1
    <3> QED
      BY <3>1
  <2>2. ASSUME NEW s \in SUBSET Outputs, Cardinality(s) <= n PROVE g[s] = f[s]
    BY <1>4, <2>2
  <2>3. ASSUME NEW s \in SUBSET Outputs, Cardinality(s) <= n + 1
        PROVE  g[s] = IF s = {} THEN 0 ELSE w[pick(s)] + g[s \ {pick(s)}]
    <3>1. CASE s = {}
      BY <3>1
    <3>2. CASE s # {}
      <4>1. s \ {pick(s)} \in SUBSET Outputs /\ Cardinality(s \ {pick(s)}) <= n
        BY <1>1, <1>2, <2>3, <3>2
      <4>2. g[s \ {pick(s)}] = f[s \ {pick(s)}]
        BY <4>1, <2>2
      <4>3. g[s] = w[pick(s)] + f[s \ {pick(s)}]
        BY <3>2
      <4> QED
        BY <3>2, <4>2, <4>3
    <3> QED
      BY <3>1, <3>2
  <2> HIDE DEF g
  <2> QED
    BY <2>1, <2>3
<1>5. \A n \in Nat : \E f : Sums(f, n)
  <2> SUFFICES ASSUME Fail # {} PROVE FALSE
    OBVIOUS
  <2>1. PICK n \in Fail : \A m \in Fail : n <= m
    BY LeastExists
  <2> HIDE DEF Sums
  <2>2. n \in Nat /\ n # 0
    BY <1>3
  <2>3. n - 1 \in Nat /\ n - 1 \notin Fail
    BY <2>1, <2>2
  <2>4. PICK f : Sums(f, n - 1)
    BY <2>3
  <2>5. \E g : Sums(g, (n - 1) + 1)
    BY <2>3, <2>4, <1>4
  <2>6. (n - 1) + 1 = n
    BY <2>2
  <2> QED
    BY <2>5, <2>6
<1>6. PICK f : Sums(f, Cardinality(Outputs))
  <2> HIDE DEF Sums
  <2>1. Cardinality(Outputs) \in Nat
    BY <1>1
  <2> QED
    BY <2>1, <1>5
<1> DEFINE Unfold(h) == [s \in SUBSET Outputs |-> IF s = {} THEN 0 ELSE w[pick(s)] + h[s \ {pick(s)}]]
<1>7. f = Unfold(f)
  <2>1. \A s \in SUBSET Outputs : Cardinality(s) <= Cardinality(Outputs)
    BY StageAssumption, FS_Subset
  <2> QED
    BY <1>6, <2>1
<1>8. Total(w) = (CHOOSE h : h = Unfold(h))[Outputs]
  BY DEF Total, MapThenSumSet, MapThenFoldSet, pick
<1> QED
  <2> DEFINE h == CHOOSE h : h = Unfold(h)
  <2>1. h = Unfold(h)
    BY <1>7
  <2>2. \A s \in SUBSET Outputs : h[s] = IF s = {} THEN 0 ELSE w[pick(s)] + h[s \ {pick(s)}]
    BY <2>1
  <2> HIDE DEF h
  <2> DEFINE Odd == {s \in SUBSET Outputs : h[s] \notin Nat}
             Sizes == {Cardinality(s) : s \in Odd}
  <2>3. ASSUME Odd # {} PROVE FALSE
    <3>1. Sizes \in SUBSET Nat /\ Sizes # {}
      BY <1>1, <2>3
    <3>2. PICK n \in Sizes : \A m \in Sizes : n <= m
      BY <3>1, LeastExists
    <3>3. PICK s \in Odd : n = Cardinality(s)
      OBVIOUS
    <3>4. s \in SUBSET Outputs /\ h[s] \notin Nat /\ s # {}
      <4>1. {} \in SUBSET Outputs
        OBVIOUS
      <4>2. h[{}] = 0
        BY <4>1, <2>2
      <4>3. s \in SUBSET Outputs /\ h[s] \notin Nat
        OBVIOUS
      <4> QED
        BY <4>2, <4>3
    <3>5. /\ s \ {pick(s)} \in SUBSET Outputs /\ pick(s) \in Outputs
          /\ Cardinality(s \ {pick(s)}) = n - 1
      BY <3>3, <3>4, <1>2
    <3>6. s \ {pick(s)} \notin Odd
      <4>1. n \in Nat /\ ~(n <= n - 1)
        BY <3>3, <1>1
      <4> HIDE DEF Odd
      <4> QED
        BY <3>2, <3>5, <4>1
    <3>7. h[s \ {pick(s)}] \in Nat /\ w[pick(s)] \in Nat
      BY <3>5, <3>6
    <3>8. h[s] = w[pick(s)] + h[s \ {pick(s)}]
      BY <2>2, <3>4
    <3> HIDE DEF Odd
    <3> QED
      BY <3>4, <3>7, <3>8
  <2>4. h[Outputs] \in Nat
    BY <2>3
  <2> QED
    BY <1>8, <2>4 DEF h

-----------------------------------------------------------------------------
\* Fractions: Smaller is an order on them, and finitely many have a smallest one.
Fractions == Nat \X (Nat \ {0})

\* Multiplication by a number keeps the order.
LEMMA MoreTimes == ASSUME NEW a \in Nat, NEW b \in Nat, NEW k \in Nat, a <= b PROVE a * k <= b * k
<1>1. PICK c \in Nat : b = a + c
  <2>1. b - a \in Nat /\ b = a + (b - a)
    OBVIOUS
  <2> QED
    BY <2>1
<1>2. b * k = a * k + c * k
  BY <1>1
<1>3. a * k \in Nat /\ c * k \in Nat
  OBVIOUS
<1> QED
  BY <1>2, <1>3

\* And the order of products is that of their factors.
LEMMA LessTimes ==
  ASSUME NEW a \in Nat, NEW b \in Nat, NEW k \in Nat \ {0}, a * k <= b * k PROVE a <= b
<1> SUFFICES ASSUME ~(a <= b) PROVE FALSE
  OBVIOUS
<1>1. b + 1 <= a /\ b + 1 \in Nat
  OBVIOUS
<1>2. (b + 1) * k <= a * k
  BY <1>1, MoreTimes
<1>3. (b + 1) * k = b * k + k
  OBVIOUS
<1>4. a * k \in Nat /\ b * k \in Nat
  OBVIOUS
<1> QED
  BY <1>2, <1>3, <1>4

\* Fractions are ordered by their cross products.
LEMMA SmallerOrders ==
  ASSUME NEW a \in Fractions, NEW b \in Fractions, NEW c \in Fractions
  PROVE  /\ Smaller(a, b) \/ Smaller(b, a)
         /\ Smaller(a, b) /\ Smaller(b, c) => Smaller(a, c)
<1> DEFINE a1 == a[1]  a2 == a[2]  b1 == b[1]  b2 == b[2]  c1 == c[1]  c2 == c[2]
<1>1. /\ a1 \in Nat /\ b1 \in Nat /\ c1 \in Nat
      /\ a2 \in Nat \ {0} /\ b2 \in Nat \ {0} /\ c2 \in Nat \ {0}
  BY DEF Fractions
<1>2. Smaller(a, b) = (a1 * b2 <= b1 * a2) /\ Smaller(b, a) = (b1 * a2 <= a1 * b2)
  BY DEF Smaller
<1>3. Smaller(b, c) = (b1 * c2 <= c1 * b2) /\ Smaller(a, c) = (a1 * c2 <= c1 * a2)
  BY DEF Smaller
<1> HIDE DEF a1, a2, b1, b2, c1, c2
<1>4. a1 * b2 \in Nat /\ b1 * a2 \in Nat /\ b1 * c2 \in Nat /\ c1 * b2 \in Nat
      /\ a1 * c2 \in Nat /\ c1 * a2 \in Nat
  BY <1>1
<1>5. ASSUME a1 * b2 <= b1 * a2, b1 * c2 <= c1 * b2 PROVE a1 * c2 <= c1 * a2
  <2>1. (a1 * b2) * c2 <= (b1 * a2) * c2
    BY <1>1, <1>4, <1>5, MoreTimes
  <2>2. (b1 * c2) * a2 <= (c1 * b2) * a2
    BY <1>1, <1>4, <1>5, MoreTimes
  <2>3. (a1 * b2) * c2 = (a1 * c2) * b2
    BY <1>1
  <2>4. (b1 * a2) * c2 = (b1 * c2) * a2
    BY <1>1
  <2>5. (c1 * b2) * a2 = (c1 * a2) * b2
    BY <1>1
  <2>6. (a1 * c2) * b2 <= (c1 * a2) * b2
    <3>1. (a1 * c2) * b2 \in Nat /\ (c1 * a2) * b2 \in Nat /\ (b1 * c2) * a2 \in Nat
      BY <1>1, <1>4
    <3> QED
      BY <2>1, <2>2, <2>3, <2>4, <2>5, <3>1
  <2> QED
    BY <2>6, <1>1, <1>4, LessTimes
<1>6. a1 * b2 <= b1 * a2 \/ b1 * a2 <= a1 * b2
  BY <1>4
<1> QED
  BY <1>2, <1>3, <1>5, <1>6

\* A finite set of fractions that is not empty has a smallest one.
LEMMA SmallestExists ==
  ASSUME NEW S \in SUBSET Fractions, IsFiniteSet(S), S # {}
  PROVE  \E s \in S : \A t \in S : Smaller(s, t)
<1> DEFINE Below(x) == {y \in S : Smaller(y, x)}
           F == {Below(x) : x \in S}
<1>1. IsWellFoundedOn(StrictSubsetOrdering(S), FiniteSubsetsOf(S))
  BY FS_StrictSubsetOrderingWellFounded
<1>2. F \subseteq FiniteSubsetsOf(S) /\ F # {}
  <2>1. FiniteSubsetsOf(S) = SUBSET S
    BY FS_FiniteSubsetsOfFinite
  <2>2. F \subseteq SUBSET S
    OBVIOUS
  <2>3. PICK x \in S : TRUE
    OBVIOUS
  <2>4. Below(x) \in F
    OBVIOUS
  <2> HIDE DEF F
  <2> QED
    BY <2>1, <2>2, <2>4
<1>3. PICK T \in F : \A U \in F : ~(<<U, T>> \in StrictSubsetOrdering(S))
  <2> HIDE DEF F
  <2> QED
    BY <1>1, <1>2, WFMin
<1>4. PICK m \in S : T = Below(m)
  OBVIOUS
<1>5. ASSUME NEW n \in S, ~Smaller(m, n) PROVE FALSE
  <2>1. Smaller(n, m) /\ Smaller(m, m)
    BY <1>5, SmallerOrders
  <2>2. \A y \in S : Smaller(y, n) => Smaller(y, m)
    BY <2>1, SmallerOrders
  <2>3. Below(n) \subseteq Below(m) /\ m \in Below(m) /\ m \notin Below(n)
    BY <2>1, <2>2, <1>5
  <2>4. Below(n) \in F /\ Below(n) \subseteq S /\ Below(m) \subseteq S
    OBVIOUS
  <2> HIDE DEF Below, F
  <2>5. <<Below(n), Below(m)>> \in StrictSubsetOrdering(S)
    BY <2>3, <2>4 DEF StrictSubsetOrdering
  <2> QED
    BY <2>4, <2>5, <1>3, <1>4
<1> QED
  BY <1>5

-----------------------------------------------------------------------------
\* The scale that is applied is the smallest of those that are asked for.
LEMMA ScaleIsLeast ==
  ASSUME NEW w \in [Outputs -> Watts], NEW lim \in [Outputs -> Watts \cup {Unlimited}],
         NEW budget \in Watts
  PROVE  /\ Scale(w, lim, budget) \in Fractions
         /\ \A t \in Candidates(w, lim, budget) : Smaller(Scale(w, lim, budget), t)
<1> DEFINE all == Candidates(w, lim, budget)
           Own == {p \in Outputs : lim[p] # Unlimited /\ w[p] > 0}
           Cap(o) == <<lim[o], w[o]>>
<1>0. Watts \subseteq Nat /\ Unlimited \notin Watts /\ IsFiniteSet(Outputs)
  BY StageAssumption
<1>1. Total(w) \in Nat
  BY <1>0, TotalIsNat
<1>2. all \subseteq Fractions
  <2>1. ASSUME NEW o \in Own PROVE <<lim[o], w[o]>> \in Fractions
    <3>1. o \in Outputs /\ lim[o] # Unlimited /\ w[o] > 0
      OBVIOUS
    <3>2. lim[o] \in Watts /\ w[o] \in Watts
      BY <3>1
    <3>3. lim[o] \in Nat /\ w[o] \in Nat \ {0}
      <4>1. \A n \in Watts : n \in Nat
        BY <1>0
      <4>2. lim[o] \in Nat /\ w[o] \in Nat /\ w[o] # 0
        BY <3>1, <3>2, <4>1
      <4> QED
        BY <4>2
    <3> QED
      BY <3>3 DEF Fractions
  <2>2. Total(w) > 0 => <<budget, Total(w)>> \in Fractions
    BY <1>0, <1>1 DEF Fractions
  <2> QED
    BY <2>1, <2>2 DEF Candidates
<1>3. IsFiniteSet(all)
  <2>1. IsFiniteSet(Own)
    BY <1>0, FS_Subset
  <2>2. IsFiniteSet({<<lim[o], w[o]>> : o \in Own})
    <3> DEFINE h == [o \in Own |-> <<lim[o], w[o]>>]
    <3>1. h \in [Own -> {h[o] : o \in Own}] /\ {h[o] : o \in Own} = {<<lim[o], w[o]>> : o \in Own}
      OBVIOUS
    <3>2. h \in Surjection(Own, {h[o] : o \in Own})
      <4> HIDE DEF h, Own
      <4> QED
        BY <3>1 DEF Surjection
    <3> HIDE DEF h, Own
    <3> QED
      BY <2>1, <3>1, <3>2, FS_Surjection
  <2>3. IsFiniteSet(IF Total(w) > 0 THEN {<<budget, Total(w)>>} ELSE {})
    BY FS_Singleton, FS_EmptySet
  <2> HIDE DEF Own
  <2> QED
    BY <2>2, <2>3, FS_Union DEF Candidates, Own
<1>4. <<1, 1>> \in Fractions
  BY DEF Fractions
<1> DEFINE some == all \cup {<<1, 1>>}
<1> HIDE DEF all
<1>5. some \subseteq Fractions /\ some # {} /\ IsFiniteSet(some)
  BY <1>2, <1>3, <1>4, FS_AddElement
<1>6. \E s \in some : \A t \in some : Smaller(s, t)
  BY <1>5, SmallestExists
<1>7. Scale(w, lim, budget) = CHOOSE s \in some : \A t \in some : Smaller(s, t)
  BY <1>0 DEF Scale, all
<1>8. Scale(w, lim, budget) \in some /\ \A t \in some : Smaller(Scale(w, lim, budget), t)
  BY <1>6, <1>7
<1> QED
  BY <1>5, <1>8 DEF all

\* finalize leaves what the supply can bear.
LEMMA FinalizeLimits ==
  ASSUME NEW w \in [Outputs -> Watts], NEW lim \in [Outputs -> Watts \cup {Unlimited}],
         NEW budget \in Watts \cup {Unlimited}, Finalize(w, lim, budget)
  PROVE  PowerWithinLimits'
<1> DEFINE s == Scale(w, lim, budget)
<1>0. Watts \subseteq Nat /\ Unlimited \notin Watts /\ Total(w) \in Nat
  BY StageAssumption, TotalIsNat
<1>1. watts' = w /\ limits'.budget = budget /\ limits'.output = lim /\ applied' = s
  BY DEF Finalize
<1>2. ASSUME budget # Unlimited
      PROVE  /\ s[1] \in Nat /\ s[2] \in Nat
             /\ \A t \in Candidates(w, lim, budget) : s[1] * t[2] <= t[1] * s[2]
  <2>1. budget \in Watts
    BY <1>2
  <2>2. s \in Fractions /\ \A t \in Candidates(w, lim, budget) : Smaller(s, t)
    BY <2>1, ScaleIsLeast
  <2> HIDE DEF s
  <2> QED
    BY <2>2 DEF Smaller, Fractions
<1> HIDE DEF s
<1>3. ASSUME budget # Unlimited PROVE Total(w) * s[1] <= budget * s[2]
  <2>1. s[1] \in Nat /\ s[2] \in Nat /\ budget \in Nat
    BY <1>0, <1>2, <1>3
  <2>2. CASE Total(w) > 0
    <3>1. <<budget, Total(w)>> \in Candidates(w, lim, budget)
      BY <2>2 DEF Candidates
    <3>2. s[1] * Total(w) <= budget * s[2]
      BY <3>1, <1>2, <1>3
    <3> QED
      BY <3>2, <2>1, <1>0
  <2>3. CASE Total(w) = 0
    BY <2>1, <2>3
  <2> QED
    BY <2>2, <2>3, <1>0
<1>4. ASSUME budget # Unlimited, NEW o \in Outputs, lim[o] # Unlimited
      PROVE  w[o] * s[1] <= lim[o] * s[2]
  <2>1. s[1] \in Nat /\ s[2] \in Nat /\ w[o] \in Nat /\ lim[o] \in Nat
    BY <1>0, <1>2, <1>4
  <2>2. CASE w[o] > 0
    <3>1. <<lim[o], w[o]>> \in Candidates(w, lim, budget)
      BY <1>4, <2>2 DEF Candidates
    <3>2. s[1] * w[o] <= lim[o] * s[2]
      BY <3>1, <1>2, <1>4
    <3> QED
      BY <3>2, <2>1
  <2>3. CASE w[o] = 0
    BY <2>1, <2>3
  <2> QED
    BY <2>2, <2>3, <2>1
<1>5. Total(watts') = Total(w)
  BY <1>1
<1> QED
  BY <1>1, <1>3, <1>4 DEF PowerWithinLimits

\* Every request keeps the power within the limits.
LEMMA PowerSteps == PowerWithinLimits /\ [RenderRequest]_stageVars => PowerWithinLimits'
<1> SUFFICES ASSUME PowerWithinLimits, [RenderRequest]_stageVars PROVE PowerWithinLimits'
  OBVIOUS
<1>1. CASE UNCHANGED stageVars
  BY <1>1 DEF stageVars, PowerWithinLimits
<1>2. CASE Finalize([o \in Outputs |-> 0], [o \in Outputs |-> Unlimited], Unlimited)
  BY <1>2 DEF Finalize, PowerWithinLimits
<1> QED
  BY <1>1, <1>2, FinalizeLimits DEF RenderRequest

\* SceneIsShown: what an output shows is its present scene, for any duration of a
\* blend, any overlays in up to two layers, and any outputs, limits and budget.
THEOREM StageShowsTheScene == StageSpec => SceneIsShown
<1>1. StageInit => PowerWithinLimits
  BY DEF StageInit, PowerWithinLimits
<1>2. StageInv => OldSceneGoes
  BY DEF StageInv
<1> QED
  BY <1>1, <1>2, StageStarts, StageSteps, PowerSteps, EffectsStay, PTL
     DEF StageSpec, SceneIsShown, EffectsGoOn
==============================================================================
