-------------------------- MODULE PlaySession_proofs --------------------------
(***************************************************************************)
(* Proofs about PlaySession, for any waypoints, any length of the queue and *)
(* any number of acts: what a live runtime shows is the engine's, a preview *)
(* on screen answers the draft on screen and the world on screen, and one   *)
(* generation of a draft makes one change however often it is saved.        *)
(***************************************************************************)
EXTENDS PlaySession, SequenceTheorems, TLAPS

Revision == Nat \cup {None}
Waypoints == Contents \cup {None}
Shape == [ver : Nat, rev : Revision, paused : BOOLEAN]
Engine == [epoch : Nat, ver : Nat, rev : Revision, paused : BOOLEAN]
SaveToken == [instance : Nat, generation : Nat, expected : Revision]
Kinds == {"tick", "pause", "build", "deploy", "save", "reset", "load"}
Command == [kind : Kinds, token : SaveToken \cup {None}, content : Waypoints,
            expected : Revision, owns : Revision]
Answer == [ver : Nat, content : Waypoints, generation : Nat, rejected : BOOLEAN,
           changed : BOOLEAN]
Draft == [instance : Nat, generation : Nat, content : Waypoints, expected : Revision,
          pending : BOOLEAN, preview : Answer \cup {None}]
PreviewRequest ==
    [epoch : Nat, previewEpoch : Nat, instance : Nat, generation : Nat, content : Waypoints,
     expected : Revision, answer : Answer \cup {None}]
Coordinator == [epoch : Nat, latest : Revision]
Orphan == [command : Command, epoch : Nat, paused : BOOLEAN]

EngineType ==
    /\ engine \in Engine /\ view \in Shape /\ session \in Nat
    /\ orphans \subseteq Orphan
    /\ queue \in Seq(Command)
    /\ op.phase \in {"idle", "sent", "run"} /\ busy \in {None, "save", "load", "restored"}

\* The engine serves the live runtime; what its predecessors left behind has an older epoch.
EpochsInOrder ==
    /\ session = engine.epoch
    /\ \A o \in orphans : o.epoch < engine.epoch

\* A command under way is at the head of the queue, and a restore waits for an empty one.
QueueShape ==
    /\ op.phase # "idle" => queue # <<>>
    /\ busy = "restored" => queue = <<>>

EngineInv == EngineType /\ EpochsInOrder /\ QueueShape /\ RuntimeShowsTheEngine

DraftType ==
    /\ draft \in Draft \cup {None} /\ requests \subseteq PreviewRequest
    /\ coordinator \in Coordinator /\ nextInstance \in Nat /\ previewEpoch \in Nat

\* Two requests of one draft differ in their generation or ask for the same waypoints.
RequestOf(r) ==
    /\ r.previewEpoch <= previewEpoch
    /\ r.answer # None => r.answer.content = r.content /\ r.answer.generation = r.generation
    /\ r.previewEpoch = previewEpoch =>
          /\ r.instance < nextInstance
          /\ draft # None /\ r.instance = draft.instance =>
                /\ r.generation <= draft.generation
                /\ r.generation = draft.generation => r.content = draft.content
RequestsKnowTheirDraft ==
    /\ draft # None => draft.instance < nextInstance
    /\ \A r \in requests : RequestOf(r)

DraftInv == DraftType /\ RequestsKnowTheirDraft /\ PreviewAnswersTheDraft

IInv == EngineInv /\ DraftInv

-----------------------------------------------------------------------------
(* The engine.                                                              *)

\* The engine after one change, and after a pause, serves the same runtime.
LEMMA ChangesKeepEpoch ==
  ASSUME NEW e \in Engine, NEW revs \in SUBSET Revision, NEW x \in Changes(e, revs)
  PROVE  x \in Engine /\ x.epoch = e.epoch
<1>1. PICK v \in revs : x = [e EXCEPT !.ver = @ + 1, !.rev = v]
  BY DEF Changes
<1>2. \A n \in Nat : [e EXCEPT !.ver = n, !.rev = v] \in Engine
                     /\ [e EXCEPT !.ver = n, !.rev = v].epoch = e.epoch
  BY DEF Engine
<1>3. e.ver + 1 \in Nat
  BY DEF Engine
<1>4. QED
  BY <1>1, <1>2, <1>3

\* A command leaves the engine with the runtime it serves.
LEMMA AfterKeepsEpoch ==
  ASSUME NEW e \in Engine, NEW c \in Command, NEW paused \in BOOLEAN, NEW r \in After(e, c, paused)
  PROVE  r.engine \in Engine /\ r.engine.epoch = e.epoch
<1>3. \A x \in Engine, b \in BOOLEAN :
         [x EXCEPT !.paused = b] \in Engine /\ [x EXCEPT !.paused = b].epoch = x.epoch
  BY DEF Engine
<1>4. e.rev # None => e.rev \in Nat /\ e.rev + 1 \in Revision
  BY DEF Engine, Revision
<1>5. e.rev \in Revision /\ None \in Revision /\ 1 \in Revision
  BY DEF Engine, Revision
<1>6. c.kind \in Kinds /\ c.expected \in Revision
  BY DEF Command
<1>7. CASE c.kind = "tick"
  BY <1>7 DEF After, Reply
<1>8. CASE c.kind = "pause"
  <2>1. r.engine = [e EXCEPT !.paused = ~paused]
    BY <1>8 DEF After, Reply
  <2>2. QED
    BY <1>3, <2>1
<1>9. CASE c.kind = "build"
  <2> DEFINE revs == {e.rev, None} \cup {x + 1 : x \in {e.rev} \ {None}}
  <2>1. revs \in SUBSET Revision
    BY <1>4, <1>5
  <2>2. r.engine = e \/ r.engine \in Changes(e, revs)
    BY <1>9 DEF After, Reply
  <2>3. QED
    BY <2>1, <2>2, ChangesKeepEpoch
<1>10. CASE c.kind = "deploy" \/ (c.kind = "save" /\ c.expected = None)
  <2>1. r.engine = e \/ r.engine \in Changes(e, {e.rev})
    BY <1>10 DEF After, Reply
  <2>2. QED
    BY <1>5, <2>1, ChangesKeepEpoch
<1>12. CASE c.kind = "save" /\ c.expected # None
  <2>1. r.engine = e \/ (r.engine \in Changes(e, {e.rev, e.rev + 1}) /\ e.rev = c.expected)
    BY <1>12 DEF After, Reply
  <2>2. e.rev = c.expected => {e.rev, e.rev + 1} \in SUBSET Revision
    BY <1>4, <1>5, <1>12
  <2>3. QED
    BY <2>1, <2>2, ChangesKeepEpoch
<1>13. CASE c.kind = "reset" \/ c.kind = "load"
  <2> DEFINE revs == {None, 1}
  <2>1. r.engine = e \/ r.engine \in AtRest(Changes(e, {None})) \/ r.engine \in AtRest(Changes(e, revs))
    BY <1>13 DEF After, Reply
  <2>2. \A x \in Changes(e, {None}) \cup Changes(e, revs) : x \in Engine /\ x.epoch = e.epoch
    BY <1>5, ChangesKeepEpoch
  <2>3. QED
    BY <1>3, <2>1, <2>2 DEF AtRest
<1>15. QED
  BY <1>6, <1>7, <1>8, <1>9, <1>10, <1>12, <1>13 DEF Kinds

\* Only a command of the runtime the engine serves changes anything.
LEMMA RunChecksEpoch ==
  ASSUME engine \in Engine, NEW c \in Command, NEW paused \in BOOLEAN, NEW epoch \in Nat,
         NEW r \in Run(c, epoch, paused)
  PROVE  /\ r.engine \in Engine /\ r.engine.epoch = engine.epoch
         /\ epoch # engine.epoch => r.engine = engine
<1>1. CASE epoch # engine.epoch
  BY <1>1 DEF Run, Reply
<1>2. CASE epoch = engine.epoch
  BY <1>2, AfterKeepsEpoch DEF Run
<1>3. QED
  BY <1>1, <1>2

LEMMA ViewType ==
  ASSUME NEW e \in Engine
  PROVE  View(e) \in Shape
BY DEF View, Engine, Shape

\* The head of the queue is a command, and so is what comes behind it.
LEMMA HeadAndTail ==
  ASSUME queue \in Seq(Command), queue # <<>>
  PROVE  Head1 \in Command /\ Tail(queue) \in Seq(Command)
BY DEF Head1

LEMMA PlainType ==
  ASSUME NEW kind \in Kinds
  PROVE  Plain(kind) \in Command
BY DEF Plain, Command, Waypoints, Revision

\* The engine as the live runtime sees it, and the epoch it serves.
LEMMA NextEpoch ==
  ASSUME NEW e \in Engine
  PROVE  LET n == [e EXCEPT !.epoch = @ + 1]
         IN  n \in Engine /\ n.epoch = e.epoch + 1
<1>1. \A k \in Nat : [e EXCEPT !.epoch = k] \in Engine /\ [e EXCEPT !.epoch = k].epoch = k
  BY DEF Engine
<1>2. e.epoch + 1 \in Nat
  BY DEF Engine
<1>3. QED
  BY <1>1, <1>2

-----------------------------------------------------------------------------
(* What the steps do to the engine's part of the invariant.                 *)

engineSide == <<engine, orphans, session, view, queue, op, busy, dead>>

LEMMA EngineSideUnchanged ==
  ASSUME EngineInv, UNCHANGED engineSide
  PROVE  EngineInv'
BY DEF EngineInv, EngineType, EpochsInOrder, QueueShape, RuntimeShowsTheEngine, engineSide, View

\* A command is admitted behind the others.
LEMMA Admitted ==
  ASSUME EngineInv, NEW c \in Command, queue' = Append(queue, c), busy = None,
         UNCHANGED <<engine, orphans, session, view, op, busy, dead>>
  PROVE  EngineInv'
<1>1. queue \in Seq(Command) /\ queue' \in Seq(Command) /\ queue' # <<>>
  BY DEF EngineInv, EngineType
<1>2. EngineType' /\ EpochsInOrder'
  BY <1>1 DEF EngineInv, EngineType, EpochsInOrder
<1>3. QueueShape'
  BY <1>1, SessionAssumption DEF QueueShape
<1>4. RuntimeShowsTheEngine'
  BY DEF EngineInv, RuntimeShowsTheEngine, View
<1>5. QED
  BY <1>2, <1>3, <1>4 DEF EngineInv

\* The head has been answered, and what it did is on screen.
LEMMA AnsweredAndSettled ==
  ASSUME EngineInv, op.phase = "run", view' = View(engine), Settled,
         UNCHANGED <<engine, orphans, session, busy, dead>>
  PROVE  EngineInv'
<1>1. queue \in Seq(Command) /\ queue # <<>> /\ busy # "restored"
  BY DEF EngineInv, EngineType, QueueShape
<1>2. Tail(queue) \in Seq(Command) /\ op'.phase = "idle" /\ queue' = Tail(queue)
  BY <1>1, HeadAndTail DEF Settled, Idle
<1>3. View(engine) \in Shape
  BY ViewType DEF EngineInv, EngineType
<1>4. EngineType' /\ EpochsInOrder'
  BY <1>2, <1>3 DEF EngineInv, EngineType, EpochsInOrder
<1>5. QueueShape' /\ RuntimeShowsTheEngine'
  BY <1>1, <1>2 DEF QueueShape, RuntimeShowsTheEngine, View
<1>6. QED
  BY <1>4, <1>5 DEF EngineInv

LEMMA EngineUnderPlayer ==
  ASSUME EngineInv, DraftInv, Player
  PROVE  EngineInv'
<1> USE DEF Act
<1>1. CASE CreateDraft \/ OpenEdit \/ ReloadDraft \/ ChangeDraft \/ CancelDraft
  <2>1. UNCHANGED engineSide
    BY <1>1 DEF CreateDraft, OpenEdit, ReloadDraft, ChangeDraft, CancelDraft, Edits, Retired, Shown,
                engineSide, engineVars, queueVars
  <2>2. QED
    BY <2>1, EngineSideUnchanged
<1>2. CASE SaveDraft
  <2> DEFINE c == [kind |-> "save", token |-> Token(draft), content |-> draft.content,
                   expected |-> draft.expected, owns |-> None]
  <2>1. draft \in Draft
    BY <1>2 DEF SaveDraft, MayStartSave, CanSave, DraftInv, DraftType
  <2>2. c \in Command
    BY <2>1 DEF Draft, Command, Kinds, Token, SaveToken, Waypoints, Revision
  <2>3. QED
    BY <1>2, <2>2, Admitted DEF SaveDraft, engineVars
<1>3. CASE Dispatch
  <2>1. PICK kind \in {"build", "pause"} : queue' = Append(queue, Plain(kind))
    BY <1>3 DEF Dispatch
  <2>2. Plain(kind) \in Command
    BY PlainType DEF Kinds
  <2>3. QED
    BY <1>3, <2>1, <2>2, Admitted DEF Dispatch, engineVars
<1>4. CASE Reset
  <2>1. Plain("reset") \in Command
    BY PlainType DEF Kinds
  <2>2. QED
    BY <1>4, <2>1, Admitted DEF Reset, engineVars, Shown
<1>5. CASE StartExclusive
  <2>1. /\ busy = None /\ busy' \in {"save", "load"}
        /\ UNCHANGED <<engine, orphans, session, view, queue, op, dead>>
    BY <1>5 DEF StartExclusive, Shown, engineVars, queueVars
  <2>2. busy # "restored" /\ busy' # "restored"
    BY <2>1, SessionAssumption
  <2>3. QED
    BY <2>1, <2>2 DEF EngineInv, EngineType, EpochsInOrder, QueueShape, RuntimeShowsTheEngine, View
<1>6. CASE Reload
  <2>1. /\ engine' \in Engine /\ engine'.epoch = engine.epoch + 1 /\ session' = engine'.epoch
        /\ view' = View(engine)
    BY <1>6, NextEpoch DEF Reload, EngineInv, EngineType, Shown
  <2>2. engine.epoch \in Nat /\ engine'.epoch \in Nat
    BY <2>1 DEF EngineInv, EngineType, Engine
  <2>3. View(engine) \in Shape /\ View(engine) = View(engine)'
    BY <1>6, ViewType DEF Reload, EngineInv, EngineType, Engine, View
  <2>4. queue' = <<>> /\ op' = Idle /\ busy' = None
    BY <1>6 DEF Reload
  <2>5. \A left \in LeftBehind : \A o \in left : o \in Orphan /\ o.epoch = engine.epoch
    <3>1. op.phase = "sent" => Head1 \in Command
      BY HeadAndTail DEF EngineInv, EngineType, QueueShape
    <3>2. Plain("load") \in Command
      BY PlainType DEF Kinds
    <3>3. \A c \in Command : [command |-> c, epoch |-> session, paused |-> view.paused] \in Orphan
      BY DEF EngineInv, EngineType, EpochsInOrder, Orphan, Shape
    <3>4. \A left \in LeftBehind : \A o \in left : \E c \in Command :
              o = [command |-> c, epoch |-> session, paused |-> view.paused]
      BY <3>1, <3>2 DEF LeftBehind
    <3>5. QED
      BY <3>3, <3>4 DEF EngineInv, EpochsInOrder
  <2>6. orphans' \subseteq Orphan /\ \A o \in orphans' : o.epoch < engine'.epoch
    <3>1. \A o \in orphans : o \in Orphan /\ o.epoch \in Nat /\ o.epoch < engine.epoch
      BY DEF EngineInv, EngineType, EpochsInOrder, Orphan
    <3>2. PICK left \in LeftBehind : orphans' = orphans \cup left
      BY <1>6 DEF Reload
    <3>3. QED
      BY <2>1, <2>2, <2>5, <3>1, <3>2
  <2>7. EngineType' /\ EpochsInOrder'
    BY <2>1, <2>2, <2>3, <2>4, <2>6 DEF EngineType, EpochsInOrder, Idle
  <2>8. QueueShape' /\ RuntimeShowsTheEngine'
    BY <2>1, <2>3, <2>4 DEF QueueShape, RuntimeShowsTheEngine, Idle
  <2>9. QED
    BY <2>7, <2>8 DEF EngineInv
<1>7. QED
  BY <1>1, <1>2, <1>3, <1>4, <1>5, <1>6 DEF Player

LEMMA EngineUnderPreviews ==
  ASSUME EngineInv, Previews
  PROVE  EngineInv'
<1>1. UNCHANGED engineSide
  BY DEF Previews, EngineAnswersPreview, PreviewArrives, PreviewFails, Shown, engineSide,
         engineVars, queueVars
<1>2. QED
  BY <1>1, EngineSideUnchanged

LEMMA EngineUnderServing ==
  ASSUME EngineInv, DraftInv, Serving
  PROVE  EngineInv'
<1>1. CASE SendHead
  BY <1>1 DEF SendHead, EngineInv, EngineType, EpochsInOrder, QueueShape, RuntimeShowsTheEngine,
              View, engineVars
<1>2. CASE EngineRunsHead
  <2>1. op.phase = "sent" /\ queue # <<>> /\ Head1 \in Command /\ busy # "restored"
    BY <1>2, HeadAndTail DEF EngineRunsHead, EngineInv, EngineType, QueueShape
  <2>2. PICK r \in Run(Head1, session, view.paused) :
            engine' = r.engine /\ op' = [phase |-> "run", reply |-> r]
    BY <1>2 DEF EngineRunsHead
  <2>3. view.paused \in BOOLEAN /\ session \in Nat
    BY DEF EngineInv, EngineType, Shape
  <2>4. engine' \in Engine /\ engine'.epoch = engine.epoch
    BY <2>1, <2>2, <2>3, RunChecksEpoch DEF EngineInv, EngineType
  <2>5. UNCHANGED <<orphans, session, view, queue, busy, dead>>
    BY <1>2 DEF EngineRunsHead
  <2>6. QED
    BY <2>1, <2>2, <2>4, <2>5
       DEF EngineInv, EngineType, EpochsInOrder, QueueShape, RuntimeShowsTheEngine
<1>3. CASE AnswerNeutral
  BY <1>3, AnsweredAndSettled DEF AnswerNeutral, Answered, Shown, engineVars
<1>4. CASE AnswerDispatch
  BY <1>4, AnsweredAndSettled DEF AnswerDispatch, Answered, Folded, Shown, engineVars
<1>5. CASE AnswerReset
  BY <1>5, AnsweredAndSettled DEF AnswerReset, Answered, Shown, engineVars
<1>6. CASE AnswerSaveApplied
  <2>1. /\ op.phase = "run" /\ view' = View(engine)
        /\ UNCHANGED <<engine, orphans, session, busy, dead>>
    BY <1>6 DEF AnswerSaveApplied, Answered, Folded, Shown, engineVars
  <2>2. CASE Settled
    BY <2>1, <2>2, AnsweredAndSettled
  <2>3. CASE ~Settled
    <3>1. PICK owns \in Revision :
              /\ queue' = <<[Head1 EXCEPT !.kind = "deploy", !.owns = owns]>> \o Tail(queue)
              /\ op' = [phase |-> "sent", reply |-> None]
      BY <1>6, <2>3 DEF AnswerSaveApplied, SettledOrDeploys, DraftInv, DraftType, Revision
    <3>2. queue \in Seq(Command) /\ queue # <<>> /\ busy # "restored"
      BY <2>1 DEF EngineInv, EngineType, QueueShape
    <3>3. Head1 \in Command /\ Tail(queue) \in Seq(Command)
      BY <3>2, HeadAndTail
    <3>4. [Head1 EXCEPT !.kind = "deploy", !.owns = owns] \in Command
      BY <3>3 DEF Command, Kinds
    <3>5. queue' \in Seq(Command) /\ queue' # <<>>
      BY <3>1, <3>3, <3>4
    <3>6. View(engine) \in Shape
      BY ViewType DEF EngineInv, EngineType
    <3>7. EngineType' /\ EpochsInOrder'
      BY <2>1, <3>1, <3>5, <3>6 DEF EngineInv, EngineType, EpochsInOrder
    <3>8. QueueShape' /\ RuntimeShowsTheEngine'
      BY <2>1, <3>1, <3>2, <3>5 DEF QueueShape, RuntimeShowsTheEngine, View
    <3>9. QED
      BY <3>7, <3>8 DEF EngineInv
  <2>4. QED
    BY <2>2, <2>3
<1>7. CASE AnswerSaveRefused
  BY <1>7, AnsweredAndSettled DEF AnswerSaveRefused, Answered, Folded, Shown, engineVars
<1>8. CASE HeadFails
  <2>1. /\ op.phase = "sent" /\ (dead' = TRUE \/ dead' = dead)
        /\ queue' = Tail(queue) /\ op' = Idle
        /\ UNCHANGED <<engine, orphans, session, view, busy>>
    BY <1>8 DEF HeadFails, Settled, engineVars
  <2>2. Tail(queue) \in Seq(Command) /\ busy # "restored"
    BY <2>1, HeadAndTail DEF EngineInv, EngineType, QueueShape
  <2>3. EngineType' /\ EpochsInOrder'
    BY <2>1, <2>2 DEF EngineInv, EngineType, EpochsInOrder, Idle
  <2>4. QueueShape' /\ RuntimeShowsTheEngine'
    BY <2>1, <2>2 DEF EngineInv, QueueShape, RuntimeShowsTheEngine, View, Idle
  <2>5. QED
    BY <2>3, <2>4 DEF EngineInv
<1>9. CASE DeadSettles
  <2>1. /\ dead /\ queue # <<>> /\ queue' = Tail(queue) /\ op' = Idle
        /\ UNCHANGED <<engine, orphans, session, view, busy, dead>>
    BY <1>9 DEF DeadSettles, Settled, engineVars
  <2>2. Tail(queue) \in Seq(Command) /\ busy # "restored"
    BY <2>1, HeadAndTail DEF EngineInv, EngineType, QueueShape
  <2>3. EngineType' /\ EpochsInOrder'
    BY <2>1, <2>2 DEF EngineInv, EngineType, EpochsInOrder, Idle
  <2>4. QueueShape' /\ RuntimeShowsTheEngine'
    BY <2>1, <2>2 DEF QueueShape, RuntimeShowsTheEngine, Idle
  <2>5. QED
    BY <2>3, <2>4 DEF EngineInv
<1>10. CASE EndExclusive
  <2>1. /\ busy \in {"save", "load"} /\ busy' = None
        /\ UNCHANGED <<engine, orphans, session, view, queue, op, dead>>
    BY <1>10 DEF EndExclusive, Shown, engineVars, queueVars
  <2>2. QED
    BY <2>1, SessionAssumption
       DEF EngineInv, EngineType, EpochsInOrder, QueueShape, RuntimeShowsTheEngine, View
<1>11. CASE EngineRestores
  <2>1. PICK r \in Run(Plain("load"), session, view.paused) : engine' = r.engine
    BY <1>11 DEF EngineRestores
  <2>2. view.paused \in BOOLEAN /\ session \in Nat /\ Plain("load") \in Command
    BY PlainType DEF EngineInv, EngineType, Shape, Kinds
  <2>3. engine' \in Engine /\ engine'.epoch = engine.epoch
    BY <2>1, <2>2, RunChecksEpoch DEF EngineInv, EngineType
  <2>4. /\ queue = <<>> /\ busy' = "restored"
        /\ UNCHANGED <<orphans, session, view, queue, op, dead>>
    BY <1>11 DEF EngineRestores, queueVars
  <2>5. QED
    BY <2>3, <2>4 DEF EngineInv, EngineType, EpochsInOrder, QueueShape, RuntimeShowsTheEngine
<1>12. CASE InstallRestored
  <2>1. /\ busy' = None /\ view' = View(engine)
        /\ UNCHANGED <<engine, orphans, session, queue, op, dead>>
    BY <1>12 DEF InstallRestored, Shown, engineVars
  <2>2. View(engine) \in Shape /\ View(engine)' = View(engine)
    BY <2>1, ViewType DEF EngineInv, EngineType, View
  <2>3. QED
    BY <2>1, <2>2, SessionAssumption
       DEF EngineInv, EngineType, EpochsInOrder, QueueShape, RuntimeShowsTheEngine
<1>13. QED
  BY <1>1, <1>2, <1>3, <1>4, <1>5, <1>6, <1>7, <1>8, <1>9, <1>10, <1>11, <1>12 DEF Serving

\* A step of the clock, or of a command left behind by a superseded runtime.
LEMMA EngineUnderClockAndOrphans ==
  ASSUME EngineInv, AdmitTick \/ EngineRunsOrphan
  PROVE  EngineInv'
<1>1. CASE AdmitTick
  <2>1. Plain("tick") \in Command
    BY PlainType DEF Kinds
  <2>2. QED
    BY <1>1, <2>1, Admitted DEF AdmitTick, engineVars
<1>2. CASE EngineRunsOrphan
  <2>1. PICK o \in orphans : /\ \E r \in Run(o.command, o.epoch, o.paused) : engine' = r.engine
                             /\ orphans' = orphans \ {o}
    BY <1>2 DEF EngineRunsOrphan
  <2>2. /\ o.command \in Command /\ o.epoch \in Nat /\ o.paused \in BOOLEAN
        /\ o.epoch < engine.epoch
    BY DEF EngineInv, EngineType, EpochsInOrder, Orphan
  <2>3. engine' = engine
    BY <2>1, <2>2, RunChecksEpoch DEF EngineInv, EngineType, Engine
  <2>4. UNCHANGED <<session, view, queue, op, busy, dead>>
    BY <1>2 DEF EngineRunsOrphan, queueVars
  <2>5. QED
    BY <2>1, <2>3, <2>4
       DEF EngineInv, EngineType, EpochsInOrder, QueueShape, RuntimeShowsTheEngine, View
<1>3. QED
  BY <1>1, <1>2

-----------------------------------------------------------------------------
(* What the steps do to the draft's part of the invariant.                  *)

\* d is no draft, or the one on screen with a preview that answers it, or with none.
SameDraft(d) ==
    \/ d = None
    \/ /\ draft # None /\ d \in Draft
       /\ d.instance = draft.instance /\ d.generation = draft.generation /\ d.content = draft.content
       /\ d.preview # None => d.preview.content = d.content /\ d.preview.generation = d.generation

\* A request no newer than the one for d, of another draft or for the same waypoints.
LEMMA DraftKept ==
  ASSUME DraftInv, SameDraft(draft'), coordinator' \in Coordinator, requests' \subseteq requests,
         UNCHANGED <<nextInstance, previewEpoch>>
  PROVE  DraftInv'
<1>1. DraftType'
  BY DEF DraftInv, DraftType, SameDraft
<1>2. ASSUME NEW r \in requests'
      PROVE  RequestOf(r)'
  <2>1. RequestOf(r)
    BY <1>2 DEF DraftInv, RequestsKnowTheirDraft
  <2>2. QED
    BY <2>1 DEF RequestOf, SameDraft
<1>3. RequestsKnowTheirDraft'
  BY <1>2 DEF DraftInv, RequestsKnowTheirDraft, SameDraft
<1>4. PreviewAnswersTheDraft'
  BY DEF SameDraft, PreviewAnswersTheDraft
<1>5. QED
  BY <1>1, <1>3, <1>4 DEF DraftInv

\* A request for d, a draft of a new instance or of a new generation of the one on screen.
LEMMA DraftRequested ==
  ASSUME DraftInv, NEW d \in Draft, d.preview = None, draft' = d, NEW c \in Coordinator,
         Request(d, c), previewEpoch' = previewEpoch,
         \/ d.instance = nextInstance /\ nextInstance' = nextInstance + 1
         \/ /\ draft # None /\ nextInstance' = nextInstance
            /\ d.instance = draft.instance /\ d.generation = draft.generation + 1
  PROVE  DraftInv'
<1> DEFINE new == [epoch |-> c.epoch, previewEpoch |-> previewEpoch, instance |-> d.instance,
                   generation |-> d.generation, content |-> d.content, expected |-> d.expected,
                   answer |-> None]
<1>1. /\ nextInstance \in Nat /\ previewEpoch \in Nat /\ nextInstance' \in Nat
      /\ draft # None => draft.instance \in Nat /\ draft.generation \in Nat
                         /\ draft.instance < nextInstance
  BY DEF DraftInv, DraftType, Draft, RequestsKnowTheirDraft
<1>2. d.instance \in Nat /\ d.generation \in Nat /\ d.content \in Waypoints /\ d.expected \in Revision
  BY DEF Draft
<1>3. c.epoch \in Nat
  BY DEF Coordinator
<1>4. new \in PreviewRequest
  BY <1>1, <1>2, <1>3 DEF PreviewRequest
<1>5. requests' = requests \cup {new}
  BY DEF Request
<1>6. coordinator' \in Coordinator
  BY <1>2 DEF Request, Coordinator, Revision
<1>7. DraftType'
  BY <1>1, <1>4, <1>5, <1>6 DEF DraftInv, DraftType
<1>8. d.instance < nextInstance'
  BY <1>1
<1>9. RequestOf(new)'
  BY <1>1, <1>2, <1>8 DEF RequestOf
<1>10. ASSUME NEW r \in requests
       PROVE  RequestOf(r)'
  <2>1. RequestOf(r) /\ r.instance \in Nat /\ r.generation \in Nat
    BY DEF DraftInv, DraftType, PreviewRequest, RequestsKnowTheirDraft
  <2>2. QED
    BY <1>1, <1>2, <2>1 DEF RequestOf
<1>11. RequestsKnowTheirDraft'
  BY <1>5, <1>8, <1>9, <1>10 DEF RequestsKnowTheirDraft
<1>12. PreviewAnswersTheDraft'
  BY DEF PreviewAnswersTheDraft
<1>13. QED
  BY <1>7, <1>11, <1>12 DEF DraftInv

LEMMA InvalidatedType ==
  ASSUME NEW c \in Coordinator
  PROVE  Invalidated(c) \in Coordinator
BY DEF Invalidated, Coordinator, Revision

\* An answer of the queue leaves the draft, closes it, or asks for a preview of it again.
LEMMA DraftFolded ==
  ASSUME DraftInv, NEW d, SameDraft(d), NEW c \in Coordinator, Folded(d, c),
         UNCHANGED <<nextInstance, previewEpoch>>
  PROVE  DraftInv'
<1>1. CASE op.reply.applied /\ d # None /\ busy = None
  <2>1. d \in Draft /\ draft # None /\ d.instance = draft.instance /\ d.generation = draft.generation
    BY <1>1 DEF SameDraft
  <2>2. d.generation + 1 \in Nat
    BY <2>1 DEF Draft
  <2>3. \A n \in Nat :
           LET x == [d EXCEPT !.generation = n, !.pending = TRUE, !.preview = None]
           IN  x \in Draft /\ x.preview = None /\ x.instance = d.instance /\ x.generation = n
    BY <2>1 DEF Draft
  <2>4. /\ Refreshed(d) \in Draft /\ Refreshed(d).preview = None
        /\ Refreshed(d).instance = draft.instance
        /\ Refreshed(d).generation = draft.generation + 1
    BY <2>1, <2>2, <2>3 DEF Refreshed
  <2>5. draft' = Refreshed(d) /\ Request(Refreshed(d), Invalidated(c))
    BY <1>1 DEF Folded
  <2>6. QED
    BY <2>1, <2>4, <2>5, InvalidatedType, DraftRequested
<1>2. CASE ~(op.reply.applied /\ d # None /\ busy = None)
  BY <1>2, DraftKept DEF Folded
<1>3. QED
  BY <1>1, <1>2

LEMMA DraftStays ==
  ASSUME DraftInv
  PROVE  SameDraft(draft) /\ SameDraft(None) /\ coordinator \in Coordinator
BY DEF DraftInv, DraftType, PreviewAnswersTheDraft, SameDraft

LEMMA DraftUnderPreviews ==
  ASSUME EngineInv, DraftInv, Previews
  PROVE  DraftInv'
<1>1. CASE EngineAnswersPreview
  <2>1. PICK r \in requests : /\ r.answer = None
                              /\ requests' = (requests \ {r}) \cup {[r EXCEPT !.answer = Preview(r)]}
    BY <1>1 DEF EngineAnswersPreview
  <2>ans. PICK answered : answered = [r EXCEPT !.answer = Preview(r)]
    OBVIOUS
  <2>2. r \in PreviewRequest
    BY DEF DraftInv, DraftType
  <2>3. /\ Preview(r) \in Answer /\ Preview(r).content = r.content
        /\ Preview(r).generation = r.generation
    BY <2>2 DEF Preview, Answer, PreviewRequest, EngineInv, EngineType, Engine
  <2>4. /\ answered \in PreviewRequest
        /\ answered.previewEpoch = r.previewEpoch /\ answered.instance = r.instance
        /\ answered.generation = r.generation /\ answered.content = r.content
        /\ answered.answer = Preview(r)
    BY <2>2, <2>3, <2>ans DEF PreviewRequest
  <2>5. UNCHANGED <<draft, nextInstance, coordinator, previewEpoch>>
    BY <1>1 DEF EngineAnswersPreview
  <2>6. DraftType' /\ PreviewAnswersTheDraft'
    BY <2>1, <2>ans, <2>4, <2>5 DEF DraftInv, DraftType, PreviewAnswersTheDraft
  <2>7. ASSUME NEW x \in requests
        PROVE  RequestOf(x) /\ RequestOf(x)'
    BY <2>5 DEF DraftInv, RequestsKnowTheirDraft, RequestOf
  <2>8. RequestOf(answered)'
    BY <2>3, <2>4, <2>5, <2>7 DEF RequestOf
  <2>9. RequestsKnowTheirDraft'
    BY <2>1, <2>ans, <2>5, <2>7, <2>8 DEF DraftInv, RequestsKnowTheirDraft
  <2>10. QED
    BY <2>6, <2>9 DEF DraftInv
<1>2. CASE PreviewArrives
  <2>1. PICK r \in requests :
            /\ r.answer # None /\ requests' = requests \ {r}
            /\ draft' = draft \/ (Matches(r) /\ draft' = SettledDraft(draft, r))
    BY <1>2 DEF PreviewArrives
  <2>2. UNCHANGED <<nextInstance, coordinator, previewEpoch>>
    BY <1>2 DEF PreviewArrives
  <2>3. SameDraft(draft')
    <3>1. CASE draft' = draft
      BY <3>1, DraftStays
    <3>2. CASE Matches(r) /\ draft' = SettledDraft(draft, r)
      <4>1. /\ draft # None /\ draft \in Draft /\ r.answer \in Answer
            /\ r.answer.content = draft.content /\ r.answer.generation = draft.generation
        BY <2>1, <3>2 DEF Matches, DraftInv, DraftType, PreviewRequest, RequestsKnowTheirDraft, RequestOf
      <4>2. /\ draft.preview \in Answer \cup {None}
            /\ draft.preview # None => draft.preview.content = draft.content
                                       /\ draft.preview.generation = draft.generation
        BY <4>1 DEF DraftInv, PreviewAnswersTheDraft, Draft
      <4>3. PICK shown \in {r.answer, draft.preview} :
                draft' = [draft EXCEPT !.pending = FALSE, !.preview = shown]
        BY <3>2 DEF SettledDraft
      <4>4. /\ draft' \in Draft /\ draft'.preview = shown /\ draft'.instance = draft.instance
            /\ draft'.generation = draft.generation /\ draft'.content = draft.content
        BY <4>1, <4>2, <4>3 DEF Draft
      <4>5. QED
        BY <4>1, <4>2, <4>4 DEF SameDraft
    <3>3. QED
      BY <2>1, <3>1, <3>2
  <2>4. QED
    BY <2>1, <2>2, <2>3, DraftStays, DraftKept
<1>3. CASE PreviewFails
  <2>1. /\ requests' \subseteq requests
        /\ draft' = draft \/ (draft # None /\ draft' = [draft EXCEPT !.pending = FALSE])
        /\ UNCHANGED <<nextInstance, coordinator, previewEpoch>>
    BY <1>3 DEF PreviewFails, Matches
  <2>2. SameDraft(draft')
    BY <2>1 DEF SameDraft, DraftInv, DraftType, Draft, PreviewAnswersTheDraft
  <2>3. QED
    BY <2>1, <2>2, DraftStays, DraftKept
<1>4. QED
  BY <1>1, <1>2, <1>3 DEF Previews

LEMMA NewDraftType ==
  ASSUME DraftInv, NEW content \in Waypoints, NEW expected \in Revision, NEW pending \in BOOLEAN
  PROVE  /\ NewDraft(content, expected, pending) \in Draft
         /\ NewDraft(content, expected, pending).preview = None
         /\ NewDraft(content, expected, pending).instance = nextInstance
BY DEF NewDraft, Draft, DraftInv, DraftType

LEMMA EditsKeepDraftInv ==
  ASSUME EngineInv, DraftInv, NEW content \in Contents, Edits(content)
  PROVE  DraftInv'
<1>1. view.rev \in Revision /\ content \in Waypoints
  BY DEF EngineInv, EngineType, Shape, Waypoints
<1>2. PICK d \in Draft : /\ d = NewDraft(content, view.rev, TRUE)
                         /\ d.preview = None /\ d.instance = nextInstance
  BY <1>1, NewDraftType
<1>3. draft' = d /\ nextInstance' = nextInstance + 1 /\ previewEpoch' = previewEpoch
  BY <1>2 DEF Edits
<1>4. Request(d, coordinator)
  <2>1. Request(draft', coordinator)
    BY DEF Edits
  <2>2. QED
    BY <1>3, <2>1 DEF Request
<1>5. QED
  BY <1>2, <1>3, <1>4, DraftStays, DraftRequested

\* A draft whose line is gone stays as it is, but for what its preview says of the change.
LEMMA RetiredDraft ==
  ASSUME DraftInv, draft # None, Retired
  PROVE  /\ draft' \in Draft /\ draft'.instance = draft.instance
         /\ draft'.generation = draft.generation /\ draft'.content = draft.content
         /\ draft'.expected = draft.expected
         /\ draft'.preview # None => /\ draft.preview # None
                                    /\ draft'.preview.content = draft.preview.content
                                    /\ draft'.preview.generation = draft.preview.generation
                                    /\ draft'.preview.ver = draft.preview.ver
<1> DEFINE quiet == IF draft.preview = None THEN None ELSE [draft.preview EXCEPT !.changed = FALSE]
<1>1. draft \in Draft /\ draft.preview \in Answer \cup {None}
  BY DEF DraftInv, DraftType, Draft
<1>2. /\ quiet \in Answer \cup {None}
      /\ quiet # None => /\ draft.preview # None
                         /\ quiet.content = draft.preview.content
                         /\ quiet.generation = draft.preview.generation
                         /\ quiet.ver = draft.preview.ver
  BY <1>1 DEF Answer
<1>3. draft' = [draft EXCEPT !.preview = quiet]
  BY <1>1 DEF Retired, Draft
<1> HIDE DEF quiet
<1>4. draft'.preview = quiet
  BY <1>1, <1>3 DEF Draft
<1>5. QED
  BY <1>1, <1>2, <1>3, <1>4 DEF Draft

LEMMA DraftUnderPlayer ==
  ASSUME EngineInv, DraftInv, Player
  PROVE  DraftInv'
<1>1. CASE CreateDraft
  <2>1. None \in Waypoints /\ None \in Revision /\ FALSE \in BOOLEAN
    BY DEF Waypoints, Revision
  <2>2. PICK d \in Draft : /\ d = NewDraft(None, None, FALSE)
                           /\ d.preview = None /\ d.instance = nextInstance
    BY <2>1, NewDraftType
  <2>inst. d.instance = nextInstance
    BY <2>2
  <2>3. /\ draft' = d /\ nextInstance' = nextInstance + 1
        /\ coordinator' = Invalidated(coordinator)
        /\ requests' = requests /\ previewEpoch' = previewEpoch
    BY <1>1, <2>2 DEF CreateDraft
  <2>4. nextInstance \in Nat /\ nextInstance' \in Nat /\ coordinator' \in Coordinator
    BY <2>3, InvalidatedType DEF DraftInv, DraftType
  <2>5. DraftType'
    BY <2>3, <2>4 DEF DraftInv, DraftType
  <2>6. PreviewAnswersTheDraft'
    BY <2>2, <2>3 DEF PreviewAnswersTheDraft
  <2>7. nextInstance' = nextInstance + 1 /\ nextInstance < nextInstance'
    BY <2>3, <2>4
  <2>8. ASSUME NEW r \in requests
        PROVE  RequestOf(r)'
    <3>1. RequestOf(r) /\ r.instance \in Nat
      BY DEF DraftInv, DraftType, PreviewRequest, RequestsKnowTheirDraft
    <3>2. r.previewEpoch = previewEpoch => r.instance < nextInstance
      BY <3>1 DEF RequestOf
    <3>3. r.instance < nextInstance => r.instance < nextInstance' /\ r.instance # nextInstance
      BY <2>4, <2>7, <3>1
    <3>4. QED
      BY <2>3, <2>inst, <3>1, <3>2, <3>3 DEF RequestOf
  <2>9. draft' # None => draft'.instance < nextInstance'
    BY <2>3, <2>inst, <2>7
  <2>10. RequestsKnowTheirDraft'
    BY <2>3, <2>8, <2>9 DEF RequestsKnowTheirDraft
  <2>11. QED
    BY <2>5, <2>6, <2>10 DEF DraftInv
<1>2. CASE OpenEdit \/ ReloadDraft
  <2>1. CASE ReloadDraft /\ Retired
    <3>1. SameDraft(draft')
      BY <2>1, RetiredDraft DEF ReloadDraft, SameDraft, DraftInv, PreviewAnswersTheDraft
    <3>2. UNCHANGED <<coordinator, requests, nextInstance, previewEpoch>>
      BY <2>1 DEF Retired
    <3>3. QED
      BY <3>1, <3>2, DraftStays, DraftKept
  <2>2. QED
    BY <1>2, <2>1, EditsKeepDraftInv DEF OpenEdit, ReloadDraft
<1>3. CASE ChangeDraft
  <2>1. PICK content \in Contents : /\ draft' = Changed(draft, content)
                                    /\ Request(Changed(draft, content), coordinator)
    BY <1>3 DEF ChangeDraft
  <2>2. draft # None /\ draft \in Draft /\ UNCHANGED <<nextInstance, previewEpoch>>
    BY <1>3 DEF ChangeDraft, DraftInv, DraftType
  <2>3. draft.generation + 1 \in Nat /\ content \in Waypoints
    BY <2>2 DEF Draft, Waypoints
  <2>4. \A n \in Nat :
           LET x == [draft EXCEPT !.content = content, !.generation = n, !.pending = TRUE,
                                  !.preview = None]
           IN  x \in Draft /\ x.preview = None /\ x.instance = draft.instance /\ x.generation = n
    BY <2>2, <2>3 DEF Draft
  <2>5. PICK d \in Draft : /\ d = Changed(draft, content) /\ d.preview = None
                           /\ d.instance = draft.instance /\ d.generation = draft.generation + 1
    BY <2>3, <2>4 DEF Changed
  <2>6. QED
    BY <2>1, <2>2, <2>5, DraftStays, DraftRequested
<1>4. CASE CancelDraft
  <2>1. draft' = None /\ coordinator' = Invalidated(coordinator)
        /\ UNCHANGED <<requests, nextInstance, previewEpoch>>
    BY <1>4 DEF CancelDraft
  <2>2. QED
    BY <2>1, DraftStays, InvalidatedType, DraftKept
<1>5. CASE SaveDraft \/ Dispatch \/ StartExclusive
  <2>1. UNCHANGED <<draft, coordinator, requests, nextInstance, previewEpoch>>
    BY <1>5 DEF SaveDraft, Dispatch, StartExclusive, draftVars
  <2>2. QED
    BY <2>1, DraftStays, DraftKept
<1>6. CASE Reset
  <2>1. coordinator' = Invalidated(coordinator)
        /\ UNCHANGED <<draft, requests, nextInstance, previewEpoch>>
    BY <1>6 DEF Reset
  <2>2. QED
    BY <2>1, DraftStays, InvalidatedType, DraftKept
<1>7. CASE Reload
  <2>1. /\ draft' = None /\ nextInstance' = 1 /\ previewEpoch' = 0 /\ requests' = {}
        /\ coordinator' = [epoch |-> 0, latest |-> None]
    BY <1>7 DEF Reload
  <2>2. QED
    BY <2>1 DEF DraftInv, DraftType, RequestsKnowTheirDraft, PreviewAnswersTheDraft, Coordinator,
                Revision
<1>8. QED
  BY <1>1, <1>2, <1>3, <1>4, <1>5, <1>6, <1>7 DEF Player

LEMMA DraftUnderServing ==
  ASSUME EngineInv, DraftInv, Serving
  PROVE  DraftInv'
<1>1. CASE SendHead \/ EngineRunsHead \/ AnswerNeutral \/ DeadSettles \/ EndExclusive \/ EngineRestores
  <2>1. UNCHANGED <<draft, coordinator, requests, nextInstance, previewEpoch>>
    BY <1>1 DEF SendHead, EngineRunsHead, AnswerNeutral, DeadSettles, EndExclusive, EngineRestores,
                draftVars
  <2>2. QED
    BY <2>1, DraftStays, DraftKept
<1>2. CASE AnswerDispatch \/ AnswerSaveRefused
  <2>1. Folded(draft, coordinator) /\ UNCHANGED <<nextInstance, previewEpoch>>
    BY <1>2 DEF AnswerDispatch, AnswerSaveRefused
  <2>2. QED
    BY <2>1, DraftStays, DraftFolded
<1>3. CASE AnswerReset
  <2>1. (draft' = None \/ draft' = draft)
        /\ UNCHANGED <<coordinator, requests, nextInstance, previewEpoch>>
    BY <1>3 DEF AnswerReset
  <2>2. QED
    BY <2>1, DraftStays, DraftKept
<1>4. CASE AnswerSaveApplied
  <2>1. PICK d \in {None, [draft EXCEPT !.preview = None, !.pending = FALSE]} :
            /\ Folded(d, Invalidated(coordinator)) /\ (draft = None => d = None)
    BY <1>4 DEF AnswerSaveApplied
  <2>2. SameDraft(d)
    BY <2>1 DEF SameDraft, DraftInv, DraftType, Draft
  <2>3. UNCHANGED <<nextInstance, previewEpoch>>
    BY <1>4 DEF AnswerSaveApplied
  <2>4. QED
    BY <2>1, <2>2, <2>3, DraftStays, InvalidatedType, DraftFolded
<1>5. CASE HeadFails
  <2>1. /\ draft' \in {None, draft, [draft EXCEPT !.pending = FALSE]}
        /\ draft = None => draft' = None
        /\ coordinator' \in {coordinator, Invalidated(coordinator)}
        /\ UNCHANGED <<requests, nextInstance, previewEpoch>>
    BY <1>5 DEF HeadFails
  <2>2. SameDraft(draft')
    BY <2>1 DEF SameDraft, DraftInv, DraftType, Draft, PreviewAnswersTheDraft
  <2>3. QED
    BY <2>1, <2>2, DraftStays, InvalidatedType, DraftKept
<1>6. CASE InstallRestored
  <2>1. /\ draft' = None /\ nextInstance' = 1 /\ previewEpoch' = previewEpoch + 1
        /\ coordinator' = Invalidated(coordinator) /\ requests' = requests
    BY <1>6 DEF InstallRestored
  <2>2. DraftType'
    BY <2>1, DraftStays, InvalidatedType DEF DraftInv, DraftType
  <2>3. ASSUME NEW r \in requests
        PROVE  RequestOf(r)'
    <3>1. RequestOf(r) /\ r.previewEpoch \in Nat /\ previewEpoch \in Nat
      BY DEF DraftInv, DraftType, PreviewRequest, RequestsKnowTheirDraft
    <3>2. QED
      BY <2>1, <3>1 DEF RequestOf
  <2>4. RequestsKnowTheirDraft' /\ PreviewAnswersTheDraft'
    BY <2>1, <2>3 DEF RequestsKnowTheirDraft, PreviewAnswersTheDraft
  <2>5. QED
    BY <2>2, <2>4 DEF DraftInv
<1>7. QED
  BY <1>1, <1>2, <1>3, <1>4, <1>5, <1>6 DEF Serving

LEMMA DraftUnderClockAndOrphans ==
  ASSUME DraftInv, AdmitTick \/ EngineRunsOrphan
  PROVE  DraftInv'
<1>1. UNCHANGED <<draft, coordinator, requests, nextInstance, previewEpoch>>
  BY DEF AdmitTick, EngineRunsOrphan, draftVars
<1>2. QED
  BY <1>1, DraftStays, DraftKept

-----------------------------------------------------------------------------
(* The invariant.                                                           *)

LEMMA InitIInv ==
  ASSUME Init
  PROVE  IInv
<1>1. engine \in Engine /\ engine.epoch = 1 /\ queue = <<>> /\ op.phase = "idle" /\ busy = None
  BY DEF Init, Engine, Revision, Idle
<1>2. view \in Shape
  BY <1>1, ViewType DEF Init
<1>3. EngineInv
  BY <1>1, <1>2 DEF Init, EngineInv, EngineType, EpochsInOrder, QueueShape, RuntimeShowsTheEngine
<1>4. DraftInv
  BY DEF Init, DraftInv, DraftType, RequestsKnowTheirDraft, PreviewAnswersTheDraft, Coordinator, Revision
<1>5. QED
  BY <1>3, <1>4 DEF IInv

LEMMA NextIInv ==
  ASSUME IInv, [Next]_vars
  PROVE  IInv'
<1>1. CASE Player
  BY <1>1, EngineUnderPlayer, DraftUnderPlayer DEF IInv
<1>2. CASE Previews
  BY <1>2, EngineUnderPreviews, DraftUnderPreviews DEF IInv
<1>3. CASE Serving
  BY <1>3, EngineUnderServing, DraftUnderServing DEF IInv
<1>4. CASE AdmitTick \/ EngineRunsOrphan
  BY <1>4, EngineUnderClockAndOrphans, DraftUnderClockAndOrphans DEF IInv
<1>5. CASE UNCHANGED vars
  <2>1. UNCHANGED engineSide /\ UNCHANGED <<draft, coordinator, requests, nextInstance, previewEpoch>>
    BY <1>5 DEF vars, engineVars, draftVars, queueVars, engineSide
  <2>2. QED
    BY <2>1, EngineSideUnchanged, DraftStays, DraftKept DEF IInv
<1>6. QED
  BY <1>1, <1>2, <1>3, <1>4, <1>5 DEF Next

THEOREM IInvHolds == Spec => []IInv
<1>1. Init => IInv
  BY InitIInv
<1>2. IInv /\ [Next]_vars => IInv'
  BY NextIInv
<1>3. QED
  BY <1>1, <1>2, PTL DEF Spec

\* Whatever a reload left behind, and whenever the engine gets to it, a live
\* runtime with no command of its own under way shows what the engine holds.
THEOREM LiveRuntimeShowsTheEngine == Spec => []RuntimeShowsTheEngine
<1>1. IInv => RuntimeShowsTheEngine
  BY DEF IInv, EngineInv
<1>2. QED
  BY <1>1, IInvHolds, PTL

\* No answer is ever shown on waypoints it was not computed for, in whatever
\* order previews, edits, loads and reloads come.
THEOREM PreviewIsOfTheDraft == Spec => []PreviewAnswersTheDraft
<1>1. IInv => PreviewAnswersTheDraft
  BY DEF IInv, DraftInv
<1>2. QED
  BY <1>1, IInvHolds, PTL

-----------------------------------------------------------------------------
(* Saves: what the queue, the tokens and the drafts know of one another.    *)

RouteSaves == {"save", "deploy"}

\* A token under way is of this draft as it is or was, or of an earlier one.
KnownToken(t) ==
    /\ t \in SaveToken /\ t \in tokens /\ t.instance < nextInstance
    /\ draft # None /\ t.instance = draft.instance =>
          t.generation <= draft.generation /\ t.expected = draft.expected

\* Each operation of a save holds a token of its own; the others hold none.
QueuedSaves ==
    /\ \A k \in 1..Len(queue) :
          IF queue[k].kind \in RouteSaves THEN KnownToken(queue[k].token) ELSE queue[k].token = None
    /\ \A k, l \in 1..Len(queue) :
          k # l /\ queue[k].kind \in RouteSaves /\ queue[l].kind \in RouteSaves =>
             \/ queue[k].token.instance # queue[l].token.instance
             \/ queue[k].token.generation # queue[l].token.generation

\* The engine has taken the head, and the runtime does not know it yet.
HeadIsTaken == op.phase = "run" /\ op.reply.applied

\* A draft that became a line is gone, has moved on, or its save is the head,
\* taken and not answered.
TakenOf(t) ==
    /\ t[1] <= session
    /\ t[1] = session => t[2] <= previewEpoch
    /\ t[1] = session /\ t[2] = previewEpoch =>
          /\ t[3] < nextInstance
          /\ draft # None /\ t[3] = draft.instance =>
                /\ t[4] <= draft.generation
                /\ t[4] = draft.generation =>
                      HeadIsTaken /\ Head1.kind = "save" /\ Head1.token = Token(draft)
          /\ \A k \in 1..Len(queue) :
                /\ queue[k].kind = "save"
                /\ queue[k].token.instance = t[3] /\ queue[k].token.generation = t[4]
                => k = 1 /\ HeadIsTaken

TakenKnown == \A t \in taken : t \in Nat \X Nat \X Nat \X Nat /\ TakenOf(t)

OnceInv == QueuedSaves /\ TakenKnown

\* The step leaves the draft in its place, a generation further at most, or
\* closes it, or opens one that is new.
MovesOn ==
    /\ session' = session /\ previewEpoch' = previewEpoch
    /\ \/ nextInstance' = nextInstance /\ draft' = None
       \/ /\ nextInstance' = nextInstance /\ draft # None
          /\ draft'.instance = draft.instance /\ draft'.expected = draft.expected
          /\ draft'.generation \in {draft.generation, draft.generation + 1}
       \/ nextInstance' = nextInstance + 1 /\ draft'.instance = nextInstance

\* What is used of the draft's part of the invariant.
LEMMA DraftNumbers ==
  ASSUME DraftInv
  PROVE  /\ nextInstance \in Nat
         /\ draft # None => /\ draft.instance \in Nat /\ draft.generation \in Nat
                            /\ draft.expected \in Revision /\ Token(draft) \in SaveToken
                            /\ draft.instance < nextInstance
BY DEF DraftInv, DraftType, Draft, RequestsKnowTheirDraft, Token, SaveToken

LEMMA MovesOnNumbers ==
  ASSUME DraftInv, MovesOn
  PROVE  /\ nextInstance' \in Nat /\ nextInstance <= nextInstance'
         /\ \A i \in Nat : i < nextInstance => i < nextInstance'
         /\ \A i, g \in Nat : i < nextInstance /\ draft' # None /\ i = draft'.instance =>
               /\ draft # None /\ i = draft.instance /\ draft'.expected = draft.expected
               /\ g <= draft.generation => g <= draft'.generation
               /\ g <= draft.generation /\ g = draft'.generation =>
                     g = draft.generation /\ draft'.generation = draft.generation
<1>1. nextInstance \in Nat /\ nextInstance + 1 \in Nat
  BY DraftNumbers
<1>2. nextInstance' \in {nextInstance, nextInstance + 1}
  BY DEF MovesOn
<1>3. nextInstance' \in Nat /\ nextInstance <= nextInstance'
      /\ \A i \in Nat : i < nextInstance => i < nextInstance'
  BY <1>1, <1>2
<1>4. ASSUME NEW i \in Nat, NEW g \in Nat, i < nextInstance, draft' # None, i = draft'.instance
      PROVE  /\ draft # None /\ i = draft.instance /\ draft'.expected = draft.expected
             /\ g <= draft.generation => g <= draft'.generation
             /\ g <= draft.generation /\ g = draft'.generation =>
                   g = draft.generation /\ draft'.generation = draft.generation
  <2>1. /\ draft # None
        /\ draft'.instance = draft.instance /\ draft'.expected = draft.expected
        /\ draft'.generation \in {draft.generation, draft.generation + 1}
    BY <1>1, <1>4 DEF MovesOn
  <2>2. draft.generation \in Nat
    BY <2>1, DraftNumbers
  <2>3. QED
    BY <1>4, <2>1, <2>2
<1>5. QED
  BY <1>3, <1>4

\* A token stays known as long as it is held.
LEMMA TokenMovesOn ==
  ASSUME DraftInv, MovesOn, NEW t, KnownToken(t), t \in tokens'
  PROVE  KnownToken(t)'
<1>1. t \in SaveToken /\ t.instance \in Nat /\ t.generation \in Nat
  BY DEF KnownToken, SaveToken
<1>2. t.instance < nextInstance'
  BY <1>1, MovesOnNumbers DEF KnownToken
<1>3. ASSUME draft' # None, t.instance = draft'.instance
      PROVE  t.generation <= draft'.generation /\ t.expected = draft'.expected
  <2>1. draft # None /\ t.instance = draft.instance /\ draft'.expected = draft.expected
    BY <1>1, <1>3, MovesOnNumbers DEF KnownToken
  <2>2. t.generation <= draft.generation /\ t.expected = draft.expected
    BY <2>1 DEF KnownToken
  <2>3. QED
    BY <1>1, <1>3, <2>1, <2>2, MovesOnNumbers DEF KnownToken
<1>4. QED
  BY <1>1, <1>2, <1>3 DEF KnownToken

\* A draft that became a line stays that, if the head is not its save or the
\* draft is not its draft any more, and no save of it joins the queue.
LEMMA TakenMovesOn ==
  ASSUME DraftInv, MovesOn, NEW t \in Nat \X Nat \X Nat \X Nat, TakenOf(t),
         HeadIsTaken /\ Head1.kind = "save" /\ draft # None /\ draft' # None
            /\ Head1.token = Token(draft) /\ t[3] = draft.instance /\ t[4] = draft'.generation
            => HeadIsTaken' /\ Head1' = Head1,
         t[1] = session /\ t[2] = previewEpoch =>
            \A k \in 1..Len(queue') :
               /\ queue'[k].kind = "save"
               /\ queue'[k].token.instance = t[3] /\ queue'[k].token.generation = t[4]
               => k = 1 /\ HeadIsTaken'
  PROVE  TakenOf(t)'
<1>1. t[1] \in Nat /\ t[2] \in Nat /\ t[3] \in Nat /\ t[4] \in Nat
  OBVIOUS
<1>2. session' = session /\ previewEpoch' = previewEpoch
  BY DEF MovesOn
<1>3. ASSUME t[1] = session, t[2] = previewEpoch
      PROVE  t[3] < nextInstance'
  BY <1>1, <1>3, MovesOnNumbers DEF TakenOf
<1>4. ASSUME t[1] = session, t[2] = previewEpoch, draft' # None, t[3] = draft'.instance
      PROVE  /\ t[4] <= draft'.generation
             /\ t[4] = draft'.generation =>
                   HeadIsTaken' /\ Head1'.kind = "save" /\ Head1'.token = Token(draft)'
  <2>1. /\ draft # None /\ t[3] = draft.instance /\ draft'.expected = draft.expected
        /\ t[4] <= draft.generation => t[4] <= draft'.generation
        /\ t[4] <= draft.generation /\ t[4] = draft'.generation =>
              t[4] = draft.generation /\ draft'.generation = draft.generation
    BY <1>1, <1>4, MovesOnNumbers DEF TakenOf
  <2>2. t[4] <= draft.generation
    BY <1>4, <2>1 DEF TakenOf
  <2>3. ASSUME t[4] = draft'.generation
        PROVE  HeadIsTaken' /\ Head1'.kind = "save" /\ Head1'.token = Token(draft)'
    <3>1. t[4] = draft.generation /\ draft'.generation = draft.generation
      BY <2>1, <2>2, <2>3
    <3>2. HeadIsTaken /\ Head1.kind = "save" /\ Head1.token = Token(draft)
      BY <1>4, <2>1, <3>1 DEF TakenOf
    <3>3. HeadIsTaken' /\ Head1' = Head1
      BY <1>4, <2>1, <2>3, <3>2
    <3>4. Token(draft)' = Token(draft)
      BY <1>4, <2>1, <3>1 DEF Token
    <3>5. QED
      BY <3>2, <3>3, <3>4
  <2>4. QED
    BY <2>1, <2>2, <2>3
<1>5. QED
  BY <1>2, <1>3, <1>4 DEF TakenOf

\* The queue is as it was.
LEMMA OnceWithSameQueue ==
  ASSUME DraftInv, OnceInv, MovesOn, UNCHANGED <<queue, op, tokens, taken>>
  PROVE  OnceInv'
<1>1. HeadIsTaken' = HeadIsTaken /\ Head1' = Head1
  BY DEF HeadIsTaken, Head1
<1>2. QueuedSaves'
  <2>1. \A k \in 1..Len(queue) : queue[k].kind \in RouteSaves => KnownToken(queue[k].token)'
    <3> TAKE k \in 1..Len(queue)
    <3> HAVE queue[k].kind \in RouteSaves
    <3>1. KnownToken(queue[k].token) /\ queue[k].token \in tokens'
      BY DEF OnceInv, QueuedSaves, KnownToken
    <3>2. PICK t : t = queue[k].token /\ t = queue'[k].token
      OBVIOUS
    <3>3. KnownToken(t)'
      BY <3>1, <3>2, TokenMovesOn
    <3>4. QED
      BY <3>2, <3>3 DEF KnownToken
  <2>2. QED
    BY <2>1 DEF OnceInv, QueuedSaves
<1>3. TakenKnown'
  <2>1. ASSUME NEW t \in taken'
        PROVE  t \in Nat \X Nat \X Nat \X Nat /\ TakenOf(t)'
    <3>1. t \in Nat \X Nat \X Nat \X Nat /\ TakenOf(t)
      BY DEF OnceInv, TakenKnown
    <3>2. t[1] = session /\ t[2] = previewEpoch =>
            \A k \in 1..Len(queue') :
               /\ queue'[k].kind = "save"
               /\ queue'[k].token.instance = t[3] /\ queue'[k].token.generation = t[4]
               => k = 1 /\ HeadIsTaken'
      BY <1>1, <3>1 DEF TakenOf
    <3>3. QED
      BY <1>1, <3>1, <3>2, TakenMovesOn
  <2>2. QED
    BY <2>1 DEF TakenKnown
<1>4. QED
  BY <1>2, <1>3 DEF OnceInv

LEMMA TailEntries ==
  ASSUME queue \in Seq(Command), queue # <<>>
  PROVE  /\ Len(queue) \in Nat /\ 1 \in 1..Len(queue) /\ Head1 = queue[1]
         /\ Len(Tail(queue)) = Len(queue) - 1
         /\ \A k \in 1..Len(Tail(queue)) : k + 1 \in 1..Len(queue) /\ k + 1 # 1 /\ Tail(queue)[k] = queue[k + 1]
BY DEF Head1

LEMMA AppendedEntries ==
  ASSUME queue \in Seq(Command), NEW c \in Command
  PROVE  /\ Len(Append(queue, c)) = Len(queue) + 1 /\ Len(queue) \in Nat
         /\ Append(queue, c)[Len(queue) + 1] = c
         /\ \A k \in 1..Len(queue) : Append(queue, c)[k] = queue[k]
OBVIOUS

\* The token of the head belongs to no one behind it.
LEMMA HeadTokenIsItsOwn ==
  ASSUME queue \in Seq(Command), queue # <<>>, QueuedSaves,
         NEW k \in 1..Len(queue), k # 1, queue[k].kind \in RouteSaves
  PROVE  queue[k].token \in tokens \ {Head1.token}
<1>1. 1 \in 1..Len(queue) /\ Head1 = queue[1]
  BY TailEntries
<1>2. queue[k].token \in tokens /\ queue[k].token \in SaveToken
  BY DEF QueuedSaves, KnownToken
<1>3. CASE Head1.kind \in RouteSaves
  BY <1>1, <1>2, <1>3 DEF QueuedSaves
<1>4. CASE Head1.kind \notin RouteSaves
  <2>1. Head1.token = None
    BY <1>1, <1>4 DEF QueuedSaves
  <2>2. None \notin SaveToken
    BY SessionAssumption DEF SaveToken, Revision
  <2>3. QED
    BY <1>2, <2>1, <2>2
<1>5. QED
  BY <1>3, <1>4

\* The head leaves, or makes way for an operation with its token that is no save.
LEMMA OnceWithoutHead ==
  ASSUME DraftInv, OnceInv, MovesOn, queue \in Seq(Command), queue # <<>>, taken' = taken,
         HeadIsTaken /\ Head1.kind = "save" /\ draft # None /\ draft' # None
            => Head1.token # Token(draft),
         Settled
  PROVE  OnceInv'
<1>1. queue' = Tail(queue) /\ tokens' = tokens \ {Head1.token}
  BY DEF Settled
<1>2. /\ Len(queue') = Len(queue) - 1 /\ Len(queue) \in Nat
      /\ \A k \in 1..Len(queue') : k + 1 \in 1..Len(queue) /\ k + 1 # 1 /\ queue'[k] = queue[k + 1]
  BY <1>1, TailEntries
<1>3. QueuedSaves'
  <2>1. \A k \in 1..Len(queue') :
           IF queue'[k].kind \in RouteSaves THEN KnownToken(queue[k].token)' ELSE queue'[k].token = None
    <3> TAKE k \in 1..Len(queue')
    <3>1. k + 1 \in 1..Len(queue) /\ k + 1 # 1 /\ queue'[k] = queue[k + 1]
      BY <1>2
    <3>2. CASE queue'[k].kind \in RouteSaves
      <4>1. KnownToken(queue[k + 1].token)
        BY <3>1, <3>2 DEF OnceInv, QueuedSaves
      <4>2. queue[k + 1].token \in tokens'
        BY <1>1, <3>1, <3>2, HeadTokenIsItsOwn DEF OnceInv
      <4>3. PICK t : t = queue[k + 1].token /\ t = queue'[k].token
        BY <3>1
      <4>4. KnownToken(t)'
        BY <4>1, <4>2, <4>3, TokenMovesOn
      <4>5. QED
        BY <3>2, <4>3, <4>4 DEF KnownToken
    <3>3. CASE queue'[k].kind \notin RouteSaves
      BY <3>1, <3>3 DEF OnceInv, QueuedSaves
    <3>4. QED
      BY <3>2, <3>3
  <2>2. \A k, l \in 1..Len(queue') :
           k # l /\ queue'[k].kind \in RouteSaves /\ queue'[l].kind \in RouteSaves =>
              \/ queue'[k].token.instance # queue'[l].token.instance
              \/ queue'[k].token.generation # queue'[l].token.generation
    <3> TAKE k, l \in 1..Len(queue')
    <3> HAVE k # l /\ queue'[k].kind \in RouteSaves /\ queue'[l].kind \in RouteSaves
    <3>1. /\ k + 1 \in 1..Len(queue) /\ queue'[k] = queue[k + 1]
          /\ l + 1 \in 1..Len(queue) /\ queue'[l] = queue[l + 1] /\ k + 1 # l + 1
      BY <1>2
    <3>2. QED
      BY <3>1 DEF OnceInv, QueuedSaves
  <2>3. QED
    BY <2>1, <2>2 DEF QueuedSaves
<1>4. TakenKnown'
  <2>1. ASSUME NEW t \in taken'
        PROVE  t \in Nat \X Nat \X Nat \X Nat /\ TakenOf(t)'
    <3>1. t \in Nat \X Nat \X Nat \X Nat /\ TakenOf(t)
      BY DEF OnceInv, TakenKnown
    <3>2. ASSUME t[1] = session, t[2] = previewEpoch, NEW k \in 1..Len(queue'),
                 queue'[k].kind = "save",
                 queue'[k].token.instance = t[3], queue'[k].token.generation = t[4]
          PROVE  FALSE
      <4>1. k + 1 \in 1..Len(queue) /\ k + 1 # 1 /\ queue'[k] = queue[k + 1]
        BY <1>2
      <4>2. QED
        BY <3>1, <3>2, <4>1 DEF TakenOf
    <3>3. QED
      BY <3>1, <3>2, TakenMovesOn
  <2>2. QED
    BY <2>1 DEF TakenKnown
<1>5. QED
  BY <1>3, <1>4 DEF OnceInv

\* The head of a new line's save makes way for the deployment of its vehicles.
LEMMA OnceWithDeployment ==
  ASSUME DraftInv, OnceInv, MovesOn, queue \in Seq(Command), queue # <<>>, taken' = taken,
         Head1.kind = "save", draft # None /\ draft' # None => Head1.token # Token(draft),
         NEW c, c.kind = "deploy", c.token = Head1.token, queue' = <<c>> \o Tail(queue),
         tokens' = tokens
  PROVE  OnceInv'
<1>1. /\ Len(queue') = Len(queue) /\ Len(queue) \in Nat /\ 1 \in 1..Len(queue)
      /\ queue'[1] = c /\ \A k \in 1..Len(queue) : k # 1 => queue'[k] = queue[k]
  <2>1. Tail(queue) \in Seq(Command) /\ Len(Tail(queue)) = Len(queue) - 1
    BY HeadAndTail, TailEntries
  <2>2. Len(<<c>>) = 1 /\ Len(queue') = 1 + Len(Tail(queue)) /\ queue'[1] = c
        /\ \A k \in 2..(1 + Len(Tail(queue))) : queue'[k] = Tail(queue)[k - 1]
    BY <2>1
  <2>3. \A k \in 1..Len(queue) : k # 1 => k \in 2..(1 + Len(Tail(queue))) /\ Tail(queue)[k - 1] = queue[k]
    <3> TAKE k \in 1..Len(queue)
    <3> HAVE k # 1
    <3>1. k - 1 \in 1..Len(Tail(queue)) /\ (k - 1) + 1 = k /\ k \in 2..(1 + Len(Tail(queue)))
      BY <2>1, TailEntries
    <3>2. Tail(queue)[k - 1] = queue[(k - 1) + 1]
      BY <3>1, TailEntries
    <3>3. QED
      BY <3>1, <3>2
  <2>4. QED
    BY <2>1, <2>2, <2>3, TailEntries
<1>2. \A k \in 1..Len(queue) :
         /\ queue'[k].token = queue[k].token
         /\ queue'[k].kind \in RouteSaves <=> queue[k].kind \in RouteSaves
         /\ queue'[k].kind = "save" => k # 1 /\ queue[k].kind = "save"
  BY <1>1, TailEntries DEF RouteSaves
<1>3. QueuedSaves'
  <2>1. \A k \in 1..Len(queue) : queue[k].kind \in RouteSaves => KnownToken(queue[k].token)'
    <3> TAKE k \in 1..Len(queue)
    <3> HAVE queue[k].kind \in RouteSaves
    <3>1. KnownToken(queue[k].token) /\ queue[k].token \in tokens'
      BY DEF OnceInv, QueuedSaves, KnownToken
    <3>2. PICK t : t = queue[k].token /\ t = queue'[k].token
      BY <1>2
    <3>3. KnownToken(t)'
      BY <3>1, <3>2, TokenMovesOn
    <3>4. QED
      BY <1>2, <3>2, <3>3 DEF KnownToken
  <2>2. \A k \in 1..Len(queue') :
           IF queue'[k].kind \in RouteSaves THEN KnownToken(queue[k].token)' ELSE queue'[k].token = None
    <3> TAKE k \in 1..Len(queue')
    <3>1. k \in 1..Len(queue) /\ queue'[k].token = queue[k].token
      BY <1>1, <1>2
    <3>2. CASE queue'[k].kind \in RouteSaves
      BY <1>2, <2>1, <3>1, <3>2
    <3>3. CASE queue'[k].kind \notin RouteSaves
      BY <1>2, <3>1, <3>3 DEF OnceInv, QueuedSaves
    <3>4. QED
      BY <3>2, <3>3
  <2>3. \A k, l \in 1..Len(queue') :
           k # l /\ queue'[k].kind \in RouteSaves /\ queue'[l].kind \in RouteSaves =>
              \/ queue'[k].token.instance # queue'[l].token.instance
              \/ queue'[k].token.generation # queue'[l].token.generation
    BY <1>1, <1>2 DEF OnceInv, QueuedSaves
  <2>4. QED
    BY <2>2, <2>3 DEF QueuedSaves
<1>4. TakenKnown'
  <2>1. ASSUME NEW t \in taken'
        PROVE  t \in Nat \X Nat \X Nat \X Nat /\ TakenOf(t)'
    <3>1. t \in Nat \X Nat \X Nat \X Nat /\ TakenOf(t)
      BY DEF OnceInv, TakenKnown
    <3>2. ASSUME t[1] = session, t[2] = previewEpoch, NEW k \in 1..Len(queue'),
                 queue'[k].kind = "save",
                 queue'[k].token.instance = t[3], queue'[k].token.generation = t[4]
          PROVE  FALSE
      BY <1>1, <1>2, <3>1, <3>2 DEF TakenOf
    <3>3. QED
      BY <3>1, <3>2, TakenMovesOn
  <2>2. QED
    BY <2>1 DEF TakenKnown
<1>5. QED
  BY <1>3, <1>4 DEF OnceInv

\* A command joins the queue, with no token or with one of its own.
LEMMA OnceWithAdmission ==
  ASSUME DraftInv, OnceInv, QueueShape, MovesOn, queue \in Seq(Command), NEW c \in Command,
         queue' = Append(queue, c), op' = op, taken' = taken, tokens \subseteq tokens',
         c.kind \notin RouteSaves => c.token = None,
         c.kind \in RouteSaves =>
            /\ KnownToken(c.token)'
            /\ \A k \in 1..Len(queue) : queue[k].kind \in RouteSaves =>
                  \/ queue[k].token.instance # c.token.instance
                  \/ queue[k].token.generation # c.token.generation
            /\ \A t \in taken : t[1] = session /\ t[2] = previewEpoch =>
                  t[3] # c.token.instance \/ t[4] # c.token.generation
  PROVE  OnceInv'
<1>1. /\ Len(queue) \in Nat /\ Len(queue') = Len(queue) + 1 /\ queue'[Len(queue) + 1] = c
      /\ \A k \in 1..Len(queue) : queue'[k] = queue[k]
      /\ \A k \in 1..Len(queue') : k \in 1..Len(queue) \/ k = Len(queue) + 1
  BY AppendedEntries
<1>2. QueuedSaves'
  <2>1. \A k \in 1..Len(queue') :
           IF queue'[k].kind \in RouteSaves THEN KnownToken(queue[k].token)' ELSE queue'[k].token = None
    <3> TAKE k \in 1..Len(queue')
    <3>1. CASE k \in 1..Len(queue) /\ queue'[k].kind \in RouteSaves
      <4>1. queue'[k] = queue[k] /\ KnownToken(queue[k].token) /\ queue[k].token \in tokens'
        BY <1>1, <3>1 DEF OnceInv, QueuedSaves, KnownToken
      <4>2. PICK t : t = queue[k].token /\ t = queue'[k].token
        BY <4>1
      <4>3. KnownToken(t)'
        BY <4>1, <4>2, TokenMovesOn
      <4>4. QED
        BY <3>1, <4>2, <4>3 DEF KnownToken
    <3>2. CASE k \in 1..Len(queue) /\ queue'[k].kind \notin RouteSaves
      BY <1>1, <3>2 DEF OnceInv, QueuedSaves
    <3>3. CASE k = Len(queue) + 1
      <4>1. queue'[k] = c
        BY <1>1, <3>3
      <4>2. CASE c.kind \in RouteSaves
        BY <4>1, <4>2 DEF KnownToken
      <4>3. CASE c.kind \notin RouteSaves
        BY <4>1, <4>3
      <4>4. QED
        BY <4>2, <4>3
    <3>4. QED
      BY <1>1, <3>1, <3>2, <3>3
  <2>2. \A k, l \in 1..Len(queue') :
           k # l /\ queue'[k].kind \in RouteSaves /\ queue'[l].kind \in RouteSaves =>
              \/ queue'[k].token.instance # queue'[l].token.instance
              \/ queue'[k].token.generation # queue'[l].token.generation
    <3> TAKE k, l \in 1..Len(queue')
    <3> HAVE k # l /\ queue'[k].kind \in RouteSaves /\ queue'[l].kind \in RouteSaves
    <3>1. CASE k \in 1..Len(queue) /\ l \in 1..Len(queue)
      BY <1>1, <3>1 DEF OnceInv, QueuedSaves
    <3>2. CASE k \in 1..Len(queue) /\ l = Len(queue) + 1
      BY <1>1, <3>2
    <3>3. CASE k = Len(queue) + 1 /\ l \in 1..Len(queue)
      BY <1>1, <3>3
    <3>4. QED
      BY <1>1, <3>1, <3>2, <3>3
  <2>3. QED
    BY <2>1, <2>2 DEF QueuedSaves
<1>3. HeadIsTaken' = HeadIsTaken /\ (HeadIsTaken => queue # <<>>)
  BY DEF HeadIsTaken, QueueShape
<1>4. HeadIsTaken => Head1' = Head1
  BY <1>1, <1>3, TailEntries DEF Head1
<1>5. TakenKnown'
  <2>1. ASSUME NEW t \in taken'
        PROVE  t \in Nat \X Nat \X Nat \X Nat /\ TakenOf(t)'
    <3>1. t \in taken /\ t \in Nat \X Nat \X Nat \X Nat /\ TakenOf(t)
      BY DEF OnceInv, TakenKnown
    <3>2. ASSUME t[1] = session, t[2] = previewEpoch, NEW k \in 1..Len(queue'),
                 queue'[k].kind = "save",
                 queue'[k].token.instance = t[3], queue'[k].token.generation = t[4]
          PROVE  k = 1 /\ HeadIsTaken'
      <4>1. CASE k \in 1..Len(queue)
        <5>1. queue'[k] = queue[k]
          BY <1>1, <4>1
        <5>2. QED
          BY <1>3, <3>1, <3>2, <4>1, <5>1 DEF TakenOf
      <4>2. CASE k = Len(queue) + 1
        <5>1. queue'[k] = c
          BY <1>1, <4>2
        <5>2. QED
          BY <3>1, <3>2, <5>1 DEF RouteSaves
      <4>3. QED
        BY <1>1, <4>1, <4>2
    <3>3. QED
      BY <1>3, <1>4, <3>1, <3>2, TakenMovesOn
  <2>2. QED
    BY <2>1 DEF TakenKnown
<1>6. QED
  BY <1>2, <1>5 DEF OnceInv

\* Save is clicked: the draft has not been taken and its token is free.
LEMMA OnceWithSave ==
  ASSUME EngineInv, DraftInv, OnceInv, SaveDraft
  PROVE  OnceInv'
<1> DEFINE c == [kind |-> "save", token |-> Token(draft), content |-> draft.content,
                 expected |-> draft.expected, owns |-> None]
<1>1. /\ draft # None /\ draft \in Draft /\ Token(draft) \notin tokens
      /\ queue' = Append(queue, c) /\ tokens' = tokens \cup {Token(draft)}
      /\ op' = op /\ taken' = taken /\ draft' = draft /\ nextInstance' = nextInstance
      /\ session' = session /\ previewEpoch' = previewEpoch
  BY DEF SaveDraft, MayStartSave, CanSave, DraftInv, DraftType, engineVars, draftVars
<1>2. PICK d \in Command : d = c
  BY <1>1 DEF Draft, Command, Kinds, Token, SaveToken, Waypoints, Revision
<1>3. /\ d.kind = "save" /\ d.token = Token(draft)
      /\ d.token.instance = draft.instance /\ d.token.generation = draft.generation
      /\ d.token.expected = draft.expected
  BY <1>2 DEF Token
<1>4. MovesOn
  BY <1>1, DraftNumbers DEF MovesOn
<1>5. KnownToken(d.token)'
  BY <1>1, <1>3, DraftNumbers DEF KnownToken
<1>6. \A t \in SaveToken : t.instance = draft.instance /\ t.generation = draft.generation
                           /\ t.expected = draft.expected => t = Token(draft)
  BY DEF SaveToken, Token
<1>7. ASSUME NEW k \in 1..Len(queue), queue[k].kind \in RouteSaves,
             queue[k].token.instance = draft.instance, queue[k].token.generation = draft.generation
      PROVE  FALSE
  <2>1. KnownToken(queue[k].token)
    BY <1>7 DEF OnceInv, QueuedSaves
  <2>2. queue[k].token = Token(draft)
    BY <1>1, <1>6, <1>7, <2>1 DEF KnownToken
  <2>3. QED
    BY <1>1, <2>1, <2>2 DEF KnownToken
<1>8. ASSUME NEW t \in taken, t[1] = session, t[2] = previewEpoch,
             t[3] = draft.instance, t[4] = draft.generation
      PROVE  FALSE
  <2>1. HeadIsTaken /\ Head1.kind = "save" /\ Head1.token = Token(draft)
    BY <1>1, <1>8 DEF OnceInv, TakenKnown, TakenOf
  <2>2. queue \in Seq(Command) /\ queue # <<>>
    BY <2>1 DEF HeadIsTaken, EngineInv, EngineType, QueueShape
  <2>3. 1 \in 1..Len(queue) /\ queue[1].kind \in RouteSaves /\ queue[1].token = Token(draft)
    BY <2>1, <2>2, TailEntries DEF RouteSaves
  <2>4. Token(draft) \in tokens
    BY <2>3 DEF OnceInv, QueuedSaves, KnownToken
  <2>5. QED
    BY <1>1, <2>4
<1>9. queue \in Seq(Command) /\ QueueShape
  BY DEF EngineInv, EngineType
<1>10. d.kind \in RouteSaves /\ tokens \subseteq tokens' /\ queue' = Append(queue, d)
  BY <1>1, <1>2, <1>3 DEF RouteSaves
<1>11. \A k \in 1..Len(queue) : queue[k].kind \in RouteSaves =>
          queue[k].token.instance # d.token.instance \/ queue[k].token.generation # d.token.generation
  BY <1>3, <1>7
<1>12. \A t \in taken : t[1] = session /\ t[2] = previewEpoch =>
          t[3] # d.token.instance \/ t[4] # d.token.generation
  BY <1>3, <1>8
<1>13. QED
  BY <1>1, <1>4, <1>5, <1>9, <1>10, <1>11, <1>12, OnceWithAdmission

\* A command without a token joins the queue.
LEMMA OnceWithPlain ==
  ASSUME EngineInv, DraftInv, OnceInv, MovesOn, NEW kind \in Kinds \ RouteSaves,
         queue' = Append(queue, Plain(kind)), UNCHANGED <<op, tokens, taken>>
  PROVE  OnceInv'
<1>1. PICK c \in Command : c = Plain(kind)
  BY PlainType
<1>2. c.kind \notin RouteSaves /\ c.token = None
  BY <1>1 DEF Plain
<1>3. queue \in Seq(Command) /\ QueueShape
  BY DEF EngineInv, EngineType
<1>4. QED
  BY <1>1, <1>2, <1>3, OnceWithAdmission

\* The engine takes a save, or refuses it, or runs another command.
LEMMA OnceWithRun ==
  ASSUME EngineInv, DraftInv, OnceInv, EngineRunsHead
  PROVE  OnceInv' /\ (Head1.kind = "save" => Taken(Head1) \notin taken)
<1>1. /\ op.phase = "sent" /\ op'.phase = "run"
      /\ taken' = taken \/ (/\ taken' = taken \cup {Taken(Head1)}
                            /\ Head1.kind = "save" /\ op'.reply.applied)
      /\ UNCHANGED <<session, draft, nextInstance, previewEpoch, queue, tokens>>
  BY DEF EngineRunsHead, draftVars
<1>2. queue \in Seq(Command) /\ queue # <<>> /\ ~HeadIsTaken
  BY <1>1 DEF EngineInv, EngineType, QueueShape, HeadIsTaken
<1>3. 1 \in 1..Len(queue) /\ Head1 = queue[1] /\ Head1' = Head1
  BY <1>1, <1>2, TailEntries DEF Head1
<1>4. Head1.kind = "save" => KnownToken(Head1.token)
  BY <1>3 DEF OnceInv, QueuedSaves, RouteSaves
<1>5. QueuedSaves'
  BY <1>1 DEF OnceInv, QueuedSaves, KnownToken
<1>6. \A t \in taken : t[1] = session /\ t[2] = previewEpoch =>
         /\ draft # None /\ t[3] = draft.instance => t[4] # draft.generation
         /\ \A k \in 1..Len(queue) : queue[k].kind = "save" =>
               queue[k].token.instance # t[3] \/ queue[k].token.generation # t[4]
  BY <1>2 DEF OnceInv, TakenKnown, TakenOf
<1>7. ASSUME NEW t \in taken
      PROVE  t \in Nat \X Nat \X Nat \X Nat /\ TakenOf(t)'
  <2>1. t \in Nat \X Nat \X Nat \X Nat /\ TakenOf(t)
    BY DEF OnceInv, TakenKnown
  <2>2. QED
    BY <1>1, <1>6, <2>1 DEF TakenOf
<1>8. ASSUME Head1.kind = "save"
      PROVE  Taken(Head1) \notin taken
  <2>1. /\ Taken(Head1)[1] = session /\ Taken(Head1)[2] = previewEpoch
        /\ Taken(Head1)[3] = Head1.token.instance /\ Taken(Head1)[4] = Head1.token.generation
    BY DEF Taken
  <2>2. QED
    BY <1>3, <1>6, <1>8, <2>1
<1>9. ASSUME Head1.kind = "save", op'.reply.applied
      PROVE  \A t \in {Taken(Head1)} : t \in Nat \X Nat \X Nat \X Nat /\ TakenOf(t)'
  <2>1. PICK t : t = Taken(Head1)
    OBVIOUS
  <2>2. Head1.token \in SaveToken /\ Head1.token.instance \in Nat /\ Head1.token.generation \in Nat
    BY <1>4, <1>9 DEF KnownToken, SaveToken
  <2>3. session \in Nat /\ previewEpoch \in Nat
    BY DEF EngineInv, EngineType, DraftInv, DraftType
  <2>4. /\ t \in Nat \X Nat \X Nat \X Nat
        /\ t[1] = session /\ t[2] = previewEpoch
        /\ t[3] = Head1.token.instance /\ t[4] = Head1.token.generation
    BY <2>1, <2>2, <2>3 DEF Taken
  <2>5. t[3] < nextInstance
    BY <1>4, <1>9, <2>4 DEF KnownToken
  <2>6. ASSUME draft # None, t[3] = draft.instance
        PROVE  t[4] <= draft.generation /\ (t[4] = draft.generation => Head1.token = Token(draft))
    <3>1. t[4] <= draft.generation /\ Head1.token.expected = draft.expected
      BY <1>4, <1>9, <2>4, <2>6 DEF KnownToken
    <3>2. QED
      BY <2>2, <2>4, <2>6, <3>1 DEF SaveToken, Token
  <2>7. ASSUME NEW k \in 1..Len(queue), queue[k].kind = "save",
               queue[k].token.instance = t[3], queue[k].token.generation = t[4]
        PROVE  k = 1
    BY <1>3, <1>9, <2>4, <2>7 DEF OnceInv, QueuedSaves, RouteSaves
  <2>8. HeadIsTaken' /\ Head1'.kind = "save" /\ Token(draft)' = Token(draft)
    BY <1>1, <1>3, <1>9 DEF HeadIsTaken, Token
  <2>9. TakenOf(t)'
    BY <1>1, <1>3, <2>3, <2>4, <2>5, <2>6, <2>7, <2>8 DEF TakenOf
  <2>10. QED
    BY <2>1, <2>4, <2>9
<1>10. TakenKnown'
  BY <1>1, <1>7, <1>9 DEF TakenKnown
<1>11. QED
  BY <1>5, <1>8, <1>10 DEF OnceInv

-----------------------------------------------------------------------------
(* Every step keeps the saves in order.                                     *)

\* The draft stays as it is, closes, or stays in its place.
LEMMA MovesOnInPlace ==
  ASSUME DraftInv, UNCHANGED <<session, previewEpoch, nextInstance>>,
         \/ draft' = draft
         \/ draft' = None
         \/ /\ draft # None
            /\ draft'.instance = draft.instance /\ draft'.expected = draft.expected
            /\ draft'.generation \in {draft.generation, draft.generation + 1}
  PROVE  MovesOn
BY DEF MovesOn

\* An answer is folded over a draft that is closed, or the same line and generation.
LEMMA FoldedMovesOn ==
  ASSUME DraftInv, NEW d, NEW c, Folded(d, c), UNCHANGED <<session, previewEpoch, nextInstance>>,
         d # None => /\ d \in Draft /\ draft # None /\ d.instance = draft.instance
                     /\ d.expected = draft.expected /\ d.generation = draft.generation
  PROVE  MovesOn /\ (d = None => draft' = None)
<1>1. draft' = d \/ (d # None /\ draft' = Refreshed(d))
  BY DEF Folded
<1>2. ASSUME d # None
      PROVE  /\ draft'.instance = d.instance /\ draft'.expected = d.expected
             /\ draft'.generation \in {d.generation, d.generation + 1}
  <2>1. d \in Draft
    BY <1>2
  <2>2. CASE draft' = Refreshed(d)
    BY <2>1, <2>2 DEF Refreshed, Draft
  <2>3. QED
    BY <1>1, <2>2
<1>3. CASE d = None
  BY <1>1, <1>3, MovesOnInPlace
<1>4. CASE d # None
  BY <1>2, <1>4, MovesOnInPlace
<1>5. QED
  BY <1>1, <1>3, <1>4

\* The live runtime is replaced, or a restored city takes the place of its own:
\* what was taken before is of an earlier place.
LEMMA OnceInNewPlace ==
  ASSUME EngineInv, DraftInv, OnceInv, queue' = <<>>, taken' = taken,
         session' = session + 1 \/ (session' = session /\ previewEpoch' = previewEpoch + 1)
  PROVE  OnceInv'
<1>1. session \in Nat /\ previewEpoch \in Nat
  BY DEF EngineInv, EngineType, DraftInv, DraftType
<1>2. QueuedSaves'
  BY DEF QueuedSaves
<1>3. ASSUME NEW t \in taken
      PROVE  t \in Nat \X Nat \X Nat \X Nat /\ TakenOf(t)'
  <2>1. /\ t \in Nat \X Nat \X Nat \X Nat /\ t[1] \in Nat /\ t[2] \in Nat
        /\ t[1] <= session /\ (t[1] = session => t[2] <= previewEpoch)
    BY DEF OnceInv, TakenKnown, TakenOf
  <2>2. CASE session' = session + 1
    <3>1. t[1] <= session' /\ t[1] # session'
      BY <1>1, <2>1, <2>2
    <3>2. QED
      BY <2>1, <3>1 DEF TakenOf
  <2>3. CASE session' = session /\ previewEpoch' = previewEpoch + 1
    <3>1. t[1] <= session' /\ (t[1] = session' => t[2] <= previewEpoch' /\ t[2] # previewEpoch')
      BY <1>1, <2>1, <2>3
    <3>2. QED
      BY <2>1, <3>1 DEF TakenOf
  <2>4. QED
    BY <2>2, <2>3
<1>4. QED
  BY <1>2, <1>3 DEF OnceInv, TakenKnown

LEMMA OnceUnderPlayer ==
  ASSUME EngineInv, DraftInv, OnceInv, Player
  PROVE  OnceInv'
<1>1. CASE CreateDraft
  <2>1. MovesOn
    BY <1>1 DEF CreateDraft, NewDraft, MovesOn, engineVars
  <2>2. QED
    BY <1>1, <2>1, OnceWithSameQueue DEF CreateDraft, engineVars, queueVars
<1>2. CASE OpenEdit \/ ReloadDraft
  <2>1. CASE ReloadDraft /\ Retired
    <3>1. draft # None /\ draft'.generation \in {draft.generation, draft.generation + 1}
      BY <2>1, RetiredDraft DEF ReloadDraft
    <3>2. MovesOn
      BY <2>1, <3>1, RetiredDraft, MovesOnInPlace DEF Retired, engineVars
    <3>3. QED
      BY <2>1, <3>2, OnceWithSameQueue DEF Retired, engineVars, queueVars
  <2>2. CASE \E content \in Contents : Edits(content)
    <3>1. PICK content \in Contents : Edits(content)
      BY <2>2
    <3>2. MovesOn
      BY <3>1 DEF Edits, NewDraft, MovesOn, engineVars
    <3>3. QED
      BY <3>1, <3>2, OnceWithSameQueue DEF Edits, engineVars, queueVars
  <2>3. QED
    BY <1>2, <2>1, <2>2 DEF OpenEdit, ReloadDraft
<1>3. CASE ChangeDraft
  <2>1. PICK content \in Contents : draft' = Changed(draft, content)
    BY <1>3 DEF ChangeDraft
  <2>2. draft # None /\ draft \in Draft
    BY <1>3 DEF ChangeDraft, DraftInv, DraftType
  <2>3. /\ draft'.instance = draft.instance /\ draft'.expected = draft.expected
        /\ draft'.generation = draft.generation + 1
    BY <2>1, <2>2 DEF Changed, Draft
  <2>4. MovesOn
    BY <1>3, <2>2, <2>3, MovesOnInPlace DEF ChangeDraft, engineVars
  <2>5. QED
    BY <1>3, <2>4, OnceWithSameQueue DEF ChangeDraft, engineVars, queueVars
<1>4. CASE CancelDraft
  <2>1. MovesOn
    BY <1>4, MovesOnInPlace DEF CancelDraft, engineVars
  <2>2. QED
    BY <1>4, <2>1, OnceWithSameQueue DEF CancelDraft, engineVars, queueVars
<1>5. CASE SaveDraft
  BY <1>5, OnceWithSave
<1>6. CASE Dispatch
  <2>1. MovesOn
    BY <1>6, MovesOnInPlace DEF Dispatch, engineVars, draftVars
  <2>2. PICK kind \in {"build", "pause"} : queue' = Append(queue, Plain(kind))
    BY <1>6 DEF Dispatch
  <2>3. kind \in Kinds \ RouteSaves
    BY DEF Kinds, RouteSaves
  <2>4. QED
    BY <1>6, <2>1, <2>2, <2>3, OnceWithPlain DEF Dispatch, engineVars
<1>7. CASE Reset
  <2>1. MovesOn
    BY <1>7, MovesOnInPlace DEF Reset, engineVars
  <2>2. "reset" \in Kinds \ RouteSaves
    BY DEF Kinds, RouteSaves
  <2>3. QED
    BY <1>7, <2>1, <2>2, OnceWithPlain DEF Reset, engineVars
<1>8. CASE StartExclusive
  <2>1. MovesOn
    BY <1>8, MovesOnInPlace DEF StartExclusive, engineVars, draftVars
  <2>2. QED
    BY <1>8, <2>1, OnceWithSameQueue DEF StartExclusive, engineVars, queueVars
<1>9. CASE Reload
  <2>1. engine'.epoch = engine.epoch + 1 /\ session' = engine'.epoch
    BY <1>9, NextEpoch DEF Reload, EngineInv, EngineType
  <2>2. session' = session + 1
    BY <2>1 DEF EngineInv, EpochsInOrder
  <2>3. QED
    BY <1>9, <2>2, OnceInNewPlace DEF Reload
<1>10. QED
  BY <1>1, <1>2, <1>3, <1>4, <1>5, <1>6, <1>7, <1>8, <1>9 DEF Player

LEMMA OnceUnderPreviews ==
  ASSUME DraftInv, OnceInv, Previews
  PROVE  OnceInv'
<1>1. UNCHANGED <<session, previewEpoch, nextInstance, queue, op, tokens, taken>>
  BY DEF Previews, EngineAnswersPreview, PreviewArrives, PreviewFails, engineVars, queueVars
<1>2. \/ draft' = draft
      \/ /\ draft # None
         /\ \/ \E r \in requests : draft' = SettledDraft(draft, r)
            \/ draft' = [draft EXCEPT !.pending = FALSE]
  BY DEF Previews, EngineAnswersPreview, PreviewArrives, PreviewFails, Matches
<1>3. \A d \in Draft : \A p :
         /\ [d EXCEPT !.pending = FALSE, !.preview = p].instance = d.instance
         /\ [d EXCEPT !.pending = FALSE, !.preview = p].expected = d.expected
         /\ [d EXCEPT !.pending = FALSE, !.preview = p].generation = d.generation
         /\ [d EXCEPT !.pending = FALSE].instance = d.instance
         /\ [d EXCEPT !.pending = FALSE].expected = d.expected
         /\ [d EXCEPT !.pending = FALSE].generation = d.generation
  BY DEF Draft
<1>4. draft # None => draft \in Draft
  BY DEF DraftInv, DraftType
<1>5. MovesOn
  <2>1. CASE draft' = draft
    BY <1>1, <2>1, MovesOnInPlace
  <2>2. CASE draft # None /\ \E r \in requests : draft' = SettledDraft(draft, r)
    <3>1. PICK r \in requests : draft' = SettledDraft(draft, r)
      BY <2>2
    <3>2. PICK p : draft' = [draft EXCEPT !.pending = FALSE, !.preview = p]
      BY <3>1 DEF SettledDraft
    <3>3. QED
      BY <1>1, <1>3, <1>4, <2>2, <3>2, MovesOnInPlace
  <2>3. CASE draft # None /\ draft' = [draft EXCEPT !.pending = FALSE]
    BY <1>1, <1>3, <1>4, <2>3, MovesOnInPlace
  <2>4. QED
    BY <1>2, <2>1, <2>2, <2>3
<1>6. QED
  BY <1>1, <1>5, OnceWithSameQueue

\* The head is answered with no save of it taken: any answer but that of a save.
LEMMA OnceAnswered ==
  ASSUME EngineInv, DraftInv, OnceInv, MovesOn, queue # <<>>, taken' = taken, Settled,
         ~HeadIsTaken \/ Head1.kind # "save"
  PROVE  OnceInv'
<1>1. queue \in Seq(Command)
  BY DEF EngineInv, EngineType
<1>2. QED
  BY <1>1, OnceWithoutHead

\* The answer of a save that was taken closes its draft, or finds another on screen.
LEMMA OnceWithSavedAnswer ==
  ASSUME EngineInv, DraftInv, OnceInv, AnswerSaveApplied
  PROVE  OnceInv'
<1>1. /\ op.phase = "run" /\ Head1.kind = "save" /\ taken' = taken
      /\ session' = session /\ previewEpoch' = previewEpoch /\ nextInstance' = nextInstance
  BY DEF AnswerSaveApplied, Answered, engineVars
<1>2. queue \in Seq(Command) /\ queue # <<>>
  BY <1>1 DEF EngineInv, EngineType, QueueShape
<1>3. /\ MovesOn
      /\ draft # None /\ draft' # None => Head1.token # Token(draft)
  <2>1. CASE SavedIsCurrent
    <3>1. Folded(None, Invalidated(coordinator))
      BY <2>1 DEF AnswerSaveApplied
    <3>2. MovesOn /\ draft' = None
      BY <1>1, <3>1, FoldedMovesOn
    <3>3. QED
      BY <3>2
  <2>2. CASE ~SavedIsCurrent
    <3> DEFINE kept == IF draft = None THEN None ELSE [draft EXCEPT !.preview = None, !.pending = FALSE]
    <3>1. Folded(kept, Invalidated(coordinator))
      BY <2>2 DEF AnswerSaveApplied
    <3>2. \A d \in Draft :
             LET k == [d EXCEPT !.preview = None, !.pending = FALSE]
             IN  /\ k \in Draft /\ k.instance = d.instance /\ k.expected = d.expected
                 /\ k.generation = d.generation
      BY DEF Draft
    <3>3. draft # None => draft \in Draft
      BY DEF DraftInv, DraftType
    <3>4. kept # None => /\ kept \in Draft /\ draft # None /\ kept.instance = draft.instance
                         /\ kept.expected = draft.expected /\ kept.generation = draft.generation
      BY <3>2, <3>3
    <3>5. MovesOn
      <4> HIDE DEF kept
      <4>1. QED
        BY <1>1, <3>1, <3>4, FoldedMovesOn
    <3>6. QED
      BY <2>2, <3>5 DEF SavedIsCurrent
  <2>3. QED
    BY <2>1, <2>2
<1>4. CASE Settled
  BY <1>1, <1>2, <1>3, <1>4, OnceWithoutHead
<1>5. CASE ~Settled
  <2>1. PICK owns \in Revision :
            /\ queue' = <<[Head1 EXCEPT !.kind = "deploy", !.owns = owns]>> \o Tail(queue)
            /\ tokens' = tokens
    BY <1>5 DEF AnswerSaveApplied, SettledOrDeploys, DraftInv, DraftType, Revision
  <2>2. PICK c : c = [Head1 EXCEPT !.kind = "deploy", !.owns = owns]
    OBVIOUS
  <2>3. Head1 \in Command
    BY <1>2, HeadAndTail
  <2>4. c.kind = "deploy" /\ c.token = Head1.token
    BY <2>2, <2>3 DEF Command
  <2>5. queue' = <<c>> \o Tail(queue)
    BY <2>1, <2>2
  <2>6. QED
    BY <1>1, <1>2, <1>3, <2>1, <2>4, <2>5, OnceWithDeployment
<1>6. QED
  BY <1>4, <1>5

LEMMA OnceUnderServing ==
  ASSUME EngineInv, DraftInv, OnceInv, Serving
  PROVE  OnceInv'
<1> DEFINE samePlace == session' = session /\ previewEpoch' = previewEpoch /\ nextInstance' = nextInstance
<1>1. CASE SendHead
  <2>1. /\ UNCHANGED <<session, draft, nextInstance, previewEpoch, queue, tokens, taken>>
        /\ op.phase = "idle" /\ op'.phase = "sent"
    BY <1>1 DEF SendHead, engineVars, draftVars
  <2>2. QueuedSaves'
    BY <2>1 DEF OnceInv, QueuedSaves, KnownToken
  <2>3. ~HeadIsTaken /\ ~HeadIsTaken'
    BY <2>1 DEF HeadIsTaken
  <2>4. ASSUME NEW t \in taken
        PROVE  t \in Nat \X Nat \X Nat \X Nat /\ TakenOf(t)'
    <3>1. t \in Nat \X Nat \X Nat \X Nat /\ TakenOf(t)
      BY DEF OnceInv, TakenKnown
    <3>2. QED
      BY <2>1, <2>3, <3>1 DEF TakenOf
  <2>5. QED
    BY <2>1, <2>2, <2>4 DEF OnceInv, TakenKnown
<1>2. CASE EngineRunsHead
  BY <1>2, OnceWithRun
<1>3. CASE AnswerNeutral
  <2>1. /\ MovesOn /\ taken' = taken /\ Settled /\ op.phase = "run" /\ Head1.kind # "save"
    BY <1>3, MovesOnInPlace DEF AnswerNeutral, Answered, engineVars, draftVars
  <2>2. QED
    BY <2>1, OnceAnswered DEF EngineInv, QueueShape
<1>4. CASE AnswerDispatch
  <2>1. /\ taken' = taken /\ Settled /\ op.phase = "run" /\ Head1.kind # "save"
        /\ samePlace /\ Folded(draft, coordinator)
    BY <1>4 DEF AnswerDispatch, Answered, engineVars
  <2>2. draft # None => draft \in Draft
    BY DEF DraftInv, DraftType
  <2>3. MovesOn
    BY <2>1, <2>2, FoldedMovesOn
  <2>4. QED
    BY <2>1, <2>3, OnceAnswered DEF EngineInv, QueueShape
<1>5. CASE AnswerReset
  <2>1. /\ taken' = taken /\ Settled /\ op.phase = "run" /\ Head1.kind # "save"
        /\ samePlace /\ (draft' = None \/ draft' = draft)
    BY <1>5 DEF AnswerReset, Answered, engineVars
  <2>2. MovesOn
    BY <2>1, MovesOnInPlace
  <2>3. QED
    BY <2>1, <2>2, OnceAnswered DEF EngineInv, QueueShape
<1>6. CASE AnswerSaveApplied
  BY <1>6, OnceWithSavedAnswer
<1>7. CASE AnswerSaveRefused
  <2>1. /\ taken' = taken /\ Settled /\ op.phase = "run" /\ ~HeadIsTaken
        /\ samePlace /\ Folded(draft, coordinator)
    BY <1>7 DEF AnswerSaveRefused, Answered, HeadIsTaken, engineVars
  <2>2. draft # None => draft \in Draft
    BY DEF DraftInv, DraftType
  <2>3. MovesOn
    BY <2>1, <2>2, FoldedMovesOn
  <2>4. QED
    BY <2>1, <2>3, OnceAnswered DEF EngineInv, QueueShape
<1>8. CASE HeadFails
  <2>1. /\ taken' = taken /\ Settled /\ op.phase = "sent" /\ ~HeadIsTaken /\ samePlace
        /\ \/ draft' = draft
           \/ draft' = IF draft = None THEN None ELSE [draft EXCEPT !.pending = FALSE]
    BY <1>8 DEF HeadFails, HeadIsTaken, engineVars
  <2>2. \A d \in Draft : LET k == [d EXCEPT !.pending = FALSE]
                         IN  k.instance = d.instance /\ k.expected = d.expected
                             /\ k.generation = d.generation
    BY DEF Draft
  <2>3. draft # None => draft \in Draft
    BY DEF DraftInv, DraftType
  <2>4. \/ draft' = draft \/ draft' = None
        \/ draft # None /\ draft'.instance = draft.instance /\ draft'.expected = draft.expected
           /\ draft'.generation = draft.generation
    BY <2>1, <2>2, <2>3
  <2>5. MovesOn
    BY <2>1, <2>4, MovesOnInPlace
  <2>6. QED
    BY <2>1, <2>5, OnceAnswered DEF EngineInv, QueueShape
<1>9. CASE DeadSettles
  <2>1. /\ MovesOn /\ taken' = taken /\ Settled /\ queue # <<>> /\ ~HeadIsTaken
    BY <1>9, MovesOnInPlace DEF DeadSettles, HeadIsTaken, engineVars, draftVars
  <2>2. QED
    BY <2>1, OnceAnswered
<1>10. CASE EndExclusive \/ EngineRestores
  <2>1. MovesOn /\ UNCHANGED <<queue, op, tokens, taken>>
    BY <1>10, MovesOnInPlace DEF EndExclusive, EngineRestores, engineVars, draftVars, queueVars
  <2>2. QED
    BY <2>1, OnceWithSameQueue
<1>11. CASE InstallRestored
  <2>1. /\ queue' = queue /\ taken' = taken /\ session' = session
        /\ previewEpoch' = previewEpoch + 1 /\ busy = "restored"
    BY <1>11 DEF InstallRestored, engineVars
  <2>2. queue = <<>>
    BY <2>1 DEF EngineInv, QueueShape
  <2>3. QED
    BY <2>1, <2>2, OnceInNewPlace
<1>12. QED
  BY <1>1, <1>2, <1>3, <1>4, <1>5, <1>6, <1>7, <1>8, <1>9, <1>10, <1>11 DEF Serving

LEMMA OnceUnderClockAndOrphans ==
  ASSUME EngineInv, DraftInv, OnceInv, AdmitTick \/ EngineRunsOrphan
  PROVE  OnceInv'
<1>1. MovesOn /\ taken' = taken
  BY MovesOnInPlace DEF AdmitTick, EngineRunsOrphan, engineVars, draftVars
<1>2. CASE AdmitTick
  <2>1. "tick" \in Kinds \ RouteSaves
    BY DEF Kinds, RouteSaves
  <2>2. QED
    BY <1>1, <1>2, <2>1, OnceWithPlain DEF AdmitTick
<1>3. CASE EngineRunsOrphan
  BY <1>1, <1>3, OnceWithSameQueue DEF EngineRunsOrphan, queueVars
<1>4. QED
  BY <1>2, <1>3

LEMMA NextOnceInv ==
  ASSUME IInv, OnceInv, [Next]_vars
  PROVE  OnceInv'
<1>1. CASE Next
  BY <1>1, OnceUnderPlayer, OnceUnderPreviews, OnceUnderServing, OnceUnderClockAndOrphans
     DEF Next, IInv
<1>2. CASE UNCHANGED vars
  <2>1. MovesOn /\ UNCHANGED <<queue, op, tokens, taken>>
    BY <1>2, MovesOnInPlace DEF IInv, vars, engineVars, draftVars, queueVars
  <2>2. QED
    BY <2>1, OnceWithSameQueue DEF IInv
<1>3. QED
  BY <1>1, <1>2

\* Every save under way holds a token of its own, and a draft that became a line
\* is gone, has moved on, or waits for the answer of its save.
THEOREM OnceInvHolds == Spec => []OnceInv
<1>1. Init => OnceInv
  BY DEF Init, OnceInv, QueuedSaves, TakenKnown
<1>2. QED
  BY <1>1, NextOnceInv, IInvHolds, PTL DEF Spec

\* However often Save is clicked, one generation of a draft makes one change: the
\* engine never takes a save of a draft that it has taken (saveRouteDraft).
THEOREM OneChangePerGeneration == Spec => EachDraftSavedOnce
<1>1. ASSUME IInv, OnceInv, op.phase = "sent", Head1.kind = "save"
      PROVE  Taken(Head1) \notin taken
  <2>1. queue \in Seq(Command) /\ queue # <<>> /\ ~HeadIsTaken
    BY <1>1 DEF IInv, EngineInv, EngineType, QueueShape, HeadIsTaken
  <2>2. 1 \in 1..Len(queue) /\ Head1 = queue[1]
    BY <2>1, TailEntries
  <2>3. /\ Taken(Head1)[1] = session /\ Taken(Head1)[2] = previewEpoch
        /\ Taken(Head1)[3] = Head1.token.instance /\ Taken(Head1)[4] = Head1.token.generation
    BY DEF Taken
  <2>4. QED
    BY <1>1, <2>1, <2>2, <2>3 DEF OnceInv, TakenKnown, TakenOf
<1>2. IInv /\ OnceInv /\ [Next]_vars =>
         [op.phase = "sent" /\ op'.phase = "run" /\ Head1.kind = "save" /\ op'.reply.applied
             => Taken(Head1) \notin taken]_vars
  BY <1>1
<1>3. QED
  BY <1>2, IInvHolds, OnceInvHolds, PTL DEF Spec, EachDraftSavedOnce

-----------------------------------------------------------------------------
(* The world that a preview was made for.                                   *)

\* What is on screen is never ahead of the engine.
VersionsInOrder == view.ver <= engine.ver

\* Nothing of a dead runtime is under way, and only an applied change makes a new world.
AnswersKeepVersion ==
    /\ dead => op.phase = "idle"
    /\ op.phase = "run" /\ (~op.reply.applied \/ Head1.kind \in {"tick", "pause"}) =>
          engine.ver = view.ver

EngineVersions == VersionsInOrder /\ AnswersKeepVersion

\* An answer that will be accepted for the draft on screen is of the world on screen or a later one.
ComingAnswerIsCurrent(r) ==
    /\ r.epoch <= coordinator.epoch
    /\ Accepts(r) /\ Matches(r) /\ r.answer # None /\ ~missed => r.answer.ver >= view.ver

PreviewIsCurrent == draft # None /\ draft.preview # None /\ ~missed => draft.preview.ver >= view.ver

Armed == (\A r \in requests : ComingAnswerIsCurrent(r)) /\ PreviewIsCurrent

VersionInv == EngineVersions /\ Armed

\* No command takes the world back, and one that is not applied leaves it as it was.
LEMMA AfterKeepsVersion ==
  ASSUME NEW e \in Engine, NEW c \in Command, NEW paused \in BOOLEAN, NEW r \in After(e, c, paused)
  PROVE  /\ e.ver <= r.engine.ver
         /\ ~r.applied \/ c.kind \in {"tick", "pause"} => r.engine.ver = e.ver
<1>1. \A revs : \A x \in Changes(e, revs) : x.ver = e.ver + 1
  <2>1. \A n \in Nat : \A v : [e EXCEPT !.ver = n, !.rev = v].ver = n
    BY DEF Engine
  <2>2. e.ver + 1 \in Nat
    BY DEF Engine
  <2>3. QED
    BY <2>1, <2>2 DEF Changes
<1>2. \A revs : \A x \in AtRest(Changes(e, revs)) : x.ver = e.ver + 1
  <2>1. SUFFICES ASSUME NEW revs, NEW y \in Changes(e, revs)
                 PROVE  [y EXCEPT !.paused = TRUE].ver = e.ver + 1
    BY DEF AtRest
  <2>2. PICK v \in revs : y = [e EXCEPT !.ver = @ + 1, !.rev = v]
    BY DEF Changes
  <2>3. \A n \in Nat : [[e EXCEPT !.ver = n, !.rev = v] EXCEPT !.paused = TRUE].ver = n
    BY DEF Engine
  <2>4. e.ver + 1 \in Nat
    BY DEF Engine
  <2>5. QED
    BY <2>2, <2>3, <2>4
<1>3. e.ver \in Nat /\ e.ver <= e.ver + 1
  BY DEF Engine
<1>4. c.kind \in Kinds
  BY DEF Command
<1>5. CASE c.kind = "tick"
  BY <1>3, <1>5 DEF After, Reply
<1>6. CASE c.kind = "pause"
  <2>1. r.engine = [e EXCEPT !.paused = ~paused]
    BY <1>6 DEF After, Reply
  <2>2. \A b \in BOOLEAN : [e EXCEPT !.paused = b].ver = e.ver
    BY DEF Engine
  <2>3. QED
    BY <1>3, <2>1, <2>2
<1>7. CASE c.kind = "build"
  <2>1. \/ r.engine = e /\ ~r.applied
        \/ r.applied /\ r.engine \in Changes(e, {e.rev, None} \cup {x + 1 : x \in {e.rev} \ {None}})
    BY <1>7 DEF After, Reply
  <2>2. QED
    BY <1>1, <1>3, <1>7, <2>1
<1>8. CASE c.kind = "deploy" \/ (c.kind = "save" /\ c.expected = None)
  <2>1. (r.engine = e /\ ~r.applied) \/ (r.applied /\ r.engine \in Changes(e, {e.rev}))
    BY <1>8 DEF After, Reply
  <2>2. QED
    BY <1>1, <1>3, <1>8, <2>1
<1>9. CASE c.kind = "save" /\ c.expected # None
  <2>1. \/ r.engine = e /\ ~r.applied
        \/ r.applied /\ r.engine \in Changes(e, {e.rev, e.rev + 1})
    BY <1>9 DEF After, Reply
  <2>2. QED
    BY <1>1, <1>3, <1>9, <2>1
<1>10. CASE c.kind = "reset" \/ c.kind = "load"
  <2>1. \/ r.engine = e /\ ~r.applied
        \/ r.applied /\ \E revs : r.engine \in AtRest(Changes(e, revs))
    BY <1>10 DEF After, Reply
  <2>2. QED
    BY <1>2, <1>3, <1>10, <2>1
<1>11. QED
  BY <1>4, <1>5, <1>6, <1>7, <1>8, <1>9, <1>10 DEF Kinds

LEMMA RunKeepsVersion ==
  ASSUME engine \in Engine, NEW c \in Command, NEW paused \in BOOLEAN, NEW epoch,
         NEW r \in Run(c, epoch, paused)
  PROVE  /\ engine.ver <= r.engine.ver
         /\ ~r.applied \/ c.kind \in {"tick", "pause"} => r.engine.ver = engine.ver
<1>1. CASE epoch # engine.epoch
  <2>1. r.engine = engine /\ engine.ver \in Nat
    BY <1>1 DEF Run, Reply, Engine
  <2>2. QED
    BY <2>1
<1>2. CASE epoch = engine.epoch
  BY <1>2, AfterKeepsVersion DEF Run
<1>3. QED
  BY <1>1, <1>2

LEMMA VersionNumbers ==
  ASSUME EngineInv
  PROVE  /\ engine.ver \in Nat /\ view.ver \in Nat /\ View(engine).ver = engine.ver
         /\ View(engine).ver <= engine.ver
BY DEF EngineInv, EngineType, Engine, Shape, View

\* The engine's side stays when nothing is under way afterwards that has been run.
LEMMA VersionsAtRest ==
  ASSUME view'.ver <= engine'.ver, op'.phase # "run", dead' => op'.phase = "idle"
  PROVE  EngineVersions'
BY DEF EngineVersions, VersionsInOrder, AnswersKeepVersion

\* An operation is admitted behind the head, or none is.
LEMMA VersionsInQueue ==
  ASSUME EngineInv, EngineVersions, UNCHANGED <<engine, view, op, dead>>,
         queue' = queue \/ \E c \in Command : queue' = Append(queue, c)
  PROVE  EngineVersions'
<1>1. op.phase = "run" => Head1' = Head1
  <2>1. queue \in Seq(Command) /\ (op.phase = "run" => queue # <<>>)
    BY DEF EngineInv, EngineType, QueueShape
  <2>2. ASSUME NEW c \in Command, queue' = Append(queue, c), queue # <<>>
        PROVE  queue'[1] = queue[1]
    BY <2>1, <2>2
  <2>3. QED
    BY <2>1, <2>2 DEF Head1
<1>2. QED
  BY <1>1 DEF EngineVersions, VersionsInOrder, AnswersKeepVersion

LEMMA VersionsUnderPlayer ==
  ASSUME EngineInv, DraftInv, EngineVersions, Player
  PROVE  EngineVersions'
<1>1. CASE CreateDraft \/ OpenEdit \/ ReloadDraft \/ ChangeDraft \/ CancelDraft \/ StartExclusive
  <2>1. UNCHANGED <<engine, view, op, dead, queue>>
    BY <1>1 DEF CreateDraft, OpenEdit, ReloadDraft, ChangeDraft, CancelDraft, StartExclusive, Edits,
                Retired, Shown, engineVars, queueVars
  <2>2. QED
    BY <2>1, VersionsInQueue
<1>2. CASE SaveDraft
  <2> DEFINE c == [kind |-> "save", token |-> Token(draft), content |-> draft.content,
                   expected |-> draft.expected, owns |-> None]
  <2>1. draft \in Draft
    BY <1>2 DEF SaveDraft, MayStartSave, CanSave, DraftInv, DraftType
  <2>2. c \in Command
    BY <2>1 DEF Draft, Command, Kinds, Token, SaveToken, Waypoints, Revision
  <2>3. UNCHANGED <<engine, view, op, dead>> /\ queue' = Append(queue, c)
    BY <1>2 DEF SaveDraft, engineVars
  <2>4. QED
    BY <2>2, <2>3, VersionsInQueue
<1>3. CASE Dispatch
  <2>1. PICK kind \in {"build", "pause"} : queue' = Append(queue, Plain(kind))
    BY <1>3 DEF Dispatch
  <2>2. Plain(kind) \in Command /\ UNCHANGED <<engine, view, op, dead>>
    BY <1>3, PlainType DEF Kinds, Dispatch, engineVars
  <2>3. QED
    BY <2>1, <2>2, VersionsInQueue
<1>4. CASE Reset
  <2>1. /\ Plain("reset") \in Command /\ queue' = Append(queue, Plain("reset"))
        /\ UNCHANGED <<engine, view, op, dead>>
    BY <1>4, PlainType DEF Kinds, Reset, Shown, engineVars
  <2>2. QED
    BY <2>1, VersionsInQueue
<1>5. CASE Reload
  <2>1. /\ engine' = [engine EXCEPT !.epoch = @ + 1] /\ view' = View(engine)
        /\ op' = Idle /\ dead' = FALSE
    BY <1>5 DEF Reload, Shown
  <2>2. engine'.ver = engine.ver
    BY <2>1 DEF EngineInv, EngineType, Engine
  <2>3. QED
    BY <2>1, <2>2, VersionNumbers, VersionsAtRest DEF Idle
<1>6. QED
  BY <1>1, <1>2, <1>3, <1>4, <1>5 DEF Player

\* The head has been answered: what it did is on screen, and a live runtime goes on.
LEMMA VersionsAnswered ==
  ASSUME EngineInv, EngineVersions, op.phase = "run", view' = View(engine), UNCHANGED <<engine, dead>>,
         op'.phase # "run"
  PROVE  EngineVersions'
<1>1. ~dead
  BY DEF EngineVersions, AnswersKeepVersion
<1>2. QED
  BY <1>1, VersionNumbers, VersionsAtRest

LEMMA VersionsUnderServing ==
  ASSUME EngineInv, DraftInv, EngineVersions, Serving
  PROVE  EngineVersions'
<1> USE DEF Idle
<1>1. CASE SendHead
  <2>1. op'.phase = "sent" /\ ~dead' /\ UNCHANGED <<engine, view>>
    BY <1>1 DEF SendHead, engineVars
  <2>2. QED
    BY <2>1, VersionsAtRest DEF EngineVersions, VersionsInOrder
<1>2. CASE EngineRunsHead
  <2>1. op.phase = "sent" /\ queue # <<>> /\ Head1 \in Command /\ busy # "restored" /\ ~dead
    BY <1>2, HeadAndTail
       DEF EngineRunsHead, EngineInv, EngineType, QueueShape, EngineVersions, AnswersKeepVersion
  <2>2. PICK r \in Run(Head1, session, view.paused) :
            engine' = r.engine /\ op' = [phase |-> "run", reply |-> r]
    BY <1>2 DEF EngineRunsHead
  <2>3. view.paused \in BOOLEAN /\ engine \in Engine
    BY DEF EngineInv, EngineType, Shape
  <2>4. /\ engine.ver <= engine'.ver
        /\ ~op'.reply.applied \/ Head1.kind \in {"tick", "pause"} => engine'.ver = engine.ver
    BY <2>1, <2>2, <2>3, RunKeepsVersion
  <2>5. view.ver = engine.ver
    BY <2>1, VersionNumbers DEF EngineInv, RuntimeShowsTheEngine
  <2>6. UNCHANGED <<view, queue, dead>>
    BY <1>2 DEF EngineRunsHead
  <2>7. QED
    BY <2>1, <2>4, <2>5, <2>6 DEF EngineVersions, VersionsInOrder, AnswersKeepVersion, Head1
<1>3. CASE AnswerNeutral \/ AnswerDispatch \/ AnswerReset \/ AnswerSaveRefused
  <2>1. /\ op.phase = "run" /\ view' = View(engine) /\ op' = Idle
        /\ UNCHANGED <<engine, dead>>
    BY <1>3 DEF AnswerNeutral, AnswerDispatch, AnswerReset, AnswerSaveRefused, Answered, Folded,
                Shown, Settled, engineVars
  <2>2. QED
    BY <2>1, VersionsAnswered
<1>4. CASE AnswerSaveApplied
  <2>1. /\ op.phase = "run" /\ view' = View(engine) /\ UNCHANGED <<engine, dead>>
        /\ op'.phase # "run"
    BY <1>4 DEF AnswerSaveApplied, Answered, Folded, Shown, SettledOrDeploys, Settled, engineVars
  <2>2. QED
    BY <2>1, VersionsAnswered
<1>5. CASE HeadFails \/ DeadSettles
  <2>1. op' = Idle /\ UNCHANGED <<engine, view>>
    BY <1>5 DEF HeadFails, DeadSettles, Settled, engineVars
  <2>2. QED
    BY <2>1, VersionsAtRest DEF EngineVersions, VersionsInOrder
<1>6. CASE EndExclusive
  <2>1. UNCHANGED <<engine, view, op, dead, queue>>
    BY <1>6 DEF EndExclusive, Shown, engineVars, queueVars
  <2>2. QED
    BY <2>1, VersionsInQueue
<1>7. CASE EngineRestores
  <2>1. PICK r \in Run(Plain("load"), session, view.paused) : engine' = r.engine
    BY <1>7 DEF EngineRestores
  <2>2. view.paused \in BOOLEAN /\ engine \in Engine /\ Plain("load") \in Command
    BY PlainType DEF EngineInv, EngineType, Shape, Kinds
  <2>3. engine'.ver \in Nat
    <3>1. r.engine \in Engine
      BY <2>2, RunChecksEpoch DEF EngineInv, EngineType
    <3>2. QED
      BY <2>1, <3>1 DEF Engine
  <2>4. engine.ver <= engine'.ver
    BY <2>1, <2>2, RunKeepsVersion
  <2>5. queue = <<>> /\ ~dead /\ UNCHANGED <<view, op, dead>>
    BY <1>7 DEF EngineRestores, queueVars
  <2>6. op.phase # "run"
    BY <2>5 DEF EngineInv, QueueShape
  <2>7. view'.ver <= engine'.ver
    BY <2>3, <2>4, <2>5, VersionNumbers DEF EngineVersions, VersionsInOrder
  <2>8. QED
    BY <2>5, <2>6, <2>7, VersionsAtRest
<1>8. CASE InstallRestored
  <2>1. view' = View(engine) /\ busy = "restored" /\ UNCHANGED <<engine, op, dead>>
    BY <1>8 DEF InstallRestored, Shown, engineVars
  <2>2. op.phase \notin {"sent", "run"}
    BY <2>1 DEF EngineInv, QueueShape
  <2>3. op.phase = "idle"
    BY <2>2 DEF EngineInv, EngineType
  <2>4. QED
    BY <2>1, <2>3, VersionNumbers, VersionsAtRest
<1>9. QED
  BY <1>1, <1>2, <1>3, <1>4, <1>5, <1>6, <1>7, <1>8 DEF Serving

LEMMA VersionsUnderTheRest ==
  ASSUME EngineInv, EngineVersions, Previews \/ AdmitTick \/ EngineRunsOrphan
  PROVE  EngineVersions'
<1>1. CASE Previews
  <2>1. UNCHANGED <<engine, view, op, dead, queue>>
    BY <1>1 DEF Previews, EngineAnswersPreview, PreviewArrives, PreviewFails, Shown, engineVars,
                queueVars
  <2>2. QED
    BY <2>1, VersionsInQueue
<1>2. CASE AdmitTick
  <2>1. /\ Plain("tick") \in Command /\ queue' = Append(queue, Plain("tick"))
        /\ UNCHANGED <<engine, view, op, dead>>
    BY <1>2, PlainType DEF Kinds, AdmitTick, engineVars
  <2>2. QED
    BY <2>1, VersionsInQueue
<1>3. CASE EngineRunsOrphan
  <2>1. PICK o \in orphans : \E r \in Run(o.command, o.epoch, o.paused) : engine' = r.engine
    BY <1>3 DEF EngineRunsOrphan
  <2>2. /\ o.command \in Command /\ o.epoch \in Nat /\ o.paused \in BOOLEAN
        /\ o.epoch < engine.epoch
    BY DEF EngineInv, EngineType, EpochsInOrder, Orphan
  <2>3. engine' = engine
    BY <2>1, <2>2, RunChecksEpoch DEF EngineInv, EngineType, Engine
  <2>4. UNCHANGED <<engine, view, op, dead, queue>>
    BY <1>3, <2>3 DEF EngineRunsOrphan, queueVars
  <2>5. QED
    BY <2>4, VersionsInQueue
<1>4. QED
  BY <1>1, <1>2, <1>3

-----------------------------------------------------------------------------
(* The draft's side.                                                        *)

OnlyInvalidated == coordinator' = coordinator \/ coordinator' = Invalidated(coordinator)

\* No request belongs to a later epoch than the coordinator's.
LEMMA EpochsKept ==
  ASSUME DraftInv, Armed, requests' \subseteq requests, OnlyInvalidated
  PROVE  \A r \in requests' : r.epoch <= coordinator'.epoch
<1>1. coordinator.epoch \in Nat /\ \A r \in requests : r.epoch \in Nat
  BY DEF DraftInv, DraftType, Coordinator, PreviewRequest
<1>2. coordinator'.epoch = coordinator.epoch \/ coordinator'.epoch = coordinator.epoch + 1
  BY DEF OnlyInvalidated, Invalidated
<1>3. \A r \in requests : r.epoch <= coordinator.epoch
  BY DEF Armed, ComingAnswerIsCurrent
<1>4. QED
  BY <1>1, <1>2, <1>3

\* The world on screen stays, and of the draft at most its preview goes.
LEMMA ArmedKept ==
  ASSUME DraftInv, Armed, view'.ver = view.ver, requests' \subseteq requests, OnlyInvalidated,
         previewEpoch' = previewEpoch,
         \/ draft' = None
         \/ /\ draft # None /\ (missed => missed')
            /\ draft'.instance = draft.instance /\ draft'.generation = draft.generation
            /\ draft'.preview # None =>
                  draft.preview # None /\ draft'.preview.ver = draft.preview.ver
  PROVE  Armed'
<1>1. \A r \in requests' : r.epoch <= coordinator'.epoch
  BY EpochsKept
<1>2. PreviewIsCurrent'
  BY DEF Armed, PreviewIsCurrent
<1>3. ASSUME NEW r \in requests', r.epoch = coordinator'.epoch, r.generation = coordinator'.latest
      PROVE  r.epoch = coordinator.epoch /\ r.generation = coordinator.latest
  <2>1. r.generation \in Nat /\ r.generation # None
    BY SessionAssumption DEF DraftInv, DraftType, PreviewRequest
  <2>2. coordinator' = coordinator
    BY <1>3, <2>1 DEF OnlyInvalidated, Invalidated
  <2>3. QED
    BY <1>3, <2>2
<1>4. ASSUME NEW r \in requests'
      PROVE  ComingAnswerIsCurrent(r)'
  <2>1. ComingAnswerIsCurrent(r) /\ r \in requests
    BY DEF Armed
  <2>2. QED
    BY <1>1, <1>3, <2>1 DEF ComingAnswerIsCurrent, Accepts, Matches
<1>5. QED
  BY <1>2, <1>4 DEF Armed

\* There is no draft to arm, or a change passed it by.
LEMMA ArmedVoid ==
  ASSUME DraftInv, Armed, requests' \subseteq requests, OnlyInvalidated, draft' = None \/ missed'
  PROVE  Armed'
<1>1. \A r \in requests' : r.epoch <= coordinator'.epoch
  BY EpochsKept
<1>2. QED
  BY <1>1 DEF Armed, PreviewIsCurrent, ComingAnswerIsCurrent, Matches

\* A preview is asked for of a draft that no earlier request is for.
LEMMA ArmedAfresh ==
  ASSUME DraftInv, Armed, NEW d \in Draft, d.preview = None, draft' = d, NEW c \in Coordinator,
         Request(d, c), previewEpoch' = previewEpoch, coordinator.epoch <= c.epoch,
         \A r \in requests :
            \/ r.previewEpoch # previewEpoch \/ r.instance # d.instance \/ r.generation # d.generation
            \/ coordinator.epoch < c.epoch
  PROVE  Armed'
<1> DEFINE new == [epoch |-> c.epoch, previewEpoch |-> previewEpoch, instance |-> d.instance,
                   generation |-> d.generation, content |-> d.content, expected |-> d.expected,
                   answer |-> None]
<1>1. coordinator.epoch \in Nat /\ c.epoch \in Nat /\ \A r \in requests : r.epoch \in Nat
  BY DEF DraftInv, DraftType, Coordinator, PreviewRequest
<1>2. requests' = requests \cup {new} /\ coordinator' = [c EXCEPT !.latest = d.generation]
  BY DEF Request
<1>3. coordinator'.epoch = c.epoch
  BY <1>2 DEF Coordinator
<1>4. \A r \in requests : r.epoch <= coordinator.epoch
  BY DEF Armed, ComingAnswerIsCurrent
<1>5. new.epoch = c.epoch /\ new.answer = None /\ c.epoch <= c.epoch
  BY <1>1
<1>6. ComingAnswerIsCurrent(new)'
  BY <1>3, <1>5 DEF ComingAnswerIsCurrent
<1>7. ASSUME NEW r \in requests
      PROVE  ComingAnswerIsCurrent(r)'
  <2>1. r.epoch <= coordinator'.epoch
    BY <1>1, <1>3, <1>4
  <2>2. coordinator.epoch < c.epoch => r.epoch # coordinator'.epoch
    BY <1>1, <1>3, <1>4
  <2>3. QED
    BY <2>1, <2>2 DEF ComingAnswerIsCurrent, Accepts, Matches
<1>8. PreviewIsCurrent'
  BY DEF PreviewIsCurrent
<1>9. QED
  BY <1>2, <1>6, <1>7, <1>8 DEF Armed

\* The queue's answers: the draft they leave is d, which shows no newer preview than the one on screen.
LEMMA ArmedFolded ==
  ASSUME IInv, VersionInv, op.phase = "run", NEW d, SameDraft(d),
         d # None /\ d.preview # None => d.preview = draft.preview,
         NEW c \in {coordinator, Invalidated(coordinator)}, Folded(d, c),
         UNCHANGED <<nextInstance, previewEpoch>>
  PROVE  Armed'
<1>1. DraftInv /\ Armed /\ coordinator \in Coordinator /\ c \in Coordinator
  BY DraftStays, InvalidatedType DEF IInv, VersionInv
<1>2. /\ coordinator.epoch \in Nat /\ Invalidated(c).epoch = c.epoch + 1
      /\ c.epoch = coordinator.epoch \/ c.epoch = coordinator.epoch + 1
  BY <1>1 DEF Invalidated, Coordinator
<1>3. CASE op.reply.applied /\ d # None /\ busy = None
  <2>1. draft' = Refreshed(d) /\ Request(Refreshed(d), Invalidated(c))
    BY <1>3 DEF Folded
  <2>2. d \in Draft /\ d.generation + 1 \in Nat
    BY <1>3 DEF SameDraft, Draft
  <2>3. \A n \in Nat : LET x == [d EXCEPT !.generation = n, !.pending = TRUE, !.preview = None]
                       IN  x \in Draft /\ x.preview = None
    BY <2>2 DEF Draft
  <2>4. Refreshed(d) \in Draft /\ Refreshed(d).preview = None
    BY <2>2, <2>3 DEF Refreshed
  <2>5. Invalidated(c) \in Coordinator
    BY <1>1, InvalidatedType
  <2>6. coordinator.epoch < Invalidated(c).epoch /\ coordinator.epoch <= Invalidated(c).epoch
    BY <1>2
  <2>7. QED
    BY <1>1, <2>1, <2>4, <2>5, <2>6, ArmedAfresh
<1>4. CASE op.reply.applied /\ ~(d # None /\ busy = None)
  <2>1. draft' = None \/ missed'
    BY <1>4 DEF Folded
  <2>2. OnlyInvalidated /\ requests' \subseteq requests
    BY <1>4 DEF Folded, OnlyInvalidated
  <2>3. QED
    BY <1>1, <2>1, <2>2, ArmedVoid
<1>5. CASE ~op.reply.applied
  <2>1. view'.ver = view.ver
    BY <1>5, VersionNumbers DEF Folded, Shown, IInv, VersionInv, EngineVersions, AnswersKeepVersion
  <2>2. draft' = d /\ OnlyInvalidated /\ requests' \subseteq requests
    BY <1>5 DEF Folded, OnlyInvalidated
  <2>3. missed => missed'
    BY <1>5 DEF Folded
  <2>4. QED
    BY <1>1, <2>1, <2>2, <2>3, ArmedKept DEF SameDraft
<1>6. QED
  BY <1>3, <1>4, <1>5

LEMMA ArmedUnderPlayer ==
  ASSUME EngineInv, DraftInv, Armed, Player
  PROVE  Armed'
<1>0. coordinator \in Coordinator /\ coordinator.epoch <= coordinator.epoch
  BY DEF DraftInv, DraftType, Coordinator
<1>1. CASE CreateDraft
  <2>1. /\ draft' = NewDraft(None, None, FALSE) /\ nextInstance' = nextInstance + 1
        /\ coordinator' = Invalidated(coordinator)
        /\ requests' = requests /\ previewEpoch' = previewEpoch
    BY <1>1 DEF CreateDraft
  <2>2. draft'.preview = None /\ draft'.instance = nextInstance
    BY <2>1 DEF NewDraft
  <2>3. \A r \in requests' : r.epoch <= coordinator'.epoch
    BY <2>1, EpochsKept DEF OnlyInvalidated
  <2>4. \A r \in requests' : ~Matches(r)'
    <3>1. ASSUME NEW r \in requests, r.previewEpoch = previewEpoch
          PROVE  r.instance # nextInstance
      <4>1. RequestOf(r) /\ r.instance \in Nat /\ nextInstance \in Nat
        BY DEF DraftInv, DraftType, PreviewRequest, RequestsKnowTheirDraft
      <4>2. QED
        BY <3>1, <4>1 DEF RequestOf
    <3>2. QED
      BY <2>1, <2>2, <3>1 DEF Matches
  <2>5. QED
    BY <2>2, <2>3, <2>4 DEF Armed, ComingAnswerIsCurrent, PreviewIsCurrent
<1>2. CASE OpenEdit \/ ReloadDraft
  <2>1. CASE ReloadDraft /\ Retired
    <3>1. /\ view' = view /\ requests' = requests /\ OnlyInvalidated /\ previewEpoch' = previewEpoch
          /\ draft # None /\ missed' = missed
      BY <2>1 DEF ReloadDraft, Retired, Shown, OnlyInvalidated
    <3>2. QED
      BY <2>1, <3>1, RetiredDraft, ArmedKept
  <2>2. CASE \E content \in Contents : Edits(content)
    <3>1. PICK content \in Contents : Edits(content)
      BY <2>2
    <3>2. view.rev \in Revision /\ content \in Waypoints
      BY DEF EngineInv, EngineType, Shape, Waypoints
    <3>3. PICK d \in Draft : /\ d = NewDraft(content, view.rev, TRUE)
                             /\ d.preview = None /\ d.instance = nextInstance
      BY <3>2, NewDraftType
    <3>inst. d.instance = nextInstance
      BY <3>3
    <3>4. draft' = d /\ Request(draft', coordinator) /\ previewEpoch' = previewEpoch
      BY <3>1, <3>3 DEF Edits
    <3>5. Request(d, coordinator)
      BY <3>4 DEF Request
    <3>6. ASSUME NEW r \in requests, r.previewEpoch = previewEpoch
          PROVE  r.instance # d.instance
      <4>1. RequestOf(r) /\ r.instance \in Nat /\ nextInstance \in Nat
        BY DEF DraftInv, DraftType, PreviewRequest, RequestsKnowTheirDraft
      <4>2. QED
        BY <3>inst, <3>6, <4>1 DEF RequestOf
    <3>7. QED
      BY <1>0, <3>3, <3>4, <3>5, <3>6, ArmedAfresh
  <2>3. QED
    BY <1>2, <2>1, <2>2 DEF OpenEdit, ReloadDraft
<1>3. CASE ChangeDraft
  <2>1. PICK content \in Contents : /\ draft' = Changed(draft, content)
                                    /\ Request(Changed(draft, content), coordinator)
    BY <1>3 DEF ChangeDraft
  <2>2. draft # None /\ draft \in Draft /\ previewEpoch' = previewEpoch
    BY <1>3 DEF ChangeDraft, DraftInv, DraftType
  <2>3. draft.generation + 1 \in Nat /\ content \in Waypoints /\ draft.generation \in Nat
    BY <2>2 DEF Draft, Waypoints
  <2>4. \A n \in Nat :
           LET x == [draft EXCEPT !.content = content, !.generation = n, !.pending = TRUE,
                                  !.preview = None]
           IN  x \in Draft /\ x.preview = None /\ x.instance = draft.instance /\ x.generation = n
    BY <2>2, <2>3 DEF Draft
  <2>5. PICK d \in Draft : /\ d = Changed(draft, content) /\ d.preview = None
                           /\ d.instance = draft.instance /\ d.generation = draft.generation + 1
    BY <2>3, <2>4 DEF Changed
  <2>6. ASSUME NEW r \in requests, r.previewEpoch = previewEpoch, r.instance = d.instance
        PROVE  r.generation # d.generation
    <3>1. RequestOf(r) /\ r.generation \in Nat
      BY DEF DraftInv, DraftType, PreviewRequest, RequestsKnowTheirDraft
    <3>2. r.generation <= draft.generation
      BY <2>2, <2>5, <2>6, <3>1 DEF RequestOf
    <3>3. QED
      BY <2>3, <2>5, <3>1, <3>2
  <2>7. QED
    BY <1>0, <2>1, <2>2, <2>5, <2>6, ArmedAfresh
<1>4. CASE CancelDraft
  <2>1. draft' = None /\ OnlyInvalidated /\ requests' = requests
    BY <1>4 DEF CancelDraft, OnlyInvalidated
  <2>2. QED
    BY <2>1, ArmedVoid
<1>5. CASE SaveDraft \/ Dispatch \/ StartExclusive \/ Reset
  <2>1. /\ view' = view /\ requests' = requests /\ OnlyInvalidated /\ previewEpoch' = previewEpoch
        /\ draft' = draft /\ missed' = missed
    BY <1>5 DEF SaveDraft, Dispatch, StartExclusive, Reset, Shown, OnlyInvalidated, draftVars
  <2>2. QED
    BY <2>1, ArmedKept
<1>6. CASE Reload
  <2>1. draft' = None /\ requests' = {}
    BY <1>6 DEF Reload
  <2>2. QED
    BY <2>1 DEF Armed, PreviewIsCurrent
<1>7. QED
  BY <1>1, <1>2, <1>3, <1>4, <1>5, <1>6 DEF Player

LEMMA ArmedUnderPreviews ==
  ASSUME EngineInv, DraftInv, VersionInv, Previews
  PROVE  Armed'
<1>0. Armed /\ (draft # None => draft \in Draft)
  BY DEF VersionInv, DraftInv, DraftType
<1>1. CASE EngineAnswersPreview
  <2>1. PICK r \in requests : /\ r.answer = None
                              /\ requests' = (requests \ {r}) \cup {[r EXCEPT !.answer = Preview(r)]}
    BY <1>1 DEF EngineAnswersPreview
  <2>2. PICK answered : answered = [r EXCEPT !.answer = Preview(r)]
    OBVIOUS
  <2>3. r \in PreviewRequest
    BY DEF DraftInv, DraftType
  <2>4. /\ answered.epoch = r.epoch /\ answered.generation = r.generation
        /\ answered.answer.ver = engine.ver
    BY <2>2, <2>3 DEF PreviewRequest, Preview
  <2>5. UNCHANGED <<view, draft, missed, coordinator, previewEpoch>>
    BY <1>1 DEF EngineAnswersPreview
  <2>6. \A x \in requests : ComingAnswerIsCurrent(x) /\ ComingAnswerIsCurrent(x)'
    BY <2>5 DEF VersionInv, Armed, ComingAnswerIsCurrent, Accepts, Matches
  <2>7. ComingAnswerIsCurrent(answered)'
    BY <2>4, <2>5, <2>6, VersionNumbers
       DEF VersionInv, EngineVersions, VersionsInOrder, ComingAnswerIsCurrent
  <2>8. PreviewIsCurrent'
    BY <2>5 DEF VersionInv, Armed, PreviewIsCurrent
  <2>9. QED
    BY <2>1, <2>2, <2>6, <2>7, <2>8 DEF Armed
<1>2. CASE PreviewArrives
  <2>1. PICK r \in requests :
            /\ r.answer # None /\ requests' = requests \ {r}
            /\ draft' = draft \/ (Matches(r) /\ draft' = SettledDraft(draft, r))
    BY <1>2 DEF PreviewArrives
  <2>2. UNCHANGED <<missed, coordinator, previewEpoch>> /\ view' = view
    BY <1>2 DEF PreviewArrives, Shown
  <2>3. CASE draft' = draft
    <3>1. QED
      BY <1>0, <2>1, <2>2, <2>3, ArmedKept DEF OnlyInvalidated, VersionInv, Armed, PreviewIsCurrent
  <2>4. CASE Matches(r) /\ draft' = SettledDraft(draft, r)
    <3>1. draft # None /\ draft \in Draft
      BY <1>0, <2>4 DEF Matches, VersionInv
    <3>2. CASE ~Accepts(r)
      <4>1. draft' = [draft EXCEPT !.pending = FALSE]
        BY <2>4, <3>1, <3>2 DEF SettledDraft, Draft
      <4>2. draft'.instance = draft.instance /\ draft'.generation = draft.generation
            /\ draft'.preview = draft.preview
        BY <3>1, <4>1 DEF Draft
      <4>3. QED
        BY <1>0, <2>1, <2>2, <3>1, <4>2, ArmedKept DEF OnlyInvalidated, VersionInv
    <3>3. CASE Accepts(r)
      <4>1. draft' = [draft EXCEPT !.pending = FALSE, !.preview = r.answer]
        BY <2>4, <3>3 DEF SettledDraft
      <4>2. draft'.instance = draft.instance /\ draft'.generation = draft.generation
            /\ draft'.preview = r.answer
        BY <3>1, <4>1 DEF Draft
      <4>3. ComingAnswerIsCurrent(r)
        BY DEF VersionInv, Armed
      <4>4. PreviewIsCurrent'
        BY <2>1, <2>2, <2>4, <3>3, <4>2, <4>3 DEF ComingAnswerIsCurrent, PreviewIsCurrent
      <4>5. ASSUME NEW x \in requests'
            PROVE  ComingAnswerIsCurrent(x)'
        <5>1. ComingAnswerIsCurrent(x)
          BY <2>1 DEF VersionInv, Armed
        <5>2. QED
          BY <2>2, <3>1, <4>2, <5>1 DEF ComingAnswerIsCurrent, Accepts, Matches
      <4>6. QED
        BY <4>4, <4>5 DEF Armed
    <3>4. QED
      BY <3>2, <3>3
  <2>5. QED
    BY <2>1, <2>3, <2>4
<1>3. CASE PreviewFails
  <2>1. /\ requests' \subseteq requests
        /\ draft' = draft \/ (draft # None /\ draft' = [draft EXCEPT !.pending = FALSE])
        /\ UNCHANGED <<missed, coordinator, previewEpoch>> /\ view' = view
    BY <1>3 DEF PreviewFails, Matches, Shown
  <2>2. \/ draft' = None
        \/ /\ draft # None /\ draft'.instance = draft.instance /\ draft'.generation = draft.generation
           /\ draft'.preview = draft.preview
    BY <1>0, <2>1 DEF Draft
  <2>3. QED
    BY <2>1, <2>2, ArmedKept DEF OnlyInvalidated, VersionInv
<1>4. QED
  BY <1>1, <1>2, <1>3 DEF Previews

LEMMA ArmedUnderServing ==
  ASSUME IInv, VersionInv, Serving
  PROVE  Armed'
<1>0. DraftInv /\ EngineInv /\ Armed /\ coordinator \in Coordinator
  BY DEF IInv, VersionInv, DraftInv, DraftType
<1>1. CASE SendHead \/ EngineRunsHead \/ DeadSettles \/ EndExclusive \/ EngineRestores
  <2>1. /\ view' = view /\ requests' = requests /\ OnlyInvalidated /\ previewEpoch' = previewEpoch
        /\ draft' = draft /\ missed' = missed
    BY <1>1 DEF SendHead, EngineRunsHead, DeadSettles, EndExclusive, EngineRestores, Shown,
                OnlyInvalidated, draftVars
  <2>2. QED
    BY <1>0, <2>1, ArmedKept
<1>2. CASE AnswerNeutral
  <2>1. /\ requests' = requests /\ OnlyInvalidated /\ previewEpoch' = previewEpoch
        /\ draft' = draft /\ missed' = missed
        /\ view' = View(engine) /\ op.phase = "run" /\ Head1.kind \in {"tick", "pause"}
    BY <1>2 DEF AnswerNeutral, Answered, Shown, OnlyInvalidated, draftVars
  <2>2. view'.ver = view.ver
    BY <1>0, <2>1, VersionNumbers DEF VersionInv, EngineVersions, AnswersKeepVersion
  <2>3. QED
    BY <1>0, <2>1, <2>2, ArmedKept
<1>3. CASE AnswerDispatch \/ AnswerSaveRefused
  <2>1. /\ Folded(draft, coordinator) /\ UNCHANGED <<nextInstance, previewEpoch>>
        /\ op.phase = "run"
    BY <1>3 DEF AnswerDispatch, AnswerSaveRefused, Answered
  <2>2. SameDraft(draft)
    BY <1>0, DraftStays
  <2>3. QED
    BY <2>1, <2>2, ArmedFolded
<1>4. CASE AnswerReset
  <2>1. /\ requests' = requests /\ OnlyInvalidated /\ previewEpoch' = previewEpoch
        /\ missed' = missed /\ view' = View(engine) /\ op.phase = "run"
        /\ draft' = None \/ (draft' = draft /\ ~op.reply.applied)
    BY <1>4 DEF AnswerReset, Answered, Shown, OnlyInvalidated
  <2>2. CASE draft' = None
    BY <1>0, <2>1, <2>2, ArmedVoid
  <2>3. CASE draft' = draft /\ ~op.reply.applied
    <3>1. view'.ver = view.ver
      BY <1>0, <2>1, <2>3, VersionNumbers DEF VersionInv, EngineVersions, AnswersKeepVersion
    <3>2. QED
      BY <1>0, <2>1, <2>3, <3>1, ArmedKept
  <2>4. QED
    BY <2>1, <2>2, <2>3
<1>5. CASE AnswerSaveApplied
  <2>1. op.phase = "run" /\ UNCHANGED <<nextInstance, previewEpoch>>
    BY <1>5 DEF AnswerSaveApplied, Answered
  <2>2. CASE SavedIsCurrent
    <3>1. Folded(None, Invalidated(coordinator)) /\ SameDraft(None)
      BY <1>0, <1>5, <2>2, DraftStays DEF AnswerSaveApplied
    <3>2. QED
      BY <2>1, <3>1, ArmedFolded
  <2>3. CASE ~SavedIsCurrent
    <3>1. PICK kept : kept = IF draft = None THEN None
                             ELSE [draft EXCEPT !.preview = None, !.pending = FALSE]
      OBVIOUS
    <3>2. Folded(kept, Invalidated(coordinator))
      BY <1>5, <2>3, <3>1 DEF AnswerSaveApplied
    <3>3. SameDraft(kept) /\ (kept # None => kept.preview = None)
      BY <1>0, <3>1 DEF SameDraft, DraftInv, DraftType, Draft
    <3>4. QED
      BY <2>1, <3>2, <3>3, ArmedFolded
  <2>4. QED
    BY <2>2, <2>3
<1>6. CASE HeadFails
  <2>1. /\ view' = view /\ requests' = requests /\ OnlyInvalidated /\ previewEpoch' = previewEpoch
        /\ missed' = missed
        /\ \/ draft' = draft
           \/ draft' = IF draft = None THEN None ELSE [draft EXCEPT !.pending = FALSE]
    BY <1>6 DEF HeadFails, OnlyInvalidated
  <2>2. \/ draft' = None
        \/ /\ draft # None /\ draft'.instance = draft.instance /\ draft'.generation = draft.generation
           /\ draft'.preview = draft.preview
    BY <1>0, <2>1 DEF DraftInv, DraftType, Draft
  <2>3. QED
    BY <1>0, <2>1, <2>2, ArmedKept
<1>7. CASE InstallRestored
  <2>1. draft' = None /\ OnlyInvalidated /\ requests' = requests
    BY <1>7 DEF InstallRestored, OnlyInvalidated
  <2>2. QED
    BY <1>0, <2>1, ArmedVoid
<1>8. QED
  BY <1>1, <1>2, <1>3, <1>4, <1>5, <1>6, <1>7 DEF Serving

LEMMA NextVersionInv ==
  ASSUME IInv, VersionInv, [Next]_vars
  PROVE  VersionInv'
<1>0. EngineInv /\ DraftInv /\ EngineVersions /\ Armed
  BY DEF IInv, VersionInv
<1>1. CASE Player
  BY <1>0, <1>1, VersionsUnderPlayer, ArmedUnderPlayer DEF VersionInv
<1>2. CASE Previews
  BY <1>0, <1>2, VersionsUnderTheRest, ArmedUnderPreviews DEF VersionInv
<1>3. CASE Serving
  BY <1>0, <1>3, VersionsUnderServing, ArmedUnderServing DEF VersionInv
<1>4. CASE AdmitTick \/ EngineRunsOrphan
  <2>1. /\ view' = view /\ requests' = requests /\ OnlyInvalidated /\ previewEpoch' = previewEpoch
        /\ draft' = draft /\ missed' = missed
    BY <1>4 DEF AdmitTick, EngineRunsOrphan, OnlyInvalidated, draftVars
  <2>2. Armed'
    BY <1>0, <2>1, ArmedKept
  <2>3. EngineVersions'
    BY <1>0, <1>4, VersionsUnderTheRest
  <2>4. QED
    BY <2>2, <2>3 DEF VersionInv
<1>5. CASE UNCHANGED vars
  <2>1. /\ view' = view /\ requests' = requests /\ OnlyInvalidated /\ previewEpoch' = previewEpoch
        /\ draft' = draft /\ missed' = missed /\ UNCHANGED <<engine, op, dead, queue>>
    BY <1>5 DEF vars, OnlyInvalidated, draftVars, engineVars, queueVars
  <2>2. Armed'
    BY <1>0, <2>1, ArmedKept
  <2>3. EngineVersions'
    BY <1>0, <2>1, VersionsInQueue
  <2>4. QED
    BY <2>2, <2>3 DEF VersionInv
<1>6. QED
  BY <1>1, <1>2, <1>3, <1>4, <1>5 DEF Next

\* The world that a runtime shows never runs ahead of the engine's, and every
\* answer that will be accepted for the draft is of a world no older than it.
THEOREM VersionInvHolds == Spec => []VersionInv
<1>1. Init => VersionInv
  <2>1. ASSUME Init
        PROVE  VersionInv
    <3>1. /\ view.ver = 0 /\ engine.ver = 0 /\ ~dead /\ op.phase = "idle"
          /\ requests = {} /\ draft = None
      BY <2>1 DEF Init, View, Idle
    <3>2. QED
      BY <3>1 DEF VersionInv, EngineVersions, VersionsInOrder, AnswersKeepVersion, Armed,
                  PreviewIsCurrent
  <2>2. QED
    BY <2>1
<1>2. QED
  BY <1>1, NextVersionInv, IInvHolds, PTL DEF Spec

\* Save is never armed by a preview of an older network than the one on screen,
\* but for a change that commitDispatchResult folded while an exclusive operation
\* was busy.
THEOREM SaveIsArmedByTheWorldOnScreen == Spec => []SaveArmedByCurrentPreview
<1>1. IInv /\ VersionInv => SaveArmedByCurrentPreview
  BY DEF VersionInv, Armed, PreviewIsCurrent, SaveArmedByCurrentPreview, CanSave
<1>2. QED
  BY <1>1, IInvHolds, VersionInvHolds, PTL
===============================================================================
