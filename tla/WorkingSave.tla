------------------------------ MODULE WorkingSave ------------------------------
(***************************************************************************)
(* The TypeScript runtime between the player, the Rust engine and the city *)
(* save store: src/runtime/workingSaveRuntime.ts (exclusive save, load,     *)
(* create, rename and delete), src/runtime/serializedQueue.ts (the gameplay *)
(* queue) and the part of src/runtime/createGameRuntime.ts that ties them   *)
(* together (queueBackend, failBackend, dispose, reset, saveRouteDraft).    *)
(*                                                                         *)
(* JavaScript runs one continuation at a time, so an action is the code     *)
(* between two awaits.  The backend and the store answer asynchronously: a  *)
(* request, its effect and the continuation that sees the answer are three  *)
(* steps, and everything else may happen between them.                      *)
(*                                                                         *)
(* A game world is abstracted to [city, ver]: the city it descends from and *)
(* a version that changes whenever a mutation is applied.                   *)
(*                                                                         *)
(* A definition commented "Fault:" is never part of the specification: it   *)
(* is the definition below it with a plausible bug, kept to show that a     *)
(* property tells the two apart.                                            *)
(***************************************************************************)
EXTENDS Naturals, Sequences

CONSTANTS
    Cities,       \* opaque city identifiers
    Names,        \* player-chosen city names
    Versions,     \* distinguishable contents of a game world
    None,         \* "null" / "undefined"
    MaxQueue,     \* bound on gameplay operations admitted at once
    LostReplies   \* TRUE: a route save may commit and then reject

ASSUME ConstantsAssumption ==
    /\ None \notin Cities \cup Names \cup Versions
    /\ MaxQueue \in Nat \ {0}
    /\ LostReplies \in BOOLEAN

VARIABLES
    engine,       \* the world the Rust GameEngine holds
    store,        \* city -> stored record, or None
    view,         \* the world the runtime last folded into `state`
    activeCity,   \* summary of the city being played, or None
    dirty,        \* unsaved changes
    dead,         \* runtime failed or disposed
    queue,        \* admitted gameplay operations, the head is served
    op,           \* progress of the head operation
    pc,           \* await the exclusive operation is suspended at
    answer,       \* answer to the request it awaits
    job,          \* locals of the exclusive operation
    drainLeft     \* operations admitted before it and not yet settled

vars == <<engine, store, view, activeCity, dirty, dead, queue, op,
          pc, answer, job, drainLeft>>

gameplayVars == <<queue, op>>
exclusiveVars == <<pc, answer, job, drainLeft>>

World == [city : Cities \cup {None}, ver : Versions]
Record == [name : Names, snap : World]
Summary == [id : Cities, name : Names]

ASSUME NoneIsNotData == None \notin World \cup Record \cup Summary

OpKinds == {"dispatch", "reset", "updateRoute", "createRoute", "deploy"}
JobKinds == {"save", "load", "create", "rename", "delete"}
Job == [kind : JobKinds \cup {"none"}, city : Cities \cup {None},
        name : Names \cup {None}, snap : World \cup {None}]
NoJob == [kind |-> "none", city |-> None, name |-> None, snap |-> None]

Busy == pc # "idle"

TypeOK ==
    /\ engine \in World
    /\ store \in [Cities -> Record \cup {None}]
    /\ view \in World
    /\ activeCity \in Summary \cup {None}
    /\ dirty \in BOOLEAN
    /\ dead \in BOOLEAN
    /\ queue \in Seq(OpKinds)
    /\ op \in {"idle", "sent", "applied", "unchanged", "threw"}
    /\ pc \in {"idle", "drain", "capture", "read", "build", "store", "restore"}
    /\ answer \in {"none", "ok", "error", "threw"}
    /\ job \in Job
    /\ drainLeft \in Nat

Init ==
    /\ engine \in [city : {None}, ver : Versions]
    /\ store = [c \in Cities |-> None]
    /\ view = engine
    /\ activeCity = None
    /\ dirty = FALSE
    /\ dead = FALSE
    /\ queue = <<>>
    /\ op = "idle"
    /\ pc = "idle"
    /\ answer = "none"
    /\ job = NoJob
    /\ drainLeft = 0

-----------------------------------------------------------------------------
(* Gameplay queue.                                                          *)

\* Fault: markDirty is not called for an applied update.
NeverMarked == dirty

\* markDirty: only a city can have unsaved changes.
MarkedDirty == dirty \/ activeCity # None

\* queueBackend refuses while an exclusive operation is busy, enqueue when dead.
Enqueue(kind) ==
    /\ ~dead
    /\ ~Busy
    /\ Len(queue) < MaxQueue
    /\ queue' = Append(queue, kind)
    /\ UNCHANGED <<engine, store, view, activeCity, dirty, dead, op, exclusiveVars>>

\* Fault: the tail of the queue is not advanced.
SettleWithoutTail ==
    /\ queue' = Tail(queue)
    /\ op' = "idle"
    /\ UNCHANGED <<drainLeft, pc, answer, job>>

\* The head operation settles: its promise resolves and the tail advances.
SettleOp ==
    /\ queue' = Tail(queue)
    /\ op' = "idle"
    /\ drainLeft' = IF drainLeft > 0 THEN drainLeft - 1 ELSE 0
    /\ UNCHANGED <<pc, answer, job>>

\* Fault: a dead runtime leaves its admitted operations unresolved.
StartOpAlive ==
    /\ queue # <<>>
    /\ op = "idle"
    /\ ~dead
    /\ op' = "sent"
    /\ UNCHANGED <<engine, store, view, activeCity, dirty, dead, queue, exclusiveVars>>

\* The queue reaches an operation; liveness is read again before it runs.
StartOp ==
    /\ queue # <<>>
    /\ op = "idle"
    /\ IF dead
       THEN SettleOp
       ELSE op' = "sent" /\ UNCHANGED <<queue, exclusiveVars>>
    /\ UNCHANGED <<engine, store, view, activeCity, dirty, dead>>

\* The backend executes dispatch, tick or reset and answers.  A rejected call
\* may have committed first; a route save reports that only if LostReplies.
BackendMutates ==
    /\ op = "sent"
    /\ \E v \in Versions \ {engine.ver} :
          /\ engine' = [engine EXCEPT !.ver = v]
          /\ \/ op' = "applied"
             \/ /\ \/ LostReplies
                   \/ Head(queue) \in {"dispatch", "reset"}
                /\ op' = "threw"
    /\ UNCHANGED <<store, view, activeCity, dirty, dead, queue, exclusiveVars>>

\* No-op, rejected intent, failed reset, or a call that fails before commit.
BackendDeclines ==
    /\ op = "sent"
    /\ op' \in {"unchanged", "threw"}
    /\ UNCHANGED <<engine, store, view, activeCity, dirty, dead, queue, exclusiveVars>>

\* The continuation of an applied operation folds the update and marks dirty.
\* An applied create that added one line dispatches its initial fleet inside
\* the same operation.
FoldApplied ==
    /\ op = "applied"
    /\ view' = engine
    /\ dirty' = MarkedDirty
    /\ \/ /\ Head(queue) = "createRoute"
          /\ queue' = <<"deploy">> \o Tail(queue)
          /\ op' = "sent"
          /\ UNCHANGED exclusiveVars
       \/ SettleOp
    /\ UNCHANGED <<engine, store, activeCity, dead>>

FoldUnchanged ==
    /\ op = "unchanged"
    /\ SettleOp
    /\ UNCHANGED <<engine, store, view, activeCity, dirty, dead>>

\* A thrown backend call is fatal, except in a route save whose draft has been
\* superseded: its handler then drops the error and keeps the runtime alive.
FoldThrown ==
    /\ op = "threw"
    /\ dead' \in IF Head(queue) \in {"dispatch", "reset"}
                 THEN {TRUE} ELSE {TRUE, dead}
    /\ SettleOp
    /\ UNCHANGED <<engine, store, view, activeCity, dirty>>

\* dispose(), or failBackend on a lost GPU device.
Die ==
    /\ ~dead
    /\ dead' = TRUE
    /\ UNCHANGED <<engine, store, view, activeCity, dirty, gameplayVars, exclusiveVars>>

Gameplay ==
    \/ \E kind \in OpKinds \ {"deploy"} : Enqueue(kind)
    \/ StartOp
    \/ BackendMutates
    \/ BackendDeclines
    \/ FoldApplied
    \/ FoldUnchanged
    \/ FoldThrown
    \/ Die

-----------------------------------------------------------------------------
(* Exclusive operations.                                                    *)

\* Fault: the body starts without waiting for admitted gameplay.
NoDrain == 0

\* awaitGameplayIdle: the operations admitted so far.
Admitted == Len(queue)

\* runExclusive: refused when dead or busy; otherwise busy and draining.
Call(kind, c, n) ==
    /\ ~dead
    /\ ~Busy
    /\ pc' = "drain"
    /\ drainLeft' = Admitted
    /\ job' = [NoJob EXCEPT !.kind = kind, !.city = c, !.name = n]
    /\ UNCHANGED <<engine, store, view, activeCity, dirty, dead, gameplayVars, answer>>

\* The finally block: the gate is released whatever the result.
Release ==
    /\ pc' = "idle"
    /\ answer' = "none"
    /\ job' = NoJob
    /\ drainLeft' = 0

\* Suspend the operation at its next await.
Await(stage) ==
    /\ pc' = stage
    /\ answer' = "none"
    /\ UNCHANGED drainLeft

\* Fault: load and createCity forget the second look at `dirty`.
RefuseNothing == FALSE

\* A tick drained while the operation waited may have dirtied the city.
RefuseUnsaved == dirty

\* drain() resolved: check liveness, then run the body up to its first await.
Drained ==
    /\ pc = "drain"
    /\ drainLeft = 0
    /\ CASE dead -> Release
         [] ~dead /\ job.kind = "save" ->
              IF activeCity = None
              THEN Release
              ELSE Await("capture") /\ job' = [job EXCEPT !.city = activeCity.id]
         [] ~dead /\ job.kind = "load" ->
              IF RefuseUnsaved THEN Release ELSE Await("read") /\ UNCHANGED job
         [] ~dead /\ job.kind = "create" ->
              IF RefuseUnsaved THEN Release ELSE Await("build") /\ UNCHANGED job
         [] OTHER -> Await("store") /\ UNCHANGED job
    /\ UNCHANGED <<engine, store, view, activeCity, dirty, dead, gameplayVars>>

\* Requests that only read: snapshotForSave, readCity, buildSandboxSnapshot.
AnswerQuery ==
    /\ answer = "none"
    /\ \/ /\ pc = "capture"
          /\ job' = [job EXCEPT !.snap = engine]
          /\ answer' = "ok"
       \/ /\ pc = "read"
          /\ store[job.city] # None
          /\ job' = [job EXCEPT !.name = store[job.city].name,
                                !.snap = store[job.city].snap]
          /\ answer' = "ok"
       \/ /\ pc = "build"
          /\ \E v \in Versions :
                job' = [job EXCEPT !.snap = [city |-> job.city, ver |-> v]]
          /\ answer' = "ok"
       \/ /\ pc \in {"capture", "read", "build"}
          /\ answer' = "error"
          /\ UNCHANGED job
    /\ UNCHANGED <<engine, store, view, activeCity, dirty, dead, gameplayVars,
                   pc, drainLeft>>

\* The store commits and answers, or fails and commits nothing
\* (notFound, conflict, failed): the contract of CitySaveStore.
StoreResult(kind, c) ==
    CASE kind = "save"   -> [store EXCEPT ![c] = [@ EXCEPT !.snap = job.snap]]
      [] kind = "create" -> [store EXCEPT ![c] = [name |-> job.name, snap |-> job.snap]]
      [] kind = "rename" -> [store EXCEPT ![c] = [@ EXCEPT !.name = job.name]]
      [] OTHER           -> [store EXCEPT ![c] = None]

AnswerStore ==
    /\ pc = "store"
    /\ answer = "none"
    /\ \/ /\ (store[job.city] = None) <=> (job.kind = "create")
          /\ store' = StoreResult(job.kind, job.city)
          /\ answer' = "ok"
       \/ /\ answer' = "error"
          /\ UNCHANGED store
    /\ UNCHANGED <<engine, view, activeCity, dirty, dead, gameplayVars,
                   pc, job, drainLeft>>

\* restoreSnapshot: ok commits, error does not, a thrown call is ambiguous.
AnswerRestore ==
    /\ pc = "restore"
    /\ answer = "none"
    /\ \/ engine' = job.snap /\ answer' \in {"ok", "threw"}
       \/ UNCHANGED engine /\ answer' \in {"error", "threw"}
    /\ UNCHANGED <<store, view, activeCity, dirty, dead, gameplayVars,
                   pc, job, drainLeft>>

\* Any failed request before restore ends the operation with its error.
ResumeFailed ==
    /\ pc \in {"capture", "read", "build", "store"}
    /\ answer = "error"
    /\ Release
    /\ UNCHANGED <<engine, store, view, activeCity, dirty, dead, gameplayVars>>

\* A captured or built snapshot goes to the store; liveness is not read here.
ResumeToStore ==
    /\ pc \in {"capture", "build"}
    /\ answer = "ok"
    /\ Await("store")
    /\ UNCHANGED <<engine, store, view, activeCity, dirty, dead, gameplayVars, job>>

\* restoreAndInstall checks liveness before it asks the backend.
ResumeToRestore ==
    /\ \/ pc = "read"
       \/ pc = "store" /\ job.kind = "create"
    /\ answer = "ok"
    /\ IF dead THEN Release ELSE Await("restore") /\ UNCHANGED job
    /\ UNCHANGED <<engine, store, view, activeCity, dirty, dead, gameplayVars>>

\* save, rename and delete finish: nothing is assigned once the runtime died.
JobSummary == [id |-> job.city, name |-> job.name]

JobIsActive == activeCity # None /\ activeCity.id = job.city

\* Fault: renaming the active city leaves its old summary.
ActiveKeepsOldName ==
    CASE dead -> activeCity
      [] ~dead /\ job.kind = "save" ->
           [id |-> job.city, name |-> store[job.city].name]
      [] ~dead /\ job.kind = "delete" /\ JobIsActive -> None
      [] OTHER -> activeCity

ActiveAfterStore ==
    CASE dead -> activeCity
      [] ~dead /\ job.kind = "save" ->
           [id |-> job.city, name |-> store[job.city].name]
      [] ~dead /\ job.kind = "rename" /\ JobIsActive -> JobSummary
      [] ~dead /\ job.kind = "delete" /\ JobIsActive -> None
      [] OTHER -> activeCity

ResumeStored ==
    /\ pc = "store"
    /\ job.kind # "create"
    /\ answer = "ok"
    /\ activeCity' = ActiveAfterStore
    /\ dirty' = IF ~dead /\ (job.kind = "save" \/ (job.kind = "delete" /\ JobIsActive))
                THEN FALSE ELSE dirty
    /\ Release
    /\ UNCHANGED <<engine, store, view, dead, gameplayVars>>

\* Fault: a thrown restore keeps the city it may have replaced.
ForgetNothing == UNCHANGED <<activeCity, dirty, view>>

\* load and create finish.  A thrown restore or install forgets the city.
Forget == activeCity' = None /\ dirty' = FALSE /\ UNCHANGED view

ResumeRestored ==
    /\ pc = "restore"
    /\ answer # "none"
    /\ IF dead \/ answer = "error"
       THEN UNCHANGED <<view, activeCity, dirty>>
       ELSE \/ Forget
            \/ /\ answer = "ok"
               /\ view' = engine
               /\ activeCity' = JobSummary
               /\ dirty' = FALSE
    /\ Release
    /\ UNCHANGED <<engine, store, dead, gameplayVars>>

\* The controller's five operations; a new city's id is chosen by the runtime.
CallAny ==
    \/ Call("save", None, None)
    \/ \E c \in Cities :
          \/ \E kind \in {"load", "delete"} : Call(kind, c, None)
          \/ \E n \in Names, kind \in {"create", "rename"} : Call(kind, c, n)

Exclusive ==
    \/ CallAny
    \/ Drained
    \/ AnswerQuery
    \/ AnswerStore
    \/ AnswerRestore
    \/ ResumeFailed
    \/ ResumeToStore
    \/ ResumeToRestore
    \/ ResumeStored
    \/ ResumeRestored

Next == Gameplay \/ Exclusive

Spec == Init /\ [][Next]_vars

\* JavaScript runs every continuation that is ready, and the engine and the
\* store answer every request.  Nothing makes the player call an operation.
Fairness ==
    /\ WF_vars(StartOp)
    /\ WF_vars(BackendMutates \/ BackendDeclines)
    /\ WF_vars(FoldApplied \/ FoldUnchanged \/ FoldThrown)
    /\ WF_vars(Drained)
    /\ WF_vars(AnswerQuery \/ AnswerStore \/ AnswerRestore)
    /\ WF_vars(ResumeFailed \/ ResumeToStore \/ ResumeToRestore
                 \/ ResumeStored \/ ResumeRestored)

FairSpec == Spec /\ Fairness

-----------------------------------------------------------------------------
(* Properties.                                                              *)

\* A record is never overwritten with another city's world, whatever the
\* order of saves, loads, thrown restores and a runtime that dies half-way
\* (the null-out in restoreAndInstall exists for this).
LineagePreserved ==
    \A c \in Cities : store[c] # None => store[c].snap.city = c

\* A live runtime shows what the store holds, outside the window in which a request is
\* replacing one of them: the active city's record has the name on display, and a city
\* shown as saved is saved - engine, view and record agree (markDirty, and the
\* assignments of `dirty` and activeCity in workingSaveRuntime).
InFlight == pc \in {"store", "restore"} \/ op \in {"applied", "threw"}

CleanMeansSaved ==
    ~dead /\ activeCity # None /\ ~InFlight =>
        /\ store[activeCity.id] # None
        /\ store[activeCity.id].name = activeCity.name
        /\ ~dirty => store[activeCity.id].snap = engine /\ view = engine

\* The busy gate and the drain of runExclusive together keep every gameplay
\* request away from the engine while the body of an exclusive operation runs.
BodyRunsAlone ==
    pc \notin {"idle", "drain"} => queue = <<>> /\ op = "idle"

\* A restore never throws away unsaved progress of the active city: load and
\* createCity check `dirty` after the drain, and nothing dirties it afterwards.
NoSilentDiscard ==
    [][ pc = "restore" /\ engine' # engine /\ activeCity # None =>
          /\ store[activeCity.id] # None
          /\ store[activeCity.id].snap = engine ]_vars

\* The busy gate always opens again: admitted gameplay settles, requests are answered,
\* and the finally block of runExclusive releases it.  What a runtime that failed or
\* was disposed still holds in its queue settles for its callers.
ExclusiveSettles ==
    /\ Busy ~> ~Busy
    /\ dead ~> (queue = <<>> /\ pc = "idle")

-----------------------------------------------------------------------------
(* The inductive invariant behind LineagePreserved and BodyRunsAlone.       *)

\* drainLeft counts down exactly the operations admitted before the call, so
\* the body starts with an empty queue.
Gate ==
    /\ BodyRunsAlone
    /\ queue = <<>> => op = "idle"
    /\ pc = "drain" => drainLeft = Len(queue)

\* What the suspended operation holds at each await.
HasCity == job.city \in Cities
HasName == job.name \in Names
HasSnap == job.snap \in World /\ job.snap.city = job.city

JobShape ==
    /\ pc # "idle" => job.kind \in JobKinds
    /\ pc # "idle" /\ job.kind # "save" => HasCity
    /\ pc \notin {"idle", "drain"} => HasCity
    /\ pc # "idle" /\ job.kind \in {"create", "rename"} => HasName
    /\ pc = "capture" => job.kind = "save"
    /\ pc = "read" => job.kind = "load"
    /\ pc = "build" => job.kind = "create"
    /\ pc = "store" => job.kind # "load"
    /\ pc \in {"capture", "read", "build"} /\ answer = "ok" => HasSnap
    /\ pc = "read" /\ answer = "ok" => HasName
    /\ pc = "store" /\ job.kind \in {"save", "create"} => HasSnap
    /\ pc = "store" /\ job.kind = "save" /\ answer = "ok" => store[job.city] # None
    /\ pc = "restore" => HasSnap /\ HasName /\ job.kind \in {"load", "create"}

\* The engine descends from the active city, except while a restore whose
\* answer has not been folded may already have replaced its world.
Replaced == pc = "restore" /\ answer \in {"ok", "threw"}

Descent ==
    /\ ~dead /\ activeCity # None /\ ~Replaced => engine.city = activeCity.id
    /\ pc = "capture" => engine.city = job.city
    /\ ~dead /\ pc \in {"capture", "store"} /\ job.kind = "save" =>
          activeCity # None /\ activeCity.id = job.city
    /\ pc = "restore" /\ answer = "ok" => engine = job.snap

IInv ==
    /\ TypeOK
    /\ Gate
    /\ JobShape
    /\ Descent
    /\ LineagePreserved
=============================================================================
