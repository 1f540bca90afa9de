--------------------------- MODULE WorkingSave_proofs ---------------------------
(***************************************************************************)
(* Proofs about WorkingSave, for every set of cities, names and versions    *)
(* and every queue bound.  That no city overwrites another and that nothing *)
(* runs beside an exclusive operation holds with and without lost replies;  *)
(* that what is shown as saved is saved, and that a restore loses nothing,  *)
(* only as long as no reply is lost.                                        *)
(***************************************************************************)
EXTENDS WorkingSave, TLAPS

\* Every initial state satisfies the inductive invariant.
LEMMA InitIInv == Init => IInv
<1> SUFFICES ASSUME Init PROVE IInv
  OBVIOUS
<1> USE ConstantsAssumption DEF Init
<1>1. TypeOK
  <2>1. engine \in World /\ job \in Job
    BY DEF World, Job, NoJob
  <2>2. store \in [Cities -> Record \cup {None}] /\ activeCity \in Summary \cup {None}
    OBVIOUS
  <2>3. dirty \in BOOLEAN /\ dead \in BOOLEAN
    BY Zenon
  <2>4. queue \in Seq(OpKinds) /\ drainLeft \in Nat
    OBVIOUS
  <2>5. QED
    BY <2>1, <2>2, <2>3, <2>4 DEF TypeOK
<1>2. Gate
  BY DEF Gate, BodyRunsAlone
<1>3. JobShape
  BY DEF JobShape
<1>4. Descent
  BY DEF Descent, Replaced
<1>5. LineagePreserved
  BY DEF LineagePreserved
<1>6. QED
  BY <1>1, <1>2, <1>3, <1>4, <1>5 DEF IInv

\* A settled operation leaves the queue and is counted off the drain.
LEMMA SettleGate ==
  ASSUME TypeOK, Gate, queue # <<>>, SettleOp
  PROVE  /\ queue' \in Seq(OpKinds)
         /\ drainLeft' \in Nat
         /\ Gate'
<1>1. queue \in Seq(OpKinds) /\ drainLeft \in Nat
  BY DEF TypeOK
<1>2. queue' \in Seq(OpKinds) /\ Len(queue') = Len(queue) - 1 /\ Len(queue) \in Nat \ {0}
  BY <1>1 DEF SettleOp
<1>3. drainLeft' \in Nat /\ (pc = "drain" => drainLeft' = Len(queue'))
  <2>1. drainLeft' = IF drainLeft > 0 THEN drainLeft - 1 ELSE 0
    BY DEF SettleOp
  <2>2. pc = "drain" => drainLeft = Len(queue)
    BY DEF Gate
  <2>3. QED
    BY <1>1, <1>2, <2>1, <2>2
<1>4. pc \in {"idle", "drain"}
  BY DEF TypeOK, Gate, BodyRunsAlone
<1>5. QED
  BY <1>2, <1>3, <1>4 DEF Gate, BodyRunsAlone, SettleOp

\* Gameplay steps preserve it: they run only outside the body of an exclusive
\* operation and change the version of a world, never its city.
LEMMA GameplayIInv == IInv /\ Gameplay => IInv'
<1> SUFFICES ASSUME IInv, Gameplay PROVE IInv'
  OBVIOUS
<1> USE ConstantsAssumption
<1>0. TypeOK /\ Gate /\ JobShape /\ Descent /\ LineagePreserved
  BY DEF IInv
<1>1. ASSUME NEW kind \in OpKinds \ {"deploy"}, Enqueue(kind) PROVE IInv'
  <2>1. TypeOK'
    BY <1>0, <1>1 DEF TypeOK, Enqueue, exclusiveVars, Busy
  <2>2. Gate'
    BY <1>0, <1>1 DEF TypeOK, Gate, BodyRunsAlone, Enqueue, exclusiveVars, Busy
  <2>3. JobShape' /\ Descent' /\ LineagePreserved'
    BY <1>0, <1>1 DEF JobShape, HasCity, HasName, HasSnap, Descent, Replaced,
         LineagePreserved, Enqueue, exclusiveVars, Busy
  <2>4. QED
    BY <2>1, <2>2, <2>3 DEF IInv
<1>2. ASSUME StartOp PROVE IInv'
  <2>1. TypeOK'
    BY <1>0, <1>2 DEF TypeOK, StartOp, SettleOp, exclusiveVars
  <2>2. Gate'
    BY <1>0, <1>2 DEF TypeOK, Gate, BodyRunsAlone, StartOp, SettleOp, exclusiveVars
  <2>3. JobShape' /\ Descent' /\ LineagePreserved'
    BY <1>0, <1>2 DEF JobShape, HasCity, HasName, HasSnap, Descent, Replaced,
         LineagePreserved, StartOp, SettleOp, exclusiveVars
  <2>4. QED
    BY <2>1, <2>2, <2>3 DEF IInv
<1>3. ASSUME BackendMutates PROVE IInv'
  <2>1. TypeOK'
    BY <1>0, <1>3 DEF TypeOK, World, BackendMutates, exclusiveVars
  <2>2. Gate'
    BY <1>0, <1>3 DEF Gate, BodyRunsAlone, BackendMutates, exclusiveVars
  <2>3. engine'.city = engine.city /\ pc \in {"idle", "drain"}
    BY <1>0, <1>3 DEF TypeOK, World, Gate, BodyRunsAlone, BackendMutates
  <2>4. JobShape' /\ Descent' /\ LineagePreserved'
    BY <1>0, <1>3, <2>3 DEF JobShape, HasCity, HasName, HasSnap, Descent, Replaced,
         LineagePreserved, BackendMutates, exclusiveVars
  <2>5. QED
    BY <2>1, <2>2, <2>4 DEF IInv
<1>4. ASSUME BackendDeclines PROVE IInv'
  <2>1. TypeOK' /\ Gate'
    BY <1>0, <1>4 DEF TypeOK, Gate, BodyRunsAlone, BackendDeclines, exclusiveVars
  <2>2. JobShape' /\ Descent' /\ LineagePreserved'
    BY <1>0, <1>4 DEF JobShape, HasCity, HasName, HasSnap, Descent, Replaced,
         LineagePreserved, BackendDeclines, exclusiveVars
  <2>3. QED
    BY <2>1, <2>2 DEF IInv
<1>5. ASSUME FoldApplied PROVE IInv'
  <2>0. queue # <<>>
    BY <1>0, <1>5 DEF Gate, FoldApplied
  <2>a. queue' \in Seq(OpKinds) /\ drainLeft' \in Nat /\ Gate'
    <3>1. CASE SettleOp
      BY <1>0, <2>0, <3>1, SettleGate
    <3>2. CASE queue' = <<"deploy">> \o Tail(queue) /\ op' = "sent" /\ UNCHANGED exclusiveVars
      <4>1. queue \in Seq(OpKinds) /\ Len(queue) \in Nat \ {0}
        BY <1>0, <2>0 DEF TypeOK
      <4>2. Tail(queue) \in Seq(OpKinds) /\ <<"deploy">> \in Seq(OpKinds)
        BY <4>1 DEF OpKinds
      <4>3. queue' \in Seq(OpKinds) /\ Len(queue') = Len(queue)
        BY <3>2, <4>1, <4>2
      <4>4. QED
        BY <1>0, <2>0, <3>2, <4>1, <4>3 DEF TypeOK, Gate, BodyRunsAlone, exclusiveVars
    <3>3. QED
      BY <1>5, <3>1, <3>2 DEF FoldApplied
  <2>b. dirty' \in BOOLEAN
    BY <1>5 DEF FoldApplied, MarkedDirty
  <2>1. TypeOK'
    BY <1>0, <1>5, <2>a, <2>b DEF TypeOK, FoldApplied, SettleOp, exclusiveVars
  <2>2. Gate'
    BY <2>a
  <2>3. JobShape' /\ Descent' /\ LineagePreserved'
    BY <1>0, <1>5 DEF JobShape, HasCity, HasName, HasSnap, Descent, Replaced,
         LineagePreserved, FoldApplied, SettleOp, exclusiveVars
  <2>4. QED
    BY <2>1, <2>2, <2>3 DEF IInv
<1>6. ASSUME FoldUnchanged \/ FoldThrown PROVE IInv'
  <2>0. queue # <<>> /\ SettleOp
    BY <1>0, <1>6 DEF Gate, FoldUnchanged, FoldThrown
  <2>a. queue' \in Seq(OpKinds) /\ drainLeft' \in Nat /\ Gate'
    BY <1>0, <2>0, SettleGate
  <2>b. dead' \in BOOLEAN
    <3>1. dead' = dead \/ dead' = TRUE
      BY <1>6 DEF FoldUnchanged, FoldThrown
    <3>2. QED
      BY <1>0, <3>1 DEF TypeOK
  <2>1. TypeOK'
    BY <1>0, <1>6, <2>0, <2>a, <2>b DEF TypeOK, FoldUnchanged, FoldThrown, SettleOp
  <2>2. Gate'
    BY <2>a
  <2>3. JobShape' /\ Descent' /\ LineagePreserved'
    BY <1>0, <1>6 DEF TypeOK, JobShape, HasCity, HasName, HasSnap, Descent, Replaced,
         LineagePreserved, FoldUnchanged, FoldThrown, SettleOp
  <2>4. QED
    BY <2>1, <2>2, <2>3 DEF IInv
<1>7. ASSUME Die PROVE IInv'
  <2>1. TypeOK' /\ Gate'
    BY <1>0, <1>7 DEF TypeOK, Gate, BodyRunsAlone, Die, gameplayVars, exclusiveVars
  <2>2. JobShape' /\ Descent' /\ LineagePreserved'
    BY <1>0, <1>7 DEF JobShape, HasCity, HasName, HasSnap, Descent, Replaced,
         LineagePreserved, Die, gameplayVars, exclusiveVars
  <2>3. QED
    BY <2>1, <2>2 DEF IInv
<1>8. QED
  BY <1>1, <1>2, <1>3, <1>4, <1>5, <1>6, <1>7 DEF Gameplay

\* Calling an operation raises the gate and counts the operations to drain.
LEMMA CallIInv ==
  ASSUME IInv, NEW kind \in JobKinds, NEW c \in Cities \cup {None},
         NEW n \in Names \cup {None}, Call(kind, c, n),
         kind # "save" => c \in Cities,
         kind \in {"create", "rename"} => n \in Names
  PROVE  IInv'
<1>0. TypeOK /\ Gate /\ JobShape /\ Descent /\ LineagePreserved
  BY DEF IInv
<1>1. job' = [kind |-> kind, city |-> c, name |-> n, snap |-> None]
  BY DEF Call, NoJob
<1>2. TypeOK'
  BY <1>0, <1>1 DEF TypeOK, Job, Call, Admitted, gameplayVars
<1>3. Gate'
  BY <1>0 DEF Gate, BodyRunsAlone, Call, Admitted, gameplayVars
<1>4. JobShape'
  BY <1>1 DEF JobShape, HasCity, HasName, Call
<1>5. Descent' /\ LineagePreserved'
  BY <1>0 DEF Descent, Replaced, LineagePreserved, Call, Busy, gameplayVars
<1>6. QED
  BY <1>2, <1>3, <1>4, <1>5 DEF IInv

\* The body of an operation preserves it: every world that reaches the store
\* under a city's id descends from that city.
LEMMA ExclusiveIInv == IInv /\ Exclusive => IInv'
<1> SUFFICES ASSUME IInv, Exclusive PROVE IInv'
  OBVIOUS
<1> USE ConstantsAssumption
<1>0. TypeOK /\ Gate /\ JobShape /\ Descent /\ LineagePreserved
  BY DEF IInv
<1>1. CASE CallAny
  BY <1>1, CallIInv DEF CallAny, JobKinds
<1>2. CASE Drained
  <2>1. TypeOK'
    BY <1>0, <1>2 DEF TypeOK, Job, NoJob, Summary, Drained, Release, Await, gameplayVars
  <2>2. Gate'
    BY <1>0, <1>2 DEF TypeOK, Gate, BodyRunsAlone, Drained, Release, Await, gameplayVars
  <2>3. JobShape'
    BY <1>0, <1>2 DEF TypeOK, JobShape, HasCity, HasName, HasSnap, Job, JobKinds, Summary,
         Drained, Release, Await
  <2>4. Descent' /\ LineagePreserved'
    BY <1>0, <1>2 DEF TypeOK, Job, JobKinds, Summary, Descent, Replaced, LineagePreserved,
         Drained, Release, Await, gameplayVars
  <2>5. QED
    BY <2>1, <2>2, <2>3, <2>4 DEF IInv
<1>3. CASE AnswerQuery
  <2>1. /\ job' \in Job /\ job'.kind = job.kind /\ job'.city = job.city
        /\ HasName => HasName'
        /\ answer' = "ok" => HasSnap' /\ (pc = "read" => HasName')
    <3>1. CASE pc = "capture" /\ job' = [job EXCEPT !.snap = engine]
      BY <1>0, <3>1 DEF TypeOK, Job, HasSnap, HasName, Descent
    <3>2. CASE /\ pc = "read"
               /\ store[job.city] # None
               /\ job' = [job EXCEPT !.name = store[job.city].name,
                                     !.snap = store[job.city].snap]
      <4>1. store[job.city] \in Record /\ store[job.city].snap.city = job.city
        BY <1>0, <3>2 DEF TypeOK, JobShape, HasCity, LineagePreserved
      <4>2. QED
        BY <1>0, <3>2, <4>1 DEF TypeOK, Job, Record, HasSnap, HasName
    <3>3. ASSUME NEW v \in Versions, pc = "build",
                 job' = [job EXCEPT !.snap = [city |-> job.city, ver |-> v]]
          PROVE  /\ job' \in Job /\ job'.kind = job.kind /\ job'.city = job.city
                 /\ HasName => HasName'
                 /\ HasSnap'
      <4>1. [city |-> job.city, ver |-> v] \in World
        BY <1>0, <3>3 DEF JobShape, HasCity, World
      <4>2. job' = [kind |-> job.kind, city |-> job.city, name |-> job.name,
                    snap |-> [city |-> job.city, ver |-> v]]
        BY <1>0, <3>3 DEF TypeOK, Job
      <4>3. QED
        BY <1>0, <4>1, <4>2 DEF TypeOK, Job, HasSnap, HasName
    <3>4. CASE answer' = "error" /\ UNCHANGED job
      BY <1>0, <3>4 DEF TypeOK, HasName
    <3>5. pc = "build" /\ answer' = "ok" => \E v \in Versions :
             job' = [job EXCEPT !.snap = [city |-> job.city, ver |-> v]]
      BY <1>3 DEF AnswerQuery
    <3>6. CASE pc = "build" /\ answer' = "ok"
      BY <3>3, <3>5, <3>6
    <3>7. QED
      BY <1>3, <3>1, <3>2, <3>4, <3>6 DEF AnswerQuery
  <2>2. TypeOK' /\ Gate'
    BY <1>0, <1>3, <2>1 DEF TypeOK, Gate, BodyRunsAlone, AnswerQuery, gameplayVars
  <2>3. JobShape'
    BY <1>0, <1>3, <2>1 DEF JobShape, HasCity, HasName, AnswerQuery
  <2>4. Descent' /\ LineagePreserved'
    BY <1>0, <1>3, <2>1 DEF Descent, Replaced, LineagePreserved, AnswerQuery, gameplayVars
  <2>5. QED
    BY <2>2, <2>3, <2>4 DEF IInv
<1>4. CASE AnswerStore
  <2>1. TypeOK' /\ LineagePreserved'
    BY <1>0, <1>4 DEF TypeOK, Job, JobKinds, Record, JobShape, HasCity, HasName, HasSnap,
         LineagePreserved, AnswerStore, StoreResult, gameplayVars
  <2>a. job.kind = "save" /\ answer' = "ok" => store'[job.city] # None
    <3> SUFFICES ASSUME job.kind = "save", answer' = "ok" PROVE store'[job.city] # None
      OBVIOUS
    <3>1. store[job.city] \in Record /\ job.snap \in World /\ job.city \in Cities
      BY <1>0, <1>4 DEF TypeOK, AnswerStore, JobShape, HasCity, HasSnap
    <3>2. store'[job.city] = [store[job.city] EXCEPT !.snap = job.snap]
      BY <1>0, <1>4, <3>1 DEF TypeOK, AnswerStore, StoreResult
    <3>3. store'[job.city] \in Record
      BY <3>1, <3>2 DEF Record
    <3>4. QED
      BY <3>3, NoneIsNotData
  <2>2. Gate' /\ JobShape'
    BY <1>0, <1>4, <2>a DEF Gate, BodyRunsAlone, JobShape, HasCity, HasName, HasSnap,
         AnswerStore, gameplayVars
  <2>3. Descent'
    BY <1>0, <1>4 DEF Descent, Replaced, AnswerStore, gameplayVars
  <2>4. QED
    BY <2>1, <2>2, <2>3 DEF IInv
<1>5. CASE AnswerRestore
  <2>1. TypeOK'
    BY <1>0, <1>5 DEF TypeOK, JobShape, HasSnap, AnswerRestore, gameplayVars
  <2>2. Gate' /\ JobShape' /\ LineagePreserved'
    BY <1>0, <1>5 DEF Gate, BodyRunsAlone, JobShape, HasCity, HasName, HasSnap,
         LineagePreserved, AnswerRestore, gameplayVars
  <2>3. Descent'
    BY <1>0, <1>5 DEF Descent, Replaced, AnswerRestore, gameplayVars
  <2>4. QED
    BY <2>1, <2>2, <2>3 DEF IInv
<1>6. CASE ResumeFailed
  <2>1. TypeOK' /\ Gate'
    BY <1>0, <1>6 DEF TypeOK, Job, NoJob, Gate, BodyRunsAlone, ResumeFailed, Release, gameplayVars
  <2>2. JobShape' /\ Descent' /\ LineagePreserved'
    BY <1>0, <1>6 DEF JobShape, Descent, Replaced, LineagePreserved, ResumeFailed, Release,
         gameplayVars
  <2>3. QED
    BY <2>1, <2>2 DEF IInv
<1>7. CASE ResumeToStore
  <2>1. TypeOK' /\ Gate'
    BY <1>0, <1>7 DEF TypeOK, Gate, BodyRunsAlone, ResumeToStore, Await, gameplayVars
  <2>2. JobShape' /\ Descent' /\ LineagePreserved'
    BY <1>0, <1>7 DEF JobShape, HasCity, HasName, HasSnap, Descent, Replaced, LineagePreserved,
         ResumeToStore, Await, gameplayVars
  <2>3. QED
    BY <2>1, <2>2 DEF IInv
<1>8. CASE ResumeToRestore
  <2>1. TypeOK' /\ Gate'
    BY <1>0, <1>8 DEF TypeOK, Job, NoJob, Gate, BodyRunsAlone, ResumeToRestore, Release, Await,
         gameplayVars
  <2>2. JobShape' /\ Descent' /\ LineagePreserved'
    BY <1>0, <1>8 DEF JobShape, HasCity, HasName, HasSnap, Descent, Replaced, LineagePreserved,
         ResumeToRestore, Release, Await, gameplayVars
  <2>3. QED
    BY <2>1, <2>2 DEF IInv
<1>9. CASE ResumeStored
  <2>1. activeCity' \in Summary \cup {None} /\ (~dead /\ activeCity' # None =>
           engine.city = activeCity'.id)
    <3>1. CASE activeCity' = activeCity \/ activeCity' = None
      BY <1>0, <1>9, <3>1 DEF TypeOK, Descent, Replaced, ResumeStored
    <3>2. CASE ~dead /\ job.kind = "save"
      <4>1. activeCity' = [id |-> job.city, name |-> store[job.city].name]
        BY <1>9, <3>2 DEF ResumeStored, ActiveAfterStore, JobIsActive
      <4>2. store[job.city] \in Record /\ job.city \in Cities
        BY <1>0, <1>9, <3>2 DEF TypeOK, JobShape, HasCity, ResumeStored
      <4>3. engine.city = job.city
        BY <1>0, <1>9, <3>2 DEF Descent, Replaced, ResumeStored
      <4>4. QED
        BY <4>1, <4>2, <4>3 DEF Record, Summary
    <3>3. CASE ~dead /\ job.kind = "rename" /\ activeCity' = JobSummary /\ activeCity # None
               /\ activeCity.id = job.city
      BY <1>0, <1>9, <3>3 DEF JobShape, HasCity, HasName, JobSummary, Summary, Descent, Replaced,
           ResumeStored
    <3>4. QED
      BY <1>9, <3>1, <3>2, <3>3 DEF ResumeStored, ActiveAfterStore, JobIsActive
  <2>2. dirty' \in BOOLEAN
    <3>1. dirty' = FALSE \/ dirty' = dirty
      BY <1>9 DEF ResumeStored, ActiveAfterStore, JobIsActive
    <3>2. QED
      BY <1>0, <3>1 DEF TypeOK
  <2>3. TypeOK'
    BY <1>0, <1>9, <2>1, <2>2 DEF TypeOK, Job, NoJob, ResumeStored, Release, gameplayVars
  <2>4. Gate' /\ JobShape' /\ LineagePreserved'
    BY <1>0, <1>9 DEF Gate, BodyRunsAlone, JobShape, LineagePreserved, ResumeStored, Release,
         gameplayVars
  <2>5. Descent'
    BY <1>9, <2>1 DEF Descent, Replaced, ResumeStored, Release
  <2>6. QED
    BY <2>3, <2>4, <2>5 DEF IInv
<1>10. CASE ResumeRestored
  <2>1. dirty' \in BOOLEAN
    <3>1. dirty' = FALSE \/ dirty' = dirty
      BY <1>10 DEF ResumeRestored, Forget
    <3>2. QED
      BY <1>0, <3>1 DEF TypeOK
  <2>2. activeCity' \in Summary \cup {None} /\ view' \in World
    BY <1>0, <1>10 DEF TypeOK, JobShape, HasCity, HasName, Summary, JobSummary, Forget,
         ResumeRestored
  <2>3. TypeOK'
    BY <1>0, <1>10, <2>1, <2>2 DEF TypeOK, Job, NoJob, ResumeRestored, Release, gameplayVars
  <2>4. Gate' /\ JobShape' /\ LineagePreserved'
    BY <1>0, <1>10 DEF Gate, BodyRunsAlone, JobShape, LineagePreserved, ResumeRestored, Release,
         gameplayVars
  <2>5. Descent'
    BY <1>0, <1>10 DEF TypeOK, Descent, Replaced, JobShape, HasSnap, JobSummary, Forget,
         ResumeRestored, Release, gameplayVars
  <2>6. QED
    BY <2>3, <2>4, <2>5 DEF IInv
<1>11. QED
  BY <1>1, <1>2, <1>3, <1>4, <1>5, <1>6, <1>7, <1>8, <1>9, <1>10 DEF Exclusive

\* A stuttering step changes nothing.
LEMMA StutterIInv == IInv /\ UNCHANGED vars => IInv'
BY DEF IInv, TypeOK, Gate, BodyRunsAlone, JobShape, HasCity, HasName, HasSnap,
       Descent, Replaced, LineagePreserved, vars

\* The inductive invariant holds in every reachable state.
THEOREM Invariance == Spec => []IInv
<1>1. IInv /\ [Next]_vars => IInv'
  BY GameplayIInv, ExclusiveIInv, StutterIInv DEF Next
<1>2. QED
  BY InitIInv, <1>1, PTL DEF Spec

\* Every variable keeps its type.
THEOREM TypeCorrect == Spec => []TypeOK
<1>1. IInv => TypeOK
  BY DEF IInv
<1>2. QED
  BY <1>1, Invariance, PTL

\* The store never holds a world under another city's id, with any number of
\* cities, thrown restores, lost replies and a runtime that may die anywhere.
THEOREM NeverOverwritesAnotherCity == Spec => []LineagePreserved
<1>1. IInv => LineagePreserved
  BY DEF IInv
<1>2. QED
  BY <1>1, Invariance, PTL

\* The body of save, load, create, rename or delete has the engine to itself.
THEOREM ExclusiveBody == Spec => []BodyRunsAlone
<1>1. IInv => BodyRunsAlone
  BY DEF IInv, Gate
<1>2. QED
  BY <1>1, Invariance, PTL

-----------------------------------------------------------------------------
(* Saved and shown: what the store, the engine and the view have in common  *)
(* as long as a route save that rejects has not committed (LostReplies).    *)

\* The engine holds a change that the runtime has not folded yet.
Unfolded == op = "applied" \/ (op = "threw" /\ Head(queue) \in {"dispatch", "reset"})

\* The store has answered a request whose continuation has not run.
Stored(kind) == pc = "store" /\ answer = "ok" /\ job.kind = kind

ActiveRecord == store[activeCity.id]

\* The active city has its record, under the name on display or the one it is
\* being given.
ActiveKept ==
    ~dead /\ activeCity # None /\ ~(Stored("delete") /\ JobIsActive) =>
        /\ ActiveRecord # None
        /\ ActiveRecord.name = IF Stored("rename") /\ JobIsActive THEN job.name ELSE activeCity.name

\* The view follows the engine, and so does the record of a clean city.
ActiveShown ==
    ~dead /\ activeCity # None /\ ~Replaced /\ ~Unfolded =>
        /\ view = engine
        /\ ~dirty /\ ~(Stored("delete") /\ JobIsActive) => ActiveRecord.snap = engine

\* A snapshot to be saved is still the engine's when it is stored.
SnapshotIsFresh ==
    /\ pc = "capture" /\ answer = "ok" => job.snap = engine
    /\ pc = "store" /\ job.kind = "save" => job.snap = engine
    /\ Stored("save") => store[job.city].snap = engine

\* What is restored is what the store holds.
RestoredIsStored ==
    (pc = "read" /\ answer = "ok") \/ Stored("create") \/ pc = "restore" =>
        store[job.city] = [name |-> job.name, snap |-> job.snap]

\* Once an operation that restores has started, the active city is saved, dead or not.
NothingToLose ==
    /\ \/ pc \in {"read", "build"} \/ (pc = "store" /\ job.kind = "create")
       \/ (pc = "restore" /\ answer = "none")
    /\ activeCity # None
    => ActiveRecord # None /\ ActiveRecord.snap = engine

SavedInv ==
    /\ ActiveKept
    /\ ActiveShown
    /\ SnapshotIsFresh
    /\ RestoredIsStored
    /\ NothingToLose

LEMMA InitSaved == Init => SavedInv
BY DEF Init, SavedInv, ActiveKept, ActiveShown, SnapshotIsFresh, RestoredIsStored, NothingToLose,
       Stored

\* Gameplay: nothing of it runs in the body of an exclusive operation.
LEMMA GameplaySaved ==
  ASSUME IInv, SavedInv, ~LostReplies, Gameplay
  PROVE  SavedInv'
<1> USE ConstantsAssumption DEF SavedInv
<1>0. TypeOK /\ Gate
  BY DEF IInv
<1>a. queue \in Seq(OpKinds)
  BY <1>0 DEF TypeOK
<1>1. ASSUME NEW kind \in OpKinds \ {"deploy"}, Enqueue(kind) PROVE SavedInv'
  <2>1. queue # <<>> => Head(queue') = Head(queue)
    BY <1>1, <1>a DEF Enqueue
  <2>2. op # "idle" => queue # <<>>
    BY <1>0 DEF Gate
  <2>3. Unfolded' <=> Unfolded
    BY <1>1, <2>1, <2>2 DEF Unfolded, Enqueue
  <2>4. QED
    BY <1>1, <2>3 DEF Enqueue, exclusiveVars, ActiveKept, ActiveShown, SnapshotIsFresh,
       RestoredIsStored, NothingToLose, Stored, Replaced, ActiveRecord, JobIsActive
<1>2. CASE StartOp
  <2>1. ~Unfolded /\ ~Unfolded'
    BY <1>2 DEF StartOp, SettleOp, Unfolded
  <2>2. QED
    BY <1>2, <2>1 DEF StartOp, SettleOp, exclusiveVars, ActiveKept, ActiveShown, SnapshotIsFresh,
       RestoredIsStored, NothingToLose, Stored, Replaced, ActiveRecord, JobIsActive
<1>3. CASE BackendMutates
  <2>1. Unfolded' /\ pc \in {"idle", "drain"}
    BY <1>0, <1>3 DEF BackendMutates, Unfolded, Gate, BodyRunsAlone
  <2>2. QED
    BY <1>3, <2>1 DEF BackendMutates, exclusiveVars, ActiveKept, ActiveShown, SnapshotIsFresh,
       RestoredIsStored, NothingToLose, Stored, Replaced, ActiveRecord, JobIsActive
<1>4. CASE BackendDeclines
  <2>1. ~Unfolded
    BY <1>4 DEF BackendDeclines, Unfolded
  <2>2. QED
    BY <1>4, <2>1 DEF BackendDeclines, exclusiveVars, ActiveKept, ActiveShown, SnapshotIsFresh,
       RestoredIsStored, NothingToLose, Stored, Replaced, ActiveRecord, JobIsActive
<1>5. CASE FoldApplied
  <2>1. pc \in {"idle", "drain"} /\ view' = engine /\ (activeCity # None => dirty')
    BY <1>0, <1>5 DEF FoldApplied, MarkedDirty, Gate, BodyRunsAlone
  <2>2. pc' = pc
    BY <1>5 DEF FoldApplied, SettleOp, exclusiveVars
  <2>3. QED
    BY <1>5, <2>1, <2>2 DEF FoldApplied, ActiveKept, ActiveShown, SnapshotIsFresh,
       RestoredIsStored, NothingToLose, Stored, Replaced, ActiveRecord, JobIsActive
<1>6. CASE FoldUnchanged \/ FoldThrown
  <2>1. pc \in {"idle", "drain"} /\ pc' = pc
        /\ UNCHANGED <<engine, store, view, activeCity, dirty>>
    BY <1>0, <1>6 DEF FoldUnchanged, FoldThrown, SettleOp, Gate, BodyRunsAlone
  <2>2. ~dead' => ~dead /\ ~Unfolded
    BY <1>0, <1>6 DEF FoldUnchanged, FoldThrown, Unfolded, TypeOK
  <2>3. QED
    BY <2>1, <2>2 DEF ActiveKept, ActiveShown, SnapshotIsFresh,
       RestoredIsStored, NothingToLose, Stored, Replaced, ActiveRecord, JobIsActive
<1>7. CASE Die
  BY <1>7 DEF Die, gameplayVars, exclusiveVars, ActiveKept, ActiveShown, SnapshotIsFresh,
     RestoredIsStored, NothingToLose, Stored, Replaced, ActiveRecord, JobIsActive
<1>8. QED
  BY <1>1, <1>2, <1>3, <1>4, <1>5, <1>6, <1>7 DEF Gameplay

\* The body of an exclusive operation.
LEMMA ExclusiveSaved ==
  ASSUME IInv, SavedInv, Exclusive
  PROVE  SavedInv'
<1> USE ConstantsAssumption, NoneIsNotData DEF SavedInv
<1>0. TypeOK /\ Gate /\ JobShape /\ Descent
  BY DEF IInv
<1>a. pc \notin {"idle", "drain"} => ~Unfolded /\ op = "idle"
  BY <1>0 DEF Unfolded, Gate, BodyRunsAlone
<1>1. CASE CallAny
  <2>1. pc = "idle" /\ pc' = "drain"
        /\ UNCHANGED <<engine, store, view, activeCity, dirty, dead, queue, op>>
    BY <1>1 DEF CallAny, Call, Busy, gameplayVars
  <2>2. QED
    BY <2>1 DEF ActiveKept, ActiveShown, SnapshotIsFresh, RestoredIsStored, NothingToLose,
       Stored, Replaced, ActiveRecord, JobIsActive, Unfolded
<1>2. CASE Drained
  <2>1. pc = "drain" /\ drainLeft = 0 /\ op = "idle"
        /\ UNCHANGED <<engine, store, view, activeCity, dirty, dead, queue, op>>
    BY <1>0, <1>2 DEF Drained, Gate, TypeOK, gameplayVars
  <2>2. pc' \in {"idle", "capture", "read", "build", "store"} /\ answer' = "none"
        /\ (pc' = "store" => job'.kind \notin {"save", "create"})
        /\ (pc' \in {"read", "build"} => ~dead /\ ~dirty)
    BY <1>0, <1>2 DEF Drained, Release, Await, RefuseUnsaved, JobShape, JobKinds
  <2>3. QED
    BY <2>1, <2>2 DEF ActiveKept, ActiveShown, SnapshotIsFresh, RestoredIsStored, NothingToLose,
       Stored, Replaced, ActiveRecord, JobIsActive, Unfolded
<1>3. CASE AnswerQuery
  <2>1. pc \in {"capture", "read", "build"} /\ pc' = pc /\ answer = "none" /\ job \in Job
        /\ UNCHANGED <<engine, store, view, activeCity, dirty, dead, queue, op>>
    BY <1>0, <1>3 DEF AnswerQuery, gameplayVars, TypeOK
  <2>2. pc = "capture" /\ answer' = "ok" => job'.snap = engine
    BY <1>3, <2>1 DEF AnswerQuery, Job
  <2>3. pc = "read" /\ answer' = "ok" => store[job'.city] = [name |-> job'.name, snap |-> job'.snap]
    <3>1. SUFFICES ASSUME pc = "read", answer' = "ok"
                   PROVE  store[job'.city] = [name |-> job'.name, snap |-> job'.snap]
      OBVIOUS
    <3>2. job' = [job EXCEPT !.name = store[job.city].name, !.snap = store[job.city].snap]
          /\ store[job.city] # None
      BY <1>3, <3>1 DEF AnswerQuery
    <3>3. store[job.city] \in Record
      BY <1>0, <3>1, <3>2 DEF TypeOK, JobShape, HasCity
    <3>4. QED
      BY <2>1, <3>2, <3>3 DEF Job, Record
  <2>4. QED
    BY <2>1, <2>2, <2>3 DEF ActiveKept, ActiveShown, SnapshotIsFresh, RestoredIsStored, NothingToLose,
       Stored, Replaced, ActiveRecord, JobIsActive, Unfolded
<1>4. CASE AnswerStore
  <2>1. /\ pc = "store" /\ pc' = pc /\ answer = "none" /\ answer' \in {"ok", "error"}
        /\ job.city \in Cities /\ job.kind \in {"save", "create", "rename", "delete"}
        /\ UNCHANGED <<engine, view, activeCity, dirty, dead, queue, op, job>>
    BY <1>0, <1>4 DEF AnswerStore, JobShape, HasCity, JobKinds, gameplayVars
  <2>2. activeCity # None => activeCity.id \in Cities
    BY <1>0 DEF TypeOK, Summary
  <2>3. CASE answer' = "error"
    <3>1. UNCHANGED store
      BY <1>4, <2>3 DEF AnswerStore
    <3>2. QED
      BY <2>1, <2>3, <3>1 DEF ActiveKept, ActiveShown, SnapshotIsFresh, RestoredIsStored,
         NothingToLose, Stored, Replaced, ActiveRecord, JobIsActive, Unfolded
  <2>4. CASE answer' = "ok"
    <3>1. /\ store' = StoreResult(job.kind, job.city)
          /\ (store[job.city] = None) <=> (job.kind = "create")
      BY <1>4, <2>4 DEF AnswerStore
    <3>2. /\ \A c \in Cities : c # job.city => store'[c] = store[c]
          /\ job.kind = "save" => store'[job.city] = [store[job.city] EXCEPT !.snap = job.snap]
          /\ job.kind = "create" => store'[job.city] = [name |-> job.name, snap |-> job.snap]
          /\ job.kind = "rename" => store'[job.city] = [store[job.city] EXCEPT !.name = job.name]
      BY <1>0, <2>1, <3>1 DEF StoreResult, TypeOK
    <3>3. job.kind # "create" => store[job.city] \in Record
      BY <1>0, <2>1, <3>1 DEF TypeOK
    <3>4. /\ job.kind = "save" => /\ store'[job.city].snap = job.snap
                                  /\ store'[job.city].name = store[job.city].name
          /\ job.kind = "rename" => /\ store'[job.city].snap = store[job.city].snap
                                    /\ store'[job.city].name = job.name
      BY <3>2, <3>3 DEF Record
    <3>5. job.kind \in {"save", "rename"} => store'[job.city] # None
      <4>1. job.kind = "save" => job.snap \in World
        BY <1>0, <2>1 DEF JobShape, HasSnap
      <4>2. job.kind = "rename" => job.name \in Names
        BY <1>0, <2>1 DEF JobShape, HasName
      <4>3. job.kind \in {"save", "rename"} => store'[job.city] \in Record
        BY <3>2, <3>3, <4>1, <4>2 DEF Record
      <4>4. QED
        BY <4>3
    <3>6. ~dead /\ activeCity # None /\ job.kind = "create" => activeCity.id # job.city
      BY <2>1, <3>1 DEF ActiveKept, ActiveRecord, Stored
    <3>7. ActiveKept'
      BY <2>1, <2>2, <2>4, <3>2, <3>4, <3>5, <3>6 DEF ActiveKept, ActiveRecord, Stored, JobIsActive
    <3>8. ActiveShown'
      <4>1. SUFFICES ASSUME ~dead, activeCity # None, ~Replaced, ~Unfolded
                     PROVE  /\ view = engine
                            /\ ~dirty /\ ~(job.kind = "delete" /\ activeCity.id = job.city) =>
                                  store'[activeCity.id].snap = engine
        BY <2>1, <2>4 DEF ActiveShown, ActiveRecord, Stored, JobIsActive, Replaced, Unfolded
      <4>2. view = engine /\ (~dirty => store[activeCity.id].snap = engine)
        BY <2>1, <4>1 DEF ActiveShown, ActiveRecord, Stored
      <4>3. job.kind = "save" => job.snap = engine
        BY <2>1 DEF SnapshotIsFresh
      <4>4. QED
        BY <2>1, <2>2, <3>2, <3>4, <3>6, <4>1, <4>2, <4>3
    <3>9. SnapshotIsFresh' /\ RestoredIsStored'
      BY <2>1, <2>4, <3>2, <3>4 DEF SnapshotIsFresh, RestoredIsStored, Stored
    <3>10. NothingToLose'
      BY <2>1, <2>2, <2>4, <3>1, <3>2 DEF NothingToLose, ActiveRecord
    <3>11. QED
      BY <3>7, <3>8, <3>9, <3>10
  <2>5. QED
    BY <2>1, <2>3, <2>4
<1>5. CASE AnswerRestore
  <2>1. /\ pc = "restore" /\ pc' = pc /\ answer = "none" /\ answer' \in {"ok", "threw", "error"}
        /\ (answer' = "error" => engine' = engine)
        /\ UNCHANGED <<store, view, activeCity, dirty, dead, queue, op, job>>
    BY <1>5 DEF AnswerRestore, gameplayVars
  <2>2. QED
    BY <2>1 DEF ActiveKept, ActiveShown, SnapshotIsFresh, RestoredIsStored, NothingToLose,
       Stored, Replaced, ActiveRecord, JobIsActive, Unfolded
<1>6. CASE ResumeFailed
  <2>1. /\ pc' = "idle" /\ pc \in {"capture", "read", "build", "store"} /\ answer = "error"
        /\ UNCHANGED <<engine, store, view, activeCity, dirty, dead, queue, op>>
    BY <1>6 DEF ResumeFailed, Release, gameplayVars
  <2>2. QED
    BY <2>1 DEF ActiveKept, ActiveShown, SnapshotIsFresh, RestoredIsStored, NothingToLose,
       Stored, Replaced, ActiveRecord, JobIsActive, Unfolded
<1>7. CASE ResumeToStore
  <2>1. /\ pc \in {"capture", "build"} /\ answer = "ok" /\ pc' = "store" /\ answer' = "none"
        /\ (pc = "capture" => job.kind = "save") /\ (pc = "build" => job.kind = "create")
        /\ UNCHANGED <<engine, store, view, activeCity, dirty, dead, queue, op, job>>
    BY <1>0, <1>7 DEF ResumeToStore, Await, gameplayVars, JobShape
  <2>2. QED
    BY <2>1 DEF ActiveKept, ActiveShown, SnapshotIsFresh, RestoredIsStored, NothingToLose,
       Stored, Replaced, ActiveRecord, JobIsActive, Unfolded
<1>8. CASE ResumeToRestore
  <2>1. /\ pc = "read" \/ (pc = "store" /\ job.kind = "create")
        /\ answer = "ok" /\ answer' = "none"
        /\ pc' = "idle" \/ (pc' = "restore" /\ job' = job)
        /\ UNCHANGED <<engine, store, view, activeCity, dirty, dead, queue, op>>
    BY <1>8 DEF ResumeToRestore, Release, Await, gameplayVars
  <2>2. QED
    BY <2>1 DEF ActiveKept, ActiveShown, SnapshotIsFresh, RestoredIsStored, NothingToLose,
       Stored, Replaced, ActiveRecord, JobIsActive, Unfolded
<1>9. CASE ResumeStored
  <2>1. /\ pc = "store" /\ job.kind \in {"save", "rename", "delete"} /\ answer = "ok" /\ pc' = "idle"
        /\ job.city \in Cities /\ activeCity' = ActiveAfterStore
        /\ dirty' = IF ~dead /\ (job.kind = "save" \/ (job.kind = "delete" /\ JobIsActive))
                    THEN FALSE ELSE dirty
        /\ UNCHANGED <<engine, store, view, dead, queue, op>>
    BY <1>0, <1>9 DEF ResumeStored, Release, gameplayVars, JobShape, HasCity, JobKinds
  <2>2. ~Unfolded /\ ~Unfolded'
    BY <1>a, <2>1 DEF Unfolded
  <2>3. CASE dead
    BY <2>1, <2>3 DEF ActiveAfterStore, ActiveKept, ActiveShown, SnapshotIsFresh, RestoredIsStored,
       NothingToLose, Stored
  <2>4. CASE ~dead /\ job.kind = "save"
    <3>1. activeCity' = [id |-> job.city, name |-> store[job.city].name] /\ dirty' = FALSE
      BY <2>1, <2>4 DEF ActiveAfterStore
    <3>2. store[job.city] # None /\ store[job.city].snap = engine
      BY <1>0, <2>1, <2>4 DEF JobShape, SnapshotIsFresh, Stored
    <3>3. view = engine
      BY <1>0, <2>1, <2>2, <2>4 DEF ActiveShown, Replaced, Descent
    <3>4. QED
      BY <2>1, <3>1, <3>2, <3>3 DEF ActiveKept, ActiveShown, SnapshotIsFresh, RestoredIsStored,
         NothingToLose, Stored, ActiveRecord
  <2>5. CASE ~dead /\ job.kind = "rename"
    <3>1. CASE JobIsActive
      <4>1. activeCity' = [id |-> job.city, name |-> job.name] /\ dirty' = dirty
            /\ activeCity # None /\ activeCity.id = job.city
        BY <2>1, <2>5, <3>1 DEF ActiveAfterStore, JobSummary, JobIsActive
      <4>2. /\ store[job.city] # None /\ store[job.city].name = job.name
            /\ view = engine /\ (~dirty => store[job.city].snap = engine)
        BY <2>1, <2>2, <2>5, <3>1, <4>1
           DEF ActiveKept, ActiveShown, Stored, ActiveRecord, Replaced
      <4>3. /\ store'[activeCity'.id] # None /\ store'[activeCity'.id].name = activeCity'.name
            /\ view' = engine' /\ (~dirty' => store'[activeCity'.id].snap = engine')
        <5>1. activeCity'.id = job.city /\ activeCity'.name = job.name
          BY <4>1
        <5>2. /\ store'[activeCity'.id] # None /\ store'[activeCity'.id].name = activeCity'.name
              /\ view' = engine'
          BY <2>1, <4>2, <5>1
        <5>3. ~dirty' => store'[activeCity'.id].snap = engine'
          <6>1. HAVE ~dirty'
          <6>2. ~dirty
            BY <4>1, <6>1
          <6>3. store[job.city].snap = engine
            BY <4>2, <6>2
          <6>4. store' = store /\ engine' = engine
            BY <2>1
          <6>5. QED
            BY <5>1, <6>3, <6>4
        <5>4. QED
          BY <5>2, <5>3
      <4>4. pc' = "idle"
        BY <2>1
      <4>5. QED
        BY <4>3, <4>4 DEF ActiveKept, ActiveShown, SnapshotIsFresh, RestoredIsStored,
           NothingToLose, Stored, ActiveRecord
    <3>2. CASE ~JobIsActive
      <4>1. activeCity' = activeCity /\ dirty' = dirty
        BY <2>1, <2>5, <3>2 DEF ActiveAfterStore
      <4>2. QED
        BY <2>1, <2>2, <2>5, <3>2, <4>1 DEF ActiveKept, ActiveShown, SnapshotIsFresh,
           RestoredIsStored, NothingToLose, Stored, ActiveRecord, Replaced
    <3>3. QED
      BY <3>1, <3>2
  <2>6. CASE ~dead /\ job.kind = "delete"
    <3>1. CASE JobIsActive
      <4>1. activeCity' = None
        BY <2>1, <2>6, <3>1 DEF ActiveAfterStore
      <4>2. QED
        BY <2>1, <4>1 DEF ActiveKept, ActiveShown, SnapshotIsFresh, RestoredIsStored,
           NothingToLose, Stored
    <3>2. CASE ~JobIsActive
      <4>1. activeCity' = activeCity /\ dirty' = dirty
        BY <2>1, <2>6, <3>2 DEF ActiveAfterStore
      <4>2. QED
        BY <2>1, <2>2, <2>6, <3>2, <4>1 DEF ActiveKept, ActiveShown, SnapshotIsFresh,
           RestoredIsStored, NothingToLose, Stored, ActiveRecord, Replaced
    <3>3. QED
      BY <3>1, <3>2
  <2>7. QED
    BY <2>1, <2>3, <2>4, <2>5, <2>6
<1>10. CASE ResumeRestored
  <2>1. /\ pc = "restore" /\ pc' = "idle" /\ answer # "none" /\ ~Unfolded
        /\ UNCHANGED <<engine, store, dead, queue, op>>
    BY <1>a, <1>10 DEF ResumeRestored, Release, gameplayVars
  <2>2. CASE dead \/ answer = "error"
    <3>1. UNCHANGED <<view, activeCity, dirty>>
      BY <1>10, <2>2 DEF ResumeRestored
    <3>2. QED
      BY <2>1, <2>2, <3>1 DEF ActiveKept, ActiveShown, SnapshotIsFresh, RestoredIsStored,
         NothingToLose, Stored, ActiveRecord, Replaced
  <2>3. CASE activeCity' = None
    BY <2>1, <2>3 DEF ActiveKept, ActiveShown, SnapshotIsFresh, RestoredIsStored,
       NothingToLose, Stored
  <2>4. CASE /\ answer = "ok" /\ view' = engine /\ activeCity' = JobSummary /\ dirty' = FALSE
    <3>1. store[job.city] = [name |-> job.name, snap |-> job.snap] /\ engine = job.snap
      BY <1>0, <2>1, <2>4 DEF RestoredIsStored, Descent
    <3>2. [name |-> job.name, snap |-> job.snap] # None
      <4>1. [name |-> job.name, snap |-> job.snap] \in Record
        BY <1>0, <2>1 DEF JobShape, HasSnap, HasName, Record
      <4>2. QED
        BY <4>1
    <3>3. QED
      BY <2>1, <2>4, <3>1, <3>2 DEF ActiveKept, ActiveShown, SnapshotIsFresh, RestoredIsStored,
         NothingToLose, Stored, ActiveRecord, JobSummary
  <2>5. QED
    BY <1>10, <2>2, <2>3, <2>4 DEF ResumeRestored, Forget
<1>11. QED
  BY <1>1, <1>2, <1>3, <1>4, <1>5, <1>6, <1>7, <1>8, <1>9, <1>10 DEF Exclusive

LEMMA NextSaved ==
  ASSUME ~LostReplies, IInv, SavedInv, [Next]_vars
  PROVE  SavedInv'
<1>1. CASE UNCHANGED vars
  BY <1>1 DEF vars, SavedInv, ActiveKept, ActiveShown, SnapshotIsFresh, RestoredIsStored,
     NothingToLose, Stored, Replaced, ActiveRecord, JobIsActive, Unfolded
<1>2. QED
  BY <1>1, GameplaySaved, ExclusiveSaved DEF Next

\* Unless a route save commits and then rejects, the inductive invariant on what
\* is saved and shown holds in every reachable state.
THEOREM SavedInvariance ==
  ASSUME ~LostReplies
  PROVE  Spec => []SavedInv
<1>1. IInv /\ SavedInv /\ [Next]_vars => SavedInv'
  BY NextSaved
<1>2. QED
  BY InitSaved, <1>1, Invariance, PTL DEF Spec

\* A live runtime shows the active city under the name of its record, and a city
\* shown as saved is saved: engine, view and record agree. The hypothesis is that
\* of the run ws_core; ws_lost_reply shows that it is needed.
THEOREM ShownAsSavedIsSaved ==
  ASSUME ~LostReplies
  PROVE  Spec => []CleanMeansSaved
<1>1. SavedInv => CleanMeansSaved
  BY DEF SavedInv, ActiveKept, ActiveShown, CleanMeansSaved, InFlight, Stored, Replaced, Unfolded,
     ActiveRecord
<1>2. QED
  BY <1>1, SavedInvariance, PTL

\* A restore replaces the engine's world only when the active city's is in the
\* store, even if the runtime dies or the city is created in the meantime.
THEOREM RestoreLosesNothing ==
  ASSUME ~LostReplies
  PROVE  Spec => NoSilentDiscard
<1>1. IInv /\ SavedInv /\ [Next]_vars =>
         [pc = "restore" /\ engine' # engine /\ activeCity # None =>
            /\ store[activeCity.id] # None
            /\ store[activeCity.id].snap = engine]_vars
  <2>1. SUFFICES ASSUME IInv, SavedInv, Next, pc = "restore", engine' # engine, activeCity # None
                 PROVE  store[activeCity.id] # None /\ store[activeCity.id].snap = engine
    OBVIOUS
  <2>2. op = "idle"
    BY <2>1 DEF IInv, Gate, BodyRunsAlone
  <2>3. AnswerRestore
    BY <2>1, <2>2 DEF Next, Gameplay, Exclusive, Enqueue, StartOp, BackendMutates, BackendDeclines,
       FoldApplied, FoldUnchanged, FoldThrown, Die, CallAny, Call, Drained, AnswerQuery, AnswerStore,
       ResumeFailed, ResumeToStore, ResumeToRestore, ResumeStored, ResumeRestored
  <2>4. QED
    BY <2>1, <2>3 DEF AnswerRestore, SavedInv, NothingToLose, ActiveRecord
<1>2. QED
  BY <1>1, SavedInvariance, Invariance, PTL DEF Spec, NoSilentDiscard
=============================================================================
