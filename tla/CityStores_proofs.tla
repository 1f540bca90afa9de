--------------------------- MODULE CityStores_proofs ---------------------------
(***************************************************************************)
(* Both stores implement CityStore.  The desktop file store, for any        *)
(* cities, names and snapshots, whatever file system calls fail and whenever*)
(* the process is killed; the browser store, for any number of tabs,        *)
(* whatever request fails, whatever transaction is aborted and whichever    *)
(* tab is closed.                                                           *)
(***************************************************************************)
EXTENDS CityFileStore, TLAPS

CONSTANT Tabs
VARIABLES records, writer, readers, view, request, step, outcome, reply

\* The browser store of the second half; its pc is `step` here.
Browser == INSTANCE IndexedDbCityStore WITH pc <- step

-----------------------------------------------------------------------------
(* The file store: what it holds while a command runs.                      *)

Writing == {"unstale", "open", "write", "commit"}

\* What a command knows at each of its file system calls.
CommandShape ==
    /\ (pc = "idle") <=> (cmd = None)
    /\ (answer # None) <=> (pc \in {"tidy", "reply"})
    /\ pc = "read" => cmd.kind \in {"read", "update", "rename"}
    /\ pc \in {"unstale", "open", "write"} => cmd.kind \in {"create", "update", "rename"}
    /\ pc = "commit" => cmd.kind \in {"create", "update", "rename", "delete"}
    /\ pc = "tidy" => cmd.kind = "create"

\* The draft is the record the command promises, computed from the committed
\* file, which nobody changes until the command commits.
DraftShape ==
    /\ pc \in Writing /\ cmd.kind = "create" =>
          draft = [name |-> cmd.name, ver |-> cmd.ver]
    /\ pc \in Writing /\ cmd.kind \in {"update", "rename"} =>
          /\ committed[cmd.city] \in Store!Record
          /\ draft = Store!Replacement(cmd, committed[cmd.city])
    /\ pc \in Writing /\ cmd.kind # "delete" => draft \in Store!Record
    /\ pc \in {"open", "write"} => cmd.city \notin linked

IInv ==
    /\ TypeOK
    /\ CommandShape
    /\ DraftShape
    /\ CommittedComplete
    /\ FreshTemp

LEMMA InitIInv == Init => IInv
BY FileAssumption
   DEF Init, IInv, TypeOK, CommandShape, DraftShape, Writing, CommittedComplete, FreshTemp, Contents

\* The value a command writes is a record.
LEMMA ReplacementIsRecord ==
  ASSUME NEW r \in Store!Request, NEW found \in Store!Record,
         r.kind \in {"update", "rename"}
  PROVE  Store!Replacement(r, found) \in Store!Record
BY DEF Store!Replacement, Store!Record, Store!Request

\* Answers have the type of answers.
LEMMA AnswerType ==
  ASSUME NEW code \in Store!Codes, NEW value \in Store!Record \cup {None}
  PROVE  [code |-> code, value |-> value] \in Store!Reply
BY DEF Store!Reply

LEMMA RefusalType ==
  /\ Store!Refuse("notFound") \in Store!Reply
  /\ Store!Refuse("conflict") \in Store!Reply
  /\ Failed \in Store!Reply
BY AnswerType DEF Store!Refuse, Store!Codes, Failed

\* Every step preserves the invariant.
LEMMA StepIInv == IInv /\ [Next]_vars => IInv'
<1> SUFFICES ASSUME IInv, [Next]_vars PROVE IInv'
  OBVIOUS
<1> USE FileAssumption, RefusalType DEF IInv
<1>1. ASSUME NEW r \in Store!Request, Call(r) PROVE IInv'
  <2>1. r.kind = "create" => Store!Replacement(r, None) = [name |-> r.name, ver |-> r.ver]
    BY DEF Store!Replacement
  <2>2. [name |-> r.name, ver |-> r.ver] \in Store!Record
    BY DEF Store!Record, Store!Request
  <2>3. r.kind \in {"read", "create", "update", "rename", "delete"}
    BY DEF Store!Request, Store!Kinds
  <2>4. TypeOK'
    BY <1>1, <2>1, <2>2, <2>3 DEF TypeOK, Call, diskVars
  <2>5. CommandShape'
    BY <1>1, <2>3 DEF CommandShape, Call
  <2>6. DraftShape'
    BY <1>1, <2>1, <2>2, <2>3 DEF DraftShape, Writing, Call, diskVars
  <2>7. CommittedComplete' /\ FreshTemp'
    BY <1>1, <2>3 DEF CommittedComplete, FreshTemp, Call, diskVars
  <2>8. QED
    BY <2>4, <2>5, <2>6, <2>7
<1>2. CASE ReadRecord
  <2>0. cmd \in Store!Request /\ pc = "read"
    BY <1>2 DEF TypeOK, CommandShape, ReadRecord
  <2>1. CASE \/ answer' \in Store!Reply /\ pc' = "reply" /\ UNCHANGED draft
    BY <1>2, <2>0, <2>1 DEF TypeOK, CommandShape, DraftShape, Writing, CommittedComplete,
         FreshTemp, ReadRecord, diskVars
  <2>2. CASE /\ committed[cmd.city] \in Store!Record
             /\ cmd.kind # "read"
             /\ pc' = "unstale" /\ UNCHANGED answer
             /\ draft' = Store!Replacement(cmd, committed[cmd.city])
    <3>1. draft' \in Store!Record /\ cmd.kind \in {"update", "rename"}
      BY <2>0, <2>2, ReplacementIsRecord DEF CommandShape
    <3>2. QED
      BY <1>2, <2>0, <2>2, <3>1 DEF TypeOK, CommandShape, DraftShape, Writing,
           CommittedComplete, FreshTemp, ReadRecord, diskVars
  <2>3. ASSUME committed[cmd.city] \in Store!Record, cmd.kind = "read"
        PROVE  Store!Outcome(cmd, committed[cmd.city]) \in Store!Reply
    BY <2>0, <2>3, AnswerType DEF Store!Outcome, Store!Replacement, Store!Codes
  <2>4. QED
    BY <1>2, <2>1, <2>2, <2>3 DEF ReadRecord, Return, Goto
<1>3. CASE RemoveStaleTemp
  BY <1>3 DEF TypeOK, CommandShape, DraftShape, Writing, CommittedComplete, FreshTemp,
       RemoveStaleTemp, RemoveTemp, KeepTemp, Goto, Return, diskVars, Store!Request
<1>4. CASE OpenTemp
  BY <1>4 DEF TypeOK, Contents, CommandShape, DraftShape, Writing, CommittedComplete, FreshTemp,
       OpenTemp, Goto, Return, Store!Request
<1>5. CASE WriteTemp
  BY <1>5 DEF TypeOK, Contents, CommandShape, DraftShape, Writing, CommittedComplete, FreshTemp,
       WriteTemp, RemoveTemp, KeepTemp, Goto, Return, Store!Request
<1>6. CASE Link
  BY <1>6, AnswerType DEF TypeOK, Contents, CommandShape, DraftShape, Writing, CommittedComplete,
       FreshTemp, Link, Store!Request, Store!Codes
<1>7. CASE Tidy
  BY <1>7 DEF TypeOK, CommandShape, DraftShape, Writing, CommittedComplete, FreshTemp,
       Tidy, RemoveTemp, KeepTemp, Goto
<1>8. CASE Rename
  BY <1>8, AnswerType DEF TypeOK, Contents, CommandShape, DraftShape, Writing, CommittedComplete,
       FreshTemp, Rename, RemoveTemp, KeepTemp, Return, Store!Request, Store!Codes
<1>9. CASE Delete
  BY <1>9, AnswerType DEF TypeOK, Contents, CommandShape, DraftShape, Writing, CommittedComplete,
       FreshTemp, Delete, Return, Store!Outcome, Store!Replacement, Store!Request, Store!Codes
<1>10. CASE Forget
  BY <1>10 DEF TypeOK, CommandShape, DraftShape, Writing, CommittedComplete, FreshTemp,
       Forget, diskVars
<1>11. CASE UNCHANGED vars
  BY <1>11 DEF TypeOK, CommandShape, DraftShape, CommittedComplete, FreshTemp, vars
<1>12. QED
  BY <1>1, <1>2, <1>3, <1>4, <1>5, <1>6, <1>7, <1>8, <1>9, <1>10, <1>11
     DEF Next, Reply, Kill

\* The invariant holds in every reachable state.
THEOREM Invariance == Spec => []IInv
BY InitIInv, StepIInv, PTL DEF Spec

\* No half-written file is ever committed.
THEOREM NeverCommitsPartial == Spec => []CommittedComplete
<1>1. IInv => CommittedComplete
  BY DEF IInv
<1>2. QED
  BY <1>1, Invariance, PTL

\* The temporary file about to be committed is the command's own.
THEOREM CommitsOwnTemp == Spec => []FreshTemp
<1>1. IInv => FreshTemp
  BY DEF IInv
<1>2. QED
  BY <1>1, Invariance, PTL

-----------------------------------------------------------------------------
(* Refinement: each step of the file store is a step of the contract or     *)
(* changes nothing the contract can see.                                    *)

\* The steps of the contract for the one client, in the file store's terms.
LEMMA PerformStep ==
  ASSUME cmd # None, answer = None, UNCHANGED cmd,
         answer' = Store!Outcome(cmd, committed[cmd.city]),
         committed' = IF answer'.code = "ok"
                      THEN [committed EXCEPT ![cmd.city] = answer'.value]
                      ELSE committed
  PROVE  Store!Next
<1>1. Store!Perform(Process)
  BY DEF Store!Perform, Process
<1>2. QED
  BY <1>1 DEF Store!Next, Process

LEMMA FailStep ==
  ASSUME cmd # None, answer = None, UNCHANGED <<committed, cmd>>,
         answer' = Failed
  PROVE  Store!Next
<1>1. Store!Fail(Process)
  BY DEF Store!Fail, Failed, Process
<1>2. QED
  BY <1>1 DEF Store!Next, Process

LEMMA LeaveStep ==
  ASSUME cmd # None, cmd' = None, answer' = None, UNCHANGED committed
  PROVE  Store!Next
<1>1. Store!Leave(Process)
  BY DEF Store!Leave, Process
<1>2. QED
  BY <1>1 DEF Store!Next, Process

LEMMA SilentStep ==
  ASSUME UNCHANGED <<committed, cmd, answer>>
  PROVE  UNCHANGED Store!vars
BY DEF Store!vars

\* Every step of the file store is one of these.
LEMMA StepRefines == IInv /\ [Next]_vars => [Store!Next]_(Store!vars)
<1> SUFFICES ASSUME IInv, [Next]_vars PROVE [Store!Next]_(Store!vars)
  OBVIOUS
<1> USE FileAssumption
<1>0. TypeOK /\ CommandShape /\ DraftShape /\ CommittedComplete /\ FreshTemp
  BY DEF IInv
<1>a. pc # "idle" => cmd # None /\ cmd \in Store!Request
  BY <1>0 DEF TypeOK, CommandShape
<1>b. pc \notin {"tidy", "reply"} => answer = None
  BY <1>0 DEF CommandShape
<1>1. ASSUME NEW r \in Store!Request, Call(r) PROVE Store!Next
  <2>1. cmd = None /\ UNCHANGED <<committed, answer>> /\ cmd' = r
    BY <1>0, <1>1 DEF CommandShape, Call, diskVars
  <2>2. Store!Invoke(Process, r)
    BY <2>1 DEF Store!Invoke, Process
  <2>3. QED
    BY <2>2 DEF Store!Next, Process
<1>2. CASE ReadRecord
  <2>1. pc = "read" /\ UNCHANGED <<committed, cmd>>
    BY <1>2 DEF ReadRecord, diskVars
  <2>2. CASE committed[cmd.city] = None /\ answer' = Store!Refuse("notFound")
    <3>1. answer' = Store!Outcome(cmd, committed[cmd.city])
      BY <1>0, <2>1, <2>2 DEF CommandShape, Store!Outcome
    <3>2. answer'.code # "ok"
      BY <2>2 DEF Store!Refuse
    <3>3. QED
      BY <1>a, <1>b, <2>1, <3>1, <3>2, PerformStep
  <2>3. CASE answer' = Failed
    BY <1>a, <1>b, <2>1, <2>3, FailStep
  <2>4. CASE /\ committed[cmd.city] \in Store!Record /\ cmd.kind = "read"
             /\ answer' = Store!Outcome(cmd, committed[cmd.city])
    <3>1. answer' = [code |-> "ok", value |-> committed[cmd.city]]
      BY <2>4 DEF Store!Outcome, Store!Replacement, Contents
    <3>2. committed' = [committed EXCEPT ![cmd.city] = answer'.value]
      BY <1>0, <2>1, <3>1 DEF TypeOK
    <3>3. QED
      BY <1>a, <1>b, <2>1, <2>4, <3>1, <3>2, PerformStep
  <2>5. CASE UNCHANGED answer
    BY <2>1, <2>5, SilentStep
  <2>6. QED
    BY <1>2, <2>2, <2>3, <2>4, <2>5 DEF ReadRecord, Return, Goto
<1>3. CASE RemoveStaleTemp \/ OpenTemp \/ WriteTemp
  <2>1. pc \in {"unstale", "open", "write"} /\ UNCHANGED <<committed, cmd>>
    BY <1>3 DEF RemoveStaleTemp, OpenTemp, WriteTemp
  <2>2. answer' = Failed \/ UNCHANGED answer
    BY <1>3 DEF RemoveStaleTemp, OpenTemp, WriteTemp, Goto, Return
  <2>3. QED
    BY <1>a, <1>b, <2>1, <2>2, FailStep, SilentStep
<1>4. CASE Link
  <2>1. pc = "commit" /\ cmd.kind = "create" /\ UNCHANGED cmd
    BY <1>4 DEF Link
  <2>2. temp[cmd.city] = draft /\ draft = [name |-> cmd.name, ver |-> cmd.ver]
    BY <1>0, <2>1 DEF FreshTemp, DraftShape, Writing
  <2>3. CASE /\ committed[cmd.city] = None
             /\ committed' = [committed EXCEPT ![cmd.city] = temp[cmd.city]]
             /\ answer' = [code |-> "ok", value |-> draft]
    <3>1. answer' = Store!Outcome(cmd, committed[cmd.city])
      BY <2>1, <2>2, <2>3 DEF Store!Outcome, Store!Replacement
    <3>2. committed' = [committed EXCEPT ![cmd.city] = answer'.value] /\ answer'.code = "ok"
      BY <2>2, <2>3
    <3>3. QED
      BY <1>a, <1>b, <2>1, <3>1, <3>2, PerformStep
  <2>4. CASE committed[cmd.city] # None /\ answer' = Store!Refuse("conflict")
             /\ UNCHANGED committed
    <3>1. answer' = Store!Outcome(cmd, committed[cmd.city])
      BY <2>1, <2>4 DEF Store!Outcome
    <3>2. answer'.code # "ok"
      BY <2>4 DEF Store!Refuse
    <3>3. QED
      BY <1>a, <1>b, <2>1, <2>4, <3>1, <3>2, PerformStep
  <2>5. CASE answer' = Failed /\ UNCHANGED committed
    BY <1>a, <1>b, <2>1, <2>5, FailStep
  <2>6. QED
    BY <1>4, <2>3, <2>4, <2>5 DEF Link
<1>5. CASE Tidy
  BY <1>5, SilentStep DEF Tidy, Goto
<1>6. CASE Rename
  <2>1. pc = "commit" /\ cmd.kind \in {"update", "rename"} /\ UNCHANGED cmd
    BY <1>6 DEF Rename
  <2>2. /\ temp[cmd.city] = draft /\ cmd.city \notin linked
        /\ committed[cmd.city] \in Store!Record
        /\ draft = Store!Replacement(cmd, committed[cmd.city])
    BY <1>0, <2>1 DEF FreshTemp, DraftShape, Writing
  <2>3. CASE /\ answer' = [code |-> "ok", value |-> draft]
             /\ committed' = [committed EXCEPT ![cmd.city] = temp[cmd.city]]
    <3>1. answer' = Store!Outcome(cmd, committed[cmd.city])
      BY <2>1, <2>2, <2>3 DEF Store!Outcome, Contents
    <3>2. QED
      BY <1>a, <1>b, <2>1, <2>2, <2>3, <3>1, PerformStep
  <2>4. CASE answer' = Failed /\ UNCHANGED committed
    BY <1>a, <1>b, <2>1, <2>4, FailStep
  <2>5. QED
    BY <1>6, <2>2, <2>3, <2>4 DEF Rename, Return
<1>7. CASE Delete
  <2>1. pc = "commit" /\ cmd.kind = "delete" /\ UNCHANGED cmd
    BY <1>7 DEF Delete
  <2>2. CASE /\ committed[cmd.city] # None
             /\ committed' = [committed EXCEPT ![cmd.city] = None]
             /\ answer' = Store!Outcome(cmd, committed[cmd.city])
    <3>1. answer' = [code |-> "ok", value |-> None]
      BY <2>1, <2>2 DEF Store!Outcome, Store!Replacement
    <3>2. QED
      BY <1>a, <1>b, <2>1, <2>2, <3>1, PerformStep
  <2>3. CASE committed[cmd.city] = None /\ answer' = Store!Refuse("notFound")
             /\ UNCHANGED committed
    <3>1. answer' = Store!Outcome(cmd, committed[cmd.city])
      BY <2>1, <2>3 DEF Store!Outcome
    <3>2. answer'.code # "ok"
      BY <2>3 DEF Store!Refuse
    <3>3. QED
      BY <1>a, <1>b, <2>1, <2>3, <3>1, <3>2, PerformStep
  <2>4. CASE answer' = Failed /\ UNCHANGED committed
    BY <1>a, <1>b, <2>1, <2>4, FailStep
  <2>5. QED
    BY <1>7, <2>2, <2>3, <2>4 DEF Delete, Return
<1>8. CASE Reply \/ Kill
  <2>1. pc # "idle" /\ cmd' = None /\ answer' = None /\ UNCHANGED committed
    BY <1>8 DEF Reply, Kill, Forget, diskVars
  <2>2. QED
    BY <1>a, <2>1, LeaveStep
<1>9. CASE UNCHANGED vars
  BY <1>9, SilentStep DEF vars
<1>10. QED
  BY <1>1, <1>2, <1>3, <1>4, <1>5, <1>6, <1>7, <1>8, <1>9 DEF Next

LEMMA InitRefines == Init => Store!Init
BY DEF Init, Store!Init, Process

\* The file store keeps the contract of CitySaveStore: an answer other than ok
\* commits nothing, ok never precedes the commit, and a kill between any two
\* file system calls leaves the old record or the new one.
THEOREM FileStoreKeepsContract == Spec => KeepsContract
<1>1. IInv /\ [Next]_vars => [Store!Next]_(Store!vars)
  BY StepRefines
<1>2. QED
  BY InitRefines, <1>1, Invariance, PTL DEF Spec, KeepsContract, Store!Spec

-----------------------------------------------------------------------------
(* The browser store: what its tabs hold.  NoneIsNoData is its assumption   *)
(* on its constants, a hypothesis here.                                     *)

RunOpen == {"first", "second", "done", "abort"}

TabTypeOK ==
    /\ records \in [Cities -> Browser!Store!Record \cup {None}]
    /\ view \in [Cities -> Browser!Store!Record \cup {None}]
    /\ writer \in Tabs \cup {None} /\ readers \subseteq Tabs
    /\ request \in [Tabs -> Browser!Store!Request \cup {None}]
    /\ step \in [Tabs -> {"idle", "open", "wait", "reply"} \cup RunOpen]
    /\ outcome \in [Tabs -> Browser!Store!Reply \cup {None}]
    /\ reply \in [Tabs -> Browser!Store!Reply \cup {None}]

\* A tab has a request from its call to its answer, which it holds at "reply".
CallShape ==
    \A t \in Tabs : /\ step[t] = "idle" <=> request[t] = None
                    /\ step[t] = "reply" <=> reply[t] # None

\* Transactions overlap only if they all read.
Locks ==
    /\ \A t \in Tabs : step[t] \in RunOpen => IF Browser!Writes(t) THEN writer = t ELSE t \in readers
    /\ \A t \in readers : step[t] \in RunOpen /\ ~Browser!Writes(t)
    /\ writer # None => step[writer] \in RunOpen /\ Browser!Writes(writer) /\ readers = {}

\* What run() holds is what the contract says of the record as it is stored now.
TabAnswer(t) == Browser!Store!Outcome(request[t], records[Browser!City(t)])
TabHolds(t) ==
    /\ step[t] = "second" =>
          outcome[t] = TabAnswer(t) /\ outcome[t].code = "ok" /\ request[t].kind \notin {"create", "read"}
    /\ step[t] = "done" => outcome[t] = TabAnswer(t)
    /\ step[t] = "abort" => outcome[t] = Browser!Failed \/ (outcome[t] = TabAnswer(t) /\ outcome[t].code # "ok")

\* What its transaction sees of the store is what will be durable.
ViewShape ==
    writer # None =>
        /\ step[writer] \in {"first", "second"} => view = records
        /\ step[writer] = "done" =>
              view = IF outcome[writer].code = "ok"
                     THEN [records EXCEPT ![Browser!City(writer)] = outcome[writer].value]
                     ELSE records

TabIInv ==
    /\ TabTypeOK
    /\ CallShape
    /\ Locks
    /\ \A t \in Tabs : TabHolds(t)
    /\ ViewShape

LEMMA TabInitIInv ==
  ASSUME Browser!NoneIsNoData
  PROVE  Browser!Init => TabIInv
BY DEF Browser!NoneIsNoData, Browser!Init, TabIInv, TabTypeOK, CallShape, Locks, TabHolds, ViewShape, RunOpen

-----------------------------------------------------------------------------
(* Values.                                                                  *)

\* An answer has the type of answers; the value of an answer that commits is a
\* record, or None for a deletion.
LEMMA OutcomeType ==
  ASSUME Browser!NoneIsNoData, NEW r \in Browser!Store!Request, NEW found \in Browser!Store!Record \cup {None}
  PROVE  /\ Browser!Store!Outcome(r, found) \in Browser!Store!Reply
         /\ Browser!Store!Outcome(r, found).value \in Browser!Store!Record \cup {None}
         /\ r.kind = "read" /\ Browser!Store!Outcome(r, found).code = "ok" =>
               Browser!Store!Outcome(r, found).value = found
         /\ r.kind = "create" /\ found # None => Browser!Store!Outcome(r, found).code # "ok"
         /\ r.kind # "create" => (Browser!Store!Outcome(r, found).code = "ok" <=> found # None)
         /\ r.kind = "create" /\ found = None => Browser!Store!Outcome(r, found).code = "ok"
<1>1. r.kind \in {"read", "create", "update", "rename", "delete"} /\ r.name \in Names /\ r.ver \in Versions
  BY DEF Browser!Store!Request, Browser!Store!Kinds
<1>2. r.kind # "create" => found \in Browser!Store!Record \/ found = None
  OBVIOUS
<1>3. found # None \/ r.kind = "create" => Browser!Store!Replacement(r, found) \in Browser!Store!Record \cup {None}
  <2>1. CASE r.kind = "create"
    BY <1>1, <2>1 DEF Browser!Store!Replacement, Browser!Store!Record
  <2>2. CASE r.kind # "create" /\ found \in Browser!Store!Record
    BY <1>1, <2>2 DEF Browser!Store!Replacement, Browser!Store!Record
  <2>3. QED
    BY <2>1, <2>2
<1>4. \A code \in Browser!Store!Codes : \A value \in Browser!Store!Record \cup {None} :
         [code |-> code, value |-> value] \in Browser!Store!Reply
  BY DEF Browser!Store!Reply
<1>5. CASE r.kind = "create" /\ found # None
  BY <1>4, <1>5 DEF Browser!Store!Outcome, Browser!Store!Refuse, Browser!Store!Codes
<1>6. CASE r.kind # "create" /\ found = None
  BY <1>4, <1>6 DEF Browser!Store!Outcome, Browser!Store!Refuse, Browser!Store!Codes
<1>7. CASE (r.kind = "create") <=> (found = None)
  <2>1. Browser!Store!Outcome(r, found) = [code |-> "ok", value |-> Browser!Store!Replacement(r, found)]
    BY <1>7 DEF Browser!Store!Outcome
  <2>2. r.kind = "read" => Browser!Store!Replacement(r, found) = found
    BY DEF Browser!Store!Replacement
  <2>3. "ok" \in Browser!Store!Codes
    BY DEF Browser!Store!Codes
  <2>4. QED
    BY <1>3, <1>4, <1>7, <2>1, <2>2, <2>3
<1>8. QED
  BY <1>5, <1>6, <1>7

LEMMA FailedType ==
  ASSUME Browser!NoneIsNoData
  PROVE  Browser!Failed \in Browser!Store!Reply /\ Browser!Failed.code = "failed" /\ Browser!Failed # None
<1>1. Browser!Failed \in Browser!Store!Reply /\ Browser!Failed.code = "failed"
  BY DEF Browser!Failed, Browser!Store!Refuse, Browser!Store!Reply, Browser!Store!Codes
<1>2. QED
  BY <1>1 DEF Browser!NoneIsNoData

\* What a tab's transaction holds is a reply and its code is one of the four.
LEMMA HeldType ==
  ASSUME Browser!NoneIsNoData, TabIInv, NEW t \in Tabs, step[t] \in {"second", "done", "abort"}
  PROVE  outcome[t] \in Browser!Store!Reply /\ outcome[t] # None /\ outcome[t].value \in Browser!Store!Record \cup {None}
<1>1. request[t] \in Browser!Store!Request /\ Browser!City(t) \in Cities
  BY DEF TabIInv, TabTypeOK, CallShape, Browser!City, Browser!Store!Request, RunOpen
<1>2. records[Browser!City(t)] \in Browser!Store!Record \cup {None}
  BY <1>1 DEF TabIInv, TabTypeOK
<1>3. TabAnswer(t) \in Browser!Store!Reply /\ TabAnswer(t).value \in Browser!Store!Record \cup {None}
  BY <1>1, <1>2, OutcomeType DEF TabAnswer
<1>4. outcome[t] \in Browser!Store!Reply
  BY <1>3, FailedType DEF TabIInv, TabHolds
<1>5. QED
  BY <1>4 DEF Browser!NoneIsNoData, Browser!Store!Reply

-----------------------------------------------------------------------------
(* Every step preserves the invariant.                                      *)

\* A step of tab t leaves what another tab holds as it is if it commits nothing.
LEMMA OthersHold ==
  ASSUME Browser!NoneIsNoData, TabIInv, NEW t \in Tabs, NEW u \in Tabs, u # t, UNCHANGED records,
         step'[u] = step[u], outcome'[u] = outcome[u], request'[u] = request[u]
  PROVE  TabHolds(u)'
BY DEF TabIInv, TabHolds, TabAnswer, Browser!City

LEMMA TabStepIInv ==
  ASSUME Browser!NoneIsNoData, TabIInv, NEW t \in Tabs,
         \/ \E r \in Browser!Store!Request : Browser!Call(t, r)
         \/ Browser!OpenDatabase(t) \/ Browser!Begin(t) \/ Browser!TakeReply(t) \/ Browser!CloseTab(t)
  PROVE  TabIInv'
<1> USE DEF Browser!NoneIsNoData
<1>0. TabTypeOK /\ CallShape /\ Locks /\ ViewShape /\ \A u \in Tabs : TabHolds(u)
  BY DEF TabIInv
<1>1. ASSUME NEW r \in Browser!Store!Request, Browser!Call(t, r) PROVE TabIInv'
  <2>1. TabTypeOK'
    BY <1>0, <1>1 DEF TabTypeOK, Browser!Call, Browser!Goto, Browser!lockVars
  <2>2. CallShape'
    BY <1>0, <1>1 DEF TabTypeOK, CallShape, Browser!Call, Browser!Goto
  <2>3. Locks'
    BY <1>0, <1>1 DEF TabTypeOK, Locks, RunOpen, Browser!Call, Browser!Goto, Browser!lockVars, Browser!Writes
  <2>4. \A u \in Tabs : TabHolds(u)'
    BY <1>0, <1>1 DEF TabTypeOK, TabHolds, TabAnswer, Browser!City, Browser!Call, Browser!Goto
  <2>5. ViewShape'
    BY <1>0, <1>1 DEF TabTypeOK, ViewShape, Locks, RunOpen, Browser!Call, Browser!Goto, Browser!lockVars, Browser!City
  <2>6. QED
    BY <2>1, <2>2, <2>3, <2>4, <2>5 DEF TabIInv
<1>2. CASE Browser!OpenDatabase(t)
  <2>1. TabTypeOK'
    BY <1>0, <1>2, FailedType DEF TabTypeOK, Browser!OpenDatabase, Browser!Return, Browser!Hold, Browser!Goto, Browser!lockVars
  <2>2. CallShape'
    BY <1>0, <1>2, FailedType DEF TabTypeOK, CallShape, Browser!OpenDatabase, Browser!Return, Browser!Goto
  <2>3. Locks'
    BY <1>0, <1>2 DEF TabTypeOK, Locks, RunOpen, Browser!OpenDatabase, Browser!Return, Browser!Goto, Browser!lockVars, Browser!Writes
  <2>4. \A u \in Tabs : TabHolds(u)'
    BY <1>0, <1>2 DEF TabTypeOK, TabHolds, TabAnswer, Browser!City, Browser!OpenDatabase, Browser!Return, Browser!Goto
  <2>5. ViewShape'
    BY <1>0, <1>2 DEF TabTypeOK, ViewShape, Locks, RunOpen, Browser!OpenDatabase, Browser!Return, Browser!Goto, Browser!lockVars, Browser!City
  <2>6. QED
    BY <2>1, <2>2, <2>3, <2>4, <2>5 DEF TabIInv
<1>3. CASE Browser!Begin(t)
  <2>1. TabTypeOK'
    BY <1>0, <1>3 DEF TabTypeOK, RunOpen, Browser!Begin, Browser!Goto
  <2>2. CallShape'
    BY <1>0, <1>3 DEF TabTypeOK, CallShape, Browser!Begin, Browser!Goto
  <2>3. Locks'
    BY <1>0, <1>3 DEF TabTypeOK, Locks, RunOpen, Browser!Begin, Browser!Goto, Browser!Writes
  <2>4. \A u \in Tabs : TabHolds(u)'
    BY <1>0, <1>3 DEF TabTypeOK, TabHolds, TabAnswer, Browser!City, Browser!Begin, Browser!Goto
  <2>5. ViewShape'
    BY <1>0, <1>3 DEF TabTypeOK, ViewShape, Browser!Begin, Browser!Goto
  <2>6. QED
    BY <2>1, <2>2, <2>3, <2>4, <2>5 DEF TabIInv
<1>4. CASE Browser!TakeReply(t) \/ Browser!CloseTab(t)
  <2>0. Browser!Leave(t)
    BY <1>4 DEF Browser!TakeReply, Browser!CloseTab
  <2>1. TabTypeOK'
    BY <1>0, <2>0 DEF TabTypeOK, Browser!Leave, Browser!Unlock
  <2>2. CallShape'
    BY <1>0, <2>0 DEF TabTypeOK, CallShape, Browser!Leave
  <2>3. Locks'
    BY <1>0, <2>0 DEF TabTypeOK, Locks, RunOpen, Browser!Leave, Browser!Unlock, Browser!Writes
  <2>4. \A u \in Tabs : TabHolds(u)'
    BY <1>0, <2>0 DEF TabTypeOK, TabHolds, TabAnswer, Browser!City, Browser!Leave
  <2>5. ViewShape'
    BY <1>0, <2>0 DEF TabTypeOK, ViewShape, Browser!Leave, Browser!Unlock, Browser!City
  <2>6. QED
    BY <2>1, <2>2, <2>3, <2>4, <2>5 DEF TabIInv
<1>5. QED
  BY <1>1, <1>2, <1>3, <1>4

\* The first request of a transaction sees the stored record, and what run()
\* learns from it is the contract's answer.
LEMMA FirstSeesStored ==
  ASSUME Browser!NoneIsNoData, TabIInv, NEW t \in Tabs, step[t] = "first"
  PROVE  /\ request[t] \in Browser!Store!Request /\ Browser!City(t) \in Cities
         /\ records[Browser!City(t)] \in Browser!Store!Record \cup {None}
         /\ Browser!Writes(t) => writer = t /\ view = records
         /\ (IF Browser!Writes(t) THEN view[Browser!City(t)] ELSE records[Browser!City(t)]) = records[Browser!City(t)]
<1>1. request[t] \in Browser!Store!Request
  BY DEF TabIInv, TabTypeOK, CallShape
<1>2. Browser!City(t) \in Cities
  BY <1>1 DEF Browser!City, Browser!Store!Request
<1>3. records[Browser!City(t)] \in Browser!Store!Record \cup {None}
  BY <1>2 DEF TabIInv, TabTypeOK
<1>4. Browser!Writes(t) => writer = t
  BY DEF TabIInv, Locks, RunOpen
<1>5. Browser!Writes(t) => view = records
  BY <1>4 DEF Browser!NoneIsNoData, TabIInv, ViewShape
<1>6. QED
  BY <1>1, <1>2, <1>3, <1>4, <1>5

LEMMA FirstIInv ==
  ASSUME Browser!NoneIsNoData, TabIInv, NEW t \in Tabs, Browser!FirstRequest(t)
  PROVE  TabIInv'
<1> USE DEF Browser!NoneIsNoData
<1>0. TabTypeOK /\ CallShape /\ Locks /\ ViewShape /\ \A u \in Tabs : TabHolds(u)
  BY DEF TabIInv
<1>1. step[t] = "first"
  BY DEF Browser!FirstRequest
<1>2. /\ request[t] \in Browser!Store!Request /\ Browser!City(t) \in Cities
      /\ records[Browser!City(t)] \in Browser!Store!Record \cup {None}
      /\ Browser!Writes(t) => writer = t /\ view = records
      /\ (IF Browser!Writes(t) THEN view[Browser!City(t)] ELSE records[Browser!City(t)]) = records[Browser!City(t)]
  BY <1>1, FirstSeesStored
<1>3. /\ TabAnswer(t) \in Browser!Store!Reply
      /\ TabAnswer(t).value \in Browser!Store!Record \cup {None}
      /\ request[t].kind = "create" /\ records[Browser!City(t)] # None => TabAnswer(t).code # "ok"
      /\ request[t].kind # "create" => (TabAnswer(t).code = "ok" <=> records[Browser!City(t)] # None)
      /\ request[t].kind = "create" /\ records[Browser!City(t)] = None => TabAnswer(t).code = "ok"
  BY <1>2, OutcomeType DEF TabAnswer
<1>4. UNCHANGED <<records, writer, readers, request, reply>>
  BY DEF Browser!FirstRequest, Browser!lockVars
<1>5. \/ /\ outcome' = [outcome EXCEPT ![t] = TabAnswer(t)]
         /\ step' = [step EXCEPT ![t] = "abort"] /\ view' = view /\ TabAnswer(t).code # "ok"
      \/ /\ outcome' = [outcome EXCEPT ![t] = Browser!Failed]
         /\ step' = [step EXCEPT ![t] = "abort"] /\ view' = view
      \/ /\ outcome' = [outcome EXCEPT ![t] = TabAnswer(t)]
         /\ step' = [step EXCEPT ![t] = "done"] /\ Browser!Writes(t) /\ TabAnswer(t).code = "ok"
         /\ view' = [view EXCEPT ![Browser!City(t)] = TabAnswer(t).value]
      \/ /\ outcome' = [outcome EXCEPT ![t] = TabAnswer(t)]
         /\ step' = [step EXCEPT ![t] = "done"] /\ view' = view
         /\ Browser!Writes(t) => TabAnswer(t).code # "ok"
      \/ /\ outcome' = [outcome EXCEPT ![t] = TabAnswer(t)]
         /\ step' = [step EXCEPT ![t] = "second"] /\ view' = view
         /\ TabAnswer(t).code = "ok" /\ request[t].kind \notin {"create", "read"}
  <2>1. Browser!Store!Outcome(request[t], IF Browser!Writes(t) THEN view[Browser!City(t)] ELSE records[Browser!City(t)]) = TabAnswer(t)
    BY <1>2 DEF TabAnswer
  <2>2. PICK found, result :
          /\ found = records[Browser!City(t)] /\ result = TabAnswer(t)
          /\ \/ request[t].kind = "create" /\ found # None /\ Browser!Reject(t, result)
             \/ /\ request[t].kind = "create" /\ found = None
                /\ view' = [view EXCEPT ![Browser!City(t)] = result.value]
                /\ Browser!Hold(t, result)
                /\ Browser!Goto(t, "done")
             \/ /\ request[t].kind # "create"
                /\ Browser!Hold(t, result)
                /\ Browser!Goto(t, IF request[t].kind = "read" \/ found = None THEN "done" ELSE "second")
                /\ UNCHANGED view
             \/ Browser!Reject(t, Browser!Failed)
    BY <1>2, <2>1 DEF Browser!FirstRequest, Browser!City
  <2>3. QED
    BY <2>2, <1>3 DEF Browser!Reject, Browser!Hold, Browser!Goto, Browser!Writes
<1>6. /\ step' \in [Tabs -> {"idle", "open", "wait", "reply"} \cup RunOpen]
      /\ step'[t] \in {"second", "done", "abort"}
      /\ \A u \in Tabs \ {t} : step'[u] = step[u] /\ outcome'[u] = outcome[u]
  BY <1>0, <1>5 DEF TabTypeOK, RunOpen
<1>7. TabTypeOK'
  <2>1. outcome' \in [Tabs -> Browser!Store!Reply \cup {None}]
    BY <1>0, <1>3, <1>5, FailedType DEF TabTypeOK
  <2>2. view' \in [Cities -> Browser!Store!Record \cup {None}]
    BY <1>0, <1>3, <1>5 DEF TabTypeOK
  <2>3. QED
    BY <1>0, <1>4, <1>6, <2>1, <2>2 DEF TabTypeOK
<1>8. CallShape'
  BY <1>0, <1>1, <1>4, <1>6 DEF CallShape
<1>9. Locks'
  <2>1. \A u \in Tabs : Browser!Writes(u)' = Browser!Writes(u) /\ (step'[u] \in RunOpen <=> step[u] \in RunOpen)
    BY <1>1, <1>4, <1>6 DEF Browser!Writes, RunOpen
  <2>2. \A u \in Tabs : step'[u] \in RunOpen => IF Browser!Writes(u)' THEN writer' = u ELSE u \in readers'
    BY <1>0, <1>1, <1>4, <1>6, <2>1 DEF Locks
  <2>3. \A u \in readers' : step'[u] \in RunOpen /\ ~Browser!Writes(u)'
    BY <1>0, <1>1, <1>4, <1>6, <2>1 DEF Locks, TabTypeOK
  <2>4. writer' # None => step'[writer'] \in RunOpen /\ Browser!Writes(writer)' /\ readers' = {}
    BY <1>0, <1>1, <1>4, <1>6, <2>1 DEF Locks, TabTypeOK
  <2>5. QED
    BY <2>2, <2>3, <2>4 DEF Locks
<1>10. \A u \in Tabs : TabHolds(u)'
  <2>1. TabHolds(t)'
    BY <1>0, <1>4, <1>5 DEF TabTypeOK, TabHolds, TabAnswer, Browser!City
  <2>2. QED
    BY <2>1, <1>4, <1>6, OthersHold
<1>11. ViewShape'
  <2>1. CASE writer = t
    <3>1. view = records /\ Browser!Writes(t)
      BY <1>0, <1>2, <2>1 DEF Locks
    <3>2. QED
      BY <1>0, <1>4, <1>5, <2>1, <3>1 DEF TabTypeOK, ViewShape, Browser!City
  <2>2. CASE writer # t
    <3>1. view' = view
      BY <1>2, <1>5, <2>2
    <3>2. QED
      BY <1>0, <1>4, <1>6, <2>2, <3>1 DEF TabTypeOK, ViewShape, Browser!City
  <2>3. QED
    BY <2>1, <2>2
<1>12. QED
  BY <1>7, <1>8, <1>9, <1>10, <1>11 DEF TabIInv

LEMMA SecondIInv ==
  ASSUME Browser!NoneIsNoData, TabIInv, NEW t \in Tabs, Browser!SecondRequest(t)
  PROVE  TabIInv'
<1> USE DEF Browser!NoneIsNoData
<1>0. TabTypeOK /\ CallShape /\ Locks /\ ViewShape /\ \A u \in Tabs : TabHolds(u)
  BY DEF TabIInv
<1>1. step[t] = "second" /\ UNCHANGED <<records, writer, readers, request, reply>>
  BY DEF Browser!SecondRequest, Browser!lockVars
<1>2. outcome[t] \in Browser!Store!Reply /\ outcome[t].value \in Browser!Store!Record \cup {None}
  BY <1>1, HeldType
<1>3. outcome[t] = TabAnswer(t) /\ outcome[t].code = "ok"
  BY <1>0, <1>1 DEF TabHolds
<1>4. \/ /\ view' = [view EXCEPT ![Browser!City(t)] = outcome[t].value]
         /\ step' = [step EXCEPT ![t] = "done"] /\ outcome' = outcome
      \/ /\ view' = view /\ step' = [step EXCEPT ![t] = "abort"]
         /\ outcome' = [outcome EXCEPT ![t] = Browser!Failed]
  BY DEF Browser!SecondRequest, Browser!Goto, Browser!Reject, Browser!Hold
<1>5. /\ step' \in [Tabs -> {"idle", "open", "wait", "reply"} \cup RunOpen]
      /\ step'[t] \in {"done", "abort"}
      /\ \A u \in Tabs \ {t} : step'[u] = step[u] /\ outcome'[u] = outcome[u]
  BY <1>0, <1>4 DEF TabTypeOK, RunOpen
<1>6. TabTypeOK'
  <2>1. outcome' \in [Tabs -> Browser!Store!Reply \cup {None}]
    BY <1>0, <1>4, FailedType DEF TabTypeOK
  <2>2. view' \in [Cities -> Browser!Store!Record \cup {None}]
    BY <1>0, <1>2, <1>4 DEF TabTypeOK
  <2>3. QED
    BY <1>0, <1>1, <1>5, <2>1, <2>2 DEF TabTypeOK
<1>7. CallShape'
  BY <1>0, <1>1, <1>5 DEF CallShape
<1>8. Locks'
  <2>1. \A u \in Tabs : Browser!Writes(u)' = Browser!Writes(u) /\ (step'[u] \in RunOpen <=> step[u] \in RunOpen)
    BY <1>1, <1>5 DEF Browser!Writes, RunOpen
  <2>2. \A u \in Tabs : step'[u] \in RunOpen => IF Browser!Writes(u)' THEN writer' = u ELSE u \in readers'
    BY <1>0, <1>1, <1>5, <2>1 DEF Locks
  <2>3. \A u \in readers' : step'[u] \in RunOpen /\ ~Browser!Writes(u)'
    BY <1>0, <1>1, <1>5, <2>1 DEF Locks, TabTypeOK
  <2>4. writer' # None => step'[writer'] \in RunOpen /\ Browser!Writes(writer)' /\ readers' = {}
    BY <1>0, <1>1, <1>5, <2>1 DEF Locks, TabTypeOK
  <2>5. QED
    BY <2>2, <2>3, <2>4 DEF Locks
<1>9. \A u \in Tabs : TabHolds(u)'
  <2>1. TabHolds(t)'
    BY <1>0, <1>1, <1>3, <1>4 DEF TabTypeOK, TabHolds, TabAnswer, Browser!City
  <2>2. QED
    BY <2>1, <1>1, <1>5, OthersHold
<1>10. ViewShape'
  <2>1. CASE writer = t
    <3>1. view = records
      BY <1>0, <1>1, <2>1 DEF ViewShape
    <3>2. QED
      BY <1>0, <1>1, <1>3, <1>4, <2>1, <3>1 DEF TabTypeOK, ViewShape, Browser!City
  <2>2. CASE writer # t
    <3>1. FALSE
      BY <1>0, <1>1, <2>2 DEF Locks, RunOpen, TabHolds, Browser!Writes
    <3>2. QED
      BY <3>1
  <2>3. QED
    BY <2>1, <2>2
<1>11. QED
  BY <1>6, <1>7, <1>8, <1>9, <1>10 DEF TabIInv

\* A transaction that ends: while a writer runs nobody else does, and afterwards
\* none runs.
LEMMA NoWriterAfter ==
  ASSUME Browser!NoneIsNoData, TabIInv, NEW t \in Tabs, step[t] \in RunOpen, Browser!Unlock(t)
  PROVE  /\ writer' = None
         /\ Browser!Writes(t) => \A u \in Tabs \ {t} : step[u] \notin RunOpen
BY DEF Browser!NoneIsNoData, TabIInv, Locks, Browser!Unlock

LEMMA EndIInv ==
  ASSUME Browser!NoneIsNoData, TabIInv, NEW t \in Tabs, Browser!Done(t) \/ Browser!Abort(t)
  PROVE  TabIInv'
<1> USE DEF Browser!NoneIsNoData
<1>0. TabTypeOK /\ CallShape /\ Locks /\ ViewShape /\ \A u \in Tabs : TabHolds(u)
  BY DEF TabIInv
<1>1. step[t] \in {"done", "abort"} /\ Browser!Unlock(t) /\ UNCHANGED <<view, request>>
  BY DEF Browser!Done, Browser!Abort
<1>2. outcome[t] \in Browser!Store!Reply /\ outcome[t] # None
  BY <1>1, HeldType
<1>3. records' = records \/ (Browser!Writes(t) /\ records' = view)
  BY DEF Browser!Done, Browser!Abort
<1>4. PICK result \in Browser!Store!Reply : result # None /\ Browser!Return(t, result)
  BY <1>2, FailedType DEF Browser!Done, Browser!Abort
<1>5. /\ step' \in [Tabs -> {"idle", "open", "wait", "reply"} \cup RunOpen]
      /\ step'[t] = "reply"
      /\ \A u \in Tabs \ {t} : step'[u] = step[u] /\ outcome'[u] = outcome[u] /\ reply'[u] = reply[u]
  BY <1>0, <1>4 DEF TabTypeOK, Browser!Return, Browser!Goto
<1>6. writer' = None /\ readers' = readers \ {t}
  BY <1>1, NoWriterAfter DEF RunOpen, Browser!Unlock
<1>7. TabTypeOK'
  <2>1. outcome' \in [Tabs -> Browser!Store!Reply \cup {None}] /\ reply' \in [Tabs -> Browser!Store!Reply \cup {None}]
    BY <1>0, <1>4 DEF TabTypeOK, Browser!Return
  <2>2. records' \in [Cities -> Browser!Store!Record \cup {None}]
    BY <1>0, <1>3 DEF TabTypeOK
  <2>3. QED
    BY <1>0, <1>1, <1>5, <1>6, <2>1, <2>2 DEF TabTypeOK
<1>8. CallShape'
  <2>1. reply'[t] # None /\ request[t] # None
    BY <1>0, <1>1, <1>4 DEF TabTypeOK, CallShape, Browser!Return
  <2>2. QED
    BY <1>0, <1>1, <1>5, <2>1 DEF CallShape
<1>9. Locks'
  <2>1. \A u \in Tabs : Browser!Writes(u)' = Browser!Writes(u)
    BY <1>1 DEF Browser!Writes
  <2>2. \A u \in Tabs : step'[u] \in RunOpen => IF Browser!Writes(u)' THEN writer' = u ELSE u \in readers'
    <3>1. ASSUME NEW u \in Tabs, step'[u] \in RunOpen PROVE ~Browser!Writes(u) /\ u \in readers'
      <4>1. u # t /\ step[u] \in RunOpen
        BY <1>5, <3>1 DEF RunOpen
      <4>2. u # writer
        BY <1>1, <4>1, <1>6 DEF Browser!Unlock
      <4>3. QED
        BY <1>0, <1>6, <4>1, <4>2 DEF Locks
    <3>2. QED
      BY <2>1, <3>1
  <2>3. \A u \in readers' : step'[u] \in RunOpen /\ ~Browser!Writes(u)'
    BY <1>0, <1>5, <1>6, <2>1 DEF Locks, TabTypeOK
  <2>4. QED
    BY <1>6, <2>2, <2>3 DEF Locks
<1>10. \A u \in Tabs : TabHolds(u)'
  <2>1. TabHolds(t)'
    BY <1>5 DEF TabHolds
  <2>2. ASSUME NEW u \in Tabs, u # t PROVE TabHolds(u)'
    <3>1. CASE records' = records
      BY <1>1, <1>5, <2>2, <3>1, OthersHold
    <3>2. CASE Browser!Writes(t)
      <4>1. step[u] \notin RunOpen
        BY <1>1, <2>2, <3>2, NoWriterAfter DEF RunOpen
      <4>2. QED
        BY <1>5, <2>2, <4>1 DEF TabHolds, RunOpen
    <3>3. QED
      BY <1>3, <3>1, <3>2
  <2>3. QED
    BY <2>1, <2>2
<1>11. ViewShape'
  BY <1>6 DEF ViewShape
<1>12. QED
  BY <1>7, <1>8, <1>9, <1>10, <1>11 DEF TabIInv

LEMMA TabNextIInv ==
  ASSUME Browser!NoneIsNoData
  PROVE  TabIInv /\ [Browser!Next]_(Browser!vars) => TabIInv'
<1> SUFFICES ASSUME TabIInv, [Browser!Next]_(Browser!vars) PROVE TabIInv'
  OBVIOUS
<1>1. CASE UNCHANGED Browser!vars
  BY <1>1 DEF Browser!vars, TabIInv, TabTypeOK, CallShape, Locks, Browser!Writes, TabHolds, TabAnswer, Browser!City, ViewShape
<1>2. CASE Browser!Next
  BY <1>2, TabStepIInv, FirstIInv, SecondIInv, EndIInv DEF Browser!Next
<1>3. QED
  BY <1>1, <1>2

\* The invariant holds in every reachable state.
THEOREM TabInvariance ==
  ASSUME Browser!NoneIsNoData
  PROVE  Browser!Spec => []TabIInv
BY TabInitIInv, TabNextIInv, PTL DEF Browser!Spec

\* Transactions overlap only if none of them writes, however many tabs there are.
THEOREM WritersRunAlone ==
  ASSUME Browser!NoneIsNoData
  PROVE  Browser!Spec => []Locks
<1>1. TabIInv => Locks
  BY DEF TabIInv
<1>2. QED
  BY <1>1, TabInvariance, PTL

-----------------------------------------------------------------------------
(* Refinement: each step of a tab is a step of the contract for that tab or *)
(* changes nothing the contract can see.                                    *)

\* A commit: the answer is the contract's for the record stored at that moment.
LEMMA TabPerformStep ==
  ASSUME Browser!NoneIsNoData, NEW t \in Tabs, request[t] # None, reply[t] = None, UNCHANGED request,
         reply' = [reply EXCEPT ![t] = TabAnswer(t)],
         records' = IF TabAnswer(t).code = "ok"
                    THEN [records EXCEPT ![Browser!City(t)] = TabAnswer(t).value]
                    ELSE records
  PROVE  Browser!Store!Next
<1>1. Browser!Store!Perform(t)
  BY DEF Browser!Store!Perform, TabAnswer, Browser!City
<1>2. QED
  BY <1>1 DEF Browser!Store!Next

\* An operation that fails changes nothing.
LEMMA TabFailStep ==
  ASSUME Browser!NoneIsNoData, NEW t \in Tabs, request[t] # None, reply[t] = None, UNCHANGED <<records, request>>,
         reply' = [reply EXCEPT ![t] = Browser!Failed]
  PROVE  Browser!Store!Next
<1>1. Browser!Store!Fail(t)
  BY DEF Browser!Store!Fail, Browser!Failed
<1>2. QED
  BY <1>1 DEF Browser!Store!Next

\* What the contract can see of a step that only moves the adapter on.
LEMMA TabSilentStep ==
  ASSUME Browser!NoneIsNoData, UNCHANGED <<records, request, reply>>
  PROVE  UNCHANGED Browser!Store!vars
BY DEF Browser!Store!vars

LEMMA DoneRefines ==
  ASSUME Browser!NoneIsNoData, TabIInv, NEW t \in Tabs, Browser!Done(t)
  PROVE  Browser!Store!Next
<1>0. TabTypeOK /\ CallShape /\ Locks /\ ViewShape /\ TabHolds(t)
  BY DEF TabIInv
<1>1. step[t] = "done" /\ UNCHANGED request
  BY DEF Browser!Done
<1>2. request[t] \in Browser!Store!Request /\ request[t] # None /\ reply[t] = None
  BY <1>0, <1>1 DEF Browser!NoneIsNoData, TabTypeOK, CallShape
<1>3. Browser!City(t) \in Cities /\ records[Browser!City(t)] \in Browser!Store!Record \cup {None}
  BY <1>0, <1>2 DEF Browser!City, Browser!Store!Request, TabTypeOK
<1>4. outcome[t] = TabAnswer(t)
  BY <1>0, <1>1 DEF TabHolds
<1>5. CASE records' = (IF Browser!Writes(t) THEN view ELSE records) /\ Browser!Return(t, outcome[t])
  <2>1. reply' = [reply EXCEPT ![t] = TabAnswer(t)]
    BY <1>4, <1>5 DEF Browser!Return
  <2>2. CASE Browser!Writes(t)
    <3>1. writer = t /\ writer # None
      BY <1>0, <1>1, <2>2 DEF Browser!NoneIsNoData, Locks, RunOpen
    <3>2. view = IF TabAnswer(t).code = "ok"
                 THEN [records EXCEPT ![Browser!City(t)] = TabAnswer(t).value] ELSE records
      BY <1>0, <1>1, <1>4, <3>1 DEF ViewShape
    <3>3. QED
      BY <1>1, <1>2, <1>5, <2>1, <2>2, <3>2, TabPerformStep
  <2>3. CASE ~Browser!Writes(t)
    <3>1. TabAnswer(t).code = "ok" => TabAnswer(t).value = records[Browser!City(t)]
      BY <1>2, <1>3, <2>3, OutcomeType DEF TabAnswer, Browser!Writes
    <3>2. TabAnswer(t).code = "ok" => records = [records EXCEPT ![Browser!City(t)] = TabAnswer(t).value]
      BY <1>0, <3>1 DEF TabTypeOK
    <3>3. QED
      BY <1>1, <1>2, <1>5, <2>1, <2>3, <3>2, TabPerformStep
  <2>4. QED
    BY <2>2, <2>3
<1>6. CASE UNCHANGED records /\ Browser!Return(t, Browser!Failed)
  BY <1>1, <1>2, <1>6, TabFailStep DEF Browser!Return
<1>7. QED
  BY <1>5, <1>6 DEF Browser!Done

LEMMA AbortRefines ==
  ASSUME Browser!NoneIsNoData, TabIInv, NEW t \in Tabs, Browser!Abort(t)
  PROVE  Browser!Store!Next
<1>0. TabTypeOK /\ CallShape /\ TabHolds(t)
  BY DEF TabIInv
<1>1. step[t] = "abort" /\ UNCHANGED <<records, request>> /\ reply' = [reply EXCEPT ![t] = outcome[t]]
  BY DEF Browser!Abort, Browser!Return
<1>2. request[t] # None /\ reply[t] = None
  BY <1>0, <1>1 DEF CallShape
<1>3. CASE outcome[t] = Browser!Failed
  BY <1>1, <1>2, <1>3, TabFailStep
<1>4. CASE outcome[t] = TabAnswer(t) /\ outcome[t].code # "ok"
  BY <1>1, <1>2, <1>4, TabPerformStep
<1>5. QED
  BY <1>0, <1>1, <1>3, <1>4 DEF TabHolds

LEMMA TabStepRefines ==
  ASSUME Browser!NoneIsNoData
  PROVE  TabIInv /\ [Browser!Next]_(Browser!vars) => [Browser!Store!Next]_(Browser!Store!vars)
<1> SUFFICES ASSUME TabIInv, [Browser!Next]_(Browser!vars) PROVE [Browser!Store!Next]_(Browser!Store!vars)
  OBVIOUS
<1>0. TabTypeOK /\ CallShape
  BY DEF TabIInv
<1>1. ASSUME NEW t \in Tabs, NEW r \in Browser!Store!Request, Browser!Call(t, r) PROVE Browser!Store!Next
  <2>1. Browser!Store!Invoke(t, r)
    BY <1>0, <1>1 DEF CallShape, Browser!Call, Browser!Store!Invoke
  <2>2. QED
    BY <2>1 DEF Browser!Store!Next
<1>2. ASSUME NEW t \in Tabs, Browser!OpenDatabase(t) PROVE [Browser!Store!Next]_(Browser!Store!vars)
  <2>1. step[t] = "open" /\ UNCHANGED <<records, request>> /\ request[t] # None /\ reply[t] = None
    BY <1>0, <1>2 DEF CallShape, Browser!OpenDatabase
  <2>2. UNCHANGED reply \/ reply' = [reply EXCEPT ![t] = Browser!Failed]
    BY <1>2 DEF Browser!OpenDatabase, Browser!Return
  <2>3. QED
    BY <2>1, <2>2, TabSilentStep, TabFailStep
<1>3. ASSUME NEW t \in Tabs, Browser!Begin(t) \/ Browser!FirstRequest(t) \/ Browser!SecondRequest(t)
      PROVE  UNCHANGED Browser!Store!vars
  <2>1. UNCHANGED <<records, request, reply>>
    BY <1>3 DEF Browser!Begin, Browser!FirstRequest, Browser!SecondRequest
  <2>2. QED
    BY <2>1, TabSilentStep
<1>4. ASSUME NEW t \in Tabs, Browser!TakeReply(t) \/ Browser!CloseTab(t) PROVE Browser!Store!Next
  <2>1. step[t] # "idle" /\ Browser!Leave(t)
    BY <1>4 DEF Browser!TakeReply, Browser!CloseTab
  <2>2. Browser!Store!Leave(t)
    BY <1>0, <2>1 DEF CallShape, Browser!Leave, Browser!Store!Leave
  <2>3. QED
    BY <2>2 DEF Browser!Store!Next
<1>5. ASSUME NEW t \in Tabs, Browser!Done(t) \/ Browser!Abort(t) PROVE Browser!Store!Next
  BY <1>5, DoneRefines, AbortRefines
<1>6. CASE UNCHANGED Browser!vars
  BY <1>6, TabSilentStep DEF Browser!vars
<1>7. QED
  BY <1>1, <1>2, <1>3, <1>4, <1>5, <1>6 DEF Browser!Next

LEMMA TabInitRefines ==
  ASSUME Browser!NoneIsNoData
  PROVE  Browser!Init => Browser!Store!Init
BY DEF Browser!Init, Browser!Store!Init

\* The browser store keeps the contract of CitySaveStore with any number of
\* tabs: what one tab's updateCity or renameCity read is still the stored record
\* when it commits, an answer ok never precedes the commit, and a request that
\* fails, a transaction that is aborted or a tab that is closed changes nothing.
THEOREM BrowserStoreKeepsContract ==
  ASSUME Browser!NoneIsNoData
  PROVE  Browser!Spec => Browser!KeepsContract
<1>1. TabIInv /\ [Browser!Next]_(Browser!vars) => [Browser!Store!Next]_(Browser!Store!vars)
  BY TabStepRefines
<1>2. QED
  BY TabInitRefines, <1>1, TabInvariance, PTL DEF Browser!Spec, Browser!KeepsContract, Browser!Store!Spec

===============================================================================
