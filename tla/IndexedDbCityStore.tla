-------------------------- MODULE IndexedDbCityStore --------------------------
(***************************************************************************)
(* The browser store, src/persistence/indexedDbCitySaveStore.ts, used by    *)
(* any number of tabs on one database.  An operation opens the database,    *)
(* issues one or two requests inside a single transaction and awaits its    *)
(* completion.  The database is external: it runs overlapping read-write    *)
(* transactions one at a time, may fail any request and may abort any       *)
(* transaction instead of completing it; closing a tab aborts its own.      *)
(***************************************************************************)
EXTENDS Naturals

CONSTANTS Tabs, Cities, Names, Versions, None

VARIABLES
    records,     \* the durable object store: city -> record, or None
    writer,      \* tab whose read-write transaction is running, or None
    readers,     \* tabs whose read-only transaction is running
    view,        \* the object store as the writer's transaction sees it
    request,     \* tab -> its pending operation, or None
    pc,          \* tab -> the promise its adapter is suspended at
    outcome,     \* tab -> value or error of run(), not yet returned, or None
    reply        \* tab -> the returned result, or None

vars == <<records, writer, readers, view, request, pc, outcome, reply>>

Store == INSTANCE CityStore WITH Clients <- Tabs

ASSUME NoneIsNoData == None \notin Tabs \cup Store!Record \cup Store!Request \cup Store!Reply

Init ==
    /\ records = [c \in Cities |-> None]
    /\ writer = None
    /\ readers = {}
    /\ view = records
    /\ request = [t \in Tabs |-> None]
    /\ pc = [t \in Tabs |-> "idle"]
    /\ outcome = [t \in Tabs |-> None]
    /\ reply = [t \in Tabs |-> None]

City(t) == request[t].city
Writes(t) == request[t].kind # "read"

Failed == Store!Refuse("failed")

Goto(t, stage) == pc' = [pc EXCEPT ![t] = stage]
Hold(t, result) == outcome' = [outcome EXCEPT ![t] = result]

Return(t, result) ==
    /\ Goto(t, "reply")
    /\ reply' = [reply EXCEPT ![t] = result]
    /\ outcome' = [outcome EXCEPT ![t] = None]

\* A transaction that completed or aborted lets the next one run.
Unlock(t) ==
    /\ writer' = IF writer = t THEN None ELSE writer
    /\ readers' = readers \ {t}

lockVars == <<writer, readers>>

Call(t, r) ==
    /\ pc[t] = "idle"
    /\ request' = [request EXCEPT ![t] = r]
    /\ Goto(t, "open")
    /\ UNCHANGED <<records, lockVars, view, outcome, reply>>

OpenDatabase(t) ==
    /\ pc[t] = "open"
    /\ \/ Goto(t, "wait") /\ UNCHANGED <<outcome, reply>>
       \/ Return(t, Failed)
    /\ UNCHANGED <<records, lockVars, view, request>>

\* database.transaction(): granted when no overlapping transaction runs.
Begin(t) ==
    /\ pc[t] = "wait"
    /\ writer = None
    /\ IF Writes(t)
       THEN readers = {} /\ writer' = t /\ view' = records /\ UNCHANGED readers
       ELSE readers' = readers \cup {t} /\ UNCHANGED <<writer, view>>
    /\ Goto(t, "first")
    /\ UNCHANGED <<records, request, outcome, reply>>

\* A rejected request: runTransaction aborts and rethrows what it caught.
Reject(t, result) ==
    /\ Hold(t, result)
    /\ Goto(t, "abort")
    /\ UNCHANGED view

\* get, add, getKey or getAll: what run() learns from its first request.
FirstRequest(t) ==
    /\ pc[t] = "first"
    /\ LET r == request[t]
           found == IF Writes(t) THEN view[r.city] ELSE records[r.city]
           result == Store!Outcome(r, found)
       IN \/ r.kind = "create" /\ found # None /\ Reject(t, result)
          \/ /\ r.kind = "create" /\ found = None
             /\ view' = [view EXCEPT ![r.city] = result.value]
             /\ Hold(t, result)
             /\ Goto(t, "done")
          \/ /\ r.kind # "create"
             /\ Hold(t, result)
             /\ Goto(t, IF r.kind = "read" \/ found = None THEN "done" ELSE "second")
             /\ UNCHANGED view
          \/ Reject(t, Failed)
    /\ UNCHANGED <<records, lockVars, request, reply>>

\* Fault: the answer is the result of put(), before the transaction completes.
EagerRequest(t) ==
    /\ pc[t] = "second"
    /\ \/ /\ view' = [view EXCEPT ![City(t)] = outcome[t].value]
          /\ Goto(t, "done")
          /\ reply' = [reply EXCEPT ![t] = outcome[t]]
          /\ UNCHANGED outcome
       \/ Reject(t, Failed) /\ UNCHANGED reply
    /\ UNCHANGED <<records, lockVars, request>>

\* put or delete; DataCloneError and quota errors arrive here.
SecondRequest(t) ==
    /\ pc[t] = "second"
    /\ \/ /\ view' = [view EXCEPT ![City(t)] = outcome[t].value]
          /\ Goto(t, "done")
          /\ UNCHANGED outcome
       \/ Reject(t, Failed)
    /\ UNCHANGED <<records, lockVars, request, reply>>

\* `await done`: complete makes the writer's view durable; a late abort does not.
Done(t) ==
    /\ pc[t] = "done"
    /\ \/ /\ records' = IF Writes(t) THEN view ELSE records
          /\ Return(t, outcome[t])
       \/ /\ UNCHANGED records
          /\ Return(t, Failed)
    /\ Unlock(t)
    /\ UNCHANGED <<view, request>>

\* The catch of runTransaction: abort, await the abort, answer the error.
Abort(t) ==
    /\ pc[t] = "abort"
    /\ Return(t, outcome[t])
    /\ Unlock(t)
    /\ UNCHANGED <<records, view, request>>

Leave(t) ==
    /\ request' = [request EXCEPT ![t] = None]
    /\ pc' = [pc EXCEPT ![t] = "idle"]
    /\ outcome' = [outcome EXCEPT ![t] = None]
    /\ reply' = [reply EXCEPT ![t] = None]
    /\ Unlock(t)
    /\ UNCHANGED <<records, view>>

TakeReply(t) == pc[t] = "reply" /\ Leave(t)
CloseTab(t) == pc[t] # "idle" /\ Leave(t)

Next ==
    \E t \in Tabs :
        \/ \E r \in Store!Request : Call(t, r)
        \/ OpenDatabase(t)
        \/ Begin(t)
        \/ FirstRequest(t)
        \/ SecondRequest(t)
        \/ Done(t)
        \/ Abort(t)
        \/ TakeReply(t)
        \/ CloseTab(t)

Spec == Init /\ [][Next]_vars

-----------------------------------------------------------------------------
(* Properties.                                                              *)

\* The contract of CitySaveStore with several tabs at once: the read and the
\* write of updateCity and renameCity are in one transaction, so no tab's
\* change is lost, and no answer runs ahead of the commit.
KeepsContract == Store!Spec

=============================================================================
