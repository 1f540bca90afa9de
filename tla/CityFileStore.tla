----------------------------- MODULE CityFileStore -----------------------------
(***************************************************************************)
(* The desktop store, src-tauri/src/city_store.rs: one JSON file per city,  *)
(* written to a temporary file first and committed by hard_link (create) or *)
(* rename (update, rename).  Commands are synchronous and run one at a time *)
(* on the main thread of the only process; each file system call is a step, *)
(* may fail, and the process may be killed between any two of them.  What a *)
(* power loss does to unsynced data is not modelled: nothing is synced and  *)
(* the design claims nothing.                                               *)
(***************************************************************************)
EXTENDS Naturals

CONSTANTS Cities, Names, Versions, None,
          Partial        \* contents of a file whose write_all has not finished

VARIABLES
    committed,   \* city -> contents of its committed file, or None
    temp,        \* city -> contents of its temporary file, or None
    linked,      \* cities whose two names are hard links to one file
    cmd,         \* the running command, or None
    pc,          \* the file system call it is about to make
    draft,       \* the record it is writing, or None
    answer       \* the result it will return, or None

vars == <<committed, temp, linked, cmd, pc, draft, answer>>
diskVars == <<committed, temp, linked>>

Process == "app"

Store == INSTANCE CityStore WITH
    Clients <- {Process},
    records <- committed,
    request <- [p \in {Process} |-> cmd],
    reply   <- [p \in {Process} |-> answer]

Contents == Store!Record \cup {Partial}

ASSUME FileAssumption ==
    /\ None \notin Contents \cup Store!Request \cup Store!Reply
    /\ Partial \notin Store!Record

TypeOK ==
    /\ committed \in [Cities -> Contents \cup {None}]
    /\ temp \in [Cities -> Contents \cup {None}]
    /\ linked \in SUBSET Cities
    /\ cmd \in Store!Request \cup {None}
    /\ pc \in {"idle", "read", "unstale", "open", "write", "commit", "tidy", "reply"}
    /\ draft \in Store!Record \cup {None}
    /\ answer \in Store!Reply \cup {None}

Init ==
    /\ committed = [c \in Cities |-> None]
    /\ temp = [c \in Cities |-> None]
    /\ linked = {}
    /\ cmd = None
    /\ pc = "idle"
    /\ draft = None
    /\ answer = None

\* Leave the directory entry of the temporary file, or remove it.
KeepTemp == UNCHANGED <<temp, linked>>
RemoveTemp ==
    /\ temp' = [temp EXCEPT ![cmd.city] = None]
    /\ linked' = linked \ {cmd.city}

Goto(stage) == pc' = stage /\ UNCHANGED answer
Return(result) == pc' = "reply" /\ answer' = result

Failed == Store!Refuse("failed")

Call(r) ==
    /\ pc = "idle"
    /\ cmd' = r
    /\ CASE r.kind \in {"read", "update", "rename"} ->
              pc' = "read" /\ draft' = None
         [] r.kind = "create" ->
              pc' = "unstale" /\ draft' = Store!Replacement(r, None)
         [] r.kind = "delete" ->
              pc' = "commit" /\ draft' = None
    /\ UNCHANGED <<diskVars, answer>>

\* read_city: a missing file is notFound, an I/O or parse error is failed.
ReadRecord ==
    /\ pc = "read"
    /\ LET found == committed[cmd.city]
       IN \/ found = None /\ Return(Store!Refuse("notFound")) /\ UNCHANGED draft
          \/ Return(Failed) /\ UNCHANGED draft
          \/ /\ found \in Store!Record
             /\ IF cmd.kind = "read"
                THEN Return(Store!Outcome(cmd, found)) /\ UNCHANGED draft
                ELSE Goto("unstale") /\ draft' = Store!Replacement(cmd, found)
    /\ UNCHANGED <<diskVars, cmd>>

\* write_temp_record, first half: the directory, the JSON bytes and the removal
\* of a stale temporary file, whose failure ends the command.
RemoveStaleTemp ==
    /\ pc = "unstale"
    /\ \/ RemoveTemp /\ Goto("open")
       \/ KeepTemp /\ Return(Failed)
    /\ UNCHANGED <<committed, cmd, draft>>

\* open(create_new): fails when the name exists.
OpenTemp ==
    /\ pc = "open"
    /\ \/ /\ temp[cmd.city] = None
          /\ temp' = [temp EXCEPT ![cmd.city] = Partial]
          /\ Goto("write")
       \/ UNCHANGED temp /\ Return(Failed)
    /\ UNCHANGED <<committed, linked, cmd, draft>>

\* Fault: the result of write_all is ignored.
WriteTempUnchecked ==
    /\ pc = "write"
    /\ temp' \in {temp, [temp EXCEPT ![cmd.city] = draft]}
    /\ Goto("commit")
    /\ UNCHANGED <<committed, linked, cmd, draft>>

\* write_all, and the best-effort removal when it fails.
WriteTemp ==
    /\ pc = "write"
    /\ \/ temp' = [temp EXCEPT ![cmd.city] = draft] /\ UNCHANGED linked /\ Goto("commit")
       \/ (KeepTemp \/ RemoveTemp) /\ Return(Failed)
    /\ UNCHANGED <<committed, cmd, draft>>

\* Fault: a new city is renamed into place, over whatever has that name.
LinkOver ==
    /\ pc = "commit"
    /\ cmd.kind = "create"
    /\ pc' = "tidy"
    /\ committed' = [committed EXCEPT ![cmd.city] = temp[cmd.city]]
    /\ linked' = linked \cup {cmd.city}
    /\ answer' = [code |-> "ok", value |-> draft]
    /\ UNCHANGED <<temp, cmd, draft>>

\* create_city: hard_link commits only a name that does not exist yet.
Link ==
    /\ pc = "commit"
    /\ cmd.kind = "create"
    /\ pc' = "tidy"
    /\ \/ /\ committed[cmd.city] = None
          /\ committed' = [committed EXCEPT ![cmd.city] = temp[cmd.city]]
          /\ linked' = linked \cup {cmd.city}
          /\ answer' = [code |-> "ok", value |-> draft]
       \/ /\ committed[cmd.city] # None
          /\ answer' = Store!Refuse("conflict")
          /\ UNCHANGED <<committed, linked>>
       \/ /\ answer' = Failed
          /\ UNCHANGED <<committed, linked>>
    /\ UNCHANGED <<temp, cmd, draft>>

\* The best-effort removal after hard_link: what it leaves may be a second
\* name of the committed file.
Tidy ==
    /\ pc = "tidy"
    /\ KeepTemp \/ RemoveTemp
    /\ Goto("reply")
    /\ UNCHANGED <<committed, cmd, draft>>

\* replace_record: rename moves the temporary name over the committed one (and
\* does nothing when both name one file).
Rename ==
    /\ pc = "commit"
    /\ cmd.kind \in {"update", "rename"}
    /\ \/ /\ IF cmd.city \in linked
             THEN UNCHANGED <<committed, temp>>
             ELSE /\ committed' = [committed EXCEPT ![cmd.city] = temp[cmd.city]]
                  /\ temp' = [temp EXCEPT ![cmd.city] = None]
          /\ UNCHANGED linked
          /\ Return([code |-> "ok", value |-> draft])
       \/ (KeepTemp \/ RemoveTemp) /\ UNCHANGED committed /\ Return(Failed)
    /\ UNCHANGED <<cmd, draft>>

\* delete_city removes the committed name; a stale temporary file stays.
Delete ==
    /\ pc = "commit"
    /\ cmd.kind = "delete"
    /\ \/ /\ committed[cmd.city] # None
          /\ committed' = [committed EXCEPT ![cmd.city] = None]
          /\ linked' = linked \ {cmd.city}
          /\ Return(Store!Outcome(cmd, committed[cmd.city]))
       \/ /\ committed[cmd.city] = None
          /\ Return(Store!Refuse("notFound"))
          /\ UNCHANGED <<committed, linked>>
       \/ Return(Failed) /\ UNCHANGED <<committed, linked>>
    /\ UNCHANGED <<temp, cmd, draft>>

\* The command returns, or the process is killed and started again: only the
\* disk survives.
Forget ==
    /\ cmd' = None
    /\ pc' = "idle"
    /\ draft' = None
    /\ answer' = None
    /\ UNCHANGED diskVars

Reply == pc = "reply" /\ Forget
Kill == pc # "idle" /\ Forget

Next ==
    \/ \E r \in Store!Request : Call(r)
    \/ ReadRecord
    \/ RemoveStaleTemp
    \/ OpenTemp
    \/ WriteTemp
    \/ Link
    \/ Tidy
    \/ Rename
    \/ Delete
    \/ Reply
    \/ Kill

Spec == Init /\ [][Next]_vars

-----------------------------------------------------------------------------
(* Properties.                                                              *)

\* No failure and no kill ever leaves a half-written file under a committed
\* name, although temporary files left behind may share their file with a
\* committed record (the concern of the comment in write_temp_record).
CommittedComplete == \A c \in Cities : committed[c] # Partial

\* The temporary file a command is about to commit is its own: never a stale
\* one, never a second name of the committed file.
FreshTemp ==
    pc = "commit" /\ cmd.kind # "delete" =>
        temp[cmd.city] = draft /\ cmd.city \notin linked

\* The contract of CitySaveStore, on a disk whose every call can fail and in a
\* process that can be killed: the file store implements CityStore.
KeepsContract == Store!Spec

=============================================================================
