------------------------------- MODULE CityStore -------------------------------
(***************************************************************************)
(* What a city save store promises (src/persistence/citySaveStore.ts, and   *)
(* memoryCitySaveStore.ts that implements it in one step): every operation  *)
(* takes effect at one instant between its call and its answer, an answer   *)
(* other than "ok" means nothing was committed, and "ok" is never given     *)
(* before the commit.  A client may disappear while its call is running.    *)
(***************************************************************************)
EXTENDS Naturals

CONSTANTS
    Clients,     \* callers of the store: browser tabs, or the desktop process
    Cities,      \* opaque city identifiers
    Names,       \* player-chosen names
    Versions,    \* distinguishable saved snapshots, with their savedAt
    None         \* no record, no request, no answer

VARIABLES
    records,     \* city -> committed record, or None
    request,     \* client -> operation it is waiting for, or None
    reply        \* client -> answer of that operation, or None

vars == <<records, request, reply>>

Record == [name : Names, ver : Versions]

Kinds == {"read", "create", "update", "rename", "delete"}
Request == [kind : Kinds, city : Cities, name : Names, ver : Versions]

Codes == {"ok", "notFound", "conflict", "failed"}
Reply == [code : Codes, value : Record \cup {None}]
Refuse(code) == [code |-> code, value |-> None]

Init ==
    /\ records = [c \in Cities |-> None]
    /\ request = [p \in Clients |-> None]
    /\ reply = [p \in Clients |-> None]

\* The record an operation leaves behind, given the one it found.
Replacement(r, found) ==
    CASE r.kind = "create" -> [name |-> r.name, ver |-> r.ver]
      [] r.kind = "update" -> [found EXCEPT !.ver = r.ver]
      [] r.kind = "rename" -> [found EXCEPT !.name = r.name]
      [] r.kind = "delete" -> None
      [] OTHER             -> found

\* The answer of an operation that was not prevented from running: a deletion
\* returns nothing, everything else the record it read or left.
Outcome(r, found) ==
    CASE r.kind = "create" /\ found # None -> Refuse("conflict")
      [] r.kind # "create" /\ found = None -> Refuse("notFound")
      [] OTHER -> [code |-> "ok", value |-> Replacement(r, found)]

Invoke(p, r) ==
    /\ request[p] = None
    /\ request' = [request EXCEPT ![p] = r]
    /\ UNCHANGED <<records, reply>>

Perform(p) ==
    /\ request[p] # None
    /\ reply[p] = None
    /\ LET r == request[p]
           outcome == Outcome(r, records[r.city])
       IN /\ reply' = [reply EXCEPT ![p] = outcome]
          /\ records' = IF outcome.code = "ok"
                        THEN [records EXCEPT ![r.city] = outcome.value]
                        ELSE records
    /\ UNCHANGED request

Fail(p) ==
    /\ request[p] # None
    /\ reply[p] = None
    /\ reply' = [reply EXCEPT ![p] = Refuse("failed")]
    /\ UNCHANGED <<records, request>>

\* The caller takes its answer, or is gone before there is one.
Leave(p) ==
    /\ request[p] # None
    /\ request' = [request EXCEPT ![p] = None]
    /\ reply' = [reply EXCEPT ![p] = None]
    /\ UNCHANGED records

Next ==
    \E p \in Clients :
        \/ \E r \in Request : Invoke(p, r)
        \/ Perform(p)
        \/ Fail(p)
        \/ Leave(p)

Spec == Init /\ [][Next]_vars

=============================================================================
