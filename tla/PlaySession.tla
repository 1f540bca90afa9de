------------------------------ MODULE PlaySession ------------------------------
(***************************************************************************)
(* A webview at play: the route draft and the previews of createGameRuntime *)
(* and previewCoordinator, the gameplay queue they share with the clock of  *)
(* createWebGpuHost, and the desktop engine of src-tauri/src/lib.rs, which  *)
(* outlives the webview and serves one runtime at a time.                   *)
(*                                                                         *)
(* An action is the code between two awaits. A command and a preview each   *)
(* take three steps: sent, run by the engine, answered. What an exclusive   *)
(* save or load does is in WorkingSave; here it is a time of `busy`.        *)
(*                                                                         *)
(* The engine's world is the number of changes made to it (`ver`) and the   *)
(* revision of the one line that is edited (`rev`, None if there is none).  *)
(* A definition commented "Fault:" is never part of the specification.      *)
(***************************************************************************)
EXTENDS Naturals, Sequences

CONSTANTS
    Contents,     \* the waypoints a draft can have
    None,         \* "null"
    MaxQueue,     \* bound on gameplay operations admitted at once
    MaxActs       \* bound on what the player does

ASSUME SessionAssumption ==
    /\ None \notin Contents \cup Nat \cup {"save", "load", "restored"}
    /\ None \notin [instance : Nat, generation : Nat, expected : Nat \cup {None}]
    /\ MaxQueue \in Nat \ {0} /\ MaxActs \in Nat

VARIABLES
    engine,       \* OwnedEngine: [epoch, ver, rev, paused]
    orphans,      \* commands of superseded runtimes that the engine has yet to run
    session,      \* runtimeEpoch of the live runtime's backend
    view,         \* the engine as last folded into `state`: [ver, rev, paused]
    draft,        \* ui.routeDraft, or None
    stale,        \* where else than in the preview "the edited line changed" is told
    nextInstance, \* nextRouteDraftInstanceId
    coordinator,  \* previewCoordinator: [epoch, latest]
    previewEpoch, \* previewRuntimeEpoch
    requests,     \* previews in flight
    tokens,       \* activeRouteSaveTokens
    queue,        \* gameplay operations, the head is served
    op,           \* progress of the head: [phase, reply]
    busy,         \* the exclusive operation, or None
    dead,         \* the runtime has failed
    loop,         \* animationFrameId is set
    tickInFlight, \* a tick of the host is not settled
    acts,         \* what the player has done so far
    taken,        \* drafts the engine has made lines of (history)
    missed        \* a change was folded while busy, past the open draft (history)

engineVars == <<engine, orphans, session, taken>>
draftVars == <<draft, stale, nextInstance, coordinator, requests, missed>>
queueVars == <<queue, op, tokens, tickInFlight>>
vars == <<engineVars, view, draftVars, previewEpoch, queueVars, busy, dead, loop, acts>>

View(e) == [ver |-> e.ver, rev |-> e.rev, paused |-> e.paused]

Idle == [phase |-> "idle", reply |-> None]
Head1 == queue[1]

-----------------------------------------------------------------------------
(* createWebGpuHost: the animation loop.                                    *)

CanAnimate == ~view.paused /\ ~dead

\* Fault: a publication stops the loop but does not start it again.
ShownUnsynced(v) == view' = v /\ loop' = (loop /\ ~v.paused)

\* commit and publish of a live runtime: syncAnimationLoop, then render.
Shown(v) == view' = v /\ loop' = ~v.paused

-----------------------------------------------------------------------------
(* Previews.                                                                *)

Invalidated(c) == [epoch |-> c.epoch + 1, latest |-> None]

\* requestRoutePreview for draft d, after the coordinator became c.
Request(d, c) ==
    /\ coordinator' = [c EXCEPT !.latest = d.generation]
    /\ requests' = requests \cup
          {[epoch |-> c.epoch, previewEpoch |-> previewEpoch, instance |-> d.instance,
            generation |-> d.generation, content |-> d.content, expected |-> d.expected,
            answer |-> None]}

\* Fault: an edit that keeps the generation of the draft.
ChangedInPlace(d, content) ==
    [d EXCEPT !.content = content, !.pending = TRUE, !.preview = None]

\* changed, restoreRouteDraftCheckpoint: a draft with other waypoints.
Changed(d, content) ==
    [d EXCEPT !.content = content, !.generation = @ + 1, !.pending = TRUE, !.preview = None]

\* The places beside the preview: `rejection` and ui.routePreviewError.
Places == {"rejection", "previewError"}

\* The engine looks at the line as it is now: a line that is gone is not found,
\* one of another revision has changed.
Preview(r) ==
    [ver |-> engine.ver, content |-> r.content, generation |-> r.generation,
     rejected |-> r.expected # None /\ r.expected # engine.rev,
     changed |-> r.expected # None /\ engine.rev \notin {r.expected, None}]

EngineAnswersPreview ==
    /\ \E r \in requests :
          /\ r.answer = None
          /\ requests' = (requests \ {r}) \cup {[r EXCEPT !.answer = Preview(r)]}
    /\ UNCHANGED <<engineVars, view, draft, stale, nextInstance, coordinator, missed,
                   previewEpoch, queueVars, busy, dead, loop, acts>>

\* withEpochGuard: no newer request, no invalidation.
Accepts(r) == r.epoch = coordinator.epoch /\ r.generation = coordinator.latest

\* The draft the request was made for is still the one on screen.
Matches(r) ==
    /\ r.previewEpoch = previewEpoch
    /\ draft # None /\ draft.instance = r.instance /\ draft.generation = r.generation

\* Fault: a suppressed answer leaves the draft as it is.
SettledIfAccepted(d, r) ==
    IF Accepts(r) THEN [d EXCEPT !.pending = FALSE, !.preview = r.answer] ELSE d

\* An answer shows; a suppressed one only ends the wait.
SettledDraft(d, r) ==
    [d EXCEPT !.pending = FALSE, !.preview = IF Accepts(r) THEN r.answer ELSE @]

\* The rejection of an answer, or its absence, is told beside the draft too.
ToldByPreview(answer) ==
    (stale \ {"previewError"}) \cup IF answer.changed THEN {"previewError"} ELSE {}

PreviewArrives ==
    /\ \E r \in requests :
          /\ r.answer # None
          /\ requests' = requests \ {r}
          /\ IF Matches(r)
             THEN /\ draft' = SettledDraft(draft, r)
                  /\ stale' = IF Accepts(r) THEN ToldByPreview(r.answer) ELSE stale
                  /\ IF dead THEN UNCHANGED <<view, loop>> ELSE Shown(view)
             ELSE UNCHANGED <<draft, stale, view, loop>>
    /\ UNCHANGED <<engineVars, nextInstance, coordinator, missed, previewEpoch,
                   queueVars, busy, dead, acts>>

\* The host fails to answer: suppressed or shown as an error, the wait ends.
PreviewFails ==
    /\ \E r \in requests :
          /\ requests' = requests \ {r}
          /\ IF Matches(r) /\ ~dead
             THEN draft' = [draft EXCEPT !.pending = FALSE] /\ Shown(view)
             ELSE UNCHANGED <<draft, view, loop>>
    /\ UNCHANGED <<engineVars, stale, nextInstance, coordinator, missed, previewEpoch,
                   queueVars, busy, dead, acts>>

-----------------------------------------------------------------------------
(* The player. Every handler returns early when dead, and nearly all when   *)
(* busy.                                                                    *)

Act == ~dead /\ busy = None /\ acts < MaxActs /\ acts' = acts + 1

NewDraft(content, expected, pending) ==
    [instance |-> nextInstance, generation |-> 0, content |-> content, expected |-> expected,
     pending |-> pending, preview |-> None]

\* setTool: a line is drawn from nothing; the first preview comes with the
\* first waypoints.
CreateDraft ==
    /\ Act /\ draft = None
    /\ draft' = NewDraft(None, None, FALSE)
    /\ nextInstance' = nextInstance + 1
    /\ stale' = {}
    /\ coordinator' = Invalidated(coordinator)
    /\ missed' = FALSE
    /\ Shown(view)
    /\ UNCHANGED <<engineVars, requests, previewEpoch, queueVars, busy, dead>>

\* openRouteEdit: no invalidation, the new request supersedes any other.
Edits(content) ==
    /\ view.rev # None
    /\ draft' = NewDraft(content, view.rev, TRUE)
    /\ Request(draft', coordinator)
    /\ nextInstance' = nextInstance + 1
    /\ stale' = {}
    /\ missed' = FALSE
    /\ Shown(view)
    /\ UNCHANGED <<engineVars, previewEpoch, queueVars, busy, dead>>

\* startRouteEdit: never over an open draft.
OpenEdit == Act /\ draft = None /\ \E c \in Contents : Edits(c)

\* The line is gone: nothing to open, so that it changed is told no longer.
Retired ==
    /\ draft' = [draft EXCEPT !.preview = IF @ = None THEN None ELSE [@ EXCEPT !.changed = FALSE]]
    /\ stale' = {}
    /\ Shown(view)
    /\ UNCHANGED <<engineVars, nextInstance, coordinator, requests, missed, previewEpoch,
                   queueVars, busy, dead>>

\* reloadRouteDraft: the edited line changed under the draft.
ReloadDraft ==
    /\ Act /\ draft # None /\ draft.expected # None
    /\ stale # {} \/ (draft.preview # None /\ draft.preview.changed)
    /\ IF view.rev # None THEN \E c \in Contents : Edits(c) ELSE Retired

\* commitRouteDraft, undoRouteDraft, redoRouteDraft.
ChangeDraft ==
    /\ Act /\ draft # None
    /\ \E c \in Contents \ {draft.content} :
          /\ draft' = Changed(draft, c)
          /\ Request(Changed(draft, c), coordinator)
    /\ Shown(view)
    /\ missed' = FALSE
    /\ stale' = stale \ {"previewError"}
    /\ UNCHANGED <<engineVars, nextInstance, previewEpoch, queueVars, busy, dead>>

CancelDraft ==
    /\ Act /\ draft # None
    /\ draft' = None
    /\ stale' = {}
    /\ coordinator' = Invalidated(coordinator)
    /\ Shown(view)
    /\ UNCHANGED <<engineVars, nextInstance, requests, missed, previewEpoch, queueVars, busy, dead>>

Token(d) == [instance |-> d.instance, generation |-> d.generation, expected |-> d.expected]

CanSave(d) ==
    d # None /\ d.preview # None /\ d.preview.generation = d.generation /\ ~d.preview.rejected

MayEnqueue == ~dead /\ busy = None /\ Len(queue) < MaxQueue

\* A gameplay operation; the other fields are those of a route save.
Plain(kind) == [kind |-> kind, token |-> None, content |-> None, expected |-> None, owns |-> None]

\* Fault: the tokens of saves under way are not looked at.
MayStartSaveAgain(d) == CanSave(d)

MayStartSave(d) == CanSave(d) /\ Token(d) \notin tokens

\* saveRouteDraft, up to its place in the queue.
SaveDraft ==
    /\ Act /\ MayEnqueue /\ MayStartSave(draft)
    /\ tokens' = tokens \cup {Token(draft)}
    /\ queue' = Append(queue, [kind |-> "save", token |-> Token(draft),
                               content |-> draft.content, expected |-> draft.expected,
                               owns |-> None])
    /\ UNCHANGED <<engineVars, view, draftVars, previewEpoch, op, tickInFlight, busy, dead, loop>>

\* enqueueDispatch of an intent that changes the world, and of a pause.
Dispatch ==
    /\ Act /\ MayEnqueue
    /\ \E kind \in {"build", "pause"} : queue' = Append(queue, Plain(kind))
    /\ UNCHANGED <<engineVars, view, draftVars, previewEpoch, op, tokens, tickInFlight, busy, dead, loop>>

Reset ==
    /\ Act /\ MayEnqueue
    /\ coordinator' = Invalidated(coordinator)
    /\ queue' = Append(queue, Plain("reset"))
    /\ Shown(view)
    /\ UNCHANGED <<engineVars, draft, stale, nextInstance, requests, missed, previewEpoch,
                   op, tokens, tickInFlight, busy, dead>>

\* runExclusive publishes as it takes and as it gives back the gate.
StartExclusive ==
    /\ Act
    /\ busy' \in {"save", "load"}
    /\ Shown(view)
    /\ UNCHANGED <<engineVars, draftVars, previewEpoch, queueVars, dead>>

-----------------------------------------------------------------------------
(* The engine. A command carries the epoch of the runtime that sent it.     *)

Changes(e, revs) == {[e EXCEPT !.ver = @ + 1, !.rev = r] : r \in revs}
AtRest(engines) == {[e EXCEPT !.paused = TRUE] : e \in engines}
Reply(engines, applied, changed) ==
    {[engine |-> e, applied |-> applied, changed |-> changed] : e \in engines}

\* What may come of command c, whose runtime saw the game paused or not.
After(e, c, paused) ==
    CASE c.kind = "tick" -> Reply({e}, ~e.paused, FALSE)
      [] c.kind = "pause" -> Reply({[e EXCEPT !.paused = ~paused]}, TRUE, FALSE)
      [] c.kind = "build" -> Reply({e}, FALSE, FALSE) \cup
            Reply(Changes(e, {e.rev, None} \cup {r + 1 : r \in {e.rev} \ {None}}), TRUE, FALSE)
      [] c.kind = "deploy" -> Reply({e}, FALSE, FALSE) \cup Reply(Changes(e, {e.rev}), TRUE, FALSE)
      [] c.kind = "save" /\ c.expected = None ->
            Reply({e}, FALSE, FALSE) \cup Reply(Changes(e, {e.rev}), TRUE, FALSE)
      [] c.kind = "save" /\ c.expected # None ->
            IF e.rev # c.expected THEN Reply({e}, FALSE, e.rev # None)
            ELSE Reply(Changes(e, {e.rev, e.rev + 1}), TRUE, FALSE)
      [] c.kind = "reset" -> Reply({e}, FALSE, FALSE) \cup
            Reply(AtRest(Changes(e, {None})), TRUE, FALSE)
      [] c.kind = "load" -> Reply(AtRest(Changes(e, {None, 1})), TRUE, FALSE)

\* Fault: a command of a superseded runtime is run.
RunAnyway(c, epoch, paused) == After(engine, c, paused)

\* game_dispatch, game_tick, game_reset, restore_snapshot_with.
Run(c, epoch, paused) ==
    IF epoch # engine.epoch THEN Reply({engine}, FALSE, FALSE) ELSE After(engine, c, paused)

EngineRunsOrphan ==
    /\ \E o \in orphans : \E r \in Run(o.command, o.epoch, o.paused) :
          /\ engine' = r.engine
          /\ orphans' = orphans \ {o}
    /\ UNCHANGED <<session, taken, view, draftVars, previewEpoch, queueVars, busy, dead, loop, acts>>

SendHead ==
    /\ queue # <<>> /\ op.phase = "idle" /\ ~dead
    /\ op' = [phase |-> "sent", reply |-> None]
    /\ UNCHANGED <<engineVars, view, draftVars, previewEpoch, queue, tokens, tickInFlight, busy,
                   dead, loop, acts>>

\* Which drafts became lines is kept as history: by session and runtime epoch.
Taken(c) == <<session, previewEpoch, c.token.instance, c.token.generation>>

EngineRunsHead ==
    /\ op.phase = "sent"
    /\ \E r \in Run(Head1, session, view.paused) :
          /\ engine' = r.engine
          /\ op' = [phase |-> "run", reply |-> r]
          /\ taken' = IF Head1.kind = "save" /\ r.applied THEN taken \cup {Taken(Head1)} ELSE taken
    /\ UNCHANGED <<orphans, session, view, draftVars, previewEpoch, queue, tokens, tickInFlight,
                   busy, dead, loop, acts>>

-----------------------------------------------------------------------------
(* Answers of the gameplay queue.                                           *)

\* Fault: the preview is asked for again as it stands on screen.
RefreshedInPlace(d) == [d EXCEPT !.pending = TRUE]

\* commitDispatchResult: the world has changed under the draft.
Refreshed(d) == [d EXCEPT !.generation = @ + 1, !.pending = TRUE, !.preview = None]

\* commitDispatchResult: fold the update; d and c are the draft and the
\* coordinator as the caller leaves them. Not refreshed while busy.
Folded(d, c) ==
    /\ Shown(View(engine))
    /\ IF op.reply.applied /\ d # None /\ busy = None
       THEN /\ draft' = Refreshed(d)
            /\ Request(Refreshed(d), Invalidated(c))
            /\ missed' = FALSE
       ELSE /\ draft' = d
            /\ coordinator' = c
            /\ missed' = (missed \/ (op.reply.applied /\ d # None))
            /\ UNCHANGED requests

\* The operation settles: the queue moves on, the save's token is released,
\* the host may admit another tick.
Settled ==
    /\ queue' = Tail(queue)
    /\ op' = Idle
    /\ tokens' = tokens \ {Head1.token}
    /\ tickInFlight' = (tickInFlight /\ Head1.kind # "tick")

Answered(kinds) == op.phase = "run" /\ Head1.kind \in kinds

\* A tick carries no intent, a pause is neutral to previews.
AnswerNeutral ==
    /\ Answered({"tick", "pause"})
    /\ Shown(View(engine))
    /\ Settled
    /\ UNCHANGED <<engineVars, draftVars, previewEpoch, busy, dead, acts>>

\* dispatchNow: under an open draft a rejection takes the place of the stored
\* one, and a command that neither did anything nor was rejected leaves it.
AnswerDispatch ==
    /\ Answered({"build", "deploy"})
    /\ Folded(draft, coordinator)
    /\ \/ UNCHANGED stale
       \/ ~op.reply.applied /\ stale' = stale \ {"rejection"}
    /\ Settled
    /\ UNCHANGED <<engineVars, nextInstance, previewEpoch, busy, dead, acts>>

AnswerReset ==
    /\ Answered({"reset"})
    /\ Shown(View(engine))
    /\ IF op.reply.applied THEN draft' = None /\ stale' = {} ELSE UNCHANGED <<draft, stale>>
    /\ Settled
    /\ UNCHANGED <<engineVars, nextInstance, coordinator, requests, missed, previewEpoch, busy, dead, acts>>

\* isCurrent: the draft on screen is the one that was saved.
SavedIsCurrent == draft # None /\ Token(draft) = Head1.token

\* A new line gets its vehicles in the same operation; any other save settles.
SettledOrDeploys(owns) ==
    IF Head1.expected = None
    THEN /\ queue' = <<[Head1 EXCEPT !.kind = "deploy", !.owns = owns]>> \o Tail(queue)
         /\ op' = [phase |-> "sent", reply |-> None]
         /\ UNCHANGED <<tokens, tickInFlight>>
    ELSE Settled

\* The saved draft closes; one that has moved on since stays, with no preview.
AnswerSaveApplied ==
    /\ Answered({"save"}) /\ op.reply.applied
    /\ IF SavedIsCurrent
       THEN Folded(None, Invalidated(coordinator)) /\ SettledOrDeploys(nextInstance)
       ELSE /\ Folded(IF draft = None THEN None ELSE [draft EXCEPT !.preview = None, !.pending = FALSE],
                      Invalidated(coordinator))
            /\ SettledOrDeploys(None)
    /\ stale' = IF SavedIsCurrent THEN {} ELSE stale
    /\ UNCHANGED <<engineVars, nextInstance, previewEpoch, busy, dead, acts>>

AnswerSaveRefused ==
    /\ Answered({"save"}) /\ ~op.reply.applied
    /\ Folded(draft, coordinator)
    /\ stale' = IF SavedIsCurrent THEN (IF op.reply.changed THEN Places ELSE {}) ELSE stale
    /\ Settled
    /\ UNCHANGED <<engineVars, nextInstance, previewEpoch, busy, dead, acts>>

\* The host fails before the engine runs the command. failBackend, unless it
\* was a save whose draft has been superseded.
HeadFails ==
    /\ op.phase = "sent"
    /\ LET owned == draft = None /\ Head1.owns = nextInstance
           fatal == Head1.kind \in {"save", "deploy"} => SavedIsCurrent \/ owned
       IN  IF fatal
           THEN /\ dead' = TRUE /\ loop' = FALSE
                /\ draft' = IF draft = None THEN None ELSE [draft EXCEPT !.pending = FALSE]
                /\ coordinator' = Invalidated(coordinator)
           ELSE UNCHANGED <<dead, loop, draft, coordinator>>
    /\ Settled
    /\ UNCHANGED <<engineVars, view, stale, nextInstance, requests, missed, previewEpoch, busy, acts>>

\* serializedQueue: what is left of the queue of a dead runtime.
DeadSettles ==
    /\ dead /\ queue # <<>> /\ op.phase = "idle"
    /\ Settled
    /\ UNCHANGED <<engineVars, view, draftVars, previewEpoch, busy, dead, loop, acts>>

-----------------------------------------------------------------------------
(* The clock, the exclusive operations and the reload.                      *)

\* frame: one tick in flight; while busy a tick is dropped, not queued.
AdmitTick ==
    /\ loop /\ ~tickInFlight /\ busy = None /\ Len(queue) < MaxQueue
    /\ queue' = Append(queue, Plain("tick"))
    /\ tickInFlight' = TRUE
    /\ loop' = CanAnimate
    /\ UNCHANGED <<engineVars, view, draftVars, previewEpoch, op, tokens, busy, dead, acts>>

\* A save is done, or a load is refused or fails, after the queue has drained.
EndExclusive ==
    /\ busy \in {"save", "load"} /\ queue = <<>>
    /\ busy' = None
    /\ IF dead THEN UNCHANGED <<view, loop>> ELSE Shown(view)
    /\ UNCHANGED <<engineVars, draftVars, previewEpoch, queueVars, dead, acts>>

EngineRestores ==
    /\ busy = "load" /\ queue = <<>> /\ ~dead
    /\ \E r \in Run(Plain("load"), session, view.paused) : engine' = r.engine
    /\ busy' = "restored"
    /\ UNCHANGED <<orphans, session, taken, view, draftVars, previewEpoch, queueVars, dead, loop, acts>>

\* installRestoredGameplay, and the publication as the gate opens.
InstallRestored ==
    /\ busy = "restored"
    /\ busy' = None
    /\ previewEpoch' = previewEpoch + 1
    /\ coordinator' = Invalidated(coordinator)
    /\ tokens' = {} /\ nextInstance' = 1
    /\ draft' = None /\ stale' = {}
    /\ Shown(View(engine))
    /\ UNCHANGED <<engineVars, requests, missed, queue, op, tickInFlight, dead, acts>>

\* What the superseded runtime has asked of the engine and not got.
LeftBehind ==
    LET Orphan(c) == {[command |-> c, epoch |-> session, paused |-> view.paused]}
    IN  IF op.phase = "sent" THEN {Orphan(Head1)}
        ELSE IF busy = "load" /\ queue = <<>> THEN {{}, Orphan(Plain("load"))}
        ELSE {{}}

\* The webview is loaded anew: createTauriBackend calls game_begin_runtime.
Reload ==
    /\ acts < MaxActs /\ acts' = acts + 1
    /\ \E left \in LeftBehind : orphans' = orphans \cup left
    /\ engine' = [engine EXCEPT !.epoch = @ + 1]
    /\ session' = engine'.epoch
    /\ Shown(View(engine))
    /\ draft' = None /\ stale' = {} /\ nextInstance' = 1
    /\ coordinator' = [epoch |-> 0, latest |-> None] /\ previewEpoch' = 0
    /\ requests' = {} /\ tokens' = {} /\ queue' = <<>> /\ op' = Idle
    /\ busy' = None /\ dead' = FALSE /\ tickInFlight' = FALSE /\ missed' = FALSE
    /\ UNCHANGED taken

Init ==
    /\ engine = [epoch |-> 1, ver |-> 0, rev |-> 1, paused |-> FALSE]
    /\ orphans = {} /\ session = 1 /\ taken = {}
    /\ view = View(engine) /\ loop = TRUE
    /\ draft = None /\ stale = {} /\ nextInstance = 1
    /\ coordinator = [epoch |-> 0, latest |-> None] /\ previewEpoch = 0
    /\ requests = {} /\ tokens = {} /\ queue = <<>> /\ op = Idle
    /\ busy = None /\ dead = FALSE /\ tickInFlight = FALSE /\ missed = FALSE
    /\ acts = 0

Player ==
    \/ CreateDraft \/ OpenEdit \/ ReloadDraft \/ ChangeDraft \/ CancelDraft \/ SaveDraft
    \/ Dispatch \/ Reset \/ StartExclusive \/ Reload

Previews == EngineAnswersPreview \/ PreviewArrives \/ PreviewFails

Serving ==
    \/ SendHead \/ EngineRunsHead \/ AnswerNeutral \/ AnswerDispatch \/ AnswerReset
    \/ AnswerSaveApplied \/ AnswerSaveRefused \/ HeadFails \/ DeadSettles
    \/ EndExclusive \/ EngineRestores \/ InstallRestored

Next == Player \/ Previews \/ Serving \/ AdmitTick \/ EngineRunsOrphan

\* The engine answers, continuations run, the browser asks for frames. The
\* player and the orphans may do nothing.
Fairness == WF_vars(Previews) /\ WF_vars(Serving) /\ WF_vars(AdmitTick)

Spec == Init /\ [][Next]_vars /\ Fairness

-----------------------------------------------------------------------------
(* Properties.                                                              *)

\* The preview on screen was made for the waypoints on screen, whatever order
\* the answers came in and whatever draft or city was open when it was asked.
PreviewAnswersTheDraft ==
    draft # None /\ draft.preview # None =>
        draft.preview.content = draft.content /\ draft.preview.generation = draft.generation

\* Save is never enabled by a preview of an older network than the one on
\* screen, unless the change came in while an exclusive operation was busy:
\* commitDispatchResult then skips the refresh and nothing makes up for it.
SaveArmedByCurrentPreview == CanSave(draft) /\ ~missed => draft.preview.ver >= view.ver

\* Outside of its own commands a live runtime shows what the engine holds, as
\* nothing that a superseded runtime left behind is run.
RuntimeShowsTheEngine ==
    ~dead /\ op.phase # "run" /\ busy # "restored" => view = View(engine)

\* However often Save is clicked, one generation of a draft makes one change.
EachDraftSavedOnce ==
    [][op.phase = "sent" /\ op'.phase = "run" /\ Head1.kind = "save" /\ op'.reply.applied
          => Taken(Head1) \notin taken]_vars

\* No draft stays in "Checking route" for good.
PreviewsSettle == (draft # None /\ draft.pending) ~> (draft = None \/ ~draft.pending)

\* The clock of a running game never stops: not after a pause, a slow answer,
\* a save, a load or a reload.
ClockGoesOn == []<>(dead \/ view.paused \/ Answered({"tick"}))

=============================================================================
