---------------------------- MODULE RunLifecycle ----------------------------
(***************************************************************************)
(* Completion requests: handleChatCompletions() and its two response modes *)
(* (src/src/server/routes.ts), the PaperclipRunner behind each             *)
(* (src/src/adapter/paperclip-runner.ts), the files both make, the CLI     *)
(* child, and the usage tracker they report to.                            *)
(*                                                                         *)
(* A request is a record; what the code does in one task of the event loop *)
(* is an operator on that record, so that a step that emits two events is  *)
(* the composition of their handlers.  `billed` collects the calls of      *)
(* usageTracker.record(), which Step hands to the tracker.                 *)
(*                                                                         *)
(* The adapter (execute()), its child and the HTTP response are external:  *)
(* modelled as src/ uses them.                                             *)
(***************************************************************************)
EXTENDS UsageTracker

CONSTANTS
  Request,
  Engine,  \* those of "claude", "codex" and "codex_custom" that are requested
  None,
  MaxCred  \* bound: changes of the codex_custom credential

Mode == {"stream", "plain"}
Cred == 1..MaxCred + 1

ASSUME RunAssumption ==
  /\ None \notin Cred
  /\ None \notin {"ok", "error"}
  /\ Engine \subseteq {"claude", "codex", "codex_custom"}
  /\ MaxCred \in Nat

VARIABLES
  req,       \* request -> its record
  cred,      \* the provisioned gateway with its key: a version, or None
  creds      \* changes of it so far

vars == <<req, cred, creds, usageVars>>

NewRequest(mode, engine) ==
  [mode     |-> mode,
   engine   |-> engine,
   phase    |-> "idle",    \* of the handler
   images   |-> FALSE,     \* the directory of decoded images exists
   closed   |-> FALSE,     \* res has emitted "close"
   heard    |-> FALSE,     \* ... to a listener, before the run was complete
   ended    |-> FALSE,     \* res.writableEnded
   sent     |-> FALSE,     \* ... while the client was there: res.headersSent
   answer   |-> None,      \* what the response ended with
   complete |-> FALSE,     \* isComplete
   result   |-> FALSE,     \* a result event was handled
   error    |-> FALSE,     \* an exception waits for cleanup() to end
   billed   |-> <<>>,
   runner   |-> "none",
   killed   |-> FALSE,     \* isKilled
   reported |-> FALSE,     \* pid and processGroupId are known
   signalled|-> FALSE,     \* a signal was sent to the child
   inBand   |-> FALSE,     \* streamErrored
   failed   |-> FALSE,     \* what the runner concluded
   child    |-> "none",
   cwd      |-> FALSE,     \* the run's working directory exists
   key      |-> None,      \* the credential in the child's environment
   home     |-> None]      \* the credential config.toml was written from

Init ==
  /\ \E mode \in [Request -> Mode], engine \in [Request -> Engine] :
       req = [r \in Request |-> NewRequest(mode[r], engine[r])]
  /\ cred = 1
  /\ creds = 0
  /\ UsageInit

-----------------------------------------------------------------------------
(* Handlers, as operators on a request                                     *)

Bill(q, success) == [q EXCEPT !.billed = Append(@, success)]

\* resolve(): the route goes on to its finally block, once.
Resolve(q) == IF q.phase = "open" THEN [q EXCEPT !.phase = "cleaning"] ELSE q

\* What ends the response.  It does nothing to one that has ended, and nothing
\* of it reaches a client that has left.
Answer(q, answer) ==
  IF q.ended THEN q ELSE [q EXCEPT !.ended = TRUE, !.answer = answer, !.sent = ~q.closed]

\* res.json() of the mode that is not streamed.  `res.writable`, which guards
\* most calls, stays true when a response has ended or closed, so that a second
\* call throws, into the promise of the runner; what the listener would still do
\* is to resolve() once more.
Json(q, answer) == IF q.sent THEN [q EXCEPT !.runner = "thrown"] ELSE Answer(q, answer)

\* PaperclipRunner.signalProcess(): nothing before the pid is known.
Signal(q) == [q EXCEPT !.signalled = @ \/ (q.reported /\ q.child = "running")]

\* PaperclipRunner.kill()
Kill(q) == IF q.killed THEN q ELSE Signal([q EXCEPT !.killed = TRUE])

\* The "result" listener: only streaming answers and records at once.
OnResult(q) ==
  LET q1 == [q EXCEPT !.result = TRUE]
  IN  IF q.mode = "plain" THEN q1
      ELSE Resolve(Answer([Bill(q1, TRUE) EXCEPT !.complete = TRUE], "ok"))

\* The "error" listener of either mode.
OnError(q) ==
  LET q1 == Bill([q EXCEPT !.complete = TRUE], FALSE)
  IN  Resolve(IF q.mode = "stream" THEN Answer(q1, "error") ELSE Json(q1, "error"))

\* The "close" listener when streaming.  An abnormal exit is announced by an
\* "error" first, so that only a run without result or error ends here.
OnCloseStream(q) == Resolve(Answer(q, "ok"))

\* The "close" listener otherwise: here the result becomes the answer.  Without
\* one it fails the request, unless that has been done and sent.
OnClosePlain(q) ==
  LET q1 == [q EXCEPT !.complete = TRUE]
  IN  Resolve(IF q.result THEN Json(Bill(q1, TRUE), "ok")
              ELSE IF q.sent THEN q1
              ELSE Json(Bill(q1, FALSE), "error"))

OnClose(q) == IF q.mode = "stream" THEN OnCloseStream(q) ELSE OnClosePlain(q)

\* Mutant of OnStartRejected: streaming leaves a rejected start() to the route.
OnStartRejectedPlainly(q) ==
  IF q.mode = "stream" THEN q ELSE Resolve(Json(q, "error"))

\* start().catch(): streaming treats it as an error event; the other mode only
\* answers, records nothing and is not complete.
OnStartRejected(q) ==
  IF q.mode = "stream" THEN OnError(q)
  ELSE Resolve(Json(q, "error"))

\* res "close", for a listener: the client left, or the response is through.
OnResponseClose(q) ==
  Resolve(IF q.complete THEN q ELSE Kill([q EXCEPT !.heard = TRUE]))

-----------------------------------------------------------------------------
(* Steps                                                                   *)

Step(r, q) ==
  /\ Up
  /\ req' = [req EXCEPT ![r] = q]
  /\ RecordAll(SubSeq(req'[r].billed, Len(req[r].billed) + 1, Len(req'[r].billed)))

SameCred == UNCHANGED <<cred, creds>>

\* The listeners are registered and start() runs up to its first await: it
\* refuses codex_custom without a gateway, and otherwise takes the credential.
Launch(q) ==
  LET q1 == [q EXCEPT !.phase = "open"]
  IN  IF q.engine = "codex_custom" /\ cred = None
      THEN OnClose(OnError([q1 EXCEPT !.runner = "closed", !.failed = TRUE]))
      ELSE [q1 EXCEPT !.runner = "preparing",
                      !.key = IF q.engine = "codex_custom" THEN cred ELSE None]

\* handleChatCompletions(): a request without image data is launched at once,
\* data URLs are decoded to files first.
Arrives(r) ==
  /\ req[r].phase = "idle"
  /\ \/ Step(r, Launch(req[r]))
     \/ Step(r, [req[r] EXCEPT !.phase = "images", !.images = TRUE])
  /\ SameCred

\* An invalid request is answered without a record, an unknown model with one.
Refused(r) ==
  /\ req[r].phase = "idle"
  /\ LET q == [Answer(req[r], "error") EXCEPT !.phase = "done"]
     IN  Step(r, q) \/ Step(r, Bill(q, FALSE))
  /\ SameCred

\* materializeImages() is through: the run starts, whether or not the client
\* is still there.
ImagesWritten(r) ==
  /\ req[r].phase = "images"
  /\ Step(r, Launch(req[r]))
  /\ SameCred

\* It throws, having removed its files; or the model is unknown, and the
\* finally block removes them.
ImagesFail(r) ==
  /\ req[r].phase = "images"
  /\ \/ Step(r, [Answer(Bill(req[r], FALSE), "error") EXCEPT !.phase = "done", !.images = FALSE])
     \/ Step(r, [req[r] EXCEPT !.phase = "cleaning", !.error = TRUE])
  /\ SameCred

\* cleanup() in the finally block, and the catch block of an exception.
CleanedUp(r) ==
  /\ req[r].phase = "cleaning"
  /\ LET q == [req[r] EXCEPT !.phase = "done", !.images = FALSE]
     IN  Step(r, IF q.error THEN Answer(Bill(q, FALSE), "error") ELSE q)
  /\ SameCred

\* prepareCodexCustomHome() and mkdtemp() are through; execute() is called.
Prepared(r) ==
  /\ req[r].runner = "preparing"
  /\ Step(r, [req[r] EXCEPT !.runner = "executing", !.cwd = TRUE, !.home = req[r].key])
  /\ SameCred

\* One of them, or the workspace's root, fails: start() rejects.
PreparationFails(r) ==
  /\ req[r].runner = "preparing"
  /\ Step(r, OnStartRejected([req[r] EXCEPT !.runner = "rejected", !.failed = TRUE]))
  /\ SameCred

\* The adapter spawns its CLI ...
Spawns(r) ==
  /\ req[r].runner = "executing"
  /\ req[r].child = "none"
  /\ Step(r, [req[r] EXCEPT !.child = "running"])
  /\ SameCred

\* Mutant of Reported: forgets that a kill may be pending.
ReportedUnaware(r) ==
  /\ req[r].runner = "executing"
  /\ req[r].child # "none"
  /\ ~req[r].reported
  /\ Step(r, [req[r] EXCEPT !.reported = TRUE])
  /\ SameCred

\* ... and reports it: onSpawn honours a kill that came too early.
Reported(r) ==
  /\ req[r].runner = "executing"
  /\ req[r].child # "none"
  /\ ~req[r].reported
  /\ LET q == [req[r] EXCEPT !.reported = TRUE]
     IN  Step(r, IF q.killed THEN Signal(q) ELSE q)
  /\ SameCred

\* claude prints its terminal result: onLog feeds it to the parser, which
\* emits a success and keeps a failure back.  Also what parser.flush() finds.
PrintsResult(r) ==
  /\ req[r].runner = "executing"
  /\ req[r].engine = "claude"
  /\ req[r].child # "none"
  /\ ~req[r].result /\ ~req[r].inBand
  /\ \/ Step(r, OnResult(req[r]))
     \/ Step(r, [req[r] EXCEPT !.inBand = TRUE])
  /\ SameCred

ChildExits(r) ==
  /\ req[r].child = "running"
  /\ req' = [req EXCEPT ![r].child = "exited"]
  /\ UNCHANGED usageVars
  /\ SameCred

\* What the promise of execute() leads to when it is fulfilled: `failed` by the
\* adapter's result, or by a failure the CLI printed.
Concluded(q, ok) == [q EXCEPT !.failed = ~ok \/ q.inBand]

\* execute() settles: the child is gone, or there never was one.  A codex run
\* that succeeded gets its result here; then the directories are removed.  When
\* execute() rejects, the runner's catch() does that.
Settles(r) ==
  /\ req[r].runner = "executing"
  /\ \/ req[r].child = "none"
     \/ req[r].child = "exited" /\ req[r].reported
  /\ \/ \E ok \in BOOLEAN :
            LET q == [Concluded(req[r], ok) EXCEPT !.runner = "settling"]
            IN  Step(r, IF q.engine # "claude" /\ ~q.failed THEN OnResult(q) ELSE q)
     \/ Step(r, [req[r] EXCEPT !.runner = "thrown", !.failed = TRUE])
  /\ SameCred

\* cleanupRunDirectories(): the run is over.
Closing(q) == [q EXCEPT !.runner = "closed", !.cwd = FALSE, !.key = None, !.home = None]

\* Mutant of RunCloses: announces the end before the failure.
RunClosesFirst(r) ==
  /\ req[r].runner = "settling"
  /\ LET q == OnClose(Closing(req[r]))
     IN  Step(r, IF q.failed THEN OnError(q) ELSE q)
  /\ SameCred

\* The directories are removed, and the runner's last events are one task.
RunCloses(r) ==
  /\ req[r].runner = "settling"
  /\ LET q == Closing(req[r])
     IN  Step(r, OnClose(IF q.failed THEN OnError(q) ELSE q))
  /\ SameCred

\* The process ends, and with it the requests it had accepted; their files stay.
ProcessExits ==
  /\ Exits
  /\ req' = [r \in Request |->
               IF req[r].phase = "idle" THEN req[r]
               ELSE [NewRequest(req[r].mode, req[r].engine) EXCEPT !.phase = "gone"]]
  /\ cred' = None
  /\ UNCHANGED creds

\* The runner's catch(): execute() has rejected, or a listener has thrown.  It
\* announces a failure and the end.  If a listener throws now, nothing handles
\* the rejection, which ends the process.
RunCatches(r) ==
  /\ req[r].runner = "thrown"
  /\ LET q == OnClose(OnError(Closing(req[r])))
     IN  IF q.runner = "thrown" THEN ProcessExits ELSE Step(r, q) /\ SameCred

\* The client disconnects, or its response has been sent.  The listener is
\* registered when the run is launched.
ResponseCloses(r) ==
  /\ req[r].phase \notin {"idle", "gone"}
  /\ ~req[r].closed
  /\ LET q == [req[r] EXCEPT !.closed = TRUE]
     IN  Step(r, IF q.runner = "none" THEN q ELSE OnResponseClose(q))
  /\ SameCred

\* POST and DELETE of the codex_custom credential.
CredentialChanges ==
  /\ Up
  /\ creds < MaxCred
  /\ creds' = creds + 1
  /\ cred' \in {None, creds' + 1}
  /\ UNCHANGED <<req, usageVars>>

Next ==
  \/ \E r \in Request :
       \/ Arrives(r) \/ Refused(r)
       \/ ImagesWritten(r) \/ ImagesFail(r) \/ CleanedUp(r)
       \/ Prepared(r) \/ PreparationFails(r)
       \/ Spawns(r) \/ Reported(r) \/ PrintsResult(r) \/ ChildExits(r)
       \/ Settles(r) \/ RunCloses(r) \/ RunCatches(r)
       \/ ResponseCloses(r)
  \/ CredentialChanges
  \/ ProcessExits
  \/ UsageStep /\ UNCHANGED <<req, cred, creds>>

Spec == Init /\ [][Next]_vars

\* Pending file operations end, the adapter spawns or settles, it reports what
\* it spawned, and settles once that is gone: of the steps of one line below, at
\* most one is enabled at a time.  Nothing is assumed of a client, nor of a CLI,
\* which may ignore its signal: timeouts are off by default.
FairSpec ==
  /\ Spec
  /\ \A r \in Request :
       /\ WF_vars(ImagesWritten(r) \/ ImagesFail(r) \/ CleanedUp(r))
       /\ WF_vars(Prepared(r) \/ PreparationFails(r) \/ Spawns(r) \/ Reported(r)
                    \/ Settles(r) \/ RunCloses(r) \/ RunCatches(r))

-----------------------------------------------------------------------------
TypeOK ==
  /\ UsageTypeOK
  /\ cred \in Cred \cup {None}
  /\ creds \in 0..MaxCred
  /\ \A r \in Request :
       /\ req[r].phase \in {"idle", "images", "open", "cleaning", "done", "gone"}
       /\ req[r].runner \in {"none", "preparing", "executing", "settling", "thrown",
                             "closed", "rejected"}
       /\ req[r].child \in {"none", "running", "exited"}
       /\ req[r].answer \in {None, "ok", "error"}
       /\ req[r].billed \in Seq(BOOLEAN)
       /\ {req[r].key, req[r].home} \subseteq Cred \cup {None}

\* Whoever waits for the whole answer is not told that a failed run succeeded:
\* not by a result that came before the failure, and not by an exit code
\* without a look at what the CLI printed (paperclip-runner.ts:301-309).  A
\* streamed claude result is on the wire before its run has ended.  What comes
\* second throws or is lost; the throw may end the process.  The type invariant
\* comes first.
SuccessIsSuccess ==
  /\ TypeOK
  /\ \A r \in Request :
       req[r].answer = "ok" /\ (req[r].mode = "plain" \/ req[r].engine # "claude")
         => ~req[r].failed

\* A disconnect that was heard reaches the child, also one that is spawned or
\* reported afterwards (paperclip-runner.ts:285-290).
KillReachesChild ==
  \A r \in Request :
    req[r].killed ~> req[r].signalled \/ req[r].runner \in {"closed", "rejected", "none"}

\* Every request whose client has left, or whose run is over, is released, and
\* its images are removed, unless the process ends first.
RequestsAreReleased ==
  \A r \in Request :
    req[r].heard \/ req[r].runner \in {"closed", "rejected"}
      ~> req[r].phase = "gone" \/ (req[r].phase = "done" /\ ~req[r].images)

=============================================================================
