--------------------------- MODULE BackupRestore ---------------------------
(***************************************************************************)
(* The restore of a backup file in the settings (BackupRestoreFlow): the   *)
(* file is inspected, the summary collects the steps and the confirmations *)
(* the inspection asks for, the restore job is started and polled, and its *)
(* end is handed to the page once.                                         *)
(*                                                                         *)
(* The server is as much of it as the flow can see: which radio is live    *)
(* (1 is the file's own; replacing another one and wiping its history have  *)
(* to be confirmed), whether the live radio is still the expected one, and *)
(* the latest restore job.                                                 *)
(*                                                                         *)
(* Circumstance: "hurries", a file may be chosen before the answer about   *)
(* the latest job is in (that answer may then bring back a job this view   *)
(* has already dealt with).                                                *)
(***************************************************************************)
EXTENDS Integers, FiniteSets

CONSTANTS Worlds,      \* the sets of circumstances considered
          MaxJobs,     \* restore jobs of a behaviour
          MaxFailures, \* MAX_POLL_FAILURES
          MaxPolls,    \* poll answers on their way at once
          MaxSwaps,    \* times the live radio is exchanged
          MaxClicks    \* clicks of a behaviour

VARIABLE ui

Radios == {1, 2, 3}

NoInspect == [live |-> 0, needs |-> FALSE]

NoJob == [id |-> 0, state |-> "none", identity |-> "none"]

NoSteps == [identity |-> FALSE, meshloom |-> FALSE, channels |-> FALSE]

NoStart == [at |-> "none", steps |-> NoSteps, expected |-> 0, wipe |-> FALSE, wipeFor |-> 0]

View0 ==
  [mounted |-> TRUE, phase |-> "idle", inspect |-> NoInspect, steps |-> NoSteps,
   confirm |-> FALSE, confirmWipe |-> FALSE, wipeFor |-> 0, starting |-> FALSE,
   pollError |-> FALSE, failures |-> 0, job |-> NoJob, lastFile |-> FALSE, finishedRef |-> 0]

\* The flow as it is first shown, asking for the latest job (resumeLatest).
Init ==
  \E w \in Worlds :
    ui = [world |-> w, live |-> 1, swaps |-> 0, clicks |-> 0, view |-> View0,
          resume |-> "asking", inspecting |-> FALSE, start |-> NoStart,
          server |-> NoJob, jobs |-> 0, polls |-> {},
          handled |-> {}, called |-> {}, doubled |-> FALSE]

-----------------------------------------------------------------------------
(* The pieces of the flow *)

\* reset
Reset(v) == [View0 EXCEPT !.finishedRef = v.finishedRef, !.starting = v.starting]

\* A new inspection that leaves the confirmations of the last one ticked.
SummaryKeepingConsent(v, inspect) ==
  [v EXCEPT !.phase = "summary", !.inspect = inspect, !.lastFile = TRUE,
            !.steps = [identity |-> TRUE, meshloom |-> TRUE, channels |-> TRUE]]

\* defaultSteps and the fresh confirmations of a new inspection.
Summary(v, inspect) ==
  [v EXCEPT !.phase = "summary", !.inspect = inspect, !.lastFile = TRUE,
            !.steps = [identity |-> TRUE, meshloom |-> TRUE, channels |-> TRUE],
            !.confirm = FALSE, !.confirmWipe = FALSE, !.wipeFor = 0]

\* identityChecks: the decision applies only while the identity step is ticked.
NeedsConsent(v) == v.steps.identity /\ v.inspect.needs

\* RestoreSummary's disabled button.
Blocked(v) == ~v.confirm \/ (NeedsConsent(v) /\ ~v.confirmWipe)

\* A step or a job that ended with the identity refused.
Refused(job) == job.state = "failed" /\ job.identity = "refused"

\* A finish that forgets to mark the job as handled.
FinishedUnmarked(u) ==
  LET v == u.view IN
  IF v.phase # "job" \/ v.job.state \notin {"done", "failed"} \/ v.finishedRef = v.job.id THEN u
  ELSE IF Refused(v.job) /\ v.lastFile
  THEN [u EXCEPT !.view.finishedRef = v.job.id, !.view.phase = "inspecting",
                 !.inspecting = TRUE]
  ELSE [u EXCEPT !.view.finishedRef = v.job.id, !.view.lastFile = FALSE,
                 !.called = @ \cup {v.job.id}, !.doubled = @ \/ v.job.id \in u.called]

\* The effect that sees a finished job: once per job, either back to an inspection of
\* the file still held, or the secrets dropped, the job marked and onFinished called.
Finished(u) ==
  LET v == u.view IN
  IF v.phase # "job" \/ v.job.state \notin {"done", "failed"} \/ v.finishedRef = v.job.id THEN u
  ELSE IF Refused(v.job) /\ v.lastFile
  THEN [u EXCEPT !.view.finishedRef = v.job.id, !.view.phase = "inspecting",
                 !.inspecting = TRUE]
  ELSE [u EXCEPT !.view.finishedRef = v.job.id, !.view.lastFile = FALSE,
                 !.handled = @ \cup {v.job.id}, !.called = @ \cup {v.job.id},
                 !.doubled = @ \/ v.job.id \in u.called]

\* The polling effect is torn down when the job is over, lost or another one: answers
\* still on their way are then ignored.
Polling(v) == v.mounted /\ v.phase = "job" /\ ~v.pollError /\ v.job.state \in {"none", "running"}

Committed(u) ==
  LET w == Finished(u)
  IN IF Polling(w.view) THEN w ELSE [w EXCEPT !.polls = {}]

-----------------------------------------------------------------------------
(* Choosing and inspecting a file *)

Clicking == ui.clicks < MaxClicks

Click(u) == [u EXCEPT !.clicks = @ + 1]

\* handleFile: an encrypted file asks for its passphrase first, another one is inspected.
HandleFile ==
  /\ ui.view.mounted /\ ui.view.phase = "idle" /\ Clicking /\ ~ui.inspecting
  /\ ui.resume = "asking" => "hurries" \in ui.world
  /\ \/ ui' = Committed([Click(ui) EXCEPT !.view.phase = "locked"])
     \/ ui' = Committed([Click(ui) EXCEPT !.view.phase = "inspecting", !.inspecting = TRUE])

\* The passphrase form.
Unlock ==
  /\ ui.view.mounted /\ ui.view.phase = "locked" /\ Clicking /\ ~ui.inspecting
  /\ ui' = Committed([Click(ui) EXCEPT !.view.phase = "inspecting", !.inspecting = TRUE])

\* The inspection answers for the radio that is live, asks for the passphrase again, or
\* fails.
InspectAnswered ==
  /\ ui.inspecting
  /\ LET u == [ui EXCEPT !.inspecting = FALSE] IN
     \/ ui' = IF ~ui.view.mounted THEN u
              ELSE Committed([u EXCEPT !.view = Summary(@, [live |-> ui.live, needs |-> ui.live # 1])])
     \/ ui' = IF ~ui.view.mounted THEN u ELSE Committed([u EXCEPT !.view.phase = "locked"])
     \/ ui' = IF ~ui.view.mounted THEN u
              ELSE Committed([u EXCEPT !.view.phase = "idle", !.view.lastFile = FALSE])

-----------------------------------------------------------------------------
(* The summary *)

OnSummary == ui.view.mounted /\ ui.view.phase = "summary" /\ Clicking

\* The step check boxes: the Meshloom data takes the channels with it.
SetSteps ==
  /\ OnSummary
  /\ \/ ui' = [Click(ui) EXCEPT !.view.steps.identity = ~@]
     \/ ui' = [Click(ui) EXCEPT !.view.steps.meshloom = ~@,
                                !.view.steps.channels = ~ui.view.steps.meshloom]
     \/ ui.view.steps.meshloom /\ ui' = [Click(ui) EXCEPT !.view.steps.channels = ~@]

\* The confirmation of the wipe, shown when the inspection asks for it.
ConfirmWipe ==
  /\ OnSummary /\ NeedsConsent(ui.view)
  /\ ui' = [Click(ui) EXCEPT !.view.confirmWipe = ~@, !.view.wipeFor = ui.view.inspect.live]

Confirm == OnSummary /\ ui' = [Click(ui) EXCEPT !.view.confirm = ~@]

\* The cancel button and the buttons that close a job's view.
Cancel ==
  /\ ui.view.mounted /\ Clicking
  /\ \/ ui.view.phase \in {"locked", "summary"}
     \/ ui.view.phase = "job" /\ (ui.view.pollError \/ ui.view.job.state \in {"done", "failed"})
  /\ ui' = Committed([Click(ui) EXCEPT !.view = Reset(@)])

\* startRestore up to its await: the request carries what is ticked now.
StartRestore ==
  /\ OnSummary /\ ~Blocked(ui.view) /\ ~ui.view.starting /\ ui.start.at = "none"
  /\ ui.jobs < MaxJobs
  /\ ui' = [Click(ui) EXCEPT !.view.starting = TRUE,
                             !.start = [at |-> "sent", steps |-> ui.view.steps,
                                        expected |-> ui.view.inspect.live,
                                        wipe |-> NeedsConsent(ui.view) /\ ui.view.confirmWipe,
                                        wipeFor |-> ui.view.wipeFor]]

\* The server starts the job, refuses because another radio is live, or refuses because
\* a job is running.
ServerStarts ==
  /\ ui.start.at = "sent"
  /\ ui' = IF ui.server.state = "running" THEN [ui EXCEPT !.start.at = "failed"]
           ELSE IF ui.start.steps.identity /\ ui.start.expected # ui.live
           THEN [ui EXCEPT !.start.at = "refused"]
           ELSE [ui EXCEPT !.start.at = "accepted", !.jobs = @ + 1,
                           !.server = [id |-> ui.jobs + 1, state |-> "running",
                                       identity |-> "none"]]

\* startRestore after its await: the job's view, another inspection, or an error.
StartAnswered ==
  /\ ui.start.at \in {"accepted", "refused", "failed"}
  /\ LET u == [ui EXCEPT !.start = NoStart] IN
     ui' = IF ~ui.view.mounted THEN u
           ELSE Committed(
             CASE ui.start.at = "accepted" ->
                    [u EXCEPT !.view.phase = "job", !.view.job = [NoJob EXCEPT !.id = ui.jobs],
                              !.view.finishedRef = 0, !.view.starting = FALSE,
                              !.view.failures = 0, !.polls = {}]
               [] ui.start.at = "refused" ->
                    [u EXCEPT !.view.phase = "inspecting", !.inspecting = TRUE,
                              !.view.starting = FALSE]
               [] ui.start.at = "failed" -> [u EXCEPT !.view.starting = FALSE])

-----------------------------------------------------------------------------
(* The job *)

\* The job ends on the server, well or with its identity step refused or failed.
JobEnds ==
  /\ ui.server.state = "running"
  /\ \E end \in {<<"done", "done">>, <<"failed", "refused">>, <<"failed", "done">>} :
       ui' = [ui EXCEPT !.server.state = end[1], !.server.identity = end[2]]

\* The server restarts and forgets its jobs.
JobLost ==
  /\ ui.server.state # "none" /\ ui.swaps < MaxSwaps
  /\ ui' = [ui EXCEPT !.server = NoJob, !.swaps = @ + 1]

\* A poll reads the job; its answer is on the way.
Poll ==
  /\ Polling(ui.view)
  /\ Cardinality(ui.polls) < MaxPolls
  /\ ui' = [ui EXCEPT !.polls = @ \cup {IF ui.server.id = ui.view.job.id THEN ui.server ELSE NoJob}]

\* An answer arrives, in whatever order; a 404 gives the job up.
PollAnswered ==
  \E a \in ui.polls :
    ui' = Committed(IF a = NoJob
                    THEN [ui EXCEPT !.polls = @ \ {a}, !.view.pollError = TRUE,
                                    !.view.lastFile = FALSE]
                    ELSE [ui EXCEPT !.polls = @ \ {a}, !.view.failures = 0,
                                    !.view.job = IF a.id = @.id THEN a ELSE @])

\* A poll fails on the network; too many in a row give the job up.
PollFailed ==
  /\ Polling(ui.view)
  /\ LET n == ui.view.failures + 1 IN
     ui' = Committed([ui EXCEPT !.view.failures = n,
                                !.view.pollError = n >= MaxFailures,
                                !.view.lastFile = IF n >= MaxFailures THEN FALSE ELSE @])

\* The latest job is shown again after a reload, unless it was already handled.
ResumeAnswered ==
  /\ ui.resume = "asking"
  /\ LET j == ui.server
         u == [ui EXCEPT !.resume = "asked"]
     IN ui' = IF ~ui.view.mounted \/ j = NoJob \/ ui.view.phase # "idle"
                 \/ (j.state # "running" /\ j.id \in ui.handled)
              THEN u ELSE Committed([u EXCEPT !.view.phase = "job", !.view.job = j])

\* The settings are closed: the flow's state goes, its requests run on.
Unmount ==
  /\ ui.view.mounted
  /\ ui' = [ui EXCEPT !.view = [View0 EXCEPT !.mounted = FALSE], !.polls = {},
                      !.resume = "none", !.inspecting = FALSE]

\* They are opened again.
Mount ==
  /\ ~ui.view.mounted /\ ui.start.at = "none" /\ Clicking
  /\ ui' = [Click(ui) EXCEPT !.view = View0, !.resume = "asking"]

\* Another radio becomes the live one.
Swap ==
  /\ ui.swaps < MaxSwaps
  /\ \E r \in Radios \ {ui.live} : ui' = [ui EXCEPT !.live = r, !.swaps = @ + 1]

Next ==
  \/ HandleFile \/ Unlock \/ InspectAnswered \/ SetSteps \/ ConfirmWipe \/ Confirm
  \/ Cancel \/ StartRestore \/ ServerStarts \/ StartAnswered \/ JobEnds \/ JobLost
  \/ Poll \/ PollAnswered \/ PollFailed \/ ResumeAnswered \/ Unmount \/ Mount \/ Swap

-----------------------------------------------------------------------------
(* Properties *)

\* The kinds of values the flow and the server hold.
TypeOK ==
  /\ ui.live \in Radios /\ ui.jobs \in 0..MaxJobs /\ ui.handled \subseteq 1..MaxJobs
  /\ ui.view.phase \in {"idle", "locked", "inspecting", "summary", "job"}
  /\ ui.start.at \in {"none", "sent", "accepted", "refused", "failed"}

\* A job that wipes a history was confirmed for the radio it runs on: a consent given
\* on one inspection never stands for the radio of a later one (the fresh
\* confirmations of inspect, expected_live_public_key).
ConsentForThisRadio ==
  ui.start.at \in {"sent", "accepted"} /\ ui.start.wipe => ui.start.wipeFor = ui.start.expected

\* The channels of the file are never restored without its Meshloom data, whichever
\* way the boxes were ticked (RestoreSummary).
StepsCoherent == ui.start.at # "none" /\ ~ui.start.steps.meshloom => ~ui.start.steps.channels

\* A job's end is handed to the page at most once, by whichever view sees it, across
\* closings and reopenings of the settings (onFinished, markJobHandled).
FinishedOnce == "hurries" \in ui.world \/ ~ui.doubled

\* The end of a job that a view shows has been handed to the page.
EndHandled ==
  "hurries" \notin ui.world /\ ui.view.phase = "job" /\ ui.view.job.state \in {"done", "failed"} =>
    ui.view.job.id \in ui.called

\* The file with its passphrase is held only while an inspection may need it again:
\* not by an idle flow, nor by one whose job ended or was lost (lastFileRef).
SecretsDropped ==
  /\ ui.view.phase = "idle" => ~ui.view.lastFile
  /\ ui.view.phase = "job" /\ ~Polling(ui.view) => ~ui.view.lastFile

\* A view that has shown a job's end does not show it running again: answers of polls
\* overtaken by that of the end are ignored (the cancelled flag of the polling effect).
EndStays ==
  "hurries" \notin ui.world /\ ui.view.phase = "job" /\ ui.view.job.state \in {"done", "failed"}
    /\ ui'.view.phase = "job" =>
    ui'.view.job = ui.view.job \/ ui'.view.job.id > ui.view.job.id
=============================================================================
