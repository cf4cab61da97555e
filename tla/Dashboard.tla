----------------------------- MODULE Dashboard ------------------------------
(***************************************************************************)
(* A snapshot's way from the capture thread to the screen: AppState        *)
(* (crates/cbna-web/src/lib.rs), the request handlers (api.rs) and the     *)
(* polling page (crates/cbna-web/assets/index.html).                       *)
(*                                                                         *)
(* The three fields of AppState are locked one at a time, so a publication *)
(* and a request interleave between them.  A report or a status is known   *)
(* by the number of the publication that put it there.                     *)
(***************************************************************************)
EXTENDS Integers

CONSTANTS
  MaxPublish,  \* bound: publications, the last one final
  Request,     \* requests in flight at once
  NoPayload    \* no report published, nothing displayed, nothing held

ASSUME DashboardAssumption ==
  /\ MaxPublish \in Nat \ {0}
  /\ NoPayload \notin [generation : Nat, report : Nat, status : Nat, running : BOOLEAN]

VARIABLES
  report,      \* AppState.report: 0 is None
  status,      \* AppState.status: its publication, and `running`
  generation,  \* AppState.generation
  publisher,   \* where the publishing thread is
  request,     \* per request: how far its handler is, and what it read
  overlapped,  \* history: a poll started while another was in flight
  latest,      \* the page: the payload displayed
  pending,     \* the page: the payload held
  interacting, \* the page: the user is in the middle of something
  line         \* the page: what the status line says

server == <<report, status, generation>>
page   == <<latest, pending, interacting, line>>
clients == <<request, overlapped>>
vars   == <<server, publisher, clients, page>>

Idle == [at |-> "idle"]

-----------------------------------------------------------------------------
(* AppState::publish, by the capture thread alone.                         *)

\* Mutant: the generation is bumped before the report is stored.
BumpBeforeReport ==
  /\ publisher = "report"
  /\ report < MaxPublish
  /\ IF generation = report
     THEN generation' = generation + 1 /\ UNCHANGED <<report, publisher>>
     ELSE report' = report + 1 /\ publisher' = "status" /\ UNCHANGED generation
  /\ UNCHANGED <<status, clients, page>>

PublishReport ==
  /\ publisher = "report"
  /\ report < MaxPublish
  /\ report' = report + 1
  /\ publisher' = "status"
  /\ UNCHANGED <<status, generation, clients, page>>

PublishStatus ==
  /\ publisher = "status"
  /\ status' = [of |-> report, running |-> TRUE]
  /\ publisher' = "generation"
  /\ UNCHANGED <<report, generation, clients, page>>

\* Mutant: the generation stays.
BumpForgotten ==
  /\ publisher = "generation"
  /\ publisher' = IF report = MaxPublish THEN "finish" ELSE "report"
  /\ UNCHANGED <<server, clients, page>>

BumpGeneration ==
  /\ publisher = "generation"
  /\ generation' = generation + 1
  /\ publisher' = IF report = MaxPublish THEN "finish" ELSE "report"
  /\ UNCHANGED <<report, status, clients, page>>

\* mark_finished, after the last publication.
MarkFinished ==
  /\ publisher = "finish"
  /\ status' = [status EXCEPT !.running = FALSE]
  /\ publisher' = "done"
  /\ UNCHANGED <<report, generation, clients, page>>

-----------------------------------------------------------------------------
(* GET /api/report: the report, then the generation, then the status.      *)

Polling == {r \in Request : request[r].at \notin {"idle", "health"}}

\* The page polls every two seconds and whenever it becomes visible.
Poll(r) ==
  /\ request[r].at = "idle"
  /\ request' = [request EXCEPT ![r] = [at |-> "report"]]
  /\ overlapped' = (overlapped \/ Polling # {})
  /\ UNCHANGED <<server, publisher, page>>

ReadReport(r) ==
  /\ request[r].at = "report"
  /\ request' = [request EXCEPT ![r] =
       IF report = 0 THEN [at |-> "not ready"]
       ELSE [at |-> "generation", report |-> report]]
  /\ UNCHANGED <<server, publisher, overlapped, page>>

ReadGeneration(r) ==
  /\ request[r].at = "generation"
  /\ request' = [request EXCEPT ![r] =
       [at |-> "status", report |-> @.report, generation |-> generation]]
  /\ UNCHANGED <<server, publisher, overlapped, page>>

ReadStatus(r) ==
  /\ request[r].at = "status"
  /\ request' = [request EXCEPT ![r] =
       [at |-> "answered",
        payload |-> [report |-> @.report, generation |-> @.generation,
                     status |-> status.of, running |-> status.running]]]
  /\ UNCHANGED <<server, publisher, overlapped, page>>

\* GET /api/health: the generation (here, whether there has been one), then
\* whether there is a report.
Probe(r) ==
  /\ request[r].at = "idle"
  /\ request' = [request EXCEPT ![r] = [at |-> "health", published |-> generation > 0]]
  /\ UNCHANGED <<server, publisher, overlapped, page>>

Probed(r) ==
  /\ request[r].at = "health"
  /\ request' = [request EXCEPT ![r] = Idle]
  /\ UNCHANGED <<server, publisher, overlapped, page>>

-----------------------------------------------------------------------------
(* The page.  An answer is handled in one turn of the event loop; answers  *)
(* arrive in any order.                                                    *)

\* poll() on 503: nothing is on screen yet, or what is stays.
NotReady(r) ==
  /\ request[r].at = "not ready"
  /\ request' = [request EXCEPT ![r] = Idle]
  /\ line' = "waiting"
  /\ UNCHANGED <<server, publisher, overlapped, latest, pending, interacting>>

\* fetch failed: the request or its answer was lost.
Disconnected(r) ==
  /\ r \in Polling
  /\ request' = [request EXCEPT ![r] = Idle]
  /\ line' = "disconnected"
  /\ UNCHANGED <<server, publisher, overlapped, latest, pending, interacting>>

\* Mutant: a new snapshot is told by its report.
ChangedReport(payload) ==
  latest # NoPayload => payload.report # latest.report

\* What poll() tells a new snapshot by.
Changed(payload) ==
  latest # NoPayload => payload.generation # latest.generation

StatusLine(payload) == IF payload.running THEN "live" ELSE "stopped"

\* Mutant: displaying a snapshot leaves an older one held.
ApplyKeepsPending(r) ==
  /\ request[r].at = "answered"
  /\ Changed(request[r].payload) /\ ~interacting
  /\ latest' = request[r].payload
  /\ line' = StatusLine(request[r].payload)
  /\ request' = [request EXCEPT ![r] = Idle]
  /\ UNCHANGED <<server, publisher, overlapped, pending, interacting>>

\* A new snapshot is displayed, unless the user is busy.
Apply(r) ==
  /\ request[r].at = "answered"
  /\ Changed(request[r].payload) /\ ~interacting
  /\ latest' = request[r].payload
  /\ pending' = NoPayload
  /\ line' = StatusLine(request[r].payload)
  /\ request' = [request EXCEPT ![r] = Idle]
  /\ UNCHANGED <<server, publisher, overlapped, interacting>>

\* A new snapshot is held while the user works.
Hold(r) ==
  /\ request[r].at = "answered"
  /\ Changed(request[r].payload) /\ interacting
  /\ pending' = request[r].payload
  /\ line' = StatusLine(request[r].payload)
  /\ request' = [request EXCEPT ![r] = Idle]
  /\ UNCHANGED <<server, publisher, overlapped, latest, interacting>>

\* Mutant: an answer of the generation on screen is ignored altogether.
SkipIgnores(r) ==
  /\ request[r].at = "answered"
  /\ ~Changed(request[r].payload)
  /\ request' = [request EXCEPT ![r] = Idle]
  /\ UNCHANGED <<server, publisher, overlapped, page>>

\* The generation on screen: only the status is taken over.
Skip(r) ==
  /\ request[r].at = "answered"
  /\ ~Changed(request[r].payload)
  /\ latest' = [latest EXCEPT !.status = request[r].payload.status,
                              !.running = request[r].payload.running]
  /\ line' = StatusLine(request[r].payload)
  /\ request' = [request EXCEPT ![r] = Idle]
  /\ UNCHANGED <<server, publisher, overlapped, pending, interacting>>

\* The user types, drags, selects text or pauses.
StartInteracting ==
  /\ ~interacting
  /\ interacting' = TRUE
  /\ UNCHANGED <<server, publisher, clients, latest, pending, line>>

\* Blur, pointer up, collapsed selection or resume.
StopInteracting ==
  /\ interacting
  /\ interacting' = FALSE
  /\ UNCHANGED <<server, publisher, clients, latest, pending, line>>

\* applyPending, in a later turn of the event loop: answers and the user may
\* come first.
ApplyPending ==
  /\ pending # NoPayload /\ ~interacting
  /\ latest' = pending
  /\ pending' = NoPayload
  /\ UNCHANGED <<server, publisher, clients, interacting, line>>

-----------------------------------------------------------------------------

Init ==
  /\ report = 0 /\ status = [of |-> 0, running |-> TRUE] /\ generation = 0
  /\ publisher = "report"
  /\ request = [r \in Request |-> Idle] /\ overlapped = FALSE
  /\ latest = NoPayload /\ pending = NoPayload
  /\ interacting = FALSE /\ line = "waiting"

Publisher == PublishReport \/ PublishStatus \/ BumpGeneration \/ MarkFinished

Handler(r) == ReadReport(r) \/ ReadGeneration(r) \/ ReadStatus(r) \/ Probed(r)

Answer(r) == NotReady(r) \/ Apply(r) \/ Hold(r) \/ Skip(r)

Next ==
  \/ Publisher
  \/ \E r \in Request :
       Poll(r) \/ Probe(r) \/ Handler(r) \/ Answer(r) \/ Disconnected(r)
  \/ StartInteracting \/ StopInteracting \/ ApplyPending

Spec == Init /\ [][Next]_vars

\* The threads are scheduled, the events that end an interaction run, and the
\* timer polls, however many probes come in between.
Scheduled ==
  /\ WF_vars(Publisher)
  /\ \A r \in Request :
       SF_vars(Poll(r)) /\ WF_vars(Handler(r)) /\ WF_vars(Answer(r))
  /\ WF_vars(ApplyPending)

\* The network comes back for good.
Connected == <>[][\A r \in Request : ~Disconnected(r)]_vars

FairSpec == Spec /\ Scheduled /\ Connected

-----------------------------------------------------------------------------
(* Properties.                                                             *)

\* How far apart the fields of one answer can be, however its three reads and
\* any number of publications interleave: the generation is at most one behind
\* the report, the status never behind the generation, and "not running" comes
\* with the last status.
AnswerSkew ==
  \A r \in Request : request[r].at = "answered" =>
    LET p == request[r].payload IN
    /\ p.report <= p.generation + 1
    /\ p.generation <= p.status
    /\ ~p.running => p.status = MaxPublish

\* /api/health never announces a generation and denies there is a report:
\* between its two reads, the second would find one if the first did.
HealthAgrees ==
  \A r \in Request :
    (request[r].at = "health" /\ request[r].published) => report # 0

\* As long as no two polls were in flight at once the screen never goes back: not the
\* report, the generation or the status, whatever is held and applied late.
NeverGoesBack ==
  [][(latest # NoPayload /\ ~overlapped) =>
       /\ latest'.report >= latest.report
       /\ latest'.generation >= latest.generation
       /\ latest'.status >= latest.status]_vars

\* What the page says of a held snapshot, it is newer than the one displayed
\* (index.html line 2079), is so until two polls overlap: poll only compares with
\* `!==`, so a late answer of an overlapping poll would be held as newer.
HeldIsNewer ==
  (pending # NoPayload /\ latest # NoPayload /\ ~overlapped) =>
    pending.generation > latest.generation

\* A capture that stopped is eventually shown as stopped for good, even to a
\* user who holds the page.
StoppedIsShown == <>[](line = "stopped")

\* Once the user lets go, the page settles on the last generation.
LastGenerationIsShown ==
  <>[]~interacting =>
    <>[](latest # NoPayload /\ latest.generation = MaxPublish)

\* lib.rs lines 3-6 and 34: every request serves the latest snapshot, and the
\* generation only spares redundant redraws.  So once the user lets go, the
\* page settles on the last report.
LastReportIsShown ==
  <>[]~interacting => <>[](latest # NoPayload /\ latest.report = MaxPublish)
=============================================================================
