-------------------------- MODULE DashboardProofs ---------------------------
(***************************************************************************)
(* Proofs about Dashboard, for every number of publications and every set  *)
(* of requests in flight: how far apart the fields of an answer can be,    *)
(* and that the page does not go back as long as no two polls overlap.     *)
(***************************************************************************)
EXTENDS Dashboard, TLAPS

Payload == [generation : Nat, report : Nat, status : Nat, running : BOOLEAN]

Requests ==
  [at : {"idle", "report", "not ready"}]
    \union [at : {"health"}, published : BOOLEAN]
    \union [at : {"generation"}, report : Nat]
    \union [at : {"status"}, report : Nat, generation : Nat]
    \union [at : {"answered"}, payload : Payload]

-----------------------------------------------------------------------------
(* The server: a publication under way has moved a prefix of the fields.   *)

ServerType ==
  /\ report \in Nat /\ generation \in Nat
  /\ status \in [of : Nat, running : BOOLEAN]
  /\ publisher \in {"report", "status", "generation", "finish", "done"}

Fields ==
  /\ publisher = "report" => report = generation /\ status.of = generation
  /\ publisher = "status" => report = generation + 1 /\ status.of = generation
  /\ publisher = "generation" => report = generation + 1 /\ status.of = report
  /\ publisher \in {"finish", "done"} =>
       report = generation /\ status.of = report /\ report = MaxPublish
  /\ publisher # "done" => status.running

ServerInv == ServerType /\ Fields

-----------------------------------------------------------------------------
(* The requests: what a handler has read is not ahead of the server.       *)

Skew(p) ==
  /\ p.report <= p.generation + 1
  /\ p.generation <= p.status
  /\ ~p.running => p.status = MaxPublish

\* The server has published what the payload says.
Published(p) ==
  p.report <= report /\ p.generation <= generation /\ p.status <= status.of

ReadOk(q) ==
  /\ q.at = "health" /\ q.published => report # 0
  /\ q.at = "generation" => q.report <= report
  /\ q.at = "status" =>
       /\ q.report <= report /\ q.generation <= generation
       /\ q.report <= q.generation + 1
  /\ q.at = "answered" => Published(q.payload) /\ Skew(q.payload)

RequestInv ==
  /\ request \in [Request -> Requests]
  /\ \A r \in Request : ReadOk(request[r])

-----------------------------------------------------------------------------
(* The page, until two polls overlap: the poll in flight is ahead of what  *)
(* is displayed and of what is held, and what is held is ahead of what is  *)
(* displayed.                                                              *)

Below(p, q) ==
  p.report <= q.report /\ p.generation <= q.generation /\ p.status <= q.status

Behind(p, q) ==
  /\ q.at = "generation" => p.report <= q.report
  /\ q.at = "status" => p.report <= q.report /\ p.generation <= q.generation
  /\ q.at = "answered" => Below(p, q.payload)

Told(p) ==
  p # NoPayload =>
    Published(p) /\ \A r \in Request : Behind(p, request[r])

InFlight(q) == q.at \notin {"idle", "health"}

PageType ==
  /\ latest \in Payload \union {NoPayload}
  /\ pending \in Payload \union {NoPayload}
  /\ overlapped \in BOOLEAN

OnePoll ==
  \A r, s \in Request : InFlight(request[r]) /\ InFlight(request[s]) => r = s

HeldIsAhead ==
  (latest # NoPayload /\ pending # NoPayload) =>
    Below(latest, pending) /\ latest.generation < pending.generation

PageInv ==
  /\ PageType
  /\ ~overlapped => OnePoll /\ Told(latest) /\ Told(pending) /\ HeldIsAhead

DashInv == ServerInv /\ RequestInv /\ PageInv

-----------------------------------------------------------------------------
(* The server's steps.                                                     *)

\* A publication moves every field forward, and nothing after the end.
LEMMA PublisherMoves ==
  ASSUME ServerInv, Publisher
  PROVE  /\ ServerInv'
         /\ report <= report' /\ generation <= generation' /\ status.of <= status'.of
<1> USE DashboardAssumption DEF ServerInv, ServerType, Fields
<1>1. CASE PublishReport
  BY <1>1 DEF PublishReport
<1>2. CASE PublishStatus
  BY <1>2 DEF PublishStatus
<1>3. CASE BumpGeneration
  BY <1>3 DEF BumpGeneration
<1>4. CASE MarkFinished
  <2>1. status' \in [of : Nat, running : BOOLEAN] /\ status'.of = status.of
    BY <1>4 DEF MarkFinished
  <2>2. /\ publisher = "finish" /\ publisher' = "done"
        /\ UNCHANGED <<report, generation>>
    BY <1>4 DEF MarkFinished
  <2>. QED BY <2>1, <2>2
<1>. QED BY <1>1, <1>2, <1>3, <1>4 DEF Publisher

\* What was published stays published.
LEMMA PublishedGrows ==
  ASSUME ServerType, ServerType',
         report <= report', generation <= generation', status.of <= status'.of
  PROVE  /\ \A p \in Payload : Published(p) => Published(p)'
         /\ \A q \in Requests : ReadOk(q) => ReadOk(q)'
<1>1. ASSUME NEW p \in Payload, Published(p)
      PROVE  Published(p)'
  BY <1>1 DEF Published, Payload, ServerType
<1>2. ASSUME NEW q \in Requests, ReadOk(q)
      PROVE  ReadOk(q)'
  <2>1. q.at = "answered" => q.payload \in Payload
    BY DEF Requests
  <2>2. q.at = "generation" => q.report \in Nat
    BY DEF Requests
  <2>3. q.at = "status" => q.report \in Nat /\ q.generation \in Nat
    BY DEF Requests
  <2>4. report # 0 => report' # 0
    BY DEF ServerType
  <2>5. q.at = "health" /\ q.published => report' # 0
    BY <1>2, <2>4, Zenon DEF ReadOk
  <2>6. q.at = "generation" => q.report <= report'
    BY <1>2, <2>2 DEF ReadOk, ServerType
  <2>7. q.at = "status" =>
          /\ q.report <= report' /\ q.generation <= generation'
          /\ q.report <= q.generation + 1
    BY <1>2, <2>3 DEF ReadOk, ServerType
  <2>8. q.at = "answered" => Published(q.payload)' /\ Skew(q.payload)
    BY <1>1, <1>2, <2>1 DEF ReadOk
  <2>. QED BY <2>5, <2>6, <2>7, <2>8, Zenon DEF ReadOk, Skew
<1>. QED BY <1>1, <1>2

LEMMA PublisherKeeps ==
  ASSUME DashInv, Publisher
  PROVE  DashInv'
<1>1. /\ ServerInv'
      /\ report <= report' /\ generation <= generation' /\ status.of <= status'.of
  BY PublisherMoves DEF DashInv
<1>2. /\ \A p \in Payload : Published(p) => Published(p)'
      /\ \A q \in Requests : ReadOk(q) => ReadOk(q)'
  BY <1>1, PublishedGrows DEF DashInv, ServerInv
<1>3. UNCHANGED <<request, overlapped, latest, pending>>
  BY DEF Publisher, PublishReport, PublishStatus, BumpGeneration, MarkFinished,
         clients, page
<1>4. RequestInv'
  <2>1. \A r \in Request : request[r] \in Requests /\ ReadOk(request[r])
    BY DEF DashInv, RequestInv
  <2>2. \A r \in Request : ReadOk(request[r])'
    <3>1. ASSUME NEW r \in Request
          PROVE  ReadOk(request[r])'
      <4>1. PICK q \in Requests : q = request[r] /\ ReadOk(q)
        BY <2>1
      <4>2. ReadOk(q)'
        BY <1>2, <4>1
      <4>. QED BY <1>3, <4>1, <4>2 DEF ReadOk, Published, Skew
    <3>. QED BY <3>1
  <2>. QED BY <1>3, <2>2 DEF DashInv, RequestInv
<1>5. PageInv'
  <2>1. ASSUME NEW p \in Payload \union {NoPayload}, Told(p)
        PROVE  Told(p)'
    BY <1>2, <1>3, <2>1 DEF Told, Behind, Below
  <2>2. /\ latest \in Payload \union {NoPayload} /\ pending \in Payload \union {NoPayload}
        /\ ~overlapped => OnePoll /\ Told(latest) /\ Told(pending) /\ HeldIsAhead
    BY DEF DashInv, PageInv, PageType
  <2>3. PICK l \in Payload \union {NoPayload} : l = latest
    BY <2>2
  <2>4. PICK h \in Payload \union {NoPayload} : h = pending
    BY <2>2
  <2>5. ~overlapped => Told(l)' /\ Told(h)'
    BY <2>1, <2>2, <2>3, <2>4
  <2>6. ~overlapped' => Told(latest)' /\ Told(pending)'
    BY <1>3, <2>3, <2>4, <2>5 DEF Told, Published
  <2>7. PageType'
    BY <1>3 DEF DashInv, PageInv, PageType
  <2>8. ~overlapped' => OnePoll' /\ HeldIsAhead'
    BY <1>3, <2>2 DEF OnePoll, InFlight, HeldIsAhead, Below
  <2>. QED BY <2>6, <2>7, <2>8 DEF PageInv
<1>. QED BY <1>1, <1>4, <1>5 DEF DashInv

-----------------------------------------------------------------------------
(* One request moves on: the others stay where they were.                  *)

LEMMA OneRequestMoves ==
  ASSUME DashInv, UNCHANGED <<server, publisher>>,
         NEW r \in Request, NEW q \in Requests,
         request' = [request EXCEPT ![r] = q], ReadOk(q)
  PROVE  /\ ServerInv' /\ RequestInv'
         /\ request'[r] = q
         /\ \A s \in Request \ {r} : request'[s] = request[s]
<1>1. /\ request \in [Request -> Requests]
      /\ \A s \in Request : ReadOk(request[s])
  BY DEF DashInv, RequestInv
<1>2. /\ request'[r] = q
      /\ \A s \in Request \ {r} : request'[s] = request[s]
      /\ request' \in [Request -> Requests]
  BY <1>1
<1>3. ServerInv'
  BY DEF DashInv, ServerInv, ServerType, Fields, server
<1>4. ASSUME NEW s \in Request
      PROVE  ReadOk(request[s])'
  <2>1. CASE s = r
    BY <1>2, <2>1 DEF ReadOk, Published, Skew, server
  <2>2. CASE s # r
    <3>1. request'[s] = request[s] /\ ReadOk(request[s])
      BY <1>1, <1>2, <2>2
    <3>. QED BY <3>1 DEF ReadOk, Published, Skew, server
  <2>. QED BY <2>1, <2>2
<1>. QED BY <1>2, <1>3, <1>4 DEF RequestInv

\* The page stays as it is: what the request has now read must not be behind it,
\* and a poll must not start beside another.
LEMMA PageStays ==
  ASSUME DashInv, UNCHANGED <<server, latest, pending>>,
         overlapped' \in BOOLEAN, ~overlapped' => ~overlapped,
         NEW r \in Request, NEW q,
         request'[r] = q,
         \A s \in Request \ {r} : request'[s] = request[s],
         ~overlapped' /\ InFlight(q) =>
           \A s \in Request \ {r} : ~InFlight(request[s]),
         \A p \in {latest, pending} :
           ~overlapped' /\ p # NoPayload => Behind(p, q)
  PROVE  PageInv'
<1>1. PageType'
  BY DEF DashInv, PageInv, PageType
<1>2. ASSUME ~overlapped'
      PROVE  OnePoll' /\ Told(latest)' /\ Told(pending)' /\ HeldIsAhead'
  <2>1. OnePoll /\ Told(latest) /\ Told(pending) /\ HeldIsAhead
    BY <1>2 DEF DashInv, PageInv
  <2>2. OnePoll'
    BY <1>2, <2>1 DEF OnePoll, InFlight
  <2>3. ASSUME latest # NoPayload
        PROVE  Told(latest)'
    <3>1. Behind(latest, q) /\ Published(latest)
          /\ \A s \in Request : Behind(latest, request[s])
      BY <1>2, <2>1, <2>3 DEF Told
    <3>2. \A s \in Request : Behind(latest, request'[s])
      BY <3>1
    <3>. QED BY <3>1, <3>2 DEF Told, Behind, Below, Published, server
  <2>4. ASSUME pending # NoPayload
        PROVE  Told(pending)'
    <3>1. Behind(pending, q) /\ Published(pending)
          /\ \A s \in Request : Behind(pending, request[s])
      BY <1>2, <2>1, <2>4 DEF Told
    <3>2. \A s \in Request : Behind(pending, request'[s])
      BY <3>1
    <3>. QED BY <3>1, <3>2 DEF Told, Behind, Below, Published, server
  <2>5. HeldIsAhead'
    BY <2>1 DEF HeldIsAhead, Below
  <2>. QED BY <2>2, <2>3, <2>4, <2>5 DEF Told
<1>. QED BY <1>1, <1>2 DEF PageInv

\* The end of a request.
LEMMA IdleIsARequest ==
  /\ Idle \in Requests /\ ReadOk(Idle) /\ ~InFlight(Idle)
  /\ \A p : Behind(p, Idle)
  BY DEF Idle, Requests, ReadOk, InFlight, Behind

-----------------------------------------------------------------------------
(* The handlers' steps.                                                    *)

LEMMA PollKeeps ==
  ASSUME DashInv, NEW r \in Request, Poll(r)
  PROVE  DashInv'
<1> DEFINE q == [at |-> "report"]
<1>1. /\ q \in Requests /\ ReadOk(q) /\ InFlight(q)
      /\ \A p : Behind(p, q)
  BY DEF Requests, ReadOk, InFlight, Behind
<1>2. /\ request' = [request EXCEPT ![r] = q]
      /\ UNCHANGED <<server, publisher, latest, pending>>
  BY DEF Poll, page
<1>3. /\ overlapped' \in BOOLEAN
      /\ ~overlapped' => ~overlapped /\ Polling = {}
  BY DEF Poll, DashInv, PageInv, PageType
<1>4. ~overlapped' => \A s \in Request \ {r} : ~InFlight(request[s])
  BY <1>3 DEF Polling, InFlight
<1> HIDE DEF q
<1>5. /\ ServerInv' /\ RequestInv' /\ request'[r] = q
      /\ \A s \in Request \ {r} : request'[s] = request[s]
  BY <1>1, <1>2, OneRequestMoves
<1>6. PageInv'
  BY <1>1, <1>2, <1>3, <1>4, <1>5, PageStays
<1>. QED BY <1>5, <1>6 DEF DashInv

\* A step of a poll already in flight, or of one that is none.
LEMMA RequestKeeps ==
  ASSUME DashInv, UNCHANGED <<server, publisher, overlapped, latest, pending>>,
         NEW r \in Request, NEW q \in Requests,
         request' = [request EXCEPT ![r] = q], ReadOk(q),
         InFlight(q) => InFlight(request[r]),
         \A p \in {latest, pending} :
           ~overlapped /\ p # NoPayload => Behind(p, q)
  PROVE  DashInv'
<1>1. /\ ServerInv' /\ RequestInv' /\ request'[r] = q
      /\ \A s \in Request \ {r} : request'[s] = request[s]
  BY OneRequestMoves
<1>2. overlapped' = overlapped /\ overlapped \in BOOLEAN
  BY DEF DashInv, PageInv, PageType
<1>3. ~overlapped /\ InFlight(q) =>
        \A s \in Request \ {r} : ~InFlight(request[s])
  BY DEF DashInv, PageInv, OnePoll
<1>4. PageInv'
  BY <1>1, <1>2, <1>3, PageStays
<1>. QED BY <1>1, <1>4 DEF DashInv

\* What is displayed or held while no polls overlap.
LEMMA ShownIsTold ==
  ASSUME DashInv, ~overlapped,
         NEW p \in {latest, pending}, p # NoPayload
  PROVE  /\ p \in Payload /\ Published(p)
         /\ \A r \in Request : Behind(p, request[r])
  BY DEF DashInv, PageInv, PageType, Told

LEMMA ReadReportKeeps ==
  ASSUME DashInv, NEW r \in Request, ReadReport(r)
  PROVE  DashInv'
<1>1. UNCHANGED <<server, publisher, overlapped, latest, pending>>
      /\ InFlight(request[r])
  BY DEF ReadReport, page, InFlight
<1>2. report \in Nat
  BY DEF DashInv, ServerInv, ServerType
<1>3. CASE report = 0
  <2> DEFINE q == [at |-> "not ready"]
  <2>1. request' = [request EXCEPT ![r] = q]
    BY <1>3 DEF ReadReport
  <2>2. q \in Requests /\ ReadOk(q) /\ \A p : Behind(p, q)
    BY DEF Requests, ReadOk, Behind
  <2> HIDE DEF q
  <2>. QED BY <1>1, <2>1, <2>2, RequestKeeps
<1>4. CASE report # 0
  <2> DEFINE q == [at |-> "generation", report |-> report]
  <2>1. request' = [request EXCEPT ![r] = q]
    BY <1>4 DEF ReadReport
  <2>2. q \in Requests /\ ReadOk(q)
    <3>1. q.at = "generation" /\ q.report <= report
      BY <1>2
    <3>2. ReadOk(q)
      BY <3>1, Zenon DEF ReadOk
    <3>. QED BY <1>2, <3>2 DEF Requests
  <2>3. \A p \in {latest, pending} : ~overlapped /\ p # NoPayload => Behind(p, q)
    BY ShownIsTold DEF Behind, Published
  <2>4. q \in Requests /\ ReadOk(q) /\ InFlight(request[r])
    BY <1>1, <2>2
  <2> HIDE DEF q
  <2>. QED BY <1>1, <2>1, <2>2, <2>3, RequestKeeps
<1>. QED BY <1>3, <1>4

LEMMA ReadGenerationKeeps ==
  ASSUME DashInv, NEW r \in Request, ReadGeneration(r)
  PROVE  DashInv'
<1> DEFINE q == [at |-> "status", report |-> request[r].report, generation |-> generation]
<1>1. /\ request' = [request EXCEPT ![r] = q]
      /\ UNCHANGED <<server, publisher, overlapped, latest, pending>>
      /\ request[r].at = "generation"
  BY DEF ReadGeneration, page
<1>2. /\ request[r] \in Requests /\ ReadOk(request[r])
      /\ report \in Nat /\ generation \in Nat
  BY DEF DashInv, RequestInv, ServerInv, ServerType
<1>3. request[r].report \in Nat /\ request[r].report <= report
  BY <1>1, <1>2 DEF Requests, ReadOk
<1>4. report <= generation + 1
  BY DEF DashInv, ServerInv, ServerType, Fields
<1>5. q \in Requests /\ ReadOk(q)
  <2>1. q.at = "status"
    OBVIOUS
  <2>2. /\ q.report <= report /\ q.generation <= generation
        /\ q.report <= q.generation + 1
    BY <1>2, <1>3, <1>4
  <2>3. ReadOk(q)
    BY <2>1, <2>2, Zenon DEF ReadOk
  <2>. QED BY <1>2, <1>3, <2>3 DEF Requests
<1>6. \A p \in {latest, pending} : ~overlapped /\ p # NoPayload => Behind(p, q)
  BY <1>1, ShownIsTold DEF Behind, Published
<1>7. InFlight(request[r])
  BY <1>1 DEF InFlight
<1> HIDE DEF q
<1>. QED BY <1>1, <1>5, <1>6, <1>7, RequestKeeps

LEMMA ReadStatusKeeps ==
  ASSUME DashInv, NEW r \in Request, ReadStatus(r)
  PROVE  DashInv'
<1> DEFINE p == [report |-> request[r].report, generation |-> request[r].generation,
                 status |-> status.of, running |-> status.running]
           q == [at |-> "answered", payload |-> p]
<1>1. /\ request' = [request EXCEPT ![r] = q]
      /\ UNCHANGED <<server, publisher, overlapped, latest, pending>>
      /\ request[r].at = "status"
  BY DEF ReadStatus, page
<1>2. /\ request[r] \in Requests /\ ReadOk(request[r])
      /\ report \in Nat /\ generation \in Nat
      /\ status \in [of : Nat, running : BOOLEAN]
  BY DEF DashInv, RequestInv, ServerInv, ServerType
<1>3. /\ request[r].report \in Nat /\ request[r].generation \in Nat
      /\ request[r].report <= report /\ request[r].generation <= generation
      /\ request[r].report <= request[r].generation + 1
  BY <1>1, <1>2 DEF Requests, ReadOk
<1>4. generation <= status.of
  BY DEF DashInv, ServerInv, ServerType, Fields
<1>5. ~status.running => status.of = MaxPublish
  BY DEF DashInv, ServerInv, ServerType, Fields
<1>6. /\ p \in Payload /\ Published(p)
      /\ p.report <= p.generation + 1 /\ p.generation <= p.status
  BY <1>2, <1>3, <1>4 DEF Payload, Published
<1>7. ~p.running => p.status = MaxPublish
  BY <1>5, Zenon
<1>8. Skew(p)
  BY <1>6, <1>7, Zenon DEF Skew
<1>9. \A d \in {latest, pending} : ~overlapped /\ d # NoPayload => Below(d, p)
  BY <1>1, ShownIsTold DEF Behind, Published, Below
<1>10. InFlight(request[r])
  BY <1>1 DEF InFlight
<1> HIDE DEF p
<1>11. q \in Requests /\ ReadOk(q)
  BY <1>6, <1>8 DEF Requests, ReadOk
<1>12. \A d \in {latest, pending} : ~overlapped /\ d # NoPayload => Behind(d, q)
  BY <1>9 DEF Behind
<1> HIDE DEF q
<1>. QED BY <1>1, <1>10, <1>11, <1>12, RequestKeeps

LEMMA ProbeKeeps ==
  ASSUME DashInv, NEW r \in Request, Probe(r)
  PROVE  DashInv'
<1> DEFINE q == [at |-> "health", published |-> generation > 0]
<1>1. /\ request' = [request EXCEPT ![r] = q]
      /\ UNCHANGED <<server, publisher, overlapped, latest, pending>>
  BY DEF Probe, page
<1>2. generation > 0 => report # 0
  BY DEF DashInv, ServerInv, ServerType, Fields
<1>3. /\ q \in Requests /\ ~InFlight(q)
      /\ \A p : Behind(p, q)
  BY DEF Requests, InFlight, Behind
<1>4. ReadOk(q)
  BY <1>2 DEF ReadOk
<1> HIDE DEF q
<1>. QED BY <1>1, <1>3, <1>4, RequestKeeps

\* A request that ends without touching the screen.
LEMMA EndKeeps ==
  ASSUME DashInv, NEW r \in Request,
         Probed(r) \/ NotReady(r) \/ Disconnected(r)
  PROVE  DashInv'
<1>1. /\ request' = [request EXCEPT ![r] = Idle]
      /\ UNCHANGED <<server, publisher, overlapped, latest, pending>>
  BY DEF Probed, NotReady, Disconnected, page
<1>. QED BY <1>1, IdleIsARequest, RequestKeeps

-----------------------------------------------------------------------------
(* The page's steps.                                                       *)

\* An answer as the page finds it: ahead of what is displayed and of what is
\* held, and the last poll in flight.
LEMMA AnswerArrives ==
  ASSUME DashInv, ~overlapped, NEW r \in Request, request[r].at = "answered",
         request' = [request EXCEPT ![r] = Idle], UNCHANGED server
  PROVE  /\ request[r].payload \in Payload /\ Published(request[r].payload)
         /\ latest # NoPayload => latest \in Payload /\ Below(latest, request[r].payload)
         /\ pending # NoPayload => pending \in Payload /\ Below(pending, request[r].payload)
         /\ \A s \in Request : ~InFlight(request'[s]) /\ \A p : Behind(p, request'[s])
<1>1. request[r] \in Requests /\ ReadOk(request[r])
  BY DEF DashInv, RequestInv
<1>2. request[r].payload \in Payload /\ Published(request[r].payload)
  BY <1>1 DEF Requests, ReadOk
<1>3. \A p \in {latest, pending} :
        p # NoPayload => p \in Payload /\ Behind(p, request[r])
  BY ShownIsTold
<1>4. ASSUME NEW s \in Request
      PROVE  ~InFlight(request'[s]) /\ \A p : Behind(p, request'[s])
  <2>1. CASE s = r
    BY <2>1, IdleIsARequest DEF DashInv, RequestInv
  <2>2. CASE s # r
    <3>1. request'[s] = request[s]
      BY <2>2 DEF DashInv, RequestInv
    <3>2. ~InFlight(request[s])
      BY <2>2 DEF DashInv, PageInv, OnePoll, InFlight
    <3>. QED BY <3>1, <3>2 DEF InFlight, Behind
  <2>. QED BY <2>1, <2>2
<1>. QED BY <1>2, <1>3, <1>4 DEF Behind

\* A new page, once no poll is in flight: it is enough that what it shows and
\* what it holds has been published, in that order.
LEMMA PageMoves ==
  ASSUME UNCHANGED server, PageType',
         ~overlapped' =>
           /\ \A s \in Request : ~InFlight(request'[s]) /\ \A p : Behind(p, request'[s])
           /\ latest' # NoPayload => Published(latest')
           /\ pending' # NoPayload => Published(pending')
           /\ HeldIsAhead'
  PROVE  PageInv'
<1>1. ASSUME ~overlapped'
      PROVE  OnePoll' /\ Told(latest)' /\ Told(pending)' /\ HeldIsAhead'
  <2>1. OnePoll' /\ HeldIsAhead'
    BY <1>1 DEF OnePoll, InFlight
  <2>2. Told(latest)'
    BY <1>1 DEF Told, Published, Behind, Below, server
  <2>3. Told(pending)'
    BY <1>1 DEF Told, Published, Behind, Below, server
  <2>. QED BY <2>1, <2>2, <2>3
<1>. QED BY <1>1 DEF PageInv

\* An answer leaves the server and the other requests alone.
LEMMA AnswerEnds ==
  ASSUME DashInv, NEW r \in Request, request[r].at = "answered",
         request' = [request EXCEPT ![r] = Idle],
         UNCHANGED <<server, publisher>>
  PROVE  /\ ServerInv' /\ RequestInv' /\ request[r].payload \in Payload
<1>1. ServerInv' /\ RequestInv'
  BY IdleIsARequest, OneRequestMoves
<1>2. request[r] \in Requests
  BY DEF DashInv, RequestInv
<1>. QED BY <1>1, <1>2 DEF Requests

LEMMA ApplyKeeps ==
  ASSUME DashInv, NEW r \in Request, Apply(r)
  PROVE  DashInv'
<1>1. /\ request[r].at = "answered" /\ request' = [request EXCEPT ![r] = Idle]
      /\ UNCHANGED <<server, publisher, overlapped>>
      /\ latest' = request[r].payload /\ pending' = NoPayload
  BY DEF Apply
<1>2. ServerInv' /\ RequestInv' /\ request[r].payload \in Payload
  BY <1>1, AnswerEnds
<1>3. PageType'
  BY <1>1, <1>2 DEF DashInv, PageInv, PageType
<1>4. PageInv'
  BY <1>1, <1>3, AnswerArrives, PageMoves DEF HeldIsAhead
<1>. QED BY <1>2, <1>4 DEF DashInv

LEMMA HoldKeeps ==
  ASSUME DashInv, NEW r \in Request, Hold(r)
  PROVE  DashInv'
<1>1. /\ request[r].at = "answered" /\ request' = [request EXCEPT ![r] = Idle]
      /\ UNCHANGED <<server, publisher, overlapped, latest>>
      /\ pending' = request[r].payload /\ Changed(request[r].payload)
  BY DEF Hold
<1>2. ServerInv' /\ RequestInv' /\ request[r].payload \in Payload
  BY <1>1, AnswerEnds
<1>3. PageType'
  BY <1>1, <1>2 DEF DashInv, PageInv, PageType
<1>4. ASSUME ~overlapped'
      PROVE  /\ \A s \in Request : ~InFlight(request'[s]) /\ \A p : Behind(p, request'[s])
             /\ latest' # NoPayload => Published(latest')
             /\ pending' # NoPayload => Published(pending')
             /\ HeldIsAhead'
  <2>1. /\ Published(request[r].payload)
        /\ latest # NoPayload => latest \in Payload /\ Below(latest, request[r].payload)
        /\ \A s \in Request : ~InFlight(request'[s]) /\ \A p : Behind(p, request'[s])
    BY <1>1, <1>4, AnswerArrives
  <2>2. latest # NoPayload => Published(latest)
    BY <1>1, <1>4, ShownIsTold
  <2>3. latest # NoPayload => latest.generation < request[r].payload.generation
    BY <1>1, <1>2, <2>1 DEF Changed, Below, Payload
  <2>. QED BY <1>1, <2>1, <2>2, <2>3 DEF HeldIsAhead, Below
<1>5. PageInv'
  BY <1>1, <1>3, <1>4, PageMoves
<1>. QED BY <1>2, <1>5 DEF DashInv

\* The generation on screen is never answered beside a newer one that is held.
LEMMA SkipKeeps ==
  ASSUME DashInv, NEW r \in Request, Skip(r)
  PROVE  /\ DashInv'
         /\ ~overlapped => Below(latest, latest')
<1>1. /\ request[r].at = "answered" /\ request' = [request EXCEPT ![r] = Idle]
      /\ UNCHANGED <<server, publisher, overlapped, pending>>
      /\ latest # NoPayload /\ request[r].payload.generation = latest.generation
      /\ latest' = [latest EXCEPT !.status = request[r].payload.status,
                                  !.running = request[r].payload.running]
  BY DEF Skip, Changed
<1>2. ServerInv' /\ RequestInv' /\ request[r].payload \in Payload
  BY <1>1, AnswerEnds
<1>3. latest \in Payload
  BY <1>1 DEF DashInv, PageInv, PageType
<1>4. /\ latest' \in Payload
      /\ latest'.report = latest.report /\ latest'.generation = latest.generation
      /\ latest'.status = request[r].payload.status
  BY <1>1, <1>2, <1>3 DEF Payload
<1>5. PageType'
  BY <1>1, <1>4 DEF DashInv, PageInv, PageType
<1>6. ASSUME ~overlapped
      PROVE  /\ \A s \in Request : ~InFlight(request'[s]) /\ \A p : Behind(p, request'[s])
             /\ Published(latest') /\ Below(latest, latest')
             /\ pending = NoPayload
  <2>1. /\ Published(request[r].payload)
        /\ Below(latest, request[r].payload)
        /\ pending # NoPayload => pending \in Payload /\ Below(pending, request[r].payload)
        /\ \A s \in Request : ~InFlight(request'[s]) /\ \A p : Behind(p, request'[s])
    BY <1>1, <1>6, AnswerArrives
  <2>2. Published(latest)
    BY <1>1, <1>6, ShownIsTold
  <2>3. pending # NoPayload => latest.generation < pending.generation
    BY <1>1, <1>6 DEF DashInv, PageInv, HeldIsAhead
  <2>4. pending = NoPayload
    BY <1>1, <1>2, <1>3, <2>1, <2>3 DEF Below, Payload
  <2>5. Published(latest') /\ Below(latest, latest')
    BY <1>3, <1>4, <2>1, <2>2 DEF Published, Below, Payload
  <2>. QED BY <2>1, <2>4, <2>5
<1>7. PageInv'
  <2>1. ASSUME ~overlapped'
        PROVE  /\ \A s \in Request : ~InFlight(request'[s]) /\ \A p : Behind(p, request'[s])
               /\ Published(latest') /\ pending' = NoPayload
    BY <1>1, <1>6, <2>1
  <2>2. ~overlapped' => HeldIsAhead'
    BY <2>1 DEF HeldIsAhead
  <2>. QED BY <1>1, <1>5, <2>1, <2>2, PageMoves
<1>. QED BY <1>2, <1>6, <1>7 DEF DashInv

LEMMA ApplyPendingKeeps ==
  ASSUME DashInv, ApplyPending
  PROVE  DashInv'
<1>1. /\ pending # NoPayload /\ latest' = pending /\ pending' = NoPayload
      /\ UNCHANGED <<report, status, generation, publisher, request, overlapped>>
  BY DEF ApplyPending, server, clients
<1>2. ServerInv' /\ RequestInv'
  BY <1>1 DEF DashInv, ServerInv, ServerType, Fields, RequestInv, ReadOk, Published, Skew
<1>3. PageType'
  BY <1>1 DEF DashInv, PageInv, PageType
<1>4. ASSUME ~overlapped'
      PROVE  OnePoll' /\ Told(latest)' /\ Told(pending)' /\ HeldIsAhead'
  <2>1. OnePoll /\ Told(pending)
    BY <1>1, <1>4 DEF DashInv, PageInv
  <2>. QED BY <1>1, <2>1 DEF OnePoll, InFlight, Told, Published, Behind, Below, HeldIsAhead
<1>. QED BY <1>2, <1>3, <1>4 DEF DashInv, PageInv

-----------------------------------------------------------------------------
(* The invariant.                                                          *)

LEMMA InitDash == Init => DashInv
<1> SUFFICES ASSUME Init
             PROVE  DashInv
  OBVIOUS
<1>1. ServerInv
  BY DEF Init, ServerInv, ServerType, Fields
<1>2. RequestInv
  BY IdleIsARequest DEF Init, RequestInv
<1>3. PageInv
  BY DEF Init, PageInv, PageType, OnePoll, InFlight, Told, HeldIsAhead, Idle
<1>. QED BY <1>1, <1>2, <1>3 DEF DashInv

LEMMA NextDash == DashInv /\ [Next]_vars => DashInv'
<1> SUFFICES ASSUME DashInv, [Next]_vars
             PROVE  DashInv'
  OBVIOUS
<1>1. CASE \/ StartInteracting \/ StopInteracting \/ UNCHANGED vars
  <2>1. UNCHANGED <<report, status, generation, publisher, request, overlapped,
                    latest, pending>>
    BY <1>1 DEF StartInteracting, StopInteracting, vars, server, clients, page
  <2>. QED BY <2>1 DEF DashInv, ServerInv, ServerType, Fields, RequestInv, ReadOk,
                       Published, Skew, PageInv, PageType, OnePoll, InFlight, Told,
                       Behind, Below, HeldIsAhead
<1>2. CASE Publisher
  BY <1>2, PublisherKeeps
<1>3. CASE ApplyPending
  BY <1>3, ApplyPendingKeeps
<1>4. ASSUME NEW r \in Request,
             Poll(r) \/ Probe(r) \/ Handler(r) \/ Answer(r) \/ Disconnected(r)
      PROVE  DashInv'
  BY <1>4, PollKeeps, ProbeKeeps, ReadReportKeeps, ReadGenerationKeeps,
     ReadStatusKeeps, EndKeeps, ApplyKeeps, HoldKeeps, SkipKeeps
     DEF Handler, Answer
<1>. QED BY <1>1, <1>2, <1>3, <1>4 DEF Next

\* The server, every request in flight and the page agree after every step.
THEOREM DashInvariant == Spec => []DashInv
  BY InitDash, NextDash, PTL DEF Spec

\* The fields of one answer, read one lock at a time, are apart by at most one
\* publication under way, whatever else happens between the reads.
THEOREM AnswerSkewHolds == Spec => []AnswerSkew
<1>1. DashInv => AnswerSkew
  BY DEF DashInv, RequestInv, ReadOk, Skew, AnswerSkew
<1>. QED BY <1>1, DashInvariant, PTL

\* /api/health never counts a report it then denies.
THEOREM HealthAgreesHolds == Spec => []HealthAgrees
<1>1. DashInv => HealthAgrees
  BY Zenon DEF DashInv, RequestInv, ReadOk, HealthAgrees
<1>. QED BY <1>1, DashInvariant, PTL

\* What is held is newer than what is displayed, until two polls overlap.
THEOREM HeldIsNewerHolds == Spec => []HeldIsNewer
<1>1. DashInv => HeldIsNewer
  BY DEF DashInv, PageInv, PageType, Payload, HeldIsAhead, HeldIsNewer
<1>. QED BY <1>1, DashInvariant, PTL

\* The screen never goes back, until two polls overlap.
LEMMA StepNeverGoesBack ==
  ASSUME DashInv, [Next]_vars, latest # NoPayload, ~overlapped
  PROVE  Below(latest, latest')
<1>1. latest \in Payload
  BY DEF DashInv, PageInv, PageType
<1>2. CASE UNCHANGED latest
  BY <1>1, <1>2 DEF Below, Payload
<1>3. ASSUME NEW r \in Request, Apply(r)
      PROVE  Below(latest, latest')
  BY <1>3, AnswerArrives DEF Apply
<1>4. ASSUME NEW r \in Request, Skip(r)
      PROVE  Below(latest, latest')
  BY <1>4, SkipKeeps
<1>5. CASE ApplyPending
  BY <1>5 DEF ApplyPending, DashInv, PageInv, HeldIsAhead
<1>6. CASE Publisher \/ StartInteracting \/ StopInteracting \/ UNCHANGED vars
  <2>1. UNCHANGED latest
    BY <1>6 DEF Publisher, PublishReport, PublishStatus, BumpGeneration, MarkFinished,
                StartInteracting, StopInteracting, vars, page
  <2>. QED BY <1>2, <2>1
<1>7. ASSUME NEW r \in Request,
             \/ Poll(r) \/ Probe(r) \/ Handler(r) \/ NotReady(r) \/ Hold(r)
             \/ Disconnected(r)
      PROVE  Below(latest, latest')
  <2>1. UNCHANGED latest
    BY <1>7 DEF Poll, Probe, Handler, ReadReport, ReadGeneration, ReadStatus, Probed,
                NotReady, Hold, Disconnected, page
  <2>. QED BY <1>2, <2>1
<1>. QED BY <1>3, <1>4, <1>5, <1>6, <1>7 DEF Next, Answer

THEOREM NeverGoesBackHolds == Spec => NeverGoesBack
<1>1. DashInv /\ [Next]_vars =>
        [(latest # NoPayload /\ ~overlapped) =>
           /\ latest'.report >= latest.report
           /\ latest'.generation >= latest.generation
           /\ latest'.status >= latest.status]_vars
  <2> SUFFICES ASSUME DashInv, DashInv', [Next]_vars, latest # NoPayload, ~overlapped
               PROVE  /\ latest'.report >= latest.report
                      /\ latest'.generation >= latest.generation
                      /\ latest'.status >= latest.status
    BY NextDash
  <2>. QED BY StepNeverGoesBack DEF Below
<1>. QED BY <1>1, DashInvariant, PTL DEF Spec, NeverGoesBack
=============================================================================
